----------------------------- MODULE RecentStore -----------------------------
(***************************************************************************)
(* internal/httpapi/recent.go: the recent requests in a ring.  Both        *)
(* methods hold the mutex throughout, so each is one step.                 *)
(***************************************************************************)
EXTENDS Integers, Sequences

CONSTANTS
    Entries,        \* RecentRequest values
    Zero,           \* the zero RecentRequest
    Capacity        \* capacity; config always gives 20

ASSUME RecentAssumption == Capacity \in Nat \ {0}

VARIABLES entries, next, full

ring == <<entries, next, full>>

newRecentStore ==
    /\ entries = [i \in 0 .. Capacity - 1 |-> Zero]
    /\ next = 0
    /\ full = FALSE

(* The ring wraps and nothing says that it is full. *)
addNeverFull(entry) ==
    /\ entries' = [entries EXCEPT ![next] = entry]
    /\ next' = (next + 1) % Capacity
    /\ full' = full

add(entry) ==
    /\ entries' = [entries EXCEPT ![next] = entry]
    /\ next' = (next + 1) % Capacity
    /\ full' = (full \/ next' = 0)

count == IF full THEN Capacity ELSE next

(* The entry at an offset from the newest. *)
index(offset) ==
    IF next - 1 - offset < 0 THEN next - 1 - offset + Capacity
                             ELSE next - 1 - offset

listNewestFirst == [k \in 1..count |-> entries[index(k - 1)]]

(* The ring by itself: one add after another. *)
RecentNext == \E entry \in Entries : add(entry)

RecentSpec == newRecentStore /\ [][RecentNext]_ring

-----------------------------------------------------------------------------
Log == INSTANCE RequestLog WITH log <- listNewestFirst

(* The ring is an implementation of the list of the last Capacity requests: *)
(* it forgets exactly the oldest one and keeps the order when it wraps.     *)
RingIsLog == Log!Spec

=============================================================================
