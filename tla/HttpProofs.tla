------------------------------ MODULE HttpProofs ------------------------------
(* What the interface records and whom it lets in, for any requests, any     *)
(* number of them at once and any capacity of the ring.                      *)
EXTENDS HttpApi, FiniteSetTheorems, TLAPS

-----------------------------------------------------------------------------
(* The ring alone implements RequestLog, for every capacity. *)

Values == Entries \cup {Zero}

(* The ring has Capacity slots and next is one of them. *)
RingInv ==
    /\ entries \in [0 .. Capacity - 1 -> Values]
    /\ next \in 0 .. Capacity - 1
    /\ full \in BOOLEAN

(* The remainder that next takes, without division. *)
LEMMA Wraps ==
    ASSUME NEW n \in 0 .. Capacity - 1
    PROVE  (n + 1) % Capacity = IF n + 1 = Capacity THEN 0 ELSE n + 1
<1>1. Capacity \in Nat /\ Capacity > 0
  BY RecentAssumption
<1>2. CASE n + 1 = Capacity
  BY <1>1, <1>2, Z3
<1>3. CASE n + 1 < Capacity
  BY <1>1, <1>3, Z3
<1> QED
  BY <1>1, <1>2, <1>3

(* Going back fewer than Capacity slots stays in the ring. *)
LEMMA Slot ==
    ASSUME NEW n \in 0 .. Capacity - 1, NEW k \in 1..Capacity
    PROVE  (IF n - 1 - (k - 1) < 0 THEN n - 1 - (k - 1) + Capacity
                                   ELSE n - 1 - (k - 1)) \in 0 .. Capacity - 1
BY RecentAssumption

(* A new ring is well formed. *)
LEMMA InitRing == newRecentStore => RingInv
<1> SUFFICES ASSUME newRecentStore PROVE RingInv
  OBVIOUS
<1>1. entries \in [0 .. Capacity - 1 -> Values]
  BY DEF newRecentStore, Values
<1>2. next \in 0 .. Capacity - 1
  BY RecentAssumption DEF newRecentStore
<1>3. full \in BOOLEAN
  BY Zenon DEF newRecentStore
<1> QED
  BY <1>1, <1>2, <1>3, Zenon DEF RingInv

(* Adding an entry keeps the ring well formed. *)
LEMMA StepRing == RingInv /\ [RecentNext]_ring => RingInv'
<1> SUFFICES ASSUME RingInv, [RecentNext]_ring PROVE RingInv'
  OBVIOUS
<1>1. CASE RecentNext
  <2> PICK newest \in Entries : add(newest)
    BY <1>1 DEF RecentNext
  <2>1. next' = IF next + 1 = Capacity THEN 0 ELSE next + 1
    BY Wraps DEF RingInv, add
  <2> QED
    BY <2>1, RecentAssumption DEF RingInv, add, Values
<1>2. CASE UNCHANGED ring
  BY <1>2 DEF ring, RingInv
<1> QED
  BY <1>1, <1>2

(* The list has count elements, and the k-th is k slots behind next.        *)
LEMMA ListShape ==
    ASSUME RingInv
    PROVE  /\ count \in 0..Capacity
           /\ listNewestFirst \in Seq(Values)
           /\ Len(listNewestFirst) = count
           /\ \A k \in 1..count :
                  /\ index(k - 1) \in 0 .. Capacity - 1
                  /\ listNewestFirst[k] = entries[index(k - 1)]
<1>1. count \in 0..Capacity
  BY RecentAssumption DEF RingInv, count
<1>2. \A k \in 1..count : index(k - 1) \in 0 .. Capacity - 1
  BY RecentAssumption DEF RingInv, count, index
<1>3. \A k \in 1..count : entries[index(k - 1)] \in Values
  BY <1>2 DEF RingInv
<1> DEFINE item(k) == entries[index(k - 1)]
<1>4. listNewestFirst = [k \in 1..count |-> item(k)]
  BY DEF listNewestFirst
<1> HIDE DEF item
<1>5. \A k \in 1..count : item(k) \in Values
  BY <1>3 DEF item
<1>6. /\ listNewestFirst \in Seq(Values)
      /\ Len(listNewestFirst) = count
      /\ \A k \in 1..count : listNewestFirst[k] = item(k)
  BY <1>1, <1>4, <1>5, RecentAssumption
<1> QED
  BY <1>1, <1>2, <1>6 DEF item

(* An empty ring is an empty list. *)
LEMMA InitLog == newRecentStore => Log!Init
BY DEF newRecentStore, Log!Init, listNewestFirst, count

(* Adding an entry puts it in front of the list; a full list loses its last. *)
LEMMA AddRecords ==
    ASSUME RingInv, RingInv', NEW newest \in Entries, add(newest)
    PROVE  Log!Record(newest)
<1> DEFINE old == listNewestFirst
           kept == IF count < Capacity THEN old ELSE SubSeq(old, 1, Capacity - 1)
           new == <<newest>> \o kept
<1>1. Capacity \in Nat /\ Capacity > 0
  BY RecentAssumption
<1>2. next' = IF next + 1 = Capacity THEN 0 ELSE next + 1
  BY Wraps DEF RingInv, add
<1>3. count' = IF count < Capacity THEN count + 1 ELSE Capacity
  <2>1. full' <=> full \/ next' = 0
    BY Zenon DEF add
  <2>2. next \in 0 .. Capacity - 1
    BY DEF RingInv
  <2>3. CASE full
    BY <1>1, <2>1, <2>3 DEF count
  <2>4. CASE ~full
    BY <1>1, <1>2, <2>1, <2>2, <2>4 DEF count
  <2> QED
    BY <2>3, <2>4
<1>4. /\ old \in Seq(Values)
      /\ Len(old) = count
      /\ \A k \in 1..count : old[k] = entries[index(k - 1)]
      /\ count \in 0..Capacity
  BY ListShape
<1>5. /\ old' \in Seq(Values)
      /\ Len(old') = count'
      /\ \A k \in 1..count' : old'[k] = entries'[index(k - 1)']
      /\ count' \in 0..Capacity
  <2>1. \A k \in 1..count' : old'[k] = entries'[index(k - 1)']
    BY DEF listNewestFirst, index
  <2>2. RingInv' /\ count' \in 0..Capacity
    BY <1>1, <1>3, <1>4
  <2>3. \A k \in 1..count' : index(k - 1)' \in 0 .. Capacity - 1
    <3>1. next' \in 0 .. Capacity - 1
      BY DEF RingInv
    <3>2. count' <= Capacity /\ (count' <= next' \/ count' = Capacity)
      <4>1. CASE full'
        BY <1>1, <4>1 DEF count
      <4>2. CASE ~full'
        BY <1>1, <3>1, <4>2 DEF count
      <4> QED
        BY <4>1, <4>2
    <3> TAKE k \in 1..count'
    <3>3. k \in 1..Capacity
      BY <1>1, <2>2, <3>2
    <3>4. index(k - 1)' = IF next' - 1 - (k - 1) < 0
                          THEN next' - 1 - (k - 1) + Capacity
                          ELSE next' - 1 - (k - 1)
      BY DEF index
    <3> QED
      BY <3>1, <3>3, <3>4, Slot, Zenon
  <2> DEFINE item(k) == entries'[index(k - 1)']
  <2>4. old' = [k \in 1..count' |-> item(k)]
    BY DEF listNewestFirst, index
  <2>5. \A k \in 1..count' : item(k) \in Values
    BY <2>2, <2>3 DEF RingInv
  <2> HIDE DEF item
  <2>6. old' \in Seq(Values) /\ Len(old') = count'
    BY <2>2, <2>4, <2>5, <1>1
  <2> QED
    BY <2>1, <2>2, <2>6
<1>6. /\ new \in Seq(Values)
      /\ Len(new) = count'
      /\ \A k \in 1..count' : new[k] = IF k = 1 THEN newest ELSE old[k - 1]
  <2>1. CASE count < Capacity
    BY <1>1, <1>3, <1>4, <2>1 DEF Values
  <2>2. CASE count = Capacity
    <3>1. /\ kept = SubSeq(old, 1, Capacity - 1)
          /\ kept \in Seq(Values)
          /\ Len(kept) = Capacity - 1
          /\ \A k \in 1 .. Capacity - 1 : kept[k] = old[k]
      BY <1>1, <1>4, <2>2
    <3> HIDE DEF kept
    <3> QED
      BY <1>1, <1>3, <1>4, <2>2, <3>1 DEF Values
  <2>3. count < Capacity \/ count = Capacity
    BY <1>1, <1>4
  <2> HIDE DEF new
  <2> QED
    BY <2>1, <2>2, <2>3
<1>7. \A k \in 1..count' : old'[k] = IF k = 1 THEN newest ELSE old[k - 1]
  <2> SUFFICES ASSUME NEW k \in 1..count'
               PROVE  old'[k] = IF k = 1 THEN newest ELSE old[k - 1]
    OBVIOUS
  <2>1. k \in Nat /\ k >= 1 /\ k <= Capacity
    BY <1>1, <1>5
  <2>2. CASE k = 1
    <3>1. index(k - 1)' = next
      BY <1>1, <1>2, <2>2 DEF index, RingInv
    <3> QED
      BY <1>5, <2>2, <3>1 DEF add, RingInv
  <2>3. CASE k > 1
    <3>1. k - 1 \in 1..count
      BY <1>1, <1>3, <1>4, <2>1, <2>3
    <3>2. index(k - 1)' = index(k - 2)
      BY <1>1, <1>2, <2>1, <2>3 DEF index, RingInv
    <3>3. index(k - 2) # next /\ index(k - 2) \in 0 .. Capacity - 1
      BY <1>1, <2>1, <2>3 DEF index, RingInv
    <3>4. old[k - 1] = entries[index(k - 2)]
      <4>1. (k - 1) - 1 = k - 2
        BY <2>1
      <4> QED
        BY <1>4, <3>1, <4>1
    <3>5. entries'[index(k - 2)] = entries[index(k - 2)]
      BY <3>3 DEF add, RingInv
    <3> QED
      BY <1>5, <2>3, <3>2, <3>4, <3>5
  <2> QED
    BY <2>1, <2>2, <2>3
<1>8. old' = new
  <2> HIDE DEF old, new
  <2> QED
    BY <1>5, <1>6, <1>7
<1> QED
  BY <1>4, <1>8 DEF Log!Record

(* recent.go's ring of any capacity shows exactly what the diagnostics page *)
(* promises: the last Capacity recorded requests, the latest first.         *)
THEOREM RingImplementsLog == RecentSpec => RingIsLog
<1>1. RecentSpec => []RingInv
  BY InitRing, StepRing, PTL DEF RecentSpec
<1>2. RingInv /\ RingInv' /\ [RecentNext]_ring => [Log!Next]_listNewestFirst
  <2> SUFFICES ASSUME RingInv, RingInv', [RecentNext]_ring
               PROVE  Log!Next \/ UNCHANGED listNewestFirst
    OBVIOUS
  <2>1. CASE RecentNext
    BY <2>1, AddRecords DEF RecentNext, Log!Next
  <2>2. CASE UNCHANGED ring
    BY <2>2 DEF ring, listNewestFirst, count, index
  <2> QED
    BY <2>1, <2>2
<1> QED
  BY <1>1, <1>2, InitLog, PTL DEF RecentSpec, RingIsLog, Log!Spec

-----------------------------------------------------------------------------
(* The inductive invariant *)

Places == {"idle", "route", "call", "observe", "add"}
Notes == {Empty, "chip", "idempotent-hit", "noop", "chip_busy", "unauthorized",
          "bad_request", "error"}
Reasons == {Empty, "not_found", "unauthorized", "method", "body", "cached", "fresh",
            "noop", "page", "input", "busy", "chip"}
StateRecords == [status: Nat, note: Notes, why: Reasons]
EntryRecords == [id: Nat, path: BusinessPaths \cup {Empty}, status: Nat, note: Notes]

(* What the handlers of the business paths answer, and withAuth for them.   *)
IsAnswer(status, note, why) ==
    \/ status = 401 /\ note = "unauthorized" /\ why = "unauthorized"
    \/ status = 405 /\ note = "bad_request" /\ why = "method"
    \/ status = 400 /\ note = "bad_request" /\ why \in {"body", "input"}
    \/ status = 200 /\ note = "idempotent-hit" /\ why = "cached"
    \/ status = 200 /\ note = "chip" /\ why = "fresh"
    \/ status = 200 /\ note = "noop" /\ why = "noop"
    \/ status = 503 /\ note = "chip_busy" /\ why = "busy"
    \/ status \in {500, 503} /\ note = "error" /\ why = "chip"

HttpTypes ==
    /\ pc \in [Handlers -> Places]
    /\ request \in [Handlers -> Requests \cup {NoRequest}]
    /\ state \in [Handlers -> StateRecords]
    /\ entry \in [Handlers -> EntryRecords]
    /\ served \in 0..MaxRequests
    /\ answered \in SUBSET (1..served)

(* A handler has passed withAuth before it calls the service, and its       *)
(* response is one of the answers until the entry made of it is added.      *)
AnswerInv ==
    \A p \in Handlers :
        /\ pc[p] \in {"route", "call", "idle"} => state[p] = NoState
        /\ pc[p] = "call" => Admitted(request[p])
        /\ pc[p] \in {"observe", "add"} /\ isBusinessPath(request[p].path) =>
               IsAnswer(state[p].status, state[p].note, state[p].why)
        /\ pc[p] = "add" =>
               /\ isBusinessPath(request[p].path)
               /\ entry[p].path = request[p].path
               /\ entry[p].status = state[p].status
               /\ entry[p].note = state[p].note

(* Requests in progress have numbers of their own, and are among the        *)
(* answered ones exactly from the response to a business path on.           *)
NumberInv ==
    /\ \A p \in Handlers : pc[p] # "idle" => entry[p].id \in 1..served
    /\ \A p, q \in Handlers :
           p # q /\ pc[p] # "idle" /\ pc[q] # "idle" => entry[p].id # entry[q].id
    /\ \A p \in Handlers : pc[p] \in {"route", "call"} => entry[p].id \notin answered
    /\ \A p \in Handlers : pc[p] \in {"observe", "add"} =>
           (entry[p].id \in answered <=> isBusinessPath(request[p].path))

Adding == {entry[p].id : p \in {q \in Handlers : pc[q] \in {"observe", "add"}}}
Done == answered \ Adding

(* The list: no request twice, only those that are done, and as many as the *)
(* ring has room for.                                                       *)
ListInv ==
    /\ \A j, k \in 1..Len(list) : j # k => list[j].id # list[k].id
    /\ \A k \in 1..Len(list) : list[k].id \in Done
    /\ Len(list) = IF Cardinality(Done) <= Capacity THEN Cardinality(Done)
                                                   ELSE Capacity

HttpInv == HttpTypes /\ AnswerInv /\ NumberInv /\ RingInv /\ ListInv

(* The empty string is none of the words used. *)
LEMMA EmptyIsNoWord ==
    /\ Empty \notin {"chip", "idempotent-hit", "noop", "chip_busy", "unauthorized",
                     "bad_request", "error"}
    /\ Empty \notin BusinessPaths
BY Zenon DEF Empty, BusinessPaths

(* The records that a goroutine starts with. *)
LEMMA EmptyRecords == NoState \in StateRecords /\ NoEntry \in EntryRecords
BY DEF NoState, NoEntry, StateRecords, EntryRecords, Notes, Reasons

(* Every answer has a status and a note. *)
LEMMA AnswersAreComplete ==
    ASSUME NEW status \in Nat, NEW note, NEW why, IsAnswer(status, note, why)
    PROVE  status # 0 /\ note # Empty
<1>1. status # 0
  BY SMT DEF IsAnswer
<1>2. note # Empty
  BY EmptyIsNoWord, Zenon DEF IsAnswer
<1> QED
  BY <1>1, <1>2

(* Nothing is recorded before the first request. *)
LEMMA InitHttp == Init => HttpInv
<1> SUFFICES ASSUME Init PROVE HttpInv
  OBVIOUS
<1>1. HttpTypes /\ AnswerInv /\ NumberInv
  BY HttpAssumption, EmptyRecords DEF Init, HttpTypes, AnswerInv, NumberInv, Places
<1>2. RingInv
  BY InitRing DEF Init
<1>3. list = <<>>
  BY DEF Init, newRecentStore, list, listNewestFirst, count
<1>4. Done = {} /\ Cardinality(Done) = 0
  BY FS_EmptySet DEF Init, Done
<1>5. ListInv
  BY <1>3, <1>4, RecentAssumption DEF ListInv
<1> QED
  BY <1>1, <1>2, <1>5 DEF HttpInv

(* Steps that leave the ring and the finished requests alone. *)
LEMMA ListKept ==
    ASSUME HttpInv, UNCHANGED ring, Done' = Done
    PROVE  RingInv' /\ ListInv'
<1>1. RingInv'
  BY DEF HttpInv, RingInv, ring
<1>2. list' = list
  BY DEF list, listNewestFirst, count, index, ring
<1>3. ListInv'
  BY <1>2 DEF HttpInv, ListInv
<1> QED
  BY <1>1, <1>3

(* A response: the request counts as answered, but not yet as recorded.     *)
LEMMA RespondKeeps ==
    ASSUME HttpInv, NEW p \in Handlers, pc[p] \in {"route", "call"},
           NEW status \in Nat, NEW note \in Notes, NEW why \in Reasons,
           Respond(p, status, note, why), Unshared,
           isBusinessPath(request[p].path) => IsAnswer(status, note, why)
    PROVE  HttpInv'
<1> DEFINE id == entry[p].id
           new == [status |-> status, note |-> note, why |-> why]
<1>1. state[p] = NoState /\ id \in 1..served /\ id \notin answered
  BY DEF HttpInv, AnswerInv, NumberInv
<1>2. UNCHANGED <<request, entry, ring, served>>
  BY DEF Unshared
<1>3. state' = [state EXCEPT ![p] = new] /\ new \in StateRecords
  <2>1. state[p].status = 0
    BY <1>1 DEF NoState
  <2>2. state' = [state EXCEPT ![p] = new]
    BY <2>1 DEF Respond, HttpInv, HttpTypes
  <2> QED
    BY <2>2 DEF StateRecords
<1>4. pc' = [pc EXCEPT ![p] = "observe"]
  BY DEF Respond, Goto
<1>5. answered' = IF isBusinessPath(request[p].path) THEN answered \cup {id}
                                                    ELSE answered
  BY DEF Respond
<1> HIDE DEF id, new
<1>6. HttpTypes'
  BY <1>1, <1>2, <1>3, <1>4, <1>5 DEF HttpInv, HttpTypes, Places
<1>7. AnswerInv'
  BY <1>2, <1>3, <1>4 DEF HttpInv, HttpTypes, AnswerInv, new
<1>8. NumberInv'
  BY <1>1, <1>2, <1>4, <1>5 DEF HttpInv, HttpTypes, NumberInv, id
<1>9. Done' = Done
  <2>1. Adding' = Adding \cup {id}
    BY <1>2, <1>4 DEF Adding, HttpInv, HttpTypes, id
  <2> QED
    BY <1>1, <1>5, <2>1 DEF Done
<1> QED
  BY <1>2, <1>6, <1>7, <1>8, <1>9, ListKept DEF HttpInv

(* A request comes and gets the next number. *)
LEMMA ArriveKeeps ==
    ASSUME HttpInv, NEW p \in Handlers, NEW r \in Requests, Arrive(p, r)
    PROVE  HttpInv'
<1> DEFINE new == [NoEntry EXCEPT !.id = served + 1]
<1>1. /\ pc[p] = "idle" /\ pc' = [pc EXCEPT ![p] = "route"]
      /\ served' = served + 1 /\ served' \in 0..MaxRequests
      /\ request' = [request EXCEPT ![p] = r]
      /\ entry' = [entry EXCEPT ![p] = new]
      /\ UNCHANGED <<state, ring, answered>>
  BY HttpAssumption DEF Arrive, Goto, HttpInv, HttpTypes
<1>2. new \in EntryRecords /\ new.id = served + 1
  <2>1. new = [id |-> served + 1, path |-> Empty, status |-> 0, note |-> Empty]
    BY DEF NoEntry
  <2>2. served + 1 \in Nat
    BY HttpAssumption DEF HttpInv, HttpTypes
  <2> HIDE DEF new
  <2>3. new \in EntryRecords
    BY <2>1, <2>2 DEF EntryRecords, Notes
  <2> QED
    BY <2>1, <2>3
<1> HIDE DEF new
<1>3. HttpTypes'
  BY <1>1, <1>2 DEF HttpInv, HttpTypes, Places
<1>4. AnswerInv'
  BY <1>1 DEF HttpInv, HttpTypes, AnswerInv
<1>5. NumberInv'
  BY <1>1, <1>2 DEF HttpInv, HttpTypes, NumberInv
<1>6. Done' = Done
  BY <1>1 DEF Done, Adding, HttpInv, HttpTypes
<1> QED
  BY <1>1, <1>3, <1>4, <1>5, <1>6, ListKept DEF HttpInv

(* withAuth let the request in: the handler calls the service. *)
LEMMA CallKeeps ==
    ASSUME HttpInv, NEW p \in Handlers, CallService(p)
    PROVE  HttpInv'
<1>1. /\ pc[p] = "route" /\ pc' = [pc EXCEPT ![p] = "call"] /\ Admitted(request[p])
      /\ UNCHANGED <<request, entry, ring, served, state, answered>>
  BY DEF CallService, Goto, Unshared
<1>2. HttpTypes'
  BY <1>1 DEF HttpInv, HttpTypes, Places
<1>3. AnswerInv'
  BY <1>1 DEF HttpInv, HttpTypes, AnswerInv, Admitted
<1>4. NumberInv'
  BY <1>1 DEF HttpInv, HttpTypes, NumberInv
<1>5. Done' = Done
  BY <1>1 DEF Done, Adding, HttpInv, HttpTypes
<1> QED
  BY <1>1, <1>2, <1>3, <1>4, <1>5, ListKept DEF HttpInv

(* observe makes the entry of a business request from what was answered.    *)
LEMMA ObserveBusinessKeeps ==
    ASSUME HttpInv, NEW p \in Handlers, ObserveBusiness(p)
    PROVE  HttpInv'
<1> DEFINE new == entry'[p]
<1>1. /\ pc[p] = "observe" /\ pc' = [pc EXCEPT ![p] = "add"]
      /\ isBusinessPath(request[p].path)
      /\ UNCHANGED <<request, state, ring, served, answered>>
  BY DEF ObserveBusiness, Goto
<1>2. IsAnswer(state[p].status, state[p].note, state[p].why)
  BY <1>1 DEF HttpInv, AnswerInv
<1>3. /\ entry' = [entry EXCEPT ![p] = new]
      /\ new = [id |-> entry[p].id, path |-> request[p].path,
                status |-> state[p].status, note |-> state[p].note]
  <2>1. state[p].status # 0 /\ state[p].note # Empty
    BY <1>2, AnswersAreComplete DEF HttpInv, HttpTypes, StateRecords
  <2> QED
    BY <2>1 DEF ObserveBusiness, statusOrOK, HttpInv, HttpTypes
<1>4. /\ new \in EntryRecords /\ new.id = entry[p].id
      /\ new.path = request[p].path /\ new.status = state[p].status
      /\ new.note = state[p].note
  <2>1. state[p].status \in Nat /\ state[p].note \in Notes /\ entry[p].id \in Nat
    BY DEF HttpInv, HttpTypes, StateRecords, EntryRecords
  <2>2. request[p].path \in BusinessPaths
    BY <1>1 DEF isBusinessPath
  <2> QED
    BY <1>3, <2>1, <2>2 DEF EntryRecords
<1> HIDE DEF new
<1>5. HttpTypes'
  BY <1>1, <1>3, <1>4 DEF HttpInv, HttpTypes, Places
<1>6. AnswerInv'
  BY <1>1, <1>3, <1>4 DEF HttpInv, HttpTypes, AnswerInv
<1>7. \A q \in Handlers : entry'[q].id = entry[q].id
  BY <1>3, <1>4 DEF HttpInv, HttpTypes
<1>8. NumberInv'
  BY <1>1, <1>7 DEF HttpInv, HttpTypes, NumberInv
<1>9. Done' = Done
  <2>1. \A q \in Handlers : pc'[q] \in {"observe", "add"} <=> pc[q] \in {"observe", "add"}
    BY <1>1 DEF HttpInv, HttpTypes
  <2> QED
    BY <1>1, <1>7, <2>1 DEF Done, Adding
<1> QED
  BY <1>1, <1>5, <1>6, <1>8, <1>9, ListKept DEF HttpInv

(* The end of a goroutine: everything but the list. *)
LEMMA FinishKeeps ==
    ASSUME HttpInv, NEW p \in Handlers, Finish(p), UNCHANGED <<served, answered>>
    PROVE  HttpTypes' /\ AnswerInv' /\ NumberInv'
<1>1. NoState \in StateRecords /\ NoEntry \in EntryRecords
  BY EmptyRecords
<1>2. /\ pc' = [pc EXCEPT ![p] = "idle"]
      /\ request' = [request EXCEPT ![p] = NoRequest]
      /\ state' = [state EXCEPT ![p] = NoState]
      /\ entry' = [entry EXCEPT ![p] = NoEntry]
  BY DEF Finish, Goto
<1>3. HttpTypes'
  BY <1>1, <1>2 DEF HttpInv, HttpTypes, Places
<1>4. AnswerInv'
  BY <1>2 DEF HttpInv, HttpTypes, AnswerInv
<1>5. NumberInv'
  BY <1>2 DEF HttpInv, HttpTypes, NumberInv
<1> QED
  BY <1>3, <1>4, <1>5

(* An entry about to be added tells the truth about its request. *)
LEMMA EntriesTrue == HttpInv => RecordsAreTruthful
<1> SUFFICES ASSUME HttpInv, NEW p \in Handlers, pc[p] = "add"
             PROVE  LET e == entry[p]
                        why == state[p].why
                    IN  /\ e \in Entry
                        /\ e.note = "chip" <=> why = "fresh"
                        /\ e.note = "idempotent-hit" <=> why = "cached"
                        /\ e.note = "chip_busy" <=> why = "busy"
                        /\ e.note = "unauthorized" <=> e.status = 401
                        /\ e.status = 200 <=>
                               e.note \in {"chip", "idempotent-hit", "noop"}
                        /\ e.note = "error" <=> why = "chip"
                        /\ e.note = "error" => e.status >= 500
                        /\ e.note = "bad_request" => e.status \in {400, 405}
  BY DEF RecordsAreTruthful
<1> DEFINE e == entry[p]
<1>1. /\ isBusinessPath(request[p].path)
      /\ e.path = request[p].path /\ e.status = state[p].status
      /\ e.note = state[p].note
      /\ IsAnswer(e.status, e.note, state[p].why)
  BY DEF HttpInv, AnswerInv
<1>2. /\ e \in EntryRecords /\ e.id \in 1..MaxRequests /\ e.status \in Nat
      /\ e.path \in BusinessPaths
  <2>1. e \in EntryRecords
    BY DEF HttpInv, HttpTypes
  <2>2. e.id \in 1..MaxRequests
    BY HttpAssumption DEF HttpInv, HttpTypes, NumberInv
  <2> QED
    BY <1>1, <2>1, <2>2 DEF EntryRecords, isBusinessPath
<1> HIDE DEF e
<1>3. e \in Entry
  <2>1. e.status \in {200, 400, 401, 405, 500, 503}
    BY <1>1, <1>2 DEF IsAnswer
  <2>2. e.note \in {"chip", "idempotent-hit", "noop", "chip_busy", "unauthorized",
                    "bad_request", "error"}
    BY <1>1 DEF IsAnswer
  <2> QED
    BY <1>2, <2>1, <2>2 DEF EntryRecords, Entry
<1>4. /\ e.note = "chip" <=> state[p].why = "fresh"
      /\ e.note = "idempotent-hit" <=> state[p].why = "cached"
      /\ e.note = "chip_busy" <=> state[p].why = "busy"
      /\ e.note = "error" <=> state[p].why = "chip"
  BY <1>1 DEF IsAnswer
<1>5. /\ e.note = "unauthorized" <=> e.status = 401
      /\ e.status = 200 <=> e.note \in {"chip", "idempotent-hit", "noop"}
      /\ e.note = "error" => e.status >= 500
      /\ e.note = "bad_request" => e.status \in {400, 405}
  BY <1>1, <1>2 DEF IsAnswer
<1> QED
  BY <1>3, <1>4, <1>5 DEF e

(* The requests that are done are finitely many. *)
LEMMA DoneFinite ==
    ASSUME HttpInv
    PROVE  IsFiniteSet(Done) /\ Cardinality(Done) \in Nat
<1>1. IsFiniteSet(1..served)
  BY HttpAssumption, FS_Interval DEF HttpInv, HttpTypes
<1>2. Done \in SUBSET (1..served)
  BY DEF Done, HttpInv, HttpTypes
<1>3. IsFiniteSet(Done)
  BY <1>1, <1>2, FS_Subset
<1> QED
  BY <1>3, FS_CardinalityType

(* recentStore.add: the request is done now and the list holds it, if need  *)
(* be instead of the oldest one.                                            *)
LEMMA AddKeeps ==
    ASSUME HttpInv, NEW p \in Handlers, Add(p)
    PROVE  HttpInv'
<1> DEFINE e == entry[p]
           old == list
           new == list'
<1>1. pc[p] = "add" /\ add(e) /\ Finish(p) /\ UNCHANGED <<served, answered>>
  BY DEF Add
<1>2. HttpTypes' /\ AnswerInv' /\ NumberInv'
  BY <1>1, FinishKeeps
<1>3. e \in Entries
  BY <1>1, EntriesTrue, HttpAssumption DEF RecordsAreTruthful
<1>4. RingInv /\ RingInv'
  BY <1>1, <1>3, StepRing DEF HttpInv, RecentNext
<1>5. e.id \in answered /\ e.id \in Adding
  BY <1>1 DEF HttpInv, NumberInv, AnswerInv, Adding
<1>6. Done' = Done \cup {e.id} /\ e.id \notin Done
  <2>1. \A q \in Handlers : q # p =>
            /\ pc'[q] = pc[q] /\ entry'[q] = entry[q]
            /\ pc[q] # "idle" => entry[q].id # e.id
    BY <1>1 DEF Finish, Goto, HttpInv, HttpTypes, NumberInv
  <2>2. pc'[p] = "idle"
    BY <1>1 DEF Finish, Goto, HttpInv, HttpTypes
  <2>3. Adding' = Adding \ {e.id}
    BY <1>1, <2>1, <2>2 DEF Adding
  <2> QED
    BY <1>1, <1>5, <2>3 DEF Done
<1>7. Cardinality(Done') = Cardinality(Done) + 1 /\ Cardinality(Done) \in Nat
  BY <1>6, DoneFinite, FS_AddElement
<1>8. Capacity \in Nat /\ Capacity > 0
  BY RecentAssumption
<1>9. old \in Seq(Values) /\ Len(old) \in 0..Capacity
  BY <1>4, ListShape DEF list
<1>10. new = IF Len(old) < Capacity THEN <<e>> \o old
                                    ELSE <<e>> \o SubSeq(old, 1, Capacity - 1)
  BY <1>1, <1>3, <1>4, AddRecords DEF Log!Record, list
<1> HIDE DEF e, old, new
<1>11. e \in Values
  BY <1>3 DEF Values
<1>12. /\ Len(new) = IF Len(old) < Capacity THEN Len(old) + 1 ELSE Capacity
       /\ \A k \in 1..Len(new) : new[k] = IF k = 1 THEN e ELSE old[k - 1]
  <2>1. CASE Len(old) < Capacity
    BY <1>8, <1>9, <1>10, <1>11, <2>1
  <2>2. CASE Len(old) = Capacity
    <3> DEFINE kept == SubSeq(old, 1, Capacity - 1)
    <3>1. /\ kept \in Seq(Values)
          /\ Len(kept) = Capacity - 1
          /\ \A k \in 1 .. Capacity - 1 : kept[k] = old[k]
      BY <1>8, <1>9, <2>2
    <3>2. new = <<e>> \o kept
      BY <1>10, <2>2, <1>8
    <3> HIDE DEF kept
    <3> QED
      BY <1>8, <1>9, <1>11, <2>2, <3>1, <3>2
  <2> QED
    BY <1>8, <1>9, <2>1, <2>2
<1>13. /\ \A j, k \in 1..Len(old) : j # k => old[j].id # old[k].id
       /\ \A k \in 1..Len(old) : old[k].id \in Done
       /\ Len(old) = IF Cardinality(Done) <= Capacity THEN Cardinality(Done)
                                                     ELSE Capacity
  BY DEF HttpInv, ListInv, old
<1>14. \A k \in 1..Len(new) : k = 1 \/ k - 1 \in 1..Len(old)
  BY <1>8, <1>9, <1>12
<1>15. \A k \in 1..Len(new) : new[k].id \in Done'
  BY <1>6, <1>12, <1>13, <1>14
<1>16. \A j, k \in 1..Len(new) : j # k => new[j].id # new[k].id
  <2> SUFFICES ASSUME NEW j \in 1..Len(new), NEW k \in 1..Len(new), j # k
               PROVE  new[j].id # new[k].id
    OBVIOUS
  <2>1. j - 1 # k - 1
    BY <1>8, <1>9, <1>12
  <2>2. CASE j = 1
    BY <1>6, <1>12, <1>13, <1>14, <2>2
  <2>3. CASE k = 1
    BY <1>6, <1>12, <1>13, <1>14, <2>3
  <2>4. CASE j # 1 /\ k # 1
    BY <1>12, <1>13, <1>14, <2>1, <2>4
  <2> QED
    BY <2>2, <2>3, <2>4
<1>17. Len(new) = IF Cardinality(Done') <= Capacity THEN Cardinality(Done')
                                                   ELSE Capacity
  BY <1>7, <1>8, <1>12, <1>13
<1>18. ListInv'
  BY <1>15, <1>16, <1>17 DEF ListInv, new
<1> QED
  BY <1>2, <1>4, <1>18 DEF HttpInv

(* The other steps of a goroutine. *)
LEMMA HandlerKeeps ==
    ASSUME HttpInv, NEW p \in Handlers,
           \/ NotFound(p) \/ Unauthorized(p) \/ requireMethod(p) \/ BadBody(p)
           \/ ServiceAnswers(p) \/ ServiceFails(p) \/ handleReset(p) \/ handlePage(p)
           \/ ObserveOther(p)
    PROVE  HttpInv'
<1>1. CASE NotFound(p)
  BY <1>1, RespondKeeps DEF NotFound, Routes, isBusinessPath, Notes, Reasons
<1>2. CASE Unauthorized(p)
  BY <1>2, RespondKeeps DEF Unauthorized, Notes, Reasons, IsAnswer
<1>3. CASE requireMethod(p)
  BY <1>3, RespondKeeps DEF requireMethod, Notes, Reasons, IsAnswer
<1>4. CASE BadBody(p)
  BY <1>4, RespondKeeps DEF BadBody, Notes, Reasons, IsAnswer
<1>5. CASE ServiceAnswers(p)
  BY <1>5, RespondKeeps DEF ServiceAnswers, Notes, Reasons, IsAnswer
<1>6. CASE ServiceFails(p)
  <2>1. PICK error \in ChipErrors \cup InputErrors :
            Respond(p, serviceErrorResponse(error).status,
                    serviceErrorResponse(error).note, Cause(error))
    BY <1>6 DEF ServiceFails
  <2> DEFINE status == serviceErrorResponse(error).status
             note == serviceErrorResponse(error).note
  <2>2. /\ status \in Nat /\ note \in Notes /\ Cause(error) \in Reasons
        /\ IsAnswer(status, note, Cause(error))
    BY DEF serviceErrorResponse, Cause, Notes, Reasons, IsAnswer, ChipErrors,
       InputErrors
  <2> QED
    BY <1>6, <2>1, <2>2, RespondKeeps DEF ServiceFails
<1>7. CASE handleReset(p)
  BY <1>7, RespondKeeps DEF handleReset, Notes, Reasons, IsAnswer
<1>8. CASE handlePage(p)
  <2>1. ~isBusinessPath(request[p].path)
    BY <1>8 DEF handlePage, isBusinessPath, BusinessPaths
  <2> QED
    BY <1>8, <2>1, RespondKeeps DEF handlePage, Notes, Reasons
<1>9. CASE ObserveOther(p)
  <2>1. /\ pc[p] = "observe" /\ ~isBusinessPath(request[p].path) /\ Finish(p)
        /\ UNCHANGED <<ring, served, answered>>
    BY <1>9 DEF ObserveOther
  <2>2. entry[p].id \notin answered /\ entry[p].id \in Adding
    BY <2>1 DEF HttpInv, NumberInv, Adding
  <2>3. Adding' = Adding \ {entry[p].id}
    <3>1. \A q \in Handlers : q # p =>
              /\ pc'[q] = pc[q] /\ entry'[q] = entry[q]
              /\ pc[q] # "idle" => entry[q].id # entry[p].id
      BY <2>1 DEF Finish, Goto, HttpInv, HttpTypes, NumberInv
    <3>2. pc'[p] = "idle"
      BY <2>1 DEF Finish, Goto, HttpInv, HttpTypes
    <3> QED
      BY <2>1, <3>1, <3>2 DEF Adding
  <2>4. Done' = Done
    BY <2>1, <2>2, <2>3 DEF Done
  <2> QED
    BY <2>1, <2>4, FinishKeeps, ListKept DEF HttpInv
<1> QED
  BY <1>1, <1>2, <1>3, <1>4, <1>5, <1>6, <1>7, <1>8, <1>9

(* The invariant holds in every behaviour. *)
LEMMA HttpHolds == Spec => []HttpInv
<1>1. HttpInv /\ [Next]_vars => HttpInv'
  <2> SUFFICES ASSUME HttpInv, [Next]_vars PROVE HttpInv'
    OBVIOUS
  <2>1. CASE UNCHANGED vars
    <3>1. HttpTypes' /\ AnswerInv' /\ NumberInv'
      BY <2>1 DEF vars, HttpInv, HttpTypes, AnswerInv, NumberInv
    <3>2. Done' = Done /\ UNCHANGED ring
      BY <2>1 DEF vars, Done, Adding
    <3> QED
      BY <3>1, <3>2, ListKept DEF HttpInv
  <2> QED
    BY <2>1, ArriveKeeps, CallKeeps, ObserveBusinessKeeps, AddKeeps, HandlerKeeps
       DEF Next
<1> QED
  BY <1>1, InitHttp, PTL DEF Spec

-----------------------------------------------------------------------------
(* The properties *)

(* withAuth: with a token configured, no request without it gets as far as  *)
(* the service, whatever else runs.                                         *)
THEOREM TokenRequired == Spec => []UnauthorizedStaysOut
<1>1. HttpInv => UnauthorizedStaysOut
  BY DEF HttpInv, AnswerInv, UnauthorizedStaysOut, Admitted, needsAuth, authorized,
     allowQueryToken
<1> QED
  BY <1>1, HttpHolds, PTL

(* observe and writeServiceError: what is recorded of a request is what     *)
(* happened to it.                                                          *)
THEOREM TruthfulRecords == Spec => []RecordsAreTruthful
BY EntriesTrue, HttpHolds, PTL

(* observe and recentStore: requests that finish together are each recorded *)
(* once, and the list holds as many of the finished ones as it has room for.*)
THEOREM EachRecordedOnce == Spec => []RecordedOnce
<1>1. HttpInv => RecordedOnce
  <2> SUFFICES ASSUME HttpInv PROVE RecordedOnce
    OBVIOUS
  <2> DEFINE listed == {list[k].id : k \in DOMAIN list}
             number == [k \in 1..Len(list) |-> list[k].id]
  <2>1. list \in Seq(Values) /\ Len(list) \in Nat /\ DOMAIN list = 1..Len(list)
    <3>1. list \in Seq(Values)
      BY ListShape DEF HttpInv, list
    <3> QED
      BY <3>1
  <2>2. /\ \A j, k \in 1..Len(list) : j # k => list[j].id # list[k].id
        /\ \A k \in 1..Len(list) : list[k].id \in Done
        /\ Len(list) = IF Cardinality(Done) <= Capacity THEN Cardinality(Done)
                                                       ELSE Capacity
    BY DEF HttpInv, ListInv
  <2>3. number \in Bijection(1..Len(list), listed)
    <3>1. number \in [1..Len(list) -> listed]
      BY <2>1
    <3>2. \A j, k \in 1..Len(list) : number[j] = number[k] => j = k
      BY <2>2
    <3>3. \A t \in listed : \E k \in 1..Len(list) : number[k] = t
      BY <2>1
    <3> QED
      BY <3>1, <3>2, <3>3 DEF Bijection, Injection, Surjection, IsInjective
  <2>4. Cardinality(listed) = Len(list)
    <3>1. IsFiniteSet(1..Len(list)) /\ Cardinality(1..Len(list)) = Len(list)
      BY <2>1, FS_Interval
    <3> QED
      BY <2>3, <3>1, FS_Bijection DEF ExistsBijection
  <2>5. listed \subseteq Done
    BY <2>1, <2>2
  <2>6. Cardinality(Done) <= Capacity => listed = Done
    BY <2>2, <2>4, <2>5, DoneFinite, FS_Subset
  <2>7. ~(Cardinality(Done) <= Capacity) => Len(list) = Capacity
    BY <2>2
  <2> HIDE DEF listed
  <2>8. /\ Cardinality(listed) = Len(list)
        /\ listed \subseteq Done
        /\ IF Cardinality(Done) <= Capacity THEN listed = Done
                                           ELSE Len(list) = Capacity
    BY <2>4, <2>5, <2>6, <2>7
  <2> QED
    BY <2>8, Zenon DEF RecordedOnce, listed, Done, Adding
<1> QED
  BY <1>1, HttpHolds, PTL

(* recentStore under concurrent requests: the handlers' adds are the        *)
(* records of RequestLog, so the page shows the last Capacity of them.      *)
THEOREM HandlersImplementLog == Spec => RingIsLog
<1>1. HttpInv /\ HttpInv' /\ [Next]_vars => [Log!Next]_listNewestFirst
  <2> SUFFICES ASSUME HttpInv, HttpInv', [Next]_vars
               PROVE  Log!Next \/ UNCHANGED listNewestFirst
    OBVIOUS
  <2>1. CASE UNCHANGED ring
    BY <2>1 DEF ring, listNewestFirst, count, index
  <2>2. CASE \E p \in Handlers : Add(p)
    <3>1. PICK p \in Handlers : Add(p)
      BY <2>2
    <3>2. entry[p] \in Entries
      BY <3>1, EntriesTrue, HttpAssumption DEF RecordsAreTruthful, Add
    <3> QED
      BY <3>1, <3>2, AddRecords DEF Add, HttpInv, Log!Next
  <2>3. UNCHANGED ring \/ \E p \in Handlers : Add(p)
    BY DEF Next, vars, Arrive, NotFound, Unauthorized, requireMethod, BadBody,
       CallService, ServiceAnswers, ServiceFails, handleReset, handlePage,
       ObserveOther, ObserveBusiness, Unshared
  <2> QED
    BY <2>1, <2>2, <2>3
<1> QED
  BY <1>1, HttpHolds, InitLog, PTL DEF Spec, Init, RingIsLog, Log!Spec

=============================================================================
