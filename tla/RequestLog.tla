------------------------------ MODULE RequestLog ------------------------------
(* What the diagnostics page promises of its list of recent requests: the    *)
(* last Capacity requests that were recorded, the latest first.              *)
EXTENDS Integers, Sequences

CONSTANTS Entries, Capacity

VARIABLE log

Init == log = <<>>

Record(entry) ==
    log' = IF Len(log) < Capacity THEN <<entry>> \o log
                                  ELSE <<entry>> \o SubSeq(log, 1, Capacity - 1)

Next == \E entry \in Entries : Record(entry)

Spec == Init /\ [][Next]_log

=============================================================================
