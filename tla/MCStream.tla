------------------------------- MODULE MCStream -------------------------------
(* Requests around the limits of a packet, a read block and a legacy stream. *)
EXTENDS Stream

CONSTANTS WriteLens, ReadLens, DisturbedWriteLens, DisturbedReadLens

(* Data that look like commands. *)
Awkward == <<0, \h74, \hC0, \h75, \hAA, \h80, \hFF>>
Data(n) == [i \in 1..n |-> Awkward[1 + (i % 7)]]

Sized(writeLens, readLens) ==
    {[address |-> \h11, write |-> Data(w), read |-> r] :
        w \in writeLens, r \in readLens}

MCDisturbed == Sized(DisturbedWriteLens, DisturbedReadLens)

MCRequests ==
    Sized(WriteLens, ReadLens)
    \cup {[address |-> \h80, write |-> Data(1), read |-> 1],
          [address |-> \h7f, write |-> Data(1), read |-> -1],
          [address |-> \h11, write |-> <<>>, read |-> 65536]}

=============================================================================
