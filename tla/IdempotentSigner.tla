--------------------------- MODULE IdempotentSigner ---------------------------
(***************************************************************************)
(* What POST /mfi/sign promises its clients: a requestId names one         *)
(* signature for TTL from the moment it was made.  As long as it lives     *)
(* nobody makes another one; who asks for it with the same challenge gets  *)
(* it, who asks with another challenge is told so; and what was made is    *)
(* not withheld from the client it was made for.                           *)
(***************************************************************************)
EXTENDS Integers

CONSTANTS Clients, TTL, Nil

VARIABLES
    now,
    signed,     \* the signatures made so far: [id, at, signature]
    request,    \* each client's [id, challenge], or Nil
    made,       \* the signature made for it and not yet handed over, or Nil
    answer      \* [outcome, value]

vars == <<now, signed, request, made, answer>>

Answer(outcome, value) == [outcome |-> outcome, value |-> value]
NoAnswer == Answer("none", Nil)

Live(id) == {s \in signed : s.id = id /\ now <= s.at + TTL}

Init ==
    /\ now = 0
    /\ signed = {}
    /\ request = [p \in Clients |-> Nil]
    /\ made = [p \in Clients |-> Nil]
    /\ answer = [p \in Clients |-> NoAnswer]

Only(f, p) == \A q \in Clients \ {p} : f[q]' = f[q]

(* A malformed request is refused at once. *)
Ask(p) ==
    /\ request[p] = Nil
    /\ request[p]' # Nil
    /\ Only(request, p)
    /\ answer[p]' \in {NoAnswer, Answer("error", Nil)}
    /\ Only(answer, p)
    /\ UNCHANGED <<now, signed, made>>

Waiting(p) == request[p] # Nil /\ made[p] = Nil /\ answer[p] = NoAnswer

Make(p) ==
    /\ Waiting(p)
    /\ Live(request[p].id) = {}
    /\ made[p]' # Nil
    /\ made[p]'.challenge = request[p].challenge
    /\ Only(made, p)
    /\ signed' = signed \cup
           {[id |-> request[p].id, at |-> now, signature |-> made[p]']}
    /\ UNCHANGED <<now, request, answer>>

HandOver(p) ==
    /\ made[p] # Nil
    /\ made[p]' = Nil
    /\ Only(made, p)
    /\ answer[p]' = Answer("signature", made[p])
    /\ Only(answer, p)
    /\ UNCHANGED <<now, signed, request>>

Repeat(p) ==
    /\ Waiting(p)
    /\ \E s \in Live(request[p].id) :
           answer[p]' = IF s.signature.challenge = request[p].challenge
                        THEN Answer("signature", s.signature)
                        ELSE Answer("reused", Nil)
    /\ Only(answer, p)
    /\ UNCHANGED <<now, signed, request, made>>

Fail(p) ==
    /\ Waiting(p)
    /\ answer[p]' = Answer("error", Nil)
    /\ Only(answer, p)
    /\ UNCHANGED <<now, signed, request, made>>

Leave(p) ==
    /\ answer[p] # NoAnswer
    /\ request[p]' = Nil
    /\ Only(request, p)
    /\ answer[p]' = NoAnswer
    /\ Only(answer, p)
    /\ UNCHANGED <<now, signed, made>>

Tick == now' = now + 1 /\ UNCHANGED <<signed, request, made, answer>>

Next ==
    \/ Tick
    \/ \E p \in Clients :
           Ask(p) \/ Make(p) \/ HandOver(p) \/ Repeat(p) \/ Fail(p) \/ Leave(p)

Spec == Init /\ [][Next]_vars

=============================================================================
