-------------------------- MODULE ServiceRefinement --------------------------
(* Service as an implementation of IdempotentSigner. *)
EXTENDS Service

ASSUME RefinementAssumption ==
    /\ Nil \notin Signatures
    /\ Nil \notin [id: RequestIDs, challenge: Challenges]

(* A client's request is the call of its goroutine; the answer is there     *)
(* when the goroutine has its result, although it may still have the gate;  *)
(* between the driver's answer and the cache a signature is with its        *)
(* goroutine.                                                               *)
Requested ==
    [p \in Callers |-> IF call[p].kind = "sign"
                       THEN [id |-> call[p].id, challenge |-> call[p].challenge]
                       ELSE Nil]

InHand == [p \in Callers |-> IF pc[p] = "store" THEN local[p].signature ELSE Nil]

OutcomeOf(r) ==
    IF r.outcome \in {"none", "signature"} THEN r.outcome
    ELSE IF r.outcome = "ErrRequestIDReuse" THEN "reused" ELSE "error"

Answered ==
    [p \in Callers |-> IF call[p].kind = "sign"
                       THEN [outcome |-> OutcomeOf(result[p]),
                             value |-> result[p].value]
                       ELSE [outcome |-> "none", value |-> Nil]]

Signer == INSTANCE IdempotentSigner
              WITH Clients <- Callers, request <- Requested, made <- InHand,
                   answer <- Answered

(* The gate with its two looks at the cache, the cache with its expiry and  *)
(* the driver that cannot be interrupted are together an implementation of  *)
(* one signature per requestId and lifetime (Service.Sign).                 *)
SignIsIdempotent == Signer!Spec

=============================================================================
