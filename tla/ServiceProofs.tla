---------------------------- MODULE ServiceProofs ----------------------------
(* What Service promises, for any number of goroutines, requestIds,         *)
(* challenges and devices, any cache lifetime and any bounds.               *)
EXTENDS ServiceRefinement, TLAPS

-----------------------------------------------------------------------------
(* Type correctness needs to know what the locals hold where they are used. *)

LocalsOK ==
    \A p \in Procs :
        /\ pc[p] \in {"sign", "store"} => call[p].kind = "sign"
        /\ pc[p] = "store" => local[p] \in Entries
        /\ pc[p] = "read" => local[p] \in Devices

TypeInv == TypeOK /\ LocalsOK

(* The sums that the actions form. *)
LEMMA Sums == /\ 0 + 1 = 1 /\ 1 - 1 = 0 /\ 0 # 1
              /\ \A m, n \in Nat : m + n \in Nat
OBVIOUS

(* Init establishes the types. *)
LEMMA InitTypeInv == Init => TypeInv
<1> SUFFICES ASSUME Init PROVE TypeInv
  OBVIOUS
<1> USE DEF Init
<1>1. call \in [Procs -> Calls]
  BY DEF Request, Calls
<1>2. result \in [Procs -> Results]
  BY DEF Failure, Results
<1>3. DOMAIN cache \subseteq RequestIDs /\ cache \in [DOMAIN cache -> Entries]
  OBVIOUS
<1>4. LocalsOK
  BY DEF LocalsOK
<1> QED
  BY <1>1, <1>2, <1>3, <1>4 DEF TypeInv, TypeOK, Labels

(* A goroutine's step preserves the types. *)
LEMMA StepTypeInv ==
    ASSUME TypeInv, NEW p \in Procs, Step(p)
    PROVE  TypeInv'
<1> USE ServiceAssumption
<1> USE DEF TypeInv, TypeOK, LocalsOK, gate, caches, world, history
<1>1. /\ \A e \in Errors \cup {"none"} : Failure(e) \in Results
      /\ \A v \in Signatures, h \in BOOLEAN :
             Success("signature", v, h) \in Results
      /\ \A v \in Certificates, h \in BOOLEAN :
             Success("certificate", v, h) \in Results
      /\ \A v \in Devices : Success("major", v, FALSE) \in Results
  BY DEF Failure, Success, Results
<1>2. call[p] \in Calls
  OBVIOUS
<1>3. ASSUME NEW miss \in {"select", "sign"}, AnswerFromCache(p, miss),
             pc[p] \in {"lookup", "recheck"}
      PROVE  TypeInv'
  <2> USE DEF AnswerFromCache
  <2>1. /\ DOMAIN cache' \subseteq RequestIDs
        /\ cache' \in [DOMAIN cache' -> Entries]
    BY <1>3 DEF get
  <2>2. Hit(call[p].id) =>
            cachedResult(cache[call[p].id], Sha256(call[p].challenge)) \in Results
    BY <1>1 DEF cachedResult, Hit, Entries, Errors
  <2>3. result' \in [Procs -> Results]
    BY <1>3, <2>2 DEF Return
  <2>4. pc' \in [Procs -> Labels]
    BY <1>3 DEF Return, Goto, Labels, InGate, Named, InChip
  <2>5. LocalsOK'
    BY <1>3 DEF Return, Goto, InGate, Named, InChip
  <2> QED
    BY <1>3, <2>1, <2>3, <2>4, <2>5
<1>4. CASE CertificateLookup(p)
  BY <1>1, <1>4 DEF CertificateLookup, LoadCertificate, Goto, Return, Labels,
     InGate, Named, InChip
<1>5. CASE SendToken(p)
  <2>1. token' = 1
    BY <1>5, Sums DEF SendToken
  <2> QED
    BY <1>5, <2>1 DEF SendToken, Goto, Labels, InGate, Named, InChip
<1>6. ASSUME NEW e \in Errors, WaitEnds(p, e)
      PROVE  TypeInv'
  BY <1>1, <1>6 DEF WaitEnds, Goto, Return, Labels, InGate, Named, InChip
<1>7. CASE SetHolder(p)
  BY <1>2, <1>7 DEF SetHolder, holderName, Calls, Goto, Labels, InGate, Named, InChip
<1>8. CASE SignLookup(p) \/ SignRecheck(p)
  BY <1>3, <1>8 DEF SignLookup, SignRecheck
<1>9. CASE CertificateRecheck(p)
  BY <1>1, <1>9 DEF CertificateRecheck, LoadCertificate, Goto, Return, Labels,
     InGate, Named, InChip
<1>10. CASE SignAnswered(p)
  <2> USE DEF SignAnswered
  <2> DEFINE signature == [challenge |-> call[p].challenge, serial |-> serial]
  <2>1. call[p].id \in RequestIDs /\ call[p].challenge \in Challenges
    BY <1>2, <1>10 DEF Calls
  <2>2. signature \in Signatures
    BY <2>1 DEF Signatures
  <2>3. local'[p] \in Entries
    BY <1>10, <2>1, <2>2, Sums DEF Entries
  <2>4. signed' \subseteq [id: RequestIDs, at: Nat, signature: Signatures]
    <3>1. [id |-> call[p].id, at |-> now, signature |-> signature]
              \in [id: RequestIDs, at: Nat, signature: Signatures]
      BY <2>1, <2>2
    <3>2. signed' = signed \cup
              {[id |-> call[p].id, at |-> now, signature |-> signature]}
      BY <1>10
    <3> QED
      BY <3>1, <3>2
  <2>5. serial' \in Nat
    BY <1>10, Sums
  <2>6. pc' \in [Procs -> Labels]
    BY <1>10 DEF Goto, Labels, InGate, Named, InChip
  <2>7. local' \in [Procs -> Devices \cup Entries \cup {Nil}]
    BY <1>10, <2>3
  <2>8. LocalsOK'
    BY <1>10, <2>3 DEF Goto
  <2> HIDE DEF signature
  <2> QED
    BY <1>10, <2>4, <2>5, <2>6, <2>7, <2>8
<1>11. CASE StoreEntry(p)
  BY <1>1, <1>2, <1>11 DEF StoreEntry, put, Calls, Entries, Goto, Return,
     Labels, InGate, Named, InChip
<1>12. CASE MajorAnswered(p)
  BY <1>1, <1>12 DEF MajorAnswered, Goto, Return, Labels, InGate, Named, InChip
<1>13. CASE ReadAnswered(p)
  BY <1>1, <1>13 DEF ReadAnswered, Certificates, Goto, Return, Labels, InGate,
     Named, InChip
<1>14. CASE DriverFails(p)
  <2>1. PICK e \in DriverErrors : Return(p, Failure(normalizeHardwareError(e)))
    BY <1>14 DEF DriverFails
  <2>2. Failure(normalizeHardwareError(e)) \in Results
    BY <1>1 DEF normalizeHardwareError, DriverErrors, Errors
  <2> QED
    BY <1>14, <2>1, <2>2 DEF DriverFails, Goto, Return, Labels, InGate, Named,
       InChip
<1>15. CASE ClearHolder(p)
  BY <1>15 DEF ClearHolder, Goto, Labels, InGate, Named, InChip
<1>16. CASE ReceiveToken(p)
  <2>1. token' = 0
    BY <1>16, Sums DEF ReceiveToken
  <2> QED
    BY <1>16, <2>1 DEF ReceiveToken, Goto, Labels, InGate, Named, InChip
<1>17. CASE Deliver(p)
  BY <1>1, <1>17 DEF Deliver, Request, Calls, Goto, Labels, InGate, Named, InChip
<1> QED
  BY <1>4, <1>5, <1>6, <1>7, <1>8, <1>9, <1>10, <1>11, <1>12, <1>13,
     <1>14, <1>15, <1>16, <1>17 DEF Step, Errors

(* So do new requests, the clock and the environment. *)
LEMMA EnvTypeInv ==
    ASSUME TypeInv, (\E p \in Procs : NewRequest(p)) \/ Tick \/ SwapDevice
    PROVE  TypeInv'
<1> USE ServiceAssumption
<1> USE DEF TypeInv, TypeOK, LocalsOK, gate, caches, world, history
<1>1. \A e \in Errors \cup {"none"} : Failure(e) \in Results
  BY DEF Failure, Results
<1>2. ASSUME NEW p \in Procs, NEW id \in RequestIDs, NEW c \in Challenges,
             CallSign(p, id, c)
      PROVE  TypeInv'
  <2>1. [kind |-> "sign", id |-> id, challenge |-> c] \in Calls
    BY DEF Calls
  <2>2. result' \in [Procs -> Results]
    <3>1. Failure("ErrRequestIDFormat") \in Results
      BY <1>1 DEF Errors
    <3>2. Failure("ErrChallengeSize") \in Results
      BY <1>1 DEF Errors
    <3> QED
      BY <1>2, <3>1, <3>2 DEF CallSign, Return
  <2>3. /\ pc' \in [Procs -> Labels]
        /\ \A q \in Procs : pc'[q] # pc[q] =>
               q = p /\ pc'[q] \in {"returned", "lookup"}
    BY <1>2 DEF CallSign, Goto, Return, Labels, InGate, Named, InChip
  <2>4. /\ call' \in [Procs -> Calls]
        /\ \A q \in Procs : q # p => call'[q] = call[q]
        /\ pc[p] = "idle"
    BY <1>2, <2>1 DEF CallSign
  <2>5. UNCHANGED <<local, gate, caches, world, history>>
    BY <1>2 DEF CallSign
  <2>6. LocalsOK'
    BY <2>3, <2>4, <2>5
  <2> QED
    BY <2>2, <2>3, <2>4, <2>5, <2>6
<1>3. ASSUME NEW p \in Procs, CallCertificate(p)
      PROVE  TypeInv'
  <2>1. Request("certificate") \in Calls
    BY DEF Request, Calls
  <2> QED
    BY <1>3, <2>1 DEF CallCertificate, Goto, Labels
<1>4. ASSUME NEW p \in Procs, Reset(p)
      PROVE  TypeInv'
  BY <1>1, <1>4 DEF Reset, Goto, Return, Labels, InGate, Named, InChip
<1>5. CASE Tick
  BY <1>5, Sums DEF Tick
<1>6. CASE SwapDevice
  BY <1>6 DEF SwapDevice
<1> QED
  BY <1>2, <1>3, <1>4, <1>5, <1>6 DEF NewRequest

(* The stronger form that the later proofs start from. *)
LEMMA Typed == Spec => []TypeInv
<1>1. TypeInv /\ [Next]_vars => TypeInv'
  <2> SUFFICES ASSUME TypeInv, [Next]_vars PROVE TypeInv'
    OBVIOUS
  <2>1. CASE UNCHANGED vars
    BY <2>1 DEF vars, gate, caches, world, history, TypeInv, TypeOK, LocalsOK
  <2> QED
    BY <2>1, StepTypeInv, EnvTypeInv DEF Next
<1> QED
  BY <1>1, InitTypeInv, PTL DEF Spec

(* Type correctness of the service for every instance: whatever the         *)
(* interleaving of handlers, driver failures and swapped devices, results   *)
(* carry normalised errors and caches hold entries of the right shape.      *)
THEOREM TypeCorrect == Spec => []TypeOK
<1>1. TypeInv => TypeOK
  BY DEF TypeInv
<1> QED
  BY <1>1, Typed, PTL

-----------------------------------------------------------------------------
(* The gate.  SlotAccounted and HolderTruthful are inductive together. *)

GateInv == SlotAccounted /\ HolderTruthful

(* What Goto does to every goroutine. *)
LEMMA Moves ==
    ASSUME TypeInv, NEW p \in Procs, NEW l, Goto(p, l)
    PROVE  pc'[p] = l /\ \A q \in Procs : q # p => pc'[q] = pc[q]
BY DEF TypeInv, TypeOK, Goto

(* Where the labels lie. *)
LEMMA Regions ==
    /\ Named \subseteq InGate
    /\ InChip \subseteq Named
    /\ "setHolder" \in InGate \ Named /\ "receive" \in InGate \ Named
    /\ {"recheck", "store", "clearHolder", "sign", "major", "read"} \subseteq Named
    /\ {"idle", "lookup", "select", "returned"} \cap InGate = {}
BY DEF InGate, Named, InChip

(* A goroutine's step keeps the slot and the holder's name accounted for.   *)
LEMMA StepGateInv ==
    ASSUME TypeInv, GateInv, NEW p \in Procs, Step(p)
    PROVE  GateInv'
<1> USE DEF GateInv, SlotAccounted, HolderTruthful
<1>1. ASSUME UNCHANGED <<token, holder, call>>, NEW l, Goto(p, l),
             pc[p] \in InGate <=> l \in InGate,
             pc[p] \in Named <=> l \in Named
      PROVE  GateInv'
  <2>1. \A q \in Procs : /\ pc'[q] \in InGate <=> pc[q] \in InGate
                         /\ pc'[q] \in Named <=> pc[q] \in Named
    BY <1>1, Moves
  <2> QED
    BY <1>1, <2>1
<1>2. CASE SendToken(p)
  <2>1. token = 0 /\ token' = 1 /\ pc[p] = "select" /\ UNCHANGED <<holder, call>>
    BY <1>2, Sums DEF SendToken
  <2>2. pc'[p] = "setHolder" /\ \A q \in Procs : q # p => pc'[q] = pc[q]
    BY <1>2, Moves DEF SendToken
  <2>3. \A q \in Procs : pc[q] \notin InGate
    BY <2>1, Sums
  <2> QED
    BY <2>1, <2>2, <2>3, Regions
<1>3. CASE SetHolder(p)
  <2>1. /\ pc[p] = "setHolder" /\ UNCHANGED <<token, call>>
        /\ holder' = holderName(call[p])
    BY <1>3 DEF SetHolder
  <2>2. /\ pc'[p] \in {"major", "recheck"}
        /\ \A q \in Procs : q # p => pc'[q] = pc[q]
    BY <1>3, Moves DEF SetHolder
  <2> QED
    BY <2>1, <2>2, Regions
<1>4. CASE ClearHolder(p)
  <2>1. pc[p] = "clearHolder" /\ UNCHANGED <<token, call>> /\ holder' = ""
    BY <1>4 DEF ClearHolder
  <2>2. pc'[p] = "receive" /\ \A q \in Procs : q # p => pc'[q] = pc[q]
    BY <1>4, Moves DEF ClearHolder
  <2> QED
    BY <2>1, <2>2, Regions
<1>5. CASE ReceiveToken(p)
  <2>1. token = 1 /\ token' = 0 /\ pc[p] = "receive" /\ UNCHANGED <<holder, call>>
    BY <1>5, Sums DEF ReceiveToken
  <2>2. pc'[p] = "returned" /\ \A q \in Procs : q # p => pc'[q] = pc[q]
    BY <1>5, Moves DEF ReceiveToken
  <2>3. \A q \in Procs : pc'[q] \notin InGate
    BY <2>1, <2>2, Regions
  <2> QED
    BY <2>1, <2>3, Regions, Sums
<1>6. CASE Deliver(p)
  <2>1. /\ pc[p] = "returned" /\ UNCHANGED <<token, holder>>
        /\ \A q \in Procs : q # p => call'[q] = call[q]
    BY <1>6 DEF Deliver, gate, TypeInv, TypeOK
  <2>2. pc'[p] = "idle" /\ \A q \in Procs : q # p => pc'[q] = pc[q]
    BY <1>6, Moves DEF Deliver
  <2> QED
    BY <2>1, <2>2, Regions
<1>7. CASE \/ SignLookup(p) \/ CertificateLookup(p)
           \/ WaitEnds(p, "ErrChipBusy") \/ WaitEnds(p, "ErrContext")
  <2>1. pc[p] \in {"lookup", "select"} /\ UNCHANGED <<token, holder, call>>
    BY <1>7 DEF SignLookup, CertificateLookup, WaitEnds, AnswerFromCache,
       LoadCertificate, gate
  <2>2. \E l \in {"select", "returned"} : Goto(p, l)
    BY <1>7, <2>1, Regions DEF SignLookup, CertificateLookup, WaitEnds,
       AnswerFromCache, LoadCertificate, Return
  <2> QED
    BY <1>1, <2>1, <2>2, Regions
<1>8. CASE \/ SignRecheck(p) \/ CertificateRecheck(p) \/ SignAnswered(p)
           \/ StoreEntry(p) \/ MajorAnswered(p) \/ ReadAnswered(p)
           \/ DriverFails(p)
  <2>1. /\ pc[p] \in {"recheck", "sign", "store", "major", "read"}
        /\ UNCHANGED <<token, holder, call>>
    BY <1>8 DEF SignRecheck, CertificateRecheck, SignAnswered, StoreEntry,
       MajorAnswered, ReadAnswered, DriverFails, AnswerFromCache,
       LoadCertificate, gate, InChip
  <2>2. \E l \in {"sign", "store", "major", "read", "clearHolder"} : Goto(p, l)
    BY <1>8, <2>1, Regions DEF SignRecheck, CertificateRecheck, SignAnswered,
       StoreEntry, MajorAnswered, ReadAnswered, DriverFails, AnswerFromCache,
       LoadCertificate, Return
  <2> QED
    BY <1>1, <2>1, <2>2, Regions
<1> QED
  BY <1>2, <1>3, <1>4, <1>5, <1>6, <1>7, <1>8 DEF Step

(* New requests start outside the gate; the environment never touches it.   *)
LEMMA EnvGateInv ==
    ASSUME TypeInv, GateInv,
           (\E p \in Procs : NewRequest(p)) \/ Tick \/ SwapDevice
    PROVE  GateInv'
<1> USE DEF GateInv, SlotAccounted, HolderTruthful
<1>1. CASE Tick \/ SwapDevice
  BY <1>1 DEF Tick, SwapDevice, gate
<1>2. ASSUME NEW p \in Procs, NewRequest(p)
      PROVE  GateInv'
  <2>1. /\ pc[p] = "idle" /\ UNCHANGED <<token, holder>>
        /\ \A q \in Procs : q # p => call'[q] = call[q]
    BY <1>2 DEF NewRequest, CallSign, CallCertificate, Reset, gate, TypeInv, TypeOK
  <2>2. \E l \in {"lookup", "returned"} : Goto(p, l)
    BY <1>2, <2>1, Regions DEF NewRequest, CallSign, CallCertificate, Reset, Return
  <2>3. /\ pc'[p] \in {"lookup", "returned"}
        /\ \A q \in Procs : q # p => pc'[q] = pc[q]
    BY <2>2, Moves
  <2> QED
    BY <2>1, <2>3, Regions
<1> QED
  BY <1>1, <1>2

(* The gate's invariant holds in every behaviour of the service. *)
LEMMA Gated == Spec => []GateInv
<1>1. Init => GateInv
  BY Regions, Sums DEF Init, GateInv, SlotAccounted, HolderTruthful
<1>2. TypeInv /\ GateInv /\ [Next]_vars => GateInv'
  <2> SUFFICES ASSUME TypeInv, GateInv, [Next]_vars PROVE GateInv'
    OBVIOUS
  <2>1. CASE UNCHANGED vars
    BY <2>1 DEF vars, gate, GateInv, SlotAccounted, HolderTruthful
  <2> QED
    BY <2>1, StepGateInv, EnvGateInv DEF Next
<1> QED
  BY <1>1, <1>2, Typed, PTL DEF Spec

(* No return path of Sign, Certificate or Probe leaks the gate's slot or    *)
(* frees it twice, with any number of handlers.                             *)
THEOREM SlotIsAccounted == Spec => []SlotAccounted
<1>1. GateInv => SlotAccounted
  BY DEF GateInv
<1> QED
  BY <1>1, Gated, PTL

(* Driver calls never overlap, with any number of handlers. *)
THEOREM ChipIsExclusive == Spec => []ChipExclusive
<1>1. GateInv => ChipExclusive
  BY Regions DEF GateInv, SlotAccounted, ChipExclusive
<1> QED
  BY <1>1, Gated, PTL

(* The holder that the diagnostics page shows is the goroutine that has the *)
(* chip: acquire and release update it inside the slot, in that order.      *)
THEOREM HolderIsTruthful == Spec => []HolderTruthful
<1>1. GateInv => HolderTruthful
  BY DEF GateInv
<1> QED
  BY <1>1, Gated, PTL

-----------------------------------------------------------------------------
(* The cache.  A requestId is signed once per window because whoever is     *)
(* about to sign has looked into the cache inside the gate, a fresh         *)
(* signature is in the cache or with the goroutine about to store it, and   *)
(* that goroutine has the gate.                                             *)

Fresh(s) == now <= s.at + TTL

Cached(s) ==
    /\ s.id \in DOMAIN cache
    /\ cache[s.id].signature = s.signature
    /\ cache[s.id].expiresAt = s.at + TTL

NotFuture == \A s \in signed : s.at <= now

FreshHeld ==
    \A s \in signed : Fresh(s) =>
        Cached(s) \/ \E p \in Procs : pc[p] = "store" /\ call[p].id = s.id

SignerIsFirst ==
    \A p \in Procs : pc[p] = "sign" =>
        \A s \in signed : s.id = call[p].id => ~Fresh(s)

StorerHasIt ==
    \A p \in Procs : pc[p] = "store" =>
        \A s \in signed : s.id = call[p].id /\ Fresh(s) =>
            /\ local[p].signature = s.signature
            /\ local[p].expiresAt = s.at + TTL

WindowInv ==
    NotFuture /\ SignedOncePerWindow /\ FreshHeld /\ SignerIsFirst /\ StorerHasIt

(* The clock readings are natural numbers. *)
LEMMA Clocks ==
    ASSUME TypeInv
    PROVE  now \in Nat /\ TTL \in Nat /\ \A s \in signed : s.at \in Nat
<1>1. now \in Nat /\ signed \subseteq [id: RequestIDs, at: Nat, signature: Signatures]
  BY DEF TypeInv, TypeOK
<1> QED
  BY <1>1, ServiceAssumption

(* A step that leaves the cache, the clock and the history alone and does   *)
(* not lead to the driver's signing sequence or come from it.               *)
LEMMA QuietWindow ==
    ASSUME TypeInv, WindowInv, NEW p \in Procs,
           UNCHANGED <<cache, now, signed>>,
           pc[p] # "store", pc'[p] \notin {"sign", "store"},
           \A q \in Procs : q # p =>
               pc'[q] = pc[q] /\ call'[q] = call[q] /\ local'[q] = local[q]
    PROVE  WindowInv'
<1>1. \A s \in signed : Fresh(s)' = Fresh(s) /\ Cached(s)' = Cached(s)
  BY DEF Fresh, Cached
<1>2. FreshHeld'
  BY <1>1 DEF WindowInv, FreshHeld
<1>3. SignerIsFirst' /\ StorerHasIt'
  BY <1>1 DEF WindowInv, SignerIsFirst, StorerHasIt
<1> QED
  BY <1>2, <1>3 DEF WindowInv, NotFuture, SignedOncePerWindow

(* signatureCache.get deletes nothing that is fresh. *)
LEMMA GetKeepsFresh ==
    ASSUME TypeInv, NEW id, get(id), UNCHANGED now,
           NEW s \in signed, Fresh(s), Cached(s)
    PROVE  Cached(s)'
<1>1. s.id = id => ~Expired(cache[id])
  <2>1. now \in Nat /\ s.at \in Nat /\ TTL \in Nat
    BY Clocks
  <2>2. ~(now > s.at + TTL)
    BY <2>1 DEF Fresh
  <2> QED
    BY <2>2 DEF Cached, Expired
<1>2. s.id \in DOMAIN cache' /\ cache'[s.id] = cache[s.id]
  BY <1>1 DEF get, Cached
<1> QED
  BY <1>2 DEF Cached

(* Sign's cache lookup, before the gate or inside it. *)
LEMMA LookupWindow ==
    ASSUME TypeInv, GateInv, WindowInv, NEW p \in Procs,
           SignLookup(p) \/ SignRecheck(p)
    PROVE  WindowInv'
<1>1. /\ UNCHANGED <<call, local, now, signed>>
      /\ pc[p] \in {"lookup", "recheck"}
      /\ get(call[p].id)
  BY DEF SignLookup, SignRecheck, AnswerFromCache, world, history
<1>2. \A q \in Procs : q # p => pc'[q] = pc[q]
  BY Moves DEF SignLookup, SignRecheck, AnswerFromCache, Return
<1>3. /\ pc'[p] # "store"
      /\ pc'[p] = "sign" => pc[p] = "recheck" /\ ~Hit(call[p].id)
  BY Moves DEF SignLookup, SignRecheck, AnswerFromCache, Return
<1>4. \A s \in signed : Fresh(s)' = Fresh(s)
  BY <1>1 DEF Fresh
<1>5. \A s \in signed : Fresh(s) /\ Cached(s) => Cached(s)'
  BY <1>1, GetKeepsFresh
<1>6. FreshHeld'
  BY <1>1, <1>2, <1>4, <1>5 DEF WindowInv, FreshHeld
<1>7. StorerHasIt'
  BY <1>1, <1>2, <1>3, <1>4 DEF WindowInv, StorerHasIt
<1>8. ASSUME pc'[p] = "sign", NEW s \in signed, s.id = call[p].id
      PROVE  ~Fresh(s)
  <2>1. pc[p] = "recheck" /\ ~Hit(call[p].id)
    BY <1>3, <1>8
  <2>2. \A q \in Procs : pc[q] # "store"
    BY <2>1, Regions DEF GateInv, SlotAccounted
  <2>3. Fresh(s) => Cached(s)
    BY <2>2 DEF WindowInv, FreshHeld
  <2>4. Fresh(s) => ~(now > s.at + TTL)
    BY Clocks DEF Fresh
  <2> QED
    BY <1>8, <2>1, <2>3, <2>4 DEF Hit, Expired, Cached
<1>9. SignerIsFirst'
  BY <1>1, <1>2, <1>4, <1>8 DEF WindowInv, SignerIsFirst
<1> QED
  BY <1>1, <1>6, <1>7, <1>9 DEF WindowInv, NotFuture, SignedOncePerWindow

(* The chip signs. *)
LEMMA SignWindow ==
    ASSUME TypeInv, GateInv, WindowInv, NEW p \in Procs, SignAnswered(p)
    PROVE  WindowInv'
<1> DEFINE t == [id |-> call[p].id, at |-> now,
                 signature |-> [challenge |-> call[p].challenge, serial |-> serial]]
<1>1. /\ pc[p] = "sign" /\ UNCHANGED <<call, cache, now>>
      /\ signed' = signed \cup {t}
  BY DEF SignAnswered, caches, world
<1>2. /\ local'[p].signature = t.signature
      /\ local'[p].expiresAt = t.at + TTL
  BY DEF SignAnswered, TypeInv, TypeOK
<1>3. pc'[p] = "store" /\ \A q \in Procs : q # p => pc'[q] = pc[q]
  BY Moves DEF SignAnswered
<1>4. \A q \in Procs : q # p => pc'[q] \notin {"sign", "store"}
  BY <1>1, <1>3, Regions DEF GateInv, SlotAccounted
<1>5. t.id = call[p].id /\ t.at = now
  OBVIOUS
<1> HIDE DEF t
<1>6. \A s \in signed : s.id = t.id => s.at + TTL < now /\ s.at < now
  <2>1. \A s \in signed : s.id = t.id => ~Fresh(s)
    BY <1>1, <1>5 DEF WindowInv, SignerIsFirst
  <2> QED
    BY <2>1, Clocks DEF Fresh
<1>7. \A s : Fresh(s)' = Fresh(s) /\ Cached(s)' = Cached(s)
  BY <1>1 DEF Fresh, Cached
<1>8. NotFuture'
  BY <1>1, <1>5, Clocks DEF WindowInv, NotFuture
<1>9. SignedOncePerWindow'
  <2> SUFFICES ASSUME NEW u \in signed', NEW v \in signed', u.id = v.id,
                      u.at <= v.at, u # v
               PROVE  u.at + TTL < v.at
    BY DEF SignedOncePerWindow
  <2>1. CASE u \in signed /\ v \in signed
    BY <2>1 DEF WindowInv, SignedOncePerWindow
  <2>2. CASE u \in signed /\ v = t
    BY <1>5, <1>6, <2>2
  <2>3. CASE u = t /\ v \in signed
    BY <1>5, <1>6, <2>3, Clocks
  <2> QED
    BY <1>1, <2>1, <2>2, <2>3
<1>10. FreshHeld'
  <2>1. \A s \in signed : Fresh(s) => Cached(s)
    BY <1>1, <1>3, <1>4 DEF WindowInv, FreshHeld
  <2> QED
    BY <1>1, <1>3, <1>5, <1>7, <2>1 DEF FreshHeld
<1>11. SignerIsFirst'
  BY <1>3, <1>4 DEF SignerIsFirst
<1>12. StorerHasIt'
  <2>1. \A s \in signed : s.id = call[p].id => ~Fresh(s)
    BY <1>1 DEF WindowInv, SignerIsFirst
  <2> QED
    BY <1>1, <1>2, <1>4, <1>7, <2>1 DEF StorerHasIt
<1> QED
  BY <1>8, <1>9, <1>10, <1>11, <1>12 DEF WindowInv

(* The entry goes into the cache. *)
LEMMA StoreWindow ==
    ASSUME TypeInv, GateInv, WindowInv, NEW p \in Procs, StoreEntry(p)
    PROVE  WindowInv'
<1>1. /\ pc[p] = "store" /\ UNCHANGED <<call, local, now, signed>>
      /\ put(call[p].id, local[p])
  BY DEF StoreEntry, world, history
<1>2. pc'[p] = "clearHolder" /\ \A q \in Procs : q # p => pc'[q] = pc[q]
  BY <1>1, Moves, Regions DEF StoreEntry, Return
<1>3. \A q \in Procs : q # p => pc[q] # "store"
  BY <1>1, Regions DEF GateInv, SlotAccounted
<1>4. \A s \in signed : Fresh(s)' = Fresh(s)
  BY <1>1 DEF Fresh
<1>5. ASSUME NEW s \in signed, Fresh(s) PROVE Cached(s)'
  <2>1. CASE s.id = call[p].id
    <3>1. local[p].signature = s.signature /\ local[p].expiresAt = s.at + TTL
      BY <1>1, <1>5, <2>1 DEF WindowInv, StorerHasIt
    <3> QED
      BY <1>1, <2>1, <3>1 DEF put, Cached
  <2>2. CASE s.id # call[p].id
    <3>1. Cached(s)
      BY <1>3, <1>5, <2>2 DEF WindowInv, FreshHeld
    <3> QED
      BY <1>1, <2>2, <3>1 DEF put, Cached
  <2> QED
    BY <2>1, <2>2
<1>6. FreshHeld'
  BY <1>1, <1>4, <1>5 DEF FreshHeld
<1>7. SignerIsFirst' /\ StorerHasIt'
  BY <1>1, <1>2, <1>4 DEF WindowInv, SignerIsFirst, StorerHasIt
<1> QED
  BY <1>1, <1>6, <1>7 DEF WindowInv, NotFuture, SignedOncePerWindow

(* The remaining steps of a goroutine are quiet. *)
LEMMA StepWindow ==
    ASSUME TypeInv, GateInv, WindowInv, NEW p \in Procs, Step(p)
    PROVE  WindowInv'
<1>1. CASE SignLookup(p) \/ SignRecheck(p)
  BY <1>1, LookupWindow
<1>2. CASE SignAnswered(p)
  BY <1>2, SignWindow
<1>3. CASE StoreEntry(p)
  BY <1>3, StoreWindow
<1>4. ASSUME NEW l, Goto(p, l), l \notin {"sign", "store"}, pc[p] # "store",
             UNCHANGED <<call, cache, now, signed>>,
             \A q \in Procs : q # p => local'[q] = local[q]
      PROVE  WindowInv'
  BY <1>4, Moves, QuietWindow
<1>5. CASE \/ CertificateLookup(p) \/ CertificateRecheck(p) \/ SendToken(p)
           \/ WaitEnds(p, "ErrChipBusy") \/ WaitEnds(p, "ErrContext")
           \/ SetHolder(p) \/ ReadAnswered(p) \/ DriverFails(p)
           \/ ClearHolder(p) \/ ReceiveToken(p)
  <2>1. pc[p] # "store" /\ UNCHANGED <<call, local, cache, now, signed>>
    BY <1>5 DEF CertificateLookup, CertificateRecheck, LoadCertificate,
       SendToken, WaitEnds, SetHolder, ReadAnswered, DriverFails, ClearHolder,
       ReceiveToken, caches, world, history, InChip
  <2>2. \E l \in Labels \ {"sign", "store"} : Goto(p, l)
    BY <1>5 DEF CertificateLookup, CertificateRecheck, LoadCertificate,
       SendToken, WaitEnds, SetHolder, ReadAnswered, DriverFails, ClearHolder,
       ReceiveToken, Return, Labels, InGate, Named, InChip
  <2> QED
    BY <1>4, <2>1, <2>2
<1>6. CASE MajorAnswered(p)
  <2>1. /\ pc[p] = "major" /\ UNCHANGED <<call, cache, now, signed>>
        /\ \A q \in Procs : q # p => local'[q] = local[q]
    BY <1>6 DEF MajorAnswered, caches, world, history, TypeInv, TypeOK
  <2>2. \E l \in {"read", "clearHolder", "returned"} : Goto(p, l)
    BY <1>6 DEF MajorAnswered, Return
  <2> QED
    BY <1>4, <2>1, <2>2
<1>7. CASE Deliver(p)
  <2>1. /\ pc[p] = "returned" /\ UNCHANGED <<cache, now, signed>>
        /\ \A q \in Procs : q # p => call'[q] = call[q] /\ local'[q] = local[q]
    BY <1>7 DEF Deliver, caches, world, history, TypeInv, TypeOK
  <2>2. pc'[p] = "idle" /\ \A q \in Procs : q # p => pc'[q] = pc[q]
    BY <1>7, Moves DEF Deliver
  <2> QED
    BY <2>1, <2>2, QuietWindow
<1> QED
  BY <1>1, <1>2, <1>3, <1>5, <1>6, <1>7 DEF Step

(* A new request is quiet, and the clock only lets signatures age. *)
LEMMA EnvWindow ==
    ASSUME TypeInv, WindowInv,
           (\E p \in Procs : NewRequest(p)) \/ Tick \/ SwapDevice
    PROVE  WindowInv'
<1>1. CASE SwapDevice
  BY <1>1 DEF SwapDevice, caches, history, WindowInv, NotFuture, FreshHeld,
     SignedOncePerWindow, SignerIsFirst, StorerHasIt, Fresh, Cached
<1>2. CASE Tick
  <2>1. now' = now + 1 /\ UNCHANGED <<pc, call, local, cache, signed>>
    BY <1>2 DEF Tick, caches, history
  <2>2. \A s \in signed : /\ Fresh(s)' => Fresh(s)
                          /\ Cached(s)' = Cached(s)
                          /\ s.at <= now => s.at <= now'
    BY <2>1, Clocks DEF Fresh, Cached
  <2> QED
    BY <2>1, <2>2 DEF WindowInv, NotFuture, FreshHeld, SignedOncePerWindow,
       SignerIsFirst, StorerHasIt
<1>3. ASSUME NEW p \in Procs, NewRequest(p)
      PROVE  WindowInv'
  <2>1. /\ pc[p] = "idle" /\ UNCHANGED <<local, cache, now, signed>>
        /\ \A q \in Procs : q # p => call'[q] = call[q]
    BY <1>3 DEF NewRequest, CallSign, CallCertificate, Reset, caches, world,
       history, TypeInv, TypeOK
  <2>2. \E l : Goto(p, l) /\ l \notin {"sign", "store"}
    BY <1>3 DEF NewRequest, CallSign, CallCertificate, Reset, Return
  <2>3. /\ pc'[p] \notin {"sign", "store"}
        /\ \A q \in Procs : q # p => pc'[q] = pc[q]
    BY <2>2, Moves
  <2> QED
    BY <2>1, <2>3, QuietWindow
<1> QED
  BY <1>1, <1>2, <1>3

(* The cache's invariant holds in every behaviour of the service. *)
LEMMA Windowed == Spec => []WindowInv
<1>1. Init => WindowInv
  BY DEF Init, WindowInv, NotFuture, FreshHeld, SignedOncePerWindow,
     SignerIsFirst, StorerHasIt
<1>2. TypeInv /\ GateInv /\ WindowInv /\ [Next]_vars => WindowInv'
  <2> SUFFICES ASSUME TypeInv, GateInv, WindowInv, [Next]_vars PROVE WindowInv'
    OBVIOUS
  <2>1. CASE UNCHANGED vars
    BY <2>1 DEF vars, caches, world, history, WindowInv, NotFuture, FreshHeld,
       SignedOncePerWindow, SignerIsFirst, StorerHasIt, Fresh, Cached
  <2> QED
    BY <2>1, StepWindow, EnvWindow DEF Next
<1> QED
  BY <1>1, <1>2, Typed, Gated, PTL DEF Spec

(* A requestId makes the chip sign at most once per cache lifetime, with    *)
(* any number of handlers, requestIds and challenges and any lifetime.      *)
THEOREM AtMostOneSigningPerWindow == Spec => []SignedOncePerWindow
<1>1. WindowInv => SignedOncePerWindow
  BY DEF WindowInv
<1> QED
  BY <1>1, Windowed, PTL

(* No produced signature is lost before its lifetime ends. *)
THEOREM ProducedSignaturesAreCached == Spec => []SignedIsCached
<1>1. WindowInv => SignedIsCached
  BY DEF WindowInv, FreshHeld, StorerHasIt, SignedIsCached, Fresh, Cached
<1> QED
  BY <1>1, Windowed, PTL

-----------------------------------------------------------------------------
(* What clients get: their own signature, the one certificate, and          *)
(* together the promise of IdempotentSigner.                                *)

(* What a goroutine's place says about its request and its result.          *)

Unanswered == {"idle", "lookup", "select", "setHolder", "recheck", "sign",
               "major", "read", "store"}

Phase(p) ==
    /\ pc[p] = "idle" => call[p].kind = "none"
    /\ pc[p] \in {"major", "read"} => call[p].kind # "sign"
    /\ pc[p] \in Unanswered => result[p] = Failure("none")
    /\ call[p].kind = "sign" => p \in Callers
    /\ call[p].kind = "sign" /\ pc[p] \notin Unanswered => result[p].outcome # "none"

PhaseInv == \A p \in Procs : Phase(p)

Same(q) ==
    /\ pc'[q] = pc[q] /\ call'[q] = call[q]
    /\ local'[q] = local[q] /\ result'[q] = result[q]

(* A goroutine's step leaves the others where they are. *)
LEMMA StepAlone ==
    ASSUME TypeInv, NEW p \in Procs, Step(p) \/ NewRequest(p),
           NEW q \in Procs, q # p
    PROVE  Same(q)
<1> USE DEF TypeInv, TypeOK, Same, Goto, Return
<1>1. CASE SignLookup(p) \/ SignRecheck(p)
  BY <1>1 DEF SignLookup, SignRecheck, AnswerFromCache
<1>2. CASE CertificateLookup(p) \/ CertificateRecheck(p)
  BY <1>2 DEF CertificateLookup, CertificateRecheck, LoadCertificate
<1>3. CASE \/ SendToken(p) \/ WaitEnds(p, "ErrChipBusy") \/ WaitEnds(p, "ErrContext")
           \/ SetHolder(p) \/ ClearHolder(p) \/ ReceiveToken(p)
  BY <1>3 DEF SendToken, WaitEnds, SetHolder, ClearHolder, ReceiveToken
<1>4. CASE SignAnswered(p)
  BY <1>4 DEF SignAnswered
<1>5. CASE StoreEntry(p) \/ ReadAnswered(p)
  BY <1>5 DEF StoreEntry, ReadAnswered
<1>6. CASE MajorAnswered(p)
  BY <1>6 DEF MajorAnswered
<1>7. CASE DriverFails(p)
  BY <1>7 DEF DriverFails
<1>8. CASE Deliver(p)
  BY <1>8 DEF Deliver
<1>9. CASE NewRequest(p)
  BY <1>9 DEF NewRequest, CallSign, CallCertificate, Reset
<1> QED
  BY <1>1, <1>2, <1>3, <1>4, <1>5, <1>6, <1>7, <1>8, <1>9 DEF Step

(* A return stores the result and leaves the unanswered phases. *)
LEMMA Returns ==
    ASSUME TypeInv, NEW p \in Procs, NEW value, Return(p, value)
    PROVE  /\ result'[p] = value
           /\ pc'[p] = (IF pc[p] \in InGate THEN "clearHolder" ELSE "returned")
           /\ pc'[p] \notin Unanswered
BY DEF TypeInv, TypeOK, Return, Goto, Unanswered

(* The goroutine that steps keeps its phase. *)
LEMMA StepPhase ==
    ASSUME TypeInv, NEW p \in Procs, Phase(p), Step(p) \/ NewRequest(p)
    PROVE  Phase(p)'
<1>1. \A e : Failure(e).outcome = e /\ e # "none" => Failure(e) # Failure("none")
  BY DEF Failure
<1>2. \A v, h : /\ Success("signature", v, h).outcome = "signature"
                /\ Success("certificate", v, h).outcome = "certificate"
                /\ Success("major", v, h).outcome = "major"
  BY DEF Success
<1>3. ASSUME call'[p] = call[p], call[p].kind = "sign" => p \in Callers,
             NEW value, Return(p, value), value.outcome # "none"
      PROVE  Phase(p)'
  BY <1>3, Returns DEF Phase, Unanswered
<1>4. ASSUME UNCHANGED <<call, result>>, NEW l, Goto(p, l),
             pc[p] \in Unanswered \ {"idle"}, l \in Unanswered \ {"idle"},
             l \in {"major", "read"} => call[p].kind # "sign"
      PROVE  Phase(p)'
  BY <1>4, Moves DEF Phase
<1>5. CASE SignLookup(p) \/ SignRecheck(p)
  <2>1. CASE Hit(call[p].id)
    <3>1. Return(p, cachedResult(cache[call[p].id], Sha256(call[p].challenge)))
      BY <1>5, <2>1 DEF SignLookup, SignRecheck, AnswerFromCache
    <3>2. cachedResult(cache[call[p].id], Sha256(call[p].challenge)).outcome # "none"
      BY <1>1, <1>2 DEF cachedResult, Failure
    <3>3. call'[p] = call[p]
      BY <1>5 DEF SignLookup, SignRecheck, AnswerFromCache
    <3> QED
      BY <1>3, <3>1, <3>2, <3>3 DEF Phase
  <2>2. CASE ~Hit(call[p].id)
    <3>1. /\ \E l \in {"select", "sign"} : Goto(p, l)
          /\ UNCHANGED <<call, result>> /\ pc[p] \in {"lookup", "recheck"}
      BY <1>5, <2>2 DEF SignLookup, SignRecheck, AnswerFromCache
    <3> QED
      BY <1>4, <3>1 DEF Unanswered
  <2> QED
    BY <2>1, <2>2
<1>6. CASE CertificateLookup(p) \/ CertificateRecheck(p)
  <2>1. call[p].kind = "certificate" /\ call' = call /\ pc[p] \in {"lookup", "recheck"}
    BY <1>6 DEF CertificateLookup, CertificateRecheck, LoadCertificate
  <2>2. CASE certificate # Nil
    BY <1>2, <1>3, <1>6, <2>1, <2>2 DEF CertificateLookup, CertificateRecheck,
       LoadCertificate
  <2>3. CASE certificate = Nil
    BY <1>4, <1>6, <2>1, <2>3 DEF CertificateLookup, CertificateRecheck,
       LoadCertificate, Unanswered
  <2> QED
    BY <2>2, <2>3
<1>7. CASE WaitEnds(p, "ErrChipBusy") \/ WaitEnds(p, "ErrContext")
  BY <1>3, <1>7 DEF WaitEnds, Phase, Failure
<1>8. CASE SendToken(p)
  BY <1>4, <1>8 DEF SendToken, Unanswered
<1>9. CASE SetHolder(p)
  <2>1. /\ UNCHANGED <<call, result>> /\ pc[p] = "setHolder"
        /\ \E l \in {"major", "recheck"} :
               Goto(p, l) /\ (l = "major" => call[p].kind = "probe")
    BY <1>9 DEF SetHolder
  <2> QED
    BY <1>4, <2>1 DEF Unanswered
<1>10. CASE SignAnswered(p)
  BY <1>4, <1>10 DEF SignAnswered, Unanswered
<1>11. CASE StoreEntry(p)
  BY <1>2, <1>3, <1>11 DEF StoreEntry, Phase
<1>12. CASE MajorAnswered(p)
  <2>1. call' = call /\ pc[p] = "major" /\ call[p].kind # "sign"
    BY <1>12 DEF MajorAnswered, Phase
  <2> QED
    BY <1>2, <1>3, <1>4, <1>12, <2>1 DEF MajorAnswered, Unanswered
<1>13. CASE ReadAnswered(p)
  BY <1>2, <1>3, <1>13 DEF ReadAnswered, Phase
<1>14. CASE DriverFails(p)
  <2>1. \A e \in DriverErrors : Failure(normalizeHardwareError(e)).outcome # "none"
    BY DEF DriverErrors, normalizeHardwareError, Failure
  <2> QED
    BY <1>3, <1>14, <2>1 DEF DriverFails, Phase
<1>15. CASE ClearHolder(p) \/ ReceiveToken(p)
  <2>1. /\ UNCHANGED <<call, result>> /\ pc[p] \in {"clearHolder", "receive"}
        /\ \E l \in {"receive", "returned"} : Goto(p, l)
    BY <1>15 DEF ClearHolder, ReceiveToken
  <2> QED
    BY <2>1, Moves DEF Phase, Unanswered
<1>16. CASE Deliver(p)
  BY <1>16 DEF Deliver, Goto, Request, Phase, TypeInv, TypeOK, Unanswered
<1>17. CASE NewRequest(p)
  <2>1. CASE CallCertificate(p)
    BY <2>1 DEF CallCertificate, Goto, Request, Phase, TypeInv, TypeOK, Unanswered
  <2>2. CASE Reset(p)
    <3>1. call' = call /\ pc[p] = "idle" /\ call[p].kind = "none"
      BY <2>2 DEF Reset, Phase
    <3> QED
      BY <2>2, <3>1, Returns DEF Reset, Phase, Unanswered
  <2>3. ASSUME NEW id \in RequestIDs, NEW c \in Challenges, CallSign(p, id, c)
        PROVE  Phase(p)'
    <3>1. p \in Callers /\ call'[p].kind = "sign" /\ pc[p] = "idle"
      BY <2>3 DEF CallSign, TypeInv, TypeOK
    <3>2. \/ \E e \in {"ErrRequestIDFormat", "ErrChallengeSize"} : Return(p, Failure(e))
          \/ Goto(p, "lookup") /\ UNCHANGED result
      BY <2>3 DEF CallSign
    <3>3. \A e : Failure(e).outcome = e
      BY DEF Failure
    <3> QED
      BY <3>1, <3>2, <3>3, Returns, Moves DEF Phase, Unanswered
  <2> QED
    BY <1>17, <2>1, <2>2, <2>3 DEF NewRequest
<1> QED
  BY <1>5, <1>6, <1>7, <1>8, <1>9, <1>10, <1>11, <1>12, <1>13, <1>14, <1>15,
     <1>16, <1>17 DEF Step

(* The phases hold in every behaviour of the service. *)
LEMMA Phased == Spec => []PhaseInv
<1>1. Init => PhaseInv
  <2> SUFFICES ASSUME Init, NEW p \in Procs PROVE Phase(p)
    BY DEF PhaseInv
  <2>1. /\ pc[p] \in {"select", "idle"} /\ result[p] = Failure("none")
        /\ call[p].kind = (IF p = Prober THEN "probe" ELSE "none")
        /\ pc[p] = "idle" => p # Prober
    BY DEF Init, Request
  <2> QED
    BY <2>1 DEF Phase, Unanswered
<1>2. TypeInv /\ PhaseInv /\ [Next]_vars => PhaseInv'
  <2> SUFFICES ASSUME TypeInv, PhaseInv, [Next]_vars PROVE PhaseInv'
    OBVIOUS
  <2>1. CASE UNCHANGED <<pc, call, result>>
    BY <2>1 DEF PhaseInv, Phase
  <2>2. ASSUME NEW p \in Procs, Step(p) \/ NewRequest(p)
        PROVE  PhaseInv'
    <3>1. \A q \in Procs : q # p => Same(q)
      BY <2>2, StepAlone
    <3>2. \A q \in Procs : q # p => Phase(q)'
      BY <3>1 DEF PhaseInv, Phase, Same
    <3>3. Phase(p)'
      BY <2>2, StepPhase DEF PhaseInv
    <3> QED
      BY <3>2, <3>3 DEF PhaseInv
  <2> QED
    BY <2>1, <2>2 DEF Next, Tick, SwapDevice, vars
<1> QED
  BY <1>1, <1>2, Typed, PTL DEF Spec

-----------------------------------------------------------------------------
(* Every entry of the cache, and the entry of a goroutine about to store    *)
(* it, is of a signing under its requestId.                                 *)

From(s, e) ==
    /\ s.signature = e.signature
    /\ e.expiresAt = s.at + TTL
    /\ e.challengeDigest = Sha256(s.signature.challenge)

CacheIssued == \A id \in DOMAIN cache : \E s \in signed : s.id = id /\ From(s, cache[id])

StoreIssued(p) ==
    pc[p] = "store" =>
        \E s \in signed : /\ s.id = call[p].id /\ From(s, local[p])
                         /\ s.signature.challenge = call[p].challenge

OwnSignature(p) ==
    result[p].outcome = "signature" =>
        /\ result[p].value.challenge = call[p].challenge
        /\ \E s \in signed : s.id = call[p].id /\ s.signature = result[p].value

IssuedInv == CacheIssued /\ \A p \in Procs : StoreIssued(p) /\ OwnSignature(p)

(* The symbolic digest is injective. *)
LEMMA DigestInjective == \A c, d : Sha256(c) = Sha256(d) => c = d
BY DEF Sha256

(* A step that signs nothing and stores nothing in the cache. *)
LEMMA QuietIssued ==
    ASSUME TypeInv, IssuedInv, NEW p \in Procs, UNCHANGED signed,
           \A q \in Procs : q # p => Same(q),
           DOMAIN cache' \subseteq DOMAIN cache,
           \A id \in DOMAIN cache' : cache'[id] = cache[id],
           pc'[p] # "store", OwnSignature(p)'
    PROVE  IssuedInv'
<1>1. CacheIssued'
  BY DEF IssuedInv, CacheIssued, From
<1>2. \A q \in Procs : StoreIssued(q)'
  BY DEF IssuedInv, StoreIssued, From, Same
<1>3. \A q \in Procs : OwnSignature(q)'
  BY DEF IssuedInv, OwnSignature, Same
<1> QED
  BY <1>1, <1>2, <1>3 DEF IssuedInv

(* Sign's lookup answers with an entry of the caller's own challenge. *)
LEMMA LookupIssued ==
    ASSUME TypeInv, PhaseInv, IssuedInv, NEW p \in Procs,
           SignLookup(p) \/ SignRecheck(p)
    PROVE  IssuedInv'
<1>1. /\ UNCHANGED <<call, signed>> /\ pc[p] \in {"lookup", "recheck"}
      /\ get(call[p].id)
  BY DEF SignLookup, SignRecheck, AnswerFromCache, history
<1>2. \A q \in Procs : q # p => Same(q)
  BY StepAlone DEF Step
<1>3. /\ DOMAIN cache' \subseteq DOMAIN cache
      /\ \A id \in DOMAIN cache' : cache'[id] = cache[id]
  BY <1>1 DEF get
<1>4. pc'[p] # "store"
  BY Moves DEF SignLookup, SignRecheck, AnswerFromCache, Return
<1>5. OwnSignature(p)'
  <2>1. CASE ~Hit(call[p].id)
    <3>1. result' = result
      BY <2>1 DEF SignLookup, SignRecheck, AnswerFromCache
    <3> QED
      BY <1>1, <3>1 DEF IssuedInv, OwnSignature
  <2>2. CASE Hit(call[p].id)
    <3> DEFINE e == cache[call[p].id]
    <3>1. result'[p] = cachedResult(e, Sha256(call[p].challenge))
      BY <2>2, Returns DEF SignLookup, SignRecheck, AnswerFromCache
    <3>2. PICK s \in signed : s.id = call[p].id /\ From(s, e)
      BY <2>2 DEF Hit, IssuedInv, CacheIssued
    <3> HIDE DEF e
    <3>3. CASE e.challengeDigest = Sha256(call[p].challenge)
      <4>1. s.signature.challenge = call[p].challenge
        BY <3>2, <3>3, DigestInjective DEF From
      <4>2. result'[p].value = s.signature
        BY <3>1, <3>2, <3>3 DEF cachedResult, Success, From
      <4> QED
        BY <1>1, <3>2, <4>1, <4>2 DEF OwnSignature
    <3>4. CASE e.challengeDigest # Sha256(call[p].challenge)
      BY <3>1, <3>4 DEF cachedResult, Failure, OwnSignature
    <3> QED
      BY <3>3, <3>4
  <2> QED
    BY <2>1, <2>2
<1> QED
  BY <1>1, <1>2, <1>3, <1>4, <1>5, QuietIssued

(* The chip signs for the goroutine's own requestId and challenge. *)
LEMMA SignIssued ==
    ASSUME TypeInv, PhaseInv, IssuedInv, NEW p \in Procs, SignAnswered(p)
    PROVE  IssuedInv'
<1> DEFINE t == [id |-> call[p].id, at |-> now,
                 signature |-> [challenge |-> call[p].challenge, serial |-> serial]]
<1>1. /\ pc[p] = "sign" /\ UNCHANGED <<call, result, cache>>
      /\ signed' = signed \cup {t}
  BY DEF SignAnswered, caches
<1>2. \A q \in Procs : q # p => Same(q)
  BY StepAlone DEF Step
<1>3. /\ local'[p].signature = t.signature
      /\ local'[p].expiresAt = t.at + TTL
      /\ local'[p].challengeDigest = Sha256(t.signature.challenge)
  BY DEF SignAnswered, TypeInv, TypeOK
<1>4. t.id = call[p].id /\ t.signature.challenge = call[p].challenge
  OBVIOUS
<1> HIDE DEF t
<1>5. CacheIssued'
  BY <1>1 DEF IssuedInv, CacheIssued, From
<1>6. \A q \in Procs : StoreIssued(q)'
  <2>1. StoreIssued(p)'
    BY <1>1, <1>3, <1>4 DEF StoreIssued, From
  <2>2. \A q \in Procs : q # p => StoreIssued(q)'
    BY <1>1, <1>2 DEF IssuedInv, StoreIssued, From, Same
  <2> QED
    BY <2>1, <2>2
<1>7. \A q \in Procs : OwnSignature(q)'
  BY <1>1 DEF IssuedInv, OwnSignature
<1> QED
  BY <1>5, <1>6, <1>7 DEF IssuedInv

(* The entry is stored under the requestId it was made for. *)
LEMMA StoreIssuedStep ==
    ASSUME TypeInv, PhaseInv, IssuedInv, NEW p \in Procs, StoreEntry(p)
    PROVE  IssuedInv'
<1>1. /\ pc[p] = "store" /\ UNCHANGED <<call, local, signed>>
      /\ put(call[p].id, local[p])
  BY DEF StoreEntry, history
<1>2. \A q \in Procs : q # p => Same(q)
  BY StepAlone DEF Step
<1>3. /\ result'[p] = Success("signature", local[p].signature, FALSE)
      /\ pc'[p] # "store"
  BY Returns DEF StoreEntry
<1>4. PICK s \in signed : /\ s.id = call[p].id /\ From(s, local[p])
                          /\ s.signature.challenge = call[p].challenge
  BY <1>1 DEF IssuedInv, StoreIssued
<1>5. CacheIssued'
  <2> SUFFICES ASSUME NEW id \in DOMAIN cache'
               PROVE  \E u \in signed' : u.id = id /\ From(u, cache[id])'
    BY DEF CacheIssued, From
  <2>1. CASE id = call[p].id
    BY <1>1, <1>4, <2>1 DEF put, From
  <2>2. CASE id # call[p].id
    <3>1. id \in DOMAIN cache /\ cache'[id] = cache[id]
      BY <1>1, <2>2 DEF put
    <3> QED
      BY <1>1, <3>1 DEF IssuedInv, CacheIssued, From
  <2> QED
    BY <2>1, <2>2
<1>6. \A q \in Procs : StoreIssued(q)'
  BY <1>1, <1>2, <1>3 DEF IssuedInv, StoreIssued, From, Same
<1>7. OwnSignature(p)'
  BY <1>1, <1>3, <1>4 DEF OwnSignature, Success, From
<1>8. \A q \in Procs : q # p => OwnSignature(q)'
  BY <1>1, <1>2 DEF IssuedInv, OwnSignature, Same
<1> QED
  BY <1>5, <1>6, <1>7, <1>8 DEF IssuedInv

(* No other step hands out a signature. *)
LEMMA OtherIssued ==
    ASSUME TypeInv, PhaseInv, IssuedInv, NEW p \in Procs,
           Step(p) \/ NewRequest(p),
           ~SignLookup(p), ~SignRecheck(p), ~SignAnswered(p), ~StoreEntry(p)
    PROVE  IssuedInv'
<1>1. \A q \in Procs : q # p => Same(q)
  BY StepAlone
<1>2. \A e : Failure(e).outcome = e
  BY DEF Failure
<1>3. \A v, h : /\ Success("certificate", v, h).outcome = "certificate"
                /\ Success("major", v, h).outcome = "major"
  BY DEF Success
<1>4. ASSUME UNCHANGED <<cache, signed>>, NEW value, Return(p, value),
             value.outcome # "signature"
      PROVE  IssuedInv'
  <2>1. OwnSignature(p)' /\ pc'[p] # "store"
    BY <1>4, Returns DEF OwnSignature
  <2> QED
    BY <1>1, <1>4, <2>1, QuietIssued
<1>5. ASSUME UNCHANGED <<cache, signed, call, result>>, NEW l, Goto(p, l), l # "store"
      PROVE  IssuedInv'
  <2>1. OwnSignature(p)' /\ pc'[p] # "store"
    BY <1>5, Moves DEF OwnSignature, IssuedInv
  <2> QED
    BY <1>1, <1>5, <2>1, QuietIssued
<1>6. CASE CertificateLookup(p) \/ CertificateRecheck(p)
  <2>1. CASE certificate # Nil
    BY <1>3, <1>4, <1>6, <2>1 DEF CertificateLookup, CertificateRecheck,
       LoadCertificate, caches, history
  <2>2. CASE certificate = Nil
    <3>1. \E l \in {"select", "major"} : Goto(p, l)
      BY <1>6, <2>2 DEF CertificateLookup, CertificateRecheck, LoadCertificate
    <3>2. UNCHANGED <<cache, signed, call, result>>
      BY <1>6, <2>2 DEF CertificateLookup, CertificateRecheck, LoadCertificate,
         caches, history
    <3> QED
      BY <1>5, <3>1, <3>2
  <2> QED
    BY <2>1, <2>2
<1>7. CASE WaitEnds(p, "ErrChipBusy") \/ WaitEnds(p, "ErrContext")
  BY <1>2, <1>4, <1>7 DEF WaitEnds, caches, history
<1>8. CASE SendToken(p) \/ SetHolder(p) \/ ClearHolder(p) \/ ReceiveToken(p)
  <2>1. /\ UNCHANGED <<cache, signed, call, result>>
        /\ \E l \in {"setHolder", "major", "recheck", "receive", "returned"} : Goto(p, l)
    BY <1>8 DEF SendToken, SetHolder, ClearHolder, ReceiveToken, caches, history
  <2> QED
    BY <1>5, <2>1
<1>9. CASE MajorAnswered(p)
  BY <1>3, <1>4, <1>5, <1>9 DEF MajorAnswered, caches, history
<1>10. CASE ReadAnswered(p)
  BY <1>3, <1>4, <1>10 DEF ReadAnswered, history
<1>11. CASE DriverFails(p)
  <2>1. \A e \in DriverErrors : normalizeHardwareError(e) # "signature"
    BY DEF DriverErrors, normalizeHardwareError
  <2> QED
    BY <1>2, <1>4, <1>11, <2>1 DEF DriverFails, caches, history
<1>12. CASE Deliver(p)
  <2>1. /\ UNCHANGED <<cache, signed>>
        /\ result'[p] = Failure("none") /\ pc'[p] = "idle"
    BY <1>12, Moves DEF Deliver, caches, history, TypeInv, TypeOK
  <2>2. OwnSignature(p)'
    BY <1>2, <2>1 DEF OwnSignature
  <2> QED
    BY <1>1, <2>1, <2>2, QuietIssued
<1>13. CASE NewRequest(p)
  <2>1. /\ UNCHANGED <<cache, signed>> /\ pc[p] = "idle"
        /\ \/ \E e \in {"none", "ErrRequestIDFormat", "ErrChallengeSize"} :
                  Return(p, Failure(e))
           \/ Goto(p, "lookup") /\ UNCHANGED result
    BY <1>13 DEF NewRequest, CallSign, CallCertificate, Reset, caches, history
  <2>2. result[p] = Failure("none")
    BY <2>1 DEF PhaseInv, Phase, Unanswered
  <2>3. OwnSignature(p)' /\ pc'[p] # "store"
    BY <1>2, <2>1, <2>2, Returns, Moves DEF OwnSignature
  <2> QED
    BY <1>1, <2>1, <2>3, QuietIssued
<1> QED
  BY <1>6, <1>7, <1>8, <1>9, <1>10, <1>11, <1>12, <1>13 DEF Step

(* The entries and the answers are of their own signings in every           *)
(* behaviour of the service.                                                *)
LEMMA Issued == Spec => []IssuedInv
<1>1. Init => IssuedInv
  <2> SUFFICES ASSUME Init PROVE IssuedInv
    OBVIOUS
  <2>1. CacheIssued
    BY DEF Init, CacheIssued
  <2>2. \A p \in Procs : pc[p] # "store" /\ result[p].outcome = "none"
    BY DEF Init, Failure
  <2> QED
    BY <2>1, <2>2 DEF IssuedInv, StoreIssued, OwnSignature
<1>2. TypeInv /\ PhaseInv /\ IssuedInv /\ [Next]_vars => IssuedInv'
  <2> SUFFICES ASSUME TypeInv, PhaseInv, IssuedInv, [Next]_vars PROVE IssuedInv'
    OBVIOUS
  <2>1. CASE UNCHANGED <<pc, call, local, result, cache, signed>>
    BY <2>1 DEF IssuedInv, CacheIssued, StoreIssued, OwnSignature, From
  <2>2. ASSUME NEW p \in Procs, Step(p) \/ NewRequest(p)
        PROVE  IssuedInv'
    BY <2>2, LookupIssued, SignIssued, StoreIssuedStep, OtherIssued
  <2> QED
    BY <2>1, <2>2 DEF Next, Tick, SwapDevice, vars, caches, history
<1> QED
  BY <1>1, <1>2, Typed, Phased, PTL DEF Spec

(* Whoever gets a signature gets one made for its own requestId and         *)
(* challenge, with any number of clients (Sign, cachedResult).              *)
THEOREM ClientsAreNotMixedUp == Spec => []NoCrosstalk
<1>1. IssuedInv => NoCrosstalk
  BY DEF IssuedInv, OwnSignature, NoCrosstalk
<1> QED
  BY <1>1, Issued, PTL

-----------------------------------------------------------------------------
(* The certificate.  Whoever reads it from the chip has found none inside   *)
(* the gate, and nobody else can have stored one since.                     *)

ReaderIsFirst ==
    \A p \in Procs :
        /\ pc[p] = "read" => call[p].kind = "certificate"
        /\ pc[p] \in {"major", "read"} /\ call[p].kind = "certificate" =>
               certificate = Nil

CertificateInv == ReaderIsFirst /\ OneCertificate

(* A step that does not store a certificate. *)
LEMMA QuietCertificate ==
    ASSUME TypeInv, CertificateInv, NEW p \in Procs, UNCHANGED certificate,
           \A q \in Procs : q # p => Same(q),
           pc'[p] = "read" => call'[p].kind = "certificate",
           pc'[p] \in {"major", "read"} /\ call'[p].kind = "certificate" =>
               certificate = Nil,
           result'[p].outcome = "certificate" => result'[p].value = certificate
    PROVE  CertificateInv'
<1>1. ReaderIsFirst'
  BY DEF CertificateInv, ReaderIsFirst, Same
<1>2. OneCertificate'
  BY DEF CertificateInv, OneCertificate, Same
<1> QED
  BY <1>1, <1>2 DEF CertificateInv

(* A goroutine's step keeps the certificate unique. *)
LEMMA StepCertificate ==
    ASSUME TypeInv, GateInv, PhaseInv, CertificateInv, NEW p \in Procs,
           Step(p) \/ NewRequest(p)
    PROVE  CertificateInv'
<1>1. \A q \in Procs : q # p => Same(q)
  BY StepAlone
<1>2. \A e : Failure(e).outcome = e
  BY DEF Failure
<1>3. \A v, h : /\ Success("signature", v, h).outcome = "signature"
                /\ Success("major", v, h).outcome = "major"
                /\ Success("certificate", v, h).value = v
  BY DEF Success
<1>4. ASSUME UNCHANGED certificate, NEW value, Return(p, value),
             value.outcome = "certificate" => value.value = certificate
      PROVE  CertificateInv'
  <2>1. pc'[p] \notin {"major", "read"} /\ result'[p] = value
    BY <1>4, Returns DEF Unanswered
  <2> QED
    BY <1>1, <1>4, <2>1, QuietCertificate
<1>5. ASSUME UNCHANGED <<certificate, call, result>>, NEW l, Goto(p, l),
             l = "read" => call[p].kind = "certificate",
             l \in {"major", "read"} /\ call[p].kind = "certificate" =>
                 certificate = Nil
      PROVE  CertificateInv'
  <2>1. pc'[p] = l
    BY <1>5, Moves
  <2>2. result[p].outcome = "certificate" => result[p].value = certificate
    BY DEF CertificateInv, OneCertificate
  <2> QED
    BY <1>1, <1>5, <2>1, <2>2, QuietCertificate
<1>6. CASE SignLookup(p) \/ SignRecheck(p)
  <2>1. /\ UNCHANGED <<certificate, call>>
        /\ \/ Return(p, cachedResult(cache[call[p].id], Sha256(call[p].challenge)))
           \/ UNCHANGED result /\ \E l \in {"select", "sign"} : Goto(p, l)
    BY <1>6 DEF SignLookup, SignRecheck, AnswerFromCache
  <2>2. cachedResult(cache[call[p].id], Sha256(call[p].challenge)).outcome
            # "certificate"
    BY <1>2, <1>3 DEF cachedResult
  <2> QED
    BY <1>4, <1>5, <2>1, <2>2
<1>7. CASE CertificateLookup(p) \/ CertificateRecheck(p)
  <2>1. UNCHANGED certificate
    BY <1>7 DEF CertificateLookup, CertificateRecheck, LoadCertificate, caches
  <2>2. CASE certificate # Nil
    BY <1>3, <1>4, <1>7, <2>1, <2>2 DEF CertificateLookup, CertificateRecheck,
       LoadCertificate
  <2>3. CASE certificate = Nil
    <3>1. \E l \in {"select", "major"} : Goto(p, l)
      BY <1>7, <2>3 DEF CertificateLookup, CertificateRecheck, LoadCertificate
    <3>2. UNCHANGED <<call, result>>
      BY <1>7, <2>3 DEF CertificateLookup, CertificateRecheck, LoadCertificate
    <3> QED
      BY <1>5, <2>1, <2>3, <3>1, <3>2
  <2> QED
    BY <2>2, <2>3
<1>8. CASE WaitEnds(p, "ErrChipBusy") \/ WaitEnds(p, "ErrContext")
  BY <1>2, <1>4, <1>8 DEF WaitEnds, caches
<1>9. CASE \/ SendToken(p) \/ SetHolder(p) \/ ClearHolder(p) \/ ReceiveToken(p)
           \/ SignAnswered(p)
  <2>1. UNCHANGED <<certificate, call, result>>
    BY <1>9 DEF SendToken, SetHolder, ClearHolder, ReceiveToken, SignAnswered, caches
  <2>2. \E l \in {"setHolder", "major", "recheck", "receive", "returned", "store"} :
            Goto(p, l) /\ (l = "major" => call[p].kind = "probe")
    BY <1>9 DEF SendToken, SetHolder, ClearHolder, ReceiveToken, SignAnswered
  <2> QED
    BY <1>5, <2>1, <2>2
<1>10. CASE StoreEntry(p)
  BY <1>3, <1>4, <1>10 DEF StoreEntry
<1>11. CASE MajorAnswered(p)
  <2>1. CASE call[p].kind = "probe"
    BY <1>3, <1>4, <1>11, <2>1 DEF MajorAnswered, caches
  <2>2. CASE call[p].kind = "certificate"
    <3>1. certificate = Nil
      BY <1>11, <2>2 DEF MajorAnswered, CertificateInv, ReaderIsFirst
    <3>2. UNCHANGED <<certificate, call, result>> /\ Goto(p, "read")
      BY <1>11, <2>2 DEF MajorAnswered, caches
    <3> QED
      BY <1>5, <2>2, <3>1, <3>2
  <2> QED
    BY <1>11, <2>1, <2>2 DEF MajorAnswered
<1>12. CASE ReadAnswered(p)
  <2>1. pc[p] = "read" /\ certificate = Nil /\ call' = call
    BY <1>12 DEF ReadAnswered, CertificateInv, ReaderIsFirst
  <2>2. /\ result'[p] = Success("certificate", certificate', FALSE)
        /\ pc'[p] \notin Unanswered
    BY <1>12, Returns DEF ReadAnswered
  <2>3. \A q \in Procs : q # p => pc[q] \notin {"major", "read"}
    BY <2>1, Regions DEF GateInv, SlotAccounted
  <2>4. \A q \in Procs : result[q].outcome # "certificate"
    <3>1. \A r \in Results : r.outcome = "certificate" => r.value \in Certificates
      BY DEF Results, Errors
    <3>2. Nil \notin Certificates
      BY ServiceAssumption DEF Certificates
    <3> QED
      BY <2>1, <3>1, <3>2 DEF TypeInv, TypeOK, CertificateInv, OneCertificate
  <2>5. ReaderIsFirst'
    BY <1>1, <2>2, <2>3 DEF ReaderIsFirst, Same, Unanswered
  <2>6. OneCertificate'
    <3>1. result'[p].value = certificate'
      BY <1>3, <2>2
    <3>2. \A q \in Procs : q # p => result'[q].outcome # "certificate"
      BY <1>1, <2>4 DEF Same
    <3> QED
      BY <3>1, <3>2 DEF OneCertificate
  <2> QED
    BY <2>5, <2>6 DEF CertificateInv
<1>13. CASE DriverFails(p)
  <2>1. \A e \in DriverErrors : normalizeHardwareError(e) # "certificate"
    BY DEF DriverErrors, normalizeHardwareError
  <2> QED
    BY <1>2, <1>4, <1>13, <2>1 DEF DriverFails, caches
<1>14. CASE Deliver(p)
  <2>1. /\ UNCHANGED certificate
        /\ result'[p] = Failure("none") /\ pc'[p] = "idle"
    BY <1>14, Moves DEF Deliver, caches, TypeInv, TypeOK
  <2> QED
    BY <1>1, <1>2, <2>1, QuietCertificate
<1>15. CASE NewRequest(p)
  <2>1. /\ UNCHANGED certificate /\ pc[p] = "idle"
        /\ \/ \E e \in {"none", "ErrRequestIDFormat", "ErrChallengeSize"} :
                  Return(p, Failure(e))
           \/ Goto(p, "lookup") /\ UNCHANGED result
    BY <1>15 DEF NewRequest, CallSign, CallCertificate, Reset, caches
  <2>2. result[p] = Failure("none")
    BY <2>1 DEF PhaseInv, Phase, Unanswered
  <2>3. /\ result'[p].outcome # "certificate"
        /\ pc'[p] \in {"lookup", "returned", "clearHolder"}
    BY <1>2, <2>1, <2>2, Returns, Moves
  <2> QED
    BY <1>1, <2>1, <2>3, QuietCertificate
<1> QED
  BY <1>6, <1>7, <1>8, <1>9, <1>10, <1>11, <1>12, <1>13, <1>14, <1>15 DEF Step

(* All clients see one certificate, however many ask at once and whatever   *)
(* chips come and go (Certificate).                                         *)
THEOREM CertificateIsUnique == Spec => []OneCertificate
<1>1. Init => CertificateInv
  <2> SUFFICES ASSUME Init PROVE CertificateInv
    OBVIOUS
  <2>1. \A p \in Procs : /\ pc[p] \notin {"major", "read"}
                         /\ result[p].outcome = "none"
    BY DEF Init, Failure
  <2> QED
    BY <2>1 DEF CertificateInv, ReaderIsFirst, OneCertificate
<1>2. TypeInv /\ GateInv /\ PhaseInv /\ CertificateInv /\ [Next]_vars
          => CertificateInv'
  <2> SUFFICES ASSUME TypeInv, GateInv, PhaseInv, CertificateInv, [Next]_vars
               PROVE  CertificateInv'
    OBVIOUS
  <2>1. CASE UNCHANGED <<pc, call, result, certificate>>
    BY <2>1 DEF CertificateInv, ReaderIsFirst, OneCertificate
  <2> QED
    BY <2>1, StepCertificate DEF Next, Tick, SwapDevice, vars, caches
<1>3. CertificateInv => OneCertificate
  BY DEF CertificateInv
<1> QED
  BY <1>1, <1>2, <1>3, Typed, Gated, Phased, PTL DEF Spec

-----------------------------------------------------------------------------
(* The refinement: every step is a step of IdempotentSigner or a stutter.   *)

(* What the mapping shows of one client, before and after a step. *)
LEMMA Shown ==
    ASSUME NEW q \in Callers
    PROVE  /\ Requested[q] = IF call[q].kind = "sign"
                             THEN [id |-> call[q].id, challenge |-> call[q].challenge]
                             ELSE Nil
           /\ Requested'[q] = IF call'[q].kind = "sign"
                              THEN [id |-> call'[q].id, challenge |-> call'[q].challenge]
                              ELSE Nil
           /\ InHand[q] = IF pc[q] = "store" THEN local[q].signature ELSE Nil
           /\ InHand'[q] = IF pc'[q] = "store" THEN local'[q].signature ELSE Nil
           /\ Answered[q] = IF call[q].kind = "sign"
                            THEN [outcome |-> OutcomeOf(result[q]), value |-> result[q].value]
                            ELSE [outcome |-> "none", value |-> Nil]
           /\ Answered'[q] = IF call'[q].kind = "sign"
                             THEN [outcome |-> OutcomeOf(result'[q]), value |-> result'[q].value]
                             ELSE [outcome |-> "none", value |-> Nil]
BY DEF Requested, InHand, Answered

(* A client whose goroutine did not move shows the same. *)
LEMMA ShownSame ==
    ASSUME NEW p, \A q \in Procs : q # p => Same(q)
    PROVE  \A q \in Callers \ {p} : /\ Requested'[q] = Requested[q]
                                    /\ InHand'[q] = InHand[q]
                                    /\ Answered'[q] = Answered[q]
<1> SUFFICES ASSUME NEW q \in Callers, q # p
             PROVE  /\ Requested'[q] = Requested[q]
                    /\ InHand'[q] = InHand[q]
                    /\ Answered'[q] = Answered[q]
  OBVIOUS
<1>1. Same(q)
  BY DEF Procs
<1> QED
  BY <1>1, Shown DEF Same

(* Steps that show nothing. *)
LEMMA Stutters ==
    ASSUME UNCHANGED <<now, signed>>,
           \A q \in Callers : /\ Requested'[q] = Requested[q]
                              /\ InHand'[q] = InHand[q]
                              /\ Answered'[q] = Answered[q]
    PROVE  UNCHANGED Signer!vars
<1>1. Requested' = Requested
  BY DEF Requested
<1>2. InHand' = InHand
  BY DEF InHand
<1>3. Answered' = Answered
  BY DEF Answered
<1> QED
  BY <1>1, <1>2, <1>3 DEF Signer!vars

(* The mapping of a component that no client changes. *)
LEMMA Unmoved ==
    /\ (\A q \in Callers : Requested'[q] = Requested[q]) => Requested' = Requested
    /\ (\A q \in Callers : InHand'[q] = InHand[q]) => InHand' = InHand
    /\ (\A q \in Callers : Answered'[q] = Answered[q]) => Answered' = Answered
BY DEF Requested, InHand, Answered

(* A client that waits in the service waits in the abstraction. *)
LEMMA WaitsInBoth ==
    ASSUME TypeInv, PhaseInv, NEW p \in Callers, call[p].kind = "sign",
           pc[p] \in Unanswered \ {"store"}
    PROVE  /\ Requested[p] = [id |-> call[p].id, challenge |-> call[p].challenge]
           /\ Requested[p].id = call[p].id
           /\ Requested[p].challenge = call[p].challenge
           /\ Requested[p] # Nil
           /\ InHand[p] = Nil
           /\ Answered[p] = [outcome |-> "none", value |-> Nil]
<1>1. p \in Procs
  BY DEF Procs
<1>2. call[p].id \in RequestIDs /\ call[p].challenge \in Challenges
  <2>1. call[p] \in Calls
    BY <1>1 DEF TypeInv, TypeOK
  <2> QED
    BY <2>1 DEF Calls
<1>3. [id |-> call[p].id, challenge |-> call[p].challenge] # Nil
  BY <1>2, RefinementAssumption
<1>4. result[p] = Failure("none")
  BY <1>1 DEF PhaseInv, Phase
<1>5. OutcomeOf(Failure("none")) = "none" /\ Failure("none").value = Nil
  BY DEF OutcomeOf, Failure
<1>6. InHand[p] = Nil
  BY Shown
<1>7. Answered[p] = [outcome |-> OutcomeOf(result[p]), value |-> result[p].value]
  BY Shown
<1>8. Requested[p] = [id |-> call[p].id, challenge |-> call[p].challenge]
  BY Shown
<1>9. Requested[p].id = call[p].id /\ Requested[p].challenge = call[p].challenge
  BY <1>8
<1> QED
  BY <1>3, <1>4, <1>5, <1>6, <1>7, <1>8, <1>9

(* A step whose goroutine serves no signing request, or that changes only   *)
(* what is not shown of it.                                                 *)
LEMMA QuietSigner ==
    ASSUME TypeInv, NEW p \in Procs, \A q \in Procs : q # p => Same(q),
           UNCHANGED <<now, signed>>, pc[p] # "store", pc'[p] # "store",
           call'[p].kind = "sign" <=> call[p].kind = "sign",
           call[p].kind = "sign" => call'[p] = call[p] /\ result'[p] = result[p]
    PROVE  UNCHANGED Signer!vars
<1>1. p \in Callers => /\ Requested'[p] = Requested[p]
                       /\ InHand'[p] = InHand[p]
                       /\ Answered'[p] = Answered[p]
  BY Shown
<1>2. \A q \in Callers : /\ Requested'[q] = Requested[q]
                         /\ InHand'[q] = InHand[q]
                         /\ Answered'[q] = Answered[q]
  BY <1>1, ShownSame
<1> QED
  BY <1>2, Stutters

(* A signing request that gets an answer, and only that. *)
LEMMA Answers ==
    ASSUME TypeInv, NEW p \in Callers, \A q \in Procs : q # p => Same(q),
           call'[p] = call[p], call[p].kind = "sign",
           pc[p] # "store", pc'[p] # "store"
    PROVE  /\ Requested' = Requested /\ InHand' = InHand
           /\ \A q \in Callers \ {p} : Answered'[q] = Answered[q]
           /\ Answered'[p] = [outcome |-> OutcomeOf(result'[p]), value |-> result'[p].value]
<1>1. /\ Requested'[p] = Requested[p] /\ InHand'[p] = InHand[p]
      /\ Answered'[p] = [outcome |-> OutcomeOf(result'[p]), value |-> result'[p].value]
  BY Shown
<1>2. \A q \in Callers : Requested'[q] = Requested[q] /\ InHand'[q] = InHand[q]
  BY <1>1, ShownSame
<1> QED
  BY <1>1, <1>2, ShownSame, Unmoved

(* An error other than a reused requestId. *)
LEMMA FailRefines ==
    ASSUME TypeInv, PhaseInv, NEW p \in Procs, \A q \in Procs : q # p => Same(q),
           UNCHANGED <<now, signed>>, call'[p] = call[p],
           pc[p] \in Unanswered \ {"store"},
           NEW e \in Errors \ {"ErrRequestIDReuse"}, Return(p, Failure(e))
    PROVE  Signer!Next \/ UNCHANGED Signer!vars
<1>1. result'[p] = Failure(e) /\ pc'[p] # "store"
  BY Returns DEF Unanswered
<1>2. CASE call[p].kind # "sign"
  BY <1>1, <1>2, QuietSigner
<1>3. CASE call[p].kind = "sign"
  <2>1. p \in Callers
    BY <1>3 DEF PhaseInv, Phase
  <2>2. OutcomeOf(Failure(e)) = "error" /\ Failure(e).value = Nil
    BY DEF OutcomeOf, Failure, Errors
  <2>3. Answered'[p] = [outcome |-> "error", value |-> Nil]
    BY <1>1, <1>3, <2>1, <2>2, Answers
  <2>4. Signer!Fail(p)
    BY <1>1, <1>3, <2>1, <2>3, Answers, WaitsInBoth
       DEF Signer!Fail, Signer!Waiting, Signer!NoAnswer, Signer!Answer, Signer!Only
  <2> QED
    BY <2>1, <2>4 DEF Signer!Next
<1> QED
  BY <1>2, <1>3

(* The cache answers with the live signature, or that the requestId was     *)
(* used for another challenge.                                              *)
LEMMA LookupRefines ==
    ASSUME TypeInv, PhaseInv, IssuedInv, NEW p \in Procs,
           SignLookup(p) \/ SignRecheck(p)
    PROVE  Signer!Next \/ UNCHANGED Signer!vars
<1>1. /\ UNCHANGED <<call, now, signed>> /\ pc[p] \in {"lookup", "recheck"}
      /\ call[p].kind = "sign"
  BY DEF SignLookup, SignRecheck, AnswerFromCache, world, history
<1>2. \A q \in Procs : q # p => Same(q)
  BY StepAlone DEF Step
<1>3. p \in Callers
  BY <1>1 DEF PhaseInv, Phase
<1>4. pc'[p] # "store"
  BY Moves DEF SignLookup, SignRecheck, AnswerFromCache, Return
<1>5. CASE ~Hit(call[p].id)
  <2>1. result' = result
    BY <1>5 DEF SignLookup, SignRecheck, AnswerFromCache
  <2> QED
    BY <1>1, <1>2, <1>4, <2>1, QuietSigner
<1>6. CASE Hit(call[p].id)
  <2> DEFINE e == cache[call[p].id]
  <2>1. result'[p] = cachedResult(e, Sha256(call[p].challenge))
    BY <1>6, Returns DEF SignLookup, SignRecheck, AnswerFromCache
  <2>2. PICK s \in signed : s.id = call[p].id /\ From(s, e)
    BY <1>6 DEF Hit, IssuedInv, CacheIssued
  <2>3. now <= s.at + TTL
    <3>1. ~(now > s.at + TTL)
      BY <1>6, <2>2 DEF Hit, Expired, From
    <3> QED
      BY <3>1, Clocks
  <2> HIDE DEF e
  <2>4. Answered'[p] = IF s.signature.challenge = call[p].challenge
                       THEN [outcome |-> "signature", value |-> s.signature]
                       ELSE [outcome |-> "reused", value |-> Nil]
    <3>1. Answered'[p] = [outcome |-> OutcomeOf(result'[p]), value |-> result'[p].value]
      BY <1>1, <1>2, <1>3, <1>4, Answers
    <3>2. CASE s.signature.challenge = call[p].challenge
      <4>1. result'[p] = Success("signature", s.signature, TRUE)
        BY <2>1, <2>2, <3>2 DEF cachedResult, From
      <4> QED
        BY <3>1, <3>2, <4>1 DEF OutcomeOf, Success
    <3>3. CASE s.signature.challenge # call[p].challenge
      <4>1. result'[p] = Failure("ErrRequestIDReuse")
        BY <2>1, <2>2, <3>3, DigestInjective DEF cachedResult, From
      <4> QED
        BY <3>1, <3>3, <4>1 DEF OutcomeOf, Failure
    <3> QED
      BY <3>2, <3>3
  <2>5. /\ Requested[p].id = call[p].id /\ Requested[p].challenge = call[p].challenge
        /\ Requested[p] # Nil /\ InHand[p] = Nil
        /\ Answered[p] = [outcome |-> "none", value |-> Nil]
    <3>1. pc[p] \in Unanswered \ {"store"}
      BY <1>1 DEF Unanswered
    <3> QED
      BY <1>1, <1>3, <3>1, WaitsInBoth
  <2>6. s \in Signer!Live(Requested[p].id)
    BY <2>2, <2>3, <2>5 DEF Signer!Live
  <2>7. /\ Requested' = Requested /\ InHand' = InHand
        /\ \A q \in Callers \ {p} : Answered'[q] = Answered[q]
    BY <1>1, <1>2, <1>3, <1>4, Answers
  <2>8. Signer!Repeat(p)
    BY <1>1, <2>4, <2>5, <2>6, <2>7
       DEF Signer!Repeat, Signer!Waiting, Signer!NoAnswer, Signer!Answer, Signer!Only
  <2> QED
    BY <1>3, <2>8 DEF Signer!Next
<1> QED
  BY <1>5, <1>6

(* The driver's answer makes a signature where none is alive. *)
LEMMA SignRefines ==
    ASSUME TypeInv, PhaseInv, WindowInv, NEW p \in Procs, SignAnswered(p)
    PROVE  Signer!Next
<1> DEFINE signature == [challenge |-> call[p].challenge, serial |-> serial]
<1>1. /\ UNCHANGED <<call, result, now>> /\ pc[p] = "sign"
      /\ signed' = signed \cup {[id |-> call[p].id, at |-> now, signature |-> signature]}
      /\ local'[p].signature = signature
  BY DEF SignAnswered, world, TypeInv, TypeOK
<1>2. \A q \in Procs : q # p => Same(q)
  BY StepAlone DEF Step
<1>3. call[p].kind = "sign" /\ pc'[p] = "store"
  BY <1>1, Moves DEF SignAnswered, TypeInv, LocalsOK
<1>4. p \in Callers
  BY <1>3 DEF PhaseInv, Phase
<1>5. /\ Requested[p].id = call[p].id /\ Requested[p].challenge = call[p].challenge
      /\ Requested[p] # Nil /\ InHand[p] = Nil
      /\ Answered[p] = [outcome |-> "none", value |-> Nil]
  <2>1. pc[p] \in Unanswered \ {"store"}
    BY <1>1 DEF Unanswered
  <2> QED
    BY <1>3, <1>4, <2>1, WaitsInBoth
<1>6. InHand'[p] = signature
  BY <1>1, <1>3, <1>4, Shown
<1>7. signature # Nil /\ signature.challenge = call[p].challenge
  <2>1. call[p] \in Calls /\ serial \in Nat
    BY DEF TypeInv, TypeOK
  <2>2. call[p].challenge \in Challenges
    BY <1>3, <2>1 DEF Calls
  <2>3. signature \in Signatures
    BY <2>1, <2>2 DEF Signatures
  <2> QED
    BY <2>3, RefinementAssumption
<1> HIDE DEF signature
<1>8. Signer!Live(Requested[p].id) = {}
  BY <1>1, <1>5 DEF Signer!Live, WindowInv, SignerIsFirst, Fresh
<1>9. /\ Requested' = Requested /\ Answered' = Answered
      /\ \A q \in Callers \ {p} : InHand'[q] = InHand[q]
  <2>1. Requested'[p] = Requested[p] /\ Answered'[p] = Answered[p]
    BY <1>1, <1>4, Shown
  <2>2. \A q \in Callers : Requested'[q] = Requested[q] /\ Answered'[q] = Answered[q]
    BY <1>2, <2>1, ShownSame
  <2> QED
    BY <1>2, <2>2, ShownSame, Unmoved
<1>10. Signer!Make(p)
  BY <1>1, <1>5, <1>6, <1>7, <1>8, <1>9
     DEF Signer!Make, Signer!Waiting, Signer!NoAnswer, Signer!Answer, Signer!Only
<1> QED
  BY <1>4, <1>10 DEF Signer!Next

(* Storing the entry hands the signature over. *)
LEMMA StoreRefines ==
    ASSUME TypeInv, PhaseInv, NEW p \in Procs, StoreEntry(p)
    PROVE  Signer!Next
<1>1. UNCHANGED <<call, local, now, signed>> /\ pc[p] = "store"
  BY DEF StoreEntry, world, history
<1>2. \A q \in Procs : q # p => Same(q)
  BY StepAlone DEF Step
<1>3. call[p].kind = "sign" /\ local[p] \in Entries
  BY <1>1 DEF TypeInv, LocalsOK
<1>4. p \in Callers
  BY <1>3 DEF PhaseInv, Phase
<1>5. /\ result'[p] = Success("signature", local[p].signature, FALSE)
      /\ pc'[p] # "store"
  BY Returns DEF StoreEntry, Unanswered
<1>6. InHand[p] = local[p].signature /\ InHand'[p] = Nil
  BY <1>1, <1>4, <1>5, Shown
<1>7. InHand[p] # Nil
  BY <1>3, <1>6, RefinementAssumption DEF Entries
<1>8. Answered'[p] = [outcome |-> "signature", value |-> InHand[p]]
  <2>1. Answered'[p] = [outcome |-> OutcomeOf(result'[p]), value |-> result'[p].value]
    BY <1>1, <1>3, <1>4, Shown
  <2>2. OutcomeOf(result'[p]) = "signature" /\ result'[p].value = local[p].signature
    BY <1>5 DEF OutcomeOf, Success
  <2> QED
    BY <1>6, <2>1, <2>2
<1>9. Requested' = Requested
  <2>1. Requested'[p] = Requested[p]
    BY <1>1, <1>4, Shown
  <2> QED
    BY <1>2, <2>1, ShownSame, Unmoved
<1>10. Signer!HandOver(p)
  BY <1>1, <1>2, <1>6, <1>7, <1>8, <1>9, ShownSame
     DEF Signer!HandOver, Signer!Answer, Signer!Only
<1> QED
  BY <1>4, <1>10 DEF Signer!Next

(* Taking the answer ends a client's request. *)
LEMMA DeliverRefines ==
    ASSUME TypeInv, PhaseInv, NEW p \in Procs, Deliver(p)
    PROVE  Signer!Next \/ UNCHANGED Signer!vars
<1>1. /\ UNCHANGED <<now, signed>> /\ pc[p] = "returned" /\ pc'[p] = "idle"
      /\ call'[p] = Request("none") /\ result'[p] = Failure("none")
  BY DEF Deliver, Goto, world, history, TypeInv, TypeOK
<1>2. \A q \in Procs : q # p => Same(q)
  BY StepAlone DEF Step
<1>3. call'[p].kind = "none"
  BY <1>1 DEF Request
<1>4. CASE call[p].kind # "sign"
  BY <1>1, <1>2, <1>3, <1>4, QuietSigner
<1>5. CASE call[p].kind = "sign"
  <2>1. p \in Callers /\ result[p].outcome # "none"
    BY <1>1, <1>5 DEF PhaseInv, Phase, Unanswered
  <2>2. OutcomeOf(result[p]) # "none"
    BY <2>1 DEF OutcomeOf
  <2>3. Answered[p] # [outcome |-> "none", value |-> Nil]
    <3>1. Answered[p] = [outcome |-> OutcomeOf(result[p]), value |-> result[p].value]
      BY <1>5, <2>1, Shown
    <3>2. Answered[p].outcome # "none"
      BY <2>2, <3>1
    <3> QED
      BY <3>2
  <2>4. /\ Requested'[p] = Nil /\ InHand'[p] = InHand[p]
        /\ Answered'[p] = [outcome |-> "none", value |-> Nil]
    BY <1>1, <1>3, <2>1, Shown
  <2>5. InHand' = InHand
    BY <1>2, <2>4, ShownSame, Unmoved
  <2>6. Signer!Leave(p)
    BY <1>1, <1>2, <2>3, <2>4, <2>5, ShownSame
       DEF Signer!Leave, Signer!NoAnswer, Signer!Answer, Signer!Only
  <2> QED
    BY <2>1, <2>6 DEF Signer!Next
<1> QED
  BY <1>4, <1>5

(* A request for a signature is asked of the abstraction too. *)
LEMMA RequestRefines ==
    ASSUME TypeInv, PhaseInv, NEW p \in Procs, NewRequest(p)
    PROVE  Signer!Next \/ UNCHANGED Signer!vars
<1>1. /\ UNCHANGED <<now, signed>> /\ pc[p] = "idle" /\ p \in Callers
      /\ pc'[p] \in {"lookup", "returned"}
  BY DEF NewRequest, CallSign, CallCertificate, Reset, Return, Goto, world, history,
     InGate, Named, InChip, TypeInv, TypeOK
<1>2. \A q \in Procs : q # p => Same(q)
  BY StepAlone
<1>3. call[p].kind = "none" /\ result[p] = Failure("none")
  BY <1>1 DEF PhaseInv, Phase, Unanswered
<1>4. CASE CallCertificate(p) \/ Reset(p)
  <2>1. call'[p] \in {call[p], Request("certificate")}
    BY <1>4 DEF CallCertificate, Reset, TypeInv, TypeOK
  <2>2. Request("certificate").kind = "certificate"
    BY DEF Request
  <2> QED
    BY <1>1, <1>2, <1>3, <2>1, <2>2, QuietSigner
<1>5. ASSUME NEW id \in RequestIDs, NEW challenge \in Challenges,
             CallSign(p, id, challenge)
      PROVE  Signer!Ask(p)
  <2>1. call'[p] = [kind |-> "sign", id |-> id, challenge |-> challenge]
    BY <1>5 DEF CallSign, TypeInv, TypeOK
  <2>2. Requested[p] = Nil
    BY <1>1, <1>3, Shown
  <2>3. Requested'[p] = [id |-> id, challenge |-> challenge]
    <3>1. /\ call'[p].kind = "sign"
          /\ call'[p].id = id /\ call'[p].challenge = challenge
      BY <2>1
    <3>2. Requested'[p] = [id |-> call'[p].id, challenge |-> call'[p].challenge]
      BY <1>1, <3>1, Shown
    <3> QED
      BY <3>1, <3>2
  <2>4. Requested'[p] # Nil
    BY <2>3, RefinementAssumption
  <2>5. \E e \in {"none", "ErrRequestIDFormat", "ErrChallengeSize"} :
            result'[p] = Failure(e)
    BY <1>3, <1>5 DEF CallSign, Return, TypeInv, TypeOK
  <2>6. /\ OutcomeOf(Failure("none")) = "none" /\ Failure("none").value = Nil
        /\ \A e \in {"ErrRequestIDFormat", "ErrChallengeSize"} :
               OutcomeOf(Failure(e)) = "error" /\ Failure(e).value = Nil
    BY DEF OutcomeOf, Failure
  <2>7. Answered'[p] = [outcome |-> OutcomeOf(result'[p]), value |-> result'[p].value]
    <3>1. call'[p].kind = "sign"
      BY <2>1
    <3> QED
      BY <1>1, <3>1, Shown
  <2>8. Answered'[p] \in {[outcome |-> "none", value |-> Nil],
                          [outcome |-> "error", value |-> Nil]}
    BY <2>5, <2>6, <2>7
  <2>9. InHand' = InHand
    <3>1. InHand'[p] = InHand[p]
      BY <1>1, Shown
    <3> QED
      BY <1>2, <3>1, ShownSame, Unmoved
  <2> QED
    BY <1>1, <1>2, <2>2, <2>4, <2>8, <2>9, ShownSame
       DEF Signer!Ask, Signer!NoAnswer, Signer!Answer, Signer!Only
<1> QED
  BY <1>1, <1>4, <1>5 DEF NewRequest, Signer!Next

(* What happens inside the gate, and the certificate, are not shown. *)
LEMMA QuietStepRefines ==
    ASSUME TypeInv, PhaseInv, NEW p \in Procs,
           \/ SendToken(p) \/ SetHolder(p) \/ ClearHolder(p) \/ ReceiveToken(p)
           \/ CertificateLookup(p) \/ CertificateRecheck(p)
           \/ MajorAnswered(p) \/ ReadAnswered(p)
    PROVE  UNCHANGED Signer!vars
<1>1. \A q \in Procs : q # p => Same(q)
  BY StepAlone DEF Step
<1>2. CASE SendToken(p) \/ SetHolder(p) \/ ClearHolder(p) \/ ReceiveToken(p)
  <2>1. /\ UNCHANGED <<now, signed, call, result>>
        /\ pc[p] \in {"select", "setHolder", "clearHolder", "receive"}
        /\ \E l \in {"setHolder", "major", "recheck", "receive", "returned"} :
               Goto(p, l)
    BY <1>2 DEF SendToken, SetHolder, ClearHolder, ReceiveToken, world, history
  <2>2. pc[p] # "store" /\ pc'[p] # "store"
    BY <2>1, Moves
  <2> QED
    BY <1>1, <2>1, <2>2, QuietSigner
<1>3. CASE \/ CertificateLookup(p) \/ CertificateRecheck(p)
           \/ MajorAnswered(p) \/ ReadAnswered(p)
  <2>1. /\ UNCHANGED <<now, signed, call>>
        /\ pc[p] \in {"lookup", "recheck", "major", "read"}
        /\ \/ \E l \in {"select", "major", "read"} : Goto(p, l)
           \/ \E value : Return(p, value)
    BY <1>3 DEF CertificateLookup, CertificateRecheck, LoadCertificate,
       MajorAnswered, ReadAnswered, world, history
  <2>2. pc[p] # "store" /\ pc'[p] # "store"
    BY <2>1, Moves, Returns DEF Unanswered
  <2>3. call[p].kind # "sign"
    BY <1>3, <2>1 DEF CertificateLookup, CertificateRecheck, LoadCertificate,
       MajorAnswered, ReadAnswered, PhaseInv, Phase
  <2> QED
    BY <1>1, <2>1, <2>2, <2>3, QuietSigner
<1> QED
  BY <1>2, <1>3

(* The waiting ends without the slot, or the driver reports an error. *)
LEMMA ErrorRefines ==
    ASSUME TypeInv, PhaseInv, NEW p \in Procs,
           \/ WaitEnds(p, "ErrChipBusy") \/ WaitEnds(p, "ErrContext")
           \/ DriverFails(p)
    PROVE  Signer!Next \/ UNCHANGED Signer!vars
<1>1. \A q \in Procs : q # p => Same(q)
  BY StepAlone DEF Step
<1>2. /\ UNCHANGED <<now, signed, call>>
      /\ pc[p] \in {"select", "sign", "major", "read"}
      /\ \E e \in {"ErrChipBusy", "ErrContext", "ErrChipMissing", "other"} :
             Return(p, Failure(e))
  BY DEF WaitEnds, DriverFails, DriverErrors, normalizeHardwareError, InChip,
     world, history
<1>3. PICK e \in {"ErrChipBusy", "ErrContext", "ErrChipMissing", "other"} :
          Return(p, Failure(e))
  BY <1>2
<1>4. e \in Errors \ {"ErrRequestIDReuse"} /\ pc[p] \in Unanswered \ {"store"}
  BY <1>2 DEF Errors, Unanswered
<1> QED
  BY <1>1, <1>2, <1>3, <1>4, FailRefines

(* Every signing service the code can be is an idempotent signer: one       *)
(* signature per requestId and lifetime, the same one for every repetition, *)
(* none withheld (Service.Sign with its gate and its cache).                *)
THEOREM ServiceImplementsSigner == Spec => SignIsIdempotent
<1>1. Init => Signer!Init
  <2> SUFFICES ASSUME Init PROVE Signer!Init
    OBVIOUS
  <2>1. \A p \in Callers : call[p].kind # "sign" /\ pc[p] # "store"
    BY DEF Init, Procs, Request
  <2>2. /\ Requested = [p \in Callers |-> Nil] /\ InHand = [p \in Callers |-> Nil]
        /\ Answered = [p \in Callers |-> [outcome |-> "none", value |-> Nil]]
    BY <2>1 DEF Requested, InHand, Answered
  <2> QED
    BY <2>2 DEF Init, Signer!Init, Signer!NoAnswer, Signer!Answer
<1>2. TypeInv /\ PhaseInv /\ WindowInv /\ IssuedInv /\ [Next]_vars
          => [Signer!Next]_(Signer!vars)
  <2> SUFFICES ASSUME TypeInv, PhaseInv, WindowInv, IssuedInv, [Next]_vars
               PROVE  Signer!Next \/ UNCHANGED Signer!vars
    OBVIOUS
  <2>1. ASSUME NEW p \in Procs, Step(p) \/ NewRequest(p)
        PROVE  Signer!Next \/ UNCHANGED Signer!vars
    BY <2>1, LookupRefines, SignRefines, StoreRefines, DeliverRefines,
       RequestRefines, QuietStepRefines, ErrorRefines DEF Step
  <2>2. ASSUME UNCHANGED <<pc, call, local, result>>
        PROVE  Requested' = Requested /\ InHand' = InHand /\ Answered' = Answered
    BY <2>2 DEF Requested, InHand, Answered
  <2>3. CASE Tick
    BY <2>2, <2>3 DEF Tick, Signer!Tick, Signer!Next, history
  <2>4. CASE SwapDevice \/ UNCHANGED vars
    BY <2>2, <2>4 DEF SwapDevice, vars, Signer!vars, history, world
  <2> QED
    BY <2>1, <2>3, <2>4 DEF Next
<1> QED
  BY <1>1, <1>2, Typed, Phased, Windowed, Issued, PTL
     DEF Spec, SignIsIdempotent, Signer!Spec

=============================================================================
