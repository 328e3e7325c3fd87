--------------------------- MODULE TransportProofs ---------------------------
(* What the session layer promises, for any number of transactions and      *)
(* health checks, any list of USB identities and any stock of handles.      *)
EXTENDS Transport, TLAPS

-----------------------------------------------------------------------------
(* Type correctness needs to know what openSession works on.                *)

Claiming ==
    \A p \in Procs : pc[p] \in OpeningLabels =>
        mine[p] \in Handles /\ index[p] \in 1 .. Len(UsbIDs)

TypeInv == TypeOK /\ Claiming

HandleStates == [held: SUBSET Resources, id: IDs \cup {Nil}, alive: BOOLEAN]

(* A step of openSession changes only the handle it works on.               *)
ClaimStep(p) ==
    \/ ClaimConfig(p)
    \/ ClaimInterface(p)
    \/ FindEndpoints(p) /\ OpenFails(p, {"protocol"}) /\ Holds(p, {"device"})
           /\ UNCHANGED <<mine, index, result, sessionMu, session>>

(* Every error of gousb is classified. *)
LEMMA Classified ==
    \A e \in OpenErrors \cup TransferErrors \cup DeadErrors :
        classifyUSBError(e) \in Kinds
BY DEF OpenErrors, TransferErrors, DeadErrors, classifyUSBError, Kinds

(* What execute returns is an outcome. *)
LEMMA Executed == \A h : ExecuteOutcomes(h) \subseteq Outcomes
BY Classified DEF ExecuteOutcomes, Outcomes, Kinds

(* The states that handles are put into. *)
LEMMA HandleValues ==
    /\ Unused \in HandleStates
    /\ \A id \in IDs : Opened(id) \in HandleStates
BY DEF Unused, Opened, HandleStates, Resources

(* usbIDs is a list of identities. *)
LEMMA Identities ==
    /\ Len(UsbIDs) \in Nat /\ Len(UsbIDs) > 0
    /\ \A i \in 1 .. Len(UsbIDs) : UsbIDs[i] \in IDs
BY TransportAssumption DEF IDs

(* Init establishes the types. *)
LEMMA InitType == Init => TypeInv
<1> SUFFICES ASSUME Init PROVE TypeInv
  OBVIOUS
<1>1. handle \in [Handles -> HandleStates]
  BY HandleValues DEF Init
<1>2. checkFailed \in [Procs -> BOOLEAN] /\ closed \in BOOLEAN
  BY Zenon DEF Init
<1>3. index \in [Procs -> 1 .. Len(UsbIDs) + 1]
  BY Identities DEF Init
<1> QED
  BY <1>1, <1>2, <1>3 DEF Init, TypeInv, TypeOK, Claiming, OpeningLabels, HandleStates, Labels,
     Outcomes

(* A goroutine's call preserves the types. *)
LEMMA CallType ==
    ASSUME TypeInv, NEW p \in Procs, Call(p)
    PROVE  TypeInv'
<1>1. UNCHANGED <<checkFailed, closed, handle>>
  BY DEF Call, CallTransaction, CallInspectUSB, CallClose, locals
<1> QED
  BY <1>1 DEF Call, CallTransaction, CallInspectUSB, CallClose, locals, Goto,
     Result, TypeInv, TypeOK, Claiming, OpeningLabels, Labels, Outcomes, Kinds

(* A step that leaves ensureSessionLocked keeps the locals typed. *)
LEMMA ReturnType ==
    ASSUME TypeInv, NEW p \in Procs,
           \/ \E h \in Handles : ReturnSession(p, h)
           \/ \E kind \in Kinds : ReturnNoSession(p, kind)
    PROVE  /\ pc' \in [Procs -> Labels]
           /\ mine' \in [Procs -> Handles \cup {Nil}]
           /\ index' \in [Procs -> 1 .. Len(UsbIDs) + 1]
           /\ lastError' \in [Procs -> Kinds \cup {"none"}]
           /\ result' \in [Procs -> Outcomes]
           /\ sessionMu' \in Procs \cup {Nil}
           /\ Claiming'
<1>1. ForgetLoop(p) /\ sessionMu' = Nil
  BY DEF ReturnSession, ReturnNoSession
<1>2. index' \in [Procs -> 1 .. Len(UsbIDs) + 1]
  BY <1>1, Identities DEF ForgetLoop, TypeInv, TypeOK
<1>3. lastError' \in [Procs -> Kinds \cup {"none"}]
  BY <1>1 DEF ForgetLoop, TypeInv, TypeOK
<1>4. mine' \in [Procs -> Handles \cup {Nil}]
  BY DEF ReturnSession, ReturnNoSession, TypeInv, TypeOK
<1>5. \E label \in {"execute", "returned", "unlockIO"} :
          pc' = [pc EXCEPT ![p] = label]
  BY DEF ReturnSession, ReturnNoSession, Goto
<1>6. pc' \in [Procs -> Labels]
  BY <1>5 DEF TypeInv, TypeOK, Labels
<1>7. result' \in [Procs -> Outcomes]
  BY DEF ReturnSession, ReturnNoSession, Result, TypeInv, TypeOK, Outcomes
<1>8. \A q \in Procs : q # p =>
          mine'[q] = mine[q] /\ index'[q] = index[q]
  BY <1>1 DEF ReturnSession, ReturnNoSession, ForgetLoop, TypeInv, TypeOK
<1>9. \A q \in Procs : pc'[q] \in OpeningLabels => q # p /\ pc[q] \in OpeningLabels
  BY <1>5 DEF TypeInv, TypeOK, OpeningLabels
<1>10. Claiming'
  BY <1>8, <1>9 DEF Claiming, TypeInv
<1> QED
  BY <1>1, <1>2, <1>3, <1>4, <1>6, <1>7, <1>10

(* A handle keeps its type whatever is claimed on it. *)
LEMMA HoldsType ==
    ASSUME TypeInv, NEW h \in Handles, NEW resources \in SUBSET Resources,
           handle' = [handle EXCEPT ![h].held = resources]
    PROVE  handle' \in [Handles -> HandleStates]
<1>1. [handle[h] EXCEPT !.held = resources] \in HandleStates
  BY DEF TypeInv, TypeOK, HandleStates
<1> QED
  BY <1>1 DEF TypeInv, TypeOK, HandleStates

(* A step of openSession that is not its last, successful one.              *)
LEMMA ClaimType ==
    ASSUME TypeInv, NEW p \in Procs, ClaimStep(p)
    PROVE  TypeInv'
<1> USE DEF TypeInv, TypeOK
<1>1. /\ pc[p] \in OpeningLabels /\ mine[p] \in Handles
      /\ UNCHANGED <<mine, looking, index, result, checkFailed, ioMu, sessionMu,
                     session, closed, present>>
  BY DEF ClaimStep, ClaimConfig, ClaimInterface, FindEndpoints, OpeningLabels,
     Claiming
<1>2. \/ handle' = handle
      \/ \E resources \in SUBSET Resources :
             handle' = [handle EXCEPT ![mine[p]].held = resources]
  BY DEF ClaimStep, ClaimConfig, ClaimInterface, FindEndpoints, Holds, Resources
<1>3. handle' \in [Handles -> HandleStates]
  BY <1>1, <1>2, HoldsType DEF HandleStates
<1>4. ClaimErrors \cup {"protocol"} \subseteq Kinds
  BY Classified DEF ClaimErrors, Kinds
<1>5. lastError' \in [Procs -> Kinds \cup {"none"}]
  BY <1>4 DEF ClaimStep, ClaimConfig, ClaimInterface, FindEndpoints, OpenFails
<1>6. \E l \in OpeningLabels : pc' = [pc EXCEPT ![p] = l]
  BY DEF ClaimStep, ClaimConfig, ClaimInterface, FindEndpoints, OpenFails, Goto,
     OpeningLabels
<1>7. pc' \in [Procs -> Labels]
  BY <1>6 DEF Labels
<1>8. \A q \in Procs : pc'[q] \in OpeningLabels => pc[q] \in OpeningLabels
  BY <1>1, <1>6
<1>9. Claiming'
  BY <1>1, <1>8 DEF Claiming
<1> QED
  BY <1>1, <1>3, <1>5, <1>7, <1>9 DEF HandleStates

(* openSession and the clean-up of its caller keep the types. *)
LEMMA OpenType ==
    ASSUME TypeInv, NEW p \in Procs,
           ClaimConfig(p) \/ ClaimInterface(p) \/ FindEndpoints(p) \/ GiveUp(p)
    PROVE  TypeInv'
<1> USE DEF TypeInv, TypeOK
<1>1. CASE ClaimStep(p)
  BY <1>1, ClaimType
<1>2. CASE /\ FindEndpoints(p) /\ session' = mine[p]
           /\ ReturnSession(p, mine[p]) /\ UNCHANGED handle
  <2>1. mine[p] \in Handles
    BY <1>2 DEF FindEndpoints, Claiming, OpeningLabels
  <2>2. UNCHANGED <<looking, checkFailed, ioMu, closed, present, handle>>
    BY <1>2 DEF FindEndpoints
  <2> QED
    BY <1>2, <2>1, <2>2, ReturnType
<1>3. CASE GiveUp(p)
  <2>1. /\ pc[p] = "giveUp" /\ mine[p] \in Handles
        /\ index[p] + 1 \in 1 .. Len(UsbIDs) + 1
        /\ UNCHANGED <<looking, lastError, result, checkFailed, ioMu, sessionMu,
                       session, closed, present>>
    BY <1>3, Identities DEF GiveUp, Claiming, OpeningLabels
  <2>2. DeviceClosed(mine[p]) \in HandleStates
    BY <2>1, HandleValues DEF DeviceClosed, HandleStates
  <2>3. handle' \in [Handles -> HandleStates]
    BY <1>3, <2>2 DEF GiveUp, HandleStates
  <2>4. index' \in [Procs -> 1 .. Len(UsbIDs) + 1]
    BY <1>3, <2>1 DEF GiveUp
  <2>5. pc' \in [Procs -> Labels] /\ mine' \in [Procs -> Handles \cup {Nil}]
    BY <1>3 DEF GiveUp, Goto, Labels
  <2>6. \A q \in Procs : pc'[q] \in OpeningLabels =>
            pc[q] \in OpeningLabels /\ mine'[q] = mine[q] /\ index'[q] = index[q]
    BY <1>3 DEF GiveUp, Goto, OpeningLabels
  <2>7. Claiming'
    BY <2>6 DEF Claiming
  <2> QED
    BY <2>1, <2>3, <2>4, <2>5, <2>7 DEF HandleStates
<1> QED
  BY <1>1, <1>2, <1>3 DEF ClaimStep, FindEndpoints

(* The choice that an enumeration makes: the handles it opens and for each  *)
(* of them the device it is opened for.                                     *)
Enumerates(p, device, opened) ==
    /\ \A h \in opened : Free(h) /\ device[h] \in IDs
    /\ looking' = [looking EXCEPT ![p] = opened]
    /\ handle' = [h \in Handles |-> IF h \in opened THEN Opened(device[h])
                                                  ELSE handle[h]]
    /\ \/ opened = {} /\ Goto(p, "returned") /\ Result(p, "missing")
       \/ opened = {} /\ Goto(p, "lockSession") /\ UNCHANGED result
       \/ opened # {} /\ Goto(p, "describe") /\ UNCHANGED result

(* Every enumeration makes such a choice. *)
LEMMA Enumerated ==
    ASSUME TypeInv, NEW p \in Procs, EnumerateUSB(p)
    PROVE  \E device \in [Handles -> IDs \cup {Nil}], opened \in SUBSET Handles :
               Enumerates(p, device, opened)
<1>1. PICK failed, includeDeviceStrings \in BOOLEAN, descriptors \in SUBSET present :
      \E device \in [Handles -> descriptors \cup {Nil}] :
           LET opened == {h \in Handles : device[h] # Nil}
           IN  /\ \A h \in opened : Free(h)
               /\ looking' = [looking EXCEPT ![p] = opened]
               /\ handle' = [h \in Handles |-> IF h \in opened THEN Opened(device[h])
                                                             ELSE handle[h]]
               /\ IF descriptors = {}
                  THEN Goto(p, "returned") /\ Result(p, "missing")
                  ELSE /\ Goto(p, IF opened = {} THEN "lockSession" ELSE "describe")
                       /\ UNCHANGED result
  BY DEF EnumerateUSB
<1>2. PICK device \in [Handles -> descriptors \cup {Nil}] :
           LET opened == {h \in Handles : device[h] # Nil}
           IN  /\ \A h \in opened : Free(h)
               /\ looking' = [looking EXCEPT ![p] = opened]
               /\ handle' = [h \in Handles |-> IF h \in opened THEN Opened(device[h])
                                                             ELSE handle[h]]
               /\ IF descriptors = {}
                  THEN Goto(p, "returned") /\ Result(p, "missing")
                  ELSE /\ Goto(p, IF opened = {} THEN "lockSession" ELSE "describe")
                       /\ UNCHANGED result
  BY <1>1
<1> DEFINE opened == {h \in Handles : device[h] # Nil}
<1>3. descriptors \subseteq IDs
  BY DEF TypeInv, TypeOK
<1>4. device \in [Handles -> IDs \cup {Nil}] /\ opened \in SUBSET Handles
  BY <1>3
<1>5. /\ \A h \in opened : Free(h) /\ device[h] \in IDs
      /\ descriptors = {} => opened = {}
  BY <1>2, <1>3
<1>6. Enumerates(p, device, opened)
  BY <1>2, <1>5 DEF Enumerates
<1> QED
  BY <1>4, <1>6

(* An enumeration keeps the types, and touches nothing but its own devices. *)
LEMMA LookType ==
    ASSUME TypeInv, NEW p \in Procs, EnumerateUSB(p) \/ DescribeDevice(p)
    PROVE  TypeInv'
<1> USE DEF TypeInv, TypeOK
<1>1. CASE EnumerateUSB(p)
  <2>1. /\ UNCHANGED <<mine, index, lastError, ioMu, sessionMu, session, closed,
                       present>>
        /\ \E failed \in BOOLEAN : checkFailed' = [checkFailed EXCEPT ![p] = failed]
    BY <1>1 DEF EnumerateUSB
  <2>2. PICK device \in [Handles -> IDs \cup {Nil}], opened \in SUBSET Handles :
            Enumerates(p, device, opened)
    BY <1>1, Enumerated
  <2>3. checkFailed' \in [Procs -> BOOLEAN]
    BY <2>1, Zenon
  <2>4. \A h \in opened : Opened(device[h]) \in HandleStates
    BY <2>2, HandleValues DEF Enumerates
  <2>5. handle' \in [Handles -> HandleStates]
    BY <2>2, <2>4 DEF Enumerates, HandleStates
  <2>6. looking' \in [Procs -> SUBSET Handles]
    BY <2>2 DEF Enumerates
  <2>7. \E l \in {"returned", "lockSession", "describe"} :
            pc' = [pc EXCEPT ![p] = l]
    BY <2>2 DEF Enumerates, Goto
  <2>8. pc' \in [Procs -> Labels]
    BY <2>7 DEF Labels
  <2>9. result' \in [Procs -> Outcomes]
    BY <2>2 DEF Enumerates, Result, Outcomes
  <2>10. Claiming'
    BY <2>1, <2>7 DEF Claiming, OpeningLabels
  <2> QED
    BY <2>1, <2>3, <2>5, <2>6, <2>8, <2>9, <2>10 DEF HandleStates
<1>2. CASE DescribeDevice(p)
  <2>1. PICK h \in looking[p] :
            /\ handle' = [handle EXCEPT ![h] = DeviceClosed(h)]
            /\ looking' = [looking EXCEPT ![p] = @ \ {h}]
            /\ Goto(p, IF looking[p] = {h} THEN "lockSession" ELSE "describe")
    BY <1>2 DEF DescribeDevice
  <2>2. UNCHANGED <<mine, index, lastError, result, checkFailed, ioMu, sessionMu,
                    session, closed, present>>
    BY <1>2 DEF DescribeDevice
  <2>3. DeviceClosed(h) \in HandleStates
    BY HandleValues DEF DeviceClosed, HandleStates
  <2>4. handle' \in [Handles -> HandleStates]
    BY <2>1, <2>3 DEF HandleStates
  <2>5. looking' \in [Procs -> SUBSET Handles]
    BY <2>1
  <2>6. \E l \in {"lockSession", "describe"} : pc' = [pc EXCEPT ![p] = l]
    BY <2>1 DEF Goto
  <2>7. pc' \in [Procs -> Labels]
    BY <2>6 DEF Labels
  <2>8. Claiming'
    BY <2>2, <2>6 DEF Claiming, OpeningLabels
  <2> QED
    BY <2>2, <2>4, <2>5, <2>7, <2>8 DEF HandleStates
<1> QED
  BY <1>1, <1>2

(* A goroutine's step preserves the types. *)
LEMMA StepType ==
    ASSUME TypeInv, NEW p \in Procs, Step(p)
    PROVE  TypeInv'
<1> USE DEF TypeInv, TypeOK
<1>1. CASE LockIO(p) \/ LockSession(p)
  BY <1>1 DEF LockIO, LockSession, locals, Goto, Claiming, OpeningLabels, Labels
<1>2. CASE InvalidateSession(p)
  <2>1. handle' \in [Handles -> HandleStates] /\ session' \in Handles \cup {Nil}
    BY <1>2, HandleValues DEF InvalidateSession, HandleStates
  <2> QED
    BY <1>2, <2>1 DEF InvalidateSession, locals, Goto, Claiming, OpeningLabels, Labels,
       HandleStates
<1>3. CASE EnumerateUSB(p) \/ DescribeDevice(p)
  BY <1>3, LookType
<1>4. CASE Ensure(p)
  <2>1. UNCHANGED <<looking, checkFailed, ioMu, session, closed, handle, present>>
    BY <1>4 DEF Ensure
  <2>2. CASE StartLoop(p)
    BY <2>1, <2>2 DEF StartLoop, locals, Goto, Claiming, OpeningLabels, Labels
  <2>3. CASE ~StartLoop(p)
    <3>1. \/ \E h \in Handles : ReturnSession(p, h)
          \/ \E kind \in Kinds : ReturnNoSession(p, kind)
      BY <1>4, <2>3 DEF Ensure, Kinds
    <3> QED
      BY <2>1, <3>1, ReturnType
  <2> QED
    BY <2>2, <2>3
<1>5. CASE OpenDevice(p)
  <2> DEFINE id == UsbIDs[index[p]]
  <2>1. id \in IDs /\ index[p] + 1 \in 1 .. Len(UsbIDs) + 1
        /\ index[p] \in 1 .. Len(UsbIDs)
    BY <1>5, Identities DEF OpenDevice
  <2>2. UNCHANGED <<looking, result, checkFailed, ioMu, sessionMu, session, closed,
                    present>>
    BY <1>5 DEF OpenDevice
  <2>3. handle' \in [Handles -> HandleStates]
    BY <1>5, <2>1, HandleValues DEF OpenDevice, HandleStates
  <2>4. lastError' \in [Procs -> Kinds \cup {"none"}]
    BY <1>5, Classified DEF OpenDevice
  <2>5. index' \in [Procs -> 1 .. Len(UsbIDs) + 1]
    BY <1>5, <2>1 DEF OpenDevice
  <2>6. pc' \in [Procs -> Labels] /\ mine' \in [Procs -> Handles \cup {Nil}]
    <3>1. pc' = pc \/ pc' = [pc EXCEPT ![p] = "claimConfig"]
      BY <1>5 DEF OpenDevice, Goto
    <3>2. mine' = mine \/ \E h \in Handles : mine' = [mine EXCEPT ![p] = h]
      BY <1>5 DEF OpenDevice
    <3>3. pc' \in [Procs -> Labels]
      BY <3>1 DEF Labels, OpeningLabels
    <3>4. mine' \in [Procs -> Handles \cup {Nil}]
      BY <3>2
    <3> QED
      BY <3>3, <3>4
  <2>7. \A q \in Procs : q # p =>
            pc'[q] = pc[q] /\ mine'[q] = mine[q] /\ index'[q] = index[q]
    BY <1>5 DEF OpenDevice, Goto
  <2>8. pc'[p] \in OpeningLabels => mine'[p] \in Handles /\ index'[p] = index[p]
    BY <1>5 DEF OpenDevice, Goto, OpeningLabels
  <2>9. Claiming'
    BY <2>1, <2>7, <2>8 DEF Claiming
  <2> QED
    BY <2>2, <2>3, <2>4, <2>5, <2>6, <2>9 DEF HandleStates
<1>6. CASE ClaimConfig(p) \/ ClaimInterface(p) \/ FindEndpoints(p) \/ GiveUp(p)
  BY <1>6, OpenType
<1>7. CASE NothingOpened(p)
  <2>1. \E kind \in Kinds : ReturnNoSession(p, kind)
    BY <1>7 DEF NothingOpened, Kinds
  <2>2. UNCHANGED <<looking, checkFailed, ioMu, session, closed, handle, present>>
    BY <1>7 DEF NothingOpened
  <2> QED
    BY <2>1, <2>2, ReturnType
<1>8. CASE Execute(p)
  BY <1>8, Executed DEF Execute, Goto, Result, Claiming, OpeningLabels, Labels
<1>9. CASE UnlockIO(p)
  BY <1>9 DEF UnlockIO, Goto, Claiming, OpeningLabels, Labels
<1>10. CASE Close(p)
  <2>1. handle' \in [Handles -> HandleStates]
    BY <1>10, HandleValues DEF Close, HandleStates
  <2>2. closed' \in BOOLEAN
    BY <1>10, Zenon DEF Close
  <2> QED
    BY <1>10, <2>1, <2>2 DEF Close, locals, Goto, Claiming, OpeningLabels, Labels, HandleStates
<1>11. CASE Deliver(p)
  <2>1. checkFailed' \in [Procs -> BOOLEAN]
    BY <1>11, Zenon DEF Deliver
  <2> QED
    BY <1>11, <2>1, Identities DEF Deliver, Goto, Result, Claiming, OpeningLabels, Labels, Outcomes
<1> QED
  BY <1>1, <1>2, <1>3, <1>4, <1>5, <1>6, <1>7, <1>8, <1>9, <1>10, <1>11
     DEF Step, Locks

(* Plugging and unplugging preserve the types. *)
LEMMA BusType ==
    ASSUME TypeInv, NEW id \in IDs, Plug(id) \/ Unplug(id)
    PROVE  TypeInv'
<1>1. CASE Plug(id)
  BY <1>1 DEF Plug, locals, TypeInv, TypeOK, Claiming
<1>2. CASE Unplug(id)
  <2>1. handle' \in [Handles -> HandleStates]
    <3>1. \A h \in Handles :
              [handle[h] EXCEPT !.alive = @ /\ handle[h].id # id] \in HandleStates
      BY Zenon DEF TypeInv, TypeOK, HandleStates
    <3> QED
      BY <1>2, <3>1 DEF Unplug
  <2> QED
    BY <1>2, <2>1 DEF Unplug, locals, TypeInv, TypeOK, Claiming, HandleStates
<1> QED
  BY <1>1, <1>2

(* The types hold in every behaviour. *)
LEMMA Typed == Spec => []TypeInv
<1>1. TypeInv /\ [Next]_vars => TypeInv'
  <2> SUFFICES ASSUME TypeInv, [Next]_vars PROVE TypeInv'
    OBVIOUS
  <2>1. CASE UNCHANGED vars
    BY <2>1 DEF vars, locals, TypeInv, TypeOK, Claiming
  <2> QED
    BY <2>1, CallType, StepType, BusType DEF Next
<1> QED
  BY <1>1, InitType, PTL DEF Spec

(* The state is well typed and every error was classified, whatever the     *)
(* interleaving (classifyUSBError, ensureSessionLocked).                    *)
THEOREM TypeCorrect == Spec => []TypeOK
BY Typed, PTL DEF TypeInv

-----------------------------------------------------------------------------
(* The inductive invariant.                                                 *)

SessionLabels == {"ensure", "open", "closing"} \cup OpeningLabels
IOLabels == {"execute", "invalidate", "unlockIO"}

(* Which of Transaction, InspectUSB and Close a goroutine is in. *)
Roles ==
    \A p \in Procs :
        /\ pc[p] \in {"enumerate", "describe"} => p \in Inspectors
        /\ pc[p] = "lockIO" => p \notin Inspectors
        /\ pc[p] = "closing" => p = Closer
        /\ pc[p] \in {"ensure", "open"} \cup OpeningLabels => p # Closer
        /\ pc[p] \in IOLabels => p \in Workers

(* The mutexes exclude: whoever is in a critical section has its mutex.     *)
LockInv ==
    \A p \in Procs :
        /\ pc[p] \in SessionLabels => sessionMu = p
        /\ pc[p] \in {"lockSession"} \cup SessionLabels \cup IOLabels
               /\ p \notin Inspectors => ioMu = p

(* A handle is opened only while there is no session and no shutdown, and   *)
(* the session of a transaction is the current one until it gives it up.    *)
UseInv ==
    \A p \in Procs :
        /\ pc[p] \in {"open"} \cup OpeningLabels => session = Nil /\ ~closed
        /\ pc[p] \in {"claimConfig", "giveUp"} => handle[mine[p]].held = {"device"}
        /\ pc[p] = "claimInterface" => handle[mine[p]].held = {"device", "config"}
        /\ pc[p] = "findEndpoints" => handle[mine[p]].held = Resources
        /\ pc[p] \in {"execute", "invalidate"} =>
               mine[p] \in Handles /\ session = mine[p]

(* What an enumeration has open it has alone, and claims nothing of it.     *)
LookInv ==
    \A p \in Procs :
        /\ looking[p] # {} => pc[p] = "describe"
        /\ \A h \in looking[p] :
               /\ handle[h].held = {"device"}
               /\ \A q \in Procs : mine[q] # h /\ (q # p => h \notin looking[q])

(* What is open is the session, completely, or the handle being claimed, or *)
(* a device of an enumeration.                                              *)
OpenInv ==
    /\ session # Nil => handle[session].held = Resources
    /\ \A h \in Handles : handle[h].held # {} =>
           \/ h = session
           \/ \E p \in Procs : pc[p] \in OpeningLabels /\ mine[p] = h
           \/ \E p \in Procs : h \in looking[p]
    /\ closed => session = Nil

HandleInv == UseInv /\ LookInv /\ OpenInv /\ FailedSessionDropped

SessionInv == Roles /\ LockInv /\ HandleInv

(* Nobody is in a critical section before the first call. *)
LEMMA InitSession == Init => SessionInv
BY TransportAssumption DEF Init, SessionInv, HandleInv, Roles, LockInv, UseInv,
   LookInv, OpenInv, FailedSessionDropped, SessionLabels, OpeningLabels, IOLabels,
   Unused, Procs

(* Where a step takes the goroutine that makes it, and what it does to the  *)
(* mutexes; the labels are those of its role.                               *)
LEMMA StepMoves ==
    ASSUME TypeInv, Roles, NEW p \in Procs, Call(p) \/ Step(p)
    PROVE  \E l \in Labels : pc' = [pc EXCEPT ![p] = l]
<1>1. CASE Call(p)
  BY <1>1 DEF Call, CallTransaction, CallInspectUSB, CallClose, Goto, Labels
<1>2. CASE Locks(p)
  BY <1>2 DEF Locks, LockIO, LockSession, InvalidateSession, Goto, Labels
<1>3. CASE EnumerateUSB(p) \/ DescribeDevice(p)
  BY <1>3 DEF EnumerateUSB, DescribeDevice, Goto, Labels
<1>4. CASE Ensure(p)
  BY <1>4 DEF Ensure, ReturnNoSession, ReturnSession, StartLoop, Goto, Labels
<1>5. CASE OpenDevice(p)
  <2>1. /\ pc = [pc EXCEPT ![p] = "open"]
        /\ "open" \in Labels /\ "claimConfig" \in Labels
    BY <1>5 DEF OpenDevice, TypeInv, TypeOK, Labels, OpeningLabels
  <2>2. pc' = pc \/ pc' = [pc EXCEPT ![p] = "claimConfig"]
    BY <1>5 DEF OpenDevice, Goto
  <2> QED
    BY <2>1, <2>2
<1>6. CASE ClaimConfig(p) \/ ClaimInterface(p) \/ FindEndpoints(p) \/ GiveUp(p)
  BY <1>6 DEF ClaimConfig, ClaimInterface, FindEndpoints, GiveUp, OpenFails,
     ReturnSession, Goto, Labels, OpeningLabels
<1>7. CASE NothingOpened(p)
  BY <1>7 DEF NothingOpened, ReturnNoSession, Goto, Labels
<1>8. CASE Execute(p)
  BY <1>8 DEF Execute, Goto, Labels
<1>9. CASE UnlockIO(p) \/ Close(p) \/ Deliver(p)
  BY <1>9 DEF UnlockIO, Close, Deliver, Goto, Labels
<1> QED
  BY <1>1, <1>2, <1>3, <1>4, <1>5, <1>6, <1>7, <1>8, <1>9 DEF Step

(* Every goroutine stays in the operation it called and no two are in a     *)
(* critical section of the same mutex.                                      *)
LEMMA StepLocks ==
    ASSUME TypeInv, Roles, LockInv, NEW p \in Procs, Call(p) \/ Step(p)
    PROVE  Roles' /\ LockInv'
<1>1. /\ pc'[p] \in Labels
      /\ \A q \in Procs : q # p => pc'[q] = pc[q]
  BY StepMoves DEF TypeInv, TypeOK
<1>2. SUFFICES
          /\ pc'[p] \in {"enumerate", "describe"} => p \in Inspectors
          /\ pc'[p] = "lockIO" => p \notin Inspectors
          /\ pc'[p] = "closing" => p = Closer
          /\ pc'[p] \in {"ensure", "open"} \cup OpeningLabels => p # Closer
          /\ pc'[p] \in IOLabels => p \in Workers
          /\ pc'[p] \in SessionLabels => sessionMu' = p
          /\ pc'[p] \in {"lockSession"} \cup SessionLabels \cup IOLabels
                 /\ p \notin Inspectors => ioMu' = p
          /\ sessionMu' = sessionMu \/ sessionMu \in {p, Nil}
          /\ ioMu' = ioMu \/ ioMu \in {p, Nil}
  <2>1. \A q \in Procs : q # Nil
    BY TransportAssumption DEF Procs
  <2>2. Roles'
    BY <1>1, <1>2 DEF Roles, IOLabels, OpeningLabels
  <2>3. \A q \in Procs : q # p =>
            /\ sessionMu = q => sessionMu' = q
            /\ ioMu = q => ioMu' = q
    BY <1>2, <2>1
  <2>4. LockInv'
    BY <1>1, <1>2, <2>3 DEF LockInv, SessionLabels, IOLabels, OpeningLabels
  <2> QED
    BY <2>2, <2>4
<1> USE TransportAssumption DEF Roles, LockInv, IOLabels, SessionLabels,
        OpeningLabels, Goto, TypeInv, TypeOK, Procs
<1>3. CASE Call(p)
  BY <1>3 DEF Call, CallTransaction, CallInspectUSB, CallClose
<1>4. CASE Locks(p)
  BY <1>4 DEF Locks, LockIO, LockSession, InvalidateSession
<1>5. CASE EnumerateUSB(p) \/ DescribeDevice(p)
  BY <1>5 DEF EnumerateUSB, DescribeDevice
<1>6. CASE Ensure(p)
  BY <1>6 DEF Ensure, ReturnNoSession, ReturnSession, StartLoop
<1>7. CASE OpenDevice(p)
  BY <1>7 DEF OpenDevice
<1>8. CASE ClaimConfig(p) \/ ClaimInterface(p) \/ FindEndpoints(p) \/ GiveUp(p)
  BY <1>8 DEF ClaimConfig, ClaimInterface, FindEndpoints, GiveUp, OpenFails,
     ReturnSession
<1>9. CASE NothingOpened(p)
  BY <1>9 DEF NothingOpened, ReturnNoSession
<1>10. CASE Execute(p)
  BY <1>10 DEF Execute
<1>11. CASE UnlockIO(p) \/ Close(p) \/ Deliver(p)
  BY <1>11 DEF UnlockIO, Close, Deliver
<1> QED
  BY <1>3, <1>4, <1>5, <1>6, <1>7, <1>8, <1>9, <1>10, <1>11 DEF Step

Discrediting == {"device_missing", "io", "protocol"}

(* A device of an enumeration is not the session. *)
LEMMA LookedAt ==
    ASSUME TypeInv, SessionInv, NEW p \in Procs, NEW h \in looking[p]
    PROVE  h \in Handles /\ h # Nil /\ h # session /\ handle[h].held = {"device"}
<1>1. h \in Handles /\ h # Nil
  BY TransportAssumption DEF TypeInv, TypeOK
<1>2. handle[h].held = {"device"}
  BY DEF SessionInv, HandleInv, LookInv
<1>3. {"device"} # Resources
  BY DEF Resources
<1>4. h # session
  BY <1>1, <1>2, <1>3 DEF SessionInv, HandleInv, OpenInv
<1> QED
  BY <1>1, <1>2, <1>4

(* A step of one goroutine that neither touches the handles nor the session *)
(* and opens nothing: only what it says of itself has to be shown.          *)
LEMMA PrivateStep ==
    ASSUME TypeInv, SessionInv, NEW p \in Procs,
           pc[p] \notin OpeningLabels, pc[p] # "describe",
           UNCHANGED <<session, closed, handle, looking>>,
           \A q \in Procs : q # p =>
               pc'[q] = pc[q] /\ mine'[q] = mine[q] /\ result'[q] = result[q],
           pc'[p] \notin OpeningLabels,
           mine'[p] \in {mine[p], session, Nil},
           pc'[p] = "open" => session = Nil /\ ~closed,
           pc'[p] \in {"execute", "invalidate"} =>
               mine'[p] \in Handles /\ session = mine'[p],
           pc'[p] = "unlockIO" /\ mine'[p] # Nil => result'[p] \notin Discrediting
    PROVE  HandleInv'
<1> USE DEF SessionInv, HandleInv
<1>1. UseInv'
  BY DEF UseInv, OpeningLabels
<1>2. OpenInv'
  BY DEF OpenInv
<1>3. FailedSessionDropped'
  BY DEF FailedSessionDropped, Discrediting, Procs
<1>4. \A q \in Procs : \A h \in looking[q] : h # session /\ h # Nil
  BY LookedAt
<1>5. LookInv'
  BY <1>4 DEF LookInv
<1> QED
  BY <1>1, <1>2, <1>3, <1>5

(* Nobody else is opening while one goroutine has sessionMu to open, and    *)
(* with no session nobody executes.                                         *)
LEMMA AloneOpening ==
    ASSUME TypeInv, SessionInv, NEW p \in Procs, pc[p] \in {"open"} \cup OpeningLabels
    PROVE  /\ session = Nil /\ ~closed /\ sessionMu = p /\ looking[p] = {}
           /\ \A q \in Procs : q # p => pc[q] \notin {"open"} \cup OpeningLabels
           /\ \A q \in Procs : pc[q] \notin {"execute", "invalidate"}
<1>1. session = Nil /\ ~closed /\ sessionMu = p
  BY DEF SessionInv, HandleInv, UseInv, LockInv, SessionLabels
<1>2. \A q \in Procs : q # p => pc[q] \notin {"open"} \cup OpeningLabels
  BY <1>1 DEF SessionInv, LockInv, SessionLabels
<1>3. \A q \in Procs : pc[q] \notin {"execute", "invalidate"}
  BY <1>1, TransportAssumption DEF SessionInv, HandleInv, UseInv
<1>4. looking[p] = {}
  BY DEF SessionInv, HandleInv, LookInv, OpeningLabels
<1> QED
  BY <1>1, <1>2, <1>3, <1>4

(* Opening the device: the handle was nobody's. *)
LEMMA OpenDeviceKeeps ==
    ASSUME TypeInv, SessionInv, NEW p \in Procs, OpenDevice(p)
    PROVE  HandleInv'
<1>1. pc[p] = "open" /\ UNCHANGED <<looking, result, session, closed>>
  BY DEF OpenDevice
<1>2. CASE UNCHANGED <<pc, mine, handle>>
  BY <1>1, <1>2, PrivateStep DEF SessionInv, HandleInv, UseInv, OpeningLabels
<1>3. CASE \E h \in Handles :
               /\ Free(h)
               /\ mine' = [mine EXCEPT ![p] = h]
               /\ handle' = [handle EXCEPT ![h] = Opened(UsbIDs[index[p]])]
               /\ Goto(p, "claimConfig")
  <2>1. PICK h \in Handles :
               /\ Free(h)
               /\ mine' = [mine EXCEPT ![p] = h]
               /\ handle' = [handle EXCEPT ![h] = Opened(UsbIDs[index[p]])]
               /\ Goto(p, "claimConfig")
    BY <1>3
  <2>2. /\ pc'[p] = "claimConfig" /\ mine'[p] = h
        /\ handle'[h].held = {"device"} /\ handle[h].held = {}
        /\ \A g \in Handles : g # h => handle'[g] = handle[g]
        /\ \A q \in Procs : q # p => pc'[q] = pc[q] /\ mine'[q] = mine[q]
        /\ \A q \in Procs : mine[q] # h
    BY <2>1 DEF Goto, Opened, Free, Unused, TypeInv, TypeOK
  <2>3. session = Nil /\ ~closed /\ h # Nil
    BY <1>1, TransportAssumption, AloneOpening
  <2>4. \A q \in Procs : q # p => pc[q] \notin {"open"} \cup OpeningLabels
    BY <1>1, AloneOpening
  <2>5. \A q \in Procs : pc[q] \notin {"execute", "invalidate"}
    BY <1>1, AloneOpening
  <2>6. UseInv'
    BY <1>1, <2>2, <2>3, <2>4, <2>5 DEF UseInv, OpeningLabels
  <2>7. OpenInv'
    BY <1>1, <2>2, <2>3, <2>4 DEF SessionInv, HandleInv, OpenInv, OpeningLabels
  <2>8. LookInv'
    <3>1. \A q \in Procs : \A g \in looking[q] : g \in Handles /\ g # h
      BY <2>2, LookedAt
    <3>2. looking[p] = {}
      BY <1>1, AloneOpening
    <3> QED
      BY <1>1, <2>2, <3>1, <3>2 DEF SessionInv, HandleInv, LookInv
  <2>9. FailedSessionDropped'
    <3>1. SUFFICES ASSUME NEW q \in Workers, pc'[q] = "unlockIO", mine'[q] # Nil,
                          result'[q] \in Discrediting
                   PROVE  session' # mine'[q] /\ handle'[mine'[q]].held = {}
      BY <3>1 DEF FailedSessionDropped, Discrediting
    <3>2. q \in Procs /\ q # p /\ mine[q] # h /\ mine'[q] \in Handles
      BY <3>1, <2>1, <2>2 DEF Procs, TypeInv, TypeOK
    <3> QED
      BY <3>1, <3>2, <1>1, <2>2 DEF SessionInv, HandleInv, FailedSessionDropped,
         Discrediting
  <2> QED
    BY <2>6, <2>7, <2>8, <2>9 DEF HandleInv
<1> QED
  BY <1>2, <1>3 DEF OpenDevice

(* A goroutine that is opening and changes its own handle only: it goes on  *)
(* opening, with what its place says of the handle, gives the handle up     *)
(* closed, or makes it the session, complete.                               *)
LEMMA OpeningStep ==
    ASSUME TypeInv, SessionInv, NEW p \in Procs, pc[p] \in OpeningLabels,
           closed' = closed, looking' = looking,
           \A g \in Handles : g # mine[p] => handle'[g] = handle[g],
           \A q \in Procs : q # p =>
               pc'[q] = pc[q] /\ mine'[q] = mine[q] /\ result'[q] = result[q],
           mine'[p] \in {mine[p], Nil},
           \/ /\ pc'[p] \in OpeningLabels /\ mine'[p] = mine[p] /\ session' = session
              /\ pc'[p] \in {"claimConfig", "giveUp"} =>
                     handle'[mine[p]].held = {"device"}
              /\ pc'[p] = "claimInterface" =>
                     handle'[mine[p]].held = {"device", "config"}
              /\ pc'[p] = "findEndpoints" => handle'[mine[p]].held = Resources
           \/ /\ pc'[p] = "open" /\ handle'[mine[p]].held = {} /\ session' = session
           \/ /\ pc'[p] \in {"execute", "returned"} /\ session' = mine[p]
              /\ handle'[mine[p]].held = Resources
              /\ pc'[p] = "execute" => mine'[p] = mine[p]
    PROVE  HandleInv'
<1> DEFINE h == mine[p]
<1>1. h \in Handles /\ h # Nil
  BY TransportAssumption DEF TypeInv, Claiming
<1>2. /\ session = Nil /\ ~closed
      /\ \A q \in Procs : q # p => pc[q] \notin {"open"} \cup OpeningLabels
      /\ \A q \in Procs : pc[q] \notin {"execute", "invalidate"}
  BY AloneOpening
<1>3. \A g \in Handles : g # h /\ handle[g].held # {} =>
          \E q \in Procs : g \in looking[q]
  BY <1>2, TransportAssumption DEF SessionInv, HandleInv, OpenInv
<1>4. \A q \in Procs : h \notin looking[q]
  BY DEF SessionInv, HandleInv, LookInv
<1>5. pc[p] # "describe" /\ handle[h].held # {}
  BY DEF SessionInv, HandleInv, UseInv, OpeningLabels, Resources
<1>6. UseInv'
  BY <1>1, <1>2 DEF UseInv, OpeningLabels
<1>7. LookInv'
  BY <1>1, <1>4, <1>5, TransportAssumption DEF SessionInv, HandleInv, LookInv,
     TypeInv, TypeOK
<1>8. OpenInv'
  BY <1>1, <1>2, <1>3 DEF OpenInv
<1>9. FailedSessionDropped'
  <2>1. \A q \in Workers : q # p /\ pc[q] = "unlockIO" /\ mine[q] # Nil
            /\ result[q] \in Discrediting => mine[q] # h /\ mine[q] \in Handles
    BY <1>1, <1>5 DEF SessionInv, HandleInv, FailedSessionDropped, Discrediting,
       TypeInv, TypeOK, Procs
  <2>2. pc'[p] # "unlockIO"
    BY DEF OpeningLabels
  <2> QED
    BY <1>2, <2>1, <2>2 DEF SessionInv, HandleInv, FailedSessionDropped,
       Discrediting, Procs
<1> QED
  BY <1>6, <1>7, <1>8, <1>9 DEF HandleInv

(* openSession claims one thing after another and gives back what it has    *)
(* claimed where one fails, so that its caller can close the device.        *)
LEMMA OpenSessionKeeps ==
    ASSUME TypeInv, SessionInv, NEW p \in Procs,
           ClaimConfig(p) \/ ClaimInterface(p) \/ FindEndpoints(p) \/ GiveUp(p)
    PROVE  HandleInv'
<1>1. /\ pc[p] \in OpeningLabels /\ mine[p] \in Handles
      /\ UNCHANGED <<looking, closed>>
      /\ pc[p] \in {"claimConfig", "giveUp"} => handle[mine[p]].held = {"device"}
      /\ pc[p] = "findEndpoints" => handle[mine[p]].held = Resources
  BY DEF ClaimConfig, ClaimInterface, FindEndpoints, GiveUp, OpeningLabels, TypeInv,
     Claiming, SessionInv, HandleInv, UseInv
<1>2. CASE ClaimStep(p)
  <2>1. UNCHANGED <<mine, result, session>>
    BY <1>2 DEF ClaimStep, ClaimConfig, ClaimInterface
  <2>2. \A g \in Handles : g # mine[p] => handle'[g] = handle[g]
    BY <1>2 DEF ClaimStep, ClaimConfig, ClaimInterface, FindEndpoints, Holds, TypeInv,
       TypeOK
  <2>3. \A q \in Procs : q # p => pc'[q] = pc[q]
    BY <1>2 DEF ClaimStep, ClaimConfig, ClaimInterface, FindEndpoints, OpenFails,
       Goto, TypeInv, TypeOK
  <2>4. \/ pc'[p] = "claimInterface" /\ handle'[mine[p]].held = {"device", "config"}
        \/ pc'[p] = "findEndpoints" /\ handle'[mine[p]].held = Resources
        \/ pc'[p] = "giveUp" /\ handle'[mine[p]].held = {"device"}
    <3> USE DEF OpenFails, Holds, Goto, TypeInv, TypeOK
    <3>1. CASE ClaimConfig(p)
      BY <1>1, <3>1 DEF ClaimConfig
    <3>2. CASE ClaimInterface(p)
      BY <1>1, <3>2 DEF ClaimInterface
    <3>3. CASE OpenFails(p, {"protocol"}) /\ Holds(p, {"device"})
      BY <1>1, <3>3
    <3> QED
      BY <1>2, <3>1, <3>2, <3>3 DEF ClaimStep
  <2> QED
    BY <1>1, <2>1, <2>2, <2>3, <2>4, OpeningStep DEF OpeningLabels
<1>3. CASE /\ FindEndpoints(p) /\ session' = mine[p]
           /\ ReturnSession(p, mine[p]) /\ UNCHANGED handle
  <2>1. \A q \in Procs : q # p =>
            pc'[q] = pc[q] /\ mine'[q] = mine[q] /\ result'[q] = result[q]
    BY <1>3 DEF ReturnSession, Goto, Result, TypeInv, TypeOK
  <2>2. /\ pc'[p] \in {"execute", "returned"} /\ mine'[p] \in {mine[p], Nil}
        /\ pc'[p] = "execute" => mine'[p] = mine[p]
    BY <1>3 DEF ReturnSession, Goto, TypeInv, TypeOK
  <2>3. handle'[mine[p]].held = Resources
    BY <1>1, <1>3 DEF FindEndpoints
  <2> QED
    BY <1>1, <1>3, <2>1, <2>2, <2>3, OpeningStep
<1>4. CASE GiveUp(p)
  BY <1>1, <1>4, OpeningStep DEF GiveUp, Goto, DeviceClosed, Unused, TypeInv, TypeOK
<1> QED
  BY <1>2, <1>3, <1>4 DEF ClaimStep, FindEndpoints

(* The enumeration takes handles that are nobody's and gives them back.     *)
LEMMA LookKeeps ==
    ASSUME TypeInv, SessionInv, NEW p \in Procs, EnumerateUSB(p) \/ DescribeDevice(p)
    PROVE  HandleInv'
<1> USE DEF SessionInv, HandleInv
<1>1. /\ UNCHANGED <<mine, session, closed>>
      /\ pc[p] \in {"enumerate", "describe"} /\ p \in Inspectors
  BY DEF EnumerateUSB, DescribeDevice, Roles
<1>2. CASE EnumerateUSB(p)
  <2>1. PICK device \in [Handles -> IDs \cup {Nil}], opened \in SUBSET Handles :
            Enumerates(p, device, opened)
    BY <1>2, Enumerated
  <2>2. /\ pc'[p] \in {"returned", "lockSession", "describe"}
        /\ opened # {} => pc'[p] = "describe"
        /\ \A q \in Procs : q # p => pc'[q] = pc[q] /\ result'[q] = result[q]
    BY <2>1 DEF Enumerates, Goto, Result, TypeInv, TypeOK
  <2>3. /\ looking'[p] = opened
        /\ \A q \in Procs : q # p => looking'[q] = looking[q]
    BY <2>1 DEF Enumerates, TypeInv, TypeOK
  <2>4. /\ \A h \in opened : /\ handle'[h].held = {"device"} /\ handle[h].held = {}
                             /\ \A q \in Procs : mine[q] # h
        /\ \A h \in Handles \ opened : handle'[h] = handle[h]
    BY <2>1 DEF Enumerates, Free, Unused, Opened
  <2>5. looking[p] = {}
    BY <1>2 DEF LookInv, EnumerateUSB
  <2>6. \A q \in Procs : pc'[q] \in OpeningLabels \cup {"open", "execute",
              "invalidate", "unlockIO"} => q # p /\ pc[q] = pc'[q]
    BY <2>2 DEF OpeningLabels
  <2>7. UseInv'
    <3>1. \A q \in Procs : pc[q] \in OpeningLabels => handle'[mine[q]] = handle[mine[q]]
      BY <2>4 DEF TypeInv, Claiming
    <3> QED
      BY <1>1, <2>6, <3>1 DEF UseInv, OpeningLabels
  <2>8. LookInv'
    <3>1. \A q \in Procs : q # p => \A h \in looking[q] :
              h \in Handles \ opened /\ h \notin looking'[p]
      BY <2>3, <2>4, LookedAt
    <3>2. ASSUME NEW q \in Procs, q # p
          PROVE  /\ looking'[q] # {} => pc'[q] = "describe"
                 /\ \A h \in looking'[q] :
                        /\ handle'[h].held = {"device"}
                        /\ \A k \in Procs :
                               mine'[k] # h /\ (k # q => h \notin looking'[k])
      BY <1>1, <2>2, <2>3, <2>4, <3>1, <3>2 DEF LookInv
    <3>3. /\ looking'[p] # {} => pc'[p] = "describe"
          /\ \A h \in looking'[p] :
                 /\ handle'[h].held = {"device"}
                 /\ \A k \in Procs :
                        mine'[k] # h /\ (k # p => h \notin looking'[k])
      BY <1>1, <2>2, <2>3, <2>4, <3>1
    <3> QED
      BY <3>2, <3>3 DEF LookInv
  <2>9. OpenInv'
    <3>1. session # Nil => session \in Handles \ opened
      BY <2>4 DEF OpenInv, Resources, TypeInv, TypeOK
    <3>2. \A q \in Procs : pc[q] \in OpeningLabels => pc'[q] \in OpeningLabels
      BY <1>1, <2>2 DEF OpeningLabels
    <3> QED
      BY <1>1, <2>3, <2>4, <2>5, <3>1, <3>2 DEF OpenInv
  <2>10. FailedSessionDropped'
    BY <1>1, <2>2, <2>4, <2>6 DEF FailedSessionDropped, Procs, TypeInv, TypeOK
  <2> QED
    BY <2>7, <2>8, <2>9, <2>10
<1>3. CASE DescribeDevice(p)
  <2>1. PICK d \in looking[p] :
            /\ handle' = [handle EXCEPT ![d] = DeviceClosed(d)]
            /\ looking' = [looking EXCEPT ![p] = @ \ {d}]
            /\ Goto(p, IF looking[p] = {d} THEN "lockSession" ELSE "describe")
    BY <1>3 DEF DescribeDevice
  <2>2. d \in Handles /\ handle[d].held = {"device"} /\ \A q \in Procs : mine[q] # d
    BY DEF LookInv, TypeInv, TypeOK
  <2>3. /\ handle'[d].held = {}
        /\ \A h \in Handles : h # d => handle'[h] = handle[h]
    BY <2>1, <2>2 DEF DeviceClosed, Unused, TypeInv, TypeOK
  <2>4. /\ looking'[p] = looking[p] \ {d}
        /\ \A q \in Procs : q # p => looking'[q] = looking[q]
    BY <2>1 DEF TypeInv, TypeOK
  <2>5. /\ pc'[p] \in {"lockSession", "describe"} /\ result' = result
        /\ looking[p] # {d} => pc'[p] = "describe"
        /\ \A q \in Procs : q # p => pc'[q] = pc[q]
    BY <1>3, <2>1 DEF DescribeDevice, Goto, TypeInv, TypeOK
  <2>6. \A q \in Procs : pc'[q] \in OpeningLabels \cup {"open", "execute",
              "invalidate", "unlockIO"} => q # p /\ pc[q] = pc'[q]
    BY <2>5 DEF OpeningLabels
  <2>7. UseInv'
    <3>1. \A q \in Procs : pc[q] \in OpeningLabels => handle'[mine[q]] = handle[mine[q]]
      BY <2>2, <2>3 DEF TypeInv, Claiming
    <3> QED
      BY <1>1, <2>6, <3>1 DEF UseInv, OpeningLabels
  <2>8. LookInv'
    <3>1. \A q \in Procs : d \notin looking'[q]
      BY <2>4 DEF LookInv
    <3>2. \A q \in Procs : \A h \in looking'[q] :
              h \in looking[q] /\ h \in Handles /\ h # d
      BY <2>4, <3>1, LookedAt
    <3>3. \A q \in Procs : looking'[q] # {} => pc'[q] = "describe"
      BY <2>4, <2>5 DEF LookInv
    <3> QED
      BY <1>1, <2>3, <2>4, <3>2, <3>3 DEF LookInv
  <2>9. OpenInv'
    <3>1. session # Nil => session \in Handles /\ session # d
      BY <2>2 DEF OpenInv, Resources, TypeInv, TypeOK
    <3>2. \A q \in Procs : pc[q] \in OpeningLabels => pc'[q] \in OpeningLabels
      BY <1>1, <2>5 DEF OpeningLabels
    <3>3. \A h \in Handles : \A q \in Procs :
              h # d /\ h \in looking[q] => h \in looking'[q]
      BY <2>4
    <3> QED
      BY <1>1, <2>3, <3>1, <3>2, <3>3 DEF OpenInv
  <2>10. FailedSessionDropped'
    BY <1>1, <2>2, <2>3, <2>5, <2>6 DEF FailedSessionDropped, Procs, TypeInv, TypeOK
  <2> QED
    BY <2>7, <2>8, <2>9, <2>10
<1> QED
  BY <1>2, <1>3

(* Dropping the session: its transaction is the only one that uses it.      *)
LEMMA InvalidateKeeps ==
    ASSUME TypeInv, SessionInv, NEW p \in Procs, InvalidateSession(p)
    PROVE  HandleInv'
<1> USE DEF SessionInv, HandleInv
<1>1. /\ pc[p] = "invalidate" /\ mine[p] \in Handles /\ session = mine[p]
      /\ p \in Workers /\ ioMu = p /\ session # Nil
      /\ UNCHANGED <<mine, result, closed, looking>>
  BY TransportAssumption DEF InvalidateSession, UseInv, Roles, LockInv, IOLabels,
     locals
<1>2. /\ session' = Nil /\ handle'[session].held = {}
      /\ \A g \in Handles : g # session => handle'[g] = handle[g]
  BY <1>1 DEF InvalidateSession, Unused, TypeInv, TypeOK
<1>3. pc'[p] = "unlockIO" /\ \A q \in Procs : q # p => pc'[q] = pc[q]
  BY DEF InvalidateSession, Goto, TypeInv, TypeOK
<1>4. \A q \in Procs : pc[q] \notin {"open"} \cup OpeningLabels
  BY <1>1 DEF UseInv
<1>5. \A q \in Procs : q # p => pc[q] \notin {"execute", "invalidate"}
  BY <1>1, TransportAssumption DEF Roles, LockInv, IOLabels
<1>6. UseInv'
  BY <1>3, <1>4, <1>5 DEF UseInv, OpeningLabels
<1>7. OpenInv'
  BY <1>1, <1>2, <1>4 DEF OpenInv
<1>8. LookInv'
  <2>1. \A q \in Procs : \A h \in looking[q] : h \in Handles /\ h # session
    BY <1>1 DEF LookInv, TypeInv, TypeOK
  <2>2. looking[p] = {}
    BY <1>1 DEF LookInv
  <2> QED
    BY <1>1, <1>2, <1>3, <2>1, <2>2 DEF LookInv
<1>9. FailedSessionDropped'
  BY <1>1, <1>2, <1>3 DEF FailedSessionDropped, Discrediting, TypeInv, TypeOK, Procs
<1> QED
  BY <1>6, <1>7, <1>8, <1>9

(* Close has both mutexes: no transaction executes and nobody opens.        *)
LEMMA CloseKeeps ==
    ASSUME TypeInv, SessionInv, NEW p \in Procs, Close(p)
    PROVE  HandleInv'
<1> USE DEF SessionInv, HandleInv
<1>1. /\ pc[p] = "closing" /\ p = Closer /\ sessionMu = p /\ ioMu = p
      /\ UNCHANGED <<mine, result, looking>>
  BY TransportAssumption DEF Close, Roles, LockInv, SessionLabels, locals
<1>2. /\ pc'[p] = "returned"
      /\ \A q \in Procs : q # p => pc'[q] = pc[q]
  BY DEF Close, Goto, TypeInv, TypeOK
<1>3. \A q \in Procs : pc[q] \notin {"open", "execute", "invalidate", "unlockIO"}
                                        \cup OpeningLabels
  BY <1>1, TransportAssumption DEF Roles, LockInv, IOLabels, SessionLabels,
     OpeningLabels
<1>4. /\ session # Nil => session \in Handles /\ handle'[session].held = {}
      /\ \A g \in Handles : g # session => handle'[g] = handle[g]
  BY TransportAssumption DEF Close, Unused, TypeInv, TypeOK
<1>5. session' = Nil
  BY DEF Close
<1>6. UseInv'
  BY <1>2, <1>3 DEF UseInv, OpeningLabels
<1>7. OpenInv'
  BY <1>1, <1>3, <1>4, <1>5, TransportAssumption DEF OpenInv
<1>8. LookInv'
  <2>1. \A q \in Procs : \A h \in looking[q] : h \in Handles /\ h # session
    BY LookedAt
  <2>2. looking[p] = {}
    BY <1>1 DEF LookInv
  <2> QED
    BY <1>1, <1>2, <1>4, <2>1, <2>2 DEF LookInv
<1>9. FailedSessionDropped'
  BY <1>1, <1>2, <1>3 DEF FailedSessionDropped, Procs
<1> QED
  BY <1>6, <1>7, <1>8, <1>9

(* Every step of a goroutine preserves the invariant. *)
LEMMA StepSession ==
    ASSUME TypeInv, SessionInv, NEW p \in Procs, Call(p) \/ Step(p)
    PROVE  SessionInv'
<1>1. Roles' /\ LockInv'
  BY StepLocks DEF SessionInv
<1>2. SUFFICES HandleInv'
  BY <1>1, <1>2 DEF SessionInv
<1> USE DEF Goto, Result, TypeInv, TypeOK, OpeningLabels
<1>3. CASE Call(p)
  BY <1>3, PrivateStep DEF Call, CallTransaction, CallInspectUSB, CallClose, locals
<1>4. CASE LockIO(p) \/ LockSession(p)
  BY <1>4, PrivateStep DEF LockIO, LockSession, locals
<1>5. CASE InvalidateSession(p)
  BY <1>5, InvalidateKeeps
<1>6. CASE EnumerateUSB(p) \/ DescribeDevice(p)
  BY <1>6, LookKeeps
<1>7. CASE Ensure(p)
  <2>1. pc[p] = "ensure" /\ UNCHANGED <<session, closed, handle, looking>>
    BY <1>7 DEF Ensure
  <2>2. \A q \in Procs : q # p =>
            pc'[q] = pc[q] /\ mine'[q] = mine[q] /\ result'[q] = result[q]
    BY <1>7 DEF Ensure, ReturnNoSession, ReturnSession, StartLoop, locals
  <2>3. \/ pc'[p] = "open" /\ mine'[p] = mine[p] /\ session = Nil /\ ~closed
        \/ pc'[p] \in {"returned", "unlockIO"} /\ mine'[p] = Nil
        \/ pc'[p] = "execute" /\ mine'[p] = session /\ session # Nil
    BY <1>7 DEF Ensure, ReturnNoSession, ReturnSession, StartLoop, locals
  <2> QED
    BY <2>1, <2>2, <2>3, PrivateStep
<1>8. CASE OpenDevice(p)
  BY <1>8, OpenDeviceKeeps
<1>9. CASE ClaimConfig(p) \/ ClaimInterface(p) \/ FindEndpoints(p) \/ GiveUp(p)
  BY <1>9, OpenSessionKeeps
<1>10. CASE NothingOpened(p)
  BY <1>10, PrivateStep DEF NothingOpened, ReturnNoSession
<1>11. CASE Execute(p)
  BY <1>11, PrivateStep DEF Execute, shouldInvalidateSession, Discrediting,
     SessionInv, HandleInv, UseInv
<1>12. CASE UnlockIO(p) \/ Deliver(p)
  BY <1>12, PrivateStep DEF UnlockIO, Deliver
<1>13. CASE Close(p)
  BY <1>13, CloseKeeps
<1> QED
  BY <1>3, <1>4, <1>5, <1>6, <1>7, <1>8, <1>9, <1>10, <1>11, <1>12, <1>13
     DEF Step, Locks

(* Neither does the bus break it: a device that is gone is still held.      *)
LEMMA BusSession ==
    ASSUME TypeInv, SessionInv, NEW id \in IDs, Plug(id) \/ Unplug(id)
    PROVE  SessionInv'
<1>1. UNCHANGED <<pc, mine, looking, result, ioMu, sessionMu, session, closed>>
  BY DEF Plug, Unplug, locals
<1>2. \A h \in Handles : handle'[h].held = handle[h].held
  BY DEF Plug, Unplug, TypeInv, TypeOK
<1>3. Roles' /\ LockInv'
  BY <1>1 DEF SessionInv, Roles, LockInv
<1>4. UseInv'
  BY <1>1, <1>2 DEF SessionInv, HandleInv, UseInv, TypeInv, Claiming, OpeningLabels
<1>5. OpenInv'
  BY <1>1, <1>2 DEF SessionInv, HandleInv, OpenInv, TypeInv, TypeOK
<1>6. LookInv'
  BY <1>1, <1>2 DEF SessionInv, HandleInv, LookInv, TypeInv, TypeOK
<1>7. FailedSessionDropped'
  BY <1>1, <1>2 DEF SessionInv, HandleInv, FailedSessionDropped, TypeInv, TypeOK, Procs
<1> QED
  BY <1>3, <1>4, <1>5, <1>6, <1>7 DEF SessionInv, HandleInv

(* The invariant holds in every behaviour. *)
LEMMA SessionHolds == Spec => [](TypeInv /\ SessionInv)
<1>1. TypeInv /\ SessionInv /\ [Next]_vars => SessionInv'
  <2> SUFFICES ASSUME TypeInv, SessionInv, [Next]_vars PROVE SessionInv'
    OBVIOUS
  <2>1. CASE UNCHANGED vars
    BY <2>1 DEF vars, locals, SessionInv, HandleInv, Roles, LockInv, UseInv,
       LookInv, OpenInv, FailedSessionDropped
  <2> QED
    BY <2>1, StepSession, BusSession DEF Next
<1> QED
  BY <1>1, InitSession, Typed, PTL DEF Spec

-----------------------------------------------------------------------------
(* The properties *)

(* execute never loses its handle: neither invalidateSession of another     *)
(* transaction nor InspectUSB nor Close closes the session under it.        *)
THEOREM InUseIsOpen == Spec => []UsedHandleIsOpen
<1>1. TypeInv /\ SessionInv => UsedHandleIsOpen
  BY TransportAssumption DEF SessionInv, HandleInv, UseInv, OpenInv,
     UsedHandleIsOpen
<1> QED
  BY <1>1, SessionHolds, PTL

(* A handle with an open device that an enumeration looks at is one of its  *)
(* own, open for its strings only.                                          *)
LEMMA LookedIsListed ==
    ASSUME TypeInv, SessionInv, NEW p \in Procs, NEW h \in looking[p]
    PROVE  Listed(h) /\ h \in Handles
BY DEF SessionInv, HandleInv, LookInv, Listed, TypeInv, TypeOK

(* ensureSessionLocked and openSession leak no handle on any of their error *)
(* paths and never claim the stick twice; what else is open is a device     *)
(* whose strings enumerateUSB is reading.                                   *)
THEOREM NeverClaimedTwice == Spec => []OneOpenHandle
<1>1. TypeInv /\ SessionInv => OneOpenHandle
  <2> SUFFICES ASSUME TypeInv, SessionInv PROVE OneOpenHandle
    OBVIOUS
  <2>1. \A p \in Procs : pc[p] \in OpeningLabels => sessionMu = p /\ session = Nil
    BY DEF SessionInv, HandleInv, LockInv, UseInv, SessionLabels
  <2>2. \A h \in Handles : handle[h].held # {} /\ ~Listed(h) =>
            h = session \/ \E p \in Procs : pc[p] \in OpeningLabels /\ mine[p] = h
    BY LookedIsListed DEF SessionInv, HandleInv, OpenInv
  <2>3. \A h \in Handles : h # Nil
    BY TransportAssumption
  <2> QED
    BY <2>1, <2>2, <2>3 DEF OneOpenHandle
<1> QED
  BY <1>1, SessionHolds, PTL

(* After Close there is no session and none is opened again (closed is read *)
(* under sessionMu by ensureSessionLocked); only an enumeration, which has  *)
(* no lock, may still have devices open, with nothing claimed.              *)
THEOREM NoSessionAfterClose == Spec => []ClosedForGood
<1>1. TypeInv /\ SessionInv => ClosedForGood
  <2> SUFFICES ASSUME TypeInv, SessionInv, closed PROVE
          session = Nil /\ \A h \in Handles : handle[h].held # {} => Listed(h)
    BY DEF ClosedForGood
  <2>1. session = Nil /\ \A p \in Procs : pc[p] \notin OpeningLabels
    BY DEF SessionInv, HandleInv, UseInv, OpenInv
  <2> QED
    BY <2>1, LookedIsListed, TransportAssumption DEF SessionInv, HandleInv, OpenInv
<1> QED
  BY <1>1, SessionHolds, PTL

(* An error that discredits the session takes it out of use before the      *)
(* transaction returns (shouldInvalidateSession, invalidateSession).        *)
THEOREM DroppedAfterFailure == Spec => []FailedSessionDropped
BY SessionHolds, PTL DEF SessionInv, HandleInv

=============================================================================
