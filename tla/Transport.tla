------------------------------ MODULE Transport ------------------------------
(***************************************************************************)
(* internal/transport/ch341.go, the session layer: one CH341 USB session,  *)
(* opened when first needed, shared by Transaction (the driver's I2C I/O)  *)
(* and InspectUSB (health and diagnostics), dropped after an error that    *)
(* says it is unusable, closed by Close at shutdown.  ioMu serialises USB  *)
(* I/O, sessionMu guards session and closed; both are modelled, with every *)
(* critical section of more than one library call in several steps.        *)
(*                                                                         *)
(* What a transaction puts on the wire is one outcome here: the bytes or   *)
(* an error.  gousb is external: a handle holds a device, a configuration  *)
(* and an interface until each is closed in the opposite order, and dies   *)
(* with its device.  Devices of other makes are left out: no operation but *)
(* the listing of the diagnostics looks at them.                           *)
(***************************************************************************)
EXTENDS Integers, Sequences

CONSTANTS
    Workers,        \* goroutines that call Transaction
    Inspectors,     \* goroutines that call InspectUSB
    Closer,         \* the goroutine of main, which calls Close
    UsbIDs,         \* usbIDs: the sequence of VID:PID pairs to try
    Handles,        \* gousb handles; one is reused only when unreferenced
    Nil

ASSUME TransportAssumption ==
    /\ Workers \cap Inspectors = {}
    /\ Closer \notin Workers \cup Inspectors
    /\ UsbIDs \in Seq({UsbIDs[i] : i \in DOMAIN UsbIDs})
    /\ Len(UsbIDs) > 0
    /\ \A i \in DOMAIN UsbIDs : UsbIDs[i] # Nil
    /\ Nil \notin Workers \cup Inspectors \cup {Closer} \cup Handles

VARIABLES
    pc,             \* where each goroutine is
    mine,           \* its local session or device
    looking,        \* the devices its enumeration has opened
    index,          \* its position in the loop over usbIDs
    lastError,      \* lastError of ensureSessionLocked
    result,         \* what it returns
    checkFailed,    \* history: its enumeration of the bus failed
    ioMu, sessionMu,    \* who holds the mutexes
    session,        \* Ch341Transport.session
    closed,         \* Ch341Transport.closed
    handle,         \* the gousb handles
    present         \* the VID:PIDs attached to the bus

locals == <<mine, looking, index, lastError, result, checkFailed>>
vars == <<pc, locals, ioMu, sessionMu, session, closed, handle, present>>

-----------------------------------------------------------------------------
Procs == Workers \cup Inspectors \cup {Closer}

IDs == {UsbIDs[i] : i \in DOMAIN UsbIDs}

Resources == {"device", "config", "iface"}

(* What a handle has claimed and not given back, the VID:PID it was opened  *)
(* for and whether its device is still attached.                            *)
Unused == [held |-> {}, id |-> Nil, alive |-> FALSE]
Opened(id) == [held |-> {"device"}, id |-> id, alive |-> TRUE]

Kinds == {"invalid_request", "device_missing", "permission_denied",
          "device_busy", "timeout", "nack", "protocol", "io"}

Outcomes == Kinds \cup {"none", "ok", "missing", "error", "ready"}

(* openSession, and what its caller does when it fails. *)
OpeningLabels == {"claimConfig", "claimInterface", "findEndpoints", "giveUp"}

Labels == {"idle", "lockIO", "enumerate", "describe", "lockSession", "ensure",
           "open", "execute", "invalidate", "unlockIO", "closing", "returned"}
              \cup OpeningLabels

(* Errors that gousb reports: a context deadline, transfer statuses, libusb *)
(* error codes.                                                             *)
OpenErrors == {"ErrorAccess", "ErrorBusy", "ErrorNoDevice", "ErrorNotFound",
               "ErrorIO"}
TransferErrors == {"DeadlineExceeded", "TransferCancelled", "TransferError",
                   "TransferStall", "TransferOverflow", "ErrorPipe"}
DeadErrors == {"TransferNoDevice", "TransferError", "ErrorNoDevice", "ErrorIO"}

classifyNothing(error) == error

classifyUSBError(error) ==
    IF error \in {"DeadlineExceeded", "TransferTimedOut", "TransferCancelled",
                  "ErrorTimeout"} THEN "timeout"
    ELSE IF error \in {"TransferNoDevice", "ErrorNoDevice", "ErrorNotFound"}
         THEN "device_missing"
    ELSE IF error \in {"TransferStall", "TransferOverflow", "ErrorPipe",
                       "ErrorOverflow"} THEN "protocol"
    ELSE IF error = "ErrorAccess" THEN "permission_denied"
    ELSE IF error = "ErrorBusy" THEN "device_busy"
    ELSE IF error = "ErrorInvalidParam" THEN "invalid_request"
    ELSE "io"

invalidateOnProtocol(kind) == kind = "protocol"

shouldInvalidateSession(kind) == kind \in {"device_missing", "io", "protocol"}

(* What execute returns: data, an unsuccessful transfer, a NACK among the   *)
(* status bytes, or an answer that is too short for the data (which it      *)
(* calls device_missing) or for the request (protocol).                     *)
ExecuteOutcomes(h) ==
    IF handle[h].alive
    THEN {"ok", "nack", "device_missing", "protocol"}
             \cup {classifyUSBError(e) : e \in TransferErrors}
    ELSE {classifyUSBError(e) : e \in DeadErrors}

Init ==
    /\ pc = [p \in Procs |-> "idle"]
    /\ mine = [p \in Procs |-> Nil]
    /\ looking = [p \in Procs |-> {}]
    /\ index = [p \in Procs |-> 1]
    /\ lastError = [p \in Procs |-> "none"]
    /\ result = [p \in Procs |-> "none"]
    /\ checkFailed = [p \in Procs |-> FALSE]
    /\ ioMu = Nil
    /\ sessionMu = Nil
    /\ session = Nil
    /\ closed = FALSE
    /\ handle = [h \in Handles |-> Unused]
    /\ present \in SUBSET IDs

Goto(p, label) == pc' = [pc EXCEPT ![p] = label]
Result(p, value) == result' = [result EXCEPT ![p] = value]

-----------------------------------------------------------------------------
(* Calls, and the two locks *)

(* encodeTransaction rejects a bad address or length before any lock. *)
CallTransaction(p) ==
    /\ p \in Workers
    /\ pc[p] = "idle"
    /\ \/ Goto(p, "lockIO") /\ UNCHANGED result
       \/ Goto(p, "returned") /\ Result(p, "invalid_request")
    /\ UNCHANGED <<mine, looking, index, lastError, checkFailed, ioMu, sessionMu,
                   session, closed, handle, present>>

CallInspectUSB(p) ==
    /\ p \in Inspectors
    /\ pc[p] = "idle"
    /\ Goto(p, "enumerate")
    /\ UNCHANGED <<locals, ioMu, sessionMu, session, closed, handle, present>>

CloseWithoutIO(p) ==
    /\ p = Closer
    /\ pc[p] = "idle"
    /\ Goto(p, "lockSession")
    /\ UNCHANGED <<locals, ioMu, sessionMu, session, closed, handle, present>>

CallClose(p) ==
    /\ p = Closer
    /\ pc[p] = "idle"
    /\ Goto(p, "lockIO")
    /\ UNCHANGED <<locals, ioMu, sessionMu, session, closed, handle, present>>

LockIO(p) ==
    /\ pc[p] = "lockIO"
    /\ ioMu = Nil
    /\ ioMu' = p
    /\ Goto(p, "lockSession")
    /\ UNCHANGED <<locals, sessionMu, session, closed, handle, present>>

LockSession(p) ==
    /\ pc[p] = "lockSession"
    /\ sessionMu = Nil
    /\ sessionMu' = p
    /\ Goto(p, IF p = Closer THEN "closing" ELSE "ensure")
    /\ UNCHANGED <<locals, ioMu, session, closed, handle, present>>

(* The deferred unlock of ioMu.  The local session goes with the frame.     *)
UnlockIO(p) ==
    /\ pc[p] = "unlockIO"
    /\ ioMu' = Nil
    /\ mine' = [mine EXCEPT ![p] = Nil]
    /\ Goto(p, "returned")
    /\ UNCHANGED <<looking, index, lastError, result, checkFailed, sessionMu,
                   session, closed, handle, present>>

Deliver(p) ==
    /\ pc[p] = "returned"
    /\ Goto(p, "idle")
    /\ mine' = [mine EXCEPT ![p] = Nil]
    /\ index' = [index EXCEPT ![p] = 1]
    /\ lastError' = [lastError EXCEPT ![p] = "none"]
    /\ Result(p, "none")
    /\ checkFailed' = [checkFailed EXCEPT ![p] = FALSE]
    /\ UNCHANGED <<looking, ioMu, sessionMu, session, closed, handle, present>>

-----------------------------------------------------------------------------
(* Opening: currentSession, InspectUSB's second half, ensureSessionLocked.  *)
(* sessionMu is held throughout and released by the defer.                  *)

ForgetLoop(p) ==
    /\ index' = [index EXCEPT ![p] = 1]
    /\ lastError' = [lastError EXCEPT ![p] = "none"]

(* The session is the caller's: Transaction executes on it, InspectUSB      *)
(* reports it.                                                              *)
ReturnSession(p, h) ==
    /\ sessionMu' = Nil
    /\ mine' = [mine EXCEPT ![p] = IF p \in Workers THEN h ELSE Nil]
    /\ ForgetLoop(p)
    /\ IF p \in Workers
       THEN Goto(p, "execute") /\ UNCHANGED result
       ELSE Goto(p, "returned") /\ Result(p, "ready")

ReturnNoSession(p, kind) ==
    /\ sessionMu' = Nil
    /\ mine' = [mine EXCEPT ![p] = Nil]
    /\ ForgetLoop(p)
    /\ Goto(p, IF p \in Workers THEN "unlockIO" ELSE "returned")
    /\ Result(p, IF p \in Workers THEN kind ELSE "error")

StartLoop(p) == Goto(p, "open") /\ UNCHANGED <<sessionMu, locals>>

EnsureUnchecked(p) ==
    /\ pc[p] = "ensure"
    /\ \/ session # Nil /\ ReturnSession(p, session)
       \/ session = Nil /\ StartLoop(p)
    /\ UNCHANGED <<looking, checkFailed, ioMu, session, closed, handle, present>>

(* The early return on a closed transport forgets the unlock. *)
EnsureLeavesLock(p) ==
    /\ pc[p] = "ensure"
    /\ \/ /\ closed
          /\ Goto(p, IF p \in Workers THEN "unlockIO" ELSE "returned")
          /\ UNCHANGED <<sessionMu, locals>>
       \/ ~closed /\ session # Nil /\ ReturnSession(p, session)
       \/ ~closed /\ session = Nil /\ StartLoop(p)
    /\ UNCHANGED <<looking, checkFailed, ioMu, session, closed, handle, present>>

Ensure(p) ==
    /\ pc[p] = "ensure"
    /\ \/ closed /\ ReturnNoSession(p, "device_missing")
       \/ ~closed /\ session # Nil /\ ReturnSession(p, session)
       \/ ~closed /\ session = Nil /\ StartLoop(p)
    /\ UNCHANGED <<looking, checkFailed, ioMu, session, closed, handle, present>>

(* A handle that is not open and that no goroutine still refers to.         *)
Free(h) == handle[h] = Unused /\ \A q \in Procs : mine[q] # h

(* OpenDeviceWithVIDPID for the next identity: no device, an error, or a    *)
(* new handle.                                                              *)
OpenDevice(p) ==
    /\ pc[p] = "open"
    /\ index[p] <= Len(UsbIDs)
    /\ LET id == UsbIDs[index[p]]
       IN  \/ /\ id \notin present
              /\ index' = [index EXCEPT ![p] = @ + 1]
              /\ UNCHANGED <<pc, mine, lastError, handle>>
           \/ /\ index' = [index EXCEPT ![p] = @ + 1]
              /\ \E e \in OpenErrors :
                     lastError' = [lastError EXCEPT ![p] = classifyUSBError(e)]
              /\ UNCHANGED <<pc, mine, handle>>
           \/ /\ id \in present
              /\ \E h \in Handles :
                     /\ Free(h)
                     /\ mine' = [mine EXCEPT ![p] = h]
                     /\ handle' = [handle EXCEPT ![h] = Opened(id)]
              /\ Goto(p, "claimConfig")
              /\ UNCHANGED <<index, lastError>>
    /\ UNCHANGED <<looking, result, checkFailed, ioMu, sessionMu, session, closed,
                   present>>

(* openSession, one step for each thing it claims.  Where one fails it      *)
(* gives back what it claimed before, and its caller closes the device.     *)
Holds(p, resources) ==
    handle' = [handle EXCEPT ![mine[p]].held = resources]

OpenFails(p, kinds) ==
    /\ \E kind \in kinds : lastError' = [lastError EXCEPT ![p] = kind]
    /\ Goto(p, "giveUp")

ClaimErrors == {classifyUSBError(e) : e \in OpenErrors}

(* No interface with two bulk endpoints (findBulkEndpoints), or the         *)
(* configuration is refused: nothing was claimed yet.                       *)
ClaimConfig(p) ==
    /\ pc[p] = "claimConfig"
    /\ \/ /\ handle[mine[p]].alive
          /\ Holds(p, {"device", "config"})
          /\ Goto(p, "claimInterface")
          /\ UNCHANGED lastError
       \/ /\ OpenFails(p, ClaimErrors \cup {"protocol"})
          /\ UNCHANGED handle
    /\ UNCHANGED <<mine, looking, index, result, checkFailed, ioMu, sessionMu,
                   session, closed, present>>

(* usbConfig.Close is forgotten where the interface is refused. *)
ClaimInterfaceLeaks(p) ==
    /\ pc[p] = "claimInterface"
    /\ \/ /\ handle[mine[p]].alive
          /\ Holds(p, Resources)
          /\ Goto(p, "findEndpoints")
          /\ UNCHANGED lastError
       \/ /\ OpenFails(p, ClaimErrors)
          /\ UNCHANGED handle
    /\ UNCHANGED <<mine, looking, index, result, checkFailed, ioMu, sessionMu,
                   session, closed, present>>

ClaimInterface(p) ==
    /\ pc[p] = "claimInterface"
    /\ \/ /\ handle[mine[p]].alive
          /\ Holds(p, Resources)
          /\ Goto(p, "findEndpoints")
          /\ UNCHANGED lastError
       \/ /\ OpenFails(p, ClaimErrors)
          /\ Holds(p, {"device"})
    /\ UNCHANGED <<mine, looking, index, result, checkFailed, ioMu, sessionMu,
                   session, closed, present>>

(* The endpoints are looked up without I/O; then the session is complete.   *)
FindEndpoints(p) ==
    /\ pc[p] = "findEndpoints"
    /\ \/ /\ session' = mine[p]
          /\ ReturnSession(p, mine[p])
          /\ UNCHANGED handle
       \/ /\ OpenFails(p, {"protocol"})
          /\ Holds(p, {"device"})
          /\ UNCHANGED <<mine, index, result, sessionMu, session>>
    /\ UNCHANGED <<looking, checkFailed, ioMu, closed, present>>

(* gousb: a device with a claimed configuration is not closed. *)
DeviceClosed(h) == IF handle[h].held = {"device"} THEN Unused ELSE handle[h]

(* The loop closes the device, drops the error of that, and goes on. *)
GiveUp(p) ==
    /\ pc[p] = "giveUp"
    /\ handle' = [handle EXCEPT ![mine[p]] = DeviceClosed(mine[p])]
    /\ mine' = [mine EXCEPT ![p] = Nil]
    /\ index' = [index EXCEPT ![p] = @ + 1]
    /\ Goto(p, "open")
    /\ UNCHANGED <<looking, lastError, result, checkFailed, ioMu, sessionMu,
                   session, closed, present>>

NothingOpened(p) ==
    /\ pc[p] = "open"
    /\ index[p] > Len(UsbIDs)
    /\ ReturnNoSession(p, IF lastError[p] = "none" THEN "device_missing"
                                                  ELSE lastError[p])
    /\ UNCHANGED <<looking, checkFailed, ioMu, session, closed, handle, present>>

-----------------------------------------------------------------------------
(* Transaction *)

(* The end of execute; it takes as long as it takes. *)
Execute(p) ==
    /\ pc[p] = "execute"
    /\ \E outcome \in ExecuteOutcomes(mine[p]) :
           /\ Result(p, outcome)
           /\ Goto(p, IF shouldInvalidateSession(outcome) THEN "invalidate"
                                                          ELSE "unlockIO")
    /\ UNCHANGED <<mine, looking, index, lastError, checkFailed, ioMu, sessionMu,
                   session, closed, handle, present>>

(* invalidateSession, a critical section of its own. *)
InvalidateSession(p) ==
    /\ pc[p] = "invalidate"
    /\ sessionMu = Nil
    /\ IF session = mine[p]
       THEN /\ handle' = [handle EXCEPT ![session] = Unused]
            /\ session' = Nil
       ELSE UNCHANGED <<handle, session>>
    /\ Goto(p, "unlockIO")
    /\ UNCHANGED <<locals, ioMu, sessionMu, closed, present>>

-----------------------------------------------------------------------------
(* InspectUSB, before the lock: enumerateUSB drops the error of OpenDevices *)
(* and works with the descriptors and the devices it got, which after an    *)
(* error may be some or none.  With includeDeviceStrings (the diagnostics)  *)
(* it opens every device, a stick that is in use too, and holds no mutex.   *)
EnumerateUSB(p) ==
    /\ pc[p] = "enumerate"
    /\ \E failed, includeDeviceStrings \in BOOLEAN, descriptors \in SUBSET present :
       \E device \in [Handles -> descriptors \cup {Nil}] :
           LET opened == {h \in Handles : device[h] # Nil}
           IN  /\ ~failed => descriptors = present
               /\ ~includeDeviceStrings => opened = {}
               /\ ~failed /\ includeDeviceStrings =>
                      {device[h] : h \in opened} = present
               /\ \A h \in opened : Free(h)
               /\ \A g, h \in opened : device[g] = device[h] => g = h
               /\ checkFailed' = [checkFailed EXCEPT ![p] = failed]
               /\ looking' = [looking EXCEPT ![p] = opened]
               /\ handle' = [h \in Handles |-> IF h \in opened THEN Opened(device[h])
                                                             ELSE handle[h]]
               /\ IF descriptors = {}
                  THEN Goto(p, "returned") /\ Result(p, "missing")
                  ELSE /\ Goto(p, IF opened = {} THEN "lockSession" ELSE "describe")
                       /\ UNCHANGED result
    /\ UNCHANGED <<mine, index, lastError, ioMu, sessionMu, session, closed, present>>

(* The strings of one device are read and the device is closed.             *)
DescribeDevice(p) ==
    /\ pc[p] = "describe"
    /\ \E h \in looking[p] :
           /\ handle' = [handle EXCEPT ![h] = DeviceClosed(h)]
           /\ looking' = [looking EXCEPT ![p] = @ \ {h}]
           /\ Goto(p, IF looking[p] = {h} THEN "lockSession" ELSE "describe")
    /\ UNCHANGED <<mine, index, lastError, result, checkFailed, ioMu, sessionMu,
                   session, closed, present>>

(* Close, with both locks. *)
Close(p) ==
    /\ pc[p] = "closing"
    /\ closed' = TRUE
    /\ handle' = IF session # Nil THEN [handle EXCEPT ![session] = Unused]
                                  ELSE handle
    /\ session' = Nil
    /\ sessionMu' = Nil
    /\ ioMu' = IF ioMu = p THEN Nil ELSE ioMu
    /\ Goto(p, "returned")
    /\ UNCHANGED <<locals, present>>

-----------------------------------------------------------------------------
(* The bus *)

Plug(id) ==
    /\ id \notin present
    /\ present' = present \cup {id}
    /\ UNCHANGED <<pc, locals, ioMu, sessionMu, session, closed, handle>>

Unplug(id) ==
    /\ id \in present
    /\ present' = present \ {id}
    /\ handle' = [h \in Handles |->
                      [handle[h] EXCEPT !.alive = @ /\ handle[h].id # id]]
    /\ UNCHANGED <<pc, locals, ioMu, sessionMu, session, closed>>

-----------------------------------------------------------------------------
Locks(p) == LockIO(p) \/ LockSession(p) \/ InvalidateSession(p)

Step(p) ==
    \/ Locks(p)
    \/ EnumerateUSB(p)
    \/ DescribeDevice(p)
    \/ Ensure(p)
    \/ OpenDevice(p)
    \/ ClaimConfig(p)
    \/ ClaimInterface(p)
    \/ FindEndpoints(p)
    \/ GiveUp(p)
    \/ NothingOpened(p)
    \/ Execute(p)
    \/ UnlockIO(p)
    \/ Close(p)
    \/ Deliver(p)

Call(p) == CallTransaction(p) \/ CallInspectUSB(p) \/ CallClose(p)

Next ==
    \/ \E p \in Procs : Call(p) \/ Step(p)
    \/ \E id \in IDs : Plug(id) \/ Unplug(id)

Spec == Init /\ [][Next]_vars

(* Goroutines keep running and USB calls have timeouts; sync.Mutex hands    *)
(* over to the longest waiter once somebody waits longer than 1 ms, so no   *)
(* goroutine waits for a mutex that is released again and again.            *)
Fairness == \A p \in Procs : WF_vars(Step(p)) /\ SF_vars(Locks(p))

FairSpec == Spec /\ Fairness

-----------------------------------------------------------------------------
(* Properties *)

(* Type correctness; every error was classified (classifyUSBError). *)
TypeOK ==
    /\ pc \in [Procs -> Labels]
    /\ mine \in [Procs -> Handles \cup {Nil}]
    /\ looking \in [Procs -> SUBSET Handles]
    /\ index \in [Procs -> 1 .. Len(UsbIDs) + 1]
    /\ lastError \in [Procs -> Kinds \cup {"none"}]
    /\ result \in [Procs -> Outcomes]
    /\ checkFailed \in [Procs -> BOOLEAN]
    /\ ioMu \in Procs \cup {Nil}
    /\ sessionMu \in Procs \cup {Nil}
    /\ session \in Handles \cup {Nil}
    /\ closed \in BOOLEAN
    /\ handle \in [Handles -> [held: SUBSET Resources, id: IDs \cup {Nil},
                               alive: BOOLEAN]]
    /\ present \in SUBSET IDs

(* A transaction in progress never loses its session: no invalidation, no   *)
(* health check and no shutdown closes the handle under it.                 *)
UsedHandleIsOpen ==
    \A p \in Procs : pc[p] = "execute" =>
        session = mine[p] /\ handle[mine[p]].held = Resources

(* A device that an enumeration in progress has open to read its strings.   *)
Listed(h) ==
    \E p \in Procs : /\ pc[p] = "describe" /\ h \in looking[p]
                     /\ handle[h].held = {"device"}

(* Every open handle has an owner that will close it: it is the current     *)
(* session, or in the hands of the goroutine that has sessionMu, or open    *)
(* for its strings alone in an enumeration, which takes no mutex; and apart *)
(* from enumerations only one is ever open.  So no failing openSession      *)
(* leaks one and no two goroutines claim the stick at once.                 *)
OneOpenHandle ==
    LET open == {h \in Handles : handle[h].held # {} /\ ~Listed(h)}
    IN  /\ \A h \in open : h = session \/ \E p \in Procs :
               pc[p] \in OpeningLabels /\ sessionMu = p /\ mine[p] = h
        /\ \A g, h \in open : g = h

(* After Close there is no session and none is opened again, whatever       *)
(* health checks and transactions were waiting for the locks: what can      *)
(* still be open is a device of a diagnostics enumeration, which the locks  *)
(* do not stop, with nothing claimed.                                       *)
ClosedForGood ==
    closed => session = Nil /\ \A h \in Handles : handle[h].held # {} => Listed(h)

(* A transaction that returns an error which discredits its session has     *)
(* taken it out of use, so the retry of the driver gets a new one.          *)
FailedSessionDropped ==
    \A p \in Workers :
        pc[p] = "unlockIO" /\ mine[p] # Nil
            /\ result[p] \in {"device_missing", "io", "protocol"} =>
                session # mine[p] /\ handle[mine[p]].held = {}

(* Every call returns: two locks and a loop over identities never wedge.    *)
EveryCallReturns == \A p \in Procs : pc[p] # "idle" ~> pc[p] = "idle"

(* If transactions keep being executed, a session whose device was          *)
(* unplugged does not stay the current one.                                 *)
StaleSessionIsDropped ==
    []<>(\E p \in Workers : pc[p] = "execute") =>
        \A h \in Handles : [](session = h /\ ~handle[h].alive => <>(session # h))

(* docs/01-api-contract.md, GET /healthz: "missing: no matching device was  *)
(* enumerated; error: USB check or session open failed" - InspectUSB does   *)
(* not report a check that failed as a stick that is missing.               *)
CheckFailureIsError ==
    \A p \in Inspectors :
        pc[p] = "returned" /\ checkFailed[p] => result[p] # "missing"

=============================================================================
