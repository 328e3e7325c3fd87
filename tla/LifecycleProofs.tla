--------------------------- MODULE LifecycleProofs ---------------------------
(* How the process ends, for any number of connections. *)
EXTENDS Lifecycle, TLAPS

Places == {"idle", "running", "lockSession", "open", "io", "enumerate"}
Deferred == {"cancel", "closing", "closingSession", "returned", "exited"}

(* A transaction has ioMu, whoever opens a session has sessionMu and Close  *)
(* has ioMu while it waits for sessionMu; the probe does not enumerate;     *)
(* Shutdown closed the listener for good; once run has its nil error no     *)
(* request is left and none can come; and Close is the last of the deferred *)
(* calls.                                                                   *)
EndInv ==
    /\ pc \in [Procs -> Places]
    /\ \A p \in Procs : pc[p] = "io" => ioMu = p /\ ~closed
    /\ \A p \in Procs : pc[p] = "open" => sessionMu = p /\ ~closed
    /\ main = "closingSession" => ioMu = Main
    /\ pc[Prober] # "enumerate"
    /\ main = "drain" => listener = "closed"
    /\ result = "ok" => /\ main \in Deferred
                        /\ listener = "closed"
                        /\ \A p \in Handlers : pc[p] = "idle"
    /\ main = "returned" => closed
    /\ GracefulAnswersAll
    /\ ReleasedOnExit

(* run starts its goroutines with nothing closed. *)
LEMMA InitEnd == Init => EndInv
BY LifecycleAssumption DEF Init, EndInv, Places, Procs, Deferred, GracefulAnswersAll,
   ReleasedOnExit

(* Requests and the probe, while the process runs. *)
LEMMA GoroutineEnd ==
    ASSUME EndInv, NEW p \in Procs,
           \/ Accept(p) \/ LockIO(p) \/ LockSession(p) \/ Opened(p) \/ EndIO(p)
           \/ BeginEnumerate(p) \/ EndEnumerate(p) \/ Finish(p)
    PROVE  EndInv'
<1>1. /\ Prober \notin Handlers /\ Handlers \subseteq Procs /\ Prober \in Procs
      /\ p # Nil /\ p # Main /\ Main # Nil
  BY LifecycleAssumption DEF Procs
<1>2. UNCHANGED <<main, result, listener, closed, cutOff>>
  BY DEF Accept, LockIO, LockSession, Opened, EndIO, BeginEnumerate, EndEnumerate, Finish,
     Elsewhere, transport
<1>3. GracefulAnswersAll' /\ ReleasedOnExit'
  BY <1>2 DEF EndInv, GracefulAnswersAll, ReleasedOnExit
<1> USE <1>1, <1>2, <1>3 DEF EndInv, Running, Goto, UnlockIO, transport, Places
<1>4. CASE Accept(p)
  BY <1>4 DEF Accept
<1>5. CASE LockIO(p)
  BY <1>5, LifecycleAssumption DEF LockIO, Procs
<1>6. CASE LockSession(p)
  BY <1>6, LifecycleAssumption DEF LockSession, Procs
<1>7. CASE Opened(p)
  BY <1>7 DEF Opened
<1>8. CASE EndIO(p)
  BY <1>8 DEF EndIO
<1>9. CASE BeginEnumerate(p)
  BY <1>9 DEF BeginEnumerate
<1>10. CASE EndEnumerate(p)
  BY <1>10 DEF EndEnumerate
<1>11. CASE Finish(p)
  BY <1>11 DEF Finish
<1> QED
  BY <1>4, <1>5, <1>6, <1>7, <1>8, <1>9, <1>10, <1>11

(* run itself, the server goroutine and signals. *)
LEMMA RunEnd ==
    ASSUME EndInv, Run \/ Signal \/ Kill \/ Listen \/ ServerFails
    PROVE  EndInv'
<1> USE DEF EndInv, Running, Others, transport, Deferred, GracefulAnswersAll, ReleasedOnExit
<1>1. CASE ShutdownRequested \/ ServerErrorSeen \/ Shutdown \/ Cancel
  <2>1. UNCHANGED <<pc, ioMu, sessionMu, closed, cutOff>>
    BY <1>1 DEF ShutdownRequested, ServerErrorSeen, Shutdown, Cancel
  <2>2. main' \in {"shutdown", "drain", "cancel", "closing"}
    BY <1>1 DEF ShutdownRequested, ServerErrorSeen, Shutdown, Cancel
  <2>3. main' = "drain" => listener' = "closed"
    BY <1>1 DEF ShutdownRequested, ServerErrorSeen, Shutdown, Cancel
  <2>4. result' = "ok" => /\ main' \in Deferred /\ result = "ok"
                          /\ listener' = listener
    BY <1>1 DEF ShutdownRequested, ServerErrorSeen, Shutdown, Cancel
  <2> QED
    BY <2>1, <2>2, <2>3, <2>4
<1>2. CASE Drained \/ DeadlinePasses
  <2>1. UNCHANGED <<listener, pc, ioMu, sessionMu, closed, cutOff>>
    BY <1>2 DEF Drained, DeadlinePasses
  <2>2. main = "drain" /\ main' = "cancel"
    BY <1>2 DEF Drained, DeadlinePasses
  <2>3. result' = "ok" => \A p \in Handlers : pc[p] = "idle"
    BY <1>2 DEF Drained, DeadlinePasses
  <2> QED
    BY <2>1, <2>2, <2>3
<1>3. CASE CloseLocksIO
  BY <1>3, LifecycleAssumption DEF CloseLocksIO, Procs
<1>4. CASE Close
  <2>1. \A p \in Procs : pc[p] \notin {"open", "io"}
    BY <1>4, LifecycleAssumption DEF Close, Procs
  <2> QED
    BY <1>4, <2>1 DEF Close
<1>5. CASE Exit \/ Kill
  BY <1>5 DEF Exit, Kill, EndOfProcess
<1>6. CASE Signal \/ Listen \/ ServerFails
  BY <1>6 DEF Signal, Listen, ServerFails
<1> QED
  BY <1>1, <1>2, <1>3, <1>4, <1>5, <1>6 DEF Run

(* The invariant holds in every behaviour. *)
LEMMA EndHolds == Spec => []EndInv
<1>1. EndInv /\ [Next]_vars => EndInv'
  <2> SUFFICES ASSUME EndInv, [Next]_vars PROVE EndInv'
    OBVIOUS
  <2>1. CASE UNCHANGED vars
    BY <2>1 DEF vars, transport, EndInv, GracefulAnswersAll, ReleasedOnExit
  <2> QED
    BY <2>1, GoroutineEnd, RunEnd DEF Next
<1> QED
  BY <1>1, InitEnd, PTL DEF Spec

(* When run returns no error, no request was cut off, however many there    *)
(* were and whenever the signal came (http.Server.Shutdown in run).         *)
THEOREM GracefulShutdown == Spec => []GracefulAnswersAll
BY EndHolds, PTL DEF EndInv

(* The libusb context is not used once ch341.Close has closed it, except by *)
(* requests that run gave up on.                                            *)
THEOREM NoUseAfterClose == Spec => []ContextUsedWhileOpen
<1>1. EndInv => ContextUsedWhileOpen
  BY DEF EndInv, ContextUsedWhileOpen, Procs
<1> QED
  BY <1>1, EndHolds, PTL

(* The deferred Close has run whenever the process was not killed.          *)
THEOREM StickReleased == Spec => []ReleasedOnExit
BY EndHolds, PTL DEF EndInv

=============================================================================
