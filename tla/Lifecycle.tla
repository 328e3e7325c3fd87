------------------------------ MODULE Lifecycle ------------------------------
(***************************************************************************)
(* cmd/remote-mfi-for-xcertplay/main.go, from the start of the goroutines  *)
(* in run to the end of the process: the select over the signal and the    *)
(* server's error, the graceful shutdown with its deadline, and the        *)
(* deferred calls, while requests and the startup probe still use the USB  *)
(* stick.  Of the transport there is what its Close races with: ioMu and   *)
(* sessionMu, closed, and the libusb context, which an enumeration uses    *)
(* without a lock.  net/http and os/signal appear as run uses them.        *)
(***************************************************************************)
EXTENDS Naturals

CONSTANTS
    Handlers,       \* connections with a request
    Prober,         \* go probeChip
    Main,           \* the goroutine of run
    Nil

ASSUME LifecycleAssumption ==
    /\ Prober \notin Handlers
    /\ Main \notin Handlers \cup {Prober}
    /\ Nil \notin Handlers \cup {Prober, Main}

VARIABLES
    main,           \* where the goroutine of run is
    result,         \* what run returns
    signalled,      \* appContext is done
    listener,       \* the state of httpServer
    serverError,    \* the error in the channel, if there is one
    pc,             \* where the handlers and the probe are
    ioMu,           \* Ch341Transport.ioMu
    sessionMu,      \* Ch341Transport.sessionMu
    closed,         \* Ch341Transport.closed, and its libusb context
    cutOff          \* history: requests that the end of the process cut off

transport == <<ioMu, sessionMu, closed>>
vars == <<main, result, signalled, listener, serverError, pc, transport, cutOff>>

Procs == Handlers \cup {Prober}

Running == main # "exited"

Init ==
    /\ main = "select"
    /\ result = "none"
    /\ signalled = FALSE
    /\ listener = "starting"
    /\ serverError = FALSE
    /\ pc = [p \in Procs |-> IF p = Prober THEN "running" ELSE "idle"]
    /\ ioMu = Nil
    /\ sessionMu = Nil
    /\ closed = FALSE
    /\ cutOff = {}

-----------------------------------------------------------------------------
(* The server goroutine.  After Shutdown, ListenAndServe returns            *)
(* ErrServerClosed, which is no error; the channel is closed then, and      *)
(* nobody reads it any more.                                                *)

Listen ==
    /\ Running
    /\ listener = "starting"
    /\ listener' = "open"
    /\ UNCHANGED <<main, result, signalled, serverError, pc, transport, cutOff>>

(* The address is in use, or accepting fails later. *)
ServerFails ==
    /\ Running
    /\ listener \in {"starting", "open"}
    /\ listener' = "failed"
    /\ serverError' = TRUE
    /\ UNCHANGED <<main, result, signalled, pc, transport, cutOff>>

-----------------------------------------------------------------------------
(* Requests and the probe *)

Goto(p, label) == pc' = [pc EXCEPT ![p] = label]
Elsewhere == UNCHANGED <<main, result, signalled, listener, serverError, cutOff>>

Accept(p) ==
    /\ Running
    /\ p \in Handlers
    /\ pc[p] = "idle"
    /\ listener = "open"
    /\ Goto(p, "running")
    /\ UNCHANGED transport /\ Elsewhere

(* Transaction has ioMu from here to its end. *)
LockIO(p) ==
    /\ Running
    /\ pc[p] = "running"
    /\ ioMu = Nil
    /\ ioMu' = p
    /\ Goto(p, "lockSession")
    /\ UNCHANGED <<sessionMu, closed>> /\ Elsewhere

(* The deferred unlock of Transaction, if this is one. *)
UnlockIO(p) == ioMu' = IF ioMu = p THEN Nil ELSE ioMu

(* currentSession, or InspectUSB after its enumeration: nothing is opened   *)
(* after Close.                                                             *)
LockSession(p) ==
    /\ Running
    /\ pc[p] = "lockSession"
    /\ sessionMu = Nil
    /\ \/ ~closed /\ sessionMu' = p /\ Goto(p, "open") /\ UNCHANGED ioMu
       \/ closed /\ UnlockIO(p) /\ Goto(p, "running") /\ UNCHANGED sessionMu
    /\ UNCHANGED closed /\ Elsewhere

(* ensureSessionLocked returns, for a transaction with a session or without. *)
Opened(p) ==
    /\ Running
    /\ pc[p] = "open"
    /\ sessionMu' = Nil
    /\ \/ ioMu = p /\ Goto(p, "io") /\ UNCHANGED ioMu
       \/ UnlockIO(p) /\ Goto(p, "running")
    /\ UNCHANGED closed /\ Elsewhere

EndIO(p) ==
    /\ Running
    /\ pc[p] = "io"
    /\ UnlockIO(p)
    /\ Goto(p, "running")
    /\ UNCHANGED <<sessionMu, closed>> /\ Elsewhere

(* InspectUSB's enumeration, for /healthz and /debug/usb. *)
BeginEnumerate(p) ==
    /\ Running
    /\ p \in Handlers
    /\ pc[p] = "running"
    /\ Goto(p, "enumerate")
    /\ UNCHANGED transport /\ Elsewhere

EndEnumerate(p) ==
    /\ Running
    /\ pc[p] = "enumerate"
    /\ \E label \in {"running", "lockSession"} : Goto(p, label)
    /\ UNCHANGED transport /\ Elsewhere

Finish(p) ==
    /\ Running
    /\ pc[p] = "running"
    /\ Goto(p, "idle")
    /\ UNCHANGED transport /\ Elsewhere

-----------------------------------------------------------------------------
(* run *)

Others == UNCHANGED <<signalled, serverError, pc, transport, cutOff>>

(* signal.NotifyContext: from the first signal until the deferred cancel    *)
(* further ones do nothing.                                                 *)
Signal ==
    /\ main \in {"select", "shutdown", "drain", "cancel"}
    /\ signalled' = TRUE
    /\ UNCHANGED <<main, result, listener, serverError, pc, transport, cutOff>>

(* select: with both ready, either. *)
ShutdownRequested ==
    /\ main = "select"
    /\ signalled
    /\ main' = "shutdown"
    /\ UNCHANGED <<result, listener>> /\ Others

(* The process ends right here. *)
ServerErrorExits ==
    /\ main = "select"
    /\ serverError
    /\ main' = "exited"
    /\ result' = "server error"
    /\ UNCHANGED listener /\ Others

ServerErrorSeen ==
    /\ main = "select"
    /\ serverError
    /\ main' = "cancel"
    /\ result' = "server error"
    /\ UNCHANGED listener /\ Others

(* httpServer.Shutdown: nothing is accepted from now on; ListenAndServe     *)
(* fails even when it is called only now.                                   *)
Shutdown ==
    /\ main = "shutdown"
    /\ main' = "drain"
    /\ listener' = "closed"
    /\ UNCHANGED result /\ Others

(* Server.Close instead of Shutdown. *)
DrainedAtOnce ==
    /\ main = "drain"
    /\ main' = "cancel"
    /\ result' = "ok"
    /\ UNCHANGED listener /\ Others

(* Shutdown waits for the connections, not for the probe ... *)
Drained ==
    /\ main = "drain"
    /\ \A p \in Handlers : pc[p] = "idle"
    /\ main' = "cancel"
    /\ result' = "ok"
    /\ UNCHANGED listener /\ Others

(* Shutdown with context.Background(). *)
NoDeadline == FALSE /\ UNCHANGED vars

(* ... for shutdownTimeout. *)
DeadlinePasses ==
    /\ main = "drain"
    /\ main' = "cancel"
    /\ result' = "graceful shutdown: deadline exceeded"
    /\ UNCHANGED listener /\ Others

(* The deferred calls, the last one first: shutdownCancel and cancel ...    *)
Cancel ==
    /\ main = "cancel"
    /\ main' = "closing"
    /\ UNCHANGED <<result, listener>> /\ Others

(* Close does not wait for the transaction in progress. *)
CloseSkipsIO ==
    /\ main = "closing"
    /\ main' = "closingSession"
    /\ UNCHANGED <<result, signalled, listener, serverError, pc, transport, cutOff>>

(* ... and ch341.Close, which takes ioMu and then sessionMu.                *)
CloseLocksIO ==
    /\ main = "closing"
    /\ ioMu = Nil
    /\ ioMu' = Main
    /\ main' = "closingSession"
    /\ UNCHANGED <<result, signalled, listener, serverError, pc, sessionMu, closed,
                   cutOff>>

(* The session is closed, then the context.  gousb refuses the latter while *)
(* an enumeration has a device open; run drops the error and the process    *)
(* ends with the context as it is.                                          *)
Close ==
    /\ main = "closingSession"
    /\ sessionMu = Nil
    /\ closed' = TRUE
    /\ UnlockIO(Main)
    /\ main' = "returned"
    /\ UNCHANGED <<result, signalled, listener, serverError, pc, sessionMu, cutOff>>

EndOfProcess ==
    /\ main' = "exited"
    /\ cutOff' = {p \in Handlers : pc[p] # "idle"}

(* main returns or calls os.Exit(1). *)
Exit ==
    /\ main = "returned"
    /\ EndOfProcess
    /\ UNCHANGED <<result, signalled, listener, serverError, pc, transport>>

(* After cancel a signal has its default effect. *)
Kill ==
    /\ main \in {"closing", "closingSession", "returned"}
    /\ EndOfProcess
    /\ result' = "killed"
    /\ UNCHANGED <<signalled, listener, serverError, pc, transport>>

-----------------------------------------------------------------------------
Run ==
    \/ ShutdownRequested
    \/ ServerErrorSeen
    \/ Shutdown
    \/ Drained
    \/ DeadlinePasses
    \/ Cancel
    \/ CloseLocksIO
    \/ Close
    \/ Exit

Next ==
    \/ Run
    \/ Signal
    \/ Kill
    \/ Listen
    \/ ServerFails
    \/ \E p \in Procs :
           \/ Accept(p)
           \/ LockIO(p)
           \/ LockSession(p)
           \/ Opened(p)
           \/ EndIO(p)
           \/ BeginEnumerate(p)
           \/ EndEnumerate(p)
           \/ Finish(p)

Spec == Init /\ [][Next]_vars

(* The goroutine of run goes on; every USB transfer has a timeout and       *)
(* opening is a finite loop; a waiter for a sync.Mutex that is released     *)
(* again and again gets it.  Nothing else is assumed of handlers: clients   *)
(* may be slow and a chip sequence long.                                    *)
Fairness ==
    /\ WF_vars(Run)
    /\ SF_vars(CloseLocksIO) /\ SF_vars(Close)
    /\ \A p \in Procs : WF_vars(EndIO(p)) /\ WF_vars(Opened(p)) /\ SF_vars(LockSession(p))

FairSpec == Spec /\ Fairness

-----------------------------------------------------------------------------
(* Properties *)

(* If run returns without an error no request was cut off: whatever was     *)
(* accepted before the signal, between the signal and Shutdown, or not      *)
(* begun when the signal came, was answered (http.Server.Shutdown in run).  *)
GracefulAnswersAll == main = "exited" /\ result = "ok" => cutOff = {}

(* The libusb context is not used after ch341.Close closed it: never by a   *)
(* transaction or to open a session, and by an enumeration only after run   *)
(* gave up on requests that were still running (the deadline passed or the  *)
(* server had failed), in the moment before the process ends.               *)
ContextUsedWhileOpen ==
    \A p \in Procs : closed =>
        /\ pc[p] \notin {"open", "io"}
        /\ pc[p] = "enumerate" => result # "ok"

(* However run ends, the stick was released before the process is gone, so  *)
(* that the next process can claim it (docs/03-acceptance-checklist.md:93), *)
(* unless a signal killed it in the deferred calls.                         *)
ReleasedOnExit == main = "exited" /\ result # "killed" => closed

(* A signal ends the process, although requests may hang and transactions   *)
(* go on: the deadline bounds Shutdown, and Close gets both mutexes         *)
(* although health checks take sessionMu without ioMu.                      *)
SignalEndsProcess == signalled ~> main = "exited"

=============================================================================
