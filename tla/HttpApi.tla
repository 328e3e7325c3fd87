------------------------------- MODULE HttpApi -------------------------------
(***************************************************************************)
(* internal/httpapi: server.go and handlers.go, with recent.go as the      *)
(* component RecentStore.  Every request has a goroutine that runs observe *)
(* around the mux, withAuth and a handler.  What a goroutine does between  *)
(* two accesses to shared state (the service, the ring) is one step.  The  *)
(* service appears through its results; bodies, headers and pages through  *)
(* what the code tells apart.                                              *)
(***************************************************************************)
EXTENDS RecentStore, FiniteSets

CONSTANTS
    Handlers,       \* goroutines of net/http
    Requests,       \* [path, method, header, query, body] that clients send
    BearerToken,    \* bearerToken; Empty disables authentication
    MaxRequests     \* bound on the requests of a behaviour

VARIABLES
    pc,             \* where each goroutine is
    request,        \* the request it serves
    state,          \* its requestState and statusRecorder, and why (history)
    entry,          \* the RecentRequest it is about to add
    served,         \* how many requests came; their number names them
    answered        \* history: the business requests that were answered

vars == <<pc, request, state, entry, ring, served, answered>>

-----------------------------------------------------------------------------
(* The empty string: no token, no header, no note. *)
Empty == ""

BusinessPaths == {"/mfi/certificate", "/mfi/sign", "/mfi/reset"}
isBusinessPath(path) == path \in BusinessPaths

Routes == BusinessPaths \cup {"/debug/usb", "/healthz"}

methodOf(path) == IF path \in {"/mfi/sign", "/mfi/reset"} THEN "POST" ELSE "GET"

Bodies == {"valid", "invalid", "no_requestId", "no_challenge", "not_base64"}

(* What the service returns to Certificate and Sign; Reset cannot fail.     *)
InputErrors == {"ErrChallengeSize", "ErrRequestIDFormat", "ErrRequestIDReuse"}
ChipErrors == {"ErrChipBusy", "ErrChipMissing", "cancelled", "permission_denied",
               "device_busy", "timeout", "nack", "auth_failed", "invalid_data",
               "other"}

serviceErrorWithoutNote(error) ==
    [status |-> IF error \in InputErrors THEN 400 ELSE 503, note |-> Empty]

(* The switch in its order; the detail text is left out, a blank in a note  *)
(* is written _.                                                            *)
serviceErrorResponse(error) ==
    IF error \in InputErrors THEN [status |-> 400, note |-> "bad_request"]
    ELSE IF error = "ErrChipBusy" THEN [status |-> 503, note |-> "chip_busy"]
    ELSE IF error \in {"ErrChipMissing", "cancelled", "permission_denied",
                       "device_busy"}
         THEN [status |-> 503, note |-> "error"]
    ELSE [status |-> 500, note |-> "error"]

defaultNote(status) ==
    IF status = 401 THEN "unauthorized"
    ELSE IF status \in 400..499 THEN "bad_request"
    ELSE IF status >= 500 THEN "error" ELSE "ok"

(* status is 0 until WriteHeader; later calls of it are ignored. *)
NoState == [status |-> 0, note |-> Empty, why |-> Empty]
statusOrOK(status) == IF status = 0 THEN 200 ELSE status

Entry == [id: 1..MaxRequests, path: BusinessPaths,
          status: {200, 400, 401, 405, 500, 503},
          note: {"chip", "idempotent-hit", "noop", "chip_busy", "unauthorized",
                 "bad_request", "error"}]

ASSUME HttpAssumption == MaxRequests \in Nat /\ Entry \subseteq Entries

NoRequest == [path |-> Empty, method |-> Empty, header |-> Empty,
              query |-> Empty, body |-> Empty]
NoEntry == [id |-> 0, path |-> Empty, status |-> 0, note |-> Empty]

Init ==
    /\ pc = [p \in Handlers |-> "idle"]
    /\ request = [p \in Handlers |-> NoRequest]
    /\ state = [p \in Handlers |-> NoState]
    /\ entry = [p \in Handlers |-> NoEntry]
    /\ newRecentStore
    /\ served = 0
    /\ answered = {}

Goto(p, label) == pc' = [pc EXCEPT ![p] = label]
Unshared == UNCHANGED <<request, entry, ring, served>>

(* A handler writes its response and returns to observe. *)
Respond(p, status, note, why) ==
    /\ state' = [state EXCEPT ![p] =
                    [status |-> IF @.status = 0 THEN status ELSE @.status,
                     note |-> note, why |-> why]]
    /\ answered' = answered \cup (IF isBusinessPath(request[p].path)
                                  THEN {entry[p].id} ELSE {})
    /\ Goto(p, "observe")

(* The goroutine ends and its locals with it. *)
Finish(p) ==
    /\ Goto(p, "idle")
    /\ request' = [request EXCEPT ![p] = NoRequest]
    /\ state' = [state EXCEPT ![p] = NoState]
    /\ entry' = [entry EXCEPT ![p] = NoEntry]

Arrive(p, r) ==
    /\ pc[p] = "idle"
    /\ served < MaxRequests
    /\ served' = served + 1
    /\ request' = [request EXCEPT ![p] = r]
    /\ entry' = [entry EXCEPT ![p] = [NoEntry EXCEPT !.id = served + 1]]
    /\ Goto(p, "route")
    /\ UNCHANGED <<state, ring, answered>>

(* withAuth: a Bearer header (Empty when there is none), for /debug/usb    *)
(* also the token parameter.                                                *)
allowQueryToken(path) == path = "/debug/usb"

authorizedByEither(r) ==
    BearerToken = Empty \/ BearerToken \in {r.header, r.query}

authorized(r) ==
    \/ BearerToken = Empty
    \/ BearerToken = IF r.header = Empty /\ allowQueryToken(r.path) THEN r.query
                                                                ELSE r.header

needsAuth(path) == path \in Routes \ {"/healthz"}

Admitted(r) == r.path \in Routes /\ (needsAuth(r.path) => authorized(r))

(* The mux knows no such path; nobody leaves a note. *)
NotFound(p) ==
    /\ pc[p] = "route"
    /\ request[p].path \notin Routes
    /\ Respond(p, 404, Empty, "not_found")
    /\ Unshared

(* The order of the wrappers swapped: observe does not see the request. *)
UnauthorizedUnseen(p) ==
    /\ pc[p] = "route"
    /\ request[p].path \in Routes
    /\ ~Admitted(request[p])
    /\ answered' = answered \cup {entry[p].id}
    /\ Finish(p)
    /\ UNCHANGED <<ring, served>>

Unauthorized(p) ==
    /\ pc[p] = "route"
    /\ request[p].path \in Routes
    /\ ~Admitted(request[p])
    /\ Respond(p, 401, "unauthorized", "unauthorized")
    /\ Unshared

requireMethod(p) ==
    /\ pc[p] = "route"
    /\ Admitted(request[p])
    /\ request[p].method # methodOf(request[p].path)
    /\ Respond(p, 405, "bad_request", "method")
    /\ Unshared

(* decodeJSON and handleSign's checks; handleReset wants {}. *)
BadBody(p) ==
    /\ pc[p] = "route"
    /\ Admitted(request[p])
    /\ request[p].method = methodOf(request[p].path)
    /\ request[p].method = "POST"
    /\ request[p].body # "valid"
    /\ Respond(p, 400, "bad_request", "body")
    /\ Unshared

CallService(p) ==
    /\ pc[p] = "route"
    /\ Admitted(request[p])
    /\ request[p].method = methodOf(request[p].path)
    /\ request[p].method = "POST" => request[p].body = "valid"
    /\ Goto(p, "call")
    /\ UNCHANGED <<state, answered>>
    /\ Unshared

(* handleCertificate, handleSign: a fresh or a cached result.               *)
ServiceAnswers(p) ==
    /\ pc[p] = "call"
    /\ request[p].path \in {"/mfi/certificate", "/mfi/sign"}
    /\ \/ Respond(p, 200, "idempotent-hit", "cached")
       \/ Respond(p, 200, "chip", "fresh")
    /\ Unshared

(* What an error is about. *)
Cause(error) ==
    IF error \in InputErrors THEN "input"
    ELSE IF error = "ErrChipBusy" THEN "busy" ELSE "chip"

(* writeServiceError. *)
ServiceFails(p) ==
    /\ pc[p] = "call"
    /\ request[p].path \in {"/mfi/certificate", "/mfi/sign"}
    /\ \E error \in ChipErrors \cup
                    (IF request[p].path = "/mfi/sign" THEN InputErrors ELSE {}) :
           LET response == serviceErrorResponse(error)
           IN  Respond(p, response.status, response.note, Cause(error))
    /\ Unshared

handleReset(p) ==
    /\ pc[p] = "call"
    /\ request[p].path = "/mfi/reset"
    /\ Respond(p, 200, "noop", "noop")
    /\ Unshared

(* handleHealth and handleDebug always answer 200; the page shows the ring  *)
(* as it is then.  A page whose template fails before it writes sets no     *)
(* status.                                                                  *)
handlePage(p) ==
    /\ pc[p] = "call"
    /\ request[p].path \in {"/healthz", "/debug/usb"}
    /\ \/ Respond(p, 200, Empty, "page")
       \/ /\ request[p].path = "/debug/usb"
          /\ Respond(p, 0, Empty, "page")
    /\ Unshared

(* The rest of observe: the note, the log line (left out) and, for a        *)
(* business path, the entry, which add makes before it locks (its time and  *)
(* duration are left out).                                                  *)
ObserveOther(p) ==
    /\ pc[p] = "observe"
    /\ ~isBusinessPath(request[p].path)
    /\ Finish(p)
    /\ UNCHANGED <<ring, served, answered>>

ObserveBusiness(p) ==
    /\ pc[p] = "observe"
    /\ isBusinessPath(request[p].path)
    /\ entry' = [entry EXCEPT ![p] =
                    [id |-> @.id, path |-> request[p].path,
                     status |-> statusOrOK(state[p].status),
                     note |-> IF state[p].note = Empty THEN defaultNote(state[p].status)
                                                    ELSE state[p].note]]
    /\ Goto(p, "add")
    /\ UNCHANGED <<request, state, ring, served, answered>>

(* recentStore.add, under its mutex. *)
Add(p) ==
    /\ pc[p] = "add"
    /\ add(entry[p])
    /\ Finish(p)
    /\ UNCHANGED <<served, answered>>

Next ==
    \E p \in Handlers :
           \/ \E r \in Requests : Arrive(p, r)
           \/ NotFound(p)
           \/ Unauthorized(p)
           \/ requireMethod(p)
           \/ BadBody(p)
           \/ CallService(p)
           \/ ServiceAnswers(p)
           \/ ServiceFails(p)
           \/ handleReset(p)
           \/ handlePage(p)
           \/ ObserveOther(p)
           \/ ObserveBusiness(p)
           \/ Add(p)

Spec == Init /\ [][Next]_vars

-----------------------------------------------------------------------------
(* Properties *)

list == listNewestFirst

(* With a token configured, no request without it reaches a handler's       *)
(* service call: the business interface wants the header, the page also     *)
(* takes the parameter where there is no header, /healthz is open.          *)
UnauthorizedStaysOut ==
    \A p \in Handlers :
        LET r == request[p]
        IN  pc[p] = "call" /\ r.path # "/healthz" /\ BearerToken # Empty =>
                \/ r.header = BearerToken
                \/ r.path = "/debug/usb" /\ r.header = Empty /\ r.query = BearerToken

(* What is recorded says what happened to that request: the note is one of  *)
(* the documented ones, chip only for a fresh result, idempotent-hit only   *)
(* for a cached one, chip busy exactly for an expired wait, and note and    *)
(* status agree.                                                            *)
RecordsAreTruthful ==
    \A p \in Handlers : pc[p] = "add" =>
        LET e == entry[p]
            why == state[p].why
        IN  /\ e \in Entry
            /\ e.note = "chip" <=> why = "fresh"
            /\ e.note = "idempotent-hit" <=> why = "cached"
            /\ e.note = "chip_busy" <=> why = "busy"
            /\ e.note = "unauthorized" <=> e.status = 401
            /\ e.status = 200 <=> e.note \in {"chip", "idempotent-hit", "noop"}
            /\ e.note = "error" <=> why = "chip"
            /\ e.note = "error" => e.status >= 500
            /\ e.note = "bad_request" => e.status \in {400, 405}

(* Requests that finish together are each recorded once, whatever their     *)
(* outcome, and only business requests are: the list holds only requests    *)
(* that were answered and whose observe has returned, all of them as long   *)
(* as the ring has room, and then as many as it has room for.               *)
RecordedOnce ==
    LET adding == {entry[p].id : p \in {q \in Handlers : pc[q] \in {"observe", "add"}}}
        done == answered \ adding
        listed == {list[k].id : k \in DOMAIN list}
    IN  /\ Cardinality(listed) = Len(list)
        /\ listed \subseteq done
        /\ IF Cardinality(done) <= Capacity THEN listed = done
                                           ELSE Len(list) = Capacity

=============================================================================
