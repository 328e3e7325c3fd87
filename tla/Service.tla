------------------------------- MODULE Service -------------------------------
(***************************************************************************)
(* internal/biz/service.go: concurrent HTTP handler goroutines share one   *)
(* MFi chip through                                                        *)
(*   - chipGate: a one-slot channel (token) and a holder name that the     *)
(*     diagnostics page reads without taking the slot;                     *)
(*   - signatureCache: successful signatures by requestId, for TTL;        *)
(*   - certificate: an atomic pointer, set once per process.               *)
(* Both caches are looked up before waiting for the gate and again after   *)
(* it was obtained.  Every step below is one critical section, channel     *)
(* operation, atomic access or clock reading of a goroutine.               *)
(*                                                                         *)
(* The driver (internal/chip) appears through its interface: a call takes  *)
(* a while, fails with some error, or answers for the device attached at   *)
(* that moment.  SHA-256 is symbolic and injective.                        *)
(***************************************************************************)
EXTENDS Integers

CONSTANTS
    Callers,        \* goroutines that serve HTTP requests
    Prober,         \* the goroutine of main's probeChip
    RequestIDs,     \* requestId strings that clients send
    UUIDs,          \* those uuid.Parse accepts
    Challenges,     \* decoded challenges that clients send
    ChallengeLen,   \* their lengths in bytes
    Devices,        \* physical chips that may be plugged in
    Nil,            \* the nil pointer / no value
    TTL,            \* cacheTTL
    MaxTime,        \* bound on the clock
    MaxSignings     \* bound on the successful signings of a behaviour

ASSUME ServiceAssumption ==
    /\ Prober \notin Callers
    /\ UUIDs \subseteq RequestIDs
    /\ "" \notin UUIDs
    /\ ChallengeLen \in [Challenges -> Nat]
    /\ Nil \notin [major: Devices, data: Devices]
    /\ TTL \in Nat
    /\ MaxTime \in Nat
    /\ MaxSignings \in Nat

VARIABLES
    pc,             \* where each goroutine is
    call,           \* the request it serves
    local,          \* protocolMajor of Certificate, entry of Sign
    result,         \* what it returns
    token,          \* chipGate.token: the number of values in the channel
    holder,         \* chipGate.holder
    cache,          \* signatureCache.entries, a map
    certificate,    \* Service.certificate
    device,         \* the chip that is plugged in
    now,            \* the clock
    serial,         \* the number of successful signings so far
    signed          \* history: those signings

gate == <<token, holder>>
caches == <<cache, certificate>>
world == <<device, now>>
history == <<serial, signed>>
vars == <<pc, call, local, result, gate, caches, world, history>>

-----------------------------------------------------------------------------
(* Values *)

Procs == Callers \cup {Prober}

Request(kind) == [kind |-> kind, id |-> Nil, challenge |-> Nil]
Calls == [kind: {"sign"}, id: RequestIDs, challenge: Challenges]
    \cup [kind: {"none", "certificate", "probe"}, id: {Nil}, challenge: {Nil}]

(* crypto/sha256: equal digests exactly for equal challenges. *)
Sha256(challenge) == <<"sha256", challenge>>

(* Bytes the chip returns; serial tells two signings of one challenge apart. *)
Signatures == [challenge: Challenges, serial: Nat]

Entries == [challengeDigest: {Sha256(c) : c \in Challenges},
            signature: Signatures, expiresAt: Nat]

Certificates == [major: Devices, data: Devices]

DriverErrors == {"device_missing", "other"}
Errors == {"ErrRequestIDFormat", "ErrChallengeSize", "ErrRequestIDReuse",
           "ErrChipBusy", "ErrContext", "ErrChipMissing", "other"}

Results == [outcome: Errors \cup {"none"}, value: {Nil}, cached: {FALSE}]
    \cup [outcome: {"signature"}, value: Signatures, cached: BOOLEAN]
    \cup [outcome: {"certificate"}, value: Certificates, cached: BOOLEAN]
    \cup [outcome: {"major"}, value: Devices, cached: {FALSE}]

Failure(error) == [outcome |-> error, value |-> Nil, cached |-> FALSE]
Success(what, value, hit) == [outcome |-> what, value |-> value, cached |-> hit]

(* Statements that run inside a driver call; statements between the send to *)
(* the channel and the receive from it; those between the holder updates.   *)
InChip == {"sign", "major", "read"}
Named == {"recheck", "store", "clearHolder"} \cup InChip
InGate == {"setHolder", "receive"} \cup Named
Labels == {"idle", "lookup", "select", "returned"} \cup InGate

Init ==
    /\ pc = [p \in Procs |-> IF p = Prober THEN "select" ELSE "idle"]
    /\ call = [p \in Procs |-> Request(IF p = Prober THEN "probe" ELSE "none")]
    /\ local = [p \in Procs |-> Nil]
    /\ result = [p \in Procs |-> Failure("none")]
    /\ token = 0
    /\ holder = ""
    /\ cache = [id \in {} |-> Nil]
    /\ certificate = Nil
    /\ device \in Devices
    /\ now = 0
    /\ serial = 0
    /\ signed = {}

-----------------------------------------------------------------------------
(* Steps shared by the operations *)

Goto(p, label) == pc' = [pc EXCEPT ![p] = label]

(* A return statement; inside the gate the deferred release runs first.     *)
Return(p, value) ==
    /\ result' = [result EXCEPT ![p] = value]
    /\ Goto(p, IF pc[p] \in InGate THEN "clearHolder" ELSE "returned")

(* The handler (or probeChip) takes the result and the locals are gone.     *)
Deliver(p) ==
    /\ pc[p] = "returned"
    /\ Goto(p, "idle")
    /\ call' = [call EXCEPT ![p] = Request("none")]
    /\ local' = [local EXCEPT ![p] = Nil]
    /\ result' = [result EXCEPT ![p] = Failure("none")]
    /\ UNCHANGED <<gate, caches, world, history>>

normalizeNothing(error) == error

normalizeHardwareError(error) ==
    IF error = "device_missing" THEN "ErrChipMissing" ELSE error

-----------------------------------------------------------------------------
(* signatureCache *)

ExpiredEarly(entry) == now >= entry.expiresAt

(* time.Now().After(entry.expiresAt): valid at its last instant. *)
Expired(entry) == now > entry.expiresAt

Hit(id) == id \in DOMAIN cache /\ ~Expired(cache[id])

(* get deletes the entry it finds expired. *)
get(id) ==
    cache' = IF id \in DOMAIN cache /\ Expired(cache[id])
             THEN [k \in DOMAIN cache \ {id} |-> cache[k]]
             ELSE cache

put(id, entry) ==
    cache' = [k \in DOMAIN cache \cup {id} |-> IF k = id THEN entry ELSE cache[k]]

cachedResultUnchecked(entry, digest) ==
    Success("signature", entry.signature, TRUE)

cachedResult(entry, digest) ==
    IF entry.challengeDigest # digest
    THEN Failure("ErrRequestIDReuse")
    ELSE Success("signature", entry.signature, TRUE)

(* Sign's use of the cache, before and after the gate. *)
AnswerFromCache(p, miss) ==
    /\ call[p].kind = "sign"
    /\ get(call[p].id)
    /\ \/ /\ Hit(call[p].id)
          /\ Return(p, cachedResult(cache[call[p].id], Sha256(call[p].challenge)))
       \/ /\ ~Hit(call[p].id)
          /\ Goto(p, miss)
          /\ UNCHANGED result
    /\ UNCHANGED <<call, local, gate, certificate, world, history>>

-----------------------------------------------------------------------------
(* chipGate.acquire: one select over the channel, the timer and the context *)

holderName(c) ==
    IF c.kind = "sign" THEN c.id
    ELSE IF c.kind = "certificate" THEN "certificate" ELSE "startup-probe"

(* The channel was made with room for every goroutine. *)
SendTokenUnbounded(p) ==
    /\ pc[p] = "select"
    /\ token' = 1
    /\ Goto(p, "setHolder")
    /\ UNCHANGED <<call, local, result, holder, caches, world, history>>

SendToken(p) ==
    /\ pc[p] = "select"
    /\ token = 0
    /\ token' = token + 1
    /\ Goto(p, "setHolder")
    /\ UNCHANGED <<call, local, result, holder, caches, world, history>>

(* The timer fires or the context is done.  Either may also win against a   *)
(* free slot: select picks any ready case.                                  *)
WaitEnds(p, error) ==
    /\ pc[p] = "select"
    /\ Return(p, Failure(error))
    /\ UNCHANGED <<call, local, gate, caches, world, history>>

SetHolder(p) ==
    /\ pc[p] = "setHolder"
    /\ holder' = holderName(call[p])
    /\ Goto(p, IF call[p].kind = "probe" THEN "major" ELSE "recheck")
    /\ UNCHANGED <<call, local, result, token, caches, world, history>>

(* The slot is freed first and the name cleared afterwards, in a step of    *)
(* its own that another goroutine may come before.                          *)
ClearHolderLast(p) ==
    /\ pc[p] = "clearHolder"
    /\ \/ /\ token = 1 /\ token' = 0
          /\ UNCHANGED <<pc, holder>>
       \/ /\ token = 0 /\ holder' = ""
          /\ Goto(p, "returned")
          /\ UNCHANGED token
    /\ UNCHANGED <<call, local, result, caches, world, history>>

(* The slot is freed here already: the receive that follows finds none.     *)
ReleaseTwice(p) ==
    /\ pc[p] = "clearHolder"
    /\ holder' = ""
    /\ token' = 0
    /\ Goto(p, "receive")
    /\ UNCHANGED <<call, local, result, caches, world, history>>

(* The deferred release: the name goes first, then the slot. *)
ClearHolder(p) ==
    /\ pc[p] = "clearHolder"
    /\ holder' = ""
    /\ Goto(p, "receive")
    /\ UNCHANGED <<call, local, result, token, caches, world, history>>

ReceiveToken(p) ==
    /\ pc[p] = "receive"
    /\ token = 1
    /\ token' = token - 1
    /\ Goto(p, "returned")
    /\ UNCHANGED <<call, local, result, holder, caches, world, history>>

-----------------------------------------------------------------------------
(* Sign *)

CallSign(p, id, challenge) ==
    /\ p \in Callers
    /\ pc[p] = "idle"
    /\ call' = [call EXCEPT ![p] =
                   [kind |-> "sign", id |-> id, challenge |-> challenge]]
    /\ \/ /\ id \notin UUIDs
          /\ Return(p, Failure("ErrRequestIDFormat"))
       \/ /\ id \in UUIDs
          /\ ChallengeLen[challenge] \notin 1..128
          /\ Return(p, Failure("ErrChallengeSize"))
       \/ /\ id \in UUIDs
          /\ ChallengeLen[challenge] \in 1..128
          /\ Goto(p, "lookup")
          /\ UNCHANGED result
    /\ UNCHANGED <<local, gate, caches, world, history>>

SignLookup(p) == pc[p] = "lookup" /\ AnswerFromCache(p, "select")

NoSignRecheck(p) ==
    /\ pc[p] = "recheck"
    /\ call[p].kind = "sign"
    /\ Goto(p, "sign")
    /\ UNCHANGED <<call, local, result, gate, caches, world, history>>

SignRecheck(p) == pc[p] = "recheck" /\ AnswerFromCache(p, "sign")

(* The driver answers and entry.expiresAt is computed.  The driver's context *)
(* ignores the client's cancellation (WithoutCancel), so nothing stops it.   *)
SignAnswered(p) ==
    LET signature == [challenge |-> call[p].challenge, serial |-> serial]
    IN  /\ pc[p] = "sign"
        /\ serial < MaxSignings
        /\ serial' = serial + 1
        /\ signed' = signed \cup {[id |-> call[p].id, at |-> now,
                                   signature |-> signature]}
        /\ local' = [local EXCEPT ![p] =
                        [challengeDigest |-> Sha256(call[p].challenge),
                         signature |-> signature, expiresAt |-> now + TTL]]
        /\ Goto(p, "store")
        /\ UNCHANGED <<call, result, gate, caches, world>>

StoreEntry(p) ==
    /\ pc[p] = "store"
    /\ put(call[p].id, local[p])
    /\ Return(p, Success("signature", local[p].signature, FALSE))
    /\ UNCHANGED <<call, local, gate, certificate, world, history>>

(* An error return that skips the deferred release. *)
DriverFailsHoldingGate(p) ==
    /\ pc[p] \in InChip
    /\ result' = [result EXCEPT ![p] = Failure("other")]
    /\ Goto(p, "returned")
    /\ UNCHANGED <<call, local, gate, caches, world, history>>

DriverFails(p) ==
    /\ pc[p] \in InChip
    /\ \E error \in DriverErrors :
           Return(p, Failure(normalizeHardwareError(error)))
    /\ UNCHANGED <<call, local, gate, caches, world, history>>

-----------------------------------------------------------------------------
(* Certificate and Probe *)

CallCertificate(p) ==
    /\ p \in Callers
    /\ pc[p] = "idle"
    /\ call' = [call EXCEPT ![p] = Request("certificate")]
    /\ Goto(p, "lookup")
    /\ UNCHANGED <<local, result, gate, caches, world, history>>

LoadCertificate(p, miss) ==
    /\ call[p].kind = "certificate"
    /\ \/ /\ certificate # Nil
          /\ Return(p, Success("certificate", certificate, TRUE))
       \/ /\ certificate = Nil
          /\ Goto(p, miss)
          /\ UNCHANGED result
    /\ UNCHANGED <<call, local, gate, caches, world, history>>

CertificateLookup(p) == pc[p] = "lookup" /\ LoadCertificate(p, "select")

NoCertificateRecheck(p) ==
    /\ pc[p] = "recheck"
    /\ call[p].kind = "certificate"
    /\ Goto(p, "major")
    /\ UNCHANGED <<call, local, result, gate, caches, world, history>>

CertificateRecheck(p) == pc[p] = "recheck" /\ LoadCertificate(p, "major")

(* ProtocolMajor answers: Probe returns it, Certificate reads on. *)
MajorAnswered(p) ==
    /\ pc[p] = "major"
    /\ \/ /\ call[p].kind = "probe"
          /\ Return(p, Success("major", device, FALSE))
          /\ UNCHANGED local
       \/ /\ call[p].kind = "certificate"
          /\ local' = [local EXCEPT ![p] = device]
          /\ Goto(p, "read")
          /\ UNCHANGED result
    /\ UNCHANGED <<call, gate, caches, world, history>>

ReadAnswered(p) ==
    /\ pc[p] = "read"
    /\ certificate' = [major |-> local[p], data |-> device]
    /\ Return(p, Success("certificate", certificate', FALSE))
    /\ UNCHANGED <<call, local, gate, cache, world, history>>

(* A reset that drops the cached signatures. *)
ResetClears(p) ==
    /\ p \in Callers
    /\ pc[p] = "idle"
    /\ Return(p, Failure("none"))
    /\ cache' = [id \in {} |-> Nil]
    /\ UNCHANGED <<call, local, gate, certificate, world, history>>

(* Reset does nothing; POST /reset exists for compatibility. *)
Reset(p) ==
    /\ p \in Callers
    /\ pc[p] = "idle"
    /\ Return(p, Failure("none"))
    /\ UNCHANGED <<call, local, gate, caches, world, history>>

-----------------------------------------------------------------------------
(* Environment: time passes; the stick is replaced while the service runs. *)

Tick ==
    /\ now < MaxTime
    /\ now' = now + 1
    /\ UNCHANGED <<pc, call, local, result, gate, caches, device, history>>

SwapDevice ==
    /\ device' \in Devices \ {device}
    /\ UNCHANGED <<pc, call, local, result, gate, caches, now, history>>

-----------------------------------------------------------------------------
(* A step that goroutine p's own code takes once it was called. *)
Step(p) ==
    \/ SignLookup(p)
    \/ CertificateLookup(p)
    \/ SendToken(p)
    \/ WaitEnds(p, "ErrChipBusy")
    \/ WaitEnds(p, "ErrContext")
    \/ SetHolder(p)
    \/ SignRecheck(p)
    \/ CertificateRecheck(p)
    \/ SignAnswered(p)
    \/ StoreEntry(p)
    \/ MajorAnswered(p)
    \/ ReadAnswered(p)
    \/ DriverFails(p)
    \/ ClearHolder(p)
    \/ ReceiveToken(p)
    \/ Deliver(p)

NewRequest(p) ==
    \/ \E id \in RequestIDs, challenge \in Challenges : CallSign(p, id, challenge)
    \/ CallCertificate(p)
    \/ Reset(p)

Next ==
    \/ \E p \in Procs : NewRequest(p) \/ Step(p)
    \/ Tick
    \/ SwapDevice

Spec == Init /\ [][Next]_vars

(* The Go scheduler runs every runnable goroutine, acquire's timer fires    *)
(* and a driver call returns (its loops have deadlines); nothing obliges    *)
(* clients, the clock's next expiry or the stick to do anything.            *)
Fairness == \A p \in Procs : WF_vars(Step(p))

FairSpec == Spec /\ Fairness

-----------------------------------------------------------------------------
(* Properties *)

(* Type correctness of the service's state and of its goroutines' locals;   *)
(* results carry only normalised errors (normalizeHardwareError).           *)
TypeOK ==
    /\ pc \in [Procs -> Labels]
    /\ call \in [Procs -> Calls]
    /\ local \in [Procs -> Devices \cup Entries \cup {Nil}]
    /\ result \in [Procs -> Results]
    /\ token \in {0, 1}
    /\ holder \in {"", "certificate", "startup-probe"} \cup RequestIDs
    /\ DOMAIN cache \subseteq RequestIDs
    /\ cache \in [DOMAIN cache -> Entries]
    /\ certificate \in Certificates \cup {Nil}
    /\ device \in Devices
    /\ now \in Nat
    /\ serial \in Nat
    /\ signed \subseteq [id: RequestIDs, at: Nat, signature: Signatures]

(* Chip operations are strictly serialised: no two goroutines are in driver *)
(* calls at once, whichever waits expired or were cancelled (the certificate*)
(* sequence of two driver calls included).                                  *)
ChipExclusive ==
    \A p, q \in Procs : pc[p] \in InChip /\ pc[q] \in InChip => p = q

(* The channel's slot is full exactly while one goroutine is between its    *)
(* send and its receive: no return path leaks the slot or frees it twice.   *)
SlotAccounted ==
    /\ token = 1 <=> \E p \in Procs : pc[p] \in InGate
    /\ \A p, q \in Procs : pc[p] \in InGate /\ pc[q] \in InGate => p = q

(* The holder the diagnostics page shows is never that of a finished call:  *)
(* a name is shown only while its own goroutine has the chip, and a         *)
(* goroutine inside a driver call is always the one shown.                  *)
HolderTruthful ==
    /\ holder # "" => \E p \in Procs : pc[p] \in Named
    /\ \A p \in Procs : pc[p] \in Named => holder = holderName(call[p])

(* One requestId makes the chip sign at most once per cache lifetime,       *)
(* however many handlers carry it and however they interleave.              *)
SignedOncePerWindow ==
    \A s, t \in signed :
        s.id = t.id /\ s.at <= t.at /\ s # t => s.at + TTL < t.at

(* A signature the chip produced is in the cache for its whole lifetime,    *)
(* also when the client that asked for it had gone or somebody called       *)
(* reset; until it is there its goroutine still has the gate.               *)
SignedIsCached ==
    \A s \in signed :
        now <= s.at + TTL =>
            \/ /\ s.id \in DOMAIN cache
               /\ cache[s.id].signature = s.signature
               /\ cache[s.id].expiresAt = s.at + TTL
            \/ \E p \in Procs :
                   /\ pc[p] = "store"
                   /\ call[p].id = s.id
                   /\ local[p].signature = s.signature

(* Whoever gets a signature gets one made for its own challenge and its own *)
(* requestId: neither the cache nor the queue mixes up two clients.         *)
NoCrosstalk ==
    \A p \in Procs :
        result[p].outcome = "signature" =>
            /\ result[p].value.challenge = call[p].challenge
            /\ \E s \in signed :
                   s.id = call[p].id /\ s.signature = result[p].value

(* All clients see one certificate for the life of the process, even if the *)
(* chip was replaced in the middle of a read.                               *)
OneCertificate ==
    \A p \in Procs :
        result[p].outcome = "certificate" => result[p].value = certificate

(* Every request is answered: by the chip, a cache, the timer or an error.  *)
EveryCallReturns == \A p \in Procs : pc[p] # "idle" ~> pc[p] = "idle"

(* The gate is always given back, so a failed call never leaves all later   *)
(* ones waiting.                                                            *)
GateIsReleased == token = 1 ~> token = 0

=============================================================================
