-------------------------------- MODULE Driver --------------------------------
(***************************************************************************)
(* internal/chip/driver.go: the MFi register protocol over an I2C          *)
(* transport that may fail any transaction.  One operation runs at a time  *)
(* (Service's gate).  A register read is a select transaction followed by  *)
(* a read transaction; retryIO repeats the pair, or a write, until it      *)
(* works or two seconds have passed; SignChallenge polls the status for    *)
(* three seconds.  The context is never done: Service passes it through    *)
(* WithoutCancel.                                                          *)
(*                                                                         *)
(* The chip is external.  It keeps the register last selected, the         *)
(* challenge registers and the state of its last authentication, and it    *)
(* loses all of it when it is plugged again.  A failed transaction may or  *)
(* may not have reached it.  The transport also reports success for a      *)
(* write whose status bytes never came (bulkReadAtMost's allowEmpty), so a *)
(* successful write may be lost too; "disturbed" counts those, and replugs, *)
(* during the operation in progress.                                       *)
(***************************************************************************)
EXTENDS Integers, Sequences

CONSTANTS
    Challenges,         \* what SignChallenge is called with
    ChallengeLen,       \* their lengths
    CertificateLens,    \* what the chip may report in register 0x30
    SignatureLen,       \* the length of its signatures
    RetryTicks,         \* ioRetryTimeout, in units of a sleep
    AuthTicks,          \* authTimeout, in the same unit
    TxTicks,            \* the longest that one transaction takes
    MaxDisturbed,       \* bound on lost writes and replugs per operation
    Nil

maxUint8 == 255
maxUint16 == 65535

ASSUME DriverAssumption ==
    /\ ChallengeLen \in [Challenges -> Nat]
    /\ CertificateLens \subseteq 0..maxUint16
    /\ SignatureLen \in 3..maxUint16     \* longer than a register read as a number
    /\ RetryTicks \in Nat
    /\ AuthTicks \in Nat
    /\ TxTicks \in Nat
    /\ MaxDisturbed \in Nat

VARIABLES
    op,             \* the operation in progress
    challenge,      \* its argument
    pc,             \* the register access it is at
    phase,          \* "select" or "read": the half of a register read
    now,            \* time since the operation started
    ioDeadline,     \* deadline of the current retryIO
    authDeadline,   \* deadline of the polling loop
    length,         \* the length that was read
    offset,         \* ReadCertificate's offset
    register,       \* ReadCertificate's register
    windows,        \* the windows copied into the certificate
    result,
    disturbed,      \* history, see above
    chip            \* the chip (external)

driver == <<op, challenge, pc, phase, now, ioDeadline, authDeadline, length,
            offset, register, windows, result>>
vars == <<driver, disturbed, chip>>

-----------------------------------------------------------------------------
(* The register map, and the two ways data crosses the wire *)

protocolMajorRegister == 2
errorRegister == 5
authControlStatusRegister == 16
responseLengthRegister == 17
responseDataRegister == 18
challengeLengthRegister == 32
challengeDataRegister == 33
certificateLengthRegister == 48
certificateDataRegister == 49
certificateWindowBytes == 128
maximumDataBytes == 65525
maximumChallengeBytes == 128
authSuccessStatus == 16

PutUint16(value) == <<value \div 256, value % 256>>
Uint16(bytes) == 256 * bytes[1] + bytes[2]

Min(a, b) == IF a < b THEN a ELSE b

Writes == {"writeLength", "writeData", "start"}
Reads == {"poll", "errorCode", "responseLength", "responseData", "major",
          "certificateLength", "window"}

(* The register an access names; only its low byte is sent (byte(register)). *)
Target ==
    (IF pc = "writeLength" THEN challengeLengthRegister
     ELSE IF pc = "writeData" THEN challengeDataRegister
     ELSE IF pc \in {"start", "poll"} THEN authControlStatusRegister
     ELSE IF pc = "errorCode" THEN errorRegister
     ELSE IF pc = "responseLength" THEN responseLengthRegister
     ELSE IF pc = "responseData" THEN responseDataRegister
     ELSE IF pc = "major" THEN protocolMajorRegister
     ELSE IF pc = "certificateLength" THEN certificateLengthRegister
     ELSE register) % 256

(* How many bytes a window has. *)
Count == Min(certificateWindowBytes, length - offset)

-----------------------------------------------------------------------------
(* The chip *)

PoweredUp(n) ==
    [selected |-> 0, challengeLen |-> 0, challenge |-> Nil, status |-> "idle",
     signature |-> Nil, certificateLen |-> n]

(* What a signature is made of: the first n bytes of a challenge. *)
Signature(c, n) == <<"signature", c, n>>

StatusByte == IF chip.status = "success" THEN authSuccessStatus ELSE 0

(* The bytes that a read of n bytes finds at the selected register: what is *)
(* there if n is its size, anything but that otherwise.                     *)
ChipBytes(n) ==
    IF chip.selected = authControlStatusRegister /\ n = 1 THEN <<StatusByte>>
    ELSE IF chip.selected = protocolMajorRegister /\ n = 1 THEN <<3>>
    ELSE IF chip.selected = errorRegister /\ n = 1 THEN <<6>>
    ELSE IF chip.selected = responseLengthRegister /\ n = 2
         THEN PutUint16(IF chip.signature = Nil THEN 0 ELSE SignatureLen)
    ELSE IF chip.selected = certificateLengthRegister /\ n = 2
         THEN PutUint16(chip.certificateLen)
    ELSE IF chip.selected = responseDataRegister /\ n = SignatureLen
            /\ chip.signature # Nil
         THEN chip.signature
    ELSE [i \in 1..Min(n, 2) |-> 0]

(* A write transaction reaches the chip: it selects the register and, if it *)
(* carries data, stores the data there.                                     *)
Apply ==
    chip' = [chip EXCEPT
        !.selected = Target,
        !.challengeLen = IF pc = "writeLength"
                         THEN Uint16(PutUint16(ChallengeLen[challenge])) ELSE @,
        !.challenge = IF pc = "writeData" THEN challenge ELSE @,
        !.status = IF pc = "start" THEN "running" ELSE @]

ChipFinishes ==
    /\ chip.status = "running"
    /\ \/ /\ chip.challenge # Nil
          /\ chip' = [chip EXCEPT !.status = "success", !.signature =
                         Signature(chip.challenge, chip.challengeLen)]
       \/ chip' = [chip EXCEPT !.status = "failed"]
    /\ UNCHANGED <<driver, disturbed>>

Disturb == disturbed < MaxDisturbed /\ disturbed' = disturbed + 1

(* The stick is plugged again, or another one instead, between two          *)
(* transactions.                                                            *)
Replug ==
    /\ \E n \in CertificateLens : chip' = PoweredUp(n)
    /\ IF op = "none" THEN UNCHANGED disturbed ELSE Disturb
    /\ UNCHANGED driver

Init ==
    /\ op = "none"
    /\ challenge = Nil
    /\ pc = "idle"
    /\ phase = "select"
    /\ now = 0
    /\ ioDeadline = 0
    /\ authDeadline = 0
    /\ length = 0
    /\ offset = 0
    /\ register = certificateDataRegister
    /\ windows = <<>>
    /\ result = <<"none">>
    /\ disturbed = 0
    /\ \E n \in CertificateLens : chip = PoweredUp(n)

-----------------------------------------------------------------------------
(* Control shared by the operations; t is the time it happens at. *)

(* The next register access begins: a new retryIO with its own deadline. *)
Enter(label, t) ==
    /\ pc' = label
    /\ phase' = "select"
    /\ now' = t
    /\ ioDeadline' = t + RetryTicks

Finish(value, t) ==
    /\ pc' = "returned"
    /\ result' = value
    /\ now' = t
    /\ UNCHANGED <<phase, ioDeadline>>

loop == <<length, offset, register, windows>>

(* The end of a pass through the polling loop: the deadline, then a sleep.  *)
PollAgain(t) ==
    IF t > authDeadline
    THEN Enter("errorCode", t)
    ELSE Enter("poll", t + 1)

(* The register access has failed for good. *)
GiveUp(error, t) ==
    \/ pc = "poll" /\ PollAgain(t) /\ UNCHANGED result
    \/ pc = "errorCode" /\ Finish(<<"auth_failed">>, t)
    \/ pc \notin {"poll", "errorCode"} /\ Finish(<<error>>, t)

(* retryIO after a failed transaction: the whole pair again, or give up.    *)
(* bestEffortErrorCode's read is not inside retryIO.                        *)
RetryForever(t) ==
    /\ Enter(pc, t + 1)
    /\ UNCHANGED result

RetryReadOnly(t) ==
    \/ /\ t > ioDeadline
       /\ GiveUp("transport", t)
    \/ /\ t <= ioDeadline
       /\ now' = t + 1
       /\ phase' = "read"
       /\ UNCHANGED <<pc, ioDeadline, result>>

Retry(t) ==
    \/ /\ t > ioDeadline \/ (pc = "errorCode" /\ phase = "read")
       /\ GiveUp("transport", t)
    \/ /\ t <= ioDeadline
       /\ ~(pc = "errorCode" /\ phase = "read")
       /\ now' = t + 1
       /\ phase' = "select"
       /\ UNCHANGED <<pc, ioDeadline, result>>

-----------------------------------------------------------------------------
(* Calls *)

Call(name, c, first) ==
    /\ pc = "idle"
    /\ op' = name
    /\ challenge' = c
    /\ Enter(first, 0)
    /\ UNCHANGED <<authDeadline, loop, result, disturbed, chip>>

ProtocolMajor == Call("major", Nil, "major")

ReadCertificate == Call("certificate", Nil, "certificateLength")

SignChallenge(c) ==
    \/ /\ ChallengeLen[c] \in 1..maximumChallengeBytes
       /\ Call("sign", c, "writeLength")
    \/ /\ ChallengeLen[c] \notin 1..maximumChallengeBytes
       /\ pc = "idle"
       /\ op' = "sign"
       /\ challenge' = c
       /\ Finish(<<"invalid_data">>, 0)
       /\ UNCHANGED <<authDeadline, loop, disturbed, chip>>

Return ==
    /\ pc = "returned"
    /\ op' = "none"
    /\ challenge' = Nil
    /\ pc' = "idle"
    /\ phase' = "select"
    /\ now' = 0
    /\ ioDeadline' = 0
    /\ authDeadline' = 0
    /\ length' = 0
    /\ offset' = 0
    /\ register' = certificateDataRegister
    /\ windows' = <<>>
    /\ result' = <<"none">>
    /\ disturbed' = 0
    /\ UNCHANGED chip

-----------------------------------------------------------------------------
(* Transactions.  Each takes up to TxTicks. *)

(* A write or a select that the transport reports as done. *)
Sent ==
    \/ Apply /\ UNCHANGED disturbed
    \/ Disturb /\ UNCHANGED chip

WriteOK(d) ==
    /\ pc \in Writes
    /\ Sent
    /\ \/ pc = "writeLength" /\ Enter("writeData", now + d) /\ UNCHANGED authDeadline
       \/ pc = "writeData" /\ Enter("start", now + d) /\ UNCHANGED authDeadline
       \/ /\ pc = "start"
          /\ Enter("poll", now + d + 1)
          /\ authDeadline' = now + d + 1 + AuthTicks
    /\ UNCHANGED <<op, challenge, loop, result>>

SelectOK(d) ==
    /\ pc \in Reads
    /\ phase = "select"
    /\ Sent
    /\ phase' = "read"
    /\ now' = now + d
    /\ UNCHANGED <<op, challenge, pc, ioDeadline, authDeadline, loop, result>>

(* A transaction that the transport reports as failed. *)
TransactionFails(d) ==
    /\ pc \in Writes \cup Reads
    /\ \/ Apply /\ (pc \in Writes \/ phase = "select")
       \/ UNCHANGED chip
    /\ Retry(now + d)
    /\ UNCHANGED <<op, challenge, authDeadline, loop, disturbed>>

(* An answer of the wrong length is invalid data and is not retried. *)
WrongLength(d) ==
    /\ pc \in Writes \cup Reads
    /\ \/ Apply /\ (pc \in Writes \/ phase = "select")
       \/ UNCHANGED chip
    /\ GiveUp("invalid_data", now + d)
    /\ UNCHANGED <<op, challenge, authDeadline, loop, disturbed>>

(* A read that brought what it asked for; below, what becomes of it. *)
ReadDone(label) ==
    /\ pc = label
    /\ phase = "read"
    /\ UNCHANGED <<op, challenge, authDeadline, disturbed, chip>>

WithMajor(d) ==
    /\ ReadDone("major")
    /\ Finish(<<"ok", ChipBytes(1)>>, now + d)
    /\ UNCHANGED loop

PollAcceptsAny(d) ==
    /\ ReadDone("poll")
    /\ Enter("responseLength", now + d)
    /\ UNCHANGED <<loop, result>>

WithStatus(d) ==
    /\ ReadDone("poll")
    /\ IF ChipBytes(1) = <<authSuccessStatus>>
       THEN Enter("responseLength", now + d)
       ELSE PollAgain(now + d)
    /\ UNCHANGED <<loop, result>>

WithErrorCode(d) ==
    /\ ReadDone("errorCode")
    /\ Finish(<<"auth_failed", ChipBytes(1)>>, now + d)
    /\ UNCHANGED loop

WithResponseLength(d) ==
    /\ ReadDone("responseLength")
    /\ length' = Uint16(ChipBytes(2))
    /\ IF length' \in 1..maximumDataBytes
       THEN Enter("responseData", now + d) /\ UNCHANGED result
       ELSE Finish(<<"invalid_data">>, now + d)
    /\ UNCHANGED <<offset, register, windows>>

WithResponse(d) ==
    /\ ReadDone("responseData")
    /\ Finish(<<"ok", ChipBytes(length)>>, now + d)
    /\ UNCHANGED loop

WithCertificateLength(d) ==
    /\ ReadDone("certificateLength")
    /\ length' = Uint16(ChipBytes(2))
    /\ IF length' \in 1..maximumDataBytes
       THEN Enter("window", now + d) /\ UNCHANGED result
       ELSE Finish(<<"invalid_data">>, now + d)
    /\ UNCHANGED <<offset, register, windows>>

(* Every window is taken for a full one. *)
WindowOverruns(d) ==
    /\ ReadDone("window")
    /\ windows' = Append(windows, <<chip.selected, offset, Count>>)
    /\ offset' = offset + certificateWindowBytes
    /\ register' = register + 1
    /\ UNCHANGED length
    /\ IF offset' < length
       THEN Enter("window", now + d) /\ UNCHANGED result
       ELSE Finish(<<"ok", windows'>>, now + d)

(* The register stays the first one. *)
WindowStays(d) ==
    /\ ReadDone("window")
    /\ windows' = Append(windows, <<chip.selected, offset, Count>>)
    /\ offset' = offset + Count
    /\ UNCHANGED <<register, length>>
    /\ IF offset' < length
       THEN Enter("window", now + d) /\ UNCHANGED result
       ELSE Finish(<<"ok", windows'>>, now + d)

(* A window: where it came from, where it is copied to and its size. *)
WithWindow(d) ==
    /\ ReadDone("window")
    /\ windows' = Append(windows, <<chip.selected, offset, Count>>)
    /\ offset' = offset + Count
    /\ register' = register + 1
    /\ UNCHANGED length
    /\ IF offset' < length
       THEN Enter("window", now + d) /\ UNCHANGED result
       ELSE Finish(<<"ok", windows'>>, now + d)

Step ==
    \/ \E d \in 0..TxTicks :
           \/ WriteOK(d)
           \/ SelectOK(d)
           \/ TransactionFails(d)
           \/ WrongLength(d)
           \/ WithMajor(d)
           \/ WithStatus(d)
           \/ WithErrorCode(d)
           \/ WithResponseLength(d)
           \/ WithResponse(d)
           \/ WithCertificateLength(d)
           \/ WithWindow(d)
    \/ Return

Next ==
    \/ Step
    \/ ProtocolMajor
    \/ ReadCertificate
    \/ \E c \in Challenges : SignChallenge(c)
    \/ ChipFinishes
    \/ Replug

Spec == Init /\ [][Next]_vars

-----------------------------------------------------------------------------
(* Properties *)

(* Type correctness; a certificate's windows never overrun its length. *)
TypeOK ==
    /\ op \in {"none", "sign", "certificate", "major"}
    /\ challenge \in Challenges \cup {Nil}
    /\ pc \in Writes \cup Reads \cup {"idle", "returned"}
    /\ phase \in {"select", "read"}
    /\ now \in Nat /\ ioDeadline \in Nat /\ authDeadline \in Nat
    /\ length \in 0..maxUint16
    /\ offset \in 0..length
    /\ register \in Nat
    /\ result[1] \in {"none", "ok", "transport", "invalid_data", "auth_failed"}
    /\ disturbed \in 0..MaxDisturbed
    /\ chip.selected \in 0..maxUint8

(* A read finds the register that was selected for it, whichever attempts   *)
(* of the pair failed before (docs/03: retries include select and read).    *)
ReadsWhatItSelected ==
    pc \in Reads /\ phase = "read" /\ disturbed = 0 => chip.selected = Target

(* A signature that SignChallenge returns was made for its challenge, never *)
(* left over from an earlier authentication, whatever was retried.  That    *)
(* needs a chip that was not disturbed: no write that reports success was   *)
(* lost and the stick was not replugged meanwhile; and the chip is taken to *)
(* clear its last status when it takes a start command, since authenticate  *)
(* believes the first success it reads.                                     *)
SignatureMatches ==
    op = "sign" /\ result[1] = "ok" /\ disturbed = 0 =>
        result[2] = Signature(challenge, ChallengeLen[challenge])

(* The windows of a certificate of n bytes. *)
CertificateWindows(n) ==
    [i \in 1 .. (n + certificateWindowBytes - 1) \div certificateWindowBytes |->
        LET start == (i - 1) * certificateWindowBytes
        IN  <<certificateDataRegister + i - 1, start,
              Min(certificateWindowBytes, n - start)>>]

(* A certificate that ReadCertificate returns consists of its windows, each *)
(* read from its own register, in order and without gaps (docs/03: decoded  *)
(* length 1..65525).                                                        *)
CertificateComplete ==
    op = "certificate" /\ result[1] = "ok" /\ disturbed = 0 =>
        result[2] = CertificateWindows(chip.certificateLen)

(* One retryIO, a whole signature, a whole certificate take at most this.   *)
WriteTime == RetryTicks + 1 + TxTicks
ReadTime == RetryTicks + 1 + 2 * TxTicks
SignTime == 3 * WriteTime + 1 + AuthTicks + 1 + 3 * ReadTime
CertificateTime == (Len(windows) + 2) * ReadTime

(* The chip's gate is held for a bounded time: no operation outlives the    *)
(* sum of its deadlines, although deadlines are only looked at between      *)
(* transactions and retryIO runs inside the polling loop.                   *)
WithinDeadlines ==
    /\ op = "sign" => now <= SignTime
    /\ op = "certificate" => now <= CertificateTime
    /\ op = "major" => now <= ReadTime

=============================================================================
