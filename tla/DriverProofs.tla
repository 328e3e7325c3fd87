----------------------------- MODULE DriverProofs -----------------------------
(* What an operation of the driver returns and how long it takes, for all    *)
(* challenges, lengths, timeouts and failures of the transport.              *)
EXTENDS Driver, TLAPS

-----------------------------------------------------------------------------
(* Types, and which operation is where *)

Signatures == {Nil} \cup {Signature(c, n) : c \in Challenges \cup {Nil}, n \in Nat}

ChipStates ==
    [selected: 0..maxUint8, challengeLen: Nat, challenge: Challenges \cup {Nil},
     status: {"idle", "running", "success", "failed"}, signature: Signatures,
     certificateLen: CertificateLens]

SignSteps == Writes \cup {"poll", "errorCode", "responseLength", "responseData"}

(* Each operation goes through its own register accesses; it has a result   *)
(* when it returns; only ReadCertificate's loop moves the offset.           *)
FlowInv ==
    /\ pc = "idle" <=> op = "none"
    /\ pc \in SignSteps =>
           /\ op = "sign" /\ challenge \in Challenges
           /\ ChallengeLen[challenge] \in 1..maximumChallengeBytes
    /\ pc = "major" => op = "major"
    /\ pc \in {"certificateLength", "window"} => op = "certificate"
    /\ pc # "returned" => result = <<"none">>
    /\ pc \notin {"window", "returned"} =>
           offset = 0 /\ windows = <<>> /\ register = certificateDataRegister
    /\ pc = "window" => length \in 1..maximumDataBytes /\ offset < length
    /\ windows \in Seq(Nat \X Nat \X Nat)
    /\ pc \in Writes => phase = "select"

TypeInv == TypeOK /\ chip \in ChipStates /\ FlowInv

(* What becomes of a register access that fails: another attempt, another   *)
(* pass of the polling loop, or the end of the operation.                   *)
Again(t) ==
    /\ t <= ioDeadline
    /\ pc' = pc /\ phase' = "select" /\ now' = t + 1
    /\ UNCHANGED <<ioDeadline, result>>
NextPoll(t) == pc = "poll" /\ PollAgain(t) /\ UNCHANGED result
Failed(t) == \E e \in {"transport", "invalid_data", "auth_failed"} : Finish(<<e>>, t)

(* retryIO and its callers have no other outcome. *)
LEMMA FailureEffect ==
    ASSUME NEW t, NEW e \in {"transport", "invalid_data"}, Retry(t) \/ GiveUp(e, t)
    PROVE  Again(t) \/ NextPoll(t) \/ Failed(t)
<1>1. \A x \in {"transport", "invalid_data"} : GiveUp(x, t) => NextPoll(t) \/ Failed(t)
  BY DEF GiveUp, NextPoll, Failed
<1>2. Retry(t) => Again(t) \/ GiveUp("transport", t)
  BY DEF Retry, Again
<1> QED
  BY <1>1, <1>2

(* The widths and limits of the protocol. *)
LEMMA Limits ==
    /\ maxUint8 \in Nat /\ maxUint8 >= 255
    /\ maxUint16 \in Nat /\ maxUint16 >= 65535
    /\ maximumChallengeBytes \in Nat /\ maximumChallengeBytes <= maxUint16
    /\ maximumDataBytes \in Nat /\ maximumDataBytes <= maxUint16
BY DEF maxUint8, maxUint16, maximumChallengeBytes, maximumDataBytes

(* Register numbers are sent as bytes. *)
LEMMA TargetType == ASSUME TypeInv PROVE Target \in 0..maxUint8
<1>1. \A n \in Nat : n % 256 \in Nat /\ n % 256 <= 255
  BY Z3
<1>2. register \in Nat
  BY DEF TypeInv, TypeOK
<1>3. \E n \in Nat : Target = n % 256
  BY <1>2 DEF Target, challengeLengthRegister, challengeDataRegister,
     authControlStatusRegister, errorRegister, responseLengthRegister,
     responseDataRegister, protocolMajorRegister, certificateLengthRegister
<1> QED
  BY <1>1, <1>3, Limits

(* binary.BigEndian: reading what was written. *)
LEMMA RoundTrip == \A v \in 0..maxUint16 : Uint16(PutUint16(v)) = v
<1> SUFFICES ASSUME NEW v \in Nat PROVE Uint16(PutUint16(v)) = v
  BY Limits
<1>1. 256 * (v \div 256) + (v % 256) = v
  BY Z3
<1> QED
  BY <1>1 DEF Uint16, PutUint16

(* A length is a 16-bit number, whatever register was selected. *)
LEMMA LengthType == ASSUME TypeInv PROVE Uint16(ChipBytes(2)) \in 0..maxUint16
<1>1. chip.certificateLen \in 0..maxUint16 /\ SignatureLen \in 3..maxUint16
  BY DriverAssumption DEF TypeInv, ChipStates
<1>2. \E v \in 0..maxUint16 : Uint16(ChipBytes(2)) = Uint16(PutUint16(v))
  <2>1. CASE chip.selected = responseLengthRegister
    <3> DEFINE v == IF chip.signature = Nil THEN 0 ELSE SignatureLen
    <3>1. v \in 0..maxUint16
      BY <1>1, Limits
    <3>2. ChipBytes(2) = PutUint16(v)
      BY <2>1 DEF ChipBytes, responseLengthRegister, authControlStatusRegister,
         protocolMajorRegister, errorRegister
    <3> QED
      BY <3>1, <3>2
  <2>2. CASE chip.selected = certificateLengthRegister
    BY <1>1, <2>2 DEF ChipBytes, responseLengthRegister, authControlStatusRegister,
       protocolMajorRegister, errorRegister, certificateLengthRegister
  <2>3. CASE chip.selected \notin {responseLengthRegister, certificateLengthRegister}
    <3>1. ChipBytes(2) = [i \in 1..Min(2, 2) |-> 0]
      BY <1>1, <2>3 DEF ChipBytes
    <3>2. Uint16(ChipBytes(2)) = 0
      BY <3>1 DEF Uint16, Min
    <3>3. 0 \in 0..maxUint16
      BY Limits
    <3> QED
      BY <3>2, <3>3, RoundTrip
  <2> QED
    BY <2>1, <2>2, <2>3
<1> QED
  BY <1>2, RoundTrip

(* What a write transaction does to the chip, register by register. *)
LEMMA ApplyEffect ==
    ASSUME TypeInv, Apply
    PROVE  /\ chip' \in ChipStates
           /\ chip'.selected = Target
           /\ chip'.challengeLen = IF pc = "writeLength" THEN ChallengeLen[challenge]
                                                         ELSE chip.challengeLen
           /\ chip'.challenge = IF pc = "writeData" THEN challenge ELSE chip.challenge
           /\ chip'.status = IF pc = "start" THEN "running" ELSE chip.status
           /\ chip'.signature = chip.signature
           /\ chip'.certificateLen = chip.certificateLen
<1>1. Target \in 0..maxUint8
  BY TargetType
<1>2. pc = "writeLength" =>
          /\ ChallengeLen[challenge] \in Nat
          /\ Uint16(PutUint16(ChallengeLen[challenge])) = ChallengeLen[challenge]
  <2>1. pc = "writeLength" => ChallengeLen[challenge] \in 0..maxUint16
    BY Limits DEF TypeInv, FlowInv, SignSteps, Writes
  <2>2. pc = "writeLength" => ChallengeLen[challenge] \in Nat
    BY <2>1, Limits
  <2> QED
    BY <2>1, <2>2, RoundTrip
<1>3. chip \in ChipStates /\ challenge \in Challenges \cup {Nil}
  BY DEF TypeInv, TypeOK
<1> HIDE DEF TypeInv
<1>4. /\ chip'.selected = Target
      /\ chip'.challengeLen = IF pc = "writeLength" THEN ChallengeLen[challenge]
                                                    ELSE chip.challengeLen
      /\ chip'.challenge = IF pc = "writeData" THEN challenge ELSE chip.challenge
      /\ chip'.status = IF pc = "start" THEN "running" ELSE chip.status
      /\ chip'.signature = chip.signature
      /\ chip'.certificateLen = chip.certificateLen
  BY <1>2, <1>3 DEF Apply, ChipStates
<1>5. chip' \in ChipStates
  BY <1>1, <1>2, <1>3 DEF Apply, ChipStates
<1> QED
  BY <1>4, <1>5

(* Nothing runs at first. *)
LEMMA InitType == Init => TypeInv
<1> SUFFICES ASSUME Init PROVE TypeInv
  OBVIOUS
<1>1. chip \in ChipStates /\ chip.selected \in 0..maxUint8
  BY Limits DEF Init, PoweredUp, ChipStates, Signatures
<1>2. TypeOK
  BY <1>1, Limits, DriverAssumption DEF Init, TypeOK, certificateDataRegister
<1>3. FlowInv
  BY DEF Init, FlowInv, SignSteps, Writes
<1> QED
  BY <1>1, <1>2, <1>3 DEF TypeInv

(* A call starts with its first register access. *)
LEMMA CallType ==
    ASSUME TypeInv,
           ProtocolMajor \/ ReadCertificate \/ \E c \in Challenges : SignChallenge(c)
    PROVE  TypeInv'
<1>1. UNCHANGED <<authDeadline, length, offset, register, windows, disturbed, chip>>
  BY DEF ProtocolMajor, ReadCertificate, SignChallenge, Call, loop
<1>2. pc = "idle" /\ offset = 0 /\ windows = <<>>
      /\ windows \in Seq(Nat \X Nat \X Nat)
      /\ register = certificateDataRegister /\ result = <<"none">>
  BY DEF ProtocolMajor, ReadCertificate, SignChallenge, Call, TypeInv, FlowInv
<1>3. RetryTicks \in Nat
  BY DriverAssumption
<1>4. now' \in Nat /\ ioDeadline' \in Nat /\ phase' \in {"select", "read"}
  BY <1>3 DEF ProtocolMajor, ReadCertificate, SignChallenge, Call, Enter, Finish,
     TypeInv, TypeOK
<1>5. CASE ProtocolMajor \/ ReadCertificate
  BY <1>1, <1>2, <1>4, <1>5 DEF ProtocolMajor, ReadCertificate, Call, Enter, TypeInv,
     TypeOK, FlowInv, SignSteps, Writes, Reads
<1>6. CASE \E c \in Challenges : SignChallenge(c)
  BY <1>1, <1>2, <1>4, <1>6 DEF SignChallenge, Call, Enter, Finish, TypeInv,
     TypeOK, FlowInv, SignSteps, Writes, Reads
<1> QED
  BY <1>5, <1>6

(* The operation returns and its locals are gone. *)
LEMMA ReturnType ==
    ASSUME TypeInv, Return
    PROVE  TypeInv'
BY DriverAssumption, Limits DEF Return, TypeInv, TypeOK, FlowInv, SignSteps, Writes,
   certificateDataRegister

(* The chip by itself. *)
LEMMA ChipType ==
    ASSUME TypeInv, ChipFinishes \/ Replug
    PROVE  TypeInv'
<1>1. UNCHANGED driver
  BY DEF ChipFinishes, Replug
<1>2. disturbed' \in 0..MaxDisturbed
  BY DriverAssumption DEF ChipFinishes, Replug, Disturb, TypeInv, TypeOK
<1>3. chip' \in ChipStates
  <2>1. CASE ChipFinishes
    <3>1. Signature(chip.challenge, chip.challengeLen) \in Signatures
      BY DEF TypeInv, ChipStates, Signatures
    <3> QED
      BY <2>1, <3>1 DEF ChipFinishes, TypeInv, ChipStates
  <2>2. CASE Replug
    BY <2>2, Limits DEF Replug, PoweredUp, ChipStates, Signatures
  <2> QED
    BY <2>1, <2>2
<1>4. chip'.selected \in 0..maxUint8
  BY <1>3 DEF ChipStates
<1> QED
  BY <1>1, <1>2, <1>3, <1>4 DEF driver, TypeInv, TypeOK, FlowInv

(* A write or a select leaves the chip well formed. *)
LEMMA SentType ==
    ASSUME TypeInv, Sent
    PROVE  /\ chip' \in ChipStates /\ chip'.selected \in 0..maxUint8
           /\ disturbed' \in 0..MaxDisturbed
<1>1. chip' \in ChipStates
  BY ApplyEffect DEF Sent, TypeInv
<1>2. disturbed' \in 0..MaxDisturbed
  BY DriverAssumption DEF Sent, Disturb, TypeInv, TypeOK
<1> QED
  BY <1>1, <1>2 DEF ChipStates

(* A successful write, or a register selected. *)
LEMMA WriteType ==
    ASSUME TypeInv, NEW d \in 0..TxTicks, WriteOK(d) \/ SelectOK(d)
    PROVE  TypeInv'
<1>1. /\ chip' \in ChipStates /\ chip'.selected \in 0..maxUint8
      /\ disturbed' \in 0..MaxDisturbed
  BY SentType DEF WriteOK, SelectOK
<1>2. UNCHANGED <<op, challenge, length, offset, register, windows, result>>
  BY DEF WriteOK, SelectOK, loop
<1>3. now' \in Nat /\ ioDeadline' \in Nat /\ authDeadline' \in Nat
  BY DriverAssumption DEF WriteOK, SelectOK, Enter, TypeInv, TypeOK
<1>4. /\ phase' \in {"select", "read"}
      /\ \/ pc' = pc
         \/ pc \in SignSteps /\ pc' \in {"writeData", "start", "poll"}
  BY DEF WriteOK, SelectOK, Enter, SignSteps, Writes
<1>5. TypeOK'
  BY <1>1, <1>2, <1>3, <1>4 DEF TypeInv, TypeOK, Writes, Reads
<1>6. pc' \in Writes => phase' = "select"
  BY DEF WriteOK, SelectOK, Enter, Writes, Reads
<1>7. FlowInv'
  BY <1>2, <1>4, <1>6 DEF TypeInv, FlowInv, SignSteps, Writes
<1> QED
  BY <1>1, <1>5, <1>7 DEF TypeInv

(* A failed transaction. *)
LEMMA FailType ==
    ASSUME TypeInv, NEW d \in 0..TxTicks, TransactionFails(d) \/ WrongLength(d)
    PROVE  TypeInv'
<1>1. chip' \in ChipStates /\ chip'.selected \in 0..maxUint8
  <2>1. chip' \in ChipStates
    BY ApplyEffect DEF TransactionFails, WrongLength, TypeInv
  <2> QED
    BY <2>1 DEF ChipStates
<1>2. UNCHANGED <<op, challenge, authDeadline, length, offset, register, windows,
                  disturbed>>
  BY DEF TransactionFails, WrongLength, loop
<1>3. Again(now + d) \/ NextPoll(now + d) \/ Failed(now + d)
  BY FailureEffect DEF TransactionFails, WrongLength
<1>4. pc \in Writes \cup Reads /\ now + d \in Nat /\ RetryTicks \in Nat
  BY DriverAssumption DEF TransactionFails, WrongLength, TypeInv, TypeOK
<1>5. now' \in Nat /\ ioDeadline' \in Nat /\ phase' \in {"select", "read"}
  BY <1>3, <1>4 DEF Again, NextPoll, Failed, PollAgain, Enter, Finish, TypeInv, TypeOK
<1>6. \/ pc' = pc /\ result' = result
      \/ pc = "poll" /\ pc' \in {"poll", "errorCode"} /\ result' = result
      \/ pc' = "returned" /\ result'[1] \in {"transport", "invalid_data", "auth_failed"}
  BY <1>3 DEF Again, NextPoll, Failed, PollAgain, Enter, Finish
<1>7. TypeOK'
  BY <1>1, <1>2, <1>5, <1>6 DEF TypeInv, TypeOK, Writes, Reads
<1>8. pc' \in Writes => phase' = "select"
  BY <1>3 DEF Again, NextPoll, Failed, PollAgain, Enter, Finish, Writes
<1>9. FlowInv'
  BY <1>2, <1>4, <1>6, <1>8 DEF TypeInv, FlowInv, SignSteps, Writes, Reads
<1> QED
  BY <1>1, <1>7, <1>9 DEF TypeInv

(* The steps that take what a read brought. *)
TakesData(d) ==
    \/ WithMajor(d) \/ WithStatus(d) \/ WithErrorCode(d) \/ WithResponseLength(d)
    \/ WithResponse(d) \/ WithCertificateLength(d) \/ WithWindow(d)

(* A window is not empty and fits. *)
LEMMA CountFits ==
    ASSUME TypeInv, pc = "window"
    PROVE  Count \in 1..128 /\ offset + Count \in 0..length
BY Limits DEF TypeInv, TypeOK, FlowInv, Count, Min, certificateWindowBytes

(* Data that was read. *)
LEMMA DataType ==
    ASSUME TypeInv, NEW d \in 0..TxTicks, TakesData(d)
    PROVE  TypeInv'
<1>1. phase = "read" /\ UNCHANGED <<op, challenge, authDeadline, disturbed, chip>>
  BY DEF TakesData, WithMajor, WithStatus, WithErrorCode, WithResponseLength,
     WithResponse, WithCertificateLength, WithWindow, ReadDone
<1>2. now + d \in Nat /\ RetryTicks \in Nat
  BY DriverAssumption DEF TypeInv, TypeOK
<1>3. now' \in Nat /\ ioDeadline' \in Nat /\ phase' \in {"select", "read"}
  BY <1>2 DEF TakesData, WithMajor, WithStatus, WithErrorCode, WithResponseLength,
     WithResponse, WithCertificateLength, WithWindow, PollAgain, Enter, Finish,
     TypeInv, TypeOK
<1>4. CASE WithMajor(d) \/ WithErrorCode(d) \/ WithResponse(d)
  <2>1. /\ UNCHANGED <<length, offset, register, windows>> /\ pc' = "returned"
        /\ result'[1] \in {"ok", "auth_failed"}
        /\ pc \in {"major", "errorCode", "responseData"}
    BY <1>4 DEF WithMajor, WithErrorCode, WithResponse, Finish, loop, ReadDone
  <2> QED
    BY <1>1, <1>3, <2>1 DEF TypeInv, TypeOK, FlowInv, SignSteps, Writes, Reads
<1>5. CASE WithStatus(d)
  <2>1. /\ UNCHANGED <<length, offset, register, windows, result>>
        /\ pc = "poll" /\ pc' \in {"poll", "errorCode", "responseLength"}
    BY <1>5 DEF WithStatus, PollAgain, Enter, loop, ReadDone
  <2> QED
    BY <1>1, <1>3, <2>1 DEF TypeInv, TypeOK, FlowInv, SignSteps, Writes, Reads
<1>6. CASE WithResponseLength(d) \/ WithCertificateLength(d)
  <2>1. length' \in 0..maxUint16
    BY <1>6, LengthType DEF WithResponseLength, WithCertificateLength
  <2>2. /\ UNCHANGED <<offset, register, windows>>
        /\ \/ pc' = "returned" /\ result' = <<"invalid_data">>
           \/ /\ result' = result /\ length' \in 1..maximumDataBytes
              /\ \/ pc = "responseLength" /\ pc' = "responseData"
                 \/ pc = "certificateLength" /\ pc' = "window"
        /\ pc \in {"responseLength", "certificateLength"}
    BY <1>6 DEF WithResponseLength, WithCertificateLength, Enter, Finish, ReadDone
  <2>3. offset = 0
    BY <2>2 DEF TypeInv, FlowInv
  <2>4. pc' = "window" => offset' < length'
    BY <2>2, <2>3, Limits
  <2>5. offset' \in 0..length'
    BY <2>1, <2>2, <2>3, Limits
  <2>6. TypeOK'
    BY <1>1, <1>3, <2>1, <2>2, <2>5 DEF TypeInv, TypeOK, Writes, Reads
  <2>7. FlowInv'
    BY <1>1, <2>2, <2>4 DEF TypeInv, FlowInv, SignSteps, Writes
  <2> QED
    BY <1>1, <2>6, <2>7 DEF TypeInv
<1>7. CASE WithWindow(d)
  <2>1. /\ pc = "window" /\ offset' = offset + Count /\ register' = register + 1
        /\ length' = length
    BY <1>7 DEF WithWindow, ReadDone
  <2>2. \/ pc' = "returned" /\ result'[1] = "ok"
        \/ pc' = "window" /\ result' = result /\ offset' < length
    BY <1>7 DEF WithWindow, Enter, Finish
  <2>3. offset' \in 0..length
    BY <2>1, CountFits
  <2>4. TypeOK'
    BY <1>1, <1>3, <2>1, <2>2, <2>3 DEF TypeInv, TypeOK, Writes, Reads
  <2>5. windows' \in Seq(Nat \X Nat \X Nat)
    <3>1. <<chip.selected, offset, Count>> \in Nat \X Nat \X Nat
      BY <2>1, CountFits, Limits DEF TypeInv, TypeOK
    <3> QED
      BY <1>7, <3>1 DEF WithWindow, TypeInv, FlowInv
  <2>6. FlowInv'
    BY <1>1, <2>1, <2>2, <2>5 DEF TypeInv, FlowInv, SignSteps, Writes
  <2> QED
    BY <1>1, <2>4, <2>6 DEF TypeInv
<1> QED
  BY <1>4, <1>5, <1>6, <1>7 DEF TakesData

(* The types hold in every behaviour. *)
LEMMA Typed == Spec => []TypeInv
<1>1. TypeInv /\ [Next]_vars => TypeInv'
  <2> SUFFICES ASSUME TypeInv, [Next]_vars PROVE TypeInv'
    OBVIOUS
  <2>1. CASE UNCHANGED vars
    BY <2>1 DEF vars, driver, TypeInv, TypeOK, FlowInv
  <2>2. CASE Step
    BY <2>2, WriteType, FailType, DataType, ReturnType DEF Step, TakesData
  <2> QED
    BY <2>1, <2>2, CallType, ChipType DEF Next
<1> QED
  BY <1>1, InitType, PTL DEF Spec

(* The state is well typed and the windows of a certificate never overrun   *)
(* its length, for all lengths that the chip may report (ReadCertificate).  *)
THEOREM TypeCorrect == Spec => []TypeOK
BY Typed, PTL DEF TypeInv

-----------------------------------------------------------------------------
(* Select and read *)

(* A step that reads leaves the chip alone; every other one that ends with  *)
(* a read to come has just selected the register for it.                    *)
LEMMA StepSelects ==
    ASSUME TypeInv, ReadsWhatItSelected, Next
    PROVE  ReadsWhatItSelected'
<1>1. SUFFICES ASSUME pc' \in Reads, phase' = "read", disturbed' = 0
               PROVE  chip'.selected = Target'
  BY <1>1 DEF ReadsWhatItSelected
<1>2. CASE \E d \in 0..TxTicks : SelectOK(d)
  <2>1. pc' = pc /\ register' = register /\ Sent
    BY <1>2 DEF SelectOK, loop
  <2>2. Apply
    BY <1>1, <2>1 DEF Sent, Disturb, TypeInv, TypeOK
  <2> QED
    BY <2>1, <2>2, ApplyEffect DEF Target
<1>3. CASE ChipFinishes
  <2>1. UNCHANGED <<pc, phase, register, disturbed>> /\ chip'.selected = chip.selected
    BY <1>3 DEF ChipFinishes, driver, TypeInv, ChipStates
  <2> QED
    BY <1>1, <2>1 DEF ReadsWhatItSelected, Target
<1>4. CASE Replug
  <2>1. op = "none"
    BY <1>1, <1>4 DEF Replug, Disturb, TypeInv, TypeOK
  <2>2. pc = "idle" /\ pc' = pc
    BY <1>4, <2>1 DEF Replug, driver, TypeInv, FlowInv
  <2> QED
    BY <1>1, <2>2 DEF Reads
<1>5. CASE ~ChipFinishes /\ ~Replug /\ \A d \in 0..TxTicks : ~SelectOK(d)
  <2>1. ASSUME NEW d \in 0..TxTicks, TransactionFails(d) \/ WrongLength(d)
        PROVE  phase' = "select" \/ pc' = "returned"
    BY <2>1, FailureEffect DEF TransactionFails, WrongLength, Again, NextPoll, Failed,
       PollAgain, Enter, Finish
  <2>2. ASSUME NEW d \in 0..TxTicks, TakesData(d) \/ WriteOK(d)
        PROVE  phase' = "select" \/ pc' = "returned"
    BY <2>2 DEF TakesData, WithMajor, WithStatus, WithErrorCode, WithResponseLength,
       WithResponse, WithCertificateLength, WithWindow, WriteOK, PollAgain, Enter,
       Finish
  <2>3. Return \/ ProtocolMajor \/ ReadCertificate
            \/ (\E c \in Challenges : SignChallenge(c))
        => phase' = "select" \/ pc' = "returned"
    BY DEF Return, ProtocolMajor, ReadCertificate, SignChallenge, Call, Enter, Finish
  <2>4. phase' = "select" \/ pc' = "returned"
    BY <1>5, <2>1, <2>2, <2>3 DEF Next, Step, TakesData
  <2> QED
    BY <1>1, <2>4 DEF Reads
<1> QED
  BY <1>2, <1>3, <1>4, <1>5

(* The selection holds in every behaviour. *)
LEMMA Selected == Spec => [](TypeInv /\ ReadsWhatItSelected)
<1>1. Init => ReadsWhatItSelected
  BY DEF Init, ReadsWhatItSelected, Reads
<1>2. TypeInv /\ ReadsWhatItSelected /\ [Next]_vars => ReadsWhatItSelected'
  <2>1. UNCHANGED vars /\ ReadsWhatItSelected => ReadsWhatItSelected'
    BY DEF vars, driver, ReadsWhatItSelected, Target
  <2> QED
    BY <2>1, StepSelects
<1> QED
  BY <1>1, <1>2, Typed, PTL DEF Spec

(* readRegister: however often the pair of select and read was retried, a   *)
(* read finds the register that was selected for it.                        *)
THEOREM ReadsTheRegister == Spec => []ReadsWhatItSelected
BY Selected, PTL

(* The registers, as numbers on the wire. *)
LEMMA Targets ==
    /\ pc = "poll" => Target = authControlStatusRegister
    /\ pc = "responseLength" => Target = responseLengthRegister
    /\ pc = "responseData" => Target = responseDataRegister
    /\ pc = "certificateLength" => Target = certificateLengthRegister
    /\ pc = "window" => Target = register % 256
BY Z3 DEF Target, authControlStatusRegister, responseLengthRegister,
   responseDataRegister, certificateLengthRegister

-----------------------------------------------------------------------------
(* Signatures *)

AuthSteps == {"poll", "responseLength", "responseData"}
Expected == Signature(challenge, ChallengeLen[challenge])

(* As long as nothing was lost, the chip holds what SignChallenge has       *)
(* written so far, and once it was started, any success it reports is the   *)
(* success of this challenge.                                               *)
SignInv ==
    op = "sign" /\ disturbed = 0 =>
        /\ pc \in {"writeData", "start"} \cup AuthSteps =>
               chip.challengeLen = ChallengeLen[challenge]
        /\ pc \in {"start"} \cup AuthSteps => chip.challenge = challenge
        /\ pc \in AuthSteps /\ chip.status = "success" => chip.signature = Expected
        /\ pc \in {"responseLength", "responseData"} => chip.status = "success"
        /\ pc = "responseData" => length = SignatureLen /\ chip.signature # Nil
        /\ result[1] = "ok" => result[2] = Expected

(* What the reads of SignChallenge bring. *)
LEMMA SignReads ==
    ASSUME TypeInv, ReadsWhatItSelected, SignInv, disturbed = 0, phase = "read"
    PROVE  /\ pc = "poll" /\ ChipBytes(1) = <<authSuccessStatus>> =>
                  chip.status = "success"
           /\ pc = "responseLength" /\ Uint16(ChipBytes(2)) # 0 =>
                  Uint16(ChipBytes(2)) = SignatureLen /\ chip.signature # Nil
           /\ pc = "responseData" => ChipBytes(length) = Expected
<1>1. pc \in {"poll", "responseLength", "responseData"} => chip.selected = Target
  BY DEF ReadsWhatItSelected, Reads
<1>2. pc = "poll" /\ ChipBytes(1) = <<authSuccessStatus>> => chip.status = "success"
  BY <1>1, Targets DEF ChipBytes, StatusByte, authSuccessStatus
<1>3. pc = "responseLength" /\ Uint16(ChipBytes(2)) # 0 =>
          Uint16(ChipBytes(2)) = SignatureLen /\ chip.signature # Nil
  <2> DEFINE v == IF chip.signature = Nil THEN 0 ELSE SignatureLen
  <2>1. pc = "responseLength" => ChipBytes(2) = PutUint16(v)
    BY <1>1, Targets DEF ChipBytes, authControlStatusRegister, responseLengthRegister,
       protocolMajorRegister, errorRegister
  <2>2. v \in 0..maxUint16
    BY DriverAssumption, Limits
  <2>3. Uint16(PutUint16(v)) = v
    BY <2>2, RoundTrip
  <2> QED
    BY <2>1, <2>3
<1>4. pc = "responseData" => ChipBytes(length) = Expected
  <2> SUFFICES ASSUME pc = "responseData" PROVE ChipBytes(length) = Expected
    OBVIOUS
  <2>1. op = "sign"
    BY DEF TypeInv, FlowInv, SignSteps
  <2>2. length = SignatureLen /\ chip.signature # Nil /\ chip.signature = Expected
    BY <2>1 DEF SignInv, AuthSteps
  <2>3. chip.selected = responseDataRegister
    BY <1>1, Targets
  <2> QED
    BY <2>2, <2>3, DriverAssumption DEF ChipBytes, authControlStatusRegister,
       responseLengthRegister, protocolMajorRegister, errorRegister,
       certificateLengthRegister, responseDataRegister
<1> QED
  BY <1>2, <1>3, <1>4

(* Every step keeps the challenge, the authentication and its signature     *)
(* together.                                                                *)
LEMMA StepSign ==
    ASSUME TypeInv, ReadsWhatItSelected, SignInv, Next
    PROVE  SignInv'
<1>1. SUFFICES ASSUME op' = "sign", disturbed' = 0 PROVE SignInv'
  BY <1>1 DEF SignInv
<1>2. CASE \E d \in 0..TxTicks : WriteOK(d) \/ SelectOK(d)
  <2>1. PICK d \in 0..TxTicks : WriteOK(d) \/ SelectOK(d)
    BY <1>2
  <2>2. UNCHANGED <<op, challenge, length, result>> /\ Sent
    BY <2>1 DEF WriteOK, SelectOK, loop
  <2>3. Apply /\ disturbed = 0
    BY <1>1, <2>2 DEF Sent, Disturb, TypeInv, TypeOK
  <2>4. \/ pc' = pc /\ pc \notin Writes
        \/ pc = "writeLength" /\ pc' = "writeData"
        \/ pc = "writeData" /\ pc' = "start"
        \/ pc = "start" /\ pc' = "poll"
    BY <2>1 DEF WriteOK, SelectOK, Enter, Writes, Reads
  <2> QED
    BY <1>1, <2>2, <2>3, <2>4, ApplyEffect DEF SignInv, AuthSteps, Expected, Writes
<1>3. CASE \E d \in 0..TxTicks : TransactionFails(d) \/ WrongLength(d)
  <2>1. PICK d \in 0..TxTicks : TransactionFails(d) \/ WrongLength(d)
    BY <1>3
  <2>2. UNCHANGED <<op, challenge, length, disturbed>> /\ (Apply \/ UNCHANGED chip)
    BY <2>1 DEF TransactionFails, WrongLength, loop
  <2>3. \/ pc' = pc /\ result' = result
        \/ pc = "poll" /\ pc' \in {"poll", "errorCode"} /\ result' = result
        \/ pc' = "returned" /\ result'[1] # "ok"
    BY <2>1, FailureEffect DEF TransactionFails, WrongLength, Again, NextPoll, Failed,
       PollAgain, Enter, Finish
  <2> QED
    BY <1>1, <2>2, <2>3, ApplyEffect DEF SignInv, AuthSteps, Expected
<1>4. CASE \E d \in 0..TxTicks : TakesData(d)
  <2>1. PICK d \in 0..TxTicks : TakesData(d)
    BY <1>4
  <2>2. phase = "read" /\ UNCHANGED <<op, challenge, disturbed, chip>>
    BY <2>1 DEF TakesData, WithMajor, WithStatus, WithErrorCode, WithResponseLength,
       WithResponse, WithCertificateLength, WithWindow, ReadDone
  <2>3. /\ op = "sign" /\ disturbed = 0 /\ Expected' = Expected
        /\ pc \in SignSteps \cup {"returned"}
    BY <1>1, <2>2 DEF TypeInv, TypeOK, FlowInv, SignSteps, Writes, Reads, Expected
  <2>4. CASE WithStatus(d)
    <3>1. /\ pc = "poll" /\ result' = result
          /\ \/ pc' \in {"poll", "errorCode"}
             \/ pc' = "responseLength" /\ ChipBytes(1) = <<authSuccessStatus>>
      BY <2>4 DEF WithStatus, PollAgain, Enter, ReadDone
    <3> QED
      BY <2>2, <2>3, <3>1, SignReads DEF SignInv, AuthSteps
  <2>5. CASE WithErrorCode(d)
    <3>1. pc' = "returned" /\ result'[1] # "ok"
      BY <2>5 DEF WithErrorCode, Finish
    <3> QED
      BY <3>1 DEF SignInv, AuthSteps
  <2>6. CASE WithResponseLength(d)
    <3>1. /\ pc = "responseLength" /\ length' = Uint16(ChipBytes(2))
          /\ \/ pc' = "returned" /\ result' = <<"invalid_data">>
             \/ /\ pc' = "responseData" /\ result' = result
                /\ length' \in 1..maximumDataBytes
      BY <2>6 DEF WithResponseLength, Enter, Finish, ReadDone
    <3>2. pc' = "responseData" => length' # 0
      BY <3>1, Limits
    <3> QED
      BY <2>2, <2>3, <3>1, <3>2, SignReads DEF SignInv, AuthSteps
  <2>7. CASE WithResponse(d)
    <3>1. pc = "responseData" /\ pc' = "returned" /\ result' = <<"ok", ChipBytes(length)>>
      BY <2>7 DEF WithResponse, Finish, ReadDone
    <3> QED
      BY <2>2, <2>3, <3>1, SignReads DEF SignInv, AuthSteps
  <2>8. CASE WithMajor(d) \/ WithCertificateLength(d) \/ WithWindow(d)
    BY <2>3, <2>8 DEF WithMajor, WithCertificateLength, WithWindow, ReadDone, TypeInv,
       FlowInv, SignSteps, Writes
  <2> QED
    BY <2>1, <2>4, <2>5, <2>6, <2>7, <2>8 DEF TakesData
<1>5. CASE ProtocolMajor \/ ReadCertificate \/ \E c \in Challenges : SignChallenge(c)
  <2>1. /\ pc' \in {"writeLength", "returned"}
        /\ result' \in {<<"none">>, <<"invalid_data">>}
    BY <1>1, <1>5 DEF ProtocolMajor, ReadCertificate, SignChallenge, Call, Enter,
       Finish, TypeInv, FlowInv
  <2>2. result'[1] # "ok"
    BY <2>1
  <2> QED
    BY <2>1, <2>2 DEF SignInv, AuthSteps
<1>6. CASE ChipFinishes
  <2>1. UNCHANGED <<op, challenge, pc, length, result, disturbed>>
    BY <1>6 DEF ChipFinishes, driver
  <2>2. /\ chip.status = "running"
        /\ chip'.challengeLen = chip.challengeLen /\ chip'.challenge = chip.challenge
        /\ chip'.status = "success" =>
               chip'.signature = Signature(chip.challenge, chip.challengeLen)
    BY <1>6 DEF ChipFinishes, TypeInv, ChipStates
  <2> QED
    BY <1>1, <2>1, <2>2 DEF SignInv, AuthSteps, Expected
<1>7. CASE Return \/ Replug
  BY <1>1, <1>7 DEF Return, Replug, Disturb, driver, TypeInv, TypeOK
<1> QED
  BY <1>2, <1>3, <1>4, <1>5, <1>6, <1>7 DEF Next, Step, TakesData

(* SignChallenge: however often its accesses were retried and whatever an   *)
(* earlier authentication left behind, a signature it returns was made for  *)
(* its challenge, unless the transport lost a write it called successful or *)
(* the chip was plugged again.                                              *)
THEOREM SignaturesMatch == Spec => []SignatureMatches
<1>1. Init => SignInv
  BY DEF Init, SignInv
<1>2. TypeInv /\ ReadsWhatItSelected /\ SignInv /\ [Next]_vars => SignInv'
  <2>1. UNCHANGED vars /\ SignInv => SignInv'
    BY DEF vars, driver, SignInv, Expected
  <2> QED
    BY <2>1, StepSign
<1>3. SignInv => SignatureMatches
  BY DEF SignInv, SignatureMatches, Expected
<1> QED
  BY <1>1, <1>2, <1>3, Selected, PTL DEF Spec

-----------------------------------------------------------------------------
(* Deadlines *)

Accesses == Writes \cup Reads
Polling == {"poll", "errorCode", "responseLength", "responseData"}

(* The latest time at which a register access of the operation begins. *)
LatestAt(label, deadline, k) ==
    IF label = "writeData" THEN WriteTime
    ELSE IF label = "start" THEN 2 * WriteTime
    ELSE IF label = "poll" THEN deadline + 1
    ELSE IF label \in {"errorCode", "responseLength"} THEN deadline + 1 + ReadTime
    ELSE IF label = "responseData" THEN deadline + 1 + 2 * ReadTime
    ELSE IF label = "window" THEN (k + 1) * ReadTime
    ELSE 0

Latest == LatestAt(pc, authDeadline, Len(windows))

(* retryIO's deadline counts from the start of the access; an attempt       *)
(* begins at most one sleep after it and its read one transaction later.    *)
TimeInv ==
    /\ pc \in Accesses =>
           /\ ioDeadline <= Latest + RetryTicks
           /\ now <= ioDeadline + 1 + (IF phase = "read" THEN TxTicks ELSE 0)
    /\ pc \in Polling => authDeadline <= 3 * WriteTime + 1 + AuthTicks
    /\ pc = "returned" => WithinDeadlines

(* The units of the bounds. *)
LEMMA Times ==
    /\ RetryTicks \in Nat /\ AuthTicks \in Nat /\ TxTicks \in Nat
    /\ WriteTime \in Nat /\ WriteTime = RetryTicks + 1 + TxTicks
    /\ ReadTime \in Nat /\ ReadTime = RetryTicks + 1 + 2 * TxTicks
BY DriverAssumption DEF WriteTime, ReadTime

(* Products with the number of windows, which the solver takes as they are. *)
LEMMA OneMore ==
    ASSUME NEW k \in Nat, NEW r \in Nat
    PROVE  k * r \in Nat /\ (k + 1) * r = k * r + r
BY Z3

(* The bounds on the start of an access are times. *)
LEMMA LatestType ==
    ASSUME NEW label, NEW deadline \in Nat, NEW k \in Nat
    PROVE  LatestAt(label, deadline, k) \in Nat
<1>1. (k + 1) * ReadTime \in Nat
  BY OneMore, Times
<1> QED
  BY <1>1, Times DEF LatestAt

(* Both of the operation that is running. *)
LEMMA LatestIsTime ==
    ASSUME TypeInv
    PROVE  authDeadline \in Nat /\ Len(windows) \in Nat /\ Latest \in Nat
<1>1. authDeadline \in Nat /\ Len(windows) \in Nat
  BY DEF TypeInv, TypeOK, FlowInv
<1> QED
  BY <1>1, LatestType DEF Latest

(* When a transaction of the access ends. *)
LEMMA AccessEnds ==
    ASSUME TypeInv, TimeInv, NEW d \in 0..TxTicks, pc \in Accesses
    PROVE  /\ now + d \in Nat
           /\ pc \in Writes => now + d <= Latest + WriteTime
           /\ pc \in Reads => now + d <= Latest + ReadTime
<1>1. now \in Nat /\ ioDeadline \in Nat /\ d \in Nat /\ d <= TxTicks
  BY Times DEF TypeInv, TypeOK
<1>2. pc \in Writes => phase = "select"
  BY DEF TypeInv, FlowInv
<1> QED
  BY <1>1, <1>2, Times, LatestIsTime DEF TimeInv

(* An access that ends in time ends the operation in time. *)
LEMMA EndsInTime ==
    ASSUME TypeInv, TimeInv, pc \in Accesses, NEW t \in Nat,
           pc \in Writes => t <= Latest + WriteTime,
           pc \in Reads => t <= Latest + ReadTime
    PROVE  /\ op = "sign" => t <= SignTime
           /\ op = "certificate" => t <= CertificateTime
           /\ op = "major" => t <= ReadTime
<1>1. op = "sign" => t <= SignTime
  <2> SUFFICES ASSUME op = "sign" PROVE t <= SignTime
    OBVIOUS
  <2>1. pc \in Writes \cup Polling
    BY DEF TypeInv, TypeOK, FlowInv, Accesses, SignSteps, Writes, Reads, Polling
  <2>2. authDeadline \in Nat
    BY LatestIsTime
  <2>3. CASE pc \in Writes
    <3>1. Latest \in {0, WriteTime, 2 * WriteTime}
      BY <2>3 DEF Latest, LatestAt, Writes
    <3>2. t <= 3 * WriteTime
      BY <2>3, <3>1, Times
    <3> QED
      BY <3>2, Times DEF SignTime
  <2>4. CASE pc \in Polling
    <3>1. authDeadline <= 3 * WriteTime + 1 + AuthTicks
      BY <2>4 DEF TimeInv
    <3>2. Latest \in {authDeadline + 1, authDeadline + 1 + ReadTime,
                      authDeadline + 1 + 2 * ReadTime}
      BY <2>4 DEF Latest, LatestAt, Polling
    <3>3. t <= Latest + ReadTime
      BY <2>4 DEF Polling, Reads
    <3>4. t <= authDeadline + 1 + 3 * ReadTime
      BY <2>2, <3>2, <3>3, Times
    <3> QED
      BY <2>2, <3>1, <3>4, Times DEF SignTime
  <2> QED
    BY <2>1, <2>3, <2>4
<1>2. op = "certificate" => t <= CertificateTime
  <2> SUFFICES ASSUME op = "certificate" PROVE t <= CertificateTime
    OBVIOUS
  <2>1. pc \in {"certificateLength", "window"} /\ pc \in Reads
    BY DEF TypeInv, TypeOK, FlowInv, Accesses, SignSteps, Writes, Reads
  <2> DEFINE k == Len(windows)
             r == (k + 1) * ReadTime
  <2>2. k \in Nat
    BY LatestIsTime
  <2>3. r \in Nat /\ ((k + 1) + 1) * ReadTime = r + ReadTime
    BY <2>2, OneMore, Times
  <2>4. CertificateTime = r + ReadTime
    BY <2>2, <2>3 DEF CertificateTime
  <2>5. Latest = 0 \/ Latest = r
    BY <2>1 DEF Latest, LatestAt
  <2>6. t <= Latest + ReadTime
    BY <2>1
  <2> HIDE DEF k, r
  <2> QED
    BY <2>3, <2>4, <2>5, <2>6, Times
<1>3. op = "major" => t <= ReadTime
  <2> SUFFICES ASSUME op = "major" PROVE t <= ReadTime
    OBVIOUS
  <2>1. pc = "major" /\ pc \in Reads
    BY DEF TypeInv, TypeOK, FlowInv, Accesses, SignSteps, Writes, Reads
  <2>2. Latest = 0
    BY <2>1 DEF Latest, LatestAt
  <2> QED
    BY <2>1, <2>2, Times
<1> QED
  BY <1>1, <1>2, <1>3

(* A new access begins in time and has all of its deadline. *)
LEMMA BeginsInTime ==
    ASSUME TypeInv', NEW t \in Nat, NEW label \in Accesses, Enter(label, t),
           t <= LatestAt(label, authDeadline', Len(windows')),
           label \in Polling => authDeadline' <= 3 * WriteTime + 1 + AuthTicks
    PROVE  TimeInv'
<1>1. pc' = label /\ phase' = "select" /\ now' = t /\ ioDeadline' = t + RetryTicks
  BY DEF Enter
<1>2. label # "returned"
  BY DEF Accesses, Writes, Reads
<1>3. Latest' = LatestAt(label, authDeadline', Len(windows'))
  BY <1>1 DEF Latest
<1>4. Latest' \in Nat
  <2>1. authDeadline' \in Nat /\ Len(windows') \in Nat
    BY DEF TypeInv, TypeOK, FlowInv
  <2> QED
    BY <1>3, <2>1, LatestType
<1>5. ioDeadline' <= Latest' + RetryTicks /\ now' <= ioDeadline' + 1
  BY <1>1, <1>3, <1>4, Times
<1>6. pc' \in Polling => authDeadline' <= 3 * WriteTime + 1 + AuthTicks
  BY <1>1
<1>7. now' <= ioDeadline' + 1 + (IF phase' = "read" THEN TxTicks ELSE 0)
  BY <1>1, <1>5, Times
<1> QED
  BY <1>1, <1>2, <1>5, <1>6, <1>7 DEF TimeInv, WriteTime

(* An operation that returns after an access returns in time. *)
LEMMA ReturnsInTime ==
    ASSUME TypeInv, TimeInv, pc \in Accesses, NEW d \in 0..TxTicks, NEW value,
           Finish(value, now + d), op' = op,
           Len(windows') = Len(windows) \/ Len(windows') = Len(windows) + 1
    PROVE  TimeInv'
<1> DEFINE t == now + d
<1>1. pc' = "returned" /\ now' = t
  BY DEF Finish
<1>2. /\ t \in Nat
      /\ op = "sign" => t <= SignTime
      /\ op = "certificate" => t <= CertificateTime
      /\ op = "major" => t <= ReadTime
  BY AccessEnds, EndsInTime
<1>3. CertificateTime <= (Len(windows') + 2) * ReadTime
  <2>1. Len(windows) \in Nat
    BY LatestIsTime
  <2> DEFINE k == Len(windows) + 2
  <2>2. k \in Nat /\ (Len(windows') + 2 = k \/ Len(windows') + 2 = k + 1)
    BY <2>1
  <2>3. CertificateTime = k * ReadTime
    BY DEF CertificateTime
  <2> HIDE DEF k
  <2>4. k * ReadTime \in Nat /\ (k + 1) * ReadTime = k * ReadTime + ReadTime
    BY <2>2, OneMore, Times
  <2> DEFINE r == k * ReadTime
  <2>5. r <= r + ReadTime
    BY <2>4, Times
  <2> QED
    BY <2>2, <2>3, <2>4, <2>5
<1> HIDE DEF t
<1>4. op = "certificate" => t <= (Len(windows') + 2) * ReadTime
  <2>1. CertificateTime \in Nat /\ (Len(windows') + 2) * ReadTime \in Nat
    <3>1. Len(windows) + 2 \in Nat /\ Len(windows') + 2 \in Nat
      BY LatestIsTime
    <3> QED
      BY <3>1, OneMore, Times DEF CertificateTime
  <2> DEFINE r == (Len(windows') + 2) * ReadTime
  <2> HIDE DEF r
  <2> SUFFICES op = "certificate" => t <= r
    BY DEF r
  <2>2. r \in Nat /\ CertificateTime <= r
    BY <1>3, <2>1 DEF r
  <2> QED
    BY <1>2, <2>1, <2>2
<1>5. WithinDeadlines'
  BY <1>1, <1>2, <1>4 DEF WithinDeadlines, SignTime, CertificateTime, ReadTime,
     WriteTime
<1> QED
  BY <1>1, <1>5 DEF TimeInv, Accesses, Writes, Reads, Polling

(* The polling loop goes on. *)
LEMMA PollTime ==
    ASSUME TypeInv, TypeInv', TimeInv, pc = "poll", authDeadline' = authDeadline,
           NEW t \in Nat, t <= Latest + ReadTime, PollAgain(t)
    PROVE  TimeInv'
<1>1. authDeadline \in Nat /\ authDeadline' <= 3 * WriteTime + 1 + AuthTicks
  BY LatestIsTime DEF TimeInv, Polling
<1>2. CASE t > authDeadline
  <2>1. Enter("errorCode", t)
    BY <1>2 DEF PollAgain
  <2>2. t <= LatestAt("errorCode", authDeadline', Len(windows'))
    BY <1>1, Times DEF Latest, LatestAt
  <2> QED
    BY <1>1, <2>1, <2>2, BeginsInTime DEF Accesses, Reads
<1>3. CASE ~(t > authDeadline)
  <2>1. Enter("poll", t + 1)
    BY <1>3 DEF PollAgain
  <2>2. t + 1 \in Nat /\ t + 1 <= LatestAt("poll", authDeadline', Len(windows'))
    BY <1>1, <1>3 DEF LatestAt
  <2> QED
    BY <1>1, <2>1, <2>2, BeginsInTime DEF Accesses, Reads
<1> QED
  BY <1>2, <1>3

(* An access that fails. *)
LEMMA FailureTime ==
    ASSUME TypeInv, TypeInv', TimeInv, NEW d \in 0..TxTicks,
           TransactionFails(d) \/ WrongLength(d)
    PROVE  TimeInv'
<1> DEFINE t == now + d
<1>1. pc \in Accesses /\ UNCHANGED <<op, authDeadline, windows>>
  BY DEF TransactionFails, WrongLength, Accesses, loop
<1>2. /\ t \in Nat
      /\ pc \in Writes => t <= Latest + WriteTime
      /\ pc \in Reads => t <= Latest + ReadTime
  BY <1>1, AccessEnds
<1>3. Again(t) \/ NextPoll(t) \/ Failed(t)
  BY FailureEffect DEF TransactionFails, WrongLength
<1>4. CASE Again(t)
  <2> HIDE DEF t
  <2>1. Latest' = Latest /\ pc' = pc /\ phase' = "select" /\ ioDeadline' = ioDeadline
        /\ now' = t + 1 /\ t <= ioDeadline
    BY <1>1, <1>4 DEF Again, Latest
  <2>2. pc # "returned"
    BY <1>1 DEF Accesses, Writes, Reads
  <2>3. now' <= ioDeadline' + 1
    BY <1>2, <2>1 DEF TypeInv, TypeOK
  <2>4. now' <= ioDeadline' + 1 + (IF phase' = "read" THEN TxTicks ELSE 0)
    BY <2>1, <2>3 DEF TypeInv, TypeOK
  <2>5. ioDeadline' <= Latest' + RetryTicks
    BY <1>1, <2>1 DEF TimeInv
  <2>6. pc' \in Polling => authDeadline' <= 3 * WriteTime + 1 + AuthTicks
    BY <1>1, <2>1 DEF TimeInv
  <2> QED
    BY <2>1, <2>2, <2>4, <2>5, <2>6 DEF TimeInv, WriteTime
<1>5. CASE NextPoll(t)
  BY <1>1, <1>2, <1>5, PollTime DEF NextPoll, Reads
<1>6. CASE Failed(t)
  BY <1>1, <1>6, ReturnsInTime DEF Failed
<1> QED
  BY <1>3, <1>4, <1>5, <1>6

(* An access that works; a finished write or read leads to the next access  *)
(* or to the end of the operation.                                          *)
LEMMA SuccessTime ==
    ASSUME TypeInv, TypeInv', TimeInv, NEW d \in 0..TxTicks,
           WriteOK(d) \/ SelectOK(d) \/ TakesData(d)
    PROVE  TimeInv'
<1> DEFINE t == now + d
<1>1. pc \in Accesses
  BY DEF WriteOK, SelectOK, TakesData, WithMajor, WithStatus, WithErrorCode,
     WithResponseLength, WithResponse, WithCertificateLength, WithWindow, ReadDone,
     Accesses, Writes, Reads
<1>2. /\ t \in Nat
      /\ pc \in Writes => t <= Latest + WriteTime
      /\ pc \in Reads => t <= Latest + ReadTime
  BY <1>1, AccessEnds
<1>3. /\ authDeadline \in Nat /\ Len(windows) \in Nat
      /\ pc \in Polling => authDeadline <= 3 * WriteTime + 1 + AuthTicks
  BY LatestIsTime DEF TimeInv
<1>4. CASE WriteOK(d)
  <2>1. UNCHANGED <<op, windows>> /\ pc \in Writes
    BY <1>4 DEF WriteOK, loop
  <2>2. CASE pc = "writeLength"
    <3>1. Enter("writeData", t) /\ authDeadline' = authDeadline
      BY <1>4, <2>2 DEF WriteOK
    <3>2. t <= LatestAt("writeData", authDeadline', Len(windows'))
      BY <1>2, <2>1, <2>2, Times DEF Latest, LatestAt
    <3> HIDE DEF t
    <3> QED
      BY <1>2, <3>1, <3>2, BeginsInTime DEF Accesses, Writes, Polling
  <2>3. CASE pc = "writeData"
    <3>1. Enter("start", t) /\ authDeadline' = authDeadline
      BY <1>4, <2>3 DEF WriteOK
    <3>2. t <= LatestAt("start", authDeadline', Len(windows'))
      BY <1>2, <2>1, <2>3, Times DEF Latest, LatestAt
    <3> HIDE DEF t
    <3> QED
      BY <1>2, <3>1, <3>2, BeginsInTime DEF Accesses, Writes, Polling
  <2>4. CASE pc = "start"
    <3>1. Enter("poll", t + 1) /\ authDeadline' = t + 1 + AuthTicks
      BY <1>4, <2>4 DEF WriteOK
    <3>2. t <= 3 * WriteTime
      BY <1>2, <2>1, <2>4, Times DEF Latest, LatestAt
    <3> HIDE DEF t
    <3>3. authDeadline' <= 3 * WriteTime + 1 + AuthTicks /\ t + 1 \in Nat
      BY <1>2, <3>1, <3>2, Times
    <3>4. t + 1 <= LatestAt("poll", authDeadline', Len(windows'))
      BY <1>2, <3>1, Times DEF LatestAt
    <3> QED
      BY <3>1, <3>3, <3>4, BeginsInTime DEF Accesses, Reads
  <2> QED
    BY <2>1, <2>2, <2>3, <2>4 DEF Writes
<1>5. CASE SelectOK(d)
  <2>1. /\ UNCHANGED <<op, pc, ioDeadline, authDeadline, windows>>
        /\ phase = "select" /\ phase' = "read" /\ now' = now + d /\ pc \in Reads
    BY <1>5 DEF SelectOK, loop
  <2>2. now \in Nat /\ ioDeadline \in Nat /\ d \in Nat /\ d <= TxTicks
    BY Times DEF TypeInv, TypeOK
  <2>3. now <= ioDeadline + 1 /\ ioDeadline <= Latest + RetryTicks
    BY <1>1, <2>1, <2>2 DEF TimeInv
  <2>4. now' <= ioDeadline' + 1 + TxTicks
    BY <2>1, <2>2, <2>3, Times
  <2>5. Latest' = Latest /\ pc' # "returned"
    BY <2>1 DEF Latest, Reads
  <2> QED
    BY <1>3, <2>1, <2>3, <2>4, <2>5 DEF TimeInv, WriteTime
<1>6. CASE WithMajor(d) \/ WithErrorCode(d) \/ WithResponse(d)
  <2>1. UNCHANGED <<op, windows>> /\ \E v : Finish(v, now + d)
    BY <1>6 DEF WithMajor, WithErrorCode, WithResponse, ReadDone, loop
  <2> QED
    BY <1>1, <2>1, ReturnsInTime
<1>7. CASE WithStatus(d)
  <2>1. UNCHANGED <<op, authDeadline, windows>> /\ pc = "poll"
    BY <1>7 DEF WithStatus, ReadDone, loop
  <2>2. CASE Enter("responseLength", t)
    <3>1. t <= LatestAt("responseLength", authDeadline', Len(windows'))
      BY <1>2, <1>3, <2>1, Times DEF Latest, LatestAt, Reads
    <3>2. authDeadline' <= 3 * WriteTime + 1 + AuthTicks
      BY <1>3, <2>1 DEF Polling
    <3> HIDE DEF t
    <3> QED
      BY <1>2, <2>2, <3>1, <3>2, BeginsInTime DEF Accesses, Reads
  <2>3. CASE PollAgain(t)
    BY <1>2, <2>1, <2>3, PollTime DEF Reads
  <2> QED
    BY <1>7, <2>2, <2>3 DEF WithStatus
<1>8. CASE WithResponseLength(d)
  <2>1. UNCHANGED <<op, authDeadline, windows>> /\ pc = "responseLength"
    BY <1>8 DEF WithResponseLength, ReadDone
  <2>2. CASE Enter("responseData", t)
    <3>1. t <= LatestAt("responseData", authDeadline', Len(windows'))
      BY <1>2, <1>3, <2>1, Times DEF Latest, LatestAt, Reads
    <3>2. authDeadline' <= 3 * WriteTime + 1 + AuthTicks
      BY <1>3, <2>1 DEF Polling
    <3> HIDE DEF t
    <3> QED
      BY <1>2, <2>2, <3>1, <3>2, BeginsInTime DEF Accesses, Reads
  <2>3. CASE Finish(<<"invalid_data">>, now + d)
    BY <1>1, <2>1, <2>3, ReturnsInTime
  <2> QED
    BY <1>8, <2>2, <2>3 DEF WithResponseLength
<1>9. CASE WithCertificateLength(d)
  <2>1. UNCHANGED <<op, authDeadline, windows>> /\ pc = "certificateLength"
    BY <1>9 DEF WithCertificateLength, ReadDone
  <2>2. CASE Enter("window", t)
    <3>1. windows = <<>>
      BY <2>1 DEF TypeInv, FlowInv
    <3>2. (Len(windows') + 1) * ReadTime = ReadTime
      BY <2>1, <3>1, Times
    <3>3. t <= LatestAt("window", authDeadline', Len(windows'))
      BY <1>2, <2>1, <3>2, Times DEF Latest, LatestAt, Reads
    <3> HIDE DEF t
    <3> QED
      BY <1>2, <2>2, <3>3, BeginsInTime DEF Accesses, Reads, Polling
  <2>3. CASE Finish(<<"invalid_data">>, now + d)
    BY <1>1, <2>1, <2>3, ReturnsInTime
  <2> QED
    BY <1>9, <2>2, <2>3 DEF WithCertificateLength
<1>10. CASE WithWindow(d)
  <2>1. UNCHANGED <<op, authDeadline>> /\ pc = "window"
    BY <1>10 DEF WithWindow, ReadDone
  <2>2. Len(windows') = Len(windows) + 1
    BY <1>10 DEF WithWindow, TypeInv, FlowInv
  <2>3. CASE Enter("window", t)
    <3> DEFINE k == Len(windows) + 1
    <3>1. k \in Nat /\ Len(windows') + 1 = k + 1 /\ Latest = k * ReadTime
      BY <1>3, <2>1, <2>2 DEF Latest, LatestAt
    <3> HIDE DEF k
    <3>2. (Len(windows') + 1) * ReadTime = k * ReadTime + ReadTime
      BY <3>1, OneMore, Times
    <3>3. t <= (Len(windows') + 1) * ReadTime
      BY <1>2, <2>1, <3>1, <3>2 DEF Reads
    <3>4. t <= LatestAt("window", authDeadline', Len(windows'))
      BY <3>3 DEF LatestAt
    <3> HIDE DEF t
    <3> QED
      BY <1>2, <2>3, <3>4, BeginsInTime DEF Accesses, Reads, Polling
  <2>4. CASE Finish(<<"ok", windows'>>, now + d)
    BY <1>1, <2>1, <2>2, <2>4, ReturnsInTime
  <2> QED
    BY <1>10, <2>3, <2>4 DEF WithWindow
<1> QED
  BY <1>4, <1>5, <1>6, <1>7, <1>8, <1>9, <1>10 DEF TakesData

(* Every step keeps to the deadlines. *)
LEMMA StepTime ==
    ASSUME TypeInv, TypeInv', TimeInv, [Next]_vars
    PROVE  TimeInv'
<1>1. ASSUME NEW d \in 0..TxTicks, TransactionFails(d) \/ WrongLength(d)
      PROVE  TimeInv'
  BY <1>1, FailureTime
<1>2. ASSUME NEW d \in 0..TxTicks, WriteOK(d) \/ SelectOK(d) \/ TakesData(d)
      PROVE  TimeInv'
  BY <1>2, SuccessTime
<1>3. ASSUME NEW name, NEW c, NEW first \in Accesses \ Polling, Call(name, c, first)
      PROVE  TimeInv'
  <2>1. authDeadline' \in Nat /\ Len(windows') \in Nat
    BY DEF TypeInv, TypeOK, FlowInv
  <2>2. 0 <= LatestAt(first, authDeadline', Len(windows'))
    BY <2>1, LatestType
  <2> QED
    BY <1>3, <2>2, BeginsInTime DEF Call
<1>4. ASSUME NEW c \in Challenges, SignChallenge(c)
      PROVE  TimeInv'
  <2>1. CASE Call("sign", c, "writeLength")
    BY <1>3, <2>1 DEF Accesses, Writes, Polling
  <2>2. CASE op' = "sign" /\ Finish(<<"invalid_data">>, 0)
    <3>1. 0 <= SignTime
      BY Times DEF SignTime
    <3>2. pc' = "returned" /\ now' = 0 /\ op' = "sign"
      BY <2>2 DEF Finish
    <3>3. WithinDeadlines'
      BY <3>1, <3>2 DEF WithinDeadlines, SignTime, WriteTime, ReadTime
    <3> QED
      BY <3>2, <3>3 DEF TimeInv, Accesses, Writes, Reads, Polling
  <2> QED
    BY <1>4, <2>1, <2>2 DEF SignChallenge
<1>5. CASE ProtocolMajor \/ ReadCertificate
  BY <1>3, <1>5 DEF ProtocolMajor, ReadCertificate, Accesses, Writes, Reads, Polling
<1>6. CASE Return
  BY <1>6 DEF Return, TimeInv, Accesses, Writes, Reads, Polling
<1>7. CASE UNCHANGED driver
  <2>1. UNCHANGED <<op, pc, phase, now, ioDeadline, authDeadline, windows>>
    BY <1>7 DEF driver
  <2>2. Latest' = Latest /\ (WithinDeadlines' <=> WithinDeadlines)
    BY <2>1 DEF Latest, WithinDeadlines, SignTime, CertificateTime, ReadTime, WriteTime
  <2> QED
    BY <2>1, <2>2 DEF TimeInv, WriteTime
<1> QED
  BY <1>1, <1>2, <1>4, <1>5, <1>6, <1>7
     DEF Next, Step, TakesData, ChipFinishes, Replug, vars

(* The chip's gate is held for a bounded time (retryIO, SignChallenge and   *)
(* ReadCertificate in driver.go): no operation outlives the sum of its      *)
(* deadlines, whatever the timeouts and the length of a transaction are.    *)
THEOREM OperationsEnd == Spec => []WithinDeadlines
<1>1. Init => TimeInv
  BY DEF Init, TimeInv, Accesses, Writes, Reads, Polling
<1>2. TypeInv /\ TypeInv' /\ TimeInv /\ [Next]_vars => TimeInv'
  BY StepTime
<1>3. TypeInv /\ TimeInv => WithinDeadlines
  <2> SUFFICES ASSUME TypeInv, TimeInv PROVE WithinDeadlines
    OBVIOUS
  <2>1. CASE pc = "idle"
    BY <2>1 DEF TypeInv, FlowInv, WithinDeadlines
  <2>2. CASE pc = "returned"
    BY <2>2 DEF TimeInv
  <2>3. CASE pc \in Accesses
    <3>1. now + 0 = now /\ 0 \in 0..TxTicks /\ now \in Nat
      BY Times DEF TypeInv, TypeOK
    <3>2. /\ pc \in Writes => now <= Latest + WriteTime
          /\ pc \in Reads => now <= Latest + ReadTime
      BY <2>3, <3>1, AccessEnds
    <3> QED
      BY <2>3, <3>1, <3>2, EndsInTime DEF WithinDeadlines
  <2> QED
    BY <2>1, <2>2, <2>3 DEF TypeInv, TypeOK, Accesses
<1> QED
  BY <1>1, <1>2, <1>3, Typed, PTL DEF Spec

-----------------------------------------------------------------------------
(* Certificates *)

(* The numbers of a certificate's registers fit in a byte, or the           *)
(* certificate is refused for its length.  Without it the numbers wrap.     *)
FewWindows ==
    \A n \in CertificateLens :
        \/ n <= (256 - certificateDataRegister) * certificateWindowBytes
        \/ n > maximumDataBytes

(* A window of a certificate that is not its last one. *)
FullWindow(i) ==
    <<certificateDataRegister + i - 1, (i - 1) * certificateWindowBytes,
      certificateWindowBytes>>

(* As long as nothing was lost, the windows read so far are the first ones  *)
(* of the chip's certificate, and offset and register are those of the next.*)
CertInv ==
    disturbed = 0 /\ op = "certificate" =>
        /\ pc = "window" =>
               /\ length = chip.certificateLen
               /\ register = certificateDataRegister + Len(windows)
               /\ offset = certificateWindowBytes * Len(windows)
               /\ \A i \in 1..Len(windows) : windows[i] = FullWindow(i)
        /\ pc = "returned" /\ result[1] = "ok" =>
               result[2] = CertificateWindows(chip.certificateLen)

(* k full windows and the rest of the bytes make up a certificate. *)
LEMMA LastWindow ==
    ASSUME NEW n \in Nat, NEW w \in Seq(Nat \X Nat \X Nat), NEW k \in Nat,
           Len(w) = k, \A i \in 1..k : w[i] = FullWindow(i),
           128 * k < n, n <= 128 * k + 128
    PROVE  Append(w, <<certificateDataRegister + k, 128 * k, n - 128 * k>>)
               = CertificateWindows(n)
<1> DEFINE last == <<certificateDataRegister + k, 128 * k, n - 128 * k>>
           all == Append(w, last)
           piece(i) == LET start == (i - 1) * certificateWindowBytes
                       IN  <<certificateDataRegister + i - 1, start,
                             Min(certificateWindowBytes, n - start)>>
<1>1. (n + certificateWindowBytes - 1) \div certificateWindowBytes = k + 1
  <2>1. \A x \in Nat : 128 * k + 128 <= x /\ x < 128 * k + 256 => x \div 128 = k + 1
    BY Z3
  <2>2. n + certificateWindowBytes - 1 \in Nat /\ certificateWindowBytes = 128
    BY DEF certificateWindowBytes
  <2> QED
    BY <2>1, <2>2
<1>2. \A i \in 1..k : FullWindow(i) = piece(i)
  BY DEF FullWindow, Min, certificateWindowBytes
<1>3. last = piece(k + 1)
  BY DEF Min, certificateWindowBytes, certificateDataRegister
<1>4. last \in Nat \X Nat \X Nat
  BY DEF certificateDataRegister
<1> HIDE DEF last, piece
<1>5. /\ all \in Seq(Nat \X Nat \X Nat) /\ Len(all) = k + 1
      /\ \A i \in 1..k + 1 : all[i] = IF i = k + 1 THEN last ELSE w[i]
  BY <1>4
<1> HIDE DEF all
<1>6. \A i \in 1..k + 1 : all[i] = piece(i)
  <2> TAKE i \in 1..k + 1
  <2>1. CASE i = k + 1
    BY <1>3, <1>5, <2>1
  <2>2. CASE i # k + 1
    <3>1. i \in 1..k
      BY <2>2
    <3> QED
      BY <1>2, <1>5, <2>2, <3>1
  <2> QED
    BY <2>1, <2>2
<1>7. all = [i \in 1..k + 1 |-> piece(i)]
  <2>1. all = [i \in 1..Len(all) |-> all[i]]
    BY <1>5
  <2> QED
    BY <1>5, <1>6, <2>1
<1>8. CertificateWindows(n) = [i \in 1..k + 1 |-> piece(i)]
  BY <1>1 DEF CertificateWindows, piece
<1> QED
  BY <1>7, <1>8 DEF all, last

(* A window is read from its own register. *)
LEMMA WindowEffect ==
    ASSUME FewWindows, TypeInv, ReadsWhatItSelected, CertInv, disturbed = 0,
           NEW d, WithWindow(d)
    PROVE  CertInv'
<1>1. pc = "window" /\ phase = "read" /\ UNCHANGED <<op, disturbed, chip, length>>
  BY DEF WithWindow, ReadDone
<1>2. op = "certificate" /\ length \in 1..maximumDataBytes /\ length \in Nat
      /\ windows \in Seq(Nat \X Nat \X Nat) /\ offset < length
  BY <1>1, Limits DEF TypeInv, FlowInv
<1> DEFINE k == Len(windows)
<1>3. k \in Nat
  BY <1>2
<1>4. /\ length = chip.certificateLen /\ register = certificateDataRegister + k
      /\ offset = 128 * k /\ \A i \in 1..k : windows[i] = FullWindow(i)
  BY <1>1, <1>2 DEF CertInv, certificateWindowBytes
<1>5. length \in Nat /\ 128 * k < length
  BY <1>2, <1>4
<1>6. length <= 207 * 128
  <2>1. chip.certificateLen \in CertificateLens
    BY DEF TypeInv, ChipStates
  <2>2. length <= maximumDataBytes
    BY <1>2, Limits
  <2>3. ~(length > maximumDataBytes)
    BY <1>2, <2>2, Limits
  <2> QED
    BY <1>4, <2>1, <2>3 DEF FewWindows, certificateDataRegister, certificateWindowBytes
<1>7. chip.selected = certificateDataRegister + k
  <2>1. chip.selected = register % 256
    BY <1>1, Targets DEF ReadsWhatItSelected, Reads
  <2>2. k < 207
    <3> HIDE DEF k
    <3> QED
      BY <1>3, <1>5, <1>6
  <2>3. register \in Nat /\ register < 256
    BY <1>3, <1>4, <2>2 DEF certificateDataRegister
  <2>4. \A r \in Nat : r < 256 => r % 256 = r
    BY Z3
  <2> QED
    BY <1>4, <2>1, <2>3, <2>4
<1>8. Count = (IF 128 < length - 128 * k THEN 128 ELSE length - 128 * k)
  BY <1>4 DEF Count, Min, certificateWindowBytes
<1>9. /\ windows' = Append(windows, <<certificateDataRegister + k, 128 * k, Count>>)
      /\ offset' = 128 * k + Count /\ register' = register + 1
  BY <1>4, <1>7 DEF WithWindow
<1>10. CASE 128 * k + 128 < length
  <2>1. Count = 128 /\ offset' < length
    <3> HIDE DEF k
    <3> QED
      BY <1>3, <1>5, <1>8, <1>9, <1>10
  <2>2. pc' = "window"
    BY <1>1, <2>1 DEF WithWindow, Enter
  <2>3. <<certificateDataRegister + k, 128 * k, Count>> = FullWindow(k + 1)
    BY <1>3, <2>1 DEF FullWindow, certificateWindowBytes, certificateDataRegister
  <2>4. FullWindow(k + 1) \in Nat \X Nat \X Nat
    BY <1>3 DEF FullWindow, certificateWindowBytes, certificateDataRegister
  <2>5. Len(windows') = k + 1
    BY <1>2, <1>9, <2>3, <2>4
  <2>6. \A i \in 1..k + 1 : windows'[i] = FullWindow(i)
    <3>1. windows' = Append(windows, FullWindow(k + 1))
      BY <1>9, <2>3
    <3>2. windows'[k + 1] = FullWindow(k + 1)
      BY <1>2, <2>4, <3>1
    <3>3. \A i \in 1..k : windows'[i] = windows[i]
      BY <1>2, <2>4, <3>1
    <3>4. \A i \in 1..k + 1 : i \in 1..k \/ i = k + 1
      BY <1>3
    <3> QED
      BY <1>4, <3>2, <3>3, <3>4
  <2>7. offset' = certificateWindowBytes * Len(windows')
    BY <1>3, <1>9, <2>1, <2>5 DEF certificateWindowBytes
  <2>8. register' = certificateDataRegister + Len(windows')
    BY <1>3, <1>4, <1>9, <2>5 DEF certificateDataRegister
  <2> QED
    BY <1>1, <1>4, <2>2, <2>5, <2>6, <2>7, <2>8 DEF CertInv, FullWindow
<1>11. CASE ~(128 * k + 128 < length)
  <2>1. Count = length - 128 * k /\ ~(offset' < length)
    <3> HIDE DEF k
    <3> QED
      BY <1>3, <1>5, <1>8, <1>9, <1>11
  <2>2. pc' = "returned" /\ result' = <<"ok", windows'>>
    BY <1>1, <2>1 DEF WithWindow, Finish
  <2>3. windows' = CertificateWindows(length)
    <3>1. length <= 128 * k + 128
      <4> HIDE DEF k
      <4> QED
        BY <1>3, <1>5, <1>11
    <3>2. windows' = Append(windows, <<certificateDataRegister + k, 128 * k,
                                       length - 128 * k>>)
      BY <1>9, <2>1
    <3> QED
      BY <1>2, <1>3, <1>4, <1>5, <3>1, <3>2, LastWindow
  <2> QED
    BY <1>1, <1>4, <2>2, <2>3 DEF CertInv, CertificateWindows, Min
<1> QED
  BY <1>10, <1>11

(* Every step keeps the windows and the chip's certificate together. *)
LEMMA StepCertificate ==
    ASSUME FewWindows, TypeInv, ReadsWhatItSelected, CertInv, Next
    PROVE  CertInv'
<1>1. SUFFICES ASSUME op' = "certificate", disturbed' = 0 PROVE CertInv'
  BY <1>1 DEF CertInv
<1>2. CASE \E d \in 0..TxTicks : WriteOK(d) \/ SelectOK(d)
  <2>1. PICK d \in 0..TxTicks : WriteOK(d) \/ SelectOK(d)
    BY <1>2
  <2>2. UNCHANGED <<op, length, offset, register, windows, result>> /\ Sent
    BY <2>1 DEF WriteOK, SelectOK, loop
  <2>3. Apply /\ disturbed = 0
    BY <1>1, <2>2 DEF Sent, Disturb, TypeInv, TypeOK
  <2>4. pc' = pc \/ pc' \notin {"window", "returned"}
    BY <2>1 DEF WriteOK, SelectOK, Enter
  <2>5. chip'.certificateLen = chip.certificateLen
    BY <2>3, ApplyEffect
  <2> QED
    BY <1>1, <2>2, <2>3, <2>4, <2>5 DEF CertInv, FullWindow
<1>3. CASE \E d \in 0..TxTicks : TransactionFails(d) \/ WrongLength(d)
  <2>1. PICK d \in 0..TxTicks : TransactionFails(d) \/ WrongLength(d)
    BY <1>3
  <2>2. /\ UNCHANGED <<op, length, offset, register, windows, disturbed>>
        /\ Apply \/ UNCHANGED chip
    BY <2>1 DEF TransactionFails, WrongLength, loop
  <2>3. \/ pc' = pc /\ result' = result
        \/ pc' \in {"poll", "errorCode"}
        \/ pc' = "returned" /\ result'[1] # "ok"
    BY <2>1, FailureEffect DEF TransactionFails, WrongLength, Again, NextPoll, Failed,
       PollAgain, Enter, Finish
  <2>4. chip'.certificateLen = chip.certificateLen
    BY <2>2, ApplyEffect
  <2> QED
    BY <1>1, <2>2, <2>3, <2>4 DEF CertInv, FullWindow
<1>4. CASE \E d \in 0..TxTicks : TakesData(d)
  <2>1. PICK d \in 0..TxTicks : TakesData(d)
    BY <1>4
  <2>2. phase = "read" /\ UNCHANGED <<op, disturbed, chip>>
    BY <2>1 DEF TakesData, WithMajor, WithStatus, WithErrorCode, WithResponseLength,
       WithResponse, WithCertificateLength, WithWindow, ReadDone
  <2>3. CASE WithWindow(d)
    BY <1>1, <2>2, <2>3, WindowEffect
  <2>4. CASE WithCertificateLength(d)
    <3>1. /\ pc = "certificateLength" /\ length' = Uint16(ChipBytes(2))
          /\ UNCHANGED <<offset, register, windows>>
          /\ pc' = "window" \/ (pc' = "returned" /\ result' = <<"invalid_data">>)
      BY <2>4 DEF WithCertificateLength, Enter, Finish, ReadDone
    <3>2. chip.selected = certificateLengthRegister
      BY <1>1, <2>2, <3>1, Targets DEF ReadsWhatItSelected, Reads
    <3>3. ChipBytes(2) = PutUint16(chip.certificateLen)
      BY <3>2 DEF ChipBytes, authControlStatusRegister, responseLengthRegister,
         protocolMajorRegister, errorRegister, certificateLengthRegister
    <3>4. length' = chip.certificateLen
      BY <3>1, <3>3, RoundTrip, DriverAssumption DEF TypeInv, ChipStates
    <3>5. windows = <<>> /\ offset = 0 /\ register = certificateDataRegister
      BY <3>1 DEF TypeInv, FlowInv
    <3>6. /\ Len(windows') = 0 /\ offset' = certificateWindowBytes * Len(windows')
          /\ register' = certificateDataRegister + Len(windows')
      BY <3>1, <3>5 DEF certificateWindowBytes, certificateDataRegister
    <3>7. 1..Len(windows') = {}
      BY <3>6
    <3>8. pc' = "returned" => result'[1] # "ok"
      BY <3>1
    <3> QED
      BY <2>2, <3>1, <3>4, <3>6, <3>7, <3>8 DEF CertInv
  <2>5. CASE WithMajor(d) \/ WithStatus(d) \/ WithErrorCode(d) \/ WithResponseLength(d)
             \/ WithResponse(d)
    BY <1>1, <2>2, <2>5 DEF WithMajor, WithStatus, WithErrorCode, WithResponseLength,
       WithResponse, ReadDone, TypeInv, FlowInv, SignSteps
  <2> QED
    BY <2>1, <2>3, <2>4, <2>5 DEF TakesData
<1>5. CASE ProtocolMajor \/ ReadCertificate \/ \E c \in Challenges : SignChallenge(c)
  <2>1. pc' = "certificateLength"
    BY <1>1, <1>5 DEF ProtocolMajor, ReadCertificate, SignChallenge, Call, Enter
  <2> QED
    BY <2>1 DEF CertInv
<1>6. CASE ChipFinishes
  <2>1. UNCHANGED <<op, pc, length, offset, register, windows, result, disturbed>>
    BY <1>6 DEF ChipFinishes, driver
  <2>2. chip'.certificateLen = chip.certificateLen
    BY <1>6 DEF ChipFinishes, TypeInv, ChipStates
  <2> QED
    BY <1>1, <2>1, <2>2 DEF CertInv, FullWindow
<1>7. CASE Return \/ Replug
  BY <1>1, <1>7 DEF Return, Replug, Disturb, driver, TypeInv, TypeOK
<1> QED
  BY <1>2, <1>3, <1>4, <1>5, <1>6, <1>7 DEF Next, Step, TakesData

(* ReadCertificate: a certificate it returns consists of its windows, each  *)
(* read from its own register, in order and without gaps, provided that the *)
(* register numbers do not wrap and nothing was lost.                       *)
THEOREM CertificatesComplete ==
    ASSUME FewWindows
    PROVE  Spec => []CertificateComplete
<1>1. Init => CertInv
  BY DEF Init, CertInv
<1>2. TypeInv /\ ReadsWhatItSelected /\ CertInv /\ [Next]_vars => CertInv'
  <2>1. UNCHANGED vars /\ CertInv => CertInv'
    BY DEF vars, driver, CertInv, FullWindow
  <2> QED
    BY <2>1, StepCertificate
<1>3. TypeInv /\ CertInv => CertificateComplete
  <2> SUFFICES ASSUME TypeInv, CertInv, op = "certificate", result[1] = "ok",
                      disturbed = 0
               PROVE  result[2] = CertificateWindows(chip.certificateLen)
    BY DEF CertificateComplete
  <2>1. pc = "returned"
    BY DEF TypeInv, FlowInv
  <2> QED
    BY <2>1 DEF CertInv
<1> QED
  BY <1>1, <1>2, <1>3, Selected, PTL DEF Spec

=============================================================================
