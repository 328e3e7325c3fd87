-------------------------------- MODULE Stream --------------------------------
(***************************************************************************)
(* Transaction and execute of internal/transport/ch341.go: the speed and   *)
(* the encoded stream are sent in 32-byte packets; after each packet the   *)
(* answer is read, status bytes first, then data.                          *)
(*                                                                         *)
(* The bridge is external and modelled from how execute reads its answers: *)
(* a one-byte write is answered with a status byte (0x80 when the slave    *)
(* refused it), a counted write with nothing, a read with its bytes; the   *)
(* bus is released at STOP only.                                           *)
(***************************************************************************)
EXTENDS Encoder

CONSTANTS
    Requests,       \* arguments of Transaction: [address, write, read]
    Speed,          \* Ch341Transport.speed, in kHz
    Faults,         \* what may go wrong: a subset of FaultKinds
    Disturbed,      \* bound: the requests in which it may, and that are followed
    MaxFaults,      \* how often
    MaxCalls        \* bound on the transactions of a behaviour

FaultKinds == {"nack", "transfer", "mute", "late"}

ASSUME StreamAssumption ==
    /\ \A r \in Requests : /\ r.address \in 0..255
                           /\ r.write \in Seq(0..255)
                           /\ r.read \in Int
    /\ Speed \in {20, 100, 400, 750}
    /\ Faults \subseteq FaultKinds
    /\ Disturbed \subseteq Requests
    /\ MaxFaults \in Nat
    /\ MaxCalls \in Nat

VARIABLES
    pc,             \* where Transaction is
    request,        \* its arguments
    stream,         \* the encoded stream that remains to be sent
    segment,        \* the packet that was sent last
    response,       \* execute's response
    result,         \* what the last call returned
    bus,            \* the I2C events of this transaction
    sent,           \* the bytes the slave sent in it
    refused,        \* the slave refused a byte of it
    told,           \* a status byte that came in time said so
    fifo,           \* answer bytes ready to be read
    held,           \* answer bytes that are late
    stray,          \* some answer byte was late, or its transfer failed
    calls, faults   \* how many there were

code == <<pc, request, stream, segment, response, result>>
bridge == <<bus, sent, refused, told, fifo, held, stray>>
counters == <<calls, faults>>
vars == <<code, bridge, counters>>

-----------------------------------------------------------------------------
(* The bridge and the slave *)

IsWrite(i) == i.command \in \h80..\hBF

(* The answer: bytes the slave sends, numbered on, after the status bytes   *)
(* (in a stream every write precedes every read).                           *)
SlaveBytes(instructions) ==
    [k \in 1..dataBytes(instructions) |-> (7 + 64 * calls + Len(sent) + k) % 256]

StatusBytes(instructions, nacked) ==
    FlattenSeq([k \in DOMAIN instructions |->
                   IF instructions[k].command \in WithStatus
                   THEN <<IF k = nacked THEN \h80 ELSE 0>> ELSE <<>>])

Possible(fault) ==
    fault \in Faults /\ faults < MaxFaults /\ request \in Disturbed

(* How much of an answer is there in time and what comes later.  A mute     *)
(* bridge answers without status bytes, or not at all.                      *)
Arrivals(status, data) ==
    LET answer == status \o data
        cut(k) == [now |-> SubSeq(answer, 1, k),
                   later |-> SubSeq(answer, k + 1, Len(answer))]
    IN  {cut(Len(answer))}
        \cup (IF Possible("mute")
              THEN {[now |-> data, later |-> <<>>], [now |-> <<>>, later |-> <<>>]}
              ELSE {})
        \cup (IF Possible("late")
              THEN {cut(k) : k \in {0, 1, maxStreamPacketBytes} \cap 0..Len(answer)}
              ELSE {})

-----------------------------------------------------------------------------
(* Transaction and execute *)

(* The result of encodeTransaction for each request. *)
encoded == [r \in Requests |-> IF rejected(r) THEN <<>> ELSE encodeTransaction(r)]

Init ==
    /\ pc = "idle"
    /\ request = [address |-> 0, write |-> <<>>, read |-> 0]
    /\ stream = <<>> /\ segment = <<>> /\ response = <<>>
    /\ result = "none"
    /\ bus = <<>> /\ sent = <<>> /\ refused = FALSE /\ told = FALSE
    /\ fifo = <<>> /\ held = <<>> /\ stray = FALSE
    /\ calls = 0 /\ faults = 0

Return(kind) == pc' = "idle" /\ result' = kind

Transaction(r) ==
    /\ pc = "idle"
    /\ calls < MaxCalls
    /\ calls > 0 => {request, r} \subseteq Disturbed
    /\ calls' = calls + 1
    /\ request' = r
    /\ response' = <<>>
    /\ bus' = <<>> /\ sent' = <<>> /\ refused' = FALSE /\ told' = FALSE
    /\ \/ /\ rejected(r)
          /\ Return("invalid_request")
          /\ stream' = <<>>
       \/ /\ ~rejected(r)
          /\ stream' = encoded[r]
          /\ pc' = "configure"
          /\ result' = "none"
    /\ UNCHANGED <<segment, fifo, held, stray, faults>>

(* The speed is sent before every transaction; it has no answer. *)
Configure ==
    /\ pc = "configure"
    /\ bus' = Perform(Instructions(encodeConfiguration(Speed)))
    /\ pc' = "send"
    /\ UNCHANGED <<request, stream, segment, response, result, sent, refused,
                   told, fifo, held, stray, counters>>

(* Where the next packet ends. *)
segmentEnd ==
    IF Len(stream) < maxStreamPacketBytes THEN Len(stream) ELSE maxStreamPacketBytes

(* bulkWrite of the next packet. *)
SendSegment ==
    LET packet == SubSeq(stream, 1, segmentEnd)
        instructions == Instructions(packet)
        writes == {k \in DOMAIN instructions : IsWrite(instructions[k])}
        data == SlaveBytes(instructions)
        most == writtenBytes(instructions) + dataBytes(instructions)
    IN  /\ pc = "send"
        /\ stream # <<>>
        /\ segment' = packet
        /\ stream' = SubSeq(stream, segmentEnd + 1, Len(stream))
        /\ bus' = bus \o Perform(instructions)
        /\ sent' = sent \o data
        /\ \E nacked \in {0} \cup (IF Possible("nack") THEN writes ELSE {}) :
           \E arrival \in Arrivals(StatusBytes(instructions, nacked), data) :
               /\ refused' = (refused \/ nacked # 0)
               /\ told' = (told \/ \E k \in 1 .. Len(arrival.now) - Len(data) :
                                       arrival.now[k] = \h80)
               /\ fifo' = fifo \o arrival.now
               /\ held' = held \o arrival.later
               /\ stray' = (stray \/ arrival.later # <<>>)
               /\ faults' = IF nacked = 0 /\ Len(arrival.now) = most
                            THEN faults ELSE faults + 1
        /\ IF Malformed(instructions)
           THEN Return("protocol")
           ELSE /\ pc' = IF most > 0 THEN "receive" ELSE "send"
                /\ UNCHANGED result
        /\ UNCHANGED <<request, response, calls>>

(* The bridge runs the next packet although the host was told that the      *)
(* write failed; nobody reads the answer.                                   *)
RunsUnnoticed ==
    LET instructions == Instructions(SubSeq(stream, 1, segmentEnd))
        data == SlaveBytes(instructions)
    IN  /\ bus' = bus \o Perform(instructions)
        /\ sent' = sent \o data
        /\ fifo' = fifo \o (StatusBytes(instructions, 0) \o data)

(* bulkWrite tries once more. *)
TransferRetried ==
    /\ Possible("transfer")
    /\ pc = "send" /\ stream # <<>>
    /\ RunsUnnoticed
    /\ stray' = (stray \/ fifo' # <<>>)
    /\ faults' = faults + 1
    /\ UNCHANGED <<pc, result, request, stream, segment, response, refused, told,
                   held, calls>>

(* A transfer that fails.  A write may have reached the bridge all the      *)
(* same, whole, as 32 bytes are one USB packet; what a read would have      *)
(* fetched stays behind.  Nothing drains the endpoint afterwards.           *)
TransferFails ==
    /\ Possible("transfer")
    /\ pc \in {"configure", "send", "receive"}
    /\ pc = "send" => stream # <<>>
    /\ \E kind \in {"timeout", "io", "device_missing", "protocol"} : Return(kind)
    /\ \/ UNCHANGED <<bus, sent, fifo>>
       \/ /\ pc = "configure"
          /\ bus' = Perform(Instructions(encodeConfiguration(Speed)))
          /\ UNCHANGED <<sent, fifo>>
       \/ pc = "send" /\ RunsUnnoticed
    /\ stray' = (stray \/ fifo' # <<>>)
    /\ faults' = faults + 1
    /\ UNCHANGED <<request, stream, segment, response, refused, told, held, calls>>

(* Only the address byte is looked at. *)
checkFirstStatus(status) == status = <<>> \/ status[1] < \h80

checkStatusBytes(status) == \A k \in DOMAIN status : status[k] < \h80

(* The data before the status bytes. *)
dataFirst(received, data) == SubSeq(received, 1, data)

(* received[dataStart:]: the data are the end of what came, however many    *)
(* status bytes there are.                                                  *)
dataOf(received, data) ==
    SubSeq(received, Len(received) - data + 1, Len(received))

(* bulkReadAtMost, then execute's checks of what it read.  Only a segment   *)
(* without data may go unanswered (allowEmpty).                             *)
Receive ==
    LET instructions == Instructions(segment)
        data == dataBytes(instructions)
        most == writtenBytes(instructions) + data
        count == IF Len(fifo) < most THEN Len(fifo) ELSE most
        received == SubSeq(fifo, 1, count)
    IN  /\ pc = "receive"
        /\ fifo' = SubSeq(fifo, count + 1, Len(fifo))
        /\ IF count = 0 /\ data > 0 THEN Return("timeout") /\ UNCHANGED response
           ELSE IF count < data THEN Return("device_missing") /\ UNCHANGED response
           ELSE IF ~checkStatusBytes(SubSeq(received, 1, count - data))
                THEN Return("nack") /\ UNCHANGED response
           ELSE /\ response' = response \o dataOf(received, data)
                /\ pc' = "send"
                /\ UNCHANGED result
        /\ UNCHANGED <<request, stream, segment, bus, sent, refused, told, held,
                       stray, counters>>

Complete ==
    /\ pc = "send"
    /\ stream = <<>>
    /\ Return(IF Len(response) # request.read THEN "protocol" ELSE "ok")
    /\ UNCHANGED <<request, stream, segment, response, bridge, counters>>

(* Bytes that were late reach the host, in order. *)
Arrive ==
    /\ held # <<>>
    /\ pc # "receive"
    /\ fifo' = fifo \o held
    /\ held' = <<>>
    /\ UNCHANGED <<code, bus, sent, refused, told, stray, counters>>

Next ==
    \/ \E r \in Requests : Transaction(r)
    \/ Configure
    \/ SendSegment
    \/ TransferFails
    \/ Receive
    \/ Complete
    \/ Arrive

Spec == Init /\ [][Next]_vars

-----------------------------------------------------------------------------
(* Properties *)

Expected(r) == << <<"speed", command(Speed)>> >> \o Meaning(r)

(* A transaction that succeeds has put exactly its meaning on the bus, for  *)
(* every split into packets: no instruction is cut by a packet's end, no    *)
(* data byte is taken for a command, and STOP and the final NACK come once  *)
(* (encodeTransaction, segmentedStream).                                    *)
BusMatches == pc = "idle" /\ result = "ok" => bus = Expected(request)

(* On a bridge that works every request that is not rejected succeeds: the  *)
(* answers instructionLengths expects are those the packets produce, and    *)
(* the data add up to what was asked for.                                   *)
HealthySucceeds ==
    pc = "idle" /\ calls > 0 /\ faults = 0 =>
        result = IF rejected(request) THEN "invalid_request" ELSE "ok"

(* Wherever a transaction is, and wherever it broke off, what it has put on *)
(* the bus is a beginning of what its request means, although a write that  *)
(* failed may have been carried out; and of a request that is rejected      *)
(* there is nothing on the bus (execute never sends a packet again).        *)
NeverBeyond ==
    IF rejected(request) THEN bus = <<>> ELSE IsPrefix(bus, Expected(request))

(* The data returned are the bytes the slave sent in this transaction, in   *)
(* order and without a status byte among them, whether or not the bridge    *)
(* sends status bytes, and after transactions that failed.  Nothing is said *)
(* once an answer byte was late or a failed transfer left its answer in the *)
(* bridge: execute does not drain the endpoint, and takes such bytes for    *)
(* its own (execute, instructionLengths).                                   *)
OwnAnswer == pc = "idle" /\ result = "ok" /\ ~stray => response = sent

(* A refused byte whose status byte came in time makes the transaction      *)
(* fail, in whichever packet it was (checkStatusBytes), as long as no late  *)
(* or left-over answer has shifted the status bytes.                        *)
NackReported == pc = "idle" /\ told /\ ~stray => result # "ok"

(* docs/01-api-contract.md, error table: an I2C NACK is an error ("500 ...  *)
(* I2C NACK"), never a success: no transaction succeeds of which the slave  *)
(* refused a byte.                                                          *)
NackIsError == pc = "idle" /\ refused => result # "ok"

=============================================================================
