------------------------------- MODULE Encoder -------------------------------
(***************************************************************************)
(* internal/transport/ch341_encoder.go: an I2C transaction becomes a CH341 *)
(* command stream, cut into packets of 32 bytes; and what the bytes of a   *)
(* packet mean, to instructionLengths of ch341.go and to the bridge.       *)
(*                                                                         *)
(* The bridge is external and modelled from instructionLengths: it runs    *)
(* the commands of a packet up to END.                                     *)
(***************************************************************************)
EXTENDS Integers, Sequences, SequencesExt

maxStreamPacketBytes == 32
maxTransactionBytes == 65535
maxReadBlockBytes == 32
maxWriteCommandBytes == 63
streamStart == \hAA
streamEnd == 0
streamI2CStart == \h74
streamI2CStop == \h75
streamWrite == \h80
streamRead == \hC0

command(speed) ==
    IF speed = 20 THEN \h60 ELSE IF speed = 100 THEN \h61
    ELSE IF speed = 400 THEN \h62 ELSE \h63

encodeConfiguration(speed) == <<streamStart, command(speed), streamEnd>>

addressByte(address, read) == ((2 * address) % 256) + (IF read THEN 1 ELSE 0)

rejected(r) ==
    \/ r.address > \h7f
    \/ r.read < 0
    \/ Len(r.write) = 0 /\ r.read = 0
    \/ Len(r.write) > maxTransactionBytes \/ r.read > maxTransactionBytes

-----------------------------------------------------------------------------
(* A transaction in one packet *)

OneByteWrites(bytes) == FlattenSeq([i \in DOMAIN bytes |-> <<streamWrite, bytes[i]>>])

encodeLegacyTransaction(r) ==
    <<streamStart>>
    \o (IF Len(r.write) > 0
        THEN <<streamI2CStart>>
             \o OneByteWrites(<<addressByte(r.address, FALSE)>> \o r.write)
        ELSE <<>>)
    \o (IF r.read > 0
        THEN <<streamI2CStart, streamWrite, addressByte(r.address, TRUE)>>
             \o (IF r.read > 1 THEN <<streamRead + r.read - 1>> ELSE <<>>)
             \o <<streamRead>>
        ELSE <<>>)
    \o <<streamI2CStop, streamEnd>>

fitsLegacy(r) ==
    /\ r.read <= maxReadBlockBytes
    /\ Len(r.write) + 1 <= maxWriteCommandBytes
    /\ Len(encodeLegacyTransaction(r)) <= maxStreamPacketBytes

-----------------------------------------------------------------------------
(* segmentedStream: full packets and the packet that is being filled. *)

newSegmentedStream == [result |-> <<>>, segment |-> <<streamStart>>]

(* END, and zeros up to the size of a packet. *)
finishIntermediate(s) ==
    LET missing == maxStreamPacketBytes - Len(s.segment)
        padding == [i \in 1 .. (IF missing > 1 THEN missing ELSE 1) |-> streamEnd]
    IN  [result |-> s.result \o s.segment \o padding, segment |-> <<streamStart>>]

(* s with room for so many bytes and an END after them. *)
room(s, bytes) ==
    IF Len(s.segment) + bytes + 1 > maxStreamPacketBytes
    THEN finishIntermediate(s) ELSE s

append(s, bytes) == [s EXCEPT !.segment = @ \o bytes]

(* segmentedStream.command *)
instruction(s, bytes) ==
    IF Len(s.segment) + Len(bytes) + 1 > maxStreamPacketBytes
    THEN append(finishIntermediate(s), bytes) ELSE append(s, bytes)

(* One-byte writes, each an instruction of its own. *)
writeEach(s, bytes) ==
    LET written[k \in 0..Len(bytes)] ==
            IF k = 0 THEN s ELSE instruction(written[k - 1], <<streamWrite, bytes[k]>>)
    IN  written[Len(bytes)]

startAndWrite(s, address, data) ==
    LET started == append(room(s, 3), <<streamI2CStart>>)
    IN  IF data = <<>> THEN instruction(started, <<streamWrite + 1, address>>)
                       ELSE writeEach(started, <<address>> \o data)

(* Blocks of 32 while 32 or more remain. *)
blocksFrom32(length) == length \div maxReadBlockBytes

(* Blocks of 32 while more than 32 remain, each the end of its packet. *)
blocks(length) == (length - 1) \div maxReadBlockBytes

readBlocks(s, length) ==
    LET reading[k \in 0..blocks(length)] ==
            IF k = 0 THEN s
            ELSE finishIntermediate(
                     instruction(reading[k - 1], <<streamRead + maxReadBlockBytes>>))
    IN  reading[blocks(length)]

(* The last block is read as the others are, with an ACK at its end. *)
readWithoutNACK(s, length) ==
    instruction(readBlocks(s, length),
                <<streamRead + length - blocks(length) * maxReadBlockBytes>>)

(* All bytes but the last are read with an ACK, the last without. *)
read(s, length) ==
    LET remaining == length - blocks(length) * maxReadBlockBytes
        blocksRead == readBlocks(s, length)
    IN  instruction(IF remaining > 1
                    THEN instruction(blocksRead, <<streamRead + remaining - 1>>)
                    ELSE blocksRead, <<streamRead>>)

finish(s) ==
    LET last == append(room(s, 1), <<streamI2CStop, streamEnd>>)
    IN  last.result \o last.segment

encodeTransaction(r) ==
    LET written == IF Len(r.write) > 0
                   THEN startAndWrite(newSegmentedStream,
                                      addressByte(r.address, FALSE), r.write)
                   ELSE newSegmentedStream
        complete == IF r.read > 0
                    THEN read(startAndWrite(written,
                                  addressByte(r.address, TRUE), <<>>), r.read)
                    ELSE written
    IN  IF fitsLegacy(r) THEN encodeLegacyTransaction(r) ELSE finish(complete)

-----------------------------------------------------------------------------
(* The instructions of a packet, as instructionLengths walks through them   *)
(* and the bridge runs them: [command, operands].  A packet that ends in    *)
(* the middle of one, or has an unknown one, yields badCommand.             *)

badCommand == -1

encodedLength(c) == IF c % 64 = 0 THEN 1 ELSE c % 64

(* How many bytes follow a command. *)
width(c) == IF c \in \h80..\hBF THEN encodedLength(c) ELSE 0

Instructions(packet) ==
    LET walk[i \in 2 .. Len(packet) + 1] ==
            IF i > Len(packet) \/ packet[i] = streamEnd THEN <<>>
            ELSE IF \/ packet[i] \notin {streamI2CStart, streamI2CStop}
                                        \cup \h60..\h63 \cup \h80..\hFF
                    \/ i + width(packet[i]) > Len(packet)
                 THEN <<[command |-> badCommand, operands |-> <<>>]>>
                 ELSE <<[command |-> packet[i],
                         operands |-> SubSeq(packet, i + 1, i + width(packet[i]))]>>
                      \o walk[i + 1 + width(packet[i])]
    IN  walk[2]

Malformed(instructions) ==
    \E i \in DOMAIN instructions : instructions[i].command = badCommand

(* The sum of a sequence of numbers. *)
Total(numbers) ==
    LET total[k \in 0..Len(numbers)] ==
            IF k = 0 THEN 0 ELSE total[k - 1] + numbers[k]
    IN  total[Len(numbers)]

(* The writes that the bridge acknowledges with a status byte. *)
WithStatus == {c \in \h80..\hBF : c % 64 = 0}

writtenBytes(instructions) ==
    Total([k \in DOMAIN instructions |->
              IF instructions[k].command \in WithStatus
              THEN encodedLength(instructions[k].command) ELSE 0])

dataBytes(instructions) ==
    Total([k \in DOMAIN instructions |->
              IF instructions[k].command \in \hC0..\hFF
              THEN encodedLength(instructions[k].command) ELSE 0])

(* What the bridge does on the bus. *)
Events(i) ==
    IF i.command \in \h60..\h63 THEN << <<"speed", i.command>> >>
    ELSE IF i.command = streamI2CStart THEN << <<"start">> >>
    ELSE IF i.command = streamI2CStop THEN << <<"stop">> >>
    ELSE IF i.command \in \h80..\hBF
         THEN [k \in DOMAIN i.operands |-> <<"write", i.operands[k]>>]
    ELSE IF i.command = badCommand THEN <<>>
    ELSE [k \in 1..encodedLength(i.command) |-> <<"read", i.command % 64 # 0>>]

Perform(instructions) ==
    FlattenSeq([k \in DOMAIN instructions |-> Events(instructions[k])])

-----------------------------------------------------------------------------
(* What a transaction means on the I2C bus: the writes, a repeated START    *)
(* for the reads, ACK on every byte but the last, one STOP at the end.      *)
Meaning(r) ==
    (IF Len(r.write) > 0
     THEN << <<"start">>, <<"write", 2 * r.address>> >>
          \o [i \in DOMAIN r.write |-> <<"write", r.write[i]>>]
     ELSE <<>>)
    \o (IF r.read > 0
        THEN << <<"start">>, <<"write", 2 * r.address + 1>> >>
             \o [i \in 1..r.read |-> <<"read", i < r.read>>]
        ELSE <<>>)
    \o << <<"stop">> >>

=============================================================================
