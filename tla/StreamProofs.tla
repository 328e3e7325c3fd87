----------------------------- MODULE StreamProofs -----------------------------
(* Transaction and execute: what is on the bus, which bytes are taken for    *)
(* the answer and what is returned, for all requests, all faults and any     *)
(* number of calls.                                                          *)
EXTENDS Stream, EncoderProofs

-----------------------------------------------------------------------------
(* Streams that are sent packet by packet *)

(* The encoder's streams lead to what the request means. *)
LEMMA EncodedLeads ==
    ASSUME NEW r \in Requests, ~rejected(r)
    PROVE  Leads(encoded[r], <<>>, Meaning(r), 0, r.read)
<1>1. Request(r)
  BY StreamAssumption DEF Request
<1>2. Carried(encodeTransaction(r), Meaning(r), r.read)
  BY <1>1, EncodedAsMeant
<1>4. encoded[r] = encodeTransaction(r)
  BY Zenon DEF encoded
<1> QED
  BY <1>2, <1>4, Zenon DEF Carried

(* What a stream leads from and to. *)
LEMMA LeadsType ==
    ASSUME NEW s, NEW b, NEW e, NEW c, NEW d, Leads(s, b, e, c, d)
    PROVE  /\ s \in Seq(Int) /\ b \in Seq(BusEvent) /\ e \in Seq(BusEvent)
           /\ c \in Nat /\ d \in Nat
<1>1. PICK n, B, D : /\ Carries(s, n, B, D)
                     /\ B[0] = b /\ B[n] = e /\ D[0] = c /\ D[n] = d
  BY DEF Leads
<1>2. s \in Seq(Int) /\ n \in Nat /\ B \in [0..n -> Seq(BusEvent)] /\ D \in [0..n -> Nat]
  BY <1>1 DEF Carries
<1>3. n \in 0..n /\ 0 \in 0..n
  BY <1>2
<1>4. /\ B[0] \in Seq(BusEvent) /\ B[n] \in Seq(BusEvent) /\ D[0] \in Nat /\ D[n] \in Nat
  BY <1>2, <1>3, Zenon
<1> QED
  BY <1>1, <1>2, <1>4, Zenon

(* An empty stream leads nowhere. *)
LEMMA LeadsNowhere ==
    ASSUME NEW b, NEW e, NEW c, NEW d, Leads(<<>>, b, e, c, d)
    PROVE  b = e /\ c = d
<1>1. PICK n, B, D : /\ Carries(<<>>, n, B, D)
                     /\ B[0] = b /\ B[n] = e /\ D[0] = c /\ D[n] = d
  BY DEF Leads
<1>2. n \in Nat /\ 32 * n - 32 < Len(<<>>)
  BY <1>1 DEF Carries
<1>3. Len(<<>>) = 0
  BY EmptySeq
<1>4. n = 0
  BY <1>2, <1>3
<1> QED
  BY <1>1, <1>4, Zenon

(* Something was on the bus before. *)
LEMMA LeadsOn ==
    ASSUME NEW s, NEW b, NEW e, NEW c, NEW d, Leads(s, b, e, c, d), NEW P \in Seq(BusEvent)
    PROVE  Leads(s, P \o b, P \o e, c, d)
<1>1. PICK n, B, D : /\ Carries(s, n, B, D)
                     /\ B[0] = b /\ B[n] = e /\ D[0] = c /\ D[n] = d
  BY DEF Leads
<1>2. /\ s \in Seq(Int) /\ n \in Nat
      /\ 32 * n - 32 < Len(s) /\ Len(s) <= 32 * n
      /\ B \in [0..n -> Seq(BusEvent)] /\ D \in [0..n -> Nat]
      /\ \A k \in 1..n :
             /\ Instructions(Packet(s, k - 1)) \in Seq(Sound)
             /\ B[k] = B[k - 1] \o Perform(Instructions(Packet(s, k - 1)))
             /\ D[k] = D[k - 1] + dataBytes(Instructions(Packet(s, k - 1)))
  BY <1>1 DEF Carries
<1> DEFINE C == [k \in 0..n |-> P \o B[k]]
<1>3. \A k \in 0..n : C[k] = P \o B[k] /\ B[k] \in Seq(BusEvent)
  BY <1>2, Zenon
<1>4. C \in [0..n -> Seq(BusEvent)]
  <2>1. \A k \in 0..n : P \o B[k] \in Seq(BusEvent)
    BY <1>3, ConcatProperties
  <2> QED
    BY <2>1, Zenon
<1> HIDE DEF C
<1>5. ASSUME NEW k \in 1..n
      PROVE  C[k] = C[k - 1] \o Perform(Instructions(Packet(s, k - 1)))
  <2>1. k \in 0..n /\ k - 1 \in 0..n
    BY <1>2
  <2> DEFINE F == B[k - 1]
             G == Perform(Instructions(Packet(s, k - 1)))
  <2>2. F \in Seq(BusEvent) /\ G \in Seq(BusEvent)
    BY <1>2, <1>3, <2>1, PerformType
  <2>3. C[k] = P \o (F \o G) /\ C[k - 1] = P \o F
    BY <1>2, <1>3, <2>1, Zenon
  <2> HIDE DEF F, G
  <2>4. (P \o F) \o G = P \o (F \o G)
    BY <2>2, Regrouped
  <2> QED
    BY <2>3, <2>4 DEF G
<1>6. Carries(s, n, C, D)
  BY <1>2, <1>4, <1>5 DEF Carries
<1>7. C[0] = P \o b /\ C[n] = P \o e
  <2>1. 0 \in 0..n /\ n \in 0..n
    BY <1>2
  <2> QED
    BY <1>1, <1>3, <2>1, Zenon
<1> QED
  BY <1>1, <1>6, <1>7, Zenon DEF Leads

(* The first packet of a stream is sent. *)
LEMMA LeadsAfter ==
    ASSUME NEW s, NEW b, NEW e, NEW c, NEW d, Leads(s, b, e, c, d), s # <<>>,
           NEW end, end = End(s)
    PROVE  /\ Instructions(SubSeq(s, 1, end)) \in Seq(Sound)
           /\ Leads(SubSeq(s, end + 1, Len(s)), b \o Perform(Instructions(SubSeq(s, 1, end))),
                    e, c + dataBytes(Instructions(SubSeq(s, 1, end))), d)
<1>1. PICK n, B, D : /\ Carries(s, n, B, D)
                     /\ B[0] = b /\ B[n] = e /\ D[0] = c /\ D[n] = d
  BY DEF Leads
<1>2. Carries(s, n, B, D)
  BY <1>1
<1>3. /\ Instructions(SubSeq(s, 1, end)) \in Seq(Sound)
      /\ Leads(SubSeq(s, end + 1, Len(s)),
               B[0] \o Perform(Instructions(SubSeq(s, 1, end))), B[n],
               D[0] + dataBytes(Instructions(SubSeq(s, 1, end))), D[n])
  BY <1>2, OnePacketLess
<1> QED
  BY <1>1, <1>3, Zenon

(* What is on the bus is a beginning of what a stream leads to. *)
LEMMA LeadsFrom ==
    ASSUME NEW s, NEW b, NEW e, NEW c, NEW d, Leads(s, b, e, c, d)
    PROVE  IsPrefix(b, e)
<1>1. PICK n, B, D : /\ Carries(s, n, B, D)
                     /\ B[0] = b /\ B[n] = e /\ D[0] = c /\ D[n] = d
  BY DEF Leads
<1>2. /\ n \in Nat /\ B \in [0..n -> Seq(BusEvent)]
      /\ \A k \in 1..n :
             /\ Instructions(Packet(s, k - 1)) \in Seq(Sound)
             /\ B[k] = B[k - 1] \o Perform(Instructions(Packet(s, k - 1)))
  BY <1>1 DEF Carries
<1> DEFINE Good == {k \in Nat : k <= n => \E t \in Seq(BusEvent) : B[k] = b \o t}
<1>3. b \in Seq(BusEvent)
  <2>1. 0 \in 0..n
    BY <1>2
  <2> QED
    BY <1>1, <1>2, <2>1, Zenon
<1>4. 0 \in Good
  <2>1. b \o <<>> = b /\ <<>> \in Seq(BusEvent)
    BY <1>3, ConcatEmptySeq, EmptySeq
  <2> QED
    BY <1>1, <2>1
<1>5. ASSUME NEW k \in Nat, k \in Good PROVE k + 1 \in Good
  <2> SUFFICES ASSUME k + 1 <= n PROVE \E t \in Seq(BusEvent) : B[k + 1] = b \o t
    OBVIOUS
  <2>1. k <= n /\ k + 1 \in 1..n /\ (k + 1) - 1 = k
    BY <1>2
  <2>2. PICK t \in Seq(BusEvent) : B[k] = b \o t
    BY <1>5, <2>1
  <2> DEFINE G == Perform(Instructions(Packet(s, k)))
  <2>3. Instructions(Packet(s, k)) \in Seq(Sound) /\ B[k + 1] = B[k] \o G
    <3> HIDE DEF G
    <3>1. /\ Instructions(Packet(s, (k + 1) - 1)) \in Seq(Sound)
          /\ B[k + 1] = B[(k + 1) - 1] \o Perform(Instructions(Packet(s, (k + 1) - 1)))
      BY <1>2, <2>1
    <3> QED
      BY <2>1, <3>1 DEF G
  <2>4. G \in Seq(BusEvent)
    BY <2>3, PerformType
  <2> HIDE DEF G
  <2>5. (b \o t) \o G = b \o (t \o G) /\ t \o G \in Seq(BusEvent)
    BY <1>3, <2>2, <2>4, Regrouped, ConcatProperties
  <2> QED
    BY <2>2, <2>3, <2>5
<1> HIDE DEF Good
<1>6. n \in Good
  BY <1>2, <1>4, <1>5, RoundByRound
<1>7. PICK t \in Seq(BusEvent) : e = b \o t
  <2>1. n <= n
    BY <1>2
  <2>2. \E t \in Seq(BusEvent) : B[n] = b \o t
    BY <1>6, <2>1, Zenon DEF Good
  <2> QED
    BY <1>1, <2>2, Zenon
<1>8. Len(b) \in Nat /\ Len(t) \in Nat /\ Len(e) = Len(b) + Len(t)
  BY <1>3, <1>7, ConcatProperties, LenProperties
<1>9. SubSeq(b, 1, Len(b)) = SubSeq(e, 1, Len(b))
  <2>1. CASE Len(b) = 0
    <3>1. e \in Seq(BusEvent)
      BY <1>3, <1>7, ConcatProperties
    <3> QED
      BY <1>3, <2>1, <3>1, SubSeqEmpty
  <2>2. CASE Len(b) # 0
    <3>1. 1 \in 1..Len(b) /\ Len(b) \in 1..Len(b)
      BY <1>8, <2>2
    <3> QED
      BY <1>3, <1>7, <3>1, SubSeqOfConcat1
  <2> QED
    BY <2>1, <2>2
<1> QED
  BY <1>8, <1>9 DEF IsPrefix

-----------------------------------------------------------------------------
(* What is sent before each transaction *)

(* Its only instruction sets the speed. *)
LEMMA SpeedOnBus ==
    /\ Perform(Instructions(encodeConfiguration(Speed))) = << <<"speed", command(Speed)>> >>
    /\ << <<"speed", command(Speed)>> >> \in Seq(BusEvent)
<1> DEFINE c == command(Speed)
           p == <<streamStart, c, streamEnd>>
           i == [command |-> c, operands |-> <<>>]
           e == << <<"speed", c>> >>
<1>1. c \in \h60..\h63 /\ c \in Int /\ c # streamEnd /\ c \notin \h80..\hBF
  BY StreamAssumption DEF command, streamEnd
<1>2. Instructions(encodeConfiguration(Speed)) = Instructions(p)
  BY DEF encodeConfiguration
<1>3. Events(i) = e
  <2>1. i.command = c
    OBVIOUS
  <2> HIDE DEF i, c
  <2> QED
    BY <1>1, <2>1, Zenon DEF Events
<1>4. e \in Seq(BusEvent)
  <2> HIDE DEF c
  <2>1. <<"speed", c>> \in BusEvent
    BY <1>1 DEF BusEvent
  <2> QED
    BY <2>1
<1>5. /\ p \in Seq(Int) /\ Len(p) = 3 /\ p[2] = c /\ p[3] = streamEnd
  <2>1. streamStart \in Int /\ streamEnd \in Int
    BY DEF streamStart, streamEnd
  <2> HIDE DEF c
  <2> QED
    BY <1>1, <2>1
<1> HIDE DEF c, p
<1>6. PICK w : Walk(w, p, 2) /\ Instructions(p) = w[2]
  <2>1. Len(p) >= 1
    BY <1>5
  <2> QED
    BY <1>5, <2>1, InstructionsAreFound
<1>7. w[2] = Found(w, p, 2) /\ w[3] = Found(w, p, 3)
  <2>1. 2 \in 2 .. Len(p) + 1 /\ 3 \in 2 .. Len(p) + 1
    BY <1>5
  <2> QED
    BY <1>6, <2>1, WalkAt
<1>8. w[3] = <<>>
  BY <1>5, <1>7 DEF Found
<1>9. w[2] = <<i>> \o w[3]
  <2>1. width(p[2]) = 0
    BY <1>1, <1>5, Zenon DEF width
  <2>2. SubSeq(p, 2 + 1, 2 + 0) = <<>>
    BY SubSeqEmpty
  <2>3. ~(2 > Len(p)) /\ ~(2 + 0 > Len(p)) /\ 2 + 1 + 0 = 3
    BY <1>5
  <2>4. p[2] # streamEnd
        /\ p[2] \in {streamI2CStart, streamI2CStop} \cup \h60..\h63 \cup \h80..\hFF
    BY <1>1, <1>5
  <2>5. Found(w, p, 2) = <<[command |-> p[2], operands |-> SubSeq(p, 2 + 1, 2 + width(p[2]))]>>
                         \o w[2 + 1 + width(p[2])]
    BY <2>1, <2>3, <2>4, Zenon DEF Found
  <2> QED
    BY <1>5, <1>7, <2>1, <2>2, <2>3, <2>5, Zenon
<1>10. Instructions(p) = <<i>>
  <2>1. <<i>> \in Seq({i})
    OBVIOUS
  <2>2. <<i>> \o <<>> = <<i>>
    BY <2>1, ConcatEmptySeq
  <2> QED
    BY <1>6, <1>8, <1>9, <2>2, Zenon
<1>11. Perform(<<i>>) = e
  <2> HIDE DEF i, e
  <2>1. Perform(<<i>>) = FlattenSeq([k \in DOMAIN <<i>> |-> Events(<<i>>[k])])
    BY DEF Perform
  <2>2. [k \in DOMAIN <<i>> |-> Events(<<i>>[k])] = <<e>>
    <3> DEFINE one == <<i>>
               f == [k \in DOMAIN one |-> Events(one[k])]
    <3>1. DOMAIN one = 1..1 /\ one[1] = i
      OBVIOUS
    <3>2. \A k \in 1..1 : one[k] = i
      BY <3>1
    <3> HIDE DEF one
    <3>3. f = [k \in 1..1 |-> e]
      BY <1>3, <3>1, <3>2, Zenon
    <3> HIDE DEF f
    <3>4. [k \in 1..1 |-> e] = <<e>>
      OBVIOUS
    <3> QED
      BY <3>3, <3>4 DEF f, one
  <2>3. FlattenSeq(<<e>>) = e
    <3>1. <<>> \in Seq(Seq(BusEvent)) /\ Append(<<>>, e) = <<e>>
      BY EmptySeq
    <3>2. FlattenSeq(Append(<<>>, e)) = FlattenSeq(<<>>) \o e
      BY <1>4, <3>1, FlattenAppend
    <3>3. FlattenSeq(<<>>) = <<>>
      BY DEF FlattenSeq
    <3>4. <<>> \o e = e
      BY <1>4, ConcatEmptySeq
    <3> QED
      BY <3>1, <3>2, <3>3, <3>4, Zenon
  <2> QED
    BY <2>1, <2>2, <2>3, Zenon
<1> QED
  BY <1>2, <1>4, <1>10, <1>11, Zenon DEF c

-----------------------------------------------------------------------------
(* Answers *)

Bytes == Seq(Int)

(* A flattening is as long as its sequences together. *)
LEMMA FlattenLength ==
    ASSUME NEW S, NEW seqs \in Seq(Seq(S))
    PROVE  Len(FlattenSeq(seqs)) = Total([k \in DOMAIN seqs |-> Len(seqs[k])])
<1> DEFINE lengths(s) == [k \in DOMAIN s |-> Len(s[k])]
           Good == {n \in Nat : \A s \in Seq(Seq(S)) :
                        Len(s) = n => Len(FlattenSeq(s)) = Total(lengths(s))}
<1>1. \A s \in Seq(Seq(S)) : /\ DOMAIN s = 1..Len(s) /\ Len(s) \in Nat
                             /\ \A k \in 1..Len(s) : s[k] \in Seq(S) /\ Len(s[k]) \in Nat
  BY LenProperties, ElementOfSeq
<1>2. ASSUME NEW s \in Seq(Seq(S))
      PROVE  lengths(s) \in Seq(Nat) /\ Len(lengths(s)) = Len(s)
             /\ \A k \in 1..Len(s) : lengths(s)[k] = Len(s[k])
  <2>1. lengths(s) \in [1..Len(s) -> Nat] /\ \A k \in 1..Len(s) : lengths(s)[k] = Len(s[k])
    BY <1>1, Zenon
  <2> HIDE DEF lengths
  <2>2. Len(s) \in Nat
    BY <1>1
  <2> QED
    BY <2>1, <2>2, FunctionIsSeq
<1>3. 0 \in Good
  <2>1. ASSUME NEW s \in Seq(Seq(S)), Len(s) = 0
        PROVE  Len(FlattenSeq(s)) = Total(lengths(s))
    <3>1. s = <<>>
      BY <2>1, EmptySeq
    <3>2. FlattenSeq(s) = <<>>
      BY <3>1 DEF FlattenSeq
    <3>3. lengths(s) = <<>>
      BY <1>2, <2>1, EmptySeq
    <3> HIDE DEF lengths
    <3>4. Len(<<>>) = 0 /\ <<>> \in Seq(Nat)
      BY EmptySeq
    <3>5. 0 \in Nat
      OBVIOUS
    <3>6. Total(<<>>) = 0
      BY <3>4, <3>5, TotalAppend
    <3> QED
      BY <3>2, <3>3, <3>4, <3>6
  <2> QED
    BY <2>1
<1>4. ASSUME NEW n \in Nat, n \in Good PROVE n + 1 \in Good
  <2>1. ASSUME NEW s \in Seq(Seq(S)), Len(s) = n + 1
        PROVE  Len(FlattenSeq(s)) = Total(lengths(s))
    <3>1. s # <<>>
      BY <2>1, EmptySeq
    <3>2. PICK t \in Seq(Seq(S)), e \in Seq(S) : s = Append(t, e)
      BY <3>1, SequenceEmptyOrAppend
    <3>3. /\ Len(t) = n /\ (\A k \in 1..n : s[k] = t[k]) /\ s[n + 1] = e
      <4>1. /\ Len(s) = Len(t) + 1 /\ Len(t) \in Nat
            /\ (\A k \in 1..Len(t) : s[k] = t[k]) /\ s[Len(t) + 1] = e
        BY <3>2, AppendProperties, LenProperties
      <4>2. Len(t) = n
        BY <2>1, <4>1
      <4> QED
        BY <4>1, <4>2
    <3>4. Len(FlattenSeq(t)) = Total(lengths(t))
      BY <1>4, <3>3
    <3>5. /\ FlattenSeq(s) = FlattenSeq(t) \o e /\ FlattenSeq(t) \in Seq(S)
      BY <3>2, FlattenAppend, FlattenType
    <3>6. Len(FlattenSeq(s)) = Len(FlattenSeq(t)) + Len(e)
      BY <3>5, ConcatProperties
    <3>7. /\ lengths(s) \in Seq(Nat) /\ Len(lengths(s)) = n + 1
          /\ \A k \in 1 .. n + 1 : lengths(s)[k] = Len(s[k])
      BY <1>2, <2>1
    <3>8. /\ lengths(t) \in Seq(Nat) /\ Len(lengths(t)) = n
          /\ \A k \in 1..n : lengths(t)[k] = Len(t[k])
      BY <1>2, <3>3
    <3> DEFINE l == lengths(t)
               m == Len(e)
               more == lengths(s)
    <3> HIDE DEF lengths
    <3>9. m \in Nat
      BY LenProperties
    <3> HIDE DEF l, m, more
    <3>10. /\ Append(l, m) \in Seq(Nat) /\ Len(Append(l, m)) = n + 1
           /\ (\A k \in 1..n : Append(l, m)[k] = l[k]) /\ Append(l, m)[n + 1] = m
      BY <3>8, <3>9, AppendProperties DEF l
    <3>11. \A k \in 1 .. n + 1 : more[k] = Append(l, m)[k]
      <4>1. \A k \in 1 .. n + 1 : k \in 1..n \/ k = n + 1
        OBVIOUS
      <4>2. \A k \in 1..n : k \in 1 .. n + 1
        OBVIOUS
      <4>3. n + 1 \in 1 .. n + 1
        OBVIOUS
      <4>4. \A k \in 1..n : more[k] = Append(l, m)[k]
        BY <3>3, <3>7, <3>8, <3>10, <4>2, Zenon DEF l, more
      <4>5. more[n + 1] = Append(l, m)[n + 1]
        BY <3>3, <3>7, <3>10, <4>3, Zenon DEF m, more
      <4> QED
        BY <4>1, <4>4, <4>5
    <3>12. more = Append(l, m)
      <4>1. more \in Seq(Nat) /\ Len(more) = n + 1
        BY <3>7 DEF more
      <4> QED
        BY <3>10, <3>11, <4>1, SeqEqual
    <3>13. l \in Seq(Nat)
      BY <3>8 DEF l
    <3>14. Total(Append(l, m)) = Total(l) + m
      BY <3>9, <3>13, TotalAppend
    <3> QED
      BY <3>4, <3>6, <3>12, <3>14, Zenon DEF l, m, more
  <2> QED
    BY <2>1
<1> HIDE DEF Good
<1>5. \A n \in Nat : n \in Good
  BY <1>3, <1>4, RoundByRound
<1>6. Len(seqs) \in Nat
  BY LenProperties
<1> QED
  BY <1>5, <1>6 DEF Good

(* There is a status byte for each write that the bridge acknowledges, and  *)
(* all of them are zero when no write is refused.                           *)
LEMMA StatusBytesType ==
    ASSUME NEW I \in Seq(Sound), NEW nacked
    PROVE  /\ StatusBytes(I, nacked) \in Bytes
           /\ Len(StatusBytes(I, nacked)) = writtenBytes(I)
           /\ StatusBytes(I, 0) \in Seq({0})
<1> DEFINE one(k, refusedAt) == IF I[k].command \in WithStatus
                                THEN <<IF k = refusedAt THEN \h80 ELSE 0>> ELSE <<>>
           f(refusedAt) == [k \in DOMAIN I |-> one(k, refusedAt)]
<1>1. DOMAIN I = 1..Len(I) /\ Len(I) \in Nat /\ \A k \in 1..Len(I) : I[k] \in Sound
  BY LenProperties, ElementOfSeq
<1>2. \A refusedAt : StatusBytes(I, refusedAt) = FlattenSeq(f(refusedAt))
  BY Zenon DEF StatusBytes
<1>3. <<>> \in Bytes /\ Len(<<>>) = 0 /\ <<>> \in Seq({0})
  BY EmptySeq DEF Bytes
<1>4. \A k : one(k, nacked) \in Bytes
             /\ Len(one(k, nacked)) = IF I[k].command \in WithStatus THEN 1 ELSE 0
  <2> SUFFICES ASSUME NEW k
               PROVE  one(k, nacked) \in Bytes
                      /\ Len(one(k, nacked)) = IF I[k].command \in WithStatus THEN 1 ELSE 0
    OBVIOUS
  <2> DEFINE b == IF k = nacked THEN \h80 ELSE 0
  <2>1. b \in Int
    OBVIOUS
  <2> HIDE DEF b
  <2>2. <<b>> \in Bytes /\ Len(<<b>>) = 1
    BY <2>1 DEF Bytes
  <2> QED
    BY <1>3, <2>2 DEF b
<1>5. ASSUME NEW k \in 1..Len(I)
      PROVE  (IF I[k].command \in WithStatus THEN 1 ELSE 0)
                 = IF I[k].command \in WithStatus THEN encodedLength(I[k].command) ELSE 0
  <2> DEFINE c == I[k].command
  <2>1. c \in Commands
    BY <1>1, CodedAs
  <2>2. \A a \in WithStatus : a % 64 = 0
    BY DEF WithStatus
  <2> HIDE DEF c
  <2>3. c \in WithStatus => encodedLength(c) = 1
    BY <2>2 DEF encodedLength
  <2> QED
    BY <2>3 DEF c
<1>6. ASSUME NEW k \in 1..Len(I) PROVE one(k, 0) \in Seq({0})
  <2>1. k # 0
    BY <1>1
  <2>2. one(k, 0) = IF I[k].command \in WithStatus THEN <<0>> ELSE <<>>
    BY <2>1
  <2>3. <<0>> \in Seq({0})
    OBVIOUS
  <2> HIDE DEF one
  <2> QED
    BY <1>3, <2>2, <2>3
<1> DEFINE s == f(nacked)
           z == f(0)
<1>7. s \in [1..Len(I) -> Bytes] /\ \A k \in 1..Len(I) : s[k] = one(k, nacked)
  <2> HIDE DEF one
  <2> QED
    BY <1>1, <1>4, Zenon
<1>8. z \in [1..Len(I) -> Seq({0})]
  <2> HIDE DEF one
  <2> QED
    BY <1>1, <1>6, Zenon
<1>9. StatusBytes(I, nacked) = FlattenSeq(s) /\ StatusBytes(I, 0) = FlattenSeq(z)
  BY <1>2, Zenon
<1> HIDE DEF s, z
<1>10. s \in Seq(Seq(Int)) /\ Len(s) = Len(I) /\ z \in Seq(Seq({0}))
  BY <1>1, <1>7, <1>8, FunctionIsSeq DEF Bytes
<1>11. FlattenSeq(s) \in Seq(Int) /\ FlattenSeq(z) \in Seq({0})
  BY <1>10, FlattenType
<1>12. Len(FlattenSeq(s)) = Total([k \in DOMAIN s |-> Len(s[k])])
  BY <1>10, FlattenLength
<1>13. [k \in DOMAIN s |-> Len(s[k])]
           = [k \in DOMAIN I |-> IF I[k].command \in WithStatus
                                 THEN encodedLength(I[k].command) ELSE 0]
  <2>1. DOMAIN s = 1..Len(I) /\ DOMAIN I = 1..Len(I)
    BY <1>1, <1>7
  <2>2. \A k \in 1..Len(I) : Len(s[k]) = IF I[k].command \in WithStatus
                                         THEN encodedLength(I[k].command) ELSE 0
    <3> HIDE DEF one
    <3> QED
      BY <1>4, <1>5, <1>7, Zenon
  <2> QED
    BY <2>1, <2>2, Zenon
<1>14. Len(FlattenSeq(s)) = writtenBytes(I)
  BY <1>12, <1>13, Zenon DEF writtenBytes
<1> QED
  BY <1>9, <1>11, <1>14 DEF Bytes

(* The data bytes of an answer. *)
LEMMA SlaveBytesType ==
    ASSUME NEW I \in Seq(Sound), calls \in Nat, Len(sent) \in Nat
    PROVE  SlaveBytes(I) \in Bytes /\ Len(SlaveBytes(I)) = dataBytes(I)
<1> DEFINE n == dataBytes(I)
<1>1. n \in Nat
  BY CountsAreNumbers
<1>2. SlaveBytes(I) = [k \in 1..n |-> (7 + 64 * calls + Len(sent) + k) % 256]
  BY DEF SlaveBytes
<1> HIDE DEF n
<1>3. \A k \in 1..n : (7 + 64 * calls + Len(sent) + k) % 256 \in Int
  BY <1>1
<1>4. SlaveBytes(I) \in [1..n -> Int]
  BY <1>2, <1>3
<1>5. SlaveBytes(I) \in Seq(Int) /\ Len(SlaveBytes(I)) = n
  BY <1>1, <1>4, FunctionIsSeq
<1> QED
  BY <1>5 DEF Bytes, n

(* No packet of the encoder is refused by instructionLengths. *)
LEMMA SoundIsWellFormed ==
    ASSUME NEW I \in Seq(Sound)
    PROVE  ~Malformed(I)
<1>1. DOMAIN I = 1..Len(I) /\ \A k \in 1..Len(I) : I[k] \in Sound
  BY LenProperties, ElementOfSeq
<1>2. \A i \in Sound : i.command \in Commands
  BY CodedAs
<1>3. -1 \notin Commands
  BY DEF Commands, streamI2CStart, streamI2CStop
<1> QED
  BY <1>1, <1>2, <1>3, Zenon DEF Malformed, badCommand

(* A part of a sequence of bytes. *)
LEMMA PartOfBytes ==
    ASSUME NEW s \in Bytes, NEW m \in Nat, NEW n \in Nat, m >= 1, n <= Len(s)
    PROVE  /\ SubSeq(s, m, n) \in Bytes
           /\ Len(SubSeq(s, m, n)) = IF m <= n THEN n - m + 1 ELSE 0
BY PartType DEF Bytes

(* Without a byte that comes later, an answer is complete, without its      *)
(* status bytes, or missing; one of full length is complete.                *)
LEMMA ArrivalKinds ==
    ASSUME NEW status \in Bytes, NEW data \in Bytes,
           NEW arrival \in Arrivals(status, data)
    PROVE  /\ arrival.now \in Bytes /\ arrival.later \in Bytes
           /\ arrival.later = <<>> => arrival.now \in {status \o data, data, <<>>}
           /\ Len(arrival.now) = Len(status) + Len(data)
                  => arrival.now = status \o data /\ arrival.later = <<>>
<1> DEFINE answer == status \o data
           cut(k) == [now |-> SubSeq(answer, 1, k),
                      later |-> SubSeq(answer, k + 1, Len(answer))]
<1>1. /\ answer \in Seq(Int) /\ answer \in Bytes /\ Len(answer) \in Nat
      /\ Len(answer) = Len(status) + Len(data)
      /\ status \in Seq(Int) /\ data \in Seq(Int) /\ Len(status) \in Nat /\ Len(data) \in Nat
  BY ConcatAt DEF Bytes
<1>2. \/ \E k \in 0..Len(answer) : arrival = cut(k)
      \/ arrival = [now |-> data, later |-> <<>>]
      \/ arrival = [now |-> <<>>, later |-> <<>>]
  <2>1. \/ arrival = cut(Len(answer))
        \/ \E k \in {0, 1, maxStreamPacketBytes} \cap 0..Len(answer) : arrival = cut(k)
        \/ arrival = [now |-> data, later |-> <<>>]
        \/ arrival = [now |-> <<>>, later |-> <<>>]
    BY DEF Arrivals
  <2>2. Len(answer) \in 0..Len(answer)
    BY <1>1
  <2> HIDE DEF cut, answer
  <2> QED
    BY <2>1, <2>2
<1>7. Len(data) = Len(status) + Len(data) => data = answer
  <2>1. Len(data) = Len(status) + Len(data) => status = <<>>
    BY <1>1, EmptySeq
  <2>2. <<>> \o data = data
    BY <1>1, ConcatEmptySeq
  <2> QED
    BY <2>1, <2>2
<1>8. 0 = Len(status) + Len(data) => <<>> = answer
  <2>1. 0 = Len(status) + Len(data) => Len(answer) = 0
    BY <1>1
  <2> HIDE DEF answer
  <2> QED
    BY <1>1, <2>1, EmptySeq
<1> HIDE DEF answer
<1>3. ASSUME NEW k \in 0..Len(answer)
      PROVE  /\ cut(k).now \in Bytes /\ cut(k).later \in Bytes
             /\ cut(k).later = <<>> => cut(k).now = answer
             /\ Len(cut(k).now) = Len(answer) => cut(k).now = answer /\ cut(k).later = <<>>
  <2>1. k \in Nat /\ k + 1 \in Nat /\ k <= Len(answer)
    BY <1>1
  <2>2. /\ SubSeq(answer, 1, k) \in Bytes
        /\ Len(SubSeq(answer, 1, k)) = IF 1 <= k THEN k - 1 + 1 ELSE 0
    BY <1>1, <2>1, PartOfBytes
  <2>3. /\ SubSeq(answer, k + 1, Len(answer)) \in Bytes
        /\ Len(SubSeq(answer, k + 1, Len(answer)))
               = IF k + 1 <= Len(answer) THEN Len(answer) - (k + 1) + 1 ELSE 0
    BY <1>1, <2>1, PartOfBytes
  <2>4. SubSeq(answer, 1, Len(answer)) = answer
    BY <1>1, SubSeqFull
  <2>5. SubSeq(answer, k + 1, Len(answer)) = <<>> => k = Len(answer)
    <3> DEFINE later == SubSeq(answer, k + 1, Len(answer))
    <3>1. later = <<>> => Len(later) = 0
      BY EmptySeq
    <3>2. Len(later) = IF k + 1 <= Len(answer) THEN Len(answer) - (k + 1) + 1 ELSE 0
      BY <2>3
    <3> HIDE DEF later
    <3>3. \A a \in Nat : k <= a /\ 0 = (IF k + 1 <= a THEN a - (k + 1) + 1 ELSE 0) => k = a
      BY <2>1
    <3>4. later = <<>> => k = Len(answer)
      BY <1>1, <2>1, <3>1, <3>2, <3>3, Zenon
    <3> QED
      BY <3>4 DEF later
  <2>6. Len(SubSeq(answer, 1, k)) = Len(answer) => k = Len(answer)
    <3>1. \A j \in Nat : (IF 1 <= j THEN j - 1 + 1 ELSE 0) = j
      OBVIOUS
    <3>2. Len(SubSeq(answer, 1, k)) = k
      BY <2>1, <2>2, <3>1, Zenon
    <3> QED
      BY <3>2
  <2>7. SubSeq(answer, Len(answer) + 1, Len(answer)) = <<>>
    BY <1>1, SubSeqEmpty
  <2> QED
    BY <2>2, <2>3, <2>4, <2>5, <2>6, <2>7
<1>4. <<>> \in Bytes /\ Len(<<>>) = 0
  BY EmptySeq DEF Bytes
<1>5. CASE \E k \in 0..Len(answer) : arrival = cut(k)
  <2> HIDE DEF cut
  <2> QED
    BY <1>1, <1>3, <1>5 DEF answer
<1>6. CASE arrival \in {[now |-> data, later |-> <<>>], [now |-> <<>>, later |-> <<>>]}
  BY <1>4, <1>6, <1>7, <1>8 DEF answer
<1> QED
  BY <1>2, <1>5, <1>6

(* received[dataStart:] of a complete answer, of one without status bytes,  *)
(* and of none, is its data.                                                *)
LEMMA LastPart ==
    ASSUME NEW status \in Bytes, NEW data \in Bytes, NEW n \in Nat, Len(data) = n,
           NEW answer \in {status \o data, data, <<>>}, n <= Len(answer)
    PROVE  dataOf(answer, n) = data
<1>1. status \in Seq(Int) /\ data \in Seq(Int) /\ Len(status) \in Nat /\ Len(data) \in Nat
  BY DEF Bytes
<1>2. CASE answer = data
  <2>1. Len(answer) - n + 1 = 1
    BY <1>1, <1>2
  <2>2. SubSeq(data, 1, Len(data)) = data
    BY <1>1, SubSeqFull
  <2> QED
    BY <1>2, <2>1, <2>2 DEF dataOf
<1>3. CASE answer = <<>>
  <2>1. n = 0
    BY <1>3
  <2>2. data = <<>>
    BY <1>1, <2>1, EmptySeq
  <2> QED
    BY <1>2, <1>3, <2>2
<1>4. CASE answer = status \o data /\ n > 0
  <2>1. Len(answer) = Len(status) + n /\ Len(answer) - n + 1 = Len(status) + 1
    <3>1. Len(answer) = Len(status) + Len(data)
      BY <1>1, <1>4, ConcatProperties, Zenon
    <3> QED
      BY <1>1, <3>1
  <2>2. /\ Len(status) + 1 \in Len(status) + 1 .. Len(status) + Len(data)
        /\ Len(status) + n \in Len(status) + 1 .. Len(status) + Len(data)
    BY <1>1, <1>4
  <2>3. SubSeq(status \o data, Len(status) + 1, Len(status) + n)
            = SubSeq(data, Len(status) + 1 - Len(status), Len(status) + n - Len(status))
    BY <1>1, <2>2, SubSeqOfConcat2
  <2>4. Len(status) + 1 - Len(status) = 1 /\ Len(status) + n - Len(status) = n
    BY <1>1
  <2>5. SubSeq(data, 1, n) = data
    BY <1>1, SubSeqFull
  <2> QED
    BY <1>4, <2>1, <2>3, <2>4, <2>5 DEF dataOf
<1>5. CASE answer = status \o data /\ n = 0
  <2>1. data = <<>>
    BY <1>1, <1>5, EmptySeq
  <2>2. answer \in Seq(Int) /\ Len(answer) \in Nat
    BY <1>1, <1>5, ConcatProperties, LenProperties
  <2>3. Len(answer) - n + 1 \in Int /\ Len(answer) < Len(answer) - n + 1
    BY <1>5, <2>2
  <2> QED
    BY <2>1, <2>2, <2>3, SubSeqEmpty DEF dataOf
<1> QED
  BY <1>2, <1>3, <1>4, <1>5

-----------------------------------------------------------------------------
(* The invariant *)

StreamTypes ==
    /\ pc \in {"idle", "configure", "send", "receive"}
    /\ sent \in Bytes /\ response \in Bytes /\ fifo \in Bytes /\ held \in Bytes
    /\ calls \in Nat /\ faults \in Nat
    /\ told \in BOOLEAN /\ stray \in BOOLEAN

(* What remains to be sent takes the bus from what is on it to what is      *)
(* expected, and the data read so far to as many as were asked for.         *)
OnItsWay ==
    /\ pc # "idle" => ~rejected(request)
    /\ pc = "configure" =>
           Leads(stream, <<>>, Meaning(request), 0, request.read) /\ response = <<>>
    /\ pc = "send" =>
           Leads(stream, bus, Expected(request), Len(response), request.read)
    /\ pc = "receive" =>
           /\ Instructions(segment) \in Seq(Sound)
           /\ Leads(stream, bus, Expected(request),
                    Len(response) + dataBytes(Instructions(segment)), request.read)

(* The answer that execute is about to read: all of it, without the status  *)
(* bytes, or nothing; on a bridge that works all of it, nothing refused.    *)
Awaiting ==
    \E status, data \in Bytes :
        /\ Len(status) = writtenBytes(Instructions(segment))
        /\ Len(data) = dataBytes(Instructions(segment))
        /\ sent = response \o data
        /\ fifo \in {status \o data, data, <<>>}
        /\ told => \E k \in 1 .. Len(fifo) - Len(data) : fifo[k] = 128
        /\ faults = 0 => fifo = status \o data /\ status \in Seq({0})

(* As long as no byte was late or left behind by a failed transfer, nothing *)
(* is there to read between two packets, and what was taken from the        *)
(* answers so far is what the slave sent.                                   *)
Matched ==
    /\ held = <<>>
    /\ pc # "receive" => fifo = <<>>
    /\ pc \in {"configure", "send"} => response = sent /\ ~told
    /\ pc = "receive" => Awaiting
    /\ pc = "idle" /\ result = "ok" => response = sent /\ ~told

Healthy == (faults = 0 => ~stray) /\ HealthySucceeds

StreamInv == StreamTypes /\ OnItsWay /\ (~stray => Matched) /\ BusMatches /\ Healthy

(* Nothing has happened. *)
LEMMA InitStream == Init => StreamInv
<1> SUFFICES ASSUME Init PROVE StreamInv
  OBVIOUS
<1>1. told \in BOOLEAN /\ stray \in BOOLEAN
  BY Zenon DEF Init
<1>2. <<>> \in Bytes
  BY DEF Bytes
<1>3. StreamTypes
  BY <1>1, <1>2 DEF Init, StreamTypes
<1>4. Matched
  BY DEF Init, Matched
<1>5. OnItsWay /\ BusMatches
  BY DEF Init, OnItsWay, BusMatches
<1>6. Healthy
  <2>1. ~stray /\ ~(calls > 0)
    BY DEF Init
  <2> QED
    BY <2>1, Zenon DEF Healthy, HealthySucceeds
<1> QED
  BY <1>3, <1>4, <1>5, <1>6 DEF StreamInv

(* A request comes in. *)
LEMMA TransactionStep ==
    ASSUME StreamInv, NEW r \in Requests, Transaction(r)
    PROVE  StreamInv'
<1>1. /\ pc = "idle" /\ calls' = calls + 1 /\ request' = r
      /\ response' = <<>> /\ sent' = <<>>
      /\ told' = FALSE /\ UNCHANGED <<fifo, held, stray, faults>>
  BY DEF Transaction
<1>2. \/ rejected(r) /\ pc' = "idle" /\ result' = "invalid_request"
      \/ ~rejected(r) /\ pc' = "configure" /\ stream' = encoded[r]
  BY DEF Transaction, Return
<1>3. <<>> \in Bytes
  BY DEF Bytes
<1>4. StreamTypes'
  <2>1. told' \in BOOLEAN /\ stray' \in BOOLEAN
    BY <1>1, Zenon DEF StreamInv, StreamTypes
  <2>2. calls' \in Nat
    BY <1>1 DEF StreamInv, StreamTypes
  <2> QED
    BY <1>1, <1>2, <1>3, <2>1, <2>2 DEF StreamInv, StreamTypes
<1>5. ~stray => Matched'
  BY <1>1, <1>2 DEF StreamInv, Matched
<1>6. OnItsWay'
  <2>1. ~rejected(r) => Leads(encoded[r], <<>>, Meaning(r), 0, r.read)
    BY EncodedLeads
  <2> QED
    BY <1>1, <1>2, <2>1 DEF OnItsWay
<1>7. BusMatches'
  BY <1>2 DEF BusMatches
<1>8. Healthy'
  BY <1>1, <1>2 DEF StreamInv, Healthy, HealthySucceeds
<1> QED
  BY <1>1, <1>4, <1>5, <1>6, <1>7, <1>8 DEF StreamInv

(* The speed is sent. *)
LEMMA ConfigureStep == ASSUME StreamInv, Configure PROVE StreamInv'
<1>1. /\ pc = "configure" /\ pc' = "send"
      /\ bus' = Perform(Instructions(encodeConfiguration(Speed)))
      /\ UNCHANGED <<request, stream, segment, response, result, sent, told, fifo, held,
                     stray, calls, faults>>
  BY DEF Configure, counters
<1>2. OnItsWay'
  <2> DEFINE e == << <<"speed", command(Speed)>> >>
  <2>1. bus' = e /\ e \in Seq(BusEvent) /\ Expected(request) = e \o Meaning(request)
    BY <1>1, SpeedOnBus DEF Expected
  <2> HIDE DEF e
  <2>2. /\ Leads(stream, <<>>, Meaning(request), 0, request.read) /\ response = <<>>
        /\ ~rejected(request)
    BY <1>1 DEF StreamInv, OnItsWay
  <2>3. Leads(stream, e \o <<>>, e \o Meaning(request), 0, request.read)
    BY <2>1, <2>2, LeadsOn
  <2>4. e \o <<>> = e /\ Len(<<>>) = 0
    BY <2>1, ConcatEmptySeq, EmptySeq
  <2>5. Leads(stream, bus', Expected(request), Len(response), request.read)
    BY <2>1, <2>2, <2>3, <2>4, Zenon
  <2> QED
    BY <1>1, <2>2, <2>5 DEF OnItsWay
<1>3. StreamTypes'
  BY <1>1 DEF StreamInv, StreamTypes
<1>4. ~stray' => Matched'
  BY <1>1 DEF StreamInv, Matched
<1>5. BusMatches' /\ Healthy'
  BY <1>1 DEF StreamInv, BusMatches, Healthy, HealthySucceeds
<1> QED
  BY <1>2, <1>3, <1>4, <1>5 DEF StreamInv

(* An error return with nothing left to read. *)
LEMMA ErrorReturn ==
    ASSUME StreamInv, NEW kind, kind # "ok", Return(kind), fifo' \in Bytes,
           stray' \in BOOLEAN, ~stray' => ~stray /\ fifo' = <<>>,
           faults' \in Nat, faults' # 0, sent' \in Bytes,
           UNCHANGED <<response, told, held, calls>>
    PROVE  StreamInv'
<1>1. pc' = "idle" /\ result' # "ok"
  BY DEF Return
<1>2. StreamTypes'
  BY <1>1 DEF StreamInv, StreamTypes
<1>3. ~stray' => Matched'
  BY <1>1 DEF StreamInv, Matched
<1>4. OnItsWay' /\ BusMatches' /\ Healthy'
  BY <1>1 DEF OnItsWay, BusMatches, Healthy, HealthySucceeds
<1> QED
  BY <1>2, <1>3, <1>4 DEF StreamInv

(* The next packet, of a transaction that sends. *)
LEMMA NextPacket ==
    ASSUME StreamInv, pc = "send", stream # <<>>
    PROVE  /\ ~rejected(request)
           /\ Instructions(SubSeq(stream, 1, segmentEnd)) \in Seq(Sound)
           /\ Leads(SubSeq(stream, segmentEnd + 1, Len(stream)),
                    bus \o Perform(Instructions(SubSeq(stream, 1, segmentEnd))),
                    Expected(request),
                    Len(response) + dataBytes(Instructions(SubSeq(stream, 1, segmentEnd))),
                    request.read)
<1>1. Leads(stream, bus, Expected(request), Len(response), request.read)
      /\ ~rejected(request)
  BY DEF StreamInv, OnItsWay
<1>2. segmentEnd = End(stream)
  BY DEF segmentEnd, End, maxStreamPacketBytes
<1> HIDE DEF segmentEnd
<1> QED
  BY <1>1, <1>2, LeadsAfter

(* A packet that runs although its write failed leaves bytes. *)
LEMMA UnnoticedBytes ==
    ASSUME StreamInv, pc = "send", stream # <<>>, RunsUnnoticed
    PROVE  sent' \in Bytes /\ fifo' \in Bytes
<1> DEFINE instructions == Instructions(SubSeq(stream, 1, segmentEnd))
           data == SlaveBytes(instructions)
           status == StatusBytes(instructions, 0)
<1>1. sent' = sent \o data /\ fifo' = fifo \o (status \o data)
  BY DEF RunsUnnoticed
<1>2. instructions \in Seq(Sound)
  BY NextPacket
<1> HIDE DEF instructions
<1>3. calls \in Nat /\ Len(sent) \in Nat /\ sent \in Seq(Int) /\ fifo \in Seq(Int)
  BY DEF StreamInv, StreamTypes, Bytes
<1>4. data \in Seq(Int) /\ status \in Seq(Int)
  BY <1>2, <1>3, SlaveBytesType, StatusBytesType DEF Bytes
<1> HIDE DEF data, status
<1>5. status \o data \in Seq(Int)
  BY <1>4, ConcatAt
<1> QED
  BY <1>1, <1>3, <1>4, <1>5, ConcatAt DEF Bytes

(* A transfer fails; an answer that was there becomes a stray one. *)
LEMMA TransferFailsStep == ASSUME StreamInv, TransferFails PROVE StreamInv'
<1>1. PICK kind \in {"timeout", "io", "device_missing", "protocol"} : Return(kind)
  BY DEF TransferFails
<1>2. UNCHANGED <<response, told, held, calls>>
  BY DEF TransferFails
<1>3. stray \in BOOLEAN /\ sent' \in Bytes /\ fifo' \in Bytes
  <2>1. stray \in BOOLEAN /\ sent \in Bytes /\ fifo \in Bytes
    BY DEF StreamInv, StreamTypes
  <2>2. \/ UNCHANGED <<sent, fifo>>
        \/ pc = "send" /\ stream # <<>> /\ RunsUnnoticed
    BY DEF TransferFails
  <2> QED
    BY <2>1, <2>2, UnnoticedBytes
<1>4. stray' = (stray \/ fifo' # <<>>)
  BY DEF TransferFails
<1>5. stray' \in BOOLEAN /\ (~stray' => ~stray /\ fifo' = <<>>)
  BY <1>3, <1>4
<1>6. faults' \in Nat /\ faults' # 0
  BY DEF StreamInv, StreamTypes, TransferFails
<1> QED
  BY <1>1, <1>2, <1>3, <1>5, <1>6, ErrorReturn

(* The transaction is complete: nothing is missing on the bus or in the     *)
(* response.                                                                *)
LEMMA CompleteStep == ASSUME StreamInv, Complete PROVE StreamInv'
<1>1. /\ pc = "send" /\ pc' = "idle" /\ stream = <<>>
      /\ result' = IF Len(response) # request.read THEN "protocol" ELSE "ok"
      /\ UNCHANGED <<request, bus, response, sent, told, fifo, held, stray, calls, faults>>
  BY DEF Complete, Return, bridge, counters
<1>2. bus = Expected(request) /\ Len(response) = request.read /\ ~rejected(request)
  <2>1. Leads(<<>>, bus, Expected(request), Len(response), request.read)
        /\ ~rejected(request)
    BY <1>1 DEF StreamInv, OnItsWay
  <2> QED
    BY <2>1, LeadsNowhere
<1>3. result' = "ok"
  BY <1>1, <1>2
<1>4. StreamTypes' /\ OnItsWay'
  BY <1>1 DEF StreamInv, StreamTypes, OnItsWay
<1>5. ~stray' => Matched'
  BY <1>1 DEF StreamInv, Matched
<1>6. BusMatches'
  BY <1>1, <1>2 DEF BusMatches
<1>7. Healthy'
  BY <1>1, <1>2, <1>3 DEF StreamInv, Healthy, HealthySucceeds
<1> QED
  BY <1>4, <1>5, <1>6, <1>7 DEF StreamInv

(* A late byte can only arrive after one was late. *)
LEMMA ArriveStep == ASSUME StreamInv, Arrive PROVE StreamInv'
<1>1. /\ held # <<>> /\ fifo' = fifo \o held /\ held' = <<>>
      /\ UNCHANGED <<pc, request, stream, segment, response, result, bus, sent, told, stray,
                     calls, faults>>
  BY DEF Arrive, code, counters
<1>2. stray
  BY <1>1 DEF StreamInv, Matched
<1>3. fifo' \in Bytes /\ held' \in Bytes
  BY <1>1 DEF StreamInv, StreamTypes, Bytes
<1>4. StreamTypes'
  BY <1>1, <1>3 DEF StreamInv, StreamTypes
<1>5. OnItsWay' /\ BusMatches' /\ Healthy'
  BY <1>1 DEF StreamInv, OnItsWay, BusMatches, Healthy, HealthySucceeds
<1> QED
  BY <1>1, <1>2, <1>4, <1>5 DEF StreamInv

(* A packet is sent. *)
LEMMA SendStep == ASSUME StreamInv, SendSegment PROVE StreamInv'
<1> DEFINE end == segmentEnd
           instructions == Instructions(SubSeq(stream, 1, end))
           data == SlaveBytes(instructions)
           m == writtenBytes(instructions)
           n == dataBytes(instructions)
<1>1. /\ pc = "send" /\ stream # <<>> /\ segment' = SubSeq(stream, 1, end)
      /\ stream' = SubSeq(stream, end + 1, Len(stream))
      /\ bus' = bus \o Perform(instructions)
      /\ sent' = sent \o data /\ UNCHANGED <<request, response, calls>>
  BY DEF SendSegment
<1>2. PICK nacked \in {0} \cup (IF Possible("nack")
                               THEN {k \in DOMAIN instructions : IsWrite(instructions[k])}
                               ELSE {}) :
           \E arrival \in Arrivals(StatusBytes(instructions, nacked), data) :
               /\ refused' = (refused \/ nacked # 0)
               /\ told' = (told \/ \E k \in 1 .. Len(arrival.now) - Len(data) :
                                       arrival.now[k] = 128)
               /\ fifo' = fifo \o arrival.now
               /\ held' = held \o arrival.later
               /\ stray' = (stray \/ arrival.later # <<>>)
               /\ faults' = IF nacked = 0 /\ Len(arrival.now) = m + n
                            THEN faults ELSE faults + 1
  BY DEF SendSegment
<1> DEFINE status == StatusBytes(instructions, nacked)
<1>3. PICK arrival \in Arrivals(status, data) :
               /\ told' = (told \/ \E k \in 1 .. Len(arrival.now) - Len(data) :
                                       arrival.now[k] = 128)
               /\ fifo' = fifo \o arrival.now
               /\ held' = held \o arrival.later
               /\ stray' = (stray \/ arrival.later # <<>>)
               /\ faults' = IF nacked = 0 /\ Len(arrival.now) = m + n
                            THEN faults ELSE faults + 1
  BY <1>2
<1>4. IF Malformed(instructions) THEN Return("protocol")
      ELSE pc' = (IF m + n > 0 THEN "receive" ELSE "send") /\ result' = result
  BY DEF SendSegment
<1>5. Leads(stream, bus, Expected(request), Len(response), request.read) /\ ~rejected(request)
  BY <1>1 DEF StreamInv, OnItsWay
<1>6. /\ instructions \in Seq(Sound)
      /\ Leads(stream', bus', Expected(request), Len(response) + n, request.read)
  BY <1>1, NextPacket, Zenon
<1> HIDE DEF instructions, end
<1>7. ~Malformed(instructions)
  BY <1>6, SoundIsWellFormed
<1>8. m \in Nat /\ n \in Nat
  BY <1>6, CountsAreNumbers
<1>9. /\ data \in Bytes /\ status \in Bytes /\ Len(data) = n /\ Len(status) = m
      /\ nacked = 0 => status \in Seq({0})
  <2>1. calls \in Nat /\ Len(sent) \in Nat
    BY DEF StreamInv, StreamTypes, Bytes
  <2>2. data \in Bytes /\ Len(data) = n
    BY <1>6, <2>1, SlaveBytesType
  <2>3. status \in Bytes /\ Len(status) = m /\ StatusBytes(instructions, 0) \in Seq({0})
    BY <1>6, StatusBytesType
  <2> QED
    BY <2>2, <2>3
<1> HIDE DEF data, m, n, status
<1>10. /\ arrival.now \in Bytes /\ arrival.later \in Bytes
       /\ arrival.later = <<>> => arrival.now \in {status \o data, data, <<>>}
       /\ Len(arrival.now) = m + n => arrival.now = status \o data /\ arrival.later = <<>>
  BY <1>3, <1>9, ArrivalKinds DEF status
<1>11. pc' = (IF m + n > 0 THEN "receive" ELSE "send") /\ result' = result
  BY <1>4, <1>7
<1>12. /\ faults' \in Nat
       /\ faults' = 0 => faults = 0 /\ nacked = 0 /\ Len(arrival.now) = m + n
  BY <1>3 DEF StreamInv, StreamTypes
<1>13. StreamTypes'
  <2>1. sent' \in Bytes /\ fifo' \in Bytes /\ held' \in Bytes /\ response' \in Bytes
        /\ calls' \in Nat
    BY <1>1, <1>3, <1>9, <1>10 DEF StreamInv, StreamTypes, Bytes
  <2>2. told' \in BOOLEAN /\ stray' \in BOOLEAN
    BY <1>3 DEF StreamInv, StreamTypes
  <2>3. pc' \in {"receive", "send"}
    BY <1>11
  <2> QED
    BY <1>12, <2>1, <2>2, <2>3 DEF StreamTypes
<1>14. ASSUME ~stray' PROVE Matched'
  <2>1. ~stray /\ arrival.later = <<>>
    BY <1>3, <1>14 DEF StreamInv, StreamTypes
  <2>2. held = <<>> /\ fifo = <<>> /\ response = sent /\ ~told
    BY <1>1, <2>1 DEF StreamInv, Matched
  <2>3. held' = <<>> /\ fifo' = arrival.now
    BY <1>3, <1>10, <2>1, <2>2, ConcatEmptySeq DEF Bytes
  <2>4. told' => \E k \in 1 .. Len(fifo') - Len(data) : fifo'[k] = 128
    <3>1. told' => \E k \in 1 .. Len(arrival.now) - Len(data) : arrival.now[k] = 128
      BY <1>3, <2>2, Zenon
    <3> QED
      BY <2>3, <3>1
  <2>5. arrival.now \in {status \o data, data, <<>>}
    BY <1>10, <2>1
  <2>6. CASE m + n > 0
    <3>1. pc' = "receive"
      BY <1>11, <2>6
    <3>2. /\ Len(status) = writtenBytes(Instructions(segment'))
          /\ Len(data) = dataBytes(Instructions(segment'))
      BY <1>1, <1>9 DEF m, n, instructions
    <3>3. sent' = response' \o data
      BY <1>1, <2>2
    <3>4. faults' = 0 => fifo' = status \o data /\ status \in Seq({0})
      BY <1>9, <1>10, <1>12, <2>3
    <3>5. fifo' \in {status \o data, data, <<>>}
      BY <2>3, <2>5
    <3>6. Awaiting'
      BY <1>9, <2>4, <3>2, <3>3, <3>4, <3>5, Zenon DEF Awaiting
    <3> QED
      BY <2>3, <3>1, <3>6 DEF Matched
  <2>7. CASE ~(m + n > 0)
    <3>1. pc' = "send" /\ m = 0 /\ n = 0
      BY <1>8, <1>11, <2>7
    <3>2. status = <<>> /\ data = <<>>
      BY <1>9, <3>1, EmptySeq DEF Bytes
    <3>3. arrival.now = <<>>
      BY <2>5, <3>2
    <3>4. sent' = sent
      BY <1>1, <3>2, ConcatEmptySeq DEF StreamInv, StreamTypes, Bytes
    <3>5. ~told'
      <4>1. Len(fifo') - Len(data) = 0
        BY <2>3, <3>2, <3>3
      <4> QED
        BY <2>4, <4>1
    <3> QED
      BY <1>1, <2>2, <2>3, <3>1, <3>3, <3>4, <3>5 DEF Matched
  <2> QED
    BY <2>6, <2>7
<1>15. OnItsWay'
  <2>1. pc' = "send" => Len(response) + n = Len(response)
    <3>1. Len(response) \in Nat
      BY DEF StreamInv, StreamTypes, Bytes
    <3>2. pc' = "send" => n = 0
      BY <1>8, <1>11
    <3> QED
      BY <3>1, <3>2
  <2>2. Instructions(segment') = instructions
    BY <1>1 DEF instructions
  <2>3. pc' = "send" =>
            Leads(stream', bus', Expected(request'), Len(response'), request'.read)
    BY <1>1, <1>6, <2>1, Zenon
  <2>4. Leads(stream', bus', Expected(request'),
              Len(response') + dataBytes(Instructions(segment')), request'.read)
    BY <1>1, <1>6, <2>2, Zenon DEF n
  <2>5. Instructions(segment') \in Seq(Sound) /\ ~rejected(request')
        /\ pc' \in {"send", "receive"}
    BY <1>1, <1>5, <1>6, <1>11, <2>2
  <2> QED
    BY <2>3, <2>4, <2>5 DEF OnItsWay
<1>16. BusMatches' /\ Healthy'
  <2>1. pc' # "idle"
    BY <1>11
  <2>2. faults' = 0 => ~stray'
    BY <1>3, <1>10, <1>12 DEF StreamInv, Healthy
  <2> QED
    BY <2>1, <2>2 DEF BusMatches, Healthy, HealthySucceeds
<1> QED
  BY <1>13, <1>14, <1>15, <1>16 DEF StreamInv

(* The answer is read. *)
LEMMA ReceiveStep == ASSUME StreamInv, Receive PROVE StreamInv'
<1> DEFINE instructions == Instructions(segment)
           m == writtenBytes(instructions)
           n == dataBytes(instructions)
           count == IF Len(fifo) < m + n THEN Len(fifo) ELSE m + n
           received == SubSeq(fifo, 1, count)
<1>1. /\ pc = "receive" /\ fifo' = SubSeq(fifo, count + 1, Len(fifo))
      /\ UNCHANGED <<request, stream, segment, bus, sent, told, held, stray, calls, faults>>
  BY DEF Receive, counters
<1>2. \/ /\ \/ count = 0 /\ n > 0
            \/ count < n
            \/ ~checkStatusBytes(SubSeq(received, 1, count - n))
         /\ \E kind \in {"timeout", "device_missing", "nack"} : Return(kind)
         /\ UNCHANGED response
      \/ /\ ~(count < n) /\ checkStatusBytes(SubSeq(received, 1, count - n))
         /\ response' = response \o dataOf(received, n)
         /\ pc' = "send" /\ result' = result
  <2> HIDE DEF checkStatusBytes, dataOf
  <2> QED
    BY DEF Receive
<1>3. /\ instructions \in Seq(Sound) /\ ~rejected(request)
      /\ Leads(stream, bus, Expected(request), Len(response) + n, request.read)
  BY <1>1 DEF StreamInv, OnItsWay
<1>4. m \in Nat /\ n \in Nat
  BY <1>3, CountsAreNumbers
<1>5. /\ fifo \in Bytes /\ fifo \in Seq(Int) /\ Len(fifo) \in Nat
      /\ response \in Bytes /\ Len(response) \in Nat
      /\ told \in BOOLEAN /\ stray \in BOOLEAN /\ faults \in Nat
  BY DEF StreamInv, StreamTypes, Bytes
<1> HIDE DEF m, n
<1>6. count \in Nat /\ count <= Len(fifo)
  BY <1>4, <1>5
<1> HIDE DEF count
<1>7. fifo' \in Bytes /\ received \in Bytes /\ Len(received) = count
  <2>1. fifo' \in Bytes
    BY <1>1, <1>5, <1>6, PartOfBytes
  <2>2. received \in Bytes /\ Len(received) = (IF 1 <= count THEN count - 1 + 1 ELSE 0)
    BY <1>5, <1>6, PartOfBytes
  <2> HIDE DEF received
  <2> QED
    BY <1>6, <2>1, <2>2
<1> HIDE DEF received
<1>8. ~stray => fifo' = <<>> /\ received = fifo /\ count = Len(fifo)
  <2> SUFFICES ASSUME ~stray PROVE fifo' = <<>> /\ received = fifo /\ count = Len(fifo)
    OBVIOUS
  <2>1. PICK status \in Bytes, data \in Bytes :
            Len(status) = m /\ Len(data) = n /\ fifo \in {status \o data, data, <<>>}
    BY <1>1 DEF StreamInv, Matched, Awaiting, m, n
  <2>2. Len(fifo) <= m + n
    BY <1>4, <2>1 DEF Bytes
  <2>3. count = Len(fifo)
    BY <1>4, <1>5, <2>2 DEF count
  <2> QED
    BY <1>1, <1>5, <2>3, SubSeqFull, SubSeqEmpty DEF received
<1>9. CASE /\ \/ count = 0 /\ n > 0
              \/ count < n
              \/ ~checkStatusBytes(SubSeq(received, 1, count - n))
           /\ \E kind \in {"timeout", "device_missing", "nack"} : Return(kind)
           /\ UNCHANGED response
  <2>1. faults # 0
    <3> SUFFICES ASSUME faults = 0 PROVE FALSE
      OBVIOUS
    <3>1. ~stray
      BY DEF StreamInv, Healthy
    <3>2. PICK status \in Bytes, data \in Bytes :
              /\ Len(status) = m /\ Len(data) = n
              /\ fifo = status \o data /\ status \in Seq({0})
      BY <1>1, <3>1 DEF StreamInv, Matched, Awaiting, m, n
    <3>3. /\ Len(fifo) = m + n /\ \A k \in 1..m : fifo[k] = status[k] /\ status[k] = 0
      <4>1. /\ Len(fifo) = Len(status) + Len(data)
            /\ \A k \in 1..Len(status) : fifo[k] = status[k]
        BY <3>2, ConcatAt DEF Bytes
      <4>2. \A k \in 1..Len(status) : status[k] \in {0}
        BY <3>2, ElementOfSeq
      <4> QED
        BY <3>2, <4>1, <4>2
    <3>4. count = m + n /\ received = fifo /\ count - n = m
      BY <1>4, <1>8, <3>1, <3>3
    <3>5. checkStatusBytes(SubSeq(fifo, 1, m))
      <4>1. m <= Len(fifo) /\ 1 \in Nat /\ \A k \in 1..m : fifo[k] \in Int
        BY <1>4, <3>3
      <4>2. /\ SubSeq(fifo, 1, m) \in Seq(Int) /\ Len(SubSeq(fifo, 1, m)) = m
            /\ \A k \in 1..m : SubSeq(fifo, 1, m)[k] = fifo[k]
        BY <1>4, <1>5, <4>1
      <4>3. DOMAIN SubSeq(fifo, 1, m) = 1..m
        BY <4>2, LenProperties
      <4>4. \A k \in DOMAIN SubSeq(fifo, 1, m) : SubSeq(fifo, 1, m)[k] = 0
        BY <3>3, <4>2, <4>3, Zenon
      <4>5. 0 < 128
        OBVIOUS
      <4> QED
        BY <4>4, <4>5 DEF checkStatusBytes
    <3> HIDE DEF checkStatusBytes
    <3> QED
      BY <1>4, <1>9, <3>4, <3>5
  <2>2. PICK kind \in {"timeout", "device_missing", "nack"} : Return(kind)
    BY <1>9
  <2>3. kind # "ok"
    OBVIOUS
  <2>4. /\ stray' \in BOOLEAN /\ (~stray' => ~stray /\ fifo' = <<>>)
        /\ faults' \in Nat /\ faults' # 0
        /\ UNCHANGED <<response, sent, told, held, calls>> /\ sent' \in Bytes
    BY <1>1, <1>5, <1>8, <1>9, <2>1 DEF StreamInv, StreamTypes
  <2> QED
    BY <1>7, <2>2, <2>3, <2>4, ErrorReturn
<1>10. CASE /\ ~(count < n) /\ checkStatusBytes(SubSeq(received, 1, count - n))
            /\ response' = response \o dataOf(received, n)
            /\ pc' = "send" /\ result' = result
  <2>1. response' \in Bytes /\ Len(response') = Len(response) + n
    <3>1. count - n + 1 \in Nat /\ count - n + 1 >= 1 /\ count <= Len(received)
      BY <1>4, <1>6, <1>7, <1>10
    <3>2. dataOf(received, n) = SubSeq(received, count - n + 1, count)
      BY <1>7 DEF dataOf
    <3>3. /\ dataOf(received, n) \in Bytes
          /\ Len(dataOf(received, n))
                 = IF count - n + 1 <= count THEN count - (count - n + 1) + 1 ELSE 0
      BY <1>6, <1>7, <3>1, <3>2, PartOfBytes
    <3> DEFINE d == dataOf(received, n)
    <3> HIDE DEF d
    <3>4. d \in Seq(Int) /\ Len(d) = n
      BY <1>4, <1>6, <3>3 DEF Bytes, d
    <3>5. response \o d \in Seq(Int) /\ Len(response \o d) = Len(response) + Len(d)
      BY <1>5, <3>4, ConcatAt DEF Bytes
    <3> QED
      BY <1>10, <3>4, <3>5 DEF Bytes, d
  <2>2. StreamTypes'
    BY <1>1, <1>5, <1>7, <1>10, <2>1 DEF StreamInv, StreamTypes
  <2>3. ASSUME ~stray PROVE Matched'
    <3>1. PICK status \in Bytes, data \in Bytes :
              /\ Len(status) = m /\ Len(data) = n /\ sent = response \o data
              /\ fifo \in {status \o data, data, <<>>}
              /\ told => \E k \in 1 .. Len(fifo) - Len(data) : fifo[k] = 128
      BY <1>1, <2>3 DEF StreamInv, Matched, Awaiting, m, n
    <3>2. fifo' = <<>> /\ received = fifo /\ count = Len(fifo) /\ n <= Len(fifo)
      BY <1>4, <1>5, <1>6, <1>8, <1>10, <2>3
    <3>3. dataOf(fifo, n) = data
      <4>1. /\ Len(data) = n /\ fifo \in {status \o data, data, <<>>}
            /\ n \in Nat /\ n <= Len(fifo)
        BY <1>4, <3>1, <3>2
      <4> QED
        BY <4>1, LastPart
    <3>4. ~told
      <4> SUFFICES ASSUME told PROVE FALSE
        BY <1>5
      <4>1. PICK k \in 1 .. Len(fifo) - n : fifo[k] = 128
        BY <3>1
      <4>2. checkStatusBytes(SubSeq(fifo, 1, Len(fifo) - n))
        BY <1>10, <3>2
      <4>3. Len(fifo) - n \in Nat /\ k \in 1..Len(fifo) - n - 1 + 1
            /\ \A i \in 1..Len(fifo) - n : fifo[i] \in Int
        BY <1>4, <1>5, <3>2
      <4>4. /\ SubSeq(fifo, 1, Len(fifo) - n) \in Seq(Int)
            /\ Len(SubSeq(fifo, 1, Len(fifo) - n)) = Len(fifo) - n
            /\ SubSeq(fifo, 1, Len(fifo) - n)[k] = fifo[1 + k - 1]
        BY <4>3, SubSeqProperties
      <4>5. k \in DOMAIN SubSeq(fifo, 1, Len(fifo) - n)
        BY <4>4
      <4>6. fifo[1 + k - 1] = 128
        BY <4>1
      <4> QED
        BY <4>2, <4>4, <4>5, <4>6 DEF checkStatusBytes
    <3>5. response' = sent' /\ held' = <<>>
      BY <1>1, <1>10, <2>3, <3>1, <3>2, <3>3 DEF StreamInv, Matched
    <3> QED
      BY <1>1, <1>10, <3>2, <3>4, <3>5 DEF Matched
  <2>4. OnItsWay'
    <3>1. Leads(stream', bus', Expected(request'), Len(response'), request'.read)
          /\ ~rejected(request')
      BY <1>1, <1>3, <2>1, Zenon
    <3> QED
      BY <1>10, <3>1 DEF OnItsWay
  <2>5. BusMatches' /\ Healthy'
    BY <1>1, <1>10 DEF StreamInv, BusMatches, Healthy, HealthySucceeds
  <2> QED
    BY <1>1, <2>2, <2>3, <2>4, <2>5 DEF StreamInv
<1> QED
  BY <1>2, <1>9, <1>10

(* The invariant holds in every behaviour. *)
LEMMA StreamInvariant == Spec => []StreamInv
<1>1. StreamInv /\ [Next]_vars => StreamInv'
  <2> SUFFICES ASSUME StreamInv, [Next]_vars PROVE StreamInv'
    OBVIOUS
  <2>1. CASE UNCHANGED vars
    <3>1. UNCHANGED <<pc, request, stream, segment, response, result, bus, sent, told, fifo,
                      held, stray, calls, faults>>
      BY <2>1 DEF vars, code, bridge, counters
    <3>2. StreamTypes' /\ OnItsWay' /\ BusMatches' /\ Healthy'
      BY <3>1 DEF StreamInv, StreamTypes, OnItsWay, BusMatches, Healthy, HealthySucceeds
    <3>3. ASSUME Awaiting PROVE Awaiting'
      <4>1. PICK status \in Bytes, data \in Bytes :
                /\ Len(status) = writtenBytes(Instructions(segment))
                /\ Len(data) = dataBytes(Instructions(segment))
                /\ sent = response \o data
                /\ fifo \in {status \o data, data, <<>>}
                /\ told => \E k \in 1 .. Len(fifo) - Len(data) : fifo[k] = 128
                /\ faults = 0 => fifo = status \o data /\ status \in Seq({0})
        BY <3>3 DEF Awaiting
      <4>2. /\ Len(status) = writtenBytes(Instructions(segment'))
            /\ Len(data) = dataBytes(Instructions(segment'))
            /\ sent' = response' \o data
            /\ fifo' \in {status \o data, data, <<>>}
            /\ told' => \E k \in 1 .. Len(fifo') - Len(data) : fifo'[k] = 128
            /\ faults' = 0 => fifo' = status \o data /\ status \in Seq({0})
        BY <3>1, <4>1
      <4> QED
        BY <4>2 DEF Awaiting
    <3>4. Matched => Matched'
      BY <3>1, <3>3 DEF Matched
    <3> QED
      BY <3>1, <3>2, <3>4 DEF StreamInv
  <2> QED
    BY <2>1, TransactionStep, ConfigureStep, SendStep, TransferFailsStep, ReceiveStep,
       CompleteStep, ArriveStep DEF Next
<1> QED
  BY <1>1, InitStream, PTL DEF Spec

-----------------------------------------------------------------------------

(* encodeTransaction, segmentedStream and execute: a transaction that       *)
(* succeeds has put exactly its meaning on the bus, for every address,      *)
(* every write and every read, however it was cut into packets.             *)
THEOREM BusAsMeant == Spec => []BusMatches
<1>1. StreamInv => BusMatches
  BY DEF StreamInv
<1> QED
  BY <1>1, StreamInvariant, PTL

(* instructionLengths and execute: on a bridge that works, every request    *)
(* that encodeTransaction accepts succeeds.                                 *)
THEOREM WorkingBridgesSucceed == Spec => []HealthySucceeds
<1>1. StreamInv => HealthySucceeds
  BY DEF StreamInv, Healthy
<1> QED
  BY <1>1, StreamInvariant, PTL

(* execute: the data a transaction returns are the bytes the slave sent in  *)
(* it, in order and without a status byte among them, after any number of   *)
(* transactions that failed, unless an answer byte was once late or left    *)
(* behind by a transfer that failed.                                        *)
THEOREM AnswersAreOwn == Spec => []OwnAnswer
<1>1. StreamInv => OwnAnswer
  BY DEF StreamInv, Matched, OwnAnswer
<1> QED
  BY <1>1, StreamInvariant, PTL

(* Nothing but a transaction's own packets, in order and each once.         *)
LEMMA BeyondStep ==
    ASSUME StreamInv, StreamInv', NeverBeyond, [Next]_vars
    PROVE  NeverBeyond'
<1>1. CASE UNCHANGED <<request, bus>>
  BY <1>1 DEF NeverBeyond, Expected
<1>2. ASSUME NEW r \in Requests, Transaction(r) PROVE NeverBeyond'
  <2>1. request' = r /\ bus' = <<>>
    BY <1>2 DEF Transaction
  <2>2. CASE ~rejected(r)
    <3> DEFINE e == << <<"speed", command(Speed)>> >>
    <3>1. e \in Seq(BusEvent) /\ Expected(r) = e \o Meaning(r)
      BY SpeedOnBus DEF Expected
    <3> HIDE DEF e
    <3>2. Meaning(r) \in Seq(BusEvent)
      BY <2>2, EncodedLeads, LeadsType
    <3>3. Expected(r) \in Seq(BusEvent)
      BY <3>1, <3>2, ConcatProperties
    <3>4. IsPrefix(<<>>, Expected(r))
      <4> DEFINE x == Expected(r)
      <4>1. Len(x) \in Nat /\ Len(<<>>) = 0 /\ <<>> \in Seq(BusEvent)
        BY <3>3, LenProperties, EmptySeq
      <4> HIDE DEF x
      <4>2. SubSeq(<<>>, 1, 0) = <<>> /\ SubSeq(x, 1, 0) = <<>>
        BY SubSeqEmpty
      <4>3. IsPrefix(<<>>, x)
        BY <4>1, <4>2 DEF IsPrefix
      <4> QED
        BY <4>3 DEF x
    <3> QED
      BY <2>1, <2>2, <3>4 DEF NeverBeyond, Expected
  <2> QED
    BY <2>1, <2>2 DEF NeverBeyond
<1>3. ASSUME NEW s, NEW c, ~rejected(request), request' = request,
             Leads(s, bus', Expected(request), c, request.read)
      PROVE  NeverBeyond'
  <2>1. IsPrefix(bus', Expected(request))
    BY <1>3, LeadsFrom
  <2> QED
    BY <1>3, <2>1 DEF NeverBeyond, Expected
<1>4. ASSUME pc = "configure", request' = request,
             bus' = Perform(Instructions(encodeConfiguration(Speed)))
      PROVE  NeverBeyond'
  <2> DEFINE e == << <<"speed", command(Speed)>> >>
  <2>1. bus' = e /\ e \in Seq(BusEvent) /\ Expected(request) = e \o Meaning(request)
    BY <1>4, SpeedOnBus DEF Expected
  <2> HIDE DEF e
  <2>2. Leads(stream, <<>>, Meaning(request), 0, request.read) /\ ~rejected(request)
    BY <1>4 DEF StreamInv, OnItsWay
  <2>3. Leads(stream, e \o <<>>, e \o Meaning(request), 0, request.read)
    BY <2>1, <2>2, LeadsOn
  <2>4. e \o <<>> = e
    BY <2>1, ConcatEmptySeq
  <2>5. Leads(stream, bus', Expected(request), 0, request.read)
    BY <2>1, <2>3, <2>4, Zenon
  <2> QED
    BY <1>3, <1>4, <2>2, <2>5
<1>5. ASSUME pc = "send", stream # <<>>, request' = request,
             bus' = bus \o Perform(Instructions(SubSeq(stream, 1, segmentEnd)))
      PROVE  NeverBeyond'
  BY <1>3, <1>5, NextPacket
<1>6. CASE Configure
  BY <1>4, <1>6 DEF Configure
<1>7. CASE SendSegment
  BY <1>5, <1>7 DEF SendSegment
<1>8. CASE TransferFails
  <2>1. /\ request' = request
        /\ pc = "send" => stream # <<>>
        /\ \/ UNCHANGED bus
           \/ /\ pc = "configure"
              /\ bus' = Perform(Instructions(encodeConfiguration(Speed)))
           \/ pc = "send" /\ RunsUnnoticed
    BY <1>8 DEF TransferFails
  <2>2. RunsUnnoticed =>
            bus' = bus \o Perform(Instructions(SubSeq(stream, 1, segmentEnd)))
    BY DEF RunsUnnoticed
  <2>3. CASE UNCHANGED bus
    BY <1>1, <2>1, <2>3
  <2>4. CASE pc = "configure"
             /\ bus' = Perform(Instructions(encodeConfiguration(Speed)))
    BY <1>4, <2>1, <2>4, Zenon
  <2>5. CASE pc = "send" /\ RunsUnnoticed
    BY <1>5, <2>1, <2>2, <2>5, Zenon
  <2> QED
    BY <2>1, <2>3, <2>4, <2>5, Zenon
<1>9. CASE Receive \/ Complete \/ Arrive \/ UNCHANGED vars
  <2>1. UNCHANGED <<request, bus>>
    BY <1>9 DEF Receive, Complete, Arrive, vars, code, bridge
  <2> QED
    BY <1>1, <2>1
<1> QED
  BY <1>2, <1>6, <1>7, <1>8, <1>9 DEF Next

(* execute: at every moment, and wherever a transaction was broken off,     *)
(* what is on the bus is a beginning of what the request means, although    *)
(* packets whose write failed may have been carried out; of a request that  *)
(* was rejected there is nothing.                                           *)
THEOREM BusNeverBeyond == Spec => []NeverBeyond
<1>1. Init => NeverBeyond
  <2> SUFFICES ASSUME Init PROVE NeverBeyond
    OBVIOUS
  <2>1. request = [address |-> 0, write |-> <<>>, read |-> 0] /\ bus = <<>>
    BY DEF Init
  <2>2. rejected(request)
    BY <2>1 DEF rejected
  <2> QED
    BY <2>1, <2>2 DEF NeverBeyond
<1>2. StreamInv /\ StreamInv' /\ NeverBeyond /\ [Next]_vars => NeverBeyond'
  BY BeyondStep
<1> QED
  BY <1>1, <1>2, StreamInvariant, PTL DEF Spec

(* checkStatusBytes: a refusal whose status byte came in time makes the     *)
(* transaction fail, in whichever packet it was.                            *)
THEOREM RefusalsReported == Spec => []NackReported
<1>1. StreamInv => NackReported
  BY DEF StreamInv, Matched, NackReported
<1> QED
  BY <1>1, StreamInvariant, PTL

=============================================================================
