---------------------------- MODULE EncoderProofs ----------------------------
(* What the packets of encodeTransaction do on the bus and how many bytes    *)
(* they bring back, for every request that it does not reject.               *)
EXTENDS Encoder, WellFoundedInduction, SequenceTheorems, TLAPS

-----------------------------------------------------------------------------
(* Loops *)

(* What holds at first and in every next round holds in all rounds. *)
LEMMA RoundByRound ==
    ASSUME NEW Good, 0 \in Good, \A n \in Nat : n \in Good => n + 1 \in Good
    PROVE  \A n \in Nat : n \in Good
<1> DEFINE Bad == {n \in Nat : n \notin Good}
           R == OpToRel(<, Nat)
<1>1. SUFFICES ASSUME Bad # {} PROVE FALSE
  OBVIOUS
<1>2. IsWellFoundedOn(R, Nat)
  BY NatLessThanWellFounded
<1>3. \A m, n \in Nat : m < n => <<m, n>> \in R
  BY DEF OpToRel
<1>4. Bad \subseteq Nat
  OBVIOUS
<1> HIDE DEF R, Bad
<1>5. PICK n \in Bad : \A m \in Bad : ~ (<<m, n>> \in R)
  BY <1>1, <1>2, <1>4, WFMin
<1>6. n \in Nat /\ n \notin Good /\ n # 0
  BY <1>5 DEF Bad
<1>7. n - 1 \in Nat /\ n - 1 < n /\ (n - 1) + 1 = n
  BY <1>6
<1>8. n - 1 \in Good
  BY <1>3, <1>5, <1>6, <1>7 DEF Bad
<1> QED
  BY <1>6, <1>7, <1>8

-----------------------------------------------------------------------------
(* FlattenSeq *)

(* The concatenations of the first 1, 2, ... of some sequences. *)
Flattening(f, seqs, n) ==
    f = [i \in 1..n |-> IF i = 1 THEN seqs[i] ELSE f[i - 1] \o seqs[i]]

(* What a flattening is at each place. *)
LEMMA FlatteningAt ==
    ASSUME NEW f, NEW seqs, NEW n \in Nat, Flattening(f, seqs, n)
    PROVE  \A i \in 1..n : f[i] = IF i = 1 THEN seqs[i] ELSE f[i - 1] \o seqs[i]
<1> DEFINE g == [i \in 1..n |-> IF i = 1 THEN seqs[i] ELSE f[i - 1] \o seqs[i]]
<1>1. f = g
  BY DEF Flattening
<1>2. \A i \in 1..n : g[i] = IF i = 1 THEN seqs[i] ELSE f[i - 1] \o seqs[i]
  OBVIOUS
<1> HIDE DEF g
<1> QED
  BY <1>1, <1>2

(* There is one, of any length. *)
LEMMA FlatteningExists ==
    ASSUME NEW seqs, NEW n \in Nat
    PROVE  \E f : Flattening(f, seqs, n)
<1> DEFINE Good == {k \in Nat : \E f : Flattening(f, seqs, k)}
<1>1. 0 \in Good
  <2>1. Flattening([i \in 1..0 |-> <<>>], seqs, 0)
    BY DEF Flattening
  <2> QED
    BY <2>1
<1>2. ASSUME NEW k \in Nat, k \in Good PROVE k + 1 \in Good
  <2>1. PICK f : Flattening(f, seqs, k)
    BY <1>2
  <2> DEFINE g == [i \in 1 .. k + 1 |->
                      IF i = k + 1 THEN (IF k = 0 THEN seqs[i] ELSE f[k] \o seqs[i])
                      ELSE f[i]]
  <2>2. \A i \in 1..k : g[i] = f[i]
    OBVIOUS
  <2>3. g[k + 1] = IF k = 0 THEN seqs[k + 1] ELSE f[k] \o seqs[k + 1]
    OBVIOUS
  <2>4. g = [i \in 1 .. k + 1 |-> g[i]]
    OBVIOUS
  <2> HIDE DEF g
  <2>5. ASSUME NEW i \in 1 .. k + 1
        PROVE  g[i] = IF i = 1 THEN seqs[i] ELSE g[i - 1] \o seqs[i]
    <3>1. CASE i = k + 1
      <4>1. k # 0 => k \in 1..k /\ i - 1 = k /\ i # 1
        BY <3>1
      <4> QED
        BY <2>2, <2>3, <3>1, <4>1
    <3>2. CASE i # k + 1
      <4>1. i \in 1..k /\ (i # 1 => i - 1 \in 1..k)
        BY <3>2
      <4>2. f[i] = IF i = 1 THEN seqs[i] ELSE f[i - 1] \o seqs[i]
        BY <2>1, <4>1, FlatteningAt
      <4> QED
        BY <2>2, <4>1, <4>2
    <3> QED
      BY <3>1, <3>2
  <2>6. Flattening(g, seqs, k + 1)
    BY <2>4, <2>5 DEF Flattening
  <2> QED
    BY <2>6
<1> HIDE DEF Good
<1>3. n \in Good
  BY <1>1, <1>2, RoundByRound
<1> QED
  BY <1>3 DEF Good

(* FlattenSeq is the last of them. *)
LEMMA FlattenIsLast ==
    ASSUME NEW seqs, Len(seqs) \in Nat, Len(seqs) # 0
    PROVE  \E f : Flattening(f, seqs, Len(seqs)) /\ FlattenSeq(seqs) = f[Len(seqs)]
<1> DEFINE f == CHOOSE g : g = [i \in 1..Len(seqs) |->
                                  IF i = 1 THEN seqs[i] ELSE g[i - 1] \o seqs[i]]
<1>1. PICK some : Flattening(some, seqs, Len(seqs))
  BY FlatteningExists
<1>2. some = [i \in 1..Len(seqs) |-> IF i = 1 THEN seqs[i] ELSE some[i - 1] \o seqs[i]]
  BY <1>1 DEF Flattening
<1>3. f = [i \in 1..Len(seqs) |-> IF i = 1 THEN seqs[i] ELSE f[i - 1] \o seqs[i]]
  BY <1>2, Zenon
<1>4. FlattenSeq(seqs) = f[Len(seqs)]
  BY DEF FlattenSeq
<1> HIDE DEF f
<1> QED
  BY <1>3, <1>4 DEF Flattening

(* Two flattenings agree as far as their sequences do. *)
LEMMA FlatteningsAgree ==
    ASSUME NEW f, NEW g, NEW seqs, NEW others, NEW m \in Nat, NEW n \in Nat, m <= n,
           Flattening(f, seqs, m), Flattening(g, others, n),
           \A i \in 1..m : seqs[i] = others[i]
    PROVE  \A i \in 1..m : f[i] = g[i]
<1> DEFINE Good == {k \in Nat : k \in 1..m => f[k] = g[k]}
<1>1. 0 \in Good
  OBVIOUS
<1>2. ASSUME NEW k \in Nat, k \in Good PROVE k + 1 \in Good
  <2> SUFFICES ASSUME k + 1 \in 1..m PROVE f[k + 1] = g[k + 1]
    OBVIOUS
  <2>1. k + 1 \in 1..n /\ (k + 1 # 1 => k \in 1..m) /\ (k + 1) - 1 = k
    OBVIOUS
  <2>2. f[k + 1] = IF k + 1 = 1 THEN seqs[k + 1] ELSE f[k] \o seqs[k + 1]
    BY <2>1, FlatteningAt
  <2>3. g[k + 1] = IF k + 1 = 1 THEN others[k + 1] ELSE g[k] \o others[k + 1]
    BY <2>1, FlatteningAt
  <2>4. k + 1 # 1 => f[k] = g[k]
    BY <1>2, <2>1
  <2> QED
    BY <2>2, <2>3, <2>4
<1> HIDE DEF Good
<1>3. \A k \in Nat : k \in Good
  BY <1>1, <1>2, RoundByRound
<1> QED
  BY <1>3 DEF Good

(* One more sequence is concatenated to the others. *)
LEMMA FlattenAppend ==
    ASSUME NEW S, NEW seqs \in Seq(Seq(S)), NEW s \in Seq(S)
    PROVE  FlattenSeq(Append(seqs, s)) = FlattenSeq(seqs) \o s
<1> DEFINE longer == Append(seqs, s)
           n == Len(seqs)
<1>1. /\ longer \in Seq(Seq(S)) /\ n \in Nat /\ Len(longer) = n + 1
      /\ longer[n + 1] = s /\ \A i \in 1..n : seqs[i] = longer[i]
  BY AppendProperties, LenProperties
<1> HIDE DEF longer, n
<1>2. PICK g : Flattening(g, longer, n + 1) /\ FlattenSeq(longer) = g[n + 1]
  <2>1. Len(longer) \in Nat /\ Len(longer) # 0
    BY <1>1
  <2> QED
    BY <1>1, <2>1, FlattenIsLast
<1>3. g[n + 1] = IF n + 1 = 1 THEN longer[n + 1] ELSE g[(n + 1) - 1] \o longer[n + 1]
  <2>1. n + 1 \in 1 .. n + 1
    BY <1>1
  <2> QED
    BY <1>1, <1>2, <2>1, FlatteningAt
<1>4. CASE n = 0
  <2>1. seqs = <<>>
    BY <1>1, <1>4, EmptySeq DEF n
  <2>2. FlattenSeq(seqs) = <<>>
    BY <2>1 DEF FlattenSeq
  <2>3. <<>> \o s = s
    BY ConcatEmptySeq
  <2> QED
    BY <1>1, <1>2, <1>3, <1>4, <2>2, <2>3 DEF longer
<1>5. CASE n # 0
  <2>1. PICK f : Flattening(f, seqs, n) /\ FlattenSeq(seqs) = f[n]
    BY <1>1, <1>5, FlattenIsLast DEF n
  <2>2. \A i \in 1..n : f[i] = g[i]
    <3>1. n \in Nat /\ n + 1 \in Nat /\ n <= n + 1
      BY <1>1
    <3>2. Flattening(f, seqs, n) /\ Flattening(g, longer, n + 1)
      BY <1>2, <2>1
    <3>3. \A i \in 1..n : seqs[i] = longer[i]
      BY <1>1
    <3> QED
      BY <3>1, <3>2, <3>3, FlatteningsAgree, Z3
  <2>3. n \in 1..n /\ (n + 1) - 1 = n /\ n + 1 # 1
    BY <1>1, <1>5
  <2> QED
    BY <1>1, <1>2, <1>3, <2>1, <2>2, <2>3 DEF longer
<1> QED
  BY <1>4, <1>5

(* A flattening is a sequence of the same elements. *)
LEMMA FlattenType ==
    ASSUME NEW S, NEW seqs \in Seq(Seq(S))
    PROVE  FlattenSeq(seqs) \in Seq(S)
<1> DEFINE Good == {k \in Nat : \A s \in Seq(Seq(S)) :
                                    Len(s) = k => FlattenSeq(s) \in Seq(S)}
<1>1. 0 \in Good
  <2> SUFFICES ASSUME NEW s \in Seq(Seq(S)), Len(s) = 0 PROVE FlattenSeq(s) \in Seq(S)
    OBVIOUS
  <2>1. s = <<>>
    BY EmptySeq
  <2>2. FlattenSeq(s) = s
    BY DEF FlattenSeq
  <2>3. <<>> \in Seq(S)
    BY EmptySeq
  <2> QED
    BY <2>1, <2>2, <2>3
<1>2. ASSUME NEW k \in Nat, k \in Good PROVE k + 1 \in Good
  <2> SUFFICES ASSUME NEW s \in Seq(Seq(S)), Len(s) = k + 1 PROVE FlattenSeq(s) \in Seq(S)
    OBVIOUS
  <2>1. s # <<>>
    BY EmptySeq
  <2>2. PICK t \in Seq(Seq(S)), e \in Seq(S) : s = Append(t, e)
    BY <2>1, SequenceEmptyOrAppend
  <2>3. Len(s) = Len(t) + 1 /\ Len(t) \in Nat
    BY <2>2, AppendProperties, LenProperties
  <2>4. FlattenSeq(t) \in Seq(S)
    BY <1>2, <2>3
  <2>5. FlattenSeq(s) = FlattenSeq(t) \o e
    BY <2>2, FlattenAppend
  <2> QED
    BY <2>4, <2>5, ConcatProperties
<1> HIDE DEF Good
<1>3. Len(seqs) \in Nat /\ \A k \in Nat : k \in Good
  BY <1>1, <1>2, RoundByRound, LenProperties
<1> QED
  BY <1>3 DEF Good

-----------------------------------------------------------------------------
(* Total *)

(* The sums of the first 0, 1, ... of some numbers. *)
Summing(f, numbers, n) ==
    f = [k \in 0..n |-> IF k = 0 THEN 0 ELSE f[k - 1] + numbers[k]]

(* What the sums are at each place. *)
LEMMA SummingAt ==
    ASSUME NEW f, NEW numbers, NEW n \in Nat, Summing(f, numbers, n)
    PROVE  f[0] = 0 /\ \A k \in 1..n : f[k] = f[k - 1] + numbers[k]
<1> DEFINE g == [k \in 0..n |-> IF k = 0 THEN 0 ELSE f[k - 1] + numbers[k]]
<1>1. f = g
  BY DEF Summing
<1>2. g[0] = 0 /\ \A k \in 1..n : g[k] = f[k - 1] + numbers[k]
  OBVIOUS
<1> HIDE DEF g
<1> QED
  BY <1>1, <1>2

(* They exist. *)
LEMMA SummingExists ==
    ASSUME NEW numbers, NEW n \in Nat
    PROVE  \E f : Summing(f, numbers, n)
<1> DEFINE Good == {k \in Nat : \E f : Summing(f, numbers, k)}
<1>1. 0 \in Good
  <2>1. Summing([k \in 0..0 |-> 0], numbers, 0)
    BY DEF Summing
  <2> QED
    BY <2>1
<1>2. ASSUME NEW k \in Nat, k \in Good PROVE k + 1 \in Good
  <2>1. PICK f : Summing(f, numbers, k)
    BY <1>2
  <2> DEFINE g == [i \in 0 .. k + 1 |->
                      IF i = k + 1 THEN f[k] + numbers[k + 1] ELSE f[i]]
  <2>2. (\A i \in 0..k : g[i] = f[i]) /\ g[k + 1] = f[k] + numbers[k + 1]
    OBVIOUS
  <2>3. g = [i \in 0 .. k + 1 |-> g[i]]
    OBVIOUS
  <2> HIDE DEF g
  <2>4. ASSUME NEW i \in 0 .. k + 1
        PROVE  g[i] = IF i = 0 THEN 0 ELSE g[i - 1] + numbers[i]
    <3>1. CASE i = k + 1
      <4>1. i # 0 /\ i - 1 = k /\ k \in 0..k
        BY <3>1
      <4> QED
        BY <2>2, <3>1, <4>1
    <3>2. CASE i # k + 1
      <4>1. i \in 0..k /\ (i # 0 => i - 1 \in 0..k /\ i \in 1..k)
        BY <3>2
      <4> QED
        BY <2>1, <2>2, <4>1, SummingAt
    <3> QED
      BY <3>1, <3>2
  <2>5. Summing(g, numbers, k + 1)
    BY <2>3, <2>4 DEF Summing
  <2> QED
    BY <2>5
<1> HIDE DEF Good
<1>3. n \in Good
  BY <1>1, <1>2, RoundByRound
<1> QED
  BY <1>3 DEF Good

(* Total is the last of them. *)
LEMMA TotalIsLast ==
    ASSUME NEW numbers, Len(numbers) \in Nat
    PROVE  \E f : Summing(f, numbers, Len(numbers)) /\ Total(numbers) = f[Len(numbers)]
<1> DEFINE f == CHOOSE g : g = [k \in 0..Len(numbers) |->
                                  IF k = 0 THEN 0 ELSE g[k - 1] + numbers[k]]
<1>1. PICK some : Summing(some, numbers, Len(numbers))
  BY SummingExists
<1>2. some = [k \in 0..Len(numbers) |-> IF k = 0 THEN 0 ELSE some[k - 1] + numbers[k]]
  BY <1>1 DEF Summing
<1>3. f = [k \in 0..Len(numbers) |-> IF k = 0 THEN 0 ELSE f[k - 1] + numbers[k]]
  BY <1>2, Zenon
<1>4. Total(numbers) = f[Len(numbers)]
  BY DEF Total
<1> HIDE DEF f
<1> QED
  BY <1>3, <1>4 DEF Summing

(* A total of numbers is one; one more number is added to it. *)
LEMMA TotalAppend ==
    ASSUME NEW numbers \in Seq(Nat), NEW number \in Nat
    PROVE  /\ Total(numbers) \in Nat
           /\ Total(<<>>) = 0
           /\ Total(Append(numbers, number)) = Total(numbers) + number
<1> DEFINE longer == Append(numbers, number)
           n == Len(numbers)
<1>1. /\ longer \in Seq(Nat) /\ n \in Nat /\ Len(longer) = n + 1 /\ n + 1 \in Nat
      /\ longer[n + 1] = number /\ \A i \in 1..n : numbers[i] = longer[i]
      /\ \A i \in 1..n : numbers[i] \in Nat
  BY AppendProperties, LenProperties
<1> HIDE DEF longer, n
<1>2. PICK g : Summing(g, longer, n + 1) /\ Total(longer) = g[n + 1]
  BY <1>1, TotalIsLast
<1>3. PICK f : Summing(f, numbers, n) /\ Total(numbers) = f[n]
  BY <1>1, TotalIsLast DEF n
<1> DEFINE Good == {k \in Nat : k \in 0..n => f[k] = g[k] /\ f[k] \in Nat}
<1>4. /\ f[0] = 0 /\ \A k \in 1..n : f[k] = f[k - 1] + numbers[k]
      /\ g[0] = 0 /\ \A k \in 1 .. n + 1 : g[k] = g[k - 1] + longer[k]
  <2>1. n \in Nat /\ n + 1 \in Nat
    BY <1>1
  <2>2. f[0] = 0 /\ \A k \in 1..n : f[k] = f[k - 1] + numbers[k]
    BY <1>3, <2>1, SummingAt, Zenon
  <2>3. g[0] = 0 /\ \A k \in 1 .. n + 1 : g[k] = g[k - 1] + longer[k]
    BY <1>2, <2>1, SummingAt, Zenon
  <2> QED
    BY <2>2, <2>3
<1>5. 0 \in Good
  BY <1>4
<1>6. ASSUME NEW k \in Nat, k \in Good PROVE k + 1 \in Good
  <2> SUFFICES ASSUME k + 1 \in 0..n PROVE f[k + 1] = g[k + 1] /\ f[k + 1] \in Nat
    OBVIOUS
  <2>1. k + 1 \in 1..n /\ k + 1 \in 1 .. n + 1 /\ k \in 0..n /\ (k + 1) - 1 = k
    BY <1>1
  <2>2. f[k + 1] = f[k] + numbers[k + 1] /\ g[k + 1] = g[k] + longer[k + 1]
    BY <1>4, <2>1
  <2>3. f[k] = g[k] /\ f[k] \in Nat
    BY <1>6, <2>1
  <2> QED
    BY <1>1, <2>1, <2>2, <2>3
<1> HIDE DEF Good
<1>7. n \in Good
  BY <1>1, <1>5, <1>6, RoundByRound
<1>8. f[n] = g[n] /\ f[n] \in Nat
  BY <1>1, <1>7 DEF Good
<1>9. g[n + 1] = g[n] + longer[n + 1]
  <2>1. n + 1 \in 1 .. n + 1 /\ (n + 1) - 1 = n
    BY <1>1
  <2> QED
    BY <1>4, <2>1
<1>10. Total(<<>>) = 0
  <2>1. Len(<<>>) = 0
    BY EmptySeq
  <2>2. PICK h : Summing(h, <<>>, Len(<<>>)) /\ Total(<<>>) = h[Len(<<>>)]
    BY <2>1, TotalIsLast
  <2> QED
    BY <2>1, <2>2, SummingAt
<1> QED
  BY <1>1, <1>2, <1>3, <1>8, <1>9, <1>10 DEF longer

-----------------------------------------------------------------------------
(* The instructions of the encoder *)

(* START, STOP, writes of a byte with and without status, reads of up to 32. *)
Commands == {streamI2CStart, streamI2CStop} \cup \h80..\h81 \cup \hC0..\hE0

Sound == {i \in [command : Commands, operands : Seq(Int)] :
              Len(i.operands) = width(i.command)}

BusEvent ==
    {<<"start">>, <<"stop">>} \cup ({"speed", "write"} \X Int) \cup ({"read"} \X BOOLEAN)

(* The bytes that an instruction has the bridge send to the host. *)
Data(i) == IF i.command \in \hC0..\hFF THEN encodedLength(i.command) ELSE 0

Status(i) == IF i.command \in WithStatus THEN encodedLength(i.command) ELSE 0

(* A sequence of so many elements. *)
LEMMA FunctionIsSeq ==
    ASSUME NEW S, NEW n \in Nat, NEW f \in [1..n -> S]
    PROVE  f \in Seq(S) /\ Len(f) = n
OBVIOUS

(* The lengths that a command can encode. *)
LEMMA EncodedLengths ==
    /\ \A c \in Int : encodedLength(c) \in 1..63
    /\ encodedLength(\h80) = 1 /\ encodedLength(\h81) = 1
    /\ \A c \in \hC1..\hE0 : encodedLength(c) = c - \hC0 /\ c % 64 # 0
    /\ encodedLength(\hC0) = 1 /\ \hC0 % 64 = 0
<1>1. \A c \in Int : c % 64 \in 0..63
  BY Z3
<1>2. \A c \in \hC1..\hE0 : c % 64 = c - 192
  BY Z3
<1>3. 128 % 64 = 0 /\ 129 % 64 = 1 /\ 192 % 64 = 0
  BY Z3
<1> QED
  BY <1>1, <1>2, <1>3 DEF encodedLength

(* What an instruction does on the bus are events. *)
LEMMA EventsType ==
    ASSUME NEW i \in Sound
    PROVE  Events(i) \in Seq(BusEvent) /\ Data(i) \in Nat /\ Status(i) \in Nat
<1>1. i.command \in Commands /\ i.command \in Int /\ i.operands \in Seq(Int)
  <2>1. i.command \in Commands /\ i.operands \in Seq(Int)
    BY DEF Sound
  <2>2. \A c \in Commands : c \in Int
    BY DEF Commands, streamI2CStart, streamI2CStop
  <2> QED
    BY <2>1, <2>2
<1>2. encodedLength(i.command) \in 1..63
  BY <1>1, EncodedLengths
<1>3. Data(i) \in Nat /\ Status(i) \in Nat
  BY <1>2 DEF Data, Status
<1>4. CASE i.command = streamI2CStart
  <2>1. Events(i) = << <<"start">> >>
    BY <1>4 DEF Events, streamI2CStart
  <2>2. <<"start">> \in BusEvent
    BY DEF BusEvent
  <2> QED
    BY <1>3, <2>1, <2>2
<1>5. CASE i.command = streamI2CStop
  <2>1. Events(i) = << <<"stop">> >>
    BY <1>5 DEF Events, streamI2CStart, streamI2CStop
  <2>2. <<"stop">> \in BusEvent
    BY DEF BusEvent
  <2> QED
    BY <1>3, <2>1, <2>2
<1>6. CASE i.command \in \h80..\h81
  <2>1. Events(i) = [k \in DOMAIN i.operands |-> <<"write", i.operands[k]>>]
    BY <1>6 DEF Events, streamI2CStart, streamI2CStop
  <2>2. DOMAIN i.operands = 1..Len(i.operands) /\ Len(i.operands) \in Nat
    BY <1>1, LenProperties
  <2>3. ASSUME NEW k \in 1..Len(i.operands) PROVE <<"write", i.operands[k]>> \in BusEvent
    <3>1. i.operands[k] \in Int
      BY <1>1, ElementOfSeq
    <3> QED
      BY <3>1 DEF BusEvent
  <2>4. Events(i) \in [1..Len(i.operands) -> BusEvent]
    BY <2>1, <2>2, <2>3, Zenon
  <2> QED
    BY <1>3, <2>2, <2>4, FunctionIsSeq
<1>7. CASE i.command \in \hC0..\hE0
  <2>1. Events(i) = [k \in 1..encodedLength(i.command) |-> <<"read", i.command % 64 # 0>>]
    <3>1. /\ i.command \notin \h60..\h63 /\ i.command # 116 /\ i.command # 117
          /\ i.command \notin \h80..\hBF /\ i.command # -1
      BY <1>7
    <3> QED
      BY <3>1, Zenon DEF Events, streamI2CStart, streamI2CStop, badCommand
  <2>2. <<"read", i.command % 64 # 0>> \in BusEvent
    <3>1. (i.command % 64 # 0) \in BOOLEAN
      OBVIOUS
    <3> QED
      BY <3>1, Zenon DEF BusEvent
  <2>3. Events(i) \in [1..encodedLength(i.command) -> BusEvent]
    BY <2>1, <2>2, Zenon
  <2>4. encodedLength(i.command) \in Nat
    BY <1>2
  <2> QED
    BY <1>3, <2>3, <2>4, FunctionIsSeq
<1> QED
  BY <1>1, <1>4, <1>5, <1>6, <1>7 DEF Commands

(* One more instruction adds its events to those of the others. *)
LEMMA PerformAppend ==
    ASSUME NEW I \in Seq(Sound), NEW i \in Sound
    PROVE  Perform(Append(I, i)) = Perform(I) \o Events(i)
<1> DEFINE f == [k \in DOMAIN I |-> Events(I[k])]
           g == [k \in DOMAIN Append(I, i) |-> Events(Append(I, i)[k])]
<1>1. /\ Append(I, i) \in Seq(Sound) /\ Len(Append(I, i)) = Len(I) + 1 /\ Len(I) \in Nat
      /\ DOMAIN I = 1..Len(I) /\ DOMAIN Append(I, i) = 1 .. Len(I) + 1
      /\ (\A k \in 1..Len(I) : Append(I, i)[k] = I[k]) /\ Append(I, i)[Len(I) + 1] = i
  BY AppendProperties, LenProperties
<1>2. \A k \in 1..Len(I) : I[k] \in Sound
  BY ElementOfSeq
<1>3. f \in Seq(Seq(BusEvent)) /\ Len(f) = Len(I)
  <2>1. f \in [1..Len(I) -> Seq(BusEvent)]
    BY <1>1, <1>2, EventsType
  <2> HIDE DEF f
  <2> QED
    BY <1>1, <2>1, FunctionIsSeq
<1>4. g \in Seq(Seq(BusEvent)) /\ Len(g) = Len(I) + 1
  <2>1. \A k \in 1 .. Len(I) + 1 : Append(I, i)[k] \in Sound
    BY <1>1, ElementOfSeq
  <2>2. g \in [1 .. Len(I) + 1 -> Seq(BusEvent)]
    BY <1>1, <2>1, EventsType
  <2> HIDE DEF g
  <2> QED
    BY <1>1, <2>2, FunctionIsSeq
<1>5. /\ \A k \in 1..Len(I) : g[k] = f[k]
      /\ g[Len(I) + 1] = Events(i)
  BY <1>1
<1>6. Perform(I) = FlattenSeq(f) /\ Perform(Append(I, i)) = FlattenSeq(g)
  BY DEF Perform
<1> HIDE DEF f, g
<1>7. g = Append(f, Events(i))
  <2>1. Events(i) \in Seq(BusEvent)
    BY EventsType
  <2>2. /\ Append(f, Events(i)) \in Seq(Seq(BusEvent))
        /\ Len(Append(f, Events(i))) = Len(I) + 1
        /\ \A k \in 1..Len(I) : Append(f, Events(i))[k] = f[k]
        /\ Append(f, Events(i))[Len(I) + 1] = Events(i)
    BY <1>3, <2>1, AppendProperties
  <2>3. \A k \in 1 .. Len(I) + 1 : Append(f, Events(i))[k] = g[k]
    <3>1. \A k \in 1 .. Len(I) + 1 : k \in 1..Len(I) \/ k = Len(I) + 1
      BY <1>1
    <3> QED
      BY <1>5, <2>2, <3>1
  <2> QED
    BY <1>4, <2>2, <2>3, SeqEqual
<1> QED
  BY <1>3, <1>6, <1>7, EventsType, FlattenAppend

(* The events of some instructions. *)
LEMMA PerformType ==
    ASSUME NEW I \in Seq(Sound)
    PROVE  Perform(I) \in Seq(BusEvent) /\ Perform(<<>>) = <<>>
<1> DEFINE f == [k \in DOMAIN I |-> Events(I[k])]
<1>1. DOMAIN I = 1..Len(I) /\ Len(I) \in Nat /\ \A k \in 1..Len(I) : I[k] \in Sound
  BY ElementOfSeq, LenProperties
<1>2. f \in [1..Len(I) -> Seq(BusEvent)]
  BY <1>1, EventsType
<1>3. Perform(I) = FlattenSeq(f)
  BY DEF Perform
<1> HIDE DEF f
<1>4. f \in Seq(Seq(BusEvent))
  BY <1>1, <1>2, FunctionIsSeq
<1>5. Perform(<<>>) = <<>>
  <2> DEFINE e == [k \in DOMAIN <<>> |-> Events(<<>>[k])]
  <2>1. e = <<>>
    OBVIOUS
  <2>2. Perform(<<>>) = FlattenSeq(e)
    BY DEF Perform
  <2> HIDE DEF e
  <2> QED
    BY <2>1, <2>2 DEF FlattenSeq
<1> QED
  BY <1>3, <1>4, <1>5, FlattenType

(* One more instruction adds its bytes to both counts. *)
LEMMA CountsAppend ==
    ASSUME NEW I \in Seq(Sound), NEW i \in Sound
    PROVE  /\ dataBytes(I) \in Nat /\ writtenBytes(I) \in Nat
           /\ dataBytes(<<>>) = 0
           /\ dataBytes(Append(I, i)) = dataBytes(I) + Data(i)
           /\ writtenBytes(<<>>) = 0
           /\ writtenBytes(Append(I, i)) = writtenBytes(I) + Status(i)
<1>1. /\ Append(I, i) \in Seq(Sound) /\ Len(Append(I, i)) = Len(I) + 1 /\ Len(I) \in Nat
      /\ DOMAIN I = 1..Len(I) /\ DOMAIN Append(I, i) = 1 .. Len(I) + 1
      /\ (\A k \in 1..Len(I) : Append(I, i)[k] = I[k]) /\ Append(I, i)[Len(I) + 1] = i
  BY AppendProperties, LenProperties
<1>2. ASSUME NEW count, count \in [Sound -> Nat],
             NEW f, f = [k \in DOMAIN I |-> count[I[k]]],
             NEW g, g = [k \in DOMAIN Append(I, i) |-> count[Append(I, i)[k]]]
      PROVE  Total(f) \in Nat /\ Total(g) = Total(f) + count[i]
  <2>1. \A k \in 1..Len(I) : I[k] \in Sound
    BY ElementOfSeq
  <2>2. f \in Seq(Nat) /\ Len(f) = Len(I)
    <3>1. f \in [1..Len(I) -> Nat]
      BY <1>1, <1>2, <2>1
    <3> QED
      BY <1>1, <3>1, FunctionIsSeq
  <2>3. g \in Seq(Nat) /\ Len(g) = Len(I) + 1
    <3>1. \A k \in 1 .. Len(I) + 1 : Append(I, i)[k] \in Sound
      BY <1>1, ElementOfSeq
    <3>2. g \in [1 .. Len(I) + 1 -> Nat]
      BY <1>1, <1>2, <3>1
    <3> QED
      BY <1>1, <3>2, FunctionIsSeq
  <2>4. (\A k \in 1..Len(I) : g[k] = f[k]) /\ g[Len(I) + 1] = count[i] /\ count[i] \in Nat
    BY <1>1, <1>2
  <2>5. g = Append(f, count[i])
    <3>1. /\ Append(f, count[i]) \in Seq(Nat) /\ Len(Append(f, count[i])) = Len(I) + 1
          /\ \A k \in 1..Len(I) : Append(f, count[i])[k] = f[k]
          /\ Append(f, count[i])[Len(I) + 1] = count[i]
      BY <2>2, <2>4, AppendProperties
    <3>2. \A k \in 1 .. Len(I) + 1 : Append(f, count[i])[k] = g[k]
      <4>1. \A k \in 1 .. Len(I) + 1 : k \in 1..Len(I) \/ k = Len(I) + 1
        BY <1>1
      <4> QED
        BY <2>4, <3>1, <4>1
    <3> QED
      BY <2>3, <3>1, <3>2, SeqEqual
  <2> QED
    BY <2>2, <2>4, <2>5, TotalAppend
<1>3. \A k \in 1 .. Len(I) + 1 : Append(I, i)[k] \in Sound
  BY <1>1, ElementOfSeq
<1>4. \A k \in 1..Len(I) : I[k] \in Sound
  BY ElementOfSeq
<1>5. dataBytes(I) \in Nat /\ dataBytes(Append(I, i)) = dataBytes(I) + Data(i)
  <2> DEFINE count == [j \in Sound |-> Data(j)]
             f == [k \in DOMAIN I |-> Data(I[k])]
             g == [k \in DOMAIN Append(I, i) |-> Data(Append(I, i)[k])]
  <2>1. count \in [Sound -> Nat]
    BY EventsType
  <2>2. dataBytes(I) = Total(f) /\ dataBytes(Append(I, i)) = Total(g)
    BY DEF dataBytes, Data
  <2>3. \A j \in Sound : count[j] = Data(j)
    OBVIOUS
  <2> HIDE DEF count
  <2>4. f = [k \in DOMAIN I |-> count[I[k]]]
    BY <1>1, <1>4, <2>3
  <2>5. g = [k \in DOMAIN Append(I, i) |-> count[Append(I, i)[k]]]
    BY <1>1, <1>3, <2>3
  <2> HIDE DEF f, g
  <2> QED
    BY <1>2, <2>1, <2>2, <2>3, <2>4, <2>5
<1>6. writtenBytes(I) \in Nat /\ writtenBytes(Append(I, i)) = writtenBytes(I) + Status(i)
  <2> DEFINE count == [j \in Sound |-> Status(j)]
             f == [k \in DOMAIN I |-> Status(I[k])]
             g == [k \in DOMAIN Append(I, i) |-> Status(Append(I, i)[k])]
  <2>1. count \in [Sound -> Nat]
    BY EventsType
  <2>2. writtenBytes(I) = Total(f) /\ writtenBytes(Append(I, i)) = Total(g)
    BY DEF writtenBytes, Status
  <2>3. \A j \in Sound : count[j] = Status(j)
    OBVIOUS
  <2> HIDE DEF count
  <2>4. f = [k \in DOMAIN I |-> count[I[k]]]
    BY <1>1, <1>4, <2>3
  <2>5. g = [k \in DOMAIN Append(I, i) |-> count[Append(I, i)[k]]]
    BY <1>1, <1>3, <2>3
  <2> HIDE DEF f, g
  <2> QED
    BY <1>2, <2>1, <2>2, <2>3, <2>4, <2>5
<1>7. dataBytes(<<>>) = 0 /\ writtenBytes(<<>>) = 0
  <2> DEFINE e == [k \in DOMAIN <<>> |-> Data(<<>>[k])]
             w == [k \in DOMAIN <<>> |-> Status(<<>>[k])]
  <2>1. e = <<>> /\ w = <<>>
    OBVIOUS
  <2>2. dataBytes(<<>>) = Total(e) /\ writtenBytes(<<>>) = Total(w)
    BY DEF dataBytes, writtenBytes, Data, Status
  <2>3. Total(<<>>) = 0
    <3>1. <<>> \in Seq(Nat) /\ 0 \in Nat
      BY EmptySeq
    <3> QED
      BY <3>1, TotalAppend
  <2> HIDE DEF e, w
  <2> QED
    BY <2>1, <2>2, <2>3
<1> QED
  BY <1>5, <1>6, <1>7

-----------------------------------------------------------------------------
(* Walking through a packet *)

Decoded == [command : Int, operands : Seq(Int)]

(* What Instructions finds from place i on, given what it finds later. *)
Found(w, packet, i) ==
    IF i > Len(packet) \/ packet[i] = streamEnd THEN <<>>
    ELSE IF \/ packet[i] \notin {streamI2CStart, streamI2CStop}
                                \cup \h60..\h63 \cup \h80..\hFF
            \/ i + width(packet[i]) > Len(packet)
         THEN <<[command |-> badCommand, operands |-> <<>>]>>
         ELSE <<[command |-> packet[i],
                 operands |-> SubSeq(packet, i + 1, i + width(packet[i]))]>>
              \o w[i + 1 + width(packet[i])]

Walk(w, packet, first) == w = [i \in first .. Len(packet) + 1 |-> Found(w, packet, i)]

(* What a walk finds at each place. *)
LEMMA WalkAt ==
    ASSUME NEW w, NEW packet, NEW first, Walk(w, packet, first)
    PROVE  \A i \in first .. Len(packet) + 1 : w[i] = Found(w, packet, i)
<1> DEFINE g == [i \in first .. Len(packet) + 1 |-> Found(w, packet, i)]
<1>1. w = g
  BY DEF Walk
<1>2. \A i \in first .. Len(packet) + 1 : g[i] = Found(w, packet, i)
  OBVIOUS
<1> HIDE DEF g
<1> QED
  BY <1>1, <1>2

(* Some bytes follow a command. *)
LEMMA Widths ==
    /\ \A c \in Int : width(c) \in Nat
    /\ \A c \in Commands : width(c) = IF c \in \h80..\h81 THEN 1 ELSE 0
<1>1. \A c \in Int : width(c) \in Nat
  BY EncodedLengths DEF width
<1>2. ASSUME NEW c \in Commands PROVE width(c) = IF c \in \h80..\h81 THEN 1 ELSE 0
  <2>1. CASE c \in \h80..\h81
    <3>1. c = 128 \/ c = 129
      BY <2>1
    <3> QED
      BY <3>1, EncodedLengths DEF width
  <2>2. CASE c \notin \h80..\h81
    <3>1. c \notin \h80..\hBF
      BY <2>2 DEF Commands, streamI2CStart, streamI2CStop
    <3> QED
      BY <2>2, <3>1 DEF width
  <2> QED
    BY <2>1, <2>2
<1> QED
  BY <1>1, <1>2

(* A walk looks at later places only. *)
LEMMA FoundLater ==
    ASSUME NEW w, NEW v, NEW packet \in Seq(Int), NEW i \in Nat, i >= 1,
           i <= Len(packet) + 1,
           \A j \in i + 1 .. Len(packet) + 1 : w[j] = v[j]
    PROVE  Found(w, packet, i) = Found(v, packet, i)
<1>1. CASE i > Len(packet) \/ i + width(packet[i]) > Len(packet)
  BY <1>1 DEF Found
<1>2. CASE i <= Len(packet) /\ ~(i + width(packet[i]) > Len(packet))
  <2>1. Len(packet) \in Nat /\ packet[i] \in Int
    BY <1>2
  <2>2. width(packet[i]) \in Nat
    BY <2>1, Widths, Zenon
  <2>3. i + 1 + width(packet[i]) \in i + 1 .. Len(packet) + 1
    BY <1>2, <2>1, <2>2
  <2>4. w[i + 1 + width(packet[i])] = v[i + 1 + width(packet[i])]
    BY <2>3
  <2> QED
    BY <2>4 DEF Found
<1>3. Len(packet) \in Nat
  OBVIOUS
<1> QED
  BY <1>1, <1>2, <1>3

(* A packet can be walked through. *)
LEMMA WalkExists ==
    ASSUME NEW packet \in Seq(Int), Len(packet) >= 1
    PROVE  \E w : Walk(w, packet, 2)
<1> DEFINE n == Len(packet)
           Good == {j \in Nat : j <= n - 1 => \E w : Walk(w, packet, n + 1 - j)}
<1>1. n \in Nat /\ n >= 1
  OBVIOUS
<1>2. 0 \in Good
  <2> DEFINE w == [i \in n + 1 .. n + 1 |-> <<>>]
  <2>1. ASSUME NEW i \in n + 1 .. n + 1 PROVE Found(w, packet, i) = <<>>
    <3>1. i > n
      BY <1>1
    <3> QED
      BY <3>1 DEF Found
  <2>2. w = [i \in n + 1 .. n + 1 |-> Found(w, packet, i)]
    BY <2>1
  <2>3. Walk(w, packet, n + 1)
    BY <2>2 DEF Walk
  <2>4. n + 1 - 0 = n + 1
    BY <1>1
  <2> HIDE DEF w
  <2> QED
    BY <2>3, <2>4
<1>3. ASSUME NEW j \in Nat, j \in Good PROVE j + 1 \in Good
  <2> SUFFICES ASSUME j + 1 <= n - 1 PROVE \E w : Walk(w, packet, n + 1 - (j + 1))
    OBVIOUS
  <2> DEFINE first == n - j
  <2>1. /\ first \in Nat /\ first >= 1 /\ first <= n + 1 /\ n + 1 - (j + 1) = first
        /\ n + 1 - j = first + 1 /\ j <= n - 1
    BY <1>1
  <2>2. PICK w : Walk(w, packet, first + 1)
    BY <1>3, <2>1
  <2> HIDE DEF first, n
  <2> DEFINE v == [i \in first .. n + 1 |-> IF i = first THEN Found(w, packet, first)
                                                         ELSE w[i]]
  <2>3. v[first] = Found(w, packet, first) /\ \A i \in first + 1 .. n + 1 : v[i] = w[i]
    BY <1>1, <2>1
  <2>4. v = [i \in first .. n + 1 |-> v[i]]
    OBVIOUS
  <2> HIDE DEF v
  <2>5. ASSUME NEW i \in first .. n + 1 PROVE v[i] = Found(v, packet, i)
    <3>1. /\ i \in Nat /\ i >= 1 /\ i <= Len(packet) + 1
          /\ \A k \in i + 1 .. Len(packet) + 1 : k \in first + 1 .. n + 1
      BY <1>1, <2>1 DEF n
    <3>2. Found(w, packet, i) = Found(v, packet, i)
      BY <2>3, <3>1, FoundLater
    <3>3. i = first \/ i \in first + 1 .. n + 1
      BY <1>1, <2>1
    <3>4. i \in first + 1 .. n + 1 => w[i] = Found(w, packet, i)
      BY <2>2, WalkAt DEF n
    <3> QED
      BY <2>3, <3>2, <3>3, <3>4
  <2>6. Walk(v, packet, first)
    BY <2>4, <2>5 DEF Walk, n
  <2> QED
    BY <2>1, <2>6
<1>4. \A j \in Nat : j \in Good
  <2> HIDE DEF Good
  <2> QED
    BY <1>2, <1>3, RoundByRound
<1>5. n - 1 \in Nat /\ n + 1 - (n - 1) = 2
  BY <1>1
<1>6. n - 1 <= n - 1
  BY <1>1
<1> HIDE DEF n
<1> QED
  BY <1>4, <1>5, <1>6

(* Instructions is what a walk finds from the second byte on. *)
LEMMA InstructionsAreFound ==
    ASSUME NEW packet \in Seq(Int), Len(packet) >= 1
    PROVE  \E w : Walk(w, packet, 2) /\ Instructions(packet) = w[2]
<1> DEFINE w == CHOOSE v : v = [i \in 2 .. Len(packet) + 1 |-> Found(v, packet, i)]
<1>1. PICK some : Walk(some, packet, 2)
  BY WalkExists
<1>2. some = [i \in 2 .. Len(packet) + 1 |-> Found(some, packet, i)]
  BY <1>1 DEF Walk
<1>3. w = [i \in 2 .. Len(packet) + 1 |-> Found(w, packet, i)]
  BY <1>2, Zenon
<1>4. Instructions(packet) = w[2]
  BY DEF Instructions, Found
<1> HIDE DEF w
<1> QED
  BY <1>3, <1>4 DEF Walk

(* What a walk finds are instructions. *)
LEMMA WalkType ==
    ASSUME NEW packet \in Seq(Int), NEW w, Walk(w, packet, 2)
    PROVE  \A i \in 2 .. Len(packet) + 1 : w[i] \in Seq(Decoded)
<1> DEFINE n == Len(packet)
           Good == {j \in Nat : \A i \in 2 .. n + 1 : i >= n + 1 - j => w[i] \in Seq(Decoded)}
<1>1. n \in Nat
  OBVIOUS
<1>2. \A i \in 2 .. n + 1 : w[i] = Found(w, packet, i)
  BY WalkAt
<1> HIDE DEF n
<1>3. <<>> \in Seq(Decoded)
  BY EmptySeq
<1>4. 0 \in Good
  <2> SUFFICES ASSUME NEW i \in 2 .. n + 1, i >= n + 1 - 0 PROVE w[i] \in Seq(Decoded)
    OBVIOUS
  <2>1. i > n
    BY <1>1
  <2>2. w[i] = <<>>
    BY <1>2, <2>1 DEF Found, n
  <2> QED
    BY <1>3, <2>2
<1>5. ASSUME NEW j \in Nat, j \in Good PROVE j + 1 \in Good
  <2> SUFFICES ASSUME NEW i \in 2 .. n + 1, i >= n + 1 - (j + 1)
               PROVE  w[i] \in Seq(Decoded)
    OBVIOUS
  <2>1. CASE i > n \/ packet[i] = streamEnd
    BY <1>2, <1>3, <2>1 DEF Found, n
  <2>2. CASE w[i] = <<[command |-> badCommand, operands |-> <<>>]>>
    <3>1. [command |-> badCommand, operands |-> <<>>] \in Decoded
      BY DEF Decoded, badCommand
    <3> QED
      BY <2>2, <3>1
  <2>3. CASE /\ i <= n /\ i + width(packet[i]) <= n
             /\ w[i] = <<[command |-> packet[i],
                          operands |-> SubSeq(packet, i + 1, i + width(packet[i]))]>>
                       \o w[i + 1 + width(packet[i])]
    <3>1. packet[i] \in Int /\ i \in Nat
      BY <1>1, <2>3 DEF n
    <3>2. width(packet[i]) \in Nat
      BY <3>1, Widths, Zenon
    <3>3. SubSeq(packet, i + 1, i + width(packet[i])) \in Seq(Int)
      <4>1. \A k \in i + 1 .. i + width(packet[i]) : packet[k] \in Int
        <5>1. \A k \in i + 1 .. i + width(packet[i]) : k \in 1..n
          BY <1>1, <2>3, <3>1, <3>2
        <5> QED
          BY <5>1 DEF n
      <4>2. i + 1 \in Int /\ i + width(packet[i]) \in Int
        BY <3>1, <3>2
      <4> QED
        BY <4>1, <4>2, SubSeqProperties
    <3>4. /\ i + 1 + width(packet[i]) \in 2 .. n + 1
          /\ i + 1 + width(packet[i]) >= n + 1 - j
      <4>1. i <= n /\ i + width(packet[i]) <= n
        BY <2>3
      <4> DEFINE x == width(packet[i])
      <4>2. x \in Nat /\ i + x <= n
        BY <3>2, <4>1
      <4> HIDE DEF x
      <4>3. i + 1 + x \in 2 .. n + 1 /\ i + 1 + x >= n + 1 - j
        BY <1>1, <3>1, <4>2
      <4> QED
        BY <4>3 DEF x
    <3>5. w[i + 1 + width(packet[i])] \in Seq(Decoded)
      BY <1>5, <3>4
    <3>6. [command |-> packet[i], operands |-> SubSeq(packet, i + 1, i + width(packet[i]))]
              \in Decoded
      BY <3>1, <3>3 DEF Decoded
    <3> QED
      BY <2>3, <3>5, <3>6
  <2>4. w[i] = Found(w, packet, i)
    BY <1>2
  <2>5. i \in Int /\ (i <= n => packet[i] \in Int)
    BY <1>1 DEF n
  <2>6. i <= n => width(packet[i]) \in Nat
    BY <2>5, Widths, Zenon
  <2>7. \/ i > n \/ packet[i] = streamEnd
        \/ w[i] = <<[command |-> badCommand, operands |-> <<>>]>>
        \/ /\ ~(i > n) /\ ~(i + width(packet[i]) > n)
           /\ w[i] = <<[command |-> packet[i],
                        operands |-> SubSeq(packet, i + 1, i + width(packet[i]))]>>
                     \o w[i + 1 + width(packet[i])]
    BY <2>4, Zenon DEF Found, n
  <2>8. i <= n => (~(i + width(packet[i]) > n) => i + width(packet[i]) <= n)
    BY <1>1, <2>5, <2>6
  <2>9. ~(i > n) => i <= n
    BY <1>1, <2>5
  <2> QED
    BY <2>1, <2>2, <2>3, <2>7, <2>8, <2>9, Zenon
<1> HIDE DEF Good
<1>6. n + 1 \in Good
  BY <1>1, <1>4, <1>5, RoundByRound
<1>7. \A i \in 2 .. n + 1 : i >= n + 1 - (n + 1)
  BY <1>1
<1> QED
  BY <1>6, <1>7 DEF Good, n

-----------------------------------------------------------------------------
(* Filling a packet *)

(* A walk through a packet that begins with segment finds instructions and  *)
(* goes on right behind the segment.                                        *)
Filled(segment, instructions) ==
    /\ segment \in Seq(Int) /\ Len(segment) >= 1
    /\ instructions \in Seq(Sound)
    /\ \A tail \in Seq(Int) : \A w :
           Walk(w, segment \o tail, 2) => w[2] = instructions \o w[Len(segment) + 1]

(* A packet begins empty. *)
LEMMA FilledFirst == Filled(<<streamStart>>, <<>>)
<1> DEFINE segment == <<streamStart>>
<1>1. segment \in Seq(Int) /\ Len(segment) = 1
  BY DEF streamStart
<1>2. <<>> \in Seq(Sound)
  BY EmptySeq
<1> HIDE DEF segment
<1>3. ASSUME NEW tail \in Seq(Int), NEW w, Walk(w, segment \o tail, 2)
      PROVE  w[2] = <<>> \o w[Len(segment) + 1]
  <2>1. segment \o tail \in Seq(Int) /\ Len(segment \o tail) = 1 + Len(tail)
    BY <1>1, ConcatProperties
  <2>2. 2 \in 2 .. Len(segment \o tail) + 1 /\ Len(segment) + 1 = 2
    BY <1>1, <2>1
  <2>3. w[2] \in Seq(Decoded)
    BY <1>3, <2>1, <2>2, WalkType
  <2> QED
    BY <2>2, <2>3, ConcatEmptySeq
<1> QED
  BY <1>1, <1>2, <1>3 DEF Filled, segment

(* The elements of a concatenation. *)
LEMMA ConcatAt ==
    ASSUME NEW s \in Seq(Int), NEW t \in Seq(Int)
    PROVE  /\ s \o t \in Seq(Int) /\ Len(s \o t) = Len(s) + Len(t)
           /\ Len(s) \in Nat /\ Len(t) \in Nat
           /\ \A k \in 1..Len(s) : (s \o t)[k] = s[k]
           /\ \A k \in 1..Len(t) : (s \o t)[Len(s) + k] = t[k]
<1> DEFINE u == s \o t
<1>1. /\ u \in Seq(Int) /\ Len(u) = Len(s) + Len(t)
      /\ \A i \in 1 .. Len(s) + Len(t) : u[i] = IF i <= Len(s) THEN s[i] ELSE t[i - Len(s)]
  BY ConcatProperties
<1>2. Len(s) \in Nat /\ Len(t) \in Nat
  OBVIOUS
<1> HIDE DEF u
<1>3. \A k \in 1..Len(s) : k \in 1 .. Len(s) + Len(t) /\ k <= Len(s)
  BY <1>2
<1>4. \A k \in 1..Len(t) : /\ Len(s) + k \in 1 .. Len(s) + Len(t)
                           /\ ~(Len(s) + k <= Len(s)) /\ (Len(s) + k) - Len(s) = k
  BY <1>2
<1>5. \A k \in 1..Len(s) : u[k] = s[k]
  BY <1>1, <1>3
<1>6. \A k \in 1..Len(t) : u[Len(s) + k] = t[k]
  BY <1>1, <1>4
<1> QED
  BY <1>1, <1>2, <1>5, <1>6 DEF u

(* Bytes and events can be put together in any grouping. *)
LEMMA Regrouped ==
    /\ \A s, t, u \in Seq(Int) : (s \o t) \o u = s \o (t \o u)
    /\ \A s, t, u \in Seq(BusEvent) : (s \o t) \o u = s \o (t \o u)
<1>1. ASSUME NEW s \in Seq(Int), NEW t \in Seq(Int), NEW u \in Seq(Int)
      PROVE  (s \o t) \o u = s \o (t \o u)
  BY ConcatAssociative
<1>2. ASSUME NEW s \in Seq(BusEvent), NEW t \in Seq(BusEvent), NEW u \in Seq(BusEvent)
      PROVE  (s \o t) \o u = s \o (t \o u)
  BY ConcatAssociative
<1> QED
  BY <1>1, <1>2

(* The bytes of an instruction. *)
Coded(i) == <<i.command>> \o i.operands

(* They are its command and its operands, one at most. *)
LEMMA CodedAs ==
    ASSUME NEW i \in Sound
    PROVE  /\ i.command \in Commands /\ i.command \in Int /\ i.command # streamEnd
           /\ i.command \in {streamI2CStart, streamI2CStop} \cup \h60..\h63 \cup \h80..\hFF
           /\ i.operands \in Seq(Int) /\ Len(i.operands) = width(i.command)
           /\ width(i.command) \in 0..1
           /\ i = [command |-> i.command, operands |-> i.operands]
           /\ Coded(i) \in Seq(Int) /\ Len(Coded(i)) = 1 + width(i.command)
           /\ Coded(i)[1] = i.command
           /\ \A k \in 1..width(i.command) : Coded(i)[1 + k] = i.operands[k]
<1> DEFINE c == i.command
           one == <<c>>
<1>1. /\ c \in Commands /\ i.operands \in Seq(Int) /\ Len(i.operands) = width(c)
      /\ i = [command |-> c, operands |-> i.operands]
  BY DEF Sound
<1>2. \A b \in Commands : b \in Int /\ b # 0
          /\ b \in {streamI2CStart, streamI2CStop} \cup \h60..\h63 \cup \h80..\hFF
  BY DEF Commands, streamI2CStart, streamI2CStop
<1> HIDE DEF c
<1>3. c \in Int /\ c # streamEnd
      /\ c \in {streamI2CStart, streamI2CStop} \cup \h60..\h63 \cup \h80..\hFF
  BY <1>1, <1>2 DEF streamEnd
<1>4. width(c) \in 0..1
  <2>1. width(c) = 0 \/ width(c) = 1
    BY <1>1, Widths, Zenon
  <2> QED
    BY <2>1
<1>5. one \in Seq(Int) /\ Len(one) = 1 /\ one[1] = c
  BY <1>3
<1>6. Coded(i) = one \o i.operands
  BY DEF Coded, c
<1> HIDE DEF one
<1>7. /\ Coded(i) \in Seq(Int) /\ Len(Coded(i)) = 1 + width(c)
      /\ \A k \in 1..1 : Coded(i)[k] = one[k]
      /\ \A k \in 1..width(c) : Coded(i)[1 + k] = i.operands[k]
  <2> DEFINE ops == i.operands
  <2>1. one \in Seq(Int) /\ ops \in Seq(Int) /\ Len(one) = 1 /\ Len(ops) = width(c)
    BY <1>1, <1>5
  <2>2. Coded(i) = one \o ops
    BY <1>6
  <2> HIDE DEF ops
  <2>3. /\ one \o ops \in Seq(Int) /\ Len(one \o ops) = Len(one) + Len(ops)
        /\ \A k \in 1..Len(one) : (one \o ops)[k] = one[k]
        /\ \A k \in 1..Len(ops) : (one \o ops)[Len(one) + k] = ops[k]
    BY <2>1, ConcatAt
  <2> QED
    BY <2>1, <2>2, <2>3 DEF ops
<1> QED
  BY <1>1, <1>3, <1>4, <1>5, <1>7 DEF c

(* An instruction is put behind the others. *)
LEMMA FilledMore ==
    ASSUME NEW segment, NEW I, Filled(segment, I), NEW i \in Sound
    PROVE  /\ Filled(segment \o Coded(i), Append(I, i))
           /\ Len(segment \o Coded(i)) = Len(segment) + 1 + width(i.command)
<1> DEFINE c == i.command
           x == Len(segment) + 1
           n == width(c)
           longer == segment \o Coded(i)
<1>1. /\ c \in Int /\ c # streamEnd
      /\ c \in {streamI2CStart, streamI2CStop} \cup \h60..\h63 \cup \h80..\hFF
      /\ i.operands \in Seq(Int) /\ Len(i.operands) = n
      /\ i = [command |-> c, operands |-> i.operands]
  BY CodedAs
<1>2. /\ Coded(i) \in Seq(Int) /\ Len(Coded(i)) = 1 + n /\ n \in Nat
      /\ Coded(i)[1] = c /\ \A k \in 1..n : Coded(i)[1 + k] = i.operands[k]
  BY CodedAs
<1>3. segment \in Seq(Int) /\ Len(segment) >= 1 /\ I \in Seq(Sound) /\ Len(segment) \in Nat
  BY DEF Filled
<1> HIDE DEF c, n
<1>4. longer \in Seq(Int) /\ Len(longer) = Len(segment) + 1 + n /\ Len(longer) >= 1
  <2>1. longer \in Seq(Int) /\ Len(longer) = Len(segment) + Len(Coded(i))
    BY <1>2, <1>3, ConcatAt
  <2> HIDE DEF longer
  <2> QED
    BY <1>2, <1>3, <2>1
<1> HIDE DEF longer
<1>5. Append(I, i) \in Seq(Sound) /\ Append(I, i) = I \o <<i>>
  BY <1>3, AppendProperties, AppendIsConcat
<1>6. ASSUME NEW tail \in Seq(Int), NEW w, Walk(w, longer \o tail, 2)
      PROVE  w[2] = Append(I, i) \o w[Len(longer) + 1]
  <2> DEFINE rest == Coded(i) \o tail
             packet == segment \o rest
  <2>1. packet = longer \o tail
    <3>1. segment \in Seq(Int) /\ Coded(i) \in Seq(Int)
      BY <1>2, <1>3
    <3>2. (segment \o Coded(i)) \o tail = segment \o (Coded(i) \o tail)
      BY <3>1, ConcatAssociative
    <3> QED
      BY <3>2 DEF longer
  <2>2. /\ rest \in Seq(Int) /\ Len(rest) = Len(Coded(i)) + Len(tail) /\ Len(tail) \in Nat
        /\ \A k \in 1..Len(Coded(i)) : rest[k] = Coded(i)[k]
    BY <1>2, ConcatAt
  <2> HIDE DEF rest
  <2>3. /\ packet \in Seq(Int) /\ Len(packet) = Len(segment) + Len(rest)
        /\ \A k \in 1..Len(rest) : packet[Len(segment) + k] = rest[k]
    BY <1>3, <2>2, ConcatAt
  <2> HIDE DEF packet
  <2>4. w[2] = I \o w[x]
    <3>1. Walk(w, segment \o rest, 2)
      BY <1>6, <2>1 DEF packet
    <3> QED
      BY <2>2, <3>1 DEF Filled
  <2>5. /\ Len(packet) = Len(segment) + 1 + n + Len(tail) /\ Len(packet) \in Nat
        /\ x \in 2 .. Len(packet) + 1 /\ ~(x > Len(packet)) /\ ~(x + n > Len(packet))
        /\ x + 1 + n = Len(longer) + 1
        /\ x + 1 + n \in 2 .. Len(packet) + 1
    <3>1. Len(packet) = Len(segment) + 1 + n + Len(tail) /\ Len(packet) \in Nat
      BY <1>2, <1>3, <2>2, <2>3
    <3>2. Len(tail) \in Nat
      BY <2>2
    <3> QED
      BY <1>2, <1>3, <1>4, <3>1, <3>2
  <2>6. packet[x] = c /\ \A k \in 1..n : packet[x + k] = i.operands[k]
    <3>1. packet[Len(segment) + 1] = c
      <4>1. 1 \in 1..Len(rest) /\ 1 \in 1..Len(Coded(i))
        BY <1>2, <2>2
      <4> QED
        BY <1>2, <2>2, <2>3, <4>1
    <3>2. ASSUME NEW k \in 1..n PROVE packet[x + k] = i.operands[k]
      <4>1. 1 + k \in 1..Len(rest) /\ 1 + k \in 1..Len(Coded(i))
            /\ x + k = Len(segment) + (1 + k)
        BY <1>2, <1>3, <2>2
      <4>2. packet[Len(segment) + (1 + k)] = rest[1 + k]
        BY <2>3, <4>1
      <4>3. rest[1 + k] = Coded(i)[1 + k]
        BY <2>2, <4>1
      <4>4. Coded(i)[1 + k] = i.operands[k]
        BY <1>2
      <4> QED
        BY <4>1, <4>2, <4>3, <4>4
    <3> QED
      BY <3>1, <3>2
  <2>7. SubSeq(packet, x + 1, x + n) = i.operands
    <3> DEFINE sub == SubSeq(packet, x + 1, x + n)
    <3>1. /\ x + 1 \in Int /\ x + n \in Int
          /\ (x + n) - (x + 1) + 1 = n
          /\ (IF x + 1 <= x + n THEN (x + n) - (x + 1) + 1 ELSE 0) = n
      BY <1>2, <1>3
    <3>2. \A k \in x + 1 .. x + n : packet[k] \in Int
      <4>1. \A k \in x + 1 .. x + n : k \in 1..Len(packet)
        BY <1>2, <1>3, <2>5
      <4> QED
        BY <2>3, <4>1, ElementOfSeq
    <3>3. /\ sub \in Seq(Int)
          /\ Len(sub) = IF x + 1 <= x + n THEN (x + n) - (x + 1) + 1 ELSE 0
          /\ \A k \in 1 .. (x + n) - (x + 1) + 1 : sub[k] = packet[(x + 1) + k - 1]
      <4> DEFINE a == x + 1
                 b == x + n
      <4>1. a \in Int /\ b \in Int /\ \A k \in a..b : packet[k] \in Int
        BY <3>1, <3>2
      <4> HIDE DEF a, b
      <4>2. /\ SubSeq(packet, a, b) \in Seq(Int)
            /\ Len(SubSeq(packet, a, b)) = IF a <= b THEN b - a + 1 ELSE 0
            /\ \A k \in 1 .. b - a + 1 : SubSeq(packet, a, b)[k] = packet[a + k - 1]
        BY <4>1, SubSeqProperties
      <4> QED
        BY <4>2 DEF a, b
    <3> HIDE DEF sub
    <3>4. \A k \in 1..n : (x + 1) + k - 1 = x + k
      BY <1>2, <1>3
    <3>5. Len(sub) = n /\ \A k \in 1..n : sub[k] = packet[x + k]
      BY <3>1, <3>3, <3>4
    <3>6. \A k \in 1..n : sub[k] = i.operands[k]
      BY <2>6, <3>5
    <3>7. sub = i.operands
      <4>1. /\ sub \in Seq(Int) /\ i.operands \in Seq(Int) /\ Len(sub) = Len(i.operands)
            /\ \A k \in 1..Len(sub) : sub[k] = i.operands[k]
        BY <1>1, <3>3, <3>5, <3>6
      <4> QED
        BY <4>1, SeqEqual, Zenon
    <3> QED
      BY <3>7 DEF sub
  <2> DEFINE y == x + 1 + n
  <2>8. w[x] = <<i>> \o w[y]
    <3>1. w[x] = Found(w, packet, x)
      <4>1. Walk(w, packet, 2)
        BY <1>6, <2>1
      <4> QED
        BY <2>5, <4>1, WalkAt, Zenon
    <3>2. Found(w, packet, x) = <<[command |-> c, operands |-> SubSeq(packet, x + 1, x + n)]>>
                                \o w[x + 1 + n]
      BY <1>1, <2>5, <2>6, Zenon DEF Found, n
    <3>3. <<[command |-> c, operands |-> SubSeq(packet, x + 1, x + n)]>> = <<i>>
      BY <1>1, <2>7
    <3> QED
      BY <3>1, <3>2, <3>3
  <2> HIDE DEF x
  <2>9. w[y] \in Seq(Decoded)
    <3>1. Walk(w, packet, 2)
      BY <1>6, <2>1
    <3>2. \A k \in 2 .. Len(packet) + 1 : w[k] \in Seq(Decoded)
      BY <2>3, <3>1, WalkType
    <3> QED
      BY <2>5, <3>2
  <2>10. I \in Seq(Decoded) /\ <<i>> \in Seq(Decoded)
    <3>1. Sound \subseteq Decoded
      <4>1. ASSUME NEW j \in Sound PROVE j \in Decoded
        <5>1. j.command \in Int /\ j.operands \in Seq(Int)
              /\ j = [command |-> j.command, operands |-> j.operands]
          BY CodedAs
        <5> QED
          BY <5>1 DEF Decoded
      <4> QED
        BY <4>1
    <3>2. I \in Seq(Decoded)
      BY <1>3, <3>1, SeqMonotonic
    <3>3. i \in Decoded
      BY <3>1
    <3> QED
      BY <3>2, <3>3
  <2> DEFINE later == w[y]
             one == <<i>>
  <2>11. later \in Seq(Decoded) /\ one \in Seq(Decoded)
    BY <2>9, <2>10
  <2> HIDE DEF later, one
  <2>12. (I \o one) \o later = I \o (one \o later)
    BY <2>10, <2>11, ConcatAssociative
  <2>13. w[2] = I \o (one \o later)
    BY <2>4, <2>8 DEF one, later
  <2>14. w[2] = Append(I, i) \o w[y]
    BY <1>5, <2>12, <2>13 DEF one, later
  <2> QED
    BY <2>5, <2>14
<1> QED
  BY <1>4, <1>5, <1>6 DEF Filled, longer, n, c

(* END closes the packet. *)
LEMMA FilledDone ==
    ASSUME NEW segment, NEW I, Filled(segment, I),
           NEW tail \in Seq(Int), Len(tail) >= 1, tail[1] = streamEnd
    PROVE  Instructions(segment \o tail) = I
<1> DEFINE packet == segment \o tail
           x == Len(segment) + 1
<1>1. segment \in Seq(Int) /\ Len(segment) \in Nat /\ Len(segment) >= 1 /\ I \in Seq(Sound)
      /\ Len(tail) \in Nat
  BY DEF Filled
<1>2. /\ packet \in Seq(Int) /\ Len(packet) = Len(segment) + Len(tail)
      /\ packet[x] = streamEnd
  <2>1. /\ packet \in Seq(Int) /\ Len(packet) = Len(segment) + Len(tail)
        /\ \A k \in 1 .. Len(segment) + Len(tail) :
               packet[k] = IF k <= Len(segment) THEN segment[k] ELSE tail[k - Len(segment)]
    BY <1>1, ConcatProperties
  <2>2. x \in 1 .. Len(segment) + Len(tail) /\ ~(x <= Len(segment)) /\ x - Len(segment) = 1
    BY <1>1
  <2> QED
    BY <2>1, <2>2
<1> HIDE DEF packet
<1>3. Len(packet) >= 1 /\ x \in 2 .. Len(packet) + 1
  BY <1>1, <1>2
<1>4. PICK w : Walk(w, packet, 2) /\ Instructions(packet) = w[2]
  BY <1>2, <1>3, InstructionsAreFound
<1>5. w[2] = I \o w[x]
  BY <1>4 DEF Filled, packet
<1>6. w[x] = <<>>
  <2>1. w[x] = Found(w, packet, x)
    BY <1>3, <1>4, WalkAt
  <2> QED
    BY <1>2, <2>1 DEF Found
<1>7. I \o <<>> = I
  BY <1>1, ConcatEmptySeq
<1> QED
  BY <1>4, <1>5, <1>6, <1>7 DEF packet

-----------------------------------------------------------------------------
(* Packet after packet *)

(* Packet k of a stream, from 0 on. *)
Packet(s, k) ==
    SubSeq(s, 32 * k + 1, IF Len(s) < 32 * k + 32 THEN Len(s) ELSE 32 * k + 32)

(* A stream of n packets that takes the bus from events[0] to events[n] and *)
(* the data bytes that came back from data[0] to data[n].                   *)
Carries(s, n, events, data) ==
    /\ s \in Seq(Int) /\ n \in Nat
    /\ 32 * n - 32 < Len(s) /\ Len(s) <= 32 * n
    /\ events \in [0..n -> Seq(BusEvent)] /\ data \in [0..n -> Nat]
    /\ \A k \in 1..n :
           /\ Instructions(Packet(s, k - 1)) \in Seq(Sound)
           /\ events[k] = events[k - 1] \o Perform(Instructions(Packet(s, k - 1)))
           /\ data[k] = data[k - 1] + dataBytes(Instructions(Packet(s, k - 1)))

(* A stream that takes the bus from the events b to the events e, and the   *)
(* count of data bytes from c to d.                                         *)
Leads(s, b, e, c, d) ==
    \E n, B, D : Carries(s, n, B, D) /\ B[0] = b /\ B[n] = e /\ D[0] = c /\ D[n] = d

(* START, STOP, a byte that is written and a read of some bytes. *)
Start == [command |-> streamI2CStart, operands |-> <<>>]
Stop == [command |-> streamI2CStop, operands |-> <<>>]
Write(code, byte) == [command |-> code, operands |-> <<byte>>]
Read(code) == [command |-> code, operands |-> <<>>]

(* They are instructions of the encoder. *)
LEMMA AreSound ==
    /\ Start \in Sound /\ Stop \in Sound
    /\ \A c \in \h80..\h81, b \in Int : Write(c, b) \in Sound
    /\ \A c \in \hC0..\hE0 : Read(c) \in Sound
<1>1. <<>> \in Seq(Int) /\ Len(<<>>) = 0
  BY EmptySeq
<1>2. ASSUME NEW c \in Commands, c \notin \h80..\h81
      PROVE  [command |-> c, operands |-> <<>>] \in Sound
  <2>1. width(c) = 0
    BY <1>2, Widths
  <2> QED
    BY <1>1, <2>1 DEF Sound
<1>3. /\ streamI2CStart \in Commands /\ streamI2CStart \notin \h80..\h81
      /\ streamI2CStop \in Commands /\ streamI2CStop \notin \h80..\h81
      /\ \A c \in \hC0..\hE0 : c \in Commands /\ c \notin \h80..\h81
  BY DEF Commands, streamI2CStart, streamI2CStop
<1>4. ASSUME NEW c \in \h80..\h81, NEW b \in Int PROVE Write(c, b) \in Sound
  <2>1. c \in Commands
    BY DEF Commands
  <2>2. width(c) = 1
    BY <2>1, Widths
  <2>3. <<b>> \in Seq(Int) /\ Len(<<b>>) = 1
    OBVIOUS
  <2> QED
    BY <2>1, <2>2, <2>3 DEF Sound, Write
<1> QED
  BY <1>2, <1>3, <1>4 DEF Start, Stop, Read

(* The counts of the instructions of the encoder are numbers. *)
LEMMA CountsAreNumbers ==
    ASSUME NEW I \in Seq(Sound)
    PROVE  dataBytes(I) \in Nat /\ writtenBytes(I) \in Nat
BY AreSound, CountsAppend

(* No instructions do nothing. *)
LEMMA NoInstructions == Perform(<<>>) = <<>> /\ dataBytes(<<>>) = 0
<1>1. <<>> \in Seq(Sound)
  BY EmptySeq
<1> QED
  BY <1>1, AreSound, PerformType, CountsAppend

(* The packets of a stream to which one more is added. *)
LEMMA PacketsOfLonger ==
    ASSUME NEW s \in Seq(Int), NEW n \in Nat, Len(s) = 32 * n,
           NEW p \in Seq(Int), Len(p) >= 1, Len(p) <= 32
    PROVE  /\ \A k \in 1..n : Packet(s \o p, k - 1) = Packet(s, k - 1)
           /\ Packet(s \o p, n) = p
<1> DEFINE t == s \o p
<1>1. t \in Seq(Int) /\ Len(t) = 32 * n + Len(p) /\ Len(p) \in Nat /\ Len(s) \in Nat
  BY ConcatAt
<1>2. ASSUME NEW k \in 1..n PROVE Packet(t, k - 1) = Packet(s, k - 1)
  <2> DEFINE a == 32 * (k - 1) + 1
             b == 32 * (k - 1) + 32
  <2>1. /\ ~(Len(t) < b) /\ ~(Len(s) < b)
        /\ a \in 1..Len(s) /\ b \in 1..Len(s)
    BY <1>1
  <2>2. Packet(t, k - 1) = SubSeq(t, a, b) /\ Packet(s, k - 1) = SubSeq(s, a, b)
    BY <2>1 DEF Packet
  <2> HIDE DEF a, b
  <2>3. SubSeq(s \o p, a, b) = SubSeq(s, a, b)
    BY <2>1, SubSeqOfConcat1
  <2> QED
    BY <2>2, <2>3
<1>3. Packet(t, n) = p
  <2>1. /\ Len(s) + 1 \in Len(s) + 1 .. Len(s) + Len(p)
        /\ Len(s) + Len(p) \in Len(s) + 1 .. Len(s) + Len(p)
        /\ (Len(s) + 1) - Len(s) = 1 /\ (Len(s) + Len(p)) - Len(s) = Len(p)
    BY <1>1
  <2>2. SubSeq(s \o p, Len(s) + 1, Len(s) + Len(p))
            = SubSeq(p, (Len(s) + 1) - Len(s), (Len(s) + Len(p)) - Len(s))
    BY <2>1, SubSeqOfConcat2
  <2>3. SubSeq(p, 1, Len(p)) = p
    BY SubSeqFull
  <2> HIDE DEF t
  <2>4. (IF Len(t) < 32 * n + 32 THEN Len(t) ELSE 32 * n + 32) = Len(s) + Len(p)
        /\ 32 * n + 1 = Len(s) + 1
    <3>1. /\ Len(t) \in Nat /\ 32 * n + 32 \in Nat /\ Len(t) <= 32 * n + 32
          /\ Len(t) = Len(s) + Len(p) /\ 32 * n + 1 = Len(s) + 1
      BY <1>1
    <3>2. \A a, b \in Nat : a <= b => (IF a < b THEN a ELSE b) = a
      OBVIOUS
    <3>3. (IF Len(t) < 32 * n + 32 THEN Len(t) ELSE 32 * n + 32) = Len(t)
      BY <3>1, <3>2, Zenon
    <3> QED
      BY <3>1, <3>3
  <2>5. Packet(t, n) = SubSeq(t, Len(s) + 1, Len(s) + Len(p))
    BY <2>4 DEF Packet
  <2> QED
    BY <2>1, <2>2, <2>3, <2>5 DEF t
<1> QED
  BY <1>2, <1>3

(* A packet is added to a stream. *)
LEMMA OnePacketMore ==
    ASSUME NEW s, NEW n, NEW B, NEW D, Carries(s, n, B, D), Len(s) = 32 * n,
           NEW p \in Seq(Int), Len(p) >= 1, Len(p) <= 32, Instructions(p) \in Seq(Sound)
    PROVE  \E C, E : /\ Carries(s \o p, n + 1, C, E)
                     /\ C[0] = B[0] /\ C[n + 1] = B[n] \o Perform(Instructions(p))
                     /\ E[0] = D[0] /\ E[n + 1] = D[n] + dataBytes(Instructions(p))
<1> DEFINE I == Instructions(p)
<1>1. s \in Seq(Int) /\ n \in Nat /\ B \in [0..n -> Seq(BusEvent)] /\ D \in [0..n -> Nat]
  BY DEF Carries
<1>2. Perform(I) \in Seq(BusEvent) /\ dataBytes(I) \in Nat /\ I \in Seq(Sound)
  BY PerformType, CountsAreNumbers
<1> DEFINE C == [k \in 0 .. n + 1 |-> IF k = n + 1 THEN B[n] \o Perform(I) ELSE B[k]]
           E == [k \in 0 .. n + 1 |-> IF k = n + 1 THEN D[n] + dataBytes(I) ELSE D[k]]
           t == s \o p
<1> HIDE DEF I
<1>3. /\ C[n + 1] = B[n] \o Perform(I) /\ \A k \in 0..n : C[k] = B[k]
      /\ E[n + 1] = D[n] + dataBytes(I) /\ \A k \in 0..n : E[k] = D[k]
  BY <1>1
<1>4. C \in [0 .. n + 1 -> Seq(BusEvent)] /\ E \in [0 .. n + 1 -> Nat]
  <2>1. B[n] \in Seq(BusEvent) /\ D[n] \in Nat
    <3>1. n \in 0..n
      BY <1>1
    <3> QED
      BY <1>1, <3>1, Zenon
  <2>2. B[n] \o Perform(I) \in Seq(BusEvent) /\ D[n] + dataBytes(I) \in Nat
    <3>1. D[n] + dataBytes(I) \in Nat
      BY <1>2, <2>1
    <3>2. B[n] \o Perform(I) \in Seq(BusEvent)
      BY <1>2, <2>1, ConcatProperties, Zenon
    <3> QED
      BY <3>1, <3>2
  <2>3. \A k \in 0 .. n + 1 : k # n + 1 => k \in 0..n
    BY <1>1
  <2> QED
    BY <1>1, <2>2, <2>3
<1> HIDE DEF C, E
<1>5. t \in Seq(Int) /\ Len(t) = 32 * n + Len(p) /\ Len(p) \in Nat
  BY <1>1, ConcatAt
<1>6. /\ \A k \in 1..n : Packet(t, k - 1) = Packet(s, k - 1)
      /\ Packet(t, n) = p
  BY <1>1, PacketsOfLonger
<1> HIDE DEF t
<1>7. ASSUME NEW k \in 1 .. n + 1
      PROVE  /\ Instructions(Packet(t, k - 1)) \in Seq(Sound)
             /\ C[k] = C[k - 1] \o Perform(Instructions(Packet(t, k - 1)))
             /\ E[k] = E[k - 1] + dataBytes(Instructions(Packet(t, k - 1)))
  <2>1. CASE k = n + 1
    <3>1. k - 1 = n /\ n \in 0..n
      BY <1>1, <2>1
    <3> QED
      BY <1>2, <1>3, <1>6, <2>1, <3>1 DEF I
  <2>2. CASE k # n + 1
    <3>1. k \in 1..n /\ k \in 0..n /\ k - 1 \in 0..n
      BY <1>1, <2>2
    <3>2. /\ Instructions(Packet(s, k - 1)) \in Seq(Sound)
          /\ B[k] = B[k - 1] \o Perform(Instructions(Packet(s, k - 1)))
          /\ D[k] = D[k - 1] + dataBytes(Instructions(Packet(s, k - 1)))
      BY <3>1 DEF Carries
    <3> QED
      BY <1>3, <1>6, <3>1, <3>2
  <2> QED
    BY <2>1, <2>2
<1>8. n + 1 \in Nat /\ 32 * (n + 1) - 32 < Len(t) /\ Len(t) <= 32 * (n + 1) /\ 0 \in 0..n
  BY <1>1, <1>5
<1>9. Carries(t, n + 1, C, E)
  BY <1>4, <1>5, <1>7, <1>8 DEF Carries
<1>10. C[0] = B[0] /\ E[0] = D[0]
  BY <1>3, <1>8
<1> QED
  BY <1>3, <1>9, <1>10 DEF t, I

(* A part of a sequence of bytes. *)
LEMMA PartType ==
    ASSUME NEW s \in Seq(Int), NEW m \in Nat, NEW n \in Nat, m >= 1, n <= Len(s)
    PROVE  /\ SubSeq(s, m, n) \in Seq(Int)
           /\ Len(SubSeq(s, m, n)) = IF m <= n THEN n - m + 1 ELSE 0
<1>1. Len(s) \in Nat
  OBVIOUS
<1>2. \A i \in m..n : s[i] \in Int
  BY <1>1
<1> QED
  BY <1>2, SubSeqProperties

(* The packets that are left when the first was sent. *)
LEMMA PacketsOfRest ==
    ASSUME NEW s \in Seq(Int), Len(s) > 32, NEW k \in Nat, 32 * k < Len(s) - 32
    PROVE  Packet(SubSeq(s, 33, Len(s)), k) = Packet(s, k + 1)
<1> DEFINE rest == SubSeq(s, 33, Len(s))
           e == IF Len(s) - 32 < 32 * k + 32 THEN Len(s) - 32 ELSE 32 * k + 32
<1>1. Len(s) \in Nat
  OBVIOUS
<1>2. rest \in Seq(Int) /\ Len(rest) = Len(s) - 32
  <2>1. /\ rest \in Seq(Int)
        /\ Len(rest) = IF 33 <= Len(s) THEN Len(s) - 33 + 1 ELSE 0
    BY <1>1, PartType
  <2> HIDE DEF rest
  <2> QED
    BY <1>1, <2>1
<1>3. e \in Nat /\ e <= Len(s) - 32 /\ 32 * k < e
  <2>1. Len(s) - 32 \in Nat /\ 32 * k \in Nat
    BY <1>1
  <2>2. \A a, b \in Nat : a < b =>
            LET c == IF b < a + 32 THEN b ELSE a + 32
            IN  c \in Nat /\ c <= b /\ a < c
    OBVIOUS
  <2> QED
    BY <2>1, <2>2
<1>4. Packet(rest, k) = SubSeq(rest, 32 * k + 1, e)
  <2> HIDE DEF rest
  <2> QED
    BY <1>2 DEF Packet
<1>5. Packet(s, k + 1) = SubSeq(s, 32 * k + 33, 32 + e)
  <2>1. 32 * (k + 1) + 1 = 32 * k + 33 /\ 32 * (k + 1) + 32 = 32 * k + 64
    OBVIOUS
  <2>2. (IF Len(s) < 32 * k + 64 THEN Len(s) ELSE 32 * k + 64) = 32 + e
    BY <1>1
  <2> HIDE DEF e
  <2> QED
    BY <2>1, <2>2 DEF Packet
<1> HIDE DEF e
<1>6. SubSeq(SubSeq(s, 33, Len(s)), 32 * k + 1, e) = SubSeq(s, 32 * k + 33, 32 + e)
  <2>1. /\ 33 \in 1..Len(s) /\ Len(s) \in 1..Len(s)
        /\ 32 * k + 1 \in 1..Len(s) - 33 + 1 /\ e \in 1..Len(s) - 33 + 1
    BY <1>1, <1>3
  <2>2. SubSeq(SubSeq(s, 33, Len(s)), 32 * k + 1, e)
            = SubSeq(s, 33 + (32 * k + 1) - 1, 33 + e - 1)
    BY <2>1, SubSeqOfSubSeq
  <2>3. 33 + (32 * k + 1) - 1 = 32 * k + 33 /\ 33 + e - 1 = 32 + e
    BY <1>3
  <2> QED
    BY <2>2, <2>3
<1> QED
  BY <1>4, <1>5, <1>6

(* Where the first packet of a stream ends. *)
End(s) == IF Len(s) < 32 THEN Len(s) ELSE 32

(* The first packet of a stream is sent. *)
LEMMA OnePacketLess ==
    ASSUME NEW s, NEW n, NEW B, NEW D, Carries(s, n, B, D), s # <<>>,
           NEW end, end = End(s)
    PROVE  /\ Instructions(SubSeq(s, 1, end)) \in Seq(Sound)
           /\ Leads(SubSeq(s, end + 1, Len(s)),
                    B[0] \o Perform(Instructions(SubSeq(s, 1, end))), B[n],
                    D[0] + dataBytes(Instructions(SubSeq(s, 1, end))), D[n])
<1> DEFINE rest == SubSeq(s, end + 1, Len(s))
           C == [k \in 0 .. n - 1 |-> B[k + 1]]
           E == [k \in 0 .. n - 1 |-> D[k + 1]]
<1>1. /\ s \in Seq(Int) /\ n \in Nat /\ 32 * n - 32 < Len(s) /\ Len(s) <= 32 * n
      /\ B \in [0..n -> Seq(BusEvent)] /\ D \in [0..n -> Nat]
      /\ \A k \in 1..n :
             /\ Instructions(Packet(s, k - 1)) \in Seq(Sound)
             /\ B[k] = B[k - 1] \o Perform(Instructions(Packet(s, k - 1)))
             /\ D[k] = D[k - 1] + dataBytes(Instructions(Packet(s, k - 1)))
  BY DEF Carries
<1>2. Len(s) \in Nat /\ Len(s) >= 1
  BY <1>1, EmptySeq
<1>11. end = IF Len(s) < 32 THEN Len(s) ELSE 32
  BY DEF End
<1>3. /\ n >= 1 /\ n - 1 \in Nat /\ end \in Nat /\ end >= 1 /\ end <= Len(s) /\ end <= 32
      /\ 1 \in 1..n /\ n - 1 \in 0 .. n - 1 /\ 0 \in 0 .. n - 1 /\ (n - 1) + 1 = n
  <2>1. n >= 1
    BY <1>1, <1>2
  <2> QED
    BY <1>1, <1>2, <1>11, <2>1
<1>4. Packet(s, 0) = SubSeq(s, 1, end)
  BY <1>2, <1>11 DEF Packet
<1>5. /\ \A k \in 0 .. n - 1 : C[k] = B[k + 1] /\ E[k] = D[k + 1]
      /\ C \in [0 .. n - 1 -> Seq(BusEvent)] /\ E \in [0 .. n - 1 -> Nat]
  <2>1. \A k \in 0 .. n - 1 : k + 1 \in 0..n
    BY <1>1
  <2> QED
    BY <1>1, <2>1
<1> HIDE DEF C, E
<1>6. /\ Instructions(SubSeq(s, 1, end)) \in Seq(Sound)
      /\ C[0] = B[0] \o Perform(Instructions(SubSeq(s, 1, end)))
      /\ E[0] = D[0] + dataBytes(Instructions(SubSeq(s, 1, end)))
      /\ C[n - 1] = B[n] /\ E[n - 1] = D[n]
  <2>1. /\ Instructions(Packet(s, 1 - 1)) \in Seq(Sound)
        /\ B[1] = B[1 - 1] \o Perform(Instructions(Packet(s, 1 - 1)))
        /\ D[1] = D[1 - 1] + dataBytes(Instructions(Packet(s, 1 - 1)))
    BY <1>1, <1>3
  <2>2. C[0] = B[0 + 1] /\ E[0] = D[0 + 1]
    BY <1>3, <1>5
  <2>3. C[n - 1] = B[(n - 1) + 1] /\ E[n - 1] = D[(n - 1) + 1]
    BY <1>3, <1>5
  <2>4. 1 - 1 = 0 /\ 0 + 1 = 1
    OBVIOUS
  <2> QED
    BY <1>3, <1>4, <2>1, <2>2, <2>3, <2>4
<1>7. rest \in Seq(Int) /\ Len(rest) = Len(s) - end
  <2>1. /\ rest \in Seq(Int)
        /\ Len(rest) = IF end + 1 <= Len(s) THEN Len(s) - (end + 1) + 1 ELSE 0
    <3>1. end + 1 \in Nat /\ end + 1 >= 1 /\ Len(s) <= Len(s)
      BY <1>2, <1>3
    <3> QED
      BY <1>1, <1>2, <3>1, PartType
  <2> HIDE DEF rest
  <2>2. Len(s) \in Nat /\ end \in Nat /\ end <= Len(s)
    BY <1>2, <1>3
  <2>3. \A a, b \in Nat : b <= a => (IF b + 1 <= a THEN a - (b + 1) + 1 ELSE 0) = a - b
    OBVIOUS
  <2>4. (IF end + 1 <= Len(s) THEN Len(s) - (end + 1) + 1 ELSE 0) = Len(s) - end
    BY <2>2, <2>3, Zenon
  <2> QED
    BY <2>1, <2>4
<1> HIDE DEF rest
<1>8. 32 * (n - 1) - 32 < Len(rest) /\ Len(rest) <= 32 * (n - 1)
  <2>1. CASE Len(s) <= 32
    <3>1. end = Len(s) /\ Len(rest) = 0 /\ n = 1
      <4>1. n \in Nat /\ n >= 1 /\ 32 * n - 32 < Len(s)
        BY <1>1, <1>3
      <4>2. n = 1
        BY <1>2, <2>1, <4>1
      <4>3. \A a \in Nat : a <= 32 => (IF a < 32 THEN a ELSE 32) = a /\ a - a = 0
        OBVIOUS
      <4>4. end = Len(s) /\ Len(s) - Len(s) = 0
        BY <1>2, <1>11, <2>1, <4>3, Zenon
      <4> QED
        BY <1>7, <4>2, <4>4
    <3> QED
      BY <3>1
  <2>2. CASE Len(s) > 32
    <3>1. Len(rest) = Len(s) - 32
      BY <1>2, <1>7, <1>11, <2>2
    <3> QED
      BY <1>1, <1>2, <3>1
  <2> QED
    BY <1>2, <2>1, <2>2
<1>9. ASSUME NEW k \in 1 .. n - 1
      PROVE  /\ Instructions(Packet(rest, k - 1)) \in Seq(Sound)
             /\ C[k] = C[k - 1] \o Perform(Instructions(Packet(rest, k - 1)))
             /\ E[k] = E[k - 1] + dataBytes(Instructions(Packet(rest, k - 1)))
  <2>1. /\ k - 1 \in Nat /\ k + 1 \in 1..n /\ (k + 1) - 1 = k /\ (k - 1) + 1 = k
        /\ k \in 0 .. n - 1 /\ k - 1 \in 0 .. n - 1 /\ 32 * (k - 1) < Len(s) - 32
        /\ Len(s) > 32
    <3>1. n \in Nat /\ 32 * n - 32 < Len(s) /\ k \in Nat /\ k >= 1 /\ k <= n - 1
      BY <1>1
    <3> QED
      BY <1>2, <3>1
  <2>2. rest = SubSeq(s, 33, Len(s))
    <3>1. end = 32 /\ end + 1 = 33
      <4>1. ~(Len(s) < 32)
        BY <1>2, <2>1
      <4> QED
        BY <1>11, <4>1
    <3> QED
      BY <3>1 DEF rest
  <2>3. Packet(rest, k - 1) = Packet(s, (k - 1) + 1)
    BY <1>1, <2>1, <2>2, PacketsOfRest
  <2>4. /\ Instructions(Packet(s, (k + 1) - 1)) \in Seq(Sound)
        /\ B[k + 1] = B[(k + 1) - 1] \o Perform(Instructions(Packet(s, (k + 1) - 1)))
        /\ D[k + 1] = D[(k + 1) - 1] + dataBytes(Instructions(Packet(s, (k + 1) - 1)))
    BY <1>1, <2>1
  <2>5. C[k] = B[k + 1] /\ E[k] = D[k + 1] /\ C[k - 1] = B[(k - 1) + 1]
        /\ E[k - 1] = D[(k - 1) + 1]
    BY <1>5, <2>1
  <2> QED
    BY <2>1, <2>3, <2>4, <2>5
<1>10. Carries(rest, n - 1, C, E)
  BY <1>3, <1>5, <1>7, <1>8, <1>9 DEF Carries
<1> DEFINE m == n - 1
<1>12. Carries(rest, m, C, E) /\ C[m] = B[n] /\ E[m] = D[n]
  BY <1>6, <1>10
<1> HIDE DEF m
<1>13. Leads(rest, C[0], B[n], E[0], D[n])
  BY <1>12, Zenon DEF Leads
<1> QED
  BY <1>6, <1>13, Zenon DEF rest

-----------------------------------------------------------------------------
(* segmentedStream *)

(* A stream that has the events E and reads d bytes. *)
Carried(s, E, d) == Leads(s, <<>>, E, 0, d)

(* What a segmentedStream holds so far has the events E and reads d bytes. *)
Denotes(s, E, d) ==
    /\ s \in [result : Seq(Int), segment : Seq(Int)]
    /\ Len(s.segment) <= 31
    /\ \E n, B, D, I :
           /\ Carries(s.result, n, B, D) /\ Len(s.result) = 32 * n
           /\ B[0] = <<>> /\ D[0] = 0
           /\ Filled(s.segment, I)
           /\ E = B[n] \o Perform(I) /\ d = D[n] + dataBytes(I)

(* Its events are events. *)
LEMMA DenotesType ==
    ASSUME NEW s, NEW E, NEW d, Denotes(s, E, d)
    PROVE  /\ E \in Seq(BusEvent) /\ d \in Nat
           /\ Len(s.segment) \in 1..31
<1>1. PICK n, B, D, I : /\ Carries(s.result, n, B, D) /\ Filled(s.segment, I)
                        /\ E = B[n] \o Perform(I) /\ d = D[n] + dataBytes(I)
  BY DEF Denotes
<1>2. n \in Nat /\ B \in [0..n -> Seq(BusEvent)] /\ D \in [0..n -> Nat]
  BY <1>1 DEF Carries
<1>3. n \in 0..n
  BY <1>2
<1>4. B[n] \in Seq(BusEvent) /\ D[n] \in Nat
  BY <1>2, <1>3, Zenon
<1>5. I \in Seq(Sound) /\ s.segment \in Seq(Int) /\ Len(s.segment) >= 1
  BY <1>1 DEF Filled
<1>6. Perform(I) \in Seq(BusEvent) /\ dataBytes(I) \in Nat
  BY <1>5, PerformType, CountsAreNumbers
<1>7. E \in Seq(BusEvent)
  BY <1>1, <1>4, <1>6, ConcatProperties, Zenon
<1>8. d \in Nat
  BY <1>1, <1>4, <1>6
<1>9. Len(s.segment) \in Nat /\ Len(s.segment) <= 31
  BY <1>5, LenProperties DEF Denotes
<1>10. Len(s.segment) \in 1..31
  <2> DEFINE length == Len(s.segment)
  <2>1. length \in Nat /\ length >= 1 /\ length <= 31
    BY <1>5, <1>9
  <2> HIDE DEF length
  <2>2. length \in 1..31
    BY <2>1
  <2> QED
    BY <2>2 DEF length
<1> QED
  BY <1>7, <1>8, <1>10

(* newSegmentedStream holds nothing. *)
LEMMA NewDenotes == Denotes(newSegmentedStream, <<>>, 0)
<1> DEFINE s == newSegmentedStream
           B == [k \in 0..0 |-> <<>>]
           D == [k \in 0..0 |-> 0]
<1>1. <<>> \in Seq(BusEvent) /\ <<>> \in Seq(Int) /\ <<>> \in Seq(Sound) /\ Len(<<>>) = 0
  BY EmptySeq
<1>2. Carries(<<>>, 0, B, D)
  BY <1>1 DEF Carries
<1>3. Filled(<<streamStart>>, <<>>)
  BY FilledFirst
<1>4. <<>> \o Perform(<<>>) = <<>> /\ 0 + dataBytes(<<>>) = 0
  BY <1>1, NoInstructions, ConcatEmptySeq
<1>5. <<streamStart>> \in Seq(Int) /\ Len(<<streamStart>>) <= 31
  BY DEF streamStart
<1>6. /\ s.result = <<>> /\ s.segment = <<streamStart>>
      /\ s \in [result : Seq(Int), segment : Seq(Int)]
  BY <1>1, <1>5 DEF newSegmentedStream
<1>7. B[0] = <<>> /\ D[0] = 0
  OBVIOUS
<1> HIDE DEF B, D, s
<1>8. /\ Carries(s.result, 0, B, D) /\ Len(s.result) = 32 * 0
      /\ B[0] = <<>> /\ D[0] = 0 /\ Filled(s.segment, <<>>)
      /\ <<>> = B[0] \o Perform(<<>>) /\ 0 = D[0] + dataBytes(<<>>)
  BY <1>1, <1>2, <1>3, <1>4, <1>6, <1>7
<1>9. Len(s.segment) <= 31
  BY <1>5, <1>6
<1>10. Denotes(s, <<>>, 0)
  BY <1>6, <1>8, <1>9 DEF Denotes
<1> QED
  BY <1>10 DEF s

(* The packet that is being filled is closed. *)
LEMMA FinishedDenotes ==
    ASSUME NEW s, NEW E, NEW d, Denotes(s, E, d)
    PROVE  Denotes(finishIntermediate(s), E, d) /\ Len(finishIntermediate(s).segment) = 1
<1> DEFINE seg == s.segment
           f == finishIntermediate(s)
<1>1. PICK n, B, D, I : /\ Carries(s.result, n, B, D) /\ Len(s.result) = 32 * n
                        /\ B[0] = <<>> /\ D[0] = 0 /\ Filled(seg, I)
                        /\ E = B[n] \o Perform(I) /\ d = D[n] + dataBytes(I)
  BY DEF Denotes
<1>2. /\ seg \in Seq(Int) /\ s.result \in Seq(Int) /\ I \in Seq(Sound)
      /\ Len(seg) \in 1..31
  <2>1. s \in [result : Seq(Int), segment : Seq(Int)] /\ I \in Seq(Sound)
    BY <1>1 DEF Denotes, Filled
  <2>2. Len(seg) \in 1..31
    BY DenotesType
  <2> QED
    BY <2>1, <2>2
<1> DEFINE missing == 32 - Len(seg)
           padding == [k \in 1 .. (IF missing > 1 THEN missing ELSE 1) |-> streamEnd]
           p == seg \o padding
<1>3. (IF missing > 1 THEN missing ELSE 1) = missing /\ missing \in Nat /\ missing >= 1
  <2>1. Len(seg) \in 1..31
    BY <1>2
  <2>2. \A k \in 1..31 : LET m == 32 - k
                         IN  (IF m > 1 THEN m ELSE 1) = m /\ m \in Nat /\ m >= 1
    OBVIOUS
  <2> QED
    BY <2>1, <2>2
<1>4. padding \in Seq(Int) /\ Len(padding) = missing /\ padding[1] = streamEnd
  <2>1. padding = [k \in 1..missing |-> streamEnd]
    BY <1>3
  <2> HIDE DEF missing
  <2>2. padding \in [1..missing -> Int] /\ padding[1] = streamEnd
    BY <1>3, <2>1 DEF streamEnd
  <2> HIDE DEF padding
  <2> QED
    BY <1>3, <2>2, FunctionIsSeq
<1>5. f = [result |-> s.result \o seg \o padding, segment |-> <<streamStart>>]
  BY DEF finishIntermediate, maxStreamPacketBytes
<1> HIDE DEF padding, seg, f
<1>6. p \in Seq(Int) /\ Len(p) = 32
  <2>1. p \in Seq(Int) /\ Len(p) = Len(seg) + Len(padding)
    BY <1>2, <1>4, ConcatAt
  <2> HIDE DEF p
  <2> QED
    BY <1>2, <1>4, <2>1
<1>7. Instructions(p) = I
  BY <1>1, <1>3, <1>4, FilledDone
<1>8. s.result \o seg \o padding = s.result \o p
  <2> DEFINE r == s.result
  <2>1. r \in Seq(Int) /\ seg \in Seq(Int) /\ padding \in Seq(Int)
    BY <1>2, <1>4
  <2> HIDE DEF r
  <2>2. (r \o seg) \o padding = r \o (seg \o padding)
    BY <2>1, Regrouped
  <2> QED
    BY <2>2 DEF r
<1> HIDE DEF p
<1>9. PICK C, G : /\ Carries(s.result \o p, n + 1, C, G)
                  /\ C[0] = B[0] /\ C[n + 1] = B[n] \o Perform(I)
                  /\ G[0] = D[0] /\ G[n + 1] = D[n] + dataBytes(I)
  <2> DEFINE r == s.result
  <2>1. Len(p) >= 1 /\ Len(p) <= 32
    BY <1>6
  <2>2. Carries(r, n, B, D) /\ Len(r) = 32 * n
    BY <1>1
  <2>3. p \in Seq(Int) /\ Instructions(p) \in Seq(Sound)
    BY <1>2, <1>6, <1>7
  <2> HIDE DEF r
  <2>4. \E C, G : /\ Carries(r \o p, n + 1, C, G)
                  /\ C[0] = B[0] /\ C[n + 1] = B[n] \o Perform(Instructions(p))
                  /\ G[0] = D[0] /\ G[n + 1] = D[n] + dataBytes(Instructions(p))
    BY <2>1, <2>2, <2>3, OnePacketMore
  <2> QED
    BY <1>7, <2>4 DEF r
<1>10. /\ f.result = s.result \o p /\ f.segment = <<streamStart>>
       /\ f \in [result : Seq(Int), segment : Seq(Int)]
  <2>1. s.result \o p \in Seq(Int) /\ <<streamStart>> \in Seq(Int)
    BY <1>2, <1>6, ConcatAt DEF streamStart
  <2> QED
    BY <1>5, <1>8, <2>1
<1>11. Len(<<streamStart>>) = 1
  OBVIOUS
<1>12. Len(s.result \o p) = 32 * (n + 1)
  <2>1. n \in Nat
    BY <1>1 DEF Carries
  <2>2. Len(s.result \o p) = 32 * n + 32
    <3> DEFINE r == s.result
    <3>1. r \in Seq(Int) /\ p \in Seq(Int) /\ Len(r) = 32 * n /\ Len(p) = 32
      BY <1>1, <1>2, <1>6
    <3> HIDE DEF r
    <3>2. Len(r \o p) = Len(r) + Len(p)
      BY <3>1, ConcatAt
    <3> QED
      BY <3>1, <3>2 DEF r
  <2> QED
    BY <2>1, <2>2
<1>13. E = C[n + 1] \o Perform(<<>>) /\ d = G[n + 1] + dataBytes(<<>>)
  <2>1. E \in Seq(BusEvent) /\ d \in Nat
    BY DenotesType
  <2>2. E \o <<>> = E /\ d + 0 = d
    BY <2>1, ConcatEmptySeq
  <2> QED
    BY <1>1, <1>9, <2>2, NoInstructions
<1>14. /\ Carries(f.result, n + 1, C, G) /\ Len(f.result) = 32 * (n + 1)
       /\ C[0] = <<>> /\ G[0] = 0 /\ Filled(f.segment, <<>>)
       /\ E = C[n + 1] \o Perform(<<>>) /\ d = G[n + 1] + dataBytes(<<>>)
  BY <1>1, <1>9, <1>10, <1>12, <1>13, FilledFirst
<1>15. Len(f.segment) = 1
  BY <1>10, <1>11
<1>16. Len(f.segment) <= 31
  BY <1>15
<1>17. Denotes(f, E, d)
  BY <1>10, <1>14, <1>16 DEF Denotes
<1> QED
  BY <1>15, <1>17 DEF f

(* An instruction is added to a packet that has room for it. *)
LEMMA AppendDenotes ==
    ASSUME NEW s, NEW E, NEW d, Denotes(s, E, d), NEW i \in Sound,
           Len(s.segment) + 2 + width(i.command) <= 32
    PROVE  /\ Denotes(append(s, Coded(i)), E \o Events(i), d + Data(i))
           /\ Len(append(s, Coded(i)).segment) = Len(s.segment) + 1 + width(i.command)
<1> DEFINE longer == s.segment \o Coded(i)
           t == append(s, Coded(i))
<1>1. PICK n, B, D, I : /\ Carries(s.result, n, B, D) /\ Len(s.result) = 32 * n
                        /\ B[0] = <<>> /\ D[0] = 0 /\ Filled(s.segment, I)
                        /\ E = B[n] \o Perform(I) /\ d = D[n] + dataBytes(I)
  BY DEF Denotes
<1>2. s \in [result : Seq(Int), segment : Seq(Int)] /\ I \in Seq(Sound)
  BY <1>1 DEF Denotes, Filled
<1>3. Filled(longer, Append(I, i)) /\ Len(longer) = Len(s.segment) + 1 + width(i.command)
  BY <1>1, FilledMore
<1>4. longer \in Seq(Int)
  BY <1>3 DEF Filled
<1>5. t = [result |-> s.result, segment |-> longer]
  <2>1. t = [s EXCEPT !.segment = s.segment \o Coded(i)]
    BY DEF append
  <2>2. s = [result |-> s.result, segment |-> s.segment]
    BY <1>2
  <2> HIDE DEF t, longer
  <2>3. [s EXCEPT !.segment = longer] = [result |-> s.result, segment |-> longer]
    BY <1>2
  <2> QED
    BY <2>1, <2>3 DEF longer
<1> HIDE DEF longer, t
<1>6. t.result = s.result /\ t.segment = longer /\ t \in [result : Seq(Int), segment : Seq(Int)]
  BY <1>2, <1>4, <1>5
<1>7. E \o Events(i) = B[n] \o Perform(Append(I, i))
  <2> DEFINE b == B[n]
             q == Perform(I)
  <2>1. b \in Seq(BusEvent)
    <3>1. n \in Nat /\ B \in [0..n -> Seq(BusEvent)]
      BY <1>1 DEF Carries
    <3>2. n \in 0..n
      BY <3>1
    <3> QED
      BY <3>1, <3>2, Zenon
  <2>2. q \in Seq(BusEvent) /\ Events(i) \in Seq(BusEvent)
    BY <1>2, PerformType, EventsType
  <2>3. Perform(Append(I, i)) = q \o Events(i)
    BY <1>2, PerformAppend
  <2> HIDE DEF b, q
  <2>4. (b \o q) \o Events(i) = b \o (q \o Events(i))
    BY <2>1, <2>2, ConcatAssociative
  <2> QED
    BY <1>1, <2>3, <2>4 DEF b, q
<1>8. d + Data(i) = D[n] + dataBytes(Append(I, i))
  <2>1. dataBytes(Append(I, i)) = dataBytes(I) + Data(i) /\ dataBytes(I) \in Nat
    BY <1>2, CountsAppend
  <2>2. Data(i) \in Nat
    BY EventsType
  <2>3. D[n] \in Nat
    <3>1. n \in Nat /\ D \in [0..n -> Nat]
      BY <1>1 DEF Carries
    <3>2. n \in 0..n
      BY <3>1
    <3> QED
      BY <3>1, <3>2, Zenon
  <2> QED
    BY <1>1, <2>1, <2>2, <2>3
<1>9. Len(t.segment) <= 31 /\ Len(t.segment) = Len(s.segment) + 1 + width(i.command)
  <2>1. Len(s.segment) \in Nat /\ width(i.command) \in Nat
    BY DenotesType, CodedAs
  <2> QED
    BY <1>3, <1>6, <2>1
<1>10. /\ Carries(t.result, n, B, D) /\ Len(t.result) = 32 * n
       /\ B[0] = <<>> /\ D[0] = 0 /\ Filled(t.segment, Append(I, i))
       /\ E \o Events(i) = B[n] \o Perform(Append(I, i))
       /\ d + Data(i) = D[n] + dataBytes(Append(I, i))
  BY <1>1, <1>3, <1>6, <1>7, <1>8
<1>11. Denotes(t, E \o Events(i), d + Data(i))
  BY <1>6, <1>9, <1>10 DEF Denotes
<1> QED
  BY <1>9, <1>11 DEF t

(* command: an instruction is added, to the next packet if need be. *)
LEMMA InstructionDenotes ==
    ASSUME NEW s, NEW E, NEW d, Denotes(s, E, d), NEW i \in Sound
    PROVE  Denotes(instruction(s, Coded(i)), E \o Events(i), d + Data(i))
<1>1. Len(Coded(i)) = 1 + width(i.command) /\ width(i.command) \in 0..1
  BY CodedAs
<1>2. Len(s.segment) \in 1..31
  BY DenotesType
<1>3. CASE Len(s.segment) + Len(Coded(i)) + 1 > maxStreamPacketBytes
  <2> DEFINE f == finishIntermediate(s)
  <2>1. instruction(s, Coded(i)) = append(f, Coded(i))
    BY <1>3 DEF instruction
  <2>2. Denotes(f, E, d) /\ Len(f.segment) = 1
    BY FinishedDenotes
  <2> HIDE DEF f
  <2>3. Len(f.segment) + 2 + width(i.command) <= 32
    BY <1>1, <2>2
  <2> QED
    BY <2>1, <2>2, <2>3, AppendDenotes
<1>4. CASE ~(Len(s.segment) + Len(Coded(i)) + 1 > maxStreamPacketBytes)
  <2>1. instruction(s, Coded(i)) = append(s, Coded(i))
    BY <1>4 DEF instruction
  <2>2. Len(s.segment) + 2 + width(i.command) <= 32
    BY <1>1, <1>2, <1>4 DEF maxStreamPacketBytes
  <2> QED
    BY <2>1, <2>2, AppendDenotes
<1> QED
  BY <1>3, <1>4

(* Room is made without changing what is held. *)
LEMMA RoomDenotes ==
    ASSUME NEW s, NEW E, NEW d, Denotes(s, E, d), NEW bytes \in 1..3
    PROVE  Denotes(room(s, bytes), E, d) /\ Len(room(s, bytes).segment) + bytes + 1 <= 32
<1>1. CASE Len(s.segment) + bytes + 1 > maxStreamPacketBytes
  <2>1. room(s, bytes) = finishIntermediate(s)
    BY <1>1 DEF room
  <2>2. Denotes(finishIntermediate(s), E, d) /\ Len(finishIntermediate(s).segment) = 1
    BY FinishedDenotes
  <2>3. 1 + bytes + 1 <= 32
    OBVIOUS
  <2> QED
    BY <2>1, <2>2, <2>3
<1>2. CASE ~(Len(s.segment) + bytes + 1 > maxStreamPacketBytes)
  <2>1. room(s, bytes) = s
    BY <1>2 DEF room
  <2>2. Len(s.segment) \in 1..31
    BY DenotesType
  <2>3. Len(s.segment) + bytes + 1 <= 32
    BY <1>2, <2>2 DEF maxStreamPacketBytes
  <2> QED
    BY <2>1, <2>3
<1> QED
  BY <1>1, <1>2

-----------------------------------------------------------------------------
(* What the parts of a transaction do on the bus *)

Writes(bytes) == [k \in DOMAIN bytes |-> <<"write", bytes[k]>>]

(* Reads of bytes that are acknowledged. *)
Reads(n) == [k \in 1..n |-> <<"read", TRUE>>]

(* The bytes of each instruction. *)
LEMMA CodedOf ==
    /\ Coded(Start) = <<streamI2CStart>> /\ Coded(Stop) = <<streamI2CStop>>
    /\ \A c \in Int, b \in Int : Coded(Write(c, b)) = <<c, b>>
    /\ \A c \in Int : Coded(Read(c)) = <<c>>
<1>1. ASSUME NEW c \in Int PROVE <<c>> \o <<>> = <<c>>
  <2>1. <<c>> \in Seq(Int)
    OBVIOUS
  <2> QED
    BY <2>1, ConcatEmptySeq
<1>2. ASSUME NEW c \in Int, NEW b \in Int PROVE <<c>> \o <<b>> = <<c, b>>
  <2> DEFINE one == <<c>>
             two == <<b>>
             both == <<c, b>>
  <2>1. /\ one \in Seq(Int) /\ Len(one) = 1 /\ one[1] = c
        /\ two \in Seq(Int) /\ Len(two) = 1 /\ two[1] = b
        /\ both \in Seq(Int) /\ Len(both) = 2 /\ both[1] = c /\ both[2] = b
    OBVIOUS
  <2> HIDE DEF one, two, both
  <2>6. /\ one \o two \in Seq(Int) /\ Len(one \o two) = Len(one) + Len(two)
        /\ (\A k \in 1..Len(one) : (one \o two)[k] = one[k])
        /\ \A k \in 1..Len(two) : (one \o two)[Len(one) + k] = two[k]
    BY <2>1, ConcatAt
  <2>2. /\ one \o two \in Seq(Int) /\ Len(one \o two) = 2
        /\ (\A k \in 1..1 : (one \o two)[k] = one[k])
        /\ \A k \in 1..1 : (one \o two)[1 + k] = two[k]
    BY <2>1, <2>6
  <2>3. \A k \in 1..2 : k = 1 \/ k = 1 + 1
    OBVIOUS
  <2>4. \A k \in 1..2 : (one \o two)[k] = both[k]
    BY <2>1, <2>2, <2>3
  <2>5. one \o two = both
    BY <2>1, <2>2, <2>4, SeqEqual
  <2> QED
    BY <2>5 DEF one, two, both
<1>3. streamI2CStart \in Int /\ streamI2CStop \in Int
  BY DEF streamI2CStart, streamI2CStop
<1>4. Coded(Start) = <<streamI2CStart>> \o <<>> /\ Coded(Stop) = <<streamI2CStop>> \o <<>>
  BY DEF Coded, Start, Stop
<1>5. \A c \in Int, b \in Int : Coded(Write(c, b)) = <<c>> \o <<b>>
  BY DEF Coded, Write
<1>6. \A c \in Int : Coded(Read(c)) = <<c>> \o <<>>
  BY DEF Coded, Read
<1>7. Coded(Start) = <<streamI2CStart>> /\ Coded(Stop) = <<streamI2CStop>>
  BY <1>1, <1>3, <1>4, Zenon
<1>8. \A c \in Int, b \in Int : Coded(Write(c, b)) = <<c, b>>
  BY <1>2, <1>5, Zenon
<1>9. \A c \in Int : Coded(Read(c)) = <<c>>
  BY <1>1, <1>6, Zenon
<1> QED
  BY <1>7, <1>8, <1>9

(* START and STOP. *)
LEMMA EventsOfStart ==
    /\ Events(Start) = << <<"start">> >> /\ Data(Start) = 0
    /\ Events(Stop) = << <<"stop">> >> /\ Data(Stop) = 0
<1>1. Start.command = 116 /\ Stop.command = 117
  BY DEF Start, Stop, streamI2CStart, streamI2CStop
<1>2. 116 \notin 96..99 /\ 117 \notin 96..99 /\ 117 # 116 /\ 116 \notin 192..255
      /\ 117 \notin 192..255
  OBVIOUS
<1>3. Events(Start) = << <<"start">> >> /\ Events(Stop) = << <<"stop">> >>
  BY <1>1, <1>2 DEF Events, streamI2CStart, streamI2CStop
<1>4. Data(Start) = 0 /\ Data(Stop) = 0
  BY <1>1, <1>2 DEF Data
<1> QED
  BY <1>3, <1>4

(* A byte that is written. *)
LEMMA EventsOfWrite ==
    ASSUME NEW c \in \h80..\h81, NEW b \in Int
    PROVE  Events(Write(c, b)) = << <<"write", b>> >> /\ Data(Write(c, b)) = 0
<1>1. Write(c, b).command = c /\ Write(c, b).operands = <<b>>
  BY DEF Write
<1>2. /\ c \notin \h60..\h63 /\ c # \h74 /\ c # \h75 /\ c \in \h80..\hBF
      /\ c \notin \hC0..\hFF
  OBVIOUS
<1>3. Events(Write(c, b)) = [k \in DOMAIN <<b>> |-> <<"write", <<b>>[k]>>]
  <2> DEFINE i == Write(c, b)
  <2>1. /\ i.command \notin \h60..\h63 /\ i.command # \h74 /\ i.command # \h75
        /\ i.command \in \h80..\hBF
    BY <1>1, <1>2
  <2>2. i.operands = <<b>>
    BY <1>1
  <2> HIDE DEF i
  <2>3. Events(i) = [k \in DOMAIN i.operands |-> <<"write", i.operands[k]>>]
    BY <2>1, Zenon DEF Events, streamI2CStart, streamI2CStop
  <2>4. Events(i) = [k \in DOMAIN <<b>> |-> <<"write", <<b>>[k]>>]
    BY <2>2, <2>3, Zenon
  <2> QED
    BY <2>4 DEF i
<1>4. [k \in DOMAIN <<b>> |-> <<"write", <<b>>[k]>>] = << <<"write", b>> >>
  OBVIOUS
<1>5. Data(Write(c, b)) = 0
  BY <1>1, <1>2 DEF Data
<1> QED
  BY <1>3, <1>4, <1>5

(* A read of some bytes that are acknowledged, and of one that is not. *)
LEMMA EventsOfRead ==
    /\ \A n \in 1..32 : /\ Events(Read(\hC0 + n)) = Reads(n) /\ Data(Read(\hC0 + n)) = n
                        /\ Read(\hC0 + n) \in Sound
    /\ Events(Read(\hC0)) = << <<"read", FALSE>> >> /\ Data(Read(\hC0)) = 1
    /\ Read(\hC0) \in Sound
<1>1. ASSUME NEW c \in \hC0..\hE0
      PROVE  /\ Events(Read(c)) = [k \in 1..encodedLength(c) |-> <<"read", c % 64 # 0>>]
             /\ Data(Read(c)) = encodedLength(c)
  <2>1. Read(c).command = c
    BY DEF Read
  <2>2. ASSUME NEW i, i.command \in \hC0..\hE0
        PROVE  /\ Events(i) = [k \in 1..encodedLength(i.command)
                                  |-> <<"read", i.command % 64 # 0>>]
               /\ Data(i) = encodedLength(i.command)
    <3>1. /\ i.command \notin \h60..\h63 /\ i.command # 116 /\ i.command # 117
          /\ i.command \notin \h80..\hBF /\ i.command # -1
      BY <2>2
    <3>2. i.command \in \hC0..\hFF
      BY <2>2
    <3>3. Data(i) = encodedLength(i.command)
      BY <3>2, Zenon DEF Data
    <3>4. Events(i) = [k \in 1..encodedLength(i.command) |-> <<"read", i.command % 64 # 0>>]
      BY <3>1, Zenon DEF Events, streamI2CStart, streamI2CStop, badCommand
    <3> QED
      BY <3>3, <3>4, Zenon
  <2>3. Read(c).command \in \hC0..\hE0
    BY <2>1
  <2>4. /\ Events(Read(c)) = [k \in 1..encodedLength(Read(c).command)
                                 |-> <<"read", Read(c).command % 64 # 0>>]
        /\ Data(Read(c)) = encodedLength(Read(c).command)
    BY <2>2, <2>3, Zenon
  <2> QED
    BY <2>1, <2>4, Zenon
<1>2. ASSUME NEW n \in 1..32
      PROVE  /\ Events(Read(\hC0 + n)) = Reads(n) /\ Data(Read(\hC0 + n)) = n
             /\ Read(\hC0 + n) \in Sound
  <2> DEFINE c == 192 + n
  <2>1. c \in \hC0..\hE0 /\ c \in \hC1..\hE0 /\ c - \hC0 = n
    OBVIOUS
  <2> HIDE DEF c
  <2>2. encodedLength(c) = n /\ c % 64 # 0
    BY <2>1, EncodedLengths
  <2>3. (c % 64 # 0) = TRUE
    BY <2>2
  <2>4. Read(c) \in Sound
    BY <2>1, AreSound
  <2>5. Events(Read(c)) = [k \in 1..n |-> <<"read", c % 64 # 0>>] /\ Data(Read(c)) = n
    BY <1>1, <2>1, <2>2
  <2>6. Events(Read(c)) = [k \in 1..n |-> <<"read", TRUE>>]
    BY <2>3, <2>5, Zenon
  <2> QED
    BY <2>4, <2>5, <2>6 DEF Reads, c
<1>3. Events(Read(\hC0)) = << <<"read", FALSE>> >> /\ Data(Read(\hC0)) = 1
      /\ Read(\hC0) \in Sound
  <2> DEFINE c == 192
  <2>1. c \in \hC0..\hE0
    OBVIOUS
  <2>2. encodedLength(c) = 1 /\ c % 64 = 0
    BY EncodedLengths
  <2> HIDE DEF c
  <2>3. (c % 64 # 0) = FALSE
    BY <2>2
  <2>4. Events(Read(c)) = [k \in 1..1 |-> <<"read", c % 64 # 0>>] /\ Data(Read(c)) = 1
    BY <1>1, <2>1, <2>2
  <2>5. Events(Read(c)) = [k \in 1..1 |-> <<"read", FALSE>>]
    BY <2>3, <2>4, Zenon
  <2> DEFINE e == <<"read", FALSE>>
  <2>6. [k \in 1..1 |-> e] = <<e>>
    <3> HIDE DEF e
    <3> QED
      OBVIOUS
  <2>7. Read(c) \in Sound
    BY <2>1, AreSound
  <2> QED
    BY <2>4, <2>5, <2>6, <2>7 DEF c
<1> QED
  BY <1>2, <1>3

(* Writes of bytes are events. *)
LEMMA WritesType ==
    ASSUME NEW bytes \in Seq(Int)
    PROVE  Writes(bytes) \in Seq(BusEvent) /\ Len(Writes(bytes)) = Len(bytes)
<1>1. DOMAIN bytes = 1..Len(bytes) /\ Len(bytes) \in Nat
  BY LenProperties
<1>2. ASSUME NEW k \in 1..Len(bytes) PROVE <<"write", bytes[k]>> \in BusEvent
  <2>1. bytes[k] \in Int
    BY ElementOfSeq
  <2> QED
    BY <2>1 DEF BusEvent
<1>3. Writes(bytes) \in [1..Len(bytes) -> BusEvent]
  BY <1>1, <1>2, Zenon DEF Writes
<1> QED
  BY <1>1, <1>3, FunctionIsSeq

(* Reads are events. *)
LEMMA ReadsType ==
    ASSUME NEW n \in Nat
    PROVE  Reads(n) \in Seq(BusEvent) /\ Len(Reads(n)) = n
<1>1. <<"read", TRUE>> \in BusEvent
  <2>1. TRUE \in BOOLEAN
    OBVIOUS
  <2> QED
    BY <2>1, Zenon DEF BusEvent
<1>2. Reads(n) \in [1..n -> BusEvent]
  BY <1>1, Zenon DEF Reads
<1> QED
  BY <1>2, FunctionIsSeq

(* One byte more is written. *)
LEMMA WritesMore ==
    ASSUME NEW bytes \in Seq(Int), NEW byte \in Int
    PROVE  /\ Writes(Append(bytes, byte)) = Writes(bytes) \o << <<"write", byte>> >>
           /\ << <<"write", byte>> >> \in Seq(BusEvent)
           /\ Writes(<<>>) = <<>>
<1> DEFINE longer == Append(bytes, byte)
           e == <<"write", byte>>
           n == Len(bytes)
<1>1. /\ longer \in Seq(Int) /\ Len(longer) = n + 1 /\ n \in Nat
      /\ (\A k \in 1..n : longer[k] = bytes[k]) /\ longer[n + 1] = byte
      /\ DOMAIN longer = 1 .. n + 1 /\ DOMAIN bytes = 1..n
  BY AppendProperties, LenProperties
<1> HIDE DEF longer, n
<1>2. e \in BusEvent
  BY DEF BusEvent
<1>3. (\A k \in 1 .. n + 1 : Writes(longer)[k] = <<"write", longer[k]>>)
      /\ \A k \in 1..n : Writes(bytes)[k] = <<"write", bytes[k]>>
  BY <1>1, Zenon DEF Writes
<1>4. Writes(longer) \in Seq(BusEvent) /\ Len(Writes(longer)) = n + 1
  BY <1>1, WritesType
<1>5. Writes(bytes) \in Seq(BusEvent) /\ Len(Writes(bytes)) = n
  BY WritesType DEF n
<1>6. Writes(longer)[n + 1] = e /\ \A k \in 1..n : Writes(longer)[k] = Writes(bytes)[k]
  <2>1. n + 1 \in 1 .. n + 1 /\ \A k \in 1..n : k \in 1 .. n + 1
    BY <1>1
  <2> QED
    BY <1>1, <1>3, <2>1
<1> HIDE DEF e
<1>7. /\ Append(Writes(bytes), e) \in Seq(BusEvent) /\ Len(Append(Writes(bytes), e)) = n + 1
      /\ (\A k \in 1..n : Append(Writes(bytes), e)[k] = Writes(bytes)[k])
      /\ Append(Writes(bytes), e)[n + 1] = e
      /\ Append(Writes(bytes), e) = Writes(bytes) \o <<e>>
  BY <1>2, <1>5, AppendProperties, AppendIsConcat
<1>8. \A k \in 1 .. n + 1 : Writes(longer)[k] = Append(Writes(bytes), e)[k]
  <2>1. \A k \in 1 .. n + 1 : k \in 1..n \/ k = n + 1
    BY <1>1
  <2> QED
    BY <1>6, <1>7, <2>1
<1>9. Writes(longer) = Append(Writes(bytes), e)
  BY <1>4, <1>7, <1>8, SeqEqual
<1>10. <<e>> \in Seq(BusEvent)
  BY <1>2
<1>11. Writes(<<>>) = <<>>
  BY DEF Writes
<1> QED
  BY <1>7, <1>9, <1>10, <1>11 DEF longer, e

(* Reads follow each other. *)
LEMMA ReadsMore ==
    ASSUME NEW m \in Nat, NEW n \in Nat
    PROVE  Reads(m) \o Reads(n) = Reads(m + n)
<1> DEFINE e == <<"read", TRUE>>
<1>1. /\ Reads(m) \in Seq(BusEvent) /\ Len(Reads(m)) = m
      /\ Reads(n) \in Seq(BusEvent) /\ Len(Reads(n)) = n
      /\ Reads(m + n) \in Seq(BusEvent) /\ Len(Reads(m + n)) = m + n
  BY ReadsType
<1>2. /\ \A k \in 1..m : Reads(m)[k] = e
      /\ \A k \in 1..n : Reads(n)[k] = e
      /\ \A k \in 1 .. m + n : Reads(m + n)[k] = e
  BY Zenon DEF Reads
<1> HIDE DEF e
<1>3. /\ Reads(m) \o Reads(n) \in Seq(BusEvent) /\ Len(Reads(m) \o Reads(n)) = m + n
      /\ \A k \in 1 .. m + n : (Reads(m) \o Reads(n))[k]
                                   = IF k <= m THEN Reads(m)[k] ELSE Reads(n)[k - m]
  BY <1>1, ConcatProperties
<1>4. \A k \in 1 .. m + n : (k <= m => k \in 1..m) /\ (~(k <= m) => k - m \in 1..n)
  OBVIOUS
<1>5. \A k \in 1 .. m + n : (Reads(m) \o Reads(n))[k] = Reads(m + n)[k]
  BY <1>2, <1>3, <1>4
<1> QED
  BY <1>1, <1>3, <1>5, SeqEqual


-----------------------------------------------------------------------------
(* One instruction more *)

(* A byte is written. *)
LEMMA WriteDenotes ==
    ASSUME NEW s, NEW E, NEW d, Denotes(s, E, d), NEW c \in \h80..\h81, NEW b \in Int
    PROVE  Denotes(instruction(s, <<c, b>>), E \o << <<"write", b>> >>, d)
<1> DEFINE i == Write(c, b)
<1>1. i \in Sound
  BY AreSound, Zenon
<1>2. Events(i) = << <<"write", b>> >> /\ Data(i) = 0
  BY EventsOfWrite
<1>3. c \in Int
  OBVIOUS
<1>4. Coded(i) = <<c, b>>
  BY <1>3, CodedOf, Zenon
<1>5. d \in Nat
  BY DenotesType
<1> HIDE DEF i
<1>6. Denotes(instruction(s, Coded(i)), E \o Events(i), d + Data(i))
  BY <1>1, InstructionDenotes
<1>7. d + Data(i) = d
  BY <1>2, <1>5
<1> QED
  BY <1>2, <1>4, <1>6, <1>7, Zenon

(* Bytes are read and acknowledged. *)
LEMMA ReadDenotes ==
    ASSUME NEW s, NEW E, NEW d, Denotes(s, E, d), NEW n \in 1..32
    PROVE  Denotes(instruction(s, <<\hC0 + n>>), E \o Reads(n), d + n)
<1> DEFINE i == Read(\hC0 + n)
<1>1. i \in Sound /\ Events(i) = Reads(n) /\ Data(i) = n
  BY EventsOfRead, Zenon
<1>2. \hC0 + n \in Int
  OBVIOUS
<1>3. Coded(i) = <<\hC0 + n>>
  BY <1>2, CodedOf, Zenon
<1> HIDE DEF i
<1>4. Denotes(instruction(s, Coded(i)), E \o Events(i), d + Data(i))
  BY <1>1, InstructionDenotes
<1> QED
  BY <1>1, <1>3, <1>4, Zenon

(* The last byte is read. *)
LEMMA LastReadDenotes ==
    ASSUME NEW s, NEW E, NEW d, Denotes(s, E, d)
    PROVE  Denotes(instruction(s, <<\hC0>>), E \o << <<"read", FALSE>> >>, d + 1)
<1> DEFINE i == Read(\hC0)
<1>1. i \in Sound /\ Events(i) = << <<"read", FALSE>> >> /\ Data(i) = 1
  BY EventsOfRead, Zenon
<1>2. \hC0 \in Int
  OBVIOUS
<1>3. Coded(i) = <<\hC0>>
  BY <1>2, CodedOf, Zenon
<1> HIDE DEF i
<1>4. Denotes(instruction(s, Coded(i)), E \o Events(i), d + Data(i))
  BY <1>1, InstructionDenotes
<1> QED
  BY <1>1, <1>3, <1>4, Zenon

-----------------------------------------------------------------------------
(* writeEach *)

(* The stream after 0, 1, ..., n of the bytes. *)
Writing(f, s, bytes, n) ==
    f = [k \in 0..n |-> IF k = 0 THEN s ELSE instruction(f[k - 1], <<streamWrite, bytes[k]>>)]

(* What it is after each byte. *)
LEMMA WritingAt ==
    ASSUME NEW f, NEW s, NEW bytes, NEW n \in Nat, Writing(f, s, bytes, n)
    PROVE  /\ f[0] = s
           /\ \A k \in 1..n : f[k] = instruction(f[k - 1], <<streamWrite, bytes[k]>>)
<1> DEFINE g == [k \in 0..n |->
                    IF k = 0 THEN s ELSE instruction(f[k - 1], <<streamWrite, bytes[k]>>)]
<1>1. f = g
  BY DEF Writing
<1>2. /\ g[0] = s
      /\ \A k \in 1..n : g[k] = instruction(f[k - 1], <<streamWrite, bytes[k]>>)
  OBVIOUS
<1> HIDE DEF g
<1> QED
  BY <1>1, <1>2

(* It exists. *)
LEMMA WritingExists ==
    ASSUME NEW s, NEW bytes, NEW n \in Nat
    PROVE  \E f : Writing(f, s, bytes, n)
<1> DEFINE Good == {k \in Nat : \E f : Writing(f, s, bytes, k)}
<1>1. 0 \in Good
  <2>1. Writing([k \in 0..0 |-> s], s, bytes, 0)
    BY DEF Writing
  <2> QED
    BY <2>1
<1>2. ASSUME NEW k \in Nat, k \in Good PROVE k + 1 \in Good
  <2>1. PICK f : Writing(f, s, bytes, k)
    BY <1>2
  <2> DEFINE last == instruction(f[k], <<streamWrite, bytes[k + 1]>>)
             g == [i \in 0 .. k + 1 |-> IF i = k + 1 THEN last ELSE f[i]]
  <2>2. (\A i \in 0..k : g[i] = f[i]) /\ g[k + 1] = last
    OBVIOUS
  <2>3. g = [i \in 0 .. k + 1 |-> g[i]]
    OBVIOUS
  <2> HIDE DEF g
  <2>4. ASSUME NEW i \in 0 .. k + 1
        PROVE  g[i] = IF i = 0 THEN s ELSE instruction(g[i - 1], <<streamWrite, bytes[i]>>)
    <3>1. CASE i = k + 1
      <4>1. i # 0 /\ i - 1 = k /\ k \in 0..k
        BY <3>1
      <4> QED
        BY <2>2, <3>1, <4>1
    <3>2. CASE i # k + 1
      <4>1. i \in 0..k /\ (i # 0 => i - 1 \in 0..k /\ i \in 1..k)
        BY <3>2
      <4> QED
        BY <2>1, <2>2, <4>1, WritingAt
    <3> QED
      BY <3>1, <3>2
  <2>5. Writing(g, s, bytes, k + 1)
    BY <2>3, <2>4 DEF Writing
  <2> QED
    BY <2>5
<1> HIDE DEF Good
<1>3. n \in Good
  BY <1>1, <1>2, RoundByRound
<1> QED
  BY <1>3 DEF Good

(* writeEach is what there is after the last byte. *)
LEMMA WriteEachIsLast ==
    ASSUME NEW s, NEW bytes, Len(bytes) \in Nat
    PROVE  \E f : Writing(f, s, bytes, Len(bytes)) /\ writeEach(s, bytes) = f[Len(bytes)]
<1> DEFINE f == CHOOSE g : g = [k \in 0..Len(bytes) |->
                    IF k = 0 THEN s ELSE instruction(g[k - 1], <<streamWrite, bytes[k]>>)]
<1>1. PICK some : Writing(some, s, bytes, Len(bytes))
  BY WritingExists
<1>2. some = [k \in 0..Len(bytes) |->
                 IF k = 0 THEN s ELSE instruction(some[k - 1], <<streamWrite, bytes[k]>>)]
  BY <1>1 DEF Writing
<1>3. f = [k \in 0..Len(bytes) |->
              IF k = 0 THEN s ELSE instruction(f[k - 1], <<streamWrite, bytes[k]>>)]
  BY <1>2, Zenon
<1>4. writeEach(s, bytes) = f[Len(bytes)]
  BY DEF writeEach
<1> HIDE DEF f
<1> QED
  BY <1>3, <1>4 DEF Writing

(* The bytes are written one after the other. *)
LEMMA WriteEachDenotes ==
    ASSUME NEW s, NEW E, NEW d, Denotes(s, E, d), NEW bytes \in Seq(Int)
    PROVE  Denotes(writeEach(s, bytes), E \o Writes(bytes), d)
<1> DEFINE n == Len(bytes)
           first(k) == SubSeq(bytes, 1, k)
<1>1. n \in Nat /\ E \in Seq(BusEvent)
  BY LenProperties, DenotesType
<1>2. PICK f : Writing(f, s, bytes, n) /\ writeEach(s, bytes) = f[n]
  BY <1>1, WriteEachIsLast
<1>3. f[0] = s /\ \A k \in 1..n : f[k] = instruction(f[k - 1], <<streamWrite, bytes[k]>>)
  BY <1>1, <1>2, WritingAt
<1> DEFINE Good == {k \in Nat : k <= n => Denotes(f[k], E \o Writes(first(k)), d)}
<1>4. 0 \in Good
  <2>1. first(0) = <<>>
    BY SubSeqEmpty
  <2>2. E \o Writes(<<>>) = E
    <3>1. <<>> \in Seq(Int) /\ 0 \in Int
      BY EmptySeq
    <3>2. Writes(<<>>) = <<>>
      BY <3>1, WritesMore
    <3> QED
      BY <1>1, <3>2, ConcatEmptySeq
  <2> HIDE DEF first
  <2>3. Denotes(f[0], E \o Writes(first(0)), d)
    BY <1>3, <2>1, <2>2
  <2> QED
    BY <2>3
<1>5. ASSUME NEW k \in Nat, k \in Good PROVE k + 1 \in Good
  <2> SUFFICES ASSUME k + 1 <= n PROVE Denotes(f[k + 1], E \o Writes(first(k + 1)), d)
    OBVIOUS
  <2>1. k <= n /\ k + 1 \in 1..n /\ (k + 1) - 1 = k /\ 1 \in 1..n
    BY <1>1
  <2> DEFINE byte == bytes[k + 1]
  <2>2. byte \in Int
    BY <2>1, ElementOfSeq
  <2>3. first(k) \in Seq(Int)
    <3>1. \A i \in 1..k : bytes[i] \in Int
      <4>1. \A i \in 1..k : i \in 1..n
        BY <1>1, <2>1
      <4> QED
        BY <4>1, ElementOfSeq
    <3> QED
      BY <3>1, SubSeqProperties
  <2>4. first(k + 1) = Append(first(k), byte)
    <3>1. first(k + 1) = SubSeq(bytes, 1, (k + 1) - 1) \o <<byte>>
      BY <2>1, SubSeqRecursiveSecond
    <3>2. first(k) \o <<byte>> = Append(first(k), byte)
      <4> DEFINE t == first(k)
      <4>1. t \in Seq(Int)
        BY <2>3
      <4> HIDE DEF t, byte
      <4>2. t \o <<byte>> = Append(t, byte)
        BY <2>2, <4>1, AppendIsConcat
      <4> QED
        BY <4>2 DEF t
    <3> QED
      BY <2>1, <3>1, <3>2
  <2> DEFINE t == first(k)
             W == Writes(t)
             e == << <<"write", byte>> >>
  <2>5. Denotes(f[k], E \o W, d)
    BY <1>5, <2>1
  <2>6. f[k + 1] = instruction(f[k], <<streamWrite, byte>>)
    BY <1>3, <2>1
  <2>7. t \in Seq(Int) /\ first(k + 1) = Append(t, byte)
    BY <2>3, <2>4
  <2> HIDE DEF first, byte, t
  <2>8. Writes(Append(t, byte)) = W \o e /\ e \in Seq(BusEvent)
    BY <2>2, <2>7, WritesMore
  <2>9. W \in Seq(BusEvent)
    BY <2>7, WritesType
  <2>10. \h80 \in \h80..\h81
    OBVIOUS
  <2>11. Denotes(instruction(f[k], <<\h80, byte>>), (E \o W) \o e, d)
    BY <2>2, <2>5, <2>10, WriteDenotes
  <2> HIDE DEF W, e
  <2>12. (E \o W) \o e = E \o (W \o e)
    BY <1>1, <2>8, <2>9, Regrouped
  <2>13. f[k + 1] = instruction(f[k], <<\h80, byte>>)
    BY <2>6 DEF streamWrite
  <2> QED
    BY <2>7, <2>8, <2>11, <2>12, <2>13, Zenon
<1> HIDE DEF Good
<1>6. n \in Good
  BY <1>1, <1>4, <1>5, RoundByRound
<1>7. n <= n /\ first(n) = bytes
  BY <1>1, SubSeqFull
<1>8. Denotes(f[n], E \o Writes(first(n)), d)
  BY <1>6, <1>7 DEF Good
<1> QED
  BY <1>2, <1>7, <1>8, Zenon

-----------------------------------------------------------------------------
(* startAndWrite *)

(* START, the address and the data. *)
LEMMA StartDenotes ==
    ASSUME NEW s, NEW E, NEW d, Denotes(s, E, d), NEW address \in Int, NEW data \in Seq(Int)
    PROVE  /\ Denotes(startAndWrite(s, address, data),
                      (E \o << <<"start">> >>) \o Writes(<<address>> \o data), d)
           /\ <<address>> \o data \in Seq(Int)
<1> DEFINE ready == room(s, 3)
           started == append(ready, <<streamI2CStart>>)
           F == E \o << <<"start">> >>
<1>1. 3 \in 1..3
  OBVIOUS
<1>2. Denotes(ready, E, d) /\ Len(ready.segment) + 3 + 1 <= 32
  BY <1>1, RoomDenotes
<1>3. Len(ready.segment) \in 1..31
  BY <1>2, DenotesType
<1>4. Start \in Sound /\ width(Start.command) \in 0..1
  BY AreSound, CodedAs
<1>5. d \in Nat
  BY DenotesType
<1> HIDE DEF ready
<1>6. Len(ready.segment) + 2 + width(Start.command) <= 32
  BY <1>2, <1>3, <1>4
<1>7. Denotes(append(ready, Coded(Start)), E \o Events(Start), d + Data(Start))
  BY <1>2, <1>4, <1>6, AppendDenotes
<1>8. Denotes(started, F, d)
  <2>1. d + 0 = d
    BY <1>5
  <2>2. /\ Coded(Start) = <<streamI2CStart>> /\ Events(Start) = << <<"start">> >>
        /\ Data(Start) = 0
    BY CodedOf, EventsOfStart
  <2> QED
    BY <1>7, <2>1, <2>2, Zenon
<1>9. startAndWrite(s, address, data)
          = IF data = <<>> THEN instruction(started, <<streamWrite + 1, address>>)
                           ELSE writeEach(started, <<address>> \o data)
  BY DEF startAndWrite, ready
<1> DEFINE one == <<address>>
<1>10. one \in Seq(Int)
  OBVIOUS
<1>11. one \o data \in Seq(Int) /\ one \o <<>> = one
  <2> HIDE DEF one
  <2> QED
    BY <1>10, ConcatAt, ConcatEmptySeq
<1> HIDE DEF started, F
<1>12. CASE data = <<>>
  <2>1. Writes(one) = << <<"write", address>> >>
    <3>1. <<>> \in Seq(Int) /\ Append(<<>>, address) = one
      BY EmptySeq
    <3>2. Writes(Append(<<>>, address)) = Writes(<<>>) \o << <<"write", address>> >>
          /\ << <<"write", address>> >> \in Seq(BusEvent) /\ Writes(<<>>) = <<>>
      BY <3>1, WritesMore
    <3> DEFINE e == << <<"write", address>> >>
    <3> HIDE DEF e
    <3>3. e \in Seq(BusEvent) => <<>> \o e = e
      BY ConcatEmptySeq
    <3> QED
      BY <3>1, <3>2, <3>3, Zenon DEF e
  <2>2. \h81 \in \h80..\h81 /\ \h80 + 1 = \h81
    OBVIOUS
  <2>3. Denotes(instruction(started, <<\h81, address>>), F \o << <<"write", address>> >>, d)
    BY <1>8, <2>2, WriteDenotes
  <2>4. startAndWrite(s, address, data) = instruction(started, <<\h80 + 1, address>>)
    BY <1>9, <1>12, Zenon DEF streamWrite
  <2>5. Denotes(startAndWrite(s, address, data), F \o Writes(one \o data), d)
    BY <1>11, <1>12, <2>1, <2>2, <2>3, <2>4, Zenon
  <2> QED
    BY <1>11, <2>5 DEF F
<1>13. CASE data # <<>>
  <2>1. Denotes(writeEach(started, one \o data), F \o Writes(one \o data), d)
    BY <1>8, <1>11, WriteEachDenotes
  <2>2. Denotes(startAndWrite(s, address, data), F \o Writes(one \o data), d)
    BY <1>9, <1>13, <2>1, Zenon
  <2> QED
    BY <1>11, <2>2 DEF F
<1> QED
  BY <1>12, <1>13

-----------------------------------------------------------------------------
(* read *)

(* The stream after 0, 1, ..., n blocks. *)
Reading(f, s, n) ==
    f = [k \in 0..n |->
            IF k = 0 THEN s
            ELSE finishIntermediate(
                     instruction(f[k - 1], <<streamRead + maxReadBlockBytes>>))]

(* What it is after each block. *)
LEMMA ReadingAt ==
    ASSUME NEW f, NEW s, NEW n \in Nat, Reading(f, s, n)
    PROVE  /\ f[0] = s
           /\ \A k \in 1..n :
                  f[k] = finishIntermediate(
                             instruction(f[k - 1], <<streamRead + maxReadBlockBytes>>))
<1> DEFINE next(t) == finishIntermediate(
                          instruction(t, <<streamRead + maxReadBlockBytes>>))
           g == [k \in 0..n |-> IF k = 0 THEN s ELSE next(f[k - 1])]
<1>1. f = g
  BY DEF Reading
<1> HIDE DEF next
<1>2. g[0] = s /\ \A k \in 1..n : g[k] = next(f[k - 1])
  OBVIOUS
<1> HIDE DEF g
<1>3. f[0] = s /\ \A k \in 1..n : f[k] = next(f[k - 1])
  BY <1>1, <1>2
<1> QED
  BY <1>3 DEF next

(* It exists. *)
LEMMA ReadingExists ==
    ASSUME NEW s, NEW n \in Nat
    PROVE  \E f : Reading(f, s, n)
<1> DEFINE Good == {k \in Nat : \E f : Reading(f, s, k)}
           next(t) == finishIntermediate(
                          instruction(t, <<streamRead + maxReadBlockBytes>>))
<1>1. 0 \in Good
  <2>1. Reading([k \in 0..0 |-> s], s, 0)
    BY DEF Reading
  <2> QED
    BY <2>1
<1>2. ASSUME NEW k \in Nat, k \in Good PROVE k + 1 \in Good
  <2>1. PICK f : Reading(f, s, k)
    BY <1>2
  <2>2. f[0] = s /\ \A i \in 1..k : f[i] = next(f[i - 1])
    BY <2>1, ReadingAt
  <2> DEFINE g == [i \in 0 .. k + 1 |-> IF i = k + 1 THEN next(f[k]) ELSE f[i]]
  <2>3. Reading(g, s, k + 1) <=> g = [i \in 0 .. k + 1 |-> IF i = 0 THEN s ELSE next(g[i - 1])]
    BY Zenon DEF Reading
  <2> HIDE DEF next
  <2>4. (\A i \in 0..k : g[i] = f[i]) /\ g[k + 1] = next(f[k])
    OBVIOUS
  <2>5. g = [i \in 0 .. k + 1 |-> g[i]]
    OBVIOUS
  <2> HIDE DEF g
  <2>6. ASSUME NEW i \in 0 .. k + 1
        PROVE  g[i] = IF i = 0 THEN s ELSE next(g[i - 1])
    <3>1. CASE i = k + 1
      <4>1. i # 0 /\ i - 1 = k /\ k \in 0..k
        BY <3>1
      <4> QED
        BY <2>4, <3>1, <4>1
    <3>2. CASE i # k + 1
      <4>1. i \in 0..k /\ (i # 0 => i - 1 \in 0..k /\ i \in 1..k)
        BY <3>2
      <4> QED
        BY <2>2, <2>4, <4>1
    <3> QED
      BY <3>1, <3>2
  <2>7. Reading(g, s, k + 1)
    BY <2>3, <2>5, <2>6
  <2> QED
    BY <2>7
<1> HIDE DEF Good
<1>3. n \in Good
  BY <1>1, <1>2, RoundByRound
<1> QED
  BY <1>3 DEF Good

(* readBlocks is what there is after the last block. *)
LEMMA ReadBlocksIsLast ==
    ASSUME NEW s, NEW length, blocks(length) \in Nat
    PROVE  \E f : Reading(f, s, blocks(length)) /\ readBlocks(s, length) = f[blocks(length)]
<1> DEFINE f == CHOOSE g : g = [k \in 0..blocks(length) |->
                    IF k = 0 THEN s
                    ELSE finishIntermediate(
                             instruction(g[k - 1], <<streamRead + maxReadBlockBytes>>))]
<1>1. PICK some : Reading(some, s, blocks(length))
  BY ReadingExists
<1>2. some = [k \in 0..blocks(length) |->
                    IF k = 0 THEN s
                    ELSE finishIntermediate(
                             instruction(some[k - 1], <<streamRead + maxReadBlockBytes>>))]
  BY <1>1 DEF Reading
<1>3. f = [k \in 0..blocks(length) |->
                    IF k = 0 THEN s
                    ELSE finishIntermediate(
                             instruction(f[k - 1], <<streamRead + maxReadBlockBytes>>))]
  BY <1>2, Zenon
<1>4. readBlocks(s, length) = f[blocks(length)]
  BY DEF readBlocks
<1> HIDE DEF f
<1> QED
  BY <1>3, <1>4 DEF Reading

(* Blocks of 32 bytes are read. *)
LEMMA ReadBlocksDenotes ==
    ASSUME NEW s, NEW E, NEW d, Denotes(s, E, d), NEW length, blocks(length) \in Nat
    PROVE  Denotes(readBlocks(s, length), E \o Reads(32 * blocks(length)),
                   d + 32 * blocks(length))
<1> DEFINE n == blocks(length)
<1>1. n \in Nat /\ E \in Seq(BusEvent) /\ d \in Nat
  BY DenotesType
<1>2. PICK f : Reading(f, s, n) /\ readBlocks(s, length) = f[n]
  BY ReadBlocksIsLast
<1> HIDE DEF n
<1>3. /\ f[0] = s
      /\ \A k \in 1..n : f[k] = finishIntermediate(
                             instruction(f[k - 1], <<streamRead + maxReadBlockBytes>>))
  BY <1>1, <1>2, ReadingAt
<1> DEFINE Good == {k \in Nat : k <= n => Denotes(f[k], E \o Reads(32 * k), d + 32 * k)}
<1>4. 0 \in Good
  <2>1. 32 * 0 = 0 /\ d + 0 = d
    BY <1>1
  <2>2. Reads(0) = <<>>
    <3>1. Reads(0) \in Seq(BusEvent) /\ Len(Reads(0)) = 0
      BY ReadsType
    <3> QED
      BY <3>1, EmptySeq
  <2>3. E \o <<>> = E
    BY <1>1, ConcatEmptySeq
  <2>4. Denotes(f[0], E \o Reads(32 * 0), d + 32 * 0)
    BY <1>3, <2>1, <2>2, <2>3
  <2> QED
    BY <2>4
<1>5. ASSUME NEW k \in Nat, k \in Good PROVE k + 1 \in Good
  <2> SUFFICES ASSUME k + 1 <= n
               PROVE  Denotes(f[k + 1], E \o Reads(32 * (k + 1)), d + 32 * (k + 1))
    OBVIOUS
  <2>1. k <= n /\ k + 1 \in 1..n /\ (k + 1) - 1 = k
    BY <1>1
  <2> DEFINE R == Reads(32 * k)
             c == d + 32 * k
             t == f[k]
             u == instruction(t, <<\hC0 + 32>>)
  <2>2. Denotes(t, E \o R, c)
    BY <1>5, <2>1
  <2>3. f[k + 1] = finishIntermediate(u)
    BY <1>3, <2>1 DEF streamRead, maxReadBlockBytes
  <2>4. 32 \in 1..32 /\ 32 * k \in Nat /\ 32 \in Nat
    OBVIOUS
  <2>5. R \in Seq(BusEvent) /\ Reads(32) \in Seq(BusEvent)
    BY <2>4, ReadsType
  <2>6. R \o Reads(32) = Reads(32 * k + 32)
    BY <2>4, ReadsMore
  <2>7. 32 * k + 32 = 32 * (k + 1) /\ c + 32 = d + 32 * (k + 1)
    BY <1>1
  <2> HIDE DEF R, c, t
  <2>8. Denotes(u, (E \o R) \o Reads(32), c + 32)
    BY <2>2, <2>4, ReadDenotes
  <2> HIDE DEF u
  <2>9. Denotes(finishIntermediate(u), (E \o R) \o Reads(32), c + 32)
    BY <2>8, FinishedDenotes
  <2>10. (E \o R) \o Reads(32) = E \o (R \o Reads(32))
    BY <1>1, <2>5, Regrouped
  <2> QED
    BY <2>3, <2>6, <2>7, <2>9, <2>10, Zenon
<1> HIDE DEF Good
<1>6. n \in Good
  BY <1>1, <1>4, <1>5, RoundByRound
<1>7. n <= n
  BY <1>1
<1>8. Denotes(f[n], E \o Reads(32 * n), d + 32 * n)
  BY <1>6, <1>7 DEF Good
<1> QED
  BY <1>2, <1>8, Zenon DEF n

(* How many blocks there are and how many bytes remain. *)
LEMMA Blocks ==
    ASSUME NEW length \in Nat, length >= 1
    PROVE  /\ blocks(length) \in Nat
           /\ length - blocks(length) * maxReadBlockBytes \in 1..32
           /\ length - 1 = 32 * blocks(length) + (length - blocks(length) * maxReadBlockBytes - 1)
<1>1. \A m \in Nat : m \div 32 \in Nat /\ m - 32 * (m \div 32) \in 0..31
  BY Z3
<1>2. length - 1 \in Nat
  OBVIOUS
<1> DEFINE b == (length - 1) \div 32
<1>3. b \in Nat /\ (length - 1) - 32 * b \in 0..31
  BY <1>1, <1>2
<1>4. blocks(length) = b /\ maxReadBlockBytes = 32
  BY DEF blocks, maxReadBlockBytes
<1> HIDE DEF b
<1>5. length - b * 32 \in 1..32 /\ length - 1 = 32 * b + (length - b * 32 - 1)
  BY <1>3
<1> QED
  BY <1>3, <1>4, <1>5

(* All bytes but the last are read with an ACK. *)
LEMMA ReadAllDenotes ==
    ASSUME NEW s, NEW E, NEW d, Denotes(s, E, d), NEW length \in Nat, length >= 1
    PROVE  Denotes(read(s, length), (E \o Reads(length - 1)) \o << <<"read", FALSE>> >>,
                   d + length)
<1> DEFINE b == blocks(length)
           remaining == length - blocks(length) * maxReadBlockBytes
           t == readBlocks(s, length)
           u == IF remaining > 1 THEN instruction(t, <<streamRead + remaining - 1>>) ELSE t
<1>1. b \in Nat /\ remaining \in 1..32 /\ length - 1 = 32 * b + (remaining - 1)
  BY Blocks
<1>2. E \in Seq(BusEvent) /\ d \in Nat
  BY DenotesType
<1>3. Denotes(t, E \o Reads(32 * b), d + 32 * b)
  BY <1>1, ReadBlocksDenotes
<1>4. read(s, length) = instruction(u, <<streamRead>>)
  BY DEF read
<1> HIDE DEF b, remaining, t
<1>5. Denotes(u, E \o Reads(length - 1), d + (length - 1))
  <2>1. CASE remaining > 1
    <3>1. /\ remaining - 1 \in 1..32 /\ remaining - 1 \in Nat /\ 32 * b \in Nat
          /\ \hC0 + remaining - 1 = \hC0 + (remaining - 1)
          /\ (d + 32 * b) + (remaining - 1) = d + (length - 1)
      BY <1>1, <1>2, <2>1
    <3>2. u = instruction(t, <<\hC0 + (remaining - 1)>>)
      BY <2>1, <3>1 DEF streamRead
    <3> DEFINE m == remaining - 1
               R == Reads(32 * b)
               c == d + 32 * b
    <3>3. R \in Seq(BusEvent) /\ Reads(m) \in Seq(BusEvent) /\ R \o Reads(m) = Reads(length - 1)
      BY <1>1, <3>1, ReadsType, ReadsMore
    <3>4. Denotes(t, E \o R, c) /\ m \in 1..32 /\ c + m = d + (length - 1)
      BY <1>3, <3>1
    <3> HIDE DEF m, R, c
    <3>5. Denotes(instruction(t, <<\hC0 + m>>), (E \o R) \o Reads(m), c + m)
      BY <3>4, ReadDenotes
    <3>6. (E \o R) \o Reads(m) = E \o (R \o Reads(m))
      BY <1>2, <3>3, Regrouped
    <3>7. Denotes(instruction(t, <<\hC0 + m>>), E \o Reads(length - 1), d + (length - 1))
      BY <3>3, <3>4, <3>5, <3>6, Zenon
    <3> QED
      BY <3>2, <3>7 DEF m
  <2>2. CASE ~(remaining > 1)
    <3>1. length - 1 = 32 * b
      BY <1>1, <2>2
    <3>2. u = t
      BY <2>2
    <3> QED
      BY <1>3, <3>1, <3>2, Zenon
  <2> QED
    BY <2>1, <2>2
<1> HIDE DEF u
<1>6. Denotes(instruction(u, <<\hC0>>),
              (E \o Reads(length - 1)) \o << <<"read", FALSE>> >>, (d + (length - 1)) + 1)
  BY <1>5, LastReadDenotes
<1>7. (d + (length - 1)) + 1 = d + length
  BY <1>2
<1>8. read(s, length) = instruction(u, <<\hC0>>)
  BY <1>4 DEF streamRead
<1> QED
  BY <1>6, <1>7, <1>8, Zenon

-----------------------------------------------------------------------------
(* finish *)

(* The bytes of a last packet, closed by STOP and END. *)
LEMMA FilledStop ==
    ASSUME NEW segment, NEW I, Filled(segment, I)
    PROVE  /\ Instructions(segment \o <<streamI2CStop, streamEnd>>) = Append(I, Stop)
           /\ Len(segment \o <<streamI2CStop, streamEnd>>) = Len(segment) + 2
           /\ segment \o <<streamI2CStop, streamEnd>> \in Seq(Int)
<1> DEFINE end == <<streamEnd>>
           stop == <<streamI2CStop>>
           both == <<streamI2CStop, streamEnd>>
<1>1. /\ end \in Seq(Int) /\ Len(end) = 1 /\ end[1] = streamEnd
      /\ stop \in Seq(Int) /\ Len(stop) = 1 /\ stop \o end = both
      /\ both \in Seq(Int) /\ Len(both) = 2
  <2>1. streamEnd \in Int /\ streamI2CStop \in Int
    BY DEF streamEnd, streamI2CStop
  <2>2. stop = Coded(Read(streamI2CStop)) /\ both = Coded(Write(streamI2CStop, streamEnd))
    BY <2>1, CodedOf
  <2>3. stop \o end = both
    BY <2>1, <2>2, CodedOf DEF Coded, Write
  <2> QED
    BY <2>1, <2>3
<1>2. Coded(Stop) = stop /\ Stop \in Sound
  BY CodedOf, AreSound
<1>3. segment \in Seq(Int) /\ Len(segment) \in Nat
  BY DEF Filled
<1> HIDE DEF end, stop, both
<1>4. Filled(segment \o stop, Append(I, Stop))
  BY <1>2, FilledMore
<1>5. Instructions((segment \o stop) \o end) = Append(I, Stop)
  <2> DEFINE longer == segment \o stop
             J == Append(I, Stop)
  <2>1. Filled(longer, J)
    BY <1>4
  <2>2. end \in Seq(Int) /\ Len(end) >= 1 /\ end[1] = streamEnd
    BY <1>1
  <2> HIDE DEF longer, J
  <2>3. Instructions(longer \o end) = J
    BY <2>1, <2>2, FilledDone
  <2> QED
    BY <2>3 DEF longer, J
<1>6. (segment \o stop) \o end = segment \o both
  <2>1. (segment \o stop) \o end = segment \o (stop \o end)
    BY <1>1, <1>3, Regrouped
  <2> QED
    BY <1>1, <2>1
<1>7. Len(segment \o both) = Len(segment) + Len(both) /\ segment \o both \in Seq(Int)
  BY <1>1, <1>3, ConcatAt
<1> QED
  BY <1>1, <1>5, <1>6, <1>7 DEF both

(* A stream that is finished ends the transaction with STOP. *)
LEMMA FinishDenotes ==
    ASSUME NEW s, NEW E, NEW d, Denotes(s, E, d)
    PROVE  Carried(finish(s), E \o << <<"stop">> >>, d)
<1> DEFINE t == room(s, 1)
           r == t.result
           seg == t.segment
           p == seg \o <<streamI2CStop, streamEnd>>
<1>1. 1 \in 1..3
  OBVIOUS
<1>2. Denotes(t, E, d) /\ Len(seg) + 1 + 1 <= 32
  BY <1>1, RoomDenotes
<1>3. PICK n, B, D, I : /\ Carries(r, n, B, D) /\ Len(r) = 32 * n
                        /\ B[0] = <<>> /\ D[0] = 0 /\ Filled(seg, I)
                        /\ E = B[n] \o Perform(I) /\ d = D[n] + dataBytes(I)
  BY <1>2 DEF Denotes
<1>4. t \in [result : Seq(Int), segment : Seq(Int)] /\ I \in Seq(Sound)
  BY <1>2, <1>3 DEF Denotes, Filled
<1>5. finish(s) = r \o p
  <2>1. finish(s) = append(t, <<streamI2CStop, streamEnd>>).result
                    \o append(t, <<streamI2CStop, streamEnd>>).segment
    BY DEF finish
  <2> HIDE DEF t
  <2> DEFINE both == <<streamI2CStop, streamEnd>>
  <2> HIDE DEF both
  <2>2. append(t, both).result = t.result /\ append(t, both).segment = t.segment \o both
    BY <1>4 DEF append
  <2> QED
    BY <2>1, <2>2 DEF both
<1>6. Len(seg) \in 1..31
  BY <1>2, DenotesType
<1> HIDE DEF t, r, seg
<1>7. Instructions(p) = Append(I, Stop) /\ Len(p) = Len(seg) + 2 /\ p \in Seq(Int)
  BY <1>3, FilledStop
<1> HIDE DEF p
<1>8. Append(I, Stop) \in Seq(Sound) /\ Stop \in Sound
  BY <1>4, AreSound, AppendProperties
<1>9. Len(p) >= 1 /\ Len(p) <= 32
  BY <1>2, <1>6, <1>7
<1>10. PICK C, G : /\ Carries(r \o p, n + 1, C, G)
                   /\ C[0] = B[0] /\ C[n + 1] = B[n] \o Perform(Instructions(p))
                   /\ G[0] = D[0] /\ G[n + 1] = D[n] + dataBytes(Instructions(p))
  <2>1. Carries(r, n, B, D) /\ Len(r) = 32 * n
    BY <1>3
  <2>2. Instructions(p) \in Seq(Sound)
    BY <1>7, <1>8
  <2>3. p \in Seq(Int)
    BY <1>7
  <2> QED
    BY <1>9, <2>1, <2>2, <2>3, OnePacketMore
<1>11. /\ n \in Nat /\ B[n] \in Seq(BusEvent) /\ D[n] \in Nat
  <2>1. n \in Nat /\ B \in [0..n -> Seq(BusEvent)] /\ D \in [0..n -> Nat]
    BY <1>3 DEF Carries
  <2>2. n \in 0..n
    BY <2>1
  <2> QED
    BY <2>1, <2>2, Zenon
<1>12. /\ Perform(Append(I, Stop)) = Perform(I) \o << <<"stop">> >>
       /\ dataBytes(Append(I, Stop)) = dataBytes(I)
       /\ Perform(I) \in Seq(BusEvent) /\ << <<"stop">> >> \in Seq(BusEvent)
  <2>1. Perform(Append(I, Stop)) = Perform(I) \o Events(Stop)
    BY <1>4, <1>8, PerformAppend
  <2>2. dataBytes(Append(I, Stop)) = dataBytes(I) + Data(Stop) /\ dataBytes(I) \in Nat
    BY <1>4, <1>8, CountsAppend
  <2>3. Perform(I) \in Seq(BusEvent) /\ Events(Stop) \in Seq(BusEvent)
    BY <1>4, <1>8, PerformType, EventsType
  <2>4. Events(Stop) = << <<"stop">> >> /\ Data(Stop) = 0
    BY EventsOfStart
  <2>5. dataBytes(I) + 0 = dataBytes(I)
    BY <2>2
  <2> QED
    BY <2>1, <2>2, <2>3, <2>4, <2>5, Zenon
<1>13. C[n + 1] = E \o << <<"stop">> >>
  <2> DEFINE q == Perform(I)
             e == << <<"stop">> >>
             b == B[n]
  <2>1. q \in Seq(BusEvent) /\ e \in Seq(BusEvent) /\ b \in Seq(BusEvent)
    BY <1>11, <1>12
  <2>2. C[n + 1] = b \o (q \o e) /\ E = b \o q
    BY <1>3, <1>7, <1>10, <1>12, Zenon
  <2> HIDE DEF q, e, b
  <2>3. (b \o q) \o e = b \o (q \o e)
    BY <2>1, Regrouped
  <2> QED
    BY <2>2, <2>3 DEF e
<1>14. G[n + 1] = d
  BY <1>3, <1>7, <1>10, <1>12, Zenon
<1>15. Carries(r \o p, n + 1, C, G) /\ C[0] = <<>> /\ G[0] = 0
  BY <1>3, <1>10
<1>16. Carried(r \o p, E \o << <<"stop">> >>, d)
  BY <1>13, <1>14, <1>15, Zenon DEF Carried, Leads
<1> QED
  BY <1>5, <1>16

-----------------------------------------------------------------------------
(* encodeLegacyTransaction *)

(* What a packet holds so far has the events E and reads d bytes. *)
Holding(segment, E, d) ==
    \E I : Filled(segment, I) /\ E = Perform(I) /\ d = dataBytes(I)

(* What it holds are bytes, its events are events. *)
LEMMA HoldingType ==
    ASSUME NEW segment, NEW E, NEW d, Holding(segment, E, d)
    PROVE  segment \in Seq(Int) /\ E \in Seq(BusEvent) /\ d \in Nat
<1>1. PICK I : Filled(segment, I) /\ E = Perform(I) /\ d = dataBytes(I)
  BY DEF Holding
<1>2. segment \in Seq(Int) /\ I \in Seq(Sound)
  BY <1>1 DEF Filled
<1>3. Perform(I) \in Seq(BusEvent) /\ dataBytes(I) \in Nat
  BY <1>2, PerformType, CountsAreNumbers
<1> QED
  BY <1>1, <1>2, <1>3

(* An instruction is put behind the others. *)
LEMMA HoldingMore ==
    ASSUME NEW segment, NEW E, NEW d, Holding(segment, E, d), NEW i \in Sound
    PROVE  Holding(segment \o Coded(i), E \o Events(i), d + Data(i))
<1>1. PICK I : Filled(segment, I) /\ E = Perform(I) /\ d = dataBytes(I)
  BY DEF Holding
<1>2. I \in Seq(Sound)
  BY <1>1 DEF Filled
<1>3. Filled(segment \o Coded(i), Append(I, i))
  BY <1>1, FilledMore
<1>4. Perform(Append(I, i)) = E \o Events(i)
  BY <1>1, <1>2, PerformAppend
<1>5. dataBytes(Append(I, i)) = d + Data(i)
  BY <1>1, <1>2, CountsAppend
<1> QED
  BY <1>3, <1>4, <1>5, Zenon DEF Holding

(* One byte more is written. *)
LEMMA OneByteMore ==
    ASSUME NEW bytes \in Seq(Int), NEW byte \in Int
    PROVE  /\ OneByteWrites(bytes) \in Seq(Int)
           /\ OneByteWrites(Append(bytes, byte)) = OneByteWrites(bytes) \o <<streamWrite, byte>>
           /\ <<streamWrite, byte>> \in Seq(Int)
           /\ OneByteWrites(<<>>) = <<>>
<1> DEFINE longer == Append(bytes, byte)
           e == <<streamWrite, byte>>
           n == Len(bytes)
           pairs == [i \in DOMAIN bytes |-> <<streamWrite, bytes[i]>>]
           more == [i \in DOMAIN longer |-> <<streamWrite, longer[i]>>]
<1>1. /\ longer \in Seq(Int) /\ Len(longer) = n + 1 /\ n \in Nat
      /\ (\A k \in 1..n : longer[k] = bytes[k]) /\ longer[n + 1] = byte
      /\ DOMAIN longer = 1 .. n + 1 /\ DOMAIN bytes = 1..n
  BY AppendProperties, LenProperties
<1>2. streamWrite \in Int
  BY DEF streamWrite
<1>3. e \in Seq(Int) /\ \A b \in Int : <<streamWrite, b>> \in Seq(Int)
  BY <1>2
<1>4. \A k \in 1..n : bytes[k] \in Int
  BY ElementOfSeq
<1>5. OneByteWrites(bytes) = FlattenSeq(pairs) /\ OneByteWrites(longer) = FlattenSeq(more)
  BY DEF OneByteWrites
<1> HIDE DEF longer, n
<1>6. pairs \in [1..n -> Seq(Int)] /\ \A k \in 1..n : pairs[k] = <<streamWrite, bytes[k]>>
  BY <1>1, <1>3, <1>4, Zenon
<1>7. pairs \in Seq(Seq(Int)) /\ Len(pairs) = n
  BY <1>1, <1>6, FunctionIsSeq
<1>8. /\ more = [k \in 1 .. n + 1 |-> more[k]]
      /\ \A k \in 1 .. n + 1 : more[k] = <<streamWrite, longer[k]>>
  BY <1>1, Zenon
<1>9. more[n + 1] = e /\ \A k \in 1..n : more[k] = pairs[k]
  <2>1. n + 1 \in 1 .. n + 1 /\ \A k \in 1..n : k \in 1 .. n + 1
    BY <1>1
  <2> QED
    BY <1>1, <1>6, <1>8, <2>1
<1> HIDE DEF e, pairs, more
<1>10. /\ Append(pairs, e) \in Seq(Seq(Int)) /\ Len(Append(pairs, e)) = n + 1
       /\ (\A k \in 1..n : Append(pairs, e)[k] = pairs[k])
       /\ Append(pairs, e)[n + 1] = e
  BY <1>3, <1>7, AppendProperties
<1>11. \A k \in 1 .. n + 1 : more[k] = Append(pairs, e)[k]
  <2>1. \A k \in 1 .. n + 1 : k \in 1..n \/ k = n + 1
    BY <1>1
  <2> QED
    BY <1>9, <1>10, <2>1
<1>12. more \in Seq(Seq(Int)) /\ Len(more) = n + 1
  <2>1. \A k \in 1 .. n + 1 : Append(pairs, e)[k] \in Seq(Int)
    BY <1>10, ElementOfSeq
  <2>2. \A k \in 1 .. n + 1 : more[k] \in Seq(Int)
    BY <1>11, <2>1, Zenon
  <2>3. more \in [1 .. n + 1 -> Seq(Int)]
    BY <1>8, <2>2, Zenon
  <2>4. n + 1 \in Nat
    BY <1>1
  <2> QED
    BY <2>3, <2>4, FunctionIsSeq
<1>13. more = Append(pairs, e)
  BY <1>10, <1>11, <1>12, SeqEqual
<1>14. FlattenSeq(Append(pairs, e)) = FlattenSeq(pairs) \o e /\ FlattenSeq(pairs) \in Seq(Int)
  BY <1>3, <1>7, FlattenAppend, FlattenType
<1>15. OneByteWrites(<<>>) = <<>>
  <2>1. [i \in DOMAIN <<>> |-> <<streamWrite, <<>>[i]>>] = <<>>
    OBVIOUS
  <2>2. FlattenSeq(<<>>) = <<>>
    BY DEF FlattenSeq
  <2> QED
    BY <2>1, <2>2, Zenon DEF OneByteWrites
<1> QED
  BY <1>3, <1>5, <1>13, <1>14, <1>15 DEF longer, e

(* The bytes are written one after the other. *)
LEMMA HoldingWrites ==
    ASSUME NEW segment, NEW E, NEW d, Holding(segment, E, d), NEW bytes \in Seq(Int)
    PROVE  Holding(segment \o OneByteWrites(bytes), E \o Writes(bytes), d)
<1> DEFINE Good == {k \in Nat : \A b \in Seq(Int) : Len(b) = k =>
                        Holding(segment \o OneByteWrites(b), E \o Writes(b), d)}
<1>1. segment \in Seq(Int) /\ E \in Seq(BusEvent) /\ d \in Nat
  BY HoldingType
<1>2. 0 \in Good
  <2>1. <<>> \in Seq(Int) /\ 0 \in Int
    BY EmptySeq
  <2>2. OneByteWrites(<<>>) = <<>> /\ Writes(<<>>) = <<>>
    <3>1. OneByteWrites(<<>>) = <<>>
      BY <2>1, OneByteMore
    <3>2. Writes(<<>>) = <<>>
      BY <2>1, WritesMore
    <3> QED
      BY <3>1, <3>2
  <2>3. segment \o <<>> = segment /\ E \o <<>> = E
    BY <1>1, ConcatEmptySeq
  <2>4. ASSUME NEW b \in Seq(Int), Len(b) = 0
        PROVE  Holding(segment \o OneByteWrites(b), E \o Writes(b), d)
    <3>1. b = <<>>
      BY <2>4, EmptySeq
    <3> QED
      BY <2>2, <2>3, <3>1
  <2> QED
    BY <2>4
<1>3. ASSUME NEW k \in Nat, k \in Good PROVE k + 1 \in Good
  <2>1. ASSUME NEW b \in Seq(Int), Len(b) = k + 1
        PROVE  Holding(segment \o OneByteWrites(b), E \o Writes(b), d)
    <3>11. b # <<>>
      BY <2>1, EmptySeq
    <3>12. PICK t \in Seq(Int), byte \in Int : b = Append(t, byte)
      BY <3>11, SequenceEmptyOrAppend
    <3> DEFINE O == OneByteWrites(t)
               W == Writes(t)
               c == <<streamWrite, byte>>
               e == << <<"write", byte>> >>
               i == Write(streamWrite, byte)
    <3>1. t \in Seq(Int) /\ Len(t) = k /\ byte \in Int /\ b = Append(t, byte)
      BY <2>1, <3>12, AppendProperties, LenProperties
    <3>2. Holding(segment \o O, E \o W, d)
      BY <1>3, <3>1
    <3>3. /\ O \in Seq(Int) /\ OneByteWrites(Append(t, byte)) = O \o c /\ c \in Seq(Int)
      BY <3>1, OneByteMore
    <3>4. Writes(Append(t, byte)) = W \o e /\ e \in Seq(BusEvent) /\ W \in Seq(BusEvent)
      BY <3>1, WritesMore, WritesType
    <3>5. streamWrite \in \h80..\h81 /\ streamWrite \in Int
      BY DEF streamWrite
    <3>6. i \in Sound /\ Coded(i) = c
      BY <3>1, <3>5, AreSound, CodedOf, Zenon
    <3>7. Events(i) = e /\ Data(i) = 0
      BY <3>1, <3>5, EventsOfWrite
    <3> HIDE DEF O, W, c, e, i
    <3>8. Holding((segment \o O) \o Coded(i), (E \o W) \o Events(i), d + Data(i))
      BY <3>2, <3>6, HoldingMore
    <3>9. (segment \o O) \o c = segment \o (O \o c) /\ (E \o W) \o e = E \o (W \o e)
      BY <1>1, <3>3, <3>4, Regrouped
    <3>10. d + 0 = d
      BY <1>1
    <3> QED
      BY <3>1, <3>3, <3>4, <3>6, <3>7, <3>8, <3>9, <3>10, Zenon
  <2> QED
    BY <2>1
<1> HIDE DEF Good
<1>4. \A k \in Nat : k \in Good
  BY <1>2, <1>3, RoundByRound
<1>5. Len(bytes) \in Nat
  BY LenProperties
<1> QED
  BY <1>4, <1>5 DEF Good

(* The events of START, an address and data; and of a read at an address. *)
Written(E, address, data) == (E \o << <<"start">> >>) \o Writes(<<address>> \o data)
AllRead(E, address, length) ==
    (Written(E, address, <<>>) \o Reads(length - 1)) \o << <<"read", FALSE>> >>

(* START is put behind the others. *)
LEMMA HoldingStart ==
    ASSUME NEW segment, NEW E, NEW d, Holding(segment, E, d)
    PROVE  Holding(segment \o <<streamI2CStart>>, E \o << <<"start">> >>, d)
<1>1. d \in Nat
  BY HoldingType
<1>2. d + 0 = d
  BY <1>1
<1>3. Start \in Sound
  BY AreSound
<1>4. Holding(segment \o Coded(Start), E \o Events(Start), d + Data(Start))
  BY <1>3, HoldingMore
<1>5. Coded(Start) = <<streamI2CStart>> /\ Events(Start) = << <<"start">> >> /\ Data(Start) = 0
  BY CodedOf, EventsOfStart
<1> QED
  BY <1>2, <1>4, <1>5, Zenon

(* The write part of a transaction in one packet. *)
LEMMA HoldingWritten ==
    ASSUME NEW segment, NEW E, NEW d, Holding(segment, E, d),
           NEW address \in Int, NEW data \in Seq(Int)
    PROVE  Holding(segment \o (<<streamI2CStart>> \o OneByteWrites(<<address>> \o data)),
                   Written(E, address, data), d)
<1> DEFINE start == <<streamI2CStart>>
           one == <<address>>
           bytes == one \o data
           O == OneByteWrites(bytes)
           e == << <<"start">> >>
<1>1. segment \in Seq(Int)
  BY HoldingType
<1>2. start \in Seq(Int) /\ one \in Seq(Int)
  BY DEF streamI2CStart
<1>3. bytes \in Seq(Int)
  <2> HIDE DEF one
  <2> QED
    BY <1>2, ConcatAt
<1>4. Holding(segment \o start, E \o e, d)
  BY HoldingStart
<1> HIDE DEF start, bytes, e
<1>5. O \in Seq(Int)
  BY <1>3, OneByteMore
<1>6. Holding((segment \o start) \o O, (E \o e) \o Writes(bytes), d)
  BY <1>3, <1>4, HoldingWrites
<1> HIDE DEF O
<1>7. (segment \o start) \o O = segment \o (start \o O)
  BY <1>1, <1>2, <1>5, Regrouped
<1>8. Holding(segment \o (start \o O), (E \o e) \o Writes(bytes), d)
  BY <1>6, <1>7, Zenon
<1> QED
  BY <1>8 DEF start, O, e, bytes, Written

(* A read is put behind the others. *)
LEMMA HoldingRead ==
    ASSUME NEW segment, NEW E, NEW d, Holding(segment, E, d), NEW n \in 1..32
    PROVE  Holding(segment \o <<\hC0 + n>>, E \o Reads(n), d + n)
<1> DEFINE i == Read(\hC0 + n)
<1>1. i \in Sound /\ Events(i) = Reads(n) /\ Data(i) = n
  BY EventsOfRead, Zenon
<1>2. \hC0 + n \in Int
  OBVIOUS
<1>3. Coded(i) = <<\hC0 + n>>
  BY <1>2, CodedOf, Zenon
<1> HIDE DEF i
<1>4. Holding(segment \o Coded(i), E \o Events(i), d + Data(i))
  BY <1>1, HoldingMore
<1> QED
  BY <1>1, <1>3, <1>4, Zenon

(* So is the read of the last byte. *)
LEMMA HoldingLastRead ==
    ASSUME NEW segment, NEW E, NEW d, Holding(segment, E, d)
    PROVE  Holding(segment \o <<\hC0>>, E \o << <<"read", FALSE>> >>, d + 1)
<1> DEFINE i == Read(\hC0)
<1>1. i \in Sound /\ Events(i) = << <<"read", FALSE>> >> /\ Data(i) = 1
  BY EventsOfRead, Zenon
<1>2. \hC0 \in Int
  OBVIOUS
<1>3. Coded(i) = <<\hC0>>
  BY <1>2, CodedOf, Zenon
<1> HIDE DEF i
<1>4. Holding(segment \o Coded(i), E \o Events(i), d + Data(i))
  BY <1>1, HoldingMore
<1> QED
  BY <1>1, <1>3, <1>4, Zenon

(* A byte in front of two others. *)
LEMMA PutBefore ==
    ASSUME NEW a \in Int, NEW b \in Int, NEW c \in Int
    PROVE  <<a>> \o <<b, c>> = <<a, b, c>>
<1> DEFINE one == <<a>>
           two == <<b, c>>
           all == <<a, b, c>>
<1>1. /\ one \in Seq(Int) /\ Len(one) = 1 /\ one[1] = a
      /\ two \in Seq(Int) /\ Len(two) = 2 /\ two[1] = b /\ two[2] = c
      /\ all \in Seq(Int) /\ Len(all) = 3 /\ all[1] = a /\ all[2] = b /\ all[3] = c
  OBVIOUS
<1> HIDE DEF one, two, all
<1>2. /\ one \o two \in Seq(Int) /\ Len(one \o two) = Len(one) + Len(two)
      /\ (\A k \in 1..Len(one) : (one \o two)[k] = one[k])
      /\ \A k \in 1..Len(two) : (one \o two)[Len(one) + k] = two[k]
  BY <1>1, ConcatAt
<1>3. /\ one \o two \in Seq(Int) /\ Len(one \o two) = 3
      /\ (one \o two)[1] = a /\ (one \o two)[2] = b /\ (one \o two)[3] = c
  BY <1>1, <1>2
<1>4. \A k \in 1..3 : k = 1 \/ k = 2 \/ k = 3
  OBVIOUS
<1>5. \A k \in 1..3 : (one \o two)[k] = all[k]
  BY <1>1, <1>3, <1>4
<1>6. one \o two = all
  BY <1>1, <1>3, <1>5, SeqEqual
<1> QED
  BY <1>6 DEF one, two, all

(* The read part of a transaction in one packet. *)
LEMMA HoldingAllRead ==
    ASSUME NEW segment, NEW E, NEW d, Holding(segment, E, d),
           NEW address \in Int, NEW n \in 1..32
    PROVE  Holding(segment \o ((<<streamI2CStart, streamWrite, address>>
                                \o (IF n > 1 THEN <<streamRead + n - 1>> ELSE <<>>))
                               \o <<streamRead>>),
                   AllRead(E, address, n), d + n)
<1> DEFINE one == <<address>>
           none == <<>>
           O == <<streamI2CStart>> \o OneByteWrites(one \o none)
           F == Written(E, address, none)
           X == IF n > 1 THEN <<streamRead + n - 1>> ELSE <<>>
           last == <<streamRead>>
<1>1. segment \in Seq(Int) /\ d \in Nat
  BY HoldingType
<1>2. none \in Seq(Int)
  BY EmptySeq
<1>3. Holding(segment \o O, F, d)
  BY <1>2, HoldingWritten
<1>4. O = <<streamI2CStart, streamWrite, address>> /\ O \in Seq(Int)
  <2> DEFINE pair == <<streamWrite, address>>
  <2>1. streamI2CStart \in Int /\ streamWrite \in Int
    BY DEF streamI2CStart, streamWrite
  <2>2. one \o none = one /\ Append(none, address) = one
    BY ConcatEmptySeq
  <2>3. /\ OneByteWrites(Append(none, address)) = OneByteWrites(none) \o pair
        /\ pair \in Seq(Int) /\ OneByteWrites(none) = <<>>
    BY <1>2, OneByteMore
  <2>4. <<>> \o pair = pair
    BY <2>1, ConcatEmptySeq
  <2>5. O = <<streamI2CStart>> \o pair
    BY <2>2, <2>3, <2>4, Zenon
  <2>6. <<streamI2CStart>> \o pair = <<streamI2CStart, streamWrite, address>>
    BY <2>1, PutBefore
  <2>7. <<streamI2CStart, streamWrite, address>> \in Seq(Int)
    BY <2>1
  <2> QED
    BY <2>5, <2>6, <2>7
<1>5. X \in Seq(Int) /\ last \in Seq(Int)
  <2>1. <<streamRead + n - 1>> \in Seq(Int) /\ last \in Seq(Int)
    BY DEF streamRead
  <2> QED
    BY <1>2, <2>1
<1> HIDE DEF O, X
<1>6. Holding((segment \o O) \o X, F \o Reads(n - 1), d + (n - 1))
  <2>1. CASE n > 1
    <3>1. n - 1 \in 1..32 /\ \hC0 + n - 1 = \hC0 + (n - 1)
      BY <2>1
    <3>2. X = <<\hC0 + (n - 1)>>
      BY <2>1, <3>1 DEF X, streamRead
    <3> DEFINE m == n - 1
               G == segment \o O
    <3>3. Holding(G, F, d) /\ m \in 1..32
      BY <1>3, <3>1
    <3> HIDE DEF m, G, F
    <3>4. Holding(G \o <<\hC0 + m>>, F \o Reads(m), d + m)
      BY <3>3, HoldingRead
    <3> QED
      BY <3>2, <3>4 DEF m, G
  <2>2. CASE ~(n > 1)
    <3>1. n - 1 = 0 /\ d + 0 = d
      BY <1>1, <2>2
    <3>2. X = <<>>
      BY <2>2 DEF X
    <3>3. Reads(0) = <<>>
      <4>1. Reads(0) \in Seq(BusEvent) /\ Len(Reads(0)) = 0
        BY ReadsType
      <4> QED
        BY <4>1, EmptySeq
    <3> DEFINE G == segment \o O
    <3>4. Holding(G, F, d)
      BY <1>3
    <3> HIDE DEF G, F
    <3>5. G \in Seq(Int) /\ F \in Seq(BusEvent)
      BY <3>4, HoldingType
    <3>6. G \o <<>> = G /\ F \o <<>> = F
      BY <3>5, ConcatEmptySeq
    <3>7. Holding(G \o X, F \o Reads(n - 1), d + (n - 1))
      BY <3>1, <3>2, <3>3, <3>4, <3>6, Zenon
    <3> QED
      BY <3>7 DEF G
  <2> QED
    BY <2>1, <2>2
<1> DEFINE G == (segment \o O) \o X
           H == F \o Reads(n - 1)
           c == d + (n - 1)
<1>7. Holding(G \o <<\hC0>>, H \o << <<"read", FALSE>> >>, c + 1)
  <2>1. Holding(G, H, c)
    BY <1>6
  <2> HIDE DEF G, H, c
  <2> QED
    BY <2>1, HoldingLastRead
<1>8. c + 1 = d + n
  BY <1>1
<1>9. G \o last = segment \o ((O \o X) \o last)
  <2>1. (segment \o O) \o X = segment \o (O \o X)
    BY <1>1, <1>4, <1>5, Regrouped
  <2>2. O \o X \in Seq(Int)
    BY <1>4, <1>5, ConcatAt
  <2> DEFINE P == O \o X
  <2> HIDE DEF P, last
  <2>3. (segment \o P) \o last = segment \o (P \o last)
    <3>1. P \in Seq(Int) /\ last \in Seq(Int)
      BY <1>5, <2>2 DEF P
    <3> QED
      BY <1>1, <3>1, Regrouped
  <2> QED
    BY <2>1, <2>3 DEF P
<1>10. last = <<\hC0>>
  BY DEF streamRead
<1>11. Holding(segment \o ((O \o X) \o last), H \o << <<"read", FALSE>> >>, d + n)
  BY <1>7, <1>8, <1>9, <1>10, Zenon
<1> HIDE DEF G, c
<1> QED
  BY <1>4, <1>11, Zenon DEF X, AllRead

(* A packet with all of a transaction is a stream of one packet. *)
LEMMA OnePacket ==
    ASSUME NEW segment, NEW E, NEW d, Holding(segment, E, d), Len(segment) + 2 <= 32
    PROVE  Carried(segment \o <<streamI2CStop, streamEnd>>, E \o << <<"stop">> >>, d)
<1> DEFINE s == [result |-> <<>>, segment |-> segment]
           B == [k \in 0..0 |-> <<>>]
           D == [k \in 0..0 |-> 0]
           both == <<streamI2CStop, streamEnd>>
<1>1. PICK I : Filled(segment, I) /\ E = Perform(I) /\ d = dataBytes(I)
  BY DEF Holding
<1>2. segment \in Seq(Int) /\ Len(segment) \in Nat /\ E \in Seq(BusEvent) /\ d \in Nat
  BY HoldingType, LenProperties
<1>3. <<>> \in Seq(BusEvent) /\ <<>> \in Seq(Int) /\ Len(<<>>) = 0
  BY EmptySeq
<1>4. Carries(<<>>, 0, B, D)
  BY <1>3 DEF Carries
<1>5. s.result = <<>> /\ s.segment = segment /\ s \in [result : Seq(Int), segment : Seq(Int)]
  BY <1>2, <1>3
<1>6. B[0] = <<>> /\ D[0] = 0
  OBVIOUS
<1>7. E = <<>> \o Perform(I) /\ d = 0 + dataBytes(I)
  <2>1. <<>> \o E = E /\ d = 0 + d
    BY <1>2, ConcatEmptySeq
  <2> QED
    BY <1>1, <2>1
<1> HIDE DEF B, D, s
<1>8. /\ Carries(s.result, 0, B, D) /\ Len(s.result) = 32 * 0
      /\ B[0] = <<>> /\ D[0] = 0 /\ Filled(s.segment, I)
      /\ E = B[0] \o Perform(I) /\ d = D[0] + dataBytes(I)
  BY <1>1, <1>3, <1>4, <1>5, <1>6, <1>7
<1>9. Len(s.segment) <= 31
  BY <1>2, <1>5
<1>10. Denotes(s, E, d)
  BY <1>5, <1>8, <1>9 DEF Denotes
<1>11. Carried(finish(s), E \o << <<"stop">> >>, d)
  BY <1>10, FinishDenotes
<1>12. room(s, 1) = s
  <2>1. ~(Len(s.segment) + 1 + 1 > 32)
    BY <1>2, <1>5
  <2> QED
    BY <2>1 DEF room, maxStreamPacketBytes
<1>13. finish(s) = segment \o both
  <2>1. finish(s) = append(s, both).result \o append(s, both).segment
    BY <1>12 DEF finish
  <2>2. both \in Seq(Int)
    BY DEF streamI2CStop, streamEnd
  <2> HIDE DEF both
  <2>3. append(s, both).result = <<>> /\ append(s, both).segment = segment \o both
    BY <1>5 DEF append
  <2>4. segment \o both \in Seq(Int)
    BY <1>2, <2>2, ConcatAt
  <2>5. <<>> \o (segment \o both) = segment \o both
    BY <2>4, ConcatEmptySeq
  <2> QED
    BY <2>1, <2>3, <2>5
<1> QED
  BY <1>11, <1>13

-----------------------------------------------------------------------------
(* Meaning *)

(* Two events after each other. *)
LEMMA TwoEvents ==
    ASSUME NEW x \in BusEvent, NEW y \in BusEvent
    PROVE  <<x>> \o <<y>> = <<x, y>>
<1> DEFINE one == <<x>>
           two == <<y>>
           all == <<x, y>>
<1>1. /\ one \in Seq(BusEvent) /\ Len(one) = 1 /\ one[1] = x
      /\ two \in Seq(BusEvent) /\ Len(two) = 1 /\ two[1] = y
      /\ all \in Seq(BusEvent) /\ Len(all) = 2 /\ all[1] = x /\ all[2] = y
  OBVIOUS
<1> HIDE DEF one, two, all
<1>2. /\ one \o two \in Seq(BusEvent) /\ Len(one \o two) = Len(one) + Len(two)
      /\ \A k \in 1 .. Len(one) + Len(two) :
             (one \o two)[k] = IF k <= Len(one) THEN one[k] ELSE two[k - Len(one)]
  BY <1>1, ConcatProperties
<1>3. /\ one \o two \in Seq(BusEvent) /\ Len(one \o two) = 2
      /\ (one \o two)[1] = x /\ (one \o two)[2] = y
  BY <1>1, <1>2
<1>4. \A k \in 1..2 : k = 1 \/ k = 2
  OBVIOUS
<1>5. \A k \in 1..2 : (one \o two)[k] = all[k]
  BY <1>1, <1>3, <1>4
<1>6. one \o two = all
  BY <1>1, <1>3, <1>5, SeqEqual
<1> QED
  BY <1>6 DEF one, two, all

(* The address is written before the data. *)
LEMMA AddressFirst ==
    ASSUME NEW address \in Int, NEW data \in Seq(Int)
    PROVE  Writes(<<address>> \o data) = << <<"write", address>> >> \o Writes(data)
<1> DEFINE one == <<address>>
           bytes == one \o data
           e == <<"write", address>>
           one_e == <<e>>
           W == Writes(data)
           n == Len(data)
<1>1. one \in Seq(Int) /\ Len(one) = 1 /\ one[1] = address
  OBVIOUS
<1>2. e \in BusEvent
  BY DEF BusEvent
<1> HIDE DEF one
<1>3. /\ bytes \in Seq(Int) /\ Len(bytes) = Len(one) + Len(data)
      /\ \A k \in 1 .. Len(one) + Len(data) :
             bytes[k] = IF k <= Len(one) THEN one[k] ELSE data[k - Len(one)]
  BY <1>1, ConcatProperties
<1>4. n \in Nat /\ DOMAIN data = 1..n
  BY LenProperties
<1>5. /\ bytes \in Seq(Int) /\ Len(bytes) = 1 + n /\ DOMAIN bytes = 1 .. 1 + n
      /\ bytes[1] = address /\ \A k \in 1..n : bytes[1 + k] = data[k]
  <2> HIDE DEF bytes
  <2>1. DOMAIN bytes = 1..Len(bytes)
    BY <1>3, LenProperties
  <2>2. \A k \in 1..n : 1 + k \in 1 .. 1 + n /\ ~(1 + k <= 1) /\ (1 + k) - 1 = k
    BY <1>4
  <2>3. Len(one) = 1 /\ Len(data) = n
    BY <1>1
  <2>4. /\ Len(bytes) = 1 + n
        /\ \A k \in 1 .. 1 + n : bytes[k] = IF k <= 1 THEN one[k] ELSE data[k - 1]
    BY <1>3, <2>3, Zenon
  <2> HIDE DEF n
  <2>5. 1 \in 1 .. 1 + n
    BY <1>4
  <2> QED
    BY <1>1, <1>3, <2>1, <2>2, <2>4, <2>5
<1> HIDE DEF bytes, n
<1>6. /\ \A k \in 1 .. 1 + n : Writes(bytes)[k] = <<"write", bytes[k]>>
      /\ \A k \in 1..n : W[k] = <<"write", data[k]>>
  BY <1>4, <1>5, Zenon DEF Writes
<1>7. Writes(bytes) \in Seq(BusEvent) /\ Len(Writes(bytes)) = 1 + n
  BY <1>5, WritesType
<1>8. W \in Seq(BusEvent) /\ Len(W) = n
  BY WritesType DEF n
<1>9. Writes(bytes)[1] = e /\ \A k \in 1..n : Writes(bytes)[1 + k] = W[k]
  <2>1. 1 \in 1 .. 1 + n /\ \A k \in 1..n : 1 + k \in 1 .. 1 + n
    BY <1>4
  <2> QED
    BY <1>5, <1>6, <2>1
<1> HIDE DEF e, W
<1>10. one_e \in Seq(BusEvent) /\ Len(one_e) = 1 /\ one_e[1] = e
  BY <1>2
<1> HIDE DEF one_e
<1>11. /\ one_e \o W \in Seq(BusEvent) /\ Len(one_e \o W) = 1 + n
       /\ \A k \in 1 .. 1 + n : (one_e \o W)[k] = IF k <= 1 THEN one_e[k] ELSE W[k - 1]
  <2>1. /\ one_e \o W \in Seq(BusEvent) /\ Len(one_e \o W) = Len(one_e) + Len(W)
        /\ \A k \in 1 .. Len(one_e) + Len(W) :
               (one_e \o W)[k] = IF k <= Len(one_e) THEN one_e[k] ELSE W[k - Len(one_e)]
    BY <1>8, <1>10, ConcatProperties
  <2>2. Len(one_e) = 1 /\ Len(W) = n
    BY <1>8, <1>10
  <2> QED
    BY <2>1, <2>2, Zenon
<1>12. \A k \in 1 .. 1 + n : Writes(bytes)[k] = (one_e \o W)[k]
  <2>1. \A k \in 1 .. 1 + n : k = 1 \/ (~(k <= 1) /\ k - 1 \in 1..n /\ 1 + (k - 1) = k)
    BY <1>4
  <2> QED
    BY <1>9, <1>10, <1>11, <2>1
<1>13. Writes(bytes) = one_e \o W
  BY <1>7, <1>11, <1>12, SeqEqual
<1> QED
  BY <1>13 DEF bytes, one, one_e, e, W

(* The last byte that is read is the one without an ACK. *)
LEMMA LastReadLast ==
    ASSUME NEW n \in Nat, n >= 1
    PROVE  Reads(n - 1) \o << <<"read", FALSE>> >> = [i \in 1..n |-> <<"read", i < n>>]
<1> DEFINE m == n - 1
           ack == <<"read", TRUE>>
           nack == <<"read", FALSE>>
           last == <<nack>>
           R == Reads(m)
           all == [i \in 1..n |-> <<"read", i < n>>]
<1>1. m \in Nat /\ m + 1 = n
  OBVIOUS
<1>2. nack \in BusEvent /\ ack \in BusEvent
  <2>1. TRUE \in BOOLEAN /\ FALSE \in BOOLEAN
    OBVIOUS
  <2> QED
    BY <2>1, Zenon DEF BusEvent
<1>3. (\A k \in 1..m : (k < n) = TRUE) /\ (n < n) = FALSE
  OBVIOUS
<1>4. \A k \in 1..n : all[k] = <<"read", k < n>>
  BY Zenon
<1>5. (\A k \in 1..m : k \in 1..n) /\ n \in 1..n
  OBVIOUS
<1>6. (\A k \in 1..m : all[k] = ack) /\ all[n] = nack
  BY <1>3, <1>4, <1>5, Zenon
<1>7. all = [k \in 1..n |-> all[k]]
  BY Zenon
<1> HIDE DEF m
<1>8. \A k \in 1..m : R[k] = ack
  BY Zenon DEF Reads
<1>9. R \in Seq(BusEvent) /\ Len(R) = m
  BY <1>1, ReadsType
<1> HIDE DEF nack, ack, all, R
<1>10. last \in Seq(BusEvent) /\ Len(last) = 1 /\ last[1] = nack
  BY <1>2
<1>11. all \in Seq(BusEvent) /\ Len(all) = n
  <2>1. \A k \in 1..n : k \in 1..m \/ k = n
    BY <1>1
  <2>2. \A k \in 1..n : all[k] \in BusEvent
    BY <1>2, <1>6, <2>1
  <2>3. all \in [1..n -> BusEvent]
    BY <1>7, <2>2, Zenon
  <2> QED
    BY <2>3, FunctionIsSeq
<1> HIDE DEF last
<1>12. /\ R \o last \in Seq(BusEvent) /\ Len(R \o last) = m + 1
       /\ \A k \in 1 .. m + 1 : (R \o last)[k] = IF k <= m THEN R[k] ELSE last[k - m]
  <2>1. /\ R \o last \in Seq(BusEvent) /\ Len(R \o last) = Len(R) + Len(last)
        /\ \A k \in 1 .. Len(R) + Len(last) :
               (R \o last)[k] = IF k <= Len(R) THEN R[k] ELSE last[k - Len(R)]
    BY <1>9, <1>10, ConcatProperties
  <2>2. Len(R) = m /\ Len(last) = 1
    BY <1>9, <1>10
  <2> QED
    BY <2>1, <2>2, Zenon
<1>13. \A k \in 1..n : (R \o last)[k] = all[k]
  <2>1. \A k \in 1..n : /\ k \in 1 .. m + 1
                        /\ (k <= m /\ k \in 1..m) \/ (~(k <= m) /\ k - m = 1 /\ k = n)
    BY <1>1
  <2> QED
    BY <1>6, <1>8, <1>10, <1>12, <2>1
<1>14. R \o last = all
  BY <1>1, <1>11, <1>12, <1>13, SeqEqual
<1> QED
  BY <1>14 DEF R, last, all, nack, m

(* START, an address and data follow what was there. *)
LEMMA WrittenAfter ==
    ASSUME NEW E \in Seq(BusEvent), NEW address \in Int, NEW data \in Seq(Int)
    PROVE  /\ Written(E, address, data)
                  = E \o (<< <<"start">>, <<"write", address>> >> \o Writes(data))
           /\ << <<"start">>, <<"write", address>> >> \o Writes(data) \in Seq(BusEvent)
<1> DEFINE a == <<"start">>
           b == <<"write", address>>
           W == Writes(data)
           A == <<a>>
           B == <<b>>
           C == <<a, b>>
<1>1. a \in BusEvent /\ b \in BusEvent
  BY DEF BusEvent
<1>2. W \in Seq(BusEvent)
  BY WritesType
<1>3. Written(E, address, data) = (E \o A) \o (B \o W)
  BY AddressFirst, Zenon DEF Written
<1> HIDE DEF a, b
<1>4. A \in Seq(BusEvent) /\ B \in Seq(BusEvent) /\ C \in Seq(BusEvent) /\ A \o B = C
  BY <1>1, TwoEvents
<1> HIDE DEF W, A, B, C
<1>5. B \o W \in Seq(BusEvent) /\ C \o W \in Seq(BusEvent)
  BY <1>2, <1>4, ConcatProperties
<1>6. (A \o B) \o W = A \o (B \o W)
  BY <1>2, <1>4, Regrouped
<1> DEFINE X == B \o W
<1> HIDE DEF X
<1>7. (E \o A) \o X = E \o (A \o X)
  <2>1. A \in Seq(BusEvent) /\ X \in Seq(BusEvent)
    BY <1>4, <1>5 DEF X
  <2> QED
    BY <2>1, Regrouped
<1>8. Written(E, address, data) = E \o (C \o W)
  BY <1>3, <1>4, <1>6, <1>7, Zenon DEF X
<1> QED
  BY <1>5, <1>8, Zenon DEF W, C, a, b

(* So do START, an address and reads. *)
LEMMA AllReadAfter ==
    ASSUME NEW E \in Seq(BusEvent), NEW address \in Int, NEW n \in Nat, n >= 1
    PROVE  /\ AllRead(E, address, n)
                  = E \o (<< <<"start">>, <<"write", address>> >>
                          \o [i \in 1..n |-> <<"read", i < n>>])
           /\ << <<"start">>, <<"write", address>> >>
              \o [i \in 1..n |-> <<"read", i < n>>] \in Seq(BusEvent)
<1> DEFINE C == << <<"start">>, <<"write", address>> >>
           none == <<>>
           R == Reads(n - 1)
           last == << <<"read", FALSE>> >>
           all == [i \in 1..n |-> <<"read", i < n>>]
<1>1. none \in Seq(Int)
  BY EmptySeq
<1>2. Written(E, address, none) = E \o (C \o Writes(none))
  BY <1>1, WrittenAfter
<1>3. Writes(none) = <<>>
  BY <1>1, WritesMore
<1>4. C \in Seq(BusEvent) /\ C \o <<>> = C
  <2>1. <<"start">> \in BusEvent /\ <<"write", address>> \in BusEvent
    BY DEF BusEvent
  <2>2. C \in Seq(BusEvent)
    BY <2>1
  <2> HIDE DEF C
  <2> QED
    BY <2>2, ConcatEmptySeq
<1>5. AllRead(E, address, n) = ((E \o C) \o R) \o last
  BY <1>2, <1>3, <1>4, Zenon DEF AllRead
<1>6. R \in Seq(BusEvent) /\ R \o last = all
  <2>1. n - 1 \in Nat
    OBVIOUS
  <2> QED
    BY <2>1, ReadsType, LastReadLast
<1>7. last \in Seq(BusEvent)
  <2>1. <<"read", FALSE>> \in BusEvent
    <3>1. FALSE \in BOOLEAN
      OBVIOUS
    <3> QED
      BY <3>1, Zenon DEF BusEvent
  <2> DEFINE e == <<"read", FALSE>>
  <2> HIDE DEF e
  <2>2. e \in BusEvent => <<e>> \in Seq(BusEvent)
    OBVIOUS
  <2> QED
    BY <2>1, <2>2, Zenon DEF e
<1> HIDE DEF C, R, last, all, none
<1>8. E \o C \in Seq(BusEvent) /\ all \in Seq(BusEvent)
  BY <1>4, <1>6, <1>7, ConcatProperties
<1>9. C \o all \in Seq(BusEvent)
  BY <1>4, <1>8, ConcatProperties
<1> DEFINE F == E \o C
<1> HIDE DEF F
<1>10. (F \o R) \o last = F \o (R \o last)
  BY <1>6, <1>7, <1>8, Regrouped DEF F
<1>11. (E \o C) \o all = E \o (C \o all)
  BY <1>4, <1>8, Regrouped
<1>12. AllRead(E, address, n) = E \o (C \o all)
  BY <1>5, <1>6, <1>10, <1>11, Zenon DEF F
<1> QED
  BY <1>9, <1>12, Zenon DEF C, all

-----------------------------------------------------------------------------
(* encodeTransaction *)

(* The arguments of Transaction. *)
Request(r) == r.address \in 0..255 /\ r.write \in Seq(0..255) /\ r.read \in Int

(* The events of the write part of a transaction, and of both parts. *)
WritePart(r) ==
    IF Len(r.write) > 0 THEN Written(<<>>, 2 * r.address, r.write) ELSE <<>>
BothParts(r) ==
    IF r.read > 0 THEN AllRead(WritePart(r), 2 * r.address + 1, r.read) ELSE WritePart(r)

(* What is known of a request that is not rejected. *)
LEMMA RequestType ==
    ASSUME NEW r, Request(r), ~rejected(r)
    PROVE  /\ r.write \in Seq(Int) /\ Len(r.write) \in Nat /\ r.read \in Nat
           /\ 2 * r.address \in Int /\ 2 * r.address + 1 \in Int
           /\ addressByte(r.address, FALSE) = 2 * r.address
           /\ addressByte(r.address, TRUE) = 2 * r.address + 1
<1>1. r.address \in 0..127 /\ r.read \in Nat
  <2> DEFINE a == r.address
             n == r.read
  <2>1. a \in 0..255 /\ n \in Int /\ ~(a > 127) /\ ~(n < 0)
    BY Zenon DEF Request, rejected
  <2> HIDE DEF a, n
  <2>2. a \in 0..127 /\ n \in Nat
    BY <2>1
  <2> QED
    BY <2>2 DEF a, n
<1>2. r.write \in Seq(Int) /\ Len(r.write) \in Nat
  <2> DEFINE w == r.write
  <2>1. w \in Seq(0..255)
    BY DEF Request
  <2> HIDE DEF w
  <2>2. Len(w) \in Nat /\ w \in [1..Len(w) -> 0..255]
    BY <2>1, LenProperties, Zenon
  <2>3. \A b \in 0..255 : b \in Int
    OBVIOUS
  <2>4. w \in [1..Len(w) -> Int]
    BY <2>2, <2>3, Zenon
  <2>5. w \in Seq(Int)
    BY <2>2, <2>4, FunctionIsSeq
  <2> QED
    BY <2>2, <2>5 DEF w
<1>3. \A a \in 0..127 : /\ 2 * a \in Int /\ (2 * a) % 256 = 2 * a
                        /\ 2 * a + 0 = 2 * a
  BY Z3
<1>4. 2 * r.address \in Int /\ 2 * r.address + 1 \in Int
      /\ (2 * r.address) % 256 = 2 * r.address /\ 2 * r.address + 0 = 2 * r.address
  BY <1>1, <1>3
<1>5. addressByte(r.address, FALSE) = 2 * r.address
      /\ addressByte(r.address, TRUE) = 2 * r.address + 1
  BY <1>4 DEF addressByte
<1> QED
  BY <1>1, <1>2, <1>4, <1>5

(* The parts and a STOP are the meaning of a request. *)
LEMMA PartsAndStop ==
    ASSUME NEW r, Request(r), ~rejected(r)
    PROVE  Meaning(r) = BothParts(r) \o << <<"stop">> >>
<1> DEFINE a == 2 * r.address
           w == r.write
           n == r.read
           V == << <<"start">>, <<"write", a>> >> \o Writes(w)
           U == << <<"start">>, <<"write", a + 1>> >> \o [i \in 1..n |-> <<"read", i < n>>]
           P == IF Len(w) > 0 THEN V ELSE <<>>
           Q == IF n > 0 THEN U ELSE <<>>
<1>1. w \in Seq(Int) /\ n \in Nat /\ a \in Int /\ a + 1 \in Int
  BY RequestType
<1>2. Meaning(r) = (P \o Q) \o << <<"stop">> >>
  BY Zenon DEF Meaning, Writes
<1>3. <<>> \in Seq(BusEvent)
  BY EmptySeq
<1>4. WritePart(r) = P /\ P \in Seq(BusEvent)
  <2>1. CASE Len(w) > 0
    <3>1. Written(<<>>, a, w) = <<>> \o V /\ V \in Seq(BusEvent)
      BY <1>1, <1>3, WrittenAfter
    <3> HIDE DEF V
    <3>2. <<>> \o V = V
      BY <3>1, ConcatEmptySeq
    <3>3. WritePart(r) = Written(<<>>, a, w) /\ P = V
      BY <2>1, Zenon DEF WritePart
    <3> QED
      BY <3>1, <3>2, <3>3, Zenon
  <2>2. CASE ~(Len(w) > 0)
    <3>1. WritePart(r) = <<>> /\ P = <<>>
      BY <2>2, Zenon DEF WritePart
    <3> QED
      BY <1>3, <3>1, Zenon
  <2> QED
    BY <2>1, <2>2, Zenon
<1> HIDE DEF P
<1>5. BothParts(r) = P \o Q
  <2>1. CASE n > 0
    <3>1. n >= 1
      BY <1>1, <2>1
    <3>2. AllRead(P, a + 1, n) = P \o U
      BY <1>1, <1>4, <3>1, AllReadAfter
    <3>3. BothParts(r) = AllRead(P, a + 1, n) /\ Q = U
      BY <1>4, <2>1, Zenon DEF BothParts
    <3> QED
      BY <3>2, <3>3, Zenon
  <2>2. CASE ~(n > 0)
    <3>1. BothParts(r) = P /\ Q = <<>>
      BY <1>4, <2>2, Zenon DEF BothParts
    <3>2. P \o <<>> = P
      BY <1>4, ConcatEmptySeq
    <3> QED
      BY <3>1, <3>2, Zenon
  <2> QED
    BY <2>1, <2>2, Zenon
<1> QED
  BY <1>2, <1>5, Zenon

(* A transaction in packets. *)
LEMMA SegmentedCarried ==
    ASSUME NEW r, Request(r), ~rejected(r), ~fitsLegacy(r)
    PROVE  Carried(encodeTransaction(r), Meaning(r), r.read)
<1> DEFINE a == 2 * r.address
           w == r.write
           n == r.read
           written == IF Len(w) > 0
                      THEN startAndWrite(newSegmentedStream,
                                         addressByte(r.address, FALSE), w)
                      ELSE newSegmentedStream
           complete == IF n > 0
                       THEN read(startAndWrite(written, addressByte(r.address, TRUE), <<>>), n)
                       ELSE written
<1>1. /\ w \in Seq(Int) /\ n \in Nat /\ a \in Int /\ a + 1 \in Int
      /\ addressByte(r.address, FALSE) = a /\ addressByte(r.address, TRUE) = a + 1
  BY RequestType
<1>2. encodeTransaction(r) = finish(complete)
  BY DEF encodeTransaction
<1>3. Denotes(newSegmentedStream, <<>>, 0)
  BY NewDenotes
<1>4. Denotes(written, WritePart(r), 0)
  <2>1. CASE Len(w) > 0
    <3>1. Denotes(startAndWrite(newSegmentedStream, a, w),
                  (<<>> \o << <<"start">> >>) \o Writes(<<a>> \o w), 0)
      BY <1>1, <1>3, StartDenotes
    <3>2. written = startAndWrite(newSegmentedStream, a, w)
      BY <1>1, <2>1, Zenon
    <3>3. WritePart(r) = (<<>> \o << <<"start">> >>) \o Writes(<<a>> \o w)
      BY <2>1, Zenon DEF WritePart, Written
    <3> QED
      BY <3>1, <3>2, <3>3, Zenon
  <2>2. CASE ~(Len(w) > 0)
    <3>1. WritePart(r) = <<>> /\ written = newSegmentedStream
      BY <2>2, Zenon DEF WritePart
    <3> QED
      BY <1>3, <3>1, Zenon
  <2> QED
    BY <2>1, <2>2, Zenon
<1> HIDE DEF written
<1>5. Denotes(complete, BothParts(r), n)
  <2>1. CASE n > 0
    <3> DEFINE E == WritePart(r)
               started == startAndWrite(written, a + 1, <<>>)
               F == Written(E, a + 1, <<>>)
    <3>1. <<>> \in Seq(Int) /\ n >= 1 /\ 0 + n = n
      BY <1>1, <2>1, EmptySeq
    <3>2. Denotes(started, F, 0)
      <4>1. Denotes(started, (E \o << <<"start">> >>) \o Writes(<<a + 1>> \o <<>>), 0)
        BY <1>1, <1>4, <3>1, StartDenotes
      <4> QED
        BY <4>1, Zenon DEF Written
    <3>3. complete = read(started, n)
      BY <1>1, <2>1, Zenon
    <3>4. BothParts(r) = (F \o Reads(n - 1)) \o << <<"read", FALSE>> >>
      BY <2>1, Zenon DEF BothParts, AllRead
    <3> HIDE DEF started, F
    <3>5. Denotes(read(started, n), (F \o Reads(n - 1)) \o << <<"read", FALSE>> >>, 0 + n)
      BY <1>1, <3>1, <3>2, ReadAllDenotes
    <3> QED
      BY <3>1, <3>3, <3>4, <3>5, Zenon
  <2>2. CASE ~(n > 0)
    <3>1. BothParts(r) = WritePart(r) /\ complete = written
      BY <2>2, Zenon DEF BothParts
    <3>2. n = 0
      BY <1>1, <2>2
    <3> QED
      BY <1>4, <3>1, <3>2, Zenon
  <2> QED
    BY <2>1, <2>2, Zenon
<1> HIDE DEF complete
<1>6. Carried(finish(complete), BothParts(r) \o << <<"stop">> >>, n)
  BY <1>5, FinishDenotes
<1> QED
  BY <1>2, <1>6, PartsAndStop, Zenon

(* A transaction in one packet. *)
LEMMA LegacyCarried ==
    ASSUME NEW r, Request(r), ~rejected(r), fitsLegacy(r)
    PROVE  Carried(encodeTransaction(r), Meaning(r), r.read)
<1> DEFINE a == 2 * r.address
           w == r.write
           n == r.read
           first == <<streamStart>>
           both == <<streamI2CStop, streamEnd>>
           W == IF Len(w) > 0
                THEN <<streamI2CStart>> \o OneByteWrites(<<addressByte(r.address, FALSE)>> \o w)
                ELSE <<>>
           R == IF n > 0
                THEN (<<streamI2CStart, streamWrite, addressByte(r.address, TRUE)>>
                      \o (IF n > 1 THEN <<streamRead + n - 1>> ELSE <<>>)) \o <<streamRead>>
                ELSE <<>>
<1>1. /\ w \in Seq(Int) /\ n \in Nat /\ a \in Int /\ a + 1 \in Int
      /\ addressByte(r.address, FALSE) = a /\ addressByte(r.address, TRUE) = a + 1
  BY RequestType
<1>2. encodeTransaction(r) = encodeLegacyTransaction(r)
  BY DEF encodeTransaction
<1>3. encodeLegacyTransaction(r) = ((first \o W) \o R) \o both
  BY DEF encodeLegacyTransaction
<1>4. n <= 32 /\ Len(encodeLegacyTransaction(r)) <= 32
  BY DEF fitsLegacy, maxReadBlockBytes, maxStreamPacketBytes
<1>5. Holding(first, <<>>, 0)
  <2>1. <<>> = Perform(<<>>) /\ 0 = dataBytes(<<>>)
    BY NoInstructions
  <2> QED
    BY <2>1, FilledFirst DEF Holding
<1> HIDE DEF first
<1>6. Holding(first \o W, WritePart(r), 0)
  <2>1. CASE Len(w) > 0
    <3>1. Holding(first \o (<<streamI2CStart>> \o OneByteWrites(<<a>> \o w)),
                  Written(<<>>, a, w), 0)
      BY <1>1, <1>5, HoldingWritten
    <3>2. W = <<streamI2CStart>> \o OneByteWrites(<<a>> \o w)
      BY <1>1, <2>1, Zenon
    <3>3. WritePart(r) = Written(<<>>, a, w)
      BY <2>1, Zenon DEF WritePart
    <3> QED
      BY <3>1, <3>2, <3>3, Zenon
  <2>2. CASE ~(Len(w) > 0)
    <3>1. WritePart(r) = <<>> /\ W = <<>>
      BY <2>2, Zenon DEF WritePart
    <3>2. first \in Seq(Int)
      BY <1>5, HoldingType
    <3>3. first \o <<>> = first
      BY <3>2, ConcatEmptySeq
    <3> QED
      BY <1>5, <3>1, <3>3, Zenon
  <2> QED
    BY <2>1, <2>2, Zenon
<1> DEFINE G == first \o W
<1> HIDE DEF W
<1>7. Holding(G \o R, BothParts(r), n)
  <2> DEFINE E == WritePart(r)
  <2>1. Holding(G, E, 0)
    BY <1>6
  <2> HIDE DEF G
  <2>2. CASE n > 0
    <3>1. n \in 1..32 /\ 0 + n = n
      <4>1. \A k \in Nat : k <= 32 /\ k > 0 => k \in 1..32 /\ 0 + k = k
        OBVIOUS
      <4> QED
        BY <1>1, <1>4, <2>2, <4>1, Zenon
    <3> DEFINE X == (<<streamI2CStart, streamWrite, a + 1>>
                     \o (IF n > 1 THEN <<streamRead + n - 1>> ELSE <<>>)) \o <<streamRead>>
    <3>2. Holding(G \o X, AllRead(E, a + 1, n), 0 + n)
      BY <1>1, <2>1, <3>1, HoldingAllRead
    <3>3. R = X
      BY <1>1, <2>2, Zenon
    <3>4. BothParts(r) = AllRead(E, a + 1, n)
      BY <2>2, Zenon DEF BothParts
    <3> QED
      BY <3>1, <3>2, <3>3, <3>4, Zenon
  <2>3. CASE ~(n > 0)
    <3>1. BothParts(r) = E /\ R = <<>>
      BY <2>3, Zenon DEF BothParts
    <3>2. n = 0
      BY <1>1, <2>3
    <3>3. G \in Seq(Int)
      BY <2>1, HoldingType
    <3>4. G \o <<>> = G
      BY <3>3, ConcatEmptySeq
    <3> QED
      BY <2>1, <3>1, <3>2, <3>4, Zenon
  <2> QED
    BY <2>2, <2>3, Zenon
<1> DEFINE H == G \o R
<1>8. encodeLegacyTransaction(r) = H \o both
  BY <1>3 DEF W
<1> HIDE DEF H
<1>9. Len(H) + 2 <= 32
  <2>1. H \in Seq(Int)
    BY <1>7, HoldingType DEF H
  <2>2. both \in Seq(Int) /\ Len(both) = 2
    BY DEF streamI2CStop, streamEnd
  <2> HIDE DEF both
  <2>3. Len(H \o both) = Len(H) + Len(both) /\ Len(H) \in Nat
    BY <2>1, <2>2, ConcatAt
  <2> QED
    BY <1>4, <1>8, <2>2, <2>3
<1>10. Carried(H \o both, BothParts(r) \o << <<"stop">> >>, n)
  <2>1. Holding(H, BothParts(r), n)
    BY <1>7 DEF H
  <2> QED
    BY <1>9, <2>1, OnePacket
<1> QED
  BY <1>2, <1>8, <1>10, PartsAndStop, Zenon

(* For every request that is not rejected the packets of encodeTransaction  *)
(* have the bridge put on the bus what the request means, byte for byte,    *)
(* and bring back as many data bytes as it asks for; none of them ends in   *)
(* the middle of an instruction.                                            *)
THEOREM EncodedAsMeant ==
    \A r : Request(r) /\ ~rejected(r) => Carried(encodeTransaction(r), Meaning(r), r.read)
<1> SUFFICES ASSUME NEW r, Request(r), ~rejected(r)
             PROVE  Carried(encodeTransaction(r), Meaning(r), r.read)
  OBVIOUS
<1> QED
  BY LegacyCarried, SegmentedCarried
=============================================================================
