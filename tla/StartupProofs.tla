---------------------------- MODULE StartupProofs ----------------------------
(* What the configuration hands to the server, for every command line and    *)
(* any number of identities on it.                                           *)
EXTENDS Startup, WellFoundedInduction, SequenceTheorems, TLAPS

-----------------------------------------------------------------------------
(* The loop over the identities *)

(* A set of natural numbers has a least one. *)
LEMMA LeastNatural ==
    ASSUME NEW T, T \subseteq Nat, T # {}
    PROVE  \E n \in T : \A m \in T : n <= m
<1> DEFINE R == OpToRel(<, Nat)
<1>1. IsWellFoundedOn(R, Nat)
  BY NatLessThanWellFounded
<1>2. \A m, n \in Nat : m < n => <<m, n>> \in R
  BY DEF OpToRel
<1> HIDE DEF R
<1>3. PICK n \in T : \A m \in T : ~ (<<m, n>> \in R)
  BY <1>1, WFMin
<1>4. \A m \in T : m \in Nat /\ n \in Nat /\ ~(m < n)
  BY <1>2, <1>3
<1> QED
  BY <1>4

(* ids is what the loop has made of the parts after each of its rounds. *)
Rounds(ids, parts, last) ==
    ids = [n \in 0..last |->
              IF n = 0 THEN <<>> ELSE appendUnseen(ids[n - 1], parts[n])]

(* The loop has a result after any number of rounds. *)
LEMMA RoundsExist ==
    ASSUME NEW parts, NEW last \in Nat
    PROVE  \E ids : Rounds(ids, parts, last)
<1> DEFINE Failing == {n \in Nat : ~\E ids : Rounds(ids, parts, n)}
<1>1. SUFFICES ASSUME Failing # {} PROVE FALSE
  OBVIOUS
<1>2. PICK n \in Failing : \A m \in Failing : n <= m
  <2> HIDE DEF Failing
  <2>1. Failing \subseteq Nat
    BY DEF Failing
  <2> QED
    BY <1>1, <2>1, LeastNatural
<1>3. n # 0
  <2>1. Rounds([k \in 0..0 |-> <<>>], parts, 0)
    BY DEF Rounds
  <2> QED
    BY <2>1, <1>2
<1>4. n - 1 \in Nat /\ n - 1 \notin Failing
  BY <1>2, <1>3
<1>5. PICK before : Rounds(before, parts, n - 1)
  BY <1>4
<1> DEFINE ids == [k \in 0..n |-> IF k = n THEN appendUnseen(before[n - 1], parts[n])
                                           ELSE before[k]]
<1>6. Rounds(ids, parts, n)
  <2>1. ASSUME NEW k \in 0..n
        PROVE  ids[k] = IF k = 0 THEN <<>> ELSE appendUnseen(ids[k - 1], parts[k])
    <3>1. \A j \in 0 .. n - 1 : ids[j] = before[j]
      BY <1>2
    <3>2. CASE k = n
      <4>1. ids[k] = appendUnseen(before[n - 1], parts[n])
        BY <3>2
      <4>2. n - 1 \in 0 .. n - 1 /\ k # 0
        BY <1>3, <1>4, <3>2
      <4> HIDE DEF ids
      <4> QED
        BY <3>1, <3>2, <4>1, <4>2
    <3>3. CASE k # n
      <4>1. k \in 0 .. n - 1 /\ (k # 0 => k - 1 \in 0 .. n - 1)
        BY <1>2, <3>3
      <4> HIDE DEF ids
      <4> QED
        BY <1>5, <3>1, <4>1 DEF Rounds
    <3> QED
      BY <3>2, <3>3
  <2>2. ids = [k \in 0..n |-> ids[k]]
    OBVIOUS
  <2> HIDE DEF ids
  <2> QED
    BY <2>1, <2>2 DEF Rounds
<1> QED
  BY <1>2, <1>6

(* What the loop does in each of its rounds. *)
LEMMA RoundAfterRound ==
    ASSUME NEW ids, NEW parts, NEW last \in Nat, Rounds(ids, parts, last)
    PROVE  /\ ids[0] = <<>>
           /\ \A m \in 1..last : ids[m] = appendUnseen(ids[m - 1], parts[m])
<1> DEFINE f == [n \in 0..last |->
                    IF n = 0 THEN <<>> ELSE appendUnseen(ids[n - 1], parts[n])]
<1>1. ids = f
  BY DEF Rounds
<1>2. f[0] = <<>> /\ \A m \in 1..last : f[m] = appendUnseen(ids[m - 1], parts[m])
  OBVIOUS
<1> HIDE DEF f
<1> QED
  BY <1>1, <1>2

(* parseUSBIDs returns what its loop has made of all parts. *)
LEMMA ParseIsRounds ==
    ASSUME NEW parts, Len(parts) \in Nat, \A k \in DOMAIN parts : validPart(parts[k])
    PROVE  \E ids : Rounds(ids, parts, Len(parts)) /\ parseUSBIDs(parts) = ids[Len(parts)]
<1> DEFINE ids == CHOOSE g : g = [n \in 0..Len(parts) |->
                      IF n = 0 THEN <<>> ELSE appendUnseen(g[n - 1], parts[n])]
<1>1. PICK some : Rounds(some, parts, Len(parts))
  BY RoundsExist
<1>2. some = [n \in 0..Len(parts) |->
                 IF n = 0 THEN <<>> ELSE appendUnseen(some[n - 1], parts[n])]
  BY <1>1 DEF Rounds
<1>3. ids = [n \in 0..Len(parts) |->
                IF n = 0 THEN <<>> ELSE appendUnseen(ids[n - 1], parts[n])]
  BY <1>2, Zenon
<1>4. parseUSBIDs(parts) = ids[Len(parts)]
  BY Zenon DEF parseUSBIDs
<1> HIDE DEF ids
<1> QED
  BY <1>3, <1>4 DEF Rounds

Identities == [vendor: Int, product: Int]

(* The identities after n parts: each part has one, each stems from a part, *)
(* and of two the earlier was listed before every listing of the later.     *)
Kept(ids, parts, n) ==
    /\ ids \in Seq(Identities)
    /\ n > 0 => Len(ids) > 0
    /\ \A i \in 1..n : \E k \in 1..Len(ids) : ids[k] = USBID(parts[i])
    /\ \A k \in 1..Len(ids) : \E i \in 1..n : ids[k] = USBID(parts[i])
    /\ \A j, k \in 1..Len(ids) : j < k =>
           \E i \in 1..n : /\ ids[j] = USBID(parts[i])
                           /\ \A h \in 1..i : USBID(parts[h]) # ids[k]

(* One round keeps it so. *)
LEMMA RoundKeeps ==
    ASSUME NEW parts, NEW n \in Nat, NEW ids, Kept(ids, parts, n),
           USBID(parts[n + 1]) \in Identities
    PROVE  Kept(appendUnseen(ids, parts[n + 1]), parts, n + 1)
<1> DEFINE new == USBID(parts[n + 1])
<1>1. ids \in Seq(Identities) /\ Len(ids) \in Nat /\ DOMAIN ids = 1..Len(ids)
  BY DEF Kept
<1>2. \A i \in 1 .. n + 1 : i \in 1..n \/ i = n + 1
  OBVIOUS
<1>3. 1..n \subseteq 1 .. n + 1 /\ n + 1 \in 1 .. n + 1
  OBVIOUS
<1>4. CASE \E k \in DOMAIN ids : ids[k] = new
  <2>1. appendUnseen(ids, parts[n + 1]) = ids
    BY <1>4 DEF appendUnseen
  <2>2. PICK k \in 1..Len(ids) : ids[k] = new
    BY <1>1, <1>4
  <2>3. Len(ids) > 0
    BY <1>1, <2>2
  <2>4. \A i \in 1 .. n + 1 : \E j \in 1..Len(ids) : ids[j] = USBID(parts[i])
    BY <1>2, <2>2 DEF Kept
  <2>5. \A j \in 1..Len(ids) : \E i \in 1 .. n + 1 : ids[j] = USBID(parts[i])
    BY <1>3 DEF Kept
  <2>6. ASSUME NEW j \in 1..Len(ids), NEW h \in 1..Len(ids), j < h
        PROVE  \E i \in 1 .. n + 1 : /\ ids[j] = USBID(parts[i])
                                     /\ \A g \in 1..i : USBID(parts[g]) # ids[h]
    <3>1. PICK i \in 1..n : /\ ids[j] = USBID(parts[i])
                            /\ \A g \in 1..i : USBID(parts[g]) # ids[h]
      BY <2>6 DEF Kept
    <3> QED
      BY <1>3, <3>1
  <2>7. ids \in Seq(Identities) /\ (n + 1 > 0 => Len(ids) > 0)
    BY <1>1, <2>3
  <2>8. Kept(ids, parts, n + 1)
    BY <2>4, <2>5, <2>6, <2>7, Zenon DEF Kept
  <2> QED
    BY <2>1, <2>8
<1>5. CASE ~\E k \in DOMAIN ids : ids[k] = new
  <2> DEFINE longer == Append(ids, new)
  <2>1. appendUnseen(ids, parts[n + 1]) = longer
    BY <1>5 DEF appendUnseen
  <2>2. /\ longer \in Seq(Identities)
        /\ Len(longer) = Len(ids) + 1
        /\ \A k \in 1..Len(ids) : longer[k] = ids[k]
        /\ longer[Len(ids) + 1] = new
    BY <1>1
  <2> HIDE DEF longer, new
  <2>3. \A i \in 1..n : USBID(parts[i]) # new
    BY <1>1, <1>5 DEF Kept
  <2>4. ASSUME NEW i \in 1 .. n + 1
        PROVE  \E k \in 1..Len(longer) : longer[k] = USBID(parts[i])
    <3>1. CASE i \in 1..n
      <4>1. PICK k \in 1..Len(ids) : ids[k] = USBID(parts[i])
        BY <3>1 DEF Kept
      <4> QED
        BY <1>1, <2>2, <4>1
    <3>2. CASE i = n + 1
      BY <1>1, <2>2, <3>2 DEF new
    <3> QED
      BY <1>2, <3>1, <3>2
  <2>5. ASSUME NEW k \in 1..Len(longer)
        PROVE  \E i \in 1 .. n + 1 : longer[k] = USBID(parts[i])
    <3>1. CASE k \in 1..Len(ids)
      <4>1. PICK i \in 1..n : ids[k] = USBID(parts[i])
        BY <3>1 DEF Kept
      <4> QED
        BY <1>3, <2>2, <3>1, <4>1
    <3>2. CASE k = Len(ids) + 1
      BY <1>3, <2>2, <3>2 DEF new
    <3> QED
      BY <1>1, <2>2, <3>1, <3>2
  <2>6. ASSUME NEW j \in 1..Len(longer), NEW k \in 1..Len(longer), j < k
        PROVE  \E i \in 1 .. n + 1 : /\ longer[j] = USBID(parts[i])
                                     /\ \A h \in 1..i : USBID(parts[h]) # longer[k]
    <3>1. j \in 1..Len(ids) /\ longer[j] = ids[j]
      BY <1>1, <2>2, <2>6
    <3>2. CASE k \in 1..Len(ids)
      <4>1. PICK i \in 1..n : /\ ids[j] = USBID(parts[i])
                              /\ \A h \in 1..i : USBID(parts[h]) # ids[k]
        BY <2>6, <3>1, <3>2 DEF Kept
      <4> QED
        BY <1>3, <2>2, <3>1, <3>2, <4>1
    <3>3. CASE k = Len(ids) + 1
      <4>1. PICK i \in 1..n : ids[j] = USBID(parts[i])
        BY <3>1 DEF Kept
      <4>2. \A h \in 1..i : h \in 1..n
        BY <4>1
      <4> QED
        BY <1>3, <2>2, <2>3, <3>1, <3>3, <4>1, <4>2
    <3> QED
      BY <1>1, <2>2, <3>2, <3>3
  <2>7. Len(longer) > 0
    BY <1>1, <2>2
  <2> QED
    BY <2>1, <2>2, <2>4, <2>5, <2>6, <2>7 DEF Kept
<1> QED
  BY <1>4, <1>5

(* A part that ParseUint accepts twice is an identity. *)
LEMMA PartIsIdentity ==
    ASSUME NEW part, validPart(part)
    PROVE  /\ USBID(part) = [vendor |-> part[1], product |-> part[2]]
           /\ USBID(part) \in Identities
<1>1. part[1] \in 0 .. 2^16 - 1 /\ part[2] \in 0 .. 2^16 - 1
  BY DEF validPart, ParseUint, NotANumber
<1>2. 2^16 \in Nat
  OBVIOUS
<1> QED
  BY <1>1, <1>2 DEF USBID, ParseUint, Identities

(* What parseUSBIDs makes of a list of valid parts. *)
LEMMA ParseKeeps ==
    ASSUME NEW parts \in Seq(Seq(Int)), \A k \in DOMAIN parts : validPart(parts[k])
    PROVE  Kept(parseUSBIDs(parts), parts, Len(parts))
<1>1. Len(parts) \in Nat /\ DOMAIN parts = 1..Len(parts)
  OBVIOUS
<1>2. PICK ids : Rounds(ids, parts, Len(parts)) /\ parseUSBIDs(parts) = ids[Len(parts)]
  BY <1>1, ParseIsRounds
<1> DEFINE Failing == {n \in 0..Len(parts) : ~Kept(ids[n], parts, n)}
<1>3. SUFFICES ASSUME Failing # {} PROVE FALSE
  <2>1. Len(parts) \in 0..Len(parts)
    BY <1>1
  <2> QED
    BY <1>2, <2>1
<1>4. PICK n \in Failing : \A m \in Failing : n <= m
  <2> HIDE DEF Failing
  <2>1. Failing \subseteq Nat
    BY DEF Failing
  <2> QED
    BY <1>3, <2>1, LeastNatural
<1>5. ids[0] = <<>> /\ \A m \in 1..Len(parts) : ids[m] = appendUnseen(ids[m - 1], parts[m])
  BY <1>1, <1>2, RoundAfterRound
<1>6. n # 0
  <2>1. Kept(<<>>, parts, 0)
    BY DEF Kept
  <2> QED
    BY <1>4, <1>5, <2>1
<1>7. n - 1 \in Nat /\ n - 1 \in 0..Len(parts) /\ n - 1 \notin Failing /\ n \in 1..Len(parts)
  BY <1>1, <1>4, <1>6
<1>8. Kept(ids[n - 1], parts, n - 1)
  BY <1>7
<1> HIDE DEF Failing
<1>9. validPart(parts[n]) /\ (n - 1) + 1 = n
  <2>1. validPart(parts[n])
    BY <1>1, <1>7, Zenon
  <2>2. (n - 1) + 1 = n
    BY <1>7
  <2> QED
    BY <2>1, <2>2
<1>10. Kept(appendUnseen(ids[n - 1], parts[n]), parts, n)
  BY <1>7, <1>8, <1>9, PartIsIdentity, RoundKeeps
<1> QED
  BY <1>4, <1>5, <1>7, <1>10 DEF Failing

-----------------------------------------------------------------------------
(* From the command line to the server *)

Constructors == {"NewCh341", "NewDriver", "NewHandler"}

(* After Parse the configuration is that of an accepted command line, and   *)
(* only Parse and the usage message end the process.                        *)
StartInv ==
    /\ args \in CommandLines
    /\ pc \in {"parse", "serving", "exited"} \cup Constructors
    /\ pc \in {"serving"} \cup Constructors => Accepted(args) /\ cfg = Config(args)
    /\ pc = "exited" => code # 1

(* What is accepted has the widths that the constructors ask for. *)
LEMMA AcceptedIsValid ==
    ASSUME NEW a \in CommandLines, Accepted(a)
    PROVE  /\ Config(a).usbIDs # <<>>
           /\ command(Config(a).speed) # 0
           /\ Config(a).i2cAddress <= \h7f
           /\ Config(a).i2cAddress = a.i2cAddress
<1>1. a.i2cAddress \in 0 .. 2^7 - 1 /\ 2^7 = 128
  BY DEF Accepted, ParseUint, NotANumber, i2cAddressBits
<1>2. Config(a).i2cAddress = a.i2cAddress % 256
  BY <1>1 DEF Config, ParseUint, uint8, i2cAddressBits
<1>3. \A n \in 0..127 : n % 256 = n
  BY Z3
<1>4. command(Config(a).speed) # 0
  BY DEF Accepted, Config, command, validSpeed
<1>5. Config(a).usbIDs # <<>>
  BY DEF Accepted, Config
<1> QED
  BY <1>1, <1>2, <1>3, <1>4, <1>5

(* The invariant holds at every step. *)
LEMMA Started == Spec => []StartInv
<1>1. Init => StartInv
  BY DEF Init, StartInv, Constructors
<1>2. StartInv /\ [Next]_vars => StartInv'
  <2> SUFFICES ASSUME StartInv, [Next]_vars
               PROVE  StartInv'
    OBVIOUS
  <2>1. CASE PrintAndExit
    BY <2>1 DEF PrintAndExit, Exit, StartInv, Constructors
  <2>2. CASE RejectArguments
    BY <2>2 DEF RejectArguments, Exit, StartInv, Constructors
  <2>3. CASE Parse
    BY <2>3 DEF Parse, StartInv, Constructors
  <2>4. CASE NewCh341
    BY <2>4, AcceptedIsValid DEF NewCh341, Constructor, Exit, StartInv, Constructors
  <2>5. CASE NewDriver
    BY <2>5, AcceptedIsValid DEF NewDriver, Constructor, Exit, StartInv, Constructors
  <2>6. CASE NewHandler
    BY <2>6 DEF NewHandler, Constructor, Exit, StartInv, Constructors
  <2>7. CASE UNCHANGED vars
    BY <2>7 DEF vars, StartInv
  <2> QED
    BY <2>1, <2>2, <2>3, <2>4, <2>5, <2>6, <2>7 DEF Next
<1> QED
  BY <1>1, <1>2, PTL DEF Spec

(* No constructor finds fault with a command line that Parse accepted, and  *)
(* the ring that run makes has room for an entry.                           *)
THEOREM AcceptedCommandLinesStart == Spec => []AcceptedStarts
<1>1. StartInv => AcceptedStarts
  BY DEF StartInv, AcceptedStarts, Config, defaultRecentEntries, Constructors
<1> QED
  BY <1>1, Started, PTL

IsFirst(i, id, listed) == listed[i] = id /\ \A j \in 1 .. i - 1 : listed[j] # id

(* Of two sequences with the same values, where of two values of one the    *)
(* earlier comes in the other before the later comes there first.           *)
LEMMA OrderOfFirst ==
    ASSUME NEW n \in Nat, NEW m \in Nat, NEW listed, NEW tried,
           DOMAIN listed = 1..n, DOMAIN tried = 1..m,
           \A i \in 1..n : \E k \in 1..m : tried[k] = listed[i],
           \A k \in 1..m : \E i \in 1..n : tried[k] = listed[i],
           \A j, k \in 1..m : j < k =>
               \E i \in 1..n : tried[j] = listed[i] /\ \A h \in 1..i : listed[h] # tried[k]
    PROVE  /\ Range(tried) = Range(listed)
           /\ \A k \in 1..m : \E i \in 1..n : IsFirst(i, tried[k], listed)
           /\ \A j, k \in 1..m, a, b \in 1..n :
                  j < k /\ IsFirst(a, tried[j], listed) /\ IsFirst(b, tried[k], listed) => a < b
<1>1. Range(tried) = Range(listed)
  <2>1. /\ \A x : x \in Range(tried) <=> \E k \in 1..m : tried[k] = x
        /\ \A x : x \in Range(listed) <=> \E i \in 1..n : listed[i] = x
    BY DEF Range
  <2>2. \A x : x \in Range(tried) <=> x \in Range(listed)
    BY <2>1, Zenon
  <2> QED
    BY <2>2
<1>2. ASSUME NEW k \in 1..m
      PROVE  \E i \in 1..n : IsFirst(i, tried[k], listed)
  <2> DEFINE T == {i \in 1..n : listed[i] = tried[k]}
  <2>1. PICK h \in 1..n : tried[k] = listed[h]
    OBVIOUS
  <2>2. h \in T /\ T \subseteq Nat
    BY <2>1
  <2>3. PICK i \in T : \A g \in T : i <= g
    <3> HIDE DEF T
    <3>1. T # {}
      BY <2>2
    <3> QED
      BY <2>2, <3>1, LeastNatural
  <2>4. i \in 1..n /\ listed[i] = tried[k]
    BY <2>3
  <2>5. \A g \in 1 .. i - 1 : g \in 1..n /\ ~(i <= g)
    BY <2>4
  <2>6. \A g \in 1 .. i - 1 : listed[g] # tried[k]
    BY <2>3, <2>5
  <2> QED
    BY <2>4, <2>6 DEF IsFirst
<1>3. ASSUME NEW j \in 1..m, NEW k \in 1..m, j < k, NEW a \in 1..n, NEW b \in 1..n,
             IsFirst(a, tried[j], listed), IsFirst(b, tried[k], listed)
      PROVE  a < b
  <2>1. PICK i \in 1..n : tried[j] = listed[i] /\ \A h \in 1..i : listed[h] # tried[k]
    BY <1>3
  <2>2. i \notin 1 .. a - 1
    BY <1>3, <2>1 DEF IsFirst
  <2>3. b \notin 1..i
    BY <1>3, <2>1 DEF IsFirst
  <2> QED
    BY <2>2, <2>3
<1> QED
  BY <1>1, <1>2, <1>3

(* The identities that are tried, against those that are listed. *)
LEMMA TriedAsListed ==
    ASSUME NEW parts \in Seq(Seq(Int)), \A k \in DOMAIN parts : validPart(parts[k]),
           NEW ids, Kept(ids, parts, Len(parts)), NEW i \in 1..Len(parts), NEW k \in 1..Len(ids)
    PROVE  ids[k] = USBID(parts[i])
               <=> <<ids[k].vendor, ids[k].product>> = <<parts[i][1], parts[i][2]>>
<1>1. ids[k] \in Identities
  BY DEF Kept
<1>2. validPart(parts[i])
  BY DOMAIN parts = 1..Len(parts), Zenon
<1>3. USBID(parts[i]) = [vendor |-> parts[i][1], product |-> parts[i][2]]
  BY <1>2, PartIsIdentity
<1>4. ids[k] = [vendor |-> ids[k].vendor, product |-> ids[k].product]
  BY <1>1 DEF Identities
<1>5. \A u, v, x, y : <<u, v>> = <<x, y>> <=> u = x /\ v = y
  OBVIOUS
<1>6. \A u, v, x, y : [vendor |-> u, product |-> v] = [vendor |-> x, product |-> y]
                          <=> u = x /\ v = y
  OBVIOUS
<1> DEFINE v == ids[k].vendor
           p == ids[k].product
<1>7. ids[k] = [vendor |-> v, product |-> p]
  BY <1>4
<1> HIDE DEF v, p
<1>8. ids[k] = USBID(parts[i]) <=> v = parts[i][1] /\ p = parts[i][2]
  BY <1>3, <1>6, <1>7
<1>9. <<v, p>> = <<parts[i][1], parts[i][2]>> <=> v = parts[i][1] /\ p = parts[i][2]
  BY <1>5
<1> QED
  BY <1>8, <1>9 DEF v, p

(* The server runs with the numbers that were written, and tries each       *)
(* identity once in the order of first listing.                             *)
THEOREM ServedAsWritten == Spec => []ServesAsWritten
<1>1. ASSUME StartInv, pc = "serving"
      PROVE  ServesAsWritten
  <2>1. args \in CommandLines /\ Accepted(args) /\ cfg = Config(args)
    BY <1>1 DEF StartInv
  <2>2. args.usbIDs \in Seq(Seq(Int))
    BY <2>1, CommandLinesAssumption
  <2>3. \A k \in DOMAIN args.usbIDs : validPart(args.usbIDs[k])
    BY <2>1, Zenon DEF Accepted, parseUSBIDs
  <2>4. cfg.usbIDs = parseUSBIDs(args.usbIDs) /\ cfg.speed = args.speed
    BY <2>1 DEF Config
  <2>5. Kept(cfg.usbIDs, args.usbIDs, Len(args.usbIDs))
    BY <2>2, <2>3, <2>4, ParseKeeps
  <2>6. cfg.i2cAddress = args.i2cAddress
    BY <2>1, AcceptedIsValid
  <2> DEFINE listed == [i \in DOMAIN args.usbIDs |->
                           <<args.usbIDs[i][1], args.usbIDs[i][2]>>]
             tried == [k \in DOMAIN cfg.usbIDs |->
                           <<cfg.usbIDs[k].vendor, cfg.usbIDs[k].product>>]
  <2> DEFINE n == Len(args.usbIDs)
             m == Len(cfg.usbIDs)
  <2>7. /\ n \in Nat /\ m \in Nat
        /\ DOMAIN args.usbIDs = 1..n /\ DOMAIN cfg.usbIDs = 1..m
    BY <2>2, <2>5 DEF Kept
  <2>8. /\ DOMAIN listed = 1..n /\ DOMAIN tried = 1..m
        /\ \A i \in 1..n : listed[i] = <<args.usbIDs[i][1], args.usbIDs[i][2]>>
        /\ \A k \in 1..m : tried[k] = <<cfg.usbIDs[k].vendor, cfg.usbIDs[k].product>>
    BY <2>7
  <2> HIDE DEF listed, tried, n, m
  <2>9. ASSUME NEW i \in 1..n, NEW k \in 1..m
        PROVE  cfg.usbIDs[k] = USBID(args.usbIDs[i]) <=> tried[k] = listed[i]
    <3>1. cfg.usbIDs[k] = USBID(args.usbIDs[i])
              <=> <<cfg.usbIDs[k].vendor, cfg.usbIDs[k].product>>
                      = <<args.usbIDs[i][1], args.usbIDs[i][2]>>
      BY <2>2, <2>3, <2>5, TriedAsListed DEF n, m
    <3>2. /\ listed[i] = <<args.usbIDs[i][1], args.usbIDs[i][2]>>
          /\ tried[k] = <<cfg.usbIDs[k].vendor, cfg.usbIDs[k].product>>
      BY <2>8
    <3> QED
      BY <3>1, <3>2, Zenon
  <2>10. /\ \A i \in 1..n : \E k \in 1..m : tried[k] = listed[i]
         /\ \A k \in 1..m : \E i \in 1..n : tried[k] = listed[i]
    BY <2>5, <2>9 DEF Kept, n, m
  <2>11. ASSUME NEW j \in 1..m, NEW k \in 1..m, j < k
         PROVE  \E i \in 1..n : tried[j] = listed[i]
                                /\ \A h \in 1..i : listed[h] # tried[k]
    <3>1. PICK i \in 1..n : /\ cfg.usbIDs[j] = USBID(args.usbIDs[i])
                            /\ \A h \in 1..i : USBID(args.usbIDs[h]) # cfg.usbIDs[k]
      BY <2>5, <2>11 DEF Kept, n, m
    <3>2. \A h \in 1..i : h \in 1..n
      BY <2>7, <3>1
    <3> QED
      BY <2>9, <3>1, <3>2
  <2>12. /\ Range(tried) = Range(listed)
         /\ \A k \in 1..m : \E i \in 1..n : IsFirst(i, tried[k], listed)
         /\ \A j, k \in 1..m, a, b \in 1..n :
                j < k /\ IsFirst(a, tried[j], listed) /\ IsFirst(b, tried[k], listed) => a < b
    BY <2>7, <2>8, <2>10, <2>11, OrderOfFirst
  <2> DEFINE first(id) == CHOOSE i \in DOMAIN listed :
                              listed[i] = id /\ \A j \in 1 .. i - 1 : listed[j] # id
  <2>13. ASSUME NEW k \in DOMAIN tried
         PROVE  first(tried[k]) \in 1..n /\ IsFirst(first(tried[k]), tried[k], listed)
    <3>1. PICK i \in DOMAIN listed :
              listed[i] = tried[k] /\ \A j \in 1 .. i - 1 : listed[j] # tried[k]
      BY <2>8, <2>12 DEF IsFirst
    <3>2. /\ first(tried[k]) \in DOMAIN listed
          /\ IsFirst(first(tried[k]), tried[k], listed)
      BY <3>1, Zenon DEF IsFirst
    <3> HIDE DEF first
    <3> QED
      BY <2>8, <3>2
  <2>14. ASSUME NEW j \in DOMAIN tried, NEW k \in DOMAIN tried, j < k
         PROVE  first(tried[j]) < first(tried[k])
    <3> HIDE DEF first
    <3> QED
      BY <2>8, <2>12, <2>13, <2>14
  <2> QED
    BY <2>4, <2>6, <2>12, <2>14, Zenon DEF ServesAsWritten, listed, tried
<1>2. StartInv => ServesAsWritten
  BY <1>1 DEF ServesAsWritten
<1> QED
  BY <1>2, Started, PTL

=============================================================================
