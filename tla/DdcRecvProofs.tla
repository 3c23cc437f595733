---------------------------- MODULE DdcRecvProofs ---------------------------
(***************************************************************************)
(* Proofs about DdcRecv for every fifo size, every sequence of frames and    *)
(* every loss: the fifo keeps its bytes, the receiver its bounds, a whole    *)
(* frame is handed over, and what is handed over is the link of LossyLink.  *)
(***************************************************************************)
EXTENDS DdcRecv, FiniteSetTheorems, NaturalsInduction, SequenceTheorems, TLAPS

-----------------------------------------------------------------------------
(* The byte fifo under the interrupt: what waits are bytes of the line, and  *)
(* the byte that a get has copied is the first of them, until more wait     *)
(* than the mask keeps apart.                                               *)
Triple == Nat \X Nat \X Nat
Place(b) == <<b[1], b[2]>>
OfLine(b) == /\ b[1] \in DOMAIN Frames /\ b[2] \in 1 .. Len(Wire[b[1]])
             /\ b[3] \in 0 .. MaxLost

Now == <<line[1], line[2], lost>>

LineType == /\ line \in (1 .. Len(Frames) + 1) \X Nat
            /\ Arriving => line[2] \in 1 .. Len(Wire[line[1]])
            /\ ~Arriving => line[2] = 1

FifoType == /\ lost \in 0 .. MaxLost
            /\ size \in Sizes /\ in \in Word /\ out \in Word
            /\ Held(in, out) <= size /\ Len(unread) = Held(in, out)
            /\ cell \in [0 .. size - 1 -> Byte] /\ ch \in Byte
            /\ pc \in {"test", "copy", "parse"} /\ crowded \in BOOLEAN
            /\ unread \in Seq(Triple)
            /\ \A i \in 1 .. Len(unread) : OfLine(unread[i])

Fetched == /\ pc # "test" => unread # <<>>
           /\ ~crowded => Len(unread) <= Apart(size)
           /\ pc = "parse" /\ ~crowded => ch = Value(unread[1])

FifoInv == LineType /\ FifoType /\ FreshBytesKept /\ Fetched

(* The receiver: how much of a frame it has, by state and counter.           *)
Stored ==
  /\ state \in {"head", "ch", "ack"} => counter = 0
  /\ state = "id"  => counter \in {0, 1} /\ Len(got) = counter
  /\ state = "ch"  => Len(got) = 2
  /\ state = "ack" => Len(got) = 3
  /\ state = "len" => counter \in {0, 1} /\ Len(got) = 4 + counter
  /\ state = "payload" =>
       /\ Len(got) >= 6 /\ PayloadLen <= MaxPayload
       /\ PayloadLen # 0 => counter < PayloadLen /\ Len(got) = 6 + counter
  /\ state = "crc" =>
       /\ counter \in {0, 1}
       /\ Len(got) >= 6 + counter /\ PayloadLen <= MaxPayload
       /\ PayloadLen # 0 => Len(got) = 6 + PayloadLen + counter

ParserType ==
  /\ state \in {"head", "id", "ch", "ack", "len", "payload", "crc"}
  /\ head \in Byte \X Byte /\ counter \in 0 .. CounterMod - 1
  /\ got \in Seq(Byte)

ParserInv == ParserType /\ Stored

(* Where the receiver stands when it has read the first i bytes of f.        *)
Same(f, n) == \A j \in 1 .. n : got[j] = Wire[f][j + 2]
Stands(f, i) ==
  LET n == Len(Frames[f].payload) IN
  /\ i = 1 => state = "head" /\ head[2] = H0
  /\ i \in 2 .. 9 + n => Len(got) = i - 2 /\ Same(f, i - 2)
  /\ i \in {2, 3} => state = "id" /\ counter = i - 2
  /\ i = 4 => state = "ch" /\ counter = 0
  /\ i = 5 => state = "ack" /\ counter = 0
  /\ i \in {6, 7} => state = "len" /\ counter = i - 6
  /\ i \in 8 .. 7 + n => state = "payload" /\ counter = i - 8
  /\ i \in 8 + n .. 9 + n => state = "crc" /\ counter = i - 8 - n
Tracked ==
  ~crowded => \A f \in DOMAIN Frames :
    whole[1] = f /\ whole[2] \in 1 .. Len(Wire[f]) /\ Frames[f].payload # <<>>
      => Stands(f, whole[2])

(* What is read is in the order of the line, and no more is lost between two *)
(* bytes than lost says.                                                    *)
Later(a, b) == /\ Behind(a, b) /\ a[3] + Between(a, b) <= b[3]
NextByte == IF unread = <<>> THEN Now ELSE unread[1]
InOrder ==
  /\ \A i \in 1 .. Len(unread) - 1 : Later(unread[i], unread[i + 1])
  /\ unread # <<>> => Later(unread[Len(unread)], Now)
  /\ latest[1] # 0 => Later(latest, NextByte)

(* A frame is under way: its first byte stored, and the last one read.       *)
UnderWay == state # "head" /\ got # <<>>
Begun ==
  /\ latest \in Triple /\ (latest[1] # 0 => OfLine(latest))
  /\ UnderWay => /\ began \in Triple /\ OfLine(began) /\ latest[1] # 0
                 /\ began = latest \/ Behind(began, latest)
                 /\ began[3] <= latest[3]

Newer == 
  /\ calm \in Seq(DOMAIN Frames) /\ (~crowded => calm = delivered)
  /\ calm # <<>> => 
       /\ latest[1] # 0 /\ Behind(<<calm[Len(calm)], 3>>, latest)
       /\ UnderWay => Behind(<<calm[Len(calm)], 3>>, began)

(* The frames that have begun to be sent: no other byte is read. *)
Sent == IF line[2] = 1 THEN line[1] - 1 ELSE line[1]
Passed == /\ latest[1] <= Sent
          /\ \A i \in 1 .. Len(unread) : unread[i][1] <= Sent

OrderInv == InOrder /\ Begun /\ Newer /\ Passed

(* What reads like the beginning of f is that of f, or stands elsewhere.     *)
Own(f) == Place(began) = <<f, 3>>
Here(E, f, i) ==
  Own(f) \/ <<f, i, Place(latest), latest[3] - began[3]>> \in E
Skipped(E, f) ==
  Own(f) \/ \E p \in Places, m \in 0 .. MaxLost :
              /\ <<f, 8, p, m>> \in E
              /\ p = Place(latest) \/ Behind(p, latest)
              /\ m <= latest[3] - began[3]
LastCrc == state = "crc" /\ counter = 1
HasHead(f)   == Len(got) >= 6 /\ Same(f, 6)
HasPrefix(f) == /\ state \in {"payload", "crc"} => Frames[f].payload # <<>>
                /\ Len(got) + 2 <= Len(Wire[f]) /\ Same(f, Len(got))
Spelt(E) ==
  ~crowded /\ UnderWay => \A f \in DOMAIN Frames :
    /\ HasPrefix(f) => Here(E, f, Len(got) + 2)
    /\ Frames[f].payload = <<>> /\ HasHead(f)
         => IF LastCrc THEN got[Len(got)] = Wire[f][9] => Here(E, f, 9)
                       ELSE Skipped(E, f)

-----------------------------------------------------------------------------
(* Numbers and their bits. *)
(* Induction over the numbers, for a set of them. *)
LEMMA Induct ==
  ASSUME NEW S, 0 \in S, \A n \in Nat : n \in S => n + 1 \in S
  PROVE  \A n \in Nat : n \in S
<1> DEFINE T == Nat \ S
           R == OpToRel(<, Nat)
<1>1. ASSUME T # {} PROVE FALSE
  <2>1. IsWellFoundedOn(R, Nat)
    BY NatLessThanWellFounded
  <2>2. PICK x \in T : \A y \in T : ~(<<y, x>> \in R)
    <3> HIDE DEF R
    <3> QED BY <1>1, <2>1, WFMin
  <2>3. x - 1 \in Nat /\ x - 1 + 1 = x /\ x \in Nat
    <3>1. x \in Nat /\ x # 0
      BY <2>2
    <3> HIDE DEF T
    <3> QED BY <3>1
  <2>4. x - 1 \in T
    BY <2>2, <2>3
  <2>5. <<x - 1, x>> \in R
    BY <2>3 DEF OpToRel
  <2> QED BY <2>2, <2>4, <2>5
<1> QED
  BY <1>1

(* Powers of two, as the numbers of the sets of bits. *)
LEMMA PowerCounts ==
  ASSUME NEW n \in Nat
  PROVE  /\ IsFiniteSet(SUBSET (1 .. n)) /\ Cardinality(SUBSET (1 .. n)) = 2 ^ n
         /\ 2 ^ n \in Nat \ {0}
<1>1. IsFiniteSet(1 .. n) /\ Cardinality(1 .. n) = n
  BY FS_Interval
<1>2. IsFiniteSet(SUBSET (1 .. n)) /\ Cardinality(SUBSET (1 .. n)) = 2 ^ n
  BY <1>1, FS_SUBSET
<1>3. 2 ^ n \in Nat
  BY <1>2, FS_CardinalityType
<1>4. 2 ^ n # 0
  <2>1. {} \in SUBSET (1 .. n)
    OBVIOUS
  <2> QED BY <2>1, <1>2, FS_EmptySet
<1> QED
  BY <1>2, <1>3, <1>4

LEMMA PowerDoubles ==
  ASSUME NEW n \in Nat
  PROVE  2 ^ (n + 1) = 2 * 2 ^ n
<1> DEFINE A == SUBSET (1 .. n)
           B == {X \cup {n + 1} : X \in A}
           f == [X \in A |-> X \cup {n + 1}]
<1>1. IsFiniteSet(A) /\ Cardinality(A) = 2 ^ n /\ 2 ^ n \in Nat
  BY PowerCounts
<1>2. f \in Bijection(A, B)
  <2>1. f \in [A -> B]
    OBVIOUS
  <2>2. \A X, Y \in A : f[X] = f[Y] => X = Y
    <3> SUFFICES ASSUME NEW X \in A, NEW Y \in A, f[X] = f[Y]
                 PROVE  X = Y
      OBVIOUS
    <3>1. X \cup {n + 1} = Y \cup {n + 1}
      OBVIOUS
    <3>2. n + 1 \notin X /\ n + 1 \notin Y
      OBVIOUS
    <3> QED BY <3>1, <3>2
  <2>3. \A Z \in B : \E X \in A : f[X] = Z
    OBVIOUS
  <2> QED BY <2>1, <2>2, <2>3 DEF Bijection, Injection, Surjection, IsInjective
<1>3. IsFiniteSet(B) /\ Cardinality(B) = 2 ^ n
  BY <1>1, <1>2, FS_Bijection DEF ExistsBijection
<1>4. A \cap B = {}
  <2>1. \A X \in A : n + 1 \notin X
    OBVIOUS
  <2> QED BY <2>1
<1>5. A \cup B = SUBSET (1 .. n + 1)
  <2>1. \A X \in A : X \cup {n + 1} \in SUBSET (1 .. n + 1)
    OBVIOUS
  <2>2. \A X \in SUBSET (1 .. n + 1) : n + 1 \notin X => X \in A
    OBVIOUS
  <2>3. ASSUME NEW X \in SUBSET (1 .. n + 1), n + 1 \in X PROVE X \in B
    <3>1. X \ {n + 1} \in A /\ X = (X \ {n + 1}) \cup {n + 1}
      BY <2>3
    <3> QED BY <3>1
  <2>4. A \subseteq SUBSET (1 .. n + 1)
    OBVIOUS
  <2>5. B \subseteq SUBSET (1 .. n + 1)
    BY <2>1
  <2>6. ASSUME NEW X \in SUBSET (1 .. n + 1) PROVE X \in A \cup B
    BY <2>2, <2>3
  <2> HIDE DEF A, B
  <2> QED BY <2>4, <2>5, <2>6
<1>6. Cardinality(A \cup B) = 2 ^ n + 2 ^ n
  <2>1. Cardinality(A \cap B) = 0
    BY <1>4, FS_EmptySet
  <2> HIDE DEF A, B
  <2> QED BY <1>1, <1>3, <2>1, FS_Union
<1>7. Cardinality(SUBSET (1 .. n + 1)) = 2 ^ (n + 1)
  BY PowerCounts
<1>8. 2 ^ (n + 1) = 2 ^ n + 2 ^ n
  <2> HIDE DEF A, B
  <2> QED BY <1>5, <1>6, <1>7
<1> DEFINE p == 2 ^ n
<1>9. p + p = 2 * p
  <2>1. p \in Nat
    BY <1>1
  <2> HIDE DEF p
  <2> QED BY <2>1
<1> QED
  BY <1>8, <1>9
LEMMA Power == ASSUME NEW n \in Nat PROVE 2 ^ n \in Nat \ {0}
  BY PowerCounts

-----------------------------------------------------------------------------
(* What a division leaves. *)
LEMMA Division ==
  ASSUME NEW x \in Int, NEW s \in Nat \ {0}, NEW q \in Int,
         NEW r \in 0..s - 1, x = q * s + r
  PROVE  x \div s = q /\ x % s = r
<1>1. x \div s \in Int /\ x % s \in 0..s - 1 /\ x = (x \div s) * s + (x % s)
  BY Z3
<1> DEFINE d == x \div s
           m == x % s
<1>2. d \in Int /\ m \in 0..s - 1 /\ d * s + m = q * s + r
  BY <1>1
<1> HIDE DEF d, m
<1>3. ASSUME d >= q + 1 PROVE FALSE
  <2>1. d * s >= q * s + s /\ d * s \in Int /\ q * s \in Int
    BY <1>2, <1>3, Z3
  <2> QED BY <2>1, <1>2
<1>4. ASSUME d <= q - 1 PROVE FALSE
  <2>1. d * s <= q * s - s /\ d * s \in Int /\ q * s \in Int
    BY <1>2, <1>4, Z3
  <2> QED BY <2>1, <1>2
<1>5. d = q
  BY <1>2, <1>3, <1>4
<1>6. m = r
  <2>1. q * s \in Int
    BY Z3
  <2> QED BY <2>1, <1>2, <1>5
<1> QED
  BY <1>5, <1>6 DEF d, m

LEMMA Divides ==
  ASSUME NEW x \in Int, NEW s \in Nat \ {0}
  PROVE  /\ x \div s \in Int /\ x % s \in 0 .. s - 1
         /\ x = (x \div s) * s + (x % s)
         /\ x \in Nat => x \div s \in Nat
<1>1. x \div s \in Int /\ x % s \in 0..s - 1 /\ x = (x \div s) * s + (x % s)
  BY Z3
<1> DEFINE d == x \div s
<1>2. ASSUME x \in Nat, d <= -1 PROVE FALSE
  <2>1. d * s <= -s /\ d * s \in Int
    BY <1>1, <1>2, Z3
  <2> HIDE DEF d
  <2> QED BY <2>1, <1>1, <1>2 DEF d
<1> QED
  BY <1>1, <1>2

(* One digit more. *)
LEMMA Digit ==
  ASSUME NEW x \in Nat, NEW p \in Nat \ {0}
  PROVE  /\ (x \div p) % 2 \in {0, 1}
         /\ x % (2 * p) = (x % p) + (IF (x \div p) % 2 = 1 THEN p ELSE 0)
<1> DEFINE q == x \div p
           r == x % p
           h == q \div 2
           b == q % 2
<1>1. q \in Int /\ r \in 0 .. p - 1 /\ x = q * p + r
  BY Divides
<1>2. h \in Int /\ b \in 0 .. 1 /\ q = h * 2 + b
  <2> HIDE DEF q
  <2> QED BY <1>1, Divides
<1>3. 2 * p \in Nat \ {0}
  OBVIOUS
<1> HIDE DEF q, r, h, b
<1>4. CASE b = 0
  <2>1. x = h * (2 * p) + r /\ r \in 0 .. 2 * p - 1
    BY <1>1, <1>2, <1>4, Z3
  <2>2. x % (2 * p) = r
    <3> DEFINE pp == 2 * p
    <3> HIDE DEF pp
    <3>1. x = h * pp + r /\ r \in 0 .. pp - 1 /\ pp \in Nat \ {0}
      BY <2>1, <1>3 DEF pp
    <3>2. x % pp = r
      <4>1. x \in Int /\ h \in Int
        BY <1>2
      <4> QED BY <3>1, <4>1, Division
    <3> QED BY <3>2 DEF pp
  <2> QED BY <2>2, <1>1, <1>4 DEF q, r, b
<1>5. CASE b = 1
  <2>1. x = h * (2 * p) + (p + r) /\ p + r \in 0 .. 2 * p - 1
    BY <1>1, <1>2, <1>5, Z3
  <2>2. x % (2 * p) = p + r
    <3> DEFINE pp == 2 * p
    <3> HIDE DEF pp
    <3>1. x = h * pp + (p + r) /\ p + r \in 0 .. pp - 1 /\ pp \in Nat \ {0}
      BY <2>1, <1>3 DEF pp
    <3>2. x % pp = p + r
      <4>1. x \in Int /\ h \in Int
        BY <1>2
      <4> DEFINE rr == p + r
      <4>2. x = h * pp + rr /\ rr \in 0 .. pp - 1
        BY <3>1
      <4> HIDE DEF rr
      <4>3. x % pp = rr
        BY <3>1, <4>1, <4>2, Division
      <4> QED BY <4>3 DEF rr
    <3> QED BY <3>2 DEF pp
  <2> QED BY <2>2, <1>1, <1>5 DEF q, r, b
<1> QED
  BY <1>2, <1>4, <1>5 DEF q, b

-----------------------------------------------------------------------------
(* Words and their bits. *)
WordMod == 2 ^ Bits

LEMMA Widths ==
  /\ Bits \in Nat /\ WordMod \in Nat \ {0} /\ Word = 0 .. WordMod - 1
  /\ Sizes \subseteq 1 .. WordMod - 1
  BY SizeAssumption, Power DEF WordMod, Word

(* Fewer ones, a smaller number: of all the bits, and of the lowest k.       *)
LEMMA FewerOnes ==
  ASSUME NEW y \in Word, NEW z \in Word
  PROVE  \A k \in Nat : k <= Bits /\ OnesOf[z] \cap (0 .. k - 1) \subseteq OnesOf[y]
                          => z % 2 ^ k <= y % 2 ^ k
<1> DEFINE S == {k \in Nat : k <= Bits
                     /\ OnesOf[z] \cap (0 .. k - 1) \subseteq OnesOf[y]
                       => z % 2 ^ k <= y % 2 ^ k}
<1>1. y \in Nat /\ z \in Nat /\ Bits \in Nat
  BY Widths
<1>2. 0 \in S
  <2>1. 2 ^ 0 = 1
    OBVIOUS
  <2>2. z % 1 = 0 /\ y % 1 = 0
    BY <1>1
  <2> QED BY <2>1, <2>2
<1>3. ASSUME NEW k \in Nat, k \in S PROVE k + 1 \in S
  <2> SUFFICES ASSUME k + 1 <= Bits,
                      OnesOf[z] \cap (0 .. (k + 1) - 1) \subseteq OnesOf[y]
               PROVE  z % 2 ^ (k + 1) <= y % 2 ^ (k + 1)
    OBVIOUS
  <2> DEFINE p == 2 ^ k
  <2>1. p \in Nat \ {0} /\ 2 ^ (k + 1) = 2 * p
    BY Power, PowerDoubles
  <2>2. z % p <= y % p
    BY <1>1, <1>3
  <2>3. (z \div p) % 2 = 1 => (y \div p) % 2 = 1
    <3>1. k \in 0 .. Bits - 1
      BY <1>1
    <3>2. (z \div p) % 2 = 1 <=> k \in OnesOf[z]
      BY <3>1 DEF OnesOf
    <3>3. (y \div p) % 2 = 1 <=> k \in OnesOf[y]
      BY <3>1 DEF OnesOf
    <3> QED BY <3>2, <3>3
  <2>4. /\ z % (2 * p) = (z % p) + (IF (z \div p) % 2 = 1 THEN p ELSE 0)
        /\ y % (2 * p) = (y % p) + (IF (y \div p) % 2 = 1 THEN p ELSE 0)
    <3> HIDE DEF p
    <3> QED BY <1>1, <2>1, Digit
  <2>5. z % p \in Nat /\ y % p \in Nat
    <3> HIDE DEF p
    <3> QED BY <1>1, <2>1, Divides
  <2>6. z % (2 * p) <= y % (2 * p)
    <3> HIDE DEF p
    <3> QED BY <2>1, <2>2, <2>3, <2>4, <2>5
  <2> QED BY <2>1, <2>6
<1>4. \A k \in Nat : k \in S
  <2> HIDE DEF S
  <2> QED BY <1>2, <1>3, Induct
<1> QED
  BY <1>4

LEMMA WordIsItsRest == ASSUME NEW x \in Word PROVE x % 2 ^ Bits = x
<1>1. x = 0 * WordMod + x /\ x \in 0 .. WordMod - 1 /\ x \in Int
  BY Widths
<1>2. x % WordMod = x
  BY <1>1, Widths, Division
<1> QED
  BY <1>2 DEF WordMod

LEMMA FewerOnesLess ==
  ASSUME NEW y \in Word, NEW z \in Word, OnesOf[z] \subseteq OnesOf[y]
  PROVE  z <= y
<1>1. z % 2 ^ Bits <= y % 2 ^ Bits
  <2>1. Bits \in Nat /\ Bits <= Bits
    BY Widths
  <2>2. OnesOf[z] \cap (0 .. Bits - 1) \subseteq OnesOf[y]
    OBVIOUS
  <2> QED BY <2>1, <2>2, FewerOnes
<1> QED
  BY <1>1, WordIsItsRest

(* Every set of bits is that of a word: there are as many sets as words.     *)
LEMMA BitsOfAWord ==
  ASSUME NEW B \in SUBSET (0 .. Bits - 1)
  PROVE  NumberOf[B] \in Word /\ OnesOf[NumberOf[B]] = B
<1> DEFINE A == SUBSET (0 .. Bits - 1)
<1>1. IsFiniteSet(A) /\ Cardinality(A) = WordMod
  <2>1. IsFiniteSet(0 .. Bits - 1) /\ Cardinality(0 .. Bits - 1) = Bits
    <3>1. Bits \in Nat /\ 0 \in Int /\ Bits - 1 \in Int
      BY Widths
    <3>2. /\ IsFiniteSet(0 .. Bits - 1)
          /\ Cardinality(0 .. Bits - 1)
               = IF 0 > Bits - 1 THEN 0 ELSE (Bits - 1) - 0 + 1
      BY <3>1, FS_Interval
    <3> QED BY <3>1, <3>2
  <2> QED BY <2>1, FS_SUBSET DEF WordMod
<1>2. Cardinality(Word) = WordMod
  BY Widths, FS_Interval
<1>3. OnesOf \in [Word -> A]
  BY DEF OnesOf
<1>4. \A x, y \in Word : OnesOf[x] = OnesOf[y] => x = y
  <2> SUFFICES ASSUME NEW x \in Word, NEW y \in Word, OnesOf[x] = OnesOf[y]
               PROVE  x = y
    OBVIOUS
  <2>1. x <= y /\ y <= x
    BY FewerOnesLess
  <2> QED BY <2>1, Widths
<1>5. OnesOf \in Injection(Word, A)
  <2> HIDE DEF A
  <2> QED BY <1>3, <1>4 DEF Injection, IsInjective
<1>6. OnesOf \in Surjection(Word, A)
  <2> HIDE DEF A
  <2> QED BY <1>1, <1>2, <1>5, FS_Injection
<1>7. \E x \in Word : OnesOf[x] = B
  BY <1>6 DEF Surjection
<1> QED
  BY <1>7 DEF NumberOf

LEMMA OnesOfAnd ==
  ASSUME NEW x \in Word, NEW y \in Word
  PROVE  /\ BitAnd(x, y) \in Word
         /\ OnesOf[BitAnd(x, y)] = OnesOf[x] \cap OnesOf[y]
<1>1. OnesOf[x] \cap OnesOf[y] \in SUBSET (0 .. Bits - 1)
  BY DEF OnesOf
<1> QED
  BY <1>1, BitsOfAWord DEF BitAnd

(* The counts of the bytes that wait, and their cells. *)
LEMMA LargestOf ==
  ASSUME NEW n \in Nat, NEW S \in SUBSET (0 .. n), S # {}
  PROVE  Max(S) \in S /\ \A x \in S : x <= Max(S)
<1> DEFINE T == {d \in Nat : n - d \in S}
           R == OpToRel(<, Nat)
<1>1. T # {}
  <2>1. PICK x \in S : TRUE
    OBVIOUS
  <2>2. n - x \in Nat /\ n - (n - x) = x
    BY <2>1
  <2> QED BY <2>1, <2>2
<1>2. PICK d \in T : \A e \in T : ~(<<e, d>> \in R)
  <2>1. IsWellFoundedOn(R, Nat) /\ T \subseteq Nat
    BY NatLessThanWellFounded
  <2> HIDE DEF R, T
  <2> QED BY <1>1, <2>1, WFMin
<1>3. \A x \in S : x <= n - d
  <2> SUFFICES ASSUME NEW x \in S, ~(x <= n - d) PROVE FALSE
    OBVIOUS
  <2>1. d \in Nat /\ x \in Nat /\ x <= n /\ n - (n - x) = x
    <3>1. d \in Nat
      BY <1>2
    <3>2. x \in 0 .. n
      OBVIOUS
    <3> HIDE DEF T, R
    <3> QED BY <3>1, <3>2
  <2>2. n - x \in T /\ n - x < d
    BY <2>1
  <2>3. <<n - x, d>> \in R
    BY <2>1, <2>2 DEF OpToRel
  <2> QED BY <2>2, <2>3, <1>2
<1>4. \E m \in S : \A x \in S : m >= x
  <2>1. n - d \in S
    BY <1>2
  <2>3. n - d \in Nat
    BY <2>1
  <2>2. \A x \in S : n - d >= x
    BY <1>3, <2>1, <2>3
  <2> QED BY <2>1, <2>2
<1>5. Max(S) \in S /\ \A x \in S : Max(S) >= x
  BY <1>4 DEF Max
<1> QED
  BY <1>5

LEMMA ApartIs ==
  ASSUME NEW s \in Sizes
  PROVE  /\ s \in 1 .. WordMod - 1 /\ s - 1 \in Word
         /\ LowOnes(s) \in 0 .. Bits
         /\ 0 .. LowOnes(s) - 1 \subseteq OnesOf[s - 1]
         /\ Apart(s) \in Nat \ {0}
<1> DEFINE S == {k \in 0 .. Bits : 0 .. k - 1 \subseteq OnesOf[s - 1]}
<1>1. s \in 1 .. WordMod - 1 /\ s - 1 \in Word
  BY Widths
<1>2. 0 \in S
  BY Widths
<1>3. Max(S) \in S
  <2>1. S \in SUBSET (0 .. Bits) /\ S # {}
    BY <1>2
  <2> HIDE DEF S
  <2> QED BY <2>1, Widths, LargestOf
<1>4. LowOnes(s) \in S
  BY <1>3 DEF LowOnes
<1>5. LowOnes(s) \in 0 .. Bits /\ 0 .. LowOnes(s) - 1 \subseteq OnesOf[s - 1]
  BY <1>4
<1>6. Apart(s) \in Nat \ {0}
  <2>1. LowOnes(s) \in Nat
    BY <1>5, Widths
  <2> QED BY <2>1, Power DEF Apart
<1> QED
  BY <1>1, <1>5, <1>6

LEMMA CellRange ==
  ASSUME NEW s \in Sizes, NEW n \in Word
  PROVE  Cell(s, n) \in 0 .. s - 1
<1>1. s \in 1 .. WordMod - 1 /\ s - 1 \in Word
  BY ApartIs
<1>2. /\ Cell(s, n) \in Word
      /\ OnesOf[Cell(s, n)] \subseteq OnesOf[s - 1]
  BY <1>1, OnesOfAnd DEF Cell
<1>3. Cell(s, n) <= s - 1
  BY <1>1, <1>2, FewerOnesLess
<1> QED
  BY <1>1, <1>2, <1>3, Widths

LEMMA SameCell ==
  ASSUME NEW s \in Sizes, NEW m \in Word, NEW n \in Word, Cell(s, m) = Cell(s, n)
  PROVE  m % Apart(s) = n % Apart(s)
<1> DEFINE k == LowOnes(s)
<1>1. /\ s - 1 \in Word /\ k \in 0 .. Bits
      /\ 0 .. k - 1 \subseteq OnesOf[s - 1]
  BY ApartIs
<1>2. OnesOf[m] \cap OnesOf[s - 1] = OnesOf[n] \cap OnesOf[s - 1]
  BY <1>1, OnesOfAnd DEF Cell
<1> HIDE DEF k
<1>3. /\ OnesOf[m] \cap (0 .. k - 1) \subseteq OnesOf[n]
      /\ OnesOf[n] \cap (0 .. k - 1) \subseteq OnesOf[m]
  BY <1>1, <1>2
<1>4. k \in Nat /\ k <= Bits
  BY <1>1, Widths
<1>5. m % 2 ^ k <= n % 2 ^ k /\ n % 2 ^ k <= m % 2 ^ k
  BY <1>3, <1>4, FewerOnes
<1>6. m % 2 ^ k \in Int /\ n % 2 ^ k \in Int
  <2> DEFINE p == 2 ^ k
  <2>1. p \in Nat \ {0}
    BY <1>4, Power
  <2>2. m \in Int /\ n \in Int
    BY Widths
  <2>3. m % p \in 0 .. p - 1 /\ n % p \in 0 .. p - 1 /\ p \in Int
    <3> HIDE DEF p
    <3> QED BY <2>1, <2>2, Divides
  <2> QED BY <2>3
<1> QED
  BY <1>5, <1>6 DEF Apart, k

(* A lower power of two divides a higher one. *)
LEMMA PowerDivides ==
  ASSUME NEW k \in Nat
  PROVE  \A j \in Nat : \E m \in Nat : 2 ^ (k + j) = m * 2 ^ k
<1> DEFINE S == {j \in Nat : \E m \in Nat : 2 ^ (k + j) = m * 2 ^ k}
           p == 2 ^ k
<1>1. p \in Nat
  BY Power
<1>2. 0 \in S
  <2>1. k + 0 = k /\ p = 1 * p
    BY <1>1
  <2> QED BY <2>1
<1>3. ASSUME NEW j \in Nat, j \in S PROVE j + 1 \in S
  <2>1. PICK m \in Nat : 2 ^ (k + j) = m * p
    BY <1>3
  <2>2. k + (j + 1) = (k + j) + 1 /\ k + j \in Nat
    OBVIOUS
  <2>3. 2 ^ (k + (j + 1)) = 2 * (m * p)
    BY <2>1, <2>2, PowerDoubles
  <2>4. 2 * (m * p) = (2 * m) * p /\ 2 * m \in Nat
    <3> HIDE DEF p
    <3> QED BY <1>1, Z3
  <2>5. \E i \in Nat : 2 ^ (k + (j + 1)) = i * p
    BY <2>3, <2>4
  <2> QED BY <2>5
<1>4. \A j \in Nat : j \in S
  <2> HIDE DEF S
  <2> QED BY <1>2, <1>3, Induct
<1> QED
  BY <1>4

(* Counts fewer than Apart apart have cells of their own, across the wrap.   *)
LEMMA OwnCell ==
  ASSUME NEW s \in Sizes, NEW n \in Word, NEW d \in 1 .. Apart(s) - 1
  PROVE  /\ (n - d) % WordMod \in Word
         /\ Cell(s, (n - d) % WordMod) # Cell(s, n)
<1> DEFINE k == LowOnes(s)
           p == Apart(s)
           o == (n - d) % WordMod
           a == (n - d) \div WordMod
           b == o \div p
           c == o % p
<1>1. p \in Nat \ {0} /\ k \in Nat /\ Bits - k \in Nat /\ k + (Bits - k) = Bits
  BY ApartIs, Widths
<1>2. PICK m \in Nat : WordMod = m * p
  <2>1. PICK m \in Nat : 2 ^ (k + (Bits - k)) = m * 2 ^ k
    <3> HIDE DEF k
    <3> QED BY <1>1, PowerDivides
  <2>2. WordMod = m * p
    BY <1>1, <2>1 DEF WordMod, Apart
  <2> QED BY <2>2
<1>3. n \in Int /\ d \in Int /\ WordMod \in Nat \ {0}
  BY Widths, <1>1
<1>4. a \in Int /\ o \in 0 .. WordMod - 1 /\ n - d = a * WordMod + o
  <2>1. n - d \in Int
    BY <1>3
  <2> QED BY <1>3, <2>1, Divides
<1>5. b \in Int /\ c \in 0 .. p - 1 /\ o = b * p + c
  <2>1. o \in Int
    BY <1>3, <1>4
  <2> HIDE DEF o, p
  <2> QED BY <1>1, <2>1, Divides
<1>6. o \in Word
  BY <1>4, Widths
<1>7. ASSUME Cell(s, o) = Cell(s, n) PROVE FALSE
  <2>1. n % p = c
    <3> HIDE DEF o
    <3> QED BY <1>6, <1>7, SameCell DEF o
  <2> DEFINE e == n \div p
             u == e - a * m - b
  <2>2. e \in Int /\ n = e * p + c
    <3> HIDE DEF p, c
    <3> QED BY <1>1, <1>3, <2>1, Divides
  <2> HIDE DEF a, b, c, e, o, p, k
  <2>3. u \in Int /\ d = u * p + 0 /\ d = 0 * p + d
    BY <1>1, <1>2, <1>3, <1>4, <1>5, <2>2, Z3
  <2>4. 0 \in 0 .. p - 1 /\ d \in 0 .. p - 1 /\ 0 \in Int
    BY <1>1 DEF p
  <2> HIDE DEF u
  <2>5. d % p = 0 /\ d % p = d
    BY <1>1, <1>3, <2>3, <2>4, Division
  <2> QED BY <2>5
<1> QED
  BY <1>6, <1>7

-----------------------------------------------------------------------------
(* A frame on the line. *)
LEMMA ByteIs == ASSUME NEW n \in Byte PROVE n \in Nat
  BY DEF Byte

LEMMA Halves ==
  ASSUME NEW n \in Short
  PROVE  /\ n \in Nat /\ Low(n) \in Byte /\ High(n) \in Byte
         /\ Low(n) + 256 * High(n) = n
  BY DEF Short, Byte, Low, High

LEMMA PairIs ==
  ASSUME NEW k \in Byte \X Byte
  PROVE  k \in Seq(Byte) /\ Len(k) = 2
<1>1. k = <<k[1], k[2]>> /\ k[1] \in Byte /\ k[2] \in Byte
  OBVIOUS
<1>2. ASSUME NEW x \in Byte, NEW y \in Byte
      PROVE  <<x, y>> \in Seq(Byte) /\ Len(<<x, y>>) = 2
  OBVIOUS
<1> QED
  BY <1>1, <1>2

LEMMA FrameIs ==
  ASSUME NEW f \in DOMAIN Frames
  PROVE  /\ Frames[f].id \in Short
         /\ Frames[f].ch \in Byte /\ Frames[f].ack \in Byte
         /\ Frames[f].payload \in Seq(Byte)
         /\ Frames[f].crc \in Byte \X Byte
         /\ Len(Frames[f].payload) \in Short
         /\ Len(Frames[f].payload) \in 0 .. MaxPayload /\ MaxPayload \in Nat
         /\ Frames[f].payload = <<>> <=> Len(Frames[f].payload) = 0
<1>1. Frames[f] \in Frame
  BY FramesAssumption
<1>2. /\ Frames[f].id \in Short
      /\ Frames[f].ch \in Byte /\ Frames[f].ack \in Byte
      /\ Frames[f].payload \in Seq(Byte)
      /\ Frames[f].crc \in Byte \X Byte
  BY <1>1 DEF Frame
<1> DEFINE p == Frames[f].payload
<1>3. p \in Seq(Byte)
  BY <1>2
<1>4. Len(p) <= MaxPayload /\ MaxPayload \in Short
  BY FramesAssumption
<1> HIDE DEF p
<1>5. Len(p) \in Nat
  BY <1>3
<1>6. MaxPayload \in Nat
  BY <1>4 DEF Short
<1>7. Len(p) \in Short
  BY <1>4, <1>5 DEF Short
<1>8. p = <<>> <=> Len(p) = 0
  BY <1>3
<1>9. Len(p) \in 0 .. MaxPayload
  BY <1>4, <1>5, <1>6
<1> QED
  BY <1>2, <1>6, <1>7, <1>8, <1>9 DEF p

LEMMA Prefixed ==
  ASSUME NEW s \in Seq(Byte), NEW t \in Seq(Byte)
  PROVE  /\ s \o t \in Seq(Byte) /\ Len(s \o t) = Len(s) + Len(t)
         /\ \A i \in 1 .. Len(s) : (s \o t)[i] = s[i]
<1>1. s \o t \in Seq(Byte) /\ Len(s \o t) = Len(s) + Len(t)
  BY ConcatProperties
<1>2. \A i \in 1 .. Len(s) : (s \o t)[i] = s[i]
  BY ConcatProperties
<1> QED
  BY <1>1, <1>2

LEMMA Joined ==
  ASSUME NEW h \in Seq(Byte), NEW p \in Seq(Byte), NEW k \in Seq(Byte),
         Len(h) = 8, Len(k) = 2
  PROVE  /\ h \o p \o k \in Seq(Byte) /\ Len(h \o p \o k) = 10 + Len(p)
         /\ \A i \in 1 .. 8 : (h \o p \o k)[i] = h[i]
<1> DEFINE q == h \o p
<1>1. Len(p) \in Nat
  OBVIOUS
<1>2. /\ q \in Seq(Byte) /\ Len(q) = Len(h) + Len(p)
      /\ \A i \in 1 .. Len(h) : q[i] = h[i]
  BY Prefixed
<1>3. Len(q) = 8 + Len(p) /\ \A i \in 1 .. 8 : q[i] = h[i]
  BY <1>2
<1> HIDE DEF q
<1>4. q \o k \in Seq(Byte) /\ Len(q \o k) = Len(q) + Len(k)
  BY <1>2, Prefixed
<1>5. \A i \in 1 .. Len(q) : (q \o k)[i] = q[i]
  BY <1>2, Prefixed
<1>6. Len(q \o k) = 10 + Len(p)
  BY <1>1, <1>3, <1>4
<1>7. \A i \in 1 .. 8 : (q \o k)[i] = h[i]
  <2>1. \A i \in 1 .. 8 : i \in 1 .. Len(q)
    BY <1>1, <1>3
  <2> QED
    BY <1>3, <1>5, <2>1, Zenon
<1> QED
  BY <1>4, <1>6, <1>7 DEF q

LEMMA WireIs ==
  ASSUME NEW f \in DOMAIN Frames
  PROVE  /\ Wire[f] \in Seq(Byte)
         /\ Len(Wire[f]) = 10 + Len(Frames[f].payload)
         /\ Wire[f][1] = H0 /\ Wire[f][2] = H1
         /\ Wire[f][7] + 256 * Wire[f][8] = Len(Frames[f].payload)
<1> DEFINE r == Frames[f]
           n == Len(r.payload)
           h == <<H0, H1, Low(r.id), High(r.id), r.ch, r.ack, Low(n), High(n)>>
           w == h \o r.payload \o r.crc
<1>1. Wire[f] = w
  BY DEF Wire, Bytes
<1>2. H0 \in Byte /\ H1 \in Byte
  BY DEF H0, H1, Byte
<1>3. /\ r.id \in Short /\ r.ch \in Byte /\ r.ack \in Byte
      /\ r.payload \in Seq(Byte) /\ r.crc \in Byte \X Byte /\ n \in Short
  BY FrameIs
<1>4. /\ Low(r.id) \in Byte /\ High(r.id) \in Byte
      /\ Low(n) \in Byte /\ High(n) \in Byte /\ Low(n) + 256 * High(n) = n
  BY <1>3, Halves
<1>5. ASSUME NEW a \in Byte, NEW b \in Byte, NEW c \in Byte, NEW d \in Byte,
             NEW i \in Byte, NEW j \in Byte, NEW k \in Byte, NEW l \in Byte
      PROVE  /\ <<a, b, c, d, i, j, k, l>> \in Seq(Byte)
             /\ Len(<<a, b, c, d, i, j, k, l>>) = 8
  OBVIOUS
<1>6. h \in Seq(Byte) /\ Len(h) = 8
  BY <1>2, <1>3, <1>4, <1>5
<1>7. h[1] = H0 /\ h[2] = H1 /\ h[7] = Low(n) /\ h[8] = High(n)
  OBVIOUS
<1>8. r.crc \in Seq(Byte) /\ Len(r.crc) = 2
  BY <1>3, PairIs
<1> HIDE DEF h
<1>9. /\ w \in Seq(Byte) /\ Len(w) = 10 + n
      /\ \A i \in 1 .. 8 : w[i] = h[i]
  BY <1>3, <1>6, <1>8, Joined
<1> HIDE DEF w
<1>10. w[1] = h[1] /\ w[2] = h[2] /\ w[7] = h[7] /\ w[8] = h[8]
  BY <1>9
<1> QED
  BY <1>1, <1>4, <1>7, <1>9, <1>10

LEMMA FramesAre == Frames \in Seq(Frame) /\ Len(Frames) \in Nat
                   /\ DOMAIN Frames = 1 .. Len(Frames)
  BY FramesAssumption

(* A length and a place of a frame on the line, as numbers. *)
LEMMA Lengths ==
  ASSUME NEW f \in DOMAIN Frames
  PROVE  /\ Len(Wire[f]) \in Nat /\ Len(Wire[f]) >= 10
         /\ \A i \in 1 .. Len(Wire[f]) : Wire[f][i] \in Byte
<1>1. /\ Wire[f] \in Seq(Byte)
      /\ Len(Wire[f]) = 10 + Len(Frames[f].payload)
  BY WireIs
<1>2. Len(Frames[f].payload) \in Nat
  BY FrameIs
<1>3. Len(Wire[f]) \in Nat /\ Len(Wire[f]) >= 10
  BY <1>1, <1>2
<1>4. \A i \in 1 .. Len(Wire[f]) : Wire[f][i] \in Byte
  BY <1>1
<1> QED
  BY <1>3, <1>4

LEMMA LineGoesOn ==
  ASSUME LineType, Arriving, Advance PROVE LineType'
<1> DEFINE f == line[1]
           i == line[2]
<1>1. /\ line \in (1 .. Len(Frames) + 1) \X Nat
      /\ f \in 1 .. Len(Frames) /\ i \in 1 .. Len(Wire[f])
  BY FramesAre DEF LineType, Arriving
<1>2. Len(Wire[f]) \in Nat
  BY <1>1, FramesAre, Lengths
<1>3. CASE i = Len(Wire[f])
  <2>1. line' = <<f + 1, 1>>
    BY <1>3 DEF Advance
  <2>2. f + 1 \in 1 .. Len(Frames) + 1
    BY <1>1, FramesAre
  <2>3. f + 1 <= Len(Frames) => 1 \in 1 .. Len(Wire[f + 1])
    <3> SUFFICES ASSUME f + 1 <= Len(Frames) PROVE 1 \in 1 .. Len(Wire[f + 1])
      OBVIOUS
    <3>1. f + 1 \in DOMAIN Frames
      BY <2>2, FramesAre
    <3> QED
      BY <3>1, Lengths
  <2>4. line'[1] = f + 1 /\ line'[2] = 1
    BY <2>1
  <2>5. line' \in (1 .. Len(Frames) + 1) \X Nat
    BY <2>1, <2>2
  <2> QED
    BY <2>3, <2>4, <2>5 DEF LineType, Arriving
<1>4. CASE i # Len(Wire[f])
  <2>1. line' = <<f, i + 1>>
    BY <1>4 DEF Advance
  <2>2. i + 1 \in 1 .. Len(Wire[f])
    BY <1>1, <1>2, <1>4
  <2>3. line'[1] = f /\ line'[2] = i + 1
    BY <2>1
  <2>4. line' \in (1 .. Len(Frames) + 1) \X Nat
    BY <1>1, <2>1, <2>2
  <2> QED
    BY <1>1, <2>2, <2>3, <2>4 DEF LineType, Arriving
<1> QED
  BY <1>3, <1>4

(* The counts of the fifo. *)
LEMMA HeldIs ==
  ASSUME NEW m \in Word, NEW n \in Word
  PROVE  /\ Held(m, n) \in Nat /\ Held(m, n) < WordMod
         /\ m - n = Held(m, n) \/ m - n = Held(m, n) - WordMod
         /\ (m - Held(m, n)) % WordMod = n
<1>1. WordMod \in Nat \ {0} /\ m \in Nat /\ m < WordMod /\ n \in Nat /\ n < WordMod
  BY Widths
<1> DEFINE h == (m - n) % WordMod
<1>2. CASE m >= n
  <2>1. h = m - n
    BY <1>1, <1>2, Division, SMTT(30)
  <2>2. m - (m - n) = n /\ n % WordMod = n
    BY <1>1, Division
  <2> QED
    BY <1>1, <1>2, <2>1, <2>2 DEF Held, WordMod
<1>3. CASE m < n
  <2>1. /\ m - n = (-1) * WordMod + (m - n + WordMod) /\ m - n \in Int
        /\ m - n + WordMod \in 0 .. WordMod - 1 /\ -1 \in Int
    BY <1>1, <1>3
  <2>2. h = m - n + WordMod
    BY <1>1, <2>1, Division
  <2>3. m - h = (-1) * WordMod + n /\ n \in 0 .. WordMod - 1 /\ m - h \in Int
    BY <1>1, <2>2
  <2>4. (m - h) % WordMod = n
    BY <1>1, <2>3, Division
  <2> QED
    BY <1>1, <1>3, <2>2, <2>4 DEF Held, WordMod
<1> QED
  BY <1>1, <1>2, <1>3

LEMMA HeldFrom ==
  ASSUME NEW m \in Word, NEW n \in Word, NEW h \in 0 .. WordMod - 1,
         m - n = h \/ m - n = h - WordMod \/ m - n = h + WordMod
  PROVE  Held(m, n) = h
<1>1. WordMod \in Nat \ {0} /\ m \in Nat /\ n \in Nat /\ m - n \in Int
  BY Widths
<1>2. CASE m - n = h
  <2>1. m - n = 0 * WordMod + h
    BY <1>1, <1>2
  <2> QED
    BY <1>1, <2>1, Division DEF Held, WordMod
<1>3. CASE m - n = h - WordMod
  <2>1. m - n = (-1) * WordMod + h
    BY <1>1, <1>3
  <2> QED
    BY <1>1, <2>1, Division DEF Held, WordMod
<1>4. CASE m - n = h + WordMod
  <2>1. m - n = 1 * WordMod + h
    BY <1>1, <1>4
  <2> QED
    BY <1>1, <2>1, Division DEF Held, WordMod
<1> QED
  BY <1>2, <1>3, <1>4

LEMMA AfterIs ==
  ASSUME NEW n \in Word
  PROVE  After(n) \in Word /\ (After(n) = n + 1 \/ After(n) = n + 1 - WordMod)
<1>1. WordMod \in Nat \ {0} /\ n \in Nat /\ n < WordMod
  BY Widths
<1>2. CASE n + 1 = WordMod
  <2>1. n + 1 = 1 * WordMod + 0 /\ 0 \in 0 .. WordMod - 1
    BY <1>1, <1>2
  <2>2. After(n) = 0
    BY <1>1, <2>1, Division DEF After, WordMod
  <2> QED
    BY <1>1, <1>2, <2>2, Widths
<1>3. CASE n + 1 # WordMod
  <2>1. n + 1 = 0 * WordMod + (n + 1) /\ n + 1 \in 0 .. WordMod - 1
    BY <1>1, <1>3
  <2>2. After(n) = n + 1
    BY <1>1, <2>1, Division DEF After, WordMod
  <2> QED
    BY <2>1, <2>2, Widths
<1> QED
  BY <1>2, <1>3

LEMMA RoomIs ==
  ASSUME NEW s \in Sizes, NEW m \in Word, NEW n \in Word, Held(m, n) <= s
  PROVE  Room(s, m, n) = s - Held(m, n)
<1> DEFINE h == Held(m, n)
<1>1. /\ WordMod \in Nat \ {0} /\ m \in Nat /\ n \in Nat
      /\ s \in Nat /\ s < WordMod
  BY Widths
<1>2. h \in Nat /\ h <= s /\ (m - n = h \/ m - n = h - WordMod)
  BY HeldIs
<1> HIDE DEF h
<1>3. s - h \in 0 .. WordMod - 1 /\ s - m + n \in Int
  BY <1>1, <1>2
<1>4. s - m + n = 0 * WordMod + (s - h) \/ s - m + n = 1 * WordMod + (s - h)
  BY <1>1, <1>2
<1> QED
  BY <1>1, <1>3, <1>4, Division DEF Room, WordMod, h

LEMMA HeldGrows ==
  ASSUME NEW s \in Sizes, NEW m \in Word, NEW n \in Word, Held(m, n) <= s,
         Room(s, m, n) >= 1
  PROVE  Held(After(m), n) = Held(m, n) + 1 /\ Held(m, n) + 1 <= s
<1> DEFINE h == Held(m, n)
           o == After(m)
<1>1. /\ WordMod \in Nat \ {0} /\ m \in Nat /\ n \in Nat
      /\ n < WordMod /\ s \in Nat /\ s < WordMod
  BY Widths
<1>2. h \in Nat /\ h <= s /\ (m - n = h \/ m - n = h - WordMod)
  BY HeldIs
<1>3. s - h >= 1
  BY RoomIs
<1>4. o \in Word /\ (o = m + 1 \/ o = m + 1 - WordMod) /\ o \in Nat /\ o < WordMod
  BY AfterIs, Widths
<1> HIDE DEF h, o
<1>5. h + 1 \in 0 .. WordMod - 1 /\ h + 1 <= s
  BY <1>1, <1>2, <1>3
<1>6. o - n = h + 1 \/ o - n = h + 1 - WordMod
  <2>1. h + 1 < WordMod
    BY <1>1, <1>2, <1>3
  <2>2. CASE m - n = h
    BY <1>1, <1>2, <1>4, <2>2
  <2>3. CASE m - n = h - WordMod
    <3>1. CASE o = m + 1
      BY <1>1, <1>2, <1>4, <2>3, <3>1
    <3>2. CASE o = m + 1 - WordMod
      BY <1>1, <1>2, <1>4, <2>1, <2>3, <3>2
    <3> QED
      BY <1>4, <3>1, <3>2
  <2> QED
    BY <1>2, <2>2, <2>3
<1>7. Held(o, n) = h + 1
  <2>1. PICK k \in 0 .. WordMod - 1 : k = h + 1
    BY <1>5
  <2>2. o - n = k \/ o - n = k - WordMod \/ o - n = k + WordMod
    BY <1>1, <1>2, <1>4, <1>6, <2>1
  <2>3. Held(o, n) = k
    BY <1>4, <2>2, HeldFrom
  <2> QED
    BY <2>1, <2>3
<1> QED
  BY <1>5, <1>7 DEF h, o

LEMMA HeldShrinks ==
  ASSUME NEW m \in Word, NEW n \in Word, Held(m, n) >= 1
  PROVE  Held(m, After(n)) = Held(m, n) - 1
<1> DEFINE h == Held(m, n)
           o == After(n)
<1>1. WordMod \in Nat \ {0} /\ m \in Nat /\ m < WordMod /\ n \in Nat
  BY Widths
<1>2. h \in Nat /\ h >= 1 /\ h < WordMod /\ (m - n = h \/ m - n = h - WordMod)
  BY HeldIs
<1>3. o \in Word /\ (o = n + 1 \/ o = n + 1 - WordMod) /\ o \in Nat /\ o < WordMod
  BY AfterIs, Widths
<1> HIDE DEF h, o
<1>4. h - 1 \in 0 .. WordMod - 1
  BY <1>1, <1>2
<1>5. m - o = h - 1 \/ m - o = h - 1 - WordMod \/ m - o = h - 1 + WordMod
  BY <1>1, <1>2, <1>3
<1>6. Held(m, o) = h - 1
  BY <1>3, <1>4, <1>5, HeldFrom
<1> QED
  BY <1>6 DEF h, o

-----------------------------------------------------------------------------
(* The bytes in the fifo. *)
LEMMA Dropped ==
  ASSUME NEW S, NEW s \in Seq(S), s # <<>>
  PROVE  /\ SubSeq(s, 2, Len(s)) \in Seq(S)
         /\ Len(SubSeq(s, 2, Len(s))) = Len(s) - 1
         /\ \A i \in 1 .. Len(s) - 1 : SubSeq(s, 2, Len(s))[i] = s[i + 1]
<1>1. SubSeq(s, 2, Len(s)) = Tail(s)
  BY TailIsSubSeq
<1>2. /\ Tail(s) \in Seq(S) /\ Len(Tail(s)) = Len(s) - 1
      /\ \A i \in 1 .. Len(Tail(s)) : Tail(s)[i] = s[i + 1]
  BY HeadTailProperties
<1> QED
  BY <1>1, <1>2

LEMMA Smaller ==
  ASSUME NEW a \in Nat, NEW b \in Nat
  PROVE  \A d : d \in 1 .. Min({a, b}) <=> d \in 1 .. a /\ d \in 1 .. b
<1>1. CASE a <= b
  <2>1. Min({a, b}) = a
    BY <1>1 DEF Min
  <2> QED
    BY <1>1, <2>1
<1>2. CASE b < a
  <2>1. Min({a, b}) = b
    BY <1>2 DEF Min
  <2> QED
    BY <1>2, <2>1
<1> QED
  BY <1>1, <1>2

LEMMA Turn ==
  ASSUME NEW x \in Int, NEW y \in Int, NEW s \in Nat \ {0},
         x = y \/ x = y - s \/ x = y + s
  PROVE  x % s = y % s
<1>1. PICK q \in Int, r \in 0 .. s - 1 : y = q * s + r /\ y % s = r
  BY Divides
<1>2. PICK p \in Int : x = p * s + r
  <2>1. CASE x = y
    BY <1>1, <2>1
  <2>2. CASE x = y - s
    <3>1. q - 1 \in Int /\ x = (q - 1) * s + r
      BY <1>1, <2>2
    <3> QED
      BY <3>1
  <2>3. CASE x = y + s
    <3>1. q + 1 \in Int /\ x = (q + 1) * s + r
      BY <1>1, <2>3
    <3> QED
      BY <3>1
  <2> QED
    BY <2>1, <2>2, <2>3
<1>3. x % s = r
  BY <1>2, Division
<1> QED
  BY <1>1, <1>3

LEMMA Within ==
  ASSUME NEW s \in Nat \ {0}, NEW x \in 0 .. s - 1 PROVE x % s = x
<1>1. x \in Int /\ x = 0 * s + x /\ 0 \in Int
  OBVIOUS
<1> QED
  BY <1>1, Division

Fresh(s, c, m, u) ==
  \A d \in 1 .. Len(u) :
    d \in 1 .. Apart(s) => c[Cell(s, (m - d) % WordMod)] = Value(u[Len(u) + 1 - d])

LEMMA FreshIs ==
  ASSUME size \in Sizes, Len(unread) \in Nat
  PROVE  FreshBytesKept <=> Fresh(size, cell, in, unread)
<1>1. Apart(size) \in Nat
  BY ApartIs
<1>2. \A d : d \in 1 .. Min({Apart(size), Len(unread)})
               <=> d \in 1 .. Apart(size) /\ d \in 1 .. Len(unread)
  BY <1>1, Smaller
<1> QED
  BY <1>2, Zenon DEF FreshBytesKept, Fresh, WordMod

LEMMA ArrivingByte ==
  ASSUME LineType, Arriving, lost \in 0 .. MaxLost
  PROVE  Now \in Triple /\ OfLine(Now) /\ Value(line) \in Byte /\ Value(Now) = Value(line)
<1>1. /\ line \in (1 .. Len(Frames) + 1) \X Nat
      /\ line[1] \in 1 .. Len(Frames) /\ line[2] \in 1 .. Len(Wire[line[1]])
  BY FramesAre DEF LineType, Arriving
<1>2. line[1] \in DOMAIN Frames
  BY <1>1, FramesAre
<1>3. Now[1] = line[1] /\ Now[2] = line[2] /\ Now[3] = lost
  BY DEF Now
<1>4. OfLine(Now)
  BY <1>1, <1>2, <1>3 DEF OfLine
<1>5. Wire[line[1]][line[2]] \in Byte
  BY <1>1, <1>2, Lengths
<1>6. line[1] \in Nat /\ line[2] \in Nat /\ lost \in Nat
  BY <1>1, FramesAre, FramesAssumption
<1>7. Now \in Triple
  BY <1>6 DEF Now, Triple
<1>8. Value(Now) = Value(line)
  BY <1>3 DEF Value
<1> QED
  BY <1>4, <1>5, <1>7, <1>8 DEF Value

LEMMA FreshAfterPut ==
  ASSUME NEW s \in Sizes, NEW c, NEW m \in Word, NEW u \in Seq(Triple), NEW b \in Triple,
         c \in [0 .. s - 1 -> Byte], Fresh(s, c, m, u)
  PROVE  Fresh(s, [c EXCEPT ![Cell(s, m)] = Value(b)], After(m), Append(u, b))
<1> DEFINE e == [c EXCEPT ![Cell(s, m)] = Value(b)]
           v == Append(u, b)
           n == After(m)
<1>1. Len(v) = Len(u) + 1 /\ v[Len(u) + 1] = b /\ Len(u) \in Nat
      /\ \A i \in 1 .. Len(u) : v[i] = u[i]
  OBVIOUS
<1>2. Cell(s, m) \in 0 .. s - 1
  BY CellRange
<1>3. WordMod \in Nat \ {0} /\ m \in Nat /\ m < WordMod /\ m \in Int
  BY Widths
<1>4. n \in Word /\ (n = m + 1 \/ n = m + 1 - WordMod) /\ n \in Int
  BY AfterIs, Widths
<1> SUFFICES ASSUME NEW d \in 1 .. Len(v), d \in 1 .. Apart(s)
             PROVE  e[Cell(s, (n - d) % WordMod)] = Value(v[Len(v) + 1 - d])
  BY DEF Fresh
<1> HIDE DEF e, v, n
<1>5. d \in Nat /\ d >= 1 /\ d - 1 \in Nat
  BY <1>1
<1>6. CASE d = 1
  <2>1. (n - d) % WordMod = m
    <3>1. PICK x \in Int : x = n - d
      BY <1>4, <1>5
    <3>2. x = m \/ x = m - WordMod
      BY <1>3, <1>4, <1>6, <3>1
    <3>3. x % WordMod = m % WordMod
      BY <1>3, <3>2, Turn
    <3>4. m % WordMod = m
      BY <1>3, Within
    <3> QED
      BY <3>1, <3>3, <3>4
  <2>2. e[Cell(s, m)] = Value(b)
    BY <1>2 DEF e
  <2>3. v[Len(v) + 1 - d] = b
    BY <1>1, <1>6
  <2> QED
    BY <2>1, <2>2, <2>3
<1>7. CASE d > 1
  <2> DEFINE g == d - 1
  <2>1. g \in 1 .. Len(u) /\ g \in 1 .. Apart(s) /\ g \in 1 .. Apart(s) - 1
    <3>1. Apart(s) \in Nat
      BY ApartIs
    <3> QED
      BY <1>1, <1>5, <1>7, <3>1
  <2>2. (n - d) % WordMod = (m - g) % WordMod
    <3>1. PICK x \in Int, y \in Int : x = n - d /\ y = m - g
      BY <1>3, <1>4, <1>5
    <3>2. x = y \/ x = y - WordMod
      BY <1>3, <1>4, <1>5, <3>1
    <3>3. x % WordMod = y % WordMod
      BY <1>3, <3>2, Turn
    <3> QED
      BY <3>1, <3>3
  <2>3. c[Cell(s, (m - g) % WordMod)] = Value(u[Len(u) + 1 - g])
    BY <2>1 DEF Fresh
  <2>4. (m - g) % WordMod \in Word /\ Cell(s, (m - g) % WordMod) # Cell(s, m)
    BY <2>1, OwnCell
  <2>5. e[Cell(s, (m - g) % WordMod)] = c[Cell(s, (m - g) % WordMod)]
    <3>1. Cell(s, (m - g) % WordMod) \in 0 .. s - 1
      BY <2>4, CellRange
    <3> QED
      BY <2>4, <3>1 DEF e
  <2>6. v[Len(v) + 1 - d] = u[Len(u) + 1 - g]
    <3>1. Len(v) + 1 - d = Len(u) + 1 - g /\ Len(u) + 1 - g \in 1 .. Len(u)
      BY <1>1, <1>5, <2>1
    <3> QED
      BY <1>1, <3>1
  <2> QED
    BY <2>2, <2>3, <2>5, <2>6
<1> QED
  BY <1>5, <1>6, <1>7 DEF e, v, n

LEMMA FreshAfterGet ==
  ASSUME NEW s, NEW c, NEW m, NEW u \in Seq(Triple), u # <<>>, Fresh(s, c, m, u)
  PROVE  Fresh(s, c, m, SubSeq(u, 2, Len(u)))
<1> DEFINE v == SubSeq(u, 2, Len(u))
<1>1. Len(v) = Len(u) - 1 /\ \A i \in 1 .. Len(u) - 1 : v[i] = u[i + 1]
  BY Dropped
<1>2. Len(u) \in Nat
  OBVIOUS
<1> HIDE DEF v
<1> SUFFICES ASSUME NEW d \in 1 .. Len(v), d \in 1 .. Apart(s)
             PROVE  c[Cell(s, (m - d) % WordMod)] = Value(v[Len(v) + 1 - d])
  BY DEF Fresh, v
<1>3. d \in 1 .. Len(u) /\ Len(v) + 1 - d \in 1 .. Len(u) - 1
  BY <1>1, <1>2
<1>4. v[Len(v) + 1 - d] = u[Len(u) + 1 - d]
  <2>1. (Len(v) + 1 - d) + 1 = Len(u) + 1 - d
    BY <1>1, <1>2
  <2> QED
    BY <1>1, <1>3, <2>1
<1> QED
  BY <1>3, <1>4 DEF Fresh

LEMMA InitFifo == Init => FifoInv
<1> SUFFICES ASSUME Init PROVE FifoInv
  OBVIOUS
<1>1. /\ line = <<1, 1>> /\ lost = 0 /\ size \in Sizes /\ in = 0 /\ out = 0
      /\ cell = [c \in 0 .. size - 1 |-> 0] /\ pc = "test" /\ ch = 0
      /\ unread = <<>> /\ crowded = FALSE
  BY DEF Init
<1>2. 0 \in Byte /\ 0 \in Word /\ MaxLost \in Nat
  BY Widths, FramesAssumption DEF Byte
<1>3. LineType
  <2>1. line[1] = 1 /\ line[2] = 1 /\ line \in (1 .. Len(Frames) + 1) \X Nat
    BY <1>1, FramesAre
  <2>2. 1 <= Len(Frames) => 1 \in 1 .. Len(Wire[1])
    <3> SUFFICES ASSUME 1 <= Len(Frames) PROVE 1 \in 1 .. Len(Wire[1])
      OBVIOUS
    <3>1. 1 \in DOMAIN Frames
      BY FramesAre
    <3> QED
      BY <3>1, Lengths
  <2> QED
    BY <2>1, <2>2 DEF LineType, Arriving
<1>4. Held(in, out) = 0 /\ Len(unread) = 0 /\ unread \in Seq(Triple)
  <2>1. Held(0, 0) = 0
    <3>1. 0 - 0 = 0 /\ 0 \in 0 .. WordMod - 1
      BY Widths
    <3> QED
      BY <1>2, <3>1, HeldFrom
  <2> QED
    BY <1>1, <2>1
<1>5. size \in Nat /\ cell \in [0 .. size - 1 -> Byte]
  BY <1>1, <1>2, ApartIs
<1>6. FifoType
  <2>1. lost \in 0 .. MaxLost /\ Held(in, out) <= size
    BY <1>1, <1>2, <1>4, <1>5
  <2>2. \A i \in 1 .. Len(unread) : OfLine(unread[i])
    BY <1>4
  <2> QED
    BY <1>1, <1>2, <1>4, <1>5, <2>1, <2>2 DEF FifoType
<1>7. FreshBytesKept
  BY <1>1, <1>4, FreshIs DEF Fresh
<1>8. Fetched
  <2>1. Apart(size) \in Nat
    BY <1>1, ApartIs
  <2> QED
    BY <1>1, <1>4, <2>1 DEF Fetched
<1> QED
  BY <1>3, <1>6, <1>7, <1>8 DEF FifoInv

LEMMA PutFifo == FifoInv /\ Put => FifoInv'
<1> SUFFICES ASSUME FifoInv, Put PROVE FifoInv'
  OBVIOUS
<1> DEFINE b == <<line[1], line[2], lost>>
           h == Held(in, out)
<1>1. /\ LineType /\ FifoType /\ Fresh(size, cell, in, unread) /\ Fetched
  BY FreshIs DEF FifoInv, FifoType
<1>2. /\ lost \in 0 .. MaxLost /\ size \in Sizes /\ in \in Word /\ out \in Word
      /\ h <= size /\ Len(unread) = h /\ h \in Nat
      /\ cell \in [0 .. size - 1 -> Byte] /\ unread \in Seq(Triple)
      /\ \A i \in 1 .. Len(unread) : OfLine(unread[i])
  BY <1>1 DEF FifoType
<1>3. /\ Arriving /\ Room(size, in, out) >= 1 /\ Advance
      /\ cell' = [cell EXCEPT ![Cell(size, in)] = Value(line)]
      /\ in' = After(in) /\ unread' = Append(unread, b)
      /\ crowded' = (crowded \/ h >= Apart(size))
      /\ lost' = lost /\ size' = size /\ out' = out /\ pc' = pc /\ ch' = ch
  BY DEF Put
<1>4. /\ b \in Triple /\ OfLine(b) /\ Value(line) \in Byte /\ Value(b) = Value(line)
  BY <1>1, <1>2, <1>3, ArrivingByte DEF Now
<1> HIDE DEF b, h
<1>5. LineType'
  BY <1>1, <1>3, LineGoesOn
<1>6. Held(in', out') = h + 1 /\ h + 1 <= size' /\ in' \in Word
  BY <1>2, <1>3, HeldGrows, AfterIs DEF h
<1>7. /\ unread' \in Seq(Triple) /\ Len(unread') = h + 1
      /\ \A i \in 1 .. Len(unread) : unread'[i] = unread[i]
      /\ unread'[h + 1] = b
  BY <1>2, <1>3, <1>4
<1>8. \A i \in 1 .. Len(unread') : OfLine(unread'[i])
  <2> SUFFICES ASSUME NEW i \in 1 .. h + 1 PROVE OfLine(unread'[i])
    BY <1>7
  <2>1. CASE i = h + 1
    BY <1>4, <1>7, <2>1
  <2>2. CASE i # h + 1
    <3>1. i \in 1 .. Len(unread)
      BY <1>2, <2>2
    <3> QED
      BY <1>2, <1>7, <3>1
  <2> QED
    BY <2>1, <2>2
<1>9. cell' \in [0 .. size' - 1 -> Byte]
  BY <1>2, <1>3, <1>4
<1>10. FifoType'
  <2>1. (\A i \in 1 .. Len(unread) : OfLine(unread[i]))'
    BY <1>8 DEF OfLine
  <2>2. pc \in {"test", "copy", "parse"} /\ ch \in Byte /\ crowded \in BOOLEAN
    BY <1>1 DEF FifoType
  <2>3. crowded' \in BOOLEAN
    BY <1>3
  <2> QED
    BY <1>2, <1>3, <1>6, <1>7, <1>9, <2>1, <2>2, <2>3 DEF FifoType
<1>11. FreshBytesKept'
  <2>1. Fresh(size, cell', in', unread')
    <3>1. cell' = [cell EXCEPT ![Cell(size, in)] = Value(b)]
      BY <1>3, <1>4
    <3>2. Fresh(size, [cell EXCEPT ![Cell(size, in)] = Value(b)], After(in),
                Append(unread, b))
      BY <1>1, <1>2, <1>4, FreshAfterPut
    <3> QED
      BY <1>3, <3>1, <3>2
  <2>2. Fresh(size, cell, in, unread)'
    BY <1>3, <2>1 DEF Fresh
  <2>3. (size \in Sizes /\ Len(unread) \in Nat)'
    BY <1>2, <1>3, <1>7
  <2>4. (FreshBytesKept <=> Fresh(size, cell, in, unread))'
    BY <2>3, FreshIs, PTL
  <2> QED
    BY <2>2, <2>4
<1>12. Fetched'
  <2>1. pc' # "test" => unread' # <<>>
    BY <1>2, <1>7
  <2>2. ~crowded' => Len(unread') <= Apart(size')
    <3>1. Apart(size) \in Nat /\ Apart(size') = Apart(size)
      BY <1>2, <1>3, ApartIs
    <3>2. ~crowded' => ~(h >= Apart(size))
      BY <1>3
    <3> QED
      BY <1>2, <1>7, <3>1, <3>2
  <2>3. pc' = "parse" /\ ~crowded' => ch' = Value(unread'[1])
    <3> SUFFICES ASSUME pc' = "parse", ~crowded' PROVE ch' = Value(unread'[1])
      OBVIOUS
    <3>1. unread # <<>> /\ ch = Value(unread[1])
      BY <1>1, <1>3 DEF Fetched
    <3>2. 1 \in 1 .. Len(unread)
      BY <1>2, <3>1
    <3> QED
      BY <1>3, <1>7, <3>1, <3>2 DEF Value
  <2> QED
    BY <2>1, <2>2, <2>3 DEF Fetched, Value
<1> QED
  BY <1>5, <1>10, <1>11, <1>12 DEF FifoInv

LEMMA LossFifo == FifoInv /\ (LoseByte \/ PutFull) => FifoInv'
<1> SUFFICES ASSUME FifoInv, LoseByte \/ PutFull PROVE FifoInv'
  OBVIOUS
<1>1. LineType /\ FifoType /\ FreshBytesKept /\ Fetched
  BY DEF FifoInv
<1>2. lost \in 0 .. MaxLost /\ MaxLost \in Nat
  BY <1>1, FramesAssumption DEF FifoType
<1>3. /\ Advance /\ lost' = lost + 1 /\ lost < MaxLost
      /\ UNCHANGED <<size, in, out, cell, pc, ch, unread, crowded>>
  BY DEF LoseByte, PutFull, fifo
<1>4. Arriving
  <2>1. ASSUME LoseByte PROVE Arriving
    <3>1. line[1] \in DOMAIN Frames
      BY <2>1, FramesAssumption DEF LoseByte
    <3> QED
      BY <3>1, FramesAre DEF Arriving
  <2> QED
    BY <2>1 DEF PutFull
<1>5. LineType'
  BY <1>1, <1>3, <1>4, LineGoesOn
<1>6. lost' \in 0 .. MaxLost
  BY <1>2, <1>3
<1>7. FifoType'
  BY <1>1, <1>3, <1>6 DEF FifoType, OfLine
<1>8. FreshBytesKept'
  BY <1>1, <1>3 DEF FreshBytesKept, Value
<1>9. Fetched'
  BY <1>1, <1>3 DEF Fetched, Value
<1> QED
  BY <1>5, <1>7, <1>8, <1>9 DEF FifoInv

LEMMA GetLenFifo == FifoInv /\ GetLen => FifoInv'
<1> SUFFICES ASSUME FifoInv, GetLen PROVE FifoInv'
  OBVIOUS
<1>1. LineType /\ FifoType /\ FreshBytesKept /\ Fetched
  BY DEF FifoInv
<1>2. /\ Held(in, out) >= 1 /\ pc' = "copy"
      /\ UNCHANGED <<line, lost, size, in, out, cell, ch, unread, crowded>>
  BY DEF GetLen, fifo
<1>3. LineType'
  BY <1>1, <1>2 DEF LineType, Arriving
<1>4. FifoType'
  BY <1>1, <1>2 DEF FifoType, OfLine
<1>5. FreshBytesKept'
  BY <1>1, <1>2 DEF FreshBytesKept, Value
<1>6. unread # <<>>
  <2>1. Len(unread) >= 1
    BY <1>1, <1>2 DEF FifoType
  <2> QED
    BY <2>1
<1>7. Fetched'
  BY <1>1, <1>2, <1>6 DEF Fetched, Value
<1> QED
  BY <1>3, <1>4, <1>5, <1>7 DEF FifoInv

LEMMA GetCopyFifo == FifoInv /\ GetCopy => FifoInv'
<1> SUFFICES ASSUME FifoInv, GetCopy PROVE FifoInv'
  OBVIOUS
<1> DEFINE h == Held(in, out)
<1>1. LineType /\ FifoType /\ Fetched /\ FreshBytesKept /\ Fresh(size, cell, in, unread)
  BY FreshIs DEF FifoInv, FifoType
<1>2. /\ pc = "copy" /\ pc' = "parse" /\ ch' = cell[Cell(size, out)]
      /\ UNCHANGED <<line, lost, size, in, out, cell, unread, crowded>>
  BY DEF GetCopy, fifo
<1>3. LineType'
  BY <1>1, <1>2 DEF LineType, Arriving
<1>4. /\ size \in Sizes /\ in \in Word /\ out \in Word /\ cell \in [0 .. size - 1 -> Byte]
      /\ Len(unread) = h /\ h \in Nat /\ unread \in Seq(Triple)
  BY <1>1 DEF FifoType
<1>5. Cell(size, out) \in 0 .. size - 1
  BY <1>4, CellRange
<1>6. ch' \in Byte
  BY <1>2, <1>4, <1>5
<1>7. FifoType'
  <2>1. (\A i \in 1 .. Len(unread) : OfLine(unread[i]))'
    BY <1>1, <1>2 DEF FifoType, OfLine
  <2> QED
    BY <1>1, <1>2, <1>6, <2>1 DEF FifoType
<1>8. FreshBytesKept'
  BY <1>1, <1>2 DEF FreshBytesKept, Value
<1>9. unread # <<>>
  BY <1>1, <1>2 DEF Fetched
<1>10. ASSUME ~crowded PROVE ch' = Value(unread[1])
  <2>1. h \in 1 .. Len(unread) /\ h \in 1 .. Apart(size)
    <3>1. Len(unread) <= Apart(size) /\ Apart(size) \in Nat
      BY <1>1, <1>4, <1>10, ApartIs DEF Fetched
    <3>2. Len(unread) >= 1
      BY <1>4, <1>9
    <3> QED
      BY <1>4, <3>1, <3>2
  <2>2. (in - h) % WordMod = out
    BY <1>4, HeldIs
  <2> HIDE DEF h
  <2>3. cell[Cell(size, (in - h) % WordMod)] = Value(unread[Len(unread) + 1 - h])
    BY <1>1, <2>1 DEF Fresh
  <2>4. Len(unread) + 1 - h = 1
    BY <1>4
  <2> QED
    BY <1>2, <2>2, <2>3, <2>4
<1>11. Fetched'
  <2>1. (Value(unread[1]))' = Value(unread[1])
    BY <1>2 DEF Value
  <2> QED
    BY <1>1, <1>2, <1>9, <1>10, <2>1 DEF Fetched
<1> QED
  BY <1>3, <1>7, <1>8, <1>11 DEF FifoInv

LEMMA ParseFifo == FifoInv /\ Parse => FifoInv'
<1> SUFFICES ASSUME FifoInv, Parse PROVE FifoInv'
  OBVIOUS
<1> DEFINE h == Held(in, out)
<1>1. LineType /\ FifoType /\ Fetched /\ Fresh(size, cell, in, unread)
  BY FreshIs DEF FifoInv, FifoType
<1>2. /\ pc = "parse" /\ pc' = "test" /\ out' = After(out)
      /\ unread' = SubSeq(unread, 2, Len(unread))
      /\ UNCHANGED <<line, lost, size, in, cell, ch, crowded>>
  BY DEF Parse
<1>3. LineType'
  BY <1>1, <1>2 DEF LineType, Arriving
<1>4. /\ size \in Sizes /\ in \in Word /\ out \in Word /\ h <= size
      /\ Len(unread) = h /\ h \in Nat /\ unread \in Seq(Triple)
      /\ \A i \in 1 .. Len(unread) : OfLine(unread[i])
  BY <1>1 DEF FifoType
<1>5. unread # <<>> /\ h >= 1
  <2>1. unread # <<>>
    BY <1>1, <1>2 DEF Fetched
  <2> QED
    BY <1>4, <2>1
<1>6. /\ unread' \in Seq(Triple) /\ Len(unread') = h - 1
      /\ \A i \in 1 .. h - 1 : unread'[i] = unread[i + 1]
  BY <1>2, <1>4, <1>5, Dropped
<1>7. Held(in', out') = h - 1 /\ out' \in Word
  BY <1>2, <1>4, <1>5, HeldShrinks, AfterIs
<1> HIDE DEF h
<1>8. size \in Nat /\ Apart(size) \in Nat /\ Apart(size') = Apart(size)
  BY <1>2, <1>4, ApartIs
<1>9. FifoType'
  <2>1. (\A i \in 1 .. Len(unread) : OfLine(unread[i]))'
    <3> SUFFICES ASSUME NEW i \in 1 .. h - 1 PROVE OfLine(unread'[i])
      BY <1>6 DEF OfLine
    <3>1. i + 1 \in 1 .. Len(unread)
      BY <1>4
    <3> QED
      BY <1>4, <1>6, <3>1
  <2>2. h - 1 <= size
    BY <1>4, <1>8
  <2> QED
    BY <1>1, <1>2, <1>6, <1>7, <2>1, <2>2 DEF FifoType
<1>10. FreshBytesKept'
  <2>1. Fresh(size, cell, in, unread')
    BY <1>1, <1>2, <1>4, <1>5, FreshAfterGet
  <2>2. Fresh(size, cell, in, unread)'
    BY <1>2, <2>1 DEF Fresh
  <2>3. (size \in Sizes /\ Len(unread) \in Nat)'
    BY <1>2, <1>4, <1>5, <1>6
  <2>4. (FreshBytesKept <=> Fresh(size, cell, in, unread))'
    BY <2>3, FreshIs, PTL
  <2> QED
    BY <2>2, <2>4
<1>11. Fetched'
  <2>1. ~crowded' => Len(unread') <= Apart(size')
    BY <1>1, <1>2, <1>4, <1>6, <1>8 DEF Fetched
  <2> QED
    BY <1>2, <2>1 DEF Fetched
<1> QED
  BY <1>3, <1>9, <1>10, <1>11 DEF FifoInv

LEMMA StutterFifo == FifoInv /\ UNCHANGED vars => FifoInv'
<1> SUFFICES ASSUME FifoInv, UNCHANGED vars PROVE FifoInv'
  OBVIOUS
<1>1. UNCHANGED <<line, lost, size, in, out, cell, pc, ch, unread, crowded>>
  BY DEF vars, fifo
<1>2. LineType /\ FifoType /\ FreshBytesKept /\ Fetched
  BY DEF FifoInv
<1>3. LineType'
  BY <1>1, <1>2 DEF LineType, Arriving
<1>4. FifoType'
  BY <1>1, <1>2 DEF FifoType, OfLine
<1>5. FreshBytesKept'
  BY <1>1, <1>2 DEF FreshBytesKept, Value
<1>6. Fetched'
  BY <1>1, <1>2 DEF Fetched, Value
<1> QED
  BY <1>3, <1>4, <1>5, <1>6 DEF FifoInv

LEMMA FifoInvariant == Spec => []FifoInv
<1>1. Init => FifoInv
  BY InitFifo
<1>2. FifoInv /\ [Next]_vars => FifoInv'
  BY PutFifo, LossFifo, GetLenFifo, GetCopyFifo, ParseFifo, StutterFifo
  DEF Next, ddc_recv_process, Done
<1> QED
  BY <1>1, <1>2, PTL DEF Spec

(* Theorem: the bytes put last wait in cells of their own, for every size,    *)
(* every width of the counts and whatever comes between the steps of a get. *)
THEOREM BytesKept == Spec => []FreshBytesKept
<1>1. FifoInv => FreshBytesKept
  BY DEF FifoInv
<1> QED
  BY <1>1, FifoInvariant, PTL

-----------------------------------------------------------------------------
(* The receiver's own state. *)
LEMMA Numbers ==
  /\ MaxPayload \in Nat /\ CounterMod \in Nat /\ CounterMod > MaxPayload + 1
  /\ \A c \in Nat : c + 1 < CounterMod => (c + 1) % CounterMod = c + 1
  /\ \A c \in Nat : (c + 1) % CounterMod \in 0 .. CounterMod - 1
  /\ (0 + 1) % CounterMod = 1
<1>1. MaxPayload \in Nat /\ CounterMod \in Nat /\ CounterMod > MaxPayload + 1
  BY FramesAssumption DEF Short
<1>2. CounterMod \in Nat \ {0}
  BY <1>1
<1>3. ASSUME NEW c \in Nat, c + 1 < CounterMod PROVE (c + 1) % CounterMod = c + 1
  <2>1. PICK x \in 0 .. CounterMod - 1 : x = c + 1
    BY <1>2, <1>3
  <2>2. x % CounterMod = x
    BY <1>2, Within
  <2> QED
    BY <2>1, <2>2
<1>4. ASSUME NEW c \in Nat PROVE (c + 1) % CounterMod \in 0 .. CounterMod - 1
  <2>1. PICK x \in Int : x = c + 1
    BY <1>4
  <2>2. x % CounterMod \in 0 .. CounterMod - 1
    BY <1>2, Divides
  <2> QED
    BY <2>1, <2>2
<1>5. (0 + 1) % CounterMod = 1
  BY <1>1, <1>3
<1> QED
  BY <1>1, <1>3, <1>4, <1>5

LEMMA Appended ==
  ASSUME NEW S, NEW s \in Seq(S), NEW b \in S
  PROVE  /\ Append(s, b) \in Seq(S) /\ Len(s) \in Nat
         /\ Len(Append(s, b)) = Len(s) + 1 /\ Append(s, b)[Len(s) + 1] = b
         /\ \A i \in 1 .. Len(s) : Append(s, b)[i] = s[i]
  OBVIOUS

LEMMA InitParser == Init => ParserInv
<1> SUFFICES ASSUME Init PROVE ParserInv
  OBVIOUS
<1>1. state = "head" /\ head = <<0, 0>> /\ counter = 0 /\ got = <<>>
  BY DEF Init
<1>2. 0 \in Byte /\ 0 \in 0 .. CounterMod - 1
  BY Numbers DEF Byte
<1>3. got \in Seq(Byte)
  BY <1>1
<1>4. ParserType
  BY <1>1, <1>2, <1>3 DEF ParserType
<1>5. Stored
  BY <1>1 DEF Stored
<1> QED
  BY <1>4, <1>5 DEF ParserInv

LEMMA ParseParser == ParserInv /\ ch \in Byte /\ Parse => ParserInv'
<1> SUFFICES ASSUME ParserInv, ch \in Byte, Parse PROVE ParserInv'
  OBVIOUS
<1> DEFINE n == PayloadLen
<1>1. /\ state \in {"head", "id", "ch", "ack", "len", "payload", "crc"}
      /\ head \in Byte \X Byte /\ counter \in 0 .. CounterMod - 1
      /\ got \in Seq(Byte) /\ Stored /\ counter \in Nat /\ Len(got) \in Nat
  BY Numbers DEF ParserInv, ParserType
<1>2. /\ 0 \in 0 .. CounterMod - 1 /\ 1 \in 0 .. CounterMod - 1
      /\ (0 + 1) % CounterMod = 1 /\ (counter + 1) % CounterMod \in 0 .. CounterMod - 1
  BY <1>1, Numbers
<1>3. ASSUME Store
      PROVE  /\ got' \in Seq(Byte) /\ Len(got') = Len(got) + 1
             /\ got'[Len(got) + 1] = ch
             /\ \A i \in 1 .. Len(got) : got'[i] = got[i]
  BY <1>1, <1>3, Appended DEF Store
<1>4. ASSUME Len(got) >= 6, \A i \in 1 .. Len(got) : got'[i] = got[i]
      PROVE  n \in Nat /\ PayloadLen' = n
  <2>1. 5 \in 1 .. Len(got) /\ 6 \in 1 .. Len(got)
    BY <1>1, <1>4
  <2>2. got[5] \in Nat /\ got[6] \in Nat
    BY <1>1, <2>1, ByteIs, SMTT(30)
  <2> QED
    BY <1>4, <2>1, <2>2 DEF PayloadLen, Field
<1>5. CASE InHead
  <2>1. /\ head' = Seen(ch) /\ state' \in {"id", "head"} /\ got' = <<>>
        /\ counter' = counter /\ state = "head"
    BY <1>5 DEF InHead
  <2>2. head' \in Byte \X Byte
    BY <1>1, <2>1 DEF Seen
  <2>3. counter' = 0
    BY <1>1, <2>1 DEF Stored
  <2>4. got' \in Seq(Byte) /\ Len(got') = 0
    BY <2>1
  <2>5. ParserType'
    BY <1>2, <2>1, <2>2, <2>3, <2>4 DEF ParserType
  <2>6. Stored'
    BY <2>1, <2>3, <2>4 DEF Stored
  <2> QED
    BY <2>5, <2>6 DEF ParserInv
<1>6. CASE InFields
  <2>1. Store /\ head' = head /\ state \in {"id", "ch", "ack"}
    BY <1>6 DEF InFields
  <2>2. \/ state = "id" /\ counter = 0 /\ state' = "id" /\ counter' = 1
        \/ state = "id" /\ counter = 1 /\ state' = "ch" /\ counter' = 0
        \/ state = "ch" /\ state' = "ack" /\ counter' = 0
        \/ state = "ack" /\ state' = "len" /\ counter' = 0
    BY <1>1, <1>6, <2>1 DEF InFields, Goto, Stored
  <2>3. ParserType'
    BY <1>1, <1>2, <1>3, <2>1, <2>2 DEF ParserType
  <2>4. Stored'
    BY <1>1, <1>3, <2>1, <2>2, SMTT(30) DEF Stored
  <2> QED
    BY <2>3, <2>4 DEF ParserInv
<1>7. CASE InLen
  <2>1. Store /\ head' = head /\ state = "len"
    BY <1>7 DEF InLen
  <2>2. counter \in {0, 1} /\ Len(got) = 4 + counter
    BY <1>1, <2>1 DEF Stored
  <2>3. CASE counter = 0
    <3>1. state' = "len" /\ counter' = 1
      BY <1>2, <1>7, <2>1, <2>3 DEF InLen, Count
    <3>2. ParserType'
      BY <1>1, <1>2, <1>3, <2>1, <3>1 DEF ParserType
    <3>3. Stored'
      BY <1>3, <2>1, <2>2, <2>3, <3>1 DEF Stored
    <3> QED
      BY <3>2, <3>3 DEF ParserInv
  <2>4. CASE counter = 1
    <3>1. /\ counter' = 0 /\ state' \in {"payload", "head"}
          /\ state' = "payload" => got[5] + 256 * ch <= MaxPayload
      BY <1>7, <2>4 DEF InLen, Goto, Fits
    <3>2. Len(got') = 6 /\ PayloadLen' = got[5] + 256 * ch
      <4>1. got'[5] = got[5] /\ got'[6] = ch
        BY <1>3, <2>1, <2>2, <2>4
      <4> QED
        BY <1>3, <2>1, <2>2, <2>4, <4>1 DEF PayloadLen, Field
    <3>3. PayloadLen' \in Nat
      <4>1. got[5] \in Byte
        <5>1. 5 \in 1 .. Len(got) /\ got \in Seq(Byte)
          BY <1>1, <2>2, <2>4
        <5> QED
          BY <5>1
      <4>2. got[5] \in Nat /\ ch \in Nat
        BY <4>1, ByteIs
      <4> QED
        BY <3>2, <4>2
    <3>4. ParserType'
      BY <1>1, <1>2, <1>3, <2>1, <3>1 DEF ParserType
    <3>5. Stored'
      BY <3>1, <3>2, <3>3 DEF Stored
    <3> QED
      BY <3>4, <3>5 DEF ParserInv
  <2> QED
    BY <2>2, <2>3, <2>4
<1>8. CASE InPayload
  <2>1. /\ state = "payload" /\ head' = head
        /\ got' = IF counter < MaxPayload THEN Append(got, ch) ELSE got
    BY <1>8 DEF InPayload
  <2>2. /\ Len(got) >= 6 /\ n <= MaxPayload
        /\ n # 0 => counter < n /\ Len(got) = 6 + counter
    BY <1>1, <2>1 DEF Stored
  <2>3. /\ got' \in Seq(Byte) /\ \A i \in 1 .. Len(got) : got'[i] = got[i]
        /\ Len(got') = IF counter < MaxPayload THEN Len(got) + 1 ELSE Len(got)
    BY <1>1, <1>3, <2>1 DEF Store
  <2>4. n \in Nat /\ PayloadLen' = n /\ Len(got') >= 6
    BY <1>1, <1>4, <2>2, <2>3
  <2> HIDE DEF n
  <2>5. ASSUME n # 0
        PROVE (counter + 1) % CounterMod = counter + 1 /\ Len(got') = 7 + counter
    BY <1>1, <2>2, <2>3, <2>4, <2>5, Numbers
  <2>6. CASE (counter + 1) % CounterMod = n
    <3>1. state' = "crc" /\ counter' = 0
      BY <1>8, <2>6 DEF InPayload, Goto, n
    <3>2. ParserType'
      BY <1>1, <1>2, <2>1, <2>3, <3>1 DEF ParserType
    <3>3. n # 0 => Len(got') = 6 + n
      BY <1>1, <2>5, <2>6
    <3>4. Stored'
      BY <2>2, <2>4, <3>1, <3>3 DEF Stored
    <3> QED
      BY <3>2, <3>4 DEF ParserInv
  <2>7. CASE (counter + 1) % CounterMod # n
    <3>1. state' = "payload" /\ counter' = (counter + 1) % CounterMod
      BY <1>8, <2>1, <2>7 DEF InPayload, Count, n
    <3>2. ParserType'
      BY <1>1, <1>2, <2>1, <2>3, <3>1 DEF ParserType
    <3>3. n # 0 => counter' < n /\ Len(got') = 6 + counter'
      BY <1>1, <2>2, <2>4, <2>5, <2>7, <3>1
    <3>4. Stored'
      BY <2>2, <2>4, <3>1, <3>3 DEF Stored
    <3> QED
      BY <3>2, <3>4 DEF ParserInv
  <2> QED
    BY <2>6, <2>7
<1>9. CASE InCrc
  <2>1. Store /\ head' = head /\ state = "crc"
    BY <1>9 DEF InCrc
  <2>2. /\ counter \in {0, 1} /\ Len(got) >= 6 + counter /\ n <= MaxPayload
        /\ n # 0 => Len(got) = 6 + n + counter
    BY <1>1, <2>1 DEF Stored
  <2>3. CASE counter = 0
    <3>1. state' = "crc" /\ counter' = 1
      BY <1>2, <1>9, <2>1, <2>3 DEF InCrc, Count
    <3>2. ParserType'
      BY <1>1, <1>2, <1>3, <2>1, <3>1 DEF ParserType
    <3>3. n \in Nat /\ PayloadLen' = n
      BY <1>3, <1>4, <2>1, <2>2, <2>3
    <3> HIDE DEF n
    <3>4. Len(got') >= 7 /\ (n # 0 => Len(got') = 7 + n)
      BY <1>1, <1>3, <2>1, <2>2, <2>3, <3>3
    <3>5. Stored'
      BY <2>2, <3>1, <3>3, <3>4 DEF Stored
    <3> QED
      BY <3>2, <3>5 DEF ParserInv
  <2>4. CASE counter = 1
    <3>1. state' = "head" /\ counter' = 0
      BY <1>9, <2>4 DEF InCrc, Goto
    <3>2. ParserType'
      BY <1>1, <1>2, <1>3, <2>1, <3>1 DEF ParserType
    <3>3. Stored'
      BY <3>1 DEF Stored
    <3> QED
      BY <3>2, <3>3 DEF ParserInv
  <2> QED
    BY <2>2, <2>3, <2>4
<1> QED
  BY <1>5, <1>6, <1>7, <1>8, <1>9 DEF Parse

LEMMA ParserInvariant == Spec => []ParserInv
<1>1. Init => ParserInv
  BY InitParser
<1>2. FifoInv /\ ParserInv /\ [Next]_vars => ParserInv'
  <2> SUFFICES ASSUME FifoInv, ParserInv, [Next]_vars PROVE ParserInv'
    OBVIOUS
  <2>1. CASE Parse
    BY <2>1, ParseParser DEF FifoInv, FifoType
  <2>2. CASE UNCHANGED parser
    <3>1. UNCHANGED <<state, head, counter, got>>
      BY <2>2 DEF parser
    <3> QED
      BY <3>1 DEF ParserInv, ParserType, Stored, PayloadLen, Field
  <2> QED
    BY <2>1, <2>2
    DEF Next, ddc_recv_process, Done, vars, LoseByte, Put, PutFull, GetLen, GetCopy
<1> QED
  BY <1>1, <1>2, FifoInvariant, PTL DEF Spec

(* Theorem: no byte is stored behind the payload of recv_frame, whatever is   *)
(* lost and for every length that a cut frame may show, except 0.           *)
THEOREM PayloadFits == Spec => []PayloadInBounds
<1>1. ParserInv => PayloadInBounds
  <2> SUFFICES ASSUME ParserInv, state = "payload", PayloadLen # 0
               PROVE  counter < MaxPayload
    BY DEF PayloadInBounds
  <2>1. /\ Len(got) >= 6 /\ PayloadLen <= MaxPayload /\ counter < PayloadLen
        /\ got \in Seq(Byte) /\ counter \in Nat
    BY Numbers DEF ParserInv, ParserType, Stored
  <2>2. got[5] \in Byte /\ got[6] \in Byte
    BY <2>1
  <2>3. PayloadLen \in Nat
    BY <2>2, ByteIs DEF PayloadLen, Field
  <2> QED
    BY <2>1, <2>3, Numbers
<1> QED
  BY <1>1, ParserInvariant, PTL

(* Theorem: the state keeps its types, and counter stands inside the field    *)
(* that is being read.                                                      *)
THEOREM TypeCorrect == Spec => []TypeOK
<1>1. FifoInv /\ ParserInv => TypeOK
  <2> SUFFICES ASSUME FifoInv, ParserInv PROVE TypeOK
    OBVIOUS
  <2>1. LineType /\ FifoType /\ ParserType /\ Stored
    BY DEF FifoInv, ParserInv
  <2> QED
    BY <2>1 DEF LineType, FifoType, ParserType, Stored, TypeOK
<1> QED
  BY <1>1, FifoInvariant, ParserInvariant, PTL

-----------------------------------------------------------------------------
(* The receiver reading a whole frame. *)
LEMMA SameGrows ==
  ASSUME NEW f \in DOMAIN Frames, NEW i \in Nat, i >= 3,
         got \in Seq(Byte), ch \in Byte, Len(got) = i - 3, Same(f, i - 3),
         ch = Wire[f][i], got' = Append(got, ch)
  PROVE  Len(got') = i - 2 /\ Same(f, i - 2)'
<1>1. /\ Len(got') = i - 2 /\ got'[i - 2] = ch
      /\ \A j \in 1 .. i - 3 : got'[j] = got[j]
  <2>1. /\ Len(got') = Len(got) + 1 /\ got'[Len(got) + 1] = ch
        /\ \A j \in 1 .. Len(got) : got'[j] = got[j]
    BY Appended
  <2> QED
    BY <2>1
<1>2. ASSUME NEW j \in 1 .. i - 2 PROVE got'[j] = Wire[f][j + 2]
  <2>1. CASE j = i - 2
    BY <1>1, <2>1
  <2>2. CASE j # i - 2
    <3>1. j \in 1 .. i - 3
      BY <2>2
    <3> QED
      BY <1>1, <3>1 DEF Same
  <2> QED
    BY <2>1, <2>2
<1>3. Same(f, i - 2)'
  BY <1>2 DEF Same
<1> QED
  BY <1>1, <1>3

LEMMA TrackStep ==
  ASSUME NEW f \in DOMAIN Frames, Frames[f].payload # <<>>,
         NEW i \in 1 .. Len(Wire[f]), ParserInv, ch \in Byte, ch = Wire[f][i],
         i = 1 => state = "head", i > 1 => Stands(f, i - 1), Parse
  PROVE  Stands(f, i)'
<1> DEFINE n == Len(Frames[f].payload)
<1>1. /\ n \in Nat /\ n >= 1 /\ n <= MaxPayload /\ Len(Wire[f]) = 10 + n
      /\ Wire[f] \in Seq(Byte) /\ Wire[f][1] = H0 /\ Wire[f][2] = H1
      /\ Wire[f][7] + 256 * Wire[f][8] = n
  BY FrameIs, WireIs
<1>2. /\ got \in Seq(Byte) /\ head \in Byte \X Byte /\ counter \in Nat /\ Stored
      /\ i \in Nat /\ i >= 1 /\ i <= 10 + n
  BY <1>1, Numbers DEF ParserInv, ParserType
<1>3. ASSUME i > 1
      PROVE  /\ i = 2 => state = "head" /\ head[2] = H0
             /\ i \in 3 .. 10 + n => Len(got) = i - 3 /\ Same(f, i - 3)
             /\ i \in {3, 4} => state = "id" /\ counter = i - 3
             /\ i = 5 => state = "ch" /\ counter = 0
             /\ i = 6 => state = "ack" /\ counter = 0
             /\ i \in {7, 8} => state = "len" /\ counter = i - 7
             /\ i \in 9 .. 8 + n => state = "payload" /\ counter = i - 9
             /\ i \in 9 + n .. 10 + n => state = "crc" /\ counter = i - 9 - n
  <2>1. PICK k \in Nat : k = i - 1
    BY <1>2, <1>3
  <2>2. Stands(f, k)
    BY <1>3, <2>1
  <2>3. /\ k = 1 => state = "head" /\ head[2] = H0
        /\ k \in 2 .. 9 + n => Len(got) = k - 2 /\ Same(f, k - 2)
        /\ k \in {2, 3} => state = "id" /\ counter = k - 2
        /\ k = 4 => state = "ch" /\ counter = 0
        /\ k = 5 => state = "ack" /\ counter = 0
        /\ k \in {6, 7} => state = "len" /\ counter = k - 6
        /\ k \in 8 .. 7 + n => state = "payload" /\ counter = k - 8
        /\ k \in 8 + n .. 9 + n => state = "crc" /\ counter = k - 8 - n
    BY <2>2 DEF Stands
  <2> HIDE DEF n
  <2>4. k - 2 = i - 3 /\ k - 6 = i - 7 /\ k - 8 = i - 9 /\ k - 8 - n = i - 9 - n
    BY <1>1, <1>2, <2>1, SMTT(30)
  <2>5. i \in 3 .. 10 + n => Len(got) = i - 3 /\ Same(f, i - 3)
    BY <1>1, <1>2, <2>1, <2>3, <2>4
  <2>6. /\ i = 2 => state = "head" /\ head[2] = H0
        /\ i \in {3, 4} => state = "id" /\ counter = i - 3
        /\ i = 5 => state = "ch" /\ counter = 0
        /\ i = 6 => state = "ack" /\ counter = 0
        /\ i \in {7, 8} => state = "len" /\ counter = i - 7
    BY <1>2, <2>1, <2>3
  <2>7. i \in 9 .. 8 + n => state = "payload" /\ counter = i - 9
    <3>1. i \in 9 .. 8 + n => k \in 8 .. 7 + n
      BY <1>1, <1>2, <2>1, SMTT(30)
    <3> QED
      BY <2>3, <2>4, <3>1
  <2>8. i \in 9 + n .. 10 + n => state = "crc" /\ counter = i - 9 - n
    BY <1>1, <1>2, <2>1, <2>3
  <2> QED
    BY <2>5, <2>6, <2>7, <2>8
<1>4. ASSUME i >= 3, i <= 9 + n, Store PROVE Len(got') = i - 2 /\ Same(f, i - 2)'
  <2>1. Len(got) = i - 3 /\ Same(f, i - 3)
    BY <1>1, <1>2, <1>3, <1>4
  <2> QED
    BY <1>2, <1>4, <2>1, SameGrows DEF Store
<1>5. ASSUME i = 1 => state' = "head" /\ head'[2] = H0,
             i \in 2 .. 9 + n => Len(got') = i - 2 /\ Same(f, i - 2)',
             i \in {2, 3} => state' = "id" /\ counter' = i - 2,
             i = 4 => state' = "ch" /\ counter' = 0,
             i = 5 => state' = "ack" /\ counter' = 0,
             i \in {6, 7} => state' = "len" /\ counter' = i - 6,
             i \in 8 .. 7 + n => state' = "payload" /\ counter' = i - 8,
             i \in 8 + n .. 9 + n => state' = "crc" /\ counter' = i - 8 - n
      PROVE  Stands(f, i)'
  BY <1>5 DEF Stands
<1> HIDE DEF n
<1>6. CASE i = 1
  <2>1. state = "head" /\ ch = H0
    BY <1>1, <1>6
  <2>2. InHead
    BY <2>1 DEF Parse, InFields, InLen, InPayload, InCrc
  <2>3. head' = <<head[2], H0>> /\ H0 # H1
    BY <2>1, <2>2 DEF InHead, Seen, H0, H1
  <2>4. state' = "head"
    BY <2>2, <2>3 DEF InHead
  <2> QED
    BY <1>1, <1>5, <1>6, <2>3, <2>4
<1>7. CASE i = 2
  <2>1. state = "head" /\ head[2] = H0 /\ ch = H1
    BY <1>1, <1>3, <1>7
  <2>2. InHead
    BY <2>1 DEF Parse, InFields, InLen, InPayload, InCrc
  <2>3. head' = <<H0, H1>>
    BY <2>1, <2>2 DEF InHead, Seen
  <2>4. state' = "id" /\ got' = <<>> /\ counter' = counter
    BY <2>2, <2>3 DEF InHead
  <2>5. counter' = 0
    BY <1>2, <2>1, <2>4 DEF Stored
  <2>6. Len(got') = 0 /\ Same(f, 0)'
    BY <2>4 DEF Same
  <2> QED
    BY <1>1, <1>5, <1>7, <2>4, <2>5, <2>6
<1>8. CASE i \in 3 .. 6
  <2>1. state \in {"id", "ch", "ack"}
    BY <1>3, <1>8
  <2>2. InFields
    BY <2>1 DEF Parse, InHead, InLen, InPayload, InCrc
  <2>3. Len(got') = i - 2 /\ Same(f, i - 2)'
    BY <1>1, <1>4, <1>8, <2>2, SMTT(30) DEF InFields
  <2>4. /\ i = 3 => state' = "id" /\ counter' = 1
        /\ i = 4 => state' = "ch" /\ counter' = 0
        /\ i = 5 => state' = "ack" /\ counter' = 0
        /\ i = 6 => state' = "len" /\ counter' = 0
    <3>1. \/ state = "id" /\ counter = 0 /\ state' = "id" /\ counter' = 1
          \/ state = "id" /\ counter = 1 /\ state' = "ch" /\ counter' = 0
          \/ state = "ch" /\ state' = "ack" /\ counter' = 0
          \/ state = "ack" /\ state' = "len" /\ counter' = 0
      BY <1>2, <2>1, <2>2 DEF InFields, Goto, Stored
    <3>2. /\ i = 3 => state = "id" /\ counter = 0
          /\ i = 4 => state = "id" /\ counter = 1
          /\ i = 5 => state = "ch"
          /\ i = 6 => state = "ack"
      BY <1>3, <1>8
    <3> QED
      BY <3>1, <3>2
  <2> QED
    BY <1>1, <1>5, <1>8, <2>3, <2>4
<1>9. CASE i = 7
  <2>1. state = "len" /\ counter = 0
    BY <1>3, <1>9
  <2>2. InLen
    BY <2>1 DEF Parse, InHead, InFields, InPayload, InCrc
  <2>3. Len(got') = i - 2 /\ Same(f, i - 2)'
    BY <1>1, <1>4, <1>9, <2>2 DEF InLen
  <2>4. (0 + 1) % CounterMod = 1
    BY Numbers
  <2>5. state' = "len" /\ counter' = 1
    BY <2>1, <2>2, <2>4 DEF InLen, Count
  <2> QED
    BY <1>1, <1>5, <1>9, <2>3, <2>5
<1>10. CASE i = 8
  <2>1. state = "len" /\ counter = 1
    BY <1>3, <1>10
  <2>2. InLen
    BY <2>1 DEF Parse, InHead, InFields, InPayload, InCrc
  <2>3. Len(got') = i - 2 /\ Same(f, i - 2)'
    BY <1>1, <1>4, <1>10, <2>2 DEF InLen
  <2>4. got[5] + 256 * ch = n
    <3>1. Same(f, 5)
      BY <1>1, <1>3, <1>10
    <3>2. got[5] = Wire[f][7]
      <4>1. 5 \in 1 .. 5 /\ 5 + 2 = 7
        OBVIOUS
      <4> QED
        BY <3>1, <4>1 DEF Same
    <3> QED
      BY <1>1, <1>10, <3>2
  <2>5. state' = "payload" /\ counter' = 0
    BY <1>1, <2>1, <2>2, <2>4 DEF InLen, Goto, Fits
  <2> QED
    BY <1>1, <1>5, <1>10, <2>3, <2>5
<1>11. ASSUME i >= 9, i <= 10 + n PROVE PayloadLen = n
  <2>1. Same(f, i - 3)
    BY <1>1, <1>2, <1>3, <1>11
  <2>2. got[5] = Wire[f][7] /\ got[6] = Wire[f][8]
    <3>1. 5 \in 1 .. i - 3 /\ 6 \in 1 .. i - 3 /\ 5 + 2 = 7 /\ 6 + 2 = 8
      BY <1>2, <1>11
    <3> QED
      BY <2>1, <3>1 DEF Same
  <2> QED
    BY <1>1, <2>2 DEF PayloadLen, Field
<1>12. CASE i \in 9 .. 8 + n
  <2>1. state = "payload" /\ counter = i - 9 /\ PayloadLen = n
    BY <1>1, <1>3, <1>11, <1>12
  <2>2. InPayload
    BY <2>1 DEF Parse, InHead, InFields, InLen, InCrc
  <2>3. counter < MaxPayload /\ counter + 1 < CounterMod /\ counter + 1 = i - 8
    BY <1>1, <1>12, <2>1, Numbers, SMTT(30)
  <2>4. (counter + 1) % CounterMod = i - 8
    BY <1>2, <2>3, Numbers
  <2>5. Store
    BY <2>2, <2>3 DEF InPayload, Store
  <2>6. Len(got') = i - 2 /\ Same(f, i - 2)'
    BY <1>1, <1>4, <1>12, <2>5
  <2>7. i = 8 + n => state' = "crc" /\ counter' = 0
    BY <1>1, <2>1, <2>2, <2>4, SMTT(30) DEF InPayload, Goto
  <2>8. i # 8 + n => state' = "payload" /\ counter' = i - 8
    <3>1. i # 8 + n => i - 8 # n
      BY <1>1, <1>2
    <3> QED
      BY <2>1, <2>2, <2>4, <3>1 DEF InPayload, Count
  <2> QED
    BY <1>1, <1>5, <1>12, <2>6, <2>7, <2>8, SMTT(30)
<1>13. CASE i = 9 + n
  <2>1. state = "crc" /\ counter = 0
    BY <1>1, <1>3, <1>13
  <2>2. InCrc
    BY <2>1 DEF Parse, InHead, InFields, InLen, InPayload
  <2>3. Len(got') = i - 2 /\ Same(f, i - 2)'
    BY <1>1, <1>2, <1>4, <1>13, <2>2 DEF InCrc
  <2>4. (0 + 1) % CounterMod = 1
    BY Numbers
  <2>5. state' = "crc" /\ counter' = 1
    BY <2>1, <2>2, <2>4 DEF InCrc, Count
  <2> QED
    BY <1>1, <1>5, <1>13, <2>3, <2>5
<1>14. CASE i = 10 + n
  BY <1>1, <1>5, <1>14, SMTT(30)
<1>15. \/ i = 1 \/ i = 2 \/ i \in 3 .. 6 \/ i = 7 \/ i = 8
       \/ i \in 9 .. 8 + n \/ i = 9 + n \/ i = 10 + n
  BY <1>1, <1>2
<1> QED
  BY <1>6, <1>7, <1>8, <1>9, <1>10, <1>12, <1>13, <1>14, <1>15, Zenon

(* The step of a byte that follows those of a frame read so far. *)
LEMMA FollowedBy ==
  ASSUME FifoInv, Tracked, Parse, ~crowded',
         NEW f \in DOMAIN Frames, Frames[f].payload # <<>>,
         NEW i \in 1 .. Len(Wire[f]), whole'[1] = f, whole'[2] = i
  PROVE  /\ ch = Wire[f][i] /\ ch \in Byte /\ Place(unread[1]) = <<f, i>>
         /\ i = 1 => state = "head"
         /\ i > 1 => Stands(f, i - 1)
<1>1. /\ f \in Nat /\ f # 0 /\ i \in Nat /\ i >= 1 /\ Len(Wire[f]) \in Nat
      /\ i <= Len(Wire[f])
  BY FramesAre, Lengths
<1>2. /\ pc = "parse" /\ crowded' = crowded
      /\ latest' = IF unread = <<>> THEN latest ELSE unread[1]
      /\ whole' = IF unread # <<>> /\ Follows(latest')
                    THEN <<latest'[1], latest'[2]>> ELSE <<0, 0>>
  BY DEF Parse
<1>3. unread # <<>> /\ ch = Value(unread[1]) /\ ch \in Byte /\ latest' = unread[1]
  BY <1>2 DEF FifoInv, Fetched, FifoType
<1>4. Follows(latest') /\ whole' = <<unread[1][1], unread[1][2]>>
  BY <1>1, <1>2, <1>3
<1>5. unread[1][1] = f /\ unread[1][2] = i
  BY <1>4
<1>6. ch = Wire[f][i] /\ Place(unread[1]) = <<f, i>>
  BY <1>3, <1>5 DEF Value, Place
<1>7. i = 1 => state = "head"
  BY <1>3, <1>4, <1>5 DEF Follows
<1>8. i > 1 => Stands(f, i - 1)
  <2> SUFFICES ASSUME i > 1 PROVE Stands(f, i - 1)
    OBVIOUS
  <2>1. whole = <<f, i - 1>>
    BY <1>3, <1>4, <1>5 DEF Follows
  <2>2. whole[1] = f /\ whole[2] = i - 1 /\ i - 1 \in 1 .. Len(Wire[f])
    BY <1>1, <2>1
  <2>3. Stands(f, whole[2])
    BY <1>2, <2>2 DEF Tracked
  <2> QED
    BY <2>2, <2>3
<1> QED
  BY <1>3, <1>6, <1>7, <1>8

LEMMA ParseTracked == FifoInv /\ ParserInv /\ Tracked /\ Parse => Tracked'
<1> SUFFICES ASSUME FifoInv, ParserInv, Tracked, Parse, ~crowded',
                    NEW f \in DOMAIN Frames, Frames[f].payload # <<>>,
                    whole'[1] = f, whole'[2] \in 1 .. Len(Wire[f])
             PROVE  Stands(f, whole[2])'
  BY DEF Tracked
<1>1. PICK i \in 1 .. Len(Wire[f]) : i = whole'[2]
  OBVIOUS
<1>2. /\ ch = Wire[f][i] /\ ch \in Byte
      /\ i = 1 => state = "head"
      /\ i > 1 => Stands(f, i - 1)
  BY <1>1, FollowedBy
<1>3. Stands(f, i)'
  BY <1>2, TrackStep
<1> QED
  BY <1>1, <1>3

(* What the other steps leave alone. *)
LEMMA OtherSteps ==
  ASSUME [Next]_vars, ~Parse
  PROVE  UNCHANGED <<parser, history>> /\ (~crowded' => ~crowded)
<1>1. CASE LoseByte
  BY <1>1 DEF LoseByte
<1>2. CASE Put
  <2>1. UNCHANGED <<parser, history>>
    BY <1>2 DEF Put
  <2>2. crowded' = (crowded \/ Held(in, out) >= Apart(size))
    BY <1>2 DEF Put
  <2>3. ~crowded' => ~crowded
    BY <2>2, Zenon
  <2> QED
    BY <2>1, <2>3
<1>3. CASE PutFull
  BY <1>3 DEF PutFull
<1>4. CASE GetLen \/ GetCopy
  BY <1>4 DEF GetLen, GetCopy
<1>5. CASE UNCHANGED vars
  BY <1>5 DEF vars
<1> QED
  BY <1>1, <1>2, <1>3, <1>4, <1>5 DEF Next, ddc_recv_process, Done

LEMMA TrackedInvariant == Spec => []Tracked
<1>1. Init => Tracked
  <2> SUFFICES ASSUME Init PROVE Tracked
    OBVIOUS
  <2>1. whole = <<0, 0>>
    BY DEF Init
  <2>2. whole[2] = 0
    BY <2>1
  <2> QED
    BY <2>2 DEF Tracked
<1>2. FifoInv /\ ParserInv /\ Tracked /\ [Next]_vars => Tracked'
  <2> SUFFICES ASSUME FifoInv, ParserInv, Tracked, [Next]_vars PROVE Tracked'
    OBVIOUS
  <2>1. CASE Parse
    BY <2>1, ParseTracked
  <2>2. CASE ~Parse
    <3>1. UNCHANGED <<state, head, counter, got, whole>> /\ (~crowded' => ~crowded)
      BY <2>2, OtherSteps DEF parser, history
    <3> QED
      BY <3>1 DEF Tracked, Stands, Same
  <2> QED
    BY <2>1, <2>2
<1> QED
  BY <1>1, <1>2, FifoInvariant, ParserInvariant, PTL DEF Spec

-----------------------------------------------------------------------------
(* What is checked of a frame that has been stored. *)
LEMMA PartIs ==
  ASSUME NEW q \in Seq(Byte), NEW m \in Nat, NEW n \in Nat,
         m >= 1, n >= m, n <= Len(q)
  PROVE  /\ SubSeq(q, m, n) \in Seq(Byte) /\ Len(SubSeq(q, m, n)) = n - m + 1
         /\ \A i \in 1 .. n - m + 1 : SubSeq(q, m, n)[i] = q[m + i - 1]
<1>1. m \in Int /\ n \in Int /\ \A i \in m .. n : q[i] \in Byte
  OBVIOUS
<1> QED
  BY <1>1, SubSeqProperties

LEMMA TwoBehind ==
  ASSUME NEW x \in Seq(Byte), NEW y \in Seq(Byte), Len(y) = 2
  PROVE  /\ x \o y \in Seq(Byte) /\ Len(x \o y) = Len(x) + 2
         /\ \A i \in 1 .. Len(x) : (x \o y)[i] = x[i]
         /\ (x \o y)[Len(x) + 1] = y[1] /\ (x \o y)[Len(x) + 2] = y[2]
<1>1. PICK u : u = x \o y
  OBVIOUS
<1>2. /\ u \in Seq(Byte) /\ Len(u) = Len(x) + Len(y)
      /\ \A i \in 1 .. Len(x) + Len(y) :
           u[i] = IF i <= Len(x) THEN x[i] ELSE y[i - Len(x)]
  BY <1>1, ConcatProperties
<1>3. PICK m \in Nat : m = Len(x)
  OBVIOUS
<1>4. Len(u) = m + 2 /\ \A i \in 1 .. m + 2 : u[i] = IF i <= m THEN x[i] ELSE y[i - m]
  BY <1>2, <1>3
<1>5. \A i \in 1 .. m : u[i] = x[i]
  BY <1>4
<1>6. /\ m + 1 \in 1 .. m + 2 /\ ~(m + 1 <= m) /\ m + 1 - m = 1
      /\ m + 2 \in 1 .. m + 2 /\ ~(m + 2 <= m) /\ m + 2 - m = 2
  OBVIOUS
<1>7. u[m + 1] = y[1]
  BY <1>4, <1>6
<1>8. u[m + 2] = y[2]
  BY <1>4, <1>6
<1> QED
  BY <1>1, <1>2, <1>3, <1>4, <1>5, <1>7, <1>8

LEMMA EndsJoined ==
  ASSUME NEW q \in Seq(Byte), NEW m \in Nat, m >= 1, m + 2 <= Len(q),
         NEW t, t = SubSeq(q, 1, m) \o SubSeq(q, Len(q) - 1, Len(q))
  PROVE  /\ t \in Seq(Byte) /\ Len(t) = m + 2 /\ \A i \in 1 .. m : t[i] = q[i]
         /\ t[m + 1] = q[Len(q) - 1] /\ t[m + 2] = q[Len(q)]
<1>1. PICK a : a = SubSeq(q, 1, m)
  OBVIOUS
<1>2. PICK c \in Nat, d \in Nat : c = Len(q) - 1 /\ d = Len(q) /\ c >= 1
  <2>1. Len(q) \in Nat
    OBVIOUS
  <2>2. Len(q) - 1 \in Nat /\ Len(q) - 1 >= 1
    BY <2>1
  <2> QED
    BY <2>1, <2>2
<1>3. PICK b : b = SubSeq(q, c, d)
  OBVIOUS
<1>4. a \in Seq(Byte) /\ Len(a) = m /\ \A i \in 1 .. m : a[i] = q[i]
  <2>1. m <= Len(q)
    BY <1>2
  <2>2. /\ a \in Seq(Byte) /\ Len(a) = m - 1 + 1
        /\ \A i \in 1 .. m - 1 + 1 : a[i] = q[1 + i - 1]
    BY <1>1, <2>1, PartIs
  <2> QED
    BY <2>2
<1>5. b \in Seq(Byte) /\ Len(b) = 2 /\ b[1] = q[c] /\ b[2] = q[d]
  <2>1. d >= c /\ d <= Len(q)
    BY <1>2
  <2>2. /\ b \in Seq(Byte) /\ Len(b) = d - c + 1
        /\ \A i \in 1 .. d - c + 1 : b[i] = q[c + i - 1]
    BY <1>2, <1>3, <2>1, PartIs
  <2>3. d - c + 1 = 2 /\ c + 1 - 1 = c /\ c + 2 - 1 = d
    BY <1>2
  <2> QED
    BY <2>2, <2>3
<1>6. /\ a \o b \in Seq(Byte) /\ Len(a \o b) = Len(a) + 2
      /\ \A i \in 1 .. Len(a) : (a \o b)[i] = a[i]
      /\ (a \o b)[Len(a) + 1] = b[1] /\ (a \o b)[Len(a) + 2] = b[2]
  BY <1>4, <1>5, TwoBehind
<1>7. t = a \o b
  BY <1>1, <1>2, <1>3
<1> QED
  BY <1>2, <1>4, <1>5, <1>6, <1>7

LEMMA HalvesJoined ==
  ASSUME NEW q \in Seq(Byte), NEW m \in Nat, m >= 1, Len(q) = m + 2
  PROVE  SubSeq(q, 1, m) \o SubSeq(q, Len(q) - 1, Len(q)) = q
<1>1. PICK t : t = SubSeq(q, 1, m) \o SubSeq(q, Len(q) - 1, Len(q))
  OBVIOUS
<1>2. /\ t \in Seq(Byte) /\ Len(t) = m + 2 /\ \A i \in 1 .. m : t[i] = q[i]
      /\ t[m + 1] = q[Len(q) - 1] /\ t[m + 2] = q[Len(q)]
  BY <1>1, EndsJoined
<1>3. Len(q) - 1 = m + 1 /\ Len(t) = Len(q)
  BY <1>2
<1>4. ASSUME NEW i \in 1 .. Len(t) PROVE t[i] = q[i]
  <2>1. i \in 1 .. m \/ i = m + 1 \/ i = m + 2
    BY <1>2
  <2> QED
    BY <1>2, <1>3, <2>1
<1>5. t = q
  BY <1>2, <1>3, <1>4, SeqEqual
<1> QED
  BY <1>1, <1>5

LEMMA FrameEnd ==
  ASSUME NEW f \in DOMAIN Frames
  PROVE  LET s == SubSeq(Wire[f], 3, Len(Wire[f])) IN
         /\ s \in Seq(Byte) /\ Len(s) = Len(Wire[f]) - 2
         /\ \A i \in 1 .. Len(Wire[f]) - 2 : s[i] = Wire[f][i + 2]
<1> DEFINE w == Wire[f]
           n == Len(w)
           s == SubSeq(w, 3, n)
<1>1. w \in Seq(Byte) /\ n \in Nat /\ n >= 10
  BY WireIs, Lengths
<1>2. /\ s \in Seq(Byte) /\ Len(s) = n - 3 + 1
      /\ \A i \in 1 .. n - 3 + 1 : s[i] = w[3 + i - 1]
  BY <1>1, PartIs
<1> HIDE DEF s
<1>3. n - 3 + 1 = n - 2 /\ \A i \in 1 .. n - 2 : 3 + i - 1 = i + 2
  BY <1>1
<1>4. Len(s) = n - 2 /\ \A i \in 1 .. n - 2 : s[i] = w[i + 2]
  BY <1>2, <1>3
<1> QED
  BY <1>2, <1>4 DEF s

(* The frames that were sent are told apart by what comes after the head. *)
LEMMA SameEnd ==
  ASSUME NEW f \in DOMAIN Frames, NEW g \in DOMAIN Frames,
         SubSeq(Wire[f], 3, Len(Wire[f])) = SubSeq(Wire[g], 3, Len(Wire[g]))
  PROVE  f = g
<1>1. PICK s : s = SubSeq(Wire[f], 3, Len(Wire[f]))
  OBVIOUS
<1>2. /\ Len(s) = Len(Wire[f]) - 2 /\ Len(s) = Len(Wire[g]) - 2
      /\ \A i \in 1 .. Len(Wire[f]) - 2 : s[i] = Wire[f][i + 2]
      /\ \A i \in 1 .. Len(Wire[g]) - 2 : s[i] = Wire[g][i + 2]
  BY <1>1, FrameEnd
<1>3. /\ Wire[f] \in Seq(Byte) /\ Wire[g] \in Seq(Byte)
      /\ Len(Wire[f]) \in Nat /\ Len(Wire[g]) \in Nat
      /\ Wire[f][1] = H0 /\ Wire[f][2] = H1 /\ Wire[g][1] = H0 /\ Wire[g][2] = H1
  BY WireIs, Lengths
<1>4. Len(Wire[f]) = Len(Wire[g])
  BY <1>2, <1>3
<1>5. ASSUME NEW i \in 1 .. Len(Wire[f]) PROVE Wire[f][i] = Wire[g][i]
  <2>1. CASE i = 1 \/ i = 2
    BY <1>3, <2>1
  <2>2. CASE i > 2
    <3>1. PICK j \in 1 .. Len(Wire[f]) - 2 : i = j + 2
      <4>1. i - 2 \in 1 .. Len(Wire[f]) - 2 /\ i = (i - 2) + 2
        BY <1>3, <2>2
      <4> QED
        BY <4>1
    <3> QED
      BY <1>2, <1>4, <3>1
  <2> QED
    BY <2>1, <2>2
<1>6. Wire[f] = Wire[g]
  BY <1>3, <1>4, <1>5, SeqEqual
<1> QED
  BY <1>6, DistinctAssumption

LEMMA NameIs ==
  ASSUME NEW q, NEW f \in DOMAIN Frames,
         Checked(q) = SubSeq(Wire[f], 3, Len(Wire[f]))
  PROVE  SentAs(q) = {f} /\ CrcOk(q) /\ Name(q) = f
<1>1. f \in Nat
  BY FramesAre
<1>2. SentAs(q) = {f}
  BY SameEnd DEF SentAs
<1>3. Min({f}) = f
  BY <1>1 DEF Min
<1> QED
  BY <1>2, <1>3 DEF CrcOk, Name

LEMMA LastByte ==
  ASSUME FifoInv, ParserInv, Tracked, Parse, ~crowded',
         NEW f \in DOMAIN Frames, Frames[f].payload # <<>>,
         whole' = <<f, Len(Wire[f])>>
  PROVE  delivered' = Append(delivered, f)
<1> DEFINE n == Len(Frames[f].payload)
           i == Len(Wire[f])
<1>1. /\ n \in Nat /\ n >= 1 /\ i = 10 + n /\ i \in 1 .. i /\ i \in Nat
      /\ Wire[f] \in Seq(Byte)
      /\ Wire[f][7] + 256 * Wire[f][8] = n
  BY FrameIs, WireIs
<1>2. whole'[1] = f /\ whole'[2] = i
  OBVIOUS
<1>3. ch = Wire[f][i] /\ ch \in Byte /\ Stands(f, i - 1)
  BY <1>1, <1>2, FollowedBy
<1>4. state = "crc" /\ counter = 1 /\ Len(got) = 7 + n /\ Same(f, 7 + n)
  <2>1. PICK k \in Nat : k = i - 1
    BY <1>1
  <2>2. Stands(f, k) /\ k = 9 + n
    BY <1>1, <1>3, <2>1
  <2>3. /\ k \in 2 .. 9 + n => Len(got) = k - 2 /\ Same(f, k - 2)
        /\ k \in 8 + n .. 9 + n => state = "crc" /\ counter = k - 8 - n
    BY <2>2 DEF Stands
  <2> HIDE DEF n, i
  <2>4. k - 2 = 7 + n /\ k - 8 - n = 1
    BY <1>1, <2>2
  <2> QED
    BY <1>1, <2>2, <2>3, <2>4
<1>5. got \in Seq(Byte)
  BY DEF ParserInv, ParserType
<1> HIDE DEF n, i
<1>6. InCrc
  BY <1>4 DEF Parse, InHead, InFields, InLen, InPayload
<1>7. got' = Append(got, ch)
  BY <1>6 DEF InCrc, Store
<1>8. /\ got' \in Seq(Byte) /\ Len(got') = 8 + n /\ got'[8 + n] = ch
      /\ \A j \in 1 .. 7 + n : got'[j] = got[j]
  <2>1. /\ got' \in Seq(Byte) /\ Len(got') = Len(got) + 1 /\ got'[Len(got) + 1] = ch
        /\ \A j \in 1 .. Len(got) : got'[j] = got[j]
    BY <1>3, <1>5, <1>7, Appended
  <2>2. Len(got) + 1 = 8 + n
    BY <1>1, <1>4
  <2> QED
    BY <1>4, <2>1, <2>2
<1>9. PayloadLen = n
  <2>1. 5 \in 1 .. 7 + n /\ 6 \in 1 .. 7 + n /\ 5 + 2 = 7 /\ 6 + 2 = 8
    BY <1>1
  <2>2. got[5] = Wire[f][7] /\ got[6] = Wire[f][8]
    BY <1>4, <2>1 DEF Same
  <2> QED
    BY <1>1, <2>2 DEF PayloadLen, Field
<1>10. Checked(got') = got'
  <2>1. PICK m \in Nat : m = 6 + n
    BY <1>1
  <2>2. Len(got') = m + 2 /\ m >= 1
    BY <1>1, <1>8, <2>1
  <2>3. SubSeq(got', 1, m) \o SubSeq(got', Len(got') - 1, Len(got')) = got'
    BY <1>8, <2>2, HalvesJoined
  <2> QED
    BY <1>9, <2>1, <2>3 DEF Checked
<1>11. got' = SubSeq(Wire[f], 3, Len(Wire[f]))
  <2>1. PICK s : s = SubSeq(Wire[f], 3, Len(Wire[f]))
    OBVIOUS
  <2>2. /\ s \in Seq(Byte) /\ Len(s) = i - 2
        /\ \A j \in 1 .. i - 2 : s[j] = Wire[f][j + 2]
    BY <2>1, FrameEnd DEF i
  <2>3. i - 2 = 8 + n
    BY <1>1
  <2>4. ASSUME NEW j \in 1 .. 8 + n PROVE got'[j] = s[j]
    <3>1. CASE j = 8 + n
      <4>1. j + 2 = i
        BY <1>1, <3>1
      <4> QED
        BY <1>3, <1>8, <2>2, <2>3, <3>1, <4>1
    <3>2. CASE j # 8 + n
      <4>1. j \in 1 .. 7 + n
        BY <1>1, <3>2
      <4> QED
        BY <1>4, <1>8, <2>2, <2>3, <4>1 DEF Same
    <3> QED
      BY <3>1, <3>2
  <2>5. got' = s
    BY <1>8, <2>2, <2>3, <2>4, SeqEqual, SMTT(30)
  <2> QED
    BY <2>1, <2>5
<1>12. CrcOk(got') /\ Name(got') = f
  BY <1>10, <1>11, NameIs
<1> QED
  BY <1>4, <1>6, <1>12 DEF InCrc

(* Theorem: a frame with a payload of which every byte is read, the first     *)
(* one in DDC_HEAD, is handed over with its last byte: whatever was lost or  *)
(* read before it, and for all frames that the CRC can tell apart.          *)
THEOREM WholeFrames == Spec => WholeFrameDelivered
<1> DEFINE Hands == \A f \in DOMAIN Frames :
                      whole' = <<f, Len(Wire[f])>> /\ whole # whole'
                      /\ ~crowded' /\ Frames[f].payload # <<>>
                        => delivered' = Append(delivered, f)
<1>1. FifoInv /\ ParserInv /\ Tracked /\ [Next]_vars => [Hands]_vars
  <2> SUFFICES ASSUME FifoInv, ParserInv, Tracked, [Next]_vars,
                      NEW f \in DOMAIN Frames, whole' = <<f, Len(Wire[f])>>,
                      whole # whole', ~crowded', Frames[f].payload # <<>>
               PROVE  delivered' = Append(delivered, f)
    OBVIOUS
  <2>1. CASE Parse
    BY <2>1, LastByte
  <2>2. CASE ~Parse
    BY <2>2, OtherSteps DEF history
  <2> QED
    BY <2>1, <2>2
<1>2. Spec => [][Hands]_vars
  BY <1>1, FifoInvariant, ParserInvariant, TrackedInvariant, PTL DEF Spec
<1> QED
  BY <1>2 DEF WholeFrameDelivered

-----------------------------------------------------------------------------
(* The order of the bytes on the line. *)
LEMMA TripleIs ==
  ASSUME NEW b \in Triple
  PROVE  b[1] \in Nat /\ b[2] \in Nat /\ b[3] \in Nat
  BY DEF Triple

LEMMA OfLineIs ==
  ASSUME NEW b, OfLine(b)
  PROVE  /\ b[1] \in DOMAIN Frames /\ b[1] \in Nat /\ b[1] >= 1
         /\ b[2] \in Nat /\ b[2] >= 1 /\ b[2] <= Len(Wire[b[1]])
         /\ Len(Wire[b[1]]) \in Nat /\ b[3] \in Nat /\ b[3] <= MaxLost
         /\ MaxLost \in Nat /\ Place(b) \in Places
<1>1. b[1] \in DOMAIN Frames /\ b[2] \in 1 .. Len(Wire[b[1]]) /\ b[3] \in 0 .. MaxLost
  BY DEF OfLine
<1>2. Len(Wire[b[1]]) \in Nat /\ MaxLost \in Nat
  BY <1>1, Lengths, FramesAssumption
<1>3. b[1] \in Nat /\ b[1] >= 1
  BY <1>1, FramesAre
<1>4. Place(b) \in Places
  BY <1>1 DEF Place, Places
<1> QED
  BY <1>1, <1>2, <1>3, <1>4

LEMMA BehindTwice ==
  ASSUME NEW p, NEW q, NEW r, p[1] \in Nat, p[2] \in Nat, q[1] \in Nat, q[2] \in Nat,
         r[1] \in Nat, r[2] \in Nat, Behind(p, q), Behind(q, r)
  PROVE  Behind(p, r)
  BY DEF Behind

LEMMA LaterMeans ==
  ASSUME NEW a, OfLine(a), NEW b \in Triple, b[2] >= 1, Later(a, b)
  PROVE  Behind(a, b) /\ Between(a, b) \in Nat /\ a[3] + Between(a, b) <= b[3]
         /\ a[3] <= b[3]
<1>1. b[1] \in Nat /\ b[2] \in Nat /\ b[3] \in Nat
  BY TripleIs
<1>2. /\ a[1] \in Nat /\ a[2] \in Nat /\ a[2] <= Len(Wire[a[1]])
      /\ Len(Wire[a[1]]) \in Nat /\ a[3] \in Nat
  BY OfLineIs
<1>3. Behind(a, b) /\ a[3] + Between(a, b) <= b[3]
  BY DEF Later
<1>4. Between(a, b) \in Nat
  <2>1. CASE a[1] = b[1]
    <3>1. b[2] > a[2]
      BY <1>1, <1>2, <1>3, <2>1 DEF Behind
    <3> QED
      BY <1>1, <1>2, <2>1, <3>1 DEF Between
  <2>2. CASE a[1] # b[1]
    <3>1. Between(a, b) = Len(Wire[a[1]]) - a[2] + b[2] - 1
      BY <2>2 DEF Between
    <3> QED
      BY <1>1, <1>2, <3>1, SMTT(30)
  <2> QED
    BY <2>1, <2>2
<1> QED
  BY <1>1, <1>2, <1>3, <1>4

(* Where the line stands after a byte. *)
LEMMA LineAfter ==
  ASSUME LineType, Arriving, Advance
  PROVE  /\ line[1] \in Nat /\ line[2] \in Nat /\ line[2] >= 1
         /\ line[1] \in DOMAIN Frames /\ Len(Wire[line[1]]) \in Nat
         /\ line[2] <= Len(Wire[line[1]])
         /\ \/ line[2] = Len(Wire[line[1]]) /\ line'[1] = line[1] + 1 /\ line'[2] = 1
            \/ line[2] < Len(Wire[line[1]]) /\ line'[1] = line[1] /\ line'[2] = line[2] + 1
<1>1. /\ line \in (1 .. Len(Frames) + 1) \X Nat
      /\ line[1] \in 1 .. Len(Frames) /\ line[2] \in 1 .. Len(Wire[line[1]])
  BY FramesAre DEF LineType, Arriving
<1>2. line[1] \in DOMAIN Frames /\ Len(Wire[line[1]]) \in Nat
  BY <1>1, FramesAre, Lengths
<1>3. line[1] \in Nat /\ line[2] \in Nat /\ line[2] >= 1
      /\ line[2] <= Len(Wire[line[1]])
  BY <1>1, <1>2, FramesAre
<1>4. CASE line[2] = Len(Wire[line[1]])
  <2>1. line' = <<line[1] + 1, 1>>
    BY <1>4 DEF Advance
  <2>2. line'[1] = line[1] + 1 /\ line'[2] = 1
    BY <2>1
  <2> QED
    BY <1>2, <1>3, <1>4, <2>2
<1>5. CASE line[2] # Len(Wire[line[1]])
  <2>1. line' = <<line[1], line[2] + 1>>
    BY <1>5 DEF Advance
  <2>2. line'[1] = line[1] /\ line'[2] = line[2] + 1
    BY <2>1
  <2> QED
    BY <1>2, <1>3, <1>5, <2>2
<1> QED
  BY <1>4, <1>5

LEMMA NowIs ==
  /\ Now[1] = line[1] /\ Now[2] = line[2] /\ Now[3] = lost
  /\ Now'[1] = line'[1] /\ Now'[2] = line'[2] /\ Now'[3] = lost'
  BY DEF Now

LEMMA Further ==
  ASSUME NEW g \in Nat, NEW j \in Nat, NEW f \in Nat, NEW i \in Nat,
         NEW h \in Nat, NEW e \in Nat, NEW n \in Nat, j <= n, i >= 1,
         NEW b, b = IF g = f THEN i - j - 1 ELSE n - j + i - 1,
         NEW c, c = IF g = h THEN e - j - 1 ELSE n - j + e - 1,
         f > g \/ (f = g /\ i > j),
         \/ h = f + 1 /\ e = 1 /\ (f = g => i = n)
         \/ h = f /\ e = i + 1
  PROVE  /\ b \in Int /\ c \in Int /\ c <= b + 1
         /\ h > g \/ (h = g /\ e > j)
<1>1. CASE g = f
  BY <1>1
<1>2. CASE g # f
  BY <1>2
<1> QED
  BY <1>1, <1>2

LEMMA LaterAfterLoss ==
  ASSUME LineType, Arriving, Advance, lost \in Nat, lost' = lost + 1,
         NEW a, OfLine(a), Later(a, Now)
  PROVE  Later(a, Now')
<1>1. PICK g \in Nat, j \in Nat, k \in Nat, n \in Nat :
        g = a[1] /\ j = a[2] /\ k = a[3] /\ n = Len(Wire[a[1]]) /\ j <= n
  BY OfLineIs
<1>2. PICK f \in Nat, i \in Nat, h \in Nat, e \in Nat :
        /\ f = line[1] /\ i = line[2] /\ h = line'[1] /\ e = line'[2] /\ i >= 1
        /\ \/ h = f + 1 /\ e = 1 /\ i = Len(Wire[line[1]])
           \/ h = f /\ e = i + 1
  <2>1. line'[1] \in Nat /\ line'[2] \in Nat
    BY LineAfter
  <2> QED
    BY <2>1, LineAfter
<1>3. /\ f > g \/ (f = g /\ i > j)
      /\ k + Between(a, Now) <= lost
      /\ Between(a, Now) = IF g = f THEN i - j - 1 ELSE n - j + i - 1
  BY <1>1, <1>2, NowIs DEF Later, Behind, Between
<1>4. Between(a, Now') = IF g = h THEN e - j - 1 ELSE n - j + e - 1
  BY <1>1, <1>2, NowIs DEF Between
<1>5. PICK b, c : b = Between(a, Now) /\ c = Between(a, Now')
  OBVIOUS
<1>6. b \in Int /\ c \in Int /\ c <= b + 1 /\ (h > g \/ (h = g /\ e > j))
  <2>1. f = g => Len(Wire[line[1]]) = n
    BY <1>1, <1>2
  <2>2. \/ h = f + 1 /\ e = 1 /\ (f = g => i = n)
        \/ h = f /\ e = i + 1
    BY <1>2, <2>1
  <2>3. /\ b = IF g = f THEN i - j - 1 ELSE n - j + i - 1
        /\ c = IF g = h THEN e - j - 1 ELSE n - j + e - 1
        /\ f > g \/ (f = g /\ i > j)
        /\ j <= n /\ i >= 1
    BY <1>1, <1>2, <1>3, <1>4, <1>5
  <2> QED
    BY <2>2, <2>3, Further
<1>7. k + c <= lost + 1
  BY <1>3, <1>5, <1>6
<1>8. Behind(a, Now')
  BY <1>1, <1>2, <1>6, NowIs DEF Behind
<1>9. a[3] + Between(a, Now') <= Now'[3]
  BY <1>1, <1>5, <1>7, NowIs
<1> QED
  BY <1>8, <1>9 DEF Later

LEMMA LaterAfterPut ==
  ASSUME LineType, Arriving, Advance, lost \in Nat, lost' = lost
  PROVE  Later(Now, Now')
<1>1. /\ line[1] \in Nat /\ line[2] \in Nat /\ line[2] >= 1
      /\ Len(Wire[line[1]]) \in Nat
      /\ \/ line[2] = Len(Wire[line[1]]) /\ line'[1] = line[1] + 1 /\ line'[2] = 1
         \/ line[2] < Len(Wire[line[1]]) /\ line'[1] = line[1] /\ line'[2] = line[2] + 1
  BY LineAfter
<1>2. Between(Now, Now') = IF line[1] = line'[1] THEN line'[2] - line[2] - 1
                             ELSE Len(Wire[line[1]]) - line[2] + line'[2] - 1
  BY NowIs DEF Between
<1>3. Between(Now, Now') = 0
  BY <1>1, <1>2
<1>4. Behind(Now, Now')
  BY <1>1, NowIs DEF Behind
<1> QED
  BY <1>3, <1>4, NowIs DEF Later

LEMMA LossInOrder ==
  ASSUME FifoInv, Begun, InOrder, LoseByte \/ PutFull PROVE InOrder'
<1>1. /\ LineType /\ lost \in Nat
      /\ \A i \in 1 .. Len(unread) : OfLine(unread[i])
      /\ Len(unread) \in Nat /\ unread \in Seq(Triple)
  BY HeldIs, FramesAssumption DEF FifoInv, FifoType
<1>2. /\ Advance /\ lost' = lost + 1 /\ unread' = unread /\ latest' = latest
  BY DEF LoseByte, PutFull, history
<1>3. Arriving
  <2>1. ASSUME LoseByte PROVE Arriving
    <3>1. line[1] \in DOMAIN Frames
      BY <2>1, FramesAssumption DEF LoseByte
    <3> QED
      BY <3>1, FramesAre DEF Arriving
  <2> QED
    BY <2>1 DEF PutFull
<1>4. ASSUME NEW a, OfLine(a), Later(a, Now) PROVE Later(a, Now')
  BY <1>1, <1>2, <1>3, <1>4, LaterAfterLoss
<1>5. \A i \in 1 .. Len(unread') - 1 : Later(unread'[i], unread'[i + 1])
  BY <1>2 DEF InOrder
<1>6. unread' # <<>> => Later(unread'[Len(unread')], Now')
  <2> SUFFICES ASSUME unread # <<>> PROVE Later(unread[Len(unread)], Now')
    BY <1>2
  <2>1. Len(unread) \in 1 .. Len(unread)
    BY <1>1
  <2> QED
    BY <1>1, <1>4, <2>1 DEF InOrder
<1>7. latest'[1] # 0 => Later(latest', NextByte')
  <2> SUFFICES ASSUME latest[1] # 0 PROVE Later(latest, NextByte')
    BY <1>2
  <2>1. OfLine(latest) /\ Later(latest, NextByte)
    BY DEF Begun, InOrder
  <2> QED
    BY <1>2, <1>4, <2>1 DEF NextByte
<1> QED
  BY <1>5, <1>6, <1>7 DEF InOrder, Later, Behind, Between

LEMMA PutInOrder ==
  ASSUME FifoInv, Begun, InOrder, Put PROVE InOrder'
<1> DEFINE n == Len(unread)
<1>1. /\ LineType /\ lost \in Nat /\ lost \in 0 .. MaxLost
      /\ n \in Nat /\ unread \in Seq(Triple)
  BY FramesAssumption DEF FifoInv, FifoType
<1>2. /\ Arriving /\ Advance /\ lost' = lost /\ latest' = latest
      /\ unread' = Append(unread, Now)
  BY DEF Put, history, Now
<1>3. Now \in Triple
  BY <1>1, <1>2, ArrivingByte
<1>4. /\ Len(unread') = n + 1 /\ unread'[n + 1] = Now
      /\ \A i \in 1 .. n : unread'[i] = unread[i]
  BY <1>1, <1>2, <1>3, Appended
<1>5. Later(Now, Now')
  BY <1>1, <1>2, LaterAfterPut
<1>6. \A i \in 1 .. Len(unread') - 1 : Later(unread'[i], unread'[i + 1])
  <2> SUFFICES ASSUME NEW i \in 1 .. n PROVE Later(unread'[i], unread'[i + 1])
    BY <1>1, <1>4
  <2>1. CASE i = n
    <3>1. unread # <<>> /\ unread'[i] = unread[n] /\ unread'[i + 1] = Now
      BY <1>1, <1>4, <2>1
    <3> QED
      BY <3>1 DEF InOrder
  <2>2. CASE i # n
    <3>1. i \in 1 .. n - 1 /\ i + 1 \in 1 .. n
      BY <1>1, <2>2
    <3> QED
      BY <1>4, <3>1 DEF InOrder
  <2> QED
    BY <2>1, <2>2
<1>7. Later(unread'[Len(unread')], Now')
  BY <1>4, <1>5
<1>8. latest'[1] # 0 => Later(latest', NextByte')
  <2>1. NextByte' = NextByte
    <3>1. unread' # <<>>
      BY <1>1, <1>4
    <3>2. CASE unread = <<>>
      <4>1. n + 1 = 1
        BY <3>2
      <4> QED
        BY <1>4, <3>1, <3>2, <4>1 DEF NextByte
    <3>3. CASE unread # <<>>
      <4>1. 1 \in 1 .. n
        BY <1>1, <3>3
      <4> QED
        BY <1>4, <3>1, <3>3, <4>1 DEF NextByte
    <3> QED
      BY <3>2, <3>3
  <2> QED
    BY <1>2, <2>1 DEF InOrder
<1> QED
  BY <1>6, <1>7, <1>8 DEF InOrder, Later, Behind, Between

(* The byte that is read comes later than the one read before. *)
LEMMA ReadNext ==
  ASSUME FifoInv, Begun, InOrder, Parse
  PROVE  /\ unread # <<>> /\ latest' = unread[1] /\ latest' \in Triple
         /\ OfLine(latest') /\ latest'[1] # 0
         /\ latest[1] # 0 =>
              /\ OfLine(latest) /\ Behind(latest, latest')
              /\ Between(latest, latest') \in Nat
              /\ latest[3] + Between(latest, latest') <= latest'[3]
              /\ latest[3] <= latest'[3]
<1>1. /\ pc = "parse" /\ latest' = IF unread = <<>> THEN latest ELSE unread[1]
  BY DEF Parse
<1>2. /\ unread # <<>> /\ unread \in Seq(Triple)
      /\ \A i \in 1 .. Len(unread) : OfLine(unread[i])
  BY <1>1 DEF FifoInv, FifoType, Fetched
<1>3. 1 \in 1 .. Len(unread)
  BY <1>2
<1>4. latest' = unread[1] /\ unread[1] \in Triple /\ OfLine(unread[1])
  BY <1>1, <1>2, <1>3
<1>5. unread[1][1] # 0 /\ unread[1][2] >= 1
  BY <1>4, OfLineIs
<1>6. ASSUME latest[1] # 0
      PROVE  /\ OfLine(latest) /\ Behind(latest, unread[1])
             /\ Between(latest, unread[1]) \in Nat
             /\ latest[3] + Between(latest, unread[1]) <= unread[1][3]
             /\ latest[3] <= unread[1][3]
  <2>1. OfLine(latest) /\ Later(latest, unread[1])
    BY <1>2, <1>6 DEF Begun, InOrder, NextByte
  <2> QED
    BY <1>4, <1>5, <2>1, LaterMeans
<1> QED
  BY <1>2, <1>4, <1>5, <1>6

LEMMA ParseInOrder ==
  ASSUME FifoInv, Begun, InOrder, Parse PROVE InOrder'
<1> DEFINE n == Len(unread)
<1>1. unread \in Seq(Triple) /\ n \in Nat
  BY DEF FifoInv, FifoType
<1>2. unread # <<>> /\ latest' = unread[1]
  BY ReadNext
<1>3. unread' = SubSeq(unread, 2, Len(unread)) /\ line' = line /\ lost' = lost
  BY DEF Parse
<1>4. /\ Len(unread') = n - 1 /\ \A i \in 1 .. n - 1 : unread'[i] = unread[i + 1]
      /\ unread' \in Seq(Triple)
  BY <1>1, <1>2, <1>3, Dropped
<1>5. Now' = Now
  BY <1>3 DEF Now
<1>6. n >= 1
  BY <1>1, <1>2
<1>7. \A i \in 1 .. Len(unread') - 1 : Later(unread'[i], unread'[i + 1])
  <2> SUFFICES ASSUME NEW i \in 1 .. n - 2 PROVE Later(unread'[i], unread'[i + 1])
    BY <1>1, <1>4
  <2>1. i \in 1 .. n - 1 /\ i + 1 \in 1 .. n - 1
    BY <1>1
  <2> QED
    BY <1>4, <2>1 DEF InOrder
<1>8. unread' # <<>> => Later(unread'[Len(unread')], Now')
  <2> SUFFICES ASSUME unread' # <<>> PROVE Later(unread'[n - 1], Now)
    BY <1>4, <1>5
  <2>1. n - 1 \in 1 .. n - 1 /\ (n - 1) + 1 = n
    BY <1>1, <1>4, <1>6
  <2> QED
    BY <1>2, <1>4, <2>1 DEF InOrder
<1>9. Later(latest', NextByte')
  <2>1. CASE unread' = <<>>
    <3>1. n = 1
      BY <1>1, <1>4, <2>1
    <3> QED
      BY <1>2, <1>5, <2>1, <3>1 DEF NextByte, InOrder
  <2>2. CASE unread' # <<>>
    <3>1. 1 \in 1 .. n - 1
      BY <1>1, <1>4, <2>2
    <3>2. NextByte' = unread[1 + 1]
      BY <1>4, <2>2, <3>1 DEF NextByte
    <3> QED
      BY <1>2, <3>1, <3>2 DEF InOrder
  <2> QED
    BY <2>1, <2>2
<1> QED
  BY <1>7, <1>8, <1>9 DEF InOrder, Later, Behind, Between

(* What a byte does to the frame that is under way, and to what is handed    *)
(* over.                                                                    *)
LEMMA StillUnderWay ==
  ASSUME ParserInv, Parse, UnderWay'
  PROVE  /\ state # "head" /\ head' = head /\ UNCHANGED <<delivered, calm>>
         /\ \/ /\ state = "id" /\ counter = 0 /\ began' = latest'
               /\ got = <<>> /\ got' = Append(got, ch)
            \/ UnderWay /\ began' = began /\ ~(state = "id" /\ counter = 0)
<1>1. /\ got \in Seq(Byte) /\ Stored /\ state' # "head" /\ got' # <<>>
      /\ state \in {"head", "id", "ch", "ack", "len", "payload", "crc"}
  BY DEF ParserInv, ParserType, UnderWay
<1>2. ~InHead
  BY <1>1 DEF InHead
<1>3. state # "head" /\ head' = head
  BY <1>2 DEF Parse, InFields, InLen, InPayload, InCrc
<1>4. UNCHANGED <<delivered, calm>>
  BY <1>1, <1>2 DEF Parse, InFields, InLen, InPayload, InCrc, Nothing, Goto
<1>5. began' = IF state = "id" /\ counter = 0 THEN latest' ELSE began
  BY DEF Parse
<1>6. CASE state = "id" /\ counter = 0
  <2>1. Len(got) = 0
    BY <1>1, <1>6 DEF Stored
  <2>2. got = <<>>
    BY <1>1, <2>1
  <2>3. got' = Append(got, ch)
    BY <1>6 DEF Parse, InHead, InFields, InLen, InPayload, InCrc, Store
  <2> QED
    BY <1>3, <1>4, <1>5, <1>6, <2>2, <2>3
<1>7. CASE ~(state = "id" /\ counter = 0)
  <2>1. Len(got) \in Nat /\ Len(got) >= 1
    BY <1>1, <1>3, <1>7 DEF Stored
  <2>2. got # <<>>
    BY <1>1, <2>1
  <2> QED
    BY <1>3, <1>4, <1>5, <1>7, <2>2 DEF UnderWay
<1> QED
  BY <1>6, <1>7

LEMMA HandsOver ==
  ASSUME ParserInv, Parse, ~(UNCHANGED <<delivered, calm>>)
  PROVE  /\ state = "crc" /\ counter = 1 /\ state' = "head"
         /\ got' = Append(got, ch) /\ CrcOk(got') /\ UnderWay /\ began' = began
         /\ delivered' = Append(delivered, Name(got'))
         /\ calm' = IF crowded THEN calm ELSE delivered'
<1>1. got \in Seq(Byte) /\ Stored
  BY DEF ParserInv, ParserType
<1>2. InCrc /\ state = "crc"
  BY DEF Parse, InHead, InFields, InLen, InPayload, InCrc, Nothing
<1>3. counter = 1 /\ CrcOk(got')
  BY <1>1, <1>2 DEF InCrc, Nothing, Stored
<1>4. /\ state' = "head" /\ got' = Append(got, ch)
      /\ delivered' = Append(delivered, Name(got'))
      /\ calm' = IF crowded THEN calm ELSE delivered'
  BY <1>2, <1>3 DEF InCrc, Goto, Store
<1>5. Len(got) >= 7
  BY <1>1, <1>2, <1>3 DEF Stored
<1>6. UnderWay /\ began' = began
  <2>1. got # <<>>
    BY <1>1, <1>5
  <2> QED
    BY <1>2, <2>1 DEF UnderWay, Parse
<1> QED
  BY <1>2, <1>3, <1>4, <1>6

LEMMA ParseBegun ==
  ASSUME FifoInv, ParserInv, Begun, InOrder, Parse PROVE Begun'
<1>1. /\ latest' \in Triple /\ OfLine(latest') /\ latest'[1] # 0
      /\ latest[1] # 0 => Behind(latest, latest') /\ latest[3] <= latest'[3]
                          /\ OfLine(latest)
  BY ReadNext
<1>2. latest'[1] \in Nat /\ latest'[2] \in Nat /\ latest'[3] \in Nat
  BY <1>1, OfLineIs
<1>3. ASSUME UnderWay'
      PROVE  /\ began' \in Triple /\ OfLine(began')
             /\ began' = latest' \/ Behind(began', latest')
             /\ began'[3] <= latest'[3]
  <2>1. CASE began' = latest'
    BY <1>1, <1>2, <2>1
  <2>2. CASE UnderWay /\ began' = began
    <3>1. /\ began \in Triple /\ OfLine(began) /\ latest[1] # 0
          /\ began = latest \/ Behind(began, latest)
          /\ began[3] <= latest[3]
      BY <2>2 DEF Begun
    <3>2. /\ began[1] \in Nat /\ began[2] \in Nat /\ began[3] \in Nat
          /\ latest[1] \in Nat /\ latest[2] \in Nat /\ latest[3] \in Nat
      BY <1>1, <3>1, OfLineIs
    <3>3. Behind(began, latest')
      BY <1>1, <1>2, <3>1, <3>2, BehindTwice
    <3>4. began[3] <= latest'[3]
      BY <1>1, <1>2, <3>1, <3>2
    <3> QED
      BY <2>2, <3>1, <3>3, <3>4
  <2> QED
    BY <1>3, <2>1, <2>2, StillUnderWay
<1>4. (latest[1] # 0 => OfLine(latest))'
  BY <1>1 DEF OfLine
<1>5. UnderWay' => OfLine(began)'
  BY <1>3 DEF OfLine
<1> QED
  BY <1>1, <1>3, <1>4, <1>5 DEF Begun, Behind

(* How much the byte that is read may have lost behind the first one. *)
LEMMA Lag ==
  ASSUME FifoInv, Begun, InOrder, Parse, UnderWay
  PROVE  /\ latest[3] - began[3] \in 0 .. MaxLost
         /\ latest'[3] - began[3] \in 0 .. MaxLost
         /\ latest[3] - began[3] <= latest'[3] - began[3]
         /\ latest[3] - began[3] + Between(latest, latest') <= latest'[3] - began[3]
         /\ Behind(latest, latest') /\ Between(latest, latest') \in Nat
         /\ OfLine(latest) /\ OfLine(latest')
<1>1. OfLine(began) /\ latest[1] # 0 /\ began[3] <= latest[3]
  BY DEF Begun
<1>2. /\ OfLine(latest') /\ OfLine(latest) /\ Behind(latest, latest')
      /\ Between(latest, latest') \in Nat
      /\ latest[3] + Between(latest, latest') <= latest'[3]
      /\ latest[3] <= latest'[3]
  BY <1>1, ReadNext
<1>3. PICK x \in Nat, y \in Nat, z \in Nat, b \in Nat :
        /\ x = began[3] /\ y = latest[3] /\ z = latest'[3]
        /\ b = Between(latest, latest')
  BY <1>1, <1>2, OfLineIs
<1>4. x <= y /\ y <= z /\ z <= MaxLost /\ y + b <= z /\ MaxLost \in Nat
  BY <1>1, <1>2, <1>3, OfLineIs
<1>5. y - x \in 0 .. MaxLost /\ z - x \in 0 .. MaxLost
  BY <1>4
<1>6. y - x <= z - x /\ y - x + b <= z - x
  BY <1>4
<1> QED
  BY <1>2, <1>3, <1>5, <1>6

LEMMA ReadsOn ==
  ASSUME NEW E, Unmistakable(E), NEW f, NEW i, NEW p, NEW m, <<f, i, p, m>> \in E,
         NEW q \in Places, NEW k \in 0 .. MaxLost,
         i < Len(Wire[f]), Behind(p, q), Value(q) = Wire[f][i + 1],
         k >= m + (IF Skips(f, i) THEN 0 ELSE Between(p, q))
  PROVE  <<f, i + 1, q, k>> \in E
<1>1. PICK e \in E : e = <<f, i, p, m>>
  OBVIOUS
<1>2. e[1] = f /\ e[2] = i /\ e[3] = p /\ e[4] = m
  BY <1>1
<1>3. Reads(e, q, k)
  BY <1>2 DEF Reads
<1>4. <<e[1], e[2] + 1, q, k>> \in E
  BY <1>3 DEF Unmistakable, Continues
<1> QED
  BY <1>2, <1>4

LEMMA PlaceIs ==
  ASSUME NEW a, NEW b
  PROVE  /\ Between(Place(a), Place(b)) = Between(a, b)
         /\ Behind(Place(a), Place(b)) <=> Behind(a, b)
         /\ Value(Place(a)) = Value(a)
         /\ \A p : Behind(p, Place(b)) <=> Behind(p, b)
  BY DEF Place, Between, Behind, Value

(* A byte that continues f. *)
LEMMA OneMore ==
  ASSUME NEW E, Unmistakable(E), FifoInv, Begun, InOrder, Parse, UnderWay, ~crowded,
         NEW f \in DOMAIN Frames, NEW i \in Nat, i < Len(Wire[f]),
         Here(E, f, i), ch = Wire[f][i + 1]
  PROVE  Own(f) \/ <<f, i + 1, Place(latest'), latest'[3] - began[3]>> \in E
<1> SUFFICES ASSUME ~Own(f)
             PROVE  <<f, i + 1, Place(latest'), latest'[3] - began[3]>> \in E
  OBVIOUS
<1> DEFINE p == Place(latest)
           q == Place(latest')
           m == latest[3] - began[3]
           k == latest'[3] - began[3]
<1>1. <<f, i, p, m>> \in E
  BY DEF Here
<1>2. /\ m \in 0 .. MaxLost /\ k \in 0 .. MaxLost /\ m <= k
      /\ m + Between(latest, latest') <= k
      /\ Behind(latest, latest') /\ Between(latest, latest') \in Nat
      /\ OfLine(latest) /\ OfLine(latest')
  BY Lag
<1>3. q \in Places /\ MaxLost \in Nat
  BY <1>2, OfLineIs
<1>4. Behind(p, q) /\ Between(p, q) = Between(latest, latest')
  BY <1>2, PlaceIs
<1>5. Value(q) = Wire[f][i + 1]
  <2>1. ch = Value(unread[1])
    BY DEF FifoInv, Fetched, Parse
  <2>2. Value(q) = Value(latest')
    BY PlaceIs
  <2>3. latest' = unread[1]
    BY ReadNext
  <2> QED
    BY <2>1, <2>2, <2>3
<1> HIDE DEF p, q, m, k
<1>6. k >= m + (IF Skips(f, i) THEN 0 ELSE Between(p, q))
  <2>1. k >= m + 0 /\ k >= m + Between(p, q)
    BY <1>2, <1>3, <1>4
  <2> QED
    BY <2>1
<1>7. <<f, i + 1, q, k>> \in E
  BY <1>1, <1>2, <1>3, <1>4, <1>5, <1>6, ReadsOn
<1> QED
  BY <1>7 DEF q, k

(* The byte before the last one of a frame without payload. *)
LEMMA BehindSkipped ==
  ASSUME NEW E, Unmistakable(E), FifoInv, Begun, InOrder, Parse, UnderWay, ~crowded,
         NEW f \in DOMAIN Frames, Frames[f].payload = <<>>,
         Skipped(E, f), ch = Wire[f][9]
  PROVE  Own(f) \/ <<f, 9, Place(latest'), latest'[3] - began[3]>> \in E
<1> SUFFICES ASSUME ~Own(f)
             PROVE  <<f, 9, Place(latest'), latest'[3] - began[3]>> \in E
  OBVIOUS
<1> DEFINE q == Place(latest')
           k == latest'[3] - began[3]
<1>1. PICK p \in Places, m \in 0 .. MaxLost :
        /\ <<f, 8, p, m>> \in E
        /\ p = Place(latest) \/ Behind(p, latest)
        /\ m <= latest[3] - began[3]
  BY DEF Skipped
<1>2. /\ latest[3] - began[3] \in 0 .. MaxLost /\ k \in 0 .. MaxLost
      /\ latest[3] - began[3] <= k
      /\ Behind(latest, latest') /\ OfLine(latest) /\ OfLine(latest')
  BY Lag
<1>3. q \in Places /\ MaxLost \in Nat
  BY <1>2, OfLineIs
<1>4. Behind(p, q)
  <2>1. CASE p = Place(latest)
    BY <1>2, <2>1, PlaceIs
  <2>2. CASE Behind(p, latest)
    <3>1. p[1] \in Nat /\ p[2] \in Nat
      <4>1. PICK g \in DOMAIN Frames : p \in {g} \X (1 .. Len(Wire[g]))
        BY DEF Places
      <4>2. p[1] = g /\ p[2] \in 1 .. Len(Wire[g])
        BY <4>1
      <4> QED
        BY <4>2, FramesAre, Lengths, SMTT(30)
    <3>2. /\ latest[1] \in Nat /\ latest[2] \in Nat
          /\ latest'[1] \in Nat /\ latest'[2] \in Nat
      BY <1>2, OfLineIs
    <3>3. Behind(p, latest')
      BY <1>2, <2>2, <3>1, <3>2, BehindTwice
    <3> QED
      BY <3>3, PlaceIs
  <2> QED
    BY <1>1, <2>1, <2>2
<1>5. Value(q) = Wire[f][8 + 1]
  <2>1. ch = Value(unread[1])
    BY DEF FifoInv, Fetched, Parse
  <2>2. Value(q) = Value(latest')
    BY PlaceIs
  <2>3. latest' = unread[1]
    BY ReadNext
  <2>4. 8 + 1 = 9
    OBVIOUS
  <2> QED
    BY <2>1, <2>2, <2>3, <2>4
<1> HIDE DEF q, k
<1>6. Skips(f, 8) /\ k >= m + 0
  BY <1>1, <1>2, <1>3 DEF Skips
<1>7. 8 < Len(Wire[f])
  BY Lengths
<1>8. k >= m + (IF Skips(f, 8) THEN 0 ELSE Between(p, q))
  BY <1>6
<1>9. <<f, 8 + 1, q, k>> \in E
  BY <1>1, <1>2, <1>3, <1>4, <1>5, <1>7, <1>8, ReadsOn
<1> QED
  BY <1>9 DEF q, k

-----------------------------------------------------------------------------
(* What is stored reads like a frame only where that frame is. *)
LEMMA LengthStored ==
  ASSUME ParserInv, NEW f \in DOMAIN Frames, Len(got) >= 6, NEW m \in Nat, m >= 6, Same(f, m)
  PROVE  PayloadLen = Len(Frames[f].payload)
<1>1. 5 \in 1 .. m /\ 6 \in 1 .. m /\ 5 + 2 = 7 /\ 6 + 2 = 8
  OBVIOUS
<1>2. got[5] = Wire[f][7] /\ got[6] = Wire[f][8]
  BY <1>1 DEF Same
<1> QED
  BY <1>2, WireIs DEF PayloadLen, Field

LEMMA StoredSoFar ==
  ASSUME ParserInv, UnderWay
  PROVE  /\ got \in Seq(Byte) /\ Len(got) \in Nat /\ Len(got) >= 1
         /\ state \in {"payload", "crc"} => Len(got) >= 6
         /\ state \in {"id", "ch", "ack", "len"} => Len(got) <= 5
         /\ state \in {"id", "ch", "ack", "len", "payload", "crc"}
         /\ state \in {"id", "len", "crc"} => counter \in {0, 1}
         /\ state = "len" => Len(got) = 4 + counter
<1>1. /\ got \in Seq(Byte) /\ got # <<>> /\ Stored /\ state # "head"
      /\ state \in {"head", "id", "ch", "ack", "len", "payload", "crc"}
  BY DEF ParserInv, ParserType, UnderWay
<1>2. Len(got) \in Nat /\ Len(got) >= 1
  BY <1>1
<1>3. state \in {"payload", "crc"} => Len(got) >= 6
  BY <1>1, <1>2 DEF Stored
<1>4. state \in {"id", "ch", "ack", "len"} => Len(got) <= 5
  <2>1. CASE state = "id"
    BY <1>1, <2>1 DEF Stored
  <2>2. CASE state = "ch"
    <3>1. Len(got) = 2
      BY <1>1, <2>2 DEF Stored
    <3> QED
      BY <3>1
  <2>3. CASE state = "ack"
    <3>1. Len(got) = 3
      BY <1>1, <2>3 DEF Stored
    <3> QED
      BY <3>1
  <2>4. CASE state = "len"
    <3>1. counter \in {0, 1} /\ Len(got) = 4 + counter
      BY <1>1, <2>4 DEF Stored
    <3> QED
      BY <3>1
  <2> QED
    BY <2>1, <2>2, <2>3, <2>4
<1> QED
  BY <1>1, <1>2, <1>3, <1>4 DEF Stored

LEMMA StoresMore ==
  ASSUME ParserInv, Parse, UnderWay, UnderWay'
  PROVE  /\ got' = Append(got, ch) \/ (got' = got /\ state = "payload" /\ PayloadLen = 0)
         /\ state \in {"payload", "crc"} => state' \in {"payload", "crc"}
         /\ state' \in {"payload", "crc"} =>
              state \in {"payload", "crc"} \/ (state = "len" /\ counter = 1)
         /\ state' = "crc" /\ counter' = 1 => state \in {"payload", "crc"}
         /\ state' = "crc" /\ counter' = 1 => got' = Append(got, ch)
         /\ ~(state = "crc" /\ counter = 1)
<1>1. /\ Stored /\ counter \in Nat /\ Len(got) \in Nat /\ got \in Seq(Byte)
      /\ state # "head" /\ state' # "head"
  BY Numbers DEF ParserInv, ParserType, UnderWay
<1>2. CASE InFields
  <2>1. got' = Append(got, ch) /\ state \in {"id", "ch", "ack"}
    BY <1>2 DEF InFields, Store
  <2>2. \/ state = "id" /\ counter = 0 /\ state' = "id"
        \/ state = "id" /\ counter = 1 /\ state' = "ch"
        \/ state = "ch" /\ state' = "ack"
        \/ state = "ack" /\ state' = "len"
    BY <1>1, <1>2, <2>1 DEF InFields, Goto, Stored
  <2> QED
    BY <2>1, <2>2
<1>3. CASE InLen
  <2>1. state = "len" /\ counter \in {0, 1} /\ got' = Append(got, ch)
    BY <1>1, <1>3 DEF InLen, Store, Stored
  <2>2. counter = 0 => state' = "len"
    BY <1>3, <2>1 DEF InLen
  <2>3. counter = 1 => state' = "payload"
    BY <1>1, <1>3, <2>1 DEF InLen, Goto
  <2> QED
    BY <2>1, <2>2, <2>3
<1>4. CASE InPayload
  <2>1. state = "payload" /\ got' = IF counter < MaxPayload THEN Append(got, ch) ELSE got
    BY <1>4 DEF InPayload
  <2>2. state' = "payload" \/ (state' = "crc" /\ counter' = 0)
    BY <1>4 DEF InPayload, Goto
  <2>3. PayloadLen # 0 => counter < MaxPayload
    <3> SUFFICES ASSUME PayloadLen # 0 PROVE counter < MaxPayload
      OBVIOUS
    <3>1. /\ Len(got) >= 6 /\ PayloadLen <= MaxPayload /\ counter < PayloadLen
      BY <1>1, <2>1 DEF Stored
    <3>2. 5 \in 1 .. Len(got) /\ 6 \in 1 .. Len(got)
      BY <1>1, <3>1
    <3>3. got[5] \in Nat /\ got[6] \in Nat
      BY <1>1, <3>2, ByteIs
    <3>4. PayloadLen \in Nat
      BY <3>3 DEF PayloadLen, Field
    <3> QED
      BY <1>1, <3>1, <3>4, Numbers
  <2> QED
    BY <2>1, <2>2, <2>3
<1>5. CASE InCrc
  <2>1. state = "crc" /\ counter \in {0, 1} /\ got' = Append(got, ch)
    BY <1>1, <1>5 DEF InCrc, Store, Stored
  <2>2. counter = 1 => state' = "head"
    BY <1>5, <2>1 DEF InCrc, Goto
  <2>3. counter = 0 => state' = "crc"
    BY <1>5, <2>1 DEF InCrc
  <2> QED
    BY <1>1, <2>1, <2>2, <2>3
<1>6. ~InHead
  BY <1>1 DEF InHead
<1> QED
  BY <1>2, <1>3, <1>4, <1>5, <1>6 DEF Parse

(* With the first byte stored. *)
LEMMA FirstSpelt ==
  ASSUME NEW E, Unmistakable(E), FifoInv, Begun, InOrder, Parse, ~crowded,
         got \in Seq(Byte), got = <<>>, got' = Append(got, ch), began' = latest',
         NEW f \in DOMAIN Frames
  PROVE  /\ HasPrefix(f)' => Here(E, f, Len(got) + 2)'
         /\ ~(HasHead(f)')
<1>1. ch = Value(latest') /\ ch \in Byte /\ OfLine(latest')
  <2>1. ch = Value(unread[1]) /\ ch \in Byte
    BY DEF FifoInv, Fetched, FifoType, Parse
  <2> QED
    BY <2>1, ReadNext
<1>2. Len(got') = 1 /\ got'[1] = ch
  <2>1. Len(got) = 0
    OBVIOUS
  <2>2. Len(got') = 0 + 1 /\ got'[0 + 1] = ch
    BY <1>1, <2>1, Appended
  <2> QED
    BY <2>2
<1>3. ASSUME HasPrefix(f)' PROVE Here(E, f, 3)'
  <2>1. ch = Wire[f][3]
    <3>1. \A j \in 1 .. 1 : got'[j] = Wire[f][j + 2]
      BY <1>2, <1>3 DEF HasPrefix, Same
    <3>2. 1 \in 1 .. 1 /\ 1 + 2 = 3
      OBVIOUS
    <3> QED
      BY <1>2, <3>1, <3>2
  <2>2. latest'[3] - began'[3] = 0
    BY <1>1, OfLineIs
  <2>3. Place(latest') \in Places /\ Value(Place(latest')) = Wire[f][3]
    BY <1>1, <2>1, OfLineIs, PlaceIs
  <2>4. Place(latest') = <<f, 3>> \/ <<f, 3, Place(latest'), 0>> \in E
    BY <2>3 DEF Unmistakable, Starts
  <2>5. Place(latest') = Place(began')
    OBVIOUS
  <2> QED
    BY <2>2, <2>4, <2>5 DEF Here, Own, Place
<1>4. Len(got') + 2 = 3
  BY <1>2
<1> QED
  BY <1>2, <1>3, <1>4 DEF HasHead, Here, Own

(* With one byte more. *)
LEMMA MoreSpelt ==
  ASSUME NEW E, Unmistakable(E), FifoInv, ParserInv, Begun, InOrder, Spelt(E),
         Parse, ~crowded, UnderWay, UnderWay', began' = began,
         NEW f \in DOMAIN Frames, HasPrefix(f)'
  PROVE  Here(E, f, Len(got) + 2)'
<1> DEFINE n == Len(got)
<1>1. /\ got \in Seq(Byte) /\ n \in Nat /\ n >= 1
      /\ state \in {"payload", "crc"} => n >= 6
  BY StoredSoFar
<1>2. ch \in Byte
  BY DEF FifoInv, FifoType
<1>3. /\ state' \in {"payload", "crc"} => Frames[f].payload # <<>>
      /\ Len(got') + 2 <= Len(Wire[f])
      /\ \A j \in 1 .. Len(got') : got'[j] = Wire[f][j + 2]
  BY DEF HasPrefix, Same
<1>4. state \in {"payload", "crc"} => Frames[f].payload # <<>>
  BY <1>3, StoresMore
<1>5. got' = Append(got, ch)
  <2> SUFFICES ASSUME got' = got, state = "payload", PayloadLen = 0 PROVE FALSE
    BY StoresMore
  <2>1. n >= 6 /\ Same(f, n)
    BY <1>1, <1>3 DEF Same
  <2>2. PayloadLen = Len(Frames[f].payload)
    BY <1>1, <2>1, LengthStored
  <2> QED
    BY <1>4, <2>2, FrameIs
<1>6. /\ Len(got') = n + 1 /\ got'[n + 1] = ch
      /\ \A j \in 1 .. n : got'[j] = got[j]
  BY <1>1, <1>2, <1>5, Appended
<1>7. HasPrefix(f)
  <2>1. Same(f, n)
    <3> SUFFICES ASSUME NEW j \in 1 .. n PROVE got[j] = Wire[f][j + 2]
      BY DEF Same
    <3>1. j \in 1 .. Len(got')
      BY <1>1, <1>6
    <3> QED
      BY <1>3, <1>6, <3>1
  <2>2. n + 2 <= Len(Wire[f])
    BY <1>1, <1>3, <1>6, Lengths
  <2> QED
    BY <1>4, <2>1, <2>2 DEF HasPrefix
<1>8. Here(E, f, n + 2)
  BY <1>7 DEF Spelt
<1>9. PICK i \in Nat : i = n + 2
  BY <1>1
<1>10. i < Len(Wire[f]) /\ i + 1 = n + 3 /\ Here(E, f, i)
  BY <1>1, <1>3, <1>6, <1>8, <1>9, Lengths
<1>11. ch = Wire[f][i + 1]
  <2>1. n + 1 \in 1 .. Len(got') /\ (n + 1) + 2 = i + 1
    BY <1>1, <1>6, <1>9
  <2> QED
    BY <1>3, <1>6, <2>1
<1>12. Own(f) \/ <<f, i + 1, Place(latest'), latest'[3] - began[3]>> \in E
  BY <1>10, <1>11, OneMore
<1>13. Len(got') + 2 = i + 1
  BY <1>1, <1>6, <1>9
<1> HIDE DEF n
<1> QED
  BY <1>12, <1>13 DEF Here, Own, Place

(* A frame without payload, whose head has been stored. *)
LEMMA SkippedOn ==
  ASSUME NEW E, Unmistakable(E), FifoInv, ParserInv, Begun, InOrder, Spelt(E),
         Parse, ~crowded, UnderWay, UnderWay', began' = began,
         NEW f \in DOMAIN Frames, Frames[f].payload = <<>>, HasHead(f)'
  PROVE  IF LastCrc' THEN got'[Len(got')] = Wire[f][9] => Here(E, f, 9)'
                     ELSE Skipped(E, f)'
<1> DEFINE k == latest'[3] - began[3]
<1>1. /\ got \in Seq(Byte) /\ Len(got) \in Nat
      /\ state \in {"payload", "crc"} => Len(got) >= 6
      /\ state \in {"id", "ch", "ack", "len"} => Len(got) <= 5
      /\ state = "len" => Len(got) = 4 + counter
      /\ state \in {"id", "ch", "ack", "len", "payload", "crc"}
  BY StoredSoFar
<1>2. ch \in Byte
  BY DEF FifoInv, FifoType
<1>3. ASSUME got' = Append(got, ch)
      PROVE  /\ Len(got') = Len(got) + 1 /\ got'[Len(got) + 1] = ch
             /\ \A j \in 1 .. Len(got) : got'[j] = got[j]
  BY <1>1, <1>2, <1>3, Appended
<1>4. /\ got' = Append(got, ch) \/ got' = got
      /\ \A j \in 1 .. Len(got) : got'[j] = got[j]
      /\ Len(got') >= 6 /\ \A j \in 1 .. 6 : got'[j] = Wire[f][j + 2]
  BY <1>3, StoresMore DEF HasHead, Same
<1>5. k \in 0 .. MaxLost /\ latest[3] - began[3] <= k /\ latest[3] - began[3] \in 0 .. MaxLost
      /\ Behind(latest, latest') /\ OfLine(latest) /\ OfLine(latest')
      /\ Place(latest') \in Places
  BY Lag, OfLineIs
<1>6. Own(f) => Own(f)'
  BY DEF Own, Place
<1>7. CASE state \in {"payload", "crc"}
  <2>1. Len(got) >= 6 /\ Same(f, 6)
    <3>1. \A j \in 1 .. 6 : j \in 1 .. Len(got)
      BY <1>1, <1>7
    <3> QED
      BY <1>1, <1>4, <1>7, <3>1 DEF Same
  <2>2. ~LastCrc
    BY StoresMore DEF LastCrc
  <2>3. Skipped(E, f)
    BY <2>1, <2>2 DEF Spelt, HasHead
  <2>4. CASE LastCrc'
    <3>1. got' = Append(got, ch)
      BY <2>4, StoresMore DEF LastCrc
    <3>2. got'[Len(got')] = ch
      BY <1>3, <3>1
    <3>3. ASSUME ch = Wire[f][9] PROVE Here(E, f, 9)'
      <4>1. Own(f) \/ <<f, 9, Place(latest'), k>> \in E
        BY <2>3, <3>3, BehindSkipped
      <4> QED
        BY <4>1 DEF Here, Own, Place
    <3> QED
      BY <2>4, <3>2, <3>3
  <2>5. CASE ~LastCrc'
    <3>1. CASE Own(f)
      BY <1>6, <2>5, <3>1 DEF Skipped
    <3>2. CASE ~Own(f)
      <4>1. PICK p \in Places, m \in 0 .. MaxLost :
              /\ <<f, 8, p, m>> \in E
              /\ p = Place(latest) \/ Behind(p, latest)
              /\ m <= latest[3] - began[3]
        BY <2>3, <3>2 DEF Skipped
      <4>2. Behind(p, latest')
        <5>1. CASE p = Place(latest)
          BY <1>5, <5>1 DEF Place, Behind
        <5>2. CASE Behind(p, latest)
          <6>1. p[1] \in Nat /\ p[2] \in Nat
            <7>1. PICK g \in DOMAIN Frames : p \in {g} \X (1 .. Len(Wire[g]))
              BY DEF Places
            <7>2. p[1] = g /\ p[2] \in 1 .. Len(Wire[g])
              BY <7>1
            <7> QED
              BY <7>2, FramesAre, Lengths
          <6>2. /\ latest[1] \in Nat /\ latest[2] \in Nat
                /\ latest'[1] \in Nat /\ latest'[2] \in Nat
            BY <1>5, OfLineIs
          <6> QED
            BY <1>5, <5>2, <6>1, <6>2, BehindTwice
        <5> QED
          BY <4>1, <5>1, <5>2
      <4>3. m <= k
        <5>1. MaxLost \in Nat
          BY FramesAssumption
        <5> HIDE DEF k
        <5> QED
          BY <1>5, <4>1, <5>1
      <4>4. /\ <<f, 8, p, m>> \in E /\ m <= latest'[3] - began'[3]
            /\ p = Place(latest)' \/ Behind(p, latest)'
        BY <4>1, <4>2, <4>3 DEF Behind
      <4>5. Skipped(E, f)'
        BY <4>1, <4>4 DEF Skipped, Behind
      <4> QED
        BY <2>5, <4>5
    <3> QED
      BY <3>1, <3>2
  <2> QED
    BY <2>4, <2>5
<1>8. CASE state \in {"id", "ch", "ack", "len"}
  <2>1. got' = Append(got, ch) /\ Len(got) = 5
    <3>1. Len(got) <= 5 /\ Len(got) \in Nat
      BY <1>1, <1>8
    <3>2. got' # got
      BY <1>4, <3>1
    <3>3. got' = Append(got, ch)
      BY <1>4, <3>2
    <3>4. Len(got) + 1 >= 6
      BY <1>3, <1>4, <3>3
    <3>5. PICK n \in Nat : n = Len(got)
      BY <3>1
    <3>6. n <= 5 /\ n + 1 >= 6
      BY <3>1, <3>4, <3>5
    <3>7. n = 5
      BY <3>6
    <3> QED
      BY <3>3, <3>5, <3>7
  <2>2. ch = Wire[f][7 + 1] /\ Same(f, 5)
    <3>1. got'[6] = ch /\ 6 \in 1 .. 6 /\ 6 + 2 = 7 + 1
      BY <1>3, <2>1
    <3>2. ch = Wire[f][7 + 1]
      BY <1>4, <3>1
    <3>3. ASSUME NEW j \in 1 .. 5 PROVE got[j] = Wire[f][j + 2]
      BY <1>4, <2>1
    <3> QED
      BY <3>2, <3>3 DEF Same
  <2>3. HasPrefix(f) /\ 7 < Len(Wire[f])
    <3>1. 5 + 2 <= Len(Wire[f]) /\ 7 < Len(Wire[f])
      BY Lengths
    <3>2. ~(state \in {"payload", "crc"})
      BY <1>8
    <3> QED
      BY <2>1, <2>2, <3>1, <3>2 DEF HasPrefix
  <2>4. Here(E, f, 7)
    <3>1. Len(got) + 2 = 7
      BY <2>1
    <3> QED
      BY <2>3, <3>1 DEF Spelt
  <2>5. Own(f) \/ <<f, 7 + 1, Place(latest'), k>> \in E
    BY <2>2, <2>3, <2>4, OneMore
  <2>6. Skipped(E, f)'
    <3>1. CASE Own(f)
      BY <1>6, <3>1 DEF Skipped
    <3>2. CASE ~Own(f)
      <4>1. <<f, 8, Place(latest'), k>> \in E
        <5>1. 7 + 1 = 8
          OBVIOUS
        <5> QED
          BY <2>5, <3>2, <5>1
      <4>2. k <= latest'[3] - began'[3]
        BY <1>5, OfLineIs
      <4> QED
        BY <1>5, <4>1, <4>2 DEF Skipped, Place
    <3> QED
      BY <3>1, <3>2
  <2>7. ~LastCrc'
    BY <1>8, StoresMore DEF LastCrc
  <2> QED
    BY <2>6, <2>7
<1> QED
  BY <1>1, <1>7, <1>8

LEMMA ParseSpelt ==
  ASSUME NEW E, Unmistakable(E), FifoInv, ParserInv, Begun, InOrder, Spelt(E), Parse
  PROVE  Spelt(E)'
<1> SUFFICES ASSUME ~crowded', UnderWay', NEW f \in DOMAIN Frames
             PROVE  /\ HasPrefix(f)' => Here(E, f, Len(got) + 2)'
                    /\ Frames[f].payload = <<>> /\ HasHead(f)'
                         => IF LastCrc' THEN got'[Len(got')] = Wire[f][9] => Here(E, f, 9)'
                                        ELSE Skipped(E, f)'
  BY DEF Spelt
<1>1. ~crowded
  BY DEF Parse
<1>2. got \in Seq(Byte)
  BY DEF ParserInv, ParserType
<1>3. CASE got = <<>> /\ got' = Append(got, ch) /\ began' = latest'
  BY <1>1, <1>2, <1>3, FirstSpelt
<1>4. CASE UnderWay /\ began' = began
  BY <1>1, <1>4, MoreSpelt, SkippedOn
<1> QED
  BY <1>3, <1>4, StillUnderWay

-----------------------------------------------------------------------------
(* A frame that is handed over. *)
LEMMA LengthIs == ASSUME ParserInv, Len(got) >= 6 PROVE PayloadLen \in Nat
<1>1. got \in Seq(Byte) /\ 5 \in 1 .. Len(got) /\ 6 \in 1 .. Len(got)
  BY DEF ParserInv, ParserType
<1>2. got[5] \in Nat /\ got[6] \in Nat
  BY <1>1, ByteIs
<1> QED
  BY <1>2 DEF PayloadLen, Field

LEMMA AsSent ==
  ASSUME ParserInv, ch \in Byte, state = "crc", counter = 1, got' = Append(got, ch),
         NEW f \in DOMAIN Frames, Checked(got') = SubSeq(Wire[f], 3, Len(Wire[f]))
  PROVE  LET n == Len(Frames[f].payload) IN
         /\ Len(got) \in Nat /\ Len(got) >= 7 /\ (n # 0 => Len(got) = 7 + n)
         /\ \A j \in 1 .. 6 + n : got[j] = Wire[f][j + 2]
         /\ got[Len(got)] = Wire[f][9 + n] /\ ch = Wire[f][10 + n]
<1> DEFINE n == Len(Frames[f].payload)
<1>1. /\ got \in Seq(Byte) /\ Len(got) \in Nat /\ Len(got) >= 7
      /\ PayloadLen # 0 => Len(got) = 6 + PayloadLen + 1
  BY DEF ParserInv, ParserType, Stored
<1>2. /\ got' \in Seq(Byte) /\ Len(got') = Len(got) + 1 /\ got'[Len(got) + 1] = ch
      /\ \A i \in 1 .. Len(got) : got'[i] = got[i]
  BY <1>1, Appended
<1>3. PICK m \in Nat : m = 6 + PayloadLen /\ m >= 6
  BY <1>1, LengthIs
<1>4. m + 2 <= Len(got') /\ m <= Len(got)
  <2>1. CASE PayloadLen = 0
    BY <1>1, <1>2, <1>3, <2>1
  <2>2. CASE PayloadLen # 0
    BY <1>1, <1>2, <1>3, <2>2
  <2> QED
    BY <2>1, <2>2
<1>5. PICK t : t = SubSeq(got', 1, m) \o SubSeq(got', Len(got') - 1, Len(got'))
  OBVIOUS
<1>6. /\ Len(t) = m + 2 /\ \A i \in 1 .. m : t[i] = got'[i]
      /\ t[m + 1] = got'[Len(got') - 1] /\ t[m + 2] = got'[Len(got')]
  <2>1. PICK q : q = got'
    OBVIOUS
  <2>2. q \in Seq(Byte) /\ m + 2 <= Len(q) /\ m >= 1
    BY <1>2, <1>3, <1>4, <2>1
  <2>3. /\ Len(t) = m + 2 /\ \A i \in 1 .. m : t[i] = q[i]
        /\ t[m + 1] = q[Len(q) - 1] /\ t[m + 2] = q[Len(q)]
    <3>1. t = SubSeq(q, 1, m) \o SubSeq(q, Len(q) - 1, Len(q))
      BY <1>5, <2>1
    <3> HIDE DEF n
    <3> QED
      BY <2>2, <3>1, EndsJoined
  <2> QED
    BY <2>1, <2>3
<1>7. /\ t = SubSeq(Wire[f], 3, Len(Wire[f])) /\ n \in Nat
      /\ Len(Wire[f]) = 10 + n
  <2>1. t = Checked(got')
    BY <1>3, <1>5 DEF Checked
  <2>2. t = SubSeq(Wire[f], 3, Len(Wire[f]))
    BY <2>1
  <2>3. Len(Frames[f].payload) \in Nat /\ Len(Wire[f]) = 10 + Len(Frames[f].payload)
    BY FrameIs, WireIs
  <2> QED
    BY <2>2, <2>3
<1>8. Len(t) = Len(Wire[f]) - 2 /\ \A i \in 1 .. Len(Wire[f]) - 2 : t[i] = Wire[f][i + 2]
  BY <1>7, FrameEnd
<1> HIDE DEF n
<1>9. m = 6 + n /\ PayloadLen = n
  <2>1. m + 2 = 8 + n
    BY <1>6, <1>7, <1>8
  <2>2. PICK x \in Nat : x = PayloadLen
    BY <1>1, LengthIs
  <2>3. m = 6 + x
    BY <1>3, <2>2
  <2>4. m = 6 + n /\ x = n
    BY <1>7, <2>1, <2>3
  <2> QED
    BY <2>2, <2>4
<1>10. Len(Wire[f]) - 2 = 8 + n
  BY <1>7
<1>11. n # 0 => Len(got) = 7 + n
  BY <1>1, <1>7, <1>9
<1>12. ASSUME NEW j \in 1 .. 6 + n PROVE got[j] = Wire[f][j + 2]
  <2>1. j \in 1 .. m /\ j \in 1 .. Len(got) /\ j \in 1 .. 8 + n
    BY <1>1, <1>4, <1>7, <1>9
  <2> QED
    BY <1>2, <1>6, <1>8, <1>10, <2>1
<1>13. got[Len(got)] = Wire[f][9 + n]
  <2>1. /\ Len(got') - 1 = Len(got) /\ Len(got) \in 1 .. Len(got)
        /\ m + 1 \in 1 .. 8 + n /\ (m + 1) + 2 = 9 + n
    BY <1>1, <1>2, <1>7, <1>9
  <2>2. t[m + 1] = Wire[f][(m + 1) + 2]
    BY <1>8, <1>10, <2>1
  <2>3. t[m + 1] = got[Len(got)]
    BY <1>2, <1>6, <2>1
  <2> QED
    BY <2>1, <2>2, <2>3
<1>14. ch = Wire[f][10 + n]
  <2>1. m + 2 \in 1 .. 8 + n /\ (m + 2) + 2 = 10 + n
    BY <1>7, <1>9
  <2>2. t[m + 2] = Wire[f][(m + 2) + 2]
    BY <1>8, <1>10, <2>1
  <2>3. t[m + 2] = ch
    BY <1>2, <1>6
  <2> QED
    BY <2>1, <2>2, <2>3
<1> QED
  BY <1>1, <1>11, <1>12, <1>13, <1>14 DEF n

LEMMA Acceptance ==
  ASSUME NEW E, Unmistakable(E), FifoInv, ParserInv, Begun, InOrder, Spelt(E),
         Parse, ~crowded, ~(UNCHANGED <<delivered, calm>>)
  PROVE  \E f \in DOMAIN Frames : Name(got') = f /\ Own(f)
<1>1. /\ state = "crc" /\ counter = 1 /\ got' = Append(got, ch) /\ CrcOk(got')
      /\ UnderWay
  BY HandsOver
<1>2. PICK f \in DOMAIN Frames : Checked(got') = SubSeq(Wire[f], 3, Len(Wire[f]))
  BY <1>1 DEF CrcOk, SentAs
<1>3. Name(got') = f
  BY <1>2, NameIs
<1>4. ch \in Byte
  BY DEF FifoInv, FifoType
<1>5. PICK n \in Nat : n = Len(Frames[f].payload) /\ Len(Wire[f]) = 10 + n
  BY FrameIs, WireIs
<1>6. /\ Len(got) \in Nat /\ Len(got) >= 7 /\ (n # 0 => Len(got) = 7 + n)
      /\ \A j \in 1 .. 6 + n : got[j] = Wire[f][j + 2]
      /\ got[Len(got)] = Wire[f][9 + n] /\ ch = Wire[f][10 + n]
  BY <1>1, <1>2, <1>4, <1>5, AsSent
<1>7. PICK i \in Nat : i = 9 + n
  OBVIOUS
<1>8. Here(E, f, i)
  <2>1. CASE n # 0
    <3>1. Frames[f].payload # <<>>
      BY <1>5, <2>1, FrameIs
    <3>2. Same(f, Len(got))
      <4> SUFFICES ASSUME NEW j \in 1 .. Len(got) PROVE got[j] = Wire[f][j + 2]
        BY DEF Same
      <4>1. CASE j = 7 + n
        <5>1. j = Len(got) /\ j + 2 = 9 + n
          BY <1>6, <2>1, <4>1
        <5> QED
          BY <1>6, <5>1
      <4>2. CASE j # 7 + n
        <5>1. j \in 1 .. 6 + n
          BY <1>6, <2>1, <4>2
        <5> QED
          BY <1>6, <5>1
      <4> QED
        BY <4>1, <4>2
    <3>3. Len(got) + 2 = i /\ i <= Len(Wire[f])
      BY <1>5, <1>6, <1>7, <2>1
    <3>4. HasPrefix(f)
      BY <3>1, <3>2, <3>3 DEF HasPrefix
    <3>5. Here(E, f, Len(got) + 2)
      BY <1>1, <3>4 DEF Spelt
    <3> QED
      BY <3>3, <3>5
  <2>2. CASE n = 0
    <3>1. Frames[f].payload = <<>> /\ i = 9
      <4>1. Len(Frames[f].payload) = 0 /\ i = 9
        BY <1>5, <1>7, <2>2
      <4> QED
        BY <4>1, FrameIs
    <3>2. HasHead(f)
      <4>1. Len(got) >= 6 /\ 6 + n = 6
        BY <1>6, <2>2
      <4>2. \A j \in 1 .. 6 : got[j] = Wire[f][j + 2]
        BY <1>6, <4>1
      <4> QED
        BY <4>1, <4>2 DEF HasHead, Same
    <3>3. LastCrc
      BY <1>1 DEF LastCrc
    <3>4. got[Len(got)] = Wire[f][9]
      <4>1. 9 + n = 9
        BY <2>2
      <4> QED
        BY <1>6, <4>1
    <3>5. Here(E, f, 9)
      BY <1>1, <3>1, <3>2, <3>3, <3>4 DEF Spelt
    <3> QED
      BY <3>1, <3>5
  <2> QED
    BY <2>1, <2>2
<1>9. Own(f)
  <2> SUFFICES ASSUME ~Own(f) PROVE FALSE
    OBVIOUS
  <2>1. i < Len(Wire[f]) /\ i + 1 = 10 + n
    BY <1>5, <1>7
  <2>2. <<f, i + 1, Place(latest'), latest'[3] - began[3]>> \in E
    BY <1>1, <1>6, <1>8, <2>1, OneMore
  <2>3. PICK e \in E : e = <<f, i + 1, Place(latest'), latest'[3] - began[3]>>
    BY <2>2
  <2>4. e[1] = f /\ e[2] = Len(Wire[f])
    BY <1>5, <2>1, <2>3
  <2> QED
    BY <2>4 DEF Unmistakable
<1> QED
  BY <1>3, <1>9

-----------------------------------------------------------------------------
(* What is handed over stands on the line behind what was handed over last. *)
LEMMA LastOf ==
  ASSUME NEW S, NEW s \in Seq(S), NEW b \in S
  PROVE  /\ Append(s, b) \in Seq(S) /\ Append(s, b) # <<>>
         /\ Append(s, b)[Len(Append(s, b))] = b
  OBVIOUS

LEMMA ParseNewer ==
  ASSUME NEW E, Unmistakable(E), FifoInv, ParserInv, Begun, InOrder, Spelt(E), Newer, Parse
  PROVE  Newer'
<1>1. /\ calm \in Seq(DOMAIN Frames) /\ (~crowded => calm = delivered)
      /\ crowded' = crowded
  BY DEF Newer, Parse
<1>2. /\ OfLine(latest') /\ latest'[1] # 0
      /\ latest[1] # 0 => OfLine(latest) /\ Behind(latest, latest')
  BY ReadNext
<1>3. latest'[1] \in Nat /\ latest'[2] \in Nat
  BY <1>2, OfLineIs
<1>4. CASE calm' = calm /\ (UnderWay' => UNCHANGED <<delivered, calm>>)
                        /\ (~crowded => UNCHANGED delivered)
  <2>1. calm' \in Seq(DOMAIN Frames) /\ (~crowded' => calm' = delivered')
    BY <1>1, <1>4
  <2>2. ASSUME calm # <<>>
        PROVE  /\ Behind(<<calm[Len(calm)], 3>>, latest')
               /\ UnderWay' => Behind(<<calm[Len(calm)], 3>>, began')
    <3>1. PICK c : c = <<calm[Len(calm)], 3>>
      OBVIOUS
    <3>2. c[1] \in Nat /\ c[2] \in Nat
      <4>1. Len(calm) \in 1 .. Len(calm)
        BY <1>1, <2>2
      <4>2. calm[Len(calm)] \in DOMAIN Frames
        BY <1>1, <4>1
      <4>3. calm[Len(calm)] \in Nat
        BY <4>2, FramesAre
      <4> QED
        BY <3>1, <4>3
    <3>3. /\ latest[1] # 0 /\ Behind(c, latest)
          /\ UnderWay => Behind(c, began)
      BY <2>2, <3>1 DEF Newer
    <3>4. latest[1] \in Nat /\ latest[2] \in Nat /\ Behind(latest, latest')
      BY <1>2, <3>3, OfLineIs
    <3>5. Behind(c, latest')
      BY <1>3, <3>2, <3>3, <3>4, BehindTwice
    <3>6. UnderWay' => Behind(c, began')
      BY <3>3, <3>5, StillUnderWay
    <3> QED
      BY <3>1, <3>5, <3>6
  <2> QED
    BY <1>2, <1>4, <2>1, <2>2 DEF Newer, Behind
<1>5. CASE ~(UNCHANGED <<delivered, calm>>) /\ crowded
  <2>1. calm' = calm /\ ~UnderWay'
    BY <1>5, HandsOver DEF UnderWay
  <2> QED
    BY <1>4, <1>5, <2>1
<1>6. CASE ~(UNCHANGED <<delivered, calm>>) /\ ~crowded
  <2>1. PICK f \in DOMAIN Frames : Name(got') = f /\ Own(f)
    BY <1>6, Acceptance
  <2>2. /\ UnderWay /\ ~UnderWay' /\ calm' = delivered'
        /\ delivered' = Append(delivered, Name(got'))
    BY <1>6, HandsOver DEF UnderWay
  <2>3. calm' = Append(calm, f) /\ calm' = delivered'
    <3>1. calm = delivered
      BY <1>1, <1>6
    <3> QED
      BY <2>1, <2>2, <3>1
  <2>4. calm' \in Seq(DOMAIN Frames) /\ calm' # <<>> /\ calm'[Len(calm')] = f
    <3>1. /\ Append(calm, f) \in Seq(DOMAIN Frames) /\ Append(calm, f) # <<>>
          /\ Append(calm, f)[Len(Append(calm, f))] = f
      BY <1>1, LastOf
    <3> QED
      BY <2>3, <3>1
  <2>5. Behind(<<f, 3>>, latest')
    <3>1. /\ OfLine(began) /\ latest[1] # 0
          /\ began = latest \/ Behind(began, latest)
      BY <2>2 DEF Begun
    <3>2. /\ OfLine(latest) /\ Behind(latest, latest')
      BY <1>2, <3>1
    <3>3. /\ began[1] \in Nat /\ began[2] \in Nat
          /\ latest[1] \in Nat /\ latest[2] \in Nat
      BY <3>1, <3>2, OfLineIs
    <3>4. Behind(began, latest')
      <4>1. CASE began = latest
        BY <3>2, <4>1
      <4>2. CASE Behind(began, latest)
        BY <1>3, <3>2, <3>3, <4>2, BehindTwice
      <4> QED
        BY <3>1, <4>1, <4>2
    <3> QED
      BY <2>1, <3>4 DEF Own, Place, Behind
  <2> QED
    BY <1>2, <2>2, <2>3, <2>4, <2>5 DEF Newer, Behind
<1> QED
  BY <1>4, <1>5, <1>6

(* Frames are sent one after the other. *)
LEMMA SentAfter ==
  ASSUME LineType, Arriving, Advance
  PROVE  /\ Sent' = line[1] /\ line[1] \in Nat /\ Sent \in Nat
         /\ Sent = line[1] \/ Sent = line[1] - 1
<1>1. /\ line[1] \in Nat /\ line[2] \in Nat /\ line[2] >= 1
      /\ line[1] \in DOMAIN Frames /\ Len(Wire[line[1]]) \in Nat
      /\ \/ line[2] = Len(Wire[line[1]]) /\ line'[1] = line[1] + 1 /\ line'[2] = 1
         \/ line[2] < Len(Wire[line[1]]) /\ line'[1] = line[1] /\ line'[2] = line[2] + 1
  BY LineAfter
<1>2. line[1] >= 1
  BY <1>1, FramesAre
<1>3. Sent' = line[1]
  <2>1. CASE line[2] = Len(Wire[line[1]])
    <3>1. line'[1] = line[1] + 1 /\ line'[2] = 1
      BY <1>1, <2>1
    <3> QED
      BY <1>1, <3>1 DEF Sent
  <2>2. CASE line[2] < Len(Wire[line[1]])
    <3>1. line'[1] = line[1] /\ line'[2] # 1
      BY <1>1, <2>2
    <3> QED
      BY <3>1 DEF Sent
  <2> QED
    BY <1>1, <2>1, <2>2
<1>4. Sent \in Nat /\ (Sent = line[1] \/ Sent = line[1] - 1)
  BY <1>1, <1>2 DEF Sent
<1> QED
  BY <1>1, <1>3, <1>4

LEMMA Advances ==
  ASSUME LineType, LoseByte \/ PutFull \/ Put
  PROVE  /\ Sent' = line[1] /\ line[1] \in Nat /\ Sent \in Nat
         /\ Sent = line[1] \/ Sent = line[1] - 1
<1>1. Arriving
  <2>1. ASSUME LoseByte PROVE Arriving
    <3>1. line[1] \in DOMAIN Frames
      BY <2>1, FramesAssumption DEF LoseByte
    <3> QED
      BY <3>1, FramesAre DEF Arriving
  <2> QED
    BY <2>1 DEF PutFull, Put
<1>2. Advance
  BY DEF LoseByte, PutFull, Put
<1> QED
  BY <1>1, <1>2, SentAfter

LEMMA StepPassed ==
  ASSUME FifoInv, Begun, InOrder, Passed, [Next]_vars PROVE Passed'
<1>1. /\ LineType /\ unread \in Seq(Triple) /\ Len(unread) \in Nat
      /\ \A i \in 1 .. Len(unread) : OfLine(unread[i])
      /\ latest[1] \in Nat /\ lost \in 0 .. MaxLost
  BY TripleIs DEF FifoInv, FifoType, Begun
<1>2. /\ latest[1] <= Sent
      /\ \A i \in 1 .. Len(unread) : unread[i][1] <= Sent
  BY DEF Passed
<1>3. ASSUME NEW i \in 1 .. Len(unread) PROVE unread[i][1] \in Nat
  BY <1>1, OfLineIs
<1>4. CASE LoseByte \/ PutFull
  <2>1. Sent' \in Nat /\ Sent \in Nat /\ Sent <= Sent'
    BY <1>1, <1>4, Advances
  <2>2. unread' = unread /\ latest' = latest
    BY <1>4 DEF LoseByte, PutFull, history
  <2>3. latest[1] <= Sent'
    BY <1>1, <1>2, <2>1
  <2>4. ASSUME NEW i \in 1 .. Len(unread) PROVE unread[i][1] <= Sent'
    BY <1>2, <1>3, <2>1
  <2> QED
    BY <2>2, <2>3, <2>4 DEF Passed
<1>5. CASE Put
  <2>1. Sent' \in Nat /\ Sent \in Nat /\ Sent <= Sent' /\ Sent' = line[1]
    BY <1>1, <1>5, Advances
  <2>2. /\ unread' = Append(unread, Now) /\ latest' = latest
        /\ Arriving /\ Advance /\ lost \in 0 .. MaxLost
    BY <1>1, <1>5 DEF Put, history, Now
  <2>3. Now \in Triple
    BY <1>1, <2>2, ArrivingByte
  <2>4. /\ Len(unread') = Len(unread) + 1 /\ unread'[Len(unread) + 1] = Now
        /\ \A i \in 1 .. Len(unread) : unread'[i] = unread[i]
    BY <1>1, <2>2, <2>3, Appended
  <2>5. latest[1] <= Sent'
    BY <1>1, <1>2, <2>1
  <2>6. ASSUME NEW i \in 1 .. Len(unread) PROVE unread'[i][1] <= Sent'
    <3>1. unread[i][1] <= Sent /\ unread[i][1] \in Nat
      BY <1>2, <1>3
    <3>2. unread[i][1] <= Sent'
      BY <2>1, <3>1
    <3> QED
      BY <2>4, <3>2
  <2>7. unread'[Len(unread) + 1][1] <= Sent'
    BY <2>1, <2>4, NowIs
  <2>8. ASSUME NEW i \in 1 .. Len(unread') PROVE unread'[i][1] <= Sent'
    <3>1. i \in 1 .. Len(unread) \/ i = Len(unread) + 1
      BY <1>1, <2>4
    <3> QED
      BY <2>6, <2>7, <3>1
  <2> QED
    BY <2>2, <2>5, <2>8 DEF Passed
<1>6. CASE Parse
  <2>1. unread # <<>> /\ latest' = unread[1]
    BY <1>6, ReadNext
  <2>2. unread' = SubSeq(unread, 2, Len(unread)) /\ Sent' = Sent
    BY <1>6 DEF Parse, Sent
  <2>3. /\ Len(unread') = Len(unread) - 1
        /\ \A i \in 1 .. Len(unread) - 1 : unread'[i] = unread[i + 1]
    BY <1>1, <2>1, <2>2, Dropped
  <2>4. 1 \in 1 .. Len(unread)
    BY <1>1, <2>1
  <2>5. ASSUME NEW i \in 1 .. Len(unread') PROVE unread'[i][1] <= Sent
    <3>1. i \in 1 .. Len(unread) - 1 /\ i + 1 \in 1 .. Len(unread)
      BY <1>1, <2>3
    <3> QED
      BY <1>2, <2>3, <3>1
  <2> QED
    BY <1>2, <2>1, <2>2, <2>4, <2>5 DEF Passed
<1>7. CASE GetLen \/ GetCopy \/ UNCHANGED vars
  <2>1. UNCHANGED <<line, unread, latest>>
    BY <1>7 DEF GetLen, GetCopy, vars, history
  <2> QED
    BY <2>1 DEF Passed, Sent
<1> QED
  BY <1>4, <1>5, <1>6, <1>7 DEF Next, ddc_recv_process, Done

-----------------------------------------------------------------------------
(* Together. *)
LEMMA InitOrder == ASSUME NEW E PROVE Init => OrderInv /\ Spelt(E)
<1> SUFFICES ASSUME Init PROVE OrderInv /\ Spelt(E)
  OBVIOUS
<1>1. /\ latest = <<0, 0, 0>> /\ unread = <<>> /\ calm = <<>> /\ delivered = <<>>
      /\ state = "head" /\ line = <<1, 1>>
  BY DEF Init
<1>2. latest[1] = 0 /\ latest \in Triple /\ Len(unread) = 0
  BY <1>1 DEF Triple
<1>3. ~UnderWay
  BY <1>1 DEF UnderWay
<1>4. Sent = 0
  <2>1. line[1] = 1 /\ line[2] = 1
    BY <1>1
  <2> QED
    BY <2>1 DEF Sent
<1>5. InOrder
  BY <1>1, <1>2 DEF InOrder
<1>6. Begun
  BY <1>2, <1>3 DEF Begun
<1>7. Newer
  BY <1>1 DEF Newer
<1>8. Passed
  BY <1>2, <1>4 DEF Passed
<1>9. Spelt(E)
  BY <1>3 DEF Spelt
<1> QED
  BY <1>5, <1>6, <1>7, <1>8, <1>9 DEF OrderInv

LEMMA StepOrder ==
  ASSUME NEW E, Unmistakable(E), FifoInv, ParserInv, OrderInv, Spelt(E), [Next]_vars
  PROVE  OrderInv' /\ Spelt(E)'
<1>1. InOrder /\ Begun /\ Newer /\ Passed
  BY DEF OrderInv
<1>2. Passed'
  BY <1>1, StepPassed
<1>3. InOrder'
  <2>1. CASE LoseByte \/ PutFull
    BY <1>1, <2>1, LossInOrder
  <2>2. CASE Put
    BY <1>1, <2>2, PutInOrder
  <2>3. CASE Parse
    BY <1>1, <2>3, ParseInOrder
  <2>4. CASE GetLen \/ GetCopy \/ UNCHANGED vars
    <3>1. UNCHANGED <<line, lost, unread, latest>>
      BY <2>4 DEF GetLen, GetCopy, vars, history
    <3> QED
      BY <1>1, <3>1 DEF InOrder, Later, Behind, Between, NextByte, Now
  <2> QED
    BY <2>1, <2>2, <2>3, <2>4 DEF Next, ddc_recv_process, Done
<1>4. CASE Parse
  BY <1>1, <1>2, <1>3, <1>4, ParseBegun, ParseNewer, ParseSpelt DEF OrderInv
<1>5. CASE ~Parse
  <2>1. UNCHANGED <<state, counter, got, delivered, calm, began, latest>>
        /\ (~crowded' => ~crowded)
    BY <1>5, OtherSteps DEF parser, history
  <2>2. Begun'
    BY <1>1, <2>1 DEF Begun, UnderWay, OfLine, Behind
  <2>3. Newer'
    BY <1>1, <2>1 DEF Newer, UnderWay, Behind
  <2>4. Spelt(E)'
    BY <2>1 DEF Spelt, UnderWay, HasPrefix, HasHead, Same, LastCrc, Here, Skipped,
                Own, Place, Behind
  <2> QED
    BY <1>2, <1>3, <2>2, <2>3, <2>4 DEF OrderInv
<1> QED
  BY <1>4, <1>5

(* Every step is one of the link, or none. *)
LEMMA LinkStep ==
  ASSUME NEW E, Unmistakable(E), FifoInv, ParserInv, OrderInv, Spelt(E), [Next]_vars
  PROVE  [Link!Send \/ Link!Deliver]_<<Sent, calm>>
<1>1. InOrder /\ Begun /\ Newer /\ Passed /\ LineType
  BY DEF OrderInv, FifoInv
<1>2. CASE LoseByte \/ PutFull \/ Put
  <2>1. calm' = calm
    BY <1>2 DEF LoseByte, PutFull, Put, history
  <2>2. Sent' = Sent \/ Sent' = Sent + 1
    BY <1>1, <1>2, Advances
  <2> QED
    BY <2>1, <2>2 DEF Link!Send, Sent
<1>3. CASE Parse /\ calm' # calm
  <2>1. Sent' = Sent
    BY <1>3 DEF Parse, Sent
  <2>2. ~crowded /\ delivered' = Append(delivered, Name(got')) /\ calm' = delivered'
        /\ UnderWay
    BY <1>3, HandsOver
  <2>3. PICK f \in DOMAIN Frames : Name(got') = f /\ Own(f)
    BY <1>1, <1>3, <2>2, Acceptance
  <2>4. /\ calm' = Append(calm, f) /\ calm \in Seq(DOMAIN Frames)
        /\ calm # <<>> => Behind(<<calm[Len(calm)], 3>>, began)
    BY <1>1, <2>2, <2>3 DEF Newer
  <2>5. began[1] = f /\ began[2] = 3 /\ f \in Nat /\ f >= 1
    BY <2>3, FramesAre DEF Own, Place
  <2>6. f <= Sent
    <3>1. OfLine(began) /\ latest[1] # 0 /\ (began = latest \/ Behind(began, latest))
      BY <1>1, <2>2 DEF Begun
    <3>2. latest[1] \in Nat /\ latest[2] \in Nat
      BY <1>1, <3>1, OfLineIs DEF Begun
    <3>3. f <= latest[1]
      BY <2>5, <3>1, <3>2 DEF Behind
    <3>4. latest[1] <= Sent
      BY <1>1 DEF Passed
    <3>5. Sent \in Int
      <4>1. line[1] \in Nat
        BY <1>1 DEF LineType
      <4> QED
        BY <4>1 DEF Sent
    <3> QED
      BY <2>5, <3>2, <3>3, <3>4, <3>5
  <2>7. Link!Newest < f /\ Link!Newest \in Nat
    <3>1. CASE calm = <<>>
      BY <2>5, <3>1 DEF Link!Newest
    <3>2. CASE calm # <<>>
      <4>1. Len(calm) \in 1 .. Len(calm)
        BY <2>4, <3>2
      <4>2. calm[Len(calm)] \in DOMAIN Frames
        BY <2>4, <4>1
      <4>3. PICK g \in Nat : g = calm[Len(calm)]
        BY <4>2, FramesAre
      <4>4. Behind(<<g, 3>>, began)
        BY <2>4, <3>2, <4>3
      <4>5. g < f
        BY <2>5, <4>4 DEF Behind
      <4>6. Link!Newest = g
        BY <3>2, <4>3 DEF Link!Newest, Link!Last
      <4> QED
        BY <4>5, <4>6
    <3> QED
      BY <3>1, <3>2
  <2>8. f \in Link!Newest + 1 .. Sent
    <3>1. Sent \in Int
      <4>1. line[1] \in Nat
        BY <1>1 DEF LineType
      <4> QED
        BY <4>1 DEF Sent
    <3> QED
      BY <2>5, <2>6, <2>7, <3>1
  <2> QED
    BY <2>1, <2>4, <2>8 DEF Link!Deliver, Sent
<1>4. CASE ~(LoseByte \/ PutFull \/ Put) /\ calm' = calm
  <2>1. line' = line
    BY <1>4 DEF Next, ddc_recv_process, Parse, GetLen, GetCopy, Done, vars
  <2> QED
    BY <1>4, <2>1 DEF Sent
<1>5. ASSUME ~Parse PROVE calm' = calm
  BY <1>5, OtherSteps DEF history
<1> QED
  BY <1>2, <1>3, <1>4, <1>5

(* Theorem: while no more bytes wait than the fifo keeps apart, the link is   *)
(* that of LossyLink: frames in order, each at most once, none made up, for  *)
(* all frames of which no loss of MaxLost bytes can make up one.             *)
THEOREM Refinement ==
  ASSUME NEW E, Unmistakable(E)
  PROVE  Spec => IsLossyLink
<1>1. Init => Link!Init
  <2> SUFFICES ASSUME Init PROVE Link!Init
    OBVIOUS
  <2>1. line[1] = 1 /\ line[2] = 1 /\ calm = <<>>
    BY DEF Init
  <2> QED
    BY <2>1 DEF Link!Init
<1>2. Init => OrderInv /\ Spelt(E)
  BY InitOrder
<1>3. FifoInv /\ ParserInv /\ OrderInv /\ Spelt(E) /\ [Next]_vars
        => /\ (OrderInv /\ Spelt(E))'
           /\ [Link!Send \/ Link!Deliver]_<<Sent, calm>>
  BY StepOrder, LinkStep
<1>4. Spec => Link!Init /\ [][Link!Send \/ Link!Deliver]_<<Sent, calm>>
  BY <1>1, <1>2, <1>3, FifoInvariant, ParserInvariant, PTL DEF Spec
<1> QED
  BY <1>4 DEF IsLossyLink, Link!Spec, Sent
=============================================================================
