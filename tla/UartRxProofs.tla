---------------------------- MODULE UartRxProofs ----------------------------
(***************************************************************************)
(* UartRx for every size of the ring and every number of arrivals: types,    *)
(* what is lost, what available() promises, and the order of the bytes.      *)
(***************************************************************************)
EXTENDS UartRx, TLAPS

-----------------------------------------------------------------------------
(* The arithmetic of the ring: what an index leaves that runs round once. *)
LEMMA Remainder ==
  ASSUME NEW x \in Int, NEW s \in Nat \ {0}, NEW q \in {-1, 0, 1},
         NEW r \in 0..s - 1, x = q * s + r
  PROVE  x % s = r
<1>1. x \div s \in Int /\ x % s \in 0..s - 1 /\ x = (x \div s) * s + (x % s)
  BY Z3
<1> DEFINE d == x \div s
           m == x % s
<1>2. d \in Int /\ m \in 0..s - 1 /\ d * s + m = q * s + r
  BY <1>1
<1> HIDE DEF d, m
<1>3. ASSUME d >= q + 1 PROVE FALSE
  <2>1. d * s >= q * s + s /\ d * s \in Int /\ q * s \in Int
    BY <1>2, <1>3, Z3
  <2> QED BY <2>1, <1>2
<1>4. ASSUME d <= q - 1 PROVE FALSE
  <2>1. d * s <= q * s - s /\ d * s \in Int /\ q * s \in Int
    BY <1>2, <1>4, Z3
  <2> QED BY <2>1, <1>2
<1>5. d = q
  BY <1>2, <1>3, <1>4
<1>6. m = r
  <2>1. q * s \in Int
    BY Z3
  <2> QED BY <2>1, <1>2, <1>5
<1> QED
  BY <1>6 DEF m

LEMMA Wraps ==
  ASSUME NEW s \in Nat \ {0}, NEW i \in 0..s - 1
  PROVE  (i + 1) % s = IF i = s - 1 THEN 0 ELSE i + 1
<1>1. CASE i = s - 1
  <2>1. i + 1 = 1 * s + 0
    BY <1>1
  <2> QED BY <2>1, <1>1, Remainder
<1>2. CASE i # s - 1
  <2>1. i + 1 = 0 * s + (i + 1) /\ i + 1 \in 0..s - 1
    BY <1>2
  <2> QED BY <2>1, <1>2, Remainder
<1> QED
  BY <1>1, <1>2

LEMMA AfterIs ==
  ASSUME NEW i \in Index
  PROVE  /\ After(i) = IF i = Size - 1 THEN 0 ELSE i + 1
         /\ After(i) \in Index
  BY SizeAssumption, Wraps DEF After, Index

LEMMA DistIs ==
  ASSUME NEW t \in Index, NEW h \in Index
  PROVE  /\ Dist(t, h) = IF t <= h THEN h - t ELSE Size + h - t
         /\ Dist(t, h) \in Index
<1>1. CASE t <= h
  <2>1. Size + h - t = 1 * Size + (h - t) /\ h - t \in 0..Size - 1
    BY <1>1, SizeAssumption DEF Index
  <2>2. (Size + h - t) % Size = h - t
    BY <2>1, SizeAssumption, Remainder DEF Index
  <2> QED BY <2>1, <2>2, <1>1 DEF Dist, Index
<1>2. CASE ~(t <= h)
  <2>1. Size + h - t = 0 * Size + (Size + h - t) /\ Size + h - t \in 0..Size - 1
    BY <1>2, SizeAssumption DEF Index
  <2>2. (Size + h - t) % Size = Size + h - t
    BY <2>1, SizeAssumption, Remainder DEF Index
  <2> QED BY <2>1, <2>2, <1>2 DEF Dist, Index
<1> QED
  BY <1>1, <1>2

(* What a step of either end does to the distance between them. *)
LEMMA Steps ==
  ASSUME NEW t \in Index, NEW h \in Index
  PROVE  /\ Dist(t, h) = 0 <=> t = h
         /\ After(h) # t => Dist(t, After(h)) = Dist(t, h) + 1
         /\ After(h) = t => Dist(t, h) = Size - 1
         /\ t # h => Dist(After(t), h) = Dist(t, h) - 1
         /\ Dist(After(t), t) = Size - 1
         /\ After(t) # t
<1>1. /\ After(h) = IF h = Size - 1 THEN 0 ELSE h + 1
      /\ After(t) = IF t = Size - 1 THEN 0 ELSE t + 1
      /\ After(h) \in Index /\ After(t) \in Index
  BY AfterIs
<1> DEFINE D(a, b) == IF a <= b THEN b - a ELSE Size + b - a
<1>2. /\ Dist(t, h) = D(t, h) /\ Dist(t, After(h)) = D(t, After(h))
      /\ Dist(After(t), h) = D(After(t), h) /\ Dist(After(t), t) = D(After(t), t)
  BY <1>1, DistIs
<1>3. Size \in Nat /\ Size >= 2 /\ t \in 0..Size - 1 /\ h \in 0..Size - 1
  BY SizeAssumption DEF Index
<1>4. Dist(t, h) = 0 <=> t = h
  BY <1>2, <1>3
<1>5. After(h) # t => Dist(t, After(h)) = Dist(t, h) + 1
  BY <1>1, <1>2, <1>3
<1>6. After(h) = t => Dist(t, h) = Size - 1
  BY <1>1, <1>2, <1>3
<1>7. t # h => Dist(After(t), h) = Dist(t, h) - 1
  BY <1>1, <1>2, <1>3
<1>8. Dist(After(t), t) = Size - 1 /\ After(t) # t
  BY <1>1, <1>2, <1>3
<1> QED
  BY <1>4, <1>5, <1>6, <1>7, <1>8

LEMMA SameAfter ==
  ASSUME NEW h \in Index, NEW t \in Index, After(h) = After(t) PROVE h = t
  BY AfterIs, SizeAssumption DEF Index

-----------------------------------------------------------------------------
LEMMA TypeInit == Init => TypeOK
<1> SUFFICES ASSUME Init PROVE TypeOK
  OBVIOUS
<1>1. 0 \in Index /\ 0 \in 0..MaxArrivals
  BY SizeAssumption, BoundsAssumption DEF Index
<1>2. buf \in [Index -> 0..MaxArrivals]
  BY <1>1 DEF Init
<1>3. loc \in [h : Index, t : Index, c : 0..MaxArrivals]
  BY <1>1 DEF Init
<1> QED
  BY <1>1, <1>2, <1>3 DEF Init, TypeOK

(* read and available. *)
LEMMA CallType ==
  ASSUME TypeOK, Read \/ AvailCall \/ Avail PROVE TypeOK'
<1> USE DEF hw, count, Reads, TypeOK
<1>1. CASE ReadCall
  <2>1. loc' \in [h : Index, t : Index, c : 0..MaxArrivals]
    BY <1>1 DEF ReadCall
  <2> QED BY <1>1, <2>1 DEF ReadCall
<1>2. CASE ReadTest \/ ReadNone
  <2>1. 0 \in Index
    BY SizeAssumption DEF Index
  <2> QED BY <1>2, <2>1 DEF ReadTest, ReadNone
<1>3. CASE ReadIndex \/ ReadLoad
  BY <1>3 DEF ReadIndex, ReadLoad, Loaded
<1>4. CASE ReadFetch
  BY <1>4 DEF ReadFetch
<1>5. CASE ReadStore
  <2>1. NextTail(loc.t) \in Index
    BY AfterIs DEF NextTail
  <2>2. (IF promised > 0 THEN promised - 1 ELSE 0) \in Index
    BY SizeAssumption DEF Index
  <2> QED BY <1>5, <2>1, <2>2 DEF ReadStore
<1>6. CASE AvailCall
  BY <1>6 DEF AvailCall
<1>7. CASE Avail
  <2>1. Dist(tail, loc.h) \in Index /\ Dist(loc.t, head) \in Index
    BY DistIs
  <2> QED BY <1>7, <2>1 DEF Avail
<1> QED
  BY <1>1, <1>2, <1>3, <1>4, <1>5, <1>6, <1>7 DEF Read

LEMMA TypeStep == TypeOK /\ [Next]_vars => TypeOK'
<1> SUFFICES ASSUME TypeOK, [Next]_vars PROVE TypeOK'
  OBVIOUS
<1> USE DEF TypeOK, hw, count
<1>1. CASE UNCHANGED vars
  BY <1>1 DEF vars
<1>2. CASE ArriveDr
  <2>1. arrived' \in 0..MaxArrivals /\ missed' \in Nat
    BY <1>2, BoundsAssumption DEF ArriveDr
  <2>2. dr' \in 0..MaxArrivals /\ rxne' \in BOOLEAN
    <3>1. CASE rxne
      BY <3>1, <1>2 DEF ArriveDr
    <3>2. CASE ~rxne
      BY <3>2, <2>1, <1>2 DEF ArriveDr
    <3> QED BY <3>1, <3>2
  <2> QED BY <1>2, <2>1, <2>2 DEF ArriveDr
<1>3. CASE ArriveDma
  <2>1. arrived' \in 0..MaxArrivals /\ overflows' \in Nat /\ After(head) \in Index
    BY <1>3, BoundsAssumption, AfterIs DEF ArriveDma
  <2>2. buf' \in [Index -> 0..MaxArrivals]
    BY <1>3, <2>1 DEF ArriveDma
  <2> QED BY <1>3, <2>1, <2>2 DEF ArriveDma
<1>4. CASE RxBufferOne
  <2>1. tail' \in Index /\ overflows' \in Nat /\ head' \in Index /\ nested' \in Nat
    BY <1>4, AfterIs DEF RxBufferOne, DropOldest
  <2>2. buf' \in [Index -> 0..MaxArrivals]
    BY <1>4 DEF RxBufferOne, Slot
  <2> QED BY <1>4, <2>1, <2>2 DEF RxBufferOne
<1>5. CASE ClearRxne
  <2>1. missed' \in Nat
    BY <1>5 DEF ClearRxne, Pending
  <2> QED BY <1>5, <2>1 DEF ClearRxne
<1>6. CASE End
  <2>1. missed' \in Nat
    <3>1. Held \in Nat
      <4>1. Held \in Index
        BY DistIs DEF Held
      <4> QED BY <4>1, SizeAssumption DEF Index
    <3> QED BY <1>6, <3>1 DEF End, Pending
  <2>2. 0 \in Index
    BY SizeAssumption DEF Index
  <2> QED BY <1>6, <2>1, <2>2 DEF End
<1>7. CASE Begin
  <2>1. 0 \in Index /\ 0 \in 0..MaxArrivals
    BY SizeAssumption, BoundsAssumption DEF Index
  <2>2. Held \in Nat
    <3>1. Held \in Index
      BY DistIs DEF Held
    <3> QED BY <3>1, SizeAssumption DEF Index
  <2>3. missed' \in Nat
    BY <1>7, <2>2 DEF Begin
  <2>4. displaced' \in BOOLEAN
    BY <1>7 DEF Begin
  <2> QED BY <1>7, <2>1, <2>3, <2>4 DEF Begin
<1> QED
  BY <1>1, <1>2, <1>3, <1>4, <1>5, <1>6, <1>7, CallType DEF Next

(* Whatever preempts read() and however the ring overflows, the indices stay  *)
(* inside the buffer.                                                       *)
THEOREM TypeCorrect == Spec => []TypeOK
  BY TypeInit, TypeStep, PTL DEF Spec

-----------------------------------------------------------------------------
(* A closed port is at rest, and in RxIt its ring is empty.                  *)
InRead == {"test", "index", "fetch", "load", "store"}
Past   == {"index", "fetch", "load", "store"}
Closed ==
  ~open => /\ at = "idle" /\ promised = 0 /\ ~rxne
           /\ mode = "RxIt" => head = tail

(* Until a byte comes to a full ring only the reader moves tail, and what it *)
(* has seen of the ring is not more than the ring holds.                     *)
Calm ==
  overflows = 0 =>
    /\ at \in InRead \cup {"availHead"} => loc.t = tail
    /\ at \in Past => head # tail
    /\ at = "none" => promised = 0
    /\ at = "availTail" => Dist(tail, loc.h) <= Held
    /\ promised <= Held

Base == TypeOK /\ Closed /\ Calm

LEMMA BaseInit == Init => Base
<1> SUFFICES ASSUME Init PROVE Base
  OBVIOUS
<1>1. 0 \in Index
  BY SizeAssumption DEF Index
<1>2. Held = 0
  BY <1>1, Steps DEF Init, Held
<1> QED
  BY <1>2, TypeInit DEF Base, Closed, Calm, Init, InRead, Past

LEMMA ClosedStep == TypeOK /\ Closed /\ [Next]_vars => Closed'
<1> SUFFICES ASSUME TypeOK, Closed, [Next]_vars PROVE Closed'
  OBVIOUS
<1> USE DEF Closed, hw, count
<1>1. CASE UNCHANGED vars
  BY <1>1 DEF vars
<1>2. CASE ArriveDr \/ ArriveDma \/ RxBufferOne
  BY <1>2 DEF ArriveDr, ArriveDma, RxBufferOne
<1>3. CASE ClearRxne
  BY <1>3 DEF ClearRxne
<1>4. CASE Read
  BY <1>4 DEF Read, ReadCall, ReadTest, ReadNone, ReadIndex, ReadFetch, ReadLoad,
              ReadStore, Reads
<1>5. CASE AvailCall \/ Avail
  BY <1>5 DEF AvailCall, Avail, Reads
<1>6. CASE End
  BY <1>6 DEF End, Reads
<1>7. CASE Begin
  BY <1>7 DEF Begin
<1> QED
  BY <1>1, <1>2, <1>3, <1>4, <1>5, <1>6, <1>7 DEF Next

(* A byte that comes to a ring with room left.                               *)
LEMMA GrowsCalm ==
  ASSUME TypeOK, Calm, overflows = 0, After(head) # tail, head' = After(head),
         UNCHANGED <<tail, overflows, at, loc, promised>>
  PROVE  Calm'
<1>1. Held' = Held + 1 /\ Held \in 0..Size - 1
  BY Steps, DistIs DEF TypeOK, Held, Index
<1>2. at = "availTail" => Dist(tail, loc.h) \in Int
  BY DistIs DEF TypeOK, Index
<1>3. promised \in Nat
  BY SizeAssumption DEF TypeOK, Index
<1> QED
  BY <1>1, <1>2, <1>3, SizeAssumption DEF Calm, InRead, Past

LEMMA CalmStep == TypeOK /\ Closed /\ Calm /\ [Next]_vars => Calm'
<1> SUFFICES ASSUME TypeOK, Closed, Calm, [Next]_vars, overflows' = 0 PROVE Calm'
  BY DEF Calm
<1> USE DEF hw, count
<1>0. /\ Held \in 0..Size - 1 /\ promised \in 0..Size - 1 /\ Size \in Nat /\ Size >= 2
      /\ overflows \in Nat
  BY DistIs, SizeAssumption DEF TypeOK, Held, Index
<1>1. CASE UNCHANGED vars \/ ArriveDr \/ ClearRxne
  BY <1>1 DEF vars, ArriveDr, ClearRxne, Calm, Held
<1>2. CASE ArriveDma
  <2>1. overflows = 0 /\ After(head) # tail
    BY <1>2, <1>0 DEF ArriveDma
  <2> QED BY <1>2, <2>1, GrowsCalm DEF ArriveDma
<1>3. CASE RxBufferOne
  <2>1. overflows = 0 /\ After(head) # tail
    BY <1>3, <1>0 DEF RxBufferOne, DropOldest
  <2> QED BY <1>3, <2>1, GrowsCalm DEF RxBufferOne, DropOldest
<1>4. CASE ReadCall
  BY <1>4 DEF ReadCall, Reads, Calm, Held, InRead, Past, TypeOK
<1>5. CASE ReadTest
  <2>1. loc.t = tail /\ overflows = 0
    BY <1>5 DEF ReadTest, Reads, Calm, InRead
  <2>2. CASE tail = head
    <3>1. Held = 0
      BY <2>2, Steps DEF Held, TypeOK
    <3> QED BY <1>5, <1>0, <2>1, <2>2, <3>1
            DEF ReadTest, IsEmpty, Calm, Held, InRead, Past
  <2>3. CASE tail # head
    BY <1>5, <2>1, <2>3 DEF ReadTest, IsEmpty, Calm, Held, InRead, Past
  <2> QED BY <2>2, <2>3
<1>6. CASE ReadNone
  BY <1>6, <1>0 DEF ReadNone, Reads, Calm, Held, InRead, Past
<1>7. CASE ReadIndex \/ ReadLoad
  BY <1>7 DEF ReadIndex, ReadLoad, Reads, Loaded, Calm, Held, InRead, Past, TypeOK
<1>8. CASE ReadFetch
  BY <1>8 DEF ReadFetch, Reads, Calm, Held, InRead, Past, TypeOK
<1>9. CASE ReadStore
  <2>1. loc.t = tail /\ head # tail /\ overflows = 0 /\ promised <= Held
    BY <1>9 DEF ReadStore, Reads, Calm, InRead, Past
  <2>2. Held' = Held - 1
    BY <1>9, <2>1, Steps DEF ReadStore, NextTail, Held, TypeOK
  <2>3. promised' <= Held'
    <3>1. promised' = IF promised > 0 THEN promised - 1 ELSE 0
      BY <1>9 DEF ReadStore
    <3>2. Held > 0
      BY <2>1, <1>0, Steps DEF Held, TypeOK
    <3> QED BY <3>1, <3>2, <2>1, <2>2, <1>0
  <2> QED BY <1>9, <2>3 DEF ReadStore, Calm, InRead, Past
<1>10. CASE AvailCall
  BY <1>10, <1>0 DEF AvailCall, Reads, Calm, Held, InRead, Past, TypeOK
<1>11. CASE Avail
  <2>1. promised' <= Held
    BY <1>11, <1>0 DEF Avail, Reads, Calm, Held, InRead
  <2> QED BY <1>11, <2>1 DEF Avail, Calm, Held, InRead, Past
<1>12. CASE End
  <2>1. head' \in Index /\ tail' \in Index
    BY <1>12 DEF End, TypeOK
  <2>2. Held' \in Nat
    BY <2>1, DistIs, SizeAssumption DEF Held, Index
  <2> QED BY <1>12, <2>2 DEF End, Reads, Calm, InRead, Past
<1>13. CASE Begin
  <2>1. head' \in Index /\ tail' \in Index
    BY <1>13, SizeAssumption DEF Begin, TypeOK, Index
  <2>2. Held' \in Nat
    BY <2>1, DistIs, SizeAssumption DEF Held, Index
  <2> QED BY <1>13, <2>2 DEF Begin, Closed, Calm, InRead, Past
<1> QED
  BY <1>1, <1>2, <1>3, <1>4, <1>5, <1>6, <1>7, <1>8, <1>9, <1>10, <1>11, <1>12, <1>13
  DEF Next, Read

LEMMA BaseInvariant == Spec => []Base
<1>1. Base /\ [Next]_vars => Base'
  BY TypeStep, ClosedStep, CalmStep DEF Base
<1> QED
  BY <1>1, BaseInit, PTL DEF Spec

(* A loop over as many reads as available() promised gets its bytes, as long *)
(* as the ring does not overflow, in both modes and for every size.          *)
THEOREM AvailableKept == Spec => []AvailableIsKept
<1>1. Base => AvailableIsKept
  BY DEF Base, Calm, AvailableIsKept, TypeOK
<1> QED
  BY <1>1, BaseInvariant, PTL

-----------------------------------------------------------------------------
(* The account of the bytes: what each action adds to Lost. *)
LEMMA Numbers ==
  ASSUME TypeOK
  PROVE  /\ Pending \in Nat /\ Held \in Nat /\ Lost \in Int
         /\ arrived \in Nat /\ delivered \in Nat /\ missed \in Nat /\ overflows \in Nat
<1>1. Held \in Index
  BY DistIs DEF Held, TypeOK
<1> QED
  BY <1>1, SizeAssumption DEF Index, Pending, Lost, TypeOK

(* Steps that move no byte. *)
LEMMA Account ==
  ASSUME UNCHANGED <<arrived, delivered, missed, rxne, head, tail>>
  PROVE  Lost' = Lost
  BY DEF Lost, Pending, Held

LEMMA LineAccount ==
  ASSUME TypeOK, ArriveDr \/ ClearRxne PROVE Lost' = Lost /\ UNCHANGED overflows
<1> USE DEF hw, count, Pending
<1>1. Held' = Held /\ UNCHANGED <<delivered, overflows>>
  BY DEF ArriveDr, ClearRxne, Held
<1>2. CASE ArriveDr
  <2>1. arrived' = arrived + 1 /\ Pending' + missed' = Pending + missed + 1
    <3>1. CASE rxne
      BY <3>1, <1>2, Numbers DEF ArriveDr
    <3>2. CASE ~rxne
      BY <3>2, <1>2, Numbers DEF ArriveDr
    <3>3. arrived' = arrived + 1
      BY <1>2 DEF ArriveDr
    <3> QED BY <3>1, <3>2, <3>3
  <2>2. Pending' \in Nat /\ missed' \in Nat
    BY <1>2, Numbers DEF ArriveDr
  <2> HIDE DEF Pending
  <2> QED BY <2>1, <2>2, <1>1, Numbers DEF Lost
<1>3. CASE ClearRxne
  <2>1. arrived' = arrived /\ missed' = missed + Pending /\ Pending' = 0
    BY <1>3 DEF ClearRxne
  <2> HIDE DEF Pending
  <2> QED BY <2>1, <1>1, Numbers DEF Lost
<1> QED
  BY <1>2, <1>3, <1>1

(* The handler stores a byte: in a full ring one is lost, and counted.       *)
LEMMA StoreAccount ==
  ASSUME TypeOK, RxBufferOne
  PROVE  \/ overflows' = overflows /\ Lost' = Lost
         \/ overflows' = overflows + 1 /\ Lost' = Lost + 1
<1>1. Pending = 1 /\ Pending' = 0 /\ UNCHANGED <<arrived, delivered, missed>>
  BY DEF RxBufferOne, Pending
<1>2. head \in Index /\ tail \in Index /\ head' = After(head)
  BY DEF TypeOK, RxBufferOne
<1>3. CASE After(head) = tail
  <2>1. tail' = After(tail) /\ overflows' = overflows + 1
    BY <1>3 DEF RxBufferOne, DropOldest
  <2>2. Held' = Held
    <3>1. Held = Size - 1
      BY <1>2, <1>3, Steps DEF Held
    <3>2. Held' = Dist(After(tail), tail)
      BY <1>2, <1>3, <2>1 DEF Held
    <3> QED BY <3>1, <3>2, <1>2, Steps
  <2> QED BY <1>1, <2>1, <2>2, Numbers DEF Lost
<1>4. CASE After(head) # tail
  <2>1. tail' = tail /\ overflows' = overflows
    BY <1>4 DEF RxBufferOne, DropOldest
  <2>2. Held' = Held + 1
    BY <1>2, <1>4, <2>1, Steps DEF Held
  <2> QED BY <1>1, <2>1, <2>2, Numbers DEF Lost
<1> QED
  BY <1>3, <1>4

(* A read that stores the place behind the present tail. *)
LEMMA ReadAccount ==
  ASSUME TypeOK, ReadStore, loc.t = tail, head # tail
  PROVE  Lost' = Lost /\ UNCHANGED overflows
<1>1. Held' = Held - 1
  BY Steps DEF Held, ReadStore, NextTail, TypeOK
<1>2. delivered' = delivered + 1 /\ UNCHANGED <<arrived, missed, overflows, rxne>>
  BY DEF ReadStore, hw
<1>3. Pending' = Pending
  BY <1>2 DEF Pending
<1> QED
  BY <1>1, <1>2, <1>3, Numbers DEF Lost

(* What end() clears in RxIt, and what begin() clears in RxDMA if tail is at  *)
(* slot 0, is counted: the ring is empty then.                               *)
LEMMA RestartAccount ==
  ASSUME TypeOK, End \/ Begin, mode = "RxIt" \/ ~displaced'
  PROVE  Lost' = Lost /\ UNCHANGED overflows
<1>0. /\ UNCHANGED <<arrived, delivered, overflows, mode>>
      /\ mode \in {"RxIt", "RxDMA"}
  BY DEF End, Begin, TypeOK
<1>1. CASE End
  <2>1. Pending' = 0 /\ UNCHANGED tail
    BY <1>1 DEF End, Pending
  <2>2. CASE mode = "RxIt"
    <3>1. missed' = missed + Pending + Held
      BY <1>1, <2>2 DEF End
    <3>2. Held' = 0
      BY <1>1, <2>2, Steps DEF End, Held, TypeOK
    <3> QED BY <1>0, <2>1, <3>1, <3>2, Numbers DEF Lost
  <2>3. CASE mode = "RxDMA"
    <3>1. missed' = missed + Pending /\ UNCHANGED <<head, tail>>
      BY <1>1, <2>3, Numbers DEF End
    <3>2. Held' = Held
      BY <3>1 DEF Held
    <3> QED BY <1>0, <2>1, <3>1, <3>2, Numbers DEF Lost
  <2> QED BY <1>0, <2>2, <2>3
<1>2. CASE Begin
  <2>1. UNCHANGED <<rxne, tail>>
    BY <1>2 DEF Begin, hw
  <2>2. CASE mode = "RxIt"
    <3>1. UNCHANGED <<missed, head>>
      BY <1>2, <2>2 DEF Begin
    <3> QED BY <1>0, <2>1, <3>1, Account
  <2>3. CASE mode = "RxDMA"
    <3>1. ~displaced'
      BY <2>3
    <3>2. tail = 0 /\ head' = 0 /\ missed' = missed + Held
      BY <1>2, <2>3, <3>1 DEF Begin
    <3>3. Held' = 0
      BY <2>1, <3>2, Steps DEF Held, TypeOK
    <3>4. Pending' = Pending
      BY <2>1 DEF Pending
    <3> QED BY <1>0, <3>2, <3>3, <3>4, Numbers DEF Lost
  <2> QED BY <1>0, <2>2, <2>3
<1> QED
  BY <1>1, <1>2

(* The remaining steps. *)
Quiet == ReadCall \/ ReadTest \/ ReadNone \/ ReadIndex \/ ReadFetch \/ ReadLoad
         \/ AvailCall \/ Avail \/ UNCHANGED vars

LEMMA QuietAccount ==
  ASSUME Quiet PROVE Lost' = Lost /\ UNCHANGED <<mode, overflows, head, tail>>
<1>1. UNCHANGED <<mode, arrived, delivered, missed, rxne, head, tail, overflows>>
  BY DEF Quiet, vars, hw, count, ReadCall, ReadTest, ReadNone, ReadIndex, ReadFetch,
         ReadLoad, AvailCall, Avail
<1> QED
  BY <1>1, Account

LEMMA LostInit == Init => Lost = 0 /\ overflows = 0
<1> SUFFICES ASSUME Init PROVE Lost = 0
  BY DEF Init
<1>1. Held = 0
  BY SizeAssumption, Steps DEF Init, Held, Index
<1>2. Pending = 0
  BY DEF Init, Pending
<1> QED
  BY <1>1, <1>2 DEF Init, Lost

LEMMA Sticks ==
  ASSUME Next \/ UNCHANGED vars, ~displaced' PROVE ~displaced
  BY DEF Next, vars, count, ArriveDr, ArriveDma, RxBufferOne, ClearRxne, Read, ReadCall,
         ReadTest, ReadNone, ReadIndex, ReadFetch, ReadLoad, ReadStore, AvailCall, Avail,
         End, Begin

(* Without an overflow each byte that reached the ring is read or still in    *)
(* it, in both modes, however often the port is closed and opened again, as  *)
(* long as no begin() of RxDMA meets a tail off slot 0.                      *)
THEOREM NothingLost == Spec => []NoLossWithoutOverflow
<1>1. Init => NoLossWithoutOverflow
  BY LostInit DEF NoLossWithoutOverflow
<1>2. Base /\ NoLossWithoutOverflow /\ [Next]_vars => NoLossWithoutOverflow'
  <2> SUFFICES ASSUME Base, NoLossWithoutOverflow, [Next]_vars, overflows' = 0,
                      ~displaced'
               PROVE  Lost' = 0
    BY DEF NoLossWithoutOverflow
  <2>0. TypeOK /\ overflows \in Nat /\ Lost \in Int /\ ~displaced
    BY Numbers, Sticks DEF Base
  <2>1. CASE ArriveDr \/ ClearRxne
    BY <2>0, <2>1, LineAccount DEF NoLossWithoutOverflow
  <2>2. CASE ArriveDma
    <3>1. overflows = 0 /\ After(head) # tail
      BY <2>0, <2>2 DEF ArriveDma
    <3>2. Held' = Held + 1
      BY <2>0, <2>2, <3>1, Steps DEF ArriveDma, Held, TypeOK
    <3>3. arrived' = arrived + 1 /\ UNCHANGED <<delivered, missed, rxne>>
      BY <2>2 DEF ArriveDma, hw
    <3>4. Pending' = Pending
      BY <3>3 DEF Pending
    <3> QED BY <2>0, <3>1, <3>2, <3>3, <3>4, Numbers DEF Lost, NoLossWithoutOverflow
  <2>3. CASE RxBufferOne
    BY <2>0, <2>3, StoreAccount DEF NoLossWithoutOverflow
  <2>4. CASE ReadStore
    <3>1. overflows = 0
      BY <2>4 DEF ReadStore
    <3>2. loc.t = tail /\ head # tail
      BY <2>4, <3>1 DEF ReadStore, Reads, Base, Calm, InRead, Past
    <3> QED BY <2>0, <2>4, <3>1, <3>2, ReadAccount DEF NoLossWithoutOverflow
  <2>5. CASE End \/ Begin
    BY <2>5, <2>0, RestartAccount DEF NoLossWithoutOverflow
  <2>6. CASE Quiet
    BY <2>6, <2>0, QuietAccount DEF NoLossWithoutOverflow
  <2> QED
    BY <2>1, <2>2, <2>3, <2>4, <2>5, <2>6 DEF Next, Read, Quiet
<1> QED
  BY <1>1, <1>2, BaseInvariant, PTL DEF Spec

-----------------------------------------------------------------------------
(* At most one handler run inside a read: the tail it has loaded is the       *)
(* present one, or, after an overflow, the one before, where head is now.    *)
Near ==
  /\ at \in InRead =>
       \/ loc.t = tail
       \/ mode = "RxIt" /\ nested >= 1 /\ loc.t = head /\ After(loc.t) = tail
  /\ mode = "RxIt" /\ at \in Past => head # tail

LEMMA NearInit == Init => Near
  BY DEF Init, Near, InRead, Past

LEMMA NearStep ==
  ASSUME MaxNested <= 1, TypeOK, Closed, Near, [Next]_vars PROVE Near'
<1> USE DEF hw, count
<1>1. CASE UNCHANGED vars \/ ArriveDr \/ ClearRxne
  BY <1>1 DEF vars, ArriveDr, ClearRxne, Near
<1>2. CASE ArriveDma
  BY <1>2 DEF ArriveDma, Near
<1>3. CASE RxBufferOne
  <2>0. /\ head \in Index /\ tail \in Index /\ head' = After(head) /\ mode' = mode
        /\ UNCHANGED <<at, loc>> /\ nested' = nested + 1 /\ nested \in Nat
    BY <1>3 DEF RxBufferOne, TypeOK
  <2>1. at \in InRead => loc.t = tail
    BY <1>3, <2>0, BoundsAssumption DEF RxBufferOne, Near, InRead
  <2>2. CASE After(head) = tail
    <3>1. tail' = After(tail)
      BY <1>3, <2>2 DEF RxBufferOne, DropOldest
    <3>2. tail' # head'
      BY <2>0, <2>2, <3>1, Steps
    <3> QED BY <1>3, <2>0, <2>1, <2>2, <3>1, <3>2 DEF RxBufferOne, Near
  <2>3. CASE After(head) # tail
    <3>1. tail' = tail
      BY <1>3, <2>3 DEF RxBufferOne, DropOldest
    <3> QED BY <2>0, <2>1, <2>3, <3>1 DEF Near
  <2> QED BY <2>2, <2>3
<1>4. CASE ReadCall
  BY <1>4 DEF ReadCall, Near, InRead, Past, TypeOK
<1>5. CASE ReadTest
  BY <1>5 DEF ReadTest, Reads, IsEmpty, Near, InRead, Past
<1>6. CASE ReadNone \/ AvailCall \/ Avail
  BY <1>6 DEF ReadNone, AvailCall, Avail, Near, InRead, Past
<1>7. CASE ReadIndex \/ ReadLoad
  BY <1>7 DEF ReadIndex, ReadLoad, Reads, Loaded, Near, InRead, Past, TypeOK
<1>8. CASE ReadFetch
  BY <1>8 DEF ReadFetch, Reads, Near, InRead, Past, TypeOK
<1>9. CASE ReadStore
  BY <1>9 DEF ReadStore, Near, InRead, Past
<1>10. CASE End
  BY <1>10 DEF End, Reads, Near, InRead, Past
<1>11. CASE Begin
  BY <1>11 DEF Begin, Closed, Near, InRead, Past
<1> QED
  BY <1>1, <1>2, <1>3, <1>4, <1>5, <1>6, <1>7, <1>8, <1>9, <1>10, <1>11 DEF Next, Read

(* An overflow in RxIt loses one byte, the oldest, for every size of the      *)
(* ring, when at most one of them falls into each read.                      *)
THEOREM OneLost ==
  ASSUME MaxNested <= 1 PROVE Spec => []OverflowLosesOne
<1>1. Init => Near /\ OverflowLosesOne
  BY LostInit, NearInit DEF OverflowLosesOne
<1>2. Base /\ Near /\ OverflowLosesOne /\ [Next]_vars => Near' /\ OverflowLosesOne'
  <2> SUFFICES ASSUME Base, Near, OverflowLosesOne, [Next]_vars, mode' = "RxIt"
               PROVE  Lost' <= overflows'
    BY NearStep DEF Base, OverflowLosesOne
  <2>0. TypeOK /\ overflows \in Nat /\ Lost \in Int /\ mode = "RxIt" /\ Lost <= overflows
    <3>1. mode = "RxIt"
      BY DEF Next, vars, ArriveDr, ArriveDma, RxBufferOne, ClearRxne, Read, ReadCall,
             ReadTest, ReadNone, ReadIndex, ReadFetch, ReadLoad, ReadStore, AvailCall,
             Avail, End, Begin
    <3> QED BY <3>1, Numbers DEF Base, OverflowLosesOne
  <2>1. CASE ArriveDr \/ ClearRxne
    BY <2>0, <2>1, LineAccount
  <2>2. ~ArriveDma
    BY <2>0 DEF ArriveDma
  <2>3. CASE RxBufferOne
    BY <2>0, <2>3, StoreAccount
  <2>4. CASE ReadStore
    <3>1. at \in InRead /\ at \in Past
      BY <2>4 DEF ReadStore, Reads, InRead, Past
    <3>2. CASE loc.t = tail
      BY <2>0, <2>4, <3>1, <3>2, ReadAccount DEF Near
    <3>3. CASE loc.t # tail
      <4>1. tail' = tail /\ delivered' = delivered + 1
            /\ UNCHANGED <<arrived, missed, overflows, rxne, head>>
        BY <2>4, <3>1, <3>3 DEF Near, ReadStore, NextTail, hw
      <4>2. Pending' = Pending /\ Held' = Held
        BY <4>1 DEF Pending, Held
      <4> QED BY <2>0, <4>1, <4>2, Numbers DEF Lost
    <3> QED BY <3>2, <3>3
  <2>5. CASE End \/ Begin
    BY <2>5, <2>0, RestartAccount
  <2>6. CASE Quiet
    BY <2>6, <2>0, QuietAccount
  <2> QED
    BY <2>1, <2>2, <2>3, <2>4, <2>5, <2>6 DEF Next, Read, Quiet
<1> QED
  BY <1>1, <1>2, BaseInvariant, PTL DEF Spec

-----------------------------------------------------------------------------
(* The order of the bytes.  A slot's age counts from head, where the oldest   *)
(* byte lies that the buffer still has; the newest is just behind head.      *)
Age(i) == Dist(head, i)

(* What the line brings next is greater than every byte seen so far.         *)
Bounded ==
  /\ got <= arrived /\ loc.c <= arrived /\ dr <= arrived
  /\ \A i \in Index : buf[i] <= arrived
  /\ rxne => /\ mode = "RxIt" /\ got < dr /\ loc.c < dr
             /\ \A i \in Index : buf[i] < dr

Sorted == open => \A i, j \in Index : Age(i) < Age(j) /\ buf[i] # 0 => buf[i] < buf[j]
Unread == head # tail => \A i \in Index : Age(i) >= Age(tail) => buf[i] > got

(* What read() is about to fetch is newer than what it returned last, and the *)
(* bytes behind either tail it may store are newer than the one in its hand. *)
Newer ==
  /\ at \in {"index", "fetch"} => buf[tail] > got /\ buf[loc.t] > got
  /\ at \in {"load", "store"} =>
       /\ loc.c > got
       /\ \A i \in Index, s \in {tail, loc.t} : Age(i) > Age(s) => buf[i] > loc.c

Order == Bounded /\ Sorted /\ Unread /\ Newer

LEMMA AgeType ==
  ASSUME TypeOK, NEW i \in Index PROVE Age(i) \in 0..Size - 1 /\ buf[i] \in Nat
<1>1. Age(i) \in Index
  BY DistIs DEF Age, TypeOK
<1> QED
  BY <1>1 DEF Index, TypeOK

LEMMA Values ==
  ASSUME TypeOK
  PROVE  /\ got \in Nat /\ loc.c \in Nat /\ dr \in Nat /\ arrived \in Nat
         /\ head \in Index /\ tail \in Index /\ loc.t \in Index
         /\ Size \in Nat /\ Size >= 2
  BY SizeAssumption DEF TypeOK

(* A byte newer than all others is stored at head; in a full ring of RxIt     *)
(* tail moves on.                                                           *)
LEMMA Arrives ==
  ASSUME TypeOK, open, Sorted, Unread, Newer, NEW b \in Nat,
         \A i \in Index : buf[i] < b, got < b, loc.c < b,
         head' = After(head), buf' = [buf EXCEPT ![head] = b],
         UNCHANGED <<at, loc, got>>,
         tail' = tail \/ (tail' = After(tail) /\ After(head) = tail)
  PROVE  Sorted' /\ Unread' /\ Newer'
<1> DEFINE Fresh(i) == Dist(After(head), i)
<1>1. ASSUME NEW i \in Index
      PROVE  /\ Age(i) \in 0..Size - 1 /\ buf[i] \in Nat
             /\ i = head => Fresh(i) = Size - 1 /\ buf'[i] = b
             /\ i # head => Fresh(i) = Age(i) - 1 /\ buf'[i] = buf[i] /\ Age(i) >= 1
  <2>1. Age(i) \in 0..Size - 1 /\ buf[i] \in Nat
    BY AgeType
  <2>2. buf'[i] = IF i = head THEN b ELSE buf[i]
    BY DEF TypeOK
  <2>3. i = head => Dist(After(head), i) = Size - 1
    BY Values, Steps
  <2>4. i # head => Dist(After(head), i) = Dist(head, i) - 1 /\ Dist(head, i) # 0
    BY Values, Steps
  <2> QED BY <2>1, <2>2, <2>3, <2>4 DEF Age
<1> HIDE DEF Fresh
<1>2. tail' \in Index
  BY Values, AfterIs
<1>3. Sorted'
  <2> SUFFICES ASSUME NEW i \in Index, NEW j \in Index, Fresh(i) < Fresh(j), buf'[i] # 0
               PROVE  buf'[i] < buf'[j]
    BY DEF Sorted, Age, Fresh
  <2>1. i # head
    BY <1>1, Values
  <2>2. CASE j = head
    BY <2>1, <2>2, <1>1
  <2>3. CASE j # head
    BY <2>1, <2>3, <1>1 DEF Sorted
  <2> QED BY <2>2, <2>3
<1>4. CASE tail' = tail
  <2>1. Unread'
    <3> SUFFICES ASSUME head' # tail', NEW i \in Index, Fresh(i) >= Fresh(tail)
                 PROVE  buf'[i] > got
      BY <1>4 DEF Unread, Age, Fresh
    <3>1. CASE i = head
      BY <3>1, <1>1, Values
    <3>2. CASE i # head
      <4>1. tail # head
        BY <3>2, <1>1, Values
      <4>2. Age(i) >= Age(tail)
        BY <3>2, <4>1, <1>1, Values
      <4> QED BY <3>2, <4>1, <4>2, <1>1 DEF Unread
    <3> QED BY <3>1, <3>2
  <2>2. Newer'
    <3>1. ASSUME NEW s \in {tail, loc.t}, at \in {"index", "fetch"} PROVE buf'[s] > got
      <4>1. buf[s] > got /\ s \in Index
        BY <3>1, Values DEF Newer
      <4> QED BY <4>1, <1>1, Values
    <3>2. ASSUME NEW i \in Index, NEW s \in {tail, loc.t}, at \in {"load", "store"},
                 Fresh(i) > Fresh(s)
          PROVE  buf'[i] > loc.c
      <4>1. s \in Index
        BY Values
      <4>2. CASE i = head
        BY <4>2, <1>1, Values
      <4>3. CASE i # head
        <5>1. s # head
          BY <3>2, <4>1, <4>3, <1>1, Values
        <5>2. Age(i) > Age(s)
          BY <3>2, <4>1, <4>3, <5>1, <1>1, Values
        <5> QED BY <3>2, <4>3, <5>2, <1>1 DEF Newer
      <4> QED BY <4>2, <4>3
    <3> QED BY <1>4, <3>1, <3>2 DEF Newer, Age, Fresh
  <2> QED BY <2>1, <2>2, <1>3
<1>5. CASE tail' = After(tail) /\ After(head) = tail
  <2>1. tail # head /\ Age(tail) = 1
    <3>1. tail # head /\ Dist(head, head) = 0
      BY <1>5, Values, Steps
    <3>2. Dist(head, After(head)) = Dist(head, head) + 1
      BY <1>5, <3>1, Values, Steps
    <3> QED BY <1>5, <3>1, <3>2 DEF Age
  <2>2. ASSUME NEW i \in Index PROVE buf'[i] > got
    <3>1. CASE i = head
      BY <3>1, <1>1, Values
    <3>2. CASE i # head
      BY <3>2, <2>1, <1>1, Values DEF Unread
    <3> QED BY <3>1, <3>2
  <2>3. ASSUME NEW i \in Index, NEW s \in {tail', loc.t}, at \in {"load", "store"},
               Fresh(i) > Fresh(s)
        PROVE  buf'[i] > loc.c
    <3>1. s \in Index
      BY <1>2, Values
    <3>2. CASE i = head
      BY <3>2, <1>1, Values
    <3>3. CASE i # head
      <4>1. s # head
        BY <2>3, <3>1, <3>3, <1>1, Values
      <4>2. Age(i) > Age(s) /\ Age(s) >= 1 /\ Age(i) \in Nat /\ Age(s) \in Nat
        BY <2>3, <3>1, <3>3, <4>1, <1>1, Values
      <4>3. Age(i) > Age(tail)
        BY <4>2, <2>1
      <4> QED BY <2>3, <3>3, <4>3, <1>1 DEF Newer
    <3> QED BY <3>2, <3>3
  <2> QED
    BY <1>2, <2>2, <2>3, <1>3, Values DEF Unread, Newer, Age, Fresh
<1> QED
  BY <1>3, <1>4, <1>5

-----------------------------------------------------------------------------
LEMMA OrderInit == Init => Order
<1> SUFFICES ASSUME Init PROVE Order
  OBVIOUS
<1>1. \A i \in Index : buf[i] = 0
  BY DEF Init
<1> QED
  BY <1>1 DEF Init, Order, Bounded, Sorted, Unread, Newer

(* Steps that leave the ring and what was read alone keep it sorted.         *)
LEMMA RingKept ==
  ASSUME Sorted, Unread, UNCHANGED <<open, head, tail, buf, got>>
  PROVE  Sorted' /\ Unread'
  BY DEF Sorted, Unread, Age

LEMMA LineOrder ==
  ASSUME TypeOK, Closed, Order,
         ArriveDr \/ ArriveDma \/ RxBufferOne \/ ClearRxne
  PROVE  Order'
<1> USE DEF hw, Order
<1>1. CASE ArriveDr
  <2>1. /\ mode = "RxIt" /\ arrived' = arrived + 1
        /\ UNCHANGED <<mode, open, head, tail, buf, got, at, loc>>
    BY <1>1 DEF ArriveDr
  <2>2. Sorted' /\ Unread' /\ Newer'
    BY <2>1, RingKept DEF Newer, Age
  <2>3. Bounded'
    <3>1. \A i \in Index : buf[i] \in Nat
      BY DEF TypeOK
    <3>2. CASE rxne
      <4>1. dr' = dr /\ rxne'
        BY <1>1, <3>2 DEF ArriveDr
      <4> QED BY <2>1, <3>1, <3>2, <4>1, Values DEF Bounded
    <3>3. CASE ~rxne
      <4>1. dr' = arrived + 1
        BY <1>1, <2>1, <3>3 DEF ArriveDr
      <4> QED BY <2>1, <3>1, <4>1, Values DEF Bounded
    <3> QED BY <3>2, <3>3
  <2> QED BY <2>2, <2>3
<1>2. CASE ArriveDma
  <2>1. PICK b \in Nat : b = arrived + 1
    BY Values
  <2>2. /\ ~rxne /\ ~rxne' /\ open /\ arrived' = b /\ dr' = dr
        /\ head' = After(head) /\ buf' = [buf EXCEPT ![head] = b]
        /\ UNCHANGED <<at, loc, got, tail>>
    BY <1>2, <2>1 DEF ArriveDma, Bounded
  <2>3. \A i \in Index : buf[i] \in Nat /\ buf[i] < b
    BY <2>1, Values DEF TypeOK, Bounded
  <2>4. got < b /\ loc.c < b /\ dr < b
    BY <2>1, Values DEF Bounded
  <2>5. Sorted' /\ Unread' /\ Newer'
    BY <2>2, <2>3, <2>4, Arrives
  <2>6. Bounded'
    BY <2>2, <2>3, <2>4, Values DEF Bounded, TypeOK
  <2> QED BY <2>5, <2>6
<1>3. CASE RxBufferOne
  <2>1. /\ rxne /\ ~rxne' /\ open /\ arrived' = arrived /\ dr' = dr
        /\ head' = After(head) /\ buf' = [buf EXCEPT ![head] = dr]
        /\ UNCHANGED <<at, loc, got>>
        /\ tail' = tail \/ (tail' = After(tail) /\ After(head) = tail)
    BY <1>3 DEF RxBufferOne, DropOldest, Slot, Closed
  <2>2. Sorted' /\ Unread' /\ Newer'
    BY <2>1, Values, Arrives DEF Bounded
  <2>3. Bounded'
    BY <2>1, Values DEF Bounded, TypeOK
  <2> QED BY <2>2, <2>3
<1>4. CASE ClearRxne
  <2>1. ~rxne' /\ UNCHANGED <<open, head, tail, buf, got, at, loc, dr, arrived>>
    BY <1>4 DEF ClearRxne
  <2>2. Sorted' /\ Unread'
    BY <2>1, RingKept
  <2> QED BY <2>1, <2>2 DEF Bounded, Newer, Age
<1> QED
  BY <1>1, <1>2, <1>3, <1>4

(* read() and available(). *)
LEMMA CallOrder ==
  ASSUME TypeOK, Near, Order, Read \/ AvailCall \/ Avail PROVE Order'
<1> USE DEF hw, count, Reads, Order
<1>0. UNCHANGED <<mode, open, head, buf, dr, rxne, arrived>>
  BY DEF Read, ReadCall, ReadTest, ReadNone, ReadIndex, ReadFetch, ReadLoad, ReadStore,
         AvailCall, Avail
<1>1. CASE ReadTest
  <2>1. UNCHANGED <<tail, got, loc>>
    BY <1>1 DEF ReadTest
  <2>2. CASE loc.t = head
    BY <1>0, <1>1, <2>1, <2>2, RingKept DEF ReadTest, IsEmpty, Bounded, Newer
  <2>3. CASE loc.t # head
    <3>1. at' = "index" /\ loc.t = tail
      BY <1>1, <2>3 DEF ReadTest, IsEmpty, Near, InRead
    <3>2. buf[tail] > got
      BY <2>3, <3>1, Values, AgeType DEF Unread
    <3> QED BY <1>0, <2>1, <3>1, <3>2, RingKept DEF Bounded, Newer
  <2> QED BY <2>2, <2>3
<1>2. CASE ReadCall \/ ReadNone \/ AvailCall \/ Avail
  <2>1. /\ UNCHANGED <<tail, got>> /\ loc'.c = loc.c
        /\ at' \notin {"index", "fetch", "load", "store"}
    BY <1>2 DEF ReadCall, ReadNone, AvailCall, Avail, TypeOK
  <2> QED BY <1>0, <2>1, RingKept DEF Bounded, Newer
<1>3. CASE ReadIndex
  <2>1. /\ UNCHANGED <<tail, got>> /\ loc'.c = loc.c /\ loc'.t \in {tail, loc.t}
        /\ at = "index" /\ at' = "fetch"
    BY <1>3 DEF ReadIndex, Loaded, TypeOK
  <2> QED BY <1>0, <2>1, RingKept DEF Bounded, Newer
<1>4. CASE ReadFetch
  <2>1. /\ UNCHANGED <<tail, got>> /\ loc'.c = buf[loc.t] /\ loc'.t = loc.t
        /\ at = "fetch" /\ at' = "load"
    BY <1>4 DEF ReadFetch, TypeOK
  <2>2. buf[loc.t] > got /\ buf[loc.t] # 0 /\ buf[loc.t] \in Nat /\ open
    BY <1>4, <2>1, Values, AgeType DEF Newer, ReadFetch
  <2>3. ASSUME NEW i \in Index, NEW u \in {tail, loc.t}, Age(i) > Age(u)
        PROVE  buf[i] > buf[loc.t]
    <3>1. Age(i) > Age(loc.t)
      <4>1. CASE loc.t = tail
        BY <2>3, <4>1
      <4>2. CASE loc.t = head
        <5>1. Age(loc.t) = 0
          BY <4>2, Values, Steps DEF Age
        <5>2. Age(u) \in Nat /\ Age(i) \in Nat
          BY Values, AgeType
        <5> QED BY <2>3, <5>1, <5>2
      <4> QED BY <2>1, <4>1, <4>2 DEF Near, InRead
    <3>2. buf[loc.t] < buf[i] /\ buf[i] \in Nat
      BY <2>2, <3>1, Values, AgeType DEF Sorted
    <3> QED BY <2>2, <3>2
  <2>4. Newer'
    BY <1>0, <2>1, <2>2, <2>3 DEF Newer, Age
  <2>5. Bounded'
    BY <1>0, <2>1, Values DEF Bounded
  <2> QED BY <1>0, <2>1, <2>4, <2>5, RingKept
<1>5. CASE ReadLoad
  <2>1. /\ UNCHANGED <<tail, got>> /\ loc'.c = loc.c /\ loc'.t \in {tail, loc.t}
        /\ at = "load" /\ at' = "store"
    BY <1>5 DEF ReadLoad, Loaded, TypeOK
  <2> QED BY <1>0, <2>1, RingKept DEF Bounded, Newer, Age
<1>6. CASE ReadStore
  <2>1. /\ tail' = After(loc.t) /\ got' = loc.c /\ loc' = loc
        /\ at = "store" /\ at' = "idle"
    BY <1>6 DEF ReadStore, NextTail
  <2>2. Unread'
    <3> SUFFICES ASSUME head # After(loc.t), NEW i \in Index, Age(i) >= Age(After(loc.t))
                 PROVE  buf[i] > loc.c
      BY <1>0, <2>1 DEF Unread, Age
    <3>1. Age(After(loc.t)) = Age(loc.t) + 1
      BY Values, Steps DEF Age
    <3>2. Age(i) > Age(loc.t)
      BY <3>1, Values, AgeType
    <3> QED BY <2>1, <3>2 DEF Newer
  <2>3. Sorted' /\ Bounded' /\ Newer'
    BY <1>0, <2>1 DEF Sorted, Age, Bounded, Newer
  <2> QED BY <2>2, <2>3
<1> QED
  BY <1>1, <1>2, <1>3, <1>4, <1>5, <1>6 DEF Read

(* An RxDMA port keeps its ring while it is closed; a port opened without     *)
(* displacing it starts with nothing to read.                                *)
LEMMA RestartOrder ==
  ASSUME TypeOK, Closed, Order, ~displaced', End \/ Begin PROVE Order'
<1> USE DEF hw, count, Order
<1>0. mode \in {"RxIt", "RxDMA"}
  BY DEF TypeOK
<1>1. CASE End
  <2>1. /\ ~open' /\ ~rxne' /\ at' = "idle" /\ tail' = tail
        /\ UNCHANGED <<got, loc, dr, arrived, buf>>
    BY <1>1 DEF End, Reads
  <2>2. Unread'
    <3>1. CASE mode = "RxIt"
      <4>1. head' = tail'
        BY <1>1, <3>1 DEF End
      <4> QED BY <4>1 DEF Unread
    <3>2. CASE mode = "RxDMA"
      <4>1. head' = head
        BY <1>1, <3>2 DEF End
      <4> QED BY <2>1, <4>1 DEF Unread, Age
    <3> QED BY <1>0, <3>1, <3>2
  <2> QED BY <2>1, <2>2 DEF Bounded, Sorted, Newer
<1>2. CASE Begin
  <2>1. head' = tail'
    BY <1>0, <1>2 DEF Begin, Closed
  <2>2. /\ ~rxne' /\ at' = "idle" /\ buf' = [i \in Index |-> 0]
        /\ UNCHANGED <<got, loc, dr, arrived>>
    BY <1>2 DEF Begin, Closed
  <2>3. \A i \in Index : buf'[i] = 0
    BY <2>2
  <2> QED BY <2>1, <2>2, <2>3, Values DEF Bounded, Sorted, Unread, Newer
<1> QED
  BY <1>1, <1>2

IInv == Base /\ Near /\ (~displaced => Order)

LEMMA IInvStep ==
  ASSUME MaxNested <= 1, IInv, [Next]_vars PROVE IInv'
<1>1. Base' /\ Near'
  BY TypeStep, ClosedStep, CalmStep, NearStep DEF IInv, Base
<1>2. ASSUME ~displaced' PROVE Order'
  <2>1. TypeOK /\ Closed /\ Near /\ Order
    BY <1>2, Sticks DEF IInv, Base
  <2>2. CASE UNCHANGED vars
    BY <2>1, <2>2 DEF vars, hw, count, Order, Bounded, Sorted, Unread, Newer, Age
  <2>3. CASE Next
    BY <1>2, <2>1, <2>3, LineOrder, CallOrder, RestartOrder DEF Next
  <2> QED BY <2>2, <2>3
<1> QED
  BY <1>1, <1>2 DEF IInv

(* read() returns the bytes in the order they arrived and none twice, while   *)
(* new ones overwrite old ones by DMA anywhere, or by the handler once in    *)
(* each read, and the port is closed and opened again without displacing the *)
(* ring of RxDMA, for every size of the ring.                                *)
THEOREM ReadInOrder ==
  ASSUME MaxNested <= 1 PROVE Spec => InOrder
<1>1. Init => IInv
  BY BaseInit, NearInit, OrderInit DEF IInv
<1>2. IInv /\ [Next]_vars => IInv'
  BY IInvStep
<1>3. IInv /\ [Next]_vars => [delivered' # delivered /\ ~displaced => got' > got]_vars
  <2> SUFFICES ASSUME IInv, Next, delivered' # delivered, ~displaced PROVE got' > got
    OBVIOUS
  <2>1. ReadStore
    BY DEF Next, ArriveDr, ArriveDma, RxBufferOne, ClearRxne, Read, ReadCall, ReadTest,
           ReadNone, ReadIndex, ReadFetch, ReadLoad, AvailCall, Avail, End, Begin, count
  <2> QED BY <2>1 DEF ReadStore, Reads, IInv, Order, Newer
<1> QED
  BY <1>1, <1>2, <1>3, PTL DEF Spec, InOrder
=============================================================================
