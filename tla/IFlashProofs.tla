---------------------------- MODULE IFlashProofs ----------------------------
(***************************************************************************)
(* IFlash's invariants, for every number and size of pages, every set of     *)
(* buffers, and a reset anywhere.                                           *)
(***************************************************************************)
EXTENDS IFlash, TLAPS

AreaEnd == Pages * PageSize

-----------------------------------------------------------------------------
(* The arithmetic of pages. *)
LEMMA Division ==
  ASSUME NEW x \in Nat, NEW s \in Nat \ {0}
  PROVE  /\ x \div s \in Nat /\ x % s \in 0..s - 1
         /\ x = (x \div s) * s + (x % s)
<1>1. x \div s \in Int /\ x % s \in 0..s - 1 /\ x = (x \div s) * s + (x % s)
  BY Z3
<1>2. ASSUME x \div s <= -1 PROVE FALSE
  <2> DEFINE q == x \div s
  <2>1. q \in Int /\ q <= -1 /\ x = q * s + (x % s)
    BY <1>1, <1>2
  <2> HIDE DEF q
  <2>2. q * s <= -s
    BY <2>1, Z3
  <2> QED BY <2>1, <2>2, <1>1
<1> QED BY <1>1, <1>2

LEMMA EvenTimes ==
  ASSUME NEW p \in Nat, NEW s \in Nat, s % 2 = 0
  PROVE  p * s \in Nat /\ (p * s) % 2 = 0
<1>1. PICK h \in Nat : s = 2 * h
  <2>1. s = 2 * (s \div 2) /\ s \div 2 \in Nat
    OBVIOUS
  <2> QED BY <2>1
<1>2. p * s = 2 * (p * h) /\ p * h \in Nat
  BY <1>1, Z3
<1> DEFINE e == p * h
<1>3. e \in Nat /\ p * s = 2 * e
  BY <1>2
<1> HIDE DEF e
<1> QED BY <1>3

LEMMA Area == AreaEnd \in Nat /\ AreaEnd % 2 = 0 /\ Addr = 0..AreaEnd - 1
  BY AreaAssumption, EvenTimes DEF AreaEnd, Addr

(* A quotient is the one number whose page holds the address. *)
LEMMA Quotient ==
  ASSUME NEW a \in Nat, NEW p \in Nat, NEW s \in Nat \ {0}
  PROVE  a \div s = p <=> p * s <= a /\ a < p * s + s
<1> DEFINE q == a \div s
           r == a % s
<1>1. q \in Nat /\ r \in 0..s - 1 /\ a = q * s + r
  BY Division
<1> HIDE DEF q, r
<1>2. q = p => p * s <= a /\ a < p * s + s
  <2>1. q * s \in Nat
    BY <1>1, Z3
  <2> QED BY <1>1, <2>1
<1>3. ASSUME q <= p - 1 PROVE a < p * s
  <2>1. q * s + s <= p * s /\ q * s \in Nat /\ p * s \in Nat
    BY <1>1, <1>3, Z3
  <2> QED BY <2>1, <1>1
<1>4. ASSUME p <= q - 1 PROVE p * s + s <= a
  <2>1. p * s + s <= q * s /\ q * s \in Nat /\ p * s \in Nat
    BY <1>1, <1>4, Z3
  <2> QED BY <2>1, <1>1
<1>5. p * s \in Nat
  BY Z3
<1>6. p * s <= a /\ a < p * s + s => q = p
  BY <1>1, <1>3, <1>4, <1>5
<1> QED BY <1>2, <1>6 DEF q

(* Where write is: the page lies in the area and starts at an even address,  *)
(* and the part of the request in it ends with the page or the request.     *)
Here ==
  /\ PageStart \in Nat /\ PageStart % 2 = 0 /\ PageStart + PageSize <= AreaEnd
  /\ Offset \in 0..PageSize - 1 /\ start + src = PageStart + Offset
  /\ Remain \in Nat /\ Remain <= length - src /\ Remain <= PageSize - Offset
  /\ Remain = length - src \/ Remain = PageSize - Offset
  /\ \A a \in Addr : InPage(a) <=> a \in PageStart..PageStart + PageSize - 1
  /\ Page + 1 < Pages => PageStart + PageSize < AreaEnd

LEMMA HereHolds ==
  ASSUME start \in Nat, length \in Nat, src \in 0..length, start + src \in Addr
  PROVE  Here
<1> DEFINE x == start + src
<1>1. x \in Nat /\ x < AreaEnd /\ Page = x \div PageSize /\ Offset = x % PageSize
  BY Area DEF Page, Offset
<1>2. /\ PageSize \in Nat \ {0} /\ PageSize % 2 = 0 /\ Pages \in Nat \ {0}
  BY AreaAssumption
<1>3. Page \in Nat /\ Offset \in 0..PageSize - 1 /\ x = Page * PageSize + Offset
  BY <1>1, <1>2, Division
<1>4. PageStart \in Nat /\ PageStart % 2 = 0 /\ x = PageStart + Offset
  BY <1>2, <1>3, EvenTimes DEF PageStart
<1>5. Page + 1 <= Pages
  <2>1. ASSUME Page >= Pages PROVE FALSE
    <3>1. Page * PageSize >= Pages * PageSize
      <4> HIDE DEF x
      <4> DEFINE g == Page
      <4>1. g \in Nat /\ g >= Pages
        BY <1>3, <2>1
      <4> HIDE DEF g
      <4>2. g * PageSize >= Pages * PageSize
        BY <4>1, <1>2, Z3
      <4> QED BY <4>2 DEF g
    <3> QED BY <3>1, <1>1, <1>3, <1>4, Area DEF PageStart, AreaEnd
  <2> QED BY <2>1, <1>2, <1>3
<1>6. \A g \in Nat : g + 1 <= Pages =>
        /\ g * PageSize + PageSize <= AreaEnd
        /\ g + 1 < Pages => g * PageSize + PageSize < AreaEnd
  <2> TAKE g \in Nat
  <2>1. g + 1 <= Pages => (g + 1) * PageSize <= Pages * PageSize
    BY <1>2, Z3
  <2>2. g + 1 < Pages => (g + 2) * PageSize <= Pages * PageSize
    BY <1>2, Z3
  <2>3. /\ (g + 1) * PageSize = g * PageSize + PageSize
        /\ (g + 2) * PageSize = g * PageSize + 2 * PageSize
        /\ g * PageSize \in Nat
    BY <1>2, Z3
  <2> QED BY <2>1, <2>2, <2>3, <1>2, Area DEF AreaEnd
<1>7. /\ PageStart + PageSize <= AreaEnd
      /\ Page + 1 < Pages => PageStart + PageSize < AreaEnd
  BY <1>3, <1>5, <1>6 DEF PageStart
<1>8. \A a \in Addr : InPage(a) <=> a \in PageStart..PageStart + PageSize - 1
  <2> TAKE a \in Addr
  <2>1. a \in Nat /\ (a \div PageSize = Page <=>
                        Page * PageSize <= a /\ a < Page * PageSize + PageSize)
    BY <1>2, <1>3, Area, Quotient
  <2> QED BY <2>1, <1>2, <1>4 DEF InPage, PageStart
<1>9. /\ Remain \in Nat /\ Remain <= length - src /\ Remain <= PageSize - Offset
      /\ Remain = length - src \/ Remain = PageSize - Offset
  BY <1>2, <1>3 DEF Remain
<1> QED BY <1>3, <1>4, <1>7, <1>8, <1>9 DEF Here

-----------------------------------------------------------------------------
(* The inductive invariant. *)
Types ==
  /\ mem \in [Addr -> Byte] /\ before \in [Addr -> Byte]
  /\ pgerr \in BOOLEAN /\ locked \in BOOLEAN
  /\ torn \in BOOLEAN /\ odd \in BOOLEAN
  /\ pc \in {"idle", "look", "erase", "program", "fault"}
  /\ result \in {"none", "done", "failed", "reset"}
  /\ start \in Addr /\ length \in Nat /\ src \in 0..length
  /\ calls \in 0..MaxCalls

(* The request: what is left of it begins in the area, and with a page unless *)
(* none of it is done; even addresses and lengths keep src even.            *)
Request ==
  /\ start + src \in Addr
  /\ pc # "idle" => buf \in Seq(Byte) /\ Len(buf) = length + 1
  /\ src > 0 => Offset = 0
  /\ ~odd => ~pgerr
  /\ pc # "idle" /\ ~odd => start % 2 = 0 /\ length % 2 = 0 /\ src % 2 = 0

(* What a byte that was not asked for may hold. *)
Kept(a, v) == \/ v = before[a]
              \/ a = start + length /\ a % 2 = 1 /\ before[a] = Erased

(* The byte of the request that belongs at k of the page. *)
InRequest(k) == k \in Offset..Offset + Remain - 1
IsMerged ==
  /\ image \in [0..PageSize - 1 -> Byte]
  /\ \A k \in 0..PageSize - 1 :
       IF InRequest(k) THEN image[k] = buf[src + k - Offset + 1]
       ELSE PageStart + k \notin Asked => Kept(PageStart + k, image[k])

(* write_without_check of a page that is erased first, and of one that is not. *)
Rewrites ==
  /\ base = PageStart /\ size = PageSize /\ IsMerged
Appends ==
  /\ base = start + src /\ size = Remain
  /\ image \in [0..Remain -> Byte]
  /\ \A k \in 0..Remain - 1 : image[k] = buf[src + k + 1]

(* How far it is: what is written, and what is still erased. *)
Written == \A k \in 0..size - 1 :
             base + k \in Addr /\ mem[base + k] = IF k < i THEN image[k] ELSE Erased

Loop ==
  /\ base \in Addr /\ size \in 0..PageSize /\ i \in 0..size + 1
  /\ base + size <= AreaEnd
  /\ pc \in {"idle", "look"} => size = 0
  /\ pc \in {"look", "erase", "fault"} => ~torn
  /\ pc = "fault" => odd
  /\ pc = "erase" => Rewrites /\ i = 0
  /\ pc = "program" /\ torn => Rewrites /\ Written /\ i % 2 = 0 /\ ~pgerr
  /\ pc = "program" /\ ~torn => Appends /\ (~pgerr => Written /\ i % 2 = 0)

(* The pages that are done hold what was asked. *)
Stored == pc \in {"look", "erase", "program"} /\ ~pgerr =>
            \A k \in 0..src - 1 : start + k \in Addr /\ mem[start + k] = buf[k + 1]

IInv == Types /\ Request /\ Loop /\ OthersKept /\ Stored /\ StoredAsAsked

-----------------------------------------------------------------------------
LEMMA InPlace == IInv => Here
  BY HereHolds, Area DEF IInv, Types, Request

(* The place stays while start, length and src do. *)
LEMMA Same ==
  ASSUME UNCHANGED <<start, length, src>>
  PROVE  /\ UNCHANGED <<Page, Offset, Remain, PageStart, Asked>>
         /\ Here' <=> Here
<1>1. UNCHANGED <<Page, Offset>>
  BY DEF Page, Offset
<1>2. UNCHANGED <<Remain, PageStart, Asked>>
  BY <1>1 DEF Remain, PageStart, Asked
<1> QED
  BY <1>1, <1>2 DEF Here, InPage

LEMMA InitHolds == Init => IInv
<1> SUFFICES ASSUME Init PROVE IInv
  OBVIOUS
<1>1. AreaEnd > 0
  <2>1. Pages \in Nat \ {0} /\ PageSize \in Nat \ {0} => Pages * PageSize > 0
    BY Z3
  <2> QED BY <2>1, AreaAssumption DEF AreaEnd
<1>2. Types
  BY <1>1, Area, CallsAssumption DEF Init, Types, Byte
<1>3. Request /\ Loop /\ StoredAsAsked
  BY <1>1, Area, AreaAssumption DEF Init, Request, Loop, StoredAsAsked
<1>4. OthersKept /\ Stored
  BY DEF Init, OthersKept, Stored
<1> QED
  BY <1>2, <1>3, <1>4 DEF IInv

LEMMA CallStep == ASSUME IInv, Call PROVE IInv'
<1>1. PICK b \in Buffers, a \in Addr :
        /\ start' = a /\ length' = Len(b) - 1 /\ buf' = b
        /\ odd' = (odd \/ start' % 2 = 1 \/ length' % 2 = 1)
  BY DEF Call
<1>2. /\ pc = "idle" /\ calls < MaxCalls
      /\ src' = 0 /\ locked' = FALSE /\ pc' = "look"
      /\ calls' = calls + 1 /\ before' = mem /\ result' = "none" /\ torn' = FALSE
      /\ UNCHANGED <<mem, pgerr, base, image, size, i>>
  BY DEF Call, loop
<1>3. b \in Seq(Byte) /\ Len(b) \in Nat /\ Len(b) > 0
  BY BuffersAssumption DEF Byte
<1>4. a \in Nat /\ a < AreaEnd
  BY Area
<1>5. /\ odd' \in BOOLEAN
      /\ ~odd' => ~odd /\ start' % 2 # 1 /\ length' % 2 # 1
  BY <1>1
<1>6. Types'
  <2>1. start' \in Addr /\ length' \in Nat /\ src' \in 0..length'
    BY <1>1, <1>2, <1>3
  <2>2. calls' \in 0..MaxCalls
    BY <1>2, CallsAssumption DEF IInv, Types
  <2> QED
    BY <2>1, <2>2, <1>2, <1>5 DEF IInv, Types
<1>7. Request'
  <2>1. start' \in Nat /\ length' \in Nat
    BY <1>1, <1>3, <1>4
  <2>2. ~odd' => start' % 2 = 0 /\ length' % 2 = 0
    <3>1. \A n \in Nat : n % 2 # 1 => n % 2 = 0
      OBVIOUS
    <3> QED BY <2>1, <3>1, <1>5
  <2>3. start' + src' \in Addr /\ buf' \in Seq(Byte) /\ Len(buf') = length' + 1
    BY <1>1, <1>2, <1>3, <1>4
  <2> QED
    BY <2>2, <2>3, <1>2, <1>5 DEF IInv, Request
<1>8. Loop'
  BY <1>2 DEF IInv, Loop
<1>9. OthersKept' /\ Stored' /\ StoredAsAsked'
  BY <1>1, <1>2, <1>5 DEF IInv, OthersKept, Stored, StoredAsAsked
<1> QED
  BY <1>6, <1>7, <1>8, <1>9 DEF IInv

LEMMA LookStep == ASSUME IInv, Look PROVE IInv'
<1>1. /\ pc = "look" /\ i' = 0 /\ UNCHANGED <<start, length, buf, src, mem, before>>
      /\ UNCHANGED <<pgerr, locked, calls, result, torn, odd>>
  BY DEF Look, chip, request, history
<1>2. Here /\ Here' /\ UNCHANGED <<Page, Offset, Remain, PageStart, Asked>>
  BY <1>1, InPlace, Same
<1>3. /\ buf \in Seq(Byte) /\ Len(buf) = length + 1 /\ src \in 0..length
      /\ length \in Nat /\ mem \in [Addr -> Byte] /\ start \in Nat
      /\ torn = FALSE
  BY <1>1, Area DEF IInv, Types, Request, Loop
<1>4. PageSize \in Nat \ {0}
  BY AreaAssumption
<1>5. CASE NeedsErase
  <2>1. /\ pc' = "erase" /\ base' = PageStart /\ image' = Merged
        /\ size' = PageSize
    BY <1>5 DEF Look
  <2>2. \A k \in 0..PageSize - 1 : PageStart + k \in Addr
    BY <1>2, Area, <1>4 DEF Here
  <2>3. \A k \in 0..PageSize - 1 :
          InRequest(k) => src + k - Offset + 1 \in 1..Len(buf)
    BY <1>2, <1>3, <1>4 DEF Here, InRequest
  <2>4. \A k \in 1..Len(buf) : buf[k] \in Byte
    BY <1>3
  <2>5. image' = [k \in 0..PageSize - 1 |->
                    IF InRequest(k) THEN buf[src + k - Offset + 1]
                                    ELSE mem[PageStart + k]]
    BY <2>1 DEF Merged, InRequest
  <2>6. image' \in [0..PageSize - 1 -> Byte]
    BY <2>2, <2>3, <2>4, <2>5, <1>3
  <2>7. \A x \in Addr \ Asked : Kept(x, mem[x])
    BY <1>3 DEF IInv, OthersKept, Kept
  <2>8. \A k \in 0..PageSize - 1 :
          ~InRequest(k) /\ PageStart + k \notin Asked => Kept(PageStart + k, image'[k])
    BY <2>2, <2>5, <2>7
  <2>9. IsMerged'
    BY <2>5, <2>6, <2>8, <1>1, <1>2 DEF IsMerged, InRequest, Kept
  <2>10. Loop'
    BY <2>1, <2>2, <2>9, <1>1, <1>2, <1>3, <1>4 DEF Loop, Rewrites, Here
  <2> QED
    BY <2>1, <2>10, <1>1, <1>2
    DEF IInv, Types, Request, OthersKept, Stored, StoredAsAsked, InPage
<1>6. CASE ~NeedsErase
  <2>1. /\ pc' = "program" /\ base' = start + src /\ size' = Remain
        /\ image' = [k \in 0..Remain |-> buf[src + k + 1]]
    BY <1>6 DEF Look
  <2>2. \A k \in 0..Remain - 1 : start + src + k \in Addr /\ mem[start + src + k] = Erased
    <3> TAKE k \in 0..Remain - 1
    <3>1. mem[start + src + k] = Erased
      BY <1>6 DEF NeedsErase
    <3>2. start + src + k \in Addr
      BY <1>2, <1>3, <1>4, Area DEF Here
    <3> QED BY <3>1, <3>2
  <2>3. image' \in [0..Remain -> Byte]
    <3>1. \A k \in 0..Remain : src + k + 1 \in 1..Len(buf)
      BY <1>2, <1>3 DEF Here
    <3> QED BY <3>1, <2>1, <1>3
  <2>4. Appends' /\ Written'
    BY <2>1, <2>2, <2>3, <1>1, <1>2 DEF Appends, Written, Here
  <2>5. Loop'
    <3>1. base' \in Addr /\ size' \in 0..PageSize /\ base' + size' <= AreaEnd
      BY <2>1, <1>2, <1>3, <1>4, Area DEF Here
    <3> QED BY <3>1, <2>1, <2>4, <1>1, <1>3 DEF Loop
  <2> QED
    BY <2>1, <2>5, <1>1, <1>2
    DEF IInv, Types, Request, OthersKept, Stored, StoredAsAsked, InPage
<1> QED
  BY <1>5, <1>6

LEMMA ErasePageStep == ASSUME IInv, ErasePage PROVE IInv'
<1>1. /\ pc = "erase"
      /\ UNCHANGED <<pgerr, locked, start, length, buf, src, calls, before, odd>>
  BY DEF ErasePage, request
<1>2. Here /\ UNCHANGED <<Page, Offset, Remain, PageStart, Asked>>
  BY <1>1, InPlace, Same
<1>3. AreaEnd > 0 /\ PageSize \in Nat \ {0} /\ torn = FALSE /\ Rewrites /\ i = 0
  BY <1>1, Area, AreaAssumption DEF IInv, Types, Loop
<1>4. CASE EraseFails
  BY <1>1, <1>2, <1>3, <1>4, Area
  DEF EraseFails, NoLoop, IInv, Types, Request, Loop, OthersKept, Stored,
      StoredAsAsked, InPage
<1>5. CASE Erases
  <2>1. /\ ~pgerr
        /\ mem' = [a \in Addr |-> IF InPage(a) THEN Erased ELSE mem[a]]
        /\ pc' = "program" /\ torn' = TRUE
        /\ UNCHANGED <<result, base, image, size, i>>
    BY <1>5 DEF Erases, loop
  <2>2. Types'
    BY <2>1, <1>1 DEF IInv, Types, Byte
  <2>3. Rewrites'
    BY <2>1, <1>1, <1>2, <1>3 DEF Rewrites, IsMerged, InRequest, Kept
  <2>4. Written'
    <3>1. \A k \in 0..PageSize - 1 : PageStart + k \in Addr /\ InPage(PageStart + k)
      BY <1>2, <1>3, Area DEF Here
    <3> QED BY <3>1, <2>1, <1>3 DEF Written, Rewrites
  <2>5. Loop'
    BY <2>1, <2>3, <2>4, <1>1, <1>3 DEF IInv, Loop
  <2>6. OthersKept'
    BY <2>1, <1>1, <1>2, <1>3 DEF IInv, OthersKept, InPage
  <2>7. Stored'
    <3>1. ASSUME NEW k \in 0..src - 1
          PROVE  start + k \in Addr /\ mem[start + k] = buf[k + 1] /\ ~InPage(start + k)
      <4>1. start + k \in Addr /\ mem[start + k] = buf[k + 1]
        BY <2>1, <3>1, <1>1 DEF IInv, Stored
      <4>2. src > 0 /\ start \in Nat /\ src \in Nat /\ Offset = 0
        BY Area DEF IInv, Types, Request
      <4> QED BY <4>1, <4>2, <1>2 DEF Here
    <3> QED BY <3>1, <2>1, <1>1 DEF Stored
  <2> QED
    BY <2>1, <2>2, <2>5, <2>6, <2>7, <1>1, <1>2
    DEF IInv, Request, StoredAsAsked
<1> QED
  BY <1>4, <1>5 DEF ErasePage

(* In the loop of a page that is torn or of a request with even addresses,   *)
(* the next half word is even, erased and whole.                            *)
LEMMA HalfWord ==
  ASSUME IInv, pc = "program", i < size
  PROVE  /\ Here /\ Target \in Nat /\ Target < AreaEnd
         /\ PageSize \in Nat \ {0} /\ i \in Nat /\ size \in Nat /\ base \in Nat
         /\ Target % 2 = 0 => Target + 1 < AreaEnd
         /\ torn \/ ~odd => /\ Target % 2 = 0 /\ i + 1 < size
                            /\ mem[Target] = Erased /\ mem[Target + 1] = Erased
<1>1. Here /\ PageSize \in Nat \ {0} /\ PageSize % 2 = 0
  BY InPlace, AreaAssumption
<1>2. /\ base \in Nat /\ i \in Nat /\ size \in Nat /\ base + size <= AreaEnd
      /\ start \in Nat /\ src \in Nat /\ length \in Nat
  BY <1>1, Area DEF IInv, Loop, Types
<1>3. Target = base + i /\ Target \in Nat /\ Target < AreaEnd
  BY <1>2, Area DEF Target
<1>4. Target % 2 = 0 => Target + 1 < AreaEnd
  BY <1>3, Area
<1>5. ASSUME torn \/ ~odd
      PROVE  base % 2 = 0 /\ size % 2 = 0 /\ i % 2 = 0 /\ Written
  <2>1. CASE torn
    BY <2>1, <1>1 DEF IInv, Loop, Rewrites, Here
  <2>2. CASE ~torn
    <3>1. /\ base = start + src /\ size = Remain /\ i % 2 = 0 /\ Written
          /\ start % 2 = 0 /\ length % 2 = 0 /\ src % 2 = 0
      BY <2>2, <1>5 DEF IInv, Loop, Appends, Request
    <3>2. (start + src) % 2 = 0 /\ (length - src) % 2 = 0 /\ length - src \in Int
      BY <3>1, <1>2
    <3>3. Offset \in Nat /\ Offset % 2 = 0
      BY <3>2, <1>1, <1>2 DEF Here
    <3>4. Remain % 2 = 0
      <4>1. (PageSize - Offset) % 2 = 0
        BY <3>3, <1>1
      <4> QED BY <4>1, <3>2, <1>1 DEF Here
    <3> QED BY <3>1, <3>2, <3>4
  <2> QED BY <2>1, <2>2
<1>6. ASSUME torn \/ ~odd
      PROVE  /\ Target % 2 = 0 /\ i + 1 < size
             /\ mem[Target] = Erased /\ mem[Target + 1] = Erased
  <2>1. Target % 2 = 0 /\ i + 1 < size
    BY <1>2, <1>3, <1>5, <1>6
  <2>2. mem[base + i] = Erased /\ mem[base + (i + 1)] = Erased
    BY <2>1, <1>2, <1>5, <1>6 DEF Written
  <2>3. base + (i + 1) = Target + 1
    BY <1>2, <1>3
  <2> QED
    BY <2>1, <2>2, <2>3, <1>3
<1> QED
  BY <1>1, <1>2, <1>3, <1>4, <1>6

LEMMA ProgramStep == ASSUME IInv, ProgramHalfWord PROVE IInv'
<1>1. /\ pc = "program" /\ i < size
      /\ UNCHANGED <<locked, start, length, buf, src, base, image, size>>
      /\ UNCHANGED <<calls, before, result, torn, odd>>
  BY DEF ProgramHalfWord, request, history
<1>2. Here /\ UNCHANGED <<Page, Offset, Remain, PageStart, Asked>>
  BY <1>1, InPlace, Same
<1>3. /\ Target \in Nat /\ Target < AreaEnd
      /\ PageSize \in Nat \ {0} /\ i \in Nat /\ size \in Nat /\ base \in Nat
      /\ Target % 2 = 0 => Target + 1 < AreaEnd
      /\ torn \/ ~odd => /\ Target % 2 = 0 /\ i + 1 < size
                         /\ mem[Target] = Erased /\ mem[Target + 1] = Erased
      /\ i < size /\ Target = base + i
  BY <1>1, HalfWord DEF Target
<1>4. torn \in BOOLEAN /\ odd \in BOOLEAN /\ start \in Nat /\ length \in Nat /\ src \in Nat
  BY Area DEF IInv, Types
<1>5. (Rewrites' <=> Rewrites) /\ (Appends' <=> Appends)
  BY <1>1, <1>2 DEF Rewrites, Appends, IsMerged, InRequest, Kept
<1>6. ASSUME Refused \/ Faults \/ Unerased PROVE IInv'
  <2>1. ~torn /\ odd /\ UNCHANGED mem /\ (pgerr' = TRUE \/ pc' = "fault")
    <3>1. CASE Refused
      BY <3>1, <1>1 DEF Refused, IInv, Loop, Request, Types
    <3>2. CASE Faults
      <4>1. Target % 2 # 0 /\ UNCHANGED mem /\ pc' = "fault"
        BY <3>2, <1>3 DEF Faults
      <4> QED BY <4>1, <1>3
    <3>3. CASE Unerased
      BY <3>3, <1>3 DEF Unerased
    <3> QED BY <3>1, <3>2, <3>3, <1>6
  <2>2. /\ pc' \in {"program", "fault"} /\ pgerr' \in BOOLEAN
        /\ i' \in {i, size}
    BY <1>1, <1>6 DEF Refused, Faults, Unerased, IInv, Types
  <2>3. Types'
    BY <1>1, <2>1, <2>2 DEF IInv, Types
  <2>4. Request'
    BY <1>1, <1>2, <2>1, <2>2 DEF IInv, Request
  <2>5. Loop'
    <3>1. i' \in 0..size' + 1 /\ ~torn' /\ odd'
      BY <1>1, <1>3, <2>1, <2>2
    <3>2. Appends'
      BY <1>1, <1>5, <2>1 DEF IInv, Loop
    <3>3. base' \in Addr /\ size' \in 0..PageSize /\ base' + size' <= AreaEnd
      BY <1>1 DEF IInv, Loop
    <3> QED BY <3>1, <3>2, <3>3, <2>1, <2>2 DEF Loop
  <2>6. OthersKept' /\ Stored' /\ StoredAsAsked'
    BY <1>1, <1>2, <2>1, <2>2 DEF IInv, OthersKept, Stored, StoredAsAsked, InPage
  <2> QED
    BY <2>3, <2>4, <2>5, <2>6 DEF IInv
<1>7. ASSUME Programs PROVE IInv'
  <2>1. /\ ~pgerr /\ Target % 2 = 0 /\ i' = i + 2
        /\ mem[Target] = Erased /\ mem[Target + 1] = Erased
        /\ mem' = [mem EXCEPT ![Target] = image[i], ![Target + 1] = image[i + 1]]
        /\ UNCHANGED <<pgerr, pc>>
    BY <1>7 DEF Programs
  <2>2. Target \in Addr /\ Target + 1 \in Addr
    BY <2>1, <1>3, Area
  <2>3. image[i] \in Byte /\ image[i + 1] \in Byte
    <3>1. CASE torn
      <4>1. image \in [0..PageSize - 1 -> Byte] /\ size = PageSize
        BY <3>1, <1>1 DEF IInv, Loop, Rewrites, IsMerged
      <4> QED BY <4>1, <3>1, <1>3
    <3>2. CASE ~torn
      <4>1. image \in [0..Remain -> Byte] /\ size = Remain
        BY <3>2, <1>1 DEF IInv, Loop, Appends
      <4> QED BY <4>1, <1>3
    <3> QED BY <3>1, <3>2
  <2>4. /\ \A a \in Addr : mem'[a] = IF a = Target THEN image[i]
                                     ELSE IF a = Target + 1 THEN image[i + 1]
                                     ELSE mem[a]
        /\ mem' \in [Addr -> Byte]
    <3>1. mem \in [Addr -> Byte]
      BY DEF IInv, Types
    <3> QED BY <3>1, <2>1, <2>2, <2>3, <1>3
  <2>5. Types'
    BY <2>1, <2>4, <1>1 DEF IInv, Types
  <2>6. Request'
    BY <2>1, <1>1, <1>2 DEF IInv, Request
  <2>7. Written' /\ i' % 2 = 0
    <3>1. Written /\ i % 2 = 0
      BY <2>1, <1>1 DEF IInv, Loop
    <3>2. ASSUME NEW k \in 0..size - 1
          PROVE  /\ base + k \in Addr
                 /\ mem'[base + k] = IF k < i + 2 THEN image[k] ELSE Erased
      <4>1. base + k \in Addr /\ mem[base + k] = IF k < i THEN image[k] ELSE Erased
        BY <3>1, <3>2 DEF Written
      <4>2. base + k = Target <=> k = i
        BY <1>3
      <4>3. base + k = Target + 1 <=> k = i + 1
        BY <1>3
      <4> QED BY <4>1, <4>2, <4>3, <2>4, <1>3
    <3>3. Written'
      BY <3>2, <2>1, <1>1 DEF Written
    <3> QED BY <3>1, <3>3, <2>1, <1>3
  <2>8. Loop'
    BY <2>1, <2>7, <1>1, <1>2, <1>3, <1>5 DEF IInv, Loop
  <2>9. OthersKept'
    <3>1. CASE torn
      <4>1. base = PageStart /\ size = PageSize
        BY <3>1, <1>1 DEF IInv, Loop, Rewrites
      <4>2. InPage(Target) /\ InPage(Target + 1)
        BY <4>1, <3>1, <2>2, <1>2, <1>3 DEF Here
      <4> QED
        BY <4>2, <3>1, <2>4, <1>1, <1>2 DEF IInv, OthersKept, InPage
    <3>2. CASE ~torn
      <4>1. base = start + src /\ size = Remain
        BY <3>2, <1>1 DEF IInv, Loop, Appends
      <4>2. Target \in Asked
        BY <4>1, <2>2, <1>2, <1>3, <1>4 DEF Here, Asked
      <4>3. Target + 1 \in Asked \/ Target + 1 = start + length
        BY <4>1, <2>2, <1>2, <1>3, <1>4 DEF Here, Asked
      <4>4. (Target + 1) % 2 = 1
        BY <2>1, <1>3
      <4>5. Target + 1 \in Asked \/ before[Target + 1] = Erased
        BY <3>2, <2>1, <2>2 DEF IInv, OthersKept
      <4> QED
        BY <4>2, <4>3, <4>4, <4>5, <3>2, <2>2, <2>4, <1>1, <1>2 DEF IInv, OthersKept
    <3> QED BY <3>1, <3>2
  <2>10. Stored'
    <3>1. ASSUME NEW k \in 0..src - 1
          PROVE  start + k \in Addr /\ mem'[start + k] = buf[k + 1]
      <4>1. start + k \in Addr /\ mem[start + k] = buf[k + 1]
        BY <2>1, <3>1, <1>1 DEF IInv, Stored
      <4>2. base = start + src
        <5>1. src > 0 /\ Offset = 0
          BY <1>4 DEF IInv, Request
        <5> QED
          BY <5>1, <1>1, <1>2, <1>4 DEF IInv, Loop, Rewrites, Appends, Here
      <4>3. start + k # Target /\ start + k # Target + 1
        BY <4>2, <1>3, <1>4
      <4> QED BY <4>1, <4>3, <2>4
    <3> QED BY <3>1, <1>1, <2>1 DEF Stored
  <2> QED
    BY <2>1, <2>5, <2>6, <2>8, <2>9, <2>10, <1>1 DEF IInv, StoredAsAsked
<1> QED
  BY <1>6, <1>7 DEF ProgramHalfWord

(* A page that is through holds the request's bytes, and its own otherwise. *)
LEMMA PageDone ==
  ASSUME IInv, pc = "program", i >= size
  PROVE  /\ \A a \in Addr \ Asked : Kept(a, mem[a])
         /\ ~pgerr => \A k \in 0..src + Remain - 1 :
                        start + k \in Addr /\ mem[start + k] = buf[k + 1]
<1>1. Here /\ PageSize \in Nat \ {0}
  BY InPlace, AreaAssumption
<1>2. /\ start \in Nat /\ src \in Nat /\ length \in Nat /\ size \in Nat
      /\ i \in Nat /\ torn \in BOOLEAN
  BY <1>1, Area DEF IInv, Types, Loop
<1>3. ASSUME torn \/ ~pgerr
      PROVE  \A k \in 0..size - 1 : base + k \in Addr /\ mem[base + k] = image[k]
  <2>1. Written
    BY <1>3 DEF IInv, Loop
  <2> QED BY <2>1, <1>2 DEF Written
<1>4. ASSUME NEW a \in Addr \ Asked PROVE Kept(a, mem[a])
  <2>1. CASE torn /\ InPage(a)
    <3> DEFINE k == a - PageStart
    <3>1. k \in 0..PageSize - 1 /\ a = PageStart + k /\ a \in Nat
      BY <2>1, <1>1, Area DEF Here
    <3>2. base = PageStart /\ size = PageSize /\ IsMerged
      BY <2>1 DEF IInv, Loop, Rewrites
    <3> HIDE DEF k
    <3>3. mem[a] = image[k]
      BY <3>1, <3>2, <2>1, <1>3
    <3>4. ~InRequest(k)
      <4>1. InRequest(k) => a \in start..start + length - 1
        BY <3>1, <1>1, <1>2 DEF InRequest, Here
      <4> QED BY <4>1 DEF Asked
    <3> QED BY <3>1, <3>2, <3>3, <3>4 DEF IsMerged
  <2>2. CASE ~(torn /\ InPage(a))
    BY <2>2 DEF IInv, OthersKept, Kept
  <2> QED BY <2>1, <2>2
<1>5. ASSUME ~pgerr, NEW k \in 0..src + Remain - 1
      PROVE  start + k \in Addr /\ mem[start + k] = buf[k + 1]
  <2>1. k \in Nat /\ Remain \in Nat /\ k < src + Remain
    BY <1>1, <1>2 DEF Here
  <2>2. CASE k < src
    BY <2>1, <2>2, <1>2, <1>5 DEF IInv, Stored
  <2>3. CASE k >= src /\ torn
    <3> DEFINE p == Offset + (k - src)
    <3>1. /\ p \in 0..PageSize - 1 /\ PageStart + p = start + k
          /\ InRequest(p) /\ src + p - Offset + 1 = k + 1
      BY <2>1, <2>3, <1>1, <1>2 DEF Here, InRequest
    <3>2. base = PageStart /\ size = PageSize /\ IsMerged
      BY <2>3 DEF IInv, Loop, Rewrites
    <3> HIDE DEF p
    <3>3. start + k \in Addr /\ mem[start + k] = image[p]
      <4>1. base + p \in Addr /\ mem[base + p] = image[p]
        BY <3>1, <3>2, <2>3, <1>3
      <4> QED BY <4>1, <3>1, <3>2
    <3>4. image[p] = buf[src + p - Offset + 1]
      BY <3>1, <3>2 DEF IsMerged
    <3> QED BY <3>1, <3>3, <3>4
  <2>4. CASE k >= src /\ ~torn
    <3> DEFINE p == k - src
    <3>1. p \in 0..Remain - 1 /\ start + src + p = start + k /\ src + p + 1 = k + 1
      BY <2>1, <2>4, <1>2
    <3>2. /\ base = start + src /\ size = Remain
          /\ \A j \in 0..Remain - 1 : image[j] = buf[src + j + 1]
      BY <2>4 DEF IInv, Loop, Appends
    <3> HIDE DEF p
    <3>3. base + p \in Addr /\ mem[base + p] = image[p]
      BY <3>1, <3>2, <1>3, <1>5
    <3>4. image[p] = buf[src + p + 1]
      BY <3>1, <3>2
    <3> QED BY <3>1, <3>2, <3>3, <3>4
  <2> QED BY <2>1, <2>2, <2>3, <2>4, <1>2
<1> QED
  BY <1>4, <1>5

LEMMA Multiple ==
  ASSUME NEW p \in Nat, NEW s \in Nat \ {0}
  PROVE  (p * s) % s = 0
<1> DEFINE x == p * s
<1>1. x \in Nat
  BY Z3
<1>2. x = (x \div s) * s + (x % s) /\ x % s \in 0..s - 1
  BY <1>1, Division
<1>3. x \div s = p
  BY <1>1, Quotient
<1> DEFINE r == x % s
<1>4. x = p * s + r /\ r \in 0..s - 1
  BY <1>2, <1>3
<1>5. r = 0
  <2> HIDE DEF r
  <2> QED BY <1>1, <1>4
<1> QED
  BY <1>5

LEMMA PageEndsStep == ASSUME IInv, PageEnds PROVE IInv'
<1>1. /\ pc = "program" /\ i >= size /\ torn' = FALSE
      /\ base' = 0 /\ image' = <<>> /\ size' = 0 /\ i' = 0
      /\ UNCHANGED <<mem, pgerr, start, length, buf, calls, before, odd>>
  BY DEF PageEnds, NoLoop, request
<1>2. Here /\ PageSize \in Nat \ {0} /\ PageSize % 2 = 0 /\ AreaEnd > 0
  BY InPlace, AreaAssumption, Area DEF IInv, Types
<1>3. /\ \A a \in Addr \ Asked : Kept(a, mem[a])
      /\ ~pgerr => \A k \in 0..src + Remain - 1 :
                     start + k \in Addr /\ mem[start + k] = buf[k + 1]
  BY <1>1, PageDone
<1>4. /\ start \in Nat /\ src \in Nat /\ length \in Nat
      /\ odd \in BOOLEAN
  BY Area DEF IInv, Types
<1>5. Asked' = Asked
  BY <1>1 DEF Asked
<1>6. OthersKept'
  BY <1>1, <1>3, <1>5 DEF OthersKept, Kept
<1>7. CASE Returns
  <2>1. /\ length - src = Remain /\ pc' = "idle" /\ result' = "done" /\ locked' = TRUE
        /\ UNCHANGED src
    BY <1>7 DEF Returns
  <2>2. ASSUME ~pgerr, NEW a \in Asked PROVE mem[a] = buf[a - start + 1]
    <3> DEFINE k == a - start
    <3>1. k \in 0..src + Remain - 1 /\ start + k = a
      BY <2>1, <2>2, <1>4 DEF Asked
    <3> HIDE DEF k
    <3>2. mem[start + k] = buf[k + 1]
      BY <3>1, <2>2, <1>3
    <3> QED BY <3>1, <3>2 DEF k
  <2>3. StoredAsAsked'
    BY <2>1, <2>2, <1>1, <1>5 DEF IInv, Request, StoredAsAsked
  <2>4. Types' /\ Stored'
    BY <2>1, <1>1 DEF IInv, Types, Stored
  <2>5. Request'
    BY <2>1, <1>1, Same DEF IInv, Request
  <2>6. Loop'
    BY <2>1, <1>1, <1>2, Area DEF IInv, Loop
  <2> QED
    BY <2>3, <2>4, <2>5, <2>6, <1>6 DEF IInv
<1>8. CASE NoMorePages
  <2>1. pc' = "idle" /\ result' = "failed" /\ UNCHANGED <<src, locked>>
    BY <1>8 DEF NoMorePages
  <2>2. Types' /\ Stored' /\ StoredAsAsked'
    BY <2>1, <1>1 DEF IInv, Types, Stored, StoredAsAsked
  <2>3. Request'
    BY <2>1, <1>1, Same DEF IInv, Request
  <2>4. Loop'
    BY <2>1, <1>1, <1>2, Area DEF IInv, Loop
  <2> QED
    BY <2>2, <2>3, <2>4, <1>6 DEF IInv
<1>9. CASE NextPage
  <2>1. /\ length - src # Remain /\ Page + 1 < Pages
        /\ pc' = "look" /\ src' = src + Remain /\ UNCHANGED <<locked, result>>
    BY <1>9 DEF NextPage
  <2>2. /\ start + src' = PageStart + PageSize /\ PageStart + PageSize < AreaEnd
        /\ src' \in 0..length /\ src' \in Nat
    BY <2>1, <1>2, <1>4 DEF Here
  <2>3. Offset' = 0
    <3>1. Page \in Nat
      BY <1>2, <1>4, Division DEF Page
    <3>2. PageStart + PageSize = (Page + 1) * PageSize
      BY <3>1, <1>2, Z3 DEF PageStart
    <3>3. (PageStart + PageSize) % PageSize = 0
      BY <3>1, <3>2, <1>2, Multiple
    <3> QED BY <3>3, <2>2, <1>1 DEF Offset
  <2>4. Types'
    BY <2>1, <2>2, <1>1 DEF IInv, Types
  <2>5. Request'
    <3>1. start' + src' \in Addr
      <4>1. start' + src' = PageStart + PageSize /\ PageStart + PageSize \in Nat
        BY <2>2, <1>1, <1>2 DEF Here
      <4> QED BY <4>1, <2>2, Area
    <3>2. ~odd => src' % 2 = 0
      <4>1. ~odd => start % 2 = 0
        BY <1>1 DEF IInv, Request
      <4>2. (PageStart + PageSize) % 2 = 0 /\ PageStart + PageSize \in Nat
        BY <1>2 DEF Here
      <4>3. src' = (PageStart + PageSize) - start
        BY <2>2, <1>4, <4>2
      <4> QED BY <4>1, <4>2, <4>3, <1>4
    <3> QED BY <3>1, <3>2, <2>1, <2>3, <1>1 DEF IInv, Request
  <2>6. Loop' /\ StoredAsAsked'
    BY <2>1, <1>1, <1>2, Area DEF IInv, Loop, StoredAsAsked
  <2>7. Stored'
    <3>1. ASSUME ~pgerr', NEW k \in 0..src' - 1
          PROVE  start + k \in Addr /\ mem[start + k] = buf[k + 1]
      <4>1. ~pgerr
        BY <3>1, <1>1
      <4>2. k \in 0..src + Remain - 1
        <5>1. Remain \in Nat
          BY <1>2 DEF Here
        <5> QED BY <5>1, <3>1, <2>1, <2>2, <1>4
      <4> QED BY <4>1, <4>2, <1>3
    <3> QED BY <3>1, <1>1 DEF Stored
  <2> QED
    BY <2>4, <2>5, <2>6, <2>7, <1>6 DEF IInv
<1> QED
  BY <1>7, <1>8, <1>9 DEF PageEnds

LEMMA ResetStep == ASSUME IInv, Reset PROVE IInv'
<1>1. /\ pc' = "idle" /\ pgerr' = FALSE /\ locked' = TRUE /\ odd' = FALSE
      /\ result' = "reset" /\ base' = 0 /\ image' = <<>> /\ size' = 0 /\ i' = 0
      /\ UNCHANGED <<mem, start, length, buf, src, calls, before, torn>>
  BY DEF Reset, NoLoop, request
<1>2. UNCHANGED <<Page, Offset, Asked>> /\ AreaEnd > 0
  BY <1>1, Same, Area DEF IInv, Types
<1>3. Types' /\ Request' /\ Loop' /\ Stored' /\ StoredAsAsked'
  BY <1>1, <1>2, AreaAssumption, Area
  DEF IInv, Types, Request, Loop, Stored, StoredAsAsked
<1>4. OthersKept'
  BY <1>1, <1>2 DEF IInv, OthersKept, InPage
<1> QED
  BY <1>3, <1>4 DEF IInv

LEMMA NextStep == IInv /\ [Next]_vars => IInv'
<1> SUFFICES ASSUME IInv, [Next]_vars PROVE IInv'
  OBVIOUS
<1>1. CASE UNCHANGED vars
  <2>1. UNCHANGED <<Page, Offset, Remain, PageStart, Asked>> /\ IInv
    BY <1>1, Same DEF vars, request
  <2> QED
    BY <2>1, <1>1
    DEF vars, chip, request, loop, history, IInv, Types, Request, Loop, OthersKept,
        Stored, StoredAsAsked, Rewrites, Appends, Written, IsMerged, InRequest,
        Kept, InPage
<1>2. CASE Next
  BY <1>2, CallStep, LookStep, ErasePageStep, ProgramStep, PageEndsStep, ResetStep
  DEF Next
<1> QED
  BY <1>1, <1>2

LEMMA Invariance == Spec => []IInv
  BY InitHolds, NextStep, PTL DEF Spec

-----------------------------------------------------------------------------
(* Every variable keeps to its range, and write_without_check never works    *)
(* past the end of the area.                                                *)
THEOREM TypeCorrect == Spec => []TypeOK
<1>1. IInv => TypeOK
  BY DEF IInv, Types, Loop, TypeOK, AreaEnd
<1> QED
  BY <1>1, Invariance, PTL

(* A write, and a reset in the middle of one, changes no byte but those asked *)
(* for, those of the one page being rewritten, and an erased one behind.     *)
THEOREM OtherBytesKept == Spec => []OthersKept
<1>1. IInv => OthersKept
  BY DEF IInv
<1> QED
  BY <1>1, Invariance, PTL

(* A write of any length at any address that says it is done has stored its   *)
(* bytes, unless the programming error stands, which takes an odd address or *)
(* length asked for since the reset.                                        *)
THEOREM BytesStored == Spec => []StoredAsAsked
<1>1. IInv => StoredAsAsked
  BY DEF IInv
<1> QED
  BY <1>1, Invariance, PTL
=============================================================================
