---------------------------- MODULE UartTxProofs ----------------------------
(***************************************************************************)
(* UartTx with the main program as its only client: types, NeverStuck,       *)
(* RoomIsKept and the queue that it implements, for every size of the ring.  *)
(***************************************************************************)
EXTENDS UartTx, SequenceTheorems, TLAPS

-----------------------------------------------------------------------------
(* The arithmetic of the ring: what an index leaves that runs round once. *)
LEMMA Remainder ==
  ASSUME NEW x \in Int, NEW s \in Nat \ {0}, NEW q \in {-1, 0, 1},
         NEW r \in 0..s - 1, x = q * s + r
  PROVE  x % s = r
<1>1. x \div s \in Int /\ x % s \in 0..s - 1 /\ x = (x \div s) * s + (x % s)
  BY Z3
<1> DEFINE d == x \div s
           m == x % s
<1>2. d \in Int /\ m \in 0..s - 1 /\ d * s + m = q * s + r
  BY <1>1
<1> HIDE DEF d, m
<1>3. ASSUME d >= q + 1 PROVE FALSE
  <2>1. d * s >= q * s + s /\ d * s \in Int /\ q * s \in Int
    BY <1>2, <1>3, Z3
  <2> QED BY <2>1, <1>2
<1>4. ASSUME d <= q - 1 PROVE FALSE
  <2>1. d * s <= q * s - s /\ d * s \in Int /\ q * s \in Int
    BY <1>2, <1>4, Z3
  <2> QED BY <2>1, <1>2
<1>5. d = q
  BY <1>2, <1>3, <1>4
<1>6. m = r
  <2>1. q * s \in Int
    BY Z3
  <2> QED BY <2>1, <1>2, <1>5
<1> QED
  BY <1>6 DEF m

LEMMA Wraps ==
  ASSUME NEW s \in Nat \ {0}, NEW i \in 0..s - 1
  PROVE  (i + 1) % s = IF i = s - 1 THEN 0 ELSE i + 1
<1>1. CASE i = s - 1
  <2>1. i + 1 = 1 * s + 0
    BY <1>1
  <2> QED BY <2>1, <1>1, Remainder
<1>2. CASE i # s - 1
  <2>1. i + 1 = 0 * s + (i + 1) /\ i + 1 \in 0..s - 1
    BY <1>2
  <2> QED BY <2>1, <1>2, Remainder
<1> QED
  BY <1>1, <1>2

LEMMA AfterIs ==
  ASSUME NEW i \in Index
  PROVE  /\ After(i) = IF i = Size - 1 THEN 0 ELSE i + 1
         /\ After(i) \in Index
  BY SizeAssumption, Wraps DEF After, Index

LEMMA RoomRange ==
  ASSUME NEW h \in Index, NEW t \in Index PROVE Room(h, t) \in 0..Size - 1
  BY SizeAssumption DEF Room, Index

-----------------------------------------------------------------------------
(* Types, whatever the clients are.  A byte is stored by a write that was    *)
(* called with it.                                                          *)
OfWrite  == InWrite \cup {"wTest", "wRead", "wTail", "wDr"}
TypeInv  == TypeOK /\ \A k \in Client : at[k] \in OfWrite => loc[k].c \in Byte

LEMMA TypeInit == Init => TypeInv
<1> SUFFICES ASSUME Init PROVE TypeInv
  OBVIOUS
<1>1. (CHOOSE b \in Byte : TRUE) \in Byte
  BY ByteAssumption
<1>2. 0 \in Index
  BY SizeAssumption DEF Index
<1>3. /\ at \in [Client -> Place]
      /\ loc \in [Client -> [c : Byte \cup {NoByte}, i : Index, ch : Byte \cup {NoByte}]]
      /\ buf \in [Index -> Byte]
  BY <1>1, <1>2 DEF Init, Place
<1>4. TypeOK
  <2>1. head \in Index /\ tail \in Index /\ out \in Byte /\ room \in 0..Size - 1
    BY <1>1, <1>2, SizeAssumption DEF Init
  <2>2. /\ txeie \in BOOLEAN /\ primask \in BOOLEAN /\ stopped \in BOOLEAN
        /\ dr \in Byte \cup {NoByte}
    BY DEF Init
  <2> QED BY <1>3, <2>1, <2>2 DEF TypeOK
<1>5. \A k \in Client : at[k] \notin OfWrite
  BY DEF Init, OfWrite, InWrite
<1> QED
  BY <1>4, <1>5 DEF TypeInv

(* A step that moves one client and leaves the locals alone. *)
LEMMA MoveType ==
  ASSUME TypeInv, NEW k \in Client, NEW p \in Place, Move(k, p), UNCHANGED loc,
         p \in OfWrite => at[k] \in OfWrite
  PROVE  /\ at' \in [Client -> Place]
         /\ \A j \in Client : at'[j] \in OfWrite => loc'[j].c \in Byte
  BY DEF TypeInv, TypeOK, Move

LEMMA CallType ==
  ASSUME TypeInv, NEW k \in Client, Call(k) PROVE TypeInv'
<1> USE DEF ring
<1>1. CASE \E c \in Byte : WriteCall(k, c)
  <2>1. PICK c \in Byte : WriteCall(k, c)
    BY <1>1
  <2>2. "test" \in Place /\ After(head) \in Index
    BY AfterIs DEF Place, InWrite, TypeInv, TypeOK
  <2> QED BY <2>1, <2>2 DEF WriteCall, Move, TypeInv, TypeOK
<1>2. CASE FlushCall(k)
  <2>1. "flush" \in Place /\ "flush" \notin OfWrite
    BY DEF Place, InFlush, OfWrite, InWrite
  <2> QED BY <1>2, <2>1, MoveType DEF FlushCall, TypeInv, TypeOK
<1>3. CASE AvailCall(k)
  <2>1. "avail" \in Place /\ "avail" \notin OfWrite
    BY DEF Place, OfWrite, InWrite
  <2> QED BY <1>3, <2>1 DEF AvailCall, Move, TypeInv, TypeOK
<1> QED
  BY <1>1, <1>2, <1>3 DEF Call

LEMMA TxOneType ==
  ASSUME TypeInv, NEW k \in Client, TxOne(k) PROVE TypeInv'
<1> USE DEF ring
<1> DEFINE Kin(from, to) == to \in Place /\ (to \in OfWrite => from \in OfWrite)
<1>1. ASSUME NEW from, NEW more, NEW back, TxTest(k, from, more, back),
             Kin(from, more), Kin(from, back)
      PROVE  TypeInv'
  BY <1>1, MoveType DEF TxTest, At, TypeInv, TypeOK
<1>2. ASSUME NEW from, NEW to, TxRead(k, from, to), Kin(from, to) PROVE TypeInv'
  BY <1>2 DEF TxRead, At, Move, TypeInv, TypeOK
<1>3. ASSUME NEW from, NEW to, TxTail(k, from, to), Kin(from, to) PROVE TypeInv'
  BY <1>3, MoveType, AfterIs DEF TxTail, At, TypeInv, TypeOK
<1>4. ASSUME NEW from, NEW to, TxDr(k, from, to), Kin(from, to) PROVE TypeInv'
  BY <1>4, MoveType DEF TxDr, At, TypeInv, TypeOK
<1>5. /\ Kin("wTest", "wRead") /\ Kin("wTest", "on") /\ Kin("fTest", "fRead")
      /\ Kin("fTest", "flush") /\ Kin("wRead", "wTail") /\ Kin("fRead", "fTail")
      /\ Kin("wTail", "wDr") /\ Kin("fTail", "fDr") /\ Kin("wDr", "on")
      /\ Kin("fDr", "flush")
  BY DEF Place, InWrite, InFlush, InTxOne, OfWrite
<1> QED
  BY <1>1, <1>2, <1>3, <1>4, <1>5 DEF TxOne

LEMMA CallStepType ==
  ASSUME TypeInv, NEW k \in Client, CallStep(k) PROVE TypeInv'
<1> USE DEF ring, At
<1>1. /\ InWrite \subseteq Place /\ InWrite \subseteq OfWrite
      /\ {"flush", "flushTest", "flushWait", "fTest", "wTest", "idle"} \subseteq Place
      /\ {"flush", "flushTest", "flushWait", "fTest", "idle"} \cap OfWrite = {}
      /\ "wTest" \in OfWrite
  BY DEF Place, InWrite, InFlush, InTxOne, OfWrite
<1>2. {"test", "off", "wait", "on", "store", "head", "enable"} \subseteq InWrite
  BY DEF InWrite
<1>3. CASE WriteTest(k)
  BY <1>1, <1>2, <1>3, MoveType DEF WriteTest, TypeInv, TypeOK
<1>4. CASE WriteOff(k)
  BY <1>1, <1>2, <1>4, MoveType DEF WriteOff, TypeInv, TypeOK
<1>5. CASE WaitTxe(k, "wait", "wTest") \/ WaitTxe(k, "flushWait", "fTest")
  BY <1>1, <1>2, <1>5, MoveType DEF WaitTxe, TypeInv, TypeOK
<1>6. CASE WriteOn(k)
  BY <1>1, <1>2, <1>6, MoveType DEF WriteOn, TypeInv, TypeOK
<1>7. CASE WriteStore(k)
  <2>1. loc[k].c \in Byte
    BY <1>1, <1>2, <1>7 DEF WriteStore, TypeInv
  <2> QED BY <1>1, <1>2, <1>7, <2>1, MoveType DEF WriteStore, TypeInv, TypeOK
<1>8. CASE WriteHead(k)
  BY <1>1, <1>2, <1>8, MoveType, SizeAssumption DEF WriteHead, TypeInv, TypeOK
<1>9. CASE WriteEnable(k)
  BY <1>1, <1>2, <1>9, MoveType DEF WriteEnable, TypeInv, TypeOK
<1>10. CASE FlushLoop(k)
  BY <1>1, <1>10, MoveType DEF FlushLoop, TypeInv, TypeOK
<1>11. CASE FlushTest(k)
  BY <1>1, <1>11, MoveType DEF FlushTest, TypeInv, TypeOK
<1>12. CASE Avail(k)
  <2>1. Room(loc[k].i, tail) \in 0..Size - 1
    BY RoomRange DEF TypeInv, TypeOK
  <2> QED BY <1>1, <1>12, <2>1, MoveType DEF Avail, TypeInv, TypeOK
<1> QED
  BY <1>3, <1>4, <1>5, <1>6, <1>7, <1>8, <1>9, <1>10, <1>11, <1>12, TxOneType
  DEF CallStep

LEMMA TypeStep == TypeInv /\ [Next]_vars => TypeInv'
<1> SUFFICES ASSUME TypeInv, [Next]_vars PROVE TypeInv'
  OBVIOUS
<1>1. CASE UNCHANGED vars
  BY <1>1 DEF vars, TypeInv, TypeOK
<1>2. ASSUME NEW m \in BOOLEAN, SetPrimask(m) \/ Interrupt(m) PROVE TypeInv'
  BY <1>2 DEF SetPrimask, Interrupt, ring, TypeInv, TypeOK
<1>3. CASE Shift
  BY <1>3, NoByteAssumption DEF Shift, ring, TypeInv, TypeOK
<1>4. CASE USART_IRQHandler
  <2>1. UNCHANGED <<head, buf, out, primask, stopped, at, loc, room>>
    BY <1>4 DEF USART_IRQHandler
  <2>2. tail' \in Index /\ dr' \in Byte \cup {NoByte} /\ txeie' \in BOOLEAN
    <3>1. CASE head = tail
      BY <3>1, <1>4 DEF USART_IRQHandler, TypeInv, TypeOK
    <3>2. CASE head # tail
      <4>1. dr' = buf[tail] /\ tail' = After(tail) /\ txeie' = txeie
        BY <3>2, <1>4 DEF USART_IRQHandler
      <4> QED BY <4>1, AfterIs DEF TypeInv, TypeOK
    <3> QED BY <3>1, <3>2
  <2> QED
    BY <2>1, <2>2 DEF TypeInv, TypeOK
<1> QED
  BY <1>1, <1>2, <1>3, <1>4, CallType, CallStepType DEF Next

(* Indices stay inside the ring, whoever writes and flushes and however the   *)
(* handlers preempt them, and only bytes are stored and sent.               *)
THEOREM TypeCorrect == Spec => []TypeOK
<1>1. TypeInv => TypeOK
  BY DEF TypeInv
<1> QED
  BY <1>1, TypeInit, TypeStep, PTL DEF Spec

-----------------------------------------------------------------------------
(* The main program alone: where it stands, and its locals. *)
P == at["main"]
L == loc["main"]

(* While main sends by hand the handler does not run, and main has found the *)
(* data register empty and the ring not.                                    *)
ByMain   == {"wait", "wTest", "wRead", "wTail", "wDr", "on"}
Draining == {"flushWait", "fTest", "fRead", "fTail", "fDr"}
Alone ==
  /\ P \in ByMain => ~txeie
  /\ P \in Draining => primask \/ ~txeie
  /\ P \in InTxOne => dr = NoByte
  /\ P \in {"wRead", "wTail", "fRead", "fTail"} => head # tail
  /\ P \in {"wTail", "fTail"} => L.ch = buf[tail]
  /\ P \in {"wDr", "fDr"} => L.ch \in Byte

(* The locals of write: the byte, and the place behind the present head.    *)
Writing ==
  /\ P \in ByMain \cup {"test", "off", "store", "head"} =>
       L.c \in Byte /\ L.i = After(head)
  /\ P \in {"store", "head"} => L.i # tail
  /\ P = "head" => buf[head] = L.c

(* The transmit interrupt is on when bytes wait, but in the steps between a  *)
(* disable and the enable that follows it.                                  *)
Enabled ==
  head # tail /\ P \notin ByMain \cup {"enable"} => txeie \/ stopped

Promised ==
  /\ room <= Room(head, tail)
  /\ P = "avail" => L.i = head
  /\ P = "off" => room = 0

IInv == TypeInv /\ Alone /\ Writing /\ Enabled /\ Promised

LEMMA Solo ==
  ASSUME ~HasIsr
  PROVE  Client = {"main"} /\ Runs("main") /\ \A k \in Client : k = "main"
  BY DEF Client, Runs

LEMMA Moved ==
  ASSUME ~HasIsr, TypeInv, NEW p, Move("main", p) PROVE P' = p
  BY Solo DEF TypeInv, TypeOK, Move, P

(* What a step of head or tail does to the room. *)
LEMMA RoomIs ==
  ASSUME NEW h \in Index, NEW t \in Index
  PROVE  /\ Room(h, t) = 0 <=> After(h) = t
         /\ h # t => Room(h, After(t)) = Room(h, t) + 1
         /\ After(h) # t => Room(After(h), t) = Room(h, t) - 1
         /\ Room(h, t) \in Nat
         /\ After(h) # h
<1>1. /\ After(h) = IF h = Size - 1 THEN 0 ELSE h + 1
      /\ After(t) = IF t = Size - 1 THEN 0 ELSE t + 1
  BY AfterIs
<1> QED
  BY <1>1, SizeAssumption DEF Room, Index

(* Two places with the same next place are the same. *)
LEMMA AfterOnce ==
  ASSUME NEW h \in Index, NEW t \in Index, After(h) = After(t) PROVE h = t
  BY AfterIs, SizeAssumption DEF Index

LEMMA InvInit == Init /\ ~HasIsr => IInv
<1> SUFFICES ASSUME Init, ~HasIsr PROVE IInv
  OBVIOUS
<1>1. P = "idle"
  BY Solo DEF Init, P
<1>2. Room(head, tail) \in Nat
  BY SizeAssumption, RoomIs DEF Init, Index
<1> QED
  BY <1>1, <1>2, TypeInit
  DEF Init, IInv, Alone, Writing, Enabled, Promised, ByMain, Draining, InTxOne

Inv == Alone /\ Writing /\ Enabled /\ Promised

LEMMA CallInv ==
  ASSUME ~HasIsr, IInv, Call("main") PROVE Inv'
<1> USE DEF ring, At
<1>1. CASE \E c \in Byte : WriteCall("main", c)
  <2>1. PICK c \in Byte : WriteCall("main", c)
    BY <1>1
  <2>2. P = "idle" /\ P' = "test" /\ L'.c = c /\ L'.i = After(head)
    BY <2>1, Moved, Solo DEF WriteCall, IInv, TypeInv, TypeOK, P, L
  <2> QED
    BY <2>1, <2>2
    DEF WriteCall, IInv, Inv, Alone, Writing, Enabled, Promised, ByMain, Draining, InTxOne
<1>2. CASE FlushCall("main")
  <2>1. P = "idle" /\ P' = "flush" /\ UNCHANGED L
    BY <1>2, Moved DEF FlushCall, IInv, P, L
  <2> QED
    BY <1>2, <2>1
    DEF FlushCall, IInv, Inv, Alone, Writing, Enabled, Promised, ByMain, Draining, InTxOne
<1>3. CASE AvailCall("main")
  <2>1. P = "idle" /\ P' = "avail" /\ L'.i = head
    BY <1>3, Moved, Solo DEF AvailCall, IInv, TypeInv, TypeOK, P, L
  <2> QED
    BY <1>3, <2>1
    DEF AvailCall, IInv, Inv, Alone, Writing, Enabled, Promised, ByMain, Draining, InTxOne
<1> QED
  BY <1>1, <1>2, <1>3 DEF Call

(* tx_bufferx_one, called by write and by flush. *)
LEMMA TxOneInv ==
  ASSUME ~HasIsr, IInv, TxOne("main") PROVE Inv'
<1> USE DEF ring, At
<1>1. ASSUME NEW from, NEW more, NEW back, TxTest("main", from, more, back),
             <<from, more, back>> \in {<<"wTest", "wRead", "on">>, <<"fTest", "fRead", "flush">>}
      PROVE  Inv'
  <2>1. P = from /\ P' = (IF head = tail THEN back ELSE more) /\ UNCHANGED L
    BY <1>1, Moved DEF TxTest, IInv, P, L
  <2> QED
    BY <1>1, <2>1
    DEF TxTest, IInv, Inv, Alone, Writing, Enabled, Promised, ByMain, Draining, InTxOne
<1>2. ASSUME NEW from, NEW to, TxRead("main", from, to),
             <<from, to>> \in {<<"wRead", "wTail">>, <<"fRead", "fTail">>}
      PROVE  Inv'
  <2>1. P = from /\ P' = to /\ L' = [L EXCEPT !.ch = buf[tail]] /\ L'.ch = buf[tail]
        /\ L'.c = L.c /\ L'.i = L.i
    BY <1>2, Moved, Solo DEF TxRead, IInv, TypeInv, TypeOK, P, L
  <2> QED
    BY <1>2, <2>1
    DEF TxRead, IInv, Inv, Alone, Writing, Enabled, Promised, ByMain, Draining, InTxOne
<1>3. ASSUME NEW from, NEW to, TxTail("main", from, to),
             <<from, to>> \in {<<"wTail", "wDr">>, <<"fTail", "fDr">>}
      PROVE  Inv'
  <2>1. P = from /\ P' = to /\ UNCHANGED L /\ tail' = After(tail)
    BY <1>3, Moved DEF TxTail, IInv, P, L
  <2>2. head # tail /\ L.ch \in Byte
    BY <1>3, <2>1 DEF IInv, Alone, TypeInv, TypeOK
  <2>3. /\ Room(head, After(tail)) = Room(head, tail) + 1 /\ Room(head, tail) \in Nat
        /\ room \in Nat
    BY <2>2, RoomIs DEF IInv, TypeInv, TypeOK
  <2> QED
    BY <1>3, <2>1, <2>2, <2>3
    DEF TxTail, IInv, Inv, Alone, Writing, Enabled, Promised, ByMain, Draining, InTxOne
<1>4. ASSUME NEW from, NEW to, TxDr("main", from, to),
             <<from, to>> \in {<<"wDr", "on">>, <<"fDr", "flush">>}
      PROVE  Inv'
  <2>1. P = from /\ P' = to /\ UNCHANGED L
    BY <1>4, Moved DEF TxDr, IInv, P, L
  <2> QED
    BY <1>4, <2>1
    DEF TxDr, IInv, Inv, Alone, Writing, Enabled, Promised, ByMain, Draining, InTxOne
<1> QED
  BY <1>1, <1>2, <1>3, <1>4 DEF TxOne

LEMMA CallStepInv ==
  ASSUME ~HasIsr, IInv, CallStep("main") PROVE Inv'
<1> USE DEF ring, At
<1> USE DEF IInv, Inv, Alone, Writing, Enabled, Promised, ByMain, Draining, InTxOne
<1>1. CASE WriteTest("main")
  <2>1. P = "test" /\ P' = (IF L.i = tail THEN "off" ELSE "store") /\ UNCHANGED L
    BY <1>1, Moved DEF WriteTest, P, L
  <2>2. L.i = tail => room = 0
    BY <2>1, RoomIs DEF TypeInv, TypeOK
  <2> QED
    BY <1>1, <2>1, <2>2 DEF WriteTest
<1>2. CASE WriteOff("main")
  <2>1. P = "off" /\ P' = "wait" /\ UNCHANGED L
    BY <1>2, Moved DEF WriteOff, P, L
  <2> QED
    BY <1>2, <2>1 DEF WriteOff
<1>3. ASSUME NEW from, NEW to, WaitTxe("main", from, to),
             <<from, to>> \in {<<"wait", "wTest">>, <<"flushWait", "fTest">>}
      PROVE  Inv'
  <2>1. P = from /\ P' = to /\ UNCHANGED L
    BY <1>3, Moved DEF WaitTxe, P, L
  <2> QED
    BY <1>3, <2>1 DEF WaitTxe
<1>4. CASE WriteOn("main")
  <2>1. P = "on" /\ P' = "test" /\ UNCHANGED L
    BY <1>4, Moved DEF WriteOn, P, L
  <2> QED
    BY <1>4, <2>1 DEF WriteOn
<1>5. CASE WriteStore("main")
  <2>1. P = "store" /\ P' = "head" /\ UNCHANGED L /\ buf' = [buf EXCEPT ![head] = L.c]
    BY <1>5, Moved DEF WriteStore, P, L
  <2>2. buf'[head] = L.c
    BY <2>1 DEF TypeInv, TypeOK
  <2> QED
    BY <1>5, <2>1, <2>2 DEF WriteStore
<1>6. CASE WriteHead("main")
  <2>1. P = "head" /\ P' = "enable" /\ UNCHANGED L /\ head' = L.i /\ head' = After(head)
    BY <1>6, Moved DEF WriteHead, P, L
  <2>2. Room(After(head), tail) = Room(head, tail) - 1 /\ Room(head, tail) \in Nat
        /\ room \in Nat /\ Room(After(head), tail) \in Nat
    BY <2>1, RoomIs, AfterIs DEF TypeInv, TypeOK
  <2> QED
    BY <1>6, <2>1, <2>2 DEF WriteHead
<1>7. CASE WriteEnable("main")
  <2>1. P = "enable" /\ P' = "idle" /\ UNCHANGED L
    BY <1>7, Moved DEF WriteEnable, P, L
  <2> QED
    BY <1>7, <2>1 DEF WriteEnable
<1>8. CASE FlushLoop("main")
  <2>1. P = "flush" /\ P' = (IF head = tail THEN "idle" ELSE "flushTest") /\ UNCHANGED L
    BY <1>8, Moved DEF FlushLoop, P, L
  <2> QED
    BY <1>8, <2>1 DEF FlushLoop
<1>9. CASE FlushTest("main")
  <2>1. /\ P = "flushTest" /\ UNCHANGED L
        /\ P' = (IF ByHand("main") THEN "flushWait" ELSE "flush")
    BY <1>9, Moved DEF FlushTest, P, L
  <2>2. ByHand("main") => primask \/ ~txeie
    BY DEF ByHand
  <2> QED
    BY <1>9, <2>1, <2>2 DEF FlushTest
<1>10. CASE Avail("main")
  <2>1. P = "avail" /\ P' = "idle" /\ UNCHANGED L /\ room' = Room(head, tail)
    BY <1>10, Moved DEF Avail, P, L
  <2>2. Room(head, tail) \in Nat
    BY RoomIs DEF TypeInv, TypeOK
  <2> QED
    BY <1>10, <2>1, <2>2 DEF Avail
<1> HIDE DEF IInv, Inv, Alone, Writing, Enabled, Promised, ByMain, Draining, InTxOne
<1> QED
  BY <1>1, <1>2, <1>3, <1>4, <1>5, <1>6, <1>7, <1>8, <1>9, <1>10, TxOneInv
  DEF CallStep

LEMMA OtherInv ==
  ASSUME ~HasIsr, IInv,
         \/ Shift \/ USART_IRQHandler
         \/ \E m \in BOOLEAN : SetPrimask(m) \/ Interrupt(m)
  PROVE  Inv'
<1> USE DEF ring, At
<1> USE DEF IInv, Inv, Alone, Writing, Enabled, Promised, ByMain, Draining, InTxOne
<1>1. CASE Shift
  <2>1. UNCHANGED <<P, L>> /\ dr # NoByte /\ dr' = NoByte
    BY <1>1 DEF Shift, P, L
  <2> QED
    BY <1>1, <2>1 DEF Shift
<1>2. CASE USART_IRQHandler
  <2>1. /\ UNCHANGED <<P, L, head, buf, primask, stopped, room>>
        /\ txeie /\ dr = NoByte /\ ~primask
    BY <1>2 DEF USART_IRQHandler, P, L
  <2>2. P \notin ByMain /\ P \notin Draining /\ P \notin InTxOne
    BY <2>1
  <2>3. CASE head = tail
    BY <1>2, <2>1, <2>2, <2>3 DEF USART_IRQHandler
  <2>4. CASE head # tail
    <3>1. tail' = After(tail) /\ UNCHANGED txeie
      BY <1>2, <2>4 DEF USART_IRQHandler
    <3>2. /\ Room(head, After(tail)) = Room(head, tail) + 1 /\ Room(head, tail) \in Nat
          /\ room \in Nat
      BY <2>4, RoomIs DEF TypeInv, TypeOK
    <3>3. After(head) # After(tail)
      BY <2>4, AfterOnce DEF TypeInv, TypeOK
    <3> QED
      BY <2>1, <2>2, <3>1, <3>2, <3>3
  <2> QED
    BY <2>3, <2>4
<1>3. ASSUME NEW m \in BOOLEAN, SetPrimask(m) PROVE Inv'
  <2>1. P = "idle" /\ UNCHANGED <<P, L>>
    BY <1>3 DEF SetPrimask, P, L
  <2> QED
    BY <1>3, <2>1 DEF SetPrimask
<1>4. ASSUME NEW m \in BOOLEAN, Interrupt(m) PROVE Inv'
  <2>1. P = "idle" /\ UNCHANGED <<P, L>>
    BY <1>4 DEF Interrupt, P, L
  <2> QED
    BY <1>4, <2>1 DEF Interrupt
<1> HIDE DEF IInv, Inv, Alone, Writing, Enabled, Promised, ByMain, Draining, InTxOne
<1> QED
  BY <1>1, <1>2, <1>3, <1>4

LEMMA InvStep == ~HasIsr /\ IInv /\ [Next]_vars => IInv'
<1> SUFFICES ASSUME ~HasIsr, IInv, [Next]_vars PROVE IInv'
  OBVIOUS
<1>1. TypeInv'
  BY TypeStep DEF IInv
<1>2. Inv'
  <2>1. CASE UNCHANGED vars
    BY <2>1
    DEF vars, IInv, Inv, Alone, Writing, Enabled, Promised, P, L, ByMain, Draining, InTxOne
  <2>2. CASE Next
    BY <2>2, Solo, CallInv, CallStepInv, OtherInv DEF Next
  <2> QED
    BY <2>1, <2>2
<1> QED
  BY <1>1, <1>2 DEF IInv, Inv

LEMMA Invariance == ASSUME ~HasIsr PROVE Spec => []IInv
<1>1. Init => IInv
  BY InvInit
<1>2. IInv /\ [Next]_vars => IInv'
  BY InvStep
<1> QED
  BY <1>1, <1>2, PTL DEF Spec

(* With the main program as the only client, no byte waits in the ring with   *)
(* the transmit interrupt off, for every size of the ring, with interrupts   *)
(* masked or not.                                                           *)
THEOREM NoByteStuck == ASSUME ~HasIsr PROVE Spec => []NeverStuck
<1>1. IInv => NeverStuck
  BY DEF IInv, Enabled, NeverStuck, P, ByMain
<1> QED
  BY <1>1, Invariance, PTL

(* It never polls within what availableForWrite has granted.                *)
THEOREM RoomKept == ASSUME ~HasIsr PROVE Spec => []RoomIsKept
<1>1. IInv => RoomIsKept
  BY DEF IInv, Promised, RoomIsKept, P
<1> QED
  BY <1>1, Invariance, PTL

-----------------------------------------------------------------------------
(* The bytes of a ring b from t to h. *)
Number(h, t)   == IF h >= t THEN h - t ELSE h - t + Size
Cells(b, h, t) == [n \in 1 .. (h - t) % Size |-> b[(t + n - 1) % Size]]

LEMMA NumberIs ==
  ASSUME NEW h \in Index, NEW t \in Index
  PROVE  (h - t) % Size = Number(h, t) /\ Number(h, t) \in 0..Size - 1
<1>1. CASE h >= t
  <2>1. h - t = 0 * Size + (h - t) /\ h - t \in 0..Size - 1 /\ h - t \in Int
    BY <1>1, SizeAssumption DEF Index
  <2> QED BY <2>1, <1>1, SizeAssumption, Remainder DEF Number
<1>2. CASE h < t
  <2>1. /\ h - t = -1 * Size + (h - t + Size) /\ h - t + Size \in 0..Size - 1
        /\ h - t \in Int /\ -1 \in {-1, 0, 1}
    BY <1>2, SizeAssumption DEF Index
  <2>2. (h - t) % Size = h - t + Size
    BY <2>1, SizeAssumption, Remainder
  <2>3. Number(h, t) = h - t + Size
    BY <1>2, SizeAssumption DEF Number, Index
  <2> QED BY <2>1, <2>2, <2>3
<1> QED
  BY <1>1, <1>2 DEF Index

LEMMA PlaceOf ==
  ASSUME NEW t \in Index, NEW n \in 1..Size
  PROVE  /\ (t + n - 1) % Size = IF t + n - 1 < Size THEN t + n - 1 ELSE t + n - 1 - Size
         /\ (t + n - 1) % Size \in Index
<1>1. CASE t + n - 1 < Size
  <2>1. /\ t + n - 1 = 0 * Size + (t + n - 1) /\ t + n - 1 \in 0..Size - 1
        /\ t + n - 1 \in Int
    BY <1>1, SizeAssumption DEF Index
  <2>2. (t + n - 1) % Size = t + n - 1
    BY <2>1, SizeAssumption, Remainder
  <2> QED BY <2>1, <2>2, <1>1 DEF Index
<1>2. CASE t + n - 1 >= Size
  <2>1. /\ t + n - 1 = 1 * Size + (t + n - 1 - Size) /\ t + n - 1 - Size \in 0..Size - 1
        /\ t + n - 1 \in Int
    BY <1>2, SizeAssumption DEF Index
  <2>2. (t + n - 1) % Size = t + n - 1 - Size
    BY <2>1, SizeAssumption, Remainder
  <2> QED BY <2>1, <2>2, <1>2, SizeAssumption DEF Index
<1> QED
  BY <1>1, <1>2, SizeAssumption DEF Index

LEMMA CellsAre ==
  ASSUME NEW h \in Index, NEW t \in Index, NEW b \in [Index -> Byte]
  PROVE  /\ Cells(b, h, t) \in Seq(Byte)
         /\ Len(Cells(b, h, t)) = Number(h, t)
         /\ Number(h, t) \in 0..Size - 1
         /\ \A n \in 1..Number(h, t) : Cells(b, h, t)[n] = b[(t + n - 1) % Size]
<1>1. Number(h, t) \in 0..Size - 1 /\ (h - t) % Size = Number(h, t)
  BY NumberIs
<1>2. \A n \in 1..Number(h, t) : b[(t + n - 1) % Size] \in Byte
  BY <1>1, PlaceOf, SizeAssumption
<1>3. Cells(b, h, t) = [n \in 1..Number(h, t) |-> b[(t + n - 1) % Size]]
  BY <1>1 DEF Cells
<1> QED
  BY <1>1, <1>2, <1>3

LEMMA CellsGet ==
  ASSUME NEW h \in Index, NEW t \in Index, NEW b \in [Index -> Byte], h # t
  PROVE  Cells(b, h, t) = <<b[t]>> \o Cells(b, h, After(t))
<1> DEFINE q == Cells(b, h, t)
           r == Cells(b, h, After(t))
<1>1. After(t) = (IF t = Size - 1 THEN 0 ELSE t + 1) /\ After(t) \in Index
  BY AfterIs
<1>2. Number(h, t) = 1 + Number(h, After(t))
  BY <1>1, SizeAssumption DEF Number, Index
<1>3. /\ q \in Seq(Byte) /\ Len(q) = Number(h, t) /\ Number(h, t) \in 0..Size - 1
      /\ r \in Seq(Byte) /\ Len(r) = Number(h, After(t))
      /\ Number(h, After(t)) \in 0..Size - 1
      /\ \A n \in 1..Number(h, t) : q[n] = b[(t + n - 1) % Size]
      /\ \A n \in 1..Number(h, After(t)) : r[n] = b[(After(t) + n - 1) % Size]
  BY <1>1, CellsAre
<1> HIDE DEF q, r
<1>4. <<b[t]>> \in Seq(Byte) /\ Len(<<b[t]>>) = 1 /\ <<b[t]>>[1] = b[t]
  OBVIOUS
<1>5. /\ <<b[t]>> \o r \in Seq(Byte) /\ Len(<<b[t]>> \o r) = 1 + Len(r)
      /\ \A n \in 1..1 + Len(r) :
           (<<b[t]>> \o r)[n] = IF n <= 1 THEN <<b[t]>>[n] ELSE r[n - 1]
  BY <1>3, <1>4, ConcatProperties
<1>6. ASSUME NEW n \in 1..Len(q) PROVE q[n] = (<<b[t]>> \o r)[n]
  <2>1. n \in 1..Size /\ n \in Nat /\ Size \in Nat
    BY <1>3, SizeAssumption
  <2>2. CASE n = 1
    <3>1. (t + n - 1) % Size = t
      <4>1. t + n - 1 = t /\ t < Size
        BY <2>2, SizeAssumption DEF Index
      <4> QED BY <4>1, <2>1, PlaceOf
    <3> QED BY <3>1, <2>2, <1>2, <1>3, <1>4, <1>5
  <2>3. CASE n > 1
    <3>1. n - 1 \in 1..Number(h, After(t)) /\ n - 1 \in 1..Size
      BY <2>1, <2>3, <1>2, <1>3
    <3>2. (t + n - 1) % Size = IF t + n - 1 < Size THEN t + n - 1 ELSE t + n - 1 - Size
      BY <2>1, PlaceOf
    <3>3. (After(t) + (n - 1) - 1) % Size =
            IF After(t) + (n - 1) - 1 < Size THEN After(t) + (n - 1) - 1
                                            ELSE After(t) + (n - 1) - 1 - Size
      BY <3>1, <1>1, PlaceOf
    <3>4. (t + n - 1) % Size = (After(t) + (n - 1) - 1) % Size
      BY <3>2, <3>3, <1>1, <2>1, <2>3 DEF Index
    <3>5. r[n - 1] = b[(After(t) + (n - 1) - 1) % Size]
      BY <3>1, <1>3
    <3>6. q[n] = b[(t + n - 1) % Size]
      BY <1>3
    <3>7. (<<b[t]>> \o r)[n] = r[n - 1]
      BY <2>1, <2>3, <3>1, <1>2, <1>3, <1>5
    <3> QED BY <3>4, <3>5, <3>6, <3>7
  <2>4. n = 1 \/ n > 1
    BY <2>1
  <2> QED BY <2>2, <2>3, <2>4
<1>7. q = <<b[t]>> \o r
  BY <1>2, <1>3, <1>5, <1>6, SeqEqual
<1> QED
  BY <1>7 DEF q, r

LEMMA CellsPut ==
  ASSUME NEW h \in Index, NEW t \in Index, NEW b \in [Index -> Byte], After(h) # t
  PROVE  Cells(b, After(h), t) = Append(Cells(b, h, t), b[h])
<1> DEFINE q == Cells(b, h, t)
           r == Cells(b, After(h), t)
<1>1. After(h) = (IF h = Size - 1 THEN 0 ELSE h + 1) /\ After(h) \in Index
  BY AfterIs
<1>2. Number(After(h), t) = 1 + Number(h, t)
  BY <1>1, SizeAssumption DEF Number, Index
<1>3. /\ q \in Seq(Byte) /\ Len(q) = Number(h, t) /\ Number(h, t) \in 0..Size - 1
      /\ r \in Seq(Byte) /\ Len(r) = Number(After(h), t)
      /\ Number(After(h), t) \in 0..Size - 1
      /\ \A n \in 1..Number(h, t) : q[n] = b[(t + n - 1) % Size]
      /\ \A n \in 1..Number(After(h), t) : r[n] = b[(t + n - 1) % Size]
  BY <1>1, CellsAre
<1>4. b[h] \in Byte
  OBVIOUS
<1> HIDE DEF q, r
<1>5. /\ Append(q, b[h]) \in Seq(Byte) /\ Len(Append(q, b[h])) = Len(q) + 1
      /\ \A n \in 1..Len(q) : Append(q, b[h])[n] = q[n]
      /\ Append(q, b[h])[Len(q) + 1] = b[h]
  <2>1. q \in Seq(Byte)
    BY <1>3
  <2> DEFINE e == b[h]
  <2>2. e \in Byte
    BY <1>4
  <2> HIDE DEF e
  <2>3. /\ Append(q, e) \in Seq(Byte) /\ Len(Append(q, e)) = Len(q) + 1
        /\ \A n \in 1..Len(q) : Append(q, e)[n] = q[n]
        /\ Append(q, e)[Len(q) + 1] = e
    BY <2>1, <2>2, AppendProperties
  <2> QED BY <2>3 DEF e
<1>6. ASSUME NEW n \in 1..Len(r) PROVE r[n] = Append(q, b[h])[n]
  <2>1. n \in Nat /\ n \in 1..Len(q) + 1 /\ Len(q) \in Nat
    BY <1>2, <1>3
  <2>2. CASE n <= Len(q)
    BY <2>1, <2>2, <1>3, <1>5
  <2>3. CASE n = Len(q) + 1
    <3>1. n \in 1..Size
      BY <1>3, SizeAssumption
    <3>2. (t + n - 1) % Size = IF t + n - 1 < Size THEN t + n - 1 ELSE t + n - 1 - Size
      BY <3>1, PlaceOf
    <3>3. (t + n - 1) % Size = h
      BY <3>2, <2>3, <1>3, SizeAssumption DEF Number, Index
    <3>4. r[n] = b[(t + n - 1) % Size]
      BY <1>3
    <3> QED BY <3>3, <3>4, <2>3, <1>5
  <2> QED BY <2>1, <2>2, <2>3
<1>7. r = Append(q, b[h])
  BY <1>2, <1>3, <1>5, <1>6, SeqEqual
<1> QED
  BY <1>7 DEF q, r

(* The cell at head is not among them. *)
LEMMA CellsStore ==
  ASSUME NEW h \in Index, NEW t \in Index, NEW b \in [Index -> Byte], NEW c \in Byte
  PROVE  Cells([b EXCEPT ![h] = c], h, t) = Cells(b, h, t)
<1>1. Number(h, t) \in 0..Size - 1 /\ (h - t) % Size = Number(h, t)
  BY NumberIs
<1>2. ASSUME NEW n \in 1..Number(h, t)
      PROVE  /\ (t + n - 1) % Size # h /\ (t + n - 1) % Size \in Index
  <2>1. n \in 1..Size
    BY <1>1, SizeAssumption
  <2>2. /\ (t + n - 1) % Size = IF t + n - 1 < Size THEN t + n - 1 ELSE t + n - 1 - Size
        /\ (t + n - 1) % Size \in Index
    BY <2>1, PlaceOf
  <2> QED
    BY <2>2, <1>1, SizeAssumption DEF Number, Index
<1>3. \A n \in 1..Number(h, t) :
        [b EXCEPT ![h] = c][(t + n - 1) % Size] = b[(t + n - 1) % Size]
  BY <1>2
<1> QED
  BY <1>1, <1>3 DEF Cells

-----------------------------------------------------------------------------
(* UnderWay, in its three parts. *)
InDr == IF dr = NoByte THEN <<>> ELSE <<dr>>
Hand == InHand("main")

LEMMA Parts ==
  ASSUME ~HasIsr, IInv
  PROVE  /\ UnderWay = InDr \o Hand \o Content
         /\ InDr \in Seq(Byte) /\ Hand \in Seq(Byte) /\ Content \in Seq(Byte)
         /\ Len(InDr) <= 1 /\ Len(Content) = Number(head, tail)
         /\ Content = Cells(buf, head, tail)
         /\ head \in Index /\ tail \in Index /\ buf \in [Index -> Byte]
         /\ P \in Place /\ Hand = IF P \in {"wDr", "fDr"} THEN <<L.ch>> ELSE <<>>
<1>1. head \in Index /\ tail \in Index /\ buf \in [Index -> Byte] /\ P \in Place
  BY Solo DEF IInv, TypeInv, TypeOK, P
<1>2. Content = Cells(buf, head, tail)
  BY DEF Content, Count, Cells
<1>3. Hand = IF P \in {"wDr", "fDr"} THEN <<L.ch>> ELSE <<>>
  BY DEF Hand, InHand, P, L
<1>4. Hand \in Seq(Byte)
  BY <1>3 DEF IInv, Alone
<1>5. dr # NoByte => dr \in Byte
  BY DEF IInv, TypeInv, TypeOK
<1>6. InDr \in Seq(Byte) /\ Len(InDr) <= 1
  BY <1>5 DEF InDr
<1> QED
  BY <1>1, <1>2, <1>3, <1>4, <1>6, CellsAre DEF UnderWay, InDr, Hand

LEMMA QueueInit == Init => Queue!Init
<1> SUFFICES ASSUME Init PROVE Queue!Init
  OBVIOUS
<1>1. 0 \in Index /\ head = 0 /\ tail = 0
  BY SizeAssumption DEF Init, Index
<1>2. Number(0, 0) = 0
  BY DEF Number
<1>3. Count = 0
  BY <1>1, <1>2, NumberIs DEF Count
<1>4. Content = <<>>
  BY <1>3 DEF Content
<1>5. InHand("main") = <<>> /\ dr = NoByte
  BY DEF Init, InHand, Client
<1>6. UnderWay = <<>>
  BY <1>4, <1>5 DEF UnderWay
<1>7. out \in Byte
  BY ByteAssumption DEF Init
<1> QED
  BY <1>6, <1>7 DEF Queue!Init

(* Steps of which the queue sees nothing. *)
LEMMA Stutters ==
  ASSUME UNCHANGED <<ring, dr, out, Hand>>
  PROVE  UNCHANGED <<UnderWay, out>>
  BY DEF UnderWay, Content, Count, Hand, ring

LEMMA HandStays ==
  ASSUME P \notin {"wDr", "fDr"}, P' \notin {"wDr", "fDr"} PROVE UNCHANGED Hand
  BY DEF Hand, InHand, P

(* The head of the ring moves on: the byte is accepted. *)
LEMMA HeadPuts ==
  ASSUME ~HasIsr, IInv, IInv', WriteHead("main") PROVE Queue!Next
<1>1. /\ P = "head" /\ P' = "enable" /\ head' = After(head) /\ buf[head] = L.c
      /\ L.c \in Byte /\ After(head) # tail /\ UNCHANGED <<tail, buf, dr, out>>
  <2>1. P = "head" /\ P' = "enable"
    BY Moved DEF WriteHead, At, P, IInv
  <2> QED
    BY <2>1 DEF WriteHead, At, P, L, IInv, Writing
<1>2. Hand = <<>> /\ Hand' = <<>> /\ InDr' = InDr
  BY <1>1 DEF Hand, InHand, P, InDr
<1>3. Content' = Append(Content, L.c)
  <2>1. /\ head \in Index /\ tail \in Index /\ buf \in [Index -> Byte]
        /\ Content = Cells(buf, head, tail)
    BY Parts
  <2>2. Content' = Cells(buf, After(head), tail)
    BY <1>1 DEF Content, Count, Cells
  <2> QED BY <2>1, <2>2, <1>1, CellsPut
<1>4. /\ InDr \in Seq(Byte) /\ Content \in Seq(Byte) /\ Len(InDr) \in Nat
      /\ Len(InDr) <= 1 /\ Len(Content) = Number(head, tail)
  BY Parts
<1>5. UnderWay = InDr \o Content /\ UnderWay' = InDr \o Append(Content, L.c)
  <2>1. UnderWay = InDr \o Hand \o Content /\ UnderWay' = InDr' \o Hand' \o Content'
    BY DEF UnderWay, InDr, Hand
  <2>2. InDr \o <<>> = InDr
    BY <1>4
  <2> QED BY <2>1, <2>2, <1>2, <1>3
<1>6. InDr \o Append(Content, L.c) = Append(InDr \o Content, L.c)
  <2> DEFINE c == L.c
             d == InDr
             q == Content
  <2>1. c \in Byte /\ d \in Seq(Byte) /\ q \in Seq(Byte)
    BY <1>1, <1>4
  <2> HIDE DEF c, d, q
  <2>2. d \o Append(q, c) = d \o (q \o <<c>>)
    BY <2>1, AppendIsConcat
  <2>3. d \o q \in Seq(Byte) /\ <<c>> \in Seq(Byte)
    BY <2>1, ConcatProperties
  <2>4. Append(d \o q, c) = (d \o q) \o <<c>>
    BY <2>1, <2>3, AppendIsConcat
  <2>5. (d \o q) \o <<c>> = d \o (q \o <<c>>)
    BY <2>1, <2>3, ConcatAssociative
  <2>6. d \o Append(q, c) = Append(d \o q, c)
    BY <2>2, <2>4, <2>5
  <2> QED BY <2>6 DEF c, d, q
<1>7. Len(UnderWay) < Size
  <2>1. Len(UnderWay) = Len(InDr) + Number(head, tail)
    BY <1>4, <1>5, ConcatProperties
  <2>2. Number(head, tail) <= Size - 2 /\ Number(head, tail) \in Nat
    <3>1. head \in Index /\ tail \in Index
      BY Parts
    <3> QED
      BY <3>1, <1>1, AfterIs, SizeAssumption DEF Number, Index
  <2> QED BY <2>1, <2>2, <1>4, SizeAssumption
<1>8. Queue!Put(L.c)
  BY <1>1, <1>5, <1>6, <1>7 DEF Queue!Put
<1> QED
  BY <1>1, <1>8 DEF Queue!Next

(* The data register empties: the byte is delivered. *)
LEMMA ShiftGets ==
  ASSUME ~HasIsr, IInv, IInv', Shift PROVE Queue!Next
<1>1. dr # NoByte /\ out' = dr /\ dr' = NoByte /\ UNCHANGED <<head, tail, buf, at, loc>>
  BY DEF Shift, ring
<1>2. InDr = <<dr>> /\ InDr' = <<>> /\ Hand' = Hand /\ Content' = Content
  BY <1>1 DEF InDr, Hand, InHand, Content, Count
<1> DEFINE q == Hand \o Content
<1>3. q \in Seq(Byte) /\ Hand \in Seq(Byte) /\ Content \in Seq(Byte) /\ dr \in Byte
  <2>1. Hand \in Seq(Byte) /\ Content \in Seq(Byte)
    BY Parts
  <2>2. dr \in Byte
    BY <1>1 DEF IInv, TypeInv, TypeOK
  <2> QED BY <2>1, <2>2, ConcatProperties
<1>4. UnderWay = <<dr>> \o q /\ UnderWay' = q
  <2>1. UnderWay = <<dr>> \o Hand \o Content /\ UnderWay' = <<>> \o Hand \o Content
    BY <1>2 DEF UnderWay, InDr, Hand
  <2>2. <<>> \o Hand = Hand /\ <<dr>> \in Seq(Byte)
    BY <1>3
  <2>3. <<dr>> \o Hand \o Content = <<dr>> \o (Hand \o Content)
    BY <2>2, <1>3, ConcatAssociative
  <2> QED BY <2>1, <2>2, <2>3
<1> HIDE DEF q
<1>5. <<dr>> \o q # <<>> /\ Head(<<dr>> \o q) = dr /\ Tail(<<dr>> \o q) = q
  BY <1>3
<1> QED
  BY <1>1, <1>4, <1>5 DEF Queue!Next, Queue!Get

(* A byte that goes from the ring into main's hands, or from there or from    *)
(* the ring into the data register, stays where it is in the queue.         *)
LEMMA TailStutters ==
  ASSUME ~HasIsr, IInv, IInv', TxTail("main", "wTail", "wDr") \/ TxTail("main", "fTail", "fDr")
  PROVE  UNCHANGED <<UnderWay, out>>
<1>1. /\ P \in {"wTail", "fTail"} /\ P' \in {"wDr", "fDr"} /\ UNCHANGED <<head, buf, dr, out, L>>
      /\ tail' = After(tail) /\ head # tail /\ L.ch = buf[tail]
  <2>1. P \in {"wTail", "fTail"} /\ P' \in {"wDr", "fDr"}
    BY Moved DEF TxTail, At, P, IInv
  <2>2. UNCHANGED <<head, buf, dr, out, L>> /\ tail' = After(tail)
    BY DEF TxTail, L
  <2> QED BY <2>1, <2>2 DEF IInv, Alone
<1>2. Hand = <<>> /\ Hand' = <<buf[tail]>> /\ InDr' = InDr
  BY <1>1 DEF Hand, InHand, P, L, InDr
<1>3. Content = <<buf[tail]>> \o Content'
  <2>1. /\ head \in Index /\ tail \in Index /\ buf \in [Index -> Byte]
        /\ Content = Cells(buf, head, tail)
    BY Parts
  <2>2. Content' = Cells(buf, head, After(tail))
    BY <1>1 DEF Content, Count, Cells
  <2> QED BY <2>1, <2>2, <1>1, CellsGet
<1>4. InDr \in Seq(Byte) /\ <<buf[tail]>> \in Seq(Byte) /\ Content' \in Seq(Byte)
  <2>1. InDr \in Seq(Byte) /\ tail \in Index /\ buf \in [Index -> Byte]
    BY Parts
  <2>2. Cells(buf, head, After(tail)) \in Seq(Byte) /\ Content' = Cells(buf, head, After(tail))
    BY <1>1, Parts, AfterIs, CellsAre DEF Content, Count, Cells
  <2> QED BY <2>1, <2>2
<1>5. /\ UnderWay = InDr \o <<>> \o (<<buf[tail]>> \o Content')
      /\ UnderWay' = InDr \o <<buf[tail]>> \o Content'
  BY <1>2, <1>3 DEF UnderWay, InDr, Hand
<1>6. InDr \o <<>> = InDr
  BY <1>4
<1>7. InDr \o <<buf[tail]>> \o Content' = InDr \o (<<buf[tail]>> \o Content')
  BY <1>4, ConcatAssociative
<1> QED
  BY <1>1, <1>5, <1>6, <1>7

LEMMA DrStutters ==
  ASSUME ~HasIsr, IInv, IInv', TxDr("main", "wDr", "on") \/ TxDr("main", "fDr", "flush")
  PROVE  UNCHANGED <<UnderWay, out>>
<1>1. /\ P \in {"wDr", "fDr"} /\ P' \notin {"wDr", "fDr"} /\ UNCHANGED <<head, tail, buf, out>>
      /\ dr' = L.ch /\ dr = NoByte /\ L.ch \in Byte
  <2>1. P \in {"wDr", "fDr"} /\ P' \in {"on", "flush"}
    BY Moved DEF TxDr, At, P, IInv
  <2>2. UNCHANGED <<head, tail, buf, out>> /\ dr' = L.ch
    BY DEF TxDr, L, ring
  <2>3. dr = NoByte /\ L.ch \in Byte
    BY <2>1 DEF IInv, Alone, InTxOne
  <2> QED BY <2>1, <2>2, <2>3
<1>2. InDr = <<>> /\ Hand = <<L.ch>> /\ InDr' = <<L.ch>> /\ Hand' = <<>>
  BY <1>1, NoByteAssumption DEF InDr, Hand, InHand, P, L
<1>3. Content' = Content
  BY <1>1 DEF Content, Count
<1>4. <<>> \o <<L.ch>> = <<L.ch>> /\ <<L.ch>> \o <<>> = <<L.ch>>
  <2>1. <<L.ch>> \in Seq(Byte)
    BY <1>1
  <2> QED BY <2>1, ConcatEmptySeq
<1> QED
  BY <1>1, <1>2, <1>3, <1>4 DEF UnderWay, InDr, Hand

LEMMA HandlerStutters ==
  ASSUME ~HasIsr, IInv, IInv', USART_IRQHandler PROVE UNCHANGED <<UnderWay, out>>
<1>1. txeie /\ dr = NoByte /\ ~primask /\ UNCHANGED <<head, buf, out, at, loc>>
  BY DEF USART_IRQHandler
<1>2. Hand = <<>> /\ Hand' = <<>> /\ InDr = <<>>
  BY <1>1 DEF IInv, Alone, ByMain, Draining, Hand, InHand, P, InDr
<1>3. CASE head = tail
  BY <1>1, <1>2, <1>3 DEF USART_IRQHandler, UnderWay, Content, Count, InDr, Hand
<1>4. CASE head # tail
  <2>1. dr' = buf[tail] /\ tail' = After(tail)
    BY <1>4 DEF USART_IRQHandler
  <2>2. /\ head \in Index /\ tail \in Index /\ buf \in [Index -> Byte]
        /\ Content = Cells(buf, head, tail)
    BY Parts
  <2>3. Content' = Cells(buf, head, After(tail))
    BY <1>1, <2>1 DEF Content, Count, Cells
  <2>4. Content = <<buf[tail]>> \o Content'
    BY <2>2, <2>3, <1>4, CellsGet
  <2>5. InDr' = <<buf[tail]>>
    <3>1. buf[tail] \in Byte
      BY <2>2
    <3> QED BY <3>1, <2>1, NoByteAssumption DEF InDr
  <2>6. /\ UnderWay = <<>> \o <<>> \o (<<buf[tail]>> \o Content')
        /\ UnderWay' = <<buf[tail]>> \o <<>> \o Content'
    BY <1>2, <2>4, <2>5 DEF UnderWay, InDr, Hand
  <2>7. <<buf[tail]>> \in Seq(Byte) /\ Content' \in Seq(Byte)
    BY <2>2, <2>3, AfterIs, CellsAre
  <2>8. <<>> \o <<>> = <<>> /\ <<buf[tail]>> \o <<>> = <<buf[tail]>>
        /\ <<>> \o (<<buf[tail]>> \o Content') = <<buf[tail]>> \o Content'
    <3>1. <<buf[tail]>> \o Content' \in Seq(Byte) /\ <<>> \in Seq(Byte)
      BY <2>7, ConcatProperties
    <3> QED BY <3>1, <2>7, ConcatEmptySeq
  <2> QED
    BY <1>1, <2>6, <2>8
<1> QED
  BY <1>3, <1>4

LEMMA StoreStutters ==
  ASSUME ~HasIsr, IInv, WriteStore("main") PROVE UNCHANGED <<UnderWay, out>>
<1>1. /\ P = "store" /\ P' = "head" /\ buf' = [buf EXCEPT ![head] = L.c] /\ L.c \in Byte
      /\ UNCHANGED <<head, tail, dr, out>>
  <2>1. P = "store" /\ P' = "head"
    BY Moved DEF WriteStore, At, P, IInv
  <2> QED BY <2>1 DEF WriteStore, L, IInv, Writing
<1>2. Content' = Content
  <2>1. /\ head \in Index /\ tail \in Index /\ buf \in [Index -> Byte]
        /\ Content = Cells(buf, head, tail)
    BY Parts
  <2>2. Content' = Cells([buf EXCEPT ![head] = L.c], head, tail)
    BY <1>1 DEF Content, Count, Cells
  <2> QED BY <2>1, <2>2, <1>1, CellsStore
<1>3. UNCHANGED <<InDr, Hand>>
  BY <1>1, HandStays DEF InDr
<1> QED
  BY <1>1, <1>2, <1>3 DEF UnderWay, InDr, Hand

LEMMA QueueStep ==
  ASSUME ~HasIsr, IInv, IInv', [Next]_vars
  PROVE  [Queue!Next]_<<UnderWay, out>>
<1> USE DEF At
<1>1. CASE UNCHANGED vars
  BY <1>1, Stutters DEF vars, ring, Hand, InHand
<1>2. CASE Call("main")
  <2>1. P = "idle" /\ P' \in {"test", "flush", "avail"} /\ UNCHANGED <<ring, dr, out>>
    BY <1>2, Moved DEF Call, WriteCall, FlushCall, AvailCall, IInv, P
  <2> QED
    BY <2>1, HandStays, Stutters
<1>3. CASE \E m \in BOOLEAN : SetPrimask(m) \/ Interrupt(m)
  <2>1. UNCHANGED <<ring, dr, out, at, loc>>
    BY <1>3 DEF SetPrimask, Interrupt
  <2> QED
    BY <2>1, Stutters DEF Hand, InHand
<1>4. CASE \/ WriteTest("main") \/ WriteOff("main") \/ WaitTxe("main", "wait", "wTest")
           \/ WriteOn("main") \/ WriteEnable("main") \/ FlushLoop("main")
           \/ FlushTest("main") \/ WaitTxe("main", "flushWait", "fTest") \/ Avail("main")
  <2>1. UNCHANGED <<ring, dr, out>>
    BY <1>4 DEF WriteTest, WriteOff, WaitTxe, WriteOn, WriteEnable, FlushLoop, FlushTest, Avail
  <2>2. P \notin {"wDr", "fDr"}
    BY <1>4
    DEF WriteTest, WriteOff, WaitTxe, WriteOn, WriteEnable, FlushLoop, FlushTest, Avail, P
  <2>3. P' \notin {"wDr", "fDr"}
    BY <1>4, Moved
    DEF WriteTest, WriteOff, WaitTxe, WriteOn, WriteEnable, FlushLoop, FlushTest, Avail, IInv
  <2> QED
    BY <2>1, <2>2, <2>3, HandStays, Stutters
<1>5. CASE \/ TxTest("main", "wTest", "wRead", "on") \/ TxTest("main", "fTest", "fRead", "flush")
           \/ TxRead("main", "wRead", "wTail") \/ TxRead("main", "fRead", "fTail")
  <2>1. UNCHANGED <<ring, dr, out>>
    BY <1>5 DEF TxTest, TxRead
  <2>2. P \notin {"wDr", "fDr"}
    BY <1>5 DEF TxTest, TxRead, P
  <2>3. P' \notin {"wDr", "fDr"}
    BY <1>5, Moved DEF TxTest, TxRead, IInv
  <2> QED
    BY <2>1, <2>2, <2>3, HandStays, Stutters
<1>6. CASE WriteStore("main")
  BY <1>6, StoreStutters
<1>7. CASE WriteHead("main")
  BY <1>7, HeadPuts
<1>8. CASE TxTail("main", "wTail", "wDr") \/ TxTail("main", "fTail", "fDr")
  BY <1>8, TailStutters
<1>9. CASE TxDr("main", "wDr", "on") \/ TxDr("main", "fDr", "flush")
  BY <1>9, DrStutters
<1>10. CASE Shift
  BY <1>10, ShiftGets
<1>11. CASE USART_IRQHandler
  BY <1>11, HandlerStutters
<1>12. CallStep("main") => [Queue!Next]_<<UnderWay, out>>
  BY <1>4, <1>5, <1>6, <1>7, <1>8, <1>9 DEF CallStep, TxOne
<1> QED
  BY <1>1, <1>2, <1>3, <1>10, <1>11, <1>12, Solo DEF Next

(* The transmit side implements the queue, for every size of the ring: bytes  *)
(* leave in the order written, each once, however write, flush and the       *)
(* handler share the ring, interrupts masked or not.                        *)
THEOREM ImplementsQueue == ASSUME ~HasIsr PROVE Spec => IsQueue
<1>1. Init => Queue!Init
  BY QueueInit
<1>2. IInv /\ IInv' /\ [Next]_vars => [Queue!Next]_<<UnderWay, out>>
  BY QueueStep
<1> QED
  BY <1>1, <1>2, Invariance, PTL DEF Spec, IsQueue, Queue!Spec
=============================================================================
