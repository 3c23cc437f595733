------------------------------- MODULE UartTx -------------------------------
(***************************************************************************)
(* The transmit side of Uart (ebox_uart.cpp): write, flush, interrupt and   *)
(* availableForWrite fill and drain a ring, the USART interrupt drains it.  *)
(*                                                                         *)
(* The clients are the main program and, where HasIsr, an interrupt handler *)
(* that calls write and flush as the header of ebox_uart.h allows.  Every   *)
(* access to the ring's indices or to CR1 is a step of its own; the USART   *)
(* handler runs as one step, since no client preempts it.                   *)
(***************************************************************************)
EXTENDS Integers, Sequences

CONSTANTS
  Size,        (* _tx_buffer_size *)
  Byte,        (* the bytes that clients write *)
  NoByte,      (* an empty data register *)
  HasIsr,      (* whether an interrupt handler is a client too *)
  IsrPolls,    (* major <= preemption_priority, as flush reads it there *)
  IsrNests     (* whether the USART interrupt preempts that handler *)

ASSUME SizeAssumption   == Size \in Nat /\ Size >= 2
ASSUME NoByteAssumption == NoByte \notin Byte
ASSUME ByteAssumption   == Byte # {}
ASSUME IsrAssumption    == {HasIsr, IsrPolls, IsrNests} \subseteq BOOLEAN

VARIABLES
  head, tail, buf,   (* _tx_buffer_head, _tx_buffer_tail, _tx_ptr *)
  txeie,             (* TXEIE in CR1: the transmit interrupt is enabled *)
  dr,                (* the data register; TXE is dr = NoByte *)
  out,               (* the last byte that left the data register *)
  primask,           (* the main program has masked interrupts *)
  stopped,           (* it has disabled TxIrq itself *)
  at,                (* where each client stands *)
  loc,               (* its locals: c and i of write, c of tx_bufferx_one *)
  room               (* what availableForWrite returned, less what was written *)

ring == <<head, tail, buf>>
vars == <<head, tail, buf, txeie, dr, out, primask, stopped, at, loc, room>>

-----------------------------------------------------------------------------
Client == IF HasIsr THEN {"main", "isr"} ELSE {"main"}
Index  == 0 .. Size - 1
(* Mutant: the index is not wrapped. *)
After_unwrapped(i) == i + 1
After(i) == (i + 1) % Size

(* Where a client stands: idle; in write ("test" .. "enable"); in flush     *)
(* ("flush" .. "flushWait"); in availableForWrite ("avail"); in             *)
(* tx_bufferx_one, called from write ("w..") or flush ("f..").              *)
InWrite == {"test", "off", "wait", "on", "store", "head", "enable"}
InFlush == {"flush", "flushTest", "flushWait"}
InTxOne == {"wTest", "wRead", "wTail", "wDr", "fTest", "fRead", "fTail", "fDr"}
Place   == {"idle", "avail"} \cup InWrite \cup InFlush \cup InTxOne

(* The bytes of the ring from tail to head. *)
Count   == (head - tail) % Size
Content == [n \in 1 .. Count |-> buf[(tail + n - 1) % Size]]

Init == /\ head = 0 /\ tail = 0
        /\ buf \in [Index -> {CHOOSE b \in Byte : TRUE}]
        /\ txeie = FALSE
        /\ dr = NoByte
        /\ out = (CHOOSE b \in Byte : TRUE)
        /\ primask = FALSE
        /\ stopped = FALSE
        /\ at = [k \in Client |-> "idle"]
        /\ loc = [k \in Client |-> [c |-> NoByte, i |-> 0, ch |-> NoByte]]
        /\ room = 0

(* A client runs: the handler at any time main has not masked interrupts,   *)
(* main only when the handler is not active.                                *)
Runs(k) == IF k = "main" THEN HasIsr => at["isr"] = "idle" ELSE TRUE
At(k, place)   == Runs(k) /\ at[k] = place
Move(k, place) == at' = [at EXCEPT ![k] = place]

-----------------------------------------------------------------------------
(* write(c): i is computed once, from the head found on entry. *)
WriteCall(k, c) ==
  /\ At(k, "idle") /\ (k = "isr" => ~primask)
  /\ loc' = [loc EXCEPT ![k].c = c, ![k].i = After(head)]
  /\ Move(k, "test")
  /\ UNCHANGED <<ring, txeie, dr, out, primask, stopped, room>>

(* while (i == tail): drain one byte by hand. *)
WriteTest(k) ==
  /\ At(k, "test")
  /\ Move(k, IF loc[k].i = tail THEN "off" ELSE "store")
  /\ UNCHANGED <<ring, txeie, dr, out, primask, stopped, loc, room>>

(* interrupt(TxIrq, DISABLE) before polling, interrupt(TxIrq, ENABLE) after. *)
(* Mutant: the interrupt stays enabled and sends bytes of its own.          *)
WriteOff_on(k) ==
  /\ At(k, "off")
  /\ Move(k, "wait")
  /\ UNCHANGED <<ring, txeie, dr, out, primask, stopped, loc, room>>

WriteOff(k) ==
  /\ At(k, "off")
  /\ txeie' = FALSE
  /\ Move(k, "wait")
  /\ UNCHANGED <<ring, dr, out, primask, stopped, loc, room>>

(* while (USART_GetFlagStatus(TXE) == RESET), in write and in flush. *)
WaitTxe(k, from, to) ==
  /\ At(k, from)
  /\ dr = NoByte
  /\ Move(k, to)
  /\ UNCHANGED <<ring, txeie, dr, out, primask, stopped, loc, room>>

WriteOn(k) ==
  /\ At(k, "on")
  /\ txeie' = TRUE
  /\ stopped' = FALSE
  /\ Move(k, "test")
  /\ UNCHANGED <<ring, dr, out, primask, loc, room>>

(* _tx_ptr[head] = c; head = i; interrupt(TxIrq, ENABLE). *)
WriteStore(k) ==
  /\ At(k, "store")
  /\ buf' = [buf EXCEPT ![head] = loc[k].c]
  /\ Move(k, "head")
  /\ UNCHANGED <<head, tail, txeie, dr, out, primask, stopped, loc, room>>

WriteHead(k) ==
  /\ At(k, "head")
  /\ head' = loc[k].i
  /\ room' = IF room > 0 THEN room - 1 ELSE 0
  /\ Move(k, "enable")
  /\ UNCHANGED <<tail, buf, txeie, dr, out, primask, stopped, loc>>

(* Mutant: the byte is stored and the interrupt left as it was.             *)
WriteEnable_not(k) ==
  /\ At(k, "enable")
  /\ Move(k, "idle")
  /\ UNCHANGED <<ring, txeie, dr, out, primask, stopped, loc, room>>

WriteEnable(k) ==
  /\ At(k, "enable")
  /\ txeie' = TRUE
  /\ stopped' = FALSE
  /\ Move(k, "idle")
  /\ UNCHANGED <<ring, dr, out, primask, loc, room>>

-----------------------------------------------------------------------------
(* tx_bufferx_one, called by a client. *)
TxTest(k, from, more, back) ==
  /\ At(k, from)
  /\ IF head = tail
       THEN txeie' = FALSE /\ Move(k, back)
       ELSE Move(k, more) /\ UNCHANGED txeie
  /\ UNCHANGED <<ring, dr, out, primask, stopped, loc, room>>

TxRead(k, from, to) ==
  /\ At(k, from)
  /\ loc' = [loc EXCEPT ![k].ch = buf[tail]]
  /\ Move(k, to)
  /\ UNCHANGED <<ring, txeie, dr, out, primask, stopped, room>>

TxTail(k, from, to) ==
  /\ At(k, from)
  /\ tail' = After(tail)
  /\ Move(k, to)
  /\ UNCHANGED <<head, buf, txeie, dr, out, primask, stopped, loc, room>>

TxDr(k, from, to) ==
  /\ At(k, from)
  /\ dr' = loc[k].ch
  /\ Move(k, to)
  /\ UNCHANGED <<ring, txeie, out, primask, stopped, loc, room>>

TxOne(k) ==
  \/ TxTest(k, "wTest", "wRead", "on") \/ TxTest(k, "fTest", "fRead", "flush")
  \/ TxRead(k, "wRead", "wTail")       \/ TxRead(k, "fRead", "fTail")
  \/ TxTail(k, "wTail", "wDr")         \/ TxTail(k, "fTail", "fDr")
  \/ TxDr(k, "wDr", "on")              \/ TxDr(k, "fDr", "flush")

-----------------------------------------------------------------------------
(* flush(): while the ring is not empty, drain by hand if the USART         *)
(* interrupt cannot, else let it.                                           *)
FlushCall(k) ==
  /\ At(k, "idle") /\ (k = "isr" => ~primask)
  /\ Move(k, "flush")
  /\ UNCHANGED <<ring, txeie, dr, out, primask, stopped, loc, room>>

(* Mutant: only PRIMASK is looked at, not CR1. *)
ByHand_masked(k) == primask \/ k = "isr"

ByHand(k) == /\ primask \/ ~txeie \/ k = "isr"
             /\ k = "isr" => IsrPolls

FlushLoop(k) ==
  /\ At(k, "flush")
  /\ Move(k, IF head = tail THEN "idle" ELSE "flushTest")
  /\ UNCHANGED <<ring, txeie, dr, out, primask, stopped, loc, room>>

FlushTest(k) ==
  /\ At(k, "flushTest")
  /\ Move(k, IF ByHand(k) THEN "flushWait" ELSE "flush")
  /\ UNCHANGED <<ring, txeie, dr, out, primask, stopped, loc, room>>

-----------------------------------------------------------------------------
(* availableForWrite(): head, then tail. *)
AvailCall(k) ==
  /\ k = "main"
  /\ At(k, "idle")
  /\ loc' = [loc EXCEPT ![k].i = head]
  /\ Move(k, "avail")
  /\ UNCHANGED <<ring, txeie, dr, out, primask, stopped, room>>

(* Mutant: the slot that stays empty is counted too. *)
Room_full(h, t) == IF h >= t THEN Size - h + t ELSE t - h

Room(h, t) == IF h >= t THEN Size - 1 - h + t ELSE t - h - 1

Avail(k) ==
  /\ At(k, "avail")
  /\ room' = Room(loc[k].i, tail)
  /\ Move(k, "idle")
  /\ UNCHANGED <<ring, txeie, dr, out, primask, stopped, loc>>

(* The main program masks interrupts, or switches TxIrq itself.             *)
SetPrimask(m) ==
  /\ At("main", "idle")
  /\ primask' = m
  /\ UNCHANGED <<ring, txeie, dr, out, stopped, at, loc, room>>

Interrupt(on) ==
  /\ At("main", "idle")
  /\ txeie' = on
  /\ stopped' = ~on
  /\ UNCHANGED <<ring, dr, out, primask, at, loc, room>>

-----------------------------------------------------------------------------
(* The data register empties into the shift register. *)
Shift ==
  /\ dr # NoByte
  /\ out' = dr
  /\ dr' = NoByte
  /\ UNCHANGED <<ring, txeie, primask, stopped, at, loc, room>>

(* USARTn_IRQHandler, its TXE part: one tx_bufferx_one.  Mutant: it disables *)
(* the interrupt with the last byte of the ring and with any other.         *)
USART_IRQHandler_once ==
  /\ txeie /\ dr = NoByte /\ ~primask
  /\ HasIsr /\ at["isr"] # "idle" => IsrNests
  /\ txeie' = FALSE
  /\ IF head = tail THEN UNCHANGED <<tail, dr>>
                    ELSE dr' = buf[tail] /\ tail' = After(tail)
  /\ UNCHANGED <<head, buf, out, primask, stopped, at, loc, room>>

USART_IRQHandler ==
  /\ txeie /\ dr = NoByte /\ ~primask
  /\ HasIsr /\ at["isr"] # "idle" => IsrNests
  /\ IF head = tail
       THEN txeie' = FALSE /\ UNCHANGED <<tail, dr>>
       ELSE dr' = buf[tail] /\ tail' = After(tail) /\ UNCHANGED txeie
  /\ UNCHANGED <<head, buf, out, primask, stopped, at, loc, room>>

-----------------------------------------------------------------------------
(* What a client does on its own account, and the steps of a call it made.  *)
Call(k) == \/ \E c \in Byte : WriteCall(k, c)
           \/ FlushCall(k)
           \/ AvailCall(k)

CallStep(k) ==
  \/ WriteTest(k) \/ WriteOff(k) \/ WaitTxe(k, "wait", "wTest") \/ WriteOn(k)
  \/ WriteStore(k) \/ WriteHead(k) \/ WriteEnable(k)
  \/ FlushLoop(k) \/ FlushTest(k) \/ WaitTxe(k, "flushWait", "fTest")
  \/ TxOne(k)
  \/ Avail(k)

Next == \/ \E k \in Client : Call(k) \/ CallStep(k)
        \/ \E m \in BOOLEAN : SetPrimask(m) \/ Interrupt(m)
        \/ Shift
        \/ USART_IRQHandler

(* The line shifts bytes out, an enabled interrupt is served, and a call    *)
(* that runs goes on running.                                               *)
Fairness == /\ WF_vars(Shift)
            /\ WF_vars(USART_IRQHandler)
            /\ \A k \in Client : WF_vars(CallStep(k))

Spec     == Init /\ [][Next]_vars
FairSpec == Spec /\ Fairness

-----------------------------------------------------------------------------
(* Type invariant: indices stay inside the buffer, locals are bytes.        *)
TypeOK ==
  /\ head \in Index /\ tail \in Index
  /\ buf \in [Index -> Byte]
  /\ {txeie, primask, stopped} \subseteq BOOLEAN
  /\ dr \in Byte \cup {NoByte} /\ out \in Byte
  /\ at \in [Client -> Place]
  /\ loc \in [Client -> [c : Byte \cup {NoByte}, i : Index,
                         ch : Byte \cup {NoByte}]]
  /\ room \in 0 .. Size - 1

(* The bytes accepted and still under way: in the data register, in the     *)
(* hands of tx_bufferx_one, in the ring.                                    *)
InHand(k) == IF at[k] \in {"wDr", "fDr"} THEN <<loc[k].ch>> ELSE <<>>
UnderWay  == (IF dr = NoByte THEN <<>> ELSE <<dr>>) \o InHand("main") \o Content

Queue == INSTANCE ByteQueue WITH Capacity <- Size, queue <- UnderWay

(* The ring, the polling of write and flush and the interrupt together are  *)
(* a queue: every byte written leaves once, in order (ebox_uart.h:41-60).   *)
IsQueue == Queue!Spec

(* A byte waits in the ring with the transmit interrupt off only while a    *)
(* call is in progress or the program has disabled TxIrq itself             *)
(* (ebox_uart.h:50): the handler's disable never overtakes write's enable.  *)
NeverStuck ==
  head # tail /\ at["main"] \in {"idle", "avail"} => txeie \/ stopped

(* As many bytes as availableForWrite returned are written without polling, *)
(* so that no TxIrq is lost (ebox_uart.h:66-68), though the interrupt moves *)
(* tail between its two reads and after them.                               *)
RoomIsKept == at["main"] = "off" => room = 0

(* Each write adds its byte to what is under way and loses none             *)
(* (ebox_uart.h:59-60), whatever an interrupt handler writes meanwhile.     *)
WriteAddsOne ==
  [][\A k \in Client :
       WriteHead(k) => Len(UnderWay') = Len(UnderWay) + 1]_vars

(* write and flush return, with interrupts masked or not, TxIrq enabled or  *)
(* not.                                                                     *)
CallsReturn == \A k \in Client : at[k] # "idle" ~> at[k] = "idle"

(* While bytes wait and the program neither masks interrupts nor disables   *)
(* TxIrq, the line keeps shifting bytes out.                                *)
BytesLeave ==
  <>[](UnderWay # <<>> /\ ~primask /\ ~stopped) => []<><<Shift>>_vars
=============================================================================
