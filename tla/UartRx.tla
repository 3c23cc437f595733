------------------------------- MODULE UartRx -------------------------------
(***************************************************************************)
(* The receive side of Uart (ebox_uart.cpp): the interrupt handler or the   *)
(* DMA channel fills a ring, read() empties it, available() counts it,      *)
(* end() and begin() close and open the port.  Bytes are numbered in the    *)
(* order they arrive on the line.                                           *)
(*                                                                         *)
(* Each access of read() and available() to an index is a step.  The        *)
(* indices are not volatile: a later access may use a value loaded before.  *)
(***************************************************************************)
EXTENDS Integers

CONSTANTS
  Size,         (* _rx_buffer_size                                          *)
  MaxArrivals,  (* bound on the bytes that arrive                           *)
  MaxNested     (* bound on the handler runs inside one read()              *)

ASSUME SizeAssumption   == Size \in Nat /\ Size >= 2
ASSUME BoundsAssumption == MaxArrivals \in Nat /\ MaxNested \in Nat

VARIABLES
  mode, open,  (* RxDMA or RxIt, as begin was asked for; between begin, end *)
  head, tail,  (* _rx_buffer_head (of the DMA channel: Size - CNDTR), tail  *)
  buf,         (* _rx_ptr                                                   *)
  dr, rxne,    (* the data register and its flag                            *)
  isr,         (* where USARTn_IRQHandler stands                            *)
  at, loc,     (* where the reader stands; its loaded head, tail and c      *)
  nested,      (* handler runs since read() was called                      *)
  arrived,     (* bytes arrived                                             *)
  got,         (* the byte read() returned last                             *)
  delivered,   (* bytes read() has returned                                 *)
  overflows,   (* bytes that came to a full ring                            *)
  missed,      (* bytes that never reached the ring, or that end() dropped  *)
  promised,    (* what available() returned, less what was read since       *)
  displaced    (* history: begin() started the channel at slot 0 with tail  *)
               (* elsewhere                                                 *)

hw    == <<dr, rxne, isr>>
count == <<nested, arrived, got, delivered, overflows, missed, displaced>>
vars  == <<mode, open, head, tail, buf, hw, at, loc, count, promised>>

Index    == 0 .. Size - 1
After(i) == (i + 1) % Size
Dist(t, h) == (Size + h - t) % Size
Held     == Dist(tail, head)
Pending  == IF rxne THEN 1 ELSE 0

Init == /\ mode \in {"RxDMA", "RxIt"} /\ open = TRUE
        /\ head = 0 /\ tail = 0
        /\ buf = [i \in Index |-> 0]
        /\ dr = 0 /\ rxne = FALSE /\ isr = "out"
        /\ at = "idle" /\ loc = [h |-> 0, t |-> 0, c |-> 0]
        /\ nested = 0 /\ arrived = 0 /\ got = 0 /\ delivered = 0
        /\ overflows = 0 /\ missed = 0
        /\ promised = 0 /\ displaced = FALSE

-----------------------------------------------------------------------------
(* The next byte ends on the line.  With RXNE still set it is overrun.      *)
ArriveDr ==
  /\ mode = "RxIt" /\ open /\ arrived < MaxArrivals
  /\ arrived' = arrived + 1
  /\ IF rxne THEN missed' = missed + 1 /\ UNCHANGED <<dr, rxne>>
             ELSE dr' = arrived' /\ rxne' = TRUE /\ UNCHANGED missed
  /\ UNCHANGED <<mode, open, head, tail, buf, isr, at, loc, nested, got,
                 delivered, overflows, promised, displaced>>

(* In RxDMA the channel stores the byte and CNDTR counts down, reloading.   *)
ArriveDma ==
  /\ mode = "RxDMA" /\ open /\ arrived < MaxArrivals
  /\ arrived' = arrived + 1
  /\ buf' = [buf EXCEPT ![head] = arrived']
  /\ head' = After(head)
  /\ overflows' = IF After(head) = tail THEN overflows + 1 ELSE overflows
  /\ UNCHANGED <<mode, open, tail, hw, at, loc, nested, got, delivered,
                 missed, promised, displaced>>

-----------------------------------------------------------------------------
(* rx_buffer_one: a full ring loses its oldest byte.  Mutants: the oldest   *)
(* byte is kept, so that head catches up with tail; a slot too early.       *)
DropOldest_never == UNCHANGED tail /\ overflows' =
                      IF After(head) = tail THEN overflows + 1 ELSE overflows
DropOldest_early == IF After(After(head)) = tail
                      THEN tail' = After(tail) /\ UNCHANGED overflows
                      ELSE UNCHANGED <<tail, overflows>>

DropOldest == IF After(head) = tail
                THEN tail' = After(tail) /\ overflows' = overflows + 1
                ELSE UNCHANGED <<tail, overflows>>

(* Reading DR clears RXNE.  Mutant: the byte goes to the slot after head.   *)
Slot_next(h) == After(h)
Slot(h) == h

RxBufferOne ==
  /\ mode = "RxIt" /\ rxne /\ isr = "out"
  /\ at \in {"test", "index", "fetch", "load", "store"} => nested < MaxNested
  /\ nested' = nested + 1
  /\ DropOldest
  /\ buf' = [buf EXCEPT ![Slot(head)] = dr]
  /\ head' = After(head)
  /\ rxne' = FALSE
  /\ isr' = "callback"
  /\ UNCHANGED <<mode, open, dr, at, loc, arrived, got, delivered, missed,
                 promised, displaced>>

(* The user's RxIrq callback runs, then USART_ClearITPendingBit(RXNE): a    *)
(* byte that came meanwhile stays in DR unseen.                             *)
ClearRxne ==
  /\ isr = "callback"
  /\ rxne' = FALSE
  /\ missed' = missed + Pending
  /\ isr' = "out"
  /\ UNCHANGED <<mode, open, head, tail, buf, dr, at, loc, nested, arrived,
                 got, delivered, overflows, promised, displaced>>

-----------------------------------------------------------------------------
(* The reader is preempted by the handler and does not run inside it.       *)
Reads(place) == isr = "out" /\ open /\ at = place

(* What an access to _rx_buffer_tail sees: memory, or an earlier load.      *)
Loaded == {tail, loc.t}

(* read(): test for an empty ring; fetch the byte; move tail on.            *)
ReadCall ==
  /\ Reads("idle")
  /\ loc' = [loc EXCEPT !.t = tail]
  /\ nested' = 0
  /\ at' = "test"
  /\ UNCHANGED <<mode, open, head, tail, buf, hw, arrived, got, delivered,
                 overflows, missed, promised, displaced>>

(* Mutant: the ring is taken for empty one byte early.                      *)
IsEmpty_early(t) == t = head \/ After(t) = head
IsEmpty(t) == t = head

ReadTest ==
  /\ Reads("test")
  /\ at' = IF IsEmpty(loc.t) THEN "none" ELSE "index"
  /\ UNCHANGED <<mode, open, head, tail, buf, hw, loc, count, promised>>

ReadNone ==
  /\ Reads("none")
  /\ at' = "idle"
  /\ promised' = 0
  /\ UNCHANGED <<mode, open, head, tail, buf, hw, loc, count>>

ReadIndex ==
  /\ Reads("index")
  /\ \E t \in Loaded : loc' = [loc EXCEPT !.t = t]
  /\ at' = "fetch"
  /\ UNCHANGED <<mode, open, head, tail, buf, hw, count, promised>>

ReadFetch ==
  /\ Reads("fetch")
  /\ loc' = [loc EXCEPT !.c = buf[loc.t]]
  /\ at' = "load"
  /\ UNCHANGED <<mode, open, head, tail, buf, hw, count, promised>>

ReadLoad ==
  /\ Reads("load")
  /\ \E t \in Loaded : loc' = [loc EXCEPT !.t = t]
  /\ at' = "store"
  /\ UNCHANGED <<mode, open, head, tail, buf, hw, count, promised>>

(* Mutant: tail is not wrapped at the end of the buffer.                    *)
Next_unwrapped(t) == t + 1
NextTail(t) == After(t)

ReadStore ==
  /\ Reads("store")
  /\ tail' = NextTail(loc.t)
  /\ got' = loc.c
  /\ delivered' = delivered + 1
  /\ promised' = IF promised > 0 THEN promised - 1 ELSE 0
  /\ at' = "idle"
  /\ UNCHANGED <<mode, open, head, buf, hw, loc, nested, arrived, overflows,
                 missed, displaced>>

-----------------------------------------------------------------------------
(* available() loads head and tail, in an order C++ leaves open.            *)
AvailCall ==
  /\ Reads("idle")
  /\ \/ loc' = [loc EXCEPT !.h = head] /\ at' = "availTail"
     \/ loc' = [loc EXCEPT !.t = tail] /\ at' = "availHead"
  /\ UNCHANGED <<mode, open, head, tail, buf, hw, count, promised>>

Avail ==
  /\ \/ Reads("availTail") /\ promised' = Dist(tail, loc.h)
     \/ Reads("availHead") /\ promised' = Dist(loc.t, head)
  /\ at' = "idle"
  /\ UNCHANGED <<mode, open, head, tail, buf, hw, loc, count>>

-----------------------------------------------------------------------------
(* end(): the USART is reset, and _rx_buffer_head = _rx_buffer_tail, which   *)
(* the RxDMA mode does not look at.                                         *)
End ==
  /\ Reads("idle")
  /\ open' = FALSE
  /\ rxne' = FALSE
  /\ head' = IF mode = "RxIt" THEN tail ELSE head
  /\ missed' = missed + Pending + (IF mode = "RxIt" THEN Held ELSE 0)
  /\ promised' = 0
  /\ UNCHANGED <<mode, tail, buf, dr, isr, at, loc, nested, arrived, got,
                 delivered, overflows, displaced>>

(* begin() in the same mode: a new buffer; CNDTR is set to the buffer's     *)
(* size; neither index is touched.                                          *)
Begin ==
  /\ ~open
  /\ open' = TRUE
  /\ buf' = [i \in Index |-> 0]
  /\ head' = IF mode = "RxDMA" THEN 0 ELSE head
  /\ displaced' = (displaced \/ (mode = "RxDMA" /\ tail # 0))
  /\ missed' = IF mode = "RxDMA" /\ ~displaced' THEN missed + Held ELSE missed
  /\ UNCHANGED <<mode, tail, hw, at, loc, nested, arrived, got, delivered,
                 overflows, promised>>

-----------------------------------------------------------------------------
Read == ReadCall \/ ReadTest \/ ReadNone \/ ReadIndex \/ ReadFetch
        \/ ReadLoad \/ ReadStore

Next == ArriveDr \/ ArriveDma \/ RxBufferOne \/ ClearRxne \/ Read
        \/ AvailCall \/ Avail \/ End \/ Begin

Spec == Init /\ [][Next]_vars

-----------------------------------------------------------------------------
(* Type invariant: whatever preempts read(), both indices stay inside the   *)
(* buffer.                                                                  *)
TypeOK ==
  /\ mode \in {"RxDMA", "RxIt"} /\ open \in BOOLEAN /\ rxne \in BOOLEAN
  /\ head \in Index /\ tail \in Index
  /\ buf \in [Index -> 0 .. MaxArrivals]
  /\ dr \in 0 .. MaxArrivals
  /\ isr \in {"out", "callback"}
  /\ at \in {"idle", "test", "none", "index", "fetch", "load", "store",
             "availHead", "availTail"}
  /\ loc \in [h : Index, t : Index, c : 0 .. MaxArrivals]
  /\ got \in 0 .. MaxArrivals
  /\ promised \in Index /\ displaced \in BOOLEAN
  /\ nested \in Nat /\ arrived \in Nat /\ delivered \in Nat
  /\ overflows \in Nat /\ missed \in Nat

(* The bytes that reached the ring and will not be read. *)
Lost == arrived - delivered - missed - Pending - Held

(* As long as no byte came to a full ring, each byte that reached the ring  *)
(* is read or still in it (ebox_uart.h:54-58), in both modes and however    *)
(* read() is preempted, and a port that is closed and opened again reads    *)
(* nothing of what end() cleared (ebox_uart.cpp:237, 244).  In RxDMA the    *)
(* last needs tail at slot 0: end() sets an index that this mode never      *)
(* looks at, and begin() starts the channel at slot 0.  displaced tells     *)
(* that case apart; without it, nothing else loses a byte or shows one that *)
(* never came.                                                              *)
NoLossWithoutOverflow == overflows = 0 /\ ~displaced => Lost = 0

(* In RxIt an overflow loses one byte, the oldest (ebox_uart.h:39-40).      *)
OverflowLosesOne == mode = "RxIt" => Lost <= overflows

(* Bytes are read in the order they arrived, none twice, with overflows     *)
(* and without (ebox_uart.h:57-58: new bytes replace old ones), across      *)
(* end() and begin() too, but for the displaced ring.                       *)
InOrder == [][delivered' # delivered /\ ~displaced => got' > got]_vars

(* A loop of n reads after available() returned n gets n bytes              *)
(* (ebox_uart.h:54-55), whatever arrives in between, as long as the ring    *)
(* does not overflow.                                                       *)
AvailableIsKept == at = "none" /\ promised > 0 => overflows > 0
=============================================================================
