------------------------------- MODULE DdcRecv ------------------------------
(***************************************************************************)
(* The receiver of the DDC link, byte by byte: the line loses bytes, the    *)
(* UART's interrupt puts the others into the fifo (ddc_get_char), and       *)
(* ddc_recv_process takes one at a time and finds the frames.  It stands    *)
(* for the link that Ddc has between its boards.                            *)
(***************************************************************************)
EXTENDS ByteFifo, Sequences, SequencesExt

CONSTANTS
  Frames,      (* the frames that are sent, in order                        *)
  MaxPayload,  (* DDC_MAX_PAYLOAD_LENGTH: 118                               *)
  CounterMod,  (* counter is a uint16_t: 65536                              *)
  MaxLost,     (* bound on the bytes that the line and a full fifo lose      *)
  Lossy        (* bound: the frames in which the line does                   *)

Byte  == {n \in Nat : n < 256}    (* uint8_t  *)
Short == {n \in Nat : n < 65536}  (* uint16_t *)
Frame == [id : Short, ch : Byte, ack : Byte, payload : Seq(Byte),
          crc : Byte \X Byte]

ASSUME FramesAssumption ==
  /\ Frames \in Seq(Frame) /\ MaxPayload \in Short
  /\ \A f \in DOMAIN Frames : Len(Frames[f].payload) <= MaxPayload
  /\ Lossy \subseteq DOMAIN Frames /\ MaxLost \in Nat
  /\ CounterMod \in Nat /\ CounterMod > MaxPayload + 1

VARIABLES
  line,        (* the frame and the place in it of the next byte            *)
  lost,        (* how many bytes were lost                                  *)
  size,        (* the fifo's size, as asked for                             *)
  in, out,     (* its counts                                               *)
  cell,        (* its buffer                                               *)
  pc, ch,      (* where ebox_fifo_get stands, and the byte it has copied    *)
  state,       (* ddc_recv_state                                           *)
  head,        (* the last two bytes seen in DDC_HEAD                       *)
  counter,     (* the place in a field of several bytes                    *)
  got,         (* recv_frame: the bytes stored since the head              *)
  delivered,   (* history: the frames given to ddc_analyze_frame            *)
  unread,      (* history: the bytes that wait, in order: <<frame, place,   *)
               (* and lost when it arrived>>                               *)
  crowded,     (* history: more bytes have waited than have cells apart     *)
  calm,        (* history: delivered, as long as that had not happened      *)
  whole,       (* history: the frame and the place up to which all of it    *)
               (* was read, from DDC_HEAD on; <<0, 0>>: of none             *)
  began,       (* history: of the bytes read, the first one stored in       *)
  latest       (* recv_frame, and the last of all                           *)

fifo    == <<size, in, out, cell>>
parser  == <<state, head, counter, got>>
history == <<delivered, calm, whole, began, latest>>
vars    == <<line, lost, fifo, pc, ch, parser, history, unread, crowded>>

-----------------------------------------------------------------------------
(* A frame on the line (ddc_nonblocking): head, id, channel, ack, length,    *)
(* payload, CRC; numbers of two bytes low byte first.                       *)
H0 == 85    (* 0x55 *)
H1 == 170   (* 0xAA *)
Low(n)   == n % 256
High(n)  == n \div 256
Bytes(r) == <<H0, H1, Low(r.id), High(r.id), r.ch, r.ack,
              Low(Len(r.payload)), High(Len(r.payload))>>
              \o r.payload \o r.crc
Wire     == [f \in DOMAIN Frames |-> Bytes(Frames[f])]
Value(b) == Wire[b[1]][b[2]]

(* ddc_id counts up from frame to frame. *)
ASSUME DistinctAssumption ==
  \A f, g \in DOMAIN Frames : Wire[f] = Wire[g] => f = g

Init ==
  /\ line = <<1, 1>> /\ lost = 0
  /\ size \in Sizes /\ in = 0 /\ out = 0
  /\ cell = [c \in 0 .. size - 1 |-> 0]
  /\ pc = "test" /\ ch = 0
  /\ state = "head" /\ head = <<0, 0>> /\ counter = 0 /\ got = <<>>
  /\ delivered = <<>> /\ calm = <<>> /\ whole = <<0, 0>>
  /\ began = <<0, 0, 0>> /\ latest = <<0, 0, 0>>
  /\ unread = <<>> /\ crowded = FALSE

-----------------------------------------------------------------------------
(* The line. *)
Arriving == line[1] <= Len(Frames)
Advance  == line' = IF line[2] = Len(Wire[line[1]])
                      THEN <<line[1] + 1, 1>>
                      ELSE <<line[1], line[2] + 1>>

LoseByte ==
  /\ line[1] \in Lossy /\ lost < MaxLost
  /\ lost' = lost + 1
  /\ Advance
  /\ UNCHANGED <<fifo, pc, ch, parser, history, unread, crowded>>

(* ddc_get_char, in the interrupt: ebox_fifo_put of one byte, which puts     *)
(* nothing when there is no room.                                           *)
Put ==
  /\ Arriving /\ Room(size, in, out) >= 1
  /\ Advance
  /\ cell' = [cell EXCEPT ![Cell(size, in)] = Value(line)]
  /\ in' = After(in)
  /\ unread' = Append(unread, <<line[1], line[2], lost>>)
  /\ crowded' = (crowded \/ Held(in, out) >= Apart(size))
  /\ UNCHANGED <<lost, size, out, pc, ch, parser, history>>

PutFull ==
  /\ Arriving /\ Room(size, in, out) = 0 /\ lost < MaxLost
  /\ lost' = lost + 1
  /\ Advance
  /\ UNCHANGED <<fifo, pc, ch, parser, history, unread, crowded>>

-----------------------------------------------------------------------------
(* ebox_fifo_get, interruptible: the length, the copy, and out.             *)
GetLen ==
  /\ pc = "test" /\ Held(in, out) >= 1
  /\ pc' = "copy"
  /\ UNCHANGED <<line, lost, fifo, ch, parser, history, unread, crowded>>

GetCopy ==
  /\ pc = "copy"
  /\ ch' = cell[Cell(size, out)]
  /\ pc' = "parse"
  /\ UNCHANGED <<line, lost, fifo, parser, history, unread, crowded>>

-----------------------------------------------------------------------------
(* ddc_recv_process: one byte in one state of the receiver. *)
Field(s, n)  == got[s] + 256 * got[n]      (* two stored bytes as a number   *)
PayloadLen   == Field(5, 6)
Store        == got' = Append(got, ch)
Count        == counter' = (counter + 1) % CounterMod
Goto(s)      == state' = s /\ counter' = 0
Nothing      == UNCHANGED <<delivered, calm>>

(* Mutant: a head that fails is begun anew behind the byte that failed. *)
Seen_anew(b) == IF head[2] = H0 /\ b # H1 THEN <<0, 0>> ELSE <<head[2], b>>
Seen(b)      == <<head[2], b>>

InHead ==
  /\ state = "head"
  /\ head' = Seen(ch)
  /\ state' = IF head' = <<H0, H1>> THEN "id" ELSE "head"
  /\ got' = <<>>
  /\ UNCHANGED counter /\ Nothing

(* The two bytes of the id, then the channel and the reply flag. *)
InFields ==
  /\ state \in {"id", "ch", "ack"}
  /\ Store
  /\ CASE state = "id" /\ counter = 0 -> state' = "id" /\ counter' = 1
       [] state = "id" /\ counter = 1 -> Goto("ch")
       [] state = "ch"  -> Goto("ack")
       [] state = "ack" -> Goto("len")
  /\ UNCHANGED head /\ Nothing

(* Mutant: one byte more than the payload has room for. *)
Fits_one(n) == n <= MaxPayload + 1
Fits(n)     == n <= MaxPayload

InLen ==
  /\ state = "len"
  /\ Store
  /\ IF counter = 0
       THEN Count /\ UNCHANGED state
       ELSE Goto(IF Fits(got[5] + 256 * ch) THEN "payload" ELSE "head")
  /\ UNCHANGED head /\ Nothing

(* The comparison comes after the count: a length of 0 is met only when     *)
(* counter wraps, and what lies behind recv_frame is written until then.    *)
InPayload ==
  /\ state = "payload"
  /\ got' = IF counter < MaxPayload THEN Append(got, ch) ELSE got
  /\ IF (counter + 1) % CounterMod = PayloadLen
       THEN Goto("crc")
       ELSE Count /\ UNCHANGED state
  /\ UNCHANGED head /\ Nothing

(* What the CRC is checked over, with the CRC itself; it is taken to tell    *)
(* the frames that were sent from all others.  Mutant: it is not tested.    *)
Checked(q)   == SubSeq(q, 1, 6 + PayloadLen) \o SubSeq(q, Len(q) - 1, Len(q))
SentAs(q)    == {f \in DOMAIN Frames :
                   Checked(q) = SubSeq(Wire[f], 3, Len(Wire[f]))}
CrcOk_any(q) == TRUE
CrcOk(q)     == SentAs(q) # {}
Name(q)      == IF SentAs(q) = {} THEN 0 ELSE Min(SentAs(q))

InCrc ==
  /\ state = "crc"
  /\ Store
  /\ IF counter = 0
       THEN Count /\ UNCHANGED state /\ Nothing
       ELSE /\ Goto("head")
            /\ IF CrcOk(got')
                 THEN /\ delivered' = Append(delivered, Name(got'))
                      /\ calm' = IF crowded THEN calm ELSE delivered'
                 ELSE Nothing
  /\ UNCHANGED head

(* The end of ebox_fifo_get, and the switch of ddc_recv_process. *)
Follows(b) == \/ b[2] = 1 /\ state = "head"
              \/ b[2] > 1 /\ whole = <<b[1], b[2] - 1>>
Parse ==
  /\ pc = "parse"
  /\ out' = After(out)
  /\ InHead \/ InFields \/ InLen \/ InPayload \/ InCrc
  /\ pc' = "test"
  /\ unread' = SubSeq(unread, 2, Len(unread))
  /\ latest' = IF unread = <<>> THEN latest ELSE unread[1]
  /\ began' = IF state = "id" /\ counter = 0 THEN latest' ELSE began
  /\ whole' = IF unread # <<>> /\ Follows(latest')
                THEN <<latest'[1], latest'[2]>> ELSE <<0, 0>>
  /\ UNCHANGED <<line, lost, size, in, cell, ch, crowded>>

ddc_recv_process == GetLen \/ GetCopy \/ Parse

(* Every frame has arrived and the fifo is empty. *)
Quiet == ~Arriving /\ pc = "test" /\ Held(in, out) = 0
Done  == Quiet /\ UNCHANGED vars

Next == LoseByte \/ Put \/ PutFull \/ ddc_recv_process \/ Done
Spec == Init /\ [][Next]_vars

-----------------------------------------------------------------------------
(* Type invariant.  counter stands inside the field that is being read. *)
TypeOK ==
  /\ line \in (1 .. Len(Frames) + 1) \X Nat /\ lost \in 0 .. MaxLost
  /\ size \in Sizes /\ in \in Word /\ out \in Word /\ Held(in, out) <= size
  /\ cell \in [0 .. size - 1 -> Byte] /\ ch \in Byte
  /\ pc \in {"test", "copy", "parse"}
  /\ state \in {"head", "id", "ch", "ack", "len", "payload", "crc"}
  /\ counter \in 0 .. CounterMod - 1
  /\ state \in {"head", "ch", "ack"} => counter = 0
  /\ state \in {"id", "len", "crc"} => counter \in {0, 1}
  /\ Len(unread) = Held(in, out)

(* The bytes put last wait in cells of their own, as many of them as the     *)
(* mask keeps apart, while the interrupt puts between any two steps of a get *)
(* and across the wrap of in and out (fifo.c:78-84, 108-112).               *)
FreshBytesKept ==
  \A d \in 1 .. Min({Apart(size), Len(unread)}) :
    cell[Cell(size, (in - d) % 2 ^ Bits)] = Value(unread[Len(unread) + 1 - d])

(* No byte is stored behind the payload of recv_frame, whatever a frame cut   *)
(* by the line shows as its length; a length of 0 alone escapes (ddc.c:106). *)
PayloadInBounds == state = "payload" /\ PayloadLen # 0 => counter < MaxPayload

(* A frame of which every byte was read, the first of them in DDC_HEAD, is    *)
(* handed over with its last byte, whatever junk was read before; frames     *)
(* without payload excepted.                                                *)
WholeFrameDelivered ==
  [][\A f \in DOMAIN Frames :
       whole' = <<f, Len(Wire[f])>> /\ whole # whole'
       /\ ~crowded' /\ Frames[f].payload # <<>>
         => delivered' = Append(delivered, f)]_vars

(* While no more bytes wait than the mask keeps apart, this is the link that *)
(* Ddc is built on: in order, at most once, nothing made up.                *)
Link == INSTANCE LossyLink WITH
          sent <- IF line[2] = 1 THEN line[1] - 1 ELSE line[1],
          delivered <- calm
IsLossyLink == Link!Spec

(* Bytes of payloads can read like a frame when others are lost.  Where the   *)
(* bytes of f can stand elsewhere on the line: <<f, i, p, k>> when the third  *)
(* to the i-th of them do, the i-th at p, with k bytes or more lost between. *)
(* Elsewhere holds them all, and no frame to its end, that is: no loss of    *)
(* MaxLost bytes makes up a frame.                                          *)
Places       == UNION {{f} \X (1 .. Len(Wire[f])) : f \in DOMAIN Frames}
Behind(p, q) == q[1] > p[1] \/ (q[1] = p[1] /\ q[2] > p[2])
Between(p, q) == IF p[1] = q[1] THEN q[2] - p[2] - 1
                                ELSE Len(Wire[p[1]]) - p[2] + q[2] - 1
(* Without a payload the receiver skips what lies before the CRC. *)
Skips(f, i)  == i = 8 /\ Frames[f].payload = <<>>
Starts(Elsewhere) ==
  \A f \in DOMAIN Frames : \A p \in Places \ {<<f, 3>>} :
    Value(p) = Wire[f][3] => <<f, 3, p, 0>> \in Elsewhere
Reads(e, q, k) ==
  /\ e[2] < Len(Wire[e[1]]) /\ Behind(e[3], q)
  /\ Value(q) = Wire[e[1]][e[2] + 1]
  /\ k >= e[4] + (IF Skips(e[1], e[2]) THEN 0 ELSE Between(e[3], q))
Continues(Elsewhere) ==
  \A e \in Elsewhere, q \in Places, k \in 0 .. MaxLost :
    Reads(e, q, k) => <<e[1], e[2] + 1, q, k>> \in Elsewhere
Unmistakable(Elsewhere) ==
  /\ Starts(Elsewhere) /\ Continues(Elsewhere)
  /\ \A e \in Elsewhere : e[2] # Len(Wire[e[1]])
=============================================================================
