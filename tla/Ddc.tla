--------------------------------- MODULE Ddc --------------------------------
(***************************************************************************)
(* The DDC link protocol (component/ddc/ddc.c, ddc_list.c) between two      *)
(* boards that run the same code.  ddc_loop sends the send list, counts the *)
(* frames that wait for a reply and retries them, then receives.  Frames    *)
(* are whole: a frame with a bad CRC, or cut by a full fifo, is lost.       *)
(*                                                                         *)
(* A reply is made in an array on the stack of ddc_analyze_frame, and the   *)
(* send list keeps a pointer to it after the function has returned.  Later  *)
(* calls reuse that memory: what the pointer finds is the reply made last,  *)
(* which lay at the same place, or junk.                                    *)
(***************************************************************************)
EXTENDS Naturals, Sequences, SequencesExt, FiniteSetsExt

CONSTANTS
  Station,   (* the two boards                                             *)
  Msg,       (* the payloads                                               *)
  Source,    (* the board that submits a message                           *)
  NeedsAck,  (* the messages submitted with DDC_Ack                        *)
  Timeout,   (* the count, 20, at which a frame is sent again              *)
  MaxId,     (* bound on the ids a board draws, below the wrap of uint16_t *)
  LinkCap    (* bound on the frames that travel towards a board            *)

ASSUME StationAssumption == \E s, p \in Station : s # p /\ Station = {s, p}
ASSUME SourceAssumption  == Source \in [Msg -> Station]
ASSUME AckAssumption     == NeedsAck \subseteq Msg
ASSUME TimeoutAssumption == Timeout \in Nat /\ Timeout >= 2
ASSUME BoundsAssumption  == MaxId \in Nat /\ LinkCap \in Nat

VARIABLES
  id,         (* ddc_id: the next frame id, per board                       *)
  send,       (* list_send                                                  *)
  wait,       (* list_wait_ack                                              *)
  stack,      (* the id that the reply made last answers                    *)
  link,       (* the frames on their way to a board, and in its fifo        *)
  at, pos,    (* where ddc_loop stands; its place in the list it walks      *)
  submitted,  (* the messages given to ddc_nonblocking                      *)
  delivered   (* the messages whose callback has run                        *)

lists == <<id, send, wait>>
vars  == <<lists, stack, link, at, pos, submitted, delivered>>

-----------------------------------------------------------------------------
Peer(s) == CHOOSE p \in Station : p # s
Id      == 0 .. MaxId
None    == MaxId + 1

(* Frames: data on a user channel, and replies (channel 255).               *)
Data(i, m)  == [id |-> i, msg |-> m]
Reply(i)    == [reply |-> i]
IsData(f)   == "msg" \in DOMAIN f

(* Nodes of list_send: a frame of its own, or the pointer to the stack with  *)
(* the id that the reply was made for.                                      *)
Frame(f)    == [frame |-> f]
OnStack(i)  == [made |-> i]
IsFrame(n)  == "frame" \in DOMAIN n
OnStacks(s) == {j \in DOMAIN send[s] : ~IsFrame(send[s][j])}

(* A node of list_wait_ack, with its time.                                  *)
Waiting(i, m) == [id |-> i, msg |-> m, time |-> 0]

Init == /\ id = [s \in Station |-> 0]
        /\ send = [s \in Station |-> <<>>]
        /\ wait = [s \in Station |-> <<>>]
        /\ stack = [s \in Station |-> None]
        /\ link = [s \in Station |-> <<>>]
        /\ at = [s \in Station |-> "idle"]
        /\ pos = [s \in Station |-> 1]
        /\ submitted = {} /\ delivered = {}

-----------------------------------------------------------------------------
(* ddc_nonblocking: a frame goes to list_send and, with DDC_Ack, to          *)
(* list_wait_ack too (ddc_add_to_list).                                     *)
Submit(s, m) ==
  /\ at[s] = "idle" /\ Source[m] = s /\ m \notin submitted /\ id[s] <= MaxId
  /\ send' = [send EXCEPT ![s] = Append(@, Frame(Data(id[s], m)))]
  /\ wait' = IF m \in NeedsAck
               THEN [wait EXCEPT ![s] = Append(@, Waiting(id[s], m))]
               ELSE wait
  /\ id' = [id EXCEPT ![s] = @ + 1]
  /\ submitted' = submitted \cup {m}
  /\ UNCHANGED <<stack, link, at, pos, delivered>>

(* ddc_loop is called. *)
Loop(s) ==
  /\ at[s] = "idle"
  /\ at' = [at EXCEPT ![s] = "send"]
  /\ pos' = [pos EXCEPT ![s] = 1]
  /\ UNCHANGED <<lists, stack, link, submitted, delivered>>

(* A frame is written to the line; a full link loses it. *)
Put(s, f) == link' = IF Len(link[Peer(s)]) < LinkCap
                       THEN [link EXCEPT ![Peer(s)] = Append(@, f)]
                       ELSE link

(* ddc_send_list: p is sent, then list_delete_by_val deletes the first node  *)
(* with its id, here node j, or none for j = 0; p moves on.                 *)
Delete(s, j) ==
  /\ send' = [send EXCEPT ![s] = IF j = 0 THEN @ ELSE RemoveAt(@, j)]
  /\ pos'  = [pos EXCEPT ![s] = IF j \in 1 .. @ THEN @ ELSE @ + 1]

Sending(s) == at[s] = "send" /\ pos[s] <= Len(send[s])

(* A frame of its own: an earlier pointer to the stack may show its id.     *)
SendFrame(s) ==
  /\ Sending(s) /\ IsFrame(send[s][pos[s]])
  /\ Put(s, send[s][pos[s]].frame)
  /\ \E j \in {pos[s]} \cup {i \in OnStacks(s) : i < pos[s]} : Delete(s, j)
  /\ UNCHANGED <<id, wait, stack, at, submitted, delivered>>

(* The stack: the reply made last, or junk, with any id and a wrong CRC.    *)
SendReply(s) ==
  /\ Sending(s) /\ ~IsFrame(send[s][pos[s]])
  /\ \/ Put(s, Reply(stack[s])) /\ Delete(s, Min(OnStacks(s)))
     \/ UNCHANGED link /\ \E j \in 0 .. Len(send[s]) : Delete(s, j)
  /\ UNCHANGED <<id, wait, stack, at, submitted, delivered>>

SendEnd(s) ==
  /\ at[s] = "send" /\ ~Sending(s)
  /\ at' = [at EXCEPT ![s] = "check"]
  /\ UNCHANGED <<lists, stack, link, pos, submitted, delivered>>

-----------------------------------------------------------------------------
(* ddc_check_ack_list, once in 2000 ms: every waiting frame is counted, and *)
(* at Timeout retried (ddc_retry): made again with a new id, put in both    *)
(* lists, and the old entry deleted.  The walk reaches the new entries too. *)
(* Mutants: the count must pass Timeout; the old entry is kept.             *)
IsDue_late(w) == w.time + 1 > Timeout
IsDue(w)      == w.time + 1 >= Timeout
Due(s)        == {j \in DOMAIN wait[s] : IsDue(wait[s][j])}

Dropped_not(q, i) == q
Dropped(q, i)     == RemoveFirstMatch(q, LAMBDA w : w.id = i)

CheckDue(s) ==
  /\ at[s] = "check" /\ wait[s] # <<>> /\ id[s] + Cardinality(Due(s)) <= MaxId + 1
  /\ at' = [at EXCEPT ![s] = "walk"]
  /\ pos' = [pos EXCEPT ![s] = 1]
  /\ UNCHANGED <<lists, stack, link, submitted, delivered>>

Walking(s) == at[s] = "walk" /\ pos[s] <= Len(wait[s])

Count(s) ==
  /\ Walking(s) /\ ~IsDue(wait[s][pos[s]])
  /\ wait' = [wait EXCEPT ![s][pos[s]].time = @ + 1]
  /\ pos' = [pos EXCEPT ![s] = @ + 1]
  /\ UNCHANGED <<id, send, stack, link, at, submitted, delivered>>

Retry(s) ==
  /\ Walking(s) /\ IsDue(wait[s][pos[s]]) /\ id[s] <= MaxId
  /\ LET w == wait[s][pos[s]] IN
       /\ send' = [send EXCEPT ![s] = Append(@, Frame(Data(id[s], w.msg)))]
       /\ wait' = [wait EXCEPT ![s] =
                     Dropped(Append(@, Waiting(id[s], w.msg)), w.id)]
  /\ id' = [id EXCEPT ![s] = @ + 1]
  /\ UNCHANGED <<stack, link, at, pos, submitted, delivered>>

CheckEnd(s) ==
  /\ at[s] = "walk" /\ ~Walking(s)
  /\ at' = [at EXCEPT ![s] = "recv"]
  /\ UNCHANGED <<lists, stack, link, pos, submitted, delivered>>

CheckNotDue(s) ==
  /\ at[s] = "check"
  /\ at' = [at EXCEPT ![s] = "recv"]
  /\ UNCHANGED <<lists, stack, link, pos, submitted, delivered>>

-----------------------------------------------------------------------------
(* ddc_analyze_frame: a reply deletes the frame it answers from             *)
(* list_wait_ack; data goes to its callback, and if it asks for a reply one *)
(* is made on the stack and put in list_send.                               *)
Receive(s) == /\ at[s] = "recv" /\ link[s] # <<>>
              /\ link' = [link EXCEPT ![s] = Tail(@)]

RecvReply(s) ==
  /\ Receive(s) /\ ~IsData(Head(link[s]))
  /\ wait' = [wait EXCEPT ![s] = Dropped(@, Head(link[s]).reply)]
  /\ UNCHANGED <<id, send, stack, at, pos, submitted, delivered>>

(* The id a reply names.  Mutant: the id drawn for the reply itself.        *)
Answered_own(s, f) == id[s]
Answered(s, f)     == f.id

RecvData(s) ==
  LET f == Head(link[s]) IN
  /\ Receive(s) /\ IsData(f)
  /\ delivered' = delivered \cup {f.msg}
  /\ IF f.msg \in NeedsAck
       THEN /\ id[s] <= MaxId
            /\ id' = [id EXCEPT ![s] = @ + 1]
            /\ stack' = [stack EXCEPT ![s] = Answered(s, f)]
            /\ send' = [send EXCEPT ![s] = Append(@, OnStack(Answered(s, f)))]
       ELSE UNCHANGED <<id, stack, send>>
  /\ UNCHANGED <<wait, at, pos, submitted>>

RecvEnd(s) ==
  /\ at[s] = "recv"
  /\ at' = [at EXCEPT ![s] = "idle"]
  /\ UNCHANGED <<lists, stack, link, pos, submitted, delivered>>

-----------------------------------------------------------------------------
(* A frame is lost: a bad CRC, or a full fifo.                              *)
Lose(s) ==
  /\ \E j \in DOMAIN link[s] : link' = [link EXCEPT ![s] = RemoveAt(@, j)]
  /\ UNCHANGED <<lists, stack, at, pos, submitted, delivered>>

ddc_loop(s) == \/ Loop(s)
               \/ SendFrame(s) \/ SendReply(s) \/ SendEnd(s)
               \/ CheckDue(s) \/ Count(s) \/ Retry(s) \/ CheckEnd(s)
               \/ CheckNotDue(s)
               \/ RecvReply(s) \/ RecvData(s) \/ RecvEnd(s)

Next == \E s \in Station : \/ \E m \in Msg : Submit(s, m)
                           \/ ddc_loop(s)
                           \/ Lose(s)

Spec == Init /\ [][Next]_vars

-----------------------------------------------------------------------------
(* Type invariant: a count stays below Timeout, so time++ on a uint8_t does *)
(* not wrap; p stays in list_send or just behind it.                        *)
Node  == {Frame(Data(i, m)) : i \in Id, m \in Msg} \cup {OnStack(i) : i \in Id}
Entry == [id : Id, msg : NeedsAck, time : 0 .. Timeout - 1]
Wire  == {Data(i, m) : i \in Id, m \in Msg} \cup {Reply(i) : i \in Id}

TypeOK ==
  /\ id \in [Station -> 0 .. MaxId + 1]
  /\ send \in [Station -> Seq(Node)]
  /\ wait \in [Station -> Seq(Entry)]
  /\ link \in [Station -> Seq(Wire)]
  /\ stack \in [Station -> 0 .. None]
  /\ at \in [Station -> {"idle", "send", "check", "walk", "recv"}]
  /\ pos \in [Station -> Nat \ {0}]
  /\ \A s \in Station : /\ at[s] = "send" => pos[s] <= Len(send[s]) + 1
                        /\ at[s] = "walk" => pos[s] <= Len(wait[s]) + 1
  /\ submitted \subseteq Msg /\ delivered \subseteq Msg

WaitsFor(m) == {j \in DOMAIN wait[Source[m]] : wait[Source[m]][j].msg = m}
Pending     == {m \in NeedsAck : WaitsFor(m) # {}}

(* A message that asks for a reply leaves list_wait_ack only when the peer  *)
(* has it, through losses, retries under a new id and late replies.         *)
Promise == INSTANCE AtLeastOnce WITH
             Msg <- NeedsAck,
             pending <- Pending,
             delivered <- delivered \cap NeedsAck
IsAtLeastOnce == Promise!Spec

(* A retry replaces its entry: no message waits twice, so it is not sent    *)
(* again twice as often each time (ddc.c:393-396).                          *)
WaitsOnce == \A m \in NeedsAck : \A j, k \in WaitsFor(m) : j = k

(* A reply goes out as the reply it was made as: "create a reply frame and  *)
(* insert it in the send queue" (ddc.c:177).                                *)
RepliesAsMade ==
  [][\A s \in Station :
       SendReply(s) /\ link' # link
         => Last(link'[Peer(s)]) = Reply(send[s][pos[s]].made)]_vars
=============================================================================
