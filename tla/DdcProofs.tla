----------------------------- MODULE DdcProofs ------------------------------
(***************************************************************************)
(* Ddc for every set of messages, every timeout and any length of the link.  *)
(* What an id stands for at the board that drew it (Waits, Sent, Settles) is *)
(* kept consistent by every step (Linked); with one entry per id and message *)
(* (Distinct) it makes a reply settle the right message, under whichever id  *)
(* it was sent, and so the boards implement AtLeastOnce.                    *)
(***************************************************************************)
EXTENDS Ddc, SequenceTheorems, WellFoundedInduction, TLAPS

-----------------------------------------------------------------------------
(* Sequences: removing, appending, and what remains. *)
LEMMA MinIn ==
  ASSUME NEW S \in SUBSET Nat, S # {} PROVE Min(S) \in S
<1>1. \E n \in S : \A m \in S : ~(<<m, n>> \in OpToRel(<, Nat))
  BY NatLessThanWellFounded, WFMin
<1>2. \E n \in S : \A m \in S : n <= m
  <2>1. PICK n \in S : \A m \in S : ~(<<m, n>> \in OpToRel(<, Nat))
    BY <1>1
  <2>2. \A m \in S : ~(m < n)
    BY <2>1 DEF OpToRel
  <2> QED BY <2>2
<1> QED
  BY <1>2 DEF Min

LEMMA Removing ==
  ASSUME NEW S, NEW q \in Seq(S), NEW j \in 1..Len(q)
  PROVE  /\ RemoveAt(q, j) \in Seq(S)
         /\ Len(RemoveAt(q, j)) = Len(q) - 1
         /\ \A k \in 1..Len(q) - 1 :
              RemoveAt(q, j)[k] = IF k < j THEN q[k] ELSE q[k + 1]
<1> DEFINE a == SubSeq(q, 1, j - 1)
           b == SubSeq(q, j + 1, Len(q))
<1>1. Len(q) \in Nat /\ \A k \in 1..Len(q) : q[k] \in S
  BY LenProperties, ElementOfSeq
<1>2. /\ a \in Seq(S) /\ Len(a) = j - 1 /\ \A k \in 1..j - 1 : a[k] = q[k]
  <2>1. \A k \in 1..j - 1 : q[k] \in S
    BY <1>1
  <2>2. /\ a \in Seq(S) /\ Len(a) = IF 1 <= j - 1 THEN (j - 1) - 1 + 1 ELSE 0
        /\ \A k \in 1..(j - 1) - 1 + 1 : a[k] = q[1 + k - 1]
    BY <1>1, <2>1, SubSeqProperties
  <2> QED BY <2>2, <1>1
<1>3. /\ b \in Seq(S) /\ Len(b) = Len(q) - j /\ \A k \in 1..Len(q) - j : b[k] = q[j + k]
  <2>1. \A k \in j + 1..Len(q) : q[k] \in S
    BY <1>1
  <2>2. /\ b \in Seq(S)
        /\ Len(b) = IF j + 1 <= Len(q) THEN Len(q) - (j + 1) + 1 ELSE 0
        /\ \A k \in 1..Len(q) - (j + 1) + 1 : b[k] = q[(j + 1) + k - 1]
    BY <1>1, <2>1, SubSeqProperties
  <2> QED BY <2>2, <1>1
<1> HIDE DEF a, b
<1>4. /\ a \o b \in Seq(S) /\ Len(a \o b) = Len(a) + Len(b)
      /\ \A k \in 1..Len(a) + Len(b) :
           (a \o b)[k] = IF k <= Len(a) THEN a[k] ELSE b[k - Len(a)]
  BY <1>2, <1>3, ConcatProperties
<1>5. RemoveAt(q, j) = a \o b
  BY DEF RemoveAt, a, b
<1>6. ASSUME NEW k \in 1..Len(q) - 1
      PROVE  (a \o b)[k] = IF k < j THEN q[k] ELSE q[k + 1]
  <2>1. CASE k < j
    BY <2>1, <1>1, <1>2, <1>3, <1>4
  <2>2. CASE k >= j
    <3>1. (a \o b)[k] = b[k - (j - 1)] /\ k - (j - 1) \in 1..Len(q) - j
      BY <2>2, <1>1, <1>2, <1>3, <1>4
    <3> QED BY <2>2, <3>1, <1>1, <1>3
  <2>3. k < j \/ k >= j
    BY <1>1
  <2> QED BY <2>1, <2>2, <2>3
<1> QED
  BY <1>1, <1>2, <1>3, <1>4, <1>5, <1>6

LEMMA InRange ==
  ASSUME NEW S, NEW q \in Seq(S), NEW x
  PROVE  x \in Range(q) <=> \E k \in 1..Len(q) : x = q[k]
  BY RangeEquality

LEMMA RangeAppend ==
  ASSUME NEW S, NEW q \in Seq(S), NEW e \in S
  PROVE  Append(q, e) \in Seq(S) /\ Range(Append(q, e)) = Range(q) \cup {e}
<1>1. /\ Append(q, e) \in Seq(S) /\ Len(Append(q, e)) = Len(q) + 1 /\ Len(q) \in Nat
      /\ \A i \in 1..Len(q) : Append(q, e)[i] = q[i]
      /\ Append(q, e)[Len(q) + 1] = e
  BY AppendProperties, LenProperties
<1> DEFINE r == Append(q, e)
<1>2. /\ r \in Seq(S) /\ Len(r) = Len(q) + 1 /\ r[Len(q) + 1] = e
      /\ \A i \in 1..Len(q) : r[i] = q[i]
  BY <1>1
<1> HIDE DEF r
<1>3. ASSUME NEW x PROVE x \in Range(r) <=> x \in Range(q) \/ x = e
  <2>1. x \in Range(r) <=> \E k \in 1..Len(r) : x = r[k]
    BY <1>2, InRange
  <2>2. x \in Range(q) <=> \E k \in 1..Len(q) : x = q[k]
    BY InRange
  <2> QED BY <1>1, <1>2, <2>1, <2>2
<1>4. r \in Seq(S) /\ Range(r) = Range(q) \cup {e}
  BY <1>2, <1>3
<1> QED
  BY <1>4 DEF r

LEMMA RangeRemove ==
  ASSUME NEW S, NEW q \in Seq(S), NEW j \in 1..Len(q)
  PROVE  RemoveAt(q, j) \in Seq(S) /\ Range(RemoveAt(q, j)) \subseteq Range(q)
<1>1. Len(q) \in Nat
  BY LenProperties
<1>2. ASSUME NEW x \in Range(RemoveAt(q, j)) PROVE x \in Range(q)
  <2>1. PICK k \in 1..Len(q) - 1 : x = RemoveAt(q, j)[k]
    BY Removing, InRange
  <2>2. x = q[k] \/ x = q[k + 1]
    BY <2>1, Removing
  <2> QED BY <1>1, <2>2, InRange
<1> QED
  BY <1>2, Removing

LEMMA RangeTail ==
  ASSUME NEW S, NEW q \in Seq(S), q # <<>>
  PROVE  /\ Tail(q) \in Seq(S) /\ Range(Tail(q)) \subseteq Range(q)
         /\ Head(q) \in S /\ Head(q) \in Range(q)
<1>1. /\ Tail(q) \in Seq(S) /\ Len(Tail(q)) = Len(q) - 1 /\ Head(q) \in S
      /\ \A k \in 1..Len(Tail(q)) : Tail(q)[k] = q[k + 1]
  BY HeadTailProperties
<1>2. Len(q) \in Nat /\ Len(q) # 0
  BY LenProperties, EmptySeq
<1>3. ASSUME NEW x \in Range(Tail(q)) PROVE x \in Range(q)
  <2> DEFINE r == Tail(q)
  <2>1. r \in Seq(S) /\ x \in Range(r) /\ Len(r) = Len(q) - 1
    BY <1>1
  <2> HIDE DEF r
  <2>2. PICK k \in 1..Len(q) - 1 : x = r[k]
    BY <2>1, InRange
  <2>3. x = q[k + 1]
    BY <1>1, <2>1, <2>2 DEF r
  <2> QED BY <1>2, <2>2, <2>3, InRange
<1>4. Head(q) = q[1]
  OBVIOUS
<1> QED
  BY <1>1, <1>2, <1>3, <1>4, InRange

-----------------------------------------------------------------------------
(* The lists of the code. *)
LEMMA DroppedIs ==
  ASSUME NEW S, NEW q \in Seq(S), NEW i
  PROVE  \/ Dropped(q, i) = q /\ \A k \in 1..Len(q) : q[k].id # i
         \/ \E j \in 1..Len(q) : q[j].id = i /\ Dropped(q, i) = RemoveAt(q, j)
<1> DEFINE I == {k \in 1..Len(q) : q[k].id = i}
<1>1. Len(q) \in Nat
  BY LenProperties
<1>2. CASE I = {}
  <2>1. ~ \E k \in 1..Len(q) : q[k].id = i
    BY <1>2
  <2>2. Dropped(q, i) = q
    BY <2>1 DEF Dropped, RemoveFirstMatch
  <2> QED BY <2>1, <2>2
<1>3. CASE I # {}
  <2>1. I \in SUBSET Nat
    BY <1>1
  <2>2. Min(I) \in I
    BY <1>3, <2>1, MinIn
  <2>3. Dropped(q, i) = RemoveAt(q, Min(I))
    BY <1>3 DEF Dropped, RemoveFirstMatch, SelectInSeq
  <2>4. Min(I) \in 1..Len(q) /\ q[Min(I)].id = i
    BY <2>2
  <2> QED BY <2>3, <2>4
<1> QED
  BY <1>2, <1>3

LEMMA Peers ==
  ASSUME NEW s \in Station
  PROVE  /\ Peer(s) \in Station /\ Peer(s) # s /\ Peer(Peer(s)) = s
         /\ \A t \in Station : t = s \/ t = Peer(s)
<1>1. PICK a, b \in Station : a # b /\ Station = {a, b}
  BY StationAssumption
<1>2. ASSUME NEW t \in Station PROVE Peer(t) \in Station /\ Peer(t) # t
  <2>1. \E p \in Station : p # t
    BY <1>1
  <2> QED BY <2>1 DEF Peer
<1>3. Peer(s) \in Station /\ Peer(s) # s /\ Peer(Peer(s)) # Peer(s)
      /\ Peer(Peer(s)) \in Station
  BY <1>2
<1> QED
  BY <1>1, <1>3

LEMMA Shapes ==
  /\ \A f : IsFrame(Frame(f)) /\ Frame(f).frame = f
  /\ \A i : ~IsFrame(OnStack(i)) /\ OnStack(i).made = i
  /\ \A i, m : IsData(Data(i, m)) /\ Data(i, m).id = i /\ Data(i, m).msg = m
  /\ \A i : ~IsData(Reply(i)) /\ Reply(i).reply = i
  /\ \A i, m : /\ Waiting(i, m).id = i /\ Waiting(i, m).msg = m
               /\ Waiting(i, m).time = 0
  BY DEF IsFrame, Frame, OnStack, IsData, Data, Reply, Waiting

LEMMA NodeIs ==
  ASSUME NEW n \in Node
  PROVE  \/ IsFrame(n) /\ \E i \in Id, m \in Msg : n = Frame(Data(i, m))
         \/ ~IsFrame(n) /\ \E i \in Id : n = OnStack(i)
  BY Shapes DEF Node

LEMMA WireIs ==
  ASSUME NEW f \in Wire
  PROVE  \/ IsData(f) /\ \E i \in Id, m \in Msg : f = Data(i, m)
         \/ ~IsData(f) /\ \E i \in Id : f = Reply(i)
  BY Shapes DEF Wire

LEMMA Members ==
  /\ \A i \in Id, m \in Msg : Data(i, m) \in Wire /\ Frame(Data(i, m)) \in Node
  /\ \A i \in Id : Reply(i) \in Wire /\ OnStack(i) \in Node
  /\ \A i \in Id, m \in NeedsAck : Waiting(i, m) \in Entry
  BY TimeoutAssumption DEF Wire, Node, Entry, Waiting

LEMMA Ids == \A i \in 0..MaxId + 1 : i <= MaxId => i \in Id
  BY BoundsAssumption DEF Id

-----------------------------------------------------------------------------
(* Types.  A pointer to the stack is in list_send only after a reply was made *)
(* there, so SendReply puts a reply to an id that was drawn on the line.     *)
Pointer == \A s \in Station :
             (\E n \in Range(send[s]) : ~IsFrame(n)) => stack[s] \in Id

Types == TypeOK /\ Pointer

(* What the two helpers of ddc_send_list do to the link and to list_send. *)
LEMMA PutIs ==
  ASSUME TypeOK, NEW s \in Station, NEW f \in Wire, Put(s, f)
  PROVE  /\ link' \in [Station -> Seq(Wire)]
         /\ link'[s] = link[s]
         /\ Range(link'[Peer(s)]) \subseteq Range(link[Peer(s)]) \cup {f}
<1> DEFINE a == Append(link[Peer(s)], f)
<1>1. Peer(s) \in Station /\ Peer(s) # s
  BY Peers
<1>2. link \in [Station -> Seq(Wire)] /\ link[Peer(s)] \in Seq(Wire)
  BY <1>1 DEF TypeOK
<1>3. a \in Seq(Wire) /\ Range(a) = Range(link[Peer(s)]) \cup {f}
  BY <1>2, RangeAppend
<1>4. link' = link \/ link' = [link EXCEPT ![Peer(s)] = a]
  BY DEF Put
<1> HIDE DEF a
<1> QED
  BY <1>1, <1>2, <1>3, <1>4

LEMMA DeleteIs ==
  ASSUME TypeOK, NEW s \in Station, Sending(s),
         NEW j \in 0..Len(send[s]), Delete(s, j)
  PROVE  /\ send' \in [Station -> Seq(Node)]
         /\ Range(send'[s]) \subseteq Range(send[s])
         /\ \A t \in Station : t # s => send'[t] = send[t] /\ pos'[t] = pos[t]
         /\ pos' \in [Station -> Nat \ {0}]
         /\ pos'[s] <= Len(send'[s]) + 1
<1> DEFINE r == RemoveAt(send[s], j)
<1>1. /\ send \in [Station -> Seq(Node)] /\ send[s] \in Seq(Node)
      /\ pos \in [Station -> Nat \ {0}] /\ pos[s] \in Nat \ {0}
      /\ Len(send[s]) \in Nat /\ pos[s] <= Len(send[s])
  BY LenProperties DEF TypeOK, Sending
<1>2. CASE j = 0
  <2>1. send' = send /\ pos' = [pos EXCEPT ![s] = @ + 1]
    BY <1>1, <1>2 DEF Delete
  <2> QED BY <1>1, <2>1
<1>3. CASE j # 0
  <2>1. j \in 1..Len(send[s])
    BY <1>1, <1>3
  <2>2. r \in Seq(Node) /\ Range(r) \subseteq Range(send[s]) /\ Len(r) = Len(send[s]) - 1
    BY <1>1, <2>1, RangeRemove, Removing
  <2>3. /\ send' = [send EXCEPT ![s] = r]
        /\ pos' = [pos EXCEPT ![s] = IF j \in 1..@ THEN @ ELSE @ + 1]
    BY <1>3 DEF Delete
  <2> HIDE DEF r
  <2>4. j \in 1..pos[s] \/ pos[s] + 1 <= Len(send[s])
    BY <1>1, <2>1
  <2> QED BY <1>1, <2>2, <2>3, <2>4
<1> QED
  BY <1>2, <1>3

LEMMA SendingAt ==
  ASSUME TypeOK, NEW s \in Station, Sending(s)
  PROVE  /\ pos[s] \in 1..Len(send[s]) /\ Len(send[s]) \in Nat
         /\ send[s][pos[s]] \in Node /\ send[s][pos[s]] \in Range(send[s])
<1>1. send[s] \in Seq(Node) /\ Len(send[s]) \in Nat /\ pos[s] \in 1..Len(send[s])
  BY LenProperties DEF TypeOK, Sending
<1> QED
  BY <1>1, ElementOfSeq, InRange

LEMMA DeletedAt ==
  ASSUME TypeOK, NEW s \in Station, SendFrame(s) \/ SendReply(s)
  PROVE  \E j \in 0..Len(send[s]) : Delete(s, j)
<1>1. pos[s] \in 1..Len(send[s]) /\ Len(send[s]) \in Nat
  BY SendingAt DEF SendFrame, SendReply
<1>2. OnStacks(s) \subseteq 1..Len(send[s])
  BY DEF OnStacks, TypeOK
<1>3. CASE SendFrame(s)
  BY <1>1, <1>2, <1>3 DEF SendFrame
<1>4. CASE SendReply(s)
  <2>1. pos[s] \in OnStacks(s)
    BY <1>1, <1>4 DEF SendReply, OnStacks
  <2>2. Min(OnStacks(s)) \in 0..Len(send[s])
    <3>1. Min(OnStacks(s)) \in OnStacks(s)
      BY <1>1, <1>2, <2>1, MinIn
    <3> QED BY <1>1, <1>2, <3>1
  <2> QED BY <1>4, <2>2 DEF SendReply
<1> QED
  BY <1>3, <1>4

(* What Dropped does to list_wait_ack. *)
LEMMA DropIs ==
  ASSUME NEW S, NEW q \in Seq(S), NEW i
  PROVE  Dropped(q, i) \in Seq(S) /\ Range(Dropped(q, i)) \subseteq Range(q)
  BY DroppedIs, RangeRemove

LEMMA Places ==
  ASSUME TypeOK, NEW t \in Station
  PROVE  /\ at[t] = "send" => pos[t] <= Len(send[t]) + 1
         /\ at[t] = "walk" => pos[t] <= Len(wait[t]) + 1
<1>1. \A u \in Station : /\ at[u] = "send" => pos[u] <= Len(send[u]) + 1
                         /\ at[u] = "walk" => pos[u] <= Len(wait[u]) + 1
  BY DEF TypeOK
<1> QED
  BY <1>1

(* One step of each kind keeps the types. *)
LEMMA SubmitTyped ==
  ASSUME Types, NEW s \in Station, NEW m \in Msg, Submit(s, m)
  PROVE  Types'
<1> DEFINE n == Frame(Data(id[s], m))
           a == Append(send[s], n)
           w == Waiting(id[s], m)
           b == Append(wait[s], w)
<1>1. /\ id[s] \in Id /\ id' = [id EXCEPT ![s] = @ + 1] /\ at[s] = "idle"
      /\ id' \in [Station -> 0..MaxId + 1]
  BY Ids, BoundsAssumption DEF Types, TypeOK, Submit
<1>2. n \in Node /\ IsFrame(n)
  BY <1>1, Members, Shapes
<1>3. send \in [Station -> Seq(Node)] /\ send[s] \in Seq(Node)
  BY DEF Types, TypeOK
<1>4. a \in Seq(Node) /\ Range(a) = Range(send[s]) \cup {n}
  BY <1>2, <1>3, RangeAppend
<1>5. send' = [send EXCEPT ![s] = a]
  BY DEF Submit
<1>6. send' \in [Station -> Seq(Node)]
  <2> HIDE DEF a
  <2> QED BY <1>3, <1>4, <1>5
<1>7. Pointer'
  <2>1. ASSUME NEW t \in Station, NEW x \in Range(send'[t]), ~IsFrame(x)
        PROVE  x \in Range(send[t])
    <3> HIDE DEF a, n
    <3> QED BY <1>2, <1>3, <1>4, <1>5, <2>1
  <2>2. stack' = stack
    BY DEF Submit
  <2> QED BY <2>1, <2>2 DEF Types, Pointer
<1>8. wait' \in [Station -> Seq(Entry)]
  <2>1. wait \in [Station -> Seq(Entry)]
    BY DEF Types, TypeOK
  <2>2. CASE m \in NeedsAck
    <3>1. b \in Seq(Entry)
      <4>1. w \in Entry
        BY <1>1, <2>2, Members
      <4> HIDE DEF w
      <4> QED BY <2>1, <4>1, RangeAppend
    <3>2. wait' = [wait EXCEPT ![s] = b]
      BY <2>2 DEF Submit
    <3> HIDE DEF b
    <3> QED BY <2>1, <3>1, <3>2
  <2>3. CASE m \notin NeedsAck
    BY <2>1, <2>3 DEF Submit
  <2> QED BY <2>2, <2>3
<1>9. \A t \in Station :
        /\ at[t] = "send" => pos[t] <= Len(send'[t]) + 1
        /\ at[t] = "walk" => pos[t] <= Len(wait'[t]) + 1
  <2>1. ASSUME NEW t \in Station, t # s
        PROVE  send'[t] = send[t] /\ wait'[t] = wait[t]
    BY <2>1 DEF Types, TypeOK, Submit
  <2>2. ASSUME NEW t \in Station
        PROVE  /\ at[t] = "send" => pos[t] <= Len(send'[t]) + 1
               /\ at[t] = "walk" => pos[t] <= Len(wait'[t]) + 1
    <3>1. CASE t = s
      BY <1>1, <3>1
    <3>2. CASE t # s
      <4>1. /\ at[t] = "send" => pos[t] <= Len(send[t]) + 1
            /\ at[t] = "walk" => pos[t] <= Len(wait[t]) + 1
        BY Places DEF Types
      <4> QED BY <2>1, <3>2, <4>1
    <3> QED BY <3>1, <3>2
  <2> QED BY <2>2
<1> QED
  BY <1>1, <1>6, <1>7, <1>8, <1>9 DEF Types, TypeOK, Submit

LEMMA SendTyped ==
  ASSUME Types, NEW s \in Station, SendFrame(s) \/ SendReply(s)
  PROVE  Types'
<1>1. link' \in [Station -> Seq(Wire)]
  <2> DEFINE n == send[s][pos[s]]
  <2>1. n \in Node /\ n \in Range(send[s]) /\ link \in [Station -> Seq(Wire)]
    BY SendingAt DEF Types, TypeOK, SendFrame, SendReply
  <2>2. CASE SendFrame(s)
    <3>1. n.frame \in Wire
      BY <2>1, <2>2, NodeIs, Shapes, Members DEF SendFrame
    <3> QED BY <2>2, <3>1, PutIs DEF SendFrame, Types
  <2>3. CASE SendReply(s)
    <3>1. Reply(stack[s]) \in Wire
      BY <2>1, <2>3, Members DEF SendReply, Types, Pointer
    <3>2. Put(s, Reply(stack[s])) \/ UNCHANGED link
      BY <2>3 DEF SendReply
    <3> QED BY <2>1, <3>1, <3>2, PutIs DEF Types
  <2> QED BY <2>2, <2>3
<1>2. PICK j \in 0..Len(send[s]) : Delete(s, j)
  BY DeletedAt DEF Types
<1>3. Sending(s) /\ at[s] = "send" /\ UNCHANGED <<id, wait, stack, at, submitted, delivered>>
  BY DEF SendFrame, SendReply, Sending
<1>4. /\ send' \in [Station -> Seq(Node)]
      /\ Range(send'[s]) \subseteq Range(send[s])
      /\ \A t \in Station : t # s => send'[t] = send[t] /\ pos'[t] = pos[t]
      /\ pos' \in [Station -> Nat \ {0}]
      /\ pos'[s] <= Len(send'[s]) + 1
  BY <1>2, <1>3, DeleteIs DEF Types
<1>5. Pointer'
  BY <1>3, <1>4 DEF Types, Pointer
<1>6. \A t \in Station : /\ at[t] = "send" => pos'[t] <= Len(send'[t]) + 1
                         /\ at[t] = "walk" => pos'[t] <= Len(wait[t]) + 1
  BY <1>3, <1>4 DEF Types, TypeOK
<1> QED
  BY <1>1, <1>3, <1>4, <1>5, <1>6 DEF Types, TypeOK

LEMMA WalkTyped ==
  ASSUME Types, NEW s \in Station,
         Loop(s) \/ SendEnd(s) \/ CheckDue(s) \/ CheckEnd(s) \/ CheckNotDue(s)
           \/ RecvEnd(s)
  PROVE  Types'
<1>1. UNCHANGED <<id, send, wait, stack, link, submitted, delivered>>
  BY DEF Loop, SendEnd, CheckDue, CheckEnd, CheckNotDue, RecvEnd, lists
<1>2. \E a \in {"idle", "send", "check", "walk", "recv"} :
        /\ at' = [at EXCEPT ![s] = a]
        /\ IF a \in {"send", "walk"} THEN pos' = [pos EXCEPT ![s] = 1] ELSE pos' = pos
  BY DEF Loop, SendEnd, CheckDue, CheckEnd, CheckNotDue, RecvEnd
<1>3. PICK a \in {"idle", "send", "check", "walk", "recv"} :
        /\ at' = [at EXCEPT ![s] = a]
        /\ IF a \in {"send", "walk"} THEN pos' = [pos EXCEPT ![s] = 1] ELSE pos' = pos
  BY <1>2
<1>4. /\ at' \in [Station -> {"idle", "send", "check", "walk", "recv"}]
      /\ pos' \in [Station -> Nat \ {0}]
  <2>1. /\ at \in [Station -> {"idle", "send", "check", "walk", "recv"}]
        /\ pos \in [Station -> Nat \ {0}]
    BY DEF Types, TypeOK
  <2>2. at' \in [Station -> {"idle", "send", "check", "walk", "recv"}]
    BY <1>3, <2>1
  <2>3. pos' = [pos EXCEPT ![s] = 1] \/ pos' = pos
    BY <1>3
  <2>4. pos' \in [Station -> Nat \ {0}]
    BY <2>1, <2>3
  <2> QED BY <2>2, <2>4
<1>5. ASSUME NEW t \in Station
      PROVE  /\ at'[t] = "send" => pos'[t] <= Len(send[t]) + 1
             /\ at'[t] = "walk" => pos'[t] <= Len(wait[t]) + 1
  <2>1. Len(send[t]) \in Nat /\ Len(wait[t]) \in Nat
    BY LenProperties DEF Types, TypeOK
  <2>2. /\ at[t] = "send" => pos[t] <= Len(send[t]) + 1
        /\ at[t] = "walk" => pos[t] <= Len(wait[t]) + 1
    BY Places DEF Types
  <2>3. CASE t # s
    <3>1. at'[t] = at[t] /\ pos'[t] = pos[t]
      BY <1>3, <2>3 DEF Types, TypeOK
    <3> QED BY <2>2, <3>1
  <2>4. CASE t = s
    <3>1. at'[t] = a /\ (a \in {"send", "walk"} => pos'[t] = 1)
      BY <1>3, <2>4 DEF Types, TypeOK
    <3> QED BY <2>1, <3>1
  <2> QED BY <2>3, <2>4
<1>6. Pointer'
  BY <1>1 DEF Types, Pointer
<1> QED
  BY <1>1, <1>4, <1>5, <1>6 DEF Types, TypeOK

LEMMA CountIs ==
  ASSUME Types, NEW s \in Station, Count(s), NEW t \in Station
  PROVE  /\ wait[t] \in Seq(Entry) /\ wait'[t] \in Seq(Entry)
         /\ Len(wait'[t]) = Len(wait[t])
         /\ \A k \in 1..Len(wait[t]) : /\ wait'[t][k].id = wait[t][k].id
                                       /\ wait'[t][k].msg = wait[t][k].msg
<1> DEFINE w == wait[s][pos[s]]
           e == [w EXCEPT !.time = @ + 1]
           q == [wait[s] EXCEPT ![pos[s]] = e]
<1>1. /\ wait \in [Station -> Seq(Entry)] /\ wait[s] \in Seq(Entry)
      /\ wait[t] \in Seq(Entry) /\ pos[s] \in 1..Len(wait[s])
  BY LenProperties DEF Types, TypeOK, Count, Walking
<1>2. w \in Entry /\ ~IsDue(w)
  BY <1>1, ElementOfSeq DEF Count
<1>3. e \in Entry /\ e.id = w.id /\ e.msg = w.msg
  <2> HIDE DEF w
  <2> QED BY <1>2, TimeoutAssumption DEF Entry, IsDue
<1>4. /\ q \in Seq(Entry) /\ Len(q) = Len(wait[s])
      /\ \A k \in 1..Len(wait[s]) : q[k] = IF k = pos[s] THEN e ELSE wait[s][k]
  <2> HIDE DEF e
  <2> QED BY <1>1, <1>3, ExceptSeq
<1>5. wait' = [wait EXCEPT ![s] = q]
  BY <1>1 DEF Count
<1>6. CASE t = s
  <2> HIDE DEF q, e
  <2> QED BY <1>1, <1>3, <1>4, <1>5, <1>6
<1>7. CASE t # s
  BY <1>1, <1>5, <1>7
<1> QED
  BY <1>6, <1>7

LEMMA CountTyped ==
  ASSUME Types, NEW s \in Station, Count(s)
  PROVE  Types'
<1> DEFINE k == pos[s]
           w == wait[s][k]
           e == [w EXCEPT !.time = @ + 1]
           q == [wait[s] EXCEPT ![k] = e]
<1>1. /\ wait \in [Station -> Seq(Entry)] /\ wait[s] \in Seq(Entry)
      /\ k \in 1..Len(wait[s]) /\ Len(wait[s]) \in Nat /\ pos[s] \in Nat
      /\ at[s] = "walk" /\ pos \in [Station -> Nat \ {0}]
  BY LenProperties DEF Types, TypeOK, Count, Walking
<1>2. w \in Entry /\ ~IsDue(w)
  BY <1>1, ElementOfSeq DEF Count
<1>3. e \in Entry
  <2> HIDE DEF w
  <2> QED BY <1>2, TimeoutAssumption DEF Entry, IsDue
<1>4. q \in Seq(Entry) /\ Len(q) = Len(wait[s])
  <2> HIDE DEF e, k
  <2> QED BY <1>1, <1>3, ExceptSeq
<1>5. wait' = [wait EXCEPT ![s] = q]
  BY <1>1 DEF Count
<1>6. /\ wait' \in [Station -> Seq(Entry)] /\ wait'[s] = q
      /\ \A t \in Station : t # s => wait'[t] = wait[t]
  <2> HIDE DEF q
  <2> QED BY <1>1, <1>4, <1>5
<1>7. /\ pos' \in [Station -> Nat \ {0}] /\ pos'[s] = k + 1
      /\ \A t \in Station : t # s => pos'[t] = pos[t]
  BY <1>1 DEF Count
<1>8. UNCHANGED <<id, send, stack, link, at, submitted, delivered>>
  BY DEF Count
<1>9. ASSUME NEW t \in Station
      PROVE  /\ at[t] = "send" => pos'[t] <= Len(send[t]) + 1
             /\ at[t] = "walk" => pos'[t] <= Len(wait'[t]) + 1
  <2>1. /\ at[t] = "send" => pos[t] <= Len(send[t]) + 1
        /\ at[t] = "walk" => pos[t] <= Len(wait[t]) + 1
    BY Places DEF Types
  <2> HIDE DEF q
  <2>2. CASE t = s
    BY <1>1, <1>4, <1>6, <1>7, <2>2
  <2>3. CASE t # s
    BY <1>6, <1>7, <2>1, <2>3
  <2> QED BY <2>2, <2>3
<1>10. Pointer'
  BY <1>8 DEF Types, Pointer
<1> QED
  <2> HIDE DEF q, k
  <2> QED BY <1>6, <1>7, <1>8, <1>9, <1>10 DEF Types, TypeOK

LEMMA RetryAt ==
  ASSUME TypeOK, NEW s \in Station, Retry(s)
  PROVE  /\ wait \in [Station -> Seq(Entry)] /\ wait[s] \in Seq(Entry)
         /\ send \in [Station -> Seq(Node)] /\ send[s] \in Seq(Node)
         /\ Len(wait[s]) \in Nat /\ pos[s] \in 1..Len(wait[s]) /\ at[s] = "walk"
         /\ id[s] \in Id /\ id' = [id EXCEPT ![s] = @ + 1]
<1>1. /\ Walking(s) /\ id[s] <= MaxId /\ id' = [id EXCEPT ![s] = @ + 1]
  BY DEF Retry
<1>2. /\ id \in [Station -> 0..MaxId + 1] /\ pos \in [Station -> Nat \ {0}]
      /\ wait \in [Station -> Seq(Entry)] /\ send \in [Station -> Seq(Node)]
  BY DEF TypeOK
<1>3. id[s] \in Id
  BY <1>1, <1>2, Ids
<1>4. Len(wait[s]) \in Nat /\ pos[s] \in 1..Len(wait[s]) /\ at[s] = "walk"
  BY <1>1, <1>2, LenProperties DEF Walking
<1> QED
  BY <1>1, <1>2, <1>3, <1>4

LEMMA RetryTyped ==
  ASSUME Types, NEW s \in Station, Retry(s)
  PROVE  Types'
<1> DEFINE w == wait[s][pos[s]]
           n == Frame(Data(id[s], w.msg))
           a == Append(send[s], n)
           e == Waiting(id[s], w.msg)
           b == Append(wait[s], e)
           d == Dropped(b, w.id)
<1>1. /\ wait \in [Station -> Seq(Entry)] /\ wait[s] \in Seq(Entry)
      /\ send \in [Station -> Seq(Node)] /\ send[s] \in Seq(Node)
      /\ pos[s] \in 1..Len(wait[s]) /\ Len(wait[s]) \in Nat
      /\ at[s] = "walk"
  BY RetryAt DEF Types
<1>2. w \in Entry /\ w.msg \in NeedsAck /\ w.id \in Id
  <2>1. w \in Entry
    BY <1>1, ElementOfSeq
  <2> HIDE DEF w
  <2> QED BY <2>1 DEF Entry
<1>3. /\ id[s] \in Id /\ id' = [id EXCEPT ![s] = @ + 1]
      /\ id' \in [Station -> 0..MaxId + 1]
  BY Ids, BoundsAssumption DEF Types, TypeOK, Retry
<1>4. n \in Node /\ IsFrame(n) /\ e \in Entry
  BY <1>2, <1>3, Members, Shapes, AckAssumption
<1>5. a \in Seq(Node) /\ Range(a) = Range(send[s]) \cup {n}
  <2> HIDE DEF n
  <2> QED BY <1>1, <1>4, RangeAppend
<1>6. /\ b \in Seq(Entry) /\ Len(b) = Len(wait[s]) + 1
      /\ \A k \in 1..Len(wait[s]) : b[k] = wait[s][k]
  <2> HIDE DEF e
  <2> QED BY <1>1, <1>4, AppendProperties
<1>7. d \in Seq(Entry) /\ Len(d) = Len(wait[s])
  <2>1. pos[s] \in 1..Len(b) /\ b[pos[s]].id = w.id
    BY <1>1, <1>6
  <2> HIDE DEF b, w
  <2>2. PICK j \in 1..Len(b) : d = RemoveAt(b, j)
    BY <1>6, <2>1, DroppedIs
  <2>3. RemoveAt(b, j) \in Seq(Entry) /\ Len(RemoveAt(b, j)) = Len(b) - 1
    BY <1>6, Removing
  <2> HIDE DEF d
  <2> QED BY <1>1, <1>6, <2>2, <2>3
<1>8. /\ send' = [send EXCEPT ![s] = a] /\ wait' = [wait EXCEPT ![s] = d]
      /\ UNCHANGED <<stack, link, at, pos, submitted, delivered>>
  BY DEF Retry
<1> HIDE DEF w, n, a, e, b, d
<1>9. send' \in [Station -> Seq(Node)] /\ wait' \in [Station -> Seq(Entry)]
  BY <1>1, <1>5, <1>7, <1>8
<1>10. Pointer'
  <2>1. ASSUME NEW t \in Station, NEW x \in Range(send'[t]), ~IsFrame(x)
        PROVE  x \in Range(send[t])
    BY <1>1, <1>4, <1>5, <1>8, <2>1
  <2> QED BY <1>8, <2>1 DEF Types, Pointer
<1>11. ASSUME NEW t \in Station
       PROVE  /\ at[t] = "send" => pos[t] <= Len(send'[t]) + 1
              /\ at[t] = "walk" => pos[t] <= Len(wait'[t]) + 1
  <2>1. /\ at[t] = "send" => pos[t] <= Len(send[t]) + 1
        /\ at[t] = "walk" => pos[t] <= Len(wait[t]) + 1
    BY Places DEF Types
  <2>2. CASE t = s
    <3>1. wait'[s] = d
      BY <1>1, <1>8
    <3> QED BY <1>1, <1>7, <2>2, <3>1
  <2>3. CASE t # s
    <3>1. send'[t] = send[t] /\ wait'[t] = wait[t]
      BY <1>1, <1>8, <2>3
    <3> QED BY <2>1, <3>1
  <2> QED BY <2>2, <2>3
<1> QED
  BY <1>3, <1>8, <1>9, <1>10, <1>11 DEF Types, TypeOK

LEMMA RecvTyped ==
  ASSUME Types, NEW s \in Station, RecvReply(s) \/ RecvData(s)
  PROVE  Types'
<1> DEFINE f == Head(link[s])
           d == Dropped(wait[s], f.reply)
           n == OnStack(f.id)
           a == Append(send[s], n)
<1>1. /\ wait \in [Station -> Seq(Entry)] /\ wait[s] \in Seq(Entry)
      /\ send \in [Station -> Seq(Node)] /\ send[s] \in Seq(Node)
      /\ link \in [Station -> Seq(Wire)] /\ link[s] \in Seq(Wire)
      /\ link[s] # <<>> /\ link' = [link EXCEPT ![s] = Tail(link[s])]
      /\ at[s] = "recv" /\ UNCHANGED <<at, pos, submitted>>
  BY DEF Types, TypeOK, RecvReply, RecvData, Receive
<1>2. Tail(link[s]) \in Seq(Wire) /\ f \in Wire
  BY <1>1, RangeTail
<1>3. link' \in [Station -> Seq(Wire)]
  BY <1>1, <1>2
<1>4. CASE RecvReply(s)
  <2>1. d \in Seq(Entry)
    BY <1>1, DropIs
  <2>2. wait' = [wait EXCEPT ![s] = d] /\ UNCHANGED <<id, send, stack, delivered>>
    BY <1>4 DEF RecvReply
  <2> HIDE DEF d
  <2>3. /\ wait' \in [Station -> Seq(Entry)]
        /\ \A t \in Station : t # s => wait'[t] = wait[t]
    BY <1>1, <2>1, <2>2
  <2>4. \A t \in Station : /\ at[t] = "send" => pos[t] <= Len(send[t]) + 1
                           /\ at[t] = "walk" => pos[t] <= Len(wait'[t]) + 1
    BY <1>1, <2>3, Places DEF Types
  <2>5. Pointer'
    BY <2>2 DEF Types, Pointer
  <2> QED BY <1>1, <1>3, <2>2, <2>3, <2>4, <2>5 DEF Types, TypeOK
<1>5. CASE RecvData(s)
  <2>1. IsData(f) /\ delivered' = delivered \cup {f.msg} /\ wait' = wait
    BY <1>5 DEF RecvData
  <2>2. f.id \in Id /\ f.msg \in Msg
    <3> HIDE DEF f
    <3> QED BY <1>2, <2>1, WireIs, Shapes
  <2>3. CASE f.msg \in NeedsAck
    <3>1. /\ id' = [id EXCEPT ![s] = @ + 1] /\ id[s] <= MaxId
          /\ stack' = [stack EXCEPT ![s] = f.id]
          /\ send' = [send EXCEPT ![s] = a]
      BY <1>5, <2>3 DEF RecvData, Answered
    <3>2. /\ id' \in [Station -> 0..MaxId + 1]
      BY <3>1, BoundsAssumption DEF Types, TypeOK
    <3>3. stack' \in [Station -> 0..None] /\ stack'[s] \in Id
      <4>1. f.id \in 0..None
        BY <2>2, BoundsAssumption DEF Id, None
      <4> HIDE DEF f
      <4> QED BY <2>2, <3>1, <4>1 DEF Types, TypeOK
    <3>4. n \in Node
      BY <2>2, Members
    <3>5. a \in Seq(Node)
      <4> HIDE DEF n
      <4> QED BY <1>1, <3>4, RangeAppend
    <3> HIDE DEF f, a, n
    <3>6. /\ send' \in [Station -> Seq(Node)]
          /\ \A t \in Station : t # s => send'[t] = send[t] /\ stack'[t] = stack[t]
      BY <1>1, <3>1, <3>5 DEF Types, TypeOK
    <3>7. Pointer'
      BY <3>3, <3>6 DEF Types, Pointer
    <3>8. \A t \in Station : /\ at[t] = "send" => pos[t] <= Len(send'[t]) + 1
                             /\ at[t] = "walk" => pos[t] <= Len(wait'[t]) + 1
      BY <1>1, <2>1, <3>6, Places DEF Types
    <3> QED BY <1>1, <1>3, <2>1, <2>2, <3>2, <3>3, <3>6, <3>7, <3>8 DEF Types, TypeOK
  <2>4. CASE f.msg \notin NeedsAck
    <3>1. UNCHANGED <<id, stack, send>>
      BY <1>5, <2>4 DEF RecvData
    <3> HIDE DEF f
    <3>2. Pointer'
      BY <3>1 DEF Types, Pointer
    <3> QED BY <1>1, <1>3, <2>1, <2>2, <3>1, <3>2 DEF Types, TypeOK
  <2> QED BY <2>3, <2>4
<1> QED
  BY <1>4, <1>5

LEMMA LoseTyped ==
  ASSUME Types, NEW s \in Station, Lose(s)
  PROVE  Types'
<1>1. PICK j \in DOMAIN link[s] : link' = [link EXCEPT ![s] = RemoveAt(@, j)]
  BY DEF Lose
<1>2. link \in [Station -> Seq(Wire)] /\ link[s] \in Seq(Wire)
  BY DEF Types, TypeOK
<1>3. RemoveAt(link[s], j) \in Seq(Wire)
  BY <1>1, <1>2, Removing
<1>4. link' \in [Station -> Seq(Wire)]
  BY <1>1, <1>2, <1>3
<1>5. UNCHANGED <<id, send, wait, stack, at, pos, submitted, delivered>>
  BY DEF Lose, lists
<1> QED
  BY <1>4, <1>5 DEF Types, TypeOK, Pointer

LEMMA InitTyped == Init => Types
<1> SUFFICES ASSUME Init PROVE Types
  OBVIOUS
<1>1. \A t \in Station : send[t] = <<>> /\ wait[t] = <<>> /\ link[t] = <<>>
  BY DEF Init
<1>2. /\ send \in [Station -> Seq(Node)] /\ wait \in [Station -> Seq(Entry)]
      /\ link \in [Station -> Seq(Wire)]
  BY DEF Init
<1>3. /\ id \in [Station -> 0..MaxId + 1] /\ stack \in [Station -> 0..None]
      /\ pos \in [Station -> Nat \ {0}]
  BY BoundsAssumption DEF Init, None
<1>4. \A t \in Station : at[t] = "idle"
  BY DEF Init
<1>5. Pointer
  <2>1. \A t \in Station : \A n : n \notin Range(send[t])
    BY <1>1, <1>2, InRange
  <2> QED BY <2>1 DEF Pointer
<1> QED
  BY <1>2, <1>3, <1>4, <1>5 DEF Types, TypeOK, Init

LEMMA StepTyped == Types /\ [Next]_vars => Types'
<1> SUFFICES ASSUME Types, [Next]_vars PROVE Types'
  OBVIOUS
<1>1. CASE UNCHANGED vars
  BY <1>1 DEF vars, lists, Types, TypeOK, Pointer
<1>2. CASE Next
  BY <1>2, SubmitTyped, SendTyped, WalkTyped, CountTyped, RetryTyped, RecvTyped,
     LoseTyped DEF Next, ddc_loop
<1> QED
  BY <1>1, <1>2

-----------------------------------------------------------------------------
(* What an id stands for, seen from the board s that drew it: the message it *)
(* waits for under that id, the one it has sent or is to send under it, and  *)
(* the replies, made or on their way, that will settle it.                  *)
Waits(s, i, m) == \E w \in Range(wait[s]) : w.id = i /\ w.msg = m
Sent(s, i, m)  == \/ Frame(Data(i, m)) \in Range(send[s])
                  \/ Data(i, m) \in Range(link[Peer(s)])
Settles(s, i)  == stack[Peer(s)] = i \/ Reply(i) \in Range(link[s])

(* An id is waited for and sent with one message; it was drawn; a reply to   *)
(* it tells the truth; its message was submitted here.                      *)
Agreed == \A s \in Station, i \in Id, m, n \in Msg :
            Waits(s, i, m) /\ Sent(s, i, n) => m = n
Drawn  == \A s \in Station, i \in Id :
            (Settles(s, i) \/ \E m \in Msg : Waits(s, i, m) \/ Sent(s, i, m))
              => i < id[s]
Right  == \A s \in Station, i \in Id, m \in Msg :
            Waits(s, i, m) /\ Settles(s, i) => m \in delivered
Known  == \A s \in Station, i \in Id, m \in Msg :
            /\ Waits(s, i, m) => Source[m] = s
            /\ Waits(s, i, m) \/ Sent(s, i, m) => m \in submitted

Linked == Agreed /\ Drawn /\ Right /\ Known

(* Most steps add nothing. *)
LEMMA Shrinks ==
  ASSUME Linked, TypeOK, TypeOK',
         \A s \in Station, i \in Id, m \in Msg :
           /\ Waits(s, i, m)' => Waits(s, i, m)
           /\ Sent(s, i, m)' => Sent(s, i, m),
         \A s \in Station, i \in Id : Settles(s, i)' => Settles(s, i),
         \A s \in Station : id[s] <= id'[s],
         submitted \subseteq submitted', delivered \subseteq delivered'
  PROVE  Linked'
<1>1. Agreed'
  BY DEF Linked, Agreed
<1>2. Drawn'
  <2>1. \A s \in Station : id[s] \in Nat /\ id'[s] \in Nat
    BY BoundsAssumption DEF TypeOK
  <2> QED BY <2>1 DEF Linked, Drawn, Id
<1>3. Right'
  BY DEF Linked, Right
<1>4. Known'
  BY DEF Linked, Known
<1> QED
  BY <1>1, <1>2, <1>3, <1>4 DEF Linked

(* Submit and Retry draw an id for one message. *)
LEMMA Draws ==
  ASSUME Linked, TypeOK, TypeOK', NEW p \in Station, NEW x \in Msg,
         \A s \in Station, i \in Id, m \in Msg :
           /\ Waits(s, i, m)' => Waits(s, i, m) \/ (s = p /\ i = id[p] /\ m = x)
           /\ Sent(s, i, m)' => Sent(s, i, m) \/ (s = p /\ i = id[p] /\ m = x),
         \A s \in Station, i \in Id : Settles(s, i)' => Settles(s, i),
         id[p] \in Id, id' = [id EXCEPT ![p] = @ + 1],
         submitted \subseteq submitted', delivered \subseteq delivered',
         x \in submitted', Source[x] = p
  PROVE  Linked'
<1> DEFINE New(s, i, m) == s = p /\ i = id[p] /\ m = x
<1>1. \A s \in Station : id[s] \in Nat /\ id'[s] = IF s = p THEN id[p] + 1 ELSE id[s]
  BY BoundsAssumption DEF TypeOK
<1>2. \A s \in Station, i \in Id, m, n \in Msg :
        New(s, i, m) => ~Waits(s, i, n) /\ ~Sent(s, i, n) /\ ~Settles(s, i)
  BY <1>1 DEF Linked, Drawn
<1>3. Agreed'
  <2> SUFFICES ASSUME NEW s \in Station, NEW i \in Id, NEW m \in Msg, NEW n \in Msg,
                      Waits(s, i, m)', Sent(s, i, n)'
               PROVE  m = n
    BY DEF Agreed
  <2>1. Waits(s, i, m) \/ New(s, i, m)
    OBVIOUS
  <2>2. Sent(s, i, n) \/ New(s, i, n)
    OBVIOUS
  <2>3. CASE New(s, i, m) \/ New(s, i, n)
    <3>1. ~Waits(s, i, m) /\ ~Sent(s, i, n)
      BY <1>2, <2>3
    <3> QED BY <2>1, <2>2, <3>1
  <2>4. CASE Waits(s, i, m) /\ Sent(s, i, n)
    BY <2>4 DEF Linked, Agreed
  <2> QED BY <2>1, <2>2, <2>3, <2>4
<1>4. Drawn'
  <2> SUFFICES ASSUME NEW s \in Station, NEW i \in Id,
                      Settles(s, i)' \/ \E m \in Msg : Waits(s, i, m)' \/ Sent(s, i, m)'
               PROVE  i < id'[s]
    BY DEF Drawn
  <2>1. \/ Settles(s, i) \/ \E m \in Msg : Waits(s, i, m) \/ Sent(s, i, m)
        \/ s = p /\ i = id[p]
    OBVIOUS
  <2>2. CASE s = p /\ i = id[p]
    BY <1>1, <2>2
  <2>3. CASE Settles(s, i) \/ \E m \in Msg : Waits(s, i, m) \/ Sent(s, i, m)
    <3>1. i < id[s]
      BY <2>3 DEF Linked, Drawn
    <3> QED BY <1>1, <3>1 DEF Id
  <2> QED BY <2>1, <2>2, <2>3
<1>5. Right'
  <2> SUFFICES ASSUME NEW s \in Station, NEW i \in Id, NEW m \in Msg,
                      Waits(s, i, m)', Settles(s, i)'
               PROVE  m \in delivered'
    BY DEF Right
  <2>1. Settles(s, i) /\ (Waits(s, i, m) \/ New(s, i, m))
    OBVIOUS
  <2>2. ~New(s, i, m)
    BY <1>2, <2>1
  <2> QED BY <2>1, <2>2 DEF Linked, Right
<1>6. Known'
  <2> SUFFICES ASSUME NEW s \in Station, NEW i \in Id, NEW m \in Msg
               PROVE  /\ Waits(s, i, m)' => Source[m] = s
                      /\ Waits(s, i, m)' \/ Sent(s, i, m)' => m \in submitted'
    BY DEF Known
  <2>1. CASE New(s, i, m)
    BY <2>1
  <2>2. CASE ~New(s, i, m)
    <3>1. (Waits(s, i, m)' => Waits(s, i, m)) /\ (Sent(s, i, m)' => Sent(s, i, m))
      BY <2>2
    <3> QED BY <3>1 DEF Linked, Known
  <2> QED BY <2>1, <2>2
<1> QED
  BY <1>3, <1>4, <1>5, <1>6 DEF Linked

(* RecvData at the board p: the reply it may make settles the id of a frame  *)
(* of its peer's, whose message it has delivered.                           *)
LEMMA Answers ==
  ASSUME Linked, TypeOK, TypeOK', NEW p \in Station, NEW j \in Id, NEW x \in Msg,
         Sent(p, j, x), x \in delivered',
         \A s \in Station, i \in Id, m \in Msg :
           /\ Waits(s, i, m)' => Waits(s, i, m)
           /\ Sent(s, i, m)' => Sent(s, i, m),
         \A s \in Station, i \in Id :
             Settles(s, i)' => Settles(s, i) \/ (s = p /\ i = j),
         \A s \in Station : id[s] <= id'[s],
         submitted \subseteq submitted', delivered \subseteq delivered'
  PROVE  Linked'
<1>1. Agreed'
  BY DEF Linked, Agreed
<1>2. Drawn'
  <2>1. \A s \in Station : id[s] \in Nat /\ id'[s] \in Nat
    BY BoundsAssumption DEF TypeOK
  <2>2. j < id[p]
    BY DEF Linked, Drawn
  <2>3. ASSUME NEW s \in Station, NEW i \in Id,
               Settles(s, i)' \/ \E m \in Msg : Waits(s, i, m)' \/ Sent(s, i, m)'
        PROVE  i < id[s]
    <3>1. CASE s = p /\ i = j
      BY <2>2, <3>1
    <3>2. CASE ~(s = p /\ i = j)
      <4>1. Settles(s, i) \/ \E m \in Msg : Waits(s, i, m) \/ Sent(s, i, m)
        BY <2>3, <3>2
      <4> QED BY <4>1 DEF Linked, Drawn
    <3> QED BY <3>1, <3>2
  <2> QED BY <2>1, <2>3 DEF Drawn, Id
<1>3. Right'
  <2> SUFFICES ASSUME NEW s \in Station, NEW i \in Id, NEW m \in Msg,
                      Waits(s, i, m)', Settles(s, i)'
               PROVE  m \in delivered'
    BY DEF Right
  <2>1. CASE s = p /\ i = j
    <3>1. Waits(p, j, m)
      BY <2>1
    <3>2. m = x
      BY <3>1 DEF Linked, Agreed
    <3> QED BY <3>2
  <2>2. CASE ~(s = p /\ i = j)
    <3>1. Waits(s, i, m) /\ Settles(s, i)
      BY <2>2
    <3> QED BY <3>1 DEF Linked, Right
  <2> QED BY <2>1, <2>2
<1>4. Known'
  BY DEF Linked, Known
<1> QED
  BY <1>1, <1>2, <1>3, <1>4 DEF Linked

LEMMA Quiet ==
  ASSUME Linked, TypeOK, TypeOK', stack' = stack,
         \A s \in Station : \A w \in Range(wait'[s]) :
           \E v \in Range(wait[s]) : v.id = w.id /\ v.msg = w.msg,
         \A s \in Station : Range(send'[s]) \subseteq Range(send[s]),
         \A s \in Station : \A f \in Range(link'[s]) :
           \/ f \in Range(link[s])
           \/ Frame(f) \in Range(send[Peer(s)])
           \/ f = Reply(stack[Peer(s)]),
         \A s \in Station : id[s] <= id'[s],
         submitted \subseteq submitted', delivered \subseteq delivered'
  PROVE  Linked'
<1>1. ASSUME NEW s \in Station, NEW i \in Id, NEW m \in Msg
      PROVE  /\ Waits(s, i, m)' => Waits(s, i, m)
             /\ Sent(s, i, m)' => Sent(s, i, m)
  <2>1. Waits(s, i, m)' => Waits(s, i, m)
    BY DEF Waits
  <2>2. Peer(s) \in Station /\ Peer(Peer(s)) = s
    BY Peers
  <2>3. Data(i, m) # Reply(stack[Peer(Peer(s))])
    BY Shapes
  <2>4. Sent(s, i, m)' => Sent(s, i, m)
    BY <2>2, <2>3 DEF Sent
  <2> QED BY <2>1, <2>4
<1>2. ASSUME NEW s \in Station, NEW i \in Id
      PROVE  Settles(s, i)' => Settles(s, i)
  <2>1. Peer(s) \in Station /\ send[Peer(s)] \in Seq(Node)
    BY Peers DEF TypeOK
  <2>2. Frame(Reply(i)) \notin Range(send[Peer(s)])
    <3>1. ASSUME Frame(Reply(i)) \in Range(send[Peer(s)]) PROVE FALSE
      <4>1. Frame(Reply(i)) \in Node
        BY <2>1, <3>1, InRange, ElementOfSeq
      <4> QED BY <4>1, NodeIs, Shapes
    <3> QED BY <3>1
  <2>3. Reply(i) = Reply(stack[Peer(s)]) => i = stack[Peer(s)]
    BY Shapes
  <2> QED BY <2>2, <2>3 DEF Settles
<1> QED
  BY <1>1, <1>2, Shrinks

(* The steps that only move what is there. *)
LEMMA MoveLinked ==
  ASSUME Linked, Types, Types', NEW s \in Station,
         \/ SendFrame(s) \/ SendReply(s) \/ Lose(s)
         \/ Loop(s) \/ SendEnd(s) \/ CheckDue(s) \/ CheckEnd(s) \/ CheckNotDue(s)
         \/ RecvEnd(s) \/ RecvReply(s)
  PROVE  Linked'
<1>1. UNCHANGED <<id, stack, submitted, delivered>>
  BY DEF SendFrame, SendReply, Lose, Loop, SendEnd, CheckDue, CheckEnd,
         CheckNotDue, RecvEnd, RecvReply, lists
<1>2. /\ TypeOK /\ TypeOK' /\ \A t \in Station : id[t] \in Nat
      /\ \A t \in Station : /\ send[t] \in Seq(Node) /\ wait[t] \in Seq(Entry)
                            /\ link[t] \in Seq(Wire)
      /\ link \in [Station -> Seq(Wire)] /\ wait \in [Station -> Seq(Entry)]
  <2>1. TypeOK /\ TypeOK'
    BY DEF Types
  <2>2. /\ id \in [Station -> 0..MaxId + 1] /\ send \in [Station -> Seq(Node)]
        /\ link \in [Station -> Seq(Wire)] /\ wait \in [Station -> Seq(Entry)]
    BY <2>1 DEF TypeOK
  <2>3. \A t \in Station : id[t] \in Nat
    BY <2>2, BoundsAssumption
  <2> QED BY <2>1, <2>2, <2>3
<1>3. \A t \in Station : \A w \in Range(wait'[t]) :
        \E v \in Range(wait[t]) : v.id = w.id /\ v.msg = w.msg
  <2>1. CASE RecvReply(s)
    <3> DEFINE d == Dropped(wait[s], Head(link[s]).reply)
    <3>1. wait' = [wait EXCEPT ![s] = d]
      BY <2>1 DEF RecvReply
    <3>2. Range(d) \subseteq Range(wait[s])
      BY <1>2, DropIs
    <3> HIDE DEF d
    <3>3. \A t \in Station : Range(wait'[t]) \subseteq Range(wait[t])
      BY <1>2, <3>1, <3>2
    <3> QED BY <3>3
  <2>2. CASE ~RecvReply(s)
    <3>1. wait' = wait
      BY <2>2 DEF SendFrame, SendReply, Lose, Loop, SendEnd, CheckDue, CheckEnd,
                  CheckNotDue, RecvEnd, lists
    <3> QED BY <3>1
  <2> QED BY <2>1, <2>2
<1>4. \A t \in Station : Range(send'[t]) \subseteq Range(send[t])
  <2>1. CASE SendFrame(s) \/ SendReply(s)
    <3>1. Sending(s)
      BY <2>1 DEF SendFrame, SendReply
    <3>2. PICK j \in 0..Len(send[s]) : Delete(s, j)
      BY <2>1, <1>2, DeletedAt
    <3>3. /\ Range(send'[s]) \subseteq Range(send[s])
          /\ \A t \in Station : t # s => send'[t] = send[t]
      BY <1>2, <3>1, <3>2, DeleteIs
    <3> QED BY <3>3
  <2>2. CASE ~(SendFrame(s) \/ SendReply(s))
    <3>1. send' = send
      BY <2>2 DEF Lose, Loop, SendEnd, CheckDue, CheckEnd, CheckNotDue, RecvEnd,
                  RecvReply, lists
    <3> QED BY <3>1
  <2> QED BY <2>1, <2>2
<1>5. \A t \in Station : \A f \in Range(link'[t]) :
        \/ f \in Range(link[t])
        \/ Frame(f) \in Range(send[Peer(t)])
        \/ f = Reply(stack[Peer(t)])
  <2>1. ASSUME NEW f \in Wire, Put(s, f),
               Frame(f) \in Range(send[s]) \/ f = Reply(stack[s])
        PROVE  \A t \in Station : \A g \in Range(link'[t]) :
                 \/ g \in Range(link[t])
                 \/ Frame(g) \in Range(send[Peer(t)])
                 \/ g = Reply(stack[Peer(t)])
    <3>1. /\ link'[s] = link[s]
          /\ Range(link'[Peer(s)]) \subseteq Range(link[Peer(s)]) \cup {f}
      BY <1>2, <2>1, PutIs
    <3>2. Peer(Peer(s)) = s /\ \A t \in Station : t = s \/ t = Peer(s)
      BY Peers
    <3> QED BY <2>1, <3>1, <3>2
  <2>2. CASE link' = link
    BY <2>2
  <2>3. CASE SendFrame(s)
    <3> DEFINE n == send[s][pos[s]]
    <3>1. n \in Node /\ n \in Range(send[s]) /\ IsFrame(n) /\ Put(s, n.frame)
      BY <1>2, <2>3, SendingAt DEF SendFrame, Types
    <3> HIDE DEF n
    <3>2. n.frame \in Wire /\ Frame(n.frame) = n
      BY <3>1, NodeIs, Shapes, Members
    <3> QED BY <2>1, <3>1, <3>2
  <2>4. CASE SendReply(s)
    <3> DEFINE n == send[s][pos[s]]
    <3>1. n \in Range(send[s]) /\ ~IsFrame(n)
      BY <1>2, <2>4, SendingAt DEF SendReply, Types
    <3>2. Reply(stack[s]) \in Wire
      BY <3>1, Members DEF Types, Pointer
    <3>3. Put(s, Reply(stack[s])) \/ link' = link
      BY <2>4 DEF SendReply
    <3> QED BY <2>1, <2>2, <3>2, <3>3
  <2>5. CASE Lose(s)
    <3>1. PICK j \in DOMAIN link[s] : link' = [link EXCEPT ![s] = RemoveAt(@, j)]
      BY <2>5 DEF Lose
    <3>2. j \in 1..Len(link[s])
      BY <1>2
    <3>3. Range(RemoveAt(link[s], j)) \subseteq Range(link[s])
      BY <1>2, <3>2, RangeRemove
    <3> QED BY <1>2, <3>1, <3>3
  <2>6. CASE RecvReply(s)
    <3>1. link[s] # <<>> /\ link' = [link EXCEPT ![s] = Tail(link[s])]
      BY <2>6 DEF RecvReply, Receive
    <3>2. Range(Tail(link[s])) \subseteq Range(link[s])
      BY <1>2, <3>1, RangeTail
    <3> QED BY <1>2, <3>1, <3>2
  <2> QED
    BY <2>2, <2>3, <2>4, <2>5, <2>6 DEF Loop, SendEnd, CheckDue, CheckEnd,
       CheckNotDue, RecvEnd
<1>6. \A t \in Station : id[t] <= id'[t]
  BY <1>1, <1>2
<1> QED
  BY <1>1, <1>2, <1>3, <1>4, <1>5, <1>6, Quiet

LEMMA NewFrame ==
  ASSUME Linked, TypeOK, TypeOK', NEW p \in Station, NEW x \in Msg,
         id[p] \in Id, id' = [id EXCEPT ![p] = @ + 1],
         Range(wait'[p]) \subseteq Range(wait[p]) \cup {Waiting(id[p], x)},
         Range(send'[p]) \subseteq Range(send[p]) \cup {Frame(Data(id[p], x))},
         \A t \in Station : t # p => wait'[t] = wait[t] /\ send'[t] = send[t],
         link' = link, stack' = stack, delivered' = delivered,
         submitted \subseteq submitted', x \in submitted', Source[x] = p
  PROVE  Linked'
<1>1. ASSUME NEW s \in Station, NEW i \in Id, NEW m \in Msg, Waits(s, i, m)'
      PROVE  Waits(s, i, m) \/ (s = p /\ i = id[p] /\ m = x)
  <2>1. PICK w \in Range(wait'[s]) : w.id = i /\ w.msg = m
    BY <1>1 DEF Waits
  <2>2. w \in Range(wait[s]) \/ (s = p /\ w = Waiting(id[p], x))
    BY <2>1
  <2>3. Waiting(id[p], x).id = id[p] /\ Waiting(id[p], x).msg = x
    BY Shapes
  <2> QED BY <2>1, <2>2, <2>3 DEF Waits
<1>2. ASSUME NEW s \in Station, NEW i \in Id, NEW m \in Msg, Sent(s, i, m)'
      PROVE  Sent(s, i, m) \/ (s = p /\ i = id[p] /\ m = x)
  <2>1. CASE Frame(Data(i, m)) \in Range(send'[s])
    <3>1. \/ Frame(Data(i, m)) \in Range(send[s])
          \/ s = p /\ Frame(Data(i, m)) = Frame(Data(id[p], x))
      BY <2>1
    <3>2. Frame(Data(i, m)) = Frame(Data(id[p], x)) => i = id[p] /\ m = x
      <4>1. Frame(Data(i, m)).frame = Data(i, m)
            /\ Frame(Data(id[p], x)).frame = Data(id[p], x)
        BY Shapes
      <4>2. Data(i, m).id = i /\ Data(i, m).msg = m
            /\ Data(id[p], x).id = id[p] /\ Data(id[p], x).msg = x
        BY Shapes
      <4> QED BY <4>1, <4>2
    <3> QED BY <3>1, <3>2 DEF Sent
  <2>2. CASE Data(i, m) \in Range(link[Peer(s)])
    BY <2>2 DEF Sent
  <2> QED BY <1>2, <2>1, <2>2 DEF Sent
<1>3. \A s \in Station, i \in Id : Settles(s, i)' => Settles(s, i)
  BY DEF Settles
<1>4. delivered \subseteq delivered'
  OBVIOUS
<1>5. \A s \in Station, i \in Id, m \in Msg :
        /\ Waits(s, i, m)' => Waits(s, i, m) \/ (s = p /\ i = id[p] /\ m = x)
        /\ Sent(s, i, m)' => Sent(s, i, m) \/ (s = p /\ i = id[p] /\ m = x)
  BY <1>1, <1>2
<1> QED
  BY <1>3, <1>4, <1>5, Draws, ZenonT(30)

LEMMA SubmitLinked ==
  ASSUME Linked, Types, Types', NEW s \in Station, NEW m \in Msg, Submit(s, m)
  PROVE  Linked'
<1> DEFINE n == Frame(Data(id[s], m))
           a == Append(send[s], n)
           w == Waiting(id[s], m)
           b == Append(wait[s], w)
<1>1. /\ id[s] \in Id /\ id' = [id EXCEPT ![s] = @ + 1]
      /\ TypeOK /\ TypeOK' /\ Source[m] = s
      /\ submitted \subseteq submitted' /\ m \in submitted'
      /\ UNCHANGED <<link, stack, delivered>>
  BY Ids DEF Types, TypeOK, Submit
<1>2. /\ send \in [Station -> Seq(Node)] /\ send[s] \in Seq(Node)
      /\ wait \in [Station -> Seq(Entry)] /\ wait[s] \in Seq(Entry)
  BY DEF Types, TypeOK
<1>3. Range(a) = Range(send[s]) \cup {n}
  <2>1. n \in Node
    BY <1>1, Members
  <2> HIDE DEF n
  <2> QED BY <1>2, <2>1, RangeAppend
<1>4. send' = [send EXCEPT ![s] = a]
  BY DEF Submit
<1>5. /\ Range(wait'[s]) \subseteq Range(wait[s]) \cup {w}
      /\ \A t \in Station : t # s => wait'[t] = wait[t]
  <2>1. CASE m \in NeedsAck
    <3>1. w \in Entry
      BY <1>1, <2>1, Members
    <3>2. wait' = [wait EXCEPT ![s] = b]
      BY <2>1 DEF Submit
    <3>3. Range(b) = Range(wait[s]) \cup {w}
      <4> HIDE DEF w
      <4> QED BY <1>2, <3>1, RangeAppend
    <3> HIDE DEF b, w
    <3> QED BY <1>2, <3>2, <3>3
  <2>2. CASE m \notin NeedsAck
    BY <2>2 DEF Submit
  <2> QED BY <2>1, <2>2
<1>6. /\ Range(send'[s]) \subseteq Range(send[s]) \cup {n}
      /\ \A t \in Station : t # s => send'[t] = send[t]
  <2> HIDE DEF a, n
  <2> QED BY <1>2, <1>3, <1>4
<1> QED
  BY <1>1, <1>5, <1>6, NewFrame

LEMMA CountLinked ==
  ASSUME Linked, Types, Types', NEW s \in Station, Count(s)
  PROVE  Linked'
<1>1. UNCHANGED <<id, send, stack, link, submitted, delivered>>
  BY DEF Count
<1>2. ASSUME NEW t \in Station, NEW w \in Range(wait'[t])
      PROVE  \E v \in Range(wait[t]) : v.id = w.id /\ v.msg = w.msg
  <2>1. /\ wait[t] \in Seq(Entry) /\ wait'[t] \in Seq(Entry)
        /\ Len(wait'[t]) = Len(wait[t])
        /\ \A k \in 1..Len(wait[t]) : /\ wait'[t][k].id = wait[t][k].id
                                      /\ wait'[t][k].msg = wait[t][k].msg
    BY CountIs
  <2>2. PICK k \in 1..Len(wait[t]) : w = wait'[t][k]
    BY <2>1, InRange
  <2>3. wait[t][k] \in Range(wait[t])
    BY <2>1, InRange
  <2> QED BY <2>1, <2>2, <2>3
<1>3. TypeOK /\ TypeOK' /\ \A t \in Station : id[t] <= id'[t]
  <2>1. TypeOK /\ TypeOK' /\ \A t \in Station : id[t] \in 0..MaxId + 1
    BY DEF Types, TypeOK
  <2> QED BY <1>1, <2>1, BoundsAssumption
<1> QED
  BY <1>1, <1>2, <1>3, Quiet

LEMMA RetryLinked ==
  ASSUME Linked, Types, Types', NEW s \in Station, Retry(s)
  PROVE  Linked'
<1> DEFINE w == wait[s][pos[s]]
           n == Frame(Data(id[s], w.msg))
           a == Append(send[s], n)
           e == Waiting(id[s], w.msg)
           b == Append(wait[s], e)
           d == Dropped(b, w.id)
<1>1. /\ wait \in [Station -> Seq(Entry)] /\ wait[s] \in Seq(Entry)
      /\ send \in [Station -> Seq(Node)] /\ send[s] \in Seq(Node)
      /\ pos[s] \in 1..Len(wait[s])
      /\ id[s] \in Id /\ id' = [id EXCEPT ![s] = @ + 1]
      /\ TypeOK /\ TypeOK'
  BY RetryAt DEF Types
<1>2. /\ w \in Entry /\ w \in Range(wait[s])
      /\ w.msg \in Msg /\ w.msg \in NeedsAck /\ w.id \in Id
  <2>1. w \in Entry /\ w \in Range(wait[s])
    BY <1>1, ElementOfSeq, InRange
  <2> HIDE DEF w
  <2> QED BY <2>1, AckAssumption DEF Entry
<1>3. n \in Node /\ e \in Entry
  BY <1>1, <1>2, Members
<1>4. Range(a) = Range(send[s]) \cup {n}
  <2> HIDE DEF n
  <2> QED BY <1>1, <1>3, RangeAppend
<1>5. b \in Seq(Entry) /\ Range(b) = Range(wait[s]) \cup {e}
  <2> HIDE DEF e
  <2> QED BY <1>1, <1>3, RangeAppend
<1>6. Range(d) \subseteq Range(b)
  <2> HIDE DEF b
  <2> QED BY <1>5, DropIs
<1>7. /\ send' = [send EXCEPT ![s] = a] /\ wait' = [wait EXCEPT ![s] = d]
      /\ UNCHANGED <<stack, link, submitted, delivered>>
  BY DEF Retry
<1>8. Waits(s, w.id, w.msg)
  BY <1>2 DEF Waits
<1>9. Source[w.msg] = s /\ w.msg \in submitted
  BY <1>2, <1>8 DEF Linked, Known
<1> HIDE DEF a, d, b
<1>10. /\ Range(wait'[s]) \subseteq Range(wait[s]) \cup {e}
       /\ Range(send'[s]) \subseteq Range(send[s]) \cup {n}
       /\ \A t \in Station : t # s => wait'[t] = wait[t] /\ send'[t] = send[t]
  <2> HIDE DEF w, n, e
  <2> QED BY <1>1, <1>4, <1>5, <1>6, <1>7
<1> HIDE DEF w
<1> QED
  BY <1>1, <1>2, <1>7, <1>9, <1>10, NewFrame

LEMMA RecvDataLinked ==
  ASSUME Linked, Types, Types', NEW s \in Station, RecvData(s)
  PROVE  Linked'
<1> DEFINE f == Head(link[s])
           n == OnStack(f.id)
           a == Append(send[s], n)
<1>1. /\ send \in [Station -> Seq(Node)] /\ send[s] \in Seq(Node)
      /\ link \in [Station -> Seq(Wire)] /\ link[s] \in Seq(Wire)
      /\ link[s] # <<>> /\ link' = [link EXCEPT ![s] = Tail(link[s])]
      /\ UNCHANGED <<wait, submitted>> /\ delivered' = delivered \cup {f.msg}
      /\ stack \in [Station -> 0..None] /\ id \in [Station -> 0..MaxId + 1]
      /\ TypeOK /\ TypeOK'
  BY DEF Types, TypeOK, RecvData, Receive
<1>2. /\ Range(Tail(link[s])) \subseteq Range(link[s])
      /\ f \in Wire /\ f \in Range(link[s])
  BY <1>1, RangeTail
<1>3. f.id \in Id /\ f.msg \in Msg /\ f = Data(f.id, f.msg)
  <2>1. IsData(f)
    BY DEF RecvData
  <2> HIDE DEF f
  <2> QED BY <1>2, <2>1, WireIs, Shapes
<1>4. Peer(s) \in Station /\ Peer(Peer(s)) = s /\ Peer(s) # s
      /\ \A t \in Station : t = s \/ t = Peer(s)
  BY Peers
<1>5. Sent(Peer(s), f.id, f.msg)
  BY <1>2, <1>3, <1>4 DEF Sent
<1>6. \/ UNCHANGED <<id, stack, send>>
      \/ /\ id' = [id EXCEPT ![s] = @ + 1]
         /\ stack' = [stack EXCEPT ![s] = f.id]
         /\ send' = [send EXCEPT ![s] = a]
  BY DEF RecvData, Answered
<1>7. a \in Seq(Node) /\ Range(a) = Range(send[s]) \cup {n} /\ ~IsFrame(n)
  <2>1. n \in Node /\ ~IsFrame(n)
    BY <1>3, Members, Shapes
  <2> HIDE DEF n
  <2> QED BY <1>1, <2>1, RangeAppend
<1> HIDE DEF f, n, a
<1>8. \A t \in Station : Range(link'[t]) \subseteq Range(link[t])
  BY <1>1, <1>2
<1>9. \A t \in Station : \A x \in Range(send'[t]) : IsFrame(x) => x \in Range(send[t])
  BY <1>1, <1>6, <1>7
<1>10. ASSUME NEW t \in Station, NEW i \in Id, NEW m \in Msg
       PROVE  /\ Waits(t, i, m)' => Waits(t, i, m)
              /\ Sent(t, i, m)' => Sent(t, i, m)
  <2>1. Waits(t, i, m)' => Waits(t, i, m)
    BY <1>1 DEF Waits
  <2>2. IsFrame(Frame(Data(i, m))) /\ Peer(t) \in Station
    BY Shapes, Peers
  <2>3. Sent(t, i, m)' => Sent(t, i, m)
    BY <1>8, <1>9, <2>2 DEF Sent
  <2> QED BY <2>1, <2>3
<1>11. ASSUME NEW t \in Station, NEW i \in Id, Settles(t, i)'
       PROVE  Settles(t, i) \/ (t = Peer(s) /\ i = f.id)
  <2>1. CASE Reply(i) \in Range(link'[t])
    BY <1>8, <2>1 DEF Settles
  <2>2. CASE stack'[Peer(t)] = i
    <3>1. CASE t = s
      <4>1. stack'[Peer(t)] = stack[Peer(t)]
        BY <1>1, <1>4, <1>6, <3>1
      <4> QED BY <2>2, <4>1 DEF Settles
    <3>2. CASE t = Peer(s)
      <4>1. stack'[s] = stack[s] \/ stack'[s] = f.id
        BY <1>1, <1>6
      <4> QED BY <1>4, <2>2, <3>2, <4>1 DEF Settles
    <3> QED BY <1>4, <3>1, <3>2
  <2> QED BY <1>11, <2>1, <2>2 DEF Settles
<1>12. \A t \in Station : id[t] <= id'[t]
  <2>1. \A t \in Station : id[t] \in Nat
    BY <1>1, BoundsAssumption
  <2>2. id \in [Station -> 0..MaxId + 1]
    BY <1>1
  <2>3. id' = id \/ id' = [id EXCEPT ![s] = @ + 1]
    BY <1>6
  <2> QED BY <2>1, <2>2, <2>3
<1>13. delivered \subseteq delivered' /\ f.msg \in delivered' /\ submitted \subseteq submitted'
  BY <1>1
<1> QED
  BY <1>1, <1>3, <1>4, <1>5, <1>10, <1>11, <1>12, <1>13, Answers

LEMMA InitLinked == Init => Linked
<1> SUFFICES ASSUME Init PROVE Linked
  OBVIOUS
<1>1. \A t \in Station : Range(send[t]) = {} /\ Range(wait[t]) = {} /\ Range(link[t]) = {}
  BY DEF Init, Range
<1>2. ASSUME NEW s \in Station, NEW i \in Id
      PROVE  ~Settles(s, i) /\ \A m \in Msg : ~Waits(s, i, m) /\ ~Sent(s, i, m)
  <2>1. Peer(s) \in Station /\ stack[Peer(s)] = None /\ i # None
    BY Peers, BoundsAssumption DEF Init, Id, None
  <2> QED BY <1>1, <2>1 DEF Settles, Waits, Sent
<1> QED
  BY <1>2 DEF Linked, Agreed, Drawn, Right, Known

LEMMA StepLinked == Linked /\ Types /\ [Next]_vars => Linked'
<1> SUFFICES ASSUME Linked, Types, [Next]_vars PROVE Linked'
  OBVIOUS
<1>1. Types'
  BY StepTyped
<1>2. CASE UNCHANGED vars
  <2>1. TypeOK /\ TypeOK' /\ \A s \in Station : id[s] \in 0..MaxId + 1
    BY <1>1 DEF Types, TypeOK
  <2>2. UNCHANGED <<id, send, wait, stack, link, submitted, delivered>>
    BY <1>2 DEF vars, lists
  <2>3. \A s \in Station : id[s] <= id'[s]
    BY <2>1, <2>2, BoundsAssumption
  <2> QED BY <2>1, <2>2, <2>3, Quiet
<1>3. CASE Next
  BY <1>1, <1>3, SubmitLinked, MoveLinked, CountLinked, RetryLinked,
     RecvDataLinked DEF Next, ddc_loop
<1> QED
  BY <1>2, <1>3

-----------------------------------------------------------------------------
(* list_wait_ack names every id and every message once.                     *)
Once(q)  == \A j, k \in 1..Len(q) :
              q[j].id = q[k].id \/ q[j].msg = q[k].msg => j = k
Msgs(q)  == {q[k].msg : k \in 1..Len(q)}
Distinct == \A s \in Station : Once(wait[s])

LEMMA OnceRemove ==
  ASSUME NEW S, NEW q \in Seq(S), NEW j \in 1..Len(q), Once(q)
  PROVE  /\ Once(RemoveAt(q, j))
         /\ Msgs(RemoveAt(q, j)) = Msgs(q) \ {q[j].msg}
<1> DEFINE r == RemoveAt(q, j)
<1>1. Len(q) \in Nat
  BY LenProperties
<1>2. /\ Len(r) = Len(q) - 1
      /\ \A k \in 1..Len(q) - 1 : r[k] = IF k < j THEN q[k] ELSE q[k + 1]
  BY Removing
<1> HIDE DEF r
<1>3. Once(r)
  <2> SUFFICES ASSUME NEW a \in 1..Len(r), NEW b \in 1..Len(r),
                      r[a].id = r[b].id \/ r[a].msg = r[b].msg
               PROVE  a = b
    BY DEF Once
  <2> DEFINE at1 == [k \in 1..Len(r) |-> IF k < j THEN k ELSE k + 1]
  <2>1. \A k \in 1..Len(r) : r[k] = q[at1[k]] /\ at1[k] \in 1..Len(q)
    BY <1>1, <1>2
  <2>2. \A k, i \in 1..Len(r) : at1[k] = at1[i] => k = i
    BY <1>1, <1>2
  <2> HIDE DEF at1
  <2>3. /\ at1[a] \in 1..Len(q) /\ at1[b] \in 1..Len(q)
        /\ q[at1[a]].id = q[at1[b]].id \/ q[at1[a]].msg = q[at1[b]].msg
    BY <2>1
  <2>4. at1[a] = at1[b]
    BY <2>3 DEF Once
  <2> QED BY <2>2, <2>4
<1>4. ASSUME NEW m \in Msgs(r) PROVE m \in Msgs(q) \ {q[j].msg}
  <2>1. PICK k \in 1..Len(q) - 1 : m = r[k].msg
    BY <1>2 DEF Msgs
  <2>2. PICK i \in 1..Len(q) : i # j /\ r[k] = q[i]
    BY <1>1, <1>2, <2>1
  <2> QED BY <2>1, <2>2 DEF Msgs, Once
<1>5. ASSUME NEW m \in Msgs(q) \ {q[j].msg} PROVE m \in Msgs(r)
  <2>1. PICK k \in 1..Len(q) : m = q[k].msg /\ k # j
    BY DEF Msgs
  <2>2. PICK i \in 1..Len(q) - 1 : r[i] = q[k]
    <3>1. CASE k < j
      BY <1>1, <1>2, <3>1
    <3>2. CASE k > j
      <4>1. k - 1 \in 1..Len(q) - 1 /\ r[k - 1] = q[(k - 1) + 1]
        BY <1>1, <1>2, <3>2
      <4> QED BY <1>1, <4>1
    <3> QED BY <1>1, <2>1, <3>1, <3>2
  <2> QED BY <1>2, <2>1, <2>2 DEF Msgs
<1>6. Msgs(r) = Msgs(q) \ {q[j].msg}
  BY <1>4, <1>5
<1> QED
  BY <1>3, <1>6 DEF r

LEMMA OnceAppend ==
  ASSUME NEW S, NEW q \in Seq(S), NEW e \in S, Once(q),
         \A k \in 1..Len(q) : q[k].id # e.id /\ q[k].msg # e.msg
  PROVE  Once(Append(q, e)) /\ Msgs(Append(q, e)) = Msgs(q) \cup {e.msg}
<1> DEFINE r == Append(q, e)
<1>1. /\ Len(q) \in Nat /\ Len(r) = Len(q) + 1 /\ r[Len(q) + 1] = e
      /\ \A k \in 1..Len(q) : r[k] = q[k]
  BY AppendProperties, LenProperties
<1> HIDE DEF r
<1>2. Once(r)
  <2> SUFFICES ASSUME NEW a \in 1..Len(r), NEW b \in 1..Len(r),
                      r[a].id = r[b].id \/ r[a].msg = r[b].msg
               PROVE  a = b
    BY DEF Once
  <2>1. a \in 1..Len(q) \/ a = Len(q) + 1
    BY <1>1
  <2>2. b \in 1..Len(q) \/ b = Len(q) + 1
    BY <1>1
  <2> QED BY <1>1, <2>1, <2>2 DEF Once
<1>3. Msgs(r) = Msgs(q) \cup {e.msg}
  <2>1. ASSUME NEW m PROVE m \in Msgs(r) <=> m \in Msgs(q) \/ m = e.msg
    <3>1. ASSUME m \in Msgs(r) PROVE m \in Msgs(q) \/ m = e.msg
      <4>1. PICK k \in 1..Len(r) : m = r[k].msg
        BY <3>1 DEF Msgs
      <4>2. k \in 1..Len(q) \/ k = Len(q) + 1
        BY <1>1
      <4> QED BY <1>1, <4>1, <4>2 DEF Msgs
    <3>2. ASSUME m \in Msgs(q) PROVE m \in Msgs(r)
      <4>1. PICK k \in 1..Len(q) : m = q[k].msg
        BY <3>2 DEF Msgs
      <4>2. k \in 1..Len(r) /\ r[k] = q[k]
        BY <1>1
      <4> QED BY <4>1, <4>2 DEF Msgs
    <3>3. e.msg \in Msgs(r)
      <4>1. Len(q) + 1 \in 1..Len(r)
        BY <1>1
      <4> QED BY <1>1, <4>1 DEF Msgs
    <3> QED BY <3>1, <3>2, <3>3
  <2> QED BY <2>1
<1> QED
  BY <1>2, <1>3 DEF r

(* ddc_retry: the entry at k is replaced by one with a new id, at the end.   *)
LEMMA OnceReplace ==
  ASSUME NEW S, NEW q \in Seq(S), NEW e \in S, NEW k \in 1..Len(q), Once(q),
         \A i \in 1..Len(q) : q[i].id # e.id,
         e.msg = q[k].msg
  PROVE  LET d == Dropped(Append(q, e), q[k].id)
         IN  Once(d) /\ Msgs(d) = Msgs(q)
<1> DEFINE b == Append(q, e)
           d == Dropped(b, q[k].id)
<1>1. /\ Len(q) \in Nat /\ b \in Seq(S) /\ Len(b) = Len(q) + 1 /\ b[Len(q) + 1] = e
      /\ \A i \in 1..Len(q) : b[i] = q[i]
  BY AppendProperties, LenProperties
<1> HIDE DEF b
<1>2. d = RemoveAt(b, k)
  <2>1. k \in 1..Len(b) /\ b[k].id = q[k].id
    BY <1>1
  <2>2. PICK j \in 1..Len(b) : b[j].id = q[k].id /\ d = RemoveAt(b, j)
    BY <1>1, <2>1, DroppedIs
  <2>3. j # Len(q) + 1
    BY <1>1, <2>2
  <2>4. j \in 1..Len(q) /\ q[j].id = q[k].id
    BY <1>1, <2>2, <2>3
  <2>5. j = k
    BY <2>4 DEF Once
  <2> QED BY <2>2, <2>5
<1> HIDE DEF d
<1>3. /\ Len(d) = Len(q)
      /\ \A i \in 1..Len(q) : d[i] = IF i < k THEN b[i] ELSE b[i + 1]
  <2>1. k \in 1..Len(b)
    BY <1>1
  <2>2. /\ Len(d) = Len(b) - 1
        /\ \A i \in 1..Len(b) - 1 : d[i] = IF i < k THEN b[i] ELSE b[i + 1]
    BY <1>1, <1>2, <2>1, Removing
  <2> QED BY <1>1, <2>2
<1> DEFINE from == [i \in 1..Len(q) |->
                      IF i < k THEN i ELSE IF i = Len(q) THEN k ELSE i + 1]
<1>4. \A i \in 1..Len(q) :
        /\ from[i] \in 1..Len(q) /\ d[i].msg = q[from[i]].msg
        /\ i # Len(q) => d[i].id = q[from[i]].id
        /\ i = Len(q) => d[i].id = e.id
  <2> SUFFICES ASSUME NEW i \in 1..Len(q)
               PROVE  /\ from[i] \in 1..Len(q) /\ d[i].msg = q[from[i]].msg
                      /\ i # Len(q) => d[i].id = q[from[i]].id
                      /\ i = Len(q) => d[i].id = e.id
    OBVIOUS
  <2>1. CASE i = Len(q)
    <3>1. from[i] = k /\ d[i] = e
      BY <1>1, <1>3, <2>1
    <3> QED BY <2>1, <3>1
  <2>2. CASE i # Len(q) /\ i < k
    <3>1. from[i] = i /\ d[i] = q[i]
      BY <1>1, <1>3, <2>2
    <3> QED BY <2>2, <3>1
  <2>3. CASE i # Len(q) /\ ~(i < k)
    <3>1. from[i] = i + 1 /\ i + 1 \in 1..Len(q)
      BY <1>1, <2>3
    <3>2. d[i] = q[i + 1]
      BY <1>1, <1>3, <2>3, <3>1
    <3> QED BY <2>3, <3>1, <3>2
  <2> QED BY <2>1, <2>2, <2>3
<1>5. \A i, j \in 1..Len(q) : from[i] = from[j] => i = j
  BY <1>1
<1>6. \A i \in 1..Len(q) : \E j \in 1..Len(q) : from[j] = i
  <2> SUFFICES ASSUME NEW i \in 1..Len(q)
               PROVE  \E j \in 1..Len(q) : from[j] = i
    OBVIOUS
  <2>1. CASE i < k
    BY <1>1, <2>1
  <2>2. CASE i = k
    <3>1. Len(q) \in 1..Len(q) /\ from[Len(q)] = k
      BY <1>1
    <3> QED BY <2>2, <3>1
  <2>3. CASE i > k
    <3>1. i - 1 \in 1..Len(q) /\ from[i - 1] = i
      BY <1>1, <2>3
    <3> QED BY <3>1
  <2> QED BY <1>1, <2>1, <2>2, <2>3
<1> HIDE DEF from
<1>7. Once(d)
  <2> SUFFICES ASSUME NEW i \in 1..Len(q), NEW j \in 1..Len(q),
                      d[i].id = d[j].id \/ d[i].msg = d[j].msg
               PROVE  i = j
    BY <1>3 DEF Once
  <2>1. CASE d[i].msg = d[j].msg
    <3>1. /\ from[i] \in 1..Len(q) /\ from[j] \in 1..Len(q)
          /\ q[from[i]].msg = q[from[j]].msg
      BY <1>4, <2>1
    <3>2. from[i] = from[j]
      BY <3>1 DEF Once
    <3> QED BY <1>5, <3>2
  <2>2. CASE d[i].id = d[j].id
    <3>1. CASE i # Len(q) /\ j # Len(q)
      <4>1. /\ from[i] \in 1..Len(q) /\ from[j] \in 1..Len(q)
            /\ q[from[i]].id = q[from[j]].id
        BY <1>4, <2>2, <3>1
      <4>2. from[i] = from[j]
        BY <4>1 DEF Once
      <4> QED BY <1>5, <4>2
    <3>2. CASE i = Len(q) \/ j = Len(q)
      BY <1>4, <2>2, <3>2
    <3> QED BY <3>1, <3>2
  <2> QED BY <2>1, <2>2
<1>8. Msgs(d) = Msgs(q)
  <2>1. ASSUME NEW m PROVE m \in Msgs(d) <=> m \in Msgs(q)
    <3>1. m \in Msgs(d) => m \in Msgs(q)
      BY <1>3, <1>4 DEF Msgs
    <3>2. m \in Msgs(q) => m \in Msgs(d)
      <4> SUFFICES ASSUME NEW i \in 1..Len(q), m = q[i].msg PROVE m \in Msgs(d)
        BY DEF Msgs
      <4>1. PICK j \in 1..Len(q) : from[j] = i
        BY <1>6
      <4> QED BY <1>3, <1>4, <4>1 DEF Msgs
    <3> QED BY <3>1, <3>2
  <2> QED BY <2>1
<1> QED
  BY <1>7, <1>8 DEF d, b

-----------------------------------------------------------------------------
(* Nothing is delivered that was not submitted; and what was submitted with  *)
(* DDC_Ack waits until it is delivered.                                     *)
Reached == delivered \subseteq submitted
Kept    == submitted \cap NeedsAck \subseteq delivered \cup Pending

IInv == Types /\ Linked /\ Distinct /\ Reached /\ Kept

Listed == \A m : m \in Pending <=> m \in NeedsAck /\ m \in Msgs(wait[Source[m]])

LEMMA PendingIs == TypeOK => Listed
<1> SUFFICES ASSUME TypeOK, NEW m
             PROVE  m \in Pending <=> m \in NeedsAck /\ m \in Msgs(wait[Source[m]])
  BY DEF Listed
<1>1. CASE m \in NeedsAck
  <2>1. Source[m] \in Station
    BY <1>1, AckAssumption, SourceAssumption
  <2>2. DOMAIN wait[Source[m]] = 1..Len(wait[Source[m]])
    BY <2>1 DEF TypeOK
  <2>3. WaitsFor(m) # {} <=> m \in Msgs(wait[Source[m]])
    BY <2>2 DEF WaitsFor, Msgs
  <2> QED BY <1>1, <2>3 DEF Pending
<1>2. CASE m \notin NeedsAck
  BY <1>2 DEF Pending
<1> QED
  BY <1>1, <1>2

LEMMA PendingNext ==
  ASSUME TypeOK'
  PROVE  \A m : m \in Pending' <=> m \in NeedsAck /\ m \in Msgs(wait'[Source[m]])
<1>1. TypeOK' => Listed'
  BY PendingIs, PTL
<1> QED
  BY <1>1 DEF Listed

LEMMA PendingKept ==
  ASSUME TypeOK, TypeOK',
         \A t \in Station : Msgs(wait'[t]) = Msgs(wait[t])
  PROVE  Pending' = Pending
<1>1. \A m \in NeedsAck : Source[m] \in Station
  BY AckAssumption, SourceAssumption
<1> QED
  BY <1>1, PendingIs, PendingNext DEF Listed

LEMMA WaitsAt ==
  ASSUME TypeOK, NEW s \in Station, NEW k \in 1..Len(wait[s])
  PROVE  LET w == wait[s][k]
         IN  /\ w \in Entry /\ w.id \in Id /\ w.msg \in NeedsAck /\ w.msg \in Msg
             /\ Waits(s, w.id, w.msg)
<1> DEFINE w == wait[s][k]
<1>1. wait[s] \in Seq(Entry)
  BY DEF TypeOK
<1>2. w \in Entry /\ w \in Range(wait[s])
  BY <1>1, ElementOfSeq, InRange
<1>3. Waits(s, w.id, w.msg)
  BY <1>2 DEF Waits
<1> HIDE DEF w
<1>4. w.id \in Id /\ w.msg \in NeedsAck /\ w.msg \in Msg
  BY <1>2, AckAssumption DEF Entry
<1> QED
  BY <1>2, <1>3, <1>4 DEF w

(* What each step that touches list_wait_ack does to it and to Pending.      *)
LEMMA SubmitWaits ==
  ASSUME IInv, Types', NEW s \in Station, NEW m \in Msg, Submit(s, m)
  PROVE  /\ Distinct'
         /\ m \in NeedsAck => /\ m \notin Pending \cup delivered
                             /\ Pending' = Pending \cup {m}
         /\ m \notin NeedsAck => Pending' = Pending
<1> DEFINE w == Waiting(id[s], m)
           b == Append(wait[s], w)
<1>1. /\ TypeOK /\ TypeOK' /\ id[s] \in Id /\ Source[m] = s /\ m \notin submitted
      /\ wait \in [Station -> Seq(Entry)] /\ wait[s] \in Seq(Entry)
  BY Ids DEF IInv, Types, TypeOK, Submit
<1>2. CASE m \notin NeedsAck
  <2>1. wait' = wait
    BY <1>2 DEF Submit
  <2>2. Distinct'
    BY <2>1 DEF IInv, Distinct
  <2> QED BY <1>1, <1>2, <2>1, <2>2, PendingKept
<1>3. CASE m \in NeedsAck
  <2>1. w \in Entry /\ w.id = id[s] /\ w.msg = m
    BY <1>1, <1>3, Members, Shapes
  <2>2. ASSUME NEW k \in 1..Len(wait[s])
        PROVE  wait[s][k].id # id[s] /\ wait[s][k].msg # m
    <3> DEFINE v == wait[s][k]
    <3>1. v.id \in Id /\ v.msg \in Msg /\ Waits(s, v.id, v.msg)
      BY <1>1, WaitsAt
    <3> HIDE DEF v
    <3>2. v.id < id[s] /\ v.msg \in submitted
      BY <3>1 DEF IInv, Linked, Drawn, Known
    <3>3. v.id # id[s]
      BY <1>1, <3>2, BoundsAssumption DEF Id
    <3> QED BY <1>1, <3>2, <3>3 DEF v
  <2>3. wait' = [wait EXCEPT ![s] = b]
    BY <1>3 DEF Submit
  <2> HIDE DEF w
  <2>4. Once(b) /\ Msgs(b) = Msgs(wait[s]) \cup {m}
    BY <1>1, <2>1, <2>2, OnceAppend DEF IInv, Distinct
  <2> HIDE DEF b
  <2>5. Distinct'
    BY <1>1, <2>3, <2>4 DEF IInv, Distinct
  <2>6. m \notin Pending
    <3>1. m \notin Msgs(wait[s])
      BY <2>2 DEF Msgs
    <3> QED BY <1>1, <3>1, PendingIs DEF Listed
  <2>7. m \notin delivered
    BY <1>1 DEF IInv, Reached
  <2>8. ASSUME NEW x PROVE x \in Pending' <=> x \in Pending \/ x = m
    <3>1. x \in Pending' <=> x \in NeedsAck /\ x \in Msgs(wait'[Source[x]])
      BY <1>1, PendingNext
    <3>2. x \in Pending <=> x \in NeedsAck /\ x \in Msgs(wait[Source[x]])
      BY <1>1, PendingIs DEF Listed
    <3>3. x \in NeedsAck => Source[x] \in Station
      BY AckAssumption, SourceAssumption
    <3>4. CASE x \notin NeedsAck
      BY <1>3, <3>1, <3>2, <3>4
    <3>5. CASE x \in NeedsAck /\ Source[x] # s
      <4>1. wait'[Source[x]] = wait[Source[x]]
        BY <1>1, <2>3, <3>3, <3>5
      <4> QED BY <1>1, <3>1, <3>2, <3>5, <4>1
    <3>6. CASE x \in NeedsAck /\ Source[x] = s
      <4>1. wait'[s] = b
        BY <1>1, <2>3
      <4> QED BY <2>4, <3>1, <3>2, <3>6, <4>1
    <3> QED BY <3>4, <3>5, <3>6
  <2>9. Pending' = Pending \cup {m}
    BY <2>8
  <2> QED BY <1>3, <2>5, <2>6, <2>7, <2>9
<1> QED
  BY <1>2, <1>3

LEMMA CountWaits ==
  ASSUME IInv, Types', NEW s \in Station, Count(s)
  PROVE  Distinct' /\ Pending' = Pending
<1>1. TypeOK /\ TypeOK' /\ Types
  BY DEF IInv, Types
<1>2. ASSUME NEW t \in Station
      PROVE  Once(wait'[t]) /\ Msgs(wait'[t]) = Msgs(wait[t])
  <2> DEFINE p == wait[t]
             q == wait'[t]
  <2>1. /\ Len(q) = Len(p)
        /\ \A k \in 1..Len(p) : q[k].id = p[k].id /\ q[k].msg = p[k].msg
    BY <1>1, CountIs
  <2>2. Once(p)
    BY DEF IInv, Distinct
  <2> HIDE DEF p, q
  <2>3. Once(q)
    BY <2>1, <2>2 DEF Once
  <2>4. Msgs(q) = Msgs(p)
    BY <2>1 DEF Msgs
  <2> QED BY <2>3, <2>4 DEF p, q
<1>3. Distinct'
  BY <1>2 DEF Distinct
<1> QED
  BY <1>1, <1>2, <1>3, PendingKept

LEMMA RetryWaits ==
  ASSUME IInv, Types', NEW s \in Station, Retry(s)
  PROVE  Distinct' /\ Pending' = Pending
<1> DEFINE w == wait[s][pos[s]]
           e == Waiting(id[s], w.msg)
           d == Dropped(Append(wait[s], e), w.id)
<1>1. /\ TypeOK /\ TypeOK' /\ id[s] \in Id /\ pos[s] \in 1..Len(wait[s])
      /\ wait \in [Station -> Seq(Entry)] /\ wait[s] \in Seq(Entry)
  BY RetryAt DEF IInv, Types
<1>2. w.msg \in NeedsAck
  BY <1>1, WaitsAt
<1>3. e \in Entry /\ e.id = id[s] /\ e.msg = w.msg
  BY <1>1, <1>2, Members, Shapes
<1>4. ASSUME NEW k \in 1..Len(wait[s])
      PROVE  wait[s][k].id # id[s]
  <2> DEFINE v == wait[s][k]
  <2>1. v.id \in Id /\ v.msg \in Msg /\ Waits(s, v.id, v.msg)
    BY <1>1, WaitsAt
  <2> HIDE DEF v
  <2>2. v.id < id[s]
    BY <2>1 DEF IInv, Linked, Drawn
  <2>3. v.id # id[s]
    BY <1>1, <2>1, <2>2, BoundsAssumption DEF Id
  <2> QED BY <2>3 DEF v
<1>5. wait' = [wait EXCEPT ![s] = d]
  BY DEF Retry
<1>6. Once(d) /\ Msgs(d) = Msgs(wait[s])
  <2>1. Once(wait[s])
    BY DEF IInv, Distinct
  <2> HIDE DEF e
  <2> QED BY <1>1, <1>3, <1>4, <2>1, OnceReplace
<1> HIDE DEF d
<1>7. Distinct' /\ \A t \in Station : Msgs(wait'[t]) = Msgs(wait[t])
  BY <1>1, <1>5, <1>6 DEF IInv, Distinct
<1> QED
  BY <1>1, <1>7, PendingKept

LEMMA RecvReplyWaits ==
  ASSUME IInv, Types', NEW s \in Station, RecvReply(s)
  PROVE  /\ Distinct'
         /\ \/ Pending' = Pending
            \/ \E m \in Pending \cap delivered : Pending' = Pending \ {m}
<1> DEFINE f == Head(link[s])
           d == Dropped(wait[s], f.reply)
<1>1. /\ TypeOK /\ TypeOK' /\ Once(wait[s]) /\ link[s] # <<>>
      /\ wait \in [Station -> Seq(Entry)] /\ wait[s] \in Seq(Entry)
      /\ link[s] \in Seq(Wire) /\ wait' = [wait EXCEPT ![s] = d] /\ ~IsData(f)
  BY DEF IInv, Types, TypeOK, RecvReply, Receive, Distinct
<1>2. f \in Wire /\ f \in Range(link[s])
  BY <1>1, RangeTail
<1>3. f.reply \in Id /\ f = Reply(f.reply)
  <2>1. ~IsData(f)
    BY <1>1
  <2> HIDE DEF f
  <2> QED BY <1>2, <2>1, WireIs, Shapes
<1>4. Settles(s, f.reply)
  BY <1>2, <1>3 DEF Settles
<1>5. CASE d = wait[s]
  <2>1. wait' = wait
    BY <1>1, <1>5
  <2>2. Distinct'
    BY <2>1 DEF IInv, Distinct
  <2> QED BY <1>1, <2>1, <2>2, PendingKept
<1>6. ASSUME NEW j \in 1..Len(wait[s]), wait[s][j].id = f.reply,
             d = RemoveAt(wait[s], j)
      PROVE  /\ Distinct'
             /\ \E m \in Pending \cap delivered : Pending' = Pending \ {m}
  <2> DEFINE m == wait[s][j].msg
  <2>1. m \in NeedsAck /\ m \in Msg /\ Waits(s, f.reply, m)
    BY <1>1, <1>6, WaitsAt
  <2>2. Source[m] = s /\ m \in delivered
    BY <1>3, <1>4, <2>1 DEF IInv, Linked, Known, Right
  <2>3. Once(d) /\ Msgs(d) = Msgs(wait[s]) \ {m}
    BY <1>1, <1>6, OnceRemove
  <2>4. m \in Msgs(wait[s])
    BY <1>6 DEF Msgs
  <2> HIDE DEF d, m
  <2>5. Distinct'
    BY <1>1, <2>3 DEF IInv, Distinct
  <2>6. ASSUME NEW x PROVE x \in Pending' <=> x \in Pending /\ x # m
    <3>1. x \in Pending' <=> x \in NeedsAck /\ x \in Msgs(wait'[Source[x]])
      BY <1>1, PendingNext
    <3>2. x \in Pending <=> x \in NeedsAck /\ x \in Msgs(wait[Source[x]])
      BY <1>1, PendingIs DEF Listed
    <3>3. x \in NeedsAck => Source[x] \in Station
      BY AckAssumption, SourceAssumption
    <3>4. CASE x \notin NeedsAck
      BY <3>1, <3>2, <3>4
    <3>5. CASE x \in NeedsAck /\ Source[x] # s
      <4>1. wait'[Source[x]] = wait[Source[x]]
        BY <1>1, <3>3, <3>5
      <4> QED BY <2>2, <3>1, <3>2, <3>5, <4>1
    <3>6. CASE x \in NeedsAck /\ Source[x] = s
      <4>1. wait'[s] = d
        BY <1>1
      <4> QED BY <2>3, <3>1, <3>2, <3>6, <4>1
    <3> QED BY <3>4, <3>5, <3>6
  <2>7. Pending' = Pending \ {m}
    BY <2>6
  <2>8. m \in Pending
    BY <1>1, <2>1, <2>2, <2>4, PendingIs DEF Listed
  <2> QED BY <2>2, <2>5, <2>7, <2>8
<1> QED
  BY <1>1, <1>5, <1>6, DroppedIs

(* A frame received was submitted by the peer. *)
LEMMA DataSubmitted ==
  ASSUME IInv, NEW s \in Station, RecvData(s)
  PROVE  Head(link[s]).msg \in submitted
<1> DEFINE f == Head(link[s])
<1>1. link[s] \in Seq(Wire) /\ link[s] # <<>> /\ IsData(f)
  BY DEF IInv, Types, TypeOK, RecvData, Receive
<1>2. f \in Wire /\ f \in Range(link[s])
  BY <1>1, RangeTail
<1>3. f.id \in Id /\ f.msg \in Msg /\ f = Data(f.id, f.msg)
  <2> HIDE DEF f
  <2> QED BY <1>1, <1>2, WireIs, Shapes
<1>4. Peer(s) \in Station /\ Peer(Peer(s)) = s
  BY Peers
<1>5. Sent(Peer(s), f.id, f.msg)
  BY <1>2, <1>3, <1>4 DEF Sent
<1> QED
  BY <1>3, <1>4, <1>5 DEF IInv, Linked, Known

(* A step of the code is a step of the promise, or none, and what it submits *)
(* waits.                                                                   *)
Mapped == [Promise!Next]_<<Pending, delivered \cap NeedsAck>>

LEMMA StepMapped ==
  ASSUME IInv, [Next]_vars
  PROVE  Mapped /\ Distinct' /\ Reached' /\ Kept'
<1>1. /\ Types /\ Types' /\ TypeOK /\ TypeOK' /\ Distinct /\ Reached /\ Kept
      /\ NeedsAck \subseteq Msg
  <2>1. Types'
    BY StepTyped DEF IInv
  <2> QED BY <2>1, AckAssumption DEF IInv, Types
<1>2. ASSUME wait' = wait PROVE Distinct' /\ Pending' = Pending
  <2>1. Distinct'
    BY <1>1, <1>2 DEF Distinct
  <2> QED BY <1>1, <1>2, <2>1, PendingKept
<1>3. ASSUME Distinct', Pending' = Pending,
             UNCHANGED <<submitted, delivered>>
      PROVE  Mapped /\ Distinct' /\ Reached' /\ Kept'
  BY <1>1, <1>3 DEF Mapped, Reached, Kept
<1>4. ASSUME NEW s \in Station, NEW m \in Msg, Submit(s, m)
      PROVE  Mapped /\ Distinct' /\ Reached' /\ Kept'
  <2>1. delivered' = delivered /\ submitted' = submitted \cup {m}
    BY <1>4 DEF Submit
  <2>2. /\ Distinct'
        /\ m \in NeedsAck => /\ m \notin Pending \cup delivered
                            /\ Pending' = Pending \cup {m}
        /\ m \notin NeedsAck => Pending' = Pending
    BY <1>1, <1>4, SubmitWaits
  <2>3. CASE m \in NeedsAck
    <3>1. Promise!Submit(m)
      BY <2>1, <2>2, <2>3 DEF Promise!Submit
    <3>2. Mapped
      BY <2>3, <3>1 DEF Mapped, Promise!Next
    <3> QED BY <1>1, <2>1, <2>2, <2>3, <3>2 DEF Reached, Kept
  <2>4. CASE m \notin NeedsAck
    <3>1. Mapped
      BY <2>1, <2>2, <2>4 DEF Mapped
    <3> QED BY <1>1, <2>1, <2>2, <2>4, <3>1 DEF Reached, Kept
  <2> QED BY <2>3, <2>4
<1>5. ASSUME NEW s \in Station, RecvReply(s)
      PROVE  Mapped /\ Distinct' /\ Reached' /\ Kept'
  <2>1. UNCHANGED <<submitted, delivered>>
    BY <1>5 DEF RecvReply
  <2>2. Distinct'
    BY <1>1, <1>5, RecvReplyWaits
  <2>3. CASE Pending' = Pending
    BY <1>3, <2>1, <2>2, <2>3
  <2>4. ASSUME NEW m \in Pending \cap delivered, Pending' = Pending \ {m}
        PROVE  Mapped /\ Reached' /\ Kept'
    <3>1. m \in NeedsAck
      BY <2>4 DEF Pending
    <3>2. Promise!Settle(m)
      BY <2>1, <2>4, <3>1 DEF Promise!Settle
    <3>3. Mapped
      BY <3>1, <3>2 DEF Mapped, Promise!Next
    <3> QED BY <1>1, <2>1, <2>4, <3>3 DEF Reached, Kept
  <2> QED BY <1>1, <1>5, <2>2, <2>3, <2>4, RecvReplyWaits
<1>6. ASSUME NEW s \in Station, RecvData(s)
      PROVE  Mapped /\ Distinct' /\ Reached' /\ Kept'
  <2> DEFINE m == Head(link[s]).msg
  <2>1. wait' = wait /\ submitted' = submitted /\ delivered' = delivered \cup {m}
    BY <1>6 DEF RecvData
  <2>2. m \in submitted
    BY <1>6, DataSubmitted
  <2> HIDE DEF m
  <2>3. Distinct' /\ Pending' = Pending
    BY <1>2, <2>1
  <2>4. CASE m \in delivered \/ m \notin NeedsAck
    <3>1. delivered' \cap NeedsAck = delivered \cap NeedsAck
      BY <2>1, <2>4
    <3> QED BY <1>1, <2>1, <2>2, <2>3, <3>1 DEF Mapped, Reached, Kept
  <2>5. CASE m \notin delivered /\ m \in NeedsAck
    <3>1. m \in Pending
      BY <1>1, <2>2, <2>5 DEF Kept
    <3>2. Promise!Deliver(m)
      BY <2>1, <2>3, <2>5, <3>1 DEF Promise!Deliver
    <3>3. Mapped
      BY <2>5, <3>2 DEF Mapped, Promise!Next
    <3> QED BY <1>1, <2>1, <2>2, <2>3, <3>3 DEF Reached, Kept
  <2> QED BY <2>4, <2>5
<1>7. ASSUME NEW s \in Station, Count(s) \/ Retry(s)
      PROVE  Mapped /\ Distinct' /\ Reached' /\ Kept'
  <2>1. UNCHANGED <<submitted, delivered>>
    BY <1>7 DEF Count, Retry
  <2>2. Distinct' /\ Pending' = Pending
    BY <1>1, <1>7, CountWaits, RetryWaits
  <2> QED BY <1>3, <2>1, <2>2
<1>8. ASSUME NEW s \in Station,
             \/ SendFrame(s) \/ SendReply(s) \/ Lose(s) \/ Loop(s) \/ SendEnd(s)
             \/ CheckDue(s) \/ CheckEnd(s) \/ CheckNotDue(s) \/ RecvEnd(s)
      PROVE  Mapped /\ Distinct' /\ Reached' /\ Kept'
  <2>1. wait' = wait /\ UNCHANGED <<submitted, delivered>>
    BY <1>8 DEF SendFrame, SendReply, Lose, Loop, SendEnd, CheckDue, CheckEnd,
                CheckNotDue, RecvEnd, lists
  <2> QED BY <1>2, <1>3, <2>1
<1>9. CASE UNCHANGED vars
  <2>1. wait' = wait /\ UNCHANGED <<submitted, delivered>>
    BY <1>9 DEF vars, lists
  <2> QED BY <1>2, <1>3, <2>1
<1>10. CASE Next
  BY <1>4, <1>5, <1>6, <1>7, <1>8, <1>10 DEF Next, ddc_loop
<1> QED
  BY <1>9, <1>10

LEMMA InitInvariant == Init => IInv /\ Promise!Init
<1> SUFFICES ASSUME Init PROVE IInv /\ Promise!Init
  OBVIOUS
<1>1. Types /\ TypeOK /\ Linked
  BY InitTyped, InitLinked DEF Types
<1>2. \A s \in Station : wait[s] = <<>>
  BY DEF Init
<1>3. \A s \in Station : Once(wait[s]) /\ Msgs(wait[s]) = {}
  BY <1>2 DEF Once, Msgs
<1>4. Pending = {}
  <2>1. \A m \in NeedsAck : Source[m] \in Station
    BY AckAssumption, SourceAssumption
  <2> QED BY <1>1, <1>3, <2>1, PendingIs DEF Listed
<1>5. submitted = {} /\ delivered = {}
  BY DEF Init
<1> QED
  BY <1>1, <1>3, <1>4, <1>5 DEF IInv, Distinct, Reached, Kept, Promise!Init

LEMMA Inductive == IInv /\ [Next]_vars => IInv'
  BY StepTyped, StepLinked, StepMapped DEF IInv

LEMMA Invariance == Spec => []IInv
  BY InitInvariant, Inductive, PTL DEF Spec

-----------------------------------------------------------------------------
(* Types: no count reaches Timeout and wraps, and p of ddc_send_list and of  *)
(* ddc_check_ack_list stays in its list or just behind it, whatever is       *)
(* deleted from the list on the walk.                                       *)
THEOREM TypeCorrect == Spec => []TypeOK
<1>1. IInv => TypeOK
  BY DEF IInv, Types
<1> QED
  BY <1>1, Invariance, PTL

(* A retry replaces its entry: no message waits twice, however many are      *)
(* waiting, lost, answered late or submitted between two walks.             *)
THEOREM NoDouble == Spec => []WaitsOnce
<1>1. IInv => WaitsOnce
  <2> SUFFICES ASSUME IInv, NEW m \in NeedsAck,
                      NEW j \in WaitsFor(m), NEW k \in WaitsFor(m)
               PROVE  j = k
    BY DEF WaitsOnce
  <2>1. Source[m] \in Station /\ wait[Source[m]] \in Seq(Entry)
    BY AckAssumption, SourceAssumption DEF IInv, Types, TypeOK
  <2>2. /\ j \in 1..Len(wait[Source[m]]) /\ k \in 1..Len(wait[Source[m]])
        /\ wait[Source[m]][j].msg = wait[Source[m]][k].msg
    BY <2>1 DEF WaitsFor
  <2>3. Once(wait[Source[m]])
    BY <2>1 DEF IInv, Distinct
  <2> QED BY <2>2, <2>3 DEF Once
<1> QED
  BY <1>1, Invariance, PTL

(* The two boards implement the reliable link: a message that asks for a     *)
(* reply waits from its submission until the peer has it, for any messages,  *)
(* losses, retries and late, repeated or damaged replies.                   *)
THEOREM ImplementsAtLeastOnce == Spec => IsAtLeastOnce
<1>1. Init => Promise!Init
  BY InitInvariant
<1>2. IInv /\ [Next]_vars => [Promise!Next]_<<Pending, delivered \cap NeedsAck>>
  BY StepMapped DEF Mapped
<1> QED
  BY <1>1, <1>2, Invariance, PTL DEF Spec, IsAtLeastOnce, Promise!Spec
=============================================================================
