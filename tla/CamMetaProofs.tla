--------------------------- MODULE CamMetaProofs ---------------------------
(***************************************************************************)
(* Proofs about CamMeta: any number of buffers on the two metadata nodes,  *)
(* interrupts served at any time.                                          *)
(***************************************************************************)
EXTENDS CamMeta, FiniteSetTheorems, SequenceTheorems, TLAPS

BufStates == {"dequeued", "active", "done"}
Marks == [Metas -> Nat]
Entry == [buf : Bufs, seq : Nat]
QbufType == {QIdle} \cup [pc : {"enqueue", "send"}, buf : Bufs]
IrqType == [pc : {"idle", "read", "complete"}, todo : Seq(Metas), sof : BOOLEAN,
            frame : Nat, meta : Marks, seq : Nat]
HwType == [phase : {"off", "idle", "frame", "stopped"}, frame : Nat, base : Nat,
           acked : Nat, ring : [nodes -> Seq(Entry)], latched : SUBSET nodes,
           meta : Marks, bits : SUBSET {"SOF", "DON", "AAO", "AFO"}]

TypeInv ==
  /\ on \subseteq nodes /\ streaming \in {0, 1} /\ dmas \in {0, 1}
  /\ vb \in [Bufs -> BufStates]
  /\ seq_no \in [Bufs -> Nat] /\ DOMAIN sequence = Bufs
  /\ fill \in [Bufs -> Nat \cup {-1}]
  /\ buf_list \in [nodes -> Seq(Bufs)]
  /\ qbuf \in [nodes -> QbufType]
  /\ word \in [Words -> Nat]
  /\ irq \in IrqType
  /\ hw \in HwType

\* What DoneIsFilled supposes.
Regular == Without({"window"}) /\ OwnCounters

Elements(s) == {s[k] : k \in 1 .. Len(s)}

\* What a session has not begun or has ended with.
PhaseInv ==
  /\ streaming = 1 <=> hw.phase \in {"idle", "frame"}
  /\ streaming = 1 => on = nodes
  /\ hw.phase = "off" =>
       /\ irq = IrqIdle /\ hw.bits = {}
       /\ hw.meta = [n \in Metas |-> 0]
       /\ word[2] = 0 /\ word[3] = 0
       /\ \A b \in Bufs : fill[b] = -1 /\ vb[b] # "done"
  /\ hw.phase = "stopped" =>
       /\ dmas = 0 /\ hw.bits = {}
       /\ \A n \in nodes : qbuf[n].pc # "send" /\ hw.ring[n] = <<>>
  /\ on # {} /\ hw.phase # "stopped" => dmas = 1
  /\ \A n \in nodes \ on : qbuf[n] = QIdle /\ hw.ring[n] = <<>>
  /\ irq.pc = "idle" => irq = IrqIdle
  /\ irq.pc = "complete" => irq.todo # <<>> /\ Head(irq.todo) \in nodes
  /\ "AAO" \in hw.bits \/ "AFO" \in hw.bits => "DON" \in hw.bits
  /\ hw.phase # "frame" => hw.latched = {}
  /\ \A n \in hw.latched : hw.ring[n] # <<>>

\* The buffers of a node's list are its own, and the driver's.
OwnInv ==
  /\ \A n \in nodes : \A k \in 1 .. Len(buf_list[n]) :
       Node(buf_list[n][k]) = n /\ vb[buf_list[n][k]] = "active"
  /\ \A n \in nodes : \A j, k \in 1 .. Len(buf_list[n]) :
       buf_list[n][j] = buf_list[n][k] => j = k
  /\ \A b \in Bufs : vb[b] = "dequeued" => fill[b] = -1
  /\ \A b \in Bufs : vb[b] = "done" => fill[b] # -1

Linked(n) == IF qbuf[n].pc = "idle" THEN 0 ELSE 1
Sending(n) == IF qbuf[n].pc = "send" THEN 1 ELSE 0

\* The number of the last buffer that was filled, and how many filled ones are
\* still in the list.
Written(n) == word[MetaIndex(n)] - Len(hw.ring[n]) - Sending(n)
Behind(n) == Len(buf_list[n]) - Len(hw.ring[n]) - Linked(n)

\* The list of a node is what was filled, the ring of the SCP, and the buffer
\* of a QBUF under way; numbers rise by one along it.
RingOf(n) ==
  /\ Behind(n) >= 0 /\ Written(n) >= 0
  /\ \A k \in 1 .. Len(buf_list[n]) : fill[buf_list[n][k]] = -1 <=> k > Behind(n)
  /\ \A k \in 1 .. Behind(n) + Len(hw.ring[n]) + Sending(n) :
       seq_no[buf_list[n][k]] = Written(n) - Behind(n) + k
  /\ \A k \in 1 .. Len(hw.ring[n]) :
       hw.ring[n][k] = [buf |-> buf_list[n][Behind(n) + k], seq |-> Written(n) + k]
  /\ qbuf[n].pc # "idle" => qbuf[n].buf = buf_list[n][Len(buf_list[n])]

RingInv == \A n \in on : hw.phase # "stopped" => RingOf(n)

\* A number read from the ISP is that of a filled buffer or, until the end of
\* its frame has been signalled, of the one being filled.
Latched(n) == IF n \in hw.latched THEN 1 ELSE 0
Unsignalled(n) == IF "DON" \in hw.bits THEN 0 ELSE Latched(n)

Unserved(n) == IF n \in Elements(irq.todo) THEN 0 ELSE Unsignalled(n)

MarksOf(n) ==
  /\ hw.meta[n] <= Written(n) + Latched(n)
  /\ irq.meta[n] <= Written(n) + Unsignalled(n)
  /\ word[2 + MetaIndex(n)] <= Written(n) + Unserved(n)

MarkInv == streaming = 1 => \A n \in nodes : MarksOf(n)

\* What the handler is about to return is filled.
CompleteInv ==
  irq.pc = "complete" =>
    LET n == Head(irq.todo)
    IN  /\ qbuf[n].pc = "idle"
        /\ \A k \in 1 .. Len(buf_list[n]) :
             seq_no[buf_list[n][k]] <= irq.seq => fill[buf_list[n][k]] # -1

\* Interrupts served one by one: the handler knows the frame, and a filled
\* buffer waits for the handler of that frame only.
FrameInv ==
  /\ irq.pc # "idle" => hw.bits = {}
  /\ irq.sof => irq.todo = <<>>
  /\ irq.sof /\ hw.phase # "stopped" =>
       hw.phase = "frame" /\ irq.frame = hw.frame /\ irq.meta = hw.meta
  /\ "SOF" \in hw.bits => "DON" \notin hw.bits /\ hw.phase = "frame"
  /\ "DON" \in hw.bits \/ irq.todo # <<>> => hw.phase # "frame"
  /\ hw.phase = "frame" /\ "SOF" \notin hw.bits /\ ~irq.sof =>
       /\ word[-2] = hw.frame
       /\ \A n \in hw.latched : word[2 + MetaIndex(n)] = hw.meta[n]
  /\ \A n \in hw.latched : hw.meta[n] = Written(n) + 1

\* A filled buffer that is still in its list: there is one at most, and the
\* handler is about to return it.
LateOf(n) ==
  \A k \in 1 .. Len(buf_list[n]) : fill[buf_list[n][k]] # -1 =>
    /\ k = 1 /\ fill[buf_list[n][k]] = word[-2]
    /\ ~irq.sof /\ "SOF" \notin hw.bits
    /\ hw.phase # "stopped" =>
         /\ n \in Elements(Dequeues(hw.bits)) \cup Elements(irq.todo)
         /\ seq_no[buf_list[n][k]] = word[2 + MetaIndex(n)]
    /\ irq.pc = "complete" /\ n = Head(irq.todo) =>
         seq_no[buf_list[n][k]] <= irq.seq

LateInv == \A n \in nodes : LateOf(n)

\* A buffer that came back carries the number of its frame.
NumberInv == \A b \in Bufs : vb[b] = "done" => sequence[b] = fill[b]

SyncInv == Without({"coalesce"}) => FrameInv /\ LateInv /\ NumberInv

\* The inductive invariant.
MetaInv ==
  Regular => /\ TypeInv /\ PhaseInv /\ OwnInv /\ RingInv
             /\ MarkInv /\ CompleteInv /\ SyncInv
-----------------------------------------------------------------------------
(***************************************************************************)
(* The operators on sequences.                                             *)
(***************************************************************************)
\* The nodes have counters of their own.
LEMMA NodeFacts ==
  ASSUME Regular
  PROVE  /\ nodes \subseteq {3, 4} /\ Metas = {3, 4}
         /\ \A n \in nodes : MetaIndex(n) = n - 3 /\ MetaIndex(n) \in {0, 1}
         /\ \A b \in Bufs : Node(b) \in nodes
         /\ {-3, -2, -1, 0, 1, 2, 3} = Words
  BY DEF Regular, OwnCounters, Metas, META_OUT_0, META_OUT_1, nodes, MetaIndex, Words

\* The front of a list that mtk_cam_dev_dequeue_frame returns.
LEMMA LeadingFacts ==
  ASSUME NEW list \in Seq(Bufs), NEW seq \in Nat, seq_no \in [Bufs -> Nat]
  PROVE  /\ Leading(list, seq) \in 0 .. Len(list)
         /\ \A k \in 1 .. Leading(list, seq) : seq_no[list[k]] <= seq
         /\ Len(list) > 0 /\ seq_no[list[1]] <= seq => Leading(list, seq) >= 1
<1> DEFINE S == {k \in DOMAIN list : \A j \in 1 .. k : seq_no[list[j]] <= seq}
           c == Cardinality(S)
<1>1. /\ Len(list) \in Nat /\ DOMAIN list = 1 .. Len(list)
      /\ S \subseteq 1 .. Len(list)
  BY LenProperties
<1>2. IsFiniteSet(1 .. Len(list)) /\ Cardinality(1 .. Len(list)) = Len(list)
  <2>1. 1 \in Int /\ Len(list) \in Int
    BY <1>1
  <2>2. /\ IsFiniteSet(1 .. Len(list))
        /\ Cardinality(1 .. Len(list)) = IF 1 > Len(list) THEN 0 ELSE Len(list) - 1 + 1
    BY <2>1, FS_Interval
  <2> QED
    BY <1>1, <2>2
<1>3. IsFiniteSet(S) /\ c \in Nat /\ c <= Len(list)
  BY <1>1, <1>2, FS_Subset, FS_CardinalityType
<1>4. ASSUME NEW k \in S PROVE k \in 1 .. c
  <2>1. 1 .. k \subseteq S
    BY <1>1
  <2>2. k \in Nat /\ k >= 1 /\ IsFiniteSet(1 .. k) /\ Cardinality(1 .. k) = k
    BY <1>1, FS_Interval
  <2>3. k <= c
    BY <1>3, <2>1, <2>2, FS_Subset
  <2> QED
    BY <1>3, <2>2, <2>3
<1>5. S = 1 .. c
  <2>1. S \subseteq 1 .. c
    BY <1>4
  <2>2. IsFiniteSet(1 .. c) /\ Cardinality(1 .. c) = c
    BY <1>3, FS_Interval
  <2> QED
    BY <2>1, <2>2, FS_Subset
<1>6. Leading(list, seq) = c
  BY DEF Leading
<1>7. \A k \in S : seq_no[list[k]] <= seq
  BY <1>1
<1>8. Len(list) > 0 /\ seq_no[list[1]] <= seq => 1 \in S
  BY <1>1
<1> HIDE DEF S, c
<1> QED
  BY <1>3, <1>5, <1>6, <1>7, <1>8

\* The rest of a sequence.
LEMMA TailFacts ==
  ASSUME NEW S, NEW s \in Seq(S), s # <<>>
  PROVE  /\ Head(s) \in S /\ Head(s) = s[1] /\ Tail(s) \in Seq(S)
         /\ Len(Tail(s)) = Len(s) - 1 /\ Len(s) \in Nat \ {0}
         /\ \A k \in 1 .. Len(s) - 1 : Tail(s)[k] = s[k + 1]
         /\ Head(s) \in Elements(s) /\ Elements(Tail(s)) \subseteq Elements(s)
         /\ Elements(s) \subseteq {Head(s)} \cup Elements(Tail(s))
<1>1. /\ Head(s) \in S /\ Head(s) = s[1] /\ Tail(s) \in Seq(S)
      /\ Len(Tail(s)) = Len(s) - 1 /\ Len(s) \in Nat \ {0}
      /\ \A k \in 1 .. Len(s) - 1 : Tail(s)[k] = s[k + 1]
  BY HeadTailProperties, EmptySeq, LenProperties
<1>2. ASSUME NEW k \in 1 .. Len(s) PROVE s[k] \in {Head(s)} \cup Elements(Tail(s))
  <2>1. CASE k = 1
    BY <1>1, <2>1
  <2>2. CASE k # 1
    <3>1. k - 1 \in 1 .. Len(s) - 1 /\ (k - 1) + 1 = k
      BY <1>1, <2>2
    <3> QED
      BY <1>1, <3>1 DEF Elements
  <2> QED
    BY <2>1, <2>2
<1>3. \A k \in 1 .. Len(s) - 1 : k + 1 \in 1 .. Len(s)
  BY <1>1
<1>4. Elements(Tail(s)) \subseteq Elements(s)
  BY <1>1, <1>3 DEF Elements
<1>5. 1 \in 1 .. Len(s)
  BY <1>1
<1> QED
  BY <1>1, <1>2, <1>4, <1>5 DEF Elements

\* A sequence with one element more.
LEMMA AppendFacts ==
  ASSUME NEW S, NEW s \in Seq(S), NEW e \in S
  PROVE  /\ Append(s, e) \in Seq(S) /\ Len(s) \in Nat
         /\ Len(Append(s, e)) = Len(s) + 1 /\ Append(s, e) # <<>>
         /\ \A k \in 1 .. Len(s) : Append(s, e)[k] = s[k]
         /\ Append(s, e)[Len(s) + 1] = e
  BY AppendProperties, LenProperties

\* The elements of two sequences in a row.
LEMMA ConcatFacts ==
  ASSUME NEW S, NEW s \in Seq(S), NEW t \in Seq(S)
  PROVE  /\ s \o t \in Seq(S)
         /\ Elements(s) \cup Elements(t) \subseteq Elements(s \o t)
<1>1. /\ Len(s) \in Nat /\ Len(t) \in Nat
      /\ s \o t \in Seq(S) /\ Len(s \o t) = Len(s) + Len(t)
      /\ \A i \in 1 .. Len(s) + Len(t) :
           (s \o t)[i] = IF i <= Len(s) THEN s[i] ELSE t[i - Len(s)]
  BY ConcatProperties, LenProperties
<1>2. ASSUME NEW k \in 1 .. Len(s) PROVE s[k] \in Elements(s \o t)
  <2>1. k \in 1 .. Len(s) + Len(t) /\ k <= Len(s)
    BY <1>1
  <2>2. (s \o t)[k] = s[k]
    BY <1>1, <2>1
  <2> QED
    BY <1>1, <2>1, <2>2 DEF Elements
<1>3. ASSUME NEW k \in 1 .. Len(t) PROVE t[k] \in Elements(s \o t)
  <2>1. /\ Len(s) + k \in 1 .. Len(s) + Len(t) /\ ~(Len(s) + k <= Len(s))
        /\ Len(s) + k - Len(s) = k
    BY <1>1
  <2>2. (s \o t)[Len(s) + k] = t[k]
    BY <1>1, <2>1
  <2> QED
    BY <1>1, <2>1, <2>2 DEF Elements
<1> QED
  BY <1>1, <1>2, <1>3 DEF Elements

\* The interrupt handler dequeues from the nodes whose DMA has finished, and
\* only after a frame.
LEMMA DequeuesFacts ==
  ASSUME NEW bits
  PROVE  /\ Dequeues(bits) \in Seq(Metas)
         /\ Elements(Dequeues(bits)) \subseteq Metas
         /\ Dequeues(bits) # <<>> => "DON" \in bits \/ "AFO" \in bits
         /\ "DON" \in bits => 3 \in Elements(Dequeues(bits))
         /\ "AFO" \in bits => 4 \in Elements(Dequeues(bits))
<1> DEFINE a == IF {"DON", "AAO"} \subseteq bits THEN <<3>> ELSE <<>>
           b == IF "AFO" \in bits THEN <<4>> ELSE <<>>
           c == IF "DON" \in bits THEN <<3>> ELSE <<>>
<1>1. Dequeues(bits) = (a \o b) \o c /\ Metas = {3, 4}
  BY DEF Dequeues, Metas, META_OUT_0, META_OUT_1
<1>2. a \in Seq(Metas) /\ b \in Seq(Metas) /\ c \in Seq(Metas)
  <2>1. <<3>> \in Seq(Metas) /\ <<4>> \in Seq(Metas) /\ <<>> \in Seq(Metas)
    BY <1>1
  <2> QED
    BY <2>1
<1>3. /\ "DON" \in bits => 3 \in Elements(c)
      /\ "AFO" \in bits => 4 \in Elements(b)
  <2>1. 3 \in Elements(<<3>>) /\ 4 \in Elements(<<4>>)
    BY DEF Elements
  <2> QED
    BY <2>1
<1>4. "DON" \notin bits /\ "AFO" \notin bits => (a \o b) \o c = <<>>
  <2>1. (<<>> \o <<>>) \o <<>> = <<>>
    OBVIOUS
  <2> QED
    BY <2>1
<1> HIDE DEF a, b, c
<1>5. a \o b \in Seq(Metas) /\ Elements(b) \subseteq Elements(a \o b)
  BY <1>2, ConcatFacts
<1> DEFINE d == (a \o b) \o c
<1>6. /\ d \in Seq(Metas) /\ Elements(c) \subseteq Elements(d)
      /\ Elements(a \o b) \subseteq Elements(d)
  BY <1>2, <1>5, ConcatFacts
<1>7. Elements(d) \subseteq Metas
  <2>1. \A k \in 1 .. Len(d) : d[k] \in Metas
    BY <1>6, ElementOfSeq
  <2> QED
    BY <2>1 DEF Elements
<1> QED
  BY <1>1, <1>3, <1>4, <1>5, <1>6, <1>7
-----------------------------------------------------------------------------
(***************************************************************************)
(* Types and phases.                                                       *)
(***************************************************************************)
Step == Next \/ UNCHANGED vars

\* The buffers and the faults of a behaviour stay.
LEMMA GivenStays ==
  ASSUME Step
  PROVE  /\ Bufs' = Bufs /\ faults' = faults /\ nodes' = nodes /\ Regular' = Regular
         /\ \A F : Without(F)' = Without(F)
         /\ QbufType' = QbufType /\ HwType' = HwType /\ IrqType' = IrqType
<1>1. Bufs' = Bufs /\ faults' = faults
  BY DEF Step, Next, vars
<1> QED
  BY <1>1 DEF nodes, Regular, Without, OwnCounters, QbufType, HwType, Entry, IrqType

\* The steps one by one.
LEMMA StepCases ==
  ASSUME Step
  PROVE  \/ \E b \in Bufs : BufQueue(b)
         \/ \E b \in Bufs : DQBuf(b)
         \/ \E n \in nodes : IspEnqueue(n)
         \/ \E n \in nodes : EnqueueMeta(n)
         \/ \E n \in nodes : StreamOn(n)
         \/ \E n \in nodes : StreamOff(n)
         \/ Ack \/ HwSof \/ HwDone
         \/ IrqEnter \/ IrqRead \/ IrqComplete \/ IrqSof
         \/ UNCHANGED sysVars
  BY DEF Step, Next, Irq, vars

\* What a ring's head is.
LEMMA HeadOfRing ==
  ASSUME TypeInv, NEW n \in nodes, hw.ring[n] # <<>>
  PROVE  /\ Head(hw.ring[n]) = hw.ring[n][1] /\ Head(hw.ring[n]) \in Entry
         /\ Tail(hw.ring[n]) \in Seq(Entry)
         /\ Len(Tail(hw.ring[n])) = Len(hw.ring[n]) - 1
         /\ Len(hw.ring[n]) \in Nat /\ Len(hw.ring[n]) >= 1
         /\ \A k \in 1 .. Len(hw.ring[n]) - 1 :
              Tail(hw.ring[n])[k] = hw.ring[n][k + 1]
<1>1. hw.ring[n] \in Seq(Entry)
  BY DEF TypeInv, HwType
<1> QED
  BY <1>1, TailFacts

\* The number up to which buffers are returned.
LEMMA LastSeqType ==
  ASSUME Regular, TypeInv, NEW n \in nodes
  PROVE  /\ LastSeq(n) \in Nat
         /\ LastSeq(n) = IF hw.ring[n] = <<>> THEN word[MetaIndex(n)]
                         ELSE word[2 + MetaIndex(n)]
<1>1. /\ n - META_OUT_0 = MetaIndex(n) /\ MetaIndex(n) \in {0, 1}
      /\ MetaIndex(n) \in Words /\ 2 + MetaIndex(n) \in Words
  BY NodeFacts DEF META_OUT_0, MetaIndex, Words
<1> QED
  BY <1>1 DEF LastSeq, enqueued_meta_seq_no, dequeued_meta_seq_no, TypeInv

\* A field of the ISP changes.
LEMMA HwFields ==
  ASSUME NEW h \in HwType
  PROVE  /\ \A v \in Nat : [h EXCEPT !.acked = v] \in HwType
         /\ \A v \in Nat : [h EXCEPT !.base = v] \in HwType
         /\ \A v \in {"off", "idle", "frame", "stopped"} : [h EXCEPT !.phase = v] \in HwType
         /\ \A v \in [nodes -> Seq(Entry)] : [h EXCEPT !.ring = v] \in HwType
         /\ h.acked \in Nat /\ h.frame \in Nat /\ h.meta \in Marks
         /\ h.phase \in {"off", "idle", "frame", "stopped"}
  BY DEF HwType

\* Every step keeps the types.
LEMMA TypeStep ==
  ASSUME Regular, TypeInv, PhaseInv, Step
  PROVE  TypeInv'
<1> USE DEF TypeInv
<1>g. /\ Bufs' = Bufs /\ nodes' = nodes
      /\ QbufType' = QbufType /\ HwType' = HwType /\ IrqType' = IrqType
  BY GivenStays
<1>n. /\ \A n \in nodes : MetaIndex(n) \in Words
      /\ \A b \in Bufs : Node(b) \in nodes
  BY NodeFacts DEF Words
<1>1. ASSUME NEW b \in Bufs, BufQueue(b) PROVE TypeInv'
  <2> DEFINE n == Node(b)
  <2>1. n \in nodes /\ buf_list[n] \in Seq(Bufs)
    BY <1>n
  <2>2. Append(buf_list[n], b) \in Seq(Bufs)
    BY <2>1, AppendFacts
  <2>3. [pc |-> "enqueue", buf |-> b] \in QbufType
    BY DEF QbufType
  <2>4. /\ UNCHANGED <<runVars, seq_no, sequence, word, irq, hw, fill>>
        /\ vb' = [vb EXCEPT ![b] = "active"]
        /\ buf_list' = [buf_list EXCEPT ![n] = Append(buf_list[n], b)]
        /\ \/ qbuf' = [qbuf EXCEPT ![n] = [pc |-> "enqueue", buf |-> b]]
           \/ qbuf' = qbuf
    BY <1>1 DEF BufQueue
  <2> HIDE DEF n
  <2> QED
    BY <1>g, <2>1, <2>2, <2>3, <2>4 DEF runVars, BufStates
<1>2. ASSUME NEW b \in Bufs, DQBuf(b) PROVE TypeInv'
  BY <1>2, <1>g DEF DQBuf, runVars, BufStates
<1>3. ASSUME NEW n \in nodes, IspEnqueue(n) PROVE TypeInv'
  <2>1. [qbuf[n] EXCEPT !.pc = "send"] \in QbufType /\ QIdle \in QbufType
    BY <1>3 DEF IspEnqueue, QbufType, QIdle
  <2>2. /\ UNCHANGED <<runVars, vb, sequence, buf_list, irq, hw, fill>>
        /\ \/ /\ qbuf' = [qbuf EXCEPT ![n] = QIdle]
              /\ UNCHANGED <<word, seq_no>>
           \/ /\ word' = [word EXCEPT ![MetaIndex(n)] = @ + 1]
              /\ seq_no' = [seq_no EXCEPT ![qbuf[n].buf] = word[MetaIndex(n)] + 1]
              /\ qbuf' = [qbuf EXCEPT ![n] = [qbuf[n] EXCEPT !.pc = "send"]]
    BY <1>3 DEF IspEnqueue
  <2>3. word[MetaIndex(n)] + 1 \in Nat
    BY <1>n
  <2>4. word' \in [Words -> Nat] /\ seq_no' \in [Bufs -> Nat]
    BY <2>2, <2>3
  <2>5. qbuf' \in [nodes -> QbufType]
    BY <2>1, <2>2
  <2> QED
    BY <1>g, <2>2, <2>4, <2>5 DEF runVars
<1>4. ASSUME NEW n \in nodes, EnqueueMeta(n) PROVE TypeInv'
  <2> DEFINE e == RingEntry(qbuf[n].buf)
  <2>1. e \in Entry
    <3>1. qbuf[n].buf \in Bufs
      BY <1>4 DEF EnqueueMeta, QbufType, QIdle
    <3> QED
      BY <3>1 DEF RingEntry, Entry
  <2>2. Append(hw.ring[n], e) \in Seq(Entry)
    BY <2>1, AppendFacts DEF HwType
  <2>3. /\ UNCHANGED <<runVars, bufVars, word, irq, fill>>
        /\ hw' = [hw EXCEPT !.ring = [hw.ring EXCEPT ![n] = Append(hw.ring[n], e)]]
        /\ qbuf' = [qbuf EXCEPT ![n] = QIdle]
    BY <1>4 DEF EnqueueMeta, HwType
  <2> HIDE DEF e
  <2>4. [hw.ring EXCEPT ![n] = Append(hw.ring[n], e)] \in [nodes -> Seq(Entry)]
    BY <2>2 DEF HwType
  <2>5. hw' \in HwType
    BY <2>3, <2>4 DEF HwType
  <2> QED
    BY <1>g, <2>3, <2>5 DEF runVars, bufVars, QbufType, QIdle
<1>5. ASSUME NEW n \in nodes, StreamOn(n) PROVE TypeInv'
  <2> DEFINE i == MetaIndex(n)
             old == IF on = {} THEN [j \in Words |-> 0] ELSE word
             list == buf_list[n]
             number(b) == old[i] + CHOOSE k \in DOMAIN list : list[k] = b
             ring == [k \in DOMAIN list |-> [buf |-> list[k], seq |-> old[i] + k]]
             phase == IF on' = nodes THEN "idle" ELSE hw.phase
  <2>1. /\ UNCHANGED <<vb, sequence, buf_list, qbuf, irq, fill>>
        /\ on' = on \cup {n} /\ dmas' = 1 /\ streaming' \in {0, 1}
        /\ word' = [old EXCEPT ![i] = old[i] + Len(list)]
        /\ seq_no' = [b \in Bufs |-> IF \E k \in DOMAIN list : list[k] = b
                                     THEN number(b) ELSE seq_no[b]]
        /\ hw' = [hw EXCEPT !.ring = [hw.ring EXCEPT ![n] = ring], !.phase = phase]
    BY <1>5 DEF StreamOn, HwType
  <2>2. /\ list \in Seq(Bufs) /\ DOMAIN list = 1 .. Len(list) /\ Len(list) \in Nat
        /\ \A k \in 1 .. Len(list) : list[k] \in Bufs
        /\ old \in [Words -> Nat] /\ i \in Words /\ old[i] \in Nat
    BY <1>n, LenProperties, ElementOfSeq
  <2> HIDE DEF list, old, i
  <2>3. ring \in Seq(Entry)
    <3>1. \A k \in 1 .. Len(list) : [buf |-> list[k], seq |-> old[i] + k] \in Entry
      BY <2>2 DEF Entry
    <3> QED
      BY <2>2, <3>1
  <2>4. seq_no' \in [Bufs -> Nat]
    <3>1. ASSUME NEW b \in Bufs, \E k \in DOMAIN list : list[k] = b
          PROVE  number(b) \in Nat
      <4>1. (CHOOSE k \in DOMAIN list : list[k] = b) \in 1 .. Len(list)
        BY <2>2, <3>1
      <4> QED
        BY <2>2, <4>1
    <3> HIDE DEF number
    <3> QED
      BY <2>1, <3>1
  <2> HIDE DEF ring, number
  <2>5. hw' \in HwType
    <3>1. [hw.ring EXCEPT ![n] = ring] \in [nodes -> Seq(Entry)]
      BY <2>3 DEF HwType
    <3>2. [hw EXCEPT !.ring = [hw.ring EXCEPT ![n] = ring]] \in HwType
      BY <3>1, HwFields
    <3>3. phase \in {"off", "idle", "frame", "stopped"}
      BY HwFields
    <3> QED
      BY <2>1, <3>2, <3>3, HwFields
  <2>6. word' \in [Words -> Nat]
    BY <2>1, <2>2
  <2> QED
    BY <1>g, <2>1, <2>4, <2>5, <2>6
<1>6. ASSUME NEW n \in nodes, StreamOff(n) PROVE TypeInv'
  <2>1. [HwOff EXCEPT !.phase = "stopped"] \in HwType
    <3>1. [k \in nodes |-> <<>>] \in [nodes -> Seq(Entry)]
      OBVIOUS
    <3> QED
      BY <3>1 DEF HwOff, HwType, Marks
  <2>2. /\ UNCHANGED <<seq_no, qbuf, word, irq>>
        /\ on' = on \ {n} /\ streaming' = 0 /\ dmas' = 0
        /\ hw' = [HwOff EXCEPT !.phase = "stopped"]
        /\ buf_list' = [buf_list EXCEPT ![n] = <<>>]
        /\ vb' = [b \in Bufs |-> IF Node(b) = n THEN "dequeued" ELSE vb[b]]
        /\ fill' = [b \in Bufs |-> IF Node(b) = n THEN -1 ELSE fill[b]]
        /\ sequence' = [b \in Bufs |-> IF Node(b) = n THEN 0 ELSE sequence[b]]
    BY <1>6 DEF StreamOff, ReturnAllBuffers
  <2>3. <<>> \in Seq(Bufs)
    OBVIOUS
  <2> QED
    BY <1>g, <2>1, <2>2, <2>3 DEF BufStates
<1>7. ASSUME Ack PROVE TypeInv'
  <2>1. /\ UNCHANGED <<runVars, bufVars, qbuf, irq, fill>>
        /\ hw' = [hw EXCEPT !.acked = hw.acked + 1]
        /\ word' = [word EXCEPT ![-1] = hw.acked + 1]
    BY <1>7 DEF Ack, composed_frame_seq_no, HwType
  <2>2. hw' \in HwType /\ hw.acked + 1 \in Nat
    <3>1. hw.acked \in Nat
      BY HwFields
    <3>2. hw.acked + 1 \in Nat
      BY <3>1
    <3> QED
      BY <2>1, <3>2, HwFields
  <2> QED
    BY <1>g, <2>1, <2>2 DEF runVars, bufVars
<1>8. ASSUME HwSof PROVE TypeInv'
  <2> DEFINE heads == {n \in nodes : hw.ring[n] # <<>>}
             meta == [n \in Metas |-> IF n \in heads THEN Head(hw.ring[n]).seq
                                      ELSE hw.meta[n]]
  <2>1. /\ UNCHANGED <<runVars, bufVars, qbuf, word, irq, fill>>
        /\ hw' = [hw EXCEPT !.phase = "frame", !.frame = hw.base, !.latched = heads,
                            !.meta = meta, !.bits = hw.bits \cup {"SOF"}]
    BY <1>8 DEF HwSof, HwType
  <2>2. meta \in Marks
    BY HeadOfRing DEF Marks, Entry, HwType
  <2>3. heads \in SUBSET nodes
    OBVIOUS
  <2> HIDE DEF heads, meta
  <2>4. hw' \in HwType
    BY <2>1, <2>2, <2>3 DEF HwType
  <2> QED
    BY <1>g, <2>1, <2>4 DEF runVars, bufVars
<1>9. ASSUME HwDone PROVE TypeInv'
  <2> DEFINE ring == [n \in nodes |-> IF n \in hw.latched THEN Tail(hw.ring[n])
                                      ELSE hw.ring[n]]
             more == {"DON"} \cup (IF META_OUT_0 \in hw.latched THEN {"AAO"} ELSE {})
                       \cup (IF META_OUT_1 \in hw.latched THEN {"AFO"} ELSE {})
  <2>1. /\ UNCHANGED <<runVars, bufVars, qbuf, word, irq>>
        /\ hw' = [hw EXCEPT !.phase = "idle", !.latched = {}, !.ring = ring,
                            !.bits = hw.bits \cup more]
        /\ fill' = [b \in Bufs |->
                     IF Node(b) \in hw.latched /\ Head(hw.ring[Node(b)]).buf = b
                     THEN hw.frame ELSE fill[b]]
    BY <1>9 DEF HwDone, HwType
  <2>2. ring \in [nodes -> Seq(Entry)]
    BY HeadOfRing DEF HwType, PhaseInv
  <2>3. more \subseteq {"SOF", "DON", "AAO", "AFO"}
    OBVIOUS
  <2> HIDE DEF ring, more
  <2>4. hw' \in HwType /\ hw.frame \in Nat
    BY <2>1, <2>2, <2>3 DEF HwType
  <2> QED
    BY <1>g, <2>1, <2>4 DEF runVars, bufVars
<1>10. ASSUME IrqEnter PROVE TypeInv'
  <2>1. /\ UNCHANGED <<runVars, bufVars, qbuf, word, fill>>
        /\ hw' = [hw EXCEPT !.bits = {}]
        /\ irq' = [pc |-> "read", todo |-> Dequeues(hw.bits), sof |-> "SOF" \in hw.bits,
                   frame |-> hw.frame, meta |-> hw.meta, seq |-> 0]
    BY <1>10 DEF IrqEnter
  <2>2. hw' \in HwType
    BY <2>1 DEF HwType
  <2>3. irq' \in IrqType
    BY <2>1, DequeuesFacts DEF HwType, IrqType
  <2> QED
    BY <1>g, <2>1, <2>2, <2>3 DEF runVars, bufVars
<1>11. ASSUME irq.todo # <<>> PROVE NextNode \in IrqType
  <2>1. Tail(irq.todo) \in Seq(Metas)
    BY <1>11, TailFacts DEF IrqType
  <2> QED
    BY <2>1 DEF NextNode, IrqType
<1>12. ASSUME IrqRead PROVE TypeInv'
  <2> DEFINE n == Head(irq.todo)
  <2>1. /\ UNCHANGED <<runVars, bufVars, qbuf, word, hw, fill>>
        /\ irq.todo # <<>>
        /\ \/ n \in nodes /\ irq' = [irq EXCEPT !.pc = "complete", !.seq = LastSeq(n)]
           \/ irq' = NextNode
    BY <1>12 DEF IrqRead
  <2> HIDE DEF n
  <2>2. irq' \in IrqType
    <3>1. CASE n \in nodes /\ irq' = [irq EXCEPT !.pc = "complete", !.seq = LastSeq(n)]
      <4>1. LastSeq(n) \in Nat
        BY <3>1, LastSeqType
      <4> QED
        BY <3>1, <4>1 DEF IrqType
    <3> QED
      BY <1>11, <2>1, <3>1
  <2> QED
    BY <1>g, <2>1, <2>2 DEF runVars, bufVars
<1>13. ASSUME IrqComplete PROVE TypeInv'
  <2> DEFINE n == Head(irq.todo)
             list == buf_list[n]
             count == Leading(list, irq.seq)
             Done(b) == \E k \in 1 .. count : list[k] = b
  <2>1. /\ UNCHANGED <<runVars, seq_no, qbuf, word, hw, fill>>
        /\ irq' = NextNode /\ irq.pc = "complete"
        /\ vb' = [b \in Bufs |-> IF Done(b) THEN "done" ELSE vb[b]]
        /\ buf_list' = [buf_list EXCEPT ![n] = SubSeq(list, count + 1, Len(list))]
        /\ DOMAIN sequence' = Bufs
    BY <1>13 DEF IrqComplete
  <2>2. n \in nodes /\ irq.todo # <<>> /\ irq.seq \in Nat
    BY <2>1 DEF PhaseInv, IrqType
  <2>3. list \in Seq(Bufs)
    BY <2>2
  <2> HIDE DEF list, n
  <2>4. SubSeq(list, count + 1, Len(list)) \in Seq(Bufs)
    <3>1. count \in 0 .. Len(list)
      BY <2>2, <2>3, LeadingFacts
    <3> HIDE DEF count
    <3>2. \A k \in count + 1 .. Len(list) : list[k] \in Bufs
      BY <2>3, <3>1, ElementOfSeq, LenProperties
    <3> QED
      BY <2>3, <3>1, <3>2, SubSeqProperties, LenProperties
  <2> HIDE DEF Done, count
  <2>5. vb' \in [Bufs -> BufStates]
    BY <2>1 DEF BufStates
  <2> QED
    BY <1>g, <1>11, <2>1, <2>2, <2>4, <2>5 DEF runVars
<1>14. ASSUME IrqSof PROVE TypeInv'
  <2>1. /\ UNCHANGED <<runVars, bufVars, qbuf, fill>> /\ irq' = IrqIdle
        /\ \/ UNCHANGED <<word, hw>>
           \/ /\ word' = [word EXCEPT ![-2] = irq.frame, ![2 + 0] = irq.meta[META_OUT_0],
                                      ![2 + 1] = irq.meta[META_OUT_1]]
              /\ hw' = [hw EXCEPT !.base = irq.frame + 1] \/ hw' = hw
    BY <1>14 DEF IrqSof, dequeued_frame_seq_no, dequeued_meta_seq_no
  <2>2. irq' \in IrqType
    <3>1. <<>> \in Seq(Metas)
      OBVIOUS
    <3> QED
      BY <2>1, <3>1 DEF IrqIdle, IrqType, Marks
  <2>3. hw' \in HwType
    <3>1. irq.frame + 1 \in Nat
      BY DEF IrqType
    <3>2. hw \in HwType
      OBVIOUS
    <3>3. [hw EXCEPT !.base = irq.frame + 1] \in HwType
      BY ONLY <3>1, <3>2, HwFields
    <3> QED
      BY <2>1, <3>2, <3>3
  <2>4. word' \in [Words -> Nat]
    <3>1. irq.frame \in Nat /\ irq.meta[META_OUT_0] \in Nat /\ irq.meta[META_OUT_1] \in Nat
      BY DEF IrqType, Marks, Metas
    <3> QED
      BY <2>1, <3>1
  <2> QED
    BY <1>g, <2>1, <2>2, <2>3, <2>4 DEF runVars, bufVars
<1>15. ASSUME UNCHANGED sysVars PROVE TypeInv'
  BY <1>15, <1>g DEF sysVars, runVars, bufVars
<1> QED
  BY StepCases, <1>1, <1>2, <1>3, <1>4, <1>5, <1>6, <1>7, <1>8, <1>9, <1>10, <1>12,
     <1>13, <1>14, <1>15

\* A step that leaves the stream, the ISP, QBUFs and the handler alone.
LEMMA PhaseKept ==
  ASSUME TypeInv, PhaseInv, Step,
         UNCHANGED <<on, streaming, dmas, irq, hw>>,
         \A n \in nodes : \/ qbuf'[n] = qbuf[n]
                          \/ n \in on /\ (qbuf'[n].pc = "send" => dmas = 1),
         word'[2] = word[2], word'[3] = word[3],
         hw.phase = "off" => fill' = fill /\ \A b \in Bufs : vb'[b] # "done" \/ vb'[b] = vb[b]
  PROVE  PhaseInv'
<1>g. Bufs' = Bufs /\ nodes' = nodes
  BY GivenStays
<1> QED
  BY <1>g DEF PhaseInv

\* Every step keeps the phases apart.
LEMMA PhaseStep ==
  ASSUME Regular, TypeInv, PhaseInv, Step
  PROVE  PhaseInv'
<1>g. Bufs' = Bufs /\ nodes' = nodes
  BY GivenStays
<1>n. /\ \A n \in nodes : MetaIndex(n) \in {0, 1} /\ MetaIndex(n) = n - 3
      /\ \A b \in Bufs : Node(b) \in nodes
  BY NodeFacts
<1>1. ASSUME NEW b \in Bufs, BufQueue(b) PROVE PhaseInv'
  <2>1. /\ UNCHANGED <<on, streaming, dmas, irq, hw, word, fill>>
        /\ vb' = [vb EXCEPT ![b] = "active"]
        /\ \/ Node(b) \in on /\ qbuf' = [qbuf EXCEPT ![Node(b)] = [pc |-> "enqueue", buf |-> b]]
           \/ qbuf' = qbuf
    BY <1>1 DEF BufQueue, runVars
  <2>2. \A n \in nodes : \/ qbuf'[n] = qbuf[n]
                         \/ n \in on /\ (qbuf'[n].pc = "send" => dmas = 1)
    BY <2>1 DEF TypeInv
  <2>3. \A c \in Bufs : vb'[c] # "done" \/ vb'[c] = vb[c]
    BY <2>1 DEF TypeInv
  <2> QED
    BY <2>1, <2>2, <2>3, PhaseKept
<1>2. ASSUME NEW b \in Bufs, DQBuf(b) PROVE PhaseInv'
  <2>1. /\ UNCHANGED <<on, streaming, dmas, irq, hw, word, qbuf>> /\ vb[b] = "done"
    BY <1>2 DEF DQBuf, runVars
  <2>2. hw.phase # "off"
    BY <2>1 DEF PhaseInv
  <2> QED
    BY <2>1, <2>2, PhaseKept
<1>3. ASSUME NEW n \in nodes, IspEnqueue(n) PROVE PhaseInv'
  <2>1. /\ UNCHANGED <<on, streaming, dmas, irq, hw, fill, vb>>
        /\ qbuf[n].pc = "enqueue"
        /\ \/ dmas = 0 /\ qbuf' = [qbuf EXCEPT ![n] = QIdle] /\ word' = word
           \/ /\ dmas # 0 /\ word' = [word EXCEPT ![MetaIndex(n)] = @ + 1]
              /\ qbuf' = [qbuf EXCEPT ![n].pc = "send"]
    BY <1>3 DEF IspEnqueue, runVars
  <2>2. n \in on
    BY <2>1 DEF PhaseInv, QIdle
  <2>3. \A m \in nodes : \/ qbuf'[m] = qbuf[m]
                         \/ m \in on /\ (qbuf'[m].pc = "send" => dmas = 1)
    BY <2>1, <2>2 DEF TypeInv, QIdle
  <2>4. word'[2] = word[2] /\ word'[3] = word[3]
    BY <1>n, <2>1 DEF TypeInv, Words
  <2> QED
    BY <2>1, <2>3, <2>4, PhaseKept
<1>4. ASSUME NEW n \in nodes, EnqueueMeta(n) PROVE PhaseInv'
  <2> DEFINE r == Append(hw.ring[n], RingEntry(qbuf[n].buf))
  <2>1. /\ UNCHANGED <<on, streaming, dmas, irq, word, fill, vb>>
        /\ qbuf[n].pc = "send" /\ qbuf' = [qbuf EXCEPT ![n] = QIdle]
        /\ hw' = [hw EXCEPT !.ring = [hw.ring EXCEPT ![n] = r]]
    BY <1>4 DEF EnqueueMeta, runVars, bufVars, TypeInv, HwType
  <2>2. n \in on /\ hw.phase # "stopped" /\ r # <<>>
    <3>1. r # <<>>
      <4>1. hw.ring[n] \in Seq(Entry) /\ qbuf[n].buf \in Bufs
        BY <2>1 DEF TypeInv, HwType, QbufType, QIdle
      <4>2. RingEntry(qbuf[n].buf) \in Entry
        BY <4>1 DEF RingEntry, Entry, TypeInv
      <4> QED
        BY <4>1, <4>2, AppendFacts
    <3> QED
      BY <2>1, <3>1 DEF PhaseInv, QIdle
  <2> HIDE DEF r
  <2>3. /\ \A m \in nodes : m # n => qbuf'[m] = qbuf[m] /\ hw'.ring[m] = hw.ring[m]
        /\ hw'.ring[n] = r /\ qbuf'[n] = QIdle
        /\ hw'.phase = hw.phase /\ hw'.bits = hw.bits /\ hw'.meta = hw.meta
        /\ hw'.latched = hw.latched /\ hw.latched \subseteq nodes
    BY <2>1 DEF TypeInv, HwType
  <2> QED
    BY <1>g, <2>1, <2>2, <2>3 DEF PhaseInv, QIdle
<1>5. ASSUME NEW n \in nodes, StreamOn(n) PROVE PhaseInv'
  <2> DEFINE i == MetaIndex(n)
             old == IF on = {} THEN [j \in Words |-> 0] ELSE word
             list == buf_list[n]
             ring == [k \in DOMAIN list |-> [buf |-> list[k], seq |-> old[i] + k]]
  <2>1. /\ UNCHANGED <<vb, qbuf, irq, fill>>
        /\ hw.phase = "off" /\ on' = on \cup {n} /\ dmas' = 1
        /\ streaming' = IF on' = nodes THEN 1 ELSE 0
        /\ word' = [old EXCEPT ![i] = old[i] + Len(list)]
        /\ hw' = [hw EXCEPT !.ring = [hw.ring EXCEPT ![n] = ring],
                            !.phase = IF on' = nodes THEN "idle" ELSE hw.phase]
    BY <1>5 DEF StreamOn, TypeInv, HwType
  <2>2. word'[2] = 0 /\ word'[3] = 0
    BY <1>n, <2>1 DEF TypeInv, Words, PhaseInv
  <2> HIDE DEF ring, list, old, i
  <2>3. /\ \A m \in nodes : m # n => hw'.ring[m] = hw.ring[m]
        /\ hw'.phase = IF on' = nodes THEN "idle" ELSE "off"
        /\ hw'.bits = hw.bits /\ hw'.meta = hw.meta
        /\ hw'.latched = hw.latched
    BY <2>1 DEF TypeInv, HwType
  <2> QED
    BY <1>g, <2>1, <2>2, <2>3 DEF PhaseInv, IrqIdle
<1>6. ASSUME NEW n \in nodes, StreamOff(n) PROVE PhaseInv'
  <2>1. /\ UNCHANGED <<qbuf, word, irq>>
        /\ OpLockFree /\ qbuf[n].pc = "idle"
        /\ on' = on \ {n} /\ streaming' = 0 /\ dmas' = 0
        /\ hw' = [HwOff EXCEPT !.phase = "stopped"]
    BY <1>6 DEF StreamOff
  <2>2. /\ hw'.phase = "stopped" /\ hw'.bits = {} /\ hw'.latched = {}
        /\ \A m \in nodes : hw'.ring[m] = <<>>
    BY <2>1 DEF HwOff
  <2>3. qbuf[n] = QIdle
    BY <2>1 DEF TypeInv, QbufType
  <2> QED
    BY <1>g, <2>1, <2>2, <2>3 DEF PhaseInv, OpLockFree
<1>7. ASSUME Ack PROVE PhaseInv'
  <2>1. /\ UNCHANGED <<on, streaming, dmas, vb, qbuf, irq, fill>>
        /\ hw.phase \in {"idle", "frame"}
        /\ hw' = [hw EXCEPT !.acked = @ + 1]
        /\ word' = [word EXCEPT ![-1] = hw.acked + 1]
    BY <1>7 DEF Ack, composed_frame_seq_no, runVars, bufVars
  <2>2. /\ hw'.phase = hw.phase /\ hw'.bits = hw.bits /\ hw'.meta = hw.meta
        /\ hw'.latched = hw.latched /\ hw'.ring = hw.ring
    BY <2>1 DEF TypeInv, HwType
  <2> QED
    BY <1>g, <2>1, <2>2 DEF PhaseInv
<1>8. ASSUME HwSof PROVE PhaseInv'
  <2>1. /\ UNCHANGED <<on, streaming, dmas, vb, qbuf, irq, fill, word>>
        /\ hw.phase = "idle" /\ hw'.phase = "frame"
        /\ hw'.bits = hw.bits \cup {"SOF"} /\ hw'.ring = hw.ring
        /\ hw'.latched = {n \in nodes : hw.ring[n] # <<>>}
    BY <1>8 DEF HwSof, runVars, bufVars, TypeInv, HwType
  <2> QED
    BY <1>g, <2>1 DEF PhaseInv
<1>9. ASSUME HwDone PROVE PhaseInv'
  <2>1. /\ UNCHANGED <<on, streaming, dmas, vb, qbuf, irq, word>>
        /\ hw.phase = "frame" /\ hw'.phase = "idle"
        /\ "DON" \in hw'.bits /\ hw'.latched = {}
        /\ \A n \in nodes : n \notin hw.latched => hw'.ring[n] = hw.ring[n]
    BY <1>9 DEF HwDone, runVars, bufVars, TypeInv, HwType
  <2>2. on = nodes
    BY <2>1 DEF PhaseInv
  <2> QED
    BY <1>g, <2>1, <2>2 DEF PhaseInv
<1>10. ASSUME IrqEnter PROVE PhaseInv'
  <2>1. /\ UNCHANGED <<on, streaming, dmas, vb, qbuf, word, fill>>
        /\ hw' = [hw EXCEPT !.bits = {}] /\ irq'.pc = "read"
        /\ hw.bits # {}
    BY <1>10 DEF IrqEnter, runVars, bufVars
  <2>2. /\ hw'.phase = hw.phase /\ hw'.bits = {} /\ hw'.latched = hw.latched
        /\ hw'.ring = hw.ring
    BY <2>1 DEF TypeInv, HwType
  <2>3. hw.phase # "off"
    BY <2>1 DEF PhaseInv
  <2> QED
    BY <1>g, <2>1, <2>2, <2>3 DEF PhaseInv
<1>11. ASSUME IrqRead PROVE PhaseInv'
  <2>1. /\ UNCHANGED <<on, streaming, dmas, vb, qbuf, word, fill, hw>>
        /\ irq.pc = "read" /\ irq.todo # <<>>
        /\ \/ /\ Head(irq.todo) \in nodes
              /\ irq'.pc = "complete" /\ irq'.todo = irq.todo
           \/ irq'.pc = "read"
    BY <1>11 DEF IrqRead, NextNode, runVars, bufVars, TypeInv, IrqType
  <2> QED
    BY <1>g, <2>1 DEF PhaseInv, IrqIdle
<1>12. ASSUME IrqComplete PROVE PhaseInv'
  <2>1. /\ UNCHANGED <<on, streaming, dmas, qbuf, word, fill, hw>>
        /\ irq.pc = "complete" /\ irq'.pc = "read"
    BY <1>12 DEF IrqComplete, NextNode, runVars, TypeInv, IrqType
  <2> QED
    BY <1>g, <2>1 DEF PhaseInv, IrqIdle
<1>13. ASSUME IrqSof PROVE PhaseInv'
  <2>1. /\ UNCHANGED <<on, streaming, dmas, vb, qbuf, fill>> /\ irq' = IrqIdle
        /\ irq.pc = "read"
        /\ hw' = [hw EXCEPT !.base = irq.frame + 1] \/ hw' = hw
    BY <1>13 DEF IrqSof, runVars, bufVars
  <2>2. /\ hw'.phase = hw.phase /\ hw'.bits = hw.bits /\ hw'.latched = hw.latched
        /\ hw'.ring = hw.ring /\ hw.phase # "off"
    BY <2>1 DEF TypeInv, HwType, PhaseInv, IrqIdle
  <2> QED
    BY <1>g, <2>1, <2>2 DEF PhaseInv, IrqIdle
<1>14. ASSUME UNCHANGED sysVars PROVE PhaseInv'
  BY <1>14, <1>g DEF PhaseInv, sysVars, runVars, bufVars
<1> QED
  BY StepCases, <1>1, <1>2, <1>3, <1>4, <1>5, <1>6, <1>7, <1>8, <1>9, <1>10, <1>11,
     <1>12, <1>13, <1>14

-----------------------------------------------------------------------------
(***************************************************************************)
(* The lists.                                                              *)
(***************************************************************************)
\* The numbers that describe a list.
LEMMA CountTypes ==
  ASSUME Regular, TypeInv, NEW n \in nodes
  PROVE  /\ Len(buf_list[n]) \in Nat /\ Len(hw.ring[n]) \in Nat
         /\ Linked(n) \in {0, 1} /\ Sending(n) \in {0, 1} /\ Sending(n) <= Linked(n)
         /\ Behind(n) \in Int /\ Written(n) \in Int /\ word[MetaIndex(n)] \in Nat
         /\ word[2 + MetaIndex(n)] \in Nat
         /\ \A k \in 1 .. Len(buf_list[n]) : buf_list[n][k] \in Bufs
<1>1. buf_list[n] \in Seq(Bufs) /\ hw.ring[n] \in Seq(Entry)
  BY DEF TypeInv, HwType
<1>2. MetaIndex(n) \in {0, 1} /\ MetaIndex(n) \in Words /\ 2 + MetaIndex(n) \in Words
  BY NodeFacts DEF Words
<1>3. word[MetaIndex(n)] \in Nat /\ word[2 + MetaIndex(n)] \in Nat
  BY <1>2 DEF TypeInv
<1>4. Len(buf_list[n]) \in Nat /\ Len(hw.ring[n]) \in Nat
  BY <1>1, LenProperties
<1>5. Linked(n) \in {0, 1} /\ Sending(n) \in {0, 1} /\ Sending(n) <= Linked(n)
  BY DEF Linked, Sending
<1>6. \A l, r \in Nat, k \in {0, 1} : l - r - k \in Int
  OBVIOUS
<1>7. Behind(n) \in Int /\ Written(n) \in Int
  BY ONLY <1>3, <1>4, <1>5, <1>6 DEF Behind, Written
<1> QED
  BY <1>1, <1>3, <1>4, <1>5, <1>7, ElementOfSeq

\* The buffer the ISP writes is the first of the list that is not filled.
LEMMA HeadListed ==
  ASSUME Regular, TypeInv, NEW n \in nodes, RingOf(n), hw.ring[n] # <<>>
  PROVE  /\ Behind(n) + 1 \in 1 .. Len(buf_list[n])
         /\ Head(hw.ring[n]).buf = buf_list[n][Behind(n) + 1]
         /\ Head(hw.ring[n]).seq = Written(n) + 1
         /\ Written(n) < word[MetaIndex(n)]
<1>1. Len(hw.ring[n]) >= 1 /\ Head(hw.ring[n]) = hw.ring[n][1]
  BY HeadOfRing
<1>2. hw.ring[n][1] = [buf |-> buf_list[n][Behind(n) + 1], seq |-> Written(n) + 1]
  BY <1>1, CountTypes DEF RingOf
<1>3. Behind(n) >= 0
  BY DEF RingOf
<1>4. /\ Len(buf_list[n]) \in Nat /\ Len(hw.ring[n]) \in Nat
      /\ Linked(n) \in {0, 1} /\ Sending(n) \in {0, 1} /\ word[MetaIndex(n)] \in Nat
  BY CountTypes
<1>5. \A l, r \in Nat, k \in {0, 1} : r >= 1 =>
        /\ l - r - k >= 0 => l - r - k + 1 \in 1 .. l
        /\ l - r - k < l
  OBVIOUS
<1>6. Behind(n) + 1 \in 1 .. Len(buf_list[n]) /\ Written(n) < word[MetaIndex(n)]
  BY ONLY <1>1, <1>3, <1>4, <1>5 DEF Behind, Written
<1> QED
  BY <1>1, <1>2, <1>6

\* What IrqComplete returns, and where a buffer is in its list.
Count == Leading(buf_list[Head(irq.todo)], irq.seq)
Place(n, b) == CHOOSE k \in DOMAIN buf_list[n] : buf_list[n][k] = b

\* mtk_cam_dev_dequeue_frame returns the front of the list, all of it filled.
LEMMA CompleteEffect ==
  ASSUME Regular, TypeInv, PhaseInv, CompleteInv, IrqComplete,
         NEW n, n = Head(irq.todo)
  PROVE  /\ n \in nodes /\ irq.pc = "complete" /\ irq' = NextNode
         /\ UNCHANGED <<on, streaming, dmas, seq_no, qbuf, word, hw, fill>>
         /\ Count \in 0 .. Len(buf_list[n])
         /\ \A k \in 1 .. Count : fill[buf_list[n][k]] # -1
         /\ Len(buf_list[n]) > 0 /\ seq_no[buf_list[n][1]] <= irq.seq => Count >= 1
         /\ vb' = [b \in Bufs |-> IF \E k \in 1 .. Count : buf_list[n][k] = b
                                  THEN "done" ELSE vb[b]]
         /\ sequence' = [b \in Bufs |->
                          IF \E k \in 1 .. Count : buf_list[n][k] = b
                          THEN word[-2] + Place(n, b) - 1
                          ELSE sequence[b]]
         /\ \A m \in nodes \ {n} : buf_list'[m] = buf_list[m]
         /\ buf_list'[n] \in Seq(Bufs)
         /\ Len(buf_list'[n]) = Len(buf_list[n]) - Count
         /\ \A k \in 1 .. Len(buf_list[n]) - Count :
              buf_list'[n][k] = buf_list[n][Count + k]
<1> DEFINE list == buf_list[n]
<1>1. /\ irq.pc = "complete" /\ irq' = NextNode
      /\ UNCHANGED <<on, streaming, dmas, seq_no, qbuf, word, hw, fill>>
  BY DEF IrqComplete, runVars
<1>2. n \in nodes /\ list \in Seq(Bufs) /\ irq.seq \in Nat /\ seq_no \in [Bufs -> Nat]
  BY <1>1 DEF PhaseInv, TypeInv, IrqType
<1>3. /\ Count \in 0 .. Len(list)
      /\ \A k \in 1 .. Count : seq_no[list[k]] <= irq.seq
      /\ Len(list) > 0 /\ seq_no[list[1]] <= irq.seq => Count >= 1
  BY <1>2, LeadingFacts DEF Count
<1>4. /\ vb' = [b \in Bufs |-> IF \E k \in 1 .. Count : list[k] = b
                               THEN "done" ELSE vb[b]]
      /\ sequence' = [b \in Bufs |->
                       IF \E k \in 1 .. Count : list[k] = b
                       THEN word[-2] + Place(n, b) - 1
                       ELSE sequence[b]]
      /\ buf_list' = [buf_list EXCEPT ![n] = SubSeq(list, Count + 1, Len(list))]
  BY DEF IrqComplete, Count, Place, FirstSequence, dequeued_frame_seq_no
<1>5. Len(list) \in Nat /\ \A k \in 1 .. Len(list) : list[k] \in Bufs
  BY <1>2, LenProperties, ElementOfSeq
<1>6. \A k \in 1 .. Count : fill[list[k]] # -1
  BY <1>1, <1>3, <1>5 DEF CompleteInv
<1> DEFINE rest == SubSeq(list, Count + 1, Len(list))
<1> HIDE DEF list
<1>7. /\ rest \in Seq(Bufs) /\ Len(rest) = Len(list) - Count
      /\ \A k \in 1 .. Len(list) - Count : rest[k] = list[Count + k]
  <2>1. \A k \in Count + 1 .. Len(list) : list[k] \in Bufs
    BY <1>3, <1>5
  <2>2. /\ rest \in Seq(Bufs)
        /\ Len(rest) = IF Count + 1 <= Len(list) THEN Len(list) - (Count + 1) + 1 ELSE 0
        /\ \A k \in 1 .. Len(list) - (Count + 1) + 1 : rest[k] = list[(Count + 1) + k - 1]
    BY <1>2, <1>3, <1>5, <2>1, SubSeqProperties
  <2>3. \A k \in Nat : (Count + 1) + k - 1 = Count + k
    BY <1>3
  <2>4. Len(list) - (Count + 1) + 1 = Len(list) - Count
    BY <1>3, <1>5
  <2>5. Count + 1 <= Len(list) \/ Len(list) - Count = 0
    BY <1>3, <1>5
  <2>6. Len(rest) = Len(list) - Count
    BY ONLY <2>2, <2>4, <2>5
  <2>7. \A k \in 1 .. Len(list) - Count : k \in Nat
    BY <1>3, <1>5
  <2> HIDE DEF rest
  <2> QED
    BY ONLY <2>2, <2>3, <2>4, <2>6, <2>7
<1>8. buf_list'[n] = rest /\ \A m \in nodes \ {n} : buf_list'[m] = buf_list[m]
  BY <1>2, <1>4 DEF TypeInv
<1> HIDE DEF rest
<1> QED
  BY <1>1, <1>2, <1>3, <1>4, <1>6, <1>7, <1>8 DEF list

\* Every step keeps the lists apart, and what is returned is filled.
LEMMA OwnStep ==
  ASSUME Regular, TypeInv, PhaseInv, OwnInv, RingInv, CompleteInv, Step
  PROVE  OwnInv'
<1>g. Bufs' = Bufs /\ nodes' = nodes
  BY GivenStays
<1>n. \A b \in Bufs : Node(b) \in nodes
  BY NodeFacts
<1>t. \A n \in nodes : /\ buf_list[n] \in Seq(Bufs) /\ Len(buf_list[n]) \in Nat
                       /\ \A k \in 1 .. Len(buf_list[n]) : buf_list[n][k] \in Bufs
  BY CountTypes DEF TypeInv
<1>1. ASSUME NEW b \in Bufs, BufQueue(b) PROVE OwnInv'
  <2> DEFINE n == Node(b)
             list == Append(buf_list[n], b)
  <2>1. /\ vb[b] = "dequeued" /\ fill' = fill /\ n \in nodes
        /\ vb' = [vb EXCEPT ![b] = "active"]
        /\ buf_list' = [buf_list EXCEPT ![n] = list]
    BY <1>1, <1>n DEF BufQueue
  <2>2. /\ Len(list) = Len(buf_list[n]) + 1 /\ Len(buf_list[n]) \in Nat
        /\ \A k \in 1 .. Len(buf_list[n]) : list[k] = buf_list[n][k]
        /\ list[Len(buf_list[n]) + 1] = b
    BY <1>t, <2>1, AppendFacts
  <2>3. n = Node(b)
    OBVIOUS
  <2> HIDE DEF list, n
  <2>4. /\ buf_list'[n] = list
        /\ \A m \in nodes \ {n} : buf_list'[m] = buf_list[m]
        /\ vb'[b] = "active" /\ \A c \in Bufs \ {b} : vb'[c] = vb[c]
    BY <2>1 DEF TypeInv
  <2>5. \A m \in nodes : \A k \in 1 .. Len(buf_list[m]) : buf_list[m][k] # b
    BY <2>1 DEF OwnInv
  <2>6. \A k \in 1 .. Len(list) : k \in 1 .. Len(buf_list[n]) \/ k = Len(buf_list[n]) + 1
    BY <2>2
  <2>7. \A m \in nodes : \A k \in 1 .. Len(buf_list'[m]) :
          Node(buf_list'[m][k]) = m /\ vb'[buf_list'[m][k]] = "active"
    <3>1. ASSUME NEW k \in 1 .. Len(list) PROVE Node(list[k]) = n /\ vb'[list[k]] = "active"
      BY <1>t, <2>1, <2>2, <2>3, <2>4, <2>5, <2>6 DEF OwnInv
    <3>2. ASSUME NEW m \in nodes \ {n}, NEW k \in 1 .. Len(buf_list[m])
          PROVE  Node(buf_list[m][k]) = m /\ vb'[buf_list[m][k]] = "active"
      BY <1>t, <2>4, <2>5 DEF OwnInv
    <3> QED
      BY <2>4, <3>1, <3>2
  <2>8. \A m \in nodes : \A j, k \in 1 .. Len(buf_list'[m]) :
          buf_list'[m][j] = buf_list'[m][k] => j = k
    <3>1. ASSUME NEW j \in 1 .. Len(list), NEW k \in 1 .. Len(list), list[j] = list[k]
          PROVE  j = k
      BY <2>1, <2>2, <2>5, <2>6, <3>1 DEF OwnInv
    <3> QED
      BY <2>4, <3>1 DEF OwnInv
  <2>9. \A c \in Bufs : /\ vb'[c] = "dequeued" => fill'[c] = -1
                        /\ vb'[c] = "done" => fill'[c] # -1
    BY <2>1, <2>4 DEF OwnInv
  <2> QED
    BY <1>g, <2>7, <2>8, <2>9 DEF OwnInv
<1>2. ASSUME NEW b \in Bufs, DQBuf(b) PROVE OwnInv'
  <2>1. /\ vb[b] = "done" /\ buf_list' = buf_list
        /\ vb' = [vb EXCEPT ![b] = "dequeued"]
        /\ fill' = [fill EXCEPT ![b] = -1]
    BY <1>2 DEF DQBuf
  <2>2. /\ vb'[b] = "dequeued" /\ fill'[b] = -1
        /\ \A c \in Bufs \ {b} : vb'[c] = vb[c] /\ fill'[c] = fill[c]
    BY <2>1 DEF TypeInv
  <2>3. \A m \in nodes : \A k \in 1 .. Len(buf_list[m]) : buf_list[m][k] # b
    BY <2>1 DEF OwnInv
  <2> QED
    BY <1>g, <1>t, <2>1, <2>2, <2>3 DEF OwnInv
<1>3. CASE UNCHANGED <<vb, buf_list, fill>>
  BY <1>g, <1>3 DEF OwnInv
<1>4. ASSUME NEW n \in nodes, StreamOff(n) PROVE OwnInv'
  <2>1. /\ buf_list' = [buf_list EXCEPT ![n] = <<>>]
        /\ vb' = [b \in Bufs |-> IF Node(b) = n THEN "dequeued" ELSE vb[b]]
        /\ fill' = [b \in Bufs |-> IF Node(b) = n THEN -1 ELSE fill[b]]
    BY <1>4 DEF StreamOff, ReturnAllBuffers
  <2>2. /\ Len(buf_list'[n]) = 0
        /\ \A m \in nodes \ {n} : buf_list'[m] = buf_list[m]
    BY <2>1 DEF TypeInv
  <2>3. \A m \in nodes \ {n} : \A k \in 1 .. Len(buf_list[m]) :
          vb'[buf_list[m][k]] = vb[buf_list[m][k]]
    BY <1>t, <2>1 DEF OwnInv
  <2>4. \A m \in nodes : \A k \in 1 .. Len(buf_list'[m]) :
          m # n /\ Node(buf_list'[m][k]) = m /\ vb'[buf_list'[m][k]] = "active"
    BY <2>2, <2>3 DEF OwnInv
  <2>5. \A m \in nodes : \A j, k \in 1 .. Len(buf_list'[m]) :
          buf_list'[m][j] = buf_list'[m][k] => j = k
    BY <2>2 DEF OwnInv
  <2>6. \A c \in Bufs : /\ vb'[c] = "dequeued" => fill'[c] = -1
                        /\ vb'[c] = "done" => fill'[c] # -1
    BY <2>1 DEF OwnInv
  <2> QED
    BY <1>g, <2>4, <2>5, <2>6 DEF OwnInv
<1>5. CASE HwDone
  <2>1. /\ UNCHANGED <<vb, buf_list>> /\ hw.phase = "frame"
        /\ fill' = [b \in Bufs |->
                     IF Node(b) \in hw.latched /\ Head(hw.ring[Node(b)]).buf = b
                     THEN hw.frame ELSE fill[b]]
    BY <1>5 DEF HwDone, bufVars
  <2>2. on = nodes /\ hw.latched \subseteq nodes /\ hw.frame \in Nat
    BY <2>1 DEF PhaseInv, TypeInv, HwType
  <2>3. ASSUME NEW b \in Bufs, Node(b) \in hw.latched, Head(hw.ring[Node(b)]).buf = b
        PROVE  vb[b] = "active"
    <3>1. RingOf(Node(b)) /\ hw.ring[Node(b)] # <<>> /\ Node(b) \in nodes
      BY <2>1, <2>2, <2>3 DEF RingInv, PhaseInv
    <3>2. /\ Behind(Node(b)) + 1 \in 1 .. Len(buf_list[Node(b)])
          /\ b = buf_list[Node(b)][Behind(Node(b)) + 1]
      BY <2>3, <3>1, HeadListed
    <3> QED
      BY <3>1, <3>2 DEF OwnInv
  <2>4. \A c \in Bufs : /\ vb[c] = "dequeued" => fill'[c] = -1
                        /\ vb[c] = "done" => fill'[c] # -1
    BY <2>1, <2>2, <2>3 DEF OwnInv
  <2> QED
    BY <1>g, <2>1, <2>4 DEF OwnInv
<1>6. ASSUME NEW n, n = Head(irq.todo), IrqComplete PROVE OwnInv'
  <2>1. /\ n \in nodes /\ fill' = fill
        /\ Count \in 0 .. Len(buf_list[n])
        /\ \A k \in 1 .. Count : fill[buf_list[n][k]] # -1
        /\ vb' = [b \in Bufs |-> IF \E k \in 1 .. Count : buf_list[n][k] = b
                                 THEN "done" ELSE vb[b]]
        /\ \A m \in nodes \ {n} : buf_list'[m] = buf_list[m]
        /\ Len(buf_list'[n]) = Len(buf_list[n]) - Count
        /\ \A k \in 1 .. Len(buf_list[n]) - Count :
             buf_list'[n][k] = buf_list[n][Count + k]
    BY <1>6, CompleteEffect, SMTT(20)
  <2>2. \A k \in 1 .. Len(buf_list[n]) - Count :
          Count + k \in 1 .. Len(buf_list[n]) /\ Count + k \notin 1 .. Count
    BY <1>t, <2>1
  <2>3. ASSUME NEW k \in 1 .. Len(buf_list'[n])
        PROVE  Node(buf_list'[n][k]) = n /\ vb'[buf_list'[n][k]] = "active"
    <3>1. /\ Count + k \in 1 .. Len(buf_list[n]) /\ Count + k \notin 1 .. Count
          /\ buf_list'[n][k] = buf_list[n][Count + k]
      BY <2>1, <2>2
    <3>2. \A j \in 1 .. Count : j \in 1 .. Len(buf_list[n])
      BY <1>t, <2>1
    <3>3. \A j \in 1 .. Count : buf_list[n][j] # buf_list[n][Count + k]
      BY <2>1, <3>1, <3>2 DEF OwnInv
    <3> QED
      BY <1>t, <2>1, <3>1, <3>3 DEF OwnInv
  <2>4. ASSUME NEW m \in nodes \ {n}, NEW k \in 1 .. Len(buf_list'[m])
        PROVE  Node(buf_list'[m][k]) = m /\ vb'[buf_list'[m][k]] = "active"
    <3>1. buf_list'[m] = buf_list[m] /\ Node(buf_list[m][k]) = m
      BY <2>1, <2>4 DEF OwnInv
    <3>2. \A j \in 1 .. Count : j \in 1 .. Len(buf_list[n])
      BY <1>t, <2>1
    <3>3. \A j \in 1 .. Count : buf_list[n][j] # buf_list[m][k]
      BY <2>1, <2>4, <3>1, <3>2 DEF OwnInv
    <3> QED
      BY <1>t, <2>1, <2>4, <3>1, <3>3 DEF OwnInv
  <2>5. ASSUME NEW m \in nodes,
               NEW j \in 1 .. Len(buf_list'[m]), NEW k \in 1 .. Len(buf_list'[m]),
               buf_list'[m][j] = buf_list'[m][k]
        PROVE  j = k
    <3>1. CASE m = n
      <4>1. j \in 1 .. Len(buf_list[n]) - Count /\ k \in 1 .. Len(buf_list[n]) - Count
        BY <2>1, <3>1
      <4>2. buf_list[n][Count + j] = buf_list[n][Count + k]
        BY <2>1, <2>5, <3>1, <4>1
      <4>3. Count + j = Count + k
        BY <2>1, <2>2, <4>1, <4>2 DEF OwnInv
      <4> QED
        BY <2>1, <4>3
    <3>2. CASE m # n
      BY <2>1, <2>5, <3>2 DEF OwnInv
    <3> QED
      BY <3>1, <3>2
  <2>6. \A c \in Bufs : /\ vb'[c] = "dequeued" => fill'[c] = -1
                        /\ vb'[c] = "done" => fill'[c] # -1
    BY <2>1 DEF OwnInv
  <2> QED
    BY <1>g, <2>3, <2>4, <2>5, <2>6 DEF OwnInv
<1>7. \/ UNCHANGED <<vb, buf_list, fill>> \/ HwDone \/ IrqComplete
      \/ \E b \in Bufs : BufQueue(b) \/ DQBuf(b)
      \/ \E n \in nodes : StreamOff(n)
  BY StepCases DEF IspEnqueue, EnqueueMeta, StreamOn, Ack, HwSof, IrqEnter, IrqRead,
     IrqSof, bufVars, sysVars
<1> QED
  BY <1>1, <1>2, <1>3, <1>4, <1>5, <1>6, <1>7

\* How the numbers of a list add up.
LEMMA RingFacts ==
  ASSUME Regular, TypeInv, NEW n \in nodes, RingOf(n)
  PROVE  /\ Behind(n) \in Nat /\ Written(n) \in Nat
         /\ Len(buf_list[n]) = Behind(n) + Len(hw.ring[n]) + Linked(n)
         /\ word[MetaIndex(n)] = Written(n) + Len(hw.ring[n]) + Sending(n)
<1>1. /\ Len(buf_list[n]) \in Nat /\ Len(hw.ring[n]) \in Nat
      /\ Linked(n) \in {0, 1} /\ Sending(n) \in {0, 1} /\ word[MetaIndex(n)] \in Nat
      /\ Behind(n) \in Int /\ Written(n) \in Int
  BY CountTypes
<1>2. Behind(n) >= 0 /\ Written(n) >= 0
  BY DEF RingOf
<1>3. \A l, r \in Nat, k \in {0, 1} : l = (l - r - k) + r + k
  OBVIOUS
<1>4. /\ Len(buf_list[n]) = Behind(n) + Len(hw.ring[n]) + Linked(n)
      /\ word[MetaIndex(n)] = Written(n) + Len(hw.ring[n]) + Sending(n)
  BY ONLY <1>1, <1>3 DEF Behind, Written
<1> QED
  BY <1>1, <1>2, <1>4

\* What a step makes of them.
LEMMA CountsNext ==
  ASSUME NEW n, NEW b \in Nat, NEW w \in Nat, NEW r \in Nat, NEW k \in {0, 1},
         NEW s \in {0, 1},
         Len(buf_list'[n]) = b + r + k, word'[MetaIndex(n)] = w + r + s,
         Len(hw'.ring[n]) = r, Linked(n)' = k, Sending(n)' = s
  PROVE  Behind(n)' = b /\ Written(n)' = w
<1>1. /\ Behind(n)' = Len(buf_list'[n]) - Len(hw'.ring[n]) - Linked(n)'
      /\ Written(n)' = word'[MetaIndex(n)] - Len(hw'.ring[n]) - Sending(n)'
  BY DEF Behind, Written, MetaIndex
<1>2. b + r + k - r - k = b /\ w + r + s - r - s = w
  OBVIOUS
<1> QED
  BY ONLY <1>1, <1>2, Len(buf_list'[n]) = b + r + k, word'[MetaIndex(n)] = w + r + s,
     Len(hw'.ring[n]) = r, Linked(n)' = k, Sending(n)' = s

\* A step that leaves a node and its buffers alone.
LEMMA RingKept ==
  ASSUME Regular, TypeInv, NEW n \in nodes, RingOf(n),
         buf_list'[n] = buf_list[n], hw'.ring[n] = hw.ring[n], qbuf'[n] = qbuf[n],
         word'[MetaIndex(n)] = word[MetaIndex(n)],
         \A k \in 1 .. Len(buf_list[n]) :
           /\ fill'[buf_list[n][k]] = fill[buf_list[n][k]]
           /\ seq_no'[buf_list[n][k]] = seq_no[buf_list[n][k]]
  PROVE  RingOf(n)' /\ Behind(n)' = Behind(n) /\ Written(n)' = Written(n)
<1>1. Linked(n)' = Linked(n) /\ Sending(n)' = Sending(n)
  BY DEF Linked, Sending
<1>2. Behind(n)' = Behind(n) /\ Written(n)' = Written(n)
  BY <1>1 DEF Behind, Written, MetaIndex
<1>3. \A k \in 1 .. Behind(n) + Len(hw.ring[n]) + Sending(n) : k \in 1 .. Len(buf_list[n])
  BY RingFacts, CountTypes
<1> QED
  BY <1>1, <1>2, <1>3 DEF RingOf

\* Only the end of a frame fills buffers: one of each latched ring.
WrittenNext ==
  /\ \A n \in on : hw'.phase # "stopped" =>
       Written(n)' = IF n \in hw.latched /\ hw'.phase = "idle" THEN Written(n) + 1
                     ELSE Written(n)
  /\ \A n \in on' \ on : Written(n)' \in Nat

\* It is enough to look at the nodes one by one.
LEMMA RingGoal ==
  ASSUME PhaseInv, RingInv, on' = on, hw'.phase = hw.phase,
         hw.phase # "stopped" =>
           \A m \in on : RingOf(m) => RingOf(m)' /\ Written(m)' = Written(m)
  PROVE  RingInv' /\ WrittenNext
<1>1. hw.phase # "frame" => hw.latched = {}
  BY DEF PhaseInv
<1> QED
  BY <1>1 DEF RingInv, WrittenNext

\* The list of a node is its filled buffers, its ring and its QBUF, always.
LEMMA RingStep ==
  ASSUME Regular, TypeInv, PhaseInv, OwnInv, RingInv, CompleteInv, Step
  PROVE  RingInv' /\ WrittenNext
<1>g. Bufs' = Bufs /\ nodes' = nodes
  BY GivenStays
<1>n. /\ \A b \in Bufs : Node(b) \in nodes
      /\ \A n \in nodes : MetaIndex(n) \in {0, 1} /\ MetaIndex(n) \in Words
      /\ \A m, n \in nodes : MetaIndex(m) = MetaIndex(n) => m = n
  BY NodeFacts DEF Words
<1>o. on \subseteq nodes
  BY DEF TypeInv
<1>t. \A n \in nodes : /\ Len(buf_list[n]) \in Nat /\ Len(hw.ring[n]) \in Nat
                       /\ \A k \in 1 .. Len(buf_list[n]) : buf_list[n][k] \in Bufs
  BY CountTypes
<1>a. /\ \A w, r \in Nat : w + r + 0 = w + r /\ (r + 1) + 0 = r + 1 /\ r + 1 \in Nat
      /\ \A w, r \in Nat : w + (r + 1) + 0 = w + r + 1
      /\ \A r \in Nat : r >= 1 => r \in 1 .. r
      /\ \A b, r \in Nat : b + r + 1 >= 1 /\ b + r + 1 \in 1 .. b + r + 1
      /\ \A b, w, r \in Nat : w - b + (b + r + 1) = w + (r + 1)
      /\ {0, 1} = {0} \cup {1} /\ 0 \in {0, 1} /\ 1 \in {0, 1}
  OBVIOUS
<1>1. ASSUME NEW b \in Bufs, BufQueue(b) PROVE RingInv' /\ WrittenNext
  <2> DEFINE n == Node(b)
             list == Append(buf_list[n], b)
  <2>1. /\ UNCHANGED <<on, seq_no, word, hw, fill>>
        /\ n \in nodes /\ vb[b] = "dequeued" /\ qbuf[n].pc = "idle"
        /\ buf_list' = [buf_list EXCEPT ![n] = list]
        /\ qbuf' = IF n \in on THEN [qbuf EXCEPT ![n] = [pc |-> "enqueue", buf |-> b]]
                   ELSE qbuf
    BY <1>1, <1>n DEF BufQueue, runVars
  <2>2. /\ Len(list) = Len(buf_list[n]) + 1 /\ Len(buf_list[n]) \in Nat
        /\ \A k \in 1 .. Len(buf_list[n]) : list[k] = buf_list[n][k]
        /\ list[Len(buf_list[n]) + 1] = b
    BY <1>t, <2>1, AppendFacts DEF TypeInv
  <2> HIDE DEF list, n
  <2>3. /\ buf_list'[n] = list
        /\ \A m \in nodes \ {n} : buf_list'[m] = buf_list[m] /\ qbuf'[m] = qbuf[m]
    BY <2>1 DEF TypeInv
  <2>4. ASSUME NEW m \in on \ {n}, RingOf(m)
        PROVE  RingOf(m)' /\ Written(m)' = Written(m)
    BY <1>o, <2>1, <2>3, <2>4, RingKept
  <2>5. ASSUME n \in on, RingOf(n) PROVE RingOf(n)' /\ Written(n)' = Written(n)
    <3>1. qbuf'[n] = [pc |-> "enqueue", buf |-> b]
      BY <2>1, <2>5 DEF TypeInv
    <3>2. /\ Linked(n) = 0 /\ Sending(n) = 0 /\ Linked(n)' = 1 /\ Sending(n)' = 0
      BY <2>1, <3>1 DEF Linked, Sending
    <3>3. /\ Behind(n) \in Nat /\ Written(n) \in Nat /\ Len(hw.ring[n]) \in Nat
          /\ Len(buf_list[n]) = Behind(n) + Len(hw.ring[n])
          /\ word[MetaIndex(n)] = Written(n) + Len(hw.ring[n])
      BY <1>t, <2>1, <2>5, <3>2, RingFacts
    <3>4. Behind(n)' = Behind(n) /\ Written(n)' = Written(n)
      <4> DEFINE r == Len(hw.ring[n])
      <4>1. /\ Len(buf_list'[n]) = Behind(n) + r + 1
            /\ word'[MetaIndex(n)] = Written(n) + r + 0
            /\ Len(hw'.ring[n]) = r
        BY ONLY <1>a, <2>1, <2>2, <2>3, <3>3
      <4>2. Behind(n) \in Nat /\ Written(n) \in Nat /\ r \in Nat
        BY <3>3
      <4>3. Linked(n)' = 1 /\ Sending(n)' = 0
        BY <3>2
      <4> HIDE DEF r
      <4> QED
        BY ONLY <1>a, <4>1, <4>2, <4>3, CountsNext
    <3>5. \A k \in 1 .. Len(list) : fill[list[k]] = -1 <=> k > Behind(n)
      <4>1. fill[b] = -1
        BY <2>1 DEF OwnInv
      <4>2. \A k \in 1 .. Len(list) : k \in 1 .. Len(buf_list[n]) \/ k = Len(buf_list[n]) + 1
        BY <2>2
      <4>3. Len(buf_list[n]) + 1 > Behind(n)
        BY <3>3
      <4> QED
        BY <2>2, <2>5, <4>1, <4>2, <4>3 DEF RingOf
    <3>6. \A k \in 1 .. Behind(n) + Len(hw.ring[n]) :
            list[k] = buf_list[n][k] /\ seq_no[list[k]] = Written(n) - Behind(n) + k
      <4>1. \A k \in 1 .. Behind(n) + Len(hw.ring[n]) :
              /\ k \in 1 .. Len(buf_list[n])
              /\ k \in 1 .. Behind(n) + Len(hw.ring[n]) + Sending(n)
        BY <3>2, <3>3
      <4> QED
        BY <2>2, <2>5, <4>1 DEF RingOf
    <3>7. \A k \in 1 .. Len(hw.ring[n]) :
            Behind(n) + k \in 1 .. Len(buf_list[n])
      BY <3>3
    <3>8. \A k \in 1 .. Len(hw.ring[n]) :
            hw.ring[n][k] = [buf |-> list[Behind(n) + k], seq |-> Written(n) + k]
      BY <2>2, <2>5, <3>7 DEF RingOf
    <3>9. Behind(n) + Len(hw.ring[n]) + 0 = Behind(n) + Len(hw.ring[n])
      BY <3>3
    <3>10. Behind(n) >= 0 /\ Written(n) >= 0
      BY <3>3
    <3> QED
      BY <2>1, <2>2, <2>3, <3>1, <3>2, <3>4, <3>5, <3>6, <3>8, <3>9, <3>10 DEF RingOf
  <2> QED
    BY <2>1, <2>4, <2>5, RingGoal
<1>2. ASSUME NEW b \in Bufs, DQBuf(b) PROVE RingInv' /\ WrittenNext
  <2>1. /\ UNCHANGED <<on, seq_no, buf_list, qbuf, word, hw>> /\ vb[b] = "done"
        /\ \A c \in Bufs \ {b} : fill'[c] = fill[c]
    BY <1>2 DEF DQBuf, runVars, TypeInv
  <2>2. \A m \in nodes : \A k \in 1 .. Len(buf_list[m]) : buf_list[m][k] \in Bufs \ {b}
    BY <1>t, <2>1 DEF OwnInv
  <2>3. ASSUME NEW m \in on, RingOf(m)
        PROVE  RingOf(m)' /\ Written(m)' = Written(m)
    BY <1>o, <2>1, <2>2, <2>3, RingKept
  <2> QED
    BY <2>1, <2>3, RingGoal
<1>3. ASSUME NEW n \in nodes, IspEnqueue(n) PROVE RingInv' /\ WrittenNext
  <2> DEFINE c == qbuf[n].buf
  <2>1. /\ UNCHANGED <<on, buf_list, hw, fill, dmas>> /\ qbuf[n].pc = "enqueue"
        /\ n \in on
    BY <1>3 DEF IspEnqueue, runVars, PhaseInv, QIdle
  <2>2. CASE dmas = 0
    <3>1. hw.phase = "stopped"
      BY <2>1, <2>2 DEF PhaseInv
    <3> QED
      BY <2>1, <3>1, RingGoal
  <2>3. CASE dmas # 0 /\ hw.phase # "stopped"
    <3>1. /\ word' = [word EXCEPT ![MetaIndex(n)] = @ + 1]
          /\ seq_no' = [seq_no EXCEPT ![c] = word[MetaIndex(n)] + 1]
          /\ qbuf' = [qbuf EXCEPT ![n].pc = "send"]
      BY <1>3, <2>3 DEF IspEnqueue
    <3>2. RingOf(n) /\ c = buf_list[n][Len(buf_list[n])]
      BY <2>1, <2>3 DEF RingInv, RingOf
    <3>3. /\ Linked(n) = 1 /\ Sending(n) = 0 /\ Linked(n)' = 1 /\ Sending(n)' = 1
          /\ qbuf'[n].pc = "send" /\ qbuf'[n].buf = c
      BY <2>1, <3>1 DEF Linked, Sending, TypeInv, QbufType, QIdle
    <3>4. /\ Behind(n) \in Nat /\ Written(n) \in Nat /\ Len(hw.ring[n]) \in Nat
          /\ Len(buf_list[n]) = Behind(n) + Len(hw.ring[n]) + 1
          /\ word[MetaIndex(n)] = Written(n) + Len(hw.ring[n])
      <4>1. word[MetaIndex(n)] = Written(n) + Len(hw.ring[n]) + 0
        BY <3>2, <3>3, RingFacts
      <4> QED
        BY <1>t, <3>2, <3>3, <4>1, RingFacts
    <3>5. Len(buf_list[n]) \in 1 .. Len(buf_list[n]) /\ c \in Bufs
      <4>1. Len(buf_list[n]) \in 1 .. Len(buf_list[n])
        BY ONLY <1>a, <3>4
      <4> QED
        BY <1>t, <3>2, <4>1
    <3>6. /\ word'[MetaIndex(n)] = word[MetaIndex(n)] + 1
          /\ \A m \in nodes \ {n} : word'[MetaIndex(m)] = word[MetaIndex(m)]
          /\ seq_no'[c] = word[MetaIndex(n)] + 1
          /\ \A b \in Bufs \ {c} : seq_no'[b] = seq_no[b]
          /\ \A m \in nodes \ {n} : qbuf'[m] = qbuf[m]
      BY <1>n, <3>1, <3>5 DEF TypeInv
    <3>7. ASSUME NEW m \in on \ {n}, RingOf(m)
        PROVE  RingOf(m)' /\ Written(m)' = Written(m)
      <4>1. \A k \in 1 .. Len(buf_list[m]) : buf_list[m][k] \in Bufs \ {c}
        BY <1>o, <1>t, <3>2, <3>5, <3>7 DEF OwnInv
      <4> QED
        BY <1>o, <2>1, <3>6, <3>7, <4>1, RingKept
    <3>8. Behind(n)' = Behind(n) /\ Written(n)' = Written(n)
      <4> DEFINE r == Len(hw.ring[n])
      <4>1. /\ Len(buf_list'[n]) = Behind(n) + r + 1
            /\ word'[MetaIndex(n)] = Written(n) + r + 1
            /\ Len(hw'.ring[n]) = r
        BY <2>1, <3>4, <3>6
      <4>2. Behind(n) \in Nat /\ Written(n) \in Nat /\ r \in Nat
        BY <3>4
      <4>3. Linked(n)' = 1 /\ Sending(n)' = 1
        BY <3>3
      <4> HIDE DEF r
      <4> QED
        BY ONLY <1>a, <4>1, <4>2, <4>3, CountsNext
    <3>9. \A k \in 1 .. Behind(n) + Len(hw.ring[n]) + 1 :
            seq_no'[buf_list[n][k]] = Written(n) - Behind(n) + k
      <4>1. \A k \in 1 .. Behind(n) + Len(hw.ring[n]) + 1 :
              /\ k \in 1 .. Len(buf_list[n])
              /\ \/ k = Len(buf_list[n])
                 \/ /\ k # Len(buf_list[n])
                    /\ k \in 1 .. Behind(n) + Len(hw.ring[n]) + Sending(n)
        BY <3>3, <3>4
      <4>2. ASSUME NEW k \in 1 .. Len(buf_list[n]), k # Len(buf_list[n]),
                   k \in 1 .. Behind(n) + Len(hw.ring[n]) + Sending(n)
            PROVE  seq_no'[buf_list[n][k]] = Written(n) - Behind(n) + k
        <5>1. buf_list[n][k] \in Bufs \ {c}
          BY <1>t, <3>2, <3>5, <4>2 DEF OwnInv
        <5>2. seq_no[buf_list[n][k]] = Written(n) - Behind(n) + k
          BY <3>2, <4>2 DEF RingOf
        <5> QED
          BY <3>6, <5>1, <5>2
      <4>3. seq_no'[buf_list[n][Len(buf_list[n])]]
              = Written(n) - Behind(n) + Len(buf_list[n])
        BY <3>2, <3>4, <3>6
      <4> QED
        BY <4>1, <4>2, <4>3
    <3>10. RingOf(n)'
      BY <2>1, <3>2, <3>3, <3>8, <3>9 DEF RingOf
    <3> QED
      BY <2>1, <3>7, <3>8, <3>10, RingGoal
  <2>4. CASE hw.phase = "stopped"
    BY <2>1, <2>4, RingGoal
  <2> QED
    BY <2>2, <2>3, <2>4
<1>4. ASSUME NEW n \in nodes, EnqueueMeta(n) PROVE RingInv' /\ WrittenNext
  <2> DEFINE c == qbuf[n].buf
             e == RingEntry(c)
             ring == Append(hw.ring[n], e)
  <2>1. /\ UNCHANGED <<on, buf_list, seq_no, word, fill>>
        /\ qbuf[n].pc = "send" /\ qbuf' = [qbuf EXCEPT ![n] = QIdle]
        /\ hw' = [hw EXCEPT !.ring = [hw.ring EXCEPT ![n] = ring]]
    BY <1>4 DEF EnqueueMeta, runVars, bufVars, TypeInv, HwType
  <2>2. n \in on /\ hw.phase # "stopped" /\ RingOf(n)
    BY <2>1 DEF PhaseInv, QIdle, RingInv
  <2>3. c = buf_list[n][Len(buf_list[n])] /\ e = [buf |-> c, seq |-> seq_no[c]]
    BY <2>1, <2>2 DEF RingOf, RingEntry
  <2>4. /\ Linked(n) = 1 /\ Sending(n) = 1 /\ Linked(n)' = 0 /\ Sending(n)' = 0
        /\ qbuf'[n].pc = "idle" /\ \A m \in nodes \ {n} : qbuf'[m] = qbuf[m]
    BY <2>1 DEF Linked, Sending, TypeInv, QIdle
  <2>5. /\ Behind(n) \in Nat /\ Written(n) \in Nat /\ Len(hw.ring[n]) \in Nat
        /\ Len(buf_list[n]) = Behind(n) + Len(hw.ring[n]) + 1
        /\ word[MetaIndex(n)] = Written(n) + Len(hw.ring[n]) + 1
    BY <1>t, <2>2, <2>4, RingFacts
  <2>6. e \in Entry
    <3>1. c \in Bufs
      BY <2>1 DEF TypeInv, QbufType, QIdle
    <3> QED
      BY <2>3, <3>1 DEF Entry, TypeInv
  <2>7. /\ Len(ring) = Len(hw.ring[n]) + 1
        /\ \A k \in 1 .. Len(hw.ring[n]) : ring[k] = hw.ring[n][k]
        /\ ring[Len(hw.ring[n]) + 1] = e
    <3>1. hw.ring[n] \in Seq(Entry)
      BY DEF TypeInv, HwType
    <3> QED
      BY <2>6, <3>1, AppendFacts
  <2> HIDE DEF ring, e, c
  <2>8. /\ hw'.ring[n] = ring /\ \A m \in nodes \ {n} : hw'.ring[m] = hw.ring[m]
    BY <2>1 DEF TypeInv, HwType
  <2>9. ASSUME NEW m \in on \ {n}, RingOf(m)
        PROVE  RingOf(m)' /\ Written(m)' = Written(m)
    BY <1>o, <2>1, <2>4, <2>8, <2>9, RingKept
  <2>10. Behind(n)' = Behind(n) /\ Written(n)' = Written(n)
    <3> DEFINE r == Len(hw.ring[n]) + 1
    <3>1. Len(hw'.ring[n]) = r /\ r \in Nat
      BY ONLY <1>a, <2>5, <2>7, <2>8
    <3>2. /\ Len(buf_list'[n]) = Behind(n) + r + 0
          /\ word'[MetaIndex(n)] = Written(n) + r + 0
      <4>1. \A w, k \in Nat : w + (k + 1) + 0 = w + k + 1
        OBVIOUS
      <4> QED
        BY ONLY <2>1, <2>5, <4>1
    <3> HIDE DEF r
    <3> QED
      BY <1>a, <2>4, <2>5, <3>1, <3>2, CountsNext
  <2>11. \A k \in 1 .. Len(hw.ring[n]) + 1 :
           ring[k] = [buf |-> buf_list[n][Behind(n) + k], seq |-> Written(n) + k]
    <3>1. \A k \in 1 .. Len(hw.ring[n]) + 1 :
            k \in 1 .. Len(hw.ring[n]) \/ k = Len(hw.ring[n]) + 1
      BY <2>5
    <3>2. \A k \in 1 .. Len(hw.ring[n]) :
            ring[k] = [buf |-> buf_list[n][Behind(n) + k], seq |-> Written(n) + k]
      BY <2>2, <2>7 DEF RingOf
    <3>3. c = buf_list[n][Behind(n) + (Len(hw.ring[n]) + 1)]
      BY <2>3, <2>5
    <3>4. seq_no[c] = Written(n) + (Len(hw.ring[n]) + 1)
      <4>1. Len(buf_list[n]) \in 1 .. Behind(n) + Len(hw.ring[n]) + Sending(n)
        BY ONLY <2>4, <2>5
      <4>2. Written(n) - Behind(n) + Len(buf_list[n]) = Written(n) + (Len(hw.ring[n]) + 1)
        BY ONLY <1>a, <2>5
      <4> QED
        BY <2>2, <2>3, <4>1, <4>2 DEF RingOf
    <3> QED
      BY <2>3, <2>7, <3>1, <3>2, <3>3, <3>4
  <2>12. \A k \in 1 .. Behind(n) + (Len(hw.ring[n]) + 1) + 0 :
           k \in 1 .. Behind(n) + Len(hw.ring[n]) + Sending(n)
    BY <2>4, <2>5
  <2>13. RingOf(n)'
    BY <2>1, <2>2, <2>4, <2>7, <2>8, <2>10, <2>11, <2>12 DEF RingOf
  <2>14. hw'.phase = hw.phase
    BY <2>1 DEF TypeInv, HwType
  <2> QED
    BY <2>1, <2>9, <2>10, <2>13, <2>14, RingGoal
<1>5. ASSUME NEW n \in nodes, StreamOn(n) PROVE RingInv' /\ WrittenNext
  <2> DEFINE i == MetaIndex(n)
             old == IF on = {} THEN [j \in Words |-> 0] ELSE word
             list == buf_list[n]
             place(b) == CHOOSE k \in DOMAIN list : list[k] = b
             ring == [k \in DOMAIN list |-> [buf |-> list[k], seq |-> old[i] + k]]
  <2>1. /\ UNCHANGED <<buf_list, qbuf, fill>>
        /\ n \notin on /\ on' = on \cup {n} /\ hw.phase = "off" /\ qbuf[n].pc = "idle"
        /\ word' = [old EXCEPT ![i] = old[i] + Len(list)]
        /\ seq_no' = [b \in Bufs |-> IF \E k \in DOMAIN list : list[k] = b
                                     THEN old[i] + place(b) ELSE seq_no[b]]
        /\ hw' = [hw EXCEPT !.ring = [hw.ring EXCEPT ![n] = ring],
                            !.phase = IF on' = nodes THEN "idle" ELSE hw.phase]
    BY <1>5 DEF StreamOn, TypeInv, HwType
  <2>2. /\ DOMAIN list = 1 .. Len(list) /\ Len(list) \in Nat
        /\ \A k \in 1 .. Len(list) : list[k] \in Bufs
        /\ i \in Words /\ old \in [Words -> Nat] /\ old[i] \in Nat
    BY <1>n, <1>t, LenProperties DEF TypeInv
  <2>3. /\ hw'.ring[n] = ring /\ \A m \in nodes \ {n} : hw'.ring[m] = hw.ring[m]
        /\ hw.latched = {}
    BY <2>1 DEF TypeInv, HwType, PhaseInv
  <2>4. /\ word'[i] = old[i] + Len(list)
        /\ on # {} => \A m \in nodes \ {n} : word'[MetaIndex(m)] = word[MetaIndex(m)]
    BY <1>n, <2>1, <2>2 DEF TypeInv
  <2>5. \A k \in 1 .. Len(list) : place(list[k]) = k
    BY <2>2 DEF OwnInv
  <2>6. \A k \in 1 .. Len(list) : seq_no'[list[k]] = old[i] + k
    <3> HIDE DEF list, place, old
    <3> QED
      BY <2>1, <2>2, <2>5
  <2>7. Len(ring) = Len(list)
    BY <2>2
  <2>8. \A k \in 1 .. Len(list) : ring[k] = [buf |-> list[k], seq |-> old[i] + k]
    BY <2>2
  <2>9. \A m \in nodes \ {n} : \A k \in 1 .. Len(buf_list[m]) :
          seq_no'[buf_list[m][k]] = seq_no[buf_list[m][k]]
    <3>1. \A m \in nodes \ {n} : \A k \in 1 .. Len(buf_list[m]) :
            \A j \in 1 .. Len(list) : list[j] # buf_list[m][k]
      BY DEF OwnInv
    <3> HIDE DEF list
    <3> QED
      BY <1>t, <2>1, <2>2, <3>1
  <2> HIDE DEF ring, place, old
  <2>10. ASSUME NEW m \in on PROVE RingOf(m)' /\ Written(m)' = Written(m)
    <3>1. m \in nodes \ {n} /\ on # {} /\ RingOf(m)
      BY <1>o, <2>1, <2>10 DEF RingInv
    <3> QED
      BY <2>1, <2>3, <2>4, <2>9, <3>1, RingKept
  <2>11. RingOf(n)' /\ Written(n)' \in Nat
    <3>1. Linked(n)' = 0 /\ Sending(n)' = 0 /\ qbuf'[n].pc = "idle"
      BY <2>1 DEF Linked, Sending
    <3>2. /\ Len(buf_list'[n]) = 0 + Len(list) + 0
          /\ word'[MetaIndex(n)] = old[i] + Len(list) + 0
          /\ 0 \in Nat /\ 0 \in {0, 1}
      BY <2>1, <2>2, <2>4
    <3>3. Behind(n)' = 0 /\ Written(n)' = old[i]
      <4> DEFINE r == Len(list)
                 w == old[i]
      <4>1. r \in Nat /\ w \in Nat /\ Len(hw'.ring[n]) = r
        BY <2>2, <2>3, <2>7
      <4> HIDE DEF r
      <4>2. Len(buf_list'[n]) = 0 + r + 0 /\ word'[MetaIndex(n)] = w + r + 0
        BY <3>2 DEF r
      <4> HIDE DEF w
      <4>3. Behind(n)' = 0 /\ Written(n)' = w
        BY <3>1, <3>2, <4>1, <4>2, CountsNext
      <4> QED
        BY <4>3 DEF w
    <3>4. \A k \in 1 .. Len(list) : fill[list[k]] = -1 /\ k > 0
      BY <2>1, <2>2 DEF PhaseInv
    <3>5. \A k \in 1 .. 0 + Len(list) + 0 :
            k \in 1 .. Len(list) /\ old[i] + k = old[i] - 0 + k
      BY <2>2
    <3>6. \A k \in 1 .. Len(list) : 0 + k = k
      BY <2>2
    <3>7. 0 >= 0 /\ old[i] >= 0
      BY <2>2
    <3> HIDE DEF i
    <3>8. buf_list'[n] = list /\ fill' = fill /\ Len(hw'.ring[n]) = Len(list)
      BY <2>1, <2>3, <2>7
    <3>9. Written(n)' \in Nat
      BY <2>2, <3>3 DEF i
    <3> HIDE DEF list
    <3> QED
      BY <2>3, <2>6, <2>8, <3>9, <3>1, <3>3, <3>4, <3>5, <3>6, <3>7, <3>8 DEF RingOf
  <2> QED
    BY <2>1, <2>3, <2>10, <2>11 DEF RingInv, WrittenNext
<1>6. ASSUME NEW n \in nodes, StreamOff(n) PROVE RingInv' /\ WrittenNext
  BY <1>6 DEF StreamOff, HwOff, RingInv, WrittenNext
<1>7. ASSUME UNCHANGED <<on, buf_list, qbuf, seq_no, fill>>,
             hw'.ring = hw.ring, hw'.phase = hw.phase,
             \A n \in nodes : word'[MetaIndex(n)] = word[MetaIndex(n)]
      PROVE  RingInv' /\ WrittenNext
  <2>1. ASSUME NEW m \in on, RingOf(m) PROVE RingOf(m)' /\ Written(m)' = Written(m)
    BY <1>o, <1>7, <2>1, RingKept
  <2> QED
    BY <1>7, <2>1, RingGoal
<1>8. CASE Ack
  <2>1. /\ UNCHANGED <<on, buf_list, qbuf, seq_no, fill>>
        /\ hw' = [hw EXCEPT !.acked = @ + 1]
        /\ word' = [word EXCEPT ![-1] = hw.acked + 1]
    BY <1>8 DEF Ack, composed_frame_seq_no, runVars, bufVars
  <2>2. \A n \in nodes : word'[MetaIndex(n)] = word[MetaIndex(n)]
    <3>1. word'[0] = word[0] /\ word'[1] = word[1]
      BY <2>1 DEF TypeInv, Words
    <3> QED
      BY <1>n, <3>1
  <2> QED
    BY <1>7, <2>1, <2>2 DEF TypeInv, HwType
<1>9. CASE HwSof
  <2>1. /\ UNCHANGED <<on, buf_list, qbuf, seq_no, fill, word>>
        /\ hw.phase = "idle" /\ hw'.ring = hw.ring /\ hw'.phase = "frame"
        /\ hw.latched = {}
    BY <1>9 DEF HwSof, runVars, bufVars, TypeInv, HwType, PhaseInv
  <2>2. ASSUME NEW m \in on PROVE RingOf(m)' /\ Written(m)' = Written(m)
    <3>1. RingOf(m)
      BY <2>1, <2>2 DEF RingInv
    <3> QED
      BY <1>o, <2>1, <2>2, <3>1, RingKept
  <2> QED
    BY <2>1, <2>2 DEF RingInv, WrittenNext
<1>10. CASE IrqEnter
  BY <1>7, <1>10 DEF IrqEnter, runVars, bufVars, TypeInv, HwType
<1>11. CASE IrqRead
  BY <1>7, <1>11 DEF IrqRead, runVars, bufVars
<1>12. CASE IrqSof
  <2>1. /\ UNCHANGED <<on, buf_list, qbuf, seq_no, fill>>
        /\ \/ UNCHANGED <<word, hw>>
           \/ /\ \A i \in Words \ {-2, 2, 3} : word'[i] = word[i]
              /\ hw' = [hw EXCEPT !.base = irq.frame + 1] \/ hw' = hw
    BY <1>12 DEF TypeInv, IrqSof, dequeued_frame_seq_no, dequeued_meta_seq_no, runVars, bufVars
  <2>2. hw'.ring = hw.ring /\ hw'.phase = hw.phase
    BY <2>1 DEF TypeInv, HwType
  <2>3. \A n \in nodes : word'[MetaIndex(n)] = word[MetaIndex(n)]
    <3>1. 0 \in Words \ {-2, 2, 3} /\ 1 \in Words \ {-2, 2, 3}
      BY DEF Words
    <3>2. word'[0] = word[0] /\ word'[1] = word[1]
      BY <2>1, <3>1
    <3> QED
      BY <1>n, <3>2
  <2> QED
    BY <1>7, <2>1, <2>2, <2>3
<1>13. CASE UNCHANGED sysVars
  BY <1>7, <1>13 DEF sysVars, runVars, bufVars
<1>14. CASE HwDone
  <2>1. /\ UNCHANGED <<on, buf_list, qbuf, seq_no, word>>
        /\ hw.phase = "frame" /\ hw'.phase = "idle" /\ hw.frame \in Nat
        /\ hw'.ring = [n \in nodes |-> IF n \in hw.latched THEN Tail(hw.ring[n])
                                       ELSE hw.ring[n]]
        /\ fill' = [b \in Bufs |->
                     IF Node(b) \in hw.latched /\ Head(hw.ring[Node(b)]).buf = b
                     THEN hw.frame ELSE fill[b]]
    BY <1>14 DEF HwDone, runVars, bufVars, TypeInv, HwType
  <2>2. \A m \in on : RingOf(m)
    BY <2>1 DEF RingInv
  <2>3. ASSUME NEW m \in on, m \notin hw.latched
        PROVE  RingOf(m)' /\ Written(m)' = Written(m)
    <3>1. \A k \in 1 .. Len(buf_list[m]) : fill'[buf_list[m][k]] = fill[buf_list[m][k]]
      BY <1>o, <1>t, <2>1, <2>3 DEF OwnInv
    <3>2. hw'.ring[m] = hw.ring[m]
      BY <1>o, <2>1, <2>3
    <3> QED
      BY <1>o, <2>1, <2>2, <3>1, <3>2, RingKept
  <2>4. ASSUME NEW n \in on, n \in hw.latched
        PROVE  RingOf(n)' /\ Written(n)' = Written(n) + 1
    <3> DEFINE r == Len(hw.ring[n]) - 1
               b == Behind(n) + 1
               w == Written(n) + 1
    <3>1. hw.ring[n] # <<>> /\ n \in nodes
      BY <1>o, <2>4 DEF PhaseInv
    <3>2. /\ hw'.ring[n] = Tail(hw.ring[n]) /\ r \in Nat /\ Len(hw.ring[n]) = r + 1
          /\ Len(hw'.ring[n]) = r
          /\ \A k \in 1 .. r : hw'.ring[n][k] = hw.ring[n][k + 1]
      BY <2>1, <2>4, <3>1, HeadOfRing
    <3>3. /\ Behind(n) + 1 \in 1 .. Len(buf_list[n])
          /\ Head(hw.ring[n]).buf = buf_list[n][Behind(n) + 1]
      BY <2>2, <3>1, HeadListed
    <3>4. /\ Linked(n)' = Linked(n) /\ Sending(n)' = Sending(n)
          /\ Linked(n) \in {0, 1} /\ Sending(n) \in {0, 1}
      BY <2>1, <3>1, CountTypes DEF Linked, Sending
    <3>5. /\ Behind(n) \in Nat /\ Written(n) \in Nat
          /\ Len(buf_list[n]) = Behind(n) + Len(hw.ring[n]) + Linked(n)
          /\ word[MetaIndex(n)] = Written(n) + Len(hw.ring[n]) + Sending(n)
      BY <2>2, <3>1, RingFacts
    <3> HIDE DEF r
    <3>6. Behind(n)' = b /\ Written(n)' = w
      <4>1. \A x, q \in Nat, k \in {0, 1} : x + (q + 1) + k = (x + 1) + q + k
        OBVIOUS
      <4>2. Len(buf_list'[n]) = b + r + Linked(n) /\ word'[MetaIndex(n)] = w + r + Sending(n)
        BY ONLY <2>1, <3>2, <3>4, <3>5, <4>1
      <4>3. b \in Nat /\ w \in Nat
        BY <3>5
      <4> HIDE DEF b, w
      <4> QED
        BY <3>2, <3>4, <4>2, <4>3, CountsNext
    <3>7. \A k \in 1 .. Len(buf_list[n]) :
            fill'[buf_list[n][k]] = IF k = Behind(n) + 1 THEN hw.frame
                                    ELSE fill[buf_list[n][k]]
      BY <1>t, <2>1, <2>4, <3>1, <3>3 DEF OwnInv
    <3>8. \A k \in 1 .. Len(buf_list[n]) :
            fill'[buf_list[n][k]] = -1 <=> k > b
      <4>1. hw.frame # -1
        BY <2>1
      <4>2. \A k \in 1 .. Len(buf_list[n]) :
              k # Behind(n) + 1 => (k > Behind(n) <=> k > Behind(n) + 1)
        BY <3>1, <3>5, <1>t
      <4>3. ~(Behind(n) + 1 > Behind(n) + 1)
        BY <3>5
      <4> QED
        BY <2>2, <3>7, <4>1, <4>2, <4>3 DEF RingOf
    <3>9. \A k \in 1 .. b + r + Sending(n) : seq_no[buf_list[n][k]] = w - b + k
      <4>1. \A k \in 1 .. b + r + Sending(n) :
              /\ k \in 1 .. Behind(n) + Len(hw.ring[n]) + Sending(n)
              /\ w - b + k = Written(n) - Behind(n) + k
        BY <3>2, <3>4, <3>5
      <4> QED
        BY <2>2, <4>1 DEF RingOf
    <3>10. \A k \in 1 .. r :
             hw'.ring[n][k] = [buf |-> buf_list[n][b + k], seq |-> w + k]
      <4>1. \A k \in 1 .. r : k + 1 \in 1 .. Len(hw.ring[n]) /\ k \in Nat
        BY <3>2
      <4>2. \A x, k \in Nat : x + (k + 1) = (x + 1) + k
        OBVIOUS
      <4>3. \A k \in 1 .. r :
              Behind(n) + (k + 1) = b + k /\ Written(n) + (k + 1) = w + k
        BY ONLY <3>5, <4>1, <4>2
      <4> QED
        <5>1. \A k \in 1 .. Len(hw.ring[n]) :
                hw.ring[n][k] = [buf |-> buf_list[n][Behind(n) + k], seq |-> Written(n) + k]
          BY <2>2 DEF RingOf
        <5>2. ASSUME NEW k \in 1 .. r
              PROVE  hw.ring[n][k + 1] = [buf |-> buf_list[n][b + k], seq |-> w + k]
          BY ONLY <4>1, <4>3, <5>1, <5>2
        <5> QED
          BY <3>2, <5>2
    <3>11. b >= 0 /\ w >= 0
      BY <3>5
    <3>12. qbuf[n].pc # "idle" => qbuf[n].buf = buf_list[n][Len(buf_list[n])]
      BY <2>2 DEF RingOf
    <3> HIDE DEF b, w
    <3>13. RingOf(n)'
      BY <2>1, <3>2, <3>4, <3>6, <3>8, <3>9, <3>10, <3>11, <3>12 DEF RingOf
    <3> QED
      BY <3>6, <3>13 DEF w
  <2> QED
    BY <2>1, <2>3, <2>4 DEF RingInv, WrittenNext
<1>15. ASSUME NEW n, n = Head(irq.todo), IrqComplete PROVE RingInv' /\ WrittenNext
  <2>1. /\ n \in nodes /\ irq.pc = "complete"
        /\ UNCHANGED <<on, seq_no, qbuf, word, hw, fill>>
        /\ Count \in 0 .. Len(buf_list[n])
        /\ \A k \in 1 .. Count : fill[buf_list[n][k]] # -1
        /\ \A m \in nodes \ {n} : buf_list'[m] = buf_list[m]
        /\ Len(buf_list'[n]) = Len(buf_list[n]) - Count
        /\ \A k \in 1 .. Len(buf_list[n]) - Count :
             buf_list'[n][k] = buf_list[n][Count + k]
    BY <1>15, CompleteEffect, SMTT(20)
  <2>2. qbuf[n].pc = "idle"
    BY <1>15, <2>1 DEF CompleteInv
  <2>3. ASSUME NEW m \in on \ {n}, RingOf(m)
        PROVE  RingOf(m)' /\ Written(m)' = Written(m)
    BY <1>o, <2>1, <2>3, RingKept
  <2>4. ASSUME n \in on, RingOf(n) PROVE RingOf(n)' /\ Written(n)' = Written(n)
    <3> DEFINE r == Len(hw.ring[n])
               b == Behind(n) - Count
    <3>1. Linked(n) = 0 /\ Sending(n) = 0 /\ Linked(n)' = 0 /\ Sending(n)' = 0
      BY <2>1, <2>2 DEF Linked, Sending
    <3>2. /\ Behind(n) \in Nat /\ Written(n) \in Nat /\ r \in Nat /\ Count \in Nat
          /\ Len(buf_list[n]) = Behind(n) + r + 0
          /\ word[MetaIndex(n)] = Written(n) + r + 0
      BY <1>t, <2>1, <2>4, <3>1, RingFacts
    <3>3. Count <= Behind(n)
      <4>1. CASE Count = 0
        BY <3>2, <4>1
      <4>2. CASE Count # 0
        <5>1. Count \in 1 .. Count /\ Count \in 1 .. Len(buf_list[n])
          BY <1>t, <2>1, <4>2
        <5>2. ~(Count > Behind(n))
          BY <2>1, <2>4, <5>1 DEF RingOf
        <5> QED
          BY <3>2, <5>2
      <4> QED
        BY <4>1, <4>2
    <3>4. b \in Nat /\ Len(buf_list[n]) - Count = b + r + 0 /\ Behind(n) = b + Count
      BY <3>2, <3>3
    <3> HIDE DEF b, r
    <3>5. Behind(n)' = b /\ Written(n)' = Written(n)
      <4>1. Len(hw'.ring[n]) = r /\ 0 \in {0, 1}
        BY <2>1 DEF r
      <4>2. Len(buf_list'[n]) = b + r + 0 /\ word'[MetaIndex(n)] = Written(n) + r + 0
        BY <2>1, <3>2, <3>4
      <4> QED
        BY <3>1, <3>2, <3>4, <4>1, <4>2, CountsNext
    <3>6. \A k \in 1 .. b + r + 0 :
            /\ Count + k \in 1 .. Len(buf_list[n])
            /\ buf_list'[n][k] = buf_list[n][Count + k]
            /\ Count + k > Behind(n) <=> k > b
      BY <2>1, <3>2, <3>4
    <3>7. \A k \in 1 .. b + r + 0 : fill[buf_list'[n][k]] = -1 <=> k > b
      BY <2>4, <3>6 DEF RingOf
    <3>8. \A k \in 1 .. b + r + 0 : seq_no[buf_list'[n][k]] = Written(n) - b + k
      <4>1. \A k \in 1 .. b + r + 0 :
              /\ Count + k \in 1 .. Behind(n) + r + 0
              /\ Written(n) - Behind(n) + (Count + k) = Written(n) - b + k
        BY <3>2, <3>4
      <4> QED
        BY <2>4, <3>1, <3>6, <4>1 DEF RingOf, r
    <3>9. \A k \in 1 .. r :
            hw.ring[n][k] = [buf |-> buf_list'[n][b + k], seq |-> Written(n) + k]
      <4>1. \A k \in 1 .. r : b + k \in 1 .. b + r + 0 /\ Count + (b + k) = Behind(n) + k
        BY <3>2, <3>4
      <4> QED
        BY <2>4, <3>6, <4>1 DEF RingOf, r
    <3>10. b >= 0 /\ Written(n) >= 0
      BY <3>2, <3>4
    <3>11. Len(buf_list'[n]) = b + r + 0
      BY <2>1, <3>4
    <3>12. RingOf(n)'
      BY <2>1, <2>2, <3>1, <3>5, <3>7, <3>8, <3>9, <3>10, <3>11 DEF RingOf, r
    <3> QED
      BY <3>5, <3>12
  <2> QED
    BY <2>1, <2>3, <2>4, RingGoal
<1> QED
  BY StepCases, <1>1, <1>2, <1>3, <1>4, <1>5, <1>6, <1>8, <1>9, <1>10, <1>11, <1>12,
     <1>13, <1>14, <1>15

-----------------------------------------------------------------------------
(***************************************************************************)
(* The numbers read from the ISP.                                          *)
(***************************************************************************)
\* The types of what the bound is about.
LEMMA MarkTypes ==
  ASSUME Regular, TypeInv, NEW n \in nodes, RingOf(n)
  PROVE  /\ Written(n) \in Nat /\ hw.meta[n] \in Nat /\ irq.meta[n] \in Nat
         /\ word[2 + MetaIndex(n)] \in Nat /\ 2 + MetaIndex(n) \in {2, 3}
         /\ Latched(n) \in {0, 1} /\ Unsignalled(n) \in {0, Latched(n)}
         /\ Unserved(n) \in {0, Unsignalled(n)}
<1>1. n \in Metas
  BY NodeFacts
<1>2. hw.meta[n] \in Nat /\ irq.meta[n] \in Nat
  BY <1>1 DEF TypeInv, HwType, IrqType, Marks
<1>3. Written(n) \in Nat /\ word[2 + MetaIndex(n)] \in Nat
  BY RingFacts, CountTypes
<1>4. 2 + MetaIndex(n) \in {2, 3}
  BY NodeFacts
<1> QED
  BY <1>2, <1>3, <1>4 DEF Latched, Unsignalled, Unserved

\* What isp_irq_handle_sof saves.
LEMMA SofSaves ==
  ASSUME TypeInv, IrqSof
  PROVE  \/ ~irq.sof /\ word' = word
         \/ /\ irq.sof /\ word'[-2] = irq.frame
            /\ word'[2] = irq.meta[3] /\ word'[3] = irq.meta[4]
<1>1. /\ 2 + 0 = 2 /\ 2 + 1 = 3 /\ -2 # 2 /\ -2 # 3 /\ 2 # 3
      /\ -2 \in Words /\ 2 \in Words /\ 3 \in Words
  BY DEF Words
<1>2. \/ ~irq.sof /\ word' = word
      \/ irq.sof /\ word' = [word EXCEPT ![-2] = irq.frame, ![2 + 0] = irq.meta[3],
                                         ![2 + 1] = irq.meta[4]]
  BY DEF IrqSof, dequeued_frame_seq_no, dequeued_meta_seq_no, META_OUT_0, META_OUT_1
<1>3. DOMAIN word = Words
  BY DEF TypeInv
<1>4. ASSUME NEW f, NEW a, NEW c,
             word' = [word EXCEPT ![-2] = f, ![2 + 0] = a, ![2 + 1] = c]
      PROVE  word'[-2] = f /\ word'[2] = a /\ word'[3] = c
  <2>1. word' = [word EXCEPT ![-2] = f, ![2] = a, ![3] = c]
    BY ONLY <1>1, <1>4
  <2> QED
    BY ONLY <1>1, <1>3, <2>1
<1> QED
  BY <1>2, <1>4

\* A step that reads no number from the ISP.
LEMMA MarksKept ==
  ASSUME Regular, TypeInv, PhaseInv, RingInv, WrittenNext, MarkInv,
         streaming = 1, hw'.phase = hw.phase, NEW n \in nodes,
         hw'.meta = hw.meta, hw'.latched = hw.latched, irq'.meta = irq.meta,
         word'[2 + MetaIndex(n)] = word[2 + MetaIndex(n)],
         hw'.bits = hw.bits, Elements(irq'.todo) \subseteq Elements(irq.todo)
  PROVE  MarksOf(n)'
<1>1. /\ on = nodes /\ hw.phase \in {"idle", "frame"}
      /\ hw.phase # "frame" => hw.latched = {}
  BY DEF PhaseInv
<1>2. Written(n)' = Written(n) /\ RingOf(n) /\ MarksOf(n)
  BY <1>1 DEF WrittenNext, RingInv, MarkInv
<1>3. Latched(n)' = Latched(n) /\ Unsignalled(n)' = Unsignalled(n)
  BY DEF Latched, Unsignalled
<1>4. Unserved(n)' = Unserved(n) \/ Unserved(n) = 0
  BY <1>3 DEF Unserved
<1>5. Unserved(n)' \in {0, 1}
  BY <1>2, <1>3, MarkTypes DEF Unserved
<1>6. word[2 + MetaIndex(n)] <= Written(n) + Unserved(n)'
  <2>1. \A v, w \in Nat, s \in {0, 1} : v <= w + 0 => v <= w + s
    OBVIOUS
  <2>2. word[2 + MetaIndex(n)] \in Nat /\ Written(n) \in Nat
        /\ word[2 + MetaIndex(n)] <= Written(n) + Unserved(n)
    BY <1>2, MarkTypes DEF MarksOf
  <2> QED
    BY <1>4, <1>5, <2>1, <2>2
<1> QED
  BY <1>2, <1>3, <1>6 DEF MarksOf, MetaIndex

\* No number runs ahead of the buffers filled and the one being filled.
LEMMA MarkStep ==
  ASSUME Regular, TypeInv, PhaseInv, RingInv, MarkInv, Step,
         TypeInv', PhaseInv', RingInv', WrittenNext
  PROVE  MarkInv'
<1>g. Bufs' = Bufs /\ nodes' = nodes
  BY GivenStays
<1>n. \A n \in nodes : /\ MetaIndex(n) \in {0, 1} /\ 2 + MetaIndex(n) \in {2, 3}
                       /\ n \in Metas /\ MetaIndex(n) = n - 3
  BY NodeFacts
<1>s. streaming = 1 => /\ on = nodes /\ hw.phase \in {"idle", "frame"}
                       /\ \A n \in nodes : RingOf(n) /\ MarksOf(n)
  BY DEF PhaseInv, RingInv, MarkInv
<1>1. ASSUME hw'.phase = hw.phase, streaming' = streaming,
             hw'.meta = hw.meta, hw'.latched = hw.latched, irq'.meta = irq.meta,
             word'[2] = word[2], word'[3] = word[3],
             hw'.bits = hw.bits, Elements(irq'.todo) \subseteq Elements(irq.todo)
      PROVE  MarkInv'
  <2>1. \A n \in nodes : word'[2 + MetaIndex(n)] = word[2 + MetaIndex(n)]
    BY <1>n, <1>1
  <2>2. ASSUME streaming = 1, NEW n \in nodes PROVE MarksOf(n)'
    BY <1>1, <2>1, <2>2, MarksKept
  <2> QED
    BY <1>g, <1>1, <2>2 DEF MarkInv
<1>2. ASSUME \/ \E b \in Bufs : BufQueue(b) \/ DQBuf(b)
             \/ \E n \in nodes : IspEnqueue(n) \/ EnqueueMeta(n)
             \/ Ack \/ UNCHANGED sysVars
      PROVE  MarkInv'
  <2>1. /\ hw'.phase = hw.phase /\ streaming' = streaming /\ irq' = irq
        /\ hw'.meta = hw.meta /\ hw'.latched = hw.latched /\ hw'.bits = hw.bits
    BY <1>2 DEF BufQueue, DQBuf, IspEnqueue, EnqueueMeta, Ack, sysVars, runVars, TypeInv,
       HwType
  <2>2. \/ word' = word
        \/ \E n \in nodes : \E v : word' = [word EXCEPT ![MetaIndex(n)] = v]
        \/ \E v : word' = [word EXCEPT ![-1] = v]
    BY <1>2 DEF BufQueue, DQBuf, IspEnqueue, EnqueueMeta, Ack, sysVars,
       composed_frame_seq_no
  <2>3. word'[2] = word[2] /\ word'[3] = word[3]
    <3>1. ASSUME NEW j \in {-1, 0, 1}, NEW v, word' = [word EXCEPT ![j] = v]
          PROVE  word'[2] = word[2] /\ word'[3] = word[3]
      BY <3>1 DEF TypeInv, Words
    <3> QED
      BY <1>n, <2>2, <3>1
  <2> QED
    BY <1>1, <2>1, <2>3
<1>3. ASSUME NEW n \in nodes, StreamOn(n) PROVE MarkInv'
  <2> DEFINE old == IF on = {} THEN [j \in Words |-> 0] ELSE word
  <2>1. /\ irq' = irq /\ hw'.meta = hw.meta /\ hw.phase = "off"
        /\ word' = [old EXCEPT ![MetaIndex(n)] = old[MetaIndex(n)] + Len(buf_list[n])]
    BY <1>3 DEF StreamOn, TypeInv, HwType
  <2>2. word'[2] = 0 /\ word'[3] = 0
    <3>1. /\ old[2] = 0 /\ old[3] = 0 /\ DOMAIN old = Words /\ 2 \in Words /\ 3 \in Words
      BY <2>1 DEF TypeInv, Words, PhaseInv
    <3>2. MetaIndex(n) # 2 /\ MetaIndex(n) # 3
      BY <1>n
    <3> HIDE DEF old
    <3> QED
      BY ONLY <2>1, <3>1, <3>2
  <2>3. ASSUME streaming' = 1, NEW m \in nodes PROVE MarksOf(m)'
    <3>1. RingOf(m)'
      BY <1>g, <2>3 DEF PhaseInv, RingInv
    <3>2. hw'.meta[m] = 0 /\ irq'.meta[m] = 0 /\ word'[2 + MetaIndex(m)] = 0
      BY <1>n, <2>1, <2>2 DEF PhaseInv, IrqIdle
    <3>3. \A w \in Nat, u \in {0, 1} : 0 <= w + u
      OBVIOUS
    <3>4. Written(m)' \in Nat
      <4>1. CASE m \in on
        <5>1. RingOf(m) /\ hw'.phase # "stopped" /\ hw.latched = {}
          BY <2>1, <2>3, <4>1 DEF RingInv, PhaseInv
        <5> QED
          BY <4>1, <5>1, RingFacts DEF WrittenNext
      <4>2. CASE m \notin on
        BY <1>g, <2>3, <4>2 DEF WrittenNext, PhaseInv
      <4> QED
        BY <4>1, <4>2
    <3>5. Latched(m)' \in {0, 1} /\ Unsignalled(m)' \in {0, 1} /\ Unserved(m)' \in {0, 1}
      BY DEF Latched, Unsignalled, Unserved
    <3> QED
      BY <3>2, <3>3, <3>4, <3>5 DEF MarksOf, MetaIndex
  <2> QED
    BY <1>g, <2>3 DEF MarkInv
<1>4. ASSUME NEW n \in nodes, StreamOff(n) PROVE MarkInv'
  BY <1>4 DEF StreamOff, MarkInv
<1>5. ASSUME HwSof PROVE MarkInv'
  <2>1. /\ UNCHANGED <<streaming, word, irq>> /\ hw.phase = "idle"
        /\ hw'.phase = "frame" /\ hw.latched = {}
        /\ hw'.bits = hw.bits \cup {"SOF"}
        /\ \A n \in Metas : hw'.meta[n] = IF n \in nodes /\ hw.ring[n] # <<>>
                                          THEN Head(hw.ring[n]).seq ELSE hw.meta[n]
        /\ hw'.latched = {n \in nodes : hw.ring[n] # <<>>}
    BY <1>5 DEF HwSof, runVars, TypeInv, HwType, PhaseInv
  <2>2. ASSUME streaming = 1, NEW n \in nodes PROVE MarksOf(n)'
    <3>1. on = nodes /\ RingOf(n) /\ MarksOf(n)
      BY <1>s, <2>2
    <3>2. Written(n)' = Written(n) /\ Written(n) \in Nat
      BY <2>1, <3>1, MarkTypes DEF WrittenNext
    <3>3. Latched(n) = 0 /\ Unsignalled(n) = 0 /\ Unserved(n) = 0
      BY <2>1 DEF Latched, Unsignalled, Unserved
    <3>4. /\ Latched(n)' \in {0, 1} /\ Unsignalled(n)' \in {0, 1} /\ Unserved(n)' \in {0, 1}
          /\ hw.ring[n] # <<>> => Latched(n)' = 1
      BY <2>1 DEF Latched, Unsignalled, Unserved
    <3>5. \A w, v \in Nat, u \in {0, 1} : v <= w + 0 => v <= w + u
      OBVIOUS
    <3>6. /\ irq'.meta[n] <= Written(n)' + Unsignalled(n)'
          /\ word'[2 + MetaIndex(n)] <= Written(n)' + Unserved(n)'
      BY <2>1, <3>1, <3>2, <3>3, <3>4, <3>5, MarkTypes DEF MarksOf
    <3>7. hw'.meta[n] <= Written(n)' + Latched(n)'
      <4>1. CASE hw.ring[n] # <<>>
        <5>1. hw'.meta[n] = Written(n) + 1
          BY <1>n, <2>1, <3>1, <4>1, HeadListed
        <5>2. Written(n) + 1 <= Written(n) + 1
          BY <3>2
        <5> QED
          BY <3>2, <3>4, <4>1, <5>1, <5>2
      <4>2. CASE hw.ring[n] = <<>>
        <5>1. hw'.meta[n] = hw.meta[n]
          BY <1>n, <2>1, <4>2
        <5> QED
          BY <3>1, <3>2, <3>3, <3>4, <3>5, <5>1, MarkTypes DEF MarksOf
      <4> QED
        BY <4>1, <4>2
    <3> QED
      BY <3>6, <3>7 DEF MarksOf, MetaIndex
  <2> QED
    BY <1>g, <2>1, <2>2 DEF MarkInv
<1>6. ASSUME HwDone PROVE MarkInv'
  <2>1. /\ UNCHANGED <<streaming, word, irq>> /\ hw.phase = "frame"
        /\ hw'.phase = "idle" /\ hw'.meta = hw.meta /\ hw'.latched = {}
        /\ "DON" \in hw'.bits
    <3>1. hw \in HwType
      BY DEF TypeInv
    <3> QED
      BY <1>6, <3>1 DEF HwDone, runVars, HwType
  <2>2. ASSUME streaming = 1, NEW n \in nodes PROVE MarksOf(n)'
    <3>1. on = nodes /\ RingOf(n) /\ MarksOf(n)
      BY <1>s, <2>2
    <3>2. Latched(n)' = 0 /\ Unsignalled(n)' = 0 /\ Unserved(n)' = 0
      BY <2>1 DEF Latched, Unsignalled, Unserved
    <3>3. Written(n)' = IF n \in hw.latched THEN Written(n) + 1 ELSE Written(n)
      BY <2>1, <3>1 DEF WrittenNext
    <3>4. /\ \A w, v \in Nat : v <= w + 1 => v <= (w + 1) + 0
          /\ \A w, v \in Nat : v <= w + 0 => v <= (w + 1) + 0
      OBVIOUS
    <3>5. CASE n \in hw.latched
      <4>1. Latched(n) = 1 /\ Written(n)' = Written(n) + 1
        BY <3>3, <3>5 DEF Latched
      <4>2. Unsignalled(n) \in {0, 1} /\ Unserved(n) \in {0, 1}
        BY <3>1, <4>1, MarkTypes
      <4> QED
        BY <2>1, <3>1, <3>2, <3>4, <4>1, <4>2, MarkTypes DEF MarksOf, MetaIndex
    <3>6. CASE n \notin hw.latched
      <4>1. /\ Latched(n) = 0 /\ Unsignalled(n) = 0 /\ Unserved(n) = 0
            /\ Written(n)' = Written(n)
        BY <3>3, <3>6 DEF Latched, Unsignalled, Unserved
      <4> QED
        BY <2>1, <3>1, <3>2, <4>1 DEF MarksOf, MetaIndex
    <3> QED
      BY <3>5, <3>6
  <2> QED
    BY <1>g, <2>1, <2>2 DEF MarkInv
<1>7. ASSUME IrqEnter PROVE MarkInv'
  <2>1. /\ UNCHANGED <<streaming, word>> /\ irq = IrqIdle
        /\ hw'.phase = hw.phase /\ hw'.meta = hw.meta /\ hw'.latched = hw.latched
        /\ hw'.bits = {}
        /\ irq'.todo = Dequeues(hw.bits) /\ irq'.meta = hw.meta
    BY <1>7 DEF IrqEnter, runVars, TypeInv, HwType, PhaseInv
  <2>2. ASSUME streaming = 1, NEW n \in nodes PROVE MarksOf(n)'
    <3>1. /\ on = nodes /\ RingOf(n) /\ MarksOf(n)
          /\ hw.phase # "frame" => hw.latched = {}
      BY <1>s, <2>2 DEF PhaseInv
    <3>2. Written(n)' = Written(n) /\ Written(n) \in Nat
      BY <1>s, <2>1, <2>2, <3>1, MarkTypes DEF WrittenNext
    <3>3. Latched(n)' = Latched(n) /\ Unsignalled(n)' = Latched(n) /\ Latched(n) \in {0, 1}
      BY <2>1 DEF Latched, Unsignalled
    <3>4. Unserved(n)' = 0 => "DON" \in hw.bits \/ Latched(n) = 0
      <4>1. n \in Elements(Dequeues(hw.bits)) => Dequeues(hw.bits) # <<>>
        BY DEF Elements
      <4>2. n \in Elements(Dequeues(hw.bits)) => "DON" \in hw.bits
        BY <4>1, DequeuesFacts DEF PhaseInv
      <4> QED
        BY <2>1, <3>3, <4>2 DEF Unserved
    <3>5. Unserved(n)' \in {0, Latched(n)}
      BY <3>3 DEF Unserved
    <3>6. Unserved(n) \in {0, Latched(n)} /\ ("DON" \in hw.bits => Unserved(n) = 0)
      BY DEF Unserved, Unsignalled
    <3>7. \A w, v \in Nat, u \in {0, 1} : v <= w + 0 => v <= w + u
      OBVIOUS
    <3>8. word'[2 + MetaIndex(n)] <= Written(n)' + Unserved(n)'
      <4>1. CASE Unserved(n) = 0
        BY <2>1, <3>1, <3>2, <3>3, <3>5, <3>7, <4>1, MarkTypes DEF MarksOf
      <4>2. CASE Unserved(n) # 0
        BY <2>1, <3>1, <3>2, <3>4, <3>5, <3>6, <4>2 DEF MarksOf
      <4> QED
        BY <4>1, <4>2
    <3> QED
      BY <2>1, <3>1, <3>2, <3>3, <3>8 DEF MarksOf, MetaIndex
  <2> QED
    BY <1>g, <2>1, <2>2 DEF MarkInv
<1>8. irq.todo # <<>> => /\ NextNode.meta = irq.meta
                         /\ Elements(NextNode.todo) \subseteq Elements(irq.todo)
  <2>1. irq.todo # <<>> => Elements(Tail(irq.todo)) \subseteq Elements(irq.todo)
    BY TailFacts DEF TypeInv, IrqType
  <2> QED
    BY <2>1 DEF NextNode, TypeInv, IrqType
<1>9. ASSUME IrqRead \/ IrqComplete PROVE MarkInv'
  <2>1. /\ UNCHANGED <<streaming, word, hw>> /\ irq.todo # <<>>
        /\ (irq'.meta = irq.meta /\ irq'.todo = irq.todo) \/ irq' = NextNode
    <3>1. irq \in IrqType /\ (irq.pc = "complete" => irq.todo # <<>>)
      BY DEF TypeInv, PhaseInv
    <3>2. CASE IrqRead
      BY <3>1, <3>2 DEF IrqRead, runVars, IrqType
    <3>3. CASE IrqComplete
      BY <3>1, <3>3 DEF IrqComplete, runVars
    <3> QED
      BY <1>9, <3>2, <3>3
  <2> QED
    BY <1>1, <1>8, <2>1
<1>10. ASSUME IrqSof PROVE MarkInv'
  <2>1. /\ streaming' = streaming /\ irq' = IrqIdle /\ irq.todo = <<>>
        /\ hw' = hw \/ hw' = [hw EXCEPT !.base = irq.frame + 1]
    BY <1>10 DEF IrqSof, runVars
  <2>2. /\ hw'.phase = hw.phase /\ hw'.meta = hw.meta /\ hw'.latched = hw.latched
        /\ hw'.bits = hw.bits
    BY <2>1 DEF TypeInv, HwType
  <2>3. ASSUME NEW n \in nodes
        PROVE  \/ word'[2 + MetaIndex(n)] = word[2 + MetaIndex(n)]
               \/ word'[2 + MetaIndex(n)] = irq.meta[n]
    <3>1. \/ word' = word
          \/ word'[2] = irq.meta[3] /\ word'[3] = irq.meta[4]
      BY <1>10, SofSaves
    <3>2. \/ n = 3 /\ 2 + MetaIndex(n) = 2
          \/ n = 4 /\ 2 + MetaIndex(n) = 3
      <4>1. n \in {3, 4}
        BY NodeFacts
      <4> QED
        BY <1>n, <4>1
    <3> QED
      BY <3>1, <3>2
  <2>4. ASSUME streaming = 1, NEW n \in nodes PROVE MarksOf(n)'
    <3>1. /\ on = nodes /\ RingOf(n) /\ MarksOf(n)
          /\ hw.phase # "frame" => hw.latched = {}
      BY <1>s, <2>4 DEF PhaseInv
    <3>2. Written(n)' = Written(n) /\ Written(n) \in Nat
      BY <1>s, <2>2, <2>4, <3>1, MarkTypes DEF WrittenNext
    <3>3. /\ Latched(n)' = Latched(n) /\ Unsignalled(n)' = Unsignalled(n)
          /\ Unserved(n)' = Unsignalled(n) /\ Unserved(n) = Unsignalled(n)
          /\ Unsignalled(n) \in {0, 1} /\ irq'.meta[n] = 0
      BY <1>n, <2>1, <2>2 DEF Latched, Unsignalled, Unserved, IrqIdle, Elements
    <3>4. 0 <= Written(n) + Unsignalled(n)
      BY <3>2, <3>3
    <3>5. word'[2 + MetaIndex(n)] <= Written(n) + Unsignalled(n)
      BY <2>3, <3>1, <3>3 DEF MarksOf
    <3> QED
      BY <2>2, <3>1, <3>2, <3>3, <3>4, <3>5 DEF MarksOf, MetaIndex
  <2> QED
    BY <1>g, <2>1, <2>4 DEF MarkInv
<1> QED
  BY StepCases, <1>2, <1>3, <1>4, <1>5, <1>6, <1>7, <1>9, <1>10

-----------------------------------------------------------------------------
(***************************************************************************)
(* The handler returns what is filled.                                     *)
(***************************************************************************)
\* The number up to which mtk_cam_dev_dequeue_frame returns buffers is that of
\* a filled buffer at most.
LEMMA LastSeqFilled ==
  ASSUME Regular, TypeInv, PhaseInv, RingInv, MarkInv, streaming = 1,
         NEW n \in nodes, n \in Elements(irq.todo), qbuf[n].pc = "idle"
  PROVE  /\ LastSeq(n) <= Written(n)
         /\ \A k \in 1 .. Len(buf_list[n]) :
              seq_no[buf_list[n][k]] <= LastSeq(n) => fill[buf_list[n][k]] # -1
<1>1. RingOf(n) /\ MarksOf(n)
  BY DEF PhaseInv, RingInv, MarkInv
<1>2. Linked(n) = 0 /\ Sending(n) = 0
  BY DEF Linked, Sending
<1>3. /\ Behind(n) \in Nat /\ Written(n) \in Nat /\ Len(hw.ring[n]) \in Nat
      /\ Len(buf_list[n]) = Behind(n) + Len(hw.ring[n]) + 0
      /\ word[MetaIndex(n)] = Written(n) + Len(hw.ring[n]) + 0
  BY <1>1, <1>2, RingFacts, CountTypes
<1>4. /\ LastSeq(n) \in Nat
      /\ LastSeq(n) = IF hw.ring[n] = <<>> THEN word[MetaIndex(n)]
                      ELSE word[2 + MetaIndex(n)]
  BY LastSeqType
<1>5. \A w \in Nat : w + 0 = w /\ w + 0 + 0 = w /\ w <= w
  OBVIOUS
<1>6. LastSeq(n) <= Written(n)
  <2>1. CASE hw.ring[n] = <<>>
    <3>1. Len(hw.ring[n]) = 0
      BY <2>1
    <3> QED
      BY <1>3, <1>4, <1>5, <2>1, <3>1
  <2>2. CASE hw.ring[n] # <<>>
    <3>1. Unserved(n) = 0
      BY DEF Unserved
    <3>2. word[2 + MetaIndex(n)] <= Written(n) + 0
      BY <1>1, <3>1 DEF MarksOf
    <3> QED
      BY <1>3, <1>4, <1>5, <2>2, <3>2
  <2> QED
    BY <2>1, <2>2
<1>7. ASSUME NEW k \in 1 .. Len(buf_list[n]), seq_no[buf_list[n][k]] <= LastSeq(n)
      PROVE  fill[buf_list[n][k]] # -1
  <2>1. seq_no[buf_list[n][k]] = Written(n) - Behind(n) + k
    BY <1>1, <1>2, <1>3 DEF RingOf
  <2>2. Written(n) - Behind(n) + k <= Written(n)
    BY <1>3, <1>4, <1>6, <1>7, <2>1
  <2>3. ~(k > Behind(n))
    BY <1>3, <2>2
  <2> QED
    BY <1>1, <2>3 DEF RingOf
<1> QED
  BY <1>6, <1>7

\* Every step leaves what the handler is about to return filled.
LEMMA CompleteStep ==
  ASSUME Regular, TypeInv, PhaseInv, OwnInv, RingInv, MarkInv, CompleteInv, Step
  PROVE  CompleteInv'
<1>g. Bufs' = Bufs /\ nodes' = nodes
  BY GivenStays
<1>t. \A n \in nodes : \A k \in 1 .. Len(buf_list[n]) : buf_list[n][k] \in Bufs
  BY CountTypes
\* A step of another actor while the handler completes.
<1>1. ASSUME irq' = irq,
             irq.pc = "complete" =>
               \A n \in nodes : n = Head(irq.todo) /\ qbuf[n].pc = "idle" =>
                 /\ qbuf'[n].pc = "idle"
                 /\ \/ buf_list'[n] = <<>>
                    \/ /\ buf_list'[n] = buf_list[n]
                       /\ \A k \in 1 .. Len(buf_list[n]) :
                            /\ seq_no'[buf_list[n][k]] = seq_no[buf_list[n][k]]
                            /\ fill[buf_list[n][k]] # -1 => fill'[buf_list[n][k]] # -1
      PROVE  CompleteInv'
  <2>1. SUFFICES ASSUME irq.pc = "complete", NEW n, n = Head(irq.todo)
                 PROVE  /\ qbuf'[n].pc = "idle"
                        /\ \A k \in 1 .. Len(buf_list'[n]) :
                             seq_no'[buf_list'[n][k]] <= irq.seq =>
                               fill'[buf_list'[n][k]] # -1
    BY <1>1 DEF CompleteInv
  <2>2. n \in nodes /\ qbuf[n].pc = "idle"
    BY <2>1 DEF PhaseInv, CompleteInv
  <2>3. CASE buf_list'[n] = <<>>
    BY <1>1, <2>1, <2>2, <2>3
  <2>4. CASE buf_list'[n] # <<>>
    BY <1>1, <2>1, <2>2, <2>4 DEF CompleteInv
  <2> QED
    BY <2>3, <2>4
<1>2. ASSUME NEW b \in Bufs, BufQueue(b) PROVE CompleteInv'
  <2>1. /\ irq' = irq /\ seq_no' = seq_no /\ fill' = fill
        /\ irq.pc = "complete" => Head(irq.todo) # Node(b)
        /\ \A n \in nodes : n # Node(b) => qbuf'[n] = qbuf[n] /\ buf_list'[n] = buf_list[n]
    BY <1>2 DEF BufQueue, Completing, Regular, Without, TypeInv
  <2> QED
    BY <1>1, <2>1
<1>3. ASSUME NEW b \in Bufs, DQBuf(b) PROVE CompleteInv'
  <2>1. /\ UNCHANGED <<irq, seq_no, qbuf, buf_list>> /\ vb[b] = "done"
        /\ \A c \in Bufs \ {b} : fill'[c] = fill[c]
    BY <1>3 DEF DQBuf, TypeInv
  <2>2. \A n \in nodes : \A k \in 1 .. Len(buf_list[n]) : buf_list[n][k] \in Bufs \ {b}
    BY <1>t, <2>1 DEF OwnInv
  <2> QED
    BY <1>1, <2>1, <2>2
<1>4. ASSUME NEW m \in nodes, IspEnqueue(m) PROVE CompleteInv'
  <2> DEFINE c == qbuf[m].buf
  <2>1. /\ UNCHANGED <<irq, fill, buf_list>> /\ qbuf[m].pc = "enqueue"
        /\ \A n \in nodes \ {m} : qbuf'[n] = qbuf[n]
        /\ \/ seq_no' = seq_no
           \/ dmas # 0 /\ \A b \in Bufs \ {c} : seq_no'[b] = seq_no[b]
    BY <1>4 DEF IspEnqueue, TypeInv
  <2>2. ASSUME NEW n \in nodes \ {m}, NEW k \in 1 .. Len(buf_list[n])
        PROVE  seq_no'[buf_list[n][k]] = seq_no[buf_list[n][k]]
    <3>1. CASE seq_no' = seq_no
      BY <3>1
    <3>2. CASE dmas # 0 /\ \A b \in Bufs \ {c} : seq_no'[b] = seq_no[b]
      <4>1. m \in on /\ hw.phase # "stopped"
        BY <2>1, <3>2 DEF PhaseInv, QIdle
      <4>2. RingOf(m)
        BY <4>1 DEF RingInv
      <4>3. /\ c = buf_list[m][Len(buf_list[m])]
            /\ Len(buf_list[m]) = Behind(m) + Len(hw.ring[m]) + 1
            /\ Behind(m) \in Nat /\ Len(hw.ring[m]) \in Nat
        BY <2>1, <4>2, RingFacts, CountTypes DEF RingOf, Linked
      <4>4. Len(buf_list[m]) \in 1 .. Len(buf_list[m])
        BY <4>3
      <4>5. Node(c) = m /\ Node(buf_list[n][k]) = n
        BY <4>3, <4>4 DEF OwnInv
      <4> QED
        BY <1>t, <3>2, <4>5
    <3> QED
      BY <2>1, <3>1, <3>2
  <2>3. \A n \in nodes : qbuf[n].pc = "idle" => n # m
    BY <2>1
  <2> HIDE DEF c
  <2> QED
    BY <1>1, <2>1, <2>2, <2>3
<1>5. ASSUME NEW m \in nodes, EnqueueMeta(m) PROVE CompleteInv'
  <2>1. /\ UNCHANGED <<irq, fill, buf_list, seq_no>> /\ qbuf[m].pc = "send"
        /\ \A n \in nodes \ {m} : qbuf'[n] = qbuf[n]
    BY <1>5 DEF EnqueueMeta, bufVars, TypeInv
  <2> QED
    BY <1>1, <2>1
<1>6. ASSUME NEW m \in nodes, StreamOn(m) PROVE CompleteInv'
  BY <1>6 DEF StreamOn, PhaseInv, IrqIdle, CompleteInv
<1>7. ASSUME NEW m \in nodes, StreamOff(m) PROVE CompleteInv'
  <2>1. /\ UNCHANGED <<irq, qbuf, seq_no>>
        /\ buf_list'[m] = <<>> /\ \A n \in nodes \ {m} : buf_list'[n] = buf_list[n]
        /\ \A b \in Bufs : Node(b) # m => fill'[b] = fill[b]
    BY <1>7 DEF StreamOff, ReturnAllBuffers, TypeInv
  <2>2. \A n \in nodes \ {m} : \A k \in 1 .. Len(buf_list[n]) :
          fill'[buf_list[n][k]] = fill[buf_list[n][k]]
    BY <1>t, <2>1 DEF OwnInv
  <2> QED
    BY <1>1, <2>1, <2>2
<1>8. ASSUME HwDone PROVE CompleteInv'
  <2>1. /\ UNCHANGED <<irq, qbuf, seq_no, buf_list>> /\ hw.frame \in Nat
        /\ fill' = [b \in Bufs |->
                     IF Node(b) \in hw.latched /\ Head(hw.ring[Node(b)]).buf = b
                     THEN hw.frame ELSE fill[b]]
    BY <1>8 DEF HwDone, bufVars, TypeInv, HwType
  <2>2. \A b \in Bufs : fill[b] # -1 => fill'[b] # -1
    BY <2>1
  <2> QED
    BY <1>1, <1>t, <2>1, <2>2
<1>9. ASSUME UNCHANGED <<irq, qbuf, seq_no, buf_list, fill>> PROVE CompleteInv'
  BY <1>1, <1>9
<1>10. CASE IrqEnter
  BY <1>10 DEF IrqEnter, CompleteInv
<1>11. CASE IrqComplete \/ IrqSof
  <2>1. irq'.pc \in {"read", "idle"}
    <3>1. NextNode.pc = "read"
      BY DEF NextNode, TypeInv, IrqType
    <3> QED
      BY <1>11, <3>1 DEF IrqComplete, IrqSof, IrqIdle
  <2> QED
    BY <2>1 DEF CompleteInv
<1>12. CASE IrqRead
  <2>1. /\ UNCHANGED <<qbuf, seq_no, buf_list, fill>> /\ irq.todo # <<>>
        /\ \/ irq' = NextNode /\ irq.pc = "read"
           \/ /\ Head(irq.todo) \in nodes /\ streaming = 1
              /\ qbuf[Head(irq.todo)].pc = "idle"
              /\ irq' = [irq EXCEPT !.pc = "complete", !.seq = LastSeq(Head(irq.todo))]
    BY <1>12 DEF IrqRead, bufVars, Regular, Without
  <2>2. CASE irq' = NextNode
    BY <2>2 DEF NextNode, CompleteInv, TypeInv, IrqType
  <2>3. ASSUME NEW n, n = Head(irq.todo), n \in nodes, streaming = 1, qbuf[n].pc = "idle",
               irq' = [irq EXCEPT !.pc = "complete", !.seq = LastSeq(n)]
        PROVE  CompleteInv'
    <3>1. n \in Elements(irq.todo)
      BY <2>1, <2>3, TailFacts DEF TypeInv, IrqType
    <3>2. irq'.todo = irq.todo /\ irq'.seq = LastSeq(n)
      BY <2>3 DEF TypeInv, IrqType
    <3> QED
      BY <2>1, <2>3, <3>1, <3>2, LastSeqFilled DEF CompleteInv
  <2> QED
    BY <2>1, <2>2, <2>3
<1> QED
  BY StepCases, <1>2, <1>3, <1>4, <1>5, <1>6, <1>7, <1>8, <1>9, <1>10, <1>11, <1>12
     DEF Ack, HwSof, bufVars, sysVars

-----------------------------------------------------------------------------
(***************************************************************************)
(* Interrupts served one by one.                                           *)
(***************************************************************************)
\* A step of a system call, or of the SCP.
LEMMA SyncKept ==
  ASSUME Step, TypeInv, PhaseInv, WrittenNext, FrameInv, LateInv,
         irq' = irq, hw'.phase = hw.phase, hw'.frame = hw.frame, hw'.latched = hw.latched,
         hw'.meta = hw.meta, hw'.bits = hw.bits,
         \A i \in {-2, 2, 3} : word'[i] = word[i],
         Regular,
         \A n \in nodes : \A k \in 1 .. Len(buf_list'[n]) :
           fill'[buf_list'[n][k]] # -1 =>
             /\ k \in 1 .. Len(buf_list[n]) /\ buf_list'[n][k] = buf_list[n][k]
             /\ fill'[buf_list[n][k]] = fill[buf_list[n][k]]
             /\ seq_no'[buf_list[n][k]] = seq_no[buf_list[n][k]]
  PROVE  FrameInv' /\ LateInv'
<1>g. nodes' = nodes
  BY GivenStays
<1>n. \A n \in nodes : 2 + MetaIndex(n) \in {2, 3}
  BY NodeFacts
<1>1. \A n \in nodes : word'[2 + MetaIndex(n)] = word[2 + MetaIndex(n)]
  BY <1>n
<1>2. word'[-2] = word[-2]
  OBVIOUS
<1>l. hw.latched \subseteq nodes /\ (hw.latched # {} => hw.phase = "frame" /\ on = nodes)
  BY DEF TypeInv, HwType, PhaseInv
<1>3. \A n \in hw.latched : Written(n)' = Written(n)
  BY <1>l DEF WrittenNext
<1>4. FrameInv'
  BY <1>l, <1>1, <1>2, <1>3 DEF FrameInv, MetaIndex
<1>5. ASSUME NEW n \in nodes, NEW k \in 1 .. Len(buf_list'[n]),
             fill'[buf_list'[n][k]] # -1
      PROVE  /\ k = 1 /\ fill'[buf_list'[n][k]] = word'[-2]
             /\ ~irq.sof /\ "SOF" \notin hw.bits
             /\ hw.phase # "stopped" =>
                  /\ n \in Elements(Dequeues(hw.bits)) \cup Elements(irq.todo)
                  /\ seq_no'[buf_list'[n][k]] = word'[2 + MetaIndex(n)]
             /\ irq.pc = "complete" /\ n = Head(irq.todo) =>
                  seq_no'[buf_list'[n][k]] <= irq.seq
  BY <1>1, <1>2, <1>5 DEF LateInv, LateOf
<1>6. Dequeues(hw.bits)' = Dequeues(hw.bits)
  BY DEF Dequeues
<1> QED
  BY <1>g, <1>4, <1>5, <1>6 DEF LateInv, LateOf, MetaIndex

\* With nothing to serve, no filled buffer is in a list.
LEMMA NoneLate ==
  ASSUME LateInv, irq = IrqIdle, hw.bits = {}, hw.phase # "stopped",
         NEW n \in nodes, NEW k \in 1 .. Len(buf_list[n])
  PROVE  fill[buf_list[n][k]] = -1
<1>1. Elements(irq.todo) = {}
  BY DEF IrqIdle, Elements
<1>2. Elements(Dequeues({})) = {}
  <2>1. Dequeues({}) = <<>>
    BY DequeuesFacts
  <2> QED
    BY <2>1 DEF Elements
<1> QED
  BY <1>1, <1>2 DEF LateInv, LateOf

\* Every step keeps the handler in step with the frames.
LEMMA SyncStep ==
  ASSUME Regular, Without({"coalesce"}), TypeInv, PhaseInv, OwnInv, RingInv, MarkInv,
         CompleteInv, FrameInv, LateInv, Step, WrittenNext
  PROVE  FrameInv' /\ LateInv'
<1>g. Bufs' = Bufs /\ nodes' = nodes
  BY GivenStays
<1>n. \A n \in nodes : /\ 2 + MetaIndex(n) \in {2, 3} /\ n \in Metas /\ n \in {3, 4}
                       /\ MetaIndex(n) = n - 3
  BY NodeFacts
<1>t. \A n \in nodes : /\ Len(buf_list[n]) \in Nat
                       /\ \A k \in 1 .. Len(buf_list[n]) : buf_list[n][k] \in Bufs
  BY CountTypes
<1>w. {-2, 2, 3} \subseteq Words
  BY DEF Words
<1>1. ASSUME NEW b \in Bufs, BufQueue(b) PROVE FrameInv' /\ LateInv'
  <2> DEFINE n == Node(b)
             list == Append(buf_list[n], b)
  <2>1. /\ UNCHANGED <<irq, hw, word, fill, seq_no>> /\ vb[b] = "dequeued" /\ n \in nodes
        /\ buf_list' = [buf_list EXCEPT ![n] = list]
    BY <1>1, NodeFacts DEF BufQueue
  <2>2. fill[b] = -1
    BY <2>1 DEF OwnInv
  <2>3. /\ Len(list) = Len(buf_list[n]) + 1 /\ Len(buf_list[n]) \in Nat
        /\ \A k \in 1 .. Len(buf_list[n]) : list[k] = buf_list[n][k]
        /\ list[Len(buf_list[n]) + 1] = b
    BY <2>1, AppendFacts DEF TypeInv
  <2> HIDE DEF list, n
  <2>4. /\ buf_list'[n] = list
        /\ \A m \in nodes \ {n} : buf_list'[m] = buf_list[m]
    BY <2>1 DEF TypeInv
  <2>5. \A k \in 1 .. Len(list) : k \in 1 .. Len(buf_list[n]) \/ list[k] = b
    BY <2>3
  <2>6. \A m \in nodes : \A k \in 1 .. Len(buf_list'[m]) :
          fill[buf_list'[m][k]] # -1 =>
            k \in 1 .. Len(buf_list[m]) /\ buf_list'[m][k] = buf_list[m][k]
    BY <2>2, <2>3, <2>4, <2>5
  <2> QED
    BY <2>1, <2>6, SyncKept
<1>2. ASSUME NEW b \in Bufs, DQBuf(b) PROVE FrameInv' /\ LateInv'
  <2>1. /\ UNCHANGED <<irq, hw, word, buf_list, seq_no>> /\ vb[b] = "done"
        /\ \A c \in Bufs \ {b} : fill'[c] = fill[c]
    BY <1>2 DEF DQBuf, TypeInv
  <2>2. \A n \in nodes : \A k \in 1 .. Len(buf_list[n]) : buf_list[n][k] \in Bufs \ {b}
    BY <1>t, <2>1 DEF OwnInv
  <2> QED
    BY <2>1, <2>2, SyncKept
<1>3. ASSUME NEW m \in nodes, IspEnqueue(m) PROVE FrameInv' /\ LateInv'
  <2> DEFINE c == qbuf[m].buf
  <2>1. /\ UNCHANGED <<irq, hw, buf_list, fill>> /\ qbuf[m].pc = "enqueue"
        /\ \/ UNCHANGED <<word, seq_no>>
           \/ /\ word' = [word EXCEPT ![MetaIndex(m)] = @ + 1] /\ dmas # 0
              /\ \A b \in Bufs \ {c} : seq_no'[b] = seq_no[b]
    BY <1>3 DEF IspEnqueue, TypeInv
  <2>2. CASE UNCHANGED <<word, seq_no>>
    BY <2>1, <2>2, SyncKept
  <2>3. CASE /\ word' = [word EXCEPT ![MetaIndex(m)] = @ + 1] /\ dmas # 0
             /\ \A b \in Bufs \ {c} : seq_no'[b] = seq_no[b]
    <3>1. m \in on /\ hw.phase # "stopped"
      BY <2>1, <2>3 DEF PhaseInv, QIdle
    <3>2. RingOf(m)
      BY <3>1 DEF RingInv
    <3>3. /\ c = buf_list[m][Len(buf_list[m])]
          /\ Len(buf_list[m]) = Behind(m) + Len(hw.ring[m]) + 1
          /\ Behind(m) \in Nat /\ Len(hw.ring[m]) \in Nat
      BY <2>1, <3>2, RingFacts, CountTypes DEF RingOf, Linked
    <3>4. Len(buf_list[m]) \in 1 .. Len(buf_list[m]) /\ Len(buf_list[m]) > Behind(m)
      BY <3>3
    <3>5. fill[c] = -1
      BY <3>2, <3>3, <3>4 DEF RingOf
    <3>6. \A n \in nodes : \A k \in 1 .. Len(buf_list[n]) :
            fill[buf_list[n][k]] # -1 => seq_no'[buf_list[n][k]] = seq_no[buf_list[n][k]]
      BY <1>t, <2>3, <3>5
    <3>7. \A i \in {-2, 2, 3} : word'[i] = word[i]
      <4>1. MetaIndex(m) \in {0, 1}
        BY NodeFacts
      <4> QED
        BY <1>w, <2>3, <4>1 DEF TypeInv
    <3> HIDE DEF c
    <3> QED
      BY <2>1, <3>6, <3>7, SyncKept
  <2> QED
    BY <2>1, <2>2, <2>3
<1>4. ASSUME (\E m \in nodes : EnqueueMeta(m)) \/ Ack \/ UNCHANGED sysVars
      PROVE  FrameInv' /\ LateInv'
  <2>1. /\ UNCHANGED <<irq, buf_list, fill, seq_no>>
        /\ hw'.phase = hw.phase /\ hw'.frame = hw.frame /\ hw'.latched = hw.latched
        /\ hw'.meta = hw.meta /\ hw'.bits = hw.bits
        /\ word' = word \/ \E v : word' = [word EXCEPT ![-1] = v]
    BY <1>4 DEF EnqueueMeta, Ack, sysVars, bufVars, TypeInv, HwType, composed_frame_seq_no
  <2>2. \A i \in {-2, 2, 3} : word'[i] = word[i]
    BY <1>w, <2>1 DEF TypeInv
  <2> QED
    BY <2>1, <2>2, SyncKept
<1>5. ASSUME NEW m \in nodes, StreamOn(m) PROVE FrameInv' /\ LateInv'
  <2>1. /\ UNCHANGED <<irq, fill, buf_list>> /\ hw.phase = "off"
        /\ hw'.phase \in {"idle", "off"} /\ hw'.latched = hw.latched /\ hw'.bits = hw.bits
    BY <1>5 DEF StreamOn, TypeInv, HwType
  <2>2. /\ irq = IrqIdle /\ hw.bits = {} /\ hw.latched = {}
        /\ \A b \in Bufs : fill[b] = -1
    BY <2>1 DEF PhaseInv
  <2>3. FrameInv'
    BY <2>1, <2>2 DEF FrameInv, IrqIdle
  <2>4. LateInv'
    BY <1>g, <1>t, <2>1, <2>2 DEF LateInv, LateOf
  <2> QED
    BY <2>3, <2>4
<1>6. ASSUME NEW m \in nodes, StreamOff(m) PROVE FrameInv' /\ LateInv'
  <2>1. /\ UNCHANGED <<irq, seq_no, word>>
        /\ hw'.phase = "stopped" /\ hw'.latched = {} /\ hw'.bits = {}
        /\ Len(buf_list'[m]) = 0 /\ \A n \in nodes \ {m} : buf_list'[n] = buf_list[n]
        /\ \A b \in Bufs : Node(b) # m => fill'[b] = fill[b]
    BY <1>6 DEF StreamOff, ReturnAllBuffers, HwOff, TypeInv
  <2>2. FrameInv'
    BY <2>1 DEF FrameInv
  <2>3. \A n \in nodes \ {m} : \A k \in 1 .. Len(buf_list[n]) :
          fill'[buf_list[n][k]] = fill[buf_list[n][k]]
    BY <1>t, <2>1 DEF OwnInv
  <2>4. \A n \in nodes : LateOf(n)'
    <3>1. LateOf(m)'
      BY <2>1 DEF LateOf
    <3>2. ASSUME NEW n \in nodes \ {m} PROVE LateOf(n)'
      BY <2>1, <2>3 DEF LateOf, LateInv
    <3> QED
      BY <3>1, <3>2
  <2> QED
    BY <1>g, <2>2, <2>4 DEF LateInv
<1>7. ASSUME HwSof PROVE FrameInv' /\ LateInv'
  <2>1. /\ UNCHANGED <<irq, fill, buf_list, word, seq_no>>
        /\ irq = IrqIdle /\ hw.bits = {} /\ hw.phase = "idle" /\ hw.latched = {}
        /\ hw'.phase = "frame" /\ hw'.bits = {"SOF"}
        /\ hw'.latched = {n \in nodes : hw.ring[n] # <<>>}
        /\ \A n \in Metas : hw'.meta[n] = IF n \in nodes /\ hw.ring[n] # <<>>
                                          THEN Head(hw.ring[n]).seq ELSE hw.meta[n]
    BY <1>7 DEF HwSof, IrqPrompt, Without, bufVars, TypeInv, HwType, PhaseInv
  <2>2. on = nodes /\ \A n \in nodes : RingOf(n)
    BY <2>1 DEF PhaseInv, RingInv
  <2>3. \A n \in hw'.latched : hw'.meta[n] = Written(n) + 1 /\ Written(n)' = Written(n)
    BY <1>n, <2>1, <2>2, HeadListed DEF WrittenNext
  <2>4. FrameInv'
    BY <2>1, <2>3 DEF FrameInv, IrqIdle
  <2>5. \A n \in nodes : \A k \in 1 .. Len(buf_list[n]) : fill[buf_list[n][k]] = -1
    BY <2>1, NoneLate
  <2>6. LateInv'
    BY <1>g, <2>1, <2>5 DEF LateInv, LateOf
  <2> QED
    BY <2>4, <2>6
<1>8. ASSUME HwDone PROVE FrameInv' /\ LateInv'
  <2>1. /\ UNCHANGED <<irq, buf_list, word, seq_no>>
        /\ irq = IrqIdle /\ hw.bits = {} /\ hw.phase = "frame" /\ hw'.phase = "idle"
        /\ hw'.latched = {} /\ "SOF" \notin hw'.bits /\ "DON" \in hw'.bits
        /\ 4 \in hw.latched => "AFO" \in hw'.bits
        /\ fill' = [b \in Bufs |->
                     IF Node(b) \in hw.latched /\ Head(hw.ring[Node(b)]).buf = b
                     THEN hw.frame ELSE fill[b]]
    BY <1>8 DEF HwDone, IrqPrompt, Without, bufVars, TypeInv, HwType, PhaseInv, META_OUT_1
  <2>2. on = nodes /\ (\A n \in nodes : RingOf(n)) /\ hw.latched \subseteq nodes
    BY <2>1 DEF PhaseInv, RingInv, TypeInv, HwType
  <2>3. FrameInv'
    BY <2>1 DEF FrameInv, IrqIdle
  <2>4. \A n \in nodes : \A k \in 1 .. Len(buf_list[n]) : fill[buf_list[n][k]] = -1
    BY <2>1, NoneLate
  <2>5. /\ word[-2] = hw.frame
        /\ \A n \in hw.latched : word[2 + MetaIndex(n)] = Written(n) + 1
    BY <2>1 DEF FrameInv, IrqIdle
  <2>6. ASSUME NEW n \in nodes, NEW k \in 1 .. Len(buf_list[n]), fill'[buf_list[n][k]] # -1
        PROVE  /\ k = 1 /\ fill'[buf_list[n][k]] = word[-2]
               /\ n \in Elements(Dequeues(hw'.bits))
               /\ seq_no[buf_list[n][k]] = word[2 + MetaIndex(n)]
    <3>1. /\ Node(buf_list[n][k]) = n /\ buf_list[n][k] \in Bufs
          /\ fill[buf_list[n][k]] = -1
      BY <1>t, <2>4 DEF OwnInv
    <3>2. /\ n \in hw.latched /\ Head(hw.ring[n]).buf = buf_list[n][k]
          /\ fill'[buf_list[n][k]] = hw.frame
      BY <2>1, <2>6, <3>1
    <3>3. /\ hw.ring[n] # <<>> /\ Len(hw.ring[n]) \in Nat /\ Len(hw.ring[n]) >= 1
          /\ Sending(n) \in {0, 1} /\ Behind(n) \in Nat /\ Written(n) \in Nat
      BY <2>2, <3>2, HeadOfRing, RingFacts, CountTypes DEF PhaseInv
    <3>4. Behind(n) + 1 \in 1 .. Len(buf_list[n]) /\ buf_list[n][k] = buf_list[n][Behind(n) + 1]
      BY <2>2, <3>2, <3>3, HeadListed
    <3>5. k = Behind(n) + 1
      BY <3>4 DEF OwnInv
    <3>6. Behind(n) = 0
      <4>1. SUFFICES ASSUME Behind(n) # 0 PROVE FALSE
        OBVIOUS
      <4>2. 1 \in 1 .. Len(buf_list[n]) /\ ~(1 > Behind(n))
        BY <1>t, <3>3, <3>4, <4>1
      <4>3. fill[buf_list[n][1]] # -1
        BY <2>2, <4>2 DEF RingOf
      <4> QED
        BY <2>4, <4>2, <4>3
    <3>7. seq_no[buf_list[n][k]] = Written(n) + 1
      <4>1. 1 \in 1 .. Behind(n) + Len(hw.ring[n]) + Sending(n)
        BY <3>3
      <4>2. Written(n) - 0 + 1 = Written(n) + 1
        BY <3>3
      <4>3. k = 1
        BY <3>5, <3>6
      <4> QED
        BY <2>2, <3>6, <4>1, <4>2, <4>3 DEF RingOf
    <3>8. n \in Elements(Dequeues(hw'.bits))
      BY <1>n, <2>1, <3>2, DequeuesFacts
    <3> QED
      BY <2>5, <3>2, <3>5, <3>6, <3>7, <3>8
  <2>7. Dequeues(hw.bits)' = Dequeues(hw'.bits)
    BY DEF Dequeues
  <2>8. LateInv'
    BY <1>g, <2>1, <2>6, <2>7 DEF LateInv, LateOf, IrqIdle, MetaIndex
  <2> QED
    BY <2>3, <2>8
<1>9. ASSUME IrqEnter PROVE FrameInv' /\ LateInv'
  <2>1. /\ UNCHANGED <<fill, buf_list, word, seq_no>> /\ irq = IrqIdle
        /\ hw'.phase = hw.phase /\ hw'.frame = hw.frame /\ hw'.latched = hw.latched
        /\ hw'.meta = hw.meta /\ hw'.bits = {}
        /\ irq'.pc = "read" /\ irq'.todo = Dequeues(hw.bits)
        /\ irq'.sof = ("SOF" \in hw.bits)
        /\ irq'.frame = hw.frame /\ irq'.meta = hw.meta
    BY <1>9 DEF IrqEnter, bufVars, TypeInv, HwType, PhaseInv
  <2>2. /\ hw.latched \subseteq nodes
        /\ hw.latched # {} => hw.phase = "frame" /\ on = nodes
    BY DEF TypeInv, HwType, PhaseInv
  <2>3. \A n \in hw.latched : Written(n)' = Written(n)
    BY <2>1, <2>2 DEF WrittenNext
  <2>4. Dequeues(hw.bits) # <<>> => "DON" \in hw.bits
    BY DequeuesFacts DEF PhaseInv
  <2>5. FrameInv'
    <3>1. irq'.sof => "SOF" \in hw.bits /\ hw.phase = "frame" /\ irq'.todo = <<>>
      BY <2>1, <2>4 DEF FrameInv
    <3>2. irq'.todo # <<>> => hw.phase # "frame"
      BY <2>1, <2>4 DEF FrameInv
    <3>3. hw.phase = "frame" /\ ~irq'.sof =>
            /\ word[-2] = hw.frame
            /\ \A n \in hw.latched : word[2 + MetaIndex(n)] = hw.meta[n]
      BY <2>1 DEF FrameInv, IrqIdle
    <3>4. \A n \in hw.latched : hw.meta[n] = Written(n)' + 1
      BY <2>3 DEF FrameInv
    <3> QED
      BY <2>1, <3>1, <3>2, <3>3, <3>4 DEF FrameInv, MetaIndex
  <2>6. Elements(irq.todo) = {}
    BY <2>1 DEF IrqIdle, Elements
  <2>7. LateInv'
    BY <1>g, <2>1, <2>6 DEF LateInv, LateOf, MetaIndex
  <2> QED
    BY <2>5, <2>7
<1>10. ASSUME IrqRead \/ IrqComplete
       PROVE  /\ irq.todo # <<>> /\ ~irq.sof /\ ~irq'.sof
              /\ irq.pc # "idle" /\ hw.bits = {}
              /\ UNCHANGED <<word, hw, fill, seq_no>>
              /\ FrameInv'
  <2>1. /\ UNCHANGED <<word, hw, fill, seq_no>>
        /\ irq.todo # <<>> /\ irq.pc # "idle" /\ irq'.sof = irq.sof
    BY <1>10 DEF IrqRead, IrqComplete, NextNode, bufVars, TypeInv, IrqType, PhaseInv
  <2>2. ~irq.sof /\ hw.bits = {} /\ hw.phase # "frame"
    BY <2>1 DEF FrameInv
  <2>3. hw.latched = {}
    BY <2>2 DEF PhaseInv
  <2> QED
    BY <2>1, <2>2, <2>3 DEF FrameInv
<1>11. ASSUME IrqRead PROVE LateInv'
  <2>1. /\ irq.todo # <<>> /\ ~irq.sof /\ ~irq'.sof /\ irq.pc = "read" /\ hw.bits = {}
        /\ UNCHANGED <<word, hw, fill, seq_no, buf_list>>
    BY <1>10, <1>11 DEF IrqRead, bufVars
  <2>2. Elements(Dequeues({})) = {}
    <3>1. Dequeues({}) = <<>>
      BY DequeuesFacts
    <3> QED
      BY <3>1 DEF Elements
  <2>3. ASSUME NEW n \in nodes, NEW k \in 1 .. Len(buf_list[n]), fill[buf_list[n][k]] # -1
        PROVE  /\ k = 1 /\ fill[buf_list[n][k]] = word[-2]
               /\ hw.phase # "stopped" =>
                    /\ n \in Elements(irq.todo)
                    /\ seq_no[buf_list[n][k]] = word[2 + MetaIndex(n)]
    BY <2>1, <2>2, <2>3 DEF LateInv, LateOf
  <2>4. CASE irq' = NextNode
    <3>1. irq'.pc = "read" /\ irq'.todo = Tail(irq.todo)
      BY <2>4 DEF NextNode, TypeInv, IrqType
    <3>2. Head(irq.todo) \notin nodes \/ streaming # 1
      <4>1. irq' = NextNode /\ Head(irq.todo) \in nodes /\ streaming = 1 => FALSE
        BY <1>11, <3>1 DEF IrqRead, TypeInv, IrqType
      <4> QED
        BY <2>4, <4>1
    <3>3. streaming # 1 => hw.phase = "stopped"
      BY <2>1 DEF PhaseInv, IrqIdle, TypeInv, HwType
    <3>4. Elements(irq.todo) \subseteq {Head(irq.todo)} \cup Elements(Tail(irq.todo))
      BY <2>1, TailFacts DEF TypeInv, IrqType
    <3>5. ASSUME NEW n \in nodes, NEW k \in 1 .. Len(buf_list[n]), fill[buf_list[n][k]] # -1
          PROVE  hw.phase # "stopped" => n \in Elements(Tail(irq.todo))
      BY <2>3, <3>2, <3>3, <3>4, <3>5
    <3> QED
      BY <1>g, <2>1, <2>2, <2>3, <3>1, <3>5 DEF LateInv, LateOf, MetaIndex
  <2>5. ASSUME NEW m, m = Head(irq.todo), m \in nodes, streaming = 1,
               irq' = [irq EXCEPT !.pc = "complete", !.seq = LastSeq(m)],
               qbuf[m].pc = "idle"
        PROVE  LateInv'
    <3>1. irq'.todo = irq.todo /\ irq'.seq = LastSeq(m) /\ hw.phase # "stopped"
      BY <2>5 DEF TypeInv, IrqType, PhaseInv
    <3>2. ASSUME NEW k \in 1 .. Len(buf_list[m]), fill[buf_list[m][k]] # -1
          PROVE  seq_no[buf_list[m][k]] <= LastSeq(m)
      <4>1. seq_no[buf_list[m][k]] = word[2 + MetaIndex(m)]
        BY <2>3, <2>5, <3>1, <3>2
      <4>2. RingOf(m)
        BY <2>5 DEF PhaseInv, RingInv
      <4>3. /\ Behind(m) \in Nat /\ Written(m) \in Nat /\ Len(hw.ring[m]) \in Nat
            /\ Sending(m) = 0 /\ word[MetaIndex(m)] = Written(m) + Len(hw.ring[m]) + Sending(m)
        BY <2>5, <4>2, RingFacts, CountTypes DEF Sending
      <4>4. k <= Behind(m) /\ seq_no[buf_list[m][k]] = Written(m) - Behind(m) + k
        <5>1. ~(k > Behind(m))
          BY <3>2, <4>2 DEF RingOf
        <5>2. k \in 1 .. Behind(m) + Len(hw.ring[m]) + Sending(m)
          BY <4>3, <5>1
        <5> QED
          BY <4>2, <4>3, <5>1, <5>2 DEF RingOf
      <4>5. seq_no[buf_list[m][k]] <= word[MetaIndex(m)]
        BY <4>3, <4>4
      <4>6. word[2 + MetaIndex(m)] <= word[2 + MetaIndex(m)]
        BY <2>5, CountTypes
      <4> QED
        BY <2>5, <4>1, <4>5, <4>6, LastSeqType
    <3>3. \A n \in nodes : LateOf(n)'
      BY <2>1, <2>3, <2>5, <3>1, <3>2 DEF LateOf, MetaIndex
    <3> QED
      BY <1>g, <3>3 DEF LateInv
  <2>6. \/ irq' = NextNode
        \/ /\ Head(irq.todo) \in nodes /\ streaming = 1
           /\ qbuf[Head(irq.todo)].pc = "idle"
           /\ irq' = [irq EXCEPT !.pc = "complete", !.seq = LastSeq(Head(irq.todo))]
    BY <1>11 DEF IrqRead, Regular, Without
  <2> QED
    BY <2>4, <2>5, <2>6
<1>12. ASSUME NEW n, n = Head(irq.todo), IrqComplete PROVE LateInv'
  <2>1. /\ n \in nodes /\ irq.pc = "complete" /\ irq' = NextNode
        /\ Count \in 0 .. Len(buf_list[n])
        /\ Len(buf_list[n]) > 0 /\ seq_no[buf_list[n][1]] <= irq.seq => Count >= 1
        /\ \A m \in nodes \ {n} : buf_list'[m] = buf_list[m]
        /\ Len(buf_list'[n]) = Len(buf_list[n]) - Count
        /\ \A k \in 1 .. Len(buf_list[n]) - Count :
             buf_list'[n][k] = buf_list[n][Count + k]
    BY <1>12, CompleteEffect, SMTT(20)
  <2>2. /\ irq.todo # <<>> /\ ~irq.sof /\ ~irq'.sof /\ hw.bits = {}
        /\ UNCHANGED <<word, hw, fill, seq_no>>
    BY <1>10, <1>12
  <2>3. irq'.pc = "read" /\ irq'.todo = Tail(irq.todo)
    BY <2>1 DEF NextNode, TypeInv, IrqType
  <2>4. Elements(irq.todo) \subseteq {n} \cup Elements(Tail(irq.todo))
    BY <1>12, <2>2, TailFacts DEF TypeInv, IrqType
  <2>5. Elements(Dequeues({})) = {}
    <3>1. Dequeues({}) = <<>>
      BY DequeuesFacts
    <3> QED
      BY <3>1 DEF Elements
  <2>6. LateOf(n)'
    <3>1. ASSUME NEW k \in 1 .. Len(buf_list'[n]) PROVE fill[buf_list'[n][k]] = -1
      <4>1. /\ Count + k \in 1 .. Len(buf_list[n])
            /\ buf_list'[n][k] = buf_list[n][Count + k]
            /\ Len(buf_list[n]) > 0 /\ 1 \in 1 .. Len(buf_list[n])
        BY <1>t, <2>1
      <4>2. SUFFICES ASSUME fill[buf_list[n][Count + k]] # -1 PROVE FALSE
        BY <4>1
      <4>3. /\ Count + k = 1
            /\ seq_no[buf_list[n][Count + k]] <= irq.seq
        BY <1>12, <2>1, <4>1, <4>2 DEF LateInv, LateOf
      <4>4. Count >= 1
        BY <2>1, <4>1, <4>3
      <4> QED
        BY <2>1, <4>3, <4>4, <1>t
    <3> QED
      BY <2>2, <3>1 DEF LateOf
  <2>7. ASSUME NEW m \in nodes \ {n} PROVE LateOf(m)'
    <3>1. buf_list'[m] = buf_list[m]
      BY <2>1
    <3>2. ASSUME NEW k \in 1 .. Len(buf_list[m]), fill[buf_list[m][k]] # -1
          PROVE  /\ k = 1 /\ fill[buf_list[m][k]] = word[-2]
                 /\ hw.phase # "stopped" =>
                      /\ m \in Elements(Tail(irq.todo))
                      /\ seq_no[buf_list[m][k]] = word[2 + MetaIndex(m)]
      BY <2>2, <2>4, <2>5, <3>2 DEF LateInv, LateOf
    <3> QED
      BY <2>2, <2>3, <3>1, <3>2 DEF LateOf, MetaIndex
  <2> QED
    BY <1>g, <2>6, <2>7 DEF LateInv
<1>13. ASSUME IrqSof PROVE FrameInv' /\ LateInv'
  <2>1. /\ UNCHANGED <<fill, buf_list, seq_no>> /\ irq' = IrqIdle
        /\ irq.pc = "read" /\ irq.todo = <<>>
        /\ hw' = hw \/ hw' = [hw EXCEPT !.base = irq.frame + 1]
    BY <1>13 DEF IrqSof, bufVars
  <2>2. /\ hw'.phase = hw.phase /\ hw'.frame = hw.frame /\ hw'.latched = hw.latched
        /\ hw'.meta = hw.meta /\ hw'.bits = hw.bits /\ hw.bits = {}
    BY <2>1 DEF TypeInv, HwType, FrameInv
  <2>3. \/ ~irq.sof /\ word' = word
        \/ /\ irq.sof /\ word'[-2] = irq.frame
           /\ word'[2] = irq.meta[3] /\ word'[3] = irq.meta[4]
    BY <1>13, SofSaves
  <2>4. /\ hw.latched \subseteq nodes
        /\ hw.latched # {} => hw.phase = "frame" /\ on = nodes
    BY DEF TypeInv, HwType, PhaseInv
  <2>5. \A n \in hw.latched : Written(n)' = Written(n)
    BY <2>2, <2>4 DEF WrittenNext
  <2>6. hw.phase = "frame" =>
          /\ word'[-2] = hw.frame
          /\ \A n \in hw.latched : word'[2 + MetaIndex(n)] = hw.meta[n]
    <3>1. CASE ~irq.sof
      BY <2>2, <2>3, <3>1 DEF FrameInv
    <3>2. CASE irq.sof /\ hw.phase = "frame"
      <4>1. irq.frame = hw.frame /\ irq.meta = hw.meta
        BY <3>2 DEF FrameInv
      <4>2. \A n \in nodes : word'[2 + MetaIndex(n)] = irq.meta[n]
        <5>1. \A n \in nodes : \/ n = 3 /\ 2 + MetaIndex(n) = 2
                               \/ n = 4 /\ 2 + MetaIndex(n) = 3
          BY <1>n
        <5> QED
          BY <2>3, <3>2, <5>1
      <4> QED
        BY <2>3, <2>4, <3>2, <4>1, <4>2
    <3> QED
      BY <3>1, <3>2
  <2>7. FrameInv'
    <3>1. \A n \in hw.latched : hw.meta[n] = Written(n)' + 1
      BY <2>5 DEF FrameInv
    <3> QED
      BY <2>1, <2>2, <2>6, <3>1 DEF FrameInv, IrqIdle, MetaIndex
  <2>8. Elements(Dequeues({})) = {} /\ Elements(irq.todo) = {}
    <3>1. Dequeues({}) = <<>>
      BY DequeuesFacts
    <3> QED
      BY <2>1, <3>1 DEF Elements
  <2>9. ASSUME NEW n \in nodes, NEW k \in 1 .. Len(buf_list[n]), fill[buf_list[n][k]] # -1
        PROVE  k = 1 /\ fill[buf_list[n][k]] = word'[-2] /\ hw.phase = "stopped"
    <3>1. k = 1 /\ fill[buf_list[n][k]] = word[-2] /\ ~irq.sof /\ hw.phase = "stopped"
      BY <2>2, <2>8, <2>9 DEF LateInv, LateOf
    <3> QED
      BY <2>3, <3>1
  <2>10. LateInv'
    BY <1>g, <2>1, <2>2, <2>9 DEF LateInv, LateOf, IrqIdle
  <2> QED
    BY <2>7, <2>10
<1> QED
  BY StepCases, <1>1, <1>2, <1>3, <1>4, <1>5, <1>6, <1>7, <1>8, <1>9, <1>10, <1>11, <1>12,
     <1>13

\* Every step leaves a buffer that came back with the number of its frame.
LEMMA NumberStep ==
  ASSUME Regular, Without({"coalesce"}), TypeInv, PhaseInv, OwnInv, RingInv,
         CompleteInv, FrameInv, LateInv, NumberInv, Step
  PROVE  NumberInv'
<1> USE DEF NumberInv
<1>g. Bufs' = Bufs /\ nodes' = nodes
  BY GivenStays
<1>t. \A n \in nodes : /\ Len(buf_list[n]) \in Nat
                       /\ \A k \in 1 .. Len(buf_list[n]) : buf_list[n][k] \in Bufs
  BY CountTypes
<1>1. ASSUME NEW b \in Bufs, BufQueue(b) PROVE NumberInv'
  <2>1. vb' = [vb EXCEPT ![b] = "active"] /\ fill' = fill /\ sequence' = sequence
    BY <1>1 DEF BufQueue
  <2>2. vb'[b] = "active" /\ \A c \in Bufs \ {b} : vb'[c] = vb[c]
    BY <2>1 DEF TypeInv
  <2> QED
    BY <1>g, <2>1, <2>2
<1>2. ASSUME NEW b \in Bufs, DQBuf(b) PROVE NumberInv'
  <2>1. /\ vb' = [vb EXCEPT ![b] = "dequeued"] /\ fill' = [fill EXCEPT ![b] = -1]
        /\ sequence' = [sequence EXCEPT ![b] = 0]
    BY <1>2 DEF DQBuf
  <2>2. /\ vb'[b] = "dequeued"
        /\ \A c \in Bufs \ {b} : /\ vb'[c] = vb[c] /\ fill'[c] = fill[c]
                                 /\ sequence'[c] = sequence[c]
    BY <2>1 DEF TypeInv
  <2> QED
    BY <1>g, <2>2
<1>3. ASSUME NEW n \in nodes, StreamOff(n) PROVE NumberInv'
  <2>1. /\ vb' = [b \in Bufs |-> IF Node(b) = n THEN "dequeued" ELSE vb[b]]
        /\ fill' = [b \in Bufs |-> IF Node(b) = n THEN -1 ELSE fill[b]]
        /\ sequence' = [b \in Bufs |-> IF Node(b) = n THEN 0 ELSE sequence[b]]
    BY <1>3 DEF StreamOff
  <2> QED
    BY <1>g, <2>1
<1>4. ASSUME HwDone PROVE NumberInv'
  <2>1. /\ UNCHANGED <<vb, sequence>> /\ hw.phase = "frame"
        /\ fill' = [b \in Bufs |->
                     IF Node(b) \in hw.latched /\ Head(hw.ring[Node(b)]).buf = b
                     THEN hw.frame ELSE fill[b]]
    BY <1>4 DEF HwDone, bufVars
  <2>2. on = nodes /\ hw.latched \subseteq nodes
    BY <2>1 DEF PhaseInv, TypeInv, HwType
  <2>3. ASSUME NEW b \in Bufs, Node(b) \in hw.latched, Head(hw.ring[Node(b)]).buf = b
        PROVE  vb[b] = "active"
    <3>1. RingOf(Node(b)) /\ hw.ring[Node(b)] # <<>> /\ Node(b) \in nodes
      BY <2>1, <2>2, <2>3 DEF RingInv, PhaseInv
    <3>2. /\ Behind(Node(b)) + 1 \in 1 .. Len(buf_list[Node(b)])
          /\ b = buf_list[Node(b)][Behind(Node(b)) + 1]
      BY <2>3, <3>1, HeadListed
    <3> QED
      BY <3>1, <3>2 DEF OwnInv
  <2>4. \A b \in Bufs : vb[b] = "done" => fill'[b] = fill[b]
    BY <2>1, <2>3
  <2> QED
    BY <1>g, <2>1, <2>4
<1>5. ASSUME NEW n, n = Head(irq.todo), IrqComplete PROVE NumberInv'
  <2>1. /\ n \in nodes /\ fill' = fill
        /\ Count \in 0 .. Len(buf_list[n])
        /\ \A k \in 1 .. Count : fill[buf_list[n][k]] # -1
        /\ vb' = [b \in Bufs |-> IF \E k \in 1 .. Count : buf_list[n][k] = b
                                 THEN "done" ELSE vb[b]]
        /\ sequence' = [b \in Bufs |->
                         IF \E k \in 1 .. Count : buf_list[n][k] = b
                         THEN word[-2] + Place(n, b) - 1
                         ELSE sequence[b]]
    BY <1>5, CompleteEffect, SMTT(20)
  <2>2. DOMAIN buf_list[n] = 1 .. Len(buf_list[n])
    BY <2>1, LenProperties DEF TypeInv
  <2>3. ASSUME NEW b \in Bufs, NEW k \in 1 .. Count, buf_list[n][k] = b
        PROVE  sequence'[b] = fill'[b]
    <3>1. k \in 1 .. Len(buf_list[n])
      BY <1>t, <2>1
    <3>2. k = 1 /\ fill[b] = word[-2]
      BY <2>1, <2>3, <3>1 DEF LateInv, LateOf
    <3>3. \A j \in DOMAIN buf_list[n] : buf_list[n][j] = b => j = 1
      BY <2>1, <2>2, <2>3, <3>1, <3>2 DEF OwnInv
    <3>4. Place(n, b) = 1
      BY <2>2, <2>3, <3>1, <3>3 DEF Place
    <3>5. sequence'[b] = word[-2] + 1 - 1
      BY <2>1, <2>3, <3>4
    <3>6. word[-2] \in Nat
      BY NodeFacts DEF TypeInv
    <3> QED
      BY <2>1, <3>2, <3>5, <3>6
  <2>4. ASSUME NEW b \in Bufs, ~\E k \in 1 .. Count : buf_list[n][k] = b
        PROVE  vb'[b] = vb[b] /\ sequence'[b] = sequence[b]
    BY <2>1, <2>4
  <2> QED
    BY <1>g, <2>1, <2>3, <2>4
<1>6. CASE UNCHANGED <<vb, fill, sequence>>
  BY <1>g, <1>6
<1>7. \/ UNCHANGED <<vb, fill, sequence>> \/ HwDone \/ IrqComplete
      \/ \E b \in Bufs : BufQueue(b) \/ DQBuf(b)
      \/ \E n \in nodes : StreamOff(n)
  BY StepCases DEF IspEnqueue, EnqueueMeta, StreamOn, Ack, HwSof, IrqEnter, IrqRead,
     IrqSof, bufVars, sysVars
<1> QED
  BY <1>1, <1>2, <1>3, <1>4, <1>5, <1>6, <1>7

-----------------------------------------------------------------------------
(***************************************************************************)
(* The property.                                                           *)
(***************************************************************************)
\* The drivers' fresh state is one of those the invariant describes.
LEMMA MetaInit ==
  ASSUME Init
  PROVE  MetaInv
<1> SUFFICES ASSUME Regular PROVE MetaInv
  BY DEF MetaInv
<1> USE DEF Init
<1>n. \A b \in Bufs : Node(b) \in nodes
  BY NodeFacts
<1>1. TypeInv
  <2>1. <<>> \in Seq(Bufs) /\ <<>> \in Seq(Metas) /\ <<>> \in Seq(Entry)
    OBVIOUS
  <2>2. irq \in IrqType
    BY <2>1 DEF IrqIdle, IrqType, Marks
  <2>3. hw \in HwType
    <3>1. [n \in nodes |-> <<>>] \in [nodes -> Seq(Entry)]
      BY <2>1
    <3> QED
      BY <3>1 DEF HwOff, HwType, Marks
  <2>4. buf_list \in [nodes -> Seq(Bufs)]
    BY <2>1
  <2> QED
    BY <2>2, <2>3, <2>4 DEF TypeInv, BufStates, QbufType
<1>2. /\ hw.phase = "off" /\ hw.bits = {} /\ hw.latched = {} /\ irq = IrqIdle
      /\ \A n \in nodes : hw.ring[n] = <<>> /\ Len(buf_list[n]) = 0
  BY DEF HwOff
<1>3. PhaseInv
  <2>1. hw.meta = [n \in Metas |-> 0] /\ word[2] = 0 /\ word[3] = 0
    BY DEF HwOff, Words
  <2> QED
    BY <1>2, <2>1 DEF PhaseInv, IrqIdle
<1>4. OwnInv
  BY <1>2 DEF OwnInv
<1>5. RingInv /\ MarkInv /\ CompleteInv
  BY <1>2 DEF RingInv, MarkInv, CompleteInv, IrqIdle
<1>6. SyncInv
  BY <1>2 DEF SyncInv, FrameInv, LateInv, LateOf, NumberInv, IrqIdle
<1> QED
  BY <1>1, <1>3, <1>4, <1>5, <1>6 DEF MetaInv

\* Every step keeps the invariant.
LEMMA MetaStep ==
  ASSUME MetaInv, Step
  PROVE  MetaInv'
<1>1. Regular' = Regular /\ Without({"coalesce"})' = Without({"coalesce"})
  BY GivenStays
<1>2. SUFFICES ASSUME Regular
               PROVE  /\ TypeInv' /\ PhaseInv' /\ OwnInv' /\ RingInv'
                      /\ MarkInv' /\ CompleteInv' /\ SyncInv'
  BY <1>1 DEF MetaInv
<1>3. /\ TypeInv /\ PhaseInv /\ OwnInv /\ RingInv /\ MarkInv /\ CompleteInv
      /\ Without({"coalesce"}) => FrameInv /\ LateInv /\ NumberInv
  BY <1>2 DEF MetaInv, SyncInv
<1>4. TypeInv' /\ PhaseInv' /\ OwnInv'
  BY <1>2, <1>3, TypeStep, PhaseStep, OwnStep
<1>5. RingInv' /\ WrittenNext
  BY <1>2, <1>3, RingStep
<1>6. MarkInv' /\ CompleteInv'
  BY <1>2, <1>3, <1>4, <1>5, MarkStep, CompleteStep
<1>7. ASSUME Without({"coalesce"}) PROVE FrameInv' /\ LateInv' /\ NumberInv'
  BY <1>2, <1>3, <1>5, <1>7, SyncStep, NumberStep
<1> QED
  BY <1>1, <1>4, <1>5, <1>6, <1>7 DEF SyncInv

\* What the invariant says of the buffers that came back and of the rings.
LEMMA MetaInvGives ==
  ASSUME MetaInv
  PROVE  DoneIsFilled
<1>1. SUFFICES ASSUME Regular PROVE
        /\ \A b \in Bufs : vb[b] = "done" =>
             fill[b] # -1 /\ (Without({"coalesce"}) => sequence[b] = fill[b])
        /\ \A n \in nodes : \A k \in DOMAIN hw.ring[n] :
             vb[hw.ring[n][k].buf] = "active"
  BY DEF DoneIsFilled, Regular
<1>2. /\ TypeInv /\ PhaseInv /\ OwnInv /\ RingInv
      /\ Without({"coalesce"}) => NumberInv
  BY <1>1 DEF MetaInv, SyncInv
<1>3. ASSUME NEW n \in nodes, NEW k \in DOMAIN hw.ring[n]
      PROVE  vb[hw.ring[n][k].buf] = "active"
  <2>1. /\ DOMAIN hw.ring[n] = 1 .. Len(hw.ring[n]) /\ Len(hw.ring[n]) \in Nat
        /\ hw.ring[n] # <<>>
    <3>1. hw.ring[n] \in Seq(Entry)
      BY <1>2 DEF TypeInv, HwType
    <3> QED
      BY <1>3, <3>1, LenProperties
  <2>2. RingOf(n)
    BY <1>2, <2>1 DEF PhaseInv, RingInv
  <2>3. hw.ring[n][k].buf = buf_list[n][Behind(n) + k]
    <3>1. hw.ring[n][k] = [buf |-> buf_list[n][Behind(n) + k], seq |-> Written(n) + k]
      BY <1>3, <2>1, <2>2 DEF RingOf
    <3> QED
      BY <3>1
  <2>4. Behind(n) + k \in 1 .. Len(buf_list[n])
    <3>1. /\ Behind(n) \in Nat /\ Linked(n) \in {0, 1}
          /\ Len(buf_list[n]) = Behind(n) + Len(hw.ring[n]) + Linked(n)
      BY <1>1, <1>2, <2>2, RingFacts, CountTypes
    <3> QED
      BY <1>3, <2>1, <3>1
  <2> QED
    BY <1>2, <2>3, <2>4 DEF OwnInv
<1> QED
  BY <1>2, <1>3 DEF OwnInv, NumberInv

\* Without interrupts inside mtk_cam_vb2_buf_queue, and with the two metadata
\* nodes alone: a buffer that mtk_cam_dev_dequeue_frame returns has been
\* filled, the ISP writes only into buffers the driver holds, and when
\* interrupts are served one by one a buffer carries the number of its frame.
THEOREM DoneAlwaysFilled == Spec => []DoneIsFilled
<1>1. Init => MetaInv
  BY MetaInit
<1>2. MetaInv /\ [Next]_vars => MetaInv'
  BY MetaStep DEF Step
<1>3. MetaInv => DoneIsFilled
  BY MetaInvGives
<1> QED
  BY <1>1, <1>2, <1>3, PTL DEF Spec
=============================================================================
