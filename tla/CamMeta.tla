------------------------------ MODULE CamMeta ------------------------------
(***************************************************************************)
(* Buffers of the metadata nodes and of the packed image node in           *)
(* non-request mode: numbering by mtk_isp_enqueue, completion by           *)
(* mtk_cam_dev_dequeue_frame from the interrupt handler                    *)
(* (camera/driver/cam/mtk_cam-hw.c, mtk_cam.c).                            *)
(*                                                                         *)
(* A node is its number in enum mtk_cam_vdev ids.  The sequence numbers of *)
(* struct mtk_isp_p1_device are one row of words, because mtk_isp_enqueue  *)
(* indexes an array of two with the distance of the node from META_OUT_0,  *)
(* which may be negative or too large.  Requests of the main stream are in *)
(* CamJobs; here the SCP composes its frames one after the other, and it   *)
(* starts before the nodes of this module and stops after them.            *)
(***************************************************************************)
EXTENDS Integers, Sequences, FiniteSets

CONSTANTS
  BufSets,    \* the buffers in use, <<node, index>>, are one of these sets
  NoBuf,      \* no buffer
  MaxSeq,     \* bound: metadata buffers enqueued in a session
  MaxFrames,  \* bound: frames the SCP composes in a session
  FaultSets   \* sets of FaultKinds: each behaviour suffers the faults of one

(***************************************************************************)
(* "coalesce"  an interrupt is served so late that others have joined it   *)
(* "window"    an interrupt is served between the steps of a QBUF          *)
(***************************************************************************)
FaultKinds == {"coalesce", "window"}

META_IN_0 == 0
MAIN_STREAM_OUT == 1
META_OUT_0 == 3
META_OUT_1 == 4
Metas == {META_OUT_0, META_OUT_1}
NodeIds == 0 .. 6 \ {MAIN_STREAM_OUT}

ASSUME MetaAssumption ==
  /\ \A B \in BufSets : \A b \in B : b[1] \in NodeIds /\ b # NoBuf
  /\ MaxSeq \in Nat /\ MaxFrames \in Nat
  /\ FaultSets \subseteq SUBSET FaultKinds

VARIABLES
  Bufs,       \* the buffers of the enabled nodes, chosen once
  on,         \* nodes that vb2 regards as streaming
  streaming,  \* cam->streaming, 0 or 1
  dmas,       \* cam->enabled_dmas is not 0
  vb,         \* state of each buffer: dequeued, active or done
  seq_no,     \* buffer->seq_no, which survives the buffer's return
  sequence,   \* vbb.sequence of a returned buffer
  buf_list,   \* node->buf_list; before STREAMON, the list vb2 keeps
  qbuf,       \* the QBUF under way on each node: its next step and buffer
  word,       \* the sequence numbers of p1_dev
  irq,        \* the interrupt handler
  hw,         \* external: the SCP and the ISP
  fill,       \* the frame that filled a buffer since it was queued, or -1
  faults      \* what may go wrong in this behaviour, chosen once

bufVars == <<vb, seq_no, sequence, buf_list>>
runVars == <<on, streaming, dmas>>
sysVars == <<runVars, bufVars, qbuf, word, irq, hw, fill>>
vars == <<Bufs, sysVars, faults>>

Node(b) == b[1]
nodes == {Node(b) : b \in Bufs}

\* The words of struct mtk_isp_p1_device, by their distance from
\* enqueued_meta_seq_no[0].
enqueued_frame_seq_no == -3
dequeued_frame_seq_no == -2
composed_frame_seq_no == -1
enqueued_meta_seq_no(i) == i
dequeued_meta_seq_no(i) == 2 + i
Words == -3 .. 3

QIdle == [pc |-> "idle", buf |-> NoBuf]
IrqIdle == [pc |-> "idle", todo |-> <<>>, sof |-> FALSE, frame |-> 0,
            meta |-> [n \in Metas |-> 0], seq |-> 0]
HwOff == [phase |-> "off", frame |-> 0, base |-> 0, acked |-> 0,
          ring |-> [n \in nodes |-> <<>>], latched |-> {},
          meta |-> [n \in Metas |-> 0], bits |-> {}]

Init ==
  /\ Bufs \in BufSets
  /\ faults \in FaultSets
  /\ on = {}
  /\ streaming = 0
  /\ dmas = 0
  /\ vb = [b \in Bufs |-> "dequeued"]
  /\ seq_no = [b \in Bufs |-> 0]
  /\ sequence = [b \in Bufs |-> 0]
  /\ buf_list = [n \in nodes |-> <<>>]
  /\ qbuf = [n \in nodes |-> QIdle]
  /\ word = [i \in Words |-> 0]
  /\ irq = IrqIdle
  /\ hw = HwOff
  /\ fill = [b \in Bufs |-> -1]

-----------------------------------------------------------------------------
(***************************************************************************)
(* QBUF.  Each node has an ioctl lock of its own; op_lock serialises what  *)
(* they send to the SCP.                                                   *)
(***************************************************************************)
OpLockFree == \A n \in nodes : qbuf[n].pc # "send"

\* The interrupt handler is completing buffers of node n.
Completing(n) == irq.pc = "complete" /\ Head(irq.todo) = n

\* mtk_cam_vb2_buf_queue links the buffer.  (Before STREAMON vb2 keeps it.)
BufQueue(b) ==
  LET n == Node(b)
  IN  /\ vb[b] = "dequeued"
      /\ qbuf[n].pc = "idle"
      /\ Completing(n) => "window" \in faults
      /\ n \in on \/ hw.phase = "off"
      /\ word[n - META_OUT_0] < MaxSeq /\ word[0] + word[1] < MaxSeq
      /\ vb' = [vb EXCEPT ![b] = "active"]
      /\ buf_list' = [buf_list EXCEPT ![n] = Append(@, b)]
      /\ qbuf' = IF n \in on
                 THEN [qbuf EXCEPT ![n] = [pc |-> "enqueue", buf |-> b]]
                 ELSE qbuf
      /\ UNCHANGED <<runVars, seq_no, sequence, word, irq, hw, fill>>

\* idx of mtk_isp_enqueue.
MetaIndex(n) == n - META_OUT_0

\* mtk_isp_enqueue up to the message: without DMA ports the buffer is
\* discarded, which leaves it linked.
IspEnqueue(n) ==
  /\ qbuf[n].pc = "enqueue"
  /\ OpLockFree
  /\ LET i == MetaIndex(n)
     IN  IF dmas = 0
         THEN /\ qbuf' = [qbuf EXCEPT ![n] = QIdle]
              /\ UNCHANGED <<word, seq_no>>
         ELSE /\ word' = [word EXCEPT ![i] = @ + 1]
              /\ seq_no' = [seq_no EXCEPT ![qbuf[n].buf] = word[i] + 1]
              /\ qbuf' = [qbuf EXCEPT ![n].pc = "send"]
  /\ UNCHANGED <<runVars, vb, sequence, buf_list, irq, hw, fill>>

\* A buffer in a ring of the SCP, with the number the message gave it.
RingEntry(b) == [buf |-> b, seq |-> seq_no[b]]

\* ISP_CMD_ENQUEUE_META: the SCP adds the buffer to the ring of its DMA port
\* before scp_ipi_send returns.
EnqueueMeta(n) ==
  /\ qbuf[n].pc = "send"
  /\ hw' = [hw EXCEPT !.ring[n] = Append(@, RingEntry(qbuf[n].buf))]
  /\ qbuf' = [qbuf EXCEPT ![n] = QIdle]
  /\ UNCHANGED <<runVars, bufVars, word, irq, fill>>

\* VIDIOC_DQBUF.
DQBuf(b) ==
  /\ vb[b] = "done"
  /\ qbuf[Node(b)].pc = "idle"
  /\ vb' = [vb EXCEPT ![b] = "dequeued"]
  /\ fill' = [fill EXCEPT ![b] = -1]
  /\ sequence' = [sequence EXCEPT ![b] = 0]
  /\ UNCHANGED <<runVars, seq_no, buf_list, qbuf, word, irq, hw>>

-----------------------------------------------------------------------------
(***************************************************************************)
(* STREAMON and STREAMOFF of a node, under op_lock.  CamStream has the     *)
(* calls they make; here a start succeeds, and a behaviour is one session: *)
(* the next would begin with mtk_isp_hw_init and numbers of its own.       *)
(***************************************************************************)
\* The first STREAMON runs mtk_isp_hw_init, which resets the numbers; each
\* enqueues the buffers vb2 kept for its node; the last starts the ISP.
StreamOn(n) ==
  /\ n \notin on
  /\ qbuf[n].pc = "idle" /\ OpLockFree
  /\ hw.phase = "off"
  /\ on' = on \cup {n}
  /\ dmas' = 1
  /\ LET i == MetaIndex(n)
         old == IF on = {} THEN [j \in Words |-> 0] ELSE word
         list == buf_list[n]
         number(b) == old[i] + CHOOSE k \in DOMAIN list : list[k] = b
     IN  /\ word' = [old EXCEPT ![i] = @ + Len(list)]
         /\ seq_no' = [b \in Bufs |-> IF \E k \in DOMAIN list : list[k] = b
                                      THEN number(b) ELSE seq_no[b]]
         /\ hw' = [hw EXCEPT
                     !.ring[n] = [k \in DOMAIN list |->
                                    [buf |-> list[k], seq |-> old[i] + k]],
                     !.phase = IF on' = nodes THEN "idle" ELSE @]
  /\ streaming' = IF on' = nodes THEN 1 ELSE 0
  /\ UNCHANGED <<vb, sequence, buf_list, qbuf, irq, fill>>

\* node->buf_list after mtk_cam_vb2_return_all_buffers.
ReturnAllBuffers(n) == [buf_list EXCEPT ![n] = <<>>]

\* The first STREAMOFF stops the ISP, clears cam->streaming and enabled_dmas;
\* each takes its node's buffers back (mtk_cam_vb2_return_all_buffers) and
\* vb2 makes all of them dequeued.
StreamOff(n) ==
  /\ n \in on
  /\ qbuf[n].pc = "idle" /\ OpLockFree
  /\ on = nodes \/ hw.phase = "stopped"
  /\ on' = on \ {n}
  /\ streaming' = 0
  /\ dmas' = 0
  /\ hw' = [HwOff EXCEPT !.phase = "stopped"]
  /\ buf_list' = ReturnAllBuffers(n)
  /\ vb' = [b \in Bufs |-> IF Node(b) = n THEN "dequeued" ELSE vb[b]]
  /\ fill' = [b \in Bufs |-> IF Node(b) = n THEN -1 ELSE fill[b]]
  /\ sequence' = [b \in Bufs |-> IF Node(b) = n THEN 0 ELSE sequence[b]]
  /\ UNCHANGED <<seq_no, qbuf, word, irq>>

-----------------------------------------------------------------------------
(***************************************************************************)
(* External: the SCP composes frames and keeps a ring of buffers for each  *)
(* DMA port; the ISP latches the heads of the rings at the start of a      *)
(* frame and releases them at its end.  REG_xxx_FBC_STATUS counts a ring.  *)
(***************************************************************************)
IrqPrompt == "coalesce" \in faults \/ (irq.pc = "idle" /\ hw.bits = {})

\* The SCP acknowledges a composed frame; isp_composer_handler records it.
Ack ==
  /\ hw.phase \in {"idle", "frame"}
  /\ hw.acked < MaxFrames
  /\ hw' = [hw EXCEPT !.acked = @ + 1]
  /\ word' = [word EXCEPT ![composed_frame_seq_no] = hw.acked + 1]
  /\ UNCHANGED <<runVars, bufVars, qbuf, irq, fill>>

HwSof ==
  /\ hw.phase = "idle"
  /\ IrqPrompt
  /\ LET heads == {n \in nodes : hw.ring[n] # <<>>}
     IN  hw' = [hw EXCEPT
           !.phase = "frame", !.frame = hw.base, !.latched = heads,
           !.meta = [n \in Metas |-> IF n \in heads THEN Head(hw.ring[n]).seq
                                     ELSE hw.meta[n]],
           !.bits = @ \cup {"SOF"}]
  /\ UNCHANGED <<runVars, bufVars, qbuf, word, irq, fill>>

HwDone ==
  /\ hw.phase = "frame"
  /\ IrqPrompt
  /\ fill' = [b \in Bufs |->
                IF Node(b) \in hw.latched /\ Head(hw.ring[Node(b)]).buf = b
                THEN hw.frame ELSE fill[b]]
  /\ hw' = [hw EXCEPT
       !.phase = "idle", !.latched = {},
       !.ring = [n \in nodes |-> IF n \in hw.latched THEN Tail(@[n]) ELSE @[n]],
       !.bits = @ \cup {"DON"}
                  \cup (IF META_OUT_0 \in hw.latched THEN {"AAO"} ELSE {})
                  \cup (IF META_OUT_1 \in hw.latched THEN {"AFO"} ELSE {})]
  /\ UNCHANGED <<runVars, bufVars, qbuf, word, irq>>

-----------------------------------------------------------------------------
(***************************************************************************)
(* The interrupt handler.                                                  *)
(***************************************************************************)
\* The nodes isp_irq_handle_event dequeues from, in its order.
Dequeues(bits) ==
  (IF {"DON", "AAO"} \subseteq bits THEN <<META_OUT_0>> ELSE <<>>)
    \o (IF "AFO" \in bits THEN <<META_OUT_1>> ELSE <<>>)
    \o (IF "DON" \in bits THEN <<META_OUT_0>> ELSE <<>>)

\* isp_irq_cam reads the status, which clears it, and the frame registers.
IrqEnter ==
  /\ irq.pc = "idle"
  /\ hw.bits # {}
  /\ irq' = [pc |-> "read", todo |-> Dequeues(hw.bits), sof |-> "SOF" \in hw.bits,
             frame |-> hw.frame, meta |-> hw.meta, seq |-> 0]
  /\ hw' = [hw EXCEPT !.bits = {}]
  /\ UNCHANGED <<runVars, bufVars, qbuf, word, fill>>

NextNode == [irq EXCEPT !.pc = "read", !.todo = Tail(@), !.seq = 0]

MutLastSeq(n) == word[dequeued_meta_seq_no(n - META_OUT_0)]

\* The number up to which mtk_cam_dev_dequeue_frame returns buffers: that of
\* the buffer the last SOF announced or, when the ring is empty, the last one.
LastSeq(n) ==
  IF hw.ring[n] = <<>> THEN word[enqueued_meta_seq_no(n - META_OUT_0)]
  ELSE word[dequeued_meta_seq_no(n - META_OUT_0)]

\* mtk_cam_dev_dequeue_frame up to the lock of the list.
IrqRead ==
  /\ irq.pc = "read"
  /\ irq.todo # <<>>
  /\ LET n == Head(irq.todo)
     IN  IF n \in nodes /\ streaming = 1
         THEN /\ qbuf[n].pc = "idle" \/ "window" \in faults
              /\ irq' = [irq EXCEPT !.pc = "complete", !.seq = LastSeq(n)]
         ELSE irq' = NextNode
  /\ UNCHANGED <<runVars, bufVars, qbuf, word, hw, fill>>

MutLeading(list, seq) ==
  Cardinality({k \in DOMAIN list : \A j \in 1 .. k : seq_no[list[j]] <= seq + 1})

\* How many buffers at the front of a list have numbers up to seq.
Leading(list, seq) ==
  Cardinality({k \in DOMAIN list : \A j \in 1 .. k : seq_no[list[j]] <= seq})

\* The sequence of the first buffer it returns; the others count on.
FirstSequence == word[dequeued_frame_seq_no]

\* mtk_cam_dev_dequeue_frame under the lock of the list.
IrqComplete ==
  /\ irq.pc = "complete"
  /\ LET n == Head(irq.todo)
         list == buf_list[n]
         count == Leading(list, irq.seq)
         place(b) == CHOOSE k \in DOMAIN list : list[k] = b
         Done(b) == \E k \in 1 .. count : list[k] = b
     IN  /\ vb' = [b \in Bufs |-> IF Done(b) THEN "done" ELSE vb[b]]
         /\ sequence' = [b \in Bufs |->
              IF Done(b) THEN FirstSequence + place(b) - 1
              ELSE sequence[b]]
         /\ buf_list' = [buf_list EXCEPT ![n] = SubSeq(@, count + 1, Len(@))]
  /\ irq' = NextNode
  /\ UNCHANGED <<runVars, seq_no, qbuf, word, hw, fill>>

\* The frame after this one has been composed.
FrameIsComposed(frame) == word[composed_frame_seq_no] > frame

\* isp_irq_handle_sof: save what the frame uses and select the CQ of the next.
IrqSof ==
  /\ irq.pc = "read"
  /\ irq.todo = <<>>
  /\ irq' = IrqIdle
  /\ IF irq.sof
     THEN /\ word' = [word EXCEPT
                        ![dequeued_frame_seq_no] = irq.frame,
                        ![dequeued_meta_seq_no(0)] = irq.meta[META_OUT_0],
                        ![dequeued_meta_seq_no(1)] = irq.meta[META_OUT_1]]
          /\ hw' = IF FrameIsComposed(irq.frame) /\ streaming = 1
                   THEN [hw EXCEPT !.base = irq.frame + 1] ELSE hw
     ELSE UNCHANGED <<word, hw>>
  /\ UNCHANGED <<runVars, bufVars, qbuf, fill>>

Irq == IrqEnter \/ IrqRead \/ IrqComplete \/ IrqSof

-----------------------------------------------------------------------------
Next ==
  /\ \/ \E b \in Bufs : BufQueue(b) \/ DQBuf(b)
     \/ \E n \in nodes : \/ IspEnqueue(n)
                         \/ EnqueueMeta(n)
                         \/ StreamOn(n)
                         \/ StreamOff(n)
     \/ Ack
     \/ HwSof
     \/ HwDone
     \/ Irq
  /\ UNCHANGED <<Bufs, faults>>

\* The ISP delivers frames while it streams, the processor serves interrupts
\* and a system call that was begun continues.
Fairness ==
  /\ WF_sysVars(HwSof /\ UNCHANGED <<Bufs, faults>>)
  /\ WF_sysVars(HwDone /\ UNCHANGED <<Bufs, faults>>)
  /\ WF_sysVars(Irq /\ UNCHANGED <<Bufs, faults>>)
  /\ WF_sysVars(/\ \E n \in nodes : IspEnqueue(n) \/ EnqueueMeta(n)
                /\ UNCHANGED <<Bufs, faults>>)

Spec == Init /\ [][Next]_vars /\ Fairness

-----------------------------------------------------------------------------
(***************************************************************************)
(* Properties                                                              *)
(***************************************************************************)
Without(F) == faults \cap F = {}

\* The nodes in use have counters of their own: for any other node
\* mtk_isp_enqueue counts in a neighbouring word of the structure.
OwnCounters == nodes \subseteq Metas

\* A buffer the handler returns has been filled, and the ISP writes into no
\* buffer the user holds, however late interrupts are served; when they are
\* served one by one it carries the number of its frame.  Not so when
\* one is served inside mtk_cam_vb2_buf_queue: the buffer is linked before it
\* is numbered and numbered before it is sent, and its old number, or a ring
\* that is empty, completes it too early.
DoneIsFilled ==
  Without({"window"}) /\ OwnCounters =>
    /\ \A b \in Bufs : vb[b] = "done" =>
         fill[b] # -1 /\ (Without({"coalesce"}) => sequence[b] = fill[b])
    /\ \A n \in nodes : \A k \in DOMAIN hw.ring[n] :
         vb[hw.ring[n][k].buf] = "active"

\* Every buffer of the two metadata nodes that reached the SCP comes back
\* while the stream is on, even when interrupts are served so late that the
\* frame's end is seen before its start.
MetaReturned ==
  \A b \in UNION BufSets :
    (b \in Bufs /\ Node(b) \in Metas /\ streaming = 1 /\ vb[b] = "active")
      ~> (streaming = 0 \/ (b \in Bufs /\ vb[b] # "active"))
=============================================================================
