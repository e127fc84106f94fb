------------------------------ MODULE CamJobs ------------------------------
(***************************************************************************)
(* The frame jobs of the ISP driver when only the main stream node is      *)
(* enabled and its user does not use the Request API (libcamera's simple   *)
(* pipeline): camera/driver/cam/mtk_cam.c and mtk_cam-hw.c.                *)
(*                                                                         *)
(* Contexts.  One ioctl context: vdev_lock serialises QBUF, DQBUF,         *)
(* STREAMON and STREAMOFF of a node.  One interrupt handler.  The ordered  *)
(* work queue composer_wq.  The SCP firmware and the ISP hardware are      *)
(* external and are modelled from the way the driver uses them.            *)
(*                                                                         *)
(* Atomicity.  A section under a spinlock is one step.  What the code      *)
(* reads outside the lock that protects the data it acts on is a step of   *)
(* its own: the tests of cam->streaming, list_del of a buffer followed by  *)
(* vb2_buffer_done after buf_list_lock is dropped, and the request that    *)
(* mtk_cam_dev_get_req returns after it dropped running_job_lock.          *)
(***************************************************************************)
EXTENDS Integers, Sequences, FiniteSets

CONSTANTS
  Bufs,        \* vb2 buffers of the main stream node
  Reqs,        \* addresses kzalloc may give to a request
  NoBuf,       \* no buffer: sbuf of memory that is not a request
  NoReq,       \* the NULL request pointer
  MaxRunning,  \* MTK_ISP_MAX_RUNNING_JOBS
  CqCount,     \* MTK_ISP_CQ_BUFFER_COUNT
  MaxSeq,      \* bound: frames enqueued in one streaming session
  FaultSets    \* sets of FaultKinds: each behaviour suffers the faults of one

(***************************************************************************)
(* "start"    s_stream(1) fails (sensor, seninf or format configuration)   *)
(* "stop"     the sensor or the seninf refuses s_stream(0)                 *)
(* "alloc"    kzalloc of a request returns NULL                            *)
(* "ipi"      scp_ipi_send of a frame fails; the worker ignores the result *)
(* "slowirq"  an interrupt handler is still running when the SCP has       *)
(*            answered a command (the IPI round trip has a 1 s budget, the *)
(*            handler needs microseconds)                                  *)
(***************************************************************************)
FaultKinds == {"start", "stop", "alloc", "ipi", "slowirq"}

ASSUME JobsAssumption ==
  /\ MaxRunning \in Nat \ {0}
  /\ CqCount \in Nat \ {0}
  /\ MaxSeq \in Nat
  /\ FaultSets \subseteq SUBSET FaultKinds
  /\ NoBuf \notin Bufs
  /\ NoReq \notin Reqs

VARIABLES
  vb,                     \* vb2 state of each buffer
  queued_list,            \* buffers queued to vb2, not yet given to the driver
  done_list,              \* completed buffers that wait for DQBUF
  vbq_streaming,          \* vb2_queue.streaming, 0 or 1
  streaming,              \* cam->streaming, 0 or 1
  running_job_count,      \* cam->running_job_count
  buf_list,               \* node->buf_list
  pending_job_list,       \* cam->pending_job_list
  running_job_list,       \* cam->running_job_list
  heap,                   \* addresses that hold an allocated request
  req,                    \* contents of the request at each address
  enqueued_frame_seq_no,  \* p1_dev->enqueued_frame_seq_no
  dequeued_frame_seq_no,  \* p1_dev->dequeued_frame_seq_no
  composed_frame_seq_no,  \* p1_dev->composed_frame_seq_no
  composer_wq,            \* requests whose frame_work is queued
  wq_alive,               \* 1 from alloc_ordered_workqueue to destroy_workqueue
  ioctl,                  \* the ioctl context
  irq,                    \* the interrupt handler
  scp,                    \* external: the composer firmware
  hw,                     \* external: the ISP and its registers
  faults                  \* what may go wrong in this behaviour, chosen once

vb2Vars == <<vb, queued_list, done_list, vbq_streaming>>
jobVars == <<running_job_count, pending_job_list, running_job_list, heap, req,
             enqueued_frame_seq_no, composer_wq>>
seqVars == <<dequeued_frame_seq_no, composed_frame_seq_no>>
sysVars == <<vb2Vars, streaming, buf_list, jobVars, seqVars, wq_alive,
             ioctl, irq, scp, hw>>
vars == <<sysVars, faults>>

-----------------------------------------------------------------------------
(***************************************************************************)
(* Types.                                                                  *)
(***************************************************************************)
ReqRecord == [sbuf : Bufs \cup {NoBuf}, frame_seq_no : Nat, timestamp : {0, 1}]
FreeReq == [sbuf |-> NoBuf, frame_seq_no |-> 0, timestamp |-> 0]

Completion == [buf : Bufs \cup {NoBuf}, state : {"done", "error"},
               sequence : Nat, timestamp : {0, 1}]

IoctlPC == {"idle", "enq", "try", "move", "s_stream", "ipi", "destroy",
            "return", "clean_pending", "clean_running", "cancel", "corrupt"}
IrqPC == {"idle", "event", "scan", "del", "done", "try", "move", "sof", "stamp"}

IoctlType ==
  [pc : IoctlPC, op : {"none", "qbuf", "start", "on"}, todo : Seq(Bufs)]
IrqType ==
  [pc : IrqPC, bits : SUBSET {"SOF", "DON"}, seq : Nat, cur : Reqs \cup {NoReq}]
ScpType == [inbox : Seq(Nat), acks : Seq(Nat)]
HwType ==
  [state : {"off", "idle", "frame", "last"}, bits : SUBSET {"SOF", "DON"},
   seq : Nat, cq : [0 .. CqCount - 1 -> Nat], base : 0 .. CqCount - 1,
   finished : SUBSET Nat]

CoreTypeOK ==
  /\ vb \in [Bufs -> {"dequeued", "queued", "active", "done"}]
  /\ queued_list \in Seq(Bufs)
  /\ done_list \in Seq(Completion)
  /\ vbq_streaming \in {0, 1}
  /\ streaming \in {0, 1}
  /\ running_job_count \in Int
  /\ buf_list \in Seq(Bufs)
  /\ pending_job_list \in Seq(Reqs)
  /\ running_job_list \in Seq(Reqs)
  /\ heap \subseteq Reqs
  /\ req \in [Reqs -> ReqRecord]
  /\ enqueued_frame_seq_no \in Nat
  /\ dequeued_frame_seq_no \in Nat
  /\ composed_frame_seq_no \in Nat
  /\ composer_wq \in Seq(Reqs)
  /\ wq_alive \in {0, 1}
  /\ ioctl \in IoctlType
  /\ irq \in IrqType
  /\ scp \in ScpType
  /\ hw \in HwType

\* The types of all variables.
CamJobsTypeOK == CoreTypeOK /\ faults \in FaultSets

IoctlIdle == [pc |-> "idle", op |-> "none", todo |-> <<>>]
IrqIdle == [pc |-> "idle", bits |-> {}, seq |-> 0, cur |-> NoReq]
ScpIdle == [inbox |-> <<>>, acks |-> <<>>]
HwReset == [state |-> "off", bits |-> {}, seq |-> 0,
            cq |-> [i \in 0 .. CqCount - 1 |-> 0], base |-> 0, finished |-> {}]

Init ==
  /\ vb = [b \in Bufs |-> "dequeued"]
  /\ queued_list = <<>>
  /\ done_list = <<>>
  /\ vbq_streaming = 0
  /\ streaming = 0
  /\ running_job_count = 0
  /\ buf_list = <<>>
  /\ pending_job_list = <<>>
  /\ running_job_list = <<>>
  /\ heap = {}
  /\ req = [r \in Reqs |-> FreeReq]
  /\ enqueued_frame_seq_no = 0
  /\ dequeued_frame_seq_no = 0
  /\ composed_frame_seq_no = 0
  /\ composer_wq = <<>>
  /\ wq_alive = 0
  /\ ioctl = IoctlIdle
  /\ irq = IrqIdle
  /\ scp = ScpIdle
  /\ hw = HwReset
  /\ faults \in FaultSets

-----------------------------------------------------------------------------
(***************************************************************************)
(* Helpers.                                                                *)
(***************************************************************************)

\* list_del of buffer b from a list: what is not linked cannot be unlinked.
ListDel(s, b) ==
  IF \E i \in 1 .. Len(s) : s[i] = b
  THEN LET k == CHOOSE i \in 1 .. Len(s) : s[i] = b
       IN  SubSeq(s, 1, k - 1) \o SubSeq(s, k + 1, Len(s))
  ELSE s

\* vb2_buffer_done: warns and returns for a buffer the driver does not own.
Vb2BufferDone(c) ==
  \/ /\ c.buf \in Bufs /\ vb[c.buf] = "active"
     /\ vb' = [vb EXCEPT ![c.buf] = "done"]
     /\ done_list' = Append(done_list, c)
  \/ /\ c.buf \notin Bufs \/ vb[c.buf] # "active"
     /\ UNCHANGED <<vb, done_list>>

\* An interrupt handler invocation is over before the SCP answers a command.
IrqPrompt == "slowirq" \in faults \/ (irq.pc = "idle" /\ hw.bits = {})

\* running_job_lock is held from "scan" until the handler has left the loop.
RunningLockFree == irq.pc \notin {"scan", "del", "done"}

MutRoom ==
  LET free == MaxRunning + 1 - running_job_count
  IN  IF Len(pending_job_list) < free THEN Len(pending_job_list) ELSE free

\* Jobs that fit: the loop of mtk_cam_dev_req_try_queue stops at the limit.
Room ==
  LET free == MaxRunning - running_job_count
  IN  IF free < 0 THEN 0
      ELSE IF Len(pending_job_list) < free THEN Len(pending_job_list) ELSE free

\* The number mtk_isp_req_enqueue gives to the i-th job moved: ++enqueued.
FrameSeqNo(i) == enqueued_frame_seq_no + i

\* The locked part of mtk_cam_dev_req_try_queue with mtk_isp_req_enqueue: the
\* first jobs of the pending list move to the running list, each takes the
\* next frame sequence number, and its work is queued.
MoveJobs ==
  LET n == Room
      moved == SubSeq(pending_job_list, 1, n)
  IN  /\ running_job_count' = running_job_count + n
      /\ pending_job_list' =
           SubSeq(pending_job_list, n + 1, Len(pending_job_list))
      /\ running_job_list' = running_job_list \o moved
      /\ enqueued_frame_seq_no' = enqueued_frame_seq_no + n
      /\ req' = [r \in Reqs |->
                   IF \E i \in 1 .. n : pending_job_list[i] = r
                   THEN [req[r] EXCEPT !.frame_seq_no = FrameSeqNo(
                           CHOOSE i \in 1 .. n : pending_job_list[i] = r)]
                   ELSE req[r]]
      /\ composer_wq' = composer_wq \o moved
      /\ UNCHANGED heap

-----------------------------------------------------------------------------
(***************************************************************************)
(* The ioctl context: QBUF and DQBUF.                                      *)
(***************************************************************************)

\* Bound of the model: frames of a session.
QueueBound == enqueued_frame_seq_no + Len(pending_job_list) < MaxSeq

\* The list node of buffer b is in node->buf_list.
Linked(b) == \E i \in 1 .. Len(buf_list) : buf_list[i] = b

\* VIDIOC_QBUF.  Before STREAMON vb2 keeps the buffer (bound: an address is
\* left for the request STREAMON will make for it).  Afterwards
\* mtk_cam_vb2_buf_queue links it and hands it to mtk_cam_enqueue_no_request.
\* list_add_tail of a node that is still linked ties the list into a loop and
\* cuts off what followed the node: no walk of it is sound any more, and the
\* ioctl context is not followed further ("corrupt").
QBuf(b) ==
  /\ ioctl.pc = "idle"
  /\ vb[b] = "dequeued"
  /\ \/ /\ vbq_streaming = 0
        /\ Len(queued_list) < Cardinality(Reqs \ heap)
        /\ vb' = [vb EXCEPT ![b] = "queued"]
        /\ queued_list' = Append(queued_list, b)
        /\ UNCHANGED <<buf_list, ioctl>>
     \/ /\ vbq_streaming = 1
        /\ QueueBound
        /\ ~Linked(b)
        /\ vb' = [vb EXCEPT ![b] = "active"]
        /\ buf_list' = Append(buf_list, b)
        /\ ioctl' = [pc |-> "enq", op |-> "qbuf", todo |-> <<b>>]
        /\ UNCHANGED queued_list
     \/ /\ vbq_streaming = 1
        /\ QueueBound
        /\ Linked(b)
        /\ vb' = [vb EXCEPT ![b] = "active"]
        /\ ioctl' = [pc |-> "corrupt", op |-> "qbuf", todo |-> <<>>]
        /\ UNCHANGED <<queued_list, buf_list>>
  /\ UNCHANGED <<done_list, vbq_streaming, streaming, jobVars, seqVars,
                 wq_alive, irq, scp, hw>>

\* VIDIOC_DQBUF takes the first completed buffer.
DQBuf ==
  /\ ioctl.pc = "idle"
  /\ done_list # <<>>
  /\ done_list' = Tail(done_list)
  /\ vb' = [vb EXCEPT ![Head(done_list).buf] = "dequeued"]
  /\ UNCHANGED <<queued_list, vbq_streaming, streaming, buf_list, jobVars,
                 seqVars, wq_alive, ioctl, irq, scp, hw>>

\* mtk_cam_enqueue_no_request for the next buffer of the loop: a request with
\* one buffer goes to the tail of the pending list.
EnqueueNoRequest(r) ==
  /\ ioctl.pc = "enq"
  /\ ioctl.todo # <<>>
  /\ r \notin heap
  /\ heap' = heap \cup {r}
  /\ req' = [req EXCEPT ![r] = [sbuf |-> Head(ioctl.todo), frame_seq_no |-> 0,
                                timestamp |-> 0]]
  /\ pending_job_list' = Append(pending_job_list, r)
  /\ ioctl' = [ioctl EXCEPT !.pc = "try", !.todo = Tail(ioctl.todo)]
  /\ UNCHANGED <<vb2Vars, streaming, running_job_count, buf_list,
                 running_job_list, enqueued_frame_seq_no, composer_wq, seqVars,
                 wq_alive, irq, scp, hw>>

\* kzalloc failed: the buffer is completed with an error and stays linked, also
\* when the user dequeues it and queues it again (see QBuf).
EnqueueNoMemory ==
  /\ "alloc" \in faults
  /\ ioctl.pc = "enq"
  /\ ioctl.todo # <<>>
  /\ Vb2BufferDone([buf |-> Head(ioctl.todo), state |-> "error",
                    sequence |-> 0, timestamp |-> 0])
  /\ ioctl' = [ioctl EXCEPT !.todo = Tail(ioctl.todo)]
  /\ UNCHANGED <<queued_list, vbq_streaming, streaming, buf_list, jobVars,
                 seqVars, wq_alive, irq, scp, hw>>

\* The unlocked test of cam->streaming in mtk_cam_dev_req_try_queue.
IoctlTryQueue ==
  /\ ioctl.pc = "try"
  /\ ioctl' = [ioctl EXCEPT !.pc = IF streaming = 1 THEN "move" ELSE "enq"]
  /\ UNCHANGED <<vb2Vars, streaming, buf_list, jobVars, seqVars, wq_alive,
                 irq, scp, hw>>

IoctlMoveJobs ==
  /\ ioctl.pc = "move"
  /\ RunningLockFree
  /\ MoveJobs
  /\ ioctl' = [ioctl EXCEPT !.pc = "enq"]
  /\ UNCHANGED <<vb2Vars, streaming, buf_list, seqVars, wq_alive, irq, scp, hw>>

\* The loop over the buffers is over: QBUF returns, STREAMON goes on.
EnqueueDone ==
  /\ ioctl.pc = "enq"
  /\ ioctl.todo = <<>>
  /\ ioctl' = IF ioctl.op = "start" THEN [ioctl EXCEPT !.pc = "s_stream"]
              ELSE IoctlIdle
  /\ vbq_streaming' = IF ioctl.op = "on" THEN 1 ELSE vbq_streaming
  /\ UNCHANGED <<vb, queued_list, done_list, streaming, buf_list, jobVars,
                 seqVars, wq_alive, irq, scp, hw>>

-----------------------------------------------------------------------------
(***************************************************************************)
(* The ioctl context: STREAMON.                                            *)
(***************************************************************************)

\* vb2 hands every queued buffer to the driver, then start_streaming starts
\* the pipeline, mtk_cam_dev_init_stream clears the job count and
\* mtk_isp_hw_init boots the SCP, allocates the work queue and clears the
\* sequence numbers.  The buffers of buf_list are enqueued next.  (Bound: the
\* work of a session whose stop failed has been sent before the next session.)
StreamOn ==
  /\ ioctl.pc = "idle"
  /\ vbq_streaming = 0
  /\ composer_wq = <<>>
  /\ IrqPrompt
  /\ vb' = [b \in Bufs |-> IF vb[b] = "queued" THEN "active" ELSE vb[b]]
  /\ buf_list' = buf_list \o queued_list
  /\ queued_list' = <<>>
  /\ running_job_count' = 0
  /\ enqueued_frame_seq_no' = 0
  /\ dequeued_frame_seq_no' = 0
  /\ composed_frame_seq_no' = 0
  /\ wq_alive' = 1
  /\ scp' = ScpIdle
  /\ hw' = [HwReset EXCEPT !.state = hw.state]
  /\ ioctl' = [pc |-> "enq", op |-> "start", todo |-> buf_list \o queued_list]
  /\ UNCHANGED <<done_list, vbq_streaming, streaming, pending_job_list,
                 running_job_list, heap, req, composer_wq, irq>>

\* mtk_cam_sd_s_stream(1): nothing to do when already streaming; otherwise
\* mtk_cam_cio_stream_on starts seninf, sensor and ISP and queues jobs.
SStreamOn ==
  /\ ioctl.pc = "s_stream"
  /\ IF streaming = 1
     THEN /\ ioctl' = [ioctl EXCEPT !.pc = "enq", !.op = "on"]
          /\ UNCHANGED <<streaming, hw>>
     ELSE /\ ioctl' = [ioctl EXCEPT !.pc = "try", !.op = "on"]
          /\ streaming' = 1
          /\ hw' = [hw EXCEPT !.state = "idle"]
  /\ UNCHANGED <<vb2Vars, buf_list, jobVars, seqVars, wq_alive, irq, scp>>

\* A sub-device or the configuration fails: start_streaming gives all buffers
\* back to vb2 as queued and returns.  Neither the pending list nor the
\* hardware initialisation is undone.  (Bounds: no allocation failed before,
\* and addresses are left for the requests of another try.)
SStreamOnFails ==
  /\ "start" \in faults
  /\ ioctl.pc = "s_stream"
  /\ streaming = 0
  /\ \A i \in 1 .. Len(buf_list) : vb[buf_list[i]] = "active"
  /\ Len(buf_list) <= Cardinality(Reqs \ heap)
  /\ vb' = [b \in Bufs |-> IF vb[b] = "active" THEN "queued" ELSE vb[b]]
  /\ queued_list' = buf_list
  /\ buf_list' = <<>>
  /\ ioctl' = IoctlIdle
  /\ UNCHANGED <<done_list, vbq_streaming, streaming, jobVars, seqVars,
                 wq_alive, irq, scp, hw>>

-----------------------------------------------------------------------------
(***************************************************************************)
(* The ioctl context: STREAMOFF.                                           *)
(***************************************************************************)

\* mtk_cam_vb2_stop_streaming, first part: s_stream(0).  When the sub-devices
\* stop, no further frame starts and cam->streaming is cleared; when one
\* refuses, the error is ignored and streaming stays set.
StreamOff ==
  /\ ioctl.pc = "idle"
  /\ vbq_streaming = 1
  /\ \/ /\ streaming = 1
        /\ streaming' = 0
        /\ hw' = [hw EXCEPT !.state = IF @ = "frame" THEN "last" ELSE "off"]
        /\ ioctl' = [ioctl EXCEPT !.pc = "ipi"]
     \/ /\ streaming = 0 \/ "stop" \in faults
        /\ ioctl' = [ioctl EXCEPT !.pc = "return"]
        /\ UNCHANGED <<streaming, hw>>
  /\ UNCHANGED <<vb2Vars, buf_list, jobVars, seqVars, wq_alive, irq, scp>>

\* mtk_isp_stream(0) and ISP_CMD_DEINIT: the SCP stops the ISP and answers.
StreamOffIpi ==
  /\ ioctl.pc = "ipi"
  /\ IrqPrompt
  /\ hw' = [hw EXCEPT !.state = "off"]
  /\ ioctl' = [ioctl EXCEPT !.pc = "destroy"]
  /\ UNCHANGED <<vb2Vars, streaming, buf_list, jobVars, seqVars, wq_alive,
                 irq, scp>>

\* External.  destroy_workqueue waits until the queued work has run.
WorkDrained == composer_wq = <<>>

MutDestroyWorkqueue ==
  /\ ioctl.pc = "destroy"
  /\ scp' = ScpIdle
  /\ ioctl' = [ioctl EXCEPT !.pc = "return"]
  /\ UNCHANGED <<vb2Vars, streaming, buf_list, jobVars, seqVars, wq_alive, irq, hw>>

\* destroy_workqueue waits for the queued work; the IPI handlers go.
DestroyWorkqueue ==
  /\ ioctl.pc = "destroy"
  /\ WorkDrained
  /\ wq_alive' = 0
  /\ scp' = ScpIdle
  /\ ioctl' = [ioctl EXCEPT !.pc = "return"]
  /\ UNCHANGED <<vb2Vars, streaming, buf_list, jobVars, seqVars, irq, hw>>

MutReturnAllBuffers ==
  /\ ioctl.pc = "return"
  /\ buf_list' = <<>>
  /\ ioctl' = [ioctl EXCEPT !.pc = "clean_pending"]
  /\ UNCHANGED <<vb2Vars, streaming, jobVars, seqVars, wq_alive, irq, scp, hw>>

\* mtk_cam_vb2_return_all_buffers(VB2_BUF_STATE_ERROR) under buf_list_lock.
\* The error completions never reach the user: Vb2Cancel drops them first.
ReturnAllBuffers ==
  /\ ioctl.pc = "return"
  /\ vb' = [b \in Bufs |->
              IF vb[b] = "active" /\ \E i \in 1 .. Len(buf_list) : buf_list[i] = b
              THEN "done" ELSE vb[b]]
  /\ buf_list' = <<>>
  /\ ioctl' = [ioctl EXCEPT !.pc = "clean_pending"]
  /\ UNCHANGED <<queued_list, done_list, vbq_streaming, streaming, jobVars, seqVars,
                 wq_alive, irq, scp, hw>>

\* kfree of the synthetic requests of a list.
Kfree(s) ==
  /\ heap' = heap \ {s[i] : i \in 1 .. Len(s)}
  /\ req' = [r \in Reqs |-> IF \E i \in 1 .. Len(s) : s[i] = r
                            THEN FreeReq ELSE req[r]]

\* mtk_cam_dev_req_cleanup empties the pending list, then the running list.
CleanPending ==
  /\ ioctl.pc = "clean_pending"
  /\ pending_job_list' = <<>>
  /\ Kfree(pending_job_list)
  /\ ioctl' = [ioctl EXCEPT !.pc = "clean_running"]
  /\ UNCHANGED <<vb2Vars, streaming, buf_list, running_job_count,
                 running_job_list, enqueued_frame_seq_no, composer_wq, seqVars,
                 wq_alive, irq, scp, hw>>

CleanRunning ==
  /\ ioctl.pc = "clean_running"
  /\ RunningLockFree
  /\ running_job_list' = <<>>
  /\ Kfree(running_job_list)
  /\ ioctl' = [ioctl EXCEPT !.pc = "cancel"]
  /\ UNCHANGED <<vb2Vars, streaming, buf_list, running_job_count,
                 pending_job_list, enqueued_frame_seq_no, composer_wq, seqVars,
                 wq_alive, irq, scp, hw>>

\* __vb2_queue_cancel: every buffer goes back to user space.
Vb2Cancel ==
  /\ ioctl.pc = "cancel"
  /\ vb' = [b \in Bufs |-> "dequeued"]
  /\ queued_list' = <<>>
  /\ done_list' = <<>>
  /\ vbq_streaming' = 0
  /\ ioctl' = IoctlIdle
  /\ UNCHANGED <<streaming, buf_list, jobVars, seqVars, wq_alive, irq, scp, hw>>

-----------------------------------------------------------------------------
(***************************************************************************)
(* The interrupt handler isp_irq_cam.                                      *)
(***************************************************************************)

MutIrqEnter ==
  /\ irq.pc = "idle"
  /\ hw.bits # {}
  /\ irq' = [pc |-> "event", bits |-> hw.bits, seq |-> hw.seq, cur |-> NoReq]
  /\ hw' = [hw EXCEPT !.bits = {}]
  /\ dequeued_frame_seq_no' = hw.seq
  /\ UNCHANGED <<vb2Vars, streaming, buf_list, jobVars, composed_frame_seq_no,
                 wq_alive, ioctl, scp>>

\* The status register is read and cleared together with FRAME_SEQ_NUM.
IrqEnter ==
  /\ irq.pc = "idle"
  /\ hw.bits # {}
  /\ irq' = [pc |-> "event", bits |-> hw.bits, seq |-> hw.seq, cur |-> NoReq]
  /\ hw' = [hw EXCEPT !.bits = {}]
  /\ UNCHANGED <<vb2Vars, streaming, buf_list, jobVars, seqVars, wq_alive,
                 ioctl, scp>>

\* isp_irq_handle_event: only SW_PASS1_DON concerns the main stream.
IrqEvent ==
  /\ irq.pc = "event"
  /\ irq' = [irq EXCEPT !.pc = IF "DON" \in irq.bits THEN "scan" ELSE "sof"]
  /\ UNCHANGED <<vb2Vars, streaming, buf_list, jobVars, seqVars, wq_alive,
                 ioctl, scp, hw>>

\* mtk_cam_dev_dequeue_req_frame, one turn of its loop: jobs up to the frame
\* that was saved at the last SOF leave the running list.  job_done returns
\* at once when cam->streaming is clear; the request is freed all the same.
IrqScan ==
  /\ irq.pc = "scan"
  /\ running_job_list # <<>>
  /\ LET r == Head(running_job_list)
     IN  /\ req[r].frame_seq_no <= dequeued_frame_seq_no
         /\ running_job_count' = running_job_count - 1
         /\ \/ /\ streaming = 1
               /\ irq' = [irq EXCEPT !.pc = "del", !.cur = r]
               /\ UNCHANGED <<running_job_list, heap, req>>
            \/ /\ streaming = 0
               /\ irq' = [irq EXCEPT !.pc =
                     IF req[r].frame_seq_no = dequeued_frame_seq_no
                     THEN "try" ELSE "scan"]
               /\ running_job_list' = Tail(running_job_list)
               /\ Kfree(<<r>>)
  /\ UNCHANGED <<vb2Vars, streaming, buf_list, pending_job_list,
                 enqueued_frame_seq_no, composer_wq, seqVars, wq_alive, ioctl,
                 scp, hw>>

MutIrqScanEnd ==
  /\ irq.pc = "scan"
  /\ running_job_list # <<>> =>
       req[Head(running_job_list)].frame_seq_no > dequeued_frame_seq_no
  /\ irq' = [irq EXCEPT !.pc = IF running_job_list = <<>> THEN "try" ELSE "event"]
  /\ UNCHANGED <<vb2Vars, streaming, buf_list, jobVars, seqVars, wq_alive,
                 ioctl, scp, hw>>

IrqScanEnd ==
  /\ irq.pc = "scan"
  /\ running_job_list # <<>> =>
       req[Head(running_job_list)].frame_seq_no > dequeued_frame_seq_no
  /\ irq' = [irq EXCEPT !.pc = "try"]
  /\ UNCHANGED <<vb2Vars, streaming, buf_list, jobVars, seqVars, wq_alive,
                 ioctl, scp, hw>>

MutIrqDel ==
  /\ irq.pc = "del"
  /\ irq' = [irq EXCEPT !.pc = "done"]
  /\ UNCHANGED <<vb2Vars, streaming, buf_list, jobVars, seqVars, wq_alive, ioctl,
                 scp, hw>>

\* mtk_cam_dev_job_done: unlink the buffer under buf_list_lock ...
IrqDel ==
  /\ irq.pc = "del"
  /\ buf_list' = ListDel(buf_list, req[irq.cur].sbuf)
  /\ irq' = [irq EXCEPT !.pc = "done"]
  /\ UNCHANGED <<vb2Vars, streaming, jobVars, seqVars, wq_alive, ioctl, scp, hw>>

MutSequence(q) == dequeued_frame_seq_no

\* buf->vbb.sequence of a completed buffer.
Sequence(q) == q.frame_seq_no

\* ... complete it after the unlock; the caller unlinks and frees the request,
\* and stops at the frame it was looking for.
IrqDone ==
  /\ irq.pc = "done"
  /\ LET q == req[irq.cur]
         match == q.frame_seq_no = dequeued_frame_seq_no
     IN  /\ Vb2BufferDone([buf |-> q.sbuf,
                           state |-> IF match THEN "done" ELSE "error",
                           sequence |-> Sequence(q),
                           timestamp |-> q.timestamp])
         /\ irq' = [irq EXCEPT !.pc = IF match THEN "try" ELSE "scan",
                               !.cur = NoReq]
  /\ running_job_list' = Tail(running_job_list)
  /\ Kfree(<<irq.cur>>)
  /\ UNCHANGED <<queued_list, vbq_streaming, streaming, running_job_count,
                 buf_list, pending_job_list, enqueued_frame_seq_no,
                 composer_wq, seqVars, wq_alive, ioctl, scp, hw>>

MutIrqTryQueue ==
  /\ irq.pc = "try"
  /\ irq' = [irq EXCEPT !.pc = "sof"]
  /\ UNCHANGED <<vb2Vars, streaming, buf_list, jobVars, seqVars, wq_alive,
                 ioctl, scp, hw>>

IrqTryQueue ==
  /\ irq.pc = "try"
  /\ irq' = [irq EXCEPT !.pc = IF streaming = 1 THEN "move" ELSE "sof"]
  /\ UNCHANGED <<vb2Vars, streaming, buf_list, jobVars, seqVars, wq_alive,
                 ioctl, scp, hw>>

IrqMoveJobs ==
  /\ irq.pc = "move"
  /\ MoveJobs
  /\ irq' = [irq EXCEPT !.pc = "sof"]
  /\ UNCHANGED <<vb2Vars, streaming, buf_list, seqVars, wq_alive, ioctl, scp, hw>>

\* isp_irq_handle_sof: save the frame number and look its request up.
IrqSof ==
  /\ irq.pc = "sof"
  /\ \/ /\ "SOF" \notin irq.bits
        /\ irq' = IrqIdle
        /\ UNCHANGED dequeued_frame_seq_no
     \/ /\ "SOF" \in irq.bits
        /\ dequeued_frame_seq_no' = irq.seq
        /\ LET found == {i \in 1 .. Len(running_job_list) :
                           req[running_job_list[i]].frame_seq_no = irq.seq}
           IN  irq' = [irq EXCEPT !.pc = "stamp", !.cur =
                 IF found = {} THEN NoReq
                 ELSE running_job_list[CHOOSE i \in found : TRUE]]
  /\ UNCHANGED <<vb2Vars, streaming, buf_list, jobVars, composed_frame_seq_no,
                 wq_alive, ioctl, scp, hw>>

MutCqSlot(n) == n % (CqCount + 1)

\* The command queue slot selected at the SOF of frame n.
CqSlot(n) == n % CqCount

\* The timestamp is written after running_job_lock was dropped; then the CQ
\* base moves to the next frame unless the composer is not ahead.
IrqStamp ==
  /\ irq.pc = "stamp"
  /\ req' = [r \in Reqs |-> IF r = irq.cur THEN [req[r] EXCEPT !.timestamp = 1]
                            ELSE req[r]]
  /\ hw' = [hw EXCEPT !.base = IF composed_frame_seq_no <= irq.seq THEN @
                               ELSE CqSlot(irq.seq)]
  /\ irq' = IrqIdle
  /\ UNCHANGED <<vb2Vars, streaming, buf_list, running_job_count,
                 pending_job_list, running_job_list, heap,
                 enqueued_frame_seq_no, composer_wq, seqVars, wq_alive, ioctl,
                 scp>>

-----------------------------------------------------------------------------
(***************************************************************************)
(* The work queue, the SCP and the hardware.                               *)
(***************************************************************************)

\* isp_tx_frame_worker sends the frame parameters to the SCP.  It ignores the
\* result: with the fault "ipi" the message may be lost.
TxFrameWorker ==
  /\ composer_wq # <<>>
  /\ composer_wq' = Tail(composer_wq)
  /\ \/ scp' = [scp EXCEPT !.inbox =
                  Append(@, req[Head(composer_wq)].frame_seq_no)]
     \/ "ipi" \in faults /\ UNCHANGED scp
  /\ UNCHANGED <<vb2Vars, streaming, running_job_count, buf_list,
                 pending_job_list, running_job_list, heap, req,
                 enqueued_frame_seq_no, seqVars, wq_alive, ioctl, irq, hw>>

\* External.  The firmware composes frame s into the command queue slot the
\* driver selects for it at the SOF of frame s - 1, and sends an ack.
ScpCompose ==
  /\ scp.inbox # <<>>
  /\ LET s == Head(scp.inbox)
     IN  /\ hw' = [hw EXCEPT !.cq[(s - 1) % CqCount] = s]
         /\ scp' = [inbox |-> Tail(scp.inbox), acks |-> Append(scp.acks, s)]
  /\ UNCHANGED <<vb2Vars, streaming, buf_list, jobVars, seqVars, wq_alive,
                 ioctl, irq>>

\* isp_composer_handler: ISP_CMD_FRAME_ACK.
ComposerAck ==
  /\ scp.acks # <<>>
  /\ composed_frame_seq_no' = Head(scp.acks)
  /\ scp' = [scp EXCEPT !.acks = Tail(@)]
  /\ UNCHANGED <<vb2Vars, streaming, buf_list, jobVars, dequeued_frame_seq_no,
                 wq_alive, ioctl, irq, hw>>

\* External.  At vsync the ISP loads the selected command queue slot, if the
\* slot holds a frame, and raises SOF.
HwSof ==
  /\ hw.state = "idle"
  /\ hw' = [hw EXCEPT !.state = "frame", !.bits = @ \cup {"SOF"},
                      !.seq = IF hw.cq[hw.base] = 0 THEN @ ELSE hw.cq[hw.base]]
  /\ UNCHANGED <<vb2Vars, streaming, buf_list, jobVars, seqVars, wq_alive,
                 ioctl, irq, scp>>

\* External.  The frame is written and SW_PASS1_DON is raised.
HwDone ==
  /\ hw.state \in {"frame", "last"}
  /\ hw' = [hw EXCEPT !.state = IF @ = "frame" THEN "idle" ELSE "off",
                      !.bits = @ \cup {"DON"}, !.finished = @ \cup {hw.seq}]
  /\ UNCHANGED <<vb2Vars, streaming, buf_list, jobVars, seqVars, wq_alive,
                 ioctl, irq, scp>>

-----------------------------------------------------------------------------
IoctlStep ==
  \/ \E r \in Reqs : EnqueueNoRequest(r)
  \/ EnqueueNoMemory \/ IoctlTryQueue \/ IoctlMoveJobs \/ EnqueueDone
  \/ SStreamOn \/ SStreamOnFails
  \/ StreamOffIpi \/ DestroyWorkqueue \/ ReturnAllBuffers
  \/ CleanPending \/ CleanRunning \/ Vb2Cancel

User == (\E b \in Bufs : QBuf(b)) \/ DQBuf \/ StreamOn \/ StreamOff

IrqStep ==
  \/ IrqEnter \/ IrqEvent \/ IrqScan \/ IrqScanEnd \/ IrqDel \/ IrqDone
  \/ IrqTryQueue \/ IrqMoveJobs \/ IrqSof \/ IrqStamp

Next ==
  /\ UNCHANGED faults
  /\ \/ User \/ IoctlStep \/ IrqStep
     \/ TxFrameWorker \/ ScpCompose \/ ComposerAck \/ HwSof \/ HwDone

Spec == Init /\ [][Next]_vars

(***************************************************************************)
(* A started ioctl goes on (a kernel thread is scheduled), a raised        *)
(* interrupt is handled, the work queue runs, the SCP answers and the      *)
(* sensor keeps sending frames.  The user owes nothing.  A context that    *)
(* waits for running_job_lock gets it in the end although the interrupt    *)
(* handler takes it again and again: kernel spinlocks queue their waiters. *)
(***************************************************************************)
Fairness ==
  /\ WF_sysVars(IoctlStep)
  /\ SF_sysVars(IoctlMoveJobs)
  /\ SF_sysVars(CleanRunning)
  /\ WF_sysVars(IrqStep)
  /\ WF_sysVars(TxFrameWorker)
  /\ WF_sysVars(ScpCompose)
  /\ WF_sysVars(ComposerAck)
  /\ WF_sysVars(HwSof)
  /\ WF_sysVars(HwDone)

FairSpec == Spec /\ Fairness

-----------------------------------------------------------------------------
(***************************************************************************)
(* Properties.  Each names the faults it does not survive: TLC shows it    *)
(* for each of the others.                                                 *)
(***************************************************************************)
Without(kinds) == faults \cap kinds = {}

\* From the job reset of STREAMON to the clean-up of STREAMOFF.
InSession ==
  /\ vbq_streaming = 1 \/ ioctl.op \in {"start", "on"}
  /\ ioctl.pc # "cancel"

\* The job the interrupt handler has counted down but not unlinked yet.
Leaving == IF irq.pc \in {"del", "done"} THEN 1 ELSE 0

CountExact ==
  /\ Len(running_job_list) <= MaxRunning
  /\ InSession => running_job_count = Len(running_job_list) - Leaving

\* Never more than MTK_ISP_MAX_RUNNING_JOBS jobs are in the hardware, and the
\* counter mtk_cam_dev_req_try_queue relies on is the length of the list it
\* counts, although init_stream resets it without a lock, the interrupt
\* handler lowers it before it unlinks and req_cleanup does not touch it.  (A
\* handler delayed over a whole stop and start lowers the new session's.)
JobsBounded == Without({"slowirq"}) => CountExact

\* While the ISP streams, node->buf_list is the buffers of the running jobs,
\* then those of the pending jobs, then what the current ioctl still has to
\* enqueue: three lists under three locks keep one order, so a buffer that
\* return_all_buffers would miss or find twice does not exist.
ListsAgree ==
  LET first == IF irq.pc = "done" THEN 2 ELSE 1
      jobs == SubSeq(running_job_list, first, Len(running_job_list))
                \o pending_job_list
  IN  streaming = 1 /\ InSession /\ Without({"start", "stop", "alloc"}) =>
        buf_list = [i \in 1 .. Len(jobs) |-> req[jobs[i]].sbuf] \o ioctl.todo

\* The list node of a buffer is linked and unlinked in turns: QBUF links only
\* an unlinked buffer, mtk_cam_dev_job_done unlinks only a linked one and
\* completes only one the driver owns, and STREAMOFF leaves no buffer behind
\* in the driver, whatever the interleaving of interrupt and ioctl.
CompletedOnce ==
  /\ ioctl.pc # "corrupt"
  /\ irq.pc = "del" => Linked(req[irq.cur].sbuf)
  /\ irq.pc = "done" => vb[req[irq.cur].sbuf] = "active"
  /\ ioctl.pc = "cancel" => \A b \in Bufs : vb[b] # "active"

\* CompletedOnce holds as long as no user retries a failed STREAMON, the
\* sub-devices stop when they are told to, no handler outlives its session and
\* no allocation fails (a buffer completed without memory stays linked, and
\* the next QBUF of it links it twice).
CompletedOnceInOrder ==
  Without({"start", "stop", "alloc", "slowirq"}) => CompletedOnce

\* No context touches a freed request or a destroyed work queue: the worker,
\* the SOF handler that holds a request without the lock, and try_queue.  (A
\* handler delayed until STREAMOFF has cleaned up does.)
NoUseAfterFree ==
  Without({"stop", "slowirq"}) =>
    /\ \A i \in 1 .. Len(composer_wq) : composer_wq[i] \in heap
    /\ irq.pc \in {"del", "done"} => irq.cur \in heap
    /\ irq.pc = "stamp" => irq.cur \in heap \cup {NoReq}
    /\ "move" \in {irq.pc, ioctl.pc} => wq_alive = 1

\* A buffer completed as good belongs to a frame the ISP has finished, and
\* carries the time of that frame's SOF, although completion uses the frame
\* number saved by an earlier interrupt and interrupts may coalesce.
DoneIsReal ==
  Without({"slowirq"}) =>
    \A i \in 1 .. Len(done_list) :
      done_list[i].state = "done" =>
        /\ done_list[i].timestamp = 1
        /\ done_list[i].sequence \in hw.finished

\* Buffers are delivered in frame order, dropped frames included: sequence
\* numbers rise along the done list and stay below every job in hardware.
DeliveredInOrder ==
  Without({"alloc", "slowirq"}) =>
    /\ \A i, j \in 1 .. Len(done_list) :
         i < j => done_list[i].sequence < done_list[j].sequence
    /\ \A i \in 1 .. Len(done_list) :
         done_list[i].sequence <=
           enqueued_frame_seq_no - Len(running_job_list) + Leaving

\* Every buffer given to the driver comes back, with no help from the user.
BufferReturned ==
  \A b \in Bufs : vb[b] = "active" ~> vb[b] # "active"

\* Every ioctl returns: STREAMOFF is never stuck behind the work queue or a
\* job the interrupt handler holds.
IoctlReturns == ioctl.pc # "idle" ~> ioctl.pc = "idle"
=============================================================================
