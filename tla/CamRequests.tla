---------------------------- MODULE CamRequests ----------------------------
(***************************************************************************)
(* Media requests of the ISP driver: the user allocates a request, adds    *)
(* buffers of several nodes to it, queues it and polls for its completion  *)
(* (camera/driver/cam/mtk_cam.c).                                          *)
(*                                                                         *)
(* External: the request and buffer bookkeeping of the media core and of   *)
(* vb2.  A request lives as long as its file, the queue or a buffer that   *)
(* was not dequeued refers to it.  The media core serialises the queueing  *)
(* of requests with STREAMON and STREAMOFF (req_queue_mutex).              *)
(*                                                                         *)
(* What happens to a frame between try_queue and its DONE interrupt is in  *)
(* CamJobs, the sub-devices are in CamStream.  Here a frame that reached   *)
(* the running list is sooner or later written by the ISP.                 *)
(***************************************************************************)
EXTENDS Integers, Sequences, FiniteSets, SequencesExt

CONSTANTS
  BufSets,     \* the buffers in use, <<node, index>>, are one of these sets
  Reqs,        \* addresses of requests
  NoReq,       \* no request
  MaxRunning,  \* MTK_ISP_MAX_RUNNING_JOBS
  MaxSeq,      \* bound: frames enqueued in a session
  FaultSets    \* sets of FaultKinds: each behaviour suffers the faults of one

(***************************************************************************)
(* "drop"     the ISP skips a frame                                        *)
(* "window"   the user acts between two steps of the interrupt handler     *)
(* "partial"  the user queues requests without buffers of every node, and  *)
(*            goes on while some nodes have stopped                        *)
(* "timeout"  no frame arrives while the user polls                        *)
(* "alloc"    there is no memory for a request                             *)
(***************************************************************************)
FaultKinds == {"drop", "window", "partial", "timeout", "alloc"}

Main == "main"    \* MTK_CAM_P1_MAIN_STREAM_OUT
Aao == "aao"      \* MTK_CAM_P1_META_OUT_0
Other == "other"  \* any node that is not looked at by its DMA's own interrupt
NodeIds == {Main, Aao, Other}

ASSUME RequestsAssumption ==
  /\ \A B \in BufSets : \A b \in B : b[1] \in NodeIds
  /\ NoReq \notin Reqs
  /\ MaxRunning \in Nat \ {0} /\ MaxSeq \in Nat
  /\ FaultSets \subseteq SUBSET FaultKinds

VARIABLES
  Bufs,               \* the buffers of the enabled nodes, chosen once
  on,                 \* nodes that stream
  stopping,           \* a node has stopped and not all have
  streaming,          \* cam->streaming, 0 or 1
  vb,                 \* state of each buffer
  req,                \* the memory of each request
  buf_list,           \* node->buf_list as a set: requests are completed by
                      \* their own lists of buffers, never in its order
  pending_job_list,   \* cam->pending_job_list
  running_job_list,   \* cam->running_job_list
  running_job_count,  \* cam->running_job_count
  enqueued_frame_seq_no,
  irq,                \* the interrupt handler
  hw,                 \* external: the last frame of the ISP and its interrupt
  filled,             \* buffers the ISP wrote since they were queued
  faults              \* what may go wrong in this behaviour, chosen once

runVars == <<on, stopping, streaming>>
jobVars == <<pending_job_list, running_job_list, running_job_count,
             enqueued_frame_seq_no>>
bufVars == <<vb, buf_list, filled>>
sysVars == <<runVars, bufVars, req, jobVars, irq, hw>>
given == <<Bufs, faults>>
vars == <<given, sysVars>>

Node(b) == b[1]
nodes == {Node(b) : b \in Bufs}

\* st, fd and refs say who refers to the request: the queue while st is
\* "queued", the open file, and each buffer in refs until it is dequeued.
\* objs are the buffers bound to it, dma those whose address it has.
FreeReq == [st |-> "free", fd |-> FALSE, objs |-> {}, refs |-> {}, dma |-> {},
            seq |-> 0]
IrqIdle == [pc |-> "idle", frame |-> 0, cur |-> NoReq]
HwOff == [frame |-> 0, done |-> FALSE]

RequestsInit ==
  /\ Bufs \in BufSets
  /\ faults \in FaultSets
  /\ on = {} /\ stopping = FALSE /\ streaming = 0
  /\ vb = [b \in Bufs |-> "dequeued"]
  /\ req = [r \in Reqs |-> FreeReq]
  /\ buf_list = [n \in nodes |-> {}]
  /\ pending_job_list = <<>>
  /\ running_job_list = <<>>
  /\ running_job_count = 0
  /\ enqueued_frame_seq_no = 0
  /\ irq = IrqIdle
  /\ hw = HwOff
  /\ filled = {}

-----------------------------------------------------------------------------
\* media_request_put: memory nobody refers to is freed (mtk_cam_req_free).
Collect(q) ==
  [r \in Reqs |-> IF q[r].st # "queued" /\ ~q[r].fd /\ q[r].refs = {}
                  THEN FreeReq ELSE q[r]]

\* vb2_buffer_done of the buffers B unbinds them; a queued request whose last
\* buffer is done is complete and the queue drops it.
Unbind(q, B) ==
  [r \in Reqs |->
     LET rest == q[r].objs \ B
     IN  [q[r] EXCEPT !.objs = rest,
                      !.st = IF @ = "queued" /\ rest = {} THEN "complete" ELSE @]]

\* mtk_cam_dev_req_try_queue: pending requests move to the running list while
\* there is room and get their frame numbers.
TryQueue(pending, running, count, q, seq) ==
  LET room == IF count < MaxRunning THEN MaxRunning - count ELSE 0
      n == IF Len(pending) < room THEN Len(pending) ELSE room
      moved == SubSeq(pending, 1, n)
  IN  /\ pending_job_list' = SubSeq(pending, n + 1, Len(pending))
      /\ running_job_list' = running \o moved
      /\ running_job_count' = count + n
      /\ enqueued_frame_seq_no' = seq + n
      /\ req' = [r \in Reqs |-> IF Contains(moved, r)
                                THEN [q[r] EXCEPT !.seq = seq +
                                        CHOOSE i \in 1 .. n : moved[i] = r]
                                ELSE q[r]]

NoTryQueue(pending, q) ==
  /\ pending_job_list' = pending
  /\ req' = q
  /\ UNCHANGED <<running_job_list, running_job_count, enqueued_frame_seq_no>>

-----------------------------------------------------------------------------
(***************************************************************************)
(* The user's calls.                                                       *)
(***************************************************************************)
UserRuns ==
  /\ stopping => "partial" \in faults
  /\ irq.pc # "idle" => "window" \in faults

\* MEDIA_IOC_REQUEST_ALLOC: mtk_cam_req_alloc.
ReqAlloc(r) ==
  /\ UserRuns
  /\ req[r].st = "free"
  /\ req' = [req EXCEPT ![r] = [FreeReq EXCEPT !.st = "idle", !.fd = TRUE]]
  /\ UNCHANGED <<runVars, bufVars, jobVars, irq, hw>>

\* VIDIOC_QBUF with a request: vb2 binds the buffer and refers to the request.
QBuf(b, r) ==
  /\ UserRuns
  /\ req[r].st = "idle" /\ req[r].fd
  /\ vb[b] = "dequeued"
  /\ vb' = [vb EXCEPT ![b] = "in_request"]
  /\ req' = [req EXCEPT ![r].objs = @ \cup {b}, ![r].refs = @ \cup {b}]
  /\ filled' = filled \ {b}
  /\ UNCHANGED <<runVars, buf_list, jobVars, irq, hw>>

\* MEDIA_REQUEST_IOC_QUEUE: vb2_request_validate wants a buffer;
\* mtk_cam_req_queue has mtk_cam_vb2_buf_queue link each buffer and record its
\* address, appends the request and tries to queue it.
ReqQueue(r) ==
  /\ UserRuns
  /\ req[r].st = "idle" /\ req[r].fd
  /\ req[r].objs # {}
  /\ {Node(b) : b \in req[r].objs} = nodes \/ "partial" \in faults
  /\ enqueued_frame_seq_no + Len(pending_job_list) < MaxSeq
  /\ LET q == [req EXCEPT ![r].st = "queued", ![r].dma = req[r].objs]
         pending == Append(pending_job_list, r)
         Mine(n) == {b \in req[r].objs : Node(b) = n}
     IN  /\ buf_list' = [n \in nodes |-> buf_list[n] \cup Mine(n)]
         /\ IF streaming = 1
            THEN TryQueue(pending, running_job_list, running_job_count, q,
                          enqueued_frame_seq_no)
            ELSE NoTryQueue(pending, q)
         /\ vb' = [b \in Bufs |-> IF b \in req[r].objs THEN "active" ELSE vb[b]]
  /\ UNCHANGED <<runVars, filled, irq, hw>>

\* MEDIA_REQUEST_IOC_REINIT of a completed request.
ReqReinit(r) ==
  /\ UserRuns
  /\ req[r].st = "complete" /\ req[r].fd
  /\ req' = [req EXCEPT ![r].st = "idle"]
  /\ UNCHANGED <<runVars, bufVars, jobVars, irq, hw>>

\* close() of the request's file.
ReqClose(r) ==
  /\ UserRuns
  /\ req[r].fd
  /\ req' = Collect([req EXCEPT ![r].fd = FALSE])
  /\ UNCHANGED <<runVars, bufVars, jobVars, irq, hw>>

\* VIDIOC_DQBUF: vb2 drops the buffer's reference to its request.
DQBuf(b) ==
  /\ UserRuns
  /\ vb[b] \in {"done", "error"}
  /\ vb' = [vb EXCEPT ![b] = "dequeued"]
  /\ req' = Collect([r \in Reqs |-> [req[r] EXCEPT !.refs = @ \ {b}]])
  /\ UNCHANGED <<runVars, buf_list, filled, jobVars, irq, hw>>

-----------------------------------------------------------------------------
(***************************************************************************)
(* STREAMON and STREAMOFF of a node.                                       *)
(***************************************************************************)
\* The first resets the counters (mtk_cam_dev_init_stream, mtk_isp_hw_init),
\* the last starts the ISP and tries to queue what is pending.
StreamOn(n) ==
  /\ irq.pc = "idle"
  /\ n \notin on /\ ~stopping
  /\ on' = on \cup {n}
  /\ LET first == on = {}
         count == IF first THEN 0 ELSE running_job_count
         seq == IF first THEN 0 ELSE enqueued_frame_seq_no
     IN  IF on' = nodes
         THEN /\ streaming' = 1
              /\ TryQueue(pending_job_list, running_job_list, count, req, seq)
         ELSE /\ running_job_count' = count
              /\ enqueued_frame_seq_no' = seq
              /\ UNCHANGED <<streaming, req, pending_job_list, running_job_list>>
  /\ UNCHANGED <<stopping, bufVars, irq, hw>>

MutReqCleanup == [pending |-> <<>>, running |-> running_job_list]

\* mtk_cam_dev_req_cleanup empties both lists.
ReqCleanup == [pending |-> <<>>, running |-> <<>>]

\* The first STREAMOFF stops the ISP, each returns its node's buffers and the
\* last empties the lists; then vb2 dequeues the node's buffers and drops
\* their references.
StreamOff(n) ==
  /\ irq.pc = "idle"
  /\ n \in on
  /\ on = nodes \/ stopping
  /\ on' = on \ {n}
  /\ stopping' = (on' # {})
  /\ streaming' = 0
  /\ hw' = HwOff
  /\ LET mine == {b \in Bufs : Node(b) = n}
         q == Unbind(req, mine)
         kept == [pending |-> pending_job_list, running |-> running_job_list]
         lists == IF on' = {} THEN ReqCleanup ELSE kept
     IN  /\ req' = Collect([r \in Reqs |-> [q[r] EXCEPT !.refs = @ \ mine]])
         /\ vb' = [b \in Bufs |-> IF b \in mine THEN "dequeued" ELSE vb[b]]
         /\ pending_job_list' = lists.pending
         /\ running_job_list' = lists.running
  /\ buf_list' = [buf_list EXCEPT ![n] = {}]
  /\ UNCHANGED <<filled, running_job_count, enqueued_frame_seq_no, irq>>

-----------------------------------------------------------------------------
(***************************************************************************)
(* The ISP and the interrupt handler.                                      *)
(***************************************************************************)
\* External: the ISP writes the buffers of frame f and raises DONE.
HwFrame(f) ==
  /\ streaming = 1
  /\ irq.pc = "idle" /\ ~hw.done
  /\ f > hw.frame
  /\ f = hw.frame + 1 \/ "drop" \in faults
  /\ \E i \in DOMAIN running_job_list :
       /\ req[running_job_list[i]].seq = f
       /\ filled' = filled \cup req[running_job_list[i]].dma
  /\ hw' = [frame |-> f, done |-> TRUE]
  /\ UNCHANGED <<runVars, vb, buf_list, req, jobVars, irq>>

IrqEnter ==
  /\ irq.pc = "idle"
  /\ hw.done
  /\ irq' = [pc |-> "meta", frame |-> hw.frame, cur |-> NoReq]
  /\ hw' = [hw EXCEPT !.done = FALSE]
  /\ UNCHANGED <<runVars, bufVars, req, jobVars>>

\* mtk_cam_dev_dequeue_frame on META_OUT_0.  Buffers of requests were never
\* numbered, so all of its buffers are returned.
IrqMeta ==
  /\ irq.pc = "meta"
  /\ IF Aao \in nodes /\ streaming = 1
     THEN LET mine == buf_list[Aao]
          IN  /\ vb' = [b \in Bufs |-> IF b \in mine THEN "done" ELSE vb[b]]
              /\ buf_list' = [buf_list EXCEPT ![Aao] = {}]
              /\ req' = Collect(Unbind(req, mine))
     ELSE UNCHANGED <<vb, buf_list, req>>
  /\ irq' = [irq EXCEPT !.pc = "jobs"]
  /\ UNCHANGED <<runVars, filled, jobVars, hw>>

MutJobState(r) == "done"

\* The state a request's buffers are completed with.
JobState(r) == IF req[r].seq = irq.frame THEN "done" ELSE "error"

MutReached(r) == req[r].seq < irq.frame

\* The request is for this frame or for one the ISP dropped.
Reached(r) == req[r].seq <= irq.frame

\* mtk_cam_dev_dequeue_req_frame finds a request up to the frame and
\* mtk_cam_dev_job_done completes the buffers still bound to it ...
IrqJobDone ==
  /\ irq.pc = "jobs"
  /\ running_job_list # <<>>
  /\ LET r == Head(running_job_list)
         mine == req[r].objs
     IN  /\ Reached(r)
         /\ running_job_count' = running_job_count - 1
         /\ vb' = [b \in Bufs |-> IF b \in mine THEN JobState(r) ELSE vb[b]]
         /\ buf_list' = [n \in nodes |-> buf_list[n] \ mine]
         /\ req' = Collect(Unbind(req, mine))
         /\ irq' = [irq EXCEPT !.pc = "del", !.cur = r]
  /\ UNCHANGED <<runVars, filled, pending_job_list, running_job_list,
                 enqueued_frame_seq_no, hw>>

\* ... then it reads the request again and unlinks it.
IrqListDel ==
  /\ irq.pc = "del"
  /\ running_job_list' = Tail(running_job_list)
  /\ irq' = [irq EXCEPT !.pc = IF req[irq.cur].seq = irq.frame THEN "try"
                               ELSE "jobs", !.cur = NoReq]
  /\ UNCHANGED <<runVars, bufVars, req, pending_job_list, running_job_count,
                 enqueued_frame_seq_no, hw>>

IrqJobsEnd ==
  /\ irq.pc = "jobs"
  /\ running_job_list # <<>> => ~Reached(Head(running_job_list))
  /\ irq' = [irq EXCEPT !.pc = "try"]
  /\ UNCHANGED <<runVars, bufVars, req, jobVars, hw>>

IrqTryQueue ==
  /\ irq.pc = "try"
  /\ IF streaming = 1
     THEN TryQueue(pending_job_list, running_job_list, running_job_count, req,
                   enqueued_frame_seq_no)
     ELSE NoTryQueue(pending_job_list, req)
  /\ irq' = IrqIdle
  /\ UNCHANGED <<runVars, bufVars, hw>>

Irq ==
  IrqEnter \/ IrqMeta \/ IrqJobDone \/ IrqListDel \/ IrqJobsEnd \/ IrqTryQueue

DriverStep == Irq \/ \E f \in 1 .. MaxSeq : HwFrame(f)

\* A user who makes the calls in any order.
UserStep ==
  \/ \E r \in Reqs : \/ ReqAlloc(r)
                     \/ \E b \in Bufs : QBuf(b, r)
                     \/ ReqQueue(r)
                     \/ ReqReinit(r)
                     \/ ReqClose(r)
  \/ \E b \in Bufs : DQBuf(b)
  \/ \E n \in nodes : StreamOn(n) \/ StreamOff(n)

-----------------------------------------------------------------------------
(***************************************************************************)
(* Properties                                                              *)
(***************************************************************************)
Without(F) == faults \cap F = {}

\* Every request in a list of the driver is allocated, queued or completed by
\* the handler that is about to unlink it, and is in one place of one list.
\* Three uses break it: a user who dequeues, closes or reinitialises a request
\* between the completion of its buffers and list_del; one who closes a
\* request and stops all nodes it has buffers of before the last node stops,
\* as only that empties the lists; and one with META_OUT_0, as the first DONE
\* returns its buffers of all requests: nothing else holds those that have no
\* others, or whose other nodes have stopped.
ListedAlive ==
  /\ Without({"window", "partial"})
  /\ Aao \in nodes => nodes # {Aao} /\ ~stopping
  =>
    LET jobs == pending_job_list \o running_job_list
    IN  /\ IsInjective(jobs)
        /\ \A i \in DOMAIN jobs : req[jobs[i]].st \in {"queued", "complete"}

\* A buffer that is returned without error has been written by the ISP, and
\* the ISP will write into no buffer the user holds.  Not so with META_OUT_0:
\* the first DONE interrupt returns its buffers of all requests.
WrittenBeforeReturned ==
  Aao \notin nodes /\ Without({"window"}) =>
    /\ \A b \in Bufs : vb[b] = "done" => b \in filled
    /\ streaming = 1 /\ irq.pc = "idle" =>
         \A i \in DOMAIN running_job_list :
           LET r == req[running_job_list[i]]
           IN  r.seq > hw.frame => \A b \in r.dma : vb[b] = "active"

\* A request that is queued while the pipeline streams is completed, also when
\* the ISP drops its frame, unless the stream is stopped.  (One that is queued
\* while nodes stop is taken off the list and its buffers stay with vb2; with
\* META_OUT_0 alone a listed request can be used again and lose its number.)
RequestCompletes ==
  \A r \in Reqs :
    (/\ streaming = 1 /\ req[r].st = "queued"
     /\ nodes # {Aao} /\ Without({"window", "partial"}))
      ~> (streaming = 0 \/ req[r].st # "queued")
=============================================================================
