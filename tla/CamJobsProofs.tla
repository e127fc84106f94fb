--------------------------- MODULE CamJobsProofs ---------------------------
(***************************************************************************)
(* Proofs about CamJobs for every number of buffers and requests, every    *)
(* job limit and every set of faults.                                      *)
(***************************************************************************)
EXTENDS CamJobs, SequenceTheorems, TLAPS

\* While the handler completes a job it holds running_job_lock: the job it
\* points at stays the first of the running list.
IrqHoldsHead ==
  irq.pc \in {"del", "done"} =>
    /\ running_job_list # <<>>
    /\ irq.cur = Head(running_job_list)

TypeInv == CoreTypeOK /\ IrqHoldsHead

\* list_del leaves a list of buffers.
LEMMA ListDelType ==
  ASSUME NEW s \in Seq(Bufs), NEW b
  PROVE  ListDel(s, b) \in Seq(Bufs)
<1>1. CASE \E i \in 1 .. Len(s) : s[i] = b
  <2> DEFINE k == CHOOSE i \in 1 .. Len(s) : s[i] = b
  <2>1. k \in 1 .. Len(s)
    BY <1>1
  <2> HIDE DEF k
  <2>2. SubSeq(s, 1, k - 1) \in Seq(Bufs)
    BY <2>1, SubSeqProperties, ElementOfSeq
  <2>3. SubSeq(s, k + 1, Len(s)) \in Seq(Bufs)
    BY <2>1, SubSeqProperties, ElementOfSeq
  <2>4. SubSeq(s, 1, k - 1) \o SubSeq(s, k + 1, Len(s)) \in Seq(Bufs)
    BY <2>2, <2>3, ConcatProperties
  <2> QED
    BY <1>1, <2>4 DEF ListDel, k
<1>2. CASE ~ \E i \in 1 .. Len(s) : s[i] = b
  BY <1>2 DEF ListDel
<1> QED
  BY <1>1, <1>2

\* Writing one field of a request keeps it a request.
LEMMA ReqSeqNoType ==
  ASSUME NEW q \in ReqRecord, NEW x \in Nat
  PROVE  [q EXCEPT !.frame_seq_no = x] \in ReqRecord
BY DEF ReqRecord

LEMMA ReqStampType ==
  ASSUME NEW q \in ReqRecord
  PROVE  [q EXCEPT !.timestamp = 1] \in ReqRecord
BY DEF ReqRecord

\* kfree leaves request-shaped memory behind.
LEMMA KfreeType ==
  ASSUME TypeInv, NEW s, Kfree(s)
  PROVE  heap' \subseteq Reqs /\ req' \in [Reqs -> ReqRecord]
BY DEF TypeInv, CoreTypeOK, Kfree, FreeReq, ReqRecord

\* A completed buffer stays a buffer of the queue.
LEMMA Vb2BufferDoneType ==
  ASSUME TypeInv, NEW c, c.buf \in Bufs => c \in Completion, Vb2BufferDone(c)
  PROVE  /\ vb' \in [Bufs -> {"dequeued", "queued", "active", "done"}]
         /\ done_list' \in Seq(Completion)
<1>1. /\ vb \in [Bufs -> {"dequeued", "queued", "active", "done"}]
      /\ done_list \in Seq(Completion)
  BY DEF TypeInv, CoreTypeOK
<1>2. CASE c.buf \in Bufs
  <2>1. Append(done_list, c) \in Seq(Completion)
    BY <1>1, <1>2, AppendProperties
  <2> QED
    BY <1>1, <1>2, <2>1 DEF Vb2BufferDone
<1>3. CASE c.buf \notin Bufs
  BY <1>1, <1>3 DEF Vb2BufferDone
<1> QED
  BY <1>2, <1>3

\* mtk_cam_dev_req_try_queue moves a prefix that exists.
LEMMA RoomType ==
  ASSUME TypeInv
  PROVE  Room \in 0 .. Len(pending_job_list)
BY JobsAssumption DEF TypeInv, CoreTypeOK, Room

\* Moving jobs keeps the types of everything it changes.
LEMMA MoveJobsType ==
  ASSUME TypeInv, MoveJobs
  PROVE  /\ running_job_count' \in Int
         /\ pending_job_list' \in Seq(Reqs)
         /\ running_job_list' \in Seq(Reqs)
         /\ enqueued_frame_seq_no' \in Nat
         /\ req' \in [Reqs -> ReqRecord]
         /\ composer_wq' \in Seq(Reqs)
         /\ heap' = heap
<1> DEFINE n == Room
           moved == SubSeq(pending_job_list, 1, n)
<1>1. n \in 0 .. Len(pending_job_list)
  BY RoomType
<1> HIDE DEF n
<1>2. moved \in Seq(Reqs)
  BY <1>1, SubSeqProperties, ElementOfSeq DEF TypeInv, CoreTypeOK
<1>3. SubSeq(pending_job_list, n + 1, Len(pending_job_list)) \in Seq(Reqs)
  BY <1>1, SubSeqProperties, ElementOfSeq DEF TypeInv, CoreTypeOK
<1>4. ASSUME NEW r \in Reqs, \E i \in 1 .. n : pending_job_list[i] = r
      PROVE  FrameSeqNo(CHOOSE i \in 1 .. n : pending_job_list[i] = r) \in Nat
  <2>1. (CHOOSE i \in 1 .. n : pending_job_list[i] = r) \in 1 .. n
    BY <1>4
  <2>2. enqueued_frame_seq_no \in Nat /\ n \in Nat
    BY <1>1 DEF TypeInv, CoreTypeOK
  <2> QED
    BY <2>1, <2>2 DEF FrameSeqNo
<1>5. req' \in [Reqs -> ReqRecord]
  <2>1. ASSUME NEW r \in Reqs
        PROVE  (IF \E i \in 1 .. n : pending_job_list[i] = r
                THEN [req[r] EXCEPT !.frame_seq_no =
                        FrameSeqNo(CHOOSE i \in 1 .. n : pending_job_list[i] = r)]
                ELSE req[r]) \in ReqRecord
    <3>1. req[r] \in ReqRecord
      BY DEF TypeInv, CoreTypeOK
    <3> QED
      BY <3>1, <1>4, ReqSeqNoType
  <2> QED
    BY <2>1 DEF MoveJobs, n
<1>6. /\ running_job_count \in Int
      /\ running_job_list \in Seq(Reqs)
      /\ enqueued_frame_seq_no \in Nat
      /\ composer_wq \in Seq(Reqs)
  BY DEF TypeInv, CoreTypeOK
<1>7. /\ running_job_count' = running_job_count + n
      /\ pending_job_list' =
           SubSeq(pending_job_list, n + 1, Len(pending_job_list))
      /\ running_job_list' = running_job_list \o moved
      /\ enqueued_frame_seq_no' = enqueued_frame_seq_no + n
      /\ composer_wq' = composer_wq \o moved
      /\ heap' = heap
  BY DEF MoveJobs, n
<1>8. running_job_list \o moved \in Seq(Reqs) /\ composer_wq \o moved \in Seq(Reqs)
  BY <1>2, <1>6, ConcatProperties
<1>9. n \in Nat
  BY <1>1
<1> HIDE DEF moved
<1> QED
  BY <1>3, <1>5, <1>6, <1>7, <1>8, <1>9

-----------------------------------------------------------------------------
\* Every step keeps the types, and the handler never completes through a
\* NULL request pointer.
LEMMA TypeStep == TypeInv /\ [Next]_vars => TypeInv'
<1> SUFFICES ASSUME TypeInv, [Next]_vars
             PROVE  TypeInv'
  OBVIOUS
<1>t. /\ vb \in [Bufs -> {"dequeued", "queued", "active", "done"}]
      /\ queued_list \in Seq(Bufs)
      /\ done_list \in Seq(Completion)
      /\ running_job_count \in Int
      /\ buf_list \in Seq(Bufs)
      /\ pending_job_list \in Seq(Reqs)
      /\ running_job_list \in Seq(Reqs)
      /\ heap \subseteq Reqs
      /\ req \in [Reqs -> ReqRecord]
      /\ composer_wq \in Seq(Reqs)
      /\ ioctl \in IoctlType
      /\ irq \in IrqType
      /\ scp \in ScpType
      /\ hw \in HwType
  BY DEF TypeInv, CoreTypeOK
<1>1. CASE Next
  <2>1. ASSUME NEW b \in Bufs, QBuf(b) PROVE TypeInv'
    <3>1. /\ <<b>> \in Seq(Bufs)
          /\ Append(queued_list, b) \in Seq(Bufs)
          /\ Append(buf_list, b) \in Seq(Bufs)
      BY <1>t, AppendProperties
    <3>2. ioctl' \in IoctlType
      <4>1. PICK t \in Seq(Bufs) :
              \/ ioctl' = ioctl
              \/ ioctl' = [pc |-> "enq", op |-> "qbuf", todo |-> t]
              \/ ioctl' = [pc |-> "corrupt", op |-> "qbuf", todo |-> t]
        <5>1. <<>> \in Seq(Bufs)
          BY EmptySeq
        <5> QED
          BY <2>1, <3>1, <5>1 DEF QBuf
      <4> QED
        BY <1>t, <4>1 DEF IoctlType, IoctlPC
    <3>3. /\ vb' \in [Bufs -> {"dequeued", "queued", "active", "done"}]
          /\ queued_list' \in Seq(Bufs)
          /\ buf_list' \in Seq(Bufs)
      BY <1>t, <2>1, <3>1 DEF QBuf
    <3> QED
      BY <2>1, <3>2, <3>3 DEF QBuf, TypeInv, CoreTypeOK, IrqHoldsHead,
         jobVars, seqVars
  <2>2. CASE DQBuf
    <3>1. Tail(done_list) \in Seq(Completion)
      BY <1>t, <2>2, HeadTailProperties DEF DQBuf
    <3>2. vb' \in [Bufs -> {"dequeued", "queued", "active", "done"}]
      BY <1>t, <2>2 DEF DQBuf
    <3> QED
      BY <2>2, <3>1, <3>2 DEF DQBuf, TypeInv, CoreTypeOK, IrqHoldsHead,
         jobVars, seqVars
  <2>3. CASE StreamOn
    <3>1. buf_list \o queued_list \in Seq(Bufs)
      BY <1>t, ConcatProperties
    <3>2. ioctl' \in IoctlType
      BY <2>3, <3>1 DEF StreamOn, IoctlType, IoctlPC
    <3>3. hw' \in HwType
      <4>1. HwReset \in HwType /\ hw.state \in {"off", "idle", "frame", "last"}
        BY <1>t, JobsAssumption DEF HwReset, HwType
      <4> HIDE DEF HwReset
      <4> QED
        BY <2>3, <4>1 DEF StreamOn, HwType
    <3>4. scp' \in ScpType
      BY <2>3 DEF StreamOn, ScpIdle, ScpType
    <3>5. vb' \in [Bufs -> {"dequeued", "queued", "active", "done"}]
      BY <1>t, <2>3 DEF StreamOn
    <3> QED
      BY <2>3, <3>1, <3>2, <3>3, <3>4, <3>5 DEF StreamOn, TypeInv, CoreTypeOK,
         IrqHoldsHead
  <2>4. CASE StreamOff
    <3>1. ioctl' \in IoctlType
      BY <1>t, <2>4 DEF StreamOff, IoctlType, IoctlPC
    <3>2. hw' \in HwType
      <4>1. PICK x \in {"off", "last"} : hw' = [hw EXCEPT !.state = x] \/ hw' = hw
        BY <2>4 DEF StreamOff
      <4> QED
        BY <1>t, <4>1 DEF HwType
    <3> QED
      BY <2>4, <3>1, <3>2 DEF StreamOff, TypeInv, CoreTypeOK, IrqHoldsHead,
         vb2Vars, jobVars, seqVars
  <2>5. ASSUME NEW r \in Reqs, EnqueueNoRequest(r) PROVE TypeInv'
    <3>1. Head(ioctl.todo) \in Bufs /\ Tail(ioctl.todo) \in Seq(Bufs)
      BY <1>t, <2>5, HeadTailProperties DEF EnqueueNoRequest, IoctlType
    <3>2. ioctl' \in IoctlType
      <4>1. ioctl' = [ioctl EXCEPT !.pc = "try", !.todo = Tail(ioctl.todo)]
        BY <2>5 DEF EnqueueNoRequest
      <4> QED
        BY <1>t, <3>1, <4>1 DEF IoctlType, IoctlPC
    <3>3. Append(pending_job_list, r) \in Seq(Reqs)
      BY <1>t, AppendProperties
    <3>4. req' \in [Reqs -> ReqRecord]
      BY <1>t, <2>5, <3>1 DEF EnqueueNoRequest, ReqRecord
    <3> QED
      BY <2>5, <3>2, <3>3, <3>4 DEF EnqueueNoRequest, TypeInv, CoreTypeOK,
         IrqHoldsHead, vb2Vars, seqVars
  <2>6. CASE EnqueueNoMemory
    <3>1. Head(ioctl.todo) \in Bufs /\ Tail(ioctl.todo) \in Seq(Bufs)
      BY <1>t, <2>6, HeadTailProperties DEF EnqueueNoMemory, IoctlType
    <3>2. ioctl' \in IoctlType
      <4>1. ioctl' = [ioctl EXCEPT !.todo = Tail(ioctl.todo)]
        BY <2>6 DEF EnqueueNoMemory
      <4> QED
        BY <1>t, <3>1, <4>1 DEF IoctlType
    <3> DEFINE c == [buf |-> Head(ioctl.todo), state |-> "error",
                     sequence |-> 0, timestamp |-> 0]
    <3>3. c \in Completion
      BY <3>1 DEF Completion
    <3>4. Vb2BufferDone(c)
      BY <2>6 DEF EnqueueNoMemory
    <3> HIDE DEF c
    <3>5. /\ vb' \in [Bufs -> {"dequeued", "queued", "active", "done"}]
          /\ done_list' \in Seq(Completion)
      BY <3>3, <3>4, Vb2BufferDoneType
    <3> QED
      BY <2>6, <3>2, <3>5 DEF EnqueueNoMemory, TypeInv, CoreTypeOK, IrqHoldsHead,
         jobVars, seqVars
  <2>7. CASE IoctlTryQueue
    <3>1. ioctl' \in IoctlType
      BY <2>7 DEF IoctlTryQueue, TypeInv, CoreTypeOK, IoctlType, IoctlPC, IoctlIdle
    <3> QED
      BY <3>1, <2>7 DEF IoctlTryQueue, TypeInv, CoreTypeOK,
         IrqHoldsHead, vb2Vars, jobVars, seqVars
  <2>8. CASE IoctlMoveJobs
    <3>1. ioctl' \in IoctlType
      BY <2>8 DEF IoctlMoveJobs, TypeInv, CoreTypeOK, IoctlType, IoctlPC, IoctlIdle
    <3>2. IrqHoldsHead'
      BY <2>8 DEF IoctlMoveJobs, RunningLockFree, IrqHoldsHead
    <3> QED
      BY MoveJobsType, <3>1, <3>2, <2>8 DEF IoctlMoveJobs, TypeInv, CoreTypeOK,
         IrqHoldsHead, vb2Vars, jobVars, seqVars
  <2>9. CASE EnqueueDone
    <3>1. ioctl' \in IoctlType
      BY <2>9 DEF EnqueueDone, TypeInv, CoreTypeOK, IoctlType, IoctlPC, IoctlIdle
    <3> QED
      BY <3>1, <2>9 DEF EnqueueDone, TypeInv, CoreTypeOK,
         IrqHoldsHead, vb2Vars, jobVars, seqVars
  <2>10. CASE SStreamOn
    <3>1. ioctl' \in IoctlType
      BY <1>t, <2>10 DEF SStreamOn, IoctlType, IoctlPC
    <3>2. hw' \in HwType
      <4>1. hw' = [hw EXCEPT !.state = "idle"] \/ hw' = hw
        BY <2>10 DEF SStreamOn
      <4> QED
        BY <1>t, <4>1 DEF HwType
    <3> QED
      BY <2>10, <3>1, <3>2 DEF SStreamOn, TypeInv, CoreTypeOK, IrqHoldsHead,
         vb2Vars, jobVars, seqVars
  <2>11. CASE SStreamOnFails
    <3>1. ioctl' \in IoctlType
      BY <2>11 DEF SStreamOnFails, TypeInv, CoreTypeOK, IoctlType, IoctlPC, IoctlIdle
    <3> QED
      BY <3>1, <2>11 DEF SStreamOnFails, TypeInv, CoreTypeOK,
         IrqHoldsHead, vb2Vars, jobVars, seqVars
  <2>12. CASE StreamOffIpi
    <3>1. ioctl' \in IoctlType
      BY <2>12 DEF StreamOffIpi, TypeInv, CoreTypeOK, IoctlType, IoctlPC, IoctlIdle
    <3>2. hw' \in HwType
      BY JobsAssumption, <2>12 DEF StreamOffIpi, TypeInv, CoreTypeOK, HwType, HwReset, CqSlot
    <3> QED
      BY <3>1, <3>2, <2>12 DEF StreamOffIpi, TypeInv, CoreTypeOK,
         IrqHoldsHead, vb2Vars, jobVars, seqVars
  <2>13. CASE DestroyWorkqueue
    <3>1. ioctl' \in IoctlType
      BY <2>13 DEF DestroyWorkqueue, TypeInv, CoreTypeOK, IoctlType, IoctlPC, IoctlIdle
    <3>2. scp' \in ScpType
      BY <2>13 DEF DestroyWorkqueue, TypeInv, CoreTypeOK, ScpType, ScpIdle, ReqRecord
    <3> QED
      BY <3>1, <3>2, <2>13 DEF DestroyWorkqueue, TypeInv, CoreTypeOK,
         IrqHoldsHead, vb2Vars, jobVars, seqVars
  <2>14. CASE ReturnAllBuffers
    <3>1. ioctl' \in IoctlType
      BY <2>14 DEF ReturnAllBuffers, TypeInv, CoreTypeOK, IoctlType, IoctlPC, IoctlIdle
    <3> QED
      BY <3>1, <2>14 DEF ReturnAllBuffers, TypeInv, CoreTypeOK,
         IrqHoldsHead, vb2Vars, jobVars, seqVars
  <2>15. CASE CleanPending
    <3>1. ioctl' \in IoctlType
      BY <2>15 DEF CleanPending, TypeInv, CoreTypeOK, IoctlType, IoctlPC, IoctlIdle
    <3> QED
      BY <3>1, <2>15 DEF CleanPending, TypeInv, CoreTypeOK,
         IrqHoldsHead, vb2Vars, jobVars, seqVars, Kfree, FreeReq, ReqRecord
  <2>16. CASE CleanRunning
    <3>1. ioctl' \in IoctlType
      BY <2>16 DEF CleanRunning, TypeInv, CoreTypeOK, IoctlType, IoctlPC, IoctlIdle
    <3>2. IrqHoldsHead'
      BY <2>16 DEF CleanRunning, RunningLockFree, IrqHoldsHead
    <3> QED
      BY <3>1, <3>2, <2>16 DEF CleanRunning, TypeInv, CoreTypeOK,
         IrqHoldsHead, vb2Vars, jobVars, seqVars, Kfree, FreeReq, ReqRecord
  <2>17. CASE Vb2Cancel
    <3>1. ioctl' \in IoctlType
      BY <2>17 DEF Vb2Cancel, TypeInv, CoreTypeOK, IoctlType, IoctlPC, IoctlIdle
    <3> QED
      BY <3>1, <2>17 DEF Vb2Cancel, TypeInv, CoreTypeOK,
         IrqHoldsHead, vb2Vars, jobVars, seqVars
  <2>18. CASE IrqEnter
    <3>1. irq' \in IrqType /\ irq'.pc = "event"
      BY <1>t, <2>18 DEF IrqEnter, IrqType, IrqPC, HwType
    <3>2. hw' \in HwType
      BY <1>t, <2>18 DEF IrqEnter, HwType
    <3> QED
      BY <2>18, <3>1, <3>2 DEF IrqEnter, TypeInv, CoreTypeOK, IrqHoldsHead,
         vb2Vars, jobVars, seqVars
  <2>19. CASE IrqEvent
    <3>1. irq' \in IrqType
      BY <2>19 DEF IrqEvent, TypeInv, CoreTypeOK, IrqType, IrqPC, IrqIdle
    <3>2. IrqHoldsHead'
      BY <2>19 DEF IrqEvent, TypeInv, CoreTypeOK, IrqHoldsHead, IrqType, IrqPC,
         jobVars
    <3> QED
      BY <3>1, <3>2, <2>19 DEF IrqEvent, TypeInv, CoreTypeOK,
         IrqHoldsHead, vb2Vars, jobVars, seqVars
  <2>20. CASE IrqScan
    <3> DEFINE r == Head(running_job_list)
    <3>1. r \in Reqs /\ Tail(running_job_list) \in Seq(Reqs)
      BY <1>t, <2>20, HeadTailProperties DEF IrqScan
    <3>2. PICK x \in {"try", "scan"} :
            \/ /\ irq' = [irq EXCEPT !.pc = "del", !.cur = r]
               /\ UNCHANGED <<running_job_list, heap, req>>
            \/ /\ irq' = [irq EXCEPT !.pc = x]
               /\ running_job_list' = Tail(running_job_list)
               /\ Kfree(<<r>>)
      BY <2>20 DEF IrqScan
    <3> HIDE DEF r
    <3>3. irq' \in IrqType /\ IrqHoldsHead'
      BY <1>t, <2>20, <3>1, <3>2 DEF IrqScan, IrqType, IrqPC, IrqHoldsHead, r
    <3>4. /\ running_job_list' \in Seq(Reqs)
          /\ heap' \subseteq Reqs
          /\ req' \in [Reqs -> ReqRecord]
      BY <1>t, <3>1, <3>2, KfreeType
    <3>5. running_job_count' \in Int
      BY <1>t, <2>20 DEF IrqScan
    <3> QED
      BY <2>20, <3>3, <3>4, <3>5 DEF IrqScan, TypeInv, CoreTypeOK, IrqHoldsHead,
         vb2Vars, seqVars
  <2>21. CASE IrqScanEnd
    <3>1. irq' \in IrqType
      BY <2>21 DEF IrqScanEnd, TypeInv, CoreTypeOK, IrqType, IrqPC, IrqIdle
    <3>2. IrqHoldsHead'
      BY <2>21 DEF IrqScanEnd, TypeInv, CoreTypeOK, IrqHoldsHead, IrqType, IrqPC,
         jobVars
    <3> QED
      BY <3>1, <3>2, <2>21 DEF IrqScanEnd, TypeInv, CoreTypeOK,
         IrqHoldsHead, vb2Vars, jobVars, seqVars
  <2>22. CASE IrqDel
    <3>1. irq' \in IrqType
      BY <2>22 DEF IrqDel, TypeInv, CoreTypeOK, IrqType, IrqPC, IrqIdle
    <3>2. IrqHoldsHead'
      BY <2>22 DEF IrqDel, TypeInv, CoreTypeOK, IrqHoldsHead, IrqType, IrqPC,
         jobVars
    <3> QED
      BY ListDelType, <3>1, <3>2, <2>22 DEF IrqDel, TypeInv, CoreTypeOK,
         IrqHoldsHead, vb2Vars, jobVars, seqVars
  <2>23. CASE IrqDone
    <3> DEFINE q == req[irq.cur]
               c == [buf |-> q.sbuf,
                     state |-> IF q.frame_seq_no = dequeued_frame_seq_no
                               THEN "done" ELSE "error",
                     sequence |-> Sequence(q), timestamp |-> q.timestamp]
    <3>1. irq.cur \in Reqs
      BY <1>t, <2>23, HeadTailProperties DEF IrqDone, TypeInv, IrqHoldsHead
    <3>2. c \in Completion
      BY <1>t, <3>1 DEF Completion, ReqRecord, Sequence
    <3>3. Vb2BufferDone(c)
      BY <2>23 DEF IrqDone
    <3>4. irq' \in IrqType /\ irq'.pc \in {"try", "scan"}
      <4>1. PICK x \in {"try", "scan"} : irq' = [irq EXCEPT !.pc = x, !.cur = NoReq]
        BY <2>23 DEF IrqDone
      <4> QED
        BY <1>t, <4>1 DEF IrqType, IrqPC
    <3> HIDE DEF c
    <3>5. /\ vb' \in [Bufs -> {"dequeued", "queued", "active", "done"}]
          /\ done_list' \in Seq(Completion)
      BY <3>2, <3>3, Vb2BufferDoneType
    <3>6. heap' \subseteq Reqs /\ req' \in [Reqs -> ReqRecord]
      BY <2>23, KfreeType DEF IrqDone
    <3>7. running_job_list' \in Seq(Reqs)
      BY <1>t, <2>23, HeadTailProperties DEF IrqDone, TypeInv, IrqHoldsHead
    <3> QED
      BY <2>23, <3>4, <3>5, <3>6, <3>7 DEF IrqDone, TypeInv, CoreTypeOK, IrqHoldsHead,
         seqVars
  <2>24. CASE IrqTryQueue
    <3>1. irq' \in IrqType
      BY <2>24 DEF IrqTryQueue, TypeInv, CoreTypeOK, IrqType, IrqPC, IrqIdle
    <3>2. IrqHoldsHead'
      BY <2>24 DEF IrqTryQueue, TypeInv, CoreTypeOK, IrqHoldsHead, IrqType, IrqPC,
         jobVars
    <3> QED
      BY <3>1, <3>2, <2>24 DEF IrqTryQueue, TypeInv, CoreTypeOK,
         IrqHoldsHead, vb2Vars, jobVars, seqVars
  <2>25. CASE IrqMoveJobs
    <3>1. irq' \in IrqType
      BY <2>25 DEF IrqMoveJobs, TypeInv, CoreTypeOK, IrqType, IrqPC, IrqIdle
    <3>2. IrqHoldsHead'
      BY <2>25 DEF IrqMoveJobs, TypeInv, CoreTypeOK, IrqHoldsHead, IrqType, IrqPC,
         jobVars
    <3> QED
      BY MoveJobsType, <3>1, <3>2, <2>25 DEF IrqMoveJobs, TypeInv, CoreTypeOK,
         IrqHoldsHead, vb2Vars, jobVars, seqVars
  <2>26. CASE IrqSof
    <3> DEFINE found == {i \in 1 .. Len(running_job_list) :
                           req[running_job_list[i]].frame_seq_no = irq.seq}
    <3>1. CASE "SOF" \notin irq.bits
      <4>1. irq' \in IrqType /\ irq'.pc = "idle"
        BY <2>26, <3>1 DEF IrqSof, IrqIdle, IrqType, IrqPC
      <4> QED
        BY <2>26, <3>1, <4>1 DEF IrqSof, TypeInv, CoreTypeOK, IrqHoldsHead,
         vb2Vars, jobVars
    <3>2. CASE "SOF" \in irq.bits
      <4>1. found # {} => (CHOOSE i \in found : TRUE) \in 1 .. Len(running_job_list)
        <5>1. found # {} => (CHOOSE i \in found : TRUE) \in found
          OBVIOUS
        <5> QED
          BY <5>1
      <4>2. found # {} => running_job_list[CHOOSE i \in found : TRUE] \in Reqs
        BY <1>t, <4>1, ElementOfSeq
      <4>3. PICK x \in Reqs \cup {NoReq} : irq' = [irq EXCEPT !.pc = "stamp", !.cur = x]
        BY <2>26, <3>2, <4>2 DEF IrqSof
      <4>4. irq' \in IrqType /\ irq'.pc = "stamp" /\ irq.seq \in Nat
        BY <1>t, <4>3 DEF IrqType, IrqPC
      <4>5. dequeued_frame_seq_no' = irq.seq
        BY <2>26, <3>2 DEF IrqSof
      <4> QED
        BY <2>26, <4>4, <4>5 DEF IrqSof, TypeInv, CoreTypeOK, IrqHoldsHead,
         vb2Vars, jobVars
    <3> QED
      BY <3>1, <3>2
  <2>27. CASE IrqStamp
    <3>1. irq' \in IrqType /\ irq'.pc = "idle"
      BY <2>27 DEF IrqStamp, IrqIdle, IrqType, IrqPC
    <3>2. hw' \in HwType
      <4>1. irq.seq \in Nat /\ hw.base \in 0 .. CqCount - 1
        BY <1>t DEF IrqType, HwType
      <4>2. CqSlot(irq.seq) \in 0 .. CqCount - 1
        BY <4>1, JobsAssumption DEF CqSlot
      <4>3. PICK x \in 0 .. CqCount - 1 : hw' = [hw EXCEPT !.base = x]
        BY <2>27, <4>1, <4>2 DEF IrqStamp
      <4> QED
        BY <1>t, <4>3 DEF HwType
    <3>3. req' \in [Reqs -> ReqRecord]
      BY <1>t, <2>27, ReqStampType DEF IrqStamp
    <3> QED
      BY <2>27, <3>1, <3>2, <3>3 DEF IrqStamp, TypeInv, CoreTypeOK, IrqHoldsHead,
         vb2Vars, seqVars
  <2>28. CASE TxFrameWorker
    <3>1. Head(composer_wq) \in Reqs /\ Tail(composer_wq) \in Seq(Reqs)
      BY <1>t, <2>28, HeadTailProperties DEF TxFrameWorker
    <3>2. req[Head(composer_wq)].frame_seq_no \in Nat /\ scp.inbox \in Seq(Nat)
      BY <1>t, <3>1 DEF ReqRecord, ScpType
    <3>3. Append(scp.inbox, req[Head(composer_wq)].frame_seq_no) \in Seq(Nat)
      BY <3>2, AppendProperties
    <3>4. scp' \in ScpType
      BY <1>t, <2>28, <3>3 DEF TxFrameWorker, ScpType
    <3> QED
      BY <2>28, <3>1, <3>4 DEF TxFrameWorker, TypeInv, CoreTypeOK, IrqHoldsHead, vb2Vars,
         seqVars
  <2>29. CASE ScpCompose
    <3> DEFINE s == Head(scp.inbox)
    <3>1. s \in Nat /\ Tail(scp.inbox) \in Seq(Nat) /\ scp.acks \in Seq(Nat)
      BY <1>t, <2>29, HeadTailProperties DEF ScpCompose, ScpType
    <3>2. scp' = [inbox |-> Tail(scp.inbox), acks |-> Append(scp.acks, s)]
      BY <2>29 DEF ScpCompose
    <3>3. hw' = [hw EXCEPT !.cq[(s - 1) % CqCount] = s]
      BY <2>29 DEF ScpCompose
    <3> HIDE DEF s
    <3>4. Append(scp.acks, s) \in Seq(Nat)
      BY <3>1, AppendProperties
    <3>5. scp' \in ScpType
      BY <3>1, <3>2, <3>4 DEF ScpType
    <3>6. hw' \in HwType
      BY <1>t, <3>1, <3>3 DEF HwType
    <3> QED
      BY <2>29, <3>5, <3>6 DEF ScpCompose, TypeInv, CoreTypeOK, IrqHoldsHead,
         vb2Vars, jobVars, seqVars
  <2>30. CASE ComposerAck
    <3>1. Head(scp.acks) \in Nat /\ Tail(scp.acks) \in Seq(Nat)
      BY <1>t, <2>30, HeadTailProperties DEF ComposerAck, ScpType
    <3>2. scp' \in ScpType
      BY <1>t, <2>30, <3>1 DEF ComposerAck, ScpType
    <3> QED
      BY <2>30, <3>1, <3>2 DEF ComposerAck, TypeInv, CoreTypeOK, IrqHoldsHead,
         vb2Vars, jobVars
  <2>31. CASE HwSof
    <3>1. hw' \in HwType
      BY JobsAssumption, <2>31 DEF HwSof, TypeInv, CoreTypeOK, HwType, HwReset, CqSlot
    <3> QED
      BY <3>1, <2>31 DEF HwSof, TypeInv, CoreTypeOK,
         IrqHoldsHead, vb2Vars, jobVars, seqVars
  <2>32. CASE HwDone
    <3>1. hw' \in HwType
      BY JobsAssumption, <2>32 DEF HwDone, TypeInv, CoreTypeOK, HwType, HwReset, CqSlot
    <3> QED
      BY <3>1, <2>32 DEF HwDone, TypeInv, CoreTypeOK,
         IrqHoldsHead, vb2Vars, jobVars, seqVars
  <2> QED
    BY <1>1, <2>1, <2>2, <2>3, <2>4, <2>5, <2>6, <2>7, <2>8, <2>9, <2>10, <2>11, <2>12, <2>13, <2>14, <2>15, <2>16, <2>17, <2>18, <2>19, <2>20, <2>21, <2>22, <2>23, <2>24, <2>25, <2>26, <2>27, <2>28, <2>29, <2>30, <2>31, <2>32
    DEF Next, User, IoctlStep, IrqStep
<1>2. CASE UNCHANGED vars
  BY <1>2 DEF vars, sysVars, vb2Vars, jobVars, seqVars, TypeInv, CoreTypeOK, IrqHoldsHead
<1> QED
  BY <1>1, <1>2

\* The type invariant holds in every behaviour, for every choice of constants
\* and faults: in particular job_done is never called without a request.
THEOREM TypeCorrect == Spec => []CamJobsTypeOK
<1>1. Init => TypeInv
  BY JobsAssumption DEF Init, TypeInv, CoreTypeOK, IoctlIdle, IrqIdle, ScpIdle,
     HwReset, FreeReq, ReqRecord, IoctlPC, IrqPC, IoctlType, IrqType, ScpType,
     HwType, IrqHoldsHead
<1>2. Init => faults \in FaultSets
  BY DEF Init
<1>3. faults \in FaultSets /\ [Next]_vars => (faults \in FaultSets)'
  BY DEF Next, vars
<1>4. TypeInv /\ faults \in FaultSets => CamJobsTypeOK
  BY DEF TypeInv, CamJobsTypeOK
<1> QED
  BY <1>1, <1>2, <1>3, <1>4, TypeStep, PTL DEF Spec

-----------------------------------------------------------------------------
(***************************************************************************)
(* The job count.  JobsBounded is not inductive: the count is reset by     *)
(* STREAMON and left stale by STREAMOFF, so what the lists hold between    *)
(* two sessions has to be known, and for that the phases of an ioctl.      *)
(***************************************************************************)

\* The phases of the ioctl context and the vb2 state they run under.
IoctlPhases ==
  /\ ioctl.op = "none" =>
       \/ ioctl.pc = "idle"
       \/ /\ ioctl.pc \in {"ipi", "destroy", "return", "clean_pending",
                          "clean_running", "cancel"}
          /\ vbq_streaming = 1
  /\ ioctl.op = "qbuf" =>
       ioctl.pc \in {"enq", "try", "move", "corrupt"} /\ vbq_streaming = 1
  /\ ioctl.op = "start" =>
       ioctl.pc \in {"enq", "try", "move", "s_stream"} /\ vbq_streaming = 0
  /\ ioctl.op = "on" => ioctl.pc \in {"enq", "try", "move"} /\ vbq_streaming = 0

\* Nothing runs between two sessions, and nothing can start to: either the
\* clean-up emptied the pending list, or STREAMON failed with the ISP off.
NothingRuns ==
  /\ ~InSession =>
       /\ running_job_list = <<>>
       /\ pending_job_list = <<>> \/ (streaming = 0 /\ irq.pc # "move")
  /\ ioctl.op = "start" /\ streaming = 0 =>
       running_job_list = <<>> /\ "move" \notin {irq.pc, ioctl.pc}
  /\ ioctl.pc = "clean_running" => pending_job_list = <<>>

CountInv == TypeInv /\ IoctlPhases /\ NothingRuns /\ CountExact

\* What moving jobs does to the count: the limit holds afterwards and the
\* count grows by the length the running list grows by.
LEMMA MoveJobsCount ==
  ASSUME CountInv, MoveJobs, Leaving = 0
  PROVE  /\ running_job_count' - running_job_count =
              Len(running_job_list') - Len(running_job_list)
         /\ InSession => Len(running_job_list') <= MaxRunning
         /\ pending_job_list = <<>> =>
              pending_job_list' = <<>> /\ running_job_list' = running_job_list
<1> DEFINE n == Room
           moved == SubSeq(pending_job_list, 1, n)
<1>1. n \in 0 .. Len(pending_job_list)
  BY RoomType DEF CountInv
<1>2. /\ running_job_count \in Int
      /\ pending_job_list \in Seq(Reqs)
      /\ running_job_list \in Seq(Reqs)
      /\ MaxRunning \in Nat
  BY JobsAssumption DEF CountInv, TypeInv, CoreTypeOK
<1>3. n = 0 \/ n <= MaxRunning - running_job_count
  BY <1>2 DEF Room
<1>4. /\ running_job_count' = running_job_count + n
      /\ running_job_list' = running_job_list \o moved
      /\ pending_job_list' = SubSeq(pending_job_list, n + 1, Len(pending_job_list))
  BY DEF MoveJobs
<1> HIDE DEF n
<1>5. moved \in Seq(Reqs) /\ Len(moved) = n
  BY <1>1, <1>2, SubSeqProperties, ElementOfSeq
<1>6. Len(running_job_list') = Len(running_job_list) + n
  BY <1>2, <1>4, <1>5, ConcatProperties
<1>7. InSession => Len(running_job_list') <= MaxRunning
  BY <1>1, <1>2, <1>3, <1>6 DEF CountInv, CountExact
<1>8. ASSUME pending_job_list = <<>>
      PROVE  pending_job_list' = <<>> /\ running_job_list' = running_job_list
  <2>1. n = 0
    BY <1>1, <1>8
  <2>2. moved = <<>> /\ pending_job_list' = <<>>
    BY <1>4, <1>8, <2>1, SubSeqProperties
  <2> QED
    BY <1>2, <1>4, <2>2, ConcatEmptySeq
<1> QED
  BY <1>1, <1>2, <1>4, <1>6, <1>7, <1>8

\* Every step keeps the invariant when a handler is over before the SCP
\* answers.
LEMMA CountStep ==
  ASSUME "slowirq" \notin faults, CountInv, [Next]_vars
  PROVE  CountInv'
<1>ty. TypeInv'
  BY TypeStep DEF CountInv
<1>t. /\ running_job_count \in Int
      /\ MaxRunning \in Nat \ {0}
      /\ pending_job_list \in Seq(Reqs)
      /\ running_job_list \in Seq(Reqs)
      /\ streaming \in {0, 1} /\ vbq_streaming \in {0, 1}
      /\ ioctl \in IoctlType /\ irq \in IrqType
  BY JobsAssumption DEF CountInv, TypeInv, CoreTypeOK
<1> USE DEF CountInv, IoctlPhases, NothingRuns, CountExact, InSession, Leaving
<1>1. CASE \E b \in Bufs : QBuf(b)
  BY <1>ty, <1>t, <1>1 DEF QBuf, IoctlType, IrqType, IoctlIdle, IrqIdle,
     IrqPrompt, RunningLockFree, vb2Vars, jobVars, seqVars
<1>2. CASE DQBuf
  BY <1>ty, <1>t, <1>2 DEF DQBuf, IoctlType, IrqType, IoctlIdle, IrqIdle,
     IrqPrompt, RunningLockFree, vb2Vars, jobVars, seqVars
<1>3. CASE StreamOn
  BY <1>ty, <1>t, <1>3 DEF StreamOn, IoctlType, IrqType, IoctlIdle, IrqIdle,
     IrqPrompt, RunningLockFree, vb2Vars, jobVars, seqVars
<1>4. CASE StreamOff
  BY <1>ty, <1>t, <1>4 DEF StreamOff, IoctlType, IrqType, IoctlIdle, IrqIdle,
     IrqPrompt, RunningLockFree, vb2Vars, jobVars, seqVars
<1>5. CASE \E r \in Reqs : EnqueueNoRequest(r)
  BY <1>ty, <1>t, <1>5 DEF EnqueueNoRequest, IoctlType, IrqType, IoctlIdle, IrqIdle,
     IrqPrompt, RunningLockFree, vb2Vars, jobVars, seqVars
<1>6. CASE EnqueueNoMemory
  BY <1>ty, <1>t, <1>6 DEF EnqueueNoMemory, IoctlType, IrqType, IoctlIdle, IrqIdle,
     IrqPrompt, RunningLockFree, vb2Vars, jobVars, seqVars
<1>7. CASE IoctlTryQueue
  BY <1>ty, <1>t, <1>7 DEF IoctlTryQueue, IoctlType, IrqType, IoctlIdle, IrqIdle,
     IrqPrompt, RunningLockFree, vb2Vars, jobVars, seqVars
<1>8. CASE IoctlMoveJobs
  <2>1. Leaving = 0 /\ InSession
    BY <1>t, <1>8 DEF IoctlMoveJobs, RunningLockFree, IoctlType
  <2>2. /\ running_job_count' - running_job_count =
             Len(running_job_list') - Len(running_job_list)
        /\ Len(running_job_list') <= MaxRunning
    BY <2>1, <1>8, MoveJobsCount DEF IoctlMoveJobs
  <2>3. running_job_count' \in Int /\ running_job_list' \in Seq(Reqs)
    BY <1>ty DEF TypeInv, CoreTypeOK
  <2>4. /\ ioctl' = [ioctl EXCEPT !.pc = "enq"] /\ ioctl.pc = "move"
        /\ UNCHANGED <<irq, streaming, vbq_streaming>>
    BY <1>8 DEF IoctlMoveJobs, vb2Vars
  <2> QED
    BY <1>ty, <1>t, <2>1, <2>2, <2>3, <2>4 DEF IoctlType, IrqType
<1>9. CASE EnqueueDone
  BY <1>ty, <1>t, <1>9 DEF EnqueueDone, IoctlType, IrqType, IoctlIdle, IrqIdle,
     IrqPrompt, RunningLockFree, vb2Vars, jobVars, seqVars
<1>10. CASE SStreamOn
  BY <1>ty, <1>t, <1>10 DEF SStreamOn, IoctlType, IrqType, IoctlIdle, IrqIdle,
     IrqPrompt, RunningLockFree, vb2Vars, jobVars, seqVars
<1>11. CASE SStreamOnFails
  BY <1>ty, <1>t, <1>11 DEF SStreamOnFails, IoctlType, IrqType, IoctlIdle, IrqIdle,
     IrqPrompt, RunningLockFree, vb2Vars, jobVars, seqVars
<1>12. CASE StreamOffIpi
  BY <1>ty, <1>t, <1>12 DEF StreamOffIpi, IoctlType, IrqType, IoctlIdle, IrqIdle,
     IrqPrompt, RunningLockFree, vb2Vars, jobVars, seqVars
<1>13. CASE DestroyWorkqueue
  BY <1>ty, <1>t, <1>13 DEF DestroyWorkqueue, IoctlType, IrqType, IoctlIdle, IrqIdle,
     IrqPrompt, RunningLockFree, vb2Vars, jobVars, seqVars
<1>14. CASE ReturnAllBuffers
  BY <1>ty, <1>t, <1>14 DEF ReturnAllBuffers, IoctlType, IrqType, IoctlIdle, IrqIdle,
     IrqPrompt, RunningLockFree, vb2Vars, jobVars, seqVars
<1>15. CASE CleanPending
  BY <1>ty, <1>t, <1>15 DEF CleanPending, IoctlType, IrqType, IoctlIdle, IrqIdle,
     IrqPrompt, RunningLockFree, vb2Vars, jobVars, seqVars
<1>16. CASE CleanRunning
  BY <1>ty, <1>t, <1>16 DEF CleanRunning, IoctlType, IrqType, IoctlIdle, IrqIdle,
     IrqPrompt, RunningLockFree, vb2Vars, jobVars, seqVars
<1>17. CASE Vb2Cancel
  BY <1>ty, <1>t, <1>17 DEF Vb2Cancel, IoctlType, IrqType, IoctlIdle, IrqIdle,
     IrqPrompt, RunningLockFree, vb2Vars, jobVars, seqVars
<1>18. CASE IrqEnter
  BY <1>ty, <1>t, <1>18 DEF IrqEnter, IoctlType, IrqType, IoctlIdle, IrqIdle,
     IrqPrompt, RunningLockFree, vb2Vars, jobVars, seqVars
<1>19. CASE IrqEvent
  BY <1>ty, <1>t, <1>19 DEF IrqEvent, IoctlType, IrqType, IoctlIdle, IrqIdle,
     IrqPrompt, RunningLockFree, vb2Vars, jobVars, seqVars
<1>20. CASE IrqScan
  <2>1. /\ running_job_list # <<>> /\ irq.pc = "scan"
        /\ running_job_count' = running_job_count - 1
        /\ UNCHANGED <<ioctl, streaming, vbq_streaming, pending_job_list>>
    BY <1>20 DEF IrqScan, vb2Vars
  <2>2. Len(Tail(running_job_list)) = Len(running_job_list) - 1
    BY <1>t, <2>1, HeadTailProperties
  <2>3. \/ irq'.pc = "del" /\ running_job_list' = running_job_list
        \/ /\ irq'.pc \in {"try", "scan"}
           /\ running_job_list' = Tail(running_job_list)
    BY <1>t, <1>20 DEF IrqScan, IrqType
  <2>4. InSession /\ InSession' = InSession
    BY <2>1
  <2>5. Len(running_job_list) \in Nat /\ Len(running_job_list) <= MaxRunning
    BY <1>t
  <2>50. running_job_count = Len(running_job_list)
    BY <1>t, <2>1, <2>4
  <2>51. running_job_count' = Len(running_job_list)' - Leaving'
    <3>1. CASE irq'.pc = "del" /\ running_job_list' = running_job_list
      BY <1>t, <2>1, <2>50, <3>1
    <3>2. CASE irq'.pc \in {"try", "scan"} /\ running_job_list' = Tail(running_job_list)
      <4>1. Leaving' = 0
        BY <3>2
      <4>2. Len(running_job_list)' = Len(running_job_list) - 1
        BY <2>2, <3>2
      <4> QED
        BY <2>1, <2>5, <2>50, <4>1, <4>2
    <3> QED
      BY <2>3, <3>1, <3>2
  <2>6. CountExact'
    <3>1. Len(running_job_list)' <= MaxRunning
      <4>1. \/ Len(running_job_list)' = Len(running_job_list)
            \/ Len(running_job_list)' = Len(running_job_list) - 1
        BY <2>2, <2>3
      <4> QED
        BY <1>t, <2>5, <4>1
    <3> QED
      BY <2>51, <3>1
  <2>7. IoctlPhases'
    BY <2>1
  <2>8. NothingRuns'
    BY <2>1, <2>3, <2>4
  <2> QED
    BY <1>ty, <2>6, <2>7, <2>8
<1>21. CASE IrqScanEnd
  BY <1>ty, <1>t, <1>21 DEF IrqScanEnd, IoctlType, IrqType, IoctlIdle, IrqIdle,
     IrqPrompt, RunningLockFree, vb2Vars, jobVars, seqVars
<1>22. CASE IrqDel
  BY <1>ty, <1>t, <1>22 DEF IrqDel, IoctlType, IrqType, IoctlIdle, IrqIdle,
     IrqPrompt, RunningLockFree, vb2Vars, jobVars, seqVars
<1>23. CASE IrqDone
  <2>1. /\ irq.pc = "done"
        /\ running_job_list' = Tail(running_job_list)
        /\ UNCHANGED <<ioctl, streaming, vbq_streaming, pending_job_list, running_job_count>>
    BY <1>23 DEF IrqDone, vb2Vars
  <2>2. running_job_list # <<>>
    BY <2>1 DEF TypeInv, IrqHoldsHead
  <2>3. Len(Tail(running_job_list)) = Len(running_job_list) - 1
    BY <1>t, <2>2, HeadTailProperties
  <2>4. irq'.pc \in {"try", "scan"}
    BY <1>t, <1>23 DEF IrqDone, IrqType
  <2>5. InSession /\ InSession' = InSession
    BY <2>1, <2>2
  <2>6. Len(running_job_list) \in Nat /\ Len(running_job_list) <= MaxRunning
    BY <1>t
  <2>7. CountExact'
    <3>1. running_job_count = Len(running_job_list) - 1
      BY <2>1, <2>5
    <3>2. Leaving' = 0
      BY <2>4
    <3>3. Len(running_job_list)' = Len(running_job_list) - 1
      BY <2>1, <2>3
    <3> QED
      BY <1>t, <2>1, <2>6, <3>1, <3>2, <3>3
  <2>8. IoctlPhases'
    BY <2>1
  <2>9. NothingRuns'
    BY <2>1, <2>2, <2>4, <2>5
  <2> QED
    BY <1>ty, <2>7, <2>8, <2>9
<1>24. CASE IrqTryQueue
  BY <1>ty, <1>t, <1>24 DEF IrqTryQueue, IoctlType, IrqType, IoctlIdle, IrqIdle,
     IrqPrompt, RunningLockFree, vb2Vars, jobVars, seqVars
<1>25. CASE IrqMoveJobs
  <2>1. Leaving = 0
    BY <1>25 DEF IrqMoveJobs
  <2>2. /\ running_job_count' - running_job_count =
             Len(running_job_list') - Len(running_job_list)
        /\ InSession => Len(running_job_list') <= MaxRunning
        /\ pending_job_list = <<>> =>
             pending_job_list' = <<>> /\ running_job_list' = running_job_list
    BY <2>1, <1>25, MoveJobsCount DEF IrqMoveJobs
  <2>3. running_job_count' \in Int /\ running_job_list' \in Seq(Reqs)
    BY <1>ty DEF TypeInv, CoreTypeOK
  <2>4. /\ irq' = [irq EXCEPT !.pc = "sof"] /\ irq.pc = "move"
        /\ UNCHANGED <<ioctl, streaming, vbq_streaming>>
    BY <1>25 DEF IrqMoveJobs, vb2Vars
  <2> QED
    BY <1>ty, <1>t, <2>1, <2>2, <2>3, <2>4 DEF IoctlType, IrqType
<1>26. CASE IrqSof
  <2>1. /\ irq.pc = "sof" /\ irq'.pc \in {"idle", "stamp"}
        /\ UNCHANGED <<ioctl, streaming, vbq_streaming, pending_job_list,
                        running_job_list, running_job_count>>
    <3>1. irq' = IrqIdle \/ \E x : irq' = [irq EXCEPT !.pc = "stamp", !.cur = x]
      BY <1>26 DEF IrqSof
    <3>2. irq'.pc \in {"idle", "stamp"}
      <4>1. CASE irq' = IrqIdle
        BY <4>1 DEF IrqIdle
      <4>2. ASSUME NEW x, irq' = [irq EXCEPT !.pc = "stamp", !.cur = x]
            PROVE  irq'.pc = "stamp"
        BY <1>t, <4>2 DEF IrqType
      <4> QED
        BY <3>1, <4>1, <4>2
    <3> QED
      BY <1>26, <3>2 DEF IrqSof, vb2Vars, jobVars
  <2> QED
    BY <1>ty, <1>t, <2>1 DEF IoctlType
<1>27. CASE IrqStamp
  BY <1>ty, <1>t, <1>27 DEF IrqStamp, IoctlType, IrqType, IoctlIdle, IrqIdle,
     IrqPrompt, RunningLockFree, vb2Vars, jobVars, seqVars
<1>28. CASE TxFrameWorker
  BY <1>ty, <1>t, <1>28 DEF TxFrameWorker, IoctlType, IrqType, IoctlIdle, IrqIdle,
     IrqPrompt, RunningLockFree, vb2Vars, jobVars, seqVars
<1>29. CASE ScpCompose
  BY <1>ty, <1>t, <1>29 DEF ScpCompose, IoctlType, IrqType, IoctlIdle, IrqIdle,
     IrqPrompt, RunningLockFree, vb2Vars, jobVars, seqVars
<1>30. CASE ComposerAck
  BY <1>ty, <1>t, <1>30 DEF ComposerAck, IoctlType, IrqType, IoctlIdle, IrqIdle,
     IrqPrompt, RunningLockFree, vb2Vars, jobVars, seqVars
<1>31. CASE HwSof
  BY <1>ty, <1>t, <1>31 DEF HwSof, IoctlType, IrqType, IoctlIdle, IrqIdle,
     IrqPrompt, RunningLockFree, vb2Vars, jobVars, seqVars
<1>32. CASE HwDone
  BY <1>ty, <1>t, <1>32 DEF HwDone, IoctlType, IrqType, IoctlIdle, IrqIdle,
     IrqPrompt, RunningLockFree, vb2Vars, jobVars, seqVars
<1>33. CASE UNCHANGED vars
  BY <1>ty, <1>33 DEF vars, sysVars, vb2Vars, jobVars, seqVars
<1> QED
  BY <1>1, <1>2, <1>3, <1>4, <1>5, <1>6, <1>7, <1>8, <1>9, <1>10, <1>11, <1>12, <1>13, <1>14, <1>15, <1>16, <1>17, <1>18, <1>19, <1>20, <1>21, <1>22, <1>23, <1>24, <1>25, <1>26, <1>27, <1>28, <1>29, <1>30, <1>31, <1>32, <1>33
  DEF Next, User, IoctlStep, IrqStep

\* The job limit and the count hold in every behaviour in which an interrupt
\* handler is over before the SCP answers a command, whatever else fails.
THEOREM JobsAlwaysBounded == Spec => []JobsBounded
<1> DEFINE Inv == "slowirq" \notin faults => CountInv
<1>1. Init => Inv
  BY JobsAssumption DEF Init, CountInv, TypeInv, CoreTypeOK, IoctlIdle, IrqIdle, ScpIdle,
     HwReset, FreeReq, ReqRecord, IoctlPC, IrqPC, IoctlType, IrqType, ScpType,
     HwType, IrqHoldsHead, IoctlPhases, NothingRuns, CountExact, InSession, Leaving
<1>2. Inv => JobsBounded
  BY DEF CountInv, JobsBounded, Without
<1>3. Inv /\ [Next]_vars => Inv'
  <2>1. [Next]_vars => faults' = faults
    BY DEF Next, vars
  <2> QED
    BY <2>1, CountStep
<1> QED
  BY <1>1, <1>2, <1>3, PTL DEF Spec
-----------------------------------------------------------------------------
(***************************************************************************)
(* The order of frames.  The invariant is built in layers, each proved     *)
(* from the ones before it; a layer holds without the faults it names.     *)
(***************************************************************************)
\* Requests: what is allocated is on exactly one list, once.
HeapInv ==
  /\ \A i \in 1 .. Len(running_job_list) : running_job_list[i] \in heap
  /\ \A i \in 1 .. Len(pending_job_list) : pending_job_list[i] \in heap
  /\ \A r \in heap :
       \/ \E i \in 1 .. Len(running_job_list) : running_job_list[i] = r
       \/ \E i \in 1 .. Len(pending_job_list) : pending_job_list[i] = r
  /\ \A i, j \in 1 .. Len(running_job_list) :
       running_job_list[i] = running_job_list[j] => i = j
  /\ \A i, j \in 1 .. Len(pending_job_list) :
       pending_job_list[i] = pending_job_list[j] => i = j
  /\ \A i \in 1 .. Len(running_job_list), j \in 1 .. Len(pending_job_list) :
       running_job_list[i] # pending_job_list[j]

\* Frame numbers: the running list is consecutive up to the last number given.
OrderInv ==
  /\ Len(running_job_list) <= enqueued_frame_seq_no
  /\ \A i \in 1 .. Len(running_job_list) :
       req[running_job_list[i]].frame_seq_no =
         enqueued_frame_seq_no - Len(running_job_list) + i
  /\ \A r \in Reqs :
       (\A i \in 1 .. Len(running_job_list) : running_job_list[i] # r)
       => req[r].frame_seq_no = 0

\* A stopped ISP raises nothing, and its last interrupt is served.
QuietInv ==
  /\ irq.pc = "idle" => irq = IrqIdle
  /\ streaming = 0 /\ ioctl.pc # "ipi" =>
       irq.pc = "idle" /\ hw.bits = {} /\ hw.state = "off"
  /\ ioctl.pc \in {"ipi", "destroy"} => streaming = 0
  /\ ioctl.pc = "ipi" => hw.state \in {"off", "last"}

\* No frame number travels between driver, SCP and ISP before it is given.
Travelling(limit) ==
  /\ \A i \in 1 .. Len(scp.inbox) : scp.inbox[i] <= limit
  /\ \A k \in 0 .. CqCount - 1 : hw.cq[k] <= limit
  /\ hw.seq <= limit
  /\ irq.seq <= limit
  /\ dequeued_frame_seq_no <= limit

NumberInv == Travelling(enqueued_frame_seq_no)

\* The saved frame number names a finished frame whenever the handler
\* completes jobs, however interrupts coalesce.
Finished(n) == n = 0 \/ n \in hw.finished

Current(n) == Finished(n) \/ (n = hw.seq /\ "DON" \notin hw.bits)

FinishedInv ==
  /\ hw.state = "idle" => Finished(hw.seq)
  /\ irq.pc \in {"scan", "del", "done"} => Finished(dequeued_frame_seq_no)
  /\ irq.pc = "event" /\ "DON" \in irq.bits => Finished(dequeued_frame_seq_no)
  /\ Current(dequeued_frame_seq_no)
  /\ irq.pc # "idle" => Current(irq.seq)
  /\ ioctl.op = "start" /\ streaming = 0 => hw.seq = 0

\* The job of the saved frame has its timestamp.
StampInv ==
  \A i \in 1 .. Len(running_job_list) :
    req[running_job_list[i]].frame_seq_no = dequeued_frame_seq_no =>
      \/ req[running_job_list[i]].timestamp = 1
      \/ irq.pc = "stamp" /\ irq.cur = running_job_list[i]

\* Before the ISP streams in a session, nothing is completed as good.
BeforeFrames ==
  vbq_streaming = 0 /\ (ioctl.pc = "idle" \/ (ioctl.op = "start" /\ streaming = 0))

DoneInv ==
  /\ \A i \in 1 .. Len(done_list) :
       done_list[i].state = "done" =>
         done_list[i].timestamp = 1 /\ done_list[i].sequence \in hw.finished
  /\ BeforeFrames => \A i \in 1 .. Len(done_list) : done_list[i].state = "error"

FrameInv ==
  /\ CountInv
  /\ HeapInv
  /\ OrderInv
  /\ QuietInv
  /\ NumberInv
  /\ FinishedInv
  /\ StampInv
  /\ DoneInv

\* Completed buffers are older than every job that is left.
DeliverInv ==
  /\ \A i, j \in 1 .. Len(done_list) :
       i < j => done_list[i].sequence < done_list[j].sequence
  /\ \A i \in 1 .. Len(done_list) :
       done_list[i].sequence <= enqueued_frame_seq_no - Len(running_job_list)
  /\ BeforeFrames => done_list = <<>>

-----------------------------------------------------------------------------
(***************************************************************************)
(* What the operators do to the lists, element by element.                 *)
(***************************************************************************)

\* A concatenation holds the elements of both lists, in order.
LEMMA ConcatElements ==
  ASSUME NEW S, NEW s \in Seq(S), NEW t \in Seq(S)
  PROVE  /\ Len(s \o t) = Len(s) + Len(t)
         /\ \A i \in 1 .. Len(s) : (s \o t)[i] = s[i]
         /\ \A i \in 1 .. Len(t) : (s \o t)[Len(s) + i] = t[i]
<1>1. Len(s) \in Nat /\ Len(t) \in Nat
  OBVIOUS
<1>2. Len(s \o t) = Len(s) + Len(t)
  BY ConcatProperties
<1>3. \A i \in 1 .. Len(s) + Len(t) :
        (s \o t)[i] = IF i <= Len(s) THEN s[i] ELSE t[i - Len(s)]
  BY ConcatProperties
<1>4. ASSUME NEW i \in 1 .. Len(s) PROVE (s \o t)[i] = s[i]
  BY <1>1, <1>3
<1>5. ASSUME NEW i \in 1 .. Len(t) PROVE (s \o t)[Len(s) + i] = t[i]
  <2>1. Len(s) + i \in 1 .. Len(s) + Len(t) /\ ~(Len(s) + i <= Len(s))
        /\ Len(s) + i - Len(s) = i
    BY <1>1
  <2> QED
    BY <1>3, <2>1
<1> QED
  BY <1>2, <1>4, <1>5

\* mtk_cam_dev_req_try_queue: a prefix of the pending list is appended to the
\* running list and to the work queue.
LEMMA MoveJobsLists ==
  ASSUME TypeInv, MoveJobs
  PROVE  /\ Room \in Nat /\ Room <= Len(pending_job_list)
         /\ Len(running_job_list') = Len(running_job_list) + Room
         /\ \A i \in 1 .. Len(running_job_list) :
              running_job_list'[i] = running_job_list[i]
         /\ \A i \in 1 .. Room :
              running_job_list'[Len(running_job_list) + i] = pending_job_list[i]
         /\ Len(pending_job_list') = Len(pending_job_list) - Room
         /\ \A i \in 1 .. Len(pending_job_list) - Room :
              pending_job_list'[i] = pending_job_list[Room + i]
         /\ Len(composer_wq') = Len(composer_wq) + Room
         /\ \A i \in 1 .. Len(composer_wq) : composer_wq'[i] = composer_wq[i]
         /\ \A i \in 1 .. Room :
              composer_wq'[Len(composer_wq) + i] = pending_job_list[i]
<1> DEFINE n == Room
           moved == SubSeq(pending_job_list, 1, n)
<1>1. n \in 0 .. Len(pending_job_list)
  BY RoomType
<1>2. /\ pending_job_list \in Seq(Reqs)
      /\ running_job_list \in Seq(Reqs)
      /\ composer_wq \in Seq(Reqs)
  BY DEF TypeInv, CoreTypeOK
<1>3. /\ running_job_list' = running_job_list \o moved
      /\ pending_job_list' = SubSeq(pending_job_list, n + 1, Len(pending_job_list))
      /\ composer_wq' = composer_wq \o moved
  BY DEF MoveJobs
<1> HIDE DEF n
<1>4. /\ moved \in Seq(Reqs) /\ Len(moved) = n
      /\ \A i \in 1 .. n : moved[i] = pending_job_list[i]
  BY <1>1, <1>2, SubSeqProperties, ElementOfSeq
<1>5. /\ Len(pending_job_list') = Len(pending_job_list) - n
      /\ \A i \in 1 .. Len(pending_job_list) - n :
           pending_job_list'[i] = pending_job_list[n + i]
  BY <1>1, <1>2, <1>3, SubSeqProperties, ElementOfSeq
<1> HIDE DEF moved
<1>6. /\ Len(running_job_list') = Len(running_job_list) + n
      /\ \A i \in 1 .. Len(running_job_list) :
           running_job_list'[i] = running_job_list[i]
      /\ \A i \in 1 .. n :
           running_job_list'[Len(running_job_list) + i] = pending_job_list[i]
  <2>1. /\ Len(running_job_list \o moved) = Len(running_job_list) + Len(moved)
        /\ \A i \in 1 .. Len(running_job_list) :
             (running_job_list \o moved)[i] = running_job_list[i]
        /\ \A i \in 1 .. Len(moved) :
             (running_job_list \o moved)[Len(running_job_list) + i] = moved[i]
    BY <1>2, <1>4, ConcatElements
  <2> QED
    BY <1>3, <1>4, <2>1
<1>7. /\ Len(composer_wq') = Len(composer_wq) + n
      /\ \A i \in 1 .. Len(composer_wq) : composer_wq'[i] = composer_wq[i]
      /\ \A i \in 1 .. n :
           composer_wq'[Len(composer_wq) + i] = pending_job_list[i]
  <2>1. /\ Len(composer_wq \o moved) = Len(composer_wq) + Len(moved)
        /\ \A i \in 1 .. Len(composer_wq) :
             (composer_wq \o moved)[i] = composer_wq[i]
        /\ \A i \in 1 .. Len(moved) :
             (composer_wq \o moved)[Len(composer_wq) + i] = moved[i]
    BY <1>2, <1>4, ConcatElements
  <2> QED
    BY <1>3, <1>4, <2>1
<1>8. n \in Nat /\ n <= Len(pending_job_list)
  BY <1>1, <1>2
<1> QED
  BY <1>5, <1>6, <1>7, <1>8 DEF n

\* Each job that moves takes the next number; nothing else of a request changes.
LEMMA MoveJobsNumbers ==
  ASSUME TypeInv, HeapInv, MoveJobs
  PROVE  /\ enqueued_frame_seq_no' = enqueued_frame_seq_no + Room
         /\ heap' = heap
         /\ \A i \in 1 .. Room :
              req'[pending_job_list[i]].frame_seq_no = enqueued_frame_seq_no + i
         /\ \A r \in Reqs : (\A i \in 1 .. Room : pending_job_list[i] # r)
                            => req'[r] = req[r]
         /\ \A r \in Reqs : req'[r].sbuf = req[r].sbuf
<1> DEFINE n == Room
           k(r) == CHOOSE i \in 1 .. n : pending_job_list[i] = r
<1>1. n \in 0 .. Len(pending_job_list)
  BY RoomType
<1>2. /\ pending_job_list \in Seq(Reqs)
      /\ req \in [Reqs -> ReqRecord]
  BY DEF TypeInv, CoreTypeOK
<1>3. req' = [r \in Reqs |->
                IF \E i \in 1 .. n : pending_job_list[i] = r
                THEN [req[r] EXCEPT !.frame_seq_no = enqueued_frame_seq_no + k(r)]
                ELSE req[r]]
  BY DEF MoveJobs, FrameSeqNo
<1>4. enqueued_frame_seq_no' = enqueued_frame_seq_no + n /\ heap' = heap
  BY DEF MoveJobs
<1> HIDE DEF n
<1>5. ASSUME NEW i \in 1 .. n PROVE k(pending_job_list[i]) = i
  <2>1. i \in 1 .. Len(pending_job_list)
    BY <1>1
  <2>2. /\ k(pending_job_list[i]) \in 1 .. n
        /\ pending_job_list[k(pending_job_list[i])] = pending_job_list[i]
    OBVIOUS
  <2>3. k(pending_job_list[i]) \in 1 .. Len(pending_job_list)
    BY <1>1, <2>2
  <2> HIDE DEF k
  <2> QED
    BY <2>1, <2>2, <2>3 DEF HeapInv
<1> HIDE DEF k
<1>6. ASSUME NEW i \in 1 .. n
      PROVE  req'[pending_job_list[i]].frame_seq_no = enqueued_frame_seq_no + i
  <2>1. pending_job_list[i] \in Reqs
    BY <1>1, <1>2, ElementOfSeq
  <2>2. req'[pending_job_list[i]] =
          [req[pending_job_list[i]] EXCEPT !.frame_seq_no =
             enqueued_frame_seq_no + i]
    BY <1>3, <1>5, <2>1
  <2>3. req[pending_job_list[i]] \in ReqRecord
    BY <1>2, <2>1
  <2> QED
    BY <2>2, <2>3 DEF ReqRecord
<1>7. ASSUME NEW r \in Reqs PROVE req'[r].sbuf = req[r].sbuf
  <2>1. req[r] \in ReqRecord
    BY <1>2
  <2> QED
    BY <1>3, <2>1 DEF ReqRecord
<1>8. ASSUME NEW r \in Reqs, \A i \in 1 .. n : pending_job_list[i] # r
      PROVE  req'[r] = req[r]
  BY <1>3, <1>8
<1> QED
  BY <1>4, <1>6, <1>7, <1>8 DEF n

\* The handler takes the first job off the running list and frees it.
PopJob ==
  /\ running_job_list # <<>>
  /\ running_job_list' = Tail(running_job_list)
  /\ Kfree(<<Head(running_job_list)>>)

LEMMA PopJobLists ==
  ASSUME TypeInv, PopJob
  PROVE  /\ Len(running_job_list) \in Nat \ {0}
         /\ Len(running_job_list') = Len(running_job_list) - 1
         /\ \A i \in 1 .. Len(running_job_list) - 1 :
              running_job_list'[i] = running_job_list[i + 1]
         /\ running_job_list[1] \in Reqs
         /\ heap' = heap \ {running_job_list[1]}
         /\ req' = [r \in Reqs |-> IF r = running_job_list[1] THEN FreeReq
                                   ELSE req[r]]
<1>1. running_job_list \in Seq(Reqs)
  BY DEF TypeInv, CoreTypeOK
<1>2. Len(running_job_list) \in Nat \ {0}
  BY <1>1, EmptySeq DEF PopJob
<1>3. Head(running_job_list) = running_job_list[1] /\ running_job_list[1] \in Reqs
  BY <1>1, <1>2, ElementOfSeq
<1>4. /\ Len(running_job_list') = Len(running_job_list) - 1
      /\ \A i \in 1 .. Len(running_job_list) - 1 :
           running_job_list'[i] = running_job_list[i + 1]
  BY <1>1, HeadTailProperties DEF PopJob
<1>5. /\ {<<running_job_list[1]>>[i] : i \in 1 .. Len(<<running_job_list[1]>>)}
           = {running_job_list[1]}
      /\ \A r : (\E i \in 1 .. Len(<<running_job_list[1]>>) :
                   <<running_job_list[1]>>[i] = r) <=> r = running_job_list[1]
  OBVIOUS
<1> QED
  BY <1>2, <1>3, <1>4, <1>5 DEF PopJob, Kfree

-----------------------------------------------------------------------------
(***************************************************************************)
(* Every step does one of six things to the jobs.                          *)
(***************************************************************************)
SameJobs ==
  /\ UNCHANGED <<running_job_list, pending_job_list, heap>>
  /\ enqueued_frame_seq_no' = enqueued_frame_seq_no \/ StreamOn
  /\ req' = req \/ IrqStamp
  /\ \A r \in Reqs : /\ req'[r].sbuf = req[r].sbuf
                     /\ req'[r].frame_seq_no = req[r].frame_seq_no

LEMMA JobEffect ==
  ASSUME TypeInv, [Next]_vars
  PROVE  \/ SameJobs
         \/ \E r \in Reqs : EnqueueNoRequest(r)
         \/ MoveJobs
         \/ PopJob /\ UNCHANGED <<pending_job_list, enqueued_frame_seq_no>>
         \/ CleanPending
         \/ CleanRunning
<1>1. CASE UNCHANGED <<running_job_list, pending_job_list, heap, req,
                       enqueued_frame_seq_no>>
  BY <1>1 DEF SameJobs
<1>2. CASE StreamOn
  BY <1>2 DEF StreamOn, SameJobs
<1>3. CASE IrqScan
  <2>1. \/ UNCHANGED <<running_job_list, heap, req>>
        \/ /\ running_job_list # <<>>
           /\ running_job_list' = Tail(running_job_list)
           /\ Kfree(<<Head(running_job_list)>>)
    BY <1>3 DEF IrqScan
  <2> QED
    BY <1>3, <2>1 DEF IrqScan, PopJob, SameJobs
<1>4. CASE IrqDone
  <2>1. /\ running_job_list' = Tail(running_job_list)
        /\ Kfree(<<irq.cur>>)
        /\ UNCHANGED <<pending_job_list, enqueued_frame_seq_no>>
    BY <1>4 DEF IrqDone
  <2>2. running_job_list # <<>> /\ irq.cur = Head(running_job_list)
    BY <1>4 DEF IrqDone, TypeInv, IrqHoldsHead
  <2> QED
    BY <2>1, <2>2 DEF PopJob
<1>5. CASE IrqStamp
  <2>1. req \in [Reqs -> ReqRecord]
    BY DEF TypeInv, CoreTypeOK
  <2>2. ASSUME NEW r \in Reqs
        PROVE  /\ req'[r].sbuf = req[r].sbuf
               /\ req'[r].frame_seq_no = req[r].frame_seq_no
    <3>1. req'[r] = [req[r] EXCEPT !.timestamp = 1] \/ req'[r] = req[r]
      BY <1>5 DEF IrqStamp
    <3>2. req[r] \in ReqRecord
      BY <2>1
    <3> QED
      BY <3>1, <3>2 DEF ReqRecord
  <2> QED
    BY <1>5, <2>2 DEF IrqStamp, SameJobs
<1>6. CASE IoctlMoveJobs \/ IrqMoveJobs
  BY <1>6 DEF IoctlMoveJobs, IrqMoveJobs
<1>7. CASE (\E b \in Bufs : QBuf(b)) \/ DQBuf \/ StreamOff
  BY <1>1, <1>7 DEF QBuf, DQBuf, StreamOff, jobVars
<1>8. CASE EnqueueNoMemory \/ IoctlTryQueue \/ EnqueueDone \/ SStreamOn
           \/ SStreamOnFails \/ StreamOffIpi \/ DestroyWorkqueue
           \/ ReturnAllBuffers \/ Vb2Cancel
  BY <1>1, <1>8 DEF EnqueueNoMemory, IoctlTryQueue, EnqueueDone, SStreamOn,
     SStreamOnFails, StreamOffIpi, DestroyWorkqueue, ReturnAllBuffers, Vb2Cancel,
     jobVars
<1>9. CASE IrqEnter \/ IrqEvent \/ IrqScanEnd \/ IrqDel \/ IrqTryQueue \/ IrqSof
  BY <1>1, <1>9 DEF IrqEnter, IrqEvent, IrqScanEnd, IrqDel, IrqTryQueue, IrqSof,
     jobVars
<1>10. CASE TxFrameWorker \/ ScpCompose \/ ComposerAck \/ HwSof \/ HwDone
  BY <1>1, <1>10 DEF TxFrameWorker, ScpCompose, ComposerAck, HwSof, HwDone, jobVars
<1>11. CASE UNCHANGED vars
  BY <1>1, <1>11 DEF vars, sysVars, jobVars
<1>12. CASE (\E r \in Reqs : EnqueueNoRequest(r)) \/ CleanPending \/ CleanRunning
  BY <1>12
<1> QED
  BY <1>2, <1>3, <1>4, <1>5, <1>6, <1>7, <1>8, <1>9, <1>10, <1>11, <1>12
     DEF Next, User, IoctlStep, IrqStep

-----------------------------------------------------------------------------
\* Allocated requests stay on exactly one list, whatever fails.
LEMMA HeapStep ==
  ASSUME TypeInv, HeapInv, [Next]_vars
  PROVE  HeapInv'
<1>t. /\ running_job_list \in Seq(Reqs) /\ pending_job_list \in Seq(Reqs)
      /\ Len(running_job_list) \in Nat /\ Len(pending_job_list) \in Nat
      /\ heap \subseteq Reqs
  BY DEF TypeInv, CoreTypeOK
<1>1. CASE SameJobs
  BY <1>1 DEF SameJobs, HeapInv
<1>2. ASSUME NEW r \in Reqs, EnqueueNoRequest(r) PROVE HeapInv'
  <2>1. /\ running_job_list' = running_job_list
        /\ pending_job_list' = Append(pending_job_list, r)
        /\ heap' = heap \cup {r} /\ r \notin heap
    BY <1>2 DEF EnqueueNoRequest
  <2>2. /\ Len(pending_job_list') = Len(pending_job_list) + 1
        /\ \A i \in 1 .. Len(pending_job_list) :
             pending_job_list'[i] = pending_job_list[i]
        /\ pending_job_list'[Len(pending_job_list) + 1] = r
    BY <1>t, <2>1, AppendProperties
  <2>3. \A i \in 1 .. Len(pending_job_list') :
          \/ i \in 1 .. Len(pending_job_list) /\ pending_job_list'[i] = pending_job_list[i]
          \/ i = Len(pending_job_list) + 1 /\ pending_job_list'[i] = r
    BY <1>t, <2>2
  <2>4. \A x \in heap' :
          \/ \E i \in 1 .. Len(running_job_list') : running_job_list'[i] = x
          \/ \E i \in 1 .. Len(pending_job_list') : pending_job_list'[i] = x
    BY <1>t, <2>1, <2>2 DEF HeapInv
  <2>5. \A i \in 1 .. Len(pending_job_list') : pending_job_list'[i] \in heap'
    BY <1>t, <2>1, <2>3 DEF HeapInv
  <2>6. \A i, j \in 1 .. Len(pending_job_list') :
          pending_job_list'[i] = pending_job_list'[j] => i = j
    BY <1>t, <2>1, <2>3 DEF HeapInv
  <2>7. \A i \in 1 .. Len(running_job_list), j \in 1 .. Len(pending_job_list') :
          running_job_list[i] # pending_job_list'[j]
    BY <1>t, <2>1, <2>3 DEF HeapInv
  <2>8. /\ \A i \in 1 .. Len(running_job_list) : running_job_list[i] \in heap'
        /\ \A i, j \in 1 .. Len(running_job_list) :
             running_job_list[i] = running_job_list[j] => i = j
    BY <2>1 DEF HeapInv
  <2> QED
    BY <2>1, <2>4, <2>5, <2>6, <2>7, <2>8 DEF HeapInv
<1>3. CASE MoveJobs
  <2> DEFINE n == Room
  <2>1. /\ n \in Nat /\ n <= Len(pending_job_list)
        /\ Len(running_job_list') = Len(running_job_list) + n
        /\ \A i \in 1 .. Len(running_job_list) :
             running_job_list'[i] = running_job_list[i]
        /\ \A i \in 1 .. n :
             running_job_list'[Len(running_job_list) + i] = pending_job_list[i]
        /\ Len(pending_job_list') = Len(pending_job_list) - n
        /\ \A i \in 1 .. Len(pending_job_list) - n :
             pending_job_list'[i] = pending_job_list[n + i]
        /\ heap' = heap
    BY <1>3, MoveJobsLists, MoveJobsNumbers
  <2> HIDE DEF n
  <2>2. \A i \in 1 .. Len(running_job_list') :
          \/ /\ i \in 1 .. Len(running_job_list)
             /\ running_job_list'[i] = running_job_list[i]
          \/ /\ i - Len(running_job_list) \in 1 .. n
             /\ running_job_list'[i] = pending_job_list[i - Len(running_job_list)]
    BY <1>t, <2>1
  <2>u. ASSUME NEW i \in 1 .. Len(pending_job_list')
        PROVE  /\ n + i \in 1 .. Len(pending_job_list)
               /\ pending_job_list'[i] = pending_job_list[n + i]
    BY <1>t, <2>1
  <2>3. /\ \A i \in 1 .. Len(running_job_list') : running_job_list'[i] \in heap
        /\ \A i \in 1 .. Len(pending_job_list') : pending_job_list'[i] \in heap
    <3>1. \A i \in 1 .. n : i \in 1 .. Len(pending_job_list)
      BY <1>t, <2>1
    <3> QED
      BY <2>2, <2>u, <3>1 DEF HeapInv
  <2>4. ASSUME NEW r \in heap
        PROVE  \/ \E i \in 1 .. Len(running_job_list') : running_job_list'[i] = r
               \/ \E i \in 1 .. Len(pending_job_list') : pending_job_list'[i] = r
    <3>1. CASE \E i \in 1 .. Len(running_job_list) : running_job_list[i] = r
      BY <1>t, <2>1, <3>1
    <3>2. ASSUME NEW i \in 1 .. Len(pending_job_list), pending_job_list[i] = r
          PROVE  \/ \E j \in 1 .. Len(running_job_list') : running_job_list'[j] = r
                 \/ \E j \in 1 .. Len(pending_job_list') : pending_job_list'[j] = r
      <4>1. CASE i <= n
        <5>1. /\ Len(running_job_list) + i \in 1 .. Len(running_job_list')
              /\ i \in 1 .. n
          BY <1>t, <2>1, <4>1
        <5> QED
          BY <2>1, <3>2, <5>1
      <4>2. CASE i > n
        <5>1. i - n \in 1 .. Len(pending_job_list) - n /\ n + (i - n) = i
          BY <1>t, <2>1, <4>2
        <5> QED
          BY <2>1, <3>2, <5>1
      <4> QED
        BY <1>t, <2>1, <4>1, <4>2
    <3> QED
      BY <3>1, <3>2 DEF HeapInv
  <2>5. ASSUME NEW i \in 1 .. Len(running_job_list'),
               NEW j \in 1 .. Len(running_job_list'),
               running_job_list'[i] = running_job_list'[j]
        PROVE  i = j
    <3>1. CASE i \in 1 .. Len(running_job_list) /\ j \in 1 .. Len(running_job_list)
      BY <2>1, <2>5, <3>1 DEF HeapInv
    <3>2. CASE /\ i - Len(running_job_list) \in 1 .. n
               /\ j - Len(running_job_list) \in 1 .. n
      <4>1. /\ i - Len(running_job_list) \in 1 .. Len(pending_job_list)
            /\ j - Len(running_job_list) \in 1 .. Len(pending_job_list)
            /\ running_job_list'[i] = pending_job_list[i - Len(running_job_list)]
            /\ running_job_list'[j] = pending_job_list[j - Len(running_job_list)]
        BY <1>t, <2>1, <2>2, <3>2
      <4>2. i - Len(running_job_list) = j - Len(running_job_list)
        BY <2>5, <4>1 DEF HeapInv
      <4> QED
        BY <1>t, <2>1, <4>2
    <3>3. ASSUME NEW x \in 1 .. Len(running_job_list'),
                 NEW y \in 1 .. Len(running_job_list'),
                 x \in 1 .. Len(running_job_list),
                 y - Len(running_job_list) \in 1 .. n
          PROVE  running_job_list'[x] # running_job_list'[y]
      <4>1. /\ y - Len(running_job_list) \in 1 .. Len(pending_job_list)
            /\ running_job_list'[y] = pending_job_list[y - Len(running_job_list)]
            /\ running_job_list'[x] = running_job_list[x]
        BY <1>t, <2>1, <2>2, <3>3
      <4> QED
        BY <3>3, <4>1 DEF HeapInv
    <3> QED
      BY <2>2, <2>5, <3>1, <3>2, <3>3
  <2>6. ASSUME NEW i \in 1 .. Len(pending_job_list'),
               NEW j \in 1 .. Len(pending_job_list'),
               pending_job_list'[i] = pending_job_list'[j]
        PROVE  i = j
    <3>1. n + i = n + j
      BY <2>6, <2>u DEF HeapInv
    <3> QED
      BY <2>1, <3>1
  <2>7. ASSUME NEW i \in 1 .. Len(running_job_list'),
               NEW j \in 1 .. Len(pending_job_list')
        PROVE  running_job_list'[i] # pending_job_list'[j]
    <3>1. CASE i \in 1 .. Len(running_job_list) /\ running_job_list'[i] = running_job_list[i]
      BY <2>u, <3>1 DEF HeapInv
    <3>2. CASE /\ i - Len(running_job_list) \in 1 .. n
               /\ running_job_list'[i] = pending_job_list[i - Len(running_job_list)]
      <4>1. /\ i - Len(running_job_list) \in 1 .. Len(pending_job_list)
            /\ i - Len(running_job_list) # n + j
        BY <1>t, <2>1, <3>2
      <4>2. \A k, l \in 1 .. Len(pending_job_list) :
              pending_job_list[k] = pending_job_list[l] => k = l
        BY DEF HeapInv
      <4> QED
        BY <2>u, <3>2, <4>1, <4>2
    <3> QED
      BY <2>2, <3>1, <3>2
  <2> QED
    BY <2>1, <2>3, <2>4, <2>5, <2>6, <2>7 DEF HeapInv
<1>4. CASE PopJob /\ UNCHANGED <<pending_job_list, enqueued_frame_seq_no>>
  <2>1. /\ Len(running_job_list) \in Nat \ {0}
        /\ Len(running_job_list') = Len(running_job_list) - 1
        /\ \A i \in 1 .. Len(running_job_list) - 1 :
             running_job_list'[i] = running_job_list[i + 1]
        /\ heap' = heap \ {running_job_list[1]}
        /\ pending_job_list' = pending_job_list
    BY <1>4, PopJobLists
  <2>2. ASSUME NEW r \in heap, r # running_job_list[1],
               NEW i \in 1 .. Len(running_job_list), running_job_list[i] = r
        PROVE  \E j \in 1 .. Len(running_job_list') : running_job_list'[j] = r
    <3>1. i - 1 \in 1 .. Len(running_job_list) - 1 /\ (i - 1) + 1 = i
      BY <2>1, <2>2
    <3> QED
      BY <2>1, <2>2, <3>1
  <2>3. \A i \in 1 .. Len(running_job_list') :
          /\ i + 1 \in 1 .. Len(running_job_list) /\ i + 1 # 1 /\ 1 \in 1 .. Len(running_job_list)
          /\ running_job_list'[i] = running_job_list[i + 1]
    BY <2>1
  <2>4. \A i \in 1 .. Len(running_job_list') : running_job_list'[i] \in heap'
    BY <2>1, <2>3 DEF HeapInv
  <2>5. \A i \in 1 .. Len(pending_job_list) : pending_job_list[i] \in heap'
    BY <1>t, <2>1 DEF HeapInv
  <2>6. \A i, j \in 1 .. Len(running_job_list') :
          running_job_list'[i] = running_job_list'[j] => i = j
    <3>1. ASSUME NEW i \in 1 .. Len(running_job_list'),
                 NEW j \in 1 .. Len(running_job_list'),
                 running_job_list'[i] = running_job_list'[j]
          PROVE  i = j
      <4>1. i + 1 = j + 1
        BY <2>3, <3>1 DEF HeapInv
      <4> QED
        BY <2>1, <4>1
    <3> QED
      BY <3>1
  <2>7. \A i \in 1 .. Len(running_job_list'), j \in 1 .. Len(pending_job_list) :
          running_job_list'[i] # pending_job_list[j]
    BY <2>3 DEF HeapInv
  <2>8. \A r \in heap' :
          \/ \E i \in 1 .. Len(running_job_list') : running_job_list'[i] = r
          \/ \E i \in 1 .. Len(pending_job_list) : pending_job_list[i] = r
    BY <2>1, <2>2 DEF HeapInv
  <2> QED
    BY <2>1, <2>4, <2>5, <2>6, <2>7, <2>8 DEF HeapInv
<1>5. CASE CleanPending
  <2>1. /\ pending_job_list' = <<>> /\ running_job_list' = running_job_list
        /\ heap' = heap \ {pending_job_list[i] : i \in 1 .. Len(pending_job_list)}
    BY <1>5 DEF CleanPending, Kfree
  <2> QED
    BY <1>t, <2>1 DEF HeapInv
<1>6. CASE CleanRunning
  <2>1. /\ running_job_list' = <<>> /\ pending_job_list' = pending_job_list
        /\ heap' = heap \ {running_job_list[i] : i \in 1 .. Len(running_job_list)}
    BY <1>6 DEF CleanRunning, Kfree
  <2> QED
    BY <1>t, <2>1 DEF HeapInv
<1> QED
  BY <1>1, <1>2, <1>3, <1>4, <1>5, <1>6, JobEffect

\* STREAMON finds no job of the last session.
LEMMA StreamOnFresh ==
  ASSUME CountInv, StreamOn
  PROVE  /\ ~InSession /\ ioctl.op = "none"
         /\ running_job_list = <<>>
BY DEF CountInv, IoctlPhases, NothingRuns, InSession, StreamOn, TypeInv, CoreTypeOK,
   IoctlType

\* The running list keeps consecutive numbers.
LEMMA OrderStep ==
  ASSUME CountInv, HeapInv, OrderInv, [Next]_vars
  PROVE  OrderInv'
<1>t. /\ running_job_list \in Seq(Reqs) /\ pending_job_list \in Seq(Reqs)
      /\ Len(running_job_list) \in Nat /\ Len(pending_job_list) \in Nat
      /\ heap \subseteq Reqs
      /\ enqueued_frame_seq_no \in Nat
      /\ req \in [Reqs -> ReqRecord]
      /\ \A i \in 1 .. Len(running_job_list) : running_job_list[i] \in Reqs
      /\ \A i \in 1 .. Len(pending_job_list) : pending_job_list[i] \in Reqs
  BY ElementOfSeq DEF CountInv, TypeInv, CoreTypeOK
<1>y. TypeInv
  BY DEF CountInv
<1>1. CASE SameJobs
  <2>1. /\ running_job_list' = running_job_list
        /\ \A r \in Reqs : req'[r].frame_seq_no = req[r].frame_seq_no
    BY <1>1 DEF SameJobs
  <2>2. CASE enqueued_frame_seq_no' = enqueued_frame_seq_no
    BY <1>t, <2>1, <2>2 DEF OrderInv
  <2>3. CASE StreamOn
    <3>1. running_job_list = <<>> /\ enqueued_frame_seq_no' = 0
      BY <2>3, StreamOnFresh DEF StreamOn
    <3> QED
      BY <2>1, <3>1 DEF OrderInv
  <2> QED
    BY <1>1, <2>2, <2>3 DEF SameJobs
<1>2. ASSUME NEW r \in Reqs, EnqueueNoRequest(r) PROVE OrderInv'
  <2>1. /\ running_job_list' = running_job_list
        /\ enqueued_frame_seq_no' = enqueued_frame_seq_no
        /\ r \notin heap
        /\ req'[r].frame_seq_no = 0
        /\ \A x \in Reqs : x # r => req'[x] = req[x]
    BY <1>t, <1>2 DEF EnqueueNoRequest
  <2>2. \A i \in 1 .. Len(running_job_list) : running_job_list[i] # r
    BY <2>1 DEF HeapInv
  <2> QED
    BY <1>t, <2>1, <2>2 DEF OrderInv
<1>3. CASE MoveJobs
  <2> DEFINE n == Room
  <2>1. /\ n \in Nat /\ n <= Len(pending_job_list)
        /\ Len(running_job_list') = Len(running_job_list) + n
        /\ \A i \in 1 .. Len(running_job_list) :
             running_job_list'[i] = running_job_list[i]
        /\ \A i \in 1 .. n :
             running_job_list'[Len(running_job_list) + i] = pending_job_list[i]
    BY <1>3, <1>y, MoveJobsLists
  <2>2. /\ enqueued_frame_seq_no' = enqueued_frame_seq_no + n
        /\ \A i \in 1 .. n :
             req'[pending_job_list[i]].frame_seq_no = enqueued_frame_seq_no + i
        /\ \A r \in Reqs : (\A i \in 1 .. n : pending_job_list[i] # r)
                           => req'[r] = req[r]
    BY <1>3, <1>y, MoveJobsNumbers
  <2> HIDE DEF n
  <2>3. ASSUME NEW i \in 1 .. Len(running_job_list')
        PROVE  req'[running_job_list'[i]].frame_seq_no =
                 enqueued_frame_seq_no' - Len(running_job_list') + i
    <3>1. CASE i \in 1 .. Len(running_job_list)
      <4>1. \A j \in 1 .. n : pending_job_list[j] # running_job_list[i]
        <5>1. \A j \in 1 .. n : j \in 1 .. Len(pending_job_list)
          BY <1>t, <2>1
        <5> QED
          BY <3>1, <5>1 DEF HeapInv
      <4>2. req'[running_job_list[i]] = req[running_job_list[i]]
        BY <1>t, <2>2, <3>1, <4>1
      <4> QED
        BY <1>t, <2>1, <2>2, <3>1, <4>2 DEF OrderInv
    <3>2. CASE i \notin 1 .. Len(running_job_list)
      <4>1. /\ i - Len(running_job_list) \in 1 .. n
            /\ Len(running_job_list) + (i - Len(running_job_list)) = i
        BY <1>t, <2>1, <3>2
      <4>2. running_job_list'[i] = pending_job_list[i - Len(running_job_list)]
        BY <2>1, <4>1
      <4>3. req'[running_job_list'[i]].frame_seq_no =
              enqueued_frame_seq_no + (i - Len(running_job_list))
        BY <2>2, <4>1, <4>2
      <4> QED
        BY <1>t, <2>1, <2>2, <4>1, <4>3
    <3> QED
      BY <3>1, <3>2
  <2>4. ASSUME NEW r \in Reqs,
               \A i \in 1 .. Len(running_job_list') : running_job_list'[i] # r
        PROVE  req'[r].frame_seq_no = 0
    <3>1. /\ \A i \in 1 .. Len(running_job_list) : running_job_list[i] # r
          /\ \A i \in 1 .. n : pending_job_list[i] # r
      BY <1>t, <2>1, <2>4
    <3> QED
      BY <2>2, <3>1 DEF OrderInv
  <2>5. Len(running_job_list') <= enqueued_frame_seq_no'
    BY <1>t, <2>1, <2>2 DEF OrderInv
  <2> QED
    BY <2>3, <2>4, <2>5 DEF OrderInv
<1>4. CASE PopJob /\ UNCHANGED <<pending_job_list, enqueued_frame_seq_no>>
  <2>1. /\ Len(running_job_list) \in Nat \ {0}
        /\ Len(running_job_list') = Len(running_job_list) - 1
        /\ \A i \in 1 .. Len(running_job_list) - 1 :
             running_job_list'[i] = running_job_list[i + 1]
        /\ req' = [r \in Reqs |-> IF r = running_job_list[1] THEN FreeReq
                                  ELSE req[r]]
        /\ enqueued_frame_seq_no' = enqueued_frame_seq_no
    BY <1>4, <1>y, PopJobLists
  <2>2. ASSUME NEW i \in 1 .. Len(running_job_list')
        PROVE  req'[running_job_list'[i]].frame_seq_no =
                 enqueued_frame_seq_no - (Len(running_job_list) - 1) + i
    <3>1. /\ i + 1 \in 1 .. Len(running_job_list) /\ i + 1 # 1
          /\ 1 \in 1 .. Len(running_job_list)
          /\ running_job_list'[i] = running_job_list[i + 1]
      BY <2>1
    <3>2. running_job_list[i + 1] # running_job_list[1]
      BY <3>1 DEF HeapInv
    <3>3. req'[running_job_list'[i]] = req[running_job_list[i + 1]]
      BY <1>t, <2>1, <3>1, <3>2
    <3> QED
      <4>1. req[running_job_list[i + 1]].frame_seq_no =
              enqueued_frame_seq_no - Len(running_job_list) + (i + 1)
        BY <3>1 DEF OrderInv
      <4> QED
        BY <1>t, <2>1, <3>3, <4>1
  <2>3. ASSUME NEW r \in Reqs,
               \A i \in 1 .. Len(running_job_list') : running_job_list'[i] # r
        PROVE  req'[r].frame_seq_no = 0
    <3>1. CASE r = running_job_list[1]
      BY <2>1, <3>1 DEF FreeReq
    <3>2. CASE r # running_job_list[1]
      <4>1. ASSUME NEW i \in 1 .. Len(running_job_list)
            PROVE  running_job_list[i] # r
        <5>1. CASE i = 1
          BY <3>2, <5>1
        <5>2. CASE i # 1
          <6>1. i - 1 \in 1 .. Len(running_job_list') /\ (i - 1) + 1 = i
            BY <2>1, <5>2
          <6> QED
            BY <2>1, <2>3, <6>1
        <5> QED
          BY <5>1, <5>2
      <4> QED
        BY <2>1, <3>2, <4>1 DEF OrderInv
    <3> QED
      BY <3>1, <3>2
  <2>4. Len(running_job_list') <= enqueued_frame_seq_no
    BY <1>t, <2>1 DEF OrderInv
  <2> QED
    BY <2>1, <2>2, <2>3, <2>4 DEF OrderInv
<1>5. CASE CleanPending
  <2>1. /\ running_job_list' = running_job_list
        /\ enqueued_frame_seq_no' = enqueued_frame_seq_no
        /\ req' = [r \in Reqs |->
                     IF \E i \in 1 .. Len(pending_job_list) : pending_job_list[i] = r
                     THEN FreeReq ELSE req[r]]
    BY <1>5 DEF CleanPending, Kfree
  <2> QED
    BY <1>t, <2>1 DEF OrderInv, HeapInv, FreeReq
<1>6. CASE CleanRunning
  <2>1. /\ running_job_list' = <<>>
        /\ enqueued_frame_seq_no' = enqueued_frame_seq_no
        /\ req' = [r \in Reqs |->
                     IF \E i \in 1 .. Len(running_job_list) : running_job_list[i] = r
                     THEN FreeReq ELSE req[r]]
    BY <1>6 DEF CleanRunning, Kfree
  <2> QED
    BY <1>t, <2>1 DEF OrderInv, FreeReq
<1> QED
  BY <1>1, <1>2, <1>3, <1>4, <1>5, <1>6, <1>y, JobEffect

-----------------------------------------------------------------------------
\* The ISP is quiet while it does not stream, when a handler is over before
\* the SCP answers.
LEMMA QuietStep ==
  ASSUME "slowirq" \notin faults, CountInv, QuietInv, [Next]_vars
  PROVE  QuietInv'
<1>t. /\ ioctl \in IoctlType /\ irq \in IrqType /\ hw \in HwType
      /\ streaming \in {0, 1} /\ vbq_streaming \in {0, 1}
  BY DEF CountInv, TypeInv, CoreTypeOK
<1>p. IoctlPhases
  BY DEF CountInv
<1> DEFINE Elsewhere ==
             /\ UNCHANGED <<streaming, irq>>
             /\ ioctl.pc \notin {"ipi", "destroy"}
             /\ ioctl'.pc \notin {"ipi", "destroy"}
             /\ \/ UNCHANGED hw
                \/ IrqPrompt /\ hw'.state = hw.state /\ hw'.bits = {}
           Handles ==
             /\ UNCHANGED <<streaming, ioctl>>
             /\ irq'.pc # "idle" \/ irq' = IrqIdle
             /\ hw'.state = hw.state
             /\ irq.pc # "idle" \/ hw.bits # {}
<1>e. Elsewhere => QuietInv'
  BY DEF QuietInv
<1>h. Handles => QuietInv'
  BY <1>t DEF QuietInv
<1>u. UNCHANGED <<streaming, ioctl, irq, hw>> => QuietInv'
  BY DEF QuietInv
<1>1. CASE \E b \in Bufs : QBuf(b)
  BY <1>e, <1>t, <1>1 DEF QBuf, IoctlType
<1>2. CASE DQBuf
  BY <1>e, <1>t, <1>2 DEF DQBuf, IoctlType
<1>3. CASE StreamOn
  BY <1>e, <1>t, <1>3 DEF StreamOn, HwReset, IoctlType
<1>4. CASE \E r \in Reqs : EnqueueNoRequest(r)
  BY <1>e, <1>t, <1>4 DEF EnqueueNoRequest, IoctlType
<1>5. CASE EnqueueNoMemory
  BY <1>e, <1>t, <1>5 DEF EnqueueNoMemory, IoctlType
<1>6. CASE IoctlTryQueue
  BY <1>e, <1>t, <1>6 DEF IoctlTryQueue, IoctlType
<1>7. CASE IoctlMoveJobs
  BY <1>e, <1>t, <1>7 DEF IoctlMoveJobs, IoctlType
<1>8. CASE EnqueueDone
  BY <1>e, <1>t, <1>8 DEF EnqueueDone, IoctlIdle, IoctlType
<1>9. CASE SStreamOnFails
  BY <1>e, <1>t, <1>9 DEF SStreamOnFails, IoctlIdle, IoctlType
<1>10. CASE ReturnAllBuffers
  BY <1>e, <1>t, <1>10 DEF ReturnAllBuffers, IoctlType
<1>11. CASE CleanPending
  BY <1>e, <1>t, <1>11 DEF CleanPending, IoctlType
<1>12. CASE CleanRunning
  BY <1>e, <1>t, <1>12 DEF CleanRunning, IoctlType
<1>13. CASE Vb2Cancel
  BY <1>e, <1>t, <1>13 DEF Vb2Cancel, IoctlIdle, IoctlType
<1>14. CASE SStreamOn
  BY <1>t, <1>14 DEF QuietInv, SStreamOn, IoctlType, HwType
<1>15. CASE StreamOff
  BY <1>t, <1>15 DEF QuietInv, StreamOff, IoctlType, HwType
<1>16. CASE StreamOffIpi
  BY <1>t, <1>16 DEF QuietInv, StreamOffIpi, IrqPrompt, IoctlType, HwType
<1>17. CASE DestroyWorkqueue
  BY <1>t, <1>17 DEF QuietInv, DestroyWorkqueue, IoctlType
<1>18. CASE IrqEnter
  BY <1>h, <1>t, <1>18 DEF IrqEnter, IrqType, HwType
<1>19. CASE IrqEvent
  BY <1>h, <1>t, <1>19 DEF IrqEvent, IrqType, HwType
<1>20. CASE IrqScan
  BY <1>h, <1>t, <1>20 DEF IrqScan, IrqType, HwType
<1>21. CASE IrqScanEnd
  BY <1>h, <1>t, <1>21 DEF IrqScanEnd, IrqType, HwType
<1>22. CASE IrqDel
  BY <1>h, <1>t, <1>22 DEF IrqDel, IrqType, HwType
<1>23. CASE IrqDone
  BY <1>h, <1>t, <1>23 DEF IrqDone, IrqType, HwType
<1>24. CASE IrqTryQueue
  BY <1>h, <1>t, <1>24 DEF IrqTryQueue, IrqType, HwType
<1>25. CASE IrqMoveJobs
  BY <1>h, <1>t, <1>25 DEF IrqMoveJobs, IrqType, HwType
<1>26. CASE IrqSof
  <2>1. irq' = IrqIdle \/ \E x : irq' = [irq EXCEPT !.pc = "stamp", !.cur = x]
    BY <1>26 DEF IrqSof
  <2>2. irq' = IrqIdle \/ irq'.pc = "stamp"
    BY <1>t, <2>1 DEF IrqType
  <2> QED
    BY <1>h, <2>2, <1>26 DEF IrqSof
<1>27. CASE IrqStamp
  BY <1>h, <1>t, <1>27 DEF IrqStamp, IrqType, HwType
<1>28. CASE TxFrameWorker \/ ComposerAck
  BY <1>u, <1>28 DEF TxFrameWorker, ComposerAck
<1>29. CASE ScpCompose
  <2>1. /\ hw'.state = hw.state /\ hw'.bits = hw.bits
        /\ UNCHANGED <<streaming, ioctl, irq>>
    BY <1>t, <1>29 DEF ScpCompose, HwType
  <2> QED
    BY <2>1 DEF QuietInv
<1>30. CASE HwSof \/ HwDone
  BY <1>t, <1>30 DEF QuietInv, HwSof, HwDone, HwType
<1>31. CASE UNCHANGED vars
  BY <1>u, <1>31 DEF vars, sysVars
<1> QED
  BY <1>1, <1>2, <1>3, <1>4, <1>5, <1>6, <1>7, <1>8, <1>9, <1>10, <1>11, <1>12, <1>13, <1>14, <1>15, <1>16, <1>17, <1>18, <1>19, <1>20, <1>21, <1>22, <1>23, <1>24, <1>25, <1>26, <1>27, <1>28, <1>29, <1>30, <1>31
     DEF Next, User, IoctlStep, IrqStep

-----------------------------------------------------------------------------
\* The last frame number given only grows within a session.
LEMMA EnqueuedGrows ==
  ASSUME TypeInv, [Next]_vars, ~StreamOn
  PROVE  /\ enqueued_frame_seq_no \in Nat /\ enqueued_frame_seq_no' \in Nat
         /\ enqueued_frame_seq_no <= enqueued_frame_seq_no'
<1>1. enqueued_frame_seq_no \in Nat /\ enqueued_frame_seq_no' \in Nat
  BY TypeStep DEF TypeInv, CoreTypeOK
<1>2. CASE MoveJobs
  <2>1. enqueued_frame_seq_no' = enqueued_frame_seq_no + Room /\ Room \in Nat
    BY <1>2, MoveJobsLists DEF MoveJobs
  <2> QED
    BY <1>1, <2>1
<1>3. CASE enqueued_frame_seq_no' = enqueued_frame_seq_no
  BY <1>1, <1>3
<1> QED
  BY <1>2, <1>3, JobEffect DEF SameJobs, EnqueueNoRequest, CleanPending, CleanRunning

\* What travels stays below a limit when only numbers below it are sent.
LEMMA TravellingStep ==
  ASSUME TypeInv, [Next]_vars, ~StreamOn,
         NEW m \in Int, NEW k \in Int, m <= k, 0 <= k, Travelling(m),
         TxFrameWorker => req[Head(composer_wq)].frame_seq_no <= k
  PROVE  Travelling(k)'
<1>t. /\ ioctl \in IoctlType /\ irq \in IrqType /\ hw \in HwType
      /\ scp \in ScpType
      /\ dequeued_frame_seq_no \in Nat
      /\ composer_wq \in Seq(Reqs) /\ req \in [Reqs -> ReqRecord]
      /\ CqCount \in Nat \ {0}
  BY JobsAssumption DEF TypeInv, CoreTypeOK
<1>k. Travelling(k)
  <2>1. /\ \A i \in 1 .. Len(scp.inbox) : scp.inbox[i] \in Nat
        /\ \A i \in 0 .. CqCount - 1 : hw.cq[i] \in Nat
        /\ hw.seq \in Nat /\ irq.seq \in Nat
    BY <1>t, ElementOfSeq DEF ScpType, HwType, IrqType
  <2> QED
    BY <1>t, <2>1 DEF Travelling
<1> HIDE DEF Travelling
<1>u. UNCHANGED <<irq, scp, hw, dequeued_frame_seq_no>> => Travelling(k)'
  BY <1>k DEF Travelling
<1>1. CASE (\E b \in Bufs : QBuf(b)) \/ DQBuf \/ (\E r \in Reqs : EnqueueNoRequest(r))
           \/ EnqueueNoMemory \/ IoctlTryQueue \/ IoctlMoveJobs
  BY <1>u, <1>1 DEF QBuf, DQBuf, EnqueueNoRequest, EnqueueNoMemory, IoctlTryQueue,
     IoctlMoveJobs, seqVars
<1>2. CASE EnqueueDone \/ SStreamOnFails \/ ReturnAllBuffers \/ CleanPending
           \/ CleanRunning \/ Vb2Cancel
  BY <1>u, <1>2 DEF EnqueueDone, SStreamOnFails, ReturnAllBuffers, CleanPending,
     CleanRunning, Vb2Cancel, seqVars
<1>3. CASE SStreamOn \/ StreamOff \/ StreamOffIpi \/ HwDone
  <2>1. /\ hw'.cq = hw.cq /\ hw'.seq = hw.seq
        /\ UNCHANGED <<irq, scp, dequeued_frame_seq_no>>
    BY <1>t, <1>3 DEF SStreamOn, StreamOff, StreamOffIpi, HwDone, HwType, seqVars
  <2> QED
    BY <1>k, <2>1 DEF Travelling
<1>4. CASE DestroyWorkqueue
  BY <1>k, <1>4 DEF DestroyWorkqueue, Travelling, ScpIdle, seqVars
<1>5. CASE IrqEnter
  <2>1. /\ irq'.seq = hw.seq /\ hw'.cq = hw.cq /\ hw'.seq = hw.seq
        /\ UNCHANGED <<scp, dequeued_frame_seq_no>>
    BY <1>t, <1>5 DEF IrqEnter, HwType, seqVars
  <2> QED
    BY <1>k, <2>1 DEF Travelling
<1>6. CASE IrqEvent \/ IrqScan \/ IrqScanEnd \/ IrqDel \/ IrqDone \/ IrqTryQueue
           \/ IrqMoveJobs
  <2>1. irq'.seq = irq.seq /\ UNCHANGED <<hw, scp, dequeued_frame_seq_no>>
    BY <1>t, <1>6 DEF IrqEvent, IrqScan, IrqScanEnd, IrqDel, IrqDone, IrqTryQueue,
       IrqMoveJobs, IrqType, seqVars
  <2> QED
    BY <1>k, <2>1 DEF Travelling
<1>7. CASE IrqSof
  <2>1. \/ irq' = IrqIdle /\ UNCHANGED dequeued_frame_seq_no
        \/ /\ \E x : irq' = [irq EXCEPT !.pc = "stamp", !.cur = x]
           /\ dequeued_frame_seq_no' = irq.seq
    BY <1>7 DEF IrqSof
  <2>2. irq'.seq \in {0, irq.seq}
    <3>1. ASSUME NEW x, irq' = [irq EXCEPT !.pc = "stamp", !.cur = x]
          PROVE  irq'.seq = irq.seq
      BY <1>t, <3>1 DEF IrqType
    <3>2. irq' = IrqIdle => irq'.seq = 0
      BY DEF IrqIdle
    <3> QED
      BY <2>1, <3>1, <3>2
  <2>3. dequeued_frame_seq_no' \in {dequeued_frame_seq_no, irq.seq}
    BY <2>1
  <2> QED
    BY <1>k, <2>2, <2>3, <1>7 DEF IrqSof, Travelling
<1>8. CASE IrqStamp
  <2>1. /\ hw'.cq = hw.cq /\ hw'.seq = hw.seq /\ irq' = IrqIdle
        /\ UNCHANGED <<scp, dequeued_frame_seq_no>>
    BY <1>t, <1>8 DEF IrqStamp, HwType, seqVars
  <2> QED
    BY <1>k, <2>1 DEF Travelling, IrqIdle
<1>9. CASE TxFrameWorker
  <2> DEFINE s == req[Head(composer_wq)].frame_seq_no
  <2>1. s \in Nat /\ s <= k
    <3>1. Head(composer_wq) \in Reqs
      BY <1>t, <1>9, HeadTailProperties DEF TxFrameWorker
    <3> QED
      BY <1>t, <3>1, <1>9 DEF TxFrameWorker, ReqRecord
  <2> HIDE DEF s
  <2>2. scp'.inbox = Append(scp.inbox, s) \/ scp' = scp
    BY <1>t, <1>9 DEF TxFrameWorker, ScpType, s
  <2>3. \A i \in 1 .. Len(scp'.inbox) : scp'.inbox[i] <= k
    <3>1. scp.inbox \in Seq(Nat) /\ \A i \in 1 .. Len(scp.inbox) : scp.inbox[i] <= k
      BY <1>t, <1>k DEF ScpType, Travelling
    <3>2. /\ Len(Append(scp.inbox, s)) = Len(scp.inbox) + 1
          /\ \A i \in 1 .. Len(scp.inbox) : Append(scp.inbox, s)[i] = scp.inbox[i]
          /\ Append(scp.inbox, s)[Len(scp.inbox) + 1] = s
      BY <2>1, <3>1, AppendProperties
    <3>3. \A i \in 1 .. Len(scp.inbox) + 1 : i \in 1 .. Len(scp.inbox) \/ i = Len(scp.inbox) + 1
      BY <3>1
    <3> QED
      BY <2>1, <2>2, <3>1, <3>2, <3>3
  <2> QED
    BY <1>k, <2>3, <1>9 DEF TxFrameWorker, Travelling, seqVars
<1>10. CASE ScpCompose
  <2> DEFINE s == Head(scp.inbox)
  <2>1. /\ s = scp.inbox[1] /\ 1 \in 1 .. Len(scp.inbox)
        /\ Len(Tail(scp.inbox)) = Len(scp.inbox) - 1
        /\ \A i \in 1 .. Len(scp.inbox) - 1 : Tail(scp.inbox)[i] = scp.inbox[i + 1]
    BY <1>t, <1>10, EmptySeq, HeadTailProperties DEF ScpCompose, ScpType
  <2>2. s <= k
    BY <1>k, <2>1 DEF Travelling
  <2> HIDE DEF s
  <2>3. hw' = [hw EXCEPT !.cq[(s - 1) % CqCount] = s] /\ scp'.inbox = Tail(scp.inbox)
    BY <1>10 DEF ScpCompose, s
  <2>4. \A i \in 0 .. CqCount - 1 : hw'.cq[i] \in {s, hw.cq[i]}
    BY <1>t, <2>3 DEF HwType
  <2>5. \A i \in 1 .. Len(scp'.inbox) : scp'.inbox[i] <= k
    BY <1>k, <2>1, <2>3 DEF Travelling
  <2>6. hw'.seq = hw.seq /\ UNCHANGED <<irq, dequeued_frame_seq_no>>
    BY <1>t, <2>3, <1>10 DEF ScpCompose, HwType, seqVars
  <2> QED
    BY <1>k, <2>2, <2>4, <2>5, <2>6 DEF Travelling
<1>11. CASE HwSof
  <2>1. hw'.cq = hw.cq /\ (hw'.seq = hw.seq \/ hw'.seq = hw.cq[hw.base])
    BY <1>t, <1>11 DEF HwSof, HwType
  <2>2. hw.base \in 0 .. CqCount - 1
    BY <1>t DEF HwType
  <2> QED
    BY <1>k, <2>1, <2>2, <1>11 DEF HwSof, Travelling, seqVars
<1>12. CASE ComposerAck
  <2>1. scp'.inbox = scp.inbox /\ UNCHANGED <<irq, hw, dequeued_frame_seq_no>>
    BY <1>t, <1>12 DEF ComposerAck, ScpType
  <2> QED
    BY <1>k, <2>1 DEF Travelling
<1>13. CASE UNCHANGED vars
  BY <1>u, <1>13 DEF vars, sysVars, seqVars
<1> QED
  BY <1>1, <1>2, <1>3, <1>4, <1>5, <1>6, <1>7, <1>8, <1>9, <1>10, <1>11, <1>12, <1>13
     DEF Next, User, IoctlStep, IrqStep

\* A session starts with nothing travelling.
LEMMA TravellingFresh ==
  ASSUME "slowirq" \notin faults, TypeInv, QuietInv, StreamOn
  PROVE  Travelling(0)'
<1>1. irq' = IrqIdle
  BY DEF StreamOn, IrqPrompt, QuietInv
<1>2. /\ hw'.seq = 0 /\ hw'.cq = [i \in 0 .. CqCount - 1 |-> 0]
      /\ scp' = ScpIdle /\ dequeued_frame_seq_no' = 0
  BY DEF StreamOn, HwReset
<1> QED
  BY <1>1, <1>2 DEF Travelling, IrqIdle, ScpIdle

\* A number is given before it travels.
LEMMA NumberStep ==
  ASSUME "slowirq" \notin faults, CountInv, OrderInv, QuietInv, NumberInv,
         [Next]_vars
  PROVE  NumberInv'
<1>t. TypeInv
  BY DEF CountInv
<1>1. CASE StreamOn
  BY <1>t, <1>1, TravellingFresh DEF StreamOn, NumberInv, Travelling
<1>2. CASE ~StreamOn
  <2>1. /\ enqueued_frame_seq_no \in Nat /\ enqueued_frame_seq_no' \in Nat
        /\ enqueued_frame_seq_no <= enqueued_frame_seq_no'
    BY <1>t, <1>2, EnqueuedGrows
  <2>2. ASSUME composer_wq # <<>>
        PROVE  req[Head(composer_wq)].frame_seq_no <= enqueued_frame_seq_no
    <3> DEFINE r == Head(composer_wq)
    <3>1. r \in Reqs
      BY <1>t, <2>2, HeadTailProperties DEF TypeInv, CoreTypeOK
    <3> HIDE DEF r
    <3>2. running_job_list \in Seq(Reqs)
      BY <1>t DEF TypeInv, CoreTypeOK
    <3>3. req[r].frame_seq_no <= enqueued_frame_seq_no
      BY <2>1, <3>1, <3>2 DEF OrderInv
    <3> QED
      BY <3>3 DEF r
  <2>3. composer_wq # <<>> =>
          req[Head(composer_wq)].frame_seq_no <= enqueued_frame_seq_no'
    <3>1. composer_wq # <<>> => req[Head(composer_wq)].frame_seq_no \in Nat
      BY <1>t, HeadTailProperties DEF TypeInv, CoreTypeOK, ReqRecord
    <3> QED
      BY <2>1, <2>2, <3>1
  <2>4. Travelling(enqueued_frame_seq_no)
    BY DEF NumberInv
  <2> DEFINE m == enqueued_frame_seq_no
             k == enqueued_frame_seq_no'
  <2>5. m \in Int /\ k \in Int /\ m <= k /\ 0 <= k
    BY <2>1
  <2>6. Travelling(m)
    BY <2>4
  <2>7. TxFrameWorker => req[Head(composer_wq)].frame_seq_no <= k
    BY <2>3 DEF TxFrameWorker
  <2> HIDE DEF m, k
  <2>8. /\ \A i \in 1 .. Len(scp'.inbox) : scp'.inbox[i] <= k
        /\ \A i \in 0 .. CqCount - 1 : hw'.cq[i] <= k
        /\ hw'.seq <= k /\ irq'.seq <= k /\ dequeued_frame_seq_no' <= k
    BY <1>t, <1>2, <2>5, <2>6, <2>7, TravellingStep DEF Travelling
  <2> QED
    BY <2>8 DEF NumberInv, Travelling, k
<1> QED
  BY <1>1, <1>2

-----------------------------------------------------------------------------
\* The saved number is that of the current frame or of a finished one.
LEMMA FinishedStep ==
  ASSUME "slowirq" \notin faults, CountInv, QuietInv, FinishedInv, [Next]_vars
  PROVE  FinishedInv'
<1>t. /\ ioctl \in IoctlType /\ irq \in IrqType /\ hw \in HwType
      /\ streaming \in {0, 1} /\ vbq_streaming \in {0, 1}
  BY DEF CountInv, TypeInv, CoreTypeOK
<1>p. IoctlPhases
  BY DEF CountInv
<1> DEFINE SameHw ==
             /\ hw'.seq = hw.seq /\ hw'.bits = hw.bits
             /\ hw'.finished = hw.finished
             /\ hw'.state = "idle" => hw.state = "idle"
             /\ dequeued_frame_seq_no' = dequeued_frame_seq_no
           Starting == ioctl.op = "start" /\ streaming = 0
           Handles ==
             /\ UNCHANGED <<hw, ioctl, streaming, dequeued_frame_seq_no>>
             /\ irq.pc # "idle" /\ irq'.seq = irq.seq /\ irq'.pc # "event"
             /\ irq'.pc \in {"scan", "del", "done"} =>
                  \/ irq.pc \in {"scan", "del", "done"}
                  \/ irq.pc = "event" /\ "DON" \in irq.bits
<1>s. SameHw /\ UNCHANGED irq /\ (Starting' => Starting) => FinishedInv'
  BY DEF FinishedInv, Current, Finished
<1>h. Handles => FinishedInv'
  BY DEF FinishedInv, Current, Finished
<1>1. CASE \E b \in Bufs : QBuf(b)
  BY <1>s, <1>1 DEF QBuf, seqVars
<1>2. CASE DQBuf
  BY <1>s, <1>2 DEF DQBuf, seqVars
<1>3. CASE StreamOn
  <2>1. irq' = irq /\ irq = IrqIdle
    BY <1>3 DEF StreamOn, IrqPrompt, QuietInv
  <2>2. hw'.seq = 0 /\ dequeued_frame_seq_no' = 0
    BY <1>3 DEF StreamOn, HwReset
  <2> QED
    BY <2>1, <2>2 DEF FinishedInv, Finished, Current, IrqIdle
<1>4. CASE StreamOff
  <2>1. SameHw /\ UNCHANGED irq
    BY <1>t, <1>4 DEF StreamOff, HwType, seqVars
  <2>2. ioctl'.op = ioctl.op /\ ioctl.op # "start"
    BY <1>t, <1>p, <1>4 DEF StreamOff, IoctlType, IoctlPhases
  <2> QED
    BY <1>s, <2>1, <2>2
<1>5. CASE \E r \in Reqs : EnqueueNoRequest(r)
  BY <1>s, <1>t, <1>5 DEF EnqueueNoRequest, IoctlType, seqVars
<1>6. CASE EnqueueNoMemory
  BY <1>s, <1>t, <1>6 DEF EnqueueNoMemory, IoctlType, seqVars
<1>7. CASE IoctlTryQueue
  BY <1>s, <1>t, <1>7 DEF IoctlTryQueue, IoctlType, seqVars
<1>8. CASE IoctlMoveJobs
  BY <1>s, <1>t, <1>8 DEF IoctlMoveJobs, IoctlType, seqVars
<1>9. CASE EnqueueDone
  BY <1>s, <1>t, <1>9 DEF EnqueueDone, IoctlIdle, IoctlType, seqVars
<1>10. CASE SStreamOn
  <2>1. ioctl.op = "start"
    BY <1>t, <1>p, <1>10 DEF SStreamOn, IoctlPhases, IoctlType
  <2>2. ioctl'.op = "on"
    BY <1>t, <1>10 DEF SStreamOn, IoctlType
  <2>3. /\ UNCHANGED <<irq, dequeued_frame_seq_no>>
        /\ \/ UNCHANGED hw
           \/ hw.seq = 0 /\ hw' = [hw EXCEPT !.state = "idle"]
    BY <1>t, <2>1, <1>10 DEF SStreamOn, FinishedInv, seqVars
  <2>4. CASE UNCHANGED hw
    BY <1>s, <2>2, <2>3, <2>4
  <2>5. CASE hw.seq = 0 /\ hw' = [hw EXCEPT !.state = "idle"]
    <3>1. /\ hw'.seq = 0 /\ hw'.bits = hw.bits /\ hw'.finished = hw.finished
      BY <1>t, <2>5 DEF HwType
    <3> QED
      BY <2>2, <2>3, <2>5, <3>1 DEF FinishedInv, Finished, Current
  <2> QED
    BY <2>3, <2>4, <2>5
<1>11. CASE SStreamOnFails
  BY <1>s, <1>t, <1>11 DEF SStreamOnFails, IoctlIdle, IoctlType, seqVars
<1>12. CASE StreamOffIpi
  BY <1>s, <1>t, <1>12 DEF StreamOffIpi, HwType, IoctlType, seqVars
<1>13. CASE DestroyWorkqueue
  BY <1>s, <1>t, <1>13 DEF DestroyWorkqueue, IoctlType, seqVars
<1>14. CASE ReturnAllBuffers
  BY <1>s, <1>t, <1>14 DEF ReturnAllBuffers, IoctlType, seqVars
<1>15. CASE CleanPending
  BY <1>s, <1>t, <1>15 DEF CleanPending, IoctlType, seqVars
<1>16. CASE CleanRunning
  BY <1>s, <1>t, <1>16 DEF CleanRunning, IoctlType, seqVars
<1>17. CASE Vb2Cancel
  BY <1>s, <1>t, <1>17 DEF Vb2Cancel, IoctlIdle, IoctlType, seqVars
<1>18. CASE IrqEnter
  <2>1. /\ irq'.pc = "event" /\ irq'.bits = hw.bits /\ irq'.seq = hw.seq
        /\ hw'.bits = {} /\ hw'.seq = hw.seq /\ hw'.finished = hw.finished
        /\ hw'.state = hw.state
        /\ UNCHANGED <<dequeued_frame_seq_no, ioctl, streaming>>
    BY <1>t, <1>18 DEF IrqEnter, HwType, seqVars
  <2> QED
    BY <2>1 DEF FinishedInv, Finished, Current
<1>19. CASE IrqEvent
  BY <1>h, <1>t, <1>19 DEF IrqEvent, IrqType, seqVars
<1>20. CASE IrqScan
  BY <1>h, <1>t, <1>20 DEF IrqScan, IrqType, seqVars
<1>21. CASE IrqScanEnd
  BY <1>h, <1>t, <1>21 DEF IrqScanEnd, IrqType, seqVars
<1>22. CASE IrqDel
  BY <1>h, <1>t, <1>22 DEF IrqDel, IrqType, seqVars
<1>23. CASE IrqDone
  BY <1>h, <1>t, <1>23 DEF IrqDone, IrqType, seqVars
<1>24. CASE IrqTryQueue
  BY <1>h, <1>t, <1>24 DEF IrqTryQueue, IrqType, seqVars
<1>25. CASE IrqMoveJobs
  BY <1>h, <1>t, <1>25 DEF IrqMoveJobs, IrqType, seqVars
<1>26. CASE IrqSof
  <2>1. UNCHANGED <<hw, ioctl, streaming>> /\ irq.pc = "sof"
    BY <1>26 DEF IrqSof
  <2>2. CASE irq' = IrqIdle /\ UNCHANGED dequeued_frame_seq_no
    BY <2>1, <2>2 DEF FinishedInv, Finished, Current, IrqIdle
  <2>3. ASSUME NEW x, irq' = [irq EXCEPT !.pc = "stamp", !.cur = x],
               dequeued_frame_seq_no' = irq.seq
        PROVE  FinishedInv'
    <3>1. irq'.pc = "stamp" /\ irq'.seq = irq.seq
      BY <1>t, <2>3 DEF IrqType
    <3> QED
      BY <2>1, <2>3, <3>1 DEF FinishedInv, Finished, Current
  <2> QED
    BY <2>2, <2>3, <1>26 DEF IrqSof
<1>27. CASE IrqStamp
  <2>1. SameHw /\ irq' = IrqIdle /\ UNCHANGED <<ioctl, streaming>>
    BY <1>t, <1>27 DEF IrqStamp, HwType, seqVars
  <2> QED
    BY <2>1 DEF FinishedInv, Finished, Current, IrqIdle
<1>28. CASE TxFrameWorker \/ ComposerAck
  BY <1>s, <1>28 DEF TxFrameWorker, ComposerAck, seqVars
<1>29. CASE ScpCompose
  <2>1. SameHw /\ UNCHANGED <<irq, ioctl, streaming>>
    BY <1>t, <1>29 DEF ScpCompose, HwType, seqVars
  <2> QED
    BY <1>s, <2>1
<1>30. CASE HwSof
  <2>1. /\ hw.state = "idle" /\ hw'.state = "frame" /\ hw'.finished = hw.finished
        /\ UNCHANGED <<dequeued_frame_seq_no, irq, ioctl, streaming>>
    BY <1>t, <1>30 DEF HwSof, HwType, seqVars
  <2>2. ~Starting
    BY <1>p, <2>1 DEF QuietInv, IoctlPhases
  <2> QED
    BY <2>1, <2>2 DEF FinishedInv, Finished, Current
<1>31. CASE HwDone
  <2>1. /\ hw'.seq = hw.seq /\ hw'.finished = hw.finished \cup {hw.seq}
        /\ UNCHANGED <<dequeued_frame_seq_no, irq, ioctl, streaming>>
    BY <1>t, <1>31 DEF HwDone, HwType, seqVars
  <2> QED
    BY <2>1 DEF FinishedInv, Finished, Current
<1>32. CASE UNCHANGED vars
  BY <1>s, <1>32 DEF vars, sysVars, seqVars
<1> QED
  BY <1>1, <1>2, <1>3, <1>4, <1>5, <1>6, <1>7, <1>8, <1>9, <1>10, <1>11, <1>12, <1>13, <1>14, <1>15, <1>16, <1>17, <1>18, <1>19, <1>20, <1>21, <1>22, <1>23, <1>24, <1>25, <1>26, <1>27, <1>28, <1>29, <1>30, <1>31, <1>32
     DEF Next, User, IoctlStep, IrqStep

-----------------------------------------------------------------------------
\* The saved number and a request the SOF handler holds change only here.
LEMMA SofEffect ==
  ASSUME TypeInv, [Next]_vars
  PROVE  \/ StreamOn \/ IrqSof \/ IrqStamp
         \/ /\ dequeued_frame_seq_no' = dequeued_frame_seq_no
            /\ irq.pc = "stamp" => irq' = irq
            /\ irq'.pc = "stamp" => irq' = irq
<1>t. irq \in IrqType
  BY DEF TypeInv, CoreTypeOK
<1> DEFINE Keeps == /\ dequeued_frame_seq_no' = dequeued_frame_seq_no
                    /\ irq.pc = "stamp" => irq' = irq
                    /\ irq'.pc = "stamp" => irq' = irq
<1>1. CASE UNCHANGED <<dequeued_frame_seq_no, irq>>
  BY <1>1
<1>2. CASE (\E b \in Bufs : QBuf(b)) \/ DQBuf \/ StreamOff
           \/ (\E r \in Reqs : EnqueueNoRequest(r)) \/ EnqueueNoMemory
           \/ IoctlTryQueue \/ IoctlMoveJobs \/ EnqueueDone
  BY <1>1, <1>2 DEF QBuf, DQBuf, StreamOff, EnqueueNoRequest, EnqueueNoMemory,
     IoctlTryQueue, IoctlMoveJobs, EnqueueDone, seqVars
<1>3. CASE SStreamOn \/ SStreamOnFails \/ StreamOffIpi \/ DestroyWorkqueue
           \/ ReturnAllBuffers \/ CleanPending \/ CleanRunning \/ Vb2Cancel
  BY <1>1, <1>3 DEF SStreamOn, SStreamOnFails, StreamOffIpi, DestroyWorkqueue,
     ReturnAllBuffers, CleanPending, CleanRunning, Vb2Cancel, seqVars
<1>4. CASE IrqEnter \/ IrqEvent \/ IrqScan \/ IrqScanEnd
  <2>1. CASE IrqEnter
    BY <2>1 DEF IrqEnter, seqVars
  <2>2. CASE IrqEvent \/ IrqScanEnd
    BY <1>t, <2>2 DEF IrqEvent, IrqScanEnd, IrqType, seqVars
  <2>3. CASE IrqScan
    BY <1>t, <2>3 DEF IrqScan, IrqType, seqVars
  <2> QED
    BY <1>4, <2>1, <2>2, <2>3
<1>5. CASE IrqDel \/ IrqDone \/ IrqTryQueue \/ IrqMoveJobs
  BY <1>t, <1>5 DEF IrqDel, IrqDone, IrqTryQueue, IrqMoveJobs, IrqType, seqVars
<1>6. CASE TxFrameWorker \/ ScpCompose \/ ComposerAck \/ HwSof \/ HwDone
  BY <1>1, <1>6 DEF TxFrameWorker, ScpCompose, ComposerAck, HwSof, HwDone, seqVars
<1>7. CASE UNCHANGED vars
  BY <1>1, <1>7 DEF vars, sysVars, seqVars
<1> QED
  BY <1>2, <1>3, <1>4, <1>5, <1>6, <1>7 DEF Next, User, IoctlStep, IrqStep

\* The SOF handler stamps the job whose number it saves.
LEMMA StampStep ==
  ASSUME CountInv, HeapInv, OrderInv, NumberInv, StampInv, [Next]_vars
  PROVE  StampInv'
<1>y. TypeInv
  BY DEF CountInv
<1>t. /\ running_job_list \in Seq(Reqs) /\ pending_job_list \in Seq(Reqs)
      /\ Len(running_job_list) \in Nat /\ Len(pending_job_list) \in Nat
      /\ enqueued_frame_seq_no \in Nat /\ dequeued_frame_seq_no \in Nat
      /\ req \in [Reqs -> ReqRecord] /\ irq \in IrqType
      /\ \A i \in 1 .. Len(running_job_list) : running_job_list[i] \in Reqs
      /\ \A i \in 1 .. Len(pending_job_list) : pending_job_list[i] \in Reqs
  BY <1>y, ElementOfSeq DEF TypeInv, CoreTypeOK
<1>1. CASE StreamOn
  BY <1>1, StreamOnFresh DEF StreamOn, StampInv
<1>2. CASE IrqStamp
  <2>1. /\ running_job_list' = running_job_list /\ irq.pc = "stamp"
        /\ dequeued_frame_seq_no' = dequeued_frame_seq_no
        /\ req' = [r \in Reqs |-> IF r = irq.cur THEN [req[r] EXCEPT !.timestamp = 1]
                                  ELSE req[r]]
    BY <1>2 DEF IrqStamp, seqVars
  <2>2. ASSUME NEW i \in 1 .. Len(running_job_list),
               req'[running_job_list[i]].frame_seq_no = dequeued_frame_seq_no
        PROVE  req'[running_job_list[i]].timestamp = 1
    <3> DEFINE r == running_job_list[i]
    <3>1. r \in Reqs /\ req[r] \in ReqRecord
      BY <1>t
    <3>2. CASE r = irq.cur
      BY <2>1, <3>1, <3>2 DEF ReqRecord
    <3>3. CASE r # irq.cur
      BY <2>1, <2>2, <3>1, <3>3 DEF StampInv
    <3> QED
      BY <3>2, <3>3
  <2> QED
    BY <2>1, <2>2 DEF StampInv
<1>3. CASE IrqSof
  <2> DEFINE found == {i \in 1 .. Len(running_job_list) :
                         req[running_job_list[i]].frame_seq_no = irq.seq}
  <2>1. UNCHANGED <<running_job_list, req>>
    BY <1>3 DEF IrqSof, jobVars
  <2>2. CASE "SOF" \notin irq.bits
    BY <1>3, <2>1, <2>2 DEF IrqSof, StampInv
  <2>3. CASE "SOF" \in irq.bits
    <3>1. /\ dequeued_frame_seq_no' = irq.seq
          /\ irq' = [irq EXCEPT !.pc = "stamp", !.cur =
                       IF found = {} THEN NoReq
                       ELSE running_job_list[CHOOSE i \in found : TRUE]]
      BY <1>3, <2>3 DEF IrqSof
    <3>2. ASSUME NEW i \in 1 .. Len(running_job_list),
                 req[running_job_list[i]].frame_seq_no = irq.seq
          PROVE  irq'.pc = "stamp" /\ irq'.cur = running_job_list[i]
      <4> DEFINE j == CHOOSE x \in found : TRUE
      <4>1. i \in found
        BY <3>2
      <4>2. j \in found
        BY <4>1
      <4>3. irq'.pc = "stamp" /\ irq'.cur = running_job_list[j]
        BY <1>t, <3>1, <4>1 DEF IrqType
      <4> HIDE DEF j
      <4>4. /\ j \in 1 .. Len(running_job_list)
            /\ req[running_job_list[j]].frame_seq_no = irq.seq
        BY <4>2
      <4>5. j = i
        BY <1>t, <3>2, <4>4 DEF OrderInv
      <4> QED
        BY <4>3, <4>5
    <3> QED
      BY <2>1, <3>1, <3>2 DEF StampInv
  <2> QED
    BY <2>2, <2>3
<1>4. ASSUME dequeued_frame_seq_no' = dequeued_frame_seq_no,
             irq.pc = "stamp" => irq' = irq, ~StreamOn, ~IrqStamp
      PROVE  StampInv'
  <2> DEFINE Kept(r) == /\ \E j \in 1 .. Len(running_job_list) : running_job_list[j] = r
                        /\ req'[r] = req[r]
  <2>0. ASSUME \A i \in 1 .. Len(running_job_list') : Kept(running_job_list'[i])
        PROVE  StampInv'
    BY <1>4, <2>0 DEF StampInv
  <2>1. CASE SameJobs
    BY <1>4, <2>0, <2>1 DEF SameJobs
  <2>2. ASSUME NEW r \in Reqs, EnqueueNoRequest(r) PROVE StampInv'
    <3>1. /\ running_job_list' = running_job_list /\ r \notin heap
          /\ \A x \in Reqs : x # r => req'[x] = req[x]
      BY <1>t, <2>2 DEF EnqueueNoRequest
    <3>2. \A i \in 1 .. Len(running_job_list) : running_job_list[i] # r
      BY <3>1 DEF HeapInv
    <3> QED
      BY <1>t, <2>0, <3>1, <3>2
  <2>3. CASE MoveJobs
    <3> DEFINE n == Room
    <3>1. /\ n \in Nat /\ n <= Len(pending_job_list)
          /\ Len(running_job_list') = Len(running_job_list) + n
          /\ \A i \in 1 .. Len(running_job_list) :
               running_job_list'[i] = running_job_list[i]
          /\ \A i \in 1 .. n :
               running_job_list'[Len(running_job_list) + i] = pending_job_list[i]
      BY <1>y, <2>3, MoveJobsLists
    <3>2. /\ \A i \in 1 .. n :
               req'[pending_job_list[i]].frame_seq_no = enqueued_frame_seq_no + i
          /\ \A r \in Reqs : (\A i \in 1 .. n : pending_job_list[i] # r)
                             => req'[r] = req[r]
      BY <1>y, <2>3, MoveJobsNumbers
    <3> HIDE DEF n
    <3>3. ASSUME NEW i \in 1 .. Len(running_job_list'),
                 req'[running_job_list'[i]].frame_seq_no = dequeued_frame_seq_no
          PROVE  /\ i \in 1 .. Len(running_job_list)
                 /\ running_job_list'[i] = running_job_list[i]
                 /\ req'[running_job_list[i]] = req[running_job_list[i]]
      <4>1. CASE i \in 1 .. Len(running_job_list)
        <5>1. \A j \in 1 .. n : j \in 1 .. Len(pending_job_list)
          BY <1>t, <3>1
        <5>2. \A j \in 1 .. n : pending_job_list[j] # running_job_list[i]
          BY <4>1, <5>1 DEF HeapInv
        <5> QED
          BY <1>t, <3>1, <3>2, <4>1, <5>2
      <4>2. CASE i \notin 1 .. Len(running_job_list)
        <5>1. /\ i - Len(running_job_list) \in 1 .. n
              /\ Len(running_job_list) + (i - Len(running_job_list)) = i
          BY <1>t, <3>1, <4>2
        <5>2. running_job_list'[i] = pending_job_list[i - Len(running_job_list)]
          BY <3>1, <5>1
        <5>3. req'[running_job_list'[i]].frame_seq_no > enqueued_frame_seq_no
          BY <1>t, <3>2, <5>1, <5>2
        <5> QED
          BY <1>t, <3>3, <5>3 DEF NumberInv, Travelling
      <4> QED
        BY <4>1, <4>2
    <3> QED
      BY <1>4, <3>3 DEF StampInv
  <2>4. CASE PopJob /\ UNCHANGED <<pending_job_list, enqueued_frame_seq_no>>
    <3>1. /\ Len(running_job_list) \in Nat \ {0}
          /\ Len(running_job_list') = Len(running_job_list) - 1
          /\ \A i \in 1 .. Len(running_job_list) - 1 :
               running_job_list'[i] = running_job_list[i + 1]
          /\ req' = [r \in Reqs |-> IF r = running_job_list[1] THEN FreeReq
                                    ELSE req[r]]
      BY <1>y, <2>4, PopJobLists
    <3>2. ASSUME NEW i \in 1 .. Len(running_job_list')
          PROVE  Kept(running_job_list'[i])
      <4>1. /\ i + 1 \in 1 .. Len(running_job_list) /\ i + 1 # 1
            /\ 1 \in 1 .. Len(running_job_list)
            /\ running_job_list'[i] = running_job_list[i + 1]
        BY <3>1
      <4>2. running_job_list[i + 1] # running_job_list[1]
        BY <4>1 DEF HeapInv
      <4> QED
        BY <1>t, <3>1, <4>1, <4>2
    <3> QED
      BY <2>0, <3>2
  <2>5. CASE CleanPending
    <3>1. /\ running_job_list' = running_job_list
          /\ req' = [r \in Reqs |->
                       IF \E i \in 1 .. Len(pending_job_list) : pending_job_list[i] = r
                       THEN FreeReq ELSE req[r]]
      BY <2>5 DEF CleanPending, Kfree
    <3>2. \A i \in 1 .. Len(running_job_list) : Kept(running_job_list[i])
      BY <1>t, <3>1 DEF HeapInv
    <3> QED
      BY <2>0, <3>1, <3>2
  <2>6. CASE CleanRunning
    BY <2>6 DEF CleanRunning, StampInv
  <2> QED
    BY <1>y, <2>1, <2>2, <2>3, <2>4, <2>5, <2>6, JobEffect
<1> QED
  BY <1>y, <1>1, <1>2, <1>3, <1>4, SofEffect

-----------------------------------------------------------------------------
\* The steps that change the done list.
LEMMA DoneEffect ==
  ASSUME [Next]_vars
  PROVE  \/ UNCHANGED done_list
         \/ DQBuf
         \/ EnqueueNoMemory
         \/ IrqDone
         \/ Vb2Cancel
<1>1. CASE (\E b \in Bufs : QBuf(b)) \/ StreamOn \/ StreamOff
           \/ (\E r \in Reqs : EnqueueNoRequest(r)) \/ IoctlTryQueue
           \/ IoctlMoveJobs \/ EnqueueDone
  BY <1>1 DEF QBuf, StreamOn, StreamOff, EnqueueNoRequest, IoctlTryQueue,
     IoctlMoveJobs, EnqueueDone, vb2Vars
<1>2. CASE SStreamOn \/ SStreamOnFails \/ StreamOffIpi \/ DestroyWorkqueue
           \/ ReturnAllBuffers \/ CleanPending \/ CleanRunning
  BY <1>2 DEF SStreamOn, SStreamOnFails, StreamOffIpi, DestroyWorkqueue,
     ReturnAllBuffers, CleanPending, CleanRunning, vb2Vars
<1>3. CASE IrqEnter \/ IrqEvent \/ IrqScan \/ IrqScanEnd \/ IrqDel \/ IrqTryQueue
           \/ IrqMoveJobs \/ IrqSof \/ IrqStamp
  BY <1>3 DEF IrqEnter, IrqEvent, IrqScan, IrqScanEnd, IrqDel, IrqTryQueue,
     IrqMoveJobs, IrqSof, IrqStamp, vb2Vars
<1>4. CASE TxFrameWorker \/ ScpCompose \/ ComposerAck \/ HwSof \/ HwDone
  BY <1>4 DEF TxFrameWorker, ScpCompose, ComposerAck, HwSof, HwDone, vb2Vars
<1>5. CASE UNCHANGED vars
  BY <1>5 DEF vars, sysVars, vb2Vars
<1> QED
  BY <1>1, <1>2, <1>3, <1>4, <1>5 DEF Next, User, IoctlStep, IrqStep

\* A finished frame stays finished until the next session.
LEMMA FinishedGrows ==
  ASSUME TypeInv, [Next]_vars, ~StreamOn
  PROVE  hw.finished \subseteq hw'.finished
<1>t. hw \in HwType
  BY DEF TypeInv, CoreTypeOK
<1>1. CASE UNCHANGED hw
  BY <1>1
<1>2. CASE (\E b \in Bufs : QBuf(b)) \/ DQBuf
           \/ (\E r \in Reqs : EnqueueNoRequest(r)) \/ EnqueueNoMemory
           \/ IoctlTryQueue \/ IoctlMoveJobs \/ EnqueueDone
  BY <1>2 DEF QBuf, DQBuf, EnqueueNoRequest, EnqueueNoMemory, IoctlTryQueue,
     IoctlMoveJobs, EnqueueDone
<1>3. CASE SStreamOnFails \/ DestroyWorkqueue \/ ReturnAllBuffers \/ CleanPending
           \/ CleanRunning \/ Vb2Cancel
  BY <1>3 DEF SStreamOnFails, DestroyWorkqueue, ReturnAllBuffers, CleanPending,
     CleanRunning, Vb2Cancel
<1>4. CASE SStreamOn \/ StreamOff \/ StreamOffIpi
  BY <1>t, <1>4 DEF SStreamOn, StreamOff, StreamOffIpi, HwType
<1>5. CASE IrqEvent \/ IrqScan \/ IrqScanEnd \/ IrqDel \/ IrqDone \/ IrqTryQueue
           \/ IrqMoveJobs \/ IrqSof
  BY <1>5 DEF IrqEvent, IrqScan, IrqScanEnd, IrqDel, IrqDone, IrqTryQueue,
     IrqMoveJobs, IrqSof
<1>6. CASE IrqEnter \/ IrqStamp
  BY <1>t, <1>6 DEF IrqEnter, IrqStamp, HwType
<1>7. CASE TxFrameWorker \/ ComposerAck
  BY <1>7 DEF TxFrameWorker, ComposerAck
<1>8. CASE ScpCompose \/ HwSof \/ HwDone
  <2>1. CASE ScpCompose
    BY <1>t, <2>1 DEF ScpCompose, HwType
  <2>2. CASE HwSof
    BY <1>t, <2>2 DEF HwSof, HwType
  <2>3. CASE HwDone
    BY <1>t, <2>3 DEF HwDone, HwType
  <2> QED
    BY <1>8, <2>1, <2>2, <2>3
<1>9. CASE UNCHANGED vars
  BY <1>9 DEF vars, sysVars
<1> QED
  BY <1>2, <1>3, <1>4, <1>5, <1>6, <1>7, <1>8, <1>9 DEF Next, User, IoctlStep, IrqStep

\* Only STREAMOFF ends the frames of a session, and it drops what is done.
LEMMA BeforeFramesStep ==
  ASSUME CountInv, [Next]_vars, BeforeFrames'
  PROVE  BeforeFrames \/ Vb2Cancel
<1>t. ioctl \in IoctlType /\ streaming \in {0, 1}
  BY DEF CountInv, TypeInv, CoreTypeOK
<1>p. IoctlPhases
  BY DEF CountInv
<1> USE DEF BeforeFrames
<1>1. CASE UNCHANGED <<vbq_streaming, ioctl, streaming>>
  BY <1>1
<1>2. CASE \E b \in Bufs : QBuf(b)
  BY <1>2 DEF QBuf
<1>3. CASE DQBuf \/ StreamOn \/ StreamOff
  BY <1>t, <1>3 DEF DQBuf, StreamOn, StreamOff, IoctlType, vb2Vars
<1>4. CASE \E r \in Reqs : EnqueueNoRequest(r)
  BY <1>t, <1>4 DEF EnqueueNoRequest, IoctlType, vb2Vars
<1>5. CASE EnqueueNoMemory \/ IoctlTryQueue
  BY <1>t, <1>5 DEF EnqueueNoMemory, IoctlTryQueue, IoctlType, vb2Vars
<1>6. CASE IoctlMoveJobs
  BY <1>t, <1>6 DEF IoctlMoveJobs, IoctlType, vb2Vars
<1>7. CASE EnqueueDone
  BY <1>t, <1>p, <1>7 DEF EnqueueDone, IoctlPhases, IoctlType, IoctlIdle
<1>8. CASE SStreamOn
  BY <1>t, <1>8 DEF SStreamOn, IoctlType, vb2Vars
<1>9. CASE SStreamOnFails
  BY <1>t, <1>p, <1>9 DEF SStreamOnFails, IoctlPhases, IoctlType
<1>10. CASE StreamOffIpi \/ DestroyWorkqueue \/ ReturnAllBuffers
  BY <1>t, <1>p, <1>10 DEF StreamOffIpi, DestroyWorkqueue, ReturnAllBuffers, IoctlType,
     vb2Vars
<1>11. CASE CleanPending \/ CleanRunning
  BY <1>t, <1>11 DEF CleanPending, CleanRunning, IoctlType, vb2Vars
<1>12. CASE IrqEnter \/ IrqEvent \/ IrqScan \/ IrqScanEnd \/ IrqDel
  BY <1>1, <1>12 DEF IrqEnter, IrqEvent, IrqScan, IrqScanEnd, IrqDel, vb2Vars
<1>13. CASE IrqDone \/ IrqTryQueue \/ IrqMoveJobs \/ IrqSof \/ IrqStamp
  BY <1>1, <1>13 DEF IrqDone, IrqTryQueue, IrqMoveJobs, IrqSof, IrqStamp, vb2Vars
<1>14. CASE TxFrameWorker \/ ScpCompose \/ ComposerAck \/ HwSof \/ HwDone
  BY <1>1, <1>14 DEF TxFrameWorker, ScpCompose, ComposerAck, HwSof, HwDone, vb2Vars
<1>15. CASE UNCHANGED vars
  BY <1>1, <1>15 DEF vars, sysVars, vb2Vars
<1> QED
  BY <1>1, <1>2, <1>3, <1>4, <1>5, <1>6, <1>7, <1>8, <1>9, <1>10, <1>11, <1>12, <1>13, <1>14, <1>15
     DEF Next, User, IoctlStep, IrqStep

\* Before the frames of a session no job is left to complete.
LEMMA NothingToComplete ==
  ASSUME CountInv, IrqDone
  PROVE  ~BeforeFrames
<1>1. running_job_list # <<>>
  BY DEF IrqDone, CountInv, TypeInv, IrqHoldsHead
<1>2. ioctl \in IoctlType
  BY DEF CountInv, TypeInv, CoreTypeOK
<1> QED
  BY <1>1, <1>2 DEF BeforeFrames, CountInv, NothingRuns, IoctlPhases, InSession, IoctlType

\* What the handler completes: the oldest job, with its own number and time.
LEMMA IrqDoneEffect ==
  ASSUME CountInv, HeapInv, OrderInv, FinishedInv, StampInv, IrqDone
  PROVE  /\ Len(running_job_list) \in Nat \ {0}
         /\ \/ UNCHANGED done_list
            \/ \E c \in Completion :
                 /\ done_list' = Append(done_list, c)
                 /\ c.buf = req[irq.cur].sbuf
                 /\ c.sequence = enqueued_frame_seq_no - Len(running_job_list) + 1
                 /\ c.sequence # 0
                 /\ c.state = "done" => c.timestamp = 1 /\ c.sequence \in hw.finished
<1> DEFINE q == req[irq.cur]
           c == [buf |-> q.sbuf,
                 state |-> IF q.frame_seq_no = dequeued_frame_seq_no
                           THEN "done" ELSE "error",
                 sequence |-> Sequence(q), timestamp |-> q.timestamp]
<1>1. /\ running_job_list \in Seq(Reqs) /\ running_job_list # <<>>
      /\ irq.cur = Head(running_job_list) /\ irq.pc = "done"
      /\ req \in [Reqs -> ReqRecord] /\ enqueued_frame_seq_no \in Nat
  BY DEF IrqDone, CountInv, TypeInv, CoreTypeOK, IrqHoldsHead
<1>2. /\ Len(running_job_list) \in Nat \ {0} /\ 1 \in 1 .. Len(running_job_list)
      /\ irq.cur = running_job_list[1] /\ irq.cur \in Reqs
  BY <1>1, EmptySeq, HeadTailProperties
<1>3. q \in ReqRecord
  BY <1>1, <1>2
<1>4. q.frame_seq_no = enqueued_frame_seq_no - Len(running_job_list) + 1
  BY <1>2 DEF OrderInv
<1>5. q.frame_seq_no \in Nat /\ q.frame_seq_no # 0
  BY <1>1, <1>2, <1>4 DEF OrderInv
<1>6. ASSUME q.frame_seq_no = dequeued_frame_seq_no
      PROVE  q.timestamp = 1 /\ q.frame_seq_no \in hw.finished
  <2>1. q.timestamp = 1
    BY <1>1, <1>2, <1>6 DEF StampInv
  <2>2. Finished(dequeued_frame_seq_no)
    BY <1>1 DEF FinishedInv
  <2> QED
    BY <1>5, <1>6, <2>1, <2>2 DEF Finished
<1> HIDE DEF q
<1>7. /\ c.buf = q.sbuf /\ c.sequence = q.frame_seq_no
      /\ c.timestamp = q.timestamp
      /\ c.state \in {"done", "error"}
      /\ c.state = "done" => q.frame_seq_no = dequeued_frame_seq_no
  BY DEF Sequence
<1>8. Vb2BufferDone(c)
  BY DEF IrqDone, q
<1>9. c.buf \in Bufs => c \in Completion
  BY <1>3, <1>7 DEF Completion, ReqRecord, Sequence
<1> HIDE DEF c
<1>10. UNCHANGED done_list \/ (c.buf \in Bufs /\ done_list' = Append(done_list, c))
  BY <1>8 DEF Vb2BufferDone
<1>11. CASE c.buf \in Bufs /\ done_list' = Append(done_list, c)
  <2>1. /\ c.buf = req[irq.cur].sbuf
        /\ c.sequence = enqueued_frame_seq_no - Len(running_job_list) + 1
        /\ c.sequence # 0
        /\ c.state = "done" => c.timestamp = 1 /\ c.sequence \in hw.finished
    BY <1>4, <1>5, <1>6, <1>7 DEF q
  <2> QED
    BY <1>2, <1>9, <1>11, <2>1
<1> QED
  BY <1>2, <1>10, <1>11

\* What is delivered as good is a finished frame with its time.
LEMMA DoneStep ==
  ASSUME CountInv, HeapInv, OrderInv, FinishedInv, StampInv, DoneInv, [Next]_vars
  PROVE  DoneInv'
<1>t. /\ done_list \in Seq(Completion) /\ ioctl \in IoctlType
      /\ Len(done_list) \in Nat /\ TypeInv
      /\ \A i \in 1 .. Len(done_list) : done_list[i] \in Completion
  BY ElementOfSeq DEF CountInv, TypeInv, CoreTypeOK
<1>f. ASSUME ~StreamOn PROVE hw.finished \subseteq hw'.finished
  BY <1>t, <1>f, FinishedGrows
<1>b. BeforeFrames' => BeforeFrames \/ Vb2Cancel
  BY BeforeFramesStep
<1>1. CASE StreamOn
  <2>1. BeforeFrames /\ UNCHANGED done_list
    BY <1>1 DEF StreamOn, BeforeFrames
  <2> QED
    BY <2>1 DEF DoneInv
<1>2. CASE Vb2Cancel
  BY <1>2 DEF Vb2Cancel, DoneInv
<1>3. CASE UNCHANGED done_list /\ ~StreamOn /\ ~Vb2Cancel
  BY <1>3, <1>f, <1>b DEF DoneInv
<1>4. CASE DQBuf
  <2>1. /\ Len(done_list') = Len(done_list) - 1 /\ Len(done_list) # 0
        /\ \A i \in 1 .. Len(done_list) - 1 : done_list'[i] = done_list[i + 1]
    BY <1>t, <1>4, EmptySeq, HeadTailProperties DEF DQBuf
  <2>2. UNCHANGED <<hw, ioctl, vbq_streaming, streaming>>
    BY <1>4 DEF DQBuf
  <2>3. \A i \in 1 .. Len(done_list') :
          i + 1 \in 1 .. Len(done_list) /\ done_list'[i] = done_list[i + 1]
    BY <1>t, <2>1
  <2> QED
    BY <2>2, <2>3 DEF DoneInv, BeforeFrames
<1>5. CASE EnqueueNoMemory
  <2> DEFINE c == [buf |-> Head(ioctl.todo), state |-> "error",
                   sequence |-> 0, timestamp |-> 0]
  <2>1. Vb2BufferDone(c) /\ c.state = "error"
    BY <1>5 DEF EnqueueNoMemory
  <2> HIDE DEF c
  <2>2. UNCHANGED done_list \/ done_list' = Append(done_list, c)
    BY <2>1 DEF Vb2BufferDone
  <2>3. UNCHANGED hw /\ (BeforeFrames' => BeforeFrames)
    BY <1>5, <1>b DEF EnqueueNoMemory, Vb2Cancel
  <2>4. CASE done_list' = Append(done_list, c)
    <3>1. /\ Len(done_list') = Len(done_list) + 1
          /\ \A i \in 1 .. Len(done_list) : done_list'[i] = done_list[i]
          /\ done_list'[Len(done_list) + 1] = c
      BY <1>t, <2>4
    <3>2. \A i \in 1 .. Len(done_list') :
            \/ i \in 1 .. Len(done_list) /\ done_list'[i] = done_list[i]
            \/ done_list'[i] = c
      BY <1>t, <3>1
    <3> QED
      BY <2>1, <2>3, <3>2 DEF DoneInv
  <2> QED
    BY <2>2, <2>3, <2>4 DEF DoneInv
<1>6. CASE IrqDone
  <2>1. UNCHANGED hw
    BY <1>6 DEF IrqDone
  <2>2. ~BeforeFrames'
    BY <1>6, <1>b, NothingToComplete DEF IrqDone, Vb2Cancel, BeforeFrames
  <2>3. CASE UNCHANGED done_list
    BY <2>1, <2>2, <2>3 DEF DoneInv
  <2>4. ASSUME NEW c \in Completion, done_list' = Append(done_list, c),
               c.state = "done" => c.timestamp = 1 /\ c.sequence \in hw.finished
        PROVE  DoneInv'
    <3>1. /\ Len(done_list') = Len(done_list) + 1
          /\ \A i \in 1 .. Len(done_list) : done_list'[i] = done_list[i]
          /\ done_list'[Len(done_list) + 1] = c
      BY <1>t, <2>4
    <3>2. \A i \in 1 .. Len(done_list') :
            \/ i \in 1 .. Len(done_list) /\ done_list'[i] = done_list[i]
            \/ done_list'[i] = c
      BY <1>t, <3>1
    <3> QED
      BY <2>1, <2>2, <2>4, <3>2 DEF DoneInv
  <2> QED
    BY <1>6, <2>3, <2>4, IrqDoneEffect
<1> QED
  BY <1>1, <1>2, <1>3, <1>4, <1>5, <1>6, DoneEffect

-----------------------------------------------------------------------------
\* One step of everything up to here.
LEMMA FrameStep ==
  ASSUME "slowirq" \notin faults, FrameInv, [Next]_vars
  PROVE  FrameInv'
<1>1. CountInv' /\ CountInv /\ TypeInv
  BY CountStep DEF FrameInv, CountInv
<1>2. HeapInv'
  BY <1>1, HeapStep DEF FrameInv
<1>3. OrderInv'
  BY OrderStep DEF FrameInv
<1>4. QuietInv'
  BY QuietStep DEF FrameInv
<1>5. NumberInv'
  BY NumberStep DEF FrameInv
<1>6. FinishedInv'
  BY FinishedStep DEF FrameInv
<1>7. StampInv'
  BY StampStep DEF FrameInv
<1>8. DoneInv'
  BY DoneStep DEF FrameInv
<1> QED
  BY <1>1, <1>2, <1>3, <1>4, <1>5, <1>6, <1>7, <1>8 DEF FrameInv

LEMMA FrameInit == Init => FrameInv
<1> SUFFICES ASSUME Init PROVE FrameInv
  OBVIOUS
<1>1. CountInv
  BY JobsAssumption DEF Init, CountInv, TypeInv, CoreTypeOK, IoctlIdle, IrqIdle,
     ScpIdle, HwReset, FreeReq, ReqRecord, IoctlPC, IrqPC, IoctlType, IrqType,
     ScpType, HwType, IrqHoldsHead, IoctlPhases, NothingRuns, CountExact, InSession,
     Leaving
<1>2. HeapInv /\ StampInv
  BY DEF Init, HeapInv, StampInv
<1>3. OrderInv
  BY DEF Init, OrderInv, FreeReq
<1>4. QuietInv
  BY DEF Init, QuietInv, IrqIdle, IoctlIdle, HwReset
<1>5. NumberInv
  BY DEF Init, NumberInv, Travelling, ScpIdle, HwReset, IrqIdle
<1>6. FinishedInv
  BY DEF Init, FinishedInv, Current, Finished, HwReset, IrqIdle, IoctlIdle
<1>7. DoneInv
  BY DEF Init, DoneInv
<1> QED
  BY <1>1, <1>2, <1>3, <1>4, <1>5, <1>6, <1>7 DEF FrameInv

\* The faults of a behaviour are chosen once.
LEMMA FaultsFixed == [Next]_vars => faults' = faults
BY DEF Next, vars

\* For every number of buffers, every job limit and every other fault, a buffer
\* that mtk_cam_dev_job_done completes as good holds a frame the ISP finished
\* and the time of that frame.
THEOREM DoneAlwaysReal == Spec => []DoneIsReal
<1> DEFINE Inv == "slowirq" \notin faults => FrameInv
<1>1. Init => Inv
  BY FrameInit
<1>2. Inv => DoneIsReal
  BY DEF FrameInv, DoneInv, DoneIsReal, Without
<1>3. Inv /\ [Next]_vars => Inv'
  BY FaultsFixed, FrameStep
<1> QED
  BY <1>1, <1>2, <1>3, PTL DEF Spec

-----------------------------------------------------------------------------
\* The number of the youngest job that has left the running list never falls.
LEMMA OldestGrows ==
  ASSUME TypeInv, [Next]_vars, ~StreamOn
  PROVE  enqueued_frame_seq_no - Len(running_job_list) <=
           enqueued_frame_seq_no' - Len(running_job_list')
<1>1. /\ running_job_list \in Seq(Reqs) /\ enqueued_frame_seq_no \in Nat
      /\ Len(running_job_list) \in Nat
  BY DEF TypeInv, CoreTypeOK
<1>2. CASE MoveJobs
  <2>1. /\ Len(running_job_list') = Len(running_job_list) + Room /\ Room \in Nat
        /\ enqueued_frame_seq_no' = enqueued_frame_seq_no + Room
    BY <1>2, MoveJobsLists DEF MoveJobs
  <2> QED
    BY <1>1, <2>1
<1>3. CASE PopJob /\ UNCHANGED <<pending_job_list, enqueued_frame_seq_no>>
  BY <1>1, <1>3, PopJobLists
<1>4. CASE CleanRunning
  BY <1>1, <1>4 DEF CleanRunning
<1>5. CASE UNCHANGED <<running_job_list, enqueued_frame_seq_no>>
  BY <1>1, <1>5
<1> QED
  BY <1>2, <1>3, <1>4, <1>5, JobEffect DEF SameJobs, EnqueueNoRequest, CleanPending

\* Completion keeps the order of the frames.
LEMMA DeliverStep ==
  ASSUME "alloc" \notin faults, FrameInv, DeliverInv, [Next]_vars
  PROVE  DeliverInv'
<1>i. /\ CountInv /\ HeapInv /\ OrderInv /\ FinishedInv /\ StampInv /\ TypeInv
  BY DEF FrameInv, CountInv
<1>t. /\ done_list \in Seq(Completion) /\ Len(done_list) \in Nat
      /\ \A i \in 1 .. Len(done_list) : done_list[i].sequence \in Nat
      /\ running_job_list \in Seq(Reqs) /\ enqueued_frame_seq_no \in Nat
      /\ Len(running_job_list) \in Nat
  <2>1. done_list \in Seq(Completion)
    BY <1>i DEF TypeInv, CoreTypeOK
  <2>2. \A i \in 1 .. Len(done_list) : done_list[i] \in Completion
    BY <2>1, ElementOfSeq
  <2>3. \A i \in 1 .. Len(done_list) : done_list[i].sequence \in Nat
    BY <2>2 DEF Completion
  <2> QED
    BY <1>i, <2>1, <2>3 DEF TypeInv, CoreTypeOK
<1>u. /\ running_job_list' \in Seq(Reqs) /\ enqueued_frame_seq_no' \in Nat
      /\ Len(running_job_list') \in Nat
  BY <1>i, TypeStep DEF TypeInv, CoreTypeOK
<1>b. BeforeFrames' => BeforeFrames \/ Vb2Cancel
  BY <1>i, BeforeFramesStep
<1> DEFINE L == enqueued_frame_seq_no - Len(running_job_list)
<1>l. L \in Int /\ L' \in Int
  BY <1>t, <1>u
<1>g. ASSUME ~StreamOn PROVE L <= L'
  BY <1>i, <1>g, OldestGrows
<1>d. /\ \A i, j \in 1 .. Len(done_list) :
           i < j => done_list[i].sequence < done_list[j].sequence
      /\ \A i \in 1 .. Len(done_list) : done_list[i].sequence <= L
      /\ BeforeFrames => done_list = <<>>
  BY DEF DeliverInv
<1>q. DeliverInv' <=>
        /\ \A i, j \in 1 .. Len(done_list') :
             i < j => done_list'[i].sequence < done_list'[j].sequence
        /\ \A i \in 1 .. Len(done_list') : done_list'[i].sequence <= L'
        /\ BeforeFrames' => done_list' = <<>>
  BY DEF DeliverInv
<1>1. CASE StreamOn
  <2>1. BeforeFrames /\ done_list' = done_list
    BY <1>1 DEF StreamOn, BeforeFrames
  <2> QED
    BY <1>d, <1>q, <2>1
<1>2. CASE Vb2Cancel
  BY <1>2, <1>q DEF Vb2Cancel
<1>4. CASE DQBuf
  <2>1. /\ Len(done_list') = Len(done_list) - 1 /\ Len(done_list) # 0
        /\ \A i \in 1 .. Len(done_list) - 1 : done_list'[i] = done_list[i + 1]
    BY <1>t, <1>4, EmptySeq, HeadTailProperties DEF DQBuf
  <2>2. L' = L /\ ~BeforeFrames'
    BY <1>4, <1>d DEF DQBuf, jobVars, BeforeFrames
  <2>3. \A i \in 1 .. Len(done_list') :
          i + 1 \in 1 .. Len(done_list) /\ done_list'[i] = done_list[i + 1]
    BY <1>t, <2>1
  <2> HIDE DEF L
  <2>4. ASSUME NEW i \in 1 .. Len(done_list'), NEW j \in 1 .. Len(done_list'), i < j
        PROVE  done_list'[i].sequence < done_list'[j].sequence
    <3>1. i + 1 < j + 1
      BY <1>t, <2>1, <2>4
    <3> QED
      BY <1>d, <2>3, <3>1
  <2>5. \A i \in 1 .. Len(done_list') : done_list'[i].sequence <= L'
    BY <1>d, <2>2, <2>3
  <2> QED
    BY <1>q, <2>2, <2>4, <2>5
<1>5. CASE UNCHANGED done_list /\ ~StreamOn /\ ~Vb2Cancel
  <2>1. L <= L'
    BY <1>5, <1>g
  <2> HIDE DEF L
  <2> QED
    BY <1>b, <1>d, <1>l, <1>q, <1>t, <1>5, <2>1
<1>6. CASE IrqDone
  <2>1. ~BeforeFrames'
    BY <1>6, <1>i, <1>b, NothingToComplete DEF IrqDone, Vb2Cancel, BeforeFrames
  <2>2. CASE UNCHANGED done_list
    <3>1. ~StreamOn
      BY <1>6, <1>i, NothingToComplete DEF StreamOn, BeforeFrames
    <3>2. ~Vb2Cancel
      BY <1>6 DEF IrqDone, Vb2Cancel, IoctlIdle
    <3> QED
      BY <1>5, <2>2, <3>1, <3>2
  <2>3. ASSUME NEW c \in Completion, done_list' = Append(done_list, c),
               c.sequence = enqueued_frame_seq_no - Len(running_job_list) + 1,
               Len(running_job_list) \in Nat \ {0}
        PROVE  DeliverInv'
    <3>1. /\ Len(done_list') = Len(done_list) + 1
          /\ \A i \in 1 .. Len(done_list) : done_list'[i] = done_list[i]
          /\ done_list'[Len(done_list) + 1] = c
      BY <1>t, <2>3
    <3>2. L' = L + 1
      BY <1>t, <1>6, <2>3, EmptySeq, HeadTailProperties DEF IrqDone
    <3>3. c.sequence = L + 1
      BY <2>3
    <3> HIDE DEF L
    <3>4. \A i \in 1 .. Len(done_list') :
            \/ i \in 1 .. Len(done_list) /\ done_list'[i] = done_list[i]
            \/ i = Len(done_list) + 1 /\ done_list'[i] = c
      BY <1>t, <3>1
    <3>5. ASSUME NEW i \in 1 .. Len(done_list'), NEW j \in 1 .. Len(done_list'), i < j
          PROVE  done_list'[i].sequence < done_list'[j].sequence
      <4>1. i \in 1 .. Len(done_list) /\ done_list'[i] = done_list[i]
        BY <1>t, <3>1, <3>4, <3>5
      <4>2. CASE j \in 1 .. Len(done_list)
        BY <1>d, <3>1, <3>5, <4>1, <4>2
      <4>3. CASE j \notin 1 .. Len(done_list)
        <5>1. done_list'[j].sequence = L + 1
          BY <3>3, <3>4, <4>3
        <5>2. done_list'[i].sequence \in Nat /\ done_list'[i].sequence <= L
          BY <1>d, <1>t, <4>1
        <5> QED
          BY <1>l, <5>1, <5>2
      <4> QED
        BY <4>2, <4>3
    <3>6. ASSUME NEW i \in 1 .. Len(done_list')
          PROVE  done_list'[i].sequence <= L'
      <4>1. CASE i \in 1 .. Len(done_list) /\ done_list'[i] = done_list[i]
        <5>1. done_list'[i].sequence \in Nat /\ done_list'[i].sequence <= L
          BY <1>d, <1>t, <4>1
        <5> QED
          BY <1>l, <3>2, <5>1
      <4>2. CASE done_list'[i] = c
        BY <1>l, <3>2, <3>3, <4>2
      <4> QED
        BY <3>4, <4>1, <4>2
    <3> QED
      BY <1>q, <2>1, <3>5, <3>6
  <2> QED
    BY <1>6, <1>i, <2>2, <2>3, IrqDoneEffect
<1>7. ~EnqueueNoMemory
  BY DEF EnqueueNoMemory
<1> QED
  BY <1>1, <1>2, <1>4, <1>5, <1>6, <1>7, DoneEffect

\* For every number of buffers, every job limit and every fault but a failed
\* allocation, buffers are delivered in frame order and before every job that
\* is left in the hardware.
THEOREM AlwaysDeliveredInOrder == Spec => []DeliveredInOrder
<1> DEFINE Inv == /\ "slowirq" \notin faults => FrameInv
                  /\ {"alloc", "slowirq"} \cap faults = {} => DeliverInv
<1>1. Init => Inv
  BY FrameInit DEF Init, DeliverInv
<1>2. Inv => DeliveredInOrder
  <2>1. ASSUME FrameInv, DeliverInv, NEW i \in 1 .. Len(done_list)
        PROVE  done_list[i].sequence <=
                 enqueued_frame_seq_no - Len(running_job_list) + Leaving
    <3>1. /\ done_list[i].sequence \in Nat /\ enqueued_frame_seq_no \in Nat
          /\ Len(running_job_list) \in Nat
      <4>1. /\ done_list \in Seq(Completion) /\ enqueued_frame_seq_no \in Nat
            /\ running_job_list \in Seq(Reqs)
        BY <2>1 DEF FrameInv, CountInv, TypeInv, CoreTypeOK
      <4>2. done_list[i] \in Completion
        BY <2>1, <4>1, ElementOfSeq
      <4> QED
        BY <4>1, <4>2 DEF Completion
    <3>2. Leaving \in {0, 1}
      BY DEF Leaving
    <3> QED
      BY <2>1, <3>1, <3>2 DEF DeliverInv
  <2> QED
    BY <2>1 DEF DeliverInv, DeliveredInOrder, Without
<1>3. Inv /\ [Next]_vars => Inv'
  BY FaultsFixed, FrameStep, DeliverStep
<1> QED
  BY <1>1, <1>2, <1>3, PTL DEF Spec
-----------------------------------------------------------------------------
(***************************************************************************)
(* The memory of the requests.  These layers of the invariant build on     *)
(* FrameInv.                                                               *)
(***************************************************************************)
\* When the sub-devices stop as they are told: whether the ISP streams follows
\* from the phase of the ioctl, and the work queue outlives the streaming.
StreamPhases ==
  /\ ioctl.op \in {"on", "qbuf"} \/ (ioctl.pc = "idle" /\ vbq_streaming = 1)
       <=> streaming = 1
  /\ streaming = 1 \/ ioctl.op = "start" \/ ioctl.pc \in {"ipi", "destroy"}
       => wq_alive = 1
  /\ ioctl.pc = "move" => streaming = 1

\* The queued work is that of the youngest jobs, whose numbers do not travel
\* yet: the handler cannot free them.
WorkInv ==
  /\ Len(composer_wq) <= Len(running_job_list)
  /\ \A i \in 1 .. Len(composer_wq) :
       composer_wq[i] =
         running_job_list[Len(running_job_list) - Len(composer_wq) + i]
  /\ irq.pc \in {"del", "done"} => Len(composer_wq) < Len(running_job_list)
  /\ Travelling(enqueued_frame_seq_no - Len(composer_wq))
  /\ streaming = 0 /\ ioctl.pc \notin {"ipi", "destroy"} => composer_wq = <<>>

\* The request the SOF handler holds without the lock is a running job.
HeldInv ==
  irq.pc = "stamp" =>
    \/ irq.cur = NoReq
    \/ \E i \in 1 .. Len(running_job_list) : running_job_list[i] = irq.cur

-----------------------------------------------------------------------------
\* The phases survive every step unless a sub-device refuses to stop.
LEMMA StreamPhasesStep ==
  ASSUME "stop" \notin faults, TypeInv, IoctlPhases, StreamPhases, [Next]_vars
  PROVE  StreamPhases'
<1>t. /\ ioctl \in IoctlType /\ streaming \in {0, 1} /\ vbq_streaming \in {0, 1}
      /\ IoctlPhases
  BY DEF TypeInv, CoreTypeOK
<1>u. UNCHANGED <<ioctl, streaming, vbq_streaming, wq_alive>> => StreamPhases'
  BY DEF StreamPhases
<1>1. CASE \E b \in Bufs : QBuf(b)
  <2>1. /\ UNCHANGED <<vbq_streaming, streaming, wq_alive>> /\ ioctl.pc = "idle"
        /\ \/ UNCHANGED ioctl
           \/ vbq_streaming = 1 /\ ioctl'.op = "qbuf" /\ ioctl'.pc \in {"enq", "corrupt"}
    BY <1>1 DEF QBuf
  <2> QED
    BY <1>t, <2>1 DEF StreamPhases
<1>2. CASE StreamOn
  BY <1>t, <1>2 DEF StreamOn, IoctlPhases, IoctlType, vb2Vars, StreamPhases
<1>3. CASE StreamOff
  BY <1>t, <1>3 DEF StreamOff, IoctlPhases, IoctlType, vb2Vars, StreamPhases
<1>4. CASE \E r \in Reqs : EnqueueNoRequest(r)
  BY <1>t, <1>4 DEF EnqueueNoRequest, IoctlPhases, IoctlType, vb2Vars, StreamPhases
<1>5. CASE EnqueueNoMemory
  BY <1>t, <1>5 DEF EnqueueNoMemory, IoctlType, vb2Vars, StreamPhases
<1>6. CASE IoctlTryQueue
  BY <1>t, <1>6 DEF IoctlTryQueue, IoctlType, vb2Vars, StreamPhases
<1>7. CASE IoctlMoveJobs
  BY <1>t, <1>7 DEF IoctlMoveJobs, IoctlType, vb2Vars, StreamPhases
<1>8. CASE EnqueueDone
  BY <1>t, <1>8 DEF EnqueueDone, IoctlIdle, IoctlPhases, IoctlType, vb2Vars, StreamPhases
<1>9. CASE SStreamOn
  BY <1>t, <1>9 DEF SStreamOn, IoctlPhases, IoctlType, vb2Vars, StreamPhases
<1>10. CASE SStreamOnFails
  BY <1>t, <1>10 DEF SStreamOnFails, IoctlIdle, IoctlPhases, IoctlType, vb2Vars, StreamPhases
<1>11. CASE StreamOffIpi
  BY <1>t, <1>11 DEF StreamOffIpi, IoctlPhases, IoctlType, vb2Vars, StreamPhases
<1>12. CASE DestroyWorkqueue
  BY <1>t, <1>12 DEF DestroyWorkqueue, IoctlPhases, IoctlType, vb2Vars, StreamPhases
<1>13. CASE ReturnAllBuffers
  BY <1>t, <1>13 DEF ReturnAllBuffers, IoctlPhases, IoctlType, vb2Vars, StreamPhases
<1>14. CASE CleanPending
  BY <1>t, <1>14 DEF CleanPending, IoctlPhases, IoctlType, vb2Vars, StreamPhases
<1>15. CASE CleanRunning
  BY <1>t, <1>15 DEF CleanRunning, IoctlPhases, IoctlType, vb2Vars, StreamPhases
<1>16. CASE Vb2Cancel
  BY <1>t, <1>16 DEF Vb2Cancel, IoctlIdle, IoctlPhases, IoctlType, vb2Vars, StreamPhases
<1>17. CASE IrqEnter \/ IrqEvent \/ IrqScan \/ IrqScanEnd \/ IrqDel
  BY <1>u, <1>17 DEF IrqEnter, IrqEvent, IrqScan, IrqScanEnd, IrqDel, vb2Vars
<1>18. CASE IrqDone \/ IrqTryQueue \/ IrqMoveJobs \/ IrqSof \/ IrqStamp
  BY <1>u, <1>18 DEF IrqDone, IrqTryQueue, IrqMoveJobs, IrqSof, IrqStamp, vb2Vars
<1>19. CASE TxFrameWorker \/ ScpCompose \/ ComposerAck \/ HwSof \/ HwDone
  BY <1>u, <1>19 DEF TxFrameWorker, ScpCompose, ComposerAck, HwSof, HwDone, vb2Vars
<1>20. CASE DQBuf \/ UNCHANGED vars
  BY <1>u, <1>20 DEF DQBuf, vars, sysVars, vb2Vars
<1> QED
  BY <1>1, <1>2, <1>3, <1>4, <1>5, <1>6, <1>7, <1>8, <1>9, <1>10, <1>11, <1>12, <1>13, <1>14, <1>15, <1>16, <1>17, <1>18, <1>19, <1>20
     DEF Next, User, IoctlStep, IrqStep

\* The steps that change the queued work or the running list.
LEMMA WorkEffect ==
  ASSUME TypeInv, [Next]_vars
  PROVE  \/ TxFrameWorker \/ IoctlMoveJobs \/ IrqMoveJobs \/ IrqScan \/ IrqDone
         \/ CleanRunning
         \/ /\ UNCHANGED <<composer_wq, running_job_list>>
            /\ UNCHANGED enqueued_frame_seq_no \/ StreamOn
            /\ irq'.pc \in {"del", "done"} => irq.pc \in {"del", "done"}
<1>t. irq \in IrqType
  BY DEF TypeInv, CoreTypeOK
<1>1. CASE (\E b \in Bufs : QBuf(b)) \/ DQBuf \/ StreamOn \/ StreamOff
           \/ (\E r \in Reqs : EnqueueNoRequest(r))
  BY <1>1 DEF QBuf, DQBuf, StreamOn, StreamOff, EnqueueNoRequest, jobVars
<1>2. CASE EnqueueNoMemory \/ IoctlTryQueue \/ EnqueueDone \/ SStreamOn
           \/ SStreamOnFails \/ StreamOffIpi
  BY <1>2 DEF EnqueueNoMemory, IoctlTryQueue, EnqueueDone, SStreamOn,
     SStreamOnFails, StreamOffIpi, jobVars
<1>3. CASE DestroyWorkqueue \/ ReturnAllBuffers \/ CleanPending \/ Vb2Cancel
  BY <1>3 DEF DestroyWorkqueue, ReturnAllBuffers, CleanPending, Vb2Cancel, jobVars
<1>4. CASE IrqEnter \/ IrqEvent \/ IrqScanEnd \/ IrqDel \/ IrqTryQueue
  BY <1>t, <1>4 DEF IrqEnter, IrqEvent, IrqScanEnd, IrqDel, IrqTryQueue, IrqType,
     jobVars
<1>5. CASE IrqSof \/ IrqStamp
  <2>1. irq' = IrqIdle \/ \E x : irq' = [irq EXCEPT !.pc = "stamp", !.cur = x]
    BY <1>5 DEF IrqSof, IrqStamp
  <2>2. irq'.pc \notin {"del", "done"}
    <3>1. ASSUME NEW x, irq' = [irq EXCEPT !.pc = "stamp", !.cur = x]
          PROVE  irq'.pc = "stamp"
      BY <1>t, <3>1 DEF IrqType
    <3>2. irq' = IrqIdle => irq'.pc = "idle"
      BY DEF IrqIdle
    <3> QED
      BY <2>1, <3>1, <3>2
  <2> QED
    BY <1>5, <2>2 DEF IrqSof, IrqStamp, jobVars
<1>6. CASE ScpCompose \/ ComposerAck \/ HwSof \/ HwDone
  BY <1>6 DEF ScpCompose, ComposerAck, HwSof, HwDone, jobVars
<1>7. CASE UNCHANGED vars
  BY <1>7 DEF vars, sysVars, jobVars
<1> QED
  BY <1>1, <1>2, <1>3, <1>4, <1>5, <1>6, <1>7 DEF Next, User, IoctlStep, IrqStep

\* The ISP stops streaming through STREAMOFF, which drains the work queue.
LEMMA DrainedStep ==
  ASSUME "stop" \notin faults, CountInv, [Next]_vars,
         streaming' = 0, ioctl'.pc \notin {"ipi", "destroy"}
  PROVE  \/ streaming = 0 /\ ioctl.pc \notin {"ipi", "destroy"}
         \/ composer_wq = <<>>
<1>t. ioctl \in IoctlType /\ streaming \in {0, 1} /\ IoctlPhases
  BY DEF CountInv, TypeInv, CoreTypeOK
<1>1. CASE UNCHANGED <<streaming, ioctl>>
  BY <1>1
<1>2. CASE StreamOff \/ StreamOffIpi \/ DestroyWorkqueue \/ SStreamOn
  BY <1>t, <1>2 DEF StreamOff, StreamOffIpi, DestroyWorkqueue, WorkDrained,
     SStreamOn, IoctlType
<1>3. CASE UNCHANGED streaming /\ ioctl.pc \notin {"ipi", "destroy"}
  BY <1>3
<1>4. CASE (\E b \in Bufs : QBuf(b)) \/ StreamOn \/ (\E r \in Reqs : EnqueueNoRequest(r))
           \/ EnqueueNoMemory \/ IoctlTryQueue \/ IoctlMoveJobs \/ EnqueueDone
  BY <1>3, <1>4 DEF QBuf, StreamOn, EnqueueNoRequest, EnqueueNoMemory,
     IoctlTryQueue, IoctlMoveJobs, EnqueueDone
<1>5. CASE SStreamOnFails \/ ReturnAllBuffers \/ CleanPending \/ CleanRunning
           \/ Vb2Cancel
  BY <1>3, <1>5 DEF SStreamOnFails, ReturnAllBuffers, CleanPending, CleanRunning,
     Vb2Cancel
<1>6. CASE IrqEnter \/ IrqEvent \/ IrqScan \/ IrqScanEnd \/ IrqDel \/ IrqDone
           \/ IrqTryQueue \/ IrqMoveJobs \/ IrqSof \/ IrqStamp
  BY <1>1, <1>6 DEF IrqEnter, IrqEvent, IrqScan, IrqScanEnd, IrqDel, IrqDone,
     IrqTryQueue, IrqMoveJobs, IrqSof, IrqStamp
<1>7. CASE DQBuf \/ TxFrameWorker \/ ScpCompose \/ ComposerAck \/ HwSof \/ HwDone
           \/ UNCHANGED vars
  BY <1>1, <1>7 DEF DQBuf, TxFrameWorker, ScpCompose, ComposerAck, HwSof, HwDone,
     vars, sysVars
<1> QED
  BY <1>2, <1>4, <1>5, <1>6, <1>7 DEF Next, User, IoctlStep, IrqStep

\* The ISP may only get new jobs while it streams or is being stopped.
LEMMA QueueingStreams ==
  ASSUME FrameInv, StreamPhases, IoctlMoveJobs \/ IrqMoveJobs
  PROVE  streaming = 1 \/ ioctl.pc = "ipi"
<1>1. streaming \in {0, 1}
  BY DEF FrameInv, CountInv, TypeInv, CoreTypeOK
<1> QED
  BY <1>1 DEF FrameInv, QuietInv, StreamPhases, IoctlMoveJobs, IrqMoveJobs

\* The oldest job the handler may take is older than all queued work.
LEMMA TakenIsOld ==
  ASSUME FrameInv, WorkInv, IrqScan \/ IrqDone
  PROVE  Len(composer_wq) < Len(running_job_list)
<1>t. /\ running_job_list \in Seq(Reqs) /\ composer_wq \in Seq(Reqs)
      /\ enqueued_frame_seq_no \in Nat /\ dequeued_frame_seq_no \in Nat
      /\ Len(running_job_list) \in Nat /\ Len(composer_wq) \in Nat
  BY DEF FrameInv, CountInv, TypeInv, CoreTypeOK
<1>1. CASE IrqDone
  BY <1>1 DEF IrqDone, WorkInv
<1>2. CASE IrqScan
  <2>1. /\ running_job_list # <<>>
        /\ req[Head(running_job_list)].frame_seq_no <= dequeued_frame_seq_no
    BY <1>2 DEF IrqScan
  <2>2. Head(running_job_list) = running_job_list[1] /\ 1 \in 1 .. Len(running_job_list)
    BY <1>t, <2>1, EmptySeq
  <2>3. req[running_job_list[1]].frame_seq_no =
          enqueued_frame_seq_no - Len(running_job_list) + 1
    BY <2>2 DEF FrameInv, OrderInv
  <2>4. dequeued_frame_seq_no <= enqueued_frame_seq_no - Len(composer_wq)
    BY DEF WorkInv, Travelling
  <2> QED
    BY <1>t, <2>1, <2>2, <2>3, <2>4
<1> QED
  BY <1>1, <1>2

\* The queued work stays the youngest part of the running list.
LEMMA WorkStep ==
  ASSUME {"stop", "slowirq"} \cap faults = {}, FrameInv, StreamPhases, WorkInv,
         [Next]_vars
  PROVE  WorkInv'
<1>i. /\ CountInv /\ TypeInv /\ HeapInv /\ OrderInv /\ QuietInv
  BY DEF FrameInv, CountInv
<1>t. /\ running_job_list \in Seq(Reqs) /\ composer_wq \in Seq(Reqs)
      /\ enqueued_frame_seq_no \in Nat /\ streaming \in {0, 1}
      /\ Len(running_job_list) \in Nat /\ Len(composer_wq) \in Nat
      /\ req \in [Reqs -> ReqRecord] /\ irq \in IrqType /\ ioctl \in IoctlType
  BY <1>i DEF TypeInv, CoreTypeOK
<1>u. /\ enqueued_frame_seq_no' \in Nat
      /\ Len(running_job_list') \in Nat /\ Len(composer_wq') \in Nat
  BY <1>i, TypeStep DEF TypeInv, CoreTypeOK
<1> DEFINE m == enqueued_frame_seq_no - Len(composer_wq)
           Suffix == /\ Len(composer_wq) <= Len(running_job_list)
                     /\ \A i \in 1 .. Len(composer_wq) :
                          composer_wq[i] = running_job_list[
                            Len(running_job_list) - Len(composer_wq) + i]
           Kept == irq.pc \in {"del", "done"} =>
                     Len(composer_wq) < Len(running_job_list)
           Drained == streaming = 0 /\ ioctl.pc \notin {"ipi", "destroy"} =>
                        composer_wq = <<>>
<1>d. Suffix /\ Kept /\ Drained /\ Travelling(m)
  BY DEF WorkInv
<1>e. Suffix' /\ Kept' /\ Drained' /\ Travelling(m)' => WorkInv'
  BY DEF WorkInv
<1>m. m \in Int /\ 0 <= m
  BY <1>i, <1>t, <1>d DEF OrderInv
\* The numbers that travel.
<1>1. Suffix' => Travelling(m)'
  <2>1. CASE StreamOn
    <3>1. Len(composer_wq') = 0 /\ enqueued_frame_seq_no' = 0
      BY <2>1 DEF StreamOn
    <3>2. Travelling(0)'
      BY <1>i, <2>1, TravellingFresh
    <3> QED
      BY <3>1, <3>2 DEF Travelling
  <2>2. ASSUME ~StreamOn, Suffix', m <= m', m' \in Int,
               TxFrameWorker => req[Head(composer_wq)].frame_seq_no <= m'
        PROVE  Travelling(m)'
    <3> DEFINE k == m'
    <3>1. 0 <= k
      BY <1>m, <2>2
    <3>2. m <= k /\ k \in Int /\ (TxFrameWorker => req[Head(composer_wq)].frame_seq_no <= k)
      BY <2>2
    <3> HIDE DEF k
    <3>3. /\ \A i \in 1 .. Len(scp'.inbox) : scp'.inbox[i] <= k
          /\ \A i \in 0 .. CqCount - 1 : hw'.cq[i] <= k
          /\ hw'.seq <= k /\ irq'.seq <= k /\ dequeued_frame_seq_no' <= k
      <4> HIDE DEF m
      <4> QED
        BY <1>d, <1>i, <1>m, <2>2, <3>1, <3>2, TravellingStep DEF Travelling
    <3> QED
      BY <3>3 DEF Travelling, k
  <2>3. CASE TxFrameWorker
    <3>1. /\ composer_wq # <<>> /\ composer_wq' = Tail(composer_wq)
          /\ enqueued_frame_seq_no' = enqueued_frame_seq_no
      BY <2>3 DEF TxFrameWorker
    <3>2. /\ Len(composer_wq') = Len(composer_wq) - 1 /\ Len(composer_wq) # 0
          /\ Head(composer_wq) = composer_wq[1]
      BY <1>t, <3>1, EmptySeq, HeadTailProperties
    <3>3. m' = m + 1
      BY <1>t, <3>1, <3>2
    <3>4. req[Head(composer_wq)].frame_seq_no = m + 1
      <4> DEFINE i == Len(running_job_list) - Len(composer_wq) + 1
      <4>1. composer_wq[1] = running_job_list[i] /\ i \in 1 .. Len(running_job_list)
        BY <1>t, <1>d, <3>2
      <4>2. req[running_job_list[i]].frame_seq_no =
              enqueued_frame_seq_no - Len(running_job_list) + i
        BY <1>i, <4>1 DEF OrderInv
      <4> QED
        BY <1>t, <3>2, <4>1, <4>2
    <3>5. ~StreamOn
      BY <2>3, <3>1 DEF StreamOn
    <3> QED
      BY <1>m, <2>2, <3>3, <3>4, <3>5
  <2>4. CASE MoveJobs /\ ~StreamOn /\ ~TxFrameWorker
    <3>1. /\ Len(composer_wq') = Len(composer_wq) + Room /\ Room \in Nat
          /\ enqueued_frame_seq_no' = enqueued_frame_seq_no + Room
      BY <1>i, <2>4, MoveJobsLists DEF MoveJobs
    <3>2. m' = m
      BY <1>t, <3>1
    <3> QED
      BY <1>m, <2>2, <2>4, <3>2
  <2>5. CASE /\ UNCHANGED <<composer_wq, enqueued_frame_seq_no>>
             /\ ~StreamOn /\ ~TxFrameWorker
    <3>2. m' = m
      BY <2>5
    <3> QED
      BY <1>m, <2>2, <2>5, <3>2
  <2> QED
    BY <1>i, <2>1, <2>3, <2>4, <2>5, WorkEffect
       DEF IoctlMoveJobs, IrqMoveJobs, IrqScan, IrqDone, CleanRunning
\* The lists.
<1> HIDE DEF m
<1>2. CASE TxFrameWorker
  <2>1. /\ composer_wq # <<>> /\ composer_wq' = Tail(composer_wq)
        /\ UNCHANGED <<running_job_list, irq, ioctl, streaming>>
    BY <1>2 DEF TxFrameWorker
  <2>2. /\ Len(composer_wq') = Len(composer_wq) - 1 /\ Len(composer_wq) # 0
        /\ \A i \in 1 .. Len(composer_wq) - 1 : composer_wq'[i] = composer_wq[i + 1]
    BY <1>t, <2>1, EmptySeq, HeadTailProperties
  <2>3. Suffix'
    <3>1. ASSUME NEW i \in 1 .. Len(composer_wq')
          PROVE  composer_wq'[i] = running_job_list[
                   Len(running_job_list) - Len(composer_wq') + i]
      <4>1. /\ i + 1 \in 1 .. Len(composer_wq)
            /\ Len(running_job_list) - Len(composer_wq) + (i + 1) =
                 Len(running_job_list) - Len(composer_wq') + i
            /\ composer_wq'[i] = composer_wq[i + 1]
        BY <1>t, <2>2
      <4> QED
        BY <1>d, <4>1
    <3>2. Len(composer_wq') <= Len(running_job_list)
      BY <1>t, <1>d, <2>2
    <3> QED
      BY <2>1, <3>1, <3>2
  <2>4. Kept'
    BY <1>t, <1>d, <2>1, <2>2
  <2>5. Drained'
    BY <1>d, <2>1
  <2> QED
    BY <1>1, <1>e, <2>3, <2>4, <2>5
<1>3. CASE IoctlMoveJobs \/ IrqMoveJobs
  <2> DEFINE n == Room
  <2>0. MoveJobs
    BY <1>3 DEF IoctlMoveJobs, IrqMoveJobs
  <2>1. /\ n \in Nat
        /\ Len(running_job_list') = Len(running_job_list) + n
        /\ \A i \in 1 .. Len(running_job_list) :
             running_job_list'[i] = running_job_list[i]
        /\ \A i \in 1 .. n :
             running_job_list'[Len(running_job_list) + i] = pending_job_list[i]
        /\ Len(composer_wq') = Len(composer_wq) + n
        /\ \A i \in 1 .. Len(composer_wq) : composer_wq'[i] = composer_wq[i]
        /\ \A i \in 1 .. n :
             composer_wq'[Len(composer_wq) + i] = pending_job_list[i]
    BY <1>i, <2>0, MoveJobsLists
  <2> HIDE DEF n
  <2>2. Suffix'
    <3>1. ASSUME NEW i \in 1 .. Len(composer_wq')
          PROVE  composer_wq'[i] = running_job_list'[
                   Len(running_job_list') - Len(composer_wq') + i]
      <4> DEFINE d == Len(running_job_list) - Len(composer_wq)
      <4>1. d \in Nat /\ Len(running_job_list') - Len(composer_wq') + i = d + i
        BY <1>t, <1>d, <2>1
      <4>2. CASE i \in 1 .. Len(composer_wq)
        <5>1. d + i \in 1 .. Len(running_job_list)
          BY <1>t, <1>d, <4>2
        <5> QED
          BY <1>d, <2>1, <4>1, <4>2, <5>1
      <4>3. CASE i \notin 1 .. Len(composer_wq)
        <5>1. /\ i - Len(composer_wq) \in 1 .. n
              /\ Len(composer_wq) + (i - Len(composer_wq)) = i
              /\ Len(running_job_list) + (i - Len(composer_wq)) = d + i
          BY <1>t, <2>1, <4>3
        <5>2. composer_wq'[i] = pending_job_list[i - Len(composer_wq)]
          BY <2>1, <5>1
        <5>3. running_job_list'[d + i] = pending_job_list[i - Len(composer_wq)]
          BY <2>1, <5>1
        <5> QED
          BY <4>1, <5>2, <5>3
      <4> QED
        BY <4>2, <4>3
    <3>2. Len(composer_wq') <= Len(running_job_list')
      BY <1>t, <1>d, <2>1
    <3> QED
      BY <3>1, <3>2
  <2>3. Kept'
    <3>1. irq'.pc \in {"del", "done"} => irq.pc \in {"del", "done"}
      BY <1>t, <1>3 DEF IoctlMoveJobs, IrqMoveJobs, IrqType
    <3> QED
      BY <1>t, <1>d, <2>1, <3>1
  <2>4. Drained'
    BY <1>t, <1>3, QueueingStreams DEF IoctlMoveJobs, IrqMoveJobs, StreamPhases
  <2> QED
    BY <1>1, <1>e, <2>2, <2>3, <2>4
<1>4. CASE IrqScan \/ IrqDone
  <2>1. Len(composer_wq) < Len(running_job_list)
    BY <1>4, TakenIsOld
  <2>2. UNCHANGED <<composer_wq, ioctl, streaming>>
    BY <1>4 DEF IrqScan, IrqDone
  <2>3. CASE running_job_list' = running_job_list
    BY <1>1, <1>d, <1>e, <2>1, <2>2, <2>3
  <2>4. CASE running_job_list' = Tail(running_job_list) /\ irq'.pc \notin {"del", "done"}
    <3>1. /\ Len(running_job_list') = Len(running_job_list) - 1
          /\ \A i \in 1 .. Len(running_job_list) - 1 :
               running_job_list'[i] = running_job_list[i + 1]
      BY <1>t, <2>1, <2>4, EmptySeq, HeadTailProperties
    <3>2. Suffix'
      <4>1. ASSUME NEW i \in 1 .. Len(composer_wq)
            PROVE  composer_wq[i] = running_job_list'[
                     Len(running_job_list') - Len(composer_wq) + i]
        <5> DEFINE j == Len(running_job_list') - Len(composer_wq) + i
        <5>1. /\ j \in 1 .. Len(running_job_list) - 1
              /\ j + 1 = Len(running_job_list) - Len(composer_wq) + i
          BY <1>t, <2>1, <3>1
        <5> QED
          BY <1>d, <3>1, <5>1
      <4> QED
        BY <1>t, <2>1, <2>2, <3>1, <4>1
    <3> QED
      BY <1>1, <1>d, <1>e, <2>2, <2>4, <3>2
  <2> QED
    <3>1. \/ running_job_list' = running_job_list
          \/ running_job_list' = Tail(running_job_list) /\ irq'.pc \in {"try", "scan"}
      BY <1>t, <1>4 DEF IrqScan, IrqDone, IrqType
    <3> QED
      BY <2>3, <2>4, <3>1
<1>5. CASE CleanRunning
  <2>1. composer_wq = <<>>
    BY <1>d, <1>i, <1>t, <1>5 DEF CleanRunning, StreamPhases, CountInv, IoctlPhases,
       IoctlType
  <2>2. running_job_list' = <<>> /\ composer_wq' = <<>>
    BY <1>5, <2>1 DEF CleanRunning
  <2>3. irq'.pc \notin {"del", "done"}
    BY <1>5 DEF CleanRunning, RunningLockFree
  <2> QED
    BY <1>1, <1>e, <2>2, <2>3
<1>6. CASE /\ UNCHANGED <<composer_wq, running_job_list>>
           /\ irq'.pc \in {"del", "done"} => irq.pc \in {"del", "done"}
           /\ ~TxFrameWorker
  <2>1. Drained'
    <3>1. streaming' = 0 /\ ioctl'.pc \notin {"ipi", "destroy"} =>
            \/ streaming = 0 /\ ioctl.pc \notin {"ipi", "destroy"}
            \/ composer_wq = <<>>
      BY <1>i, DrainedStep
    <3> QED
      BY <1>d, <1>6, <3>1
  <2> QED
    BY <1>1, <1>d, <1>e, <1>6, <2>1
<1> QED
  BY <1>2, <1>3, <1>4, <1>5, <1>6, <1>i, WorkEffect

\* Nobody frees the job the SOF handler holds.
LEMMA HeldStep ==
  ASSUME {"stop", "slowirq"} \cap faults = {}, FrameInv, StreamPhases, HeldInv,
         [Next]_vars
  PROVE  HeldInv'
<1>i. /\ CountInv /\ TypeInv /\ QuietInv /\ IoctlPhases
  BY DEF FrameInv, CountInv
<1>t. /\ irq \in IrqType /\ ioctl \in IoctlType /\ streaming \in {0, 1}
      /\ running_job_list \in Seq(Reqs) /\ Len(running_job_list) \in Nat
  BY <1>i DEF TypeInv, CoreTypeOK
<1>1. CASE IrqSof
  <2> DEFINE found == {i \in 1 .. Len(running_job_list) :
                         req[running_job_list[i]].frame_seq_no = irq.seq}
  <2>1. running_job_list' = running_job_list
    BY <1>1 DEF IrqSof, jobVars
  <2>2. CASE irq' = IrqIdle
    BY <2>2 DEF HeldInv, IrqIdle
  <2>3. CASE irq' = [irq EXCEPT !.pc = "stamp", !.cur =
                       IF found = {} THEN NoReq
                       ELSE running_job_list[CHOOSE i \in found : TRUE]]
    <3> DEFINE j == CHOOSE i \in found : TRUE
    <3>1. found # {} => j \in 1 .. Len(running_job_list)
      <4>1. found # {} => j \in found
        OBVIOUS
      <4> QED
        BY <4>1
    <3>2. irq'.cur = NoReq \/ (found # {} /\ irq'.cur = running_job_list[j])
      BY <1>t, <2>3 DEF IrqType
    <3> HIDE DEF j, found
    <3> QED
      BY <2>1, <3>1, <3>2 DEF HeldInv
  <2> QED
    BY <1>1, <2>2, <2>3 DEF IrqSof
<1>2. CASE StreamOn \/ IrqStamp
  BY <1>2 DEF StreamOn, IrqStamp, IrqPrompt, IrqIdle, HeldInv
<1>3. ASSUME irq'.pc = "stamp", irq' = irq
      PROVE  HeldInv'
  <2>1. CASE MoveJobs
    <3>1. /\ Len(running_job_list') = Len(running_job_list) + Room /\ Room \in Nat
          /\ \A i \in 1 .. Len(running_job_list) :
               running_job_list'[i] = running_job_list[i]
      BY <1>i, <2>1, MoveJobsLists
    <3>2. \A i \in 1 .. Len(running_job_list) : i \in 1 .. Len(running_job_list')
      BY <1>t, <3>1
    <3> QED
      BY <1>3, <3>1, <3>2 DEF HeldInv
  <2>2. CASE UNCHANGED running_job_list
    BY <1>3, <2>2 DEF HeldInv
  <2>3. ~CleanRunning
    BY <1>3, <1>i, <1>t DEF CleanRunning, IoctlPhases, StreamPhases, QuietInv, IrqIdle,
       IoctlType
  <2>4. ~IrqScan /\ ~IrqDone
    BY <1>3 DEF IrqScan, IrqDone
  <2> QED
    BY <1>i, <2>1, <2>2, <2>3, <2>4, WorkEffect
       DEF IoctlMoveJobs, IrqMoveJobs, TxFrameWorker
<1>4. CASE irq'.pc # "stamp"
  BY <1>4 DEF HeldInv
<1> QED
  BY <1>1, <1>2, <1>3, <1>4, <1>i, SofEffect

\* For every number of buffers and every job limit: the worker, the handlers and
\* mtk_cam_dev_req_try_queue touch only allocated requests and a live work
\* queue, provided the sub-devices stop when they are told to and a handler is
\* over before the SCP answers; allocations, IPIs and STREAMON may fail.
THEOREM NeverUsedAfterFree == Spec => []NoUseAfterFree
<1> DEFINE Inv == /\ "slowirq" \notin faults => FrameInv
                  /\ {"stop", "slowirq"} \cap faults = {} =>
                       StreamPhases /\ WorkInv /\ HeldInv
<1>1. Init => Inv
  BY FrameInit DEF Init, StreamPhases, WorkInv, HeldInv, Travelling, IoctlIdle,
     IrqIdle, ScpIdle, HwReset
<1>2. Inv => NoUseAfterFree
  <2> SUFFICES ASSUME FrameInv, StreamPhases, WorkInv, HeldInv
               PROVE  /\ \A i \in 1 .. Len(composer_wq) : composer_wq[i] \in heap
                      /\ irq.pc \in {"del", "done"} => irq.cur \in heap
                      /\ irq.pc = "stamp" => irq.cur \in heap \cup {NoReq}
                      /\ "move" \in {irq.pc, ioctl.pc} => wq_alive = 1
    BY DEF NoUseAfterFree, Without
  <2>1. /\ running_job_list \in Seq(Reqs) /\ composer_wq \in Seq(Reqs)
        /\ Len(running_job_list) \in Nat /\ Len(composer_wq) \in Nat
        /\ streaming \in {0, 1}
    BY DEF FrameInv, CountInv, TypeInv, CoreTypeOK
  <2>2. \A i \in 1 .. Len(composer_wq) : composer_wq[i] \in heap
    <3>1. \A i \in 1 .. Len(composer_wq) :
            Len(running_job_list) - Len(composer_wq) + i \in 1 .. Len(running_job_list)
      BY <2>1 DEF WorkInv
    <3> QED
      BY <3>1 DEF WorkInv, FrameInv, HeapInv
  <2>3. irq.pc \in {"del", "done"} => irq.cur \in heap
    <3>1. ASSUME irq.pc \in {"del", "done"} PROVE irq.cur \in heap
      <4>1. running_job_list # <<>> /\ irq.cur = Head(running_job_list)
        BY <3>1 DEF FrameInv, CountInv, TypeInv, IrqHoldsHead
      <4>2. irq.cur = running_job_list[1] /\ 1 \in 1 .. Len(running_job_list)
        BY <2>1, <4>1, EmptySeq
      <4> QED
        BY <4>2 DEF FrameInv, HeapInv
    <3> QED
      BY <3>1
  <2>4. irq.pc = "stamp" => irq.cur \in heap \cup {NoReq}
    BY DEF HeldInv, FrameInv, HeapInv
  <2>5. "move" \in {irq.pc, ioctl.pc} => wq_alive = 1
    BY <2>1 DEF StreamPhases, FrameInv, QuietInv, IrqIdle
  <2> QED
    BY <2>2, <2>3, <2>4, <2>5
<1>3. Inv /\ [Next]_vars => Inv'
  <2>1. FrameInv => TypeInv /\ IoctlPhases
    BY DEF FrameInv, CountInv
  <2> QED
    BY <2>1, FaultsFixed, FrameStep, StreamPhasesStep, WorkStep, HeldStep
<1> QED
  BY <1>1, <1>2, <1>3, PTL DEF Spec

-----------------------------------------------------------------------------
(***************************************************************************)
(* Buffers, when STREAMON succeeds and the sub-devices stop as told: each  *)
(* active buffer belongs to one job or waits in the ioctl's to-do list.    *)
(* These layers do not build on FrameInv: they hold for a handler that is  *)
(* still running when its session is cleaned up and the next one starts.   *)
(***************************************************************************)

\* STREAMOFF empties the pending list first, and nothing can fill it again.
CleanPhases == ioctl.pc = "clean_running" => pending_job_list = <<>>

\* An ISP that does not stream starts no frame.
OffInv ==
  /\ streaming = 0 /\ ioctl.pc # "ipi" => hw.state = "off"
  /\ ioctl.pc = "ipi" => hw.state \in {"off", "last"}

\* What holds whatever fails and however late a handler is.
DriverInv == TypeInv /\ HeapInv /\ IoctlPhases /\ CleanPhases /\ OffInv

\* Buffers that vb2 keeps until STREAMON.
QueuedInv ==
  /\ \A i \in 1 .. Len(queued_list) : vb[queued_list[i]] = "queued"
  /\ \A i, j \in 1 .. Len(queued_list) : queued_list[i] = queued_list[j] => i = j
  /\ \A b \in Bufs :
       vb[b] = "queued" => \E i \in 1 .. Len(queued_list) : queued_list[i] = b

\* Buffers that wait for DQBUF.
CompletedInv ==
  /\ \A i \in 1 .. Len(done_list) :
       done_list[i].buf \in Bufs /\ vb[done_list[i].buf] = "done"
  /\ \A i, j \in 1 .. Len(done_list) : done_list[i].buf = done_list[j].buf => i = j

\* STREAMOFF has returned the buffers and frees the jobs.
CleaningUp == ioctl.pc \in {"clean_pending", "clean_running", "cancel"}

\* Buffers in the driver have one owner.
OwnInv ==
  /\ \A i \in 1 .. Len(ioctl.todo) : vb[ioctl.todo[i]] = "active"
  /\ \A i, j \in 1 .. Len(ioctl.todo) : ioctl.todo[i] = ioctl.todo[j] => i = j
  /\ ioctl.pc \notin {"enq", "try", "move"} => ioctl.todo = <<>>
  /\ \A r \in heap : req[r].sbuf \in Bufs
  /\ ~CleaningUp => \A r \in heap : vb[req[r].sbuf] = "active"
  /\ \A r, s \in heap : req[r].sbuf = req[s].sbuf => r = s
  /\ \A r \in heap : \A i \in 1 .. Len(ioctl.todo) : req[r].sbuf # ioctl.todo[i]

\* Buffers in the driver are linked until the handler completes them.
LinkedInv ==
  /\ \A b \in Bufs :
       vb[b] = "active" =>
         \/ \E i \in 1 .. Len(buf_list) : buf_list[i] = b
         \/ irq.pc = "done" /\ b = req[irq.cur].sbuf
  /\ CleaningUp => buf_list = <<>>
  /\ ~InSession => heap = {} /\ buf_list = <<>>

BufInv == QueuedInv /\ CompletedInv /\ OwnInv /\ LinkedInv

\* vb2_buffer_done of an active buffer.
Completes(b) ==
  /\ vb' = [vb EXCEPT ![b] = "done"]
  /\ \E c \in Completion : c.buf = b /\ done_list' = Append(done_list, c)

-----------------------------------------------------------------------------
\* The phases of the ioctl survive every step.
LEMMA PhasesStep ==
  ASSUME TypeInv, IoctlPhases, CleanPhases, [Next]_vars
  PROVE  IoctlPhases' /\ CleanPhases'
<1>t. /\ ioctl \in IoctlType /\ vbq_streaming \in {0, 1}
      /\ pending_job_list \in Seq(Reqs)
  BY DEF TypeInv, CoreTypeOK
<1> USE DEF IoctlPhases, CleanPhases
<1>u. UNCHANGED <<ioctl, vbq_streaming, pending_job_list>> => IoctlPhases' /\ CleanPhases'
  OBVIOUS
<1>1. CASE \E b \in Bufs : QBuf(b)
  BY <1>t, <1>1 DEF QBuf, IoctlType, jobVars
<1>2. CASE DQBuf \/ UNCHANGED vars
  BY <1>u, <1>2 DEF DQBuf, vars, sysVars, vb2Vars, jobVars
<1>3. CASE StreamOn
  BY <1>t, <1>3 DEF StreamOn, IoctlType
<1>4. CASE StreamOff
  BY <1>t, <1>4 DEF StreamOff, IoctlType, vb2Vars
<1>5. CASE \E r \in Reqs : EnqueueNoRequest(r)
  BY <1>t, <1>5 DEF EnqueueNoRequest, IoctlType, vb2Vars
<1>6. CASE EnqueueNoMemory
  BY <1>t, <1>6 DEF EnqueueNoMemory, IoctlType
<1>7. CASE IoctlTryQueue
  BY <1>t, <1>7 DEF IoctlTryQueue, IoctlType, vb2Vars
<1>8. CASE IoctlMoveJobs
  BY <1>t, <1>8 DEF IoctlMoveJobs, IoctlType, vb2Vars
<1>9. CASE EnqueueDone
  BY <1>t, <1>9 DEF EnqueueDone, IoctlIdle, IoctlType
<1>10. CASE SStreamOn
  BY <1>t, <1>10 DEF SStreamOn, IoctlType, vb2Vars
<1>11. CASE SStreamOnFails
  BY <1>t, <1>11 DEF SStreamOnFails, IoctlIdle, IoctlType
<1>12. CASE StreamOffIpi \/ DestroyWorkqueue
  BY <1>t, <1>12 DEF StreamOffIpi, DestroyWorkqueue, IoctlType, vb2Vars
<1>13. CASE ReturnAllBuffers
  BY <1>t, <1>13 DEF ReturnAllBuffers, IoctlType
<1>14. CASE CleanPending
  BY <1>t, <1>14 DEF CleanPending, IoctlType, vb2Vars
<1>15. CASE CleanRunning
  BY <1>t, <1>15 DEF CleanRunning, IoctlType, vb2Vars
<1>16. CASE Vb2Cancel
  BY <1>t, <1>16 DEF Vb2Cancel, IoctlIdle, IoctlType
<1>17. CASE IrqMoveJobs
  <2>1. UNCHANGED <<ioctl, vbq_streaming>> /\ MoveJobs
    BY <1>17 DEF IrqMoveJobs, vb2Vars
  <2>2. ASSUME pending_job_list = <<>> PROVE pending_job_list' = <<>>
    <3>1. /\ Room \in Nat /\ Room <= Len(pending_job_list)
          /\ Len(pending_job_list') = Len(pending_job_list) - Room
      BY <2>1, MoveJobsLists
    <3>2. pending_job_list' \in Seq(Reqs)
      BY TypeStep DEF TypeInv, CoreTypeOK
    <3>3. Len(pending_job_list) = 0
      BY <2>2
    <3> QED
      BY <3>1, <3>2, <3>3, EmptySeq
  <2> QED
    BY <2>1, <2>2
<1>18. CASE IrqEnter \/ IrqEvent \/ IrqScan \/ IrqScanEnd \/ IrqDel
  BY <1>u, <1>18 DEF IrqEnter, IrqEvent, IrqScan, IrqScanEnd, IrqDel, vb2Vars, jobVars
<1>19. CASE IrqDone \/ IrqTryQueue \/ IrqSof \/ IrqStamp
  BY <1>u, <1>19 DEF IrqDone, IrqTryQueue, IrqSof, IrqStamp, vb2Vars, jobVars
<1>20. CASE TxFrameWorker \/ ScpCompose \/ ComposerAck \/ HwSof \/ HwDone
  BY <1>u, <1>20 DEF TxFrameWorker, ScpCompose, ComposerAck, HwSof, HwDone, vb2Vars,
     jobVars
<1> QED
  BY <1>1, <1>2, <1>3, <1>4, <1>5, <1>6, <1>7, <1>8, <1>9, <1>10, <1>11, <1>12, <1>13,
     <1>14, <1>15, <1>16, <1>17, <1>18, <1>19, <1>20 DEF Next, User, IoctlStep, IrqStep

\* An ISP that does not stream stays off.
LEMMA OffStep ==
  ASSUME TypeInv, OffInv, [Next]_vars
  PROVE  OffInv'
<1>t. /\ ioctl \in IoctlType /\ hw \in HwType /\ streaming \in {0, 1}
  BY DEF TypeInv, CoreTypeOK
<1> USE DEF OffInv
<1>k. ASSUME UNCHANGED streaming, hw'.state = hw.state, ioctl'.pc # "ipi", ioctl.pc # "ipi"
      PROVE  OffInv'
  BY <1>k
<1>u. UNCHANGED <<ioctl, streaming>> /\ hw'.state = hw.state => OffInv'
  OBVIOUS
<1>1. CASE \E b \in Bufs : QBuf(b)
  BY <1>k, <1>u, <1>1 DEF QBuf
<1>2. CASE StreamOn
  BY <1>k, <1>t, <1>2 DEF StreamOn, HwReset
<1>3. CASE StreamOff
  BY <1>t, <1>3 DEF StreamOff, IoctlType, HwType
<1>4. CASE SStreamOn
  BY <1>t, <1>4 DEF SStreamOn, IoctlType, HwType
<1>5. CASE StreamOffIpi
  BY <1>t, <1>5 DEF StreamOffIpi, IoctlType, HwType
<1>6. CASE \E r \in Reqs : EnqueueNoRequest(r)
  BY <1>k, <1>t, <1>6 DEF EnqueueNoRequest, IoctlType
<1>7. CASE EnqueueNoMemory \/ IoctlTryQueue \/ IoctlMoveJobs \/ EnqueueDone
  BY <1>k, <1>t, <1>7 DEF EnqueueNoMemory, IoctlTryQueue, IoctlMoveJobs, EnqueueDone,
     IoctlType, IoctlIdle
<1>8. CASE SStreamOnFails \/ DestroyWorkqueue \/ ReturnAllBuffers
  BY <1>k, <1>t, <1>8 DEF SStreamOnFails, DestroyWorkqueue, ReturnAllBuffers, IoctlType,
     IoctlIdle
<1>9. CASE CleanPending \/ CleanRunning \/ Vb2Cancel
  BY <1>k, <1>t, <1>9 DEF CleanPending, CleanRunning, Vb2Cancel, IoctlType, IoctlIdle
<1>10. CASE IrqEnter \/ IrqStamp \/ ScpCompose
  <2>1. hw'.state = hw.state /\ UNCHANGED <<ioctl, streaming>>
    BY <1>t, <1>10 DEF IrqEnter, IrqStamp, ScpCompose, HwType
  <2> QED
    BY <1>u, <2>1
<1>11. CASE HwSof \/ HwDone
  BY <1>t, <1>11 DEF HwSof, HwDone, HwType
<1>12. CASE DQBuf \/ TxFrameWorker \/ ComposerAck \/ UNCHANGED vars
  BY <1>u, <1>12 DEF DQBuf, TxFrameWorker, ComposerAck, vars, sysVars
<1>13. CASE IrqEvent \/ IrqScan \/ IrqScanEnd \/ IrqDel \/ IrqDone
  BY <1>u, <1>13 DEF IrqEvent, IrqScan, IrqScanEnd, IrqDel, IrqDone
<1>14. CASE IrqTryQueue \/ IrqMoveJobs \/ IrqSof
  BY <1>u, <1>14 DEF IrqTryQueue, IrqMoveJobs, IrqSof
<1> QED
  BY <1>1, <1>2, <1>3, <1>4, <1>5, <1>6, <1>7, <1>8, <1>9, <1>10, <1>11, <1>12, <1>13,
     <1>14 DEF Next, User, IoctlStep, IrqStep

LEMMA DriverStep == DriverInv /\ [Next]_vars => DriverInv'
BY TypeStep, HeapStep, PhasesStep, OffStep DEF DriverInv

\* The driver starts with nothing allocated and the ISP off.
LEMMA DriverInit == Init => DriverInv
BY FrameInit DEF FrameInv, CountInv, DriverInv, Init, CleanPhases, OffInv, IoctlIdle,
   HwReset

\* The steps that change buffers or jobs, and what the others leave alone.
LEMMA BufEffect ==
  ASSUME "start" \notin faults, TypeInv, IoctlPhases, [Next]_vars
  PROVE  \/ \E b \in Bufs : QBuf(b)
         \/ DQBuf \/ StreamOn \/ EnqueueNoMemory
         \/ \E r \in Reqs : EnqueueNoRequest(r)
         \/ IrqDel \/ IrqDone \/ ReturnAllBuffers \/ Vb2Cancel
         \/ /\ UNCHANGED <<vb, queued_list, done_list, buf_list>>
            /\ ioctl'.todo = ioctl.todo
            /\ CleaningUp' <=> CleaningUp
            /\ ioctl'.pc \notin {"enq", "try", "move"} =>
                 ioctl.pc \notin {"enq", "try", "move"} \/ ioctl.todo = <<>>
            /\ ~InSession' => ~InSession \/ CleanRunning
            /\ irq.pc = "done" <=> irq'.pc = "done"
            /\ irq.pc = "done" => irq'.cur = irq.cur
<1>t. ioctl \in IoctlType /\ irq \in IrqType /\ vbq_streaming \in {0, 1}
  BY DEF TypeInv, CoreTypeOK
<1> DEFINE Rest ==
             /\ UNCHANGED <<vb, queued_list, done_list, buf_list>>
             /\ ioctl'.todo = ioctl.todo
             /\ CleaningUp' <=> CleaningUp
             /\ ioctl'.pc \notin {"enq", "try", "move"} =>
                  ioctl.pc \notin {"enq", "try", "move"} \/ ioctl.todo = <<>>
             /\ ~InSession' => ~InSession \/ CleanRunning
             /\ irq.pc = "done" <=> irq'.pc = "done"
             /\ irq.pc = "done" => irq'.cur = irq.cur
<1>1. CASE UNCHANGED <<vb, queued_list, done_list, buf_list, vbq_streaming, ioctl, irq>>
  BY <1>1 DEF CleaningUp, InSession
<1>2. CASE StreamOff
  BY <1>t, <1>2 DEF StreamOff, IoctlType, IoctlPhases, CleaningUp, InSession, vb2Vars
<1>3. CASE IoctlTryQueue
  BY <1>t, <1>3 DEF IoctlTryQueue, IoctlType, CleaningUp, InSession, vb2Vars
<1>4. CASE IoctlMoveJobs
  BY <1>t, <1>4 DEF IoctlMoveJobs, IoctlType, CleaningUp, InSession, vb2Vars
<1>5. CASE EnqueueDone
  <2>1. UNCHANGED <<vb, queued_list, done_list, buf_list, irq>>
    BY <1>5 DEF EnqueueDone
  <2>2. /\ ioctl.pc = "enq" /\ ioctl.todo = <<>> /\ ioctl'.todo = <<>>
        /\ ioctl'.pc \in {"s_stream", "idle"}
    BY <1>t, <1>5 DEF EnqueueDone, IoctlType, IoctlIdle
  <2>3. InSession'
    BY <1>t, <1>5 DEF EnqueueDone, IoctlType, IoctlIdle, IoctlPhases, InSession
  <2> QED
    BY <2>1, <2>2, <2>3 DEF CleaningUp
<1>6. CASE SStreamOn
  BY <1>t, <1>6 DEF SStreamOn, IoctlType, CleaningUp, InSession, vb2Vars
<1>7. CASE StreamOffIpi \/ DestroyWorkqueue
  BY <1>t, <1>7 DEF StreamOffIpi, DestroyWorkqueue, IoctlType, CleaningUp, InSession,
     vb2Vars
<1>8. CASE CleanPending \/ CleanRunning
  BY <1>t, <1>8 DEF CleanPending, CleanRunning, IoctlType, CleaningUp, InSession,
     vb2Vars
<1>9. ASSUME UNCHANGED <<vb, queued_list, done_list, buf_list, vbq_streaming, ioctl>>,
             irq.pc # "done", irq'.pc # "done"
      PROVE  Rest
  BY <1>9 DEF CleaningUp, InSession
<1>10. CASE IrqEnter \/ IrqEvent \/ IrqScanEnd \/ IrqTryQueue \/ IrqMoveJobs
  BY <1>t, <1>9, <1>10 DEF IrqEnter, IrqEvent, IrqScanEnd, IrqTryQueue, IrqMoveJobs,
     IrqType, vb2Vars
<1>11. CASE IrqScan
  BY <1>t, <1>9, <1>11 DEF IrqScan, IrqType, vb2Vars
<1>12. CASE IrqSof \/ IrqStamp
  <2>1. irq' = IrqIdle \/ \E x : irq' = [irq EXCEPT !.pc = "stamp", !.cur = x]
    BY <1>12 DEF IrqSof, IrqStamp
  <2>2. irq'.pc # "done"
    <3>1. ASSUME NEW x, irq' = [irq EXCEPT !.pc = "stamp", !.cur = x]
          PROVE  irq'.pc = "stamp"
      BY <1>t, <3>1 DEF IrqType
    <3>2. irq' = IrqIdle => irq'.pc = "idle"
      BY DEF IrqIdle
    <3> QED
      BY <2>1, <3>1, <3>2
  <2> QED
    BY <1>9, <1>12, <2>2 DEF IrqSof, IrqStamp, vb2Vars
<1>13. CASE TxFrameWorker \/ ScpCompose \/ ComposerAck \/ HwSof \/ HwDone
            \/ UNCHANGED vars
  BY <1>1, <1>13 DEF TxFrameWorker, ScpCompose, ComposerAck, HwSof, HwDone, vars,
     sysVars, vb2Vars
<1>14. ~SStreamOnFails
  BY DEF SStreamOnFails
<1> HIDE DEF Rest
<1>15. CASE Rest
  BY <1>15 DEF Rest
<1> QED
  BY <1>2, <1>3, <1>4, <1>5, <1>6, <1>7, <1>8, <1>10, <1>11, <1>12, <1>13, <1>14,
     <1>15 DEF Next, User, IoctlStep, IrqStep, Rest

\* A request keeps its buffer until it is freed.
LEMMA SbufStep ==
  ASSUME TypeInv, HeapInv, [Next]_vars
  PROVE  \/ \E r \in Reqs : EnqueueNoRequest(r)
         \/ /\ heap' \subseteq heap
            /\ \A r \in heap' : req'[r].sbuf = req[r].sbuf
<1>t. heap \subseteq Reqs
  BY DEF TypeInv, CoreTypeOK
<1>1. CASE SameJobs
  BY <1>t, <1>1 DEF SameJobs
<1>2. CASE MoveJobs
  BY <1>t, <1>2, MoveJobsNumbers
<1>3. CASE PopJob /\ UNCHANGED <<pending_job_list, enqueued_frame_seq_no>>
  BY <1>t, <1>3, PopJobLists
<1>4. CASE CleanPending \/ CleanRunning
  BY <1>t, <1>4 DEF CleanPending, CleanRunning, Kfree
<1> QED
  BY <1>1, <1>2, <1>3, <1>4, JobEffect

\* The job the handler completes holds a buffer, which the driver owns until
\* STREAMOFF has returned the buffers.
LEMMA CurrentOwns ==
  ASSUME TypeInv, HeapInv, OwnInv, irq.pc \in {"del", "done"}
  PROVE  /\ irq.cur \in heap /\ irq.cur \in Reqs
         /\ req[irq.cur].sbuf \in Bufs
         /\ ~CleaningUp => vb[req[irq.cur].sbuf] = "active"
<1>1. running_job_list # <<>> /\ irq.cur = Head(running_job_list)
  BY DEF TypeInv, IrqHoldsHead
<1>2. running_job_list \in Seq(Reqs) /\ heap \subseteq Reqs
  BY DEF TypeInv, CoreTypeOK
<1>3. irq.cur = running_job_list[1] /\ 1 \in 1 .. Len(running_job_list)
  BY <1>1, <1>2, EmptySeq
<1>4. irq.cur \in heap
  BY <1>3 DEF HeapInv
<1> QED
  BY <1>2, <1>4 DEF OwnInv

\* mtk_cam_dev_job_done completes it, unless STREAMOFF has returned it already,
\* and the request is freed.
LEMMA IrqDoneEffects ==
  ASSUME TypeInv, HeapInv, OwnInv, IrqDone
  PROVE  /\ irq.cur \in heap /\ heap' = heap \ {irq.cur}
         /\ req[irq.cur].sbuf \in Bufs
         /\ \/ vb[req[irq.cur].sbuf] = "active" /\ Completes(req[irq.cur].sbuf)
            \/ /\ vb[req[irq.cur].sbuf] # "active" /\ CleaningUp
               /\ UNCHANGED <<vb, done_list>>
<1> DEFINE q == req[irq.cur]
           c == [buf |-> q.sbuf,
                 state |-> IF q.frame_seq_no = dequeued_frame_seq_no
                           THEN "done" ELSE "error",
                 sequence |-> Sequence(q), timestamp |-> q.timestamp]
<1>1. /\ irq.cur \in heap /\ irq.cur \in Reqs /\ q.sbuf \in Bufs
      /\ ~CleaningUp => vb[q.sbuf] = "active"
  BY CurrentOwns DEF IrqDone
<1>2. q \in ReqRecord
  BY <1>1 DEF TypeInv, CoreTypeOK
<1>3. c \in Completion /\ c.buf = q.sbuf
  BY <1>1, <1>2 DEF Completion, ReqRecord, Sequence
<1>4. Vb2BufferDone(c)
  BY DEF IrqDone
<1> HIDE DEF c, q
<1>5. \/ vb[q.sbuf] = "active" /\ Completes(q.sbuf)
      \/ vb[q.sbuf] # "active" /\ CleaningUp /\ UNCHANGED <<vb, done_list>>
  BY <1>1, <1>3, <1>4 DEF Vb2BufferDone, Completes
<1>6. heap' = heap \ {<<irq.cur>>[i] : i \in 1 .. Len(<<irq.cur>>)}
  BY DEF IrqDone, Kfree
<1>7. {<<irq.cur>>[i] : i \in 1 .. Len(<<irq.cur>>)} = {irq.cur}
  OBVIOUS
<1> QED
  BY <1>1, <1>5, <1>6, <1>7 DEF q

\* A failed allocation completes the next buffer of the to-do list.
LEMMA NoMemoryCompletes ==
  ASSUME TypeInv, OwnInv, EnqueueNoMemory
  PROVE  /\ Completes(Head(ioctl.todo)) /\ Head(ioctl.todo) \in Bufs
         /\ vb[Head(ioctl.todo)] = "active"
<1> DEFINE c == [buf |-> Head(ioctl.todo), state |-> "error",
                 sequence |-> 0, timestamp |-> 0]
<1>1. ioctl.todo \in Seq(Bufs) /\ ioctl.todo # <<>>
  BY DEF TypeInv, CoreTypeOK, IoctlType, EnqueueNoMemory
<1>2. Head(ioctl.todo) = ioctl.todo[1] /\ 1 \in 1 .. Len(ioctl.todo)
      /\ Head(ioctl.todo) \in Bufs
  BY <1>1, EmptySeq, HeadTailProperties
<1>3. vb[Head(ioctl.todo)] = "active"
  BY <1>2 DEF OwnInv
<1>4. c \in Completion /\ c.buf = Head(ioctl.todo)
  BY <1>2 DEF Completion
<1>5. Vb2BufferDone(c)
  BY DEF EnqueueNoMemory
<1> HIDE DEF c
<1> QED
  BY <1>2, <1>3, <1>4, <1>5 DEF Vb2BufferDone, Completes

-----------------------------------------------------------------------------
\* Everything the four layers about buffers are proved from.
BufHypothesis ==
  /\ {"start", "stop"} \cap faults = {}
  /\ DriverInv
  /\ StreamPhases
  /\ BufInv

\* The types and phases behind it.
LEMMA BufTypes ==
  ASSUME BufHypothesis
  PROVE  /\ "start" \notin faults /\ "stop" \notin faults
         /\ TypeInv /\ HeapInv /\ IoctlPhases /\ CleanPhases /\ OffInv /\ StreamPhases
         /\ QueuedInv /\ CompletedInv /\ OwnInv /\ LinkedInv
         /\ vb \in [Bufs -> {"dequeued", "queued", "active", "done"}]
         /\ queued_list \in Seq(Bufs) /\ buf_list \in Seq(Bufs)
         /\ done_list \in Seq(Completion)
         /\ ioctl \in IoctlType /\ irq \in IrqType /\ ioctl.todo \in Seq(Bufs)
         /\ streaming \in {0, 1} /\ vbq_streaming \in {0, 1}
         /\ heap \subseteq Reqs /\ req \in [Reqs -> ReqRecord]
         /\ Len(queued_list) \in Nat /\ Len(buf_list) \in Nat
         /\ Len(done_list) \in Nat /\ Len(ioctl.todo) \in Nat
         /\ \A i \in 1 .. Len(queued_list) : queued_list[i] \in Bufs
         /\ \A i \in 1 .. Len(ioctl.todo) : ioctl.todo[i] \in Bufs
<1>1. /\ "start" \notin faults /\ "stop" \notin faults
      /\ TypeInv /\ HeapInv /\ IoctlPhases /\ CleanPhases /\ OffInv /\ StreamPhases
      /\ QueuedInv /\ CompletedInv /\ OwnInv /\ LinkedInv
  BY DEF BufHypothesis, DriverInv, BufInv
<1>2. /\ vb \in [Bufs -> {"dequeued", "queued", "active", "done"}]
      /\ queued_list \in Seq(Bufs) /\ buf_list \in Seq(Bufs)
      /\ done_list \in Seq(Completion)
      /\ ioctl \in IoctlType /\ irq \in IrqType
      /\ streaming \in {0, 1} /\ vbq_streaming \in {0, 1}
      /\ heap \subseteq Reqs /\ req \in [Reqs -> ReqRecord]
  BY <1>1 DEF TypeInv, CoreTypeOK
<1>3. ioctl.todo \in Seq(Bufs)
  BY <1>2 DEF IoctlType
<1> QED
  BY <1>1, <1>2, <1>3, ElementOfSeq

\* What STREAMON finds and makes.
LEMMA StreamOnBuffers ==
  ASSUME BufHypothesis, StreamOn
  PROVE  /\ ~InSession /\ buf_list = <<>> /\ heap = {} /\ InSession'
         /\ irq.pc \notin {"del", "done"} /\ irq' = irq
         /\ running_job_list = <<>> /\ pending_job_list = <<>>
         /\ buf_list' = queued_list /\ queued_list' = <<>>
         /\ ioctl'.todo = queued_list /\ ioctl'.pc = "enq" /\ ioctl'.op = "start"
         /\ vb' = [b \in Bufs |-> IF vb[b] = "queued" THEN "active" ELSE vb[b]]
         /\ UNCHANGED <<done_list, heap, req>>
<1>1. ~InSession /\ buf_list = <<>> /\ heap = {}
  BY BufTypes DEF LinkedInv, InSession, StreamOn, IoctlPhases, IoctlType
<1>2. buf_list \o queued_list = queued_list
  BY <1>1, BufTypes, ConcatEmptySeq
<1>3. running_job_list = <<>> /\ pending_job_list = <<>>
  <2>1. running_job_list \in Seq(Reqs) /\ pending_job_list \in Seq(Reqs)
    BY BufTypes DEF TypeInv, CoreTypeOK
  <2>2. /\ \A i \in 1 .. Len(running_job_list) : running_job_list[i] \in heap
        /\ \A i \in 1 .. Len(pending_job_list) : pending_job_list[i] \in heap
    BY BufTypes DEF HeapInv
  <2> QED
    BY <1>1, <2>1, <2>2, EmptySeq
<1>4. irq.pc \notin {"del", "done"}
  BY <1>3, BufTypes DEF TypeInv, IrqHoldsHead
<1> QED
  BY <1>1, <1>2, <1>3, <1>4 DEF StreamOn, InSession

\* Buffers kept by vb2.
LEMMA QueuedStep ==
  ASSUME BufHypothesis, [Next]_vars
  PROVE  QueuedInv'
<1>t. /\ vb \in [Bufs -> {"dequeued", "queued", "active", "done"}]
      /\ queued_list \in Seq(Bufs) /\ Len(queued_list) \in Nat
      /\ \A i \in 1 .. Len(queued_list) : queued_list[i] \in Bufs
  BY BufTypes
<1>i. QueuedInv /\ CompletedInv /\ OwnInv /\ TypeInv /\ IoctlPhases /\ "start" \notin faults
  BY BufTypes
<1> DEFINE SameQueued == \A b \in Bufs : vb'[b] = "queued" <=> vb[b] = "queued"
<1>s. SameQueued /\ UNCHANGED queued_list => QueuedInv'
  BY <1>t, <1>i DEF QueuedInv
<1>1. ASSUME NEW b \in Bufs, QBuf(b) PROVE QueuedInv'
  <2>1. vb[b] = "dequeued"
    BY <1>1 DEF QBuf
  <2>2. CASE vb' = [vb EXCEPT ![b] = "queued"] /\ queued_list' = Append(queued_list, b)
    <3>1. /\ Len(queued_list') = Len(queued_list) + 1
          /\ \A i \in 1 .. Len(queued_list) : queued_list'[i] = queued_list[i]
          /\ queued_list'[Len(queued_list) + 1] = b
      BY <1>t, <2>2, AppendProperties
    <3>2. \A i \in 1 .. Len(queued_list') :
            \/ i \in 1 .. Len(queued_list) /\ queued_list'[i] = queued_list[i]
            \/ i = Len(queued_list) + 1 /\ queued_list'[i] = b
      BY <1>t, <3>1
    <3>3. \A i \in 1 .. Len(queued_list) : queued_list[i] # b
      BY <1>i, <2>1 DEF QueuedInv
    <3>4. \A i \in 1 .. Len(queued_list') : vb'[queued_list'[i]] = "queued"
      BY <1>t, <1>i, <2>2, <3>2 DEF QueuedInv
    <3>5. \A i, j \in 1 .. Len(queued_list') : queued_list'[i] = queued_list'[j] => i = j
      BY <1>i, <3>2, <3>3 DEF QueuedInv
    <3>6. ASSUME NEW x \in Bufs, vb'[x] = "queued"
          PROVE  \E i \in 1 .. Len(queued_list') : queued_list'[i] = x
      <4>1. CASE x = b
        BY <1>t, <3>1, <4>1
      <4>2. CASE x # b
        <5>1. PICK i \in 1 .. Len(queued_list) : queued_list[i] = x
          BY <1>t, <1>i, <2>2, <3>6, <4>2 DEF QueuedInv
        <5>2. i \in 1 .. Len(queued_list')
          BY <1>t, <3>1
        <5> QED
          BY <3>1, <5>1, <5>2
      <4> QED
        BY <4>1, <4>2
    <3> QED
      BY <3>4, <3>5, <3>6 DEF QueuedInv
  <2>3. CASE vb' = [vb EXCEPT ![b] = "active"] /\ UNCHANGED queued_list
    BY <1>s, <1>t, <2>1, <2>3
  <2> QED
    BY <1>1, <2>2, <2>3 DEF QBuf
<1>2. CASE DQBuf
  <2>1. done_list \in Seq(Completion) /\ done_list # <<>>
    BY <1>2, BufTypes DEF DQBuf
  <2>2. Head(done_list) = done_list[1] /\ 1 \in 1 .. Len(done_list)
    BY <2>1, EmptySeq
  <2>3. vb[Head(done_list).buf] = "done"
    BY <1>i, <2>2 DEF CompletedInv
  <2> QED
    BY <1>s, <1>t, <1>2, <2>3 DEF DQBuf
<1>3. CASE StreamOn
  BY <1>3, StreamOnBuffers DEF QueuedInv
<1>4. ASSUME NEW b \in Bufs, vb[b] = "active", Completes(b), UNCHANGED queued_list
      PROVE  QueuedInv'
  BY <1>s, <1>t, <1>4 DEF Completes
<1>5. CASE EnqueueNoMemory
  BY <1>4, <1>5, <1>i, NoMemoryCompletes DEF EnqueueNoMemory
<1>6. CASE IrqDone
  <2>1. UNCHANGED queued_list
    BY <1>6 DEF IrqDone
  <2> QED
    BY <1>4, <1>6, <1>s, <2>1, BufTypes, IrqDoneEffects
<1>7. CASE ReturnAllBuffers
  BY <1>s, <1>t, <1>7 DEF ReturnAllBuffers
<1>8. CASE Vb2Cancel
  BY <1>8 DEF Vb2Cancel, QueuedInv
<1>9. CASE UNCHANGED <<vb, queued_list>>
  BY <1>s, <1>9
<1>10. CASE (\E r \in Reqs : EnqueueNoRequest(r)) \/ IrqDel
  BY <1>9, <1>10 DEF EnqueueNoRequest, IrqDel, vb2Vars
<1> QED
  BY <1>1, <1>2, <1>3, <1>5, <1>6, <1>7, <1>8, <1>9, <1>10, <1>i, BufEffect

\* Buffers that wait for DQBUF.
LEMMA CompletedStep ==
  ASSUME BufHypothesis, [Next]_vars
  PROVE  CompletedInv'
<1>t. /\ vb \in [Bufs -> {"dequeued", "queued", "active", "done"}]
      /\ done_list \in Seq(Completion) /\ Len(done_list) \in Nat
  BY BufTypes
<1>i. CompletedInv /\ OwnInv /\ TypeInv /\ IoctlPhases /\ "start" \notin faults
  BY BufTypes
<1> DEFINE DoneStays == \A b \in Bufs : vb[b] = "done" => vb'[b] = "done"
<1>s. DoneStays /\ UNCHANGED done_list => CompletedInv'
  BY <1>t, <1>i DEF CompletedInv
<1>1. CASE \E b \in Bufs : QBuf(b)
  BY <1>s, <1>t, <1>1 DEF QBuf
<1>2. CASE DQBuf
  <2>1. /\ Head(done_list) = done_list[1] /\ 1 \in 1 .. Len(done_list)
        /\ Len(done_list') = Len(done_list) - 1
        /\ \A i \in 1 .. Len(done_list) - 1 : done_list'[i] = done_list[i + 1]
    BY <1>t, <1>2, EmptySeq, HeadTailProperties DEF DQBuf
  <2>2. vb' = [vb EXCEPT ![done_list[1].buf] = "dequeued"]
    BY <1>2, <2>1 DEF DQBuf
  <2>3. \A i \in 1 .. Len(done_list') :
          /\ i + 1 \in 1 .. Len(done_list) /\ i + 1 # 1
          /\ done_list'[i] = done_list[i + 1]
    BY <1>t, <2>1
  <2>4. \A i \in 1 .. Len(done_list') : done_list[i + 1].buf # done_list[1].buf
    BY <1>i, <2>1, <2>3 DEF CompletedInv
  <2>5. \A i \in 1 .. Len(done_list') :
          done_list'[i].buf \in Bufs /\ vb'[done_list'[i].buf] = "done"
    BY <1>t, <1>i, <2>2, <2>3, <2>4 DEF CompletedInv
  <2>6. ASSUME NEW i \in 1 .. Len(done_list'), NEW j \in 1 .. Len(done_list'),
               done_list'[i].buf = done_list'[j].buf
        PROVE  i = j
    <3>1. i + 1 = j + 1
      BY <1>i, <2>3, <2>6 DEF CompletedInv
    <3> QED
      BY <1>t, <2>1, <3>1
  <2> QED
    BY <2>5, <2>6 DEF CompletedInv
<1>3. CASE StreamOn
  BY <1>s, <1>t, <1>3, StreamOnBuffers
<1>4. ASSUME NEW b \in Bufs, vb[b] = "active", Completes(b)
      PROVE  CompletedInv'
  <2>1. PICK c \in Completion : c.buf = b /\ done_list' = Append(done_list, c)
    BY <1>4 DEF Completes
  <2>2. vb' = [vb EXCEPT ![b] = "done"]
    BY <1>4 DEF Completes
  <2>3. /\ Len(done_list') = Len(done_list) + 1
        /\ \A i \in 1 .. Len(done_list) : done_list'[i] = done_list[i]
        /\ done_list'[Len(done_list) + 1] = c
    BY <1>t, <2>1, AppendProperties
  <2>4. \A i \in 1 .. Len(done_list') :
          \/ i \in 1 .. Len(done_list) /\ done_list'[i] = done_list[i]
          \/ i = Len(done_list) + 1 /\ done_list'[i] = c
    BY <1>t, <2>3
  <2>5. \A i \in 1 .. Len(done_list) : done_list[i].buf # b
    BY <1>i, <1>4 DEF CompletedInv
  <2>6. \A i \in 1 .. Len(done_list') :
          done_list'[i].buf \in Bufs /\ vb'[done_list'[i].buf] = "done"
    BY <1>t, <1>i, <2>1, <2>2, <2>4 DEF CompletedInv
  <2>7. \A i, j \in 1 .. Len(done_list') :
          done_list'[i].buf = done_list'[j].buf => i = j
    BY <1>i, <2>1, <2>4, <2>5 DEF CompletedInv
  <2> QED
    BY <2>6, <2>7 DEF CompletedInv
<1>5. CASE EnqueueNoMemory
  BY <1>4, <1>5, <1>i, NoMemoryCompletes
<1>6. CASE IrqDone
  BY <1>4, <1>6, <1>s, BufTypes, IrqDoneEffects
<1>7. CASE ReturnAllBuffers
  BY <1>s, <1>t, <1>7 DEF ReturnAllBuffers
<1>8. CASE Vb2Cancel
  BY <1>8 DEF Vb2Cancel, CompletedInv
<1>9. CASE UNCHANGED <<vb, done_list>>
  BY <1>s, <1>9
<1>10. CASE (\E r \in Reqs : EnqueueNoRequest(r)) \/ IrqDel
  BY <1>9, <1>10 DEF EnqueueNoRequest, IrqDel, vb2Vars
<1> QED
  BY <1>1, <1>2, <1>3, <1>5, <1>6, <1>7, <1>8, <1>9, <1>10, <1>i, BufEffect

\* Owners of buffers.
LEMMA OwnStep ==
  ASSUME BufHypothesis, [Next]_vars
  PROVE  OwnInv'
<1>t. /\ vb \in [Bufs -> {"dequeued", "queued", "active", "done"}]
      /\ ioctl \in IoctlType /\ ioctl.todo \in Seq(Bufs) /\ Len(ioctl.todo) \in Nat
      /\ heap \subseteq Reqs /\ req \in [Reqs -> ReqRecord]
      /\ \A i \in 1 .. Len(ioctl.todo) : ioctl.todo[i] \in Bufs
  BY BufTypes
<1>i. /\ QueuedInv /\ CompletedInv /\ OwnInv /\ LinkedInv /\ TypeInv /\ IoctlPhases
      /\ HeapInv /\ StreamPhases /\ "start" \notin faults
  BY BufTypes
<1> DEFINE Fewer == /\ heap' \subseteq heap
                    /\ \A r \in heap' : req'[r].sbuf = req[r].sbuf
           StillActive == \A x \in Bufs : vb[x] = "active" => vb'[x] = "active"
           SameTodo == /\ ioctl'.todo = ioctl.todo
                       /\ ioctl'.pc \notin {"enq", "try", "move"} => ioctl.todo = <<>>
<1>a. ASSUME Fewer, StillActive, SameTodo, CleaningUp => CleaningUp'
      PROVE  OwnInv'
  BY <1>a, <1>i, <1>t DEF OwnInv
<1>c. ioctl.pc = "idle" => ~CleaningUp /\ ioctl.todo = <<>>
  BY <1>i DEF CleaningUp, OwnInv
<1>1. ASSUME NEW b \in Bufs, QBuf(b) PROVE OwnInv'
  <2>1. vb[b] = "dequeued" /\ ioctl.pc = "idle" /\ UNCHANGED <<heap, req>>
    BY <1>1 DEF QBuf, jobVars
  <2>2. CASE vb' = [vb EXCEPT ![b] = "queued"] /\ UNCHANGED ioctl
    BY <1>a, <1>c, <1>t, <2>1, <2>2 DEF CleaningUp
  <2>3. CASE /\ vb' = [vb EXCEPT ![b] = "active"]
             /\ ioctl' = [pc |-> "enq", op |-> "qbuf", todo |-> <<b>>]
    <3>1. /\ Len(ioctl'.todo) = 1 /\ ioctl'.pc = "enq"
          /\ \A i \in 1 .. Len(ioctl'.todo) : i = 1 /\ ioctl'.todo[i] = b
      BY <2>3
    <3>2. \A r \in heap : req[r].sbuf \in Bufs /\ vb[req[r].sbuf] = "active"
      BY <1>c, <1>i, <2>1 DEF OwnInv
    <3>3. \A r \in heap : req[r].sbuf # b /\ vb'[req[r].sbuf] = "active"
      BY <1>t, <2>1, <2>3, <3>2
    <3>4. vb'[b] = "active"
      BY <1>t, <2>3
    <3> QED
      BY <1>i, <2>1, <3>1, <3>2, <3>3, <3>4 DEF OwnInv
  <2>4. CASE /\ vb' = [vb EXCEPT ![b] = "active"]
             /\ ioctl' = [pc |-> "corrupt", op |-> "qbuf", todo |-> <<>>]
    <3>1. ioctl'.todo = <<>> /\ Len(ioctl'.todo) = 0 /\ \A i \in 1 .. 0 : FALSE
      BY <2>4
    <3>2. \A r \in heap : vb'[req[r].sbuf] = "active"
      BY <1>c, <1>i, <1>t, <2>1, <2>4 DEF OwnInv
    <3> QED
      BY <1>i, <2>1, <3>1, <3>2 DEF OwnInv
  <2> QED
    BY <1>1, <2>2, <2>3, <2>4 DEF QBuf
<1>2. CASE DQBuf
  <2>1. done_list \in Seq(Completion) /\ done_list # <<>>
    BY <1>2, BufTypes DEF DQBuf
  <2>2. Head(done_list) = done_list[1] /\ 1 \in 1 .. Len(done_list)
    BY <2>1, EmptySeq
  <2>3. vb[Head(done_list).buf] = "done"
    BY <1>i, <2>2 DEF CompletedInv
  <2>4. StillActive
    BY <1>t, <1>2, <2>3 DEF DQBuf
  <2>5. UNCHANGED <<heap, req, ioctl>> /\ ioctl.pc = "idle"
    BY <1>2 DEF DQBuf, jobVars
  <2> QED
    BY <1>a, <1>c, <2>4, <2>5 DEF CleaningUp
<1>3. CASE StreamOn
  <2>1. /\ heap' = {} /\ ioctl'.todo = queued_list /\ ioctl'.pc = "enq"
        /\ vb' = [b \in Bufs |-> IF vb[b] = "queued" THEN "active" ELSE vb[b]]
    BY <1>3, StreamOnBuffers
  <2>2. \A i \in 1 .. Len(queued_list) : queued_list[i] \in Bufs
    BY BufTypes
  <2> QED
    BY <1>i, <2>1, <2>2 DEF OwnInv, QueuedInv
<1>4. ASSUME NEW r \in Reqs, EnqueueNoRequest(r) PROVE OwnInv'
  <2>1. /\ Head(ioctl.todo) = ioctl.todo[1] /\ 1 \in 1 .. Len(ioctl.todo)
        /\ Len(Tail(ioctl.todo)) = Len(ioctl.todo) - 1
        /\ \A i \in 1 .. Len(ioctl.todo) - 1 : Tail(ioctl.todo)[i] = ioctl.todo[i + 1]
    BY <1>t, <1>4, EmptySeq, HeadTailProperties DEF EnqueueNoRequest
  <2>2. /\ heap' = heap \cup {r} /\ r \notin heap /\ vb' = vb
        /\ req'[r].sbuf = ioctl.todo[1]
        /\ \A x \in heap : req'[x].sbuf = req[x].sbuf
        /\ ioctl'.todo = Tail(ioctl.todo) /\ ioctl'.pc = "try"
    BY <1>t, <1>4, <2>1 DEF EnqueueNoRequest, vb2Vars, IoctlType
  <2>3. ioctl.pc = "enq" /\ ~CleaningUp
    BY <1>4 DEF EnqueueNoRequest, CleaningUp
  <2>4. \A i \in 1 .. Len(ioctl'.todo) :
          /\ i + 1 \in 1 .. Len(ioctl.todo) /\ i + 1 # 1
          /\ ioctl'.todo[i] = ioctl.todo[i + 1]
    BY <1>t, <2>1, <2>2
  <2>5. \A i \in 1 .. Len(ioctl'.todo) :
          vb'[ioctl'.todo[i]] = "active" /\ ioctl'.todo[i] # ioctl.todo[1]
    BY <1>i, <2>1, <2>2, <2>4 DEF OwnInv
  <2>6. ASSUME NEW i \in 1 .. Len(ioctl'.todo), NEW j \in 1 .. Len(ioctl'.todo),
               ioctl'.todo[i] = ioctl'.todo[j]
        PROVE  i = j
    <3>1. i + 1 = j + 1
      BY <1>i, <2>4, <2>6 DEF OwnInv
    <3>2. i \in Nat /\ j \in Nat
      BY <1>t, <2>1, <2>2
    <3> QED
      BY <3>1, <3>2
  <2>7. \A x \in heap' : req'[x].sbuf \in Bufs /\ vb'[req'[x].sbuf] = "active"
    BY <1>i, <1>t, <2>1, <2>2, <2>3 DEF OwnInv
  <2>8. \A x \in heap : req[x].sbuf # ioctl.todo[1]
    BY <1>i, <2>1 DEF OwnInv
  <2>9. \A x, y \in heap' : req'[x].sbuf = req'[y].sbuf => x = y
    BY <1>i, <2>2, <2>8 DEF OwnInv
  <2>10. \A x \in heap' : \A i \in 1 .. Len(ioctl'.todo) :
           req'[x].sbuf # ioctl'.todo[i]
    BY <1>i, <2>2, <2>4, <2>5 DEF OwnInv
  <2> QED
    BY <2>2, <2>5, <2>6, <2>7, <2>9, <2>10 DEF OwnInv
<1>5. CASE EnqueueNoMemory
  <2>1. /\ Head(ioctl.todo) = ioctl.todo[1] /\ 1 \in 1 .. Len(ioctl.todo)
        /\ Len(Tail(ioctl.todo)) = Len(ioctl.todo) - 1
        /\ \A i \in 1 .. Len(ioctl.todo) - 1 : Tail(ioctl.todo)[i] = ioctl.todo[i + 1]
    BY <1>t, <1>5, EmptySeq, HeadTailProperties DEF EnqueueNoMemory
  <2>2. /\ UNCHANGED <<heap, req>> /\ vb' = [vb EXCEPT ![ioctl.todo[1]] = "done"]
        /\ ioctl'.todo = Tail(ioctl.todo) /\ ioctl'.pc = "enq" /\ ioctl.pc = "enq"
    BY <1>t, <1>i, <1>5, <2>1, NoMemoryCompletes
       DEF EnqueueNoMemory, jobVars, IoctlType, Completes
  <2>3. ~CleaningUp
    BY <2>2 DEF CleaningUp
  <2>4. \A i \in 1 .. Len(ioctl'.todo) :
          /\ i + 1 \in 1 .. Len(ioctl.todo) /\ i + 1 # 1
          /\ ioctl'.todo[i] = ioctl.todo[i + 1]
    BY <1>t, <2>1, <2>2
  <2>5. \A i \in 1 .. Len(ioctl'.todo) :
          vb[ioctl'.todo[i]] = "active" /\ ioctl'.todo[i] # ioctl.todo[1]
          /\ ioctl'.todo[i] \in Bufs
    BY <1>i, <1>t, <2>1, <2>2, <2>4 DEF OwnInv
  <2>6. \A i \in 1 .. Len(ioctl'.todo) : vb'[ioctl'.todo[i]] = "active"
    BY <1>t, <2>2, <2>5
  <2>7. ASSUME NEW i \in 1 .. Len(ioctl'.todo), NEW j \in 1 .. Len(ioctl'.todo),
               ioctl'.todo[i] = ioctl'.todo[j]
        PROVE  i = j
    <3>1. i + 1 = j + 1
      BY <1>i, <2>4, <2>7 DEF OwnInv
    <3>2. i \in Nat /\ j \in Nat
      BY <1>t, <2>1, <2>2
    <3> QED
      BY <3>1, <3>2
  <2>8. \A x \in heap : vb'[req[x].sbuf] = "active"
    BY <1>i, <1>t, <2>1, <2>2, <2>3 DEF OwnInv
  <2>9. \A x \in heap : \A i \in 1 .. Len(ioctl'.todo) : req[x].sbuf # ioctl'.todo[i]
    BY <1>i, <2>4 DEF OwnInv
  <2> QED
    BY <1>i, <2>2, <2>6, <2>7, <2>8, <2>9 DEF OwnInv
<1>6. CASE IrqDel
  <2>1. UNCHANGED <<vb, heap, req, ioctl>>
    BY <1>6 DEF IrqDel, vb2Vars, jobVars
  <2> QED
    BY <1>i, <2>1 DEF OwnInv, CleaningUp
<1>7. CASE IrqDone
  <2> DEFINE b == req[irq.cur].sbuf
  <2>1. irq.pc = "done" /\ UNCHANGED ioctl
    BY <1>7 DEF IrqDone
  <2>2. irq.cur \in heap /\ b \in Bufs /\ heap' = heap \ {irq.cur}
    BY <1>i, <1>7, IrqDoneEffects
  <2>3. vb' = [vb EXCEPT ![b] = "done"] \/ (CleaningUp /\ UNCHANGED vb)
    BY <1>i, <1>7, IrqDoneEffects DEF Completes
  <2>4. \A r \in heap' : req'[r].sbuf = req[r].sbuf
    <3>1. \A r \in Reqs : ~EnqueueNoRequest(r)
      BY <2>1, <1>t DEF EnqueueNoRequest, IoctlType
    <3> QED
      BY <1>i, <3>1, SbufStep
  <2>5. \A r \in heap' : r \in heap /\ req[r].sbuf # b
    BY <1>i, <2>2 DEF OwnInv
  <2>6. ~CleaningUp => \A r \in heap' : vb'[req'[r].sbuf] = "active"
    BY <1>i, <1>t, <2>2, <2>3, <2>4, <2>5 DEF OwnInv
  <2>7. \A i \in 1 .. Len(ioctl.todo) : vb'[ioctl.todo[i]] = "active"
    BY <1>i, <1>t, <2>2, <2>3 DEF OwnInv
  <2>8. CleaningUp' <=> CleaningUp
    BY <2>1 DEF CleaningUp
  <2> QED
    BY <1>i, <2>1, <2>4, <2>5, <2>6, <2>7, <2>8 DEF OwnInv
<1>8. CASE ReturnAllBuffers
  <2>1. /\ ioctl.todo = <<>> /\ ioctl'.todo = <<>> /\ ioctl'.pc = "clean_pending"
        /\ UNCHANGED <<heap, req>>
    BY <1>i, <1>t, <1>8 DEF ReturnAllBuffers, OwnInv, IoctlType, jobVars
  <2> QED
    BY <1>i, <2>1 DEF OwnInv, CleaningUp
<1>9. CASE Vb2Cancel
  <2>1. heap' = {} /\ ioctl'.todo = <<>>
    BY <1>i, <1>9 DEF Vb2Cancel, LinkedInv, InSession, jobVars, IoctlIdle
  <2> QED
    BY <2>1 DEF OwnInv
<1>10. ASSUME UNCHANGED vb, ioctl'.todo = ioctl.todo, CleaningUp' <=> CleaningUp,
              ioctl'.pc \notin {"enq", "try", "move"} =>
                ioctl.pc \notin {"enq", "try", "move"} \/ ioctl.todo = <<>>
       PROVE  OwnInv'
  <2>1. SameTodo
    BY <1>i, <1>10 DEF OwnInv
  <2> QED
    BY <1>4, <1>10, <1>a, <1>i, <2>1, SbufStep
<1> QED
  BY <1>1, <1>2, <1>3, <1>4, <1>5, <1>6, <1>7, <1>8, <1>9, <1>10, <1>i, BufEffect

\* list_del takes one element out and moves the later ones up.
LEMMA ListDelElements ==
  ASSUME NEW s \in Seq(Bufs), NEW b, \E i \in 1 .. Len(s) : s[i] = b
  PROVE  \E k \in 1 .. Len(s) :
           /\ s[k] = b
           /\ Len(ListDel(s, b)) = Len(s) - 1
           /\ \A i \in 1 .. k - 1 : ListDel(s, b)[i] = s[i]
           /\ \A i \in k .. Len(s) - 1 : ListDel(s, b)[i] = s[i + 1]
<1> DEFINE k == CHOOSE i \in 1 .. Len(s) : s[i] = b
           front == SubSeq(s, 1, k - 1)
           back == SubSeq(s, k + 1, Len(s))
<1>1. k \in 1 .. Len(s) /\ s[k] = b
  OBVIOUS
<1>2. ListDel(s, b) = front \o back
  BY DEF ListDel
<1> HIDE DEF k
<1>3. Len(s) \in Nat /\ k \in Nat
  BY <1>1
<1>4. /\ front \in Seq(Bufs) /\ Len(front) = k - 1
      /\ \A i \in 1 .. k - 1 : front[i] = s[i]
  BY <1>1, <1>3, SubSeqProperties, ElementOfSeq
<1>5. /\ back \in Seq(Bufs) /\ Len(back) = Len(s) - k
      /\ \A i \in 1 .. Len(s) - k : back[i] = s[k + i]
  <2>1. \A i \in 1 .. Len(s) - k : (k + 1) + i - 1 = k + i
    BY <1>3
  <2> QED
    BY <1>1, <1>3, <2>1, SubSeqProperties, ElementOfSeq
<1>a. front \in Seq(Bufs) /\ back \in Seq(Bufs)
  BY <1>4, <1>5
<1> HIDE DEF front, back
<1>6. /\ Len(front \o back) = Len(front) + Len(back)
      /\ \A i \in 1 .. Len(front) : (front \o back)[i] = front[i]
      /\ \A i \in 1 .. Len(back) : (front \o back)[Len(front) + i] = back[i]
  BY <1>a, ConcatElements
<1>7. Len(ListDel(s, b)) = Len(s) - 1
  BY <1>2, <1>3, <1>4, <1>5, <1>6
<1>8. \A i \in 1 .. k - 1 : ListDel(s, b)[i] = s[i]
  BY <1>2, <1>4, <1>6
<1>9. ASSUME NEW i \in k .. Len(s) - 1 PROVE ListDel(s, b)[i] = s[i + 1]
  <2>1. /\ i - (k - 1) \in 1 .. Len(s) - k
        /\ (k - 1) + (i - (k - 1)) = i /\ k + (i - (k - 1)) = i + 1
    BY <1>3
  <2>2. (front \o back)[(k - 1) + (i - (k - 1))] = back[i - (k - 1)]
    BY <1>4, <1>5, <1>6, <2>1
  <2>3. back[i - (k - 1)] = s[k + (i - (k - 1))]
    BY <1>5, <2>1
  <2> QED
    BY <1>2, <2>1, <2>2, <2>3
<1> QED
  BY <1>1, <1>7, <1>8, <1>9

\* What is linked and not deleted stays linked.
LEMMA ListDelKeeps ==
  ASSUME NEW s \in Seq(Bufs), NEW b, NEW j \in 1 .. Len(s), s[j] # b
  PROVE  \E i \in 1 .. Len(ListDel(s, b)) : ListDel(s, b)[i] = s[j]
<1>1. CASE \E i \in 1 .. Len(s) : s[i] = b
  <2>1. PICK k \in 1 .. Len(s) :
           /\ s[k] = b
           /\ Len(ListDel(s, b)) = Len(s) - 1
           /\ \A i \in 1 .. k - 1 : ListDel(s, b)[i] = s[i]
           /\ \A i \in k .. Len(s) - 1 : ListDel(s, b)[i] = s[i + 1]
    BY <1>1, ListDelElements
  <2>2. Len(s) \in Nat /\ k # j
    BY <2>1
  <2>3. CASE j < k
    <3>1. j \in 1 .. k - 1 /\ j \in 1 .. Len(s) - 1
      BY <2>2, <2>3
    <3> QED
      BY <2>1, <3>1
  <2>4. CASE j > k
    <3>1. j - 1 \in k .. Len(s) - 1 /\ j - 1 \in 1 .. Len(s) - 1 /\ (j - 1) + 1 = j
      BY <2>2, <2>4
    <3> QED
      BY <2>1, <3>1
  <2> QED
    BY <2>2, <2>3, <2>4
<1>2. CASE ~ \E i \in 1 .. Len(s) : s[i] = b
  BY <1>2 DEF ListDel
<1> QED
  BY <1>1, <1>2

\* Links.
LEMMA LinkedStep ==
  ASSUME BufHypothesis, [Next]_vars
  PROVE  LinkedInv'
<1>t. /\ vb \in [Bufs -> {"dequeued", "queued", "active", "done"}]
      /\ ioctl \in IoctlType /\ irq \in IrqType
      /\ buf_list \in Seq(Bufs) /\ Len(buf_list) \in Nat
      /\ heap \subseteq Reqs /\ vbq_streaming \in {0, 1}
  BY BufTypes
<1>i. /\ QueuedInv /\ CompletedInv /\ OwnInv /\ LinkedInv /\ TypeInv /\ IoctlPhases
      /\ HeapInv /\ CleanPhases /\ StreamPhases /\ "start" \notin faults
  BY BufTypes
<1> DEFINE OnList(x) == \E i \in 1 .. Len(buf_list) : buf_list[i] = x
           Completing(x) == irq.pc = "done" /\ x = req[irq.cur].sbuf
           LessActive == \A x \in Bufs : vb'[x] = "active" => vb[x] = "active"
           SameIrq == /\ irq.pc = "done" <=> irq'.pc = "done"
                      /\ irq.pc = "done" => irq'.cur = irq.cur
\* While the handler completes a job nobody touches the job's buffer.
<1>k. ASSUME SameIrq, irq.pc = "done"
      PROVE  req'[irq.cur].sbuf = req[irq.cur].sbuf /\ irq'.cur = irq.cur
  <2>1. irq.cur \in heap
    BY <1>i, <1>k, CurrentOwns
  <2>2. ASSUME NEW r \in Reqs, EnqueueNoRequest(r)
        PROVE  req'[irq.cur] = req[irq.cur]
    BY <1>t, <2>1, <2>2 DEF EnqueueNoRequest
  <2>3. irq.cur \in heap'
    <3>1. IrqHoldsHead'
      BY <1>i, TypeStep DEF TypeInv
    <3>2. running_job_list' # <<>> /\ irq.cur = Head(running_job_list')
      BY <1>k, <3>1 DEF IrqHoldsHead
    <3>3. running_job_list' \in Seq(Reqs)
      BY <1>i, TypeStep DEF TypeInv, CoreTypeOK
    <3>4. irq.cur = running_job_list'[1] /\ 1 \in 1 .. Len(running_job_list')
      BY <3>2, <3>3, EmptySeq
    <3>5. HeapInv'
      BY <1>i, HeapStep
    <3> QED
      BY <3>4, <3>5 DEF HeapInv
  <2> QED
    BY <1>i, <1>k, <2>2, <2>3, SbufStep
<1>x. ASSUME SameIrq, NEW x, Completing(x)
      PROVE  irq'.pc = "done" /\ x = req'[irq'.cur].sbuf
  BY <1>k, <1>x
<1>a. ASSUME LessActive, UNCHANGED buf_list, SameIrq,
             CleaningUp' => CleaningUp, ~InSession' => ~InSession /\ heap' = {}
      PROVE  LinkedInv'
  BY <1>a, <1>i, <1>x DEF LinkedInv
<1>c. ioctl.pc = "idle" => ~CleaningUp
  BY DEF CleaningUp
<1>1. ASSUME NEW b \in Bufs, QBuf(b) PROVE LinkedInv'
  <2>1. /\ vb[b] = "dequeued" /\ ioctl.pc = "idle"
        /\ UNCHANGED <<heap, req, irq, vbq_streaming>>
    BY <1>1 DEF QBuf, jobVars
  <2>2. CASE vb' = [vb EXCEPT ![b] = "queued"] /\ UNCHANGED <<ioctl, buf_list>>
    BY <1>a, <1>i, <1>t, <2>1, <2>2 DEF CleaningUp, InSession, LinkedInv
  <2>3. CASE /\ vb' = [vb EXCEPT ![b] = "active"] /\ vbq_streaming = 1
             /\ buf_list' = Append(buf_list, b)
             /\ ioctl' = [pc |-> "enq", op |-> "qbuf", todo |-> <<b>>]
    <3>1. ~CleaningUp' /\ InSession'
      BY <2>1, <2>3 DEF CleaningUp, InSession
    <3>2. /\ Len(buf_list') = Len(buf_list) + 1
          /\ \A i \in 1 .. Len(buf_list) : buf_list'[i] = buf_list[i]
          /\ buf_list'[Len(buf_list) + 1] = b
      BY <1>t, <2>3, AppendProperties
    <3>3. ASSUME NEW x \in Bufs, vb'[x] = "active"
          PROVE  \/ \E i \in 1 .. Len(buf_list') : buf_list'[i] = x
                 \/ Completing(x)
      <4>1. CASE x = b
        BY <1>t, <3>2, <4>1
      <4>2. CASE x # b
        <5>1. OnList(x) \/ Completing(x)
          BY <1>i, <1>t, <2>3, <3>3, <4>2 DEF LinkedInv
        <5>2. \A i \in 1 .. Len(buf_list) : i \in 1 .. Len(buf_list')
          BY <1>t, <3>2
        <5> QED
          BY <3>2, <5>1, <5>2
      <4> QED
        BY <4>1, <4>2
    <3> QED
      BY <2>1, <3>1, <3>3 DEF LinkedInv
  <2>4. CASE /\ vb' = [vb EXCEPT ![b] = "active"] /\ vbq_streaming = 1
             /\ Linked(b) /\ UNCHANGED buf_list
             /\ ioctl' = [pc |-> "corrupt", op |-> "qbuf", todo |-> <<>>]
    <3>1. ~CleaningUp' /\ InSession'
      BY <2>1, <2>4 DEF CleaningUp, InSession
    <3>2. ASSUME NEW x \in Bufs, vb'[x] = "active"
          PROVE  OnList(x) \/ Completing(x)
      BY <1>i, <1>t, <2>4, <3>2 DEF LinkedInv, Linked
    <3> QED
      BY <2>1, <2>4, <3>1, <3>2 DEF LinkedInv
  <2> QED
    BY <1>1, <2>2, <2>3, <2>4 DEF QBuf
<1>2. CASE DQBuf
  <2>1. LessActive
    BY <1>t, <1>2 DEF DQBuf
  <2>2. UNCHANGED <<heap, req, irq, vbq_streaming, ioctl, buf_list>>
    BY <1>2 DEF DQBuf, jobVars
  <2> QED
    BY <1>a, <1>i, <2>1, <2>2 DEF CleaningUp, InSession, LinkedInv
<1>3. CASE StreamOn
  <2>1. /\ buf_list = <<>> /\ buf_list' = queued_list /\ InSession'
        /\ irq.pc # "done" /\ irq' = irq /\ ioctl'.pc = "enq"
        /\ vb' = [b \in Bufs |-> IF vb[b] = "queued" THEN "active" ELSE vb[b]]
    BY <1>3, StreamOnBuffers
  <2>2. ASSUME NEW x \in Bufs, vb'[x] = "active"
        PROVE  \E i \in 1 .. Len(queued_list) : queued_list[i] = x
    <3>1. vb[x] = "queued" \/ vb[x] = "active"
      BY <2>1, <2>2
    <3>2. vb[x] # "active"
      BY <1>i, <2>1 DEF LinkedInv
    <3> QED
      BY <1>i, <3>1, <3>2 DEF QueuedInv
  <2> QED
    BY <2>1, <2>2 DEF LinkedInv, CleaningUp
<1>4. ASSUME NEW r \in Reqs, EnqueueNoRequest(r) PROVE LinkedInv'
  <2>1. /\ UNCHANGED <<vb, buf_list, irq, vbq_streaming>>
        /\ ioctl'.pc = "try" /\ ioctl'.op = ioctl.op /\ ioctl.pc = "enq"
    BY <1>t, <1>4 DEF EnqueueNoRequest, vb2Vars, IoctlType
  <2>2. ~CleaningUp' /\ InSession'
    BY <1>i, <1>t, <2>1 DEF CleaningUp, InSession, IoctlPhases, IoctlType
  <2> QED
    BY <1>a, <2>1, <2>2
<1>5. CASE EnqueueNoMemory
  <2>1. /\ UNCHANGED <<heap, req, buf_list, irq, vbq_streaming>>
        /\ ioctl'.pc = ioctl.pc /\ ioctl'.op = ioctl.op
    BY <1>t, <1>5 DEF EnqueueNoMemory, jobVars, IoctlType
  <2>2. LessActive
    BY <1>t, <1>i, <1>5, NoMemoryCompletes DEF Completes
  <2> QED
    BY <1>a, <1>i, <2>1, <2>2 DEF CleaningUp, InSession, LinkedInv
<1>6. CASE IrqDel
  <2> DEFINE b == req[irq.cur].sbuf
  <2>1. /\ UNCHANGED <<vb, heap, req, ioctl, vbq_streaming>> /\ irq.pc = "del"
        /\ buf_list' = ListDel(buf_list, b)
        /\ irq'.pc = "done" /\ irq'.cur = irq.cur
    BY <1>t, <1>6 DEF IrqDel, vb2Vars, jobVars, IrqType
  <2>2. ASSUME NEW x \in Bufs, vb'[x] = "active", x # b
        PROVE  \E i \in 1 .. Len(buf_list') : buf_list'[i] = x
    <3>1. PICK j \in 1 .. Len(buf_list) : buf_list[j] = x
      BY <1>i, <2>1, <2>2 DEF LinkedInv
    <3> QED
      BY <1>t, <2>1, <2>2, <3>1, ListDelKeeps
  <2>3. InSession'
    <3>1. irq.cur \in heap
      BY <1>i, <2>1, CurrentOwns
    <3> QED
      BY <1>i, <2>1, <3>1 DEF LinkedInv, InSession
  <2>4. CleaningUp' => buf_list' = <<>>
    <3>1. CleaningUp' => buf_list = <<>>
      BY <1>i, <2>1 DEF LinkedInv, CleaningUp
    <3>2. ListDel(<<>>, b) = <<>>
      BY DEF ListDel
    <3> QED
      BY <2>1, <3>1, <3>2
  <2> QED
    BY <2>1, <2>2, <2>3, <2>4 DEF LinkedInv
<1>7. CASE IrqDone
  <2> DEFINE b == req[irq.cur].sbuf
  <2>1. irq.pc = "done" /\ UNCHANGED <<ioctl, vbq_streaming, buf_list>>
    BY <1>7 DEF IrqDone
  <2>2. irq.cur \in heap /\ (vb' = [vb EXCEPT ![b] = "done"] \/ (vb' = vb /\ vb[b] # "active"))
    BY <1>i, <1>7, IrqDoneEffects DEF Completes
  <2>3. InSession' /\ (CleaningUp' => buf_list' = <<>>)
    BY <1>i, <2>1, <2>2 DEF CleaningUp, InSession, LinkedInv
  <2>4. \A x \in Bufs : vb'[x] = "active" => OnList(x)
    BY <1>i, <1>t, <2>1, <2>2 DEF LinkedInv
  <2> QED
    BY <2>1, <2>3, <2>4 DEF LinkedInv
<1>8. CASE ReturnAllBuffers
  <2>1. /\ ioctl.pc = "return" /\ ioctl'.pc = "clean_pending" /\ ioctl'.op = ioctl.op
        /\ buf_list' = <<>> /\ UNCHANGED <<vbq_streaming, irq, req>>
        /\ vb' = [b \in Bufs |-> IF vb[b] = "active" /\ OnList(b) THEN "done" ELSE vb[b]]
    BY <1>t, <1>8 DEF ReturnAllBuffers, IoctlType, jobVars
  <2>2. vbq_streaming = 1
    BY <1>i, <1>t, <2>1 DEF IoctlPhases, IoctlType
  <2>3. \A x \in Bufs : vb'[x] = "active" => Completing(x)
    BY <1>i, <1>t, <2>1 DEF LinkedInv
  <2>4. InSession'
    BY <2>1, <2>2 DEF InSession
  <2> QED
    BY <2>1, <2>3, <2>4 DEF LinkedInv
<1>9. CASE Vb2Cancel
  <2>1. /\ ioctl.pc = "cancel" /\ ioctl'.pc = "idle" /\ UNCHANGED <<buf_list, heap>>
        /\ \A b \in Bufs : vb'[b] # "active"
    BY <1>9 DEF Vb2Cancel, jobVars, IoctlIdle
  <2>2. buf_list = <<>> /\ heap = {}
    BY <1>i, <2>1 DEF LinkedInv, InSession
  <2> QED
    BY <2>1, <2>2 DEF LinkedInv
<1>10. CASE CleanRunning
  <2>1. /\ UNCHANGED <<vb, buf_list>> /\ ioctl.pc = "clean_running"
        /\ irq.pc # "done"
    BY <1>10 DEF CleanRunning, RunningLockFree, vb2Vars
  <2>2. buf_list' = <<>> /\ \A b \in Bufs : vb'[b] # "active"
    BY <1>i, <2>1 DEF LinkedInv, CleaningUp
  <2>3. heap' = {}
    <3>1. HeapInv'
      BY <1>i, HeapStep
    <3>2. running_job_list' = <<>> /\ pending_job_list' = <<>>
      BY <1>i, <1>10 DEF CleanRunning, CleanPhases
    <3> QED
      BY <3>1, <3>2 DEF HeapInv
  <2> QED
    BY <2>2, <2>3 DEF LinkedInv
<1>11. ASSUME UNCHANGED <<vb, buf_list>>, CleaningUp' <=> CleaningUp,
              ~InSession' => ~InSession \/ CleanRunning, SameIrq, ~CleanRunning
       PROVE  LinkedInv'
  <2>1. ASSUME ~InSession' PROVE ~InSession /\ heap' = {}
    <3>1. ~InSession /\ heap = {}
      BY <1>11, <1>i, <2>1 DEF LinkedInv
    <3>2. \A r \in Reqs : ~EnqueueNoRequest(r)
      BY <1>i, <1>t, <3>1 DEF EnqueueNoRequest, IoctlPhases, InSession, IoctlType
    <3> QED
      BY <1>i, <3>1, <3>2, SbufStep
  <2> QED
    BY <1>11, <1>a, <2>1
<1> QED
  BY <1>1, <1>2, <1>3, <1>4, <1>5, <1>6, <1>7, <1>8, <1>9, <1>10, <1>11, <1>i, BufEffect

\* The driver starts without buffers.
LEMMA BufInit == Init => BufInv
BY DEF Init, BufInv, QueuedInv, CompletedInv, OwnInv, LinkedInv, CleaningUp, InSession,
   IoctlIdle, IrqIdle

\* The four layers together.
LEMMA BufStep == BufHypothesis /\ [Next]_vars => BufInv'
BY QueuedStep, CompletedStep, OwnStep, LinkedStep DEF BufInv

\* What each set of faults leaves of the layers, for a handler however late.
BuffersInv ==
  /\ DriverInv
  /\ "stop" \notin faults => StreamPhases
  /\ {"start", "stop"} \cap faults = {} => BufInv

LEMMA BuffersInit == Init => BuffersInv
BY DriverInit, BufInit DEF Init, BuffersInv, StreamPhases, IoctlIdle

LEMMA BuffersStep == BuffersInv /\ [Next]_vars => BuffersInv'
<1> SUFFICES ASSUME BuffersInv, [Next]_vars PROVE BuffersInv'
  OBVIOUS
<1>1. DriverInv' /\ faults' = faults
  BY DriverStep, FaultsFixed DEF BuffersInv
<1>2. "stop" \notin faults => StreamPhases'
  BY StreamPhasesStep DEF BuffersInv, DriverInv
<1>3. {"start", "stop"} \cap faults = {} => BufInv'
  BY BufStep DEF BuffersInv, BufHypothesis
<1> QED
  BY <1>1, <1>2, <1>3 DEF BuffersInv

\* STREAMOFF cleans up when the last interrupt is served.
LEMMA BusyNotCleaning ==
  ASSUME FrameInv, StreamPhases, irq.pc # "idle"
  PROVE  ~CleaningUp
<1>t. ioctl \in IoctlType /\ streaming \in {0, 1} /\ IoctlPhases /\ QuietInv
  BY DEF FrameInv, CountInv, TypeInv, CoreTypeOK
<1> QED
  BY <1>t DEF CleaningUp, IoctlPhases, QuietInv, StreamPhases, IoctlType

-----------------------------------------------------------------------------
(***************************************************************************)
(* The three lists, when no allocation fails either.                       *)
(***************************************************************************)

\* The first job of the running list whose buffer the handler has unlinked.
Gone == IF irq.pc = "done" THEN 1 ELSE 0

\* The lists are in use: from STREAMON until the ISP is told to stop.
Listed == streaming = 1 \/ ioctl.op = "start"

\* The buffers linked are those of the running jobs, of the pending jobs and of
\* the to-do list, in this order.
ListInv ==
  Listed =>
    /\ Len(buf_list) = Len(running_job_list) - Gone + Len(pending_job_list)
                         + Len(ioctl.todo)
    /\ \A i \in 1 .. Len(running_job_list) - Gone :
         buf_list[i] = req[running_job_list[i + Gone]].sbuf
    /\ \A i \in 1 .. Len(pending_job_list) :
         buf_list[Len(running_job_list) - Gone + i] = req[pending_job_list[i]].sbuf
    /\ \A i \in 1 .. Len(ioctl.todo) :
         buf_list[Len(running_job_list) - Gone + Len(pending_job_list) + i] =
           ioctl.todo[i]

\* Until the ISP streams, a handler left over from the last session finds no job
\* to complete; it may still move the new jobs, and does so after its last scan.
StartInv ==
  ioctl.op = "start" /\ streaming = 0 =>
    /\ hw.bits = {}
    /\ irq.pc \notin {"idle", "sof", "stamp"} => running_job_list = <<>>

\* STREAMON starts without jobs and interrupts.
LEMMA StartStep ==
  ASSUME BufHypothesis, StartInv, [Next]_vars
  PROVE  StartInv'
<1> SUFFICES ASSUME ioctl'.op = "start", streaming' = 0 PROVE StartInv'
  BY DEF StartInv
<1>t. /\ ioctl \in IoctlType /\ irq \in IrqType /\ hw \in HwType
      /\ streaming \in {0, 1}
      /\ IoctlPhases /\ StreamPhases /\ OffInv
  BY BufTypes DEF TypeInv, CoreTypeOK
<1>h. irq.pc \in {"del", "done"} => running_job_list # <<>>
  BY BufTypes DEF TypeInv, IrqHoldsHead
<1>1. CASE StreamOn
  BY <1>1, StreamOnBuffers DEF StreamOn, StartInv, HwReset
<1>2. SUFFICES ASSUME ~StreamOn PROVE StartInv'
  BY <1>1
<1>3. ~(\E b \in Bufs : QBuf(b)) /\ ~StreamOff /\ ~SStreamOn /\ ~SStreamOnFails
  <2>1. ioctl.pc = "idle" => ioctl.op = "none"
    BY <1>t DEF IoctlPhases, IoctlType
  <2> QED
    BY <1>t, <2>1 DEF QBuf, StreamOff, SStreamOn, SStreamOnFails, IoctlType, IoctlIdle
<1>4. ioctl.pc \in {"ipi", "destroy", "return", "clean_pending", "clean_running",
                    "cancel", "move"} => ~(ioctl.op = "start" /\ streaming = 0)
  BY <1>t DEF IoctlPhases, StreamPhases
<1>5. ASSUME UNCHANGED <<streaming, hw, running_job_list>>, ioctl'.op = ioctl.op,
             irq.pc \in {"idle", "sof", "stamp"} => irq'.pc \in {"idle", "sof", "stamp"}
      PROVE  StartInv'
  BY <1>5 DEF StartInv
<1>6. CASE DQBuf \/ TxFrameWorker \/ ComposerAck \/ UNCHANGED vars
  BY <1>5, <1>6 DEF DQBuf, TxFrameWorker, ComposerAck, vars, sysVars, jobVars
<1>7. CASE \E r \in Reqs : EnqueueNoRequest(r)
  BY <1>5, <1>7, <1>t DEF EnqueueNoRequest, IoctlType
<1>8. CASE EnqueueNoMemory \/ IoctlTryQueue
  BY <1>5, <1>8, <1>t DEF EnqueueNoMemory, IoctlTryQueue, IoctlType, jobVars
<1>9. CASE EnqueueDone
  BY <1>5, <1>9, <1>t DEF EnqueueDone, IoctlType, IoctlIdle, jobVars
<1>10. ~(StreamOffIpi \/ DestroyWorkqueue \/ ReturnAllBuffers \/ CleanPending
         \/ CleanRunning \/ Vb2Cancel \/ IoctlMoveJobs)
  <2>1. ASSUME StreamOffIpi \/ DestroyWorkqueue \/ ReturnAllBuffers \/ CleanPending
               \/ CleanRunning \/ IoctlMoveJobs
        PROVE  FALSE
    BY <2>1, <1>4, <1>t DEF StreamOffIpi, DestroyWorkqueue, ReturnAllBuffers, CleanPending,
       CleanRunning, IoctlMoveJobs, IoctlType
  <2>2. ~Vb2Cancel
    BY DEF Vb2Cancel, IoctlIdle
  <2> QED
    BY <2>1, <2>2
<1>11. CASE IrqEnter \/ IrqEvent \/ IrqScanEnd \/ IrqDel \/ IrqTryQueue
  <2>1. ~IrqEnter
    BY <1>t DEF IrqEnter, StartInv
  <2> QED
    BY <1>5, <1>11, <1>t, <2>1 DEF IrqEvent, IrqScanEnd, IrqDel, IrqTryQueue, IrqType, jobVars
<1>12. ~IrqScan /\ ~IrqDone
  BY <1>h DEF IrqScan, IrqDone, StartInv
<1>13. CASE IrqMoveJobs
  BY <1>13, <1>t DEF IrqMoveJobs, IrqType, StartInv
<1>14. CASE IrqSof \/ IrqStamp
  <2>1. /\ UNCHANGED <<ioctl, streaming, running_job_list>> /\ hw'.bits = hw.bits
    BY <1>14, <1>t DEF IrqSof, IrqStamp, jobVars, HwType
  <2>2. irq' = IrqIdle \/ \E x : irq' = [irq EXCEPT !.pc = "stamp", !.cur = x]
    BY <1>14 DEF IrqSof, IrqStamp
  <2>3. irq'.pc \in {"idle", "stamp"}
    <3>1. ASSUME NEW x, irq' = [irq EXCEPT !.pc = "stamp", !.cur = x]
          PROVE  irq'.pc = "stamp"
      BY <1>t, <3>1 DEF IrqType
    <3>2. irq' = IrqIdle => irq'.pc = "idle"
      BY DEF IrqIdle
    <3> QED
      BY <2>2, <3>1, <3>2
  <2> QED
    BY <2>1, <2>3 DEF StartInv
<1>15. CASE ScpCompose
  <2>1. /\ UNCHANGED <<ioctl, irq, streaming, running_job_list>> /\ hw'.bits = hw.bits
    BY <1>15, <1>t DEF ScpCompose, jobVars, HwType
  <2> QED
    BY <2>1 DEF StartInv
<1>16. ~(HwSof \/ HwDone)
  BY <1>t, <1>4 DEF HwSof, HwDone, OffInv
<1> QED
  BY <1>2, <1>3, <1>6, <1>7, <1>8, <1>9, <1>10, <1>11, <1>12, <1>13, <1>14, <1>15, <1>16
     DEF Next, User, IoctlStep, IrqStep

\* The steps that touch the lists while they are in use.
LEMMA ListEffect ==
  ASSUME BufHypothesis, StartInv, "alloc" \notin faults, [Next]_vars, Listed'
  PROVE  \/ (\E b \in Bufs : QBuf(b)) /\ UNCHANGED Gone
         \/ StreamOn
         \/ \E r \in Reqs : EnqueueNoRequest(r)
         \/ IrqDel \/ IrqDone
         \/ /\ MoveJobs /\ Listed /\ irq.pc # "done" /\ irq'.pc # "done"
            /\ UNCHANGED <<buf_list, ioctl.todo>>
         \/ /\ Listed
            /\ UNCHANGED <<buf_list, running_job_list, pending_job_list, ioctl.todo>>
            /\ irq'.pc = "done" <=> irq.pc = "done"
            /\ \A r \in Reqs : req'[r].sbuf = req[r].sbuf
<1>t. /\ ioctl \in IoctlType /\ irq \in IrqType
      /\ streaming \in {0, 1} /\ vbq_streaming \in {0, 1}
      /\ IoctlPhases /\ TypeInv /\ StreamPhases
      /\ "start" \notin faults /\ "stop" \notin faults
  BY BufTypes
<1> DEFINE SameLists ==
             /\ Listed
             /\ UNCHANGED <<buf_list, running_job_list, pending_job_list, ioctl.todo>>
             /\ irq'.pc = "done" <=> irq.pc = "done"
             /\ \A r \in Reqs : req'[r].sbuf = req[r].sbuf
<1>s. SameJobs => /\ UNCHANGED <<running_job_list, pending_job_list>>
                  /\ \A r \in Reqs : req'[r].sbuf = req[r].sbuf
  BY DEF SameJobs
<1>1. CASE UNCHANGED <<buf_list, running_job_list, pending_job_list, req, ioctl, irq,
                       streaming>>
  BY <1>1 DEF Listed
<1>2. CASE DQBuf \/ TxFrameWorker \/ ScpCompose \/ ComposerAck \/ HwSof \/ HwDone
           \/ UNCHANGED vars
  BY <1>1, <1>2 DEF DQBuf, TxFrameWorker, ScpCompose, ComposerAck, HwSof, HwDone, vars,
     sysVars, vb2Vars, jobVars
<1>3. CASE IoctlTryQueue
  BY <1>t, <1>3 DEF IoctlTryQueue, IoctlType, jobVars, Listed
<1>4. CASE SStreamOn
  BY <1>t, <1>4 DEF SStreamOn, IoctlType, IoctlPhases, jobVars, Listed
<1>5. CASE EnqueueDone
  BY <1>t, <1>5 DEF EnqueueDone, IoctlType, IoctlIdle, IoctlPhases, jobVars, Listed,
     StreamPhases
<1>6. CASE IrqEnter \/ IrqEvent \/ IrqScanEnd \/ IrqTryQueue
  BY <1>t, <1>6 DEF IrqEnter, IrqEvent, IrqScanEnd, IrqTryQueue, IrqType, jobVars, Listed
<1>7. CASE IrqScan
  <2>1. UNCHANGED <<ioctl, streaming, buf_list, pending_job_list>>
    BY <1>7 DEF IrqScan
  <2>2. irq.pc = "scan" /\ streaming # 0
    BY <1>7, <2>1 DEF IrqScan, StartInv, Listed
  <2> QED
    BY <1>t, <1>7, <2>1, <2>2 DEF IrqScan, IrqType, Listed
<1>8. CASE IrqSof \/ IrqStamp
  <2>1. UNCHANGED <<ioctl, streaming, buf_list>> /\ irq.pc \in {"sof", "stamp"}
    BY <1>8 DEF IrqSof, IrqStamp
  <2>2. irq' = IrqIdle \/ \E x : irq' = [irq EXCEPT !.pc = "stamp", !.cur = x]
    BY <1>8 DEF IrqSof, IrqStamp
  <2>3. irq'.pc # "done"
    <3>1. ASSUME NEW x, irq' = [irq EXCEPT !.pc = "stamp", !.cur = x]
          PROVE  irq'.pc = "stamp"
      BY <1>t, <3>1 DEF IrqType
    <3>2. irq' = IrqIdle => irq'.pc = "idle"
      BY DEF IrqIdle
    <3> QED
      BY <2>2, <3>1, <3>2
  <2>4. SameJobs
    <3>1. ASSUME IrqStamp, NEW r \in Reqs
          PROVE  /\ req'[r].sbuf = req[r].sbuf
                 /\ req'[r].frame_seq_no = req[r].frame_seq_no
      BY <1>t, <3>1 DEF IrqStamp, TypeInv, CoreTypeOK, ReqRecord
    <3> QED
      BY <1>8, <3>1 DEF IrqSof, IrqStamp, SameJobs, jobVars
  <2> QED
    BY <1>s, <2>1, <2>3, <2>4 DEF Listed
<1>9. CASE IoctlMoveJobs
  BY <1>t, <1>9 DEF IoctlMoveJobs, IoctlType, Listed, RunningLockFree
<1>10. CASE IrqMoveJobs
  BY <1>t, <1>10 DEF IrqMoveJobs, IrqType, Listed
<1>11. ~(StreamOff \/ StreamOffIpi \/ DestroyWorkqueue \/ ReturnAllBuffers
         \/ CleanPending \/ CleanRunning \/ Vb2Cancel)
  <2>1. ioctl.pc = "idle" => ioctl.op = "none"
    BY <1>t DEF IoctlPhases, IoctlType
  <2>2. ~StreamOff
    BY <1>t, <2>1 DEF StreamOff, IoctlType, Listed, StreamPhases
  <2>3. /\ ioctl.pc \in {"ipi", "destroy", "return", "clean_pending",
                         "clean_running", "cancel"}
           => ioctl.op = "none" /\ streaming = 0
    BY <1>t DEF IoctlPhases, IoctlType, StreamPhases
  <2>4. ~(StreamOffIpi \/ DestroyWorkqueue \/ ReturnAllBuffers \/ CleanPending
          \/ CleanRunning)
    BY <1>t, <2>3 DEF StreamOffIpi, DestroyWorkqueue, ReturnAllBuffers, CleanPending,
       CleanRunning, IoctlType, Listed
  <2>5. ~Vb2Cancel
    BY <1>t, <2>3 DEF Vb2Cancel, IoctlIdle, Listed
  <2> QED
    BY <2>2, <2>4, <2>5
<1>12. ~SStreamOnFails /\ ~EnqueueNoMemory
  BY <1>t DEF SStreamOnFails, EnqueueNoMemory
<1>13. ASSUME NEW b \in Bufs, QBuf(b) PROVE UNCHANGED Gone
  BY <1>13 DEF QBuf, Gone
<1> HIDE DEF SameLists
<1>14. CASE SameLists
  BY <1>14 DEF SameLists
<1> QED
  BY <1>2, <1>3, <1>4, <1>5, <1>6, <1>7, <1>8, <1>9, <1>10, <1>11, <1>12, <1>13, <1>14
     DEF Next, User, IoctlStep, IrqStep, SameLists

\* list_del of the first element, when it occurs once.
LEMMA ListDelFirst ==
  ASSUME NEW s \in Seq(Bufs), Len(s) >= 1, \A i \in 2 .. Len(s) : s[i] # s[1]
  PROVE  /\ Len(ListDel(s, s[1])) = Len(s) - 1
         /\ \A i \in 1 .. Len(s) - 1 : ListDel(s, s[1])[i] = s[i + 1]
<1>1. Len(s) \in Nat /\ 1 \in 1 .. Len(s)
  OBVIOUS
<1>2. PICK k \in 1 .. Len(s) :
         /\ s[k] = s[1]
         /\ Len(ListDel(s, s[1])) = Len(s) - 1
         /\ \A i \in 1 .. k - 1 : ListDel(s, s[1])[i] = s[i]
         /\ \A i \in k .. Len(s) - 1 : ListDel(s, s[1])[i] = s[i + 1]
  BY <1>1, ListDelElements
<1>3. k = 1
  BY <1>1, <1>2
<1> QED
  BY <1>2, <1>3

\* The buffer of the first running job is linked once, at the head.
LEMMA HeadLinkedOnce ==
  ASSUME BufHypothesis, ListInv, Listed, irq.pc = "del"
  PROVE  /\ Len(running_job_list) \in Nat /\ Len(running_job_list) >= 1
         /\ Len(buf_list) >= 1
         /\ buf_list[1] = req[irq.cur].sbuf
         /\ \A i \in 2 .. Len(buf_list) : buf_list[i] # buf_list[1]
<1>t. /\ running_job_list \in Seq(Reqs) /\ pending_job_list \in Seq(Reqs)
      /\ Len(running_job_list) \in Nat /\ Len(pending_job_list) \in Nat
      /\ Len(ioctl.todo) \in Nat /\ Len(buf_list) \in Nat
      /\ OwnInv /\ HeapInv
  BY BufTypes DEF TypeInv, CoreTypeOK
<1>1. /\ running_job_list # <<>> /\ irq.cur = Head(running_job_list)
  BY BufTypes DEF TypeInv, IrqHoldsHead
<1>2. Len(running_job_list) >= 1 /\ irq.cur = running_job_list[1]
  BY <1>1, <1>t, EmptySeq
<1> DEFINE R == Len(running_job_list)
           P == Len(pending_job_list)
           T == Len(ioctl.todo)
<1>3. Gone = 0
  BY DEF Gone
<1>4. /\ Len(buf_list) = R + P + T
      /\ \A i \in 1 .. R : buf_list[i] = req[running_job_list[i]].sbuf
      /\ \A i \in 1 .. P : buf_list[R + i] = req[pending_job_list[i]].sbuf
      /\ \A i \in 1 .. T : buf_list[R + P + i] = ioctl.todo[i]
  <2>1. Len(running_job_list) - Gone = R /\ \A i \in 1 .. R : i + Gone = i
    BY <1>3, <1>t
  <2>2. /\ Len(buf_list) = R + P + T
        /\ \A i \in 1 .. R : buf_list[i] = req[running_job_list[i + Gone]].sbuf
        /\ \A i \in 1 .. P : buf_list[R + i] = req[pending_job_list[i]].sbuf
        /\ \A i \in 1 .. T : buf_list[R + P + i] = ioctl.todo[i]
    BY <2>1 DEF ListInv
  <2> QED
    BY <2>1, <2>2
<1> HIDE DEF R, P, T
<1>u. R \in Nat /\ P \in Nat /\ T \in Nat /\ R >= 1
  BY <1>t, <1>2 DEF R, P, T
<1>5. buf_list[1] = req[irq.cur].sbuf
  BY <1>2, <1>4, <1>u
<1>6. irq.cur \in heap
  BY <1>2, <1>t DEF HeapInv
<1>o. /\ \A r, s \in heap : req[r].sbuf = req[s].sbuf => r = s
      /\ \A r \in heap : \A i \in 1 .. T : req[r].sbuf # ioctl.todo[i]
  BY <1>t DEF OwnInv, T
<1>7. ASSUME NEW i \in 2 .. R PROVE buf_list[i] # buf_list[1]
  <2>1. running_job_list[i] # running_job_list[1] /\ running_job_list[i] \in heap
    BY <1>2, <1>t DEF HeapInv, R
  <2>2. buf_list[i] = req[running_job_list[i]].sbuf
    BY <1>4, <1>u
  <2> QED
    BY <1>2, <1>5, <1>6, <1>o, <2>1, <2>2
<1>8. ASSUME NEW i \in 1 .. P PROVE buf_list[R + i] # buf_list[1]
  <2>1. pending_job_list[i] # running_job_list[1] /\ pending_job_list[i] \in heap
    BY <1>2, <1>t DEF HeapInv, P
  <2> QED
    BY <1>2, <1>4, <1>5, <1>6, <1>o, <2>1
<1>9. ASSUME NEW i \in 1 .. T PROVE buf_list[R + P + i] # buf_list[1]
  BY <1>4, <1>5, <1>6, <1>o
<1>10. ASSUME NEW i \in 2 .. Len(buf_list) PROVE buf_list[i] # buf_list[1]
  <2>0. Len(buf_list) = R + P + T
    BY <1>4
  <2>1. CASE i <= R
    BY <1>7, <1>u, <2>1
  <2>2. CASE i > R /\ i <= R + P
    <3>1. i - R \in 1 .. P /\ R + (i - R) = i
      BY <1>u, <2>2
    <3> QED
      BY <1>8, <3>1
  <2>3. CASE i > R + P
    <3>1. i - (R + P) \in 1 .. T /\ R + P + (i - (R + P)) = i
      BY <1>u, <2>0, <2>3
    <3> QED
      BY <1>9, <3>1
  <2> QED
    BY <1>u, <2>0, <2>1, <2>2, <2>3
<1>11. Len(buf_list) >= 1
  BY <1>4, <1>u
<1> QED
  BY <1>2, <1>5, <1>10, <1>11, <1>t

\* What is linked while the ISP streams is active: a job's buffer, or one of
\* the to-do list.
LEMMA LinkedIsActive ==
  ASSUME BufHypothesis, ListInv, Listed, ioctl.pc = "idle",
         NEW b \in Bufs, Linked(b)
  PROVE  vb[b] = "active"
<1>t. /\ running_job_list \in Seq(Reqs) /\ pending_job_list \in Seq(Reqs)
      /\ Len(running_job_list) \in Nat /\ Len(pending_job_list) \in Nat
      /\ ioctl.todo \in Seq(Bufs) /\ Len(ioctl.todo) \in Nat
      /\ TypeInv /\ HeapInv /\ OwnInv
  BY BufTypes DEF TypeInv, CoreTypeOK
<1>1. /\ \A i \in 1 .. Len(running_job_list) : running_job_list[i] \in heap
      /\ \A i \in 1 .. Len(pending_job_list) : pending_job_list[i] \in heap
  BY <1>t DEF HeapInv
<1>2. \A r \in heap : vb[req[r].sbuf] = "active"
  BY <1>t DEF OwnInv, CleaningUp
<1>3. PICK k \in 1 .. Len(buf_list) : buf_list[k] = b
  BY DEF Linked
<1> DEFINE R == Len(running_job_list) - Gone
           P == Len(pending_job_list)
<1>4. Gone \in {0, 1}
  BY DEF Gone
<1>5. CASE k \in 1 .. R
  <2>1. b = req[running_job_list[k + Gone]].sbuf
    BY <1>3, <1>5 DEF ListInv
  <2>2. k + Gone \in 1 .. Len(running_job_list)
    BY <1>4, <1>5, <1>t
  <2> QED
    BY <1>1, <1>2, <2>1, <2>2
<1>6. CASE k > R /\ k <= R + P
  <2>1. k - R \in 1 .. P /\ R + (k - R) = k
    BY <1>3, <1>4, <1>6, <1>t
  <2>2. b = req[pending_job_list[k - R]].sbuf
    BY <1>3, <2>1 DEF ListInv
  <2> QED
    BY <1>1, <1>2, <2>1, <2>2
<1>7. CASE k > R + P
  <2>1. Len(ioctl.todo) = 0
    BY <1>t DEF OwnInv
  <2>2. Len(buf_list) = R + P + Len(ioctl.todo)
    BY DEF ListInv
  <2> QED
    BY <1>3, <1>4, <1>7, <1>t, <2>1, <2>2
<1> QED
  BY <1>3, <1>4, <1>5, <1>6, <1>7, <1>t

\* QBUF links a buffer that is not linked.
LEMMA NotLinked ==
  ASSUME BufHypothesis, ListInv, NEW b \in Bufs, QBuf(b), vbq_streaming = 1
  PROVE  ~Linked(b)
<1>1. ioctl.pc = "idle" /\ vb[b] = "dequeued"
  BY DEF QBuf
<1>2. Listed
  BY <1>1, BufTypes DEF Listed, StreamPhases
<1> QED
  BY <1>1, <1>2, LinkedIsActive DEF CleaningUp

\* The lists keep agreeing.
LEMMA ListStep ==
  ASSUME BufHypothesis, StartInv, "alloc" \notin faults, ListInv, [Next]_vars
  PROVE  ListInv'
<1> SUFFICES ASSUME Listed' PROVE ListInv'
  BY DEF ListInv
<1>t. /\ running_job_list \in Seq(Reqs) /\ pending_job_list \in Seq(Reqs)
      /\ Len(running_job_list) \in Nat /\ Len(pending_job_list) \in Nat
      /\ ioctl.todo \in Seq(Bufs) /\ Len(ioctl.todo) \in Nat
      /\ buf_list \in Seq(Bufs) /\ Len(buf_list) \in Nat
      /\ heap \subseteq Reqs /\ req \in [Reqs -> ReqRecord]
      /\ ioctl \in IoctlType /\ irq \in IrqType
      /\ TypeInv /\ HeapInv /\ OwnInv
  BY BufTypes DEF TypeInv, CoreTypeOK
<1>e. /\ \A i \in 1 .. Len(running_job_list) :
           running_job_list[i] \in heap /\ running_job_list[i] \in Reqs
      /\ \A i \in 1 .. Len(pending_job_list) :
           pending_job_list[i] \in heap /\ pending_job_list[i] \in Reqs
  BY <1>t DEF HeapInv
<1> DEFINE R == Len(running_job_list)
           P == Len(pending_job_list)
           T == Len(ioctl.todo)
           g == Gone
           Run(i) == req[running_job_list[i]].sbuf
           Pend(i) == req[pending_job_list[i]].sbuf
<1>g. g \in {0, 1} /\ (irq.pc = "done" => g = 1) /\ (irq.pc # "done" => g = 0)
  BY DEF Gone
<1>r. irq.pc \in {"del", "done"} => R >= 1
  <2>1. irq.pc \in {"del", "done"} => running_job_list # <<>>
    BY <1>t DEF TypeInv, IrqHoldsHead
  <2> QED
    BY <1>t, <2>1, EmptySeq
<1>l. ASSUME Listed
      PROVE  /\ Len(buf_list) = R - g + P + T
             /\ \A i \in 1 .. R - g : buf_list[i] = Run(i + g)
             /\ \A i \in 1 .. P : buf_list[R - g + i] = Pend(i)
             /\ \A i \in 1 .. T : buf_list[R - g + P + i] = ioctl.todo[i]
  BY <1>l DEF ListInv
<1>1. CASE /\ Listed
           /\ UNCHANGED <<buf_list, running_job_list, pending_job_list, ioctl.todo>>
           /\ irq'.pc = "done" <=> irq.pc = "done"
           /\ \A r \in Reqs : req'[r].sbuf = req[r].sbuf
  <2>1. Gone' = g
    BY <1>1 DEF Gone
  <2>2. \A i \in 1 .. R - g : i + g \in 1 .. R
    BY <1>g, <1>t
  <2> QED
    <3>1. \A i \in 1 .. R - g : req'[running_job_list[i + g]].sbuf = Run(i + g)
      BY <1>1, <1>e, <2>2
    <3>2. \A i \in 1 .. P : req'[pending_job_list[i]].sbuf = Pend(i)
      BY <1>1, <1>e
    <3>3. /\ Len(buf_list) = R - g + P + T
          /\ \A i \in 1 .. R - g : buf_list[i] = Run(i + g)
          /\ \A i \in 1 .. P : buf_list[R - g + i] = Pend(i)
          /\ \A i \in 1 .. T : buf_list[R - g + P + i] = ioctl.todo[i]
      BY <1>1, <1>l
    <3> QED
      BY <1>1, <2>1, <3>1, <3>2, <3>3 DEF ListInv
<1>2. CASE StreamOn
  <2>1. /\ buf_list' = queued_list /\ ioctl'.todo = queued_list
        /\ heap = {} /\ irq'.pc # "done" /\ queued_list \in Seq(Bufs)
        /\ Len(queued_list) \in Nat
    BY <1>2, StreamOnBuffers, BufTypes
  <2>2. UNCHANGED <<running_job_list, pending_job_list>>
    BY <1>2 DEF StreamOn
  <2>3. R = 0 /\ P = 0
    <3>1. \A i \in 1 .. R : FALSE
      BY <1>e, <2>1
    <3>2. \A i \in 1 .. P : FALSE
      BY <1>e, <2>1
    <3> QED
      BY <1>t, <3>1, <3>2
  <2>4. Gone' = 0
    BY <2>1 DEF Gone
  <2>5. \A i \in 1 .. Len(queued_list) : 0 - 0 + 0 + i = i
    BY <2>1
  <2> QED
    <3>1. /\ Len(running_job_list') - Gone' = 0 /\ Len(pending_job_list') = 0
          /\ \A i \in 1 .. 0 : FALSE
      BY <2>2, <2>3, <2>4
    <3>2. Len(queued_list) = 0 + 0 + Len(queued_list)
      BY <2>1
    <3> QED
      BY <2>1, <2>5, <3>1, <3>2 DEF ListInv
<1>3. ASSUME NEW b \in Bufs, QBuf(b), UNCHANGED Gone
      PROVE  ListInv'
  <2>1. /\ UNCHANGED <<running_job_list, pending_job_list, req, streaming>>
        /\ ioctl.pc = "idle"
    BY <1>3 DEF QBuf, jobVars
  <2>2. Gone' = g
    BY <1>3
  <2>3. ioctl.op # "start"
    BY <2>1, BufTypes DEF IoctlPhases
  <2>4. CASE UNCHANGED <<buf_list, ioctl>>
    <3>1. Listed
      BY <2>1, <2>4 DEF Listed
    <3> QED
      BY <2>1, <2>2, <2>4, <3>1 DEF ListInv
  <2>5. CASE /\ buf_list' = Append(buf_list, b)
             /\ ioctl' = [pc |-> "enq", op |-> "qbuf", todo |-> <<b>>]
    <3>1. Listed
      BY <2>1, <2>5 DEF Listed
    <3>2. T = 0
      BY <1>t, <2>1 DEF OwnInv
    <3>3. /\ Len(buf_list') = Len(buf_list) + 1
          /\ \A i \in 1 .. Len(buf_list) : buf_list'[i] = buf_list[i]
          /\ buf_list'[Len(buf_list) + 1] = b
      BY <1>t, <2>5, AppendProperties
    <3>4. Len(ioctl'.todo) = 1 /\ ioctl'.todo[1] = b
      BY <2>5
    <3> HIDE DEF R, P, T, g, Run, Pend
    <3>5. R \in Nat /\ P \in Nat /\ T \in Nat
      BY <1>t DEF R, P, T
    <3>6. Len(buf_list) = R - g + P + T
      BY <1>l, <3>1 DEF R, P, T, g
    <3>7. R - g \in Nat
      BY <1>g, <1>r, <1>t, <3>5
    <3>8. \A i \in 1 .. R - g : i \in 1 .. Len(buf_list)
      BY <3>2, <3>5, <3>6, <3>7
    <3>9. \A i \in 1 .. P : R - g + i \in 1 .. Len(buf_list)
      BY <3>2, <3>5, <3>6, <3>7
    <3>10. \A i \in 1 .. R - g : buf_list'[i] = req'[running_job_list'[i + g]].sbuf
      BY <1>l, <2>1, <3>1, <3>3, <3>8 DEF Run
    <3>11. \A i \in 1 .. P : buf_list'[R - g + i] = req'[pending_job_list'[i]].sbuf
      BY <1>l, <2>1, <3>1, <3>3, <3>9 DEF Pend
    <3>12. \A i \in 1 .. 1 : buf_list'[R - g + P + i] = ioctl'.todo[i]
      BY <3>2, <3>3, <3>4, <3>5, <3>6, <3>7
    <3>13. Len(buf_list') = R - g + P + 1
      BY <3>2, <3>3, <3>5, <3>6, <3>7
    <3> QED
      BY <2>1, <2>2, <3>4, <3>10, <3>11, <3>12, <3>13 DEF ListInv, R, P
  <2>6. vbq_streaming = 1 => ~Linked(b)
    BY <1>3, NotLinked
  <2> QED
    BY <1>3, <2>4, <2>5, <2>6 DEF QBuf
<1>4. ASSUME NEW r \in Reqs, EnqueueNoRequest(r) PROVE ListInv'
  <2>1. /\ UNCHANGED <<buf_list, running_job_list, irq, streaming>>
        /\ ioctl.pc = "enq" /\ ioctl'.op = ioctl.op
        /\ pending_job_list' = Append(pending_job_list, r)
        /\ ioctl.todo # <<>> /\ ioctl'.todo = Tail(ioctl.todo)
        /\ r \notin heap
    BY <1>t, <1>4 DEF EnqueueNoRequest, IoctlType
  <2>2. /\ Head(ioctl.todo) = ioctl.todo[1] /\ T \in Nat \ {0}
        /\ Len(ioctl'.todo) = T - 1
        /\ \A i \in 1 .. T - 1 : ioctl'.todo[i] = ioctl.todo[i + 1]
    BY <1>t, <2>1, EmptySeq, HeadTailProperties
  <2>3. /\ req'[r].sbuf = ioctl.todo[1]
        /\ \A x \in heap : req'[x].sbuf = req[x].sbuf
    BY <1>t, <1>4, <2>2 DEF EnqueueNoRequest
  <2>4. /\ Len(pending_job_list') = P + 1 /\ pending_job_list'[P + 1] = r
        /\ \A i \in 1 .. P : pending_job_list'[i] = pending_job_list[i]
    BY <1>t, <2>1, AppendProperties
  <2>5. Listed /\ Gone' = g
    BY <2>1 DEF Listed, Gone
  <2> HIDE DEF R, P, T, g, Run, Pend
  <2>6. R \in Nat /\ P \in Nat
    BY <1>t DEF R, P
  <2>7. R - g \in Nat
    BY <1>g, <1>r, <1>t, <2>6
  <2>8. \A i \in 1 .. R - g : buf_list'[i] = req'[running_job_list'[i + g]].sbuf
    <3>1. \A i \in 1 .. R - g : i + g \in 1 .. R
      BY <1>g, <2>6, <2>7
    <3> QED
      BY <1>e, <1>l, <2>1, <2>3, <2>5, <3>1 DEF Run, R
  <2>9. \A i \in 1 .. P + 1 : buf_list'[R - g + i] = req'[pending_job_list'[i]].sbuf
    <3>1. \A i \in 1 .. P : buf_list'[R - g + i] = req'[pending_job_list'[i]].sbuf
      BY <1>e, <1>l, <2>1, <2>3, <2>4, <2>5 DEF Pend, P
    <3>2. buf_list[R - g + P + 1] = ioctl.todo[1]
      BY <1>l, <2>2, <2>5
    <3>3. R - g + P + 1 = R - g + (P + 1) /\ \A i \in 1 .. P + 1 : i \in 1 .. P \/ i = P + 1
      BY <2>6, <2>7
    <3> QED
      BY <2>1, <2>3, <2>4, <3>1, <3>2, <3>3
  <2>10. \A i \in 1 .. T - 1 : buf_list'[R - g + (P + 1) + i] = ioctl'.todo[i]
    <3>1. \A i \in 1 .. T - 1 :
            i + 1 \in 1 .. T /\ R - g + (P + 1) + i = R - g + P + (i + 1)
      BY <2>2, <2>6, <2>7
    <3> QED
      BY <1>l, <2>1, <2>2, <2>5, <3>1
  <2>11. Len(buf_list') = R - g + (P + 1) + (T - 1) /\ T - 1 \in Nat /\ P + 1 \in Nat
    BY <1>l, <2>1, <2>2, <2>5, <2>6, <2>7
  <2> QED
    BY <2>1, <2>2, <2>4, <2>5, <2>8, <2>9, <2>10, <2>11 DEF ListInv, R
<1>5. CASE IrqDel
  <2>1. /\ UNCHANGED <<running_job_list, pending_job_list, req, ioctl, streaming>>
        /\ irq.pc = "del" /\ irq'.pc = "done"
        /\ buf_list' = ListDel(buf_list, req[irq.cur].sbuf)
    BY <1>t, <1>5 DEF IrqDel, jobVars, IrqType
  <2>2. Listed /\ g = 0 /\ Gone' = 1
    BY <2>1 DEF Listed, Gone
  <2>3. /\ R >= 1 /\ Len(buf_list) >= 1 /\ buf_list[1] = req[irq.cur].sbuf
        /\ \A i \in 2 .. Len(buf_list) : buf_list[i] # buf_list[1]
    BY <2>1, <2>2, HeadLinkedOnce
  <2>4. /\ Len(buf_list') = Len(buf_list) - 1
        /\ \A i \in 1 .. Len(buf_list) - 1 : buf_list'[i] = buf_list[i + 1]
    BY <1>t, <2>1, <2>3, ListDelFirst
  <2> HIDE DEF R, P, T, g, Run, Pend
  <2>5. R \in Nat /\ P \in Nat /\ T \in Nat
    BY <1>t DEF R, P, T
  <2>6. /\ Len(buf_list) = R + P + T
        /\ \A i \in 1 .. R : buf_list[i] = Run(i)
        /\ \A i \in 1 .. P : buf_list[R + i] = Pend(i)
        /\ \A i \in 1 .. T : buf_list[R + P + i] = ioctl.todo[i]
    <3>1. R - g = R /\ \A i \in 1 .. R : i + g = i
      BY <2>2, <2>5
    <3> QED
      BY <1>l, <2>2, <3>1
  <2>7. \A i \in 1 .. R - 1 : buf_list'[i] = req'[running_job_list'[i + 1]].sbuf
    <3>1. \A i \in 1 .. R - 1 : i + 1 \in 1 .. R /\ i \in 1 .. Len(buf_list) - 1
      BY <2>5, <2>6
    <3> QED
      BY <2>1, <2>4, <2>6, <3>1 DEF Run
  <2>8. \A i \in 1 .. P : buf_list'[R - 1 + i] = req'[pending_job_list'[i]].sbuf
    <3>1. \A i \in 1 .. P : R - 1 + i \in 1 .. Len(buf_list) - 1 /\ R - 1 + i + 1 = R + i
      BY <2>3, <2>5, <2>6
    <3> QED
      BY <2>1, <2>4, <2>6, <3>1 DEF Pend
  <2>9. \A i \in 1 .. T : buf_list'[R - 1 + P + i] = ioctl'.todo[i]
    <3>1. \A i \in 1 .. T :
            R - 1 + P + i \in 1 .. Len(buf_list) - 1 /\ R - 1 + P + i + 1 = R + P + i
      BY <2>3, <2>5, <2>6
    <3> QED
      BY <2>1, <2>4, <2>6, <3>1
  <2>10. Len(buf_list') = R - 1 + P + T
    BY <2>4, <2>5, <2>6
  <2> QED
    BY <2>1, <2>2, <2>7, <2>8, <2>9, <2>10 DEF ListInv, R, P, T
<1>6. CASE IrqDone
  <2>1. /\ UNCHANGED <<buf_list, pending_job_list, ioctl, streaming>>
        /\ irq.pc = "done" /\ irq'.pc # "done"
    BY <1>t, <1>6 DEF IrqDone, IrqType
  <2>2. Listed /\ g = 1 /\ Gone' = 0
    BY <2>1 DEF Listed, Gone
  <2>3. PopJob
    <3>1. running_job_list # <<>> /\ irq.cur = Head(running_job_list)
      BY <1>t, <2>1 DEF TypeInv, IrqHoldsHead
    <3> QED
      BY <1>6, <3>1 DEF IrqDone, PopJob
  <2>4. /\ R \in Nat \ {0} /\ Len(running_job_list') = R - 1
        /\ \A i \in 1 .. R - 1 : running_job_list'[i] = running_job_list[i + 1]
        /\ \A x \in Reqs : x # running_job_list[1] => req'[x] = req[x]
    BY <1>t, <2>3, PopJobLists
  <2>5. \A i \in 1 .. R - 1 : /\ i + 1 \in 1 .. R
                              /\ running_job_list[i + 1] # running_job_list[1]
    <3>1. \A i \in 1 .. R - 1 : i + 1 \in 1 .. R /\ i + 1 # 1 /\ 1 \in 1 .. R
      BY <2>4
    <3> QED
      BY <1>t, <3>1 DEF HeapInv
  <2>6. \A i \in 1 .. P : pending_job_list[i] # running_job_list[1]
    BY <1>t, <2>4 DEF HeapInv
  <2>7. /\ Len(buf_list) = R - 1 + P + T
        /\ \A i \in 1 .. R - 1 : buf_list[i] = Run(i + 1)
        /\ \A i \in 1 .. P : buf_list[R - 1 + i] = Pend(i)
        /\ \A i \in 1 .. T : buf_list[R - 1 + P + i] = ioctl.todo[i]
    BY <1>l, <2>2
  <2>8. \A i \in 1 .. R - 1 : buf_list'[i] = req'[running_job_list'[i]].sbuf
    BY <1>e, <2>1, <2>4, <2>5, <2>7
  <2>9. \A i \in 1 .. P : buf_list'[R - 1 + i] = req'[pending_job_list'[i]].sbuf
    BY <1>e, <2>1, <2>4, <2>6, <2>7
  <2> HIDE DEF R
  <2>10. R - 1 - 0 = R - 1 /\ R - 1 \in Nat /\ \A i \in 1 .. R - 1 : i + 0 = i
    BY <2>4
  <2> QED
    BY <2>1, <2>2, <2>4, <2>7, <2>8, <2>9, <2>10 DEF ListInv
<1>7. CASE /\ MoveJobs /\ Listed /\ irq.pc # "done" /\ irq'.pc # "done"
           /\ UNCHANGED <<buf_list, ioctl.todo>>
  <2> DEFINE n == Room
  <2>1. g = 0 /\ Gone' = 0
    BY <1>7 DEF Gone
  <2>2. /\ n \in 0 .. P
        /\ Len(running_job_list') = R + n
        /\ \A i \in 1 .. R : running_job_list'[i] = running_job_list[i]
        /\ \A i \in 1 .. n : running_job_list'[R + i] = pending_job_list[i]
        /\ Len(pending_job_list') = P - n
        /\ \A i \in 1 .. P - n : pending_job_list'[i] = pending_job_list[n + i]
    BY <1>7, <1>t, MoveJobsLists
  <2>3. \A r \in Reqs : req'[r].sbuf = req[r].sbuf
    BY <1>7, <1>t, MoveJobsNumbers
  <2> HIDE DEF R, P, T, g, Run, Pend, n
  <2>4. R \in Nat /\ P \in Nat /\ T \in Nat /\ n \in Nat
    BY <1>t, <2>2 DEF R, P, T
  <2>5. /\ Len(buf_list) = R + P + T
        /\ \A i \in 1 .. R : buf_list[i] = Run(i)
        /\ \A i \in 1 .. P : buf_list[R + i] = Pend(i)
        /\ \A i \in 1 .. T : buf_list[R + P + i] = ioctl.todo[i]
    <3>1. R - g = R /\ \A i \in 1 .. R : i + g = i
      BY <2>1, <2>4
    <3> QED
      BY <1>7, <1>l, <3>1
  <2>6. \A i \in 1 .. R + n : buf_list'[i] = req'[running_job_list'[i]].sbuf
    <3>1. ASSUME NEW i \in 1 .. R PROVE buf_list'[i] = req'[running_job_list'[i]].sbuf
      BY <1>7, <1>e, <2>2, <2>3, <2>5 DEF Run, R
    <3>2. ASSUME NEW i \in 1 .. n
          PROVE  buf_list'[R + i] = req'[running_job_list'[R + i]].sbuf
      <4>1. i \in 1 .. P
        BY <2>2, <2>4
      <4> QED
        BY <1>7, <1>e, <2>2, <2>3, <2>5, <4>1 DEF Pend, P
    <3>3. ASSUME NEW i \in 1 .. R + n
          PROVE  i \in 1 .. R \/ (i - R \in 1 .. n /\ R + (i - R) = i)
      BY <2>4
    <3> QED
      BY <3>1, <3>2, <3>3
  <2>7. ASSUME NEW i \in 1 .. P - n
        PROVE  buf_list'[R + n + i] = req'[pending_job_list'[i]].sbuf
    <3>1. n + i \in 1 .. P /\ R + n + i = R + (n + i)
      BY <2>2, <2>4
    <3> QED
      <4>1. pending_job_list'[i] = pending_job_list[n + i]
        BY <2>2
      <4>2. buf_list[R + (n + i)] = Pend(n + i)
        BY <2>5, <3>1
      <4>3. pending_job_list[n + i] \in Reqs
        BY <1>e, <3>1 DEF P
      <4> QED
        BY <1>7, <2>3, <3>1, <4>1, <4>2, <4>3 DEF Pend
  <2>8. \A i \in 1 .. T : buf_list'[R + n + (P - n) + i] = ioctl'.todo[i]
    <3>1. R + n + (P - n) = R + P
      BY <2>4
    <3> QED
      BY <1>7, <2>5, <3>1
  <2>9. /\ Len(buf_list') = R + n + (P - n) + T
        /\ R + n \in Nat /\ P - n \in Nat
    BY <1>7, <2>2, <2>4, <2>5
  <2>10. R + n - 0 = R + n /\ \A i \in 1 .. R + n : i + 0 = i
    BY <2>4
  <2> QED
    BY <1>7, <2>1, <2>2, <2>6, <2>7, <2>8, <2>9, <2>10 DEF ListInv, T
<1> QED
  BY <1>1, <1>2, <1>3, <1>4, <1>5, <1>6, <1>7, ListEffect

\* The list form of ListInv.
LEMMA ListInvAgrees ==
  ASSUME BufHypothesis, ListInv, streaming = 1
  PROVE  LET first == IF irq.pc = "done" THEN 2 ELSE 1
             jobs == SubSeq(running_job_list, first, Len(running_job_list))
                       \o pending_job_list
         IN  buf_list = [i \in 1 .. Len(jobs) |-> req[jobs[i]].sbuf] \o ioctl.todo
<1>t. /\ running_job_list \in Seq(Reqs) /\ pending_job_list \in Seq(Reqs)
      /\ Len(running_job_list) \in Nat /\ Len(pending_job_list) \in Nat
      /\ ioctl.todo \in Seq(Bufs) /\ Len(ioctl.todo) \in Nat
      /\ buf_list \in Seq(Bufs) /\ Len(buf_list) \in Nat
      /\ req \in [Reqs -> ReqRecord] /\ TypeInv
  BY BufTypes DEF TypeInv, CoreTypeOK
<1> DEFINE R == Len(running_job_list)
           P == Len(pending_job_list)
           T == Len(ioctl.todo)
           g == Gone
           first == IF irq.pc = "done" THEN 2 ELSE 1
           run == SubSeq(running_job_list, first, R)
           jobs == run \o pending_job_list
           linked == [i \in 1 .. Len(jobs) |-> req[jobs[i]].sbuf]
<1>1. first = g + 1 /\ g \in {0, 1} /\ g <= R
  <2>1. irq.pc = "done" => running_job_list # <<>>
    BY <1>t DEF TypeInv, IrqHoldsHead
  <2>2. irq.pc = "done" => R >= 1
    BY <1>t, <2>1, EmptySeq
  <2> QED
    BY <1>t, <2>2 DEF Gone
<1>2. /\ Len(buf_list) = R - g + P + T
      /\ \A i \in 1 .. R - g : buf_list[i] = req[running_job_list[i + g]].sbuf
      /\ \A i \in 1 .. P : buf_list[R - g + i] = req[pending_job_list[i]].sbuf
      /\ \A i \in 1 .. T : buf_list[R - g + P + i] = ioctl.todo[i]
  BY DEF ListInv, Listed
<1> HIDE DEF first, g
<1>3. /\ run \in Seq(Reqs) /\ Len(run) = R - g
      /\ \A i \in 1 .. R - g : run[i] = running_job_list[i + g]
  <2>1. /\ first \in 1 .. R + 1 /\ R - first + 1 = R - g
        /\ \A i \in 1 .. R - g : first + i - 1 = i + g
    BY <1>1, <1>t
  <2>2. \A i \in 1 .. R : running_job_list[i] \in Reqs
    BY <1>t, ElementOfSeq
  <2>3. \A i \in first .. R : running_job_list[i] \in Reqs
    BY <2>1, <2>2
  <2> QED
    BY <1>t, <2>1, <2>3, SubSeqProperties
<1> HIDE DEF run
<1>4. /\ jobs \in Seq(Reqs) /\ Len(jobs) = R - g + P
      /\ \A i \in 1 .. R - g : jobs[i] = run[i]
      /\ \A i \in 1 .. P : jobs[R - g + i] = pending_job_list[i]
  <2>1. /\ Len(run \o pending_job_list) = Len(run) + Len(pending_job_list)
        /\ \A i \in 1 .. Len(run) : (run \o pending_job_list)[i] = run[i]
        /\ \A i \in 1 .. Len(pending_job_list) :
             (run \o pending_job_list)[Len(run) + i] = pending_job_list[i]
    <3>1. run \in Seq(Reqs) /\ pending_job_list \in Seq(Reqs)
      BY <1>3, <1>t
    <3> QED
      BY <3>1, ConcatElements
  <2>2. run \o pending_job_list \in Seq(Reqs)
    BY <1>3, <1>t, ConcatProperties
  <2> QED
    BY <1>3, <2>1, <2>2
<1> HIDE DEF jobs
<1>5. R - g \in Nat /\ Len(jobs) \in Nat
  BY <1>1, <1>4, <1>t
<1>6. /\ linked \in Seq(Bufs \cup {NoBuf}) /\ Len(linked) = R - g + P
      /\ \A i \in 1 .. R - g + P : linked[i] = req[jobs[i]].sbuf
  <2>1. \A i \in 1 .. Len(jobs) : jobs[i] \in Reqs
    BY <1>4, ElementOfSeq
  <2>2. \A i \in 1 .. Len(jobs) : req[jobs[i]].sbuf \in Bufs \cup {NoBuf}
    BY <1>t, <2>1 DEF ReqRecord
  <2> QED
    BY <1>4, <1>5, <2>2
<1> HIDE DEF linked
<1>7. ioctl.todo \in Seq(Bufs \cup {NoBuf}) /\ buf_list \in Seq(Bufs \cup {NoBuf})
  BY <1>t
<1>8. /\ Len(linked \o ioctl.todo) = R - g + P + T
      /\ \A i \in 1 .. R - g + P : (linked \o ioctl.todo)[i] = linked[i]
      /\ \A i \in 1 .. T : (linked \o ioctl.todo)[R - g + P + i] = ioctl.todo[i]
      /\ linked \o ioctl.todo \in Seq(Bufs \cup {NoBuf})
  <2>1. /\ Len(linked \o ioctl.todo) = Len(linked) + Len(ioctl.todo)
        /\ \A i \in 1 .. Len(linked) : (linked \o ioctl.todo)[i] = linked[i]
        /\ \A i \in 1 .. Len(ioctl.todo) :
             (linked \o ioctl.todo)[Len(linked) + i] = ioctl.todo[i]
    <3>1. linked \in Seq(Bufs \cup {NoBuf}) /\ ioctl.todo \in Seq(Bufs \cup {NoBuf})
      BY <1>6, <1>7
    <3> QED
      BY <3>1, ConcatElements
  <2>2. linked \o ioctl.todo \in Seq(Bufs \cup {NoBuf})
    BY <1>6, <1>7, ConcatProperties
  <2> QED
    BY <1>6, <2>1, <2>2
<1> HIDE DEF R, P, T
<1>9. ASSUME NEW i \in 1 .. R - g + P + T PROVE buf_list[i] = (linked \o ioctl.todo)[i]
  <2>1. R \in Nat /\ P \in Nat /\ T \in Nat /\ R - g \in Nat
    BY <1>5, <1>t DEF R, P, T
  <2>2. CASE i <= R - g
    <3>1. i \in 1 .. R - g /\ i \in 1 .. R - g + P
      BY <2>1, <2>2
    <3> QED
      BY <1>2, <1>3, <1>4, <1>6, <1>8, <3>1
  <2>3. CASE i > R - g /\ i <= R - g + P
    <3>1. /\ i - (R - g) \in 1 .. P /\ i \in 1 .. R - g + P
          /\ R - g + (i - (R - g)) = i
      BY <2>1, <2>3
    <3>2. buf_list[i] = req[pending_job_list[i - (R - g)]].sbuf
      BY <1>2, <3>1
    <3>3. jobs[i] = pending_job_list[i - (R - g)]
      BY <1>4, <3>1
    <3> QED
      BY <1>6, <1>8, <3>1, <3>2, <3>3
  <2>4. CASE i > R - g + P
    <3>1. i - (R - g + P) \in 1 .. T /\ R - g + P + (i - (R - g + P)) = i
      BY <2>1, <2>4
    <3>2. buf_list[i] = ioctl.todo[i - (R - g + P)]
      BY <1>2, <3>1
    <3> QED
      BY <1>8, <3>1, <3>2
  <2>5. i <= R - g \/ (i > R - g /\ i <= R - g + P) \/ i > R - g + P
    BY <2>1
  <2> QED
    BY <2>2, <2>3, <2>4, <2>5
<1>10. buf_list = linked \o ioctl.todo
  BY <1>2, <1>7, <1>8, <1>9, SeqEqual
<1> QED
  BY <1>10 DEF linked, jobs, run, first, R

\* What each set of faults leaves of the lists.
ListsInv ==
  /\ BuffersInv
  /\ {"start", "stop"} \cap faults = {} => StartInv
  /\ {"start", "stop", "alloc"} \cap faults = {} => ListInv /\ ioctl.pc # "corrupt"

LEMMA ListsInit == Init => ListsInv
BY BuffersInit DEF Init, ListsInv, StartInv, ListInv, Listed, IoctlIdle

\* Only a QBUF of a linked buffer corrupts the list.
LEMMA SoundStep ==
  ASSUME BufHypothesis, ListInv, ioctl.pc # "corrupt", [Next]_vars
  PROVE  ioctl'.pc # "corrupt"
<1>t. ioctl \in IoctlType /\ vbq_streaming \in {0, 1}
  BY BufTypes
<1>1. ASSUME NEW b \in Bufs, QBuf(b) PROVE ioctl'.pc # "corrupt"
  BY <1>1, <1>t, NotLinked DEF QBuf
<1>2. CASE IoctlStep
  <2>1. CASE \E r \in Reqs : EnqueueNoRequest(r)
    BY <1>t, <2>1 DEF EnqueueNoRequest, IoctlType
  <2>2. CASE EnqueueNoMemory \/ IoctlTryQueue \/ IoctlMoveJobs
    BY <1>t, <2>2 DEF EnqueueNoMemory, IoctlTryQueue, IoctlMoveJobs, IoctlType
  <2>3. CASE EnqueueDone \/ SStreamOnFails
    BY <1>t, <2>3 DEF EnqueueDone, SStreamOnFails, IoctlIdle, IoctlType
  <2>6. CASE SStreamOn
    BY <1>t, <2>6 DEF SStreamOn, IoctlType
  <2>4. CASE StreamOffIpi \/ DestroyWorkqueue \/ ReturnAllBuffers
    BY <1>t, <2>4 DEF StreamOffIpi, DestroyWorkqueue, ReturnAllBuffers, IoctlType
  <2>5. CASE CleanPending \/ CleanRunning \/ Vb2Cancel
    BY <1>t, <2>5 DEF CleanPending, CleanRunning, Vb2Cancel, IoctlIdle, IoctlType
  <2> QED
    BY <1>2, <2>1, <2>2, <2>3, <2>4, <2>5, <2>6 DEF IoctlStep
<1>3. CASE StreamOn \/ StreamOff \/ DQBuf
  BY <1>3, <1>t DEF StreamOn, StreamOff, DQBuf, IoctlType
<1>4. ASSUME UNCHANGED ioctl PROVE ioctl'.pc # "corrupt"
  BY <1>4
<1>5. CASE IrqStep
  BY <1>4, <1>5 DEF IrqStep, IrqEnter, IrqEvent, IrqScan, IrqScanEnd, IrqDel, IrqDone,
     IrqTryQueue, IrqMoveJobs, IrqSof, IrqStamp
<1>6. CASE TxFrameWorker \/ ScpCompose \/ ComposerAck \/ HwSof \/ HwDone
  BY <1>4, <1>6 DEF TxFrameWorker, ScpCompose, ComposerAck, HwSof, HwDone
<1>7. CASE UNCHANGED vars
  BY <1>4, <1>7 DEF vars, sysVars
<1> QED
  BY <1>1, <1>2, <1>3, <1>5, <1>6, <1>7 DEF Next, User

LEMMA ListsStep == ListsInv /\ [Next]_vars => ListsInv'
<1> SUFFICES ASSUME ListsInv, [Next]_vars PROVE ListsInv'
  OBVIOUS
<1>1. BuffersInv' /\ faults' = faults
  BY BuffersStep, FaultsFixed DEF ListsInv
<1>2. ASSUME {"start", "stop"} \cap faults = {}
      PROVE  /\ StartInv'
             /\ {"start", "stop", "alloc"} \cap faults = {} =>
                  ListInv' /\ ioctl'.pc # "corrupt"
  <2>1. BufHypothesis
    BY <1>2 DEF BufHypothesis, BuffersInv, ListsInv
  <2> QED
    BY <1>2, <2>1, StartStep, ListStep, SoundStep DEF ListsInv
<1> QED
  BY <1>1, <1>2 DEF ListsInv

\* For every number of buffers and every job limit: node->buf_list is the buffers
\* of the running jobs, of the pending jobs and of the current ioctl, in this
\* order, provided STREAMON succeeds, the sub-devices stop when they are told to
\* and no allocation fails, however late an interrupt handler is.
THEOREM ListsAlwaysAgree == Spec => []ListsAgree
<1>1. ListsInv => ListsAgree
  <2> SUFFICES ASSUME ListsInv, Without({"start", "stop", "alloc"}), streaming = 1
               PROVE  ListsAgree
    BY DEF ListsAgree
  <2>1. BufHypothesis /\ ListInv
    BY DEF BufHypothesis, Without, BuffersInv, ListsInv
  <2> QED
    BY <2>1, ListInvAgrees DEF ListsAgree
<1> QED
  BY <1>1, ListsInit, ListsStep, PTL DEF Spec

\* For every number of buffers and every job limit: QBUF links only a buffer that
\* is not linked, mtk_cam_dev_job_done unlinks only a linked buffer and completes
\* only a buffer the driver owns, and STREAMOFF leaves no buffer in the driver,
\* provided STREAMON and the allocations succeed, the sub-devices stop when they
\* are told to and a handler is over before the SCP answers; IPIs may fail.
THEOREM AlwaysCompletedOnce == Spec => []CompletedOnceInOrder
<1> DEFINE Inv == ListsInv /\ ("slowirq" \notin faults => FrameInv)
<1>1. Init => Inv
  BY FrameInit, ListsInit
<1>2. Inv => CompletedOnceInOrder
  <2> SUFFICES ASSUME FrameInv, StreamPhases, BufInv, ioctl.pc # "corrupt"
               PROVE  CompletedOnce
    BY DEF CompletedOnceInOrder, Without, BuffersInv, ListsInv
  <2>1. OwnInv /\ LinkedInv /\ TypeInv /\ HeapInv
    BY DEF BufInv, FrameInv, CountInv
  <2>2. irq.pc \in {"del", "done"} =>
          /\ irq.cur \in heap /\ req[irq.cur].sbuf \in Bufs
          /\ vb[req[irq.cur].sbuf] = "active"
    BY <2>1, CurrentOwns, BusyNotCleaning
  <2>3. irq.pc = "del" => irq.pc # "done"
    OBVIOUS
  <2>4. ioctl.pc = "cancel" => buf_list = <<>> /\ irq.pc # "done"
    BY <2>1, <2>2 DEF LinkedInv, InSession
  <2> QED
    BY <2>1, <2>2, <2>3, <2>4 DEF LinkedInv, CompletedOnce, Linked
<1>3. Inv /\ [Next]_vars => Inv'
  BY ListsStep, FaultsFixed, FrameStep
<1> QED
  BY <1>1, <1>2, <1>3, PTL DEF Spec
=============================================================================
