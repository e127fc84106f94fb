-------------------------- MODULE CamBridgeProofs --------------------------
(***************************************************************************)
(* Proofs about CamRequests and its users: any number of requests, buffers *)
(* and nodes, any user, every set of faults.                               *)
(***************************************************************************)
EXTENDS CamBridge, SequenceTheorems, TLAPS

BufStates == {"dequeued", "in_request", "active", "done", "error"}
Request == [st : {"free", "idle", "queued", "complete"}, fd : BOOLEAN,
            objs : SUBSET Bufs, refs : SUBSET Bufs, dma : SUBSET Bufs, seq : Nat]
IrqPC == {"idle", "meta", "jobs", "del", "try"}

TypeInv ==
  /\ on \subseteq nodes /\ stopping \in BOOLEAN /\ streaming \in {0, 1}
  /\ vb \in [Bufs -> BufStates]
  /\ req \in [Reqs -> Request]
  /\ buf_list \in [nodes -> SUBSET Bufs]
  /\ \A n \in nodes : \A b \in buf_list[n] : Node(b) = n
  /\ filled \subseteq Bufs
  /\ pending_job_list \in Seq(Reqs) /\ running_job_list \in Seq(Reqs)
  /\ running_job_count \in Int /\ enqueued_frame_seq_no \in Nat
  /\ irq \in [pc : IrqPC, frame : Nat, cur : Reqs \cup {NoReq}]
  /\ irq.pc = "del" => running_job_list # <<>> /\ irq.cur \in Reqs
  /\ hw \in [frame : Nat, done : BOOLEAN]

\* A request holds what is bound to it, and a buffer is bound to one request.
Bound(q, v) ==
  /\ \A r \in Reqs :
       /\ q[r].objs \subseteq q[r].refs
       /\ q[r].st \in {"free", "complete"} => q[r].objs = {}
       /\ q[r].st = "queued" => q[r].objs # {} /\ q[r].objs \subseteq q[r].dma
       /\ \A b \in q[r].objs :
            v[b] = IF q[r].st = "idle" THEN "in_request" ELSE "active"
       /\ q[r].st = "free" => ~q[r].fd /\ q[r].refs = {}
  /\ \A r, s \in Reqs : r # s => q[r].objs \cap q[s].objs = {}

\* Memory nobody refers to is free.
Collected(q) ==
  \A r \in Reqs : ~q[r].fd /\ q[r].refs = {} => q[r].st \in {"free", "queued"}

BindInv == Bound(req, vb) /\ Collected(req)

\* The ISP and its interrupts are still when it does not stream.
PhaseInv ==
  /\ streaming = 1 => on = nodes /\ ~stopping
  /\ stopping => on # {}
  /\ streaming = 0 => hw = HwOff /\ irq.pc = "idle"
  /\ streaming = 0 /\ ~stopping => running_job_list = <<>>
  /\ irq.pc # "idle" => irq.frame = hw.frame /\ ~hw.done

\* What the lists can be relied on for: no user between the steps of the
\* handler, none that goes on while nodes stop, and none of the exceptions of
\* META_OUT_0.
Regular ==
  /\ Without({"window"})
  /\ Aao \in nodes => nodes # {Aao} /\ Without({"partial"})
  /\ stopping => Aao \notin nodes /\ Without({"partial"})

\* The first job that is not being unlinked.
FirstJob == IF irq.pc = "del" THEN 2 ELSE 1

\* A listed request x is queued, and held by a buffer of every node but
\* META_OUT_0 and those that have stopped.
Held(x) ==
  /\ x.st = "queued"
  /\ Without({"partial"}) =>
       \A n \in nodes \ {Aao} :
         (stopping => n \in on) => \E b \in x.objs : Node(b) = n
  /\ Aao \notin nodes /\ ~stopping => x.objs = x.dma

\* No request is in two places.
Placed(pending, running) ==
  /\ \A i, j \in 1 .. Len(pending) : pending[i] = pending[j] => i = j
  /\ \A i, j \in 1 .. Len(running) : running[i] = running[j] => i = j
  /\ \A i \in 1 .. Len(pending), j \in 1 .. Len(running) : pending[i] # running[j]

ListInv ==
  Regular =>
    /\ \A i \in 1 .. Len(pending_job_list) : Held(req[pending_job_list[i]])
    /\ \A i \in FirstJob .. Len(running_job_list) : Held(req[running_job_list[i]])
    /\ irq.pc = "del" => /\ irq.cur = running_job_list[1]
                         /\ req[irq.cur].st = "complete"
    /\ Placed(pending_job_list, running_job_list)

\* Running jobs have different numbers, and those of the frame the ISP has
\* written are written.
FrameInv ==
  Regular /\ Aao \notin nodes /\ ~stopping =>
    /\ hw.frame <= enqueued_frame_seq_no
    /\ \A i \in 1 .. Len(running_job_list) :
         req[running_job_list[i]].seq <= enqueued_frame_seq_no
    /\ \A i, j \in 1 .. Len(running_job_list) :
         req[running_job_list[i]].seq = req[running_job_list[j]].seq => i = j
    /\ \A i \in FirstJob .. Len(running_job_list) :
         req[running_job_list[i]].seq = hw.frame =>
           req[running_job_list[i]].objs \subseteq filled

\* What is returned without error is written.
WrittenInv ==
  Aao \notin nodes /\ Without({"window"}) =>
    \A b \in Bufs : vb[b] = "done" => b \in filled

RequestsInv ==
  TypeInv /\ BindInv /\ PhaseInv /\ ListInv /\ FrameInv /\ WrittenInv

\* The calls of a turn of bridge.c in which it has a request open.
TurnPC == {"qbuf", "queue", "poll", "dqbuf", "process"}

\* bridge.c has one request open, in a turn, and no other unless poll timed out.
BridgeInv ==
  client = "bridge" =>
    /\ Bufs = {Buf0}
    /\ pc \in {"streamon", "loop", "alloc", "streamoff", "exit"} \cup TurnPC
    /\ run \in BOOLEAN
    /\ on = IF pc \in {"streamon", "exit"} THEN {} ELSE {Main}
    /\ \A r \in Reqs : req[r].fd <=> pc \in TurnPC /\ r = req_fd
    /\ pc \in TurnPC => req_fd \in Reqs
    /\ pc \in {"streamon", "exit"} =>
         /\ AllFree /\ vb[Buf0] = "dequeued"
         /\ pending_job_list = <<>> /\ running_job_list = <<>>
    /\ Without({"timeout"}) =>
         /\ pc = "alloc" \/ (pc = "loop" /\ run) => AllFree /\ vb[Buf0] = "dequeued"
         /\ pc \in TurnPC => \A r \in Reqs \ {req_fd} : req[r].st = "free"
         /\ pc = "dqbuf" => vb[Buf0] \in {"done", "error"}
         /\ pc = "process" => vb[Buf0] = "dequeued" /\ req[req_fd].refs = {}
-----------------------------------------------------------------------------
(***************************************************************************)
(* The operators on requests.                                              *)
(***************************************************************************)
\* A request whose fields change is a request.
LEMMA RequestFields ==
  ASSUME NEW x \in Request
  PROVE  /\ \A v \in {"free", "idle", "queued", "complete"} :
              [x EXCEPT !.st = v] \in Request
         /\ \A v \in BOOLEAN : [x EXCEPT !.fd = v] \in Request
         /\ \A v \in SUBSET Bufs : /\ [x EXCEPT !.objs = v] \in Request
                                  /\ [x EXCEPT !.refs = v] \in Request
                                  /\ [x EXCEPT !.dma = v] \in Request
         /\ x.objs \in SUBSET Bufs /\ x.refs \in SUBSET Bufs
  BY DEF Request

\* media_request_put frees what nobody refers to and keeps the rest.
LEMMA CollectKeeps ==
  ASSUME NEW q \in [Reqs -> Request]
  PROVE  /\ Collect(q) \in [Reqs -> Request]
         /\ \A r \in Reqs :
              Collect(q)[r] = IF q[r].st # "queued" /\ ~q[r].fd /\ q[r].refs = {}
                              THEN FreeReq ELSE q[r]
  BY DEF Collect, FreeReq, Request

\* vb2_buffer_done unbinds buffers and completes a request that has no others.
LEMMA UnbindKeeps ==
  ASSUME NEW q \in [Reqs -> Request], NEW B
  PROVE  /\ Unbind(q, B) \in [Reqs -> Request]
         /\ \A r \in Reqs :
              /\ Unbind(q, B)[r].objs = q[r].objs \ B
              /\ Unbind(q, B)[r].st =
                   IF q[r].st = "queued" /\ q[r].objs \ B = {}
                   THEN "complete" ELSE q[r].st
              /\ Unbind(q, B)[r].fd = q[r].fd
              /\ Unbind(q, B)[r].refs = q[r].refs
              /\ Unbind(q, B)[r].dma = q[r].dma
              /\ Unbind(q, B)[r].seq = q[r].seq
  BY DEF Unbind, Request

\* Concatenation, element by element.
LEMMA ConcatElements ==
  ASSUME NEW s \in Seq(Reqs), NEW t \in Seq(Reqs)
  PROVE  /\ s \o t \in Seq(Reqs)
         /\ Len(s \o t) = Len(s) + Len(t)
         /\ \A i \in 1 .. Len(s) : (s \o t)[i] = s[i]
         /\ \A i \in 1 .. Len(t) : (s \o t)[Len(s) + i] = t[i]
<1>1. /\ s \o t \in Seq(Reqs)
      /\ Len(s \o t) = Len(s) + Len(t)
      /\ \A i \in 1 .. Len(s) + Len(t) :
           (s \o t)[i] = IF i <= Len(s) THEN s[i] ELSE t[i - Len(s)]
  BY ConcatProperties
<1>2. ASSUME NEW i \in 1 .. Len(t) PROVE (s \o t)[Len(s) + i] = t[i]
  <2>1. /\ Len(s) + i \in 1 .. Len(s) + Len(t)
        /\ ~(Len(s) + i <= Len(s))
        /\ Len(s) + i - Len(s) = i
    BY LenProperties
  <2> QED
    BY <1>1, <2>1
<1> QED
  BY <1>1, <1>2, LenProperties

\* The first n pending requests become the last of the running list, with the
\* frame numbers that follow seq.
Moved(pending, running, q, seq) ==
  \E n \in 0 .. Len(pending) :
    /\ enqueued_frame_seq_no' = seq + n
    /\ Len(pending_job_list') = Len(pending) - n
    /\ \A i \in 1 .. Len(pending) - n : pending_job_list'[i] = pending[n + i]
    /\ Len(running_job_list') = Len(running) + n
    /\ \A i \in 1 .. Len(running) : running_job_list'[i] = running[i]
    /\ \A i \in 1 .. n : running_job_list'[Len(running) + i] = pending[i]
    /\ \A r \in Reqs :
         (\A i \in 1 .. n : pending[i] # r) => req'[r].seq = q[r].seq
    /\ \A i \in 1 .. n :
         \E j \in 1 .. n :
           pending[j] = pending[i] /\ req'[pending[i]].seq = seq + j

\* Requests get frame numbers and do not change otherwise.
Renumbered(q) ==
  \A r \in Reqs : req'[r] = [q[r] EXCEPT !.seq = req'[r].seq]

\* What mtk_cam_dev_req_try_queue does to lists and requests.
LEMMA TryQueueEffect ==
  ASSUME NEW pending \in Seq(Reqs), NEW running \in Seq(Reqs), NEW count \in Int,
         NEW q \in [Reqs -> Request], NEW seq \in Nat,
         TryQueue(pending, running, count, q, seq)
  PROVE  /\ pending_job_list' \in Seq(Reqs) /\ running_job_list' \in Seq(Reqs)
         /\ running_job_count' \in Int /\ enqueued_frame_seq_no' \in Nat
         /\ req' \in [Reqs -> Request]
         /\ Renumbered(q)
         /\ Moved(pending, running, q, seq)
<1> DEFINE room == IF count < MaxRunning THEN MaxRunning - count ELSE 0
           n == IF Len(pending) < room THEN Len(pending) ELSE room
           moved == SubSeq(pending, 1, n)
           place(r) == CHOOSE i \in 1 .. n : moved[i] = r
<1>1. n \in 0 .. Len(pending)
  BY LenProperties, RequestsAssumption
<1>2. /\ pending_job_list' = SubSeq(pending, n + 1, Len(pending))
      /\ running_job_list' = running \o moved
      /\ running_job_count' = count + n
      /\ enqueued_frame_seq_no' = seq + n
      /\ req' = [r \in Reqs |-> IF Contains(moved, r)
                                THEN [q[r] EXCEPT !.seq = seq + place(r)] ELSE q[r]]
  BY DEF TryQueue
<1> HIDE DEF n
<1>3. /\ moved \in Seq(Reqs) /\ Len(moved) = n
      /\ \A i \in 1 .. n : moved[i] = pending[i]
  BY <1>1, SubSeqProperties, ElementOfSeq
<1>4. /\ pending_job_list' \in Seq(Reqs)
      /\ Len(pending_job_list') = Len(pending) - n
      /\ \A i \in 1 .. Len(pending) - n : pending_job_list'[i] = pending[n + i]
  BY <1>1, <1>2, SubSeqProperties, ElementOfSeq
<1> HIDE DEF moved
<1>5. /\ running_job_list' \in Seq(Reqs)
      /\ Len(running_job_list') = Len(running) + n
      /\ \A i \in 1 .. Len(running) : running_job_list'[i] = running[i]
      /\ \A i \in 1 .. n : running_job_list'[Len(running) + i] = pending[i]
  <2>1. /\ running \o moved \in Seq(Reqs)
        /\ Len(running \o moved) = Len(running) + Len(moved)
        /\ \A i \in 1 .. Len(running) : (running \o moved)[i] = running[i]
        /\ \A i \in 1 .. Len(moved) : (running \o moved)[Len(running) + i] = moved[i]
    BY <1>3, ConcatElements
  <2> QED
    BY <1>2, <1>3, <2>1
<1>6. ASSUME NEW r \in Reqs, Contains(moved, r)
      PROVE  place(r) \in 1 .. n /\ pending[place(r)] = r
  <2>1. \E i \in 1 .. n : moved[i] = r
    BY <1>3, <1>6 DEF Contains
  <2> QED
    BY <2>1, <1>3
<1> HIDE DEF place
<1>7. ASSUME NEW r \in Reqs
      PROVE  /\ req'[r] \in Request
             /\ req'[r] = [q[r] EXCEPT !.seq = req'[r].seq]
             /\ Contains(moved, r) => req'[r].seq = seq + place(r)
             /\ ~Contains(moved, r) => req'[r].seq = q[r].seq
  <2>1. q[r] \in Request
    OBVIOUS
  <2>2. CASE Contains(moved, r)
    <3>1. seq + place(r) \in Nat
      BY <1>1, <1>6, <2>2
    <3> QED
      BY <1>2, <2>1, <2>2, <3>1 DEF Request
  <2>3. CASE ~Contains(moved, r)
    BY <1>2, <2>1, <2>3 DEF Request
  <2> QED
    BY <2>2, <2>3
<1>8. req' \in [Reqs -> Request]
  BY <1>2, <1>7
<1>9. ASSUME NEW i \in 1 .. n
      PROVE  \E j \in 1 .. n :
               pending[j] = pending[i] /\ req'[pending[i]].seq = seq + j
  <2>1. pending[i] \in Reqs /\ Contains(moved, pending[i])
    BY <1>1, <1>3, ElementOfSeq DEF Contains
  <2> QED
    BY <1>6, <1>7, <2>1
<1>10. ASSUME NEW r \in Reqs, \A i \in 1 .. n : pending[i] # r
       PROVE  req'[r].seq = q[r].seq
  BY <1>3, <1>7, <1>10 DEF Contains
<1>11. running_job_count' \in Int /\ enqueued_frame_seq_no' \in Nat
  BY <1>1, <1>2
<1> QED
  BY <1>1, <1>2, <1>4, <1>5, <1>7, <1>8, <1>9, <1>10, <1>11 DEF Moved, Renumbered
-----------------------------------------------------------------------------
(***************************************************************************)
(* The steps of the driver and of its users.                               *)
(***************************************************************************)
\* A step of the driver, a call of the user, or nothing that concerns requests.
RequestsStep ==
  /\ UNCHANGED given
  /\ DriverStep \/ UserStep \/ UNCHANGED sysVars

\* Whatever user is at work, each step is one of these.
LEMMA NextRequests == BridgeInv /\ [Next]_allVars => RequestsStep
<1> SUFFICES ASSUME BridgeInv, [Next]_allVars PROVE RequestsStep
  OBVIOUS
<1> USE DEF RequestsStep
<1>1. CASE DriverStep /\ UNCHANGED <<given, client, bridgeVars>>
  BY <1>1
<1>2. CASE client = "any" /\ UserStep /\ UNCHANGED <<given, client, bridgeVars>>
  BY <1>2
<1>3. CASE /\ client = "bridge"
           /\ BridgeCall \/ BridgePollFails \/ BridgeStart \/ Signal
           /\ UNCHANGED <<given, client>>
  <2>1. /\ Buf0 \in Bufs /\ Main \in nodes
        /\ pc \in TurnPC => req_fd \in Reqs
    BY <1>3 DEF BridgeInv, nodes, Node, Buf0
  <2>2. CASE BridgeStreamOn
    BY <1>3, <2>1, <2>2 DEF BridgeStreamOn, UserStep
  <2>3. CASE BridgeLoop
    BY <1>3, <2>3 DEF BridgeLoop
  <2>4. CASE BridgeAlloc
    BY <1>3, <2>4 DEF BridgeAlloc, UserStep
  <2>5. CASE BridgeNoMemory
    BY <1>3, <2>5 DEF BridgeNoMemory
  <2>6. CASE BridgeQBuf
    BY <1>3, <2>1, <2>6 DEF BridgeQBuf, UserStep, TurnPC
  <2>7. CASE BridgeQBufFails
    BY <1>3, <2>1, <2>7 DEF BridgeQBufFails, UserStep, TurnPC
  <2>8. CASE BridgeReqQueue
    BY <1>3, <2>1, <2>8 DEF BridgeReqQueue, UserStep, TurnPC
  <2>9. CASE BridgePoll
    BY <1>3, <2>9 DEF BridgePoll
  <2>10. CASE BridgePollFails
    BY <1>3, <2>1, <2>10 DEF BridgePollFails, UserStep, TurnPC
  <2>11. CASE BridgeDQBuf
    BY <1>3, <2>1, <2>11 DEF BridgeDQBuf, UserStep
  <2>12. CASE BridgeClose
    BY <1>3, <2>1, <2>12 DEF BridgeClose, UserStep, TurnPC
  <2>13. CASE BridgeStreamOff
    BY <1>3, <2>1, <2>13 DEF BridgeStreamOff, UserStep
  <2>14. CASE BridgeStart \/ Signal
    BY <1>3, <2>14 DEF BridgeStart, Signal
  <2> QED
    BY <1>3, <2>2, <2>3, <2>4, <2>5, <2>6, <2>7, <2>8, <2>9, <2>10, <2>11, <2>12,
       <2>13, <2>14 DEF BridgeCall
<1>4. CASE UNCHANGED allVars
  BY <1>4 DEF allVars, vars
<1> QED
  BY <1>1, <1>2, <1>3, <1>4 DEF Next

\* The buffers and the faults of a behaviour do not change.
LEMMA GivenStays ==
  RequestsStep => /\ Bufs' = Bufs /\ faults' = faults /\ nodes' = nodes
                  /\ \A F : Without(F)' = Without(F)
  BY DEF RequestsStep, given, nodes, Without

-----------------------------------------------------------------------------
\* The variables keep their types.
LEMMA TypeStep ==
  ASSUME TypeInv, RequestsStep
  PROVE  TypeInv'
<1>g. Bufs' = Bufs /\ nodes' = nodes /\ Request' = Request
  BY GivenStays DEF Request
<1>t. /\ req \in [Reqs -> Request] /\ vb \in [Bufs -> BufStates]
      /\ pending_job_list \in Seq(Reqs) /\ running_job_list \in Seq(Reqs)
      /\ running_job_count \in Int /\ enqueued_frame_seq_no \in Nat
  BY DEF TypeInv
<1> USE <1>g, RequestsAssumption DEF TypeInv, BufStates, IrqPC
<1>1. ASSUME NEW r \in Reqs, ReqAlloc(r) PROVE TypeInv'
  BY <1>1 DEF ReqAlloc, FreeReq, Request, runVars, bufVars, jobVars
<1>2. ASSUME NEW r \in Reqs, NEW b \in Bufs, QBuf(b, r) PROVE TypeInv'
  <2> DEFINE x == [req[r] EXCEPT !.objs = @ \cup {b}]
             y == [x EXCEPT !.refs = @ \cup {b}]
  <2>1. x \in Request
    BY <1>t, RequestFields
  <2> HIDE DEF x
  <2>2. y \in Request
    BY <2>1, RequestFields
  <2>3. req' = [s \in Reqs |-> IF s = r THEN y ELSE req[s]]
    BY <1>2, <1>t DEF QBuf, x, Request
  <2> HIDE DEF y
  <2>4. req' \in [Reqs -> Request]
    BY <1>t, <2>2, <2>3
  <2> QED
    BY <1>2, <2>4 DEF QBuf, runVars, jobVars
<1>3. ASSUME NEW r \in Reqs, ReqQueue(r) PROVE TypeInv'
  <2> DEFINE q == [req EXCEPT ![r].st = "queued", ![r].dma = req[r].objs]
             pending == Append(pending_job_list, r)
  <2>1. q \in [Reqs -> Request]
    <3> DEFINE x == [req[r] EXCEPT !.st = "queued"]
               y == [x EXCEPT !.dma = req[r].objs]
    <3>1. x \in Request /\ req[r].objs \in SUBSET Bufs
      BY <1>t, RequestFields
    <3> HIDE DEF x
    <3>2. y \in Request
      BY <3>1, RequestFields
    <3>3. q = [req EXCEPT ![r] = y]
      BY <1>t DEF x
    <3> HIDE DEF y
    <3> QED
      BY <1>t, <3>2, <3>3
  <2>2. pending \in Seq(Reqs)
    BY AppendProperties
  <2>3. /\ \/ /\ streaming = 1
              /\ TryQueue(pending, running_job_list, running_job_count, q,
                          enqueued_frame_seq_no)
           \/ NoTryQueue(pending, q)
        /\ buf_list' = [n \in nodes |->
                          buf_list[n] \cup {b \in req[r].objs : Node(b) = n}]
        /\ vb' = [b \in Bufs |-> IF b \in req[r].objs THEN "active" ELSE vb[b]]
        /\ UNCHANGED <<runVars, filled, irq, hw>>
    BY <1>3 DEF ReqQueue
  <2> HIDE DEF q, pending
  <2>4. /\ pending_job_list' \in Seq(Reqs) /\ running_job_list' \in Seq(Reqs)
        /\ running_job_count' \in Int /\ enqueued_frame_seq_no' \in Nat
        /\ req' \in [Reqs -> Request]
        /\ running_job_list # <<>> => running_job_list' # <<>>
    <3>1. CASE TryQueue(pending, running_job_list, running_job_count, q,
                        enqueued_frame_seq_no)
      <4>a. /\ running_job_list \in Seq(Reqs) /\ running_job_count \in Int
            /\ enqueued_frame_seq_no \in Nat
        BY <1>t
      <4>1. /\ pending_job_list' \in Seq(Reqs) /\ running_job_list' \in Seq(Reqs)
            /\ running_job_count' \in Int /\ enqueued_frame_seq_no' \in Nat
            /\ req' \in [Reqs -> Request]
            /\ Moved(pending, running_job_list, q, enqueued_frame_seq_no)
        <5> HIDE DEF TypeInv
        <5> QED
          BY <4>a, <2>1, <2>2, <3>1, TryQueueEffect
      <4>2. running_job_list # <<>> => Len(running_job_list') > 0
        BY <1>t, <2>2, <4>1, EmptySeq, LenProperties DEF Moved
      <4> QED
        BY <4>1, <4>2, EmptySeq
    <3>2. CASE NoTryQueue(pending, q)
      BY <2>1, <2>2, <3>2 DEF NoTryQueue
    <3> QED
      BY <2>3, <3>1, <3>2
  <2>5. /\ buf_list' \in [nodes -> SUBSET Bufs]
        /\ \A n \in nodes : \A b \in buf_list'[n] : Node(b) = n
    BY <2>3 DEF Request
  <2> QED
    BY <2>3, <2>4, <2>5 DEF runVars
<1>4. ASSUME NEW r \in Reqs, ReqReinit(r) PROVE TypeInv'
  <2>1. req' \in [Reqs -> Request]
    BY <1>4, <1>t, RequestFields DEF ReqReinit
  <2> QED
    BY <1>4, <2>1 DEF ReqReinit, runVars, bufVars, jobVars
<1>5. ASSUME NEW r \in Reqs, ReqClose(r) PROVE TypeInv'
  <2>1. [req EXCEPT ![r].fd = FALSE] \in [Reqs -> Request]
    BY <1>t, RequestFields
  <2>2. req' \in [Reqs -> Request]
    BY <1>5, <2>1, CollectKeeps DEF ReqClose
  <2> QED
    BY <1>5, <2>2 DEF ReqClose, runVars, bufVars, jobVars
<1>6. ASSUME NEW b \in Bufs, DQBuf(b) PROVE TypeInv'
  <2>1. [r \in Reqs |-> [req[r] EXCEPT !.refs = @ \ {b}]] \in [Reqs -> Request]
    BY <1>t, RequestFields
  <2>2. req' \in [Reqs -> Request]
    BY <1>6, <2>1, CollectKeeps DEF DQBuf
  <2> QED
    BY <1>6, <2>2 DEF DQBuf, runVars, jobVars
<1>7. ASSUME NEW n \in nodes, StreamOn(n) PROVE TypeInv'
  <2> DEFINE count == IF on = {} THEN 0 ELSE running_job_count
             seq == IF on = {} THEN 0 ELSE enqueued_frame_seq_no
  <2>1. count \in Int /\ seq \in Nat
    OBVIOUS
  <2>2. /\ on' = on \cup {n}
        /\ UNCHANGED <<stopping, bufVars, irq, hw>>
        /\ irq.pc = "idle"
        /\ \/ /\ streaming' = 1
              /\ TryQueue(pending_job_list, running_job_list, count, req, seq)
           \/ /\ running_job_count' = count /\ enqueued_frame_seq_no' = seq
              /\ UNCHANGED <<streaming, req, pending_job_list, running_job_list>>
    BY <1>7 DEF StreamOn
  <2> HIDE DEF count, seq
  <2>3. /\ pending_job_list' \in Seq(Reqs) /\ running_job_list' \in Seq(Reqs)
        /\ running_job_count' \in Int /\ enqueued_frame_seq_no' \in Nat
        /\ req' \in [Reqs -> Request]
    BY <1>t, <2>1, <2>2, TryQueueEffect
  <2>4. streaming' \in {0, 1}
    BY <2>2
  <2> QED
    BY <2>2, <2>3, <2>4 DEF bufVars
<1>8. ASSUME NEW n \in nodes, StreamOff(n) PROVE TypeInv'
  <2> DEFINE mine == {b \in Bufs : Node(b) = n}
             q == Unbind(req, mine)
  <2>1. q \in [Reqs -> Request]
    BY <1>t, UnbindKeeps
  <2> HIDE DEF q
  <2>2. [r \in Reqs |-> [q[r] EXCEPT !.refs = @ \ mine]] \in [Reqs -> Request]
    BY <2>1, RequestFields
  <2>3. Collect([r \in Reqs |-> [q[r] EXCEPT !.refs = @ \ mine]]) \in [Reqs -> Request]
    BY <2>2, CollectKeeps
  <2>4. /\ req' \in [Reqs -> Request]
        /\ pending_job_list' \in {pending_job_list, <<>>}
        /\ running_job_list' \in {running_job_list, <<>>}
    BY <1>8, <2>3 DEF StreamOff, ReqCleanup, q
  <2>5. pending_job_list' \in Seq(Reqs) /\ running_job_list' \in Seq(Reqs)
    <3>1. <<>> \in Seq(Reqs)
      BY EmptySeq
    <3> QED
      BY <1>t, <2>4, <3>1
  <2> QED
    BY <1>8, <2>4, <2>5 DEF StreamOff, HwOff
<1>9. ASSUME NEW f \in 1 .. MaxSeq, HwFrame(f) PROVE TypeInv'
  <2>1. PICK i \in DOMAIN running_job_list :
          filled' = filled \cup req[running_job_list[i]].dma
    BY <1>9 DEF HwFrame
  <2>2. running_job_list[i] \in Reqs
    BY <1>t, ElementOfSeq, LenProperties
  <2> QED
    BY <1>9, <2>1, <2>2 DEF HwFrame, runVars, jobVars, Request
<1>10. CASE IrqEnter
  BY <1>10 DEF IrqEnter, runVars, bufVars, jobVars
<1>11. CASE IrqMeta
  <2>1. CASE Aao \in nodes /\ streaming = 1
    <3>1. Unbind(req, buf_list[Aao]) \in [Reqs -> Request]
      BY <1>t, UnbindKeeps
    <3>2. req' \in [Reqs -> Request]
      BY <1>11, <2>1, <3>1, CollectKeeps DEF IrqMeta
    <3> QED
      BY <1>11, <2>1, <3>2 DEF IrqMeta, runVars, jobVars
  <2>2. CASE ~(Aao \in nodes /\ streaming = 1)
    BY <1>11, <2>2 DEF IrqMeta, runVars, jobVars
  <2> QED
    BY <2>1, <2>2
<1>12. CASE IrqJobDone
  <2> DEFINE r == Head(running_job_list)
  <2>1. r \in Reqs /\ running_job_list # <<>>
    BY <1>12, <1>t, HeadTailProperties DEF IrqJobDone
  <2>2. Unbind(req, req[r].objs) \in [Reqs -> Request]
    BY <1>t, UnbindKeeps
  <2>3. req' \in [Reqs -> Request]
    BY <1>12, <2>2, CollectKeeps DEF IrqJobDone
  <2>4. /\ vb' \in [Bufs -> BufStates]
        /\ buf_list' = [n \in nodes |-> buf_list[n] \ req[r].objs]
        /\ irq' = [irq EXCEPT !.pc = "del", !.cur = r]
        /\ running_job_count' = running_job_count - 1
        /\ UNCHANGED <<runVars, filled, pending_job_list, running_job_list,
                       enqueued_frame_seq_no, hw>>
    BY <1>12 DEF IrqJobDone, JobState
  <2> HIDE DEF r
  <2>5. /\ buf_list' \in [nodes -> SUBSET Bufs]
        /\ \A n \in nodes : \A b \in buf_list'[n] : Node(b) = n
    BY <2>4
  <2>6. irq' \in [pc : IrqPC, frame : Nat, cur : Reqs \cup {NoReq}]
    BY <2>1, <2>4
  <2> QED
    BY <2>1, <2>3, <2>4, <2>5, <2>6 DEF runVars
<1>13. CASE IrqListDel
  <2>1. Tail(running_job_list) \in Seq(Reqs)
    BY <1>13, <1>t, HeadTailProperties DEF IrqListDel
  <2> QED
    BY <1>13, <2>1 DEF IrqListDel, runVars, bufVars
<1>14. CASE IrqJobsEnd
  BY <1>14 DEF IrqJobsEnd, runVars, bufVars, jobVars
<1>15. CASE IrqTryQueue
  <2>1. /\ irq' = IrqIdle
        /\ UNCHANGED <<runVars, bufVars, hw>>
        /\ \/ TryQueue(pending_job_list, running_job_list, running_job_count, req,
                       enqueued_frame_seq_no)
           \/ NoTryQueue(pending_job_list, req)
    BY <1>15 DEF IrqTryQueue
  <2>2. /\ pending_job_list' \in Seq(Reqs) /\ running_job_list' \in Seq(Reqs)
        /\ running_job_count' \in Int /\ enqueued_frame_seq_no' \in Nat
        /\ req' \in [Reqs -> Request]
    BY <1>t, <2>1, TryQueueEffect DEF NoTryQueue
  <2> QED
    BY <2>1, <2>2 DEF IrqIdle, runVars, bufVars
<1>16. CASE UNCHANGED sysVars
  BY <1>16 DEF sysVars, runVars, bufVars, jobVars
<1> QED
  BY <1>1, <1>2, <1>3, <1>4, <1>5, <1>6, <1>7, <1>8, <1>9, <1>10, <1>11, <1>12, <1>13,
     <1>14, <1>15, <1>16 DEF RequestsStep, DriverStep, UserStep, Irq
-----------------------------------------------------------------------------
(***************************************************************************)
(* Bound and Collected under the operators.                                *)
(***************************************************************************)
\* Freeing what nobody refers to leaves no buffer bound to it.
LEMMA CollectBound ==
  ASSUME NEW q \in [Reqs -> Request], NEW v, Bound(q, v)
  PROVE  Bound(Collect(q), v) /\ Collected(Collect(q))
  BY CollectKeeps DEF Bound, Collected, FreeReq

\* Returned buffers are unbound, whatever becomes of them.
LEMMA UnbindBound ==
  ASSUME NEW q \in [Reqs -> Request], NEW v, NEW w, NEW B, Bound(q, v),
         \A r \in Reqs : \A b \in q[r].objs \ B : w[b] = v[b]
  PROVE  Bound(Unbind(q, B), w)
<1>1. ASSUME NEW r \in Reqs
      PROVE  LET p == Unbind(q, B)[r]
             IN  /\ p.objs \subseteq p.refs
                 /\ p.st \in {"free", "complete"} => p.objs = {}
                 /\ p.st = "queued" => p.objs # {} /\ p.objs \subseteq p.dma
                 /\ \A b \in p.objs :
                      w[b] = IF p.st = "idle" THEN "in_request" ELSE "active"
                 /\ p.st = "free" => ~p.fd /\ p.refs = {}
  <2>1. q[r].st \in {"free", "idle", "queued", "complete"}
    BY DEF Request
  <2> QED
    BY <2>1, UnbindKeeps DEF Bound
<1>2. ASSUME NEW r \in Reqs, NEW s \in Reqs, r # s
      PROVE  Unbind(q, B)[r].objs \cap Unbind(q, B)[s].objs = {}
  BY <1>2, UnbindKeeps DEF Bound
<1> QED
  BY <1>1, <1>2 DEF Bound

\* A frame number concerns neither.
LEMMA SeqBound ==
  ASSUME NEW q \in [Reqs -> Request], NEW p \in [Reqs -> Request], NEW v,
         \A r \in Reqs : p[r] = [q[r] EXCEPT !.seq = p[r].seq],
         Bound(q, v), Collected(q)
  PROVE  Bound(p, v) /\ Collected(p)
<1>1. ASSUME NEW r \in Reqs
      PROVE  /\ p[r].st = q[r].st /\ p[r].fd = q[r].fd /\ p[r].objs = q[r].objs
             /\ p[r].refs = q[r].refs /\ p[r].dma = q[r].dma
  BY DEF Request
<1> HIDE DEF Request
<1> QED
  BY <1>1 DEF Bound, Collected


\* What a call of the user does to the requests.
LEMMA BindStep ==
  ASSUME TypeInv, BindInv, RequestsStep
  PROVE  BindInv'
<1>g. Bufs' = Bufs /\ nodes' = nodes
  BY GivenStays
<1>t. /\ req \in [Reqs -> Request] /\ vb \in [Bufs -> BufStates]
      /\ pending_job_list \in Seq(Reqs) /\ running_job_list \in Seq(Reqs)
      /\ running_job_count \in Int /\ enqueued_frame_seq_no \in Nat
  BY DEF TypeInv
<1>f. \A r \in Reqs : /\ req[r].objs \subseteq Bufs /\ req[r].refs \subseteq Bufs
                      /\ req[r].st \in {"free", "idle", "queued", "complete"}
                      /\ req[r].fd \in BOOLEAN
  BY <1>t DEF Request
<1>b. Bound(req, vb) /\ Collected(req)
  BY DEF BindInv
<1>i. BindInv' <=> Bound(req', vb') /\ Collected(req')
  BY DEF BindInv, Bound, Collected
<1>q. ASSUME NEW pending \in Seq(Reqs), NEW count \in Int, NEW seq \in Nat,
             NEW q \in [Reqs -> Request],
             \/ TryQueue(pending, running_job_list, count, q, seq)
             \/ NoTryQueue(pending, q),
             Bound(q, vb'), Collected(q)
      PROVE  BindInv'
  <2>1. CASE TryQueue(pending, running_job_list, count, q, seq)
    <3>1. req' \in [Reqs -> Request] /\ Renumbered(q)
      BY <1>t, <2>1, TryQueueEffect
    <3>2. \A r \in Reqs : req'[r] = [q[r] EXCEPT !.seq = req'[r].seq]
      BY <3>1 DEF Renumbered
    <3> QED
      BY <1>q, <1>i, <3>1, <3>2, SeqBound
  <2>2. CASE NoTryQueue(pending, q)
    BY <1>q, <1>i, <2>2 DEF NoTryQueue
  <2> QED
    BY <1>q, <2>1, <2>2
<1>1. ASSUME NEW r \in Reqs, ReqAlloc(r) PROVE BindInv'
  <2>1. /\ vb' = vb /\ req[r].st = "free"
        /\ req' = [req EXCEPT ![r] = [FreeReq EXCEPT !.st = "idle", !.fd = TRUE]]
    BY <1>1 DEF ReqAlloc, bufVars
  <2> QED
    BY <1>t, <1>b, <1>i, <2>1 DEF Bound, Collected, FreeReq
<1>2. ASSUME NEW r \in Reqs, NEW b \in Bufs, QBuf(b, r) PROVE BindInv'
  <2>1. /\ req[r].st = "idle" /\ vb[b] = "dequeued"
        /\ vb' = [vb EXCEPT ![b] = "in_request"]
        /\ req' = [req EXCEPT ![r].objs = @ \cup {b}, ![r].refs = @ \cup {b}]
    BY <1>2 DEF QBuf
  <2>2. /\ \A s \in Reqs \ {r} : req'[s] = req[s]
        /\ req'[r].objs = req[r].objs \cup {b} /\ req'[r].refs = req[r].refs \cup {b}
        /\ req'[r].st = "idle"
    BY <1>t, <2>1 DEF Request
  <2>3. \A s \in Reqs : b \notin req[s].objs
    BY <1>b, <2>1 DEF Bound
  <2>4. \A c \in Bufs : vb'[c] = IF c = b THEN "in_request" ELSE vb[c]
    BY <1>t, <2>1
  <2>5. Bound(req', vb')
    <3>1. ASSUME NEW s \in Reqs
          PROVE  /\ req'[s].objs \subseteq req'[s].refs
                 /\ req'[s].st \in {"free", "complete"} => req'[s].objs = {}
                 /\ req'[s].st = "queued" =>
                      req'[s].objs # {} /\ req'[s].objs \subseteq req'[s].dma
                 /\ \A c \in req'[s].objs :
                      vb'[c] = IF req'[s].st = "idle" THEN "in_request" ELSE "active"
                 /\ req'[s].st = "free" => ~req'[s].fd /\ req'[s].refs = {}
      <4>1. CASE s = r
        <5>1. \A c \in req[r].objs : vb'[c] = "in_request"
          BY <1>b, <1>f, <2>1, <2>3, <2>4 DEF Bound
        <5> QED
          BY <1>b, <2>2, <2>4, <4>1, <5>1 DEF Bound
      <4>2. CASE s # r
        <5>1. \A c \in req[s].objs : vb'[c] = vb[c]
          BY <1>f, <2>3, <2>4
        <5> QED
          BY <1>b, <2>2, <4>2, <5>1 DEF Bound
      <4> QED
        BY <4>1, <4>2
    <3>2. \A s, u \in Reqs : s # u => req'[s].objs \cap req'[u].objs = {}
      BY <1>b, <2>2, <2>3 DEF Bound
    <3> QED
      BY <3>1, <3>2 DEF Bound
  <2>6. Collected(req')
    BY <1>b, <2>2 DEF Collected
  <2> QED
    BY <1>i, <2>5, <2>6
<1>3. ASSUME NEW r \in Reqs, ReqQueue(r) PROVE BindInv'
  <2> DEFINE q == [req EXCEPT ![r].st = "queued", ![r].dma = req[r].objs]
             pending == Append(pending_job_list, r)
  <2>1. /\ req[r].st = "idle" /\ req[r].fd /\ req[r].objs # {}
        /\ \/ TryQueue(pending, running_job_list, running_job_count, q,
                       enqueued_frame_seq_no)
           \/ NoTryQueue(pending, q)
        /\ vb' = [b \in Bufs |-> IF b \in req[r].objs THEN "active" ELSE vb[b]]
    BY <1>3 DEF ReqQueue
  <2>2. /\ q \in [Reqs -> Request]
        /\ \A s \in Reqs \ {r} : q[s] = req[s]
        /\ q[r].objs = req[r].objs /\ q[r].refs = req[r].refs
        /\ q[r].st = "queued" /\ q[r].dma = req[r].objs /\ q[r].fd = req[r].fd
    BY <1>t DEF Request
  <2>3. pending \in Seq(Reqs)
    BY <1>t, AppendProperties
  <2> HIDE DEF q, pending
  <2>4. \A s \in Reqs \ {r} : \A b \in req[s].objs : b \notin req[r].objs
    BY <1>b DEF Bound
  <2>5. Bound(q, vb')
    <3>1. ASSUME NEW s \in Reqs
          PROVE  /\ q[s].objs \subseteq q[s].refs
                 /\ q[s].st \in {"free", "complete"} => q[s].objs = {}
                 /\ q[s].st = "queued" => q[s].objs # {} /\ q[s].objs \subseteq q[s].dma
                 /\ \A c \in q[s].objs :
                      vb'[c] = IF q[s].st = "idle" THEN "in_request" ELSE "active"
                 /\ q[s].st = "free" => ~q[s].fd /\ q[s].refs = {}
      BY <1>b, <1>f, <2>1, <2>2, <2>4 DEF Bound
    <3>2. \A s, u \in Reqs : s # u => q[s].objs \cap q[u].objs = {}
      BY <1>b, <2>2 DEF Bound
    <3> QED
      BY <3>1, <3>2 DEF Bound
  <2>6. Collected(q)
    BY <1>b, <2>2 DEF Collected
  <2> QED
    BY <1>t, <1>q, <2>1, <2>2, <2>3, <2>5, <2>6
<1>4. ASSUME NEW r \in Reqs, ReqReinit(r) PROVE BindInv'
  <2>1. /\ vb' = vb /\ req[r].st = "complete" /\ req[r].fd
        /\ req' = [req EXCEPT ![r].st = "idle"]
    BY <1>4 DEF ReqReinit, bufVars
  <2>2. /\ \A s \in Reqs \ {r} : req'[s] = req[s]
        /\ req'[r].objs = req[r].objs /\ req'[r].refs = req[r].refs
        /\ req'[r].fd = req[r].fd /\ req'[r].st = "idle"
    BY <1>t, <2>1 DEF Request
  <2> QED
    BY <1>b, <1>i, <2>1, <2>2 DEF Bound, Collected
<1>5. ASSUME NEW r \in Reqs, ReqClose(r) PROVE BindInv'
  <2> DEFINE q == [req EXCEPT ![r].fd = FALSE]
  <2>1. vb' = vb /\ req' = Collect(q) /\ req[r].fd
    BY <1>5 DEF ReqClose, bufVars
  <2>2. /\ q \in [Reqs -> Request]
        /\ \A s \in Reqs : /\ q[s].objs = req[s].objs /\ q[s].refs = req[s].refs
                           /\ q[s].st = req[s].st /\ q[s].dma = req[s].dma
                           /\ q[s].fd => req[s].fd
    BY <1>t DEF Request
  <2> HIDE DEF q
  <2>3. Bound(q, vb)
    BY <1>b, <2>2 DEF Bound
  <2> QED
    BY <1>i, <2>1, <2>2, <2>3, CollectBound
<1>6. ASSUME NEW b \in Bufs, DQBuf(b) PROVE BindInv'
  <2> DEFINE q == [r \in Reqs |-> [req[r] EXCEPT !.refs = @ \ {b}]]
  <2>1. /\ vb' = [vb EXCEPT ![b] = "dequeued"] /\ req' = Collect(q)
        /\ vb[b] \in {"done", "error"}
    BY <1>6 DEF DQBuf
  <2>2. /\ q \in [Reqs -> Request]
        /\ \A s \in Reqs : /\ q[s].objs = req[s].objs /\ q[s].refs = req[s].refs \ {b}
                           /\ q[s].st = req[s].st /\ q[s].dma = req[s].dma
                           /\ q[s].fd = req[s].fd
    BY <1>t DEF Request
  <2> HIDE DEF q
  <2>3. \A s \in Reqs : b \notin req[s].objs
    BY <1>b, <2>1 DEF Bound
  <2>4. \A c \in Bufs : c # b => vb'[c] = vb[c]
    BY <1>t, <2>1
  <2>5. Bound(q, vb')
    BY <1>b, <1>f, <2>2, <2>3, <2>4 DEF Bound
  <2> QED
    BY <1>i, <2>1, <2>2, <2>5, CollectBound
<1>7. ASSUME NEW n \in nodes, StreamOn(n) PROVE BindInv'
  <2> DEFINE count == IF on = {} THEN 0 ELSE running_job_count
             seq == IF on = {} THEN 0 ELSE enqueued_frame_seq_no
  <2>1. count \in Int /\ seq \in Nat
    BY <1>t
  <2>2. /\ vb' = vb
        /\ \/ TryQueue(pending_job_list, running_job_list, count, req, seq)
           \/ UNCHANGED req
    BY <1>7 DEF StreamOn, bufVars
  <2> HIDE DEF count, seq
  <2>3. CASE UNCHANGED req
    BY <1>b, <1>i, <2>2, <2>3
  <2> QED
    BY <1>t, <1>b, <1>q, <2>1, <2>2, <2>3
<1>8. ASSUME NEW n \in nodes, StreamOff(n) PROVE BindInv'
  <2> DEFINE mine == {b \in Bufs : Node(b) = n}
             q == Unbind(req, mine)
             p == [r \in Reqs |-> [q[r] EXCEPT !.refs = @ \ mine]]
  <2>1. /\ req' = Collect(p)
        /\ vb' = [b \in Bufs |-> IF b \in mine THEN "dequeued" ELSE vb[b]]
    BY <1>8 DEF StreamOff
  <2>2. /\ q \in [Reqs -> Request]
        /\ \A r \in Reqs : q[r].objs = req[r].objs \ mine
    BY <1>t, UnbindKeeps
  <2>3. Bound(q, vb')
    <3>1. \A r \in Reqs : \A b \in req[r].objs \ mine : vb'[b] = vb[b]
      BY <1>f, <2>1
    <3> HIDE DEF mine
    <3> QED
      BY <1>t, <1>b, <3>1, UnbindBound
  <2> HIDE DEF q, mine
  <2>4. /\ p \in [Reqs -> Request]
        /\ \A s \in Reqs : /\ p[s].objs = q[s].objs /\ p[s].refs = q[s].refs \ mine
                           /\ p[s].st = q[s].st /\ p[s].dma = q[s].dma
                           /\ p[s].fd = q[s].fd
    BY <2>2 DEF Request
  <2> HIDE DEF p
  <2>5. Bound(p, vb')
    BY <2>2, <2>3, <2>4 DEF Bound
  <2> QED
    BY <1>i, <2>1, <2>4, <2>5, CollectBound
<1>9. ASSUME UNCHANGED <<vb, req>> PROVE BindInv'
  BY <1>9, <1>b, <1>i
<1>10. ASSUME NEW B, req' = Collect(Unbind(req, B)),
              \A b \in Bufs \ B : vb'[b] = vb[b]
       PROVE  BindInv'
  <2>1. Unbind(req, B) \in [Reqs -> Request]
    BY <1>t, UnbindKeeps
  <2>2. Bound(Unbind(req, B), vb')
    BY <1>t, <1>f, <1>b, <1>10, UnbindBound
  <2> QED
    BY <1>i, <1>10, <2>1, <2>2, CollectBound
<1>11. CASE IrqMeta
  <2>1. CASE Aao \in nodes /\ streaming = 1
    BY <1>11, <1>10, <2>1 DEF IrqMeta
  <2>2. CASE ~(Aao \in nodes /\ streaming = 1)
    BY <1>11, <1>9, <2>2 DEF IrqMeta
  <2> QED
    BY <2>1, <2>2
<1>12. CASE IrqJobDone
  <2> DEFINE mine == req[Head(running_job_list)].objs
  <2>1. /\ req' = Collect(Unbind(req, mine))
        /\ \A b \in Bufs \ mine : vb'[b] = vb[b]
    BY <1>12 DEF IrqJobDone
  <2> HIDE DEF mine
  <2> QED
    BY <2>1, <1>10
<1>13. CASE IrqTryQueue
  <2>1. /\ vb' = vb
        /\ \/ TryQueue(pending_job_list, running_job_list, running_job_count, req,
                       enqueued_frame_seq_no)
           \/ NoTryQueue(pending_job_list, req)
    BY <1>13 DEF IrqTryQueue, bufVars
  <2> QED
    BY <1>t, <1>b, <1>q, <2>1
<1>14. CASE IrqEnter \/ IrqListDel \/ IrqJobsEnd \/ \E f \in 1 .. MaxSeq : HwFrame(f)
  BY <1>14, <1>9 DEF IrqEnter, IrqListDel, IrqJobsEnd, HwFrame, bufVars
<1>15. CASE UNCHANGED sysVars
  BY <1>15, <1>9 DEF sysVars, bufVars
<1> QED
  BY <1>1, <1>2, <1>3, <1>4, <1>5, <1>6, <1>7, <1>8, <1>11, <1>12, <1>13,
     <1>14, <1>15 DEF RequestsStep, DriverStep, UserStep, Irq

-----------------------------------------------------------------------------
\* Where the streams, the ISP and the handler are in relation to each other.
LEMMA PhaseStep ==
  ASSUME TypeInv, PhaseInv, RequestsStep
  PROVE  PhaseInv'
<1>g. Bufs' = Bufs /\ nodes' = nodes
  BY GivenStays
<1>t. streaming \in {0, 1} /\ on \subseteq nodes
  BY DEF TypeInv
<1> USE <1>g, <1>t DEF PhaseInv
<1>1. CASE \E r \in Reqs : \/ ReqAlloc(r) \/ ReqReinit(r) \/ ReqClose(r)
                           \/ \E b \in Bufs : QBuf(b, r)
  <2>1. UNCHANGED <<on, stopping, streaming, running_job_list, irq, hw>>
    BY <1>1 DEF ReqAlloc, ReqReinit, ReqClose, QBuf, runVars, jobVars
  <2> QED
    BY <2>1
<1>2. ASSUME NEW r \in Reqs, ReqQueue(r) PROVE PhaseInv'
  BY <1>2 DEF ReqQueue, NoTryQueue, runVars
<1>3. CASE \E b \in Bufs : DQBuf(b)
  BY <1>3 DEF DQBuf, runVars, jobVars
<1>4. ASSUME NEW n \in nodes, StreamOn(n) PROVE PhaseInv'
  BY <1>4 DEF StreamOn
<1>5. ASSUME NEW n \in nodes, StreamOff(n) PROVE PhaseInv'
  <2>1. /\ streaming' = 0 /\ hw' = HwOff /\ irq.pc = "idle" /\ irq' = irq
        /\ stopping' => on' # {}
        /\ ~stopping' => running_job_list' = <<>>
    BY <1>5 DEF StreamOff, ReqCleanup
  <2> QED
    BY <2>1 DEF HwOff
<1>6. CASE \E f \in 1 .. MaxSeq : HwFrame(f)
  BY <1>6 DEF HwFrame, runVars, jobVars
<1>7. CASE IrqEnter
  BY <1>7 DEF IrqEnter, runVars, jobVars, HwOff, TypeInv
<1>8. CASE IrqMeta \/ IrqJobsEnd
  BY <1>8 DEF IrqMeta, IrqJobsEnd, runVars, jobVars, TypeInv
<1>9. CASE IrqJobDone
  <2>1. /\ irq.pc = "jobs" /\ irq'.frame = irq.frame
        /\ UNCHANGED <<on, stopping, streaming, hw>>
    BY <1>9 DEF IrqJobDone, runVars, TypeInv
  <2> QED
    BY <2>1
<1>10. CASE IrqListDel
  <2>1. /\ irq.pc = "del" /\ irq'.frame = irq.frame
        /\ UNCHANGED <<on, stopping, streaming, hw>>
    BY <1>10 DEF IrqListDel, runVars, TypeInv
  <2> QED
    BY <2>1
<1>11. CASE IrqTryQueue
  <2>1. /\ irq.pc = "try" /\ irq'.pc = "idle"
        /\ UNCHANGED <<on, stopping, streaming, hw>>
    BY <1>11 DEF IrqTryQueue, runVars, IrqIdle
  <2> QED
    BY <2>1
<1>12. CASE UNCHANGED sysVars
  BY <1>12 DEF sysVars, runVars, jobVars
<1> QED
  BY <1>1, <1>2, <1>3, <1>4, <1>5, <1>6, <1>7, <1>8, <1>9, <1>10, <1>11, <1>12
     DEF RequestsStep, DriverStep, UserStep, Irq
-----------------------------------------------------------------------------
(***************************************************************************)
(* The lists.                                                              *)
(***************************************************************************)
\* try_queue moves requests from one list to the other and loses none.
LEMMA TryQueueMoves ==
  ASSUME NEW pending \in Seq(Reqs), NEW running \in Seq(Reqs), NEW count \in Int,
         NEW q \in [Reqs -> Request], NEW seq \in Nat,
         TryQueue(pending, running, count, q, seq)
  PROVE  /\ Placed(pending, running) => Placed(pending_job_list', running_job_list')
         /\ \A i \in 1 .. Len(pending_job_list') :
              \E j \in 1 .. Len(pending) : pending_job_list'[i] = pending[j]
         /\ \A i \in 1 .. Len(running_job_list') :
              \/ i \in 1 .. Len(running) /\ running_job_list'[i] = running[i]
              \/ \E j \in 1 .. Len(pending) : running_job_list'[i] = pending[j]
<1>1. PICK n \in 0 .. Len(pending) :
        /\ Len(pending_job_list') = Len(pending) - n
        /\ \A i \in 1 .. Len(pending) - n : pending_job_list'[i] = pending[n + i]
        /\ Len(running_job_list') = Len(running) + n
        /\ \A i \in 1 .. Len(running) : running_job_list'[i] = running[i]
        /\ \A i \in 1 .. n : running_job_list'[Len(running) + i] = pending[i]
  <2>1. Moved(pending, running, q, seq)
    BY TryQueueEffect
  <2> QED
    BY <2>1 DEF Moved
<1>n. Len(pending) \in Nat /\ Len(running) \in Nat
  BY LenProperties
<1>2. ASSUME NEW i \in 1 .. Len(pending_job_list')
      PROVE  /\ n + i \in 1 .. Len(pending) /\ n + i > n
             /\ pending_job_list'[i] = pending[n + i]
  BY <1>1, <1>n
<1>3. ASSUME NEW i \in 1 .. Len(running_job_list')
      PROVE  \/ i \in 1 .. Len(running) /\ running_job_list'[i] = running[i]
             \/ /\ i - Len(running) \in 1 .. n /\ i - Len(running) \in 1 .. Len(pending)
                /\ i \notin 1 .. Len(running)
                /\ running_job_list'[i] = pending[i - Len(running)]
  <2>1. CASE i <= Len(running)
    BY <1>1, <1>n, <2>1
  <2>2. CASE i > Len(running)
    <3>1. /\ i - Len(running) \in 1 .. n /\ Len(running) + (i - Len(running)) = i
          /\ i - Len(running) \in 1 .. Len(pending)
      BY <1>1, <1>n, <2>2
    <3> QED
      BY <1>1, <2>2, <3>1
  <2> QED
    BY <1>1, <1>n, <2>1, <2>2
<1>4. ASSUME Placed(pending, running)
      PROVE  Placed(pending_job_list', running_job_list')
  <2>1. ASSUME NEW i \in 1 .. Len(pending_job_list'), NEW j \in 1 .. Len(pending_job_list'),
               pending_job_list'[i] = pending_job_list'[j]
        PROVE  i = j
    <3>1. n + i = n + j
      BY <1>2, <1>4, <2>1 DEF Placed
    <3> QED
      BY <1>1, <1>n, <3>1
  <2>2. ASSUME NEW i \in 1 .. Len(running_job_list'), NEW j \in 1 .. Len(running_job_list'),
               running_job_list'[i] = running_job_list'[j]
        PROVE  i = j
    <3>1. CASE i \in 1 .. Len(running) /\ j \in 1 .. Len(running)
      BY <1>3, <1>4, <2>2, <3>1 DEF Placed
    <3>2. CASE i \notin 1 .. Len(running) /\ j \notin 1 .. Len(running)
      <4>1. i - Len(running) = j - Len(running)
        BY <1>3, <1>4, <2>2, <3>2 DEF Placed
      <4> QED
        BY <1>1, <1>n, <4>1
    <3>c. \A k \in 1 .. Len(pending), l \in 1 .. Len(running) : pending[k] # running[l]
      BY <1>4 DEF Placed
    <3>3. CASE i \in 1 .. Len(running) /\ j \notin 1 .. Len(running)
      <4>1. /\ running_job_list'[i] = running[i]
            /\ j - Len(running) \in 1 .. Len(pending)
            /\ running_job_list'[j] = pending[j - Len(running)]
        BY <1>3, <3>3
      <4> QED
        BY <2>2, <3>c, <3>3, <4>1
    <3>4. CASE i \notin 1 .. Len(running) /\ j \in 1 .. Len(running)
      <4>1. /\ running_job_list'[j] = running[j]
            /\ i - Len(running) \in 1 .. Len(pending)
            /\ running_job_list'[i] = pending[i - Len(running)]
        BY <1>3, <3>4
      <4> QED
        BY <2>2, <3>c, <3>4, <4>1
    <3> QED
      BY <3>1, <3>2, <3>3, <3>4
  <2>3. ASSUME NEW i \in 1 .. Len(pending_job_list'), NEW j \in 1 .. Len(running_job_list')
        PROVE  pending_job_list'[i] # running_job_list'[j]
    <3>1. CASE j \in 1 .. Len(running)
      <4>1. /\ n + i \in 1 .. Len(pending) /\ pending_job_list'[i] = pending[n + i]
            /\ running_job_list'[j] = running[j]
        BY <1>1, <1>2, <3>1
      <4> QED
        BY <1>4, <3>1, <4>1 DEF Placed
    <3>2. CASE j \notin 1 .. Len(running)
      <4>1. n + i # j - Len(running)
        BY <1>2, <1>3, <3>2, <1>1, <1>n
      <4>2. /\ n + i \in 1 .. Len(pending) /\ pending_job_list'[i] = pending[n + i]
            /\ j - Len(running) \in 1 .. Len(pending)
            /\ running_job_list'[j] = pending[j - Len(running)]
        BY <1>2, <1>3, <3>2
      <4>3. \A k, l \in 1 .. Len(pending) : pending[k] = pending[l] => k = l
        BY <1>4 DEF Placed
      <4> QED
        BY <4>1, <4>2, <4>3
    <3> QED
      BY <3>1, <3>2
  <2> QED
    BY <2>1, <2>2, <2>3 DEF Placed
<1> QED
  BY <1>2, <1>3, <1>4

\* A request is held by what it was held by.
LEMMA HeldKept ==
  ASSUME NEW x, NEW r \in Reqs, Held(x), RequestsStep,
         req'[r].st = "queued", req'[r].objs = x.objs, req'[r].dma = x.dma,
         stopping' = stopping, stopping => on' = on
  PROVE  Held(req[r])'
  BY GivenStays DEF Held

\* Only STREAMOFF begins or ends a time that the lists cannot be relied on.
LEMMA RegularStays ==
  ASSUME RequestsStep, stopping' = stopping
  PROVE  Regular' = Regular
  BY GivenStays DEF Regular

\* Elements of the lists are requests.
LEMMA ListedReqs ==
  ASSUME NEW s \in Seq(Reqs)
  PROVE  Len(s) \in Nat /\ \A i \in 1 .. Len(s) : s[i] \in Reqs
  BY ElementOfSeq, LenProperties

LEMMA ListStep ==
  ASSUME TypeInv, BindInv, PhaseInv, ListInv, RequestsStep
  PROVE  ListInv'
<1>g. /\ Bufs' = Bufs /\ nodes' = nodes
      /\ \A F : Without(F)' = Without(F)
  BY GivenStays
<1>t. /\ req \in [Reqs -> Request]
      /\ pending_job_list \in Seq(Reqs) /\ running_job_list \in Seq(Reqs)
      /\ running_job_count \in Int /\ enqueued_frame_seq_no \in Nat
      /\ irq \in [pc : IrqPC, frame : Nat, cur : Reqs \cup {NoReq}]
  BY DEF TypeInv
<1>r. req \in [Reqs -> Request]
  BY <1>t
<1>o. on \subseteq nodes
  BY DEF TypeInv
<1>e. /\ Len(pending_job_list) \in Nat
      /\ \A i \in 1 .. Len(pending_job_list) : pending_job_list[i] \in Reqs
      /\ Len(running_job_list) \in Nat
      /\ \A i \in 1 .. Len(running_job_list) : running_job_list[i] \in Reqs
  BY <1>t, ListedReqs
\* Requests are served in turn and their lists stay as they are.
<1>k. ASSUME UNCHANGED <<stopping, pending_job_list, running_job_list>>,
             stopping => on' = on,
             Regular => irq.pc # "del" /\ irq'.pc # "del",
             \A r \in Reqs : req[r].st = "queued" =>
               /\ req'[r].st = "queued" /\ req'[r].objs = req[r].objs
               /\ req'[r].dma = req[r].dma
      PROVE  ListInv'
  <2> SUFFICES ASSUME Regular' PROVE ListInv'
    BY DEF ListInv
  <2>1. Regular
    BY <1>k, RegularStays
  <2>2. FirstJob = 1 /\ FirstJob' = 1
    BY <1>k, <2>1 DEF FirstJob
  <2>3. ASSUME NEW r \in Reqs, Held(req[r]) PROVE Held(req[r])'
    BY <1>k, <2>3, HeldKept DEF Held
  <2>4. \A i \in 1 .. Len(pending_job_list') : Held(req[pending_job_list[i]])'
    BY <1>e, <1>k, <2>1, <2>3 DEF ListInv
  <2>5. \A i \in 1 .. Len(running_job_list') : Held(req[running_job_list[i]])'
    BY <1>e, <1>k, <2>1, <2>2, <2>3 DEF ListInv
  <2> QED
    BY <1>k, <2>1, <2>2, <2>4, <2>5 DEF ListInv
\* Requests move from one list to the other.
<1>q. ASSUME NEW pending \in Seq(Reqs), NEW count \in Int, NEW seq \in Nat,
             NEW q \in [Reqs -> Request],
             \/ TryQueue(pending, running_job_list, count, q, seq)
             \/ NoTryQueue(pending, q),
             UNCHANGED stopping, stopping => on' = on, irq'.pc = "idle",
             Regular => /\ irq.pc # "del"
                        /\ \A i \in 1 .. Len(pending) : Held(q[pending[i]])
                        /\ \A i \in 1 .. Len(running_job_list) : Held(q[running_job_list[i]])
                        /\ Placed(pending, running_job_list)
      PROVE  ListInv'
  <2> SUFFICES ASSUME Regular' PROVE ListInv'
    BY DEF ListInv
  <2>1. Regular
    BY <1>q, RegularStays
  <2>2. FirstJob' = 1
    BY <1>q DEF FirstJob
  <2>p. Len(pending) \in Nat /\ \A i \in 1 .. Len(pending) : pending[i] \in Reqs
    BY <1>q, ListedReqs
  <2>3. CASE TryQueue(pending, running_job_list, count, q, seq)
    <3>1. ASSUME NEW r \in Reqs, Held(q[r]) PROVE Held(req[r])'
      <4>1. req'[r] = [q[r] EXCEPT !.seq = req'[r].seq]
        <5>1. Renumbered(q)
          BY <1>t, <2>3, TryQueueEffect
        <5> QED
          BY <5>1 DEF Renumbered
      <4>2. /\ req'[r].st = q[r].st /\ req'[r].objs = q[r].objs
            /\ req'[r].dma = q[r].dma
        BY <1>q, <4>1 DEF Request
      <4> QED
        BY <1>q, <3>1, <4>2, HeldKept DEF Held
    <3>2. /\ Placed(pending_job_list', running_job_list')
          /\ \A i \in 1 .. Len(pending_job_list') :
               \E j \in 1 .. Len(pending) : pending_job_list'[i] = pending[j]
          /\ \A i \in 1 .. Len(running_job_list') :
               \/ i \in 1 .. Len(running_job_list)
                  /\ running_job_list'[i] = running_job_list[i]
               \/ \E j \in 1 .. Len(pending) : running_job_list'[i] = pending[j]
      BY <1>t, <1>q, <2>1, <2>3, TryQueueMoves
    <3>3. \A i \in 1 .. Len(pending_job_list') : Held(req[pending_job_list[i]])'
      BY <1>q, <2>1, <2>p, <3>1, <3>2
    <3>4. \A i \in 1 .. Len(running_job_list') : Held(req[running_job_list[i]])'
      BY <1>e, <1>q, <2>1, <2>p, <3>1, <3>2
    <3> QED
      BY <1>q, <2>2, <3>2, <3>3, <3>4 DEF ListInv
  <2>4. CASE NoTryQueue(pending, q)
    <3>1. ASSUME NEW r \in Reqs, Held(q[r]) PROVE Held(req[r])'
      BY <1>q, <2>4, <3>1, HeldKept DEF Held, NoTryQueue
    <3>2. /\ pending_job_list' = pending /\ running_job_list' = running_job_list
      BY <2>4 DEF NoTryQueue
    <3>3. \A i \in 1 .. Len(pending_job_list') : Held(req[pending_job_list[i]])'
      BY <1>q, <2>1, <2>p, <3>1, <3>2
    <3>4. \A i \in 1 .. Len(running_job_list') : Held(req[running_job_list[i]])'
      BY <1>e, <1>q, <2>1, <3>1, <3>2
    <3> QED
      BY <1>q, <2>1, <2>2, <3>2, <3>3, <3>4 DEF ListInv
  <2> QED
    BY <1>q, <2>3, <2>4
<1>u. Regular /\ UserRuns => irq.pc = "idle" /\ ~stopping
  BY DEF Regular, UserRuns, Without
<1>1. ASSUME NEW r \in Reqs, ReqAlloc(r) PROVE ListInv'
  <2>1. /\ UserRuns /\ req[r].st = "free" /\ UNCHANGED <<runVars, jobVars, irq>>
        /\ req' = [req EXCEPT ![r] = [FreeReq EXCEPT !.st = "idle", !.fd = TRUE]]
    BY <1>1 DEF ReqAlloc
  <2>2. \A s \in Reqs : req[s].st = "queued" => req'[s] = req[s]
    BY <1>t, <2>1
  <2> QED
    BY <1>k, <1>u, <2>1, <2>2 DEF runVars, jobVars
<1>2. ASSUME NEW r \in Reqs, NEW b \in Bufs, QBuf(b, r) PROVE ListInv'
  <2>1. /\ UserRuns /\ req[r].st = "idle" /\ UNCHANGED <<runVars, jobVars, irq>>
        /\ req' = [req EXCEPT ![r].objs = @ \cup {b}, ![r].refs = @ \cup {b}]
    BY <1>2 DEF QBuf
  <2>2. \A s \in Reqs : req[s].st = "queued" => req'[s] = req[s]
    BY <1>t, <2>1
  <2> QED
    BY <1>k, <1>u, <2>1, <2>2 DEF runVars, jobVars
<1>3. ASSUME NEW r \in Reqs, ReqQueue(r) PROVE ListInv'
  <2> DEFINE q == [req EXCEPT ![r].st = "queued", ![r].dma = req[r].objs]
             pending == Append(pending_job_list, r)
  <2>1. /\ UserRuns /\ req[r].st = "idle"
        /\ {Node(b) : b \in req[r].objs} = nodes \/ "partial" \in faults
        /\ \/ TryQueue(pending, running_job_list, running_job_count, q,
                       enqueued_frame_seq_no)
           \/ NoTryQueue(pending, q)
        /\ UNCHANGED <<runVars, irq>>
    BY <1>3 DEF ReqQueue
  <2>2. /\ q \in [Reqs -> Request]
        /\ \A s \in Reqs \ {r} : q[s] = req[s]
        /\ q[r].objs = req[r].objs /\ q[r].st = "queued" /\ q[r].dma = req[r].objs
    BY <1>r DEF Request
  <2>3. /\ pending \in Seq(Reqs) /\ Len(pending) = Len(pending_job_list) + 1
        /\ \A i \in 1 .. Len(pending_job_list) : pending[i] = pending_job_list[i]
        /\ pending[Len(pending)] = r
    BY <1>t, AppendProperties
  <2> HIDE DEF q, pending
  <2>4. ASSUME Regular
        PROVE  /\ irq.pc = "idle"
               /\ \A i \in 1 .. Len(pending) : Held(q[pending[i]])
               /\ \A i \in 1 .. Len(running_job_list) : Held(q[running_job_list[i]])
               /\ Placed(pending, running_job_list)
    <3>1. irq.pc = "idle" /\ ~stopping /\ FirstJob = 1
      BY <1>u, <2>1, <2>4 DEF FirstJob
    <3>2. /\ \A i \in 1 .. Len(pending_job_list) : Held(req[pending_job_list[i]])
          /\ \A i \in 1 .. Len(running_job_list) : Held(req[running_job_list[i]])
          /\ Placed(pending_job_list, running_job_list)
      BY <2>4, <3>1 DEF ListInv
    <3>3. \A s \in Reqs : Held(req[s]) => s # r
      BY <2>1 DEF Held
    <3>4. Held(q[r])
      <4>1. ASSUME Without({"partial"}), NEW n \in nodes \ {Aao}
            PROVE  \E b \in q[r].objs : Node(b) = n
        BY <2>1, <2>2, <4>1 DEF Without
      <4> QED
        BY <2>2, <3>1, <4>1 DEF Held
    <3>5. \A i \in 1 .. Len(running_job_list) :
            Held(q[running_job_list[i]]) /\ running_job_list[i] # r
      BY <1>e, <2>2, <3>2, <3>3
    <3>6. \A i \in 1 .. Len(pending_job_list) :
            Held(q[pending_job_list[i]]) /\ pending_job_list[i] # r
      BY <1>e, <2>2, <3>2, <3>3
    <3>7. \A i \in 1 .. Len(pending) :
            i \in 1 .. Len(pending_job_list) \/ i = Len(pending_job_list) + 1
      BY <1>e, <2>3
    <3>8. \A i \in 1 .. Len(pending) : Held(q[pending[i]])
      BY <2>3, <3>4, <3>6, <3>7
    <3>9. \A i, j \in 1 .. Len(pending) : pending[i] = pending[j] => i = j
      BY <2>3, <3>2, <3>6, <3>7 DEF Placed
    <3>10. \A i \in 1 .. Len(pending), j \in 1 .. Len(running_job_list) :
             pending[i] # running_job_list[j]
      BY <2>3, <3>2, <3>5, <3>7 DEF Placed
    <3> QED
      BY <3>1, <3>2, <3>5, <3>8, <3>9, <3>10 DEF Placed
  <2>5. CASE Regular
    BY <1>t, <1>q, <2>1, <2>2, <2>3, <2>4, <2>5 DEF runVars
  <2>6. CASE ~Regular
    BY <2>1, <2>6, RegularStays DEF ListInv, runVars
  <2> QED
    BY <2>5, <2>6
<1>4. ASSUME NEW r \in Reqs, ReqReinit(r) PROVE ListInv'
  <2>1. /\ UserRuns /\ req[r].st = "complete" /\ UNCHANGED <<runVars, jobVars, irq>>
        /\ req' = [req EXCEPT ![r].st = "idle"]
    BY <1>4 DEF ReqReinit
  <2>2. \A s \in Reqs : req[s].st = "queued" => req'[s] = req[s]
    BY <1>t, <2>1
  <2> QED
    BY <1>k, <1>u, <2>1, <2>2 DEF runVars, jobVars
<1>5. ASSUME NEW r \in Reqs, ReqClose(r) PROVE ListInv'
  <2> DEFINE q == [req EXCEPT ![r].fd = FALSE]
  <2>1. UserRuns /\ req' = Collect(q) /\ UNCHANGED <<runVars, jobVars, irq>>
    BY <1>5 DEF ReqClose
  <2>2. /\ q \in [Reqs -> Request]
        /\ \A s \in Reqs : /\ q[s].objs = req[s].objs /\ q[s].st = req[s].st
                           /\ q[s].dma = req[s].dma
    BY <1>r DEF Request
  <2> HIDE DEF q
  <2>3. \A s \in Reqs : req[s].st = "queued" => req'[s] = q[s]
    BY <2>1, <2>2, CollectKeeps
  <2> QED
    BY <1>k, <1>u, <2>1, <2>2, <2>3 DEF runVars, jobVars
<1>6. ASSUME NEW b \in Bufs, DQBuf(b) PROVE ListInv'
  <2> DEFINE q == [r \in Reqs |-> [req[r] EXCEPT !.refs = @ \ {b}]]
  <2>1. UserRuns /\ req' = Collect(q) /\ UNCHANGED <<runVars, jobVars, irq>>
    BY <1>6 DEF DQBuf
  <2>2. /\ q \in [Reqs -> Request]
        /\ \A s \in Reqs : /\ q[s].objs = req[s].objs /\ q[s].st = req[s].st
                           /\ q[s].dma = req[s].dma
    BY <1>r DEF Request
  <2> HIDE DEF q
  <2>3. \A s \in Reqs : req[s].st = "queued" => req'[s] = q[s]
    BY <2>1, <2>2, CollectKeeps
  <2> QED
    BY <1>k, <1>u, <2>1, <2>2, <2>3 DEF runVars, jobVars
<1>7. ASSUME NEW n \in nodes, StreamOn(n) PROVE ListInv'
  <2> DEFINE count == IF on = {} THEN 0 ELSE running_job_count
             seq == IF on = {} THEN 0 ELSE enqueued_frame_seq_no
  <2>1. count \in Int /\ seq \in Nat
    BY <1>t
  <2>2. /\ irq.pc = "idle" /\ irq' = irq /\ stopping' = stopping /\ ~stopping
        /\ \/ TryQueue(pending_job_list, running_job_list, count, req, seq)
           \/ UNCHANGED <<req, pending_job_list, running_job_list>>
    BY <1>7 DEF StreamOn
  <2> HIDE DEF count, seq
  <2>3. CASE UNCHANGED <<req, pending_job_list, running_job_list>>
    BY <1>k, <2>2, <2>3
  <2>4. CASE TryQueue(pending_job_list, running_job_list, count, req, seq)
    <3>1. Regular =>
            /\ \A i \in 1 .. Len(pending_job_list) : Held(req[pending_job_list[i]])
            /\ \A i \in 1 .. Len(running_job_list) : Held(req[running_job_list[i]])
            /\ Placed(pending_job_list, running_job_list)
      BY <2>2 DEF ListInv, FirstJob
    <3> QED
      BY <1>t, <1>q, <2>1, <2>2, <2>4, <3>1
  <2> QED
    BY <2>2, <2>3, <2>4
<1>8. ASSUME NEW n \in nodes, StreamOff(n) PROVE ListInv'
  <2> DEFINE mine == {b \in Bufs : Node(b) = n}
             q == Unbind(req, mine)
             p == [r \in Reqs |-> [q[r] EXCEPT !.refs = @ \ mine]]
  <2>1. /\ irq.pc = "idle" /\ irq' = irq
        /\ on' = on \ {n} /\ (on = nodes \/ stopping)
        /\ stopping' <=> on' # {}
        /\ req' = Collect(p)
        /\ on' # {} => UNCHANGED <<pending_job_list, running_job_list>>
        /\ on' = {} => pending_job_list' = <<>> /\ running_job_list' = <<>>
    BY <1>8 DEF StreamOff, ReqCleanup
  <2>2. CASE on' = {}
    BY <2>1, <2>2, EmptySeq DEF ListInv, Placed, FirstJob
  <2>3. CASE on' # {}
    <3> SUFFICES ASSUME Regular' PROVE ListInv'
      BY DEF ListInv
    <3>1. Aao \notin nodes /\ Without({"partial"}) /\ Without({"window"})
      BY <1>g, <2>1, <2>3 DEF Regular
    <3>2. Regular
      BY <3>1 DEF Regular
    <3>3. q \in [Reqs -> Request]
      BY <1>t, UnbindKeeps
    <3>4. ASSUME NEW r \in Reqs, Held(req[r]) PROVE Held(req[r])'
      <4>1. /\ q[r].objs = req[r].objs \ mine
            /\ q[r].st = IF req[r].objs \ mine = {} THEN "complete" ELSE "queued"
        BY <1>r, <3>4, UnbindKeeps DEF Held
      <4>2. \A m \in on' : \E b \in req[r].objs \ mine : Node(b) = m
        <5>1. ASSUME NEW m \in on' PROVE m \in nodes \ {Aao} /\ m # n /\ m \in on
          BY <1>o, <2>1, <3>1, <5>1
        <5> QED
          BY <3>1, <3>4, <5>1 DEF Held
      <4>3. q[r].st = "queued"
        BY <2>3, <4>1, <4>2
      <4> HIDE DEF q, mine
      <4>4. /\ p \in [Reqs -> Request]
            /\ p[r].st = "queued" /\ p[r].objs = req[r].objs \ mine
        BY <3>3, <4>1, <4>3 DEF Request
      <4> HIDE DEF p
      <4>5. req'[r].st = "queued" /\ req'[r].objs = req[r].objs \ mine
        BY <2>1, <4>4, CollectKeeps
      <4>6. stopping'
        BY <2>1, <2>3
      <4> QED
        BY <1>g, <4>2, <4>5, <4>6 DEF Held
    <3>5. FirstJob = 1 /\ FirstJob' = 1
      BY <2>1 DEF FirstJob
    <3>6. /\ \A i \in 1 .. Len(pending_job_list') : Held(req[pending_job_list[i]])'
          /\ \A i \in 1 .. Len(running_job_list') : Held(req[running_job_list[i]])'
      BY <1>e, <2>1, <2>3, <3>2, <3>4, <3>5 DEF ListInv
    <3>7. Placed(pending_job_list, running_job_list)
      BY <3>2 DEF ListInv
    <3> QED
      BY <2>1, <2>3, <3>5, <3>6, <3>7 DEF ListInv
  <2> QED
    BY <2>2, <2>3
<1>9. CASE \E f \in 1 .. MaxSeq : HwFrame(f)
  <2>1. UNCHANGED <<runVars, jobVars, req, irq>> /\ irq.pc = "idle"
    BY <1>9 DEF HwFrame
  <2> QED
    BY <1>k, <2>1 DEF runVars, jobVars
<1>10. CASE IrqEnter \/ IrqJobsEnd
  <2>1. /\ UNCHANGED <<runVars, jobVars, req>>
        /\ irq.pc # "del" /\ irq'.pc # "del"
    BY <1>10, <1>t DEF IrqEnter, IrqJobsEnd
  <2> QED
    BY <1>k, <2>1 DEF runVars, jobVars
<1>11. CASE IrqMeta
  <2>1. /\ irq.pc = "meta" /\ irq'.pc = "jobs" /\ UNCHANGED <<runVars, jobVars>>
    BY <1>11, <1>t DEF IrqMeta
  <2>2. CASE ~(Aao \in nodes /\ streaming = 1)
    BY <1>11, <1>k, <2>1, <2>2 DEF IrqMeta, runVars, jobVars
  <2>3. CASE Aao \in nodes /\ streaming = 1
    <3> DEFINE mine == buf_list[Aao]
               q == Unbind(req, mine)
    <3> SUFFICES ASSUME Regular' PROVE ListInv'
      BY DEF ListInv
    <3>1. Regular
      BY <2>1, RegularStays DEF runVars
    <3>2. /\ req' = Collect(q) /\ \A b \in mine : Node(b) = Aao
      BY <1>11, <2>3 DEF IrqMeta, TypeInv
    <3>3. q \in [Reqs -> Request]
      BY <1>t, UnbindKeeps
    <3>4. ASSUME NEW r \in Reqs, Held(req[r]) PROVE Held(req[r])'
      <4>1. /\ q[r].objs = req[r].objs \ mine
            /\ q[r].st = IF req[r].objs \ mine = {} THEN "complete" ELSE "queued"
        BY <1>r, <3>4, UnbindKeeps DEF Held
      <4>2. ~stopping /\ Without({"partial"}) /\ nodes # {Aao}
        BY <2>3, <3>1 DEF Regular
      <4>3. \A m \in nodes \ {Aao} : \E b \in req[r].objs \ mine : Node(b) = m
        BY <3>2, <3>4, <4>2 DEF Held
      <4>4. q[r].st = "queued"
        BY <2>3, <4>1, <4>2, <4>3
      <4> HIDE DEF q, mine
      <4>5. req'[r].st = "queued" /\ req'[r].objs = req[r].objs \ mine
        BY <3>2, <3>3, <4>1, <4>4, CollectKeeps
      <4> QED
        BY <1>g, <2>1, <2>3, <4>2, <4>3, <4>5 DEF Held, runVars
    <3>5. FirstJob = 1 /\ FirstJob' = 1
      BY <2>1 DEF FirstJob
    <3>6. /\ \A i \in 1 .. Len(pending_job_list') : Held(req[pending_job_list[i]])'
          /\ \A i \in 1 .. Len(running_job_list') : Held(req[running_job_list[i]])'
      BY <1>e, <2>1, <3>1, <3>4, <3>5 DEF ListInv, jobVars
    <3>7. Placed(pending_job_list, running_job_list)
      BY <3>1 DEF ListInv
    <3> QED
      BY <2>1, <3>5, <3>6, <3>7 DEF ListInv, jobVars
  <2> QED
    BY <2>2, <2>3
<1>12. CASE IrqJobDone
  <2> DEFINE h == Head(running_job_list)
             mine == req[h].objs
             q == Unbind(req, mine)
  <2>1. /\ irq.pc = "jobs" /\ irq'.pc = "del" /\ irq'.cur = h
        /\ running_job_list # <<>>
        /\ UNCHANGED <<runVars, pending_job_list, running_job_list>>
        /\ req' = Collect(q)
    BY <1>12, <1>t DEF IrqJobDone
  <2>2. h = running_job_list[1] /\ h \in Reqs /\ 1 \in 1 .. Len(running_job_list)
    BY <1>t, <2>1, HeadTailProperties, LenProperties, EmptySeq
  <2> HIDE DEF h
  <2> SUFFICES ASSUME Regular' PROVE ListInv'
    BY DEF ListInv
  <2>3. Regular
    BY <2>1, RegularStays DEF runVars
  <2>4. FirstJob = 1 /\ FirstJob' = 2
    BY <2>1 DEF FirstJob
  <2>5. /\ \A i \in 1 .. Len(pending_job_list) : Held(req[pending_job_list[i]])
        /\ \A i \in 1 .. Len(running_job_list) : Held(req[running_job_list[i]])
        /\ Placed(pending_job_list, running_job_list)
    BY <2>3, <2>4 DEF ListInv
  <2>6. q \in [Reqs -> Request]
    BY <1>t, UnbindKeeps
  <2>7. ASSUME NEW r \in Reqs, r # h, Held(req[r]) PROVE Held(req[r])'
    <3>1. req[r].objs \ mine = req[r].objs /\ req[r].objs # {} /\ req[r].st = "queued"
      BY <2>2, <2>7 DEF BindInv, Bound, Held
    <3> HIDE DEF mine
    <3>2. q[r].st = "queued" /\ q[r].objs = req[r].objs /\ q[r].dma = req[r].dma
      <4>1. /\ q[r].objs = req[r].objs \ mine /\ q[r].dma = req[r].dma
            /\ q[r].st = IF req[r].st = "queued" /\ req[r].objs \ mine = {}
                         THEN "complete" ELSE req[r].st
        BY <1>r, UnbindKeeps
      <4> HIDE DEF q
      <4> QED
        BY <3>1, <4>1
    <3> HIDE DEF q
    <3>3. req'[r] = q[r]
      BY <2>1, <2>6, <3>2, CollectKeeps
    <3> QED
      BY <2>1, <2>7, <3>2, <3>3, HeldKept DEF runVars
  <2>8. req'[h].st = "complete"
    <3>1. req[h].st = "queued" /\ req[h].objs # {} /\ req[h].objs \subseteq req[h].refs
      BY <2>2, <2>5 DEF BindInv, Bound, Held
    <3>2. req[h].objs \ mine = {}
      OBVIOUS
    <3>3. q[h].st = "complete" /\ q[h].refs = req[h].refs
      BY <1>t, <2>2, <3>1, <3>2, UnbindKeeps
    <3>4. q[h].refs # {}
      BY <3>1, <3>3
    <3> HIDE DEF q, mine
    <3> QED
      BY <2>1, <2>2, <2>6, <3>3, <3>4, CollectKeeps
  <2>9. \A i \in 1 .. Len(pending_job_list') : Held(req[pending_job_list[i]])'
    BY <1>e, <2>1, <2>2, <2>5, <2>7 DEF Placed
  <2>10. \A i \in 2 .. Len(running_job_list') : Held(req[running_job_list[i]])'
    <3>1. \A i \in 2 .. Len(running_job_list) :
            i \in 1 .. Len(running_job_list) /\ running_job_list[i] # h
      BY <1>e, <2>2, <2>5 DEF Placed
    <3> QED
      BY <1>e, <2>1, <2>5, <2>7, <3>1
  <2> QED
    BY <2>1, <2>2, <2>4, <2>5, <2>8, <2>9, <2>10 DEF ListInv
<1>13. CASE IrqListDel
  <2>1. /\ irq.pc = "del" /\ irq'.pc # "del"
        /\ running_job_list' = Tail(running_job_list)
        /\ UNCHANGED <<runVars, req, pending_job_list>>
    BY <1>13, <1>t DEF IrqListDel
  <2>2. running_job_list # <<>>
    BY <2>1 DEF TypeInv
  <2>3. /\ Len(Tail(running_job_list)) = Len(running_job_list) - 1
        /\ \A i \in 1 .. Len(Tail(running_job_list)) :
             /\ Tail(running_job_list)[i] = running_job_list[i + 1]
             /\ i + 1 \in 2 .. Len(running_job_list)
             /\ i + 1 \in 1 .. Len(running_job_list)
    BY <1>t, <1>e, <2>2, HeadTailProperties
  <2> SUFFICES ASSUME Regular' PROVE ListInv'
    BY DEF ListInv
  <2>4. Regular
    BY <2>1, RegularStays DEF runVars
  <2>5. FirstJob = 2 /\ FirstJob' = 1
    BY <2>1 DEF FirstJob
  <2>6. /\ \A i \in 1 .. Len(pending_job_list) : Held(req[pending_job_list[i]])
        /\ \A i \in 2 .. Len(running_job_list) : Held(req[running_job_list[i]])
        /\ Placed(pending_job_list, running_job_list)
    BY <2>4, <2>5 DEF ListInv
  <2>7. ASSUME NEW r \in Reqs, Held(req[r]) PROVE Held(req[r])'
    BY <2>1, <2>7, HeldKept DEF Held, runVars
  <2>8. \A i \in 1 .. Len(pending_job_list') : Held(req[pending_job_list[i]])'
    BY <1>e, <2>1, <2>6, <2>7
  <2>9. \A i \in 1 .. Len(running_job_list') : Held(req[running_job_list[i]])'
    BY <1>e, <2>1, <2>3, <2>6, <2>7
  <2>10. Placed(pending_job_list, Tail(running_job_list))
    <3>1. \A i, j \in 1 .. Len(Tail(running_job_list)) :
            Tail(running_job_list)[i] = Tail(running_job_list)[j] => i = j
      <4>1. \A i, j \in 1 .. Len(Tail(running_job_list)) :
              Tail(running_job_list)[i] = Tail(running_job_list)[j] => i + 1 = j + 1
        BY <2>3, <2>6 DEF Placed
      <4> QED
        BY <4>1
    <3> QED
      BY <2>3, <2>6, <3>1 DEF Placed
  <2> QED
    BY <2>1, <2>5, <2>8, <2>9, <2>10 DEF ListInv
<1>14. CASE IrqTryQueue
  <2>1. /\ irq.pc = "try" /\ irq'.pc = "idle" /\ UNCHANGED runVars
        /\ \/ TryQueue(pending_job_list, running_job_list, running_job_count, req,
                       enqueued_frame_seq_no)
           \/ NoTryQueue(pending_job_list, req)
    BY <1>14 DEF IrqTryQueue, IrqIdle
  <2>2. Regular =>
          /\ \A i \in 1 .. Len(pending_job_list) : Held(req[pending_job_list[i]])
          /\ \A i \in 1 .. Len(running_job_list) : Held(req[running_job_list[i]])
          /\ Placed(pending_job_list, running_job_list)
    BY <2>1 DEF ListInv, FirstJob
  <2> QED
    BY <1>t, <1>q, <2>1, <2>2 DEF runVars
<1>15. CASE UNCHANGED sysVars
  <2>1. UNCHANGED <<on, stopping, pending_job_list, running_job_list, req, irq>>
    BY <1>15 DEF sysVars, runVars, jobVars
  <2>2. /\ Regular' = Regular /\ FirstJob' = FirstJob
        /\ \A x : Held(x)' = Held(x)
    BY <1>g, <2>1, RegularStays DEF FirstJob, Held
  <2> QED
    BY <2>1, <2>2 DEF ListInv
<1> QED
  BY <1>1, <1>2, <1>3, <1>4, <1>5, <1>6, <1>7, <1>8, <1>9, <1>10, <1>11, <1>12, <1>13,
     <1>14, <1>15 DEF RequestsStep, DriverStep, UserStep, Irq
-----------------------------------------------------------------------------
(***************************************************************************)
(* Frame numbers, and what is written.                                     *)
(***************************************************************************)
LEMMA FrameStep ==
  ASSUME TypeInv, BindInv, PhaseInv, ListInv, FrameInv, RequestsStep
  PROVE  FrameInv'
<1> DEFINE Counted == Regular /\ Aao \notin nodes /\ ~stopping
<1>g. /\ Bufs' = Bufs /\ nodes' = nodes
      /\ \A F : Without(F)' = Without(F)
  BY GivenStays
<1>t. /\ req \in [Reqs -> Request]
      /\ pending_job_list \in Seq(Reqs) /\ running_job_list \in Seq(Reqs)
      /\ running_job_count \in Int /\ enqueued_frame_seq_no \in Nat
  BY DEF TypeInv
<1>h. /\ hw \in [frame : Nat, done : BOOLEAN]
      /\ irq \in [pc : IrqPC, frame : Nat, cur : Reqs \cup {NoReq}]
  BY DEF TypeInv
<1>r. req \in [Reqs -> Request]
  BY <1>t
<1>n. \A r \in Reqs : req[r].seq \in Nat
  BY <1>r DEF Request
<1>e. /\ Len(pending_job_list) \in Nat
      /\ \A i \in 1 .. Len(pending_job_list) : pending_job_list[i] \in Reqs
      /\ Len(running_job_list) \in Nat
      /\ \A i \in 1 .. Len(running_job_list) : running_job_list[i] \in Reqs
  BY <1>t, ListedReqs
<1>c. stopping' = stopping => (Regular' /\ Aao \notin nodes' /\ ~stopping' => Counted)
  <2>1. ASSUME stopping' = stopping, Regular', Aao \notin nodes', ~stopping'
        PROVE  Counted
    <3>1. Regular
      BY <2>1, RegularStays
    <3>2. Aao \notin nodes /\ ~stopping
      BY <1>g, <2>1
    <3> QED
      BY <3>1, <3>2
  <2> HIDE DEF Counted
  <2> QED
    BY <2>1
\* All jobs are queued when none is being unlinked.
<1>l. Counted /\ irq.pc # "del" =>
        /\ \A i \in 1 .. Len(running_job_list) :
             /\ Held(req[running_job_list[i]])
             /\ req[running_job_list[i]].st = "queued"
        /\ \A i \in 1 .. Len(pending_job_list) : Held(req[pending_job_list[i]])
        /\ Placed(pending_job_list, running_job_list)
        /\ FirstJob = 1
  BY DEF ListInv, FirstJob, Held
<1>f. Counted =>
        /\ hw.frame <= enqueued_frame_seq_no
        /\ \A i \in 1 .. Len(running_job_list) :
             req[running_job_list[i]].seq <= enqueued_frame_seq_no
        /\ \A i, j \in 1 .. Len(running_job_list) :
             req[running_job_list[i]].seq = req[running_job_list[j]].seq => i = j
        /\ \A i \in FirstJob .. Len(running_job_list) :
             req[running_job_list[i]].seq = hw.frame =>
               req[running_job_list[i]].objs \subseteq filled
  BY DEF FrameInv
<1> HIDE DEF Counted
\* The running list and its frames stay as they are.
<1>k. ASSUME UNCHANGED <<stopping, running_job_list, enqueued_frame_seq_no>>,
             hw'.frame = hw.frame,
             Counted => irq.pc # "del" /\ irq'.pc # "del",
             Counted => \A r \in Reqs : req[r].st = "queued" =>
               /\ req'[r].objs = req[r].objs /\ req'[r].seq = req[r].seq
               /\ \A b \in req[r].objs : b \in filled => b \in filled'
      PROVE  FrameInv'
  <2> SUFFICES ASSUME Regular' /\ Aao \notin nodes' /\ ~stopping' PROVE FrameInv'
    BY DEF FrameInv
  <2>1. Counted /\ FirstJob = 1 /\ FirstJob' = 1
    BY <1>c, <1>k, <1>l DEF FirstJob
  <2>2. \A i \in 1 .. Len(running_job_list) :
          LET r == running_job_list[i]
          IN  /\ req'[r].objs = req[r].objs /\ req'[r].seq = req[r].seq
              /\ \A b \in req[r].objs : b \in filled => b \in filled'
    BY <1>e, <1>k, <1>l, <2>1
  <2> QED
    BY <1>f, <1>k, <2>1, <2>2 DEF FrameInv
\* Jobs enter the running list with the next numbers.
<1>q. ASSUME NEW pending \in Seq(Reqs), NEW count \in Int, NEW seq \in Nat,
             NEW q \in [Reqs -> Request],
             TryQueue(pending, running_job_list, count, q, seq),
             UNCHANGED <<stopping, hw, filled>>, irq'.pc = "idle",
             Counted =>
               /\ Placed(pending, running_job_list)
               /\ hw.frame <= seq
               /\ \A i \in 1 .. Len(running_job_list) :
                    q[running_job_list[i]].seq <= seq
               /\ \A i, j \in 1 .. Len(running_job_list) :
                    q[running_job_list[i]].seq = q[running_job_list[j]].seq => i = j
               /\ \A i \in 1 .. Len(running_job_list) :
                    q[running_job_list[i]].seq = hw.frame =>
                      q[running_job_list[i]].objs \subseteq filled
      PROVE  FrameInv'
  <2> SUFFICES ASSUME Regular' /\ Aao \notin nodes' /\ ~stopping' PROVE FrameInv'
    BY DEF FrameInv
  <2>1. Counted /\ FirstJob' = 1
    BY <1>c, <1>q DEF FirstJob
  <2>q. TryQueue(pending, running_job_list, count, q, seq)
    BY <1>q
  <2>2. PICK n \in 0 .. Len(pending) :
          /\ enqueued_frame_seq_no' = seq + n
          /\ Len(pending_job_list') = Len(pending) - n
          /\ \A i \in 1 .. Len(pending) - n : pending_job_list'[i] = pending[n + i]
          /\ Len(running_job_list') = Len(running_job_list) + n
          /\ \A i \in 1 .. Len(running_job_list) :
               running_job_list'[i] = running_job_list[i]
          /\ \A i \in 1 .. n :
               running_job_list'[Len(running_job_list) + i] = pending[i]
          /\ \A r \in Reqs :
               (\A i \in 1 .. n : pending[i] # r) => req'[r].seq = q[r].seq
          /\ \A i \in 1 .. n :
               \E j \in 1 .. n :
                 pending[j] = pending[i] /\ req'[pending[i]].seq = seq + j
    <3>1. running_job_list \in Seq(Reqs)
      BY <1>t
    <3>2. Moved(pending, running_job_list, q, seq)
      BY <2>q, <3>1, TryQueueEffect
    <3> QED
      BY <3>2 DEF Moved
  <2>3. \A r \in Reqs : req'[r].objs = q[r].objs /\ q[r].seq \in Nat
    <3>1. Renumbered(q)
      BY <1>t, <2>q, TryQueueEffect
    <3>2. \A r \in Reqs : q[r] \in Request
      OBVIOUS
    <3> QED
      BY <3>1, <3>2 DEF Request, Renumbered
  <2>p. Len(pending) \in Nat /\ \A i \in 1 .. n : i \in 1 .. Len(pending)
    BY <1>q, ListedReqs
  <2>4. ASSUME NEW i \in 1 .. Len(running_job_list)
        PROVE  LET r == running_job_list[i]
               IN  /\ running_job_list'[i] = r
                   /\ req'[r].seq = q[r].seq /\ req'[r].objs = q[r].objs
                   /\ q[r].seq <= seq /\ q[r].seq \in Nat
    <3>1. \A j \in 1 .. n : pending[j] # running_job_list[i]
      BY <1>q, <2>1, <2>p DEF Placed
    <3> QED
      BY <1>e, <1>q, <2>1, <2>2, <2>3, <3>1
  <2>5. ASSUME NEW i \in 1 .. n
        PROVE  LET r == running_job_list'[Len(running_job_list) + i]
               IN  req'[r].seq = seq + i
    <3>1. PICK j \in 1 .. n : pending[j] = pending[i] /\ req'[pending[i]].seq = seq + j
      BY <2>2
    <3>2. j = i
      BY <1>q, <2>1, <2>p, <3>1 DEF Placed
    <3> QED
      BY <2>2, <3>1, <3>2
  <2>l. /\ Len(running_job_list) \in Nat /\ n \in Nat
        /\ Len(running_job_list') = Len(running_job_list) + n
        /\ enqueued_frame_seq_no' = seq + n
    BY <1>e, <2>2, <2>p
  <2>6. ASSUME NEW i \in 1 .. Len(running_job_list')
        PROVE  \/ i \in 1 .. Len(running_job_list)
               \/ /\ i \notin 1 .. Len(running_job_list)
                  /\ i - Len(running_job_list) \in 1 .. n
                  /\ req'[running_job_list'[i]].seq = seq + (i - Len(running_job_list))
    <3>1. CASE i <= Len(running_job_list)
      BY <1>e, <3>1
    <3>2. CASE i > Len(running_job_list)
      <4>1. /\ i - Len(running_job_list) \in 1 .. n
            /\ Len(running_job_list) + (i - Len(running_job_list)) = i
            /\ i \notin 1 .. Len(running_job_list)
        BY <2>l, <2>2, <3>2
      <4> QED
        BY <2>5, <4>1
    <3> QED
      BY <1>e, <2>2, <3>1, <3>2
  <2>7. hw'.frame <= enqueued_frame_seq_no'
    BY <1>h, <1>q, <2>1, <2>2, <2>p
  <2>8. \A i \in 1 .. Len(running_job_list') :
          req'[running_job_list'[i]].seq <= enqueued_frame_seq_no'
    <3>1. ASSUME NEW i \in 1 .. Len(running_job_list')
          PROVE  req'[running_job_list'[i]].seq <= enqueued_frame_seq_no'
      <4>1. CASE i \in 1 .. Len(running_job_list)
        BY <2>l, <2>4, <4>1
      <4>2. CASE i \notin 1 .. Len(running_job_list)
        BY <2>l, <2>6, <4>2
      <4> QED
        BY <4>1, <4>2
    <3> QED
      BY <3>1
  <2>9. ASSUME NEW i \in 1 .. Len(running_job_list'), NEW j \in 1 .. Len(running_job_list'),
               req'[running_job_list'[i]].seq = req'[running_job_list'[j]].seq
        PROVE  i = j
    <3>1. CASE i \in 1 .. Len(running_job_list) /\ j \in 1 .. Len(running_job_list)
      BY <1>q, <2>1, <2>4, <2>9, <3>1
    <3>2. CASE i \notin 1 .. Len(running_job_list) /\ j \notin 1 .. Len(running_job_list)
      <4>1. seq + (i - Len(running_job_list)) = seq + (j - Len(running_job_list))
        BY <2>6, <2>9, <3>2
      <4> QED
        BY <2>l, <4>1
    <3>3. CASE i \in 1 .. Len(running_job_list) /\ j \notin 1 .. Len(running_job_list)
      <4>1. req'[running_job_list'[i]].seq <= seq
        BY <2>4, <3>3
      <4>2. /\ j - Len(running_job_list) \in 1 .. n
            /\ req'[running_job_list'[j]].seq = seq + (j - Len(running_job_list))
        BY <2>6, <3>3
      <4> QED
        BY <2>l, <2>9, <4>1, <4>2
    <3>4. CASE i \notin 1 .. Len(running_job_list) /\ j \in 1 .. Len(running_job_list)
      <4>1. req'[running_job_list'[j]].seq <= seq
        BY <2>4, <3>4
      <4>2. /\ i - Len(running_job_list) \in 1 .. n
            /\ req'[running_job_list'[i]].seq = seq + (i - Len(running_job_list))
        BY <2>6, <3>4
      <4> QED
        BY <2>l, <2>9, <4>1, <4>2
    <3> QED
      BY <3>1, <3>2, <3>3, <3>4
  <2>10. ASSUME NEW i \in 1 .. Len(running_job_list'),
                req'[running_job_list'[i]].seq = hw'.frame
         PROVE  req'[running_job_list'[i]].objs \subseteq filled'
    <3>1. hw.frame <= seq /\ hw.frame \in Nat /\ hw' = hw
      BY <1>h, <1>q, <2>1
    <3>2. i \in 1 .. Len(running_job_list)
      BY <1>e, <2>6, <2>10, <3>1
    <3> QED
      BY <1>q, <2>1, <2>4, <2>10, <3>1, <3>2
  <2> QED
    BY <2>1, <2>7, <2>8, <2>9, <2>10 DEF FrameInv
<1>u. Counted /\ UserRuns => irq.pc = "idle"
  BY DEF Counted, Regular, UserRuns, Without
<1>1. ASSUME NEW r \in Reqs, ReqAlloc(r) PROVE FrameInv'
  <2>1. /\ UserRuns /\ req[r].st = "free"
        /\ UNCHANGED <<runVars, jobVars, irq, hw, bufVars>>
        /\ req' = [req EXCEPT ![r] = [FreeReq EXCEPT !.st = "idle", !.fd = TRUE]]
    BY <1>1 DEF ReqAlloc
  <2>2. \A s \in Reqs : req[s].st = "queued" => req'[s] = req[s]
    BY <1>r, <2>1
  <2> QED
    BY <1>k, <1>u, <2>1, <2>2 DEF runVars, jobVars, bufVars
<1>2. ASSUME NEW r \in Reqs, NEW b \in Bufs, QBuf(b, r) PROVE FrameInv'
  <2>1. /\ UserRuns /\ req[r].st = "idle" /\ vb[b] = "dequeued"
        /\ UNCHANGED <<runVars, jobVars, irq, hw>>
        /\ filled' = filled \ {b}
        /\ req' = [req EXCEPT ![r].objs = @ \cup {b}, ![r].refs = @ \cup {b}]
    BY <1>2 DEF QBuf
  <2>2. \A s \in Reqs : req[s].st = "queued" => req'[s] = req[s] /\ b \notin req[s].objs
    BY <1>r, <2>1 DEF BindInv, Bound
  <2> QED
    BY <1>k, <1>u, <2>1, <2>2 DEF runVars, jobVars
<1>3. ASSUME NEW r \in Reqs, ReqQueue(r) PROVE FrameInv'
  <2> DEFINE q == [req EXCEPT ![r].st = "queued", ![r].dma = req[r].objs]
             pending == Append(pending_job_list, r)
  <2>1. /\ UserRuns /\ req[r].st = "idle"
        /\ \/ TryQueue(pending, running_job_list, running_job_count, q,
                       enqueued_frame_seq_no)
           \/ NoTryQueue(pending, q)
        /\ UNCHANGED <<runVars, filled, irq, hw>>
    BY <1>3 DEF ReqQueue
  <2>2. /\ q \in [Reqs -> Request]
        /\ \A s \in Reqs \ {r} : q[s] = req[s]
    <3>1. \A s \in Reqs \ {r} : q[s] = req[s]
      BY <1>r
    <3>2. [req[r] EXCEPT !.st = "queued", !.dma = req[r].objs] \in Request
      BY <1>r DEF Request
    <3> QED
      BY <1>r, <3>1, <3>2
  <2>3. /\ pending \in Seq(Reqs) /\ Len(pending) = Len(pending_job_list) + 1
        /\ \A i \in 1 .. Len(pending_job_list) : pending[i] = pending_job_list[i]
        /\ pending[Len(pending)] = r
    BY <1>t, AppendProperties
  <2> HIDE DEF q, pending
  <2>4. CASE NoTryQueue(pending, q)
    <3>1. \A s \in Reqs : req[s].st = "queued" => req'[s] = req[s]
      BY <2>1, <2>2, <2>4 DEF NoTryQueue
    <3> QED
      BY <1>k, <1>u, <2>1, <2>4, <3>1 DEF NoTryQueue, runVars
  <2>5. CASE TryQueue(pending, running_job_list, running_job_count, q,
                      enqueued_frame_seq_no)
    <3>1. CASE Counted
      <4>1. irq.pc = "idle" /\ FirstJob = 1
        BY <1>u, <2>1, <3>1 DEF FirstJob
      <4>2. \A i \in 1 .. Len(running_job_list) :
              running_job_list[i] # r /\ q[running_job_list[i]] = req[running_job_list[i]]
        BY <1>e, <1>l, <2>1, <2>2, <3>1, <4>1
      <4>3. \A i \in 1 .. Len(pending_job_list) : pending_job_list[i] # r
        BY <1>l, <2>1, <3>1, <4>1 DEF Held
      <4>4. \A i \in 1 .. Len(pending) :
              i \in 1 .. Len(pending_job_list) \/ i = Len(pending_job_list) + 1
        BY <1>e, <2>3
      <4>5. Placed(pending, running_job_list)
        <5>1. \A i, j \in 1 .. Len(pending) : pending[i] = pending[j] => i = j
          BY <1>l, <2>3, <3>1, <4>1, <4>3, <4>4 DEF Placed
        <5>2. \A i \in 1 .. Len(pending), j \in 1 .. Len(running_job_list) :
                 pending[i] # running_job_list[j]
          BY <1>l, <2>3, <3>1, <4>1, <4>2, <4>4 DEF Placed
        <5> QED
          BY <1>l, <3>1, <4>1, <5>1, <5>2 DEF Placed
      <4> QED
        <5>1. /\ UNCHANGED <<stopping, hw, filled>> /\ irq'.pc = "idle"
              /\ running_job_count \in Int /\ enqueued_frame_seq_no \in Nat
          BY <1>t, <2>1, <4>1 DEF runVars
        <5>2. /\ hw.frame <= enqueued_frame_seq_no
              /\ \A i \in 1 .. Len(running_job_list) :
                   /\ q[running_job_list[i]].seq <= enqueued_frame_seq_no
                   /\ q[running_job_list[i]].seq = hw.frame =>
                        q[running_job_list[i]].objs \subseteq filled
              /\ \A i, j \in 1 .. Len(running_job_list) :
                   q[running_job_list[i]].seq = q[running_job_list[j]].seq => i = j
          BY <1>f, <3>1, <4>1, <4>2
        <5> QED
          BY <1>q, <2>2, <2>3, <2>5, <4>5, <5>1, <5>2
    <3>2. CASE ~Counted
      BY <1>c, <2>1, <3>2 DEF FrameInv, runVars
    <3> QED
      BY <3>1, <3>2
  <2> QED
    BY <2>1, <2>4, <2>5
<1>4. ASSUME NEW r \in Reqs, ReqReinit(r) PROVE FrameInv'
  <2>1. /\ UserRuns /\ req[r].st = "complete"
        /\ UNCHANGED <<runVars, jobVars, irq, hw, bufVars>>
        /\ req' = [req EXCEPT ![r].st = "idle"]
    BY <1>4 DEF ReqReinit
  <2>2. \A s \in Reqs : req[s].st = "queued" => req'[s] = req[s]
    BY <1>r, <2>1
  <2> QED
    BY <1>k, <1>u, <2>1, <2>2 DEF runVars, jobVars, bufVars
<1>5. ASSUME NEW r \in Reqs, ReqClose(r) PROVE FrameInv'
  <2> DEFINE q == [req EXCEPT ![r].fd = FALSE]
  <2>1. UserRuns /\ req' = Collect(q) /\ UNCHANGED <<runVars, jobVars, irq, hw, bufVars>>
    BY <1>5 DEF ReqClose
  <2>2. /\ q \in [Reqs -> Request]
        /\ \A s \in Reqs : /\ q[s].objs = req[s].objs /\ q[s].st = req[s].st
                           /\ q[s].seq = req[s].seq
    BY <1>r DEF Request
  <2> HIDE DEF q
  <2>3. \A s \in Reqs : req[s].st = "queued" => req'[s] = q[s]
    BY <2>1, <2>2, CollectKeeps
  <2> QED
    BY <1>k, <1>u, <2>1, <2>2, <2>3 DEF runVars, jobVars, bufVars
<1>6. ASSUME NEW b \in Bufs, DQBuf(b) PROVE FrameInv'
  <2> DEFINE q == [r \in Reqs |-> [req[r] EXCEPT !.refs = @ \ {b}]]
  <2>1. /\ UserRuns /\ req' = Collect(q)
        /\ UNCHANGED <<runVars, jobVars, irq, hw, filled>>
    BY <1>6 DEF DQBuf
  <2>2. /\ q \in [Reqs -> Request]
        /\ \A s \in Reqs : /\ q[s].objs = req[s].objs /\ q[s].st = req[s].st
                           /\ q[s].seq = req[s].seq
    BY <1>r DEF Request
  <2> HIDE DEF q
  <2>3. \A s \in Reqs : req[s].st = "queued" => req'[s] = q[s]
    BY <2>1, <2>2, CollectKeeps
  <2> QED
    BY <1>k, <1>u, <2>1, <2>2, <2>3 DEF runVars, jobVars
<1>7. ASSUME NEW n \in nodes, StreamOn(n) PROVE FrameInv'
  <2> DEFINE count == IF on = {} THEN 0 ELSE running_job_count
             seq == IF on = {} THEN 0 ELSE enqueued_frame_seq_no
  <2>1. count \in Int /\ seq \in Nat
    BY <1>t
  <2>2. /\ irq.pc = "idle" /\ irq' = irq /\ stopping' = stopping /\ ~stopping
        /\ n \notin on /\ UNCHANGED <<hw, filled>>
        /\ \/ TryQueue(pending_job_list, running_job_list, count, req, seq)
           \/ enqueued_frame_seq_no' = seq /\ UNCHANGED <<req, running_job_list>>
    BY <1>7 DEF StreamOn, bufVars
  <2> HIDE DEF count, seq
  <2>3. hw.frame = 0 /\ running_job_list = <<>> /\ Len(running_job_list) = 0
    <3>1. streaming = 0
      BY <2>2 DEF PhaseInv, TypeInv
    <3> QED
      BY <2>2, <3>1 DEF PhaseInv, HwOff
  <2>4. CASE enqueued_frame_seq_no' = seq /\ UNCHANGED <<req, running_job_list>>
    BY <2>1, <2>2, <2>3, <2>4 DEF FrameInv, FirstJob
  <2>5. CASE TryQueue(pending_job_list, running_job_list, count, req, seq)
    <3>1. Counted => Placed(pending_job_list, running_job_list)
      BY <1>l, <2>2
    <3>2. \A i \in 1 .. Len(running_job_list) : FALSE
      BY <2>3
    <3>3. hw.frame <= seq
      BY <2>1, <2>3
    <3> QED
      BY <1>t, <1>q, <2>1, <2>2, <2>5, <3>1, <3>2, <3>3
  <2> QED
    BY <2>2, <2>4, <2>5
<1>8. ASSUME NEW n \in nodes, StreamOff(n) PROVE FrameInv'
  <2>1. /\ hw' = HwOff /\ enqueued_frame_seq_no' = enqueued_frame_seq_no
        /\ irq.pc = "idle" /\ irq' = irq
        /\ ~stopping' => running_job_list' = <<>>
    BY <1>8 DEF StreamOff, ReqCleanup
  <2> QED
    BY <1>t, <2>1 DEF FrameInv, HwOff, FirstJob
<1>9. ASSUME NEW f \in 1 .. MaxSeq, HwFrame(f) PROVE FrameInv'
  <2>1. /\ irq.pc = "idle" /\ irq' = irq /\ f > hw.frame /\ hw'.frame = f
        /\ UNCHANGED <<runVars, jobVars, req>>
        /\ \E i \in 1 .. Len(running_job_list) :
             /\ req[running_job_list[i]].seq = f
             /\ filled' = filled \cup req[running_job_list[i]].dma
    <3>1. DOMAIN running_job_list = 1 .. Len(running_job_list)
      BY <1>t, LenProperties
    <3> QED
      BY <1>9, <3>1 DEF HwFrame
  <2>2. PICK i \in 1 .. Len(running_job_list) :
          /\ req[running_job_list[i]].seq = f
          /\ filled' = filled \cup req[running_job_list[i]].dma
    BY <2>1
  <2> SUFFICES ASSUME Regular' /\ Aao \notin nodes' /\ ~stopping' PROVE FrameInv'
    BY DEF FrameInv
  <2>3. Counted /\ FirstJob' = 1 /\ irq.pc # "del"
    BY <1>c, <2>1 DEF FirstJob, runVars
  <2>4. f <= enqueued_frame_seq_no
    BY <1>f, <2>2, <2>3
  <2>5. req[running_job_list[i]].objs \subseteq filled'
    BY <1>l, <2>2, <2>3 DEF Held, Counted
  <2>6. \A j \in 1 .. Len(running_job_list) :
          req[running_job_list[j]].seq = f => req[running_job_list[j]].objs \subseteq filled'
    BY <1>f, <2>2, <2>3, <2>5
  <2> QED
    BY <1>f, <2>1, <2>3, <2>4, <2>6 DEF FrameInv, jobVars
<1>10. CASE IrqEnter \/ IrqJobsEnd
  <2>1. /\ UNCHANGED <<runVars, bufVars, jobVars, req>>
        /\ hw'.frame = hw.frame
        /\ irq.pc # "del" /\ irq'.pc # "del"
    BY <1>10, <1>h DEF IrqEnter, IrqJobsEnd
  <2> QED
    BY <1>k, <2>1 DEF runVars, jobVars, bufVars
<1>11. CASE IrqMeta
  <2>1. /\ irq.pc = "meta" /\ irq'.pc = "jobs" /\ UNCHANGED <<runVars, jobVars, hw, filled>>
        /\ Aao \notin nodes => UNCHANGED req
    BY <1>11, <1>h DEF IrqMeta
  <2>2. CASE Counted
    BY <1>k, <2>1, <2>2 DEF Counted, runVars, jobVars
  <2>3. CASE ~Counted
    BY <1>c, <2>1, <2>3 DEF FrameInv, runVars
  <2> QED
    BY <2>2, <2>3
<1>12. CASE IrqJobDone
  <2> DEFINE h == Head(running_job_list)
             mine == req[h].objs
             q == Unbind(req, mine)
  <2>1. /\ irq.pc = "jobs" /\ irq'.pc = "del"
        /\ running_job_list # <<>>
        /\ UNCHANGED <<runVars, running_job_list, enqueued_frame_seq_no, hw, filled>>
        /\ req' = Collect(q)
    BY <1>12, <1>h DEF IrqJobDone
  <2>2. h = running_job_list[1] /\ h \in Reqs /\ 1 \in 1 .. Len(running_job_list)
    BY <1>t, <2>1, HeadTailProperties, LenProperties, EmptySeq
  <2> HIDE DEF h
  <2> SUFFICES ASSUME Regular' /\ Aao \notin nodes' /\ ~stopping' PROVE FrameInv'
    BY DEF FrameInv
  <2>3. Counted /\ FirstJob = 1 /\ FirstJob' = 2
    BY <1>c, <2>1 DEF FirstJob, runVars
  <2>4. q \in [Reqs -> Request]
    BY <1>r, UnbindKeeps
  <2>5. ASSUME NEW r \in Reqs, req[r].st = "queued"
        PROVE  /\ req'[r].seq = req[r].seq
               /\ r # h => req'[r].objs = req[r].objs
    <3>1. /\ req[r].refs # {}
          /\ r # h => req[r].objs \ mine = req[r].objs
      BY <2>2, <2>5 DEF BindInv, Bound
    <3> HIDE DEF mine
    <3>2. /\ q[r].seq = req[r].seq /\ q[r].objs = req[r].objs \ mine
          /\ q[r].refs = req[r].refs
      BY <1>r, UnbindKeeps
    <3> HIDE DEF q
    <3>3. req'[r] = q[r]
      BY <2>1, <2>4, <3>1, <3>2, CollectKeeps
    <3> QED
      BY <3>1, <3>2, <3>3
  <2>6. \A i \in 1 .. Len(running_job_list) :
          LET r == running_job_list[i]
          IN  /\ req'[r].seq = req[r].seq
              /\ i # 1 => req'[r].objs = req[r].objs
    BY <1>e, <1>l, <2>1, <2>2, <2>3, <2>5 DEF Placed
  <2>7. \A i \in 2 .. Len(running_job_list) : i \in 1 .. Len(running_job_list) /\ i # 1
    BY <1>e
  <2> QED
    BY <1>f, <2>1, <2>3, <2>6, <2>7 DEF FrameInv
<1>13. CASE IrqListDel
  <2>1. /\ irq.pc = "del" /\ irq'.pc # "del"
        /\ running_job_list' = Tail(running_job_list)
        /\ UNCHANGED <<runVars, req, enqueued_frame_seq_no, hw, filled>>
    BY <1>13, <1>h DEF IrqListDel, bufVars
  <2>2. running_job_list # <<>>
    BY <2>1 DEF TypeInv
  <2>3. /\ Len(Tail(running_job_list)) = Len(running_job_list) - 1
        /\ \A i \in 1 .. Len(Tail(running_job_list)) :
             /\ Tail(running_job_list)[i] = running_job_list[i + 1]
             /\ i + 1 \in 2 .. Len(running_job_list)
             /\ i + 1 \in 1 .. Len(running_job_list)
    BY <1>t, <1>e, <2>2, HeadTailProperties
  <2> SUFFICES ASSUME Regular' /\ Aao \notin nodes' /\ ~stopping' PROVE FrameInv'
    BY DEF FrameInv
  <2>4. Counted /\ FirstJob = 2 /\ FirstJob' = 1
    BY <1>c, <2>1 DEF FirstJob, runVars
  <2> DEFINE tail == Tail(running_job_list)
  <2> HIDE DEF tail
  <2>5. \A i, j \in 1 .. Len(tail) : req[tail[i]].seq = req[tail[j]].seq => i = j
    <3>1. \A i, j \in 1 .. Len(tail) : req[tail[i]].seq = req[tail[j]].seq => i + 1 = j + 1
      BY <1>f, <2>3, <2>4 DEF tail
    <3> QED
      BY <3>1
  <2>6. \A i \in 1 .. Len(tail) :
          /\ req[tail[i]].seq <= enqueued_frame_seq_no
          /\ req[tail[i]].seq = hw.frame => req[tail[i]].objs \subseteq filled
    BY <1>f, <2>3, <2>4 DEF tail
  <2>7. running_job_list' = tail /\ hw.frame <= enqueued_frame_seq_no
    BY <1>f, <2>1, <2>4 DEF tail
  <2> QED
    BY <2>1, <2>4, <2>5, <2>6, <2>7 DEF FrameInv
<1>14. CASE IrqTryQueue
  <2>1. /\ irq.pc = "try" /\ irq'.pc = "idle" /\ UNCHANGED <<runVars, bufVars, hw>>
        /\ \/ TryQueue(pending_job_list, running_job_list, running_job_count, req,
                       enqueued_frame_seq_no)
           \/ NoTryQueue(pending_job_list, req)
    BY <1>14 DEF IrqTryQueue, IrqIdle
  <2>2. CASE NoTryQueue(pending_job_list, req)
    BY <1>k, <2>1, <2>2 DEF NoTryQueue, runVars, bufVars
  <2>3. CASE TryQueue(pending_job_list, running_job_list, running_job_count, req,
                      enqueued_frame_seq_no)
    BY <1>t, <1>f, <1>l, <1>q, <2>1, <2>3 DEF runVars, bufVars
  <2> QED
    BY <2>1, <2>2, <2>3
<1>15. CASE UNCHANGED sysVars
  <2>1. UNCHANGED <<stopping, running_job_list, enqueued_frame_seq_no, req, irq, hw, filled>>
    BY <1>15 DEF sysVars, runVars, jobVars, bufVars
  <2> QED
    BY <1>f, <1>c, <2>1 DEF FrameInv, FirstJob
<1> QED
  BY <1>1, <1>2, <1>3, <1>4, <1>5, <1>6, <1>7, <1>8, <1>9, <1>10, <1>11, <1>12, <1>13,
     <1>14, <1>15 DEF RequestsStep, DriverStep, UserStep, Irq

LEMMA WrittenStep ==
  ASSUME TypeInv, PhaseInv, ListInv, FrameInv, WrittenInv, RequestsStep
  PROVE  WrittenInv'
<1>g. /\ Bufs' = Bufs /\ nodes' = nodes
      /\ \A F : Without(F)' = Without(F)
  BY GivenStays
<1>t. /\ vb \in [Bufs -> BufStates] /\ running_job_list \in Seq(Reqs)
      /\ filled \subseteq Bufs /\ streaming \in {0, 1}
  BY DEF TypeInv
<1> SUFFICES ASSUME Aao \notin nodes, Without({"window"})
             PROVE  \A b \in Bufs : vb'[b] = "done" => b \in filled'
  BY <1>g DEF WrittenInv
<1>w. \A b \in Bufs : vb[b] = "done" => b \in filled
  BY DEF WrittenInv
<1>1. ASSUME NEW r \in Reqs, NEW c \in Bufs, QBuf(c, r)
      PROVE  \A b \in Bufs : vb'[b] = "done" => b \in filled'
  BY <1>t, <1>w, <1>1 DEF QBuf
<1>2. CASE \E r \in Reqs : ReqQueue(r)
  BY <1>w, <1>2 DEF ReqQueue
<1>3. CASE \E c \in Bufs : DQBuf(c)
  BY <1>t, <1>w, <1>3 DEF DQBuf
<1>4. CASE \E n \in nodes : StreamOff(n)
  BY <1>w, <1>4 DEF StreamOff
<1>5. CASE \E f \in 1 .. MaxSeq : HwFrame(f)
  BY <1>w, <1>5 DEF HwFrame
<1>6. CASE IrqMeta
  BY <1>w, <1>6 DEF IrqMeta
<1>7. CASE IrqJobDone
  <2> DEFINE h == Head(running_job_list)
  <2>1. /\ irq.pc = "jobs" /\ running_job_list # <<>> /\ filled' = filled
        /\ vb' = [b \in Bufs |-> IF b \in req[h].objs THEN JobState(h) ELSE vb[b]]
    BY <1>7 DEF IrqJobDone
  <2>2. h = running_job_list[1] /\ 1 \in 1 .. Len(running_job_list)
    BY <1>t, <2>1, HeadTailProperties, LenProperties, EmptySeq
  <2>3. ~stopping /\ irq.frame = hw.frame /\ FirstJob = 1
    BY <1>t, <2>1 DEF PhaseInv, FirstJob
  <2>4. req[h].seq = hw.frame => req[h].objs \subseteq filled
    BY <2>2, <2>3 DEF FrameInv, Regular
  <2> HIDE DEF h
  <2> QED
    BY <1>w, <2>1, <2>3, <2>4 DEF JobState
<1>8. CASE UNCHANGED <<vb, filled>>
  BY <1>w, <1>8
<1>9. CASE \/ \E r \in Reqs : ReqAlloc(r) \/ ReqReinit(r) \/ ReqClose(r)
           \/ \E n \in nodes : StreamOn(n)
           \/ IrqEnter \/ IrqListDel \/ IrqJobsEnd \/ IrqTryQueue
           \/ UNCHANGED sysVars
  <2>1. UNCHANGED <<vb, filled>>
    BY <1>9 DEF ReqAlloc, ReqReinit, ReqClose, StreamOn, IrqEnter, IrqListDel, IrqJobsEnd,
       IrqTryQueue, bufVars, sysVars
  <2> QED
    BY <1>8, <2>1
<1> QED
  BY <1>1, <1>2, <1>3, <1>4, <1>5, <1>6, <1>7, <1>9
     DEF RequestsStep, DriverStep, UserStep, Irq
-----------------------------------------------------------------------------
(***************************************************************************)
(* bridge.c                                                                *)
(***************************************************************************)
\* Freeing changes no reference and allocates nothing.
LEMMA CollectRefers ==
  ASSUME NEW q \in [Reqs -> Request], NEW r \in Reqs
  PROVE  /\ Collect(q)[r].fd = q[r].fd /\ Collect(q)[r].refs = q[r].refs
         /\ q[r].st = "free" => Collect(q)[r].st = "free"
<1>1. q[r].fd \in BOOLEAN
  <2>1. q[r] \in Request
    OBVIOUS
  <2> QED
    BY <2>1 DEF Request
<1>2. Collect(q)[r] = IF q[r].st # "queued" /\ ~q[r].fd /\ q[r].refs = {}
                      THEN FreeReq ELSE q[r]
  BY CollectKeeps
<1>3. CASE q[r].st # "queued" /\ ~q[r].fd /\ q[r].refs = {}
  <2>1. q[r].fd = FALSE
    BY <1>1, <1>3
  <2>2. Collect(q)[r].fd = FALSE /\ Collect(q)[r].refs = {} /\ Collect(q)[r].st = "free"
    BY <1>2, <1>3 DEF FreeReq
  <2> QED
    BY <1>3, <2>1, <2>2
<1>4. CASE ~(q[r].st # "queued" /\ ~q[r].fd /\ q[r].refs = {})
  BY <1>2, <1>4
<1> QED
  BY <1>3, <1>4

\* While it streams without META_OUT_0, the driver refers to no more than before
\* and leaves buffers alone that it does not own.
LEMMA DriverKeeps ==
  ASSUME TypeInv, BindInv, PhaseInv, DriverStep, Bufs' = Bufs, Aao \notin nodes
  PROVE  /\ streaming = 1 /\ on' = on
         /\ \A r \in Reqs : /\ req'[r].fd = req[r].fd
                            /\ req'[r].refs \subseteq req[r].refs
                            /\ req[r].st = "free" => req'[r].st = "free"
         /\ \A b \in Bufs : vb[b] \in {"dequeued", "done", "error"} => vb'[b] = vb[b]
<1>t. /\ req \in [Reqs -> Request] /\ vb \in [Bufs -> BufStates]
      /\ pending_job_list \in Seq(Reqs) /\ running_job_list \in Seq(Reqs)
      /\ running_job_count \in Int /\ enqueued_frame_seq_no \in Nat
      /\ streaming \in {0, 1}
  BY DEF TypeInv
<1>s. streaming = 1
  BY <1>t DEF DriverStep, Irq, HwFrame, IrqEnter, IrqMeta, IrqJobDone, IrqListDel,
     IrqJobsEnd, IrqTryQueue, PhaseInv, HwOff
<1>1. CASE UNCHANGED <<on, req, vb>>
  BY <1>s, <1>1
<1>2. CASE (\E f \in 1 .. MaxSeq : HwFrame(f)) \/ IrqEnter \/ IrqMeta \/ IrqListDel
           \/ IrqJobsEnd
  BY <1>1, <1>2 DEF HwFrame, IrqEnter, IrqMeta, IrqListDel, IrqJobsEnd, runVars, bufVars
<1>3. CASE IrqJobDone
  <2> DEFINE h == Head(running_job_list)
             mine == req[h].objs
             q == Unbind(req, mine)
  <2>1. /\ running_job_list # <<>> /\ on' = on /\ req' = Collect(q)
        /\ vb' = [b \in Bufs |-> IF b \in mine THEN JobState(h) ELSE vb[b]]
    BY <1>3 DEF IrqJobDone, runVars
  <2>2. h \in Reqs
    BY <1>t, <2>1, HeadTailProperties
  <2>3. \A b \in mine : vb[b] \in {"in_request", "active"}
    BY <2>2 DEF BindInv, Bound
  <2> HIDE DEF mine
  <2>4. /\ q \in [Reqs -> Request]
        /\ \A r \in Reqs : /\ q[r].fd = req[r].fd /\ q[r].refs = req[r].refs
                           /\ req[r].st = "free" => q[r].st = "free"
    BY <1>t, UnbindKeeps
  <2> HIDE DEF q
  <2>5. \A r \in Reqs : /\ req'[r].fd = req[r].fd /\ req'[r].refs = req[r].refs
                        /\ req[r].st = "free" => req'[r].st = "free"
    BY <2>1, <2>4, CollectRefers
  <2> QED
    BY <1>s, <2>1, <2>3, <2>5
<1>4. CASE IrqTryQueue
  <2>1. /\ on' = on /\ vb' = vb
        /\ TryQueue(pending_job_list, running_job_list, running_job_count, req,
                    enqueued_frame_seq_no)
    BY <1>4, <1>s DEF IrqTryQueue, runVars, bufVars
  <2>2. Renumbered(req)
    BY <1>t, <2>1, TryQueueEffect
  <2>3. \A r \in Reqs : req[r] \in Request
    BY <1>t
  <2>4. \A r \in Reqs : /\ req'[r].fd = req[r].fd /\ req'[r].refs = req[r].refs
                        /\ req'[r].st = req[r].st
    BY <2>2, <2>3 DEF Renumbered, Request
  <2> QED
    BY <1>s, <2>1, <2>4
<1> QED
  BY <1>2, <1>3, <1>4 DEF DriverStep, Irq

LEMMA BridgeStep ==
  ASSUME TypeInv, BindInv, PhaseInv, BridgeInv, [Next]_allVars
  PROVE  BridgeInv'
<1>a. RequestsStep
  BY NextRequests
<1>g. /\ Bufs' = Bufs /\ nodes' = nodes /\ \A F : Without(F)' = Without(F)
  BY <1>a, GivenStays
<1>v. client' = client
  BY DEF Next, allVars
<1> SUFFICES ASSUME client = "bridge" PROVE BridgeInv'
  BY <1>v DEF BridgeInv
<1>t. /\ req \in [Reqs -> Request] /\ vb \in [Bufs -> BufStates]
      /\ pending_job_list \in Seq(Reqs) /\ running_job_list \in Seq(Reqs)
      /\ running_job_count \in Int /\ enqueued_frame_seq_no \in Nat
      /\ streaming \in {0, 1}
  BY DEF TypeInv
<1>r. req \in [Reqs -> Request]
  BY <1>t
<1>m. /\ Bufs = {Buf0} /\ nodes = {Main} /\ Aao \notin nodes /\ Node(Buf0) = Main
      /\ Buf0 \in Bufs
  BY DEF BridgeInv, nodes, Node, Buf0, Main, Aao
<1>b. /\ pc \in {"streamon", "loop", "alloc", "streamoff", "exit"} \cup TurnPC
      /\ run \in BOOLEAN
      /\ on = IF pc \in {"streamon", "exit"} THEN {} ELSE {Main}
      /\ \A r \in Reqs : req[r].fd <=> pc \in TurnPC /\ r = req_fd
      /\ pc \in TurnPC => req_fd \in Reqs
  BY DEF BridgeInv
<1>x. pc \in {"streamon", "exit"} =>
         /\ \A r \in Reqs : req[r].st = "free"
         /\ vb[Buf0] = "dequeued"
         /\ pending_job_list = <<>> /\ running_job_list = <<>>
  BY DEF BridgeInv, AllFree
<1>w. Without({"timeout"}) =>
         /\ pc = "alloc" \/ (pc = "loop" /\ run) =>
              /\ \A r \in Reqs : req[r].st = "free"
              /\ vb[Buf0] = "dequeued"
         /\ pc \in TurnPC => \A r \in Reqs \ {req_fd} : req[r].st = "free"
         /\ pc = "dqbuf" => vb[Buf0] \in {"done", "error"}
         /\ pc = "process" => vb[Buf0] = "dequeued" /\ req[req_fd].refs = {}
  BY DEF BridgeInv, AllFree
<1>f. \A r \in Reqs : req[r].refs \subseteq {Buf0} /\ req[r].objs \subseteq {Buf0}
  BY <1>r, <1>m DEF Request
<1> USE DEF TurnPC
<1>i. ASSUME pc' \in {"streamon", "loop", "alloc", "streamoff", "exit"} \cup TurnPC,
             run' \in BOOLEAN,
             on' = IF pc' \in {"streamon", "exit"} THEN {} ELSE {Main},
             \A r \in Reqs : req'[r].fd <=> pc' \in TurnPC /\ r = req_fd',
             pc' \in TurnPC => req_fd' \in Reqs,
             pc' \in {"streamon", "exit"} =>
               /\ \A r \in Reqs : req'[r].st = "free"
               /\ vb'[Buf0] = "dequeued"
               /\ pending_job_list' = <<>> /\ running_job_list' = <<>>,
             Without({"timeout"}) =>
               /\ pc' = "alloc" \/ (pc' = "loop" /\ run') =>
                    /\ \A r \in Reqs : req'[r].st = "free"
                    /\ vb'[Buf0] = "dequeued"
               /\ pc' \in TurnPC => \A r \in Reqs \ {req_fd'} : req'[r].st = "free"
               /\ pc' = "dqbuf" => vb'[Buf0] \in {"done", "error"}
               /\ pc' = "process" => vb'[Buf0] = "dequeued" /\ req'[req_fd'].refs = {}
      PROVE  BridgeInv'
  BY <1>g, <1>m, <1>i DEF BridgeInv, AllFree, Buf0
<1>1. CASE UNCHANGED allVars
  BY <1>1, <1>i, <1>b, <1>x, <1>w DEF allVars, vars, sysVars, runVars, bufVars, jobVars,
     bridgeVars
<1>2. CASE DriverStep /\ UNCHANGED bridgeVars
  <2>1. /\ streaming = 1 /\ on' = on
        /\ \A r \in Reqs : /\ req'[r].fd = req[r].fd
                           /\ req'[r].refs \subseteq req[r].refs
                           /\ req[r].st = "free" => req'[r].st = "free"
        /\ \A b \in Bufs : vb[b] \in {"dequeued", "done", "error"} => vb'[b] = vb[b]
    BY <1>2, <1>g, <1>m, DriverKeeps
  <2>2. pc \notin {"streamon", "exit"}
    BY <1>b, <1>m, <2>1 DEF PhaseInv
  <2>3. UNCHANGED <<pc, run, req_fd>>
    BY <1>2 DEF bridgeVars
  <2>4. ASSUME Without({"timeout"})
        PROVE  /\ pc' = "alloc" \/ (pc' = "loop" /\ run') =>
                    /\ \A r \in Reqs : req'[r].st = "free"
                    /\ vb'[Buf0] = "dequeued"
               /\ pc' \in TurnPC => \A r \in Reqs \ {req_fd'} : req'[r].st = "free"
               /\ pc' = "dqbuf" => vb'[Buf0] \in {"done", "error"}
               /\ pc' = "process" => vb'[Buf0] = "dequeued" /\ req'[req_fd'].refs = {}
    BY <1>b, <1>m, <1>w, <2>1, <2>3, <2>4
  <2> QED
    BY <1>b, <1>i, <2>1, <2>2, <2>3, <2>4
<1>3. CASE BridgeStreamOn
  <2> DEFINE count == IF on = {} THEN 0 ELSE running_job_count
             seq == IF on = {} THEN 0 ELSE enqueued_frame_seq_no
  <2>1. count \in Int /\ seq \in Nat
    BY <1>t
  <2>2. /\ pc = "streamon" /\ pc' = "loop" /\ UNCHANGED <<run, req_fd>>
        /\ on' = {Main} /\ vb' = vb
        /\ \/ TryQueue(pending_job_list, running_job_list, count, req, seq)
           \/ UNCHANGED req
    BY <1>3, <1>b DEF BridgeStreamOn, StreamOn, Goto, bufVars
  <2> HIDE DEF count, seq
  <2>3. \A r \in Reqs : req'[r].fd = req[r].fd /\ req'[r].st = req[r].st
    <3>1. CASE TryQueue(pending_job_list, running_job_list, count, req, seq)
      <4>1. Renumbered(req)
        BY <1>t, <2>1, <3>1, TryQueueEffect
      <4>2. \A r \in Reqs : req[r] \in Request
        BY <1>r
      <4> QED
        BY <4>1, <4>2 DEF Renumbered, Request
    <3> QED
      BY <2>2, <3>1
  <2> QED
    BY <1>b, <1>i, <1>x, <2>2, <2>3
<1>4. CASE BridgeLoop \/ BridgeNoMemory \/ BridgePoll \/ BridgeStart \/ Signal
  <2>1. UNCHANGED <<on, req, vb, pending_job_list, running_job_list, req_fd>>
    BY <1>4 DEF BridgeLoop, BridgeNoMemory, BridgePoll, BridgeStart, Signal, Goto, sysVars,
       runVars, bufVars, jobVars
  <2>2. \/ pc = "loop" /\ run /\ pc' = "alloc" /\ run' = run
        \/ pc = "loop" /\ pc' = "streamoff" /\ run' = run
        \/ pc = "alloc" /\ pc' = "streamoff" /\ run' = run
        \/ pc = "poll" /\ pc' = "dqbuf" /\ run' = run /\ vb[Buf0] \in {"done", "error"}
        \/ pc = "exit" /\ pc' = "streamon" /\ run' = TRUE
        \/ pc \notin {"exit", "streamon"} /\ pc' = pc /\ run' = FALSE
    BY <1>4, <1>b DEF BridgeLoop, BridgeNoMemory, BridgePoll, BridgeStart, Signal, Goto
  <2> QED
    BY <1>b, <1>i, <1>x, <1>w, <2>1, <2>2
<1>5. CASE BridgeAlloc
  <2>1. PICK r \in Reqs :
          /\ pc = "alloc" /\ pc' = "qbuf" /\ req_fd' = r /\ run' = run
          /\ on' = on /\ vb' = vb
          /\ req' = [req EXCEPT ![r] = [FreeReq EXCEPT !.st = "idle", !.fd = TRUE]]
    BY <1>5 DEF BridgeAlloc, ReqAlloc, runVars, bufVars
  <2>2. /\ \A s \in Reqs \ {r} : req'[s] = req[s]
        /\ req'[r].fd = TRUE
    BY <1>r, <2>1 DEF FreeReq
  <2> QED
    BY <1>b, <1>i, <1>w, <2>1, <2>2
<1>6. CASE BridgeQBuf
  <2>1. /\ pc = "qbuf" /\ pc' = "queue" /\ UNCHANGED <<run, req_fd, on>>
        /\ req' = [req EXCEPT ![req_fd].objs = @ \cup {Buf0}, ![req_fd].refs = @ \cup {Buf0}]
    BY <1>6 DEF BridgeQBuf, QBuf, Goto, runVars
  <2>2. \A s \in Reqs : req'[s].fd = req[s].fd /\ req'[s].st = req[s].st
    BY <1>r, <2>1 DEF Request
  <2> QED
    BY <1>b, <1>i, <1>w, <2>1, <2>2
<1>7. ASSUME NEW r \in Reqs, ReqClose(r)
      PROVE  /\ UNCHANGED <<on, vb>>
             /\ req'[r].fd = FALSE /\ \A s \in Reqs \ {r} : req'[s].fd = req[s].fd
             /\ \A s \in Reqs : req[s].st = "free" => req'[s].st = "free"
             /\ req[r].refs = {} => req'[r].st = "free"
  <2> DEFINE q == [req EXCEPT ![r].fd = FALSE]
  <2>1. UNCHANGED <<on, vb>> /\ req' = Collect(q)
    BY <1>7 DEF ReqClose, runVars, bufVars
  <2>2. /\ q \in [Reqs -> Request]
        /\ q[r].fd = FALSE /\ \A s \in Reqs \ {r} : q[s].fd = req[s].fd
        /\ \A s \in Reqs : q[s].st = req[s].st /\ q[s].refs = req[s].refs
    BY <1>r DEF Request
  <2> HIDE DEF q
  <2>3. req[r].refs = {} => req[r].st # "queued"
    BY DEF BindInv, Bound
  <2>4. req[r].refs = {} => req'[r].st = "free"
    BY <2>1, <2>2, <2>3, CollectKeeps DEF FreeReq
  <2>5. \A s \in Reqs : /\ req'[s].fd = q[s].fd
                        /\ q[s].st = "free" => req'[s].st = "free"
    BY <2>1, <2>2, CollectRefers
  <2> QED
    BY <2>1, <2>2, <2>4, <2>5
<1>8. CASE BridgeQBufFails
  <2>1. /\ pc = "qbuf" /\ pc' = "streamoff" /\ UNCHANGED <<run, req_fd>>
        /\ req_fd \in Reqs /\ ReqClose(req_fd)
    BY <1>8, <1>b DEF BridgeQBufFails, Goto
  <2> QED
    BY <1>b, <1>i, <1>7, <2>1
<1>9. CASE BridgeReqQueue
  <2> DEFINE q == [req EXCEPT ![req_fd].st = "queued", ![req_fd].dma = req[req_fd].objs]
             pending == Append(pending_job_list, req_fd)
  <2>1. /\ pc = "queue" /\ pc' = "poll" /\ UNCHANGED <<run, req_fd, on>>
        /\ req_fd \in Reqs
        /\ \/ TryQueue(pending, running_job_list, running_job_count, q,
                       enqueued_frame_seq_no)
           \/ NoTryQueue(pending, q)
    BY <1>9, <1>b DEF BridgeReqQueue, ReqQueue, Goto, runVars
  <2>2. /\ q \in [Reqs -> Request] /\ pending \in Seq(Reqs)
        /\ \A s \in Reqs : /\ q[s].fd = req[s].fd
                           /\ s # req_fd => q[s].st = req[s].st
    <3>1. pending \in Seq(Reqs)
      BY <1>t, <2>1, AppendProperties
    <3>2. /\ q \in [Reqs -> Request]
          /\ \A s \in Reqs : /\ q[s].fd = req[s].fd
                             /\ s # req_fd => q[s].st = req[s].st
      BY <1>r, <2>1 DEF Request
    <3> QED
      BY <3>1, <3>2
  <2> HIDE DEF q, pending
  <2>3. \A s \in Reqs : req'[s].fd = q[s].fd /\ req'[s].st = q[s].st
    <3>1. CASE TryQueue(pending, running_job_list, running_job_count, q,
                        enqueued_frame_seq_no)
      <4>1. Renumbered(q)
        BY <1>t, <2>2, <3>1, TryQueueEffect
      <4>2. \A s \in Reqs : q[s] \in Request
        BY <2>2
      <4> QED
        BY <4>1, <4>2 DEF Renumbered, Request
    <3>2. CASE NoTryQueue(pending, q)
      BY <3>2 DEF NoTryQueue
    <3> QED
      BY <2>1, <3>1, <3>2
  <2> QED
    BY <1>b, <1>i, <1>w, <2>1, <2>2, <2>3
<1>10. CASE BridgePollFails
  <2>1. /\ pc = "poll" /\ pc' = "loop" /\ req_fd' = NoReq
        /\ req_fd \in Reqs /\ ReqClose(req_fd)
        /\ Without({"timeout"}) => run' = FALSE
        /\ run' \in BOOLEAN
    BY <1>10, <1>b DEF BridgePollFails, Without
  <2> QED
    BY <1>b, <1>i, <1>7, <2>1
<1>11. CASE BridgeDQBuf
  <2> DEFINE q == [r \in Reqs |-> [req[r] EXCEPT !.refs = @ \ {Buf0}]]
  <2>1. /\ pc = "dqbuf" /\ pc' = "process" /\ UNCHANGED <<run, req_fd, on>>
        /\ vb' = [vb EXCEPT ![Buf0] = "dequeued"] /\ req' = Collect(q)
        /\ req_fd \in Reqs
    BY <1>11, <1>b DEF BridgeDQBuf, DQBuf, Goto, runVars
  <2>2. /\ q \in [Reqs -> Request]
        /\ \A s \in Reqs : /\ q[s].fd = req[s].fd /\ q[s].st = req[s].st
                           /\ q[s].refs = req[s].refs \ {Buf0}
    BY <1>r DEF Request
  <2> HIDE DEF q
  <2>3. \A s \in Reqs : /\ req'[s].fd = req[s].fd
                        /\ req[s].st = "free" => req'[s].st = "free"
                        /\ req'[s].refs = {}
    BY <1>f, <2>1, <2>2, CollectRefers
  <2>4. vb'[Buf0] = "dequeued"
    BY <1>t, <1>m, <2>1
  <2> QED
    BY <1>b, <1>i, <1>w, <2>1, <2>3, <2>4
<1>12. CASE BridgeClose
  <2>1. /\ pc = "process" /\ pc' = "loop" /\ req_fd' = NoReq /\ run' = run
        /\ req_fd \in Reqs /\ ReqClose(req_fd)
    BY <1>12, <1>b DEF BridgeClose
  <2> QED
    BY <1>b, <1>i, <1>w, <1>7, <2>1
<1>13. CASE BridgeStreamOff
  <2> DEFINE mine == {b \in Bufs : Node(b) = Main}
             q == Unbind(req, mine)
             p == [r \in Reqs |-> [q[r] EXCEPT !.refs = @ \ mine]]
  <2>1. /\ pc = "streamoff" /\ pc' = "exit" /\ run' = run
        /\ on' = on \ {Main}
        /\ on' = {} => pending_job_list' = <<>> /\ running_job_list' = <<>>
        /\ req' = Collect(p)
        /\ vb' = [b \in Bufs |-> IF b \in mine THEN "dequeued" ELSE vb[b]]
    BY <1>13 DEF BridgeStreamOff, StreamOff, ReqCleanup
  <2>2. mine = {Buf0}
    BY <1>m
  <2>3. on' = {} /\ vb'[Buf0] = "dequeued"
    BY <1>b, <1>m, <2>1, <2>2
  <2> HIDE DEF mine
  <2>4. /\ q \in [Reqs -> Request]
        /\ \A r \in Reqs : /\ q[r].fd = req[r].fd /\ q[r].refs = req[r].refs
                           /\ q[r].st # "queued"
    <3>1. ASSUME NEW r \in Reqs PROVE req[r].objs \ mine = {}
      BY <1>f, <2>2
    <3> QED
      BY <1>r, <3>1, UnbindKeeps
  <2> HIDE DEF q
  <2>5. /\ p \in [Reqs -> Request]
        /\ \A s \in Reqs : /\ p[s].fd = q[s].fd /\ p[s].st = q[s].st
                           /\ p[s].refs = q[s].refs \ mine
    BY <2>4 DEF Request
  <2> HIDE DEF p
  <2>6. \A s \in Reqs : ~p[s].fd /\ p[s].refs = {} /\ p[s].st # "queued"
    BY <1>b, <1>f, <2>1, <2>2, <2>4, <2>5
  <2>7. \A s \in Reqs : req'[s] = FreeReq
    BY <2>1, <2>5, <2>6, CollectKeeps
  <2> QED
    BY <1>b, <1>i, <2>1, <2>3, <2>7 DEF FreeReq
<1> QED
  BY <1>1, <1>2, <1>3, <1>4, <1>5, <1>6, <1>8, <1>9, <1>10, <1>11, <1>12, <1>13
     DEF Next, BridgeCall

-----------------------------------------------------------------------------
(***************************************************************************)
(* The theorems.                                                           *)
(***************************************************************************)
LEMMA BridgeInit == Init => RequestsInv /\ BridgeInv
<1> SUFFICES ASSUME Init PROVE RequestsInv /\ BridgeInv
  OBVIOUS
<1> USE DEF Init, RequestsInit
<1>1. TypeInv
  <2>1. req \in [Reqs -> Request]
    BY DEF FreeReq, Request
  <2>2. pending_job_list \in Seq(Reqs) /\ running_job_list \in Seq(Reqs)
    BY EmptySeq
  <2>3. irq \in [pc : IrqPC, frame : Nat, cur : Reqs \cup {NoReq}] /\ irq.pc = "idle"
    BY DEF IrqIdle, IrqPC
  <2>4. hw \in [frame : Nat, done : BOOLEAN]
    BY DEF HwOff
  <2>5. /\ vb \in [Bufs -> BufStates]
        /\ buf_list \in [nodes -> SUBSET Bufs]
        /\ \A n \in nodes : \A b \in buf_list[n] : Node(b) = n
    BY DEF BufStates
  <2>6. /\ on \subseteq nodes /\ stopping \in BOOLEAN /\ streaming \in {0, 1}
        /\ filled \subseteq Bufs
        /\ running_job_count \in Int /\ enqueued_frame_seq_no \in Nat
    <3>1. stopping \in BOOLEAN
      BY Zenon
    <3>2. /\ streaming = 0 /\ running_job_count = 0 /\ enqueued_frame_seq_no = 0
          /\ on = {} /\ filled = {}
      BY Zenon
    <3> QED
      BY ONLY <3>1, <3>2
  <2>7. irq.pc # "del"
    BY <2>3
  <2> QED
    BY ONLY <2>1, <2>2, <2>3, <2>4, <2>5, <2>6, <2>7 DEF TypeInv
<1>2. BindInv
  BY DEF BindInv, Bound, Collected, FreeReq
<1>3. PhaseInv
  BY DEF PhaseInv, IrqIdle, HwOff
<1>4. Len(pending_job_list) = 0 /\ Len(running_job_list) = 0 /\ irq.pc = "idle"
  BY DEF IrqIdle
<1>5. ListInv
  BY <1>4 DEF ListInv, Placed, FirstJob
<1>6. FrameInv
  BY <1>4 DEF FrameInv, FirstJob, HwOff
<1>7. WrittenInv
  BY DEF WrittenInv
<1>8. BridgeInv
  <2>1. client = "bridge" => Bufs = {Buf0} /\ Buf0 \in Bufs
    BY DEF Buf0
  <2> QED
    BY <2>1 DEF BridgeInv, TurnPC, AllFree, FreeReq
<1> QED
  BY <1>1, <1>2, <1>3, <1>5, <1>6, <1>7, <1>8 DEF RequestsInv

\* The inductive invariant of the driver and its users.
THEOREM RequestsAlways == Spec => [](RequestsInv /\ BridgeInv)
<1>1. ASSUME RequestsInv, BridgeInv, [Next]_allVars
      PROVE  RequestsInv' /\ BridgeInv'
  <2>1. RequestsStep
    BY <1>1, NextRequests
  <2>2. TypeInv /\ BindInv /\ PhaseInv /\ ListInv /\ FrameInv /\ WrittenInv
    BY <1>1 DEF RequestsInv
  <2>3. TypeInv' /\ BindInv' /\ PhaseInv' /\ ListInv' /\ FrameInv' /\ WrittenInv'
    BY <2>1, <2>2, TypeStep, BindStep, PhaseStep, ListStep, FrameStep, WrittenStep
  <2>4. BridgeInv'
    BY <1>1, <2>2, BridgeStep
  <2> QED
    BY <2>3, <2>4 DEF RequestsInv
<1> QED
  BY <1>1, BridgeInit, PTL DEF Spec

\* Every request in a list of the driver is allocated, and queued or completed by
\* the handler that is about to unlink it, and is in one place of one list, for
\* users that do not interfere (mtk_cam_req_queue, mtk_cam_dev_req_try_queue,
\* mtk_cam_dev_dequeue_req_frame, mtk_cam_dev_req_cleanup).
THEOREM ListedAlwaysAlive == Spec => []ListedAlive
<1>1. RequestsInv => ListedAlive
  <2> SUFFICES ASSUME RequestsInv, Without({"window", "partial"}),
                      Aao \in nodes => nodes # {Aao} /\ ~stopping
               PROVE  LET jobs == pending_job_list \o running_job_list
                      IN  /\ IsInjective(jobs)
                          /\ \A i \in DOMAIN jobs :
                               req[jobs[i]].st \in {"queued", "complete"}
    BY DEF ListedAlive
  <2> DEFINE P == pending_job_list
             R == running_job_list
             jobs == P \o R
  <2>1. Regular
    BY DEF Regular, Without
  <2>2. P \in Seq(Reqs) /\ R \in Seq(Reqs)
    BY DEF RequestsInv, TypeInv
  <2>3. /\ \A i \in 1 .. Len(P) : req[P[i]].st = "queued"
        /\ \A i \in FirstJob .. Len(R) : req[R[i]].st = "queued"
        /\ irq.pc = "del" => req[R[1]].st = "complete"
        /\ Placed(P, R)
    BY <2>1 DEF RequestsInv, ListInv, Held
  <2>4. Len(P) \in Nat /\ Len(R) \in Nat
    BY <2>2, LenProperties
  <2> HIDE DEF P, R
  <2>5. \A i \in 1 .. Len(R) : req[R[i]].st \in {"queued", "complete"}
    BY <2>3, <2>4 DEF FirstJob
  <2>6. /\ DOMAIN jobs = 1 .. Len(P) + Len(R)
        /\ \A i \in 1 .. Len(P) : jobs[i] = P[i]
        /\ \A i \in 1 .. Len(R) : jobs[Len(P) + i] = R[i]
    <3>1. /\ jobs \in Seq(Reqs) /\ Len(jobs) = Len(P) + Len(R)
          /\ \A i \in 1 .. Len(P) : jobs[i] = P[i]
          /\ \A i \in 1 .. Len(R) : jobs[Len(P) + i] = R[i]
      BY <2>2, ConcatElements
    <3> HIDE DEF jobs
    <3>2. DOMAIN jobs = 1 .. Len(jobs)
      BY <3>1, LenProperties
    <3> QED
      BY <3>1, <3>2
  <2> HIDE DEF jobs
  <2>7. ASSUME NEW i \in DOMAIN jobs
        PROVE  \/ i \in 1 .. Len(P) /\ jobs[i] = P[i]
               \/ /\ i \notin 1 .. Len(P) /\ i - Len(P) \in 1 .. Len(R)
                  /\ jobs[i] = R[i - Len(P)] /\ i \in Int
    <3>1. i \in 1 .. Len(P) + Len(R)
      BY <2>6
    <3>2. CASE i <= Len(P)
      BY <2>4, <2>6, <3>1, <3>2
    <3>3. CASE i > Len(P)
      <4>1. i - Len(P) \in 1 .. Len(R) /\ Len(P) + (i - Len(P)) = i /\ i \notin 1 .. Len(P)
        BY <2>4, <3>1, <3>3
      <4> QED
        BY <2>6, <3>1, <4>1
    <3> QED
      BY <2>4, <3>1, <3>2, <3>3
  <2>8. ASSUME NEW i \in DOMAIN jobs, NEW j \in DOMAIN jobs, jobs[i] = jobs[j]
        PROVE  i = j
    <3>1. CASE i \in 1 .. Len(P) /\ j \in 1 .. Len(P)
      BY <2>3, <2>7, <2>8, <3>1 DEF Placed
    <3>2. CASE i \notin 1 .. Len(P) /\ j \notin 1 .. Len(P)
      <4>1. i - Len(P) = j - Len(P) /\ i \in Int /\ j \in Int
        BY <2>3, <2>7, <2>8, <3>2 DEF Placed
      <4> QED
        BY <2>4, <4>1
    <3>3. CASE i \in 1 .. Len(P) /\ j \notin 1 .. Len(P)
      BY <2>3, <2>7, <2>8, <3>3 DEF Placed
    <3>4. CASE i \notin 1 .. Len(P) /\ j \in 1 .. Len(P)
      BY <2>3, <2>7, <2>8, <3>4 DEF Placed
    <3> QED
      BY <3>1, <3>2, <3>3, <3>4
  <2>9. \A i \in DOMAIN jobs : req[jobs[i]].st \in {"queued", "complete"}
    BY <2>3, <2>5, <2>7
  <2> QED
    BY <2>8, <2>9 DEF IsInjective, jobs, P, R
<1> QED
  BY <1>1, RequestsAlways, PTL

\* Without META_OUT_0 a buffer that is returned without error has been written by
\* the ISP, and the ISP will write into no buffer the user holds (JobState,
\* mtk_cam_dev_job_done).
THEOREM WrittenAlways == Spec => []WrittenBeforeReturned
<1>1. RequestsInv => WrittenBeforeReturned
  <2> SUFFICES ASSUME RequestsInv, Aao \notin nodes, Without({"window"})
               PROVE  /\ \A b \in Bufs : vb[b] = "done" => b \in filled
                      /\ streaming = 1 /\ irq.pc = "idle" =>
                           \A i \in DOMAIN running_job_list :
                             LET r == req[running_job_list[i]]
                             IN  r.seq > hw.frame => \A b \in r.dma : vb[b] = "active"
    BY DEF WrittenBeforeReturned
  <2>1. \A b \in Bufs : vb[b] = "done" => b \in filled
    BY DEF RequestsInv, WrittenInv
  <2>2. ASSUME streaming = 1, irq.pc = "idle", NEW i \in DOMAIN running_job_list
        PROVE  \A b \in req[running_job_list[i]].dma : vb[b] = "active"
    <3>1. ~stopping
      BY <2>2 DEF RequestsInv, PhaseInv
    <3>2. Regular /\ FirstJob = 1
      BY <2>2, <3>1 DEF Regular, FirstJob
    <3>3. running_job_list \in Seq(Reqs)
      BY DEF RequestsInv, TypeInv
    <3>4. i \in 1 .. Len(running_job_list) /\ running_job_list[i] \in Reqs
      BY <2>2, <3>3, ElementOfSeq, LenProperties
    <3>5. Held(req[running_job_list[i]])
      BY <3>2, <3>4 DEF RequestsInv, ListInv
    <3>6. /\ req[running_job_list[i]].st = "queued"
          /\ req[running_job_list[i]].objs = req[running_job_list[i]].dma
      BY <3>1, <3>5 DEF Held
    <3> QED
      BY <3>4, <3>6 DEF RequestsInv, BindInv, Bound
  <2> QED
    BY <2>1, <2>2
<1> QED
  BY <1>1, RequestsAlways, PTL

\* bridge.c leaves no request behind when it exits, whatever happened, and begins
\* each turn with its buffer dequeued and nothing allocated unless poll timed out.
THEOREM BridgeAlwaysLeavesNothing == Spec => []BridgeLeavesNothing
<1>1. BridgeInv => BridgeLeavesNothing
  BY DEF BridgeInv, BridgeLeavesNothing
<1> QED
  BY <1>1, RequestsAlways, PTL
=============================================================================
