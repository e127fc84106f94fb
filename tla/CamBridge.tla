----------------------------- MODULE CamBridge -----------------------------
(***************************************************************************)
(* The users of CamRequests: any program, or tools/bridge.c, which copies  *)
(* frames of the main stream to a loopback device with one buffer and one  *)
(* request at a time.                                                      *)
(***************************************************************************)
EXTENDS CamRequests

CONSTANT Clients  \* subset of {"any", "bridge"}

VARIABLES
  client,  \* who uses the driver, chosen once
  pc,      \* the next call of bridge.c
  run,     \* the flag cleared by SIGINT and SIGTERM
  req_fd   \* the request of this turn

bridgeVars == <<pc, run, req_fd>>
allVars == <<vars, client, bridgeVars>>

\* bridge.c queues index 0 only.
Buf0 == <<Main, 0>>

\* The faults of a behaviour are those its user can meet.
Init ==
  /\ RequestsInit
  /\ client \in Clients
  /\ \/ client = "any" /\ Without({"timeout", "alloc"})
     \/ client = "bridge" /\ Bufs = {Buf0} /\ Without({"partial"})
  /\ pc = "streamon" /\ run = TRUE /\ req_fd = NoReq

Goto(p) == pc' = p /\ UNCHANGED <<run, req_fd>>

BridgeStreamOn ==
  /\ pc = "streamon"
  /\ StreamOn(Main)
  /\ Goto("loop")

\* while (run)
BridgeLoop ==
  /\ pc = "loop"
  /\ Goto(IF run THEN "alloc" ELSE "streamoff")
  /\ UNCHANGED sysVars

BridgeAlloc ==
  /\ pc = "alloc"
  /\ \E r \in Reqs : /\ ReqAlloc(r)
                     /\ req_fd' = r
  /\ pc' = "qbuf"
  /\ UNCHANGED run

\* CK returns from main; the exit closes the device like STREAMOFF.
BridgeNoMemory ==
  /\ pc = "alloc"
  /\ "alloc" \in faults
  /\ Goto("streamoff")
  /\ UNCHANGED sysVars

BridgeQBuf ==
  /\ pc = "qbuf"
  /\ QBuf(Buf0, req_fd)
  /\ Goto("queue")

\* vb2 refuses a buffer that was not dequeued; bridge.c closes the request and
\* leaves the loop.
BridgeQBufFails ==
  /\ pc = "qbuf"
  /\ vb[Buf0] # "dequeued"
  /\ ReqClose(req_fd)
  /\ Goto("streamoff")

BridgeReqQueue ==
  /\ pc = "queue"
  /\ ReqQueue(req_fd)
  /\ Goto("poll")

BridgePoll ==
  /\ pc = "poll"
  /\ vb[Buf0] \in {"done", "error"}
  /\ Goto("dqbuf")
  /\ UNCHANGED sysVars

\* poll() times out, or returns EINTR because of a signal: the request is
\* closed and the next turn begins.
BridgePollFails ==
  /\ pc = "poll"
  /\ \/ "timeout" \in faults /\ UNCHANGED run
     \/ run' = FALSE
  /\ ReqClose(req_fd)
  /\ pc' = "loop"
  /\ req_fd' = NoReq

BridgeDQBuf ==
  /\ pc = "dqbuf"
  /\ DQBuf(Buf0)
  /\ Goto("process")

MutBridgeClose ==
  /\ pc = "process"
  /\ pc' = "loop"
  /\ req_fd' = NoReq
  /\ UNCHANGED <<run, sysVars>>

\* The frame is converted and written; the request is closed.
BridgeClose ==
  /\ pc = "process"
  /\ ReqClose(req_fd)
  /\ pc' = "loop"
  /\ req_fd' = NoReq
  /\ UNCHANGED run

BridgeStreamOff ==
  /\ pc = "streamoff"
  /\ StreamOff(Main)
  /\ pc' = "exit"
  /\ req_fd' = NoReq
  /\ UNCHANGED run

\* The program is started again.
BridgeStart ==
  /\ pc = "exit"
  /\ pc' = "streamon" /\ run' = TRUE
  /\ UNCHANGED <<req_fd, sysVars>>

\* onint() outside of poll().
Signal ==
  /\ run /\ pc \notin {"poll", "exit", "streamon"}
  /\ run' = FALSE
  /\ UNCHANGED <<pc, req_fd, sysVars>>

BridgeCall ==
  \/ BridgeStreamOn \/ BridgeLoop \/ BridgeAlloc \/ BridgeNoMemory
  \/ BridgeQBuf \/ BridgeQBufFails \/ BridgeReqQueue \/ BridgePoll
  \/ BridgeDQBuf \/ BridgeClose \/ BridgeStreamOff

Next ==
  /\ \/ DriverStep /\ UNCHANGED bridgeVars
     \/ client = "any" /\ UserStep /\ UNCHANGED bridgeVars
     \/ client = "bridge" /\ (BridgeCall \/ BridgePollFails \/ BridgeStart \/ Signal)
  /\ UNCHANGED <<given, client>>

\* The ISP delivers frames while requests run, the processor serves
\* interrupts and bridge.c makes its next call; no timeout and no signal has
\* to happen.
Fairness ==
  /\ WF_allVars(DriverStep /\ UNCHANGED <<given, client, bridgeVars>>)
  /\ WF_allVars(client = "bridge" /\ BridgeCall /\ UNCHANGED <<given, client>>)

Spec == Init /\ [][Next]_allVars /\ Fairness

-----------------------------------------------------------------------------
(***************************************************************************)
(* Properties of bridge.c on this driver.                                  *)
(***************************************************************************)
AllFree == \A r \in Reqs : req[r].st = "free"

\* Whatever happened, a signal in the middle of poll included, the exit of
\* bridge.c leaves no request allocated and none in a list of the driver.  Each
\* turn begins with its buffer dequeued and no request left over, so that QBUF
\* accepts index 0 again; only after a timeout of poll "continue" meets the
\* buffer the driver still owns, and the program ends.
BridgeLeavesNothing ==
  client = "bridge" =>
    /\ pc = "exit" =>
         AllFree /\ pending_job_list = <<>> /\ running_job_list = <<>>
    /\ pc = "alloc" /\ Without({"timeout"}) =>
         AllFree /\ vb[Buf0] = "dequeued"

\* While it is not told to stop and poll does not time out, bridge.c gets one
\* frame after the other, up to the bound of the model.
BridgeDelivers ==
  (client = "bridge" /\ pc = "loop" /\ run /\ Without({"timeout", "alloc"}))
    ~> (pc = "process" \/ ~run \/ enqueued_frame_seq_no = MaxSeq)
=============================================================================
