----------------------------- MODULE CamStream -----------------------------
(***************************************************************************)
(* Starting and stopping the ISP pipeline: the streaming life cycle of all *)
(* video nodes (camera/driver/cam/mtk_cam.c), the power and firmware       *)
(* references of the hardware layer (mtk_cam-hw.c) and system sleep.       *)
(*                                                                         *)
(* The V4L2 core runs STREAMON and STREAMOFF of all nodes one at a time    *)
(* (req_queue_mutex; the driver adds op_lock), so one operation is under   *)
(* way at a time.  Each call it makes is a step, each goto label a phase:  *)
(* what a failure in the middle undoes is what the code undoes.            *)
(***************************************************************************)
EXTENDS Integers, FiniteSets

CONSTANTS
  Nodes,     \* video nodes; a node stands for its DMA port too
  Main,      \* the main stream, whose link is immutable and enabled
  NoNode,    \* no operation is under way
  MaxRefs,   \* bound: references that leaks may pile up
  FaultSets  \* sets of FaultKinds: each behaviour suffers the faults of one

(***************************************************************************)
(* "boot"     rproc_boot fails                                             *)
(* "register" scp_ipi_register fails                                       *)
(* "wq"       alloc_ordered_workqueue returns NULL                         *)
(* "clock"    the ISP clocks cannot be enabled                             *)
(* "start"    seninf, sensor or ISP configuration fails at stream on       *)
(* "stop"     the sensor refuses s_stream(0)                               *)
(* "partial"  the user stops a node before every enabled node has started  *)
(* "restart"  the user starts a stopped node while others still stream     *)
(* "window"   system sleep while the ISP is powered and does not stream:   *)
(*            within the autosuspend delay, or before the last node starts *)
(* "awake"    pm_runtime_force_suspend fails                               *)
(* "unbind"   the sensor interface's driver is unbound, at any time        *)
(***************************************************************************)
FaultKinds == {"boot", "register", "wq", "clock", "start", "stop", "partial",
               "restart", "window", "awake", "unbind"}

ASSUME StreamAssumption ==
  /\ IsFiniteSet(Nodes)
  /\ Main \in Nodes
  /\ NoNode \notin Nodes
  /\ MaxRefs \in Nat \ {0}
  /\ FaultSets \subseteq SUBSET FaultKinds

VARIABLES
  enabled,        \* nodes whose media link is enabled
  on,             \* nodes vb2 regards as streaming
  user,           \* the user is bringing nodes "up" or "down"
  pipeline,       \* the nodes' entities belong to a started pipeline
  stream_count,   \* cam->stream_count
  enabled_count,  \* cam->enabled_count
  enabled_dmas,   \* cam->enabled_dmas
  streaming,      \* cam->streaming
  bound,          \* cam->seninf is not NULL
  pulled,         \* the sensor interface was unbound while it was in use
  seninf,         \* runtime PM references of the sensor interface
  sensor,         \* the sensor streams
  isp,            \* ISP_CMD_STREAM is in force: TG view finder running
  rproc,          \* boot references of the SCP
  pm,             \* runtime PM references of the ISP
  wq,             \* composer_wq: NULL, live, or destroyed and dangling
  clk,            \* ISP clocks (runtime active)
  sleep,          \* system sleep: "no", "idle" (ISP was off), "forced"
  vf,             \* TG_VF_CON_VFDATA_EN and TG_SEN_MODE_CMOS_EN
  op,             \* the operation under way: its node and its next call
  faults          \* what may go wrong in this behaviour, chosen once

countVars == <<stream_count, enabled_count, enabled_dmas>>
devVars == <<streaming, seninf, sensor, isp>>
bindVars == <<bound, pulled>>
hwVars == <<rproc, pm, wq>>
powerVars == <<clk, sleep, vf>>
userVars == <<enabled, on, user>>
vars ==
  <<userVars, pipeline, countVars, devVars, bindVars, hwVars, powerVars, op,
    faults>>

OpIdle == [node |-> NoNode, pc |-> "idle"]
GoTo(pc) == op' = [op EXCEPT !.pc = pc]

Init ==
  /\ enabled = {Main}
  /\ on = {}
  /\ user = "up"
  /\ pipeline = 0
  /\ stream_count = 0
  /\ enabled_count = 0
  /\ enabled_dmas = {}
  /\ streaming = 0
  /\ bound = 1
  /\ pulled = 0
  /\ seninf = 0
  /\ sensor = 0
  /\ isp = 0
  /\ rproc = 0
  /\ pm = 0
  /\ wq = "null"
  /\ clk = 0
  /\ sleep = "no"
  /\ vf = 0
  /\ op = OpIdle
  /\ faults \in FaultSets

-----------------------------------------------------------------------------
(***************************************************************************)
(* Media links.  The media core refuses to change a link of a started      *)
(* pipeline.                                                               *)
(***************************************************************************)

\* mtk_cam_media_link_setup.
LinkSetup(n) ==
  /\ op.pc = "idle" /\ sleep = "no"
  /\ pipeline = 0
  /\ n # Main
  /\ enabled' = IF n \in enabled THEN enabled \ {n} ELSE enabled \cup {n}
  /\ UNCHANGED <<on, user, pipeline, countVars, devVars, hwVars, powerVars, op>>

-----------------------------------------------------------------------------
(***************************************************************************)
(* STREAMON: mtk_cam_vb2_start_streaming.                                  *)
(***************************************************************************)

MutStreamOn(n) ==
  /\ op.pc = "idle" /\ sleep = "no"
  /\ n \in enabled \ on
  /\ user = "up" \/ "restart" \in faults
  /\ (pipeline = 0 => rproc < MaxRefs) /\ seninf < MaxRefs
  /\ op' = [node |-> n, pc |-> IF enabled_count = 0 THEN "pipeline" ELSE "count"]
  /\ UNCHANGED <<userVars, pipeline, countVars, devVars, hwVars, powerVars>>

\* A node that is not enabled fails with ENOLINK and changes nothing.
StreamOn(n) ==
  /\ op.pc = "idle" /\ sleep = "no"
  /\ n \in enabled \ on
  /\ user = "up" \/ "restart" \in faults
  /\ (pipeline = 0 => rproc < MaxRefs) /\ seninf < MaxRefs
  /\ op' = [node |-> n, pc |-> IF pipeline = 0 THEN "pipeline" ELSE "count"]
  /\ UNCHANGED <<userVars, pipeline, countVars, devVars, hwVars, powerVars>>

\* media_pipeline_start and mtk_cam_dev_init_stream.
PipelineStart ==
  /\ op.pc = "pipeline"
  /\ pipeline' = 1
  /\ stream_count' = 0
  /\ enabled_count' = Cardinality(enabled)
  /\ enabled_dmas' = enabled
  /\ GoTo("hw_init")
  /\ UNCHANGED <<userVars, devVars, hwVars, powerVars>>

\* mtk_isp_hw_init: rproc_boot.
RprocBoot ==
  /\ op.pc = "hw_init"
  /\ \/ rproc' = rproc + 1 /\ GoTo("composer")
     \/ "boot" \in faults /\ GoTo("fail_stop_pipeline") /\ UNCHANGED rproc
  /\ UNCHANGED <<userVars, pipeline, countVars, devVars, pm, wq, powerVars>>

\* isp_composer_init.  A failed allocation of the work queue leaves ret at 0,
\* which the caller takes for success; a failed registration is returned, and
\* mtk_isp_hw_init returns it without rproc_shutdown.
ComposerInit ==
  /\ op.pc = "composer"
  /\ \/ wq' = "live" /\ GoTo("power")
     \/ "wq" \in faults /\ wq' = "null" /\ GoTo("power")
     \/ "register" \in faults /\ UNCHANGED wq /\ GoTo("fail_stop_pipeline")
  /\ UNCHANGED <<userVars, pipeline, countVars, devVars, rproc, pm, powerVars>>

\* The rest of mtk_isp_hw_init: pm_runtime_get_sync, whose result is ignored,
\* takes its reference also when the clocks cannot be enabled.
PowerOn ==
  /\ op.pc = "power"
  /\ pm' = pm + 1
  /\ clk' = 1 \/ ("clock" \in faults /\ UNCHANGED clk)
  /\ GoTo("count")
  /\ UNCHANGED <<userVars, pipeline, countVars, devVars, rproc, wq, sleep, vf>>

\* The node is counted.  The last enabled node starts the sub-devices, unless
\* mtk_cam_sd_s_stream finds them streaming already.
CountNode ==
  /\ op.pc = "count"
  /\ stream_count' = stream_count + 1
  /\ \/ /\ stream_count' < enabled_count \/ streaming = 1
        /\ on' = on \cup {op.node}
        /\ op' = OpIdle
     \/ /\ stream_count' >= enabled_count /\ streaming = 0
        /\ GoTo("seninf_check")
        /\ UNCHANGED on
  /\ UNCHANGED <<enabled, user, pipeline, enabled_count, enabled_dmas, devVars,
                 hwVars, powerVars>>

MutSeninfCheck ==
  /\ op.pc = "seninf_check"
  /\ GoTo("seninf_on")
  /\ UNCHANGED <<userVars, pipeline, countVars, devVars, hwVars, powerVars>>

\* mtk_cam_cio_stream_on refuses to start without a sensor interface.
SeninfCheck ==
  /\ op.pc = "seninf_check"
  /\ \/ bound = 1 /\ GoTo("seninf_on")
     \/ bound = 0 /\ GoTo("fail_no_stream")
  /\ UNCHANGED <<userVars, pipeline, countVars, devVars, hwVars, powerVars>>

\* The sensor interface is started first.  A failing mtk_seninf_power_on drops
\* its own reference.  When cam->seninf has become NULL since the test, the
\* active sensor is looked up, or the failure reported, through it: the thread
\* dies with op_lock held.
SeninfOn ==
  /\ op.pc = "seninf_on"
  /\ \/ bound = 1 /\ seninf' = seninf + 1 /\ GoTo("sensor_on")
     \/ /\ bound = 1 /\ "start" \in faults
        /\ GoTo("fail_no_stream") /\ UNCHANGED seninf
     \/ bound = 0 /\ GoTo("oops") /\ UNCHANGED seninf
  /\ UNCHANGED <<userVars, pipeline, countVars, streaming, sensor, isp, hwVars,
                 powerVars>>

SensorOn ==
  /\ op.pc = "sensor_on"
  /\ \/ sensor' = 1 /\ GoTo("config")
     \/ "start" \in faults /\ GoTo("fail_seninf_off") /\ UNCHANGED sensor
  /\ UNCHANGED <<userVars, pipeline, countVars, streaming, seninf, isp, hwVars,
                 powerVars>>

\* mtk_cam_dev_isp_config.
IspConfig ==
  /\ op.pc = "config"
  /\ \/ GoTo("stream_on")
     \/ "start" \in faults /\ GoTo("fail_sensor_off")
  /\ UNCHANGED <<userVars, pipeline, countVars, devVars, hwVars, powerVars>>

\* cam->streaming and mtk_isp_stream(1); STREAMON succeeds.
IspStreamOn ==
  /\ op.pc = "stream_on"
  /\ streaming' = 1
  /\ isp' = 1
  /\ vf' = 1
  /\ on' = on \cup {op.node}
  /\ op' = OpIdle
  /\ UNCHANGED <<enabled, user, pipeline, countVars, seninf, sensor, hwVars,
                 clk, sleep>>

\* fail_sensor_off: the result of s_stream(0) is ignored.
FailSensorOff ==
  /\ op.pc = "fail_sensor_off"
  /\ sensor' = 0 \/ ("stop" \in faults /\ UNCHANGED sensor)
  /\ GoTo("fail_seninf_off")
  /\ UNCHANGED <<userVars, pipeline, countVars, streaming, seninf, isp, hwVars,
                 powerVars>>

MutFailSeninfOff ==
  /\ op.pc = "fail_seninf_off"
  /\ GoTo("fail_no_stream")
  /\ UNCHANGED <<userVars, pipeline, countVars, devVars, hwVars, powerVars>>

\* fail_seninf_off: v4l2_subdev_call does nothing for a NULL sub-device.
FailSeninfOff ==
  /\ op.pc = "fail_seninf_off"
  /\ seninf' = seninf - bound
  /\ GoTo("fail_no_stream")
  /\ UNCHANGED <<userVars, pipeline, countVars, streaming, sensor, isp, hwVars,
                 powerVars>>

MutFailNoStream ==
  /\ op.pc = "fail_no_stream"
  /\ GoTo("fail_stop_pipeline")
  /\ UNCHANGED <<userVars, pipeline, countVars, devVars, hwVars, powerVars>>

\* fail_no_stream: the node no longer counts.
FailNoStream ==
  /\ op.pc = "fail_no_stream"
  /\ stream_count' = stream_count - 1
  /\ GoTo("fail_stop_pipeline")
  /\ UNCHANGED <<userVars, pipeline, enabled_count, enabled_dmas, devVars,
                 hwVars, powerVars>>

\* fail_stop_pipeline: STREAMON fails, and the user gives up.
FailStopPipeline ==
  /\ op.pc = "fail_stop_pipeline"
  /\ pipeline' = IF stream_count = 0 THEN 0 ELSE pipeline
  /\ user' = IF on = {} THEN "up" ELSE "down"
  /\ op' = OpIdle
  /\ UNCHANGED <<enabled, on, countVars, devVars, hwVars, powerVars>>

-----------------------------------------------------------------------------
(***************************************************************************)
(* STREAMOFF: mtk_cam_vb2_stop_streaming.                                  *)
(***************************************************************************)

MutLastNodeStops == stream_count = 1

\* The sub-devices stop with the first node that goes.
LastNodeStops == stream_count = enabled_count

\* mtk_cam_sd_s_stream(0) has nothing to do when cam->streaming is clear.
\* (Bound: streaming without a live work queue, the model ends before the
\* queue is destroyed a second time.)
StreamOff(n) ==
  /\ op.pc = "idle" /\ sleep = "no"
  /\ n \in on
  /\ user = "down" \/ on = enabled \/ "partial" \in faults
  /\ streaming = 1 => wq = "live"
  /\ user' = "down"
  /\ op' = [node |-> n, pc |-> IF ~LastNodeStops THEN "uncount"
                               ELSE IF streaming = 1 THEN "sensor_off"
                               ELSE "disable_dma"]
  /\ UNCHANGED <<enabled, on, pipeline, countVars, devVars, hwVars, powerVars>>

\* mtk_cam_cio_stream_off returns at once when the sensor refuses.
SensorOff ==
  /\ op.pc = "sensor_off"
  /\ \/ sensor' = 0 /\ GoTo("seninf_off")
     \/ "stop" \in faults /\ GoTo("disable_dma") /\ UNCHANGED sensor
  /\ UNCHANGED <<userVars, pipeline, countVars, streaming, seninf, isp, hwVars,
                 powerVars>>

\* With a NULL cam->seninf the call returns ENODEV, which is reported with the
\* name of the missing entity.
SeninfOff ==
  /\ op.pc = "seninf_off"
  /\ \/ bound = 1 /\ seninf' = seninf - 1 /\ GoTo("stream_off")
     \/ bound = 0 /\ GoTo("oops") /\ UNCHANGED seninf
  /\ UNCHANGED <<userVars, pipeline, countVars, streaming, sensor, isp, hwVars,
                 powerVars>>

\* cam->streaming is cleared and mtk_isp_stream(0) sent.
IspStreamOff ==
  /\ op.pc = "stream_off"
  /\ streaming' = 0
  /\ isp' = 0
  /\ vf' = 0
  /\ GoTo("hw_release")
  /\ UNCHANGED <<userVars, pipeline, countVars, seninf, sensor, hwVars, clk,
                 sleep>>

MutHwRelease ==
  /\ op.pc = "hw_release"
  /\ wq' = "dead"
  /\ rproc' = rproc - 1
  /\ GoTo("disable_dma")
  /\ UNCHANGED <<userVars, pipeline, countVars, devVars, pm, powerVars>>

\* mtk_isp_hw_release: the work queue is destroyed, the clocks go off after
\* the autosuspend delay, the SCP loses a reference.
HwRelease ==
  /\ op.pc = "hw_release"
  /\ wq' = "dead"
  /\ pm' = pm - 1
  /\ rproc' = rproc - 1
  /\ GoTo("disable_dma")
  /\ UNCHANGED <<userVars, pipeline, countVars, devVars, powerVars>>

DisableDma ==
  /\ op.pc = "disable_dma"
  /\ enabled_dmas' = {}
  /\ GoTo("uncount")
  /\ UNCHANGED <<userVars, pipeline, stream_count, enabled_count, devVars,
                 hwVars, powerVars>>

\* The node is uncounted; the last one cleans up (op_lock is dropped first).
UncountNode ==
  /\ op.pc = "uncount"
  /\ stream_count' = stream_count - 1
  /\ \/ /\ stream_count' # 0
        /\ on' = on \ {op.node}
        /\ op' = OpIdle
     \/ /\ stream_count' = 0
        /\ GoTo("pipeline_stop")
        /\ UNCHANGED on
  /\ UNCHANGED <<enabled, user, pipeline, enabled_count, enabled_dmas, devVars,
                 hwVars, powerVars>>

PipelineStop ==
  /\ op.pc = "pipeline_stop"
  /\ pipeline' = 0
  /\ on' = on \ {op.node}
  /\ user' = "up"
  /\ op' = OpIdle
  /\ UNCHANGED <<enabled, countVars, devVars, hwVars, powerVars>>

-----------------------------------------------------------------------------
(***************************************************************************)
(* Runtime PM and system sleep.                                            *)
(***************************************************************************)

\* External: the autosuspend delay is over; mtk_isp_runtime_suspend.
RuntimeSuspend ==
  /\ clk = 1 /\ pm <= 0 /\ sleep = "no"
  /\ clk' = 0
  /\ UNCHANGED <<userVars, pipeline, countVars, devVars, hwVars, sleep, vf, op>>

\* mtk_isp_pm_suspend: nothing to do for a suspended ISP; otherwise the view
\* finder stops and pm_runtime_force_suspend switches the clocks off.  When it
\* fails (reenable_hw) the view finder is switched on, whether it ran before
\* or not, and the system stays awake.
PmSuspend ==
  /\ op.pc = "idle" /\ sleep = "no"
  /\ clk = 1 /\ isp = 0 => "window" \in faults
  /\ \/ /\ clk = 0
        /\ sleep' = "idle"
        /\ UNCHANGED <<clk, vf>>
     \/ /\ clk = 1
        /\ clk' = 0
        /\ vf' = 0
        /\ sleep' = "forced"
     \/ /\ clk = 1
        /\ "awake" \in faults
        /\ vf' = 1
        /\ UNCHANGED <<clk, sleep>>
  /\ UNCHANGED <<userVars, pipeline, countVars, devVars, hwVars, op>>

\* External: pm_runtime_force_resume resumes only what is in use.
ForceResume == IF pm > 0 THEN 1 ELSE 0

MutPmResume ==
  /\ sleep # "no"
  /\ sleep' = "no"
  /\ \/ sleep = "idle" /\ UNCHANGED <<clk, vf>>
     \/ sleep = "forced" /\ clk' = ForceResume /\ UNCHANGED vf
  /\ UNCHANGED <<userVars, pipeline, countVars, devVars, hwVars, op>>

\* mtk_isp_pm_resume: after a forced suspend the clocks come back as the PM
\* core decides, and the view finder is switched on again.  When the clocks of
\* an ISP in use cannot be enabled it returns before that.
PmResume ==
  /\ sleep # "no"
  /\ sleep' = "no"
  /\ \/ sleep = "idle" /\ UNCHANGED <<clk, vf>>
     \/ sleep = "forced" /\ clk' = ForceResume /\ vf' = 1
     \/ /\ sleep = "forced" /\ ForceResume = 1 /\ "clock" \in faults
        /\ UNCHANGED <<clk, vf>>
  /\ UNCHANGED <<userVars, pipeline, countVars, devVars, hwVars, op>>

-----------------------------------------------------------------------------
(***************************************************************************)
(* The sensor interface's driver, whose unbinding takes no lock of these   *)
(* operations.                                                             *)
(***************************************************************************)
SeninfInUse ==
  streaming = 1 \/ op.pc \in {"seninf_on", "sensor_on", "config", "stream_on"}

\* mtk_cam_dev_notifier_unbind, from seninf_remove.
Unbind ==
  /\ "unbind" \in faults
  /\ bound = 1
  /\ bound' = 0
  /\ pulled' = IF SeninfInUse THEN 1 ELSE pulled

\* mtk_cam_dev_notifier_bound: the driver is back.
Bound ==
  /\ bound = 0
  /\ bound' = 1
  /\ UNCHANGED pulled

-----------------------------------------------------------------------------
StartStep ==
  \/ PipelineStart \/ RprocBoot \/ ComposerInit \/ PowerOn \/ CountNode \/ SeninfCheck
  \/ SeninfOn \/ SensorOn \/ IspConfig \/ IspStreamOn
  \/ FailSensorOff \/ FailSeninfOff \/ FailNoStream \/ FailStopPipeline

StopStep ==
  \/ SensorOff \/ SeninfOff \/ IspStreamOff \/ HwRelease \/ DisableDma
  \/ UncountNode \/ PipelineStop

Next ==
  /\ UNCHANGED faults
  /\ \/ /\ \/ \E n \in Nodes : LinkSetup(n) \/ StreamOn(n) \/ StreamOff(n)
           \/ StartStep \/ StopStep
           \/ RuntimeSuspend \/ PmSuspend \/ PmResume
        /\ UNCHANGED bindVars
     \/ /\ Unbind \/ Bound
        /\ UNCHANGED <<userVars, pipeline, countVars, devVars, hwVars, powerVars,
                       op>>

Spec == Init /\ [][Next]_vars

-----------------------------------------------------------------------------
(***************************************************************************)
(* Properties.  Each names the faults it does not survive: TLC shows it    *)
(* for every set of the others.                                            *)
(***************************************************************************)
Without(kinds) == faults \cap kinds = {}

\* Between two operations.
Quiet == op.pc = "idle"

\* The nodes that stream are counted exactly, the pipeline is started while
\* one of them streams and no longer, and the media graph they started with
\* is the one enabled_count was taken from, after any failure.
CountAgrees ==
  Quiet =>
    /\ stream_count = Cardinality(on)
    /\ pipeline = 1 <=> on # {}
    /\ on # {} => enabled_count = Cardinality(enabled)

\* Sensor interface, sensor and ISP stream together and only while every
\* enabled node streams: a failed start undoes what it had started.  (A sensor
\* that refuses to stop makes mtk_cam_cio_stream_off return early, and an
\* unbound sensor interface cannot be told to stop.)
DevicesTogether ==
  Quiet /\ Without({"stop", "unbind"}) =>
    /\ {seninf, sensor, isp} = {streaming}
    /\ streaming = 1 => on = enabled

\* The ISP never streams on hardware that was not initialised: the SCP is
\* booted, the clocks are referenced and composer_wq is a live queue.
HwReady ==
  streaming = 1 => rproc > 0 /\ pm > 0 /\ wq = "live"

\* HwReady holds as long as the work queue is allocated and no user restarts
\* a node while others stream, whatever else mtk_cam_vb2_start_streaming and
\* mtk_cam_vb2_stop_streaming meet.
HwReadyInOrder == Without({"wq", "restart"}) => HwReady

\* When no node streams, every reference that mtk_isp_hw_init took to the SCP
\* and the clocks is gone, and from the first node that stops to the last no DMA
\* port is enabled.  (A failed start and a stop before all nodes have started
\* never reach mtk_isp_hw_release, and a failed registration of the SCP's
\* messages leaves it booted.)
HwReleased ==
  Quiet /\ Without({"register", "start", "stop", "partial", "unbind"}) =>
    /\ on = {} => rproc = 0 /\ pm = 0
    /\ user = "down" => enabled_dmas = {}

\* System sleep is transparent: awake, the view finder runs exactly while the
\* ISP streams, and never on switched-off clocks, also after a sleep that was
\* called off.  (mtk_isp_pm_resume switches it on without asking whether the
\* ISP streams, and not at all when the clocks cannot be enabled; nobody asks
\* whether pm_runtime_get_sync enabled them.)
ViewFinder ==
  sleep = "no" /\ Without({"clock", "restart", "window"}) =>
    vf = isp /\ (vf = 1 => clk = 1)

\* A sensor interface that is unbound while no node starts or streams is
\* noticed by the next STREAMON: nothing streams without one, and no thread
\* goes through a NULL cam->seninf.  (Unbound in use, it kills the STREAMOFF.)
UnboundIsNoticed ==
  op.pc = "oops" \/ (streaming = 1 /\ bound = 0) => pulled = 1

-----------------------------------------------------------------------------
(***************************************************************************)
(* The life cycle implements the one users are promised.  A node that is   *)
(* being stopped streams until the sub-devices are done with.              *)
(***************************************************************************)
StillOn ==
  IF op.pc \in {"hw_release", "disable_dma", "uncount", "pipeline_stop"}
  THEN on \ {op.node} ELSE on

Life == INSTANCE StreamLife
          WITH links <- enabled, on <- StillOn, live <- streaming = 1,
               refuses <- "stop" \in faults

\* With every fault, mtk_cam_vb2_start_streaming and mtk_cam_vb2_stop_streaming
\* let frames flow from the start of the last enabled node to the stop of the
\* first, although they compare counters and not sets of nodes.
ImplementsLife == Life!Spec
=============================================================================
