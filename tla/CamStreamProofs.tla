-------------------------- MODULE CamStreamProofs --------------------------
(***************************************************************************)
(* Proofs about CamStream for every number of video nodes and every        *)
(* combination of faults.                                                  *)
(***************************************************************************)
EXTENDS CamStream, FiniteSetTheorems, TLAPS

\* The phases in which the node is counted and does not stream yet: only the
\* last enabled node reaches them.
LastPhases == {"seninf_check", "seninf_on", "sensor_on", "config", "stream_on",
               "fail_sensor_off", "fail_seninf_off", "fail_no_stream"}
InitPhases == {"pipeline", "hw_init", "composer", "power"}
StartPhases == InitPhases \cup LastPhases \cup {"count", "fail_stop_pipeline"}

\* STREAMOFF of the first node that goes, then what every node goes through.
OffPhases == {"sensor_off", "seninf_off", "stream_off"}
StopPhases == OffPhases \cup {"hw_release", "disable_dma", "uncount", "pipeline_stop"}

Phases == StartPhases \cup StopPhases \cup {"idle", "oops"}

StreamType ==
  /\ enabled \subseteq Nodes
  /\ on \subseteq enabled
  /\ user \in {"up", "down"}
  /\ pipeline \in {0, 1}
  /\ stream_count \in Int
  /\ enabled_count \in Nat
  /\ enabled_dmas \subseteq Nodes
  /\ streaming \in {0, 1}
  /\ bound \in {0, 1}
  /\ pulled \in {0, 1}
  /\ seninf \in Int
  /\ sensor \in {0, 1}
  /\ isp \in {0, 1}
  /\ rproc \in Int
  /\ pm \in Int
  /\ wq \in {"null", "live", "dead"}
  /\ clk \in {0, 1}
  /\ sleep \in {"no", "idle", "forced"}
  /\ vf \in {0, 1}
  /\ op \in [node : Nodes \cup {NoNode}, pc : Phases]

\* The counters against the sets of nodes, in every phase.
CountInv ==
  /\ Main \in enabled
  /\ op.pc \in StartPhases => op.node \in enabled \ on
  /\ op.pc \in StopPhases => op.node \in on
  /\ op.pc \in LastPhases =>
       stream_count = Cardinality(on) + 1 /\ enabled = on \cup {op.node}
  /\ op.pc = "pipeline_stop" => stream_count = 0 /\ on = {op.node}
  /\ op.pc \notin LastPhases \cup {"pipeline_stop", "oops"} =>
       stream_count = Cardinality(on)
  /\ pipeline = 0 <=> op.pc = "pipeline" \/ (op.pc = "idle" /\ on = {})
  /\ op.pc \in InitPhases => on = {}
  /\ pipeline = 1 => enabled_count = Cardinality(enabled)
  /\ op.pc \in OffPhases => on = enabled

\* Who the user is in each phase.
UserInv ==
  /\ op.pc \in StopPhases => user = "down"
  /\ op.pc \in InitPhases => user = "up"
  /\ op.pc = "idle" /\ on = {} => user = "up"
  /\ op.pc \in StartPhases /\ "restart" \notin faults => user = "up"

\* cam->streaming in each phase.  Only a sensor that refuses to stop keeps it
\* set when a node has gone.
LiveInv ==
  /\ isp = streaming
  /\ op.pc \in OffPhases => streaming = 1
  /\ op.pc \in LastPhases \cup {"hw_release"} => streaming = 0
  /\ streaming = 1 /\ "stop" \notin faults =>
       on = enabled /\ op.pc \in OffPhases \cup {"idle", "oops"}

\* Who streams in each phase of starting and stopping the sub-devices.
DeviceInv ==
  "stop" \notin faults /\ "unbind" \notin faults =>
    /\ op.pc # "oops"
    /\ sensor = IF op.pc \in {"config", "stream_on", "fail_sensor_off"} THEN 1
                ELSE IF op.pc \in {"seninf_off", "stream_off"} THEN 0
                ELSE streaming
    /\ seninf = IF op.pc \in {"sensor_on", "config", "stream_on",
                              "fail_sensor_off", "fail_seninf_off"} THEN 1
                ELSE IF op.pc = "stream_off" THEN 0
                ELSE streaming

\* The hardware is initialised from the first node's start until the release.
Powered ==
  \/ streaming = 1
  \/ op.pc \in LastPhases \cup {"count", "hw_release"}
  \/ op.pc = "idle" /\ user = "up" /\ on # {}

PowerInv ==
  "restart" \notin faults =>
    /\ rproc >= 0 /\ pm >= 0
    /\ op.pc \in {"composer", "power"} => rproc > 0
    /\ Powered => rproc > 0 /\ pm > 0
    /\ (Powered \/ op.pc = "power") /\ "wq" \notin faults => wq = "live"

SleepInv ==
  /\ sleep # "no" => op.pc = "idle"
  /\ sleep = "no" /\ pm > 0 /\ "clock" \notin faults => clk = 1
  /\ sleep = "idle" => clk = 0
  /\ sleep = "idle" /\ "clock" \notin faults => pm <= 0
  /\ {"clock", "restart", "window"} \cap faults = {} =>
       /\ sleep = "forced" => isp = 1
       /\ sleep # "forced" => vf = isp /\ (vf = 1 => clk = 1)

BindInv ==
  /\ "unbind" \notin faults => bound = 1
  /\ bound = 0 /\ SeninfInUse => pulled = 1
  /\ op.pc = "oops" => pulled = 1

\* The references of a session in which every node starts before one stops.
\* A node restarted on released hardware leaves no way to stop (the bound of
\* StreamOff), so nothing is released twice.
AllInTurn ==
  /\ "register" \notin faults /\ "start" \notin faults /\ "stop" \notin faults
  /\ "partial" \notin faults /\ "unbind" \notin faults

ReleaseInv ==
  AllInTurn =>
    /\ op.pc \notin {"fail_sensor_off", "fail_seninf_off", "fail_no_stream"}
    /\ op.pc = "fail_stop_pipeline" => on = {} /\ user = "up"
    /\ op.pc = "idle" /\ on = enabled => streaming = 1
    /\ op.pc = "disable_dma" => streaming = 0
    /\ rproc = IF \/ op.pc \in OffPhases \cup {"hw_release", "composer", "power"}
                  \/ user = "up" /\ (on # {} \/ op.pc \in LastPhases \cup {"count"})
               THEN 1 ELSE 0
    /\ pm = IF op.pc \in {"composer", "power"} THEN 0 ELSE rproc
    /\ user = "down" /\ op.pc \notin OffPhases \cup {"hw_release"} => wq # "live"
    /\ /\ user = "down"
       /\ op.pc \notin OffPhases \cup {"hw_release", "disable_dma"}
       => enabled_dmas = {}

StreamInv ==
  /\ StreamType
  /\ CountInv
  /\ UserInv
  /\ LiveInv
  /\ DeviceInv
  /\ PowerInv
  /\ SleepInv
  /\ BindInv
  /\ ReleaseInv

-----------------------------------------------------------------------------
\* The cardinalities the counters are compared with.
LEMMA Cardinalities ==
  ASSUME StreamType, NEW n
  PROVE  /\ Cardinality(on) \in Nat /\ Cardinality(enabled) \in Nat
         /\ Cardinality(on) <= Cardinality(enabled)
         /\ Cardinality(on) = 0 <=> on = {}
         /\ Cardinality(on) = Cardinality(enabled) => on = enabled
         /\ n \in on => Cardinality(on \ {n}) = Cardinality(on) - 1
         /\ n \notin on => Cardinality(on \cup {n}) = Cardinality(on) + 1
         /\ n \in on /\ Cardinality(on) = 1 => on = {n}
         /\ Cardinality({}) = 0
<1>1. IsFiniteSet(enabled)
  BY StreamAssumption, FS_Subset DEF StreamType
<1>2. on \in SUBSET enabled /\ IsFiniteSet(on)
  BY <1>1, FS_Subset DEF StreamType
<1>3. /\ Cardinality(on) \in Nat /\ Cardinality(enabled) \in Nat
      /\ Cardinality(on) <= Cardinality(enabled)
      /\ Cardinality(on) = Cardinality(enabled) => on = enabled
  BY <1>1, <1>2, FS_Subset, FS_CardinalityType
<1>4. (Cardinality(on) = 0 <=> on = {}) /\ Cardinality({}) = 0
  BY <1>2, FS_EmptySet
<1>5. n \in on => Cardinality(on \ {n}) = Cardinality(on) - 1
  BY <1>2, FS_RemoveElement
<1>6. n \notin on => Cardinality(on \cup {n}) = Cardinality(on) + 1
  BY <1>2, FS_AddElement
<1>7. ASSUME n \in on, Cardinality(on) = 1 PROVE on = {n}
  <2>1. IsFiniteSet(on \ {n}) /\ Cardinality(on \ {n}) = 0
    BY <1>2, <1>5, <1>7, FS_Subset
  <2>2. on \ {n} = {}
    BY <2>1, FS_EmptySet
  <2> QED
    BY <1>7, <2>2
<1> QED
  BY <1>3, <1>4, <1>5, <1>6, <1>7

LEMMA StreamStep ==
  ASSUME StreamInv, [Next]_vars
  PROVE  StreamInv'
<1>c. /\ Cardinality(on) \in Nat /\ Cardinality(enabled) \in Nat
      /\ Cardinality(on) <= Cardinality(enabled)
      /\ Cardinality(on) = 0 <=> on = {}
      /\ Cardinality(on) = Cardinality(enabled) => on = enabled
      /\ op.node \in on =>
           Cardinality(on \ {op.node}) = Cardinality(on) - 1
      /\ op.node \notin on =>
           Cardinality(on \cup {op.node}) = Cardinality(on) + 1
      /\ op.node \in on /\ Cardinality(on) = 1 => on = {op.node}
      /\ Cardinality({}) = 0
  BY Cardinalities DEF StreamInv
<1> USE StreamAssumption DEF StreamInv, StreamType, CountInv, UserInv, LiveInv, DeviceInv,
      PowerInv, Powered, SleepInv, BindInv, ReleaseInv, AllInTurn, SeninfInUse, LastPhases,
      InitPhases, StartPhases, OffPhases, StopPhases, Phases,
      GoTo, OpIdle, userVars, countVars, devVars, bindVars, hwVars, powerVars
<1>1. ASSUME NEW n \in Nodes, LinkSetup(n), UNCHANGED <<faults, bindVars>>
      PROVE  StreamInv'
  BY <1>1 DEF LinkSetup
<1>2. ASSUME NEW n \in Nodes, StreamOn(n), UNCHANGED <<faults, bindVars>>
      PROVE  StreamInv'
  BY <1>2 DEF StreamOn
<1>3. ASSUME NEW n \in Nodes, StreamOff(n), UNCHANGED <<faults, bindVars>>
      PROVE  StreamInv'
  BY <1>c, <1>3 DEF StreamOff, LastNodeStops
<1>4. CASE PipelineStart /\ UNCHANGED <<faults, bindVars>>
  BY <1>c, <1>4 DEF PipelineStart
<1>5. CASE RprocBoot /\ UNCHANGED <<faults, bindVars>>
  BY <1>5 DEF RprocBoot
<1>6. CASE ComposerInit /\ UNCHANGED <<faults, bindVars>>
  BY <1>6 DEF ComposerInit
<1>30. CASE PowerOn /\ UNCHANGED <<faults, bindVars>>
  BY <1>30 DEF PowerOn
<1>7. CASE CountNode /\ UNCHANGED <<faults, bindVars>>
  <2>1. stream_count' = Cardinality(on) + 1 /\ op.node \in enabled \ on
    BY <1>7 DEF CountNode
  <2>2. CASE on' = on \cup {op.node} /\ op' = OpIdle
    <3>1. on' # {} /\ on' \subseteq enabled
      BY <2>1, <2>2
    <3>2. Cardinality(on') = Cardinality(on) + 1
      BY <1>c, <2>1, <2>2
    <3>3. on' = enabled => streaming = 1
      <4>1. enabled_count = Cardinality(enabled)
        BY <1>7 DEF CountNode
      <4>2. stream_count' < enabled_count \/ streaming = 1
        BY <1>7, <2>2 DEF CountNode
      <4> QED
        BY <1>c, <2>1, <3>2, <4>1, <4>2
    <3> QED
      BY <1>7, <2>1, <2>2, <3>1, <3>2, <3>3 DEF CountNode
  <2>3. CASE GoTo("seninf_check") /\ UNCHANGED on
    <3>1. streaming = 0 /\ Cardinality(on) + 1 >= Cardinality(enabled)
      BY <1>7, <2>1, <2>3 DEF CountNode
    <3>2. enabled = on \cup {op.node}
      <4>1. /\ IsFiniteSet(enabled)
            /\ on \cup {op.node} \in SUBSET enabled
        BY <2>1, FS_Subset
      <4> QED
        BY <1>c, <2>1, <3>1, <4>1, FS_Subset
    <3> QED
      BY <1>7, <2>1, <2>3, <3>1, <3>2 DEF CountNode
  <2> QED
    BY <1>7, <2>2, <2>3 DEF CountNode
<1>8. CASE SeninfCheck /\ UNCHANGED <<faults, bindVars>>
  BY <1>8 DEF SeninfCheck
<1>9. CASE SeninfOn /\ UNCHANGED <<faults, bindVars>>
  BY <1>9 DEF SeninfOn
<1>10. CASE SensorOn /\ UNCHANGED <<faults, bindVars>>
  BY <1>10 DEF SensorOn
<1>11. CASE IspConfig /\ UNCHANGED <<faults, bindVars>>
  BY <1>11 DEF IspConfig
<1>12. CASE IspStreamOn /\ UNCHANGED <<faults, bindVars>>
  BY <1>c, <1>12 DEF IspStreamOn
<1>13. CASE FailSensorOff /\ UNCHANGED <<faults, bindVars>>
  BY <1>13 DEF FailSensorOff
<1>14. CASE FailSeninfOff /\ UNCHANGED <<faults, bindVars>>
  BY <1>14 DEF FailSeninfOff
<1>15. CASE FailNoStream /\ UNCHANGED <<faults, bindVars>>
  BY <1>c, <1>15 DEF FailNoStream
<1>16. CASE FailStopPipeline /\ UNCHANGED <<faults, bindVars>>
  BY <1>c, <1>16 DEF FailStopPipeline
<1>17. CASE SensorOff /\ UNCHANGED <<faults, bindVars>>
  BY <1>17 DEF SensorOff
<1>18. CASE SeninfOff /\ UNCHANGED <<faults, bindVars>>
  BY <1>18 DEF SeninfOff
<1>19. CASE IspStreamOff /\ UNCHANGED <<faults, bindVars>>
  BY <1>19 DEF IspStreamOff
<1>20. CASE HwRelease /\ UNCHANGED <<faults, bindVars>>
  BY <1>20 DEF HwRelease
<1>21. CASE DisableDma /\ UNCHANGED <<faults, bindVars>>
  BY <1>21 DEF DisableDma
<1>22. CASE UncountNode /\ UNCHANGED <<faults, bindVars>>
  <2>1. /\ stream_count' = Cardinality(on) - 1 /\ op.node \in on
        /\ Cardinality(on \ {op.node}) = Cardinality(on) - 1
    BY <1>c, <1>22 DEF UncountNode
  <2>2. CASE stream_count' # 0 /\ on' = on \ {op.node} /\ op' = OpIdle
    <3>1. on' # {} /\ on' \subseteq enabled /\ on' # enabled
      BY <1>c, <2>1, <2>2
    <3> QED
      BY <1>22, <2>1, <2>2, <3>1 DEF UncountNode
  <2>3. CASE stream_count' = 0 /\ GoTo("pipeline_stop") /\ UNCHANGED on
    <3>1. on = {op.node}
      <4>1. Cardinality(on) = 1
        BY <1>c, <2>1, <2>3
      <4> QED
        BY <1>c, <2>1, <4>1
    <3> QED
      BY <1>22, <2>1, <2>3, <3>1 DEF UncountNode
  <2> QED
    BY <1>22, <2>2, <2>3 DEF UncountNode
<1>23. CASE PipelineStop /\ UNCHANGED <<faults, bindVars>>
  <2>1. on' = {} /\ Cardinality(on') = 0
    BY <1>c, <1>23 DEF PipelineStop
  <2> QED
    BY <1>23, <2>1 DEF PipelineStop
<1>24. CASE RuntimeSuspend /\ UNCHANGED <<faults, bindVars>>
  BY <1>24 DEF RuntimeSuspend
<1>25. CASE PmSuspend /\ UNCHANGED <<faults, bindVars>>
  BY <1>25 DEF PmSuspend
<1>26. CASE PmResume /\ UNCHANGED <<faults, bindVars>>
  BY <1>26 DEF PmResume, ForceResume
<1>27. CASE Unbind /\ UNCHANGED <<faults, userVars, pipeline, countVars, devVars,
               hwVars, powerVars, op>>
  BY <1>27 DEF Unbind
<1>28. CASE Bound /\ UNCHANGED <<faults, userVars, pipeline, countVars, devVars,
               hwVars, powerVars, op>>
  BY <1>28 DEF Bound
<1>29. CASE UNCHANGED vars
  BY <1>29 DEF vars
<1> HIDE DEF StreamInv
<1> QED
  BY <1>1, <1>2, <1>3, <1>4, <1>5, <1>6, <1>7, <1>8, <1>9, <1>10, <1>11, <1>12, <1>13, <1>14, <1>15, <1>16, <1>17, <1>18, <1>19, <1>20, <1>21, <1>22, <1>23, <1>24, <1>25, <1>26, <1>27, <1>28, <1>29, <1>30
     DEF Next, StartStep, StopStep

\* The invariant holds in every behaviour.
LEMMA StreamInvHolds == Spec => []StreamInv
<1>1. Init => StreamInv
  BY StreamAssumption, FS_EmptySet DEF Init, OpIdle, StreamInv, StreamType, CountInv,
     UserInv, LiveInv, DeviceInv, PowerInv, Powered, SleepInv, BindInv, ReleaseInv,
     AllInTurn, SeninfInUse, LastPhases, InitPhases, StartPhases, OffPhases,
     StopPhases, Phases
<1>2. StreamInv /\ [Next]_vars => StreamInv'
  BY StreamStep
<1> QED
  BY <1>1, <1>2, PTL DEF Spec

-----------------------------------------------------------------------------
\* The counters of mtk_cam_vb2_start_streaming and mtk_cam_vb2_stop_streaming
\* agree with the sets of nodes between any two operations, after any fault.
THEOREM CountsAlwaysAgree == Spec => []CountAgrees
<1>1. StreamInv => CountAgrees
  BY DEF StreamInv, StreamType, CountInv, CountAgrees, Quiet, LastPhases
<1> QED
  BY <1>1, StreamInvHolds, PTL

\* A failed start undoes what it has started: the sub-devices stream together,
\* and only with every enabled node.
THEOREM DevicesAlwaysTogether == Spec => []DevicesTogether
<1>1. StreamInv => DevicesTogether
  BY DEF StreamInv, LiveInv, DeviceInv, DevicesTogether, Quiet, Without
<1> QED
  BY <1>1, StreamInvHolds, PTL

\* The ISP never streams on hardware that was not initialised, unless a work
\* queue cannot be allocated or a user restarts a node.
THEOREM HwAlwaysReady == Spec => []HwReadyInOrder
<1>1. StreamInv => HwReadyInOrder
  BY DEF StreamInv, PowerInv, Powered, HwReadyInOrder, HwReady, Without
<1> QED
  BY <1>1, StreamInvHolds, PTL

\* Every reference is dropped and every DMA port disabled when all nodes start
\* before one stops, the sub-devices start and stop when they are told to and
\* the SCP's messages can be registered.
THEOREM HwAlwaysReleased == Spec => []HwReleased
<1>1. StreamInv => HwReleased
  <2> SUFFICES ASSUME StreamInv, Quiet,
                      Without({"register", "start", "stop", "partial", "unbind"})
               PROVE  /\ on = {} => rproc = 0 /\ pm = 0
                      /\ user = "down" => enabled_dmas = {}
    BY DEF HwReleased
  <2>1. AllInTurn
    BY DEF AllInTurn, Without
  <2>2. op.pc \notin OffPhases \cup LastPhases
                      \cup {"hw_release", "composer", "power", "count", "disable_dma"}
    BY DEF Quiet, OffPhases, LastPhases
  <2> QED
    BY <2>1, <2>2 DEF StreamInv, ReleaseInv
<1> QED
  BY <1>1, StreamInvHolds, PTL

\* System sleep is transparent for the view finder while the clocks can be
\* enabled, also when the sleep is called off.
THEOREM ViewFinderAlways == Spec => []ViewFinder
<1>1. StreamInv => ViewFinder
  BY DEF StreamInv, SleepInv, ViewFinder, Without
<1> QED
  BY <1>1, StreamInvHolds, PTL

\* An unbound sensor interface is noticed unless it is pulled in use.
THEOREM UnboundAlwaysNoticed == Spec => []UnboundIsNoticed
<1>1. StreamInv => UnboundIsNoticed
  BY DEF StreamInv, StreamType, BindInv, SeninfInUse, UnboundIsNoticed
<1> QED
  BY <1>1, StreamInvHolds, PTL

-----------------------------------------------------------------------------
(***************************************************************************)
(* The refinement.  Frames start with the node that completes the set of   *)
(* enabled nodes: LastPhases knows it.  They stop with the first that      *)
(* goes, at the step that leaves OffPhases.                                *)
(***************************************************************************)
\* Every step is a step of StreamLife or leaves it unchanged.
LEMMA LifeStep ==
  ASSUME StreamInv, [Next]_vars
  PROVE  [Life!Next]_(Life!lifeVars)
<1> USE StreamAssumption DEF StreamInv, StreamType, CountInv, LiveInv, LastPhases,
      InitPhases, StartPhases, OffPhases, StopPhases, Phases,
      GoTo, OpIdle, userVars, countVars, devVars, bindVars, hwVars, powerVars,
      StillOn, Life!Next, Life!lifeVars, Life!Link, Life!Start, Life!Stop
<1>1. ASSUME NEW n \in Nodes, LinkSetup(n), UNCHANGED faults
      PROVE  [Life!Next]_(Life!lifeVars)
  BY <1>1 DEF LinkSetup
<1>2. ASSUME NEW n \in Nodes, StreamOn(n), UNCHANGED faults
      PROVE  [Life!Next]_(Life!lifeVars)
  BY <1>2 DEF StreamOn
<1>3. ASSUME NEW n \in Nodes, StreamOff(n), UNCHANGED faults
      PROVE  [Life!Next]_(Life!lifeVars)
  <2>1. op.pc = "idle" /\ n \in on /\ UNCHANGED <<enabled, on, streaming, faults>>
    BY <1>3 DEF StreamOff
  <2>2. /\ Cardinality(on) \in Nat
        /\ Cardinality(on) # Cardinality(enabled) => on # enabled
        /\ enabled_count = Cardinality(enabled)
    BY <2>1, Cardinalities
  <2>3. CASE op' = [node |-> n, pc |-> "sensor_off"]
    BY <2>1, <2>3
  <2>4. CASE op' = [node |-> n, pc |-> "disable_dma"] /\ streaming = 0
    BY <2>1, <2>4
  <2>5. CASE op' = [node |-> n, pc |-> "uncount"] /\ stream_count # enabled_count
    <3>1. streaming = 1 => "stop" \in faults
      BY <2>1, <2>2, <2>5
    <3> QED
      BY <2>1, <2>5, <3>1
  <2> QED
    BY <1>3, <2>3, <2>4, <2>5 DEF StreamOff, LastNodeStops
<1>4. CASE PipelineStart /\ UNCHANGED faults
  BY <1>4 DEF PipelineStart
<1>5. CASE RprocBoot /\ UNCHANGED faults
  BY <1>5 DEF RprocBoot
<1>6. CASE ComposerInit /\ UNCHANGED faults
  BY <1>6 DEF ComposerInit
<1>30. CASE PowerOn /\ UNCHANGED faults
  BY <1>30 DEF PowerOn
<1>7. CASE CountNode /\ UNCHANGED faults
  <2>1. /\ op.pc = "count" /\ op.node \in enabled \ on
        /\ UNCHANGED <<enabled, streaming, faults>>
    BY <1>7 DEF CountNode
  <2>2. CASE GoTo("seninf_check") /\ UNCHANGED on
    BY <2>1, <2>2
  <2>3. CASE /\ stream_count' < enabled_count \/ streaming = 1
             /\ on' = on \cup {op.node}
             /\ op' = OpIdle
    <3>1. streaming = 1 \/ on' # enabled
      <4>1. Cardinality(on \cup {op.node}) = Cardinality(on) + 1
        BY <2>1, Cardinalities
      <4>2. stream_count' = Cardinality(on) + 1 /\ enabled_count = Cardinality(enabled)
        BY <1>7, <2>1 DEF CountNode
      <4>3. Cardinality(on) \in Nat
        BY Cardinalities
      <4>4. on' = enabled => stream_count' = enabled_count
        BY <2>3, <4>1, <4>2
      <4>5. enabled_count \in Int /\ stream_count' \in Int
        BY <4>2, <4>3
      <4> QED
        BY <2>3, <4>4, <4>5
    <3>2. op.node \in Nodes
      BY <2>1
    <3> QED
      BY <2>1, <2>3, <3>1, <3>2
  <2> QED
    BY <1>7, <2>2, <2>3 DEF CountNode
<1>8. CASE SeninfCheck /\ UNCHANGED faults
  BY <1>8 DEF SeninfCheck
<1>9. CASE SeninfOn /\ UNCHANGED faults
  BY <1>9 DEF SeninfOn
<1>10. CASE SensorOn /\ UNCHANGED faults
  BY <1>10 DEF SensorOn
<1>11. CASE IspConfig /\ UNCHANGED faults
  BY <1>11 DEF IspConfig
<1>12. CASE IspStreamOn /\ UNCHANGED faults
  BY <1>12 DEF IspStreamOn
<1>13. CASE FailSensorOff /\ UNCHANGED faults
  BY <1>13 DEF FailSensorOff
<1>14. CASE FailSeninfOff /\ UNCHANGED faults
  BY <1>14 DEF FailSeninfOff
<1>15. CASE FailNoStream /\ UNCHANGED faults
  BY <1>15 DEF FailNoStream
<1>16. CASE FailStopPipeline /\ UNCHANGED faults
  BY <1>16 DEF FailStopPipeline
<1>17. CASE SensorOff /\ UNCHANGED faults
  BY <1>17 DEF SensorOff
<1>18. CASE SeninfOff /\ UNCHANGED faults
  BY <1>18 DEF SeninfOff
<1>19. CASE IspStreamOff /\ UNCHANGED faults
  BY <1>19 DEF IspStreamOff
<1>20. CASE HwRelease /\ UNCHANGED faults
  BY <1>20 DEF HwRelease
<1>21. CASE DisableDma /\ UNCHANGED faults
  BY <1>21 DEF DisableDma
<1>22. CASE UncountNode /\ UNCHANGED faults
  BY <1>22 DEF UncountNode
<1>23. CASE PipelineStop /\ UNCHANGED faults
  BY <1>23 DEF PipelineStop
<1>24. CASE RuntimeSuspend /\ UNCHANGED faults
  BY <1>24 DEF RuntimeSuspend
<1>25. CASE PmSuspend /\ UNCHANGED faults
  BY <1>25 DEF PmSuspend
<1>26. CASE PmResume /\ UNCHANGED faults
  BY <1>26 DEF PmResume
<1>27. CASE Unbind /\ UNCHANGED <<faults, userVars, pipeline, countVars, devVars,
               hwVars, powerVars, op>>
  BY <1>27 DEF Unbind
<1>28. CASE Bound /\ UNCHANGED <<faults, userVars, pipeline, countVars, devVars,
               hwVars, powerVars, op>>
  BY <1>28 DEF Bound
<1>29. CASE UNCHANGED vars
  BY <1>29 DEF vars
<1> HIDE DEF StreamInv, Life!Next, Life!lifeVars
<1> QED
  BY <1>1, <1>2, <1>3, <1>4, <1>5, <1>6, <1>7, <1>8, <1>9, <1>10, <1>11, <1>12, <1>13, <1>14, <1>15, <1>16, <1>17, <1>18, <1>19, <1>20, <1>21, <1>22, <1>23, <1>24, <1>25, <1>26, <1>27, <1>28, <1>29, <1>30
     DEF Next, StartStep, StopStep

\* Streaming of the nodes implements StreamLife with every fault: frames flow
\* from the start of the last enabled node to the stop of the first.
THEOREM StreamImplementsLife == Spec => ImplementsLife
<1>1. Init => Life!Init
  BY StreamAssumption DEF Init, OpIdle, StillOn, Life!Init
<1>2. StreamInv /\ [Next]_vars => [Life!Next]_(Life!lifeVars)
  BY LifeStep
<1> QED
  BY <1>1, <1>2, StreamInvHolds, PTL DEF Spec, ImplementsLife, Life!Spec
=============================================================================
