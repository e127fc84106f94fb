------------------------------ MODULE CamProbe ------------------------------
(***************************************************************************)
(* Probe, registration, asynchronous binding and removal of the ISP driver *)
(* ("cam": mtk_isp_probe in mtk_cam-hw.c, mtk_cam_dev_init in mtk_cam.c),   *)
(* of the sensor interface driver ("seninf": mtk_seninf.c) and of the      *)
(* sensors, which are external.                                            *)
(*                                                                         *)
(* The drivers may be probed and removed in any order and again and again. *)
(* Each call that acquires something is a step that may fail, each goto    *)
(* label is a step that gives back what the code gives back.  What devm    *)
(* manages (registers, interrupt, clocks) is released by the driver core.  *)
(***************************************************************************)
EXTENDS Naturals

CONSTANTS
  NumNodes,   \* MTK_CAM_P1_TOTAL_NODES
  Sensors,    \* sensors in the device tree
  MaxLinks,   \* bound: duplicate links that may pile up
  FaultSets   \* sets of FaultKinds: each behaviour suffers the faults of one

(***************************************************************************)
(* "call"    a call of a probe function fails                              *)
(* "bind"    a callback of the async framework fails, or the framework     *)
(*           refuses a registration                                        *)
(* "rebind"  a sensor is removed while the rest of the pipeline stays      *)
(***************************************************************************)
FaultKinds == {"call", "bind", "rebind"}

ASSUME ProbeAssumption ==
  /\ NumNodes \in Nat \ {0}
  /\ MaxLinks \in Nat \ {0}
  /\ FaultSets \subseteq SUBSET FaultKinds

VARIABLES
  pc,        \* the next call of each driver; "absent" and "ready" between
  held,      \* what each driver holds
  nodes,     \* video nodes registered so far
  removing,  \* the ISP driver is being removed, not unwinding a probe
  sens,      \* each sensor: absent, being matched, or ready
  seninf,    \* cam->seninf: NULL, or the bound sub-device
  slinks,    \* sensors bound to the sensor interface, with a pad link
  links,     \* pad links from the sensor interface to the ISP
  faults     \* what may go wrong in this behaviour, chosen once

asyncVars == <<sens, seninf, slinks, links>>
vars == <<pc, held, nodes, removing, asyncVars, faults>>

Init ==
  /\ pc = [cam |-> "absent", seninf |-> "absent"]
  /\ held = [cam |-> {}, seninf |-> {}]
  /\ nodes = 0
  /\ removing = FALSE
  /\ sens = [s \in Sensors |-> "absent"]
  /\ seninf = "NULL"
  /\ slinks = {}
  /\ links = 0
  /\ faults \in FaultSets

-----------------------------------------------------------------------------
(***************************************************************************)
(* The calls of a driver d.                                                *)
(***************************************************************************)
GoTo(d, next) == pc' = [pc EXCEPT ![d] = next]

\* A call that acquires r, or fails and jumps to a label.
Acquire(d, at, r, next, label) ==
  /\ pc[d] = at
  /\ \/ GoTo(d, next) /\ held' = [held EXCEPT ![d] = @ \cup {r}]
     \/ "call" \in faults /\ GoTo(d, label) /\ UNCHANGED held
  /\ UNCHANGED <<nodes, removing, asyncVars>>

\* A call that gives back rs.
Release(d, at, rs, next) ==
  /\ pc[d] = at
  /\ GoTo(d, next)
  /\ held' = [held EXCEPT ![d] = @ \ rs]
  /\ UNCHANGED <<nodes, removing, asyncVars>>

\* External: list_lock of the async framework is held while a registration
\* looks for what it matches.
Matching ==
  \/ pc.cam = "nf_match"
  \/ pc.seninf = "sd_match"
  \/ \E s \in Sensors : sens[s] = "match"

-----------------------------------------------------------------------------
(***************************************************************************)
(* mtk_isp_probe.                                                          *)
(***************************************************************************)

\* Everything before isp_setup_scp_rproc is managed by devm.
CamProbeStart ==
  /\ pc.cam = "absent"
  /\ GoTo("cam", "scp_get")
  /\ removing' = FALSE
  /\ UNCHANGED <<held, nodes, asyncVars>>

\* isp_setup_scp_rproc.
ScpGet == Acquire("cam", "scp_get", "scp", "dma_alloc", "absent")
DmaAlloc == Acquire("cam", "dma_alloc", "mem", "dma_map", "fail_put_scp")
DmaMap == Acquire("cam", "dma_map", "iova", "pm_enable", "fail_free_mem")
FailFreeMem == Release("cam", "fail_free_mem", {"mem"}, "fail_put_scp")
FailPutScp == Release("cam", "fail_put_scp", {"scp"}, "absent")

\* pm_runtime_enable, then mtk_cam_dev_init with its media_device_init.
PmEnable ==
  /\ pc.cam = "pm_enable"
  /\ GoTo("cam", "media_register")
  /\ held' = [held EXCEPT !.cam = @ \cup {"pm", "media_init"}]
  /\ UNCHANGED <<nodes, removing, asyncVars>>

\* mtk_cam_media_register: a failing media_device_register returns at once.
MediaRegister ==
  Acquire("cam", "media_register", "media", "media_pads", "teardown_scp")
MediaPads ==
  /\ pc.cam = "media_pads"
  /\ \/ GoTo("cam", "v4l2_register")
     \/ "call" \in faults /\ GoTo("cam", "fail_media_unreg")
  /\ UNCHANGED <<held, nodes, removing, asyncVars>>

\* mtk_cam_v4l2_register.
V4l2Register ==
  Acquire("cam", "v4l2_register", "v4l2", "subdev_finalize",
          "fail_media_unreg")
SubdevFinalize ==
  Acquire("cam", "subdev_finalize", "state", "subdev_register",
          "fail_clean_media_entity")
SubdevRegister ==
  Acquire("cam", "subdev_register", "subdev", "node_register",
          "fail_clean_media_entity")

\* mtk_cam_video_register_device: everything up to video_register_device
\* leaves nothing behind when it fails.
NodeRegister ==
  /\ pc.cam = "node_register"
  /\ \/ /\ nodes < NumNodes
        /\ \/ GoTo("cam", "node_link") /\ nodes' = nodes + 1
           \/ "call" \in faults /\ GoTo("cam", "fail_vdev_unreg")
              /\ UNCHANGED nodes
     \/ nodes = NumNodes /\ GoTo("cam", "nf_add") /\ UNCHANGED nodes
  /\ UNCHANGED <<held, removing, asyncVars>>

\* The pad link of the new node; on failure fail_vdev_ureg takes it back.
NodeLink ==
  /\ pc.cam = "node_link"
  /\ \/ GoTo("cam", "node_register")
     \/ "call" \in faults /\ GoTo("cam", "fail_vdev_ureg")
  /\ UNCHANGED <<held, nodes, removing, asyncVars>>
FailVdevUreg ==
  /\ pc.cam = "fail_vdev_ureg"
  /\ nodes' = nodes - 1
  /\ GoTo("cam", "fail_vdev_unreg")
  /\ UNCHANGED <<held, removing, asyncVars>>

\* fail_vdev_unreg: the nodes registered before, one after the other.
FailVdevUnreg ==
  /\ pc.cam = "fail_vdev_unreg"
  /\ \/ nodes > 0 /\ nodes' = nodes - 1 /\ UNCHANGED pc
     \/ nodes = 0 /\ GoTo("cam", "fail_clean_media_entity") /\ UNCHANGED nodes
  /\ UNCHANGED <<held, removing, asyncVars>>

\* v4l2_device_unregister takes the sub-devices of the device with it.
FailCleanMediaEntity ==
  Release("cam", "fail_clean_media_entity", {"subdev", "v4l2"},
          "fail_media_unreg")
FailMediaUnreg ==
  Release("cam", "fail_media_unreg", {"media", "media_init"}, "teardown_scp")

\* mtk_cam_v4l2_async_register: a failure while endpoints are parsed keeps
\* the connections added before it.
NfAdd ==
  /\ pc.cam = "nf_add"
  /\ \/ GoTo("cam", "nf_register") /\ held' = [held EXCEPT !.cam = @ \cup {"conns"}]
     \/ /\ "call" \in faults
        /\ GoTo("cam", "unreg_nodes")
        /\ held' \in {held, [held EXCEPT !.cam = @ \cup {"conns"}]}
  /\ UNCHANGED <<nodes, removing, asyncVars>>
NfRegister ==
  /\ ~Matching
  /\ Acquire("cam", "nf_register", "notifier", "nf_match", "nf_cleanup")
NfCleanup ==
  Release("cam", "nf_cleanup", {"conns"}, "unreg_nodes")

-----------------------------------------------------------------------------
(***************************************************************************)
(* mtk_cam_v4l2_unregister, of a failed mtk_cam_dev_init and of            *)
(* mtk_isp_remove, and the rest of both.                                   *)
(***************************************************************************)
UnregNodes ==
  /\ pc.cam = "unreg_nodes"
  /\ \/ nodes > 0 /\ nodes' = nodes - 1 /\ UNCHANGED pc
     \/ nodes = 0 /\ GoTo("cam", "unreg_subdev") /\ UNCHANGED nodes
  /\ UNCHANGED <<held, removing, asyncVars>>
UnregSubdev == Release("cam", "unreg_subdev", {"subdev"}, "unreg_v4l2")
UnregV4l2 == Release("cam", "unreg_v4l2", {"v4l2"}, "unreg_media")
UnregMedia ==
  Release("cam", "unreg_media", {"media", "media_init"},
          IF removing THEN "pm_disable" ELSE "teardown_scp")
PmDisable == Release("cam", "pm_disable", {"pm"}, "dma_unmap")

MutDmaUnmap == Release("cam", "dma_unmap", {}, "teardown_scp")

DmaUnmap == Release("cam", "dma_unmap", {"iova"}, "teardown_scp")
\* isp_teardown_scp_rproc.
TeardownScp == Release("cam", "teardown_scp", {"mem", "scp"}, "absent")

\* mtk_cam_dev_notifier_unbind; the framework removes the sub-device's links
\* and its sensors from the media graph.
UnbindSeninf ==
  /\ seninf' = "NULL"
  /\ slinks' = {}
  /\ links' = 0

MutCamRemove ==
  /\ pc.cam = "ready"
  /\ removing' = TRUE
  /\ GoTo("cam", "unreg_nodes")
  /\ UNCHANGED <<held, nodes, asyncVars>>

\* mtk_isp_remove: mtk_cam_v4l2_async_unregister first.
CamRemove ==
  /\ pc.cam = "ready"
  /\ ~Matching
  /\ removing' = TRUE
  /\ GoTo("cam", "unreg_nodes")
  /\ held' = [held EXCEPT !.cam = @ \ {"notifier", "conns"}]
  /\ UnbindSeninf
  /\ UNCHANGED <<nodes, sens>>

-----------------------------------------------------------------------------
(***************************************************************************)
(* seninf_probe and seninf_remove.                                         *)
(***************************************************************************)

SeninfProbeStart ==
  /\ pc.seninf = "absent"
  /\ GoTo("seninf", "ctrl_init")
  /\ UNCHANGED <<held, nodes, removing, asyncVars>>

\* seninf_initialize_controls.
CtrlInit ==
  Acquire("seninf", "ctrl_init", "ctrl", "pads_init", "failed_pm_enable")
PadsInit ==
  /\ pc.seninf = "pads_init"
  /\ \/ GoTo("seninf", "nf_add")
     \/ "call" \in faults /\ GoTo("seninf", "err_free_handler")
  /\ UNCHANGED <<held, nodes, removing, asyncVars>>

\* seninf_parse_fwnode: err_clean_entity keeps connections already added.
SeninfNfAdd ==
  /\ pc.seninf = "nf_add"
  /\ \/ GoTo("seninf", "nf_register")
        /\ held' = [held EXCEPT !.seninf = @ \cup {"conns"}]
     \/ /\ "call" \in faults
        /\ GoTo("seninf", "err_free_handler")
        /\ held' \in {held, [held EXCEPT !.seninf = @ \cup {"conns"}]}
  /\ UNCHANGED <<nodes, removing, asyncVars>>
SeninfNfRegister ==
  /\ ~Matching
  /\ Acquire("seninf", "nf_register", "notifier", "sd_register",
             "err_clean_notifier")
\* v4l2_async_register_subdev.
SdRegister ==
  /\ pc.seninf = "sd_register"
  /\ ~Matching
  /\ GoTo("seninf", "sd_match")
  /\ held' = [held EXCEPT !.seninf = @ \cup {"async"}]
  /\ UNCHANGED <<nodes, removing, asyncVars>>

\* err_clean_notififer: the connections go, the notifier stays registered.
ErrCleanNotifier ==
  Release("seninf", "err_clean_notifier", {"conns"}, "err_free_handler")
ErrFreeHandler ==
  Release("seninf", "err_free_handler", {"ctrl"}, "failed_pm_enable")

\* pm_runtime_enable follows a failed registration too.
SeninfPmEnable ==
  /\ pc.seninf \in {"pm_enable", "failed_pm_enable"}
  /\ GoTo("seninf", IF pc.seninf = "pm_enable" THEN "ready" ELSE "absent")
  /\ held' = [held EXCEPT !.seninf = @ \cup {"pm"}]
  /\ UNCHANGED <<nodes, removing, asyncVars>>

\* seninf_remove: v4l2_async_unregister_subdev takes the sub-device's notifier
\* with it and unbinds the sub-device.
SeninfRemove ==
  /\ pc.seninf = "ready"
  /\ ~Matching
  /\ GoTo("seninf", "ctrl_free")
  /\ held' = [held EXCEPT !.seninf = @ \ {"async", "notifier", "conns"}]
  /\ \/ seninf = "bound" /\ UnbindSeninf
     \/ seninf = "NULL" /\ UNCHANGED <<seninf, slinks, links>>
  /\ UNCHANGED <<nodes, removing, sens>>
CtrlFree == Release("seninf", "ctrl_free", {"ctrl"}, "pm_disable")
SeninfPmDisable == Release("seninf", "pm_disable", {"pm"}, "absent")

-----------------------------------------------------------------------------
(***************************************************************************)
(* Asynchronous binding.  External: the framework matches sub-devices and  *)
(* notifiers in the thread that registers one of them and completes when   *)
(* nothing is left waiting; an error of a callback fails the registration. *)
(***************************************************************************)
CanBindSeninf ==
  "notifier" \in held.cam /\ "async" \in held.seninf /\ seninf = "NULL"
CanBindSensor(s) ==
  /\ seninf = "bound" /\ "notifier" \in held.seninf
  /\ sens[s] # "absent" /\ s \notin slinks
AllBound == seninf = "bound" /\ slinks = Sensors

\* External: sensors come and go.  (Bound: until links have piled up.)
SensorProbe(s) ==
  /\ sens[s] = "absent"
  /\ links < MaxLinks
  /\ ~Matching
  /\ sens' = [sens EXCEPT ![s] = "match"]
  /\ UNCHANGED <<pc, held, nodes, removing, seninf, slinks, links>>
SensorRemove(s) ==
  /\ sens[s] = "ready"
  /\ ~Matching
  /\ s \in slinks => "rebind" \in faults
  /\ sens' = [sens EXCEPT ![s] = "absent"]
  /\ slinks' = slinks \ {s}
  /\ UNCHANGED <<pc, held, nodes, removing, seninf, links>>

\* External: the registration under way returns.
RegistrationDone ==
  /\ pc' = [cam |-> IF pc.cam = "nf_match" THEN "ready" ELSE pc.cam,
            seninf |-> IF pc.seninf = "sd_match" THEN "pm_enable" ELSE pc.seninf]
  /\ sens' = [s \in Sensors |-> IF sens[s] = "match" THEN "ready" ELSE sens[s]]

\* External: it fails; what it bound is unbound.
RegistrationFails ==
  /\ Matching
  /\ "bind" \in faults
  /\ pc' = [cam |-> IF pc.cam = "nf_match" THEN "nf_cleanup" ELSE pc.cam,
            seninf |-> IF pc.seninf = "sd_match" THEN "err_clean_notifier"
                       ELSE pc.seninf]
  /\ held' = [cam |-> IF pc.cam = "nf_match" THEN held.cam \ {"notifier"}
                      ELSE held.cam,
              seninf |-> IF pc.seninf = "sd_match" THEN held.seninf \ {"async"}
                         ELSE held.seninf]
  /\ sens' = [s \in Sensors |-> IF sens[s] = "match" THEN "absent" ELSE sens[s]]
  /\ \/ /\ pc.cam = "nf_match" \/ pc.seninf = "sd_match"
        /\ UnbindSeninf
     \/ /\ pc.cam # "nf_match" /\ pc.seninf # "sd_match"
        /\ slinks' = {s \in slinks : sens[s] # "match"}
        /\ UNCHANGED <<seninf, links>>
  /\ UNCHANGED <<nodes, removing>>

\* mtk_cam_dev_notifier_bound.
NotifierBound ==
  /\ Matching /\ CanBindSeninf
  /\ seninf' = "bound"
  /\ UNCHANGED <<pc, held, nodes, removing, sens, slinks, links>>

\* mtk_seninf_notifier_bound.
SeninfNotifierBound(s) ==
  /\ Matching /\ CanBindSensor(s)
  /\ slinks' = slinks \cup {s}
  /\ UNCHANGED <<pc, held, nodes, removing, sens, seninf, links>>

MutNotifierComplete ==
  /\ Matching /\ AllBound
  /\ RegistrationDone
  /\ UNCHANGED <<held, nodes, removing, seninf, slinks, links>>

\* mtk_cam_dev_notifier_complete: the link to the ISP is created, whether or
\* not an earlier completion has created one.
NotifierComplete ==
  /\ Matching /\ AllBound
  /\ links' = links + 1
  /\ RegistrationDone
  /\ UNCHANGED <<held, nodes, removing, seninf, slinks>>

\* It creates the link and fails to register the sub-device nodes, and with it
\* the sensor that came last; the link stays.  (With the sensor interface or
\* the ISP last, the link goes too: RegistrationFails.)
NotifierCompleteFails ==
  /\ "bind" \in faults
  /\ \E s \in Sensors : sens[s] = "match"
  /\ AllBound
  /\ links' = links + 1
  /\ sens' = [s \in Sensors |-> IF sens[s] = "match" THEN "absent" ELSE sens[s]]
  /\ slinks' = {s \in slinks : sens[s] # "match"}
  /\ UNCHANGED <<pc, held, nodes, removing, seninf>>

\* Something still waits: the registration returns without completing.
NotComplete ==
  /\ Matching
  /\ ~CanBindSeninf
  /\ \A s \in Sensors : ~CanBindSensor(s)
  /\ ~AllBound
  /\ RegistrationDone
  /\ UNCHANGED <<held, nodes, removing, seninf, slinks, links>>

-----------------------------------------------------------------------------
CamStep ==
  \/ CamProbeStart \/ ScpGet \/ DmaAlloc \/ DmaMap \/ PmEnable
  \/ MediaRegister \/ MediaPads \/ V4l2Register \/ SubdevFinalize
  \/ SubdevRegister \/ NodeRegister \/ NodeLink \/ NfAdd \/ NfRegister
  \/ FailFreeMem \/ FailPutScp \/ FailVdevUreg \/ FailVdevUnreg
  \/ FailCleanMediaEntity \/ FailMediaUnreg \/ NfCleanup
  \/ CamRemove \/ UnregNodes \/ UnregSubdev \/ UnregV4l2 \/ UnregMedia
  \/ PmDisable \/ DmaUnmap \/ TeardownScp

SeninfStep ==
  \/ SeninfProbeStart \/ CtrlInit \/ PadsInit \/ SeninfNfAdd
  \/ SeninfNfRegister \/ SdRegister \/ SeninfPmEnable
  \/ ErrCleanNotifier \/ ErrFreeHandler
  \/ SeninfRemove \/ CtrlFree \/ SeninfPmDisable

AsyncStep ==
  \/ NotifierBound \/ NotifierComplete \/ NotifierCompleteFails
  \/ NotComplete \/ RegistrationFails
  \/ \E s \in Sensors :
       SensorProbe(s) \/ SensorRemove(s) \/ SeninfNotifierBound(s)

Next ==
  /\ UNCHANGED faults
  /\ CamStep \/ SeninfStep \/ AsyncStep

Spec == Init /\ [][Next]_vars

-----------------------------------------------------------------------------
(***************************************************************************)
(* Properties.                                                             *)
(***************************************************************************)
Without(kinds) == faults \cap kinds = {}

\* Nothing outlives what it is built on, in any order of probe, failure and
\* removal: video nodes need the V4L2 and media devices, the sub-device its
\* V4L2 device, the async notifier all of these, the composer memory the SCP.
\* cam->seninf never points to a sub-device that is gone, and a sensor is bound
\* only below it.
ParentsOutlive ==
  LET c == held.cam IN
  /\ nodes > 0 => {"media", "v4l2", "subdev"} \subseteq c
  /\ "notifier" \in c => {"media", "v4l2", "subdev"} \subseteq c /\ nodes = NumNodes
  /\ "subdev" \in c => "v4l2" \in c
  /\ "v4l2" \in c => "media" \in c
  /\ "media" \in c => {"scp", "mem", "iova", "pm"} \subseteq c
  /\ "mem" \in c => "scp" \in c
  /\ seninf = "bound" => {"async", "notifier"} \subseteq held.seninf
                         /\ "notifier" \in c
  /\ slinks # {} \/ links > 0 => seninf = "bound"

\* After a failed probe or a removal users see nothing of a driver, and the
\* SCP, its memory, the controls and the async sub-device are given back.
\* When every call succeeds, mtk_isp_remove and seninf_remove give back all
\* that the probe functions took: no mapping of the composer memory, no
\* enabled runtime PM and no notifier stays.  Only the sub-device state of
\* v4l2_subdev_init_finalize does.  (Failed probes also leave the mapping,
\* runtime PM, connections and, in the seninf, the notifier.)
RemoveReleasesAll ==
  /\ pc.cam = "absent" =>
       /\ nodes = 0
       /\ held.cam \subseteq {"iova", "pm", "media_init", "state", "conns"}
       /\ Without({"call", "bind"}) => held.cam \subseteq {"state"}
  /\ pc.seninf = "absent" =>
       /\ held.seninf \cap {"ctrl", "async"} = {}
       /\ Without({"call", "bind"}) => held.seninf = {}

\* Whatever the order in which the three kinds of driver arrive, once all are
\* bound the sensor interface has exactly one link to the ISP, which
\* mtk_cam_cio_stream_on needs.  (A sensor that comes back completes the
\* notifier again and creates a second link, as does a failed completion.)
OneLink ==
  /\ AllBound /\ ~Matching => links > 0
  /\ Without({"bind", "rebind"}) => links <= 1
=============================================================================
