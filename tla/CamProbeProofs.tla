--------------------------- MODULE CamProbeProofs ---------------------------
(***************************************************************************)
(* Proofs about CamProbe, for every number of nodes and sensors.           *)
(***************************************************************************)
EXTENDS CamProbe, TLAPS

CamResources == {"scp", "mem", "iova", "pm", "media_init", "media", "v4l2",
                 "state", "subdev", "conns", "notifier"}
SeninfResources == {"ctrl", "conns", "notifier", "async", "pm"}

(***************************************************************************)
(* The steps of the ISP driver at which it holds each resource.            *)
(***************************************************************************)
NotifierPC == {"nf_match", "ready"}

\* The steps with all video nodes registered.
FullPC == {"nf_add", "nf_register", "nf_cleanup"} \cup NotifierPC

NodesPC == {"node_register", "node_link", "fail_vdev_ureg", "fail_vdev_unreg",
            "unreg_nodes"} \cup FullPC

SubdevPC == {"unreg_subdev"} \cup NodesPC

\* The sub-device may not be registered yet when it is unregistered.
V4l2PC == {"subdev_finalize", "subdev_register", "fail_clean_media_entity",
           "unreg_v4l2"} \cup SubdevPC

MediaPC == {"media_pads", "v4l2_register", "fail_media_unreg", "unreg_media"}
             \cup V4l2PC

MemPC == {"dma_map", "fail_free_mem", "pm_enable", "media_register", "pm_disable",
          "dma_unmap", "teardown_scp"} \cup MediaPC

ScpPC == {"dma_alloc", "fail_put_scp"} \cup MemPC

CamPC == {"absent", "scp_get"} \cup ScpPC

(***************************************************************************)
(* The steps of the sensor interface driver.                               *)
(***************************************************************************)
AsyncPC == {"sd_match", "pm_enable", "ready"}

CtrlPC == {"pads_init", "nf_add", "nf_register", "sd_register", "err_clean_notifier",
           "err_free_handler", "ctrl_free"} \cup AsyncPC

SeninfPC == {"absent", "ctrl_init", "failed_pm_enable", "pm_disable"} \cup CtrlPC

TypeInv ==
  /\ pc \in [cam : CamPC, seninf : SeninfPC]
  /\ held \in [cam : SUBSET CamResources, seninf : SUBSET SeninfResources]
  /\ nodes \in 0 .. NumNodes
  /\ removing \in BOOLEAN
  /\ sens \in [Sensors -> {"absent", "match", "ready"}]
  /\ seninf \in {"NULL", "bound"}
  /\ slinks \subseteq Sensors
  /\ links \in Nat

\* The ISP driver holds what its step says.
CamInv ==
  LET c == held.cam
      at == pc.cam
  IN  /\ "scp" \in c <=> at \in ScpPC
      /\ "mem" \in c <=> at \in MemPC
      /\ at \in MediaPC \cup {"pm_enable", "media_register"} => "iova" \in c
      /\ at \in MediaPC \cup {"media_register"} => "pm" \in c
      /\ "media" \in c <=> at \in MediaPC
      /\ "v4l2" \in c <=> at \in V4l2PC
      /\ at \in SubdevPC => "subdev" \in c
      /\ "subdev" \in c => at \in SubdevPC \cup {"fail_clean_media_entity"}
      /\ "notifier" \in c <=> at \in NotifierPC
      /\ nodes > 0 => at \in NodesPC
      /\ at \in FullPC => nodes = NumNodes
      /\ at \in {"node_link", "fail_vdev_ureg"} => nodes > 0

\* The sensor interface driver, likewise.
SeninfInv ==
  LET h == held.seninf
      at == pc.seninf
  IN  /\ "ctrl" \in h <=> at \in CtrlPC
      /\ "async" \in h <=> at \in AsyncPC
      /\ at \in AsyncPC \cup {"sd_register"} => "notifier" \in h

\* The steps only a failed call leads to, and those of mtk_cam_v4l2_unregister.
FailPC == {"fail_free_mem", "fail_put_scp", "fail_vdev_ureg", "fail_vdev_unreg",
           "fail_clean_media_entity", "fail_media_unreg", "nf_cleanup"}
UnregPC == {"unreg_nodes", "unreg_subdev", "unreg_v4l2", "unreg_media"}

\* When every call succeeds, each driver holds nothing more than its step says:
\* what a probe takes, the removal has a step for.  (But for "state".)
CleanInv ==
  LET c == held.cam
      at == pc.cam
      h == held.seninf
      sat == pc.seninf
  IN  Without({"call", "bind"}) =>
        /\ at \notin FailPC
        /\ at \in UnregPC => removing
        /\ "iova" \in c => at \in MediaPC \cup {"pm_enable", "media_register",
                                                "pm_disable", "dma_unmap"}
        /\ "pm" \in c => at \in MediaPC \cup {"media_register", "pm_disable"}
        /\ "media_init" \in c => at \in MediaPC \cup {"media_register"}
        /\ "conns" \in c => at \in {"nf_register"} \cup NotifierPC
        /\ sat \notin {"failed_pm_enable", "err_clean_notifier", "err_free_handler"}
        /\ "conns" \in h => sat \in {"nf_register", "sd_register"} \cup AsyncPC
        /\ "notifier" \in h => sat \in {"sd_register"} \cup AsyncPC
        /\ "pm" \in h => sat \in {"ready", "ctrl_free", "pm_disable"}

\* The sub-device in use is there, with the sensors and the link below it.
BoundInv ==
  /\ seninf = "bound" => /\ {"async", "notifier"} \subseteq held.seninf
                         /\ "notifier" \in held.cam
  /\ slinks # {} \/ links > 0 => seninf = "bound"
  /\ \A s \in slinks : sens[s] # "absent"

\* The link to the ISP exists when all are bound; it is the only one as long as
\* nothing can complete again.
LinkInv ==
  /\ AllBound => Matching \/ links > 0
  /\ Without({"bind", "rebind"}) /\ links > 0 => AllBound /\ ~Matching /\ links = 1

-----------------------------------------------------------------------------
(***************************************************************************)
(* The steps of the ISP driver.                                            *)
(***************************************************************************)

\* All that a step of the ISP driver but its removal does to the rest: nothing.
\* Before its notifier is registered nothing is bound.
LEMMA CamQuiet ==
  ASSUME TypeInv, CamInv, BoundInv, pc.cam \notin NotifierPC,
         UNCHANGED <<sens, seninf, slinks, links>>
  PROVE  BoundInv' /\ LinkInv'
<1>1. seninf = "NULL" /\ slinks = {} /\ links = 0
  BY DEF TypeInv, CamInv, BoundInv
<1>2. QED
  BY <1>1 DEF BoundInv, LinkInv, AllBound

\* Each step of the ISP driver but its removal ends where its invariant says
\* what it holds.
LEMMA CamCalls ==
  ASSUME ProbeAssumption, TypeInv, CamInv, CleanInv, CamStep, ~CamRemove, UNCHANGED faults
  PROVE  /\ TypeInv' /\ CamInv' /\ CleanInv'
         /\ pc.cam \notin NotifierPC
         /\ pc'.seninf = pc.seninf /\ held'.seninf = held.seninf
         /\ UNCHANGED <<sens, seninf, slinks, links>>
<1> DEFINE Ends == /\ TypeInv' /\ CamInv' /\ CleanInv'
                   /\ pc.cam \notin NotifierPC
                   /\ pc'.seninf = pc.seninf /\ held'.seninf = held.seninf
                   /\ UNCHANGED <<sens, seninf, slinks, links>>
<1>1. ASSUME CamProbeStart PROVE Ends
  BY <1>1 DEF CamProbeStart, GoTo, asyncVars, ProbeAssumption, TypeInv, CamInv, CleanInv, Without, FailPC, UnregPC, CamResources, NotifierPC, FullPC,
       NodesPC, SubdevPC, V4l2PC, MediaPC, MemPC, ScpPC, CamPC
<1>2. ASSUME ScpGet PROVE Ends
  BY <1>2 DEF ScpGet, Acquire, GoTo, asyncVars, TypeInv, CamInv, CleanInv, Without, FailPC, UnregPC, CamResources, NotifierPC, FullPC,
       NodesPC, SubdevPC, V4l2PC, MediaPC, MemPC, ScpPC, CamPC
<1>3. ASSUME DmaAlloc PROVE Ends
  BY <1>3 DEF DmaAlloc, Acquire, GoTo, asyncVars, TypeInv, CamInv, CleanInv, Without, FailPC, UnregPC, CamResources, NotifierPC, FullPC,
       NodesPC, SubdevPC, V4l2PC, MediaPC, MemPC, ScpPC, CamPC
<1>4. ASSUME DmaMap PROVE Ends
  BY <1>4 DEF DmaMap, Acquire, GoTo, asyncVars, TypeInv, CamInv, CleanInv, Without, FailPC, UnregPC, CamResources, NotifierPC, FullPC,
       NodesPC, SubdevPC, V4l2PC, MediaPC, MemPC, ScpPC, CamPC
<1>5. ASSUME PmEnable PROVE Ends
  BY <1>5 DEF PmEnable, GoTo, asyncVars, ProbeAssumption, TypeInv, CamInv, CleanInv, Without, FailPC, UnregPC, CamResources, NotifierPC, FullPC,
       NodesPC, SubdevPC, V4l2PC, MediaPC, MemPC, ScpPC, CamPC
<1>6. ASSUME MediaRegister PROVE Ends
  BY <1>6 DEF MediaRegister, Acquire, GoTo, asyncVars, TypeInv, CamInv, CleanInv, Without, FailPC, UnregPC, CamResources, NotifierPC, FullPC,
       NodesPC, SubdevPC, V4l2PC, MediaPC, MemPC, ScpPC, CamPC
<1>7. ASSUME MediaPads PROVE Ends
  BY <1>7 DEF MediaPads, GoTo, asyncVars, ProbeAssumption, TypeInv, CamInv, CleanInv, Without, FailPC, UnregPC, CamResources, NotifierPC, FullPC,
       NodesPC, SubdevPC, V4l2PC, MediaPC, MemPC, ScpPC, CamPC
<1>8. ASSUME V4l2Register PROVE Ends
  BY <1>8 DEF V4l2Register, Acquire, GoTo, asyncVars, TypeInv, CamInv, CleanInv, Without, FailPC, UnregPC, CamResources, NotifierPC, FullPC,
       NodesPC, SubdevPC, V4l2PC, MediaPC, MemPC, ScpPC, CamPC
<1>9. ASSUME SubdevFinalize PROVE Ends
  BY <1>9 DEF SubdevFinalize, Acquire, GoTo, asyncVars, TypeInv, CamInv, CleanInv, Without, FailPC, UnregPC, CamResources, NotifierPC, FullPC,
       NodesPC, SubdevPC, V4l2PC, MediaPC, MemPC, ScpPC, CamPC
<1>10. ASSUME SubdevRegister PROVE Ends
  BY <1>10 DEF SubdevRegister, Acquire, GoTo, asyncVars, TypeInv, CamInv, CleanInv, Without, FailPC, UnregPC, CamResources, NotifierPC, FullPC,
       NodesPC, SubdevPC, V4l2PC, MediaPC, MemPC, ScpPC, CamPC
<1>11. ASSUME NodeRegister PROVE Ends
  BY <1>11 DEF NodeRegister, GoTo, asyncVars, ProbeAssumption, TypeInv, CamInv, CleanInv, Without, FailPC, UnregPC, CamResources, NotifierPC, FullPC,
       NodesPC, SubdevPC, V4l2PC, MediaPC, MemPC, ScpPC, CamPC
<1>12. ASSUME NodeLink PROVE Ends
  BY <1>12 DEF NodeLink, GoTo, asyncVars, ProbeAssumption, TypeInv, CamInv, CleanInv, Without, FailPC, UnregPC, CamResources, NotifierPC, FullPC,
       NodesPC, SubdevPC, V4l2PC, MediaPC, MemPC, ScpPC, CamPC
<1>13. ASSUME NfAdd PROVE Ends
  BY <1>13 DEF NfAdd, GoTo, asyncVars, ProbeAssumption, TypeInv, CamInv, CleanInv, Without, FailPC, UnregPC, CamResources, NotifierPC, FullPC,
       NodesPC, SubdevPC, V4l2PC, MediaPC, MemPC, ScpPC, CamPC
<1>14. ASSUME NfRegister PROVE Ends
  BY <1>14 DEF NfRegister, Acquire, GoTo, asyncVars, TypeInv, CamInv, CleanInv, Without, FailPC, UnregPC, CamResources, NotifierPC, FullPC,
       NodesPC, SubdevPC, V4l2PC, MediaPC, MemPC, ScpPC, CamPC
<1>15. ASSUME FailFreeMem PROVE Ends
  BY <1>15 DEF FailFreeMem, Release, GoTo, asyncVars, TypeInv, CamInv, CleanInv, Without, FailPC, UnregPC, CamResources, NotifierPC, FullPC,
       NodesPC, SubdevPC, V4l2PC, MediaPC, MemPC, ScpPC, CamPC
<1>16. ASSUME FailPutScp PROVE Ends
  BY <1>16 DEF FailPutScp, Release, GoTo, asyncVars, TypeInv, CamInv, CleanInv, Without, FailPC, UnregPC, CamResources, NotifierPC, FullPC,
       NodesPC, SubdevPC, V4l2PC, MediaPC, MemPC, ScpPC, CamPC
<1>17. ASSUME FailVdevUreg PROVE Ends
  BY <1>17 DEF FailVdevUreg, GoTo, asyncVars, ProbeAssumption, TypeInv, CamInv, CleanInv, Without, FailPC, UnregPC, CamResources, NotifierPC, FullPC,
       NodesPC, SubdevPC, V4l2PC, MediaPC, MemPC, ScpPC, CamPC
<1>18. ASSUME FailVdevUnreg PROVE Ends
  BY <1>18 DEF FailVdevUnreg, GoTo, asyncVars, ProbeAssumption, TypeInv, CamInv, CleanInv, Without, FailPC, UnregPC, CamResources, NotifierPC, FullPC,
       NodesPC, SubdevPC, V4l2PC, MediaPC, MemPC, ScpPC, CamPC
<1>19. ASSUME FailCleanMediaEntity PROVE Ends
  BY <1>19 DEF FailCleanMediaEntity, Release, GoTo, asyncVars, TypeInv, CamInv, CleanInv, Without, FailPC, UnregPC, CamResources, NotifierPC, FullPC,
       NodesPC, SubdevPC, V4l2PC, MediaPC, MemPC, ScpPC, CamPC
<1>20. ASSUME FailMediaUnreg PROVE Ends
  BY <1>20 DEF FailMediaUnreg, Release, GoTo, asyncVars, TypeInv, CamInv, CleanInv, Without, FailPC, UnregPC, CamResources, NotifierPC, FullPC,
       NodesPC, SubdevPC, V4l2PC, MediaPC, MemPC, ScpPC, CamPC
<1>21. ASSUME NfCleanup PROVE Ends
  BY <1>21 DEF NfCleanup, Release, GoTo, asyncVars, TypeInv, CamInv, CleanInv, Without, FailPC, UnregPC, CamResources, NotifierPC, FullPC,
       NodesPC, SubdevPC, V4l2PC, MediaPC, MemPC, ScpPC, CamPC
<1>22. ASSUME UnregNodes PROVE Ends
  BY <1>22 DEF UnregNodes, GoTo, asyncVars, ProbeAssumption, TypeInv, CamInv, CleanInv, Without, FailPC, UnregPC, CamResources, NotifierPC, FullPC,
       NodesPC, SubdevPC, V4l2PC, MediaPC, MemPC, ScpPC, CamPC
<1>23. ASSUME UnregSubdev PROVE Ends
  BY <1>23 DEF UnregSubdev, Release, GoTo, asyncVars, TypeInv, CamInv, CleanInv, Without, FailPC, UnregPC, CamResources, NotifierPC, FullPC,
       NodesPC, SubdevPC, V4l2PC, MediaPC, MemPC, ScpPC, CamPC
<1>24. ASSUME UnregV4l2 PROVE Ends
  BY <1>24 DEF UnregV4l2, Release, GoTo, asyncVars, TypeInv, CamInv, CleanInv, Without, FailPC, UnregPC, CamResources, NotifierPC, FullPC,
       NodesPC, SubdevPC, V4l2PC, MediaPC, MemPC, ScpPC, CamPC
<1>25. ASSUME UnregMedia PROVE Ends
  BY <1>25 DEF UnregMedia, Release, GoTo, asyncVars, TypeInv, CamInv, CleanInv, Without, FailPC, UnregPC, CamResources, NotifierPC, FullPC,
       NodesPC, SubdevPC, V4l2PC, MediaPC, MemPC, ScpPC, CamPC
<1>26. ASSUME PmDisable PROVE Ends
  BY <1>26 DEF PmDisable, Release, GoTo, asyncVars, TypeInv, CamInv, CleanInv, Without, FailPC, UnregPC, CamResources, NotifierPC, FullPC,
       NodesPC, SubdevPC, V4l2PC, MediaPC, MemPC, ScpPC, CamPC
<1>27. ASSUME DmaUnmap PROVE Ends
  BY <1>27 DEF DmaUnmap, Release, GoTo, asyncVars, TypeInv, CamInv, CleanInv, Without, FailPC, UnregPC, CamResources, NotifierPC, FullPC,
       NodesPC, SubdevPC, V4l2PC, MediaPC, MemPC, ScpPC, CamPC
<1>28. ASSUME TeardownScp PROVE Ends
  BY <1>28 DEF TeardownScp, Release, GoTo, asyncVars, TypeInv, CamInv, CleanInv, Without, FailPC, UnregPC, CamResources, NotifierPC, FullPC,
       NodesPC, SubdevPC, V4l2PC, MediaPC, MemPC, ScpPC, CamPC
<1>29. QED
  BY <1>1, <1>2, <1>3, <1>4, <1>5, <1>6, <1>7, <1>8, <1>9, <1>10, <1>11, <1>12, <1>13, <1>14, <1>15, <1>16, <1>17, <1>18, <1>19, <1>20, <1>21, <1>22, <1>23, <1>24, <1>25, <1>26, <1>27, <1>28 DEF CamStep

\* mtk_isp_remove unbinds the sub-device before it takes anything else down.
LEMMA CamRemoveStep ==
  ASSUME ProbeAssumption, TypeInv, CamInv, SeninfInv, CleanInv, BoundInv, LinkInv,
         CamRemove, UNCHANGED faults
  PROVE  TypeInv' /\ CamInv' /\ SeninfInv' /\ CleanInv' /\ BoundInv' /\ LinkInv'
<1>1. TypeInv' /\ CamInv' /\ SeninfInv' /\ CleanInv'
  BY DEF CamRemove, GoTo, UnbindSeninf, TypeInv, CamInv, SeninfInv, CleanInv, Without,
         FailPC, UnregPC, CamResources, NotifierPC, FullPC, NodesPC, SubdevPC, V4l2PC,
         MediaPC, MemPC, ScpPC, CamPC
<1>2. seninf' = "NULL" /\ slinks' = {} /\ links' = 0
  BY DEF CamRemove, UnbindSeninf
<1>3. BoundInv' /\ LinkInv'
  BY <1>2 DEF BoundInv, LinkInv, AllBound
<1>4. QED
  BY <1>1, <1>3

-----------------------------------------------------------------------------
(***************************************************************************)
(* The steps of the sensor interface driver.                               *)
(***************************************************************************)

\* Each step of the sensor interface driver but its removal ends where its
\* invariant says what it holds.
LEMMA SeninfCalls ==
  ASSUME TypeInv, CamInv, SeninfInv, CleanInv, SeninfStep, ~SeninfRemove, UNCHANGED faults
  PROVE  /\ TypeInv' /\ SeninfInv' /\ CleanInv'
         /\ pc'.cam = pc.cam /\ held'.cam = held.cam
         /\ UNCHANGED <<nodes, sens, seninf, slinks, links>>
         /\ \/ pc.seninf \notin AsyncPC
            \/ /\ pc.seninf # "sd_match" /\ pc'.seninf # "sd_match"
               /\ held.seninf \subseteq held'.seninf
<1> DEFINE Ends == /\ TypeInv' /\ SeninfInv' /\ CleanInv'
                   /\ pc'.cam = pc.cam /\ held'.cam = held.cam
                   /\ UNCHANGED <<nodes, sens, seninf, slinks, links>>
                   /\ \/ pc.seninf \notin AsyncPC
                      \/ /\ pc.seninf # "sd_match" /\ pc'.seninf # "sd_match"
                         /\ held.seninf \subseteq held'.seninf
<1>1. ASSUME SeninfProbeStart PROVE Ends
  BY <1>1 DEF SeninfProbeStart, GoTo, asyncVars, TypeInv, SeninfInv, CleanInv, Without,
       SeninfResources, AsyncPC, CtrlPC, SeninfPC
<1>2. ASSUME CtrlInit PROVE Ends
  BY <1>2 DEF CtrlInit, Acquire, GoTo, asyncVars, TypeInv, SeninfInv, CleanInv, Without,
       SeninfResources, AsyncPC, CtrlPC, SeninfPC
<1>3. ASSUME PadsInit PROVE Ends
  BY <1>3 DEF PadsInit, GoTo, asyncVars, TypeInv, SeninfInv, CleanInv, Without,
       SeninfResources, AsyncPC, CtrlPC, SeninfPC
<1>4. ASSUME SeninfNfAdd PROVE Ends
  BY <1>4 DEF SeninfNfAdd, GoTo, asyncVars, TypeInv, SeninfInv, CleanInv, Without,
       SeninfResources, AsyncPC, CtrlPC, SeninfPC
<1>5. ASSUME SeninfNfRegister PROVE Ends
  BY <1>5 DEF SeninfNfRegister, Acquire, GoTo, asyncVars, TypeInv, SeninfInv, CleanInv, Without,
       SeninfResources, AsyncPC, CtrlPC, SeninfPC
<1>6. ASSUME SdRegister PROVE Ends
  BY <1>6 DEF SdRegister, GoTo, asyncVars, TypeInv, SeninfInv, CleanInv, Without,
       SeninfResources, AsyncPC, CtrlPC, SeninfPC
<1>7. ASSUME SeninfPmEnable PROVE Ends
  BY <1>7 DEF SeninfPmEnable, GoTo, asyncVars, TypeInv, SeninfInv, CleanInv, Without,
       SeninfResources, AsyncPC, CtrlPC, SeninfPC
<1>8. ASSUME ErrCleanNotifier PROVE Ends
  BY <1>8 DEF ErrCleanNotifier, Release, GoTo, asyncVars, TypeInv, SeninfInv, CleanInv, Without,
       SeninfResources, AsyncPC, CtrlPC, SeninfPC
<1>9. ASSUME ErrFreeHandler PROVE Ends
  BY <1>9 DEF ErrFreeHandler, Release, GoTo, asyncVars, TypeInv, SeninfInv, CleanInv, Without,
       SeninfResources, AsyncPC, CtrlPC, SeninfPC
<1>10. ASSUME CtrlFree PROVE Ends
  BY <1>10 DEF CtrlFree, Release, GoTo, asyncVars, TypeInv, SeninfInv, CleanInv, Without,
       SeninfResources, AsyncPC, CtrlPC, SeninfPC
<1>11. ASSUME SeninfPmDisable PROVE Ends
  BY <1>11 DEF SeninfPmDisable, Release, GoTo, asyncVars, TypeInv, SeninfInv, CleanInv, Without,
       SeninfResources, AsyncPC, CtrlPC, SeninfPC
<1>12. QED
  BY <1>1, <1>2, <1>3, <1>4, <1>5, <1>6, <1>7, <1>8, <1>9, <1>10, <1>11 DEF SeninfStep

\* Before its sub-device is registered nothing is bound; afterwards its steps
\* only add to what it holds.
LEMMA SeninfQuiet ==
  ASSUME TypeInv, SeninfInv, BoundInv, LinkInv, UNCHANGED faults,
         UNCHANGED <<sens, seninf, slinks, links>>,
         pc'.cam = pc.cam, held'.cam = held.cam,
         \/ pc.seninf \notin AsyncPC
         \/ /\ pc.seninf # "sd_match" /\ pc'.seninf # "sd_match"
            /\ held.seninf \subseteq held'.seninf
  PROVE  BoundInv' /\ LinkInv'
<1>1. CASE pc.seninf \notin AsyncPC
  <2>1. seninf = "NULL" /\ slinks = {} /\ links = 0
    BY <1>1 DEF TypeInv, SeninfInv, BoundInv
  <2>2. QED
    BY <2>1 DEF BoundInv, LinkInv, AllBound
<1>2. CASE /\ pc.seninf # "sd_match" /\ pc'.seninf # "sd_match"
           /\ held.seninf \subseteq held'.seninf
  <2>1. Matching' <=> Matching
    BY <1>2 DEF Matching
  <2>2. BoundInv'
    BY <1>2 DEF BoundInv
  <2>3. LinkInv'
    BY <2>1 DEF LinkInv, AllBound, Without
  <2>4. QED
    BY <2>2, <2>3
<1>3. QED
  BY <1>1, <1>2

\* CamInv tells of the ISP driver only, SeninfInv of the sensor interface driver.
LEMMA OtherDriver ==
  /\ CamInv /\ pc'.cam = pc.cam /\ held'.cam = held.cam /\ nodes' = nodes => CamInv'
  /\ SeninfInv /\ pc'.seninf = pc.seninf /\ held'.seninf = held.seninf => SeninfInv'
BY DEF CamInv, SeninfInv

\* seninf_remove unbinds the sub-device, and with it all that was bound.
LEMMA SeninfRemoveStep ==
  ASSUME TypeInv, CamInv, SeninfInv, CleanInv, BoundInv, LinkInv, SeninfRemove,
         UNCHANGED faults
  PROVE  TypeInv' /\ CamInv' /\ SeninfInv' /\ CleanInv' /\ BoundInv' /\ LinkInv'
<1>1. TypeInv' /\ SeninfInv' /\ CleanInv'
  BY DEF SeninfRemove, GoTo, UnbindSeninf, TypeInv, SeninfInv, CleanInv, Without,
         SeninfResources, AsyncPC, CtrlPC, SeninfPC
<1>2. pc'.cam = pc.cam /\ held'.cam = held.cam /\ nodes' = nodes
  BY DEF SeninfRemove, GoTo, TypeInv
<1>3. CamInv'
  BY <1>2, OtherDriver
<1>4. seninf' = "NULL" /\ slinks' = {} /\ links' = 0
  BY DEF SeninfRemove, UnbindSeninf, TypeInv, BoundInv
<1>5. BoundInv' /\ LinkInv'
  BY <1>4 DEF BoundInv, LinkInv, AllBound
<1>6. QED
  BY <1>1, <1>3, <1>5

-----------------------------------------------------------------------------
(***************************************************************************)
(* The steps of the async framework and of the sensors.                    *)
(***************************************************************************)
DriverInv == TypeInv /\ CamInv /\ SeninfInv /\ CleanInv

ProbeInv == DriverInv /\ BoundInv /\ LinkInv

\* What ends a registration leaves each driver at a step that fits.
LEMMA RegistrationEnds ==
  ASSUME DriverInv, UNCHANGED faults, UNCHANGED <<nodes, removing, seninf>>,
         slinks' \subseteq Sensors, links' \in Nat, RegistrationDone, UNCHANGED held
  PROVE  DriverInv'
<1>1. /\ pc'.cam = IF pc.cam = "nf_match" THEN "ready" ELSE pc.cam
      /\ pc'.seninf = IF pc.seninf = "sd_match" THEN "pm_enable" ELSE pc.seninf
  BY DEF RegistrationDone
<1>2. TypeInv'
  BY DEF DriverInv, TypeInv, RegistrationDone, CamPC, ScpPC, MemPC, MediaPC, V4l2PC, SubdevPC,
         NodesPC, FullPC, NotifierPC, SeninfPC, CtrlPC, AsyncPC
<1>3. CamInv'
  BY <1>1 DEF DriverInv, CamInv, ScpPC, MemPC, MediaPC, V4l2PC, SubdevPC, NodesPC, FullPC, NotifierPC
<1>4. SeninfInv'
  BY <1>1 DEF DriverInv, SeninfInv, CtrlPC, AsyncPC
<1>5. CleanInv'
  BY <1>1 DEF DriverInv, CleanInv, Without, FailPC, UnregPC, MediaPC, V4l2PC, SubdevPC, NodesPC,
         FullPC, NotifierPC, AsyncPC
<1>6. QED
  BY <1>2, <1>3, <1>4, <1>5 DEF DriverInv

\* A step that is none of the drivers' leaves what they hold as it is.
LEMMA DriversStay ==
  ASSUME DriverInv, UNCHANGED faults, UNCHANGED <<pc, held, nodes, removing>>,
         sens' \in [Sensors -> {"absent", "match", "ready"}],
         seninf' \in {"NULL", "bound"}, slinks' \subseteq Sensors, links' \in Nat
  PROVE  DriverInv'
BY DEF DriverInv, TypeInv, CamInv, SeninfInv, CleanInv, Without

\* mtk_cam_dev_notifier_bound sets cam->seninf while nothing is below it.
LEMMA NotifierBoundStep ==
  ASSUME ProbeInv, NotifierBound, UNCHANGED faults
  PROVE  ProbeInv'
<1>1. DriverInv'
  BY DriversStay DEF ProbeInv, DriverInv, TypeInv, NotifierBound
<1>2. slinks = {} /\ links = 0
  BY DEF ProbeInv, DriverInv, TypeInv, BoundInv, NotifierBound, CanBindSeninf
<1>3. BoundInv'
  BY <1>2 DEF ProbeInv, BoundInv, NotifierBound, CanBindSeninf, DriverInv, SeninfInv, TypeInv, AsyncPC
<1>4. LinkInv'
  BY <1>2 DEF LinkInv, NotifierBound, Matching
<1>5. QED
  BY <1>1, <1>3, <1>4 DEF ProbeInv

\* mtk_seninf_notifier_bound adds a sensor that is there.
LEMMA SeninfNotifierBoundStep ==
  ASSUME ProbeInv, NEW s \in Sensors, SeninfNotifierBound(s), UNCHANGED faults
  PROVE  ProbeInv'
<1>1. DriverInv'
  BY DriversStay DEF ProbeInv, DriverInv, TypeInv, SeninfNotifierBound
<1>2. BoundInv'
  BY DEF ProbeInv, BoundInv, SeninfNotifierBound, CanBindSensor
<1>3. LinkInv'
  BY DEF ProbeInv, LinkInv, SeninfNotifierBound, Matching, Without
<1>4. QED
  BY <1>1, <1>2, <1>3 DEF ProbeInv

\* The completion creates the link; nothing matches any more.
LEMMA NotifierCompleteStep ==
  ASSUME ProbeInv, NotifierComplete, UNCHANGED faults
  PROVE  ProbeInv'
<1>1. DriverInv'
  BY RegistrationEnds DEF ProbeInv, DriverInv, TypeInv, NotifierComplete
<1>2. BoundInv'
  BY DEF ProbeInv, BoundInv, NotifierComplete, AllBound, RegistrationDone
<1>3. ~Matching'
  BY DEF Matching, NotifierComplete, RegistrationDone
<1>4. LinkInv'
  BY <1>3 DEF ProbeInv, DriverInv, TypeInv, LinkInv, NotifierComplete, AllBound, Without
<1>5. QED
  BY <1>1, <1>2, <1>4 DEF ProbeInv

\* A completion that fails leaves its link, without the sensor that came last.
LEMMA NotifierCompleteFailsStep ==
  ASSUME ProbeInv, NotifierCompleteFails, UNCHANGED faults
  PROVE  ProbeInv'
<1>1. DriverInv'
  BY DriversStay DEF ProbeInv, DriverInv, TypeInv, NotifierCompleteFails
<1>2. BoundInv'
  BY DEF ProbeInv, BoundInv, NotifierCompleteFails, AllBound, DriverInv, TypeInv
<1>3. LinkInv'
  BY DEF ProbeInv, LinkInv, NotifierCompleteFails, AllBound, Without, DriverInv, TypeInv
<1>4. QED
  BY <1>1, <1>2, <1>3 DEF ProbeInv

\* A registration that leaves something waiting creates no link.
LEMMA NotCompleteStep ==
  ASSUME ProbeInv, NotComplete, UNCHANGED faults
  PROVE  ProbeInv'
<1>1. DriverInv'
  BY RegistrationEnds DEF ProbeInv, DriverInv, TypeInv, NotComplete
<1>2. BoundInv'
  BY DEF ProbeInv, DriverInv, TypeInv, BoundInv, NotComplete, RegistrationDone
<1>3. LinkInv'
  BY DEF ProbeInv, LinkInv, NotComplete, AllBound, Without
<1>4. QED
  BY <1>1, <1>2, <1>3 DEF ProbeInv

\* A registration that fails unbinds what it bound: with a driver's, all; with
\* a sensor's, the sensor.
LEMMA RegistrationFailsStep ==
  ASSUME ProbeInv, RegistrationFails, UNCHANGED faults
  PROVE  ProbeInv'
<1> DEFINE camFails == pc.cam = "nf_match"
           seninfFails == pc.seninf = "sd_match"
<1>1. /\ pc'.cam = IF camFails THEN "nf_cleanup" ELSE pc.cam
      /\ pc'.seninf = IF seninfFails THEN "err_clean_notifier" ELSE pc.seninf
      /\ held'.cam = IF camFails THEN held.cam \ {"notifier"} ELSE held.cam
      /\ held'.seninf = IF seninfFails THEN held.seninf \ {"async"} ELSE held.seninf
      /\ UNCHANGED <<nodes, removing>>
  BY DEF RegistrationFails
<1>2. TypeInv'
  BY DEF ProbeInv, DriverInv, TypeInv, RegistrationFails, UnbindSeninf, CamPC, ScpPC, MemPC,
         MediaPC, V4l2PC, SubdevPC, NodesPC, FullPC, NotifierPC, SeninfPC, CtrlPC, AsyncPC
<1>3. CamInv'
  BY <1>1 DEF ProbeInv, DriverInv, CamInv, ScpPC, MemPC, MediaPC, V4l2PC, SubdevPC, NodesPC,
         FullPC, NotifierPC
<1>4. SeninfInv'
  BY <1>1 DEF ProbeInv, DriverInv, SeninfInv, CtrlPC, AsyncPC
<1>5. CleanInv' /\ (Without({"bind", "rebind"})' <=> FALSE)
  BY DEF RegistrationFails, CleanInv, Without
<1>6. CASE camFails \/ seninfFails
  <2>1. seninf' = "NULL" /\ slinks' = {} /\ links' = 0
    BY <1>6 DEF RegistrationFails, UnbindSeninf
  <2>2. BoundInv' /\ LinkInv'
    BY <2>1 DEF BoundInv, LinkInv, AllBound
  <2>3. QED
    BY <1>2, <1>3, <1>4, <1>5, <2>2 DEF ProbeInv, DriverInv
<1>7. CASE ~camFails /\ ~seninfFails
  <2>1. PICK s \in Sensors : sens[s] = "match"
    BY <1>7 DEF RegistrationFails, Matching
  <2>2. slinks' = {t \in slinks : sens[t] # "match"} /\ UNCHANGED <<seninf, links>>
    BY <1>7 DEF RegistrationFails
  <2>3. LinkInv'
    BY <2>1, <2>2, <1>5 DEF LinkInv, AllBound
  <2>4. BoundInv'
    BY <2>2, <1>1, <1>7 DEF ProbeInv, DriverInv, TypeInv, BoundInv, RegistrationFails
  <2>5. QED
    BY <1>2, <1>3, <1>4, <1>5, <2>3, <2>4 DEF ProbeInv, DriverInv
<1>8. QED
  BY <1>6, <1>7

\* A sensor that was absent was not bound, so not all were.
LEMMA SensorProbeStep ==
  ASSUME ProbeInv, NEW s \in Sensors, SensorProbe(s), UNCHANGED faults
  PROVE  ProbeInv'
<1>1. DriverInv'
  BY DriversStay DEF ProbeInv, DriverInv, TypeInv, SensorProbe
<1>2. BoundInv'
  BY DEF ProbeInv, DriverInv, TypeInv, BoundInv, SensorProbe
<1>3. ~AllBound
  BY DEF ProbeInv, BoundInv, SensorProbe, AllBound
<1>4. LinkInv'
  BY <1>3 DEF ProbeInv, LinkInv, SensorProbe, AllBound, Without
<1>5. QED
  BY <1>1, <1>2, <1>4 DEF ProbeInv

\* A bound sensor that is removed can come back and complete again ("rebind").
LEMMA SensorRemoveStep ==
  ASSUME ProbeInv, NEW s \in Sensors, SensorRemove(s), UNCHANGED faults
  PROVE  ProbeInv'
<1>1. DriverInv'
  BY DriversStay DEF ProbeInv, DriverInv, TypeInv, SensorRemove
<1>2. BoundInv'
  BY DEF ProbeInv, DriverInv, TypeInv, BoundInv, SensorRemove
<1>3. LinkInv'
  BY DEF ProbeInv, LinkInv, SensorRemove, AllBound, Without
<1>4. QED
  BY <1>1, <1>2, <1>3 DEF ProbeInv

-----------------------------------------------------------------------------
(***************************************************************************)
(* The invariant and the properties.                                       *)
(***************************************************************************)

\* Nothing is probed at first.
LEMMA ProbeInit ==
  ASSUME ProbeAssumption, Init
  PROVE  ProbeInv
<1>1. TypeInv
  <2>1. "absent" \in CamPC /\ "absent" \in SeninfPC
    BY DEF CamPC, SeninfPC
  <2>2. pc \in [cam : CamPC, seninf : SeninfPC]
    BY <2>1 DEF Init
  <2>3. held \in [cam : SUBSET CamResources, seninf : SUBSET SeninfResources]
    BY DEF Init
  <2>4. nodes \in 0 .. NumNodes /\ links \in Nat
    BY DEF ProbeAssumption, Init
  <2>5. sens \in [Sensors -> {"absent", "match", "ready"}]
    BY DEF Init
  <2>6. QED
    BY <2>2, <2>3, <2>4, <2>5 DEF Init, TypeInv
<1>2. CamInv
  BY DEF Init, CamInv, ScpPC, MemPC, MediaPC, V4l2PC, SubdevPC, NodesPC, FullPC, NotifierPC
<1>3. SeninfInv
  BY DEF Init, SeninfInv, CtrlPC, AsyncPC
<1>4. CleanInv
  BY DEF Init, CleanInv, FailPC, UnregPC
<1>5. BoundInv /\ LinkInv
  BY DEF Init, BoundInv, LinkInv, AllBound
<1>6. QED
  BY <1>1, <1>2, <1>3, <1>4, <1>5 DEF ProbeInv, DriverInv

\* Every step keeps the invariant.
LEMMA ProbeStep ==
  ASSUME ProbeAssumption, ProbeInv, [Next]_vars
  PROVE  ProbeInv'
<1>1. CASE CamStep /\ UNCHANGED faults
  <2>1. CASE CamRemove
    BY <1>1, <2>1, CamRemoveStep DEF ProbeInv, DriverInv
  <2>2. CASE ~CamRemove
    <3>1. /\ TypeInv' /\ CamInv' /\ CleanInv'
          /\ pc.cam \notin NotifierPC
          /\ pc'.seninf = pc.seninf /\ held'.seninf = held.seninf
          /\ UNCHANGED <<sens, seninf, slinks, links>>
      BY <1>1, <2>2, CamCalls DEF ProbeInv, DriverInv
    <3>2. SeninfInv'
      BY <3>1, OtherDriver DEF ProbeInv, DriverInv
    <3>3. BoundInv' /\ LinkInv'
      BY <3>1, CamQuiet DEF ProbeInv, DriverInv
    <3>4. QED
      BY <3>1, <3>2, <3>3 DEF ProbeInv, DriverInv
  <2>3. QED
    BY <2>1, <2>2
<1>2. CASE SeninfStep /\ UNCHANGED faults
  <2>1. CASE SeninfRemove
    BY <1>2, <2>1, SeninfRemoveStep DEF ProbeInv, DriverInv
  <2>2. CASE ~SeninfRemove
    <3>1. /\ TypeInv' /\ SeninfInv' /\ CleanInv'
          /\ pc'.cam = pc.cam /\ held'.cam = held.cam
          /\ UNCHANGED <<nodes, sens, seninf, slinks, links>>
          /\ \/ pc.seninf \notin AsyncPC
             \/ /\ pc.seninf # "sd_match" /\ pc'.seninf # "sd_match"
                /\ held.seninf \subseteq held'.seninf
      BY <1>2, <2>2, SeninfCalls DEF ProbeInv, DriverInv
    <3>2. CamInv'
      BY <3>1, OtherDriver DEF ProbeInv, DriverInv
    <3>3. BoundInv' /\ LinkInv'
      BY <1>2, <3>1, SeninfQuiet DEF ProbeInv, DriverInv
    <3>4. QED
      BY <3>1, <3>2, <3>3 DEF ProbeInv, DriverInv
  <2>3. QED
    BY <2>1, <2>2
<1>3. CASE AsyncStep /\ UNCHANGED faults
  BY <1>3, NotifierBoundStep, SeninfNotifierBoundStep, NotifierCompleteStep,
     NotifierCompleteFailsStep, NotCompleteStep, RegistrationFailsStep, SensorProbeStep,
     SensorRemoveStep DEF AsyncStep
<1>4. CASE UNCHANGED vars
  BY <1>4 DEF vars, asyncVars, ProbeInv, DriverInv, TypeInv, CamInv, SeninfInv, CleanInv, BoundInv,
     LinkInv, AllBound, Matching, Without
<1>5. QED
  BY <1>1, <1>2, <1>3, <1>4 DEF Next

\* The invariant holds in every reachable state.
LEMMA ProbeAlways == Spec => []ProbeInv
<1>1. Init => ProbeInv
  BY ProbeAssumption, ProbeInit
<1>2. ProbeInv /\ [Next]_vars => ProbeInv'
  BY ProbeAssumption, ProbeStep
<1>3. QED
  BY <1>1, <1>2, PTL DEF Spec

\* Nothing outlives what it is built on, in any order of probe, failure and
\* removal.
THEOREM ParentsAlwaysOutlive == Spec => []ParentsOutlive
<1>1. ProbeInv => ParentsOutlive
  <2> SUFFICES ASSUME ProbeInv PROVE ParentsOutlive
    OBVIOUS
  <2>1. pc.cam \in CamPC /\ nodes \in 0 .. NumNodes
    BY DEF ProbeInv, DriverInv, TypeInv
  <2>2. QED
    BY <2>1 DEF ProbeInv, DriverInv, CamInv, SeninfInv, BoundInv, ParentsOutlive,
       MemPC, MediaPC, V4l2PC, SubdevPC, NodesPC, FullPC, NotifierPC, ScpPC
<1>2. QED
  BY <1>1, ProbeAlways, PTL

\* A driver that is absent has given back what users see and what its failure
\* labels free; when every call succeeds, all but the sub-device state.
THEOREM RemoveAlwaysReleases == Spec => []RemoveReleasesAll
<1>1. ProbeInv => RemoveReleasesAll
  <2> SUFFICES ASSUME ProbeInv PROVE RemoveReleasesAll
    OBVIOUS
  <2>1. held.cam \subseteq CamResources /\ held.seninf \subseteq SeninfResources
        /\ nodes \in 0 .. NumNodes /\ NumNodes \in Nat
    BY ProbeAssumption DEF ProbeInv, DriverInv, TypeInv, ProbeAssumption
  <2>2. ASSUME pc.cam = "absent"
        PROVE  /\ nodes = 0
               /\ held.cam \subseteq {"iova", "pm", "media_init", "state", "conns"}
               /\ Without({"call", "bind"}) => held.cam \subseteq {"state"}
    <3>1. nodes = 0
      BY <2>1, <2>2 DEF ProbeInv, DriverInv, CamInv, NodesPC, FullPC, NotifierPC
    <3>2. held.cam \cap {"scp", "mem", "media", "v4l2", "subdev", "notifier"} = {}
      BY <2>2 DEF ProbeInv, DriverInv, CamInv, ScpPC, MemPC, MediaPC, V4l2PC, SubdevPC,
         NodesPC, FullPC, NotifierPC
    <3>3. Without({"call", "bind"}) => held.cam \cap {"iova", "pm", "media_init", "conns"} = {}
      BY <2>2 DEF ProbeInv, DriverInv, CleanInv, MediaPC, V4l2PC, SubdevPC, NodesPC, FullPC,
         NotifierPC
    <3>4. QED
      BY <2>1, <3>1, <3>2, <3>3 DEF CamResources
  <2>3. ASSUME pc.seninf = "absent"
        PROVE  /\ held.seninf \cap {"ctrl", "async"} = {}
               /\ Without({"call", "bind"}) => held.seninf = {}
    <3>1. held.seninf \cap {"ctrl", "async"} = {}
      BY <2>3 DEF ProbeInv, DriverInv, SeninfInv, CtrlPC, AsyncPC
    <3>2. Without({"call", "bind"}) => held.seninf \cap {"conns", "notifier", "pm"} = {}
      BY <2>3 DEF ProbeInv, DriverInv, CleanInv, AsyncPC
    <3>3. QED
      BY <2>1, <3>1, <3>2 DEF SeninfResources
  <2>4. QED
    BY <2>2, <2>3 DEF RemoveReleasesAll
<1>2. QED
  BY <1>1, ProbeAlways, PTL

\* Once all are bound the sensor interface has a link to the ISP, and only one
\* as long as nothing completes twice.
THEOREM AlwaysOneLink == Spec => []OneLink
<1>1. ProbeInv => OneLink
  BY DEF ProbeInv, DriverInv, TypeInv, LinkInv, OneLink
<1>2. QED
  BY <1>1, ProbeAlways, PTL
=============================================================================
