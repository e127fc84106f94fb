----------------------------- MODULE CamConfig -----------------------------
(***************************************************************************)
(* From the pad formats and the buffers to what the ISP is told at         *)
(* stream-on: the links and pad formats of sensor, seninf and camera       *)
(* (camera/driver/seninf/mtk_seninf.c, camera/driver/cam/mtk_cam.c), the   *)
(* formats and buffers of the two image nodes, link validation by the      *)
(* media core and mtk_cam_dev_isp_config.                                  *)
(*                                                                         *)
(* Sensor p is wired to sink pad p of the seninf.  All its source pads     *)
(* always hold the format of the only linked one, pad 4, or are never      *)
(* read, so one source pad stands for them.  Every ioctl is one step       *)
(* except STREAMON: other users may call the sub-devices between link      *)
(* validation and the configuration of the ISP.                            *)
(***************************************************************************)
EXTENDS CamFormats

CONSTANTS
  Ports,      \* sink pads of the seninf, each with a sensor
  Nodes,      \* image nodes
  Bufs,       \* buffer indices of a queue
  BufSizes,   \* sizes CREATE_BUFS asks for
  Requests,   \* S_FMT requests: [f, w, h]
  Fmts,       \* pad formats: [code, w, h]; code NoCode is none the ISP knows
  DefaultFmt, \* mtk_seninf_default_fmt
  Src, Sink,  \* the seninf's source pad, the camera's CIO sink pad
  NoNode,
  Scopes      \* bound: the ports, nodes, pad formats and S_FMT requests that
              \* the users of a behaviour touch are those of one of these;
              \* exclusive users disable a sensor's link before they enable
              \* another's, late users set pad formats also while a node
              \* starts or streams

ASSUME ConfigAssumption ==
  /\ Nodes \subseteq ImageNodes /\ "main" \in Nodes /\ NoNode \notin Nodes
  /\ Fmts \subseteq [code : MbusCode \cup {NoCode}, w : Nat \ {0}, h : Nat \ {0}]
  /\ DefaultFmt \in Fmts
  /\ 0 \in Ports /\ Src \notin Ports /\ Sink \notin Nodes
  /\ BufSizes \subseteq Nat
  /\ \A r \in Requests : r.w \in Nat /\ r.h \in Nat
  /\ Scopes \subseteq [ports : SUBSET Ports, nodes : SUBSET Nodes,
                       fmts : SUBSET Fmts, requests : SUBSET Requests,
                       exclusive : BOOLEAN, late : BOOLEAN]

VARIABLES
  linked,     \* sensors whose link is enabled
  port,       \* priv->port
  sensorFmt,  \* active format of each sensor
  seninfFmt,  \* priv->fmt
  camFmt,     \* active pad formats of the camera sub-device
  talked,     \* how far the last negotiation went: 0, 1 (seninf), 2 (camera)
  enabled,    \* nodes whose link is enabled
  vdevFmt,    \* node->vdev_fmt
  size,       \* size of each buffer, 0 when it is not allocated
  queued,     \* buffers queued to each node
  started,    \* nodes that stream
  starting,   \* node inside STREAMON, after link validation
  streaming,  \* cam->streaming
  sensor,     \* cam->sensor, NoNode before the first stream-on
  config,     \* what mtk_isp_hw_config sent
  scope       \* what the users touch, chosen once

padVars == <<linked, port, sensorFmt, seninfFmt, camFmt, talked>>
nodeVars == <<enabled, vdevFmt, size, queued>>
runVars == <<started, starting, streaming, sensor, config>>
vars == <<padVars, nodeVars, runVars, scope>>

\* A request without a media bus code.
ZeroCode == [order |-> 4, bits |-> 1]
NoCodeFmt == [DefaultFmt EXCEPT !.code = ZeroCode]

NoConfig == [fmt |-> DefaultFmt, out |-> [n \in {} |-> 0]]

\* The whole pipeline streams from media_pipeline_start on.
PipelineOn == started # {} \/ starting # NoNode

Allocated(n) == {b \in Bufs : size[n][b] # 0}

Init ==
  /\ linked = {}
  /\ port = 0
  /\ scope \in Scopes
  /\ sensorFmt \in {f \in [Ports -> scope.fmts] :
                      \A p \in Ports \ scope.ports : f[p] = DefaultFmt}
  /\ seninfFmt = [p \in Ports \cup {Src} |-> DefaultFmt]
  /\ camFmt = [p \in Nodes \cup {Sink} |-> DefaultFmt]
  /\ talked = 0
  /\ enabled = {"main"}
  /\ vdevFmt = [n \in Nodes |-> Pix(n, default_fmt(n), MaxWidth, MaxHeight)]
  /\ size = [n \in Nodes |-> [b \in Bufs |-> 0]]
  /\ queued = [n \in Nodes |-> {}]
  /\ started = {}
  /\ starting = NoNode
  /\ streaming = FALSE
  /\ sensor = NoNode
  /\ config = NoConfig

-----------------------------------------------------------------------------
(***************************************************************************)
(* Links and pad formats.                                                  *)
(***************************************************************************)

MutSeninfLinkSetup(p, on) == UNCHANGED port

\* seninf_link_setup: an enabled sink link selects the port, a disabled one
\* changes nothing.
SeninfLinkSetup(p, on) == port' = IF on THEN p ELSE port

\* The media core calls link_setup only when the link's flags change, and not
\* while the pipeline streams.
SetupLink(p, on) ==
  /\ ~PipelineOn
  /\ on # (p \in linked)
  /\ (scope.exclusive /\ on) => linked = {}
  /\ linked' = IF on THEN linked \cup {p} ELSE linked \ {p}
  /\ SeninfLinkSetup(p, on)
  /\ talked' = 0
  /\ UNCHANGED <<sensorFmt, seninfFmt, camFmt, nodeVars, runVars>>

\* Nothing here keeps a sensor from taking a new format while it streams.
SensorSetFmt(p, f) ==
  /\ sensorFmt' = [sensorFmt EXCEPT ![p] = f]
  /\ talked' = 0
  /\ UNCHANGED <<linked, port, seninfFmt, camFmt, nodeVars, runVars>>

MutPropagate(pad, f) == [seninfFmt EXCEPT ![pad] = f]

\* seninf_set_fmt: a sink pad's format goes to the source pads as well.
Propagate(pad, f) ==
  IF pad \in Ports THEN [seninfFmt EXCEPT ![pad] = f, ![Src] = f]
  ELSE [seninfFmt EXCEPT ![pad] = f]

\* A format without a media bus code gets the default one.
WithCode(f) ==
  IF f.code = ZeroCode THEN [f EXCEPT !.code = DefaultFmt.code] ELSE f

\* It never refuses either.
SeninfSetFmt(pad, f) ==
  /\ seninfFmt' = Propagate(pad, WithCode(f))
  /\ talked' = IF pad = port /\ f = sensorFmt[port] THEN 1 ELSE 0
  /\ UNCHANGED <<linked, port, sensorFmt, camFmt, nodeVars, runVars>>

\* mtk_cam_sd_set_fmt: the CIO sink pad's format goes to the image pads.
CamPropagate(pad, f) ==
  IF pad = Sink THEN [p \in Nodes \cup {Sink} |-> f]
  ELSE [camFmt EXCEPT ![pad] = f]

CamSetFmt(pad, f) ==
  /\ camFmt' = CamPropagate(pad, f)
  /\ talked' = IF pad = Sink /\ f = seninfFmt[Src] /\ talked > 0 THEN 2 ELSE 0
  /\ UNCHANGED <<linked, port, sensorFmt, seninfFmt, nodeVars, runVars>>

\* mtk_cam_media_link_setup for a node's link; the main node's is immutable.
EnableNode(n, on) ==
  /\ ~PipelineOn
  /\ n # "main" /\ on # (n \in enabled)
  /\ enabled' = IF on THEN enabled \cup {n} ELSE enabled \ {n}
  /\ UNCHANGED <<padVars, vdevFmt, size, queued, runVars>>

-----------------------------------------------------------------------------
(***************************************************************************)
(* Formats and buffers of a node.                                          *)
(***************************************************************************)

MutBusy(n) == n \in started

\* vb2_is_busy: the queue has buffers.
Busy(n) == Allocated(n) # {}

\* mtk_cam_vidioc_s_fmt.
SFmt(n, r) ==
  /\ starting # n
  /\ ~Busy(n)
  /\ vdevFmt' = [vdevFmt EXCEPT ![n] = try_fmt(n, r.f, r.w, r.h)]
  /\ UNCHANGED <<padVars, enabled, size, queued, runVars>>

\* VIDIOC_REQBUFS frees the buffers, dequeueing them, and allocates new ones
\* of the size mtk_cam_vb2_queue_setup gives; vb2 refuses while streaming.
ReqBufs(n, bs) ==
  /\ starting # n /\ n \notin started
  /\ size' = [size EXCEPT ![n] =
                [b \in Bufs |-> IF b \in bs THEN vdevFmt[n].sizeimage ELSE 0]]
  /\ queued' = [queued EXCEPT ![n] = {}]
  /\ UNCHANGED <<padVars, enabled, vdevFmt, runVars>>

\* mtk_cam_vb2_queue_setup refuses sizes below the format's.
LargeEnough(n, s) == s >= vdevFmt[n].sizeimage

\* VIDIOC_CREATE_BUFS, also while streaming.
CreateBuf(n, b, s) ==
  /\ starting # n
  /\ size[n][b] = 0
  /\ LargeEnough(n, s)
  /\ size' = [size EXCEPT ![n][b] = s]
  /\ UNCHANGED <<padVars, enabled, vdevFmt, queued, runVars>>

\* mtk_cam_vb2_buf_prepare.
BufPrepare(n, b) == size[n][b] >= vdevFmt[n].sizeimage

\* VIDIOC_QBUF.
QBuf(n, b) ==
  /\ starting # n
  /\ b \in Allocated(n) \ queued[n]
  /\ BufPrepare(n, b)
  /\ queued' = [queued EXCEPT ![n] = @ \cup {b}]
  /\ UNCHANGED <<padVars, enabled, vdevFmt, size, runVars>>

\* A filled buffer is dequeued.
DQBuf(n, b) ==
  /\ streaming /\ n \in started /\ b \in queued[n]
  /\ queued' = [queued EXCEPT ![n] = @ \ {b}]
  /\ UNCHANGED <<padVars, enabled, vdevFmt, size, runVars>>

-----------------------------------------------------------------------------
(***************************************************************************)
(* Stream-on and stream-off.                                               *)
(***************************************************************************)

\* media_pipeline_start and v4l2_subdev_link_validate: both ends of every
\* enabled link between sub-devices agree.  Video nodes are not validated.
LinksValid ==
  /\ \A p \in linked : sensorFmt[p] = seninfFmt[p]
  /\ seninfFmt[Src] = camFmt[Sink]

\* VIDIOC_STREAMON up to mtk_isp_hw_init: vb2 wants buffers, the driver an
\* enabled node.  Only the first node starts, and validates, the pipeline.
StreamOn(n) ==
  /\ starting = NoNode /\ n \notin started
  /\ Allocated(n) # {}
  /\ n \in enabled
  /\ started = {} => LinksValid
  /\ starting' = n
  /\ UNCHANGED <<padVars, nodeVars, started, streaming, sensor, config>>

\* The node is counted; others are still to come.
CountNode ==
  /\ starting # NoNode
  /\ started \cup {starting} # enabled
  /\ started' = started \cup {starting}
  /\ starting' = NoNode
  /\ UNCHANGED <<padVars, nodeVars, streaming, sensor, config>>

MutConfigAccepts(p) == sensorFmt[p].code # NoCode

\* mtk_cam_dev_isp_config accepts the format of sensor p.
ConfigAccepts(p) ==
  /\ sensorFmt[p].code # NoCode
  /\ \A n \in enabled : config_img_fmt(vdevFmt[n], sensorFmt[p].w, sensorFmt[p].h)

\* What mtk_cam_dev_isp_config sends.
IspConfig(p) ==
  [fmt |-> sensorFmt[p], out |-> [n \in enabled |-> vdevFmt[n]]]

\* mtk_cam_cio_stream_on: the active sensor is one with a link (the media
\* device lists them in an order of its own).
StreamOnSubdevs(p) ==
  /\ starting # NoNode
  /\ started \cup {starting} = enabled
  /\ p \in linked
  /\ ConfigAccepts(p)
  /\ config' = IspConfig(p)
  /\ sensor' = p
  /\ streaming' = TRUE
  /\ started' = enabled
  /\ starting' = NoNode
  /\ UNCHANGED <<padVars, nodeVars>>

\* No sensor, or a configuration the driver refuses: STREAMON fails, the
\* buffers go back to vb2, which keeps them queued.
StreamOnFails ==
  /\ starting # NoNode
  /\ started \cup {starting} = enabled
  /\ linked = {} \/ \E p \in linked : ~ConfigAccepts(p)
  /\ starting' = NoNode
  /\ UNCHANGED <<padVars, nodeVars, started, streaming, sensor, config>>

\* VIDIOC_STREAMOFF: the first node to stop stops the sub-devices, and the
\* SCP forgets its configuration.
StreamOff(n) ==
  /\ starting = NoNode /\ n \in started
  /\ IF started = enabled
     THEN streaming' = FALSE /\ config' = NoConfig
     ELSE UNCHANGED <<streaming, config>>
  /\ started' = started \ {n}
  /\ queued' = [queued EXCEPT ![n] = {}]
  /\ UNCHANGED <<padVars, enabled, vdevFmt, size, starting, sensor>>

-----------------------------------------------------------------------------
\* VIDIOC_SUBDEV_S_FMT of a pad.
SetFmtStep ==
  \/ \E p \in scope.ports, f \in scope.fmts : SensorSetFmt(p, f)
  \/ \E pad \in scope.ports \cup {Src}, f \in scope.fmts \cup {NoCodeFmt} :
       SeninfSetFmt(pad, f)
  \/ \E pad \in scope.nodes \cup {Sink}, f \in scope.fmts : CamSetFmt(pad, f)

PadStep ==
  \/ \E p \in scope.ports, on \in BOOLEAN : SetupLink(p, on)
  \/ (PipelineOn => scope.late) /\ SetFmtStep

NodeStep(n) ==
  \/ \E on \in BOOLEAN : EnableNode(n, on)
  \/ \E r \in scope.requests : SFmt(n, r)
  \/ \E bs \in SUBSET Bufs : ReqBufs(n, bs)
  \/ \E b \in Bufs, s \in BufSizes : CreateBuf(n, b, s)
  \/ \E b \in Bufs : QBuf(n, b) \/ DQBuf(n, b)
  \/ StreamOn(n) \/ StreamOff(n)

Next ==
  /\ UNCHANGED scope
  /\ \/ PadStep
     \/ \E n \in scope.nodes : NodeStep(n)
     \/ CountNode \/ (\E p \in scope.ports : StreamOnSubdevs(p)) \/ StreamOnFails

Spec == Init /\ [][Next]_vars

-----------------------------------------------------------------------------
(***************************************************************************)
(* Properties.                                                             *)
(***************************************************************************)

\* While the ISP streams, every buffer queued to one of its outputs holds the
\* stride times the height it was configured to write, whatever S_FMT,
\* REQBUFS and CREATE_BUFS came before, between and after the STREAMONs.
DmaFits ==
  streaming =>
    \A n \in enabled : \A b \in queued[n] :
      size[n][b] >= config.out[n].bytesperline * config.out[n].height

\* While the ISP streams, what it was told is what the users see: no output is
\* larger than the frame it was told of, whose code it knows, and G_FMT of each
\* enabled node gives the format it writes, although the links were validated by
\* the first STREAMON and the ISP is configured by the last.  If no user sets a
\* pad format in between or later, the links still are valid then and the
\* frame is the one the active sensor sends.  (The driver refuses no late
\* change and does not notice one.)
ConfigCurrent ==
  streaming =>
    /\ config.fmt.code # NoCode
    /\ \A n \in enabled :
         /\ config.out[n] = vdevFmt[n]
         /\ config.out[n].width <= config.fmt.w
         /\ config.out[n].height <= config.fmt.h
    /\ ~scope.late => LinksValid /\ config.fmt = sensorFmt[sensor]

\* A user that negotiates along the chain (the sensor's format to the seninf's
\* selected sink pad, what the source pad then says to the camera's sink pad)
\* passes link validation and finds the sensor's format on the image pads.
NegotiationHolds ==
  (talked = 2 /\ linked = {port}) =>
    /\ LinksValid
    /\ \A n \in Nodes : camFmt[n] = sensorFmt[port]

\* With one sensor's link enabled at stream-on, the seninf receives from that
\* sensor, whatever links were enabled and disabled before, as long as two
\* were never enabled together.  (seninf_link_setup keeps the port of a link
\* that is disabled.)
PortMatchesSensor ==
  (scope.exclusive /\ streaming /\ linked = {sensor}) => sensor = port
=============================================================================
