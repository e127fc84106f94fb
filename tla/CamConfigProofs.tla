--------------------------- MODULE CamConfigProofs ---------------------------
(***************************************************************************)
(* Proofs about CamConfig, for every set of ports, nodes, pad formats,     *)
(* requests, buffer sizes and every limit of the image sizes; and, at the  *)
(* end, about CamFormatClient: TRY_FMT for every requested size, and what  *)
(* a client lists with ENUM_FMT.                                           *)
(***************************************************************************)
EXTENDS CamConfig, CamFormatClient, SequenceTheorems, FiniteSetTheorems, TLAPS

\* What the sets of a behaviour are, as far as the proofs need it.
TypeInv ==
  /\ scope \in Scopes
  /\ linked \subseteq Ports
  /\ port \in Ports
  /\ sensorFmt \in [Ports -> Fmts]
  /\ DOMAIN seninfFmt = Ports \cup {Src}
  /\ DOMAIN camFmt = Nodes \cup {Sink}
  /\ enabled \subseteq Nodes
  /\ DOMAIN vdevFmt = Nodes
  /\ DOMAIN size = Nodes /\ \A n \in Nodes : DOMAIN size[n] = Bufs
  /\ queued \in [Nodes -> SUBSET Bufs]
  /\ starting \in Nodes \cup {NoNode}
  /\ started \subseteq enabled
  /\ starting # NoNode => starting \in enabled \ started

\* A node's format is always one of cal_image_pix_mp.
FmtInv ==
  \A n \in Nodes :
    vdevFmt[n].sizeimage = vdevFmt[n].bytesperline * vdevFmt[n].height

\* vb2 knows the buffers: what is queued is allocated and was large enough for
\* the format, and the format cannot change while a node has buffers, which it
\* keeps from STREAMON to STREAMOFF.
BufInv ==
  /\ \A n \in Nodes : queued[n] \subseteq Allocated(n)
  /\ \A n \in Nodes : \A b \in queued[n] : size[n][b] >= vdevFmt[n].sizeimage
  /\ \A n \in started \cup {starting} : n # NoNode => Allocated(n) # {}

\* The ISP streams when every enabled node does, and only then.
RunInv ==
  streaming => started = enabled /\ starting = NoNode /\ enabled # {}

\* A successful negotiation is forgotten with the first change that could
\* invalidate it.
TalkInv ==
  /\ talked \in {0, 1, 2}
  /\ talked > 0 => /\ seninfFmt[port] = sensorFmt[port]
                   /\ seninfFmt[Src] = sensorFmt[port]
  /\ talked = 2 => \A p \in Nodes \cup {Sink} : camFmt[p] = seninfFmt[Src]

\* Exclusive users keep at most the selected port linked.
PortInv == scope.exclusive => linked \subseteq {port}

\* The links stay as they were validated unless late users set a format.
ValidInv == ~scope.late /\ PipelineOn => LinksValid

\* The ISP was told of the frame the active sensor sends, likewise.
FrameInv == ~scope.late /\ streaming => config.fmt = sensorFmt[sensor]

\* What ConfigCurrent says of the outputs.
OutInv ==
  streaming =>
    /\ config.fmt.code # NoCode
    /\ \A n \in enabled :
         /\ config.out[n] = vdevFmt[n]
         /\ config.out[n].width <= config.fmt.w
         /\ config.out[n].height <= config.fmt.h

ConfigInv ==
  /\ TypeInv /\ FmtInv /\ BufInv /\ RunInv /\ TalkInv /\ PortInv
  /\ ValidInv /\ FrameInv /\ OutInv

-----------------------------------------------------------------------------
(***************************************************************************)
(* What the operators give.                                                *)
(***************************************************************************)

\* The size of an image is its stride times its height.
LEMMA PixSize ==
  ASSUME NEW n, NEW f, NEW w, NEW h
  PROVE  Pix(n, f, w, h).sizeimage = Pix(n, f, w, h).bytesperline * Pix(n, f, w, h).height
BY DEF Pix

\* TRY_FMT returns an image.
LEMMA TryFmtSize ==
  ASSUME NEW n, NEW f, NEW w, NEW h
  PROVE  try_fmt(n, f, w, h).sizeimage =
           try_fmt(n, f, w, h).bytesperline * try_fmt(n, f, w, h).height
BY PixSize DEF try_fmt

\* The code of a pad format is not the one that asks for the default.
LEMMA CodeKept ==
  ASSUME NEW f \in Fmts
  PROVE  WithCode(f) = f
<1>1. f.code \in MbusCode \cup {NoCode}
  BY ConfigAssumption
<1>2. f.code # ZeroCode
  BY <1>1 DEF MbusCode, NoCode, ZeroCode, Orders
<1> QED
  BY <1>2 DEF WithCode

\* The users of a behaviour touch ports, nodes and formats of the model.
LEMMA ScopeSets ==
  ASSUME scope \in Scopes
  PROVE  /\ scope.ports \subseteq Ports /\ scope.nodes \subseteq Nodes
         /\ scope.fmts \subseteq Fmts /\ scope.requests \subseteq Requests
BY ConfigAssumption

-----------------------------------------------------------------------------
(***************************************************************************)
(* The invariant, one conjunct at a time.                                  *)
(***************************************************************************)

\* It holds at the start.
LEMMA ConfigInit == Init => ConfigInv
<1> SUFFICES ASSUME Init PROVE ConfigInv
  OBVIOUS
<1>1. TypeInv
  <2>1. sensorFmt \in [Ports -> scope.fmts] /\ scope.fmts \subseteq Fmts
    BY ScopeSets DEF Init
  <2>2. sensorFmt \in [Ports -> Fmts]
    BY <2>1
  <2> QED
    BY <2>2, ConfigAssumption DEF Init, TypeInv
<1>2. FmtInv
  BY PixSize DEF Init, FmtInv
<1>3. BufInv
  BY DEF Init, BufInv
<1>4. RunInv /\ TalkInv /\ PortInv /\ ValidInv /\ FrameInv /\ OutInv
  BY DEF Init, RunInv, TalkInv, PortInv, PipelineOn, ValidInv, FrameInv, OutInv
<1> QED
  BY <1>1, <1>2, <1>3, <1>4 DEF ConfigInv

\* Types.
LEMMA TypeStep == TypeInv /\ RunInv /\ [Next]_vars => TypeInv'
<1> SUFFICES ASSUME TypeInv, RunInv, [Next]_vars PROVE TypeInv'
  OBVIOUS
<1>s. /\ scope.ports \subseteq Ports /\ scope.nodes \subseteq Nodes
      /\ scope.fmts \subseteq Fmts
  BY ScopeSets DEF TypeInv
<1>u. scope' = scope
  BY DEF Next, vars
<1>1. ASSUME NEW p \in scope.ports, NEW on \in BOOLEAN, SetupLink(p, on) PROVE TypeInv'
  BY <1>1, <1>s, <1>u DEF SetupLink, SeninfLinkSetup, TypeInv, nodeVars, runVars
<1>2. ASSUME NEW p \in scope.ports, NEW f \in scope.fmts, SensorSetFmt(p, f)
      PROVE  TypeInv'
  BY <1>2, <1>s, <1>u DEF SensorSetFmt, TypeInv, nodeVars, runVars
<1>3. ASSUME NEW pad, NEW f, SeninfSetFmt(pad, f) PROVE TypeInv'
  BY <1>3, <1>u DEF SeninfSetFmt, Propagate, TypeInv, nodeVars, runVars
<1>4. ASSUME NEW pad, NEW f, CamSetFmt(pad, f) PROVE TypeInv'
  BY <1>4, <1>u DEF CamSetFmt, CamPropagate, TypeInv, nodeVars, runVars
<1>5. ASSUME NEW n \in scope.nodes, NEW on \in BOOLEAN, EnableNode(n, on) PROVE TypeInv'
  BY <1>5, <1>s, <1>u DEF EnableNode, PipelineOn, TypeInv, padVars, runVars
<1>6. ASSUME NEW n \in scope.nodes, NEW r, SFmt(n, r) PROVE TypeInv'
  BY <1>6, <1>u DEF SFmt, TypeInv, padVars, runVars
<1>7. ASSUME NEW n \in scope.nodes, NEW bs \in SUBSET Bufs, ReqBufs(n, bs) PROVE TypeInv'
  BY <1>7, <1>s, <1>u DEF ReqBufs, TypeInv, padVars, runVars
<1>8. ASSUME NEW n \in scope.nodes, NEW b \in Bufs, NEW s, CreateBuf(n, b, s)
      PROVE  TypeInv'
  BY <1>8, <1>s, <1>u DEF CreateBuf, TypeInv, padVars, runVars
<1>9. ASSUME NEW n \in scope.nodes, NEW b \in Bufs, QBuf(n, b) \/ DQBuf(n, b)
      PROVE  TypeInv'
  BY <1>9, <1>s, <1>u DEF QBuf, DQBuf, TypeInv, padVars, runVars
<1>10. ASSUME NEW n \in scope.nodes, StreamOn(n) PROVE TypeInv'
  BY <1>10, <1>s, <1>u DEF StreamOn, TypeInv, padVars, nodeVars
<1>11. ASSUME NEW n \in scope.nodes, StreamOff(n) PROVE TypeInv'
  <2>1. queued' \in [Nodes -> SUBSET Bufs]
    BY <1>11, <1>s DEF StreamOff, TypeInv
  <2> QED
    BY <1>11, <1>s, <1>u, <2>1 DEF StreamOff, TypeInv, padVars
<1>12. CASE CountNode
  BY <1>12, <1>u DEF CountNode, TypeInv, padVars, nodeVars
<1>13. ASSUME NEW p, StreamOnSubdevs(p) PROVE TypeInv'
  BY <1>13, <1>u DEF StreamOnSubdevs, TypeInv, padVars, nodeVars
<1>14. CASE StreamOnFails
  BY <1>14, <1>u DEF StreamOnFails, TypeInv, padVars, nodeVars
<1>15. CASE UNCHANGED vars
  BY <1>15 DEF vars, padVars, nodeVars, runVars, TypeInv
<1> QED
  BY <1>1, <1>2, <1>3, <1>4, <1>5, <1>6, <1>7, <1>8, <1>9, <1>10, <1>11, <1>12, <1>13,
     <1>14, <1>15 DEF Next, PadStep, SetFmtStep, NodeStep

\* The pad steps leave the nodes alone.
LEMMA PadStepNodes == PadStep => UNCHANGED <<nodeVars, runVars>>
BY DEF PadStep, SetFmtStep, SetupLink, SensorSetFmt, SeninfSetFmt, CamSetFmt

\* Formats stay images.
LEMMA FmtStep == TypeInv /\ FmtInv /\ [Next]_vars => FmtInv'
<1> SUFFICES ASSUME TypeInv, FmtInv, [Next]_vars PROVE FmtInv'
  OBVIOUS
<1>1. CASE UNCHANGED vdevFmt
  BY <1>1 DEF FmtInv
<1>2. ASSUME NEW n \in scope.nodes, NEW r \in scope.requests, SFmt(n, r) PROVE FmtInv'
  BY <1>2, TryFmtSize DEF SFmt, FmtInv, TypeInv
<1>3. CASE PadStep \/ UNCHANGED vars
  BY <1>1, <1>3, PadStepNodes DEF nodeVars, vars
<1>4. ASSUME NEW n \in scope.nodes, NodeStep(n) PROVE FmtInv'
  BY <1>1, <1>2, <1>4 DEF NodeStep, EnableNode, ReqBufs, CreateBuf, QBuf, DQBuf, StreamOn,
     StreamOff, nodeVars
<1>5. CASE CountNode \/ (\E p \in scope.ports : StreamOnSubdevs(p)) \/ StreamOnFails
  BY <1>1, <1>5 DEF CountNode, StreamOnSubdevs, StreamOnFails, nodeVars
<1> QED
  BY <1>3, <1>4, <1>5 DEF Next

\* Buffers stay large enough, and the streaming nodes keep theirs.
LEMMA BufStep == TypeInv /\ BufInv /\ [Next]_vars => BufInv'
<1> SUFFICES ASSUME TypeInv, BufInv, [Next]_vars PROVE BufInv'
  OBVIOUS
<1>s. scope.nodes \subseteq Nodes
  BY ScopeSets DEF TypeInv
<1>1. CASE UNCHANGED <<vdevFmt, size, queued, started, starting>>
  BY <1>1 DEF BufInv, Allocated
<1>2. ASSUME NEW n \in scope.nodes, NEW r \in scope.requests, SFmt(n, r) PROVE BufInv'
  <2>1. /\ UNCHANGED <<size, queued, started, starting>>
        /\ vdevFmt' = [vdevFmt EXCEPT ![n] = try_fmt(n, r.f, r.w, r.h)]
        /\ Allocated(n) = {}
    BY <1>2 DEF SFmt, runVars, Busy
  <2>2. queued[n] = {}
    BY <1>s, <2>1 DEF BufInv
  <2> QED
    BY <2>1, <2>2 DEF BufInv, TypeInv, Allocated
<1>3. ASSUME NEW n \in scope.nodes, NEW bs \in SUBSET Bufs, ReqBufs(n, bs) PROVE BufInv'
  BY <1>3, <1>s DEF ReqBufs, BufInv, TypeInv, Allocated, runVars
<1>4. ASSUME NEW n \in scope.nodes, NEW b \in Bufs, NEW s \in BufSizes, CreateBuf(n, b, s)
      PROVE  BufInv'
  <2>1. /\ UNCHANGED <<vdevFmt, queued, started, starting>>
        /\ size' = [size EXCEPT ![n] = [@ EXCEPT ![b] = s]] /\ size[n][b] = 0
    BY <1>4 DEF CreateBuf, runVars
  <2>2. \A m \in Nodes : \A c \in Bufs :
          size'[m][c] = IF m = n /\ c = b THEN s ELSE size[m][c]
    BY <1>s, <2>1 DEF TypeInv
  <2>3. \A m \in Nodes : Allocated(m) \subseteq Allocated(m)'
    BY <2>1, <2>2 DEF Allocated
  <2>4. b \notin queued[n]
    BY <1>s, <2>1 DEF BufInv, Allocated
  <2>5. \A m \in Nodes : \A c \in queued[m] : size'[m][c] >= vdevFmt[m].sizeimage
    BY <2>2, <2>4 DEF BufInv, TypeInv
  <2>6. \A m \in started \cup {starting} : m # NoNode => m \in Nodes
    BY DEF TypeInv
  <2> QED
    BY <2>1, <2>3, <2>5, <2>6 DEF BufInv
<1>5. ASSUME NEW n \in scope.nodes, NEW b \in Bufs, QBuf(n, b) \/ DQBuf(n, b)
      PROVE  BufInv'
  <2>1. /\ UNCHANGED <<vdevFmt, size, started, starting>>
        /\ \/ /\ queued' = [queued EXCEPT ![n] = @ \cup {b}]
              /\ b \in Allocated(n) /\ size[n][b] >= vdevFmt[n].sizeimage
           \/ queued' = [queued EXCEPT ![n] = @ \ {b}]
    BY <1>5 DEF QBuf, DQBuf, runVars, BufPrepare
  <2> QED
    BY <1>s, <2>1 DEF BufInv, TypeInv, Allocated
<1>6. ASSUME NEW n \in scope.nodes, StreamOn(n) PROVE BufInv'
  BY <1>6, <1>s DEF StreamOn, BufInv, TypeInv, Allocated, nodeVars
<1>7. ASSUME NEW n \in scope.nodes, StreamOff(n) PROVE BufInv'
  <2>1. /\ UNCHANGED <<vdevFmt, size, starting>>
        /\ queued' = [queued EXCEPT ![n] = {}] /\ started' \subseteq started
    BY <1>7 DEF StreamOff
  <2> QED
    BY <1>s, <2>1 DEF BufInv, TypeInv, Allocated
<1>8. CASE CountNode
  BY <1>8 DEF CountNode, BufInv, Allocated, nodeVars
<1>9. ASSUME NEW p, StreamOnSubdevs(p) PROVE BufInv'
  BY <1>9 DEF StreamOnSubdevs, BufInv, Allocated, nodeVars
<1>10. CASE StreamOnFails
  BY <1>10 DEF StreamOnFails, BufInv, Allocated, nodeVars
<1>11. CASE PadStep \/ UNCHANGED vars \/ \E n \in Nodes, on \in BOOLEAN : EnableNode(n, on)
  <2>1. PadStep => UNCHANGED <<nodeVars, runVars>>
    BY PadStepNodes
  <2> QED
    BY <1>1, <1>11, <2>1 DEF nodeVars, runVars, vars, EnableNode
<1> QED
  BY <1>s, <1>2, <1>3, <1>4, <1>5, <1>6, <1>7, <1>8, <1>9, <1>10, <1>11
     DEF Next, NodeStep

\* The ISP streams with all its nodes; they cannot be enabled or disabled then.
LEMMA RunStep == TypeInv /\ RunInv /\ [Next]_vars => RunInv'
<1> SUFFICES ASSUME TypeInv, RunInv, [Next]_vars PROVE RunInv'
  OBVIOUS
<1>1. CASE UNCHANGED <<enabled, started, starting, streaming>>
  BY <1>1 DEF RunInv
<1>2. ASSUME NEW n, NEW on, EnableNode(n, on) PROVE RunInv'
  BY <1>2 DEF EnableNode, PipelineOn, RunInv, runVars
<1>3. ASSUME NEW n, StreamOn(n) PROVE RunInv'
  BY <1>3 DEF StreamOn, RunInv, nodeVars
<1>4. ASSUME NEW n, StreamOff(n) PROVE RunInv'
  BY <1>4 DEF StreamOff, RunInv
<1>5. CASE CountNode
  BY <1>5 DEF CountNode, RunInv, nodeVars
<1>6. ASSUME NEW p, StreamOnSubdevs(p) PROVE RunInv'
  BY <1>6 DEF StreamOnSubdevs, RunInv, TypeInv, nodeVars
<1>7. CASE StreamOnFails
  BY <1>7 DEF StreamOnFails, RunInv, nodeVars
<1>8. CASE PadStep \/ UNCHANGED vars
  BY <1>1, <1>8, PadStepNodes DEF nodeVars, runVars, vars
<1>9. ASSUME NEW n,
             \/ \E r \in scope.requests : SFmt(n, r)
             \/ \E bs \in SUBSET Bufs : ReqBufs(n, bs)
             \/ \E b \in Bufs, s \in BufSizes : CreateBuf(n, b, s)
             \/ \E b \in Bufs : QBuf(n, b) \/ DQBuf(n, b)
      PROVE  RunInv'
  BY <1>1, <1>9 DEF SFmt, ReqBufs, CreateBuf, QBuf, DQBuf, runVars
<1> QED
  BY <1>2, <1>3, <1>4, <1>5, <1>6, <1>7, <1>8, <1>9 DEF Next, NodeStep

\* No step changes a link or, unless the users are late, a format while the
\* pipeline streams; the first node to start finds the links valid.
LEMMA ValidStep == TypeInv /\ RunInv /\ ValidInv /\ [Next]_vars => ValidInv'
<1> SUFFICES ASSUME TypeInv, RunInv, ValidInv, [Next]_vars, ~scope'.late, PipelineOn'
             PROVE  LinksValid'
  BY DEF ValidInv
<1>u. scope' = scope
  BY DEF Next, vars
<1>1. CASE PipelineOn /\ UNCHANGED <<linked, sensorFmt, seninfFmt, camFmt>>
  BY <1>1, <1>u DEF ValidInv, LinksValid
<1>2. CASE PadStep
  <2>1. UNCHANGED <<started, starting>>
    BY <1>2, PadStepNodes DEF runVars
  <2>2. PipelineOn
    BY <2>1 DEF PipelineOn
  <2> QED
    BY <1>2, <1>u, <2>2 DEF PadStep, SetupLink
<1>3. ASSUME NEW n \in scope.nodes, StreamOn(n) PROVE LinksValid'
  <2>1. started = {} => LinksValid
    BY <1>3 DEF StreamOn
  <2>2. started # {} => LinksValid
    BY <1>u DEF ValidInv, PipelineOn
  <2>3. UNCHANGED <<linked, sensorFmt, seninfFmt, camFmt>>
    BY <1>3 DEF StreamOn, padVars
  <2> QED
    BY <2>1, <2>2, <2>3 DEF LinksValid
<1>4. ASSUME NEW n \in scope.nodes, StreamOff(n) PROVE LinksValid'
  BY <1>1, <1>4 DEF StreamOff, PipelineOn, padVars
<1>5. ASSUME NEW n,
             \/ \E on \in BOOLEAN : EnableNode(n, on)
             \/ \E r \in scope.requests : SFmt(n, r)
             \/ \E bs \in SUBSET Bufs : ReqBufs(n, bs)
             \/ \E b \in Bufs, s \in BufSizes : CreateBuf(n, b, s)
             \/ \E b \in Bufs : QBuf(n, b) \/ DQBuf(n, b)
      PROVE  LinksValid'
  BY <1>1, <1>5 DEF EnableNode, SFmt, ReqBufs, CreateBuf, QBuf, DQBuf, PipelineOn, padVars,
     runVars
<1>6. CASE CountNode \/ (\E p \in scope.ports : StreamOnSubdevs(p)) \/ StreamOnFails
  BY <1>1, <1>6 DEF CountNode, StreamOnSubdevs, StreamOnFails, PipelineOn, padVars
<1>7. CASE UNCHANGED vars
  BY <1>1, <1>7 DEF vars, padVars, runVars, PipelineOn
<1> QED
  BY <1>2, <1>3, <1>4, <1>5, <1>6, <1>7 DEF Next, NodeStep

\* The frame the ISP was told of stays the sensor's.
LEMMA FrameStep == TypeInv /\ RunInv /\ FrameInv /\ [Next]_vars => FrameInv'
<1> SUFFICES ASSUME TypeInv, RunInv, FrameInv, [Next]_vars, ~scope'.late, streaming'
             PROVE  config'.fmt = sensorFmt'[sensor']
  BY DEF FrameInv
<1>u. scope' = scope
  BY DEF Next, vars
<1>1. CASE UNCHANGED <<sensorFmt, streaming, sensor, config>>
  BY <1>1, <1>u DEF FrameInv
<1>2. CASE PadStep
  <2>1. UNCHANGED <<started, starting, streaming, sensor, config>>
    BY <1>2, PadStepNodes DEF runVars
  <2>2. PipelineOn
    BY <2>1 DEF RunInv, PipelineOn
  <2> QED
    BY <1>1, <1>2, <1>u, <2>1, <2>2 DEF PadStep, SetupLink
<1>3. ASSUME NEW n, NodeStep(n) PROVE config'.fmt = sensorFmt'[sensor']
  BY <1>1, <1>3 DEF NodeStep, EnableNode, SFmt, ReqBufs, CreateBuf, QBuf, DQBuf, StreamOn,
     StreamOff, padVars, runVars
<1>4. ASSUME NEW p \in scope.ports, StreamOnSubdevs(p)
      PROVE  config'.fmt = sensorFmt'[sensor']
  BY <1>4 DEF StreamOnSubdevs, IspConfig, padVars
<1>5. CASE CountNode \/ StreamOnFails \/ UNCHANGED vars
  BY <1>1, <1>5 DEF CountNode, StreamOnFails, vars, padVars, runVars
<1> QED
  BY <1>2, <1>3, <1>4, <1>5 DEF Next

\* What the ISP was told of its outputs stays true.
LEMMA OutStep ==
  TypeInv /\ BufInv /\ RunInv /\ OutInv /\ [Next]_vars => OutInv'
<1> SUFFICES ASSUME TypeInv, BufInv, RunInv, OutInv, [Next]_vars
             PROVE  OutInv'
  OBVIOUS
<1>s. scope.ports \subseteq Ports /\ scope.nodes \subseteq Nodes
  BY ScopeSets DEF TypeInv
<1>1. CASE UNCHANGED <<enabled, vdevFmt, streaming, config>>
  BY <1>1 DEF OutInv
<1>2. CASE PadStep
  BY <1>1, <1>2, PadStepNodes DEF nodeVars, runVars
<1>4. ASSUME NEW n, NEW on, EnableNode(n, on) PROVE OutInv'
  <2>1. ~streaming'
    BY <1>4 DEF EnableNode, PipelineOn, RunInv, runVars
  <2> QED
    BY <2>1 DEF OutInv
<1>5. ASSUME NEW n \in scope.nodes, NEW r \in scope.requests, SFmt(n, r)
      PROVE  OutInv'
  <2>1. /\ UNCHANGED <<enabled, streaming, config>>
        /\ Allocated(n) = {}
        /\ \A m \in Nodes \ {n} : vdevFmt'[m] = vdevFmt[m]
    BY <1>5 DEF SFmt, Busy, padVars, runVars, TypeInv
  <2>2. streaming => n \notin enabled
    BY <1>s, <2>1, ConfigAssumption DEF RunInv, BufInv
  <2> QED
    BY <2>1, <2>2 DEF OutInv, TypeInv
<1>6. ASSUME NEW n,
             \/ \E bs \in SUBSET Bufs : ReqBufs(n, bs)
             \/ \E b \in Bufs, s \in BufSizes : CreateBuf(n, b, s)
             \/ \E b \in Bufs : QBuf(n, b) \/ DQBuf(n, b)
             \/ StreamOn(n)
      PROVE  OutInv'
  BY <1>1, <1>6 DEF ReqBufs, CreateBuf, QBuf, DQBuf, StreamOn, nodeVars, runVars
<1>7. ASSUME NEW n \in scope.nodes, StreamOff(n) PROVE OutInv'
  BY <1>1, <1>7 DEF StreamOff, OutInv
<1>8. CASE CountNode \/ StreamOnFails \/ UNCHANGED vars
  BY <1>1, <1>8 DEF CountNode, StreamOnFails, vars, nodeVars, runVars
<1>9. ASSUME NEW p \in scope.ports, StreamOnSubdevs(p) PROVE OutInv'
  <2>1. /\ config'.fmt = sensorFmt[p] /\ config'.out = [n \in enabled |-> vdevFmt[n]]
        /\ UNCHANGED <<enabled, vdevFmt>> /\ ConfigAccepts(p)
    BY <1>9 DEF StreamOnSubdevs, IspConfig, nodeVars
  <2>2. /\ sensorFmt[p].code # NoCode
        /\ \A n \in enabled : /\ vdevFmt[n].width <= sensorFmt[p].w
                              /\ vdevFmt[n].height <= sensorFmt[p].h
    BY <2>1 DEF ConfigAccepts, config_img_fmt
  <2> QED
    BY <2>1, <2>2 DEF OutInv
<1> QED
  BY <1>2, <1>4, <1>5, <1>6, <1>7, <1>8, <1>9 DEF Next, NodeStep

\* The negotiation.
LEMMA TalkStep == TypeInv /\ TalkInv /\ [Next]_vars => TalkInv'
<1> SUFFICES ASSUME TypeInv, TalkInv, [Next]_vars PROVE TalkInv'
  OBVIOUS
<1>a. Src \notin Ports /\ Sink \notin Nodes
  BY ConfigAssumption
<1>1. CASE UNCHANGED padVars
  BY <1>1 DEF TalkInv, padVars
<1>2. ASSUME talked' = 0 PROVE TalkInv'
  BY <1>2 DEF TalkInv
<1>3. CASE \/ \E p \in scope.ports, on \in BOOLEAN : SetupLink(p, on)
           \/ \E p \in scope.ports, f \in scope.fmts : SensorSetFmt(p, f)
  BY <1>2, <1>3 DEF SetupLink, SensorSetFmt
<1>4. ASSUME NEW pad \in scope.ports \cup {Src}, NEW f, SeninfSetFmt(pad, f)
      PROVE  TalkInv'
  <2>1. CASE pad = port /\ f = sensorFmt[port]
    <3>1. /\ talked' = 1 /\ seninfFmt' = Propagate(port, WithCode(f))
          /\ UNCHANGED <<port, sensorFmt>>
      BY <1>4, <2>1 DEF SeninfSetFmt
    <3>2. f \in Fmts /\ port \in Ports
      BY <2>1 DEF TypeInv
    <3>3. seninfFmt' = [seninfFmt EXCEPT ![port] = f, ![Src] = f]
      BY <3>1, <3>2, CodeKept DEF Propagate
    <3>4. seninfFmt'[port] = f /\ seninfFmt'[Src] = f
      BY <1>a, <3>2, <3>3 DEF TypeInv
    <3> QED
      BY <2>1, <3>1, <3>4 DEF TalkInv
  <2>2. CASE ~(pad = port /\ f = sensorFmt[port])
    BY <1>2, <1>4, <2>2 DEF SeninfSetFmt
  <2> QED
    BY <2>1, <2>2
<1>5. ASSUME NEW pad, NEW f, CamSetFmt(pad, f) PROVE TalkInv'
  <2>1. CASE pad = Sink /\ f = seninfFmt[Src] /\ talked > 0
    <3>1. /\ talked' = 2 /\ camFmt' = [p \in Nodes \cup {Sink} |-> f]
          /\ UNCHANGED <<port, sensorFmt, seninfFmt>>
      BY <1>5, <2>1 DEF CamSetFmt, CamPropagate
    <3> QED
      BY <2>1, <3>1 DEF TalkInv
  <2>2. CASE ~(pad = Sink /\ f = seninfFmt[Src] /\ talked > 0)
    BY <1>2, <1>5, <2>2 DEF CamSetFmt
  <2> QED
    BY <2>1, <2>2
<1>6. ASSUME NEW n, NodeStep(n) PROVE TalkInv'
  BY <1>1, <1>6 DEF NodeStep, EnableNode, SFmt, ReqBufs, CreateBuf, QBuf, DQBuf, StreamOn,
     StreamOff
<1>7. CASE CountNode \/ (\E p \in scope.ports : StreamOnSubdevs(p)) \/ StreamOnFails
           \/ UNCHANGED vars
  BY <1>1, <1>7 DEF CountNode, StreamOnSubdevs, StreamOnFails, vars
<1> QED
  BY <1>3, <1>4, <1>5, <1>6, <1>7 DEF Next, PadStep, SetFmtStep

\* Exclusive users.
LEMMA PortStep == TypeInv /\ PortInv /\ [Next]_vars => PortInv'
<1> SUFFICES ASSUME TypeInv, PortInv, [Next]_vars PROVE PortInv'
  OBVIOUS
<1>u. scope' = scope
  BY DEF Next, vars
<1>1. ASSUME NEW p \in scope.ports, NEW on \in BOOLEAN, SetupLink(p, on) PROVE PortInv'
  BY <1>1, <1>u DEF SetupLink, SeninfLinkSetup, PortInv
<1>2. CASE UNCHANGED <<linked, port>>
  BY <1>2, <1>u DEF PortInv
<1>3. CASE \/ \E p \in scope.ports, f \in scope.fmts : SensorSetFmt(p, f)
           \/ \E pad, f : SeninfSetFmt(pad, f)
           \/ \E pad, f : CamSetFmt(pad, f)
  BY <1>2, <1>3 DEF SensorSetFmt, SeninfSetFmt, CamSetFmt
<1>4. ASSUME NEW n, NodeStep(n) PROVE PortInv'
  BY <1>2, <1>4 DEF NodeStep, EnableNode, SFmt, ReqBufs, CreateBuf, QBuf, DQBuf, StreamOn,
     StreamOff, padVars
<1>5. CASE CountNode \/ (\E p \in scope.ports : StreamOnSubdevs(p)) \/ StreamOnFails
           \/ UNCHANGED vars
  BY <1>2, <1>5 DEF CountNode, StreamOnSubdevs, StreamOnFails, vars, padVars
<1> QED
  BY <1>1, <1>3, <1>4, <1>5 DEF Next, PadStep, SetFmtStep

-----------------------------------------------------------------------------
(***************************************************************************)
(* The theorems.                                                           *)
(***************************************************************************)

\* The conjunction is inductive.
LEMMA ConfigAlways == Spec => []ConfigInv
<1>1. ConfigInv /\ [Next]_vars => ConfigInv'
  BY TypeStep, FmtStep, BufStep, RunStep, TalkStep, PortStep, ValidStep, FrameStep, OutStep
     DEF ConfigInv
<1> QED
  BY <1>1, ConfigInit, PTL DEF Spec

\* For every set of sensors, formats and buffers: what mtk_isp_hw_config sent stays
\* what G_FMT gives while the ISP streams, within the frame it was told of, and the
\* validated links stay valid unless a user sets a pad format late.
THEOREM ConfigAlwaysCurrent == Spec => []ConfigCurrent
<1>1. ConfigInv => ConfigCurrent
  BY DEF ConfigInv, RunInv, ValidInv, PipelineOn, FrameInv, OutInv, ConfigCurrent
<1> QED
  BY <1>1, ConfigAlways, PTL

\* For every buffer size asked for and every request: while the ISP streams, a
\* queued buffer holds the stride times the height the ISP was told to write.
THEOREM DmaAlwaysFits == Spec => []DmaFits
<1>1. ConfigInv => DmaFits
  <2> SUFFICES ASSUME ConfigInv, streaming, NEW n \in enabled, NEW b \in queued[n]
               PROVE  size[n][b] >= config.out[n].bytesperline * config.out[n].height
    BY DEF DmaFits
  <2>1. n \in Nodes /\ config.out[n] = vdevFmt[n]
    BY DEF ConfigInv, TypeInv, OutInv
  <2>2. size[n][b] >= vdevFmt[n].sizeimage
    BY <2>1 DEF ConfigInv, BufInv
  <2>3. vdevFmt[n].sizeimage = vdevFmt[n].bytesperline * vdevFmt[n].height
    BY <2>1 DEF ConfigInv, FmtInv
  <2> QED
    BY <2>1, <2>2, <2>3
<1> QED
  BY <1>1, ConfigAlways, PTL

\* For every number of sensors and formats: a negotiation along the chain passes
\* link validation and gives the image pads the sensor's format.
THEOREM NegotiationAlwaysHolds == Spec => []NegotiationHolds
<1>1. ConfigInv => NegotiationHolds
  BY DEF ConfigInv, TypeInv, TalkInv, NegotiationHolds, LinksValid
<1> QED
  BY <1>1, ConfigAlways, PTL

\* For every number of sensors: the seninf receives from the one that is linked,
\* if two were never linked together.
THEOREM PortAlwaysMatches == Spec => []PortMatchesSensor
<1>1. ConfigInv => PortMatchesSensor
  BY DEF ConfigInv, PortInv, PortMatchesSensor
<1> QED
  BY <1>1, ConfigAlways, PTL

-----------------------------------------------------------------------------
(***************************************************************************)
(* TRY_FMT: strides and sizes.                                             *)
(***************************************************************************)
\* ALIGN and DIV_ROUND_UP: the next multiple, less than one step away.
LEMMA DivRoundUpFacts ==
  ASSUME NEW n \in Nat, NEW d \in {2, 4, 8}
  PROVE  /\ DivRoundUp(n, d) \in Nat
         /\ DivRoundUp(n, d) * d >= n
         /\ DivRoundUp(n, d) * d < n + d
BY DEF DivRoundUp

LEMMA AlignUpFacts ==
  ASSUME NEW n \in Nat, NEW a \in {2, 4, 8}
  PROVE  /\ AlignUp(n, a) \in Nat
         /\ AlignUp(n, a) >= n
         /\ AlignUp(n, a) < n + a
         /\ AlignUp(n, a) % a = 0
<1>1. DivRoundUp(n, a) \in Nat
  BY DivRoundUpFacts
<1>2. AlignUp(n, a) >= n /\ AlignUp(n, a) < n + a
  BY DivRoundUpFacts DEF AlignUp
<1>3. \A k \in Nat : (k * 2) % 2 = 0 /\ (k * 4) % 4 = 0 /\ (k * 8) % 8 = 0
  OBVIOUS
<1> QED
  BY <1>1, <1>2, <1>3 DEF AlignUp

\* A line of width pixels always fits the stride of cal_image_pix_mp, whatever
\* the node and the depth.
LEMMA StrideFits ==
  ASSUME NEW n \in ImageNodes, NEW bits \in Depths, NEW width \in Nat
  PROVE  /\ BytesPerLine(n, bits, width) \in Nat
         /\ BytesPerLine(n, bits, width) * 8 >= PixelsPerLine(n, width) * bits
         /\ BytesPerLine(n, bits, width) * 8 < PixelsPerLine(n, width) * bits + 64
         /\ BytesPerLine(n, bits, width) % 4 = 0
<1> DEFINE px == PixelsPerLine(n, width)
           line == DivRoundUp(px * bits, 8)
           align == IF n = "main" THEN 2 ELSE IF bits = 10 THEN 4 ELSE 8
           bpl == AlignUp(AlignUp(line, align), 4)
<1>1. px \in Nat
  BY DivRoundUpFacts DEF PixelsPerLine
<1>2. BytesPerLine(n, bits, width) = bpl
  BY DEF BytesPerLine
<1> HIDE DEF px
<1>3. px * bits \in Nat
  BY <1>1 DEF Depths
<1>4. line \in Nat /\ line * 8 >= px * bits /\ line * 8 < px * bits + 8
  BY <1>3, DivRoundUpFacts
<1>5. align \in {2, 4, 8}
  OBVIOUS
<1> HIDE DEF line, align
<1>6. /\ AlignUp(line, align) \in Nat
      /\ AlignUp(line, align) >= line
      /\ AlignUp(line, align) < line + align
      /\ AlignUp(line, align) % align = 0
  BY <1>4, <1>5, AlignUpFacts
<1>7. bpl \in Nat /\ bpl >= AlignUp(line, align) /\ bpl % 4 = 0
      /\ bpl < AlignUp(line, align) + 4
  BY <1>6, AlignUpFacts
<1>8. bpl <= line + 7
  <2>1. CASE align = 8
    <3>1. AlignUp(line, align) % 4 = 0
      BY <1>6, <2>1
    <3>2. bpl = AlignUp(line, align)
      BY <1>6, <1>7, <3>1
    <3> QED
      BY <1>4, <1>6, <1>7, <2>1, <3>2
  <2>2. CASE align = 4
    <3>1. bpl = AlignUp(line, align)
      BY <1>6, <1>7, <2>2
    <3> QED
      BY <1>4, <1>6, <1>7, <2>2, <3>1
  <2>3. CASE align = 2
    BY <1>4, <1>6, <1>7, <2>3
  <2> QED
    BY <1>5, <2>1, <2>2, <2>3
<1> HIDE DEF bpl
<1>9. bpl * 8 >= px * bits /\ bpl * 8 < px * bits + 64
  BY <1>3, <1>4, <1>6, <1>7, <1>8
<1> QED
  BY <1>2, <1>7, <1>9 DEF px

-----------------------------------------------------------------------------
(***************************************************************************)
(* The tables of formats, and the replies of TRY_FMT.                      *)
(***************************************************************************)

\* No format is twice in a table, and the driver's switches know each.
Distinct(s) ==
  /\ s \in Seq(KnownFourcc) /\ Len(s) \in Nat
  /\ \A i \in 1 .. Len(s) : s[i] \in KnownFourcc
  /\ \A i, j \in 1 .. Len(s) : s[i] = s[j] => i = j

\* The Bayer orders of the packed formats in a table are below a number.
OrdersBelow(s, n) == \A i \in 1 .. Len(s) : s[i].pack = "std" \/ s[i].order < n

\* One Bayer order of a table.
LEMMA RowFacts ==
  ASSUME NEW p \in {"MB", "MF"}, NEW o \in Orders, NEW d \in Seq(Depths), Len(d) = 4,
         \A i, j \in 1 .. 4 : d[i] = d[j] => i = j
  PROVE  /\ Distinct(DepthRow(p, o, d)) /\ Len(DepthRow(p, o, d)) = 4
         /\ OrdersBelow(DepthRow(p, o, d), o + 1)
         /\ \A i \in 1 .. 4 : /\ DepthRow(p, o, d)[i].pack # "std"
                              /\ DepthRow(p, o, d)[i].order = o
<1>1. \A i \in 1 .. 4 : d[i] \in Depths
  BY ElementOfSeq
<1>2. \A i \in 1 .. 4 : [pack |-> p, order |-> o, bits |-> d[i]] \in KnownFourcc
  BY <1>1 DEF KnownFourcc, Fourcc
<1>3. DepthRow(p, o, d) \in Seq(KnownFourcc) /\ Len(DepthRow(p, o, d)) = 4
  BY <1>2 DEF DepthRow
<1>4. \A i \in 1 .. 4 : DepthRow(p, o, d)[i] = [pack |-> p, order |-> o, bits |-> d[i]]
  BY DEF DepthRow
<1>5. \A i, j \in 1 .. 4 : DepthRow(p, o, d)[i] = DepthRow(p, o, d)[j] => i = j
  BY <1>4
<1>6. o < o + 1
  BY DEF Orders
<1>7. \A i \in 1 .. 4 : /\ DepthRow(p, o, d)[i].pack # "std"
                        /\ DepthRow(p, o, d)[i].order = o
  BY <1>4
<1> QED
  BY <1>2, <1>3, <1>4, <1>5, <1>6, <1>7 DEF Distinct, OrdersBelow

\* A table with one Bayer order more.
LEMMA RowAdded ==
  ASSUME NEW s, NEW r, NEW o \in Orders, Distinct(s), OrdersBelow(s, o),
         Distinct(r), Len(r) = 4, OrdersBelow(r, o + 1),
         \A i \in 1 .. 4 : r[i].pack # "std" /\ r[i].order = o
  PROVE  /\ Distinct(s \o r) /\ OrdersBelow(s \o r, o + 1)
         /\ Len(s \o r) = Len(s) + 4
<1> DEFINE t == s \o r
<1>1. /\ t \in Seq(KnownFourcc) /\ Len(t) = Len(s) + 4 /\ Len(s) \in Nat
      /\ \A i \in 1 .. Len(s) + 4 : t[i] = IF i <= Len(s) THEN s[i] ELSE r[i - Len(s)]
  <2>1. s \in Seq(KnownFourcc) /\ r \in Seq(KnownFourcc) /\ Len(s) \in Nat /\ Len(r) = 4
    BY DEF Distinct
  <2>2. /\ s \o r \in Seq(KnownFourcc) /\ Len(s \o r) = Len(s) + Len(r)
        /\ \A i \in 1 .. Len(s) + Len(r) :
             (s \o r)[i] = IF i <= Len(s) THEN s[i] ELSE r[i - Len(s)]
    BY <2>1, ConcatProperties, Zenon
  <2> QED
    BY <2>1, <2>2
<1>2. \A i \in 1 .. Len(s) + 4 :
        \/ i \in 1 .. Len(s) /\ i <= Len(s)
        \/ i - Len(s) \in 1 .. 4 /\ ~(i <= Len(s)) /\ i = (i - Len(s)) + Len(s)
  BY <1>1
<1> HIDE DEF t
<1>3. ASSUME NEW i \in 1 .. Len(t)
      PROVE  t[i] \in KnownFourcc /\ (t[i].pack = "std" \/ t[i].order < o + 1)
  <2>1. CASE i \in 1 .. Len(s) /\ i <= Len(s)
    <3>1. t[i] = s[i] /\ s[i] \in KnownFourcc /\ (s[i].pack = "std" \/ s[i].order < o)
      BY <1>1, <2>1 DEF Distinct, OrdersBelow
    <3>2. s[i].order \in Orders
      BY <3>1 DEF KnownFourcc, Fourcc
    <3> QED
      BY <3>1, <3>2 DEF Orders
  <2>2. CASE i - Len(s) \in 1 .. 4 /\ ~(i <= Len(s))
    BY <1>1, <1>3, <2>2 DEF Distinct, OrdersBelow
  <2> QED
    BY <1>1, <1>2, <1>3, <2>1, <2>2
<1>4. ASSUME NEW i \in 1 .. Len(s), NEW j \in 1 .. 4 PROVE s[i] # r[j]
  <2>1. s[i].pack = "std" \/ s[i].order < o
    BY <1>4 DEF OrdersBelow
  <2>2. r[j].pack # "std" /\ r[j].order = o /\ ~(o < o)
    BY <1>4 DEF Orders
  <2> QED
    BY <2>1, <2>2
<1>5. ASSUME NEW i \in 1 .. Len(t), NEW j \in 1 .. Len(t), t[i] = t[j] PROVE i = j
  <2>1. i \in 1 .. Len(s) + 4 /\ j \in 1 .. Len(s) + 4
    BY <1>1
  <2>2. CASE i \in 1 .. Len(s) /\ i <= Len(s) /\ j \in 1 .. Len(s) /\ j <= Len(s)
    BY <1>1, <1>5, <2>1, <2>2 DEF Distinct
  <2>3. CASE i \in 1 .. Len(s) /\ i <= Len(s) /\ j - Len(s) \in 1 .. 4 /\ ~(j <= Len(s))
    BY <1>1, <1>4, <1>5, <2>1, <2>3
  <2>4. CASE j \in 1 .. Len(s) /\ j <= Len(s) /\ i - Len(s) \in 1 .. 4 /\ ~(i <= Len(s))
    BY <1>1, <1>4, <1>5, <2>1, <2>4
  <2>5. CASE /\ i - Len(s) \in 1 .. 4 /\ ~(i <= Len(s)) /\ i = (i - Len(s)) + Len(s)
             /\ j - Len(s) \in 1 .. 4 /\ ~(j <= Len(s)) /\ j = (j - Len(s)) + Len(s)
    <3>1. r[i - Len(s)] = r[j - Len(s)]
      BY <1>1, <1>5, <2>1, <2>5
    <3>2. i - Len(s) = j - Len(s)
      BY <2>5, <3>1 DEF Distinct
    <3> QED
      BY <2>5, <3>2
  <2> QED
    BY <1>2, <2>1, <2>2, <2>3, <2>4, <2>5
<1>6. Len(t) \in Nat
  BY <1>1
<1> QED
  BY <1>1, <1>3, <1>5, <1>6 DEF Distinct, OrdersBelow, t

\* The tables of both nodes.
LEMMA TablesDistinct ==
  ASSUME NEW n \in ImageNodes
  PROVE  Distinct(fmts(n)) /\ Len(fmts(n)) >= 1
<1> DEFINE std == [i \in 1 .. 4 |-> [pack |-> "std", order |-> i - 1, bits |-> 8]]
           first == <<10, 8, 12, 14>>
           rest == <<8, 10, 12, 14>>
<1>1. /\ first \in Seq(Depths) /\ Len(first) = 4
      /\ \A i, j \in 1 .. 4 : first[i] = first[j] => i = j
  BY DEF Depths
<1>2. /\ rest \in Seq(Depths) /\ Len(rest) = 4
      /\ \A i, j \in 1 .. 4 : rest[i] = rest[j] => i = j
  BY DEF Depths
<1>3. Distinct(std) /\ OrdersBelow(std, 0) /\ Len(std) = 4
  <2>1. \A i \in 1 .. 4 : i - 1 \in Orders
    BY DEF Orders
  <2>2. \A i \in 1 .. 4 : [pack |-> "std", order |-> i - 1, bits |-> 8] \in KnownFourcc
    BY <2>1 DEF KnownFourcc, Fourcc, Depths
  <2>3. std \in Seq(KnownFourcc) /\ Len(std) = 4
    BY <2>2
  <2>4. \A i \in 1 .. 4 : std[i] = [pack |-> "std", order |-> i - 1, bits |-> 8]
    OBVIOUS
  <2>5. \A i, j \in 1 .. 4 : i - 1 = j - 1 => i = j
    OBVIOUS
  <2> HIDE DEF std
  <2>6. \A i, j \in 1 .. 4 : std[i] = std[j] => i = j
    <3>1. \A i \in 1 .. 4 : std[i].order = i - 1
      BY <2>4
    <3> QED
      BY <2>5, <3>1
  <2> QED
    BY <2>2, <2>3, <2>4, <2>6 DEF Distinct, OrdersBelow
<1> DEFINE a(o) == DepthRow("MB", o, IF o = 0 THEN first ELSE rest)
           b(o) == DepthRow("MF", o, rest)
<1>4. ASSUME NEW o \in Orders
      PROVE  /\ Distinct(a(o)) /\ Len(a(o)) = 4 /\ OrdersBelow(a(o), o + 1)
             /\ \A i \in 1 .. 4 : a(o)[i].pack # "std" /\ a(o)[i].order = o
  <2> DEFINE d == IF o = 0 THEN first ELSE rest
  <2>1. /\ d \in Seq(Depths) /\ Len(d) = 4
        /\ \A i, j \in 1 .. 4 : d[i] = d[j] => i = j
    BY <1>1, <1>2
  <2> HIDE DEF d
  <2>2. /\ Distinct(DepthRow("MB", o, d)) /\ Len(DepthRow("MB", o, d)) = 4
        /\ OrdersBelow(DepthRow("MB", o, d), o + 1)
        /\ \A i \in 1 .. 4 : /\ DepthRow("MB", o, d)[i].pack # "std"
                             /\ DepthRow("MB", o, d)[i].order = o
    BY <2>1, RowFacts
  <2> QED
    BY <2>2 DEF d
<1>5. ASSUME NEW o \in Orders
      PROVE  /\ Distinct(b(o)) /\ Len(b(o)) = 4 /\ OrdersBelow(b(o), o + 1)
             /\ \A i \in 1 .. 4 : b(o)[i].pack # "std" /\ b(o)[i].order = o
  <2> HIDE DEF rest
  <2>1. /\ Distinct(DepthRow("MF", o, rest)) /\ Len(DepthRow("MF", o, rest)) = 4
        /\ OrdersBelow(DepthRow("MF", o, rest), o + 1)
        /\ \A i \in 1 .. 4 : /\ DepthRow("MF", o, rest)[i].pack # "std"
                             /\ DepthRow("MF", o, rest)[i].order = o
    BY <1>2, RowFacts
  <2> QED
    BY <2>1
<1>6. /\ stream_out_fmts = (((std \o a(0)) \o a(1)) \o a(2)) \o a(3)
      /\ bin_out_fmts = ((b(0) \o b(1)) \o b(2)) \o b(3)
  BY DEF stream_out_fmts, bin_out_fmts
<1> HIDE DEF std, a, b
<1>7. /\ 0 \in Orders /\ 1 \in Orders /\ 2 \in Orders /\ 3 \in Orders
      /\ 0 + 1 = 1 /\ 1 + 1 = 2 /\ 2 + 1 = 3
  BY DEF Orders
<1>8. Distinct(stream_out_fmts) /\ Len(stream_out_fmts) >= 1
  <2>1. Distinct(std \o a(0)) /\ OrdersBelow(std \o a(0), 1)
    BY <1>3, <1>4, <1>7, RowAdded
  <2>2. Distinct((std \o a(0)) \o a(1)) /\ OrdersBelow((std \o a(0)) \o a(1), 2)
    BY <1>4, <1>7, <2>1, RowAdded
  <2>3. /\ Distinct(((std \o a(0)) \o a(1)) \o a(2))
        /\ OrdersBelow(((std \o a(0)) \o a(1)) \o a(2), 3)
    BY <1>4, <1>7, <2>2, RowAdded
  <2> DEFINE u == ((std \o a(0)) \o a(1)) \o a(2)
  <2> HIDE DEF u
  <2>4. Distinct(u) /\ OrdersBelow(u, 3) /\ stream_out_fmts = u \o a(3)
    BY <1>6, <2>3 DEF u
  <2>5. /\ Distinct(u \o a(3)) /\ Len(u \o a(3)) = Len(u) + 4 /\ Len(u) \in Nat
    BY <1>4, <1>7, <2>4, RowAdded DEF Distinct
  <2> QED
    BY <2>4, <2>5
<1>9. Distinct(bin_out_fmts) /\ Len(bin_out_fmts) >= 1
  <2>1. Distinct(b(0)) /\ OrdersBelow(b(0), 1)
    BY <1>5, <1>7
  <2>2. Distinct(b(0) \o b(1)) /\ OrdersBelow(b(0) \o b(1), 2)
    BY <1>5, <1>7, <2>1, RowAdded
  <2>3. Distinct((b(0) \o b(1)) \o b(2)) /\ OrdersBelow((b(0) \o b(1)) \o b(2), 3)
    BY <1>5, <1>7, <2>2, RowAdded
  <2> DEFINE u == (b(0) \o b(1)) \o b(2)
  <2> HIDE DEF u
  <2>4. Distinct(u) /\ OrdersBelow(u, 3) /\ bin_out_fmts = u \o b(3)
    BY <1>6, <2>3 DEF u
  <2>5. /\ Distinct(u \o b(3)) /\ Len(u \o b(3)) = Len(u) + 4 /\ Len(u) \in Nat
    BY <1>5, <1>7, <2>4, RowAdded DEF Distinct
  <2> QED
    BY <2>4, <2>5
<1> QED
  BY <1>8, <1>9 DEF fmts

\* The tables are not empty, so the default format is one of the node's, and
\* hold only formats the driver's switches know.
LEMMA TablesExist ==
  ASSUME NEW n \in ImageNodes
  PROVE  /\ find_fmt(n, default_fmt(n))
         /\ \A f : find_fmt(n, f) => f \in KnownFourcc
<1>1. /\ Len(fmts(n)) \in Nat /\ Len(fmts(n)) >= 1
      /\ \A i \in 1 .. Len(fmts(n)) : fmts(n)[i] \in KnownFourcc
  BY TablesDistinct DEF Distinct
<1>2. 1 \in 1 .. Len(fmts(n))
  BY <1>1
<1> QED
  BY <1>1, <1>2 DEF find_fmt, default_fmt

\* TRY_FMT keeps sizes within the limits, and keeps what is within them.
LEMMA TrySizes ==
  ASSUME NEW w \in Nat, NEW h \in Nat
  PROVE  /\ TryWidth(w) \in MinWidth .. MaxWidth
         /\ TryHeight(h) \in MinHeight .. MaxHeight
         /\ TryWidth(TryWidth(w)) = TryWidth(w)
         /\ TryHeight(TryHeight(h)) = TryHeight(h)
<1> DEFINE c == Clamp(w, MinWidth, MaxWidth)
<1>1. c \in MinWidth .. MaxWidth /\ c \in Nat
  BY FormatAssumption DEF Clamp
<1>2. TryWidth(w) = AlignUp(c, 4)
  BY DEF TryWidth
<1> HIDE DEF c
<1>3. /\ AlignUp(c, 4) \in Nat /\ AlignUp(c, 4) >= c
      /\ AlignUp(c, 4) < c + 4 /\ AlignUp(c, 4) % 4 = 0
  BY <1>1, AlignUpFacts
<1> DEFINE a == AlignUp(c, 4)
<1> HIDE DEF a
<1>4. a \in Nat /\ a >= c /\ a < c + 4 /\ a % 4 = 0
  BY <1>3 DEF a
<1>5. a \in MinWidth .. MaxWidth
  BY <1>1, <1>4, FormatAssumption
<1>6. AlignUp(a, 4) = a
  <2>1. AlignUp(a, 4) \in Nat /\ AlignUp(a, 4) >= a
        /\ AlignUp(a, 4) < a + 4 /\ AlignUp(a, 4) % 4 = 0
    BY <1>4, AlignUpFacts
  <2> QED
    BY <1>4, <2>1
<1>7. TryWidth(a) = a
  BY <1>5, <1>6, FormatAssumption DEF TryWidth, Clamp
<1>8. /\ TryHeight(h) \in MinHeight .. MaxHeight
      /\ TryHeight(TryHeight(h)) = TryHeight(h)
  BY FormatAssumption DEF TryHeight, Clamp
<1> QED
  BY <1>2, <1>5, <1>7, <1>8 DEF a

\* What a reply comes from: a call of TRY_FMT.
Replied ==
  phase = "replied" =>
    \E f : \E w \in Nat, h \in Nat : reply = try_fmt(node, f, w, h)

ReplyInv == node \in ImageNodes /\ Replied

\* Every step keeps it.
LEMMA ReplyStep == ClientSpec => []ReplyInv
<1>1. ClientInit => ReplyInv
  BY DEF ClientInit, ReplyInv, Replied
<1>2. ReplyInv /\ [ClientNext]_clientVars => ReplyInv'
  <2> SUFFICES ASSUME ReplyInv, [ClientNext]_clientVars
               PROVE  ReplyInv'
    OBVIOUS
  <2>1. CASE EnumFmt
    <3>1. phase' # "replied" /\ node' = node
      BY <2>1 DEF EnumFmt
    <3> QED
      BY <3>1 DEF ReplyInv, Replied
  <2>2. ASSUME NEW f, NEW w \in Widths, NEW h \in Heights, TryFmt(f, w, h)
        PROVE  ReplyInv'
    <3>1. w \in Nat /\ h \in Nat
      BY ClientAssumption
    <3>2. reply' = try_fmt(node, f, w, h) /\ node' = node
      BY <2>2 DEF TryFmt
    <3>3. \E f1 : \E w1 \in Nat, h1 \in Nat : reply' = try_fmt(node', f1, w1, h1)
      <4>1. reply' = try_fmt(node', f, w, h)
        BY <3>2
      <4> QED
        BY <3>1, <4>1
    <3>4. node' \in ImageNodes
      BY <3>2 DEF ReplyInv
    <3> QED
      BY <3>3, <3>4 DEF ReplyInv, Replied
  <2>3. CASE UNCHANGED clientVars
    BY <2>3 DEF ReplyInv, Replied, clientVars
  <2> QED
    BY <2>1, <2>2, <2>3 DEF ClientNext
<1> QED
  BY <1>1, <1>2, PTL DEF ClientSpec

\* In every reply of TRY_FMT the stride holds a line and is aligned, for all
\* requested sizes and all limits.
THEOREM RepliesFit == ClientSpec => []LineFits
<1>1. ReplyInv => LineFits
  <2> SUFFICES ASSUME ReplyInv, phase = "replied" PROVE LineFits
    BY DEF LineFits
  <2>0. PICK f : \E w \in Nat, h \in Nat : reply = try_fmt(node, f, w, h)
    BY DEF ReplyInv, Replied
  <2>1. PICK w \in Nat, h \in Nat : reply = try_fmt(node, f, w, h)
    BY <2>0
  <2> DEFINE g == IF find_fmt(node, f) THEN f ELSE default_fmt(node)
             tw == TryWidth(w)
             th == TryHeight(h)
             bpl == BytesPerLine(node, get_pixel_bits(g), tw)
  <2>2. reply = [pixelformat |-> g, width |-> tw, height |-> th,
                 bytesperline |-> bpl, sizeimage |-> bpl * th]
    BY <2>1 DEF try_fmt, Pix
  <2>3. g \in KnownFourcc
    BY TablesExist DEF ReplyInv
  <2>4. tw \in Nat
    BY TrySizes, FormatAssumption
  <2> HIDE DEF g, tw, th
  <2>5. get_pixel_bits(g) = g.bits /\ g.bits \in Depths
    BY <2>3 DEF get_pixel_bits, KnownFourcc, Fourcc
  <2>6. /\ bpl * 8 >= PixelsPerLine(node, tw) * g.bits
        /\ bpl * 8 < PixelsPerLine(node, tw) * g.bits + 64
        /\ bpl % 4 = 0
    BY <2>4, <2>5, StrideFits DEF ReplyInv
  <2> HIDE DEF bpl
  <2>7. reply.pixelformat = g /\ reply.width = tw /\ reply.height = th
        /\ reply.bytesperline = bpl /\ reply.sizeimage = bpl * th
    BY <2>2
  <2> QED
    BY <2>6, <2>7 DEF LineFits
<1> QED
  BY <1>1, ReplyStep, PTL

\* Every reply of TRY_FMT is within the limits and asking again changes
\* nothing, for all requested sizes and all limits.
THEOREM RepliesStable == ClientSpec => []ReplyStable
<1>1. ReplyInv => ReplyStable
  <2> SUFFICES ASSUME ReplyInv, phase = "replied" PROVE ReplyStable
    BY DEF ReplyStable
  <2>0. PICK f : \E w \in Nat, h \in Nat : reply = try_fmt(node, f, w, h)
    BY DEF ReplyInv, Replied
  <2>1. PICK w \in Nat, h \in Nat : reply = try_fmt(node, f, w, h)
    BY <2>0
  <2> DEFINE g == IF find_fmt(node, f) THEN f ELSE default_fmt(node)
             tw == TryWidth(w)
             th == TryHeight(h)
  <2>2. reply = Pix(node, g, tw, th)
    BY <2>1 DEF try_fmt
  <2>3. find_fmt(node, g)
    BY TablesExist DEF ReplyInv
  <2>4. /\ tw \in MinWidth .. MaxWidth /\ th \in MinHeight .. MaxHeight
        /\ TryWidth(tw) = tw /\ TryHeight(th) = th
    BY TrySizes
  <2> HIDE DEF g, tw, th
  <2>5. try_fmt(node, g, tw, th) = reply
    BY <2>2, <2>3, <2>4 DEF try_fmt
  <2>6. reply.pixelformat = g /\ reply.width = tw /\ reply.height = th
    BY <2>2 DEF Pix
  <2> QED
    BY <2>4, <2>5, <2>6 DEF ReplyStable
<1> QED
  BY <1>1, ReplyStep, PTL

-----------------------------------------------------------------------------
(***************************************************************************)
(* ENUM_FMT: the count of the matches, and a client that lists.            *)
(***************************************************************************)
\* The count of the loop rises from match to match.
LEMMA BeforeFacts ==
  ASSUME NEW n \in ImageNodes, NEW c
  PROVE  /\ Matches(n, c) \subseteq 1 .. Len(fmts(n)) /\ Len(fmts(n)) \in Nat
         /\ \A i \in Matches(n, c) : MatchesBefore(n, c, i) \in Nat
         /\ \A i, j \in Matches(n, c) : i < j => MatchesBefore(n, c, i) < MatchesBefore(n, c, j)
         /\ \A i, j \in Matches(n, c) : MatchesBefore(n, c, i) = MatchesBefore(n, c, j) => i = j
<1> DEFINE M == Matches(n, c)
           before(i) == {j \in M : j < i}
<1>1. M \subseteq 1 .. Len(fmts(n)) /\ Len(fmts(n)) \in Nat
  BY TablesDistinct DEF Matches, Distinct
<1>2. \A i \in M : MatchesBefore(n, c, i) = Cardinality(before(i))
  BY DEF MatchesBefore
<1> HIDE DEF M
<1>3. IsFiniteSet(M)
  <2>1. 1 \in Int /\ Len(fmts(n)) \in Int
    BY <1>1
  <2>2. IsFiniteSet(1 .. Len(fmts(n)))
    BY <2>1, FS_Interval
  <2> QED
    BY <1>1, <2>2, FS_Subset
<1>4. \A i \in M : IsFiniteSet(before(i)) /\ Cardinality(before(i)) \in Nat
  BY <1>3, FS_Subset, FS_CardinalityType
<1>5. ASSUME NEW i \in M, NEW j \in M, i < j
      PROVE  Cardinality(before(i)) < Cardinality(before(j))
  <2>1. before(i) \subseteq before(j) /\ i \in before(j) /\ i \notin before(i)
    <3>1. /\ \A k \in M : k < i => k < j
          /\ ~(i < i)
      BY <1>1, <1>5
    <3> QED
      BY <1>5, <3>1
  <2>2. /\ Cardinality(before(i)) <= Cardinality(before(j))
        /\ Cardinality(before(i)) # Cardinality(before(j))
    BY <1>4, <2>1, FS_Subset
  <2> QED
    BY <1>4, <2>2
<1>6. \A i, j \in M : i < j \/ j < i \/ i = j
  BY <1>1
<1> HIDE DEF before
<1>7. \A i, j \in M : Cardinality(before(i)) = Cardinality(before(j)) => i = j
  BY <1>4, <1>5, <1>6
<1> QED
  BY <1>1, <1>2, <1>4, <1>5, <1>7 DEF M

\* It misses no number: one that no match has is above all of them.
LEMMA NoGap ==
  ASSUME NEW n \in ImageNodes, NEW c, NEW x \in Nat,
         \A i \in Matches(n, c) : MatchesBefore(n, c, i) # x
  PROVE  \A i \in Matches(n, c) : MatchesBefore(n, c, i) < x
<1> DEFINE M == Matches(n, c)
           r == [i \in M |-> MatchesBefore(n, c, i)]
           T == 0 .. Cardinality(M) - 1
<1>1. M \subseteq 1 .. Len(fmts(n)) /\ Len(fmts(n)) \in Nat
  BY BeforeFacts
<1>2. \A i \in M : r[i] \in Nat /\ r[i] # x
  BY BeforeFacts
<1>3. \A i, j \in M : r[i] = r[j] => i = j
  BY BeforeFacts
<1>4. \A i \in M : r[i] = Cardinality({j \in M : j < i})
  BY DEF MatchesBefore
<1>5. IsFiniteSet(M) /\ Cardinality(M) \in Nat
  <2>1. 1 \in Int /\ Len(fmts(n)) \in Int
    BY <1>1
  <2>2. IsFiniteSet(1 .. Len(fmts(n)))
    BY <2>1, FS_Interval
  <2> QED
    BY <1>1, <2>2, FS_Subset, FS_CardinalityType
<1>6. IsFiniteSet(T) /\ Cardinality(T) = Cardinality(M)
  <2> DEFINE m == Cardinality(M)
  <2>1. 0 \in Int /\ m - 1 \in Int /\ m \in Nat
    BY <1>5
  <2> HIDE DEF m
  <2>2. /\ IsFiniteSet(0 .. m - 1)
        /\ Cardinality(0 .. m - 1) = IF 0 > m - 1 THEN 0 ELSE m - 1 - 0 + 1
    BY <2>1, FS_Interval
  <2>3. (IF 0 > m - 1 THEN 0 ELSE m - 1 - 0 + 1) = m
    BY <2>1
  <2> QED
    BY <2>2, <2>3 DEF m
<1>7. DOMAIN r = M
  OBVIOUS
<1> HIDE DEF M, r
<1>8. \A i \in M : r[i] < Cardinality(M)
  <2> SUFFICES ASSUME NEW i \in M PROVE r[i] < Cardinality(M)
    OBVIOUS
  <2> DEFINE before == {j \in M : j < i}
  <2>1. before \subseteq M /\ before # M
    BY <1>1
  <2>2. Cardinality(before) <= Cardinality(M) /\ Cardinality(M) # Cardinality(before)
    BY <1>5, <2>1, FS_Subset
  <2> HIDE DEF before
  <2>3. r[i] = Cardinality(before) /\ r[i] \in Nat
    BY <1>2, <1>4 DEF before
  <2> QED
    BY <1>5, <2>2, <2>3
<1>9. r \in [M -> T]
  <2>1. \A i \in M : r[i] \in T
    BY <1>2, <1>5, <1>8
  <2> QED
    BY <1>7, <2>1 DEF r
<1> HIDE DEF T
<1>10. r \in Injection(M, T)
  BY <1>3, <1>7, <1>9 DEF Injection, IsInjective
<1>11. r \in Surjection(M, T)
  BY <1>6, <1>10, FS_Injection
<1>12. x \notin T
  BY <1>2, <1>11 DEF Surjection
<1>13. x >= Cardinality(M)
  BY <1>5, <1>12 DEF T
<1>14. \A i \in M : r[i] < x
  BY <1>2, <1>5, <1>8, <1>13
<1> QED
  BY <1>14 DEF M, r

\* The place of a listed format: the match its index counts to.
Places(i) ==
  \E k \in Matches(node, code) :
    MatchesBefore(node, code, k) = i - 1 /\ listed[i] = fmts(node)[k]

\* What is listed is the first matches, and at the end there is no other.
ListedInv ==
  /\ node \in ImageNodes
  /\ listed \in Seq(KnownFourcc) /\ Len(listed) \in Nat
  /\ \A i \in 1 .. Len(listed) : Places(i)
  /\ phase # "listing" =>
       \A k \in Matches(node, code) : MatchesBefore(node, code, k) # Len(listed)

\* Every step keeps it.
LEMMA ListedStep == ListedInv /\ [ClientNext]_clientVars => ListedInv'
<1> SUFFICES ASSUME ListedInv, [ClientNext]_clientVars PROVE ListedInv'
  OBVIOUS
<1>1. CASE EnumFmt
  <2> DEFINE found == {k \in Matches(node, code) :
                         MatchesBefore(node, code, k) = Len(listed)}
             f == fmts(node)[CHOOSE k \in found : TRUE]
  <2>1. node' = node /\ code' = code /\ phase = "listing"
    BY <1>1 DEF EnumFmt
  <2>2. UnknownFourcc \notin KnownFourcc
    BY DEF UnknownFourcc, KnownFourcc, Fourcc
  <2>3. \A k \in Matches(node, code) : fmts(node)[k] \in KnownFourcc
    BY TablesDistinct DEF ListedInv, Distinct, Matches
  <2>4. enum_fmt(node, code, Len(listed)) = IF found = {} THEN UnknownFourcc ELSE f
    BY DEF enum_fmt
  <2>5. CASE found = {}
    <3>1. listed' = listed
      BY <1>1, <2>4, <2>5 DEF EnumFmt
    <3> QED
      BY <2>1, <2>5, <3>1 DEF ListedInv, Places
  <2>6. CASE found # {}
    <3>1. PICK k \in found : f = fmts(node)[k]
      BY <2>6
    <3>2. f \in KnownFourcc /\ f # UnknownFourcc
      BY <2>2, <2>3, <3>1
    <3>3. listed' = Append(listed, f) /\ phase' = phase
      BY <1>1, <2>4, <2>6, <3>2 DEF EnumFmt
    <3> HIDE DEF f
    <3>4. /\ listed' \in Seq(KnownFourcc) /\ Len(listed') = Len(listed) + 1
          /\ \A i \in 1 .. Len(listed) : listed'[i] = listed[i]
          /\ listed'[Len(listed) + 1] = f /\ Len(listed) \in Nat
      BY <3>2, <3>3, AppendProperties DEF ListedInv
    <3>5. \A i \in 1 .. Len(listed) + 1 :
            i \in 1 .. Len(listed) \/ i = Len(listed) + 1
      BY <3>4
    <3>6. Len(listed) = (Len(listed) + 1) - 1
      BY <3>4
    <3>7. \E l \in Matches(node, code) :
            /\ MatchesBefore(node, code, l) = (Len(listed) + 1) - 1
            /\ listed'[Len(listed) + 1] = fmts(node)[l]
      BY <3>1, <3>4, <3>6
    <3>8. \A i \in 1 .. Len(listed) : \E l \in Matches(node, code) :
            MatchesBefore(node, code, l) = i - 1 /\ listed'[i] = fmts(node)[l]
      BY <3>4 DEF Places, ListedInv
    <3>9. \A i \in 1 .. Len(listed') : \E l \in Matches(node', code') :
            MatchesBefore(node', code', l) = i - 1 /\ listed'[i] = fmts(node')[l]
      BY <2>1, <3>4, <3>5, <3>7, <3>8
    <3>10. Len(listed') \in Nat
      BY <3>4
    <3> QED
      BY <2>1, <3>3, <3>4, <3>9, <3>10 DEF ListedInv, Places
  <2> QED
    BY <2>5, <2>6
<1>2. ASSUME NEW f, NEW w, NEW h, TryFmt(f, w, h) PROVE ListedInv'
  BY <1>2 DEF TryFmt, ListedInv, Places
<1>3. CASE UNCHANGED clientVars
  BY <1>3 DEF clientVars, ListedInv, Places
<1> QED
  BY <1>1, <1>2, <1>3 DEF ClientNext

\* What the invariant says of the listing.
LEMMA ListedInvGives ==
  ASSUME ListedInv
  PROVE  ListsEveryFormat
<1> DEFINE M == Matches(node, code)
           r(k) == MatchesBefore(node, code, k)
<1>1. /\ M \subseteq 1 .. Len(fmts(node))
      /\ \A k \in M : r(k) \in Nat
      /\ \A j, k \in M : r(j) = r(k) => j = k
  BY BeforeFacts DEF ListedInv
<1>2. \A i \in 1 .. Len(listed) :
        \E k \in M : r(k) = i - 1 /\ listed[i] = fmts(node)[k]
  BY DEF ListedInv, Places
<1>3. /\ Len(listed) \in Nat
      /\ \A i \in 1 .. Len(listed) : i - 1 \in Nat /\ (i - 1) + 1 = i
      /\ \A i, j \in 1 .. Len(listed) : i - 1 = j - 1 => i = j
      /\ \A x \in Nat : x < Len(listed) => x + 1 \in 1 .. Len(listed) /\ (x + 1) - 1 = x
  BY DEF ListedInv
<1>4. \A j, k \in M : fmts(node)[j] = fmts(node)[k] => j = k
  BY <1>1, TablesDistinct DEF ListedInv, Distinct
<1>5. phase # "listing" => \A k \in M : r(k) < Len(listed)
  BY NoGap DEF ListedInv
<1>6. M = {k \in 1 .. Len(fmts(node)) :
             code = NoCode \/ fmts(node)[k].order = code.order}
  BY DEF Matches, bayer_order, fmt_to_mbus
<1> HIDE DEF M, r
<1>7. \A i, j \in 1 .. Len(listed) : i # j => listed[i] # listed[j]
  <2> SUFFICES ASSUME NEW i \in 1 .. Len(listed), NEW j \in 1 .. Len(listed),
                      listed[i] = listed[j]
               PROVE  i = j
    OBVIOUS
  <2>1. PICK k \in M : r(k) = i - 1 /\ listed[i] = fmts(node)[k]
    BY <1>2
  <2>2. PICK l \in M : r(l) = j - 1 /\ listed[j] = fmts(node)[l]
    BY <1>2
  <2>3. k = l
    BY <1>4, <2>1, <2>2
  <2> QED
    BY <1>3, <2>1, <2>2, <2>3
<1>8. ASSUME phase # "listing"
      PROVE  {listed[i] : i \in 1 .. Len(listed)} = {fmts(node)[k] : k \in M}
  <2>1. ASSUME NEW k \in M PROVE \E i \in 1 .. Len(listed) : listed[i] = fmts(node)[k]
    <3>1. r(k) + 1 \in 1 .. Len(listed) /\ (r(k) + 1) - 1 = r(k)
      BY <1>1, <1>3, <1>5, <1>8
    <3>2. PICK l \in M : r(l) = (r(k) + 1) - 1 /\ listed[r(k) + 1] = fmts(node)[l]
      BY <1>2, <3>1
    <3> QED
      BY <1>1, <3>1, <3>2
  <2> QED
    BY <1>2, <2>1
<1>9. ASSUME NEW i \in 1 .. Len(listed)
      PROVE  get_pixel_bits(listed[i]) # 0 /\ get_img_fmt(listed[i]).bits # 0
  <2>1. listed[i] \in KnownFourcc
    BY ElementOfSeq DEF ListedInv
  <2>2. listed[i].bits \in Depths
    BY <2>1 DEF KnownFourcc, Fourcc
  <2> QED
    BY <2>1, <2>2 DEF get_pixel_bits, get_img_fmt, Depths
<1> QED
  BY <1>6, <1>7, <1>8, <1>9 DEF ListsEveryFormat

\* Calling ENUM_FMT with 0, 1, 2, ... until EINVAL gives every format of the
\* node with the Bayer order of the media bus code, each once, and only formats
\* the switches of S_FMT and of the stream-on configuration know.
THEOREM EveryFormatListed == ClientSpec => []ListsEveryFormat
<1>1. ClientInit => ListedInv
  <2>1. <<>> \in Seq(KnownFourcc) /\ Len(<<>>) = 0 /\ \A i \in 1 .. 0 : FALSE
    OBVIOUS
  <2> QED
    BY <2>1 DEF ClientInit, ListedInv
<1>2. ListedInv => ListsEveryFormat
  BY ListedInvGives
<1> QED
  BY <1>1, <1>2, ListedStep, PTL DEF ClientSpec
=============================================================================
