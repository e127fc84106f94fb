# Verification of the MT8183 Kukui camera stack

TLA+ models, TLC runs and TLAPS proofs for the ISP Pass 1 and sensor interface
drivers in `camera/driver/`, for `tools/bridge.c` on top of them, for the input
mode switch in `plasma-mobile/input-mode/` and for the Vulkan layer in
`gpu/tools/`. They follow the source at this commit; every
definition that models code is listed with its lines in `PROJECT.json` ("map").

## 1. Inventory

The repository ports a Chromebook tablet (MT8183 Kukui/Krane) to postmarketOS.
Its own logic, in order of weight:

| part | state it keeps | operations | hard behaviour |
|---|---|---|---|
| main-stream job pipeline (`mtk_cam.c`, `mtk_cam-hw.c`) | buffer list, pending and running job lists, job count, frame numbers, composer work queue | QBUF, STREAMON, STREAMOFF, SOF and DONE interrupts, frame worker, SCP acknowledgement | interrupts against ioctls, coalesced interrupts, lost messages, freed requests, failed STREAMON |
| streaming life cycle (`mtk_cam.c`, `mtk_cam-hw.c`, `mtk_seninf.c`) | enabled nodes, stream count, DMA ports, PM and SCP references, sub-device state | STREAMON/STREAMOFF of each node, system sleep, runtime PM | failures in the middle, partial start and stop, restart of one node |
| image formats (`mtk_cam.c`) | node formats, constant tables | ENUM_FMT, TRY_FMT, S_FMT | alignment and range boundaries |
| pads, buffers, configuration (`mtk_cam.c`, `mtk_seninf.c`) | links, selected port, pad formats, buffers, ISP configuration | link setup, set_fmt, REQBUFS, CREATE_BUFS, QBUF, STREAMON | formats changed between validation and configuration |
| metadata nodes (`mtk_cam.c`, `mtk_cam-hw.c`) | buffer lists, meta sequence numbers, the SCP's ring, FBC | QBUF, `mtk_isp_enqueue`, interrupts, `dequeue_frame` | numbering by interrupts, late interrupts, QBUF against the handler |
| request mode (`mtk_cam.c`) | media requests, the same job lists | validate, req_queue, try_queue, completion, STREAMOFF of one node | requests that user space frees, dropped frames, stops one by one |
| probe and removal (all three files) | what each driver has registered, `cam->seninf`, links | probe, remove, bound, unbind, complete | failure at any call, any order of drivers, retries |
| seninf register programming | registers | power on/off, test pattern | none a model would show |
| input mode (`plasma-mobile/input-mode`) | lock file, KWin input method, docked mode, setting of the tile | command, daemon, tile | lost events, lock time-out, failing programs and reads, killed daemon, delayed settings |
| Vulkan layer (`gpu/tools/vk-present-sync-layer.c`) | list of devices, table of swapchains | device and swapchain creation, present | threads without a lock, table limit, time arithmetic |
| capture loop of `tools/bridge.c` | one buffer, one request at a time | a turn per frame | poll time-out, signals, failing calls |
| other tools and GPU scripts | little | command line | few |
| patches, device trees, register and message layouts | none | none | none |

How they meet: vb2 calls the driver with `vdev_lock` held; STREAMON and
STREAMOFF of all nodes are serialised by the media device's `req_queue_mutex`
and by `op_lock`; interrupts take the list spinlocks; the composer work queue
sends each frame to the SCP, whose acknowledgement raises the composed frame
number, which the SOF interrupt reads to select the next command queue slot.
`bridge.c` is a user of request mode. The input mode switch and the Vulkan layer
stand for themselves: the first shares KWin's state between processes, the second
is loaded into every Vulkan program.
What makes each part correct is listed as its properties below; what can go
wrong is listed at its line in `PROJECT.json` ("hazards").

## 2. Modules

| module | models | composes |
|---|---|---|
| `CamJobs` | job pipeline of the main stream, without the Request API | vb2 queue, driver, interrupt, worker, SCP, ISP |
| `CamStream` | streaming life cycle of several nodes, power, sleep, unbinding | nodes, seninf, sensor, ISP |
| `StreamLife` | what users are promised of that life cycle | refined by `CamStream` |
| `CamFormats` | format tables and pure format operators | |
| `CamFormatClient` | a client that lists and negotiates formats | `CamFormats` |
| `CamConfig` | links, pad formats, buffers, stream-on configuration | `CamFormats` |
| `CamProbe` | probe, unwinding, async binding, removal | ISP driver, sensor interface, sensors |
| `CamMeta` | metadata nodes without the Request API | driver, interrupt, SCP ring, ISP |
| `CamRequests` | request mode of several nodes | driver, interrupt, worker, vb2, requests |
| `CamBridge` | `bridge.c`, and a free user, on request mode | `CamRequests` |
| `InputMode` | command, daemon, service, tile | KWin, IBus, systemd |
| `PresentLayer` | the Vulkan layer | render threads, GPU, clock |
| `CamJobsProofs`, `CamStreamProofs`, `CamConfigProofs`, `CamProbeProofs`, `CamMetaProofs`, `CamBridgeProofs`, `InputModeProofs`, `PresentLayerProofs` | theorems about the module of that name (`CamConfigProofs`: `CamConfig` and `CamFormatClient`; `CamBridgeProofs`: `CamBridge` and `CamRequests`) | |
| `MC*` | constants for TLC | |

In most modules a variable `faults`, chosen once per behaviour, says which of
the module's named faults may occur; TLC takes every set the run names. A
property that some fault breaks says so with `Without(...)`.

### CamJobs

Variables have the names of the fields they stand for (`pending_job_list`,
`running_job_count`, `enqueued_frame_seq_no`, ...). `ioctl` and `irq` are the
program counters of the two contexts. A section under a spinlock is one step;
whatever the code reads outside the lock that protects what it then does is a
step of its own: the tests of `cam->streaming`, `list_del` followed by
`vb2_buffer_done`, the request `mtk_cam_dev_get_req` returns. Freed memory keeps
its contents until it is allocated again, so a use after free has an effect.
External: vb2 (DQBUF, cancel, completion), the SCP firmware, which composes
frames into a ring of command queue slots and may acknowledge late, and the ISP,
which raises SOF and DONE into a status register that an interrupt reads once,
so that interrupts coalesce. A buffer whose request found no memory stays linked in
`buf_list`; a QBUF that links it again corrupts the real list, after which the
model stops (`ioctl.pc = "corrupt"`).

### CamStream

`op` is the operation under way and its next call: each call of
`mtk_cam_vb2_start_streaming`, `mtk_isp_hw_init`, `mtk_cam_cio_stream_on`, their
failure labels and the stop path is an action. References of the SCP and of
runtime PM are counters. The user brings nodes up, then down; what goes beyond
that is a named fault. System sleep has its own steps: the suspend, which is called
off when a driver refuses it ("awake"), and the resume, whose clocks may fail to
come on ("clock").

`StreamLife` says what a user may rely on: nodes start and stop one at a time,
the devices stream from the start of the last enabled node to the stop of the
first one, and no node of a running pipeline is added or removed meanwhile.
`ImplementsLife` maps the phases of `CamStream` to it (`StillOn`) and is checked
as a property.

### CamFormats and CamFormatClient

A fourcc is its packing, Bayer order and depth. `stream_out_fmts` and
`bin_out_fmts` keep the order of the source's tables, because ENUM_FMT counts in
them. `enum_fmt`, `try_fmt`, `BytesPerLine` and `config_img_fmt` compute what the
functions of those names compute. The client calls ENUM_FMT with rising indices
until EINVAL, then TRY_FMT. The limits are the driver's; no size in range
exceeds 2^26 bytes, so unsigned overflow cannot occur and is not modelled.

### CamProbe

`pc` is the next call of each of the two drivers, `held` what it holds: a call
that acquires something may fail and jump to its label (`Acquire`), a label gives
back what the code there gives back (`Release`). The V4L2 async framework is
external: it matches in the thread that registers, under its own lock
(`Matching`), calls the drivers' `bound` and `complete` callbacks, and fails the
registration when one fails. The sensors' drivers are external. That
`v4l2_device_unregister` takes sub-devices along, that
`v4l2_async_unregister_subdev` unregisters the sub-device's notifier, and that
`v4l2_async_nf_cleanup` alone does not, is the kernel's behaviour.

### CamConfig

Each ioctl is one step, except STREAMON, which lets other users in between link
validation (`LinksValid`, the media core) and `mtk_cam_dev_isp_config`. One
source pad stands for the seninf's eight: only pad 4 is linked. The sensor's driver
is external and takes a format at any time. Each behaviour has a scope: which users
there are, and whether one of them also sets pad formats while nodes start or
stream (`late`). `talked` is not
driver state: it records how far a user has negotiated along the chain, so that
`NegotiationHolds` can say what such a user may rely on.

### CamMeta

One session of the metadata nodes. `mtk_cam_vb2_buf_queue` is three steps
(linked, numbered, sent), because the interrupt handler takes only the list's
lock and may run between them. The SCP appends what it is sent to the ring of the
node, the ISP fills one entry per frame and counts it in the FBC, and the handler
reads status, sequence numbers and FBC when it is served, possibly frames late.
The counters of nodes other than the two statistics nodes lie outside
`enqueued_meta_seq_no`; `BufSets` includes such nodes, and the properties about
numbering are limited to `OwnCounters`.

### CamRequests and CamBridge

A request has a file descriptor, the buffers bound to it, the references that
keep it alive, and its place in the driver's lists. Completion of a job is one
step per piece the user can see: buffers done, request complete, `list_del`.
`buf_list` is kept as a set per node: a request is completed by its own list of
buffers, and the order of a node's list is never read.
External, from how the driver uses them: vb2 keeps a reference to the request for
each queued buffer until it is dequeued or cancelled, and the V4L2 core takes
`req_queue_mutex` around queueing, STREAMON and STREAMOFF. `CamBridge` adds the
user: either `bridge.c`'s loop, call by call with its error exits and its signal
handler, or a free user who calls anything at any time.

### InputMode

Each process has its step: a command (lock, replace the input method, wait for
it, write the setting, exit; under `set -e` it may end at any of them), the daemon
(read the mode, run the command, wait, read events; it sleeps for good when KWin
reports no tablet switch, and takes a mode it cannot read for hardware), the tile
(its own copy of the setting, written once a second, which no command waits for).
`owed`, `manual` and `outcome` are history: whether the cover moved since the daemon
switched, whether the user chose since the cover moved, and how the last switch
ended.

### PresentLayer

One render thread with a device for each window. The unlocked sections
(`data->next = devices; devices = data` and the search and claim of a slot) are
two steps, which overlap only with the fault "race". Times are ages that
saturate, so that the clock needs no bound and liveness can be checked. The
size of the table is part of the scenario: with two swapchains a table of one is
full and a table of two is not. `by` in the table is history: the swapchain whose
turn it was, `None` once that swapchain is destroyed, so that a swapchain that is
given its handle again ("reuse") is told from it. With `MALI_PRESENT_SYNC=0` an
application still gets the hook if it looks it up by instance.

## 3. Runs

| run | question | result |
|---|---|---|
| `jobs_safety` | three buffers, two jobs, ring of two, each fault | all seven invariants hold, each for the faults it survives |
| `jobs_live` | no faults, fairness | buffers return (`BufferReturned`), ioctls return (`IoctlReturns`) |
| `jobs_retry` | STREAMON fails and is retried | **violation**: two requests complete one buffer (`CompletedOnce`) |
| `stream_safety` | nodes, sleep, unbinding, combinations of faults | all invariants and the refinement of `StreamLife` hold |
| `stream_restart` | one node restarts | **violation**: ISP starts on released hardware |
| `format_client` | listing and negotiation, widths at every boundary | all hold, the listing is complete (`ListsEveryFormat`) |
| `config` | two sensors, both image nodes, links, formats and buffers in any order | all hold |
| `probe_remove` | drivers and sensors probed and removed in any order, every combination of faults | all three invariants hold, each for the faults it survives |
| `meta` | two statistics nodes, late interrupts, QBUF against the handler | all hold, buffers return (`MetaReturned`) |
| `requests` | `bridge.c` or a free user, two requests, each fault | all hold, requests complete (`RequestCompletes`), frames arrive (`BridgeDelivers`) |
| `input_mode` | daemon, two toggles, three moves of the cover, each fault or none | tile, input method and cover agree after each switch that was done and in the end, a manual choice lasts (`ManualKept`) |
| `present` | two threads, two swapchains, seventeen scenarios | all hold, every present arrives |

The violations are findings: `PROJECT.json` quotes the comment or document each
one contradicts. The exceptions that properties name are results too: removing
one from the property gives the counterexample.

* A QBUF for which no request can be allocated completes the buffer and leaves it
  in `buf_list`; its next QBUF links the node twice (fault "alloc", excepted by
  `CompletedOnceInOrder`, `ListsAgree` and `DeliveredInOrder`).
* A failed start, or a stop before every node has started, never reaches
  `mtk_isp_hw_release`: references to the SCP and the clocks leak and the DMA
  ports stay enabled; so does the SCP when one of its messages cannot be registered
  (`HwReleased`: with none of these, no node streaming means no
  reference, and from the first node that stops on no DMA port is enabled).
* An interrupt handler that is delayed over a complete STREAMOFF touches freed
  requests and completes them once more, and over a following STREAMON lowers the
  counter of the new session (fault "slowirq", excepted by `NoUseAfterFree`,
  `CompletedOnceInOrder`, `DoneIsReal`, `DeliveredInOrder` and `JobsBounded`). The
  order of the lists does not suffer (`ListsAgree`).
* A sensor that refuses to stop leaves the sub-devices streaming without nodes
  (`DevicesTogether`) and the hardware referenced (`HwReleased`).
* A work queue that cannot be allocated counts as success, and streaming starts
  without one (`HwReadyInOrder`).
* Resume turns the view finder on for an ISP that does not stream, and not at all
  when the clocks do not come on again, and an ISP restarted on released hardware
  loses its clocks (`ViewFinder`).
* No driver here refuses a pad format while it streams: a format set after link
  validation leaves links and sensor disagreeing with what the ISP is configured for
  (`ConfigCurrent`, which then only claims that the outputs fit the configured frame).
* A failed ISP probe keeps the DMA mapping of memory it frees and leaves runtime
  PM enabled; a failed seninf probe leaves runtime PM enabled and may leave its
  notifier registered (`RemoveReleasesAll`). Removal keeps the sub-device state.
* A sensor that comes back creates a second link (`OneLink`).
* The seninf keeps the port of the link enabled last: with the links of two
  sensors enabled for a moment it stays on the wrong one (`PortMatchesSensor`).
* A sensor interface unbound while nodes stream makes STREAMOFF go through a NULL
  pointer (`UnboundIsNoticed`).
* An interrupt inside `mtk_cam_vb2_buf_queue` returns a metadata buffer before it
  is filled, and coalesced interrupts give buffers the number of a neighbouring
  frame (`DoneIsFilled`).
* In request mode the first DONE returns the `META_OUT_0` buffers of all requests,
  written or not (`WrittenBeforeReturned`). A request whose buffers are complete
  can be closed before `list_del`, and one whose nodes are stopped before the
  others stays listed after it is freed (`ListedAlive`). The two add up: when
  `META_OUT_0` is the only node, or the other nodes have stopped, the
  first DONE completes requests that have not run, and those the user
  frees stay listed. The attempt to prove `ListedAlive` showed it: nothing but the
  buffer of another node keeps such a request queued.
* After a poll time-out `bridge.c` finds its buffer still queued, fails QBUF and
  ends; even then it leaves nothing behind (`BridgeLeavesNothing`).
* A change of the cover between the daemon's first reading and its subscription,
  one that is undone before it is read, and one whose switch failed in the loop
  or gave up on the lock are not followed; a mode that cannot be read early on ends
  automatic switching, later it counts as hardware (`FollowsTablet`, `ManualKept`).
  A daemon that is killed in mid-switch does complete it.
* The tile shows a mode whose command gave up or failed, and it hides a command of
  the daemon that ended between a toggle and the tile's write a second later
  (`UiAgrees`).
* Two windows whose threads look for a free slot at once share it and take each
  other's turn, against the comment at `vk-present-sync-layer.c:65`; a swapchain with
  the handle of a destroyed one inherits its turn and may wait once for nothing
  (`TurnIsOwn`). A device created at the same time as another is lost
  and its presents fail (`PresentArrives`), presents on a queue other than the drawing one are not
  waited for (`FrameComplete`), and an interval of a second, a signal, a full
  table, or any swapchain of a call but the first escape pacing (`PacedApart`).

### Bounds

`MaxSeq` bounds the frames of one session; a session with more frames repeats
states up to the numbering, and with 3 frames in a ring of 2 a slot is
reused. `MaxRunning` and `CqCount` are 2 instead of 3: the limit is reached, the
pending list fills and the ring wraps, with fewer interleavings. One job and one
slot are enough for the liveness run, where the question is whether
a job can be lost at all. `MaxRefs` bounds leaked references, `MaxLinks` duplicate
links: each is reached, and none of the code depends on how many there are. Two
video nodes and two sensors stand for six and two: the node loop has a first and
a last turn. `CamConfig` uses
sizes from 4x1 to 8x2 with the real rounding; two formats per node give buffers
that are too small, exact and too large, and one buffer per node suffices
because nothing in the code relates two buffers. `CamMeta` has one session
with two buffers, on one node or on two, and three enqueues: the ring runs empty,
handlers come late and a buffer goes round again.
`CamRequests` has two requests, two jobs and three frames: one request waits while
another runs, and a number is dropped; its four sets of buffers have one node, one
with two buffers, and two nodes with and without `META_OUT_0`. `InputMode` has two toggles and three
changes: cover and user can overtake each other and come back. `PresentLayer` has
an interval of one unit and a second of two: sleeping, not sleeping and rejected
sleeps all occur; `Cap` is where ages stop growing, and the longest interval
(two, for TLC). Buffers and request addresses are symmetric in `CamJobs`: no
action orders them. Deadlock checking is off only where all parts may be done:
an input mode nobody changes any more, a layer that used freed memory, and models
that reach their bound.

### Fairness

`jobs_live` assumes weak fairness of a started ioctl, of the interrupt handler,
of the work queue, of SCP answers and of the sensor's frames: the kernel
schedules runnable threads, and the SCP and the sensor are alive when nothing
fails. Strong fairness is assumed for the two steps that wait for
`running_job_lock` while interrupts take it again and again: kernel spinlocks
queue their waiters. `meta` and `requests` assume the same of interrupts, SCP,
ISP and sensor, and that `bridge.c` goes on with its loop. `input_mode` assumes
that processes run and timers expire, `present` that threads inside a call run,
that the GPU finishes its frames and, as strong fairness, that time passes however
often others present. Nothing is assumed of users, of the cover, or of faults.

## 4. Proofs

Every theorem is about the specification as TLC runs it, for all values of the
constants that satisfy the module's assumption: any number of nodes, buffers,
requests, sensors, threads, ring slots, and for every set of faults the property
itself does not except. The inductive invariant of each module was checked by TLC
on the instance of the module's run before it was proved.

| theorem | property | argument |
|---|---|---|
| `TypeCorrect` | `CamJobsTypeOK` | `TypeInv` |
| `JobsAlwaysBounded` | `JobsBounded` | `CountInv` |
| `DoneAlwaysReal` | `DoneIsReal` | `FrameInv` |
| `AlwaysDeliveredInOrder` | `DeliveredInOrder` | `DeliverInv` |
| `NeverUsedAfterFree` | `NoUseAfterFree` | `WorkInv`, `HeldInv` |
| `AlwaysCompletedOnce` | `CompletedOnceInOrder` | `BufInv` |
| `ListsAlwaysAgree` | `ListsAgree` | `StartInv`, `ListInv` |
| `CountsAlwaysAgree`, `DevicesAlwaysTogether`, `HwAlwaysReady`, `HwAlwaysReleased`, `ViewFinderAlways`, `UnboundAlwaysNoticed` | the six invariants of `CamStream` | `StreamInv` |
| `StreamImplementsLife` | `ImplementsLife` | `StreamInv`, step simulation |
| `RepliesFit`, `RepliesStable` | `LineFits`, `ReplyStable` | lemmas on rounding |
| `EveryFormatListed` | `ListsEveryFormat` | `ListedInv`, counting |
| `ConfigAlwaysCurrent`, `DmaAlwaysFits`, `NegotiationAlwaysHolds`, `PortAlwaysMatches` | the four invariants of `CamConfig` | `ConfigInv` |
| `ParentsAlwaysOutlive`, `RemoveAlwaysReleases`, `AlwaysOneLink` | the three invariants of `CamProbe` | `ProbeInv` |
| `DoneAlwaysFilled` | `DoneIsFilled` | `MetaInv` |
| `ListedAlwaysAlive`, `WrittenAlways` | `ListedAlive`, `WrittenBeforeReturned` | `RequestsInv` |
| `BridgeAlwaysLeavesNothing` | `BridgeLeavesNothing` | `RequestsInv`, `BridgeInv` |
| `UiAlwaysAgrees`, `ManualAlwaysKept` | `UiAgrees`, `ManualKept` | `InputInv` |
| `TurnAlwaysOwn`, `FramesComplete`, `AlwaysPacedApart` | `TurnIsOwn`, `FrameComplete`, `PacedApart` | `LayerInv` |

### CamJobs

The invariant is built in layers, each proved from the ones below.

* `TypeInv` adds to the types that a job being completed is the head of the
  running list: `list_del` and the saved sequence number are typed only then.
* `CountInv` adds `IoctlPhases` (which steps of the ioctl can meet which streaming
  state) and `NothingRuns` (no handler and no job between stream-off and the
  counter reset): the reset in `mtk_cam_dev_init_stream` is correct only because
  of them. From here to `HeldInv` "slowirq" is excluded: a handler ends within
  the 1 s an SCP command may take.
* `FrameInv`: a request is in one place of one list (`HeapInv`), the numbers of
  the running list are consecutive up to the last one given (`OrderInv`), a stopped
  ISP raises nothing (`QuietInv`), and every number on its way through work queue,
  SCP, ring and interrupt is one that was given (`NumberInv`). Then the
  number a handler completes is that of a finished frame (`FinishedInv`), and a job
  is stamped before that (`StampInv`). `DeliverInv` orders the numbers of what is
  delivered below those of what runs.
* `WorkInv` and `HeldInv`: the queued work belongs to the youngest running jobs,
  whose numbers no interrupt can carry yet, and the request that the SOF handler
  holds without the lock is running. They need `StreamPhases` (no
  "stop": sub-devices that refuse to stop leave the ISP streaming).
* `BufInv`: a buffer is the driver's exactly while it is linked, in a job or in
  the ioctl's hands; needs also that no failed STREAMON is retried ("start"),
  which is the finding `jobs_retry`, and that no allocation fails ("alloc"). It rests on `DriverInv` (types, `HeapInv`,
  `IoctlPhases`, and that an ISP that does not stream stays off) instead of
  `FrameInv`, and so holds for a handler that outlives its session: such a handler
  may hold an unlinked buffer while STREAMOFF cleans up, but not past the
  clean-up of the running list, which takes its lock. `CompletedOnceInOrder` needs
  `FrameInv` besides, because the handler may then complete a buffer that
  STREAMOFF has returned.
* `ListInv`: the order of the three lists. `StartInv`: until the new session
  streams, a handler left over from the last one finds no running job, so it
  frees none; it can at most move the new jobs, which keeps the order. The theorem
  is thus proved with "slowirq", which the run leaves out for its size; TLC checked
  these two layers with it for two frames in a session (`MaxSeq` = 2).

### CamStream

`StreamInv` says for every step of `op` what is powered, counted, streaming and
bound (`CountInv`, `UserInv`, `DeviceInv`, `PowerInv`, `SleepInv`, `BindInv`,
`ReleaseInv`), for any set of nodes. `CountAgrees` counts with `Cardinality`; the
lemma `Cardinalities` is the only place where finiteness matters. `HwReady` speaks
of SCP, clocks and work queue, not of DMA ports; those are in `HwReleased`.
`StreamImplementsLife` proves the refinement: initial states map to initial states
of `StreamLife` and every step to a step or a stutter.

### Formats and configuration

`RepliesFit` and `RepliesStable` follow from lemmas on rounding up: clamping then
aligning is idempotent when the limits are multiples of 4 (`FormatAssumption`).
`EveryFormatListed` rests on the tables holding no format twice
(`TablesDistinct`, one Bayer order at a time) and on the count of the loop being a
bijection from the matching places to 0, 1, 2, ... (`BeforeFacts`, `NoGap`): so the
first index without a match comes after all of them. `ListedInv` says that the
i-th format listed is the match with i - 1 matches before it.
`ConfigInv` says that the size of a node's format is its stride times its height
(`FmtInv`), that queued buffers are allocated and were large enough, which lasts
because a node with buffers keeps its format (`BufInv`), that the ISP streams only
with all its nodes (`RunInv`), how far negotiated formats agree along the chain
(`TalkInv`), that exclusive users keep only the selected port linked
(`PortInv`), that links stay valid and the configured frame is the sensor's unless
users set formats late (`ValidInv`, `FrameInv`), and that the outputs are the nodes'
formats and fit the configured frame even then (`OutInv`).

### CamProbe

`ProbeInv` gives, for each call a driver is about to make, exactly what it holds
then (`CamInv`, `SeninfInv`), what it still holds beyond that when a call has
failed (`CleanInv`), whom the framework has bound (`BoundInv`) and how many links
there are (`LinkInv`).

### CamMeta

`MetaInv` holds while no interrupt is served inside `mtk_cam_vb2_buf_queue` and only
the statistics nodes are in use, which is what `DoneIsFilled` assumes. `PhaseInv`
and `OwnInv` say what exists in each phase and who holds a buffer. `RingInv`: the
list of a node is its filled buffers, then those in the SCP's ring, then the one
a QBUF has linked and not yet sent; the numbers rise by one along it up
to `enqueued_meta_seq_no`. `MarkInv`: a number that an interrupt has read, or the
end of a frame that is signalled, is at most that of the last buffer filled; only
the frame being written may be one ahead. So what the handler takes from the front
of the list is filled (`CompleteInv`), however late it comes. `SyncInv`
(`FrameInv`, `LateInv`, `NumberInv`) is needed for the number alone, and holds
without "coalesce": at most one filled buffer waits on each node, and it waits for
the handler of its frame.

### CamRequests and CamBridge

`RequestsInv` is proved for a user who may call anything, so for every client.
`BindInv`: a request holds what is bound to it and a buffer is in one request.
`PhaseInv`: a pipeline that does not stream has a still ISP and no handler.
`ListInv`, for users who do not act inside the handler and, with `META_OUT_0` or
while nodes stop, queue only complete requests: the requests of the lists are queued, each in one place, and held by a
buffer of every node that has not stopped, `META_OUT_0` excepted; only the request
the handler is unlinking is already complete. `FrameInv`: the numbers of running
requests are distinct and not above the last one given, and the buffers of the
frame that is done are filled. `WrittenInv` follows for nodes other than
`META_OUT_0`, whether or not requests are complete. `BridgeInv` says for each call
of `bridge.c` which request it has open and that no other is allocated, whatever
fails before.

### InputMode

`LockInv`: the lock is held by the one command past `flock`. `UiInv`: the input method
follows the command that holds the lock (`InPlace`); while no toggle's command is
under way and the daemon's has not touched it, the input method is that of the
setting the tile will show, if the last switch was done. Both hold under every fault.
`OwedInv`: what the daemon switched to last is the mode of the cover unless it owes a
switch.

### PresentLayer

`LayerInv`: only the thread that owns a handle claims a slot for it, and only when
there is none, so no handle has two, races included (`SlotInv`); without the race
slots are claimed one at a time and never given away, so that a slot holds no other
window's turn but, with a reused handle, that of a destroyed one (`TurnInv`,
`TurnOf`); a thread
past the wait has its frame drawn (`DrawnInv`), and the age in the table is the age
of the last present except between a turn and its present (`AgeInv`, `RestInv`),
when it was at least an interval before (`FullInv`: or the table is full).
`FrameComplete` and `PacedApart` are action properties, proved from it.

### Only model-checked

* Liveness: `BufferReturned`, `IoctlReturns`, `MetaReturned`, `RequestCompletes`,
  `BridgeDelivers`, `FollowsTablet`, `PresentArrives`. It is out of TLAPS's reach.
* The two violations are counterexamples and need no proof.

## 5. Plan

1. Done: every component that keeps state and reacts to others has a module
   (section 2), each with its run; every safety property of the passing runs and
   the refinement of `StreamLife` are proved.
2. Left: nothing the provers reach. What stays with TLC is listed above.

## 6. Not modelled

Register values and message layouts; D-PHY tuning; the seninf's test pattern and
its other media bus codes; the contents of images; logging, the trace of the
Vulkan layer included; what devm releases; the patches (the same drivers again),
device trees, libcamera patches; GPU scripts and shims; the tools other than
`bridge.c`'s loop. These have no state that several actors share, or none at all:
a model would repeat their lines and show nothing. Reasons are in `PROJECT.json`
("components").
