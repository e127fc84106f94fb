------------------------- MODULE PresentLayerProofs -------------------------
(***************************************************************************)
(* Proofs about PresentLayer, for any number of threads, swapchains and    *)
(* slots of the table.                                                     *)
(***************************************************************************)
EXTENDS PresentLayer, TLAPS

(***************************************************************************)
(* Steps of a thread: in a call, after the wait, with a slot.              *)
(***************************************************************************)
OwnSlotPC == {"clock", "sleep", "store"}
SlotPC == {"claim"} \cup OwnSlotPC
WaitedPC == {"pace", "present"} \cup SlotPC
CallPC == {"call", "wait"} \cup WaitedPC
PCs == {"none", "link", "idle"} \cup CallPC

MaybeChain == Swapchains \cup {None}

Slots == 1 .. env.slots

\* The local variables of a thread.  What next may be is left open: a device of
\* the list, about which nothing has to be known here.
Locals(N) == [pc : PCs, s : MaybeChain, rest : SUBSET Swapchains, slot : Nat,
              age : 0 .. Cap, next : N]

ThreadsInv == \E N : th \in [Threads -> Locals(N)]

SharedInv ==
  /\ env \in Envs
  /\ owner \in [Swapchains -> Threads \cup {None}]
  /\ gpu \in [Threads -> {"idle", "queue", "other"}]
  /\ seen \in [Slots -> [swapchain : MaybeChain, last : Never .. Cap, by : MaybeChain]]
  /\ shown \in [Swapchains -> Never .. Cap]

\* A thread in a call presents a swapchain of its own.
CallInv ==
  \A t \in Threads :
    /\ th[t].pc \in CallPC => th[t].s \in Swapchains /\ owner[th[t].s] = t
    /\ th[t].pc \in SlotPC => th[t].slot \in Slots
    /\ Without({"several"}) => th[t].rest = {}

\* When a present waits for the queue it was drawn on.
Waiting == env.sync /\ ~env.no_wait /\ Without({"queue", "lost"})

\* The queue is idle from the wait to the present.
DrawnInv ==
  Waiting => \A t \in Threads : /\ gpu[t] # "other"
                                /\ th[t].pc \in WaitedPC => gpu[t] = "idle"

\* No handle has two slots: only the thread that owns it claims one, when there
\* is none.
SlotInv ==
  /\ \A t \in Threads :
       th[t].pc = "claim" => \A i \in Slots : seen[i].swapchain # th[t].s
  /\ \A i, j \in Slots :
       seen[i].swapchain = seen[j].swapchain /\ seen[i].swapchain # None => i = j

\* The turn in slot i is that of its swapchain, or of one that is no more.
TurnOf(i) ==
  \/ seen[i].last = Never
  \/ seen[i].by = seen[i].swapchain
  \/ seen[i].by = None /\ (owner[seen[i].swapchain] = None \/ "reuse" \in faults)

\* Without the race slots are claimed one at a time and never given away: a
\* thread past the claim works on the slot of its swapchain, and no turn is that
\* of another window.
TurnInv ==
  Without({"race"}) =>
    /\ \A t, u \in Threads : th[t].pc = "claim" /\ th[u].pc = "claim" => t = u
    /\ \A t \in Threads :
         /\ th[t].pc = "claim" => seen[th[t].slot].swapchain = None
         /\ th[t].pc \in OwnSlotPC => seen[th[t].slot].swapchain = th[t].s
    /\ \A i \in Slots :
         /\ seen[i].swapchain = None => seen[i].last = Never
         /\ TurnOf(i)

\* The scenarios in which presents are paced.
Pacing ==
  /\ env.sync /\ 0 < env.interval /\ env.interval < Second
  /\ Without({"race", "signal", "preempt", "several"})

\* Swapchain s has had its turn and is about to be presented.
AtPresent(s) == \E t \in Threads : th[t].pc = "present" /\ th[t].s = s

\* An interval has passed since the last present of swapchain s.
Rested(s) == shown[s] = Never \/ shown[s] >= env.interval

\* A swapchain that is presented without a slot found the table full.
FullInv ==
  Pacing =>
    \A s \in Swapchains :
      shown[s] # Never \/ AtPresent(s)
        => \/ \E i \in Slots : seen[i].swapchain = s
           \/ \A i \in Slots : seen[i].swapchain # None

\* The table holds the age of the last present, except between the turn of a
\* swapchain and its present.
AgeInv ==
  Pacing =>
    \A i \in Slots :
      \/ seen[i].swapchain = None
      \/ shown[seen[i].swapchain] \in {Never, seen[i].last}
      \/ AtPresent(seen[i].swapchain)

\* A thread that has its turn has waited, or sleeps for what is missing.
RestInv ==
  Pacing =>
    \A t \in Threads :
      /\ th[t].pc = "sleep" => /\ seen[th[t].slot].last # Never
                               /\ seen[th[t].slot].last + th[t].age >= env.interval
      /\ th[t].pc = "store" => th[t].age = 0 /\ Rested(th[t].s)
      /\ th[t].pc = "present" =>
           \A i \in Slots :
             seen[i].swapchain = th[t].s => seen[i].last = 0 /\ Rested(th[t].s)

PaceInv == SlotInv /\ TurnInv /\ FullInv /\ AgeInv /\ RestInv

LayerInv == ThreadsInv /\ SharedInv /\ CallInv /\ DrawnInv /\ PaceInv

-----------------------------------------------------------------------------
(***************************************************************************)
(* What a step of one thread does to the threads.                          *)
(***************************************************************************)
Others(t) == \A u \in Threads \ {t} : th'[u] = th[u]

\* Thread t goes to the step pc, with its slot, and presents what it did.
Moves(t, pc) ==
  Others(t) /\ th'[t].pc = pc /\ th'[t].s = th[t].s /\ th'[t].rest = th[t].rest

\* A thread that goes to its next step keeps its variables.
LEMMA GoMoves ==
  ASSUME ThreadsInv, NEW t \in Threads, NEW pc \in PCs, Go(t, pc)
  PROVE  ThreadsInv' /\ Moves(t, pc) /\ th'[t].slot = th[t].slot /\ th'[t].age = th[t].age
<1> PICK N : th \in [Threads -> Locals(N)]
  BY DEF ThreadsInv
<1>1. th' \in [Threads -> Locals(N)]
  BY DEF Go, Locals
<1>2. Moves(t, pc) /\ th'[t].slot = th[t].slot /\ th'[t].age = th[t].age
  BY DEF Go, Locals, Moves, Others
<1>3. QED
  BY <1>1, <1>2 DEF ThreadsInv

\* A call ends.
LEMMA CallEnds ==
  ASSUME PresentLayerAssumption, ThreadsInv, NEW t \in Threads,
         th' = [th EXCEPT ![t] = NoCall("idle")]
  PROVE  ThreadsInv' /\ Others(t) /\ th'[t] = NoCall("idle")
<1> PICK N : th \in [Threads -> Locals(N)]
  BY DEF ThreadsInv
<1>1. NoCall("idle") \in Locals({None})
  BY DEF NoCall, Locals, PCs, MaybeChain, PresentLayerAssumption
<1>2. th' \in [Threads -> Locals(N \cup {None})]
  BY <1>1 DEF Locals
<1>3. Others(t) /\ th'[t] = NoCall("idle")
  BY DEF Others
<1>4. QED
  BY <1>2, <1>3 DEF ThreadsInv

\* pace() chooses a slot.
LEMMA SlotChosen ==
  ASSUME ThreadsInv, NEW t \in Threads, NEW pc \in PCs, NEW i \in Nat,
         GoWith(t, pc, i)
  PROVE  ThreadsInv' /\ Moves(t, pc) /\ th'[t].slot = i
<1> PICK N : th \in [Threads -> Locals(N)]
  BY DEF ThreadsInv
<1>1. th' \in [Threads -> Locals(N)]
  BY DEF GoWith, Locals
<1>2. Moves(t, pc) /\ th'[t].slot = i
  BY DEF GoWith, Locals, Moves, Others
<1>3. QED
  BY <1>1, <1>2 DEF ThreadsInv

\* pace() reads the clock, or a signal ends its sleep.
LEMMA AgeSet ==
  ASSUME ThreadsInv, NEW t \in Threads, NEW pc \in PCs, NEW a \in 0 .. Cap,
         th' = [th EXCEPT ![t].pc = pc, ![t].age = a]
  PROVE  ThreadsInv' /\ Moves(t, pc) /\ th'[t].slot = th[t].slot /\ th'[t].age = a
<1> PICK N : th \in [Threads -> Locals(N)]
  BY DEF ThreadsInv
<1>1. th' \in [Threads -> Locals(N)]
  BY DEF Locals
<1>2. Moves(t, pc) /\ th'[t].slot = th[t].slot /\ th'[t].age = a
  BY DEF Locals, Moves, Others
<1>3. QED
  BY <1>1, <1>2 DEF ThreadsInv

-----------------------------------------------------------------------------
(***************************************************************************)
(* What each part of the invariant asks of a step of thread t.             *)
(***************************************************************************)

\* The calls of the other threads are what they were.
LEMMA CallKept ==
  ASSUME CallInv, NEW t \in Threads, Others(t), UNCHANGED <<owner, env, faults>>,
         th'[t].pc \in CallPC => th'[t].s \in Swapchains /\ owner[th'[t].s] = t,
         th'[t].pc \in SlotPC => th'[t].slot \in Slots,
         Without({"several"}) => th'[t].rest = {}
  PROVE  CallInv'
BY DEF CallInv, Others, Without, Slots

\* The frames of the other threads are what they were.
LEMMA DrawnKept ==
  ASSUME DrawnInv, NEW t \in Threads, Others(t), UNCHANGED <<gpu, env, faults>>,
         Waiting /\ th'[t].pc \in WaitedPC => gpu[t] = "idle"
  PROVE  DrawnInv'
BY DEF DrawnInv, Others, Without, Waiting

\* Away from the table nothing is paced.
LEMMA PaceAside ==
  ASSUME PaceInv, NEW t \in Threads, Others(t), UNCHANGED <<owner, seen, shown, env, faults>>,
         th[t].pc \notin SlotPC \cup {"present"}, th'[t].pc \notin SlotPC,
         env.sync => th'[t].pc # "present"
  PROVE  PaceInv'
<1>1. SlotInv' /\ TurnInv'
  BY DEF PaceInv, SlotInv, TurnInv, TurnOf, Others, Without, Slots, SlotPC, OwnSlotPC
<1>2. ASSUME Pacing PROVE \A s : AtPresent(s)' <=> AtPresent(s)
  BY <1>2 DEF AtPresent, Others, Pacing
<1>3. FullInv'
  BY <1>2 DEF PaceInv, FullInv, Pacing, Without, Slots
<1>4. AgeInv'
  BY <1>2 DEF PaceInv, AgeInv, Pacing, Without, Slots
<1>5. RestInv'
  BY DEF PaceInv, RestInv, Others, Pacing, Without, Slots, Rested, SlotPC, OwnSlotPC
<1>6. QED
  BY <1>1, <1>3, <1>4, <1>5 DEF PaceInv

-----------------------------------------------------------------------------
(***************************************************************************)
(* Steps away from the table.                                              *)
(***************************************************************************)

\* create_device reads the head of the list.
LEMMA CreateDeviceKeeps ==
  ASSUME LayerInv, NEW t \in Threads, CreateDevice(t), UNCHANGED <<env, faults>>
  PROVE  LayerInv'
<1> PICK N : th \in [Threads -> Locals(N)]
  BY DEF LayerInv, ThreadsInv
<1> DEFINE next == IF devices = << >> THEN None ELSE Head(devices)
<1>1. th' = [th EXCEPT ![t].pc = "link", ![t].next = next]
  BY DEF CreateDevice
<1> HIDE DEF next
<1>2. "link" \in PCs
  BY DEF PCs
<1>3. th' \in [Threads -> Locals(N \cup {next})]
  BY <1>1, <1>2 DEF Locals
<1>4. Moves(t, "link") /\ th[t].pc = "none"
  BY <1>1 DEF Locals, Moves, Others, CreateDevice
<1>5. UNCHANGED <<owner, gpu, seen, shown>>
  BY DEF CreateDevice, chainVars
<1>6. CallInv' /\ DrawnInv'
  BY <1>4, <1>5, CallKept, DrawnKept
     DEF LayerInv, CallInv, Moves, CallPC, WaitedPC, SlotPC, OwnSlotPC
<1>7. PaceInv'
  BY <1>4, <1>5, PaceAside DEF LayerInv, Moves, SlotPC, OwnSlotPC
<1>8. QED
  BY <1>3, <1>5, <1>6, <1>7 DEF LayerInv, ThreadsInv, SharedInv, Slots

\* create_device puts its device in front.
LEMMA LinkDeviceKeeps ==
  ASSUME PresentLayerAssumption, LayerInv, NEW t \in Threads, LinkDevice(t),
         UNCHANGED <<env, faults>>
  PROVE  LayerInv'
<1>1. ThreadsInv' /\ Others(t) /\ th'[t] = NoCall("idle")
  BY CallEnds DEF LayerInv, LinkDevice
<1>2. th[t].pc = "link" /\ UNCHANGED <<owner, gpu, seen, shown>>
  BY DEF LinkDevice, chainVars
<1>3. CallInv' /\ DrawnInv'
  BY <1>1, <1>2, CallKept, DrawnKept
     DEF LayerInv, NoCall, CallPC, WaitedPC, SlotPC, OwnSlotPC
<1>4. PaceInv'
  BY <1>1, <1>2, PaceAside DEF LayerInv, NoCall, SlotPC, OwnSlotPC
<1>5. QED
  BY <1>1, <1>2, <1>3, <1>4 DEF LayerInv, SharedInv, Slots

\* destroy_device.
LEMMA DestroyDeviceKeeps ==
  ASSUME LayerInv, NEW t \in Threads, DestroyDevice(t), UNCHANGED <<env, faults>>
  PROVE  LayerInv'
<1>1. "none" \in PCs
  BY DEF PCs
<1>2. ThreadsInv' /\ Moves(t, "none")
  BY <1>1, GoMoves DEF LayerInv, DestroyDevice
<1>3. th[t].pc = "idle" /\ UNCHANGED <<owner, gpu, seen, shown>>
  BY DEF DestroyDevice, chainVars
<1>4. CallInv' /\ DrawnInv'
  BY <1>2, <1>3, CallKept, DrawnKept
     DEF LayerInv, CallInv, Moves, CallPC, WaitedPC, SlotPC, OwnSlotPC
<1>5. PaceInv'
  BY <1>2, <1>3, PaceAside DEF LayerInv, Moves, SlotPC, OwnSlotPC
<1>6. QED
  BY <1>2, <1>3, <1>4, <1>5 DEF LayerInv, SharedInv, Slots

\* A present begins with the hook, or without it.
LEMMA PresentKeeps ==
  ASSUME LayerInv, NEW t \in Threads, NEW s \in Swapchains, Present(t, s),
         UNCHANGED <<env, faults>>
  PROVE  LayerInv'
<1> PICK N : th \in [Threads -> Locals(N)]
  BY DEF LayerInv, ThreadsInv
<1>1. PICK rest \in SUBSET Swapchains, q \in {"queue", "other"},
            pc \in {get_device_proc, get_instance_proc} :
        /\ rest # {} => "several" \in faults
        /\ q = "other" => "queue" \in faults
        /\ gpu' = [gpu EXCEPT ![t] = q]
        /\ th' = [th EXCEPT ![t].pc = pc, ![t].s = s, ![t].rest = rest]
  BY DEF Present
<1>2. pc \in {"call", "present"} /\ (env.sync => pc = "call")
  BY DEF get_device_proc, get_instance_proc
<1>3. pc \in PCs /\ s \in MaybeChain
  BY <1>2 DEF PCs, CallPC, WaitedPC, MaybeChain
<1>4. th' \in [Threads -> Locals(N)]
  <2>1. th[t] \in Locals(N)
    OBVIOUS
  <2>2. [th[t] EXCEPT !.pc = pc, !.s = s, !.rest = rest] \in Locals(N)
    BY <1>3, <2>1 DEF Locals
  <2> QED
    BY <1>1, <2>2
<1>5. /\ Others(t) /\ th'[t].pc = pc /\ th'[t].s = s /\ th'[t].rest = rest
  BY <1>1 DEF Locals, Others
<1>6. th[t].pc = "idle" /\ owner[s] = t /\ UNCHANGED <<owner, seen, shown>>
  BY DEF Present, chainVars
<1>7. CallInv'
  BY <1>1, <1>5, <1>6, <1>2, CallKept DEF LayerInv, SlotPC, OwnSlotPC, Without
<1>8. DrawnInv'
  BY <1>1, <1>5, <1>2 DEF LayerInv, SharedInv, DrawnInv, Waiting, Without, Others, WaitedPC, SlotPC,
     OwnSlotPC
<1>9. PaceInv'
  BY <1>5, <1>6, <1>2, PaceAside DEF LayerInv, SlotPC, OwnSlotPC
<1>10. QED
  BY <1>1, <1>4, <1>6, <1>7, <1>8, <1>9 DEF LayerInv, ThreadsInv, SharedInv, Slots

\* queue_present goes on to the wait or to pace(), or returns an error.
LEMMA QueuePresentKeeps ==
  ASSUME PresentLayerAssumption, LayerInv, NEW t \in Threads, QueuePresent(t),
         UNCHANGED <<env, faults>>
  PROVE  LayerInv'
<1>1. th[t].pc = "call" /\ UNCHANGED <<owner, gpu, seen, shown>>
  BY DEF QueuePresent, chainVars
<1>2. CASE device_for(t)
  <2> DEFINE pc == IF env.no_wait THEN "pace" ELSE "wait"
  <2>1. pc \in PCs
    BY DEF PCs, CallPC, WaitedPC
  <2>2. Go(t, pc)
    BY <1>2 DEF QueuePresent
  <2>3. ThreadsInv' /\ Moves(t, pc)
    BY <2>1, <2>2, GoMoves DEF LayerInv
  <2>4. CallInv'
    BY <1>1, <2>3, CallKept DEF LayerInv, CallInv, Moves, CallPC, SlotPC, OwnSlotPC
  <2>5. DrawnInv'
    BY <1>1, <2>3, DrawnKept DEF LayerInv, Moves, WaitedPC, SlotPC, OwnSlotPC, Waiting
  <2>6. PaceInv'
    BY <1>1, <2>3, PaceAside DEF LayerInv, Moves, SlotPC, OwnSlotPC
  <2>7. QED
    BY <1>1, <2>3, <2>4, <2>5, <2>6 DEF LayerInv, SharedInv, Slots
<1>3. CASE ~device_for(t)
  <2>1. ThreadsInv' /\ Others(t) /\ th'[t] = NoCall("idle")
    BY <1>3, CallEnds DEF LayerInv, QueuePresent
  <2>2. CallInv' /\ DrawnInv'
    BY <1>1, <2>1, CallKept, DrawnKept
       DEF LayerInv, NoCall, CallPC, WaitedPC, SlotPC, OwnSlotPC
  <2>3. PaceInv'
    BY <1>1, <2>1, PaceAside DEF LayerInv, NoCall, SlotPC, OwnSlotPC
  <2>4. QED
    BY <1>1, <2>1, <2>2, <2>3 DEF LayerInv, SharedInv, Slots
<1>4. QED
  BY <1>2, <1>3

\* The wait ends when the queue is idle, or fails.
LEMMA WaitIdleKeeps ==
  ASSUME LayerInv, NEW t \in Threads, WaitIdle(t), UNCHANGED <<env, faults>>
  PROVE  LayerInv'
<1>1. "pace" \in PCs
  BY DEF PCs, CallPC, WaitedPC
<1>2. ThreadsInv' /\ Moves(t, "pace")
  BY <1>1, GoMoves DEF LayerInv, WaitIdle
<1>3. th[t].pc = "wait" /\ UNCHANGED <<owner, gpu, seen, shown>>
  BY DEF WaitIdle, chainVars
<1>4. CallInv'
  BY <1>2, <1>3, CallKept DEF LayerInv, CallInv, Moves, CallPC, SlotPC, OwnSlotPC
<1>5. Waiting => gpu[t] = "idle"
  BY DEF WaitIdle, Waiting, Without, LayerInv, DrawnInv, SharedInv
<1>6. DrawnInv'
  BY <1>2, <1>3, <1>5, DrawnKept DEF LayerInv, Moves
<1>7. PaceInv'
  BY <1>2, <1>3, PaceAside DEF LayerInv, Moves, SlotPC, OwnSlotPC
<1>8. QED
  BY <1>2, <1>3, <1>4, <1>6, <1>7 DEF LayerInv, SharedInv, Slots

\* create_swapchain with a handle that nobody has.
LEMMA CreateSwapchainKeeps ==
  ASSUME PresentLayerAssumption, LayerInv, NEW t \in Threads, NEW s \in Swapchains,
         CreateSwapchain(t, s), UNCHANGED <<env, faults>>
  PROVE  LayerInv'
<1>1. /\ owner[s] = None /\ owner' = [owner EXCEPT ![s] = t]
      /\ UNCHANGED <<th, gpu, seen, shown>>
      /\ "reuse" \in faults \/ \A i \in Slots : seen[i].swapchain # s
  BY DEF CreateSwapchain, SlotsOf, Slots
<1>2. ThreadsInv' /\ SharedInv' /\ DrawnInv' /\ SlotInv' /\ FullInv' /\ AgeInv' /\ RestInv'
  BY <1>1 DEF LayerInv, ThreadsInv, SharedInv, DrawnInv, Waiting, PaceInv, SlotInv, FullInv,
     AgeInv, RestInv, Pacing, AtPresent, Rested, Without, Slots
<1>3. CallInv'
  BY <1>1 DEF LayerInv, CallInv, SharedInv, Without, Slots, PresentLayerAssumption
<1>4. TurnInv'
  <2> SUFFICES ASSUME Without({"race"}), NEW i \in Slots, owner[seen[i].swapchain] = None,
                      "reuse" \notin faults
               PROVE  owner'[seen[i].swapchain] = None
    BY <1>1 DEF LayerInv, PaceInv, TurnInv, TurnOf, Without, Slots
  <2>1. seen[i].swapchain # s
    BY <1>1
  <2>2. QED
    BY <1>1, <2>1 DEF LayerInv, SharedInv
<1>5. QED
  BY <1>2, <1>3, <1>4 DEF LayerInv, PaceInv

\* The GPU has drawn the frame.
LEMMA GpuDoneKeeps ==
  ASSUME LayerInv, NEW t \in Threads, GpuDone(t), UNCHANGED <<env, faults>>
  PROVE  LayerInv'
<1>1. gpu' = [gpu EXCEPT ![t] = "idle"] /\ UNCHANGED <<th, owner, seen, shown>>
  BY DEF GpuDone, chainVars
<1>2. ThreadsInv' /\ SharedInv' /\ CallInv' /\ PaceInv'
  BY <1>1 DEF LayerInv, ThreadsInv, SharedInv, CallInv, PaceInv, SlotInv, TurnInv, TurnOf, FullInv,
     AgeInv, RestInv, Pacing, AtPresent, Rested, Without, Slots
<1>3. DrawnInv'
  BY <1>1 DEF LayerInv, SharedInv, DrawnInv, Waiting, Without
<1>4. QED
  BY <1>2, <1>3 DEF LayerInv

\* A device whose data found no memory, and a step of nobody.
LEMMA NothingKeeps ==
  ASSUME LayerInv, UNCHANGED <<th, owner, gpu, seen, shown, env, faults>>
  PROVE  LayerInv'
<1>1. ThreadsInv' /\ SharedInv' /\ CallInv' /\ DrawnInv'
  BY DEF LayerInv, ThreadsInv, SharedInv, CallInv, DrawnInv, Waiting, Without, Slots
<1>2. PaceInv'
  BY DEF LayerInv, PaceInv, SlotInv, TurnInv, TurnOf, FullInv, AgeInv, RestInv, Pacing, AtPresent, Rested,
     Without, Slots
<1>3. QED
  BY <1>1, <1>2 DEF LayerInv

-----------------------------------------------------------------------------
(***************************************************************************)
(* Steps of pace() and what follows.                                       *)
(***************************************************************************)

\* Two threads in a call present different swapchains.
LEMMA OwnChain ==
  ASSUME CallInv, NEW t \in Threads, NEW u \in Threads, th[t].pc \in CallPC,
         th[u].pc \in CallPC, th[t].s = th[u].s
  PROVE  t = u
BY DEF CallInv

\* The swapchain of a thread that has a slot and has not had its turn rests as
\* long as its slot says.
LEMMA SlotTells ==
  ASSUME PresentLayerAssumption, LayerInv, Pacing, NEW t \in Threads,
         th[t].pc \in OwnSlotPC
  PROVE  /\ th[t].slot \in Slots /\ th[t].s \in Swapchains
         /\ seen[th[t].slot].swapchain = th[t].s
         /\ shown[th[t].s] \in {Never, seen[th[t].slot].last}
<1>1. /\ th[t].slot \in Slots /\ th[t].s \in Swapchains
      /\ seen[th[t].slot].swapchain = th[t].s
  BY DEF LayerInv, CallInv, PaceInv, TurnInv, Pacing, Without, CallPC, WaitedPC, SlotPC
<1>2. ~AtPresent(th[t].s)
  BY OwnChain DEF LayerInv, AtPresent, CallPC, WaitedPC, SlotPC, OwnSlotPC
<1>3. th[t].s # None
  BY <1>1 DEF LayerInv, PaceInv, SlotInv, Pacing, PresentLayerAssumption
<1>4. QED
  BY <1>1, <1>2, <1>3 DEF LayerInv, PaceInv, AgeInv

\* pace() finds the slot of the swapchain or a free one, or none.
LEMMA PaceKeeps ==
  ASSUME PresentLayerAssumption, LayerInv, NEW t \in Threads, Pace(t),
         UNCHANGED <<env, faults>>
  PROVE  LayerInv'
<1> USE DEF LayerInv
<1>1. /\ th[t].pc = "pace" /\ Alone(t, "claim") /\ UNCHANGED <<owner, gpu, seen, shown>>
      /\ th[t].s \in Swapchains /\ owner[th[t].s] = t
      /\ Without({"several"}) => th[t].rest = {}
  BY DEF Pace, chainVars, CallInv, CallPC, WaitedPC
<1>2. {"present", "clock", "claim"} \subseteq PCs \cap WaitedPC
  BY DEF PCs, CallPC, WaitedPC, SlotPC, OwnSlotPC
<1>3. ASSUME NEW pc \in {"present", "clock", "claim"}, Moves(t, pc),
             pc # "present" => th'[t].slot \in Slots
      PROVE  CallInv' /\ DrawnInv'
  <2>1. CallInv'
    BY <1>1, <1>3, CallKept DEF Moves, SlotPC, OwnSlotPC
  <2>2. Waiting => gpu[t] = "idle"
    BY <1>1 DEF DrawnInv, WaitedPC
  <2>3. DrawnInv'
    BY <1>1, <1>3, <2>2, DrawnKept DEF Moves
  <2>4. QED
    BY <2>1, <2>3
<1>4. CASE /\ Go(t, "present")
           /\ env.interval <= 0 \/ (SlotsOf(th[t].s) = {} /\ SlotsOf(None) = {})
  <2>1. ThreadsInv' /\ Moves(t, "present")
    BY <1>2, <1>4, GoMoves
  <2>2. SlotInv' /\ TurnInv'
    BY <1>1, <2>1 DEF PaceInv, SlotInv, TurnInv, TurnOf, Moves, Others, Without, Slots, OwnSlotPC
  <2>3. ASSUME Pacing PROVE \A i \in Slots : seen[i].swapchain \notin {None, th[t].s}
    BY <1>4, <2>3 DEF Pacing, SlotsOf, Slots, SharedInv, Envs
  <2>4. FullInv'
    BY <1>1, <2>1, <2>3 DEF PaceInv, FullInv, AtPresent, Pacing, Moves, Others, Without, Slots
  <2>5. AgeInv'
    BY <1>1, <2>1 DEF PaceInv, AgeInv, AtPresent, Pacing, Moves, Others, Without, Slots
  <2>6. RestInv'
    BY <1>1, <2>1, <2>3 DEF PaceInv, RestInv, Rested, Pacing, Moves, Others, Without, Slots
  <2>7. QED
    BY <1>1, <1>3, <2>1, <2>2, <2>4, <2>5, <2>6 DEF PaceInv, SharedInv, Slots
<1>5. ASSUME NEW pc \in {"clock", "claim"}, Moves(t, pc), th'[t].slot \in Slots, SlotInv' /\ TurnInv'
      PROVE  PaceInv'
  <2>1. \A s : AtPresent(s)' <=> AtPresent(s)
    BY <1>1, <1>5 DEF AtPresent, Moves, Others
  <2>2. FullInv' /\ AgeInv'
    BY <1>1, <2>1 DEF PaceInv, FullInv, AgeInv, Pacing, Without, Slots
  <2>3. RestInv'
    BY <1>1, <1>5 DEF PaceInv, RestInv, Rested, Pacing, Moves, Others, Without, Slots
  <2>4. QED
    BY <1>5, <2>2, <2>3 DEF PaceInv
<1>6. ASSUME NEW i \in FirstOf(SlotsOf(th[t].s)), GoWith(t, "clock", i)
      PROVE  LayerInv'
  <2>1. i \in Slots /\ i \in Nat /\ seen[i].swapchain = th[t].s
    BY <1>6 DEF FirstOf, SlotsOf, Slots, SharedInv, Envs
  <2>2. ThreadsInv' /\ Moves(t, "clock") /\ th'[t].slot = i
    BY <1>2, <1>6, <2>1, SlotChosen
  <2>3. SlotInv' /\ TurnInv'
    BY <1>1, <2>1, <2>2 DEF PaceInv, SlotInv, TurnInv, TurnOf, Moves, Others, Without, Slots, OwnSlotPC
  <2>4. QED
    BY <1>1, <1>3, <1>5, <2>1, <2>2, <2>3 DEF SharedInv, Slots
<1>7. ASSUME SlotsOf(th[t].s) = {}, NEW i \in FirstOf(SlotsOf(None)), GoWith(t, "claim", i)
      PROVE  LayerInv'
  <2>1. /\ i \in Slots /\ i \in Nat /\ seen[i].swapchain = None
        /\ \A j \in Slots : seen[j].swapchain # th[t].s
    BY <1>7 DEF FirstOf, SlotsOf, Slots, SharedInv, Envs
  <2>2. ThreadsInv' /\ Moves(t, "claim") /\ th'[t].slot = i
    BY <1>2, <1>7, <2>1, SlotChosen
  <2>3. SlotInv' /\ TurnInv'
    BY <1>1, <2>1, <2>2 DEF PaceInv, SlotInv, TurnInv, TurnOf, Moves, Others, Without, Alone, Slots, OwnSlotPC
  <2>4. QED
    BY <1>1, <1>3, <1>5, <2>1, <2>2, <2>3 DEF SharedInv, Slots
<1>8. QED
  <2>1. \/ /\ Go(t, "present")
           /\ env.interval <= 0 \/ (SlotsOf(th[t].s) = {} /\ SlotsOf(None) = {})
        \/ \E i \in FirstOf(SlotsOf(th[t].s)) : GoWith(t, "clock", i)
        \/ /\ SlotsOf(th[t].s) = {}
           /\ \E i \in FirstOf(SlotsOf(None)) : GoWith(t, "claim", i)
    BY DEF Pace
  <2>2. QED
    BY <1>4, <1>6, <1>7, <2>1

\* The free slot becomes that of the swapchain.
LEMMA ClaimKeeps ==
  ASSUME PresentLayerAssumption, LayerInv, NEW t \in Threads, Claim(t),
         UNCHANGED <<env, faults>>
  PROVE  LayerInv'
<1> USE DEF LayerInv
<1> DEFINE slot == th[t].slot
           s == th[t].s
<1>1. /\ th[t].pc = "claim" /\ UNCHANGED <<owner, gpu, shown>>
      /\ slot \in Slots /\ s \in Swapchains /\ owner[s] = t /\ s # None
      /\ Without({"several"}) => th[t].rest = {}
  BY DEF Claim, chainVars, CallInv, CallPC, WaitedPC, SlotPC, PresentLayerAssumption
<1>2. "clock" \in PCs
  BY DEF PCs, CallPC, WaitedPC, SlotPC, OwnSlotPC
<1>3. ThreadsInv' /\ Moves(t, "clock") /\ th'[t].slot = slot
  BY <1>2, GoMoves DEF Claim
<1>4. /\ seen' \in [Slots -> [swapchain : MaybeChain, last : Never .. Cap, by : MaybeChain]]
      /\ seen'[slot].swapchain = s /\ seen'[slot].last = seen[slot].last
      /\ seen'[slot].by = seen[slot].by
      /\ \A i \in Slots \ {slot} : seen'[i] = seen[i]
  BY <1>1 DEF Claim, SharedInv, MaybeChain
<1>5. SharedInv'
  BY <1>1, <1>4 DEF SharedInv, Slots
<1>6. CallInv'
  BY <1>1, <1>3, CallKept DEF Moves, SlotPC, OwnSlotPC
<1>7. DrawnInv'
  BY <1>1, <1>3, DrawnKept DEF DrawnInv, Moves, WaitedPC, SlotPC
<1>8. SlotInv'
  <2>1. \A i \in Slots : seen[i].swapchain # s
    BY <1>1 DEF PaceInv, SlotInv
  <2>2. \A u \in Threads : th'[u].pc = "claim" => th'[u] = th[u] /\ th[u].s # s
    BY <1>1, <1>3, OwnChain DEF Moves, Others, CallPC, WaitedPC, SlotPC
  <2>3. QED
    BY <1>4, <2>1, <2>2 DEF PaceInv, SlotInv, Slots
<1>9. TurnInv'
  <2> SUFFICES ASSUME Without({"race"}) PROVE TurnInv'
    BY DEF TurnInv, Without
  <2>1. seen[slot].swapchain = None /\ seen[slot].last = Never
    BY <1>1 DEF PaceInv, TurnInv
  <2>2. \A u \in Threads : th'[u].pc # "claim"
    BY <1>1, <1>3 DEF PaceInv, TurnInv, Moves, Others
  <2>3. \A u \in Threads : th'[u].pc \in OwnSlotPC => seen'[th'[u].slot].swapchain = th'[u].s
    <3> SUFFICES ASSUME NEW u \in Threads, th'[u].pc \in OwnSlotPC
                 PROVE  seen'[th'[u].slot].swapchain = th'[u].s
      OBVIOUS
    <3>1. CASE u = t
      BY <1>3, <1>4, <3>1 DEF Moves
    <3>2. CASE u # t
      <4>1. th'[u] = th[u]
        BY <1>3, <3>2 DEF Moves, Others
      <4>2. /\ th[u].slot \in Slots /\ seen[th[u].slot].swapchain = th[u].s
            /\ th[u].s \in Swapchains
        BY <4>1 DEF CallInv, PaceInv, TurnInv, SlotPC, CallPC, WaitedPC
      <4>3. th[u].slot # slot
        BY <2>1, <4>2 DEF PresentLayerAssumption
      <4>4. QED
        BY <1>4, <4>1, <4>2, <4>3
    <3>3. QED
      BY <3>1, <3>2
  <2>4. \A i \in Slots :
          /\ seen'[i].swapchain = None => seen'[i].last = Never
          /\ TurnOf(i)'
    BY <1>1, <1>4, <2>1 DEF PaceInv, TurnInv, TurnOf
  <2>5. QED
    BY <2>2, <2>3, <2>4 DEF TurnInv, Slots
<1>10. \A x : AtPresent(x)' <=> AtPresent(x)
  BY <1>1, <1>3 DEF AtPresent, Moves, Others
<1>11. ASSUME Pacing
       PROVE  seen[slot].swapchain = None /\ \A i \in Slots : seen[i].swapchain # s
  BY <1>1, <1>11 DEF PaceInv, SlotInv, TurnInv, Pacing, Without
<1>12. FullInv'
  BY <1>1, <1>4, <1>10, <1>11 DEF PaceInv, FullInv, Pacing, Without, Slots
<1>13. AgeInv'
  BY <1>1, <1>4, <1>10, <1>11 DEF PaceInv, AgeInv, FullInv, Pacing, Without, Slots
<1>14. RestInv'
  <2> SUFFICES ASSUME Pacing, NEW u \in Threads \ {t}
               PROVE  /\ th[u].pc = "sleep" => seen'[th[u].slot] = seen[th[u].slot]
                      /\ th[u].pc = "present" => th[u].s # s
    BY <1>1, <1>3, <1>4 DEF PaceInv, RestInv, Rested, Pacing, Moves, Others, Without, Slots
  <2>1. th[u].pc = "sleep" => th[u].slot \in Slots \ {slot}
    BY <1>11 DEF PaceInv, TurnInv, Pacing, Without, CallInv, SlotPC, OwnSlotPC, CallPC, WaitedPC,
       PresentLayerAssumption
  <2>2. QED
    BY <1>1, <1>4, <2>1, OwnChain DEF CallPC, WaitedPC, SlotPC
<1>15. QED
  BY <1>3, <1>5, <1>6, <1>7, <1>9, <1>12, <1>13, <1>14, <1>8 DEF PaceInv

\* A thread with its slot goes on without touching the table or what is shown.
LEMMA OnItsSlot ==
  ASSUME LayerInv, NEW t \in Threads, NEW pc \in {"sleep", "store"},
         th[t].pc \in {"clock", "sleep"}, Moves(t, pc), th'[t].slot = th[t].slot,
         UNCHANGED <<owner, gpu, seen, shown, env, faults>>,
         Pacing => /\ pc = "sleep" => /\ seen[th[t].slot].last # Never
                                      /\ seen[th[t].slot].last + th'[t].age >= env.interval
                   /\ pc = "store" => th'[t].age = 0 /\ Rested(th[t].s)
  PROVE  SharedInv' /\ CallInv' /\ DrawnInv' /\ PaceInv'
<1> USE DEF LayerInv
<1>1. /\ th[t].slot \in Slots /\ th[t].s \in Swapchains /\ owner[th[t].s] = t
      /\ Without({"several"}) => th[t].rest = {}
  BY DEF CallInv, CallPC, WaitedPC, SlotPC, OwnSlotPC
<1>2. CallInv'
  BY <1>1, CallKept DEF Moves, SlotPC, OwnSlotPC
<1>3. DrawnInv'
  BY DrawnKept DEF DrawnInv, Moves, WaitedPC, SlotPC, OwnSlotPC
<1>4. SlotInv' /\ TurnInv'
  BY DEF PaceInv, SlotInv, TurnInv, TurnOf, Moves, Others, Without, Slots, OwnSlotPC
<1>5. \A x : AtPresent(x)' <=> AtPresent(x)
  BY DEF AtPresent, Moves, Others
<1>6. FullInv' /\ AgeInv'
  BY <1>5 DEF PaceInv, FullInv, AgeInv, Pacing, Without, Slots
<1>7. RestInv'
  BY DEF PaceInv, RestInv, Rested, Pacing, Moves, Others, Without, Slots
<1>8. QED
  BY <1>2, <1>3, <1>4, <1>6, <1>7 DEF PaceInv, SharedInv, Slots

\* pace() reads the clock and sleeps for what is missing.
LEMMA ClockKeeps ==
  ASSUME PresentLayerAssumption, LayerInv, NEW t \in Threads, Clock(t),
         UNCHANGED <<env, faults>>
  PROVE  LayerInv'
<1> USE DEF LayerInv
<1> DEFINE waited == seen[th[t].slot].last
           left == env.interval - waited
           sleeps == waited # Never /\ left > 0 /\ left < Second
<1>1. th[t].pc = "clock" /\ UNCHANGED <<owner, gpu, seen, shown>>
  BY DEF Clock, chainVars
<1>2. /\ th[t].slot \in Slots /\ waited \in Never .. Cap
      /\ env.interval \in Int /\ env.interval <= Cap /\ Second \in Nat /\ Cap \in Nat
  BY <1>1 DEF CallInv, SharedInv, SlotPC, OwnSlotPC, Envs, PresentLayerAssumption
<1>3. {"sleep", "store"} \subseteq PCs
  BY DEF PCs, CallPC, WaitedPC, SlotPC, OwnSlotPC
<1>4. CASE sleeps
  <2>1. th' = [th EXCEPT ![t].pc = "sleep", ![t].age = left]
    BY <1>4 DEF Clock
  <2>2. left \in 0 .. Cap
    BY <1>2, <1>4 DEF Never
  <2>3. ThreadsInv' /\ Moves(t, "sleep") /\ th'[t].slot = th[t].slot /\ th'[t].age = left
    BY <1>3, <2>1, <2>2, AgeSet
  <2>4. waited + left >= env.interval
    BY <1>2 DEF Never
  <2>5. QED
    BY <1>1, <1>4, <2>3, <2>4, OnItsSlot
<1>5. CASE ~sleeps
  <2>1. th' = [th EXCEPT ![t].pc = "store", ![t].age = 0]
    BY <1>5 DEF Clock
  <2>2. 0 \in 0 .. Cap
    BY <1>2
  <2>3. ThreadsInv' /\ Moves(t, "store") /\ th'[t].slot = th[t].slot /\ th'[t].age = 0
    BY <1>3, <2>1, <2>2, AgeSet
  <2>4. ASSUME Pacing PROVE Rested(th[t].s)
    <3>1. shown[th[t].s] \in {Never, waited}
      BY <1>1, <2>4, SlotTells DEF OwnSlotPC
    <3>2. waited = Never \/ waited >= env.interval
      BY <1>2, <1>5, <2>4 DEF Pacing, Never
    <3>3. QED
      BY <3>1, <3>2 DEF Rested
  <2>5. QED
    BY <1>1, <2>3, <2>4, OnItsSlot
<1>6. QED
  BY <1>4, <1>5

\* The sleep ends when what was missing has passed.
LEMMA WakeKeeps ==
  ASSUME PresentLayerAssumption, LayerInv, NEW t \in Threads, Wake(t),
         UNCHANGED <<env, faults>>
  PROVE  LayerInv'
<1> USE DEF LayerInv
<1>1. th[t].pc = "sleep" /\ th[t].age = 0 /\ UNCHANGED <<owner, gpu, seen, shown>>
  BY DEF Wake, chainVars
<1>2. "store" \in PCs
  BY DEF PCs, CallPC, WaitedPC, SlotPC, OwnSlotPC
<1>3. /\ ThreadsInv' /\ Moves(t, "store")
      /\ th'[t].slot = th[t].slot /\ th'[t].age = th[t].age
  BY <1>2, GoMoves DEF Wake
<1>4. ASSUME Pacing PROVE Rested(th[t].s)
  <2>1. /\ th[t].slot \in Slots
        /\ shown[th[t].s] \in {Never, seen[th[t].slot].last}
    BY <1>1, <1>4, SlotTells DEF OwnSlotPC
  <2>2. seen[th[t].slot].last + 0 >= env.interval
    BY <1>1, <1>4 DEF PaceInv, RestInv
  <2>3. seen[th[t].slot].last \in Never .. Cap
    BY <2>1 DEF SharedInv
  <2>4. QED
    BY <2>1, <2>2, <2>3 DEF Rested, Never
<1>5. QED
  BY <1>1, <1>3, <1>4, OnItsSlot

\* A signal ends the sleep; nothing is said of paced presents then.
LEMMA InterruptKeeps ==
  ASSUME PresentLayerAssumption, LayerInv, NEW t \in Threads, Interrupt(t),
         UNCHANGED <<env, faults>>
  PROVE  LayerInv'
<1> USE DEF LayerInv
<1>1. /\ th[t].pc = "sleep" /\ ~Pacing /\ UNCHANGED <<owner, gpu, seen, shown>>
      /\ th' = [th EXCEPT ![t].pc = "store", ![t].age = 0]
  BY DEF Interrupt, chainVars, Pacing, Without
<1>2. "store" \in PCs /\ 0 \in 0 .. Cap
  BY DEF PCs, CallPC, WaitedPC, SlotPC, OwnSlotPC, PresentLayerAssumption
<1>3. /\ ThreadsInv' /\ Moves(t, "store")
      /\ th'[t].slot = th[t].slot /\ th'[t].age = 0
  BY <1>1, <1>2, AgeSet
<1>4. QED
  BY <1>1, <1>3, OnItsSlot

\* The turn is noted.
LEMMA StoreKeeps ==
  ASSUME PresentLayerAssumption, LayerInv, NEW t \in Threads, Store(t),
         UNCHANGED <<env, faults>>
  PROVE  LayerInv'
<1> USE DEF LayerInv
<1> DEFINE slot == th[t].slot
           s == th[t].s
<1>1. /\ th[t].pc = "store" /\ UNCHANGED <<owner, gpu, shown>>
      /\ slot \in Slots /\ s \in Swapchains /\ owner[s] = t /\ s # None
      /\ Without({"several"}) => th[t].rest = {}
  BY DEF Store, chainVars, CallInv, CallPC, WaitedPC, SlotPC, OwnSlotPC, PresentLayerAssumption
<1>2. "present" \in PCs
  BY DEF PCs, CallPC, WaitedPC
<1>3. ThreadsInv' /\ Moves(t, "present")
  BY <1>2, GoMoves DEF Store
<1>4. th[t].age \in 0 .. Cap
  BY DEF ThreadsInv, Locals
<1>5. /\ seen' \in [Slots -> [swapchain : MaybeChain, last : Never .. Cap, by : MaybeChain]]
      /\ seen'[slot].swapchain = seen[slot].swapchain /\ seen'[slot].last = th[t].age
      /\ seen'[slot].by = s
      /\ \A i \in Slots \ {slot} : seen'[i] = seen[i]
  BY <1>1, <1>4 DEF Store, SharedInv, MaybeChain, Never, PresentLayerAssumption
<1>6. SharedInv'
  BY <1>1, <1>5 DEF SharedInv, Slots
<1>7. CallInv'
  BY <1>1, <1>3, CallKept DEF Moves, SlotPC, OwnSlotPC
<1>8. DrawnInv'
  BY <1>1, <1>3, DrawnKept DEF DrawnInv, Moves, WaitedPC, SlotPC, OwnSlotPC
<1>9. \A i \in Slots : seen'[i].swapchain = seen[i].swapchain
  BY <1>5
<1>10. ASSUME Without({"race"}) PROVE seen[slot].swapchain = s
  BY <1>1, <1>10 DEF PaceInv, TurnInv, OwnSlotPC
<1>11. SlotInv'
  <2>1. \A u \in Threads : th'[u].pc = "claim" => th'[u] = th[u]
    BY <1>3 DEF Moves, Others
  <2>2. QED
    BY <1>1, <1>9, <2>1 DEF PaceInv, SlotInv, Slots
<1>12. TurnInv'
  <2> SUFFICES ASSUME Without({"race"}) PROVE TurnInv'
    BY DEF TurnInv, Without
  <2>1. \A u \in Threads : th'[u].pc \in SlotPC => u # t /\ th'[u] = th[u]
    BY <1>3 DEF Moves, Others, SlotPC, OwnSlotPC
  <2>2. \A u \in Threads :
          /\ th'[u].pc \in SlotPC => th[u].slot \in Slots
          /\ th'[u].pc = "claim" => seen'[th'[u].slot].swapchain = None
          /\ th'[u].pc \in OwnSlotPC => seen'[th'[u].slot].swapchain = th'[u].s
    BY <1>9, <2>1 DEF PaceInv, TurnInv, CallInv, SlotPC
  <2>3. \A u, v \in Threads : th'[u].pc = "claim" /\ th'[v].pc = "claim" => u = v
    BY <2>1 DEF PaceInv, TurnInv, SlotPC
  <2>4. \A i \in Slots :
          /\ seen'[i].swapchain = None => seen'[i].last = Never
          /\ TurnOf(i)'
    BY <1>1, <1>5, <1>10 DEF PaceInv, TurnInv, TurnOf
  <2>5. QED
    BY <2>2, <2>3, <2>4 DEF TurnInv, Slots
<1>13. \A x : AtPresent(x)' <=> AtPresent(x) \/ x = s
  BY <1>1, <1>3 DEF AtPresent, Moves, Others
<1>14. FullInv'
  BY <1>1, <1>9, <1>10, <1>13 DEF PaceInv, FullInv, Pacing, Without, Slots
<1>15. AgeInv'
  BY <1>1, <1>5, <1>10, <1>13 DEF PaceInv, AgeInv, Pacing, Without, Slots
<1>16. RestInv'
  <2> SUFFICES ASSUME Pacing, NEW u \in Threads
               PROVE  /\ th'[u].pc = "sleep" =>
                           /\ seen'[th'[u].slot].last # Never
                           /\ seen'[th'[u].slot].last + th'[u].age >= env.interval
                      /\ th'[u].pc = "store" => th'[u].age = 0 /\ Rested(th'[u].s)
                      /\ th'[u].pc = "present" =>
                           \A i \in Slots :
                             seen'[i].swapchain = th'[u].s
                               => seen'[i].last = 0 /\ Rested(th'[u].s)
    BY <1>1 DEF RestInv, Rested, Pacing, Without, Slots
  <2>1. Without({"race"}) /\ seen[slot].swapchain = s
    BY <1>10 DEF Pacing, Without
  <2>2. CASE u = t
    <3>1. th[t].age = 0 /\ Rested(s)
      BY <1>1 DEF PaceInv, RestInv
    <3>2. \A i \in Slots : seen[i].swapchain = s => i = slot
      BY <1>1, <2>1 DEF PaceInv, SlotInv, TurnInv
    <3>3. QED
      BY <1>3, <1>5, <2>2, <3>1, <3>2 DEF Moves
  <2>3. CASE u # t
    <3>1. th'[u] = th[u]
      BY <1>3, <2>3 DEF Moves, Others
    <3>2. th[u].pc \in CallPC => th[u].s # s
      BY <1>1, <2>3, OwnChain DEF CallPC, WaitedPC, SlotPC, OwnSlotPC
    <3>3. th[u].pc = "sleep" => th[u].slot \in Slots \ {slot}
      BY <2>1, <3>2 DEF PaceInv, TurnInv, CallInv, CallPC, WaitedPC, SlotPC, OwnSlotPC
    <3>4. QED
      BY <1>5, <2>1, <3>1, <3>2, <3>3 DEF PaceInv, RestInv, CallPC, WaitedPC
  <2>4. QED
    BY <2>2, <2>3
<1>17. QED
  BY <1>3, <1>6, <1>7, <1>8, <1>12, <1>14, <1>15, <1>16, <1>11 DEF PaceInv

\* The present reaches the compositor.
LEMMA HandOverKeeps ==
  ASSUME PresentLayerAssumption, LayerInv, NEW t \in Threads, HandOver(t),
         UNCHANGED <<env, faults>>
  PROVE  LayerInv'
<1> USE DEF LayerInv
<1> PICK s : s = th[t].s
  OBVIOUS
<1>1. /\ th[t].pc = "present" /\ UNCHANGED <<owner, gpu, seen>>
      /\ s \in Swapchains /\ owner[s] = t
      /\ Without({"several"}) => th[t].rest = {}
  BY DEF HandOver, listVars, CallInv, CallPC, WaitedPC
<1>2. ThreadsInv' /\ Others(t) /\ th'[t] = NoCall("idle")
  BY CallEnds DEF HandOver
<1>3. /\ shown' \in [Swapchains -> Never .. Cap]
      /\ \A x \in Swapchains : shown'[x] = IF x \in Presented(t) THEN 0 ELSE shown[x]
  BY DEF HandOver, SharedInv, Never, PresentLayerAssumption
<1>4. SharedInv'
  BY <1>1, <1>3 DEF SharedInv, Slots
<1>5. CallInv' /\ DrawnInv'
  BY <1>1, <1>2, CallKept, DrawnKept DEF NoCall, CallPC, WaitedPC, SlotPC, OwnSlotPC
<1>6. SlotInv' /\ TurnInv'
  BY <1>1, <1>2 DEF PaceInv, SlotInv, TurnInv, TurnOf, Others, NoCall, Without, Slots, OwnSlotPC
<1>7. ASSUME Pacing
      PROVE  \A x \in Swapchains : shown'[x] = IF x = s THEN 0 ELSE shown[x]
  BY <1>1, <1>3, <1>7 DEF Presented, Pacing, Without
<1>8. \A x : x # s => (AtPresent(x)' <=> AtPresent(x))
  BY <1>1, <1>2 DEF AtPresent, Others, NoCall
<1>9. ~AtPresent(s)'
  <2>1. \A u \in Threads \ {t} : th[u].pc = "present" => th[u].s # s
    BY <1>1, OwnChain DEF CallPC, WaitedPC
  <2>2. QED
    BY <1>2, <2>1 DEF AtPresent, Others, NoCall
<1>10. AtPresent(s)
  BY <1>1 DEF AtPresent
<1>11. FullInv'
  BY <1>1, <1>7, <1>8, <1>10 DEF PaceInv, FullInv, Pacing, Without, Slots
<1>12. AgeInv'
  <2> SUFFICES ASSUME Pacing, NEW i \in Slots, seen[i].swapchain # None
               PROVE  \/ shown'[seen[i].swapchain] \in {Never, seen[i].last}
                      \/ AtPresent(seen[i].swapchain)'
    BY <1>1 DEF AgeInv, Pacing, Without, Slots
  <2>1. seen[i].swapchain \in Swapchains
    BY DEF SharedInv, MaybeChain
  <2>2. CASE seen[i].swapchain = s
    BY <1>1, <1>7, <2>1, <2>2 DEF PaceInv, RestInv
  <2>3. CASE seen[i].swapchain # s
    BY <1>1, <1>7, <1>8, <2>1, <2>3 DEF PaceInv, AgeInv
  <2>4. QED
    BY <2>2, <2>3
<1>13. RestInv'
  <2> SUFFICES ASSUME Pacing, NEW u \in Threads \ {t}, th[u].pc \in {"store", "present"}
               PROVE  Rested(th[u].s)' <=> Rested(th[u].s)
    BY <1>1, <1>2 DEF PaceInv, RestInv, Others, NoCall, Pacing, Without, Slots, Rested
  <2>1. th[u].s # s /\ th[u].s \in Swapchains
    BY <1>1, OwnChain DEF CallInv, CallPC, WaitedPC, SlotPC, OwnSlotPC
  <2>2. QED
    BY <1>2, <1>7, <2>1 DEF Rested, Others
<1>14. QED
  BY <1>2, <1>4, <1>5, <1>6, <1>11, <1>12, <1>13 DEF PaceInv

-----------------------------------------------------------------------------
(***************************************************************************)
(* The other steps.                                                        *)
(***************************************************************************)

\* A swapchain that is destroyed has not been presented under its next owner.
LEMMA DestroySwapchainKeeps ==
  ASSUME PresentLayerAssumption, LayerInv, NEW t \in Threads, NEW s \in Swapchains,
         DestroySwapchain(t, s), UNCHANGED <<env, faults>>
  PROVE  LayerInv'
<1> USE DEF LayerInv
<1>1. /\ th[t].pc = "idle" /\ owner[s] = t /\ UNCHANGED <<th, gpu>>
      /\ owner' = [owner EXCEPT ![s] = None]
      /\ shown' = [shown EXCEPT ![s] = Never]
      /\ seen' = [i \in Slots |->
                    IF seen[i].by = s THEN [seen[i] EXCEPT !.by = None] ELSE seen[i]]
  BY DEF DestroySwapchain, Slots
<1>2. /\ seen' \in [Slots -> [swapchain : MaybeChain, last : Never .. Cap, by : MaybeChain]]
       /\ \A i \in Slots :
            /\ UNCHANGED <<seen[i].swapchain, seen[i].last>>
            /\ seen'[i].by = IF seen[i].by = s THEN None ELSE seen[i].by
  BY <1>1 DEF SharedInv, MaybeChain
<1>3. \A u \in Threads : th[u].pc \in CallPC => th[u].s \in Swapchains \ {s}
  BY <1>1 DEF CallInv, CallPC, WaitedPC, SlotPC, OwnSlotPC
<1>4. /\ shown' \in [Swapchains -> Never .. Cap]
      /\ shown'[s] = Never /\ \A x \in Swapchains \ {s} : shown'[x] = shown[x]
  BY <1>1 DEF SharedInv, Never, PresentLayerAssumption
<1>5. ThreadsInv' /\ SharedInv' /\ DrawnInv'
  BY <1>1, <1>4, <1>2 DEF ThreadsInv, SharedInv, DrawnInv, Waiting, Without, Slots
<1>6. SlotInv'
  BY <1>1, <1>2 DEF PaceInv, SlotInv, Slots
<1>7. TurnInv'
  <2> SUFFICES ASSUME Without({"race"}) PROVE TurnInv'
    BY DEF TurnInv, Without
  <2>1. \A u \in Threads : th[u].pc \in SlotPC => th[u].slot \in Slots
    BY DEF CallInv
  <2>2. \A i \in Slots : TurnOf(i)'
    <3> SUFFICES ASSUME NEW i \in Slots PROVE TurnOf(i)'
      OBVIOUS
    <3>1. TurnOf(i) /\ (seen[i].swapchain = None => seen[i].last = Never)
      BY DEF PaceInv, TurnInv
    <3>2. seen[i].swapchain # None => seen[i].swapchain \in Swapchains
      BY DEF SharedInv, MaybeChain
    <3>3. \A x \in Swapchains : owner'[x] = IF x = s THEN None ELSE owner[x]
      BY <1>1 DEF SharedInv
    <3>4. QED
      BY <1>2, <3>1, <3>2, <3>3 DEF TurnOf
  <2>3. QED
    BY <1>1, <1>2, <2>1, <2>2 DEF PaceInv, TurnInv, Slots, SlotPC, OwnSlotPC
<1>8. CallInv'
  BY <1>1, <1>3 DEF CallInv, SharedInv, Without, Slots
<1>9. \A x : AtPresent(x)' <=> AtPresent(x)
  BY <1>1 DEF AtPresent
<1>10. FullInv'
  BY <1>1, <1>4, <1>9, <1>2 DEF PaceInv, FullInv, Pacing, Without, Slots
<1>11. AgeInv'
  <2> SUFFICES ASSUME Pacing, NEW i \in Slots, seen[i].swapchain # None
               PROVE  \/ shown'[seen[i].swapchain] \in {Never, seen[i].last}
                      \/ AtPresent(seen[i].swapchain)
    BY <1>1, <1>9, <1>2 DEF AgeInv, Pacing, Without, Slots
  <2>1. seen[i].swapchain \in Swapchains
    BY DEF SharedInv, MaybeChain
  <2>2. QED
    BY <1>4, <2>1 DEF PaceInv, AgeInv
<1>12. RestInv'
  <2> SUFFICES ASSUME Pacing, NEW u \in Threads, th[u].pc \in {"store", "present"}
               PROVE  Rested(th[u].s)' <=> Rested(th[u].s)
    <3>1. \A u \in Threads : th[u].pc = "sleep" => th[u].slot \in Slots
      BY DEF CallInv, SlotPC, OwnSlotPC
    <3>2. QED
      BY <1>1, <1>2, <3>1 DEF PaceInv, RestInv, Pacing, Without, Slots, Rested
  <2>1. th[u].s \in Swapchains \ {s}
    BY <1>3 DEF CallPC, WaitedPC, SlotPC, OwnSlotPC
  <2>2. QED
    BY <1>1, <1>4, <2>1 DEF Rested
<1>13. QED
  BY <1>5, <1>8, <1>10, <1>11, <1>12, <1>6, <1>7 DEF PaceInv

\* An age that grows stays an age, and is never a first present's.
LEMMA OlderIs ==
  ASSUME PresentLayerAssumption, NEW a \in Never .. Cap
  PROVE  /\ Older(a) \in Never .. Cap
         /\ Older(a) = Never <=> a = Never
         /\ a # Never => Older(a) >= a /\ Older(a) \in 0 .. Cap
         /\ a \in 0 .. Cap - 1 => Older(a) = a + 1
         /\ a = Cap => Older(a) = Cap
BY DEF Older, Never, PresentLayerAssumption

\* Time passes alike for the table, for what is shown and for a sleep.
LEMMA TickKeeps ==
  ASSUME PresentLayerAssumption, LayerInv, Tick, UNCHANGED <<env, faults>>
  PROVE  LayerInv'
<1> USE DEF LayerInv
<1> PICK N : th \in [Threads -> Locals(N)]
  BY DEF ThreadsInv
<1>1. UNCHANGED <<owner, gpu>>
  BY DEF Tick
<1>2. \A i \in Slots :
        /\ seen'[i] \in [swapchain : MaybeChain, last : Never .. Cap, by : MaybeChain]
        /\ seen'[i].swapchain = seen[i].swapchain /\ seen'[i].by = seen[i].by
        /\ seen'[i].last = Older(seen[i].last)
  <2> SUFFICES ASSUME NEW i \in Slots
               PROVE  /\ seen'[i] \in [swapchain : MaybeChain, last : Never .. Cap,
                                       by : MaybeChain]
                      /\ seen'[i].swapchain = seen[i].swapchain
                      /\ seen'[i].by = seen[i].by
                      /\ seen'[i].last = Older(seen[i].last)
    OBVIOUS
  <2>1. seen[i] \in [swapchain : MaybeChain, last : Never .. Cap, by : MaybeChain]
    BY DEF SharedInv
  <2>2. Older(seen[i].last) \in Never .. Cap
    BY <2>1, OlderIs
  <2>3. seen'[i] = [seen[i] EXCEPT !.last = Older(seen[i].last)]
    BY DEF Tick, Slots
  <2>4. QED
    BY <2>1, <2>2, <2>3
<1>3. seen' \in [Slots -> [swapchain : MaybeChain, last : Never .. Cap, by : MaybeChain]]
  BY <1>2 DEF Tick, Slots
<1>4. /\ shown' \in [Swapchains -> Never .. Cap]
      /\ \A x \in Swapchains : shown'[x] = Older(shown[x])
  <2>1. \A x \in Swapchains : Older(shown[x]) \in Never .. Cap
    BY OlderIs DEF SharedInv
  <2>2. shown' = [x \in Swapchains |-> Older(shown[x])]
    BY DEF Tick
  <2>3. QED
    BY <2>1, <2>2
<1>5. \A u \in Threads :
        /\ th'[u] \in Locals(N)
        /\ UNCHANGED <<th[u].pc, th[u].s, th[u].rest, th[u].slot>>
        /\ th[u].pc = "sleep" =>
             th'[u].age = IF th[u].age > 0 THEN th[u].age - 1 ELSE th[u].age
  <2> SUFFICES ASSUME NEW u \in Threads
               PROVE  /\ th'[u] \in Locals(N)
                      /\ UNCHANGED <<th[u].pc, th[u].s, th[u].rest, th[u].slot>>
                      /\ th[u].pc = "sleep" =>
                           th'[u].age = IF th[u].age > 0 THEN th[u].age - 1 ELSE th[u].age
    OBVIOUS
  <2>1. th[u] \in Locals(N)
    OBVIOUS
  <2>2. CASE th[u].pc = "sleep" /\ th[u].age > 0
    <3>1. th'[u] = [th[u] EXCEPT !.age = th[u].age - 1]
      BY <2>2 DEF Tick
    <3>2. th[u].age - 1 \in 0 .. Cap
      BY <2>1, <2>2 DEF Locals, PresentLayerAssumption
    <3>3. QED
      BY <2>1, <2>2, <3>1, <3>2 DEF Locals
  <2>3. CASE th[u].pc = "store"
    <3>1. th'[u] = [th[u] EXCEPT !.age = Older(th[u].age)]
      BY <2>3 DEF Tick
    <3>2. Older(th[u].age) \in 0 .. Cap
      BY <2>1 DEF Locals, Older, Never, PresentLayerAssumption
    <3>3. QED
      BY <2>1, <2>3, <3>1, <3>2 DEF Locals
  <2>4. CASE ~(th[u].pc = "sleep" /\ th[u].age > 0) /\ th[u].pc # "store"
    <3>1. th'[u] = th[u]
      BY <2>4 DEF Tick
    <3>2. QED
      BY <2>1, <2>4, <3>1 DEF Locals
  <2>5. QED
    BY <2>2, <2>3, <2>4
<1>6. ThreadsInv'
  <2>1. th' = [u \in Threads |-> th'[u]]
    BY DEF Tick
  <2>2. th' \in [Threads -> Locals(N)]
    BY <1>5, <2>1
  <2>3. QED
    BY <2>2 DEF ThreadsInv
<1>7. SharedInv'
  BY <1>1, <1>3, <1>4 DEF SharedInv, Slots
<1>8. CallInv'
  BY <1>1, <1>5 DEF CallInv, Without, Slots
<1>9. DrawnInv'
  BY <1>1, <1>5 DEF DrawnInv, Waiting, Without
<1>10. \A i \in Slots : seen[i].last \in Never .. Cap /\ (seen'[i].last = Never <=> seen[i].last = Never)
  BY <1>2, OlderIs DEF SharedInv
<1>11. SlotInv'
  BY <1>2, <1>5 DEF PaceInv, SlotInv, Slots
<1>12. TurnInv'
  <2> SUFFICES ASSUME Without({"race"}) PROVE TurnInv'
    BY DEF TurnInv, Without
  <2>1. \A u \in Threads : th[u].pc \in SlotPC => th[u].slot \in Slots
    BY DEF CallInv
  <2>2. QED
    BY <1>1, <1>2, <1>5, <1>10, <2>1 DEF PaceInv, TurnInv, TurnOf, Slots, SlotPC
<1>13. \A x : AtPresent(x)' <=> AtPresent(x)
  BY <1>5 DEF AtPresent
<1>14. ASSUME Pacing
       PROVE  /\ \A u \in Threads : th[u].pc \notin {"store", "present"}
              /\ \A x : ~AtPresent(x)
  BY <1>14 DEF Tick, Pacing, Without, AtPresent
<1>15. FullInv'
  <2> SUFFICES ASSUME Pacing, NEW x \in Swapchains, shown'[x] # Never
               PROVE  \/ \E i \in Slots : seen'[i].swapchain = x
                      \/ \A i \in Slots : seen'[i].swapchain # None
    BY <1>13, <1>14 DEF FullInv, Pacing, Without, Slots
  <2>1. shown[x] # Never
    BY <1>4, OlderIs DEF SharedInv
  <2>2. QED
    BY <1>2, <2>1 DEF PaceInv, FullInv
<1>16. AgeInv'
  <2> SUFFICES ASSUME Pacing, NEW i \in Slots, seen[i].swapchain # None
               PROVE  shown'[seen[i].swapchain] \in {Never, seen'[i].last}
    BY <1>2 DEF AgeInv, Pacing, Without, Slots
  <2>1. seen[i].swapchain \in Swapchains
    BY DEF SharedInv, MaybeChain
  <2>2. shown[seen[i].swapchain] \in {Never, seen[i].last}
    BY <1>14 DEF PaceInv, AgeInv
  <2>3. Older(Never) = Never
    BY DEF Older
  <2>4. QED
    BY <1>2, <1>4, <2>1, <2>2, <2>3
<1>17. RestInv'
  <2> SUFFICES ASSUME Pacing, NEW u \in Threads, th[u].pc = "sleep"
               PROVE  /\ seen'[th[u].slot].last # Never
                      /\ seen'[th[u].slot].last + th'[u].age >= env.interval
    BY <1>5, <1>14 DEF RestInv, Rested, Pacing, Without, Slots
  <2> DEFINE last == seen[th[u].slot].last
  <2>1. th[u].slot \in Slots /\ last \in Never .. Cap /\ th[u].age \in 0 .. Cap
    BY DEF CallInv, SlotPC, OwnSlotPC, SharedInv, Locals
  <2>2. last # Never /\ last + th[u].age >= env.interval
    BY DEF PaceInv, RestInv
  <2>3. seen'[th[u].slot].last = Older(last)
    BY <1>2, <2>1
  <2>4. /\ env.interval \in Int /\ env.interval <= Cap /\ Cap \in Nat
    BY DEF SharedInv, Envs, Pacing, PresentLayerAssumption
  <2>5. th'[u].age = IF th[u].age > 0 THEN th[u].age - 1 ELSE th[u].age
    BY <1>5
  <2> HIDE DEF last
  <2>6. Older(last) # Never /\ Older(last) + th'[u].age >= env.interval
    BY <2>1, <2>2, <2>4, <2>5 DEF Older, Never
  <2>7. QED
    BY <2>3, <2>6
<1>18. QED
  BY <1>6, <1>7, <1>8, <1>9, <1>12, <1>15, <1>16, <1>17, <1>11 DEF PaceInv

-----------------------------------------------------------------------------
(***************************************************************************)
(* The invariant and the properties.                                       *)
(***************************************************************************)

\* At first there is no device and the table is empty.
LEMMA LayerInit ==
  ASSUME PresentLayerAssumption, Init
  PROVE  LayerInv
<1>1. ThreadsInv
  <2>1. NoCall("none") \in Locals({None})
    BY DEF NoCall, Locals, PCs, MaybeChain, PresentLayerAssumption
  <2>2. th \in [Threads -> Locals({None})]
    BY <2>1 DEF Init
  <2>3. QED
    BY <2>2 DEF ThreadsInv
<1>2. SharedInv
  <2>1. env \in Envs
    BY DEF Init, PresentLayerAssumption
  <2>2. Never \in Never .. Cap
    BY DEF Never, PresentLayerAssumption
  <2>3. seen \in [Slots -> [swapchain : MaybeChain, last : Never .. Cap, by : MaybeChain]]
    BY <2>2 DEF Init, Slots, MaybeChain
  <2>4. QED
    BY <2>1, <2>2, <2>3 DEF Init, SharedInv
<1>3. \A t \in Threads : th[t].pc = "none" /\ th[t].rest = {}
  BY DEF Init, NoCall
<1>4. CallInv /\ DrawnInv
  BY <1>3 DEF Init, CallInv, DrawnInv, CallPC, WaitedPC, SlotPC, OwnSlotPC
<1>5. \A i \in Slots : seen[i].swapchain = None /\ seen[i].last = Never
  BY DEF Init, Slots
<1>6. PaceInv
  BY <1>3, <1>5 DEF Init, PaceInv, SlotInv, TurnInv, TurnOf, FullInv, AgeInv, RestInv, AtPresent, OwnSlotPC
<1>7. QED
  BY <1>1, <1>2, <1>4, <1>6 DEF LayerInv

\* Every step keeps the invariant.
LEMMA LayerStep ==
  ASSUME PresentLayerAssumption, LayerInv, [Next]_vars
  PROVE  LayerInv'
<1>1. ASSUME UNCHANGED <<env, faults>>, NEW t \in Threads, Application(t)
      PROVE  LayerInv'
  <2>1. ASSUME OutOfMemory(t) PROVE LayerInv'
    BY <1>1, <2>1, NothingKeeps DEF OutOfMemory, chainVars
  <2>2. QED
    BY <1>1, <2>1, CreateDeviceKeeps, LinkDeviceKeeps, DestroyDeviceKeeps, CreateSwapchainKeeps,
       DestroySwapchainKeeps, PresentKeeps DEF Application
<1>2. ASSUME UNCHANGED <<env, faults>>, NEW t \in Threads, PresentStep(t)
      PROVE  LayerInv'
  BY <1>2, QueuePresentKeeps, WaitIdleKeeps, PaceKeeps, ClaimKeeps, ClockKeeps, WakeKeeps,
     StoreKeeps, HandOverKeeps DEF PresentStep
<1>3. CASE UNCHANGED vars
  BY <1>3, NothingKeeps DEF vars, sysVars, chainVars
<1>4. QED
  BY <1>1, <1>2, <1>3, InterruptKeeps, GpuDoneKeeps, TickKeeps DEF Next

\* The invariant holds in every reachable state.
LEMMA LayerAlways == Spec => []LayerInv
<1>1. Init => LayerInv
  BY PresentLayerAssumption, LayerInit
<1>2. LayerInv /\ [Next]_vars => LayerInv'
  BY PresentLayerAssumption, LayerStep
<1>3. QED
  BY <1>1, <1>2, PTL DEF Spec

\* No handle has two slots, and but for a race the turn in a slot is that of its
\* swapchain or of one that is no more.
THEOREM TurnAlwaysOwn == Spec => []TurnIsOwn
<1>1. LayerInv => TurnIsOwn
  BY DEF LayerInv, PaceInv, SlotInv, TurnInv, TurnOf, TurnIsOwn, SlotsOf, Without, Slots
<1>2. QED
  BY <1>1, LayerAlways, PTL

\* A frame that reaches the compositor has been drawn.
THEOREM FramesComplete == Spec => FrameComplete
<1>1. LayerInv /\ [Next]_vars =>
        [ \A t \in Threads :
            HandsOver(t) /\ env.sync /\ ~env.no_wait /\ Without({"queue", "lost"})
              => gpu[t] = "idle" ]_vars
  BY DEF LayerInv, DrawnInv, Waiting, HandsOver, WaitedPC
<1>2. QED
  BY <1>1, LayerAlways, PTL DEF Spec, FrameComplete

\* Two presents of a swapchain in the table are an interval apart.
THEOREM AlwaysPacedApart == Spec => PacedApart
<1>1. LayerInv /\ [Next]_vars =>
        [ \A t \in Threads :
            ( /\ HandsOver(t) /\ env.sync /\ env.interval < Second
              /\ Without({"race", "signal", "preempt", "several"})
              /\ SlotsOf(th[t].s) # {} )
              => shown[th[t].s] = Never \/ shown[th[t].s] >= env.interval ]_vars
  <2> SUFFICES ASSUME LayerInv, NEW t \in Threads, HandsOver(t), env.sync,
                      env.interval < Second,
                      Without({"race", "signal", "preempt", "several"}),
                      NEW i \in SlotsOf(th[t].s)
               PROVE  shown[th[t].s] = Never \/ shown[th[t].s] >= env.interval
    OBVIOUS
  <2>1. /\ th[t].pc = "present" /\ th[t].s \in Swapchains
        /\ i \in Slots /\ seen[i].swapchain = th[t].s
        /\ env.interval \in Int /\ shown[th[t].s] \in Never .. Cap
    BY DEF HandsOver, LayerInv, CallInv, CallPC, WaitedPC, SlotsOf, Slots, SharedInv, Envs
  <2>2. CASE env.interval <= 0
    BY <2>1, <2>2, PresentLayerAssumption DEF Never, PresentLayerAssumption
  <2>3. CASE 0 < env.interval
    BY <2>1, <2>3 DEF LayerInv, PaceInv, RestInv, Rested, Pacing
  <2>4. QED
    BY <2>1, <2>2, <2>3, PresentLayerAssumption DEF PresentLayerAssumption
<1>2. QED
  BY <1>1, LayerAlways, PTL DEF Spec, PacedApart
=============================================================================
