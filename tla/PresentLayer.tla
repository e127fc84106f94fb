---------------------------- MODULE PresentLayer ----------------------------
(***************************************************************************)
(* The Vulkan layer that waits for rendering and holds each present until  *)
(* a refresh has passed (gpu/tools/vk-present-sync-layer.c).               *)
(*                                                                         *)
(* Contexts.  One render thread with its own device for each window, as Qt *)
(* runs them; the GPU; the clock.  Times are kept as ages that saturate at *)
(* Cap, so that the clock needs no bound.  The table of swapchains and the *)
(* list of devices are shared by the threads without a lock.  Tracing is   *)
(* left out: it only writes a log.                                         *)
(***************************************************************************)
EXTENDS Integers, Sequences, SequencesExt

CONSTANTS
  Threads,    \* render threads, each with at most one device
  Swapchains, \* handles of swapchains
  None,       \* no thread, no swapchain
  Second,     \* one second, in the unit of the ages
  Cap,        \* ages stop growing here; no interval is longer
  Scenarios   \* each behaviour has the environment and the faults of one

(***************************************************************************)
(* "reuse"    the driver returns the handle of a destroyed swapchain that  *)
(*            the table still holds                                        *)
(* "race"     two threads are in an unlocked section at the same time      *)
(* "signal"   a signal ends nanosleep early                                *)
(* "preempt"  time passes between the turn of a present and the present    *)
(* "several"  one call presents more than one swapchain                    *)
(* "lost"     vkQueueWaitIdle fails                                        *)
(* "queue"    a frame is drawn on a queue other than the one it is         *)
(*            presented on                                                 *)
(* "calloc"   there is no memory for the data of a device                  *)
(***************************************************************************)
FaultKinds ==
  {"reuse", "race", "signal", "preempt", "several", "lost", "queue", "calloc"}

\* MALI_PRESENT_SYNC is not 0, MALI_PRESENT_NO_WAIT and MALI_PRESENT_DEBUG are
\* set, MALI_PRESENT_PACE_US; PACED_SWAPCHAINS.
Envs == [sync : BOOLEAN, no_wait : BOOLEAN, debug : BOOLEAN,
         interval : {us \in Int : us <= Cap}, slots : Nat \ {0}]

ASSUME PresentLayerAssumption ==
  /\ None \notin Threads \cup Swapchains
  /\ Second \in Nat \ {0}
  /\ Cap \in Nat
  /\ Scenarios \subseteq [env : Envs, faults : SUBSET FaultKinds]

Never == -1
VARIABLES
  env,      \* the environment and size of the table, which do not change
  devices,  \* the list of device data, first the last one created
  driver,   \* devices the driver has
  th,       \* step and local variables of each thread
  owner,    \* the thread whose swapchain a handle is
  gpu,      \* the queue on which the frame of each thread is being drawn
  seen,     \* table of pace(): handle, age of the last turn, and the swapchain
            \* that had this turn, None once that swapchain is destroyed
  shown,    \* age of the last present of each swapchain
  crashed,  \* freed memory was used: anything may follow
  faults    \* what may go wrong in this behaviour, chosen once

listVars == <<devices, driver, crashed>>
chainVars == <<owner, shown>>
sysVars == <<listVars, th, chainVars, gpu, seen>>
vars == <<sysVars, env, faults>>

NoCall(pc) == [pc |-> pc, s |-> None, rest |-> {}, slot |-> 0, age |-> 0,
               next |-> None]

Init ==
  /\ \E sc \in Scenarios : env = sc.env /\ faults = sc.faults
  /\ devices = << >>
  /\ driver = {}
  /\ th = [t \in Threads |-> NoCall("none")]
  /\ owner = [s \in Swapchains |-> None]
  /\ gpu = [t \in Threads |-> "idle"]
  /\ seen = [i \in 1 .. env.slots |->
                [swapchain |-> None, last |-> Never, by |-> None]]
  /\ shown = [s \in Swapchains |-> Never]
  /\ crashed = FALSE

Go(t, pc) == th' = [th EXCEPT ![t].pc = pc]
GoWith(t, pc, slot) == th' = [th EXCEPT ![t].pc = pc, ![t].slot = slot]

\* Unless they race, no other thread is in the unlocked section that ends at pc.
Alone(t, pc) == "race" \in faults \/ \A u \in Threads \ {t} : th[u].pc # pc

-----------------------------------------------------------------------------
(***************************************************************************)
(* Devices                                                                 *)
(***************************************************************************)
\* device_for
device_for(t) == Contains(devices, t)

\* create_device up to data->next = devices.
CreateDevice(t) ==
  /\ th[t].pc = "none"
  /\ t \notin driver
  /\ Alone(t, "link")
  /\ driver' = driver \cup {t}
  /\ th' = [th EXCEPT ![t].pc = "link",
                      ![t].next = IF devices = << >> THEN None
                                  ELSE Head(devices)]
  /\ UNCHANGED <<devices, crashed, chainVars, gpu, seen>>

\* calloc fails: the driver keeps the device, the application has none.
OutOfMemory(t) ==
  /\ "calloc" \in faults
  /\ th[t].pc = "none"
  /\ t \notin driver
  /\ driver' = driver \cup {t}
  /\ UNCHANGED <<devices, crashed, th, chainVars, gpu, seen>>

\* devices = data.  What was linked in front of data->next since it was read is
\* lost; if that node was freed, the list goes on in freed memory.
LinkDevice(t) ==
  LET next == th[t].next
      from == IF next = None THEN Len(devices) + 1
              ELSE SelectInSeq(devices, LAMBDA d : d = next)
  IN  /\ th[t].pc = "link"
      /\ crashed' = (from = 0)
      /\ devices' = <<t>> \o SubSeq(devices, IF from = 0 THEN 1 ELSE from,
                                    Len(devices))
      /\ th' = [th EXCEPT ![t] = NoCall("idle")]
      /\ UNCHANGED <<driver, chainVars, gpu, seen>>

\* destroy_device, once the application has destroyed the swapchains.  A device
\* that is not in the list is not passed on.
DestroyDevice(t) ==
  /\ th[t].pc = "idle"
  /\ gpu[t] = "idle"
  /\ \A s \in Swapchains : owner[s] # t
  /\ Alone(t, "link")
  /\ driver' = IF device_for(t) THEN driver \ {t} ELSE driver
  /\ devices' = Remove(devices, t)
  /\ Go(t, "none")
  /\ UNCHANGED <<crashed, chainVars, gpu, seen>>

\* Slots that hold a handle, or None.
SlotsOf(s) == {i \in 1 .. env.slots : seen[i].swapchain = s}

\* create_swapchain.  The requested image count and mode pass through.
CreateSwapchain(t, s) ==
  /\ th[t].pc = "idle"
  /\ device_for(t)
  /\ owner[s] = None
  /\ SlotsOf(s) # {} => "reuse" \in faults
  /\ owner' = [owner EXCEPT ![s] = t]
  /\ UNCHANGED <<listVars, th, shown, gpu, seen>>

\* External: vkDestroySwapchainKHR, which the layer does not intercept: the
\* table keeps the handle and the turn.
DestroySwapchain(t, s) ==
  /\ th[t].pc = "idle"
  /\ owner[s] = t
  /\ owner' = [owner EXCEPT ![s] = None]
  /\ shown' = [shown EXCEPT ![s] = Never]
  /\ seen' = [i \in 1 .. env.slots |->
       IF seen[i].by = s THEN [seen[i] EXCEPT !.by = None] ELSE seen[i]]
  /\ UNCHANGED <<listVars, th, gpu>>

-----------------------------------------------------------------------------
(***************************************************************************)
(* Presenting                                                              *)
(***************************************************************************)
\* Where vkQueuePresentKHR leads: to queue_present, or past the layer if
\* MALI_PRESENT_SYNC is 0, which the lookup by instance does not ask.
get_device_proc == IF env.sync THEN "call" ELSE "present"
get_instance_proc == "call"

\* External: the application has drawn a frame and presents it, to swapchain s
\* and possibly to others, by a function it has looked up either way.
Present(t, s) ==
  /\ th[t].pc = "idle"
  /\ owner[s] = t
  /\ \E rest \in SUBSET ({r \in Swapchains : owner[r] = t} \ {s}),
       q \in {"queue", "other"}, pc \in {get_device_proc, get_instance_proc} :
       /\ rest # {} => "several" \in faults
       /\ q = "other" => "queue" \in faults
       /\ gpu' = [gpu EXCEPT ![t] = q]
       /\ th' = [th EXCEPT ![t].pc = pc, ![t].s = s, ![t].rest = rest]
  /\ UNCHANGED <<listVars, chainVars, seen>>

MutQueuePresent(t) ==
  /\ th[t].pc = "call"
  /\ Go(t, IF device_for(t) THEN "pace" ELSE "idle")
  /\ UNCHANGED <<listVars, chainVars, gpu, seen>>

\* queue_present up to the wait.  A device that is not found is an error.
QueuePresent(t) ==
  /\ th[t].pc = "call"
  /\ IF device_for(t) THEN Go(t, IF env.no_wait THEN "pace" ELSE "wait")
     ELSE th' = [th EXCEPT ![t] = NoCall("idle")]
  /\ UNCHANGED <<listVars, chainVars, gpu, seen>>

\* wait_idle returns, whose result is not looked at.
WaitIdle(t) ==
  /\ th[t].pc = "wait"
  /\ gpu[t] # "queue" \/ "lost" \in faults
  /\ Go(t, "pace")
  /\ UNCHANGED <<listVars, chainVars, gpu, seen>>

\* The slots the search of S stops at: its lowest one.
FirstOf(S) == {i \in S : \A j \in S : i <= j}

MutPace(t) ==
  /\ th[t].pc = "pace"
  /\ Alone(t, "claim")
  /\ \E i \in FirstOf(SlotsOf(th[t].s))
               \cup (IF SlotsOf(th[t].s) = {} THEN {env.slots} ELSE {}) :
       GoWith(t, IF SlotsOf(th[t].s) # {} THEN "clock" ELSE "claim", i)
  /\ UNCHANGED <<listVars, chainVars, gpu, seen>>

\* pace() up to the choice of the slot: the swapchain's own one, or else the
\* first free one.  Without either the present is not paced.
Pace(t) ==
  LET own == SlotsOf(th[t].s)
      free == SlotsOf(None)
  IN  /\ th[t].pc = "pace"
      /\ Alone(t, "claim")
      /\ \/ /\ env.interval <= 0 /\ ~env.debug
            /\ Go(t, "present")
         \/ /\ env.interval > 0 \/ env.debug
            /\ \E i \in FirstOf(own) : GoWith(t, "clock", i)
         \/ /\ env.interval > 0 \/ env.debug
            /\ own = {}
            /\ \E i \in FirstOf(free) : GoWith(t, "claim", i)
         \/ /\ env.interval > 0 \/ env.debug
            /\ own = {} /\ free = {}
            /\ Go(t, "present")
      /\ UNCHANGED <<listVars, chainVars, gpu, seen>>

\* seen[i].swapchain = key
Claim(t) ==
  /\ th[t].pc = "claim"
  /\ seen' = [seen EXCEPT ![th[t].slot].swapchain = th[t].s]
  /\ Go(t, "clock")
  /\ UNCHANGED <<listVars, chainVars, gpu>>

\* The clock is read.  A first present does not wait, and neither does one that
\* would sleep for a second or more: nanosleep rejects it.
Clock(t) ==
  LET waited == seen[th[t].slot].last
      left == env.interval - waited
      sleeps == waited # Never /\ left > 0 /\ left < Second
  IN  /\ th[t].pc = "clock"
      /\ th' = [th EXCEPT ![t].pc = IF sleeps THEN "sleep" ELSE "store",
                          ![t].age = IF sleeps THEN left ELSE 0]
      /\ UNCHANGED <<listVars, chainVars, gpu, seen>>

\* nanosleep returns and the clock is read again.
Wake(t) ==
  /\ th[t].pc = "sleep"
  /\ th[t].age = 0
  /\ Go(t, "store")
  /\ UNCHANGED <<listVars, chainVars, gpu, seen>>

MutInterrupt(t) ==
  /\ "signal" \in faults
  /\ th[t].pc = "sleep"
  /\ th' = [th EXCEPT ![t].age = env.interval]
  /\ UNCHANGED <<listVars, chainVars, gpu, seen>>

\* A signal ends nanosleep, which is not resumed.
Interrupt(t) ==
  /\ "signal" \in faults
  /\ th[t].pc = "sleep"
  /\ th[t].age > 0
  /\ th' = [th EXCEPT ![t].pc = "store", ![t].age = 0]
  /\ UNCHANGED <<listVars, chainVars, gpu, seen>>

MutStore(t) ==
  /\ th[t].pc = "store"
  /\ seen' = [seen EXCEPT ![th[t].slot].last = IF @ = Never THEN 0 ELSE Cap,
                          ![th[t].slot].by = th[t].s]
  /\ Go(t, "present")
  /\ UNCHANGED <<listVars, chainVars, gpu>>

\* seen[i].last = now
Store(t) ==
  /\ th[t].pc = "store"
  /\ seen' = [seen EXCEPT ![th[t].slot].last = th[t].age,
                          ![th[t].slot].by = th[t].s]
  /\ Go(t, "present")
  /\ UNCHANGED <<listVars, chainVars, gpu>>

Presented(t) == {th[t].s} \cup th[t].rest

\* data->present: the compositor has the frame.
HandOver(t) ==
  /\ th[t].pc = "present"
  /\ shown' = [s \in Swapchains |-> IF s \in Presented(t) THEN 0
                                    ELSE shown[s]]
  /\ th' = [th EXCEPT ![t] = NoCall("idle")]
  /\ UNCHANGED <<listVars, owner, gpu, seen>>

-----------------------------------------------------------------------------
(***************************************************************************)
(* GPU and clock                                                           *)
(***************************************************************************)
\* External: the frame is drawn.
GpuDone(t) ==
  /\ gpu[t] # "idle"
  /\ gpu' = [gpu EXCEPT ![t] = "idle"]
  /\ UNCHANGED <<listVars, th, chainVars, seen>>

Older(a) == IF a \in {Never, Cap} THEN a ELSE a + 1

\* External: time passes, also between a turn and its present if a thread may
\* be preempted there.
Tick ==
  /\ (\E t \in Threads : th[t].pc \in {"store", "present"})
       => "preempt" \in faults
  /\ seen' = [i \in 1 .. env.slots |-> [seen[i] EXCEPT !.last = Older(@)]]
  /\ shown' = [s \in Swapchains |-> Older(shown[s])]
  /\ th' = [t \in Threads |->
       CASE th[t].pc = "sleep" /\ th[t].age > 0 -> [th[t] EXCEPT !.age = @ - 1]
         [] th[t].pc = "store" -> [th[t] EXCEPT !.age = Older(@)]
         [] OTHER -> th[t]]
  /\ UNCHANGED <<listVars, owner, gpu>>

-----------------------------------------------------------------------------
PresentStep(t) ==
  \/ QueuePresent(t) \/ WaitIdle(t) \/ Pace(t) \/ Claim(t) \/ Clock(t)
  \/ Wake(t) \/ Store(t) \/ HandOver(t)

Application(t) ==
  \/ CreateDevice(t) \/ OutOfMemory(t) \/ LinkDevice(t) \/ DestroyDevice(t)
  \/ \E s \in Swapchains :
       CreateSwapchain(t, s) \/ DestroySwapchain(t, s) \/ Present(t, s)

Next ==
  /\ ~crashed
  /\ \/ \E t \in Threads :
          Application(t) \/ PresentStep(t) \/ Interrupt(t) \/ GpuDone(t)
     \/ Tick
  /\ UNCHANGED <<env, faults>>

\* Threads in a call run, the GPU finishes its frames, and time passes however
\* often frames are presented; nobody has to present anything.
Fairness ==
  /\ \A t \in Threads :
       /\ WF_vars(~crashed /\ PresentStep(t) /\ UNCHANGED <<env, faults>>)
       /\ WF_vars(~crashed /\ GpuDone(t) /\ UNCHANGED <<env, faults>>)
  /\ SF_vars(~crashed /\ Tick /\ UNCHANGED <<env, faults>>)

Spec == Init /\ [][Next]_vars /\ Fairness

-----------------------------------------------------------------------------
(***************************************************************************)
(* Properties                                                              *)
(***************************************************************************)
Without(F) == faults \cap F = {}

HandsOver(t) == th[t].pc = "present" /\ th'[t].pc = "idle"

\* "The buffer is complete before anyone else can look at it": a frame that
\* reaches the compositor through queue_present has been drawn, unless
\* MALI_PRESENT_NO_WAIT asks otherwise.  Only the presenting queue is idled,
\* and an error of the wait is ignored.
FrameComplete ==
  [][ \A t \in Threads :
        HandsOver(t) /\ env.sync /\ ~env.no_wait /\ Without({"queue", "lost"})
          => gpu[t] = "idle" ]_vars

\* "Hold each present until a refresh has actually passed": two presents of one
\* swapchain in the table are an interval apart, however many swapchains other
\* threads present, create and destroy meanwhile.  Not so when the interval is
\* a second or more (nanosleep rejects the wait), when a signal or preemption
\* comes in between, for all but the first swapchain of a call, and when
\* threads race for a slot.  Swapchains that found the table full are not paced.
PacedApart ==
  [][ \A t \in Threads :
        ( /\ HandsOver(t) /\ env.sync /\ env.interval < Second
          /\ Without({"race", "signal", "preempt", "several"})
          /\ SlotsOf(th[t].s) # {} )
          => shown[th[t].s] = Never \/ shown[th[t].s] >= env.interval ]_vars

\* "Paced per swapchain: a window that is presenting must not have its turn
\* consumed by another one": no handle ever has two slots, and the turn that a
\* slot holds was never that of another window that is still there, while the
\* threads of several windows sleep in pace() at once and the table fills up.
\* Threads that look for a free slot at the same time get the same one
\* ("race"), and since the table forgets nothing, a swapchain that is given the
\* handle of a destroyed one inherits its turn ("reuse").
TurnIsOwn ==
  \A i \in 1 .. env.slots :
    LET s == seen[i].swapchain
    IN  s # None =>
          /\ SlotsOf(s) = {i}
          /\ \/ "race" \in faults
             \/ seen[i].last = Never
             \/ seen[i].by = s
             \/ seen[i].by = None /\ (owner[s] = None \/ "reuse" \in faults)

\* Every present reaches the compositor: its device is found, and the wait for
\* the GPU and the sleep of pace() end, whatever signals arrive and other
\* threads do.  A device that was lost from the list in a race is not found.
PresentArrives ==
  \A t \in Threads :
    th[t].pc = "call" ~> \/ th[t].pc = "present"
                         \/ "race" \in faults /\ (th[t].pc = "idle" \/ crashed)
=============================================================================
