-------------------------- MODULE InputModeProofs --------------------------
(***************************************************************************)
(* Proofs about InputMode, for any number of toggles and of changes of the *)
(* cover.                                                                  *)
(***************************************************************************)
EXTENDS InputMode, TLAPS

CommandPC == {"none", "lock", "replace", "ready", "ui", "success", "failure"}
DaemonPC == {"start", "apply", "command", "subscribe", "wait", "asleep",
            "broken"}

TypeInv ==
  /\ tablet \in Modes
  /\ tile \in Modes
  /\ ui \in Modes
  /\ dirty \in BOOLEAN
  /\ owed \in BOOLEAN
  /\ cmd \in [Cmds -> [pc : CommandPC, mode : Modes]]
  /\ daemon \in [pc : DaemonPC, loop : BOOLEAN]

\* The lock is held by the one command that is past flock.
LockInv ==
  \A c \in Cmds : cmd[c].pc \in {"replace", "ready", "ui"} <=> lock = c

\* The input method of a command that has put it in place.
InPlace(c) ==
  cmd[c].pc = "ui" \/ (cmd[c].pc = "ready" /\ cmd[c].mode = "hardware")
    => im = ImOf(cmd[c].mode)

\* What the setting is, or will be when the tile has written.
Shown == IF dirty THEN tile ELSE ui

\* No command has anything left to do but the daemon's, which has not begun.
Untouched ==
  /\ \A c \in Toggles : ~Running(c)
  /\ cmd[AutoCmd].pc \notin {"ready", "ui"}

\* The input method follows the command that holds the lock; once nothing is
\* left to do it is the one the setting names, if the last switch was done.
UiInv ==
  /\ \A c \in Cmds : InPlace(c)
  /\ outcome = "done" /\ Untouched => im = ImOf(Shown)

\* The daemon waits exactly while its command exists.
WaitInv == daemon.pc = "command" <=> cmd[AutoCmd].pc # "none"

\* What the daemon switched to last is the mode of the cover, unless it owes a
\* switch.
OwedInv ==
  Without({"crash", "program", "bus"}) =>
    /\ \A c \in Cmds : cmd[c].pc # "failure"
    /\ daemon.pc # "broken"
    /\ owed \/ IF daemon.pc = "command" THEN cmd[AutoCmd].mode = tablet
               ELSE daemon.pc # "start" /\ last_mode = tablet

InputInv == TypeInv /\ WaitInv /\ LockInv /\ UiInv /\ OwedInv

-----------------------------------------------------------------------------
\* apply_mode returns at once or starts a command.
Returns == daemon' = Return /\ UNCHANGED <<cmd, owed>>
Starts(m) ==
  /\ cmd' = [cmd EXCEPT ![AutoCmd] = [pc |-> "lock", mode |-> m]]
  /\ daemon' = [daemon EXCEPT !.pc = "command"]
  /\ owed' = FALSE

LEMMA ApplyDoes ==
  ASSUME ApplyMode
  PROVE  /\ daemon.pc = "apply"
         /\ UNCHANGED <<tablet, tileVars, last_mode, im, ui, outcome, lock>>
         /\ \/ Returns /\ \E m \in NextModes : SameMode(m)
            \/ \E m \in NextModes : Starts(m)
BY DEF ApplyMode, Returns, Starts

\* The variables keep their types.
LEMMA TypeStep == TypeInv /\ [Next]_vars => TypeInv'
<1> SUFFICES ASSUME TypeInv, [Next]_vars PROVE TypeInv'
  OBVIOUS
<1> USE InputModeAssumption DEF TypeInv, Cmds, Modes, CommandPC, DaemonPC
<1>1. ASSUME NEW c \in Cmds, Command(c) PROVE TypeInv'
  BY <1>1 DEF Command, Acquire, LockTimeout, Replace, Ready, CommandFails, SetUiState,
     Step, kwinVars, tileVars, daemonVars, modeVars
<1>2. CASE DaemonStep
  <2>1. CASE DaemonStart
    BY <2>1 DEF DaemonStart, kwinVars, tileVars, modeVars
  <2>2. CASE ApplyMode
    <3>1. CASE Returns
      BY <2>2, <3>1, ApplyDoes DEF Returns, Return, tileVars
    <3>2. ASSUME NEW m \in NextModes, Starts(m) PROVE TypeInv'
      BY <2>2, <3>2, ApplyDoes DEF Starts, NextModes, tileVars
    <3> QED
      BY <2>2, <3>1, <3>2, ApplyDoes
  <2>3. CASE Applied
    BY <2>3 DEF Applied, Return, NoCommand, kwinVars, tileVars
  <2>4. CASE ApplyFailed
    BY <2>4 DEF ApplyFailed, ShellEnds, NoCommand, kwinVars, tileVars, modeVars
  <2>5. CASE Subscribe
    BY <2>5 DEF Subscribe, kwinVars, tileVars, modeVars
  <2>6. CASE ReadEvent
    BY <2>6 DEF ReadEvent, kwinVars, tileVars, modeVars
  <2>7. CASE DockFails
    BY <2>7 DEF DockFails, ShellEnds, kwinVars, tileVars, modeVars
  <2> QED
    BY <1>2, <2>1, <2>2, <2>3, <2>4, <2>5, <2>6, <2>7 DEF DaemonStep
<1>3. CASE Crash
  BY <1>3 DEF Crash, NoCommand, kwinVars, tileVars, modeVars
<1>4. CASE TabletModeChanged
  BY <1>4 DEF TabletModeChanged, tileVars, modeVars
<1>5. ASSUME NEW c \in Toggles, Toggle(c) PROVE TypeInv'
  BY <1>5 DEF Toggle, daemonVars, modeVars
<1>6. CASE SwitchGuard
  BY <1>6 DEF SwitchGuard, kwinVars, daemonVars, modeVars
<1>7. CASE SettingsSync
  BY <1>7 DEF SettingsSync, kwinVars, daemonVars
<1>8. CASE UNCHANGED vars
  BY <1>8 DEF vars, sysVars, kwinVars, tileVars, daemonVars, modeVars
<1> QED
  BY <1>1, <1>2, <1>3, <1>4, <1>5, <1>6, <1>7, <1>8 DEF Next

\* Commands exclude each other.
LEMMA LockStep ==
  ASSUME TypeInv, LockInv, WaitInv, [Next]_vars
  PROVE  LockInv'
<1> USE InputModeAssumption DEF TypeInv, LockInv, WaitInv, Cmds, CommandPC
<1>1. ASSUME NEW c \in Cmds, Command(c) PROVE LockInv'
  BY <1>1 DEF Command, Acquire, LockTimeout, Replace, Ready, CommandFails, SetUiState,
     Step
<1>2. CASE DaemonStep
  <2>1. CASE DaemonStart
    BY <2>1 DEF DaemonStart
  <2>2. CASE ApplyMode
    <3>1. CASE Returns
      BY <2>2, <3>1, ApplyDoes DEF Returns, Return, tileVars
    <3>2. ASSUME NEW m \in NextModes, Starts(m) PROVE LockInv'
      BY <2>2, <3>2, ApplyDoes DEF Starts, NextModes, tileVars
    <3> QED
      BY <2>2, <3>1, <3>2, ApplyDoes
  <2>3. CASE Applied
    BY <2>3 DEF Applied, NoCommand
  <2>4. CASE ApplyFailed
    BY <2>4 DEF ApplyFailed, NoCommand
  <2>5. CASE Subscribe
    BY <2>5 DEF Subscribe
  <2>6. CASE ReadEvent
    BY <2>6 DEF ReadEvent
  <2>7. CASE DockFails
    BY <2>7 DEF DockFails, ShellEnds
  <2> QED
    BY <1>2, <2>1, <2>2, <2>3, <2>4, <2>5, <2>6, <2>7 DEF DaemonStep
<1>3. CASE Crash
  BY <1>3 DEF Crash, NoCommand
<1>4. CASE TabletModeChanged
  BY <1>4 DEF TabletModeChanged
<1>5. ASSUME NEW c \in Toggles, Toggle(c) PROVE LockInv'
  BY <1>5 DEF Toggle
<1>6. CASE SwitchGuard \/ SettingsSync \/ UNCHANGED vars
  BY <1>6 DEF SwitchGuard, SettingsSync, vars, sysVars
<1> QED
  BY <1>1, <1>2, <1>3, <1>4, <1>5, <1>6 DEF Next

\* The daemon waits for the command it started.
LEMMA WaitStep ==
  ASSUME TypeInv, WaitInv, [Next]_vars
  PROVE  WaitInv'
<1> USE InputModeAssumption DEF TypeInv, WaitInv, Cmds, CommandPC, DaemonPC
<1>1. ASSUME NEW c \in Cmds, Command(c) PROVE WaitInv'
  BY <1>1 DEF Command, Acquire, LockTimeout, Replace, Ready, CommandFails, SetUiState,
     Step, daemonVars
<1>2. CASE DaemonStep
  <2>1. CASE DaemonStart
    BY <2>1 DEF DaemonStart
  <2>2. CASE ApplyMode
    <3>1. CASE Returns
      BY <2>2, <3>1, ApplyDoes DEF Returns, Return, tileVars
    <3>2. ASSUME NEW m \in NextModes, Starts(m) PROVE WaitInv'
      BY <2>2, <3>2, ApplyDoes DEF Starts, NextModes, tileVars
    <3> QED
      BY <2>2, <3>1, <3>2, ApplyDoes
  <2>3. CASE Applied
    BY <2>3 DEF Applied, NoCommand, Return
  <2>4. CASE ApplyFailed
    BY <2>4 DEF ApplyFailed, ShellEnds, NoCommand
  <2>5. CASE Subscribe
    BY <2>5 DEF Subscribe
  <2>6. CASE ReadEvent
    BY <2>6 DEF ReadEvent
  <2>7. CASE DockFails
    BY <2>7 DEF DockFails, ShellEnds
  <2> QED
    BY <1>2, <2>1, <2>2, <2>3, <2>4, <2>5, <2>6, <2>7 DEF DaemonStep
<1>3. CASE Crash
  BY <1>3 DEF Crash, NoCommand
<1>4. CASE TabletModeChanged
  BY <1>4 DEF TabletModeChanged
<1>5. ASSUME NEW c \in Toggles, Toggle(c) PROVE WaitInv'
  BY <1>5 DEF Toggle, daemonVars
<1>6. CASE SwitchGuard \/ SettingsSync \/ UNCHANGED vars
  BY <1>6 DEF SwitchGuard, SettingsSync, daemonVars, vars, sysVars
<1> QED
  BY <1>1, <1>2, <1>3, <1>4, <1>5, <1>6 DEF Next

\* The tile, the setting and the input method: a switch that is done leaves its
\* mode in both, and the tile's write cannot change it.
LEMMA UiStep ==
  ASSUME TypeInv, LockInv, WaitInv, UiInv, [Next]_vars
  PROVE  UiInv'
<1> USE InputModeAssumption DEF TypeInv, LockInv, WaitInv, UiInv, Cmds, CommandPC, DaemonPC,
    Modes, Running, Untouched, Shown, InPlace, ImOf
<1>1. ASSUME NEW c \in Cmds, Command(c) PROVE UiInv'
  <2>1. CASE Acquire(c)
    BY <2>1 DEF Acquire, Step, tileVars, modeVars
  <2>2. CASE LockTimeout(c)
    BY <2>2 DEF LockTimeout, Step, tileVars
  <2>3. CASE Replace(c)
    BY <2>3 DEF Replace, Step, tileVars
  <2>4. CASE Ready(c)
    BY <2>4 DEF Ready, Step, tileVars
  <2>5. CASE CommandFails(c)
    BY <2>5 DEF CommandFails, Step, tileVars
  <2>6. CASE SetUiState(c)
    BY <2>6 DEF SetUiState, Step, tileVars
  <2> QED
    BY <1>1, <2>1, <2>2, <2>3, <2>4, <2>5, <2>6 DEF Command
<1>2. CASE DaemonStep
  <2>1. CASE DaemonStart
    BY <2>1 DEF DaemonStart, tileVars, modeVars
  <2>2. CASE ApplyMode
    <3>1. CASE Returns
      BY <2>2, <3>1, ApplyDoes DEF Returns, Return, tileVars
    <3>2. ASSUME NEW m \in NextModes, Starts(m) PROVE UiInv'
      BY <2>2, <3>2, ApplyDoes DEF Starts, NextModes, tileVars
    <3> QED
      BY <2>2, <3>1, <3>2, ApplyDoes
  <2>3. CASE Applied
    BY <2>3 DEF Applied, NoCommand, tileVars
  <2>4. CASE ApplyFailed
    BY <2>4 DEF ApplyFailed, NoCommand, tileVars, modeVars
  <2>5. CASE Subscribe
    BY <2>5 DEF Subscribe, tileVars, modeVars
  <2>6. CASE ReadEvent
    BY <2>6 DEF ReadEvent, tileVars, modeVars
  <2>7. CASE DockFails
    BY <2>7 DEF DockFails, tileVars, modeVars
  <2> QED
    BY <1>2, <2>1, <2>2, <2>3, <2>4, <2>5, <2>6, <2>7 DEF DaemonStep
<1>3. CASE Crash
  BY <1>3 DEF Crash, NoCommand, tileVars
<1>4. CASE TabletModeChanged
  BY <1>4 DEF TabletModeChanged, tileVars, modeVars
<1>5. ASSUME NEW c \in Toggles, Toggle(c) PROVE UiInv'
  BY <1>5 DEF Toggle, modeVars
<1>6. CASE SwitchGuard
  BY <1>6 DEF SwitchGuard, modeVars
<1>7. CASE SettingsSync
  BY <1>7 DEF SettingsSync
<1>8. CASE UNCHANGED vars
  BY <1>8 DEF vars, sysVars, tileVars, modeVars
<1> QED
  BY <1>1, <1>2, <1>3, <1>4, <1>5, <1>6, <1>7, <1>8 DEF Next

\* The daemon and its command: it waits for the command it started and knows
\* the mode it switched to.
LEMMA OwedStep ==
  ASSUME TypeInv, WaitInv, OwedInv, [Next]_vars
  PROVE  OwedInv'
<1> SUFFICES ASSUME Without({"crash", "program", "bus"})
             PROVE  OwedInv'
  BY DEF OwedInv, Next, vars, Without
<1> USE InputModeAssumption DEF TypeInv, WaitInv, OwedInv, Cmds, CommandPC, DaemonPC,
    Modes
<1>q. "crash" \notin faults /\ "program" \notin faults /\ NextModes = {tablet}
  BY DEF Without, NextModes
<1>1. ASSUME NEW c \in Cmds, Command(c) PROVE OwedInv'
  <2>1. CASE CommandFails(c)
    BY <2>1, <1>q DEF CommandFails
  <2>2. CASE ~CommandFails(c)
    BY <1>1, <2>2 DEF Command, Acquire, LockTimeout, Replace, Ready, SetUiState, Step,
       kwinVars, daemonVars
  <2> QED
    BY <2>1, <2>2
<1>2. CASE DaemonStep
  <2>1. CASE DaemonStart
    BY <2>1, <1>q DEF DaemonStart, Without, kwinVars
  <2>2. CASE ApplyMode
    <3>1. CASE Returns /\ SameMode(tablet)
      BY <2>2, <3>1, ApplyDoes DEF Returns, Return, SameMode
    <3>2. CASE Starts(tablet)
      BY <2>2, <3>2, ApplyDoes DEF Starts
    <3> QED
      BY <2>2, <3>1, <3>2, <1>q, ApplyDoes
  <2>3. CASE Applied
    BY <2>3 DEF Applied, NoCommand, Return, kwinVars
  <2>4. CASE ApplyFailed
    BY <2>4, <1>q DEF ApplyFailed
  <2>5. CASE Subscribe
    BY <2>5 DEF Subscribe, kwinVars
  <2>6. CASE ReadEvent
    BY <2>6 DEF ReadEvent, kwinVars
  <2>7. CASE DockFails
    BY <2>7, <1>q DEF DockFails
  <2> QED
    BY <1>2, <2>1, <2>2, <2>3, <2>4, <2>5, <2>6, <2>7 DEF DaemonStep
<1>3. CASE Crash
  BY <1>3, <1>q DEF Crash
<1>4. CASE TabletModeChanged
  BY <1>4 DEF TabletModeChanged
<1>5. ASSUME NEW c \in Toggles, Toggle(c) PROVE OwedInv'
  BY <1>5 DEF Toggle, daemonVars
<1>6. CASE SwitchGuard
  BY <1>6 DEF SwitchGuard, kwinVars, daemonVars
<1>7. CASE SettingsSync
  BY <1>7 DEF SettingsSync, kwinVars, daemonVars
<1>8. CASE UNCHANGED vars
  BY <1>8 DEF vars, sysVars, kwinVars, daemonVars
<1> QED
  BY <1>1, <1>2, <1>3, <1>4, <1>5, <1>6, <1>7, <1>8 DEF Next

-----------------------------------------------------------------------------
\* The invariant holds at first.
LEMMA InputInit == Init => InputInv
<1> SUFFICES ASSUME Init PROVE InputInv
  OBVIOUS
<1> USE InputModeAssumption DEF Init, NoCommand, Cmds, Modes
<1>1. TypeInv
  BY DEF TypeInv, CommandPC, DaemonPC
<1>2. LockInv /\ WaitInv
  BY DEF LockInv, WaitInv
<1>3. UiInv
  BY DEF UiInv, InPlace, Untouched, Shown, Running, ImOf
<1>4. OwedInv
  BY DEF OwedInv
<1> QED
  BY <1>1, <1>2, <1>3, <1>4 DEF InputInv

\* The invariant always holds.
LEMMA InputAlways == Spec => []InputInv
<1>1. InputInv /\ [Next]_vars => InputInv'
  BY TypeStep, WaitStep, LockStep, UiStep, OwedStep DEF InputInv
<1> QED
  BY InputInit, <1>1, PTL DEF Spec

\* When no command runs and the tile has written its setting, the setting names
\* the input method KWin runs, if the last switch was done: for any number of
\* toggles and of changes of the cover, and under every fault.
THEOREM UiAlwaysAgrees == Spec => []UiAgrees
<1>1. InputInv => UiAgrees
  BY InputModeAssumption
     DEF InputInv, UiInv, UiAgrees, Untouched, Shown, Idle, Running, Cmds
<1> QED
  BY InputAlways, <1>1, PTL

\* The daemon starts a command only after a change of the cover or the start of
\* the system: for any number of toggles and of changes, unless it is killed, a
\* program fails or the mode cannot be read.
THEOREM ManualAlwaysKept == Spec => ManualKept
<1>1. InputInv /\ [Next]_vars =>
        [(Without({"crash", "program", "bus"}) /\ cmd[AutoCmd].pc = "none"
           /\ cmd'[AutoCmd].pc = "lock") => owed]_vars
  <2> SUFFICES ASSUME InputInv, Next, Without({"crash", "program", "bus"}),
                      cmd[AutoCmd].pc = "none", cmd'[AutoCmd].pc = "lock"
               PROVE  owed
    OBVIOUS
  <2> USE InputModeAssumption DEF InputInv, TypeInv, Cmds, CommandPC
  <2>1. ASSUME NEW c \in Cmds, Command(c) PROVE FALSE
    BY <2>1 DEF Command, Acquire, LockTimeout, Replace, Ready, CommandFails, SetUiState,
       Step
  <2>2. CASE ApplyMode
    <3>1. NextModes = {tablet}
      BY DEF NextModes, Without
    <3> QED
      BY <2>2, <3>1 DEF ApplyMode, SameMode, OwedInv
  <2>3. ~(\/ DaemonStart \/ Applied \/ ApplyFailed \/ Subscribe \/ ReadEvent
          \/ DockFails)
    BY DEF DaemonStart, Applied, ApplyFailed, Subscribe, ReadEvent, DockFails,
       NoCommand
  <2>4. ~Crash
    BY DEF Crash, NoCommand
  <2>6. ~(TabletModeChanged \/ SwitchGuard \/ SettingsSync)
    BY DEF TabletModeChanged, SwitchGuard, SettingsSync
  <2>5. ASSUME NEW c \in Toggles, Toggle(c) PROVE FALSE
    BY <2>5 DEF Toggle
  <2> QED
    BY <2>1, <2>2, <2>3, <2>4, <2>5, <2>6 DEF Next, DaemonStep
<1> QED
  BY InputAlways, <1>1, PTL DEF Spec, ManualKept
=============================================================================
