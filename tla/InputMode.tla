----------------------------- MODULE InputMode -----------------------------
(***************************************************************************)
(* The switch between touch and hardware keyboard input of Plasma Mobile:  *)
(* the command plasma-input-mode, the daemon plasma-input-mode-auto with   *)
(* its systemd service, and the tile inputmode-main.qml                    *)
(* (plasma-mobile/input-mode).                                             *)
(*                                                                         *)
(* Contexts.  The daemon, which waits for a command it started; commands   *)
(* of the tile, which nobody waits for; KWin, which announces changes of   *)
(* its tablet mode.  Commands exclude each other with a file lock.         *)
(***************************************************************************)
EXTENDS Naturals, FiniteSets

CONSTANTS
  Toggles,     \* commands the tile starts, one for each toggle
  AutoCmd,     \* the command of the daemon
  NoCmd,       \* nobody holds the lock
  MaxChanges,  \* bound: changes of the tablet mode
  FaultSets    \* sets of FaultKinds: each behaviour suffers the faults of one

(***************************************************************************)
(* "subscribe"  KWin changes its mode after the daemon read it and before  *)
(*              gdbus monitor has subscribed                               *)
(* "bounce"     KWin changes its mode and back before the daemon reads it  *)
(* "bus"        busctl cannot read a property of KWin, or KWin reports no  *)
(*              tablet switch                                              *)
(* "slow"       a command waits more than 5 s for the lock                 *)
(* "program"    a program that a script calls fails: ibus has no Hangul    *)
(*              engine after 15 attempts, KWin is not on the bus, ...      *)
(* "crash"      systemd kills the daemon and the command it runs, once     *)
(***************************************************************************)
FaultKinds == {"subscribe", "bounce", "bus", "slow", "program", "crash"}

ASSUME InputModeAssumption ==
  /\ AutoCmd \notin Toggles /\ NoCmd \notin Toggles \cup {AutoCmd}
  /\ MaxChanges \in Nat
  /\ FaultSets \subseteq SUBSET FaultKinds

Cmds == Toggles \cup {AutoCmd}
Modes == {"touch", "hardware"}

VARIABLES
  tablet,     \* KWin's tabletMode, as the mode it calls for
  changes,    \* how often it changed
  im,         \* KWin's input method: plasma, ibus or none
  ui,         \* hardwareMode in plasmashell.conf, as a mode
  docked,     \* convergenceModeEnabled
  outcome,    \* how the last switch ended: it was "done", it "failed" on
              \* the way, or done but "overtaken" by the tile, which had
              \* stored the other mode and not yet written it
  lock,       \* the command that holds the lock
  cmd,        \* step and mode of each command
  daemon,     \* step of plasma-input-mode-auto, and where it returns to
  last_mode,  \* its last_mode
  crashed,    \* it was killed
  events,     \* lines of gdbus monitor it has not read
  tile,       \* settings.hardwareMode of the tile, as a mode
  dirty,      \* the tile has not written it
  switching,  \* the tile ignores clicks
  owed,       \* the tablet mode changed, or the system came up, since the
              \* daemon last switched
  manual,     \* the user has chosen since the tablet mode changed, or a
              \* toggle's command still waited for the lock then
  faults      \* what may go wrong in this behaviour, chosen once

kwinVars == <<tablet, changes, owed, manual>>
tileVars == <<tile, dirty, switching>>
daemonVars == <<daemon, last_mode, events, crashed>>
modeVars == <<im, ui, docked, outcome>>
sysVars == <<kwinVars, tileVars, daemonVars, modeVars, lock, cmd>>
vars == <<sysVars, faults>>

\* The input method of a mode.
ImOf(m) == IF m = "touch" THEN "plasma" ELSE "ibus"

NoCommand == [pc |-> "none", mode |-> "touch"]

Init ==
  /\ faults \in FaultSets
  /\ tablet \in Modes
  /\ changes = 0
  /\ im \in {"plasma", "ibus", "none"}
  /\ ui \in Modes
  /\ outcome = IF im = ImOf(ui) THEN "done" ELSE "failed"
  /\ docked \in BOOLEAN
  /\ lock = NoCmd
  /\ cmd = [c \in Cmds |-> NoCommand]
  /\ daemon = [pc |-> "start", loop |-> FALSE]
  /\ last_mode = "none"
  /\ events = 0
  /\ crashed = FALSE
  /\ tile = ui
  /\ dirty = FALSE
  /\ switching = FALSE
  /\ owed = TRUE
  /\ manual = FALSE

-----------------------------------------------------------------------------
(***************************************************************************)
(* plasma-input-mode.  The lock is released when the command exits.        *)
(***************************************************************************)
Step(c, pc) == cmd' = [cmd EXCEPT ![c].pc = pc]

\* flock succeeds.
Acquire(c) ==
  /\ cmd[c].pc = "lock"
  /\ lock = NoCmd
  /\ lock' = c
  /\ Step(c, "replace")
  /\ UNCHANGED <<kwinVars, tileVars, daemonVars, modeVars>>

\* flock -w 5 gives up: the command exits with success.  What the tile has
\* stored is then not switched to.
LockTimeout(c) ==
  /\ "slow" \in faults
  /\ cmd[c].pc = "lock"
  /\ lock # NoCmd
  /\ Step(c, "success")
  /\ outcome' = IF c \in Toggles THEN "failed" ELSE outcome
  /\ UNCHANGED <<kwinVars, tileVars, daemonVars, im, ui, docked, lock>>

\* start_plasma_keyboard up to the first set-property, start_ibus_hangul up to
\* "ibus start".
Replace(c) ==
  /\ cmd[c].pc = "replace"
  /\ im' = IF cmd[c].mode = "touch" THEN "none" ELSE "ibus"
  /\ Step(c, "ready")
  /\ UNCHANGED <<kwinVars, tileVars, daemonVars, ui, docked, outcome, lock>>

\* The second set-property, or the loop of "ibus engine hangul".
Ready(c) ==
  /\ cmd[c].pc = "ready"
  /\ im' = IF cmd[c].mode = "touch" THEN "plasma" ELSE im
  /\ Step(c, "ui")
  /\ UNCHANGED <<kwinVars, tileVars, daemonVars, ui, docked, outcome, lock>>

\* A program fails and set -e, or "return 1", ends the command where it is.
\* The daemon's command has touched nothing before it replaces the input method.
CommandFails(c) ==
  /\ "program" \in faults
  /\ cmd[c].pc \in {"replace", "ready", "ui"}
  /\ Step(c, "failure")
  /\ lock' = NoCmd
  /\ outcome' = IF c = AutoCmd /\ cmd[c].pc = "replace" THEN outcome ELSE "failed"
  /\ UNCHANGED <<kwinVars, tileVars, daemonVars, im, ui, docked>>

MutSetUiState(c) ==
  /\ cmd[c].pc = "ui"
  /\ outcome' = "done"
  /\ Step(c, "success")
  /\ lock' = NoCmd
  /\ UNCHANGED <<kwinVars, tileVars, daemonVars, im, ui, docked>>

\* set_ui_state, and the exit.  Nothing makes it wait for the tile, which may
\* have stored another mode in the meantime and write it later.
SetUiState(c) ==
  /\ cmd[c].pc = "ui"
  /\ ui' = cmd[c].mode
  /\ outcome' = IF dirty /\ tile # cmd[c].mode THEN "overtaken" ELSE "done"
  /\ Step(c, "success")
  /\ lock' = NoCmd
  /\ UNCHANGED <<kwinVars, tileVars, daemonVars, im, docked>>

Command(c) ==
  \/ Acquire(c) \/ LockTimeout(c) \/ Replace(c) \/ Ready(c)
  \/ CommandFails(c) \/ SetUiState(c)

-----------------------------------------------------------------------------
(***************************************************************************)
(* plasma-input-mode-auto.                                                 *)
(***************************************************************************)
\* The service is started: last_mode is empty.  If tabletModeAvailable does not
\* read "true", also because KWin does not answer yet, the daemon sleeps for good.
DaemonStart ==
  /\ daemon.pc = "start"
  /\ \E pc \in {"apply"} \cup (IF "bus" \in faults THEN {"asleep"} ELSE {}) :
       daemon' = [pc |-> pc, loop |-> FALSE]
  /\ last_mode' = "none"
  /\ UNCHANGED <<kwinVars, tileVars, events, crashed, modeVars, lock, cmd>>

\* Where apply_mode returns to: the subscription at first, later the loop.
Return == [daemon EXCEPT !.pc = IF daemon.loop THEN "wait" ELSE "subscribe"]

\* set -e ends apply_mode's shell.  Before the pipeline that is the daemon,
\* which systemd restarts (Restart=always); in the pipeline it is the loop, and
\* the daemon goes on waiting for gdbus monitor, which ignores SIGPIPE and does
\* not end.
ShellEnds == IF daemon.loop THEN [daemon EXCEPT !.pc = "broken"]
             ELSE [pc |-> "start", loop |-> FALSE]

\* The mode apply_mode makes of tabletMode: what is not "true" is hardware, also
\* the empty answer of a busctl that failed.
NextModes == {tablet} \cup (IF "bus" \in faults THEN {"hardware"} ELSE {})

MutSameMode(m) == FALSE

\* [ "$next_mode" != "$last_mode" ] || return 0
SameMode(m) == m = last_mode

\* apply_mode up to the command.  The hardware mode docks before it.
ApplyMode ==
  /\ daemon.pc = "apply"
  /\ \E m \in NextModes :
       \/ /\ SameMode(m)
          /\ daemon' = Return
          /\ UNCHANGED <<docked, cmd, owed>>
       \/ /\ ~SameMode(m)
          /\ docked' = IF m = "hardware" THEN TRUE ELSE docked
          /\ cmd' = [cmd EXCEPT ![AutoCmd] = [pc |-> "lock", mode |-> m]]
          /\ daemon' = [daemon EXCEPT !.pc = "command"]
          /\ owed' = FALSE
  /\ UNCHANGED <<tablet, changes, manual, tileVars, last_mode, events, crashed, im, ui,
                 outcome, lock>>

\* set_docked_mode true fails.
DockFails ==
  /\ "program" \in faults
  /\ daemon.pc = "apply"
  /\ "hardware" \in NextModes /\ ~SameMode("hardware")
  /\ daemon' = ShellEnds
  /\ UNCHANGED <<kwinVars, tileVars, last_mode, events, crashed, modeVars, lock, cmd>>

MutApplied ==
  /\ daemon.pc = "command" /\ cmd[AutoCmd].pc = "success"
  /\ last_mode' = cmd[AutoCmd].mode
  /\ cmd' = [cmd EXCEPT ![AutoCmd] = NoCommand]
  /\ daemon' = Return
  /\ UNCHANGED <<kwinVars, tileVars, events, crashed, modeVars, lock>>

\* The command succeeded.  The touch mode undocks after it.
Applied ==
  /\ daemon.pc = "command" /\ cmd[AutoCmd].pc = "success"
  /\ docked' = IF cmd[AutoCmd].mode = "touch" THEN FALSE ELSE docked
  /\ last_mode' = cmd[AutoCmd].mode
  /\ cmd' = [cmd EXCEPT ![AutoCmd] = NoCommand]
  /\ daemon' = Return
  /\ UNCHANGED <<kwinVars, tileVars, events, crashed, im, ui, outcome, lock>>

\* The command failed, or set_docked_mode false after it.
ApplyFailed ==
  /\ daemon.pc = "command"
  /\ \/ cmd[AutoCmd].pc = "failure"
     \/ /\ "program" \in faults
        /\ cmd[AutoCmd].pc = "success" /\ cmd[AutoCmd].mode = "touch"
  /\ cmd' = [cmd EXCEPT ![AutoCmd] = NoCommand]
  /\ daemon' = ShellEnds
  /\ UNCHANGED <<kwinVars, tileVars, last_mode, events, crashed, modeVars, lock>>

\* gdbus monitor subscribes.
Subscribe ==
  /\ daemon.pc = "subscribe"
  /\ daemon' = [pc |-> "wait", loop |-> TRUE]
  /\ events' = 0
  /\ UNCHANGED <<kwinVars, tileVars, last_mode, crashed, modeVars, lock, cmd>>

\* The loop reads tabletModeChanged.
ReadEvent ==
  /\ daemon.pc = "wait"
  /\ events > 0
  /\ events' = events - 1
  /\ daemon' = [daemon EXCEPT !.pc = "apply"]
  /\ UNCHANGED <<kwinVars, tileVars, last_mode, crashed, modeVars, lock, cmd>>

\* The control group is killed, the command included, and restarted.
Crash ==
  /\ "crash" \in faults /\ ~crashed
  /\ daemon.pc # "start"
  /\ crashed' = TRUE
  /\ daemon' = [pc |-> "start", loop |-> FALSE]
  /\ cmd' = [cmd EXCEPT ![AutoCmd] = NoCommand]
  /\ lock' = IF lock = AutoCmd THEN NoCmd ELSE lock
  /\ outcome' = IF cmd[AutoCmd].pc \in {"ready", "ui"} THEN "failed" ELSE outcome
  /\ events' = 0
  /\ UNCHANGED <<kwinVars, tileVars, last_mode, im, ui, docked>>

DaemonStep ==
  \/ DaemonStart \/ ApplyMode \/ DockFails \/ Applied \/ ApplyFailed
  \/ Subscribe \/ ReadEvent

-----------------------------------------------------------------------------
(***************************************************************************)
(* KWin and the tile.                                                      *)
(***************************************************************************)
\* The daemon has read the mode and is not subscribed.
Deaf == daemon.pc \in {"command", "subscribe"} /\ ~daemon.loop

Running(c) == cmd[c].pc \notin {"none", "success", "failure"}

\* External: the cover is attached or detached.
TabletModeChanged ==
  /\ changes < MaxChanges
  /\ Deaf => "subscribe" \in faults
  /\ owed /\ daemon.loop => "bounce" \in faults
  /\ \E m \in Modes \ {tablet} : tablet' = m
  /\ changes' = changes + 1
  /\ owed' = TRUE
  /\ manual' = (\E c \in Toggles : cmd[c].pc = "lock")
  /\ events' = IF daemon.loop THEN events + 1 ELSE events
  /\ UNCHANGED <<tileVars, daemon, last_mode, crashed, modeVars, lock, cmd>>

\* toggle()
Toggle(c) ==
  /\ ~switching
  /\ cmd[c].pc = "none"
  /\ \E m \in Modes \ {tile} :
       /\ tile' = m
       /\ cmd' = [cmd EXCEPT ![c] = [pc |-> "lock", mode |-> m]]
  /\ dirty' = TRUE
  /\ switching' = TRUE
  /\ manual' = TRUE
  /\ UNCHANGED <<tablet, changes, owed, daemonVars, modeVars, lock>>

\* switchGuard after 3 s.
SwitchGuard ==
  /\ switching
  /\ switching' = FALSE
  /\ UNCHANGED <<kwinVars, tile, dirty, daemonVars, modeVars, lock, cmd>>

\* settings.sync() writes what the tile changed or reads what others wrote.
SettingsSync ==
  /\ dirty \/ tile # ui
  /\ ui' = IF dirty THEN tile ELSE ui
  /\ tile' = IF dirty THEN tile ELSE ui
  /\ dirty' = FALSE
  /\ UNCHANGED <<kwinVars, switching, daemonVars, im, docked, outcome, lock, cmd>>

-----------------------------------------------------------------------------
Next ==
  /\ \/ \E c \in Cmds : Command(c)
     \/ DaemonStep
     \/ Crash
     \/ TabletModeChanged
     \/ \E c \in Toggles : Toggle(c)
     \/ SwitchGuard
     \/ SettingsSync
  /\ UNCHANGED faults

\* Processes run and timers expire; neither the user nor the cover has to do
\* anything.
Fairness ==
  /\ \A c \in Cmds : WF_sysVars(Command(c) /\ UNCHANGED faults)
  /\ WF_sysVars(DaemonStep /\ UNCHANGED faults)
  /\ WF_sysVars(SwitchGuard /\ UNCHANGED faults)
  /\ WF_sysVars(SettingsSync /\ UNCHANGED faults)

Spec == Init /\ [][Next]_vars /\ Fairness

-----------------------------------------------------------------------------
(***************************************************************************)
(* Properties                                                              *)
(***************************************************************************)
Without(F) == faults \cap F = {}

Idle == \A c \in Cmds : ~Running(c)

\* When no command runs and the tile has written its setting, the mode the tile
\* shows is the input method KWin runs, whatever the daemon and the tile did
\* at the same time and whatever failed before: a switch that is done sets both
\* right.  Not so until the next switch after one that failed or was killed on
\* the way, after a toggle whose command gave up on the lock, and when a
\* command ended between a toggle to the other mode and the tile's write (the
\* write then hides what the command did).
UiAgrees ==
  Idle /\ ~dirty /\ outcome = "done" => im = ImOf(ui)

\* The daemon switches only because the tablet mode changed or the system came
\* up, so a selection of the user holds until the next change.  A daemon that is
\* restarted, killed or after a failure, forgets this, and one that cannot read
\* the mode takes it for a change.
ManualKept ==
  [][ (Without({"crash", "program", "bus"}) /\ cmd[AutoCmd].pc = "none"
         /\ cmd'[AutoCmd].pc = "lock") => owed ]_vars

\* In the end input method, docked mode and tile are those of the tablet mode,
\* unless the user has chosen since it changed or his command waited for the
\* lock together with the daemon's; a daemon that is killed in the middle of a
\* switch completes it after its restart.  Six things are excepted.  A change
\* between the first reading of the mode and the subscription is never noticed,
\* nor is one that was undone before the daemon read it; a mode that could not
\* be read counts as hardware, or ends automatic switching; a switch that failed
\* in the loop ends it too; a switch that gave up on the lock counts as done; and
\* the tile may write an older choice after the daemon's command.
FollowsTablet ==
  Without({"subscribe", "bounce", "bus", "program", "slow"}) =>
    <>[](manual \/ (/\ im = ImOf(tablet)
                    /\ docked = (tablet = "hardware")
                    /\ outcome # "overtaken" => ui = tablet))
=============================================================================
