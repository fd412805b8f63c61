----------------------------- MODULE Visualizer -----------------------------
(***************************************************************************)
(* The two threads of the live visualizer (PyViz, core.py).  The simulation  *)
(* thread waits for the event go and then runs the simulator up to            *)
(* target_time; the GUI thread runs the GTK main loop, in which a timer       *)
(* shows the state reached, sets the next target and gives the next go.       *)
(* Simulator state, target_time and pause_messages are shared under one lock  *)
(* that is not re-entrant.                                                    *)
(*                                                                          *)
(* While the simulator is busy, the timer's callback runs the GTK event loop  *)
(* inside itself, so that callbacks nest: gui is the stack of callbacks that  *)
(* have not returned, innermost first.  GLib does not call the callback of a  *)
(* source again before it has returned.                                       *)
(*                                                                          *)
(* Time is counted in the shortest sample period.                             *)
(***************************************************************************)
EXTENDS Naturals, Sequences

CONSTANTS
  Periods,      \* the sample periods that the speed setting may give
  MaxTime,      \* bound on the simulated time
  StopTime,     \* the time of the script's own Simulator::Stop, 0 if it has none
  MaxMessages,  \* bound on the calls of PyViz::Pause
  MaxUser,      \* bound on what the user does with play button, speed and mouse
  None          \* no source, no owner of the lock

ASSUME VisualizerAssumption ==
  /\ Periods \subseteq Nat \ {0} /\ Periods # {}
  /\ MaxTime \in Nat /\ StopTime \in Nat /\ MaxMessages \in Nat /\ MaxUser \in Nat
  /\ None \notin Nat

VARIABLES
  sim,                 \* where the simulation thread is
  locked,              \* the simulation thread holds the lock
  go, quit,
  target_time,
  now,                 \* the simulator's time
  m_pauseMessages,     \* messages of the current slice, kept by PyViz
  pause_messages,      \* messages for the view, kept by the thread object
  gui,                 \* the stack of callbacks
  playing,             \* play_button.get_active()
  timers,              \* the timer sources attached to the main loop
  update_timeout_id,
  sample_period,
  model_due,           \* an idle call of update_model is pending
  main_loop,           \* Gtk.main() has not been told to end
  done,                \* number of things the user has done
  shown,               \* observer: the time the view shows
  dialogs,             \* observer: the messages shown, in order
  raised               \* observer: number of calls of PyViz::Pause

simVars    == <<sim, locked, now, m_pauseMessages, raised>>
sharedVars == <<go, quit, target_time, pause_messages>>
timerVars  == <<timers, update_timeout_id>>
viewVars   == <<shown, dialogs>>
vars == <<simVars, sharedVars, timerVars, viewVars, gui, playing, sample_period,
          model_due, main_loop, done>>

\* Source ids are never those of a source that is attached, being called or
\* remembered; there is always one to spare.
Timer == 1 .. MaxUser + 3
InCall == {gui[i].timer : i \in DOMAIN gui}
Fresh  == CHOOSE t \in Timer : t \notin timers \cup InCall \cup {update_timeout_id}

\* The window is built, and building the speed control has started a timer.
Init ==
  /\ sim = "test"
  /\ locked = FALSE
  /\ go = FALSE /\ quit = FALSE
  /\ target_time = 0
  /\ now = 0
  /\ m_pauseMessages = <<>>
  /\ pause_messages = <<>>
  /\ gui = <<>>
  /\ playing = FALSE
  /\ timers = {1}
  /\ update_timeout_id = 1
  /\ sample_period \in Periods
  /\ model_due = FALSE
  /\ main_loop = TRUE
  /\ done = 0
  /\ shown = 0
  /\ dialogs = <<>>
  /\ raised = 0

-----------------------------------------------------------------------------
(* The simulation thread.                                                    *)

guiSide == <<sharedVars, timerVars, viewVars, gui, playing, sample_period,
             model_due, main_loop, done>>

\* while not self.quit
TestQuit ==
  /\ sim = "test"
  /\ sim' = IF quit THEN "ended" ELSE "wait"
  /\ UNCHANGED <<locked, now, m_pauseMessages, raised, guiSide>>

\* self.go.wait ()
WaitGo ==
  /\ sim = "wait" /\ go
  /\ sim' = "clear"
  /\ UNCHANGED <<locked, now, m_pauseMessages, raised, guiSide>>

\* self.go.clear ()
ClearGo ==
  /\ sim = "clear"
  /\ go' = FALSE
  /\ sim' = "check"
  /\ UNCHANGED <<locked, now, m_pauseMessages, raised, quit, target_time, pause_messages,
                 timerVars, viewVars, gui, playing, sample_period, model_due, main_loop, done>>

\* if self.quit: break
CheckQuit ==
  /\ sim = "check"
  /\ sim' = IF quit THEN "ended" ELSE "lock"
  /\ UNCHANGED <<locked, now, m_pauseMessages, raised, guiSide>>

\* Mutant of BeginSlice: the messages of the slice before are not cleared.
BeginUncleared ==
  /\ sim = "lock" /\ ~ locked
  /\ locked' = TRUE
  /\ sim' = "run"
  /\ UNCHANGED <<now, m_pauseMessages, raised, guiSide>>

\* Mutant of BeginSlice: the lock is not taken.
BeginUnlocked ==
  /\ sim = "lock"
  /\ m_pauseMessages' = <<>>
  /\ sim' = "run"
  /\ UNCHANGED <<locked, now, raised, guiSide>>

\* The lock is taken and SimulatorRunUntil begins.
BeginSlice ==
  /\ sim = "lock" /\ ~ locked
  /\ locked' = TRUE
  /\ m_pauseMessages' = <<>>
  /\ sim' = "run"
  /\ UNCHANGED <<now, raised, guiSide>>

\* The simulator advances; a model may call Pause, which does not end the
\* slice.  Messages are numbered in the order of the calls.
Advance ==
  /\ sim = "run" /\ now < target_time
  /\ now' = now + 1
  /\ \/ UNCHANGED <<m_pauseMessages, raised>>
     \/ /\ raised < MaxMessages
        /\ raised' = raised + 1
        /\ m_pauseMessages' = Append(m_pauseMessages, raised')

\* SimulatorRunUntil has returned: the messages are handed over, update_model is
\* scheduled, the lock released.
HandOver(messages) ==
  /\ pause_messages' = pause_messages \o messages
  /\ model_due' = TRUE
  /\ locked' = FALSE
  /\ sim' = "test"
  /\ UNCHANGED <<go, quit, target_time, timerVars, viewVars, gui, playing, sample_period,
                 main_loop, done>>

Simulate ==
  /\ Advance
  /\ now' # StopTime
  /\ UNCHANGED <<sim, locked, guiSide>>

\* The script's own Simulator::Stop ends the slice before its target.
StopInSlice ==
  /\ Advance
  /\ now' = StopTime
  /\ HandOver(m_pauseMessages')

EndSlice ==
  /\ sim = "run" /\ now >= target_time
  /\ HandOver(m_pauseMessages)
  /\ UNCHANGED <<now, m_pauseMessages, raised>>

run == TestQuit \/ WaitGo \/ ClearGo \/ CheckQuit \/ BeginSlice \/ Simulate \/ StopInSlice
       \/ EndSlice

-----------------------------------------------------------------------------
(* The GUI thread: the main loop and its callbacks.                          *)

Call(what, timer) == [what |-> what, timer |-> timer, messages |-> <<>>]

Top == Head(gui)

\* The main loop, or the loop inside update_view_timeout, calls a callback.
Dispatches == IF gui = <<>> THEN main_loop ELSE Top.what = "spin"

\* Mutant of StartUpdateTimer: a remembered source is taken for a live one.
KeepTimer ==
  IF update_timeout_id # None THEN UNCHANGED timerVars
  ELSE /\ timers' = timers \cup {Fresh}
       /\ update_timeout_id' = Fresh

\* _start_update_timer; removing a source that is gone has no effect.
StartUpdateTimer ==
  /\ timers' = (timers \ {update_timeout_id}) \cup {Fresh}
  /\ update_timeout_id' = Fresh

\* The timer expires.
UpdateViewTimeout(t) ==
  /\ Dispatches
  /\ t \in timers \ InCall
  /\ gui' = <<Call("try", t)>> \o gui
  /\ UNCHANGED <<simVars, sharedVars, timerVars, viewVars, playing, sample_period,
                 model_due, main_loop, done>>

AtMost(x, bound) == IF x <= bound THEN x ELSE bound

\* Mutant of NextTarget: the target is moved on from the last one.
TargetMovedOn == AtMost(target_time + sample_period, MaxTime)

NextTarget == AtMost(now + sample_period, MaxTime)

\* lock.acquire (False): if the simulator is busy, the event loop runs first;
\* else, under the lock, the messages are taken, the view is updated and the
\* next target is set.
TryLock ==
  /\ gui # <<>> /\ Top.what = "try"
  /\ \/ /\ locked
        /\ gui' = [gui EXCEPT ![1].what = "spin"]
        /\ UNCHANGED <<target_time, pause_messages, shown>>
     \/ /\ ~ locked
        /\ gui' = [gui EXCEPT ![1].what = "resume", ![1].messages = pause_messages]
        /\ pause_messages' = <<>>
        /\ shown' = now
        /\ target_time' = NextTarget
  /\ UNCHANGED <<simVars, go, quit, timerVars, dialogs, playing, sample_period,
                 model_due, main_loop, done>>

\* No more events are pending: try again.
Spin ==
  /\ gui # <<>> /\ Top.what = "spin"
  /\ gui' = [gui EXCEPT ![1].what = "try"]
  /\ UNCHANGED <<simVars, sharedVars, timerVars, viewVars, playing, sample_period,
                 model_due, main_loop, done>>

\* The rest of update_view_timeout.  Messages are shown and release the play
\* button, whose callback removes the remembered timer.  When paused, the
\* callback's own timer is not kept; else the next go is given.
Resume ==
  LET active == playing /\ Top.messages = <<>>
      left   == IF playing /\ ~ active THEN timers \ {update_timeout_id} ELSE timers
  IN  /\ gui # <<>> /\ Top.what = "resume"
      /\ gui' = Tail(gui)
      /\ dialogs' = dialogs \o Top.messages
      /\ playing' = active
      /\ \/ /\ ~ active
            /\ update_timeout_id' = None
            /\ timers' = left \ {Top.timer}
            /\ UNCHANGED go
         \/ /\ active
            /\ go' = TRUE
            /\ UNCHANGED timerVars
      /\ UNCHANGED <<simVars, quit, target_time, pause_messages, shown, sample_period,
                     model_due, main_loop, done>>

\* A callback that needs the lock begins: it blocks the GUI until it has it.
UpdateModel ==
  /\ Dispatches
  /\ model_due
  /\ model_due' = FALSE
  /\ gui' = <<Call("block", None)>> \o gui
  /\ UNCHANGED <<simVars, sharedVars, timerVars, viewVars, playing, sample_period,
                 main_loop, done>>

\* It takes the lock, reads or changes simulator state, and releases it.
WithLock ==
  /\ gui # <<>> /\ Top.what = "block"
  /\ ~ locked
  /\ gui' = Tail(gui)
  /\ UNCHANGED <<simVars, sharedVars, timerVars, viewVars, playing, sample_period,
                 model_due, main_loop, done>>

-----------------------------------------------------------------------------
(* The user.                                                                  *)

UserActs ==
  /\ Dispatches
  /\ ~ quit
  /\ done < MaxUser
  /\ done' = done + 1

PlayButtonToggled ==
  /\ UserActs
  /\ playing' = ~ playing
  /\ \/ /\ ~ playing
        /\ StartUpdateTimer
     \/ /\ playing
        /\ timers' = timers \ {update_timeout_id}
        /\ UNCHANGED update_timeout_id
  /\ UNCHANGED <<simVars, sharedVars, viewVars, gui, sample_period, model_due, main_loop>>

SpeedChanged ==
  /\ UserActs
  /\ sample_period' \in Periods
  /\ StartUpdateTimer
  /\ UNCHANGED <<simVars, sharedVars, viewVars, gui, playing, model_due, main_loop>>

\* Tooltips, selecting or dragging a node, opening an information window.
AskSimulator ==
  /\ UserActs
  /\ gui' = <<Call("block", None)>> \o gui
  /\ UNCHANGED <<simVars, sharedVars, timerVars, viewVars, playing, sample_period,
                 model_due, main_loop>>

\* _quit, up to setting self.simulation.quit.
Quit ==
  /\ Dispatches
  /\ ~ quit
  /\ timers' = timers \ {update_timeout_id}
  /\ update_timeout_id' = None
  /\ quit' = TRUE
  /\ gui' = <<Call("quit", None)>> \o gui
  /\ UNCHANGED <<simVars, go, target_time, pause_messages, viewVars, playing,
                 sample_period, model_due, main_loop, done>>

\* Mutant of QuitGo: no go, the thread is only joined.
QuitOnly ==
  /\ gui # <<>> /\ Top.what = "quit"
  /\ gui' = [gui EXCEPT ![1].what = "join"]
  /\ UNCHANGED <<simVars, sharedVars, timerVars, viewVars, playing, sample_period,
                 model_due, main_loop, done>>

QuitGo ==
  /\ gui # <<>> /\ Top.what = "quit"
  /\ go' = TRUE
  /\ gui' = [gui EXCEPT ![1].what = "join"]
  /\ UNCHANGED <<simVars, quit, target_time, pause_messages, timerVars, viewVars, playing,
                 sample_period, model_due, main_loop, done>>

Join ==
  /\ gui # <<>> /\ Top.what = "join"
  /\ sim = "ended"
  /\ gui' = Tail(gui)
  /\ main_loop' = FALSE
  /\ UNCHANGED <<simVars, sharedVars, timerVars, viewVars, playing, sample_period,
                 model_due, done>>

-----------------------------------------------------------------------------
Callback == TryLock \/ Resume \/ WithLock \/ QuitGo \/ Join
Expire   == \E t \in timers : UpdateViewTimeout(t)
User     == PlayButtonToggled \/ SpeedChanged \/ AskSimulator \/ Quit

Next == run \/ Callback \/ Spin \/ Expire \/ UpdateModel \/ User

Spec == Init /\ [][Next]_vars

\* Both threads are scheduled and a slice ends; timers expire; the event loop
\* inside update_view_timeout runs out of events now and again, since a timer's
\* period separates its calls.  The user need not do anything.
FairSpec == /\ Spec
            /\ WF_vars(run)
            /\ WF_vars(Callback)
            /\ SF_vars(Spin)
            /\ SF_vars(Expire)

-----------------------------------------------------------------------------
(* Properties.                                                               *)

\* Types of the variables; the timer of a callback that runs is never that of
\* another callback on the stack.
TypeOK ==
  /\ sim \in {"test", "wait", "clear", "check", "lock", "run", "ended"}
  /\ locked = (sim = "run")
  /\ now \in 0 .. MaxTime /\ target_time \in 0 .. MaxTime /\ shown \in 0 .. MaxTime
  /\ timers \subseteq Timer
  /\ update_timeout_id \in Timer \cup {None}
  /\ \A i \in DOMAIN gui :
       /\ gui[i].what \in {"try", "spin", "resume", "block", "quit", "join"}
       /\ gui[i].timer \in Timer \cup {None}
       /\ i > 1 => gui[i].what = "spin"
       /\ \A j \in DOMAIN gui : (i # j /\ gui[i].timer # None) => gui[i].timer # gui[j].timer
  /\ sample_period \in Periods

\* Every message given to PyViz::Pause is shown to the user exactly once and in
\* order, however callbacks nest and slices follow one another: it is in one
\* place between the simulator and the dialogs.
MessagesShownOnce ==
  LET taken == IF gui = <<>> THEN <<>> ELSE Top.messages
      fresh == IF sim = "run" THEN m_pauseMessages ELSE <<>>
  IN  dialogs \o taken \o pause_messages \o fresh = [i \in 1 .. raised |-> i]

\* The simulator never runs more than one sample period past what the view
\* shows, not even when timers expire faster than the simulation thread runs.
NeverFarAhead ==
  /\ now >= shown
  /\ \E p \in Periods : now <= shown + p

\* While the play button is down and the GUI is idle, some timer is attached
\* that will give the next go, whatever sequence of presses and speed changes
\* has led there.
PlayingHasTimer == (playing /\ ~ quit /\ gui = <<>>) => timers # {}

\* Closing the window ends the simulation thread, every callback under way and
\* the main loop, also when it is closed while the simulator runs.
QuitEnds == quit ~> (sim = "ended" /\ gui = <<>> /\ ~ main_loop)

\* While the play button stays down, simulated time keeps advancing: it reaches
\* any time, here the last one of the instance.
PlayAdvances == <>[](playing /\ ~ quit) => <>(now = MaxTime)
=============================================================================
