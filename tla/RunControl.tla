------------------------------ MODULE RunControl ------------------------------
(***************************************************************************)
(* Starting and stopping a service from the window:                        *)
(* ui/presentation/runtime_presenter.cpp, class RuntimePresenter.          *)
(*                                                                         *)
(* Everything runs in Qt's event loop, so a step is what happens between   *)
(* two waits.  runService() waits for a back end to be chosen, and then    *)
(* for the service or for the stop token, whichever is first; the buttons, *)
(* a timer and the check of the back ends run in between.                  *)
(***************************************************************************)
EXTENDS Naturals

CONSTANT MaxRuns   \* bound: runs that are started

VARIABLES
  state,       \* mState
  stopping,    \* mStopping
  token,       \* mStopSource: stop has been requested
  quit,        \* "no", "asked" (mQuitWhenStopped) or "done"
  mode,        \* of mCommand
  body,        \* where runService() is
  needed,      \* the requirement the back end was chosen for
  service,     \* the server or client that exists
  shown,       \* mRunningServer: what the timer reads
  runError, completed,   \* mRunError, mCompletedNormally
  title,       \* mStatusTitle
  checking,    \* mBackendChecking
  checks,      \* checks of all back ends that are under way
  runs         \* runs started

runVars   == <<state, stopping, token, body, needed, service, shown, runError, completed, title>>
checkVars == <<checking, checks>>
vars      == <<runVars, quit, mode, checkVars, runs>>

RunState == {"Idle", "Starting", "Running", "Stopping"}
Mode == {"server", "client"}
Active == state # "Idle"

\* The constructor has the back ends checked.
Init ==
  /\ state = "Idle" /\ stopping = FALSE /\ token = FALSE /\ quit = "no"
  /\ mode = "server" /\ body = "none" /\ needed = "none"
  /\ service = "none" /\ shown = FALSE
  /\ runError = FALSE /\ completed = FALSE /\ title = "notRunning"
  /\ checking = TRUE /\ checks = 1 /\ runs = 0
-----------------------------------------------------------------------------
\* Mutant of SetSelectedMode: the mode is fixed only while a service runs.
SetModeUnlessRunning(m) ==
  /\ quit # "done"
  /\ mode # m /\ state # "Running"
  /\ mode' = m
  /\ UNCHANGED <<runVars, quit, checkVars, runs>>

\* setSelectedMode.
SetSelectedMode(m) ==
  /\ quit # "done"
  /\ mode # m /\ ~Active
  /\ mode' = m
  /\ UNCHANGED <<runVars, quit, checkVars, runs>>

\* start() with an end point or a config that will not do.
StartFails ==
  /\ quit # "done" /\ ~Active
  /\ title' = "cannotStart"
  /\ UNCHANGED <<state, stopping, token, body, needed, service, shown, runError, completed,
                 quit, mode, checkVars, runs>>

Start ==
  /\ quit # "done" /\ ~Active /\ runs < MaxRuns
  /\ runs' = runs + 1
  /\ stopping' = FALSE /\ completed' = FALSE /\ token' = FALSE /\ runError' = FALSE
  /\ state' = "Starting" /\ title' = "starting"
  /\ body' = "begin"
  /\ UNCHANGED <<needed, service, shown, quit, mode, checkVars>>

\* What stop() does, once it has been found to be called for.
RequestStop ==
  /\ stopping' = TRUE /\ state' = "Stopping" /\ title' = "stopping"
  /\ token' = TRUE

Stop ==
  /\ Active /\ ~stopping
  /\ RequestStop
  /\ UNCHANGED <<body, needed, service, shown, runError, completed, quit, mode, checkVars, runs>>

\* quitApplication: now, or when the service has stopped.
QuitApplication ==
  /\ quit # "done"
  /\ \/ ~Active /\ quit' = "done" /\ UNCHANGED runVars
     \/ /\ Active /\ quit' = "asked"
        /\ IF stopping THEN UNCHANGED runVars
           ELSE RequestStop /\ UNCHANGED <<body, needed, service, shown, runError, completed>>
  /\ UNCHANGED <<mode, checkVars, runs>>
-----------------------------------------------------------------------------
\* runService.  The choice of a back end depends on the mode and is not raced
\* with the stop token.
Begin ==
  /\ body = "begin"
  /\ body' = "select"
  /\ needed' = mode
  /\ UNCHANGED <<state, stopping, token, service, shown, runError, completed, title,
                 quit, mode, checkVars, runs>>

\* No back end will do, or one of the calls has thrown.
SelectFails ==
  /\ body = "select"
  /\ body' = "left"
  /\ runError' = TRUE
  /\ UNCHANGED <<state, stopping, token, needed, service, shown, completed, title,
                 quit, mode, checkVars, runs>>

\* The mode is read again to decide what is run.  A stop that came during the
\* wait does not keep the state from being Running.
Selected ==
  /\ body = "select"
  /\ body' = "run"
  /\ state' = "Running" /\ title' = "running"
  /\ service' = mode
  /\ shown' = (mode = "server")
  /\ UNCHANGED <<stopping, token, needed, runError, completed, quit, mode, checkVars, runs>>

\* The service is destroyed, and clearRunningServer follows without a wait.
Leave ==
  /\ service' = "none" /\ body' = "left"
  /\ shown' = FALSE

\* The service ends by itself, well or not, or throws.
ServiceEnds ==
  /\ body = "run"
  /\ Leave
  /\ \/ completed' = TRUE /\ runError' \in BOOLEAN
     \/ completed' = FALSE /\ runError' = TRUE
  /\ UNCHANGED <<state, stopping, token, needed, title, quit, mode, checkVars, runs>>

\* Mutant of Canceled: the token counts only while the state is Stopping.
CanceledIfStopping ==
  /\ body = "run" /\ token /\ state = "Stopping"
  /\ Leave
  /\ stopping' = TRUE
  /\ UNCHANGED <<state, token, needed, runError, completed, title, quit, mode, checkVars, runs>>

\* whenAny sees the token, and cancels the service.
Canceled ==
  /\ body = "run" /\ token
  /\ Leave
  /\ stopping' = TRUE
  /\ UNCHANGED <<state, token, needed, runError, completed, title, quit, mode, checkVars, runs>>

\* What the window is told of the run.
Title ==
  IF stopping THEN "stopped"
  ELSE IF runError THEN "failed"
  ELSE IF completed THEN "exited" ELSE "stopped"

\* Mutant of FinishRun: a request to quit is for the window to repeat.
FinishOnly ==
  /\ body = "left"
  /\ body' = "none" /\ needed' = "none"
  /\ title' = Title
  /\ stopping' = FALSE /\ state' = "Idle"
  /\ UNCHANGED <<token, service, shown, runError, completed, quit, mode, checkVars, runs>>

FinishRun ==
  /\ body = "left"
  /\ body' = "none" /\ needed' = "none"
  /\ title' = Title
  /\ stopping' = FALSE /\ state' = "Idle"
  /\ quit' = IF quit = "asked" THEN "done" ELSE quit
  /\ UNCHANGED <<token, service, shown, runError, completed, mode, checkVars, runs>>
-----------------------------------------------------------------------------
RefreshBackendChecks ==
  /\ quit # "done" /\ ~checking
  /\ checking' = TRUE /\ checks' = checks + 1
  /\ UNCHANGED <<runVars, quit, mode, runs>>

ChecksDone ==
  /\ checks > 0
  /\ checking' = FALSE /\ checks' = checks - 1
  /\ UNCHANGED <<runVars, quit, mode, runs>>

RunStep == Begin \/ SelectFails \/ Selected \/ ServiceEnds \/ Canceled \/ FinishRun
UserStep ==
  \/ \E m \in Mode : SetSelectedMode(m)
  \/ StartFails \/ Start \/ Stop \/ QuitApplication \/ RefreshBackendChecks

Next == RunStep \/ UserStep \/ ChecksDone
Spec == Init /\ [][Next]_vars

\* The event loop runs what is due: a body that has been started, a back end
\* check that has answered, a cancelled service.  A service that nobody stops
\* may run for ever.
Fairness ==
  /\ WF_vars(Begin \/ FinishRun)
  /\ WF_vars(SelectFails \/ Selected)
  /\ WF_vars(Canceled)
  /\ WF_vars(ChecksDone)
-----------------------------------------------------------------------------
RunTypeOK ==
  /\ state \in RunState /\ stopping \in BOOLEAN /\ token \in BOOLEAN
  /\ quit \in {"no", "asked", "done"} /\ mode \in Mode
  /\ body \in {"none", "begin", "select", "run", "left"}
  /\ needed \in Mode \cup {"none"} /\ service \in Mode \cup {"none"}
  /\ shown \in BOOLEAN /\ runError \in BOOLEAN /\ completed \in BOOLEAN
  /\ checking \in BOOLEAN /\ checks \in Nat /\ runs \in Nat
  /\ (state = "Idle" <=> body = "none")

\* The mode is read before the wait for a back end and again after it; a
\* server never runs on a back end chosen to inject, nor a client on one chosen
\* to capture.
RunsWhatWasChecked == service # "none" => service = needed

\* The window and the run agree: a server never runs on a back end chosen for a
\* client, the timer reads a server only while there is one, the program ends
\* with nothing running, and one check of the back ends runs at a time.
RunMatchesWindow ==
  /\ RunsWhatWasChecked
  /\ shown => service = "server"
  /\ quit = "done" => body = "none" /\ service = "none"
  /\ checks = IF checking THEN 1 ELSE 0

\* A stop is obeyed at the next wait that can be cancelled, whenever it came:
\* before the body began, while a back end was being chosen, or later.
StopIsObeyed == token /\ Active ~> ~Active

\* Closing the window of a running program ends it.
QuitEndsTheProgram == quit = "asked" ~> quit = "done"

\* Nothing the user asks to end goes on.
RunEnds == StopIsObeyed /\ QuitEndsTheProgram

=============================================================================
