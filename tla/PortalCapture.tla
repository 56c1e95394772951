---------------------------- MODULE PortalCapture ----------------------------
(***************************************************************************)
(* Capturing input through the XDG portal: PortalInputCapture and          *)
(* PortalRuntime of src/platform/wayland_portal.cpp, with the part of the  *)
(* router that drives them.                                                *)
(*                                                                         *)
(* Four parties share the state.  The compositor takes the input from the  *)
(* desktop when the pointer hits a barrier, gives the activation a number, *)
(* and tells it twice: by a D-Bus signal, which a GLib thread handles, and *)
(* by the events on a socket, which the program's own thread reads.        *)
(* Nothing orders the two.  Requests go from the program's thread to the   *)
(* GLib thread and from there to the compositor.                           *)
(***************************************************************************)
EXTENDS Sequences, Naturals

CONSTANTS
  MaxActivations,   \* bound: activations of one session
  MaxEvents         \* bound: events between the compositor and the router

VARIABLES
  stage,      \* of initialize(), until it runs; "dead" after a crash
  requests,   \* closures posted to the GLib thread
  reply,      \* what the one under way has answered: "none", "ok" or "failed"
  session,    \* of the compositor: "none", "created" or "enabled"
  captured,   \* the activation the compositor is in, or 0
  serial,     \* the last number given to one
  signals,    \* D-Bus signals on their way
  socket,     \* events on their way
  held,       \* the user holds a modifier key
  activationId, modifiers, events,   \* CaptureState
  focus       \* the router's active screen is the server's or a client's

stateVars  == <<activationId, modifiers, events>>
portalVars == <<session, captured, serial, signals, socket>>
vars       == <<stage, requests, reply, portalVars, held, stateVars, focus>>

Request(op, id) == [op |-> op, id |-> id]
Signal(name, id) == [name |-> name, id |-> id]

Init ==
  /\ stage = "off" /\ requests = <<>> /\ reply = "none"
  /\ session = "none" /\ captured = 0 /\ serial = 0 /\ signals = <<>> /\ socket = <<>>
  /\ held = FALSE
  /\ activationId = 0 /\ modifiers = FALSE /\ events = <<>>
  /\ focus = "local"
-----------------------------------------------------------------------------
\* The compositor and the user in front of it.

\* The pointer hits a barrier.  There is one on every edge, with a neighbour
\* behind it or not.
Activate ==
  /\ session = "enabled" /\ captured = 0 /\ serial < MaxActivations
  /\ serial' = serial + 1
  /\ captured' = serial'
  /\ signals' = Append(signals, Signal("activated", serial'))
  /\ UNCHANGED <<stage, requests, reply, session, socket, held, stateVars, focus>>

\* The compositor takes the input back, or the whole session out of use (the
\* screen is locked, say); mksync does not enable it again.
Deactivate ==
  /\ captured # 0
  /\ captured' = 0
  /\ \/ signals' = Append(signals, Signal("deactivated", captured)) /\ UNCHANGED session
     \/ signals' = Append(signals, Signal("disabled", 0)) /\ session' = "created"
  /\ UNCHANGED <<stage, requests, reply, serial, socket, held, stateVars, focus>>

CanSend == Len(socket) + Len(events) < MaxEvents

Send(kind) == socket' = Append(socket, [kind |-> kind, held |-> held'])

\* Motion, keys and F12, while they are captured.
UserInput ==
  /\ captured # 0 /\ CanSend
  /\ \E kind \in {"out", "back", "key", "f12"} : UNCHANGED held /\ Send(kind)
  /\ UNCHANGED <<stage, requests, reply, session, captured, serial, signals, stateVars, focus>>

\* A modifier goes down or up: the desktop's matter unless input is captured.
UserModifier ==
  /\ held' = ~held
  /\ IF captured = 0 THEN UNCHANGED socket ELSE CanSend /\ Send("modifier")
  /\ UNCHANGED <<stage, requests, reply, session, captured, serial, signals, stateVars, focus>>
-----------------------------------------------------------------------------
\* initialize(): each await posts a request and waits for its reply.  A server
\* has a capture of its own and initializes it once.

Post(op, id) == requests' = Append(requests, Request(op, id))

Initialize ==
  /\ stage = "off"
  /\ stage' = "create"
  /\ Post("create", 0)
  /\ UNCHANGED <<reply, portalVars, held, stateVars, focus>>

\* createInputCapture, configureBarriers, connectToEis and the poller.  The
\* session is enabled when there is somebody to read its events.
NextStage ==
  [create |-> "barriers", barriers |-> "connect", connect |-> "running"]

\* Mutant of Proceed: the session is enabled with its barriers.
EnableEarly ==
  /\ stage \in DOMAIN NextStage /\ reply = "ok"
  /\ reply' = "none"
  /\ stage' = NextStage[stage]
  /\ Post(IF stage = "create" THEN "enable" ELSE "barriers", 0)
  /\ UNCHANGED <<portalVars, held, stateVars, focus>>

Proceed ==
  /\ stage \in DOMAIN NextStage /\ reply = "ok"
  /\ reply' = "none"
  /\ stage' = NextStage[stage]
  /\ Post(IF stage' = "running" THEN "enable" ELSE stage', 0)
  /\ UNCHANGED <<portalVars, held, stateVars, focus>>

\* close(): by shutdown(), by the destructor, or because a step of
\* initialize() or the poller has failed; the server goes with it.  The
\* signals are disconnected and the compositor's session is closed.  Requests
\* that are posted already stay.
Close ==
  /\ stage \notin {"off", "closed", "dead"}
  /\ stage' = "closed"
  /\ session' = "none" /\ captured' = 0
  /\ signals' = <<>> /\ socket' = <<>>
  /\ focus' = "local" /\ reply' = "none"
  /\ UNCHANGED <<requests, serial, held, stateVars>>
-----------------------------------------------------------------------------
\* The GLib thread.

\* It makes the request and answers, to nobody if initialize() was cancelled.
Answer ==
  /\ requests # <<>> /\ Head(requests).op \in DOMAIN NextStage
  /\ requests' = Tail(requests)
  /\ IF stage = Head(requests).op
     THEN \/ /\ reply' = "ok"
             /\ session' = IF stage = "create" THEN "created" ELSE session
          \/ reply' = "failed" /\ UNCHANGED session
     ELSE UNCHANGED <<reply, session>>
  /\ UNCHANGED <<stage, captured, serial, signals, socket, held, stateVars, focus>>

\* xdp_input_capture_session_enable, on a pointer the closure does not own: if
\* close() was faster the session object is gone, and anything may happen.
Enable ==
  /\ requests # <<>> /\ Head(requests).op = "enable"
  /\ requests' = Tail(requests)
  /\ IF session = "created"
     THEN session' = "enabled" /\ UNCHANGED stage
     ELSE stage' \in {stage, "dead"} /\ UNCHANGED session
  /\ UNCHANGED <<reply, captured, serial, signals, socket, held, stateVars, focus>>

\* Mutant of Release: the number is read when the closure runs.
ReleaseLate ==
  /\ requests # <<>> /\ Head(requests).op = "release"
  /\ requests' = Tail(requests)
  /\ captured' = IF captured = activationId THEN 0 ELSE captured
  /\ UNCHANGED <<stage, reply, session, signals, serial, socket, held, stateVars, focus>>

\* xdp_input_capture_session_release_at.  The compositor ignores a number that
\* is not the current one.
Release ==
  /\ requests # <<>> /\ Head(requests).op = "release"
  /\ requests' = Tail(requests)
  /\ IF captured = Head(requests).id
     THEN /\ captured' = 0
          /\ signals' \in {signals, Append(signals, Signal("deactivated", captured))}
     ELSE UNCHANGED <<captured, signals>>
  /\ UNCHANGED <<stage, reply, session, serial, socket, held, stateVars, focus>>

\* captureActivated, captureDeactivated and captureDisabled.
HandleSignal ==
  /\ signals # <<>>
  /\ signals' = Tail(signals)
  /\ activationId' =
       LET signal == Head(signals)
       IN CASE signal.name = "activated"   -> signal.id
            [] signal.name = "deactivated" -> IF activationId = signal.id THEN 0 ELSE activationId
            [] signal.name = "disabled"    -> 0
  /\ UNCHANGED <<stage, requests, reply, session, captured, serial, socket, held,
                 modifiers, events, focus>>
-----------------------------------------------------------------------------
\* The program's thread.

\* dispatchEi and processEiEvent: an event of the socket becomes one of the
\* deque, a key with the modifiers seen so far.
Dispatch ==
  /\ stage = "running" /\ socket # <<>>
  /\ socket' = Tail(socket)
  /\ LET event == Head(socket)
     IN /\ modifiers' = IF event.kind = "modifier" THEN event.held ELSE modifiers
        /\ events' = Append(events, [kind |-> event.kind, modifiers |-> modifiers',
                                     held |-> event.held])
  /\ UNCHANGED <<stage, requests, reply, session, captured, serial, signals, held,
                 activationId, focus>>

\* Mutant of MoveLocalCursor: the number is taken before the screen is looked up.
MoveLocalCursorFailsLate ==
  /\ activationId' = 0
  /\ UNCHANGED requests \/ (activationId # 0 /\ Post("release", activationId))

\* moveLocalCursor.  It fails if the zones have changed and the screen is no
\* longer one of them.
MoveLocalCursor ==
  \/ UNCHANGED <<activationId, requests>>
  \/ /\ activationId' = 0
     /\ IF activationId = 0 THEN UNCHANGED requests ELSE Post("release", activationId)

\* The router handles the next event.  Motion outwards finds a neighbour or
\* not; motion back crosses to the server's screen or not.  The way home by
\* F12 changes the mode of the capture, which is nothing here.
HandleEvent ==
  /\ stage = "running" /\ events # <<>>
  /\ events' = Tail(events)
  /\ LET event == Head(events)
     IN \/ /\ focus = "remote" /\ event.kind = "back"
           /\ focus' = "local"
           /\ MoveLocalCursor
        \/ /\ focus' \in IF focus = "local" /\ event.kind = "out" THEN {"local", "remote"}
                         ELSE IF focus = "remote" /\ event.kind = "f12" THEN {"local"} ELSE {focus}
           /\ UNCHANGED <<activationId, requests>>
  /\ UNCHANGED <<stage, reply, portalVars, held, modifiers>>

\* The client with the active screen disconnects: activateFirstLocalScreen.
ClientGone ==
  /\ focus = "remote"
  /\ focus' = "local"
  /\ UNCHANGED <<stage, requests, reply, portalVars, held, stateVars>>

GLibStep == Answer \/ Enable \/ Release \/ HandleSignal

Next ==
  \/ Activate \/ Deactivate \/ UserInput \/ UserModifier
  \/ Initialize \/ Proceed \/ Close
  \/ GLibStep
  \/ Dispatch \/ HandleEvent \/ ClientGone

Spec == Init /\ [][Next]_vars

\* The GLib thread runs what is posted to it; nothing else is certain.
Fairness == WF_vars(Answer \/ Enable \/ Release)

FairSpec == Spec /\ Fairness
-----------------------------------------------------------------------------
PortalTypeOK ==
  /\ stage \in DOMAIN NextStage \cup {"off", "running", "closed", "dead"}
  /\ requests \in Seq([op : DOMAIN NextStage \cup {"enable"}, id : {0}] \cup
                      [op : {"release"}, id : 1..MaxActivations])
  /\ reply \in {"none", "ok", "failed"}
  /\ session \in {"none", "created", "enabled"}
  /\ captured \in 0..serial /\ activationId \in 0..serial /\ serial \in 0..MaxActivations
  /\ signals \in Seq([name : {"activated", "deactivated", "disabled"}, id : 0..MaxActivations])
  /\ held \in BOOLEAN /\ modifiers \in BOOLEAN
  /\ focus \in {"local", "remote"}

\* Nobody's input is taken before somebody reads it: not while the session is
\* set up, and not after it was closed.
CaptureHasAReader == captured # 0 => stage = "running"

Announced(n) == \E i \in DOMAIN signals : signals[i] = Signal("activated", n)
Releasing(n) == \E i \in DOMAIN requests : requests[i] = Request("release", n)

\* An activation is never forgotten.  As long as the compositor withholds the
\* input, mksync knows the number it needs to give it back, or is about to
\* hear it, or has asked for it; a late signal about an earlier activation
\* does not come between.
ActivationIsKnown ==
  captured # 0 =>
    activationId = captured \/ Announced(captured) \/ Releasing(captured)

\* What is given back by a crossing does come back.
ReleaseArrives ==
  \A n \in 1..MaxActivations :
    Releasing(n) ~> captured # n \/ stage # "running"

\* What the comment of setRemoteControlActive says of the router: the cursor is
\* moved, which releases the input, whenever it switches back to a screen of the
\* server.
ReturnReleases ==
  [][focus = "remote" /\ focus' = "local" /\ stage' = "running" => activationId' = 0]_vars

=============================================================================
