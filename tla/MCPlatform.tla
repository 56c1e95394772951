------------------------------ MODULE MCPlatform ------------------------------
(***************************************************************************)
(* The back ends of src/platform.  The three captures, the injector of the *)
(* portal and a key's way from any capture to any injector share no        *)
(* variable: `part` says which one a behaviour is about, and the others    *)
(* stay where they start.                                                  *)
(*                                                                         *)
(*   win32     three moves of one or two steps and a channel of two: a     *)
(*             displacement by another program, a motion onto the anchor   *)
(*             and a full channel fit into one remote period               *)
(*   xcb       three inputs and one lost X server under both versions of   *)
(*             XInput: an input before, during and after a grab, and a     *)
(*             grab refused in between                                     *)
(*   portal    three activations of a session: the signals and releases of *)
(*             one may meet the next                                       *)
(*   injector  a pointer device and a keyboard, as compositors offer them, *)
(*             and two runs of the client                                  *)
(*   keys      O and 1, which every table has, and keypad 7, the key       *)
(*             beside the left Shift, F13 and Volume Up, which some have   *)
(***************************************************************************)
EXTENDS Win32Capture, TLC

CONSTANTS
  MaxInputs, Deaths,
  MaxActivations, MaxEvents,
  Device, Caps, MaxNotices, MaxSessions, mouse, keyboard,
  Captures, Injectors, Keys, MaxWire

ASSUME KeysAssumption == /\ Captures \subseteq {"portal", "x11", "win32"}
                         /\ Injectors \subseteq {"portal", "wlr", "x11", "win32"}

VARIABLES
  part,
  connection, polling, window, pointerGrabbed, keyboardGrabbed, grabbing,
  buffer, x, rawDuringGrab, queue, inputs, reported, deaths,
  stage, requests, reply, session, captured, serial, signals, socket, modifier,
  activationId, modifiers, events, focus,
  injector, sessions, asked, devices, disconnected, notices, eis,
  server, client, held, wire, down, connected

xcbVars == <<connection, polling, window, pointerGrabbed, keyboardGrabbed,
             grabbing, buffer, x, rawDuringGrab, queue, inputs, reported, deaths>>
portalVars == <<stage, requests, reply, session, captured, serial, signals, socket,
                modifier, activationId, modifiers, events, focus>>
injectorVars == <<injector, sessions, asked, devices, disconnected, notices, eis>>
keyVars == <<server, client, held, wire, down, connected>>

Xcb      == INSTANCE XcbCapture WITH remote <- grabbing
Portal   == INSTANCE PortalCapture WITH held <- modifier
Injector == INSTANCE PortalInjector WITH stage <- injector
Travel   == INSTANCE KeyTravel

MCSteps == {-2, 1, 2}
MCCaps  == (mouse :> {"pointer", "button", "scroll"}) @@ (keyboard :> {"keyboard"})
MCKeys  == {18, 30, 95, 100, 104, 128}

\* The choices of a part that does not move are of no interest.
MCInit ==
  /\ part \in {"win32", "xcb", "portal", "injector", "keys"}
  /\ Init /\ Xcb!Init /\ Portal!Init /\ Injector!Init /\ Travel!Init
  /\ part # "xcb" => rawDuringGrab
  /\ part # "keys" => server = "x11" /\ client = "x11"

Win32Moves == /\ part = "win32" /\ Next
              /\ UNCHANGED <<xcbVars, portalVars, injectorVars, keyVars>>
XcbMoves == /\ part = "xcb" /\ Xcb!Next
            /\ UNCHANGED <<vars, portalVars, injectorVars, keyVars>>
PortalMoves == /\ part = "portal" /\ Portal!Next
               /\ UNCHANGED <<vars, xcbVars, injectorVars, keyVars>>
InjectorMoves == /\ part = "injector" /\ Injector!Next
                 /\ UNCHANGED <<vars, xcbVars, portalVars, keyVars>>
KeysMove == /\ part = "keys" /\ Travel!Next
            /\ UNCHANGED <<vars, xcbVars, portalVars, injectorVars>>

MCNext ==
  /\ Win32Moves \/ XcbMoves \/ PortalMoves \/ InjectorMoves \/ KeysMove
  /\ UNCHANGED part

MCSpec ==
  /\ MCInit
  /\ [][MCNext]_<<part, vars, xcbVars, portalVars, injectorVars, keyVars>>
  /\ Portal!Fairness
-----------------------------------------------------------------------------
\* What XcbCapture believes to hold the X server gives it, and nothing is left
\* behind by an acquisition that failed.
BeliefsAreTrue == Xcb!BeliefsAreTrue

\* XcbCapture reports what the user does in its order and, under XInput 2.1,
\* once.
ReportedOnceInOrder == Xcb!ReportedOnceInOrder

\* The Win32 and the X11 capture keep the promise of CaptureBackend: the user's
\* input is taken in remote mode and only there, and a capture that is shut
\* down holds nothing.
CapturePromise == Win32IsACapture /\ Xcb!XcbIsACapture

\* The compositor takes nobody's input before the capture reads it.
CaptureHasAReader == Portal!CaptureHasAReader

\* The portal capture never forgets an activation it will have to release.
ActivationIsKnown == Portal!ActivationIsKnown

\* What is given back to the compositor by a crossing does come back.
ReleaseArrives == Portal!ReleaseArrives

\* The injector's bookkeeping of resumed and emulating devices never makes it
\* talk to a device that ignores it for good.
EventsAreTaken == Injector!EventsAreTaken

\* Between any two systems a key comes up on the client with its release; and of the
\* keys of an ordinary keyboard none ends the client's run but the digits of an X11
\* server's keypad, and those only the run of a client on Wayland.
KeysArrive == Travel!KeysArrive

=============================================================================
