------------------------------ MODULE XcbCapture ------------------------------
(***************************************************************************)
(* The X11 capture (xcb.cpp, XcbInputCapture): one connection that selects *)
(* raw XInput2 events on the root window, and grabs pointer and keyboard   *)
(* through an invisible full-screen window while a client's screen is      *)
(* active.  Requests without a reply wait in the connection's output       *)
(* buffer until a flush or a round trip; the X server, the other clients   *)
(* and the user act on their own.                                          *)
(***************************************************************************)
EXTENDS Naturals, Sequences, FiniteSets

CONSTANTS MaxInputs,     \* a number: bound on what the user does in a behaviour
          Deaths         \* bound on the X servers lost

VARIABLES
  connection,        \* mConnection: "none", "up", or "dead" once the server is gone
  polling,           \* mPoller is open
  window, pointerGrabbed, keyboardGrabbed,      \* mGrabWindow, mPointerGrabbed, ...
  remote,            \* mRemoteControlActive
  buffer,            \* what the requests still in the output buffer release
  x,                 \* the X server: who has the pointer and the keyboard, our window
  rawDuringGrab,     \* mRawEventsDuringGrab: XInput 2.1 was negotiated
  queue,             \* events on the socket
  inputs,            \* how many things the user has done
  reported,          \* the inputs nextEvent has returned, in order
  deaths

flags == <<window, pointerGrabbed, keyboardGrabbed, remote>>
stream == <<queue, inputs, reported>>
vars == <<connection, polling, flags, buffer, x, rawDuringGrab, stream, deaths>>

Clients == {"free", "us", "other"}
IdleX == [pointer |-> "free", keyboard |-> "free", window |-> FALSE]

-----------------------------------------------------------------------------
(* The connection's output buffer.                                         *)

\* The server's state once the buffered requests have been carried out.
Settled(s, requests) ==
  [pointer  |-> IF "pointer" \in requests THEN "free" ELSE s.pointer,
   keyboard |-> IF "keyboard" \in requests THEN "free" ELSE s.keyboard,
   window   |-> s.window /\ "window" \notin requests]

RoundTrip == x' = Settled(x, buffer) /\ buffer' = {}

\* Our resources go with the connection, whoever closes it.
WithoutUs(s) == [pointer  |-> IF s.pointer = "us" THEN "free" ELSE s.pointer,
                 keyboard |-> IF s.keyboard = "us" THEN "free" ELSE s.keyboard,
                 window   |-> FALSE]

\* What releaseRemoteControl writes: the ungrabs and the destruction of the window.
Releases == {r \in {"pointer", "keyboard", "window"} :
               \/ r = "pointer" /\ pointerGrabbed
               \/ r = "keyboard" /\ keyboardGrabbed
               \/ r = "window" /\ window}

NothingHeld == /\ window' = FALSE /\ pointerGrabbed' = FALSE
               /\ keyboardGrabbed' = FALSE /\ remote' = FALSE

-----------------------------------------------------------------------------
Init == /\ connection = "none" /\ polling = FALSE
        /\ window = FALSE /\ pointerGrabbed = FALSE /\ keyboardGrabbed = FALSE
        /\ remote = FALSE
        /\ buffer = {} /\ x = IdleX
        /\ rawDuringGrab \in BOOLEAN
        /\ queue = <<>> /\ inputs = 0 /\ reported = <<>> /\ deaths = 0

\* closeConnection: poller, grabs, then the socket.
CloseConnection == /\ polling' = FALSE /\ connection' = "none"
                   /\ NothingHeld /\ buffer' = {} /\ x' = WithoutUs(x)
                   /\ queue' = <<>>

Shutdown == /\ connection # "none"
            /\ CloseConnection
            /\ UNCHANGED <<rawDuringGrab, inputs, reported, deaths>>

\* initialize: connect, select the raw events, read the key symbols, make the
\* poller.  The first three close what they opened; a poller that cannot be made
\* leaves the connection open, without one.
Initialize ==
  /\ NothingHeld /\ buffer' = {} /\ x' = WithoutUs(x) /\ queue' = <<>>
  /\ \/ connection' = "none" /\ polling' = FALSE
     \/ connection' = "up" /\ polling' \in BOOLEAN
  /\ UNCHANGED <<rawDuringGrab, inputs, reported, deaths>>

-----------------------------------------------------------------------------
(* setRemoteControlActive(true): acquireRemoteControl.                     *)

\* The hidden cursor or the window cannot be made.
AcquireWithoutWindow ==
  /\ connection # "none" /\ ~remote
  /\ IF connection = "up" THEN RoundTrip ELSE UNCHANGED <<x, buffer>>
  /\ UNCHANGED <<connection, polling, flags, rawDuringGrab, stream, deaths>>

\* The window is mapped, but another client has the pointer: the window is
\* destroyed by a request that stays in the buffer.
AcquireBusy ==
  /\ connection = "up" /\ ~remote /\ Settled(x, buffer).pointer = "other"
  /\ x' = [Settled(x, buffer) EXCEPT !.window = TRUE]
  /\ buffer' = {"window"}
  /\ UNCHANGED <<connection, polling, flags, rawDuringGrab, stream, deaths>>

\* Mutant of Acquire: the status of the keyboard's grab is not looked at.
AcquireUnchecked ==
  /\ connection = "up" /\ ~remote /\ Settled(x, buffer).pointer # "other"
  /\ LET s == Settled(x, buffer)
     IN  x' = [pointer |-> "us", window |-> TRUE,
               keyboard |-> IF s.keyboard = "other" THEN "other" ELSE "us"]
  /\ keyboardGrabbed' = TRUE /\ buffer' = {} /\ window' = TRUE
  /\ pointerGrabbed' = TRUE /\ remote' = TRUE
  /\ UNCHANGED <<connection, polling, rawDuringGrab, stream, deaths>>

\* Both grabs; the keyboard's may fail, which is only logged.
Acquire ==
  /\ connection = "up" /\ ~remote /\ Settled(x, buffer).pointer # "other"
  /\ LET s == Settled(x, buffer)
     IN  /\ x' = [pointer |-> "us", window |-> TRUE,
                  keyboard |-> IF s.keyboard = "other" THEN "other" ELSE "us"]
         /\ keyboardGrabbed' = (s.keyboard # "other")
  /\ buffer' = {} /\ window' = TRUE /\ pointerGrabbed' = TRUE /\ remote' = TRUE
  /\ UNCHANGED <<connection, polling, rawDuringGrab, stream, deaths>>

\* Mutant of Release: the requests are written and not flushed.
ReleaseLater == /\ connection # "none" /\ remote
                /\ NothingHeld
                /\ buffer' = buffer \cup Releases
                /\ UNCHANGED <<connection, polling, x, rawDuringGrab, stream, deaths>>

\* setRemoteControlActive(false): releaseRemoteControl, which flushes.
Release == /\ connection # "none" /\ remote
           /\ NothingHeld
           /\ IF connection = "up" THEN x' = Settled(x, buffer \cup Releases) /\ buffer' = {}
              ELSE buffer' = buffer \cup Releases /\ UNCHANGED x
           /\ UNCHANGED <<connection, polling, rawDuringGrab, stream, deaths>>

\* moveLocalCursor: a checked request; a point that is no screen's asks for nothing.
MoveLocalCursor == /\ connection = "up" /\ buffer # {}
                   /\ RoundTrip
                   /\ UNCHANGED <<connection, polling, flags, rawDuringGrab, stream, deaths>>

-----------------------------------------------------------------------------
(* nextEvent.                                                              *)

\* Mutant of Translated: core events are taken under XInput 2.1 as well.
TranslatedTwice(e) == (remote /\ e.form = "core") \/ e.form = "raw"

\* translateEvent: the events of the grab window count only where raw events are
\* withheld during a grab.
Translated(e) == (remote /\ ~rawDuringGrab /\ e.form = "core") \/ e.form = "raw"

\* The position or the modifiers are asked for, a round trip; a position that is
\* not answered drops a raw event.
NextEvent ==
  /\ connection = "up" /\ polling /\ queue # <<>>
  /\ queue' = Tail(queue)
  /\ IF Translated(Head(queue))
     THEN /\ RoundTrip
          /\ \/ reported' = Append(reported, Head(queue).input)
             \/ Head(queue).form = "raw" /\ Head(queue).kind # "key" /\ UNCHANGED reported
     ELSE UNCHANGED <<x, buffer, reported>>
  /\ UNCHANGED <<connection, polling, flags, rawDuringGrab, inputs, deaths>>

\* nextEvent throws; the server's run ends and shuts the capture down.
NextEventThrows == connection = "dead" /\ polling /\ Shutdown

-----------------------------------------------------------------------------
(* The X server.                                                           *)

Owner(kind) == IF kind = "key" THEN x.keyboard ELSE x.pointer

\* An XInput 2.1 client gets raw events whoever holds a grab, an older one only
\* without a grab.  The grab window gets core events by the grab, or by lying
\* under the pointer.
EventsOf(kind) ==
  LET raw  == [form |-> "raw", kind |-> kind, input |-> inputs + 1]
      core == [form |-> "core", kind |-> kind, input |-> inputs + 1]
  IN  (IF rawDuringGrab \/ Owner(kind) = "free" THEN <<raw>> ELSE <<>>)
        \o (IF Owner(kind) = "us" \/ (Owner(kind) = "free" /\ x.window /\ kind # "key")
            THEN <<core>> ELSE <<>>)

UserInput(kind) ==
  /\ inputs < MaxInputs /\ connection = "up"
  /\ inputs' = inputs + 1
  /\ queue' = queue \o EventsOf(kind)
  /\ UNCHANGED <<connection, polling, flags, buffer, x, rawDuringGrab, reported, deaths>>

\* A menu or a drag of another client.
OtherGrab(device) ==
  /\ connection = "up"
  /\ \/ x[device] = "free" /\ x' = [x EXCEPT ![device] = "other"]
     \/ x[device] = "other" /\ x' = [x EXCEPT ![device] = "free"]
  /\ UNCHANGED <<connection, polling, flags, buffer, rawDuringGrab, stream, deaths>>

XServerDies == /\ connection = "up" /\ deaths < Deaths
               /\ connection' = "dead" /\ x' = IdleX /\ buffer' = {} /\ deaths' = deaths + 1
               /\ UNCHANGED <<polling, flags, rawDuringGrab, stream>>

CaptureStep == Initialize \/ Shutdown \/ AcquireWithoutWindow \/ AcquireBusy \/ Acquire
                 \/ Release \/ MoveLocalCursor \/ NextEvent \/ NextEventThrows
ServerStep == \/ \E kind \in {"pointer", "key"} : UserInput(kind)
              \/ \E device \in {"pointer", "keyboard"} : OtherGrab(device)
              \/ XServerDies
Next == CaptureStep \/ ServerStep
Spec == Init /\ [][Next]_vars

-----------------------------------------------------------------------------
\* A capture without a connection holds nothing and waits for nothing.
XcbTypeOK ==
  /\ connection \in {"none", "up", "dead"} /\ polling \in BOOLEAN
  /\ {window, pointerGrabbed, keyboardGrabbed, remote, rawDuringGrab} \subseteq BOOLEAN
  /\ buffer \subseteq {"pointer", "keyboard", "window"}
  /\ x \in [pointer : Clients, keyboard : Clients, window : BOOLEAN]
  /\ connection = "none" =>
       /\ ~polling /\ ~window /\ ~pointerGrabbed /\ ~keyboardGrabbed /\ ~remote
       /\ x = WithoutUs(x)

\* The members say what the X server will hold once it has read the buffer: no
\* window or grab is left behind by a failed acquisition, and none is believed
\* held that is not.
BeliefsAreTrue ==
  connection = "up" =>
    LET s == Settled(x, buffer)
    IN  /\ window = s.window
        /\ pointerGrabbed = (s.pointer = "us")
        /\ keyboardGrabbed = (s.keyboard = "us")

\* Whatever the user did is reported in its order and, under XInput 2.1, once: by
\* its raw event and never by the core event of the grab as well.  (Before 2.1 a grab
\* window that a refused grab left mapped lets one input be reported twice.)
ReportedOnceInOrder ==
  \A i, j \in 1 .. Len(reported) :
    i < j => IF rawDuringGrab THEN reported[i] < reported[j] ELSE reported[i] <= reported[j]

\* The capture keeps the promise of CaptureBackend: with every release flushed, the
\* X server gives the user's pointer to us only while the backend is remote.
Promise == INSTANCE CaptureBackend WITH open <- connection # "none", remote <- remote,
                                        taken <- x.pointer = "us"
XcbIsACapture == Promise!CaptureSpec
=============================================================================
