---------------------------- MODULE PortalInjector ----------------------------
(***************************************************************************)
(* Injecting input through the XDG portal: PortalInputInjector of          *)
(* src/platform/wayland_portal.cpp, and the client that uses it.           *)
(*                                                                         *)
(* The desktop's EIS server owns the emulated devices.  It adds, resumes,  *)
(* pauses and removes them when it likes and says so on a socket; the      *)
(* injector reads the socket while it initializes and, after that, only    *)
(* inside inject().  What it believes of a device may be out of date.      *)
(***************************************************************************)
EXTENDS Sequences, Naturals, FiniteSets

CONSTANTS
  Device,      \* the devices of the EIS server
  Caps,        \* what each device can do, Capability between them
  MaxNotices,  \* bound: notices on the socket
  MaxSessions  \* bound: sessions asked for, one for each run of a client

\* What initialize() wants, and what one event needs: motion, a button (which
\* moves the pointer first), the wheel, a key.
Capability == {"pointer", "button", "scroll", "keyboard"}
Needs == {{"pointer"}, {"pointer", "button"}, {"scroll"}, {"keyboard"}}

VARIABLES
  stage,         \* where initialize() is, or what came of the injector
  sessions,      \* RemoteDesktop sessions the desktop has open
  asked,         \* how many were asked for
  devices,       \* mDevices: those added, with what is known of them
  disconnected,  \* mDisconnected
  notices,       \* on the socket
  eis            \* what the server takes from each device

injectorVars == <<stage, devices, disconnected>>
eisVars      == <<notices, eis>>
vars         == <<injectorVars, eisVars, sessions, asked>>

Init ==
  /\ stage = "idle" /\ sessions = 0 /\ asked = 0
  /\ devices = <<>> /\ disconnected = FALSE
  /\ notices = <<>> /\ eis = [d \in Device |-> "absent"]
-----------------------------------------------------------------------------
\* The EIS server, while somebody is connected.

Connected == stage \in {"await", "ready", "failed"} /\ ~disconnected
Notice(kind, d) == [kind |-> kind, device |-> d]

Notify(kind, d) ==
  /\ Connected /\ sessions > 0
  /\ Len(notices) < MaxNotices
  /\ \A i \in DOMAIN notices : notices[i].kind # "disconnect"
  /\ notices' = Append(notices, Notice(kind, d))
  /\ UNCHANGED <<injectorVars, sessions, asked>>

ServerStep(kind, from, to) ==
  \E d \in Device :
    /\ eis[d] \in from
    /\ eis' = [eis EXCEPT ![d] = to]
    /\ Notify(kind, d)

Add    == ServerStep("added", {"absent"}, "paused")
Resume == ServerStep("resumed", {"paused"}, "resumed")
Pause  == ServerStep("paused", {"resumed", "emulating"}, "paused")
Remove == ServerStep("removed", {"paused", "resumed", "emulating"}, "absent")

\* The desktop ends the session.
Disconnect == \E d \in Device : UNCHANGED eis /\ Notify("disconnect", d)
-----------------------------------------------------------------------------
\* Reading the socket.

Index(list, d) == {i \in DOMAIN list : list[i].device = d}
Without(list, i) == SubSeq(list, 1, i - 1) \o SubSeq(list, i + 1, Len(list))

\* Mutant of Believe: a device that was paused still counts as emulating.
BelievePausedEmulates(list, n) ==
  IF n.kind = "added"
  THEN Append(list, [device |-> n.device, resumed |-> FALSE, emulating |-> FALSE])
  ELSE IF n.kind = "removed" /\ Index(list, n.device) # {}
  THEN Without(list, CHOOSE i \in Index(list, n.device) : TRUE)
  ELSE [i \in DOMAIN list |->
         IF list[i].device # n.device \/ n.kind \notin {"resumed", "paused"} THEN list[i]
         ELSE [list[i] EXCEPT !.resumed = (n.kind = "resumed"),
                              !.emulating = (n.kind = "resumed" \/ @)]]

\* processEiEvent: what mDevices holds after a notice.  A resumed device is
\* told to start emulating, unless that has been done.
Believe(list, n) ==
  IF n.kind = "added"
  THEN Append(list, [device |-> n.device, resumed |-> FALSE, emulating |-> FALSE])
  ELSE IF n.kind = "removed" /\ Index(list, n.device) # {}
  THEN Without(list, CHOOSE i \in Index(list, n.device) : TRUE)
  ELSE [i \in DOMAIN list |->
         IF list[i].device # n.device \/ n.kind \notin {"resumed", "paused"} THEN list[i]
         ELSE [list[i] EXCEPT !.resumed = (n.kind = "resumed"),
                              !.emulating = (n.kind = "resumed")]]

\* The devices that are told to start, when one notice is read.
Starts(list, n) ==
  {d \in Device : /\ n.kind = "resumed" /\ n.device = d
                  /\ \E i \in Index(list, d) : ~list[i].emulating}

\* dispatchEi reads all that has come: the beliefs after n notices, and the
\* devices told to start on the way.
Read[n \in Nat] ==
  IF n = 0 THEN [list |-> devices, started |-> {}]
  ELSE LET before == Read[n - 1]
       IN [list    |-> Believe(before.list, notices[n]),
           started |-> before.started \cup Starts(before.list, notices[n])]

\* ei_device_start_emulating, told to a device that has been paused again,
\* comes too late to matter.
DispatchEi ==
  LET after == Read[Len(notices)]
  IN /\ devices' = after.list
     /\ notices' = <<>>
     /\ eis' = [d \in Device |-> IF d \in after.started /\ eis[d] = "resumed"
                                 THEN "emulating" ELSE eis[d]]
     /\ disconnected' = (disconnected \/
          \E i \in DOMAIN notices : notices[i].kind = "disconnect")

\* device(capability): the first resumed device that has it.
DeviceFor(list, c) == {i \in DOMAIN list : list[i].resumed /\ c \in Caps[list[i].device]}
Ready(list) == \A c \in Capability : DeviceFor(list, c) # {}
-----------------------------------------------------------------------------
\* The session this injector has, if any.
Owned == IF stage \in {"start", "await", "ready", "failed"} THEN 1 ELSE 0

\* close() ends the connection and the session.
Close ==
  /\ devices' = <<>> /\ disconnected' = FALSE
  /\ notices' = <<>> /\ eis' = [d \in Device |-> "absent"]
  /\ sessions' = sessions - Owned
  /\ UNCHANGED asked

\* initialize(): ask the portal for a session, which the user may refuse, and
\* for devices; then wait for the devices.
Initialize ==
  /\ stage = "idle" /\ asked < MaxSessions
  /\ stage' = "create"
  /\ asked' = asked + 1
  /\ UNCHANGED <<devices, disconnected, eisVars, sessions>>

Created ==
  /\ stage = "create"
  /\ sessions' = sessions + 1
  /\ stage' = "start"
  /\ UNCHANGED <<devices, disconnected, eisVars, asked>>

Started ==
  /\ stage = "start"
  /\ stage' = "await"
  /\ UNCHANGED <<devices, disconnected, eisVars, sessions, asked>>

Refused ==
  /\ stage \in {"create", "start"}
  /\ stage' = "closed"
  /\ Close

\* One turn of the loop, when poll() has seen something to read.
AwaitDevices ==
  /\ stage = "await" /\ notices # <<>>
  /\ \A i \in DOMAIN notices : notices[i].kind # "disconnect"
  /\ DispatchEi
  /\ stage' = IF Ready(devices') THEN "ready" ELSE "await"
  /\ UNCHANGED <<sessions, asked>>

AwaitDisconnected ==
  /\ stage = "await"
  /\ \E i \in DOMAIN notices : notices[i].kind = "disconnect"
  /\ stage' = "closed"
  /\ Close

\* The poll fails, or the wait is cancelled: initialize() returns, and leaves
\* the session to the destructor.
PollFails ==
  /\ stage = "await"
  /\ stage' = "failed"
  /\ UNCHANGED <<devices, disconnected, eisVars, sessions, asked>>

\* inject() looks whether it is ready, then reads the socket, then acts.
\* The event fails when the device it needs is gone; then the client stops.
Inject ==
  /\ stage = "ready" /\ Ready(devices)
  /\ DispatchEi
  /\ \E needed \in Needs :
       stage' = IF ~disconnected' /\ \A c \in needed : DeviceFor(devices', c) # {}
                THEN "ready" ELSE "failed"
  /\ UNCHANGED <<sessions, asked>>

InjectUnready ==
  /\ stage = "ready" /\ ~Ready(devices)
  /\ stage' = "failed"
  /\ UNCHANGED <<devices, disconnected, eisVars, sessions, asked>>

\* shutdown() and the destructor, when the client's run is over.  The next run
\* makes a platform and an injector of its own.
Shutdown ==
  /\ stage \in {"ready", "failed", "closed"}
  /\ stage' = "idle"
  /\ Close

EisStep == Add \/ Resume \/ Pause \/ Remove \/ Disconnect
InjectorStep ==
  \/ Initialize \/ Created \/ Started \/ Refused
  \/ AwaitDevices \/ AwaitDisconnected \/ PollFails
  \/ Inject \/ InjectUnready \/ Shutdown

Next == EisStep \/ InjectorStep
Spec == Init /\ [][Next]_vars

-----------------------------------------------------------------------------
\* Events go to the first resumed device that can take them.  The server takes
\* them, unless it has said since that the device is paused or removed: the
\* bookkeeping of resumed and emulating never makes the injector talk to a
\* device that ignores it for good.
EventsAreTaken ==
  \A i \in DOMAIN devices :
    LET d == devices[i].device
    IN devices[i].resumed /\ stage # "failed" =>
         \/ eis[d] = "emulating"
         \/ \E n \in DOMAIN notices :
              notices[n].device = d /\ notices[n].kind \in {"paused", "removed"}

=============================================================================
