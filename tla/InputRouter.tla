----------------------------- MODULE InputRouter -----------------------------
(***************************************************************************)
(* The server's routing of captured input: src/app/server_input.cpp, class *)
(* ServerInputRouter.                                                      *)
(*                                                                         *)
(* One screen is active.  While it is a screen of the server, the events   *)
(* the capture backend reports only show where the system's cursor is;     *)
(* while it is a client's, the router keeps a virtual cursor on it, moves  *)
(* it by the motion of the mouse, and queues the absolute positions for    *)
(* the client.  mActiveScreen points into the store, which other code      *)
(* changes; the queues end with a connection, which ends at any time.      *)
(*                                                                         *)
(* The operators are the operations of the class; module Server has the    *)
(* actions that call them.                                                 *)
(***************************************************************************)
EXTENDS ScreenStore

CONSTANTS
  None,           \* std::nullopt and nullptr
  MouseSamples,   \* the motion events the capture backend reports
  QueueDepth      \* of the channel to a session's write loop; 10 in the code

MouseSample == [screenIndex : Nat, x : Int, y : Int, deltaX : Int, deltaY : Int]
ScreenPoint == [key : ScreenKey, x : Int, y : Int]

ASSUME NoneAssumption ==
  None \notin VirtualScreen /\ None \notin ScreenPoint /\ None \notin OwnerId
ASSUME MouseSamplesAssumption == MouseSamples \subseteq MouseSample
ASSUME QueueDepthAssumption == QueueDepth \in Nat \ {0}

VARIABLES
  activeScreen,      \* mActiveScreen: a VirtualScreen of mScreens, or None
  activePoint,       \* mActivePoint, or None
  lastLocalMouse,    \* mLastLocalMouse: its position, the part that is read
  pendingLocalWarp,  \* mPendingLocalWarp, or None
  remoteControl,     \* the capture backend withholds input from the server
  senders,           \* the endpoints mSenders has an entry for
  readers,           \* the endpoints whose write loop still has its reader
  queue,             \* the channel of each reader
  dropped            \* history: the last position for a client was not queued

cursorVars  == <<activeScreen, activePoint, lastLocalMouse, pendingLocalWarp,
                 remoteControl>>
channelVars == <<senders, readers, queue>>
routerVars  == <<cursorVars, channelVars, dropped>>

LocalPosition == [x : Int, y : Int]
Message       == [kind : {"move", "button"}, at : ScreenPoint] \cup {[kind |-> "key"]}

\* Mutant of Move: the message is made before mActivePoint is assigned.
EarlyMove(point) == [kind |-> "move", at |-> activePoint]

\* A mouse move, as the client gets it: an absolute position.
Move(point) == [kind |-> "move", at |-> point]

IsRemote(screen) == screen # None /\ ~screen.local
IsLocal(screen)  == screen # None /\ screen.local
-----------------------------------------------------------------------------
\* Lookups in a set of VirtualScreens, by the order of the multimap.

IsBefore(v, w) ==
  \/ v.endpoint < w.endpoint
  \/ v.endpoint = w.endpoint /\ v.key.screenIndex < w.key.screenIndex

FirstOf(screens) ==
  IF screens = {} THEN None
  ELSE CHOOSE v \in screens : \A w \in screens \ {v} : IsBefore(v, w)

\* findScreen and firstLocalScreen.
FindScreen(screens, key) == FirstOf({v \in screens : v.key = key})

FirstLocalScreen(screens) ==
  LET locals  == {v \in screens : v.local}
      primary == {v \in locals : v.info.primary}
  IN FirstOf(IF primary # {} THEN primary ELSE locals)

AtOrigin(screen) == [key |-> screen.key, x |-> 0, y |-> 0]
-----------------------------------------------------------------------------
\* The queue to a client.  trySend fails when the channel is full and when
\* its reader is gone; the sender of a dead channel stays in mSenders.

\* Mutant of CanQueue: the channel has no bound.
CanAlwaysQueue(ep) == ep \in senders /\ ep \in readers

CanQueue(ep) == ep \in senders /\ ep \in readers /\ Len(queue[ep]) < QueueDepth

QueueInput(screen, message) ==
  /\ queue' = IF CanQueue(screen.endpoint)
              THEN [queue EXCEPT ![screen.endpoint] = Append(@, message)]
              ELSE queue
  /\ UNCHANGED <<senders, readers>>

QueueMove(screen, point) ==
  /\ QueueInput(screen, Move(point))
  /\ dropped' = ~CanQueue(screen.endpoint)

\* Mutant of UpdateCapture: the backend may also fail to give the input back.
UpdateCaptureOrNot == remoteControl' \in {remoteControl, IsRemote(activeScreen')}

\* updateCaptureRemoteControl: a backend may fail to take the input over, and
\* then the server keeps it; it never fails to give it back.
UpdateCapture ==
  remoteControl' \in IF IsRemote(activeScreen') THEN {remoteControl, TRUE} ELSE {FALSE}

\* activateFirstLocalScreen, over the screens of the store by then.
ActivateFirstLocalScreen(screens) ==
  LET screen == FirstLocalScreen(screens)
  IN /\ activeScreen' = screen
     /\ activePoint' = IF screen = None THEN None ELSE AtOrigin(screen)
     /\ lastLocalMouse' = None
     /\ pendingLocalWarp' = None
     /\ UpdateCapture

\* switchActiveScreen to a screen the store has.  Where the screen is local,
\* the warp of the system's cursor to the point may fail.
Enter(screen, point) ==
  /\ activeScreen' = screen
  /\ activePoint' = point
  /\ UpdateCapture
  /\ IF screen.local
     THEN /\ pendingLocalWarp' \in {pendingLocalWarp, point}
          /\ UNCHANGED <<channelVars, dropped>>
     ELSE /\ pendingLocalWarp' = None
          /\ QueueMove(screen, point)

\* switchActiveScreen.  If the store does not have the screen, all that has
\* happened is that the caller has stored the point here.
SwitchActiveScreen(point, here) ==
  LET screen == FindScreen(mScreens, point.key)
  IN IF screen # None
     THEN Enter(screen, point)
     ELSE /\ activePoint' = here
          /\ UNCHANGED <<activeScreen, pendingLocalWarp, remoteControl, channelVars, dropped>>

\* hitEdge and mapEntryPoint agree that the cursor leaves by this edge.
Crosses(point, edge) ==
  /\ HitsEdge(mTopology, point.key, point.x, point.y, edge)
  /\ CanMapEntryPoint(mTopology, point.key, edge)

CrossTo(point, edge) == MapEntryPoint(mTopology, point.key, point.x, point.y, edge)
-----------------------------------------------------------------------------
\* The handlers of handleInputEvent.

\* handleMouseMove: the mouse moves while a screen of the server is active.
HandleMouseMove(m) ==
  LET point == [key |-> [ownerId |-> activeScreen.key.ownerId,
                         screenIndex |-> m.screenIndex],
                x |-> m.x, y |-> m.y]
      stay  == /\ activePoint' = point
               /\ UNCHANGED <<activeScreen, remoteControl, channelVars, dropped>>
  IN /\ IsLocal(activeScreen)
     /\ lastLocalMouse' = [x |-> m.x, y |-> m.y]
     /\ \/ /\ pendingLocalWarp = point
           /\ pendingLocalWarp' = None
           /\ stay
        \/ /\ pendingLocalWarp # point
           /\ \A edge \in Edges : ~Crosses(point, edge)
           /\ UNCHANGED pendingLocalWarp
           /\ stay
        \/ /\ pendingLocalWarp # point
           /\ \E edge \in Edges :
                Crosses(point, edge) /\ SwitchActiveScreen(CrossTo(point, edge), point)

(***************************************************************************)
(* handleRemoteMouseMove: the mouse moves while a client's screen is       *)
(* active.  The motion is the event's delta or, if that is zero, the       *)
(* difference to the last position the backend reported.                   *)
(***************************************************************************)
RemoteBase ==
  IF activePoint = None \/ activePoint.key # activeScreen.key
  THEN AtOrigin(activeScreen) ELSE activePoint

Delta(m) ==
  IF m.deltaX = 0 /\ m.deltaY = 0 /\ lastLocalMouse # None
  THEN [x |-> m.x - lastLocalMouse.x, y |-> m.y - lastLocalMouse.y]
  ELSE [x |-> m.deltaX, y |-> m.deltaY]

\* Mutant of OnScreen: clamped to the extent, one pixel too far.
OnScreenOrBeside(screen, point) ==
  [point EXCEPT !.x = Clamp(@, 0, screen.info.width),
                !.y = Clamp(@, 0, screen.info.height)]

\* The pixel of the screen that is nearest to the point.
OnScreen(screen, point) ==
  [point EXCEPT !.x = Clamp(@, 0, screen.info.width - 1),
                !.y = Clamp(@, 0, screen.info.height - 1)]

HandleRemoteMouseMove(m) ==
  LET moved == [RemoteBase EXCEPT !.x = @ + Delta(m).x, !.y = @ + Delta(m).y]
  IN /\ IsRemote(activeScreen)
     /\ lastLocalMouse' = [x |-> m.x, y |-> m.y]
     /\ \/ /\ Delta(m) = Origin
           /\ activePoint' = RemoteBase
           /\ UNCHANGED <<activeScreen, pendingLocalWarp, remoteControl, channelVars, dropped>>
        \/ /\ Delta(m) # Origin
           /\ \E edge \in Edges :
                Crosses(moved, edge) /\ SwitchActiveScreen(CrossTo(moved, edge), RemoteBase)
        \/ /\ Delta(m) # Origin
           /\ \A edge \in Edges : ~Crosses(moved, edge)
           /\ activePoint' = OnScreen(activeScreen, moved)
           /\ QueueMove(activeScreen, activePoint')
           /\ UNCHANGED <<activeScreen, pendingLocalWarp, remoteControl>>

\* A button or the wheel and a key go to the client whose screen is active.
\* eventAtActivePoint tests that the active point is on that screen, and then
\* writes it into the event; CursorOnScreen says that it always is.
ButtonAt(point) == [kind |-> "button", at |-> point]
KeyMessage      == [kind |-> "key"]

HandleOther ==
  /\ IsRemote(activeScreen)
  /\ QueueInput(activeScreen, KeyMessage) \/ QueueInput(activeScreen, ButtonAt(activePoint))
  /\ UNCHANGED <<cursorVars, dropped>>

\* F12 is pressed: tryHandleLocalHotkey.
HandleHotkey ==
  /\ IsRemote(activeScreen)
  /\ ActivateFirstLocalScreen(mScreens)
  /\ UNCHANGED <<channelVars, dropped>>
-----------------------------------------------------------------------------
\* What Server::registerScreens and Server::removeEndpointScreens do to the
\* router, before and after they replace the screens of ep in the store.

ActiveIsOf(ep) == activeScreen # None /\ activeScreen.endpoint = ep

\* Mutant of AfterRegistration: a cursor on the screens replaced stays there.
AfterFirstRegistration(ep) ==
  IF activeScreen = None THEN ActivateFirstLocalScreen(mScreens') ELSE UNCHANGED cursorVars

\* onScreensRegistered.
AfterRegistration(ep) ==
  IF activeScreen = None \/ ActiveIsOf(ep)
  THEN ActivateFirstLocalScreen(mScreens')
  ELSE UNCHANGED cursorVars

\* Mutants of AfterRemoval: the pointer is kept; the pointer is reset, but no
\* local screen is made active.
KeptAfterRemoval(ep) == UNCHANGED cursorVars

ResetAfterRemoval(ep) ==
  IF ActiveIsOf(ep)
  THEN /\ activeScreen' = None /\ activePoint' = None
       /\ lastLocalMouse' = None /\ pendingLocalWarp' = None
       /\ remoteControl' = FALSE
  ELSE UNCHANGED cursorVars

\* onEndpointRemoving and ensureActiveLocalScreen.
AfterRemoval(ep) ==
  IF ActiveIsOf(ep) THEN ActivateFirstLocalScreen(mScreens') ELSE UNCHANGED cursorVars

=============================================================================
