# mksync in TLA+

mksync shares one keyboard and mouse between machines. A server captures the
input of its own machine; when the cursor leaves over the border of a screen,
input goes over TCP to the client whose screen is next to it. This directory
has TLA+ specifications of the program's core, the configurations that
model-check them with TLC, and proofs that TLAPS checks.

Paths are relative to the repository's root.

## The system

| Component | State it keeps | Operations |
|---|---|---|
| `ScreenTopology` (`src/core/topology.cpp`) | `mScreens` by key, `mCells` by grid position | `addScreen`, `removeOwner`, `findNeighbor`, `hitEdge`, `mapEntryPoint` |
| `ServerScreenStore` (`src/app/server_screens.cpp`) | the multimap `mScreens`, the topology, `mConfig` with the saved cells, `mEndpointOwners` | `registerScreens`, `removeScreen`, lookups, saving the layout |
| `ServerInputRouter` (`src/app/server_input.cpp`) | `mActiveScreen` (a pointer into the store), `mActivePoint`, `mLastLocalMouse`, `mPendingLocalWarp`, the mode of the capture backend | `handleInputEvent` and its handlers, `clearActiveState`, `ensureActiveLocalScreen` |
| `Server` (`src/app/server.cpp`) | the three above and `mClientSenders` | `run`, accept loop, event loop, callbacks of the sessions |
| `ServerSession` (`src/app/server_session.cpp`) | stage of one connection, its owner, its outgoing channel | `handshake`, `readLoop`, `writeLoop`, `shutdown`, the guard's `onClosed` |
| `Client` (`src/app/client.cpp`) | stage of its one run, the connection, the injector | Hello, screens, injection of input, cleanup of both |
| `RpcTransport` (`src/rpc`) | a buffered stream in each direction | framing of messages, partial reads and writes |
| `AppConfig` (`src/config/app_config.cpp`) | the configuration file | load, create, save, layout lookup, trust |
| X11 capture (`src/platform/xcb.cpp`) | connection and output buffer, grab window, two grabs, the mode | `acquireRemoteControl`, `releaseRemoteControl`, `nextEvent` |
| Win32 capture (`src/platform/win32.cpp`) | hooks, cursor anchor, the mode, a bounded channel; a UI thread and the server's | posted calls, hook procedures, `nextEvent` |
| Portal capture and injection (`src/platform/wayland_portal.cpp`) | session, activation number, modifiers, event deque; devices; a GLib thread | `initialize`, signals, `dispatchEi`, `moveLocalCursor`, `inject` |
| Key codes (`src/core/key.hpp` and the tables of the back ends) | none | names for native codes, native codes for names |
| Backend registry (`src/platform/backend.cpp`) | table of back ends | registration, checks, selection |
| Program (`src/main.cpp`) | the running server or client | requirements, cancellation |
| Window: run control (`ui/presentation/runtime_presenter.cpp`) | run state, stop token, mode, the running server | start, stop, quit, change of mode, checks |
| Window: settings (`ui/presentation/settings_presenter.cpp`, `ui/model`) | a copy of the configuration, its path, and the other presenter's path | edit, import, save, publish |

How they interact. Everything in the server runs on one thread as coroutines.
The event loop hands each captured event to the router; the router reads the
store's topology, follows its pointer into the store's `mScreens`, and puts
messages into the channel of a session. Each session's read loop calls back
into `Server::registerScreens`, and its end, by whatever path, into
`removeEndpointScreens`: both change the store under the router. The router
calls the capture backend to withhold input from the desktop, and to put the
cursor back.

What is hard about it:

* one screen is recorded in four places (multimap, two maps of the topology,
  saved layout), which only the order of the code keeps in agreement;
* the router's pointer is invalidated by other coroutines between two events;
* a session has a handshake, two concurrent loops and an asynchronous cleanup,
  during which its screens and its sender are still there;
* the channel to a client is bounded and lossy, and its reader may be gone;
* machines reconnect, with the same machine id, before the old connection ends;
* saved cells outlive the configuration of monitors they were saved for;
* a back end shares its state with parties the program does not control: a UI
  thread that runs the hooks, an X server with other clients and an output
  buffer in between, a compositor that speaks through two channels nothing
  orders, an EIS server whose notices arrive late;
* a frame can be cut anywhere by a cancellation or by the network;
* the window's buttons work during the waits of the run they control;
* a check of a back end may be out of date when the back end is created;
* a crash inside a save leaves half a file.

What makes the components correct: the four records agree; the pointer never
dangles and the cursor always has a screen; input is withheld from the desktop
only while it goes to a client; what goes to a client goes to the one the
cursor is on, at the position the server thinks it has; a session leaves
nothing behind; the cursor comes home when its client goes; a stopped server
stops; a crossing ends on a pixel of the next screen, where one expects it.
Around the server: a capture takes the user's input in remote mode and only
then, and reports what the user did once and in order; what is taken can be
given back; a key that is pressed is released; a client whose injector is not up
never gets the cursor; the transport returns messages and never parts of them;
the back end chosen is the first that suits; a damaged file is kept; what the
user stops ends.

## Modules

| Module | What it is | Code |
|---|---|---|
| `Topology` | operators on a topology, a record of the two maps; geometry of a crossing | `src/core/topology.cpp` |
| `ScreenStore` | the store as a state machine: registrations, ends of connections, restarts | `src/app/server_screens.cpp`, `Server::registerScreens`, `Server::removeEndpointScreens` |
| `InputRouter` | the router's variables and the operators that are its handlers | `src/app/server_input.cpp` |
| `Server` | the composition: router, store, a session per client, event loop, accept loop, stop and crash | `src/app/server.cpp`, `src/app/server_session.cpp` |
| `Focus` | the abstract promise: who has the keyboard and mouse | (implemented by `Server`) |
| `Client` | a client's runs, and the sessions the server has for it, seen from the stream | `src/app/client.cpp` |
| `MessageChannel` | the abstract promise of a transport: whole messages in order | (implemented by `RpcTransport`) |
| `RpcTransport` | one direction of a connection: frames, a stream of numbers, a reader | `src/rpc/transport.cpp` |
| `CaptureBackend` | the abstract promise of a capture: what the router expects of it | (implemented by `XcbCapture`, `Win32Capture`) |
| `XcbCapture` | the X11 capture, its output buffer, the X server and its other clients | `src/platform/xcb.cpp` |
| `Win32Capture` | the Win32 capture: two threads, hooks, channel, cursor | `src/platform/win32.cpp` |
| `PortalCapture` | the portal capture: two threads, the compositor, signals and events | `src/platform/wayland_portal.cpp` |
| `PortalInjector` | the portal injector and the EIS server's devices | `src/platform/wayland_portal.cpp` |
| `KeyMap` | the key tables of the four systems | `src/core/key.hpp`, `wayland_keymap.hpp`, `win32_key.hpp`, `xcb.cpp` |
| `KeyTravel` | a key event from the keyboard of one system to another system | the captures and injectors, `src/app/client.cpp` |
| `BackendRegistry` | registration and choice of a back end | `src/platform/backend.cpp`, `src/main.cpp` |
| `Settings` | configuration files, the window's copy, the services that use them | `src/config/app_config.cpp`, `ui/model`, `ui/presentation` |
| `RunControl` | the window's start, stop, quit and mode, the body of a run | `ui/presentation/runtime_presenter.cpp` |
| `MCScreenStore`, `MCServer`, `MCGeometry`, `MCPlatform`, `MCPrograms`, `MCKeyTravel` | instances for TLC; `MCGeometry`, `MCPlatform` and `MCPrograms` add a next-state relation of their own | |
| `ScreenStoreProofs`, `ServerProofs`, `XcbCaptureProofs`, `PortalCaptureProofs`, `PortalInjectorProofs` | theorems and proofs, each about the module it is named after | |
| `GeometryProofs` | proofs about `MCGeometry`, where a crossing is a step | |
| `PlatformProofs` | proofs about `Win32Capture`, `KeyMap`, `KeyTravel`, and about the back ends side by side (`MCPlatform`) | |
| `ProgramsProofs` | proofs about `BackendRegistry`, `RunControl`, `Client`, `RpcTransport`, `Settings`, and about them side by side (`MCPrograms`) | |

`Server` EXTENDS `InputRouter`, which EXTENDS `ScreenStore`, which EXTENDS
`Topology`. `StoreSpec` of `ScreenStore` is an abstract specification of
`Server` (the sessions, the router and the queues are left out of it), and
`Focus` is another. `MessageChannel` and `CaptureBackend` are the abstract
specifications of what the server and the client rest on. `KeyTravel` EXTENDS
`KeyMap`. `MCPlatform` puts the back ends side by side and `MCPrograms` what
runs around the server: these modules share no variable, so a variable `part`
says which of them a behaviour is about; each is explored in full, and the
number of states is the sum, not the product.

### Correspondence

`mScreens` is a set of `VirtualScreen` records. A registration gives the
screens of an endpoint different keys, so the multimap's order is the order of
(endpoint, index); `FirstOf` uses it where the code iterates. `mTopology` is
the record of the two maps. `config` is the list of layout entries as a
function from keys to cells. `reported` is a history variable: the list each
endpoint sent last.

`registerScreens` is a loop in which every iteration depends on the cells taken
by those before it. `ReplaceScreens` states it without recursion: there are a
cell for every index and a set of added indices such that each index satisfies
what one iteration of the loop establishes, given the ones before it
(`IsRegistration`). There is exactly one such choice; TLC enumerates
candidates, the proofs reason about the facts.

`mActiveScreen` is the record of the screen it points to. If the store erases
the node and the pointer stays, the record is no longer in `mScreens`:
`ActiveIsRegistered` is the absence of a dangling pointer.

The channel of a session is `queue[ep]`. `senders` are the entries of
`mSenders`; `readers` are the channels somebody still reads: `trySend` needs
both and a free place. `sent[ep]` is the last cursor position written to the
connection; `dropped` says the last position could not be queued.

The stages of a session are `handshake`, `open` (both loops), and `closing`
(the wait in `shutdown()`); the guard's `onClosed` ends it. An action of
`Server` is what one coroutine does between two `co_await`s. In particular
`StartWriter` and `ReadScreens` come in either order, and between `EndLoops`
and `CloseSession` anything may happen.

`UpdateCapture` models the backend by what the router asks of it: it may refuse
to take the input over (the router logs that and goes on), and gives it back
when told to. That is `CaptureBackend`, which the X11 and the Win32 capture are
proved to implement. The portal capture gives input back in `moveLocalCursor`
instead; `PortalCapture` has its own account of it.

`Stop` is the cancellation of `run()` (Ctrl-C, the window's stop button, an
error of the event loop). `Crash` is the death of the process; all that is
left is the saved layout.

`XcbCapture`: a request without a reply goes into `buffer`, which holds what
the requests in it release; a flush or a round trip carries them out
(`Settled`). `x` is the X server. A raw and a core event of one input carry its
number, so that `reported` shows what was told twice.

`Win32Capture`: the server's thread posts a call and waits, so there is one
`call` at a time; the hooks run on the UI thread between any two. The desktop is
a line. `sums` are history, the accounts of a remote period: on one side what
the user and what other programs moved, on the other what went into events of
the channel, into events that a full channel dropped, and into motions that made
no event (`win32.cpp:744`). `MotionIsConserved` says that the sides are equal,
up to where the cursor stands, and that the last account is empty unless another
program has moved the cursor.

`PortalCapture`: `signals` are the D-Bus signals the GLib thread has not
handled, `socket` the events the program has not read, and `requests` the
closures posted to the GLib thread. The compositor numbers its activations;
`activationId` is what `CaptureState` knows. The enable of a session that is
gone is undefined behaviour in the code: the model lets the program go on or
die.

`PortalInjector`: `eis` is the truth about each device, `devices` what the
injector believes, `notices` what lies between.

`KeyMap` has the rows of the tables as sets of usages, not their names. A
physical key is the usage printed on it. `KeyTravel` knows the native codes of
the keys its runs press (`KnownKeys`). The keypad is the point where the tables
differ: an X11 server looks keys up in column 0 of its key map, where the digits
of the keypad are not, and sends them without a name.

`RpcTransport`: a number on `wire` is a field of a header or a byte of a
payload, and only its place tells which; sizes are reduced modulo the width of
the header's field, `MaxPayload + 1`.

`Client`: connections have names that are used again by later runs. The
server's half is a projection of `Server` to what a client can see.

`Settings`: the signals between the two presenters are direct calls, so one
operation of the user is one step, a function from a record of files, ids and
window state to another. `CrashInSave` is the death of a program between the
truncation of a file and its last write. `run` holds the copy of the
configuration a service took when it started; `Remember` writes all of it, over
whatever has been saved since.

`RunControl`: `body` is where the coroutine of a run is; the buttons act at
every wait of it. `BackendRegistry`: `offers` is what the machine supports,
which changes between a check and the creation of the back end; `seen` and
`failed` are history, what each back end had to offer since the choice began and
whose creation failed.

## Runs

| Run | Instance | What it shows |
|---|---|---|
| `store_exclusive` | server, 2 clients, lists of one and two screens, one with an empty rectangle, 3 saved layouts | `StoreTypeOK`, `MapsAgree`, `TopologyIsRoutable`, `RoutableIsInTopology`, `LayoutFollowsTopology`, `ClientScreensRegistered`, `RemovalIsLocal` |
| `reconnect` | one machine id shared by both clients | violated: `RemovalIsLocal` |
| `layout_order` | server and 2 clients of one screen each, nothing saved at first | violated: `ClientsFindTheirCells` |
| `anchor` | the layout of a server with one monitor | violated: `LocalScreensRegistered` |
| `geometry` | two screens of all sizes up to 5, all border points and overshoots by a pixel | `EntersOnTheBorder`, `EntryIsProportional`, `CrossingBackIsExact` |
| `input` | server and one client with one or two screens of different sizes; motion by position and by raw delta, one that overshoots a whole screen; a queue of one | `ServerTypeOK`, `CursorOnScreen`, `ClientWillAgree`, `InputGoesToTheCursor` |
| `session` | 2 clients with one screen or none, motions across borders | `ActiveIsRegistered`, `CursorHasAScreen`, `CaptureFollowsCursor`, `ScreensHaveASession`, `NothingLeftBehind`; `Server` implements `ScreenStore` and `Focus` |
| `liveness` | 2 clients, fairness | `CursorLeavesClosing`, `RunReturns` |
| `platform` | the captures, the portal injector, and keys between any two systems (the bounds are in `MCPlatform`) | `MotionIsConserved`, `BeliefsAreTrue`, `ReportedOnceInOrder`, `CaptureHasAReader`, `ActivationIsKnown`, `EventsAreTaken`, `CapturePromise`, `ReleaseArrives`, `KeysArrive` |
| `programs` | the choice of a back end, two files, two runs of the window, two connections of a client, a transport (the bounds are in `MCPrograms`) | `PicksTheFirstSuitable`, `RunMatchesWindow`, `ScreensHaveAnInjector`, `RunEnds`, `FilesAreTheUsers`, `GhostScreensLeave`, `ClientRunsEnd`, `ChannelPromise` |
| `portal_return` | one activation | violated: `ReturnReleases` |
| `keys_digits` | from Windows to Windows | violated: `DigitsAreDigits` |

The bounds. Two clients are enough for what one connection can do to another:
every property relates at most two endpoints. Two screens a machine give a
primary that is not first, a partly refused list and neighbours of one owner. Screens of one to
three pixels have borders, corners and (at three) an inside, and a border of
one pixel, which has no scale. A queue of one is full after one message, so the
losses a queue of ten has happen early. Endpoints are reused by later
connections, which the code allows and which keeps the instance finite. No
counter is cut off in the runs of the store and the server: they explore their
full state space.

The bounds of `platform` and `programs` limit what the environment does: moves
of the mouse, activations, notices on a socket, lost X servers, changes of what
a machine offers, machine ids ever generated, messages written, runs of the
window. They are chosen so that one occurrence can meet the late effects of the
one before: two messages after a broken one, a second run that meets the session
of the first, three activations of which the signals of one may cross the
release of the next, a full channel with a motion onto the anchor behind it. In
`programs` every file can be written (a file that cannot be written only turns
more operations into failures), and one service runs at a time.

`ExclusiveOwners` is the assumption that a machine id has one connection at a
time. The server does not enforce it, so the properties that need it say so,
and `reconnect` runs without it. What holds without it is proved for shared
owners too (see below), and needs no run of its own.

Deadlock is checked in the runs of the store and the server. It is not in
`geometry`, where a point from which no border is crossed has no successor, and
in the other runs, where a bound or the end of a program stops everything.

### What the violated runs mean

* `reconnect`: `removeScreen` removes screens from the topology by owner id, not
  by endpoint. If a machine connects again before its first connection has
  ended, the end of either takes the screens of both off the grid, while those
  of the other one stay in `mScreens`. Comment at
  `src/app/server_screens.hpp:65`: "Remove all screens owned by @p endpoint."
* `layout_order`: client a gets the cell next to the server and leaves; b, which
  nobody has seen before, gets the same cell, since `nextFreeCell` looks only at
  screens that are connected; when a comes back its saved cell is occupied and it
  is moved to the next one, for good. No screen of the server is involved.
  `docs/development_plan.md:582` has independence of the order of connections as
  done, and the comment at `src/app/server_screens.cpp:61-62` wants the saved
  layout to win over automatic placement.
* `anchor`: the comment at `src/app/server_screens.cpp:85-86` promises that a
  stale cell is repaired; the anchor's cell at the origin is not, and a local
  primary screen is lost.
* `portal_return`: the comment at `src/platform/wayland_portal.cpp:735-736` says
  the router moves the cursor, and so releases the input, whenever it switches
  back to a local screen. It does when the mouse crosses back; F12 and the end
  of the active connection switch back without a move, and the compositor goes
  on withholding the input until it ends the activation itself.
* `keys_digits`: `virtualKeyToKey` adds to `Digit0`, but the usages of the
  digits run from 1 to 9 and then 0. A 1 of a Windows server is an Enter on the
  client. `src/core/key.hpp:80`: "Digit1 = 0x1e, // Keyboard 1 and !".

### Other places where code and comments differ

Met while modelling, and read off the models; no run is about them.

* `src/app/client.cpp:52-54` says that injection is initialized only after the
  server accepts the identity. No answer to the Hello exists; the injector
  (and, on Wayland, the desktop's question to the user) comes before the server
  has read it. What does hold is `ScreensHaveAnInjector`.
* `src/platform/wayland_portal.cpp:941` keeps the modifiers of one activation
  for the next; a modifier that changes while nothing is captured is not seen,
  while `src/core/events.hpp:41` calls the field the keys that were pressed.
* `ui/presentation/runtime_presenter.cpp:388` loads a file without giving it a
  missing machine id; a client makes one up for itself that is never saved.
  `src/config/app_config.cpp:50-51` wants it generated once and kept.
* `ui/presentation/settings_presenter.cpp:192` reports an edit of the layout as
  made after a signal has, if the two presenters had different paths, loaded
  another file over it.
* The comment at `src/platform/win32.cpp:626-628` has the hook warp the cursor back
  to the anchor after each move. A motion that ends on the anchor makes no event
  and no warp (`win32.cpp:744`, `:705`), and is swallowed. If another program had
  moved the cursor off the anchor, the user's motion is lost, the cursor stays
  where the other program put it, and the next motion is reported with that
  distance in it. `MotionIsConserved` keeps an account for such motions and says
  that this is the only case.
* `src/platform/xcb.cpp:989-1011` has rows for the keysyms of the keypad's digits,
  which the lookup in column 0 (`xcb.cpp:1083`) does not return. These keys are
  sent without a name; an X11 or a Windows client presses the code it gets, and a
  client on Wayland refuses the event and ends its run. `KeysArrive` allows this
  for those keys and for no other key of an ordinary keyboard.
* A running server writes its whole copy of the configuration for each screen it
  registers (`src/app/server_screens.cpp:240-264`), also over what the window has
  saved to the same file since the server started; the save is then lost for the
  next start. `FilesAreTheUsers` lists this among the ways a save can end.
* A key without a row in a table is pressed by the number of the capturing
  machine, on X11 and Windows (`win32_key.hpp:260`, `xcb.cpp:1507`), which is
  another key there; `src/platform/wayland_keymap.hpp:16-18` says why it should
  not be.
* Before XInput 2.1 a grab window that a refused grab has left mapped lets one
  input be reported twice; `ReportedOnceInOrder` is stated accordingly.

### Fairness

`FairSpec` assumes weak fairness of the end of a session's cleanup, of the end
of the loops or the handshake of a session that is cancelled, and of the return
of `run()` after the last session. The runtime delivers cancellation to every
suspended coroutine, which justifies the second; the first is the flush and
shutdown of a socket in `RpcTransport::shutdown`, which ends when the peer
takes the data or the connection breaks. It is an assumption about the network:
a peer that stays connected and never reads can delay it. Nothing is assumed of
clients: they may never say Hello, never send screens, and never read.

In `platform`, `ReleaseArrives` assumes that the GLib thread runs what is posted
to it. In `programs`, the event loop of the window runs what is due (a body that
was started, a selection that has answered, a cancelled service; not a service
that nobody stops); a client's loops that have something to read go on,
cancellation is heard, cleanups end, and a session finds that its peer has
closed the stream. Nobody has to accept a connection or answer a dialog.

## Proofs

`ScreenStoreProofs` proves, for any sets of endpoints and owners, any lists of
screens and any saved layouts:

* `StoreTypeCorrect`, `TopologyMapsAgree`, `NoGhostScreens`,
  `NoOrphanScreens`, `LayoutIsRemembered`, `NoClientScreenLost`: every
  invariant of the store's runs;
* `RemovalsAreLocal`: if owners are exclusive, `RemovalIsLocal` holds. With the
  run `reconnect` that is exact: the assumption is needed and enough.

The inductive invariant is `StoreInv`. Besides the invariants it says that
different endpoints have different owners (else the removal of one empties the
grid under another), that the grid is finite (else `nextFreeCell` need not find
a cell; `NextFreeCellIsFree` is a pigeonhole argument), and that a store that
is not serving is empty. The proof goes by operation: `RemainingFacts` is about
`removeScreen`, `RegistrationFacts` about what `addScreen` has tested of the
screens it accepts, `ReplaceKeepsInvariant` puts them together.

`ServerProofs` proves of the server, for any number of clients, any motions of
the mouse and any depth of the queues:

* `ServerImplementsStore`: `Spec => StoreSpec`. So all theorems above hold of
  the server. It rests on `SessionInv`: screens belong to sessions and carry
  the owner of theirs, and exclusive owners are held by one session each.
* `ScreensBelongToSessions`, `ActiveScreenIsAlive`, `CursorIsNeverLost`,
  `DesktopKeepsItsInput`. They rest on `RouterInv`, whose one part that is not
  a property of the runs is that the screens of an endpoint have different
  indices, so that a lookup in the multimap has one answer.
* `ServerKeepsFocus`: the server implements `Focus`. The proof sorts the steps
  of `Next` into those that leave the cursor, bring it home or move it.
* `ServerTypeCorrect` and `CursorStaysOnScreen`. The inductive invariant
  `CursorInv` adds that a position waiting to be warped to is a point. The
  proof follows a motion through `mapEntryPoint` and the clamping, for screens
  of any size and any store that `StoreInv` allows.
* `SessionsLeaveNothing`, from `ChannelInv`: what is in a channel was put
  there for a session that still is, and its queue is never over its depth.
* `InputFollowsCursor`: the action property `InputGoesToTheCursor`, from the
  invariants above.
* `ClientAlwaysAgrees`, from `AgreeInv`: unless the last position was dropped,
  the session of the active screen is read and the last position on its way is
  the cursor's. `LastPosition` is a choice over a queue; its lemmas say what
  appending and taking do to it.

`GeometryProofs` proves `EntersOnTheBorder`, `EntryIsProportional` and
`CrossingBackIsExact` for screens of every size (`CursorEntersOnTheBorder`,
`CursorEntersInProportion`, `CursorDoesNotDrift`). The invariant says that the
screens are two that touch; the rest is arithmetic of a scaling that rounds,
in lemmas of their own.

`XcbCaptureProofs` proves `BeliefsAreTrue` (`BeliefsAreAlwaysTrue`) for any number
of inputs, refused grabs and lost servers, and that the capture implements
`CaptureBackend` (`XcbImplementsCapture`). Not in the property but needed: the
pointer is ours only in remote mode, and no ungrab is in the buffer while a grab
is believed held. `ReportsAreInOrder` rests on `OrderInv`: what is still to be
read and will count is in order and after all that was reported. What counts is
the raw events alone under XInput 2.1, and all events before.

`PortalCaptureProofs` proves `CaptureHasAReader` and `ActivationIsKnown`
(`CaptureAlwaysHasAReader`, `ActivationIsAlwaysKnown`) for any number of
activations and any delay. `SessionInv`: a session is enabled by one request,
posted when the reader is there, and never again. `NumbersInv`: announcements on
their way are newer than the number known, in order, and no end of the current
activation is among them; so a late signal cannot erase it.

`PortalInjectorProofs` proves `EventsAreTaken` (`EventsAreAlwaysTaken`).
`InjectorInv` speaks of what the injector will believe once it has read
everything on the socket: one entry for each device the server has, resumed
exactly if the server resumed it, and every device not yet told to start is
told on the way. `Read` is a recursive function over the notices. That it has a
value, and that a new notice changes nothing of what comes before it, is proved
by induction in the form the provers take: a set of numbers that has 0 and every
successor is `Nat` (`AllNumbers`, from the well-foundedness of `<`).

`PlatformProofs` proves

* of `Win32Capture`, `MotionIsConserved` for any distances and any capacity
  (`MotionIsAlwaysConserved`): the accounts of a remote period are balanced by
  every step, and as long as nobody displaces the cursor it is on the anchor, so
  that only a motion of no distance makes no event; `CursorGoesWithTheMode`, and the refinement
  (`Win32ImplementsCapture`). `Modes` carries the argument: what was true when a
  call was posted still is when it runs, because only calls change the modes and
  one is on its way at a time; the hooks are there exactly while the capture is
  started and the message loop runs;
* of the keys, `KeysAlwaysArrive`, for any keys, any two systems and any number
  of events under way. `KeysInv`: whatever is down on the client is the target
  of a key that is still held or whose release is on the way, and the client
  presses the same key for both. `EveryTableHasTheKeyboard` goes through the
  rows: no injector refuses a key of an ordinary keyboard that has a name.
  `OrdinaryKeysHaveNames` and `KeypadIsUnnamed` say which keys a capture names,
  `CodesAreTried` that X11 and Windows clients press the code of an unnamed one:
  what is left are the digits of an X11 server's keypad on a Wayland client;
* `WaylandKeepsKeys`: the search of `keyFromEvdev` finds a name whose code is
  the one searched for, for every row of the table;
* of the back ends side by side, every property of the run `platform` but
  `ReleaseArrives`. A step of `MCPlatform` is a step or a stutter of each part
  (`PartsMove`), and the modules of the other proofs, instantiated with the
  variables of `MCPlatform`, define what it defines (`SameXcb`, `SamePromise`,
  `SamePortal`, `SameInjector`).

`ProgramsProofs` proves

* of `BackendRegistry`, for any descriptors, orders of registration and
  changes of what the machine offers, that a name means one back end
  (`NamesMeanOneBackend`), that a named back end is never replaced by another
  (`NothingElseIsChosen`), and that whatever goes before the one chosen there was a
  reason to refuse (`FirstSuitableIsChosen`). The invariant says that a candidate
  not left any more has failed or was seen with less than is required, and that
  the one about to be created was seen with all of it: changes between the check
  and the creation add to `seen` and take nothing away;
* of `RunControl`, the types and `RunMatchesWindow` (`WindowAndRunAgree`) for
  any number of runs and of checks. The strengthening ties the state shown to
  where the body is, and says that the mode cannot change while it is not idle;
* of `Client`, `ScreensHaveAnInjector` for any number of connections and runs:
  until the injector is up, the server has read nothing but a Hello from a
  stream the client has open, although names of streams are used again;
* of `RpcTransport`, that it implements `MessageChannel`
  (`TransportIsAChannel`), for any messages and any cuts. `TransportInv` says
  that there is a place for every message not yet delivered, such that the
  numbers buffered on both sides are those of the frames from where the reader
  stands to where the writer was cut (`IsLayout`);
* of `Settings`, `FilesAreTheUsers` (`FilesStayTheUsers`), for any paths,
  configurations and machine ids, by going through what each operation does to
  the files: which replace a damaged one (`KeepsDamage`), and which leave the
  window and the file of the next start alike (`SavedStep`);
* of these side by side, every property of the run `programs` that is not a
  liveness property.

The proofs assume what the modules state of the constants: endpoints are
numbers (the order of the map), the lists hold screens, `None` is not a value
of the other types, descriptors are finitely many, steps of the mouse are
integers, the largest extent is a number (`ExtentAssumption`), messages are of
numbers and the header's field has a width (`TransportAssumption`), and a
damaged or missing file is told from one that holds a configuration
(`SettingsAssumption`). The back ends between which keys travel are
those there are (`KeysAssumption`). Nothing is assumed in the proofs about the X11 and the
portal back ends, the client and the window. TLC evaluates every
assumption in the runs.

Model-checked and not proved: liveness (`CursorLeavesClosing`, `RunReturns`,
`ReleaseArrives`, `RunEnds`, `GhostScreensLeave`, `ClientRunsEnd`), since the
prover has no rules for ENABLED and fairness. Every other property of a passing
run is a theorem. That an induction theorem of the library cannot be
instantiated (it has an operator for a parameter) limits proofs by induction to
the form above.

## Not modelled

* Logging, formatting and the reflection code (compile-time code without state);
  parsing of arguments, which leaves nothing behind; the Qt views.
* The injectors of X11, Win32 and wlroots: stateless translations of an event
  into one request, of which the key tables are modelled (`KeyMap`). The output
  and device objects of the Wayland registry.
* Screens of the back ends: RandR, monitors, portal zones and regions, and the
  conversion of coordinates between them. A change of zones is only logged by
  the code.
* A save of the layout in `ScreenStore` always succeeds, and is one step with
  the change it saves; failures and crashes of a save are in `Settings`.
* Of the 32-bit coordinates the overflow is left out: raw deltas and screen
  sizes are far below it, and saved cells come from the program itself.
* Key and button presses are not paired with releases across a crossing or a
  full queue: the code does not pair them (`docs/development_plan.md:597`).
* A network that goes silent without an error: neither side has a keepalive, so
  there is no event to model.
* The end of the GLib thread in the destructor, and what a hook does with a
  point outside all monitors (an exception through the system's callback).
* In `Settings`, two services on one file at a time; the list of trusted clients.

## Plan

Done, in this order: `Topology` and `ScreenStore`; their proofs; `InputRouter`,
`Server` and `Focus`; their proofs; `MCGeometry`; the captures, the portal
injector and the keys; the client and the transport; files, window and choice
of a back end; proofs about all of these.

Next:

1. Safety lemmas that the liveness properties rest on, as theorems: a session
   that closes has its end among the steps that are fair, and no step but that
   one ends its cleanup; the ranks that go down.
2. The other tables of `KeyMap`: which names survive the way from one system to
   another, table by table.
3. Injection on X11 and Win32, as far as there is state in it: the key symbols
   that are read once, and the monitors a hook looks up.
