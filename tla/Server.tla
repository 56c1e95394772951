------------------------------- MODULE Server -------------------------------
(***************************************************************************)
(* The server process: src/app/server.cpp, class Server, with a            *)
(* ServerSession (src/app/server_session.cpp) for every connection.        *)
(*                                                                         *)
(* All of it runs on one thread.  The coroutines that share the store, the *)
(* router and mClientSenders are the accept loop, the event loop, and the  *)
(* handshake, read loop, write loop and cleanup of every session; an       *)
(* action is what one of them does from one co_await to the next.          *)
(***************************************************************************)
EXTENDS InputRouter

CONSTANT TrustedOwner   \* the owner ids isTrustedClient accepts

Client == Endpoint \ {LocalEndpoint}

VARIABLES
  session,    \* the stage of run() each client's session is in
  owner,      \* mOwnerId of the session, and mEndpointOwners of the store
  accepting,  \* the accept loop has not ended
  stopping,   \* run() is cancelled
  sent        \* the cursor position last written to each connection, or None

sessionVars == <<session, owner, accepting, stopping>>
vars        == <<storeVars, routerVars, sessionVars, sent>>

Stage == {"none", "handshake", "open", "closing"}

NoSessions ==
  /\ session' = [ep \in Client |-> "none"]
  /\ owner' = [ep \in Client |-> None]
  /\ sent' = [ep \in Client |-> None]

NoChannels ==
  /\ senders' = {}
  /\ readers' = {}
  /\ queue' = [ep \in Client |-> <<>>]
  /\ dropped' = FALSE
-----------------------------------------------------------------------------
Init ==
  /\ StoreInit
  /\ activeScreen = None /\ activePoint = None
  /\ lastLocalMouse = None /\ pendingLocalWarp = None
  /\ remoteControl = FALSE
  /\ senders = {} /\ readers = {} /\ dropped = FALSE
  /\ queue = [ep \in Client |-> <<>>]
  /\ session = [ep \in Client |-> "none"]
  /\ owner = [ep \in Client |-> None]
  /\ sent = [ep \in Client |-> None]
  /\ accepting = FALSE /\ stopping = FALSE

\* run, up to the start of the two loops.
Start ==
  /\ RegisterLocal
  /\ AfterRegistration(LocalEndpoint)
  /\ accepting' = TRUE
  /\ stopping' = FALSE
  /\ UNCHANGED <<channelVars, dropped, session, owner, sent>>

\* acceptIncomingConnections.  An error ends the loop, and nothing else.
Accept(ep) ==
  /\ serving /\ accepting
  /\ session[ep] = "none"
  /\ session' = [session EXCEPT ![ep] = "handshake"]
  /\ UNCHANGED <<storeVars, routerVars, owner, accepting, stopping, sent>>

AcceptFails ==
  /\ serving /\ accepting
  /\ accepting' = FALSE
  /\ UNCHANGED <<storeVars, routerVars, session, owner, stopping, sent>>

\* handshake: the Hello of a trusted client.  ExclusiveOwners is about the
\* clients: the server makes no test that the machine id is not in use.
Hello(ep) ==
  /\ session[ep] = "handshake"
  /\ \E o \in ClientOwner \cap TrustedOwner :
       /\ ExclusiveOwners => o # LocalOwner /\ \A other \in Client : owner[other] # o
       /\ owner' = [owner EXCEPT ![ep] = o]
  /\ session' = [session EXCEPT ![ep] = "open"]
  /\ UNCHANGED <<storeVars, routerVars, accepting, stopping, sent>>

\* The guard of run, and onClosed: the endpoint loses its screens, its sender
\* and its owner.
OnClosed(ep) ==
  /\ RemoveScreens(ep)
  /\ AfterRemoval(ep)
  /\ senders' = senders \ {ep}
  /\ owner' = [owner EXCEPT ![ep] = None]
  /\ session' = [session EXCEPT ![ep] = "none"]
  /\ sent' = [sent EXCEPT ![ep] = None]
  /\ UNCHANGED <<serving, readers, queue, dropped, accepting, stopping>>

\* Mutant of HandshakeFails: a session that is stopped waits for its Hello.
HandshakeOutlivesStop(ep) == session[ep] = "handshake" /\ ~stopping /\ OnClosed(ep)

\* handshake: the connection breaks, or the client is not trusted; then its
\* owner is remembered and forgotten without a wait between.
HandshakeFails(ep) == session[ep] = "handshake" /\ OnClosed(ep)

\* Mutant of StartWriter: the write loop may start after the loops have ended.
StartWriterLate(ep) ==
  /\ session[ep] \in {"open", "closing"}
  /\ ep \notin readers
  /\ senders' = senders \cup {ep}
  /\ readers' = readers \cup {ep}
  /\ UNCHANGED <<storeVars, cursorVars, queue, dropped, sessionVars, sent>>

\* writeLoop publishes its sender.  The read loop starts first and may have
\* handled a message by then.
StartWriter(ep) ==
  /\ session[ep] = "open"
  /\ ep \notin readers
  /\ senders' = senders \cup {ep}
  /\ readers' = readers \cup {ep}
  /\ UNCHANGED <<storeVars, cursorVars, queue, dropped, sessionVars, sent>>

\* writeLoop sends the next message: it is on its way, in order, until the
\* connection breaks.
Write(ep) ==
  /\ ep \in readers
  /\ queue[ep] # <<>>
  /\ queue' = [queue EXCEPT ![ep] = Tail(@)]
  /\ sent' = IF Head(queue[ep]).kind = "move"
             THEN [sent EXCEPT ![ep] = Head(queue[ep]).at]
             ELSE sent
  /\ UNCHANGED <<storeVars, cursorVars, senders, readers, dropped, sessionVars>>

\* readLoop handles a ScreensMessage.
ReadScreens(ep) ==
  /\ session[ep] = "open"
  /\ \E infos \in ScreenLists : ReplaceScreens(ep, owner[ep], infos)
  /\ AfterRegistration(ep)
  /\ UNCHANGED <<serving, channelVars, dropped, sessionVars, sent>>

\* Mutant of EndLoops: the session is over without its cleanup.
EndLoopsOnly(ep) ==
  /\ session[ep] = "open"
  /\ session' = [session EXCEPT ![ep] = "none"]
  /\ readers' = readers \ {ep}
  /\ queue' = [queue EXCEPT ![ep] = <<>>]
  /\ UNCHANGED <<storeVars, cursorVars, senders, dropped, owner, accepting, stopping, sent>>

\* Mutant of EndLoops: the screens leave mScreens before the wait, and the
\* topology after it.
EndLoopsAndScreens(ep) ==
  /\ session[ep] = "open"
  /\ session' = [session EXCEPT ![ep] = "closing"]
  /\ readers' = readers \ {ep}
  /\ queue' = [queue EXCEPT ![ep] = <<>>]
  /\ mScreens' = RemainingScreens(ep)
  /\ UNCHANGED <<config, mTopology, serving, reported, cursorVars, senders, dropped, owner,
                 accepting, stopping, sent>>

(***************************************************************************)
(* One of the two loops ends, by an error, by the end of the connection or *)
(* because the session is cancelled, and the other is cancelled; what the  *)
(* queue held is lost.  The wait of shutdown() follows, during which the   *)
(* endpoint still has its screens, and its sender with nobody to read.     *)
(***************************************************************************)
EndLoops(ep) ==
  /\ session[ep] = "open"
  /\ session' = [session EXCEPT ![ep] = "closing"]
  /\ readers' = readers \ {ep}
  /\ queue' = [queue EXCEPT ![ep] = <<>>]
  /\ UNCHANGED <<storeVars, cursorVars, senders, dropped, owner, accepting, stopping, sent>>

\* The wait of shutdown() is over.
CloseSession(ep) == session[ep] = "closing" /\ OnClosed(ep)

\* waitPlatformEvent: the router handles one captured event.
MouseMove ==
  /\ serving /\ ~stopping
  /\ \E m \in MouseSamples : HandleMouseMove(m) \/ HandleRemoteMouseMove(m)
  /\ UNCHANGED <<storeVars, sessionVars, sent>>

OtherInput ==
  /\ serving /\ ~stopping
  /\ HandleOther
  /\ UNCHANGED <<storeVars, sessionVars, sent>>

Hotkey ==
  /\ serving /\ ~stopping
  /\ HandleHotkey
  /\ UNCHANGED <<storeVars, sessionVars, sent>>

\* run is cancelled: the two loops end, and the scope of the accept loop
\* waits for the sessions, which are cancelled.
Stop ==
  /\ serving /\ ~stopping
  /\ stopping' = TRUE
  /\ accepting' = FALSE
  /\ UNCHANGED <<storeVars, routerVars, session, owner, sent>>

\* Everything but the saved layout is gone: the process, or the Server.
Gone ==
  /\ Restart
  /\ activeScreen' = None /\ activePoint' = None
  /\ lastLocalMouse' = None /\ pendingLocalWarp' = None
  /\ remoteControl' = FALSE
  /\ NoChannels
  /\ NoSessions
  /\ accepting' = FALSE /\ stopping' = FALSE

\* run returns once the last session has ended.
Stopped ==
  /\ stopping
  /\ \A ep \in Client : session[ep] = "none"
  /\ Gone

\* The process dies.
Crash == Gone

SessionStep(ep) ==
  \/ Accept(ep) \/ Hello(ep) \/ HandshakeFails(ep) \/ StartWriter(ep)
  \/ Write(ep) \/ ReadScreens(ep) \/ EndLoops(ep) \/ CloseSession(ep)

Next ==
  \/ Start \/ AcceptFails \/ Stop \/ Stopped \/ Crash
  \/ MouseMove \/ OtherInput \/ Hotkey
  \/ \E ep \in Client : SessionStep(ep)

Spec == Init /\ [][Next]_vars

(***************************************************************************)
(* What is certain to happen: a cleanup that has begun ends, once the peer *)
(* takes what is buffered or the connection breaks; a cancelled session    *)
(* ends; and run returns after the last of them.  Nothing makes a client   *)
(* say Hello, or a write loop whose peer does not read go on.              *)
(***************************************************************************)
Fairness ==
  /\ \A ep \in Client : /\ WF_vars(CloseSession(ep))
                        /\ WF_vars(stopping /\ EndLoops(ep))
                        /\ WF_vars(stopping /\ HandshakeFails(ep))
  /\ WF_vars(Stopped)

FairSpec == Spec /\ Fairness
-----------------------------------------------------------------------------
\* The variables hold values of the members they stand for, and no queue is
\* longer than its channel.
ServerTypeOK ==
  /\ StoreTypeOK
  /\ activeScreen \in VirtualScreen \cup {None}
  /\ activePoint \in ScreenPoint \cup {None}
  /\ lastLocalMouse \in LocalPosition \cup {None}
  /\ pendingLocalWarp \in ScreenPoint \cup {None}
  /\ remoteControl \in BOOLEAN /\ dropped \in BOOLEAN
  /\ senders \subseteq Client /\ readers \subseteq senders
  /\ queue \in [Client -> Seq(Message)]
  /\ \A ep \in Client : Len(queue[ep]) <= QueueDepth
  /\ session \in [Client -> Stage]
  /\ owner \in [Client -> OwnerId \cup {None}]
  /\ accepting \in BOOLEAN /\ stopping \in BOOLEAN
  /\ sent \in [Client -> ScreenPoint \cup {None}]

\* mActiveScreen is never dangling: it points to a screen that is in the store
\* as long as the router may follow it.
ActiveIsRegistered == activeScreen # None => activeScreen \in mScreens

\* Input has somewhere to go whenever the server has a screen of its own: the
\* cursor comes home from a client that disconnects or changes its screens.
CursorHasAScreen ==
  serving => (activeScreen = None <=> \A v \in mScreens : ~v.local)

\* The capture backend withholds input from the server's desktop only while
\* that input goes to a client.
CaptureFollowsCursor == remoteControl => IsRemote(activeScreen)

\* The virtual cursor is on the screen that is active, within its pixels.
CursorOnScreen ==
  IsRemote(activeScreen) =>
    /\ activePoint # None
    /\ activePoint.key = activeScreen.key
    /\ ExclusiveOwners => /\ activePoint.x \in 0..(activeScreen.info.width - 1)
                          /\ activePoint.y \in 0..(activeScreen.info.height - 1)

\* The screens of a client are those of a session that is open or in its
\* cleanup, under the owner of that session.
ScreensHaveASession ==
  \A v \in mScreens : ~v.local =>
    /\ session[v.endpoint] \in {"open", "closing"}
    /\ v.key.ownerId = owner[v.endpoint]

\* Nothing of a connection outlives its session: no sender, no message, no
\* owner that the next connection from the endpoint would inherit.
NothingLeftBehind ==
  \A ep \in Client :
    /\ session[ep] = "none" => owner[ep] = None /\ sent[ep] = None
    /\ session[ep] \in {"none", "handshake"} => ep \notin senders
    /\ session[ep] # "open" => ep \notin readers /\ queue[ep] = <<>>

\* The last position among the messages of a queue, or p if it has none.
LastPosition(messages, p) ==
  LET moves == {i \in DOMAIN messages : messages[i].kind = "move"}
  IN IF moves = {} THEN p
     ELSE messages[CHOOSE i \in moves : \A j \in moves : j <= i].at

\* The position a client has been sent, or will be from its queue.
CursorAtClient(ep) == LastPosition(queue[ep], sent[ep])

\* Unless its queue had no room for the last move, the client will have the
\* cursor where the server has it: absolute positions make up for lost ones.
ClientWillAgree ==
  IsRemote(activeScreen) /\ activeScreen.endpoint \in readers /\ ~dropped =>
    CursorAtClient(activeScreen.endpoint) = activePoint

\* A step queues input for one client at most: the one whose screen the cursor
\* is on after the step, and at the position it has there.
InputGoesToTheCursor ==
  [][\A ep \in Client :
       Len(queue'[ep]) > Len(queue[ep]) =>
         LET message == queue'[ep][Len(queue'[ep])]
         IN /\ IsRemote(activeScreen') /\ activeScreen'.endpoint = ep
            /\ message.kind # "key" => message.at = activePoint']_vars

\* What the server promises of its keyboard and mouse: module Focus, seen in
\* the active screen, in who has screens and in the capture backend's mode.
Present == {v.endpoint : v \in {v \in mScreens : ~v.local}}
FocusNow == IF IsRemote(activeScreen) THEN activeScreen.endpoint ELSE LocalEndpoint

Input == INSTANCE Focus WITH Home <- LocalEndpoint, present <- Present,
                             focus <- FocusNow, withheld <- remoteControl

FocusPromise == Input!FocusSpec

\* A session in its cleanup does not keep the cursor on its screens.
CursorLeavesClosing ==
  \A ep \in Client : session[ep] = "closing" ~> ~ActiveIsOf(ep)

\* A cancelled run returns: every session ends, one that never said Hello too.
RunReturns == stopping ~> ~serving

=============================================================================
