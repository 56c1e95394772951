-------------------------------- MODULE Client --------------------------------
(***************************************************************************)
(* A client and the sessions the server has for it: src/app/client.cpp,    *)
(* class Client, and its peer ServerSession.                               *)
(*                                                                         *)
(* run() connects, says Hello, starts the injector, and then reads and     *)
(* writes until one of the loops ends.  It does not connect again; the     *)
(* user starts another run, which may meet the session of the one before.  *)
(* A connection carries messages as module MessageChannel promises.        *)
(***************************************************************************)
EXTENDS Sequences, Naturals

CONSTANTS
  Conn,        \* connections; their names are used again
  NoConn,      \* of a client that has none, and none of them
  MaxPending   \* bound: input messages on their way

VARIABLES
  stage,        \* where run() is
  stopping,     \* run() is cancelled
  conn,         \* the stream of this run
  injecting,    \* the injector is initialized
  screensSent,  \* handleWrite has sent the screens, all it ever sends
  clientOpen,   \* the streams the client has not closed
  serverOpen,   \* the streams the server has not closed
  up, down,     \* what is on its way on each stream
  session,      \* the stage of the server's session
  registered    \* the sessions whose screens the server has

clientVars == <<stage, stopping, conn, injecting, screensSent>>
serverVars == <<session, registered, serverOpen>>
vars       == <<clientVars, clientOpen, up, down, serverVars>>

Stage == {"idle", "connect", "hello", "init", "loops", "closing", "closed"}

Init ==
  /\ stage = "idle" /\ stopping = FALSE /\ conn = NoConn
  /\ injecting = FALSE /\ screensSent = FALSE
  /\ clientOpen = {} /\ serverOpen = {}
  /\ registered = {}
  /\ up = [c \in Conn |-> <<>>] /\ down = [c \in Conn |-> <<>>]
  /\ session = [c \in Conn |-> "none"]
-----------------------------------------------------------------------------
\* The server's half.  Its own steps are those of module Server; here they are
\* seen from the stream.

\* acceptIncomingConnections.
Accept(c) ==
  /\ session[c] = "backlog"
  /\ session' = [session EXCEPT ![c] = "handshake"]
  /\ UNCHANGED <<clientVars, clientOpen, up, down, registered, serverOpen>>

\* handshake: the client is trusted, or the session is over at once.
Handshake(c) ==
  /\ session[c] = "handshake"
  /\ up[c] # <<>>
  /\ up' = [up EXCEPT ![c] = Tail(@)]
  /\ \/ /\ session' = [session EXCEPT ![c] = "open"]
        /\ UNCHANGED serverOpen
     \/ /\ session' = [session EXCEPT ![c] = "none"]
        /\ serverOpen' = serverOpen \ {c}
  /\ UNCHANGED <<clientVars, clientOpen, down, registered>>

\* readLoop: the screens of the client become screens of the topology.
ReadScreens(c) ==
  /\ session[c] = "open"
  /\ up[c] # <<>>
  /\ up' = [up EXCEPT ![c] = Tail(@)]
  /\ registered' = registered \cup {c}
  /\ UNCHANGED <<clientVars, clientOpen, down, session, serverOpen>>

\* writeLoop: the router has queued input for a screen of this client.
SendInput(c) ==
  /\ session[c] = "open" /\ c \in registered
  /\ Len(down[c]) < MaxPending
  /\ down' = [down EXCEPT ![c] = Append(@, "input")]
  /\ UNCHANGED <<clientVars, clientOpen, up, serverVars>>

\* The stream has ended under one of the loops, or the server stops.
ServerEnds(c) ==
  /\ session[c] = "open"
  /\ session' = [session EXCEPT ![c] = "closing"]
  /\ UNCHANGED <<clientVars, clientOpen, up, down, registered, serverOpen>>

\* Mutant of ServerClosed: a session that fails keeps its screens.
ServerClosedOnly(c) ==
  /\ session[c] \in {"backlog", "handshake", "closing"}
  /\ session' = [session EXCEPT ![c] = "none"]
  /\ serverOpen' = serverOpen \ {c}
  /\ UNCHANGED <<clientVars, clientOpen, up, down, registered>>

\* shutdown has returned, or the handshake has failed: Guard and onClosed.
ServerClosed(c) ==
  /\ session[c] \in {"backlog", "handshake", "closing"}
  /\ session' = [session EXCEPT ![c] = "none"]
  /\ registered' = registered \ {c}
  /\ serverOpen' = serverOpen \ {c}
  /\ UNCHANGED <<clientVars, clientOpen, up, down>>
-----------------------------------------------------------------------------
\* Client::run is over: the stream and the injector go with its frame.
Return ==
  /\ stage' = "idle" /\ stopping' = FALSE /\ conn' = NoConn
  /\ injecting' = FALSE /\ screensSent' = FALSE
  /\ clientOpen' = clientOpen \ {conn}

\* Called by main or by the window.  A platform without an injector, or a
\* server that does not answer, ends the run: Fails.
Run ==
  /\ stage = "idle"
  /\ stage' = "connect"
  /\ UNCHANGED <<stopping, conn, injecting, screensSent, clientOpen, up, down, serverVars>>

\* TcpStream::connect returns as soon as the server's socket has the
\* connection in its backlog.
Connect(c) ==
  /\ stage = "connect"
  /\ session[c] = "none" /\ c \notin clientOpen \cup serverOpen
  /\ stage' = "hello"
  /\ conn' = c
  /\ clientOpen' = clientOpen \cup {c}
  /\ serverOpen' = serverOpen \cup {c}
  /\ session' = [session EXCEPT ![c] = "backlog"]
  /\ up' = [up EXCEPT ![c] = <<>>]
  /\ down' = [down EXCEPT ![c] = <<>>]
  /\ UNCHANGED <<stopping, injecting, screensSent, registered>>

\* The Hello is written; nobody waits for an answer to it.
WriteHello ==
  /\ stage = "hello"
  /\ up' = [up EXCEPT ![conn] = Append(@, "hello")]
  /\ stage' = "init"
  /\ UNCHANGED <<stopping, conn, injecting, screensSent, clientOpen, down, serverVars>>

\* injector->initialize().
Initialize ==
  /\ stage = "init"
  /\ injecting' = TRUE
  /\ stage' = "loops"
  /\ UNCHANGED <<stopping, conn, screensSent, clientOpen, up, down, serverVars>>

\* Mutant of WriteScreens: the screens are sent with the Hello.
WriteScreensEarly ==
  /\ stage \in {"init", "loops"} /\ ~screensSent
  /\ up' = [up EXCEPT ![conn] = Append(@, "screens")]
  /\ screensSent' = TRUE
  /\ UNCHANGED <<stage, stopping, conn, injecting, clientOpen, down, serverVars>>

\* handleWrite; then it sleeps for ever.
WriteScreens ==
  /\ stage = "loops" /\ ~screensSent
  /\ up' = [up EXCEPT ![conn] = Append(@, "screens")]
  /\ screensSent' = TRUE
  /\ UNCHANGED <<stage, stopping, conn, injecting, clientOpen, down, serverVars>>

\* handleRead and handleMessage: the event is injected, or its failure ends
\* the loops.
Receive ==
  /\ stage = "loops" /\ down[conn] # <<>>
  /\ down' = [down EXCEPT ![conn] = Tail(@)]
  /\ stage' \in {"loops", "closing"}
  /\ UNCHANGED <<stopping, conn, injecting, screensSent, clientOpen, up, serverVars>>

\* Mutant of LoopsEnd: the end of the stream is an event like any other.
LoopsEndByUser ==
  /\ stage = "loops" /\ stopping
  /\ stage' = "closing"
  /\ UNCHANGED <<stopping, conn, injecting, screensSent, clientOpen, up, down, serverVars>>

\* A loop finds the end of the stream, or run() is cancelled.
LoopsEnd ==
  /\ stage = "loops"
  /\ stopping \/ (conn \notin serverOpen /\ down[conn] = <<>>)
  /\ stage' = "closing"
  /\ UNCHANGED <<stopping, conn, injecting, screensSent, clientOpen, up, down, serverVars>>

\* shutdownConnection: first the stream, then the injector.
CloseTransport ==
  /\ stage = "closing"
  /\ clientOpen' = clientOpen \ {conn}
  /\ stage' = "closed"
  /\ UNCHANGED <<stopping, conn, injecting, screensSent, up, down, serverVars>>

Returns == stage = "closed" /\ Return /\ UNCHANGED <<up, down, serverVars>>

\* Before the loops there is no finally: an error or a cancellation returns.
Fails ==
  /\ stage \in {"connect", "hello", "init"}
  /\ Return
  /\ UNCHANGED <<up, down, serverVars>>

\* Ctrl-C, or stop() of the window.
Cancel ==
  /\ stage # "idle" /\ ~stopping
  /\ stopping' = TRUE
  /\ UNCHANGED <<stage, conn, injecting, screensSent, clientOpen, up, down, serverVars>>

\* The session finds that the client has closed its end.
ServerFindsEnd(c) == c \notin clientOpen /\ (ServerEnds(c) \/ ServerClosed(c))

ClientStep ==
  \/ Run \/ WriteHello \/ Initialize \/ WriteScreens \/ Receive
  \/ LoopsEnd \/ CloseTransport \/ Returns \/ Fails \/ Cancel
  \/ \E c \in Conn : Connect(c)

ServerStep(c) ==
  \/ Accept(c) \/ Handshake(c) \/ ReadScreens(c) \/ SendInput(c)
  \/ ServerEnds(c) \/ ServerClosed(c)

Next == ClientStep \/ \E c \in Conn : ServerStep(c)

Spec == Init /\ [][Next]_vars

(***************************************************************************)
(* Loops that have something to read go on, cleanups end, cancellation is  *)
(* heard.  Nobody has to accept a connection, and initialize() may wait    *)
(* for a user to answer the desktop's question.                            *)
(***************************************************************************)
Fairness ==
  /\ WF_vars(Receive) /\ WF_vars(LoopsEnd)
  /\ WF_vars(CloseTransport) /\ WF_vars(Returns)
  /\ WF_vars(stopping /\ Fails)
  /\ \A c \in Conn : WF_vars(ServerFindsEnd(c))

FairSpec == Spec /\ Fairness
-----------------------------------------------------------------------------
\* A client whose injector does not work never gets the cursor: as long as
\* the server can send input for a client's screens over a stream the client
\* has open, its injector is up, through failures, cancellations and runs that
\* meet the session of the run before.
ScreensHaveAnInjector ==
  \A c \in registered \cap clientOpen : c = conn /\ injecting

\* The screens of a run that is over do not stay in the topology.
GhostScreensLeave == \A c \in Conn : c \in registered /\ c # conn ~> c \notin registered

\* Whoever waits is told: a client in its loops finds out that the server has
\* refused it, or has gone, and its run returns; and so does a run that is
\* cancelled, wherever it is.
RefusalIsFinal ==
  \A c \in Conn : stage = "loops" /\ conn = c /\ c \notin serverOpen ~> conn # c

CancelReturns == stopping ~> ~stopping

RunsEnd == RefusalIsFinal /\ CancelReturns

=============================================================================
