------------------------------ MODULE MCPrograms ------------------------------
(***************************************************************************)
(* What runs around the server: the choice of a back end, the files, the   *)
(* window's buttons, a client's runs and the transport under them.  They   *)
(* share no variable: `part` says which one a behaviour is about, and the  *)
(* others stay where they start.                                           *)
(*                                                                         *)
(*   choice     the orders of the program's back ends, 50, 100 and 200,    *)
(*              are 1, 2 and 3; one back end is registered twice with      *)
(*              different orders, one of them that of another back end,    *)
(*              and a third only by an incomplete entry                    *)
(*   files      two of them: the presenters and a service can disagree     *)
(*              about which one it is                                      *)
(*   window     two runs: one may meet what the one before it has left     *)
(*   client     two connections: a run may meet the session of the one     *)
(*              before it                                                  *)
(*   transport  sizes stop at two: messages without a payload, with        *)
(*              payloads that look like headers, one that is too large by  *)
(*              one, and one whose id the reader does not know             *)
(***************************************************************************)
EXTENDS BackendRegistry, Sequences

CONSTANTS
  Path, NoPath, DefaultPath, ReadOnly, Absent, Bad, Screen, Cell, NoCell, MaxIds,
  MaxRuns,
  Conn, NoConn, MaxPending,
  Messages, KnownIds, MaxPayload, MaxAccepted

VARIABLES
  part,
  files, ids, gui, run,
  state, stopping, token, quit, mode, body, needed, service, shown,
  runError, completed, title, checking, checks, runs,
  clientStage, clientStopping, conn, injecting, screensSent, clientOpen, serverOpen,
  up, down, session, registered,
  writer, out, wire, connection, reader, size, id, buffer, accepted, delivered

settingsVars  == <<files, ids, gui, run>>
windowVars    == <<state, stopping, token, quit, mode, body, needed, service, shown,
                   runError, completed, title, checking, checks, runs>>
clientVars    == <<clientStage, clientStopping, conn, injecting, screensSent, clientOpen,
                   serverOpen, up, down, session, registered>>
transportVars == <<writer, out, wire, connection, reader, size, id, buffer, accepted,
                   delivered>>

Files     == INSTANCE Settings
Window    == INSTANCE RunControl
Client    == INSTANCE Client WITH stage <- clientStage, stopping <- clientStopping
Transport == INSTANCE RpcTransport

\* A size is a u16, and the numbers of a message are what two of them and bytes
\* can say.
ASSUME TransportAssumption ==
  Messages \subseteq [id : Nat, body : Seq(Nat)] /\ MaxPayload \in Nat

\* A file that is missing or damaged is not one that holds a config; the empty
\* path names no file.
AnyConfig == [id : Nat, layout : Files!Layout]
ASSUME SettingsAssumption ==
  /\ Absent \notin AnyConfig /\ Bad \notin AnyConfig /\ Absent # Bad
  /\ NoPath \notin Path /\ DefaultPath \in Path

Entry(name, order, complete) == [name |-> name, order |-> order, complete |-> complete]

MCDescriptor ==
  {Entry(1, 2, TRUE), Entry(2, 1, TRUE), Entry(2, 2, TRUE), Entry(3, 0, FALSE)}

SmallMessages ==
  {[id |-> 1, body |-> <<>>], [id |-> 2, body |-> <<0, 1>>],
   [id |-> 2, body |-> <<1, 1, 0>>], [id |-> 3, body |-> <<1>>]}

\* The choices of a part that does not move are of no interest, nor is what a back end
\* offers that has only an incomplete entry.
MCInit ==
  /\ part \in {"choice", "files", "window", "client", "transport"}
  /\ Init /\ Files!Init /\ Window!Init /\ Client!Init /\ Transport!Init
  /\ \A n \in Name :
       (part # "choice" \/ \A d \in Descriptor : d.name = n => ~d.complete) => offers[n] = {}
  /\ part # "files" => \A p \in Path : files[p] = Bad

ChoiceMoves ==
  /\ part = "choice" /\ Next
  /\ UNCHANGED <<settingsVars, windowVars, clientVars, transportVars>>
FilesMove ==
  /\ part = "files" /\ Files!Next
  /\ UNCHANGED <<vars, windowVars, clientVars, transportVars>>
WindowMoves ==
  /\ part = "window" /\ Window!Next
  /\ UNCHANGED <<vars, settingsVars, clientVars, transportVars>>
ClientMoves ==
  /\ part = "client" /\ Client!Next
  /\ UNCHANGED <<vars, settingsVars, windowVars, transportVars>>
TransportMoves ==
  /\ part = "transport" /\ Transport!Next
  /\ UNCHANGED <<vars, settingsVars, windowVars, clientVars>>

MCNext ==
  /\ ChoiceMoves \/ FilesMove \/ WindowMoves \/ ClientMoves \/ TransportMoves
  /\ UNCHANGED part

MCSpec ==
  /\ MCInit
  /\ [][MCNext]_<<part, vars, settingsVars, windowVars, clientVars, transportVars>>
  /\ part # "window" \/ Window!Fairness
  /\ part # "client" \/ Client!Fairness
-----------------------------------------------------------------------------
\* The window and the run it controls agree, whatever the user presses during
\* the waits of the run.
RunMatchesWindow == Window!RunMatchesWindow

\* Nothing the user asks the window to end goes on.
RunEnds == Window!RunEnds

\* A damaged file is not replaced unless its user or a server that runs on it saves;
\* what was saved is what the next start reads, until the user changes the window's
\* configuration or the file, a program dies in a save, or a server that runs on the
\* file writes its own copy over it.
FilesAreTheUsers == Files!FilesAreTheUsers

\* A client whose injector does not work never gets the cursor.
ScreensHaveAnInjector == Client!ScreensHaveAnInjector

\* The screens of a client's run that is over leave the topology.
GhostScreensLeave == Client!GhostScreensLeave

\* A client's run that is refused, left alone or cancelled returns.
ClientRunsEnd == Client!RunsEnd

\* The transport is a message channel: however the stream is cut and wherever
\* a write or the connection ends, the messages readMessage returns are those
\* that were written, whole and in order, and no part of a frame is ever taken
\* for a message.
ChannelPromise == Transport!ChannelPromise

=============================================================================
