---------------------------- MODULE RpcTransport ----------------------------
(***************************************************************************)
(* One direction of a connection: src/rpc/transport.cpp, class             *)
(* RpcTransport, with the loop that writes at one end and the loop that    *)
(* reads at the other.                                                     *)
(*                                                                         *)
(* The stream carries numbers.  A u16 of the header is one of them, a byte *)
(* of a payload another, and nothing but its place tells the reader which  *)
(* is which.  The stream delivers them a few at a time; a write may be     *)
(* cancelled or fail between any two, and so may the connection.           *)
(***************************************************************************)
EXTENDS Sequences, Naturals

CONSTANTS
  Messages,     \* the messages writeMessage is given: records of an id, a
                \* number, and a body, a sequence of numbers
  KnownIds,     \* the ids of the alternatives of RpcMessage
  MaxPayload,   \* the maximum of uint16_t
  MaxAccepted   \* bound: how many messages are written

VARIABLES
  writer,      \* the writing loop: between messages, in one, or over
  out,         \* what is left of the frame being written
  wire,        \* what the reader has not taken
  connection,  \* open, shut down by the writer's end, or broken
  reader,      \* what readMessage waits for
  size, id,    \* the header it has read
  buffer,      \* the payload so far
  accepted, delivered   \* history

writerVars == <<writer, out, accepted>>
readerVars == <<reader, size, id, buffer, delivered>>
vars       == <<writerVars, readerVars, wire, connection>>

\* writeHeader and the payload; the size is cast to 16 bits.
Frame(m) == <<Len(m.body) % (MaxPayload + 1), m.id>> \o m.body

\* A payload whose size the header can say.
Fits(m) == Len(m.body) <= MaxPayload
-----------------------------------------------------------------------------
Init ==
  /\ writer = "idle" /\ out = <<>> /\ wire = <<>> /\ connection = "open"
  /\ reader = "size" /\ size = 0 /\ id = 0 /\ buffer = <<>>
  /\ accepted = <<>> /\ delivered = <<>>

\* writeMessage, called by writeLoop of the server or handleWrite of the
\* client: nothing of a message that is too large is written.
WriteMessage ==
  /\ writer = "idle"
  /\ connection = "open"
  /\ Len(accepted) < MaxAccepted
  /\ \E m \in Messages :
       IF Fits(m)
       THEN /\ writer' = "writing"
            /\ out' = Frame(m)
            /\ accepted' = Append(accepted, m)
       ELSE writer' = "failed" /\ UNCHANGED <<out, accepted>>
  /\ UNCHANGED <<readerVars, wire, connection>>

\* The stream takes the next number.  Once the last one is taken and flushed,
\* the loop goes on.
Push ==
  /\ writer = "writing" /\ connection = "open"
  /\ wire' = Append(wire, Head(out))
  /\ out' = Tail(out)
  /\ writer' = IF Len(out) = 1 THEN "idle" ELSE "writing"
  /\ UNCHANGED <<readerVars, connection, accepted>>

\* Mutant of EndWrite: after a write that was cut short comes the next one.
CutShort ==
  /\ writer \in {"idle", "writing"}
  /\ writer' = "idle"
  /\ out' = <<>>
  /\ UNCHANGED <<readerVars, wire, connection, accepted>>

\* The write fails or is cancelled, with a part of its frame on the way: the
\* loop is over, and no other message follows.
EndWrite ==
  /\ writer \in {"idle", "writing"}
  /\ writer' = "failed"
  /\ out' = <<>>
  /\ UNCHANGED <<readerVars, wire, connection, accepted>>

\* shutdown and close, in the finally of the loops: what is on the way
\* arrives, and then the end of the stream.
Shutdown ==
  /\ writer = "failed" /\ connection = "open"
  /\ connection' = "shut"
  /\ UNCHANGED <<writerVars, readerVars, wire>>

\* The connection breaks: the reader may still get a part of what is on its
\* way, and then an error.
Break ==
  /\ connection = "open"
  /\ connection' = "broken"
  /\ \E n \in 0..Len(wire) : wire' = SubSeq(wire, 1, n)
  /\ UNCHANGED <<writerVars, readerVars>>

\* readHeader.
ReadSize ==
  /\ reader = "size" /\ wire # <<>>
  /\ size' = Head(wire)
  /\ wire' = Tail(wire)
  /\ reader' = "id"
  /\ UNCHANGED <<writerVars, connection, id, buffer, delivered>>

ReadId ==
  /\ reader = "id" /\ wire # <<>>
  /\ id' = Head(wire)
  /\ wire' = Tail(wire)
  /\ buffer' = <<>>
  /\ reader' = "payload"
  /\ UNCHANGED <<writerVars, connection, size, delivered>>

\* readAll: whatever is there, until the payload is complete.
ReadPayload ==
  /\ reader = "payload" /\ Len(buffer) < size /\ wire # <<>>
  /\ buffer' = Append(buffer, Head(wire))
  /\ wire' = Tail(wire)
  /\ UNCHANGED <<writerVars, connection, reader, size, id, delivered>>

\* findById and the parser: an id of no alternative ends the reading loop.
Parse ==
  /\ reader = "payload" /\ Len(buffer) = size
  /\ IF id \in KnownIds
     THEN /\ delivered' = Append(delivered, [id |-> id, body |-> buffer])
          /\ reader' = "size"
     ELSE reader' = "failed" /\ UNCHANGED delivered
  /\ UNCHANGED <<writerVars, wire, connection, size, id, buffer>>

\* The stream ends between two messages or inside one: an error in each case.
ReadFails ==
  /\ reader \in {"size", "id", "payload"}
  /\ wire = <<>> /\ connection # "open"
  /\ reader = "payload" => Len(buffer) < size
  /\ reader' = "failed"
  /\ UNCHANGED <<writerVars, wire, connection, size, id, buffer, delivered>>

\* The reading loop is cancelled: the other loop of its end is over.
CancelRead ==
  /\ reader \in {"size", "id", "payload"}
  /\ reader' = "failed"
  /\ UNCHANGED <<writerVars, wire, connection, size, id, buffer, delivered>>

Read == ReadSize \/ ReadId \/ ReadPayload \/ Parse \/ ReadFails

Next == WriteMessage \/ Push \/ EndWrite \/ Shutdown \/ Break \/ Read \/ CancelRead

Spec == Init /\ [][Next]_vars

-----------------------------------------------------------------------------
\* The transport is a message channel: however the stream is cut and wherever
\* a write or the connection ends, the messages that readMessage returns are
\* those that were written, whole and in order, and no part of a frame is ever
\* taken for a message.
Channel == INSTANCE MessageChannel WITH open <- writer # "failed"

ChannelPromise == Channel!ChannelSpec

=============================================================================
