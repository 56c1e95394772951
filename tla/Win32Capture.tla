------------------------------ MODULE Win32Capture ------------------------------
(***************************************************************************)
(* The Win32 capture (win32.cpp).  The platform's UI thread runs the       *)
(* low-level hooks and every call the server's thread posts to its window; *)
(* the server's thread waits until its call has run.  In remote mode the   *)
(* hooks swallow the user's input, pin the cursor to an anchor and report  *)
(* the distance from it.  Events reach the server through a bounded        *)
(* channel, and are dropped when it is full.                               *)
(*                                                                         *)
(* The desktop is a line: one coordinate is enough for the sums of motions *)
(* the properties are about, and an unbounded one keeps them free of       *)
(* borders, which the hooks do not see either.                             *)
(***************************************************************************)
EXTENDS Integers, Sequences

CONSTANTS Capacity,      \* of the channel, 512 in the code
          Steps,         \* distances the user or another program moves the cursor
          MaxMoves,      \* bound on the moves of a behaviour
          UiMayEnd       \* whether the message loop may fail

ASSUME Win32Assumption == /\ Capacity \in Nat \ {0} /\ Steps \subseteq Int
                          /\ MaxMoves \in Nat /\ UiMayEnd \in BOOLEAN

VARIABLES
  ui,              \* "running", or "ended" when GetMessageW has failed
  call,            \* the call the server's thread waits for, "none" without one
  started,         \* initialize has succeeded and shutdown has not
  hooks,           \* the hooks are installed
  remote,          \* mRemoteControlActive
  hidden,          \* mCursorHidden
  hasAnchor, anchor,   \* mHasRemoteAnchor, mRemoteAnchor
  cursor,          \* where the system's cursor is
  channel,         \* distances reported in remote mode; 0 for an event of local mode
  dropped,         \* mDroppedEvents
  moves,           \* moves so far
  sums             \* history of this remote period.  What came in: the user's moves
                   \* and those of other programs.  Where it went: into events in the
                   \* channel, into events a full channel dropped, into motions that
                   \* made no event.  And whether another program moved the cursor.

modes == <<hooks, remote, hidden, hasAnchor, anchor>>
vars == <<ui, call, started, modes, cursor, channel, dropped, moves, sums>>

Calls == {"initialize", "shutdown", "begin", "end", "warp"}

NoMotion == [user |-> 0, others |-> 0, queued |-> 0, dropped |-> 0, lost |-> 0,
             displaced |-> FALSE]

-----------------------------------------------------------------------------
Init == /\ ui = "running" /\ call = "none" /\ started = FALSE
        /\ hooks = FALSE /\ remote = FALSE /\ hidden = FALSE
        /\ hasAnchor = FALSE /\ anchor = 0 /\ cursor = 0
        /\ channel = <<>> /\ dropped = 0 /\ moves = 0
        /\ sums = NoMotion

\* uiCall and the wait of its caller.  Once the UI thread has reset its window,
\* PostMessageW puts the call in the caller's own queue, where nobody looks for it.
Post(c) ==
  /\ call = "none"
  /\ CASE c = "initialize"         -> ~started
       [] c = "shutdown"           -> started
       [] c = "warp"               -> started /\ ~remote   \* the router warps after "end"
       [] OTHER                    -> started
  /\ call' = c
  /\ IF c = "initialize" THEN channel' = <<>> /\ dropped' = 0
     ELSE UNCHANGED <<channel, dropped>>
  /\ UNCHANGED <<ui, started, modes, cursor, moves, sums>>

\* beginRemoteControl; without the cursor's position there is no remote mode,
\* and in remote mode already the call changes nothing.
Begin == /\ call = "begin"
         /\ \/ /\ ~remote
               /\ remote' = TRUE /\ hidden' = TRUE /\ hasAnchor' = TRUE /\ anchor' = cursor
            \/ UNCHANGED <<remote, hidden, hasAnchor, anchor>>
         /\ UNCHANGED <<started, hooks, cursor>>

EndRemote == remote' = FALSE /\ hasAnchor' = FALSE /\ hidden' = FALSE /\ UNCHANGED anchor

End == call = "end" /\ EndRemote /\ UNCHANGED <<started, hooks, cursor>>

\* installHooks: both hooks or none.
Install == /\ call = "initialize"
           /\ \/ hooks' = TRUE /\ started' = TRUE
                 /\ UNCHANGED <<remote, hidden, hasAnchor, anchor>>
              \/ hooks' = FALSE /\ UNCHANGED started /\ EndRemote
           /\ UNCHANGED cursor

\* removeHooks.
Remove == /\ call = "shutdown" /\ hooks' = FALSE /\ started' = FALSE /\ EndRemote
          /\ UNCHANGED cursor

Warp == /\ call = "warp" /\ \E p \in Steps : cursor' = p
        /\ UNCHANGED <<started, modes>>

\* messageProc runs the posted call, and the server's thread goes on.
RunCall == /\ ui = "running"
           /\ Begin \/ End \/ Install \/ Remove \/ Warp
           /\ call' = "none"
           /\ sums' = IF remote' /\ ~remote THEN NoMotion ELSE sums
           /\ UNCHANGED <<ui, channel, dropped, moves>>

-----------------------------------------------------------------------------
(* The hooks.                                                              *)

\* tryEnqueue.
Enqueue(event) == IF Len(channel) < Capacity
                  THEN channel' = Append(channel, event) /\ UNCHANGED dropped
                  ELSE dropped' = dropped + 1 /\ UNCHANGED channel

\* A motion of the user in remote mode goes into one account: that of the motions
\* without an event, that of the channel, or that of the drops.
Account(d, delta) ==
  sums' = [sums EXCEPT !.user    = @ + d,
                       !.lost    = IF delta = 0 THEN @ + d ELSE @,
                       !.queued  = IF delta # 0 /\ Len(channel) < Capacity THEN @ + delta ELSE @,
                       !.dropped = IF delta # 0 /\ Len(channel) >= Capacity THEN @ + delta ELSE @]

\* Mutant of MoveRemote: the cursor is left where the move would have taken it.
MoveRemoteAway(d) ==
  LET delta == cursor + d - anchor
  IN  /\ IF delta = 0 THEN UNCHANGED <<channel, dropped>> ELSE Enqueue(delta)
      /\ cursor' = cursor + d
      /\ Account(d, delta)

\* mouseHookProc in remote mode: the position offered is the cursor's plus the move;
\* its distance from the anchor is reported, the move is swallowed and the cursor
\* put back on the anchor.  A move that ends on the anchor makes no event and is
\* swallowed too, and the cursor stays where it was.
MoveRemote(d) ==
  LET delta == cursor + d - anchor
  IN  /\ IF delta = 0 THEN UNCHANGED <<channel, dropped>> ELSE Enqueue(delta)
      /\ cursor' = IF delta = 0 THEN cursor ELSE anchor
      /\ Account(d, delta)

\* In local mode the event is reported and passed on.
MoveLocal(d) == Enqueue(0) /\ cursor' = cursor + d /\ UNCHANGED sums

UserMoves(d) ==
  /\ moves < MaxMoves /\ moves' = moves + 1
  /\ IF ~hooks THEN cursor' = cursor + d /\ UNCHANGED <<channel, dropped, sums>>
     ELSE IF remote THEN MoveRemote(d) ELSE MoveLocal(d)
  /\ UNCHANGED <<ui, call, started, modes>>

\* Another program moves the cursor, and the hook may be told of it: an injected
\* move, of which an event is made in local mode only.
OtherMoves(d) ==
  /\ moves < MaxMoves /\ moves' = moves + 1
  /\ cursor' = cursor + d
  /\ sums' = IF hooks /\ remote THEN [sums EXCEPT !.others = @ + d, !.displaced = TRUE]
             ELSE sums
  /\ \/ hooks /\ ~remote /\ Enqueue(0)
     \/ UNCHANGED <<channel, dropped>>
  /\ UNCHANGED <<ui, call, started, modes>>

\* nextEvent: the drops are told, then the oldest event is taken.
NextEvent == /\ call = "none" /\ started /\ channel # <<>>
             /\ channel' = Tail(channel) /\ dropped' = 0
             /\ UNCHANGED <<ui, call, started, modes, cursor, moves, sums>>

\* GetMessageW fails: cleanup takes the hooks and the window away, with whatever
\* call was posted to it.
UiEnds == /\ UiMayEnd /\ ui = "running"
          /\ ui' = "ended" /\ hooks' = FALSE
          /\ UNCHANGED <<call, started, remote, hidden, hasAnchor, anchor, cursor,
                         channel, dropped, moves, sums>>

Next == \/ \E c \in Calls : Post(c)
        \/ RunCall
        \/ \E d \in Steps : UserMoves(d) \/ OtherMoves(d)
        \/ NextEvent
        \/ UiEnds

Spec == Init /\ [][Next]_vars

-----------------------------------------------------------------------------
\* Types, and a cursor that is hidden and pinned in remote mode and only there.
Win32TypeOK ==
  /\ ui \in {"running", "ended"} /\ call \in Calls \cup {"none"}
  /\ {started, hooks, remote, hidden, hasAnchor} \subseteq BOOLEAN
  /\ {anchor, cursor} \subseteq Int /\ dropped \in Nat
  /\ Len(channel) <= Capacity /\ \A i \in 1 .. Len(channel) : channel[i] \in Int

\* The local cursor is usable again whenever remote mode is over: hidden and pinned
\* go with the mode, whichever of the calls ended it.
CursorGoesWithTheMode == hidden = remote /\ hasAnchor = remote

\* Nothing of a motion disappears unaccounted: what the user and other programs
\* moved is in an event, or in an event that was dropped, or was swallowed without
\* one, or still is the cursor's distance from the anchor.
NothingIsUnaccounted ==
  sums.queued + sums.dropped + sums.lost + (cursor - anchor) = sums.user + sums.others

\* As long as no other program moves the cursor, no motion of the user is swallowed
\* without an event: the distances in the events, with those that were dropped, add
\* up to what the user moved.
OnlyDisplacedMotionsAreLost == ~sums.displaced => sums.lost = 0 /\ cursor = anchor

\* What the client is told of the user's motions in a remote period is what the user
\* moved, up to drops and to the displacements by other programs.
MotionIsConserved == remote /\ hooks => NothingIsUnaccounted /\ OnlyDisplacedMotionsAreLost

\* The capture keeps the promise of CaptureBackend.
Promise == INSTANCE CaptureBackend WITH open <- hooks \/ started, remote <- remote,
                                        taken <- hooks /\ remote
Win32IsACapture == Promise!CaptureSpec

=============================================================================
