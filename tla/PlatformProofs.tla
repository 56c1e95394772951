----------------------------- MODULE PlatformProofs -----------------------------
(***************************************************************************)
(* Proofs about the back ends.  Win32Capture: the sums of a remote period  *)
(* agree, and the capture keeps the promise of CaptureBackend, for any     *)
(* capacity of the channel, any distances and any number of moves.         *)
(* KeyTravel: a key arrives and comes up, for any keys on any two systems. *)
(* Then the back ends side by side, as MCPlatform has them: what is proved *)
(* of each, here or in a module of its own, holds in that specification.   *)
(***************************************************************************)
EXTENDS MCPlatform, SequenceTheorems, TLAPS

\* The modules of the other proofs, with the variables MCPlatform gives them.
XcbP      == INSTANCE XcbCaptureProofs WITH remote <- grabbing
PortalP   == INSTANCE PortalCaptureProofs WITH held <- modifier
InjectorP == INSTANCE PortalInjectorProofs WITH stage <- injector

-----------------------------------------------------------------------------
\* The Win32 capture.

Sums == [user : Int, others : Int, queued : Int, dropped : Int, lost : Int,
         displaced : BOOLEAN]

\* What MotionIsConserved says of a remote period.
Balanced == NothingIsUnaccounted /\ OnlyDisplacedMotionsAreLost

\* The hooks are there only while the message loop runs and the capture is
\* started, and the call on its way fits what was true when it was posted: one
\* call is on its way at a time, and only a call changes the modes.
Modes ==
  /\ ui \in {"running", "ended"} /\ call \in Calls \cup {"none"}
  /\ started \in BOOLEAN /\ hooks \in BOOLEAN /\ remote \in BOOLEAN
  /\ hidden = remote /\ hasAnchor = remote
  /\ hooks = (started /\ ui = "running")
  /\ remote => started
  /\ call = "initialize" => ~started
  /\ call \in {"shutdown", "begin", "end", "warp"} => started
  /\ call = "warp" => ~remote

Numbers ==
  /\ anchor \in Int /\ cursor \in Int /\ sums \in Sums
  /\ MotionIsConserved

Win32Inv == Modes /\ Numbers

LEMMA InitWin32 == Init => Win32Inv
<1> SUFFICES ASSUME Init PROVE Modes /\ Numbers
  BY DEF Win32Inv
<1>1. Modes
  BY DEF Init, Modes, Calls
<1>2. sums \in Sums
  BY DEF Init, Sums, NoMotion
<1>3. Numbers
  BY <1>2 DEF Init, Numbers, MotionIsConserved
<1> QED
  BY <1>1, <1>3

LEMMA NextKeepsModes == Modes /\ [Next]_vars => Modes'
<1> SUFFICES ASSUME Modes, [Next]_vars PROVE Modes'
  OBVIOUS
<1> USE DEF Modes, modes
<1>1. ASSUME NEW c \in Calls, Post(c) PROVE Modes'
  BY <1>1 DEF Post, Calls
<1>2. CASE RunCall
  <2>1. CASE Begin
    BY <1>2, <2>1 DEF RunCall, Begin
  <2>2. CASE End
    BY <1>2, <2>2 DEF RunCall, End, EndRemote
  <2>3. CASE Install
    BY <1>2, <2>3 DEF RunCall, Install, EndRemote
  <2>4. CASE Remove
    BY <1>2, <2>4 DEF RunCall, Remove, EndRemote
  <2>5. CASE Warp
    BY <1>2, <2>5 DEF RunCall, Warp
  <2> QED
    BY <1>2, <2>1, <2>2, <2>3, <2>4, <2>5 DEF RunCall
<1>3. ASSUME NEW d \in Steps, UserMoves(d) \/ OtherMoves(d) PROVE Modes'
  <2>1. UNCHANGED <<ui, call, started, modes>>
    BY <1>3, Zenon DEF UserMoves, OtherMoves
  <2> QED
    BY <2>1
<1>4. CASE NextEvent
  BY <1>4 DEF NextEvent
<1>5. CASE UiEnds
  BY <1>5 DEF UiEnds
<1>6. CASE UNCHANGED vars
  BY <1>6 DEF vars
<1> QED
  BY <1>1, <1>2, <1>3, <1>4, <1>5, <1>6 DEF Next

\* The account a motion of the user goes into: what leaves the accounts' sum short
\* of the user's is the way of the cursor.
LEMMA AccountFacts ==
  ASSUME sums \in Sums, NEW d \in Int, NEW delta \in Int, Account(d, delta)
  PROVE  /\ sums' \in Sums
         /\ sums'.user = sums.user + d /\ sums'.others = sums.others
         /\ sums'.displaced = sums.displaced
         /\ delta = 0 => /\ sums'.lost = sums.lost + d
                         /\ sums'.queued + sums'.dropped = sums.queued + sums.dropped
         /\ delta # 0 => /\ sums'.lost = sums.lost
                         /\ sums'.queued + sums'.dropped = sums.queued + sums.dropped + delta
<1> DEFINE full == Len(channel) >= Capacity
           lost    == IF delta = 0 THEN sums.lost + d ELSE sums.lost
           queued  == IF delta # 0 /\ Len(channel) < Capacity
                      THEN sums.queued + delta ELSE sums.queued
           missed  == IF delta # 0 /\ full THEN sums.dropped + delta ELSE sums.dropped
<1>1. /\ sums.user \in Int /\ sums.others \in Int /\ sums.queued \in Int
      /\ sums.dropped \in Int /\ sums.lost \in Int /\ sums.displaced \in BOOLEAN
  BY DEF Sums
<1>2. sums' = [sums EXCEPT !.user = sums.user + d, !.lost = lost, !.queued = queued,
                           !.dropped = missed]
  BY DEF Account
<1>3. lost \in Int /\ queued \in Int /\ missed \in Int
  BY <1>1
<1>4. full <=> ~(Len(channel) < Capacity)
  BY Win32Assumption
<1>5. /\ delta = 0 => lost = sums.lost + d /\ queued = sums.queued /\ missed = sums.dropped
      /\ delta # 0 /\ full => /\ lost = sums.lost /\ queued = sums.queued
                              /\ missed = sums.dropped + delta
      /\ delta # 0 /\ ~full => /\ lost = sums.lost /\ queued = sums.queued + delta
                               /\ missed = sums.dropped
  BY <1>4
<1> HIDE DEF lost, queued, missed, full
<1>6. /\ sums' \in Sums
      /\ sums'.user = sums.user + d /\ sums'.others = sums.others
      /\ sums'.lost = lost /\ sums'.queued = queued /\ sums'.dropped = missed
      /\ sums'.displaced = sums.displaced
  <2>1. sums.user + d \in Int
    BY <1>1
  <2>2. sums' \in Sums
    BY <1>2, <1>3, <2>1 DEF Sums
  <2>3. /\ sums'.user = sums.user + d /\ sums'.others = sums.others
        /\ sums'.lost = lost /\ sums'.queued = queued /\ sums'.dropped = missed
    BY <1>2, <1>3, <2>1 DEF Sums
  <2>4. sums'.displaced = sums.displaced
    BY <1>2, <1>3, <2>1 DEF Sums
  <2> QED
    BY <2>2, <2>3, <2>4
<1> QED
  BY <1>1, <1>5, <1>6

\* The arithmetic of a motion: what is reported is the distance from the anchor, and
\* a motion that ends on the anchor started beside it.
LEMMA UserMovesKeepsNumbers ==
  ASSUME Modes, Numbers, NEW d \in Steps, UserMoves(d) PROVE Numbers'
<1>1. d \in Int /\ cursor \in Int /\ anchor \in Int /\ sums \in Sums
  BY Win32Assumption DEF Numbers
<1>2. UNCHANGED <<hooks, remote, anchor>>
  BY DEF UserMoves, modes
<1>3. CASE hooks /\ remote
  <2> DEFINE delta == cursor + d - anchor
  <2>1. MoveRemote(d) /\ Balanced
    BY <1>3 DEF UserMoves, Numbers, MotionIsConserved, Balanced
  <2>2. Account(d, delta) /\ cursor' = IF delta = 0 THEN cursor ELSE anchor
    BY <2>1 DEF MoveRemote
  <2>3. delta \in Int
    BY <1>1
  <2>4. cursor' \in Int
    BY <1>1, <2>2
  <2> HIDE DEF delta
  <2>5. /\ sums' \in Sums
        /\ sums'.user = sums.user + d /\ sums'.others = sums.others
        /\ sums'.displaced = sums.displaced
        /\ delta = 0 => /\ sums'.lost = sums.lost + d
                        /\ sums'.queued + sums'.dropped = sums.queued + sums.dropped
        /\ delta # 0 => /\ sums'.lost = sums.lost
                        /\ sums'.queued + sums'.dropped = sums.queued + sums.dropped + delta
    BY <1>1, <2>2, <2>3, AccountFacts
  <2>6. /\ sums.user \in Int /\ sums.others \in Int /\ sums.queued \in Int
        /\ sums.dropped \in Int /\ sums.lost \in Int
        /\ sums'.user \in Int /\ sums'.others \in Int /\ sums'.queued \in Int
        /\ sums'.dropped \in Int /\ sums'.lost \in Int
    BY <1>1, <2>5 DEF Sums
  <2>7. NothingIsUnaccounted'
    <3>1. sums.queued + sums.dropped + sums.lost + (cursor - anchor) = sums.user + sums.others
      BY <2>1 DEF Balanced, NothingIsUnaccounted
    <3>2. CASE delta = 0
      BY <1>1, <1>2, <2>2, <2>5, <2>6, <3>1, <3>2 DEF NothingIsUnaccounted
    <3>3. CASE delta # 0
      BY <1>1, <1>2, <2>2, <2>5, <2>6, <3>1, <3>3 DEF NothingIsUnaccounted, delta
    <3> QED
      BY <3>2, <3>3
  <2>8. OnlyDisplacedMotionsAreLost'
    <3> SUFFICES ASSUME ~sums.displaced PROVE sums'.lost = 0 /\ cursor' = anchor
      BY <1>2, <2>5 DEF OnlyDisplacedMotionsAreLost
    <3>1. sums.lost = 0 /\ cursor = anchor
      BY <2>1 DEF Balanced, OnlyDisplacedMotionsAreLost
    <3>2. delta = 0 => d = 0
      BY <1>1, <3>1 DEF delta
    <3> QED
      BY <2>2, <2>5, <3>1, <3>2
  <2> QED
    BY <1>1, <1>2, <2>4, <2>5, <2>7, <2>8 DEF Numbers, MotionIsConserved
<1>4. CASE ~(hooks /\ remote)
  <2>1. cursor' = cursor + d /\ UNCHANGED sums
    BY <1>4 DEF UserMoves, MoveLocal, Modes
  <2> QED
    BY <1>1, <1>2, <1>4, <2>1 DEF Numbers, MotionIsConserved
<1> QED
  BY <1>3, <1>4

LEMMA OtherMovesKeepsNumbers ==
  ASSUME Modes, Numbers, NEW d \in Steps, OtherMoves(d) PROVE Numbers'
<1>1. d \in Int /\ cursor \in Int /\ anchor \in Int /\ sums \in Sums
  BY Win32Assumption DEF Numbers
<1>2. UNCHANGED <<hooks, remote, anchor>> /\ cursor' = cursor + d
  BY DEF OtherMoves, modes
<1>3. CASE hooks /\ remote
  <2>1. sums' = [sums EXCEPT !.others = @ + d, !.displaced = TRUE]
    BY <1>3 DEF OtherMoves
  <2>2. /\ sums' \in Sums
        /\ sums'.user = sums.user /\ sums'.others = sums.others + d
        /\ sums'.queued = sums.queued /\ sums'.dropped = sums.dropped
        /\ sums'.lost = sums.lost /\ sums'.displaced
    <3>1. sums.others + d \in Int
      BY <1>1 DEF Sums
    <3>2. sums' = [sums EXCEPT !.others = sums.others + d, !.displaced = TRUE]
      BY <2>1
    <3>3. sums' \in Sums
      BY <1>1, <3>1, <3>2 DEF Sums
    <3>4. /\ sums'.user = sums.user /\ sums'.others = sums.others + d
          /\ sums'.queued = sums.queued /\ sums'.dropped = sums.dropped
          /\ sums'.lost = sums.lost
      BY <1>1, <3>1, <3>2 DEF Sums
    <3>5. sums'.displaced = TRUE
      BY <1>1, <3>1, <3>2 DEF Sums
    <3> QED
      BY <3>3, <3>4, <3>5
  <2>3. NothingIsUnaccounted
    BY <1>3 DEF Numbers, MotionIsConserved
  <2>4. NothingIsUnaccounted'
    BY <1>1, <1>2, <2>2, <2>3 DEF NothingIsUnaccounted, Sums
  <2> QED
    BY <1>1, <1>2, <2>2, <2>4 DEF Numbers, MotionIsConserved, OnlyDisplacedMotionsAreLost
<1>4. CASE ~(hooks /\ remote)
  <2>1. UNCHANGED sums
    BY <1>4 DEF OtherMoves
  <2> QED
    BY <1>1, <1>2, <1>4, <2>1 DEF Numbers, MotionIsConserved
<1> QED
  BY <1>3, <1>4

\* A call that begins a remote period puts the anchor where the cursor is and
\* the sums at nothing; no other call leaves hooks and remote mode both on.
LEMMA RunCallKeepsNumbers ==
  ASSUME Modes, Numbers, RunCall PROVE Numbers'
<1>1. cursor \in Int /\ anchor \in Int /\ sums \in Sums /\ Steps \subseteq Int
  BY Win32Assumption DEF Numbers
<1>2. sums' = IF remote' /\ ~remote THEN NoMotion ELSE sums
  BY DEF RunCall
<1>3. sums' \in Sums
  BY <1>1, <1>2 DEF Sums, NoMotion
<1>4. CASE Begin
  <2>1. CASE ~remote /\ remote'
    <3>1. anchor' = cursor /\ cursor' = cursor
      BY <1>4, <2>1 DEF Begin
    <3>2. sums' = NoMotion
      BY <1>2, <2>1
    <3>3. NothingIsUnaccounted' /\ OnlyDisplacedMotionsAreLost'
      BY <1>1, <3>1, <3>2 DEF NothingIsUnaccounted, OnlyDisplacedMotionsAreLost, NoMotion
    <3> QED
      BY <1>1, <1>3, <3>1, <3>3 DEF Numbers, MotionIsConserved
  <2>2. CASE ~(~remote /\ remote')
    <3>1. UNCHANGED <<sums, cursor, anchor, remote, hooks>>
      BY <1>2, <1>4, <2>2 DEF Begin
    <3> QED
      BY <1>1, <3>1 DEF Numbers, MotionIsConserved, NothingIsUnaccounted,
                        OnlyDisplacedMotionsAreLost
  <2> QED
    BY <2>1, <2>2
<1>5. CASE End \/ Install \/ Remove \/ Warp
  <2>1. ~remote'
    BY <1>5 DEF End, Install, Remove, Warp, EndRemote, Modes, modes
  <2>2. anchor' = anchor /\ cursor' \in Int
    BY <1>1, <1>5 DEF End, Install, Remove, Warp, EndRemote, modes
  <2> QED
    BY <1>1, <1>3, <2>1, <2>2 DEF Numbers, MotionIsConserved
<1> QED
  BY <1>4, <1>5 DEF RunCall

\* Steps that leave the motion alone.
LEMMA StillKeepsNumbers ==
  ASSUME Numbers, UNCHANGED <<sums, cursor, anchor, remote>>, hooks' => hooks PROVE Numbers'
BY DEF Numbers, MotionIsConserved, NothingIsUnaccounted, OnlyDisplacedMotionsAreLost

LEMMA NextKeepsWin32 == Win32Inv /\ [Next]_vars => Win32Inv'
<1> SUFFICES ASSUME Win32Inv, [Next]_vars PROVE Win32Inv'
  OBVIOUS
<1>1. Modes /\ Numbers /\ Modes'
  BY NextKeepsModes DEF Win32Inv
<1>2. ASSUME NEW c \in Calls, Post(c) PROVE Numbers'
  BY <1>1, <1>2, StillKeepsNumbers DEF Post, modes
<1>3. ASSUME RunCall PROVE Numbers'
  BY <1>1, <1>3, RunCallKeepsNumbers
<1>4. ASSUME NEW d \in Steps, UserMoves(d) \/ OtherMoves(d) PROVE Numbers'
  BY <1>1, <1>4, UserMovesKeepsNumbers, OtherMovesKeepsNumbers
<1>5. ASSUME NextEvent PROVE Numbers'
  BY <1>1, <1>5, StillKeepsNumbers DEF NextEvent, modes
<1>6. ASSUME UiEnds PROVE Numbers'
  BY <1>1, <1>6, StillKeepsNumbers DEF UiEnds
<1>7. ASSUME UNCHANGED vars PROVE Numbers'
  BY <1>1, <1>7, StillKeepsNumbers DEF vars, modes
<1>8. Numbers'
  BY <1>2, <1>3, <1>4, <1>5, <1>6, <1>7 DEF Next, Win32Inv
<1> QED
  BY <1>1, <1>8 DEF Win32Inv

\* The capture's invariant.
THEOREM Win32Invariant == Spec => []Win32Inv
BY InitWin32, NextKeepsWin32, PTL DEF Spec

\* In a remote period every motion of the user is in an event, in one that was
\* dropped, or was swallowed on the anchor; and none is swallowed as long as no
\* other program moves the cursor.
THEOREM MotionIsAlwaysConserved == Spec => []MotionIsConserved
<1>1. Win32Inv => MotionIsConserved
  BY DEF Win32Inv, Numbers
<1> QED
  BY <1>1, Win32Invariant, PTL

\* The local cursor is hidden and pinned in remote mode and only there.
THEOREM CursorAlwaysGoesWithTheMode == Spec => []CursorGoesWithTheMode
<1>1. Win32Inv => CursorGoesWithTheMode
  BY DEF Win32Inv, Modes, CursorGoesWithTheMode
<1> QED
  BY <1>1, Win32Invariant, PTL

-----------------------------------------------------------------------------
\* Initial states map to initial states.
LEMMA InitIsCaptureInit == Init => Promise!CaptureInit
BY DEF Init, Promise!CaptureInit

\* Every step of the two threads, of the user and of other programs is a step
\* of CaptureBackend or changes nothing it speaks of.
LEMMA StepIsCaptureStep ==
  Win32Inv /\ Win32Inv' /\ [Next]_vars => [Promise!CaptureNext]_Promise!captureVars
<1> SUFFICES ASSUME Win32Inv, Win32Inv', [Next]_vars
             PROVE  Promise!CaptureNext \/ UNCHANGED Promise!captureVars
  OBVIOUS
<1> USE DEF Promise!CaptureNext, Promise!captureVars, Promise!Initialize, Promise!Take,
            Promise!GiveBack, Promise!Lose, Promise!Shutdown, modes
<1> USE DEF Win32Inv, Modes
<1>1. ASSUME NEW c \in Calls, Post(c) PROVE UNCHANGED Promise!captureVars
  BY <1>1 DEF Post
<1>2. CASE RunCall
  <2>1. CASE Begin
    BY <1>2, <2>1 DEF RunCall, Begin
  <2>2. CASE End
    BY <1>2, <2>2 DEF RunCall, End, EndRemote
  <2>3. CASE Install
    BY <1>2, <2>3 DEF RunCall, Install, EndRemote
  <2>4. CASE Remove
    BY <1>2, <2>4 DEF RunCall, Remove, EndRemote
  <2>5. CASE Warp
    BY <1>2, <2>5 DEF RunCall, Warp
  <2> QED
    BY <1>2, <2>1, <2>2, <2>3, <2>4, <2>5 DEF RunCall
<1>3. ASSUME NEW d \in Steps, UserMoves(d) \/ OtherMoves(d)
      PROVE  UNCHANGED Promise!captureVars
  BY <1>3 DEF UserMoves, OtherMoves
<1>4. CASE NextEvent
  BY <1>4 DEF NextEvent
<1>5. CASE UiEnds
  BY <1>5 DEF UiEnds
<1>6. CASE UNCHANGED vars
  BY <1>6 DEF vars
<1> QED
  BY <1>1, <1>2, <1>3, <1>4, <1>5, <1>6 DEF Next

\* The capture implements CaptureBackend, whatever the message loop does.
THEOREM Win32ImplementsCapture == Spec => Win32IsACapture
<1>1. Spec => []Win32Inv
  BY Win32Invariant
<1> QED
  BY <1>1, InitIsCaptureInit, StepIsCaptureStep, PTL
     DEF Spec, Win32IsACapture, Promise!CaptureSpec

-----------------------------------------------------------------------------
\* A key's way.  Two events of one key differ in nothing that says which key the
\* client presses.

EventOf(k, release) ==
  Travel!KeyEvent(Travel!Captured(server, k), Travel!NativeCode(server, k), release, k)
Events == {EventOf(k, release) : k \in Keys, release \in BOOLEAN}

\* The key the client's machine presses for a key of the server's.
Target(k) == Travel!Injected(client, EventOf(k, TRUE))

\* The portal capture says nothing of a key it cannot name.
IsSent(k) == ~(server = "portal" /\ Travel!Captured(server, k) = Travel!None)

\* After the n-th event, the client will yet hear that the key is let go.
LetGoAfter(k, n) ==
  \/ k \in held
  \/ \E i \in 1..Len(wire) : n < i /\ wire[i].origin = k /\ wire[i].release

\* What is down on the client is there for a key whose release is to come.
KeysInv ==
  /\ server \in Captures /\ client \in Injectors
  /\ wire \in Seq(Events)
  /\ \A i \in 1..Len(wire), k \in Keys :
       wire[i].origin = k => IsSent(k) /\ (wire[i].release \/ LetGoAfter(k, i))
  /\ Travel!Refused \notin down
  /\ \A t \in down : \E k \in Keys : IsSent(k) /\ Target(k) = t /\ LetGoAfter(k, 0)

LEMMA EventFacts ==
  ASSUME NEW k, NEW release
  PROVE  LET e == EventOf(k, release)
         IN /\ e.origin = k /\ e.release = release
            /\ e.key = Travel!Captured(server, k) /\ e.nativeCode = Travel!NativeCode(server, k)
BY DEF EventOf, Travel!KeyEvent

\* A press and its release mean the same key on the client.
LEMMA SameTarget ==
  ASSUME NEW k, NEW release
  PROVE  Travel!Injected(client, EventOf(k, release)) = Target(k)
<1> DEFINE e == EventOf(k, release)
           f == EventOf(k, TRUE)
<1>1. e.key = f.key /\ e.nativeCode = f.nativeCode
  BY DEF EventOf, Travel!KeyEvent
<1> HIDE DEF e, f
<1>2. /\ Travel!KeyCodeFor(e) = Travel!KeyCodeFor(f)
      /\ Travel!Win32KeyFor(e) = Travel!Win32KeyFor(f)
      /\ Travel!EvdevKeyFor(e) = Travel!EvdevKeyFor(f)
  BY <1>1 DEF Travel!KeyCodeFor, Travel!Win32KeyFor, Travel!EvdevKeyFor
<1> QED BY <1>2 DEF Travel!Injected, Target, e, f

\* Every injector has a row for every key of an ordinary keyboard.
LEMMA EveryTableHasTheKeyboard ==
  ASSUME NEW backend, NEW e, e.key \in Travel!Keyboard
  PROVE  Travel!Injected(backend, e) # Travel!Refused
<1> DEFINE k == e.key
<1>1. k \in Travel!Keyboard /\ k \in 4..231 /\ k # 50
  BY DEF Travel!Keyboard, Travel!Letters, Travel!Digit1, Travel!Digit0, Travel!Symbols,
         Travel!HashTilde, Travel!CapsLock, Travel!F1ToF12, Travel!Editing,
         Travel!KeypadOps, Travel!KeypadDigits, Travel!Modifiers
<1>2. /\ Travel!KeySymFor(k) = k
      /\ Travel!EvdevKeyCode(k) = k
      /\ Travel!KeyToWin32(k) \in {k, 40}
  BY <1>1 DEF Travel!KeySymFor, Travel!XAlias, Travel!EvdevKeyCode, Travel!EvdevKeys,
              Travel!EvdevAlias, Travel!HashTilde, Travel!KeyToWin32, Travel!WinAlias,
              Travel!Enter
<1> HIDE DEF k
<1>3. k # 0 /\ k # -1
  BY <1>1
<1>4. Travel!KeyCodeFor(e) # Travel!Refused
  BY <1>2, <1>3 DEF k, Travel!KeyCodeFor, Travel!None, Travel!Refused
<1>5. Travel!Win32KeyFor(e) # Travel!Refused
  <2>1. Travel!KeyToWin32(e.key) # 0 /\ Travel!KeyToWin32(e.key) # -1
    BY <1>2, <1>3 DEF k
  <2> QED BY <2>1 DEF Travel!Win32KeyFor, Travel!None, Travel!Refused
<1>6. Travel!EvdevKeyFor(e) # Travel!Refused
  BY <1>2, <1>3 DEF k, Travel!EvdevKeyFor, Travel!None, Travel!Refused
<1> QED BY <1>5, <1>6, <1>4 DEF Travel!Injected

LEMMA KeyboardIs == Travel!Keyboard = ((4..99) \ {50}) \cup (224..231)
BY DEF Travel!Keyboard, Travel!Letters, Travel!Digit1, Travel!Digit0, Travel!Symbols,
       Travel!HashTilde, Travel!CapsLock, Travel!F1ToF12, Travel!Editing,
       Travel!KeypadOps, Travel!KeypadDigits, Travel!Modifiers

\* Every capture names the keys of an ordinary keyboard, but for the digits of the
\* keypad under X11.
LEMMA OrdinaryKeysHaveNames ==
  ASSUME NEW backend \in {"portal", "x11", "win32"}, NEW k \in Travel!Keyboard,
         ~(backend = "x11" /\ k \in Travel!KeypadDigits)
  PROVE  Travel!Captured(backend, k) \in Travel!Keyboard
<1>1. k \in ((4..99) \ {50}) \cup (224..231)
  BY KeyboardIs
<1>2. CASE backend = "portal"
  <2>1. Travel!EvdevKeyCode(k) = k
    BY <1>1 DEF Travel!EvdevKeyCode, Travel!EvdevKeys, Travel!EvdevAlias, Travel!HashTilde
  <2>2. Travel!UsagesOf(k) = {k}
    <3>1. k \in Travel!UsagesOf(k)
      BY <1>1, <2>1 DEF Travel!UsagesOf, Travel!Usages
    <3>2. ASSUME NEW j \in Travel!UsagesOf(k) PROVE j = k
      <4>1. Travel!EvdevKeyCode(j) = k
        BY DEF Travel!UsagesOf
      <4>2. k = Travel!EvdevAlias(j)
        BY <1>1, <4>1 DEF Travel!EvdevKeyCode, Travel!None
      <4> QED BY <1>1, <4>2 DEF Travel!EvdevAlias, Travel!HashTilde, Travel!Key102nd,
                                Travel!Mute, Travel!VolumeUp, Travel!VolumeDown,
                                Travel!Stop, Travel!Find
    <3> QED BY <3>1, <3>2
  <2>3. Travel!KeyFromEvdev(k) = k
    BY <1>1, <2>2 DEF Travel!KeyFromEvdev, Travel!None
  <2> QED BY <1>2, <2>1, <2>3 DEF Travel!Captured
<1>3. CASE backend = "x11"
  BY <1>3 DEF Travel!Captured, Travel!TranslateKeySym, Travel!KeySymOf
<1>4. CASE backend = "win32"
  <2> DEFINE vk == Travel!VirtualKeyOf(k)
  <2>1. vk \in Travel!Keyboard /\ vk # 88
    BY <1>1, KeyboardIs DEF Travel!VirtualKeyOf, Travel!KeypadEnter, Travel!Enter
  <2> HIDE DEF vk
  <2>2. vk \in ((4..99) \ {50}) \cup (224..231)
    BY <2>1, KeyboardIs
  <2>3. CASE vk \in 30..39
    <3>1. Travel!VirtualKeyToKey(vk) = 39 + Travel!DigitOf(vk)
      BY <2>3 DEF Travel!VirtualKeyToKey, Travel!Digit1, Travel!Digit0
    <3>2. Travel!DigitOf(vk) \in 0..9
      BY <2>3 DEF Travel!DigitOf, Travel!Digit1, Travel!Digit0
    <3>3. Travel!VirtualKeyToKey(vk) \in 39..48
      BY <3>1, <3>2
    <3> QED BY <1>4, <3>3, KeyboardIs DEF Travel!Captured, vk
  <2>4. CASE vk \notin 30..39
    <3>1. Travel!VirtualKeyToKey(vk) = vk
      BY <2>1, <2>2, <2>4 DEF Travel!VirtualKeyToKey, Travel!Digit1, Travel!Digit0,
                              Travel!KeypadEnter
    <3> QED BY <1>4, <2>1, <3>1 DEF Travel!Captured, vk
  <2> QED BY <2>3, <2>4
<1> QED BY <1>2, <1>3, <1>4

\* The codes an X11 server has for the digits of its keypad are codes elsewhere too.
LEMMA KeypadCodesAreCodes ==
  ASSUME NEW k \in Travel!KeypadDigits
  PROVE  Travel!NativeCode("x11", k) \in 79..91
<1>1. k \in 89..99
  BY DEF Travel!KeypadDigits
<1>2. Travel!LinuxCode[k] = Travel!KeypadCode[k - 88]
  <2>1. k \in Travel!KnownKeys
    BY DEF Travel!KnownKeys
  <2> QED BY <1>1, <2>1 DEF Travel!LinuxCode, Travel!KeypadDigits, Travel!Digit1,
             Travel!Digit0, Travel!Enter, Travel!Key102nd, Travel!Power, Travel!VolumeUp
<1>3. Travel!KeypadCode[k - 88] \in 71..83
  <2>1. \/ k - 88 = 1 \/ k - 88 = 2 \/ k - 88 = 3 \/ k - 88 = 4 \/ k - 88 = 5 \/ k - 88 = 6
        \/ k - 88 = 7 \/ k - 88 = 8 \/ k - 88 = 9 \/ k - 88 = 10 \/ k - 88 = 11
    BY <1>1
  <2> QED BY <2>1 DEF Travel!KeypadCode
<1>4. Travel!NativeCode("x11", k) = Travel!LinuxCode[k] + 8
  BY DEF Travel!NativeCode
<1> QED BY <1>2, <1>3, <1>4

\* A code presses a key, known or not.
LEMMA CodesArePressed ==
  ASSUME NEW backend, NEW code PROVE Travel!KeyOfNative(backend, code) # Travel!Refused
<1> DEFINE Ks == {k \in Travel!KnownKeys : Travel!NativeCode(backend, k) = code}
<1>1. Travel!Refused \notin Travel!KnownKeys
  BY DEF Travel!Refused, Travel!KnownKeys, Travel!KeypadDigits, Travel!Digit1,
         Travel!Digit0, Travel!Enter, Travel!Key102nd, Travel!Power, Travel!VolumeUp
<1>2. CASE Ks = {}
  BY <1>2 DEF Travel!KeyOfNative, Travel!Refused
<1>3. CASE Ks # {}
  <2>1. Travel!KeyOfNative(backend, code) = CHOOSE k \in Ks : TRUE
    BY <1>3 DEF Travel!KeyOfNative
  <2>2. (CHOOSE k \in Ks : TRUE) \in Ks
    BY <1>3
  <2> QED BY <1>1, <2>1, <2>2
<1> QED BY <1>2, <1>3

LEMMA KeypadIsUnnamed ==
  ASSUME NEW k \in Travel!KeypadDigits PROVE Travel!Captured("x11", k) = Travel!None
<1>1. Travel!KeySymOf(k) = 0
  BY DEF Travel!KeySymOf, Travel!None
<1>2. 0 \notin Travel!Keyboard
  BY KeyboardIs
<1> QED BY <1>1, <1>2 DEF Travel!Captured, Travel!TranslateKeySym

LEMMA KeypadRange ==
  ASSUME NEW n \in 79..91 PROVE n \in Travel!XCodes /\ n \in Travel!WinCodes
<1>1. n \in Int /\ 79 <= n /\ n <= 91
  OBVIOUS
<1>2. 1 <= n /\ n <= 255 /\ n <= 65535
  BY <1>1
<1>3. n \in Travel!XCodes
  BY <1>1, <1>2 DEF Travel!XCodes
<1>4. n \in Travel!WinCodes
  BY <1>1, <1>2, SMTT(40) DEF Travel!WinCodes
<1> QED BY <1>3, <1>4

\* X11 and Windows clients try the code of an event without a name.
LEMMA CodesAreTried ==
  ASSUME NEW e, NEW code \in 79..91, e.key = Travel!None, e.nativeCode = code,
         NEW backend \in {"x11", "win32"}
  PROVE  Travel!Injected(backend, e) # Travel!Refused
<1>1. code \in Travel!XCodes /\ code \in Travel!WinCodes
  BY KeypadRange
<1>2. Travel!KeySymFor(e.key) = Travel!None
  BY KeyboardIs DEF Travel!KeySymFor, Travel!None, Travel!F13ToF24, Travel!XMedia,
                    Travel!Mute, Travel!VolumeUp, Travel!VolumeDown
<1>3. Travel!KeyToWin32(e.key) = Travel!None
  BY KeyboardIs DEF Travel!KeyToWin32, Travel!None, Travel!F13ToF24, Travel!WinMedia,
                    Travel!Mute, Travel!VolumeUp, Travel!VolumeDown
<1>4. Travel!KeyCodeFor(e) = Travel!KeyOfNative("x11", code)
  BY <1>1, <1>2 DEF Travel!KeyCodeFor
<1>5. Travel!Win32KeyFor(e) = Travel!KeyOfNative("win32", code)
  BY <1>1, <1>3 DEF Travel!Win32KeyFor
<1> QED BY <1>4, <1>5, CodesArePressed DEF Travel!Injected

\* An event is sent: it is the last one, and the earlier ones stay.
LEMMA SendFacts ==
  ASSUME KeysInv, NEW k \in Keys, NEW release \in BOOLEAN, Travel!Send(k, release), IsSent(k)
  PROVE  /\ wire' \in Seq(Events) /\ Len(wire') = Len(wire) + 1
         /\ \A i \in 1..Len(wire) : wire'[i] = wire[i]
         /\ wire'[Len(wire) + 1].origin = k /\ wire'[Len(wire) + 1].release = release
<1>1. wire \in Seq(Events) /\ EventOf(k, release) \in Events
  BY DEF KeysInv, Events
<1>2. wire' = Append(wire, EventOf(k, release))
  BY DEF Travel!Send, EventOf, IsSent
<1> HIDE DEF Events
<1>3. /\ wire' \in Seq(Events) /\ Len(wire') = Len(wire) + 1
      /\ \A i \in 1..Len(wire) : wire'[i] = wire[i]
      /\ wire'[Len(wire) + 1] = EventOf(k, release)
  BY <1>1, <1>2, AppendProperties
<1> QED BY <1>3, EventFacts

LEMMA PressKeeps == ASSUME KeysInv, NEW k \in Keys, Travel!Press(k) PROVE KeysInv'
<1>1. /\ held' = held \cup {k} /\ Travel!Send(k, FALSE)
      /\ UNCHANGED <<server, client, down>>
  BY DEF Travel!Press
<1>2. /\ Events' = Events
      /\ \A c \in Keys : IsSent(c)' = IsSent(c) /\ Target(c)' = Target(c)
  BY <1>1 DEF Events, IsSent, Target, EventOf
<1>3. Len(wire) \in Nat /\ wire \in Seq(Events)
  BY DEF KeysInv
<1>4. CASE ~IsSent(k)
  <2>1. wire' = wire
    BY <1>1, <1>4 DEF Travel!Send, IsSent
  <2>2. \A c, n : LetGoAfter(c, n) => LetGoAfter(c, n)'
    BY <1>1, <2>1 DEF LetGoAfter
  <2> QED BY <1>1, <1>2, <2>1, <2>2 DEF KeysInv
<1>5. CASE IsSent(k)
  <2>1. /\ wire' \in Seq(Events) /\ Len(wire') = Len(wire) + 1
        /\ \A i \in 1..Len(wire) : wire'[i] = wire[i]
        /\ wire'[Len(wire) + 1].origin = k
    BY <1>1, <1>5, SendFacts
  <2>2. \A c, n : LetGoAfter(c, n) => LetGoAfter(c, n)'
    BY <1>1, <1>3, <2>1 DEF LetGoAfter
  <2>3. \A n : LetGoAfter(k, n)'
    BY <1>1 DEF LetGoAfter
  <2>4. \A i \in 1..Len(wire') : i \in 1..Len(wire) \/ i = Len(wire) + 1
    BY <1>3, <2>1
  <2>5. \A i \in 1..Len(wire'), c \in Keys :
          wire'[i].origin = c => IsSent(c)' /\ (wire'[i].release \/ LetGoAfter(c, i)')
    BY <1>2, <1>5, <2>1, <2>2, <2>3, <2>4 DEF KeysInv
  <2>6. \A t \in down' : \E c \in Keys : IsSent(c)' /\ Target(c)' = t /\ LetGoAfter(c, 0)'
    BY <1>1, <1>2, <2>2 DEF KeysInv
  <2>7. Travel!Refused \notin down'
    BY <1>1 DEF KeysInv
  <2> QED BY <1>1, <1>2, <2>1, <2>5, <2>6, <2>7 DEF KeysInv
<1> QED BY <1>4, <1>5

LEMMA ReleaseKeeps == ASSUME KeysInv, NEW k \in Keys, Travel!Release(k) PROVE KeysInv'
<1>1. /\ held' = held \ {k} /\ Travel!Send(k, TRUE)
      /\ UNCHANGED <<server, client, down>>
  BY DEF Travel!Release
<1>2. /\ Events' = Events
      /\ \A c \in Keys : IsSent(c)' = IsSent(c) /\ Target(c)' = Target(c)
  BY <1>1 DEF Events, IsSent, Target, EventOf
<1>3. Len(wire) \in Nat /\ wire \in Seq(Events)
  BY DEF KeysInv
<1>4. CASE ~IsSent(k)
  <2>1. wire' = wire
    BY <1>1, <1>4 DEF Travel!Send, IsSent
  <2>2. \A c, n : c # k /\ LetGoAfter(c, n) => LetGoAfter(c, n)'
    BY <1>1, <2>1 DEF LetGoAfter
  <2> QED BY <1>1, <1>2, <1>4, <2>1, <2>2 DEF KeysInv
<1>5. CASE IsSent(k)
  <2>1. /\ wire' \in Seq(Events) /\ Len(wire') = Len(wire) + 1
        /\ \A i \in 1..Len(wire) : wire'[i] = wire[i]
        /\ wire'[Len(wire) + 1].origin = k /\ wire'[Len(wire) + 1].release
    BY <1>1, <1>5, SendFacts
  <2>2. \A n \in 0..Len(wire) : LetGoAfter(k, n)'
    <3>1. Len(wire) + 1 \in 1..Len(wire')
      BY <1>3, <2>1
    <3> QED BY <1>3, <2>1, <3>1 DEF LetGoAfter
  <2>3. \A c, n : c # k /\ LetGoAfter(c, n) => LetGoAfter(c, n)'
    BY <1>1, <1>3, <2>1 DEF LetGoAfter
  <2>4. \A i \in 1..Len(wire') : i \in 1..Len(wire) \/ i = Len(wire) + 1
    BY <1>3, <2>1
  <2>5. \A i \in 1..Len(wire) : i \in 0..Len(wire)
    BY <1>3
  <2>6. \A i \in 1..Len(wire'), c \in Keys :
          wire'[i].origin = c => IsSent(c)' /\ (wire'[i].release \/ LetGoAfter(c, i)')
    BY <1>2, <1>5, <2>1, <2>2, <2>3, <2>4, <2>5 DEF KeysInv
  <2>7. \A t \in down' : \E c \in Keys : IsSent(c)' /\ Target(c)' = t /\ LetGoAfter(c, 0)'
    <3>1. 0 \in 0..Len(wire)
      BY <1>3
    <3> QED BY <1>1, <1>2, <2>2, <2>3, <3>1 DEF KeysInv
  <2>8. Travel!Refused \notin down'
    BY <1>1 DEF KeysInv
  <2> QED BY <1>1, <1>2, <2>1, <2>6, <2>7, <2>8 DEF KeysInv
<1> QED BY <1>4, <1>5

LEMMA InjectKeeps == KeysInv /\ Travel!Inject => KeysInv'
<1> SUFFICES ASSUME KeysInv, Travel!Inject PROVE KeysInv'
  OBVIOUS
<1>1. /\ wire # <<>> /\ wire' = Tail(wire)
      /\ UNCHANGED <<server, client, held>>
      /\ LET t == Travel!Injected(client, Head(wire))
         IN down' = IF t = Travel!Refused THEN down
                    ELSE IF Head(wire).release THEN down \ {t} ELSE down \cup {t}
  BY DEF Travel!Inject
<1>2. /\ Events' = Events
      /\ \A c \in Keys : IsSent(c)' = IsSent(c) /\ Target(c)' = Target(c)
  BY <1>1 DEF Events, IsSent, Target, EventOf
<1>3. wire \in Seq(Events) /\ Len(wire) \in Nat
  BY DEF KeysInv
<1> HIDE DEF Events
<1>4. /\ wire' \in Seq(Events) /\ Len(wire') = Len(wire) - 1
      /\ \A i \in 1..Len(wire') : wire'[i] = wire[i + 1]
      /\ Head(wire) = wire[1] /\ Len(wire) > 0
  BY <1>1, <1>3
<1>5. PICK k \in Keys, release \in BOOLEAN : wire[1] = EventOf(k, release)
  <2>1. wire[1] \in Events
    BY <1>3, <1>4
  <2> QED BY <2>1 DEF Events
<1>6. wire[1].origin = k /\ wire[1].release = release
  BY <1>5, EventFacts
<1>7. Travel!Injected(client, Head(wire)) = Target(k)
  BY <1>4, <1>5, SameTarget
\* An event that is not the first is one place further ahead.
<1>8. ASSUME NEW c, NEW n \in Nat, LetGoAfter(c, n + 1) PROVE LetGoAfter(c, n)'
  <2>1. CASE c \in held
    BY <1>1, <2>1 DEF LetGoAfter
  <2>2. ASSUME NEW i \in 1..Len(wire), n + 1 < i, wire[i].origin = c, wire[i].release
        PROVE  LetGoAfter(c, n)'
    <3>1. i - 1 \in 1..Len(wire') /\ n < i - 1 /\ (i - 1) + 1 = i
      BY <1>3, <1>4, <2>2
    <3>2. wire'[i - 1].origin = c /\ wire'[i - 1].release
      BY <1>4, <2>2, <3>1
    <3> QED BY <3>1, <3>2 DEF LetGoAfter
  <2> QED BY <1>8, <2>1, <2>2 DEF LetGoAfter
<1>9. ASSUME NEW i \in 1..Len(wire'), NEW c \in Keys, wire'[i].origin = c
      PROVE  IsSent(c)' /\ (wire'[i].release \/ LetGoAfter(c, i)')
  <2>1. i + 1 \in 1..Len(wire) /\ wire'[i] = wire[i + 1] /\ i \in Nat
    BY <1>3, <1>4
  <2>2. IsSent(c) /\ (wire[i + 1].release \/ LetGoAfter(c, i + 1))
    BY <1>9, <2>1 DEF KeysInv
  <2> QED BY <1>2, <1>8, <2>1, <2>2
<1>10. ASSUME NEW t \in down'
       PROVE  \E c \in Keys : IsSent(c)' /\ Target(c)' = t /\ LetGoAfter(c, 0)'
  <2>1. CASE ~release /\ t = Target(k)
    <3>1. IsSent(k) /\ LetGoAfter(k, 1)
      <4>1. 1 \in 1..Len(wire)
        BY <1>3, <1>4
      <4> QED BY <1>6, <2>1, <4>1 DEF KeysInv
    <3>2. LetGoAfter(k, 0)'
      BY <1>8, <3>1
    <3> QED BY <1>2, <2>1, <3>1, <3>2
  <2>2. CASE t \in down /\ ~(~release /\ t = Target(k))
    <3>1. PICK c \in Keys : IsSent(c) /\ Target(c) = t /\ LetGoAfter(c, 0)
      BY <2>2 DEF KeysInv
    <3>2. c # k
      <4>1. release => t # Target(k)
        BY <1>1, <1>4, <1>6, <1>7, <2>2 DEF KeysInv
      <4> QED BY <2>2, <3>1, <4>1
    <3>3. LetGoAfter(c, 1)
      <4>1. \A i \in 1..Len(wire) : wire[i].origin = c => 1 < i
        BY <1>3, <1>6, <3>2
      <4> QED BY <3>1, <4>1 DEF LetGoAfter
    <3>4. LetGoAfter(c, 0)'
      BY <1>8, <3>3
    <3> QED BY <1>2, <3>1, <3>4
  <2> QED BY <1>1, <1>4, <1>6, <1>7, <2>1, <2>2
<1>11. Travel!Refused \notin down'
  BY <1>1 DEF KeysInv
<1> QED BY <1>1, <1>2, <1>4, <1>9, <1>10, <1>11 DEF KeysInv

LEMMA NextKeys == KeysInv /\ [Travel!Next]_(Travel!vars) => KeysInv'
<1> SUFFICES ASSUME KeysInv, [Travel!Next]_(Travel!vars) PROVE KeysInv'
  OBVIOUS
<1>1. CASE UNCHANGED Travel!vars
  <2>1. UNCHANGED <<server, client, held, wire, down>>
    BY <1>1 DEF Travel!vars
  <2>2. /\ Events' = Events
        /\ \A c \in Keys : IsSent(c)' = IsSent(c) /\ Target(c)' = Target(c)
        /\ \A c, n : LetGoAfter(c, n)' = LetGoAfter(c, n)
    BY <2>1 DEF Events, EventOf, IsSent, Target, LetGoAfter
  <2> QED BY <2>1, <2>2 DEF KeysInv
<1>2. CASE Travel!Next
  BY <1>2, PressKeeps, ReleaseKeeps, InjectKeeps DEF Travel!Next
<1> QED BY <1>1, <1>2

LEMMA InitKeys == Travel!Init => KeysInv
BY DEF Travel!Init, KeysInv

\* While the client runs, a key comes up with its release.
LEMMA KeysComeUp == KeysInv => Travel!ReleasesReachTheSameKey
<1> SUFFICES ASSUME KeysInv, wire = <<>>, held = {} PROVE down = {}
  BY DEF Travel!ReleasesReachTheSameKey
<1> QED BY DEF KeysInv, LetGoAfter

\* A step that ends the client's run injects a key that is not on an ordinary
\* keyboard, or a digit of an X11 server's keypad on Wayland.
LEMMA RefusalsAreOfOtherKeys ==
  KeysInv /\ [Travel!Next]_(Travel!vars) =>
    [connected /\ ~connected' /\ Head(wire).origin \in Travel!Keyboard
       => /\ server = "x11" /\ Head(wire).origin \in Travel!KeypadDigits
          /\ client \in {"portal", "wlr"}]_(Travel!vars)
<1> SUFFICES ASSUME KeysInv, Travel!Next, connected, ~connected',
                    Head(wire).origin \in Travel!Keyboard
             PROVE  /\ server = "x11" /\ Head(wire).origin \in Travel!KeypadDigits
                    /\ client \in {"portal", "wlr"}
  OBVIOUS
<1>1. Travel!Inject
  BY DEF Travel!Next, Travel!Press, Travel!Release
<1>2. wire # <<>> /\ Travel!Injected(client, Head(wire)) = Travel!Refused
  BY <1>1 DEF Travel!Inject
<1>3. /\ server \in {"portal", "x11", "win32"}
      /\ client \in {"portal", "wlr", "x11", "win32"}
  BY KeysAssumption DEF KeysInv
<1>4. PICK k \in Keys, release \in BOOLEAN : Head(wire) = EventOf(k, release)
  <2>1. Head(wire) \in Events
    BY <1>2 DEF KeysInv
  <2> QED BY <2>1 DEF Events
<1> DEFINE e == Head(wire)
<1>5. /\ e.origin = k /\ e.key = Travel!Captured(server, k)
      /\ e.nativeCode = Travel!NativeCode(server, k)
  BY <1>4, EventFacts
<1> HIDE DEF e
<1>6. server = "x11" /\ k \in Travel!KeypadDigits
  <2> SUFFICES ASSUME ~(server = "x11" /\ k \in Travel!KeypadDigits) PROVE FALSE
    OBVIOUS
  <2>1. e.key \in Travel!Keyboard
    BY <1>3, <1>5, OrdinaryKeysHaveNames DEF e
  <2> QED BY <1>2, <2>1, EveryTableHasTheKeyboard DEF e
<1>7. client \notin {"x11", "win32"}
  <2> SUFFICES ASSUME client \in {"x11", "win32"} PROVE FALSE
    OBVIOUS
  <2>1. e.key = Travel!None
    BY <1>5, <1>6, KeypadIsUnnamed
  <2>2. Travel!NativeCode("x11", k) \in 79..91
    BY <1>6, KeypadCodesAreCodes
  <2> QED BY <1>2, <1>5, <1>6, <2>1, <2>2, CodesAreTried DEF e
<1> QED BY <1>3, <1>5, <1>6, <1>7 DEF e

\* The keys' invariant, for any keys pressed in any order on any two systems.
THEOREM KeysInvariant == Travel!Spec => []KeysInv
BY InitKeys, NextKeys, PTL DEF Travel!Spec

\* A key pressed on one system is pressed, and then released, on any other; and of the
\* keys of an ordinary keyboard only the digits of an X11 server's keypad end the run
\* of a client, and only of one on Wayland.
THEOREM KeysAlwaysArrive == Travel!Spec => Travel!KeysArrive
BY KeysInvariant, KeysComeUp, RefusalsAreOfOtherKeys, PTL
   DEF Travel!Spec, Travel!KeysArrive, Travel!OrdinaryKeysAreTaken

\* Between two Wayland systems a key with a code stays the key it is: the name
\* keyFromEvdev finds for a code has a row in evdevKeyCode, with that code, also
\* where several names share it.
THEOREM WaylandKeepsKeys ==
  ASSUME NEW k \in Travel!Usages, Travel!EvdevKeyCode(k) # Travel!None,
         NEW backend \in {"portal", "wlr"}, NEW native, NEW release
  PROVE  Travel!Injected(backend,
           Travel!KeyEvent(Travel!Captured("portal", k), native, release, k)) =
             Travel!EvdevKeyCode(k)
<1> DEFINE code == Travel!EvdevKeyCode(k)
           name == Travel!KeyFromEvdev(code)
           e == Travel!KeyEvent(name, native, release, k)
<1>1. k \in Travel!UsagesOf(code) /\ Travel!UsagesOf(code) \subseteq Nat
  BY DEF Travel!UsagesOf, Travel!Usages
<1> HIDE DEF code
<1>2. \E n \in Travel!UsagesOf(code) : \A m \in Travel!UsagesOf(code) : n <= m
  BY <1>1, InjectorP!SmallestOf
<1>3. name \in Travel!UsagesOf(code)
  BY <1>1, <1>2 DEF Travel!KeyFromEvdev, code
<1>4. Travel!EvdevKeyCode(name) = code
  BY <1>3 DEF Travel!UsagesOf
<1> HIDE DEF name
<1>5. e.key = name
  BY DEF Travel!KeyEvent
<1> HIDE DEF e
<1>6. Travel!EvdevKeyFor(e) = code
  BY <1>4, <1>5 DEF Travel!EvdevKeyFor, code
<1>7. Travel!Injected(backend, e) = Travel!EvdevKeyFor(e)
  BY DEF Travel!Injected
<1> QED BY <1>6, <1>7 DEF Travel!Captured, e, name, code

-----------------------------------------------------------------------------
\* They speak of what MCPlatform speaks of.
LEMMA SameXcb ==
  /\ Xcb!Spec <=> XcbP!Spec
  /\ Xcb!BeliefsAreTrue <=> XcbP!BeliefsAreTrue
  /\ Xcb!ReportedOnceInOrder <=> XcbP!ReportedOnceInOrder
BY
   DEF Xcb!flags, XcbP!flags, Xcb!stream, XcbP!stream, Xcb!vars, XcbP!vars,
       Xcb!Clients, XcbP!Clients, Xcb!IdleX, XcbP!IdleX, Xcb!Settled,
       XcbP!Settled, Xcb!RoundTrip, XcbP!RoundTrip, Xcb!WithoutUs,
       XcbP!WithoutUs, Xcb!Releases, XcbP!Releases, Xcb!NothingHeld,
       XcbP!NothingHeld, Xcb!Init, XcbP!Init, Xcb!CloseConnection,
       XcbP!CloseConnection, Xcb!Shutdown, XcbP!Shutdown, Xcb!Initialize,
       XcbP!Initialize, Xcb!AcquireWithoutWindow, XcbP!AcquireWithoutWindow,
       Xcb!AcquireBusy, XcbP!AcquireBusy, Xcb!Acquire, XcbP!Acquire,
       Xcb!Release, XcbP!Release, Xcb!MoveLocalCursor, XcbP!MoveLocalCursor,
       Xcb!Translated, XcbP!Translated, Xcb!NextEvent, XcbP!NextEvent,
       Xcb!NextEventThrows, XcbP!NextEventThrows, Xcb!Owner, XcbP!Owner,
       Xcb!EventsOf, XcbP!EventsOf, Xcb!UserInput, XcbP!UserInput,
       Xcb!OtherGrab, XcbP!OtherGrab, Xcb!XServerDies, XcbP!XServerDies,
       Xcb!CaptureStep, XcbP!CaptureStep, Xcb!ServerStep, XcbP!ServerStep,
       Xcb!Next, XcbP!Next, Xcb!Spec, XcbP!Spec, Xcb!BeliefsAreTrue,
       XcbP!BeliefsAreTrue, Xcb!ReportedOnceInOrder, XcbP!ReportedOnceInOrder

LEMMA SamePromise == Xcb!XcbIsACapture <=> XcbP!XcbIsACapture
BY DEF Xcb!XcbIsACapture, XcbP!XcbIsACapture,
       Xcb!Promise!CaptureSpec, XcbP!Promise!CaptureSpec,
       Xcb!Promise!CaptureInit, XcbP!Promise!CaptureInit,
       Xcb!Promise!CaptureNext, XcbP!Promise!CaptureNext,
       Xcb!Promise!captureVars, XcbP!Promise!captureVars,
       Xcb!Promise!Initialize, XcbP!Promise!Initialize,
       Xcb!Promise!Take, XcbP!Promise!Take,
       Xcb!Promise!GiveBack, XcbP!Promise!GiveBack,
       Xcb!Promise!Lose, XcbP!Promise!Lose,
       Xcb!Promise!Shutdown, XcbP!Promise!Shutdown

LEMMA SamePortal ==
  /\ Portal!Spec <=> PortalP!Spec
  /\ Portal!CaptureHasAReader <=> PortalP!CaptureHasAReader
  /\ Portal!ActivationIsKnown <=> PortalP!ActivationIsKnown
BY
   DEF Portal!stateVars, PortalP!stateVars, Portal!portalVars,
       PortalP!portalVars, Portal!vars, PortalP!vars, Portal!Request,
       PortalP!Request, Portal!Signal, PortalP!Signal, Portal!Init,
       PortalP!Init, Portal!Activate, PortalP!Activate, Portal!Deactivate,
       PortalP!Deactivate, Portal!CanSend, PortalP!CanSend, Portal!Send,
       PortalP!Send, Portal!UserInput, PortalP!UserInput, Portal!UserModifier,
       PortalP!UserModifier, Portal!Post, PortalP!Post, Portal!Initialize,
       PortalP!Initialize, Portal!NextStage, PortalP!NextStage,
       Portal!Proceed, PortalP!Proceed, Portal!Close, PortalP!Close,
       Portal!Answer, PortalP!Answer, Portal!Enable, PortalP!Enable,
       Portal!Release, PortalP!Release, Portal!HandleSignal,
       PortalP!HandleSignal, Portal!Dispatch, PortalP!Dispatch,
       Portal!MoveLocalCursor, PortalP!MoveLocalCursor, Portal!HandleEvent,
       PortalP!HandleEvent, Portal!ClientGone, PortalP!ClientGone,
       Portal!GLibStep, PortalP!GLibStep, Portal!Next, PortalP!Next,
       Portal!Spec, PortalP!Spec, Portal!CaptureHasAReader,
       PortalP!CaptureHasAReader, Portal!Announced, PortalP!Announced,
       Portal!Releasing, PortalP!Releasing, Portal!ActivationIsKnown,
       PortalP!ActivationIsKnown

LEMMA SameInjector ==
  /\ Injector!Spec <=> InjectorP!Spec
  /\ Injector!EventsAreTaken <=> InjectorP!EventsAreTaken
BY
   DEF Injector!Capability, InjectorP!Capability, Injector!Needs,
       InjectorP!Needs, Injector!injectorVars, InjectorP!injectorVars,
       Injector!eisVars, InjectorP!eisVars, Injector!vars, InjectorP!vars,
       Injector!Init, InjectorP!Init, Injector!Connected, InjectorP!Connected,
       Injector!Notice, InjectorP!Notice, Injector!Notify, InjectorP!Notify,
       Injector!ServerStep, InjectorP!ServerStep, Injector!Add, InjectorP!Add,
       Injector!Resume, InjectorP!Resume, Injector!Pause, InjectorP!Pause,
       Injector!Remove, InjectorP!Remove, Injector!Disconnect,
       InjectorP!Disconnect, Injector!Index, InjectorP!Index,
       Injector!Without, InjectorP!Without, Injector!Believe,
       InjectorP!Believe, Injector!Starts, InjectorP!Starts, Injector!Read,
       InjectorP!Read, Injector!DispatchEi, InjectorP!DispatchEi,
       Injector!DeviceFor, InjectorP!DeviceFor, Injector!Ready,
       InjectorP!Ready, Injector!Owned, InjectorP!Owned, Injector!Close,
       InjectorP!Close, Injector!Initialize, InjectorP!Initialize,
       Injector!Created, InjectorP!Created, Injector!Started,
       InjectorP!Started, Injector!Refused, InjectorP!Refused,
       Injector!AwaitDevices, InjectorP!AwaitDevices,
       Injector!AwaitDisconnected, InjectorP!AwaitDisconnected,
       Injector!PollFails, InjectorP!PollFails, Injector!Inject,
       InjectorP!Inject, Injector!InjectUnready, InjectorP!InjectUnready,
       Injector!Shutdown, InjectorP!Shutdown, Injector!EisStep,
       InjectorP!EisStep, Injector!InjectorStep, InjectorP!InjectorStep,
       Injector!Next, InjectorP!Next, Injector!Spec, InjectorP!Spec,
       Injector!EventsAreTaken, InjectorP!EventsAreTaken

-----------------------------------------------------------------------------
\* A step of the parts side by side is a step or a stutter of each of them.
LEMMA PartsMove ==
  ASSUME [MCNext]_<<part, vars, xcbVars, portalVars, injectorVars, keyVars>>
  PROVE  /\ [Next]_vars /\ [Xcb!Next]_(Xcb!vars) /\ [Portal!Next]_(Portal!vars)
         /\ [Injector!Next]_(Injector!vars) /\ [Travel!Next]_(Travel!vars)
<1>1. UNCHANGED xcbVars => UNCHANGED Xcb!vars
  BY DEF xcbVars, Xcb!vars, Xcb!flags, Xcb!stream
<1>2. UNCHANGED portalVars => UNCHANGED Portal!vars
  BY DEF portalVars, Portal!vars, Portal!portalVars, Portal!stateVars
<1>3. UNCHANGED injectorVars => UNCHANGED Injector!vars
  BY DEF injectorVars, Injector!vars, Injector!injectorVars, Injector!eisVars
<1>4. UNCHANGED keyVars => UNCHANGED Travel!vars
  BY DEF keyVars, Travel!vars
<1>5. CASE MCNext
  BY <1>1, <1>2, <1>3, <1>4, <1>5
     DEF MCNext, Win32Moves, XcbMoves, PortalMoves, InjectorMoves, KeysMove
<1>6. CASE UNCHANGED <<part, vars, xcbVars, portalVars, injectorVars, keyVars>>
  BY <1>1, <1>2, <1>3, <1>4, <1>6
<1> QED BY <1>5, <1>6

LEMMA EachPartBehaves ==
  MCSpec => Spec /\ Xcb!Spec /\ Portal!Spec /\ Injector!Spec /\ Travel!Spec
<1>1. MCInit => Init /\ Xcb!Init /\ Portal!Init /\ Injector!Init /\ Travel!Init
  BY DEF MCInit
<1> QED BY <1>1, PartsMove, PTL
       DEF MCSpec, Spec, Xcb!Spec, Portal!Spec, Injector!Spec, Travel!Spec

\* In the composition too, a motion of the user under the Win32 capture is lost only
\* to a full channel or after a displacement by another program.
THEOREM MotionStaysConserved == MCSpec => []MotionIsConserved
BY EachPartBehaves, MotionIsAlwaysConserved, PTL

\* The X11 capture holds what it believes to hold.
THEOREM BeliefsStayTrue == MCSpec => []BeliefsAreTrue
BY EachPartBehaves, SameXcb, XcbP!BeliefsAreAlwaysTrue, PTL DEF BeliefsAreTrue

\* The X11 capture reports the user's input in its order, and once.
THEOREM ReportsStayInOrder == MCSpec => []ReportedOnceInOrder
BY EachPartBehaves, SameXcb, XcbP!ReportsAreInOrder, PTL DEF ReportedOnceInOrder

\* Win32 and X11 keep the promise the input router relies on.
THEOREM CapturesKeepThePromise == MCSpec => CapturePromise
BY EachPartBehaves, SameXcb, SamePromise, Win32ImplementsCapture,
   XcbP!XcbImplementsCapture, PTL DEF CapturePromise

\* The compositor takes no input that the portal capture does not read.
THEOREM PortalAlwaysReads == MCSpec => []CaptureHasAReader
BY EachPartBehaves, SamePortal, PortalP!CaptureAlwaysHasAReader, PTL
   DEF CaptureHasAReader

\* The portal capture can give back whatever the compositor has taken.
THEOREM ActivationsAreKnown == MCSpec => []ActivationIsKnown
BY EachPartBehaves, SamePortal, PortalP!ActivationIsAlwaysKnown, PTL
   DEF ActivationIsKnown

\* The injector of the portal talks to devices that listen.
THEOREM EventsStayTaken == MCSpec => []EventsAreTaken
BY EachPartBehaves, SameInjector, InjectorP!EventsAreAlwaysTaken, PTL
   DEF EventsAreTaken

\* A key comes up on the client with its release; of the keys of an ordinary keyboard
\* only the digits of an X11 server's keypad end the run of a client on Wayland, and
\* none ends the run of another client.
THEOREM KeysStillArrive == MCSpec => KeysArrive
BY EachPartBehaves, KeysAlwaysArrive, PTL DEF KeysArrive

=============================================================================
