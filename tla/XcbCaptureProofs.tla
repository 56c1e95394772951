--------------------------- MODULE XcbCaptureProofs ---------------------------
(***************************************************************************)
(* Proofs about XcbCapture: what the capture believes to hold is what the  *)
(* X server gives it, the capture keeps the promise of CaptureBackend, and *)
(* it reports the user's input in its order, for any number of inputs,     *)
(* refused grabs and lost X servers.                                       *)
(***************************************************************************)
EXTENDS XcbCapture, SequenceTheorems, TLAPS

\* The buffer matters only while there is a server to read it, and then the
\* requests in it release what no member claims.  In remote mode, and only
\* there, the window and the pointer are ours.
XcbInv ==
  /\ XcbTypeOK
  /\ BeliefsAreTrue
  /\ connection = "up" => remote = pointerGrabbed
  /\ ~remote => ~window
  /\ "pointer" \in buffer => ~pointerGrabbed
  /\ x.pointer = "us" => connection = "up" /\ remote

\* What the X server holds for us, field by field.
XStates == [pointer : Clients, keyboard : Clients, window : BOOLEAN]

LEMMA SettledType == ASSUME NEW s \in XStates, NEW r PROVE Settled(s, r) \in XStates
<1>1. s.pointer \in Clients /\ s.keyboard \in Clients /\ s.window \in BOOLEAN
  BY DEF XStates
<1>2. (s.window /\ "window" \notin r) \in BOOLEAN
  OBVIOUS
<1>3. "free" \in Clients
  BY DEF Clients
<1> QED
  BY <1>1, <1>2, <1>3 DEF Settled, XStates

\* Nothing is left to do when the buffer is empty.
LEMMA SettledEmpty == ASSUME NEW s \in XStates PROVE Settled(s, {}) = s
<1>1. s.window \in BOOLEAN /\ s = [pointer |-> s.pointer, keyboard |-> s.keyboard,
                                   window |-> s.window]
  BY DEF XStates
<1>2. (s.window /\ "window" \notin {}) = s.window
  BY <1>1
<1> QED
  BY <1>1, <1>2 DEF Settled

LEMMA InitXcb == Init => XcbInv
<1> SUFFICES ASSUME Init PROVE XcbInv
  OBVIOUS
<1>1. IdleX \in XStates /\ IdleX = WithoutUs(IdleX)
  BY DEF IdleX, XStates, WithoutUs, Clients
<1>2. XcbTypeOK
  BY <1>1 DEF Init, XcbTypeOK, XStates
<1> QED
  BY <1>2 DEF Init, XcbInv, BeliefsAreTrue, IdleX

LEMMA NextKeepsXcb == XcbInv /\ [Next]_vars => XcbInv'
<1> SUFFICES ASSUME XcbInv, [Next]_vars PROVE XcbInv'
  OBVIOUS
<1> USE DEF XcbInv, XcbTypeOK, BeliefsAreTrue, Clients, Settled, WithoutUs, flags, stream
<1>1. CASE Initialize
  BY <1>1 DEF Initialize, NothingHeld
<1>2. CASE Shutdown
  BY <1>2 DEF Shutdown, CloseConnection, NothingHeld
<1>3. CASE AcquireWithoutWindow
  <2>1. CASE connection = "up"
    <3>1. x \in XStates /\ x' = Settled(x, buffer) /\ buffer' = {}
      BY <1>3, <2>1 DEF AcquireWithoutWindow, RoundTrip, XStates
    <3>2. x' \in XStates /\ Settled(x', buffer') = Settled(x, buffer)
      BY <3>1, SettledType, SettledEmpty DEF XcbInv
    <3>3. XcbTypeOK'
      BY <1>3, <2>1, <3>1, <3>2 DEF AcquireWithoutWindow, XStates
    <3>4. BeliefsAreTrue'
      BY <1>3, <2>1, <3>2 DEF AcquireWithoutWindow
    <3> QED
      BY <1>3, <2>1, <3>1, <3>3, <3>4 DEF AcquireWithoutWindow
  <2>2. CASE connection # "up"
    BY <1>3, <2>2 DEF AcquireWithoutWindow
  <2> QED
    BY <2>1, <2>2
<1>4. CASE AcquireBusy
  <2>1. x \in XStates
    BY DEF XStates
  <2>2. Settled(x, buffer) \in XStates
    BY <2>1, SettledType
  <2>3. x' \in XStates /\ x'.window = TRUE /\ buffer' = {"window"}
          /\ x'.pointer = Settled(x, buffer).pointer /\ x'.keyboard = Settled(x, buffer).keyboard
    BY <1>4, <2>2 DEF AcquireBusy, XStates
  <2>4. connection = "up" /\ connection' = "up" /\ ~remote /\ ~pointerGrabbed /\ x'.pointer = "other"
          /\ UNCHANGED <<window, pointerGrabbed, keyboardGrabbed, remote, polling, rawDuringGrab>>
    BY <1>4, <2>3 DEF AcquireBusy
  <2>5. XcbTypeOK'
    BY <2>3, <2>4 DEF XStates
  <2>6. Settled(x', buffer').pointer = x'.pointer /\ Settled(x', buffer').keyboard = x'.keyboard
          /\ Settled(x', buffer').window = FALSE
    BY <2>3
  <2>7. BeliefsAreTrue'
    BY <2>3, <2>4, <2>6
  <2> QED
    BY <2>3, <2>4, <2>5, <2>7
<1>5. CASE Acquire
  BY <1>5 DEF Acquire
<1>6. CASE Release
  <2>1. Releases \subseteq {"pointer", "keyboard", "window"} /\ x \in XStates
    BY DEF Releases, XStates
  <2>2. ~window' /\ ~pointerGrabbed' /\ ~keyboardGrabbed' /\ ~remote'
          /\ window' \in BOOLEAN /\ pointerGrabbed' \in BOOLEAN
          /\ keyboardGrabbed' \in BOOLEAN /\ remote' \in BOOLEAN
          /\ connection # "none" /\ UNCHANGED <<connection, polling, rawDuringGrab>>
    BY <1>6 DEF Release, NothingHeld
  <2>3. CASE connection = "up"
    <3>1. x' = Settled(x, buffer \cup Releases) /\ buffer' = {}
      BY <1>6, <2>3 DEF Release
    <3>2. x' \in XStates /\ Settled(x', buffer') = x'
      BY <2>1, <3>1, SettledType, SettledEmpty
    <3>3. x'.window = FALSE
      BY <2>1, <2>3, <3>1 DEF Releases, XStates
    <3>4. x'.pointer # "us"
      BY <2>1, <2>3, <3>1 DEF Releases, XStates
    <3>5. x'.keyboard # "us"
      BY <2>1, <2>3, <3>1 DEF Releases, XStates
    <3>6. XcbTypeOK'
      BY <2>2, <3>1, <3>2 DEF XStates
    <3>7. BeliefsAreTrue'
      BY <2>2, <3>1, <3>3, <3>4, <3>5
    <3> QED
      BY <2>2, <3>1, <3>4, <3>6, <3>7
  <2>4. CASE connection # "up"
    <3>1. x' = x /\ buffer' = buffer \cup Releases
      BY <1>6, <2>4 DEF Release
    <3>2. XcbTypeOK'
      BY <2>1, <2>2, <3>1
    <3> QED
      BY <2>2, <2>4, <3>1, <3>2
  <2> QED
    BY <2>3, <2>4
<1>7. CASE MoveLocalCursor
  BY <1>7 DEF MoveLocalCursor, RoundTrip
<1>8. CASE NextEvent
  <2>1. connection = "up" /\ UNCHANGED <<connection, polling, flags, rawDuringGrab>>
    BY <1>8 DEF NextEvent
  <2>2. CASE Translated(Head(queue))
    <3>1. x \in XStates /\ x' = Settled(x, buffer) /\ buffer' = {}
      BY <1>8, <2>2 DEF NextEvent, RoundTrip, XStates
    <3>2. x' \in XStates /\ Settled(x', buffer') = Settled(x, buffer)
      BY <3>1, SettledType, SettledEmpty
    <3>3. XcbTypeOK'
      BY <2>1, <3>1, <3>2 DEF XStates
    <3>4. BeliefsAreTrue'
      BY <2>1, <3>2
    <3> QED
      BY <2>1, <3>1, <3>3, <3>4
  <2>3. CASE ~Translated(Head(queue))
    <3>1. UNCHANGED <<x, buffer>>
      BY <1>8, <2>3 DEF NextEvent
    <3> QED
      BY <2>1, <3>1
  <2> QED
    BY <2>2, <2>3
<1>9. CASE NextEventThrows
  BY <1>9 DEF NextEventThrows, Shutdown, CloseConnection, NothingHeld
<1>10. ASSUME NEW kind \in {"pointer", "key"}, UserInput(kind) PROVE XcbInv'
  BY <1>10 DEF UserInput
<1>11. ASSUME NEW device \in {"pointer", "keyboard"}, OtherGrab(device) PROVE XcbInv'
  BY <1>11 DEF OtherGrab
<1>12. CASE XServerDies
  BY <1>12 DEF XServerDies, IdleX
<1>13. CASE UNCHANGED vars
  BY <1>13 DEF vars
<1> QED
  BY <1>1, <1>2, <1>3, <1>4, <1>5, <1>6, <1>7, <1>8, <1>9, <1>10, <1>11, <1>12, <1>13
     DEF Next, CaptureStep, ServerStep

\* The capture's invariant.
THEOREM XcbInvariant == Spec => []XcbInv
BY InitXcb, NextKeepsXcb, PTL DEF Spec

\* A capture that is closed holds nothing, and its variables have their types.
THEOREM XcbTypeCorrect == Spec => []XcbTypeOK
<1>1. XcbInv => XcbTypeOK
  BY DEF XcbInv
<1> QED
  BY <1>1, XcbInvariant, PTL

\* Once the X server has read what is in the buffer, the members of the capture
\* say what it holds: no window or grab is left behind by an acquisition that
\* failed, and none is believed held that is not.
THEOREM BeliefsAreAlwaysTrue == Spec => []BeliefsAreTrue
<1>1. XcbInv => BeliefsAreTrue
  BY DEF XcbInv
<1> QED
  BY <1>1, XcbInvariant, PTL

-----------------------------------------------------------------------------
\* Initial states map to initial states.
LEMMA InitIsCaptureInit == Init => Promise!CaptureInit
BY DEF Init, IdleX, Promise!CaptureInit

\* Every step of the capture, of the X server and of its other clients is a
\* step of CaptureBackend or changes nothing it speaks of.
LEMMA StepIsCaptureStep ==
  XcbInv /\ XcbInv' /\ [Next]_vars => [Promise!CaptureNext]_Promise!captureVars
<1> SUFFICES ASSUME XcbInv, XcbInv', [Next]_vars
             PROVE  Promise!CaptureNext \/ UNCHANGED Promise!captureVars
  OBVIOUS
<1> USE DEF Promise!CaptureNext, Promise!captureVars, Promise!Initialize, Promise!Take,
            Promise!GiveBack, Promise!Lose, Promise!Shutdown
<1> USE DEF XcbInv, XcbTypeOK, Clients, Settled, WithoutUs, flags, stream
<1>1. CASE Initialize
  BY <1>1 DEF Initialize, NothingHeld
<1>2. CASE Shutdown
  BY <1>2 DEF Shutdown, CloseConnection, NothingHeld
<1>3. CASE AcquireWithoutWindow
  BY <1>3 DEF AcquireWithoutWindow, RoundTrip
<1>4. CASE AcquireBusy
  BY <1>4 DEF AcquireBusy
<1>5. CASE Acquire
  BY <1>5 DEF Acquire
<1>6. CASE Release
  BY <1>6 DEF Release, NothingHeld, Releases
<1>7. CASE MoveLocalCursor
  BY <1>7 DEF MoveLocalCursor, RoundTrip
<1>8. CASE NextEvent
  BY <1>8 DEF NextEvent, RoundTrip
<1>9. CASE NextEventThrows
  BY <1>9 DEF NextEventThrows, Shutdown, CloseConnection, NothingHeld
<1>10. ASSUME NEW kind \in {"pointer", "key"}, UserInput(kind)
       PROVE  UNCHANGED Promise!captureVars
  BY <1>10 DEF UserInput
<1>11. ASSUME NEW device \in {"pointer", "keyboard"}, OtherGrab(device)
       PROVE  UNCHANGED Promise!captureVars
  BY <1>11 DEF OtherGrab
<1>12. CASE XServerDies
  BY <1>12 DEF XServerDies, IdleX
<1>13. CASE UNCHANGED vars
  BY <1>13 DEF vars
<1> QED
  BY <1>1, <1>2, <1>3, <1>4, <1>5, <1>6, <1>7, <1>8, <1>9, <1>10, <1>11, <1>12, <1>13
     DEF Next, CaptureStep, ServerStep

\* The capture implements CaptureBackend: the user's pointer is taken only in
\* remote mode, a refusal changes nothing, and nothing is taken once the
\* backend is shut down.
THEOREM XcbImplementsCapture == Spec => XcbIsACapture
<1>1. Spec => []XcbInv
  BY XcbInvariant
<1> QED
  BY <1>1, InitIsCaptureInit, StepIsCaptureStep, PTL
     DEF Spec, XcbIsACapture, Promise!CaptureSpec

-----------------------------------------------------------------------------
\* The order of what is reported.

Event == [form : {"raw", "core"}, kind : {"pointer", "key"}, input : Nat]

\* The events that translateEvent may report, and the order of their inputs.
Counts(e) == e.form = "raw" \/ ~rawDuringGrab
InOrder(a, b) == IF rawDuringGrab THEN a < b ELSE a <= b

StreamTypes == queue \in Seq(Event) /\ reported \in Seq(Nat) /\ inputs \in Nat

\* What is on the socket is in order, after what was reported, and nothing is
\* ahead of the user.
OrderInv ==
  /\ StreamTypes
  /\ \A i, j \in 1 .. Len(reported) : i < j => InOrder(reported[i], reported[j])
  /\ \A i \in 1 .. Len(reported), j \in 1 .. Len(queue) :
       Counts(queue[j]) => InOrder(reported[i], queue[j].input)
  /\ \A i, j \in 1 .. Len(queue) :
       i < j /\ Counts(queue[i]) /\ Counts(queue[j])
         => InOrder(queue[i].input, queue[j].input)
  /\ \A i \in 1 .. Len(queue) : queue[i].input <= inputs
  /\ \A i \in 1 .. Len(reported) : reported[i] <= inputs

\* The events of one input: the raw one comes first, and neither comes twice.
LEMMA EventsFacts ==
  ASSUME inputs \in Nat, NEW kind \in {"pointer", "key"}
  PROVE  /\ EventsOf(kind) \in Seq(Event)
         /\ \A i \in 1 .. Len(EventsOf(kind)) :
              EventsOf(kind)[i] \in Event /\ EventsOf(kind)[i].input = inputs + 1
         /\ \A i, j \in 1 .. Len(EventsOf(kind)) : i < j => EventsOf(kind)[j].form = "core"
<1> DEFINE raw   == [form |-> "raw", kind |-> kind, input |-> inputs + 1]
           core  == [form |-> "core", kind |-> kind, input |-> inputs + 1]
           first == IF rawDuringGrab \/ Owner(kind) = "free" THEN <<raw>> ELSE <<>>
           then  == IF Owner(kind) = "us" \/ (Owner(kind) = "free" /\ x.window /\ kind # "key")
                    THEN <<core>> ELSE <<>>
<1>1. /\ raw \in Event /\ core \in Event /\ raw.input = inputs + 1 /\ core.input = inputs + 1
      /\ core.form = "core"
  BY DEF Event
<1> HIDE DEF raw, core
<1>2. first \in {<<raw>>, <<>>} /\ then \in {<<core>>, <<>>}
  OBVIOUS
<1>3. EventsOf(kind) = first \o then
  BY DEF EventsOf, raw, core
<1> HIDE DEF first, then
<1>4. /\ first \in Seq(Event) /\ Len(first) \in 0 .. 1 /\ (Len(first) = 1 => first[1] = raw)
      /\ then \in Seq(Event) /\ Len(then) \in 0 .. 1 /\ (Len(then) = 1 => then[1] = core)
  <2>1. <<raw>> \in Seq(Event) /\ Len(<<raw>>) = 1 /\ <<raw>>[1] = raw
    BY <1>1
  <2>2. <<core>> \in Seq(Event) /\ Len(<<core>>) = 1 /\ <<core>>[1] = core
    BY <1>1
  <2>3. <<>> \in Seq(Event) /\ Len(<<>>) = 0
    BY EmptySeq
  <2>4. first \in Seq(Event) /\ Len(first) \in 0 .. 1 /\ (Len(first) = 1 => first[1] = raw)
    <3>1. CASE first = <<raw>>
      BY <2>1, <3>1
    <3>2. CASE first = <<>>
      BY <2>3, <3>2
    <3> QED BY <1>2, <3>1, <3>2
  <2>5. then \in Seq(Event) /\ Len(then) \in 0 .. 1 /\ (Len(then) = 1 => then[1] = core)
    <3>1. CASE then = <<core>>
      BY <2>2, <3>1
    <3>2. CASE then = <<>>
      BY <2>3, <3>2
    <3> QED BY <1>2, <3>1, <3>2
  <2> QED BY <2>4, <2>5
<1> DEFINE both == first \o then
<1>5. /\ both \in Seq(Event) /\ Len(both) = Len(first) + Len(then)
      /\ \A i \in 1 .. Len(first) + Len(then) :
           both[i] = IF i <= Len(first) THEN first[i] ELSE then[i - Len(first)]
  BY <1>4, ConcatProperties
<1> HIDE DEF both
<1>6. ASSUME NEW i \in 1 .. Len(both)
      PROVE  /\ i <= Len(first) => i = 1 /\ both[i] = raw
             /\ i > Len(first) => i - Len(first) = 1 /\ both[i] = core
  BY <1>4, <1>5
<1>7. \A i \in 1 .. Len(both) : both[i] \in Event /\ both[i].input = inputs + 1
  BY <1>1, <1>4, <1>6
<1>8. \A i, j \in 1 .. Len(both) : i < j => both[j].form = "core"
  BY <1>1, <1>4, <1>5, <1>6
<1> QED BY <1>3, <1>5, <1>7, <1>8 DEF both

\* The user does something, and its events come after all that is queued.
LEMMA UserInputKeepsOrder ==
  ASSUME OrderInv, NEW kind \in {"pointer", "key"}, UserInput(kind)
  PROVE  OrderInv'
<1> DEFINE E == EventsOf(kind)
           q == queue \o E
           n == Len(queue)
           m == Len(E)
<1>1. /\ inputs' = inputs + 1 /\ queue' = q /\ UNCHANGED <<reported, rawDuringGrab>>
  BY DEF UserInput
<1>2. /\ queue \in Seq(Event) /\ reported \in Seq(Nat) /\ inputs \in Nat
  BY DEF OrderInv, StreamTypes
<1>3. /\ E \in Seq(Event)
      /\ \A i \in 1 .. Len(E) : E[i] \in Event /\ E[i].input = inputs + 1
      /\ \A i, j \in 1 .. Len(E) : i < j => E[j].form = "core"
  BY <1>2, EventsFacts
<1> HIDE DEF E
<1>4. /\ q \in Seq(Event) /\ Len(q) = n + m /\ n \in Nat /\ m \in Nat
      /\ \A i \in 1 .. n + m : q[i] = IF i <= n THEN queue[i] ELSE E[i - n]
  BY <1>2, <1>3, ConcatProperties
<1> HIDE DEF q, n, m
<1>5. ASSUME NEW i \in 1 .. n + m
      PROVE  /\ i <= n => i \in 1 .. Len(queue) /\ q[i] = queue[i]
             /\ i > n => i - n \in 1 .. Len(E) /\ q[i] = E[i - n]
  BY <1>4 DEF n, m
<1>6. \A i \in 1 .. n + m : IF i <= n THEN q[i].input <= inputs ELSE q[i].input = inputs + 1
  <2>1. \A i \in 1 .. Len(queue) : queue[i].input <= inputs
    BY DEF OrderInv
  <2>2. \A i \in 1 .. n + m : i <= n => q[i].input <= inputs
    BY <1>5, <2>1
  <2>3. \A i \in 1 .. n + m : i > n => q[i].input = inputs + 1
    BY <1>3, <1>5
  <2> QED BY <1>4, <2>2, <2>3
<1>7. \A i \in 1 .. Len(queue) : queue[i] \in Event /\ queue[i].input \in Nat
  <2>1. \A i \in 1 .. Len(queue) : queue[i] \in Event
    BY <1>2
  <2> QED BY <2>1 DEF Event
<1>8. \A i \in 1 .. Len(reported) : reported[i] \in Nat
  BY <1>2
<1>9. \A e : Counts(e)' = Counts(e)
  BY <1>1 DEF Counts
<1>10. \A a, b : InOrder(a, b)' = InOrder(a, b)
  BY <1>1 DEF InOrder
<1>11. ASSUME NEW i \in 1 .. Len(reported), NEW j \in 1 .. n + m, Counts(q[j])
       PROVE  InOrder(reported[i], q[j].input)
  <2>1. CASE j <= n
    BY <1>5, <1>11, <2>1 DEF OrderInv
  <2>2. CASE j > n
    <3>1. q[j].input = inputs + 1 /\ reported[i] <= inputs
      BY <1>4, <1>6, <2>2 DEF OrderInv
    <3> QED BY <1>2, <1>8, <3>1 DEF InOrder
  <2> QED BY <1>4, <2>1, <2>2
<1>12. ASSUME NEW i \in 1 .. n + m, NEW j \in 1 .. n + m, i < j, Counts(q[i]), Counts(q[j])
       PROVE  InOrder(q[i].input, q[j].input)
  <2>1. CASE j <= n
    BY <1>4, <1>5, <1>12, <2>1 DEF OrderInv
  <2>2. CASE i <= n /\ j > n
    <3>1. q[j].input = inputs + 1 /\ q[i].input <= inputs /\ q[i].input \in Nat
      BY <1>4, <1>5, <1>6, <1>7, <2>2
    <3> QED BY <1>2, <3>1 DEF InOrder
  <2>3. CASE i > n
    <3>1. q[j].input = inputs + 1 /\ q[i].input = inputs + 1
      BY <1>4, <1>6, <1>12, <2>3
    <3>2. q[j].form = "core"
      <4>1. i - n \in 1 .. Len(E) /\ j - n \in 1 .. Len(E) /\ i - n < j - n /\ q[j] = E[j - n]
        BY <1>4, <1>5, <1>12, <2>3
      <4> QED BY <1>3, <4>1
    <3>3. ~rawDuringGrab
      BY <1>12, <3>2 DEF Counts
    <3> QED BY <1>2, <3>1, <3>3 DEF InOrder
  <2> QED BY <1>4, <2>1, <2>2, <2>3
<1>13. \A i \in 1 .. n + m : q[i].input <= inputs + 1
  BY <1>2, <1>3, <1>4, <1>5, <1>6, <1>7
<1>14. \A i \in 1 .. Len(reported) : reported[i] <= inputs + 1
  BY <1>2, <1>8 DEF OrderInv
<1>15. StreamTypes'
  BY <1>1, <1>2, <1>4 DEF StreamTypes
<1>16. \A i, j \in 1 .. Len(reported) : i < j => InOrder(reported[i], reported[j])
  BY DEF OrderInv
<1>17. Len(queue') = n + m /\ queue' = q /\ reported' = reported /\ inputs' = inputs + 1
  BY <1>1, <1>4
<1> QED BY <1>9, <1>10, <1>11, <1>12, <1>13, <1>14, <1>15, <1>16, <1>17 DEF OrderInv

\* The oldest event is taken off the socket, and reported or not.
LEMMA NextEventKeepsOrder == ASSUME OrderInv, NextEvent PROVE OrderInv'
<1> DEFINE e == Head(queue)
<1>1. /\ queue # <<>> /\ queue' = Tail(queue) /\ UNCHANGED <<rawDuringGrab, inputs>>
      /\ \/ reported' = reported
         \/ reported' = Append(reported, e.input) /\ Counts(e)
  <2>1. Translated(e) => Counts(e)
    BY DEF Translated, Counts
  <2>2. CASE Translated(e)
    BY <2>1, <2>2 DEF NextEvent
  <2>3. CASE ~Translated(e)
    BY <2>3 DEF NextEvent
  <2> QED BY <2>2, <2>3
<1>2. queue \in Seq(Event) /\ reported \in Seq(Nat) /\ inputs \in Nat
  BY DEF OrderInv, StreamTypes
<1>3. /\ e = queue[1] /\ e \in Event /\ 1 \in 1 .. Len(queue)
      /\ queue' \in Seq(Event) /\ Len(queue') = Len(queue) - 1 /\ Len(queue) \in Nat
      /\ \A j \in 1 .. Len(queue') : queue'[j] = queue[j + 1]
  BY <1>1, <1>2, EmptySeq, HeadTailProperties
<1> HIDE DEF e
<1>4. /\ \A c : Counts(c)' = Counts(c)
      /\ \A a, b : InOrder(a, b)' = InOrder(a, b)
  BY <1>1 DEF Counts, InOrder
<1>5. \A j \in 1 .. Len(queue') : j + 1 \in 1 .. Len(queue) /\ 1 < j + 1
  BY <1>3
<1>6. CASE reported' = reported
  BY <1>1, <1>2, <1>3, <1>4, <1>5, <1>6 DEF OrderInv, StreamTypes
<1>7. CASE reported' = Append(reported, e.input) /\ Counts(e)
  <2> DEFINE r == Append(reported, e.input)
             n == Len(reported)
  <2>1. e.input \in Nat
    BY <1>3 DEF Event
  <2>2. /\ r \in Seq(Nat) /\ Len(r) = n + 1 /\ n \in Nat
        /\ \A i \in 1 .. n : r[i] = reported[i]
        /\ r[n + 1] = e.input
    BY <1>2, <2>1, AppendProperties
  <2>3. reported' = r
    BY <1>7
  <2> HIDE DEF r
  <2>4. \A i \in 1 .. n + 1 : i \in 1 .. n \/ i = n + 1
    BY <2>2
  <2>5. \A i \in 1 .. n : InOrder(reported[i], e.input) /\ reported[i] <= inputs
    BY <1>3, <1>7 DEF OrderInv
  <2>6. e.input <= inputs
    BY <1>3 DEF OrderInv
  <2>7. \A j \in 1 .. Len(queue') : Counts(queue'[j]) => InOrder(e.input, queue'[j].input)
    BY <1>3, <1>5, <1>7 DEF OrderInv
  <2>8. \A i \in 1 .. n, j \in 1 .. Len(queue') :
          Counts(queue'[j]) => InOrder(reported[i], queue'[j].input)
    BY <1>3, <1>5 DEF OrderInv
  <2>9. \A i, j \in 1 .. n + 1 : i < j => InOrder(r[i], r[j])
    <3> SUFFICES ASSUME NEW i \in 1 .. n + 1, NEW j \in 1 .. n + 1, i < j
                 PROVE  InOrder(r[i], r[j])
      OBVIOUS
    <3>1. i \in 1 .. n
      BY <2>2
    <3>2. CASE j \in 1 .. n
      BY <2>2, <3>1, <3>2 DEF OrderInv
    <3>3. CASE j = n + 1
      BY <2>2, <2>5, <3>1, <3>3
    <3> QED BY <2>4, <3>2, <3>3
  <2>10. \A i \in 1 .. n + 1, j \in 1 .. Len(queue') :
           Counts(queue'[j]) => InOrder(r[i], queue'[j].input)
    BY <2>2, <2>4, <2>7, <2>8
  <2>11. \A i \in 1 .. n + 1 : r[i] <= inputs
    BY <2>2, <2>4, <2>5, <2>6
  <2>12. \A i, j \in 1 .. Len(queue') :
           i < j /\ Counts(queue'[i]) /\ Counts(queue'[j])
             => InOrder(queue'[i].input, queue'[j].input)
    BY <1>3, <1>5 DEF OrderInv
  <2>13. \A i \in 1 .. Len(queue') : queue'[i].input <= inputs
    BY <1>3, <1>5 DEF OrderInv
  <2>14. StreamTypes'
    BY <1>1, <1>2, <1>3, <2>2, <2>3 DEF StreamTypes
  <2>15. Len(reported') = n + 1 /\ inputs' = inputs
    BY <1>1, <2>2, <2>3
  <2> QED
    BY <1>4, <2>3, <2>9, <2>10, <2>11, <2>12, <2>13, <2>14, <2>15 DEF OrderInv
<1> QED BY <1>1, <1>6, <1>7

\* Nothing else touches what is reported; a connection that is closed loses what
\* was on its socket.
LEMMA NextKeepsOrder == ASSUME OrderInv, [Next]_vars PROVE OrderInv'
<1>1. ASSUME queue' = <<>>, UNCHANGED <<inputs, reported, rawDuringGrab>> PROVE OrderInv'
  <2>1. Len(queue') = 0 /\ queue' \in Seq(Event)
    BY <1>1, EmptySeq
  <2> QED BY <1>1, <2>1 DEF OrderInv, StreamTypes, Counts, InOrder
<1>2. ASSUME UNCHANGED <<stream, rawDuringGrab>> PROVE OrderInv'
  BY <1>2 DEF stream, OrderInv, StreamTypes, Counts, InOrder
<1>3. CASE Initialize \/ Shutdown \/ NextEventThrows
  BY <1>1, <1>3 DEF Initialize, Shutdown, NextEventThrows, CloseConnection
<1>4. CASE NextEvent
  BY <1>4, NextEventKeepsOrder
<1>5. CASE \E kind \in {"pointer", "key"} : UserInput(kind)
  BY <1>5, UserInputKeepsOrder
<1>6. CASE \/ AcquireWithoutWindow \/ AcquireBusy \/ Acquire \/ Release \/ MoveLocalCursor
           \/ XServerDies \/ UNCHANGED vars
           \/ \E device \in {"pointer", "keyboard"} : OtherGrab(device)
  BY <1>2, <1>6 DEF AcquireWithoutWindow, AcquireBusy, Acquire, Release, MoveLocalCursor,
                    OtherGrab, XServerDies, vars
<1> QED BY <1>3, <1>4, <1>5, <1>6 DEF Next, CaptureStep, ServerStep

\* Nothing is reported before the user does something.
LEMMA InitOrder == Init => OrderInv
BY EmptySeq DEF Init, OrderInv, StreamTypes

\* Whatever the user does is reported in its order and, under XInput 2.1, at
\* most once, whichever grabs come between.
THEOREM ReportsAreInOrder == Spec => []ReportedOnceInOrder
<1>1. OrderInv => ReportedOnceInOrder
  BY DEF OrderInv, ReportedOnceInOrder, InOrder
<1>2. OrderInv /\ [Next]_vars => OrderInv'
  BY NextKeepsOrder
<1> QED BY <1>1, <1>2, InitOrder, PTL DEF Spec

=============================================================================
