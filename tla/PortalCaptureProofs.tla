-------------------------- MODULE PortalCaptureProofs --------------------------
(***************************************************************************)
(* Proofs about PortalCapture: nobody's input is taken before somebody     *)
(* reads it, and an activation is never forgotten, for any number of       *)
(* activations and however far signals and requests lag behind.            *)
(***************************************************************************)
EXTENDS PortalCapture, TLAPS

Requests == [op : {"create", "barriers", "connect", "enable", "release"}, id : Nat]
Signals  == [name : {"activated", "deactivated", "disabled"}, id : Nat]

Types ==
  /\ requests \in Seq(Requests) /\ signals \in Seq(Signals)
  /\ captured \in Nat /\ serial \in Nat /\ activationId \in Nat
  /\ stage \in {"off", "create", "barriers", "connect", "running", "closed", "dead"}
  /\ session \in {"none", "created", "enabled"}

Enabling == \E i \in 1 .. Len(requests) : requests[i].op = "enable"
Disabled == \E i \in 1 .. Len(signals) : signals[i].name = "disabled"

\* The session is enabled by one request, posted when the reader is there, and
\* once only: a session that was disabled stays so.
SessionInv ==
  /\ stage \in {"off", "create", "barriers", "connect"} => ~Enabling /\ session # "enabled"
  /\ \A i, j \in 1 .. Len(requests) :
       requests[i].op = "enable" /\ requests[j].op = "enable" => i = j
  /\ session = "enabled" => stage = "running" /\ ~Enabling
  /\ session = "created" => stage \in {"create", "barriers", "connect", "running"}
  /\ captured # 0 => session = "enabled"
  /\ Disabled => session # "enabled" /\ ~Enabling /\ stage = "running"

\* Numbers grow: the announcements still on their way are newer than the one
\* that is known, and in order, and no end of the current activation is on its
\* way.
NumbersInv ==
  /\ captured # 0 => captured = serial
  /\ activationId <= serial
  /\ \A i \in 1 .. Len(signals) :
       /\ signals[i].id <= serial
       /\ signals[i].name = "activated" => activationId < signals[i].id
       /\ signals[i].name = "deactivated" /\ captured # 0 => signals[i].id # captured
  /\ \A i, j \in 1 .. Len(signals) :
       i < j /\ signals[i].name = "activated" /\ signals[j].name = "activated" =>
         signals[i].id < signals[j].id

PortalInv == Types /\ SessionInv /\ NumbersInv /\ ActivationIsKnown

-----------------------------------------------------------------------------
\* What taking the first element of a sequence leaves.
LEMMA TailIs ==
  ASSUME NEW S, NEW s \in Seq(S), s # <<>>
  PROVE  /\ Tail(s) \in Seq(S) /\ Len(Tail(s)) = Len(s) - 1 /\ Len(s) \in Nat \ {0}
         /\ \A i \in 1 .. Len(Tail(s)) : i + 1 \in 1 .. Len(s) /\ Tail(s)[i] = s[i + 1]
         /\ \A i \in 1 .. Len(s) : i # 1 => i - 1 \in 1 .. Len(Tail(s)) /\ Tail(s)[i - 1] = s[i]
         /\ 1 \in 1 .. Len(s) /\ Head(s) = s[1] /\ Head(s) \in S
OBVIOUS

\* What adding one leaves.
LEMMA AppendIs ==
  ASSUME NEW S, NEW s \in Seq(S), NEW e \in S
  PROVE  /\ Append(s, e) \in Seq(S) /\ Len(Append(s, e)) = Len(s) + 1 /\ Len(s) \in Nat
         /\ \A i \in 1 .. Len(s) : i \in 1 .. Len(Append(s, e)) /\ Append(s, e)[i] = s[i]
         /\ \A i \in 1 .. Len(Append(s, e)) : i \in 1 .. Len(s) \/ i = Len(s) + 1
         /\ Append(s, e)[Len(s) + 1] = e /\ Len(s) + 1 \in 1 .. Len(Append(s, e))
OBVIOUS

LEMMA InitPortal == Init => PortalInv
<1> SUFFICES ASSUME Init PROVE PortalInv
  OBVIOUS
<1>1. requests \in Seq(Requests) /\ signals \in Seq(Signals) /\ Len(requests) = 0 /\ Len(signals) = 0
  BY DEF Init
<1> QED
  BY <1>1 DEF Init, PortalInv, Types, SessionInv, NumbersInv, ActivationIsKnown, Enabling, Disabled

-----------------------------------------------------------------------------
shared == <<stage, requests, session, captured, serial, signals, activationId>>

\* Steps of the user, of the router and of the reader that leave the
\* bookkeeping alone.
LEMMA QuietSteps ==
  PortalInv /\ (UserInput \/ UserModifier \/ Dispatch \/ ClientGone \/ UNCHANGED vars) => PortalInv'
<1> SUFFICES ASSUME PortalInv,
                    UserInput \/ UserModifier \/ Dispatch \/ ClientGone \/ UNCHANGED vars
             PROVE  PortalInv'
  OBVIOUS
<1>1. UNCHANGED shared
  BY DEF shared, UserInput, UserModifier, Dispatch, ClientGone, vars, stateVars, portalVars
<1> QED
  BY <1>1 DEF shared, PortalInv, Types, SessionInv, NumbersInv, ActivationIsKnown, Enabling,
              Disabled, Announced, Releasing

\* The compositor takes the input: a new number, announced last.
LEMMA ActivateKeepsInv == PortalInv /\ Activate => PortalInv'
<1> SUFFICES ASSUME PortalInv, Activate PROVE PortalInv'
  OBVIOUS
<1> DEFINE e == Signal("activated", serial + 1)
<1>1. /\ session = "enabled" /\ captured = 0 /\ serial' = serial + 1 /\ captured' = serial + 1
      /\ signals' = Append(signals, e)
      /\ UNCHANGED <<stage, requests, session, activationId>>
  BY DEF Activate, stateVars
<1>2. e \in Signals /\ e.name = "activated" /\ e.id = serial + 1
  BY DEF PortalInv, Types, Signals, Signal
<1> HIDE DEF e
<1>3. Types
  BY DEF PortalInv
<1>4. /\ signals' \in Seq(Signals) /\ Len(signals') = Len(signals) + 1 /\ Len(signals) \in Nat
      /\ \A i \in 1 .. Len(signals) : i \in 1 .. Len(signals') /\ signals'[i] = signals[i]
      /\ \A i \in 1 .. Len(signals') : i \in 1 .. Len(signals) \/ i = Len(signals) + 1
      /\ signals'[Len(signals) + 1] = e /\ Len(signals) + 1 \in 1 .. Len(signals')
  BY <1>1, <1>2, <1>3, AppendIs DEF Types
<1>5. Types'
  BY <1>1, <1>3, <1>4 DEF Types
<1>6. SessionInv'
  <2>1. ~Disabled'
    BY <1>1, <1>2, <1>4 DEF PortalInv, SessionInv, Disabled
  <2> QED
    BY <1>1, <2>1 DEF PortalInv, SessionInv, Enabling
<1>7. NumbersInv'
  <2>1. \A i \in 1 .. Len(signals) : signals[i].id \in Nat /\ signals[i].id <= serial
    <3>1. \A i \in 1 .. Len(signals) : signals[i] \in Signals
      BY <1>3 DEF Types
    <3> QED
      BY <3>1 DEF PortalInv, NumbersInv, Signals
  <2>2. serial \in Nat /\ activationId \in Nat /\ activationId <= serial
    BY <1>3 DEF PortalInv, NumbersInv, Types
  <2>3. ASSUME NEW i \in 1 .. Len(signals')
        PROVE  /\ signals'[i].id <= serial'
               /\ signals'[i].name = "activated" => activationId' < signals'[i].id
               /\ signals'[i].name = "deactivated" /\ captured' # 0 => signals'[i].id # captured'
    <3>1. CASE i \in 1 .. Len(signals)
      <4>1. signals'[i] = signals[i] /\ signals[i].id \in Nat /\ signals[i].id < serial + 1
        BY <1>4, <2>1, <2>2, <3>1
      <4>2. signals[i].name = "activated" => activationId < signals[i].id
        BY <3>1 DEF PortalInv, NumbersInv
      <4> QED
        BY <1>1, <2>2, <4>1, <4>2
    <3>2. CASE i = Len(signals) + 1
      BY <1>1, <1>2, <1>4, <2>2, <3>2
    <3> QED
      BY <1>4, <3>1, <3>2
  <2>4. ASSUME NEW i \in 1 .. Len(signals'), NEW j \in 1 .. Len(signals'), i < j,
               signals'[i].name = "activated", signals'[j].name = "activated"
        PROVE  signals'[i].id < signals'[j].id
    <3>1. i \in 1 .. Len(signals) /\ signals'[i] = signals[i]
      BY <1>4, <2>4
    <3>2. CASE j \in 1 .. Len(signals)
      <4>1. signals'[j] = signals[j]
        BY <1>4, <3>2
      <4> QED
        BY <2>4, <3>1, <3>2, <4>1 DEF PortalInv, NumbersInv
    <3>3. CASE j = Len(signals) + 1
      BY <1>2, <1>4, <2>1, <2>2, <3>1, <3>3
    <3> QED
      BY <1>4, <3>2, <3>3
  <2> QED
    BY <1>1, <2>2, <2>3, <2>4 DEF NumbersInv
<1>8. ActivationIsKnown'
  <2>1. Len(signals) + 1 \in DOMAIN signals'
    BY <1>4
  <2>2. signals'[Len(signals) + 1] = Signal("activated", captured')
    BY <1>1, <1>4 DEF e
  <2>3. Announced(captured)'
    BY <2>1, <2>2 DEF Announced
  <2> QED
    BY <2>3 DEF ActivationIsKnown
<1> QED
  BY <1>5, <1>6, <1>7, <1>8 DEF PortalInv

\* The end of an activation, announced last, is in nobody's way.
LEMMA EndIsNoNumber ==
  ASSUME Types, NumbersInv, NEW e \in Signals,
         e.name \in {"deactivated", "disabled"}, e.id \in {captured, 0},
         signals' = Append(signals, e), captured' = 0, UNCHANGED <<serial, activationId>>
  PROVE  NumbersInv'
<1>1. /\ Len(signals') = Len(signals) + 1 /\ Len(signals) \in Nat
      /\ \A i \in 1 .. Len(signals) : i \in 1 .. Len(signals') /\ signals'[i] = signals[i]
      /\ \A i \in 1 .. Len(signals') : i \in 1 .. Len(signals) \/ i = Len(signals) + 1
      /\ signals'[Len(signals) + 1] = e
  BY AppendIs DEF Types
<1>2. captured \in Nat /\ serial \in Nat /\ captured <= serial
  BY DEF Types, NumbersInv
<1>3. e.id <= serial /\ e.name # "activated"
  BY <1>2
<1>4. \A i \in 1 .. Len(signals') :
        \/ i \in 1 .. Len(signals) /\ signals'[i] = signals[i]
        \/ i = Len(signals) + 1 /\ signals'[i] = e
  BY <1>1
<1>5. ASSUME NEW i \in 1 .. Len(signals')
      PROVE  /\ signals'[i].id <= serial
             /\ signals'[i].name = "activated" => activationId < signals'[i].id
  BY <1>3, <1>4 DEF NumbersInv
<1>6. ASSUME NEW i \in 1 .. Len(signals'), NEW j \in 1 .. Len(signals'), i < j,
             signals'[i].name = "activated", signals'[j].name = "activated"
      PROVE  signals'[i].id < signals'[j].id
  <2>1. i \in 1 .. Len(signals) /\ signals'[i] = signals[i]
    BY <1>3, <1>4, <1>6
  <2>2. j \in 1 .. Len(signals) /\ signals'[j] = signals[j]
    BY <1>3, <1>4, <1>6
  <2> QED
    BY <1>6, <2>1, <2>2 DEF NumbersInv
<1> QED
  BY <1>5, <1>6 DEF NumbersInv

\* It gives it back on its own: the end is announced, or the session's.
LEMMA DeactivateKeepsInv == PortalInv /\ Deactivate => PortalInv'
<1> SUFFICES ASSUME PortalInv, Deactivate PROVE PortalInv'
  OBVIOUS
<1>1. PICK e \in {Signal("deactivated", captured), Signal("disabled", 0)} :
        /\ signals' = Append(signals, e)
        /\ e = Signal("deactivated", captured) => session' = session
        /\ session' \in {session, "created"}
        /\ e = Signal("disabled", 0) => session' = "created"
  BY DEF Deactivate, PortalInv, Types, Signal
<1>2. /\ captured # 0 /\ captured' = 0 /\ UNCHANGED <<stage, requests, serial, activationId>>
  BY DEF Deactivate, stateVars
<1>3. Types
  BY DEF PortalInv
<1>4. e \in Signals /\ e.name \in {"deactivated", "disabled"} /\ e.id \in {captured, 0}
        /\ (e.name = "disabled" => e = Signal("disabled", 0))
  BY <1>3 DEF Types, Signals, Signal
<1>5. /\ signals' \in Seq(Signals) /\ Len(signals') = Len(signals) + 1 /\ Len(signals) \in Nat
      /\ \A i \in 1 .. Len(signals) : i \in 1 .. Len(signals') /\ signals'[i] = signals[i]
      /\ \A i \in 1 .. Len(signals') : i \in 1 .. Len(signals) \/ i = Len(signals) + 1
      /\ signals'[Len(signals) + 1] = e
  BY <1>1, <1>3, <1>4, AppendIs DEF Types
<1>6. Types'
  BY <1>1, <1>2, <1>3, <1>5 DEF Types
<1>7. SessionInv'
  <2>1. session = "enabled" /\ stage = "running" /\ ~Enabling /\ ~Disabled
    BY <1>2 DEF PortalInv, SessionInv
  <2>2. Disabled' => session' = "created"
    BY <1>1, <1>4, <1>5, <2>1 DEF Disabled
  <2> QED
    BY <1>1, <1>2, <2>1, <2>2 DEF PortalInv, SessionInv, Enabling
<1>8. NumbersInv'
  BY <1>1, <1>2, <1>4, <1>5, EndIsNoNumber DEF PortalInv
<1>9. ActivationIsKnown'
  BY <1>2 DEF ActivationIsKnown
<1> QED
  BY <1>6, <1>7, <1>8, <1>9 DEF PortalInv

\* close() leaves no capture and no signal behind.
LEMMA CloseKeepsInv == PortalInv /\ Close => PortalInv'
<1> SUFFICES ASSUME PortalInv, Close PROVE PortalInv'
  OBVIOUS
<1>1. /\ stage' = "closed" /\ session' = "none" /\ captured' = 0 /\ signals' = <<>>
      /\ UNCHANGED <<requests, serial, activationId>>
  BY DEF Close, stateVars
<1>2. signals' \in Seq(Signals) /\ Len(signals') = 0
  BY <1>1
<1> QED
  BY <1>1, <1>2 DEF PortalInv, Types, SessionInv, NumbersInv, ActivationIsKnown, Enabling, Disabled

\* A request is posted: what of the requests the invariant speaks of stays.
LEMMA PostIs ==
  ASSUME Types, NEW r \in Requests, requests' = Append(requests, r)
  PROVE  /\ requests' \in Seq(Requests)
         /\ Enabling' = (Enabling \/ r.op = "enable")
         /\ \A n : Releasing(n) => Releasing(n)'
         /\ r = Request("release", r.id) => Releasing(r.id)'
         /\ ~Enabling \/ r.op # "enable" =>
              ((\A i, j \in 1 .. Len(requests) :
                  requests[i].op = "enable" /\ requests[j].op = "enable" => i = j) =>
               (\A i, j \in 1 .. Len(requests') :
                  requests'[i].op = "enable" /\ requests'[j].op = "enable" => i = j))
<1>1. /\ requests' \in Seq(Requests) /\ Len(requests') = Len(requests) + 1 /\ Len(requests) \in Nat
      /\ \A i \in 1 .. Len(requests) : i \in 1 .. Len(requests') /\ requests'[i] = requests[i]
      /\ \A i \in 1 .. Len(requests') : i \in 1 .. Len(requests) \/ i = Len(requests) + 1
      /\ requests'[Len(requests) + 1] = r /\ Len(requests) + 1 \in 1 .. Len(requests')
  BY AppendIs DEF Types
<1>2. Enabling' = (Enabling \/ r.op = "enable")
  <2>1. Enabling' => Enabling \/ r.op = "enable"
    BY <1>1 DEF Enabling
  <2>2. Enabling \/ r.op = "enable" => Enabling'
    BY <1>1 DEF Enabling
  <2>3. Enabling' \in BOOLEAN /\ (Enabling \/ r.op = "enable") \in BOOLEAN
    BY DEF Enabling
  <2> QED
    BY <2>1, <2>2, <2>3
<1>3. DOMAIN requests = 1 .. Len(requests) /\ DOMAIN requests' = 1 .. Len(requests')
  BY <1>1 DEF Types
<1>4. \A n : Releasing(n) => Releasing(n)'
  BY <1>1, <1>3 DEF Releasing
<1>5. r = Request("release", r.id) => Releasing(r.id)'
  BY <1>1, <1>3 DEF Releasing
<1>6. ~Enabling \/ r.op # "enable" =>
        ((\A i, j \in 1 .. Len(requests) :
            requests[i].op = "enable" /\ requests[j].op = "enable" => i = j) =>
         (\A i, j \in 1 .. Len(requests') :
            requests'[i].op = "enable" /\ requests'[j].op = "enable" => i = j))
  BY <1>1 DEF Enabling
<1> QED
  BY <1>1, <1>2, <1>4, <1>5, <1>6

\* One is carried out.
LEMMA TakeIs ==
  ASSUME Types, requests # <<>>, requests' = Tail(requests)
  PROVE  /\ requests' \in Seq(Requests) /\ Head(requests) \in Requests
         /\ Enabling' => Enabling
         /\ Head(requests).op = "enable" => Enabling
         /\ \A n : Releasing(n) => Head(requests) = Request("release", n) \/ Releasing(n)'
         /\ (\A i, j \in 1 .. Len(requests) :
               requests[i].op = "enable" /\ requests[j].op = "enable" => i = j) =>
              /\ Head(requests).op = "enable" => ~Enabling'
              /\ \A i, j \in 1 .. Len(requests') :
                   requests'[i].op = "enable" /\ requests'[j].op = "enable" => i = j
<1>1. /\ requests' \in Seq(Requests) /\ Len(requests') = Len(requests) - 1
      /\ Len(requests) \in Nat \ {0}
      /\ \A i \in 1 .. Len(requests') : i + 1 \in 1 .. Len(requests) /\ requests'[i] = requests[i + 1]
      /\ \A i \in 1 .. Len(requests) :
           i # 1 => i - 1 \in 1 .. Len(requests') /\ requests'[i - 1] = requests[i]
      /\ 1 \in 1 .. Len(requests) /\ Head(requests) = requests[1] /\ Head(requests) \in Requests
  BY TailIs DEF Types
<1>2. Enabling' => Enabling
  BY <1>1 DEF Enabling
<1>3. Head(requests).op = "enable" => Enabling
  BY <1>1 DEF Enabling
<1>4. DOMAIN requests = 1 .. Len(requests) /\ DOMAIN requests' = 1 .. Len(requests')
  BY <1>1 DEF Types
<1>5. \A n : Releasing(n) => Head(requests) = Request("release", n) \/ Releasing(n)'
  BY <1>1, <1>4, ZenonT(40) DEF Releasing
<1>6. ASSUME \A i, j \in 1 .. Len(requests) :
               requests[i].op = "enable" /\ requests[j].op = "enable" => i = j
      PROVE  /\ Head(requests).op = "enable" => ~Enabling'
             /\ \A i, j \in 1 .. Len(requests') :
                  requests'[i].op = "enable" /\ requests'[j].op = "enable" => i = j
  BY <1>1, <1>6 DEF Enabling
<1> QED
  BY <1>1, <1>2, <1>3, <1>5, <1>6

\* initialize() posts its next request, and the last one when the reader is there.
LEMMA PostingKeepsInv == PortalInv /\ (Initialize \/ Proceed) => PortalInv'
<1> SUFFICES ASSUME PortalInv, Initialize \/ Proceed PROVE PortalInv'
  OBVIOUS
<1>1. PICK r \in Requests :
        /\ requests' = Append(requests, r) /\ r.op # "release"
        /\ stage \in {"off", "create", "barriers", "connect"}
        /\ stage' \in {"create", "barriers", "connect", "running"}
        /\ r.op = "enable" => stage' = "running"
        /\ stage' = "running" => r.op = "enable"
  <2>1. CASE Initialize
    <3>1. Request("create", 0) \in Requests
      BY DEF Request, Requests
    <3> QED
      BY <2>1, <3>1 DEF Initialize, Post, Request
  <2>2. CASE Proceed
    <3>1. \A op \in {"barriers", "connect", "enable"} : Request(op, 0) \in Requests
      BY DEF Request, Requests
    <3> QED
      BY <2>2, <3>1 DEF Proceed, NextStage, Post, Request
  <2> QED
    BY <2>1, <2>2
<1>2. UNCHANGED <<session, captured, serial, signals, activationId>>
  BY DEF Initialize, Proceed, portalVars, stateVars
<1>3. ~Enabling /\ session # "enabled" /\ captured = 0 /\ ~Disabled
  BY <1>1 DEF PortalInv, SessionInv
<1>4. /\ requests' \in Seq(Requests) /\ Enabling' = (Enabling \/ r.op = "enable")
      /\ \A i, j \in 1 .. Len(requests') :
           requests'[i].op = "enable" /\ requests'[j].op = "enable" => i = j
  BY <1>1, <1>3, PostIs DEF PortalInv, SessionInv
<1>5. Types'
  BY <1>1, <1>2, <1>4 DEF PortalInv, Types
<1>6. SessionInv'
  BY <1>1, <1>2, <1>3, <1>4 DEF SessionInv, Disabled
<1>7. NumbersInv'
  BY <1>2 DEF PortalInv, NumbersInv
<1>8. ActivationIsKnown'
  BY <1>2, <1>3 DEF ActivationIsKnown
<1> QED
  BY <1>5, <1>6, <1>7, <1>8 DEF PortalInv

\* The GLib thread answers or enables.
LEMMA AnsweringKeepsInv == PortalInv /\ (Answer \/ Enable) => PortalInv'
<1> SUFFICES ASSUME PortalInv, Answer \/ Enable PROVE PortalInv'
  OBVIOUS
<1> DEFINE r == Head(requests)
<1>1. /\ requests # <<>> /\ requests' = Tail(requests) /\ r.op # "release"
      /\ UNCHANGED <<captured, serial, signals, activationId>>
  BY DEF Answer, Enable, NextStage, stateVars
<1>2. /\ requests' \in Seq(Requests)
      /\ Enabling' => Enabling
      /\ r.op = "enable" => Enabling
      /\ \A n : Releasing(n) => r = Request("release", n) \/ Releasing(n)'
      /\ r.op = "enable" => ~Enabling'
      /\ \A i, j \in 1 .. Len(requests') :
           requests'[i].op = "enable" /\ requests'[j].op = "enable" => i = j
  BY <1>1, TakeIs DEF PortalInv, SessionInv
<1>3. \/ stage' = stage /\ session' = session
      \/ stage' = stage /\ stage = "create" /\ session' = "created"
      \/ stage' = stage /\ r.op = "enable" /\ session = "created" /\ session' = "enabled"
      \/ stage' = "dead" /\ r.op = "enable" /\ session # "created" /\ session' = session
  BY DEF Answer, Enable
<1>4. stage \in {"off", "create", "barriers", "connect"} => r.op # "enable" /\ session # "enabled"
  BY <1>2 DEF PortalInv, SessionInv
<1>5. r.op = "enable" => session # "enabled" /\ ~Disabled /\ captured = 0
  BY <1>2 DEF PortalInv, SessionInv
<1> HIDE DEF r
<1>6. Types'
  BY <1>1, <1>2, <1>3 DEF PortalInv, Types
<1>7. r.op = "enable" /\ session = "created" => stage = "running"
  BY <1>2 DEF PortalInv, SessionInv
<1>8. SessionInv'
  BY <1>1, <1>2, <1>3, <1>4, <1>5, <1>7 DEF PortalInv, SessionInv, Disabled
<1>9. NumbersInv'
  BY <1>1 DEF PortalInv, NumbersInv
<1>10. ActivationIsKnown'
  BY <1>1, <1>2 DEF PortalInv, ActivationIsKnown, Announced, Request
<1> QED
  BY <1>6, <1>8, <1>9, <1>10 DEF PortalInv

\* Taking a request and adding the end of an activation, when none is left.
LEMMA EndIsAdded ==
  ASSUME PortalInv, NEW e \in Signals, e.name = "deactivated", e.id = captured,
         signals' = Append(signals, e), captured' = 0,
         requests' \in Seq(Requests), Enabling' => Enabling,
         \A i, j \in 1 .. Len(requests') :
           requests'[i].op = "enable" /\ requests'[j].op = "enable" => i = j,
         UNCHANGED <<stage, session, serial, activationId>>
  PROVE  PortalInv'
<1>1. /\ signals' \in Seq(Signals) /\ Len(signals') = Len(signals) + 1 /\ Len(signals) \in Nat
      /\ \A i \in 1 .. Len(signals) : i \in 1 .. Len(signals') /\ signals'[i] = signals[i]
      /\ \A i \in 1 .. Len(signals') : i \in 1 .. Len(signals) \/ i = Len(signals) + 1
      /\ signals'[Len(signals) + 1] = e
  BY AppendIs DEF PortalInv, Types
<1>2. Types'
  BY <1>1 DEF PortalInv, Types
<1>3. SessionInv'
  <2>1. Disabled' => Disabled
    BY <1>1 DEF Disabled
  <2> QED
    BY <2>1 DEF PortalInv, SessionInv
<1>4. NumbersInv'
  BY EndIsNoNumber DEF PortalInv
<1>5. ActivationIsKnown'
  BY DEF ActivationIsKnown
<1> QED
  BY <1>2, <1>3, <1>4, <1>5 DEF PortalInv

\* It releases an activation: the current one, or none.
LEMMA ReleaseKeepsInv == PortalInv /\ Release => PortalInv'
<1> SUFFICES ASSUME PortalInv, Release PROVE PortalInv'
  OBVIOUS
<1> DEFINE r == Head(requests)
<1>1. /\ requests # <<>> /\ requests' = Tail(requests) /\ r.op = "release"
      /\ UNCHANGED <<stage, session, serial, activationId>>
  BY DEF Release, stateVars
<1>2. /\ requests' \in Seq(Requests)
      /\ Enabling' => Enabling
      /\ \A n : Releasing(n) => r = Request("release", n) \/ Releasing(n)'
      /\ \A i, j \in 1 .. Len(requests') :
           requests'[i].op = "enable" /\ requests'[j].op = "enable" => i = j
  BY <1>1, TakeIs DEF PortalInv, SessionInv
<1>3. CASE captured # r.id \/ captured = 0
  <2>1. captured' = captured /\ (signals' = signals \/ (captured = 0 /\
          signals' = Append(signals, Signal("deactivated", 0))))
    BY <1>3 DEF Release
  <2>2. CASE signals' = signals
    <3>1. Types' /\ SessionInv' /\ NumbersInv'
      BY <1>1, <1>2, <2>1, <2>2 DEF PortalInv, Types, SessionInv, NumbersInv, Disabled
    <3>2. ActivationIsKnown'
      BY <1>1, <1>2, <1>3, <2>1, <2>2 DEF PortalInv, ActivationIsKnown, Announced, Request
    <3> QED
      BY <3>1, <3>2 DEF PortalInv
  <2>3. CASE captured = 0 /\ signals' = Append(signals, Signal("deactivated", 0))
    <3> DEFINE e == Signal("deactivated", 0)
    <3>1. e \in Signals /\ e.name = "deactivated" /\ e.id = 0
      BY DEF Signals, Signal
    <3> HIDE DEF e
    <3>2. signals' = Append(signals, e)
      BY <2>3 DEF e
    <3> QED
      BY <1>1, <1>2, <2>1, <2>3, <3>1, <3>2, EndIsAdded
  <2> QED
    BY <2>1, <2>2, <2>3
<1>4. CASE captured = r.id /\ captured # 0
  <2> DEFINE e == Signal("deactivated", captured)
  <2>1. captured' = 0 /\ (signals' = signals \/ signals' = Append(signals, e))
    BY <1>4 DEF Release
  <2>2. e \in Signals /\ e.name = "deactivated" /\ e.id = captured
    BY DEF PortalInv, Types, Signals, Signal
  <2> HIDE DEF e
  <2>3. CASE signals' = signals
    <3>1. Types' /\ SessionInv' /\ NumbersInv'
      BY <1>1, <1>2, <2>1, <2>3 DEF PortalInv, Types, SessionInv, NumbersInv, Disabled
    <3> QED
      BY <2>1, <3>1 DEF PortalInv, ActivationIsKnown
  <2>4. CASE signals' = Append(signals, e)
    BY <1>1, <1>2, <1>4, <2>1, <2>2, <2>4, EndIsAdded
  <2> QED
    BY <2>1, <2>3, <2>4
<1> QED
  BY <1>3, <1>4

\* The signal handler learns of an activation, or of the end of the one it knows.
LEMMA HandlingKeepsInv == PortalInv /\ HandleSignal => PortalInv'
<1> SUFFICES ASSUME PortalInv, HandleSignal PROVE PortalInv'
  OBVIOUS
<1> DEFINE s == Head(signals)
<1>1. /\ signals # <<>> /\ signals' = Tail(signals)
      /\ UNCHANGED <<stage, requests, session, captured, serial>>
  BY DEF HandleSignal
<1>2. /\ signals' \in Seq(Signals) /\ Len(signals') = Len(signals) - 1 /\ Len(signals) \in Nat \ {0}
      /\ \A i \in 1 .. Len(signals') : i + 1 \in 1 .. Len(signals) /\ signals'[i] = signals[i + 1]
      /\ \A i \in 1 .. Len(signals) :
           i # 1 => i - 1 \in 1 .. Len(signals') /\ signals'[i - 1] = signals[i]
      /\ 1 \in 1 .. Len(signals) /\ s = signals[1] /\ s \in Signals
  BY <1>1, TailIs DEF PortalInv, Types
<1>3. /\ s.name = "activated" => activationId' = s.id
      /\ s.name = "deactivated" => activationId' = IF activationId = s.id THEN 0 ELSE activationId
      /\ s.name = "disabled" => activationId' = 0
      /\ s.name \in {"activated", "deactivated", "disabled"} /\ s.id \in Nat
  BY <1>2 DEF HandleSignal, Signals
<1> HIDE DEF s
<1>4. activationId \in Nat /\ captured \in Nat /\ serial \in Nat /\ activationId <= serial
        /\ (captured # 0 => captured = serial) /\ s.id <= serial
  BY <1>2 DEF PortalInv, Types, NumbersInv
<1>5. Types'
  BY <1>1, <1>2, <1>3, <1>4 DEF PortalInv, Types
<1>6. SessionInv'
  <2>1. Disabled' => Disabled
    BY <1>2 DEF Disabled
  <2> QED
    BY <1>1, <2>1 DEF PortalInv, SessionInv, Enabling
<1>7. NumbersInv'
  <2>1. \A i \in 1 .. Len(signals') : signals'[i].id \in Nat
    <3>1. \A i \in 1 .. Len(signals') : signals'[i] \in Signals
      BY <1>2
    <3> QED
      BY <3>1 DEF Signals
  <2>2. activationId' <= serial'
    BY <1>1, <1>3, <1>4
  <2>3. ASSUME NEW i \in 1 .. Len(signals')
        PROVE  /\ signals'[i].id <= serial'
               /\ signals'[i].name = "activated" => activationId' < signals'[i].id
               /\ signals'[i].name = "deactivated" /\ captured' # 0 => signals'[i].id # captured'
    <3>1. /\ signals[i + 1].id <= serial
          /\ signals[i + 1].name = "activated" => activationId < signals[i + 1].id
          /\ signals[i + 1].name = "deactivated" /\ captured # 0 => signals[i + 1].id # captured
          /\ signals'[i] = signals[i + 1]
      BY <1>2 DEF PortalInv, NumbersInv
    <3>2. s.name = "activated" /\ signals[i + 1].name = "activated" => s.id < signals[i + 1].id
      <4>1. 1 < i + 1
        OBVIOUS
      <4> QED
        BY <1>2, <4>1 DEF PortalInv, NumbersInv
    <3>3. signals'[i].name = "activated" => activationId' < signals'[i].id
      BY <1>3, <1>4, <2>1, <3>1, <3>2
    <3> QED
      BY <1>1, <3>1, <3>3
  <2>4. ASSUME NEW i \in 1 .. Len(signals'), NEW j \in 1 .. Len(signals'), i < j,
               signals'[i].name = "activated", signals'[j].name = "activated"
        PROVE  signals'[i].id < signals'[j].id
    <3>1. signals'[i] = signals[i + 1] /\ signals'[j] = signals[j + 1] /\ i + 1 < j + 1
      BY <1>2, <2>4
    <3>2. i + 1 \in 1 .. Len(signals) /\ j + 1 \in 1 .. Len(signals)
      BY <1>2
    <3> QED
      BY <2>4, <3>1, <3>2 DEF PortalInv, NumbersInv
  <2> QED
    BY <1>1, <1>4, <2>2, <2>3, <2>4 DEF NumbersInv
<1>8. ActivationIsKnown'
  <2> SUFFICES ASSUME captured # 0
               PROVE  activationId' = captured \/ Announced(captured)' \/ Releasing(captured)'
    BY <1>1 DEF ActivationIsKnown
  <2>1. s.name # "disabled"
    BY <1>2 DEF PortalInv, SessionInv, Disabled
  <2>2. s.name = "deactivated" => s.id # captured
    BY <1>2 DEF PortalInv, NumbersInv
  <2>3. s.name = "activated" => activationId < s.id
    BY <1>2 DEF PortalInv, NumbersInv
  <2>4. CASE activationId = captured
    BY <1>3, <1>4, <2>1, <2>2, <2>3, <2>4
  <2>5. CASE Announced(captured)
    <3>1. DOMAIN signals = 1 .. Len(signals) /\ DOMAIN signals' = 1 .. Len(signals')
      BY <1>2 DEF PortalInv, Types
    <3>2. PICK i \in 1 .. Len(signals) : signals[i] = Signal("activated", captured)
      BY <2>5, <3>1 DEF Announced
    <3>3. CASE i = 1
      BY <1>2, <1>3, <3>2, <3>3 DEF Signal
    <3>4. CASE i # 1
      BY <1>1, <1>2, <3>1, <3>2, <3>4, ZenonT(40) DEF Announced
    <3> QED
      BY <3>3, <3>4
  <2>6. CASE Releasing(captured)
    BY <1>1, <2>6 DEF Releasing
  <2> QED
    BY <2>4, <2>5, <2>6 DEF PortalInv, ActivationIsKnown
<1> QED
  BY <1>5, <1>6, <1>7, <1>8 DEF PortalInv

\* The router takes the cursor home: what is forgotten is asked for first.
LEMMA HandleEventKeepsInv == PortalInv /\ HandleEvent => PortalInv'
<1> SUFFICES ASSUME PortalInv, HandleEvent PROVE PortalInv'
  OBVIOUS
<1>1. /\ UNCHANGED <<stage, session, captured, serial, signals>>
      /\ \/ UNCHANGED <<activationId, requests>>
         \/ activationId' = 0 /\ activationId = 0 /\ UNCHANGED requests
         \/ activationId # 0 /\ activationId' = 0
              /\ requests' = Append(requests, Request("release", activationId))
  BY DEF HandleEvent, MoveLocalCursor, Post, portalVars
<1>2. CASE UNCHANGED <<activationId, requests>>
  BY <1>1, <1>2 DEF PortalInv, Types, SessionInv, NumbersInv, ActivationIsKnown, Enabling,
                    Disabled, Announced, Releasing
<1>3. CASE /\ activationId # 0 /\ activationId' = 0
           /\ requests' = Append(requests, Request("release", activationId))
  <2>1. Request("release", activationId) \in Requests
    BY DEF PortalInv, Types, Requests, Request
  <2>2. PICK r \in Requests : /\ requests' = Append(requests, r)
                             /\ r = Request("release", r.id) /\ r.id = activationId
                             /\ r.op = "release"
    BY <1>3, <2>1 DEF Request
  <2>4. /\ requests' \in Seq(Requests)
        /\ Enabling' = (Enabling \/ r.op = "enable")
        /\ \A n : Releasing(n) => Releasing(n)'
        /\ r = Request("release", r.id) => Releasing(r.id)'
        /\ \A i, j \in 1 .. Len(requests') :
             requests'[i].op = "enable" /\ requests'[j].op = "enable" => i = j
    BY <2>2, PostIs DEF PortalInv, SessionInv
  <2>5. Types'
    BY <1>1, <1>3, <2>4 DEF PortalInv, Types
  <2>6. SessionInv'
    BY <1>1, <2>2, <2>4 DEF PortalInv, SessionInv, Disabled
  <2>7. NumbersInv'
    <3>1. \A i \in 1 .. Len(signals) : signals[i] \in Signals
      BY DEF PortalInv, Types
    <3>2. \A i \in 1 .. Len(signals) : signals[i].id \in Nat
      BY <3>1 DEF Signals
    <3>3. \A i \in 1 .. Len(signals) : signals[i].name = "activated" => 0 < signals[i].id
      BY <3>2 DEF PortalInv, Types, NumbersInv
    <3> QED
      BY <1>1, <1>3, <3>3 DEF PortalInv, Types, NumbersInv
  <2>8. ActivationIsKnown'
    <3>1. captured' = captured /\ (Announced(captured) => Announced(captured)')
      BY <1>1 DEF Announced
    <3>2. activationId = captured \/ Releasing(captured) => Releasing(captured)'
      BY <2>2, <2>4, <3>1 DEF Releasing
    <3> QED
      BY <3>1, <3>2 DEF PortalInv, ActivationIsKnown
  <2> QED
    BY <2>5, <2>6, <2>7, <2>8 DEF PortalInv
<1> QED
  BY <1>1, <1>2, <1>3

-----------------------------------------------------------------------------
LEMMA NextKeepsPortal == PortalInv /\ [Next]_vars => PortalInv'
BY QuietSteps, ActivateKeepsInv, DeactivateKeepsInv, CloseKeepsInv, PostingKeepsInv,
   AnsweringKeepsInv, ReleaseKeepsInv, HandlingKeepsInv, HandleEventKeepsInv DEF Next, GLibStep

\* The invariant of the capture and the compositor.
THEOREM PortalInvariant == Spec => []PortalInv
BY InitPortal, NextKeepsPortal, PTL DEF Spec

\* The compositor takes nobody's input before the capture reads it, nor after it
\* was closed.
THEOREM CaptureAlwaysHasAReader == Spec => []CaptureHasAReader
<1>1. PortalInv => CaptureHasAReader
  BY DEF PortalInv, SessionInv, CaptureHasAReader
<1> QED
  BY <1>1, PortalInvariant, PTL

\* However the signals and the requests cross, the capture knows the number it
\* needs to give the input back, is about to hear it or has asked for it.
THEOREM ActivationIsAlwaysKnown == Spec => []ActivationIsKnown
<1>1. PortalInv => ActivationIsKnown
  BY DEF PortalInv
<1> QED
  BY <1>1, PortalInvariant, PTL

=============================================================================
