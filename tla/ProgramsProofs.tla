---------------------------- MODULE ProgramsProofs ----------------------------
(***************************************************************************)
(* Proofs about what runs around the server: the choice of a back end, the *)
(* window and the run it controls, a client and its sessions, the          *)
(* transport under them and the configuration files; for any               *)
(* registrations, runs, connections, messages and files.                   *)
(***************************************************************************)
EXTENDS MCPrograms, SequenceTheorems, TLAPS

-----------------------------------------------------------------------------
\* The choice of a back end.

\* It had all that is required at some time of the choice.
WasSuitable(d) == \E features \in seen[d.name] : required \subseteq features

\* The choice goes through what was asked for, and there was a reason for each one
\* it has left behind.
ChoiceInv ==
  /\ \A n \in Name : offers[n] \in seen[n]
  /\ stage # "idle" => pending = {}
  /\ stage = "idle" => wanted = AutoName /\ candidates = {} /\ failed = {}
  /\ candidates \subseteq Asked \ failed
  /\ stage # "idle" => \A e \in Asked \ candidates : Refusable(e)
  /\ stage = "create" => \A d \in candidates : First(d) => WasSuitable(d)
  /\ stage \in {"check", "create"} => chosen = {}
  /\ stage = "done" /\ chosen = {} => candidates = {}
  /\ chosen # {} => \E d \in candidates : First(d) /\ chosen = {d} /\ WasSuitable(d)

RegistryInv == RegistryTypeOK /\ NamesAreUnique /\ ChoiceInv

\* A registration has numbers to compare.
LEMMA DescriptorFacts ==
  \A d \in Descriptor : d.name \in Nat /\ d.order \in Nat /\ d.name \in Name
BY DescriptorAssumption DEF Name

\* Before the first registration.
LEMMA InitRegistry == Init => RegistryInv
<1> SUFFICES ASSUME Init PROVE RegistryInv
  OBVIOUS
<1>1. RegistryTypeOK
  BY DEF Init, RegistryTypeOK
<1>2. NamesAreUnique
  BY DEF Init, NamesAreUnique
<1>3. ChoiceInv
  BY DEF Init, ChoiceInv
<1> QED
  BY <1>1, <1>2, <1>3 DEF RegistryInv

\* Nothing that is asked for, refusable or suitable changes while these do not.
LEMMA SameChoice ==
  ASSUME UNCHANGED <<registry, wanted, required, seen, failed>>
  PROVE  /\ Asked' = Asked
         /\ \A d : Refusable(d)' = Refusable(d) /\ WasSuitable(d)' = WasSuitable(d)
BY DEF Asked, Refusable, WasSuitable

\* Registrations, a choice and a change of what the machine offers.
LEMMA NextKeepsRegistry == RegistryInv /\ [Next]_vars => RegistryInv'
<1> SUFFICES ASSUME RegistryInv, [Next]_vars PROVE RegistryInv'
  OBVIOUS
<1> USE DEF RegistryInv, RegistryTypeOK, NamesAreUnique, ChoiceInv
<1>1. ASSUME NEW d \in Descriptor, Register(d) PROVE RegistryInv'
  <2>1. stage = "idle"
    BY <1>1 DEF Register
  <2>2. RegistryTypeOK'
    BY <1>1 DEF Register, choiceVars
  <2>3. NamesAreUnique'
    BY <1>1 DEF Register, Accepts
  <2>4. ChoiceInv'
    BY <1>1, <2>1 DEF Register, choiceVars, Asked
  <2> QED
    BY <2>2, <2>3, <2>4
<1>2. ASSUME NEW name \in Name \cup {AutoName}, NEW features \in Requirements,
             Select(name, features)
      PROVE  RegistryInv'
  <2>1. RegistryTypeOK'
    BY <1>2 DEF Select, registryVars, Requirements, Feature
  <2>2. NamesAreUnique'
    BY <1>2 DEF Select, registryVars
  <2>3. candidates' = Asked' /\ chosen' = {} /\ pending' = {} /\ failed' = {}
    BY <1>2 DEF Select, registryVars, Asked
  <2>4. stage' \in {"check", "done"} /\ (stage' = "done" => candidates' = {})
    BY <1>2 DEF Select
  <2>5. UNCHANGED <<offers, seen>>
    BY <1>2 DEF Select
  <2> QED
    BY <2>1, <2>2, <2>3, <2>4, <2>5
<1>3. CASE Change
  <2>1. /\ stage \in {"check", "create"}
        /\ UNCHANGED <<registry, pending, stage, wanted, required, candidates, chosen, error,
                       failed>>
    BY <1>3 DEF Change, registryVars, choiceVars
  <2>2. /\ changes' \in Nat /\ offers' \in [Name -> SUBSET Feature]
        /\ seen' = [n \in Name |-> seen[n] \cup {offers'[n]}]
    BY <1>3 DEF Change
  <2>3. seen' \in [Name -> SUBSET (SUBSET Feature)]
    BY <2>2
  <2>4. \A n \in Name : offers'[n] \in seen'[n] /\ seen[n] \subseteq seen'[n]
    BY <2>2
  <2>5. RegistryTypeOK' /\ NamesAreUnique'
    BY <2>1, <2>2, <2>3
  <2>6. Asked' = Asked
    BY <2>1 DEF Asked
  <2>7. \A d \in registry : d.name \in Name
    BY DescriptorFacts
  <2>8. \A d \in registry : Refusable(d) => Refusable(d)'
    BY <2>1, <2>4, <2>7 DEF Refusable
  <2>9. \A d \in registry : WasSuitable(d) => WasSuitable(d)'
    BY <2>1, <2>4, <2>7 DEF WasSuitable
  <2>10. \A d : First(d)' = First(d)
    BY <2>1 DEF First
  <2>11. Asked \subseteq registry
    BY DEF Asked
  <2>12. ChoiceInv'
    BY <2>1, <2>4, <2>6, <2>8, <2>9, <2>10, <2>11
  <2> QED
    BY <2>5, <2>12
<1>4. CASE Check
  <2> PICK d \in candidates : /\ First(d)
                              /\ \/ /\ Supports(d)
                                    /\ stage' = "create"
                                    /\ UNCHANGED <<registryVars, offers, wanted, required,
                                                   candidates, chosen, error, changes, seen>>
                                 \/ ~Supports(d) /\ Refuse(d)
    BY <1>4 DEF Check
  <2>1. stage = "check" /\ UNCHANGED <<registry, pending, offers, wanted, required,
                                       chosen, error, changes, seen, failed>>
    BY <1>4 DEF Check, Refuse, registryVars
  <2>2. /\ Asked' = Asked
        /\ \A e : Refusable(e)' = Refusable(e) /\ WasSuitable(e)' = WasSuitable(e)
    BY <2>1, SameChoice
  <2>3. offers[d.name] \in seen[d.name]
    BY DescriptorFacts
  <2>4. CASE Supports(d) /\ stage' = "create" /\ candidates' = candidates
    <3>1. \A e \in candidates : First(e) => e = d
      BY DescriptorFacts DEF First, Before
    <3>2. WasSuitable(d)
      BY <2>3, <2>4 DEF Supports, WasSuitable
    <3>3. \A e : First(e)' = First(e)
      BY <2>4 DEF First
    <3> QED
      BY <2>1, <2>2, <2>4, <3>1, <3>2, <3>3
  <2>5. CASE ~Supports(d) /\ Refuse(d)
    <3>1. Refusable(d)
      BY <2>3, <2>5 DEF Supports, Refusable
    <3> QED
      BY <2>1, <2>2, <2>5, <3>1 DEF Refuse
  <2> QED
    BY <2>4, <2>5 DEF registryVars
<1>5. CASE Create
  <2> PICK d \in candidates : /\ First(d)
                              /\ chosen' = {d} /\ stage' = "done"
                              /\ UNCHANGED <<registryVars, offers, wanted, required,
                                             candidates, error, changes>>
    BY <1>5 DEF Create
  <2>1. stage = "create" /\ UNCHANGED <<registry, pending, offers, wanted, required,
                                        candidates, error, changes, seen, failed>>
    BY <1>5 DEF Create, registryVars
  <2>2. /\ Asked' = Asked
        /\ \A e : Refusable(e)' = Refusable(e) /\ WasSuitable(e)' = WasSuitable(e)
    BY <2>1, SameChoice
  <2>3. First(d)' /\ WasSuitable(d)
    BY <2>1 DEF First
  <2> QED
    BY <2>1, <2>2, <2>3
<1>6. CASE CreateFails
  <2> PICK d \in candidates : First(d) /\ Refuse(d) /\ failed' = failed \cup {d}
    BY <1>6 DEF CreateFails
  <2>1. /\ stage' = "check" /\ candidates' = candidates \ {d}
        /\ UNCHANGED <<registry, pending, offers, wanted, required, chosen, error, changes,
                       seen>>
        /\ stage = "create"
    BY <1>6 DEF CreateFails, Refuse, registryVars
  <2>2. Asked' = Asked
    BY <2>1 DEF Asked
  <2>3. Refusable(d)' /\ \A e : Refusable(e) => Refusable(e)'
    BY <2>1 DEF Refusable
  <2> QED
    BY <2>1, <2>2, <2>3
<1>7. CASE Exhausted
  <2>1. /\ stage = "check" /\ candidates = {} /\ stage' = "done" /\ error' = "notSupported"
        /\ UNCHANGED <<registry, pending, offers, wanted, required, candidates, chosen,
                       changes, seen, failed>>
    BY <1>7 DEF Exhausted, registryVars
  <2>2. /\ Asked' = Asked
        /\ \A e : Refusable(e)' = Refusable(e) /\ WasSuitable(e)' = WasSuitable(e)
    BY <2>1, SameChoice
  <2> QED
    BY <2>1, <2>2
<1>8. CASE UNCHANGED vars
  <2>1. UNCHANGED <<registry, pending, offers, stage, wanted, required, candidates, chosen,
                    error, changes, seen, failed>>
    BY <1>8 DEF vars, registryVars, choiceVars
  <2>2. /\ Asked' = Asked
        /\ \A e : Refusable(e)' = Refusable(e) /\ WasSuitable(e)' = WasSuitable(e)
    BY <2>1, SameChoice
  <2>3. \A e : First(e)' = First(e)
    BY <2>1 DEF First
  <2> QED
    BY <2>1, <2>2, <2>3
<1> QED
  BY <1>1, <1>2, <1>3, <1>4, <1>5, <1>6, <1>7, <1>8 DEF Next, ChoiceStep

\* The registry's invariant, from which the promises below follow.
THEOREM RegistryInvariant == Spec => []RegistryInv
BY InitRegistry, NextKeepsRegistry, PTL DEF Spec

\* A name means one back end, whatever the order of registration.
THEOREM NamesMeanOneBackend == Spec => []NamesAreUnique
<1>1. RegistryInv => NamesAreUnique
  BY DEF RegistryInv
<1> QED
  BY <1>1, RegistryInvariant, PTL

\* A back end asked for by name is never replaced by another.
THEOREM NothingElseIsChosen == Spec => []NoFallback
<1>1. RegistryInv => NoFallback
  BY DEF RegistryInv, RegistryTypeOK, ChoiceInv, NoFallback, Asked
<1> QED
  BY <1>1, RegistryInvariant, PTL

\* What is chosen had all that is required, and for every other that goes before it
\* there was a reason to refuse it, whatever changes and whatever cannot be created.
THEOREM FirstSuitableIsChosen == Spec => []PicksTheFirstSuitable
<1>1. ASSUME RegistryInv PROVE PicksTheFirstSuitable
  <2> USE <1>1 DEF RegistryInv, RegistryTypeOK, ChoiceInv
  <2> SUFFICES ASSUME stage = "done"
               PROVE  /\ \A d \in chosen :
                           /\ d \in Asked \ failed
                           /\ \E features \in seen[d.name] : required \subseteq features
                           /\ \A e \in Asked :
                                e.order < d.order \/ (e.order = d.order /\ e.name < d.name)
                                  => Refusable(e)
                      /\ chosen = {} => \A e \in Asked : Refusable(e)
    BY DEF PicksTheFirstSuitable
  <2>1. \A e \in Asked \ candidates : Refusable(e)
    OBVIOUS
  <2>2. CASE chosen = {}
    BY <2>1, <2>2
  <2>3. CASE chosen # {}
    <3> PICK d \in candidates : First(d) /\ chosen = {d} /\ WasSuitable(d)
      BY <2>3
    <3>1. d \in Asked \ failed /\ \E features \in seen[d.name] : required \subseteq features
      BY DEF WasSuitable
    <3>2. ASSUME NEW e \in Asked, e.order < d.order \/ (e.order = d.order /\ e.name < d.name)
          PROVE  e \notin candidates
      <4>1. /\ d.order \in Nat /\ d.name \in Nat /\ e.order \in Nat /\ e.name \in Nat
        BY <3>1, DescriptorFacts DEF Asked
      <4>2. e # d /\ ~Before(d, e)
        BY <3>2, <4>1 DEF Before
      <4> QED
        BY <4>2 DEF First
    <3> QED
      BY <2>1, <3>1, <3>2
  <2> QED
    BY <2>2, <2>3
<1> QED
  BY <1>1, RegistryInvariant, PTL

-----------------------------------------------------------------------------
\* The window and its run.

\* What holds between the presenter's members and the place its coroutine is
\* at: the mode is fixed from the first line of a run to the last, so the two
\* times it is read agree.
RunInv ==
  /\ Window!RunTypeOK
  /\ body \in {"select", "run"} => needed = mode
  /\ service # "none" => body = "run" /\ service = mode
  /\ Window!RunMatchesWindow

\* The program has just been started.
LEMMA InitRun == Window!Init => RunInv
<1> SUFFICES ASSUME Window!Init PROVE RunInv
  OBVIOUS
<1>1. Window!RunTypeOK
  BY DEF Window!Init, Window!RunTypeOK, Window!RunState, Window!Mode
<1>2. Window!RunMatchesWindow
  BY DEF Window!Init, Window!RunMatchesWindow, Window!RunsWhatWasChecked
<1> QED
  BY <1>1, <1>2 DEF Window!Init, RunInv

\* Steps of the run, of the user and of the event loop.
LEMMA NextKeepsRun == RunInv /\ [Window!Next]_(Window!vars) => RunInv'
<1> SUFFICES ASSUME RunInv, [Window!Next]_(Window!vars) PROVE RunInv'
  OBVIOUS
<1> USE DEF RunInv, Window!RunTypeOK, Window!RunState, Window!Mode, Window!Active,
Window!RunMatchesWindow,
            Window!RunsWhatWasChecked, Window!runVars, Window!checkVars
<1>1. ASSUME NEW m \in Window!Mode, Window!SetSelectedMode(m) PROVE RunInv'
  BY <1>1 DEF Window!SetSelectedMode
<1>2. CASE Window!StartFails
  BY <1>2 DEF Window!StartFails
<1>3. CASE Window!Start
  <2>0. runs' \in Nat
    BY <1>3 DEF Window!Start
  <2>1. Window!RunTypeOK'
    BY <1>3, <2>0 DEF Window!Start
  <2>2. Window!RunMatchesWindow'
    BY <1>3 DEF Window!Start
  <2> QED
    BY <2>1, <2>2, <1>3 DEF Window!Start
<1>4. CASE Window!Stop
  BY <1>4 DEF Window!Stop, Window!RequestStop
<1>5. CASE Window!QuitApplication
  BY <1>5, ZenonT(40) DEF Window!QuitApplication, Window!RequestStop
<1>6. CASE Window!RefreshBackendChecks
  BY <1>6 DEF Window!RefreshBackendChecks
<1>7. CASE Window!Begin
  BY <1>7 DEF Window!Begin
<1>8. CASE Window!SelectFails
  BY <1>8 DEF Window!SelectFails
<1>9. CASE Window!Selected
  BY <1>9 DEF Window!Selected
<1>10. CASE Window!ServiceEnds
  BY <1>10 DEF Window!ServiceEnds, Window!Leave
<1>11. CASE Window!Canceled
  BY <1>11 DEF Window!Canceled, Window!Leave
<1>12. CASE Window!FinishRun
  BY <1>12 DEF Window!FinishRun
<1>13. CASE Window!ChecksDone
  <2>0. checks' \in Nat
    BY <1>13 DEF Window!ChecksDone
  <2>1. Window!RunTypeOK'
    BY <1>13, <2>0, ZenonT(40) DEF Window!ChecksDone
  <2>2. Window!RunMatchesWindow'
    BY <1>13 DEF Window!ChecksDone
  <2> QED
    BY <2>1, <2>2, <1>13 DEF Window!ChecksDone
<1>14. CASE UNCHANGED Window!vars
  BY <1>14 DEF Window!vars
<1> QED
  BY <1>1, <1>2, <1>3, <1>4, <1>5, <1>6, <1>7, <1>8, <1>9, <1>10, <1>11, <1>12, <1>13,
     <1>14 DEF Window!Next, Window!RunStep, Window!UserStep

\* The presenter's members always have their types.
THEOREM RunTypeCorrect == Window!Spec => []Window!RunTypeOK
<1>1. RunInv => Window!RunTypeOK
  BY DEF RunInv
<1> QED
  BY <1>1, InitRun, NextKeepsRun, PTL DEF Window!Spec

\* A service runs on a back end that was chosen for its mode, the timer reads a
\* server only while there is one, and the program quits with nothing running.
THEOREM WindowAndRunAgree == Window!Spec => []Window!RunMatchesWindow
<1>1. RunInv => Window!RunMatchesWindow
  BY DEF RunInv
<1> QED
  BY <1>1, InitRun, NextKeepsRun, PTL DEF Window!Spec

-----------------------------------------------------------------------------
\* A client and its sessions.

\* The client has at most the stream of its run, and as long as its injector is
\* not up the server has read nothing but a Hello from it: no screens are on
\* their way and none are registered.  A stream whose name is used again has a
\* new session.
ClientInv ==
  /\ clientStage \in Client!Stage /\ injecting \in BOOLEAN
  /\ \A c \in clientOpen : c = conn
  /\ clientStage = "loops" => injecting
  /\ screensSent => injecting
  /\ clientStage \in {"idle", "connect"} => clientOpen = {}
  /\ \A c \in registered : session[c] \in {"open", "closing"}
  /\ registered \subseteq Conn
  /\ up \in [Conn -> Seq({"hello", "screens"})]
  /\ session \in [Conn -> {"none", "backlog", "handshake", "open", "closing"}]
  /\ \A c \in clientOpen \cap Conn : ~injecting =>
       /\ c \notin registered
       /\ session[c] \in {"backlog", "handshake"} =>
            IF clientStage = "hello" THEN up[c] = <<>> ELSE up[c] \in {<<>>, <<"hello">>}
       /\ session[c] = "open" => up[c] = <<>> /\ clientStage # "hello"

\* Before the first run.
LEMMA InitClient == Client!Init => ClientInv
<1> SUFFICES ASSUME Client!Init PROVE ClientInv
  OBVIOUS
<1>1. up \in [Conn -> Seq({"hello", "screens"})]
  BY DEF Client!Init
<1>2. session \in [Conn -> {"none", "backlog", "handshake", "open", "closing"}]
  BY DEF Client!Init
<1> QED
  BY <1>1, <1>2 DEF Client!Init, ClientInv, Client!Stage

\* Appending to the stream of the run, or reading from one, leaves a family of
\* sequences.
LEMMA UpType ==
  ASSUME up \in [Conn -> Seq({"hello", "screens"})], NEW c,
         \/ \E m \in {"hello", "screens"} : up' = [up EXCEPT ![c] = Append(@, m)]
         \/ up[c] # <<>> /\ up' = [up EXCEPT ![c] = Tail(@)]
  PROVE  up' \in [Conn -> Seq({"hello", "screens"})]
<1>1. CASE c \in Conn
  <2>1. up[c] \in Seq({"hello", "screens"})
    BY <1>1
  <2>2. \A m \in {"hello", "screens"} : Append(up[c], m) \in Seq({"hello", "screens"})
    BY <2>1
  <2>3. up[c] # <<>> => Tail(up[c]) \in Seq({"hello", "screens"})
    BY <2>1
  <2> QED
    BY <1>1, <2>2, <2>3
<1>2. CASE c \notin Conn
  BY <1>2
<1> QED
  BY <1>1, <1>2

\* What the client does.
LEMMA ClientStepKeepsInv == ClientInv /\ Client!ClientStep => ClientInv'
<1> SUFFICES ASSUME ClientInv, Client!ClientStep PROVE ClientInv'
  OBVIOUS
<1> USE DEF ClientInv, Client!Stage, Client!clientVars, Client!serverVars
<1>1. CASE Client!Run
  BY <1>1 DEF Client!Run
<1>2. CASE Client!WriteHello
  <2>1. up' \in [Conn -> Seq({"hello", "screens"})]
    BY <1>2, UpType DEF Client!WriteHello
  <2>2. ASSUME NEW c \in clientOpen' \cap Conn, ~injecting'
        PROVE  /\ c \notin registered'
               /\ session'[c] \in {"backlog", "handshake"} => up'[c] \in {<<>>, <<"hello">>}
               /\ session'[c] # "open"
    <3>1. c = conn /\ UNCHANGED <<registered, session>> /\ ~injecting /\ c \in Conn
            /\ up' = [up EXCEPT ![conn] = Append(@, "hello")] /\ clientStage = "hello"
      BY <1>2, <2>2 DEF Client!WriteHello
    <3>2. up[c] = <<>> => up'[c] = <<"hello">>
      BY <3>1
    <3> QED
      BY <1>2, <2>2, <3>1, <3>2 DEF Client!WriteHello
  <2> QED
    BY <1>2, <2>1, <2>2 DEF Client!WriteHello
<1>3. CASE Client!Initialize
  BY <1>3 DEF Client!Initialize
<1>4. CASE Client!WriteScreens
  <2>1. up' \in [Conn -> Seq({"hello", "screens"})]
    BY <1>4, UpType DEF Client!WriteScreens
  <2> QED
    BY <1>4, <2>1 DEF Client!WriteScreens
<1>5. CASE Client!Receive
  BY <1>5 DEF Client!Receive
<1>6. CASE Client!LoopsEnd
  BY <1>6 DEF Client!LoopsEnd
<1>7. CASE Client!CloseTransport
  BY <1>7 DEF Client!CloseTransport
<1>8. CASE Client!Returns
  BY <1>8 DEF Client!Returns, Client!Return
<1>9. CASE Client!Fails
  BY <1>9 DEF Client!Fails, Client!Return
<1>10. CASE Client!Cancel
  BY <1>10 DEF Client!Cancel
<1>11. ASSUME NEW c \in Conn, Client!Connect(c) PROVE ClientInv'
  BY <1>11 DEF Client!Connect
<1> QED
  BY <1>1, <1>2, <1>3, <1>4, <1>5, <1>6, <1>7, <1>8, <1>9, <1>10, <1>11
     DEF Client!ClientStep

\* What a session of the server does.
LEMMA ServerStepKeepsInv ==
  ASSUME ClientInv, NEW c \in Conn, Client!ServerStep(c) PROVE ClientInv'
<1> USE DEF ClientInv, Client!Stage, Client!clientVars, Client!serverVars
<1>1. CASE Client!Accept(c)
  BY <1>1 DEF Client!Accept
<1>2. CASE Client!Handshake(c)
  <2>1. up' \in [Conn -> Seq({"hello", "screens"})]
    BY <1>2, UpType DEF Client!Handshake
  <2>2. UNCHANGED <<Client!clientVars, clientOpen, registered>>
          /\ up' = [up EXCEPT ![c] = Tail(@)] /\ up[c] # <<>> /\ session[c] = "handshake"
          /\ \E s \in {"open", "none"} : session' = [session EXCEPT ![c] = s]
    BY <1>2 DEF Client!Handshake
  <2>3. session' \in [Conn -> {"none", "backlog", "handshake", "open", "closing"}]
    BY <2>2
  <2>4. \A d \in registered : d # c
    BY <2>2
  <2>5. ASSUME NEW d \in clientOpen' \cap Conn, ~injecting'
        PROVE  /\ d \notin registered'
               /\ session'[d] \in {"backlog", "handshake"} =>
                    IF clientStage' = "hello" THEN up'[d] = <<>> ELSE up'[d] \in {<<>>, <<"hello">>}
               /\ session'[d] = "open" => up'[d] = <<>> /\ clientStage' # "hello"
    <3>1. CASE d # c
      BY <2>2, <2>5, <3>1
    <3>2. CASE d = c
      <4>1. up[c] = <<"hello">> /\ clientStage # "hello"
        BY <2>2, <2>5, <3>2
      <4>2. up'[c] = <<>>
        BY <2>2, <4>1
      <4> QED
        BY <2>2, <2>5, <3>2, <4>1, <4>2
    <3> QED
      BY <3>1, <3>2
  <2> QED
    BY <2>1, <2>2, <2>3, <2>4, <2>5
<1>3. CASE Client!ReadScreens(c)
  BY <1>3 DEF Client!ReadScreens
<1>4. CASE Client!SendInput(c)
  BY <1>4 DEF Client!SendInput
<1>5. CASE Client!ServerEnds(c)
  BY <1>5 DEF Client!ServerEnds
<1>6. CASE Client!ServerClosed(c)
  BY <1>6 DEF Client!ServerClosed
<1> QED
  BY <1>1, <1>2, <1>3, <1>4, <1>5, <1>6 DEF Client!ServerStep

\* The invariant of a client and its sessions.
THEOREM ClientInvariant == Client!Spec => []ClientInv
<1>1. ClientInv /\ [Client!Next]_(Client!vars) => ClientInv'
  <2> SUFFICES ASSUME ClientInv, [Client!Next]_(Client!vars) PROVE ClientInv'
    OBVIOUS
  <2>1. CASE Client!Next
    BY <2>1, ClientStepKeepsInv, ServerStepKeepsInv DEF Client!Next
  <2>2. CASE UNCHANGED Client!vars
    BY <2>2 DEF Client!vars, Client!clientVars, Client!serverVars, ClientInv, Client!Stage
  <2> QED
    BY <2>1, <2>2
<1> QED
  BY <1>1, InitClient, PTL DEF Client!Spec

\* As long as the server can send input for a client's screens over a stream the
\* client has open, the injector of that run is up.
THEOREM ScreensAlwaysHaveAnInjector == Client!Spec => []Client!ScreensHaveAnInjector
<1>1. ClientInv => Client!ScreensHaveAnInjector
  BY DEF ClientInv, Client!ScreensHaveAnInjector
<1> QED
  BY <1>1, ClientInvariant, PTL

-----------------------------------------------------------------------------
\* The transport under them.

\* What is still to come to the reader: the numbers on the wire and, while the
\* connection is open, those the writer has left to push.
Coming == Len(wire) + IF connection = "open" THEN Len(out) ELSE 0

Flow(k) == IF k <= Len(wire) THEN wire[k] ELSE out[k - Len(wire)]

\* How much of the frame of the next message the reader has taken.
Taken == CASE reader = "size" -> 0 [] reader = "id" -> 1 [] OTHER -> 2 + Len(buffer)

\* Where the frames of the accepted messages start, counted from the number
\* that the reader takes next.
IsLayout(start) ==
  /\ start \in [1..(Len(accepted) + 1) -> Int]
  /\ start[Len(delivered) + 1] = 1 - Taken
  /\ \A i \in 1..Len(accepted) : start[i + 1] = start[i] + 2 + Len(accepted[i].body)
  /\ \A i \in 1..Len(accepted) : start[i] <= start[Len(accepted) + 1]
  /\ Coming < start[Len(accepted) + 1]
  /\ connection = "open" /\ writer # "failed" => start[Len(accepted) + 1] = Coming + 1
  /\ \A i \in 1..Len(accepted) : i > Len(delivered) =>
       \A k \in 1..Coming : start[i] <= k /\ k < start[i + 1] =>
         Flow(k) = Transport!Frame(accepted[i])[k - start[i] + 1]

\* The message that is being read, and what the reader knows of it.
Current == accepted[Len(delivered) + 1]

ReaderInv ==
  /\ reader \in {"id", "payload"} => Len(delivered) < Len(accepted) /\ size = Len(Current.body)
  /\ reader = "payload" =>
       /\ id = Current.id /\ Len(buffer) <= size
       /\ \A j \in 1..Len(buffer) : buffer[j] = Current.body[j]

TransportType ==
  /\ writer \in {"idle", "writing", "failed"}
  /\ reader \in {"size", "id", "payload", "failed"}
  /\ connection \in {"open", "shut", "broken"}
  /\ out \in Seq(Nat) /\ wire \in Seq(Nat) /\ buffer \in Seq(Nat)
  /\ accepted \in Seq({m \in Messages : Transport!Fits(m)})
  /\ delivered \in Seq(Messages)
  /\ writer = "writing" => out # <<>>
  /\ writer # "writing" => out = <<>>
  /\ Len(delivered) <= Len(accepted)

TransportInv ==
  /\ TransportType
  /\ reader # "failed" => ReaderInv /\ \E start : IsLayout(start)

\* A number that the modulus exceeds is its own remainder.
LEMMA SmallRemainder ==
  ASSUME NEW a \in Nat, NEW b \in Nat, a < b
  PROVE  a % b = a
BY SMT

\* A frame is a header of two numbers and the body; the header says the size.
LEMMA FrameFacts ==
  ASSUME NEW m \in Messages, Transport!Fits(m)
  PROVE  /\ Transport!Frame(m) \in Seq(Nat) /\ Len(Transport!Frame(m)) = 2 + Len(m.body)
         /\ Transport!Frame(m)[1] = Len(m.body) /\ Transport!Frame(m)[2] = m.id
         /\ \A j \in 1..Len(m.body) : Transport!Frame(m)[j + 2] = m.body[j]
         /\ m.body \in Seq(Nat) /\ Len(m.body) \in Nat /\ m.id \in Nat
         /\ Transport!Frame(m) # <<>>
<1>1. m.body \in Seq(Nat) /\ m.id \in Nat /\ Len(m.body) \in Nat
  BY TransportAssumption, LenProperties
<1>2. Len(m.body) % (MaxPayload + 1) = Len(m.body)
  <2>1. Len(m.body) < MaxPayload + 1 /\ MaxPayload + 1 \in Nat
    BY <1>1, TransportAssumption DEF Transport!Fits
  <2> QED BY <1>1, <2>1, SmallRemainder
<1> DEFINE header == <<Len(m.body), m.id>>
<1>3. header \in Seq(Nat) /\ Len(header) = 2 /\ header[1] = Len(m.body) /\ header[2] = m.id
  BY <1>1
<1>4. Transport!Frame(m) = header \o m.body
  BY <1>2 DEF Transport!Frame
<1> HIDE DEF header
<1>5. /\ Transport!Frame(m) \in Seq(Nat) /\ Len(Transport!Frame(m)) = 2 + Len(m.body)
      /\ \A i \in 1..(2 + Len(m.body)) :
           Transport!Frame(m)[i] = IF i <= 2 THEN header[i] ELSE m.body[i - 2]
  <2>1. /\ header \o m.body \in Seq(Nat) /\ Len(header \o m.body) = Len(header) + Len(m.body)
        /\ \A i \in 1..(Len(header) + Len(m.body)) :
             (header \o m.body)[i] = IF i <= Len(header) THEN header[i]
                                     ELSE m.body[i - Len(header)]
    BY <1>1, <1>3, ConcatProperties
  <2> QED BY <1>3, <1>4, <2>1
<1>6. Transport!Frame(m)[1] = Len(m.body) /\ Transport!Frame(m)[2] = m.id
  BY <1>1, <1>3, <1>5
<1>7. \A j \in 1..Len(m.body) : Transport!Frame(m)[j + 2] = m.body[j]
  <2> SUFFICES ASSUME NEW j \in 1..Len(m.body)  PROVE Transport!Frame(m)[j + 2] = m.body[j]
    OBVIOUS
  <2>1. j + 2 \in 1..(2 + Len(m.body)) /\ ~(j + 2 <= 2) /\ (j + 2) - 2 = j
    BY <1>1
  <2> QED BY <1>5, <2>1
<1>8. Transport!Frame(m) # <<>>
  BY <1>1, <1>5, EmptySeq
<1> QED BY <1>1, <1>5, <1>6, <1>7, <1>8

\* An accepted message.
LEMMA AcceptedFacts ==
  ASSUME TransportType, NEW i \in 1..Len(accepted)
  PROVE  accepted[i] \in Messages /\ Transport!Fits(accepted[i])
BY ElementOfSeq DEF TransportType

\* Lengths are numbers.
LEMMA Lengths ==
  ASSUME TransportType
  PROVE  /\ Len(wire) \in Nat /\ Len(out) \in Nat /\ Len(buffer) \in Nat
         /\ Len(accepted) \in Nat /\ Len(delivered) \in Nat /\ Coming \in Nat
         /\ Taken \in Nat
BY LenProperties DEF TransportType, Coming, Taken

\* The next number belongs to the frame of the message that is being read, at
\* the place the reader has come to.
LEMMA NextNumber ==
  ASSUME TransportInv, reader # "failed", wire # <<>>,
         reader = "payload" => Len(buffer) < size
  PROVE  /\ Len(delivered) < Len(accepted)
         /\ Current \in Messages /\ Transport!Fits(Current)
         /\ Head(wire) = Transport!Frame(Current)[Taken + 1]
<1>1. PICK start : IsLayout(start)
  BY DEF TransportInv
<1> DEFINE n == Len(delivered)
<1>2. /\ Len(wire) \in Nat /\ Len(wire) > 0 /\ Len(out) \in Nat /\ n \in Nat
      /\ Len(accepted) \in Nat /\ Coming \in Nat /\ Coming > 0 /\ Taken \in Nat
      /\ n <= Len(accepted)
      /\ Head(wire) = wire[1]
  <2>1. TransportType
    BY DEF TransportInv
  <2>2. Len(wire) > 0 /\ Head(wire) = wire[1]
    BY <2>1, EmptySeq, HeadTailProperties DEF TransportType
  <2> QED BY <2>1, <2>2, Lengths DEF TransportType, Coming
<1>3. n < Len(accepted)
  <2>1. CASE reader \in {"id", "payload"}
    BY <2>1 DEF TransportInv, ReaderInv
  <2>2. CASE reader = "size"
    <3>1. start[n + 1] = 1
      BY <1>1, <2>2 DEF IsLayout, Taken
    <3>2. n = Len(accepted) => FALSE
      BY <1>1, <1>2, <3>1 DEF IsLayout
    <3> QED BY <1>2, <3>2
  <2> QED BY <2>1, <2>2 DEF TransportInv, TransportType
<1>4. Current \in Messages /\ Transport!Fits(Current)
  BY <1>2, <1>3, AcceptedFacts DEF Current, TransportInv
<1>5. Len(Current.body) \in Nat
  BY <1>4, FrameFacts
<1>6. /\ start[n + 1] = 1 - Taken
      /\ start[n + 2] = start[n + 1] + 2 + Len(Current.body)
  <2>1. n + 1 \in 1..Len(accepted) /\ (n + 1) + 1 = n + 2
    BY <1>2, <1>3
  <2> QED BY <1>1, <2>1 DEF IsLayout, Current
<1>7. Taken < 2 + Len(Current.body)
  <2>1. CASE reader = "payload"
    BY <1>5, <2>1 DEF TransportInv, ReaderInv, Taken
  <2>2. CASE reader \in {"size", "id"}
    BY <1>5, <2>2 DEF Taken
  <2> QED BY <2>1, <2>2 DEF TransportInv, TransportType
<1>8. start[n + 1] <= 1 /\ 1 < start[n + 2]
  BY <1>2, <1>5, <1>6, <1>7
<1>9. Flow(1) = Transport!Frame(Current)[1 - start[n + 1] + 1]
  <2>1. n + 1 \in 1..Len(accepted) /\ n + 1 > n /\ 1 \in 1..Coming /\ (n + 1) + 1 = n + 2
    BY <1>2, <1>3
  <2>2. \A k \in 1..Coming : start[n + 1] <= k /\ k < start[(n + 1) + 1] =>
          Flow(k) = Transport!Frame(accepted[n + 1])[k - start[n + 1] + 1]
    BY <1>1, <2>1 DEF IsLayout
  <2> QED BY <1>8, <2>1, <2>2 DEF Current
<1>10. Flow(1) = Head(wire)
  BY <1>2 DEF Flow
<1>11. 1 - start[n + 1] + 1 = Taken + 1
  BY <1>2, <1>6
<1> QED BY <1>3, <1>4, <1>9, <1>10, <1>11

\* What the connection has yet to deliver may get less, and nothing else.
LEMMA LayoutIsKept ==
  ASSUME TransportType, NEW start, IsLayout(start), UNCHANGED <<accepted, delivered>>,
         Taken' = Taken, Coming' \in 0..Coming, \A k \in 1..Coming' : Flow(k)' = Flow(k),
         connection' = "open" /\ writer' # "failed" =>
           connection = "open" /\ writer # "failed" /\ Coming' = Coming
  PROVE  IsLayout(start)'
<1>1. Coming \in Nat /\ Len(accepted) \in Nat
  BY Lengths
<1>2. ASSUME NEW i \in 1..Len(accepted), i > Len(delivered), NEW k \in 1..Coming',
             start[i] <= k, k < start[i + 1]
      PROVE  Flow(k)' = Transport!Frame(accepted[i])[k - start[i] + 1]
  <2>1. k \in 1..Coming
    BY <1>1, <1>2
  <2> QED BY <1>2, <2>1 DEF IsLayout
<1>3. start[Len(accepted) + 1] \in Int
  BY <1>1 DEF IsLayout
<1> QED BY <1>1, <1>2, <1>3 DEF IsLayout

\* The reader takes a number, and all that is to come moves up.
LEMMA LayoutMovesUp ==
  ASSUME TransportType, NEW start, IsLayout(start), wire # <<>>, wire' = Tail(wire),
         UNCHANGED <<writer, out, connection, accepted, delivered>>, Taken' = Taken + 1
  PROVE  \E s : IsLayout(s)'
<1>1. /\ Len(wire) \in Nat /\ Len(wire) > 0 /\ Len(out) \in Nat /\ Len(accepted) \in Nat
      /\ Len(delivered) \in Nat /\ Len(delivered) <= Len(accepted)
      /\ Coming \in Nat /\ Taken \in Nat
  BY Lengths, EmptySeq DEF TransportType
<1>2. /\ Len(wire') = Len(wire) - 1
      /\ \A k \in 1..Len(wire') : wire'[k] = wire[k + 1]
  BY HeadTailProperties DEF TransportType
<1>3. start \in [1..(Len(accepted) + 1) -> Int]
  BY DEF IsLayout
<1> DEFINE N == Len(accepted)
<1> HIDE DEF N
<1>4. PICK s \in [1..(N + 1) -> Int] :
        \A i \in 1..(N + 1) : s[i] = start[i] - 1 /\ start[i] \in Int
  <2> DEFINE f == [i \in 1..(N + 1) |-> start[i] - 1]
  <2>1. /\ f \in [1..(N + 1) -> Int]
        /\ \A i \in 1..(N + 1) : f[i] = start[i] - 1 /\ start[i] \in Int
    BY <1>3 DEF N
  <2> QED BY <2>1
<1>5. Coming' = Coming - 1
  BY <1>1, <1>2 DEF Coming
<1>6. \A k \in 1..Coming' : Flow(k)' = Flow(k + 1)
  <2> SUFFICES ASSUME NEW k \in 1..Coming'  PROVE Flow(k)' = Flow(k + 1)
    OBVIOUS
  <2>1. CASE k <= Len(wire')
    BY <1>1, <1>2, <1>5, <2>1 DEF Flow
  <2>2. CASE ~(k <= Len(wire'))
    <3>1. k - Len(wire') = (k + 1) - Len(wire) /\ ~(k + 1 <= Len(wire))
      BY <1>1, <1>2, <1>5, <2>2
    <3> QED BY <2>2, <3>1 DEF Flow
  <2> QED BY <2>1, <2>2
<1>7. s[Len(delivered) + 1] = 1 - Taken'
  <2>1. start[Len(delivered) + 1] = 1 - Taken /\ Len(delivered) + 1 \in 1..(N + 1)
    BY <1>1 DEF IsLayout, N
  <2> QED BY <1>1, <1>4, <2>1
<1>8. \A i \in 1..N : /\ s[i + 1] = s[i] + 2 + Len(accepted[i].body)
                      /\ s[i] <= s[N + 1]
  <2> SUFFICES ASSUME NEW i \in 1..N
               PROVE  s[i + 1] = s[i] + 2 + Len(accepted[i].body) /\ s[i] <= s[N + 1]
    OBVIOUS
  <2> DEFINE length == Len(accepted[i].body)
  <2>1. start[i + 1] = start[i] + 2 + length /\ start[i] <= start[N + 1]
    BY DEF IsLayout, N
  <2>2. length \in Nat
    BY AcceptedFacts, FrameFacts DEF N
  <2>3. N \in Nat /\ \A j \in 1..(N + 1) : s[j] = start[j] - 1 /\ start[j] \in Int
    BY <1>1, <1>4 DEF N
  <2> HIDE DEF length
  <2>4. /\ start[i] \in Int /\ s[i] = start[i] - 1
        /\ start[i + 1] \in Int /\ s[i + 1] = start[i + 1] - 1
        /\ start[N + 1] \in Int /\ s[N + 1] = start[N + 1] - 1
    BY <2>3
  <2>5. s[i + 1] = s[i] + 2 + length /\ s[i] <= s[N + 1]
    BY <2>1, <2>2, <2>4
  <2> QED BY <2>5 DEF length
<1>9. /\ Coming' < s[N + 1]
      /\ connection = "open" /\ writer # "failed" => s[N + 1] = Coming' + 1
  <2>1. N + 1 \in 1..(N + 1)
    BY <1>1 DEF N
  <2>2. /\ Coming < start[N + 1]
        /\ connection = "open" /\ writer # "failed" => start[N + 1] = Coming + 1
    BY DEF IsLayout, N
  <2>3. s[N + 1] = start[N + 1] - 1 /\ start[N + 1] \in Int
    BY <1>4, <2>1
  <2>4. Coming \in Nat
    BY <1>1
  <2> QED BY <1>5, <2>2, <2>3, <2>4
<1>10. ASSUME NEW i \in 1..N, i > Len(delivered), NEW k \in 1..Coming',
              s[i] <= k, k < s[i + 1]
       PROVE  Flow(k)' = Transport!Frame(accepted[i])[k - s[i] + 1]
  <2>1. i \in 1..(N + 1) /\ i + 1 \in 1..(N + 1)
    BY <1>1 DEF N
  <2>2. /\ k + 1 \in 1..Coming /\ start[i] <= k + 1 /\ k + 1 < start[i + 1]
        /\ (k + 1) - start[i] + 1 = k - s[i] + 1
    <3>1. /\ s[i] = start[i] - 1 /\ start[i] \in Int
          /\ s[i + 1] = start[i + 1] - 1 /\ start[i + 1] \in Int
      BY <1>4, <2>1
    <3>2. Coming \in Nat
      BY <1>1
    <3> QED BY <1>5, <1>10, <3>1, <3>2, SMTT(30)
  <2>3. Flow(k + 1) = Transport!Frame(accepted[i])[(k + 1) - start[i] + 1]
    BY <1>10, <2>2 DEF IsLayout, N
  <2> QED BY <1>6, <2>2, <2>3
<1>11. IsLayout(s)'
  BY <1>4, <1>7, <1>8, <1>9, <1>10 DEF IsLayout, N
<1> QED BY <1>11

\* The whole of a frame has been read: the next one starts where it ends.
LEMMA LayoutGoesOn ==
  ASSUME TransportInv, NEW start, IsLayout(start), reader = "payload", Len(buffer) = size,
         reader' = "size", UNCHANGED <<writer, out, wire, connection, accepted>>,
         Len(delivered') = Len(delivered) + 1
  PROVE  IsLayout(start)'
<1> DEFINE n == Len(delivered)
<1>1. /\ n \in Nat /\ Len(accepted) \in Nat /\ n < Len(accepted) /\ Len(buffer) \in Nat
      /\ size = Len(Current.body)
  BY Lengths DEF TransportInv, ReaderInv
<1>2. n + 1 \in 1..Len(accepted) /\ n + 1 \in 1..(Len(accepted) + 1) /\ (n + 1) + 1 = n + 2
  BY <1>1
<1>3. /\ start[n + 1] = 1 - (2 + Len(buffer))
      /\ start[(n + 1) + 1] = start[n + 1] + 2 + Len(accepted[n + 1].body)
  BY <1>2 DEF IsLayout, Taken
<1>4. start[Len(delivered') + 1] = 1 - Taken'
  <2>1. Taken' = 0
    BY DEF Taken
  <2>2. start[n + 2] = 1
    BY <1>1, <1>2, <1>3 DEF Current
  <2> QED BY <1>1, <1>2, <2>1, <2>2
<1>5. Coming' = Coming /\ \A k : Flow(k)' = Flow(k)
  BY DEF Coming, Flow
<1>6. \A i \in 1..Len(accepted) : i > Len(delivered') => i > n
  BY <1>1
<1> QED BY <1>4, <1>5, <1>6 DEF IsLayout

\* The frame of a message that is accepted comes after all that is to come.
LEMMA LayoutIsExtended ==
  ASSUME TransportType, TransportType', NEW start, IsLayout(start),
         NEW m \in Messages, Transport!Fits(m),
         writer = "idle", connection = "open", writer' = "writing", out' = Transport!Frame(m),
         accepted' = Append(accepted, m),
         UNCHANGED <<Transport!readerVars, wire, connection>>
  PROVE  \E s : IsLayout(s)'
<1> DEFINE N == Len(accepted)
           W == Len(wire)
           L == Len(m.body)
<1>1. /\ W \in Nat /\ N \in Nat /\ Len(delivered) \in Nat /\ Len(delivered) <= N
      /\ Coming = W /\ out = <<>>
  BY Lengths, EmptySeq DEF TransportType, Coming
<1>2. /\ Len(accepted') = N + 1 /\ accepted'[N + 1] = m
      /\ \A i \in 1..N : accepted'[i] = accepted[i]
  BY AppendProperties, <1>1 DEF TransportType
<1>3. Len(Transport!Frame(m)) = 2 + L /\ L \in Nat
  BY FrameFacts
<1>4. /\ start \in [1..(N + 1) -> Int] /\ start[N + 1] = W + 1
      /\ \A i \in 1..N : start[i + 1] = start[i] + 2 + Len(accepted[i].body)
                         /\ start[i] <= start[N + 1]
  BY <1>1 DEF IsLayout
<1>5. Coming' = W + 2 + L
  <2>1. Coming' = Len(wire') + Len(out')
    BY DEF Coming
  <2>2. Len(wire') = W /\ Len(out') = 2 + L
    BY <1>3
  <2> HIDE DEF W, L
  <2> QED BY <1>1, <1>3, <2>1, <2>2
<1>6. Taken' = Taken /\ delivered' = delivered
  BY DEF Taken, Transport!readerVars
<1> HIDE DEF N, W, L
<1>7. PICK s \in [1..(N + 2) -> Int] :
        /\ \A i \in 1..(N + 1) : s[i] = start[i] /\ start[i] \in Int
        /\ s[N + 2] = W + 3 + L
  <2> DEFINE f == [i \in 1..(N + 2) |-> IF i <= N + 1 THEN start[i] ELSE W + 3 + L]
  <2>1. f \in [1..(N + 2) -> Int]
    BY <1>1, <1>3, <1>4
  <2>2. \A i \in 1..(N + 1) : f[i] = start[i] /\ start[i] \in Int
    BY <1>1, <1>4
  <2>3. f[N + 2] = W + 3 + L
    BY <1>1
  <2> QED BY <2>1, <2>2, <2>3
<1>8. s[N + 1] = W + 1
  BY <1>1, <1>4, <1>7
<1>9. s[Len(delivered') + 1] = 1 - Taken'
  <2>1. Len(delivered) + 1 \in 1..(N + 1)
    BY <1>1
  <2>2. start[Len(delivered) + 1] = 1 - Taken
    BY DEF IsLayout
  <2> QED BY <1>6, <1>7, <2>1, <2>2
<1>10. ASSUME NEW i \in 1..(N + 1)
       PROVE  s[i + 1] = s[i] + 2 + Len(accepted'[i].body) /\ s[i] <= s[N + 2]
  <2>1. CASE i = N + 1
    <3>1. i + 1 = N + 2 /\ s[i] = W + 1 /\ s[i + 1] = W + 3 + L
      BY <1>1, <1>7, <1>8, <2>1
    <3>2. Len(accepted'[i].body) = L
      BY <1>2, <2>1 DEF L
    <3> QED BY <1>1, <1>3, <3>1, <3>2
  <2>2. CASE i # N + 1
    <3>1. i \in 1..N /\ i + 1 \in 1..(N + 1)
      BY <1>1, <2>2
    <3>2. s[i] = start[i] /\ s[i + 1] = start[i + 1] /\ start[i] \in Int
      BY <1>7, <3>1
    <3>3. s[i + 1] = s[i] + 2 + Len(accepted'[i].body)
      BY <1>2, <1>4, <3>1, <3>2
    <3>4. s[i] <= W + 1
      BY <1>4, <3>1, <3>2
    <3> QED BY <1>1, <1>3, <1>7, <3>2, <3>3, <3>4
  <2> QED BY <2>1, <2>2
<1>11. s[N + 2] = Coming' + 1 /\ Coming' < s[N + 2] /\ Coming' \in Nat
  BY <1>1, <1>3, <1>5, <1>7
<1>12. ASSUME NEW i \in 1..(N + 1), i > Len(delivered), NEW k \in 1..Coming',
              s[i] <= k, k < s[i + 1]
       PROVE  Flow(k)' = Transport!Frame(accepted'[i])[k - s[i] + 1]
  <2>1. CASE i = N + 1
    <3>1. s[i] = W + 1 /\ ~(k <= W) /\ k - s[i] + 1 = k - W
      BY <1>1, <1>8, <1>11, <1>12, <2>1, SMTT(30)
    <3>2. Flow(k)' = out'[k - W]
      BY <3>1 DEF Flow, W
    <3> QED BY <1>2, <2>1, <3>1, <3>2
  <2>2. CASE i # N + 1
    <3>1. i \in 1..N /\ i + 1 \in 1..(N + 1)
      BY <1>1, <2>2
    <3>2. s[i] = start[i] /\ s[i + 1] = start[i + 1] /\ start[i] \in Int /\ start[i + 1] \in Int
      BY <1>7, <3>1
    <3>3. s[i + 1] <= W + 1
      <4>1. CASE i + 1 = N + 1
        BY <1>1, <1>8, <4>1
      <4>2. CASE i + 1 # N + 1
        <5>1. i + 1 \in 1..N
          BY <1>1, <3>1, <4>2
        <5> QED BY <1>4, <3>2, <5>1
      <4> QED BY <4>1, <4>2
    <3>4. k \in 1..Coming /\ k <= W
      BY <1>1, <1>11, <1>12, <3>2, <3>3
    <3>5. Flow(k)' = Flow(k)
      BY <3>4 DEF Flow, W
    <3>6. Flow(k) = Transport!Frame(accepted[i])[k - start[i] + 1]
      BY <1>12, <3>1, <3>2, <3>4 DEF IsLayout, N
    <3> QED BY <1>2, <3>1, <3>2, <3>5, <3>6
  <2> QED BY <2>1, <2>2
<1>13. IsLayout(s)'
  <2>1. Len(accepted') + 1 = N + 2 /\ (N + 1) + 1 = N + 2
    BY <1>1, <1>2
  <2>2. Coming' < s[N + 2]
    BY <1>11
  <2> QED BY <1>2, <1>6, <1>7, <1>9, <1>10, <1>11, <1>12, <2>1, <2>2 DEF IsLayout
<1> QED BY <1>13

\* A message that is parsed is the one that comes next.
LEMMA ParsedIsCurrent ==
  ASSUME TransportInv, reader = "payload", Len(buffer) = size
  PROVE  Len(delivered) < Len(accepted) /\ [id |-> id, body |-> buffer] = Current
<1>1. /\ Len(delivered) < Len(accepted) /\ size = Len(Current.body) /\ id = Current.id
      /\ \A j \in 1..Len(buffer) : buffer[j] = Current.body[j]
      /\ TransportType
  BY DEF TransportInv, ReaderInv
<1>2. Current \in Messages
  BY <1>1, AcceptedFacts, Lengths DEF Current
<1>3. /\ Current.body \in Seq(Nat)
      /\ Current = [id |-> Current.id, body |-> Current.body]
  BY <1>2, TransportAssumption
<1>4. buffer = Current.body
  BY <1>1, <1>3, SeqEqual DEF TransportType
<1> QED BY <1>1, <1>3, <1>4

\* The types, and what the reader has and has not taken, after any step.
LEMMA NextKeepsTransportType ==
  ASSUME TransportInv, [Transport!Next]_(Transport!vars)
  PROVE  TransportType'
<1> USE DEF TransportType
<1>0. TransportType
  BY DEF TransportInv
<1>1. CASE Transport!WriteMessage
  <2>1. PICK m \in Messages :
          IF Transport!Fits(m)
          THEN /\ writer' = "writing" /\ out' = Transport!Frame(m)
               /\ accepted' = Append(accepted, m)
          ELSE writer' = "failed" /\ UNCHANGED <<out, accepted>>
    BY <1>1 DEF Transport!WriteMessage
  <2>2. writer = "idle" /\ UNCHANGED <<reader, buffer, delivered, wire, connection>>
    BY <1>1 DEF Transport!WriteMessage, Transport!readerVars
  <2>3. CASE Transport!Fits(m)
    <3>1. Transport!Frame(m) \in Seq(Nat) /\ Transport!Frame(m) # <<>>
      BY <2>3, FrameFacts
    <3>2. /\ Append(accepted, m) \in Seq({x \in Messages : Transport!Fits(x)})
          /\ Len(Append(accepted, m)) = Len(accepted) + 1
      BY <1>0, <2>3, AppendProperties
    <3>3. Len(delivered) <= Len(accepted) + 1
      BY <1>0, Lengths
    <3> QED BY <1>0, <2>1, <2>2, <2>3, <3>1, <3>2, <3>3
  <2>4. CASE ~Transport!Fits(m)
    BY <1>0, <2>1, <2>2, <2>4
  <2> QED BY <2>3, <2>4
<1>2. CASE Transport!Push
  <2>1. /\ out # <<>> /\ Head(out) \in Nat /\ Tail(out) \in Seq(Nat)
        /\ Append(wire, Head(out)) \in Seq(Nat)
        /\ Len(out) = 1 <=> Tail(out) = <<>>
    <3>1. out # <<>>
      BY <1>0, <1>2 DEF Transport!Push
    <3>2. Head(out) \in Nat /\ Tail(out) \in Seq(Nat) /\ Len(Tail(out)) = Len(out) - 1
      BY <1>0, <3>1, HeadTailProperties
    <3>3. Tail(out) = <<>> <=> Len(Tail(out)) = 0
      BY <3>2, EmptySeq
    <3>4. Len(out) \in Nat
      BY <1>0, Lengths
    <3>5. wire \in Seq(Nat)
      BY <1>0
    <3>6. Append(wire, Head(out)) \in Seq(Nat)
      BY <3>2, <3>5, AppendProperties
    <3>7. Len(out) = 1 <=> Len(Tail(out)) = 0
      BY <3>2, <3>4
    <3> HIDE DEF TransportType
    <3> QED BY <3>1, <3>2, <3>3, <3>6, <3>7
  <2> QED BY <1>0, <1>2, <2>1 DEF Transport!Push, Transport!readerVars
<1>3. CASE Transport!EndWrite
  BY <1>0, <1>3, EmptySeq DEF Transport!EndWrite, Transport!readerVars
<1>4. CASE Transport!Shutdown
  BY <1>0, <1>4 DEF Transport!Shutdown, Transport!writerVars, Transport!readerVars
<1>5. CASE Transport!Break
  <2>1. PICK n \in 0..Len(wire) : wire' = SubSeq(wire, 1, n)
    BY <1>5 DEF Transport!Break
  <2>2. wire' \in Seq(Nat)
    BY <1>0, <2>1, SubSeqProperties, Lengths
  <2> QED BY <1>0, <1>5, <2>2 DEF Transport!Break, Transport!writerVars,
             Transport!readerVars
<1>6. CASE Transport!ReadSize \/ Transport!ReadId \/ Transport!ReadPayload
  <2>1. wire # <<>> /\ Head(wire) \in Nat /\ Tail(wire) \in Seq(Nat)
    BY <1>0, <1>6, HeadTailProperties DEF Transport!ReadSize, Transport!ReadId,
       Transport!ReadPayload
  <2>2. Append(buffer, Head(wire)) \in Seq(Nat) /\ <<>> \in Seq(Nat)
    BY <1>0, <2>1, AppendProperties, EmptySeq
  <2> QED BY <1>0, <1>6, <2>1, <2>2 DEF Transport!ReadSize, Transport!ReadId,
             Transport!ReadPayload, Transport!writerVars
<1>7. CASE Transport!Parse
  <2>1. CASE id \in KnownIds
    <3>1. /\ Len(delivered) < Len(accepted)
          /\ delivered' = Append(delivered, Current)
      BY <1>7, <2>1, ParsedIsCurrent DEF Transport!Parse
    <3>2. Current \in Messages
      BY <1>0, <3>1, AcceptedFacts, Lengths DEF Current
    <3>3. delivered' \in Seq(Messages) /\ Len(delivered') = Len(delivered) + 1
      BY <1>0, <3>1, <3>2, AppendProperties
    <3>4. Len(delivered') <= Len(accepted)
      BY <1>0, <3>1, <3>3, Lengths
    <3> QED BY <1>0, <1>7, <2>1, <3>3, <3>4 DEF Transport!Parse, Transport!writerVars
  <2>2. CASE id \notin KnownIds
    BY <1>0, <1>7, <2>2 DEF Transport!Parse, Transport!writerVars
  <2> QED BY <2>1, <2>2
<1>8. CASE Transport!ReadFails \/ Transport!CancelRead
  BY <1>0, <1>8 DEF Transport!ReadFails, Transport!CancelRead, Transport!writerVars
<1>9. CASE UNCHANGED Transport!vars
  BY <1>0, <1>9 DEF Transport!vars, Transport!writerVars, Transport!readerVars
<1> QED BY <1>1, <1>2, <1>3, <1>4, <1>5, <1>6, <1>7, <1>8, <1>9 DEF Transport!Next,
           Transport!Read

\* A step of the writing end or of the connection, while the reader waits.
LEMMA WriterKeepsTransport ==
  ASSUME TransportInv, TransportType',
         \/ Transport!WriteMessage \/ Transport!Push \/ Transport!EndWrite
         \/ Transport!Shutdown \/ Transport!Break \/ UNCHANGED Transport!vars
  PROVE  TransportInv'
<1>0. TransportType /\ UNCHANGED Transport!readerVars
  BY DEF TransportInv, Transport!WriteMessage, Transport!Push, Transport!EndWrite,
     Transport!Shutdown, Transport!Break, Transport!vars
<1> SUFFICES ASSUME reader # "failed"  PROVE ReaderInv' /\ \E s : IsLayout(s)'
  BY <1>0 DEF TransportInv, Transport!readerVars
<1>1. PICK start : IsLayout(start)
  BY DEF TransportInv
<1>2. /\ Len(wire) \in Nat /\ Len(out) \in Nat /\ Len(accepted) \in Nat
      /\ Len(delivered) \in Nat /\ Coming \in Nat
  BY <1>0, Lengths
<1>3. UNCHANGED <<reader, size, id, buffer, delivered>> /\ Taken' = Taken
  BY <1>0 DEF Transport!readerVars, Taken
<1>4. CASE Transport!WriteMessage
  <2>1. PICK m \in Messages :
          IF Transport!Fits(m)
          THEN /\ writer' = "writing" /\ out' = Transport!Frame(m)
               /\ accepted' = Append(accepted, m)
          ELSE writer' = "failed" /\ UNCHANGED <<out, accepted>>
    BY <1>4 DEF Transport!WriteMessage
  <2>2. /\ writer = "idle" /\ connection = "open"
        /\ UNCHANGED <<Transport!readerVars, wire, connection>>
    BY <1>4 DEF Transport!WriteMessage
  <2>3. CASE Transport!Fits(m)
    <3>1. \E s : IsLayout(s)'
      BY <1>0, <1>1, <2>1, <2>2, <2>3, LayoutIsExtended
    <3>2. /\ Len(accepted') = Len(accepted) + 1
          /\ \A i \in 1..Len(accepted) : accepted'[i] = accepted[i]
      <4>1. /\ m \in {x \in Messages : Transport!Fits(x)}
            /\ accepted \in Seq({x \in Messages : Transport!Fits(x)})
        BY <1>0, <2>3 DEF TransportType
      <4>2. accepted' = Append(accepted, m)
        BY <2>1, <2>3
      <4> QED BY <4>1, <4>2, AppendProperties
    <3>3. Len(delivered) < Len(accepted) => Current' = Current /\ Len(delivered) < Len(accepted')
      <4>1. Len(delivered) < Len(accepted) => Len(delivered) + 1 \in 1..Len(accepted)
        BY <1>2
      <4> QED BY <1>2, <1>3, <3>2, <4>1 DEF Current
    <3> QED BY <1>3, <3>1, <3>3 DEF TransportInv, ReaderInv
  <2>4. CASE ~Transport!Fits(m)
    <3>1. Coming' = Coming /\ \A k : Flow(k)' = Flow(k)
      BY <2>1, <2>2, <2>4 DEF Coming, Flow
    <3>2. IsLayout(start)'
      BY <1>0, <1>1, <1>2, <1>3, <2>1, <2>4, <3>1, LayoutIsKept
    <3> QED BY <1>3, <2>1, <2>4, <3>2 DEF TransportInv, ReaderInv, Current
  <2> QED BY <2>3, <2>4
<1>5. ASSUME UNCHANGED accepted, \E s : IsLayout(s)'
      PROVE  ReaderInv' /\ \E s : IsLayout(s)'
  BY <1>3, <1>5 DEF TransportInv, ReaderInv, Current
<1>6. CASE Transport!Push
  <2>1. /\ writer = "writing" /\ connection = "open" /\ UNCHANGED <<connection, accepted>>
        /\ wire' = Append(wire, Head(out)) /\ out' = Tail(out) /\ out # <<>>
    BY <1>0, <1>6 DEF Transport!Push, TransportType
  <2>2. /\ Len(wire') = Len(wire) + 1 /\ wire'[Len(wire) + 1] = Head(out)
        /\ \A k \in 1..Len(wire) : wire'[k] = wire[k]
    BY <1>0, <2>1, AppendProperties, HeadTailProperties DEF TransportType
  <2>3. /\ Len(out') = Len(out) - 1 /\ Head(out) = out[1]
        /\ \A k \in 1..Len(out') : out'[k] = out[k + 1]
    BY <1>0, <2>1, HeadTailProperties DEF TransportType
  <2>4. Coming = Len(wire) + Len(out) /\ Coming' = Len(wire') + Len(out')
    BY <2>1 DEF Coming
  <2>5. Coming' = Coming
    BY <1>2, <2>2, <2>3, <2>4
  <2>6. \A k \in 1..Coming' : Flow(k)' = Flow(k)
    <3> SUFFICES ASSUME NEW k \in 1..Coming'  PROVE Flow(k)' = Flow(k)
      OBVIOUS
    <3>0. k \in 1..(Len(wire) + Len(out))
      BY <2>4, <2>5
    <3>1. CASE k <= Len(wire)
      <4>1. k \in 1..Len(wire) /\ k <= Len(wire')
        BY <1>2, <2>2, <3>0, <3>1
      <4> QED BY <2>2, <4>1 DEF Flow
    <3>2. CASE k = Len(wire) + 1
      <4>1. k - Len(wire) = 1 /\ ~(k <= Len(wire)) /\ k <= Len(wire')
        BY <1>2, <2>2, <3>2
      <4> QED BY <2>2, <2>3, <3>2, <4>1 DEF Flow
    <3>3. CASE k > Len(wire) + 1
      <4>1. /\ k - Len(wire') \in 1..Len(out') /\ (k - Len(wire')) + 1 = k - Len(wire)
            /\ ~(k <= Len(wire)) /\ ~(k <= Len(wire'))
        BY <1>2, <2>2, <2>3, <3>0, <3>3
      <4> QED BY <2>3, <4>1 DEF Flow
    <3> QED BY <1>2, <3>0, <3>1, <3>2, <3>3
  <2>7. IsLayout(start)'
    BY <1>0, <1>1, <1>2, <1>3, <2>1, <2>5, <2>6, LayoutIsKept
  <2> QED BY <1>5, <2>1, <2>7
<1>7. CASE Transport!EndWrite
  <2>1. writer' = "failed" /\ out' = <<>> /\ UNCHANGED <<wire, connection, accepted>>
    BY <1>7 DEF Transport!EndWrite
  <2>2. Coming' = Len(wire) /\ Coming' <= Coming
    BY <1>2, <2>1, EmptySeq DEF Coming
  <2>3. \A k \in 1..Coming' : Flow(k)' = Flow(k)
    BY <2>1, <2>2 DEF Flow
  <2>4. IsLayout(start)'
    BY <1>0, <1>1, <1>2, <1>3, <2>1, <2>2, <2>3, LayoutIsKept
  <2> QED BY <1>5, <2>1, <2>4
<1>8. CASE Transport!Shutdown
  <2>1. writer' = "failed" /\ UNCHANGED <<out, wire, accepted>> /\ out = <<>>
    BY <1>0, <1>8 DEF Transport!Shutdown, Transport!writerVars, TransportType
  <2>2. Coming' = Coming /\ \A k : Flow(k)' = Flow(k)
    BY <1>2, <2>1, EmptySeq DEF Coming, Flow
  <2>3. IsLayout(start)'
    BY <1>0, <1>1, <1>2, <1>3, <2>1, <2>2, LayoutIsKept
  <2> QED BY <1>5, <2>1, <2>3
<1>9. CASE Transport!Break
  <2>1. PICK n \in 0..Len(wire) : wire' = SubSeq(wire, 1, n)
    BY <1>9 DEF Transport!Break
  <2>2. connection' = "broken" /\ UNCHANGED <<writer, out, accepted>>
    BY <1>9 DEF Transport!Break, Transport!writerVars
  <2>3. Len(wire') = n /\ \A k \in 1..n : wire'[k] = wire[k]
    <3>1. \A k \in 1..n : wire[k] \in Nat
      <4>1. \A k \in 1..n : k \in 1..Len(wire)
        BY <1>2
      <4> QED BY <1>0, <4>1, ElementOfSeq DEF TransportType
    <3> QED BY <1>2, <2>1, <3>1, SubSeqProperties
  <2>4. Coming' = n /\ n \in 0..Coming
    BY <1>2, <2>2, <2>3 DEF Coming
  <2>5. \A k \in 1..Coming' : Flow(k)' = Flow(k)
    BY <1>2, <2>3, <2>4 DEF Flow
  <2>6. IsLayout(start)'
    BY <1>0, <1>1, <1>2, <1>3, <2>2, <2>4, <2>5, LayoutIsKept
  <2> QED BY <1>5, <2>2, <2>6
<1>10. CASE UNCHANGED Transport!vars
  BY <1>1, <1>5, <1>10, ZenonT(40)
  DEF Transport!vars, Transport!writerVars, Transport!readerVars, IsLayout, Coming, Flow,
  Taken
<1> QED BY <1>4, <1>6, <1>7, <1>8, <1>9, <1>10

\* A step of the reading end: what it takes is what the frame has next.
LEMMA ReaderKeepsTransport ==
  ASSUME TransportInv, TransportType', Transport!Read \/ Transport!CancelRead
  PROVE  TransportInv'
<1>0. TransportType
  BY DEF TransportInv
<1> SUFFICES ASSUME reader' # "failed"  PROVE ReaderInv' /\ \E s : IsLayout(s)'
  BY DEF TransportInv
<1>1. reader # "failed"
  BY DEF Transport!Read, Transport!ReadSize, Transport!ReadId, Transport!ReadPayload,
     Transport!Parse, Transport!ReadFails, Transport!CancelRead
<1>2. PICK start : IsLayout(start)
  BY <1>1 DEF TransportInv
<1>3. Len(buffer) \in Nat /\ Len(delivered) \in Nat /\ Len(accepted) \in Nat
  BY <1>0, Lengths
<1>4. CASE Transport!ReadSize
  <2>1. /\ reader = "size" /\ wire # <<>> /\ size' = Head(wire) /\ wire' = Tail(wire)
        /\ reader' = "id"
        /\ UNCHANGED <<writer, out, accepted, connection, id, buffer, delivered>>
    BY <1>4 DEF Transport!ReadSize, Transport!writerVars
  <2>2. Taken = 0 /\ Taken' = Taken + 1
    BY <2>1 DEF Taken
  <2>3. /\ Len(delivered) < Len(accepted)
        /\ Current \in Messages /\ Transport!Fits(Current)
        /\ Head(wire) = Transport!Frame(Current)[1]
    BY <1>1, <2>1, <2>2, NextNumber
  <2>4. size' = Len(Current.body) /\ Current' = Current
    BY <2>1, <2>3, FrameFacts DEF Current
  <2>5. \E s : IsLayout(s)'
    BY <1>0, <1>2, <2>1, <2>2, LayoutMovesUp
  <2> QED BY <2>1, <2>3, <2>4, <2>5 DEF ReaderInv
<1>5. CASE Transport!ReadId
  <2>1. /\ reader = "id" /\ wire # <<>> /\ id' = Head(wire) /\ wire' = Tail(wire)
        /\ reader' = "payload" /\ buffer' = <<>>
        /\ UNCHANGED <<writer, out, accepted, connection, size, delivered>>
    BY <1>5 DEF Transport!ReadId, Transport!writerVars
  <2>2. Taken = 1 /\ Taken' = Taken + 1
    BY <2>1, EmptySeq DEF Taken
  <2>3. /\ Len(delivered) < Len(accepted)
        /\ Current \in Messages /\ Transport!Fits(Current)
        /\ Head(wire) = Transport!Frame(Current)[2]
    BY <1>1, <2>1, <2>2, NextNumber
  <2>4. /\ id' = Current.id /\ Current' = Current
        /\ size = Len(Current.body) /\ Len(Current.body) \in Nat
    BY <1>1, <2>1, <2>3, FrameFacts DEF Current, TransportInv, ReaderInv
  <2>5. \E s : IsLayout(s)'
    BY <1>0, <1>2, <2>1, <2>2, LayoutMovesUp
  <2> QED BY <2>1, <2>3, <2>4, <2>5, EmptySeq DEF ReaderInv
<1>6. CASE Transport!ReadPayload
  <2>1. /\ reader = "payload" /\ Len(buffer) < size /\ wire # <<>>
        /\ buffer' = Append(buffer, Head(wire)) /\ wire' = Tail(wire)
        /\ UNCHANGED <<writer, out, accepted, connection, reader, size, id, delivered>>
    BY <1>6 DEF Transport!ReadPayload, Transport!writerVars
  <2>2. /\ id = Current.id /\ size = Len(Current.body)
        /\ \A j \in 1..Len(buffer) : buffer[j] = Current.body[j]
    BY <1>1, <2>1 DEF TransportInv, ReaderInv
  <2>3. Head(wire) \in Nat
    BY <1>0, <2>1, HeadTailProperties DEF TransportType
  <2>4. /\ Len(buffer') = Len(buffer) + 1 /\ buffer'[Len(buffer) + 1] = Head(wire)
        /\ \A j \in 1..Len(buffer) : buffer'[j] = buffer[j]
    BY <1>0, <2>1, <2>3, AppendProperties DEF TransportType
  <2>5. Taken = 2 + Len(buffer) /\ Taken' = Taken + 1
    BY <1>3, <2>1, <2>4 DEF Taken
  <2>6. /\ Len(delivered) < Len(accepted)
        /\ Current \in Messages /\ Transport!Fits(Current)
        /\ Head(wire) = Transport!Frame(Current)[Taken + 1]
    BY <1>1, <2>1, NextNumber
  <2>7. size \in Nat
    BY <2>2, <2>6, FrameFacts
  <2>8. Head(wire) = Current.body[Len(buffer) + 1]
    <3>1. Len(buffer) + 1 \in 1..Len(Current.body) /\ Taken + 1 = (Len(buffer) + 1) + 2
      BY <1>3, <2>1, <2>2, <2>5, <2>7
    <3> QED BY <2>6, <3>1, FrameFacts
  <2>9. \A j \in 1..Len(buffer') : buffer'[j] = Current.body[j]
    BY <1>3, <2>2, <2>4, <2>8
  <2>10. Len(buffer') <= size
    BY <1>3, <2>1, <2>4, <2>7
  <2>11. \E s : IsLayout(s)'
    BY <1>0, <1>2, <2>1, <2>5, LayoutMovesUp
  <2>12. Current' = Current
    BY <2>1 DEF Current
  <2> QED BY <2>1, <2>2, <2>6, <2>9, <2>10, <2>11, <2>12 DEF ReaderInv
<1>7. CASE Transport!Parse
  <2>1. /\ reader = "payload" /\ Len(buffer) = size /\ reader' = "size"
        /\ delivered' = Append(delivered, Current)
        /\ UNCHANGED <<writer, out, wire, connection, accepted>>
    BY <1>7, ParsedIsCurrent DEF Transport!Parse, Transport!writerVars
  <2>2. Len(delivered') = Len(delivered) + 1
    <3>1. Current \in Messages
      BY <1>0, <1>3, <2>1, ParsedIsCurrent, AcceptedFacts DEF Current
    <3> QED BY <1>0, <2>1, <3>1, AppendProperties DEF TransportType
  <2>3. IsLayout(start)'
    BY <1>2, <2>1, <2>2, LayoutGoesOn
  <2> QED BY <2>1, <2>3 DEF ReaderInv
<1> QED BY <1>4, <1>5, <1>6, <1>7 DEF Transport!Read, Transport!ReadFails,
           Transport!CancelRead

\* A connection that has carried nothing.
LEMMA InitTransport == Transport!Init => TransportInv
<1> SUFFICES ASSUME Transport!Init  PROVE TransportInv
  OBVIOUS
<1> DEFINE s == [i \in 1..1 |-> 1]
<1>1. /\ <<>> \in Seq(Nat) /\ <<>> \in Seq(Messages) /\ Len(<<>>) = 0
      /\ <<>> \in Seq({m \in Messages : Transport!Fits(m)})
  BY EmptySeq
<1>2. TransportType
  BY <1>1 DEF Transport!Init, TransportType
<1>3. Coming = 0 /\ Taken = 0 /\ Len(accepted) = 0 /\ Len(delivered) = 0
  BY <1>1 DEF Transport!Init, Coming, Taken
<1>4. s \in [1..(0 + 1) -> Int] /\ s[0 + 1] = 1
  OBVIOUS
<1> HIDE DEF s
<1>5. IsLayout(s)
  BY <1>3, <1>4 DEF IsLayout
<1> QED BY <1>2, <1>5 DEF Transport!Init, TransportInv, ReaderInv

\* What the reader has parsed and what it has yet to take are the frames of the
\* accepted messages, in every state.
THEOREM TransportInvariant == Transport!Spec => []TransportInv
<1>1. TransportInv /\ [Transport!Next]_(Transport!vars) => TransportInv'
  BY NextKeepsTransportType, WriterKeepsTransport, ReaderKeepsTransport DEF Transport!Next
<1> QED BY <1>1, InitTransport, PTL DEF Transport!Spec

\* Every step of the transport is one of the message channel, or none of its.
LEMMA TransportStepIsChannelStep ==
  ASSUME TransportInv, [Transport!Next]_(Transport!vars)
  PROVE  [Transport!Channel!Accept \/ Transport!Channel!Deliver
            \/ Transport!Channel!Close]_<<accepted, delivered, writer # "failed">>
<1> USE DEF Transport!Channel!Accept, Transport!Channel!Deliver, Transport!Channel!Close
<1>1. CASE Transport!WriteMessage
  BY <1>1 DEF Transport!WriteMessage, Transport!readerVars
<1>2. CASE Transport!EndWrite
  BY <1>2 DEF Transport!EndWrite, Transport!readerVars
<1>3. CASE Transport!Parse
  <2>1. CASE id \in KnownIds
    <3>1. Len(delivered) < Len(accepted) /\ delivered' = Append(delivered, Current)
      BY <1>3, <2>1, ParsedIsCurrent DEF Transport!Parse
    <3> QED BY <1>3, <3>1 DEF Transport!Parse, Current, Transport!writerVars
  <2>2. CASE id \notin KnownIds
    BY <1>3, <2>2 DEF Transport!Parse, Transport!writerVars
  <2> QED BY <2>1, <2>2
<1>4. CASE Transport!Push
  BY <1>4 DEF Transport!Push, Transport!readerVars
<1>5. CASE \/ Transport!Shutdown \/ Transport!Break \/ Transport!ReadSize
           \/ Transport!ReadId \/ Transport!ReadPayload \/ Transport!ReadFails \/ Transport!CancelRead
           \/ UNCHANGED Transport!vars
  BY <1>5 DEF Transport!Shutdown, Transport!Break, Transport!ReadSize, Transport!ReadId,
     Transport!ReadPayload, Transport!ReadFails, Transport!CancelRead, Transport!vars,
              Transport!writerVars, Transport!readerVars
<1> QED BY <1>1, <1>2, <1>3, <1>4, <1>5 DEF Transport!Next, Transport!Read

\* The transport implements the channel that its two ends rely on.
THEOREM TransportIsAChannel == Transport!Spec => Transport!ChannelPromise
<1>1. Transport!Init => Transport!Channel!ChannelInit
  BY DEF Transport!Init, Transport!Channel!ChannelInit
<1> QED BY <1>1, TransportStepIsChannelStep, TransportInvariant, PTL
       DEF Transport!Spec, Transport!ChannelPromise, Transport!Channel!ChannelSpec

-----------------------------------------------------------------------------
\* The configuration files.

\* What the files, and the presenters' copy of one, may hold.  The window's has an id.
NamedConfig == {config \in AnyConfig : config.id # 0}
Contents == AnyConfig \cup {Absent, Bad}
Gui      == [config : NamedConfig, path : Path \cup {NoPath}, runtime : Path \cup {NoPath}]
Worlds   == [files : [Path -> Contents], ids : Nat, gui : Gui]

SettingsInv ==
  /\ Files!World \in Worlds
  /\ \/ run = Files!Idle
     \/ run \in [by : {"gui", "cli"}, mode : Files!Mode, config : AnyConfig, path : Path]

\* A damaged file of the one world is damaged in the other.
KeepsDamage(w, v) == \A p \in Path : w.files[p] = Bad => v.files[p] = Bad

\* A config without an id gets one, and a config with an id stays as it is.
LEMMA ConfigFacts ==
  ASSUME NEW w \in Worlds, NEW config \in AnyConfig
  PROVE  /\ Files!EnsureMachineId(w, config) \in NamedConfig
         /\ Files!IdsAfter(w, config) \in Nat
         /\ config \in NamedConfig => Files!EnsureMachineId(w, config) = config
<1>1. w.ids \in Nat
  BY DEF Worlds
<1>2. CASE config.id = 0
  <2> DEFINE named == [config EXCEPT !.id = w.ids + 1]
  <2>1. Files!EnsureMachineId(w, config) = named
    BY <1>2 DEF Files!EnsureMachineId
  <2>2. named \in AnyConfig /\ named.id = w.ids + 1 /\ w.ids + 1 # 0
    BY <1>1 DEF AnyConfig
  <2> HIDE DEF named
  <2>3. named \in NamedConfig /\ config \notin NamedConfig
    BY <1>2, <2>2 DEF NamedConfig
  <2>4. Files!IdsAfter(w, config) \in Nat
    BY <1>1, <1>2 DEF Files!IdsAfter
  <2> QED BY <2>1, <2>3, <2>4
<1>3. CASE config.id # 0
  BY <1>1, <1>3 DEF NamedConfig, Files!EnsureMachineId, Files!IdsAfter
<1> QED BY <1>2, <1>3

\* A new config, with an id or without.
LEMMA NoLayoutIsConfig == \A n \in Nat : [id |-> n, layout |-> Files!NoLayout] \in AnyConfig
BY DEF AnyConfig, Files!NoLayout, Files!Layout

LEMMA NoLayoutIsNamed ==
  \A n \in Nat : [id |-> n + 1, layout |-> Files!NoLayout] \in NamedConfig
BY NoLayoutIsConfig DEF NamedConfig

\* Another layout leaves a config its id.
LEMMA OtherLayout ==
  ASSUME NEW config \in NamedConfig, NEW layout \in Files!Layout
  PROVE  [config EXCEPT !.layout = layout] \in NamedConfig
BY DEF NamedConfig, AnyConfig

\* A save writes one file.
LEMMA SaveFacts ==
  ASSUME NEW w \in Worlds, NEW p \in Path, NEW config \in AnyConfig, p \notin ReadOnly
  PROVE  LET saved == Files!SaveConfig(w, p, config)
         IN /\ saved.ok /\ saved.config = config
            /\ saved.world \in Worlds /\ saved.world.gui = w.gui
            /\ saved.world.files = [w.files EXCEPT ![p] = config]
BY DEF Files!SaveConfig, Files!Loaded, Worlds, Contents

\* The same, said of the variables.
LEMMA SaveHere ==
  ASSUME Files!World \in Worlds, Files!World.files = files, Files!World.gui = gui,
         NEW p \in Path, p \notin ReadOnly, NEW config \in AnyConfig
  PROVE  LET saved == Files!SaveConfig(Files!World, p, config)
         IN /\ saved.ok /\ saved.world \in Worlds /\ saved.world.gui = gui
            /\ saved.world.files = [files EXCEPT ![p] = config]
<1> DEFINE w == Files!World
<1>1. w \in Worlds /\ w.files = files /\ w.gui = gui
  OBVIOUS
<1> HIDE DEF w
<1>2. LET saved == Files!SaveConfig(w, p, config)
      IN /\ saved.ok /\ saved.world \in Worlds /\ saved.world.gui = w.gui
         /\ saved.world.files = [w.files EXCEPT ![p] = config]
  BY <1>1, SaveFacts
<1>3. [w.files EXCEPT ![p] = config] = [files EXCEPT ![p] = config]
  BY <1>1
<1>4. LET saved == Files!SaveConfig(w, p, config)
      IN /\ saved.ok /\ saved.world \in Worlds /\ saved.world.gui = gui
         /\ saved.world.files = [files EXCEPT ![p] = config]
  BY <1>1, <1>2, <1>3
<1> QED BY <1>4 DEF w

\* A load keeps damaged files and those of other paths; what it returns has an id and
\* is then what the file holds.  A file with an id is left as it is.
LEMMA LoadFacts ==
  ASSUME NEW w \in Worlds, NEW p \in Path
  PROVE  LET result == Files!LoadOrCreateConfig(w, p)
         IN /\ result.world \in Worlds /\ result.config \in AnyConfig
            /\ result.world.gui = w.gui
            /\ KeepsDamage(w, result.world)
            /\ result.ok => /\ result.world.files[p] = result.config
                            /\ result.config \in NamedConfig
            /\ w.files[p] \in AnyConfig /\ p \notin ReadOnly => result.ok
            /\ w.files[p] \in NamedConfig =>
                 result.ok /\ result.config = w.files[p] /\ result.world = w
            /\ \A q \in Path : q # p => result.world.files[q] = w.files[q]
<1> DEFINE old    == IF w.files[p] = Absent THEN [id |-> 0, layout |-> Files!NoLayout]
                     ELSE w.files[p]
           config == Files!EnsureMachineId(w, old)
           after  == [w EXCEPT !.ids = Files!IdsAfter(w, old)]
           result == Files!LoadOrCreateConfig(w, p)
<1>1. result = IF w.files[p] = Bad THEN Files!Failed(w)
               ELSE IF config = w.files[p] THEN Files!Loaded(w, config)
               ELSE Files!SaveConfig(after, p, config)
  BY DEF Files!LoadOrCreateConfig
<1>2. w.files[p] \in Contents
  BY DEF Worlds
<1>3. CASE w.files[p] = Bad
  <2>1. /\ result.world = w /\ ~result.ok
        /\ result.config = [id |-> 0, layout |-> Files!NoLayout]
    BY <1>1, <1>3 DEF Files!Failed
  <2>2. w.files[p] \notin AnyConfig
    BY <1>3, SettingsAssumption
  <2> QED BY <2>1, <2>2, NoLayoutIsConfig DEF KeepsDamage, NamedConfig
<1>4. CASE w.files[p] # Bad
  <2>1. old \in AnyConfig
    BY <1>2, <1>4, NoLayoutIsConfig DEF Contents
  <2>0. w.files[p] \in NamedConfig => old = w.files[p]
    BY SettingsAssumption DEF NamedConfig
  <2> HIDE DEF old
  <2>2. /\ config \in NamedConfig /\ config \in AnyConfig /\ Files!IdsAfter(w, old) \in Nat
        /\ w.files[p] \in NamedConfig => config = w.files[p]
    BY <2>0, <2>1, ConfigFacts DEF NamedConfig
  <2>3. after \in Worlds /\ after.files = w.files /\ after.gui = w.gui
    BY <2>2 DEF Worlds
  <2> HIDE DEF config, after
  <2>4. CASE config = w.files[p]
    BY <1>1, <1>4, <2>2, <2>4 DEF Files!Loaded, KeepsDamage
  <2>5. CASE config # w.files[p] /\ p \in ReadOnly
    <3>1. /\ result.world = after /\ ~result.ok
          /\ result.config = [id |-> 0, layout |-> Files!NoLayout]
      BY <1>1, <1>4, <2>5 DEF Files!SaveConfig, Files!Failed
    <3> QED BY <2>2, <2>3, <2>5, <3>1, NoLayoutIsConfig DEF KeepsDamage
  <2>6. CASE config # w.files[p] /\ p \notin ReadOnly
    <3>1. result = Files!SaveConfig(after, p, config)
      BY <1>1, <1>4, <2>6
    <3>2. /\ result.ok /\ result.config = config
          /\ result.world \in Worlds /\ result.world.gui = after.gui
          /\ result.world.files = [after.files EXCEPT ![p] = config]
      BY <2>2, <2>3, <2>6, <3>1, SaveFacts
    <3>3. w.files \in [Path -> Contents]
      BY DEF Worlds
    <3>4. KeepsDamage(w, result.world)
      BY <1>4, <2>3, <3>2, <3>3 DEF KeepsDamage
    <3>5. w.files[p] \notin NamedConfig /\ result.config \in NamedConfig
      BY <2>2, <2>6, <3>2
    <3>6. /\ result.world.files[p] = result.config
          /\ \A q \in Path : q # p => result.world.files[q] = w.files[q]
      BY <2>3, <3>2, <3>3
    <3> QED BY <2>2, <2>3, <3>2, <3>4, <3>5, <3>6
  <2> QED BY <2>4, <2>5, <2>6
<1> QED BY <1>3, <1>4

\* Loading a path changes no damaged file, and makes the settings those of the
\* file.
LEMMA LoadPathFacts ==
  ASSUME NEW w \in Worlds, NEW p \in Path \cup {NoPath}
  PROVE  LET v == Files!LoadConfigPath(w, p)
         IN /\ v \in Worlds /\ KeepsDamage(w, v)
            /\ v.gui.runtime = w.gui.runtime
            /\ p \in Path /\ w.files[p] \in AnyConfig /\ p \notin ReadOnly =>
                 v.files[p] = v.gui.config
            /\ p \in Path /\ w.files[p] = w.gui.config =>
                 v.files[p] = v.gui.config
<1> DEFINE result == Files!LoadOrCreateConfig(w, p)
           v == Files!LoadConfigPath(w, p)
<1>1. v = IF p = NoPath \/ ~result.ok THEN w
          ELSE [result.world EXCEPT !.gui = [@ EXCEPT !.config = result.config, !.path = p]]
  BY DEF Files!LoadConfigPath
<1>2. CASE p = NoPath
  BY <1>1, <1>2, SettingsAssumption DEF KeepsDamage
<1>3. CASE p # NoPath
  <2>0. p \in Path
    BY <1>3
  <2>1. /\ result.world \in Worlds /\ result.config \in AnyConfig
        /\ result.world.gui = w.gui
        /\ KeepsDamage(w, result.world)
        /\ result.ok => /\ result.world.files[p] = result.config
                        /\ result.config \in NamedConfig
        /\ w.files[p] \in AnyConfig /\ p \notin ReadOnly => result.ok
        /\ w.files[p] \in NamedConfig => result.ok
    BY <2>0, LoadFacts
  <2>4. w.gui.config \in NamedConfig
    BY DEF Worlds, Gui
  <2> HIDE DEF result
  <2>2. CASE result.ok
    <3>1. v = [result.world EXCEPT !.gui = [@ EXCEPT !.config = result.config, !.path = p]]
      BY <1>1, <1>3, <2>2
    <3>2. v \in Worlds /\ v.files = result.world.files /\ v.gui.config = result.config
          /\ v.gui.runtime = w.gui.runtime
      <4> DEFINE g == [result.world.gui EXCEPT !.config = result.config, !.path = p]
      <4>1. result.world.gui \in Gui
        BY <2>1 DEF Worlds
      <4>2. g \in Gui /\ g.config = result.config /\ g.runtime = w.gui.runtime
        BY <2>0, <2>1, <2>2, <4>1 DEF Gui
      <4>3. v = [result.world EXCEPT !.gui = g]
        BY <3>1
      <4> HIDE DEF g, v
      <4> QED BY <2>1, <4>2, <4>3 DEF Worlds
    <3> QED BY <2>1, <2>2, <3>2 DEF KeepsDamage
  <2>3. CASE ~result.ok
    BY <1>1, <2>1, <2>3, <2>4 DEF KeepsDamage
  <2> QED BY <2>2, <2>3
<1> QED BY <1>2, <1>3

\* A published config that its file holds is what the runtime will read.
LEMMA PublishFacts ==
  ASSUME NEW w \in Worlds
  PROVE  LET v == Files!PublishConfig(w)
         IN /\ v \in Worlds /\ KeepsDamage(w, v)
            /\ w.gui.path \in Path \ ReadOnly /\ w.files[w.gui.path] = w.gui.config =>
                 v.gui.runtime = w.gui.path /\ v.files[v.gui.runtime] = v.gui.config
<1> DEFINE path == w.gui.path
           u == [w EXCEPT !.gui = [@ EXCEPT !.runtime = path]]
<1>1. /\ u \in Worlds /\ u.files = w.files /\ u.gui.runtime = path
      /\ path \in Path \cup {NoPath} /\ w.gui.config \in AnyConfig
  BY DEF Worlds, Gui, NamedConfig
<1>2. Files!PublishConfig(w) = IF w.gui.runtime = path THEN w ELSE Files!LoadConfigPath(u, path)
  BY DEF Files!PublishConfig
<1> HIDE DEF u
<1>3. CASE w.gui.runtime = path
  BY <1>2, <1>3 DEF KeepsDamage
<1>4. CASE w.gui.runtime # path
  BY <1>1, <1>2, <1>4, LoadPathFacts DEF KeepsDamage
<1> QED BY <1>3, <1>4

\* A world with another config and path in the settings.
LEMMA SetConfigFacts ==
  ASSUME NEW w \in Worlds, NEW config \in NamedConfig, NEW p \in Path \cup {NoPath}
  PROVE  LET v == Files!SetConfig(w, config, p)
         IN /\ v \in Worlds /\ v.files = w.files
            /\ v.gui.config = config /\ v.gui.path = p
<1> DEFINE g == [w.gui EXCEPT !.config = config, !.path = p]
<1>1. g \in Gui /\ g.config = config /\ g.path = p
  BY DEF Worlds, Gui
<1>2. Files!SetConfig(w, config, p) = [w EXCEPT !.gui = g]
  BY DEF Files!SetConfig
<1> HIDE DEF g
<1> QED BY <1>1, <1>2 DEF Worlds

\* The program starts over the files as they are.
LEMMA StartedFacts ==
  ASSUME NEW contents \in [Path -> Contents], NEW n \in Nat
  PROVE  /\ Files!Started(contents, n) \in Worlds
         /\ \A p \in Path : contents[p] = Bad => Files!Started(contents, n).files[p] = Bad
<1> DEFINE w == [files |-> contents, ids |-> n + 1,
                 gui |-> [config |-> [id |-> n + 1, layout |-> Files!NoLayout],
                          path |-> NoPath, runtime |-> DefaultPath]]
<1>1. w \in Worlds /\ w.files = contents
  BY NoLayoutIsNamed, SettingsAssumption DEF Worlds, Gui
<1>2. Files!Started(contents, n) = Files!LoadConfigPath(w, DefaultPath)
  BY DEF Files!Started
<1> HIDE DEF w
<1> QED BY <1>1, <1>2, LoadPathFacts, SettingsAssumption DEF KeepsDamage

\* The variables become those of a world.
LEMMA BecomeFacts ==
  ASSUME NEW w \in Worlds, Files!Become(w)
  PROVE  Files!World' = w
BY DEF Files!Become, Files!World, Worlds

\* The program starts on files that are absent, damaged or without an id.
LEMMA InitSettings == Files!Init => SettingsInv
<1> SUFFICES ASSUME Files!Init  PROVE SettingsInv
  OBVIOUS
<1>1. PICK contents \in [Path -> {Absent, Bad, [id |-> 0, layout |-> Files!NoLayout]}] :
        LET w == Files!Started(contents, 0)
        IN files = w.files /\ ids = w.ids /\ gui = w.gui
  BY DEF Files!Init
<1>2. contents \in [Path -> Contents]
  BY NoLayoutIsConfig DEF Contents
<1>3. Files!Started(contents, 0) \in Worlds
  BY <1>2, StartedFacts
<1>4. Files!World = Files!Started(contents, 0)
  BY <1>1, <1>3 DEF Files!World, Worlds
<1> QED BY <1>3, <1>4 DEF Files!Init, SettingsInv

\* The config of a world that is damaged nowhere it was not, with all a step of
\* the window needs.
LEMMA WorldFacts ==
  ASSUME Files!World \in Worlds
  PROVE  /\ files \in [Path -> Contents] /\ ids \in Nat /\ gui \in Gui
         /\ Files!World.files = files /\ Files!World.gui = gui
         /\ gui.config \in NamedConfig /\ gui.config \in AnyConfig
         /\ gui.path \in Path \cup {NoPath} /\ gui.runtime \in Path \cup {NoPath} /\ gui.config.layout \in Files!Layout
BY DEF Files!World, Worlds, Gui, AnyConfig, NamedConfig

\* What a step does to the files: only a save, a server or the user's hand
\* replaces a damaged one.
LEMMA SettingsStep ==
  ASSUME SettingsInv, [Files!Next]_(Files!vars)
  PROVE  /\ SettingsInv'
         /\ \A p \in Path :
              files[p] = Bad /\ files'[p] # Bad =>
                \/ Files!Save /\ p = gui.path
                \/ Files!SaveAs(p) \/ Files!EditByHand(p)
                \/ p = run.path /\ run.mode = "server"
<1>0. /\ Files!World \in Worlds
      /\ files \in [Path -> Contents] /\ ids \in Nat /\ gui \in Gui
      /\ Files!World.files = files /\ Files!World.gui = gui
      /\ gui.config \in NamedConfig /\ gui.config \in AnyConfig
      /\ gui.path \in Path \cup {NoPath} /\ gui.runtime \in Path \cup {NoPath} /\ gui.config.layout \in Files!Layout
  BY WorldFacts DEF SettingsInv
<1>1. ASSUME NEW w \in Worlds, Files!Become(w), UNCHANGED run
      PROVE  SettingsInv' /\ files' = w.files
  <2>1. Files!World' = w
    BY <1>1, BecomeFacts
  <2> QED BY <1>1, <2>1 DEF SettingsInv, Files!Become
<1>2. ASSUME NEW w \in Worlds, NEW v \in Worlds, KeepsDamage(w, v),
             Files!Become(v), UNCHANGED run,
             \A p \in Path : files[p] = Bad => w.files[p] = Bad
      PROVE  SettingsInv' /\ \A p \in Path : files[p] = Bad => files'[p] = Bad
  BY <1>1, <1>2 DEF KeepsDamage
<1>3. CASE Files!CreateNew
  <2> DEFINE u == [Files!World EXCEPT !.ids = @ + 1]
             w == Files!SetConfig(u, Files!NewConfig(Files!World), NoPath)
  <2>1. u \in Worlds /\ u.files = files /\ Files!NewConfig(Files!World) \in NamedConfig
    BY <1>0, NoLayoutIsNamed DEF Worlds, Files!World, Files!NewConfig
  <2> HIDE DEF u
  <2>2. w \in Worlds /\ w.files = files
    BY <2>1, SetConfigFacts
  <2>3. Files!Become(Files!PublishConfig(w)) /\ UNCHANGED run
    BY <1>3 DEF Files!CreateNew, u
  <2> HIDE DEF w
  <2> QED BY <1>2, <2>2, <2>3, PublishFacts
<1>4. ASSUME NEW q \in Path, Files!ImportConfig(q)
      PROVE  SettingsInv' /\ \A p \in Path : files[p] = Bad => files'[p] = Bad
  <2> DEFINE config == Files!EnsureMachineId(Files!World, files[q])
             u == [Files!World EXCEPT !.ids = Files!IdsAfter(Files!World, files[q])]
             w == Files!SetConfig(u, config, q)
  <2>1. files[q] \in AnyConfig
    BY <1>0, <1>4 DEF Files!ImportConfig, Files!Readable, Contents
  <2>2. config \in NamedConfig /\ Files!IdsAfter(Files!World, files[q]) \in Nat
    BY <1>0, <2>1, ConfigFacts
  <2>3. u \in Worlds /\ u.files = files
    BY <1>0, <2>2 DEF Worlds, Files!World
  <2>4. Files!Become(Files!PublishConfig(w)) /\ UNCHANGED run
    BY <1>4 DEF Files!ImportConfig
  <2> HIDE DEF u, config
  <2>5. w \in Worlds /\ w.files = files
    BY <2>2, <2>3, SetConfigFacts
  <2> HIDE DEF w
  <2> QED BY <1>2, <2>4, <2>5, PublishFacts
<1>5. ASSUME NEW q \in Path, Files!SaveConfig(Files!World, q, gui.config).ok
      PROVE  /\ Files!SaveConfig(Files!World, q, gui.config).world \in Worlds
             /\ Files!SaveConfig(Files!World, q, gui.config).world.gui = gui
             /\ Files!SaveConfig(Files!World, q, gui.config).world.files =
                  [files EXCEPT ![q] = gui.config]
             /\ q \notin ReadOnly
  <2>1. q \notin ReadOnly
    BY <1>5 DEF Files!SaveConfig, Files!Failed
  <2> QED BY <1>0, <2>1, SaveHere, ZenonT(40)
<1>6. CASE Files!Save
  <2> DEFINE w == Files!SaveConfig(Files!World, gui.path, gui.config).world
  <2>1. gui.path \in Path
    BY <1>0, <1>6 DEF Files!Save
  <2>2. /\ Files!SaveConfig(Files!World, gui.path, gui.config).ok
        /\ Files!Become(Files!PublishConfig(w)) /\ UNCHANGED run
    BY <1>6 DEF Files!Save
  <2>3. w \in Worlds /\ w.files = [files EXCEPT ![gui.path] = gui.config]
    BY <1>5, <2>1, <2>2
  <2> HIDE DEF w
  <2>4. Files!PublishConfig(w) \in Worlds /\ KeepsDamage(w, Files!PublishConfig(w))
    BY <2>3, PublishFacts
  <2>5. SettingsInv' /\ files' = Files!PublishConfig(w).files
    BY <1>1, <2>2, <2>4
  <2>6. \A p \in Path : p # gui.path /\ files[p] = Bad => w.files[p] = Bad
    BY <1>0, <2>3
  <2> QED BY <1>6, <2>4, <2>5, <2>6 DEF KeepsDamage
<1>7. ASSUME NEW q \in Path, Files!SaveAs(q)
      PROVE  SettingsInv' /\ \A p \in Path : p # q /\ files[p] = Bad => files'[p] = Bad
  <2> DEFINE u == Files!SaveConfig(Files!World, q, gui.config).world
             w == Files!SetConfig(u, gui.config, q)
  <2>1. /\ Files!SaveConfig(Files!World, q, gui.config).ok
        /\ Files!Become(Files!PublishConfig(w)) /\ UNCHANGED run
    BY <1>7 DEF Files!SaveAs
  <2>2. u \in Worlds /\ u.files = [files EXCEPT ![q] = gui.config]
    BY <1>5, <2>1
  <2> HIDE DEF u
  <2>3. w \in Worlds /\ w.files = u.files
    BY <1>0, <2>2, SetConfigFacts
  <2> HIDE DEF w
  <2>4. Files!PublishConfig(w) \in Worlds /\ KeepsDamage(w, Files!PublishConfig(w))
    BY <2>3, PublishFacts
  <2>5. SettingsInv' /\ files' = Files!PublishConfig(w).files
    BY <1>1, <2>1, <2>4
  <2>6. \A p \in Path : p # q /\ files[p] = Bad => w.files[p] = Bad
    BY <1>0, <2>2, <2>3
  <2> QED BY <2>4, <2>5, <2>6 DEF KeepsDamage
<1>8. ASSUME NEW layout \in Files!Layout, NEW config,
             config = [gui.config EXCEPT !.layout = layout],
             Files!Become(Files!PublishConfig(Files!SetConfig(Files!World, config, gui.path))),
             UNCHANGED run
      PROVE  SettingsInv' /\ \A p \in Path : files[p] = Bad => files'[p] = Bad
  <2> DEFINE w == Files!SetConfig(Files!World, config, gui.path)
  <2>1. config \in NamedConfig
    BY <1>0, <1>8, OtherLayout
  <2>2. w \in Worlds /\ w.files = files
    BY <1>0, <2>1, SetConfigFacts
  <2>3. Files!Become(Files!PublishConfig(w))
    BY <1>8
  <2> HIDE DEF w
  <2> QED BY <1>2, <1>8, <2>2, <2>3, PublishFacts
<1>9. ASSUME NEW s \in Screen, Files!RemoveScreen(s) \/ \E c \in Cell : Files!Place(s, c)
      PROVE  SettingsInv' /\ \A p \in Path : files[p] = Bad => files'[p] = Bad
  <2>1. PICK c \in Cell \cup {NoCell} :
          Files!Become(Files!PublishConfig(Files!SetConfig(Files!World,
            [gui.config EXCEPT !.layout = [@ EXCEPT ![s] = c]], gui.path))) /\ UNCHANGED run
    BY <1>9 DEF Files!RemoveScreen, Files!Place
  <2>2. [gui.config.layout EXCEPT ![s] = c] \in Files!Layout
    BY <1>0 DEF Files!Layout
  <2> QED BY <1>8, <2>1, <2>2
<1>10. ASSUME NEW q \in Path, Files!SetCommand(q)
       PROVE  SettingsInv' /\ \A p \in Path : files[p] = Bad => files'[p] = Bad
  <2> DEFINE w == [Files!World EXCEPT !.gui = [@ EXCEPT !.runtime = q]]
  <2>1. [gui EXCEPT !.runtime = q] \in Gui
    BY <1>0 DEF Gui
  <2>2. w \in Worlds /\ w.files = files /\ w.gui.runtime = q
    BY <1>0, <2>1 DEF Worlds, Files!World, Gui
  <2>3. Files!Become(Files!LoadConfigPath(w, w.gui.runtime)) /\ UNCHANGED run
    BY <1>10 DEF Files!SetCommand, Files!PublishCommand
  <2> HIDE DEF w
  <2> QED BY <1>2, <2>2, <2>3, LoadPathFacts
<1>11. CASE Files!SwitchMode
  <2>1. Files!Become(Files!LoadConfigPath(Files!World, gui.runtime)) /\ UNCHANGED run
    BY <1>0, <1>11 DEF Files!SwitchMode, Files!PublishCommand
  <2> QED BY <1>0, <1>2, <2>1, LoadPathFacts
<1>12. ASSUME NEW m \in Files!Mode, Files!StartFromGui(m)
       PROVE  SettingsInv' /\ files' = files
  <2> DEFINE config == files[gui.runtime]
  <2>1. gui.runtime \in Path /\ config \in AnyConfig
    BY <1>0, <1>12 DEF Files!StartFromGui, Files!Readable, Contents
  <2>2. /\ Files!EnsureMachineId(Files!World, config) \in AnyConfig
        /\ Files!IdsAfter(Files!World, config) \in Nat
    BY <1>0, <2>1, ConfigFacts DEF NamedConfig
  <2>3. /\ run' = [by |-> "gui", mode |-> m, path |-> gui.runtime,
                   config |-> IF m = "server" THEN config
                              ELSE Files!EnsureMachineId(Files!World, config)]
        /\ ids' = IF m = "server" THEN ids ELSE Files!IdsAfter(Files!World, config)
        /\ UNCHANGED <<files, gui>>
    BY <1>12 DEF Files!StartFromGui
  <2>4. run' \in [by : {"gui", "cli"}, mode : Files!Mode, config : AnyConfig, path : Path]
    BY <2>1, <2>2, <2>3
  <2>5. Files!World' \in Worlds
    BY <1>0, <2>2, <2>3 DEF Files!World, Worlds
  <2> QED BY <2>3, <2>4, <2>5 DEF SettingsInv
<1>13. ASSUME NEW m \in Files!Mode, NEW q \in Path, Files!StartFromCli(m, q)
       PROVE  SettingsInv' /\ \A p \in Path : files[p] = Bad => files'[p] = Bad
  <2> DEFINE result == Files!LoadOrCreateConfig(Files!World, q)
  <2>1. /\ Files!Become(result.world)
        /\ run' = [by |-> "cli", mode |-> m, config |-> result.config, path |-> q]
    BY <1>13 DEF Files!StartFromCli
  <2>2. /\ result.world \in Worlds /\ result.config \in AnyConfig
        /\ KeepsDamage(Files!World, result.world)
    BY <1>0, LoadFacts
  <2> HIDE DEF result
  <2>3. Files!World' = result.world /\ files' = result.world.files
    BY <2>1, <2>2, BecomeFacts DEF Files!Become
  <2> QED BY <1>0, <2>1, <2>2, <2>3 DEF SettingsInv, KeepsDamage
<1>14. ASSUME NEW s \in Screen, NEW c \in Cell, Files!Remember(s, c)
       PROVE  /\ SettingsInv'
              /\ \A p \in Path : files[p] = Bad /\ files'[p] # Bad =>
                   p = run.path /\ run.mode = "server"
  <2>1. /\ run.mode = "server"
        /\ run' = [run EXCEPT !.config.layout = [@ EXCEPT ![s] = c]]
        /\ files' = Files!SaveConfig(Files!World, run.path, run'.config).world.files
        /\ UNCHANGED <<ids, gui>>
    BY <1>14 DEF Files!Remember
  <2>2. run \in [by : {"gui", "cli"}, mode : Files!Mode, config : AnyConfig, path : Path]
    BY <2>1 DEF SettingsInv, Files!Idle
  <2>3. run.config.layout \in Files!Layout /\ run.config \in AnyConfig /\ run.path \in Path
    BY <2>2 DEF AnyConfig
  <2>4. [run.config.layout EXCEPT ![s] = c] \in Files!Layout
    BY <2>3 DEF Files!Layout
  <2>5. /\ run' \in [by : {"gui", "cli"}, mode : Files!Mode, config : AnyConfig, path : Path]
        /\ run'.config \in AnyConfig
    BY <2>1, <2>2, <2>4 DEF AnyConfig
  <2>6. CASE run.path \in ReadOnly
    <3>1. files' = files
      BY <1>0, <2>1, <2>6 DEF Files!SaveConfig, Files!Failed
    <3> QED BY <1>0, <2>1, <2>5, <3>1 DEF SettingsInv, Files!World
  <2>7. CASE run.path \notin ReadOnly
    <3>1. files' = [files EXCEPT ![run.path] = run'.config]
      <4>1. \A config \in AnyConfig :
              Files!SaveConfig(Files!World, run.path, config).world.files =
                [files EXCEPT ![run.path] = config]
        BY <1>0, <2>3, <2>7, SaveHere
      <4>2. PICK config \in AnyConfig : config = run'.config
        BY <2>5
      <4>3. Files!SaveConfig(Files!World, run.path, config).world.files =
              [files EXCEPT ![run.path] = config]
        BY <4>1
      <4> QED BY <2>1, <4>2, <4>3
    <3>2. Files!World' \in Worlds
      BY <1>0, <2>1, <2>5, <3>1 DEF Files!World, Worlds, Contents
    <3> QED BY <1>0, <2>1, <2>5, <3>1, <3>2 DEF SettingsInv
  <2> QED BY <2>6, <2>7
<1>15. CASE Files!Stop
  BY <1>15 DEF Files!Stop, SettingsInv, Files!World
<1>16. ASSUME NEW q \in Path, Files!EditByHand(q)
       PROVE  SettingsInv' /\ \A p \in Path : p # q /\ files[p] = Bad => files'[p] = Bad
  <2>1. /\ files' = [files EXCEPT ![q] = [id |-> 0, layout |-> Files!NoLayout]]
        /\ UNCHANGED <<ids, gui, run>>
    BY <1>16 DEF Files!EditByHand
  <2>2. Files!World' \in Worlds
    BY <1>0, <2>1, NoLayoutIsConfig DEF Files!World, Worlds, Contents
  <2> QED BY <1>0, <2>1, <2>2 DEF SettingsInv
<1>17. ASSUME NEW q \in Path, Files!CrashInSave(q)
       PROVE  SettingsInv' /\ \A p \in Path : files[p] = Bad => files'[p] = Bad
  <2> DEFINE contents == [files EXCEPT ![q] = Bad]
             w == Files!Started(contents, ids)
  <2>1. contents \in [Path -> Contents] /\ \A p \in Path : files[p] = Bad => contents[p] = Bad
    BY <1>0 DEF Contents
  <2>2. Files!Become(w) /\ run' = Files!Idle
    BY <1>17 DEF Files!CrashInSave
  <2> HIDE DEF contents
  <2>3. w \in Worlds /\ \A p \in Path : contents[p] = Bad => w.files[p] = Bad
    BY <1>0, <2>1, StartedFacts
  <2> HIDE DEF w
  <2>4. Files!World' = w /\ files' = w.files
    BY <2>2, <2>3, BecomeFacts DEF Files!Become
  <2> QED BY <2>1, <2>2, <2>3, <2>4 DEF SettingsInv
<1>18. CASE UNCHANGED Files!vars
  BY <1>18 DEF Files!vars, SettingsInv, Files!World, Files!Idle
<1> QED BY <1>3, <1>4, <1>6, <1>7, <1>9, <1>10, <1>11, <1>12, <1>13, <1>14, <1>15, <1>16,
           <1>17, <1>18 DEF Files!Next, Files!Step

\* After a save the runtime's file is what the settings show.
LEMMA SaveStep ==
  ASSUME SettingsInv, Files!Save \/ \E p \in Path : Files!SaveAs(p)
  PROVE  gui'.runtime # NoPath /\ files'[gui'.runtime] = gui'.config
<1>0. /\ Files!World \in Worlds
      /\ files \in [Path -> Contents] /\ Files!World.files = files /\ Files!World.gui = gui
      /\ gui.config \in NamedConfig /\ gui.config \in AnyConfig
      /\ gui.path \in Path \cup {NoPath}
  BY WorldFacts DEF SettingsInv
<1>1. ASSUME NEW q \in Path, q \notin ReadOnly, NEW w \in Worlds,
             Files!Become(Files!PublishConfig(w)),
             w.gui.path = q, w.gui.config = gui.config, w.files = [files EXCEPT ![q] = gui.config]
      PROVE  gui'.runtime # NoPath /\ files'[gui'.runtime] = gui'.config
  <2>1. w.files[w.gui.path] = w.gui.config /\ w.gui.path \in Path \ ReadOnly
    BY <1>0, <1>1
  <2> DEFINE v == Files!PublishConfig(w)
  <2>2. v.gui.runtime = q /\ v.files[v.gui.runtime] = v.gui.config
    BY <1>1, <2>1, PublishFacts
  <2>3. files' = v.files /\ gui' = v.gui
    BY <1>1 DEF Files!Become
  <2> QED BY <2>2, <2>3, SettingsAssumption
<1>2. ASSUME NEW q \in Path, Files!SaveConfig(Files!World, q, gui.config).ok
      PROVE  /\ Files!SaveConfig(Files!World, q, gui.config).world \in Worlds
             /\ Files!SaveConfig(Files!World, q, gui.config).world.gui = gui
             /\ Files!SaveConfig(Files!World, q, gui.config).world.files =
                  [files EXCEPT ![q] = gui.config]
             /\ q \notin ReadOnly
  <2>1. q \notin ReadOnly
    BY <1>2 DEF Files!SaveConfig, Files!Failed
  <2> QED BY <1>0, <2>1, SaveHere, ZenonT(40)
<1>3. CASE Files!Save
  BY <1>0, <1>1, <1>2, <1>3 DEF Files!Save
<1>4. ASSUME NEW q \in Path, Files!SaveAs(q)
      PROVE  gui'.runtime # NoPath /\ files'[gui'.runtime] = gui'.config
  <2> DEFINE u == Files!SaveConfig(Files!World, q, gui.config).world
             w == Files!SetConfig(u, gui.config, q)
  <2>1. Files!SaveConfig(Files!World, q, gui.config).ok /\ Files!Become(Files!PublishConfig(w))
    BY <1>4 DEF Files!SaveAs
  <2>2. u \in Worlds /\ u.files = [files EXCEPT ![q] = gui.config] /\ q \notin ReadOnly
    BY <1>2, <2>1
  <2> HIDE DEF u
  <2>3. w \in Worlds /\ w.files = u.files /\ w.gui.config = gui.config /\ w.gui.path = q
    BY <1>0, <2>2, SetConfigFacts
  <2> HIDE DEF w
  <2> QED BY <1>1, <2>1, <2>2, <2>3
<1> QED BY <1>3, <1>4

\* What the window shows stays what the runtime's file holds, unless the step is the
\* user's, a crash, or that of a server that runs on this file.
LEMMA SavedStep ==
  ASSUME SettingsInv, Files!InSync, [Files!Next]_(Files!vars), ~Files!InSync'
  PROVE  \/ Files!CreateNew
         \/ \E s \in Screen : Files!RemoveScreen(s) \/ \E c \in Cell : Files!Place(s, c)
         \/ \E p \in Path : Files!ImportConfig(p) \/ Files!SetCommand(p) \/ Files!CrashInSave(p)
         \/ Files!EditByHand(gui.runtime)
         \/ run.path = gui.runtime /\ \E s \in Screen, c \in Cell : Files!Remember(s, c)
<1>0. /\ Files!World \in Worlds
      /\ files \in [Path -> Contents] /\ Files!World.files = files /\ Files!World.gui = gui
      /\ gui.config \in NamedConfig /\ gui.runtime \in Path /\ gui.runtime # NoPath
      /\ files[gui.runtime] = gui.config
  BY WorldFacts DEF SettingsInv, Files!InSync
<1>1. ASSUME gui' = gui, files'[gui.runtime] = files[gui.runtime] PROVE FALSE
  BY <1>0, <1>1 DEF Files!InSync
<1>2. ~(Files!Save \/ \E p \in Path : Files!SaveAs(p))
  BY SaveStep DEF Files!InSync
<1>3. ~Files!SwitchMode
  <2> SUFFICES ASSUME Files!SwitchMode PROVE FALSE
    OBVIOUS
  <2> DEFINE v == Files!LoadConfigPath(Files!World, gui.runtime)
  <2>1. v.gui.runtime = gui.runtime /\ v.files[gui.runtime] = v.gui.config
    BY <1>0, LoadPathFacts
  <2>2. files' = v.files /\ gui' = v.gui
    BY <1>0 DEF Files!SwitchMode, Files!PublishCommand, Files!Become
  <2> QED BY <1>0, <2>1, <2>2 DEF Files!InSync
<1>4. ASSUME NEW m \in Files!Mode, NEW q \in Path, Files!StartFromCli(m, q) PROVE FALSE
  <2> DEFINE result == Files!LoadOrCreateConfig(Files!World, q)
  <2>1. /\ result.world.gui = gui
        /\ files[q] \in NamedConfig => result.world = Files!World
        /\ \A p \in Path : p # q => result.world.files[p] = files[p]
    BY <1>0, LoadFacts
  <2>2. files' = result.world.files /\ gui' = result.world.gui
    BY <1>4 DEF Files!StartFromCli, Files!Become
  <2> QED BY <1>0, <1>1, <2>1, <2>2
<1>5. ASSUME NEW m \in Files!Mode, Files!StartFromGui(m) PROVE FALSE
  BY <1>1, <1>5 DEF Files!StartFromGui
<1>6. ~Files!Stop
  BY <1>1 DEF Files!Stop
<1>7. ASSUME NEW q \in Path, Files!EditByHand(q) PROVE q = gui.runtime
  BY <1>0, <1>1, <1>7 DEF Files!EditByHand
<1>8. ASSUME NEW s \in Screen, NEW c \in Cell, Files!Remember(s, c)
      PROVE  run.path = gui.runtime
  <2> SUFFICES ASSUME run.path # gui.runtime PROVE FALSE
    OBVIOUS
  <2>1. /\ files' = Files!SaveConfig(Files!World, run.path, run'.config).world.files
        /\ gui' = gui
    BY <1>8 DEF Files!Remember
  <2>2. files'[gui.runtime] = files[gui.runtime]
    <3>1. CASE run.path \in ReadOnly
      BY <1>0, <2>1, <3>1 DEF Files!SaveConfig, Files!Failed
    <3>2. CASE run.path \notin ReadOnly
      <4>1. files' = [files EXCEPT ![run.path] = run'.config]
        BY <1>0, <2>1, <3>2 DEF Files!SaveConfig, Files!Loaded, Files!World
      <4> QED BY <1>0, <4>1
    <3> QED BY <3>1, <3>2
  <2> QED BY <1>1, <2>1, <2>2
<1>9. ~UNCHANGED Files!vars
  BY <1>1 DEF Files!vars
<1> QED BY <1>2, <1>3, <1>4, <1>5, <1>6, <1>7, <1>8, <1>9 DEF Files!Next, Files!Step

\* A damaged file is replaced by a save to its path only; what is saved is what the
\* next run reads, until the user, a crash or a server on the file changes that.
THEOREM FilesStayTheUsers == Files!Spec => Files!FilesAreTheUsers
<1>1. SettingsInv /\ [Files!Next]_(Files!vars) => SettingsInv'
  BY SettingsStep
<1>2. SettingsInv /\ [Files!Next]_(Files!vars)
        => [\A p \in Path :
              files[p] = Bad /\ files'[p] # Bad =>
                \/ Files!Save /\ p = gui.path
                \/ Files!SaveAs(p) \/ Files!EditByHand(p)
                \/ p = run.path /\ run.mode = "server"]_(Files!vars)
  BY SettingsStep
<1>3. SettingsInv /\ [Files!Next]_(Files!vars)
        => [Files!Save \/ (\E p \in Path : Files!SaveAs(p)) => Files!InSync']_(Files!vars)
  BY SaveStep DEF Files!InSync
<1>4. SettingsInv /\ [Files!Next]_(Files!vars)
        => [Files!InSync /\ ~Files!InSync' =>
              \/ Files!CreateNew
              \/ \E s \in Screen : Files!RemoveScreen(s) \/ \E c \in Cell : Files!Place(s, c)
              \/ \E p \in Path :
                   Files!ImportConfig(p) \/ Files!SetCommand(p) \/ Files!CrashInSave(p)
              \/ Files!EditByHand(gui.runtime)
              \/ /\ run.path = gui.runtime
                 /\ \E s \in Screen, c \in Cell : Files!Remember(s, c)]_(Files!vars)
  BY SavedStep
<1> QED BY <1>1, <1>2, <1>3, <1>4, InitSettings, PTL
       DEF Files!Spec, Files!FilesAreTheUsers, Files!DamagedFilesAreKept,
       Files!SaveIsWhatStartReads, Files!SavedStays

-----------------------------------------------------------------------------
\* All of them, side by side.

\* A behaviour of the parts side by side is one of each of them.
LEMMA PartsMove ==
  ASSUME [MCNext]_<<part, vars, settingsVars, windowVars, clientVars, transportVars>>
  PROVE  /\ [Next]_vars /\ [Files!Next]_(Files!vars) /\ [Window!Next]_(Window!vars)
         /\ [Client!Next]_(Client!vars) /\ [Transport!Next]_(Transport!vars)
<1>1. UNCHANGED settingsVars => UNCHANGED Files!vars
  BY DEF settingsVars, Files!vars
<1>2. UNCHANGED windowVars => UNCHANGED Window!vars
  BY DEF windowVars, Window!vars, Window!runVars, Window!checkVars
<1>3. UNCHANGED clientVars => UNCHANGED Client!vars
  BY DEF clientVars, Client!vars, Client!clientVars, Client!serverVars
<1>4. UNCHANGED transportVars => UNCHANGED Transport!vars
  BY DEF transportVars, Transport!vars, Transport!writerVars, Transport!readerVars
<1>5. CASE MCNext
  BY <1>1, <1>2, <1>3, <1>4, <1>5
     DEF MCNext, ChoiceMoves, FilesMove, WindowMoves, ClientMoves, TransportMoves
<1>6. CASE UNCHANGED <<part, vars, settingsVars, windowVars, clientVars, transportVars>>
  BY <1>1, <1>2, <1>3, <1>4, <1>6
<1> QED BY <1>5, <1>6

\* So what is proved of a part holds of the parts side by side.
LEMMA EachPartBehaves ==
  MCSpec => Spec /\ Files!Spec /\ Window!Spec /\ Client!Spec /\ Transport!Spec
<1>1. MCInit => Init /\ Files!Init /\ Window!Init /\ Client!Init /\ Transport!Init
  BY DEF MCInit
<1> QED BY <1>1, PartsMove, PTL
       DEF MCSpec, Spec, Files!Spec, Window!Spec, Client!Spec, Transport!Spec

\* What is chosen suits the mode and nothing better was passed over without a reason,
\* whatever the machine offers from one moment to the next.
THEOREM ChoiceIsTheFirstSuitable == MCSpec => []PicksTheFirstSuitable
BY EachPartBehaves, FirstSuitableIsChosen, PTL

\* The window and its run agree.
THEOREM RunAlwaysMatchesWindow == MCSpec => []RunMatchesWindow
BY EachPartBehaves, WindowAndRunAgree, PTL DEF RunMatchesWindow

\* A client without a working injector has no screens that get input.
THEOREM NoScreensWithoutInjector == MCSpec => []ScreensHaveAnInjector
BY EachPartBehaves, ScreensAlwaysHaveAnInjector, PTL DEF ScreensHaveAnInjector

\* What is written arrives, whole and in order, up to where the connection ends.
THEOREM TransportKeepsThePromise == MCSpec => ChannelPromise
BY EachPartBehaves, TransportIsAChannel, PTL DEF ChannelPromise

\* A damaged file is replaced only by its user or a server that runs on it, and what was
\* saved is what the next start reads until one of them, or a crash, changes it.
THEOREM NobodyElseReplacesFiles == MCSpec => FilesAreTheUsers
BY EachPartBehaves, FilesStayTheUsers, PTL DEF FilesAreTheUsers

=============================================================================
