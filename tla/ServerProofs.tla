---------------------------- MODULE ServerProofs ----------------------------
(***************************************************************************)
(* Proofs about Server: its sessions drive the store the way ScreenStore   *)
(* assumes, its router keeps the promise of Focus, the cursor stays on the *)
(* active screen, nothing of a session outlives it, and a client agrees    *)
(* with the server on the cursor; for any number of clients, any screens,  *)
(* and any interleaving of their coroutines.                               *)
(***************************************************************************)
EXTENDS Server, ScreenStoreProofs, SequenceTheorems

-----------------------------------------------------------------------------
\* The sessions: what they know of each other through the store.

\* Every connection has an owner of its own, and its screens are that owner's.
OwnersAreHeld ==
  /\ \A ep \in Client :
       session[ep] \in {"open", "closing"} => owner[ep] \in ClientOwner
  /\ ExclusiveOwners =>
       \A ep \in Client : owner[ep] # None =>
         /\ owner[ep] # LocalOwner
         /\ \A other \in Client \ {ep} : owner[other] # owner[ep]

ScreensAreOwned ==
  \A v \in mScreens :
    /\ v.local = (v.endpoint = LocalEndpoint)
    /\ v.endpoint = LocalEndpoint => v.key.ownerId = LocalOwner
    /\ v.endpoint # LocalEndpoint => /\ v.endpoint \in Client
                                     /\ session[v.endpoint] \in {"open", "closing"}
                                     /\ v.key.ownerId = owner[v.endpoint]

SessionInv ==
  /\ session \in [Client -> Stage]
  /\ owner \in [Client -> OwnerId \cup {None}]
  /\ \A ep \in Client : session[ep] # "none" => serving
  /\ OwnersAreHeld
  /\ ScreensAreOwned

\* What a registration puts into mScreens, as far as the other components see.
AreFresh(fresh, ep, o) ==
  /\ \A v \in fresh : /\ v.endpoint = ep
                      /\ v.key.ownerId = o
                      /\ v.local = (ep = LocalEndpoint)
  /\ \A v, w \in fresh : v.key.screenIndex = w.key.screenIndex => v = w

\* A registration leaves the screens of other endpoints, and adds fresh ones.
LEMMA RegistrationAddsFresh ==
  ASSUME NEW ep \in Endpoint, NEW o, NEW infos \in ScreenLists,
         ReplaceScreens(ep, o, infos)
  PROVE  \E fresh : /\ mScreens' = RemainingScreens(ep) \cup fresh
                    /\ AreFresh(fresh, ep, o)
<1>1. infos \in Seq(ScreenInfo)
  BY ScreenListsAssumption
<1>2. PICK cell \in [DOMAIN infos -> CandidateCells(ep, o, infos)],
           added \in SUBSET DOMAIN infos :
        mScreens' = RemainingScreens(ep) \cup NewScreens(ep, o, infos, cell, added)
  BY DEF ReplaceScreens
<1> DEFINE screen(i) == [endpoint |-> ep, key |-> KeyAt(o, i), cell |-> cell[i],
                         local |-> (ep = LocalEndpoint), info |-> infos[i]]
           fresh == {screen(i) : i \in added}
<1>3. \A i \in added : i \in Nat
  BY <1>1
<1>4. \A i \in added : /\ screen(i).endpoint = ep
                       /\ screen(i).key.ownerId = o
                       /\ screen(i).key.screenIndex = i - 1
                       /\ screen(i).local = (ep = LocalEndpoint)
  BY DEF KeyAt
<1>5. \A i, j \in added :
        screen(i).key.screenIndex = screen(j).key.screenIndex => i = j
  BY <1>3, <1>4
<1>6. AreFresh(fresh, ep, o)
  <2> HIDE DEF screen
  <2> QED BY <1>4, <1>5 DEF AreFresh
<1>7. mScreens' = RemainingScreens(ep) \cup fresh
  BY <1>2 DEF NewScreens
<1> QED BY <1>6, <1>7

\* A server that has just started has no session and no screen.
LEMMA InitSessions == Init => SessionInv
BY DEF Init, StoreInit, SessionInv, Stage, OwnersAreHeld, ScreensAreOwned

\* The owner a session registers screens under is not that of another one.
LEMMA OwnerOfSessionIsFree ==
  ASSUME SessionInv, ExclusiveOwners,
         NEW ep \in Client, owner[ep] \in ClientOwner
  PROVE  OwnerIsFree(ep, owner[ep])
<1>1. owner[ep] # None /\ owner[ep] # LocalOwner
  BY NoneAssumption, OwnerAssumption DEF SessionInv, OwnersAreHeld
<1>2. \A v \in mScreens : v.endpoint # ep => v.key.ownerId # owner[ep]
  BY <1>1 DEF SessionInv, OwnersAreHeld, ScreensAreOwned
<1> QED BY <1>1, <1>2 DEF OwnerIsFree, OwnersOf, ScreensOf

\* Every step of the server keeps what its sessions rely on.
LEMMA NextKeepsSessions == SessionInv /\ [Next]_vars => SessionInv'
<1> SUFFICES ASSUME SessionInv, [Next]_vars  PROVE SessionInv'
  OBVIOUS
<1> USE DEF SessionInv, OwnersAreHeld, ScreensAreOwned, Stage
<1>1. CASE Start
  <2>1. PICK infos \in ScreenLists : ReplaceScreens(LocalEndpoint, LocalOwner, infos)
    BY <1>1 DEF Start, RegisterLocal
  <2>2. PICK fresh : /\ mScreens' = RemainingScreens(LocalEndpoint) \cup fresh
                     /\ AreFresh(fresh, LocalEndpoint, LocalOwner)
    BY <2>1, EndpointAssumption, RegistrationAddsFresh
  <2>3. UNCHANGED <<session, owner>> /\ serving'
    BY <1>1 DEF Start, RegisterLocal
  <2> QED BY <2>2, <2>3 DEF RemainingScreens, ScreensOf, AreFresh
<1>2. CASE UNCHANGED <<session, owner, mScreens, serving>>
  BY <1>2
<1>3. CASE Gone
  BY <1>3 DEF Gone, Restart, NoSessions
<1>4. ASSUME NEW ep \in Client, Accept(ep)  PROVE SessionInv'
  BY <1>4 DEF Accept, storeVars
<1>5. ASSUME NEW ep \in Client, Hello(ep)  PROVE SessionInv'
  <2>1. PICK o \in ClientOwner :
          /\ ExclusiveOwners => o # LocalOwner /\ \A other \in Client : owner[other] # o
          /\ owner' = [owner EXCEPT ![ep] = o]
    BY <1>5 DEF Hello
  <2>2. session[ep] = "handshake" /\ session' = [session EXCEPT ![ep] = "open"]
    BY <1>5 DEF Hello
  <2>3. UNCHANGED <<mScreens, serving>>
    BY <1>5 DEF Hello, storeVars
  <2>4. \A v \in mScreens : v.endpoint # ep
    BY <2>2 DEF Client
  <2>5. o \in OwnerId /\ o # None
    BY OwnerAssumption, NoneAssumption
  <2>6. /\ session' \in [Client -> Stage]
        /\ owner' \in [Client -> OwnerId \cup {None}]
        /\ \A other \in Client : session'[other] # "none" => serving'
    BY <2>1, <2>2, <2>3, <2>5
  <2>7. OwnersAreHeld'
    BY <2>1, <2>2, <2>5
  <2>8. ScreensAreOwned'
    BY <2>1, <2>2, <2>3, <2>4
  <2> QED BY <2>6, <2>7, <2>8
<1>6. ASSUME NEW ep \in Client, OnClosed(ep), serving
      PROVE  SessionInv'
  <2>1. /\ mScreens' = RemainingScreens(ep)
        /\ owner' = [owner EXCEPT ![ep] = None]
        /\ session' = [session EXCEPT ![ep] = "none"]
        /\ serving' = serving
    BY <1>6 DEF OnClosed, RemoveScreens
  <2>2. \A v \in mScreens' : v \in mScreens /\ v.endpoint # ep
    BY <2>1 DEF RemainingScreens, ScreensOf
  <2>3. /\ session' \in [Client -> Stage]
        /\ owner' \in [Client -> OwnerId \cup {None}]
        /\ \A other \in Client : session'[other] # "none" => serving'
    BY <2>1
  <2>4. OwnersAreHeld'
    BY <2>1
  <2>5. ScreensAreOwned'
    BY <2>1, <2>2
  <2> QED BY <2>3, <2>4, <2>5
<1>7. ASSUME NEW ep \in Client, ReadScreens(ep)  PROVE SessionInv'
  <2>1. PICK infos \in ScreenLists : ReplaceScreens(ep, owner[ep], infos)
    BY <1>7 DEF ReadScreens
  <2>2. PICK fresh : /\ mScreens' = RemainingScreens(ep) \cup fresh
                     /\ AreFresh(fresh, ep, owner[ep])
    BY <2>1, RegistrationAddsFresh DEF Client
  <2>3. UNCHANGED <<session, owner, serving>> /\ session[ep] = "open"
    BY <1>7 DEF ReadScreens, sessionVars
  <2>4. ep # LocalEndpoint
    BY DEF Client
  <2> QED BY <2>2, <2>3, <2>4 DEF RemainingScreens, ScreensOf, AreFresh
<1>8. ASSUME NEW ep \in Client, EndLoops(ep)  PROVE SessionInv'
  BY <1>8 DEF EndLoops, storeVars
<1>9. ASSUME NEW ep \in Client, SessionStep(ep)  PROVE SessionInv'
  <2>1. CASE StartWriter(ep) \/ Write(ep)
    BY <1>2, <2>1 DEF StartWriter, Write, storeVars, sessionVars
  <2>2. CASE HandshakeFails(ep) \/ CloseSession(ep)
    BY <1>6, <2>2 DEF HandshakeFails, CloseSession
  <2> QED BY <1>4, <1>5, <1>7, <1>8, <1>9, <2>1, <2>2 DEF SessionStep
<1>10. CASE AcceptFails \/ Stop \/ MouseMove \/ OtherInput \/ Hotkey \/ UNCHANGED vars
  BY <1>2, <1>10
  DEF AcceptFails, Stop, MouseMove, OtherInput, Hotkey, vars, storeVars, sessionVars
<1> QED BY <1>1, <1>3, <1>9, <1>10 DEF Next, Stopped, Crash

\* The screens of the store are those of the sessions, in every state.
THEOREM SessionInvariant == Spec => []SessionInv
BY InitSessions, NextKeepsSessions, PTL DEF Spec
-----------------------------------------------------------------------------
\* Every step of the server is a step of the store, or none.
LEMMA ServerStepIsStoreStep == SessionInv /\ [Next]_vars => [StoreNext]_storeVars
<1> SUFFICES ASSUME SessionInv, [Next]_vars  PROVE [StoreNext]_storeVars
  OBVIOUS
<1>1. CASE Start
  BY <1>1 DEF Start, StoreNext
<1>2. CASE Gone
  BY <1>2 DEF Gone, StoreNext
<1>3. ASSUME NEW ep \in Client, OnClosed(ep), serving
      PROVE  Disconnect
  BY <1>3 DEF OnClosed, Disconnect, Client
<1>4. ASSUME NEW ep \in Client, ReadScreens(ep)  PROVE RegisterRemote
  <2>1. session[ep] = "open" /\ UNCHANGED serving
    BY <1>4 DEF ReadScreens
  <2>2. PICK infos \in ScreenLists : ReplaceScreens(ep, owner[ep], infos)
    BY <1>4 DEF ReadScreens
  <2>3. serving /\ owner[ep] \in ClientOwner
    BY <2>1 DEF SessionInv, OwnersAreHeld
  <2>4. OwnersOf(mScreens, ep) \subseteq {owner[ep]}
    BY DEF SessionInv, ScreensAreOwned, OwnersOf, ScreensOf, Client
  <2>5. ExclusiveOwners => OwnerIsFree(ep, owner[ep])
    BY <2>3, OwnerOfSessionIsFree
  <2> QED BY <2>1, <2>2, <2>3, <2>4, <2>5 DEF RegisterRemote, Client
<1>5. ASSUME NEW ep \in Client, SessionStep(ep)  PROVE [StoreNext]_storeVars
  <2>1. CASE HandshakeFails(ep) \/ CloseSession(ep)
    <3>1. session[ep] # "none" /\ OnClosed(ep)
      BY <2>1 DEF HandshakeFails, CloseSession
    <3> QED BY <1>3, <3>1 DEF SessionInv, StoreNext
  <2>2. CASE ReadScreens(ep)
    BY <1>4, <2>2 DEF StoreNext
  <2>3. CASE Accept(ep) \/ Hello(ep) \/ StartWriter(ep) \/ Write(ep) \/ EndLoops(ep)
    BY <2>3 DEF Accept, Hello, StartWriter, Write, EndLoops
  <2> QED BY <1>5, <2>1, <2>2, <2>3 DEF SessionStep
<1>6. CASE AcceptFails \/ Stop \/ MouseMove \/ OtherInput \/ Hotkey \/ UNCHANGED vars
  BY <1>6 DEF AcceptFails, Stop, MouseMove, OtherInput, Hotkey, vars
<1> QED BY <1>1, <1>2, <1>5, <1>6 DEF Next, Stopped, Crash

\* The server implements the store's specification: what ScreenStore assumes
\* of its callers is what the sessions do, so its theorems hold of the server.
THEOREM ServerImplementsStore == Spec => StoreSpec
<1>1. Init => StoreInit
  BY DEF Init
<1> QED BY <1>1, SessionInvariant, ServerStepIsStoreStep, PTL DEF Spec, StoreSpec

\* The screens of a client are always those of its session.
THEOREM ScreensBelongToSessions == Spec => []ScreensHaveASession
<1>1. SessionInv => ScreensHaveASession
  BY DEF SessionInv, ScreensAreOwned, ScreensHaveASession
<1> QED BY <1>1, SessionInvariant, PTL
-----------------------------------------------------------------------------
\* The screens the router picks: the lookups find one whenever there is one.

\* The screens of an endpoint have different indices, so IsBefore is total.
HaveDifferentIndices(screens) ==
  \A v, w \in screens :
    v.endpoint = w.endpoint /\ v.key.screenIndex = w.key.screenIndex => v = w

\* A nonempty set of naturals has a least element.
LEMMA LeastNat ==
  ASSUME NEW S \in SUBSET Nat, S # {}
  PROVE  \E m \in S : \A n \in S : m <= n
<1>1. PICK m \in S : \A n \in S : ~(<<n, m>> \in OpToRel(<, Nat))
  BY NatLessThanWellFounded, WFMin
<1>2. \A n \in S : ~(n < m)
  BY <1>1 DEF OpToRel
<1> QED BY <1>2

\* Iterating the multimap from its start finds a screen, if there is one.
LEMMA FirstOfIsMember ==
  ASSUME NEW screens \in SUBSET VirtualScreen, HaveDifferentIndices(screens),
         screens # {}
  PROVE  FirstOf(screens) \in screens
<1> DEFINE endpoints == {v.endpoint : v \in screens}
<1>1. \A v \in screens : v.endpoint \in Nat /\ v.key.screenIndex \in Nat
  BY EndpointAssumption DEF VirtualScreen, ScreenKey
<1>2. PICK e \in endpoints : \A f \in endpoints : e <= f
  <2>1. endpoints \subseteq Nat /\ endpoints # {}
    BY <1>1
  <2> HIDE DEF endpoints
  <2> QED BY <2>1, LeastNat
<1> DEFINE indices == {v.key.screenIndex : v \in {v \in screens : v.endpoint = e}}
<1>3. PICK i \in indices : \A j \in indices : i <= j
  <2>1. indices \subseteq Nat /\ indices # {}
    BY <1>1
  <2> HIDE DEF indices
  <2> QED BY <2>1, LeastNat
<1>4. PICK first \in screens : first.endpoint = e /\ first.key.screenIndex = i
  BY <1>3
<1>5. \A w \in screens \ {first} : IsBefore(first, w)
  <2> SUFFICES ASSUME NEW w \in screens \ {first}  PROVE IsBefore(first, w)
    OBVIOUS
  <2>1. e <= w.endpoint /\ (w.endpoint = e => i <= w.key.screenIndex)
    BY <1>2, <1>3
  <2>2. w.endpoint = e => w.key.screenIndex # i
    BY <1>4 DEF HaveDifferentIndices
  <2> QED BY <1>1, <1>4, <2>1, <2>2 DEF IsBefore
<1>6. (CHOOSE v \in screens : \A w \in screens \ {v} : IsBefore(v, w)) \in screens
  BY <1>4, <1>5
<1> QED BY <1>6 DEF FirstOf

\* firstLocalScreen is null exactly if the server has no screen of its own.
LEMMA FirstLocalFacts ==
  ASSUME NEW screens \in SUBSET VirtualScreen, HaveDifferentIndices(screens)
  PROVE  LET first == FirstLocalScreen(screens)
         IN /\ first = None <=> \A v \in screens : ~v.local
            /\ first # None => first \in screens /\ first.local
<1> DEFINE locals  == {v \in screens : v.local}
           primary == {v \in locals : v.info.primary}
           among   == IF primary # {} THEN primary ELSE locals
<1>1. FirstLocalScreen(screens) = FirstOf(among)
  BY DEF FirstLocalScreen
<1>2. /\ among \subseteq locals /\ among \subseteq VirtualScreen
      /\ among = {} <=> locals = {}
      /\ HaveDifferentIndices(among)
  BY DEF HaveDifferentIndices
<1>3. CASE among = {}
  BY <1>1, <1>2, <1>3 DEF FirstOf
<1>4. CASE among # {}
  <2>1. FirstOf(among) \in among
    BY <1>2, <1>4, FirstOfIsMember
  <2> QED BY <1>1, <1>2, <1>4, <2>1, NoneAssumption
<1> QED BY <1>3, <1>4

\* findScreen returns a screen of the store or null.
LEMMA FindScreenFacts ==
  ASSUME NEW screens \in SUBSET VirtualScreen, HaveDifferentIndices(screens), NEW key,
         FindScreen(screens, key) # None
  PROVE  FindScreen(screens, key) \in screens
<1> DEFINE found == {v \in screens : v.key = key}
<1>1. found # {}
  BY DEF FindScreen, FirstOf
<1>2. found \subseteq VirtualScreen /\ HaveDifferentIndices(found)
  BY DEF HaveDifferentIndices
<1>3. FirstOf(found) \in found
  BY <1>1, <1>2, FirstOfIsMember
<1> QED BY <1>3 DEF FindScreen

-----------------------------------------------------------------------------
\* The router: where the cursor is, whatever its connections do.

RouterInv ==
  /\ HaveDifferentIndices(mScreens)
  /\ ~serving => mScreens = {} /\ activeScreen = None
  /\ ActiveIsRegistered
  /\ CursorHasAScreen
  /\ CaptureFollowsCursor
  /\ remoteControl \in BOOLEAN

\* The cursor goes home: to a screen of the server if it has one.
CursorIsHome ==
  /\ remoteControl' = FALSE
  /\ activeScreen' = None <=> \A v \in mScreens' : ~v.local
  /\ activeScreen' # None => activeScreen' \in mScreens' /\ activeScreen'.local

\* The cursor goes where the user moves it.
CursorIsMoved ==
  /\ activeScreen' # None /\ activeScreen' \in mScreens
  /\ remoteControl' \in IF IsRemote(activeScreen') THEN {remoteControl, TRUE} ELSE {FALSE}

\* activateFirstLocalScreen leaves no client's screen active.
LEMMA ActivationBringsHome ==
  ASSUME mScreens' \subseteq VirtualScreen, HaveDifferentIndices(mScreens'),
         ActivateFirstLocalScreen(mScreens')
  PROVE  CursorIsHome
<1>1. activeScreen' = FirstLocalScreen(mScreens')
  BY DEF ActivateFirstLocalScreen
<1>2. /\ activeScreen' = None <=> \A v \in mScreens' : ~v.local
      /\ activeScreen' # None => activeScreen' \in mScreens' /\ activeScreen'.local
  BY <1>1, FirstLocalFacts
<1>3. remoteControl' = FALSE
  BY <1>2 DEF ActivateFirstLocalScreen, UpdateCapture, IsRemote
<1> QED BY <1>2, <1>3 DEF CursorIsHome

\* switchActiveScreen changes the active screen to one of the store, or not at all.
LEMMA SwitchMovesCursor ==
  ASSUME mScreens \subseteq VirtualScreen, HaveDifferentIndices(mScreens),
         NEW point, NEW here, SwitchActiveScreen(point, here)
  PROVE  CursorIsMoved \/ UNCHANGED <<activeScreen, remoteControl>>
<1> DEFINE screen == FindScreen(mScreens, point.key)
<1>1. CASE screen = None
  BY <1>1 DEF SwitchActiveScreen
<1>2. CASE screen # None
  <2>1. screen \in mScreens
    BY <1>2, FindScreenFacts
  <2>2. Enter(screen, point)
    BY <1>2 DEF SwitchActiveScreen
  <2> HIDE DEF screen
  <2> QED BY <1>2, <2>1, <2>2 DEF Enter, UpdateCapture, CursorIsMoved
<1> QED BY <1>1, <1>2

\* What the handlers of captured input do to the cursor.
LEMMA InputMovesCursor ==
  ASSUME mScreens \subseteq VirtualScreen, HaveDifferentIndices(mScreens),
         MouseMove \/ OtherInput \/ Hotkey
  PROVE  /\ activeScreen # None
         /\ UNCHANGED storeVars
         /\ \/ CursorIsHome
            \/ CursorIsMoved
            \/ UNCHANGED <<activeScreen, remoteControl>>
<1>1. CASE MouseMove
  <2>1. PICK m \in MouseSamples : HandleMouseMove(m) \/ HandleRemoteMouseMove(m)
    BY <1>1 DEF MouseMove
  <2>2. CASE HandleMouseMove(m)
    <3>1. activeScreen # None
      BY <2>2 DEF HandleMouseMove, IsLocal
    <3>2. \/ UNCHANGED <<activeScreen, remoteControl>>
          \/ \E point, here : SwitchActiveScreen(point, here)
      BY <2>2 DEF HandleMouseMove
    <3> QED BY <1>1, <3>1, <3>2, SwitchMovesCursor DEF MouseMove
  <2>3. CASE HandleRemoteMouseMove(m)
    <3>1. activeScreen # None
      BY <2>3 DEF HandleRemoteMouseMove, IsRemote
    <3>2. \/ UNCHANGED <<activeScreen, remoteControl>>
          \/ \E point, here : SwitchActiveScreen(point, here)
      BY <2>3 DEF HandleRemoteMouseMove
    <3> QED BY <1>1, <3>1, <3>2, SwitchMovesCursor DEF MouseMove
  <2> QED BY <2>1, <2>2, <2>3
<1>2. CASE OtherInput
  BY <1>2 DEF OtherInput, HandleOther, IsRemote, cursorVars
<1>3. CASE Hotkey
  <2>1. ActivateFirstLocalScreen(mScreens) /\ UNCHANGED storeVars /\ activeScreen # None
    BY <1>3 DEF Hotkey, HandleHotkey, IsRemote
  <2>2. mScreens' = mScreens
    BY <2>1 DEF storeVars
  <2>3. ActivateFirstLocalScreen(mScreens')
    BY <2>1, <2>2
  <2>4. mScreens' \subseteq VirtualScreen /\ HaveDifferentIndices(mScreens')
    BY <2>2
  <2> QED BY <2>1, <2>3, <2>4, ActivationBringsHome
<1> QED BY <1>1, <1>2, <1>3

\* The screens of one endpoint are replaced by fresh ones, perhaps by none.
LEMMA ReplacedIndices ==
  ASSUME HaveDifferentIndices(mScreens), NEW ep, NEW o, NEW fresh,
         mScreens' = RemainingScreens(ep) \cup fresh, AreFresh(fresh, ep, o)
  PROVE  HaveDifferentIndices(mScreens')
BY DEF HaveDifferentIndices, RemainingScreens, ScreensOf, AreFresh

\* A change of a client's screens: it loses the cursor in the same step, and
\* nobody else does.
ClientChanges(ep) ==
  /\ serving /\ serving'
  /\ HaveDifferentIndices(mScreens')
  /\ \A v \in mScreens' : v \in mScreens \/ (v.endpoint = ep /\ ~v.local)
  /\ \A v \in mScreens : v.endpoint # ep => v \in mScreens'
  /\ IF activeScreen = None \/ ActiveIsOf(ep)
     THEN CursorIsHome
     ELSE UNCHANGED <<activeScreen, remoteControl>>

LEMMA ReadScreensChanges ==
  ASSUME SessionInv, RouterInv, StoreTypeOK', NEW ep \in Client, ReadScreens(ep)
  PROVE  ClientChanges(ep)
<1>1. PICK infos \in ScreenLists : ReplaceScreens(ep, owner[ep], infos)
  BY DEF ReadScreens
<1>2. PICK fresh : /\ mScreens' = RemainingScreens(ep) \cup fresh
                   /\ AreFresh(fresh, ep, owner[ep])
  BY <1>1, RegistrationAddsFresh DEF Client
<1>3. serving /\ serving'
  BY DEF ReadScreens, SessionInv
<1>4. HaveDifferentIndices(mScreens')
  BY <1>2, ReplacedIndices DEF RouterInv
<1>5. /\ \A v \in mScreens' : v \in mScreens \/ (v.endpoint = ep /\ ~v.local)
      /\ \A v \in mScreens : v.endpoint # ep => v \in mScreens'
  BY <1>2 DEF RemainingScreens, ScreensOf, AreFresh, Client
<1>6. mScreens' \subseteq VirtualScreen
  BY DEF StoreTypeOK
<1>7. IF activeScreen = None \/ ActiveIsOf(ep)
      THEN CursorIsHome
      ELSE UNCHANGED <<activeScreen, remoteControl>>
  BY <1>4, <1>6, ActivationBringsHome DEF ReadScreens, AfterRegistration, cursorVars
<1> QED BY <1>3, <1>4, <1>5, <1>7 DEF ClientChanges

LEMMA CloseChanges ==
  ASSUME SessionInv, RouterInv, StoreTypeOK', NEW ep \in Client, OnClosed(ep), serving
  PROVE  ClientChanges(ep)
<1>1. mScreens' = RemainingScreens(ep) /\ serving'
  BY DEF OnClosed, RemoveScreens
<1>2. /\ \A v \in mScreens' : v \in mScreens
      /\ \A v \in mScreens : v.endpoint # ep => v \in mScreens'
      /\ HaveDifferentIndices(mScreens')
  BY <1>1 DEF RemainingScreens, ScreensOf, RouterInv, HaveDifferentIndices
<1>3. mScreens' \subseteq VirtualScreen
  BY DEF StoreTypeOK
<1>4. CASE ActiveIsOf(ep)
  BY <1>1, <1>2, <1>3, <1>4, ActivationBringsHome DEF OnClosed, AfterRemoval, ClientChanges
<1>5. CASE ~ActiveIsOf(ep)
  <2>1. UNCHANGED <<activeScreen, remoteControl>>
    BY <1>5 DEF OnClosed, AfterRemoval, cursorVars
  <2>2. activeScreen = None => CursorIsHome
    BY <1>2, <2>1 DEF CursorIsHome, RouterInv, CursorHasAScreen, CaptureFollowsCursor, IsRemote
  <2> QED BY <1>1, <1>2, <1>5, <2>1, <2>2 DEF ClientChanges
<1> QED BY <1>4, <1>5

\* The server's start: its own screens, and the cursor on one of them.
LEMMA StartIsHome ==
  ASSUME RouterInv, StoreTypeOK', Start
  PROVE  /\ serving' /\ mScreens = {}
         /\ HaveDifferentIndices(mScreens')
         /\ \A v \in mScreens' : v.local
         /\ CursorIsHome
<1>1. PICK infos \in ScreenLists : ReplaceScreens(LocalEndpoint, LocalOwner, infos)
  BY DEF Start, RegisterLocal
<1>2. PICK fresh : /\ mScreens' = RemainingScreens(LocalEndpoint) \cup fresh
                   /\ AreFresh(fresh, LocalEndpoint, LocalOwner)
  BY <1>1, EndpointAssumption, RegistrationAddsFresh
<1>3. ~serving /\ serving' /\ mScreens = {} /\ activeScreen = None
  BY DEF Start, RegisterLocal, RouterInv
<1>4. HaveDifferentIndices(mScreens')
  BY <1>2, ReplacedIndices DEF RouterInv
<1>5. \A v \in mScreens' : v.local
  BY <1>2, <1>3 DEF RemainingScreens, ScreensOf, AreFresh
<1>6. CursorIsHome
  BY <1>3, <1>4, ActivationBringsHome DEF Start, AfterRegistration, StoreTypeOK
<1> QED BY <1>3, <1>4, <1>5, <1>6

\* The steps of the server, as far as the cursor and the screens are concerned.
LEMMA StepKinds ==
  ASSUME SessionInv, RouterInv, StoreTypeOK, StoreTypeOK', [Next]_vars
  PROVE  \/ Start
         \/ Gone
         \/ \E ep \in Client : ClientChanges(ep)
         \/ MouseMove \/ OtherInput \/ Hotkey
         \/ UNCHANGED <<mScreens, serving, activeScreen, remoteControl>>
<1>1. ASSUME NEW ep \in Client, SessionStep(ep)
      PROVE  \/ ClientChanges(ep)
             \/ UNCHANGED <<mScreens, serving, activeScreen, remoteControl>>
  <2>1. CASE HandshakeFails(ep) \/ CloseSession(ep)
    <3>1. OnClosed(ep) /\ serving
      BY <2>1 DEF HandshakeFails, CloseSession, SessionInv
    <3> QED BY <3>1, CloseChanges
  <2>2. CASE ReadScreens(ep)
    BY <2>2, ReadScreensChanges
  <2>3. CASE Accept(ep) \/ Hello(ep) \/ StartWriter(ep) \/ Write(ep) \/ EndLoops(ep)
    BY <2>3 DEF Accept, Hello, StartWriter, Write, EndLoops, storeVars, routerVars, cursorVars
  <2> QED BY <1>1, <2>1, <2>2, <2>3 DEF SessionStep
<1>2. CASE AcceptFails \/ Stop \/ UNCHANGED vars
  BY <1>2 DEF AcceptFails, Stop, vars, storeVars, routerVars, cursorVars
<1> QED BY <1>1, <1>2 DEF Next, Stopped, Crash

\* A server that has just started routes nothing.
LEMMA InitRouter == Init => RouterInv
BY DEF Init, StoreInit, RouterInv, HaveDifferentIndices, ActiveIsRegistered,
       CursorHasAScreen, CaptureFollowsCursor

\* The cursor's screen stays one the store has: every step keeps it so.
LEMMA NextKeepsRouter ==
  ASSUME SessionInv, RouterInv, StoreTypeOK, StoreTypeOK', [Next]_vars
  PROVE  RouterInv'
<1> USE DEF RouterInv, ActiveIsRegistered, CursorHasAScreen, CaptureFollowsCursor
<1>1. CASE Start
  <2>1. /\ serving' /\ HaveDifferentIndices(mScreens')
        /\ CursorIsHome
    BY <1>1, StartIsHome
  <2> QED BY <2>1 DEF CursorIsHome
<1>2. CASE Gone
  BY <1>2 DEF Gone, Restart, HaveDifferentIndices
<1>3. ASSUME NEW ep \in Client, ClientChanges(ep)  PROVE RouterInv'
  <2>1. CASE activeScreen = None \/ ActiveIsOf(ep)
    BY <1>3, <2>1 DEF ClientChanges, CursorIsHome
  <2>2. CASE ~(activeScreen = None \/ ActiveIsOf(ep))
    <3>1. UNCHANGED <<activeScreen, remoteControl>> /\ serving /\ serving'
      BY <1>3, <2>2 DEF ClientChanges
    <3>2. activeScreen \in mScreens' /\ activeScreen # None
      BY <1>3, <2>2 DEF ClientChanges, ActiveIsOf
    <3>3. PICK v \in mScreens : v.local
      BY <2>2, <3>1
    <3>4. v \in mScreens'
      BY <1>3, <3>3 DEF ClientChanges, SessionInv, ScreensAreOwned, Client
    <3>5. HaveDifferentIndices(mScreens')
      BY <1>3 DEF ClientChanges
    <3>6. remoteControl' => IsRemote(activeScreen')
      BY <3>1 DEF IsRemote
    <3> QED BY <3>1, <3>2, <3>3, <3>4, <3>5, <3>6
  <2> QED BY <2>1, <2>2
<1>4. CASE MouseMove \/ OtherInput \/ Hotkey
  <2>1. /\ activeScreen # None
        /\ UNCHANGED <<mScreens, serving>>
        /\ \/ CursorIsHome
           \/ CursorIsMoved
           \/ UNCHANGED <<activeScreen, remoteControl>>
    BY <1>4, InputMovesCursor DEF StoreTypeOK, storeVars
  <2>2. serving /\ HaveDifferentIndices(mScreens')
    BY <2>1
  <2>3. CASE CursorIsHome
    BY <2>1, <2>2, <2>3 DEF CursorIsHome
  <2>4. CASE CursorIsMoved
    <3>1. remoteControl' \in BOOLEAN /\ (remoteControl' => IsRemote(activeScreen'))
      BY <2>4 DEF CursorIsMoved
    <3> QED BY <2>1, <2>2, <2>4, <3>1 DEF CursorIsMoved
  <2>5. CASE UNCHANGED <<activeScreen, remoteControl>>
    BY <2>1, <2>2, <2>5 DEF IsRemote
  <2> QED BY <2>1, <2>3, <2>4, <2>5
<1>5. CASE UNCHANGED <<mScreens, serving, activeScreen, remoteControl>>
  BY <1>5 DEF HaveDifferentIndices, IsRemote
<1> QED BY <1>1, <1>2, <1>3, <1>4, <1>5, StepKinds

\* The router's cursor and its capture mode follow the store in every state.
THEOREM RouterInvariant == Spec => []RouterInv
<1>1. SessionInv /\ RouterInv /\ StoreTypeOK /\ StoreTypeOK' /\ [Next]_vars => RouterInv'
  BY NextKeepsRouter
<1> QED BY <1>1, InitRouter, SessionInvariant, ServerImplementsStore, StoreTypeCorrect,
           PTL DEF Spec

\* mActiveScreen is never dangling.
THEOREM ActiveScreenIsAlive == Spec => []ActiveIsRegistered
<1>1. RouterInv => ActiveIsRegistered
  BY DEF RouterInv
<1> QED BY <1>1, RouterInvariant, PTL

\* The cursor has a screen whenever the server has one of its own.
THEOREM CursorIsNeverLost == Spec => []CursorHasAScreen
<1>1. RouterInv => CursorHasAScreen
  BY DEF RouterInv
<1> QED BY <1>1, RouterInvariant, PTL

\* The server's desktop is never without input while the cursor is on it.
THEOREM DesktopKeepsItsInput == Spec => []CaptureFollowsCursor
<1>1. RouterInv => CaptureFollowsCursor
  BY DEF RouterInv
<1> QED BY <1>1, RouterInvariant, PTL
-----------------------------------------------------------------------------
\* The refinement of Focus.

\* The first state of the server is one of Focus.
LEMMA InitIsFocusInit == Init => Input!FocusInit
BY DEF Init, StoreInit, Input!FocusInit, Present, FocusNow, IsRemote

\* A cursor that is home is the focus at Home, and nothing is withheld.
LEMMA HomeIsFocusHome ==
  ASSUME CursorIsHome  PROVE FocusNow' = LocalEndpoint /\ remoteControl' = FALSE
BY DEF CursorIsHome, FocusNow, IsRemote

\* Every step of the server is a step of Focus, or none.
LEMMA ServerStepIsFocusStep ==
  ASSUME SessionInv, SessionInv', RouterInv, StoreTypeOK, StoreTypeOK', [Next]_vars
  PROVE  [Input!FocusNext]_(Input!focusVars)
<1> USE DEF Input!FocusNext, Input!focusVars
<1>1. CASE Start
  <2>1. mScreens = {} /\ (\A v \in mScreens' : v.local) /\ CursorIsHome
    BY <1>1, StartIsHome
  <2>2. Present' = Present
    BY <2>1 DEF Present
  <2> QED BY <2>1, <2>2, HomeIsFocusHome DEF Input!GoHome
<1>2. CASE Gone
  <2>1. Present' = {} /\ FocusNow' = LocalEndpoint /\ remoteControl' = FALSE
    BY <1>2 DEF Gone, Restart, Present, FocusNow, IsRemote
  <2> QED BY <2>1 DEF Input!End
<1>3. ASSUME NEW ep \in Client, ClientChanges(ep)
      PROVE  Input!Change(ep)
  <2>1. Present' = Present \cup {ep} \/ Present' = Present \ {ep}
    <3>1. \A e : e # ep => (e \in Present' <=> e \in Present)
      BY <1>3 DEF ClientChanges, Present
    <3> QED BY <3>1
  <2>2. FocusNow = ep <=> ActiveIsOf(ep)
    BY DEF FocusNow, IsRemote, ActiveIsOf, Client, SessionInv, ScreensAreOwned,
           RouterInv, ActiveIsRegistered
  <2>3. CASE ActiveIsOf(ep)
    <3>1. CursorIsHome
      BY <1>3, <2>3 DEF ClientChanges
    <3> QED BY <2>1, <2>2, <2>3, <3>1, HomeIsFocusHome DEF Input!Change
  <2>4. CASE activeScreen = None
    <3>1. FocusNow = LocalEndpoint /\ remoteControl = FALSE
      BY <2>4 DEF FocusNow, IsRemote, RouterInv, CaptureFollowsCursor
    <3>2. CursorIsHome
      BY <1>3, <2>4 DEF ClientChanges
    <3> QED BY <2>1, <3>1, <3>2, HomeIsFocusHome DEF Input!Change, Client
  <2>5. CASE activeScreen # None /\ ~ActiveIsOf(ep)
    <3>1. UNCHANGED <<FocusNow, remoteControl>>
      BY <1>3, <2>5 DEF ClientChanges, FocusNow, IsRemote
    <3> QED BY <2>1, <2>2, <2>5, <3>1 DEF Input!Change
  <2> QED BY <2>3, <2>4, <2>5
<1>4. CASE MouseMove \/ OtherInput \/ Hotkey
  <2>1. /\ UNCHANGED mScreens
        /\ \/ CursorIsHome
           \/ CursorIsMoved
           \/ UNCHANGED <<activeScreen, remoteControl>>
    BY <1>4, InputMovesCursor DEF StoreTypeOK, storeVars, RouterInv
  <2>2. Present' = Present
    BY <2>1 DEF Present
  <2>3. CASE CursorIsHome
    BY <2>2, <2>3, HomeIsFocusHome DEF Input!GoHome
  <2>4. CASE CursorIsMoved /\ IsRemote(activeScreen')
    <3>1. /\ activeScreen'.endpoint \in Client
          /\ activeScreen'.endpoint \in Present
      BY <2>4 DEF CursorIsMoved, IsRemote, Present, SessionInv, ScreensAreOwned
    <3>2. FocusNow' = activeScreen'.endpoint /\ remoteControl' \in {remoteControl, TRUE}
      BY <2>4 DEF CursorIsMoved, FocusNow
    <3> QED BY <2>2, <3>1, <3>2 DEF Input!GoTo
  <2>5. CASE CursorIsMoved /\ ~IsRemote(activeScreen')
    BY <2>2, <2>5 DEF CursorIsMoved, FocusNow, Input!GoHome
  <2>6. CASE UNCHANGED <<activeScreen, remoteControl>>
    BY <2>2, <2>6 DEF FocusNow, IsRemote
  <2> QED BY <2>1, <2>3, <2>4, <2>5, <2>6
<1>5. CASE UNCHANGED <<mScreens, serving, activeScreen, remoteControl>>
  BY <1>5 DEF Present, FocusNow, IsRemote
<1> QED BY <1>1, <1>2, <1>3, <1>4, <1>5, StepKinds

\* The server keeps its promise about the input: it goes to a client only by a
\* move of the cursor, and comes home with the end of that client's screens.
THEOREM ServerKeepsFocus == Spec => FocusPromise
<1>1. SessionInv /\ SessionInv' /\ RouterInv /\ StoreTypeOK /\ StoreTypeOK' /\ [Next]_vars
        => [Input!FocusNext]_(Input!focusVars)
  BY ServerStepIsFocusStep
<1> QED BY <1>1, InitIsFocusInit, SessionInvariant, RouterInvariant,
           ServerImplementsStore, StoreTypeCorrect,
           PTL DEF Spec, FocusPromise, Input!FocusSpec

-----------------------------------------------------------------------------
\* Where a crossing ends.

\* A clamped number is within its bounds.
LEMMA ClampFacts ==
  ASSUME NEW v \in Int, NEW lo \in Int, NEW hi \in Int, lo <= hi
  PROVE  Clamp(v, lo, hi) \in lo..hi
BY DEF Clamp

\* The coordinate along the border is one of the target's pixels.
LEMMA EntryCoordinateFacts ==
  ASSUME NEW source \in Int, NEW sourceExtent \in Int, NEW targetExtent \in Int
  PROVE  /\ EntryCoordinate(source, sourceExtent, targetExtent) \in Int
         /\ targetExtent > 0 =>
              EntryCoordinate(source, sourceExtent, targetExtent) \in 0..(targetExtent - 1)
<1>1. CASE sourceExtent <= 1 \/ targetExtent <= 1
  BY <1>1 DEF EntryCoordinate
<1>2. CASE ~(sourceExtent <= 1 \/ targetExtent <= 1)
  <2> DEFINE sourceSpan == sourceExtent - 1
             targetSpan == targetExtent - 1
             clamped    == Clamp(source, 0, sourceSpan)
  <2>1. sourceSpan \in Int /\ sourceSpan > 0 /\ targetSpan \in Int /\ 0 <= targetSpan
    BY <1>2
  <2>2. clamped \in Int
    BY <2>1, ClampFacts
  <2> HIDE DEF sourceSpan, targetSpan, clamped
  <2>3. clamped * targetSpan \in Int
    BY <2>1, <2>2
  <2> DEFINE rounded == RoundedQuotient(clamped * targetSpan, sourceSpan)
  <2>4. rounded \in Int
    BY <2>1, <2>3 DEF RoundedQuotient
  <2>5. EntryCoordinate(source, sourceExtent, targetExtent) = Clamp(rounded, 0, targetSpan)
    BY <1>2 DEF EntryCoordinate, sourceSpan, targetSpan, clamped
  <2> HIDE DEF rounded
  <2>6. Clamp(rounded, 0, targetSpan) \in 0..targetSpan
    BY <2>1, <2>4, ClampFacts
  <2> QED BY <1>2, <2>5, <2>6 DEF targetSpan
<1> QED BY <1>1, <1>2

\* The point is one of the screen's pixels.
IsPixel(info, point) ==
  point.x \in 0..(info.width - 1) /\ point.y \in 0..(info.height - 1)

\* A crossing ends on a pixel of a screen of the topology.
LEMMA EntryPointFacts ==
  ASSUME StoreTypeOK, NEW point \in ScreenPoint, NEW edge \in Edges,
         Crosses(point, edge)
  PROVE  LET entry == CrossTo(point, edge)
         IN /\ entry \in ScreenPoint
            /\ entry.key \in DOMAIN mTopology.screens
            /\ IsValidRect(mTopology.screens[entry.key].info) =>
                 IsPixel(mTopology.screens[entry.key].info, entry)
<1> DEFINE key    == point.key
           next   == FindNeighbor(mTopology, key, edge)
           source == mTopology.screens[key].info
           target == mTopology.screens[next].info
           across == EntryCoordinate(point.x, source.width, target.width)
           along  == EntryCoordinate(point.y, source.height, target.height)
           ex == CASE edge = "Left"  -> target.width - 1
                   [] edge = "Right" -> 0
                   [] OTHER -> across
           ey == CASE edge = "Top"    -> target.height - 1
                   [] edge = "Bottom" -> 0
                   [] OTHER -> along
<1>1. CrossTo(point, edge) = [key |-> next, x |-> ex, y |-> ey]
  BY DEF CrossTo, MapEntryPoint
<1>2. key \in DOMAIN mTopology.screens /\ next \in DOMAIN mTopology.screens
  BY DEF Crosses, CanMapEntryPoint, HasNeighbor
<1>3. next \in ScreenKey /\ source \in ScreenInfo /\ target \in ScreenInfo
  BY <1>2 DEF StoreTypeOK, TopologyScreen
<1> HIDE DEF next, source, target
<1>4. /\ point.x \in Int /\ point.y \in Int
      /\ source.width \in Int /\ source.height \in Int
      /\ target.width \in Int /\ target.height \in Int
  BY <1>3 DEF ScreenPoint, ScreenInfo
<1>5. /\ across \in Int /\ (target.width > 0 => across \in 0..(target.width - 1))
      /\ along \in Int /\ (target.height > 0 => along \in 0..(target.height - 1))
  BY <1>4, EntryCoordinateFacts
<1> HIDE DEF across, along
<1>6. /\ ex \in Int /\ (target.width > 0 => ex \in 0..(target.width - 1))
      /\ ey \in Int /\ (target.height > 0 => ey \in 0..(target.height - 1))
  BY <1>4, <1>5 DEF Edges
<1> HIDE DEF ex, ey
<1>7. [key |-> next, x |-> ex, y |-> ey] \in ScreenPoint
  BY <1>3, <1>6 DEF ScreenPoint
<1> QED BY <1>1, <1>2, <1>6, <1>7 DEF IsPixel, IsValidRect, target

-----------------------------------------------------------------------------
\* The cursor: the values the router keeps, and the pixel it is on.

CursorInv ==
  /\ activePoint \in ScreenPoint \cup {None}
  /\ lastLocalMouse \in LocalPosition \cup {None}
  /\ pendingLocalWarp \in ScreenPoint \cup {None}
  /\ CursorOnScreen

\* What the store says of the screens while the router works.
StoreFacts == StoreTypeOK /\ TopologyIsRoutable /\ RoutableIsInTopology

\* A point of the screen that is active, or of one that is about to be.
IsPointOf(screen, point) ==
  /\ point \in ScreenPoint
  /\ point.key = screen.key
  /\ ExclusiveOwners => IsPixel(screen.info, point)

\* A server that has just started has no cursor.
LEMMA InitCursor == Init => CursorInv
BY DEF Init, CursorInv, CursorOnScreen, IsRemote

\* The origin is a pixel of every screen.
LEMMA OriginIsPoint ==
  ASSUME StoreTypeOK, NEW screen \in mScreens
  PROVE  IsPointOf(screen, AtOrigin(screen))
BY DEF StoreTypeOK, VirtualScreen, ScreenInfo, IsValidRect, AtOrigin, ScreenPoint,
       IsPointOf, IsPixel

\* A screen that is active is one of the store, with pixels.
LEMMA ActiveFacts ==
  ASSUME StoreTypeOK, RouterInv, activeScreen # None
  PROVE  /\ activeScreen \in mScreens
         /\ activeScreen \in VirtualScreen
         /\ activeScreen.key \in ScreenKey
         /\ activeScreen.endpoint \in Endpoint
BY DEF StoreTypeOK, RouterInv, ActiveIsRegistered, VirtualScreen

\* While a client's screen is active, the point is one of its pixels.
LEMMA RemoteFacts ==
  ASSUME StoreTypeOK, RouterInv, CursorInv, IsRemote(activeScreen)
  PROVE  /\ IsPointOf(activeScreen, activePoint)
         /\ RemoteBase = activePoint
         /\ activePoint \in ScreenPoint
BY DEF CursorInv, CursorOnScreen, IsPointOf, IsPixel, RemoteBase

\* A switch goes to a pixel of the screen it makes active, or leaves the screen
\* as it is.
LEMMA SwitchFacts ==
  ASSUME StoreFacts, RouterInv, CursorInv, NEW point \in ScreenPoint, NEW edge \in Edges,
         Crosses(point, edge), NEW here,
         SwitchActiveScreen(CrossTo(point, edge), here)
  PROVE  \/ /\ activeScreen' \in mScreens
            /\ IsPointOf(activeScreen', activePoint')
            /\ pendingLocalWarp' \in {pendingLocalWarp, activePoint', None}
            /\ Enter(activeScreen', activePoint')
         \/ /\ activePoint' = here
            /\ UNCHANGED <<activeScreen, pendingLocalWarp, remoteControl, channelVars, dropped>>
<1> DEFINE entry  == CrossTo(point, edge)
           screen == FindScreen(mScreens, entry.key)
<1>1. /\ entry \in ScreenPoint
      /\ entry.key \in DOMAIN mTopology.screens
      /\ IsValidRect(mTopology.screens[entry.key].info) =>
           IsPixel(mTopology.screens[entry.key].info, entry)
  BY EntryPointFacts DEF StoreFacts
<1> HIDE DEF entry
<1>2. CASE screen = None
  BY <1>2 DEF SwitchActiveScreen, entry
<1>3. CASE screen # None
  <2> DEFINE found == {v \in mScreens : v.key = entry.key}
  <2>1. found \subseteq VirtualScreen /\ HaveDifferentIndices(found) /\ found # {}
    BY <1>3 DEF StoreFacts, StoreTypeOK, RouterInv, HaveDifferentIndices, FindScreen, FirstOf
  <2>2. screen \in found
    BY <2>1, FirstOfIsMember DEF FindScreen
  <2>3. screen \in mScreens /\ screen.key = entry.key
    BY <2>2
  <2>4. Enter(screen, entry)
    BY <1>3 DEF SwitchActiveScreen, entry
  <2> HIDE DEF screen
  <2>5. ExclusiveOwners => IsPixel(screen.info, entry)
    BY <1>1, <2>3 DEF StoreFacts, StoreTypeOK, RoutableIsInTopology
  <2>6. activeScreen' = screen /\ activePoint' = entry
        /\ pendingLocalWarp' \in {pendingLocalWarp, entry, None}
    BY <2>4 DEF Enter
  <2> QED BY <1>1, <2>3, <2>4, <2>5, <2>6 DEF IsPointOf
<1> QED BY <1>2, <1>3

\* A point whose coordinates are replaced has its old key.
LEMMA PointExcept ==
  ASSUME NEW point \in ScreenPoint, NEW a, NEW b
  PROVE  [point EXCEPT !.x = a, !.y = b] = [key |-> point.key, x |-> a, y |-> b]
<1> DEFINE new == [point EXCEPT !.x = a, !.y = b]
<1>1. DOMAIN point = {"key", "x", "y"}
  BY DEF ScreenPoint
<1>2. new = [i \in {"key", "x", "y"} |-> new[i]]
  BY <1>1
<1>3. new.key = point.key /\ new.x = a /\ new.y = b
  BY <1>1
<1> HIDE DEF new
<1>4. new = [key |-> point.key, x |-> a, y |-> b]
  BY <1>2, <1>3
<1> QED BY <1>4 DEF new

\* The cursor moves by its own motion: still a pixel of its screen.
LEMMA OnScreenFacts ==
  ASSUME StoreTypeOK, NEW screen \in mScreens, NEW point \in ScreenPoint,
         point.key = screen.key
  PROVE  IsPointOf(screen, OnScreen(screen, point))
<1>1. /\ screen.info.width \in Int /\ screen.info.width > 0
      /\ screen.info.height \in Int /\ screen.info.height > 0
  BY DEF StoreTypeOK, VirtualScreen, ScreenInfo, IsValidRect
<1> DEFINE px == Clamp(point.x, 0, screen.info.width - 1)
           py == Clamp(point.y, 0, screen.info.height - 1)
<1>2. px \in 0..(screen.info.width - 1) /\ py \in 0..(screen.info.height - 1)
  <2>1. point.x \in Int /\ point.y \in Int
    BY DEF ScreenPoint
  <2> QED BY <1>1, <2>1 DEF Clamp
<1>3. OnScreen(screen, point) = [key |-> point.key, x |-> px, y |-> py]
  BY PointExcept DEF OnScreen
<1> HIDE DEF px, py
<1>4. px \in Int /\ py \in Int /\ point.key \in ScreenKey
  BY <1>1, <1>2 DEF ScreenPoint
<1> QED BY <1>2, <1>3, <1>4 DEF IsPointOf, IsPixel, ScreenPoint

\* What the mouse adds to the cursor's position is a position.
LEMMA MotionFacts ==
  ASSUME CursorInv, NEW m \in MouseSamples, NEW base \in ScreenPoint
  PROVE  /\ [x |-> m.x, y |-> m.y] \in LocalPosition
         /\ [base EXCEPT !.x = @ + Delta(m).x, !.y = @ + Delta(m).y] \in ScreenPoint
         /\ [base EXCEPT !.x = @ + Delta(m).x, !.y = @ + Delta(m).y].key = base.key
<1>1. /\ m.screenIndex \in Nat /\ m.x \in Int /\ m.y \in Int
      /\ m.deltaX \in Int /\ m.deltaY \in Int
  BY MouseSamplesAssumption DEF MouseSample
<1>2. Delta(m).x \in Int /\ Delta(m).y \in Int
  BY <1>1 DEF Delta, CursorInv, LocalPosition
<1> DEFINE dx == Delta(m).x
           dy == Delta(m).y
<1> HIDE DEF dx, dy
<1>3. [base EXCEPT !.x = @ + dx, !.y = @ + dy]
        = [key |-> base.key, x |-> base.x + dx, y |-> base.y + dy]
  BY PointExcept
<1>4. base.x + dx \in Int /\ base.y + dy \in Int /\ base.key \in ScreenKey
  BY <1>2 DEF ScreenPoint, dx, dy
<1>5. [key |-> base.key, x |-> base.x + dx, y |-> base.y + dy] \in ScreenPoint
  BY <1>4 DEF ScreenPoint
<1> QED BY <1>1, <1>3, <1>5 DEF LocalPosition, dx, dy

\* A local screen is made active, or none: the cursor starts at its origin.
LEMMA HomeKeepsCursor ==
  ASSUME StoreTypeOK', HaveDifferentIndices(mScreens'), ActivateFirstLocalScreen(mScreens')
  PROVE  CursorInv'
<1> DEFINE screen == FirstLocalScreen(mScreens')
<1>1. mScreens' \subseteq VirtualScreen
  BY DEF StoreTypeOK
<1>2. screen # None => screen \in mScreens' /\ screen.local
  BY <1>1, FirstLocalFacts
<1>3. screen # None => AtOrigin(screen) \in ScreenPoint
  BY <1>1, <1>2 DEF AtOrigin, ScreenPoint, VirtualScreen
<1>4. /\ activeScreen' = screen
      /\ activePoint' = IF screen = None THEN None ELSE AtOrigin(screen)
      /\ lastLocalMouse' = None /\ pendingLocalWarp' = None
  BY DEF ActivateFirstLocalScreen
<1> HIDE DEF screen
<1> QED BY <1>2, <1>3, <1>4 DEF CursorInv, CursorOnScreen, IsRemote

\* A switch keeps the cursor on the pixels of the screen that is active.
LEMMA SwitchKeepsCursor ==
  ASSUME StoreFacts, RouterInv, CursorInv, NEW point \in ScreenPoint, NEW edge \in Edges,
         Crosses(point, edge), NEW here \in ScreenPoint,
         activeScreen # None, activeScreen.local \/ IsPointOf(activeScreen, here),
         SwitchActiveScreen(CrossTo(point, edge), here),
         lastLocalMouse' \in LocalPosition
  PROVE  CursorInv'
<1>1. CASE /\ activeScreen' \in mScreens
           /\ IsPointOf(activeScreen', activePoint')
           /\ pendingLocalWarp' \in {pendingLocalWarp, activePoint', None}
  <2>1. activePoint' \in ScreenPoint
    BY <1>1 DEF IsPointOf
  <2>2. activePoint' # None
    BY <2>1, NoneAssumption
  <2> QED BY <1>1, <2>1, <2>2 DEF CursorInv, CursorOnScreen, IsPointOf, IsPixel
<1>2. CASE activePoint' = here /\ UNCHANGED <<activeScreen, pendingLocalWarp>>
  <2>1. here # None
    BY NoneAssumption
  <2> QED BY <1>2, <2>1 DEF CursorInv, CursorOnScreen, IsPointOf, IsPixel, IsRemote
<1> QED BY <1>1, <1>2, SwitchFacts

\* handleMouseMove keeps the cursor's values.
LEMMA LocalMoveKeepsCursor ==
  ASSUME StoreFacts, RouterInv, CursorInv, NEW m \in MouseSamples, HandleMouseMove(m)
  PROVE  CursorInv'
<1> DEFINE point == [key |-> [ownerId |-> activeScreen.key.ownerId,
                              screenIndex |-> m.screenIndex],
                     x |-> m.x, y |-> m.y]
<1>1. activeScreen # None /\ activeScreen.local
  BY DEF HandleMouseMove, IsLocal
<1>2. m.screenIndex \in Nat /\ m.x \in Int /\ m.y \in Int
  BY MouseSamplesAssumption DEF MouseSample
<1>3. point \in ScreenPoint
  <2>1. activeScreen.key.ownerId \in OwnerId
    BY <1>1, ActiveFacts DEF StoreFacts, ScreenKey
  <2> QED BY <1>2, <2>1 DEF ScreenPoint, ScreenKey
<1>4. lastLocalMouse' \in LocalPosition
  BY <1>2 DEF HandleMouseMove, LocalPosition
<1>5. CASE /\ activePoint' = point /\ UNCHANGED activeScreen
           /\ pendingLocalWarp' \in {pendingLocalWarp, None}
  BY <1>1, <1>3, <1>4, <1>5 DEF CursorInv, CursorOnScreen, IsRemote
<1>6. CASE \E edge \in Edges :
             Crosses(point, edge) /\ SwitchActiveScreen(CrossTo(point, edge), point)
  BY <1>1, <1>3, <1>4, <1>6, SwitchKeepsCursor
<1>7. \/ /\ activePoint' = point /\ UNCHANGED activeScreen
         /\ pendingLocalWarp' \in {pendingLocalWarp, None}
      \/ \E edge \in Edges :
           Crosses(point, edge) /\ SwitchActiveScreen(CrossTo(point, edge), point)
  BY DEF HandleMouseMove
<1> QED BY <1>5, <1>6, <1>7

\* handleRemoteMouseMove keeps the cursor on the pixels of a screen.
LEMMA RemoteMoveKeepsCursor ==
  ASSUME StoreFacts, RouterInv, CursorInv, NEW m \in MouseSamples, HandleRemoteMouseMove(m)
  PROVE  CursorInv'
<1> DEFINE moved == [RemoteBase EXCEPT !.x = @ + Delta(m).x, !.y = @ + Delta(m).y]
<1>1. IsRemote(activeScreen) /\ activeScreen # None
  BY DEF HandleRemoteMouseMove, IsRemote
<1>2. /\ IsPointOf(activeScreen, RemoteBase)
      /\ RemoteBase = activePoint
      /\ activeScreen \in mScreens
  BY <1>1, RemoteFacts, ActiveFacts DEF StoreFacts
<1>3. /\ RemoteBase \in ScreenPoint
      /\ RemoteBase.key = activeScreen.key
      /\ moved \in ScreenPoint
      /\ moved.key = activeScreen.key
      /\ [x |-> m.x, y |-> m.y] \in LocalPosition
  BY <1>2, MotionFacts DEF IsPointOf
<1>4. lastLocalMouse' \in LocalPosition
  BY <1>3 DEF HandleRemoteMouseMove
<1> HIDE DEF moved
<1>5. CASE activePoint' = RemoteBase /\ UNCHANGED <<activeScreen, pendingLocalWarp>>
  BY <1>2, <1>4, <1>5 DEF CursorInv, CursorOnScreen
<1>6. CASE \E edge \in Edges :
             Crosses(moved, edge) /\ SwitchActiveScreen(CrossTo(moved, edge), RemoteBase)
  BY <1>1, <1>2, <1>3, <1>4, <1>6, SwitchKeepsCursor
<1>7. CASE /\ activePoint' = OnScreen(activeScreen, moved)
           /\ UNCHANGED <<activeScreen, pendingLocalWarp>>
  <2>1. IsPointOf(activeScreen, activePoint')
    BY <1>2, <1>3, <1>7, OnScreenFacts DEF StoreFacts
  <2>2. activePoint' \in ScreenPoint /\ activePoint' # None
    BY <2>1, NoneAssumption DEF IsPointOf
  <2> QED BY <1>4, <1>7, <2>1, <2>2 DEF CursorInv, CursorOnScreen, IsPointOf, IsPixel
<1>8. \/ activePoint' = RemoteBase /\ UNCHANGED <<activeScreen, pendingLocalWarp>>
      \/ \E edge \in Edges :
           Crosses(moved, edge) /\ SwitchActiveScreen(CrossTo(moved, edge), RemoteBase)
      \/ /\ activePoint' = OnScreen(activeScreen, moved)
         /\ UNCHANGED <<activeScreen, pendingLocalWarp>>
  BY DEF HandleRemoteMouseMove, moved
<1> QED BY <1>5, <1>6, <1>7, <1>8

\* Every step of the server keeps the cursor on a pixel of its screen.
LEMMA NextKeepsCursor ==
  ASSUME StoreFacts, StoreTypeOK', RouterInv, RouterInv', CursorInv, [Next]_vars
  PROVE  CursorInv'
<1>1. HaveDifferentIndices(mScreens')
  BY DEF RouterInv
<1>2. ASSUME ActivateFirstLocalScreen(mScreens')  PROVE CursorInv'
  BY <1>1, <1>2, HomeKeepsCursor
<1>3. ASSUME UNCHANGED cursorVars  PROVE CursorInv'
  BY <1>3 DEF cursorVars, CursorInv, CursorOnScreen, IsRemote
<1>4. CASE Start
  BY <1>2, <1>3, <1>4 DEF Start, AfterRegistration
<1>5. CASE Gone
  BY <1>5 DEF Gone, CursorInv, CursorOnScreen, IsRemote
<1>6. CASE MouseMove
  BY <1>6, LocalMoveKeepsCursor, RemoteMoveKeepsCursor DEF MouseMove
<1>7. CASE Hotkey
  <2>1. mScreens' = mScreens
    BY <1>7 DEF Hotkey, storeVars
  <2>2. ActivateFirstLocalScreen(mScreens')
    BY <1>7, <2>1 DEF Hotkey, HandleHotkey
  <2> QED BY <1>2, <2>2
<1>8. CASE OtherInput
  BY <1>3, <1>8 DEF OtherInput, HandleOther
<1>9. ASSUME NEW ep \in Client, SessionStep(ep)  PROVE CursorInv'
  <2>1. CASE HandshakeFails(ep) \/ CloseSession(ep)
    BY <1>2, <1>3, <2>1 DEF HandshakeFails, CloseSession, OnClosed, AfterRemoval
  <2>2. CASE ReadScreens(ep)
    BY <1>2, <1>3, <2>2 DEF ReadScreens, AfterRegistration
  <2>3. CASE Accept(ep) \/ Hello(ep) \/ StartWriter(ep) \/ Write(ep) \/ EndLoops(ep)
    BY <1>3, <2>3 DEF Accept, Hello, StartWriter, Write, EndLoops, routerVars
  <2> QED BY <1>9, <2>1, <2>2, <2>3 DEF SessionStep
<1>10. CASE AcceptFails \/ Stop \/ UNCHANGED vars
  BY <1>3, <1>10 DEF AcceptFails, Stop, vars, routerVars
<1> QED BY <1>4, <1>5, <1>6, <1>7, <1>8, <1>9, <1>10 DEF Next, Stopped, Crash

\* What the store says holds of it in the server.
LEMMA StoreFactsHold == Spec => []StoreFacts
BY ServerImplementsStore, StoreTypeCorrect, NoGhostScreens, NoOrphanScreens, PTL
DEF StoreFacts

\* The router's values and the cursor's pixel, in every state.
THEOREM CursorInvariant == Spec => []CursorInv
<1>1. StoreFacts /\ StoreTypeOK' /\ RouterInv /\ RouterInv' /\ CursorInv /\ [Next]_vars => CursorInv'
  BY NextKeepsCursor
<1>2. StoreFacts => StoreTypeOK
  BY DEF StoreFacts
<1> QED BY <1>1, <1>2, InitCursor, StoreFactsHold, RouterInvariant, PTL DEF Spec

\* The virtual cursor is on the screen that is active and within its pixels.
THEOREM CursorStaysOnScreen == Spec => []CursorOnScreen
<1>1. CursorInv => CursorOnScreen
  BY DEF CursorInv
<1> QED BY <1>1, CursorInvariant, PTL

-----------------------------------------------------------------------------
\* The channels: what the router queues, and what is left of a connection.

ChannelInv ==
  /\ dropped \in BOOLEAN
  /\ senders \subseteq Client /\ readers \subseteq senders
  /\ queue \in [Client -> Seq(Message)]
  /\ \A ep \in Client : Len(queue[ep]) <= QueueDepth
  /\ sent \in [Client -> ScreenPoint \cup {None}]
  /\ NothingLeftBehind

\* An input event moves the cursor on a client's screen and queues its position,
\* queues another message for the client that has the cursor, or is not for a
\* client: then no client's screen is entered and no position changes.
MoveIsQueued ==
  IsRemote(activeScreen') /\ activeScreen' \in mScreens /\ QueueMove(activeScreen', activePoint')

OtherIsQueued ==
  /\ IsRemote(activeScreen)
  /\ UNCHANGED <<cursorVars, dropped>>
  /\ QueueInput(activeScreen, KeyMessage) \/ QueueInput(activeScreen, ButtonAt(activePoint))

NothingIsQueued ==
  /\ UNCHANGED <<channelVars, dropped>>
  /\ IsRemote(activeScreen') => UNCHANGED <<activeScreen, activePoint>>

LEMMA SwitchQueues ==
  ASSUME StoreFacts, RouterInv, CursorInv, NEW point \in ScreenPoint, NEW edge \in Edges,
         Crosses(point, edge), NEW here, activeScreen # None,
         activeScreen.local \/ here = activePoint,
         SwitchActiveScreen(CrossTo(point, edge), here)
  PROVE  MoveIsQueued \/ NothingIsQueued
<1>1. CASE activeScreen' \in mScreens /\ Enter(activeScreen', activePoint')
  <2>1. activeScreen' # None
    BY <1>1, NoneAssumption DEF StoreFacts, StoreTypeOK
  <2> QED BY <1>1, <2>1 DEF Enter, MoveIsQueued, NothingIsQueued, IsRemote
<1>2. CASE /\ activePoint' = here
           /\ UNCHANGED <<activeScreen, pendingLocalWarp, remoteControl, channelVars, dropped>>
  BY <1>2 DEF NothingIsQueued, IsRemote
<1> QED BY <1>1, <1>2, SwitchFacts

LEMMA InputQueues ==
  ASSUME StoreFacts, RouterInv, RouterInv', CursorInv, MouseMove \/ OtherInput \/ Hotkey
  PROVE  MoveIsQueued \/ OtherIsQueued \/ NothingIsQueued
<1>1. ASSUME NEW m \in MouseSamples, HandleMouseMove(m)
      PROVE  MoveIsQueued \/ NothingIsQueued
  <2> DEFINE point == [key |-> [ownerId |-> activeScreen.key.ownerId,
                                screenIndex |-> m.screenIndex],
                       x |-> m.x, y |-> m.y]
  <2>1. activeScreen # None /\ activeScreen.local
    BY <1>1 DEF HandleMouseMove, IsLocal
  <2>2. point \in ScreenPoint
    <3>1. activeScreen.key.ownerId \in OwnerId
      BY <2>1, ActiveFacts DEF StoreFacts, ScreenKey
    <3>2. m.screenIndex \in Nat /\ m.x \in Int /\ m.y \in Int
      BY MouseSamplesAssumption DEF MouseSample
    <3> QED BY <3>1, <3>2 DEF ScreenPoint, ScreenKey
  <2>3. \/ UNCHANGED <<activeScreen, channelVars, dropped>>
        \/ \E edge \in Edges :
             Crosses(point, edge) /\ SwitchActiveScreen(CrossTo(point, edge), point)
    BY <1>1 DEF HandleMouseMove
  <2>4. UNCHANGED <<activeScreen, channelVars, dropped>> => NothingIsQueued
    BY <2>1 DEF NothingIsQueued, IsRemote
  <2> HIDE DEF point
  <2> QED BY <2>1, <2>2, <2>3, <2>4, SwitchQueues
<1>2. ASSUME NEW m \in MouseSamples, HandleRemoteMouseMove(m)
      PROVE  MoveIsQueued \/ NothingIsQueued
  <2> DEFINE moved == [RemoteBase EXCEPT !.x = @ + Delta(m).x, !.y = @ + Delta(m).y]
  <2>1. IsRemote(activeScreen) /\ activeScreen # None /\ activeScreen \in mScreens
    BY <1>2, ActiveFacts DEF HandleRemoteMouseMove, IsRemote, StoreFacts
  <2>2. RemoteBase = activePoint /\ RemoteBase \in ScreenPoint
    BY <2>1, RemoteFacts DEF StoreFacts
  <2>3. moved \in ScreenPoint
    BY <2>2, MotionFacts
  <2> HIDE DEF moved
  <2>4. \/ activePoint' = RemoteBase /\ UNCHANGED <<activeScreen, channelVars, dropped>>
        \/ \E edge \in Edges :
             Crosses(moved, edge) /\ SwitchActiveScreen(CrossTo(moved, edge), RemoteBase)
        \/ QueueMove(activeScreen, activePoint') /\ UNCHANGED activeScreen
    BY <1>2 DEF HandleRemoteMouseMove, moved
  <2>5. QueueMove(activeScreen, activePoint') /\ UNCHANGED activeScreen => MoveIsQueued
    BY <2>1 DEF MoveIsQueued, IsRemote, QueueMove, QueueInput, CanQueue
  <2>6. activePoint' = RemoteBase /\ UNCHANGED <<activeScreen, channelVars, dropped>>
          => NothingIsQueued
    BY <2>2 DEF NothingIsQueued
  <2> QED BY <2>1, <2>2, <2>3, <2>4, <2>5, <2>6, SwitchQueues
<1>3. OtherInput => OtherIsQueued
  BY DEF OtherInput, HandleOther, OtherIsQueued
<1>4. CASE Hotkey
  <2>1. ActivateFirstLocalScreen(mScreens) /\ UNCHANGED <<channelVars, dropped, mScreens>>
    BY <1>4 DEF Hotkey, HandleHotkey, storeVars
  <2>2. activeScreen' # None => activeScreen'.local
    BY <2>1, FirstLocalFacts DEF ActivateFirstLocalScreen, StoreFacts, StoreTypeOK, RouterInv
  <2> QED BY <2>1, <2>2 DEF NothingIsQueued, IsRemote
<1> QED BY <1>1, <1>2, <1>3, <1>4 DEF MouseMove

\* What is queued: a message, for one client that reads, within the depth.
LEMMA QueueInputFacts ==
  ASSUME ChannelInv, NEW screen, NEW message \in Message, QueueInput(screen, message)
  PROVE  /\ UNCHANGED <<senders, readers>>
         /\ \/ UNCHANGED queue
            \/ /\ screen.endpoint \in readers
               /\ screen.endpoint \in Client
               /\ queue' = [queue EXCEPT ![screen.endpoint] = Append(@, message)]
         /\ queue' \in [Client -> Seq(Message)]
         /\ \A ep \in Client : Len(queue'[ep]) <= QueueDepth
<1>1. CASE CanQueue(screen.endpoint)
  <2>1. /\ screen.endpoint \in readers /\ screen.endpoint \in Client
        /\ Len(queue[screen.endpoint]) < QueueDepth
        /\ queue' = [queue EXCEPT ![screen.endpoint] = Append(@, message)]
    BY <1>1 DEF CanQueue, ChannelInv, QueueInput
  <2>2. /\ Append(queue[screen.endpoint], message) \in Seq(Message)
        /\ Len(Append(queue[screen.endpoint], message)) = Len(queue[screen.endpoint]) + 1
        /\ Len(queue[screen.endpoint]) \in Nat
    <3>1. queue[screen.endpoint] \in Seq(Message)
      BY <2>1 DEF ChannelInv
    <3> QED BY <3>1, AppendProperties, LenProperties
  <2> QED BY <2>1, <2>2, QueueDepthAssumption DEF ChannelInv, QueueInput
<1>2. CASE ~CanQueue(screen.endpoint)
  BY <1>2 DEF QueueInput, ChannelInv
<1> QED BY <1>1, <1>2

LEMMA MessageFacts ==
  /\ KeyMessage \in Message /\ KeyMessage.kind = "key"
  /\ \A p \in ScreenPoint : /\ Move(p) \in Message /\ Move(p).kind = "move" /\ Move(p).at = p
                            /\ ButtonAt(p) \in Message /\ ButtonAt(p).kind = "button"
                            /\ ButtonAt(p).at = p
BY DEF Message, KeyMessage, Move, ButtonAt

\* A server that has just started has no channels.
LEMMA InitChannels == Init => ChannelInv
<1>1. <<>> \in Seq(Message) /\ Len(<<>>) = 0
  BY EmptySeq
<1> SUFFICES ASSUME Init  PROVE ChannelInv
  OBVIOUS
<1>2. /\ dropped = FALSE /\ senders = {} /\ readers = {}
      /\ queue = [ep \in Client |-> <<>>]
      /\ session = [ep \in Client |-> "none"]
      /\ owner = [ep \in Client |-> None]
      /\ sent = [ep \in Client |-> None]
  BY DEF Init
<1>3. /\ queue \in [Client -> Seq(Message)]
      /\ \A ep \in Client : Len(queue[ep]) <= QueueDepth
  BY <1>1, <1>2, QueueDepthAssumption
<1> QED BY <1>2, <1>3 DEF ChannelInv, NothingLeftBehind

\* What the input events leave as it is.
LEMMA InputLeavesSessions ==
  MouseMove \/ OtherInput \/ Hotkey => UNCHANGED <<session, owner, sent>>
BY DEF MouseMove, OtherInput, Hotkey, sessionVars

\* An input event queues a message with the cursor's position, for the client
\* that has the cursor, or none.
LEMMA InputQueuesAtCursor ==
  ASSUME StoreFacts, RouterInv, RouterInv', CursorInv, CursorInv',
         MouseMove \/ OtherInput \/ Hotkey
  PROVE  \/ UNCHANGED channelVars
         \/ \E message \in Message :
              /\ IsRemote(activeScreen')
              /\ QueueInput(activeScreen', message)
              /\ message.kind # "key" => message.at = activePoint'
<1>1. CASE MoveIsQueued
  <2>1. activePoint' \in ScreenPoint
    BY <1>1 DEF MoveIsQueued, CursorInv, CursorOnScreen
  <2>2. QueueInput(activeScreen', Move(activePoint'))
    BY <1>1 DEF MoveIsQueued, QueueMove
  <2> QED BY <1>1, <2>1, <2>2, MessageFacts DEF MoveIsQueued
<1>2. CASE OtherIsQueued
  <2>1. activePoint \in ScreenPoint /\ UNCHANGED <<activeScreen, activePoint>>
    BY <1>2 DEF OtherIsQueued, CursorInv, CursorOnScreen, cursorVars
  <2>2. \/ QueueInput(activeScreen, KeyMessage)
        \/ QueueInput(activeScreen, ButtonAt(activePoint))
    BY <1>2 DEF OtherIsQueued
  <2>3. \A message : QueueInput(activeScreen, message) => QueueInput(activeScreen', message)
    BY <2>1 DEF QueueInput, CanQueue
  <2> QED BY <1>2, <2>1, <2>2, <2>3, MessageFacts DEF OtherIsQueued
<1>3. CASE NothingIsQueued
  BY <1>3 DEF NothingIsQueued
<1> QED BY <1>1, <1>2, <1>3, InputQueues

\* dropped is a truth value after an input event too.
LEMMA InputDropType ==
  ASSUME StoreFacts, RouterInv, RouterInv', CursorInv, ChannelInv,
         MouseMove \/ OtherInput \/ Hotkey
  PROVE  dropped' \in BOOLEAN
BY InputQueues DEF MoveIsQueued, OtherIsQueued, NothingIsQueued, QueueMove, CanQueue, ChannelInv

\* What the write loop sends next.
LEMMA HeadFacts ==
  ASSUME ChannelInv, NEW ep \in Client, queue[ep] # <<>>
  PROVE  /\ Head(queue[ep]) \in Message
         /\ Head(queue[ep]).kind = "move" => Head(queue[ep]).at \in ScreenPoint
         /\ Tail(queue[ep]) \in Seq(Message)
         /\ Len(Tail(queue[ep])) = Len(queue[ep]) - 1
         /\ Len(queue[ep]) \in Nat /\ Len(queue[ep]) > 0
<1>1. queue[ep] \in Seq(Message)
  BY DEF ChannelInv
<1>2. Head(queue[ep]) \in Message
  BY <1>1, HeadTailProperties
<1>3. Head(queue[ep]).kind = "move" => Head(queue[ep]).at \in ScreenPoint
  BY <1>2 DEF Message
<1> QED BY <1>1, <1>2, <1>3, HeadTailProperties, EmptySeq, LenProperties

\* Nothing of a connection is left when its session is over: every step keeps
\* it so.
LEMMA NextKeepsChannels ==
  ASSUME SessionInv, StoreFacts, RouterInv, RouterInv', CursorInv, CursorInv', ChannelInv,
         [Next]_vars
  PROVE  ChannelInv'
<1>0. <<>> \in Seq(Message) /\ Len(<<>>) = 0
  BY EmptySeq
<1>1. CASE Gone
  <2>1. /\ dropped' = FALSE /\ senders' = {} /\ readers' = {}
        /\ queue' = [ep \in Client |-> <<>>]
        /\ session' = [ep \in Client |-> "none"]
        /\ owner' = [ep \in Client |-> None]
        /\ sent' = [ep \in Client |-> None]
    BY <1>1 DEF Gone, NoChannels, NoSessions
  <2>2. /\ queue' \in [Client -> Seq(Message)]
        /\ \A ep \in Client : Len(queue'[ep]) <= QueueDepth
    BY <1>0, <2>1, QueueDepthAssumption
  <2> QED BY <2>1, <2>2 DEF ChannelInv, NothingLeftBehind
<1>2. ASSUME UNCHANGED <<channelVars, dropped, session, owner, sent>>  PROVE ChannelInv'
  BY <1>2 DEF channelVars, ChannelInv, NothingLeftBehind
<1>3. CASE MouseMove \/ OtherInput \/ Hotkey
  <2>1. UNCHANGED <<session, owner, sent>> /\ dropped' \in BOOLEAN
    BY <1>3, InputLeavesSessions, InputDropType
  <2>2. CASE UNCHANGED channelVars
    BY <2>1, <2>2 DEF ChannelInv, channelVars, NothingLeftBehind
  <2>3. ASSUME NEW screen, NEW message \in Message, QueueInput(screen, message)
        PROVE  ChannelInv'
    <3>1. /\ UNCHANGED <<senders, readers>>
          /\ \/ UNCHANGED queue
             \/ /\ screen.endpoint \in readers
                /\ screen.endpoint \in Client
                /\ queue' = [queue EXCEPT ![screen.endpoint] = Append(@, message)]
          /\ queue' \in [Client -> Seq(Message)]
          /\ \A ep \in Client : Len(queue'[ep]) <= QueueDepth
      BY <2>3, QueueInputFacts
    <3>2. NothingLeftBehind'
      BY <2>1, <3>1 DEF ChannelInv, NothingLeftBehind
    <3> QED BY <2>1, <3>1, <3>2 DEF ChannelInv
  <2> QED BY <1>3, <2>2, <2>3, InputQueuesAtCursor
<1>4. ASSUME NEW ep \in Client, Accept(ep)  PROVE ChannelInv'
  BY <1>4 DEF Accept, routerVars, channelVars, ChannelInv, NothingLeftBehind, SessionInv
<1>5. ASSUME NEW ep \in Client, Hello(ep)  PROVE ChannelInv'
  BY <1>5 DEF Hello, routerVars, channelVars, ChannelInv, NothingLeftBehind, SessionInv
<1>6. ASSUME NEW ep \in Client, OnClosed(ep), session[ep] \in {"handshake", "closing"}
      PROVE  ChannelInv'
  BY <1>6 DEF OnClosed, ChannelInv, NothingLeftBehind, SessionInv
<1>7. ASSUME NEW ep \in Client, StartWriter(ep)  PROVE ChannelInv'
  BY <1>7 DEF StartWriter, sessionVars, ChannelInv, NothingLeftBehind, SessionInv
<1>8. ASSUME NEW ep \in Client, Write(ep)  PROVE ChannelInv'
  <2>1. /\ ep \in readers /\ queue[ep] # <<>>
        /\ queue' = [queue EXCEPT ![ep] = Tail(@)]
        /\ UNCHANGED <<senders, readers, dropped, session, owner>>
        /\ sent' = IF Head(queue[ep]).kind = "move"
                   THEN [sent EXCEPT ![ep] = Head(queue[ep]).at]
                   ELSE sent
    BY <1>8 DEF Write, sessionVars
  <2>2. session[ep] = "open"
    BY <2>1 DEF ChannelInv, NothingLeftBehind
  <2>3. sent' \in [Client -> ScreenPoint \cup {None}]
    BY <2>1, HeadFacts DEF ChannelInv
  <2>4. /\ queue' \in [Client -> Seq(Message)]
        /\ \A other \in Client : Len(queue'[other]) <= QueueDepth
    BY <2>1, HeadFacts, QueueDepthAssumption DEF ChannelInv
  <2>5. NothingLeftBehind'
    BY <2>1, <2>2 DEF ChannelInv, NothingLeftBehind
  <2> QED BY <2>1, <2>3, <2>4, <2>5 DEF ChannelInv
<1>9. ASSUME NEW ep \in Client, ReadScreens(ep)  PROVE ChannelInv'
  BY <1>2, <1>9 DEF ReadScreens, sessionVars
<1>10. ASSUME NEW ep \in Client, EndLoops(ep)  PROVE ChannelInv'
  BY <1>0, <1>10, QueueDepthAssumption
  DEF EndLoops, ChannelInv, NothingLeftBehind, SessionInv
<1>11. ASSUME NEW ep \in Client, SessionStep(ep)  PROVE ChannelInv'
  BY <1>4, <1>5, <1>6, <1>7, <1>8, <1>9, <1>10, <1>11
  DEF SessionStep, HandshakeFails, CloseSession
<1>12. CASE Start \/ AcceptFails \/ Stop \/ UNCHANGED vars
  BY <1>2, <1>12 DEF Start, AcceptFails, Stop, vars, routerVars, sessionVars
<1> QED BY <1>1, <1>3, <1>11, <1>12 DEF Next, Stopped, Crash

\* The channels follow the sessions, in every state.
THEOREM ChannelInvariant == Spec => []ChannelInv
<1>1. SessionInv /\ StoreFacts /\ RouterInv /\ RouterInv' /\ CursorInv /\ CursorInv'
        /\ ChannelInv /\ [Next]_vars => ChannelInv'
  BY NextKeepsChannels
<1> QED BY <1>1, InitChannels, SessionInvariant, StoreFactsHold, RouterInvariant,
           CursorInvariant, PTL DEF Spec

\* Nothing of a connection outlives its session.
THEOREM SessionsLeaveNothing == Spec => []NothingLeftBehind
<1>1. ChannelInv => NothingLeftBehind
  BY DEF ChannelInv
<1> QED BY <1>1, ChannelInvariant, PTL

\* The accept loop and the cancellation are flags.
FlagsOK == accepting \in BOOLEAN /\ stopping \in BOOLEAN

LEMMA NextKeepsFlags == FlagsOK /\ [Next]_vars => FlagsOK'
BY DEF FlagsOK, Next, Start, AcceptFails, Stop, Stopped, Crash, Gone, MouseMove, OtherInput,
       Hotkey, SessionStep, Accept, Hello, HandshakeFails, CloseSession, OnClosed, StartWriter,
       Write, ReadScreens, EndLoops, sessionVars, vars

\* The server's variables hold values of the members they stand for.
THEOREM ServerTypeCorrect == Spec => []ServerTypeOK
<1>1. Init => FlagsOK
  BY DEF Init, FlagsOK
<1>2. StoreFacts /\ SessionInv /\ RouterInv /\ CursorInv /\ ChannelInv /\ FlagsOK
        => ServerTypeOK
  BY DEF StoreFacts, SessionInv, RouterInv, CursorInv, ChannelInv, FlagsOK, ServerTypeOK,
         ActiveIsRegistered, StoreTypeOK
<1> QED BY <1>1, <1>2, NextKeepsFlags, StoreFactsHold, SessionInvariant, RouterInvariant,
           CursorInvariant, ChannelInvariant, PTL DEF Spec
-----------------------------------------------------------------------------
\* Input goes to the client that has the cursor, and to nobody else.

LEMMA StepQueuesAtCursor ==
  ASSUME SessionInv, StoreFacts, RouterInv, RouterInv', CursorInv, CursorInv', ChannelInv,
         [Next]_vars, NEW ep \in Client, Len(queue'[ep]) > Len(queue[ep])
  PROVE  LET message == queue'[ep][Len(queue'[ep])]
         IN /\ IsRemote(activeScreen') /\ activeScreen'.endpoint = ep
            /\ message.kind # "key" => message.at = activePoint'
<1>1. queue[ep] \in Seq(Message) /\ Len(queue[ep]) \in Nat
  BY LenProperties DEF ChannelInv
<1>2. CASE MouseMove \/ OtherInput \/ Hotkey
  <2>1. PICK message \in Message :
          /\ IsRemote(activeScreen')
          /\ QueueInput(activeScreen', message)
          /\ message.kind # "key" => message.at = activePoint'
    BY <1>1, <1>2, InputQueuesAtCursor DEF channelVars
  <2>2. /\ activeScreen'.endpoint = ep
        /\ queue'[ep] = Append(queue[ep], message)
    <3>1. ~UNCHANGED queue
      BY <1>1
    <3>2. /\ activeScreen'.endpoint \in Client
          /\ queue' = [queue EXCEPT ![activeScreen'.endpoint] = Append(@, message)]
      BY <2>1, <3>1, QueueInputFacts
    <3>3. activeScreen'.endpoint = ep
      BY <1>1, <3>2 DEF ChannelInv
    <3> QED BY <3>2, <3>3 DEF ChannelInv
  <2>3. queue'[ep][Len(queue'[ep])] = message
    BY <1>1, <2>2, AppendProperties
  <2> QED BY <2>1, <2>2, <2>3
<1>3. CASE Gone
  BY <1>1, <1>3, EmptySeq DEF Gone, NoChannels
<1>4. ASSUME NEW other \in Client, SessionStep(other)
      PROVE  Len(queue'[ep]) <= Len(queue[ep])
  <2>1. CASE Write(other)
    BY <1>1, <2>1, HeadFacts DEF Write, ChannelInv
  <2>2. CASE EndLoops(other)
    BY <1>1, <2>2, EmptySeq DEF EndLoops, ChannelInv
  <2>3. UNCHANGED queue => Len(queue'[ep]) <= Len(queue[ep])
    BY <1>1
  <2> QED BY <1>4, <2>1, <2>2, <2>3
      DEF SessionStep, Accept, Hello, HandshakeFails, CloseSession, OnClosed, StartWriter,
          ReadScreens, routerVars, channelVars
<1>5. CASE Start \/ AcceptFails \/ Stop \/ UNCHANGED vars
  BY <1>1, <1>5 DEF Start, AcceptFails, Stop, vars, routerVars, channelVars
<1> QED BY <1>1, <1>2, <1>3, <1>4, <1>5 DEF Next, Stopped, Crash

\* A step queues input for the client whose screen the cursor is on after it, at
\* the position it has there.
THEOREM InputFollowsCursor == Spec => InputGoesToTheCursor
<1>1. SessionInv /\ StoreFacts /\ RouterInv /\ RouterInv' /\ CursorInv /\ CursorInv'
        /\ ChannelInv /\ [Next]_vars
        => [\A ep \in Client :
              Len(queue'[ep]) > Len(queue[ep]) =>
                LET message == queue'[ep][Len(queue'[ep])]
                IN /\ IsRemote(activeScreen') /\ activeScreen'.endpoint = ep
                   /\ message.kind # "key" => message.at = activePoint']_vars
  BY StepQueuesAtCursor
<1> QED BY <1>1, SessionInvariant, StoreFactsHold, RouterInvariant, CursorInvariant,
           ChannelInvariant, PTL DEF Spec, InputGoesToTheCursor

-----------------------------------------------------------------------------
\* The client and the server agree on the cursor.

\* A nonempty set of indices has a greatest one.
LEMMA GreatestIndex ==
  ASSUME NEW n \in Nat, NEW S \in SUBSET (1..n), S # {}
  PROVE  \E i \in S : \A j \in S : j <= i
<1> DEFINE D == {n - i : i \in S}
<1>1. D \subseteq Nat /\ D # {}
  <2>1. \A i \in S : n - i \in Nat
    OBVIOUS
  <2>2. PICK i \in S : TRUE
    OBVIOUS
  <2>3. n - i \in D
    OBVIOUS
  <2> QED BY <2>1, <2>3
<1> HIDE DEF D
<1>2. PICK d \in D : \A e \in D : d <= e
  BY <1>1, LeastNat
<1>3. PICK i \in S : d = n - i
  BY DEF D
<1>4. \A j \in S : d <= n - j
  BY <1>2 DEF D
<1>5. \A j \in S : j <= i
  BY <1>3, <1>4
<1> QED BY <1>5

\* A last move, and its place.
IsLastMove(messages, i) ==
  /\ i \in 1..Len(messages)
  /\ messages[i].kind = "move"
  /\ \A j \in 1..Len(messages) : messages[j].kind = "move" => j <= i

LEMMA LastPositionIs ==
  ASSUME NEW messages \in Seq(Message), NEW p
  PROVE  /\ \A i : IsLastMove(messages, i) => LastPosition(messages, p) = messages[i].at
         /\ \/ \E i : IsLastMove(messages, i)
            \/ /\ \A i \in 1..Len(messages) : messages[i].kind # "move"
               /\ LastPosition(messages, p) = p
<1>1. Len(messages) \in Nat /\ DOMAIN messages = 1..Len(messages)
  BY LenProperties
<1> DEFINE moves == {i \in DOMAIN messages : messages[i].kind = "move"}
           last  == CHOOSE i \in moves : \A j \in moves : j <= i
<1>2. LastPosition(messages, p) = IF moves = {} THEN p ELSE messages[last].at
  BY DEF LastPosition
<1>3. moves \subseteq 1..Len(messages)
  BY <1>1
<1>4. \A i : IsLastMove(messages, i) => moves # {} /\ last = i
  <2> SUFFICES ASSUME NEW i, IsLastMove(messages, i)  PROVE moves # {} /\ last = i
    OBVIOUS
  <2>1. i \in moves /\ \A j \in moves : j <= i
    BY <1>1 DEF IsLastMove
  <2> HIDE DEF moves
  <2>2. last \in moves /\ \A j \in moves : j <= last
    BY <2>1
  <2> HIDE DEF last
  <2>3. last \in 1..Len(messages) /\ i \in 1..Len(messages)
    BY <1>3, <2>1, <2>2
  <2>4. last <= i /\ i <= last
    BY <2>1, <2>2
  <2>5. last = i
    BY <1>1, <2>3, <2>4
  <2> QED BY <2>1, <2>5
<1>5. moves # {} => \E i : IsLastMove(messages, i)
  <2> SUFFICES ASSUME moves # {}  PROVE \E i : IsLastMove(messages, i)
    OBVIOUS
  <2>1. PICK i \in moves : \A j \in moves : j <= i
    <3> HIDE DEF moves
    <3> QED BY <1>1, <1>3, GreatestIndex
  <2> QED BY <1>1, <2>1 DEF IsLastMove
<1>6. moves = {} => \A i \in 1..Len(messages) : messages[i].kind # "move"
  BY <1>1
<1> HIDE DEF moves, last
<1> QED BY <1>2, <1>4, <1>5, <1>6

\* A message that is queued changes the last position if it is a move.
LEMMA LastAfterAppend ==
  ASSUME NEW messages \in Seq(Message), NEW m \in Message, NEW p
  PROVE  LastPosition(Append(messages, m), p)
           = IF m.kind = "move" THEN m.at ELSE LastPosition(messages, p)
<1> DEFINE longer == Append(messages, m)
<1>1. /\ longer \in Seq(Message) /\ Len(longer) = Len(messages) + 1 /\ Len(messages) \in Nat
      /\ \A i \in 1..Len(messages) : longer[i] = messages[i]
      /\ longer[Len(longer)] = m
  BY AppendProperties, LenProperties
<1> HIDE DEF longer
<1>2. CASE m.kind = "move"
  <2>1. IsLastMove(longer, Len(longer))
    BY <1>1, <1>2 DEF IsLastMove
  <2>2. LastPosition(longer, p) = longer[Len(longer)].at
    BY <1>1, <2>1, LastPositionIs
  <2> QED BY <1>1, <1>2, <2>2 DEF longer
<1>3. CASE m.kind # "move"
  <2>1. \A i : IsLastMove(messages, i) => IsLastMove(longer, i) /\ longer[i] = messages[i]
    BY <1>1, <1>3 DEF IsLastMove
  <2>2. (\A i \in 1..Len(messages) : messages[i].kind # "move")
          => \A i \in 1..Len(longer) : longer[i].kind # "move"
    BY <1>1, <1>3
  <2>3. (\E i : IsLastMove(longer, i)) => \E i \in 1..Len(longer) : longer[i].kind = "move"
    BY DEF IsLastMove
  <2>4. LastPosition(longer, p) = LastPosition(messages, p)
    BY <1>1, <2>1, <2>2, <2>3, LastPositionIs
  <2> QED BY <1>3, <2>4 DEF longer
<1> QED BY <1>2, <1>3

\* Sending the head of the queue changes the last position to come for nobody.
LEMMA LastAfterSend ==
  ASSUME NEW messages \in Seq(Message), messages # <<>>, NEW p
  PROVE  LET head == Head(messages)
         IN LastPosition(Tail(messages), IF head.kind = "move" THEN head.at ELSE p)
              = LastPosition(messages, p)
<1> DEFINE head == Head(messages)
           rest == Tail(messages)
           q    == IF head.kind = "move" THEN head.at ELSE p
<1>1. /\ rest \in Seq(Message) /\ Len(messages) \in Nat /\ Len(messages) > 0
      /\ Len(rest) = Len(messages) - 1
      /\ head = messages[1]
      /\ \A i \in 1..Len(rest) : rest[i] = messages[i + 1]
  BY HeadTailProperties, EmptySeq, LenProperties
<1> HIDE DEF rest
<1>2. ASSUME NEW i, IsLastMove(rest, i)
      PROVE  IsLastMove(messages, i + 1) /\ rest[i] = messages[i + 1]
  <2>1. i \in 1..Len(rest) /\ i + 1 \in 1..Len(messages)
    BY <1>1, <1>2 DEF IsLastMove
  <2>2. ASSUME NEW j \in 1..Len(messages), messages[j].kind = "move"
        PROVE  j <= i + 1
    <3>1. CASE j = 1
      BY <2>1, <3>1
    <3>2. CASE j # 1
      <4>1. j - 1 \in 1..Len(rest) /\ (j - 1) + 1 = j
        BY <1>1, <3>2
      <4>2. rest[j - 1].kind = "move"
        BY <1>1, <2>2, <4>1
      <4> QED BY <1>2, <2>1, <4>1, <4>2 DEF IsLastMove
    <3> QED BY <3>1, <3>2
  <2> QED BY <1>1, <1>2, <2>1, <2>2 DEF IsLastMove
<1>3. CASE \E i : IsLastMove(rest, i)
  <2>1. PICK i : IsLastMove(rest, i)
    BY <1>3
  <2>2. LastPosition(rest, q) = rest[i].at
    BY <1>1, <2>1, LastPositionIs
  <2>3. LastPosition(messages, p) = messages[i + 1].at
    BY <1>2, <2>1, LastPositionIs
  <2> QED BY <1>2, <2>1, <2>2, <2>3 DEF rest
<1>4. CASE \A i \in 1..Len(rest) : rest[i].kind # "move"
  <2>1. LastPosition(rest, q) = q
    BY <1>1, <1>4, LastPositionIs DEF IsLastMove
  <2>2. \A j \in 1..Len(messages) : j # 1 => messages[j].kind # "move"
    <3> SUFFICES ASSUME NEW j \in 1..Len(messages), j # 1  PROVE messages[j].kind # "move"
      OBVIOUS
    <3>1. j - 1 \in 1..Len(rest) /\ (j - 1) + 1 = j
      BY <1>1
    <3> QED BY <1>1, <1>4, <3>1
  <2>3. CASE head.kind = "move"
    <3>1. IsLastMove(messages, 1)
      BY <1>1, <2>2, <2>3 DEF IsLastMove
    <3> QED BY <1>1, <2>1, <2>3, <3>1, LastPositionIs DEF rest
  <2>4. CASE head.kind # "move"
    <3>1. \A j \in 1..Len(messages) : messages[j].kind # "move"
      BY <1>1, <2>2, <2>4
    <3>2. LastPosition(messages, p) = p
      BY <3>1, LastPositionIs DEF IsLastMove
    <3> QED BY <2>1, <2>4, <3>2 DEF rest
  <2> QED BY <2>3, <2>4
<1>5. \/ \E i : IsLastMove(rest, i)
      \/ \A i \in 1..Len(rest) : rest[i].kind # "move"
  BY <1>1, LastPositionIs
<1> QED BY <1>3, <1>4, <1>5

-----------------------------------------------------------------------------
\* A client whose session is open while its screen is active reads its queue, and
\* will have the cursor where the server has it.
AgreeInv ==
  IsRemote(activeScreen) /\ session[activeScreen.endpoint] = "open" /\ ~dropped =>
    /\ activeScreen.endpoint \in readers
    /\ CursorAtClient(activeScreen.endpoint) = activePoint

\* The client that has the cursor has a session.
LEMMA ActiveClient ==
  ASSUME SessionInv, StoreFacts, RouterInv, IsRemote(activeScreen)
  PROVE  /\ activeScreen \in mScreens
         /\ activeScreen.endpoint \in Client
         /\ session[activeScreen.endpoint] \in {"open", "closing"}
<1>1. activeScreen \in mScreens /\ ~activeScreen.local
  BY ActiveFacts DEF StoreFacts, IsRemote
<1> QED BY <1>1 DEF SessionInv, ScreensAreOwned

\* A step that leaves the cursor, and what its client has and will get, keeps
\* the agreement.
LEMMA AgreementIsKept ==
  ASSUME AgreeInv, UNCHANGED <<activeScreen, activePoint, dropped>>,
         IsRemote(activeScreen) =>
           LET ep == activeScreen.endpoint
           IN session'[ep] = "open" =>
                /\ session[ep] = "open"
                /\ ep \in readers => ep \in readers'
                /\ LastPosition(queue'[ep], sent'[ep]) = LastPosition(queue[ep], sent[ep])
  PROVE  AgreeInv'
BY DEF AgreeInv, CursorAtClient, IsRemote

\* The cursor on a screen of the server leaves nothing to agree about.
LEMMA HomeNeedsNoAgreement ==
  ASSUME mScreens' \subseteq VirtualScreen, HaveDifferentIndices(mScreens'),
         ActivateFirstLocalScreen(mScreens')
  PROVE  AgreeInv'
<1>1. CursorIsHome
  BY ActivationBringsHome
<1> QED BY <1>1 DEF CursorIsHome, AgreeInv, IsRemote

\* An input event keeps the agreement: a position that is queued is the last one.
LEMMA InputKeepsAgreement ==
  ASSUME SessionInv, StoreFacts, RouterInv, RouterInv', CursorInv, CursorInv', ChannelInv,
         AgreeInv, MouseMove \/ OtherInput \/ Hotkey
  PROVE  AgreeInv'
<1>0. UNCHANGED <<session, owner, sent>>
  BY InputLeavesSessions
<1>1. CASE MoveIsQueued
  <2> SUFFICES ASSUME ~dropped'  PROVE AgreeInv'
    BY DEF AgreeInv
  <2> DEFINE ep == activeScreen'.endpoint
  <2>1. IsRemote(activeScreen') /\ CanQueue(ep)
    BY <1>1 DEF MoveIsQueued, QueueMove
  <2>2. activePoint' \in ScreenPoint
    BY <2>1 DEF CursorInv, CursorOnScreen
  <2>3. /\ ep \in readers /\ ep \in readers' /\ ep \in Client
        /\ queue' = [queue EXCEPT ![ep] = Append(@, Move(activePoint'))]
    BY <1>1, <2>1 DEF MoveIsQueued, QueueMove, QueueInput, CanQueue, ChannelInv
  <2>4. queue'[ep] = Append(queue[ep], Move(activePoint')) /\ queue[ep] \in Seq(Message)
    BY <2>3 DEF ChannelInv
  <2>5. LastPosition(queue'[ep], sent'[ep]) = activePoint'
    BY <2>2, <2>4, LastAfterAppend, MessageFacts
  <2> QED BY <2>3, <2>5 DEF AgreeInv, CursorAtClient
<1>2. CASE OtherIsQueued
  <2>1. UNCHANGED <<activeScreen, activePoint, dropped>> /\ IsRemote(activeScreen)
    BY <1>2 DEF OtherIsQueued, cursorVars
  <2> DEFINE ep == activeScreen.endpoint
  <2>2. activePoint \in ScreenPoint
    BY <2>1 DEF CursorInv, CursorOnScreen
  <2>3. PICK message \in Message : message.kind # "move" /\ QueueInput(activeScreen, message)
    BY <1>2, <2>2, MessageFacts DEF OtherIsQueued
  <2>4. /\ ep \in readers => ep \in readers'
        /\ \/ UNCHANGED queue
           \/ queue' = [queue EXCEPT ![ep] = Append(@, message)]
    BY <2>3, QueueInputFacts
  <2>5. ep \in Client /\ queue[ep] \in Seq(Message)
    BY <2>1, ActiveClient DEF ChannelInv
  <2>6. queue'[ep] = queue[ep] \/ queue'[ep] = Append(queue[ep], message)
    BY <2>4, <2>5 DEF ChannelInv
  <2>7. LastPosition(queue'[ep], sent'[ep]) = LastPosition(queue[ep], sent[ep])
    BY <1>0, <2>3, <2>5, <2>6, LastAfterAppend
  <2> QED BY <1>0, <2>1, <2>4, <2>7, AgreementIsKept
<1>3. CASE NothingIsQueued
  BY <1>0, <1>3 DEF NothingIsQueued, channelVars, AgreeInv, CursorAtClient
<1> QED BY <1>1, <1>2, <1>3, InputQueues

\* The write loop moves a position from the queue to the client.
LEMMA WriteKeepsAgreement ==
  ASSUME SessionInv, StoreFacts, RouterInv, ChannelInv, AgreeInv, NEW ep \in Client, Write(ep)
  PROVE  AgreeInv'
<1>1. /\ queue[ep] # <<>>
      /\ queue' = [queue EXCEPT ![ep] = Tail(@)]
      /\ sent' = IF Head(queue[ep]).kind = "move"
                 THEN [sent EXCEPT ![ep] = Head(queue[ep]).at]
                 ELSE sent
      /\ UNCHANGED <<activeScreen, activePoint, readers, dropped, session>>
  BY DEF Write, sessionVars, cursorVars
<1>2. queue \in [Client -> Seq(Message)] /\ sent \in [Client -> ScreenPoint \cup {None}]
  BY DEF ChannelInv
<1>3. LastPosition(queue'[ep], sent'[ep]) = LastPosition(queue[ep], sent[ep])
  <2>1. /\ queue'[ep] = Tail(queue[ep])
        /\ sent'[ep] = IF Head(queue[ep]).kind = "move" THEN Head(queue[ep]).at ELSE sent[ep]
    BY <1>1, <1>2
  <2> QED BY <1>1, <1>2, <2>1, LastAfterSend
<1>4. \A other \in Client : other # ep => UNCHANGED <<queue[other], sent[other]>>
  BY <1>1, <1>2
<1>5. IsRemote(activeScreen) => activeScreen.endpoint \in Client
  BY ActiveClient
<1> QED BY <1>1, <1>3, <1>4, <1>5, AgreementIsKept

\* The sessions keep the agreement: a client whose session ends, or whose
\* screens are replaced, loses the cursor.
LEMMA SessionsKeepAgreement ==
  ASSUME SessionInv, StoreFacts, StoreTypeOK', RouterInv, RouterInv', ChannelInv, AgreeInv,
         NEW ep \in Client, SessionStep(ep)
  PROVE  AgreeInv'
<1>1. mScreens' \subseteq VirtualScreen /\ HaveDifferentIndices(mScreens')
  BY DEF StoreTypeOK, RouterInv
<1>2. IsRemote(activeScreen) => /\ activeScreen.endpoint \in Client
                                /\ session[activeScreen.endpoint] \in {"open", "closing"}
  BY ActiveClient
<1>3. CASE Accept(ep)
  BY <1>2, <1>3, AgreementIsKept DEF Accept, routerVars, cursorVars, channelVars, SessionInv
<1>4. CASE Hello(ep)
  BY <1>2, <1>4, AgreementIsKept DEF Hello, routerVars, cursorVars, channelVars, SessionInv
<1>5. CASE StartWriter(ep)
  BY <1>2, <1>5, AgreementIsKept DEF StartWriter, cursorVars, sessionVars
<1>6. CASE ReadScreens(ep)
  BY <1>1, <1>6, AgreementIsKept, HomeNeedsNoAgreement
  DEF ReadScreens, AfterRegistration, cursorVars, channelVars, sessionVars
<1>7. CASE EndLoops(ep)
  BY <1>2, <1>7, AgreementIsKept DEF EndLoops, cursorVars, SessionInv, ChannelInv
<1>8. CASE OnClosed(ep)
  <2>1. CASE ActiveIsOf(ep)
    BY <1>1, <1>8, <2>1, HomeNeedsNoAgreement DEF OnClosed, AfterRemoval
  <2>2. CASE ~ActiveIsOf(ep)
    <3>1. IsRemote(activeScreen) => activeScreen.endpoint # ep
      BY <2>2 DEF ActiveIsOf, IsRemote
    <3> QED BY <1>2, <1>8, <2>2, <3>1, AgreementIsKept
        DEF OnClosed, AfterRemoval, cursorVars, SessionInv, ChannelInv
  <2> QED BY <2>1, <2>2
<1> QED BY <1>3, <1>4, <1>5, <1>6, <1>7, <1>8, WriteKeepsAgreement
    DEF SessionStep, HandshakeFails, CloseSession

LEMMA NextKeepsAgreement ==
  ASSUME SessionInv, StoreFacts, StoreTypeOK', RouterInv, RouterInv', CursorInv, CursorInv',
         ChannelInv, AgreeInv, [Next]_vars
  PROVE  AgreeInv'
<1>1. CASE Start
  <2>1. CursorIsHome
    BY <1>1, StartIsHome
  <2> QED BY <2>1 DEF CursorIsHome, AgreeInv, IsRemote
<1>2. CASE Gone
  BY <1>2 DEF Gone, AgreeInv, IsRemote
<1>3. CASE AcceptFails \/ Stop \/ UNCHANGED vars
  BY <1>3, AgreementIsKept
  DEF AcceptFails, Stop, vars, routerVars, cursorVars, channelVars, sessionVars
<1> QED BY <1>1, <1>2, <1>3, InputKeepsAgreement, SessionsKeepAgreement
    DEF Next, Stopped, Crash

\* As long as the last position for it was queued, the client that has the cursor
\* will have it where the server has it.
THEOREM AgreementInvariant == Spec => []AgreeInv
<1>1. Init => AgreeInv
  BY DEF Init, AgreeInv, IsRemote
<1>2. SessionInv /\ StoreFacts /\ StoreTypeOK' /\ RouterInv /\ RouterInv' /\ CursorInv
        /\ CursorInv' /\ ChannelInv /\ AgreeInv /\ [Next]_vars => AgreeInv'
  BY NextKeepsAgreement
<1>3. StoreFacts => StoreTypeOK
  BY DEF StoreFacts
<1> QED BY <1>1, <1>2, <1>3, SessionInvariant, StoreFactsHold, RouterInvariant,
           CursorInvariant, ChannelInvariant, PTL DEF Spec

\* Absolute positions make up for lost ones: what a client that reads has and
\* will get from its queue is where the server has the cursor.
THEOREM ClientAlwaysAgrees == Spec => []ClientWillAgree
<1>1. SessionInv /\ StoreFacts /\ RouterInv /\ ChannelInv /\ AgreeInv => ClientWillAgree
  <2> SUFFICES ASSUME SessionInv, StoreFacts, RouterInv, ChannelInv, AgreeInv,
                      IsRemote(activeScreen), activeScreen.endpoint \in readers, ~dropped
               PROVE  CursorAtClient(activeScreen.endpoint) = activePoint
    BY DEF ClientWillAgree
  <2>1. activeScreen.endpoint \in Client
    BY ActiveClient
  <2>2. session[activeScreen.endpoint] = "open"
    BY <2>1 DEF ChannelInv, NothingLeftBehind
  <2> QED BY <2>2 DEF AgreeInv
<1> QED BY <1>1, SessionInvariant, StoreFactsHold, RouterInvariant, ChannelInvariant,
           AgreementInvariant, PTL
=============================================================================
