----------------------------- MODULE ScreenStore -----------------------------
(***************************************************************************)
(* The server's registry of screens: src/app/server_screens.cpp, class     *)
(* ServerScreenStore, driven the way src/app/server.cpp drives it.         *)
(*                                                                         *)
(* One screen is recorded up to four times: in the multimap mScreens, from *)
(* which input is routed; in the two maps of mTopology, from which border  *)
(* crossings are decided; and in the layout of mConfig, which outlives     *)
(* both.  Only the code of the operations below keeps them in agreement.   *)
(*                                                                         *)
(* mScreens is a set of VirtualScreens: a registration gives the screens   *)
(* of an endpoint different keys, so the order of the multimap is that of  *)
(* (endpoint, screenIndex).                                                *)
(***************************************************************************)
EXTENDS Topology, Sequences, FiniteSets

CONSTANTS
  Endpoint,         \* IPEndpoints, numbered in the order of std::map
  LocalEndpoint,    \* the endpoint the server itself listens on
  OwnerId,          \* machine ids (or endpoint strings)
  LocalOwner,       \* the machine id of the server
  ClientOwner,      \* the owner ids clients present
  ScreenLists,      \* the lists of screens a platform or a client may report
  SavedLayouts,     \* the layouts a configuration file may hold at startup
  ExclusiveOwners   \* TRUE: a machine has at most one registered endpoint

ASSUME EndpointAssumption ==
  Endpoint \subseteq Nat /\ LocalEndpoint \in Endpoint
ASSUME OwnerAssumption == LocalOwner \in OwnerId /\ ClientOwner \subseteq OwnerId
ASSUME ScreenListsAssumption == ScreenLists \subseteq Seq(ScreenInfo)
ASSUME ExclusiveOwnersAssumption == ExclusiveOwners \in BOOLEAN

ScreenKey == [ownerId : OwnerId, screenIndex : Nat]

IsLayout(f) == /\ DOMAIN f \subseteq ScreenKey
               /\ f \in [DOMAIN f -> GridPosition]

ASSUME SavedLayoutsAssumption == \A f \in SavedLayouts : IsLayout(f)

VARIABLES
  config,         \* mConfig.screens: ScreenKey -> cell, saved on every change
  mScreens,       \* the VirtualScreens input can be routed to
  mTopology,
  serving,        \* the local screens are registered, clients may connect
  reported        \* history: the list each endpoint last registered

storeVars == <<config, mScreens, mTopology, serving, reported>>

VirtualScreen == [endpoint : Endpoint, key : ScreenKey, cell : GridPosition,
                  local : BOOLEAN, info : ScreenInfo]
TopologyScreen == [cell : GridPosition, info : ScreenInfo, local : BOOLEAN]

ScreensOf(screens, ep) == {v \in screens : v.endpoint = ep}
OwnersOf(screens, ep)  == {v.key.ownerId : v \in ScreensOf(screens, ep)}
-----------------------------------------------------------------------------
(***************************************************************************)
(* removeScreen: what is left of mScreens and of mTopology.  The screens   *)
(* of the endpoint leave mScreens, but the topology loses the screens of   *)
(* every owner the endpoint had one of.                                    *)
(***************************************************************************)
RemainingScreens(ep) == mScreens \ ScreensOf(mScreens, ep)

\* Mutants of RemainingTopology: removeOwner is not called; the owners are
\* collected from the whole multimap, not from the endpoint's range.
UntouchedTopology(ep) == mTopology

TopologyOfNobody(ep) == RemoveOwners(mTopology, {v.key.ownerId : v \in mScreens})

RemainingTopology(ep) == RemoveOwners(mTopology, OwnersOf(mScreens, ep))

KeyAt(owner, i) == [ownerId |-> owner, screenIndex |-> i - 1]

\* nextFreeCell(1): the scan ends after at most one cell per occupied one.
NextFreeCell(taken) ==
  LET free == {x \in 1..(1 + Cardinality(taken)) : [x |-> x, y |-> 0] \notin taken}
  IN [x |-> CHOOSE x \in free : \A z \in free : x <= z, y |-> 0]

(***************************************************************************)
(* The first primary screen of a list, or its first screen.  The loop's    *)
(* flag primaryRegistered is set by the time it has passed this screen,    *)
(* and not before, so the local anchor is this screen and no other.        *)
(***************************************************************************)
IsAnchor(infos, i) ==
  IF \E j \in DOMAIN infos : infos[j].primary
  THEN infos[i].primary /\ \A j \in 1..(i - 1) : ~infos[j].primary
  ELSE i = 1

\* Mutant of CellFor: a stale saved cell is not repaired.
UnrepairedCellFor(ep, owner, infos, taken, i) ==
  LET key == KeyAt(owner, i)
  IN IF key \in DOMAIN config
     THEN config[key]
     ELSE IF ep = LocalEndpoint /\ IsAnchor(infos, i) THEN Origin ELSE NextFreeCell(taken)

\* The cell an iteration of registerScreens settles on, when the cells of
\* taken are occupied.
CellFor(ep, owner, infos, taken, i) ==
  LET key == KeyAt(owner, i)
  IN IF key \in DOMAIN config
     THEN IF config[key] \in taken THEN NextFreeCell(taken) ELSE config[key]
     ELSE IF ep = LocalEndpoint /\ IsAnchor(infos, i)
          THEN Origin
          ELSE NextFreeCell(taken)

CandidateCells(ep, owner, infos) ==
  {config[k] : k \in {k \in DOMAIN config : k.ownerId = owner}} \cup {Origin} \cup
  {[x |-> x, y |-> 0] :
     x \in 1..(1 + Cardinality(DOMAIN mTopology.cells) + Len(infos))}

(***************************************************************************)
(* The loop of registerScreens over a topology t, as the facts every       *)
(* iteration establishes: cell[i] is the cell iteration i tries, and i is  *)
(* in added iff addScreen accepts the screen.                              *)
(***************************************************************************)
TakenBefore(t, cell, added, i) ==
  DOMAIN t.cells \cup {cell[j] : j \in {j \in added : j < i}}

\* Mutant of IsRegistration: addScreen accepts an empty rectangle.
IsUncheckedRegistration(t, ep, owner, infos, cell, added) ==
  \A i \in DOMAIN infos :
    LET taken == TakenBefore(t, cell, added, i)
    IN /\ cell[i] = CellFor(ep, owner, infos, taken, i)
       /\ i \in added <=> KeyAt(owner, i) \notin DOMAIN t.screens /\ cell[i] \notin taken

IsRegistration(t, ep, owner, infos, cell, added) ==
  \A i \in DOMAIN infos :
    LET taken == TakenBefore(t, cell, added, i)
    IN /\ cell[i] = CellFor(ep, owner, infos, taken, i)
       /\ i \in added <=> /\ IsValidRect(infos[i])
                          /\ KeyAt(owner, i) \notin DOMAIN t.screens
                          /\ cell[i] \notin taken

\* Mutant of NewScreens: a screen is kept although addScreen has refused it.
AllScreens(ep, owner, infos, cell, added) ==
  {[endpoint |-> ep, key |-> KeyAt(owner, i), cell |-> cell[i],
    local |-> (ep = LocalEndpoint), info |-> infos[i]] : i \in DOMAIN infos}

NewScreens(ep, owner, infos, cell, added) ==
  {[endpoint |-> ep, key |-> KeyAt(owner, i), cell |-> cell[i],
    local |-> (ep = LocalEndpoint), info |-> infos[i]] : i \in added}

NewEntries(ep, owner, infos, cell, added) ==
  [k \in {KeyAt(owner, i) : i \in added} |->
     [cell  |-> cell[k.screenIndex + 1],
      info  |-> infos[k.screenIndex + 1],
      local |-> (ep = LocalEndpoint)]]

\* Mutant of Remembered: a cell that is saved is not updated.
RememberedOnce(entries) ==
  [k \in DOMAIN config \cup DOMAIN entries |->
     IF k \in DOMAIN config THEN config[k] ELSE entries[k].cell]

\* rememberScreenLayout, for every screen that was added.
Remembered(entries) ==
  [k \in DOMAIN config \cup DOMAIN entries |->
     IF k \in DOMAIN entries THEN entries[k].cell ELSE config[k]]
-----------------------------------------------------------------------------
StoreInit ==
  /\ config \in SavedLayouts
  /\ mScreens = {}
  /\ mTopology = EmptyTopology
  /\ serving = FALSE
  /\ reported = [ep \in Endpoint |-> <<>>]

(***************************************************************************)
(* Server::registerScreens, without its effect on the input router: the    *)
(* endpoint's screens are replaced, and the layout of every screen that    *)
(* was added is remembered and saved.                                      *)
(***************************************************************************)
ReplaceScreens(ep, owner, infos) ==
  LET t == RemainingTopology(ep)
  IN \E cell \in [DOMAIN infos -> CandidateCells(ep, owner, infos)],
        added \in SUBSET DOMAIN infos :
       LET entries == NewEntries(ep, owner, infos, cell, added)
       IN /\ IsRegistration(t, ep, owner, infos, cell, added)
          /\ mScreens' = RemainingScreens(ep)
                           \cup NewScreens(ep, owner, infos, cell, added)
          /\ mTopology' = AddScreens(t, entries)
          /\ config' = Remembered(entries)
          /\ reported' = [reported EXCEPT ![ep] = infos]

\* Server::removeEndpointScreens, without its effect on the input router.
RemoveScreens(ep) ==
  /\ mScreens' = RemainingScreens(ep)
  /\ mTopology' = RemainingTopology(ep)
  /\ reported' = [reported EXCEPT ![ep] = <<>>]
  /\ UNCHANGED config

\* A machine with its own id, connected once: what ExclusiveOwners assumes.
OwnerIsFree(ep, owner) ==
  /\ owner # LocalOwner
  /\ \A other \in Endpoint \ {ep} : owner \notin OwnersOf(mScreens, other)

\* Server::run, before it accepts connections.
RegisterLocal ==
  /\ ~serving
  /\ serving' = TRUE
  /\ \E infos \in ScreenLists : ReplaceScreens(LocalEndpoint, LocalOwner, infos)

\* A ScreensMessage: the owner of an endpoint is that of its connection.
RegisterRemote ==
  /\ serving
  /\ \E ep \in Endpoint \ {LocalEndpoint}, owner \in ClientOwner, infos \in ScreenLists :
       /\ OwnersOf(mScreens, ep) \subseteq {owner}
       /\ ExclusiveOwners => OwnerIsFree(ep, owner)
       /\ ReplaceScreens(ep, owner, infos)
  /\ UNCHANGED serving

\* The end of a connection.
Disconnect ==
  /\ serving
  /\ \E ep \in Endpoint \ {LocalEndpoint} : RemoveScreens(ep)
  /\ UNCHANGED serving

(***************************************************************************)
(* The server process ends, or dies, and starts again: what the store      *)
(* holds is gone and the layout is read back from the file.                *)
(***************************************************************************)
Restart ==
  /\ serving
  /\ serving' = FALSE
  /\ mScreens' = {}
  /\ mTopology' = EmptyTopology
  /\ reported' = [ep \in Endpoint |-> <<>>]
  /\ UNCHANGED config

StoreNext == RegisterLocal \/ Disconnect \/ RegisterRemote \/ Restart

StoreSpec == StoreInit /\ [][StoreNext]_storeVars
-----------------------------------------------------------------------------
\* The variables hold values of the class's members, and every screen that is
\* registered has pixels.
StoreTypeOK ==
  /\ IsLayout(config)
  /\ mScreens \subseteq VirtualScreen
  /\ \A v \in mScreens : IsValidRect(v.info)
  /\ DOMAIN mTopology.screens \subseteq ScreenKey
  /\ mTopology.screens \in [DOMAIN mTopology.screens -> TopologyScreen]
  /\ DOMAIN mTopology.cells \subseteq GridPosition
  /\ mTopology.cells \in [DOMAIN mTopology.cells -> ScreenKey]
  /\ serving \in BOOLEAN
  /\ reported \in [Endpoint -> Seq(ScreenInfo)]

\* The two maps of ScreenTopology are inverse to each other: a neighbour is
\* always a screen the topology knows, and no screen is off the grid.
MapsAgree == MapsInverse(mTopology)

\* Whatever screen the cursor can cross to, input can be routed to: the
\* topology has no screen of a connection that is gone.
TopologyIsRoutable ==
  \A k \in DOMAIN mTopology.screens :
    \E v \in mScreens : /\ v.key = k
                        /\ v.cell = mTopology.screens[k].cell
                        /\ v.info = mTopology.screens[k].info
                        /\ v.local = mTopology.screens[k].local

\* Conversely the cursor can reach every screen input can be routed to.  It
\* needs that a machine has one registered endpoint at a time.
RoutableIsInTopology ==
  ExclusiveOwners =>
    \A v \in mScreens : /\ v.key \in DOMAIN mTopology.screens
                        /\ mTopology.screens[v.key].cell = v.cell
                        /\ mTopology.screens[v.key].info = v.info

\* The saved layout has the cell every screen of the grid is on, so a restart
\* finds the grid it left.
LayoutFollowsTopology ==
  \A k \in DOMAIN mTopology.screens :
    k \in DOMAIN config /\ config[k] = mTopology.screens[k].cell

\* Screen i of the list an endpoint reported is one the server can use.
IsRegistered(ep, i) ==
  \E v \in ScreensOf(mScreens, ep) :
    v.key.screenIndex = i - 1 /\ v.info = reported[ep][i]

\* No well-formed screen of a client is silently left out, whatever the saved
\* layout holds: the automatic cell and the repair of a stale one are free.
ClientScreensRegistered ==
  ExclusiveOwners =>
    \A ep \in Endpoint \ {LocalEndpoint} : \A i \in DOMAIN reported[ep] :
      IsValidRect(reported[ep][i]) => IsRegistered(ep, i)

\* The same of the server's own screens, which may be placed at the origin
\* without a test that it is free.
LocalScreensRegistered ==
  \A i \in DOMAIN reported[LocalEndpoint] :
    IsValidRect(reported[LocalEndpoint][i]) => IsRegistered(LocalEndpoint, i)

\* The end of a connection, or a new list from it, takes the screens of no
\* other connection off the grid.
RemovalIsLocal ==
  [][serving' =>
       \A v \in mScreens \cap mScreens' :
         v.key \in DOMAIN mTopology.screens =>
           v.key \in DOMAIN mTopology'.screens]_storeVars

\* The cell where a client's screen is depends on who else has a cell, never on
\* who connected first: a client that comes back finds the cell it had, unless
\* the server's own screens have taken it.
HoldsLocalScreen(cell) ==
  cell \in DOMAIN mTopology.cells /\ mTopology.cells[cell].ownerId = LocalOwner

ClientsFindTheirCells ==
  [][\A k \in DOMAIN config :
       k.ownerId # LocalOwner /\ ~HoldsLocalScreen(config[k]) =>
         k \in DOMAIN config' /\ config'[k] = config[k]]_storeVars

=============================================================================
