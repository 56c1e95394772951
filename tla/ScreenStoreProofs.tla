-------------------------- MODULE ScreenStoreProofs --------------------------
(***************************************************************************)
(* Proofs about ScreenStore, for any endpoints, owners, lists of screens   *)
(* and saved layouts.                                                      *)
(***************************************************************************)
EXTENDS ScreenStore, FiniteSetTheorems, WellFoundedInduction, TLAPS

-----------------------------------------------------------------------------
\* The two operations of ScreenTopology keep its maps inverse.

\* removeOwner forgets a screen and its cell together.
LEMMA RemoveOwnersKeepsInverse ==
  ASSUME NEW t, NEW owners, MapsInverse(t)
  PROVE  MapsInverse(RemoveOwners(t, owners))
BY DEF MapsInverse, RemoveOwners, Restrict

\* addScreen keeps what is there and adds the batch, in both maps.
LEMMA AddScreensFacts ==
  ASSUME NEW t, NEW new,
         \A k \in DOMAIN new : k \notin DOMAIN t.screens
  PROVE  LET u == AddScreens(t, new)
         IN /\ DOMAIN u.screens = DOMAIN t.screens \cup DOMAIN new
            /\ \A k \in DOMAIN t.screens : u.screens[k] = t.screens[k]
            /\ \A k \in DOMAIN new : u.screens[k] = new[k]
            /\ u.screens = [k \in DOMAIN u.screens |-> u.screens[k]]
            /\ DOMAIN u.cells = DOMAIN t.cells \cup {new[k].cell : k \in DOMAIN new}
            /\ u.cells = [c \in DOMAIN u.cells |-> u.cells[c]]
BY DEF AddScreens

\* addScreen, given what it tests: the keys and the cells are new, and no two
\* screens of the batch have one cell.
LEMMA AddScreensKeepsInverse ==
  ASSUME NEW t, NEW new,
         MapsInverse(t),
         \A k \in DOMAIN new : /\ k \notin DOMAIN t.screens
                               /\ new[k].cell \notin DOMAIN t.cells,
         \A k, l \in DOMAIN new : new[k].cell = new[l].cell => k = l
  PROVE  MapsInverse(AddScreens(t, new))
<1> DEFINE u == AddScreens(t, new)
<1>1. DOMAIN u.screens = DOMAIN t.screens \cup DOMAIN new
  BY DEF AddScreens
<1>2. DOMAIN u.cells = DOMAIN t.cells \cup {new[k].cell : k \in DOMAIN new}
  BY DEF AddScreens
<1>3. \A k \in DOMAIN new :
        u.screens[k] = new[k] /\ u.cells[new[k].cell] = k
  <2> SUFFICES ASSUME NEW k \in DOMAIN new
               PROVE  u.screens[k] = new[k] /\ u.cells[new[k].cell] = k
    OBVIOUS
  <2>1. u.screens[k] = new[k]
    BY DEF AddScreens
  <2>2. u.cells[new[k].cell]
          = CHOOSE l \in DOMAIN new : new[l].cell = new[k].cell
    BY DEF AddScreens
  <2>3. (CHOOSE l \in DOMAIN new : new[l].cell = new[k].cell) = k
    OBVIOUS
  <2> QED BY <2>1, <2>2, <2>3
<1>4. \A k \in DOMAIN t.screens : u.screens[k] = t.screens[k]
  BY DEF AddScreens
<1>5. \A c \in DOMAIN t.cells : u.cells[c] = t.cells[c]
  BY DEF AddScreens
<1>6. \A k \in DOMAIN u.screens :
        u.screens[k].cell \in DOMAIN u.cells /\ u.cells[u.screens[k].cell] = k
  BY <1>1, <1>2, <1>3, <1>4, <1>5 DEF MapsInverse
<1>7. \A c \in DOMAIN u.cells :
        u.cells[c] \in DOMAIN u.screens /\ u.screens[u.cells[c]].cell = c
  BY <1>1, <1>2, <1>3, <1>4, <1>5 DEF MapsInverse
<1> QED BY <1>6, <1>7 DEF MapsInverse
-----------------------------------------------------------------------------
\* The automatic cell is always free, however full the grid is: the scan of
\* nextFreeCell ends.
LEMMA NextFreeCellIsFree ==
  ASSUME NEW taken, IsFiniteSet(taken)
  PROVE  /\ NextFreeCell(taken) \in GridPosition
         /\ NextFreeCell(taken) \notin taken
<1> DEFINE n    == Cardinality(taken)
           cell(x) == [x |-> x, y |-> 0]
           free == {x \in 1..(1 + n) : cell(x) \notin taken}
           row  == [x \in 1..(1 + n) |-> cell(x)]
<1>1. n \in Nat
  BY FS_CardinalityType
<1>2. free # {}
  <2> SUFFICES ASSUME \A x \in 1..(1 + n) : cell(x) \in taken
               PROVE  FALSE
    OBVIOUS
  <2>1. row \in [1..(1 + n) -> taken]
    OBVIOUS
  <2>2. IsFiniteSet(1..(1 + n)) /\ Cardinality(1..(1 + n)) = n + 1
    BY <1>1, FS_Interval
  <2>3. PICK x, y \in 1..(1 + n) : x # y /\ row[x] = row[y]
    <3> HIDE DEF n, row
    <3> n < n + 1
      BY <1>1
    <3> QED BY <2>1, <2>2, FS_PigeonHole DEF n
  <2>4. row[x].x = x /\ row[y].x = y
    BY <2>3
  <2> QED BY <2>3, <2>4
<1>3. PICK m \in free : \A z \in free : m <= z
  <2>1. free \subseteq Nat
    BY <1>1
  <2>2. PICK m \in free : \A z \in free : ~(<<z, m>> \in OpToRel(<, Nat))
    <3> HIDE DEF free
    <3> QED BY <1>2, <2>1, NatLessThanWellFounded, WFMin
  <2>3. \A z \in free : ~(z < m)
    BY <2>1, <2>2 DEF OpToRel
  <2>4. \A z \in free : m <= z
    BY <2>1, <2>3
  <2> QED BY <2>4
<1>4. (CHOOSE x \in free : \A z \in free : x <= z) \in free
  BY <1>3
<1>5. NextFreeCell(taken) = cell(CHOOSE x \in free : \A z \in free : x <= z)
  BY DEF NextFreeCell
<1> QED BY <1>1, <1>4, <1>5 DEF GridPosition
-----------------------------------------------------------------------------
(***************************************************************************)
(* The inductive invariant.  RoutableIsInTopology is not inductive alone:  *)
(* it needs that no two endpoints have screens of one owner, or the end of *)
(* one connection empties the grid under the other.  ClientScreensRegistered *)
(* needs a finite grid, for nextFreeCell to find a cell in.                *)
(***************************************************************************)
OwnersSeparate ==
  ExclusiveOwners =>
    \A v, w \in mScreens : v.key.ownerId = w.key.ownerId => v.endpoint = w.endpoint

StoppedIsEmpty == ~serving => mScreens = {} /\ mTopology = EmptyTopology

StoreInv ==
  /\ StoreTypeOK
  /\ IsFiniteSet(DOMAIN mTopology.cells)
  /\ StoppedIsEmpty
  /\ OwnersSeparate
  /\ MapsAgree
  /\ TopologyIsRoutable
  /\ RoutableIsInTopology
  /\ LayoutFollowsTopology
  /\ ClientScreensRegistered

TopologyType(t) ==
  /\ DOMAIN t.screens \subseteq ScreenKey
  /\ t.screens \in [DOMAIN t.screens -> TopologyScreen]
  /\ DOMAIN t.cells \subseteq GridPosition
  /\ t.cells \in [DOMAIN t.cells -> ScreenKey]

\* The key of the i-th screen of a list, which counts from zero.
LEMMA KeyAtType ==
  ASSUME NEW owner \in OwnerId, NEW i \in Nat \ {0}
  PROVE  /\ KeyAt(owner, i) \in ScreenKey
         /\ KeyAt(owner, i).ownerId = owner
         /\ KeyAt(owner, i).screenIndex + 1 = i
BY DEF KeyAt, ScreenKey

(***************************************************************************)
(* removeScreen: what is left of the store satisfies the invariant, and    *)
(* nothing of another endpoint is touched if owners are exclusive.         *)
(***************************************************************************)
StoreWithout(ep, t, s) ==
  /\ TopologyType(t)
  /\ IsFiniteSet(DOMAIN t.cells)
  /\ MapsInverse(t)
  /\ s \subseteq mScreens
  /\ \A v \in mScreens : v \in s <=> v.endpoint # ep
  /\ \A k \in DOMAIN t.screens :
       /\ k \in DOMAIN mTopology.screens
       /\ t.screens[k] = mTopology.screens[k]
       /\ \E v \in s : /\ v.key = k
                       /\ v.cell = t.screens[k].cell
                       /\ v.info = t.screens[k].info
                       /\ v.local = t.screens[k].local
  /\ ExclusiveOwners =>
       \A v \in s : /\ v.key \in DOMAIN t.screens
                    /\ t.screens[v.key].cell = v.cell
                    /\ t.screens[v.key].info = v.info

LEMMA RemainingFacts ==
  ASSUME StoreInv, NEW ep \in Endpoint
  PROVE  StoreWithout(ep, RemainingTopology(ep), RemainingScreens(ep))
<1> DEFINE t == RemainingTopology(ep)
           s == RemainingScreens(ep)
           owners == OwnersOf(mScreens, ep)
<1>1. t = RemoveOwners(mTopology, owners)
  BY DEF RemainingTopology
<1>2. /\ DOMAIN t.screens = {k \in DOMAIN mTopology.screens : k.ownerId \notin owners}
      /\ \A k \in DOMAIN t.screens : t.screens[k] = mTopology.screens[k]
      /\ t.screens = [k \in DOMAIN t.screens |-> mTopology.screens[k]]
  BY <1>1 DEF RemoveOwners, Restrict
<1>3. /\ DOMAIN t.cells \subseteq DOMAIN mTopology.cells
      /\ t.cells = [c \in DOMAIN t.cells |-> mTopology.cells[c]]
  BY <1>1 DEF RemoveOwners, Restrict
<1>4. TopologyType(t)
  <2> HIDE DEF t
  <2>1. TopologyType(mTopology)
    BY DEF StoreInv, StoreTypeOK, TopologyType
  <2>2. /\ DOMAIN t.screens \subseteq ScreenKey
        /\ t.screens \in [DOMAIN t.screens -> TopologyScreen]
    BY <1>2, <2>1 DEF TopologyType
  <2>3. /\ DOMAIN t.cells \subseteq GridPosition
        /\ t.cells \in [DOMAIN t.cells -> ScreenKey]
    BY <1>3, <2>1 DEF TopologyType
  <2> QED BY <2>2, <2>3 DEF TopologyType
<1>5. IsFiniteSet(DOMAIN t.cells)
  BY <1>3, FS_Subset DEF StoreInv
<1>6. MapsInverse(t)
  BY <1>1, RemoveOwnersKeepsInverse DEF StoreInv, MapsAgree
<1>7. s \subseteq mScreens /\ \A v \in mScreens : v \in s <=> v.endpoint # ep
  BY DEF RemainingScreens, ScreensOf
<1>8. ASSUME NEW k \in DOMAIN t.screens
      PROVE  \E v \in s : /\ v.key = k
                          /\ v.cell = t.screens[k].cell
                          /\ v.info = t.screens[k].info
                          /\ v.local = t.screens[k].local
  <2>1. PICK v \in mScreens : /\ v.key = k
                              /\ v.cell = t.screens[k].cell
                              /\ v.info = t.screens[k].info
                              /\ v.local = t.screens[k].local
    BY <1>2 DEF StoreInv, TopologyIsRoutable
  <2>2. v.endpoint # ep
    BY <1>2, <2>1 DEF OwnersOf, ScreensOf
  <2> QED BY <1>7, <2>1, <2>2
<1>9. ASSUME ExclusiveOwners, NEW v \in s
      PROVE  /\ v.key \in DOMAIN t.screens
             /\ t.screens[v.key].cell = v.cell
             /\ t.screens[v.key].info = v.info
  <2>1. v \in mScreens /\ v.endpoint # ep
    BY <1>7
  <2>2. v.key.ownerId \notin owners
    BY <1>9, <2>1 DEF StoreInv, OwnersSeparate, OwnersOf, ScreensOf
  <2> QED BY <1>2, <1>9, <2>1, <2>2 DEF StoreInv, RoutableIsInTopology
<1> QED BY <1>2, <1>4, <1>5, <1>6, <1>7, <1>8, <1>9 DEF StoreWithout

\* Every cell registerScreens considers is a grid position.
LEMMA CandidateCellsType ==
  ASSUME StoreTypeOK, IsFiniteSet(DOMAIN mTopology.cells),
         NEW ep, NEW owner, NEW infos \in Seq(ScreenInfo)
  PROVE  CandidateCells(ep, owner, infos) \subseteq GridPosition
<1>1. Cardinality(DOMAIN mTopology.cells) \in Nat /\ Len(infos) \in Nat
  BY FS_CardinalityType
<1>2. \A k \in DOMAIN config : config[k] \in GridPosition
  BY DEF StoreTypeOK, IsLayout
<1>3. Origin \in GridPosition
  BY DEF Origin, GridPosition
<1>4. \A x \in 1..(1 + Cardinality(DOMAIN mTopology.cells) + Len(infos)) :
        [x |-> x, y |-> 0] \in GridPosition
  BY <1>1 DEF GridPosition
<1> QED BY <1>2, <1>3, <1>4 DEF CandidateCells

(***************************************************************************)
(* What addScreen has tested of the screens a registration adds: their     *)
(* keys and cells are new to the grid, and no two have one cell.           *)
(***************************************************************************)
BatchIsNew(t, ep, owner, infos, cell, added) ==
  LET new == NewEntries(ep, owner, infos, cell, added)
  IN /\ DOMAIN new = {KeyAt(owner, i) : i \in added}
     /\ \A i \in added :
          /\ KeyAt(owner, i) \in ScreenKey
          /\ new[KeyAt(owner, i)] = [cell |-> cell[i], info |-> infos[i],
                                     local |-> (ep = LocalEndpoint)]
          /\ new[KeyAt(owner, i)].cell = cell[i]
          /\ new[KeyAt(owner, i)] \in TopologyScreen
     /\ \A k \in DOMAIN new : k \in ScreenKey /\ new[k] \in TopologyScreen
     /\ \A k \in DOMAIN new : /\ k \notin DOMAIN t.screens
                              /\ new[k].cell \notin DOMAIN t.cells
     /\ \A k, l \in DOMAIN new : new[k].cell = new[l].cell => k = l

LEMMA RegistrationFacts ==
  ASSUME NEW t, NEW ep, NEW owner \in OwnerId, NEW infos \in Seq(ScreenInfo),
         NEW cell \in [DOMAIN infos -> GridPosition],
         NEW added \in SUBSET DOMAIN infos,
         IsRegistration(t, ep, owner, infos, cell, added)
  PROVE  BatchIsNew(t, ep, owner, infos, cell, added)
<1> DEFINE new == NewEntries(ep, owner, infos, cell, added)
<1>1. DOMAIN new = {KeyAt(owner, i) : i \in added}
  BY DEF NewEntries
<1>2. \A i \in added : i \in Nat \ {0} /\ infos[i] \in ScreenInfo /\ cell[i] \in GridPosition
  OBVIOUS
<1>3. ASSUME NEW i \in added
      PROVE  /\ KeyAt(owner, i) \in ScreenKey
             /\ new[KeyAt(owner, i)] = [cell |-> cell[i], info |-> infos[i],
                                        local |-> (ep = LocalEndpoint)]
             /\ new[KeyAt(owner, i)] \in TopologyScreen
  <2>1. KeyAt(owner, i) \in ScreenKey /\ KeyAt(owner, i).screenIndex + 1 = i
    BY <1>2, KeyAtType
  <2>2. new[KeyAt(owner, i)] = [cell |-> cell[i], info |-> infos[i],
                                local |-> (ep = LocalEndpoint)]
    BY <1>1, <2>1 DEF NewEntries
  <2>3. new[KeyAt(owner, i)] \in TopologyScreen
    BY <1>2, <2>2 DEF TopologyScreen
  <2> QED BY <2>1, <2>2, <2>3
<1>4. ASSUME NEW i \in added
      PROVE  new[KeyAt(owner, i)].cell = cell[i]
  <2>1. new[KeyAt(owner, i)] = [cell |-> cell[i], info |-> infos[i],
                                local |-> (ep = LocalEndpoint)]
    BY <1>3
  <2> HIDE DEF new
  <2> QED BY <2>1
<1>5. \A i \in added : /\ KeyAt(owner, i) \notin DOMAIN t.screens
                       /\ cell[i] \notin TakenBefore(t, cell, added, i)
  BY DEF IsRegistration
<1>6. \A i \in added : cell[i] \notin DOMAIN t.cells
  BY <1>5 DEF TakenBefore
<1>7. \A i, j \in added : cell[i] = cell[j] => i = j
  <2>1. \A i, j \in added : j < i => cell[i] # cell[j]
    BY <1>5 DEF TakenBefore
  <2> QED BY <1>2, <2>1
<1>8. ASSUME NEW k \in DOMAIN new, NEW l \in DOMAIN new, new[k].cell = new[l].cell
      PROVE  k = l
  <2>1. PICK i \in added, j \in added : k = KeyAt(owner, i) /\ l = KeyAt(owner, j)
    BY <1>1
  <2>2. cell[i] = cell[j]
    <3> HIDE DEF new
    <3> QED BY <1>8, <1>4, <2>1
  <2> QED BY <1>7, <2>1, <2>2
<1>9. \A k \in DOMAIN new : /\ k \notin DOMAIN t.screens
                            /\ new[k].cell \notin DOMAIN t.cells
  <2> HIDE DEF new
  <2> QED BY <1>1, <1>5, <1>6, <1>4
<1>10. \A k \in DOMAIN new : k \in ScreenKey /\ new[k] \in TopologyScreen
  <2> HIDE DEF new
  <2> QED BY <1>1, <1>3
<1> QED BY <1>1, <1>3, <1>4, <1>8, <1>9, <1>10 DEF BatchIsNew

\* The cell an iteration tries is free unless it is the local anchor, so every
\* well-formed screen of a client whose key is new is added.
LEMMA ClientScreensAreAdded ==
  ASSUME StoreTypeOK, NEW t, IsFiniteSet(DOMAIN t.cells),
         NEW ep \in Endpoint \ {LocalEndpoint},
         NEW owner \in OwnerId, NEW infos \in Seq(ScreenInfo),
         NEW cell \in [DOMAIN infos -> GridPosition],
         NEW added \in SUBSET DOMAIN infos,
         IsRegistration(t, ep, owner, infos, cell, added),
         NEW i \in DOMAIN infos, IsValidRect(infos[i]),
         KeyAt(owner, i) \notin DOMAIN t.screens
  PROVE  i \in added
<1> DEFINE taken == TakenBefore(t, cell, added, i)
           before == {j \in added : j < i}
           earlier == [j \in before |-> cell[j]]
<1>1. IsFiniteSet(taken)
  <2>1. IsFiniteSet(before)
    <3>1. DOMAIN infos = 1..Len(infos) /\ Len(infos) \in Nat
      OBVIOUS
    <3>2. IsFiniteSet(DOMAIN infos)
      BY <3>1, FS_Interval
    <3> QED BY <3>2, FS_Subset
  <2>2. earlier \in Surjection(before, {cell[j] : j \in before})
    BY DEF Surjection
  <2>3. IsFiniteSet({cell[j] : j \in before})
    <3> HIDE DEF earlier, before
    <3> QED BY <2>1, <2>2, FS_Surjection
  <2> QED BY <2>3, FS_Union DEF TakenBefore
<1>2. NextFreeCell(taken) \notin taken
  BY <1>1, NextFreeCellIsFree
<1>3. cell[i] = CellFor(ep, owner, infos, taken, i)
  BY DEF IsRegistration
<1>4. cell[i] \notin taken
  <2> HIDE DEF taken
  <2> QED BY <1>2, <1>3 DEF CellFor
<1> QED BY <1>4 DEF IsRegistration

(***************************************************************************)
(* Server::registerScreens keeps the invariant, if the endpoint has its    *)
(* owner to itself.                                                        *)
(***************************************************************************)
LEMMA ReplaceKeepsInvariant ==
  ASSUME StoreInv, NEW ep \in Endpoint, NEW owner \in OwnerId, NEW infos \in ScreenLists,
         ReplaceScreens(ep, owner, infos), serving' = TRUE,
         ExclusiveOwners =>
           \A other \in Endpoint \ {ep} : owner \notin OwnersOf(mScreens, other)
  PROVE  StoreInv'
<1> DEFINE t == RemainingTopology(ep)
           s == RemainingScreens(ep)
<1>1. infos \in Seq(ScreenInfo)
  BY ScreenListsAssumption
<1>2. PICK cell \in [DOMAIN infos -> CandidateCells(ep, owner, infos)],
           added \in SUBSET DOMAIN infos :
        LET entries == NewEntries(ep, owner, infos, cell, added)
        IN /\ IsRegistration(t, ep, owner, infos, cell, added)
           /\ mScreens' = s \cup NewScreens(ep, owner, infos, cell, added)
           /\ mTopology' = AddScreens(t, entries)
           /\ config' = [k \in DOMAIN config \cup DOMAIN entries |->
                           IF k \in DOMAIN entries THEN entries[k].cell
                                                   ELSE config[k]]
           /\ reported' = [reported EXCEPT ![ep] = infos]
  BY DEF ReplaceScreens, Remembered
<1> DEFINE new == NewEntries(ep, owner, infos, cell, added)
           fresh == NewScreens(ep, owner, infos, cell, added)
<1>3. cell \in [DOMAIN infos -> GridPosition]
  BY <1>1, <1>2, CandidateCellsType DEF StoreInv
<1>4. BatchIsNew(t, ep, owner, infos, cell, added)
  <2>1. IsRegistration(t, ep, owner, infos, cell, added)
    BY <1>2
  <2> HIDE DEF t
  <2> QED BY <1>1, <1>3, <2>1, RegistrationFacts
<1>5. StoreWithout(ep, t, s)
  BY RemainingFacts
<1>6. \A i \in added :
        [endpoint |-> ep, key |-> KeyAt(owner, i), cell |-> cell[i],
         local |-> (ep = LocalEndpoint), info |-> infos[i]] \in fresh
  BY DEF NewScreens
<1>7. \A v \in fresh : \E i \in added :
        /\ v.endpoint = ep
        /\ v.key = KeyAt(owner, i)
        /\ v.cell = cell[i]
        /\ v.local = (ep = LocalEndpoint)
        /\ v.info = infos[i]
        /\ v \in VirtualScreen
  <2> SUFFICES ASSUME NEW i \in added
               PROVE  [endpoint |-> ep, key |-> KeyAt(owner, i), cell |-> cell[i],
                       local |-> (ep = LocalEndpoint), info |-> infos[i]]
                        \in VirtualScreen
    BY DEF NewScreens
  <2>1. cell[i] \in GridPosition /\ infos[i] \in ScreenInfo
    BY <1>1, <1>3
  <2>2. KeyAt(owner, i) \in ScreenKey
    BY <1>4 DEF BatchIsNew
  <2> QED BY <2>1, <2>2 DEF VirtualScreen
<1>8. mTopology' = AddScreens(t, new) /\ mScreens' = s \cup fresh
  BY <1>2
<1> DEFINE u == mTopology'
<1>9. /\ DOMAIN u.screens = DOMAIN t.screens \cup DOMAIN new
      /\ \A k \in DOMAIN t.screens : u.screens[k] = t.screens[k]
      /\ \A k \in DOMAIN new : u.screens[k] = new[k]
      /\ u.screens = [k \in DOMAIN u.screens |-> u.screens[k]]
      /\ DOMAIN u.cells = DOMAIN t.cells \cup {new[k].cell : k \in DOMAIN new}
      /\ u.cells = [c \in DOMAIN u.cells |-> u.cells[c]]
  <2>1. \A k \in DOMAIN new : k \notin DOMAIN t.screens
    BY <1>4 DEF BatchIsNew
  <2> HIDE DEF t, new
  <2> QED BY <1>8, <2>1, AddScreensFacts
<1> HIDE DEF t, s, fresh
<1>10. MapsInverse(mTopology)'
  BY <1>4, <1>5, <1>8, AddScreensKeepsInverse DEF BatchIsNew, StoreWithout
<1>11. config' = [k \in DOMAIN config \cup DOMAIN new |->
                    IF k \in DOMAIN new THEN new[k].cell ELSE config[k]]
  BY <1>2
<1>12. reported' = [reported EXCEPT ![ep] = infos]
  BY <1>2
<1>13. \A k \in DOMAIN new : k \in ScreenKey /\ new[k] \in TopologyScreen
  BY <1>4 DEF BatchIsNew
<1> HIDE DEF new
<1>14. StoreTypeOK'
  <2>1. IsLayout(config')
    BY <1>11, <1>13 DEF StoreInv, StoreTypeOK, IsLayout, TopologyScreen
  <2>2. mScreens' \subseteq VirtualScreen
    BY <1>5, <1>7, <1>8 DEF StoreInv, StoreTypeOK, StoreWithout
  <2>3. /\ DOMAIN u.screens \subseteq ScreenKey
        /\ u.screens \in [DOMAIN u.screens -> TopologyScreen]
    <3>1. DOMAIN u.screens \subseteq ScreenKey
      BY <1>5, <1>9, <1>13 DEF StoreWithout, TopologyType
    <3>2. \A k \in DOMAIN u.screens : u.screens[k] \in TopologyScreen
      BY <1>5, <1>9, <1>13 DEF StoreWithout, TopologyType
    <3>3. u.screens = [k \in DOMAIN u.screens |-> u.screens[k]]
      BY <1>9
    <3> HIDE DEF u
    <3> QED BY <3>1, <3>2, <3>3
  <2>4. DOMAIN u.cells \subseteq GridPosition
    BY <1>5, <1>9, <1>13 DEF StoreWithout, TopologyType, TopologyScreen
  <2>5. u.cells \in [DOMAIN u.cells -> ScreenKey]
    BY <1>9, <1>10, <2>3 DEF MapsInverse
  <2>6. reported' \in [Endpoint -> Seq(ScreenInfo)]
    BY <1>1, <1>12 DEF StoreInv, StoreTypeOK
  <2>7. serving' \in BOOLEAN
    OBVIOUS
  <2>8. \A v \in mScreens' : IsValidRect(v.info)
    <3>1. \A i \in added : IsValidRect(infos[i])
      BY <1>2 DEF IsRegistration
    <3>2. \A v \in fresh : IsValidRect(v.info)
      BY <1>7, <3>1
    <3>3. \A v \in s : IsValidRect(v.info)
      BY <1>5 DEF StoreWithout, StoreInv, StoreTypeOK
    <3> QED BY <1>8, <3>2, <3>3
  <2> QED BY <2>1, <2>2, <2>3, <2>4, <2>5, <2>6, <2>7, <2>8 DEF StoreTypeOK
<1>15. IsFiniteSet(DOMAIN mTopology.cells)'
  <2>1. IsFiniteSet(DOMAIN infos)
    BY <1>1, FS_Interval
  <2>2. IsFiniteSet(added)
    BY <2>1, FS_Subset
  <2> DEFINE used == {cell[i] : i \in added}
  <2>3. IsFiniteSet(used)
    <3>1. [i \in added |-> cell[i]] \in Surjection(added, used)
      BY DEF Surjection
    <3> HIDE DEF used
    <3> QED BY <2>2, <3>1, FS_Surjection
  <2>4. \A k \in DOMAIN new : new[k].cell \in used
    <3> SUFFICES ASSUME NEW k \in DOMAIN new  PROVE new[k].cell \in used
      OBVIOUS
    <3>1. PICK i \in added : k = KeyAt(owner, i)
      BY <1>4 DEF BatchIsNew, new
    <3> QED BY <1>4, <3>1 DEF BatchIsNew, new
  <2> HIDE DEF used
  <2>5. IsFiniteSet(DOMAIN t.cells \cup used)
    BY <1>5, <2>3, FS_Union DEF StoreWithout
  <2>6. DOMAIN u.cells \subseteq DOMAIN t.cells \cup used
    BY <1>9, <2>4
  <2>7. IsFiniteSet(DOMAIN u.cells)
    BY <2>5, <2>6, FS_Subset
  <2> QED BY <2>7
<1>16. StoppedIsEmpty'
  BY DEF StoppedIsEmpty
<1>17. OwnersSeparate'
  <2> SUFFICES ASSUME ExclusiveOwners, NEW v \in mScreens', NEW w \in mScreens',
                      v.key.ownerId = w.key.ownerId
               PROVE  v.endpoint = w.endpoint
    BY DEF OwnersSeparate
  <2>1. ASSUME NEW x \in fresh  PROVE x.endpoint = ep /\ x.key.ownerId = owner
    <3>1. PICK i \in added : x.endpoint = ep /\ x.key = KeyAt(owner, i)
      BY <1>7
    <3>2. KeyAt(owner, i).ownerId = owner
      BY DEF KeyAt
    <3> QED BY <3>1, <3>2
  <2>2. ASSUME NEW x \in s  PROVE x \in mScreens /\ x.key.ownerId # owner
    <3>1. x \in mScreens /\ x.endpoint # ep /\ x.endpoint \in Endpoint
      BY <1>5 DEF StoreWithout, StoreInv, StoreTypeOK, VirtualScreen
    <3> QED BY <3>1 DEF OwnersOf, ScreensOf
  <2> QED BY <1>8, <2>1, <2>2 DEF StoreInv, OwnersSeparate
<1>18. TopologyIsRoutable'
  <2> SUFFICES ASSUME NEW k \in DOMAIN u.screens
               PROVE  \E v \in mScreens' : /\ v.key = k
                                           /\ v.cell = u.screens[k].cell
                                           /\ v.info = u.screens[k].info
                                           /\ v.local = u.screens[k].local
    BY DEF TopologyIsRoutable
  <2>1. CASE k \in DOMAIN t.screens
    BY <1>5, <1>8, <1>9, <2>1 DEF StoreWithout
  <2>2. CASE k \in DOMAIN new
    <3>1. PICK i \in added : k = KeyAt(owner, i)
      BY <1>4, <2>2 DEF BatchIsNew, new
    <3> DEFINE v == [endpoint |-> ep, key |-> KeyAt(owner, i), cell |-> cell[i],
                     local |-> (ep = LocalEndpoint), info |-> infos[i]]
    <3>2. v \in mScreens'
      BY <1>6, <1>8
    <3>3. u.screens[k] = [cell |-> cell[i], info |-> infos[i],
                          local |-> (ep = LocalEndpoint)]
      BY <1>4, <1>9, <2>2, <3>1 DEF BatchIsNew, new
    <3>4. /\ v.key = k
          /\ v.cell = u.screens[k].cell
          /\ v.info = u.screens[k].info
          /\ v.local = u.screens[k].local
      BY <3>1, <3>3
    <3> QED BY <3>2, <3>4
  <2> QED BY <1>9, <2>1, <2>2
<1>19. RoutableIsInTopology'
  <2> SUFFICES ASSUME ExclusiveOwners, NEW v \in mScreens'
               PROVE  /\ v.key \in DOMAIN u.screens
                      /\ u.screens[v.key].cell = v.cell
                      /\ u.screens[v.key].info = v.info
    BY DEF RoutableIsInTopology
  <2>1. CASE v \in s
    BY <1>5, <1>9, <2>1 DEF StoreWithout
  <2>2. CASE v \in fresh
    <3>1. PICK i \in added : /\ v.key = KeyAt(owner, i)
                             /\ v.cell = cell[i]
                             /\ v.info = infos[i]
      BY <1>7, <2>2
    <3>2. v.key \in DOMAIN new
      BY <1>4, <3>1 DEF BatchIsNew, new
    <3>3. u.screens[v.key] = [cell |-> cell[i], info |-> infos[i],
                              local |-> (ep = LocalEndpoint)]
      BY <1>4, <1>9, <3>1, <3>2 DEF BatchIsNew, new
    <3> QED BY <1>9, <3>1, <3>2, <3>3
  <2> QED BY <1>8, <2>1, <2>2
<1>20. LayoutFollowsTopology'
  BY <1>5, <1>9, <1>11 DEF StoreWithout, StoreInv, LayoutFollowsTopology
<1>21. ClientScreensRegistered'
  <2> SUFFICES ASSUME ExclusiveOwners, NEW e \in Endpoint \ {LocalEndpoint},
                      NEW i \in DOMAIN reported'[e], IsValidRect(reported'[e][i])
               PROVE  \E v \in mScreens' : /\ v.endpoint = e
                                           /\ v.key.screenIndex = i - 1
                                           /\ v.info = reported'[e][i]
    BY DEF ClientScreensRegistered, IsRegistered, ScreensOf
  <2>1. CASE e = ep
    <3>1. reported'[e] = infos
      BY <1>12, <2>1 DEF StoreInv, StoreTypeOK
    <3>2. KeyAt(owner, i) \notin DOMAIN t.screens
      <4> SUFFICES ASSUME KeyAt(owner, i) \in DOMAIN t.screens  PROVE FALSE
        OBVIOUS
      <4>1. PICK v \in s : v.key = KeyAt(owner, i)
        BY <1>5 DEF StoreWithout
      <4>2. v \in mScreens /\ v.endpoint # ep /\ v.endpoint \in Endpoint
        BY <1>5, <4>1 DEF StoreWithout, StoreInv, StoreTypeOK, VirtualScreen
      <4>3. v.key.ownerId = owner
        BY <4>1 DEF KeyAt
      <4> QED BY <4>2, <4>3 DEF OwnersOf, ScreensOf
    <3>3. IsRegistration(t, ep, owner, infos, cell, added)
      BY <1>2 DEF t
    <3>4. IsFiniteSet(DOMAIN t.cells) /\ StoreTypeOK
      BY <1>5 DEF StoreWithout, StoreInv
    <3>5. i \in added
      BY <1>1, <1>3, <2>1, <3>1, <3>2, <3>3, <3>4, ClientScreensAreAdded
    <3> DEFINE v == [endpoint |-> ep, key |-> KeyAt(owner, i), cell |-> cell[i],
                     local |-> (ep = LocalEndpoint), info |-> infos[i]]
    <3>6. v \in mScreens'
      BY <1>6, <1>8, <3>5
    <3>7. v.endpoint = e /\ v.key.screenIndex = i - 1 /\ v.info = reported'[e][i]
      BY <2>1, <3>1 DEF KeyAt
    <3> QED BY <3>6, <3>7
  <2>2. CASE e # ep
    <3>1. reported'[e] = reported[e]
      BY <1>12, <2>2 DEF StoreInv, StoreTypeOK
    <3>2. PICK v \in mScreens : /\ v.endpoint = e
                                /\ v.key.screenIndex = i - 1
                                /\ v.info = reported[e][i]
      BY <3>1 DEF StoreInv, ClientScreensRegistered, IsRegistered, ScreensOf
    <3>3. v \in mScreens'
      BY <1>5, <1>8, <2>2, <3>2 DEF StoreWithout
    <3> QED BY <3>1, <3>2, <3>3
  <2> QED BY <2>1, <2>2
<1> QED BY <1>10, <1>14, <1>15, <1>16, <1>17, <1>18, <1>19, <1>20, <1>21
        DEF StoreInv, MapsAgree

\* Server::removeEndpointScreens keeps the invariant.
LEMMA RemoveKeepsInvariant ==
  ASSUME StoreInv, NEW ep \in Endpoint, RemoveScreens(ep), serving' = TRUE
  PROVE  StoreInv'
<1> DEFINE t == RemainingTopology(ep)
           s == RemainingScreens(ep)
<1>1. /\ mScreens' = s
      /\ mTopology' = t
      /\ reported' = [reported EXCEPT ![ep] = <<>>]
      /\ config' = config
  BY DEF RemoveScreens
<1>2. StoreWithout(ep, t, s)
  BY RemainingFacts
<1> HIDE DEF t, s
<1>3. StoreTypeOK'
  <2>1. mScreens' \subseteq VirtualScreen
    BY <1>1, <1>2 DEF StoreWithout, StoreInv, StoreTypeOK
  <2>2. TopologyType(mTopology')
    BY <1>1, <1>2 DEF StoreWithout
  <2>3. reported' \in [Endpoint -> Seq(ScreenInfo)]
    BY <1>1 DEF StoreInv, StoreTypeOK
  <2>4. IsLayout(config')
    BY <1>1 DEF StoreInv, StoreTypeOK
  <2>5. \A v \in mScreens' : IsValidRect(v.info)
    BY <1>1, <1>2 DEF StoreWithout, StoreInv, StoreTypeOK
  <2> QED BY <2>1, <2>2, <2>3, <2>4, <2>5 DEF StoreTypeOK, TopologyType
<1>4. IsFiniteSet(DOMAIN mTopology'.cells) /\ MapsInverse(mTopology')
  BY <1>1, <1>2 DEF StoreWithout
<1>5. StoppedIsEmpty'
  BY DEF StoppedIsEmpty
<1>6. OwnersSeparate'
  BY <1>1, <1>2 DEF StoreWithout, StoreInv, OwnersSeparate
<1>7. TopologyIsRoutable'
  BY <1>1, <1>2 DEF StoreWithout, TopologyIsRoutable
<1>8. RoutableIsInTopology'
  BY <1>1, <1>2 DEF StoreWithout, RoutableIsInTopology
<1>9. LayoutFollowsTopology'
  BY <1>1, <1>2 DEF StoreWithout, StoreInv, LayoutFollowsTopology
<1>10. ClientScreensRegistered'
  <2> SUFFICES ASSUME ExclusiveOwners, NEW e \in Endpoint \ {LocalEndpoint},
                      NEW i \in DOMAIN reported'[e], IsValidRect(reported'[e][i])
               PROVE  \E v \in mScreens' : /\ v.endpoint = e
                                           /\ v.key.screenIndex = i - 1
                                           /\ v.info = reported'[e][i]
    BY DEF ClientScreensRegistered, IsRegistered, ScreensOf
  <2>1. e # ep /\ reported'[e] = reported[e]
    BY <1>1 DEF StoreInv, StoreTypeOK
  <2>2. PICK v \in mScreens : /\ v.endpoint = e
                              /\ v.key.screenIndex = i - 1
                              /\ v.info = reported[e][i]
    BY <2>1 DEF StoreInv, ClientScreensRegistered, IsRegistered, ScreensOf
  <2> QED BY <1>1, <1>2, <2>1, <2>2 DEF StoreWithout
<1> QED BY <1>3, <1>4, <1>5, <1>6, <1>7, <1>8, <1>9, <1>10 DEF StoreInv, MapsAgree

\* A server that is not serving has an empty store.
LEMMA StoppedInvariant ==
  /\ mScreens = {} /\ mTopology = EmptyTopology /\ IsLayout(config)
  /\ serving \in BOOLEAN /\ reported = [ep \in Endpoint |-> <<>>]
  => StoreInv
<1> SUFFICES ASSUME mScreens = {}, mTopology = EmptyTopology, IsLayout(config),
                    serving \in BOOLEAN, reported = [ep \in Endpoint |-> <<>>]
             PROVE  StoreInv
  OBVIOUS
<1>1. DOMAIN mTopology.screens = {} /\ DOMAIN mTopology.cells = {}
  BY DEF EmptyTopology
<1>2. /\ mTopology.screens = [k \in DOMAIN mTopology.screens |-> k]
      /\ mTopology.cells = [c \in DOMAIN mTopology.cells |-> c]
  BY DEF EmptyTopology
<1>3. StoreTypeOK
  <2>1. reported \in [Endpoint -> Seq(ScreenInfo)]
    OBVIOUS
  <2>2. mTopology.screens \in [DOMAIN mTopology.screens -> TopologyScreen]
    BY <1>1, <1>2
  <2>3. mTopology.cells \in [DOMAIN mTopology.cells -> ScreenKey]
    BY <1>1, <1>2
  <2> QED BY <1>1, <2>1, <2>2, <2>3 DEF StoreTypeOK
<1>4. IsFiniteSet(DOMAIN mTopology.cells)
  BY <1>1, FS_EmptySet
<1>5. ClientScreensRegistered
  BY DEF ClientScreensRegistered
<1> QED BY <1>1, <1>3, <1>4, <1>5
        DEF StoreInv, StoppedIsEmpty, OwnersSeparate, MapsAgree, MapsInverse,
            TopologyIsRoutable, RoutableIsInTopology, LayoutFollowsTopology
-----------------------------------------------------------------------------
\* A server that has just started.
LEMMA InitEstablishesInvariant == StoreInit => StoreInv
<1> SUFFICES ASSUME StoreInit PROVE StoreInv
  OBVIOUS
<1>1. IsLayout(config)
  BY SavedLayoutsAssumption DEF StoreInit
<1> QED BY <1>1, StoppedInvariant DEF StoreInit

\* No operation of the store, and no restart, breaks the invariant.
LEMMA NextKeepsInvariant == StoreInv /\ [StoreNext]_storeVars => StoreInv'
<1> SUFFICES ASSUME StoreInv, [StoreNext]_storeVars PROVE StoreInv'
  OBVIOUS
<1>1. CASE RegisterLocal
  <2>1. PICK infos \in ScreenLists : ReplaceScreens(LocalEndpoint, LocalOwner, infos)
    BY <1>1 DEF RegisterLocal
  <2>2. mScreens = {}
    BY <1>1 DEF RegisterLocal, StoreInv, StoppedIsEmpty
  <2>3. \A other \in Endpoint : LocalOwner \notin OwnersOf(mScreens, other)
    BY <2>2 DEF OwnersOf, ScreensOf
  <2>4. serving' = TRUE /\ LocalOwner \in OwnerId /\ LocalEndpoint \in Endpoint
    BY <1>1, OwnerAssumption, EndpointAssumption DEF RegisterLocal
  <2> QED BY <2>1, <2>3, <2>4, ReplaceKeepsInvariant
<1>2. CASE RegisterRemote
  <2>1. PICK ep \in Endpoint \ {LocalEndpoint}, owner \in ClientOwner,
             infos \in ScreenLists :
               /\ ExclusiveOwners => OwnerIsFree(ep, owner)
               /\ ReplaceScreens(ep, owner, infos)
    BY <1>2 DEF RegisterRemote
  <2>2. serving' = TRUE /\ owner \in OwnerId
    BY <1>2, OwnerAssumption DEF RegisterRemote
  <2>3. ExclusiveOwners =>
          \A other \in Endpoint \ {ep} : owner \notin OwnersOf(mScreens, other)
    BY <2>1 DEF OwnerIsFree
  <2> QED BY <2>1, <2>2, <2>3, ReplaceKeepsInvariant
<1>3. CASE Disconnect
  <2>1. PICK ep \in Endpoint \ {LocalEndpoint} : RemoveScreens(ep)
    BY <1>3 DEF Disconnect
  <2>2. serving' = TRUE
    BY <1>3 DEF Disconnect
  <2> QED BY <2>1, <2>2, RemoveKeepsInvariant
<1>4. CASE Restart
  <2>1. /\ mScreens' = {} /\ mTopology' = EmptyTopology /\ IsLayout(config')
        /\ serving' = FALSE /\ reported' = [ep \in Endpoint |-> <<>>]
    BY <1>4 DEF Restart, StoreInv, StoreTypeOK
  <2>2. (mScreens = {} /\ mTopology = EmptyTopology /\ IsLayout(config)
         /\ serving \in BOOLEAN /\ reported = [ep \in Endpoint |-> <<>>])'
    BY <2>1
  <2> QED BY <2>2, StoppedInvariant, PTL
<1>5. CASE UNCHANGED storeVars
  <2> USE <1>5 DEF storeVars
  <2> QED BY DEF StoreInv, StoreTypeOK, StoppedIsEmpty, OwnersSeparate, MapsAgree,
                 TopologyIsRoutable, RoutableIsInTopology, LayoutFollowsTopology,
                 ClientScreensRegistered, IsRegistered, ScreensOf
<1> QED BY <1>1, <1>2, <1>3, <1>4, <1>5 DEF StoreNext

\* The inductive invariant holds in every state of the store.
THEOREM StoreInvariant == StoreSpec => []StoreInv
BY InitEstablishesInvariant, NextKeepsInvariant, PTL DEF StoreSpec

\* The variables of the store always have their types.
THEOREM StoreTypeCorrect == StoreSpec => []StoreTypeOK
<1>1. StoreInv => StoreTypeOK
  BY DEF StoreInv
<1> QED BY <1>1, StoreInvariant, PTL

\* mScreens and mCells of ScreenTopology are always inverse to each other.
THEOREM TopologyMapsAgree == StoreSpec => []MapsAgree
<1>1. StoreInv => MapsAgree
  BY DEF StoreInv
<1> QED BY <1>1, StoreInvariant, PTL

\* A screen the cursor can cross to is always one input can be routed to, also
\* when several endpoints register screens of one owner.
THEOREM NoGhostScreens == StoreSpec => []TopologyIsRoutable
<1>1. StoreInv => TopologyIsRoutable
  BY DEF StoreInv
<1> QED BY <1>1, StoreInvariant, PTL

\* With one endpoint per owner, a screen input can be routed to is always on
\* the grid.
THEOREM NoOrphanScreens == StoreSpec => []RoutableIsInTopology
<1>1. StoreInv => RoutableIsInTopology
  BY DEF StoreInv
<1> QED BY <1>1, StoreInvariant, PTL

\* The layout that is saved is always that of the grid.
THEOREM LayoutIsRemembered == StoreSpec => []LayoutFollowsTopology
<1>1. StoreInv => LayoutFollowsTopology
  BY DEF StoreInv
<1> QED BY <1>1, StoreInvariant, PTL

\* With one endpoint per owner, every well-formed screen a client reports is
\* registered, whatever the saved layout and however full the grid.
THEOREM NoClientScreenLost == StoreSpec => []ClientScreensRegistered
<1>1. StoreInv => ClientScreensRegistered
  BY DEF StoreInv
<1> QED BY <1>1, StoreInvariant, PTL

\* With one endpoint per owner, the end of a connection takes no screen of
\* another one off the grid.
THEOREM RemovalsAreLocal ==
  ASSUME ExclusiveOwners
  PROVE  StoreSpec => RemovalIsLocal
<1>1. StoreInv /\ StoreInv' /\ [StoreNext]_storeVars =>
        [serving' =>
           \A v \in mScreens \cap mScreens' :
             v.key \in DOMAIN mTopology.screens =>
               v.key \in DOMAIN mTopology'.screens]_storeVars
  BY DEF StoreInv, RoutableIsInTopology
<1> QED BY <1>1, StoreInvariant, PTL DEF StoreSpec, RemovalIsLocal
=============================================================================
