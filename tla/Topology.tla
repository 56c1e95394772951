------------------------------ MODULE Topology ------------------------------
(***************************************************************************)
(* The grid of screens: src/core/topology.cpp, class ScreenTopology.       *)
(*                                                                         *)
(* A topology t is a record of the class's two maps: t.screens takes a     *)
(* ScreenKey to what is known of the screen (mScreens) and t.cells takes   *)
(* an occupied grid position to the key of the screen on it (mCells).      *)
(* Nothing in the class makes the two maps agree but the code of           *)
(* addScreen and removeOwner.                                              *)
(***************************************************************************)
EXTENDS Integers, Functions

\* GridPosition, ScreenInfo (the fields that decide anything) and Edge.
GridPosition == [x : Int, y : Int]
ScreenInfo   == [width : Int, height : Int, primary : BOOLEAN]
Edges        == {"Left", "Right", "Top", "Bottom"}

Origin == [x |-> 0, y |-> 0]

IsValidRect(info) == info.width > 0 /\ info.height > 0

EmptyTopology == [screens |-> [k \in {} |-> k], cells |-> [c \in {} |-> c]]

(***************************************************************************)
(* addScreen for a batch of screens.  The caller has established for each  *)
(* of them what addScreen tests, in the code's order: a valid rectangle, a *)
(* key and a cell that neither t nor an earlier screen of the batch has.   *)
(***************************************************************************)
AddScreens(t, new) ==
  [screens |-> [k \in DOMAIN t.screens \cup DOMAIN new |->
                  IF k \in DOMAIN new THEN new[k] ELSE t.screens[k]],
   cells   |-> [c \in DOMAIN t.cells \cup {new[k].cell : k \in DOMAIN new} |->
                  IF c \in DOMAIN t.cells
                  THEN t.cells[c]
                  ELSE CHOOSE k \in DOMAIN new : new[k].cell = c]]

\* Mutant of RemoveOwners: the cells of the screens are not freed.
RemoveOwnersOnly(t, owners) ==
  [t EXCEPT !.screens = Restrict(@, {k \in DOMAIN @ : k.ownerId \notin owners})]

\* removeOwner, for every owner of a set: the order does not matter.
RemoveOwners(t, owners) ==
  LET gone == {k \in DOMAIN t.screens : k.ownerId \in owners}
  IN [screens |-> Restrict(t.screens, DOMAIN t.screens \ gone),
      cells   |-> Restrict(t.cells,
                           DOMAIN t.cells \ {t.screens[k].cell : k \in gone})]

\* The two maps are inverse to each other.
MapsInverse(t) ==
  /\ \A k \in DOMAIN t.screens :
       /\ t.screens[k].cell \in DOMAIN t.cells
       /\ t.cells[t.screens[k].cell] = k
  /\ \A c \in DOMAIN t.cells :
       /\ t.cells[c] \in DOMAIN t.screens
       /\ t.screens[t.cells[c]].cell = c
-----------------------------------------------------------------------------
\* Crossing from one screen to the next.

NeighborCell(cell, edge) ==
  CASE edge = "Left"   -> [cell EXCEPT !.x = @ - 1]
    [] edge = "Right"  -> [cell EXCEPT !.x = @ + 1]
    [] edge = "Top"    -> [cell EXCEPT !.y = @ - 1]
    [] edge = "Bottom" -> [cell EXCEPT !.y = @ + 1]

HasNeighbor(t, key, edge) ==
  /\ key \in DOMAIN t.screens
  /\ NeighborCell(t.screens[key].cell, edge) \in DOMAIN t.cells

FindNeighbor(t, key, edge) == t.cells[NeighborCell(t.screens[key].cell, edge)]

(***************************************************************************)
(* The edges hitEdge can report for a point, and the one it reports: the   *)
(* first in the order Left, Right, Top, Bottom.  On a corner the other     *)
(* edge is never tried.                                                    *)
(***************************************************************************)
OnEdge(info, x, y, edge) ==
  CASE edge = "Left"   -> x <= 0
    [] edge = "Right"  -> x >= info.width - 1
    [] edge = "Top"    -> y <= 0
    [] edge = "Bottom" -> y >= info.height - 1

HitsEdge(t, key, x, y, edge) ==
  LET on(e) == OnEdge(t.screens[key].info, x, y, e)
  IN /\ key \in DOMAIN t.screens
     /\ on(edge)
     /\ edge # "Left" => ~on("Left")
     /\ edge \in {"Top", "Bottom"} => ~on("Right")
     /\ edge = "Bottom" => ~on("Top")

Clamp(v, lo, hi) == IF v < lo THEN lo ELSE IF v > hi THEN hi ELSE v

\* Mutant of RoundedQuotient: the quotient is truncated.
TruncatedQuotient(a, b) == a \div b

\* std::lround of the quotient: to the nearest integer, halves upwards (the
\* operands are not negative).
RoundedQuotient(a, b) == (2 * a + b) \div (2 * b)

\* Mutant of EntryCoordinate: extents where the last coordinates are meant.
EntryCoordinateByExtent(source, sourceExtent, targetExtent) ==
  IF sourceExtent <= 1 \/ targetExtent <= 1
  THEN 0
  ELSE RoundedQuotient(Clamp(source, 0, sourceExtent) * targetExtent, sourceExtent)

\* The coordinate along the border, scaled; a border of one pixel has no scale.
EntryCoordinate(source, sourceExtent, targetExtent) ==
  IF sourceExtent <= 1 \/ targetExtent <= 1
  THEN 0
  ELSE LET sourceSpan == sourceExtent - 1
           targetSpan == targetExtent - 1
           clamped    == Clamp(source, 0, sourceSpan)
       IN Clamp(RoundedQuotient(clamped * targetSpan, sourceSpan), 0, targetSpan)

\* Where mapEntryPoint succeeds, and the point it returns there.
CanMapEntryPoint(t, key, edge) ==
  /\ HasNeighbor(t, key, edge)
  /\ FindNeighbor(t, key, edge) \in DOMAIN t.screens

MapEntryPoint(t, key, x, y, edge) ==
  LET source == t.screens[key].info
      next   == FindNeighbor(t, key, edge)
      target == t.screens[next].info
  IN [key |-> next,
      x   |-> CASE edge = "Left"  -> target.width - 1
                [] edge = "Right" -> 0
                [] OTHER -> EntryCoordinate(x, source.width, target.width),
      y   |-> CASE edge = "Top"    -> target.height - 1
                [] edge = "Bottom" -> 0
                [] OTHER -> EntryCoordinate(y, source.height, target.height)]

=============================================================================
