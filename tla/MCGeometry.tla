----------------------------- MODULE MCGeometry -----------------------------
(***************************************************************************)
(* The geometry of a crossing, for two screens side by side or one above   *)
(* the other, of every size up to MaxExtent, and every point a cursor can  *)
(* leave by: the same functions route the cursor whatever the sizes are.   *)
(***************************************************************************)
EXTENDS Topology

CONSTANT MaxExtent   \* the largest width and height

ASSUME ExtentAssumption == MaxExtent \in Nat

VARIABLES t, point

KeyOf(name) == [ownerId |-> name, screenIndex |-> 0]

Sizes == [width : 1..MaxExtent, height : 1..MaxExtent, primary : {FALSE}]

\* The screen "here" at the origin, "there" on one side of it.
TwoScreens(here, there, edge) ==
  AddScreens(EmptyTopology,
    [k \in {KeyOf("here"), KeyOf("there")} |->
       IF k = KeyOf("here")
       THEN [cell |-> Origin, info |-> here, local |-> TRUE]
       ELSE [cell |-> NeighborCell(Origin, edge), info |-> there, local |-> FALSE]])

InfoOf(key) == t.screens[key].info

\* A motion can overshoot the border it crosses by a pixel.
Init ==
  \E here \in Sizes, there \in Sizes, edge \in Edges :
    /\ t = TwoScreens(here, there, edge)
    /\ \E a \in -1..here.width, b \in -1..here.height :
         point = [key |-> KeyOf("here"), x |-> a, y |-> b]

Exits(edge) == HitsEdge(t, point.key, point.x, point.y, edge)
               /\ CanMapEntryPoint(t, point.key, edge)

Entry(edge) == MapEntryPoint(t, point.key, point.x, point.y, edge)

Cross == \E edge \in Edges : Exits(edge) /\ point' = Entry(edge)

Next == Cross /\ UNCHANGED t

Spec == Init /\ [][Next]_<<t, point>>
-----------------------------------------------------------------------------
Opposite == [Left |-> "Right", Right |-> "Left", Top |-> "Bottom", Bottom |-> "Top"]

\* The coordinate along the border, and the extent it lies in.
Along(edge, p)        == IF edge \in {"Left", "Right"} THEN p.y ELSE p.x
ExtentAlong(edge, key) == IF edge \in {"Left", "Right"}
                          THEN InfoOf(key).height ELSE InfoOf(key).width

Abs(n) == IF n < 0 THEN -n ELSE n

\* The cursor enters a screen on one of its pixels and on the border it came
\* over: mapEntryPoint never leaves it outside, where it would be stuck.
EntersOnTheBorder ==
  \A edge \in Edges : Exits(edge) =>
    LET p == Entry(edge) IN
      /\ p.x \in 0..(InfoOf(p.key).width - 1)
      /\ p.y \in 0..(InfoOf(p.key).height - 1)
      /\ OnEdge(InfoOf(p.key), p.x, p.y, Opposite[edge])

\* The entry is at the same fraction of the border, to the nearest pixel:
\* corners go to corners, and no pixel of a border is preferred by rounding.
EntryIsProportional ==
  \A edge \in Edges : Exits(edge) =>
    LET p          == Entry(edge)
        sourceSpan == ExtentAlong(edge, point.key) - 1
        targetSpan == ExtentAlong(edge, p.key) - 1
        source     == Clamp(Along(edge, point), 0, sourceSpan)
    IN sourceSpan > 0 /\ targetSpan > 0 =>
         2 * Abs(Along(edge, p) * sourceSpan - source * targetSpan) <= sourceSpan

\* From a screen to one at least as large and straight back, the cursor is on
\* the pixel it left: going over a border and back does not make it drift.
CrossingBackIsExact ==
  \A edge \in Edges : Exits(edge) =>
    LET p      == Entry(edge)
        extent == ExtentAlong(edge, point.key)
        back   == MapEntryPoint(t, p.key, p.x, p.y, Opposite[edge])
    IN extent > 1 /\ ExtentAlong(edge, p.key) >= extent =>
         Along(edge, back) = Clamp(Along(edge, point), 0, extent - 1)

=============================================================================
