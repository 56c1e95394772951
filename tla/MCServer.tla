------------------------------ MODULE MCServer ------------------------------
(***************************************************************************)
(* Small servers.  "Input" runs have one client and every kind of motion   *)
(* over screens of a few pixels; "session" runs have two clients and the   *)
(* motions that cross a border.                                            *)
(***************************************************************************)
EXTENDS Server

Screen(w, h, primary) == [width |-> w, height |-> h, primary |-> primary]
Key(o, n)             == [ownerId |-> o, screenIndex |-> n]
NoLayout              == [k \in {} |-> Origin]

Sample(i, a, b, dx, dy) ==
  [screenIndex |-> i, x |-> a, y |-> b, deltaX |-> dx, deltaY |-> dy]

\* One screen; a primary of another shape beside a small one.
InputLists == {<<Screen(3, 2, TRUE)>>, <<Screen(1, 1, FALSE), Screen(2, 3, TRUE)>>}

\* Positions without a raw delta, on both borders and off them; raw deltas, up
\* to one that overshoots a whole screen, from a cursor that is held in place.
InputSamples ==
  {Sample(0, a, 1, 0, 0) : a \in {0, 2}} \cup {Sample(1, 1, 1, 0, 0)} \cup
  {Sample(0, 1, 1, dx, dy) : dx \in {-3, 0, 1}, dy \in {0, 1}}

\* One screen each; a client may report none.
SessionLists == {<<Screen(2, 1, TRUE)>>, <<>>}

OneScreenLists == {<<Screen(2, 1, TRUE)>>}

\* To the right border of the server's screen, and one step each way.
SessionSamples ==
  {Sample(0, 1, 0, 0, 0), Sample(0, 1, 0, 1, 0), Sample(0, 1, 0, -1, 0)}

NothingSaved == {NoLayout}

=============================================================================
