---------------------------- MODULE MCScreenStore ----------------------------
(***************************************************************************)
(* A server and two clients, with lists of one and of two screens.         *)
(***************************************************************************)
EXTENDS ScreenStore

Screen(primary) == [width |-> 3, height |-> 3, primary |-> primary]
BadScreen       == [width |-> 0, height |-> 3, primary |-> FALSE]
At(a, b)        == [x |-> a, y |-> b]
Key(owner, n)   == [ownerId |-> owner, screenIndex |-> n]

\* One screen; the primary second; a screen with an empty rectangle.
MCScreenLists == {<<Screen(TRUE)>>,
                  <<Screen(FALSE), Screen(TRUE)>>,
                  <<BadScreen, Screen(FALSE)>>}

MCShortLists == {<<Screen(TRUE)>>, <<Screen(FALSE), Screen(TRUE)>>}

\* Machines of one screen, so that two clients differ in nothing but their ids.
OneScreenLists == {<<Screen(TRUE)>>}

NoLayout == [k \in {} |-> Origin]

\* Nothing saved; a client above and one to the left; two keys on one cell.
MCSavedLayouts ==
  {NoLayout,
   [k \in {Key("a", 0), Key("b", 0)} |->
      IF k.ownerId = "a" THEN At(0, -1) ELSE At(-1, 0)],
   [k \in {Key("a", 0), Key("b", 0)} |-> At(1, 0)]}

NothingSaved == {NoLayout}

\* The server was last started with one screen.
OneScreenSaved == {[k \in {Key("server", 0)} |-> Origin]}

=============================================================================
