-------------------------------- MODULE Focus --------------------------------
(***************************************************************************)
(* What the server promises of the input of its keyboard and mouse, with   *)
(* screens, points, queues and sessions left out: at every moment one      *)
(* machine has it, the server (Home) or a client that is present; it goes  *)
(* to a client only when the user moves the cursor there, never because    *)
(* one connects; and it is home again in the step in which the client that *)
(* has it leaves or replaces its screens.                                  *)
(***************************************************************************)
CONSTANTS Client, Home

VARIABLES
  present,   \* the clients that have screens
  focus,     \* the machine that gets the input
  withheld   \* the input is kept from the server's own desktop

focusVars == <<present, focus, withheld>>

FocusInit ==
  /\ present = {}
  /\ focus = Home
  /\ withheld = FALSE

\* A client's screens are replaced, perhaps by none, or removed.
Change(c) ==
  /\ \/ present' = present \cup {c}
     \/ present' = present \ {c}
  /\ IF focus = c
     THEN focus' = Home /\ withheld' = FALSE
     ELSE UNCHANGED <<focus, withheld>>

\* The user moves the cursor; the desktop may be left with its input.
GoTo(c) ==
  /\ c \in present
  /\ focus' = c
  /\ withheld' \in {withheld, TRUE}
  /\ UNCHANGED present

GoHome ==
  /\ focus' = Home
  /\ withheld' = FALSE
  /\ UNCHANGED present

\* The server ends.
End ==
  /\ present' = {}
  /\ focus' = Home
  /\ withheld' = FALSE

FocusNext ==
  \/ GoHome
  \/ End
  \/ \E c \in Client : Change(c) \/ GoTo(c)

FocusSpec == FocusInit /\ [][FocusNext]_focusVars

=============================================================================
