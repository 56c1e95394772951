---------------------------- MODULE CaptureBackend ----------------------------
(***************************************************************************)
(* What the input router expects of InputCapture (platform.hpp): the       *)
(* user's input is taken from the programs of the server's machine only    *)
(* between setRemoteControlActive(true) and the next (false), a refusal    *)
(* changes nothing, and a backend that has been shut down holds nothing.   *)
(* The X11 and the Win32 capture implement it.                             *)
(***************************************************************************)
VARIABLES open,      \* the backend has been initialized
          remote,    \* the mode the backend is in
          taken      \* the user's pointer input reaches no local program

captureVars == <<open, remote, taken>>

CaptureInit == ~open /\ ~remote /\ ~taken

Initialize == open' = TRUE /\ remote' = FALSE /\ taken' = FALSE
Take == open /\ ~remote /\ remote' = TRUE /\ taken' = TRUE /\ UNCHANGED open
GiveBack == remote' = FALSE /\ taken' = FALSE /\ UNCHANGED open
\* The windowing system can end the capture on its own; the mode is not told.
Lose == taken /\ taken' = FALSE /\ UNCHANGED <<open, remote>>
Shutdown == open' = FALSE /\ remote' = FALSE /\ taken' = FALSE

CaptureNext == Initialize \/ Take \/ GiveBack \/ Lose \/ Shutdown
CaptureSpec == CaptureInit /\ [][CaptureNext]_captureVars
=============================================================================
