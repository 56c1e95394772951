----------------------------- MODULE MCKeyTravel -----------------------------
(* Keys every table has: O, 1, 0, the keypad's + and the left Shift.           *)
EXTENDS KeyTravel
MCCommon == {18, 30, 39, 87, 225}
=============================================================================
