------------------------------ MODULE MCRepair -------------------------------
(* Two units that may fail, one issue for the user and one mere remark. *)
EXTENDS Repair

CONSTANTS u1, u2, kernel, taint

MCUnit == {u1, u2}
MCTrouble == {kernel, taint}
MCSerious == {kernel}
==============================================================================
