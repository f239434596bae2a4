-------------------------- MODULE MCTimeShiftBuffer --------------------------
(* TimeShiftBuffer on a small instance; a configuration file cannot hold a *)
(* negative number.                                                        *)
EXTENDS TimeShiftBuffer

TrickSpeeds == {-1, 1, 2}
=============================================================================
