---------------------------- MODULE MCNavMessage ----------------------------
(* A simulation over the end of a week, for TLC. *)
EXTENDS NavMessage

(* Starts in the last frame of week 0 but one: on a frame, just after it,   *)
(* and in its last second and tenth of a second, on both sides of each      *)
(* rounding.                                                                *)
EndOfWeek == {Week - 30000 + d : d \in {-600, -400, -51, -50, 0, 49}}

AfterWeek == Week + 700

=============================================================================
