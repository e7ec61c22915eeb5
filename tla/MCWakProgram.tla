---------------------------- MODULE MCWakProgram ----------------------------
(* Instances of WakProgram for TLC. *)
EXTENDS WakProgram

(* With pages of four bytes and ints below 8: an empty file, files that    *)
(* leave three, two, one and no byte of their last page, one whose size is *)
(* negative as an int, and one whose size is cut down to 2.                *)
MCFileSizes == {0, 5, 6, 3, 4, 9, 18}
=============================================================================
