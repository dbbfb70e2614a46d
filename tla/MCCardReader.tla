---------------------------- MODULE MCCardReader ----------------------------
(* Frames of four bits, two of which make the number, and a frame each of  *)
(* two other formats.                                                      *)
EXTENDS CardReader

MCFrames == [1..4 -> Bits] \cup {<<1, 0>>, <<0, 1, 1, 0, 1>>}
=============================================================================
