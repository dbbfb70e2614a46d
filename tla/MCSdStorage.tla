----------------------------- MODULE MCSdStorage -----------------------------
(* A small instance of SdStorage.  In buffers of two bytes the character   *)
(* of the second text lies within one or across the border of two,         *)
(* whichever the length of what is before it makes of it.                  *)
EXTENDS SdStorage

MCTexts == {<<"ascii">>, <<"ascii", "lead", "trail">>}
=============================================================================
