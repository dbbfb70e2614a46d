---------------------------- MODULE MCUserStore ----------------------------
(* Small instances of UserStore, with the cards 1 and 2.  A hash adds ten. *)
(* A hash of a hash leads elsewhere, as with SHA-256: hashing 12 again     *)
(* gives 22.  The hash 11 is its own hash, the one collision the proof of  *)
(* CacheBacked allows, so that change_name finds a line to rewrite.  Where *)
(* lines run together, the worst case is that their digits make the hash   *)
(* of another card, 12.                                                    *)
EXTENDS UserStore

MCId == {1, 2, 11, 12, 22}

MCHash == [i \in MCId |-> IF i \in {1, 2, 12} THEN i + 10 ELSE i]
============================================================================
