----------------------------- MODULE MCSession -----------------------------
(* Small instances of Session: passwords and their hashes. *)
EXTENDS Session, TLC

MCPassHash == "password" :> 1 @@ "a" :> 2

MCHash == [i \in Id |-> i]
============================================================================
