----------------------------- MODULE MCLogStore -----------------------------
(* Small instances of LogStore: one card and its hash. *)
EXTENDS LogStore

MCId == {1, 11}

MCHash == [i \in MCId |-> 11]

=============================================================================
