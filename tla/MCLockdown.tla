----------------------------- MODULE MCLockdown -----------------------------
(* Small instances of Lockdown; card numbers and hashes as in MCUserStore. *)
EXTENDS Lockdown

CONSTANT Cards

MCId == Cards \cup {c + 10 : c \in Cards} \cup {c + 20 : c \in Cards}

MCHash == [i \in MCId |-> IF i < 20 THEN i + 10 ELSE i]
=============================================================================
