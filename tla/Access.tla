------------------------------- MODULE Access -------------------------------
(***************************************************************************)
(* What the lockbox promises of its door, without the tasks, signals and   *)
(* files that make it true: a card presented is a question, the question   *)
(* is judged once against the members of that moment, and the bolt moves   *)
(* back only after a judgement that said yes.                              *)
(***************************************************************************)
CONSTANT Id    \* what a card is stored as

VARIABLES
  members,   \* who may open the door
  question,  \* the card presented, if any
  verdict,   \* the judgement on it, once there is one
  bolt       \* "locked" or "unlocked"

accessVars == <<members, question, verdict, bolt>>

Init ==
  /\ members = {}
  /\ question = {}
  /\ verdict = {}
  /\ bolt = "locked"

Present(id) ==
  /\ question = {}
  /\ question' = {id}
  /\ UNCHANGED <<members, verdict, bolt>>

Judge ==
  \E id \in question :
    /\ verdict = {}
    /\ verdict' = {(id \in members)}
    /\ UNCHANGED <<members, question, bolt>>

Open ==
  /\ TRUE \in verdict
  /\ bolt' = "unlocked"
  /\ question' = {}
  /\ verdict' = {}
  /\ UNCHANGED members

Deny ==
  /\ FALSE \in verdict
  /\ question' = {}
  /\ verdict' = {}
  /\ UNCHANGED <<members, bolt>>

Relock ==
  /\ question = {}
  /\ bolt' = "locked"
  /\ UNCHANGED <<members, question, verdict>>

(* The administrator enrols and revokes; nobody else is a member for it. *)
Administer ==
  /\ members' \subseteq Id
  /\ UNCHANGED <<question, verdict, bolt>>

(* A loss of power drops the question, and the members until they are read *)
(* again; the bolt stays where it is.                                      *)
Restart ==
  /\ members' = {}
  /\ question' = {}
  /\ verdict' = {}
  /\ UNCHANGED bolt

Next ==
  \/ \E id \in Id : Present(id)
  \/ Judge
  \/ Open
  \/ Deny
  \/ Relock
  \/ Administer
  \/ Restart

Spec == Init /\ [][Next]_accessVars
=============================================================================
