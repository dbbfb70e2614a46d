------------------------------ MODULE Signals ------------------------------
(***************************************************************************)
(* The vocabulary shared by the tasks of the lockbox: card numbers and     *)
(* their hashes, the commands of src/signals.rs, and the one-value         *)
(* embassy_sync Signal that carries them.                                  *)
(*                                                                         *)
(* A Signal is modelled as a set with at most one element: `signal(v)`     *)
(* replaces whatever the set holds by {v}, `wait()` is enabled on a        *)
(* non-empty set and empties it.  There is no queue behind it.             *)
(***************************************************************************)
CONSTANTS
  Card,         \* the numbers a keycard reader can deliver
  Id,           \* every u64 the model speaks of: card numbers, hashes, hashes of hashes
  Name,         \* user names
  DefaultName,  \* the name "NULL" of a user nobody has named yet
  Password,     \* passwords an administrator may choose
  Hash,         \* the salted SHA-256 of a u64, truncated to a u64
  Garbled       \* the u64s that the digits of two hashes may make when a line of
                \* USER.TXT is written behind a piece of another

ASSUME VocabularyAssumption ==
  /\ Card \subseteq Id
  /\ DefaultName \in Name
  /\ Hash \in [Id -> Id]
  /\ Garbled \subseteq Id

(* What a card number is stored as. *)
Hashed == {Hash[c] : c \in Card}

(* What a line of USER.TXT can begin with. *)
Stored == Hashed \cup Garbled

---------------------------------------------------------------------------
(* The commands, one operator per variant of the enum. *)
ClearLog            == [op |-> "ClearLog"]
AddUserMode         == [op |-> "AddUserMode"]
RemoveAllUsers      == [op |-> "RemoveAllUsers"]
AddUser(id)         == [op |-> "AddUser", id |-> id]
RemoveUser(id)      == [op |-> "RemoveUser", id |-> id]
UpdateUser(id, n)   == [op |-> "UpdateUser", id |-> id, name |-> n]
IsUser(id)          == [op |-> "IsUser", id |-> id]
LogUser(id)         == [op |-> "LogUser", id |-> id]
SetPassword(p)      == [op |-> "SetPassword", password |-> p]

(* The commands that change the user database, and all the others. *)
UserCommand ==
  [op : {"AddUser"}, id : Card] \cup [op : {"RemoveUser"}, id : Stored]
    \cup [op : {"UpdateUser"}, id : Stored, name : Name] \cup [op : {"RemoveAllUsers"}]

OtherCommand ==
  [op : {"ClearLog", "AddUserMode"}] \cup [op : {"IsUser", "LogUser"}, id : Hashed]
    \cup [op : {"SetPassword"}, password : Password]

Command == UserCommand \cup OtherCommand

(* What it is to be a Signal over the values V. *)
IsSlot(s, V) == s \subseteq V /\ \A a, b \in s : a = b
============================================================================
