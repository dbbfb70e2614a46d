----------------------------- MODULE UserStore -----------------------------
(***************************************************************************)
(* The user database: the lines of USER.TXT on the SD card, the cache      *)
(* net::USERS both cores share, and the command slot between the web       *)
(* handlers (core 0), the card reader (core 1) and the SD task (core 1).   *)
(*                                                                         *)
(* The cache is a mutex-protected vector; no holder of the mutex waits     *)
(* inside the critical section, so a critical section is one action and    *)
(* the signal a web handler sends while it holds the mutex belongs to it.  *)
(* File operations block the core they run on, and only the SD task makes  *)
(* any: what separates two steps of one command is the other core, or the  *)
(* loss of power.  Between two attempts of an operation that failed, half  *)
(* a second passes.                                                        *)
(***************************************************************************)
EXTENDS Signals, Naturals, Sequences, FiniteSets

CONSTANTS
  MaxUsers,      \* capacity of the cache (32)
  MaxRetries,    \* attempts of one SD operation (4)
  MaxFileLines,  \* bound: no card is presented in add mode beyond this many lines
  SdFaults,      \* whether SD operations may fail
  PowerLoss,     \* whether the device may lose power
  Lossy          \* whether a signal may replace a command not yet taken

ASSUME UserStoreAssumption ==
  /\ MaxUsers \in Nat \ {0}
  /\ MaxRetries \in Nat \ {0}
  /\ MaxFileLines \in Nat
  /\ {SdFaults, PowerLoss, Lossy} \subseteq BOOLEAN

VARIABLES
  cmd,        \* the COMMANDS signal
  usersFile,  \* the lines of USER.TXT that list somebody
  tail,       \* how USER.TXT ends: "closed", with a newline (or nothing at all);
              \* "open", within the name of its last line; "nobody", within a line
              \* that lists nobody
  users,      \* net::USERS
  job         \* what is left to do of the user command the SD task has taken

(* What the properties remember of the time since the boot; no step        *)
(* depends on it.                                                          *)
VARIABLES
  damaged,    \* whether a rewrite of USER.TXT gave up, or a failed read of it
              \* was taken for an empty file and written back
  failed,     \* whether an attempt to append a line failed
  astray      \* the hashes whose line was written behind a piece of another, or
              \* given up

fileVars  == <<usersFile, tail>>
history   == <<damaged, failed, astray>>
storeVars == <<cmd, fileVars, users, job, history>>

---------------------------------------------------------------------------
(* Lines of the file and entries of the cache. *)

Line == [id : Id, name : Name]

NewLine(id) == [id |-> id, name |-> DefaultName]

Ids(lines) == {lines[i].id : i \in DOMAIN lines}

(* The lines at the positions K, in the order of the file.  Written over   *)
(* positions, without recursion, so that UserStoreProofs can say what it   *)
(* returns.                                                                *)
Rank(i, K) == Cardinality({j \in K : j <= i})

Kept(lines, K) ==
  [k \in 1..Cardinality(K) |-> lines[CHOOSE i \in K : Rank(i, K) = k]]

Without(lines, id) == Kept(lines, {i \in DOMAIN lines : lines[i].id # id})

(* change_name compares with the hash of its parameter and writes the      *)
(* parameter itself.                                                       *)
Renamed(lines, id, n) ==
  [i \in DOMAIN lines |->
     IF lines[i].id = Hash[id] THEN [id |-> id, name |-> n] ELSE lines[i]]

(* The position iter().position() and iter_mut().find() stop at. *)
IsFirst(lines, i, id) ==
  lines[i].id = id /\ \A k \in 1..(i - 1) : lines[k].id # id

SwapRemove(lines, i) ==
  [k \in 1..(Len(lines) - 1) |-> IF k = i THEN lines[Len(lines)] ELSE lines[k]]

(* Mutant of Loaded: the cache has no capacity. *)
LoadedAll(lines) == lines

(* The cache holds as many lines as its capacity; the rest of the pushes   *)
(* fail and their error is dropped.                                        *)
Loaded(lines) ==
  SubSeq(lines, 1, IF Len(lines) < MaxUsers THEN Len(lines) ELSE MaxUsers)

---------------------------------------------------------------------------
(* What SD operations that fail, or that the power leaves, do to USER.TXT. *)
(* SdStorage shows it byte by byte; here a line "id:name" and a newline    *)
(* may be cut within its number, within its name, or behind it.            *)

(* A read that gives up yields the empty string. *)
ReadOutcomes == {usersFile} \cup (IF SdFaults THEN {<<>>} ELSE {})

Piece == {"nothing", "number", "name", "line"}

(* The names a piece of a new line may end with, and how it ends. *)
NewNames(piece) == IF piece = "line" THEN {DefaultName} ELSE Name

Ending(piece, cut) == IF piece = "line" THEN "closed" ELSE cut

(* A piece of the line of id is put at the end of the file.  Behind a name *)
(* that was cut it only makes that name longer; behind a number, its own   *)
(* digits are glued to that number's, and what they make is some number,   *)
(* or none that fits a u64.                                                *)
PutPiece(id, piece) ==
  \/ /\ piece = "nothing"
     /\ UNCHANGED fileVars
  \/ /\ piece = "number"
     /\ tail # "open"
     /\ tail' = "nobody"
     /\ UNCHANGED usersFile
  \/ /\ piece \in {"name", "line"}
     /\ tail = "closed"
     /\ \E n \in NewNames(piece) : usersFile' = Append(usersFile, [id |-> id, name |-> n])
     /\ tail' = Ending(piece, "open")
  \/ /\ piece # "nothing"
     /\ tail = "open"
     /\ \E n \in Name : usersFile' = [usersFile EXCEPT ![Len(usersFile)].name = n]
     /\ tail' = Ending(piece, "open")
  \/ /\ piece \in {"name", "line"}
     /\ tail = "nobody"
     /\ \E g \in Garbled, n \in NewNames(piece) :
          usersFile' = Append(usersFile, [id |-> g, name |-> n])
     /\ tail' = Ending(piece, "open")
  \/ /\ piece \in {"name", "line"}
     /\ tail = "nobody"
     /\ tail' = Ending(piece, "nobody")
     /\ UNCHANGED usersFile

(* A rewrite leaves what it wrote last: whole lines, and perhaps a piece   *)
(* of the next one.                                                        *)
TornRewrite(lines) ==
  \E n \in 0..Len(lines) :
    \/ /\ usersFile' = SubSeq(lines, 1, n)
       /\ tail' \in {"closed", "nobody"}
    \/ /\ n > 0
       /\ \E m \in Name : usersFile' = [SubSeq(lines, 1, n) EXCEPT ![n].name = m]
       /\ tail' = "open"

---------------------------------------------------------------------------
Booted == [step |-> "load"] \notin job

CanSignal == Lossy \/ cmd = {}

Init ==
  /\ cmd = {}
  /\ usersFile = <<>>
  /\ tail = "closed"
  /\ users = <<>>
  /\ job = {[step |-> "load"]}
  /\ damaged = FALSE
  /\ failed = FALSE
  /\ astray = {}

---------------------------------------------------------------------------
(* The SD task.  An arm is taken between jobs only. *)

(* Boot: the cache is filled from the file before the command loop runs. *)
LoadUsers ==
  /\ [step |-> "load"] \in job
  /\ \E text \in ReadOutcomes : users' = Loaded(text)
  /\ job' = {}
  /\ UNCHANGED <<cmd, fileVars, history>>

(* Mutant of AddUserTake: the card number is stored as it was read. *)
AddUserTakeUnhashed ==
  \E c \in cmd :
    /\ c.op = "AddUser"
    /\ job = {}
    /\ cmd' = {}
    /\ job' = {[step |-> "append", id |-> c.id, try |-> 1]}
    /\ UNCHANGED <<fileVars, users, history>>

(* add_user hashes the card number, ... *)
AddUserTake ==
  \E c \in cmd :
    /\ c.op = "AddUser"
    /\ job = {}
    /\ cmd' = {}
    /\ job' = {[step |-> "append", id |-> Hash[c.id], try |-> 1]}
    /\ UNCHANGED <<fileVars, users, history>>

(* Mutant of AddUserWrite: the file is opened to be overwritten. *)
AddUserWriteOver ==
  \E j \in job :
    /\ j.step = "append"
    /\ usersFile' = <<NewLine(j.id)>>
    /\ tail' = "closed"
    /\ job' = {[step |-> "push", id |-> j.id]}
    /\ UNCHANGED <<cmd, users, history>>

(* Mutant of AddUserWrite: the newline is left out. *)
AddUserWriteUnended ==
  \E j \in job :
    /\ j.step = "append"
    /\ PutPiece(j.id, "name")
    /\ astray' = IF tail = "closed" THEN astray ELSE astray \cup {j.id}
    /\ job' = {[step |-> "push", id |-> j.id]}
    /\ UNCHANGED <<cmd, users, damaged, failed>>

(* ... appends the line, ... *)
AddUserWrite ==
  \E j \in job :
    /\ j.step = "append"
    /\ PutPiece(j.id, "line")
    /\ astray' = IF tail = "closed" THEN astray ELSE astray \cup {j.id}
    /\ job' = {[step |-> "push", id |-> j.id]}
    /\ UNCHANGED <<cmd, users, damaged, failed>>

(* ... in full again behind what a failed attempt left of it, until it     *)
(* gives up, ...                                                           *)
AddUserFails ==
  \E j \in job, piece \in Piece :
    /\ SdFaults
    /\ j.step = "append"
    /\ PutPiece(j.id, piece)
    /\ failed' = TRUE
    /\ \/ /\ j.try < MaxRetries
          /\ job' = {[j EXCEPT !.try = @ + 1]}
          /\ UNCHANGED astray
       \/ /\ j.try = MaxRetries
          /\ job' = {[step |-> "push", id |-> j.id]}
          /\ astray' = astray \cup {j.id}
    /\ UNCHANGED <<cmd, users, damaged>>

(* ... and then pushes the entry, whatever became of the write. *)
AddUserPush ==
  \E j \in job :
    /\ j.step = "push"
    /\ users' = IF Len(users) < MaxUsers THEN Append(users, NewLine(j.id)) ELSE users
    /\ job' = {}
    /\ UNCHANGED <<cmd, fileVars, history>>

(* remove_user reads the file, keeps every line but those of the hash of   *)
(* its parameter and opens the file for writing, which empties it.  When   *)
(* the file cannot be opened the rewrite is given up.                      *)
RemoveUserOpen ==
  \E c \in cmd, text \in ReadOutcomes :
    /\ c.op = "RemoveUser"
    /\ job = {}
    /\ cmd' = {}
    /\ \/ /\ usersFile' = <<>>
          /\ tail' = "closed"
          /\ job' = {[step |-> "rewrite", id |-> Hash[c.id],
                      lines |-> Without(text, Hash[c.id])]}
          /\ damaged' = (damaged \/ text # usersFile)
       \/ /\ SdFaults
          /\ job' = {[step |-> "retain", id |-> Hash[c.id]]}
          /\ UNCHANGED <<fileVars, damaged>>
    /\ UNCHANGED <<users, failed, astray>>

RemoveUserWrite ==
  \E j \in job :
    /\ j.step = "rewrite"
    /\ \/ usersFile' = j.lines /\ tail' = "closed" /\ UNCHANGED damaged
       \/ SdFaults /\ TornRewrite(j.lines) /\ damaged' = TRUE
    /\ job' = {[step |-> "retain", id |-> j.id]}
    /\ UNCHANGED <<cmd, users, failed, astray>>

RemoveUserRetain ==
  \E j \in job :
    /\ j.step = "retain"
    /\ users' = Without(users, j.id)
    /\ job' = {}
    /\ UNCHANGED <<cmd, fileVars, history>>

(* change_name rewrites the file only when a line matches. *)
ChangeNameOpen ==
  \E c \in cmd, text \in ReadOutcomes :
    /\ c.op = "UpdateUser"
    /\ job = {}
    /\ cmd' = {}
    /\ \/ /\ Hash[c.id] \in Ids(text)
          /\ usersFile' = <<>>
          /\ tail' = "closed"
          /\ job' = {[step |-> "rename", lines |-> Renamed(text, c.id, c.name)]}
       \/ /\ Hash[c.id] \notin Ids(text) \/ SdFaults
          /\ UNCHANGED <<fileVars, job>>
    /\ UNCHANGED <<users, history>>

ChangeNameWrite ==
  \E j \in job :
    /\ j.step = "rename"
    /\ \/ usersFile' = j.lines /\ tail' = "closed" /\ UNCHANGED damaged
       \/ SdFaults /\ TornRewrite(j.lines) /\ damaged' = TRUE
    /\ job' = {}
    /\ UNCHANGED <<cmd, users, failed, astray>>

(* Mutant of RemoveAllDelete: the cache is left to the web handler. *)
RemoveAllDeleteOnly ==
  \E c \in cmd :
    /\ c.op = "RemoveAllUsers"
    /\ job = {}
    /\ cmd' = {}
    /\ usersFile' = <<>>
    /\ tail' = "closed"
    /\ UNCHANGED <<users, job, history>>

(* remove_all_users deletes the file without a retry, then clears the      *)
(* cache.                                                                  *)
RemoveAllDelete ==
  \E c \in cmd :
    /\ c.op = "RemoveAllUsers"
    /\ job = {}
    /\ cmd' = {}
    /\ \/ usersFile' = <<>> /\ tail' = "closed"
       \/ SdFaults /\ UNCHANGED fileVars
    /\ job' = {[step |-> "clear"]}
    /\ UNCHANGED <<users, history>>

RemoveAllClear ==
  /\ [step |-> "clear"] \in job
  /\ users' = <<>>
  /\ job' = {}
  /\ UNCHANGED <<cmd, fileVars, history>>

SdStep ==
  \/ LoadUsers
  \/ AddUserTake
  \/ AddUserWrite
  \/ AddUserFails
  \/ AddUserPush
  \/ RemoveUserOpen
  \/ RemoveUserWrite
  \/ RemoveUserRetain
  \/ ChangeNameOpen
  \/ ChangeNameWrite
  \/ RemoveAllDelete
  \/ RemoveAllClear

---------------------------------------------------------------------------
(* The file was emptied and its new lines are still to be written. *)
Rewriting == \E j \in job : j.step \in {"rewrite", "rename"}

Appending == \E j \in job : j.step = "append"

(* The lines the file has, or will have when the job under way is done. *)
LinesDue ==
  IF Rewriting THEN {Len(j.lines) : j \in job}
  ELSE {Len(usersFile) + (IF Appending THEN 1 ELSE 0)}

(* The other users of the slot.  A handler that finds no matching user, or *)
(* an unchanged name, redirects without touching anything.                 *)

(* The card reader, in add mode. *)
SignalAddUser(c) ==
  /\ CanSignal
  /\ \A n \in LinesDue : n < MaxFileLines
  /\ cmd' = {AddUser(c)}
  /\ UNCHANGED <<fileVars, users, job, history>>

(* POST /users/update *)
WebUpdateUser(id, n) ==
  /\ Booted
  /\ CanSignal
  /\ \E i \in DOMAIN users :
       /\ IsFirst(users, i, id)
       /\ users[i].name # n
       /\ users' = [users EXCEPT ![i].name = n]
  /\ cmd' = {UpdateUser(id, n)}
  /\ UNCHANGED <<fileVars, job, history>>

(* POST /users/remove *)
WebRemoveUser(id) ==
  /\ Booted
  /\ CanSignal
  /\ \E i \in DOMAIN users :
       /\ IsFirst(users, i, id)
       /\ users' = SwapRemove(users, i)
  /\ cmd' = {RemoveUser(id)}
  /\ UNCHANGED <<fileVars, job, history>>

(* POST /users/clear *)
WebRemoveAllUsers ==
  /\ Booted
  /\ CanSignal
  /\ users' = <<>>
  /\ cmd' = {RemoveAllUsers}
  /\ UNCHANGED <<fileVars, job, history>>

(* The rest of the system signals and takes its own commands. *)
OtherTraffic ==
  /\ Lossy
  /\ \/ \E c \in OtherCommand : cmd' = {c}
     \/ cmd \subseteq OtherCommand /\ cmd' = {}
  /\ UNCHANGED <<fileVars, users, job, history>>

(* Only the SD card survives a loss of power, with a piece of what was     *)
(* being written.                                                          *)
LosePower ==
  /\ PowerLoss
  /\ \/ UNCHANGED fileVars
     \/ \E j \in job, piece \in Piece : j.step = "append" /\ PutPiece(j.id, piece)
     \/ \E j \in job : j.step \in {"rewrite", "rename"} /\ TornRewrite(j.lines)
  /\ cmd' = {}
  /\ users' = <<>>
  /\ job' = {[step |-> "load"]}
  /\ damaged' = FALSE
  /\ failed' = FALSE
  /\ astray' = {}

Next ==
  \/ SdStep
  \/ \E c \in Card : SignalAddUser(c)
  \/ \E id \in Id, n \in Name : WebUpdateUser(id, n)
  \/ \E id \in Id : WebRemoveUser(id)
  \/ WebRemoveAllUsers
  \/ OtherTraffic
  \/ LosePower

Spec == Init /\ [][Next]_storeVars

(* The executor of core 1 polls the SD task whenever it can continue.      *)
(* Nothing makes a person, a browser or the power supply act.              *)
FairSpec == Spec /\ WF_storeVars(SdStep)

---------------------------------------------------------------------------
(* Properties. *)

Job ==
  [step : {"load", "clear"}] \cup [step : {"push", "retain"}, id : Id]
    \cup [step : {"append"}, id : Id, try : 1..MaxRetries]
    \cup [step : {"rewrite"}, id : Id, lines : Seq(Line)]
    \cup [step : {"rename"}, lines : Seq(Line)]

(* Every variable has its type: the slot and the job hold at most one      *)
(* value, the cache never outgrows its capacity of 32 entries, and only a  *)
(* line can be cut within its name.                                        *)
StoreTypeOK ==
  /\ IsSlot(cmd, Command)
  /\ usersFile \in Seq(Line)
  /\ tail \in {"closed", "open", "nobody"}
  /\ tail = "open" => usersFile # <<>>
  /\ users \in Seq(Line)
  /\ Len(users) <= MaxUsers
  /\ IsSlot(job, Job)
  /\ {damaged, failed} \subseteq BOOLEAN
  /\ astray \subseteq Hashed

(* The card numbers themselves reach neither the SD card nor the cache,    *)
(* only their hashes do (hash_id: "so that it can be stored securely on    *)
(* the SD card"), although change_name writes its parameter unhashed; what *)
(* else a line can begin with is the digits of hashes run together.        *)
OnlyHashesStored == Ids(usersFile) \cup Ids(users) \subseteq Stored

(* Between two commands of the SD task, whatever web handlers did to the   *)
(* cache meanwhile and whichever commands were lost, everyone the cache    *)
(* lets in has a line on the card: a restart does not invent the right to  *)
(* open the door, it can only rest on what the file says.  The exceptions  *)
(* are those whose own line add_user gave up, or wrote behind a line that  *)
(* did not end.  Of these there is at most one as long as no append fails: *)
(* a loss of power may have left one torn line, and the first user to be   *)
(* added after it runs into that line.  Otherwise only a rewrite that gave *)
(* up or a read that failed may end it, until the next boot.               *)
CacheBacked ==
  job = {} /\ ~damaged =>
    /\ Ids(users) \subseteq Ids(usersFile) \cup astray
    /\ ~failed => \A a, b \in astray : a = b

(* Whom the file lists, or will list when the job under way is done. *)
Listed == IF Rewriting THEN UNION {Ids(j.lines) : j \in job} ELSE Ids(usersFile)

(* Nobody disappears from the card by the way.  All of USER.TXT is         *)
(* rewritten to take out or rename one user, and others are added and      *)
(* removed meanwhile, but a user the file lists goes from it only by a     *)
(* RemoveUser whose parameter has that hash, or by RemoveAllUsers, unless  *)
(* a rewrite gave up or a read failed since the boot, or the power goes in *)
(* the middle of a rewrite.  However lines are torn and glued by appends,  *)
(* no line that was there is lost.                                         *)
NobodyDropped ==
  [][~damaged' /\ ~(LosePower /\ Rewriting) =>
       \A id \in Listed \ Listed' : \E c \in cmd :
         c.op = "RemoveAllUsers" \/ (c.op = "RemoveUser" /\ Hash[c.id] = id)]_storeVars

Quiescent == cmd = {} /\ job = {}

(* Once every command sent has been carried out, the card lists the users  *)
(* the cache lists: remove_user "Removes the specified user", on the card  *)
(* as well.                                                                *)
FileMirrorsCache == Quiescent => Ids(users) = Ids(usersFile)
============================================================================
