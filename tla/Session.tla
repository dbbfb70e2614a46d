------------------------------ MODULE Session ------------------------------
(***************************************************************************)
(* Who may use the panel: the session token net::TOKEN and the cookies the *)
(* browsers hold, the cached password net::PSWD, the file PSWD.TXT it is   *)
(* filled from at boot, and the SetPassword command between them.          *)
(*                                                                         *)
(* The web server has one connection, so one request is served at a time.  *)
(* A request whose cookie is missing or does not match is answered with    *)
(* 401 and changes nothing; neither does one whose body does not parse.    *)
(***************************************************************************)
EXTENDS Signals, Naturals, Sequences

CONSTANTS
  DefaultPassword,  \* "password"
  PassHash,         \* the salted SHA-256 of a password, truncated to a u64
  TornHash,         \* the u64s that the first digits of a hash may make
  Client,           \* the browsers
  Token,            \* 256-bit random numbers
  SdFaults,         \* whether SD operations may fail
  PowerLoss         \* whether the device may lose power

ASSUME SessionAssumption ==
  /\ DefaultPassword \in Password
  /\ PassHash \in [Password -> Id]
  /\ TornHash \subseteq Id
  /\ {SdFaults, PowerLoss} \subseteq BOOLEAN

VARIABLES
  cmd,        \* the COMMANDS signal
  pswdFile,   \* PSWD.TXT: the numbers written to it, one after the other
  pswd,       \* PSWD, empty until core 1 has initialised it
  pswdJob,    \* what the SD task has left to do about the password
  panicked,   \* whether core 1 spins in the panic handler
  token,      \* TOKEN
  cookie,     \* the session cookie each browser holds
  web         \* the login the web server is working on

(* What the properties remember; no step depends on it. *)
VARIABLES
  chosen,     \* the password of the last SetPassword the SD task took up
  spoilt,     \* whether storing it failed, was cut short, or is not done yet
  inForce     \* what chosen was when PSWD was filled, if nothing failed then

fileVars    == <<cmd, pswdFile, pswd, pswdJob, panicked>>
sessionVars == <<token, cookie, web>>
history     == <<chosen, spoilt, inForce>>
vars == <<fileVars, sessionVars, history>>

Init ==
  /\ cmd = {}
  /\ pswdFile = <<>>
  /\ pswd = {}
  /\ pswdJob = {[step |-> "load"]}
  /\ panicked = FALSE
  /\ token = {}
  /\ cookie = [c \in Client |-> {}]
  /\ web = {}
  /\ chosen = {DefaultPassword}
  /\ spoilt = FALSE
  /\ inForce = {}

---------------------------------------------------------------------------
(* The SD task. *)

Core1Runs == ~panicked

(* Mutant of BootPassword: the default is compared with but never cached. *)
BootPasswordUncached ==
  /\ Core1Runs
  /\ [step |-> "load"] \in pswdJob
  /\ pswdJob' = {}
  /\ pswdFile # <<>>
  /\ pswd' = {Head(pswdFile)}
  /\ inForce' = IF spoilt THEN {} ELSE chosen
  /\ UNCHANGED <<cmd, pswdFile, panicked, sessionVars, chosen, spoilt>>

(* Mutant of BootPassword: whether a password was set is not asked. *)
BootPasswordDefault ==
  /\ Core1Runs
  /\ [step |-> "load"] \in pswdJob
  /\ pswdJob' = {}
  /\ pswd' = {PassHash[DefaultPassword]}
  /\ inForce' = IF spoilt THEN {} ELSE chosen
  /\ UNCHANGED <<cmd, pswdFile, panicked, sessionVars, chosen, spoilt>>

(* An empty file, or one that cannot be opened, means the default          *)
(* password.  Any other is read and parsed.                                *)
BootPassword ==
  /\ Core1Runs
  /\ [step |-> "load"] \in pswdJob
  /\ pswdJob' = {}
  /\ \/ /\ pswdFile = <<>>
        /\ pswd' = {PassHash[DefaultPassword]}
        /\ inForce' = IF spoilt THEN {} ELSE chosen
     \/ /\ SdFaults
        /\ pswd' = {PassHash[DefaultPassword]}
        /\ inForce' = {}
     \/ /\ Len(pswdFile) = 1
        /\ pswd' = {Head(pswdFile)}
        /\ inForce' = IF spoilt THEN {} ELSE chosen
  /\ UNCHANGED <<cmd, pswdFile, panicked, sessionVars, chosen, spoilt>>

(* What was read is not a u64: the unwrap panics. *)
BootUnparsable ==
  /\ Core1Runs
  /\ [step |-> "load"] \in pswdJob
  /\ pswdFile # <<>>
  /\ Len(pswdFile) = 1 => SdFaults
  /\ panicked' = TRUE
  /\ UNCHANGED <<cmd, pswdFile, pswd, pswdJob, sessionVars, history>>

(* Mutant of TakeSetPassword: the file is opened to append. *)
TakeSetPasswordAppending ==
  \E c \in cmd :
    /\ Core1Runs
    /\ c.op = "SetPassword"
    /\ pswdJob = {}
    /\ cmd' = {}
    /\ pswdJob' = {[step |-> "rewrite", hash |-> PassHash[c.password]]}
    /\ chosen' = {c.password}
    /\ spoilt' = TRUE
    /\ UNCHANGED <<pswdFile, pswd, panicked, sessionVars, inForce>>

(* set_password hashes and opens the file for writing, which empties it;   *)
(* when it cannot be opened the write is given up.                         *)
TakeSetPassword ==
  \E c \in cmd :
    /\ Core1Runs
    /\ c.op = "SetPassword"
    /\ pswdJob = {}
    /\ cmd' = {}
    /\ \/ /\ pswdFile' = <<>>
          /\ pswdJob' = {[step |-> "rewrite", hash |-> PassHash[c.password]]}
       \/ /\ SdFaults
          /\ UNCHANGED <<pswdFile, pswdJob>>
    /\ chosen' = {c.password}
    /\ spoilt' = TRUE
    /\ UNCHANGED <<pswd, panicked, sessionVars, inForce>>

(* What PSWD.TXT may hold when the write of a hash was cut: nothing of it, *)
(* its first digits, which are a number as well, or all of it.             *)
CutWrite(h) == {pswdFile} \cup {Append(pswdFile, d) : d \in TornHash \cup {h}}

StorePassword ==
  \E j \in pswdJob :
    /\ Core1Runs
    /\ j.step = "rewrite"
    /\ \/ /\ pswdFile' = Append(pswdFile, j.hash)
          /\ spoilt' = FALSE
       \/ /\ SdFaults
          /\ pswdFile' \in CutWrite(j.hash)
          /\ UNCHANGED spoilt
    /\ pswdJob' = {}
    /\ UNCHANGED <<cmd, pswd, panicked, sessionVars, chosen, inForce>>

(* The other arms, which leave the password alone. *)
TakeOther ==
  /\ Core1Runs
  /\ pswdJob = {}
  /\ AddUserMode \in cmd
  /\ cmd' = {}
  /\ UNCHANGED <<pswdFile, pswd, pswdJob, panicked, sessionVars, history>>

SdStep == BootPassword \/ BootUnparsable \/ TakeSetPassword \/ StorePassword \/ TakeOther

---------------------------------------------------------------------------
(* The panel. *)

(* AuthenticatedUser and its three variants with a body. *)
Authorized(c) == cookie[c] # {} /\ cookie[c] = token

(* A random number nobody has met before. *)
FreshToken == {t \in Token : t \notin token /\ \A c \in Client : t \notin cookie[c]}

LoginArrives(c, p) ==
  /\ web = {}
  /\ web' = {[client |-> c, password |-> p]}
  /\ UNCHANGED <<fileVars, token, cookie, history>>

(* Mutant of LoginAnswered: a session that exists is joined. *)
LoginAnsweredJoining ==
  \E r \in web, h \in pswd :
    /\ web' = {}
    /\ \/ /\ h = PassHash[r.password]
          /\ token' \in {{t} : t \in FreshToken} \cup ({token} \ {{}})
          /\ cookie' = [cookie EXCEPT ![r.client] = token']
       \/ /\ h # PassHash[r.password]
          /\ UNCHANGED <<token, cookie>>
    /\ UNCHANGED <<fileVars, history>>

(* login waits for PSWD and compares.  A new session replaces the old one; *)
(* the answer that carries the cookie may be lost with the connection.     *)
LoginAnswered ==
  \E r \in web, h \in pswd :
    /\ web' = {}
    /\ \/ /\ h = PassHash[r.password]
          /\ \E t \in FreshToken :
               /\ token' = {t}
               /\ cookie' \in {cookie, [cookie EXCEPT ![r.client] = {t}]}
       \/ /\ h # PassHash[r.password]
          /\ UNCHANGED <<token, cookie>>
    /\ UNCHANGED <<fileVars, history>>

Logout(c) ==
  /\ web = {}
  /\ Authorized(c)
  /\ token' = {}
  /\ cookie' \in {cookie, [cookie EXCEPT ![c] = {}]}
  /\ UNCHANGED <<fileVars, web, history>>

(* The old password is not asked for; the session is. *)
ChangePassword(c, p) ==
  /\ web = {}
  /\ Authorized(c)
  /\ cmd' = {SetPassword(p)}
  /\ UNCHANGED <<pswdFile, pswd, pswdJob, panicked, sessionVars, history>>

(* Other commands of the panel and the card reader, all alike here. *)
OtherSignal ==
  /\ cmd' = {AddUserMode}
  /\ UNCHANGED <<pswdFile, pswd, pswdJob, panicked, sessionVars, history>>

(* Mutant of LosePower: the random numbers start again with the device, so *)
(* that the next session is one that has been.                             *)
LosePowerReseeding ==
  /\ PowerLoss
  /\ cmd' = {}
  /\ UNCHANGED pswdFile
  /\ pswd' = {}
  /\ pswdJob' = {[step |-> "load"]}
  /\ panicked' = FALSE
  /\ token' \in {{}} \cup {cookie[c] : c \in Client}
  /\ web' = {}
  /\ inForce' = {}
  /\ UNCHANGED <<cookie, chosen, spoilt>>

(* The SD card and the browsers keep what they have, PSWD.TXT a part of    *)
(* what was being written.                                                 *)
LosePower ==
  /\ PowerLoss
  /\ \/ UNCHANGED pswdFile
     \/ \E j \in pswdJob : j.step = "rewrite" /\ pswdFile' \in CutWrite(j.hash)
  /\ cmd' = {}
  /\ pswd' = {}
  /\ pswdJob' = {[step |-> "load"]}
  /\ panicked' = FALSE
  /\ token' = {}
  /\ web' = {}
  /\ inForce' = {}
  /\ UNCHANGED <<cookie, chosen, spoilt>>

Next ==
  \/ SdStep
  \/ LoginAnswered
  \/ \E c \in Client, p \in Password : LoginArrives(c, p) \/ ChangePassword(c, p)
  \/ \E c \in Client : Logout(c)
  \/ OtherSignal
  \/ LosePower

Spec == Init /\ [][Next]_vars

(* The executors poll the SD task and the web server when they can go on.  *)
FairSpec == Spec /\ WF_vars(SdStep) /\ WF_vars(LoginAnswered)

---------------------------------------------------------------------------
(* Properties. *)

PasswordJob == [step : {"load"}] \cup [step : {"rewrite"}, hash : Id]

Login == [client : Client, password : Password]

(* Every variable has its type.  PSWD.TXT never holds more than one        *)
(* number: what a rewrite replaces is gone before the new hash, or a part  *)
(* of it, is there.                                                        *)
SessionTypeOK ==
  /\ IsSlot(cmd, Command)
  /\ pswdFile \in Seq(Id) /\ Len(pswdFile) <= 1
  /\ IsSlot(pswd, Id)
  /\ IsSlot(pswdJob, PasswordJob)
  /\ {panicked, spoilt} \subseteq BOOLEAN
  /\ IsSlot(token, Token)
  /\ cookie \in [Client -> SUBSET Token]
  /\ \A c \in Client : IsSlot(cookie[c], Token)
  /\ IsSlot(web, Login)
  /\ IsSlot(chosen, Password)
  /\ IsSlot(inForce, Password)

(* The panel has one administrator at a time: whatever logins, lost        *)
(* answers, logouts and restarts there were, no two browsers hold cookies  *)
(* the extractors accept.                                                  *)
OneSession == \A c, d \in Client : Authorized(c) /\ Authorized(d) => c = d

(* A session that is over stays over: a browser whose cookie is not        *)
(* accepted is accepted again only by logging in with the password in      *)
(* force, whoever else logs in or out and however often the device         *)
(* restarts.                                                               *)
SessionsEndForGood ==
  [][\A c \in Client : Authorized(c)' /\ ~Authorized(c) =>
       \E r \in web : r.client = c /\ PassHash[r.password] \in pswd]_vars

(* The password in force is the one that was set last before the boot:     *)
(* "password" is in force after a change only if an operation on PSWD.TXT  *)
(* failed or the power went while it was rewritten.                        *)
PasswordInForce == \A p \in inForce : pswd = {PassHash[p]}

(* A login is answered, unless core 1 has panicked before it could fill    *)
(* PSWD.                                                                   *)
LoginsAnswered == web # {} ~> web = {} \/ panicked

(* "Sets a new unhashed password, overriding the old one": once the        *)
(* command has been carried out, only the new password logs in.            *)
OldPasswordRefused ==
  [][\A r \in web :
       cmd = {} /\ pswdJob = {} /\ ~spoilt /\ token' \notin {token, {}}
         => {r.password} = chosen]_vars
============================================================================
