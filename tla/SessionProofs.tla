--------------------------- MODULE SessionProofs ---------------------------
(***************************************************************************)
(* What holds of the panel's sessions and password for every set of        *)
(* browsers, passwords and tokens.                                         *)
(***************************************************************************)
EXTENDS Session, TLAPS, SequenceTheorems

(* What carries PasswordInForce across a boot: as long as storing it was   *)
(* not spoilt, the file holds the chosen password, or nothing while that   *)
(* is the default one; and a rewrite under way writes the chosen one to an *)
(* empty file.                                                             *)
FileHolds ==
  /\ \E p \in Password :
       /\ chosen = {p}
       /\ \/ spoilt
          \/ pswdFile = <<PassHash[p]>>
          \/ pswdFile = <<>> /\ p = DefaultPassword
       /\ \A j \in pswdJob : j.step = "rewrite" =>
            j.hash = PassHash[p] /\ pswdFile = <<>> /\ spoilt
  /\ \A j \in pswdJob : j.step = "load" => inForce = {}

SessionInv == SessionTypeOK /\ FileHolds /\ PasswordInForce

LEMMA OneHash ==
  ASSUME NEW s \in Seq(Id), Len(s) = 1
  PROVE  s = <<Head(s)>> /\ Head(s) \in Id
OBVIOUS

LEMMA NoHash == <<>> \in Seq(Id) /\ Len(<<>>) <= 1
OBVIOUS

LEMMA AppendToNothing ==
  ASSUME NEW h \in Id
  PROVE  Append(<<>>, h) = <<h>> /\ <<h>> \in Seq(Id) /\ Len(<<h>>) <= 1 /\ Head(<<h>>) = h
OBVIOUS

LEMMA CutHash ==
  ASSUME pswdFile = <<>>, NEW h \in Id
  PROVE  \A f \in CutWrite(h) : f \in Seq(Id) /\ Len(f) <= 1
<1> SUFFICES ASSUME NEW f \in CutWrite(h) PROVE f \in Seq(Id) /\ Len(f) <= 1
  OBVIOUS
<1>1. CASE f = pswdFile
  BY <1>1, NoHash
<1>2. ASSUME NEW d \in TornHash \cup {h}, f = Append(pswdFile, d)
      PROVE  f \in Seq(Id) /\ Len(f) <= 1
  BY <1>2, AppendToNothing, SessionAssumption
<1> QED BY <1>1, <1>2 DEF CutWrite

LEMMA SessionSlots ==
  /\ \A V : IsSlot({}, V)
  /\ \A V : \A v \in V : IsSlot({v}, V)
  /\ AddUserMode \in Command
  /\ \A p \in Password : SetPassword(p) \in Command /\ PassHash[p] \in Id
  /\ [step |-> "load"] \in PasswordJob
  /\ \A h \in Id : [step |-> "rewrite", hash |-> h] \in PasswordJob
BY SessionAssumption
   DEF IsSlot, AddUserMode, SetPassword, Command, OtherCommand, PasswordJob

LEMMA SessionInvInit == Init => SessionInv
<1> SUFFICES ASSUME Init PROVE SessionInv
  OBVIOUS
<1>1. DefaultPassword \in Password
  BY SessionAssumption
<1>2. SessionTypeOK
  BY <1>1, SessionSlots, NoHash DEF Init, SessionTypeOK
<1>3. FileHolds
  BY <1>1 DEF Init, FileHolds
<1> QED BY <1>2, <1>3 DEF Init, SessionInv, PasswordInForce

(* The steps that touch neither the file nor what is remembered of it. *)
LEMMA PanelKeepsFile ==
  ASSUME SessionInv, UNCHANGED <<pswdFile, pswd, pswdJob, panicked, history>>,
         IsSlot(cmd', Command), IsSlot(token', Token), IsSlot(web', Login),
         cookie' \in [Client -> SUBSET Token], \A c \in Client : IsSlot(cookie'[c], Token)
  PROVE  SessionInv'
BY DEF SessionInv, SessionTypeOK, FileHolds, PasswordInForce, history, Authorized

LEMMA SessionInvNext == SessionInv /\ [Next]_vars => SessionInv'
<1> SUFFICES ASSUME SessionInv, [Next]_vars PROVE SessionInv'
  OBVIOUS
<1>0. /\ SessionTypeOK /\ FileHolds /\ PasswordInForce
      /\ \A p \in Password : PassHash[p] \in Id
      /\ DefaultPassword \in Password
  BY SessionAssumption DEF SessionInv
<1>a. PICK p \in Password : FileHolds!1!(p)
  BY <1>0 DEF FileHolds
<1>1. CASE BootPassword
  <2>1. pswdFile \in Seq(Id) /\ (Len(pswdFile) = 1 => pswdFile = <<Head(pswdFile)>> /\ Head(pswdFile) \in Id)
    BY <1>0, OneHash DEF SessionTypeOK
  <2>2. pswd' # {} /\ IsSlot(pswd', Id) /\ IsSlot(inForce', Password)
    BY <1>0, <1>1, <1>a, <2>1, SessionSlots DEF BootPassword
  <2>3. SessionTypeOK'
    BY <1>0, <1>1, <2>2, SessionSlots DEF BootPassword, SessionTypeOK, sessionVars, Authorized
  <2>4. FileHolds'
    BY <1>0, <1>1, <1>a DEF BootPassword, FileHolds
  <2>5. PasswordInForce'
    BY <1>0, <1>1, <1>a, <2>1 DEF BootPassword, PasswordInForce
  <2> QED BY <2>3, <2>4, <2>5 DEF SessionInv
<1>2. CASE BootUnparsable
  BY <1>0, <1>2 DEF BootUnparsable, SessionInv, SessionTypeOK, FileHolds, PasswordInForce,
                    sessionVars, history
<1>3. CASE TakeSetPassword
  <2>1. PICK c \in cmd : TakeSetPassword!(c)
    BY <1>3 DEF TakeSetPassword
  <2>2. c \in Command /\ c.password \in Password
    BY <1>0, <2>1 DEF SessionTypeOK, IsSlot, Command, UserCommand, OtherCommand
  <2>3. IsSlot(pswdJob', PasswordJob)
    BY <1>0, <2>1, <2>2, SessionSlots
  <2>4. pswdFile' \in Seq(Id) /\ Len(pswdFile') <= 1
    BY <1>0, <2>1, NoHash DEF SessionTypeOK
  <2>5. SessionTypeOK'
    BY <1>0, <2>1, <2>2, <2>3, <2>4, SessionSlots DEF SessionTypeOK, sessionVars
  <2>6. /\ chosen' = {c.password}
        /\ spoilt'
        /\ \A j \in pswdJob' : j.step # "load" /\ j.hash = PassHash[c.password] /\ pswdFile' = <<>>
    BY <2>1
  <2>7. FileHolds'
    BY <2>2, <2>6 DEF FileHolds
  <2>8. PasswordInForce'
    BY <1>0, <2>1 DEF PasswordInForce
  <2> QED BY <2>5, <2>7, <2>8 DEF SessionInv
<1>4. CASE StorePassword
  <2>1. PICK j \in pswdJob : StorePassword!(j)
    BY <1>4 DEF StorePassword
  <2>2. j.hash = PassHash[p] /\ pswdFile = <<>> /\ spoilt
    BY <1>a, <2>1
  <2>3. /\ pswdFile' \in {<<PassHash[p]>>} \cup CutWrite(PassHash[p])
        /\ spoilt' \/ pswdFile' = <<PassHash[p]>>
        /\ spoilt' \in BOOLEAN
    BY <1>0, <2>1, <2>2, AppendToNothing DEF SessionTypeOK
  <2>4. pswdFile' \in Seq(Id) /\ Len(pswdFile') <= 1
    BY <1>0, <2>2, <2>3, AppendToNothing, CutHash
  <2>5. SessionTypeOK'
    BY <1>0, <2>1, <2>3, <2>4, SessionSlots DEF SessionTypeOK, sessionVars
  <2>6. FileHolds' /\ PasswordInForce'
    BY <1>0, <1>a, <2>1, <2>3 DEF FileHolds, PasswordInForce
  <2> QED BY <2>5, <2>6 DEF SessionInv
<1>5. CASE TakeOther
  <2>1. IsSlot(cmd', Command) /\ UNCHANGED sessionVars
    BY <1>5, SessionSlots DEF TakeOther
  <2> QED BY <1>0, <1>5, <2>1, PanelKeepsFile DEF TakeOther, sessionVars, SessionTypeOK
<1>6. CASE LoginAnswered
  <2>1. PICK r \in web, h \in pswd : LoginAnswered!(r, h)
    BY <1>6 DEF LoginAnswered
  <2>2. /\ IsSlot(token', Token)
        /\ cookie' \in [Client -> SUBSET Token]
        /\ \A c \in Client : IsSlot(cookie'[c], Token)
    <3>1. CASE UNCHANGED <<token, cookie>>
      BY <1>0, <3>1 DEF SessionTypeOK
    <3>2. ASSUME NEW t \in FreshToken, token' = {t},
                 cookie' \in {cookie, [cookie EXCEPT ![r.client] = {t}]}
          PROVE  /\ IsSlot(token', Token)
                 /\ cookie' \in [Client -> SUBSET Token]
                 /\ \A c \in Client : IsSlot(cookie'[c], Token)
      <4>1. IsSlot({t}, Token)
        BY SessionSlots DEF FreshToken
      <4>2. cookie' \in [Client -> SUBSET Token] /\ \A c \in Client : cookie'[c] \in {cookie[c], {t}}
        BY <1>0, <3>2 DEF SessionTypeOK, FreshToken
      <4> QED BY <1>0, <3>2, <4>1, <4>2 DEF SessionTypeOK
    <3> QED BY <2>1, <3>1, <3>2
  <2> QED BY <1>0, <2>1, <2>2, PanelKeepsFile, SessionSlots DEF fileVars, SessionTypeOK
<1>7. ASSUME NEW c \in Client, NEW q \in Password, LoginArrives(c, q) PROVE SessionInv'
  <2>1. IsSlot(web', Login)
    BY <1>7, SessionSlots DEF LoginArrives, Login
  <2> QED BY <1>0, <1>7, <2>1, PanelKeepsFile DEF LoginArrives, fileVars, SessionTypeOK
<1>8. ASSUME NEW c \in Client, NEW q \in Password, ChangePassword(c, q) PROVE SessionInv'
  <2>1. IsSlot(cmd', Command)
    BY <1>8, SessionSlots DEF ChangePassword
  <2> QED BY <1>0, <1>8, <2>1, PanelKeepsFile DEF ChangePassword, sessionVars, SessionTypeOK
<1>9. ASSUME NEW c \in Client, Logout(c) PROVE SessionInv'
  <2>1. cookie' \in [Client -> SUBSET Token] /\ \A d \in Client : cookie'[d] \in {cookie[d], {}}
    BY <1>0, <1>9 DEF Logout, SessionTypeOK
  <2>2. IsSlot(token', Token) /\ \A d \in Client : IsSlot(cookie'[d], Token)
    BY <1>0, <1>9, <2>1, SessionSlots DEF Logout, SessionTypeOK
  <2> QED BY <1>0, <1>9, <2>1, <2>2, PanelKeepsFile DEF Logout, fileVars, SessionTypeOK
<1>10. CASE OtherSignal
  <2>1. IsSlot(cmd', Command)
    BY <1>10, SessionSlots DEF OtherSignal
  <2> QED BY <1>0, <1>10, <2>1, PanelKeepsFile DEF OtherSignal, sessionVars, SessionTypeOK
<1>11. CASE LosePower
  <2>0. pswdFile' \in Seq(Id) /\ Len(pswdFile') <= 1 /\ (UNCHANGED pswdFile \/ spoilt)
    <3>1. CASE UNCHANGED pswdFile
      BY <1>0, <3>1 DEF SessionTypeOK
    <3>2. ASSUME NEW j \in pswdJob, j.step = "rewrite", pswdFile' \in CutWrite(j.hash)
          PROVE  pswdFile' \in Seq(Id) /\ Len(pswdFile') <= 1 /\ spoilt
      BY <1>0, <1>a, <3>2, CutHash
    <3> QED BY <1>11, <3>1, <3>2 DEF LosePower
  <2>1. SessionTypeOK'
    BY <1>0, <1>11, <2>0, SessionSlots DEF LosePower, SessionTypeOK
  <2>2. \A j \in pswdJob' : j.step = "load" /\ j.step # "rewrite"
    BY <1>11 DEF LosePower
  <2>3. FileHolds' /\ PasswordInForce'
    BY <1>11, <1>a, <2>0, <2>2 DEF LosePower, FileHolds, PasswordInForce
  <2> QED BY <2>1, <2>3 DEF SessionInv
<1>12. CASE UNCHANGED vars
  BY <1>0, <1>12 DEF vars, fileVars, sessionVars, history, SessionInv, SessionTypeOK, FileHolds,
                     PasswordInForce
<1> QED
  BY <1>1, <1>2, <1>3, <1>4, <1>5, <1>6, <1>7, <1>8, <1>9, <1>10, <1>11, <1>12 DEF Next, SdStep

(* For every set of browsers and passwords, through failing SD operations  *)
(* and losses of power, the variables keep their types; in particular      *)
(* PSWD.TXT holds one number or none, whole or torn, so that it parses     *)
(* whenever it can be read.                                                *)
THEOREM SessionTypes == Spec => []SessionTypeOK
<1>1. SessionInv => SessionTypeOK
  BY DEF SessionInv
<1> QED BY <1>1, SessionInvInit, SessionInvNext, PTL DEF Spec

(* Under the same circumstances: the password in force is the last one     *)
(* set before the boot, unless storing or loading it failed.               *)
THEOREM PasswordKept == Spec => []PasswordInForce
<1>1. SessionInv => PasswordInForce
  BY DEF SessionInv
<1> QED BY <1>1, SessionInvInit, SessionInvNext, PTL DEF Spec

---------------------------------------------------------------------------
(* Sessions. *)

(* Only an answered login makes a browser's cookie valid, and then that    *)
(* browser's only: everything else leaves the token and the cookies alone  *)
(* or takes them away.                                                     *)
LEMMA SessionStep ==
  ASSUME SessionInv, [Next]_vars, NEW c \in Client, Authorized(c)'
  PROVE  \/ Authorized(c) /\ token' = token
         \/ \E r \in web, t \in Token :
              /\ r.client = c /\ PassHash[r.password] \in pswd
              /\ token' = {t}
              /\ \A d \in Client \ {c} : cookie'[d] # {t}
<1>1. CASE UNCHANGED <<token, cookie>>
  BY <1>1 DEF Authorized
<1>2. CASE LoginAnswered
  <2>1. PICK r \in web, h \in pswd : LoginAnswered!(r, h)
    BY <1>2 DEF LoginAnswered
  <2>2. CASE UNCHANGED <<token, cookie>>
    BY <1>1, <2>2
  <2>3. ASSUME NEW t \in FreshToken, token' = {t}, h = PassHash[r.password],
               cookie' \in {cookie, [cookie EXCEPT ![r.client] = {t}]}
        PROVE  \E q \in web, u \in Token :
                 /\ q.client = c /\ PassHash[q.password] \in pswd
                 /\ token' = {u}
                 /\ \A d \in Client \ {c} : cookie'[d] # {u}
    <3>1. t \in Token /\ \A d \in Client : cookie[d] # {t}
      BY DEF FreshToken
    <3>2. \A d \in Client : d # r.client => cookie'[d] = cookie[d]
      BY <2>3 DEF SessionInv, SessionTypeOK
    <3>3. cookie'[c] = {t}
      BY <2>3 DEF Authorized, SessionInv, SessionTypeOK
    <3>4. c = r.client
      BY <3>1, <3>2, <3>3
    <3> QED BY <2>3, <3>1, <3>2, <3>4
  <2> QED BY <2>1, <2>2, <2>3
<1>3. ASSUME NEW d \in Client, Logout(d) PROVE FALSE
  BY <1>3 DEF Logout, Authorized
<1>4. CASE LosePower
  BY <1>4 DEF LosePower, Authorized
<1> QED
  BY <1>1, <1>2, <1>3, <1>4
     DEF Next, SdStep, BootPassword, BootUnparsable, TakeSetPassword, StorePassword, TakeOther,
         LoginArrives, ChangePassword, OtherSignal, vars, fileVars, sessionVars

LEMMA OneSessionNext == SessionInv /\ OneSession /\ [Next]_vars => OneSession'
<1> SUFFICES ASSUME SessionInv, OneSession, [Next]_vars,
                    NEW c \in Client, NEW d \in Client, Authorized(c)', Authorized(d)'
             PROVE  c = d
  BY DEF OneSession
<1>1. cookie'[c] = token' /\ cookie'[d] = token'
  BY DEF Authorized
<1>2. CASE Authorized(c) /\ Authorized(d)
  BY <1>2 DEF OneSession
<1>3. CASE \E t \in Token : token' = {t} /\ \A e \in Client \ {c} : cookie'[e] # {t}
  BY <1>1, <1>3
<1>4. CASE \E t \in Token : token' = {t} /\ \A e \in Client \ {d} : cookie'[e] # {t}
  BY <1>1, <1>4
<1> QED BY <1>2, <1>3, <1>4, SessionStep

(* No two browsers are logged in at a time, for any number of browsers.    *)
THEOREM OneAdministrator == Spec => []OneSession
<1>1. Init => OneSession
  BY DEF Init, OneSession, Authorized
<1> QED BY <1>1, OneSessionNext, SessionInvInit, SessionInvNext, PTL DEF Spec

(* A cookie that is not accepted is accepted again only after its          *)
(* browser's login with the password in force.                             *)
THEOREM NoSessionRevives == Spec => SessionsEndForGood
<1> DEFINE Step == \A c \in Client : Authorized(c)' /\ ~Authorized(c) =>
                     \E r \in web : r.client = c /\ PassHash[r.password] \in pswd
<1>1. SessionInv /\ [Next]_vars => [Step]_vars
  <2> SUFFICES ASSUME SessionInv, [Next]_vars PROVE Step
    OBVIOUS
  <2> QED BY SessionStep
<1> QED BY <1>1, SessionInvInit, SessionInvNext, PTL DEF Spec, SessionsEndForGood
============================================================================
