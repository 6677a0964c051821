---------------------------- MODULE GrantsProofs ----------------------------
(***************************************************************************)
(* Invariants of Grants, for every set of accounts, invites, passkeys,     *)
(* sessions, ceremonies, lines of tokens and calls, and every table to     *)
(* start from that is in order: its types, that an invite pays once, that  *)
(* rotation is linear, that what is revoked stays out, that an admin       *)
(* remains.                                                                *)
(*                                                                         *)
(* IInv is the invariant.  None of the four properties is inductive: a     *)
(* call acts at a later statement on what it read at an earlier one.  So   *)
(* IInv says what each call in hand knows and what still holds of it       *)
(* (Calling), what its rows point to (Linked), which accounts and          *)
(* enrolments are to come (Unborn, Enrolments, NobodyYet), and of each     *)
(* property what the calls under way may yet do to it (LastAdmin, PaidOut, *)
(* OneLeft, StaysCut, Leaves).                                             *)
(*                                                                         *)
(* First, that each action keeps the types and what calls know (Sound) and *)
(* lets rows only age (Later).  Then where a step takes its call (Steps,   *)
(* Where) and which tables it leaves alone; and then one part of IInv      *)
(* after another: a lemma for the steps that leave it alone, named Quiet,  *)
(* and a lemma for all, named Steps.                                       *)
(***************************************************************************)
EXTENDS Grants, FiniteSetTheorems, TLAPS

-----------------------------------------------------------------------------
(* The invariant.                                                          *)

\* What an enrolment knows of its invite: the rights it carries, and whom it
\* is for.
Enrolled(q, is) ==
  /\ q.new => q.invite # None /\ q.user \in Users
  /\ q.invite # None =>
       /\ is[q.invite] # None
       /\ is[q.invite] # Gone =>
            /\ q.flag = is[q.invite].admin
            /\ IF q.new THEN is[q.invite].for = None
               ELSE is[q.invite].for # None /\ q.user = is[q.invite].for

\* What a call has read, and what still holds of it.
Given(q) ==
  /\ q.invite # None => q.op \in {"registerBegin", "revokeInvite", "registerFinish"}
  /\ q.op = "createInvite" => q.who = None
  /\ q.new => q.op = "registerFinish"
  /\ q.op = "registerFinish" /\ q.at = 1 => q.invite = None /\ ~q.new
ReadIn(q, is) ==
  q.op = "registerBegin" /\ q.at > 1 =>
    /\ q.invite # None /\ is[q.invite] # None
    /\ is[q.invite] # Gone => q.flag = is[q.invite].admin /\ q.who = is[q.invite].for
TakenIn(q, us, is) ==
  q.op = "registerFinish" /\ q.at > 1 =>
    /\ Enrolled(q, is)
    /\ q.at > 2 => q.invite # None /\ (is[q.invite] # Gone => is[q.invite].used)
    /\ q.at > 3 /\ q.new =>
         /\ us[q.user] # None
         /\ us[q.user] # Gone => (us[q.user] = "admin") = q.flag
KeyIn(q, ks) ==
  \/ q.op = "registerFinish" /\ q.at = 5
  \/ q.op = "loginFinish" /\ q.at > 2
  => q.key # None /\ ks[q.key] # None /\ (ks[q.key] # Gone => ks[q.key].user = q.user)
LineIn(q, us, ls) ==
  Exchanging(q) =>
    /\ q.line # None /\ q.user # None /\ ls[q.line] # None
    /\ IF ls[q.line] = Gone THEN us[q.user] = Gone ELSE ls[q.line].user = q.user
TargetIn(q, us) ==
  q.op = "deleteUser" /\ q.at > 1 =>
    q.who # None /\ us[q.who] # None /\ (~q.flag => us[q.who] # "admin")

CallIn(q, us, is, ks, ls) ==
  /\ Given(q) /\ ReadIn(q, is) /\ TakenIn(q, us, is) /\ KeyIn(q, ks) /\ LineIn(q, us, ls)
  /\ TargetIn(q, us)
Calling == \A r \in Requests : CallIn(req[r], users, invites, keys, lines)

\* What points at what.
Linked ==
  /\ \A i \in Invites : Has(invites, i) => invites[i].for = None \/ Lives(invites[i].for)
  /\ \A k \in Keys : Has(keys, k) => Lives(keys[k].user)
  /\ \A s \in Sessions : Has(sessions, s) =>
       /\ Lives(sessions[s].user) /\ keys[sessions[s].key] # None
       /\ Has(keys, sessions[s].key) => keys[sessions[s].key].user = sessions[s].user
  /\ \A l \in Lines :
       /\ Has(lines, l) => Lives(lines[l].user)

\* The id of an account to come is in one hand.
Waits(m) == ceremonies[m] # None /\ ceremonies[m].new
Creates(q) == q.new /\ q.at < 4
Unborn ==
  /\ \A m \in Ceremonies : Waits(m) => users[ceremonies[m].user] = None
  /\ \A m, n \in Ceremonies :
       Waits(m) /\ Waits(n) /\ ceremonies[m].user = ceremonies[n].user => m = n
  /\ \A r \in Requests : Creates(req[r]) => users[req[r].user] = None
  /\ \A r, o \in Requests :
       Creates(req[r]) /\ Creates(req[o]) /\ req[r].user = req[o].user => r = o
  /\ \A r \in Requests, m \in Ceremonies :
       Creates(req[r]) /\ Waits(m) => req[r].user # ceremonies[m].user
Enrolments ==
  \A m \in Ceremonies : ceremonies[m] # None =>
    Enrolled([user |-> ceremonies[m].user, invite |-> ceremonies[m].invite,
              flag |-> ceremonies[m].admin, new |-> ceremonies[m].new], invites)

\* Until there is an account, whoever comes is to be an admin.
NobodyYet ==
  (\A u \in Users : users[u] = None) =>
    /\ \A i \in Invites : Has(invites, i) => invites[i].admin
    /\ \A m \in Ceremonies : Waits(m) => ceremonies[m].admin
    /\ \A r \in Requests :
         \/ req[r].op = "registerBegin" /\ req[r].at > 1
         \/ req[r].op = "registerFinish" /\ req[r].at > 1 /\ req[r].new
         => req[r].flag

\* A removal of an admin that has counted leaves another, unless it is not alone.
Removing(q) == q.op = "deleteUser" /\ q.at = 3 /\ q.flag
LastAdmin ==
  /\ \A r, o \in Requests : Removing(req[r]) /\ Removing(req[o]) /\ r # o => doubled
  /\ \A r \in Requests : Removing(req[r]) /\ ~doubled => Admins \ {req[r].who} # {}

\* An invite is paid out once, to whom it was for.
Pays(r, i) == req[r].op = "registerFinish" /\ req[r].invite = i /\ req[r].at \in {3, 4}
Paid(k, i) == Has(keys, k) /\ keys[k].by = i
PaidOut ==
  \A i \in Invites :
    /\ \A k \in Keys, r \in Requests : ~(Paid(k, i) /\ Pays(r, i))
    /\ \A k, n \in Keys : Paid(k, i) /\ Paid(n, i) => k = n
    /\ \A r, o \in Requests : Pays(r, i) /\ Pays(o, i) => r = o
    /\ \A k \in Keys : Paid(k, i) =>
         /\ invites[i] # None
         /\ Has(invites, i) =>
              /\ invites[i].used
              /\ IF invites[i].for # None THEN keys[k].user = invites[i].for
                 ELSE (users[keys[k].user] = "admin") = invites[i].admin

\* Of a line there is one thing left to spend.
Exchanges(r, l) == Exchanging(req[r]) /\ req[r].line = l
OneLeft ==
  \A l \in Lines : Has(lines, l) =>
    /\ lines[l].refresh \in {0, 1}
    /\ lines[l].code => ~lines[l].access /\ lines[l].refresh = 0
    /\ \A r \in Requests : Exchanges(r, l) => ~lines[l].code /\ lines[l].refresh = 0
    /\ \A r, o \in Requests : Exchanges(r, l) /\ Exchanges(o, l) => r = o

\* A line that has been cut stays so, and its access goes first.
StaysCut ==
  /\ \A l \in cut : lines[l] # None
  /\ \A l \in cut \ excused :
       /\ Has(lines, l) => ~lines[l].code /\ ~lines[l].access /\ lines[l].refresh = 0
       /\ \A r \in Requests : ~Exchanges(r, l)
  /\ \A r \in Requests, l \in Lines \ excused :
       At(r, "cutRefresh") /\ OfUser(l, req[r].user) => ~lines[l].access
  /\ \A r, o \in Requests :
       At(r, "cutRefresh") /\ Exchanging(req[o]) /\ req[o].user = req[r].user
       => req[o].line \in excused

\* A passkey that goes leaves the sessions that need not go with it.
Leaves ==
  /\ \A s \in Sessions \ spared : Has(sessions, s) => Has(keys, sessions[s].key)
  /\ \A r \in Requests, s \in Sessions \ spared :
       /\ req[r].op = "deleteKey" /\ At(r, "dropKey") /\ Has(sessions, s)
       /\ sessions[s].user = req[r].user /\ sessions[s].key = req[r].key
       => s = req[r].session

\* The bounds, and the history, are of their types.
Counted ==
  /\ calls \in 0..MaxCalls
  /\ cut \subseteq Lines /\ excused \subseteq Lines /\ spared \subseteq Sessions
  /\ doubled \in BOOLEAN

IInv ==
  /\ TypeOK /\ Calling /\ Linked /\ Unborn /\ Enrolments /\ NobodyYet /\ LastAdmin
  /\ AnAdminRemains /\ PaidOut /\ OneLeft /\ StaysCut /\ Leaves

-----------------------------------------------------------------------------
(* Scripts, and how a call goes on.                                        *)

Places(op, n, step) ==
  /\ step = "invite" => op = "registerBegin" /\ n = 1
  /\ step = "account" => \/ op = "registerBegin" /\ n = 2
                         \/ op = "loginFinish" /\ n = 3
                         \/ op = "reset" /\ n = 1
  /\ step = "put" => (op = "registerBegin" /\ n = 3) \/ op \in {"addBegin", "loginBegin"}
  /\ step = "take" => op \in {"registerFinish", "addFinish", "loginFinish"} /\ n = 1
  /\ step = "consume" => op = "registerFinish" /\ n = 2
  /\ step = "user" => op = "registerFinish" /\ n = 3
  /\ step = "passkey" => (op = "registerFinish" /\ n = 4) \/ (op = "addFinish" /\ n = 2)
  /\ step = "session" => op \in {"registerFinish", "loginFinish"} /\ n = 5
  /\ step = "find" => op = "loginFinish" /\ n = 2
  /\ step = "keys" => op = "loginFinish" /\ n = 4
  /\ step = "signOut" => op = "logout" /\ n = 1
  /\ step = "cutSessions" => op \in {"logoutOthers", "deleteKey"} /\ n = 1
  /\ step = "cutAccess" => op = "logoutOthers" /\ n = 2
  /\ (step = "cutRefresh") = (op = "logoutOthers" /\ n = 3)
  /\ (step = "dropKey") = (op = "deleteKey" /\ n = 2)
  /\ step = "mint" => (op = "createInvite" /\ n = 1) \/ (op = "reset" /\ n = 3)
  /\ step = "cutAll" => op = "reset" /\ n = 2
  /\ step = "revoke" => op = "revokeInvite" /\ n = 1
  /\ step = "target" => op = "deleteUser" /\ n = 1
  /\ step = "count" => op = "deleteUser" /\ n = 2
  /\ step = "drop" => op = "deleteUser" /\ n = 3
  /\ step = "code" => op = "consent" /\ n = 1
  /\ step = "redeem" => op = "exchange" /\ n = 1
  /\ step = "rotate" => op = "renew" /\ n = 1
  /\ step = "access" => op \in {"exchange", "renew"} /\ n = 2
  /\ step = "refresh" => op \in {"exchange", "renew"} /\ n = 3

Ops == {"idle", "registerBegin", "registerFinish", "addBegin", "addFinish", "loginBegin",
        "loginFinish", "logout", "logoutOthers", "deleteKey", "createInvite", "revokeInvite",
        "reset", "deleteUser", "consent", "exchange", "renew"}
Lasts(op, n) ==
  /\ n \in Nat \ {0}
  /\ op \in {"idle", "addBegin", "loginBegin", "logout", "createInvite", "revokeInvite",
             "consent"} => n = 1
  /\ op \in {"addFinish", "deleteKey"} => n = 2
  /\ op \in {"registerBegin", "logoutOthers", "reset", "deleteUser", "exchange", "renew"} => n = 3
  /\ op \in {"registerFinish", "loginFinish"} => n = 5

LEMMA ScriptsAre ==
  /\ DOMAIN Script = Ops
  /\ \A op \in Ops : /\ Lasts(op, Len(Script[op]))
                     /\ \A n \in 1..Len(Script[op]) : Places(op, n, Script[op][n])
<1>1. DOMAIN Script = Ops
  BY DEF Script, Ops
<1>2. LET s == Script["idle"] IN
        Lasts("idle", Len(s)) /\ \A n \in 1..Len(s) : Places("idle", n, s[n])
  BY DEF Script, Lasts, Places
<1>3. LET s == Script["registerBegin"] IN
        Lasts("registerBegin", Len(s)) /\ \A n \in 1..Len(s) : Places("registerBegin", n, s[n])
  BY DEF Script, Lasts, Places, handleRegisterBegin
<1>4. LET s == Script["registerFinish"] IN
        Lasts("registerFinish", Len(s)) /\ \A n \in 1..Len(s) : Places("registerFinish", n, s[n])
  BY DEF Script, Lasts, Places, handleRegisterFinish
<1>5. LET s == Script["addBegin"] IN
        Lasts("addBegin", Len(s)) /\ \A n \in 1..Len(s) : Places("addBegin", n, s[n])
  BY DEF Script, Lasts, Places, handleAddDeviceBegin
<1>6. LET s == Script["addFinish"] IN
        Lasts("addFinish", Len(s)) /\ \A n \in 1..Len(s) : Places("addFinish", n, s[n])
  BY DEF Script, Lasts, Places, handleAddDeviceFinish
<1>7. LET s == Script["loginBegin"] IN
        Lasts("loginBegin", Len(s)) /\ \A n \in 1..Len(s) : Places("loginBegin", n, s[n])
  BY DEF Script, Lasts, Places, handleLoginBegin
<1>8. LET s == Script["loginFinish"] IN
        Lasts("loginFinish", Len(s)) /\ \A n \in 1..Len(s) : Places("loginFinish", n, s[n])
  BY DEF Script, Lasts, Places, handleLoginFinish
<1>9. LET s == Script["logout"] IN
        Lasts("logout", Len(s)) /\ \A n \in 1..Len(s) : Places("logout", n, s[n])
  BY DEF Script, Lasts, Places, handleLogout
<1>10. LET s == Script["logoutOthers"] IN
        Lasts("logoutOthers", Len(s)) /\ \A n \in 1..Len(s) : Places("logoutOthers", n, s[n])
  BY DEF Script, Lasts, Places, handleLogoutOthers
<1>11. LET s == Script["deleteKey"] IN
        Lasts("deleteKey", Len(s)) /\ \A n \in 1..Len(s) : Places("deleteKey", n, s[n])
  BY DEF Script, Lasts, Places, handleDeleteCredential
<1>12. LET s == Script["createInvite"] IN
        Lasts("createInvite", Len(s)) /\ \A n \in 1..Len(s) : Places("createInvite", n, s[n])
  BY DEF Script, Lasts, Places, handleCreateInvite
<1>13. LET s == Script["revokeInvite"] IN
        Lasts("revokeInvite", Len(s)) /\ \A n \in 1..Len(s) : Places("revokeInvite", n, s[n])
  BY DEF Script, Lasts, Places, handleRevokeInvite
<1>14. LET s == Script["reset"] IN
        Lasts("reset", Len(s)) /\ \A n \in 1..Len(s) : Places("reset", n, s[n])
  BY DEF Script, Lasts, Places, handleResetUser
<1>15. LET s == Script["deleteUser"] IN
        Lasts("deleteUser", Len(s)) /\ \A n \in 1..Len(s) : Places("deleteUser", n, s[n])
  BY DEF Script, Lasts, Places, handleDeleteUser
<1>16. LET s == Script["consent"] IN
        Lasts("consent", Len(s)) /\ \A n \in 1..Len(s) : Places("consent", n, s[n])
  BY DEF Script, Lasts, Places, handleAuthorizeConsent
<1>17. LET s == Script["exchange"] IN
        Lasts("exchange", Len(s)) /\ \A n \in 1..Len(s) : Places("exchange", n, s[n])
  BY DEF Script, Lasts, Places, tokenFromCode
<1>18. LET s == Script["renew"] IN
        Lasts("renew", Len(s)) /\ \A n \in 1..Len(s) : Places("renew", n, s[n])
  BY DEF Script, Lasts, Places, tokenFromRefresh
<1> QED BY <1>1, <1>2, <1>3, <1>4, <1>5, <1>6, <1>7, <1>8, <1>9, <1>10,
  <1>11, <1>12, <1>13, <1>14, <1>15, <1>16, <1>17, <1>18 DEF Ops

LEMMA Distinct ==
  /\ None # Gone
  /\ \A x \in Users \cup Invites \cup Keys \cup Sessions \cup Lines : x # None /\ x # Gone
  /\ \A x \in Rights \cup Invite \cup Key \cup Session \cup Line \cup Ceremony : x # None /\ x # Gone
BY GrantsAssumption DEF GrantsAssumption

\* Where a call is, and where it can go.
InScript(q) == q \in Call /\ q.at <= Len(Script[q.op])

LEMMA UnderWay ==
  ASSUME NEW q, InScript(q)
  PROVE  /\ q.op \in Ops /\ q.at \in Nat \ {0} /\ Lasts(q.op, Len(Script[q.op]))
         /\ q.at \in 1..Len(Script[q.op])
         /\ Places(q.op, q.at, Script[q.op][q.at])
<1>1. q.op \in Ops /\ q.at \in Nat \ {0}
  BY ScriptsAre DEF InScript, Call
<1>2. Lasts(q.op, Len(Script[q.op]))
  BY <1>1, ScriptsAre
<1>3. q.at \in 1..Len(Script[q.op])
  BY <1>1, <1>2 DEF InScript, Lasts
<1> QED BY <1>1, <1>2, <1>3, ScriptsAre

LEMMA IdleIs ==
  /\ InScript(Idle) /\ Idle.op = "idle" /\ Idle.at = 1 /\ ~Exchanging(Idle)
  /\ \A us, is, ks, ls : CallIn(Idle, us, is, ks, ls)
  /\ Idle.invite = None /\ ~Idle.new /\ Idle.user = None
<1>1. Idle \in Call
  BY ScriptsAre DEF Idle, Call, Ops
<1>2. Len(Script["idle"]) = 1
  BY DEF Script
<1> QED
  BY <1>1, <1>2 DEF InScript, Idle, Exchanging, CallIn, Given, ReadIn, TakenIn, KeyIn, LineIn, TargetIn

\* A call goes on to its next step as it is, or is over.
LEMMA Onward ==
  ASSUME NEW q, InScript(q)
  PROVE  /\ InScript(Following(q))
         /\ \/ q.at = Len(Script[q.op]) /\ Following(q) = Idle
            \/ /\ q.at < Len(Script[q.op])
               /\ Following(q).at = q.at + 1 /\ Following(q).op = q.op
               /\ Following(q).user = q.user /\ Following(q).session = q.session
               /\ Following(q).who = q.who /\ Following(q).invite = q.invite
               /\ Following(q).key = q.key /\ Following(q).line = q.line
               /\ Following(q).flag = q.flag /\ Following(q).new = q.new
<1>1. q.at \in 1..Len(Script[q.op]) /\ Len(Script[q.op]) \in Nat
  BY UnderWay DEF Lasts
<1>2. CASE q.at = Len(Script[q.op])
  BY <1>2, IdleIs DEF Following
<1>3. CASE q.at < Len(Script[q.op])
  <2> DEFINE f == [q EXCEPT !.at = q.at + 1]
  <2>1. Following(q) = f
    BY <1>3 DEF Following
  <2>2. f \in Call /\ f.at = q.at + 1 /\ f.op = q.op
    BY <1>1 DEF InScript, Call
  <2>3. InScript(f)
    BY <1>1, <1>3, <2>2 DEF InScript
  <2>4. /\ f.user = q.user /\ f.session = q.session
        /\ f.who = q.who /\ f.invite = q.invite
        /\ f.key = q.key /\ f.line = q.line
        /\ f.flag = q.flag /\ f.new = q.new
    BY DEF InScript, Call
  <2> QED BY <1>3, <2>1, <2>2, <2>3, <2>4
<1> QED BY <1>1, <1>2, <1>3

LEMMA Advances ==
  ASSUME NEW q, InScript(q), q.at < Len(Script[q.op])
  PROVE  /\ InScript(Following(q))
         /\ Following(q).at = q.at + 1 /\ Following(q).op = q.op
         /\ Following(q).user = q.user /\ Following(q).session = q.session
         /\ Following(q).who = q.who /\ Following(q).invite = q.invite
         /\ Following(q).key = q.key /\ Following(q).line = q.line
         /\ Following(q).flag = q.flag /\ Following(q).new = q.new
<1>1. q.at # Len(Script[q.op])
  BY UnderWay DEF Lasts
<1> QED BY <1>1, Onward

-----------------------------------------------------------------------------
(* What tables may become, and what then stays true of a call.             *)

UsersGo == \A u \in Users : users[u] # None => users'[u] \in {users[u], Gone}
InvitesGo ==
  \A i \in Invites : invites[i] # None =>
    \/ invites'[i] = Gone
    \/ /\ invites[i] # Gone /\ invites'[i] \notin {None, Gone}
       /\ invites'[i].for = invites[i].for /\ invites'[i].admin = invites[i].admin
       /\ invites[i].used => invites'[i].used
KeysGo == \A k \in Keys : keys[k] # None => keys'[k] \in {keys[k], Gone}
LinesGo ==
  \A l \in Lines : lines[l] # None =>
    \/ lines'[l] = Gone /\ (lines[l] # Gone => users'[lines[l].user] = Gone)
    \/ lines[l] # Gone /\ lines'[l] \notin {None, Gone} /\ lines'[l].user = lines[l].user
Later == UsersGo /\ InvitesGo /\ KeysGo /\ LinesGo

LEMMA CallStays ==
  ASSUME TypeOK, NEW q, InScript(q), CallIn(q, users, invites, keys, lines), Later
  PROVE  CallIn(q, users', invites', keys', lines')
<1>1. /\ q.user \in Users \cup {None} /\ q.who \in Users \cup {None} /\ q.invite \in Invites \cup {None}
      /\ q.key \in Keys \cup {None} /\ q.line \in Lines \cup {None} /\ q.flag \in BOOLEAN
      /\ q.at \in Nat
  BY DEF InScript, Call
<1>2. Given(q)
  BY DEF CallIn
<1>3. ReadIn(q, invites')
  <2> SUFFICES ASSUME q.op = "registerBegin", q.at > 1 PROVE ReadIn(q, invites')
    BY DEF ReadIn
  <2>1. /\ q.invite \in Invites /\ invites[q.invite] # None
        /\ invites[q.invite] # Gone => q.flag = invites[q.invite].admin /\ q.who = invites[q.invite].for
    BY <1>1 DEF CallIn, ReadIn
  <2>2. ASSUME NEW i \in Invites, i = q.invite
        PROVE  /\ invites'[i] # None
               /\ invites'[i] # Gone =>
                    q.flag = invites'[i].admin /\ q.who = invites'[i].for
    BY <2>1, <2>2, Distinct DEF Later, InvitesGo
  <2>3. /\ invites'[q.invite] # None
        /\ invites'[q.invite] # Gone =>
             q.flag = invites'[q.invite].admin /\ q.who = invites'[q.invite].for
    BY <2>1, <2>2
  <2>4. q.invite # None
    BY <2>1, Distinct
  <2> QED BY <2>3, <2>4 DEF ReadIn
<1>4. TakenIn(q, users', invites')
  <2> SUFFICES ASSUME q.op = "registerFinish", q.at > 1
               PROVE  TakenIn(q, users', invites')
    BY DEF TakenIn
  <2>1. Enrolled(q, invites')
    <3>1. Enrolled(q, invites)
      BY DEF CallIn, TakenIn
    <3>2. ASSUME NEW i \in Invites, i = q.invite
          PROVE  /\ invites'[i] # None
                 /\ invites'[i] # Gone =>
                      /\ invites[i] # Gone /\ invites'[i].for = invites[i].for
                      /\ invites'[i].admin = invites[i].admin
      BY <3>1, <3>2, Distinct DEF Enrolled, Later, InvitesGo
    <3> QED BY <1>1, <3>1, <3>2 DEF Enrolled
  <2>2. q.at > 2 => q.invite # None /\ (invites'[q.invite] # Gone => invites'[q.invite].used)
    BY <1>1 DEF CallIn, TakenIn, Enrolled, Later, InvitesGo
  <2>3. q.at > 3 /\ q.new =>
          /\ users'[q.user] # None
          /\ users'[q.user] # Gone => (users'[q.user] = "admin") = q.flag
    BY <1>1, Distinct DEF CallIn, TakenIn, Enrolled, Later, UsersGo
  <2> QED BY <2>1, <2>2, <2>3 DEF TakenIn
<1>5. KeyIn(q, keys')
  BY <1>1, Distinct DEF CallIn, KeyIn, Later, KeysGo
<1>6. LineIn(q, users', lines')
  BY <1>1, Distinct DEF CallIn, LineIn, Later, LinesGo, UsersGo
<1>7. TargetIn(q, users')
  BY <1>1, Distinct DEF CallIn, TargetIn, Later, UsersGo, Rights
<1> QED BY <1>2, <1>3, <1>4, <1>5, <1>6, <1>7 DEF CallIn

\* What a call has read stays good as it goes on, where the step reads nothing.
LEMMA GoesOn ==
  ASSUME NEW q, InScript(q), NEW us, NEW is, NEW ks, NEW ls, CallIn(q, us, is, ks, ls),
         q.op # "registerFinish",
         q.op \in {"registerBegin", "exchange", "renew", "deleteUser"} => q.at # 1,
         q.op = "loginFinish" => q.at # 2
  PROVE  CallIn(Following(q), us, is, ks, ls)
<1> DEFINE f == Following(q)
<1>1. CASE f = Idle
  BY <1>1, IdleIs
<1>2. CASE f # Idle
  <2>1. /\ f.at = q.at + 1 /\ f.op = q.op /\ f.user = q.user /\ f.who = q.who /\ f.flag = q.flag
        /\ f.invite = q.invite /\ f.key = q.key /\ f.line = q.line /\ f.new = q.new
    BY <1>2, Onward
  <2>2. q.at \in Nat \ {0}
    BY UnderWay
  <2> HIDE DEF f
  <2>3. Given(f)
    BY <2>1 DEF CallIn, Given
  <2>4. ReadIn(f, is)
    <3>1. q.op = "registerBegin" => q.at > 1
      BY <2>2
    <3> QED BY <2>1, <3>1 DEF CallIn, ReadIn
  <2>5. TakenIn(f, us, is)
    BY <2>1 DEF TakenIn
  <2>6. KeyIn(f, ks)
    <3>1. q.op = "loginFinish" /\ f.at > 2 => q.at > 2
      BY <2>1, <2>2
    <3> QED BY <2>1, <3>1 DEF CallIn, KeyIn
  <2>7. LineIn(f, us, ls)
    <3>1. Exchanging(f) => Exchanging(q)
      BY <2>1, <2>2 DEF Exchanging
    <3> QED BY <2>1, <3>1 DEF CallIn, LineIn
  <2>8. TargetIn(f, us)
    <3>1. q.op = "deleteUser" => q.at > 1
      BY <2>2
    <3> QED BY <2>1, <3>1 DEF CallIn, TargetIn
  <2> QED BY <2>3, <2>4, <2>5, <2>6, <2>7, <2>8 DEF CallIn, f
<1> QED BY <1>1, <1>2

\* One call moves to q, or none does.
Requested == req \in [Requests -> Call] /\ \A r \in Requests : InScript(req[r])
Moves(r, q) == req' = [req EXCEPT ![r] = q]

LEMMA OneMoves ==
  ASSUME TypeOK, NEW r \in Requests, NEW q, Moves(r, q), InScript(q)
  PROVE  /\ Requested' /\ req'[r] = q
         /\ \A s \in Requests \ {r} : req'[s] = req[s]
         /\ \A s \in Requests : InScript(req[s])
<1>1. req \in [Requests -> Call] /\ q \in Call
  BY DEF TypeOK, InScript
<1>2. /\ req' \in [Requests -> Call] /\ req'[r] = q
      /\ \A s \in Requests \ {r} : req'[s] = req[s]
  BY <1>1 DEF Moves
<1>3. \A s \in Requests : InScript(req[s])
  BY <1>1 DEF TypeOK, InScript
<1>4. \A s \in Requests : InScript(req'[s])
  BY <1>2, <1>3
<1> QED BY <1>2, <1>3, <1>4 DEF Requested, InScript

LEMMA CallsGoOn ==
  ASSUME TypeOK, Calling, Later, NEW r \in Requests, NEW q, Moves(r, q), InScript(q),
         CallIn(q, users', invites', keys', lines')
  PROVE  Requested' /\ Calling'
<1> SUFFICES ASSUME NEW s \in Requests
             PROVE  CallIn(req'[s], users', invites', keys', lines')
  BY OneMoves DEF Calling, CallIn, Given, ReadIn, TakenIn, Enrolled, KeyIn, LineIn, TargetIn, Exchanging
<1>1. CASE s = r
  BY <1>1, OneMoves
<1>2. CASE s # r
  <2>1. req'[s] = req[s] /\ InScript(req[s])
    BY <1>2, OneMoves
  <2>2. CallIn(req[s], users, invites, keys, lines)
    BY DEF Calling
  <2> QED BY <2>1, <2>2, CallStays
<1> QED BY <1>1, <1>2

LEMMA CallsStay ==
  ASSUME TypeOK, Calling, Later, req' = req
  PROVE  Requested' /\ Calling'
<1>1. \A s \in Requests : InScript(req[s])
  BY DEF TypeOK, InScript
<1>2. Requested'
  BY <1>1 DEF Requested, TypeOK, InScript
<1> SUFFICES ASSUME NEW s \in Requests
             PROVE  CallIn(req[s], users', invites', keys', lines')
  BY <1>2 DEF Calling, CallIn, Given, ReadIn, TakenIn, Enrolled, KeyIn, LineIn, TargetIn, Exchanging
<1>3. CallIn(req[s], users, invites, keys, lines)
  BY DEF Calling
<1> QED BY <1>1, <1>3, CallStays

LEMMA OverIn ==
  ASSUME NEW us, NEW is, NEW ks, NEW ls
  PROVE  CallIn(Idle, us, is, ks, ls) /\ InScript(Idle)
BY IdleIs

-----------------------------------------------------------------------------
(* The tables.                                                             *)

Rows ==
  /\ users \in [Users -> Rights \cup {None, Gone}]
  /\ invites \in [Invites -> Invite \cup {None, Gone}]
  /\ keys \in [Keys -> Key \cup {None, Gone}]
  /\ sessions \in [Sessions -> Session \cup {None, Gone}]
  /\ lines \in [Lines -> Line \cup {None, Gone}]
Begun == ceremonies \in [Ceremonies -> Ceremony \cup {None}]

LEMMA Typed == TypeOK <=> Rows /\ Begun /\ Requested /\ Counted
BY DEF TypeOK, Rows, Begun, Requested, Counted, InScript

Alive(u, us) == u \in Users /\ us[u] \in Rights

LEMMA LinkedStays ==
  ASSUME TypeOK, Linked, Rows', KeysGo,
         \A u \in Users : users[u] \in Rights => users'[u] \in Rights,
         \A i \in Invites : Has(invites', i) =>
           \/ invites'[i].for = None \/ Alive(invites'[i].for, users')
           \/ Has(invites, i) /\ invites'[i].for = invites[i].for,
         \A k \in Keys : Has(keys', k) => keys'[k] = keys[k] \/ Alive(keys'[k].user, users'),
         \A s \in Sessions : Has(sessions', s) =>
           \/ sessions'[s] = sessions[s]
           \/ /\ Alive(sessions'[s].user, users') /\ keys'[sessions'[s].key] # None
              /\ Has(keys', sessions'[s].key) =>
                   keys'[sessions'[s].key].user = sessions'[s].user,
         \A l \in Lines : Has(lines', l) =>
           \/ Alive(lines'[l].user, users')
           \/ Has(lines, l) /\ lines'[l].user = lines[l].user
  PROVE  Linked'
<1>0. \A u : Lives(u) => Alive(u, users')
  BY DEF Lives, Alive
<1>1. ASSUME NEW i \in Invites, Has(invites', i)
      PROVE  invites'[i].for = None \/ Alive(invites'[i].for, users')
  BY <1>0, <1>1 DEF Linked
<1>2. ASSUME NEW k \in Keys, Has(keys', k) PROVE Alive(keys'[k].user, users')
  <2>1. CASE keys'[k] = keys[k]
    <3>1. Has(keys, k)
      BY <1>2, <2>1 DEF Has, TypeOK
    <3> QED BY <1>0, <2>1, <3>1 DEF Linked
  <2> QED BY <1>2, <2>1
<1>3. ASSUME NEW s \in Sessions, Has(sessions', s)
      PROVE  /\ Alive(sessions'[s].user, users') /\ keys'[sessions'[s].key] # None
             /\ Has(keys', sessions'[s].key) => keys'[sessions'[s].key].user = sessions'[s].user
  <2>1. CASE sessions'[s] = sessions[s]
    <3>1. Has(sessions, s) /\ sessions[s] \in Session
      BY <1>3, <2>1 DEF Has, TypeOK
    <3>2. PICK k \in Keys : k = sessions[s].key
      BY <3>1 DEF Session
    <3>3. /\ Lives(sessions[s].user) /\ keys[k] # None
          /\ Has(keys, k) => keys[k].user = sessions[s].user
      BY <3>1, <3>2 DEF Linked
    <3>4. keys'[k] # None /\ (Has(keys', k) => keys'[k] = keys[k] /\ Has(keys, k))
      BY <3>3, Distinct DEF KeysGo, Has, TypeOK
    <3> QED BY <1>0, <2>1, <3>2, <3>3, <3>4
  <2> QED BY <1>3, <2>1
<1>4. ASSUME NEW l \in Lines, Has(lines', l) PROVE Alive(lines'[l].user, users')
  BY <1>0, <1>4 DEF Linked
<1> QED BY <1>1, <1>2, <1>3, <1>4 DEF Linked, Lives, Alive, Has

LEMMA TablesStay ==
  ASSUME TypeOK, Linked, UNCHANGED tables
  PROVE  Rows' /\ Later /\ Linked'
<1>1. users' = users /\ invites' = invites /\ keys' = keys /\ sessions' = sessions /\ lines' = lines
  BY DEF tables
<1>2. Rows' /\ Later
  BY <1>1 DEF Rows, TypeOK, Later, UsersGo, InvitesGo, KeysGo, LinesGo
<1>3. Linked'
  BY <1>1 DEF Linked, Has, Lives
<1> QED BY <1>2, <1>3

-----------------------------------------------------------------------------
(* One action at a time: the tables, the calls and their types.            *)

Sound == Rows /\ Begun /\ Requested /\ Calling /\ Linked

LEMMA Standing ==
  ASSUME TypeOK, NEW r \in Requests
  PROVE  /\ InScript(req[r]) /\ req[r] \in Call
         /\ req[r].op \in Ops /\ req[r].at \in Nat \ {0}
         /\ Lasts(req[r].op, Len(Script[req[r].op]))
         /\ \A step : At(r, step) => Places(req[r].op, req[r].at, step)
<1>1. InScript(req[r]) /\ req[r] \in Call
  BY DEF TypeOK, InScript
<1> QED BY <1>1, UnderWay DEF At

LEMMA PassesOn ==
  ASSUME TypeOK, Calling, Later, NEW r \in Requests, Passes(r) \/ Ends(r),
         req[r].op = "registerFinish" => req[r].at = 5,
         req[r].op \in {"registerBegin", "exchange", "renew", "deleteUser"} => req[r].at # 1,
         req[r].op = "loginFinish" => req[r].at # 2
  PROVE  Requested' /\ Calling'
<1>1. CASE Ends(r)
  BY <1>1, CallsGoOn, OverIn DEF Ends, Moves
<1>2. CASE Passes(r)
  <2>1. InScript(req[r]) /\ Lasts(req[r].op, Len(Script[req[r].op]))
    BY Standing
  <2>2. CallIn(req[r], users', invites', keys', lines')
    BY <2>1, CallStays DEF Calling
  <2>3. InScript(Following(req[r])) /\ Moves(r, Following(req[r]))
    BY <1>2, <2>1, Onward DEF Passes, PassesAs, Moves
  <2>4. CallIn(Following(req[r]), users', invites', keys', lines')
    <3>1. CASE req[r].op = "registerFinish"
      <4>1. Following(req[r]) = Idle
        BY <2>1, <3>1 DEF Lasts, Following
      <4> QED BY <4>1, OverIn
    <3>2. CASE req[r].op # "registerFinish"
      BY <2>1, <2>2, <3>2, GoesOn
    <3> QED BY <3>1, <3>2
  <2> QED BY <2>3, <2>4, CallsGoOn
<1> QED BY <1>1, <1>2

LEMMA PassesAsOn ==
  ASSUME TypeOK, Calling, Later, NEW r \in Requests, NEW q, PassesAs(r, q), InScript(q),
         CallIn(Following(q), users', invites', keys', lines')
  PROVE  Requested' /\ Calling'
BY Onward, CallsGoOn DEF PassesAs, Moves

LEMMA EndsOn ==
  ASSUME TypeOK, Calling, Later, NEW r \in Requests, Ends(r)
  PROVE  Requested' /\ Calling'
BY CallsGoOn, OverIn DEF Ends, Moves

LEMMA ReadsInviteSound ==
  ASSUME TypeOK, Calling, Linked, NEW r \in Requests, ReadsInvite(r)
  PROVE  Sound' /\ Later
<1> DEFINE q == req[r]
<1>1. Rows' /\ Later /\ Linked' /\ Begun'
  BY TablesStay DEF ReadsInvite, TypeOK, Begun
<1>2. q.op = "registerBegin" /\ q.at = 1 /\ InScript(q) /\ q \in Call
  BY Standing DEF ReadsInvite, Places
<1>3. CASE Ends(r)
  BY <1>1, <1>3, EndsOn DEF Sound
<1>4. CASE ~Ends(r)
  <2> DEFINE p == [q EXCEPT !.flag = invites[q.invite].admin, !.who = invites[q.invite].for]
             f == Following(p)
  <2>1. Unspent(q.invite) /\ PassesAs(r, p)
    BY <1>4 DEF ReadsInvite
  <2>2. q.invite \in Invites /\ invites[q.invite] \in Invite
    BY <2>1 DEF Unspent, Has, TypeOK
  <2>3. p \in Call /\ p.op = q.op /\ p.at = 1 /\ p.invite = q.invite /\ p.new = q.new
        /\ p.flag = invites[q.invite].admin /\ p.who = invites[q.invite].for
    BY <1>2, <2>2 DEF Call, Invite
  <2>4. InScript(p)
    BY <1>2, <2>3 DEF InScript
  <2> HIDE DEF p
  <2>5. Len(Script[p.op]) = 3
    BY <1>2, <2>3 DEF Script, handleRegisterBegin
  <2>6. f.at = 2 /\ f.op = q.op /\ f.who = p.who /\ f.flag = p.flag /\ f.invite = q.invite
        /\ f.new = q.new
    <3>1. p.at < Len(Script[p.op])
      BY <2>3, <2>5
    <3>2. f.at = p.at + 1 /\ f.op = p.op /\ f.who = p.who /\ f.flag = p.flag
          /\ f.invite = p.invite /\ f.new = p.new
      BY <2>4, <3>1, Advances
    <3> QED BY <1>2, <2>3, <3>2
  <2>7. Given(q)
    BY DEF Calling, CallIn
  <2>8. invites' = invites
    BY DEF ReadsInvite, tables
  <2> HIDE DEF f
  <2>9. CallIn(f, users', invites', keys', lines')
    <3>1. Given(f)
      BY <1>2, <2>6, <2>7 DEF Given
    <3>2. ReadIn(f, invites')
      BY <2>2, <2>3, <2>6, <2>8, Distinct DEF ReadIn
    <3>3. TakenIn(f, users', invites') /\ KeyIn(f, keys') /\ LineIn(f, users', lines')
          /\ TargetIn(f, users')
      BY <1>2, <2>6 DEF TakenIn, KeyIn, LineIn, Exchanging, TargetIn
    <3> QED BY <3>1, <3>2, <3>3 DEF CallIn
  <2>10. Requested' /\ Calling'
    BY <1>1, <2>1, <2>4, <2>9, PassesAsOn DEF f
  <2> QED BY <1>1, <2>10 DEF Sound
<1> QED BY <1>3, <1>4

LEMMA FreeOne ==
  ASSUME NEW table, Free(table) # {}
  PROVE  Some(Free(table)) \in DOMAIN table /\ table[Some(Free(table))] = None
BY DEF Free, Some

LEMMA FreeFits ==
  /\ FreeUsers # {} => /\ Some(FreeUsers) \in FreeUsers
  /\ FreeCids # {} => /\ Some(FreeCids) \in FreeCids
BY DEF Some

LEMMA PutsSound ==
  ASSUME TypeOK, Calling, Linked, NEW r \in Requests, Puts(r)
  PROVE  Sound' /\ Later
<1> DEFINE q == req[r]
           new == q.op = "registerBegin" /\ q.who = None
           c == [user |-> Subject(q), invite |-> q.invite, admin |-> q.flag, new |-> new]
           m == Some(FreeCids)
<1>1. Rows' /\ Later /\ Linked'
  BY TablesStay DEF Puts
<1>2. (q.op = "registerBegin" /\ q.at = 3) \/ q.op \in {"addBegin", "loginBegin"}
  BY Standing DEF Puts, Places
<1>3. Requested' /\ Calling'
  BY <1>1, <1>2, PassesOn DEF Puts
<1>4. Begun'
  <2>1. m \in Ceremonies
    BY FreeFits DEF Puts, FreeCids, Free, TypeOK
  <2>2. c \in Ceremony
    <3>1. q \in Call
      BY Standing
    <3>2. Subject(q) \in Users \cup {None}
      BY <1>2, <3>1, FreeFits DEF Puts, Subject, FreeUsers, Free, TypeOK, Call
    <3> QED BY <3>1, <3>2 DEF Ceremony, Call
  <2>3. ceremonies' = [ceremonies EXCEPT ![m] = c]
    BY DEF Puts
  <2> HIDE DEF m, c
  <2> QED BY <2>1, <2>2, <2>3 DEF Begun, TypeOK
<1> QED BY <1>1, <1>3, <1>4 DEF Sound

LEMMA TakesSound ==
  ASSUME TypeOK, Calling, Linked, Enrolments, NEW r \in Requests, Takes(r)
  PROVE  Sound' /\ Later
<1> DEFINE q == req[r]
           m == IF Has(ceremonies, q.cid) THEN ceremonies[q.cid] ELSE [user |-> Gone]
           p == [q EXCEPT !.user = m.user, !.invite = m.invite, !.flag = m.admin, !.new = m.new]
<1>1. Rows' /\ Later /\ Linked' /\ invites' = invites
  BY TablesStay DEF Takes, tables
<1>2. q.op \in {"registerFinish", "addFinish", "loginFinish"} /\ q.at = 1 /\ InScript(q) /\ q \in Call
  BY Standing DEF Takes, Places
<1>3. Begun'
  BY DEF Takes, Begun, TypeOK, Has
<1>4. CASE Ends(r) \/ (Passes(r) /\ q.op # "registerFinish")
  <2>1. Requested' /\ Calling'
    BY <1>1, <1>2, <1>4, PassesOn, EndsOn
  <2> QED BY <1>1, <1>3, <2>1 DEF Sound
<1>5. CASE ~Ends(r) /\ q.op = "registerFinish"
  <2> DEFINE f == Following(p)
  <2>1. m.user # Gone /\ PassesAs(r, p)
    BY <1>5 DEF Takes
  <2>2. Has(ceremonies, q.cid) /\ q.cid \in Ceremonies /\ m = ceremonies[q.cid] /\ m \in Ceremony
    BY <2>1 DEF Has, TypeOK
  <2> HIDE DEF m
  <2>3. /\ p \in Call /\ p.op = q.op /\ p.at = 1 /\ p.user = m.user /\ p.invite = m.invite
        /\ p.flag = m.admin /\ p.new = m.new
    BY <1>2, <2>2 DEF Call, Ceremony
  <2>4. InScript(p)
    BY <1>2, <2>3 DEF InScript
  <2> HIDE DEF p
  <2>5. Len(Script[p.op]) = 5
    BY <1>5, <2>3 DEF Script, handleRegisterFinish
  <2>6. /\ f.at = 2 /\ f.op = "registerFinish" /\ f.user = m.user /\ f.invite = m.invite
        /\ f.flag = m.admin /\ f.new = m.new
    <3>1. p.at < Len(Script[p.op])
      BY <2>3, <2>5
    <3>2. f.at = p.at + 1 /\ f.op = p.op /\ f.user = p.user /\ f.flag = p.flag
          /\ f.invite = p.invite /\ f.new = p.new
      BY <2>4, <3>1, Advances
    <3> QED BY <1>5, <2>3, <3>2
  <2> HIDE DEF f
  <2>7. Enrolled(f, invites)
    <3>1. Enrolled([user |-> m.user, invite |-> m.invite, flag |-> m.admin, new |-> m.new], invites)
      BY <2>2, Distinct DEF Enrolments
    <3> QED BY <2>6, <3>1 DEF Enrolled
  <2>8. CallIn(f, users', invites', keys', lines')
    <3>1. Given(f)
      BY <2>6 DEF Given
    <3>2. TakenIn(f, users', invites')
      BY <1>1, <2>6, <2>7 DEF TakenIn
    <3>3. ReadIn(f, invites') /\ KeyIn(f, keys') /\ LineIn(f, users', lines') /\ TargetIn(f, users')
      BY <2>6 DEF ReadIn, KeyIn, LineIn, Exchanging, TargetIn
    <3> QED BY <3>1, <3>2, <3>3 DEF CallIn
  <2>9. Requested' /\ Calling'
    BY <1>1, <2>1, <2>4, <2>8, PassesAsOn DEF f
  <2> QED BY <1>1, <1>3, <2>9 DEF Sound
<1> QED BY <1>2, <1>4, <1>5 DEF Takes, Passes

LEMMA InviteGoes ==
  ASSUME TypeOK, Linked, NEW i \in Invites, Has(invites, i), NEW new \in Invite,
         new.for = invites[i].for, new.admin = invites[i].admin, invites[i].used => new.used,
         invites' = [invites EXCEPT ![i] = new], UNCHANGED <<users, keys, sessions, lines>>
  PROVE  Rows' /\ Later /\ Linked'
<1>1. Rows'
  BY DEF TypeOK, Rows
<1>2. Later
  BY Distinct DEF TypeOK, Later, UsersGo, InvitesGo, KeysGo, LinesGo, Has
<1>3. \A u \in Users : users[u] \in Rights => users'[u] \in Rights
  OBVIOUS
<1>4. \A j \in Invites : Has(invites', j) => Has(invites, j) /\ invites'[j].for = invites[j].for
  BY DEF TypeOK, Has
<1> QED
  <2>1. \A k \in Keys : keys'[k] = keys[k]
    OBVIOUS
  <2>2. \A s \in Sessions : sessions'[s] = sessions[s]
    OBVIOUS
  <2>3. \A l \in Lines : Has(lines', l) => Has(lines, l) /\ lines'[l].user = lines[l].user
    BY DEF Has
  <2> QED BY <1>1, <1>2, <1>3, <1>4, <2>1, <2>2, <2>3, LinkedStays DEF Later

LEMMA ConsumesSound ==
  ASSUME TypeOK, Calling, Linked, NEW r \in Requests, Consumes(r)
  PROVE  Sound' /\ Later
<1> DEFINE q == req[r]
           i == q.invite
           f == Following(q)
<1>1. q.op = "registerFinish" /\ q.at = 2 /\ InScript(q) /\ q \in Call
  BY Standing DEF Consumes, Places
<1>2. Begun'
  BY DEF Consumes, Begun, TypeOK
<1>3. CASE ~Unspent(i)
  <2>1. Ends(r) /\ UNCHANGED tables
    BY <1>3 DEF Consumes, tables
  <2>2. Rows' /\ Later /\ Linked'
    BY <2>1, TablesStay
  <2> QED BY <1>2, <2>1, <2>2, EndsOn DEF Sound
<1>4. CASE Unspent(i)
  <2> DEFINE new == [invites[i] EXCEPT !.used = TRUE]
  <2>1. i \in Invites /\ Has(invites, i) /\ invites[i] \in Invite
    BY <1>4 DEF Unspent, Has, TypeOK
  <2>2. new \in Invite /\ new.for = invites[i].for /\ new.admin = invites[i].admin /\ new.used
    BY <2>1 DEF Invite
  <2>3. invites' = [invites EXCEPT ![i] = new] /\ PassesAs(r, q)
    BY <1>4 DEF Consumes, Passes
  <2>4. UNCHANGED <<users, keys, sessions, lines>>
    BY DEF Consumes
  <2> HIDE DEF new
  <2>5. Rows' /\ Later /\ Linked'
    BY <2>1, <2>2, <2>3, <2>4, InviteGoes
  <2>6. invites'[i] = new
    BY <2>1, <2>3 DEF TypeOK
  <2>7. CallIn(q, users', invites', keys', lines')
    BY <1>1, <2>5, CallStays DEF Calling
  <2>8. Len(Script[q.op]) = 5
    BY <1>1 DEF Script, handleRegisterFinish
  <2>9. /\ f.at = 3 /\ f.op = "registerFinish" /\ f.user = q.user /\ f.invite = i
        /\ f.flag = q.flag /\ f.new = q.new
    <3>1. q.at < Len(Script[q.op])
      BY <1>1, <2>8
    <3>2. f.at = q.at + 1 /\ f.op = q.op /\ f.user = q.user /\ f.flag = q.flag
          /\ f.invite = q.invite /\ f.new = q.new
      BY <1>1, <3>1, Advances
    <3> QED BY <1>1, <3>2
  <2> HIDE DEF f
  <2>10. CallIn(f, users', invites', keys', lines')
    <3>1. Given(f)
      BY <2>9 DEF Given
    <3>2. TakenIn(f, users', invites')
      <4>1. Enrolled(q, invites')
        BY <1>1, <2>7 DEF CallIn, TakenIn
      <4>2. Enrolled(f, invites')
        BY <2>9, <4>1 DEF Enrolled
      <4>3. i # None /\ invites'[i].used
        BY <2>1, <2>2, <2>6, Distinct
      <4> QED BY <2>9, <4>2, <4>3 DEF TakenIn
    <3>3. ReadIn(f, invites') /\ KeyIn(f, keys') /\ LineIn(f, users', lines') /\ TargetIn(f, users')
      BY <2>9 DEF ReadIn, KeyIn, LineIn, Exchanging, TargetIn
    <3> QED BY <3>1, <3>2, <3>3 DEF CallIn
  <2>11. Requested' /\ Calling'
    BY <1>1, <2>3, <2>5, <2>10, PassesAsOn DEF f
  <2> QED BY <1>2, <2>5, <2>11 DEF Sound
<1> QED BY <1>3, <1>4

LEMMA CreatesUserSound ==
  ASSUME TypeOK, Calling, Linked, Unborn, NEW r \in Requests, CreatesUser(r)
  PROVE  Sound' /\ Later
<1> DEFINE q == req[r]
           f == Following(q)
           right == IF q.flag THEN "admin" ELSE "reader"
<1>1. q.op = "registerFinish" /\ q.at = 3 /\ InScript(q) /\ q \in Call
  BY Standing DEF CreatesUser, Places
<1>2. Begun'
  BY DEF CreatesUser, Begun, TypeOK
<1>3. TakenIn(q, users, invites) /\ Enrolled(q, invites)
  BY <1>1 DEF Calling, CallIn, TakenIn
<1>4. q.new => q.user \in Users /\ users[q.user] = None
  BY <1>1, <1>3 DEF Enrolled, Unborn, Creates
<1>5. right \in Rights
  BY DEF Rights
<1>6. /\ users' \in [Users -> Rights \cup {None, Gone}]
      /\ \A u \in Users : users[u] # None => users'[u] = users[u]
      /\ q.new => users'[q.user] = right
  BY <1>4, <1>5 DEF CreatesUser, TypeOK
<1>7. UNCHANGED <<invites, keys, sessions, lines>>
  BY DEF CreatesUser
<1>8. Rows' /\ Later /\ Linked'
  <2>1. Rows'
    BY <1>6, <1>7 DEF TypeOK, Rows
  <2>2. Later
    BY <1>6, <1>7 DEF TypeOK, Later, UsersGo, InvitesGo, KeysGo, LinesGo
  <2>3. \A u \in Users : users[u] \in Rights => users'[u] \in Rights
    BY <1>6, Distinct
  <2>4. \A i \in Invites : Has(invites', i) => Has(invites, i) /\ invites'[i].for = invites[i].for
    BY <1>7 DEF Has
  <2>5. \A k \in Keys : keys'[k] = keys[k]
    BY <1>7
  <2>6. \A s \in Sessions : sessions'[s] = sessions[s]
    BY <1>7
  <2>7. \A l \in Lines : Has(lines', l) => Has(lines, l) /\ lines'[l].user = lines[l].user
    BY <1>7 DEF Has
  <2> QED BY <2>1, <2>2, <2>3, <2>4, <2>5, <2>6, <2>7, LinkedStays DEF Later
<1>9. Len(Script[q.op]) = 5
  BY <1>1 DEF Script, handleRegisterFinish
<1>10. /\ f.at = 4 /\ f.op = "registerFinish" /\ f.user = q.user /\ f.invite = q.invite
       /\ f.flag = q.flag /\ f.new = q.new
  <2>1. q.at < Len(Script[q.op])
    BY <1>1, <1>9
  <2>2. f.at = q.at + 1 /\ f.op = q.op /\ f.user = q.user /\ f.flag = q.flag
        /\ f.invite = q.invite /\ f.new = q.new
    BY <1>1, <2>1, Advances
  <2> QED BY <1>1, <2>2
<1> HIDE DEF f
<1>11. CallIn(f, users', invites', keys', lines')
  <2>1. Given(f)
    BY <1>10 DEF Given
  <2>2. TakenIn(f, users', invites')
    <3>1. Enrolled(f, invites')
      BY <1>3, <1>7, <1>10 DEF Enrolled
    <3>2. f.invite # None /\ (invites'[f.invite] # Gone => invites'[f.invite].used)
      BY <1>1, <1>3, <1>7, <1>10 DEF TakenIn
    <3>3. f.new => users'[f.user] = right
      BY <1>6, <1>10
    <3>4. q.flag \in BOOLEAN /\ right # None /\ (right = "admin") = q.flag
      BY <1>1, <1>5, Distinct DEF Call
    <3> QED BY <1>10, <3>1, <3>2, <3>3, <3>4 DEF TakenIn
  <2>3. ReadIn(f, invites') /\ KeyIn(f, keys') /\ LineIn(f, users', lines') /\ TargetIn(f, users')
    BY <1>10 DEF ReadIn, KeyIn, LineIn, Exchanging, TargetIn
  <2> QED BY <2>1, <2>2, <2>3 DEF CallIn
<1>12. PassesAs(r, q)
  BY DEF CreatesUser, Passes
<1>13. Requested' /\ Calling'
  BY <1>1, <1>8, <1>11, <1>12, PassesAsOn DEF f
<1> QED BY <1>2, <1>8, <1>13 DEF Sound

LEMMA AddsKeySound ==
  ASSUME TypeOK, Calling, Linked, NEW r \in Requests, AddsKey(r)
  PROVE  Sound' /\ Later
<1> DEFINE q == req[r]
           k == Some(Free(keys))
           new == [user |-> q.user, by |-> q.invite]
           p == [q EXCEPT !.key = k]
           f == Following(p)
<1>1. /\ \/ q.op = "registerFinish" /\ q.at = 4
         \/ q.op = "addFinish" /\ q.at = 2
      /\ InScript(q) /\ q \in Call
  BY Standing DEF AddsKey, Places
<1>2. Begun'
  BY DEF AddsKey, Begun, TypeOK
<1>3. CASE ~Lives(q.user)
  <2>1. Ends(r) /\ UNCHANGED tables
    BY <1>3 DEF AddsKey, tables
  <2>2. Rows' /\ Later /\ Linked'
    BY <2>1, TablesStay
  <2> QED BY <1>2, <2>1, <2>2, EndsOn DEF Sound
<1>4. CASE Lives(q.user)
  <2>1. k \in Keys /\ keys[k] = None
    BY FreeOne DEF AddsKey, TypeOK
  <2>2. new \in Key /\ Alive(q.user, users)
    BY <1>1, <1>4 DEF Key, Call, Lives, Alive
  <2>3. keys' = [keys EXCEPT ![k] = new] /\ PassesAs(r, p)
    BY <1>4 DEF AddsKey
  <2>4. UNCHANGED <<users, invites, sessions, lines>>
    BY DEF AddsKey
  <2>5. new.user = q.user
    OBVIOUS
  <2>6. p \in Call /\ p.op = q.op /\ p.at = q.at /\ p.user = q.user /\ p.invite = q.invite
        /\ p.flag = q.flag /\ p.new = q.new /\ p.key = k
    BY <1>1, <2>1 DEF Call
  <2> HIDE DEF new, p, k
  <2>7. Rows' /\ Later /\ Linked'
    <3>1. Rows'
      BY <2>1, <2>2, <2>3, <2>4 DEF TypeOK, Rows
    <3>2. \A n \in Keys : n # k => keys'[n] = keys[n]
      BY <2>1, <2>3 DEF TypeOK
    <3>3. keys'[k] = new
      BY <2>1, <2>3 DEF TypeOK
    <3>4. Later
      BY <2>1, <2>4, <3>2 DEF TypeOK, Later, UsersGo, InvitesGo, KeysGo, LinesGo
    <3>5. \A u \in Users : users[u] \in Rights => users'[u] \in Rights
      BY <2>4
    <3>6. \A i \in Invites : Has(invites', i) => Has(invites, i) /\ invites'[i].for = invites[i].for
      BY <2>4 DEF Has
    <3>7. \A n \in Keys : keys'[n] = keys[n] \/ Alive(keys'[n].user, users')
      BY <2>2, <2>4, <2>5, <3>2, <3>3
    <3>8. \A s \in Sessions : sessions'[s] = sessions[s]
      BY <2>4
    <3>9. \A l \in Lines : Has(lines', l) => Has(lines, l) /\ lines'[l].user = lines[l].user
      BY <2>4 DEF Has
    <3> QED BY <3>1, <3>4, <3>5, <3>6, <3>7, <3>8, <3>9, LinkedStays DEF Later
  <2>8. InScript(p)
    BY <1>1, <2>6 DEF InScript
  <2>9. CallIn(f, users', invites', keys', lines')
    <3>1. CASE q.op = "addFinish"
      <4>1. f = Idle
        BY <1>1, <2>6, <3>1 DEF Following, Script, handleAddDeviceFinish
      <4> QED BY <4>1, OverIn
    <3>2. CASE q.op = "registerFinish"
      <4>1. Len(Script[p.op]) = 5
        BY <2>6, <3>2 DEF Script, handleRegisterFinish
      <4>2. /\ f.at = 5 /\ f.op = "registerFinish" /\ f.user = q.user /\ f.invite = q.invite
            /\ f.flag = q.flag /\ f.new = q.new /\ f.key = k
        <5>1. p.at = 4 /\ p.at < Len(Script[p.op])
          <6>1. p.at = 4
            BY <1>1, <2>6, <3>2
          <6> QED BY <4>1, <6>1
        <5>2. f.at = p.at + 1 /\ f.op = p.op /\ f.user = p.user /\ f.flag = p.flag
              /\ f.invite = p.invite /\ f.new = p.new /\ f.key = p.key
          BY <2>8, <5>1, Advances
        <5> QED BY <2>6, <3>2, <5>1, <5>2
      <4>3. TakenIn(q, users, invites)
        BY DEF Calling, CallIn
      <4> HIDE DEF f
      <4>4. Given(f)
        BY <4>2 DEF Given
      <4>5. TakenIn(f, users', invites')
        <5>1. q.at > 1 /\ q.at > 2 /\ q.at > 3
          BY <1>1, <3>2
        <5>2. Enrolled(f, invites')
          BY <2>4, <3>2, <4>2, <4>3, <5>1 DEF Enrolled, TakenIn
        <5> QED BY <2>4, <3>2, <4>2, <4>3, <5>1, <5>2 DEF TakenIn
      <4>6. KeyIn(f, keys')
        <5>1. keys'[k] = new /\ new # None /\ k # None
          BY <2>1, <2>2, <2>3, Distinct DEF TypeOK
        <5> QED BY <2>5, <4>2, <5>1 DEF KeyIn
      <4>7. ReadIn(f, invites') /\ LineIn(f, users', lines') /\ TargetIn(f, users')
        BY <4>2 DEF ReadIn, LineIn, Exchanging, TargetIn
      <4> QED BY <4>4, <4>5, <4>6, <4>7 DEF CallIn
    <3> QED BY <1>1, <3>1, <3>2
  <2>10. Requested' /\ Calling'
    BY <2>3, <2>7, <2>8, <2>9, PassesAsOn
  <2> QED BY <1>2, <2>7, <2>10 DEF Sound
<1> QED BY <1>3, <1>4

LEMMA FindsKeySound ==
  ASSUME TypeOK, Calling, Linked, NEW r \in Requests, FindsKey(r)
  PROVE  Sound' /\ Later
<1> DEFINE q == req[r]
           p == [q EXCEPT !.user = keys[q.key].user]
           f == Following(p)
<1>1. Rows' /\ Later /\ Linked' /\ Begun' /\ keys' = keys
  BY TablesStay DEF FindsKey, TypeOK, Begun, tables
<1>2. q.op = "loginFinish" /\ q.at = 2 /\ InScript(q) /\ q \in Call
  BY Standing DEF FindsKey, Places
<1>3. CASE ~Has(keys, q.key)
  BY <1>1, <1>3, EndsOn DEF Sound, FindsKey
<1>4. CASE Has(keys, q.key)
  <2>1. PassesAs(r, p)
    BY <1>4 DEF FindsKey
  <2>2. q.key \in Keys /\ keys[q.key] \in Key /\ keys[q.key] # None
    BY <1>4 DEF Has, TypeOK
  <2>3. p \in Call /\ p.op = q.op /\ p.at = 2 /\ p.invite = q.invite /\ p.new = q.new
        /\ p.key = q.key /\ p.user = keys[q.key].user
    BY <1>2, <2>2 DEF Call, Key
  <2> HIDE DEF p
  <2>4. InScript(p)
    BY <1>2, <2>3 DEF InScript
  <2>5. Len(Script[p.op]) = 5
    BY <1>2, <2>3 DEF Script, handleLoginFinish
  <2>6. f.at = 3 /\ f.op = "loginFinish" /\ f.user = p.user /\ f.key = q.key
        /\ f.invite = q.invite /\ f.new = q.new
    <3>1. p.at < Len(Script[p.op])
      BY <2>3, <2>5
    <3>2. f.at = p.at + 1 /\ f.op = p.op /\ f.user = p.user /\ f.key = p.key
          /\ f.invite = p.invite /\ f.new = p.new
      BY <2>4, <3>1, Advances
    <3> QED BY <1>2, <2>3, <3>2
  <2>7. Given(q)
    BY DEF Calling, CallIn
  <2> HIDE DEF f
  <2>8. CallIn(f, users', invites', keys', lines')
    <3>1. Given(f)
      BY <1>2, <2>6, <2>7 DEF Given
    <3>2. KeyIn(f, keys')
      BY <1>1, <2>2, <2>3, <2>6, Distinct DEF KeyIn
    <3>3. ReadIn(f, invites') /\ TakenIn(f, users', invites') /\ LineIn(f, users', lines')
          /\ TargetIn(f, users')
      BY <2>6 DEF ReadIn, TakenIn, LineIn, Exchanging, TargetIn
    <3> QED BY <3>1, <3>2, <3>3 DEF CallIn
  <2>9. Requested' /\ Calling'
    BY <1>1, <2>1, <2>4, <2>8, PassesAsOn DEF f
  <2> QED BY <1>1, <2>9 DEF Sound
<1> QED BY <1>3, <1>4

LEMMA LooksSound ==
  ASSUME TypeOK, Calling, Linked, NEW r \in Requests, Looks(r)
  PROVE  Sound' /\ Later
<1>1. Rows' /\ Later /\ Linked' /\ Begun'
  BY TablesStay DEF Looks, TypeOK, Begun
<1>2. \/ req[r].op = "registerBegin" /\ req[r].at = 2
      \/ req[r].op = "loginFinish" /\ req[r].at = 3
      \/ req[r].op = "reset" /\ req[r].at = 1
      \/ req[r].op = "loginFinish" /\ req[r].at = 4
  BY Standing DEF Looks, Places
<1>3. Passes(r) \/ Ends(r)
  BY DEF Looks, Checks
<1>4. Requested' /\ Calling'
  BY <1>1, <1>2, <1>3, PassesOn
<1> QED BY <1>1, <1>4 DEF Sound

LEMMA SessionsGo ==
  ASSUME TypeOK, Linked, UNCHANGED <<users, invites, keys, lines>>,
         sessions' \in [Sessions -> Session \cup {None, Gone}],
         \A s \in Sessions : Has(sessions', s) =>
           \/ sessions'[s] = sessions[s]
           \/ /\ Alive(sessions'[s].user, users) /\ keys[sessions'[s].key] # None
              /\ Has(keys, sessions'[s].key) => keys[sessions'[s].key].user = sessions'[s].user
  PROVE  Rows' /\ Later /\ Linked'
<1>1. Rows' /\ Later
  BY DEF TypeOK, Rows, Later, UsersGo, InvitesGo, KeysGo, LinesGo
<1>2. \A i \in Invites : Has(invites', i) => Has(invites, i) /\ invites'[i].for = invites[i].for
  BY DEF Has
<1>3. \A l \in Lines : Has(lines', l) => Has(lines, l) /\ lines'[l].user = lines[l].user
  BY DEF Has
<1>4. \A s \in Sessions : Has(sessions', s) =>
        \/ sessions'[s] = sessions[s]
        \/ /\ Alive(sessions'[s].user, users') /\ keys'[sessions'[s].key] # None
           /\ Has(keys', sessions'[s].key) =>
                keys'[sessions'[s].key].user = sessions'[s].user
  BY DEF Has
<1>5. \A k \in Keys : keys'[k] = keys[k]
  OBVIOUS
<1>6. \A u \in Users : users[u] \in Rights => users'[u] \in Rights
  OBVIOUS
<1> QED BY <1>1, <1>2, <1>3, <1>4, <1>5, <1>6, LinkedStays DEF Later

LEMMA OpensSessionSound ==
  ASSUME TypeOK, Calling, Linked, NEW r \in Requests, OpensSession(r)
  PROVE  Sound' /\ Later
<1> DEFINE q == req[r]
           n == Some(Free(sessions))
           new == [user |-> q.user, key |-> q.key]
<1>1. q.op \in {"registerFinish", "loginFinish"} /\ q.at = 5 /\ q \in Call
  BY Standing DEF OpensSession, Places
<1>2. Begun'
  BY DEF OpensSession, Begun, TypeOK
<1>3. Rows' /\ Later /\ Linked'
  <2>1. CASE ~Lives(q.user)
    <3>1. UNCHANGED tables
      BY <2>1 DEF OpensSession, tables
    <3> QED BY <3>1, TablesStay
  <2>2. CASE Lives(q.user)
    <3>1. n \in Sessions
      BY FreeOne DEF OpensSession, TypeOK
    <3>2. KeyIn(q, keys)
      BY DEF Calling, CallIn
    <3>3. q.key \in Keys /\ keys[q.key] # None /\ (keys[q.key] # Gone => keys[q.key].user = q.user)
      BY <1>1, <3>2 DEF KeyIn, Call
    <3>4. new \in Session /\ Alive(q.user, users)
      BY <2>2, <3>3 DEF Session, Lives, Alive
    <3>5. new.user = q.user /\ new.key = q.key
      OBVIOUS
    <3>6. sessions' = [sessions EXCEPT ![n] = new] /\ UNCHANGED <<users, invites, keys, lines>>
      BY <2>2 DEF OpensSession
    <3> HIDE DEF n, new
    <3>7. sessions' \in [Sessions -> Session \cup {None, Gone}]
      BY <3>1, <3>4, <3>6 DEF TypeOK
    <3>8. ASSUME NEW s \in Sessions
          PROVE  \/ sessions'[s] = sessions[s]
                 \/ /\ Alive(sessions'[s].user, users) /\ keys[sessions'[s].key] # None
                    /\ Has(keys, sessions'[s].key) =>
                         keys[sessions'[s].key].user = sessions'[s].user
      <4>1. CASE s = n
        <5>1. sessions'[s] = new
          BY <3>1, <3>6, <4>1 DEF TypeOK
        <5> QED BY <3>3, <3>4, <3>5, <5>1 DEF Has
      <4>2. CASE s # n
        BY <3>1, <3>6, <4>2 DEF TypeOK
      <4> QED BY <4>1, <4>2
    <3> QED BY <3>6, <3>7, <3>8, SessionsGo
  <2> QED BY <2>1, <2>2
<1>4. Requested' /\ Calling'
  BY <1>1, <1>3, PassesOn DEF OpensSession
<1> QED BY <1>2, <1>3, <1>4 DEF Sound

LEMMA SessionsEnd ==
  ASSUME TypeOK, Calling, Linked, NEW r \in Requests, Begun', Passes(r),
         UNCHANGED <<users, invites, keys, lines>>,
         DOMAIN sessions' = Sessions, sessions' = [s \in Sessions |-> sessions'[s]],
         \A s \in Sessions : sessions'[s] \in {sessions[s], Gone},
         req[r].op \in {"logout", "logoutOthers", "deleteKey", "reset"}
  PROVE  Sound' /\ Later
<1>1. sessions' \in [Sessions -> Session \cup {None, Gone}]
  BY DEF TypeOK
<1>2. \A s \in Sessions : Has(sessions', s) => sessions'[s] = sessions[s]
  BY DEF Has
<1>3. Rows' /\ Later /\ Linked'
  BY <1>1, <1>2, SessionsGo
<1>4. Requested' /\ Calling'
  BY <1>3, PassesOn
<1> QED BY <1>3, <1>4 DEF Sound

LEMMA DeleteSessionSound ==
  ASSUME TypeOK, Calling, Linked, NEW r \in Requests, DeleteSession(r)
  PROVE  Sound' /\ Later
<1>1. req[r].op = "logout"
  BY Standing DEF DeleteSession, DeletesSessions, Places
<1>2. /\ DOMAIN sessions' = Sessions /\ sessions' = [s \in Sessions |-> sessions'[s]]
      /\ \A s \in Sessions : sessions'[s] \in {sessions[s], Gone}
  BY DEF DeleteSession, DeletesSessions, Without, TypeOK
<1>3. Begun' /\ Passes(r) /\ UNCHANGED <<users, invites, keys, lines>>
  BY DEF DeleteSession, DeletesSessions, Begun, TypeOK
<1> QED BY <1>1, <1>2, <1>3, SessionsEnd

LEMMA DeleteUserSessionsExceptSound ==
  ASSUME TypeOK, Calling, Linked, NEW r \in Requests, DeleteUserSessionsExcept(r)
  PROVE  Sound' /\ Later
<1>1. req[r].op \in {"logoutOthers", "deleteKey"}
  BY Standing DEF DeleteUserSessionsExcept, DeletesSessions, Places
<1>2. /\ DOMAIN sessions' = Sessions /\ sessions' = [s \in Sessions |-> sessions'[s]]
      /\ \A s \in Sessions : sessions'[s] \in {sessions[s], Gone}
  BY DEF DeleteUserSessionsExcept, DeletesSessions, Without, TypeOK
<1>3. Begun' /\ Passes(r) /\ UNCHANGED <<users, invites, keys, lines>>
  BY DEF DeleteUserSessionsExcept, DeletesSessions, Begun, TypeOK
<1> QED BY <1>1, <1>2, <1>3, SessionsEnd

LEMMA DeleteUserSessionsSound ==
  ASSUME TypeOK, Calling, Linked, NEW r \in Requests, DeleteUserSessions(r)
  PROVE  Sound' /\ Later
<1>1. req[r].op = "reset"
  BY Standing DEF DeleteUserSessions, DeletesSessions, Places
<1>2. /\ DOMAIN sessions' = Sessions /\ sessions' = [s \in Sessions |-> sessions'[s]]
      /\ \A s \in Sessions : sessions'[s] \in {sessions[s], Gone}
  BY DEF DeleteUserSessions, DeletesSessions, Without, TypeOK
<1>3. Begun' /\ Passes(r) /\ UNCHANGED <<users, invites, keys, lines>>
  BY DEF DeleteUserSessions, DeletesSessions, Begun, TypeOK
<1> QED BY <1>1, <1>2, <1>3, SessionsEnd

LEMMA LinesGoOn ==
  ASSUME TypeOK, Linked, UNCHANGED <<users, invites, keys, sessions>>,
         lines' \in [Lines -> Line \cup {None, Gone}],
         \A l \in Lines :
           \/ lines'[l] = lines[l]
           \/ Has(lines, l) /\ Has(lines', l) /\ lines'[l].user = lines[l].user
           \/ lines[l] = None /\ Alive(lines'[l].user, users)
  PROVE  Rows' /\ Later /\ Linked'
<1>1. Rows' /\ Later
  <2>1. LinesGo
    BY DEF LinesGo, TypeOK, Has
  <2> QED BY <2>1 DEF TypeOK, Rows, Later, UsersGo, InvitesGo, KeysGo
<1>2. \A i \in Invites : Has(invites', i) => Has(invites, i) /\ invites'[i].for = invites[i].for
  BY DEF Has
<1>3. \A l \in Lines : Has(lines', l) =>
        \/ Alive(lines'[l].user, users')
        \/ Has(lines, l) /\ lines'[l].user = lines[l].user
  BY DEF Has, TypeOK
<1>4. \A s \in Sessions : sessions'[s] = sessions[s]
  OBVIOUS
<1>5. \A k \in Keys : keys'[k] = keys[k]
  OBVIOUS
<1>6. \A u \in Users : users[u] \in Rights => users'[u] \in Rights
  OBVIOUS
<1> QED BY <1>1, <1>2, <1>3, <1>4, <1>5, <1>6, LinkedStays DEF Later

\* What a cut leaves of a line.
LEMMA Cuts ==
  ASSUME TypeOK, NEW r \in Requests, CutsTokens(r)
  PROVE  /\ lines' \in [Lines -> Line \cup {None, Gone}]
         /\ \A l \in Lines :
              \/ lines'[l] = lines[l]
              \/ /\ Has(lines, l) /\ Has(lines', l) /\ lines'[l].user = lines[l].user
                 /\ lines[l].user = req[r].user /\ lines'[l].code = lines[l].code
                 /\ \/ /\ At(r, "cutAccess") /\ ~At(r, "cutRefresh")
                       /\ ~lines'[l].access /\ lines'[l].refresh = lines[l].refresh
                    \/ /\ At(r, "cutRefresh")
                       /\ lines'[l].access = lines[l].access /\ lines'[l].refresh = 0
         /\ \A l \in Lines : OfUser(l, req[r].user) =>
              /\ lines'[l].user = req[r].user
              /\ At(r, "cutAccess") => ~lines'[l].access
              /\ At(r, "cutRefresh") => lines'[l].refresh = 0
<1> DEFINE u == req[r].user
           A(l) == [lines[l] EXCEPT !.access = FALSE]
           B(l) == [lines[l] EXCEPT !.refresh = 0]
<1>1. lines' = [l \in Lines |->
         IF OfUser(l, u) /\ At(r, "cutAccess") THEN A(l)
         ELSE IF OfUser(l, u) /\ At(r, "cutRefresh") THEN B(l)
         ELSE lines[l]]
  BY DEF CutsTokens
<1>2. ~(At(r, "cutAccess") /\ At(r, "cutRefresh"))
  BY DEF At
<1>3. ASSUME NEW l \in Lines, OfUser(l, u)
      PROVE  /\ Has(lines, l) /\ lines[l] \in Line /\ lines[l].user = u
             /\ A(l) \in Line /\ A(l).user = u /\ A(l).code = lines[l].code
             /\ ~A(l).access /\ A(l).refresh = lines[l].refresh
             /\ B(l) \in Line /\ B(l).user = u /\ B(l).code = lines[l].code
             /\ B(l).access = lines[l].access /\ B(l).refresh = 0
  BY <1>3 DEF OfUser, Has, TypeOK, Line
<1> HIDE DEF A, B
<1>4. lines' \in [Lines -> Line \cup {None, Gone}]
  BY <1>1, <1>3 DEF TypeOK
<1>5. ASSUME NEW l \in Lines, OfUser(l, u)
      PROVE  /\ At(r, "cutAccess") => lines'[l] = A(l)
             /\ ~At(r, "cutAccess") /\ At(r, "cutRefresh") => lines'[l] = B(l)
  BY <1>1, <1>5
<1>6. \A l \in Lines : ~OfUser(l, u) => lines'[l] = lines[l]
  BY <1>1
<1>7. At(r, "cutAccess") \/ At(r, "cutRefresh")
  BY DEF CutsTokens
<1>8. ASSUME NEW l \in Lines, OfUser(l, u)
      PROVE  /\ Has(lines', l) /\ lines'[l].user = u /\ lines'[l].code = lines[l].code
             /\ At(r, "cutAccess") => ~lines'[l].access /\ lines'[l].refresh = lines[l].refresh
             /\ At(r, "cutRefresh") => lines'[l].access = lines[l].access /\ lines'[l].refresh = 0
  <2>1. CASE At(r, "cutAccess")
    BY <1>2, <1>3, <1>4, <1>5, <1>8, <2>1, Distinct DEF Has
  <2>2. CASE At(r, "cutRefresh")
    BY <1>2, <1>3, <1>4, <1>5, <1>8, <2>2, Distinct DEF Has
  <2> QED BY <1>7, <2>1, <2>2
<1> QED
  <2>1. ASSUME NEW l \in Lines, OfUser(l, u)
        PROVE  Has(lines, l) /\ lines[l].user = u
    BY <1>3, <2>1
  <2> QED BY <1>2, <1>4, <1>6, <1>7, <1>8, <2>1

LEMMA CutsTokensSound ==
  ASSUME TypeOK, Calling, Linked, NEW r \in Requests, CutsTokens(r)
  PROVE  Sound' /\ Later
<1>1. req[r].op = "logoutOthers"
  BY Standing DEF CutsTokens, Places
<1>2. Begun' /\ Passes(r) /\ UNCHANGED <<users, invites, keys, sessions>>
  BY DEF CutsTokens, Begun, TypeOK
<1>3. Rows' /\ Later /\ Linked'
  BY <1>2, Cuts, LinesGoOn
<1>4. Requested' /\ Calling'
  BY <1>1, <1>2, <1>3, PassesOn
<1> QED BY <1>2, <1>3, <1>4 DEF Sound

LEMMA DropsKeySound ==
  ASSUME TypeOK, Calling, Linked, NEW r \in Requests, DropsKey(r)
  PROVE  Sound' /\ Later
<1>1. req[r].op = "deleteKey"
  BY Standing DEF DropsKey, Places
<1>2. Begun' /\ Passes(r) /\ UNCHANGED <<users, invites, sessions, lines>>
  BY DEF DropsKey, Begun, TypeOK
<1>3. /\ keys' \in [Keys -> Key \cup {None, Gone}]
      /\ \A k \in Keys : keys'[k] \in {keys[k], Gone}
      /\ \A k \in Keys : keys[k] = None => keys'[k] = None
  BY DEF DropsKey, Without, TypeOK, Has
<1>4. Rows' /\ Later
  BY <1>2, <1>3 DEF TypeOK, Rows, Later, UsersGo, InvitesGo, KeysGo, LinesGo
<1>5. Linked'
  <2>1. \A i \in Invites : Has(invites', i) => Has(invites, i) /\ invites'[i].for = invites[i].for
    BY <1>2 DEF Has
  <2>2. \A k \in Keys : Has(keys', k) => keys'[k] = keys[k]
    BY <1>3 DEF Has
  <2>3. \A s \in Sessions : sessions'[s] = sessions[s]
    BY <1>2
  <2>4. \A l \in Lines : Has(lines', l) => Has(lines, l) /\ lines'[l].user = lines[l].user
    BY <1>2 DEF Has
  <2>5. \A u \in Users : users[u] \in Rights => users'[u] \in Rights
    BY <1>2
  <2> QED BY <1>4, <2>1, <2>2, <2>3, <2>4, <2>5, LinkedStays DEF Later
<1>6. Requested' /\ Calling'
  BY <1>1, <1>2, <1>4, PassesOn
<1> QED BY <1>2, <1>4, <1>5, <1>6 DEF Sound

\* An invite is made out to a newcomer, or to an account there is.
LEMMA InviteComes ==
  ASSUME TypeOK, Linked, Free(invites) # {}, NEW admin \in BOOLEAN, NEW for,
         for = None \/ Lives(for), invites' = Minted(admin, for),
         UNCHANGED <<users, keys, sessions, lines>>
  PROVE  Rows' /\ Later /\ Linked'
<1> DEFINE i == Some(Free(invites))
           new == [admin |-> admin, for |-> for, used |-> FALSE, live |-> TRUE]
<1>1. i \in Invites /\ invites[i] = None
  BY FreeOne DEF TypeOK
<1>2. new \in Invite /\ new.for = for /\ new.admin = admin /\ ~new.used
  BY DEF Invite, Lives
<1>3. invites' = [invites EXCEPT ![i] = new]
  BY DEF Minted
<1> HIDE DEF i, new
<1>4. invites' \in [Invites -> Invite \cup {None, Gone}] /\ invites'[i] = new
      /\ \A j \in Invites : j # i => invites'[j] = invites[j]
  BY <1>1, <1>2, <1>3 DEF TypeOK
<1>6. Rows'
  BY <1>4 DEF TypeOK, Rows
<1>7. Later
  <2>1. InvitesGo
    BY <1>1, <1>4, Distinct DEF TypeOK, InvitesGo
  <2> QED BY <2>1 DEF TypeOK, Later, UsersGo, KeysGo, LinesGo
<1>8. Linked'
  <2>1. ASSUME NEW j \in Invites, Has(invites', j)
        PROVE  \/ invites'[j].for = None \/ Alive(invites'[j].for, users')
               \/ Has(invites, j) /\ invites'[j].for = invites[j].for
    <3>1. CASE j = i
      BY <1>2, <1>4, <3>1 DEF Lives, Alive
    <3>2. CASE j # i
      BY <1>4, <2>1, <3>2 DEF Has, TypeOK
    <3> QED BY <3>1, <3>2
  <2>2. \A k \in Keys : keys'[k] = keys[k]
    OBVIOUS
  <2>3. \A s \in Sessions : sessions'[s] = sessions[s]
    OBVIOUS
  <2>4. \A l \in Lines : Has(lines', l) => Has(lines, l) /\ lines'[l].user = lines[l].user
    BY DEF Has
  <2>5. \A u \in Users : users[u] \in Rights => users'[u] \in Rights
    OBVIOUS
  <2> QED BY <1>6, <1>7, <2>1, <2>2, <2>3, <2>4, <2>5, LinkedStays DEF Later
<1> QED BY <1>6, <1>7, <1>8

LEMMA MintsSound ==
  ASSUME TypeOK, Calling, Linked, NEW r \in Requests, Mints(r)
  PROVE  Sound' /\ Later
<1> DEFINE q == req[r]
           ok == IF q.op = "reset" THEN Lives(q.who) ELSE Lives(q.user)
           admin == IF q.op = "reset" THEN q.who \in Admins ELSE q.flag
<1>1. q.op \in {"createInvite", "reset"} /\ q \in Call
  BY Standing DEF Mints, Places
<1>2. Begun' /\ (Passes(r) \/ Ends(r))
  BY DEF Mints, Begun, TypeOK
<1>3. Rows' /\ Later /\ Linked'
  <2>1. CASE ~ok
    <3>1. UNCHANGED tables
      BY <2>1 DEF Mints, tables
    <3> QED BY <3>1, TablesStay
  <2>2. CASE ok
    <3>1. invites' = Minted(admin, q.who) /\ Free(invites) # {}
          /\ UNCHANGED <<users, keys, sessions, lines>>
      BY <2>2 DEF Mints
    <3>2. admin \in BOOLEAN
      <4>1. (q.who \in Admins) \in BOOLEAN
        OBVIOUS
      <4>2. q.flag \in BOOLEAN
        BY <1>1 DEF Call
      <4> QED BY <4>1, <4>2
    <3>3. q.who = None \/ Lives(q.who)
      BY <1>1, <2>2 DEF Calling, CallIn, Given
    <3> HIDE DEF admin
    <3> QED BY <3>1, <3>2, <3>3, InviteComes
  <2> QED BY <2>1, <2>2
<1>4. Requested' /\ Calling'
  BY <1>1, <1>2, <1>3, PassesOn
<1> QED BY <1>2, <1>3, <1>4 DEF Sound

LEMMA RevokesSound ==
  ASSUME TypeOK, Calling, Linked, NEW r \in Requests, Revokes(r)
  PROVE  Sound' /\ Later
<1>1. req[r].op = "revokeInvite"
  BY Standing DEF Revokes, Places
<1>2. Begun' /\ Passes(r) /\ UNCHANGED <<users, keys, sessions, lines>>
  BY DEF Revokes, Begun, TypeOK
<1>3. /\ invites' \in [Invites -> Invite \cup {None, Gone}]
      /\ \A i \in Invites : invites'[i] \in {invites[i], Gone}
      /\ \A i \in Invites : invites[i] = None => invites'[i] = None
  BY DEF Revokes, Without, TypeOK, Has
<1>4. Rows' /\ Later
  <2>1. InvitesGo
    BY <1>3 DEF TypeOK, InvitesGo
  <2> QED BY <1>2, <1>3, <2>1 DEF TypeOK, Rows, Later, UsersGo, KeysGo, LinesGo
<1>5. Linked'
  <2>1. \A i \in Invites : Has(invites', i) => Has(invites, i) /\ invites'[i].for = invites[i].for
    BY <1>3 DEF Has, TypeOK
  <2>2. \A k \in Keys : keys'[k] = keys[k]
    BY <1>2
  <2>3. \A s \in Sessions : sessions'[s] = sessions[s]
    BY <1>2
  <2>4. \A l \in Lines : Has(lines', l) => Has(lines, l) /\ lines'[l].user = lines[l].user
    BY <1>2 DEF Has
  <2>5. \A u \in Users : users[u] \in Rights => users'[u] \in Rights
    BY <1>2
  <2> QED BY <1>4, <2>1, <2>2, <2>3, <2>4, <2>5, LinkedStays DEF Later
<1>6. Requested' /\ Calling'
  BY <1>1, <1>2, <1>4, PassesOn
<1> QED BY <1>2, <1>4, <1>5, <1>6 DEF Sound

LEMMA TargetsSound ==
  ASSUME TypeOK, Calling, Linked, NEW r \in Requests, Targets(r)
  PROVE  Sound' /\ Later
<1> DEFINE q == req[r]
           a == q.who \in Admins
           p == [q EXCEPT !.flag = a]
           f == Following(p)
<1>1. Rows' /\ Later /\ Linked' /\ Begun' /\ users' = users
  BY TablesStay DEF Targets, TypeOK, Begun, tables
<1>2. q.op = "deleteUser" /\ q.at = 1 /\ InScript(q) /\ q \in Call
  BY Standing DEF Targets, Places
<1>3. CASE ~Lives(q.who)
  BY <1>1, <1>3, EndsOn DEF Sound, Targets
<1>4. CASE Lives(q.who)
  <2>1. PassesAs(r, p)
    BY <1>4 DEF Targets
  <2>9. a \in BOOLEAN /\ (~a => q.who \notin Admins)
    OBVIOUS
  <2> HIDE DEF a
  <2>2. p \in Call /\ p.op = q.op /\ p.at = 1 /\ p.invite = q.invite /\ p.new = q.new
        /\ p.who = q.who /\ p.flag = a
    BY <1>2, <2>9 DEF Call
  <2> HIDE DEF p
  <2>3. InScript(p)
    BY <1>2, <2>2 DEF InScript
  <2>4. Len(Script[p.op]) = 3
    BY <1>2, <2>2 DEF Script, handleDeleteUser
  <2>5. f.at = 2 /\ f.op = "deleteUser" /\ f.who = q.who /\ f.flag = p.flag
        /\ f.invite = q.invite /\ f.new = q.new
    <3>1. p.at < Len(Script[p.op])
      BY <2>2, <2>4
    <3>2. f.at = p.at + 1 /\ f.op = p.op /\ f.who = p.who /\ f.flag = p.flag
          /\ f.invite = p.invite /\ f.new = p.new
      BY <2>3, <3>1, Advances
    <3> QED BY <1>2, <2>2, <3>2
  <2>6. Given(q)
    BY DEF Calling, CallIn
  <2> HIDE DEF f
  <2>7. CallIn(f, users', invites', keys', lines')
    <3>1. Given(f)
      BY <1>2, <2>5, <2>6 DEF Given
    <3>2. TargetIn(f, users')
      BY <1>1, <1>4, <2>2, <2>5, <2>9, Distinct DEF TargetIn, Lives, Admins
    <3>3. ReadIn(f, invites') /\ TakenIn(f, users', invites') /\ LineIn(f, users', lines')
          /\ KeyIn(f, keys')
      BY <2>5 DEF ReadIn, TakenIn, LineIn, Exchanging, KeyIn
    <3> QED BY <3>1, <3>2, <3>3 DEF CallIn
  <2>8. Requested' /\ Calling'
    BY <1>1, <2>1, <2>3, <2>7, PassesAsOn DEF f
  <2> QED BY <1>1, <2>8 DEF Sound
<1> QED BY <1>3, <1>4

LEMMA CountsSound ==
  ASSUME TypeOK, Calling, Linked, NEW r \in Requests, Counts(r)
  PROVE  Sound' /\ Later
<1>1. Rows' /\ Later /\ Linked' /\ Begun'
  BY TablesStay DEF Counts, TypeOK, Begun
<1>2. req[r].op = "deleteUser" /\ req[r].at = 2
  BY Standing DEF Counts, Places
<1>3. Passes(r) \/ Ends(r)
  BY DEF Counts, Checks
<1>4. Requested' /\ Calling'
  BY <1>1, <1>2, <1>3, PassesOn
<1> QED BY <1>1, <1>4 DEF Sound

\* What goes with an account.
LEMMA Drops ==
  ASSUME TypeOK, Calling, Linked, NEW r \in Requests, DropsUser(r)
  PROVE  LET u == req[r].who IN
           /\ req[r].op = "deleteUser" /\ req[r].at = 3 /\ req[r] \in Call
           /\ u \in Users /\ users[u] # None
           /\ Rows' /\ Begun' /\ ceremonies' = ceremonies
           /\ \A v \in Users : users'[v] = IF v = u THEN Gone ELSE users[v]
           /\ \A i \in Invites : Has(invites', i) => invites'[i] = invites[i] /\ invites[i].for # u
           /\ \A i \in Invites : invites'[i] \in {invites[i], Gone}
           /\ \A k \in Keys : Has(keys', k) => keys'[k] = keys[k] /\ keys[k].user # u
           /\ \A k \in Keys : Has(keys, k) /\ keys[k].user # u => keys'[k] = keys[k]
           /\ \A k \in Keys : keys'[k] \in {keys[k], Gone}
           /\ \A s \in Sessions :
                Has(sessions', s) => sessions'[s] = sessions[s] /\ sessions[s].user # u
           /\ \A s \in Sessions : sessions'[s] \in {sessions[s], Gone}
           /\ \A l \in Lines : lines'[l] = IF Has(lines, l) /\ lines[l].user = u THEN Gone ELSE lines[l]
<1> DEFINE u == req[r].who
<1>1. req[r].op = "deleteUser" /\ req[r].at = 3 /\ req[r] \in Call
  BY Standing DEF DropsUser, Places
<1>2. u \in Users /\ users[u] # None
  BY <1>1 DEF Calling, CallIn, TargetIn, Call
<1>3. Begun' /\ ceremonies' = ceremonies
  BY DEF DropsUser, Begun, TypeOK
<1>4. /\ users' \in [Users -> Rights \cup {None, Gone}]
      /\ \A v \in Users : users'[v] = IF v = u THEN Gone ELSE users[v]
  BY <1>2 DEF DropsUser, Without, TypeOK, Has
<1>5. /\ invites' \in [Invites -> Invite \cup {None, Gone}]
      /\ \A i \in Invites : Has(invites', i) => invites'[i] = invites[i] /\ invites[i].for # u
      /\ \A i \in Invites : invites'[i] \in {invites[i], Gone}
  BY DEF DropsUser, Without, TypeOK, Has
<1>6. /\ keys' \in [Keys -> Key \cup {None, Gone}]
      /\ \A k \in Keys : Has(keys', k) => keys'[k] = keys[k] /\ keys[k].user # u
      /\ \A k \in Keys : Has(keys, k) /\ keys[k].user # u => keys'[k] = keys[k]
      /\ \A k \in Keys : keys'[k] \in {keys[k], Gone}
  BY DEF DropsUser, Without, TypeOK, Has
<1>7. /\ sessions' \in [Sessions -> Session \cup {None, Gone}]
      /\ \A s \in Sessions :
           Has(sessions', s) => sessions'[s] = sessions[s] /\ sessions[s].user # u
      /\ \A s \in Sessions : sessions'[s] \in {sessions[s], Gone}
  BY DEF DropsUser, Without, TypeOK, Has
<1>8. /\ lines' \in [Lines -> Line \cup {None, Gone}]
      /\ \A l \in Lines : lines'[l] = IF Has(lines, l) /\ lines[l].user = u THEN Gone ELSE lines[l]
  BY DEF DropsUser, Without, TypeOK, Has
<1>9. Rows'
  BY <1>4, <1>5, <1>6, <1>7, <1>8 DEF Rows
<1> QED BY <1>1, <1>2, <1>3, <1>4, <1>5, <1>6, <1>7, <1>8, <1>9

LEMMA DropsUserSound ==
  ASSUME TypeOK, Calling, Linked, NEW r \in Requests, DropsUser(r)
  PROVE  Sound' /\ Later
<1> DEFINE u == req[r].who
<1>1. Rows' /\ Begun' /\ req[r].op = "deleteUser" /\ req[r].at = 3 /\ u \in Users
  BY Drops
<1>2. \A v \in Users : users'[v] = IF v = u THEN Gone ELSE users[v]
  BY Drops
<1>3. Later
  <2>1. UsersGo
    BY <1>2 DEF UsersGo
  <2>2. InvitesGo
    <3>1. \A i \in Invites : Has(invites', i) => invites'[i] = invites[i]
      BY Drops
    <3>2. \A i \in Invites : invites'[i] \in {invites[i], Gone}
      BY Drops
    <3> QED BY <3>1, <3>2 DEF InvitesGo, Has, TypeOK
  <2>3. KeysGo
    BY Drops DEF KeysGo
  <2>4. LinesGo
    <3>1. \A l \in Lines : lines'[l] = IF Has(lines, l) /\ lines[l].user = u THEN Gone ELSE lines[l]
      BY Drops
    <3> QED BY <1>1, <1>2, <3>1 DEF LinesGo, Has, TypeOK
  <2> QED BY <2>1, <2>2, <2>3, <2>4 DEF Later
<1>4. Linked'
  <2>0. \A v : Lives(v) /\ v # u => Alive(v, users')
    BY <1>2 DEF Lives, Alive
  <2>1. ASSUME NEW i \in Invites, Has(invites', i)
        PROVE  invites'[i].for = None \/ Alive(invites'[i].for, users')
    <3>1. invites'[i] = invites[i] /\ invites[i].for # u
      BY <2>1, Drops
    <3>2. Has(invites, i)
      BY <2>1, <3>1 DEF Has, TypeOK
    <3> QED BY <2>0, <3>1, <3>2 DEF Linked
  <2>2. ASSUME NEW k \in Keys, Has(keys', k) PROVE Alive(keys'[k].user, users')
    <3>1. keys'[k] = keys[k] /\ keys[k].user # u
      BY <2>2, Drops
    <3>2. Has(keys, k)
      BY <2>2, <3>1 DEF Has, TypeOK
    <3> QED BY <2>0, <3>1, <3>2 DEF Linked
  <2>3. ASSUME NEW s \in Sessions, Has(sessions', s)
        PROVE  /\ Alive(sessions'[s].user, users') /\ keys'[sessions'[s].key] # None
               /\ Has(keys', sessions'[s].key) => keys'[sessions'[s].key].user = sessions'[s].user
    <3>1. sessions'[s] = sessions[s] /\ sessions[s].user # u
      BY <2>3, Drops
    <3>2. Has(sessions, s) /\ sessions[s] \in Session
      BY <2>3, <3>1 DEF Has, TypeOK
    <3>3. PICK k \in Keys : k = sessions[s].key
      BY <3>2 DEF Session
    <3>4. /\ Lives(sessions[s].user) /\ keys[k] # None
          /\ Has(keys, k) => keys[k].user = sessions[s].user
      BY <3>2, <3>3 DEF Linked
    <3>5. keys'[k] \in {keys[k], Gone} /\ (Has(keys', k) => keys'[k] = keys[k])
      BY Drops
    <3>6. keys'[k] # None /\ (Has(keys', k) => keys'[k] = keys[k] /\ Has(keys, k))
      BY <3>4, <3>5, Distinct DEF Has, TypeOK
    <3> QED BY <2>0, <3>1, <3>3, <3>4, <3>6
  <2>4. ASSUME NEW l \in Lines, Has(lines', l) PROVE Alive(lines'[l].user, users')
    <3>1. lines'[l] = IF Has(lines, l) /\ lines[l].user = u THEN Gone ELSE lines[l]
      BY Drops
    <3>2. lines'[l] = lines[l] /\ Has(lines, l) /\ lines[l].user # u
      BY <2>4, <3>1 DEF Has, TypeOK
    <3> QED BY <2>0, <3>2 DEF Linked
  <2> QED BY <2>1, <2>2, <2>3, <2>4 DEF Linked, Lives, Alive, Has
<1>5. Requested' /\ Calling'
  BY <1>1, <1>3, PassesOn DEF DropsUser
<1> QED BY <1>1, <1>3, <1>4, <1>5 DEF Sound

\* A code is given to an account there is.
LEMMA Consented ==
  ASSUME TypeOK, NEW r \in Requests, Consents(r), Lives(req[r].user)
  PROVE  \E n \in Lines :
           /\ lines[n] = None /\ Has(lines', n) /\ lines'[n] \in Line
           /\ lines'[n].user = req[r].user /\ lines'[n].code
           /\ ~lines'[n].access /\ lines'[n].refresh = 0
           /\ \A l \in Lines : l # n => lines'[l] = lines[l]
           /\ lines' \in [Lines -> Line \cup {None, Gone}]
<1> DEFINE n == Some(Free(lines))
           new == [user |-> req[r].user, code |-> TRUE, access |-> FALSE, refresh |-> 0]
<1>1. n \in Lines /\ lines[n] = None
  BY FreeOne DEF Consents, TypeOK
<1>2. new \in Line /\ new.user = req[r].user /\ new.code /\ ~new.access /\ new.refresh = 0
  BY DEF Line, Lives
<1>3. lines' = [lines EXCEPT ![n] = new]
  BY DEF Consents
<1> HIDE DEF n, new
<1>4. /\ lines' \in [Lines -> Line \cup {None, Gone}] /\ lines'[n] = new
      /\ \A l \in Lines : l # n => lines'[l] = lines[l]
  BY <1>1, <1>2, <1>3 DEF TypeOK
<1>5. Has(lines', n)
  BY <1>1, <1>2, <1>4, Distinct DEF Has
<1> QED BY <1>1, <1>2, <1>4, <1>5

LEMMA ConsentsSound ==
  ASSUME TypeOK, Calling, Linked, NEW r \in Requests, Consents(r)
  PROVE  Sound' /\ Later
<1>1. req[r].op = "consent"
  BY Standing DEF Consents, Places
<1>2. Begun' /\ (Passes(r) \/ Ends(r)) /\ UNCHANGED <<users, invites, keys, sessions>>
  BY DEF Consents, Begun, TypeOK
<1>3. Rows' /\ Later /\ Linked'
  <2>1. CASE ~Lives(req[r].user)
    <3>1. UNCHANGED tables
      BY <2>1 DEF Consents, tables
    <3> QED BY <3>1, TablesStay
  <2>2. CASE Lives(req[r].user)
    BY <1>2, <2>2, Consented, LinesGoOn DEF Lives, Alive
  <2> QED BY <2>1, <2>2
<1>4. Requested' /\ Calling'
  BY <1>1, <1>2, <1>3, PassesOn
<1> QED BY <1>2, <1>3, <1>4 DEF Sound

\* What is found is spent.
LEMMA Redeemed ==
  ASSUME TypeOK, NEW r \in Requests, NEW step, step \in {"redeem", "rotate"}, Redeems(r, step),
         Found(req[r])
  PROVE  LET q == req[r]  l == q.line IN
           /\ l \in Lines /\ Has(lines, l) /\ Has(lines', l) /\ lines[l] \in Line
           /\ lines' \in [Lines -> Line \cup {None, Gone}]
           /\ \A m \in Lines : m # l => lines'[m] = lines[m]
           /\ lines'[l].user = lines[l].user /\ ~lines'[l].code
           /\ lines'[l].access = lines[l].access
           /\ \/ lines[l].code /\ lines'[l].refresh = lines[l].refresh
              \/ ~lines[l].code /\ lines[l].refresh > 0 /\ lines'[l].refresh = lines[l].refresh - 1
<1> DEFINE q == req[r]
           l == q.line
           new == Spent(lines[l])
<1>1. \/ q.op = "exchange" /\ q.at = 1
      \/ q.op = "renew" /\ q.at = 1
  BY Standing DEF Redeems, Places
<1>2. l \in Lines /\ Has(lines, l) /\ lines[l] \in Line
  BY DEF Found, Has, TypeOK
<1>3. lines[l].code \/ (~lines[l].code /\ lines[l].refresh > 0)
  BY <1>1, <1>2 DEF Found
<1>4. lines[l].code \in BOOLEAN /\ lines[l].refresh \in Nat /\ lines[l].access \in BOOLEAN
  BY <1>2 DEF Line
<1>5. /\ new \in Line /\ new.user = lines[l].user /\ ~new.code /\ new.access = lines[l].access
      /\ new.refresh = IF lines[l].code THEN lines[l].refresh ELSE lines[l].refresh - 1
  <2>1. (IF lines[l].code THEN lines[l].refresh ELSE lines[l].refresh - 1) \in Nat
    BY <1>3, <1>4
  <2> QED BY <1>2, <2>1 DEF Line, Spent
<1>6. lines' = [lines EXCEPT ![l] = new]
  BY DEF Redeems
<1> HIDE DEF new
<1>7. /\ lines' \in [Lines -> Line \cup {None, Gone}] /\ lines'[l] = new
      /\ \A m \in Lines : m # l => lines'[m] = lines[m]
  BY <1>2, <1>5, <1>6 DEF TypeOK
<1>8. Has(lines', l)
  BY <1>2, <1>5, <1>7, Distinct DEF Has
<1> QED BY <1>2, <1>3, <1>5, <1>7, <1>8

LEMMA RedeemsSound ==
  ASSUME TypeOK, Calling, Linked, NEW r \in Requests,
         NEW step, step \in {"redeem", "rotate"}, Redeems(r, step)
  PROVE  Sound' /\ Later
<1> DEFINE q == req[r]
           p == [q EXCEPT !.user = lines[q.line].user]
           f == Following(p)
<1>1. q.op \in {"exchange", "renew"} /\ q.at = 1 /\ InScript(q) /\ q \in Call
  BY Standing DEF Redeems, Places
<1>2. Begun' /\ UNCHANGED <<users, invites, keys, sessions>>
  BY DEF Redeems, Begun, TypeOK
<1>3. Rows' /\ Later /\ Linked'
  <2>1. CASE ~Found(q)
    <3>1. UNCHANGED tables
      BY <2>1 DEF Redeems, tables
    <3> QED BY <3>1, TablesStay
  <2>2. CASE Found(q)
    <3>1. /\ lines' \in [Lines -> Line \cup {None, Gone}] /\ q.line \in Lines
          /\ Has(lines, q.line) /\ Has(lines', q.line)
          /\ lines'[q.line].user = lines[q.line].user
          /\ \A m \in Lines : m # q.line => lines'[m] = lines[m]
      BY <2>2, Redeemed
    <3>2. ASSUME NEW m \in Lines
          PROVE  \/ lines'[m] = lines[m]
                 \/ Has(lines, m) /\ Has(lines', m) /\ lines'[m].user = lines[m].user
      BY <3>1
    <3> QED BY <1>2, <3>1, <3>2, LinesGoOn
  <2> QED BY <2>1, <2>2
<1>4. CASE Ends(r)
  BY <1>2, <1>3, <1>4, EndsOn DEF Sound
<1>5. CASE ~Ends(r)
  <2>1. Found(q) /\ PassesAs(r, p)
    BY <1>5 DEF Redeems
  <2>2. /\ q.line \in Lines /\ Has(lines', q.line) /\ lines[q.line] \in Line
        /\ lines'[q.line].user = lines[q.line].user
    BY <2>1, Redeemed
  <2>3. lines[q.line].user \in Users
    BY <2>2 DEF Line
  <2>4. p \in Call /\ p.op = q.op /\ p.at = 1 /\ p.invite = q.invite /\ p.new = q.new
        /\ p.line = q.line /\ p.user = lines[q.line].user
    BY <1>1, <2>3 DEF Call
  <2> HIDE DEF p
  <2>5. InScript(p)
    BY <1>1, <2>4 DEF InScript
  <2>6. Len(Script[p.op]) = 3
    BY <1>1, <2>4 DEF Script, tokenFromCode, tokenFromRefresh
  <2>7. f.at = 2 /\ f.op = q.op /\ f.user = p.user /\ f.line = q.line
        /\ f.invite = q.invite /\ f.new = q.new
    <3>1. p.at < Len(Script[p.op])
      BY <2>4, <2>6
    <3>2. f.at = p.at + 1 /\ f.op = p.op /\ f.user = p.user /\ f.line = p.line
          /\ f.invite = p.invite /\ f.new = p.new
      BY <2>5, <3>1, Advances
    <3> QED BY <2>4, <3>2
  <2>8. Given(q)
    BY DEF Calling, CallIn
  <2> HIDE DEF f
  <2>9. CallIn(f, users', invites', keys', lines')
    <3>1. Given(f)
      BY <1>1, <2>7, <2>8 DEF Given
    <3>2. LineIn(f, users', lines')
      BY <2>2, <2>3, <2>4, <2>7, Distinct DEF LineIn, Has
    <3>3. ReadIn(f, invites') /\ TakenIn(f, users', invites') /\ KeyIn(f, keys')
          /\ TargetIn(f, users')
      BY <1>1, <2>7 DEF ReadIn, TakenIn, KeyIn, TargetIn
    <3> QED BY <3>1, <3>2, <3>3 DEF CallIn
  <2>10. Requested' /\ Calling'
    BY <1>3, <2>1, <2>5, <2>9, PassesAsOn DEF f
  <2> QED BY <1>2, <1>3, <2>10 DEF Sound
<1> QED BY <1>4, <1>5

\* A token is made out to an account there is, on the line of its exchange.
LEMMA Issued ==
  ASSUME TypeOK, Calling, NEW r \in Requests,
         CreateAccessToken(r) \/ CreateRefreshToken(r), Lives(req[r].user)
  PROVE  LET q == req[r]  l == q.line IN
           /\ l \in Lines /\ Has(lines, l) /\ Has(lines', l) /\ Exchanging(q)
           /\ lines[l].user = q.user /\ lines[l] \in Line
           /\ lines' \in [Lines -> Line \cup {None, Gone}]
           /\ \A m \in Lines : m # l => lines'[m] = lines[m]
           /\ lines'[l].user = lines[l].user /\ lines'[l].code = lines[l].code
           /\ \/ CreateAccessToken(r) /\ lines'[l].refresh = lines[l].refresh
              \/ /\ CreateRefreshToken(r)
                 /\ lines'[l].refresh = lines[l].refresh + 1 /\ lines'[l].access = lines[l].access
<1> DEFINE q == req[r]
           l == q.line
           a == [lines[l] EXCEPT !.access = TRUE]
           b == [lines[l] EXCEPT !.refresh = @ + 1]
<1>1. q \in Call /\ Exchanging(q)
  BY Standing DEF CreateAccessToken, CreateRefreshToken, Issues, Places, Exchanging
<1>2. LineIn(q, users, lines)
  BY DEF Calling, CallIn
<1>3. l \in Lines /\ Has(lines, l) /\ lines[l].user = q.user /\ lines[l] \in Line
  <2>1. l \in Lines /\ lines[l] # None
    BY <1>1, <1>2 DEF LineIn, Call
  <2>2. lines[l] # Gone
    BY <1>1, <1>2, Distinct DEF LineIn, Lives
  <2> QED BY <1>1, <1>2, <2>1, <2>2 DEF LineIn, Has, TypeOK
<1>4. /\ a \in Line /\ a.user = lines[l].user /\ a.code = lines[l].code /\ a.refresh = lines[l].refresh
      /\ b \in Line /\ b.user = lines[l].user /\ b.code = lines[l].code
      /\ b.refresh = lines[l].refresh + 1 /\ b.access = lines[l].access
  <2>1. lines[l].refresh + 1 \in Nat
    BY <1>3 DEF Line
  <2>2. a \in Line /\ a.user = lines[l].user /\ a.code = lines[l].code /\ a.refresh = lines[l].refresh
    BY <1>3 DEF Line
  <2>3. b \in Line /\ b.user = lines[l].user /\ b.code = lines[l].code
        /\ b.refresh = lines[l].refresh + 1 /\ b.access = lines[l].access
    BY <1>3, <2>1 DEF Line
  <2> QED BY <2>2, <2>3
<1>5. \/ CreateAccessToken(r) /\ lines' = [lines EXCEPT ![l] = a]
      \/ CreateRefreshToken(r) /\ lines' = [lines EXCEPT ![l] = b]
  BY DEF CreateAccessToken, CreateRefreshToken, Issues
<1> HIDE DEF a, b
<1>6. ASSUME NEW new, new \in Line, lines' = [lines EXCEPT ![l] = new]
      PROVE  /\ lines' \in [Lines -> Line \cup {None, Gone}] /\ lines'[l] = new /\ Has(lines', l)
             /\ \A m \in Lines : m # l => lines'[m] = lines[m]
  BY <1>3, <1>6, Distinct DEF TypeOK, Has
<1>7. CASE CreateAccessToken(r) /\ lines' = [lines EXCEPT ![l] = a]
  BY <1>1, <1>3, <1>4, <1>6, <1>7
<1>8. CASE CreateRefreshToken(r) /\ lines' = [lines EXCEPT ![l] = b]
  BY <1>1, <1>3, <1>4, <1>6, <1>8
<1> QED BY <1>5, <1>7, <1>8

LEMMA IssuesSound ==
  ASSUME TypeOK, Calling, Linked, NEW r \in Requests,
         CreateAccessToken(r) \/ CreateRefreshToken(r)
  PROVE  Sound' /\ Later
<1>1. req[r].op \in {"exchange", "renew"} /\ req[r].at # 1
  BY Standing DEF CreateAccessToken, CreateRefreshToken, Issues, Places
<1>2. Begun' /\ (Passes(r) \/ Ends(r)) /\ UNCHANGED <<users, invites, keys, sessions>>
  BY DEF CreateAccessToken, CreateRefreshToken, Issues, Begun, TypeOK
<1>3. Rows' /\ Later /\ Linked'
  <2>1. CASE ~Lives(req[r].user)
    <3>1. UNCHANGED tables
      BY <2>1 DEF CreateAccessToken, CreateRefreshToken, Issues, tables
    <3> QED BY <3>1, TablesStay
  <2>2. CASE Lives(req[r].user)
    <3>1. /\ lines' \in [Lines -> Line \cup {None, Gone}] /\ req[r].line \in Lines
          /\ Has(lines, req[r].line) /\ Has(lines', req[r].line)
          /\ lines'[req[r].line].user = lines[req[r].line].user
          /\ \A m \in Lines : m # req[r].line => lines'[m] = lines[m]
      BY <2>2, Issued
    <3>2. ASSUME NEW m \in Lines
          PROVE  \/ lines'[m] = lines[m]
                 \/ Has(lines, m) /\ Has(lines', m) /\ lines'[m].user = lines[m].user
      BY <3>1
    <3> QED BY <1>2, <3>1, <3>2, LinesGoOn
  <2> QED BY <2>1, <2>2
<1>4. Requested' /\ Calling'
  BY <1>1, <1>2, <1>3, PassesOn
<1> QED BY <1>2, <1>3, <1>4 DEF Sound

LEMMA LineLapsed ==
  ASSUME TypeOK, NEW l \in Lines, LineLapses(l)
  PROVE  /\ Has(lines, l) /\ Has(lines', l) /\ lines[l] \in Line /\ lines'[l] \in Line
         /\ lines'[l].user = lines[l].user
         /\ lines'[l].code => lines[l].code
         /\ lines'[l].access => lines[l].access
         /\ lines'[l].refresh <= lines[l].refresh
         /\ lines' \in [Lines -> Line \cup {None, Gone}]
         /\ \A m \in Lines : m # l => lines'[m] = lines[m]
<1> DEFINE a == [lines[l] EXCEPT !.code = FALSE]
           b == [lines[l] EXCEPT !.access = FALSE]
           c == [lines[l] EXCEPT !.refresh = @ - 1]
           Less(new) == /\ new \in Line /\ new.user = lines[l].user
                        /\ new.code => lines[l].code
                        /\ new.access => lines[l].access
                        /\ new.refresh <= lines[l].refresh
<1>1. Has(lines, l) /\ lines[l] \in Line
  BY DEF LineLapses, Has, TypeOK
<1>2. lines[l].refresh \in Nat
  BY <1>1 DEF Line
<1>3. Less(a)
  <2>1. a \in Line /\ a.user = lines[l].user /\ ~a.code /\ a.access = lines[l].access
        /\ a.refresh = lines[l].refresh
    BY <1>1 DEF Line
  <2> HIDE DEF a
  <2> QED BY <1>2, <2>1
<1>4. Less(b)
  <2>1. b \in Line /\ b.user = lines[l].user /\ b.code = lines[l].code /\ ~b.access
        /\ b.refresh = lines[l].refresh
    BY <1>1 DEF Line
  <2> HIDE DEF b
  <2> QED BY <1>2, <2>1
<1>5. lines[l].refresh > 0 => Less(c)
  <2> SUFFICES ASSUME lines[l].refresh > 0 PROVE Less(c)
    OBVIOUS
  <2>1. lines[l].refresh - 1 \in Nat /\ lines[l].refresh - 1 <= lines[l].refresh
    BY <1>2
  <2> QED BY <1>1, <2>1 DEF Line
<1>6. \/ lines' = [lines EXCEPT ![l] = a]
      \/ lines' = [lines EXCEPT ![l] = b]
      \/ lines[l].refresh > 0 /\ lines' = [lines EXCEPT ![l] = c]
  BY DEF LineLapses
<1> HIDE DEF a, b, c, Less
<1>7. PICK new : Less(new) /\ lines' = [lines EXCEPT ![l] = new]
  BY <1>3, <1>4, <1>5, <1>6
<1>8. new \in Line /\ new # None /\ new # Gone
  BY <1>7, Distinct DEF Less
<1>9. /\ lines' \in [Lines -> Line \cup {None, Gone}] /\ lines'[l] = new
      /\ \A m \in Lines : m # l => lines'[m] = lines[m]
  BY <1>7, <1>8 DEF TypeOK
<1>10. Has(lines', l)
  BY <1>8, <1>9 DEF Has
<1> QED BY <1>1, <1>7, <1>8, <1>9, <1>10 DEF Less

LEMMA LapsesSound ==
  ASSUME TypeOK, Calling, Linked, Lapses
  PROVE  Sound' /\ Later /\ req' = req
<1>1. req' = req
  BY DEF Lapses, InviteLapses, SessionLapses, LineLapses, CeremonyLapses
<1>2. Begun'
  BY DEF Lapses, InviteLapses, SessionLapses, LineLapses, CeremonyLapses, Begun, TypeOK
<1>3. Rows' /\ Later /\ Linked'
  <2>1. CASE \E i \in Invites : InviteLapses(i)
    <3>1. PICK i \in Invites : InviteLapses(i)
      BY <2>1
    <3> DEFINE new == [invites[i] EXCEPT !.live = FALSE]
    <3>2. Has(invites, i) /\ invites[i] \in Invite
      BY <3>1 DEF InviteLapses, Pending, Has, TypeOK
    <3>3. new \in Invite /\ new.for = invites[i].for /\ new.admin = invites[i].admin
          /\ new.used = invites[i].used
      BY <3>2 DEF Invite
    <3>4. invites' = [invites EXCEPT ![i] = new] /\ UNCHANGED <<users, keys, sessions, lines>>
      BY <3>1 DEF InviteLapses
    <3> HIDE DEF new
    <3> QED BY <3>2, <3>3, <3>4, InviteGoes
  <2>2. CASE \E s \in Sessions : SessionLapses(s)
    <3>1. PICK s \in Sessions : SessionLapses(s)
      BY <2>2
    <3>2. UNCHANGED <<users, invites, keys, lines>> /\ sessions' = [sessions EXCEPT ![s] = Gone]
      BY <3>1 DEF SessionLapses
    <3>3. sessions' \in [Sessions -> Session \cup {None, Gone}]
      BY <3>2 DEF TypeOK
    <3>4. \A n \in Sessions : Has(sessions', n) => sessions'[n] = sessions[n]
      BY <3>2 DEF Has, TypeOK
    <3> QED BY <3>2, <3>3, <3>4, SessionsGo
  <2>3. CASE \E l \in Lines : LineLapses(l)
    <3>1. PICK l \in Lines : LineLapses(l)
      BY <2>3
    <3>2. UNCHANGED <<users, invites, keys, sessions>>
      BY <3>1 DEF LineLapses
    <3>3. /\ Has(lines, l) /\ Has(lines', l) /\ lines'[l].user = lines[l].user
          /\ lines' \in [Lines -> Line \cup {None, Gone}]
          /\ \A m \in Lines : m # l => lines'[m] = lines[m]
      BY <3>1, LineLapsed
    <3>4. ASSUME NEW m \in Lines
          PROVE  \/ lines'[m] = lines[m]
                 \/ Has(lines, m) /\ Has(lines', m) /\ lines'[m].user = lines[m].user
      BY <3>3
    <3> QED BY <3>2, <3>3, <3>4, LinesGoOn
  <2>4. CASE \E m \in Ceremonies : CeremonyLapses(m)
    <3>1. UNCHANGED tables
      BY <2>4 DEF CeremonyLapses
    <3> QED BY <3>1, TablesStay
  <2> QED BY <2>1, <2>2, <2>3, <2>4 DEF Lapses
<1>4. Requested' /\ Calling'
  BY <1>1, <1>3, CallsStay
<1> QED BY <1>1, <1>2, <1>3, <1>4 DEF Sound

LEMMA RestartsSound ==
  ASSUME TypeOK, Calling, Linked, Restarts
  PROVE  Sound' /\ Later /\ \A r \in Requests : req'[r] = Idle
<1>1. UNCHANGED <<users, keys, sessions, lines>>
  BY DEF Restarts
<1>2. Begun'
  BY DEF Restarts, Begun
<1>3. Rows' /\ Later /\ Linked'
  <2>1. CASE (\E u \in Users : Lives(u)) \/ Free(invites) = {}
    <3>1. UNCHANGED tables
      BY <1>1, <2>1 DEF Restarts, tables
    <3> QED BY <3>1, TablesStay
  <2>2. CASE ~((\E u \in Users : Lives(u)) \/ Free(invites) = {})
    <3>1. invites' = Minted(TRUE, None) /\ Free(invites) # {}
      BY <2>2 DEF Restarts
    <3>2. TRUE \in BOOLEAN /\ (None = None \/ Lives(None))
      OBVIOUS
    <3> QED BY <1>1, <3>1, <3>2, InviteComes
  <2> QED BY <2>1, <2>2
<1>4. \A r \in Requests : req'[r] = Idle
  BY DEF Restarts
<1>5. Requested' /\ Calling'
  <2>1. Requested'
    BY <1>4, OverIn DEF Restarts, Requested, InScript
  <2>2. Calling'
    BY <1>4, OverIn DEF Calling, CallIn, Given, ReadIn, TakenIn, Enrolled, KeyIn, LineIn, TargetIn,
      Exchanging
  <2> QED BY <2>1, <2>2
<1> QED BY <1>2, <1>3, <1>4, <1>5 DEF Sound

\* What a call begins with.
LEMMA AskedFor ==
  ASSUME TypeOK, NEW r \in Requests, NEW q \in Asks, Begins(r, q)
  PROVE  LET p == [q EXCEPT !.user = Caller(q)] IN
           /\ InScript(p) /\ Moves(r, p) /\ p.at = 1 /\ ~p.new /\ p.op = q.op
           /\ p.user = Caller(q) /\ p.who = q.who /\ p.invite = q.invite
           /\ p.invite # None => p.op \in {"registerBegin", "revokeInvite"}
           /\ p.op = "createInvite" => p.who = None
<1> DEFINE p == [q EXCEPT !.user = Caller(q)]
<1>1. /\ q \in Call /\ q.at = 1 /\ ~q.new
      /\ q.invite # None => q.op \in {"registerBegin", "revokeInvite"}
      /\ q.op = "createInvite" => q.who = None
  BY AsksAssumption
<1>2. Caller(q) \in Users \cup {None}
  BY DEF Caller, Has, TypeOK, Session
<1>3. /\ p \in Call /\ p.at = 1 /\ p.op = q.op /\ p.new = q.new /\ p.invite = q.invite
      /\ p.who = q.who /\ p.user = Caller(q)
  BY <1>1, <1>2 DEF Call
<1>4. Moves(r, p)
  BY DEF Begins, Moves
<1> HIDE DEF p
<1>5. InScript(p)
  <2>1. p.op \in Ops
    BY <1>3, ScriptsAre DEF Call
  <2>2. Lasts(p.op, Len(Script[p.op]))
    BY <2>1, ScriptsAre
  <2> QED BY <1>3, <2>2 DEF Lasts, InScript
<1> QED BY <1>1, <1>3, <1>4, <1>5 DEF p

LEMMA BeginsSound ==
  ASSUME TypeOK, Calling, Linked, NEW r \in Requests, NEW q \in Asks, Begins(r, q)
  PROVE  Sound' /\ Later
<1> DEFINE p == [q EXCEPT !.user = Caller(q)]
<1>1. Rows' /\ Later /\ Linked' /\ Begun'
  BY TablesStay DEF Begins, TypeOK, Begun
<1>2. /\ InScript(p) /\ Moves(r, p) /\ p.at = 1 /\ ~p.new
      /\ p.invite # None => p.op \in {"registerBegin", "revokeInvite"}
      /\ p.op = "createInvite" => p.who = None
  BY AskedFor
<1> HIDE DEF p
<1>3. CallIn(p, users', invites', keys', lines')
  BY <1>2 DEF CallIn, Given, ReadIn, TakenIn, KeyIn, LineIn, Exchanging, TargetIn
<1>4. Requested' /\ Calling'
  BY <1>1, <1>2, <1>3, CallsGoOn
<1> QED BY <1>1, <1>4 DEF Sound

-----------------------------------------------------------------------------
(* How a call goes from one step to the next.                              *)

\* What of a call a step leaves as it is.
Alike(q, p) ==
  /\ p.op = q.op /\ p.session = q.session /\ p.line = q.line
  /\ \/ q.op \notin {"registerFinish", "loginFinish", "exchange", "renew"}
     \/ q.op # "loginFinish" /\ q.at > 1
     => p.user = q.user
  /\ q.op \notin {"registerFinish", "addFinish"} => p.key = q.key
  /\ q.op # "registerFinish" => p.invite = q.invite /\ p.new = q.new
  /\ q.at > 1 => p.who = q.who /\ p.flag = q.flag /\ p.invite = q.invite /\ p.new = q.new
Goes(q, p) == p.at = q.at + 1 /\ Alike(q, p)
Starts(p) == p.at = 1 /\ ~p.new /\ (p.invite # None => p.op \in {"registerBegin", "revokeInvite"})
Turns(r) == req'[r] = req[r] \/ Starts(req'[r]) \/ Goes(req[r], req'[r])
Stepped(r) ==
  /\ \A s \in Requests \ {r} : req'[s] = req[s]
  /\ req'[r] = Idle \/ Goes(req[r], req'[r])

Does(r) == Enrols(r) \/ SignsIn(r) \/ SignsOut(r) \/ Administers(r) \/ Authorizes(r)

LEMMA SteppedAs ==
  ASSUME TypeOK, NEW r \in Requests, NEW p \in Call, PassesAs(r, p), p.at = req[r].at,
         Alike(req[r], p)
  PROVE  Stepped(r)
<1>1. InScript(req[r]) /\ req \in [Requests -> Call] /\ InScript(p)
  BY Standing DEF TypeOK, InScript, Alike
<1>2. \A s \in Requests \ {r} : req'[s] = req[s]
  BY <1>1 DEF PassesAs
<1>3. req'[r] = Following(p)
  BY <1>1 DEF PassesAs
<1>4. CASE p.at < Len(Script[p.op])
  <2> DEFINE f == Following(p)
  <2>1. /\ f.at = p.at + 1 /\ f.op = p.op /\ f.user = p.user /\ f.session = p.session
        /\ f.who = p.who /\ f.invite = p.invite /\ f.key = p.key /\ f.line = p.line
        /\ f.flag = p.flag /\ f.new = p.new
    BY <1>1, <1>4, Advances
  <2> HIDE DEF f
  <2>2. Goes(req[r], f)
    BY <2>1 DEF Goes, Alike
  <2> QED BY <1>2, <1>3, <2>2 DEF Stepped, f
<1>5. CASE ~(p.at < Len(Script[p.op]))
  <2>1. Following(p) = Idle
    BY <1>1, <1>5, Onward
  <2> QED BY <1>2, <1>3, <2>1 DEF Stepped
<1> QED BY <1>4, <1>5

LEMMA SteppedOn ==
  ASSUME TypeOK, NEW r \in Requests, Passes(r) \/ Ends(r)
  PROVE  Stepped(r)
<1>1. req \in [Requests -> Call]
  BY DEF TypeOK
<1>2. CASE Ends(r)
  BY <1>1, <1>2 DEF Ends, Stepped
<1>3. CASE Passes(r)
  <2>1. Alike(req[r], req[r])
    BY DEF Alike
  <2> QED BY <1>1, <1>3, <2>1, SteppedAs DEF Passes
<1> QED BY <1>2, <1>3

LEMMA EnrolsSteps ==
  ASSUME TypeOK, NEW r \in Requests, Enrols(r)
  PROVE  Stepped(r)
<1> DEFINE q == req[r]
<1>0. q \in Call /\ q.at \in Nat
  BY Standing DEF Call
<1>1. CASE ReadsInvite(r)
  <2> DEFINE p == [q EXCEPT !.flag = invites[q.invite].admin, !.who = invites[q.invite].for]
  <2>1. q.op = "registerBegin" /\ q.at = 1
    BY <1>1, Standing DEF ReadsInvite, Places
  <2>2. CASE Unspent(q.invite)
    <3>1. invites[q.invite] \in Invite
      BY <2>2 DEF Unspent, Has, TypeOK
    <3>2. p \in Call /\ p.at = q.at /\ Alike(q, p)
      <4>1. p \in Call
        BY <1>0, <3>1 DEF Call, Invite
      <4>2. /\ p.at = q.at /\ p.op = q.op /\ p.session = q.session /\ p.line = q.line
            /\ p.user = q.user /\ p.key = q.key /\ p.invite = q.invite /\ p.new = q.new
        BY <1>0 DEF Call
      <4> HIDE DEF p
      <4> QED BY <2>1, <4>1, <4>2 DEF Alike
    <3>3. PassesAs(r, p)
      BY <1>1, <2>2 DEF ReadsInvite
    <3> QED BY <3>2, <3>3, SteppedAs
  <2>3. CASE ~Unspent(q.invite)
    BY <1>1, <2>3, SteppedOn DEF ReadsInvite
  <2> QED BY <2>2, <2>3
<1>2. CASE Puts(r) \/ Consumes(r) \/ CreatesUser(r)
  BY <1>2, SteppedOn DEF Puts, Consumes, CreatesUser
<1>3. CASE Takes(r)
  <2> DEFINE m == IF Has(ceremonies, q.cid) THEN ceremonies[q.cid] ELSE [user |-> Gone]
             p == [q EXCEPT !.user = m.user, !.invite = m.invite, !.flag = m.admin, !.new = m.new]
  <2>1. q.op \in {"registerFinish", "addFinish", "loginFinish"} /\ q.at = 1
    BY <1>3, Standing DEF Takes, Places
  <2>2. CASE Passes(r) \/ Ends(r)
    BY <2>2, SteppedOn
  <2>3. CASE ~(Passes(r) \/ Ends(r))
    <3>1. q.op = "registerFinish" /\ PassesAs(r, p) /\ m.user # Gone
      BY <1>3, <2>3 DEF Takes, Passes
    <3>2. m \in Ceremony
      BY <3>1 DEF Has, TypeOK
    <3> HIDE DEF m
    <3>3. p \in Call /\ p.at = q.at /\ Alike(q, p)
      <4>1. p \in Call
        BY <1>0, <3>2 DEF Call, Ceremony
      <4>2. /\ p.at = q.at /\ p.op = q.op /\ p.session = q.session /\ p.line = q.line
        BY <1>0 DEF Call
      <4> HIDE DEF p
      <4> QED BY <2>1, <3>1, <4>1, <4>2 DEF Alike
    <3> QED BY <3>1, <3>3, SteppedAs
  <2> QED BY <2>2, <2>3
<1>4. CASE AddsKey(r)
  <2> DEFINE k == Some(Free(keys))
             p == [q EXCEPT !.key = k]
  <2>1. q.op \in {"registerFinish", "addFinish"} /\ q.at > 1
    BY <1>4, Standing DEF AddsKey, Places
  <2>2. CASE Lives(q.user)
    <3>1. k \in Keys
      BY <1>4, FreeOne DEF AddsKey, TypeOK
    <3> HIDE DEF k
    <3>2. p \in Call /\ p.at = q.at /\ Alike(q, p)
      BY <1>0, <2>1, <3>1 DEF Call, Alike
    <3>3. PassesAs(r, p)
      BY <1>4, <2>2 DEF AddsKey, k
    <3> QED BY <3>2, <3>3, SteppedAs
  <2>3. CASE ~Lives(q.user)
    BY <1>4, <2>3, SteppedOn DEF AddsKey
  <2> QED BY <2>2, <2>3
<1> QED BY <1>1, <1>2, <1>3, <1>4 DEF Enrols

LEMMA SignsInSteps ==
  ASSUME TypeOK, NEW r \in Requests, SignsIn(r)
  PROVE  Stepped(r)
<1> DEFINE q == req[r]
           p == [q EXCEPT !.user = keys[q.key].user]
<1>1. CASE FindsKey(r)
  <2>1. q.op = "loginFinish" /\ q.at = 2 /\ q \in Call
    BY <1>1, Standing DEF FindsKey, Places
  <2>2. CASE Has(keys, q.key)
    <3>1. keys[q.key] \in Key
      BY <2>2 DEF Has, TypeOK
    <3>2. p \in Call /\ p.at = q.at /\ Alike(q, p)
      BY <2>1, <3>1 DEF Call, Key, Alike
    <3>3. PassesAs(r, p)
      BY <1>1, <2>2 DEF FindsKey
    <3> QED BY <3>2, <3>3, SteppedAs
  <2>3. CASE ~Has(keys, q.key)
    BY <1>1, <2>3, SteppedOn DEF FindsKey
  <2> QED BY <2>2, <2>3
<1>2. CASE Looks(r) \/ OpensSession(r)
  BY <1>2, SteppedOn DEF Looks, Checks, OpensSession
<1> QED BY <1>1, <1>2 DEF SignsIn

LEMMA AdministersSteps ==
  ASSUME TypeOK, NEW r \in Requests, Administers(r)
  PROVE  Stepped(r)
<1> DEFINE q == req[r]
           a == q.who \in Admins
           p == [q EXCEPT !.flag = a]
<1>1. CASE Targets(r)
  <2>1. q.op = "deleteUser" /\ q.at = 1 /\ q \in Call
    BY <1>1, Standing DEF Targets, Places
  <2>2. CASE Lives(q.who)
    <3>1. a \in BOOLEAN
      OBVIOUS
    <3>2. PassesAs(r, p)
      BY <1>1, <2>2 DEF Targets
    <3> HIDE DEF a
    <3>3. p \in Call /\ p.at = q.at /\ Alike(q, p)
      BY <2>1, <3>1 DEF Call, Alike
    <3> QED BY <3>2, <3>3, SteppedAs
  <2>3. CASE ~Lives(q.who)
    BY <1>1, <2>3, SteppedOn DEF Targets
  <2> QED BY <2>2, <2>3
<1>2. CASE Mints(r) \/ Revokes(r) \/ Counts(r) \/ DropsUser(r)
  BY <1>2, SteppedOn DEF Mints, Revokes, Counts, Checks, DropsUser
<1> QED BY <1>1, <1>2 DEF Administers

LEMMA AuthorizesSteps ==
  ASSUME TypeOK, NEW r \in Requests, Authorizes(r)
  PROVE  Stepped(r)
<1> DEFINE q == req[r]
           p == [q EXCEPT !.user = lines[q.line].user]
<1>1. ASSUME NEW step, step \in {"redeem", "rotate"}, Redeems(r, step)
      PROVE  Stepped(r)
  <2>1. q.op \in {"exchange", "renew"} /\ q.at = 1 /\ q \in Call
    BY <1>1, Standing DEF Redeems, Places
  <2>2. CASE Found(q) /\ ~q.flag
    <3>1. lines[q.line] \in Line
      BY <2>2 DEF Found, Has, TypeOK
    <3>2. p \in Call /\ p.at = q.at /\ Alike(q, p)
      BY <2>1, <3>1 DEF Call, Line, Alike
    <3>3. PassesAs(r, p)
      BY <1>1, <2>2 DEF Redeems
    <3> QED BY <3>2, <3>3, SteppedAs
  <2>3. CASE ~(Found(q) /\ ~q.flag)
    BY <1>1, <2>3, SteppedOn DEF Redeems
  <2> QED BY <2>2, <2>3
<1>2. CASE ConsumeAuthorizationCode(r) \/ ConsumeRefreshToken(r)
  BY <1>1, <1>2 DEF ConsumeAuthorizationCode, ConsumeRefreshToken
<1>3. CASE Consents(r) \/ CreateAccessToken(r) \/ CreateRefreshToken(r)
  BY <1>3, SteppedOn DEF Consents, CreateAccessToken, CreateRefreshToken, Issues
<1> QED BY <1>2, <1>3 DEF Authorizes

LEMMA Steps ==
  ASSUME TypeOK, NEW r \in Requests, Does(r)
  PROVE  Stepped(r) /\ \A s \in Requests : Turns(s)
<1>1. ASSUME SignsOut(r) PROVE Stepped(r)
  <2>1. DeleteSession(r) => Passes(r)
    BY DEF DeleteSession, DeletesSessions
  <2>2. DeleteUserSessionsExcept(r) => Passes(r)
    BY DEF DeleteUserSessionsExcept, DeletesSessions
  <2>3. DeleteUserSessions(r) => Passes(r)
    BY DEF DeleteUserSessions, DeletesSessions
  <2>4. CutsTokens(r) => Passes(r)
    BY DEF CutsTokens
  <2>5. DropsKey(r) => Passes(r)
    BY DEF DropsKey
  <2> QED BY <1>1, <2>1, <2>2, <2>3, <2>4, <2>5, SteppedOn DEF SignsOut
<1>2. Stepped(r)
  BY <1>1, EnrolsSteps, SignsInSteps, AdministersSteps, AuthorizesSteps DEF Does
<1>3. Starts(Idle)
  BY IdleIs DEF Starts
<1> QED BY <1>2, <1>3 DEF Stepped, Turns

LEMMA DoesSound ==
  ASSUME TypeOK, Calling, Linked, Unborn, Enrolments, NEW r \in Requests, Does(r)
  PROVE  Sound' /\ Later
<1>1. CASE Enrols(r)
  BY <1>1, ReadsInviteSound, PutsSound, TakesSound, ConsumesSound, CreatesUserSound, AddsKeySound
    DEF Enrols
<1>2. CASE SignsIn(r)
  BY <1>2, FindsKeySound, LooksSound, OpensSessionSound DEF SignsIn
<1>3. CASE SignsOut(r)
  BY <1>3, DeleteSessionSound, DeleteUserSessionsExceptSound, DeleteUserSessionsSound,
    CutsTokensSound, DropsKeySound DEF SignsOut
<1>4. CASE Administers(r)
  BY <1>4, MintsSound, RevokesSound, TargetsSound, CountsSound, DropsUserSound DEF Administers
<1>5. CASE Authorizes(r)
  <2>1. ASSUME NEW step, step \in {"redeem", "rotate"}, Redeems(r, step) PROVE Sound' /\ Later
    BY <2>1, RedeemsSound
  <2> QED BY <1>5, <2>1, ConsentsSound, IssuesSound DEF Authorizes, ConsumeAuthorizationCode,
    ConsumeRefreshToken
<1> QED BY <1>1, <1>2, <1>3, <1>4, <1>5 DEF Does

\* What else may happen.
LEMMA Others ==
  ASSUME TypeOK, Lapses \/ Restarts \/ \E r \in Requests, q \in Asks : Begins(r, q)
  PROVE  \A s \in Requests : req'[s] = req[s] \/ Starts(req'[s])
<1>1. CASE Lapses
  BY <1>1 DEF Lapses, InviteLapses, SessionLapses, LineLapses, CeremonyLapses
<1>2. CASE Restarts
  BY <1>2, IdleIs DEF Restarts, Starts
<1>3. ASSUME NEW r \in Requests, NEW q \in Asks, Begins(r, q)
      PROVE  \A s \in Requests : req'[s] = req[s] \/ Starts(req'[s])
  <2> DEFINE p == [q EXCEPT !.user = Caller(q)]
  <2>1. InScript(p) /\ Moves(r, p) /\ Starts(p)
    BY <1>3, AskedFor DEF Starts
  <2> HIDE DEF p
  <2> QED BY <2>1, OneMoves
<1> QED BY <1>1, <1>2, <1>3

-----------------------------------------------------------------------------
(* Which step is whose, and which tables it leaves alone.                  *)

LEMMA Where ==
  ASSUME TypeOK, NEW r \in Requests, Does(r)
  PROVE  LET q == req[r] IN
           /\ q.op = "registerBegin" /\ q.at = 1 => ReadsInvite(r)
           /\ q.op = "registerFinish" /\ q.at = 1 => Takes(r)
           /\ q.op = "registerFinish" /\ q.at = 2 => Consumes(r)
           /\ q.op = "registerFinish" /\ q.at = 3 => CreatesUser(r)
           /\ q.op = "deleteUser" /\ q.at = 2 => Counts(r)
           /\ q.op = "deleteKey" /\ q.at = 1 => DeleteUserSessionsExcept(r)
           /\ q.op = "deleteKey" /\ q.at = 2 => DropsKey(r)
           /\ q.op = "logoutOthers" /\ q.at = 2 => CutsTokens(r)
           /\ q.op \in {"exchange", "renew"} /\ q.at = 1 =>
                ConsumeAuthorizationCode(r) \/ ConsumeRefreshToken(r)
<1> DEFINE q == req[r]
           Here(step) == Script[q.op][q.at] = step
<1>0. \A step : At(r, step) => Places(q.op, q.at, step)
  BY Standing
<1>1. CASE Enrols(r)
  <2>1. \/ ReadsInvite(r) /\ At(r, "invite")
        \/ Puts(r) /\ At(r, "put")
        \/ Takes(r) /\ At(r, "take")
        \/ Consumes(r) /\ At(r, "consume")
        \/ CreatesUser(r) /\ At(r, "user")
        \/ AddsKey(r) /\ At(r, "passkey")
    BY <1>1 DEF Enrols, ReadsInvite, Puts, Takes, Consumes, CreatesUser, AddsKey
  <2> QED BY <1>0, <2>1 DEF Places
<1>2. CASE SignsIn(r)
  <2>1. At(r, "find") \/ At(r, "account") \/ At(r, "keys") \/ At(r, "session")
    BY <1>2 DEF SignsIn, FindsKey, Looks, OpensSession
  <2> QED BY <1>0, <2>1 DEF Places
<1>3. CASE SignsOut(r)
  <2>1. DeleteSession(r) => At(r, "signOut")
    BY DEF DeleteSession, DeletesSessions
  <2>2. DeleteUserSessionsExcept(r) => At(r, "cutSessions")
    BY DEF DeleteUserSessionsExcept, DeletesSessions
  <2>3. DeleteUserSessions(r) => At(r, "cutAll")
    BY DEF DeleteUserSessions, DeletesSessions
  <2>4. CutsTokens(r) => At(r, "cutAccess") \/ At(r, "cutRefresh")
    BY DEF CutsTokens
  <2>5. DropsKey(r) => At(r, "dropKey")
    BY DEF DropsKey
  <2> QED BY <1>0, <1>3, <2>1, <2>2, <2>3, <2>4, <2>5 DEF SignsOut, Places
<1>4. CASE Administers(r)
  <2>1. Mints(r) => At(r, "mint")
    BY DEF Mints
  <2>2. Revokes(r) => At(r, "revoke")
    BY DEF Revokes
  <2>3. Targets(r) => At(r, "target")
    BY DEF Targets
  <2>4. Counts(r) => At(r, "count")
    BY DEF Counts
  <2>5. DropsUser(r) => At(r, "drop")
    BY DEF DropsUser
  <2> QED BY <1>0, <1>4, <2>1, <2>2, <2>3, <2>4, <2>5 DEF Administers, Places
<1>5. CASE Authorizes(r)
  <2>1. Consents(r) => At(r, "code")
    BY DEF Consents
  <2>2. ConsumeAuthorizationCode(r) => At(r, "redeem")
    BY DEF ConsumeAuthorizationCode, Redeems
  <2>3. ConsumeRefreshToken(r) => At(r, "rotate")
    BY DEF ConsumeRefreshToken, Redeems
  <2>4. CreateAccessToken(r) => At(r, "access")
    BY DEF CreateAccessToken, Issues
  <2>5. CreateRefreshToken(r) => At(r, "refresh")
    BY DEF CreateRefreshToken, Issues
  <2> QED BY <1>0, <1>5, <2>1, <2>2, <2>3, <2>4, <2>5 DEF Authorizes, Places
<1> QED BY <1>1, <1>2, <1>3, <1>4, <1>5 DEF Does

LEMMA SignsOutLeaves ==
  ASSUME NEW r \in Requests, SignsOut(r)
  PROVE  /\ UNCHANGED <<users, invites, ceremonies>>
         /\ lines' # lines => CutsTokens(r)
         /\ keys' # keys => DropsKey(r)
<1>1. DeleteSession(r) => UNCHANGED <<users, invites, ceremonies, keys, lines>>
  BY DEF DeleteSession, DeletesSessions
<1>2. DeleteUserSessionsExcept(r) => UNCHANGED <<users, invites, ceremonies, keys, lines>>
  BY DEF DeleteUserSessionsExcept, DeletesSessions
<1>3. DeleteUserSessions(r) => UNCHANGED <<users, invites, ceremonies, keys, lines>>
  BY DEF DeleteUserSessions, DeletesSessions
<1>4. CutsTokens(r) => UNCHANGED <<users, invites, ceremonies, keys>>
  BY DEF CutsTokens
<1>5. DropsKey(r) => UNCHANGED <<users, invites, ceremonies, lines>>
  BY DEF DropsKey
<1> QED BY <1>1, <1>2, <1>3, <1>4, <1>5 DEF SignsOut

LEMMA DoesLeaves ==
  ASSUME NEW r \in Requests, Does(r)
  PROVE  /\ users' = users \/ CreatesUser(r) \/ DropsUser(r)
         /\ invites' = invites \/ Consumes(r) \/ Mints(r) \/ Revokes(r) \/ DropsUser(r)
         /\ ceremonies' = ceremonies \/ Puts(r) \/ Takes(r)
         /\ keys' = keys \/ AddsKey(r) \/ DropsKey(r) \/ DropsUser(r)
         /\ \/ lines' = lines \/ CutsTokens(r) \/ Consents(r) \/ DropsUser(r)
            \/ ConsumeAuthorizationCode(r) \/ ConsumeRefreshToken(r)
            \/ CreateAccessToken(r) \/ CreateRefreshToken(r)
<1>1. CASE Enrols(r)
  BY <1>1 DEF Enrols, ReadsInvite, Puts, Takes, Consumes, CreatesUser, AddsKey, tables
<1>2. CASE SignsIn(r)
  BY <1>2 DEF SignsIn, FindsKey, Looks, OpensSession, tables
<1>3. CASE SignsOut(r)
  BY <1>3, SignsOutLeaves
<1>4. CASE Administers(r)
  <2>1. Mints(r) => UNCHANGED <<users, ceremonies, keys, lines>>
    BY DEF Mints
  <2>2. Revokes(r) => UNCHANGED <<users, ceremonies, keys, lines>>
    BY DEF Revokes
  <2>3. Targets(r) => UNCHANGED <<users, invites, ceremonies, keys, lines>>
    BY DEF Targets, tables
  <2>4. Counts(r) => UNCHANGED <<users, invites, ceremonies, keys, lines>>
    BY DEF Counts, tables
  <2>5. DropsUser(r) => UNCHANGED ceremonies
    BY DEF DropsUser
  <2> QED BY <1>4, <2>1, <2>2, <2>3, <2>4, <2>5 DEF Administers
<1>5. CASE Authorizes(r)
  <2>1. UNCHANGED <<users, invites, ceremonies, keys>>
    BY <1>5 DEF Authorizes, Consents, ConsumeAuthorizationCode, ConsumeRefreshToken, Redeems,
      CreateAccessToken, CreateRefreshToken, Issues
  <2> QED BY <1>5, <2>1 DEF Authorizes
<1> QED BY <1>1, <1>2, <1>3, <1>4, <1>5 DEF Does

\* Keys only come with AddsKey, and users only with CreatesUser.
LEMMA KeysStay ==
  ASSUME TypeOK, Calling, Linked, NEW r \in Requests, Does(r), ~AddsKey(r)
  PROVE  \A k \in Keys : Has(keys', k) => keys'[k] = keys[k]
<1>1. CASE keys' = keys
  BY <1>1
<1>2. CASE DropsKey(r)
  BY <1>2 DEF DropsKey, Without, Has
<1>3. CASE DropsUser(r)
  BY <1>3, Drops
<1> QED BY <1>1, <1>2, <1>3, DoesLeaves

LEMMA NoneStays ==
  ASSUME TypeOK, Calling, Linked, NEW r \in Requests, Does(r), ~CreatesUser(r)
  PROVE  \A u \in Users : users[u] = None => users'[u] = None
<1>1. CASE users' = users
  BY <1>1
<1>2. CASE DropsUser(r)
  <2>1. users[req[r].who] # None /\ \A v \in Users : users'[v] = IF v = req[r].who THEN Gone ELSE users[v]
    BY <1>2, Drops
  <2> QED BY <2>1
<1> QED BY <1>1, <1>2, DoesLeaves

-----------------------------------------------------------------------------
(* Accounts to come, and enrolments.                                       *)

\* A call that is as it was, is new, or has gone on, but not from its take.
Plods(s) ==
  \/ req'[s] = req[s] \/ Starts(req'[s])
  \/ Goes(req[s], req'[s]) /\ (req[s].op = "registerFinish" => req[s].at > 1)

LEMMA PlodsOn ==
  ASSUME TypeOK, NEW r \in Requests, Does(r), ~Takes(r)
  PROVE  \A s \in Requests : Plods(s)
<1>1. req[r].op = "registerFinish" => req[r].at > 1
  BY Where, Standing
<1>2. Stepped(r) /\ Starts(Idle)
  BY Steps, IdleIs DEF Starts
<1> QED BY <1>1, <1>2 DEF Plods, Stepped

\* No call comes to create an account but by taking an enrolment.
LEMMA CreatesStay ==
  ASSUME TypeOK, Calling, NEW s \in Requests, Plods(s), Creates(req'[s])
  PROVE  Creates(req[s]) /\ req'[s].user = req[s].user
<1>1. req[s].at \in Nat /\ Given(req[s])
  BY Standing DEF Calling, CallIn
<1>2. CASE req'[s] = req[s]
  BY <1>2
<1>3. CASE Starts(req'[s])
  BY <1>3 DEF Starts, Creates
<1>4. CASE Goes(req[s], req'[s]) /\ (req[s].op = "registerFinish" => req[s].at > 1)
  <2>1. req[s].op = "registerFinish"
    <3>1. req[s].op # "registerFinish" => req'[s].new = req[s].new
      BY <1>4 DEF Goes, Alike
    <3>2. req'[s].new
      BY DEF Creates
    <3>3. req[s].new => req[s].op = "registerFinish"
      BY <1>1 DEF Given
    <3> QED BY <3>1, <3>2, <3>3
  <2>2. req[s].at > 1
    BY <1>4, <2>1
  <2>3. req'[s].at = req[s].at + 1 /\ req'[s].user = req[s].user /\ req'[s].new = req[s].new
    BY <1>4, <2>1, <2>2 DEF Goes, Alike
  <2>4. req'[s].new /\ req'[s].at < 4
    BY DEF Creates
  <2> QED BY <1>1, <2>3, <2>4 DEF Creates
<1> QED BY <1>2, <1>3, <1>4 DEF Plods

LEMMA ToComeAreUsers ==
  ASSUME TypeOK, Calling, Enrolments
  PROVE  /\ \A m \in Ceremonies : Waits(m) => ceremonies[m].user \in Users
         /\ \A r \in Requests : Creates(req[r]) => req[r].user \in Users
<1>1. ASSUME NEW m \in Ceremonies, Waits(m) PROVE ceremonies[m].user \in Users
  BY <1>1 DEF Waits, Enrolments, Enrolled
<1>2. ASSUME NEW r \in Requests, Creates(req[r]) PROVE req[r].user \in Users
  <2>1. req[r].op = "registerFinish" /\ req[r].new /\ req[r].at # 1 /\ req[r].at \in Nat \ {0}
    BY <1>2, Standing DEF Calling, CallIn, Given, Creates
  <2>2. TakenIn(req[r], users, invites) /\ req[r].at > 1
    BY <2>1 DEF Calling, CallIn
  <2> QED BY <2>1, <2>2 DEF TakenIn, Enrolled
<1> QED BY <1>1, <1>2

LEMMA UnbornQuiet ==
  ASSUME TypeOK, Calling, Enrolments, Unborn,
         \A u \in Users : users[u] = None => users'[u] = None,
         \A m \in Ceremonies : ceremonies'[m] \in {ceremonies[m], None},
         \A s \in Requests : Creates(req'[s]) => Creates(req[s]) /\ req'[s].user = req[s].user
  PROVE  Unborn'
<1>1. \A m \in Ceremonies : Waits(m)' => Waits(m) /\ ceremonies'[m] = ceremonies[m]
  BY DEF Waits
<1>2. \A m \in Ceremonies : Waits(m) => ceremonies[m].user \in Users
  BY ToComeAreUsers
<1>3. \A r \in Requests : Creates(req[r]) => req[r].user \in Users
  BY ToComeAreUsers
<1>4. \A m \in Ceremonies : Waits(m)' => users'[ceremonies'[m].user] = None
  BY <1>1, <1>2 DEF Unborn
<1>5. \A m, n \in Ceremonies :
        Waits(m)' /\ Waits(n)' /\ ceremonies'[m].user = ceremonies'[n].user => m = n
  BY <1>1 DEF Unborn
<1>6. \A r \in Requests : Creates(req'[r]) => users'[req'[r].user] = None
  BY <1>3 DEF Unborn
<1>7. \A r, o \in Requests :
        Creates(req'[r]) /\ Creates(req'[o]) /\ req'[r].user = req'[o].user => r = o
  BY DEF Unborn
<1>8. \A r \in Requests, m \in Ceremonies :
        Creates(req'[r]) /\ Waits(m)' => req'[r].user # ceremonies'[m].user
  BY <1>1 DEF Unborn
<1> QED BY <1>4, <1>5, <1>6, <1>7, <1>8 DEF Unborn, Creates

\* put: what it leaves.
LEMMA PutDown ==
  ASSUME TypeOK, Calling, NEW r \in Requests, Puts(r)
  PROVE  \E m \in Ceremonies :
           LET q == req[r]  new == q.op = "registerBegin" /\ q.who = None IN
           /\ ceremonies[m] = None /\ ceremonies'[m] # None
           /\ ceremonies'[m].user = Subject(q) /\ ceremonies'[m].invite = q.invite
           /\ ceremonies'[m].admin = q.flag /\ ceremonies'[m].new = new
           /\ \A n \in Ceremonies : n # m => ceremonies'[n] = ceremonies[n]
           /\ new => Subject(q) \in FreeUsers
           /\ UNCHANGED tables
<1> DEFINE q == req[r]
           new == q.op = "registerBegin" /\ q.who = None
           c == [user |-> Subject(q), invite |-> q.invite, admin |-> q.flag, new |-> new]
           m == Some(FreeCids)
<1>1. m \in Ceremonies /\ ceremonies[m] = None
  BY FreeFits DEF Puts, FreeCids, Free, TypeOK
<1>2. (q.op = "registerBegin" /\ q.at = 3) \/ q.op \in {"addBegin", "loginBegin"}
  BY Standing DEF Puts, Places
<1>3. new => Subject(q) \in FreeUsers
  <2>1. new => FreeUsers # {}
    BY DEF Puts
  <2>2. ASSUME new PROVE Subject(q) = Some(FreeUsers)
    BY <2>2 DEF Subject
  <2> QED BY <2>1, <2>2, FreeFits
<1>4. c \in Ceremony
  <2>1. q \in Call
    BY Standing
  <2>2. Subject(q) \in Users \cup {None}
    BY <1>2, <2>1, FreeFits DEF Puts, Subject, FreeUsers, Free, TypeOK, Call
  <2> QED BY <2>1, <2>2 DEF Ceremony, Call
<1>5. ceremonies' = [ceremonies EXCEPT ![m] = c] /\ UNCHANGED tables
  BY DEF Puts
<1>6. c.user = Subject(q) /\ c.invite = q.invite /\ c.admin = q.flag /\ c.new = new
  OBVIOUS
<1> HIDE DEF m, c
<1>7. ceremonies'[m] = c /\ \A n \in Ceremonies : n # m => ceremonies'[n] = ceremonies[n]
  BY <1>1, <1>5 DEF TypeOK
<1>8. c # None
  BY <1>4, Distinct
<1> QED BY <1>1, <1>3, <1>5, <1>6, <1>7, <1>8

\* take: what was put is in the call's hands, if anything is.
LEMMA Taken ==
  ASSUME TypeOK, NEW r \in Requests, Takes(r)
  PROVE  /\ \A m \in Ceremonies : ceremonies'[m] \in {ceremonies[m], None}
         /\ \A s \in Requests \ {r} : req'[s] = req[s]
         /\ \/ req'[r] = Idle
            \/ /\ req[r].op # "registerFinish"
               /\ req'[r].op = req[r].op /\ req'[r].new = req[r].new
            \/ \E m \in Ceremonies :
                 /\ ceremonies[m] # None /\ ceremonies'[m] = None
                 /\ req'[r].op = "registerFinish" /\ req'[r].at = 2
                 /\ req'[r].user = ceremonies[m].user /\ req'[r].invite = ceremonies[m].invite
                 /\ req'[r].flag = ceremonies[m].admin /\ req'[r].new = ceremonies[m].new
<1> DEFINE q == req[r]
           m == IF Has(ceremonies, q.cid) THEN ceremonies[q.cid] ELSE [user |-> Gone]
           p == [q EXCEPT !.user = m.user, !.invite = m.invite, !.flag = m.admin, !.new = m.new]
           f == Following(p)
<1>1. q.op \in {"registerFinish", "addFinish", "loginFinish"} /\ q.at = 1 /\ InScript(q) /\ q \in Call
  BY Standing DEF Takes, Places
<1>2. \A n \in Ceremonies : ceremonies'[n] \in {ceremonies[n], None}
  BY DEF Takes, TypeOK, Has
<1>3. Stepped(r)
  BY EnrolsSteps DEF Enrols
<1>4. CASE q.op # "registerFinish"
  BY <1>2, <1>3, <1>4 DEF Stepped, Goes, Alike
<1>5. CASE q.op = "registerFinish" /\ req'[r] # Idle
  <2>1. ~Ends(r)
    BY <1>5 DEF Ends, TypeOK
  <2>2. m.user # Gone /\ PassesAs(r, p)
    BY <1>5, <2>1 DEF Takes
  <2>3. q.cid \in Ceremonies /\ m = ceremonies[q.cid] /\ m \in Ceremony
    BY <2>2 DEF Has, TypeOK
  <2>4. ceremonies[q.cid] # None /\ ceremonies'[q.cid] = None
    BY <2>2, <2>3, Distinct DEF Takes, Has, TypeOK
  <2> HIDE DEF m
  <2>5. /\ p \in Call /\ p.op = q.op /\ p.at = 1 /\ p.user = m.user /\ p.invite = m.invite
        /\ p.flag = m.admin /\ p.new = m.new
    BY <1>1, <2>3 DEF Call, Ceremony
  <2> HIDE DEF p
  <2>6. InScript(p)
    BY <1>1, <2>5 DEF InScript
  <2>7. Len(Script[p.op]) = 5
    BY <1>5, <2>5 DEF Script, handleRegisterFinish
  <2>8. p.at < Len(Script[p.op])
    BY <2>5, <2>7
  <2>9. f.at = p.at + 1 /\ f.op = p.op /\ f.user = p.user /\ f.flag = p.flag
        /\ f.invite = p.invite /\ f.new = p.new
    BY <2>6, <2>8, Advances
  <2>10. req'[r] = f
    BY <2>2 DEF PassesAs, TypeOK
  <2> HIDE DEF f
  <2> QED BY <1>2, <1>3, <1>5, <2>3, <2>4, <2>5, <2>9, <2>10 DEF Stepped
<1> QED BY <1>2, <1>3, <1>4, <1>5 DEF Stepped

LEMMA UnbornSteps ==
  ASSUME TypeOK, Calling, Linked, Enrolments, Unborn, NEW r \in Requests, Does(r)
  PROVE  Unborn'
<1>1. CASE Puts(r)
  <2> DEFINE q == req[r]
             new == q.op = "registerBegin" /\ q.who = None
  <2>1. PICK m \in Ceremonies :
           /\ ceremonies[m] = None /\ ceremonies'[m] # None
           /\ ceremonies'[m].user = Subject(q) /\ ceremonies'[m].new = new
           /\ \A n \in Ceremonies : n # m => ceremonies'[n] = ceremonies[n]
           /\ new => Subject(q) \in FreeUsers
           /\ users' = users
    BY <1>1, PutDown DEF tables
  <2> HIDE DEF new
  <2>2. ~Takes(r)
    BY <1>1 DEF Puts, Takes, At
  <2>3. \A s \in Requests : Creates(req'[s]) => Creates(req[s]) /\ req'[s].user = req[s].user
    BY <2>2, PlodsOn, CreatesStay
  <2>4. Waits(m)' => /\ Subject(q) \in FreeUsers
                     /\ ceremonies'[m].user = Subject(q)
    BY <2>1 DEF Waits
  <2>5. \A n \in Ceremonies : n # m => ceremonies'[n] = ceremonies[n] /\ (Waits(n)' = Waits(n))
    BY <2>1 DEF Waits
  <2>6. \A u \in FreeUsers :
          /\ users[u] = None
          /\ \A n \in Ceremonies : Waits(n) => ceremonies[n].user # u
          /\ \A s \in Requests : req[s].user # u
    BY DEF FreeUsers, Free, Waits
  <2>7. \A n \in Ceremonies : Waits(n)' => users'[ceremonies'[n].user] = None
    BY <2>1, <2>4, <2>5, <2>6 DEF Unborn
  <2>8. \A n, o \in Ceremonies :
          Waits(n)' /\ Waits(o)' /\ ceremonies'[n].user = ceremonies'[o].user => n = o
    BY <2>4, <2>5, <2>6 DEF Unborn
  <2>9. \A s \in Requests : Creates(req'[s]) => users'[req'[s].user] = None
    BY <2>1, <2>3 DEF Unborn
  <2>10. \A s, o \in Requests :
          Creates(req'[s]) /\ Creates(req'[o]) /\ req'[s].user = req'[o].user => s = o
    BY <2>3 DEF Unborn
  <2>11. \A s \in Requests, n \in Ceremonies :
          Creates(req'[s]) /\ Waits(n)' => req'[s].user # ceremonies'[n].user
    BY <2>3, <2>4, <2>5, <2>6 DEF Unborn
  <2> QED BY <2>7, <2>8, <2>9, <2>10, <2>11 DEF Unborn, Creates
<1>2. CASE Takes(r)
  <2>1. users' = users
    BY <1>2 DEF Takes, tables
  <2>2. \A m \in Ceremonies : ceremonies'[m] \in {ceremonies[m], None}
    BY <1>2, Taken
  <2>3. \A m \in Ceremonies : Waits(m)' => Waits(m) /\ ceremonies'[m] = ceremonies[m]
    BY <2>2 DEF Waits
  <2>4. CASE Creates(req'[r])
    <3>1. Given(req[r]) /\ ~Creates(Idle)
      BY IdleIs DEF Calling, CallIn, Creates
    <3>2. PICK m \in Ceremonies :
            /\ ceremonies[m] # None /\ ceremonies'[m] = None
            /\ req'[r].user = ceremonies[m].user /\ req'[r].new = ceremonies[m].new
      BY <1>2, <2>4, <3>1, Taken DEF Given, Creates
    <3>3. Waits(m) /\ ~Waits(m)'
      BY <2>4, <3>2 DEF Waits, Creates
    <3>4. \A s \in Requests \ {r} : req'[s] = req[s]
      BY <1>2, Taken
    <3>5. \A n \in Ceremonies : Waits(n)' => users'[ceremonies'[n].user] = None
      BY <2>1, <2>3 DEF Unborn
    <3>6. \A n, o \in Ceremonies :
            Waits(n)' /\ Waits(o)' /\ ceremonies'[n].user = ceremonies'[o].user => n = o
      BY <2>3 DEF Unborn
    <3>7. \A s \in Requests : Creates(req'[s]) => users'[req'[s].user] = None
      BY <2>1, <3>2, <3>3, <3>4 DEF Unborn
    <3>8. \A s, o \in Requests :
            Creates(req'[s]) /\ Creates(req'[o]) /\ req'[s].user = req'[o].user => s = o
      BY <3>2, <3>3, <3>4 DEF Unborn
    <3>9. \A s \in Requests, n \in Ceremonies :
            Creates(req'[s]) /\ Waits(n)' => req'[s].user # ceremonies'[n].user
      BY <2>3, <3>2, <3>3, <3>4 DEF Unborn
    <3> QED BY <3>5, <3>6, <3>7, <3>8, <3>9 DEF Unborn, Creates
  <2>5. CASE ~Creates(req'[r])
    <3>1. \A s \in Requests : Creates(req'[s]) => Creates(req[s]) /\ req'[s].user = req[s].user
      BY <1>2, <2>5, Taken
    <3> QED BY <2>1, <2>2, <3>1, UnbornQuiet
  <2> QED BY <2>4, <2>5
<1>3. CASE CreatesUser(r)
  <2>1. ~Takes(r)
    BY <1>3 DEF CreatesUser, Takes, At
  <2>2. \A s \in Requests : Creates(req'[s]) => Creates(req[s]) /\ req'[s].user = req[s].user
    BY <2>1, PlodsOn, CreatesStay
  <2>3. req[r].op = "registerFinish" /\ req[r].at = 3
    BY <1>3, Standing DEF CreatesUser, Places
  <2>4. ~Creates(req'[r])
    <3>1. Stepped(r) /\ ~Creates(Idle)
      BY Steps, IdleIs DEF Creates
    <3> QED BY <2>3, <3>1 DEF Stepped, Goes, Creates
  <2>5. ceremonies' = ceremonies
    BY <1>3 DEF CreatesUser
  <2>6. \A u \in Users : (req[r].new => u # req[r].user) => users'[u] = users[u]
    BY <1>3 DEF CreatesUser, TypeOK
  <2>7. \A m \in Ceremonies : Waits(m) => ceremonies[m].user \in Users
    BY ToComeAreUsers
  <2>8. \A s \in Requests : Creates(req[s]) => req[s].user \in Users
    BY ToComeAreUsers
  <2>9. req[r].new => Creates(req[r])
    BY <2>3 DEF Creates
  <2>10. \A n \in Ceremonies : Waits(n)' => users'[ceremonies'[n].user] = None
    BY <2>5, <2>6, <2>7, <2>9 DEF Unborn, Waits
  <2>11. \A s \in Requests : Creates(req'[s]) => users'[req'[s].user] = None
    <3> SUFFICES ASSUME NEW s \in Requests, Creates(req'[s]) PROVE users'[req[s].user] = None
      BY <2>2
    <3>1. s # r /\ Creates(req[s]) /\ req[s].user \in Users /\ users[req[s].user] = None
      BY <2>2, <2>4, <2>8 DEF Unborn
    <3>2. req[r].new => req[s].user # req[r].user
      BY <2>9, <3>1 DEF Unborn
    <3> QED BY <2>6, <3>1, <3>2
  <2>12. \A n, o \in Ceremonies :
          Waits(n)' /\ Waits(o)' /\ ceremonies'[n].user = ceremonies'[o].user => n = o
    BY <2>5 DEF Unborn, Waits
  <2>13. \A s, o \in Requests :
          Creates(req'[s]) /\ Creates(req'[o]) /\ req'[s].user = req'[o].user => s = o
    BY <2>2 DEF Unborn
  <2>14. \A s \in Requests, n \in Ceremonies :
          Creates(req'[s]) /\ Waits(n)' => req'[s].user # ceremonies'[n].user
    BY <2>2, <2>5 DEF Unborn, Waits
  <2> QED BY <2>10, <2>11, <2>12, <2>13, <2>14 DEF Unborn, Creates
<1>4. CASE ~Puts(r) /\ ~Takes(r) /\ ~CreatesUser(r)
  <2>1. \A u \in Users : users[u] = None => users'[u] = None
    BY <1>4, NoneStays
  <2>2. ceremonies' = ceremonies
    BY <1>4, DoesLeaves
  <2>3. \A s \in Requests : Creates(req'[s]) => Creates(req[s]) /\ req'[s].user = req[s].user
    BY <1>4, PlodsOn, CreatesStay
  <2> QED BY <2>1, <2>2, <2>3, UnbornQuiet
<1> QED BY <1>1, <1>2, <1>3, <1>4

LEMMA EnrolledStays ==
  ASSUME NEW q, q.invite \in Invites \cup {None}, Enrolled(q, invites), InvitesGo
  PROVE  Enrolled(q, invites')
<1>1. CASE q.invite = None
  BY <1>1 DEF Enrolled
<1>2. CASE q.invite # None
  <2>1. ASSUME NEW i \in Invites, i = q.invite
        PROVE  /\ invites'[i] # None
               /\ invites'[i] # Gone =>
                    /\ invites[i] # Gone /\ invites'[i].for = invites[i].for
                    /\ invites'[i].admin = invites[i].admin
    BY <1>2, <2>1, Distinct DEF Enrolled, InvitesGo
  <2>2. q.invite \in Invites
    BY <1>2
  <2> QED BY <1>2, <2>1, <2>2 DEF Enrolled
<1> QED BY <1>1, <1>2

Put(c) == [user |-> c.user, invite |-> c.invite, flag |-> c.admin, new |-> c.new]

LEMMA EnrolmentsQuiet ==
  ASSUME TypeOK, Enrolments, Later, \A m \in Ceremonies : ceremonies'[m] \in {ceremonies[m], None}
  PROVE  Enrolments'
<1> SUFFICES ASSUME NEW m \in Ceremonies, ceremonies'[m] # None
             PROVE  Enrolled(Put(ceremonies'[m]), invites')
  BY DEF Enrolments, Put, Enrolled
<1> DEFINE c == Put(ceremonies[m])
<1>1. ceremonies'[m] = ceremonies[m] /\ ceremonies[m] # None
  OBVIOUS
<1>2. c.invite \in Invites \cup {None}
  BY <1>1 DEF TypeOK, Ceremony, Put
<1>3. Enrolled(c, invites)
  BY <1>1 DEF Enrolments, Put
<1> HIDE DEF c
<1>4. Enrolled(c, invites')
  BY <1>2, <1>3, EnrolledStays DEF Later
<1> QED BY <1>1, <1>4 DEF c

LEMMA EnrolmentsSteps ==
  ASSUME TypeOK, Calling, Enrolments, Later, NEW r \in Requests, Does(r)
  PROVE  Enrolments'
<1>1. CASE Puts(r)
  <2> DEFINE q == req[r]
             new == q.op = "registerBegin" /\ q.who = None
  <2>1. PICK m \in Ceremonies :
           /\ ceremonies[m] = None /\ ceremonies'[m] # None
           /\ ceremonies'[m].user = Subject(q) /\ ceremonies'[m].invite = q.invite
           /\ ceremonies'[m].admin = q.flag /\ ceremonies'[m].new = new
           /\ \A n \in Ceremonies : n # m => ceremonies'[n] = ceremonies[n]
           /\ new => Subject(q) \in FreeUsers
           /\ UNCHANGED tables
    BY <1>1, PutDown
  <2>2. (q.op = "registerBegin" /\ q.at = 3) \/ q.op \in {"addBegin", "loginBegin"}
    BY <1>1, Standing DEF Puts, Places
  <2>3. Given(q) /\ ReadIn(q, invites)
    BY DEF Calling, CallIn
  <2>4. invites' = invites
    BY <2>1 DEF tables
  <2> DEFINE c == Put(ceremonies'[m])
  <2>5. /\ c.user = Subject(q) /\ c.invite = q.invite /\ c.flag = q.flag /\ c.new = new
    BY <2>1 DEF Put
  <2>6. Enrolled(c, invites')
    <3>1. CASE q.op = "registerBegin"
      <4>1. q.invite # None /\ invites[q.invite] # None
            /\ (invites[q.invite] # Gone => q.flag = invites[q.invite].admin /\ q.who = invites[q.invite].for)
        BY <2>2, <3>1, <2>3 DEF ReadIn
      <4>2. q.who # None => Subject(q) = q.who
        BY <3>1 DEF Subject
      <4>3. q.who = None => Subject(q) \in Users
        BY <2>1, <3>1 DEF FreeUsers, Free, TypeOK
      <4> HIDE DEF c
      <4>4. c.new = (q.who = None)
        BY <2>5, <3>1
      <4> QED BY <2>4, <2>5, <4>1, <4>2, <4>3, <4>4 DEF Enrolled
    <3>2. CASE q.op # "registerBegin"
      <4>1. q.invite = None
        BY <2>2, <2>3, <3>2 DEF Given
      <4>2. ~new
        BY <3>2
      <4> HIDE DEF c, new
      <4> QED BY <2>5, <4>1, <4>2 DEF Enrolled
    <3> QED BY <3>1, <3>2
  <2>7. ASSUME NEW n \in Ceremonies, ceremonies'[n] # None
        PROVE  Enrolled(Put(ceremonies'[n]), invites')
    <3>1. CASE n = m
      BY <2>6, <3>1
    <3>2. CASE n # m
      <4>1. ceremonies'[n] = ceremonies[n]
        BY <2>1, <3>2
      <4> QED BY <2>4, <2>7, <4>1 DEF Enrolments, Put
    <3> QED BY <3>1, <3>2
  <2> HIDE DEF c
  <2> QED BY <2>7 DEF Enrolments, Put, Enrolled
<1>2. CASE ~Puts(r)
  <2>1. \A m \in Ceremonies : ceremonies'[m] \in {ceremonies[m], None}
    BY <1>2, DoesLeaves, Taken
  <2> QED BY <2>1, EnrolmentsQuiet
<1> QED BY <1>1, <1>2

-----------------------------------------------------------------------------
(* Before there is an account.                                             *)

\* A call that knows the rights of whom it is to create.
Knows(q) ==
  \/ q.op = "registerBegin" /\ q.at > 1
  \/ q.op = "registerFinish" /\ q.at > 1 /\ q.new
Nobody == \A u \in Users : users[u] = None

LEMMA NobodyQuiet ==
  ASSUME TypeOK, Later, NobodyYet,
         Nobody /\ Nobody' =>
           /\ \A i \in Invites : Has(invites', i) =>
                invites'[i].admin \/ (Has(invites, i) /\ invites'[i].admin = invites[i].admin)
           /\ \A m \in Ceremonies : Waits(m)' =>
                ceremonies'[m].admin \/ (Waits(m) /\ ceremonies'[m] = ceremonies[m])
           /\ \A s \in Requests : Knows(req'[s]) =>
                req'[s].flag \/ (Knows(req[s]) /\ req'[s].flag = req[s].flag)
  PROVE  NobodyYet'
<1> SUFFICES ASSUME Nobody'
             PROVE  /\ \A i \in Invites : Has(invites', i) => invites'[i].admin
                    /\ \A m \in Ceremonies : Waits(m)' => ceremonies'[m].admin
                    /\ \A s \in Requests : Knows(req'[s]) => req'[s].flag
  BY DEF NobodyYet, Nobody, Knows, Has, Waits
<1>1. Nobody
  BY Distinct DEF Nobody, Later, UsersGo
<1>2. /\ \A i \in Invites : Has(invites, i) => invites[i].admin
      /\ \A m \in Ceremonies : Waits(m) => ceremonies[m].admin
      /\ \A s \in Requests : Knows(req[s]) => req[s].flag
  BY <1>1 DEF NobodyYet, Nobody, Knows
<1> QED BY <1>1, <1>2

LEMMA KnowsStays ==
  ASSUME TypeOK, Calling, NEW r \in Requests, Does(r), ~ReadsInvite(r), ~Takes(r)
  PROVE  \A s \in Requests : Knows(req'[s]) => Knows(req[s]) /\ req'[s].flag = req[s].flag
<1>1. /\ req[r].op \in {"registerBegin", "registerFinish"} => req[r].at > 1
      /\ req[r].at \in Nat \ {0}
  BY Where, Standing
<1>2. Stepped(r) /\ ~Knows(Idle)
  BY Steps, IdleIs DEF Knows
<1>3. ASSUME Goes(req[r], req'[r]), Knows(req'[r])
      PROVE  Knows(req[r]) /\ req'[r].flag = req[r].flag
  <2>1. req'[r].op = req[r].op /\ req[r].op \in {"registerBegin", "registerFinish"}
    BY <1>3 DEF Goes, Alike, Knows
  <2>2. req[r].at > 1 /\ req'[r].flag = req[r].flag /\ req'[r].new = req[r].new
    BY <1>1, <1>3, <2>1 DEF Goes, Alike
  <2> QED BY <1>3, <2>1, <2>2 DEF Knows
<1> QED BY <1>2, <1>3 DEF Stepped

LEMMA NobodySteps ==
  ASSUME TypeOK, Calling, Linked, Enrolments, NobodyYet, Later, NEW r \in Requests, Does(r)
  PROVE  NobodyYet'
<1>1. \A u : Lives(u) => ~Nobody
  BY Distinct DEF Lives, Nobody
<1>2. Nobody => \A i \in Invites : Has(invites', i) => Has(invites, i) /\ invites'[i].admin = invites[i].admin
  <2>1. CASE invites' = invites
    BY <2>1 DEF Has
  <2>2. CASE Consumes(r)
    <3>1. \A i \in Invites : invites[i] = None => invites'[i] = None
      BY <2>2 DEF Consumes, Unspent, Has, TypeOK
    <3> QED BY <3>1 DEF Later, InvitesGo, Has, TypeOK
  <2>3. CASE Mints(r)
    <3>1. Nobody => invites' = invites
      BY <1>1, <2>3 DEF Mints
    <3> QED BY <3>1 DEF Has
  <2>4. CASE Revokes(r)
    BY <2>4 DEF Revokes, Without, Has
  <2>5. CASE DropsUser(r)
    <3>1. \A i \in Invites : Has(invites', i) => invites'[i] = invites[i]
      BY <2>5, Drops
    <3> QED BY <3>1 DEF Has, TypeOK
  <2> QED BY <2>1, <2>2, <2>3, <2>4, <2>5, DoesLeaves
<1>3. Nobody =>
        /\ \A i \in Invites : Has(invites, i) => invites[i].admin
        /\ \A m \in Ceremonies : Waits(m) => ceremonies[m].admin
        /\ \A s \in Requests : Knows(req[s]) => req[s].flag
  BY DEF NobodyYet, Nobody, Knows
<1>4. Nobody =>
        \A m \in Ceremonies : Waits(m)' =>
          ceremonies'[m].admin \/ (Waits(m) /\ ceremonies'[m] = ceremonies[m])
  <2>1. CASE Puts(r)
    <3> DEFINE q == req[r]
               new == q.op = "registerBegin" /\ q.who = None
    <3>1. PICK m \in Ceremonies :
            /\ ceremonies'[m].admin = q.flag /\ ceremonies'[m].new = new
            /\ \A n \in Ceremonies : n # m => ceremonies'[n] = ceremonies[n]
      BY <2>1, PutDown
    <3>2. new => Knows(q)
      BY <2>1, Standing DEF Puts, Places, Knows
    <3> HIDE DEF new
    <3>3. ASSUME Nobody, Waits(m)' PROVE ceremonies'[m].admin
      BY <1>3, <3>1, <3>2, <3>3 DEF Waits
    <3>4. \A n \in Ceremonies : n # m /\ Waits(n)' => Waits(n) /\ ceremonies'[n] = ceremonies[n]
      BY <3>1 DEF Waits
    <3> QED BY <3>3, <3>4
  <2>2. CASE ~Puts(r)
    <3>1. \A m \in Ceremonies : ceremonies'[m] \in {ceremonies[m], None}
      BY <2>2, DoesLeaves, Taken
    <3> QED BY <3>1 DEF Waits
  <2> QED BY <2>1, <2>2
<1>5. Nobody =>
        \A s \in Requests : Knows(req'[s]) =>
          req'[s].flag \/ (Knows(req[s]) /\ req'[s].flag = req[s].flag)
  <2>1. CASE ReadsInvite(r)
    <3> DEFINE q == req[r]
    <3>1. q.op = "registerBegin" /\ q.at = 1
      BY <2>1, Standing DEF ReadsInvite, Places
    <3>2. Stepped(r) /\ ~Knows(Idle)
      BY Steps, IdleIs DEF Knows
    <3>3. ASSUME Nobody, Knows(req'[r]) PROVE req'[r].flag
      <4>1. Sound' /\ req'[r].op = "registerBegin" /\ req'[r].at > 1
        BY <2>1, <3>1, <3>2, <3>3, ReadsInviteSound DEF Stepped, Goes, Alike, Knows
      <4>2. /\ req'[r].invite # None /\ invites'[req'[r].invite] # None
            /\ invites'[req'[r].invite] # Gone => req'[r].flag = invites'[req'[r].invite].admin
        BY <4>1 DEF Sound, Calling, CallIn, ReadIn
      <4>3. ~Ends(r) /\ invites' = invites
        BY <2>1, <3>2, <3>3 DEF Ends, TypeOK, ReadsInvite, tables
      <4>4. Unspent(q.invite) /\ req'[r].invite = q.invite
        BY <2>1, <3>1, <3>2, <3>3, <4>3 DEF ReadsInvite, Stepped, Goes, Alike
      <4>5. Has(invites, q.invite) /\ q.invite \in Invites
        BY <4>4 DEF Unspent, Has, TypeOK
      <4> QED BY <1>3, <3>3, <4>2, <4>3, <4>4, <4>5 DEF Has
    <3> QED BY <3>2, <3>3 DEF Stepped
  <2>2. CASE Takes(r)
    <3>1. ~Knows(Idle)
      BY IdleIs DEF Knows
    <3>2. ASSUME Nobody, Knows(req'[r]) PROVE req'[r].flag
      <4>1. req[r].op \in {"registerFinish", "addFinish", "loginFinish"}
        BY <2>2, Standing DEF Takes, Places
      <4>2. PICK m \in Ceremonies :
              /\ ceremonies[m] # None /\ req'[r].op = "registerFinish"
              /\ req'[r].flag = ceremonies[m].admin /\ req'[r].new = ceremonies[m].new
        BY <2>2, <3>1, <3>2, <4>1, Taken DEF Knows
      <4>3. Waits(m)
        BY <3>2, <4>2 DEF Knows, Waits
      <4> QED BY <1>3, <3>2, <4>2, <4>3
    <3>3. \A s \in Requests \ {r} : req'[s] = req[s]
      BY <2>2, Taken
    <3> QED BY <3>2, <3>3
  <2>3. CASE ~ReadsInvite(r) /\ ~Takes(r)
    BY <2>3, KnowsStays
  <2> QED BY <2>1, <2>2, <2>3
<1> QED BY <1>2, <1>4, <1>5, NobodyQuiet

-----------------------------------------------------------------------------
(* What an invite has paid for.                                            *)

\* A passkey that is paid for stays with whom it was for.
Fits(k, i) ==
  /\ invites[i] # None
  /\ Has(invites, i) =>
       /\ invites[i].used
       /\ IF invites[i].for # None THEN keys[k].user = invites[i].for
          ELSE (users[keys[k].user] = "admin") = invites[i].admin

LEMMA FitsStays ==
  ASSUME TypeOK, Linked, Later, Linked', NEW k \in Keys, NEW i \in Invites,
         Has(keys, k), Has(keys', k), keys'[k] = keys[k], Fits(k, i)
  PROVE  Fits(k, i)'
<1>1. keys[k] \in Key
  BY DEF Has, TypeOK
<1>2. PICK u \in Users : u = keys[k].user
  BY <1>1 DEF Key
<1>3. users[u] \in Rights /\ users'[u] \in Rights
  BY <1>2 DEF Linked, Lives
<1>4. users'[u] = users[u]
  BY <1>3, Distinct DEF Later, UsersGo
<1>5. invites'[i] # None
  BY Distinct DEF Fits, Later, InvitesGo
<1>6. ASSUME Has(invites', i)
      PROVE  /\ Has(invites, i) /\ invites'[i].for = invites[i].for
             /\ invites'[i].admin = invites[i].admin /\ invites'[i].used
  BY <1>6 DEF Fits, Later, InvitesGo, Has, TypeOK
<1> QED BY <1>2, <1>4, <1>5, <1>6 DEF Fits

LEMMA PaidQuiet ==
  ASSUME TypeOK, Linked, Later, Linked', PaidOut,
         \A k \in Keys : Has(keys', k) => keys'[k] = keys[k],
         \A i \in Invites, s \in Requests : Pays(s, i)' => Pays(s, i)
  PROVE  PaidOut'
<1>1. \A k \in Keys, i \in Invites : Paid(k, i)' => Paid(k, i) /\ Has(keys, k) /\ Has(keys', k)
  BY DEF Paid, Has, TypeOK
<1>2. ASSUME NEW i \in Invites, NEW k \in Keys, Paid(k, i)'
      PROVE  Fits(k, i)'
  <2>1. Paid(k, i) /\ Has(keys, k) /\ Has(keys', k) /\ keys'[k] = keys[k]
    BY <1>1, <1>2
  <2>2. Fits(k, i)
    BY <2>1 DEF PaidOut, Fits
  <2> QED BY <2>1, <2>2, FitsStays
<1>3. \A i \in Invites :
        /\ \A k \in Keys, r \in Requests : ~(Paid(k, i)' /\ Pays(r, i)')
        /\ \A k, n \in Keys : Paid(k, i)' /\ Paid(n, i)' => k = n
        /\ \A r, o \in Requests : Pays(r, i)' /\ Pays(o, i)' => r = o
  BY <1>1 DEF PaidOut
<1> QED BY <1>2, <1>3 DEF PaidOut, Fits, Paid, Pays

LEMMA PaysStay ==
  ASSUME TypeOK, NEW r \in Requests, Does(r), ~Consumes(r)
  PROVE  \A i \in Invites, s \in Requests : Pays(s, i)' => Pays(s, i)
<1>1. Stepped(r) /\ ~(\E i : Idle.op = "registerFinish")
  BY Steps, IdleIs
<1>2. req[r].op = "registerFinish" => req[r].at # 2
  BY Where
<1>3. req[r].at \in Nat \ {0}
  BY Standing
<1>4. ASSUME NEW i \in Invites, Pays(r, i)', Goes(req[r], req'[r]) PROVE Pays(r, i)
  <2>1. req'[r].op = req[r].op /\ req'[r].at = req[r].at + 1 /\ req[r].op = "registerFinish"
        /\ req'[r].at \in {3, 4} /\ req'[r].invite = i
    BY <1>4 DEF Pays, Goes, Alike
  <2>2. req[r].at = 3
    BY <1>2, <1>3, <2>1
  <2>3. req[r].invite = i
    BY <1>4, <2>1, <2>2 DEF Goes, Alike
  <2> QED BY <2>1, <2>2, <2>3 DEF Pays
<1> QED BY <1>1, <1>4 DEF Stepped, Pays

LEMMA PaidSteps ==
  ASSUME TypeOK, Calling, Linked, Later, Linked', PaidOut, NEW r \in Requests, Does(r)
  PROVE  PaidOut'
<1> DEFINE q == req[r]
<1>1. CASE Consumes(r)
  <2>1. q.op = "registerFinish" /\ q.at = 2
    BY <1>1, Standing DEF Consumes, Places
  <2>2. keys' = keys
    BY <1>1 DEF Consumes
  <2>3. CASE ~Unspent(q.invite)
    <3>1. Ends(r)
      BY <1>1, <2>3 DEF Consumes
    <3>2. \A i \in Invites, s \in Requests : Pays(s, i)' => Pays(s, i)
      BY <3>1, IdleIs DEF Ends, Pays, TypeOK
    <3> QED BY <2>2, <3>2, PaidQuiet
  <2>4. CASE Unspent(q.invite)
    <3> DEFINE i == q.invite
    <3>1. i \in Invites /\ Has(invites, i) /\ ~invites[i].used
      BY <2>4 DEF Unspent, Has, TypeOK
    <3>2. \A k \in Keys : ~Paid(k, i)
      BY <3>1 DEF PaidOut
    <3>3. \A s \in Requests : ~Pays(s, i)
      <4> SUFFICES ASSUME NEW s \in Requests, Pays(s, i) PROVE FALSE
        OBVIOUS
      <4>1. TakenIn(req[s], users, invites)
        BY DEF Calling, CallIn
      <4> QED BY <3>1, <4>1 DEF Pays, TakenIn, Has
    <3>4. Stepped(r)
      BY Steps
    <3>5. \A j \in Invites, s \in Requests : Pays(s, j)' => Pays(s, j) \/ (s = r /\ j = i)
      <4>1. \A s \in Requests \ {r} : req'[s] = req[s]
        BY <3>4 DEF Stepped
      <4>2. \A j \in Invites : Pays(r, j)' => j = i
        BY <2>1, <3>4, IdleIs DEF Stepped, Goes, Alike, Pays
      <4> QED BY <4>1, <4>2 DEF Pays
    <3>6. \A k \in Keys, j \in Invites : Paid(k, j)' = Paid(k, j)
      BY <2>2 DEF Paid, Has
    <3>7. ASSUME NEW j \in Invites, NEW k \in Keys, Paid(k, j)'
          PROVE  Fits(k, j)'
      <4>1. Paid(k, j) /\ Has(keys, k) /\ Has(keys', k) /\ keys'[k] = keys[k]
        BY <2>2, <3>6, <3>7 DEF Paid, Has
      <4>2. Fits(k, j)
        BY <4>1 DEF PaidOut, Fits
      <4> QED BY <4>1, <4>2, FitsStays
    <3> HIDE DEF i
    <3>8. \A j \in Invites :
            /\ \A k \in Keys, s \in Requests : ~(Paid(k, j)' /\ Pays(s, j)')
            /\ \A k, n \in Keys : Paid(k, j)' /\ Paid(n, j)' => k = n
            /\ \A s, o \in Requests : Pays(s, j)' /\ Pays(o, j)' => s = o
      BY <3>2, <3>3, <3>5, <3>6 DEF PaidOut
    <3> QED BY <3>7, <3>8 DEF PaidOut, Fits, Paid, Pays
  <2> QED BY <2>3, <2>4
<1>2. CASE AddsKey(r) /\ Lives(q.user)
  <2> DEFINE k == Some(Free(keys))
             new == [user |-> q.user, by |-> q.invite]
             i == q.invite
  <2>1. /\ \/ q.op = "registerFinish" /\ q.at = 4
           \/ q.op = "addFinish" /\ q.at = 2
        /\ q \in Call
    BY <1>2, Standing DEF AddsKey, Places
  <2>2. k \in Keys /\ keys[k] = None
    BY <1>2, FreeOne DEF AddsKey, TypeOK
  <2>3. keys' = [keys EXCEPT ![k] = new] /\ UNCHANGED <<users, invites>>
    BY <1>2 DEF AddsKey
  <2>4. new.user = q.user /\ new.by = i
    OBVIOUS
  <2> HIDE DEF k, new
  <2>5. keys'[k] = new /\ \A n \in Keys : n # k => keys'[n] = keys[n]
    BY <2>2, <2>3 DEF TypeOK
  <2>6. \A n \in Keys, j \in Invites :
          Paid(n, j)' => (n # k /\ Paid(n, j)) \/ (n = k /\ j = i)
    <3>1. DOMAIN keys' = DOMAIN keys
      BY <2>3
    <3> QED BY <2>4, <2>5, <3>1 DEF Paid, Has
  <2>7. ~Consumes(r)
    BY <1>2 DEF AddsKey, Consumes, At
  <2>8. \A j \in Invites, s \in Requests : Pays(s, j)' => Pays(s, j)
    BY <2>7, PaysStay
  <2>9. Stepped(r)
    BY Steps
  <2>10. \A j \in Invites : ~Pays(r, j)'
    BY <2>1, <2>9, IdleIs DEF Stepped, Goes, Alike, Pays
  <2>11. i \in Invites => q.op = "registerFinish" /\ Pays(r, i)
    <3>1. Given(q)
      BY DEF Calling, CallIn
    <3>2. i \in Invites => q.op = "registerFinish"
      BY <2>1, <3>1, Distinct DEF Given
    <3> QED BY <2>1, <3>2 DEF Pays
  <2>12. ASSUME NEW j \in Invites, NEW n \in Keys, j = i, n = k
         PROVE  Fits(n, j)'
    <3>1. TakenIn(q, users, invites) /\ q.op = "registerFinish" /\ q.at = 4
      BY <2>1, <2>11, <2>12 DEF Calling, CallIn
    <3>2. /\ invites[j] # None
          /\ invites[j] # Gone =>
               /\ invites[j].used /\ q.flag = invites[j].admin
               /\ IF q.new THEN invites[j].for = None
                  ELSE invites[j].for # None /\ q.user = invites[j].for
      BY <2>12, <3>1, Distinct DEF TakenIn, Enrolled
    <3>3. q.new => (users[q.user] = "admin") = q.flag
      BY <1>2, <3>1, Distinct DEF TakenIn, Lives
    <3>4. invites' = invites /\ users' = users
      BY <2>3
    <3>5. keys'[n].user = q.user
      BY <2>4, <2>5, <2>12
    <3>6. Has(invites', j) => invites[j] # Gone
      BY <3>4 DEF Has
    <3>7. Has(invites', j) /\ invites[j].for = None => (users[q.user] = "admin") = invites[j].admin
      BY <3>2, <3>3, <3>6
    <3>8. Has(invites', j) /\ invites[j].for # None => q.user = invites[j].for
      BY <3>2, <3>6
    <3> HIDE DEF q, i
    <3> QED BY <3>2, <3>4, <3>5, <3>6, <3>7, <3>8 DEF Fits
  <2>13. ASSUME NEW j \in Invites, NEW n \in Keys, Paid(n, j)'
         PROVE  Fits(n, j)'
    <3>1. CASE n = k /\ j = i
      BY <2>12, <3>1
    <3>2. CASE n # k /\ Paid(n, j)
      <4>1. Has(keys, n) /\ keys'[n] = keys[n] /\ Has(keys', n)
        BY <2>5, <2>13, <3>2 DEF Paid
      <4>2. Fits(n, j)
        BY <3>2 DEF PaidOut, Fits
      <4> QED BY <4>1, <4>2, FitsStays
    <3> QED BY <2>6, <2>13, <3>1, <3>2
  <2> HIDE DEF i
  <2>14. ASSUME NEW j \in Invites
         PROVE  /\ \A n \in Keys, s \in Requests : ~(Paid(n, j)' /\ Pays(s, j)')
                /\ \A m, n \in Keys : Paid(m, j)' /\ Paid(n, j)' => m = n
                /\ \A s, o \in Requests : Pays(s, j)' /\ Pays(o, j)' => s = o
    <3>1. j = i => \A n \in Keys : ~Paid(n, j)
      BY <2>11 DEF PaidOut
    <3>2. j = i => \A s \in Requests : ~Pays(s, j)'
      BY <2>8, <2>10, <2>11 DEF PaidOut
    <3> QED BY <2>6, <2>8, <3>1, <3>2 DEF PaidOut
  <2> QED BY <2>13, <2>14 DEF PaidOut, Fits, Paid, Pays
<1>3. CASE AddsKey(r) /\ ~Lives(q.user)
  <2>1. keys' = keys /\ ~Consumes(r)
    BY <1>3 DEF AddsKey, Consumes, At
  <2> QED BY <2>1, PaysStay, PaidQuiet
<1>4. CASE ~Consumes(r) /\ ~AddsKey(r)
  BY <1>4, KeysStay, PaysStay, PaidQuiet
<1> QED BY <1>1, <1>2, <1>3, <1>4

-----------------------------------------------------------------------------
(* Lines.                                                                  *)

\* What may become of a line: it lessens, or goes, or is new, or an exchange
\* under way has its token issued.
Lessens(l) ==
  /\ lines[l] \in Line /\ lines'[l] \in Line /\ lines'[l].user = lines[l].user
  /\ lines'[l].code => lines[l].code
  /\ lines'[l].access => lines[l].access
  /\ lines'[l].refresh <= lines[l].refresh
Fresh(l) ==
  /\ lines[l] = None /\ lines'[l] \in Line
  /\ lines'[l].code /\ ~lines'[l].access /\ lines'[l].refresh = 0
Ripens(l) ==
  /\ lines[l] \in Line /\ lines'[l] \in Line /\ lines'[l].user = lines[l].user
  /\ lines'[l].code = lines[l].code
  /\ \E x \in Requests :
       /\ Exchanges(x, l)
       /\ \/ lines'[l].refresh = lines[l].refresh
          \/ lines'[l].refresh = lines[l].refresh + 1 /\ lines'[l].access = lines[l].access
             /\ ~Exchanging(req'[x])
Becomes(l) == lines'[l] \in {lines[l], Gone} \/ Lessens(l) \/ Fresh(l) \/ Ripens(l)

\* An exchange goes on, or begins with what it spends.
Spends(x, l) ==
  /\ req'[x].line = l /\ l \in Lines /\ Lessens(l) /\ req'[x].user = lines[l].user
  /\ lines[l].code \/ lines[l].refresh > 0
  /\ ~lines'[l].code /\ lines'[l].refresh = 0
  /\ \A y \in Requests \ {x} : req'[y] = req[y]
Persists(x) ==
  /\ Exchanging(req[x]) /\ req'[x].line = req[x].line /\ req'[x].user = req[x].user

\* A log-out everywhere has what it has cut behind it.
Cutting(s) ==
  /\ EndsLines(req[s]) /\ req'[s].user = req[s].user
  /\ \/ At(s, "cutRefresh")
     \/ \A l \in Lines : lines'[l] \in Line /\ lines'[l].user = req[s].user => ~lines'[l].access

LEMMA InLine == \A l \in Lines : TypeOK => (Has(lines, l) <=> lines[l] \in Line)
BY Distinct DEF TypeOK, Has

LEMMA LineSame ==
  ASSUME NEW x \in Line, NEW y \in Line,
         x.user = y.user, x.code = y.code, x.access = y.access, x.refresh = y.refresh
  PROVE  x = y
BY DEF Line

LEMMA LinesOneLeft ==
  ASSUME TypeOK, OneLeft, Calling, Rows',
         \A l \in Lines : Becomes(l),
         \A x \in Requests : Exchanging(req'[x]) => Persists(x) \/ \E l \in Lines : Spends(x, l)
  PROVE  OneLeft'
<1>1. ASSUME NEW l \in Lines, lines[l] \in Line
      PROVE  /\ lines[l].refresh \in {0, 1}
             /\ lines[l].code => ~lines[l].access /\ lines[l].refresh = 0
             /\ \A r \in Requests : Exchanges(r, l) => ~lines[l].code /\ lines[l].refresh = 0
             /\ \A r, o \in Requests : Exchanges(r, l) /\ Exchanges(o, l) => r = o
  BY <1>1, InLine DEF OneLeft
<1>2. ASSUME NEW l \in Lines, lines'[l] \in Line
      PROVE  /\ lines'[l].refresh \in {0, 1}
             /\ lines'[l].code => ~lines'[l].access /\ lines'[l].refresh = 0
             /\ \A r \in Requests : Exchanges(r, l)' => ~lines'[l].code /\ lines'[l].refresh = 0
             /\ \A r, o \in Requests : Exchanges(r, l)' /\ Exchanges(o, l)' => r = o
  <2>1. ASSUME NEW x \in Requests, Exchanges(x, l)'
        PROVE  (Exchanges(x, l) /\ Persists(x)) \/ Spends(x, l)
    BY <2>1 DEF Exchanges, Persists, Spends
  <2>2. CASE Fresh(l)
    <3>1. \A x \in Requests : ~Exchanges(x, l)
      <4> SUFFICES ASSUME NEW x \in Requests, Exchanges(x, l) PROVE FALSE
        OBVIOUS
      <4>1. LineIn(req[x], users, lines)
        BY DEF Calling, CallIn
      <4> QED BY <2>2, <4>1 DEF LineIn, Exchanges, Fresh
    <3>2. \A x \in Requests : ~Spends(x, l)
      BY <2>2, Distinct DEF Fresh, Spends, Lessens
    <3> QED BY <2>1, <2>2, <3>1, <3>2 DEF Fresh
  <2>3. CASE ~Fresh(l)
    <3>0. lines[l] \in Line /\ lines[l].refresh \in Nat /\ lines'[l].refresh \in Nat
      <4>1. lines[l] \in Line
        BY <1>2, <2>3, Distinct DEF Becomes, Lessens, Ripens
      <4> QED BY <1>2, <4>1 DEF Line
    <3>1. /\ lines[l].refresh \in {0, 1}
          /\ lines[l].code => ~lines[l].access /\ lines[l].refresh = 0
          /\ \A r \in Requests : Exchanges(r, l) => ~lines[l].code /\ lines[l].refresh = 0
          /\ \A r, o \in Requests : Exchanges(r, l) /\ Exchanges(o, l) => r = o
      BY <1>1, <3>0
    <3>2. CASE \E x \in Requests : Spends(x, l)
      <4>1. PICK x \in Requests : Spends(x, l)
        BY <3>2
      <4>2. \A y \in Requests : ~Exchanges(y, l)
        BY <3>1, <4>1 DEF Spends
      <4>3. \A y \in Requests : Exchanges(y, l)' => y = x
        BY <4>1, <4>2 DEF Spends, Exchanges
      <4>4. ~lines'[l].code /\ lines'[l].refresh = 0
        BY <4>1 DEF Spends
      <4> QED BY <4>3, <4>4
    <3>3. CASE ~\E x \in Requests : Spends(x, l)
      <4>1. \A x \in Requests : Exchanges(x, l)' => Exchanges(x, l)
        BY <2>1, <3>3
      <4>2. \A r, o \in Requests : Exchanges(r, l)' /\ Exchanges(o, l)' => r = o
        BY <3>1, <4>1
      <4>3. CASE Ripens(l)
        <5>1. PICK x \in Requests :
                /\ Exchanges(x, l)
                /\ \/ lines'[l].refresh = lines[l].refresh
                   \/ lines'[l].refresh = lines[l].refresh + 1 /\ lines'[l].access = lines[l].access
                      /\ ~Exchanging(req'[x])
          BY <4>3 DEF Ripens
        <5>2. ~lines[l].code /\ lines[l].refresh = 0 /\ ~lines'[l].code
          BY <3>1, <4>3, <5>1 DEF Ripens
        <5>3. lines'[l].refresh = 0 \/ (lines'[l].refresh = 1 /\ \A y \in Requests : ~Exchanges(y, l)')
          <6>1. \A y \in Requests : Exchanges(y, l)' => y = x
            BY <3>1, <4>1, <5>1
          <6> QED BY <5>1, <5>2, <6>1 DEF Exchanges
        <5> QED BY <4>2, <5>2, <5>3
      <4>4. CASE ~Ripens(l)
        <5>1. /\ lines'[l].code => lines[l].code
              /\ lines'[l].access => lines[l].access
              /\ lines'[l].refresh <= lines[l].refresh
          BY <1>2, <2>3, <3>0, <4>4, Distinct DEF Becomes, Lessens
        <5>2. lines'[l].refresh \in {0, 1} /\ (lines[l].refresh = 0 => lines'[l].refresh = 0)
          BY <3>0, <3>1, <5>1
        <5> QED BY <3>1, <4>1, <4>2, <5>1, <5>2
      <4> QED BY <4>3, <4>4
    <3> QED BY <3>2, <3>3
  <2> QED BY <2>2, <2>3
<1>3. \A l \in Lines : Has(lines', l) => lines'[l] \in Line
  BY DEF Rows, Has
<1> QED BY <1>2, <1>3 DEF OneLeft, Exchanges

LEMMA LinesStayCut ==
  ASSUME TypeOK, OneLeft, StaysCut, Calling, Rows', Observes,
         \A l \in Lines : Becomes(l),
         \A x \in Requests : Exchanging(req'[x]) => Persists(x) \/ \E l \in Lines : Spends(x, l),
         \A s \in Requests : At(s, "cutRefresh")' => Cutting(s)
  PROVE  StaysCut'
<1>1. /\ \A l \in cut : lines[l] # None
      /\ \A l \in cut \ excused :
           /\ Has(lines, l) => ~lines[l].code /\ ~lines[l].access /\ lines[l].refresh = 0
           /\ \A r \in Requests : ~Exchanges(r, l)
      /\ \A r \in Requests, l \in Lines \ excused :
           At(r, "cutRefresh") /\ OfUser(l, req[r].user) => ~lines[l].access
      /\ \A r, o \in Requests :
           At(r, "cutRefresh") /\ Exchanging(req[o]) /\ req[o].user = req[r].user
           => req[o].line \in excused
  BY DEF StaysCut
<1>2. cut \subseteq Lines /\ excused \subseteq Lines /\ excused \subseteq excused'
  BY DEF TypeOK, Observes
<1>3. \A l \in cut' : l \in cut \/ \E s \in Requests :
        At(s, "cutRefresh") /\ OfUser(l, req[s].user) /\ lines'[l] # lines[l] /\ l \in Lines
  BY DEF Observes
<1>4. \A x, s \in Requests : /\ Exchanging(req'[x]) /\ req'[x].line \in Lines
                             /\ EndsLines(req[s]) /\ req[s].user = req'[x].user
                             => req'[x].line \in excused'
  BY DEF Observes
<1>5. \A x \in Requests : Exchanging(req'[x]) => req'[x].line \in Lines
  <2> SUFFICES ASSUME NEW x \in Requests, Exchanging(req'[x]), Persists(x)
               PROVE  req'[x].line \in Lines
    BY DEF Spends
  <2>1. LineIn(req[x], users, lines) /\ req[x].line \in Lines \cup {None}
    BY DEF Calling, CallIn, TypeOK, Call
  <2> QED BY <2>1 DEF LineIn, Persists
<1>6. ASSUME NEW s \in Requests, At(s, "cutRefresh") PROVE EndsLines(req[s])
  BY <1>6, Standing DEF Places, EndsLines
<1>7. \A l \in Lines : (Has(lines, l) <=> lines[l] \in Line) /\ (Has(lines', l) <=> lines'[l] \in Line)
  BY Distinct DEF TypeOK, Rows, Has
\* Whose exchange it is.
<1>8. ASSUME NEW x \in Requests, NEW l \in Lines, lines[l] \in Line, Exchanges(x, l)'
      PROVE  req'[x].user = lines[l].user
  <2>1. CASE Persists(x)
    <3>1. Exchanges(x, l) /\ req'[x].user = req[x].user
      BY <1>8, <2>1 DEF Persists, Exchanges
    <3>2. LineIn(req[x], users, lines)
      BY DEF Calling, CallIn
    <3> QED BY <1>8, <3>1, <3>2, Distinct DEF LineIn, Exchanges
  <2>2. CASE \E m \in Lines : Spends(x, m)
    BY <1>8, <2>2 DEF Spends, Exchanges
  <2> QED BY <1>8, <2>1, <2>2 DEF Exchanges
\* What was cut stays so.
<1>9. ASSUME NEW l \in cut \ excused
      PROVE  /\ lines'[l] \in Line => ~lines'[l].code /\ ~lines'[l].access /\ lines'[l].refresh = 0
             /\ \A x \in Requests : ~Exchanges(x, l)'
  <2>1. l \in Lines /\ lines[l] # None /\ \A x \in Requests : ~Exchanges(x, l)
    BY <1>1, <1>2
  <2>2. lines[l] \in Line => ~lines[l].code /\ ~lines[l].access /\ lines[l].refresh = 0
    BY <1>1, <1>7, <2>1
  <2>3. \A x \in Requests : ~Exchanges(x, l)'
    <3> SUFFICES ASSUME NEW x \in Requests, Exchanges(x, l)' PROVE FALSE
      OBVIOUS
    <3>1. ~Persists(x)
      BY <2>1 DEF Persists, Exchanges
    <3>2. Spends(x, l)
      BY <3>1 DEF Exchanges, Spends
    <3> QED BY <2>2, <3>2 DEF Spends, Lessens
  <2>4. ASSUME lines'[l] \in Line
        PROVE  ~lines'[l].code /\ ~lines'[l].access /\ lines'[l].refresh = 0
    <3>1. lines'[l] = lines[l] \/ Lessens(l)
      BY <2>1, <2>4, Distinct DEF Becomes, Fresh, Ripens
    <3>2. CASE lines'[l] = lines[l]
      BY <2>2, <2>4, <3>2
    <3>3. CASE Lessens(l)
      <4>1. lines[l] \in Line /\ lines'[l].refresh \in Nat
        BY <2>4, <3>3 DEF Lessens, Line
      <4> QED BY <2>2, <3>3, <4>1 DEF Lessens
    <3> QED BY <3>1, <3>2, <3>3
  <2> QED BY <2>3, <2>4
\* What is cut now has nothing left.
<1>10. ASSUME NEW l \in Lines, l \notin excused', NEW s \in Requests, At(s, "cutRefresh"),
              OfUser(l, req[s].user), lines'[l] # lines[l]
       PROVE  /\ lines'[l] \in Line => ~lines'[l].code /\ ~lines'[l].access /\ lines'[l].refresh = 0
              /\ \A x \in Requests : ~Exchanges(x, l)'
  <2>1. lines[l] \in Line /\ lines[l].user = req[s].user /\ EndsLines(req[s]) /\ l \notin excused
    BY <1>2, <1>6, <1>7, <1>10 DEF OfUser
  <2>2. \A x \in Requests : ~Exchanges(x, l)'
    <3> SUFFICES ASSUME NEW x \in Requests, Exchanges(x, l)' PROVE FALSE
      OBVIOUS
    <3>1. req'[x].user = req[s].user
      BY <1>8, <2>1
    <3> QED BY <1>4, <1>10, <2>1, <3>1 DEF Exchanges
  <2>3. \A x \in Requests : ~Exchanges(x, l)
    <3> SUFFICES ASSUME NEW x \in Requests, Exchanges(x, l) PROVE FALSE
      OBVIOUS
    <3>1. LineIn(req[x], users, lines)
      BY DEF Calling, CallIn
    <3>2. req[x].user = req[s].user
      BY <2>1, <3>1, Distinct DEF LineIn, Exchanges
    <3> QED BY <1>1, <1>10, <2>1, <3>2 DEF Exchanges
  <2>4. ~lines[l].access
    BY <1>1, <1>10, <2>1
  <2>5. lines[l].refresh \in {0, 1} /\ (lines[l].code => lines[l].refresh = 0)
    BY <1>7, <2>1 DEF OneLeft
  <2>6. ASSUME lines'[l] \in Line
        PROVE  ~lines'[l].code /\ ~lines'[l].access /\ lines'[l].refresh = 0
    <3>1. Lessens(l)
      BY <1>10, <2>1, <2>3, <2>6, Distinct DEF Becomes, Fresh, Ripens
    <3>2. /\ lines'[l].code \in BOOLEAN /\ lines'[l].access \in BOOLEAN /\ lines'[l].refresh \in Nat
          /\ lines[l].code \in BOOLEAN /\ lines[l].access \in BOOLEAN
      BY <2>1, <2>6 DEF Line
    <3>3. ~lines'[l].access /\ lines'[l].access = lines[l].access
      BY <2>4, <3>1, <3>2 DEF Lessens
    <3>4. lines'[l].refresh \in {0, 1} /\ lines'[l].refresh <= lines[l].refresh
      BY <2>5, <3>1, <3>2 DEF Lessens
    <3>5. ~lines'[l].code
      <4> SUFFICES ASSUME lines'[l].code PROVE FALSE
        OBVIOUS
      <4>1. lines[l].code /\ lines[l].refresh = 0
        BY <2>5, <3>1 DEF Lessens
      <4>2. lines'[l].code = lines[l].code
        BY <3>2, <4>1
      <4>3. lines'[l].refresh = lines[l].refresh
        BY <3>4, <4>1
      <4> QED BY <1>10, <2>1, <2>6, <3>1, <3>3, <4>2, <4>3, LineSame DEF Lessens
    <3>6. lines'[l].refresh = 0
      <4> SUFFICES ASSUME lines'[l].refresh = 1 PROVE FALSE
        BY <3>4
      <4>1. lines[l].refresh = 1 /\ ~lines[l].code
        BY <2>5, <3>4
      <4>2. lines'[l].code = lines[l].code
        BY <3>2, <3>5, <4>1
      <4> QED BY <1>10, <2>1, <2>6, <3>1, <3>3, <4>1, <4>2, LineSame DEF Lessens
    <3> QED BY <3>3, <3>5, <3>6
  <2> QED BY <2>2, <2>6
<1>11. \A l \in cut' : l \in Lines /\ lines'[l] # None
  <2>1. \A l \in Lines : lines[l] # None => lines'[l] # None
    BY Distinct DEF Becomes, Lessens, Fresh, Ripens
  <2>2. \A l \in cut' : l \in Lines /\ lines[l] # None
    BY <1>1, <1>2, <1>3 DEF OfUser, Has
  <2> QED BY <2>1, <2>2
<1>12. \A l \in cut' \ excused' :
         /\ Has(lines', l) => ~lines'[l].code /\ ~lines'[l].access /\ lines'[l].refresh = 0
         /\ \A r \in Requests : ~Exchanges(r, l)'
  <2> SUFFICES ASSUME NEW l \in cut' \ excused'
               PROVE  /\ Has(lines', l) => ~lines'[l].code /\ ~lines'[l].access /\ lines'[l].refresh = 0
                      /\ \A r \in Requests : ~Exchanges(r, l)'
    OBVIOUS
  <2>1. l \in Lines /\ l \notin excused
    BY <1>2, <1>11
  <2>2. CASE l \in cut
    BY <1>7, <1>9, <2>1, <2>2
  <2>3. CASE l \notin cut
    <3>1. PICK s \in Requests : At(s, "cutRefresh") /\ OfUser(l, req[s].user) /\ lines'[l] # lines[l]
      BY <1>3, <2>3
    <3> QED BY <1>7, <1>10, <2>1, <3>1
  <2> QED BY <2>2, <2>3
<1>13. \A s \in Requests, l \in Lines \ excused' :
         At(s, "cutRefresh")' /\ lines'[l] \in Line /\ lines'[l].user = req'[s].user
         => ~lines'[l].access
  <2> SUFFICES ASSUME NEW s \in Requests, NEW l \in Lines, l \notin excused', Cutting(s),
                      lines'[l] \in Line, lines'[l].user = req'[s].user, At(s, "cutRefresh")
               PROVE  ~lines'[l].access
    BY DEF Cutting
  <2>1. l \notin excused /\ req'[s].user = req[s].user
    BY <1>2 DEF Cutting
  <2>2. CASE Fresh(l)
    BY <2>2 DEF Fresh
  <2>3. CASE ~Fresh(l)
    <3>1. lines[l] \in Line /\ lines'[l].user = lines[l].user
      BY <2>3, Distinct DEF Becomes, Lessens, Ripens
    <3>2. ~lines[l].access
      BY <1>1, <1>7, <2>1, <3>1 DEF OfUser
    <3>3. ~Ripens(l)
      <4> SUFFICES ASSUME NEW x \in Requests, Exchanges(x, l) PROVE FALSE
        BY DEF Ripens
      <4>1. LineIn(req[x], users, lines)
        BY DEF Calling, CallIn
      <4>2. req[x].user = req[s].user
        BY <2>1, <3>1, <4>1, Distinct DEF LineIn, Exchanges
      <4> QED BY <1>1, <2>1, <4>2 DEF Exchanges
    <3> QED BY <2>3, <3>1, <3>2, <3>3, Distinct DEF Becomes, Lessens
  <2> QED BY <2>2, <2>3
<1>14. \A s, o \in Requests :
         At(s, "cutRefresh")' /\ Exchanging(req'[o]) /\ req'[o].user = req'[s].user
         => req'[o].line \in excused'
  BY <1>4, <1>5 DEF Cutting
<1> QED BY <1>7, <1>11, <1>12, <1>13, <1>14 DEF StaysCut, OfUser, Exchanges, Exchanging

LEMMA ExchangesPersist ==
  ASSUME TypeOK, NEW r \in Requests, Does(r),
         ~ConsumeAuthorizationCode(r), ~ConsumeRefreshToken(r)
  PROVE  \A x \in Requests : Exchanging(req'[x]) => Persists(x)
<1>1. req[r].op \in {"exchange", "renew"} => req[r].at # 1
  BY Where
<1>2. req[r].at \in Nat \ {0}
  BY Standing
<1>3. Stepped(r) /\ ~Exchanging(Idle)
  BY Steps, IdleIs
<1>4. ASSUME Goes(req[r], req'[r]), Exchanging(req'[r]) PROVE Persists(r)
  <2>1. req[r].op \in {"exchange", "renew"}
    BY <1>4 DEF Goes, Alike, Exchanging
  <2>2. req[r].at > 1
    BY <1>1, <1>2, <2>1
  <2> QED BY <1>4, <2>1, <2>2 DEF Goes, Alike, Exchanging, Persists
<1> QED BY <1>3, <1>4 DEF Stepped, Persists

LEMMA CuttingStays ==
  ASSUME TypeOK, Requested', NEW r \in Requests, Does(r)
  PROVE  \A s \in Requests : At(s, "cutRefresh")' => Cutting(s)
<1> SUFFICES ASSUME NEW s \in Requests, At(s, "cutRefresh")' PROVE Cutting(s)
  OBVIOUS
<1>1. req'[s].op = "logoutOthers" /\ req'[s].at = 3
  <2>1. InScript(req'[s])
    BY DEF Requested, InScript
  <2>2. Places(req'[s].op, req'[s].at, Script[req'[s].op][req'[s].at])
    BY <2>1, UnderWay
  <2>3. Script[req'[s].op][req'[s].at] = "cutRefresh"
    BY DEF At
  <2> QED BY <2>2, <2>3 DEF Places
<1>2. Stepped(r)
  BY Steps
<1>3. CASE req'[s] = req[s]
  <2>1. At(s, "cutRefresh")
    BY <1>3 DEF At
  <2> QED BY <1>1, <1>3, <2>1 DEF Cutting, EndsLines
<1>4. CASE req'[s] # req[s]
  <2>1. s = r /\ Goes(req[r], req'[r])
    BY <1>1, <1>2, <1>4, IdleIs DEF Stepped
  <2>2. req[r].op = "logoutOthers" /\ req[r].at = 2 /\ req'[r].user = req[r].user
    <3>1. req[r].at \in Nat
      BY Standing
    <3> QED BY <1>1, <2>1, <3>1 DEF Goes, Alike
  <2>3. CutsTokens(r)
    BY <2>2, Where
  <2>4. At(r, "cutAccess")
    <3>1. ~At(r, "cutRefresh")
      BY <2>2, Standing DEF Places
    <3> QED BY <2>3, <3>1 DEF CutsTokens
  <2>5. ASSUME NEW l \in Lines, lines'[l] \in Line, lines'[l].user = req[r].user
        PROVE  ~lines'[l].access
    <3>1. OfUser(l, req[r].user)
      <4>1. lines'[l] = lines[l] \/ (Has(lines, l) /\ lines[l].user = req[r].user)
        BY <2>3, Cuts
      <4> QED BY <2>5, <4>1, InLine DEF OfUser
    <3> QED BY <2>3, <2>4, <3>1, Cuts
  <2> QED BY <2>1, <2>2, <2>5 DEF Cutting, EndsLines
<1> QED BY <1>3, <1>4

LEMMA LinesBecome ==
  ASSUME TypeOK, Calling, Linked, NEW r \in Requests, Does(r)
  PROVE  \A l \in Lines : Becomes(l)
<1>1. CASE lines' = lines
  BY <1>1 DEF Becomes
<1>2. CASE CutsTokens(r)
  <2> SUFFICES ASSUME NEW l \in Lines, lines'[l] # lines[l] PROVE Lessens(l)
    BY DEF Becomes
  <2>1. /\ Has(lines, l) /\ Has(lines', l) /\ lines'[l].user = lines[l].user
        /\ lines'[l].code = lines[l].code
        /\ \/ ~lines'[l].access /\ lines'[l].refresh = lines[l].refresh
           \/ lines'[l].access = lines[l].access /\ lines'[l].refresh = 0
    BY <1>2, Cuts
  <2>2. lines[l] \in Line /\ lines'[l] \in Line
    BY <1>2, <2>1, Cuts DEF Has, TypeOK
  <2>3. lines[l].refresh \in Nat
    BY <2>2 DEF Line
  <2> QED BY <2>1, <2>2, <2>3 DEF Lessens
<1>3. CASE Consents(r) /\ Lives(req[r].user)
  <2>1. PICK n \in Lines :
          /\ lines[n] = None /\ lines'[n] \in Line
          /\ lines'[n].code /\ ~lines'[n].access /\ lines'[n].refresh = 0
          /\ \A l \in Lines : l # n => lines'[l] = lines[l]
    BY <1>3, Consented
  <2> QED BY <2>1 DEF Becomes, Fresh
<1>4. CASE Consents(r) /\ ~Lives(req[r].user)
  BY <1>4 DEF Consents, Becomes
<1>5. CASE DropsUser(r)
  <2>1. \A l \in Lines : lines'[l] \in {lines[l], Gone}
    BY <1>5, Drops
  <2> QED BY <2>1 DEF Becomes
<1>6. ASSUME NEW step, step \in {"redeem", "rotate"}, Redeems(r, step)
      PROVE  \A l \in Lines : Becomes(l)
  <2>1. CASE Found(req[r])
    <3> DEFINE n == req[r].line
    <3>1. /\ n \in Lines /\ lines[n] \in Line /\ lines'[n].user = lines[n].user
          /\ ~lines'[n].code /\ lines'[n].access = lines[n].access
          /\ \/ lines'[n].refresh = lines[n].refresh
             \/ lines'[n].refresh = lines[n].refresh - 1
          /\ \A m \in Lines : m # n => lines'[m] = lines[m]
          /\ lines' \in [Lines -> Line \cup {None, Gone}] /\ Has(lines', n)
      BY <1>6, <2>1, Redeemed
    <3>2. lines'[n] \in Line /\ lines[n].refresh \in Nat
      BY <3>1 DEF Has, Line
    <3>3. ASSUME NEW l \in Lines, l = n PROVE Lessens(l)
      BY <3>1, <3>2, <3>3 DEF Lessens
    <3> QED BY <3>1, <3>3 DEF Becomes
  <2>2. CASE ~Found(req[r])
    BY <1>6, <2>2 DEF Redeems, Becomes
  <2> QED BY <2>1, <2>2
<1>7. CASE CreateAccessToken(r) \/ CreateRefreshToken(r)
  <2>1. CASE Lives(req[r].user)
    <3> DEFINE n == req[r].line
    <3>1. /\ n \in Lines /\ Exchanging(req[r])
          /\ lines[n] \in Line /\ Has(lines', n)
          /\ lines' \in [Lines -> Line \cup {None, Gone}]
          /\ \A m \in Lines : m # n => lines'[m] = lines[m]
          /\ lines'[n].user = lines[n].user /\ lines'[n].code = lines[n].code
          /\ \/ CreateAccessToken(r) /\ lines'[n].refresh = lines[n].refresh
             \/ /\ CreateRefreshToken(r)
                /\ lines'[n].refresh = lines[n].refresh + 1 /\ lines'[n].access = lines[n].access
      BY <1>7, <2>1, Issued
    <3>2. CreateRefreshToken(r) => ~Exchanging(req'[r])
      <4> SUFFICES ASSUME CreateRefreshToken(r) PROVE ~Exchanging(req'[r])
        OBVIOUS
      <4>1. req[r].op \in {"exchange", "renew"} /\ req[r].at = 3
        BY Standing DEF CreateRefreshToken, Issues, Places
      <4>2. Following(req[r]) = Idle
        BY <4>1 DEF Following, Script, tokenFromCode, tokenFromRefresh
      <4>3. req'[r] = Idle
        BY <4>2 DEF CreateRefreshToken, Issues, Passes, PassesAs, Ends, TypeOK
      <4> QED BY <4>3, IdleIs
    <3>3. ASSUME NEW l \in Lines, l = n PROVE Ripens(l)
      <4>1. lines'[n] \in Line /\ Exchanges(r, l)
        BY <3>1, <3>3 DEF Has, Exchanges
      <4>2. \/ lines'[l].refresh = lines[l].refresh
            \/ lines'[l].refresh = lines[l].refresh + 1 /\ lines'[l].access = lines[l].access
               /\ ~Exchanging(req'[r])
        BY <3>1, <3>2, <3>3
      <4> QED BY <3>1, <3>3, <4>1, <4>2 DEF Ripens
    <3> QED BY <3>1, <3>3 DEF Becomes
  <2>2. CASE ~Lives(req[r].user)
    BY <1>7, <2>2 DEF CreateAccessToken, CreateRefreshToken, Issues, Becomes
  <2> QED BY <2>1, <2>2
<1> QED BY <1>1, <1>2, <1>3, <1>4, <1>5, <1>6, <1>7, DoesLeaves
  DEF ConsumeAuthorizationCode, ConsumeRefreshToken

LEMMA ExchangesBegin ==
  ASSUME TypeOK, Calling, Linked, OneLeft, Sound', NEW r \in Requests, Does(r)
  PROVE  \A x \in Requests : Exchanging(req'[x]) => Persists(x) \/ \E l \in Lines : Spends(x, l)
<1>1. ASSUME NEW step, step \in {"redeem", "rotate"}, Redeems(r, step),
             NEW x \in Requests, Exchanging(req'[x])
      PROVE  Persists(x) \/ \E l \in Lines : Spends(x, l)
  <2>1. Stepped(r) /\ ~Exchanging(Idle)
    BY Steps, IdleIs
  <2>2. CASE x # r
    BY <1>1, <2>1, <2>2 DEF Stepped, Persists
  <2>3. CASE x = r
    <3> DEFINE n == req[r].line
    <3>1. Goes(req[r], req'[r]) /\ req'[r].line = n
      BY <1>1, <2>1, <2>3 DEF Stepped, Goes, Alike
    <3>2. Found(req[r])
      <4>1. ~Ends(r)
        BY <1>1, <2>1, <2>3 DEF Ends, TypeOK
      <4> QED BY <1>1, <4>1 DEF Redeems
    <3>3. /\ n \in Lines /\ lines[n] \in Line /\ Has(lines, n) /\ lines'[n].user = lines[n].user
          /\ ~lines'[n].code /\ lines'[n].access = lines[n].access
          /\ \/ lines[n].code /\ lines'[n].refresh = lines[n].refresh
             \/ ~lines[n].code /\ lines[n].refresh > 0 /\ lines'[n].refresh = lines[n].refresh - 1
          /\ lines' \in [Lines -> Line \cup {None, Gone}] /\ Has(lines', n)
      BY <1>1, <3>2, Redeemed
    <3>4. lines[n].refresh \in {0, 1} /\ (lines[n].code => lines[n].refresh = 0)
      BY <3>3 DEF OneLeft
    <3>5. lines'[n] \in Line
      BY <3>3 DEF Has
    <3>6. lines'[n].refresh = 0 /\ lines'[n].refresh <= lines[n].refresh
          /\ (lines[n].code \/ lines[n].refresh > 0)
      BY <3>3, <3>4
    <3>7. req'[r].user = lines[n].user
      <4>1. LineIn(req'[r], users', lines')
        BY DEF Sound, Calling, CallIn
      <4> QED BY <1>1, <2>3, <3>1, <3>3, <3>5, <4>1, Distinct DEF LineIn
    <3>8. ASSUME NEW l \in Lines, l = n PROVE Spends(r, l)
      BY <2>1, <3>1, <3>3, <3>5, <3>6, <3>7, <3>8 DEF Spends, Lessens, Stepped
    <3> QED BY <2>3, <3>3, <3>8
  <2> QED BY <2>2, <2>3
<1>2. CASE ~ConsumeAuthorizationCode(r) /\ ~ConsumeRefreshToken(r)
  BY <1>2, ExchangesPersist
<1> QED BY <1>1, <1>2 DEF ConsumeAuthorizationCode, ConsumeRefreshToken

LEMMA LinesSteps ==
  ASSUME TypeOK, Calling, Linked, OneLeft, StaysCut, Sound', Observes, NEW r \in Requests, Does(r)
  PROVE  OneLeft' /\ StaysCut'
<1>1. \A l \in Lines : Becomes(l)
  BY LinesBecome
<1>2. \A x \in Requests : Exchanging(req'[x]) => Persists(x) \/ \E l \in Lines : Spends(x, l)
  BY ExchangesBegin
<1>3. \A s \in Requests : At(s, "cutRefresh")' => Cutting(s)
  BY CuttingStays DEF Sound
<1> QED BY <1>1, <1>2, <1>3, LinesOneLeft, LinesStayCut DEF Sound

-----------------------------------------------------------------------------
(* A passkey's sessions.                                                   *)

\* The passkey's row is about to go.
Dropping(q) == q.op = "deleteKey" /\ q.at = 2

LEMMA DropsNow ==
  ASSUME TypeOK
  PROVE  \A r \in Requests : At(r, "dropKey") <=> Dropping(req[r])
BY Standing DEF Places, Dropping, At

LEMMA DropsNext ==
  ASSUME Requested'
  PROVE  \A r \in Requests : At(r, "dropKey")' <=> Dropping(req'[r])
<1> SUFFICES ASSUME NEW r \in Requests PROVE At(r, "dropKey")' <=> Dropping(req'[r])
  OBVIOUS
<1>1. InScript(req'[r])
  BY DEF Requested, InScript
<1>2. Places(req'[r].op, req'[r].at, Script[req'[r].op][req'[r].at])
  BY <1>1, UnderWay
<1> QED BY <1>1, <1>2 DEF Places, Dropping, At

LEMMA LeavesQuiet ==
  ASSUME TypeOK, Leaves, Requested', spared \subseteq spared',
         \A s \in Sessions \ spared' : Has(sessions', s) =>
           \/ Has(keys', sessions'[s].key)
           \/ /\ sessions'[s] = sessions[s]
              /\ Has(keys, sessions[s].key) => Has(keys', sessions[s].key),
         \A x \in Requests, s \in Sessions \ spared' :
           /\ Dropping(req'[x]) /\ Has(sessions', s)
           /\ sessions'[s].user = req'[x].user /\ sessions'[s].key = req'[x].key
           => s = req'[x].session \/ (req'[x] = req[x] /\ sessions'[s] = sessions[s])
  PROVE  Leaves'
<1>1. \A s \in Sessions \ spared' : Has(sessions', s) => Has(keys', sessions'[s].key)
  <2> SUFFICES ASSUME NEW s \in Sessions \ spared', Has(sessions', s),
                      sessions'[s] = sessions[s],
                      Has(keys, sessions[s].key) => Has(keys', sessions[s].key)
               PROVE  Has(keys', sessions'[s].key)
    OBVIOUS
  <2>1. Has(sessions, s) /\ s \notin spared
    BY DEF Has, TypeOK
  <2> QED BY <2>1 DEF Leaves
<1>2. ASSUME NEW x \in Requests, NEW s \in Sessions \ spared', Dropping(req'[x]),
             Has(sessions', s), sessions'[s].user = req'[x].user,
             sessions'[s].key = req'[x].key
      PROVE  s = req'[x].session
  <2> SUFFICES ASSUME req'[x] = req[x], sessions'[s] = sessions[s] PROVE s = req[x].session
    BY <1>2
  <2>1. Has(sessions, s) /\ s \notin spared
    BY <1>2 DEF Has, TypeOK
  <2>2. At(x, "dropKey") /\ req[x].op = "deleteKey"
    BY <1>2, DropsNow DEF Dropping
  <2> QED BY <1>2, <2>1, <2>2 DEF Leaves
<1>3. \A x \in Requests : At(x, "dropKey")' => Dropping(req'[x])
  BY DropsNext
<1> QED BY <1>1, <1>2, <1>3 DEF Leaves

LEMMA SessionsLeave ==
  ASSUME TypeOK, Calling, Linked, NEW r \in Requests, Does(r), ~OpensSession(r)
  PROVE  \A s \in Sessions : sessions'[s] \in {sessions[s], Gone}
<1>1. CASE Enrols(r)
  BY <1>1 DEF Enrols, ReadsInvite, Puts, Takes, Consumes, CreatesUser, AddsKey, tables
<1>2. CASE SignsIn(r)
  BY <1>2 DEF SignsIn, FindsKey, Looks, tables
<1>3. CASE SignsOut(r)
  <2>1. CASE DeleteSession(r)
    BY <2>1 DEF DeleteSession, DeletesSessions, Without, TypeOK
  <2>2. CASE DeleteUserSessionsExcept(r)
    BY <2>2 DEF DeleteUserSessionsExcept, DeletesSessions, Without, TypeOK
  <2>3. CASE DeleteUserSessions(r)
    BY <2>3 DEF DeleteUserSessions, DeletesSessions, Without, TypeOK
  <2>4. CASE CutsTokens(r) \/ DropsKey(r)
    BY <2>4 DEF CutsTokens, DropsKey
  <2> QED BY <1>3, <2>1, <2>2, <2>3, <2>4 DEF SignsOut
<1>4. CASE Administers(r)
  <2>1. CASE DropsUser(r)
    BY <2>1, Drops
  <2>2. CASE Mints(r) \/ Revokes(r) \/ Targets(r) \/ Counts(r)
    BY <2>2 DEF Mints, Revokes, Targets, Counts, tables
  <2> QED BY <1>4, <2>1, <2>2 DEF Administers
<1>5. CASE Authorizes(r)
  BY <1>5 DEF Authorizes, Consents, ConsumeAuthorizationCode, ConsumeRefreshToken, Redeems,
    CreateAccessToken, CreateRefreshToken, Issues
<1> QED BY <1>1, <1>2, <1>3, <1>4, <1>5 DEF Does

\* A removal reaches its last statement by the one that ends the sessions.
LEMMA DroppingBegins ==
  ASSUME TypeOK, NEW r \in Requests, Does(r), NEW x \in Requests, Dropping(req'[x])
  PROVE  \/ req'[x] = req[x]
         \/ /\ x = r /\ DeleteUserSessionsExcept(r) /\ req'[r].user = req[r].user
            /\ req'[r].session = req[r].session
<1>1. Stepped(r) /\ ~Dropping(Idle)
  BY Steps, IdleIs DEF Dropping
<1>2. CASE x # r
  BY <1>1, <1>2 DEF Stepped
<1>3. CASE x = r
  <2>1. Goes(req[r], req'[r])
    BY <1>1, <1>3 DEF Stepped
  <2>2. req[r].op = "deleteKey" /\ req[r].at = 1 /\ req'[r].user = req[r].user
        /\ req'[r].session = req[r].session
    <3>1. req[r].at \in Nat
      BY Standing
    <3> QED BY <1>3, <2>1, <3>1 DEF Goes, Alike, Dropping
  <2> QED BY <1>3, <2>2, Where
<1> QED BY <1>2, <1>3

LEMMA LeavesSteps ==
  ASSUME TypeOK, Calling, Linked, Leaves, Sound', Observes, NEW r \in Requests, Does(r)
  PROVE  Leaves'
<1>1. Requested' /\ spared \subseteq spared'
  BY DEF Sound, Observes
<1>2. CASE OpensSession(r) /\ sessions' # sessions
  <2>1. req[r].at = 5 /\ req[r].op \in {"registerFinish", "loginFinish"} /\ keys' = keys
    BY <1>2, Standing DEF OpensSession, Places
  <2>2. PICK n \in Sessions :
          /\ sessions[n] = None /\ \A s \in Sessions : s # n => sessions'[s] = sessions[s]
    <3>1. Some(Free(sessions)) \in Sessions /\ sessions[Some(Free(sessions))] = None
      BY <1>2, FreeOne DEF OpensSession, TypeOK
    <3> QED BY <1>2, <3>1 DEF OpensSession, TypeOK
  <2>3. ASSUME NEW s \in Sessions \ spared', Has(sessions', s), s = n
        PROVE  /\ Has(keys', sessions'[s].key)
               /\ \A x \in Requests : ~Removes(x, sessions'[s].key)
    BY <2>1, <2>2, <2>3 DEF Observes, Opened, Has
  <2>4. ASSUME NEW s \in Sessions \ spared', Has(sessions', s)
        PROVE  \/ Has(keys', sessions'[s].key)
               \/ /\ sessions'[s] = sessions[s]
                  /\ Has(keys, sessions[s].key) => Has(keys', sessions[s].key)
    BY <2>1, <2>2, <2>3, <2>4
  <2>5. ASSUME NEW x \in Requests, NEW s \in Sessions \ spared', Dropping(req'[x]),
               Has(sessions', s), sessions'[s].key = req'[x].key
        PROVE  req'[x] = req[x] /\ sessions'[s] = sessions[s]
    <3>1. req'[x] = req[x]
      <4>1. ~DeleteUserSessionsExcept(r)
        <5>1. ~At(r, "cutSessions")
          BY <2>1, Standing DEF Places
        <5> QED BY <5>1 DEF DeleteUserSessionsExcept, DeletesSessions
      <4> QED BY <2>5, <4>1, DroppingBegins
    <3>2. Removes(x, sessions'[s].key)
      BY <2>5, <3>1, DropsNow DEF Removes, Dropping
    <3> QED BY <2>2, <2>3, <2>5, <3>1, <3>2
  <2> QED BY <1>1, <2>4, <2>5, LeavesQuiet
<1>3. CASE DropsKey(r)
  <2>1. Dropping(req[r]) /\ UNCHANGED <<sessions>> /\ Removes(r, req[r].key)
    BY <1>3, DropsNow DEF DropsKey, Dropping, Removes
  <2>2. \A k \in Keys : k # req[r].key => keys'[k] = keys[k]
    BY <1>3 DEF DropsKey, Without, TypeOK
  <2>3. \A k \in Keys : Has(keys, k) /\ keys[k].user # req[r].user => keys'[k] = keys[k]
    BY <1>3 DEF DropsKey, Without, TypeOK
  <2>4. ASSUME NEW s \in Sessions \ spared', Has(sessions, s), Has(keys, sessions[s].key)
        PROVE  Has(keys', sessions[s].key)
    <3> SUFFICES ASSUME ~Has(keys', sessions[s].key) PROVE FALSE
      OBVIOUS
    <3>1. PICK k \in Keys : k = sessions[s].key /\ Has(keys, k) /\ keys'[k] # keys[k]
      BY <2>4 DEF Has, TypeOK, Sound, Rows
    <3>2. k = req[r].key /\ keys[k].user = req[r].user
      BY <2>2, <2>3, <3>1
    <3>3. sessions[s].user = req[r].user
      BY <2>4, <3>1, <3>2 DEF Linked
    <3>4. s \notin spared
      BY <1>1
    <3>5. s = req[r].session
      BY <2>1, <2>4, <3>1, <3>2, <3>3, <3>4 DEF Leaves, Removes
    <3>6. s \in spared'
      BY <2>1, <3>1, <3>2, <3>5 DEF Observes
    <3> QED BY <3>6
  <2>5. ASSUME NEW x \in Requests, Dropping(req'[x]) PROVE req'[x] = req[x]
    <3>1. ~DeleteUserSessionsExcept(r)
      <4>1. ~At(r, "cutSessions")
        BY <2>1, Standing DEF Places, Dropping
      <4> QED BY <4>1 DEF DeleteUserSessionsExcept, DeletesSessions
    <3> QED BY <2>5, <3>1, DroppingBegins
  <2> QED BY <1>1, <2>1, <2>4, <2>5, LeavesQuiet
<1>4. CASE ~OpensSession(r) /\ ~DropsKey(r)
  <2>1. \A s \in Sessions : Has(sessions', s) => sessions'[s] = sessions[s] /\ Has(sessions, s)
    BY <1>4, SessionsLeave DEF Has, TypeOK
  <2>2. ASSUME NEW s \in Sessions, Has(sessions', s), Has(keys, sessions[s].key)
        PROVE  Has(keys', sessions[s].key)
    <3>1. CASE keys' = keys
      BY <2>2, <3>1
    <3>2. CASE AddsKey(r)
      <4>1. \A k \in Keys : keys[k] # None => keys'[k] = keys[k]
        BY <3>2, FreeOne DEF AddsKey, TypeOK
      <4> QED BY <2>2, <4>1 DEF Has, TypeOK, Sound, Rows
    <3>3. CASE DropsUser(r)
      <4>1. sessions[s].user # req[r].who
        BY <2>2, <3>3, Drops
      <4>2. keys[sessions[s].key].user = sessions[s].user
        BY <2>1, <2>2 DEF Linked
      <4>3. \A k \in Keys : Has(keys, k) /\ keys[k].user # req[r].who => keys'[k] = keys[k]
        BY <3>3, Drops
      <4> QED BY <2>2, <4>1, <4>2, <4>3 DEF Has, TypeOK, Sound, Rows
    <3> QED BY <1>4, <3>1, <3>2, <3>3, DoesLeaves
  <2>3. ASSUME NEW x \in Requests, NEW s \in Sessions \ spared', Dropping(req'[x]),
               Has(sessions', s), sessions'[s].user = req'[x].user
        PROVE  s = req'[x].session \/ (req'[x] = req[x] /\ sessions'[s] = sessions[s])
    <3>1. CASE req'[x] = req[x]
      BY <2>1, <2>3, <3>1
    <3>2. CASE /\ x = r /\ DeleteUserSessionsExcept(r) /\ req'[r].user = req[r].user
               /\ req'[r].session = req[r].session
      <4>1. Has(sessions, s) /\ sessions'[s] = sessions[s] /\ sessions[s].user = req[r].user
        BY <2>1, <2>3, <3>2
      <4>2. sessions'[s] # Gone
        BY <2>3 DEF Has
      <4> QED BY <3>2, <4>1, <4>2 DEF DeleteUserSessionsExcept, DeletesSessions, Without, TypeOK
    <3> QED BY <2>3, <3>1, <3>2, DroppingBegins
  <2> QED BY <1>1, <2>1, <2>2, <2>3, LeavesQuiet
<1>5. CASE OpensSession(r) /\ sessions' = sessions
  <2>1. keys' = keys
    BY <1>5 DEF OpensSession
  <2>2. ~DeleteUserSessionsExcept(r)
    <3>1. ~At(r, "cutSessions")
      BY <1>5, Standing DEF Places, OpensSession
    <3> QED BY <3>1 DEF DeleteUserSessionsExcept, DeletesSessions
  <2>3. \A x \in Requests : Dropping(req'[x]) => req'[x] = req[x]
    BY <2>2, DroppingBegins
  <2> QED BY <1>1, <1>5, <2>1, <2>3, LeavesQuiet
<1> QED BY <1>2, <1>3, <1>4, <1>5

-----------------------------------------------------------------------------
(* The last admin.                                                         *)

LEMMA Doubles ==
  ASSUME Observes, NEW r \in Requests, NEW o \in Requests, r # o,
         Removing(req'[r]), Removing(req'[o])
  PROVE  doubled'
<1>1. \A q \in {req'[r], req'[o]} : q.op = "deleteUser" /\ q.at = 3 /\ q.flag
  BY DEF Removing
<1>2. doubled' = (doubled \/ \E s, t \in Requests :
        s # t /\ \A q \in {req'[s], req'[t]} : q.op = "deleteUser" /\ q.at = 3 /\ q.flag)
  BY DEF Observes
<1>3. \E s, t \in Requests :
        s # t /\ \A q \in {req'[s], req'[t]} : q.op = "deleteUser" /\ q.at = 3 /\ q.flag
  BY <1>1
<1> QED BY <1>2, <1>3, Zenon

\* What doubled says of removals, and what they leave.
LEMMA AdminsQuiet ==
  ASSUME TypeOK, Observes, LastAdmin, AnAdminRemains, doubled \/ Admins \subseteq Admins',
         \A u \in Users : users[u] = None => users'[u] = None,
         \A x \in Requests : Removing(req'[x]) => req'[x] = req[x]
  PROVE  LastAdmin' /\ AnAdminRemains'
<1>1. doubled => doubled'
  BY DEF Observes
<1>2. \A r, o \in Requests : Removing(req'[r]) /\ Removing(req'[o]) /\ r # o => doubled'
  BY Doubles
<1>3. ASSUME NEW x \in Requests, Removing(req'[x]), ~doubled'
      PROVE  Admins' \ {req'[x].who} # {}
  <2>1. ~doubled /\ req'[x] = req[x]
    BY <1>1, <1>3
  <2>2. Admins \ {req[x].who} # {}
    BY <1>3, <2>1 DEF LastAdmin
  <2> QED BY <2>1, <2>2
<1>4. AnAdminRemains'
  BY <1>1 DEF AnAdminRemains
<1> QED BY <1>2, <1>3, <1>4 DEF LastAdmin

LEMMA Several ==
  ASSUME NEW w, ~LastOne(Cardinality(Admins))
  PROVE  Admins \ {w} # {}
<1>1. CASE Admins = {}
  <2>1. Cardinality(Admins) = 0
    BY <1>1, FS_EmptySet
  <2> QED BY <2>1 DEF LastOne
<1>2. CASE Admins = {w}
  <2>1. Cardinality(Admins) = 1
    BY <1>2, FS_Singleton
  <2> QED BY <2>1 DEF LastOne
<1> QED BY <1>1, <1>2

\* A removal comes before its deletion by the count.
LEMMA RemovingBegins ==
  ASSUME TypeOK, NEW r \in Requests, Does(r), NEW x \in Requests, Removing(req'[x])
  PROVE  \/ req'[x] = req[x]
         \/ /\ x = r /\ Counts(r) /\ req[r].flag /\ Passes(r) /\ req'[r].who = req[r].who
<1>1. Stepped(r) /\ ~Removing(Idle)
  BY Steps, IdleIs DEF Removing
<1>2. CASE x # r
  BY <1>1, <1>2 DEF Stepped
<1>3. CASE x = r
  <2>1. Goes(req[r], req'[r])
    BY <1>1, <1>3 DEF Stepped
  <2>2. req[r].op = "deleteUser" /\ req[r].at = 2 /\ req'[r].who = req[r].who /\ req[r].flag
    <3>1. req[r].at \in Nat
      BY Standing
    <3> QED BY <1>3, <2>1, <3>1 DEF Goes, Alike, Removing
  <2>3. Counts(r)
    BY <2>2, Where
  <2>4. ~Ends(r)
    BY <1>1, <1>3 DEF Ends, TypeOK
  <2>5. Passes(r)
    BY <2>3, <2>4 DEF Counts, Checks
  <2> QED BY <1>3, <2>2, <2>3, <2>5
<1> QED BY <1>2, <1>3

LEMMA AdminsSteps ==
  ASSUME TypeOK, Calling, Linked, Unborn, NobodyYet, LastAdmin, AnAdminRemains, Observes,
         NEW r \in Requests, Does(r)
  PROVE  LastAdmin' /\ AnAdminRemains'
<1>1. CASE DropsUser(r)
  <2> DEFINE u == req[r].who
  <2>1. /\ req[r].op = "deleteUser" /\ req[r].at = 3 /\ users[u] # None /\ u \in Users
        /\ \A v \in Users : users'[v] = IF v = u THEN Gone ELSE users[v]
    BY <1>1, Drops
  <2>2. ~Removing(req'[r])
    <3>1. Following(req[r]) = Idle
      BY <2>1 DEF Following, Script, handleDeleteUser
    <3>2. req'[r] = Idle
      BY <1>1, <3>1 DEF DropsUser, Passes, PassesAs, TypeOK
    <3> QED BY <3>2, IdleIs DEF Removing
  <2>3. \A x \in Requests : Removing(req'[x]) => x # r /\ req'[x] = req[x]
    BY <2>2, Steps DEF Stepped
  <2>4. CASE req[r].flag
    <3>1. Removing(req[r])
      BY <2>1, <2>4 DEF Removing
    <3>2. \A x \in Requests : Removing(req'[x]) => doubled
      BY <2>3, <3>1 DEF LastAdmin
    <3>3. ~doubled => Admins \ {u} # {}
      BY <3>1 DEF LastAdmin
    <3>4. ~doubled => Admins' # {}
      BY <2>1, <3>3 DEF Admins
    <3>5. doubled => doubled'
      BY DEF Observes
    <3>6. AnAdminRemains'
      BY <3>4, <3>5 DEF AnAdminRemains
    <3> QED BY <3>2, <3>5, <3>6 DEF LastAdmin
  <2>5. CASE ~req[r].flag
    <3>1. users[u] # "admin"
      BY <2>1, <2>5 DEF Calling, CallIn, TargetIn
    <3>2. Admins \subseteq Admins'
      BY <2>1, <3>1 DEF Admins
    <3>3. \A v \in Users : users[v] = None => users'[v] = None
      BY <2>1
    <3> QED BY <2>3, <3>2, <3>3, AdminsQuiet
  <2> QED BY <2>4, <2>5
<1>2. CASE CreatesUser(r) /\ req[r].new
  <2>1. /\ req[r].op = "registerFinish" /\ req[r].at = 3 /\ req[r] \in Call
    BY <1>2, Standing DEF CreatesUser, Places
  <2>2. users' = [users EXCEPT ![req[r].user] = IF req[r].flag THEN "admin" ELSE "reader"]
    BY <1>2 DEF CreatesUser
  <2>3. req[r].user \in Users
    BY <1>2, <2>1 DEF Calling, CallIn, TakenIn, Enrolled
  <2>4. \A x \in Requests : Removing(req'[x]) => req'[x] = req[x]
    <3>1. ~Counts(r)
      <4>1. ~At(r, "count")
        BY <2>1, Standing DEF Places
      <4> QED BY <4>1 DEF Counts
    <3> QED BY <3>1, RemovingBegins
  <2>5. users[req[r].user] # "admin"
    BY <1>2, <2>1, Distinct DEF Creates, Unborn, Rights
  <2>6. Admins \subseteq Admins'
    BY <2>2, <2>3, <2>5 DEF Admins, TypeOK
  <2>7. doubled => doubled'
    BY DEF Observes
  <2>8. (\A v \in Users : users[v] = None) => Admins' # {}
    <3> SUFFICES ASSUME \A v \in Users : users[v] = None PROVE Admins' # {}
      OBVIOUS
    <3>1. req[r].flag
      BY <1>2, <2>1 DEF NobodyYet
    <3> QED BY <2>2, <2>3, <3>1 DEF Admins, TypeOK
  <2>9. AnAdminRemains'
    BY <2>6, <2>7, <2>8 DEF AnAdminRemains
  <2>10. ASSUME NEW x \in Requests, Removing(req'[x]), ~doubled'
         PROVE  Admins' \ {req'[x].who} # {}
    BY <2>4, <2>6, <2>7, <2>10 DEF LastAdmin
  <2>11. \A s, o \in Requests : Removing(req'[s]) /\ Removing(req'[o]) /\ s # o => doubled'
    BY Doubles
  <2> QED BY <2>9, <2>10, <2>11 DEF LastAdmin
<1>3. CASE users' = users
  <2>1. Admins' = Admins
    BY <1>3 DEF Admins
  <2>2. doubled => doubled'
    BY DEF Observes
  <2>3. AnAdminRemains'
    BY <1>3, <2>1, <2>2 DEF AnAdminRemains
  <2>4. ASSUME NEW x \in Requests, Removing(req'[x]), ~doubled'
        PROVE  Admins' \ {req'[x].who} # {}
    <3>1. CASE req'[x] = req[x]
      BY <2>1, <2>2, <2>4, <3>1 DEF LastAdmin
    <3>2. CASE x = r /\ Counts(r) /\ req[r].flag /\ Passes(r) /\ req'[r].who = req[r].who
      <4>1. ~Ends(r)
        <5>1. req'[r] # Idle
          BY <2>4, <3>2, IdleIs DEF Removing
        <5> QED BY <5>1 DEF Ends, TypeOK
      <4>2. ~LastOne(Cardinality(Admins))
        BY <3>2, <4>1 DEF Counts, Checks
      <4>3. Admins \ {req[r].who} # {}
        BY <4>2, Several
      <4> QED BY <2>1, <3>2, <4>3
    <3> QED BY <2>4, <3>1, <3>2, RemovingBegins
  <2>5. \A s, o \in Requests : Removing(req'[s]) /\ Removing(req'[o]) /\ s # o => doubled'
    BY Doubles
  <2> QED BY <2>3, <2>4, <2>5 DEF LastAdmin
<1>4. CreatesUser(r) /\ ~req[r].new => users' = users
  BY DEF CreatesUser
<1> QED BY <1>1, <1>2, <1>3, <1>4, DoesLeaves

-----------------------------------------------------------------------------
(* Calls that begin, things that expire, and restarts.                     *)

Meanwhile == Lapses \/ Restarts \/ \E r \in Requests, q \in Asks : Begins(r, q)

LEMMA MeanwhileSound ==
  ASSUME TypeOK, Calling, Linked, Meanwhile
  PROVE  Sound' /\ Later
BY LapsesSound, RestartsSound, BeginsSound DEF Meanwhile

LEMMA LapsesLeaves ==
  ASSUME TypeOK, Lapses
  PROVE  /\ users' = users /\ keys' = keys
         /\ \A m \in Ceremonies : ceremonies'[m] \in {ceremonies[m], None}
         /\ \A s \in Sessions : sessions'[s] \in {sessions[s], Gone}
         /\ \A i \in Invites : Has(invites', i) =>
              Has(invites, i) /\ invites'[i].admin = invites[i].admin
         /\ \A l \in Lines : Becomes(l)
<1>1. CASE \E i \in Invites : InviteLapses(i)
  <2>1. PICK i \in Invites : InviteLapses(i)
    BY <1>1
  <2>2. Has(invites, i) /\ invites[i] \in Invite
    BY <2>1 DEF InviteLapses, Pending, Has, TypeOK
  <2>3. [invites[i] EXCEPT !.live = FALSE].admin = invites[i].admin
    BY <2>2 DEF Invite
  <2>4. \A j \in Invites : Has(invites', j) =>
          Has(invites, j) /\ invites'[j].admin = invites[j].admin
    BY <2>1, <2>2, <2>3 DEF InviteLapses, Has, TypeOK
  <2> QED BY <2>1, <2>4 DEF InviteLapses, Becomes
<1>2. CASE \E s \in Sessions : SessionLapses(s)
  BY <1>2 DEF SessionLapses, Becomes, Has, TypeOK
<1>3. CASE \E l \in Lines : LineLapses(l)
  <2>1. PICK l \in Lines : LineLapses(l)
    BY <1>3
  <2>2. Lessens(l) /\ \A m \in Lines : m # l => lines'[m] = lines[m]
    BY <2>1, LineLapsed DEF Lessens
  <2>3. \A m \in Lines : Becomes(m)
    BY <2>2 DEF Becomes
  <2>4. UNCHANGED <<users, invites, keys, sessions, ceremonies>>
    BY <2>1 DEF LineLapses
  <2> QED BY <2>3, <2>4 DEF Has
<1>4. CASE \E m \in Ceremonies : CeremonyLapses(m)
  <2>1. UNCHANGED tables /\ \A m \in Ceremonies : ceremonies'[m] \in {ceremonies[m], None}
    BY <1>4 DEF CeremonyLapses, TypeOK
  <2> QED BY <2>1 DEF Becomes, Has, tables
<1> QED BY <1>1, <1>2, <1>3, <1>4 DEF Lapses

LEMMA MeanwhileLeaves ==
  ASSUME TypeOK, Linked, Meanwhile
  PROVE  /\ users' = users /\ keys' = keys
         /\ \A m \in Ceremonies : ceremonies'[m] \in {ceremonies[m], None}
         /\ \A s \in Sessions : sessions'[s] \in {sessions[s], Gone}
         /\ \A i \in Invites : Has(invites', i) =>
              invites'[i].admin \/ (Has(invites, i) /\ invites'[i].admin = invites[i].admin)
         /\ \A l \in Lines : Becomes(l)
<1>1. CASE Lapses
  BY <1>1, LapsesLeaves
<1>2. CASE Restarts
  <2>1. UNCHANGED <<users, keys, sessions, lines>> /\ \A m \in Ceremonies : ceremonies'[m] = None
    BY <1>2 DEF Restarts
  <2>2. \A i \in Invites : Has(invites', i) =>
          invites'[i].admin \/ (Has(invites, i) /\ invites'[i].admin = invites[i].admin)
    <3>1. CASE invites' = invites
      BY <3>1 DEF Has
    <3>2. CASE invites' = Minted(TRUE, None) /\ Free(invites) # {}
      <4> DEFINE i == Some(Free(invites))
                 new == [admin |-> TRUE, for |-> None, used |-> FALSE, live |-> TRUE]
      <4>1. i \in Invites /\ new.admin
        BY <3>2, FreeOne DEF TypeOK
      <4>2. invites' = [invites EXCEPT ![i] = new]
        BY <3>2 DEF Minted
      <4> HIDE DEF i, new
      <4> QED BY <4>1, <4>2 DEF Has, TypeOK
    <3> QED BY <1>2, <3>1, <3>2 DEF Restarts
  <2> QED BY <2>1, <2>2 DEF Becomes
<1>3. CASE \E r \in Requests, q \in Asks : Begins(r, q)
  <2>1. UNCHANGED <<users, invites, keys, sessions, lines, ceremonies>>
    BY <1>3 DEF Begins, tables
  <2> QED BY <2>1 DEF Becomes, Has
<1> QED BY <1>1, <1>2, <1>3 DEF Meanwhile

\* A call that begins has done nothing yet.
LEMMA StartsIdle ==
  ASSUME NEW p, Starts(p)
  PROVE  /\ ~Creates(p) /\ ~Knows(p) /\ ~Exchanging(p) /\ ~Dropping(p) /\ ~Removing(p)
         /\ p.at \notin {3, 4}
BY DEF Starts, Creates, Knows, Exchanging, Dropping, Removing

LEMMA MeanwhileStays ==
  ASSUME IInv, Observes, Meanwhile
  PROVE  /\ Sound' /\ Unborn' /\ Enrolments' /\ NobodyYet' /\ LastAdmin' /\ AnAdminRemains'
         /\ PaidOut' /\ OneLeft' /\ StaysCut' /\ Leaves'
<1> USE DEF IInv
<1>1. Sound' /\ Later
  BY MeanwhileSound
<1>2. /\ users' = users /\ keys' = keys
      /\ \A m \in Ceremonies : ceremonies'[m] \in {ceremonies[m], None}
      /\ \A s \in Sessions : sessions'[s] \in {sessions[s], Gone}
      /\ \A i \in Invites : Has(invites', i) =>
           invites'[i].admin \/ (Has(invites, i) /\ invites'[i].admin = invites[i].admin)
      /\ \A l \in Lines : Becomes(l)
  BY MeanwhileLeaves
<1>3. \A s \in Requests : req'[s] = req[s] \/ Starts(req'[s])
  BY Others DEF Meanwhile
<1>4. Unborn'
  <2>1. \A s \in Requests : Creates(req'[s]) => Creates(req[s]) /\ req'[s].user = req[s].user
    BY <1>3, StartsIdle
  <2>2. \A u \in Users : users[u] = None => users'[u] = None
    BY <1>2
  <2> QED BY <1>2, <2>1, <2>2, UnbornQuiet
<1>5. Enrolments'
  BY <1>1, <1>2, EnrolmentsQuiet
<1>6. NobodyYet'
  <2>1. \A m \in Ceremonies : Waits(m)' => Waits(m) /\ ceremonies'[m] = ceremonies[m]
    BY <1>2 DEF Waits
  <2>2. \A s \in Requests : Knows(req'[s]) => Knows(req[s]) /\ req'[s].flag = req[s].flag
    BY <1>3, StartsIdle
  <2> QED BY <1>1, <1>2, <2>1, <2>2, NobodyQuiet
<1>7. LastAdmin' /\ AnAdminRemains'
  <2>1. \A x \in Requests : Removing(req'[x]) => req'[x] = req[x]
    BY <1>3, StartsIdle
  <2>2. Admins \subseteq Admins' /\ \A u \in Users : users[u] = None => users'[u] = None
    BY <1>2 DEF Admins
  <2> QED BY <2>1, <2>2, AdminsQuiet
<1>8. PaidOut'
  <2>1. \A i \in Invites, s \in Requests : Pays(s, i)' => Pays(s, i)
    BY <1>3, StartsIdle DEF Pays
  <2>2. \A k \in Keys : Has(keys', k) => keys'[k] = keys[k]
    BY <1>2
  <2> QED BY <1>1, <2>1, <2>2, PaidQuiet DEF Sound
<1>9. OneLeft' /\ StaysCut'
  <2>1. \A x \in Requests : Exchanging(req'[x]) => Persists(x)
    BY <1>3, StartsIdle DEF Persists
  <2>2. ASSUME NEW s \in Requests, At(s, "cutRefresh")' PROVE Cutting(s)
    <3>1. InScript(req'[s])
      BY <1>1 DEF Sound, Requested, InScript
    <3>2. req'[s].op = "logoutOthers" /\ req'[s].at = 3
      <4>1. Places(req'[s].op, req'[s].at, Script[req'[s].op][req'[s].at])
        BY <3>1, UnderWay
      <4> QED BY <2>2, <4>1 DEF Places, At
    <3>3. req'[s] = req[s]
      BY <1>3, <3>2 DEF Starts
    <3>4. At(s, "cutRefresh")
      BY <2>2, <3>3 DEF At
    <3> QED BY <3>2, <3>3, <3>4 DEF Cutting, EndsLines
  <2> QED BY <1>1, <1>2, <2>1, <2>2, LinesOneLeft, LinesStayCut DEF Sound
<1>10. Leaves'
  <2>1. \A x \in Requests : Dropping(req'[x]) => req'[x] = req[x]
    BY <1>3, StartsIdle
  <2>2. \A s \in Sessions : Has(sessions', s) => sessions'[s] = sessions[s]
    BY <1>2 DEF Has
  <2>3. Requested' /\ spared \subseteq spared'
    BY <1>1 DEF Sound, Observes
  <2> QED BY <1>2, <2>1, <2>2, <2>3, LeavesQuiet
<1> QED BY <1>1, <1>4, <1>5, <1>6, <1>7, <1>8, <1>9, <1>10

-----------------------------------------------------------------------------
(* The invariant holds.                                                    *)

LEMMA StartsOff ==
  ASSUME Init
  PROVE  IInv
<1> USE DEF Init
<1>1. \A r \in Requests : req[r] = Idle
  OBVIOUS
<1>2. TypeOK
  <2>1. First.users \in [Users -> Rights \cup {None}]
        /\ First.invites \in [Invites -> Invite \cup {None}]
        /\ First.keys \in [Keys -> Key \cup {None}]
        /\ First.sessions \in [Sessions -> Session \cup {None}]
        /\ First.lines \in [Lines -> Line \cup {None}]
        /\ First.ceremonies \in [Ceremonies -> Ceremony \cup {None}]
    BY StartAssumption DEF Tables
  <2>2. Rows /\ Begun
    BY <2>1 DEF Rows, Begun
  <2>3. Requested
    BY <1>1, IdleIs DEF Requested, InScript
  <2>4. Counted
    <3>1. calls \in 0..MaxCalls
      BY GrantsAssumption
    <3>2. cut \subseteq Lines /\ excused \subseteq Lines /\ spared \subseteq Sessions
      OBVIOUS
    <3>3. doubled \in BOOLEAN
      OBVIOUS
    <3> QED BY <3>1, <3>2, <3>3 DEF Counted
  <2> QED BY <2>2, <2>3, <2>4, Typed
<1>3. Calling
  BY <1>1, IdleIs DEF Calling
<1>4. \A u \in Users : users[u] # None => users[u] \in Rights
  BY StartAssumption DEF Tables
<1>5. /\ \A i \in Invites : Has(invites, i) => invites[i] \in Invite
      /\ \A k \in Keys : Has(keys, k) => keys[k] \in Key
      /\ \A s \in Sessions : Has(sessions, s) => sessions[s] \in Session
      /\ \A l \in Lines : Has(lines, l) => lines[l] \in Line
      /\ \A m \in Ceremonies : ceremonies[m] # None => ceremonies[m] \in Ceremony
  BY <1>2 DEF TypeOK, Has
<1>6. Linked
  <2>1. \A i \in Invites : Has(invites, i) => invites[i].for = None \/ Lives(invites[i].for)
    BY <1>4, <1>5, StartAssumption DEF Has, Lives, Invite
  <2>2. \A k \in Keys : Has(keys, k) => Lives(keys[k].user)
    BY <1>4, <1>5, StartAssumption DEF Has, Lives, Key
  <2>3. ASSUME NEW s \in Sessions, Has(sessions, s)
        PROVE  /\ Lives(sessions[s].user) /\ keys[sessions[s].key] # None
               /\ keys[sessions[s].key].user = sessions[s].user
    <3>1. sessions[s] # None /\ sessions[s].key \in Keys /\ sessions[s].user \in Users
      BY <1>5, <2>3 DEF Has, Session
    <3>2. keys[sessions[s].key] # None /\ keys[sessions[s].key].user = sessions[s].user
      BY <3>1, StartAssumption
    <3>3. users[keys[sessions[s].key].user] # None
      BY <3>1, <3>2, StartAssumption
    <3> QED BY <1>4, <3>1, <3>2, <3>3 DEF Lives
  <2>4. \A l \in Lines : Has(lines, l) => Lives(lines[l].user)
    BY <1>4, <1>5, StartAssumption DEF Has, Lives, Line
  <2> QED BY <2>1, <2>2, <2>3, <2>4 DEF Linked
<1>7. Unborn
  <2>1. \A m \in Ceremonies : Waits(m) => users[ceremonies[m].user] = None
    BY StartAssumption DEF Waits, Enrolling
  <2>2. \A m, n \in Ceremonies :
          Waits(m) /\ Waits(n) /\ ceremonies[m].user = ceremonies[n].user => m = n
    BY StartAssumption DEF Waits
  <2>3. \A r \in Requests : ~Creates(req[r])
    BY <1>1, IdleIs DEF Creates
  <2> QED BY <2>1, <2>2, <2>3 DEF Unborn
<1>8. Enrolments
  <2> SUFFICES ASSUME NEW m \in Ceremonies, ceremonies[m] # None
               PROVE  Enrolled(Put(ceremonies[m]), invites)
    BY DEF Enrolments, Put
  <2>1. Enrolling(ceremonies[m]) /\ ceremonies[m].invite \in Invites \cup {None}
    BY <1>5, StartAssumption DEF Ceremony
  <2>2. None \notin Users
    BY Distinct
  <2>3. Put(ceremonies[m]).user = ceremonies[m].user
        /\ Put(ceremonies[m]).invite = ceremonies[m].invite
        /\ Put(ceremonies[m]).flag = ceremonies[m].admin
        /\ Put(ceremonies[m]).new = ceremonies[m].new
    BY DEF Put
  <2> QED BY <2>1, <2>2, <2>3 DEF Enrolled, Enrolling
<1>9. NobodyYet
  <2> SUFFICES ASSUME \A u \in Users : users[u] = None
               PROVE  /\ \A i \in Invites : Has(invites, i) => invites[i].admin
                      /\ \A m \in Ceremonies : Waits(m) => ceremonies[m].admin
    BY <1>1, IdleIs DEF NobodyYet
  <2>1. \A u \in Users : users[u] # "admin"
    BY Distinct DEF Rights
  <2>2. \A i \in Invites : invites[i] # None => invites[i].admin
    BY <2>1, StartAssumption
  <2>3. ASSUME NEW m \in Ceremonies, Waits(m) PROVE ceremonies[m].admin
    <3>1. Enrolling(ceremonies[m]) /\ ceremonies[m].new
      BY <2>3, StartAssumption DEF Waits
    <3>2. ceremonies[m].invite \in Invites /\ invites[ceremonies[m].invite] # None
          /\ ceremonies[m].admin = invites[ceremonies[m].invite].admin
      BY <1>5, <2>3, <3>1 DEF Enrolling, Ceremony, Waits
    <3> QED BY <2>2, <3>2
  <2> QED BY <2>2, <2>3 DEF Has
<1>10. LastAdmin
  BY <1>1, IdleIs DEF LastAdmin, Removing
<1>11. AnAdminRemains
  BY StartAssumption DEF AnAdminRemains, Admins
<1>12. PaidOut
  <2>1. \A k \in Keys, i \in Invites : ~Paid(k, i)
    <3> SUFFICES ASSUME NEW k \in Keys, NEW i \in Invites, Paid(k, i) PROVE FALSE
      OBVIOUS
    <3>1. keys[k].by = None
      BY StartAssumption DEF Paid, Has
    <3> QED BY <3>1, Distinct DEF Paid
  <2>2. \A r \in Requests, i \in Invites : ~Pays(r, i)
    BY <1>1, IdleIs DEF Pays
  <2> QED BY <2>1, <2>2 DEF PaidOut
<1>13. OneLeft
  <2>1. \A r \in Requests, l \in Lines : ~Exchanges(r, l)
    BY <1>1, IdleIs DEF Exchanges
  <2> SUFFICES ASSUME NEW l \in Lines, Has(lines, l)
               PROVE  /\ lines[l].refresh \in {0, 1}
                      /\ lines[l].code => ~lines[l].access /\ lines[l].refresh = 0
    BY <2>1 DEF OneLeft
  <2>2. lines[l].refresh \in Nat
    BY <1>5 DEF Line
  <2>3. IF lines[l].code THEN ~lines[l].access /\ lines[l].refresh = 0 ELSE lines[l].refresh <= 1
    BY StartAssumption DEF Has
  <2> QED BY <2>2, <2>3
<1>14. StaysCut
  <2>1. \A r \in Requests : ~At(r, "cutRefresh")
    BY <1>1, <1>2, IdleIs, Standing DEF Places
  <2> QED BY <2>1 DEF StaysCut
<1>15. Leaves
  <2>1. \A r \in Requests : req[r].op # "deleteKey"
    BY <1>1, IdleIs
  <2>2. \A k \in Keys : keys[k] # Gone
    BY StartAssumption, Distinct DEF Tables
  <2>3. ASSUME NEW s \in Sessions, Has(sessions, s) PROVE Has(keys, sessions[s].key)
    <3>1. sessions[s].key \in Keys /\ keys[sessions[s].key] # None
      BY <1>5, <1>6, <2>3 DEF Linked, Session
    <3> QED BY <1>2, <2>2, <3>1 DEF Has, TypeOK
  <2> QED BY <2>1, <2>3 DEF Leaves
<1> QED BY <1>2, <1>3, <1>6, <1>7, <1>8, <1>9, <1>10, <1>11, <1>12, <1>13, <1>14, <1>15 DEF IInv

LEMMA CountedSteps ==
  ASSUME TypeOK, Next
  PROVE  Counted'
<1>1. calls' \in 0..MaxCalls
  BY GrantsAssumption DEF Next, TypeOK
<1>2. Observes
  BY DEF Next
<1>3. cut' \subseteq Lines /\ excused' \subseteq Lines /\ spared' \subseteq Sessions
  BY <1>2 DEF Observes, TypeOK
<1>4. doubled' \in BOOLEAN
  <2>1. doubled' = (doubled \/ \E s, t \in Requests :
          s # t /\ \A q \in {req'[s], req'[t]} : q.op = "deleteUser" /\ q.at = 3 /\ q.flag)
    BY <1>2 DEF Observes
  <2> QED BY <2>1, Zenon
<1> QED BY <1>1, <1>3, <1>4 DEF Counted

LEMMA NextIs ==
  ASSUME Next
  PROVE  Observes /\ (Meanwhile \/ \E r \in Requests : Does(r))
BY DEF Next, Meanwhile, Does

LEMMA TypedNext == TypeOK' <=> Rows' /\ Begun' /\ Requested' /\ Counted'
BY DEF TypeOK, Rows, Begun, Requested, Counted, InScript

LEMMA StepStays ==
  ASSUME IInv, Next
  PROVE  IInv'
<1> USE DEF IInv
<1>1. Observes /\ Counted'
  BY NextIs, CountedSteps
<1>2. CASE Meanwhile
  <2>1. /\ Sound' /\ Unborn' /\ Enrolments' /\ NobodyYet' /\ LastAdmin' /\ AnAdminRemains'
        /\ PaidOut' /\ OneLeft' /\ StaysCut' /\ Leaves'
    BY <1>1, <1>2, MeanwhileStays
  <2>2. TypeOK'
    BY <1>1, <2>1, TypedNext DEF Sound
  <2> QED BY <2>1, <2>2 DEF Sound
<1>3. ASSUME NEW r \in Requests, Does(r) PROVE IInv'
  <2>1. Sound' /\ Later
    BY <1>3, DoesSound
  <2>2. TypeOK' /\ Calling' /\ Linked'
    BY <1>1, <2>1, TypedNext DEF Sound
  <2>3. Unborn'
    BY <1>3, UnbornSteps
  <2>4. Enrolments'
    BY <1>3, <2>1, EnrolmentsSteps
  <2>5. NobodyYet'
    BY <1>3, <2>1, NobodySteps
  <2>6. LastAdmin' /\ AnAdminRemains'
    BY <1>1, <1>3, AdminsSteps
  <2>7. PaidOut'
    BY <1>3, <2>1, <2>2, PaidSteps
  <2>8. OneLeft' /\ StaysCut'
    BY <1>1, <1>3, <2>1, LinesSteps
  <2>9. Leaves'
    BY <1>1, <1>3, <2>1, LeavesSteps
  <2> QED BY <2>2, <2>3, <2>4, <2>5, <2>6, <2>7, <2>8, <2>9
<1> QED BY <1>2, <1>3, NextIs

LEMMA StutterStays ==
  ASSUME IInv, UNCHANGED vars
  PROVE  IInv'
<1> USE DEF IInv, vars, tables
<1>1. TypeOK'
  BY DEF TypeOK
<1>2. Calling'
  BY DEF Calling
<1>3. Linked'
  BY DEF Linked, Has, Lives
<1>4. Unborn' /\ Enrolments'
  BY DEF Unborn, Waits, Creates, Enrolments
<1>5. NobodyYet'
  BY DEF NobodyYet, Has, Waits
<1>6. LastAdmin' /\ AnAdminRemains'
  BY DEF LastAdmin, AnAdminRemains, Admins, Removing
<1>7. PaidOut'
  BY DEF PaidOut, Paid, Pays, Has
<1>8. OneLeft' /\ StaysCut'
  BY DEF OneLeft, StaysCut, Exchanges, Exchanging, At, OfUser, Has
<1>9. Leaves'
  BY DEF Leaves, Has, At
<1> QED BY <1>1, <1>2, <1>3, <1>4, <1>5, <1>6, <1>7, <1>8, <1>9

LEMMA Always == Spec => []IInv
<1>1. Init => IInv
  BY StartsOff
<1>2. IInv /\ [Next]_vars => IInv'
  BY StepStays, StutterStays
<1> QED BY <1>1, <1>2, PTL DEF Spec

-----------------------------------------------------------------------------
(* Theorems.                                                               *)

LEMMA AtMostOne ==
  ASSUME NEW S, \A x, y \in S : x = y
  PROVE  /\ Cardinality(S) \in {0, 1}
         /\ S = {} => Cardinality(S) = 0
<1>1. CASE S = {}
  BY <1>1, FS_EmptySet
<1>2. CASE S # {}
  <2>1. PICK x \in S : S = {x}
    BY <1>2
  <2> QED BY <1>2, <2>1, FS_Singleton
<1> QED BY <1>1, <1>2

\* Every row, ceremony and call is of its kind, and a call under way is at a
\* statement of its handler (accessors.go, auth_handlers.go, oauth_handlers.go).
THEOREM GrantsTypes == Spec => []TypeOK
<1>1. IInv => TypeOK
  BY DEF IInv
<1> QED BY <1>1, Always, PTL

\* An invite pays for one passkey at most, on the account it was made for or
\* with the rights it carried: "the consume is the atomic single-use gate, so
\* nothing may be created ahead of winning it" (webauthn.go:208-211).
THEOREM InvitesPayOnce == Spec => []InvitePaysOnce
<1>1. ASSUME IInv, NEW i \in Invites
      PROVE  /\ Cardinality(PaidBy(i)) + Cardinality(Spending(i)) <= 1
             /\ Unspent(i) => PaidBy(i) = {} /\ Spending(i) = {}
             /\ \A k \in PaidBy(i) : Has(invites, i) =>
                  IF invites[i].for # None THEN keys[k].user = invites[i].for
                  ELSE (keys[k].user \in Admins) = invites[i].admin
  <2> USE DEF IInv
  <2>1. \A k \in PaidBy(i) : k \in Keys /\ Paid(k, i)
    BY DEF PaidBy, Paid
  <2>2. \A r \in Spending(i) : r \in Requests /\ Pays(r, i)
    BY DEF Spending, Pays
  <2>3. Cardinality(PaidBy(i)) + Cardinality(Spending(i)) <= 1
    <3>1. \A k, n \in PaidBy(i) : k = n
      BY <1>1, <2>1 DEF PaidOut
    <3>2. \A r, o \in Spending(i) : r = o
      BY <1>1, <2>2 DEF PaidOut
    <3>3. PaidBy(i) = {} \/ Spending(i) = {}
      BY <1>1, <2>1, <2>2 DEF PaidOut
    <3>4. Cardinality(PaidBy(i)) \in {0, 1} /\ (PaidBy(i) = {} => Cardinality(PaidBy(i)) = 0)
      BY <3>1, AtMostOne
    <3>5. Cardinality(Spending(i)) \in {0, 1} /\ (Spending(i) = {} => Cardinality(Spending(i)) = 0)
      BY <3>2, AtMostOne
    <3> QED BY <3>3, <3>4, <3>5
  <2>4. ASSUME Unspent(i) PROVE PaidBy(i) = {} /\ Spending(i) = {}
    <3>1. Has(invites, i) /\ ~invites[i].used
      BY <2>4 DEF Unspent
    <3>2. \A k \in Keys : ~Paid(k, i)
      BY <1>1, <3>1 DEF PaidOut
    <3>3. ASSUME NEW r \in Requests, Pays(r, i) PROVE FALSE
      <4>1. TakenIn(req[r], users, invites)
        BY <1>1 DEF Calling, CallIn
      <4>2. req[r].op = "registerFinish" /\ req[r].at > 2 /\ req[r].at > 1 /\ req[r].invite = i
        BY <3>3 DEF Pays
      <4> QED BY <3>1, <4>1, <4>2 DEF TakenIn, Has
    <3> QED BY <2>1, <2>2, <3>2, <3>3
  <2>5. ASSUME NEW k \in PaidBy(i), Has(invites, i)
        PROVE  IF invites[i].for # None THEN keys[k].user = invites[i].for
               ELSE (keys[k].user \in Admins) = invites[i].admin
    <3>1. k \in Keys /\ Paid(k, i)
      BY <2>1
    <3>2. IF invites[i].for # None THEN keys[k].user = invites[i].for
          ELSE (users[keys[k].user] = "admin") = invites[i].admin
      BY <1>1, <2>5, <3>1 DEF PaidOut
    <3>3. keys[k].user \in Users
      BY <1>1, <3>1 DEF Paid, Linked, Lives
    <3>4. keys[k].user \in Admins <=> users[keys[k].user] = "admin"
      BY <3>3 DEF Admins
    <3> QED BY <3>2, <3>4
  <2> QED BY <2>3, <2>4, <2>5
<1>2. IInv => InvitePaysOnce
  BY <1>1 DEF InvitePaysOnce
<1> QED BY <1>2, Always, PTL

\* Of a line there is one code, one refresh token or one exchange, never two:
\* "the old value is spent the moment it is read" (accessors.go:594-596).
THEOREM RotationsAreLinear == Spec => []RotationIsLinear
<1>1. ASSUME IInv, NEW l \in Lines, Has(lines, l)
      PROVE  (IF lines[l].code THEN 1 ELSE 0) + lines[l].refresh + Cardinality(Between(l)) <= 1
  <2> USE DEF IInv
  <2>1. /\ lines[l].refresh \in {0, 1}
        /\ lines[l].code => lines[l].refresh = 0
        /\ \A r \in Requests : Exchanges(r, l) => ~lines[l].code /\ lines[l].refresh = 0
        /\ \A r, o \in Requests : Exchanges(r, l) /\ Exchanges(o, l) => r = o
    BY <1>1 DEF OneLeft
  <2>2. \A r \in Between(l) : r \in Requests /\ Exchanges(r, l)
    BY DEF Between, Exchanges
  <2>3. /\ Cardinality(Between(l)) \in {0, 1}
        /\ Between(l) = {} => Cardinality(Between(l)) = 0
    <3>1. \A r, o \in Between(l) : r = o
      BY <2>1, <2>2
    <3> QED BY <3>1, AtMostOne
  <2>4. Between(l) # {} => ~lines[l].code /\ lines[l].refresh = 0
    BY <2>1, <2>2
  <2> QED BY <2>1, <2>3, <2>4
<1>2. IInv => RotationIsLinear
  BY <1>1 DEF RotationIsLinear
<1> QED BY <1>2, Always, PTL

\* What has been revoked stays so: nothing is left of an account that is gone;
\* no token descends from one a log-out everywhere cut ("a leaked token must
\* not survive the rotation", auth_handlers.go:138) but by an exchange under way
\* meanwhile; a passkey's sessions are gone before it is, but the remover's own
\* and those of a login that overlapped (auth_handlers.go:177).
THEOREM RevokedStaysRevoked == Spec => []RevokedStaysOut
<1>1. IInv => RevokedStaysOut
  BY DEF IInv, RevokedStaysOut, Linked, StaysCut, Leaves, Has
<1> QED BY <1>1, Always, PTL

\* Once there has been an account there is an admin, unless two removals have
\* overlapped: "refuse to remove the last admin so the instance can't be locked
\* out of its own user management" (auth_handlers.go:312).
THEOREM AdminsRemain == Spec => []AnAdminRemains
<1>1. IInv => AnAdminRemains
  BY DEF IInv
<1> QED BY <1>1, Always, PTL
=============================================================================
