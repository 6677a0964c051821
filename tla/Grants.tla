------------------------------- MODULE Grants -------------------------------
(***************************************************************************)
(* What lets somebody in, and what shuts them out: accounts, invites,      *)
(* passkeys and their ceremonies (internal/auth), sessions, and the codes  *)
(* and tokens of the OAuth server, as the handlers of auth_handlers.go and *)
(* oauth_handlers.go use the store (internal/store/accessors.go).          *)
(*                                                                         *)
(* A step is one SQL statement or transaction, for the store has one       *)
(* connection, or one use of the ceremonies, which are in memory.  A call  *)
(* is a script of such steps; other calls run in between, and a restart    *)
(* cuts it short.  Ids are random, so which one is taken is of no          *)
(* consequence, and none is used twice.                                    *)
(***************************************************************************)
EXTENDS Integers, Sequences, FiniteSets

CONSTANTS
  Users, Invites, Keys, Sessions,
  Ceremonies,  (* bound: enrolments and logins begun and not yet finished  *)
  Lines,       (* an authorization code and the tokens that come of it     *)
  Requests,    (* bound: calls under way at once                           *)
  Asks,        (* the calls that may be made                               *)
  First,       (* the tables at the start, a record of one field each      *)
  MaxCalls,    (* bound: calls, and things that expire, in all             *)
  None,        (* not in use yet; no user, no invite, no session           *)
  Gone         (* deleted                                                  *)

VARIABLES
  users,       (* the rights of each account                               *)
  invites, keys, sessions,
  ceremonies,  (* auth.Manager.ceremonies                                  *)
  lines,       (* each line's code, access token and refresh tokens        *)
  req,         (* the calls under way                                      *)
  calls,       (* how many calls have begun and things expired             *)
  cut,         (* history: lines a log-out everywhere has ended            *)
  excused,     (* history: lines with an exchange under way meanwhile      *)
  spared,      (* history: sessions a passkey's removal need not end       *)
  doubled      (* history: two removals of admins have overlapped          *)

tables == <<users, invites, keys, sessions, lines>>
vars == <<tables, ceremonies, req, calls, cut, excused, spared, doubled>>

-----------------------------------------------------------------------------

Rights == {"admin", "reader"}
Invite == [admin : BOOLEAN, for : Users \cup {None}, used : BOOLEAN, live : BOOLEAN]
Key == [user : Users, by : Invites \cup {None}]  \* by: history, what paid for it
Session == [user : Users, key : Keys]            \* key: history
Line == [user : Users, code : BOOLEAN, access : BOOLEAN, refresh : Nat]
Ceremony == [user : Users \cup {None}, invite : Invites \cup {None}, admin : BOOLEAN,
             new : BOOLEAN]
Tables ==
  [users : [Users -> Rights \cup {None}], invites : [Invites -> Invite \cup {None}],
   keys : [Keys -> Key \cup {None}], sessions : [Sessions -> Session \cup {None}],
   lines : [Lines -> Line \cup {None}], ceremonies : [Ceremonies -> Ceremony \cup {None}]]

ASSUME GrantsAssumption ==
  /\ MaxCalls \in Nat /\ None # Gone
  /\ {None, Gone} \cap (Users \cup Invites \cup Keys \cup Sessions \cup Lines) = {}
  /\ {None, Gone} \cap (Rights \cup Invite \cup Key \cup Session \cup Line \cup Ceremony) = {}

\* An enrolment is for its invite's account, or for a new one with its rights.
Enrolling(c) ==
  /\ c.new => c.invite # None /\ c.user \in Users /\ First.users[c.user] = None
  /\ c.invite # None =>
       /\ First.invites[c.invite] # None /\ c.admin = First.invites[c.invite].admin
       /\ IF c.new THEN First.invites[c.invite].for = None
          ELSE First.invites[c.invite].for \in Users \cap {c.user}

\* The tables at the start are those of a database in order.
ASSUME StartAssumption ==
  /\ First \in Tables
  /\ \A i \in Invites : First.invites[i] # None =>
       First.invites[i].for = None \/ First.users[First.invites[i].for] # None
  /\ \A k \in Keys : First.keys[k] # None =>
       First.users[First.keys[k].user] # None /\ First.keys[k].by = None
  /\ \A s \in Sessions : First.sessions[s] # None =>
       /\ First.keys[First.sessions[s].key] # None
       /\ First.keys[First.sessions[s].key].user = First.sessions[s].user
  /\ \A l \in Lines : First.lines[l] # None =>
       /\ First.users[First.lines[l].user] # None
       /\ IF First.lines[l].code THEN ~First.lines[l].access /\ First.lines[l].refresh = 0
          ELSE First.lines[l].refresh <= 1
  /\ \A m \in Ceremonies : First.ceremonies[m] # None => Enrolling(First.ceremonies[m])
  /\ \A m, n \in Ceremonies :
       /\ m # n /\ First.ceremonies[m] # None /\ First.ceremonies[n] # None
       /\ First.ceremonies[m].new
       => First.ceremonies[m].user # First.ceremonies[n].user
  /\ \/ \E u \in Users : First.users[u] = "admin"
     \/ /\ \A u \in Users : First.users[u] = None
        /\ \A i \in Invites : First.invites[i] # None => First.invites[i].admin

Lives(u) == u \in Users /\ users[u] \in Rights
Admins == {u \in Users : users[u] = "admin"}
Has(table, x) == x \in DOMAIN table /\ table[x] \notin {None, Gone}

\* GetInvite with BeginRegistration's check, and ConsumeInvite's WHERE.
Pending(i) ==  \* Mutant: used_at is not looked at.
  Has(invites, i) /\ invites[i].live
Unspent(i) == Has(invites, i) /\ invites[i].live /\ ~invites[i].used

-----------------------------------------------------------------------------
(* Calls.                                                                  *)

\* What each handler does, statement by statement.
handleRegisterBegin == <<"invite", "account", "put">>
handleRegisterFinish == <<"take", "consume", "user", "passkey", "session">>
handleAddDeviceBegin == <<"put">>
handleAddDeviceFinish == <<"take", "passkey">>
handleLoginBegin == <<"put">>
handleLoginFinish == <<"take", "find", "account", "keys", "session">>
handleLogout == <<"signOut">>
handleLogoutOthers == <<"cutSessions", "cutAccess", "cutRefresh">>
DropsFirst == <<"dropKey", "cutSessions">>  \* Mutant: the passkey goes first.
handleDeleteCredential == <<"cutSessions", "dropKey">>
handleCreateInvite == <<"mint">>
handleRevokeInvite == <<"revoke">>
handleResetUser == <<"account", "cutAll", "mint">>
handleDeleteUser == <<"target", "count", "drop">>
handleAuthorizeConsent == <<"code">>
tokenFromCode == <<"redeem", "access", "refresh">>
tokenFromRefresh == <<"rotate", "access", "refresh">>
Script ==
  [idle |-> <<"idle">>,
   registerBegin |-> handleRegisterBegin, registerFinish |-> handleRegisterFinish,
   addBegin |-> handleAddDeviceBegin, addFinish |-> handleAddDeviceFinish,
   loginBegin |-> handleLoginBegin, loginFinish |-> handleLoginFinish,
   logout |-> handleLogout, logoutOthers |-> handleLogoutOthers,
   deleteKey |-> handleDeleteCredential,
   createInvite |-> handleCreateInvite, revokeInvite |-> handleRevokeInvite,
   reset |-> handleResetUser, deleteUser |-> handleDeleteUser,
   consent |-> handleAuthorizeConsent,
   exchange |-> tokenFromCode, renew |-> tokenFromRefresh]

Idle == [op |-> "idle", at |-> 1, user |-> None, session |-> None, who |-> None,
         invite |-> None, cid |-> None, key |-> None, line |-> None,
         flag |-> FALSE, new |-> FALSE]

Call == [op : DOMAIN Script, at : Nat \ {0}, user : Users \cup {None},
         session : Sessions \cup {None}, who : Users \cup {None},
         invite : Invites \cup {None}, cid : Ceremonies \cup {None}, key : Keys \cup {None},
         line : Lines \cup {None}, flag : BOOLEAN, new : BOOLEAN]

\* A call is asked for with what its handler takes: only who opens or revokes
\* an invite names one, and a new invite is for a newcomer.
ASSUME AsksAssumption ==
  \A q \in Asks :
    /\ q \in Call /\ q.at = 1 /\ ~q.new
    /\ q.invite # None => q.op \in {"registerBegin", "revokeInvite"}
    /\ q.op = "createInvite" => q.who = None

Open == {"registerBegin", "registerFinish", "loginBegin", "loginFinish", "logout",
         "exchange", "renew"}  \* no middleware
ForAdmins == {"createInvite", "revokeInvite", "reset", "deleteUser"}  \* requireAdmin

At(r, step) == Script[req[r].op][req[r].at] = step
Following(q) == IF q.at = Len(Script[q.op]) THEN Idle ELSE [q EXCEPT !.at = @ + 1]
PassesAs(r, q) == req' = [req EXCEPT ![r] = Following(q)]
Passes(r) == PassesAs(r, req[r])
Ends(r) == req' = [req EXCEPT ![r] = Idle]
Checks(r, ok) == IF ok THEN Passes(r) ELSE Ends(r)

\* currentUser finds the session's user, who is who the call acts for.
Caller(q) == IF Has(sessions, q.session) THEN sessions[q.session].user ELSE None
Begins(r, q) ==
  /\ req[r] = Idle
  /\ q.op \in Open \/ Lives(Caller(q))
  /\ q.op \in ForAdmins => Caller(q) \in Admins
  /\ req' = [req EXCEPT ![r] = [q EXCEPT !.user = Caller(q)]]
  /\ UNCHANGED <<tables, ceremonies>>

-----------------------------------------------------------------------------
(* Ceremonies.                                                             *)

Free(table) == {x \in DOMAIN table : table[x] = None}
Some(set) == CHOOSE x \in set : TRUE
FreeUsers ==
  {u \in Free(users) : /\ \A m \in Ceremonies : ceremonies[m] # None => ceremonies[m].user # u
                       /\ \A r \in Requests : req[r].user # u}
FreeCids == {m \in Free(ceremonies) : \A r \in Requests : req[r].cid # m}

\* BeginRegistration: the invite's user, if it is a recovery, must be there.
ReadsInvite(r) ==
  /\ At(r, "invite")
  /\ LET q == req[r] IN
       IF Unspent(q.invite)
       THEN PassesAs(r, [q EXCEPT !.flag = invites[q.invite].admin,
                                  !.who = invites[q.invite].for])
       ELSE Ends(r)
  /\ UNCHANGED <<tables, ceremonies>>

\* put: an enrolment of a new account, under an id made up here, or of an
\* existing one, or a login.
Subject(q) ==
  CASE q.op = "registerBegin" /\ q.who = None -> Some(FreeUsers)
    [] q.op = "registerBegin" /\ q.who # None -> q.who
    [] q.op = "addBegin" -> q.user
    [] OTHER -> None
Puts(r) ==
  /\ At(r, "put") /\ FreeCids # {}
  /\ LET q == req[r]  new == q.op = "registerBegin" /\ q.who = None IN
       /\ new => FreeUsers # {}
       /\ ceremonies' = [ceremonies EXCEPT ![Some(FreeCids)] =
            [user |-> Subject(q), invite |-> q.invite, admin |-> q.flag, new |-> new]]
  /\ Passes(r)
  /\ UNCHANGED tables

\* take, and the finish's own checks: an added device's ceremony is the
\* session user's, a login's has no user.  The authenticator's answer may be
\* refused, too.
Takes(r) ==
  LET q == req[r]
      m == IF Has(ceremonies, q.cid) THEN ceremonies[q.cid] ELSE [user |-> Gone]
      ok == /\ m.user # Gone
            /\ q.op = "addFinish" => m.user = q.user
            /\ q.op = "loginFinish" => m.user = None
  IN /\ At(r, "take")
     /\ ceremonies' = IF Has(ceremonies, q.cid) THEN [ceremonies EXCEPT ![q.cid] = None]
                      ELSE ceremonies
     /\ \/ Ends(r)
        \/ ok /\ PassesAs(r, IF q.op = "registerFinish"
                             THEN [q EXCEPT !.user = m.user, !.invite = m.invite,
                                            !.flag = m.admin, !.new = m.new]
                             ELSE q)
     /\ UNCHANGED tables

\* ConsumeInvite.
Consumes(r) ==
  /\ At(r, "consume")
  /\ LET i == req[r].invite IN
       IF Unspent(i)
       THEN invites' = [invites EXCEPT ![i].used = TRUE] /\ Passes(r)
       ELSE Ends(r) /\ UNCHANGED invites
  /\ UNCHANGED <<users, keys, sessions, lines, ceremonies>>

\* CreateUser, unless the invite is a recovery.
CreatesUser(r) ==
  /\ At(r, "user") /\ Passes(r)
  /\ users' = IF req[r].new
              THEN [users EXCEPT ![req[r].user] = IF req[r].flag THEN "admin" ELSE "reader"]
              ELSE users
  /\ UNCHANGED <<invites, keys, sessions, lines, ceremonies>>

\* storeCredential; the foreign key wants the account.
AddsKey(r) ==
  /\ At(r, "passkey") /\ Free(keys) # {}
  /\ LET q == req[r]  k == Some(Free(keys)) IN
       IF Lives(q.user)
       THEN /\ keys' = [keys EXCEPT ![k] = [user |-> q.user, by |-> q.invite]]
            /\ PassesAs(r, [q EXCEPT !.key = k])
       ELSE Ends(r) /\ UNCHANGED keys
  /\ UNCHANGED <<users, invites, sessions, lines, ceremonies>>

\* FinishLogin's CredentialByCredID, and then GetUser and loadAuthUser.
FindsKey(r) ==
  /\ At(r, "find")
  /\ LET q == req[r] IN
       IF Has(keys, q.key) THEN PassesAs(r, [q EXCEPT !.user = keys[q.key].user])
       ELSE Ends(r)
  /\ UNCHANGED <<tables, ceremonies>>
Looks(r) ==
  LET q == req[r] IN
    /\ \/ At(r, "account") /\ q.op = "registerBegin" /\ Checks(r, q.who = None \/ Lives(q.who))
       \/ At(r, "account") /\ q.op = "loginFinish" /\ Checks(r, Lives(q.user))
       \/ At(r, "account") /\ q.op = "reset" /\ Checks(r, Lives(q.who))
       \/ At(r, "keys") /\ Checks(r, Has(keys, q.key))
    /\ UNCHANGED <<tables, ceremonies>>

\* issueSession; the foreign key wants the account.
OpensSession(r) ==
  /\ At(r, "session") /\ Free(sessions) # {}
  /\ LET q == req[r] IN
       IF Lives(q.user)
       THEN /\ sessions' = [sessions EXCEPT ![Some(Free(sessions))] =
                             [user |-> q.user, key |-> q.key]]
            /\ Passes(r)
       ELSE Ends(r) /\ UNCHANGED sessions
  /\ UNCHANGED <<users, invites, keys, lines, ceremonies>>

-----------------------------------------------------------------------------
(* Signing out.                                                            *)

Without(table, gone(_)) ==
  [x \in DOMAIN table |-> IF Has(table, x) /\ gone(x) THEN Gone ELSE table[x]]

DeletesSessions(r, step, gone(_)) ==
  /\ At(r, step) /\ sessions' = Without(sessions, gone) /\ Passes(r)
  /\ UNCHANGED <<users, invites, keys, lines, ceremonies>>
DeleteSession(r) == DeletesSessions(r, "signOut", LAMBDA s : s = req[r].session)
DeleteUserSessionsExcept(r) ==
  DeletesSessions(r, "cutSessions",
                  LAMBDA s : sessions[s].user = req[r].user /\ s # req[r].session)
DeleteUserSessions(r) == DeletesSessions(r, "cutAll", LAMBDA s : sessions[s].user = req[r].who)

\* DeleteUserOAuthTokens: two statements.  Codes are left.
OfUser(l, u) == Has(lines, l) /\ lines[l].user = u
CutsTokens(r) ==
  LET u == req[r].user IN
    /\ lines' = [l \in Lines |->
         IF OfUser(l, u) /\ At(r, "cutAccess") THEN [lines[l] EXCEPT !.access = FALSE]
         ELSE IF OfUser(l, u) /\ At(r, "cutRefresh") THEN [lines[l] EXCEPT !.refresh = 0]
         ELSE lines[l]]
    /\ At(r, "cutAccess") \/ At(r, "cutRefresh")
    /\ Passes(r)
    /\ UNCHANGED <<users, invites, keys, sessions, ceremonies>>

\* DeleteCredential WHERE user_id is the caller.
DropsKey(r) ==
  /\ At(r, "dropKey") /\ Passes(r)
  /\ keys' = Without(keys, LAMBDA k : k = req[r].key /\ keys[k].user = req[r].user)
  /\ UNCHANGED <<users, invites, sessions, lines, ceremonies>>

-----------------------------------------------------------------------------
(* What admins do.                                                         *)

\* NewInvite: for a newcomer, or for the account that has been reset.
Minted(admin, for) ==
  [invites EXCEPT ![Some(Free(invites))] =
     [admin |-> admin, for |-> for, used |-> FALSE, live |-> TRUE]]
Mints(r) ==
  /\ At(r, "mint") /\ Free(invites) # {}
  /\ LET q == req[r] IN
       IF IF q.op = "reset" THEN Lives(q.who) ELSE Lives(q.user)
       THEN invites' = Minted(IF q.op = "reset" THEN q.who \in Admins ELSE q.flag, q.who)
            /\ Passes(r)
       ELSE Ends(r) /\ UNCHANGED invites
  /\ UNCHANGED <<users, keys, sessions, lines, ceremonies>>
Revokes(r) ==
  /\ At(r, "revoke") /\ Passes(r)
  /\ invites' = Without(invites, LAMBDA i : i = req[r].invite)
  /\ UNCHANGED <<users, keys, sessions, lines, ceremonies>>

\* handleDeleteUser: the target, then the count, then the deletion.
Targets(r) ==
  /\ At(r, "target")
  /\ LET q == req[r] IN
       IF Lives(q.who) THEN PassesAs(r, [q EXCEPT !.flag = q.who \in Admins]) ELSE Ends(r)
  /\ UNCHANGED <<tables, ceremonies>>
NoneLeft(n) == n < 1  \* Mutant: off by one.
LastOne(n) == n <= 1
Counts(r) ==
  /\ At(r, "count") /\ Checks(r, req[r].flag => ~LastOne(Cardinality(Admins)))
  /\ UNCHANGED <<tables, ceremonies>>

\* DeleteUser, and what goes with the account: ON DELETE CASCADE.
DropsUser(r) ==
  LET u == req[r].who IN
    /\ At(r, "drop") /\ Passes(r)
    /\ users' = Without(users, LAMBDA v : v = u)
    /\ invites' = Without(invites, LAMBDA i : invites[i].for = u)
    /\ keys' = Without(keys, LAMBDA k : keys[k].user = u)
    /\ sessions' = Without(sessions, LAMBDA s : sessions[s].user = u)
    /\ lines' = Without(lines, LAMBDA l : lines[l].user = u)
    /\ UNCHANGED ceremonies

-----------------------------------------------------------------------------
(* The OAuth server.                                                       *)

\* handleAuthorizeConsent, allowed: CreateAuthorizationCode.
Consents(r) ==
  /\ At(r, "code") /\ Free(lines) # {}
  /\ LET q == req[r] IN
       IF Lives(q.user)
       THEN /\ lines' = [lines EXCEPT ![Some(Free(lines))] =
                 [user |-> q.user, code |-> TRUE, access |-> FALSE, refresh |-> 0]]
            /\ Passes(r)
       ELSE Ends(r) /\ UNCHANGED lines
  /\ UNCHANGED <<users, invites, keys, sessions, ceremonies>>

\* ConsumeAuthorizationCode and ConsumeRefreshToken: what is found is deleted
\* in the same transaction.  The client, the redirect and the verifier are
\* looked at afterwards: flag says that one of them is wrong.
Fetched(line) == line  \* Mutant: fetched and not deleted.
Spent(line) == [line EXCEPT !.code = FALSE, !.refresh = IF line.code THEN @ ELSE @ - 1]
FoundAny(q) == Has(lines, q.line)  \* Mutant: what is spent is found again.
Found(q) ==
  /\ Has(lines, q.line)
  /\ IF q.op = "exchange" THEN lines[q.line].code
     ELSE ~lines[q.line].code /\ lines[q.line].refresh > 0
Redeems(r, step) ==
  LET q == req[r] IN
    /\ At(r, step)
    /\ IF Found(q)
       THEN /\ lines' = [lines EXCEPT ![q.line] = Spent(@)]
            /\ IF q.flag THEN Ends(r)
               ELSE PassesAs(r, [q EXCEPT !.user = lines[q.line].user])
       ELSE Ends(r) /\ UNCHANGED lines
    /\ UNCHANGED <<users, invites, keys, sessions, ceremonies>>
ConsumeAuthorizationCode(r) == Redeems(r, "redeem")
ConsumeRefreshToken(r) == Redeems(r, "rotate")

\* issueTokens; the foreign keys want the account.
Issues(r, step, line) ==
  /\ At(r, step)
  /\ IF Lives(req[r].user)
     THEN lines' = [lines EXCEPT ![req[r].line] = line] /\ Passes(r)
     ELSE Ends(r) /\ UNCHANGED lines
  /\ UNCHANGED <<users, invites, keys, sessions, ceremonies>>
CreateAccessToken(r) == Issues(r, "access", [lines[req[r].line] EXCEPT !.access = TRUE])
CreateRefreshToken(r) == Issues(r, "refresh", [lines[req[r].line] EXCEPT !.refresh = @ + 1])

-----------------------------------------------------------------------------
(* Time and restarts.                                                      *)

\* Every lookup asks for expires_at > now: what has expired is gone.
InviteLapses(i) ==
  /\ Pending(i) /\ invites' = [invites EXCEPT ![i].live = FALSE]
  /\ UNCHANGED <<users, keys, sessions, lines, ceremonies, req>>
SessionLapses(s) ==
  /\ Has(sessions, s) /\ sessions' = [sessions EXCEPT ![s] = Gone]
  /\ UNCHANGED <<users, invites, keys, lines, ceremonies, req>>
LineLapses(l) ==
  /\ Has(lines, l)
  /\ \/ lines[l].code /\ lines' = [lines EXCEPT ![l].code = FALSE]
     \/ lines[l].access /\ lines' = [lines EXCEPT ![l].access = FALSE]
     \/ lines[l].refresh > 0 /\ lines' = [lines EXCEPT ![l].refresh = @ - 1]
  /\ UNCHANGED <<users, invites, keys, sessions, ceremonies, req>>
CeremonyLapses(m) ==
  /\ ceremonies[m] # None /\ ceremonies' = [ceremonies EXCEPT ![m] = None]
  /\ UNCHANGED <<tables, req>>

\* The process dies, and Bootstrap makes an invite when there is nobody.
Restarts ==
  /\ req' = [r \in Requests |-> Idle]
  /\ ceremonies' = [m \in Ceremonies |-> None]
  /\ invites' = IF (\E u \in Users : Lives(u)) \/ Free(invites) = {} THEN invites
                ELSE Minted(TRUE, None)
  /\ UNCHANGED <<users, keys, sessions, lines>>

-----------------------------------------------------------------------------

Exchanging(q) == q.op \in {"exchange", "renew"} /\ q.at > 1
EndsLines(q) == q.op = "logoutOthers" /\ q.at > 1
Opened(s) == sessions[s] = None /\ sessions'[s] # None
Removes(r, k) == req[r].op = "deleteKey" /\ req[r].key = k /\ At(r, "dropKey")
Observes ==
  /\ cut' = cut \cup {l \in Lines : \E r \in Requests :
       At(r, "cutRefresh") /\ OfUser(l, req[r].user) /\ lines'[l] # lines[l]}
  /\ excused' = excused \cup {l \in Lines : \E r, o \in Requests :
       /\ Exchanging(req'[r]) /\ req'[r].line = l
       /\ EndsLines(req[o]) /\ req[o].user = req'[r].user}
  /\ spared' = spared
       \cup {s \in Sessions : Opened(s) /\
               (~Has(keys, sessions'[s].key) \/ \E r \in Requests : Removes(r, sessions'[s].key))}
       \cup {s \in Sessions : \E r \in Requests, k \in Keys :
               Removes(r, k) /\ keys'[k] # keys[k] /\ req[r].session = s}
  /\ doubled' = (doubled \/ \E r, o \in Requests :
       r # o /\ \A q \in {req'[r], req'[o]} : q.op = "deleteUser" /\ q.at = 3 /\ q.flag)

Init ==
  /\ users = First.users /\ invites = First.invites /\ keys = First.keys
  /\ sessions = First.sessions /\ lines = First.lines /\ ceremonies = First.ceremonies
  /\ req = [r \in Requests |-> Idle] /\ calls = 0
  /\ cut = {} /\ excused = {} /\ spared = {} /\ doubled = FALSE

Enrols(r) ==
  ReadsInvite(r) \/ Puts(r) \/ Takes(r) \/ Consumes(r) \/ CreatesUser(r) \/ AddsKey(r)
SignsIn(r) == FindsKey(r) \/ Looks(r) \/ OpensSession(r)
SignsOut(r) ==
  DeleteSession(r) \/ DeleteUserSessionsExcept(r) \/ DeleteUserSessions(r)
  \/ CutsTokens(r) \/ DropsKey(r)
Administers(r) == Mints(r) \/ Revokes(r) \/ Targets(r) \/ Counts(r) \/ DropsUser(r)
Authorizes(r) ==
  Consents(r) \/ ConsumeAuthorizationCode(r) \/ ConsumeRefreshToken(r)
  \/ CreateAccessToken(r) \/ CreateRefreshToken(r)
Lapses ==
  \/ \E i \in Invites : InviteLapses(i)
  \/ \E s \in Sessions : SessionLapses(s)
  \/ \E l \in Lines : LineLapses(l)
  \/ \E m \in Ceremonies : CeremonyLapses(m)

Next ==
  /\ \/ /\ calls < MaxCalls /\ calls' = calls + 1
        /\ Lapses \/ \E r \in Requests, q \in Asks : Begins(r, q)
     \/ /\ \/ \E r \in Requests :
                Enrols(r) \/ SignsIn(r) \/ SignsOut(r) \/ Administers(r) \/ Authorizes(r)
           \/ Restarts
        /\ UNCHANGED calls
  /\ Observes

Spec == Init /\ [][Next]_vars

-----------------------------------------------------------------------------

TypeOK ==
  /\ users \in [Users -> Rights \cup {None, Gone}]
  /\ invites \in [Invites -> Invite \cup {None, Gone}]
  /\ keys \in [Keys -> Key \cup {None, Gone}]
  /\ sessions \in [Sessions -> Session \cup {None, Gone}]
  /\ lines \in [Lines -> Line \cup {None, Gone}]
  /\ ceremonies \in [Ceremonies -> Ceremony \cup {None}]
  /\ req \in [Requests -> Call]
  /\ \A r \in Requests : req[r].at <= Len(Script[req[r].op])
  /\ calls \in 0..MaxCalls
  /\ cut \subseteq Lines /\ excused \subseteq Lines /\ spared \subseteq Sessions
  /\ doubled \in BOOLEAN

\* An invite pays for one passkey at most, and that on the account it was made
\* for, or on a new one with the rights it carried: "the consume is the atomic
\* single-use gate, so nothing may be created ahead of winning it"
\* (webauthn.go:208-211).
PaidBy(i) == {k \in Keys : Has(keys, k) /\ keys[k].by = i}
Spending(i) ==
  {r \in Requests : req[r].op = "registerFinish" /\ req[r].invite = i
                    /\ req[r].at \in {3, 4}}
InvitePaysOnce ==
  \A i \in Invites :
    /\ Cardinality(PaidBy(i)) + Cardinality(Spending(i)) <= 1
    /\ Unspent(i) => PaidBy(i) = {} /\ Spending(i) = {}
    /\ \A k \in PaidBy(i) : Has(invites, i) =>
         IF invites[i].for # None THEN keys[k].user = invites[i].for
         ELSE (keys[k].user \in Admins) = invites[i].admin

\* A code or a refresh token is worth one pair: of a line there is one code,
\* one refresh token or one exchange, never two ("the old value is spent the
\* moment it is read", accessors.go:594-596).
Between(l) ==
  {r \in Requests : Exchanging(req[r]) /\ req[r].line = l /\ req[r].at > 1}
RotationIsLinear ==
  \A l \in Lines : Has(lines, l) =>
    (IF lines[l].code THEN 1 ELSE 0) + lines[l].refresh + Cardinality(Between(l)) <= 1

\* What has been revoked stays so, however it is interleaved: nothing is left
\* of an account that is gone; no token descends from one a log-out everywhere
\* cut ("a leaked token must not survive the rotation", auth_handlers.go:138),
\* unless an exchange was under way meanwhile; a passkey's sessions are gone
\* before it is, but the remover's own, and those of a login that overlapped
\* ("the passkey gone and the lost device still signed in ... is the one
\* outcome this handler exists to prevent", auth_handlers.go:177).
RevokedStaysOut ==
  /\ \A i \in Invites : Has(invites, i) => invites[i].for = None \/ Lives(invites[i].for)
  /\ \A k \in Keys : Has(keys, k) => Lives(keys[k].user)
  /\ \A s \in Sessions : Has(sessions, s) => Lives(sessions[s].user)
  /\ \A l \in Lines : Has(lines, l) => Lives(lines[l].user)
  /\ \A l \in cut \ excused : Has(lines, l) => ~lines[l].access /\ lines[l].refresh = 0
  /\ \A s \in Sessions \ spared : Has(sessions, s) => Has(keys, sessions[s].key)

\* Once there has been an account there is an admin ("refuse to remove the
\* last admin so the instance can't be locked out of its own user management",
\* auth_handlers.go:312), unless two removals have overlapped.
AnAdminRemains == (\E u \in Users : users[u] # None) => Admins # {} \/ doubled

=============================================================================
