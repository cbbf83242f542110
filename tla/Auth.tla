-------------------------------- MODULE Auth --------------------------------
(***************************************************************************)
(* Accounts, sessions and the second factor: service/auth.go,              *)
(* handler/auth.go, service/mfa.go, handler/mfa.go, setup/token.go and the *)
(* limiter of middleware/ratelimit.go.  Users, refresh sessions and MFA    *)
(* rows are JSON stores, whose Update is atomic; a handler makes several   *)
(* such calls, and handlers of several clients interleave between them.    *)
(* What a client keeps (cookies, access token, MFA challenge) belongs to   *)
(* its browser.  A request that the middleware refuses changes nothing and *)
(* is left out.                                                            *)
(***************************************************************************)
EXTENDS Integers, FiniteSets

CONSTANTS
  Ids,          \* user ids: a new account has a new one
  Names,        \* user names
  NameOf,       \* the name of each id
  NBrowsers,    \* clients
  Addrs,        \* client addresses, one refresh lock each
  AddrOf,       \* the address each browser is seen at
  Requests,     \* handler goroutines
  Ops,          \* the requests each browser may make: see AllOps
  LoginNames,   \* the names that somebody logs in with
  FirstUsers,   \* the user files at first
  FirstMfa,     \* the users enrolled at first
  FirstLogin,   \* the user each browser is logged in as at first
  FirstChal,    \* the enrolled user whose challenge it holds at first
  Faults,       \* "session": the session store; "consume": the setup token
  MaxAttempts,  \* maxAttempts of the limiter
  MaxTokens,    \* bound: refresh tokens of one behaviour
  MaxCalls,     \* bound: requests of one behaviour
  MaxEvents     \* bound: passages of time and crashes of NRCC

AllOps == {"setup", "login", "verify", "refresh", "logout", "create", "delete", "role",
           "password", "enroll", "confirm", "disable"}
Roles == {"admin", "viewer"}
Passwords == 1..2
Browsers == 1..NBrowsers
Tokens == 1..MaxTokens
(* A challenge has the number of its login. *)
Chals == 1..(MaxCalls + NBrowsers)
None == 0
NoId == "none"
Free == "free"
Keys == ({"auth-ip", "setup-ip", "refresh-ip"} \X Addrs)
          \cup ({"auth-user", "setup-user"} \X Names)

(* A user row; "absent" and "deleted" are not in the file. *)
User == [role: Roles \cup {"absent", "deleted"}, pw: Passwords, low: BOOLEAN]
NoUser == [role |-> "absent", pw |-> 1, low |-> FALSE]
(* An enrolment: its secret is a generation, its recovery code is used or  *)
(* not.  A code a client sends is a TOTP of a secret or a recovery code.   *)
Gens == 0..(1 + MaxCalls)
Codes == [kind: {"totp", "recovery"}, gen: Gens]
NoCode == [kind |-> "totp", gen |-> 0]
NoRow == [st |-> "none", gen |-> 0, used |-> FALSE]

ASSUME ConstantsOK ==
  /\ NBrowsers \in Nat
  /\ NameOf \in [Ids -> Names] /\ AddrOf \in [Browsers -> Addrs]
  /\ LoginNames \subseteq Names
  /\ NoId \notin Ids /\ Free \notin Requests
  /\ Ops \in [Browsers -> SUBSET AllOps]
  /\ FirstUsers \subseteq [Ids -> User]
  /\ \A f \in FirstUsers :
       /\ \A u \in Ids : f[u].role # "deleted"
       /\ (\E u \in Ids : f[u].role # "absent") => \E u \in Ids : f[u].role = "admin"
       /\ \A u, v \in Ids : NameOf[u] = NameOf[v] /\ f[u].role # "absent"
                              /\ f[v].role # "absent" => u = v
  /\ FirstMfa \subseteq Ids /\ FirstLogin \in [Browsers -> Ids \cup {NoId}]
  /\ FirstChal \in [Browsers -> FirstMfa \cup {NoId}]
  /\ Faults \subseteq {"session", "consume"}
  /\ MaxAttempts \in Nat \ {0} /\ MaxTokens \in Nat /\ NBrowsers <= MaxTokens /\ MaxCalls \in Nat
  /\ MaxEvents \in Nat

VARIABLES
  users,     \* cc-users.json
  sessions,  \* the refresh sessions by token: user and st
  mfa,       \* the MFA rows
  chals,     \* pendingTokens of MfaService: challenge -> user, in memory
  file,      \* the setup token file exists
  attempts,  \* the limiter's counters, 0 for no entry
  setupMu,   \* the holder of setupMu
  refreshMu, \* the holder of each refresh lock
  jar,       \* what each browser keeps
  pc, job,   \* the requests
  calls, ticks, crashes,
  minted,    \* refresh tokens so far; challenges are numbered as their calls
  issued,    \* ghost: how each refresh token was obtained
  wrong,     \* ghost: failed credential checks of a name since the last reset
  boots,     \* ghost: successful setups without the token
  resets     \* ghost: successful setups with the token

stores == <<users, sessions, mfa, file, attempts>>
locks == <<setupMu, refreshMu>>
bounds == <<calls, ticks, crashes>>
ghosts == <<issued, wrong, boots, resets>>
vars == <<stores, chals, locks, jar, pc, job, bounds, minted, ghosts>>

-----------------------------------------------------------------------------
(* Reads *)

InFile(u) == users[u].role \in Roles
Admins == {u \in Ids : users[u].role = "admin"}
GetUserByUsername(n) == {u \in Ids : InFile(u) /\ NameOf[u] = n}
Fresh == {u \in Ids : users[u].role = "absent"}

NoSession == [user |-> NoId, st |-> "none"]
NoIssue == [via |-> "none", from |-> None, code |-> NoCode, alive |-> TRUE, bypass |-> FALSE]
NoJob == [op |-> "none", no |-> 0, b |-> 1, me |-> NoId, u |-> NoId, name |-> "none", role |-> "viewer",
          pw |-> 1, low |-> FALSE, code |-> NoCode, tok |-> None, chal |-> None,
          header |-> FALSE, alive |-> TRUE, gen |-> 0]
NoClaims == [user |-> NoId, role |-> "viewer"]
(* Two cookies of one name: Login, Setup and Refresh set one for "/",      *)
(* Verify one for "/api/auth".                                             *)
EmptyJar == [root |-> None, api |-> None, claims |-> NoClaims, chal |-> None]
(* The cookie with the longer path comes first, and r.Cookie takes it. *)
Sent(b) == IF jar[b].api # None THEN jar[b].api ELSE jar[b].root

(* ValidateRefreshSession *)
ValidateRefreshSession(t) == t # None /\ sessions[t].st = "live"

(* IsEnrolled, VerifyTotp, ConsumeRecoveryCode *)
IsEnrolled(u) == mfa[u].st = "active"
VerifyTotp(u, c) == c.kind = "totp" /\ IsEnrolled(u) /\ c.gen = mfa[u].gen
Matches(u, c) == c.kind = "recovery" /\ IsEnrolled(u) /\ c.gen = mfa[u].gen

(* LookupUsernameByMfaToken: the name that goes with a challenge. *)
LookupUsernameByMfaToken(c) == IF chals[c] \in Ids THEN NameOf[chals[c]] ELSE "none"

(* BootstrapFirstAdmin and CreateUser decide under the store's lock. *)
MayBootstrap(u) == users[u].role = "absent" /\ \A v \in Ids : ~InFile(v)
MayCreate(u) == users[u].role = "absent" /\ GetUserByUsername(NameOf[u]) = {}
(* deleteUser and UpdateUserRole refuse to lose the last administrator. *)
IsLastAdmin(u) == Admins = {u}

-----------------------------------------------------------------------------
(* What the issuing and revoking of a session writes. *)

CreateRefreshSession(t, u) == sessions' = [sessions EXCEPT ![t] = [user |-> u, st |-> "live"]]
RevokeRefreshSession(t) ==
  sessions' = IF t = None THEN sessions ELSE [sessions EXCEPT ![t].st = "revoked"]
(* The claims carry the role that the user has now. *)
GenerateToken(u, role) == [user |-> u, role |-> role]
SetRefreshCookie(j, t, claims) == [j EXCEPT !.root = t, !.claims = claims]
SetRefreshCookieFor(j, t, claims) == [j EXCEPT !.api = t, !.claims = claims, !.chal = None]
ClearRefreshCookie(b) == [jar EXCEPT ![b].root = None]

-----------------------------------------------------------------------------
(* The limiter *)

CheckLate(key) == attempts[key] > MaxAttempts
Check(key) == attempts[key] >= MaxAttempts
Record(keys) == attempts' = [k \in Keys |-> IF k \in keys THEN attempts[k] + 1 ELSE attempts[k]]
Reset(keys) == attempts' = [k \in Keys |-> IF k \in keys THEN 0 ELSE attempts[k]]

(* The address that a request is counted under. *)
ExtractIP(r) == AddrOf[job[r].b]
AuthKeys(r) == {<<"auth-ip", ExtractIP(r)>>}
                 \cup (IF job[r].name \in Names THEN {<<"auth-user", job[r].name>>} ELSE {})
SetupKeys(r) == {<<"setup-ip", ExtractIP(r)>>, <<"setup-user", job[r].name>>}
RefreshKey(r) == <<"refresh-ip", ExtractIP(r)>>

-----------------------------------------------------------------------------
(* A browser may be logged in from before: with the cookie of Login, or of *)
(* Verify where its user is enrolled.                                      *)
Init ==
  /\ users \in FirstUsers
  /\ mfa = [u \in Ids |-> IF u \in FirstMfa /\ InFile(u)
                            THEN [st |-> "active", gen |-> 1, used |-> FALSE] ELSE NoRow]
  /\ LET In(u) == u \in Ids /\ InFile(u)
         Enrolled(u) == In(u) /\ IsEnrolled(u)
         First(b) == MaxCalls + b
     IN /\ sessions = [t \in Tokens |-> IF t \in Browsers /\ In(FirstLogin[t])
                          THEN [user |-> FirstLogin[t], st |-> "live"] ELSE NoSession]
        /\ chals = [c \in Chals |-> IF c > MaxCalls /\ Enrolled(FirstChal[c - MaxCalls])
                                       THEN FirstChal[c - MaxCalls] ELSE NoId]
        /\ jar = [b \in Browsers |->
             [EmptyJar EXCEPT
                !.root = IF In(FirstLogin[b]) /\ ~Enrolled(FirstLogin[b]) THEN b ELSE None,
                !.api = IF Enrolled(FirstLogin[b]) THEN b ELSE None,
                !.claims = IF In(FirstLogin[b])
                             THEN [user |-> FirstLogin[b], role |-> users[FirstLogin[b]].role] ELSE @,
                !.chal = IF Enrolled(FirstChal[b]) THEN First(b) ELSE None]]
  /\ minted = NBrowsers
  /\ file = TRUE
  /\ attempts = [k \in Keys |-> 0]
  /\ setupMu = Free
  /\ refreshMu = [a \in Addrs |-> Free]
  /\ pc = [r \in Requests |-> "idle"]
  /\ job = [r \in Requests |-> NoJob]
  /\ calls = 0 /\ ticks = 0 /\ crashes = 0
  /\ issued = [t \in Tokens |-> NoIssue]
  /\ wrong = [n \in Names |-> 0]
  /\ boots = 0 /\ resets = 0

Goto(r, l) == pc' = [pc EXCEPT ![r] = l]
(* The handler answers and its locks are released. *)
Return(r) ==
  /\ Goto(r, "idle")
  /\ job' = [job EXCEPT ![r] = NoJob]
  /\ setupMu' = IF setupMu = r THEN Free ELSE setupMu
  /\ refreshMu' = [a \in Addrs |-> IF refreshMu[a] = r THEN Free ELSE refreshMu[a]]

-----------------------------------------------------------------------------
(* Requests.  Auth, RequireAdmin and RequireSelfOrAdmin judge by the role  *)
(* in the access token: the one its user had when it was issued.  Nothing  *)
(* but the cookies and that token is read when a request arrives, so one   *)
(* that could only be refused now is left to arrive later.                 *)

Arrive(r, b, op, j) ==
  /\ pc[r] = "idle" /\ calls < MaxCalls /\ op \in Ops[b]
  /\ job' = [job EXCEPT ![r] = [j EXCEPT !.op = op, !.b = b, !.me = jar[b].claims.user, !.no = calls + 1]]
  /\ Goto(r, op)
  /\ calls' = calls + 1
  /\ UNCHANGED <<stores, chals, locks, jar, ticks, crashes, minted, ghosts>>

Me(b) == jar[b].claims.user
(* A wrong code, or one of a secret that is in the store now. *)
Known == {NoCode} \cup {c \in Codes : c.gen \in {mfa[u].gen : u \in Ids} \ {0}}
IsAdmin(b) == Me(b) # NoId /\ jar[b].claims.role = "admin"

RequireSelfOrAdmin(b, u) == IsAdmin(b) \/ (Me(b) # NoId /\ u = Me(b))

PostSetup(r, b) == \E u \in Fresh, h \in BOOLEAN :
  Arrive(r, b, "setup", [NoJob EXCEPT !.u = u, !.name = NameOf[u], !.role = "admin", !.header = h])

PostLogin(r, b) == \E n \in LoginNames, p \in Passwords :
  /\ GetUserByUsername(n) = {} => p = 1
  /\ Arrive(r, b, "login", [NoJob EXCEPT !.name = n, !.pw = p])

PostVerify(r, b) ==
  /\ jar[b].chal # None
  /\ \E k \in Known :
       Arrive(r, b, "verify", [NoJob EXCEPT !.chal = jar[b].chal, !.code = k,
         !.alive = chals[jar[b].chal] \in Ids /\ InFile(chals[jar[b].chal])])

PostRefresh(r, b) ==
  Arrive(r, b, "refresh", [NoJob EXCEPT !.tok = Sent(b),
    !.alive = Sent(b) # None /\ InFile(sessions[Sent(b)].user)])

PostLogout(r, b) == Me(b) # NoId /\ Arrive(r, b, "logout", [NoJob EXCEPT !.tok = Sent(b)])

(* The handlers of AuthHandler, up to the update of the user file. *)
HandleCreateUser(r, b) ==
  /\ IsAdmin(b)
  /\ \E u \in Fresh, role \in Roles :
       Arrive(r, b, "create", [NoJob EXCEPT !.u = u, !.name = NameOf[u], !.role = role])

(* Nobody may delete himself. *)
HandleDeleteUser(r, b) ==
  /\ IsAdmin(b)
  /\ \E u \in Ids \ {Me(b)} : InFile(u) /\ Arrive(r, b, "delete", [NoJob EXCEPT !.u = u])

(* Nobody may demote himself. *)
HandleUpdateUser(r, b) ==
  /\ IsAdmin(b)
  /\ \E u \in Ids, role \in Roles :
       /\ InFile(u) /\ users[u].role # role /\ (u = Me(b) => role = "admin")
       /\ Arrive(r, b, "role", [NoJob EXCEPT !.u = u, !.role = role])

HandleChangePassword(r, b) == \E u \in Ids, p \in Passwords :
  /\ RequireSelfOrAdmin(b, u) /\ InFile(u) /\ users[u].pw # p
  /\ Arrive(r, b, "password", [NoJob EXCEPT !.u = u, !.pw = p])

(* The handlers of MfaHandler. *)
HandleEnroll(r, b) ==
  /\ Me(b) # NoId /\ mfa[Me(b)].st = "none"
  /\ Arrive(r, b, "enroll", [NoJob EXCEPT !.u = Me(b)])

HandleEnrollConfirm(r, b) ==
  /\ Me(b) # NoId /\ mfa[Me(b)].st = "pending"
  /\ \E k \in Known : Arrive(r, b, "confirm", [NoJob EXCEPT !.u = Me(b), !.code = k])

HandleDisable(r, b) == \E u \in Ids :
  /\ RequireSelfOrAdmin(b, u) /\ mfa[u].st # "none"
  /\ Arrive(r, b, "disable", [NoJob EXCEPT !.u = u, !.pw = users[Me(b)].pw])

Call(r) == \E b \in Browsers :
  \/ PostSetup(r, b) \/ PostLogin(r, b) \/ PostVerify(r, b) \/ PostRefresh(r, b) \/ PostLogout(r, b)
  \/ HandleCreateUser(r, b) \/ HandleDeleteUser(r, b) \/ HandleUpdateUser(r, b)
  \/ HandleChangePassword(r, b)
  \/ HandleEnroll(r, b) \/ HandleEnrollConfirm(r, b) \/ HandleDisable(r, b)

-----------------------------------------------------------------------------
(* Login *)

LoginCheck(r) ==
  /\ pc[r] = "login"
  /\ IF \E k \in AuthKeys(r) : Check(k)
       THEN Return(r)
       ELSE Goto(r, "lookup") /\ UNCHANGED <<job, locks>>
  /\ UNCHANGED <<stores, chals, jar, bounds, minted, ghosts>>

(* GetUserByUsername and VerifyPassword on the row that was read. *)
Lookup(r) ==
  /\ pc[r] = "lookup"
  /\ LET found == {u \in GetUserByUsername(job[r].name) : users[u].pw = job[r].pw}
     IN \/ /\ found = {}
           /\ wrong' = [wrong EXCEPT ![job[r].name] = @ + 1]
           /\ Goto(r, "record")
           /\ UNCHANGED job
        \/ \E u \in found :
             /\ job' = [job EXCEPT ![r].u = u, ![r].role = users[u].role, ![r].low = users[u].low,
                                   ![r].gen = IF IsEnrolled(u) THEN mfa[u].gen ELSE 0]
             /\ Goto(r, "reset")
             /\ UNCHANGED wrong
  /\ UNCHANGED <<stores, chals, locks, jar, bounds, minted, issued, boots, resets>>

(* A wrong password or code counts for the address and the name. *)
RecordFailure(r) ==
  /\ pc[r] = "record"
  /\ Record(AuthKeys(r))
  /\ Return(r)
  /\ UNCHANGED <<users, sessions, mfa, file, chals, jar, bounds, minted, ghosts>>

ResetFailures(r) ==
  /\ pc[r] = "reset"
  /\ Reset(AuthKeys(r))
  /\ wrong' = [wrong EXCEPT ![job[r].name] = 0]
  /\ Goto(r, CASE job[r].op = "verify" -> "issue"
               [] job[r].op = "login" /\ job[r].low -> "rehash"
               [] OTHER -> "factor")
  /\ UNCHANGED <<users, sessions, mfa, file, chals, locks, jar, job, bounds, minted, issued, boots, resets>>

(* A hash of too low a cost is replaced by one of the password just sent,  *)
(* whatever the row holds by now.                                          *)
Rehash(r) ==
  /\ pc[r] = "rehash"
  /\ users' = IF InFile(job[r].u)
                THEN [users EXCEPT ![job[r].u].pw = job[r].pw, ![job[r].u].low = FALSE] ELSE users
  /\ Goto(r, "factor")
  /\ UNCHANGED <<sessions, mfa, file, attempts, chals, locks, jar, job, bounds, minted, ghosts>>

(* IsEnrolled and IssueMfaToken. *)
Factor(r) ==
  /\ pc[r] = "factor"
  /\ IF IsEnrolled(job[r].u)
       THEN /\ IF InFile(job[r].u)
                 THEN /\ chals' = [chals EXCEPT ![job[r].no] = job[r].u]
                      /\ jar' = [jar EXCEPT ![job[r].b].chal = job[r].no]
                 ELSE UNCHANGED <<chals, jar>>
            /\ Return(r)
       ELSE /\ Goto(r, "issue")
            /\ UNCHANGED <<chals, jar, job, locks>>
  /\ UNCHANGED <<stores, bounds, minted, ghosts>>

(* GenerateToken and CreateRefreshSession, for a login, an MFA             *)
(* verification, a refresh (which resets its limiter key) and a setup.     *)
Issue(r) ==
  /\ pc[r] = "issue" /\ minted < MaxTokens
  /\ LET t == minted + 1
         b == job[r].b
         op == job[r].op
         via == CASE op = "login" -> "password" [] op = "verify" -> "mfa" [] OTHER -> op
     IN \/ /\ "session" \in Faults
           /\ Return(r)
           /\ UNCHANGED <<sessions, jar, attempts, minted, issued>>
        \/ /\ CreateRefreshSession(t, job[r].u)
           /\ minted' = t
           /\ issued' = [issued EXCEPT ![t] =
                [via |-> via, alive |-> job[r].alive, code |-> job[r].code,
                 from |-> IF op = "refresh" THEN job[r].tok ELSE job[r].chal,
                 bypass |-> op = "login" /\ job[r].gen # 0 /\ mfa[job[r].u].gen = job[r].gen
                              /\ IsEnrolled(job[r].u)]]
           /\ LET claims == GenerateToken(job[r].u, job[r].role)
              IN jar' = [jar EXCEPT ![b] = IF op = "verify" THEN SetRefreshCookieFor(@, t, claims)
                                                           ELSE SetRefreshCookie(@, t, claims)]
           /\ IF op = "refresh" THEN Reset({RefreshKey(r)}) ELSE UNCHANGED attempts
           /\ IF op = "setup" THEN Goto(r, "consume") /\ UNCHANGED <<job, locks>> ELSE Return(r)
  /\ UNCHANGED <<users, mfa, file, chals, bounds, wrong, boots, resets>>

-----------------------------------------------------------------------------
(* MFA verification *)

(* The name that goes with the challenge is looked up for the limiter. *)
VerifyCheck(r) ==
  /\ pc[r] = "verify"
  /\ LET n == LookupUsernameByMfaToken(job[r].chal)
     IN IF \/ Check(<<"auth-ip", ExtractIP(r)>>)
           \/ n \in Names /\ Check(<<"auth-user", n>>)
          THEN Return(r)
          ELSE /\ Goto(r, "take")
               /\ job' = [job EXCEPT ![r].name = n]
               /\ UNCHANGED locks
  /\ UNCHANGED <<stores, chals, jar, bounds, minted, ghosts>>

(* The challenge is removed before the code is looked at. *)
TakeChallengeLate(r) ==
  /\ pc[r] = "take"
  /\ LET u == chals[job[r].chal]
     IN IF u \notin Ids
          THEN Return(r)
          ELSE /\ job' = [job EXCEPT ![r].u = u]
               /\ Goto(r, "subject")
               /\ UNCHANGED locks
  /\ UNCHANGED <<stores, chals, jar, bounds, minted, ghosts>>
TakeChallenge(r) ==
  /\ pc[r] = "take"
  /\ LET u == chals[job[r].chal]
     IN IF u \notin Ids
          THEN Return(r) /\ UNCHANGED chals
          ELSE /\ chals' = [chals EXCEPT ![job[r].chal] = NoId]
               /\ job' = [job EXCEPT ![r].u = u]
               /\ Goto(r, "subject")
               /\ UNCHANGED locks
  /\ UNCHANGED <<stores, jar, bounds, minted, ghosts>>

(* GetUserByID, for a verification and a refresh: the token's user may be  *)
(* gone by now.                                                            *)
SubjectUnchecked(r) ==
  /\ pc[r] = "subject"
  /\ job' = [job EXCEPT ![r].role = IF InFile(job[r].u) THEN users[job[r].u].role ELSE "viewer"]
  /\ Goto(r, IF job[r].op = "verify" THEN "code" ELSE "issue")
  /\ UNCHANGED <<stores, chals, locks, jar, bounds, minted, ghosts>>
Subject(r) ==
  /\ pc[r] = "subject"
  /\ IF InFile(job[r].u)
       THEN /\ job' = [job EXCEPT ![r].role = users[job[r].u].role]
            /\ Goto(r, IF job[r].op = "verify" THEN "code" ELSE "issue")
            /\ UNCHANGED <<locks, jar>>
       ELSE /\ Return(r)
            /\ jar' = IF job[r].op = "refresh" THEN ClearRefreshCookie(job[r].b) ELSE jar
  /\ UNCHANGED <<stores, chals, bounds, minted, ghosts>>

(* verifyCodeForUser: a used recovery code and one of a user who is no     *)
(* longer enrolled are internal errors and are not counted.                *)
VerifyCode(r) ==
  /\ pc[r] = "code"
  /\ LET u == job[r].u
         c == job[r].code
         spend == Matches(u, c) /\ ~mfa[u].used
         fault == c.kind = "recovery" /\ (mfa[u].st = "none" \/ (Matches(u, c) /\ mfa[u].used))
         right == VerifyTotp(u, c) \/ spend
     IN /\ mfa' = IF spend THEN [mfa EXCEPT ![u].used = TRUE] ELSE mfa
        /\ wrong' = IF right \/ fault THEN wrong ELSE [wrong EXCEPT ![job[r].name] = @ + 1]
        /\ IF fault THEN Return(r)
                    ELSE Goto(r, IF right THEN "reset" ELSE "record") /\ UNCHANGED <<job, locks>>
  /\ UNCHANGED <<users, sessions, file, attempts, chals, jar, bounds, minted, issued, boots, resets>>

-----------------------------------------------------------------------------
(* Refresh: one at a time for an address. *)

Refresh(r) ==
  /\ pc[r] = "refresh" /\ refreshMu[ExtractIP(r)] = Free
  /\ refreshMu' = [refreshMu EXCEPT ![ExtractIP(r)] = r]
  /\ Goto(r, "validate")
  /\ UNCHANGED <<stores, chals, setupMu, jar, job, bounds, minted, ghosts>>

(* A token that is missing or not valid counts for the address; one that   *)
(* is not valid also clears the cookie for "/", the other one stays.       *)
Validate(r) ==
  /\ pc[r] = "validate"
  /\ \/ /\ Check(RefreshKey(r))
        /\ Return(r)
        /\ UNCHANGED <<attempts, jar>>
     \/ /\ ~Check(RefreshKey(r)) /\ ~ValidateRefreshSession(job[r].tok)
        /\ Record({RefreshKey(r)})
        /\ jar' = IF job[r].tok # None THEN ClearRefreshCookie(job[r].b) ELSE jar
        /\ Return(r)
     \/ /\ ~Check(RefreshKey(r)) /\ ValidateRefreshSession(job[r].tok)
        /\ Goto(r, "rotate")
        /\ job' = [job EXCEPT ![r].u = sessions[job[r].tok].user]
        /\ UNCHANGED <<attempts, jar, locks>>
  /\ UNCHANGED <<users, sessions, mfa, file, chals, bounds, minted, ghosts>>

RotateForgetsLock(r) ==
  /\ pc[r] = "rotate"
  /\ \/ /\ "session" \in Faults
        /\ Goto(r, "idle")
        /\ job' = [job EXCEPT ![r] = NoJob]
        /\ UNCHANGED <<sessions, locks>>
     \/ /\ RevokeRefreshSession(job[r].tok)
        /\ Goto(r, "subject")
        /\ UNCHANGED <<job, locks>>
  /\ UNCHANGED <<users, mfa, file, attempts, chals, jar, bounds, minted, ghosts>>
Rotate(r) ==
  /\ pc[r] = "rotate"
  /\ \/ /\ "session" \in Faults
        /\ Return(r)
        /\ UNCHANGED sessions
     \/ /\ RevokeRefreshSession(job[r].tok)
        /\ Goto(r, "subject")
        /\ UNCHANGED <<job, locks>>
  /\ UNCHANGED <<users, mfa, file, attempts, chals, jar, bounds, minted, ghosts>>

(* Logout revokes the session of the cookie that was sent and clears the   *)
(* cookie for "/".  The user interface forgets the access token.           *)
Logout(r) ==
  /\ pc[r] = "logout"
  /\ \/ /\ "session" \in Faults /\ job[r].tok # None
        /\ UNCHANGED <<sessions, jar>>
     \/ /\ RevokeRefreshSession(job[r].tok)
        /\ jar' = [jar EXCEPT ![job[r].b].root = None, ![job[r].b].claims = NoClaims]
  /\ Return(r)
  /\ UNCHANGED <<users, mfa, file, attempts, chals, bounds, minted, ghosts>>

-----------------------------------------------------------------------------
(* Setup *)

SetupCheck(r) ==
  /\ pc[r] = "setup"
  /\ IF \E k \in SetupKeys(r) : Check(k)
       THEN Return(r)
       ELSE Goto(r, "await") /\ UNCHANGED <<job, locks>>
  /\ UNCHANGED <<stores, chals, jar, bounds, minted, ghosts>>

SetupNoLock(r) ==
  /\ pc[r] = "await"
  /\ Goto(r, "inspect")
  /\ UNCHANGED <<stores, chals, locks, jar, job, bounds, minted, ghosts>>
SetupLock(r) ==
  /\ pc[r] = "await" /\ setupMu = Free
  /\ setupMu' = r
  /\ Goto(r, "inspect")
  /\ UNCHANGED <<stores, chals, refreshMu, jar, job, bounds, minted, ghosts>>

(* The refusal counts for the address and the name. *)
RespondAlreadyConfigured(r) == Record(SetupKeys(r)) /\ Return(r)

(* A configured system wants the token of the file; job.header says from   *)
(* here on whether this is a recovery.                                     *)
Inspect(r) ==
  /\ pc[r] = "inspect"
  /\ LET configured == \E u \in Ids : InFile(u)
     IN IF configured /\ ~(file /\ job[r].header)
          THEN RespondAlreadyConfigured(r)
          ELSE /\ job' = [job EXCEPT ![r].header = configured]
               /\ Goto(r, "admin")
               /\ UNCHANGED <<attempts, locks>>
  /\ UNCHANGED <<users, sessions, mfa, file, chals, jar, bounds, minted, ghosts>>

(* BootstrapFirstAdmin, or CreateUser for a recovery. *)
CreateAdmin(r) ==
  /\ pc[r] = "admin"
  /\ LET u == job[r].u
         ok == IF job[r].header THEN MayCreate(u) ELSE MayBootstrap(u)
     IN \/ /\ ok
           /\ users' = [users EXCEPT ![u] = [role |-> "admin", pw |-> job[r].pw, low |-> FALSE]]
           /\ Goto(r, "issue")
           /\ UNCHANGED <<attempts, job, locks>>
        \/ /\ ~ok
           /\ IF job[r].header THEN Return(r) /\ UNCHANGED attempts
                               ELSE RespondAlreadyConfigured(r)
           /\ UNCHANGED users
  /\ UNCHANGED <<sessions, mfa, file, chals, jar, bounds, minted, ghosts>>

(* The token is used up once everything else has succeeded; a failure to   *)
(* remove it is only logged.                                               *)
Consume(r) ==
  /\ pc[r] = "consume"
  /\ \/ job[r].header /\ file' = FALSE
     \/ (~job[r].header \/ "consume" \in Faults) /\ file' = file
  /\ boots' = IF job[r].header THEN boots ELSE boots + 1
  /\ resets' = IF job[r].header THEN resets + 1 ELSE resets
  /\ Reset(SetupKeys(r))
  /\ Return(r)
  /\ UNCHANGED <<users, sessions, mfa, chals, jar, bounds, minted, issued, wrong>>

-----------------------------------------------------------------------------
(* Accounts *)

CreateUser(r) ==
  /\ pc[r] = "create"
  /\ users' = IF MayCreate(job[r].u)
                THEN [users EXCEPT ![job[r].u] = [role |-> job[r].role, pw |-> job[r].pw, low |-> FALSE]]
                ELSE users
  /\ Return(r)
  /\ UNCHANGED <<sessions, mfa, file, attempts, chals, jar, bounds, minted, ghosts>>

DeleteUserTrusting(r) ==
  /\ pc[r] = "delete"
  /\ users' = IF InFile(job[r].u) THEN [users EXCEPT ![job[r].u].role = "deleted"] ELSE users
  /\ Return(r)
  /\ UNCHANGED <<sessions, mfa, file, attempts, chals, jar, bounds, minted, ghosts>>
DeleteUser(r) ==
  /\ pc[r] = "delete"
  /\ users' = IF InFile(job[r].u) /\ ~IsLastAdmin(job[r].u)
                THEN [users EXCEPT ![job[r].u].role = "deleted"] ELSE users
  /\ Return(r)
  /\ UNCHANGED <<sessions, mfa, file, attempts, chals, jar, bounds, minted, ghosts>>

UpdateUserRole(r) ==
  /\ pc[r] = "role"
  /\ users' = IF InFile(job[r].u) /\ (job[r].role = "viewer" => ~IsLastAdmin(job[r].u))
                THEN [users EXCEPT ![job[r].u].role = job[r].role] ELSE users
  /\ Return(r)
  /\ UNCHANGED <<sessions, mfa, file, attempts, chals, jar, bounds, minted, ghosts>>

ChangePassword(r) ==
  /\ pc[r] = "password"
  /\ users' = IF InFile(job[r].u)
                THEN [users EXCEPT ![job[r].u].pw = job[r].pw, ![job[r].u].low = FALSE] ELSE users
  /\ Return(r)
  /\ UNCHANGED <<sessions, mfa, file, attempts, chals, jar, bounds, minted, ghosts>>

-----------------------------------------------------------------------------
(* Enrolment *)

(* hasActiveEnrollment is true of a pending row as well. *)
BeginEnrollment(r) ==
  /\ pc[r] = "enroll"
  /\ mfa' = IF InFile(job[r].u) /\ mfa[job[r].u].st = "none"
              THEN [mfa EXCEPT ![job[r].u] = [st |-> "pending", gen |-> job[r].no + 1, used |-> FALSE]]
              ELSE mfa
  /\ Return(r)
  /\ UNCHANGED <<users, sessions, file, attempts, chals, jar, bounds, minted, ghosts>>

ConfirmEnrollment(r) ==
  /\ pc[r] = "confirm"
  /\ LET row == mfa[job[r].u]
     IN mfa' = IF row.st = "pending" /\ job[r].code = [kind |-> "totp", gen |-> row.gen]
                 THEN [mfa EXCEPT ![job[r].u].st = "active"] ELSE mfa
  /\ Return(r)
  /\ UNCHANGED <<users, sessions, file, attempts, chals, jar, bounds, minted, ghosts>>

(* The password is the caller's. *)
Disable(r) ==
  /\ pc[r] = "disable"
  /\ LET me == job[r].me
     IN IF me \in Ids /\ InFile(me) /\ users[me].pw = job[r].pw
          THEN Goto(r, "unenroll") /\ UNCHANGED <<job, locks>>
          ELSE Return(r)
  /\ UNCHANGED <<stores, chals, jar, bounds, minted, ghosts>>

Unenroll(r) ==
  /\ pc[r] = "unenroll"
  /\ mfa' = [mfa EXCEPT ![job[r].u] = NoRow]
  /\ Return(r)
  /\ UNCHANGED <<users, sessions, file, attempts, chals, jar, bounds, minted, ghosts>>

-----------------------------------------------------------------------------
(* The environment: what happens after the last request is seen by none.   *)

Eventful == ticks + crashes < MaxEvents /\ calls < MaxCalls

(* Time passes between requests: five minutes end the challenges, fifteen  *)
(* the access tokens and the limiter's windows too, a week the sessions.   *)
Elapse(d) ==
  /\ Eventful /\ \A r \in Requests : pc[r] = "idle"
  /\ ticks' = ticks + 1
  /\ chals' = [c \in Chals |-> NoId]
  /\ IF d = "minutes" THEN UNCHANGED <<jar, attempts, wrong>>
     ELSE /\ jar' = [b \in Browsers |-> [jar[b] EXCEPT !.claims = NoClaims]]
          /\ attempts' = [k \in Keys |-> 0]
          /\ wrong' = [n \in Names |-> 0]
  /\ sessions' = IF d # "week" THEN sessions
                 ELSE [t \in Tokens |-> IF sessions[t].st = "live"
                         THEN [sessions[t] EXCEPT !.st = "expired"] ELSE sessions[t]]
  /\ UNCHANGED <<users, mfa, file, locks, pc, job, calls, crashes, minted, issued, boots, resets>>

(* NRCC dies and starts again: EnsureTokenFile writes a setup token where  *)
(* there are no users, the challenges are gone, and the limiter's file is  *)
(* what was persisted last, or nothing if it was being written.  A crash   *)
(* between requests does no more than the passage of some minutes.         *)
Persisting == {"record", "reset", "validate", "inspect", "admin", "issue", "consume"}
EnsureTokenFile == file \/ \A u \in Ids : ~InFile(u)
LoadAttempts(persisted) ==
  IF persisted THEN UNCHANGED <<attempts, wrong>>
  ELSE attempts' = [k \in Keys |-> 0] /\ wrong' = [n \in Names |-> 0]
Restart(persisted) ==
  /\ Eventful
  /\ \E r \in Requests : IF persisted THEN pc[r] # "idle" ELSE pc[r] \in Persisting
  /\ crashes' = crashes + 1
  /\ pc' = [r \in Requests |-> "idle"]
  /\ job' = [r \in Requests |-> NoJob]
  /\ setupMu' = Free
  /\ refreshMu' = [a \in Addrs |-> Free]
  /\ chals' = [c \in Chals |-> NoId]
  /\ file' = EnsureTokenFile
  /\ LoadAttempts(persisted)
  /\ UNCHANGED <<users, sessions, mfa, jar, calls, ticks, minted, issued, boots, resets>>

Step(r) ==
  \/ LoginCheck(r) \/ Lookup(r) \/ RecordFailure(r) \/ ResetFailures(r) \/ Rehash(r)
  \/ Factor(r) \/ Issue(r) \/ VerifyCheck(r) \/ TakeChallenge(r) \/ Subject(r) \/ VerifyCode(r)
  \/ Refresh(r) \/ Validate(r) \/ Rotate(r) \/ Logout(r)
  \/ SetupCheck(r) \/ SetupLock(r) \/ Inspect(r) \/ CreateAdmin(r) \/ Consume(r)
  \/ CreateUser(r) \/ DeleteUser(r) \/ UpdateUserRole(r) \/ ChangePassword(r)
  \/ BeginEnrollment(r) \/ ConfirmEnrollment(r) \/ Disable(r) \/ Unenroll(r)

Next ==
  \/ \E r \in Requests : Call(r) \/ Step(r)
  \/ \E d \in {"minutes", "window", "week"} : Elapse(d)
  \/ \E persisted \in BOOLEAN : Restart(persisted)

Spec == Init /\ [][Next]_vars

-----------------------------------------------------------------------------
TypeOK ==
  /\ users \in [Ids -> User]
  /\ sessions \in [Tokens -> [user: Ids \cup {NoId}, st: {"none", "live", "revoked", "expired"}]]
  /\ mfa \in [Ids -> [st: {"none", "pending", "active"}, gen: Gens, used: BOOLEAN]]
  /\ chals \in [Chals -> Ids \cup {NoId}]
  /\ file \in BOOLEAN
  /\ attempts \in [Keys -> 0..(MaxAttempts + MaxCalls)]
  /\ setupMu \in Requests \cup {Free}
  /\ refreshMu \in [Addrs -> Requests \cup {Free}]
  /\ minted \in 0..MaxTokens

(* The last-admin policy of DeleteUser and UpdateUserRole: whatever admins *)
(* do to each other at the same time, with tokens that still say admin, a  *)
(* configured system keeps one.                                            *)
AnAdminRemains == (\E u \in Ids : InFile(u)) => Admins # {}

(* setupMu and BootstrapFirstAdmin: one first administrator, and one       *)
(* recovery for the token of the file.                                     *)
SetupIsOneTime == boots <= 1 /\ resets <= 1

(* A refresh token is rotated once, a challenge and a recovery code give   *)
(* one session each (Refresh, VerifyAndIssueSession, ConsumeRecoveryCode). *)
CredentialsAreUsedOnce ==
  \A s, t \in Tokens : s # t /\ issued[s].via = issued[t].via =>
    /\ issued[s].via \in {"refresh", "mfa"} => issued[s].from # issued[t].from
    /\ issued[s].via = "mfa" /\ issued[s].code.kind = "recovery" =>
         issued[s].code # issued[t].code \/ sessions[s].user # sessions[t].user

(* Refresh and Verify give no session to a user who was deleted before     *)
(* they were called, Login none to one who is enrolled all along and has   *)
(* shown a password only.                                                  *)
SessionsAreEarned == \A t \in Tokens : issued[t].alive /\ ~issued[t].bypass

(* The limiter is checked before and counted after the credentials: the    *)
(* requests under way may pass the same check, and a crash may lose their  *)
(* failures, no more.                                                      *)
FailuresAreLimited ==
  \A n \in Names : wrong[n] <= MaxAttempts - 1 + Cardinality(Requests) * (1 + crashes)

(* setupMu and the refresh locks are held only by a request that is inside *)
(* its section, where nothing waits: every path, the failing ones too,     *)
(* gives them back.                                                        *)
LocksComeBack ==
  /\ setupMu # Free =>
       job[setupMu].op = "setup" /\ pc[setupMu] \in {"inspect", "admin", "issue", "consume"}
  /\ \A a \in Addrs : refreshMu[a] # Free =>
       /\ job[refreshMu[a]].op = "refresh" /\ AddrOf[job[refreshMu[a]].b] = a
       /\ pc[refreshMu[a]] \in {"validate", "rotate", "subject", "issue"}

-----------------------------------------------------------------------------
(* What comments of the code say and the code does not always do: README.  *)

(* The cookie a browser sends is the one it was given last: Verify issues  *)
(* "exactly like" Login does.                                              *)
SentCookieIsTheLatest ==
  \A b \in Browsers : jar[b].root # None /\ jar[b].api # None => jar[b].root < jar[b].api
=============================================================================
