----------------------------- MODULE AuthProofs -----------------------------
(***************************************************************************)
(* Proofs about accounts, sessions, credentials and locks, for any number  *)
(* of users, browsers, addresses and requests.  StoreInv is about the      *)
(* files and the browsers, ReqInv about the requests under way: what each  *)
(* phase may rely on.  The second half gives each action an effect, a      *)
(* predicate without the cases of the code, and proves the invariants      *)
(* behind the session properties from the effects.                         *)
(***************************************************************************)
EXTENDS Auth, FiniteSetTheorems, TLAPS

JobType == [op: AllOps \cup {"none"}, no: 0..MaxCalls, b: Browsers \cup {1}, me: Ids \cup {NoId},
            u: Ids \cup {NoId}, name: Names \cup {"none"}, role: Roles, pw: Passwords,
            low: BOOLEAN, code: Codes, tok: Tokens \cup {None}, chal: Nat, header: BOOLEAN,
            alive: BOOLEAN, gen: Gens]
SessionType == [user: Ids \cup {NoId}, st: {"none", "live", "revoked", "expired"}]
RowType == [st: {"none", "pending", "active"}, gen: Gens, used: BOOLEAN]
ClaimsType == [user: Ids \cup {NoId}, role: Roles]
JarType == [root: Tokens \cup {None}, api: Tokens \cup {None}, claims: ClaimsType, chal: Nat]

(* Whoever was in the user file once, an administrator is in it now; an    *)
(* access token shows that somebody was.                                   *)
Configured == \E u \in Ids : users[u].role # "absent"
StoreInv ==
  /\ users \in [Ids -> User] /\ sessions \in [Tokens -> SessionType]
  /\ mfa \in [Ids -> RowType] /\ jar \in [Browsers -> JarType]
  /\ chals \in [Chals -> Ids \cup {NoId}] /\ minted \in 0..MaxTokens /\ calls \in 0..MaxCalls
  /\ Configured => Admins # {}
  /\ \A b \in Browsers : jar[b].claims.user # NoId => Admins # {}
  /\ \A t \in Tokens : sessions[t].st = "live" => sessions[t].user \in Ids

(* The phases that have a user, and those that found one in the file or    *)
(* came with the access token of an administrator.                         *)
WithUser == {"setup", "await", "inspect", "admin", "consume", "reset", "rehash", "factor",
             "issue", "subject", "code", "create", "delete", "role", "password", "enroll",
             "confirm", "disable", "unenroll", "rotate"}
Labels == AllOps \cup {"idle", "lookup", "record", "take", "validate"} \cup WithUser
AfterUser == {"reset", "rehash", "factor", "issue", "code", "create", "consume"}
SetupHeld == {"inspect", "admin", "issue", "consume"}
RefreshHeld == {"validate", "rotate", "subject", "issue"}

(* What a request in phase l with the locals j may rely on. *)
ReqOK(l, j) ==
  /\ l \in WithUser => j.u \in Ids
  /\ l \in AfterUser => Admins # {}
  /\ l \in {"setup", "await"} => j.op = "setup"
  /\ l = "refresh" => j.op = "refresh"
ReqInv ==
  /\ pc \in [Requests -> Labels] /\ job \in [Requests -> JobType]
  /\ \A r \in Requests : pc[r] # "idle" => job[r].b \in Browsers
  /\ \A r \in Requests : ReqOK(pc[r], job[r])
  /\ setupMu \in Requests \cup {Free} /\ refreshMu \in [Addrs -> Requests \cup {Free}]
  /\ LocksComeBack

AuthInv == StoreInv /\ ReqInv

-----------------------------------------------------------------------------
(* Frames and the two ways a request goes on: to a next phase or out. *)

(* A step that leaves the stores alone. *)
LEMMA StoreFrame ==
  ASSUME StoreInv, UNCHANGED <<users, sessions, mfa, jar, chals, minted, calls>>
  PROVE  StoreInv' /\ (Admins # {} => Admins' # {})
BY DEF StoreInv, Configured, Admins

(* Return: the request is idle and holds no lock. *)
LEMMA ReturnInv ==
  ASSUME ReqInv, ConstantsOK, NEW r \in Requests, Return(r), Admins # {} => Admins' # {}
  PROVE  ReqInv'
<1>1. pc' = [pc EXCEPT ![r] = "idle"] /\ job' = [job EXCEPT ![r] = NoJob]
  BY DEF Return, Goto
<1>2. NoJob \in JobType
  BY DEF NoJob, JobType, NoCode, Codes, Gens, Passwords, Roles, None, ConstantsOK
<1>3. pc' \in [Requests -> Labels] /\ job' \in [Requests -> JobType]
  BY <1>1, <1>2 DEF ReqInv, Labels
<1>4. pc'[r] = "idle" /\ \A q \in Requests \ {r} : pc'[q] = pc[q] /\ job'[q] = job[q]
  BY <1>1 DEF ReqInv
<1>5. \A q \in Requests : ReqOK(pc[q], job[q])'
  <2> SUFFICES ASSUME NEW q \in Requests PROVE ReqOK(pc[q], job[q])'
    OBVIOUS
  <2>1. CASE q = r
    BY <1>4, <2>1 DEF ReqOK, WithUser, AfterUser
  <2>2. CASE q # r
    BY <1>4, <2>2 DEF ReqInv, ReqOK
  <2> QED
    BY <2>1, <2>2
<1>6. setupMu' # r /\ (setupMu' = setupMu \/ setupMu' = Free)
  BY DEF Return, ConstantsOK
<1>7. /\ refreshMu' \in [Addrs -> Requests \cup {Free}]
      /\ \A a \in Addrs : refreshMu'[a] # r /\ (refreshMu'[a] = refreshMu[a] \/ refreshMu'[a] = Free)
  BY DEF Return, ReqInv, ConstantsOK
<1>8. LocksComeBack'
  <2>1. ASSUME setupMu' # Free
        PROVE job'[setupMu'].op = "setup" /\ pc'[setupMu'] \in {"inspect", "admin", "issue", "consume"}
    BY <1>4, <1>6, <2>1 DEF ReqInv, LocksComeBack
  <2>2. ASSUME NEW a \in Addrs, refreshMu'[a] # Free
        PROVE  /\ job'[refreshMu'[a]].op = "refresh" /\ AddrOf[job'[refreshMu'[a]].b] = a
               /\ pc'[refreshMu'[a]] \in {"validate", "rotate", "subject", "issue"}
    BY <1>4, <1>7, <2>2 DEF ReqInv, LocksComeBack
  <2> QED
    BY <2>1, <2>2 DEF LocksComeBack
<1>9. \A q \in Requests : pc'[q] # "idle" => job'[q].b \in Browsers
  BY <1>4 DEF ReqInv
<1> QED
  BY <1>3, <1>5, <1>6, <1>7, <1>8, <1>9 DEF ReqInv

(* The next phase: what it relies on holds, and a lock that is held is     *)
(* held in a phase of its section.                                         *)
LEMMA GotoInv ==
  ASSUME ReqInv, NEW r \in Requests, NEW l \in Labels, pc[r] # "idle", Goto(r, l), UNCHANGED locks,
         Admins # {} => Admins' # {},
         job' \in [Requests -> JobType], \A q \in Requests \ {r} : job'[q] = job[q],
         job'[r].op = job[r].op, job'[r].b = job[r].b,
         ReqOK(l, job[r])',
         pc[r] \in SetupHeld /\ job[r].op = "setup" => l \in SetupHeld,
         pc[r] \in RefreshHeld /\ job[r].op = "refresh" => l \in RefreshHeld
  PROVE  ReqInv'
<1>1. pc' \in [Requests -> Labels] /\ pc'[r] = l /\ \A q \in Requests \ {r} : pc'[q] = pc[q]
  BY DEF Goto, ReqInv
<1>2. \A q \in Requests : ReqOK(pc[q], job[q])'
  <2> SUFFICES ASSUME NEW q \in Requests PROVE ReqOK(pc[q], job[q])'
    OBVIOUS
  <2>1. CASE q = r
    BY <1>1, <2>1 DEF ReqOK
  <2>2. CASE q # r
    BY <1>1, <2>2 DEF ReqInv, ReqOK
  <2> QED
    BY <2>1, <2>2
<1>3. LocksComeBack'
  <2>1. ASSUME setupMu' # Free
        PROVE job'[setupMu'].op = "setup" /\ pc'[setupMu'] \in {"inspect", "admin", "issue", "consume"}
    BY <1>1, <2>1 DEF ReqInv, LocksComeBack, locks, SetupHeld
  <2>2. ASSUME NEW a \in Addrs, refreshMu'[a] # Free
        PROVE  /\ job'[refreshMu'[a]].op = "refresh" /\ AddrOf[job'[refreshMu'[a]].b] = a
               /\ pc'[refreshMu'[a]] \in {"validate", "rotate", "subject", "issue"}
    BY <1>1, <2>2 DEF ReqInv, LocksComeBack, locks, RefreshHeld
  <2> QED
    BY <2>1, <2>2 DEF LocksComeBack
<1>4. \A q \in Requests : pc'[q] # "idle" => job'[q].b \in Browsers
  BY <1>1 DEF ReqInv
<1> QED
  BY <1>1, <1>2, <1>3, <1>4 DEF ReqInv, locks

-----------------------------------------------------------------------------
(* Requests arrive. *)

(* A request arrives with locals of the right kind. *)
LEMMA ArriveInv ==
  ASSUME AuthInv, ConstantsOK, NEW r \in Requests, NEW b \in Browsers, NEW op \in AllOps,
         NEW j \in JobType, Arrive(r, b, op, j),
         op \in WithUser => j.u \in Ids, op = "create" => Admins # {}
  PROVE  AuthInv'
<1>1. /\ job'[r] = [j EXCEPT !.op = op, !.b = b, !.me = jar[b].claims.user, !.no = calls + 1]
      /\ pc' = [pc EXCEPT ![r] = op] /\ pc[r] = "idle"
      /\ \A q \in Requests \ {r} : job'[q] = job[q]
  BY DEF Arrive, Goto, AuthInv, ReqInv
<1>2. /\ job'[r] \in JobType /\ job'[r].op = op /\ job'[r].b = b /\ job'[r].u = j.u
      /\ calls' \in 0..MaxCalls
  <2>1. jar[b].claims.user \in Ids \cup {NoId}
    BY DEF AuthInv, StoreInv, JarType, ClaimsType
  <2>2. calls + 1 \in 0..MaxCalls /\ calls' = calls + 1
    BY DEF Arrive, AuthInv, StoreInv, ConstantsOK
  <2> DEFINE me == jar[b].claims.user
             no == calls + 1
  <2>3. job'[r] = [j EXCEPT !.op = op, !.b = b, !.me = me, !.no = no]
    BY <1>1
  <2>4. me \in Ids \cup {NoId} /\ no \in 0..MaxCalls /\ calls' \in 0..MaxCalls
    BY <2>1, <2>2
  <2> HIDE DEF me, no
  <2>5. [j EXCEPT !.op = op, !.b = b, !.me = me, !.no = no] \in JobType
    BY <2>4 DEF JobType
  <2>6. LET k == [j EXCEPT !.op = op, !.b = b, !.me = me, !.no = no]
        IN  k.op = op /\ k.b = b /\ k.u = j.u
    BY <2>4 DEF JobType
  <2> QED
    BY <2>3, <2>4, <2>5, <2>6
<1>3. pc' \in [Requests -> Labels] /\ job' \in [Requests -> JobType]
  BY <1>1, <1>2 DEF Labels, AuthInv, ReqInv, Arrive
<1>4. pc'[r] = op /\ \A q \in Requests \ {r} : pc'[q] = pc[q]
  BY <1>1 DEF AuthInv, ReqInv
<1>5. StoreInv'
  BY <1>2 DEF Arrive, stores, AuthInv, StoreInv, Configured, Admins
<1>6. \A q \in Requests : ReqOK(pc[q], job[q])'
  <2> SUFFICES ASSUME NEW q \in Requests PROVE ReqOK(pc[q], job[q])'
    OBVIOUS
  <2>0. Admins' = Admins
    BY DEF Admins, Arrive, stores
  <2>1. CASE q = r
    BY <1>2, <1>4, <2>0, <2>1 DEF ReqOK, AllOps, AfterUser
  <2>2. CASE q # r
    BY <1>1, <1>4, <2>0, <2>2 DEF AuthInv, ReqInv, ReqOK
  <2> QED
    BY <2>1, <2>2
<1>7. UNCHANGED locks /\ setupMu # r /\ \A a \in Addrs : refreshMu[a] # r
  BY <1>1 DEF Arrive, AuthInv, ReqInv, LocksComeBack, ConstantsOK
<1>8. LocksComeBack'
  BY <1>1, <1>4, <1>7 DEF LocksComeBack, locks, AuthInv, ReqInv
<1>9. \A q \in Requests : pc'[q] # "idle" => job'[q].b \in Browsers
  BY <1>1, <1>2, <1>4 DEF AuthInv, ReqInv
<1> QED
  BY <1>3, <1>5, <1>6, <1>7, <1>8, <1>9 DEF AuthInv, ReqInv, locks

(* Codes that clients know have a known generation. *)
LEMMA KnownCodes == ConstantsOK => Known \subseteq Codes
BY DEF Known, NoCode, Codes, Gens, ConstantsOK

(* The locals of an idle request. *)
LEMMA NoJobType == ConstantsOK => NoJob \in JobType
BY DEF NoJob, JobType, NoCode, Codes, Gens, Passwords, Roles, None, ConstantsOK

(* An access token names a user and shows that there is an administrator. *)
LEMMA Claims ==
  ASSUME StoreInv, NEW b \in Browsers
  PROVE  /\ Me(b) \in Ids \cup {NoId} /\ (Me(b) # NoId => Admins # {})
         /\ jar[b].root \in Tokens \cup {None} /\ jar[b].api \in Tokens \cup {None}
         /\ jar[b].chal \in Nat
BY DEF StoreInv, JarType, ClaimsType, Me

(* Every handler begins with locals of the right kind. *)
LEMMA CallInv ==
  ASSUME AuthInv, ConstantsOK, NEW r \in Requests, Call(r)
  PROVE  AuthInv'
<1> USE NoJobType
<1>0. PICK b \in Browsers :
        \/ PostSetup(r, b) \/ PostLogin(r, b) \/ PostVerify(r, b) \/ PostRefresh(r, b) \/ PostLogout(r, b)
        \/ HandleCreateUser(r, b) \/ HandleDeleteUser(r, b) \/ HandleUpdateUser(r, b)
        \/ HandleChangePassword(r, b)
        \/ HandleEnroll(r, b) \/ HandleEnrollConfirm(r, b) \/ HandleDisable(r, b)
  BY DEF Call
<1>a. /\ Me(b) \in Ids \cup {NoId} /\ (Me(b) # NoId => Admins # {}) /\ jar[b].chal \in Nat
      /\ Sent(b) \in Tokens \cup {None}
  BY Claims DEF AuthInv, Sent
<1>b. AllOps = {"setup", "login", "verify", "refresh", "logout", "create", "delete", "role",
                "password", "enroll", "confirm", "disable"}
  BY DEF AllOps
<1>1. CASE PostSetup(r, b)
  <2>1. PICK u \in Fresh, h \in BOOLEAN :
          Arrive(r, b, "setup", [NoJob EXCEPT !.u = u, !.name = NameOf[u], !.role = "admin", !.header = h])
    BY <1>1 DEF PostSetup
  <2> DEFINE j == [NoJob EXCEPT !.u = u, !.name = NameOf[u], !.role = "admin", !.header = h]
  <2>2. u \in Ids /\ NameOf[u] \in Names
    BY DEF Fresh, ConstantsOK
  <2>3. /\ j \in JobType
        /\ j.u = u
    BY <2>2 DEF JobType, Roles
  <2>5. Arrive(r, b, "setup", j)
    BY <2>1
  <2> HIDE DEF j
  <2> QED
    BY <1>b, <2>5, <2>2, <2>3, ArriveInv
<1>2. CASE PostLogin(r, b)
  <2>1. PICK n \in LoginNames, p \in Passwords : Arrive(r, b, "login", [NoJob EXCEPT !.name = n, !.pw = p])
    BY <1>2 DEF PostLogin
  <2> DEFINE j == [NoJob EXCEPT !.name = n, !.pw = p]
  <2>2. j \in JobType
    BY DEF JobType, ConstantsOK
  <2>5. Arrive(r, b, "login", j)
    BY <2>1
  <2> HIDE DEF j
  <2> QED
    BY <1>b, <2>5, <2>2, ArriveInv DEF WithUser
<1>3. CASE PostVerify(r, b)
  <2> DEFINE a == chals[jar[b].chal] \in Ids /\ InFile(chals[jar[b].chal])
  <2>1. PICK k \in Known : Arrive(r, b, "verify", [NoJob EXCEPT !.chal = jar[b].chal, !.code = k, !.alive = a])
    BY <1>3 DEF PostVerify
  <2> DEFINE j == [NoJob EXCEPT !.chal = jar[b].chal, !.code = k, !.alive = a]
  <2>a. a \in BOOLEAN
    BY Zenon
  <2> HIDE DEF a
  <2>2. j \in JobType
    BY <1>a, <2>a, KnownCodes DEF JobType
  <2>5. Arrive(r, b, "verify", j)
    BY <2>1
  <2> HIDE DEF j
  <2> QED
    BY <1>b, <2>5, <2>2, ArriveInv DEF WithUser
<1>4. CASE PostRefresh(r, b)
  <2> DEFINE a == Sent(b) # None /\ InFile(sessions[Sent(b)].user)
  <2> DEFINE j == [NoJob EXCEPT !.tok = Sent(b), !.alive = a]
  <2>1. Arrive(r, b, "refresh", j)
    BY <1>4 DEF PostRefresh
  <2>a. a \in BOOLEAN
    BY Zenon
  <2> HIDE DEF a
  <2>2. j \in JobType
    BY <1>a, <2>a DEF JobType
  <2> HIDE DEF j
  <2> QED
    BY <1>b, <2>1, <2>2, ArriveInv DEF WithUser
<1>5. CASE PostLogout(r, b)
  <2> DEFINE j == [NoJob EXCEPT !.tok = Sent(b)]
  <2>1. Arrive(r, b, "logout", j)
    BY <1>5 DEF PostLogout
  <2>2. j \in JobType
    BY <1>a DEF JobType
  <2> HIDE DEF j
  <2> QED
    BY <1>b, <2>1, <2>2, ArriveInv DEF WithUser
<1>6. CASE HandleCreateUser(r, b)
  <2>1. PICK u \in Fresh, role \in Roles :
          Arrive(r, b, "create", [NoJob EXCEPT !.u = u, !.name = NameOf[u], !.role = role])
    BY <1>6 DEF HandleCreateUser
  <2> DEFINE j == [NoJob EXCEPT !.u = u, !.name = NameOf[u], !.role = role]
  <2>2. u \in Ids /\ NameOf[u] \in Names /\ Admins # {}
    BY <1>6, <1>a DEF Fresh, ConstantsOK, HandleCreateUser, IsAdmin
  <2>3. /\ j \in JobType
        /\ j.u = u
    BY <2>2 DEF JobType
  <2>5. Arrive(r, b, "create", j)
    BY <2>1
  <2> HIDE DEF j
  <2> QED
    BY <1>b, <2>5, <2>2, <2>3, ArriveInv
<1>7. CASE HandleDeleteUser(r, b)
  <2>1. PICK u \in Ids : Arrive(r, b, "delete", [NoJob EXCEPT !.u = u])
    BY <1>7 DEF HandleDeleteUser
  <2> DEFINE j == [NoJob EXCEPT !.u = u]
  <2>2. j \in JobType /\ j.u = u
    BY DEF JobType
  <2>5. Arrive(r, b, "delete", j)
    BY <2>1
  <2> HIDE DEF j
  <2> QED
    BY <1>b, <2>5, <2>2, ArriveInv
<1>8. CASE HandleUpdateUser(r, b)
  <2>1. PICK u \in Ids, role \in Roles : Arrive(r, b, "role", [NoJob EXCEPT !.u = u, !.role = role])
    BY <1>8 DEF HandleUpdateUser
  <2> DEFINE j == [NoJob EXCEPT !.u = u, !.role = role]
  <2>2. j \in JobType /\ j.u = u
    BY DEF JobType
  <2>5. Arrive(r, b, "role", j)
    BY <2>1
  <2> HIDE DEF j
  <2> QED
    BY <1>b, <2>5, <2>2, ArriveInv
<1>9. CASE HandleChangePassword(r, b)
  <2>1. PICK u \in Ids, p \in Passwords : Arrive(r, b, "password", [NoJob EXCEPT !.u = u, !.pw = p])
    BY <1>9 DEF HandleChangePassword
  <2> DEFINE j == [NoJob EXCEPT !.u = u, !.pw = p]
  <2>2. j \in JobType /\ j.u = u
    BY DEF JobType
  <2>5. Arrive(r, b, "password", j)
    BY <2>1
  <2> HIDE DEF j
  <2> QED
    BY <1>b, <2>5, <2>2, ArriveInv
<1>10. CASE HandleEnroll(r, b)
  <2> DEFINE j == [NoJob EXCEPT !.u = Me(b)]
  <2>1. Arrive(r, b, "enroll", j) /\ Me(b) \in Ids
    BY <1>10, <1>a DEF HandleEnroll
  <2>2. j \in JobType /\ j.u = Me(b)
    BY <2>1 DEF JobType
  <2> HIDE DEF j
  <2> QED
    BY <1>b, <2>1, <2>2, ArriveInv
<1>11. CASE HandleEnrollConfirm(r, b)
  <2>1. PICK k \in Known : Arrive(r, b, "confirm", [NoJob EXCEPT !.u = Me(b), !.code = k])
    BY <1>11 DEF HandleEnrollConfirm
  <2> DEFINE j == [NoJob EXCEPT !.u = Me(b), !.code = k]
  <2>2. Me(b) \in Ids
    BY <1>11, <1>a DEF HandleEnrollConfirm
  <2>3. /\ j \in JobType
        /\ j.u = Me(b)
    BY <2>2, KnownCodes DEF JobType
  <2>5. Arrive(r, b, "confirm", j)
    BY <2>1
  <2> HIDE DEF j
  <2> QED
    BY <1>b, <2>5, <2>2, <2>3, ArriveInv
<1>12. CASE HandleDisable(r, b)
  <2>1. PICK u \in Ids : /\ RequireSelfOrAdmin(b, u)
                         /\ Arrive(r, b, "disable", [NoJob EXCEPT !.u = u, !.pw = users[Me(b)].pw])
    BY <1>12 DEF HandleDisable
  <2> DEFINE j == [NoJob EXCEPT !.u = u, !.pw = users[Me(b)].pw]
  <2>2. Me(b) \in Ids
    BY <1>a, <2>1 DEF RequireSelfOrAdmin, IsAdmin
  <2>3. users[Me(b)].pw \in Passwords
    BY <2>2 DEF AuthInv, StoreInv, User
  <2>4. /\ j \in JobType
        /\ j.u = u
    BY <2>3 DEF JobType
  <2>5. Arrive(r, b, "disable", j)
    BY <2>1
  <2> HIDE DEF j
  <2> QED
    BY <1>b, <2>5, <2>4, ArriveInv
<1> QED
  BY <1>0, <1>1, <1>2, <1>3, <1>4, <1>5, <1>6, <1>7, <1>8, <1>9, <1>10, <1>11, <1>12

-----------------------------------------------------------------------------
(* Steps that leave users, sessions and browsers alone. *)

(* A step to the next phase with the same locals. *)
LEMMA OnwardInv ==
  ASSUME AuthInv, NEW r \in Requests, NEW l \in Labels, pc[r] # "idle", Goto(r, l),
         UNCHANGED job, UNCHANGED locks, StoreInv', Admins # {} => Admins' # {},
         l \in WithUser => job[r].u \in Ids, l \in AfterUser => Admins # {},
         l \in {"setup", "await"} => job[r].op = "setup", l = "refresh" => job[r].op = "refresh",
         pc[r] \in SetupHeld /\ job[r].op = "setup" => l \in SetupHeld,
         pc[r] \in RefreshHeld /\ job[r].op = "refresh" => l \in RefreshHeld
  PROVE  AuthInv'
<1>1. ReqOK(l, job[r])'
  BY DEF ReqOK
<1>2. job' \in [Requests -> JobType]
  BY DEF AuthInv, ReqInv
<1> QED
  BY <1>1, <1>2, GotoInv DEF AuthInv

(* The end of a request. *)
LEMMA OutInv ==
  ASSUME AuthInv, ConstantsOK, NEW r \in Requests, Return(r), StoreInv', Admins # {} => Admins' # {}
  PROVE  AuthInv'
BY ReturnInv DEF AuthInv

(* What the phase of a request says of it. *)
LEMMA PhaseFacts ==
  ASSUME AuthInv, NEW r \in Requests
  PROVE  /\ job[r] \in JobType /\ job[r].u \in Ids \cup {NoId}
         /\ pc[r] \in WithUser => job[r].u \in Ids
         /\ pc[r] \in AfterUser => Admins # {}
         /\ pc[r] \in {"setup", "await"} => job[r].op = "setup"
         /\ pc[r] = "refresh" => job[r].op = "refresh"
         /\ pc[r] # "idle" => job[r].b \in Browsers
BY DEF AuthInv, ReqInv, ReqOK, JobType

(* The limiter refuses or lets pass. *)
LEMMA LoginCheckInv ==
  ASSUME AuthInv, ConstantsOK, NEW r \in Requests, LoginCheck(r)
  PROVE  AuthInv'
<1>1. StoreInv' /\ (Admins # {} => Admins' # {})
  BY StoreFrame DEF AuthInv, LoginCheck, stores, bounds
<1>2. CASE Return(r)
  BY <1>1, <1>2, OutInv
<1>3. CASE Goto(r, "lookup") /\ UNCHANGED <<job, locks>>
  BY <1>1, <1>3, OnwardInv, PhaseFacts DEF LoginCheck, locks, Labels, AllOps, WithUser, AfterUser, SetupHeld,
     RefreshHeld
<1> QED
  BY <1>2, <1>3 DEF LoginCheck

(* The limiter of the setup. *)
LEMMA SetupCheckInv ==
  ASSUME AuthInv, ConstantsOK, NEW r \in Requests, SetupCheck(r)
  PROVE  AuthInv'
<1>1. StoreInv' /\ (Admins # {} => Admins' # {})
  BY StoreFrame DEF AuthInv, SetupCheck, stores, bounds
<1>2. CASE Return(r)
  BY <1>1, <1>2, OutInv
<1>3. CASE Goto(r, "await") /\ UNCHANGED <<job, locks>>
  BY <1>1, <1>3, OnwardInv, PhaseFacts DEF SetupCheck, locks, Labels, AllOps, WithUser, AfterUser, SetupHeld,
     RefreshHeld
<1> QED
  BY <1>2, <1>3 DEF SetupCheck

(* The password of the caller is checked. *)
LEMMA DisableInv ==
  ASSUME AuthInv, ConstantsOK, NEW r \in Requests, Disable(r)
  PROVE  AuthInv'
<1>1. StoreInv' /\ (Admins # {} => Admins' # {})
  BY StoreFrame DEF AuthInv, Disable, stores, bounds
<1>2. CASE Return(r)
  BY <1>1, <1>2, OutInv
<1>3. CASE Goto(r, "unenroll") /\ UNCHANGED <<job, locks>>
  BY <1>1, <1>3, OnwardInv, PhaseFacts DEF Disable, locks, Labels, AllOps, WithUser, AfterUser, SetupHeld,
     RefreshHeld
<1> QED
  BY <1>2, <1>3 DEF Disable

(* The user is found in the file, so there is an administrator. *)
LEMMA LookupInv ==
  ASSUME AuthInv, ConstantsOK, NEW r \in Requests, Lookup(r)
  PROVE  AuthInv'
<1>1. StoreInv' /\ (Admins # {} => Admins' # {})
  BY StoreFrame DEF AuthInv, Lookup, stores, bounds
<1>2. CASE Goto(r, "record") /\ UNCHANGED job
  BY <1>1, <1>2, OnwardInv DEF Lookup, locks, Labels, WithUser, AfterUser, SetupHeld, RefreshHeld
<1>3. ASSUME NEW u \in Ids, InFile(u), Goto(r, "reset"),
             job' = [job EXCEPT ![r].u = u, ![r].role = users[u].role, ![r].low = users[u].low,
                                ![r].gen = IF IsEnrolled(u) THEN mfa[u].gen ELSE 0]
      PROVE  AuthInv'
  <2> DEFINE role == users[u].role
             low == users[u].low
             gen == IF IsEnrolled(u) THEN mfa[u].gen ELSE 0
  <2>1. role \in Roles /\ low \in BOOLEAN /\ gen \in Gens
    BY <1>3 DEF AuthInv, StoreInv, User, RowType, InFile, Gens, ConstantsOK
  <2>2. job' = [job EXCEPT ![r] = [job[r] EXCEPT !.u = u, !.role = role, !.low = low, !.gen = gen]]
    BY <1>3 DEF AuthInv, ReqInv, JobType
  <2> HIDE DEF role, low, gen
  <2>3. job[r] \in JobType
    BY PhaseFacts
  <2>4. [job[r] EXCEPT !.u = u, !.role = role, !.low = low, !.gen = gen] \in JobType
    BY <2>1, <2>3 DEF JobType
  <2>5. /\ job' \in [Requests -> JobType] /\ \A q \in Requests \ {r} : job'[q] = job[q]
        /\ job'[r] = [job[r] EXCEPT !.u = u, !.role = role, !.low = low, !.gen = gen]
    BY <2>2, <2>4 DEF AuthInv, ReqInv
  <2>6. job'[r].op = job[r].op /\ job'[r].b = job[r].b /\ job'[r].u = u
    BY <2>3, <2>5 DEF JobType
  <2>7. Admins # {}
    BY <1>3 DEF AuthInv, StoreInv, Configured, InFile, Roles
  <2>8. ReqOK("reset", job[r])'
    BY <1>1, <2>6, <2>7 DEF ReqOK
  <2>9. pc[r] = "lookup" /\ UNCHANGED locks
    BY DEF Lookup
  <2> QED
    BY <1>1, <1>3, <2>5, <2>6, <2>8, <2>9, GotoInv DEF AuthInv, Labels, WithUser, SetupHeld, RefreshHeld
<1> QED
  BY <1>2, <1>3 DEF Lookup, GetUserByUsername

(* A failure is counted and answered. *)
LEMMA RecordFailureInv ==
  ASSUME AuthInv, ConstantsOK, NEW r \in Requests, RecordFailure(r)
  PROVE  AuthInv'
<1>1. StoreInv' /\ (Admins # {} => Admins' # {})
  BY StoreFrame DEF AuthInv, RecordFailure, bounds
<1> QED
  BY <1>1, OutInv DEF RecordFailure

(* A success resets the counters. *)
LEMMA ResetFailuresInv ==
  ASSUME AuthInv, ConstantsOK, NEW r \in Requests, ResetFailures(r)
  PROVE  AuthInv'
<1>1. StoreInv' /\ (Admins # {} => Admins' # {})
  BY StoreFrame DEF AuthInv, ResetFailures, bounds
<1>2. \E l \in {"issue", "rehash", "factor"} : Goto(r, l)
  BY DEF ResetFailures
<1> QED
  BY <1>1, <1>2, OnwardInv, PhaseFacts DEF ResetFailures, locks, Labels, WithUser, AfterUser,
     SetupHeld, RefreshHeld

(* Clearing a cookie leaves the access token. *)
LEMMA CookieCleared ==
  ASSUME StoreInv, NEW b \in Browsers
  PROVE  /\ ClearRefreshCookie(b) \in [Browsers -> JarType]
         /\ \A c \in Browsers : ClearRefreshCookie(b)[c].claims = jar[c].claims
<1>1. [jar[b] EXCEPT !.root = None] \in JarType /\ [jar[b] EXCEPT !.root = None].claims = jar[b].claims
  BY DEF StoreInv, JarType
<1> QED
  BY <1>1 DEF ClearRefreshCookie, StoreInv

(* A step to the next phase that sets one of the locals. *)
LEMMA SetInv ==
  ASSUME AuthInv, NEW r \in Requests, NEW l \in Labels, NEW j \in JobType, pc[r] # "idle",
         Goto(r, l), job' = [job EXCEPT ![r] = j], j.op = job[r].op, j.b = job[r].b,
         UNCHANGED locks, StoreInv', Admins # {} => Admins' # {},
         l \in WithUser => j.u \in Ids, l \in AfterUser => Admins # {},
         l \notin {"setup", "await", "refresh"},
         pc[r] \in SetupHeld /\ job[r].op = "setup" => l \in SetupHeld,
         pc[r] \in RefreshHeld /\ job[r].op = "refresh" => l \in RefreshHeld
  PROVE  AuthInv'
<1>1. /\ job' \in [Requests -> JobType] /\ job'[r] = j
      /\ \A q \in Requests \ {r} : job'[q] = job[q]
  BY DEF AuthInv, ReqInv
<1>2. ReqOK(l, job[r])'
  BY <1>1 DEF ReqOK
<1> QED
  BY <1>1, <1>2, GotoInv DEF AuthInv

(* The name that goes with the challenge. *)
LEMMA VerifyCheckInv ==
  ASSUME AuthInv, ConstantsOK, NEW r \in Requests, VerifyCheck(r)
  PROVE  AuthInv'
<1>1. StoreInv' /\ (Admins # {} => Admins' # {})
  BY StoreFrame DEF AuthInv, VerifyCheck, stores, bounds
<1>2. CASE Return(r)
  BY <1>1, <1>2, OutInv
<1>3. ASSUME Goto(r, "take"), UNCHANGED locks,
             job' = [job EXCEPT ![r].name = LookupUsernameByMfaToken(job[r].chal)]
      PROVE  AuthInv'
  <2> DEFINE n == LookupUsernameByMfaToken(job[r].chal)
             j == [job[r] EXCEPT !.name = n]
  <2>1. n \in Names \cup {"none"}
    BY DEF LookupUsernameByMfaToken, ConstantsOK
  <2>2. job' = [job EXCEPT ![r] = j]
    BY <1>3
  <2> HIDE DEF n
  <2>3. j \in JobType /\ j.op = job[r].op /\ j.b = job[r].b
    BY <2>1, PhaseFacts DEF JobType
  <2> HIDE DEF j
  <2> QED
    BY <1>1, <1>3, <2>2, <2>3, SetInv DEF VerifyCheck, Labels, WithUser, AfterUser, SetupHeld, RefreshHeld
<1> QED
  BY <1>2, <1>3 DEF VerifyCheck

(* A challenge that is taken names a user. *)
LEMMA TakeChallengeInv ==
  ASSUME AuthInv, ConstantsOK, NEW r \in Requests, TakeChallenge(r)
  PROVE  AuthInv'
<1>1. StoreInv' /\ (Admins # {} => Admins' # {})
  BY DEF AuthInv, TakeChallenge, stores, bounds, StoreInv, Configured, Admins
<1>2. CASE Return(r)
  BY <1>1, <1>2, OutInv
<1>3. ASSUME NEW u \in Ids, Goto(r, "subject"), UNCHANGED locks, job' = [job EXCEPT ![r].u = u]
      PROVE  AuthInv'
  <2> DEFINE j == [job[r] EXCEPT !.u = u]
  <2>1. job' = [job EXCEPT ![r] = j]
    BY <1>3
  <2>2. j \in JobType /\ j.op = job[r].op /\ j.b = job[r].b /\ j.u = u
    BY PhaseFacts DEF JobType
  <2> HIDE DEF j
  <2> QED
    BY <1>1, <1>3, <2>1, <2>2, SetInv DEF TakeChallenge, Labels, WithUser, AfterUser, SetupHeld, RefreshHeld
<1> QED
  BY <1>2, <1>3 DEF TakeChallenge

(* The user of a challenge or a session is in the file, or the request ends. *)
LEMMA SubjectInv ==
  ASSUME AuthInv, ConstantsOK, NEW r \in Requests, Subject(r)
  PROVE  AuthInv'
<1>0. pc[r] = "subject" /\ job[r].u \in Ids /\ job[r].b \in Browsers
  BY PhaseFacts DEF Subject, WithUser
<1>1. CASE InFile(job[r].u)
  <2> DEFINE role == users[job[r].u].role
             j == [job[r] EXCEPT !.role = role]
             l == IF job[r].op = "verify" THEN "code" ELSE "issue"
  <2>1. job' = [job EXCEPT ![r] = j] /\ Goto(r, l) /\ UNCHANGED locks
    BY <1>1 DEF Subject
  <2>2. role \in Roles /\ Admins # {}
    BY <1>0, <1>1 DEF InFile, AuthInv, StoreInv, Configured, Roles
  <2>3. l \in {"code", "issue"} /\ (job[r].op = "refresh" => l = "issue")
    OBVIOUS
  <2> HIDE DEF role, l
  <2>4. j \in JobType /\ j.op = job[r].op /\ j.b = job[r].b /\ j.u = job[r].u
    BY <2>2, PhaseFacts DEF JobType
  <2> HIDE DEF j
  <2>5. StoreInv' /\ (Admins # {} => Admins' # {})
    BY <1>1, StoreFrame DEF AuthInv, Subject, stores, bounds
  <2> QED
    BY <1>0, <2>1, <2>2, <2>3, <2>4, <2>5, SetInv DEF Labels, WithUser, AfterUser, SetupHeld, RefreshHeld
<1>2. CASE ~InFile(job[r].u)
  <2>1. StoreInv' /\ (Admins # {} => Admins' # {})
    <3>1. jar' \in [Browsers -> JarType] /\ \A b \in Browsers : jar'[b].claims = jar[b].claims
      BY <1>0, <1>2, CookieCleared DEF Subject, AuthInv, StoreInv
    <3> QED
      BY <1>2, <3>1 DEF Subject, stores, bounds, AuthInv, StoreInv, Configured, Admins
  <2> QED
    BY <1>2, <2>1, OutInv DEF Subject
<1> QED
  BY <1>1, <1>2

(* A recovery code is used up. *)
LEMMA VerifyCodeInv ==
  ASSUME AuthInv, ConstantsOK, NEW r \in Requests, VerifyCode(r)
  PROVE  AuthInv'
<1>0. pc[r] = "code" /\ job[r].u \in Ids
  BY PhaseFacts DEF VerifyCode, WithUser
<1>1. mfa' \in [Ids -> RowType]
  <2>1. mfa' = mfa \/ mfa' = [mfa EXCEPT ![job[r].u].used = TRUE]
    BY DEF VerifyCode
  <2>2. ASSUME NEW row \in RowType, NEW b \in BOOLEAN
        PROVE  [row EXCEPT !.used = b] \in RowType
    BY DEF RowType
  <2>3. mfa[job[r].u] \in RowType /\ TRUE \in BOOLEAN
    BY <1>0 DEF AuthInv, StoreInv
  <2>4. [mfa[job[r].u] EXCEPT !.used = TRUE] \in RowType
    BY <2>2, <2>3
  <2> QED
    BY <2>1, <2>4 DEF AuthInv, StoreInv
<1>2. StoreInv' /\ (Admins # {} => Admins' # {})
  BY <1>1 DEF VerifyCode, AuthInv, StoreInv, Configured, Admins, bounds
<1>3. CASE Return(r)
  BY <1>2, <1>3, OutInv
<1>4. ASSUME NEW l \in {"reset", "record"}, Goto(r, l), UNCHANGED <<job, locks>>
      PROVE  AuthInv'
  BY <1>0, <1>2, <1>4, OnwardInv, PhaseFacts DEF locks, Labels, WithUser, AfterUser, SetupHeld, RefreshHeld
<1> QED
  BY <1>3, <1>4 DEF VerifyCode

-----------------------------------------------------------------------------
(* Refresh, logout and setup: the sections of the locks. *)

(* The lock of the address is taken. *)
LEMMA RefreshInv ==
  ASSUME AuthInv, ConstantsOK, NEW r \in Requests, Refresh(r)
  PROVE  AuthInv'
<1> DEFINE a == ExtractIP(r)
<1>0. /\ pc[r] = "refresh" /\ job[r].op = "refresh" /\ job[r].b \in Browsers
      /\ a = AddrOf[job[r].b] /\ a \in Addrs
  BY PhaseFacts DEF Refresh, ExtractIP, ConstantsOK
<1>1. StoreInv' /\ (Admins # {} => Admins' # {})
  BY StoreFrame DEF AuthInv, Refresh, stores, bounds
<1>2. refreshMu' = [refreshMu EXCEPT ![a] = r] /\ UNCHANGED <<setupMu, job>>
  BY DEF Refresh
<1> HIDE DEF a
<1>3. /\ pc' \in [Requests -> Labels] /\ pc'[r] = "validate"
      /\ \A q \in Requests \ {r} : pc'[q] = pc[q]
  BY DEF Refresh, Goto, AuthInv, ReqInv, Labels
<1>4. \A q \in Requests : ReqOK(pc[q], job[q])'
  <2> SUFFICES ASSUME NEW q \in Requests PROVE ReqOK(pc[q], job[q])'
    OBVIOUS
  <2>1. CASE q = r
    BY <1>3, <2>1 DEF ReqOK, WithUser, AfterUser
  <2>2. CASE q # r
    BY <1>1, <1>2, <1>3, <2>2 DEF AuthInv, ReqInv, ReqOK
  <2> QED
    BY <2>1, <2>2
<1>5. LocksComeBack'
  <2>1. setupMu # r
    BY <1>0 DEF AuthInv, ReqInv, LocksComeBack, ConstantsOK
  <2>2. ASSUME setupMu' # Free
        PROVE job'[setupMu'].op = "setup" /\ pc'[setupMu'] \in {"inspect", "admin", "issue", "consume"}
    BY <1>2, <1>3, <2>1, <2>2 DEF AuthInv, ReqInv, LocksComeBack
  <2>3. ASSUME NEW c \in Addrs, refreshMu'[c] # Free
        PROVE  /\ job'[refreshMu'[c]].op = "refresh" /\ AddrOf[job'[refreshMu'[c]].b] = c
               /\ pc'[refreshMu'[c]] \in {"validate", "rotate", "subject", "issue"}
    <3>1. CASE c = a
      BY <1>0, <1>2, <1>3, <2>3, <3>1 DEF AuthInv, ReqInv
    <3>2. CASE c # a
      <4>1. refreshMu'[c] = refreshMu[c] /\ refreshMu[c] \in Requests
        BY <1>2, <2>3, <3>2 DEF AuthInv, ReqInv
      <4>2. refreshMu[c] # r
        BY <1>0, <2>3, <4>1 DEF AuthInv, ReqInv, LocksComeBack
      <4> QED
        BY <1>2, <1>3, <2>3, <4>1, <4>2 DEF AuthInv, ReqInv, LocksComeBack
    <3> QED
      BY <3>1, <3>2
  <2> QED
    BY <2>2, <2>3 DEF LocksComeBack
<1>6. refreshMu' \in [Addrs -> Requests \cup {Free}]
  BY <1>2 DEF AuthInv, ReqInv
<1>7. \A q \in Requests : pc'[q] # "idle" => job'[q].b \in Browsers
  BY <1>0, <1>2, <1>3 DEF AuthInv, ReqInv
<1> QED
  BY <1>1, <1>2, <1>3, <1>4, <1>5, <1>6, <1>7 DEF AuthInv, ReqInv

(* The lock of the setup is taken. *)
LEMMA SetupLockInv ==
  ASSUME AuthInv, ConstantsOK, NEW r \in Requests, SetupLock(r)
  PROVE  AuthInv'
<1>0. pc[r] = "await" /\ job[r].op = "setup" /\ job[r].b \in Browsers /\ job[r].u \in Ids
  BY PhaseFacts DEF SetupLock, WithUser
<1>1. StoreInv' /\ (Admins # {} => Admins' # {})
  BY StoreFrame DEF AuthInv, SetupLock, stores, bounds
<1>2. setupMu' = r /\ UNCHANGED <<refreshMu, job>>
  BY DEF SetupLock
<1>3. /\ pc' \in [Requests -> Labels] /\ pc'[r] = "inspect"
      /\ \A q \in Requests \ {r} : pc'[q] = pc[q]
  BY DEF SetupLock, Goto, AuthInv, ReqInv, Labels, WithUser
<1>4. \A q \in Requests : ReqOK(pc[q], job[q])'
  <2> SUFFICES ASSUME NEW q \in Requests PROVE ReqOK(pc[q], job[q])'
    OBVIOUS
  <2>1. CASE q = r
    BY <1>0, <1>2, <1>3, <2>1 DEF ReqOK, WithUser, AfterUser
  <2>2. CASE q # r
    BY <1>1, <1>2, <1>3, <2>2 DEF AuthInv, ReqInv, ReqOK
  <2> QED
    BY <2>1, <2>2
<1>5. \A a \in Addrs : refreshMu[a] # Free => refreshMu[a] # r
  BY <1>0 DEF AuthInv, ReqInv, LocksComeBack
<1>6. LocksComeBack'
  BY <1>0, <1>2, <1>3, <1>5 DEF AuthInv, ReqInv, LocksComeBack
<1>7. \A q \in Requests : pc'[q] # "idle" => job'[q].b \in Browsers
  BY <1>0, <1>2, <1>3 DEF AuthInv, ReqInv
<1> QED
  BY <1>1, <1>2, <1>3, <1>4, <1>6, <1>7 DEF AuthInv, ReqInv

(* A live session has a user. *)
LEMMA ValidateInv ==
  ASSUME AuthInv, ConstantsOK, NEW r \in Requests, Validate(r)
  PROVE  AuthInv'
<1>0. pc[r] = "validate" /\ job[r].b \in Browsers /\ job[r].tok \in Tokens \cup {None}
  BY PhaseFacts DEF Validate, JobType
<1>1. ASSUME jar' = jar \/ jar' = ClearRefreshCookie(job[r].b)
      PROVE  StoreInv' /\ (Admins # {} => Admins' # {})
  <2>1. jar' \in [Browsers -> JarType] /\ \A b \in Browsers : jar'[b].claims = jar[b].claims
    BY <1>0, <1>1, CookieCleared DEF AuthInv, StoreInv
  <2> QED
    BY <2>1 DEF Validate, bounds, AuthInv, StoreInv, Configured, Admins
<1>2. CASE Return(r) /\ (jar' = jar \/ jar' = ClearRefreshCookie(job[r].b))
  BY <1>1, <1>2, OutInv
<1>3. ASSUME ValidateRefreshSession(job[r].tok), Goto(r, "rotate"), UNCHANGED <<jar, locks>>,
             job' = [job EXCEPT ![r].u = sessions[job[r].tok].user]
      PROVE  AuthInv'
  <2> DEFINE u == sessions[job[r].tok].user
             j == [job[r] EXCEPT !.u = u]
  <2>1. u \in Ids
    BY <1>0, <1>3 DEF ValidateRefreshSession, AuthInv, StoreInv
  <2>2. job' = [job EXCEPT ![r] = j]
    BY <1>3
  <2> HIDE DEF u
  <2>3. j \in JobType /\ j.op = job[r].op /\ j.b = job[r].b /\ j.u \in Ids
    BY <2>1, PhaseFacts DEF JobType
  <2> HIDE DEF j
  <2> QED
    BY <1>0, <1>1, <1>3, <2>2, <2>3, SetInv DEF locks, Labels, WithUser, AfterUser, SetupHeld, RefreshHeld
<1> QED
  BY <1>2, <1>3 DEF Validate

(* A revoked session is not live, and keeps its user. *)
LEMMA SessionRevoked ==
  ASSUME StoreInv, NEW t, sessions' = sessions \/ RevokeRefreshSession(t)
  PROVE  /\ sessions' \in [Tokens -> SessionType]
         /\ \A s \in Tokens : sessions'[s].st = "live" => sessions'[s].user \in Ids
<1>1. CASE sessions' = sessions
  BY <1>1 DEF StoreInv
<1>2. CASE t \in Tokens /\ sessions' = [sessions EXCEPT ![t].st = "revoked"]
  <2>1. /\ [sessions[t] EXCEPT !.st = "revoked"] \in SessionType
        /\ [sessions[t] EXCEPT !.st = "revoked"].st = "revoked"
    BY <1>2 DEF StoreInv, SessionType
  <2> QED
    BY <1>2, <2>1 DEF StoreInv
<1>3. CASE t \notin Tokens /\ sessions' = [sessions EXCEPT ![t].st = "revoked"]
  BY <1>3 DEF StoreInv
<1> QED
  BY <1>1, <1>2, <1>3 DEF RevokeRefreshSession

(* The old session is revoked. *)
LEMMA RotateInv ==
  ASSUME AuthInv, ConstantsOK, NEW r \in Requests, Rotate(r)
  PROVE  AuthInv'
<1>0. pc[r] = "rotate" /\ job[r].u \in Ids
  BY PhaseFacts DEF Rotate, WithUser
<1>1. StoreInv' /\ (Admins # {} => Admins' # {})
  BY SessionRevoked DEF Rotate, bounds, AuthInv, StoreInv, Configured, Admins
<1>2. CASE Return(r)
  BY <1>1, <1>2, OutInv
<1>3. CASE Goto(r, "subject") /\ UNCHANGED <<job, locks>>
  BY <1>0, <1>1, <1>3, OnwardInv DEF locks, Labels, WithUser, AfterUser, SetupHeld, RefreshHeld
<1> QED
  BY <1>2, <1>3 DEF Rotate

(* The session and the access token are given up. *)
LEMMA LogoutInv ==
  ASSUME AuthInv, ConstantsOK, NEW r \in Requests, Logout(r)
  PROVE  AuthInv'
<1>0. job[r].b \in Browsers
  BY PhaseFacts DEF Logout
<1>1. /\ jar' \in [Browsers -> JarType]
      /\ \A b \in Browsers : jar'[b].claims.user # NoId => jar[b].claims.user # NoId
  <2> DEFINE j == [[jar[job[r].b] EXCEPT !.root = None] EXCEPT !.claims = NoClaims]
  <2>1. jar' = jar \/ jar' = [jar EXCEPT ![job[r].b] = j]
    BY <1>0 DEF Logout, AuthInv, StoreInv
  <2>2. NoClaims \in ClaimsType /\ NoClaims.user = NoId
    BY DEF NoClaims, ClaimsType, Roles
  <2>3. jar[job[r].b] \in JarType
    BY <1>0 DEF AuthInv, StoreInv
  <2>4. j \in JarType /\ j.claims = NoClaims
    BY <2>2, <2>3 DEF JarType
  <2> HIDE DEF j
  <2>5. jar \in [Browsers -> JarType]
    BY DEF AuthInv, StoreInv
  <2>6. jar' \in [Browsers -> JarType]
    BY <1>0, <2>1, <2>4, <2>5
  <2>7. \A b \in Browsers : jar'[b] = jar[b] \/ jar'[b] = j
    BY <1>0, <2>1, <2>5
  <2> QED
    BY <2>2, <2>4, <2>6, <2>7
<1>2. StoreInv' /\ (Admins # {} => Admins' # {})
  BY <1>1, SessionRevoked DEF Logout, bounds, AuthInv, StoreInv, Configured, Admins
<1> QED
  BY <1>2, OutInv DEF Logout

(* The request learns whether this is a recovery. *)
LEMMA InspectInv ==
  ASSUME AuthInv, ConstantsOK, NEW r \in Requests, Inspect(r)
  PROVE  AuthInv'
<1>0. pc[r] = "inspect" /\ job[r].u \in Ids
  BY PhaseFacts DEF Inspect, WithUser
<1>1. StoreInv' /\ (Admins # {} => Admins' # {})
  BY StoreFrame DEF AuthInv, Inspect, bounds
<1>2. CASE Return(r)
  BY <1>1, <1>2, OutInv
<1>3. ASSUME Goto(r, "admin"), UNCHANGED locks,
             job' = [job EXCEPT ![r].header = \E u \in Ids : InFile(u)]
      PROVE  AuthInv'
  <2> DEFINE h == \E u \in Ids : InFile(u)
             j == [job[r] EXCEPT !.header = h]
  <2>1. h \in BOOLEAN
    BY Zenon
  <2>2. job' = [job EXCEPT ![r] = j]
    BY <1>3
  <2> HIDE DEF h
  <2>3. j \in JobType /\ j.op = job[r].op /\ j.b = job[r].b /\ j.u = job[r].u
    BY <2>1, PhaseFacts DEF JobType
  <2> HIDE DEF j
  <2> QED
    BY <1>0, <1>1, <1>3, <2>2, <2>3, SetInv DEF Labels, WithUser, AfterUser, SetupHeld, RefreshHeld
<1> QED
  BY <1>2, <1>3 DEF Inspect, RespondAlreadyConfigured

(* The setup token is used up. *)
LEMMA ConsumeInv ==
  ASSUME AuthInv, ConstantsOK, NEW r \in Requests, Consume(r)
  PROVE  AuthInv'
<1>1. StoreInv' /\ (Admins # {} => Admins' # {})
  BY StoreFrame DEF AuthInv, Consume, bounds
<1> QED
  BY <1>1, OutInv DEF Consume

-----------------------------------------------------------------------------
(* Steps that write the user file or the enrolments. *)

(* What a write of the user file must keep. *)
LEMMA UsersInv ==
  ASSUME StoreInv, users' \in [Ids -> User], Admins' # {} \/ users' = users,
         UNCHANGED <<sessions, mfa, jar, chals, minted, calls>>
  PROVE  StoreInv' /\ (Admins # {} => Admins' # {})
<1>1. CASE Admins' # {}
  BY <1>1 DEF StoreInv
<1>2. CASE users' = users
  BY <1>2, StoreFrame
<1> QED
  BY <1>1, <1>2

(* A row that is written whole. *)
LEMMA RowWritten ==
  ASSUME users \in [Ids -> User], NEW u \in Ids, NEW row \in User, users' = [users EXCEPT ![u] = row]
  PROVE  users' \in [Ids -> User] /\ users'[u] = row /\ \A v \in Ids \ {u} : users'[v] = users[v]
OBVIOUS

(* A row of the file implies an administrator. *)
LEMMA SomebodyIsAdmin ==
  ASSUME StoreInv, NEW u \in Ids, InFile(u)
  PROVE  Admins # {}
BY DEF StoreInv, Configured, InFile, Roles

(* An update of the password keeps the role. *)
LEMMA PasswordWritten ==
  ASSUME StoreInv, NEW u \in Ids, NEW p \in Passwords, InFile(u),
         users' = [users EXCEPT ![u].pw = p, ![u].low = FALSE]
  PROVE  users' \in [Ids -> User] /\ Admins' # {}
<1> DEFINE row == [[users[u] EXCEPT !.pw = p] EXCEPT !.low = FALSE]
<1>1. users \in [Ids -> User] /\ users[u] \in User
  BY DEF StoreInv
<1>2. users' = [users EXCEPT ![u] = row]
  BY <1>1
<1>3. row \in User /\ row.role = users[u].role
  BY <1>1 DEF User
<1> HIDE DEF row
<1>4. users' \in [Ids -> User] /\ users'[u] = row /\ \A v \in Ids \ {u} : users'[v] = users[v]
  BY <1>1, <1>2, <1>3, RowWritten
<1>5. PICK a \in Ids : users[a].role = "admin"
  BY SomebodyIsAdmin DEF Admins
<1>6. users'[a].role = "admin"
  BY <1>3, <1>4, <1>5
<1> QED
  BY <1>4, <1>6 DEF Admins

(* A change of the role, or a deletion, that leaves an administrator. *)
LEMMA RoleWritten ==
  ASSUME StoreInv, NEW u \in Ids, NEW role \in Roles \cup {"deleted"}, InFile(u),
         role # "admin" => ~IsLastAdmin(u), users' = [users EXCEPT ![u].role = role]
  PROVE  users' \in [Ids -> User] /\ Admins' # {}
<1> DEFINE row == [users[u] EXCEPT !.role = role]
<1>1. users \in [Ids -> User] /\ users[u] \in User
  BY DEF StoreInv
<1>2. users' = [users EXCEPT ![u] = row]
  OBVIOUS
<1>3. row \in User /\ row.role = role
  BY <1>1 DEF User
<1> HIDE DEF row
<1>4. users' \in [Ids -> User] /\ users'[u] = row /\ \A v \in Ids \ {u} : users'[v] = users[v]
  BY <1>1, <1>2, <1>3, RowWritten
<1>5. CASE role = "admin"
  BY <1>3, <1>4, <1>5 DEF Admins
<1>6. CASE role # "admin"
  <2>1. PICK a \in Admins : a # u
    BY <1>6, SomebodyIsAdmin DEF IsLastAdmin
  <2>2. a \in Ids /\ users'[a].role = "admin"
    BY <1>4, <2>1 DEF Admins
  <2> QED
    BY <1>4, <2>2 DEF Admins
<1> QED
  BY <1>4, <1>5, <1>6

(* A new row while there is an administrator, or of an administrator. *)
LEMMA RowCreated ==
  ASSUME StoreInv, NEW u \in Ids, NEW role \in Roles, NEW p \in Passwords,
         users[u].role = "absent", role = "admin" \/ Admins # {},
         users' = [users EXCEPT ![u] = [role |-> role, pw |-> p, low |-> FALSE]]
  PROVE  users' \in [Ids -> User] /\ Admins' # {}
<1> DEFINE row == [role |-> role, pw |-> p, low |-> FALSE]
<1>1. users \in [Ids -> User]
  BY DEF StoreInv
<1>2. row \in User /\ row.role = role
  BY DEF User
<1>3. users' = [users EXCEPT ![u] = row]
  OBVIOUS
<1> HIDE DEF row
<1>4. users' \in [Ids -> User] /\ users'[u] = row /\ \A v \in Ids \ {u} : users'[v] = users[v]
  BY <1>1, <1>2, <1>3, RowWritten
<1>5. CASE role = "admin"
  BY <1>2, <1>4, <1>5 DEF Admins
<1>6. CASE Admins # {}
  BY <1>4, <1>6 DEF Admins
<1> QED
  BY <1>4, <1>5, <1>6

(* A new hash keeps the role. *)
LEMMA RehashInv ==
  ASSUME AuthInv, ConstantsOK, NEW r \in Requests, Rehash(r)
  PROVE  AuthInv'
<1>0. pc[r] = "rehash" /\ job[r].u \in Ids /\ job[r].pw \in Passwords /\ Admins # {}
  BY PhaseFacts DEF Rehash, WithUser, AfterUser, JobType
<1>1. users' \in [Ids -> User] /\ (Admins' # {} \/ users' = users)
  BY <1>0, PasswordWritten DEF Rehash, AuthInv, StoreInv
<1>2. StoreInv' /\ (Admins # {} => Admins' # {})
  BY <1>1, UsersInv DEF AuthInv, Rehash, bounds
<1> QED
  BY <1>0, <1>2, OnwardInv DEF Rehash, locks, Labels, WithUser, AfterUser, SetupHeld, RefreshHeld

(* A new password keeps the role. *)
LEMMA ChangePasswordInv ==
  ASSUME AuthInv, ConstantsOK, NEW r \in Requests, ChangePassword(r)
  PROVE  AuthInv'
<1>0. pc[r] = "password" /\ job[r].u \in Ids /\ job[r].pw \in Passwords /\ job[r].role \in Roles
  BY PhaseFacts DEF ChangePassword, WithUser, JobType
<1>1. users' \in [Ids -> User] /\ (Admins' # {} \/ users' = users)
  BY <1>0, PasswordWritten DEF ChangePassword, AuthInv, StoreInv
<1>2. StoreInv' /\ (Admins # {} => Admins' # {})
  BY <1>1, UsersInv DEF AuthInv, ChangePassword, bounds
<1> QED
  BY <1>2, OutInv DEF ChangePassword

(* The last administrator is not deleted. *)
LEMMA DeleteUserInv ==
  ASSUME AuthInv, ConstantsOK, NEW r \in Requests, DeleteUser(r)
  PROVE  AuthInv'
<1>0. pc[r] = "delete" /\ job[r].u \in Ids /\ job[r].pw \in Passwords /\ job[r].role \in Roles
  BY PhaseFacts DEF DeleteUser, WithUser, JobType
<1>1. users' \in [Ids -> User] /\ (Admins' # {} \/ users' = users)
  BY <1>0, RoleWritten DEF DeleteUser, AuthInv, StoreInv
<1>2. StoreInv' /\ (Admins # {} => Admins' # {})
  BY <1>1, UsersInv DEF AuthInv, DeleteUser, bounds
<1> QED
  BY <1>2, OutInv DEF DeleteUser

(* The last administrator is not demoted. *)
LEMMA UpdateUserRoleInv ==
  ASSUME AuthInv, ConstantsOK, NEW r \in Requests, UpdateUserRole(r)
  PROVE  AuthInv'
<1>0. pc[r] = "role" /\ job[r].u \in Ids /\ job[r].pw \in Passwords /\ job[r].role \in Roles
  BY PhaseFacts DEF UpdateUserRole, WithUser, JobType
<1>1. users' \in [Ids -> User] /\ (Admins' # {} \/ users' = users)
  BY <1>0, RoleWritten DEF UpdateUserRole, AuthInv, StoreInv, Roles
<1>2. StoreInv' /\ (Admins # {} => Admins' # {})
  BY <1>1, UsersInv DEF AuthInv, UpdateUserRole, bounds
<1> QED
  BY <1>2, OutInv DEF UpdateUserRole

(* Only the access token of an administrator lets create a user. *)
LEMMA CreateUserInv ==
  ASSUME AuthInv, ConstantsOK, NEW r \in Requests, CreateUser(r)
  PROVE  AuthInv'
<1>0. /\ pc[r] = "create" /\ job[r].u \in Ids /\ job[r].pw \in Passwords /\ job[r].role \in Roles
      /\ Admins # {}
  BY PhaseFacts DEF CreateUser, WithUser, AfterUser, JobType
<1>1. users' \in [Ids -> User] /\ (Admins' # {} \/ users' = users)
  BY <1>0, RowCreated DEF CreateUser, MayCreate, AuthInv, StoreInv
<1>2. StoreInv' /\ (Admins # {} => Admins' # {})
  BY <1>1, UsersInv DEF AuthInv, CreateUser, bounds
<1> QED
  BY <1>2, OutInv DEF CreateUser

(* The setup adds an administrator. *)
LEMMA CreateAdminInv ==
  ASSUME AuthInv, ConstantsOK, NEW r \in Requests, CreateAdmin(r)
  PROVE  AuthInv'
<1>0. pc[r] = "admin" /\ job[r].u \in Ids /\ job[r].pw \in Passwords /\ "admin" \in Roles
  BY PhaseFacts DEF CreateAdmin, WithUser, JobType, Roles
<1>1. CASE users' = users /\ Return(r)
  BY <1>1, OutInv, UsersInv DEF CreateAdmin, AuthInv, StoreInv, bounds
<1>2. ASSUME users[job[r].u].role = "absent", Goto(r, "issue"), UNCHANGED <<job, locks>>,
             users' = [users EXCEPT ![job[r].u] = [role |-> "admin", pw |-> job[r].pw, low |-> FALSE]]
      PROVE  AuthInv'
  <2>1. users' \in [Ids -> User] /\ Admins' # {}
    BY <1>0, <1>2, RowCreated DEF AuthInv
  <2>2. StoreInv'
    BY <2>1, UsersInv DEF CreateAdmin, AuthInv, bounds
  <2>3. ReqOK("issue", job[r])'
    BY <1>0, <1>2, <2>1 DEF ReqOK
  <2>4. job' \in [Requests -> JobType]
    BY <1>2 DEF AuthInv, ReqInv
  <2> QED
    BY <1>0, <1>2, <2>1, <2>2, <2>3, <2>4, GotoInv
       DEF AuthInv, locks, Labels, WithUser, SetupHeld, RefreshHeld
<1> QED
  BY <1>1, <1>2 DEF CreateAdmin, MayCreate, MayBootstrap, RespondAlreadyConfigured

(* A challenge leaves the access token. *)
LEMMA FactorInv ==
  ASSUME AuthInv, ConstantsOK, NEW r \in Requests, Factor(r)
  PROVE  AuthInv'
<1>0. pc[r] = "factor" /\ job[r].u \in Ids /\ job[r].b \in Browsers /\ job[r].no \in Nat /\ Admins # {}
  BY PhaseFacts DEF Factor, WithUser, AfterUser, JobType, ConstantsOK
<1>1. /\ jar' \in [Browsers -> JarType] /\ \A b \in Browsers : jar'[b].claims = jar[b].claims
      /\ chals' \in [Chals -> Ids \cup {NoId}]
  <2>1. jar[job[r].b] \in JarType
    BY <1>0 DEF AuthInv, StoreInv
  <2>2. /\ [jar[job[r].b] EXCEPT !.chal = job[r].no] \in JarType
        /\ [jar[job[r].b] EXCEPT !.chal = job[r].no].claims = jar[job[r].b].claims
    BY <1>0, <2>1 DEF JarType
  <2>3. jar' = jar \/ jar' = [jar EXCEPT ![job[r].b].chal = job[r].no]
    BY DEF Factor
  <2>4. chals' = chals \/ chals' = [chals EXCEPT ![job[r].no] = job[r].u]
    BY DEF Factor
  <2>5. jar \in [Browsers -> JarType] /\ chals \in [Chals -> Ids \cup {NoId}]
    BY DEF AuthInv, StoreInv
  <2>6. chals' \in [Chals -> Ids \cup {NoId}]
    BY <1>0, <2>4, <2>5
  <2>7. jar' \in [Browsers -> JarType]
    BY <1>0, <2>2, <2>3, <2>5
  <2>8. \A b \in Browsers : jar'[b].claims = jar[b].claims
    BY <1>0, <2>2, <2>3, <2>5
  <2> QED
    BY <2>6, <2>7, <2>8
<1>2. StoreInv' /\ (Admins # {} => Admins' # {})
  BY <1>1 DEF Factor, stores, bounds, AuthInv, StoreInv, Configured, Admins
<1>3. CASE Return(r)
  BY <1>2, <1>3, OutInv
<1>4. CASE Goto(r, "issue") /\ UNCHANGED <<job, locks>>
  BY <1>0, <1>2, <1>4, OnwardInv DEF locks, Labels, WithUser, AfterUser, SetupHeld, RefreshHeld
<1> QED
  BY <1>3, <1>4 DEF Factor

(* Whoever gets a session was in the file. *)
LEMMA IssueInv ==
  ASSUME AuthInv, ConstantsOK, NEW r \in Requests, Issue(r)
  PROVE  AuthInv'
<1>0. /\ pc[r] = "issue" /\ job[r].u \in Ids /\ job[r].b \in Browsers /\ job[r].role \in Roles
      /\ Admins # {} /\ minted \in 0..MaxTokens /\ minted + 1 \in Tokens /\ minted + 1 \in 0..MaxTokens
  BY PhaseFacts DEF Issue, WithUser, AfterUser, JobType, AuthInv, StoreInv, Tokens, ConstantsOK
<1>1. minted' \in 0..MaxTokens
  BY <1>0 DEF Issue
<1>2. /\ sessions' \in [Tokens -> SessionType]
      /\ \A t \in Tokens : sessions'[t].st = "live" => sessions'[t].user \in Ids
  <2>1. sessions' = sessions \/ sessions' = [sessions EXCEPT ![minted + 1] = [user |-> job[r].u, st |-> "live"]]
    BY DEF Issue, CreateRefreshSession
  <2>2. [user |-> job[r].u, st |-> "live"] \in SessionType
    BY <1>0 DEF SessionType
  <2> QED
    BY <1>0, <2>1, <2>2 DEF AuthInv, StoreInv
<1>3. jar' \in [Browsers -> JarType]
  <2> DEFINE claims == GenerateToken(job[r].u, job[r].role)
             t == minted + 1
             j == IF job[r].op = "verify" THEN SetRefreshCookieFor(jar[job[r].b], t, claims)
                                          ELSE SetRefreshCookie(jar[job[r].b], t, claims)
  <2>1. jar' = jar \/ jar' = [jar EXCEPT ![job[r].b] = j]
    BY DEF Issue
  <2>2. claims \in ClaimsType /\ t \in Tokens /\ jar[job[r].b] \in JarType
    BY <1>0 DEF GenerateToken, ClaimsType, AuthInv, StoreInv
  <2> HIDE DEF claims, t
  <2>3. j \in JarType
    BY <2>2 DEF SetRefreshCookieFor, SetRefreshCookie, JarType, None
  <2> HIDE DEF j
  <2> QED
    BY <2>1, <2>3 DEF AuthInv, StoreInv
<1>4. StoreInv' /\ Admins' = Admins
  <2>1. Admins' = Admins /\ users' = users
    BY DEF Issue, Admins
  <2> QED
    BY <1>0, <1>1, <1>2, <1>3, <2>1 DEF Issue, bounds, AuthInv, StoreInv, Configured
<1>5. CASE Return(r)
  BY <1>4, <1>5, OutInv
<1>6. CASE job[r].op = "setup" /\ Goto(r, "consume") /\ UNCHANGED <<job, locks>>
  BY <1>0, <1>4, <1>6, OnwardInv DEF locks, Labels, WithUser, AfterUser, SetupHeld, RefreshHeld
<1> QED
  BY <1>5, <1>6 DEF Issue

(* Enrolments concern no user file. *)
LEMMA BeginEnrollmentInv ==
  ASSUME AuthInv, ConstantsOK, NEW r \in Requests, BeginEnrollment(r)
  PROVE  AuthInv'
<1>0. pc[r] = "enroll" /\ job[r].u \in Ids /\ job[r].no \in 0..MaxCalls
  BY PhaseFacts DEF BeginEnrollment, WithUser, JobType
<1>1. mfa' \in [Ids -> RowType]
  <2> DEFINE row == [st |-> "pending", gen |-> job[r].no + 1, used |-> FALSE]
  <2>1. row \in RowType
    BY <1>0 DEF RowType, Gens, ConstantsOK
  <2>2. mfa' = mfa \/ mfa' = [mfa EXCEPT ![job[r].u] = row]
    BY DEF BeginEnrollment
  <2> HIDE DEF row
  <2> QED
    BY <2>1, <2>2 DEF AuthInv, StoreInv
<1>2. StoreInv' /\ (Admins # {} => Admins' # {})
  BY <1>1 DEF BeginEnrollment, bounds, AuthInv, StoreInv, Configured, Admins
<1> QED
  BY <1>2, OutInv DEF BeginEnrollment

(* A confirmed enrolment. *)
LEMMA ConfirmEnrollmentInv ==
  ASSUME AuthInv, ConstantsOK, NEW r \in Requests, ConfirmEnrollment(r)
  PROVE  AuthInv'
<1>0. pc[r] = "confirm" /\ job[r].u \in Ids /\ job[r].no \in 0..MaxCalls
  BY PhaseFacts DEF ConfirmEnrollment, WithUser, JobType
<1>1. mfa' \in [Ids -> RowType]
  <2>1. mfa' = mfa \/ mfa' = [mfa EXCEPT ![job[r].u].st = "active"]
    BY DEF ConfirmEnrollment
  <2>2. ASSUME NEW row \in RowType PROVE [row EXCEPT !.st = "active"] \in RowType
    BY DEF RowType
  <2>3. mfa[job[r].u] \in RowType
    BY <1>0 DEF AuthInv, StoreInv
  <2> QED
    BY <2>1, <2>2, <2>3 DEF AuthInv, StoreInv
<1>2. StoreInv' /\ (Admins # {} => Admins' # {})
  BY <1>1 DEF ConfirmEnrollment, bounds, AuthInv, StoreInv, Configured, Admins
<1> QED
  BY <1>2, OutInv DEF ConfirmEnrollment

(* A removed enrolment. *)
LEMMA UnenrollInv ==
  ASSUME AuthInv, ConstantsOK, NEW r \in Requests, Unenroll(r)
  PROVE  AuthInv'
<1>0. pc[r] = "unenroll" /\ job[r].u \in Ids /\ job[r].no \in 0..MaxCalls
  BY PhaseFacts DEF Unenroll, WithUser, JobType
<1>1. mfa' \in [Ids -> RowType]
  <2>1. NoRow \in RowType
    BY DEF NoRow, RowType, Gens, ConstantsOK
  <2> QED
    BY <2>1 DEF Unenroll, AuthInv, StoreInv
<1>2. StoreInv' /\ (Admins # {} => Admins' # {})
  BY <1>1 DEF Unenroll, bounds, AuthInv, StoreInv, Configured, Admins
<1> QED
  BY <1>2, OutInv DEF Unenroll

-----------------------------------------------------------------------------
(* The environment and the initial states. *)

(* Time takes tokens and sessions away, never users. *)
LEMMA ElapseInv ==
  ASSUME AuthInv, ConstantsOK, NEW d \in {"minutes", "window", "week"}, Elapse(d)
  PROVE  AuthInv'
<1>1. Admins' = Admins /\ users' = users
  BY DEF Elapse, Admins
<1>2. ReqInv'
  <2>1. \A q \in Requests : ReqOK(pc[q], job[q])'
    BY <1>1 DEF Elapse, AuthInv, ReqInv, ReqOK
  <2> QED
    BY <2>1 DEF Elapse, locks, AuthInv, ReqInv, LocksComeBack
<1>3. /\ jar' \in [Browsers -> JarType]
      /\ \A b \in Browsers : jar'[b].claims.user # NoId => jar[b].claims.user # NoId
  <2>1. NoClaims \in ClaimsType /\ NoClaims.user = NoId
    BY DEF NoClaims, ClaimsType, Roles
  <2>2. jar \in [Browsers -> JarType]
    BY DEF AuthInv, StoreInv
  <2>3. \A b \in Browsers : /\ [jar[b] EXCEPT !.claims = NoClaims] \in JarType
                            /\ [jar[b] EXCEPT !.claims = NoClaims].claims = NoClaims
    BY <2>1, <2>2 DEF JarType
  <2>4. jar' = jar \/ jar' = [b \in Browsers |-> [jar[b] EXCEPT !.claims = NoClaims]]
    BY DEF Elapse
  <2>5. CASE jar' = jar
    BY <2>2, <2>5
  <2>6. CASE jar' = [b \in Browsers |-> [jar[b] EXCEPT !.claims = NoClaims]]
    <3>1. \A b \in Browsers : jar'[b] \in JarType /\ jar'[b].claims = NoClaims
      BY <2>3, <2>6
    <3>2. jar' \in [Browsers -> JarType]
      BY <2>3, <2>6
    <3> QED
      BY <2>1, <3>1, <3>2
  <2> QED
    BY <2>4, <2>5, <2>6
<1>4. /\ sessions' \in [Tokens -> SessionType]
      /\ \A t \in Tokens : sessions'[t].st = "live" => sessions'[t].user \in Ids
  <2>1. sessions \in [Tokens -> SessionType]
    BY DEF AuthInv, StoreInv
  <2>2. \A t \in Tokens : /\ [sessions[t] EXCEPT !.st = "expired"] \in SessionType
                          /\ [sessions[t] EXCEPT !.st = "expired"].st = "expired"
    BY <2>1 DEF SessionType
  <2>3. sessions' = sessions \/ sessions' = [t \in Tokens |-> IF sessions[t].st = "live"
           THEN [sessions[t] EXCEPT !.st = "expired"] ELSE sessions[t]]
    BY DEF Elapse
  <2>4. \A t \in Tokens : sessions[t].st = "live" => sessions[t].user \in Ids
    BY DEF AuthInv, StoreInv
  <2>5. CASE sessions' = sessions
    BY <2>1, <2>4, <2>5
  <2>6. CASE sessions' # sessions
    <3>1. \A t \in Tokens : sessions'[t] \in SessionType /\ sessions'[t].st # "live"
      <4> SUFFICES ASSUME NEW t \in Tokens PROVE sessions'[t] \in SessionType /\ sessions'[t].st # "live"
        OBVIOUS
      <4>1. sessions'[t] = IF sessions[t].st = "live" THEN [sessions[t] EXCEPT !.st = "expired"]
                                                      ELSE sessions[t]
        BY <2>3, <2>6
      <4>2. CASE sessions[t].st = "live"
        BY <2>2, <4>1, <4>2
      <4>3. CASE sessions[t].st # "live"
        BY <2>1, <4>1, <4>3
      <4> QED
        BY <4>2, <4>3
    <3>2. sessions' \in [Tokens -> SessionType]
      BY <2>1, <2>2, <2>3, <2>6
    <3> QED
      BY <3>1, <3>2
  <2> QED
    BY <2>5, <2>6
<1>5. StoreInv'
  BY <1>1, <1>3, <1>4 DEF Elapse, AuthInv, StoreInv, Configured
<1> QED
  BY <1>2, <1>5 DEF AuthInv

(* A new NRCC has no requests and no locks. *)
LEMMA RestartInv ==
  ASSUME AuthInv, ConstantsOK, NEW persisted \in BOOLEAN, Restart(persisted)
  PROVE  AuthInv'
<1>1. StoreInv'
  BY DEF Restart, AuthInv, StoreInv, Configured, Admins
<1>2. /\ pc' \in [Requests -> Labels] /\ job' \in [Requests -> JobType]
      /\ \A r \in Requests : pc'[r] = "idle"
  BY NoJobType DEF Restart, Labels
<1>3. \A r \in Requests : ReqOK(pc[r], job[r])'
  BY <1>2 DEF ReqOK, WithUser, AfterUser
<1> QED
  BY <1>1, <1>2, <1>3 DEF Restart, AuthInv, ReqInv, LocksComeBack

(* The first states. *)
LEMMA InitInv == ASSUME ConstantsOK, Init PROVE AuthInv
<1>1. /\ users \in [Ids -> User] /\ (Configured => Admins # {})
      /\ \A u \in Ids : InFile(u) => users[u].role \in Roles /\ Admins # {}
  BY DEF Init, ConstantsOK, Configured, Admins, InFile, Roles
<1>2. mfa \in [Ids -> RowType]
  <2>1. NoRow \in RowType /\ [st |-> "active", gen |-> 1, used |-> FALSE] \in RowType
    BY DEF NoRow, RowType, Gens, ConstantsOK
  <2> QED
    BY <2>1 DEF Init
<1>3. /\ sessions \in [Tokens -> SessionType]
      /\ \A t \in Tokens : sessions[t].st = "live" => sessions[t].user \in Ids
  <2>1. NoSession \in SessionType /\ NoSession.st # "live"
    BY DEF NoSession, SessionType
  <2>2. \A u \in Ids : [user |-> u, st |-> "live"] \in SessionType
    BY DEF SessionType
  <2>3. sessions = [t \in Tokens |-> IF t \in Browsers /\ FirstLogin[t] \in Ids /\ InFile(FirstLogin[t])
                       THEN [user |-> FirstLogin[t], st |-> "live"] ELSE NoSession]
    BY DEF Init
  <2> QED
    BY <2>1, <2>2, <2>3
<1>4. /\ jar \in [Browsers -> JarType]
      /\ \A b \in Browsers : jar[b].claims.user # NoId => Admins # {}
  <2> DEFINE In(u) == u \in Ids /\ InFile(u)
             Enr(u) == In(u) /\ IsEnrolled(u)
             root(b) == IF In(FirstLogin[b]) /\ ~Enr(FirstLogin[b]) THEN b ELSE None
             api(b) == IF Enr(FirstLogin[b]) THEN b ELSE None
             claims(b) == IF In(FirstLogin[b])
                            THEN [user |-> FirstLogin[b], role |-> users[FirstLogin[b]].role]
                            ELSE EmptyJar.claims
             chal(b) == IF Enr(FirstChal[b]) THEN MaxCalls + b ELSE None
  <2>1. jar = [b \in Browsers |-> [EmptyJar EXCEPT !.root = root(b), !.api = api(b),
                                                   !.claims = claims(b), !.chal = chal(b)]]
    BY DEF Init, EmptyJar
  <2>2. \A b \in Browsers : /\ root(b) \in Tokens \cup {None} /\ api(b) \in Tokens \cup {None}
                            /\ chal(b) \in Nat
    BY DEF Browsers, Tokens, ConstantsOK, None
  <2>3. EmptyJar \in JarType /\ EmptyJar.claims \in ClaimsType /\ EmptyJar.claims.user = NoId
    BY DEF EmptyJar, JarType, NoClaims, ClaimsType, Roles, None
  <2>4. \A b \in Browsers : claims(b) \in ClaimsType /\ (claims(b).user # NoId => Admins # {})
    BY <1>1, <2>3 DEF ClaimsType
  <2> HIDE DEF root, api, claims, chal
  <2>5. ASSUME NEW b \in Browsers
        PROVE  LET j == [EmptyJar EXCEPT !.root = root(b), !.api = api(b),
                                         !.claims = claims(b), !.chal = chal(b)]
               IN  j \in JarType /\ j.claims = claims(b)
    BY <2>2, <2>3, <2>4 DEF JarType
  <2> QED
    BY <2>1, <2>4, <2>5
<1>5. chals \in [Chals -> Ids \cup {NoId}]
  BY DEF Init
<1>9. minted \in 0..MaxTokens /\ calls \in 0..MaxCalls
  <2>1. minted = NBrowsers /\ calls = 0
    BY DEF Init
  <2>2. NBrowsers \in Nat /\ MaxTokens \in Nat /\ NBrowsers <= MaxTokens /\ MaxCalls \in Nat
    BY DEF ConstantsOK
  <2> QED
    BY <2>1, <2>2
<1>6. StoreInv
  BY <1>1, <1>2, <1>3, <1>4, <1>5, <1>9 DEF StoreInv
<1>7. /\ pc \in [Requests -> Labels] /\ job \in [Requests -> JobType]
      /\ \A r \in Requests : pc[r] = "idle"
  BY NoJobType DEF Init, Labels
<1>8. \A r \in Requests : ReqOK(pc[r], job[r])
  BY <1>7 DEF ReqOK, WithUser, AfterUser
<1> QED
  BY <1>6, <1>7, <1>8 DEF Init, AuthInv, ReqInv, LocksComeBack

-----------------------------------------------------------------------------
(* Every step keeps the invariant. *)
LEMMA NextInv ==
  ASSUME AuthInv, ConstantsOK, [Next]_vars
  PROVE  AuthInv'
<1>1. CASE UNCHANGED vars
  <2>1. StoreInv' /\ UNCHANGED <<users, pc, job, setupMu, refreshMu>>
    BY <1>1, StoreFrame DEF vars, stores, locks, bounds, AuthInv
  <2>2. \A q \in Requests : ReqOK(pc[q], job[q])'
    BY <2>1 DEF AuthInv, ReqInv, ReqOK, Admins
  <2> QED
    BY <2>1, <2>2 DEF AuthInv, ReqInv, LocksComeBack
<1>2. ASSUME NEW r \in Requests, Step(r) PROVE AuthInv'
  BY <1>2, LoginCheckInv, LookupInv, RecordFailureInv, ResetFailuresInv, RehashInv, FactorInv,
     IssueInv, VerifyCheckInv, TakeChallengeInv, SubjectInv, VerifyCodeInv, RefreshInv, ValidateInv,
     RotateInv, LogoutInv, SetupCheckInv, SetupLockInv, InspectInv, CreateAdminInv, ConsumeInv,
     CreateUserInv, DeleteUserInv, UpdateUserRoleInv, ChangePasswordInv, BeginEnrollmentInv,
     ConfirmEnrollmentInv, DisableInv, UnenrollInv DEF Step
<1> QED
  BY <1>1, <1>2, CallInv, ElapseInv, RestartInv DEF Next

(* The invariant holds in every reachable state. *)
LEMMA Invariant == Spec => []AuthInv
<1>1. Init => AuthInv
  BY InitInv, ConstantsOK
<1>2. AuthInv /\ [Next]_vars => AuthInv'
  BY NextInv, ConstantsOK
<1> QED
  BY <1>1, <1>2, PTL DEF Spec

(* Whatever administrators do to each other at the same time, with access  *)
(* tokens that still say administrator, the file keeps one: DeleteUser and *)
(* UpdateUserRole count under the lock of the store, and no user can be    *)
(* created before the first administrator.                                 *)
THEOREM AnAdministratorRemains == Spec => []AnAdminRemains
<1>1. AuthInv => AnAdminRemains
  BY DEF AuthInv, StoreInv, AnAdminRemains, Configured, InFile, Roles
<1> QED
  BY <1>1, Invariant, PTL

(* The locks of setup and refresh are held only inside their sections, on  *)
(* the failing paths too, and a refresh lock by a request of its address.  *)
THEOREM LocksAreReturned == Spec => []LocksComeBack
<1>1. AuthInv => LocksComeBack
  BY DEF AuthInv, ReqInv
<1> QED
  BY <1>1, Invariant, PTL

-----------------------------------------------------------------------------
(* Phases and sections: every phase belongs to certain handlers, a request *)
(* has a number of its own, and who is in a section holds its lock.        *)

Active(r) == pc[r] # "idle"
OpOK(l, op) ==
  /\ l \in AllOps => op = l
  /\ l \in {"lookup", "rehash", "factor"} => op = "login"
  /\ l \in {"take", "code"} => op = "verify"
  /\ l \in {"reset", "record"} => op \in {"login", "verify"}
  /\ l = "subject" => op \in {"verify", "refresh"}
  /\ l \in {"validate", "rotate"} => op = "refresh"
  /\ l \in {"await", "inspect", "admin", "consume"} => op = "setup"
  /\ l = "issue" => op \in {"login", "verify", "refresh", "setup"}
  /\ l = "unenroll" => op = "disable"
FlowInv ==
  /\ \A r \in Requests : Active(r) => OpOK(pc[r], job[r].op) /\ job[r].no \in 1..calls
  /\ \A q, r \in Requests : Active(q) /\ Active(r) /\ job[q].no = job[r].no => q = r
  /\ \A r \in Requests : job[r].op = "setup" /\ pc[r] \in SetupHeld => setupMu = r
  /\ \A r \in Requests : job[r].op = "refresh" /\ pc[r] \in RefreshHeld => refreshMu[ExtractIP(r)] = r

(* Counters are numbers. *)
IssueType == [via: {"none", "password", "mfa", "refresh", "setup"}, from: Nat, code: Codes,
              alive: BOOLEAN, bypass: BOOLEAN]
StateInv ==
  /\ file \in BOOLEAN /\ boots \in Nat /\ resets \in Nat /\ crashes \in Nat
  /\ wrong \in [Names -> Nat] /\ \A n \in Names : attempts[<<"auth-user", n>>] \in Nat
  /\ issued \in [Tokens -> IssueType]

(* Ids that have been in the user file, and those that were deleted. *)
Seen(u) == users[u].role # "absent"
Gone(u) == users[u].role = "deleted"

-----------------------------------------------------------------------------
(* What a step does, without the cases of the code.  A request keeps what  *)
(* it came with; the other fields are set on the way.                      *)

UsersGrow == \A u \in Ids : (Seen(u) => Seen(u)') /\ (Gone(u) => Gone(u)')
SessionsKept ==
  \A t \in Tokens : /\ sessions'[t].user = sessions[t].user
                    /\ sessions'[t].st = "live" => sessions[t].st = "live"
JarKept ==
  \A b \in Browsers : /\ jar'[b].root \in {jar[b].root, None}
                      /\ jar'[b].api = jar[b].api /\ jar'[b].chal = jar[b].chal
LimitKept == \A n \in Names : attempts'[<<"auth-user", n>>] = attempts[<<"auth-user", n>>]
Frame == UNCHANGED <<file, minted, issued, boots, resets, crashes, calls>>
Still == Frame /\ UNCHANGED <<mfa, chals, wrong>> /\ UsersGrow /\ SessionsKept /\ JarKept /\ LimitKept
Untouched == Frame /\ UNCHANGED <<users, sessions, chals, jar>>

Kept(r) ==
  /\ \A q \in Requests \ {r} : job'[q] = job[q]
  /\ job'[r].op = job[r].op /\ job'[r].no = job[r].no /\ job'[r].b = job[r].b
  /\ job'[r].tok = job[r].tok /\ job'[r].chal = job[r].chal
  /\ job'[r].code = job[r].code /\ job'[r].alive = job[r].alive
Whole(r) ==
  /\ job'[r].u = job[r].u /\ job'[r].name = job[r].name
  /\ job'[r].gen = job[r].gen /\ job'[r].header = job[r].header
Moves(r, k, l) == pc[r] = k /\ Goto(r, l) /\ Kept(r)

Arrives(r, b, op) ==
  /\ pc[r] = "idle" /\ Goto(r, op) /\ calls < MaxCalls /\ calls' = calls + 1
  /\ \A q \in Requests \ {r} : job'[q] = job[q]
  /\ job'[r].op = op /\ job'[r].b = b /\ job'[r].no = calls + 1 /\ job'[r].gen = 0
  /\ job'[r].tok \in {None, Sent(b)}
  /\ job'[r].chal = IF op = "verify" THEN jar[b].chal ELSE None
  /\ op = "verify" => jar[b].chal # None
  /\ ~job'[r].alive =>
       \/ op = "verify" /\ (chals[jar[b].chal] \in Ids => ~InFile(chals[jar[b].chal]))
       \/ op = "refresh" /\ job'[r].tok = Sent(b) /\ (Sent(b) # None => ~InFile(sessions[Sent(b)].user))
  /\ UNCHANGED <<stores, chals, locks, jar, crashes, minted, ghosts>>

Ends(r) == Active(r) /\ pc[r] # "record" /\ Return(r) /\ Still
Enrols(r, u, row) ==
  /\ Active(r) /\ pc[r] # "record" /\ Return(r) /\ Untouched /\ UNCHANGED <<attempts, wrong>>
  /\ mfa' = [mfa EXCEPT ![u] = row]
  /\ \/ row = NoRow
     \/ row.gen = job[r].no + 1
     \/ /\ mfa[u].st = "pending" /\ row.st = "active"
        /\ row.gen = mfa[u].gen /\ row.used = mfa[u].used
Passes(r, k, l) ==
  /\ <<k, l>> \in {<<"rehash", "factor">>, <<"setup", "await">>, <<"disable", "unenroll">>}
  /\ Moves(r, k, l) /\ Whole(r) /\ UNCHANGED locks /\ Still
LocksSetup(r) ==
  /\ Moves(r, "await", "inspect") /\ Whole(r) /\ Still
  /\ setupMu = Free /\ setupMu' = r /\ UNCHANGED refreshMu
LocksRefresh(r) ==
  /\ Moves(r, "refresh", "validate") /\ Whole(r) /\ Still
  /\ refreshMu[ExtractIP(r)] = Free /\ refreshMu' = [refreshMu EXCEPT ![ExtractIP(r)] = r]
  /\ UNCHANGED setupMu
Admits(r) ==
  /\ Moves(r, "login", "lookup") /\ Whole(r) /\ UNCHANGED locks /\ Still
  /\ job[r].name \in Names => ~Check(<<"auth-user", job[r].name>>)
Identifies(r) ==
  /\ Moves(r, "verify", "take") /\ job'[r].gen = job[r].gen /\ UNCHANGED locks /\ Still
  /\ job'[r].name \in Names => ~Check(<<"auth-user", job'[r].name>>)
Finds(r) ==
  /\ Moves(r, "lookup", "reset") /\ UNCHANGED locks /\ Still
  /\ LET j == job'[r]
     IN j.u \in Ids /\ Seen(j.u) /\ (j.gen # 0 => mfa[j.u].gen = j.gen /\ mfa[j.u].st = "active")
Fails(r, k) ==
  /\ k \in {"lookup", "code"} /\ Moves(r, k, "record") /\ Whole(r) /\ UNCHANGED locks
  /\ Untouched /\ UNCHANGED <<mfa, attempts>>
  /\ wrong' = [wrong EXCEPT ![job[r].name] = @ + 1]
Counts(r) ==
  /\ pc[r] = "record" /\ Return(r) /\ Untouched /\ UNCHANGED <<mfa, wrong>>
  /\ \A n \in Names : attempts'[<<"auth-user", n>>] =
       attempts[<<"auth-user", n>>] + (IF job[r].name = n THEN 1 ELSE 0)
Clears(r, l) ==
  /\ l \in {"issue", "rehash", "factor"} /\ (l = "issue") = (job[r].op = "verify")
  /\ Moves(r, "reset", l) /\ Whole(r) /\ UNCHANGED locks /\ Untouched /\ UNCHANGED mfa
  /\ \A n \in Names : attempts'[<<"auth-user", n>>] =
       IF job[r].name = n THEN 0 ELSE attempts[<<"auth-user", n>>]
  /\ wrong' = [wrong EXCEPT ![job[r].name] = 0]
Skips(r) ==
  /\ Moves(r, "factor", "issue") /\ Whole(r) /\ UNCHANGED locks /\ Still /\ ~IsEnrolled(job[r].u)
Challenges(r) ==
  /\ pc[r] = "factor" /\ Return(r) /\ Frame /\ UNCHANGED <<users, sessions, mfa, attempts, wrong>>
  /\ chals' = [chals EXCEPT ![job[r].no] = job[r].u]
  /\ jar' = [jar EXCEPT ![job[r].b].chal = job[r].no]
Takes(r) ==
  /\ Moves(r, "take", "subject") /\ UNCHANGED locks
  /\ chals[job[r].chal] \in Ids /\ chals' = [chals EXCEPT ![job[r].chal] = NoId]
  /\ job'[r].u = chals[job[r].chal] /\ job'[r].name = job[r].name /\ job'[r].gen = job[r].gen
  /\ Frame /\ UNCHANGED <<users, sessions, mfa, jar, attempts, wrong>>
Confirms(r, l) ==
  /\ l \in {"code", "issue"} /\ (l = "code") = (job[r].op = "verify")
  /\ Moves(r, "subject", l) /\ Whole(r) /\ UNCHANGED locks /\ Still /\ InFile(job[r].u)
Accepts(r) ==
  /\ Moves(r, "code", "reset") /\ Whole(r) /\ UNCHANGED locks /\ Untouched /\ UNCHANGED <<attempts, wrong>>
  /\ LET u == job[r].u
         c == job[r].code
     IN \/ c.kind = "totp" /\ mfa' = mfa
        \/ /\ mfa[u].gen = c.gen /\ mfa[u].st = "active" /\ ~mfa[u].used
           /\ mfa' = [mfa EXCEPT ![u].used = TRUE]
Validates(r) ==
  /\ Moves(r, "validate", "rotate") /\ job'[r].gen = job[r].gen /\ UNCHANGED locks /\ Still
  /\ job[r].tok \in Tokens /\ sessions[job[r].tok].st = "live"
  /\ job'[r].u = sessions[job[r].tok].user
Rotates(r) ==
  /\ Moves(r, "rotate", "subject") /\ Whole(r) /\ UNCHANGED locks /\ Still
  /\ job[r].tok \in Tokens => sessions'[job[r].tok].st # "live"
Inspects(r) ==
  /\ Moves(r, "inspect", "admin") /\ job'[r].gen = job[r].gen /\ UNCHANGED locks /\ Still
  /\ job'[r].header => file
Creates(r) ==
  /\ Moves(r, "admin", "issue") /\ Whole(r) /\ UNCHANGED locks /\ Still
  /\ Seen(job[r].u)' /\ (~job[r].header => \A v \in Ids : ~InFile(v))
Consumes(r) ==
  /\ pc[r] = "consume" /\ Return(r) /\ LimitKept
  /\ IF job[r].header
       THEN /\ file' = FALSE \/ ("consume" \in Faults /\ file' = file)
            /\ resets' = resets + 1 /\ UNCHANGED boots
       ELSE boots' = boots + 1 /\ UNCHANGED <<file, resets>>
  /\ UNCHANGED <<users, sessions, mfa, chals, jar, calls, crashes, minted, issued, wrong>>
Issues(r) ==
  LET t == minted + 1
      j == job[r]
  IN /\ pc[r] = "issue" /\ minted < MaxTokens /\ minted' = t
     /\ sessions' = [sessions EXCEPT ![t] = [user |-> j.u, st |-> "live"]]
     /\ issued' = [issued EXCEPT ![t] = issued'[t]]
     /\ \A s \in Tokens \ {t} : issued'[s] = issued[s]
     /\ issued'[t] \in IssueType /\ issued'[t].via # "none" /\ issued'[t].code = j.code
     /\ issued'[t].alive = j.alive
     /\ issued'[t].bypass => j.op = "login" /\ j.gen # 0 /\ mfa[j.u].gen = j.gen
     /\ (issued'[t].via = "mfa") = (j.op = "verify") /\ (j.op = "verify" => issued'[t].from = j.chal)
     /\ (issued'[t].via = "refresh") = (j.op = "refresh") /\ (j.op = "refresh" => issued'[t].from = j.tok)
     /\ \A c \in Browsers : IF c = j.b
          THEN /\ jar'[c].root \in {jar[c].root, t} /\ jar'[c].api \in {jar[c].api, t}
               /\ jar'[c].chal \in {jar[c].chal, None}
          ELSE jar'[c] = jar[c]
     /\ LimitKept /\ UNCHANGED <<users, mfa, file, chals, calls, crashes, wrong, boots, resets>>
     /\ IF j.op = "setup" THEN Moves(r, "issue", "consume") /\ Whole(r) /\ UNCHANGED locks ELSE Return(r)
Forgets ==
  \/ UNCHANGED <<attempts, wrong>>
  \/ attempts' = [k \in Keys |-> 0] /\ wrong' = [n \in Names |-> 0]
Elapses ==
  /\ (\A r \in Requests : pc[r] = "idle") /\ UNCHANGED <<pc, job, locks>>
  /\ Frame /\ UNCHANGED <<users, mfa>> /\ SessionsKept /\ JarKept /\ Forgets
  /\ chals' = [c \in Chals |-> NoId]
Restarts ==
  /\ pc' = [r \in Requests |-> "idle"] /\ job' = [r \in Requests |-> NoJob]
  /\ chals' = [c \in Chals |-> NoId] /\ file' = EnsureTokenFile
  /\ crashes' = crashes + 1 /\ Forgets
  /\ UNCHANGED <<users, sessions, mfa, jar, calls, minted, issued, boots, resets>>

StepEffect(r) ==
  \/ Ends(r) \/ \E u \in Ids, row \in RowType : Enrols(r, u, row)
  \/ \E k, l \in Labels : Passes(r, k, l)
  \/ LocksSetup(r) \/ LocksRefresh(r) \/ Admits(r) \/ Identifies(r) \/ Finds(r)
  \/ \E k \in Labels : Fails(r, k)
  \/ Counts(r) \/ \E l \in Labels : Clears(r, l) \/ Confirms(r, l)
  \/ Skips(r) \/ Challenges(r) \/ Takes(r) \/ Accepts(r) \/ Validates(r) \/ Rotates(r)
  \/ Inspects(r) \/ Creates(r) \/ Consumes(r) \/ Issues(r)

(* The counters that are not of a name. *)
LEMMA OtherKeys ==
  ASSUME ConstantsOK, NEW keys, \A n \in Names : <<"auth-user", n>> \notin keys,
         Record(keys) \/ Reset(keys) \/ UNCHANGED attempts
  PROVE  LimitKept
BY DEF LimitKept, Record, Reset, Keys

(* The keys of the setup and of a refresh are others. *)
LEMMA SetupKeysOther ==
  ASSUME NEW r \in Requests
  PROVE  \A n \in Names : <<"auth-user", n>> \notin SetupKeys(r) /\ <<"auth-user", n>> \notin {RefreshKey(r)}
BY DEF SetupKeys, RefreshKey

(* A step that writes no store. *)
LEMMA StillFrame ==
  ASSUME UNCHANGED <<file, minted, issued, boots, resets, crashes, calls>>,
         UNCHANGED <<mfa, chals, wrong, users, sessions, jar>>, LimitKept
  PROVE  Still
BY DEF Still, Frame, UsersGrow, Seen, Gone, SessionsKept, JarKept

(* A request that only goes on. *)
LEMMA JustMoves ==
  ASSUME AuthInv, NEW r \in Requests, NEW l, Goto(r, l), UNCHANGED job
  PROVE  Moves(r, pc[r], l) /\ Whole(r)
BY DEF Moves, Kept, Whole

(* A request that goes on with a local set. *)
LEMMA SetsU ==
  ASSUME AuthInv, NEW r \in Requests, NEW u, job' = [job EXCEPT ![r].u = u]
  PROVE  Kept(r) /\ job'[r].u = u /\ job'[r].name = job[r].name /\ job'[r].gen = job[r].gen
BY DEF Kept, AuthInv, ReqInv, JobType

(* The name. *)
LEMMA SetsName ==
  ASSUME AuthInv, NEW r \in Requests, NEW n, job' = [job EXCEPT ![r].name = n]
  PROVE  Kept(r) /\ job'[r].name = n /\ job'[r].gen = job[r].gen
BY DEF Kept, AuthInv, ReqInv, JobType

(* The role, which no effect tells apart. *)
LEMMA SetsRole ==
  ASSUME AuthInv, NEW r \in Requests, NEW n, job' = [job EXCEPT ![r].role = n]
  PROVE  Kept(r) /\ Whole(r)
BY DEF Kept, Whole, AuthInv, ReqInv, JobType

(* Whether it is a recovery. *)
LEMMA SetsHeader ==
  ASSUME AuthInv, NEW r \in Requests, NEW n, job' = [job EXCEPT ![r].header = n]
  PROVE  Kept(r) /\ job'[r].header = n /\ job'[r].gen = job[r].gen
BY DEF Kept, AuthInv, ReqInv, JobType
(* Login *)
LEMMA LoginCheckEff ==
  ASSUME AuthInv, ConstantsOK, NEW r \in Requests, LoginCheck(r)
  PROVE  Ends(r) \/ Admits(r)
<1>1. Still
  BY StillFrame DEF LoginCheck, stores, bounds, ghosts, LimitKept
<1>2. CASE Return(r)
  BY <1>1, <1>2 DEF Ends, LoginCheck, Active
<1>3. CASE ~(\E k \in AuthKeys(r) : Check(k)) /\ Goto(r, "lookup") /\ UNCHANGED <<job, locks>>
  <2>1. job[r].name \in Names => <<"auth-user", job[r].name>> \in AuthKeys(r)
    BY DEF AuthKeys
  <2> QED
    BY <1>1, <1>3, <2>1, JustMoves DEF Admits, LoginCheck
<1> QED
  BY <1>2, <1>3 DEF LoginCheck

(* The password is right, or a failure is to be counted. *)
LEMMA LookupEff ==
  ASSUME AuthInv, ConstantsOK, NEW r \in Requests, Lookup(r)
  PROVE  Finds(r) \/ Fails(r, "lookup")
<1>1. CASE wrong' = [wrong EXCEPT ![job[r].name] = @ + 1] /\ Goto(r, "record") /\ UNCHANGED job
  <2>1. Moves(r, "lookup", "record") /\ Whole(r)
    <3>1. pc[r] = "lookup"
      BY DEF Lookup
    <3> QED
      BY <1>1, <3>1, JustMoves
  <2>2. UNCHANGED <<stores, chals, locks, jar, bounds, minted, issued, boots, resets>>
    BY DEF Lookup
  <2> QED
    BY <1>1, <2>1, <2>2 DEF Fails, Untouched, Frame, stores, bounds
<1>2. ASSUME NEW u \in Ids, InFile(u), Goto(r, "reset"), UNCHANGED wrong,
             job' = [job EXCEPT ![r].u = u, ![r].role = users[u].role, ![r].low = users[u].low,
                                ![r].gen = IF IsEnrolled(u) THEN mfa[u].gen ELSE 0]
      PROVE  Finds(r)
  <2>1. Still
    BY <1>2, StillFrame DEF Lookup, stores, bounds, LimitKept
  <2>2. Kept(r) /\ job'[r].u = u /\ job'[r].gen = IF IsEnrolled(u) THEN mfa[u].gen ELSE 0
    <3> DEFINE role == users[u].role
               low == users[u].low
               gen == IF IsEnrolled(u) THEN mfa[u].gen ELSE 0
    <3>1. job' = [job EXCEPT ![r] = [job[r] EXCEPT !.u = u, !.role = role, !.low = low, !.gen = gen]]
      BY <1>2 DEF AuthInv, ReqInv, JobType
    <3> HIDE DEF role, low, gen
    <3>2. Kept(r) /\ job'[r].u = u /\ job'[r].gen = gen
      <4>1. job[r] \in JobType /\ \A q \in Requests \ {r} : job'[q] = job[q]
        BY <3>1, PhaseFacts DEF AuthInv, ReqInv
      <4>2. job'[r] = [job[r] EXCEPT !.u = u, !.role = role, !.low = low, !.gen = gen]
        BY <3>1 DEF AuthInv, ReqInv
      <4>3. /\ job'[r].op = job[r].op /\ job'[r].no = job[r].no /\ job'[r].b = job[r].b
            /\ job'[r].tok = job[r].tok /\ job'[r].chal = job[r].chal
            /\ job'[r].code = job[r].code /\ job'[r].alive = job[r].alive
            /\ job'[r].u = u /\ job'[r].gen = gen
        BY <4>1, <4>2 DEF JobType
      <4> QED
        BY <4>1, <4>3 DEF Kept
    <3> QED
      BY <3>2 DEF gen
  <2>3. Seen(u) /\ (job'[r].gen # 0 => mfa[u].gen = job'[r].gen /\ mfa[u].st = "active")
    BY <1>2, <2>2 DEF Seen, InFile, Roles, IsEnrolled
  <2> QED
    BY <1>2, <2>1, <2>2, <2>3 DEF Finds, Moves, Lookup, locks
<1> QED
  BY <1>1, <1>2 DEF Lookup, GetUserByUsername

(* A failure is counted for its name. *)
LEMMA RecordFailureEff ==
  ASSUME AuthInv, ConstantsOK, NEW r \in Requests, RecordFailure(r),
         \A n \in Names : attempts[<<"auth-user", n>>] \in Nat
  PROVE  Counts(r)
<1>1. ASSUME NEW n \in Names
      PROVE  <<"auth-user", n>> \in Keys /\ (<<"auth-user", n>> \in AuthKeys(r) <=> job[r].name = n)
  BY DEF AuthKeys, Keys
<1>2. \A n \in Names : attempts'[<<"auth-user", n>>] =
       attempts[<<"auth-user", n>>] + (IF job[r].name = n THEN 1 ELSE 0)
  <2> SUFFICES ASSUME NEW n \in Names
               PROVE  attempts'[<<"auth-user", n>>] =
                        attempts[<<"auth-user", n>>] + (IF job[r].name = n THEN 1 ELSE 0)
    OBVIOUS
  <2> DEFINE k == <<"auth-user", n>>
  <2>1. k \in Keys /\ (k \in AuthKeys(r) <=> job[r].name = n)
    BY <1>1
  <2> HIDE DEF k
  <2>2. attempts[k] \in Nat /\ attempts'[k] = IF k \in AuthKeys(r) THEN attempts[k] + 1 ELSE attempts[k]
    BY <2>1 DEF RecordFailure, Record, k
  <2>3. attempts'[k] = attempts[k] + (IF job[r].name = n THEN 1 ELSE 0)
    BY <2>1, <2>2
  <2> QED
    BY <2>3 DEF k
<1> QED
  BY <1>2 DEF Counts, RecordFailure, Untouched, Frame, bounds, ghosts

(* The count of the name is cleared. *)
LEMMA ResetFailuresEff ==
  ASSUME AuthInv, ConstantsOK, NEW r \in Requests, ResetFailures(r)
  PROVE  \E l \in Labels : Clears(r, l)
<1>1. ASSUME NEW n \in Names
      PROVE  <<"auth-user", n>> \in Keys /\ (<<"auth-user", n>> \in AuthKeys(r) <=> job[r].name = n)
  BY DEF AuthKeys, Keys
<1>2. \A n \in Names : attempts'[<<"auth-user", n>>] =
       IF job[r].name = n THEN 0 ELSE attempts[<<"auth-user", n>>]
  BY <1>1 DEF ResetFailures, Reset
<1>3. PICK l \in {"issue", "rehash", "factor"} : Goto(r, l) /\ (l = "issue") = (job[r].op = "verify")
  BY DEF ResetFailures
<1> QED
  BY <1>2, <1>3, JustMoves DEF Clears, ResetFailures, Untouched, Frame, bounds, ghosts, Labels, WithUser

(* A challenge is made where the user is enrolled. *)
LEMMA FactorEff ==
  ASSUME AuthInv, ConstantsOK, NEW r \in Requests, Factor(r)
  PROVE  Ends(r) \/ Challenges(r) \/ Skips(r)
<1>1. CASE Return(r) /\ UNCHANGED <<chals, jar>>
  BY <1>1, StillFrame DEF Factor, Ends, Active, stores, bounds, ghosts, LimitKept
<1>2. CASE /\ Return(r) /\ chals' = [chals EXCEPT ![job[r].no] = job[r].u]
           /\ jar' = [jar EXCEPT ![job[r].b].chal = job[r].no]
  BY <1>2 DEF Factor, Challenges, Frame, stores, bounds, ghosts
<1>3. CASE ~IsEnrolled(job[r].u) /\ Goto(r, "issue") /\ UNCHANGED <<chals, jar, job, locks>>
  BY <1>3, StillFrame, JustMoves DEF Factor, Skips, stores, bounds, ghosts, LimitKept
<1> QED
  BY <1>1, <1>2, <1>3 DEF Factor
(* The second factor: its check, the challenge, the subject and the code. *)
LEMMA VerifyCheckEff ==
  ASSUME AuthInv, ConstantsOK, NEW r \in Requests, VerifyCheck(r)
  PROVE  Ends(r) \/ Identifies(r)
<1>1. Still
  BY StillFrame DEF VerifyCheck, stores, bounds, ghosts, LimitKept
<1>2. CASE Return(r)
  BY <1>1, <1>2 DEF Ends, VerifyCheck, Active
<1>3. ASSUME NEW n, n \in Names => ~Check(<<"auth-user", n>>), Goto(r, "take"), UNCHANGED locks,
             job' = [job EXCEPT ![r].name = n]
      PROVE  Identifies(r)
  <2>1. Kept(r) /\ job'[r].name = n /\ job'[r].gen = job[r].gen
    BY <1>3, SetsName
  <2>2. pc[r] = "verify"
    BY DEF VerifyCheck
  <2> QED
    BY <1>1, <1>3, <2>1, <2>2 DEF Identifies, Moves
<1> QED
  BY <1>2, <1>3 DEF VerifyCheck

(* The challenge is taken. *)
LEMMA TakeChallengeEff ==
  ASSUME AuthInv, ConstantsOK, NEW r \in Requests, TakeChallenge(r)
  PROVE  Ends(r) \/ Takes(r)
<1>1. CASE Return(r) /\ UNCHANGED chals
  BY <1>1, StillFrame DEF Ends, TakeChallenge, Active, stores, bounds, ghosts, LimitKept
<1>2. ASSUME NEW u \in Ids, u = chals[job[r].chal], chals' = [chals EXCEPT ![job[r].chal] = NoId],
             job' = [job EXCEPT ![r].u = u], Goto(r, "subject"), UNCHANGED locks
      PROVE  Takes(r)
  <2>1. Kept(r) /\ job'[r].u = u /\ job'[r].name = job[r].name /\ job'[r].gen = job[r].gen
    BY <1>2, SetsU
  <2>2. pc[r] = "take" /\ Frame /\ UNCHANGED <<users, sessions, mfa, jar, attempts, wrong>>
    BY DEF TakeChallenge, stores, bounds, ghosts, Frame
  <2> QED
    BY <1>2, <2>1, <2>2 DEF Takes, Moves
<1> QED
  BY <1>1, <1>2 DEF TakeChallenge

(* Clearing the cookie for "/" leaves the rest of the jar. *)
LEMMA ClearedKept ==
  ASSUME AuthInv, NEW b, jar' = ClearRefreshCookie(b) \/ UNCHANGED jar
  PROVE  JarKept
BY DEF JarKept, ClearRefreshCookie, AuthInv, StoreInv, JarType, None

(* The subject is in the file, or the request ends. *)
LEMMA SubjectEff ==
  ASSUME AuthInv, ConstantsOK, NEW r \in Requests, Subject(r)
  PROVE  Ends(r) \/ \E l \in Labels : Confirms(r, l)
<1>0. UNCHANGED <<users, sessions, mfa, file, attempts, chals, bounds, minted, ghosts>> /\ pc[r] = "subject"
  BY DEF Subject, stores
<1>1. CASE InFile(job[r].u)
  <2> DEFINE l == IF job[r].op = "verify" THEN "code" ELSE "issue"
  <2>1. Still
    BY <1>0, <1>1, StillFrame DEF Subject, bounds, ghosts, LimitKept
  <2>2. Goto(r, l) /\ UNCHANGED locks /\ job' = [job EXCEPT ![r].role = users[job[r].u].role]
    BY <1>1 DEF Subject
  <2>3. Kept(r) /\ Whole(r)
    BY <2>2, SetsRole
  <2>4. l \in {"code", "issue"} /\ (l = "code") = (job[r].op = "verify") /\ l \in Labels
    BY DEF Labels, WithUser
  <2> HIDE DEF l
  <2> QED
    BY <1>0, <1>1, <2>1, <2>2, <2>3, <2>4 DEF Confirms, Moves
<1>2. CASE ~InFile(job[r].u)
  <2>1. Return(r) /\ (jar' = ClearRefreshCookie(job[r].b) \/ UNCHANGED jar)
    BY <1>2 DEF Subject
  <2>2. JarKept
    BY <2>1, ClearedKept
  <2> QED
    BY <1>0, <2>1, <2>2
       DEF Ends, Active, Still, Frame, UsersGrow, Seen, Gone, SessionsKept, LimitKept, bounds, ghosts
<1> QED
  BY <1>1, <1>2

(* The code is right and spent, wrong, or of no use. *)
LEMMA VerifyCodeEff ==
  ASSUME AuthInv, ConstantsOK, NEW r \in Requests, VerifyCode(r)
  PROVE  Ends(r) \/ Accepts(r) \/ Fails(r, "code")
<1> DEFINE u == job[r].u
           c == job[r].code
           spend == Matches(u, c) /\ ~mfa[u].used
           fault == c.kind = "recovery" /\ (mfa[u].st = "none" \/ (Matches(u, c) /\ mfa[u].used))
           right == VerifyTotp(u, c) \/ spend
<1>0. /\ pc[r] = "code" /\ u \in Ids /\ mfa \in [Ids -> RowType]
      /\ UNCHANGED <<users, sessions, file, attempts, chals, jar, bounds, minted, issued, boots, resets>>
  BY PhaseFacts DEF VerifyCode, WithUser, AuthInv, StoreInv
<1>1. /\ mfa' = IF spend THEN [mfa EXCEPT ![u].used = TRUE] ELSE mfa
      /\ wrong' = IF right \/ fault THEN wrong ELSE [wrong EXCEPT ![job[r].name] = @ + 1]
      /\ IF fault THEN Return(r)
                  ELSE Goto(r, IF right THEN "reset" ELSE "record") /\ UNCHANGED <<job, locks>>
  BY DEF VerifyCode
<1>2. /\ spend => ~fault /\ mfa[u].gen = c.gen /\ mfa[u].st = "active" /\ ~mfa[u].used
      /\ right /\ ~spend => c.kind = "totp"
  BY DEF Matches, VerifyTotp, IsEnrolled
<1>3. (right => ~fault) /\ (spend => right)
  BY DEF Matches, VerifyTotp, IsEnrolled
<1> HIDE DEF spend, fault, right
<1>4. CASE fault
  <2>1. Return(r) /\ wrong' = wrong /\ mfa' = mfa
    BY <1>1, <1>2, <1>4
  <2>2. Still
    BY <1>0, <2>1, StillFrame DEF bounds, LimitKept
  <2> QED
    BY <1>0, <2>1, <2>2 DEF Ends, Active
<1>5. CASE ~fault /\ right
  <2>1. Goto(r, "reset") /\ UNCHANGED <<job, locks>> /\ UNCHANGED wrong
    BY <1>1, <1>5
  <2>2. Moves(r, "code", "reset") /\ Whole(r)
    BY <1>0, <2>1, JustMoves
  <2>3. \/ c.kind = "totp" /\ mfa' = mfa
        \/ /\ mfa[u].gen = c.gen /\ mfa[u].st = "active" /\ ~mfa[u].used
           /\ mfa' = [mfa EXCEPT ![u].used = TRUE]
    BY <1>1, <1>2, <1>5
  <2> QED
    BY <1>0, <2>1, <2>2, <2>3 DEF Accepts, Untouched, Frame, bounds
<1>6. CASE ~fault /\ ~right
  <2>1. Goto(r, "record") /\ UNCHANGED <<job, locks>> /\ mfa' = mfa
        /\ wrong' = [wrong EXCEPT ![job[r].name] = @ + 1]
    BY <1>1, <1>3, <1>6
  <2>2. Moves(r, "code", "record") /\ Whole(r)
    BY <1>0, <2>1, JustMoves
  <2> QED
    BY <1>0, <2>1, <2>2 DEF Fails, Untouched, Frame, bounds
<1> QED
  BY <1>4, <1>5, <1>6

(* The lock of the address. *)
LEMMA RefreshEff ==
  ASSUME AuthInv, ConstantsOK, NEW r \in Requests, Refresh(r)
  PROVE  LocksRefresh(r)
<1>1. Still
  BY StillFrame DEF Refresh, stores, bounds, ghosts, LimitKept
<1>2. pc[r] = "refresh" /\ Goto(r, "validate") /\ UNCHANGED <<job, setupMu>>
  BY DEF Refresh
<1>3. Moves(r, "refresh", "validate") /\ Whole(r)
  BY <1>2, JustMoves
<1> QED
  BY <1>1, <1>2, <1>3 DEF LocksRefresh, Refresh

(* A token is refused, or is that of a live session. *)
LEMMA ValidateEff ==
  ASSUME AuthInv, ConstantsOK, NEW r \in Requests, Validate(r)
  PROVE  Ends(r) \/ Validates(r)
<1>0. pc[r] = "validate" /\ UNCHANGED <<users, sessions, mfa, file, chals, bounds, minted, ghosts>>
  BY DEF Validate
<1>1. ASSUME Return(r), UNCHANGED attempts \/ Record({RefreshKey(r)}),
             jar' = ClearRefreshCookie(job[r].b) \/ UNCHANGED jar
      PROVE  Ends(r)
  <2>1. JarKept /\ LimitKept
    BY <1>1, ClearedKept, OtherKeys, SetupKeysOther
  <2> QED
    BY <1>0, <1>1, <2>1 DEF Ends, Active, Still, Frame, UsersGrow, Seen, Gone, SessionsKept, bounds, ghosts
<1>2. ASSUME ValidateRefreshSession(job[r].tok), Goto(r, "rotate"),
             job' = [job EXCEPT ![r].u = sessions[job[r].tok].user], UNCHANGED <<attempts, jar, locks>>
      PROVE  Validates(r)
  <2>1. Still
    BY <1>0, <1>2, StillFrame DEF bounds, ghosts, LimitKept
  <2>2. Kept(r) /\ job'[r].u = sessions[job[r].tok].user /\ job'[r].gen = job[r].gen
    BY <1>2, SetsU
  <2>3. job[r].tok \in Tokens /\ sessions[job[r].tok].st = "live"
    BY <1>2, PhaseFacts DEF ValidateRefreshSession, JobType
  <2> QED
    BY <1>0, <1>2, <2>1, <2>2, <2>3 DEF Validates, Moves
<1> QED
  BY <1>1, <1>2 DEF Validate

(* Revoking a session. *)
LEMMA RevokedKept ==
  ASSUME AuthInv, NEW t, t # None => t \in Tokens, RevokeRefreshSession(t) \/ UNCHANGED sessions
  PROVE  SessionsKept /\ (RevokeRefreshSession(t) /\ t # None => sessions'[t].st # "live")
BY DEF SessionsKept, RevokeRefreshSession, AuthInv, StoreInv, SessionType

(* The token is revoked before anything else is done. *)
LEMMA RotateEff ==
  ASSUME AuthInv, ConstantsOK, NEW r \in Requests, Rotate(r)
  PROVE  Ends(r) \/ Rotates(r)
<1>0. /\ pc[r] = "rotate" /\ UNCHANGED <<users, mfa, file, attempts, chals, jar, bounds, minted, ghosts>>
      /\ (job[r].tok # None => job[r].tok \in Tokens) /\ (job[r].tok \in Tokens => job[r].tok # None)
  BY PhaseFacts DEF Rotate, JobType, Tokens, None
<1>1. CASE Return(r) /\ UNCHANGED sessions
  BY <1>0, <1>1, StillFrame DEF Ends, Active, bounds, ghosts, LimitKept
<1>2. CASE RevokeRefreshSession(job[r].tok) /\ Goto(r, "subject") /\ UNCHANGED <<job, locks>>
  <2>1. SessionsKept /\ (job[r].tok \in Tokens => sessions'[job[r].tok].st # "live")
    BY <1>0, <1>2, RevokedKept
  <2>2. Moves(r, "rotate", "subject") /\ Whole(r)
    BY <1>0, <1>2, JustMoves
  <2>3. Still
    BY <1>0, <2>1 DEF Still, Frame, UsersGrow, Seen, Gone, JarKept, LimitKept, bounds, ghosts
  <2> QED
    BY <1>2, <2>1, <2>2, <2>3 DEF Rotates
<1> QED
  BY <1>1, <1>2 DEF Rotate

(* Logout revokes and clears. *)
LEMMA LogoutEff ==
  ASSUME AuthInv, ConstantsOK, NEW r \in Requests, Logout(r)
  PROVE  Ends(r)
<1>0. /\ pc[r] = "logout" /\ UNCHANGED <<users, mfa, file, attempts, chals, bounds, minted, ghosts>>
      /\ (job[r].tok # None => job[r].tok \in Tokens) /\ Return(r)
      /\ job[r].b \in Browsers
  BY PhaseFacts DEF Logout, JobType, Tokens, None
<1>1. SessionsKept
  BY <1>0, RevokedKept DEF Logout
<1>2. JarKept
  <2>1. CASE UNCHANGED jar
    BY <2>1 DEF JarKept
  <2>2. CASE jar' = [jar EXCEPT ![job[r].b].root = None, ![job[r].b].claims = NoClaims]
    <3> DEFINE bb == job[r].b
    <3>1. bb \in Browsers /\ jar \in [Browsers -> JarType]
      BY <1>0 DEF AuthInv, StoreInv
    <3>2. jar' = [jar EXCEPT ![bb].root = None, ![bb].claims = NoClaims]
      BY <2>2
    <3> HIDE DEF bb
    <3>3. \A b \in Browsers : b # bb => jar'[b] = jar[b]
      BY <3>1, <3>2
    <3>4. jar'[bb].root = None /\ jar'[bb].api = jar[bb].api /\ jar'[bb].chal = jar[bb].chal
      BY <3>1, <3>2 DEF JarType
    <3> QED
      BY <3>3, <3>4 DEF JarKept
  <2> QED
    BY <2>1, <2>2 DEF Logout
<1> QED
  BY <1>0, <1>1, <1>2 DEF Ends, Active, Still, Frame, UsersGrow, Seen, Gone, LimitKept, bounds, ghosts

(* A row that is in the file, or is not yet, is written. *)
LEMMA RowGrows ==
  ASSUME AuthInv, NEW u \in Ids, NEW row, row.role # "absent", users[u].role # "deleted",
         users' = [users EXCEPT ![u] = row]
  PROVE  UsersGrow /\ Seen(u)'
BY DEF UsersGrow, Seen, Gone, AuthInv, StoreInv

(* The three ways in which a row is written. *)
LEMMA PasswordGrows ==
  ASSUME AuthInv, NEW u \in Ids, NEW p, users' = [users EXCEPT ![u].pw = p, ![u].low = FALSE]
  PROVE  UsersGrow
<1> DEFINE row == [[users[u] EXCEPT !.pw = p] EXCEPT !.low = FALSE]
<1>1. users \in [Ids -> User] /\ users[u] \in User
  BY DEF AuthInv, StoreInv
<1>2. users' = [users EXCEPT ![u] = row]
  BY <1>1
<1>3. row.role = users[u].role
  BY <1>1 DEF User
<1> HIDE DEF row
<1> QED
  BY <1>1, <1>2, <1>3 DEF UsersGrow, Seen, Gone

(* A new role, or a deletion. *)
LEMMA RoleGrows ==
  ASSUME AuthInv, NEW u \in Ids, NEW role, InFile(u), role # "absent", users' = [users EXCEPT ![u].role = role]
  PROVE  UsersGrow
<1> DEFINE row == [users[u] EXCEPT !.role = role]
<1>1. users \in [Ids -> User] /\ users[u] \in User
  BY DEF AuthInv, StoreInv
<1>2. users' = [users EXCEPT ![u] = row]
  OBVIOUS
<1>3. row.role = role
  BY <1>1 DEF User
<1> HIDE DEF row
<1> QED
  BY <1>2, <1>3, RowGrows DEF InFile, Roles

(* Whatever is written to the user file, the rest stands still. *)
LEMMA UsersStill ==
  ASSUME UsersGrow \/ UNCHANGED users, LimitKept,
         UNCHANGED <<sessions, mfa, file, chals, jar, bounds, minted, ghosts>>
  PROVE  Still
<1>1. UsersGrow
  BY DEF UsersGrow, Seen, Gone
<1>2. SessionsKept /\ JarKept /\ Frame
  BY DEF SessionsKept, JarKept, Frame, bounds, ghosts
<1> QED
  BY <1>1, <1>2 DEF Still, ghosts

(* A low hash is replaced. *)
LEMMA RehashEff ==
  ASSUME AuthInv, ConstantsOK, NEW r \in Requests, Rehash(r)
  PROVE  Passes(r, "rehash", "factor")
<1>0. pc[r] = "rehash" /\ job[r].u \in Ids /\ Goto(r, "factor") /\ UNCHANGED <<job, locks>>
  BY PhaseFacts DEF Rehash, WithUser
<1>1. UsersGrow \/ UNCHANGED users
  BY <1>0, PasswordGrows DEF Rehash
<1>2. Still
  BY <1>1, UsersStill DEF Rehash, LimitKept
<1> QED
  BY <1>0, <1>2, JustMoves DEF Passes

(* The accounts. *)
LEMMA AccountsEff ==
  ASSUME AuthInv, ConstantsOK, NEW r \in Requests,
         CreateUser(r) \/ DeleteUser(r) \/ UpdateUserRole(r) \/ ChangePassword(r)
  PROVE  Ends(r)
<1>0. /\ pc[r] \in {"create", "delete", "role", "password"} /\ job[r].u \in Ids /\ job[r].role \in Roles
      /\ Return(r) /\ UNCHANGED <<sessions, mfa, file, attempts, chals, jar, bounds, minted, ghosts>>
  <2>1. pc[r] \in {"create", "delete", "role", "password"}
    BY DEF CreateUser, DeleteUser, UpdateUserRole, ChangePassword
  <2>2. job[r].u \in Ids /\ job[r].role \in Roles
    BY <2>1, PhaseFacts DEF WithUser, JobType
  <2> QED
    BY <2>1, <2>2 DEF CreateUser, DeleteUser, UpdateUserRole, ChangePassword
<1>1. CASE CreateUser(r)
  <2> DEFINE row == [role |-> job[r].role, pw |-> job[r].pw, low |-> FALSE]
  <2>1. row.role # "absent"
    BY <1>0 DEF Roles
  <2>2. UNCHANGED users \/ (users[job[r].u].role = "absent" /\ users' = [users EXCEPT ![job[r].u] = row])
    BY <1>1 DEF CreateUser, MayCreate
  <2> HIDE DEF row
  <2>3. UsersGrow \/ UNCHANGED users
    BY <1>0, <2>1, <2>2, RowGrows
  <2> QED
    BY <1>0, <2>3, UsersStill DEF Ends, Active, LimitKept
<1>2. CASE DeleteUser(r)
  <2>1. UsersGrow \/ UNCHANGED users
    BY <1>0, <1>2, RoleGrows DEF DeleteUser
  <2> QED
    BY <1>0, <2>1, UsersStill DEF Ends, Active, LimitKept
<1>3. CASE UpdateUserRole(r)
  <2>1. job[r].role # "absent"
    BY <1>0 DEF Roles
  <2>2. UsersGrow \/ UNCHANGED users
    BY <1>0, <1>3, <2>1, RoleGrows DEF UpdateUserRole
  <2> QED
    BY <1>0, <2>2, UsersStill DEF Ends, Active, LimitKept
<1>4. CASE ChangePassword(r)
  <2>1. UsersGrow \/ UNCHANGED users
    BY <1>0, <1>4, PasswordGrows DEF ChangePassword
  <2> QED
    BY <1>0, <2>1, UsersStill DEF Ends, Active, LimitKept
<1> QED
  BY <1>1, <1>2, <1>3, <1>4

(* The setup up to its section. *)
LEMMA SetupCheckEff ==
  ASSUME AuthInv, ConstantsOK, NEW r \in Requests, SetupCheck(r)
  PROVE  Ends(r) \/ Passes(r, "setup", "await")
<1>1. Still /\ pc[r] = "setup"
  BY StillFrame DEF SetupCheck, stores, bounds, ghosts, LimitKept
<1>2. CASE Return(r)
  BY <1>1, <1>2 DEF Ends, Active
<1>3. CASE Goto(r, "await") /\ UNCHANGED <<job, locks>>
  BY <1>1, <1>3, JustMoves DEF Passes
<1> QED
  BY <1>2, <1>3 DEF SetupCheck

(* setupMu is taken. *)
LEMMA SetupLockEff ==
  ASSUME AuthInv, ConstantsOK, NEW r \in Requests, SetupLock(r)
  PROVE  LocksSetup(r)
<1>1. Still /\ pc[r] = "await" /\ Goto(r, "inspect") /\ UNCHANGED job
  BY StillFrame DEF SetupLock, stores, bounds, ghosts, LimitKept
<1> QED
  BY <1>1, JustMoves DEF LocksSetup, SetupLock

(* The token of the file is inspected. *)
LEMMA InspectEff ==
  ASSUME AuthInv, ConstantsOK, NEW r \in Requests, Inspect(r)
  PROVE  Ends(r) \/ Inspects(r)
<1> DEFINE configured == \E u \in Ids : InFile(u)
<1>0. pc[r] = "inspect" /\ UNCHANGED <<users, sessions, mfa, file, chals, jar, bounds, minted, ghosts>>
  BY DEF Inspect
<1>1. CASE Record(SetupKeys(r)) /\ Return(r)
  <2>1. LimitKept
    BY <1>1, OtherKeys, SetupKeysOther
  <2> QED
    BY <1>0, <1>1, <2>1, UsersStill DEF Ends, Active
<1>2. ASSUME ~(configured /\ ~(file /\ job[r].header)), job' = [job EXCEPT ![r].header = configured],
             Goto(r, "admin"), UNCHANGED <<attempts, locks>>
      PROVE  Inspects(r)
  <2>a. configured \in BOOLEAN
    BY Zenon
  <2>0. configured => file
    BY <1>2
  <2> HIDE DEF configured
  <2>1. Kept(r) /\ job'[r].header = configured /\ job'[r].gen = job[r].gen
    BY <1>2, SetsHeader
  <2>2. Still
    BY <1>0, <1>2, UsersStill DEF LimitKept
  <2>3. job'[r].header => file
    BY <2>a, <2>0, <2>1
  <2> QED
    BY <1>0, <1>2, <2>1, <2>2, <2>3 DEF Inspects, Moves
<1> QED
  BY <1>1, <1>2 DEF Inspect, RespondAlreadyConfigured

(* The first administrator, or a further one. *)
LEMMA CreateAdminEff ==
  ASSUME AuthInv, ConstantsOK, NEW r \in Requests, CreateAdmin(r)
  PROVE  Ends(r) \/ Creates(r)
<1>0. /\ pc[r] = "admin" /\ job[r].u \in Ids
      /\ UNCHANGED <<sessions, mfa, file, chals, jar, bounds, minted, ghosts>>
  BY PhaseFacts DEF CreateAdmin, WithUser
<1>1. CASE Return(r) /\ UNCHANGED users /\ (UNCHANGED attempts \/ Record(SetupKeys(r)))
  <2>1. LimitKept
    BY <1>1, OtherKeys, SetupKeysOther
  <2> QED
    BY <1>0, <1>1, <2>1, UsersStill DEF Ends, Active
<1>2. ASSUME IF job[r].header THEN MayCreate(job[r].u) ELSE MayBootstrap(job[r].u),
             users' = [users EXCEPT ![job[r].u] = [role |-> "admin", pw |-> job[r].pw, low |-> FALSE]],
             Goto(r, "issue"), UNCHANGED <<attempts, job, locks>>
      PROVE  Creates(r)
  <2> DEFINE row == [role |-> "admin", pw |-> job[r].pw, low |-> FALSE]
  <2>1. row.role # "absent" /\ users' = [users EXCEPT ![job[r].u] = row]
    BY <1>2
  <2> HIDE DEF row
  <2>2. users[job[r].u].role = "absent" /\ (~job[r].header => \A v \in Ids : ~InFile(v))
    BY <1>2 DEF MayCreate, MayBootstrap
  <2>3. UsersGrow /\ Seen(job[r].u)'
    <3> DEFINE u == job[r].u
    <3>1. u \in Ids /\ UNCHANGED job
      BY <1>0, <1>2
    <3>2. users' = [users EXCEPT ![u] = row] /\ users[u].role # "deleted"
      BY <2>1, <2>2
    <3> HIDE DEF u
    <3>3. UsersGrow /\ users'[u].role # "absent"
      BY <2>1, <3>1, <3>2, RowGrows DEF Seen
    <3> QED
      BY <3>1, <3>3 DEF u, Seen
  <2>4. Still
    BY <1>0, <1>2, <2>3, UsersStill DEF LimitKept
  <2> QED
    BY <1>0, <1>2, <2>2, <2>3, <2>4, JustMoves DEF Creates
<1> QED
  BY <1>1, <1>2 DEF CreateAdmin, RespondAlreadyConfigured

(* The token is used up. *)
LEMMA ConsumeEff ==
  ASSUME AuthInv, ConstantsOK, NEW r \in Requests, Consume(r), file \in BOOLEAN
  PROVE  Consumes(r)
<1>1. LimitKept
  BY OtherKeys, SetupKeysOther DEF Consume
<1> QED
  BY <1>1 DEF Consumes, Consume, bounds

(* An enrolment is begun, confirmed or removed. *)
LEMMA EnrolmentsEff ==
  ASSUME AuthInv, ConstantsOK, NEW r \in Requests,
         BeginEnrollment(r) \/ ConfirmEnrollment(r) \/ Unenroll(r), job[r].no \in 0..MaxCalls
  PROVE  Ends(r) \/ \E u \in Ids, row \in RowType : Enrols(r, u, row)
<1> DEFINE u == job[r].u
<1>0. /\ pc[r] \in {"enroll", "confirm", "unenroll"} /\ u \in Ids /\ mfa \in [Ids -> RowType] /\ Return(r)
      /\ UNCHANGED <<users, sessions, file, attempts, chals, jar, bounds, minted, ghosts>>
  <2>1. pc[r] \in {"enroll", "confirm", "unenroll"}
    BY DEF BeginEnrollment, ConfirmEnrollment, Unenroll
  <2>2. job[r].u \in Ids /\ mfa \in [Ids -> RowType]
    BY <2>1, PhaseFacts DEF WithUser, AuthInv, StoreInv
  <2> QED
    BY <2>1, <2>2 DEF BeginEnrollment, ConfirmEnrollment, Unenroll
<1>1. CASE mfa' = mfa
  <2>1. Still
    BY <1>0, <1>1, UsersStill DEF LimitKept
  <2> QED
    BY <1>0, <2>1 DEF Ends, Active
<1>2. ASSUME NEW row \in RowType, mfa' = [mfa EXCEPT ![u] = row],
             \/ row = NoRow
             \/ row.gen = job[r].no + 1
             \/ /\ mfa[u].st = "pending" /\ row.st = "active"
                /\ row.gen = mfa[u].gen /\ row.used = mfa[u].used
      PROVE  Enrols(r, u, row)
  BY <1>0, <1>2 DEF Enrols, Active, Untouched, Frame, bounds, ghosts
<1>3. CASE BeginEnrollment(r)
  <2> DEFINE row == [st |-> "pending", gen |-> job[r].no + 1, used |-> FALSE]
  <2>1. row \in RowType /\ row.gen = job[r].no + 1
    BY DEF RowType, Gens, ConstantsOK
  <2>2. mfa' = mfa \/ mfa' = [mfa EXCEPT ![u] = row]
    BY <1>3 DEF BeginEnrollment
  <2> HIDE DEF row
  <2> QED
    BY <1>0, <1>1, <1>2, <2>1, <2>2
<1>4. CASE ConfirmEnrollment(r)
  <2> DEFINE row == [mfa[u] EXCEPT !.st = "active"]
  <2>1. row \in RowType /\ row.gen = mfa[u].gen /\ row.used = mfa[u].used /\ row.st = "active"
    BY <1>0 DEF RowType
  <2>2. mfa' = mfa \/ (mfa' = [mfa EXCEPT ![u] = row] /\ mfa[u].st = "pending")
    BY <1>4 DEF ConfirmEnrollment
  <2> HIDE DEF row
  <2> QED
    BY <1>0, <1>1, <1>2, <2>1, <2>2
<1>5. CASE Unenroll(r)
  <2>1. NoRow \in RowType
    BY DEF NoRow, RowType, Gens, ConstantsOK
  <2> QED
    BY <1>0, <1>2, <1>5, <2>1 DEF Unenroll
<1> QED
  BY <1>3, <1>4, <1>5

(* The password of the caller is right, or nothing happens. *)
LEMMA DisableEff ==
  ASSUME AuthInv, ConstantsOK, NEW r \in Requests, Disable(r)
  PROVE  Ends(r) \/ Passes(r, "disable", "unenroll")
<1>1. Still /\ pc[r] = "disable"
  BY StillFrame DEF Disable, stores, bounds, ghosts, LimitKept
<1>2. CASE Return(r)
  BY <1>1, <1>2 DEF Ends, Active
<1>3. CASE Goto(r, "unenroll") /\ UNCHANGED <<job, locks>>
  BY <1>1, <1>3, JustMoves DEF Passes
<1> QED
  BY <1>2, <1>3 DEF Disable

(* A session is issued. *)
LEMMA IssueEff ==
  ASSUME AuthInv, ConstantsOK, NEW r \in Requests, Issue(r), issued \in [Tokens -> IssueType],
         job[r].op \in {"login", "verify", "refresh", "setup"}
  PROVE  Ends(r) \/ Issues(r)
<1>0. /\ pc[r] = "issue" /\ minted < MaxTokens /\ job[r] \in JobType /\ job[r].b \in Browsers
      /\ minted \in 0..MaxTokens /\ minted + 1 \in Tokens
      /\ UNCHANGED <<users, mfa, file, chals, bounds, wrong, boots, resets>>
  BY PhaseFacts DEF Issue, AuthInv, StoreInv, Tokens, ConstantsOK
<1>1. CASE Return(r) /\ UNCHANGED <<sessions, jar, attempts, minted, issued>>
  BY <1>0, <1>1, UsersStill DEF Ends, Active, LimitKept, ghosts
<1> DEFINE t == minted + 1
           op == job[r].op
           via == CASE op = "login" -> "password" [] op = "verify" -> "mfa" [] OTHER -> op
           from == IF op = "refresh" THEN job[r].tok ELSE job[r].chal
           bypass == /\ op = "login" /\ job[r].gen # 0 /\ mfa[job[r].u].gen = job[r].gen
                     /\ IsEnrolled(job[r].u)
           rec == [via |-> via, alive |-> job[r].alive, code |-> job[r].code, from |-> from, bypass |-> bypass]
           claims == GenerateToken(job[r].u, job[r].role)
           jj == IF op = "verify" THEN SetRefreshCookieFor(jar[job[r].b], t, claims)
                                  ELSE SetRefreshCookie(jar[job[r].b], t, claims)
<1>2. ASSUME CreateRefreshSession(t, job[r].u), minted' = t, issued' = [issued EXCEPT ![t] = rec],
             jar' = [jar EXCEPT ![job[r].b] = jj],
             IF op = "refresh" THEN Reset({RefreshKey(r)}) ELSE UNCHANGED attempts,
             IF op = "setup" THEN Goto(r, "consume") /\ UNCHANGED <<job, locks>> ELSE Return(r)
      PROVE  Issues(r)
  <2>1. LimitKept
    BY <1>2, OtherKeys, SetupKeysOther
  <2>2. t \in Tokens /\ t # None
    BY <1>0 DEF None, Tokens
  <2>3. /\ via \in {"password", "mfa", "refresh", "setup"}
        /\ (via = "mfa") = (op = "verify") /\ (via = "refresh") = (op = "refresh")
    OBVIOUS
  <2>4. from \in Nat /\ (op = "refresh" => from = job[r].tok) /\ (op = "verify" => from = job[r].chal)
    BY <1>0 DEF JobType, Tokens, None
  <2>5. bypass \in BOOLEAN
    BY Zenon
  <2>6. bypass => op = "login" /\ job[r].gen # 0 /\ mfa[job[r].u].gen = job[r].gen
    OBVIOUS
  <2>7. job[r].alive \in BOOLEAN /\ job[r].code \in Codes
    BY <1>0 DEF JobType
  <2>8. issued' = [issued EXCEPT ![t] = rec]
    BY <1>2
  <2>9. /\ \A c \in Browsers : c # job[r].b => jar'[c] = jar[c]
        /\ jar'[job[r].b] = jj /\ jar[job[r].b] \in JarType
    BY <1>0, <1>2 DEF AuthInv, StoreInv
  <2>10. IF op = "setup" THEN Moves(r, "issue", "consume") /\ Whole(r) /\ UNCHANGED locks ELSE Return(r)
    BY <1>0, <1>2, JustMoves
  <2>11. sessions' = [sessions EXCEPT ![t] = [user |-> job[r].u, st |-> "live"]]
    BY <1>2 DEF CreateRefreshSession
  <2> HIDE DEF via, from, bypass, t, claims
  <2>12. LET c == job[r].b
         IN /\ jar'[c].root \in {jar[c].root, t} /\ jar'[c].api \in {jar[c].api, t}
            /\ jar'[c].chal \in {jar[c].chal, None}
    <3>1. jj = [jar[job[r].b] EXCEPT !.root = t, !.claims = claims]
            \/ jj = [jar[job[r].b] EXCEPT !.api = t, !.claims = claims, !.chal = None]
      BY DEF SetRefreshCookieFor, SetRefreshCookie
    <3> HIDE DEF jj
    <3>2. CASE jj = [jar[job[r].b] EXCEPT !.root = t, !.claims = claims]
      BY <2>9, <3>2 DEF JarType
    <3>3. CASE jj = [jar[job[r].b] EXCEPT !.api = t, !.claims = claims, !.chal = None]
      BY <2>9, <3>3 DEF JarType
    <3> QED
      BY <3>1, <3>2, <3>3
  <2>13. /\ rec \in IssueType /\ rec.via = via /\ rec.from = from /\ rec.code = job[r].code
         /\ rec.alive = job[r].alive /\ rec.bypass = bypass
    BY <2>3, <2>4, <2>5, <2>7 DEF IssueType
  <2> HIDE DEF rec, jj
  <2>14. issued'[t] = rec /\ \A s \in Tokens \ {t} : issued'[s] = issued[s]
    BY <2>2, <2>8
  <2>19. issued' = [issued EXCEPT ![t] = issued'[t]]
    BY <2>8, <2>14
  <2> DEFINE i == issued'[t]
  <2>15. /\ i \in IssueType /\ i.via # "none" /\ i.code = job[r].code /\ i.alive = job[r].alive
         /\ i.bypass => op = "login" /\ job[r].gen # 0 /\ mfa[job[r].u].gen = job[r].gen
         /\ (i.via = "mfa") = (op = "verify") /\ (op = "verify" => i.from = job[r].chal)
         /\ (i.via = "refresh") = (op = "refresh") /\ (op = "refresh" => i.from = job[r].tok)
    BY <2>3, <2>4, <2>6, <2>13, <2>14
  <2>16. \A c \in Browsers : IF c = job[r].b
          THEN /\ jar'[c].root \in {jar[c].root, t} /\ jar'[c].api \in {jar[c].api, t}
               /\ jar'[c].chal \in {jar[c].chal, None}
          ELSE jar'[c] = jar[c]
    BY <2>9, <2>12
  <2>17. UNCHANGED <<users, mfa, file, chals, calls, crashes, wrong, boots, resets>>
    BY <1>0 DEF bounds
  <2>18. minted' = t
    BY <1>2
  <2> HIDE DEF i
  <2> QED
    BY <1>0, <2>1, <2>10, <2>11, <2>14, <2>15, <2>16, <2>17, <2>18, <2>19 DEF Issues, t, i
<1> QED
  BY <1>1, <1>2 DEF Issue

(* Time passes. *)
LEMMA ElapseEff ==
  ASSUME AuthInv, ConstantsOK, NEW d \in {"minutes", "window", "week"}, Elapse(d)
  PROVE  Elapses
<1>1. JarKept
  <2>1. CASE jar' = jar
    BY <2>1 DEF JarKept
  <2>2. CASE jar' = [b \in Browsers |-> [jar[b] EXCEPT !.claims = NoClaims]]
    <3> SUFFICES ASSUME NEW b \in Browsers
                 PROVE  jar'[b].root = jar[b].root /\ jar'[b].api = jar[b].api /\ jar'[b].chal = jar[b].chal
      BY DEF JarKept
    <3>1. jar'[b] = [jar[b] EXCEPT !.claims = NoClaims] /\ jar[b] \in JarType
      BY <2>2 DEF AuthInv, StoreInv
    <3> QED
      BY <3>1 DEF JarType
  <2> QED
    BY <2>1, <2>2 DEF Elapse
<1>2. SessionsKept
  <2>1. CASE sessions' = sessions
    BY <2>1 DEF SessionsKept
  <2>2. CASE sessions' = [t \in Tokens |-> IF sessions[t].st = "live"
                         THEN [sessions[t] EXCEPT !.st = "expired"] ELSE sessions[t]]
    <3> SUFFICES ASSUME NEW t \in Tokens
                 PROVE  sessions'[t].user = sessions[t].user /\ sessions'[t].st # "live"
      BY DEF SessionsKept
    <3>1. sessions'[t] = (IF sessions[t].st = "live" THEN [sessions[t] EXCEPT !.st = "expired"] ELSE sessions[t])
          /\ sessions[t] \in SessionType
      BY <2>2 DEF AuthInv, StoreInv
    <3> QED
      BY <3>1 DEF SessionType
  <2> QED
    BY <2>1, <2>2 DEF Elapse
<1>3. Forgets
  BY DEF Elapse, Forgets
<1> QED
  BY <1>1, <1>2, <1>3 DEF Elapse, Elapses, Frame, locks

(* A crash. *)
LEMMA RestartEff ==
  ASSUME AuthInv, ConstantsOK, NEW persisted \in BOOLEAN, Restart(persisted)
  PROVE  Restarts
<1>1. Forgets
  BY DEF Restart, LoadAttempts, Forgets
<1> QED
  BY <1>1 DEF Restart, Restarts

(* A request arrives with what its handler was given. *)
LEMMA ArriveEff ==
  ASSUME AuthInv, NEW r \in Requests, NEW b \in Browsers, NEW op \in AllOps, NEW j \in JobType,
         Arrive(r, b, op, j), j.gen = 0, j.tok \in {None, Sent(b)},
         j.chal = IF op = "verify" THEN jar[b].chal ELSE None, op = "verify" => jar[b].chal # None,
         ~j.alive =>
           \/ op = "verify" /\ (chals[jar[b].chal] \in Ids => ~InFile(chals[jar[b].chal]))
           \/ op = "refresh" /\ j.tok = Sent(b) /\ (Sent(b) # None => ~InFile(sessions[Sent(b)].user))
  PROVE  Arrives(r, b, op)
<1> DEFINE me == jar[b].claims.user
           no == calls + 1
           k == [j EXCEPT !.op = op, !.b = b, !.me = me, !.no = no]
<1>1. /\ pc[r] = "idle" /\ Goto(r, op) /\ calls < MaxCalls /\ calls' = calls + 1
      /\ \A q \in Requests \ {r} : job'[q] = job[q]
      /\ job'[r] = k
      /\ UNCHANGED <<stores, chals, locks, jar, crashes, minted, ghosts>>
  BY DEF Arrive, AuthInv, ReqInv
<1> HIDE DEF me, no
<1>2. /\ k.op = op /\ k.b = b /\ k.no = no /\ k.gen = j.gen /\ k.tok = j.tok /\ k.chal = j.chal
      /\ k.alive = j.alive
  BY DEF JobType
<1> HIDE DEF k
<1>3. ~job'[r].alive =>
           \/ op = "verify" /\ (chals[jar[b].chal] \in Ids => ~InFile(chals[jar[b].chal]))
           \/ op = "refresh" /\ job'[r].tok = Sent(b) /\ (Sent(b) # None => ~InFile(sessions[Sent(b)].user))
  BY <1>1, <1>2
<1>4. /\ job'[r].op = op /\ job'[r].b = b /\ job'[r].no = calls + 1 /\ job'[r].gen = 0
      /\ job'[r].tok \in {None, Sent(b)}
      /\ job'[r].chal = IF op = "verify" THEN jar[b].chal ELSE None
  BY <1>1, <1>2 DEF no
<1> QED
  BY <1>1, <1>3, <1>4 DEF Arrives

(* What a request that brings no credential begins with. *)
LEMMA PlainArrival ==
  ASSUME AuthInv, NEW r \in Requests, NEW b \in Browsers, NEW op \in AllOps \ {"verify"}, NEW j \in JobType,
         Arrive(r, b, op, j), j.gen = 0, j.tok \in {None, Sent(b)}, j.chal = None, j.alive
  PROVE  Arrives(r, b, op)
BY ArriveEff

(* Every handler. *)
LEMMA CallEff ==
  ASSUME AuthInv, ConstantsOK, NEW r \in Requests, Call(r)
  PROVE  \E b \in Browsers, op \in AllOps : Arrives(r, b, op)
<1> USE NoJobType
<1>0. PICK b \in Browsers :
        \/ PostSetup(r, b) \/ PostLogin(r, b) \/ PostVerify(r, b) \/ PostRefresh(r, b) \/ PostLogout(r, b)
        \/ HandleCreateUser(r, b) \/ HandleDeleteUser(r, b) \/ HandleUpdateUser(r, b)
        \/ HandleChangePassword(r, b)
        \/ HandleEnroll(r, b) \/ HandleEnrollConfirm(r, b) \/ HandleDisable(r, b)
  BY DEF Call
<1>a. /\ Me(b) \in Ids \cup {NoId} /\ jar[b].chal \in Nat /\ Sent(b) \in Tokens \cup {None}
  BY Claims DEF AuthInv, Sent
<1>b. /\ AllOps = {"setup", "login", "verify", "refresh", "logout", "create", "delete", "role",
                   "password", "enroll", "confirm", "disable"}
      /\ NoJob.gen = 0 /\ NoJob.tok = None /\ NoJob.chal = None /\ NoJob.alive
  BY DEF AllOps, NoJob
<1>1. CASE PostSetup(r, b)
  <2>1. PICK u \in Fresh, h \in BOOLEAN :
          Arrive(r, b, "setup", [NoJob EXCEPT !.u = u, !.name = NameOf[u], !.role = "admin", !.header = h])
    BY <1>1 DEF PostSetup
  <2> DEFINE n == NameOf[u]
             j == [NoJob EXCEPT !.u = u, !.name = n, !.role = "admin", !.header = h]
  <2>2. u \in Ids /\ n \in Names /\ Arrive(r, b, "setup", j)
    BY <2>1 DEF Fresh, ConstantsOK
  <2> HIDE DEF n
  <2>3. j \in JobType /\ j.gen = 0 /\ j.tok = None /\ j.chal = None /\ j.alive
    BY <1>b, <2>2 DEF JobType, Roles
  <2> HIDE DEF j
  <2> QED
    BY <1>b, <2>2, <2>3, PlainArrival
<1>2. CASE PostLogin(r, b)
  <2>1. PICK n \in LoginNames, p \in Passwords : Arrive(r, b, "login", [NoJob EXCEPT !.name = n, !.pw = p])
    BY <1>2 DEF PostLogin
  <2> DEFINE j == [NoJob EXCEPT !.name = n, !.pw = p]
  <2>2. j \in JobType /\ j.gen = 0 /\ j.tok = None /\ j.chal = None /\ j.alive
    BY <1>b DEF JobType, ConstantsOK
  <2>5. Arrive(r, b, "login", j)
    BY <2>1
  <2> HIDE DEF j
  <2> QED
    BY <1>b, <2>5, <2>2, PlainArrival
<1>3. CASE PostVerify(r, b)
  <2> DEFINE a == chals[jar[b].chal] \in Ids /\ InFile(chals[jar[b].chal])
             ch == jar[b].chal
  <2>1. PICK k \in Known : Arrive(r, b, "verify", [NoJob EXCEPT !.chal = ch, !.code = k, !.alive = a])
    BY <1>3 DEF PostVerify
  <2> DEFINE j == [NoJob EXCEPT !.chal = ch, !.code = k, !.alive = a]
  <2>a. a \in BOOLEAN
    BY Zenon
  <2>b. ~a => (chals[jar[b].chal] \in Ids => ~InFile(chals[jar[b].chal]))
    OBVIOUS
  <2>c. ch \in Nat /\ ch # None
    BY <1>3, <1>a DEF PostVerify
  <2> HIDE DEF a, ch
  <2>2. j \in JobType /\ j.gen = 0 /\ j.tok = None /\ j.chal = ch /\ j.alive = a
    BY <1>a, <1>b, <2>a, <2>c, KnownCodes DEF JobType
  <2>5. Arrive(r, b, "verify", j)
    BY <2>1
  <2> HIDE DEF j
  <2>6. ~j.alive => (chals[jar[b].chal] \in Ids => ~InFile(chals[jar[b].chal]))
    BY <2>b, <2>2
  <2> QED
    BY <1>b, <2>5, <2>2, <2>c, <2>6, ArriveEff DEF ch
<1>4. CASE PostRefresh(r, b)
  <2> DEFINE a == Sent(b) # None /\ InFile(sessions[Sent(b)].user)
  <2> DEFINE j == [NoJob EXCEPT !.tok = Sent(b), !.alive = a]
  <2>1. Arrive(r, b, "refresh", j)
    BY <1>4 DEF PostRefresh
  <2>a. a \in BOOLEAN
    BY Zenon
  <2>b. ~a => (Sent(b) # None => ~InFile(sessions[Sent(b)].user))
    OBVIOUS
  <2> HIDE DEF a
  <2>2. j \in JobType /\ j.gen = 0 /\ j.tok = Sent(b) /\ j.chal = None /\ j.alive = a
    BY <1>a, <1>b, <2>a DEF JobType
  <2> HIDE DEF j
  <2>3. ~j.alive => (Sent(b) # None => ~InFile(sessions[Sent(b)].user))
    BY <2>b, <2>2
  <2> QED
    BY <1>b, <2>1, <2>2, <2>3, ArriveEff
<1>5. CASE PostLogout(r, b)
  <2> DEFINE j == [NoJob EXCEPT !.tok = Sent(b)]
  <2>1. Arrive(r, b, "logout", j)
    BY <1>5 DEF PostLogout
  <2>2. j \in JobType /\ j.gen = 0 /\ j.tok = Sent(b) /\ j.chal = None /\ j.alive
    BY <1>a, <1>b DEF JobType
  <2> HIDE DEF j
  <2> QED
    BY <1>b, <2>1, <2>2, PlainArrival
<1>6. CASE HandleCreateUser(r, b)
  <2>1. PICK u \in Fresh, role \in Roles :
          Arrive(r, b, "create", [NoJob EXCEPT !.u = u, !.name = NameOf[u], !.role = role])
    BY <1>6 DEF HandleCreateUser
  <2> DEFINE n == NameOf[u]
             j == [NoJob EXCEPT !.u = u, !.name = n, !.role = role]
  <2>2. u \in Ids /\ n \in Names /\ Arrive(r, b, "create", j)
    BY <2>1 DEF Fresh, ConstantsOK
  <2> HIDE DEF n
  <2>3. j \in JobType /\ j.gen = 0 /\ j.tok = None /\ j.chal = None /\ j.alive
    BY <1>b, <2>2 DEF JobType
  <2> HIDE DEF j
  <2> QED
    BY <1>b, <2>2, <2>3, PlainArrival
<1>7. CASE HandleDeleteUser(r, b)
  <2>1. PICK u \in Ids : Arrive(r, b, "delete", [NoJob EXCEPT !.u = u])
    BY <1>7 DEF HandleDeleteUser
  <2> DEFINE j == [NoJob EXCEPT !.u = u]
  <2>2. j \in JobType /\ j.gen = 0 /\ j.tok = None /\ j.chal = None /\ j.alive
    BY <1>b DEF JobType
  <2>5. Arrive(r, b, "delete", j)
    BY <2>1
  <2> HIDE DEF j
  <2> QED
    BY <1>b, <2>5, <2>2, PlainArrival
<1>8. CASE HandleUpdateUser(r, b)
  <2>1. PICK u \in Ids, role \in Roles : Arrive(r, b, "role", [NoJob EXCEPT !.u = u, !.role = role])
    BY <1>8 DEF HandleUpdateUser
  <2> DEFINE j == [NoJob EXCEPT !.u = u, !.role = role]
  <2>2. j \in JobType /\ j.gen = 0 /\ j.tok = None /\ j.chal = None /\ j.alive
    BY <1>b DEF JobType
  <2>5. Arrive(r, b, "role", j)
    BY <2>1
  <2> HIDE DEF j
  <2> QED
    BY <1>b, <2>5, <2>2, PlainArrival
<1>9. CASE HandleChangePassword(r, b)
  <2>1. PICK u \in Ids, p \in Passwords : Arrive(r, b, "password", [NoJob EXCEPT !.u = u, !.pw = p])
    BY <1>9 DEF HandleChangePassword
  <2> DEFINE j == [NoJob EXCEPT !.u = u, !.pw = p]
  <2>2. j \in JobType /\ j.gen = 0 /\ j.tok = None /\ j.chal = None /\ j.alive
    BY <1>b DEF JobType
  <2>5. Arrive(r, b, "password", j)
    BY <2>1
  <2> HIDE DEF j
  <2> QED
    BY <1>b, <2>5, <2>2, PlainArrival
<1>10. CASE HandleEnroll(r, b)
  <2> DEFINE j == [NoJob EXCEPT !.u = Me(b)]
  <2>1. Arrive(r, b, "enroll", j)
    BY <1>10 DEF HandleEnroll
  <2>2. j \in JobType /\ j.gen = 0 /\ j.tok = None /\ j.chal = None /\ j.alive
    BY <1>a, <1>b DEF JobType
  <2> HIDE DEF j
  <2> QED
    BY <1>b, <2>1, <2>2, PlainArrival
<1>11. CASE HandleEnrollConfirm(r, b)
  <2>1. PICK k \in Known : Arrive(r, b, "confirm", [NoJob EXCEPT !.u = Me(b), !.code = k])
    BY <1>11 DEF HandleEnrollConfirm
  <2> DEFINE j == [NoJob EXCEPT !.u = Me(b), !.code = k]
  <2>2. j \in JobType /\ j.gen = 0 /\ j.tok = None /\ j.chal = None /\ j.alive
    BY <1>a, <1>b, KnownCodes DEF JobType
  <2>5. Arrive(r, b, "confirm", j)
    BY <2>1
  <2> HIDE DEF j
  <2> QED
    BY <1>b, <2>5, <2>2, PlainArrival
<1>12. CASE HandleDisable(r, b)
  <2>1. PICK u \in Ids : /\ RequireSelfOrAdmin(b, u)
                         /\ Arrive(r, b, "disable", [NoJob EXCEPT !.u = u, !.pw = users[Me(b)].pw])
    BY <1>12 DEF HandleDisable
  <2> DEFINE p == users[Me(b)].pw
             j == [NoJob EXCEPT !.u = u, !.pw = p]
  <2>2. Me(b) \in Ids
    BY <1>a, <2>1 DEF RequireSelfOrAdmin, IsAdmin
  <2>3. p \in Passwords /\ Arrive(r, b, "disable", j)
    BY <2>1, <2>2 DEF AuthInv, StoreInv, User
  <2> HIDE DEF p
  <2>4. j \in JobType /\ j.gen = 0 /\ j.tok = None /\ j.chal = None /\ j.alive
    BY <1>b, <2>3 DEF JobType
  <2> HIDE DEF j
  <2> QED
    BY <1>b, <2>3, <2>4, PlainArrival
<1> QED
  BY <1>0, <1>1, <1>2, <1>3, <1>4, <1>5, <1>6, <1>7, <1>8, <1>9, <1>10, <1>11, <1>12

(* The steps that touch nothing that the invariants below are about. *)
LEMMA StillSteps ==
  ASSUME NEW r
  PROVE  /\ Ends(r) \/ Admits(r) \/ Identifies(r) \/ Finds(r) \/ Skips(r) \/ Validates(r) \/ Rotates(r)
              \/ Inspects(r) \/ Creates(r) \/ LocksSetup(r) \/ LocksRefresh(r) => Still
         /\ \A k, l : Passes(r, k, l) \/ Confirms(r, l) => Still
<1>1. Ends(r) \/ Admits(r) \/ Identifies(r) \/ Finds(r) \/ Skips(r) \/ Validates(r) \/ Rotates(r)
        \/ Inspects(r) \/ Creates(r) \/ LocksSetup(r) \/ LocksRefresh(r) => Still
  BY DEF Ends, Admits, Identifies, Finds, Skips, Validates, Rotates, Inspects, Creates, LocksSetup, LocksRefresh
<1>2. \A k, l : Passes(r, k, l) \/ Confirms(r, l) => Still
  BY DEF Passes, Confirms
<1> QED
  BY <1>1, <1>2

-----------------------------------------------------------------------------
(* Phases, sections and counters *)

(* Every step has one of the effects. *)
LEMMA StepIsEffect ==
  ASSUME AuthInv, StateInv, FlowInv, ConstantsOK, NEW r \in Requests, Step(r)
  PROVE  StepEffect(r)
<1>1. {"lookup", "code", "rehash", "factor", "setup", "await", "disable", "unenroll"} \subseteq Labels
  BY DEF Labels, AllOps, WithUser
<1>2. /\ pc[r] = "issue" => job[r].op \in {"login", "verify", "refresh", "setup"}
      /\ job[r].no \in 0..MaxCalls
  BY PhaseFacts DEF FlowInv, OpOK, Active, JobType
<1>3. CASE LoginCheck(r) \/ Lookup(r) \/ RecordFailure(r) \/ ResetFailures(r) \/ Rehash(r) \/ Factor(r)
  BY <1>1, <1>3, LoginCheckEff, LookupEff, RecordFailureEff, ResetFailuresEff, RehashEff, FactorEff
     DEF StepEffect, StateInv
<1>4. CASE Issue(r)
  BY <1>2, <1>4, IssueEff DEF StepEffect, StateInv, Issue
<1>5. CASE VerifyCheck(r) \/ TakeChallenge(r) \/ Subject(r) \/ VerifyCode(r)
  BY <1>1, <1>5, VerifyCheckEff, TakeChallengeEff, SubjectEff, VerifyCodeEff DEF StepEffect
<1>6. CASE Refresh(r) \/ Validate(r) \/ Rotate(r) \/ Logout(r)
  BY <1>6, RefreshEff, ValidateEff, RotateEff, LogoutEff DEF StepEffect
<1>7. CASE SetupCheck(r) \/ SetupLock(r) \/ Inspect(r) \/ CreateAdmin(r) \/ Consume(r)
  BY <1>1, <1>7, SetupCheckEff, SetupLockEff, InspectEff, CreateAdminEff, ConsumeEff DEF StepEffect, StateInv
<1>8. CASE CreateUser(r) \/ DeleteUser(r) \/ UpdateUserRole(r) \/ ChangePassword(r)
  BY <1>8, AccountsEff DEF StepEffect
<1>9. CASE BeginEnrollment(r) \/ ConfirmEnrollment(r) \/ Disable(r) \/ Unenroll(r)
  BY <1>1, <1>2, <1>9, EnrolmentsEff, DisableEff DEF StepEffect
<1> QED
  BY <1>3, <1>4, <1>5, <1>6, <1>7, <1>8, <1>9 DEF Step

(* A request ends: it is idle, and no other lock is released. *)
LEMMA FlowReturn ==
  ASSUME AuthInv, FlowInv, ConstantsOK, NEW r \in Requests, Return(r), UNCHANGED calls
  PROVE  FlowInv'
<1>1. /\ pc'[r] = "idle" /\ \A q \in Requests \ {r} : pc'[q] = pc[q] /\ job'[q] = job[q]
      /\ setupMu # r => setupMu' = setupMu
      /\ \A a \in Addrs : refreshMu[a] # r => refreshMu'[a] = refreshMu[a]
  BY DEF Return, Goto, AuthInv, ReqInv
<1>2. \A q \in Requests \ {r} : Active(q)' => Active(q)
  BY <1>1 DEF Active
<1>3. ~Active(r)' /\ pc'[r] \notin SetupHeld /\ pc'[r] \notin RefreshHeld
  BY <1>1 DEF Active, SetupHeld, RefreshHeld
<1>4. \A q \in Requests : Active(q)' => OpOK(pc'[q], job'[q].op) /\ job'[q].no \in 1..calls'
  BY <1>1, <1>2, <1>3 DEF FlowInv
<1>5. \A q, p \in Requests : Active(q)' /\ Active(p)' /\ job'[q].no = job'[p].no => q = p
  BY <1>1, <1>2, <1>3 DEF FlowInv
<1>6. \A q \in Requests : job'[q].op = "setup" /\ pc'[q] \in SetupHeld => setupMu' = q
  BY <1>1, <1>3 DEF FlowInv
<1>7. ASSUME NEW q \in Requests, job'[q].op = "refresh", pc'[q] \in RefreshHeld
      PROVE  refreshMu'[AddrOf[job'[q].b]] = q
  <2>1. q # r /\ refreshMu[AddrOf[job[q].b]] = q /\ job'[q] = job[q]
    BY <1>1, <1>3, <1>7 DEF FlowInv, ExtractIP
  <2>2. AddrOf[job[q].b] \in Addrs
    <3>1. job[q].b \in Browsers
      BY <1>1, <1>7, <2>1 DEF AuthInv, ReqInv, RefreshHeld
    <3> QED
      BY <3>1 DEF ConstantsOK
  <2> QED
    BY <1>1, <2>1, <2>2
<1> QED
  BY <1>4, <1>5, <1>6, <1>7 DEF FlowInv, ExtractIP

(* A request goes on: to a phase of its handler and of its section. *)
LEMMA FlowMoves ==
  ASSUME AuthInv, FlowInv, ConstantsOK, NEW r \in Requests, NEW k, NEW l, Moves(r, k, l), k # "idle",
         UNCHANGED calls, OpOK(k, job[r].op) => OpOK(l, job[r].op),
         \A q \in Requests \ {r} : /\ setupMu = q => setupMu' = q
                                   /\ \A a \in Addrs : refreshMu[a] = q => refreshMu'[a] = q,
         OpOK(k, job[r].op) /\ job[r].op = "setup" /\ l \in SetupHeld => setupMu' = r,
         OpOK(k, job[r].op) /\ job[r].op = "refresh" /\ l \in RefreshHeld => refreshMu'[ExtractIP(r)] = r
  PROVE  FlowInv'
<1>1. /\ pc[r] = k /\ pc'[r] = l /\ \A q \in Requests \ {r} : pc'[q] = pc[q] /\ job'[q] = job[q]
      /\ job'[r].op = job[r].op /\ job'[r].no = job[r].no /\ job'[r].b = job[r].b
  BY DEF Moves, Goto, Kept, AuthInv, ReqInv
<1>2. Active(r) /\ \A q \in Requests : Active(q)' => Active(q)
  BY <1>1 DEF Active
<1>3. OpOK(k, job[r].op) /\ OpOK(l, job[r].op)
  BY <1>1, <1>2 DEF FlowInv
<1>4. \A q \in Requests : Active(q)' => OpOK(pc'[q], job'[q].op) /\ job'[q].no \in 1..calls'
  BY <1>1, <1>2, <1>3 DEF FlowInv
<1>5. \A q, p \in Requests : Active(q)' /\ Active(p)' /\ job'[q].no = job'[p].no => q = p
  BY <1>1, <1>2 DEF FlowInv
<1>6. \A q \in Requests : job'[q].op = "setup" /\ pc'[q] \in SetupHeld => setupMu' = q
  BY <1>1, <1>3 DEF FlowInv
<1>7. ASSUME NEW q \in Requests, job'[q].op = "refresh", pc'[q] \in RefreshHeld
      PROVE  refreshMu'[AddrOf[job'[q].b]] = q
  <2>1. CASE q = r
    BY <1>1, <1>3, <1>7, <2>1 DEF ExtractIP
  <2>2. CASE q # r
    <3>1. refreshMu[AddrOf[job[q].b]] = q /\ job'[q] = job[q]
      BY <1>1, <1>7, <2>2 DEF FlowInv, ExtractIP
    <3>2. job[q].b \in Browsers
      BY <1>1, <1>7, <2>2 DEF AuthInv, ReqInv, RefreshHeld
    <3>3. AddrOf[job[q].b] \in Addrs
      BY <3>2 DEF ConstantsOK
    <3> QED
      BY <2>2, <3>1, <3>3
  <2> QED
    BY <2>1, <2>2
<1> QED
  BY <1>4, <1>5, <1>6, <1>7 DEF FlowInv, ExtractIP

(* A request goes on and the locks stay. *)
LEMMA FlowOn ==
  ASSUME AuthInv, FlowInv, ConstantsOK, NEW r \in Requests, NEW k, NEW l, Moves(r, k, l), k # "idle",
         UNCHANGED <<calls, locks>>, OpOK(k, job[r].op) => OpOK(l, job[r].op),
         OpOK(k, job[r].op) /\ job[r].op = "setup" /\ l \in SetupHeld => k \in SetupHeld,
         OpOK(k, job[r].op) /\ job[r].op = "refresh" /\ l \in RefreshHeld => k \in RefreshHeld
  PROVE  FlowInv'
<1>1. pc[r] = k
  BY DEF Moves
<1>2. /\ OpOK(k, job[r].op) /\ job[r].op = "setup" /\ l \in SetupHeld => setupMu' = r
      /\ OpOK(k, job[r].op) /\ job[r].op = "refresh" /\ l \in RefreshHeld => refreshMu'[ExtractIP(r)] = r
  BY <1>1 DEF FlowInv, locks
<1>3. \A q \in Requests \ {r} : /\ setupMu = q => setupMu' = q
                                /\ \A a \in Addrs : refreshMu[a] = q => refreshMu'[a] = q
  BY DEF locks
<1> QED
  BY <1>2, <1>3, FlowMoves

(* The steps of the requests. *)
LEMMA StepFlow ==
  ASSUME AuthInv, FlowInv, ConstantsOK, NEW r \in Requests, StepEffect(r)
  PROVE  FlowInv'
<1> USE DEF OpOK, AllOps, SetupHeld, RefreshHeld
<1>1. CASE Ends(r) \/ Counts(r) \/ Challenges(r) \/ Consumes(r)
  BY <1>1, FlowReturn DEF Ends, Counts, Challenges, Consumes, Still, Untouched, Frame
<1>2. ASSUME NEW u, NEW row, Enrols(r, u, row) PROVE FlowInv'
  BY <1>2, FlowReturn DEF Enrols, Untouched, Frame
<1>3. ASSUME NEW k, NEW l, Passes(r, k, l) PROVE FlowInv'
  BY <1>3, FlowOn DEF Passes, Still, Frame
<1>4. CASE Admits(r)
  BY <1>4, FlowOn DEF Admits, Still, Frame
<1>5. CASE Identifies(r)
  BY <1>5, FlowOn DEF Identifies, Still, Frame
<1>6. CASE Finds(r)
  <2>1. Moves(r, "lookup", "reset") /\ UNCHANGED <<calls, locks>>
    BY <1>6 DEF Finds, Still, Frame
  <2> QED
    BY <2>1, FlowOn
<1>7. ASSUME NEW k, Fails(r, k) PROVE FlowInv'
  BY <1>7, FlowOn DEF Fails, Untouched, Frame
<1>8. ASSUME NEW l, Clears(r, l) PROVE FlowInv'
  <2>1. /\ Moves(r, "reset", l) /\ UNCHANGED <<calls, locks>> /\ l \in {"issue", "rehash", "factor"}
        /\ (l = "issue" <=> job[r].op = "verify")
    BY <1>8 DEF Clears, Untouched, Frame
  <2> QED
    BY <2>1, FlowOn
<1>9. ASSUME NEW l, Confirms(r, l) PROVE FlowInv'
  <2>1. /\ Moves(r, "subject", l) /\ UNCHANGED <<calls, locks>> /\ l \in {"code", "issue"}
        /\ (l = "code" <=> job[r].op = "verify")
    BY <1>9 DEF Confirms, Still, Frame
  <2> QED
    BY <2>1, FlowOn
<1>10. CASE Skips(r)
  BY <1>10, FlowOn DEF Skips, Still, Frame
<1>11. CASE Takes(r)
  BY <1>11, FlowOn DEF Takes, Frame
<1>12. CASE Accepts(r)
  <2>1. Moves(r, "code", "reset") /\ UNCHANGED <<calls, locks>>
    BY <1>12 DEF Accepts, Untouched, Frame
  <2> QED
    BY <2>1, FlowOn
<1>13. CASE Validates(r)
  BY <1>13, FlowOn DEF Validates, Still, Frame
<1>14. CASE Rotates(r)
  BY <1>14, FlowOn DEF Rotates, Still, Frame
<1>15. CASE Inspects(r)
  BY <1>15, FlowOn DEF Inspects, Still, Frame
<1>16. CASE Creates(r)
  BY <1>16, FlowOn DEF Creates, Still, Frame
<1>17. CASE Issues(r)
  <2>1. CASE job[r].op = "setup"
    <3>1. Moves(r, "issue", "consume") /\ UNCHANGED <<calls, locks>>
      BY <1>17, <2>1 DEF Issues
    <3> QED
      BY <2>1, <3>1, FlowOn
  <2>2. CASE job[r].op # "setup"
    <3>1. Return(r) /\ UNCHANGED calls
      BY <1>17, <2>2 DEF Issues
    <3> QED
      BY <3>1, FlowReturn
  <2> QED
    BY <2>1, <2>2
<1>18. CASE LocksSetup(r)
  <2>1. /\ Moves(r, "await", "inspect") /\ UNCHANGED <<calls, refreshMu>>
        /\ setupMu = Free /\ setupMu' = r
    BY <1>18 DEF LocksSetup, Still, Frame
  <2>2. \A q \in Requests \ {r} : /\ setupMu = q => setupMu' = q
                                  /\ \A a \in Addrs : refreshMu[a] = q => refreshMu'[a] = q
    BY <2>1 DEF ConstantsOK
  <2> QED
    BY <2>1, <2>2, FlowMoves
<1>19. CASE LocksRefresh(r)
  <2> DEFINE x == ExtractIP(r)
  <2>1. /\ Moves(r, "refresh", "validate") /\ UNCHANGED <<calls, setupMu>> /\ pc[r] = "refresh"
        /\ refreshMu[x] = Free /\ refreshMu' = [refreshMu EXCEPT ![x] = r]
    BY <1>19 DEF LocksRefresh, Still, Frame, Moves
  <2>2. x \in Addrs
    BY <2>1, PhaseFacts DEF ExtractIP, ConstantsOK
  <2> HIDE DEF x
  <2>3. \A q \in Requests \ {r} : /\ setupMu = q => setupMu' = q
                                  /\ \A a \in Addrs : refreshMu[a] = q => refreshMu'[a] = q
    BY <2>1, <2>2 DEF ConstantsOK, AuthInv, ReqInv
  <2>4. refreshMu'[x] = r
    BY <2>1, <2>2 DEF AuthInv, ReqInv
  <2> QED
    BY <2>1, <2>3, <2>4, FlowMoves DEF x
<1> HIDE DEF OpOK, AllOps, SetupHeld, RefreshHeld
<1> QED
  BY <1>1, <1>2, <1>3, <1>4, <1>5, <1>6, <1>7, <1>8, <1>9, <1>10, <1>11, <1>12, <1>13, <1>14, <1>15,
     <1>16, <1>17, <1>18, <1>19 DEF StepEffect

(* A request arrives with the next number. *)
LEMMA ArrivesFlow ==
  ASSUME AuthInv, FlowInv, ConstantsOK, NEW r \in Requests, NEW b, NEW op \in AllOps, Arrives(r, b, op)
  PROVE  FlowInv'
<1>1. /\ pc[r] = "idle" /\ pc'[r] = op /\ calls' = calls + 1 /\ calls \in Nat
      /\ \A q \in Requests \ {r} : pc'[q] = pc[q] /\ job'[q] = job[q]
      /\ job'[r].op = op /\ job'[r].no = calls + 1 /\ UNCHANGED <<setupMu, refreshMu>>
  BY DEF Arrives, Goto, AuthInv, ReqInv, StoreInv, locks
<1>2. op \notin SetupHeld /\ op \notin RefreshHeld /\ OpOK(op, op)
  BY DEF AllOps, SetupHeld, RefreshHeld, OpOK
<1>3. \A q \in Requests \ {r} : Active(q)' <=> Active(q)
  BY <1>1 DEF Active
<1>4. \A q \in Requests : Active(q)' => OpOK(pc'[q], job'[q].op) /\ job'[q].no \in 1..calls'
  BY <1>1, <1>2, <1>3 DEF FlowInv
<1>5. \A q, p \in Requests : Active(q)' /\ Active(p)' /\ job'[q].no = job'[p].no => q = p
  <2>1. \A q \in Requests \ {r} : Active(q)' => job'[q].no # job'[r].no
    BY <1>1, <1>3 DEF FlowInv
  <2> QED
    BY <1>1, <1>3, <2>1 DEF FlowInv
<1>6. \A q \in Requests : job'[q].op = "setup" /\ pc'[q] \in SetupHeld => setupMu' = q
  BY <1>1, <1>2 DEF FlowInv
<1>7. \A q \in Requests : job'[q].op = "refresh" /\ pc'[q] \in RefreshHeld => refreshMu'[ExtractIP(q)'] = q
  BY <1>1, <1>2 DEF FlowInv, ExtractIP
<1> QED
  BY <1>4, <1>5, <1>6, <1>7 DEF FlowInv

(* Every step of the system. *)
LEMMA NextFlow ==
  ASSUME AuthInv, StateInv, FlowInv, ConstantsOK, [Next]_vars
  PROVE  FlowInv'
<1>1. CASE UNCHANGED vars
  BY <1>1 DEF vars, locks, bounds, FlowInv, Active, ExtractIP
<1>2. ASSUME NEW r \in Requests, Step(r) PROVE FlowInv'
  BY <1>2, StepIsEffect, StepFlow
<1>3. ASSUME NEW r \in Requests, Call(r) PROVE FlowInv'
  BY <1>3, CallEff, ArrivesFlow
<1>4. ASSUME NEW d \in {"minutes", "window", "week"}, Elapse(d) PROVE FlowInv'
  BY <1>4, ElapseEff DEF Elapses, Frame, locks, FlowInv, Active, ExtractIP
<1>5. ASSUME NEW p \in BOOLEAN, Restart(p) PROVE FlowInv'
  BY <1>5 DEF Restart, FlowInv, Active, SetupHeld, RefreshHeld
<1> QED
  BY <1>1, <1>2, <1>3, <1>4, <1>5 DEF Next

(* A step that counts nothing. *)
LEMMA StateFrame ==
  ASSUME StateInv, UNCHANGED <<file, boots, resets, crashes, wrong, issued>>, LimitKept
  PROVE  StateInv'
BY DEF StateInv, LimitKept

(* The count of a name is set. *)
LEMMA WrongWritten ==
  ASSUME wrong \in [Names -> Nat], NEW n,
         wrong' = [wrong EXCEPT ![n] = @ + 1] \/ wrong' = [wrong EXCEPT ![n] = 0]
  PROVE  wrong' \in [Names -> Nat]
<1>1. CASE n \in Names
  <2>1. wrong[n] + 1 \in Nat
    BY <1>1
  <2> QED
    BY <1>1, <2>1
<1>2. CASE n \notin Names
  BY <1>2
<1> QED
  BY <1>1, <1>2

(* The steps of the requests. *)
LEMMA StepState ==
  ASSUME AuthInv, StateInv, ConstantsOK, NEW r \in Requests, StepEffect(r)
  PROVE  StateInv'
<1>1. CASE Still
  BY <1>1, StateFrame DEF Still, Frame
<1>2. ASSUME NEW u, NEW row, Enrols(r, u, row) PROVE StateInv'
  BY <1>2, StateFrame DEF Enrols, Untouched, Frame, LimitKept
<1>3. ASSUME NEW k, Fails(r, k) PROVE StateInv'
  <2>1. /\ UNCHANGED <<file, boots, resets, crashes, issued, attempts>>
        /\ wrong' = [wrong EXCEPT ![job[r].name] = @ + 1]
    BY <1>3 DEF Fails, Untouched, Frame
  <2>2. wrong' \in [Names -> Nat]
    BY <2>1, WrongWritten DEF StateInv
  <2> QED
    BY <2>1, <2>2 DEF StateInv
<1>4. CASE Counts(r)
  <2>1. /\ UNCHANGED <<file, boots, resets, crashes, issued, wrong>>
        /\ \A n \in Names : attempts'[<<"auth-user", n>>] =
             attempts[<<"auth-user", n>>] + (IF job[r].name = n THEN 1 ELSE 0)
    BY <1>4 DEF Counts, Untouched, Frame
  <2>2. ASSUME NEW n \in Names PROVE attempts'[<<"auth-user", n>>] \in Nat
    <3> DEFINE a == attempts[<<"auth-user", n>>]
    <3>1. a \in Nat /\ (attempts'[<<"auth-user", n>>] = a + 1 \/ attempts'[<<"auth-user", n>>] = a + 0)
      BY <2>1 DEF StateInv
    <3> HIDE DEF a
    <3> QED
      BY <3>1
  <2> QED
    BY <2>1, <2>2 DEF StateInv
<1>5. ASSUME NEW l, Clears(r, l) PROVE StateInv'
  <2>1. /\ UNCHANGED <<file, boots, resets, crashes, issued>>
        /\ \A n \in Names : attempts'[<<"auth-user", n>>] =
             IF job[r].name = n THEN 0 ELSE attempts[<<"auth-user", n>>]
        /\ wrong' = [wrong EXCEPT ![job[r].name] = 0]
    BY <1>5 DEF Clears, Untouched, Frame
  <2>2. wrong' \in [Names -> Nat]
    BY <2>1, WrongWritten DEF StateInv
  <2>3. ASSUME NEW n \in Names PROVE attempts'[<<"auth-user", n>>] \in Nat
    BY <2>1 DEF StateInv
  <2> QED
    BY <2>1, <2>2, <2>3 DEF StateInv
<1>6. CASE Challenges(r) \/ Takes(r)
  BY <1>6, StateFrame DEF Challenges, Takes, Frame, LimitKept
<1>7. CASE Accepts(r)
  <2>1. UNCHANGED <<file, boots, resets, crashes, wrong, issued, attempts>>
    BY <1>7 DEF Accepts, Untouched, Frame
  <2> QED
    BY <2>1, StateFrame DEF LimitKept
<1>8. CASE Consumes(r)
  <2>1. /\ UNCHANGED <<crashes, wrong, issued>> /\ LimitKept /\ file' \in {file, FALSE}
        /\ boots' \in {boots, boots + 1} /\ resets' \in {resets, resets + 1}
    BY <1>8 DEF Consumes
  <2>2. boots \in Nat /\ resets \in Nat /\ file \in BOOLEAN
    BY DEF StateInv
  <2>3. boots' \in Nat /\ resets' \in Nat
    BY <2>1, <2>2
  <2>4. file' \in BOOLEAN
    BY <2>1, <2>2, Zenon
  <2> QED
    BY <2>1, <2>3, <2>4 DEF StateInv, LimitKept
<1>9. CASE Issues(r)
  <2>1. UNCHANGED <<file, boots, resets, crashes, wrong>> /\ LimitKept
    BY <1>9 DEF Issues
  <2>2. issued' \in [Tokens -> IssueType]
    <3> DEFINE t == minted + 1
    <3>1. issued'[t] \in IssueType /\ \A s \in Tokens \ {t} : issued'[s] = issued[s]
      BY <1>9 DEF Issues
    <3>2. issued' = [issued EXCEPT ![t] = issued'[t]]
      BY <1>9 DEF Issues
    <3> HIDE DEF t
    <3> QED
      BY <3>1, <3>2 DEF StateInv
  <2> QED
    BY <2>1, <2>2 DEF StateInv, LimitKept
<1> QED
  BY <1>1, <1>2, <1>3, <1>4, <1>5, <1>6, <1>7, <1>8, <1>9, StillSteps DEF StepEffect

(* Every step of the system. *)
LEMMA NextState ==
  ASSUME AuthInv, StateInv, FlowInv, ConstantsOK, [Next]_vars
  PROVE  StateInv'
<1>1. CASE UNCHANGED vars
  BY <1>1, StateFrame DEF vars, stores, bounds, ghosts, LimitKept
<1>2. ASSUME NEW r \in Requests, Step(r) PROVE StateInv'
  BY <1>2, StepIsEffect, StepState
<1>3. ASSUME NEW r \in Requests, Call(r) PROVE StateInv'
  <2>1. PICK b \in Browsers, op \in AllOps : Arrives(r, b, op)
    BY <1>3, CallEff
  <2> QED
    BY <2>1, StateFrame DEF Arrives, stores, ghosts, LimitKept
<1>4. ASSUME Forgets, UNCHANGED <<boots, resets, issued>>, file' \in BOOLEAN, crashes' \in Nat
      PROVE  StateInv'
  <2>1. CASE UNCHANGED <<attempts, wrong>>
    BY <1>4, <2>1 DEF StateInv
  <2>2. CASE attempts' = [k \in Keys |-> 0] /\ wrong' = [n \in Names |-> 0]
    <3>1. \A n \in Names : attempts'[<<"auth-user", n>>] = 0
      BY <2>2 DEF Keys
    <3> QED
      BY <1>4, <2>2, <3>1 DEF StateInv
  <2> QED
    BY <1>4, <2>1, <2>2 DEF Forgets
<1>5. ASSUME NEW d \in {"minutes", "window", "week"}, Elapse(d) PROVE StateInv'
  BY <1>4, <1>5, ElapseEff DEF Elapses, Frame, StateInv
<1>6. ASSUME NEW p \in BOOLEAN, Restart(p) PROVE StateInv'
  <2>1. Restarts
    BY <1>6, RestartEff
  <2>2. file' \in BOOLEAN
    <3>1. file' = EnsureTokenFile
      BY <2>1 DEF Restarts
    <3>2. EnsureTokenFile \in BOOLEAN
      BY Zenon DEF EnsureTokenFile
    <3> QED
      BY <3>1, <3>2
  <2> QED
    BY <1>4, <2>1, <2>2 DEF Restarts, StateInv
<1> QED
  BY <1>1, <1>2, <1>3, <1>5, <1>6 DEF Next

(* The first states. *)
LEMMA InitFlow == ASSUME ConstantsOK, Init PROVE FlowInv /\ StateInv
<1>1. FlowInv
  BY DEF Init, FlowInv, Active, SetupHeld, RefreshHeld
<1>2. NoIssue \in IssueType
  BY DEF NoIssue, IssueType, None, NoCode, Codes, Gens, ConstantsOK
<1>3. \A n \in Names : attempts[<<"auth-user", n>>] = 0
  BY DEF Init, Keys
<1>4. file = TRUE /\ boots = 0 /\ resets = 0 /\ crashes = 0
  BY DEF Init
<1>5. wrong \in [Names -> Nat] /\ issued \in [Tokens -> IssueType]
  BY <1>2 DEF Init
<1> QED
  BY <1>1, <1>3, <1>4, <1>5 DEF StateInv

(* The invariants that everything below rests on. *)
BaseInv == AuthInv /\ FlowInv /\ StateInv

(* They are inductive. *)
LEMMA BaseInvariant == Spec => []BaseInv
<1>1. Init => BaseInv
  BY InitInv, InitFlow, ConstantsOK DEF BaseInv
<1>2. BaseInv /\ [Next]_vars => BaseInv'
  BY NextInv, NextFlow, NextState, ConstantsOK DEF BaseInv
<1> QED
  BY <1>1, <1>2, PTL DEF Spec

(* What a step of the system may be. *)
NextEffect ==
  \/ UNCHANGED vars
  \/ \E r \in Requests : StepEffect(r) \/ \E b \in Browsers, op \in AllOps : Arrives(r, b, op)
  \/ Elapses \/ Restarts

(* And every step is one of these. *)
LEMMA NextIsEffect == ASSUME BaseInv, ConstantsOK, [Next]_vars PROVE NextEffect
<1>1. ASSUME NEW r \in Requests, Call(r) \/ Step(r) PROVE NextEffect
  BY <1>1, StepIsEffect, CallEff DEF NextEffect, BaseInv
<1> QED
  BY <1>1, ElapseEff, RestartEff DEF Next, NextEffect, BaseInv

-----------------------------------------------------------------------------
(* One first administrator, and one recovery for the token of the file *)

(* The first administrator and the recovery: who is past the inspection    *)
(* with the token still finds it in the file, who is past the bootstrap    *)
(* was the first.                                                          *)
SetupOK(l, j) ==
  j.op = "setup" =>
    /\ l \in {"admin", "issue", "consume"} /\ j.header => file
    /\ l \in {"issue", "consume"} => Configured
    /\ l \in {"issue", "consume"} /\ ~j.header => boots = 0
SetupInv ==
  /\ boots <= 1 /\ (boots # 0 => Configured)
  /\ resets <= 1 /\ (resets # 0 => Configured /\ ~file)
  /\ \A r \in Requests : SetupOK(pc[r], job[r])

(* A step of one request that counts no setup. *)
LEMMA SetupFrame ==
  ASSUME SetupInv, NEW r \in Requests, UNCHANGED <<file, boots, resets>>, Configured => Configured',
         \A q \in Requests \ {r} : pc'[q] = pc[q] /\ job'[q] = job[q], SetupOK(pc[r], job[r])'
  PROVE  SetupInv'
<1>1. ASSUME NEW q \in Requests PROVE SetupOK(pc[q], job[q])'
  <2>1. CASE q = r
    BY <2>1
  <2>2. CASE q # r
    BY <2>2 DEF SetupInv, SetupOK
  <2> QED
    BY <2>1, <2>2
<1> QED
  BY <1>1 DEF SetupInv

(* The user file is configured for good. *)
LEMMA ConfiguredStays ==
  ASSUME UsersGrow \/ UNCHANGED users
  PROVE  Configured => Configured'
BY DEF UsersGrow, Seen, Configured

(* A request that ends or goes on: the others stay. *)
LEMMA OthersStay ==
  ASSUME AuthInv, NEW r \in Requests, NEW k, NEW l, Return(r) \/ Moves(r, k, l)
  PROVE  /\ \A q \in Requests \ {r} : pc'[q] = pc[q] /\ job'[q] = job[q]
         /\ Return(r) => pc'[r] = "idle" /\ job'[r] = NoJob
         /\ Moves(r, k, l) => pc[r] = k /\ pc'[r] = l
BY DEF Return, Moves, Goto, Kept, AuthInv, ReqInv

(* A request of the setup is alone in its section. *)
LEMMA SetupAlone ==
  ASSUME BaseInv, NEW q \in Requests, NEW r \in Requests, q # r,
         job[r].op = "setup", pc[r] \in SetupHeld, job[q].op = "setup"
  PROVE  pc[q] \notin SetupHeld
BY DEF BaseInv, FlowInv

(* The steps of the requests. *)
LEMMA StepSetup ==
  ASSUME BaseInv, SetupInv, "consume" \notin Faults, NEW r \in Requests, StepEffect(r)
  PROVE  SetupInv'
<1>0. AuthInv /\ FlowInv
  BY DEF BaseInv
<1>1. ASSUME Return(r), UNCHANGED <<file, boots, resets>>, Configured => Configured' PROVE SetupInv'
  <2>1. \A q \in Requests \ {r} : pc'[q] = pc[q] /\ job'[q] = job[q]
    BY <1>0, <1>1, OthersStay
  <2>2. pc'[r] = "idle"
    BY <1>0, <1>1, OthersStay
  <2>3. SetupOK(pc[r], job[r])'
    BY <2>2 DEF SetupOK
  <2> QED
    BY <1>1, <2>1, <2>3, SetupFrame
<1>2. ASSUME NEW k, NEW l, Moves(r, k, l), k # "idle", UNCHANGED <<file, boots, resets>>,
             Configured => Configured',
             OpOK(k, job[r].op) /\ OpOK(l, job[r].op) /\ job[r].op = "setup" =>
               l \notin {"admin", "issue", "consume"}
      PROVE  SetupInv'
  <2>1. (\A q \in Requests \ {r} : pc'[q] = pc[q] /\ job'[q] = job[q]) /\ pc[r] = k /\ pc'[r] = l
    BY <1>0, <1>2, OthersStay
  <2>2. job'[r].op = job[r].op
    BY <1>2 DEF Moves, Kept
  <2>3. OpOK(k, job[r].op)
    BY <1>0, <1>2, <2>1 DEF FlowInv, Active
  <2>4. FlowInv'
    BY <1>0, StepFlow, ConstantsOK
  <2>5. l # "idle" => OpOK(l, job[r].op)
    BY <2>1, <2>2, <2>4 DEF FlowInv, Active
  <2>6. SetupOK(pc[r], job[r])'
    BY <1>2, <2>1, <2>2, <2>3, <2>5 DEF SetupOK
  <2> QED
    BY <1>2, <2>1, <2>6, SetupFrame
<1> USE DEF OpOK, AllOps
<1>3. CASE Ends(r) \/ Counts(r) \/ Challenges(r)
  BY <1>1, <1>3, ConfiguredStays DEF Ends, Counts, Challenges, Still, Untouched, Frame
<1>4. ASSUME NEW u, NEW row, Enrols(r, u, row) PROVE SetupInv'
  BY <1>1, <1>4, ConfiguredStays DEF Enrols, Untouched, Frame
<1>5. ASSUME NEW k, NEW l, Passes(r, k, l) PROVE SetupInv'
  BY <1>2, <1>5, ConfiguredStays DEF Passes, Still, Frame
<1>6. CASE \/ Admits(r) \/ Identifies(r) \/ Skips(r) \/ Validates(r) \/ Rotates(r)
           \/ LocksSetup(r) \/ LocksRefresh(r)
  BY <1>2, <1>6, ConfiguredStays
     DEF Admits, Identifies, Skips, Validates, Rotates, LocksSetup, LocksRefresh, Still, Frame
<1>7. CASE Finds(r)
  <2>1. Moves(r, "lookup", "reset") /\ Still
    BY <1>7 DEF Finds
  <2> QED
    BY <1>2, <2>1, ConfiguredStays DEF Still, Frame
<1>8. ASSUME NEW k, Fails(r, k) PROVE SetupInv'
  BY <1>2, <1>8, ConfiguredStays DEF Fails, Untouched, Frame
<1>9. ASSUME NEW l, Clears(r, l) PROVE SetupInv'
  <2>1. Moves(r, "reset", l) /\ UNCHANGED <<file, boots, resets, users>>
    BY <1>9 DEF Clears, Untouched, Frame
  <2> QED
    BY <1>2, <2>1, ConfiguredStays
<1>10. ASSUME NEW l, Confirms(r, l) PROVE SetupInv'
  <2>1. Moves(r, "subject", l) /\ UNCHANGED <<file, boots, resets>> /\ UsersGrow
    BY <1>10 DEF Confirms, Still, Frame
  <2> QED
    BY <1>2, <2>1, ConfiguredStays
<1>11. CASE Takes(r)
  BY <1>2, <1>11, ConfiguredStays DEF Takes, Frame
<1>12. CASE Accepts(r)
  <2>1. Moves(r, "code", "reset") /\ UNCHANGED <<file, boots, resets, users>>
    BY <1>12 DEF Accepts, Untouched, Frame
  <2> QED
    BY <1>2, <2>1, ConfiguredStays
<1> HIDE DEF OpOK, AllOps
<1>13. CASE Inspects(r)
  <2>1. /\ Moves(r, "inspect", "admin") /\ UNCHANGED <<file, boots, resets>> /\ UsersGrow
        /\ job'[r].header => file
    BY <1>13 DEF Inspects, Still, Frame
  <2>2. (\A q \in Requests \ {r} : pc'[q] = pc[q] /\ job'[q] = job[q]) /\ pc'[r] = "admin"
    BY <1>0, <2>1, OthersStay
  <2>3. SetupOK(pc[r], job[r])'
    BY <2>1, <2>2 DEF SetupOK
  <2> QED
    BY <2>1, <2>2, <2>3, SetupFrame, ConfiguredStays
<1>14. CASE Creates(r)
  <2>1. /\ Moves(r, "admin", "issue") /\ UNCHANGED <<file, boots, resets>> /\ UsersGrow
        /\ Seen(job[r].u)' /\ (~job[r].header => \A v \in Ids : ~InFile(v))
        /\ job'[r].header = job[r].header /\ job'[r].op = job[r].op /\ job'[r].u = job[r].u
    BY <1>14 DEF Creates, Still, Frame, Moves, Kept, Whole
  <2>2. (\A q \in Requests \ {r} : pc'[q] = pc[q] /\ job'[q] = job[q]) /\ pc'[r] = "issue" /\ pc[r] = "admin"
    BY <1>0, <2>1, OthersStay
  <2>3. job[r].u \in Ids
    BY <1>0, <2>2, PhaseFacts DEF WithUser
  <2>4. Configured'
    BY <2>1, <2>3 DEF Configured, Seen
  <2>5. ~job[r].header => boots = 0
    <3>1. Admins # {} => \E v \in Ids : InFile(v)
      BY DEF Admins, InFile, Roles
    <3>2. Configured => Admins # {}
      BY <1>0 DEF AuthInv, StoreInv
    <3> QED
      BY <2>1, <3>1, <3>2 DEF SetupInv
  <2>6. SetupOK(pc[r], job[r])'
    BY <2>1, <2>2, <2>4, <2>5 DEF SetupInv, SetupOK
  <2> QED
    BY <2>1, <2>2, <2>6, SetupFrame, ConfiguredStays
<1>15. CASE Issues(r)
  <2>1. /\ UNCHANGED <<file, boots, resets, users>> /\ pc[r] = "issue"
        /\ IF job[r].op = "setup" THEN Moves(r, "issue", "consume") /\ Whole(r) ELSE Return(r)
    BY <1>15 DEF Issues
  <2>2. CASE job[r].op # "setup"
    BY <1>1, <2>1, <2>2, ConfiguredStays
  <2>3. CASE job[r].op = "setup"
    <3>1. (\A q \in Requests \ {r} : pc'[q] = pc[q] /\ job'[q] = job[q]) /\ pc'[r] = "consume"
      BY <1>0, <2>1, <2>3, OthersStay
    <3>2. job'[r].header = job[r].header /\ job'[r].op = job[r].op
      BY <2>1, <2>3 DEF Moves, Kept, Whole
    <3>3. SetupOK(pc[r], job[r])'
      BY <2>1, <2>3, <3>1, <3>2, ConfiguredStays DEF SetupInv, SetupOK
    <3> QED
      BY <2>1, <3>1, <3>3, SetupFrame, ConfiguredStays
  <2> QED
    BY <2>2, <2>3
<1>16. CASE Consumes(r)
  <2>1. /\ pc[r] = "consume" /\ Return(r) /\ UNCHANGED users
        /\ IF job[r].header THEN file' = FALSE /\ resets' = resets + 1 /\ UNCHANGED boots
                            ELSE boots' = boots + 1 /\ UNCHANGED <<file, resets>>
    BY <1>16 DEF Consumes
  <2>2. (\A q \in Requests \ {r} : pc'[q] = pc[q] /\ job'[q] = job[q]) /\ pc'[r] = "idle"
    BY <1>0, <2>1, OthersStay
  <2>3. job[r].op = "setup"
    BY <1>0, <2>1 DEF FlowInv, Active, OpOK
  <2>4. ASSUME NEW q \in Requests PROVE SetupOK(pc[q], job[q])'
    <3>1. CASE q = r
      BY <2>2, <3>1 DEF SetupOK
    <3>2. CASE q # r
      BY <2>1, <2>2, <2>3, <3>2, SetupAlone DEF SetupOK, SetupHeld
    <3> QED
      BY <3>1, <3>2
  <2>5. Configured /\ (job[r].header => file) /\ (~job[r].header => boots = 0)
    BY <2>1, <2>3 DEF SetupInv, SetupOK
  <2>6. Configured'
    BY <2>1, <2>5, ConfiguredStays
  <2>7. boots \in Nat /\ resets \in Nat /\ (file => resets = 0) /\ boots <= 1 /\ resets <= 1
    BY DEF SetupInv, BaseInv, StateInv
  <2>8. CASE job[r].header
    BY <2>1, <2>4, <2>5, <2>6, <2>7, <2>8 DEF SetupInv
  <2>9. CASE ~job[r].header
    <3>1. boots' = 1 /\ UNCHANGED <<file, resets>>
      BY <2>1, <2>5, <2>9
    <3> QED
      BY <2>4, <2>6, <3>1 DEF SetupInv
  <2> QED
    BY <2>8, <2>9
<1> QED
  BY <1>3, <1>4, <1>5, <1>6, <1>7, <1>8, <1>9, <1>10, <1>11, <1>12, <1>13, <1>14, <1>15, <1>16 DEF StepEffect

(* Every step of the system.  A crash writes no new token: there are users *)
(* once a recovery has succeeded.                                          *)
LEMMA NextSetup ==
  ASSUME BaseInv, SetupInv, "consume" \notin Faults, NextEffect
  PROVE  SetupInv'
<1>1. CASE UNCHANGED vars
  BY <1>1 DEF vars, stores, ghosts, SetupInv, SetupOK, Configured
<1>2. ASSUME NEW r \in Requests, NEW b, NEW op \in AllOps, Arrives(r, b, op) PROVE SetupInv'
  <2>1. /\ (\A q \in Requests \ {r} : pc'[q] = pc[q] /\ job'[q] = job[q]) /\ pc'[r] = op
        /\ UNCHANGED <<users, file, boots, resets>>
    BY <1>2 DEF Arrives, Goto, stores, ghosts, BaseInv, AuthInv, ReqInv
  <2>2. SetupOK(pc[r], job[r])'
    BY <2>1 DEF SetupOK, AllOps
  <2> QED
    BY <2>1, <2>2, SetupFrame, ConfiguredStays
<1>3. CASE Elapses
  BY <1>3 DEF Elapses, Frame, SetupInv, SetupOK, Configured
<1>4. CASE Restarts
  <2>1. /\ \A r \in Requests : pc'[r] = "idle"
        /\ file' = EnsureTokenFile /\ UNCHANGED <<users, boots, resets>>
    BY <1>4 DEF Restarts
  <2>2. Configured => \E v \in Ids : InFile(v)
    BY DEF BaseInv, AuthInv, StoreInv, Admins, InFile, Roles
  <2>3. Configured /\ ~file => ~file'
    BY <2>1, <2>2 DEF EnsureTokenFile
  <2>4. UNCHANGED Configured
    BY <2>1 DEF Configured
  <2>5. \A r \in Requests : SetupOK(pc[r], job[r])'
    BY <2>1 DEF SetupOK
  <2> QED
    BY <2>1, <2>3, <2>4, <2>5 DEF SetupInv
<1> QED
  BY <1>1, <1>2, <1>3, <1>4, StepSetup DEF NextEffect

(* One administrator is created without the token, and where the token     *)
(* file can be removed it serves one recovery, whatever requests race and  *)
(* wherever NRCC crashes: setupMu covers the inspection, the creation and  *)
(* the removal (Setup, BootstrapFirstAdmin, ConsumeToken).                 *)
THEOREM SetupOnce == ASSUME "consume" \notin Faults PROVE Spec => []SetupIsOneTime
<1>1. Init => SetupInv
  <2> SUFFICES ASSUME Init PROVE SetupInv
    OBVIOUS
  <2>1. boots = 0 /\ resets = 0 /\ \A r \in Requests : pc[r] = "idle"
    BY DEF Init
  <2>2. \A r \in Requests : SetupOK(pc[r], job[r])
    BY <2>1 DEF SetupOK
  <2> QED
    BY <2>1, <2>2 DEF SetupInv
<1>2. BaseInv /\ SetupInv /\ [Next]_vars => SetupInv'
  BY NextIsEffect, NextSetup, ConstantsOK
<1>3. BaseInv /\ SetupInv => SetupIsOneTime
  BY DEF SetupInv, SetupIsOneTime
<1> QED
  BY <1>1, <1>2, <1>3, BaseInvariant, PTL DEF Spec

(* Every step of a request ends it or takes it on. *)
LEMMA StepShape ==
  ASSUME AuthInv, NEW r \in Requests, StepEffect(r)
  PROVE  /\ calls' = calls
         /\ Return(r) \/ \E k \in Labels \ {"idle"}, l \in Labels : Moves(r, k, l)
<1>1. {"lookup", "reset", "record", "verify", "take", "subject", "code", "factor", "issue", "login", "rehash",
       "setup", "await", "inspect", "admin", "consume", "disable", "unenroll", "refresh", "validate",
       "rotate"} \subseteq Labels \ {"idle"}
  BY DEF Labels, AllOps, WithUser
<1> DEFINE Shape == /\ calls' = calls
                    /\ Return(r) \/ \E k \in Labels \ {"idle"}, l \in Labels : Moves(r, k, l)
<1>2. ASSUME NEW k, NEW l, Passes(r, k, l) PROVE Shape
  <2>1. k \in {"rehash", "setup", "disable"} /\ l \in {"factor", "await", "unenroll"}
    BY <1>2 DEF Passes
  <2>2. Moves(r, k, l) /\ calls' = calls
    BY <1>2 DEF Passes, Still, Frame
  <2> QED
    BY <1>1, <2>1, <2>2
<1>3. ASSUME NEW k, Fails(r, k) PROVE Shape
  <2>1. Moves(r, k, "record") /\ k \in {"lookup", "code"} /\ calls' = calls
    BY <1>3 DEF Fails, Untouched, Frame
  <2> QED
    BY <1>1, <2>1
<1>4. ASSUME NEW l, Clears(r, l) PROVE Shape
  <2>1. Moves(r, "reset", l) /\ l \in {"issue", "rehash", "factor"} /\ calls' = calls
    BY <1>4 DEF Clears, Untouched, Frame
  <2> QED
    BY <1>1, <2>1
<1>5. ASSUME NEW l, Confirms(r, l) PROVE Shape
  <2>1. Moves(r, "subject", l) /\ l \in {"code", "issue"} /\ calls' = calls
    BY <1>5 DEF Confirms, Still, Frame
  <2> QED
    BY <1>1, <2>1
<1>6. CASE Ends(r) \/ Counts(r) \/ Challenges(r) \/ Consumes(r)
  BY <1>6 DEF Ends, Counts, Challenges, Consumes, Still, Untouched, Frame
<1>7. ASSUME NEW u, NEW row, Enrols(r, u, row) PROVE Shape
  BY <1>7 DEF Enrols, Untouched, Frame
<1>8. CASE Finds(r) \/ Accepts(r)
  <2>1. (Moves(r, "lookup", "reset") \/ Moves(r, "code", "reset")) /\ calls' = calls
    BY <1>8 DEF Finds, Accepts, Still, Untouched, Frame
  <2> QED
    BY <1>1, <2>1
<1>9. CASE Issues(r)
  <2>1. (Moves(r, "issue", "consume") \/ Return(r)) /\ calls' = calls
    BY <1>9 DEF Issues
  <2> QED
    BY <1>1, <2>1
<1>10. CASE Admits(r) \/ Identifies(r) \/ Skips(r) \/ Takes(r) \/ Validates(r) \/ Rotates(r) \/ Inspects(r)
         \/ Creates(r) \/ LocksSetup(r) \/ LocksRefresh(r)
  <2>1. /\ calls' = calls
        /\ \/ Moves(r, "login", "lookup") \/ Moves(r, "verify", "take") \/ Moves(r, "factor", "issue")
           \/ Moves(r, "take", "subject") \/ Moves(r, "validate", "rotate") \/ Moves(r, "rotate", "subject")
           \/ Moves(r, "inspect", "admin") \/ Moves(r, "admin", "issue") \/ Moves(r, "await", "inspect")
           \/ Moves(r, "refresh", "validate")
    BY <1>10 DEF Admits, Identifies, Skips, Takes, Validates, Rotates, Inspects, Creates, LocksSetup,
       LocksRefresh, Still, Frame
  <2> QED
    BY <1>1, <2>1
<1> QED
  BY <1>2, <1>3, <1>4, <1>5, <1>6, <1>7, <1>8, <1>9, <1>10 DEF StepEffect

-----------------------------------------------------------------------------
(* Numbers that are over, and users that have been seen *)

(* Numbers of requests that are over: challenges and secrets are named by  *)
(* them, so that no request under way can make one again.                  *)
Past(c) == (c <= calls \/ c > MaxCalls) /\ \A r \in Requests : Active(r) => job[r].no # c
PastGen(g) == g <= calls + 1 /\ \A r \in Requests : Active(r) => job[r].no + 1 # g
SeenPhases == {"reset", "rehash", "factor", "issue", "code", "consume"}
PastOK(l, j) ==
  /\ l \in SeenPhases => Seen(j.u)
  /\ j.chal # None => j.chal \in Chals /\ Past(j.chal)
  /\ j.gen # 0 => PastGen(j.gen)
PastInv ==
  /\ \A t \in Tokens : sessions[t].user \in Ids => Seen(sessions[t].user)
  /\ \A c \in Chals : chals[c] \in Ids => Seen(chals[c])
  /\ \A b \in Browsers : jar[b].chal # None => jar[b].chal \in Chals /\ Past(jar[b].chal)
  /\ \A u \in Ids : mfa[u].gen # 0 => PastGen(mfa[u].gen)
  /\ \A r \in Requests : PastOK(pc[r], job[r])

(* A number that is over stays so: a request under way has one of its own, *)
(* and a new one is larger than all.                                       *)
LEMMA PastStays ==
  ASSUME BaseInv, NextEffect, NEW c \in Nat
  PROVE  (Past(c) => Past(c)') /\ (PastGen(c) => PastGen(c)') /\ calls \in Nat /\ calls <= calls'
<1>0. calls \in Nat /\ MaxCalls \in Nat /\ AuthInv /\ FlowInv
  BY ConstantsOK DEF BaseInv, AuthInv, StoreInv, ConstantsOK
<1>1. ASSUME calls' = calls, \A q \in Requests : Active(q)' => Active(q) /\ job'[q].no = job[q].no
      PROVE  (Past(c) => Past(c)') /\ (PastGen(c) => PastGen(c)') /\ calls <= calls'
  BY <1>0, <1>1 DEF Past, PastGen
<1>2. CASE UNCHANGED vars
  BY <1>0, <1>1, <1>2 DEF vars, bounds, Active
<1>3. ASSUME NEW r \in Requests, Return(r), calls' = calls
      PROVE  (Past(c) => Past(c)') /\ (PastGen(c) => PastGen(c)') /\ calls <= calls'
  <2>1. \A q \in Requests : Active(q)' => Active(q) /\ job'[q].no = job[q].no
    BY <1>0, <1>3, OthersStay DEF Active
  <2> QED
    BY <1>1, <1>3, <2>1
<1>4. ASSUME NEW r \in Requests, NEW k, NEW l, Moves(r, k, l), k # "idle", calls' = calls
      PROVE  (Past(c) => Past(c)') /\ (PastGen(c) => PastGen(c)') /\ calls <= calls'
  <2>1. \A q \in Requests \ {r} : Active(q)' => Active(q) /\ job'[q].no = job[q].no
    BY <1>0, <1>4, OthersStay DEF Active
  <2>2. Active(r) /\ job'[r].no = job[r].no
    BY <1>4 DEF Moves, Kept, Active
  <2> QED
    BY <1>1, <1>4, <2>1, <2>2
<1>5. ASSUME NEW r \in Requests, StepEffect(r)
      PROVE  (Past(c) => Past(c)') /\ (PastGen(c) => PastGen(c)') /\ calls <= calls'
  <2>1. calls' = calls /\ (Return(r) \/ \E k \in Labels \ {"idle"}, l \in Labels : Moves(r, k, l))
    BY <1>0, <1>5, StepShape
  <2> QED
    BY <1>3, <1>4, <2>1
<1>6. ASSUME NEW r \in Requests, NEW b, NEW op \in AllOps, Arrives(r, b, op)
      PROVE  (Past(c) => Past(c)') /\ (PastGen(c) => PastGen(c)') /\ calls <= calls'
  <2>1. /\ (\A q \in Requests \ {r} : pc'[q] = pc[q] /\ job'[q] = job[q]) /\ job'[r].no = calls + 1
        /\ calls' = calls + 1 /\ calls < MaxCalls
    BY <1>0, <1>6 DEF Arrives, Goto, AuthInv, ReqInv
  <2>2. \A q \in Requests \ {r} : Active(q)' <=> Active(q)
    BY <2>1 DEF Active
  <2> QED
    BY <1>0, <2>1, <2>2 DEF Past, PastGen
<1>7. CASE Elapses
  BY <1>0, <1>1, <1>7 DEF Elapses, Frame, Active
<1>8. CASE Restarts
  BY <1>0, <1>1, <1>8 DEF Restarts, Active
<1> QED
  BY <1>0, <1>2, <1>5, <1>6, <1>7, <1>8 DEF NextEffect

(* A step of one request that names nothing that is not over. *)
LEMMA PastFrame ==
  ASSUME BaseInv, PastInv, NextEffect, UsersGrow, NEW r \in Requests,
         \A t \in Tokens : sessions'[t].user \in Ids =>
           sessions'[t].user = sessions[t].user \/ users'[sessions'[t].user].role # "absent",
         \A c \in Chals : chals'[c] \in Ids => chals'[c] = chals[c] \/ users'[chals'[c]].role # "absent",
         \A b \in Browsers : \/ jar'[b].chal \in {jar[b].chal, None}
                             \/ jar'[b].chal \in Chals /\ Past(jar[b].chal)',
         \A u \in Ids : mfa'[u].gen \in {mfa[u].gen, 0} \/ PastGen(mfa[u].gen)',
         \A q \in Requests \ {r} : pc'[q] = pc[q] /\ job'[q] = job[q],
         PastOK(pc[r], job[r])'
  PROVE  PastInv'
<1>0. /\ jar \in [Browsers -> JarType] /\ mfa \in [Ids -> RowType] /\ \A q \in Requests : job[q] \in JobType
      /\ Gens \subseteq Nat
  BY ConstantsOK DEF BaseInv, AuthInv, StoreInv, ReqInv, Gens, ConstantsOK
<1>1. \A t \in Tokens : sessions'[t].user \in Ids => Seen(sessions[t].user)'
  BY DEF PastInv, UsersGrow, Seen
<1>2. \A c \in Chals : chals'[c] \in Ids => Seen(chals[c])'
  BY DEF PastInv, UsersGrow, Seen
<1>3. ASSUME NEW b \in Browsers, jar'[b].chal # None PROVE jar'[b].chal \in Chals /\ Past(jar[b].chal)'
  <2>1. jar[b].chal \in Nat
    BY <1>0 DEF JarType
  <2>2. CASE jar'[b].chal = jar[b].chal
    <3>1. jar[b].chal \in Chals /\ Past(jar[b].chal)
      BY <1>3, <2>2 DEF PastInv
    <3> DEFINE c == jar[b].chal
    <3>2. c \in Nat /\ Past(c) /\ jar'[b].chal = c
      BY <2>1, <2>2, <3>1
    <3> HIDE DEF c
    <3>3. (c <= calls' \/ c > MaxCalls) /\ \A q \in Requests : Active(q)' => job'[q].no # c
      BY <3>2, PastStays DEF Past
    <3> QED
      BY <2>2, <3>1, <3>2, <3>3 DEF Past
  <2> QED
    BY <1>3, <2>2
<1>4. ASSUME NEW u \in Ids, mfa'[u].gen # 0 PROVE PastGen(mfa[u].gen)'
  <2>1. mfa[u].gen \in Nat
    BY <1>0 DEF RowType
  <2>2. CASE mfa'[u].gen = mfa[u].gen
    <3> DEFINE c == mfa[u].gen
    <3>2. c \in Nat /\ PastGen(c) /\ mfa'[u].gen = c
      BY <1>4, <2>1, <2>2 DEF PastInv
    <3> HIDE DEF c
    <3>3. c <= calls' + 1 /\ \A q \in Requests : Active(q)' => job'[q].no + 1 # c
      BY <3>2, PastStays DEF PastGen
    <3> QED
      BY <3>2, <3>3 DEF PastGen
  <2> QED
    BY <1>4, <2>2
<1>5. ASSUME NEW q \in Requests PROVE PastOK(pc[q], job[q])'
  <2>1. CASE q = r
    BY <2>1
  <2>2. CASE q # r
    <3>1. pc'[q] = pc[q] /\ job'[q] = job[q] /\ PastOK(pc[q], job[q])
      BY <2>2 DEF PastInv
    <3>2. job[q].chal \in Nat /\ job[q].gen \in Nat /\ (pc[q] \in SeenPhases => job[q].u \in Ids)
      BY <1>0, PhaseFacts DEF JobType, SeenPhases, WithUser, BaseInv
    <3> DEFINE c == job[q].chal
               g == job[q].gen
    <3>3. c \in Nat /\ g \in Nat /\ (c # None => c \in Chals /\ Past(c)) /\ (g # 0 => PastGen(g))
      BY <3>1, <3>2 DEF PastOK
    <3>4. job'[q].chal = c /\ job'[q].gen = g /\ job'[q].u = job[q].u
      BY <3>1
    <3> HIDE DEF c, g
    <3>5. /\ c # None => (c <= calls' \/ c > MaxCalls) /\ \A p \in Requests : Active(p)' => job'[p].no # c
          /\ g # 0 => g <= calls' + 1 /\ \A p \in Requests : Active(p)' => job'[p].no + 1 # g
      BY <3>3, PastStays DEF Past, PastGen
    <3>6. /\ c # None => c \in Chals /\ Past(job[q].chal)'
          /\ g # 0 => PastGen(job[q].gen)'
      BY <3>3, <3>4, <3>5 DEF Past, PastGen
    <3>7. pc'[q] \in SeenPhases => Seen(job[q].u)'
      BY <3>1, <3>2, <3>4 DEF PastOK, UsersGrow, Seen
    <3> QED
      BY <3>3, <3>4, <3>6, <3>7 DEF PastOK
  <2> QED
    BY <2>1, <2>2
<1> QED
  BY <1>1, <1>2, <1>3, <1>4, <1>5 DEF PastInv

(* A request that goes on. *)
LEMMA PastMoves ==
  ASSUME BaseInv, BaseInv', PastInv, NextEffect, NEW r \in Requests, NEW k, NEW l, Moves(r, k, l),
         l \in SeenPhases => users'[job'[r].u].role # "absent",
         job'[r].gen # 0 => job'[r].gen = job[r].gen \/ PastGen(job'[r].gen)
  PROVE  PastOK(pc[r], job[r])'
<1>1. /\ pc'[r] = l /\ job'[r].chal = job[r].chal /\ job[r].chal \in Nat /\ job[r].gen \in Nat
      /\ job'[r].gen \in Nat
  <2>1. pc'[r] = l /\ job'[r].chal = job[r].chal
    BY DEF Moves, Goto, Kept, BaseInv, AuthInv, ReqInv
  <2>2. job[r].chal \in Nat /\ job[r].gen \in Nat
    BY PhaseFacts, ConstantsOK DEF JobType, Gens, ConstantsOK, BaseInv
  <2>3. job'[r].gen \in Nat
    <3>2. job'[r] \in JobType
      BY DEF BaseInv, AuthInv, ReqInv
    <3> QED
      BY <3>2, ConstantsOK DEF JobType, Gens, ConstantsOK
  <2> QED
    BY <2>1, <2>2, <2>3
<1> DEFINE c == job[r].chal
           g == job'[r].gen
<1>2. c \in Nat /\ g \in Nat /\ (c # None => c \in Chals /\ Past(c)) /\ (g # 0 => PastGen(g))
  BY <1>1 DEF PastInv, PastOK
<1>3. job'[r].chal = c /\ job'[r].gen = g
  BY <1>1
<1> HIDE DEF c, g
<1>4. /\ c # None => (c <= calls' \/ c > MaxCalls) /\ \A p \in Requests : Active(p)' => job'[p].no # c
      /\ g # 0 => g <= calls' + 1 /\ \A p \in Requests : Active(p)' => job'[p].no + 1 # g
  BY <1>2, PastStays DEF Past, PastGen
<1>5. /\ c # None => c \in Chals /\ Past(job[r].chal)'
      /\ g # 0 => PastGen(job[r].gen)'
  BY <1>2, <1>3, <1>4 DEF Past, PastGen
<1> QED
  BY <1>1, <1>2, <1>3, <1>5 DEF PastOK, Seen

(* A request that ends. *)
LEMMA PastReturn ==
  ASSUME BaseInv, NEW r \in Requests, Return(r)
  PROVE  PastOK(pc[r], job[r])'
<1>1. pc'[r] = "idle" /\ job'[r] = NoJob
  BY OthersStay DEF BaseInv
<1> QED
  BY <1>1 DEF PastOK, SeenPhases, NoJob

(* The user of a request that has found one. *)
LEMMA SeenUser ==
  ASSUME BaseInv, PastInv, UsersGrow \/ UNCHANGED users, NEW r \in Requests, pc[r] \in SeenPhases
  PROVE  job[r].u \in Ids /\ users[job[r].u].role # "absent" /\ users'[job[r].u].role # "absent"
<1>1. job[r].u \in Ids
  BY PhaseFacts DEF BaseInv, SeenPhases, WithUser
<1>2. Seen(job[r].u)
  BY DEF PastInv, PastOK
<1> QED
  BY <1>1, <1>2 DEF UsersGrow, Seen

(* The number of a request that ends is over. *)
LEMMA OverNow ==
  ASSUME BaseInv, NEW r \in Requests, Active(r), Return(r), UNCHANGED calls
  PROVE  /\ job[r].no \in Chals /\ (job[r].no <= calls' \/ job[r].no > MaxCalls)
         /\ \A q \in Requests : Active(q)' => job'[q].no # job[r].no
         /\ job[r].no + 1 <= calls' + 1
         /\ \A q \in Requests : Active(q)' => job'[q].no + 1 # job[r].no + 1
<1>1. /\ \A q \in Requests \ {r} : Active(q)' => Active(q) /\ job'[q].no = job[q].no
      /\ ~Active(r)'
  BY OthersStay DEF Active, BaseInv
<1>2. job[r].no \in 1..calls /\ calls \in 0..MaxCalls /\ MaxCalls \in Nat /\ NBrowsers \in Nat
  BY ConstantsOK DEF BaseInv, FlowInv, AuthInv, StoreInv, ConstantsOK
<1>3. \A q \in Requests : Active(q)' => job'[q].no # job[r].no /\ job'[q].no \in Nat
  BY <1>1 DEF BaseInv, FlowInv
<1>4. \A q \in Requests : Active(q)' => job'[q].no + 1 # job[r].no + 1
  BY <1>2, <1>3
<1> QED
  BY <1>2, <1>3, <1>4 DEF Chals

(* The steps of the requests. *)
LEMMA StepPast ==
  ASSUME BaseInv, BaseInv', PastInv, NEW r \in Requests, StepEffect(r)
  PROVE  PastInv'
<1>0. NextEffect /\ AuthInv
  BY DEF NextEffect, BaseInv
<1>1. ASSUME Return(r), UsersGrow \/ UNCHANGED users, SessionsKept \/ UNCHANGED sessions,
             JarKept \/ UNCHANGED jar, UNCHANGED chals,
             \A u \in Ids : mfa'[u].gen \in {mfa[u].gen, 0} \/ PastGen(mfa[u].gen)'
      PROVE  PastInv'
  <2>1. PastOK(pc[r], job[r])' /\ \A q \in Requests \ {r} : pc'[q] = pc[q] /\ job'[q] = job[q]
    BY <1>0, <1>1, PastReturn, OthersStay
  <2>2. UsersGrow
    BY <1>1 DEF UsersGrow, Seen, Gone
  <2>3. \A t \in Tokens : sessions'[t].user = sessions[t].user
    BY <1>1 DEF SessionsKept
  <2>4. \A b \in Browsers : jar'[b].chal = jar[b].chal
    BY <1>1 DEF JarKept
  <2> QED
    BY <1>0, <1>1, <2>1, <2>2, <2>3, <2>4, PastFrame
<1>2. ASSUME NEW k, NEW l, Moves(r, k, l), UsersGrow \/ UNCHANGED users, SessionsKept \/ UNCHANGED sessions,
             JarKept \/ UNCHANGED jar, \A c \in Chals : chals'[c] \in Ids => chals'[c] = chals[c],
             \A u \in Ids : mfa'[u].gen = mfa[u].gen,
             l \in SeenPhases => users'[job'[r].u].role # "absent",
             job'[r].gen # 0 => job'[r].gen = job[r].gen \/ PastGen(job'[r].gen)
      PROVE  PastInv'
  <2>1. PastOK(pc[r], job[r])' /\ \A q \in Requests \ {r} : pc'[q] = pc[q] /\ job'[q] = job[q]
    BY <1>0, <1>2, PastMoves, OthersStay
  <2>2. UsersGrow
    BY <1>2 DEF UsersGrow, Seen, Gone
  <2>3. \A t \in Tokens : sessions'[t].user = sessions[t].user
    BY <1>2 DEF SessionsKept
  <2>4. \A b \in Browsers : jar'[b].chal = jar[b].chal
    BY <1>2 DEF JarKept
  <2> QED
    BY <1>0, <1>2, <2>1, <2>2, <2>3, <2>4, PastFrame
<1>3. CASE Ends(r) \/ Counts(r) \/ Consumes(r)
  BY <1>1, <1>3 DEF Ends, Counts, Consumes, Still, Untouched, Frame
<1>4. ASSUME NEW u \in Ids, NEW row \in RowType, Enrols(r, u, row) PROVE PastInv'
  <2>1. /\ Active(r) /\ Return(r) /\ UNCHANGED <<users, sessions, chals, jar, calls>>
        /\ mfa' = [mfa EXCEPT ![u] = row]
        /\ row = NoRow \/ row.gen = job[r].no + 1 \/ row.gen = mfa[u].gen
    BY <1>4 DEF Enrols, Untouched, Frame
  <2>2. mfa'[u] = row /\ \A v \in Ids \ {u} : mfa'[v] = mfa[v]
    BY <2>1 DEF BaseInv, AuthInv, StoreInv
  <2>3. row.gen = job[r].no + 1 => PastGen(mfa[u].gen)'
    BY <2>1, <2>2, OverNow DEF PastGen
  <2>4. \A v \in Ids : mfa'[v].gen \in {mfa[v].gen, 0} \/ PastGen(mfa[v].gen)'
    BY <2>1, <2>2, <2>3 DEF NoRow
  <2> QED
    BY <1>1, <2>1, <2>4
<1>5. ASSUME NEW k, NEW l, Passes(r, k, l) PROVE PastInv'
  <2>1. /\ Moves(r, k, l) /\ Whole(r) /\ Still
        /\ <<k, l>> \in {<<"rehash", "factor">>, <<"setup", "await">>, <<"disable", "unenroll">>}
    BY <1>5 DEF Passes
  <2>2. l \in SeenPhases => users'[job'[r].u].role # "absent"
    BY <2>1, SeenUser DEF Still, SeenPhases, Moves, Whole
  <2> QED
    BY <1>2, <2>1, <2>2 DEF Still, Whole
<1>6. CASE \/ Admits(r) \/ Identifies(r) \/ Validates(r) \/ Rotates(r) \/ Inspects(r)
           \/ LocksSetup(r) \/ LocksRefresh(r)
  BY <1>2, <1>6
     DEF Admits, Identifies, Validates, Rotates, Inspects, LocksSetup, LocksRefresh, Still, Whole, SeenPhases
<1>7. CASE Skips(r) \/ Creates(r)
  <2>1. /\ Moves(r, "factor", "issue") \/ Moves(r, "admin", "issue")
        /\ Whole(r) /\ Still
    BY <1>7 DEF Skips, Creates
  <2>2. users'[job'[r].u].role # "absent"
    BY <1>7, <2>1, SeenUser DEF Skips, Creates, Moves, Whole, Still, SeenPhases, Seen
  <2> QED
    BY <1>2, <2>1, <2>2 DEF Still, Whole
<1>8. CASE Finds(r)
  <2>1. /\ Moves(r, "lookup", "reset") /\ Still /\ job'[r].u \in Ids /\ users[job'[r].u].role # "absent"
        /\ job'[r].gen # 0 => mfa[job'[r].u].gen = job'[r].gen
    BY <1>8 DEF Finds, Seen
  <2>2. users'[job'[r].u].role # "absent"
    BY <2>1 DEF Still, UsersGrow, Seen
  <2>3. job'[r].gen # 0 => PastGen(job'[r].gen)
    BY <2>1 DEF PastInv
  <2> QED
    BY <1>2, <2>1, <2>2, <2>3 DEF Still
<1>9. ASSUME NEW k, Fails(r, k) PROVE PastInv'
  BY <1>2, <1>9 DEF Fails, Untouched, Frame, Whole, SeenPhases
<1>10. ASSUME NEW l, Clears(r, l) PROVE PastInv'
  <2>1. Moves(r, "reset", l) /\ Whole(r) /\ UNCHANGED <<users, sessions, chals, jar, mfa>>
    BY <1>10 DEF Clears, Untouched
  <2>2. users'[job'[r].u].role # "absent"
    BY <2>1, SeenUser DEF Moves, Whole, SeenPhases
  <2> QED
    BY <1>2, <2>1, <2>2 DEF Whole
<1>11. ASSUME NEW l, Confirms(r, l) PROVE PastInv'
  <2>1. Moves(r, "subject", l) /\ Whole(r) /\ Still /\ InFile(job[r].u) /\ pc[r] = "subject"
    BY <1>11 DEF Confirms, Moves
  <2>2. job[r].u \in Ids /\ Seen(job[r].u)
    BY <1>0, <2>1, PhaseFacts DEF WithUser, InFile, Roles, Seen
  <2>3. users'[job'[r].u].role # "absent"
    BY <2>1, <2>2 DEF Still, UsersGrow, Seen, Whole
  <2> QED
    BY <1>2, <2>1, <2>3 DEF Still, Whole
<1>12. CASE Takes(r)
  <2>1. /\ Moves(r, "take", "subject") /\ UNCHANGED <<users, sessions, mfa, jar>> /\ job'[r].gen = job[r].gen
        /\ chals' = [chals EXCEPT ![job[r].chal] = NoId]
    BY <1>12 DEF Takes
  <2>2. \A c \in Chals : chals'[c] \in Ids => chals'[c] = chals[c]
    BY <2>1, ConstantsOK DEF ConstantsOK, BaseInv, AuthInv, StoreInv
  <2> QED
    BY <1>2, <2>1, <2>2 DEF SeenPhases
<1>13. CASE Accepts(r)
  <2>1. /\ Moves(r, "code", "reset") /\ Whole(r) /\ UNCHANGED <<users, sessions, chals, jar>> /\ pc[r] = "code"
        /\ mfa' = mfa \/ mfa' = [mfa EXCEPT ![job[r].u].used = TRUE]
    BY <1>13 DEF Accepts, Untouched, Moves
  <2>2. users'[job'[r].u].role # "absent"
    BY <2>1, SeenUser DEF Whole, SeenPhases
  <2>3. \A u \in Ids : mfa'[u].gen = mfa[u].gen
    BY <2>1 DEF BaseInv, AuthInv, StoreInv, RowType
  <2> QED
    BY <1>2, <2>1, <2>2, <2>3 DEF Whole
<1>14. CASE Challenges(r)
  <2> DEFINE n == job[r].no
             v == job[r].u
             x == job[r].b
  <2>1. /\ pc[r] = "factor" /\ Return(r) /\ UNCHANGED <<users, sessions, mfa, calls>>
        /\ chals' = [chals EXCEPT ![n] = v] /\ jar' = [jar EXCEPT ![x].chal = n]
    BY <1>14 DEF Challenges, Frame
  <2>2. v \in Ids /\ users'[v].role # "absent"
    BY <2>1, SeenUser DEF SeenPhases
  <2>3. /\ n \in Chals /\ (n <= calls' \/ n > MaxCalls) /\ \A q \in Requests : Active(q)' => job'[q].no # n
    BY <2>1, OverNow DEF Active
  <2>4. chals \in [Chals -> Ids \cup {NoId}] /\ jar \in [Browsers -> JarType]
    BY DEF BaseInv, AuthInv, StoreInv
  <2> HIDE DEF n, v, x
  <2>5. \A c \in Chals : chals'[c] = chals[c] \/ chals'[c] = v
    BY <2>1, <2>4
  <2>6. ASSUME NEW b \in Browsers PROVE jar'[b].chal = jar[b].chal \/ jar'[b].chal = n
    BY <2>1, <2>4 DEF JarType
  <2>7. \A b \in Browsers : \/ jar'[b].chal \in {jar[b].chal, None}
                            \/ jar'[b].chal \in Chals /\ Past(jar[b].chal)'
    BY <2>3, <2>6 DEF Past
  <2>8. PastOK(pc[r], job[r])' /\ \A q \in Requests \ {r} : pc'[q] = pc[q] /\ job'[q] = job[q]
    BY <1>0, <2>1, PastReturn, OthersStay
  <2>9. UsersGrow
    BY <2>1 DEF UsersGrow, Seen, Gone
  <2> QED
    BY <1>0, <2>1, <2>2, <2>5, <2>7, <2>8, <2>9, PastFrame
<1>15. CASE Issues(r)
  <2> DEFINE t == minted + 1
             v == job[r].u
  <2>1. /\ pc[r] = "issue" /\ UNCHANGED <<users, mfa, chals>>
        /\ sessions' = [sessions EXCEPT ![t] = [user |-> v, st |-> "live"]]
        /\ \A b \in Browsers : jar'[b].chal \in {jar[b].chal, None}
        /\ (Moves(r, "issue", "consume") /\ Whole(r)) \/ Return(r)
    BY <1>15 DEF Issues
  <2>2. v \in Ids /\ users'[v].role # "absent"
    BY <2>1, SeenUser DEF SeenPhases
  <2>3. PastOK(pc[r], job[r])' /\ \A q \in Requests \ {r} : pc'[q] = pc[q] /\ job'[q] = job[q]
    BY <1>0, <2>1, <2>2, PastMoves, PastReturn, OthersStay DEF Whole
  <2> HIDE DEF t, v
  <2>4. \A s \in Tokens : sessions'[s].user = sessions[s].user \/ sessions'[s].user = v
    BY <2>1 DEF BaseInv, AuthInv, StoreInv
  <2>5. UsersGrow
    BY <2>1 DEF UsersGrow, Seen, Gone
  <2> QED
    BY <1>0, <2>1, <2>2, <2>3, <2>4, <2>5, PastFrame
<1> QED
  BY <1>3, <1>4, <1>5, <1>6, <1>7, <1>8, <1>9, <1>10, <1>11, <1>12, <1>13, <1>14, <1>15 DEF StepEffect

(* Every step of the system. *)
LEMMA NextPast ==
  ASSUME BaseInv, BaseInv', PastInv, NextEffect
  PROVE  PastInv'
<1>1. CASE UNCHANGED vars
  BY <1>1 DEF vars, stores, bounds, PastInv, PastOK, Past, PastGen, Seen, Active
<1>2. ASSUME NEW r \in Requests, NEW b \in Browsers, NEW op \in AllOps, Arrives(r, b, op) PROVE PastInv'
  <2>1. /\ (\A q \in Requests \ {r} : pc'[q] = pc[q] /\ job'[q] = job[q]) /\ pc'[r] = op
        /\ UNCHANGED <<users, sessions, mfa, chals, jar>>
    BY <1>2 DEF Arrives, Goto, stores, BaseInv, AuthInv, ReqInv
  <2>2. job'[r].gen = 0 /\ (job'[r].chal = None \/ job'[r].chal = jar[b].chal)
    BY <1>2 DEF Arrives
  <2>3. UsersGrow
    BY <2>1 DEF UsersGrow, Seen, Gone
  <2>4. job'[r].chal # None => job'[r].chal \in Chals /\ Past(job[r].chal)'
    <3> SUFFICES ASSUME job'[r].chal # None PROVE job'[r].chal \in Chals /\ Past(job[r].chal)'
      OBVIOUS
    <3> DEFINE c == jar[b].chal
    <3>1. c \in Nat /\ c \in Chals /\ Past(c) /\ job'[r].chal = c
      BY <2>2 DEF PastInv, BaseInv, AuthInv, StoreInv, JarType
    <3> HIDE DEF c
    <3>2. (c <= calls' \/ c > MaxCalls) /\ \A p \in Requests : Active(p)' => job'[p].no # c
      BY <3>1, PastStays DEF Past
    <3> QED
      BY <3>1, <3>2 DEF Past
  <2>5. op \notin SeenPhases
    BY DEF AllOps, SeenPhases
  <2>6. PastOK(pc[r], job[r])'
    BY <2>1, <2>2, <2>4, <2>5 DEF PastOK
  <2> QED
    BY <2>1, <2>3, <2>6, PastFrame
<1>3. CASE Elapses
  <2>1. /\ UNCHANGED <<users, mfa, pc, job, calls>> /\ chals' = [c \in Chals |-> NoId]
        /\ \A t \in Tokens : sessions'[t].user = sessions[t].user
        /\ \A b \in Browsers : jar'[b].chal = jar[b].chal
    BY <1>3 DEF Elapses, Frame, SessionsKept, JarKept
  <2> QED
    BY <2>1, ConstantsOK DEF ConstantsOK, PastInv, PastOK, Past, PastGen, Seen, Active
<1>4. CASE Restarts
  <2>1. /\ UNCHANGED <<users, sessions, mfa, jar, calls>> /\ chals' = [c \in Chals |-> NoId]
        /\ \A r \in Requests : pc'[r] = "idle" /\ job'[r] = NoJob
    BY <1>4 DEF Restarts
  <2>2. \A r \in Requests : PastOK(pc[r], job[r])'
    BY <2>1 DEF PastOK, NoJob, SeenPhases
  <2>3. (\A b \in Browsers : jar'[b].chal # None => jar'[b].chal \in Chals /\ Past(jar[b].chal)')
    BY <2>1 DEF PastInv, Past, Active
  <2>4. \A u \in Ids : mfa'[u].gen # 0 => PastGen(mfa[u].gen)'
    BY <2>1 DEF PastInv, PastGen, Active
  <2> QED
    BY <2>1, <2>2, <2>3, <2>4, ConstantsOK DEF ConstantsOK, PastInv, Seen
<1> QED
  BY <1>1, <1>2, <1>3, <1>4, StepPast DEF NextEffect

(* The first states. *)
LEMMA InitPast == ASSUME ConstantsOK, Init PROVE PastInv
<1>0. /\ \A r \in Requests : pc[r] = "idle" /\ job[r] = NoJob
      /\ calls = 0 /\ MaxCalls \in Nat /\ NBrowsers \in Nat
      /\ users \in [Ids -> User] /\ NoId \notin Ids
  BY DEF Init, ConstantsOK
<1>1. \A u \in Ids : InFile(u) => Seen(u)
  BY DEF InFile, Seen, Roles
<1>2. \A t \in Tokens : sessions[t].user \in Ids => Seen(sessions[t].user)
  <2> SUFFICES ASSUME NEW t \in Tokens, sessions[t].user \in Ids PROVE Seen(sessions[t].user)
    OBVIOUS
  <2>1. \/ InFile(FirstLogin[t]) /\ sessions[t] = [user |-> FirstLogin[t], st |-> "live"]
        \/ sessions[t] = NoSession
    BY DEF Init
  <2> QED
    BY <1>0, <1>1, <2>1 DEF NoSession
<1>3. \A c \in Chals : chals[c] \in Ids => Seen(chals[c])
  <2> SUFFICES ASSUME NEW c \in Chals, chals[c] \in Ids PROVE Seen(chals[c])
    OBVIOUS
  <2>1. (InFile(FirstChal[c - MaxCalls]) /\ chals[c] = FirstChal[c - MaxCalls]) \/ chals[c] = NoId
    BY DEF Init
  <2> QED
    BY <1>0, <1>1, <2>1
<1>4. ASSUME NEW b \in Browsers, jar[b].chal # None PROVE jar[b].chal \in Chals /\ Past(jar[b].chal)
  <2>1. jar[b].chal \in {MaxCalls + b, None}
    BY DEF Init, EmptyJar
  <2>2. b \in 1..NBrowsers
    BY DEF Browsers
  <2> QED
    BY <1>0, <1>4, <2>1, <2>2 DEF Chals, Past, Active
<1>5. ASSUME NEW u \in Ids PROVE mfa[u].gen # 0 => PastGen(mfa[u].gen)
  <2>1. mfa[u].gen \in {0, 1}
    BY DEF Init, NoRow
  <2> QED
    BY <1>0, <2>1 DEF PastGen, Active
<1>6. \A r \in Requests : PastOK(pc[r], job[r])
  BY <1>0 DEF PastOK, SeenPhases, NoJob
<1> QED
  BY <1>2, <1>3, <1>4, <1>5, <1>6 DEF PastInv

(* With what holds of the requests. *)
LEMMA PastInvariant == Spec => []PastInv
<1>1. Init => PastInv
  BY InitPast, ConstantsOK
<1>2. BaseInv /\ BaseInv' /\ PastInv /\ [Next]_vars => PastInv'
  BY NextIsEffect, NextPast, ConstantsOK
<1> QED
  BY <1>1, <1>2, BaseInvariant, PTL DEF Spec

-----------------------------------------------------------------------------
(* A refresh token is in the hands of one browser *)

(* A refresh token is in the hands of one browser. *)
Holds(b, t) ==
  /\ t # None
  /\ \/ jar[b].root = t \/ jar[b].api = t
     \/ \E r \in Requests : Active(r) /\ job[r].b = b /\ job[r].tok = t
TokenInv ==
  /\ \A t \in Tokens : issued[t].via # "none" => t <= minted
  /\ \A b \in Browsers, t \in Tokens : Holds(b, t) => t <= minted /\ sessions[t].user \in Ids
  /\ \A b, c \in Browsers, t \in Tokens : Holds(b, t) /\ Holds(c, t) => b = c

(* What every step but the issuing of a session leaves alone. *)
Quiet ==
  /\ UNCHANGED <<minted, issued>> /\ SessionsKept
  /\ \A b \in Browsers : jar'[b].root \in {jar[b].root, None} /\ jar'[b].api = jar[b].api

(* A session is issued, or the tokens are left alone. *)
LEMMA StepQuiet ==
  ASSUME AuthInv, NEW r \in Requests, StepEffect(r), ~Issues(r)
  PROVE  Quiet
<1>1. CASE Still
  BY <1>1 DEF Still, Frame, JarKept, Quiet
<1>2. CASE UNCHANGED <<minted, issued, sessions, jar>>
  BY <1>2 DEF Quiet, SessionsKept
<1>3. \A u, row, k, l :
        Enrols(r, u, row) \/ Fails(r, k) \/ Clears(r, l) => UNCHANGED <<minted, issued, sessions, jar>>
  BY DEF Enrols, Fails, Clears, Untouched, Frame
<1>4. Counts(r) \/ Takes(r) \/ Accepts(r) \/ Consumes(r) => UNCHANGED <<minted, issued, sessions, jar>>
  BY DEF Counts, Takes, Accepts, Consumes, Untouched, Frame
<1>5. CASE Challenges(r)
  <2> DEFINE n == job[r].no
             x == job[r].b
  <2>1. UNCHANGED <<minted, issued, sessions>> /\ jar' = [jar EXCEPT ![x].chal = n]
    BY <1>5 DEF Challenges, Frame
  <2> HIDE DEF n, x
  <2>2. \A b \in Browsers : jar'[b].root = jar[b].root /\ jar'[b].api = jar[b].api
    BY <2>1 DEF AuthInv, StoreInv, JarType
  <2> QED
    BY <2>1, <2>2 DEF Quiet, SessionsKept
<1> QED
  BY <1>1, <1>2, <1>3, <1>4, <1>5, StillSteps DEF StepEffect

(* The same of the steps of the system. *)
LEMMA NextQuiet ==
  ASSUME AuthInv, NextEffect, \A r \in Requests : ~(StepEffect(r) /\ Issues(r))
  PROVE  Quiet
<1>1. CASE UNCHANGED vars
  BY <1>1 DEF vars, stores, ghosts, Quiet, SessionsKept
<1>2. ASSUME NEW r, NEW b, NEW op, Arrives(r, b, op) PROVE Quiet
  BY <1>2 DEF Arrives, stores, ghosts, Quiet, SessionsKept
<1>3. CASE Elapses
  BY <1>3 DEF Elapses, Frame, JarKept, Quiet
<1>4. CASE Restarts
  BY <1>4 DEF Restarts, Quiet, SessionsKept
<1> QED
  BY <1>1, <1>2, <1>3, <1>4, StepQuiet DEF NextEffect

(* The token of a request: it came with it, from the browser. *)
LEMMA TokenSent ==
  ASSUME BaseInv, NextEffect, NEW q \in Requests, Active(q)', job'[q].tok # None
  PROVE  LET x == job'[q].b
         IN \/ Active(q) /\ job[q].tok = job'[q].tok /\ job[q].b = x
            \/ job'[q].tok \in {jar[x].root, jar[x].api}
<1>0. AuthInv
  BY DEF BaseInv
<1>1. CASE UNCHANGED vars
  BY <1>1 DEF vars, Active
<1>2. ASSUME NEW r \in Requests, StepEffect(r)
      PROVE  Active(q) /\ job[q].tok = job'[q].tok /\ job[q].b = job'[q].b
  <2>1. CASE Return(r)
    <3>1. q # r
      BY <1>0, <2>1, OthersStay DEF Active
    <3> QED
      BY <1>0, <2>1, <3>1, OthersStay DEF Active
  <2>2. ASSUME NEW k \in Labels \ {"idle"}, NEW l \in Labels, Moves(r, k, l)
        PROVE  Active(q) /\ job[q].tok = job'[q].tok /\ job[q].b = job'[q].b
    <3>1. CASE q = r
      BY <2>2, <3>1 DEF Moves, Kept, Active
    <3>2. CASE q # r
      BY <1>0, <2>2, <3>2, OthersStay DEF Active
    <3> QED
      BY <3>1, <3>2
  <2> QED
    BY <1>0, <1>2, <2>1, <2>2, StepShape
<1>3. ASSUME NEW r \in Requests, NEW b \in Browsers, NEW op \in AllOps, Arrives(r, b, op)
      PROVE  \/ Active(q) /\ job[q].tok = job'[q].tok /\ job[q].b = job'[q].b
             \/ job'[q].tok \in {jar[job'[q].b].root, jar[job'[q].b].api}
  <2>1. CASE q = r
    BY <1>3, <2>1 DEF Arrives, Sent
  <2>2. CASE q # r
    BY <1>0, <1>3, <2>2 DEF Arrives, Goto, Active, AuthInv, ReqInv
  <2> QED
    BY <2>1, <2>2
<1>4. CASE Elapses
  BY <1>4 DEF Elapses, Active
<1>5. CASE Restarts
  BY <1>5 DEF Restarts, Active
<1> QED
  BY <1>1, <1>2, <1>3, <1>4, <1>5 DEF NextEffect

(* A browser gets a token only when one is issued to it. *)
LEMMA HoldsNew ==
  ASSUME BaseInv, NextEffect, NEW b \in Browsers, NEW t \in Tokens, Holds(b, t)',
         NEW u, NEW x, \A c \in Browsers : /\ jar'[c].root \in {jar[c].root, None} \/ (c = x /\ jar'[c].root = u)
                                           /\ jar'[c].api = jar[c].api \/ (c = x /\ jar'[c].api = u)
  PROVE  Holds(b, t) \/ (b = x /\ t = u)
<1>1. t # None
  BY DEF Holds
<1>2. CASE jar'[b].root = t \/ jar'[b].api = t
  BY <1>1, <1>2 DEF Holds
<1>3. ASSUME NEW q \in Requests, Active(q)', job'[q].b = b, job'[q].tok = t PROVE Holds(b, t)
  BY <1>1, <1>3, TokenSent DEF Holds
<1> QED
  BY <1>2, <1>3 DEF Holds

(* Every step of the system. *)
LEMMA NextToken ==
  ASSUME BaseInv, TokenInv, NextEffect
  PROVE  TokenInv'
<1>0. AuthInv /\ minted \in Nat /\ MaxTokens \in Nat /\ Tokens = 1..MaxTokens
  BY ConstantsOK DEF BaseInv, AuthInv, StoreInv, ConstantsOK, Tokens
<1>1. CASE Quiet
  <2>1. \A b \in Browsers, t \in Tokens : Holds(b, t)' => Holds(b, t)
    <3> SUFFICES ASSUME NEW b \in Browsers, NEW t \in Tokens, Holds(b, t)' PROVE Holds(b, t)
      OBVIOUS
    <3>1. Holds(b, t) \/ (b = 0 /\ t = 0)
      BY <1>1, HoldsNew DEF Quiet
    <3> QED
      BY <1>0, <3>1
  <2> QED
    BY <1>1, <2>1 DEF Quiet, SessionsKept, TokenInv
<1>2. ASSUME NEW r \in Requests, Issues(r) PROVE TokenInv'
  <2> DEFINE n == minted + 1
             x == job[r].b
             v == job[r].u
  <2>1. /\ pc[r] = "issue" /\ minted < MaxTokens /\ minted' = n
        /\ sessions' = [sessions EXCEPT ![n] = [user |-> v, st |-> "live"]]
        /\ \A s \in Tokens \ {n} : issued'[s] = issued[s]
        /\ \A c \in Browsers : IF c = x
             THEN jar'[c].root \in {jar[c].root, n} /\ jar'[c].api \in {jar[c].api, n}
             ELSE jar'[c] = jar[c]
    BY <1>2 DEF Issues
  <2>2. v \in Ids /\ n \in Tokens /\ sessions \in [Tokens -> SessionType]
    BY <1>0, <2>1, PhaseFacts DEF WithUser, AuthInv, StoreInv
  <2>3. n = minted + 1
    OBVIOUS
  <2> HIDE DEF n, x, v
  <2>4. ASSUME NEW b \in Browsers, NEW t \in Tokens, Holds(b, t)' PROVE Holds(b, t) \/ (b = x /\ t = n)
    <3>1. \A c \in Browsers : /\ jar'[c].root \in {jar[c].root, None} \/ (c = x /\ jar'[c].root = n)
                              /\ jar'[c].api = jar[c].api \/ (c = x /\ jar'[c].api = n)
      BY <2>1
    <3> QED
      BY <2>4, <3>1, HoldsNew
  <2>5. \A c \in Browsers, t \in Tokens : Holds(c, t) => t <= minted /\ t # n
    BY <1>0, <2>3 DEF TokenInv
  <2>6. \A t \in Tokens : t # n => sessions'[t] = sessions[t]
    BY <2>1, <2>2
  <2>7. sessions'[n].user = v
    BY <2>1, <2>2
  <2>8. \A t \in Tokens : issued'[t].via # "none" => t <= minted'
    BY <1>0, <2>1, <2>3 DEF TokenInv
  <2>9. \A b \in Browsers, t \in Tokens : Holds(b, t)' => t <= minted' /\ sessions'[t].user \in Ids
    BY <1>0, <2>1, <2>2, <2>3, <2>4, <2>5, <2>6, <2>7 DEF TokenInv
  <2>10. \A b, c \in Browsers, t \in Tokens : Holds(b, t)' /\ Holds(c, t)' => b = c
    BY <2>4, <2>5 DEF TokenInv
  <2> QED
    BY <2>8, <2>9, <2>10 DEF TokenInv
<1> QED
  BY <1>0, <1>1, <1>2, NextQuiet

(* The first states: a browser that is logged in has the token of its own  *)
(* number.                                                                 *)
LEMMA InitToken == ASSUME ConstantsOK, Init PROVE TokenInv
<1>0. /\ \A r \in Requests : pc[r] = "idle"
      /\ minted = NBrowsers /\ NBrowsers \in Nat /\ MaxTokens \in Nat
  BY DEF Init, ConstantsOK
<1>1. \A t \in Tokens : issued[t].via = "none"
  BY DEF Init, NoIssue
<1>2. ASSUME NEW b \in Browsers, NEW t \in Tokens, Holds(b, t)
      PROVE  t = b /\ t <= minted /\ sessions[t].user \in Ids
  <2>1. b \in 1..NBrowsers
    BY DEF Browsers
  <2>2. t # None /\ (jar[b].root = t \/ jar[b].api = t)
    BY <1>0, <1>2 DEF Holds, Active
  <2>3. /\ jar[b].root # None => jar[b].root = b /\ FirstLogin[b] \in Ids /\ InFile(FirstLogin[b])
        /\ jar[b].api # None => jar[b].api = b /\ FirstLogin[b] \in Ids /\ InFile(FirstLogin[b])
    BY DEF Init, EmptyJar
  <2>4. t = b /\ FirstLogin[b] \in Ids /\ InFile(FirstLogin[b])
    BY <2>2, <2>3
  <2>5. sessions[t] = [user |-> FirstLogin[t], st |-> "live"]
    BY <2>4 DEF Init
  <2> QED
    BY <1>0, <2>1, <2>4, <2>5
<1> QED
  BY <1>1, <1>2 DEF TokenInv

(* With what holds of the requests. *)
LEMMA TokenInvariant == Spec => []TokenInv
<1>1. Init => TokenInv
  BY InitToken, ConstantsOK
<1>2. BaseInv /\ TokenInv /\ [Next]_vars => TokenInv'
  BY NextIsEffect, NextToken, ConstantsOK
<1> QED
  BY <1>1, <1>2, BaseInvariant, PTL DEF Spec

-----------------------------------------------------------------------------
(* Sessions are earned *)

(* What a request whose user was gone when it came may have reached, and   *)
(* what a login knows of the enrolment it met.                             *)
GoneOK(l, j) ==
  /\ j.op = "verify" => j.chal # None
  /\ l \in {"code", "reset", "issue"} => j.alive
  /\ ~j.alive => j.op \in {"verify", "refresh"}
  /\ l \in {"verify", "take"} /\ ~j.alive /\ chals[j.chal] \in Ids => Gone(chals[j.chal])
  /\ l \in {"refresh", "validate"} /\ ~j.alive /\ j.tok # None /\ sessions[j.tok].st = "live"
       => Gone(sessions[j.tok].user)
  /\ l \in {"subject", "rotate"} /\ ~j.alive => Gone(j.u)
  /\ j.op = "login" /\ l \in {"reset", "rehash", "factor"} /\ j.gen # 0 /\ mfa[j.u].gen = j.gen
       => mfa[j.u].st = "active"
  /\ j.op = "login" /\ l = "issue" /\ j.gen # 0 => mfa[j.u].gen # j.gen
EarnedInv == SessionsAreEarned /\ \A r \in Requests : GoneOK(pc[r], job[r])

(* Nothing that a request relies on is changed under its hands. *)
LEMMA GoneFrame ==
  ASSUME BaseInv, PastInv, UsersGrow, NEW q \in Requests, GoneOK(pc[q], job[q]),
         pc'[q] = pc[q], job'[q] = job[q],
         LET j == job[q]
         IN /\ j.chal \in Chals /\ chals'[j.chal] \in Ids => chals'[j.chal] = chals[j.chal]
            /\ j.tok \in Tokens /\ sessions'[j.tok].st = "live" =>
                 sessions[j.tok].st = "live" /\ sessions'[j.tok].user = sessions[j.tok].user
            /\ j.u \in Ids /\ j.gen # 0 /\ mfa'[j.u].gen = j.gen =>
                 mfa[j.u].gen = j.gen /\ (mfa[j.u].st = "active" => mfa'[j.u].st = "active")
  PROVE  GoneOK(pc[q], job[q])'
<1> DEFINE l == pc[q]
           j == job[q]
<1>0. /\ job[q] \in JobType /\ (Active(q) => OpOK(l, j.op)) /\ (l \in WithUser => j.u \in Ids)
      /\ (j.chal # None => j.chal \in Chals)
      /\ \A t \in Tokens : sessions[t].st = "live" => sessions[t].user \in Ids
  BY DEF BaseInv, AuthInv, ReqInv, ReqOK, StoreInv, FlowInv, PastInv, PastOK
<1>1. pc'[q] = l /\ job'[q] = j /\ (j.tok # None => j.tok \in Tokens)
  BY <1>0 DEF JobType
<1>2. l \in {"verify", "take"} => j.op = "verify"
  BY <1>0 DEF OpOK, AllOps, Active
<1>3. l \in {"verify", "take"} /\ ~j.alive /\ chals'[j.chal] \in Ids => users'[chals'[j.chal]].role = "deleted"
  BY <1>0, <1>2 DEF GoneOK, UsersGrow, Gone
<1>4. l \in {"refresh", "validate"} /\ ~j.alive /\ j.tok # None /\ sessions'[j.tok].st = "live"
        => users'[sessions'[j.tok].user].role = "deleted"
  BY <1>0, <1>1 DEF GoneOK, UsersGrow, Gone
<1>5. l \in {"subject", "rotate"} /\ ~j.alive => users'[j.u].role = "deleted"
  BY <1>0 DEF GoneOK, UsersGrow, Gone, WithUser
<1>6. j.op = "login" /\ l \in {"reset", "rehash", "factor"} /\ j.gen # 0 /\ mfa'[j.u].gen = j.gen
        => mfa'[j.u].st = "active"
  BY <1>0 DEF GoneOK, WithUser
<1>7. j.op = "login" /\ l = "issue" /\ j.gen # 0 => mfa'[j.u].gen # j.gen
  BY <1>0 DEF GoneOK, WithUser
<1>8. /\ j.op = "verify" => j.chal # None
      /\ l \in {"code", "reset", "issue"} => j.alive
      /\ ~j.alive => j.op \in {"verify", "refresh"}
  BY DEF GoneOK
<1> HIDE DEF l, j
<1> QED
  BY <1>1, <1>3, <1>4, <1>5, <1>6, <1>7, <1>8 DEF GoneOK, Gone

(* What a step that concerns no enrolment may do to the rest. *)
Mild ==
  /\ UsersGrow /\ SessionsKept /\ UNCHANGED issued
  /\ \A c \in Chals : chals'[c] \in Ids => chals'[c] = chals[c]
  /\ \A u \in Ids : mfa'[u].gen = mfa[u].gen /\ mfa'[u].st = mfa[u].st

(* Such a step of one request. *)
LEMMA EarnedFrame ==
  ASSUME BaseInv, PastInv, EarnedInv, Mild, NEW r \in Requests,
         \A q \in Requests \ {r} : pc'[q] = pc[q] /\ job'[q] = job[q],
         GoneOK(pc[r], job[r])'
  PROVE  EarnedInv'
<1>1. ASSUME NEW q \in Requests PROVE GoneOK(pc[q], job[q])'
  <2>1. CASE q = r
    BY <2>1
  <2>2. CASE q # r
    BY <2>2, GoneFrame DEF Mild, SessionsKept, EarnedInv
  <2> QED
    BY <2>1, <2>2
<1>2. SessionsAreEarned'
  BY DEF Mild, EarnedInv, SessionsAreEarned
<1> QED
  BY <1>1, <1>2 DEF EarnedInv

(* A step that changes nothing of this. *)
LEMMA MildSteps ==
  ASSUME BaseInv, Still \/ (Untouched /\ UNCHANGED mfa)
  PROVE  Mild
BY DEF Still, Untouched, Frame, Mild, SessionsKept, UsersGrow, Seen, Gone

(* A request that ends relies on nothing. *)
LEMMA GoneReturn ==
  ASSUME BaseInv, NEW r \in Requests, Return(r)
  PROVE  GoneOK(pc[r], job[r])'
<1>1. pc'[r] = "idle" /\ job'[r] = NoJob
  BY OthersStay DEF BaseInv
<1> QED
  BY <1>1 DEF GoneOK, NoJob

(* The steps of the requests. *)
LEMMA StepEarned ==
  ASSUME BaseInv, BaseInv', PastInv, TokenInv, EarnedInv, NEW r \in Requests, StepEffect(r)
  PROVE  EarnedInv'
<1>0. AuthInv /\ FlowInv /\ GoneOK(pc[r], job[r])
  BY DEF BaseInv, EarnedInv
<1>1. ASSUME Return(r), Mild PROVE EarnedInv'
  BY <1>0, <1>1, GoneReturn, OthersStay, EarnedFrame
<1>2. ASSUME NEW k, NEW l, Moves(r, k, l), Mild, GoneOK(pc[r], job[r])' PROVE EarnedInv'
  BY <1>0, <1>2, OthersStay, EarnedFrame
<1>3. ASSUME NEW k, NEW l, Moves(r, k, l), k # "idle"
      PROVE  /\ pc[r] = k /\ pc'[r] = l /\ OpOK(k, job[r].op)
             /\ job'[r].op = job[r].op /\ job'[r].chal = job[r].chal
             /\ job'[r].alive = job[r].alive /\ job'[r].tok = job[r].tok
  BY <1>0, <1>3, OthersStay DEF Moves, Kept, FlowInv, Active
<1>4. CASE Ends(r) \/ Counts(r)
  BY <1>1, <1>4, MildSteps DEF Ends, Counts
<1>5. CASE Consumes(r)
  BY <1>1, <1>5 DEF Consumes, Mild, SessionsKept, UsersGrow, Seen, Gone
<1>6. ASSUME NEW k, NEW l, Passes(r, k, l) PROVE EarnedInv'
  <2>1. /\ Moves(r, k, l) /\ Whole(r) /\ Still /\ mfa' = mfa
        /\ <<k, l>> \in {<<"rehash", "factor">>, <<"setup", "await">>, <<"disable", "unenroll">>}
    BY <1>6 DEF Passes, Still
  <2>2. GoneOK(pc[r], job[r])'
    BY <1>0, <1>3, <2>1 DEF GoneOK, Whole
  <2> QED
    BY <1>2, <2>1, <2>2, MildSteps
<1>7. CASE LocksSetup(r) \/ Admits(r) \/ Inspects(r)
  <2>1. /\ Moves(r, "await", "inspect") \/ Moves(r, "login", "lookup") \/ Moves(r, "inspect", "admin")
        /\ Still
    BY <1>7 DEF LocksSetup, Admits, Inspects
  <2>2. GoneOK(pc[r], job[r])'
    BY <1>0, <1>3, <2>1 DEF GoneOK
  <2> QED
    BY <1>2, <2>1, <2>2, MildSteps
<1>8. CASE LocksRefresh(r)
  <2>1. Moves(r, "refresh", "validate") /\ Still /\ SessionsKept /\ UsersGrow
    BY <1>8 DEF LocksRefresh, Still
  <2> DEFINE t == job[r].tok
  <2>2. /\ pc[r] = "refresh" /\ pc'[r] = "validate" /\ job'[r].tok = t
        /\ job'[r].op = job[r].op /\ job'[r].chal = job[r].chal /\ job'[r].alive = job[r].alive
    BY <1>3, <2>1
  <2>3. t # None => t \in Tokens
    BY <1>0 DEF AuthInv, ReqInv, JobType
  <2>4. ~job[r].alive /\ t # None /\ sessions[t].st = "live" => Gone(sessions[t].user)
    BY <1>0, <2>2 DEF GoneOK
  <2>5. t \in Tokens /\ sessions[t].st = "live" => sessions[t].user \in Ids
    BY <1>0 DEF AuthInv, StoreInv
  <2> HIDE DEF t
  <2>6. ~job[r].alive /\ t # None /\ sessions'[t].st = "live" => users'[sessions'[t].user].role = "deleted"
    BY <2>1, <2>3, <2>4, <2>5 DEF SessionsKept, UsersGrow, Gone
  <2>7. GoneOK(pc[r], job[r])'
    BY <1>0, <2>2, <2>6 DEF GoneOK, Gone
  <2> QED
    BY <1>2, <2>1, <2>7, MildSteps
<1>9. CASE Identifies(r)
  <2>1. Moves(r, "verify", "take") /\ Still /\ UsersGrow /\ chals' = chals
    BY <1>9 DEF Identifies, Still
  <2> DEFINE c == job[r].chal
  <2>2. /\ pc[r] = "verify" /\ pc'[r] = "take" /\ job'[r].chal = c
        /\ job'[r].op = job[r].op /\ job'[r].alive = job[r].alive
    BY <1>3, <2>1
  <2>3. ~job[r].alive /\ chals[c] \in Ids => Gone(chals[c])
    BY <1>0, <2>2 DEF GoneOK
  <2> HIDE DEF c
  <2>4. ~job[r].alive /\ chals'[c] \in Ids => users'[chals'[c]].role = "deleted"
    BY <2>1, <2>3 DEF UsersGrow, Gone
  <2>5. (job[r].op = "verify" => c # None) /\ (~job[r].alive => job[r].op \in {"verify", "refresh"})
    BY <1>0 DEF GoneOK, c
  <2>6. GoneOK(pc[r], job[r])'
    BY <2>2, <2>4, <2>5 DEF GoneOK, Gone
  <2> QED
    BY <1>2, <2>1, <2>6, MildSteps
<1>10. CASE Finds(r)
  <2>1. /\ Moves(r, "lookup", "reset") /\ Still /\ mfa' = mfa
        /\ job'[r].gen # 0 => mfa[job'[r].u].st = "active"
    BY <1>10 DEF Finds, Still
  <2>2. job[r].op = "login"
    BY <1>3, <2>1 DEF OpOK
  <2>3. GoneOK(pc[r], job[r])'
    BY <1>0, <1>3, <2>1, <2>2 DEF GoneOK
  <2> QED
    BY <1>2, <2>1, <2>3, MildSteps
<1>11. ASSUME NEW k, Fails(r, k) PROVE EarnedInv'
  <2>1. Moves(r, k, "record") /\ Untouched /\ UNCHANGED mfa /\ k # "idle"
    BY <1>11 DEF Fails
  <2>2. GoneOK(pc[r], job[r])'
    BY <1>0, <1>3, <2>1 DEF GoneOK
  <2> QED
    BY <1>2, <2>1, <2>2, MildSteps
<1>12. ASSUME NEW l, Clears(r, l) PROVE EarnedInv'
  <2>1. /\ Moves(r, "reset", l) /\ Whole(r) /\ Untouched /\ UNCHANGED mfa /\ l \in {"issue", "rehash", "factor"}
        /\ (l = "issue" <=> job[r].op = "verify")
    BY <1>12 DEF Clears
  <2>2. GoneOK(pc[r], job[r])'
    BY <1>0, <1>3, <2>1 DEF GoneOK, Whole
  <2> QED
    BY <1>2, <2>1, <2>2, MildSteps
<1>13. CASE Skips(r)
  <2>1. Moves(r, "factor", "issue") /\ Whole(r) /\ Still /\ mfa' = mfa /\ mfa[job[r].u].st # "active"
    BY <1>13 DEF Skips, Still, IsEnrolled
  <2>2. job[r].op = "login"
    BY <1>3, <2>1 DEF OpOK
  <2>3. GoneOK(pc[r], job[r])'
    BY <1>0, <1>3, <2>1, <2>2 DEF GoneOK, Whole
  <2> QED
    BY <1>2, <2>1, <2>3, MildSteps
<1>14. CASE Challenges(r)
  <2> DEFINE n == job[r].no
             v == job[r].u
  <2>1. /\ Return(r) /\ UNCHANGED <<users, sessions, mfa, issued>>
        /\ chals' = [chals EXCEPT ![n] = v] /\ Active(r)
    BY <1>14 DEF Challenges, Frame, Active
  <2>2. /\ GoneOK(pc[r], job[r])'
        /\ \A q \in Requests \ {r} : pc'[q] = pc[q] /\ job'[q] = job[q]
    BY <1>0, <2>1, GoneReturn, OthersStay
  <2>3. UsersGrow
    BY <2>1 DEF UsersGrow, Seen, Gone
  <2>4. ASSUME NEW q \in Requests \ {r} PROVE GoneOK(pc[q], job[q])'
    <3>1. job[q].chal \in Chals => job[q].chal # n
      <4>1. job[q].chal # None => Past(job[q].chal)
        BY DEF PastInv, PastOK
      <4>2. job[q].chal \in Chals => job[q].chal # None
        BY ConstantsOK DEF Chals, None, ConstantsOK
      <4> QED
        BY <2>1, <4>1, <4>2 DEF Past
    <3>2. chals \in [Chals -> Ids \cup {NoId}]
      BY <1>0 DEF AuthInv, StoreInv
    <3> HIDE DEF n, v
    <3>3. job[q].chal \in Chals => chals'[job[q].chal] = chals[job[q].chal]
      BY <2>1, <3>1, <3>2
    <3> QED
      BY <2>1, <2>2, <2>3, <3>3, GoneFrame DEF EarnedInv
  <2> QED
    BY <2>1, <2>2, <2>4 DEF EarnedInv, SessionsAreEarned
<1>15. CASE Takes(r)
  <2> DEFINE c == job[r].chal
  <2>1. /\ Moves(r, "take", "subject") /\ UNCHANGED <<users, sessions, mfa, issued>>
        /\ chals' = [chals EXCEPT ![c] = NoId] /\ job'[r].u = chals[c] /\ chals[c] \in Ids
    BY <1>15 DEF Takes, Frame
  <2>2. Mild
    <3>1. \A d \in Chals : chals'[d] \in Ids => chals'[d] = chals[d]
      BY <2>1, ConstantsOK DEF ConstantsOK, BaseInv, AuthInv, StoreInv
    <3> QED
      BY <2>1, <3>1 DEF Mild, SessionsKept, UsersGrow, Seen, Gone
  <2>3. ~job[r].alive => users'[job'[r].u].role = "deleted"
    BY <1>0, <1>3, <2>1 DEF GoneOK, Gone
  <2>4. GoneOK(pc[r], job[r])'
    BY <1>0, <1>3, <2>1, <2>3 DEF GoneOK, Gone
  <2> QED
    BY <1>2, <2>1, <2>2, <2>4
<1>16. ASSUME NEW l, Confirms(r, l) PROVE EarnedInv'
  <2>1. Moves(r, "subject", l) /\ Still /\ InFile(job[r].u) /\ l \in {"code", "issue"}
    BY <1>16 DEF Confirms
  <2>2. job[r].alive
    BY <1>0, <1>3, <2>1 DEF GoneOK, Gone, InFile, Roles
  <2>3. job[r].op # "login"
    BY <1>3, <2>1 DEF OpOK
  <2>4. GoneOK(pc[r], job[r])'
    BY <1>0, <1>3, <2>1, <2>2, <2>3 DEF GoneOK
  <2> QED
    BY <1>2, <2>1, <2>4, MildSteps
<1>17. CASE Accepts(r)
  <2>1. /\ Moves(r, "code", "reset") /\ Untouched
        /\ mfa' = mfa \/ mfa' = [mfa EXCEPT ![job[r].u].used = TRUE]
    BY <1>17 DEF Accepts
  <2>2. \A u \in Ids : mfa'[u].gen = mfa[u].gen /\ mfa'[u].st = mfa[u].st
    BY <1>0, <2>1 DEF AuthInv, StoreInv, RowType
  <2>3. Mild
    BY <2>1, <2>2 DEF Untouched, Frame, Mild, SessionsKept, UsersGrow, Seen, Gone
  <2>4. job[r].op # "login"
    BY <1>3, <2>1 DEF OpOK
  <2>5. GoneOK(pc[r], job[r])'
    BY <1>0, <1>3, <2>1, <2>4 DEF GoneOK
  <2> QED
    BY <1>2, <2>1, <2>3, <2>5
<1>18. CASE Validates(r)
  <2>1. /\ Moves(r, "validate", "rotate") /\ Still /\ UsersGrow /\ job[r].tok \in Tokens
        /\ sessions[job[r].tok].st = "live" /\ job'[r].u = sessions[job[r].tok].user
    BY <1>18 DEF Validates, Still
  <2>2. job[r].tok # None /\ job'[r].u \in Ids
    BY <1>0, <2>1, ConstantsOK DEF AuthInv, StoreInv, Tokens, None, ConstantsOK
  <2>3. ~job[r].alive => users'[job'[r].u].role = "deleted"
    BY <1>0, <1>3, <2>1, <2>2 DEF GoneOK, UsersGrow, Gone
  <2>4. GoneOK(pc[r], job[r])'
    BY <1>0, <1>3, <2>1, <2>3 DEF GoneOK, Gone
  <2> QED
    BY <1>2, <2>1, <2>4, MildSteps
<1>19. CASE Rotates(r)
  <2>1. Moves(r, "rotate", "subject") /\ Still /\ UsersGrow /\ Whole(r) /\ pc[r] = "rotate"
    BY <1>19 DEF Rotates, Still, Moves
  <2>2. job[r].u \in Ids
    BY <1>0, <2>1, PhaseFacts DEF WithUser
  <2>3. ~job[r].alive => users'[job'[r].u].role = "deleted"
    BY <1>0, <2>1, <2>2 DEF GoneOK, UsersGrow, Gone, Whole
  <2>4. GoneOK(pc[r], job[r])'
    BY <1>0, <1>3, <2>1, <2>3 DEF GoneOK, Gone
  <2> QED
    BY <1>2, <2>1, <2>4, MildSteps
<1>20. CASE Creates(r)
  <2>1. Moves(r, "admin", "issue") /\ Still
    BY <1>20 DEF Creates
  <2>2. job[r].op = "setup"
    BY <1>3, <2>1 DEF OpOK
  <2>3. GoneOK(pc[r], job[r])'
    BY <1>0, <1>3, <2>1, <2>2 DEF GoneOK
  <2> QED
    BY <1>2, <2>1, <2>3, MildSteps
<1>21. ASSUME NEW u \in Ids, NEW row \in RowType, Enrols(r, u, row) PROVE EarnedInv'
  <2>1. /\ Active(r) /\ Return(r) /\ UNCHANGED <<users, sessions, chals, issued>>
        /\ mfa' = [mfa EXCEPT ![u] = row]
        /\ row = NoRow \/ row.gen = job[r].no + 1 \/ (row.gen = mfa[u].gen /\ row.st = "active")
    BY <1>21 DEF Enrols, Untouched, Frame
  <2>2. /\ GoneOK(pc[r], job[r])'
        /\ \A q \in Requests \ {r} : pc'[q] = pc[q] /\ job'[q] = job[q]
    BY <1>0, <2>1, GoneReturn, OthersStay
  <2>3. UsersGrow
    BY <2>1 DEF UsersGrow, Seen, Gone
  <2>4. mfa'[u] = row /\ \A v \in Ids \ {u} : mfa'[v] = mfa[v]
    BY <1>0, <2>1 DEF AuthInv, StoreInv
  <2>5. ASSUME NEW q \in Requests \ {r} PROVE GoneOK(pc[q], job[q])'
    <3>1. job[q].gen # 0 => job[q].gen # job[r].no + 1
      BY <2>1 DEF PastInv, PastOK, PastGen
    <3>2. ASSUME NEW v \in Ids, job[q].gen # 0, mfa'[v].gen = job[q].gen
          PROVE  mfa[v].gen = job[q].gen /\ (mfa[v].st = "active" => mfa'[v].st = "active")
      BY <2>1, <2>4, <3>1, <3>2 DEF NoRow
    <3> QED
      BY <2>1, <2>2, <2>3, <3>2, GoneFrame DEF EarnedInv
  <2> QED
    BY <2>1, <2>2, <2>5 DEF EarnedInv, SessionsAreEarned
<1>22. CASE Issues(r)
  <2> DEFINE n == minted + 1
             v == job[r].u
  <2>1. /\ pc[r] = "issue" /\ minted < MaxTokens /\ UNCHANGED <<users, mfa, chals>>
        /\ sessions' = [sessions EXCEPT ![n] = [user |-> v, st |-> "live"]]
        /\ \A s \in Tokens \ {n} : issued'[s] = issued[s]
        /\ issued'[n].alive = job[r].alive
        /\ issued'[n].bypass => job[r].op = "login" /\ job[r].gen # 0 /\ mfa[v].gen = job[r].gen
        /\ Moves(r, "issue", "consume") \/ Return(r)
    BY <1>22 DEF Issues
  <2>2. issued'[n].alive /\ ~issued'[n].bypass
    BY <1>0, <2>1 DEF GoneOK
  <2>3. SessionsAreEarned'
    <3> HIDE DEF n
    <3> QED
      BY <2>1, <2>2 DEF EarnedInv, SessionsAreEarned
  <2>4. GoneOK(pc[r], job[r])'
    <3>1. CASE Return(r)
      BY <3>1, GoneReturn
    <3>2. CASE Moves(r, "issue", "consume")
      BY <1>0, <1>3, <3>2 DEF GoneOK
    <3> QED
      BY <2>1, <3>1, <3>2
  <2>5. \A q \in Requests \ {r} : pc'[q] = pc[q] /\ job'[q] = job[q]
    BY <1>0, <2>1, OthersStay
  <2>6. UsersGrow
    BY <2>1 DEF UsersGrow, Seen, Gone
  <2>7. ASSUME NEW q \in Requests \ {r} PROVE GoneOK(pc[q], job[q])'
    <3>1. CASE pc[q] = "idle"
      BY <2>1, <2>5, <3>1 DEF GoneOK, EarnedInv
    <3>2. CASE Active(q)
      <4>1. job[q].b \in Browsers /\ minted \in Nat
        BY <1>0, <3>2 DEF Active, AuthInv, ReqInv, StoreInv
      <4>2. job[q].tok \in Tokens => job[q].tok # None /\ Holds(job[q].b, job[q].tok)
        BY <3>2, ConstantsOK DEF Holds, Tokens, None, ConstantsOK
      <4>3. job[q].tok \in Tokens => job[q].tok # n
        <5>1. job[q].tok \in Tokens => job[q].tok <= minted
          BY <4>1, <4>2 DEF TokenInv
        <5> QED
          BY <4>1, <5>1
      <4>4. job[q].tok \in Tokens => sessions'[job[q].tok] = sessions[job[q].tok]
        <5> HIDE DEF n, v
        <5> QED
          BY <1>0, <2>1, <4>3 DEF AuthInv, StoreInv
      <4> QED
        BY <2>1, <2>5, <2>6, <4>4, GoneFrame DEF EarnedInv
    <3> QED
      BY <3>1, <3>2 DEF Active
  <2> QED
    BY <2>3, <2>4, <2>7 DEF EarnedInv
<1> QED
  BY <1>4, <1>5, <1>6, <1>7, <1>8, <1>9, <1>10, <1>11, <1>12, <1>13, <1>14, <1>15, <1>16, <1>17, <1>18,
     <1>19, <1>20, <1>21, <1>22 DEF StepEffect

(* Every step of the system: who is not in the file when a request comes   *)
(* with his challenge or token has been deleted.                           *)
LEMMA NextEarned ==
  ASSUME BaseInv, BaseInv', PastInv, TokenInv, EarnedInv, NextEffect
  PROVE  EarnedInv'
<1>0. AuthInv
  BY DEF BaseInv
<1>1. CASE UNCHANGED vars
  BY <1>1 DEF vars, stores, ghosts, EarnedInv, SessionsAreEarned, GoneOK, Gone
<1>2. ASSUME NEW r \in Requests, NEW b \in Browsers, NEW op \in AllOps, Arrives(r, b, op) PROVE EarnedInv'
  <2> DEFINE c == jar[b].chal
             t == Sent(b)
  <2>1. /\ (\A q \in Requests \ {r} : pc'[q] = pc[q] /\ job'[q] = job[q]) /\ pc'[r] = op
        /\ UNCHANGED <<users, sessions, mfa, chals, issued>> /\ job'[r].op = op
    BY <1>0, <1>2 DEF Arrives, Goto, stores, ghosts, AuthInv, ReqInv
  <2>2. Mild
    BY <2>1 DEF Mild, SessionsKept, UsersGrow, Seen, Gone
  <2>3. /\ op = "verify" => job'[r].chal = c /\ c # None
        /\ ~job'[r].alive =>
             \/ op = "verify" /\ (chals[c] \in Ids => ~InFile(chals[c]))
             \/ op = "refresh" /\ job'[r].tok = t /\ (t # None => ~InFile(sessions[t].user))
    BY <1>2 DEF Arrives
  <2>4. users \in [Ids -> User]
    BY <1>0 DEF AuthInv, StoreInv
  <2>5. \A u \in Ids : Seen(u) /\ ~InFile(u) => users[u].role = "deleted"
    BY <2>4 DEF User, Seen, InFile
  <2>6. op = "verify" => c \in Chals
    BY <2>3 DEF PastInv
  <2>7. op = "verify" /\ ~job'[r].alive /\ chals[c] \in Ids => users[chals[c]].role = "deleted"
    BY <2>3, <2>5, <2>6 DEF PastInv
  <2>8. t # None => t \in Tokens
    BY <1>0 DEF Sent, AuthInv, StoreInv, JarType
  <2>9. op = "refresh" /\ ~job'[r].alive /\ t # None /\ sessions[t].st = "live"
          => users[sessions[t].user].role = "deleted"
    BY <1>0, <2>3, <2>5, <2>8 DEF PastInv, AuthInv, StoreInv
  <2> HIDE DEF c, t
  <2>10. GoneOK(pc[r], job[r])'
    BY <2>1, <2>3, <2>7, <2>9 DEF GoneOK, Gone, AllOps
  <2> QED
    BY <2>1, <2>2, <2>10, EarnedFrame
<1>3. CASE Elapses
  <2>1. /\ \A r \in Requests : pc'[r] = "idle" /\ pc[r] = "idle" /\ job'[r] = job[r]
        /\ UNCHANGED issued
    BY <1>3 DEF Elapses, Frame
  <2>2. \A r \in Requests : GoneOK(pc[r], job[r])'
    BY <2>1 DEF GoneOK, EarnedInv
  <2> QED
    BY <2>1, <2>2 DEF EarnedInv, SessionsAreEarned
<1>4. CASE Restarts
  <2>1. (\A r \in Requests : pc'[r] = "idle" /\ job'[r] = NoJob) /\ UNCHANGED issued
    BY <1>4 DEF Restarts
  <2>2. \A r \in Requests : GoneOK(pc[r], job[r])'
    BY <2>1 DEF GoneOK, NoJob
  <2> QED
    BY <2>1, <2>2 DEF EarnedInv, SessionsAreEarned
<1> QED
  BY <1>1, <1>2, <1>3, <1>4, StepEarned DEF NextEffect

(* With what holds of the requests, the numbers and the tokens. *)
LEMMA EarnedInvariant == Spec => []EarnedInv
<1>1. Init => EarnedInv
  <2> SUFFICES ASSUME Init PROVE EarnedInv
    OBVIOUS
  <2>1. (\A r \in Requests : pc[r] = "idle" /\ job[r] = NoJob) /\ \A t \in Tokens : issued[t] = NoIssue
    BY DEF Init
  <2>2. \A r \in Requests : GoneOK(pc[r], job[r])
    BY <2>1 DEF GoneOK, NoJob
  <2> QED
    BY <2>1, <2>2 DEF EarnedInv, SessionsAreEarned, NoIssue
<1>2. BaseInv /\ BaseInv' /\ PastInv /\ TokenInv /\ EarnedInv /\ [Next]_vars => EarnedInv'
  BY NextIsEffect, NextEarned, ConstantsOK
<1> QED
  BY <1>1, <1>2, BaseInvariant, PastInvariant, TokenInvariant, PTL DEF Spec

(* Verify and Refresh give no session to a user who was deleted before the *)
(* request came, and Login none to one who has been enrolled since its     *)
(* password was checked: the subject is looked up after the challenge or   *)
(* the token was taken, and the factor after the password, however the     *)
(* requests interleave and wherever NRCC crashes.                          *)
THEOREM EarnedSessions == Spec => []SessionsAreEarned
<1>1. EarnedInv => SessionsAreEarned
  BY DEF EarnedInv
<1> QED
  BY <1>1, EarnedInvariant, PTL

-----------------------------------------------------------------------------
(* Credentials are used once *)

(* What a request keeps on its way. *)
LEMMA MoveFacts ==
  ASSUME BaseInv, NEW r \in Requests, NEW k, NEW l, Moves(r, k, l), k # "idle"
  PROVE  /\ pc[r] = k /\ pc'[r] = l /\ OpOK(k, job[r].op) /\ job'[r].op = job[r].op
         /\ job'[r].chal = job[r].chal /\ job'[r].tok = job[r].tok /\ job'[r].code = job[r].code
         /\ \A q \in Requests \ {r} : pc'[q] = pc[q] /\ job'[q] = job[q]
BY OthersStay DEF Moves, Kept, BaseInv, FlowInv, Active

(* The phases that a request reaches by a step of its own. *)
Late == {"lookup", "take", "subject", "code", "record", "reset", "issue", "rotate"}

(* Who is in such a phase was there before or has made a step. *)
LEMMA LateRequest ==
  ASSUME BaseInv, NextEffect, NEW q \in Requests, pc'[q] \in Late
  PROVE  (pc'[q] = pc[q] /\ job'[q] = job[q]) \/ StepEffect(q)
<1>0. AuthInv
  BY DEF BaseInv
<1>1. ASSUME NEW r \in Requests, StepEffect(r), q # r PROVE pc'[q] = pc[q] /\ job'[q] = job[q]
  BY <1>0, <1>1, StepShape, OthersStay
<1>2. ASSUME NEW r \in Requests, NEW b, NEW op \in AllOps, Arrives(r, b, op)
      PROVE  pc'[q] = pc[q] /\ job'[q] = job[q]
  <2>1. pc'[r] = op /\ \A p \in Requests \ {r} : pc'[p] = pc[p] /\ job'[p] = job[p]
    BY <1>0, <1>2 DEF Arrives, Goto, AuthInv, ReqInv
  <2>2. q # r
    BY <2>1 DEF Late, AllOps
  <2> QED
    BY <2>1, <2>2
<1>3. CASE UNCHANGED vars \/ Elapses
  BY <1>3 DEF vars, Elapses
<1>4. CASE Restarts
  BY <1>4 DEF Restarts, Late
<1> QED
  BY <1>1, <1>2, <1>3, <1>4 DEF NextEffect

(* The step that leads to each of them. *)
LEMMA LateMoves ==
  ASSUME BaseInv, NEW r \in Requests, StepEffect(r)
  PROVE  /\ pc'[r] = "lookup" => Admits(r)
         /\ pc'[r] = "take" => Identifies(r)
         /\ pc'[r] = "subject" => Takes(r) \/ Rotates(r)
         /\ pc'[r] = "code" => Confirms(r, "code")
         /\ pc'[r] = "record" => \E k \in Labels : Fails(r, k)
         /\ pc'[r] = "reset" => Finds(r) \/ Accepts(r)
         /\ pc'[r] = "issue" => Clears(r, "issue") \/ Skips(r) \/ Confirms(r, "issue") \/ Creates(r)
         /\ pc'[r] = "rotate" => Validates(r)
<1>0. AuthInv
  BY DEF BaseInv
<1>1. ASSUME NEW k, NEW l, Moves(r, k, l) PROVE pc'[r] = l
  BY <1>0, <1>1, OthersStay
<1>2. Return(r) => pc'[r] = "idle"
  BY <1>0, OthersStay
<1>3. Ends(r) \/ Counts(r) \/ Challenges(r) \/ Consumes(r) => pc'[r] = "idle"
  BY <1>2 DEF Ends, Counts, Challenges, Consumes
<1>4. \A u \in Ids, row \in RowType : Enrols(r, u, row) => pc'[r] = "idle"
  BY <1>2 DEF Enrols
<1>5. \A k, l \in Labels : Passes(r, k, l) => pc'[r] \in {"factor", "await", "unenroll"}
  <2> SUFFICES ASSUME NEW k \in Labels, NEW l \in Labels, Passes(r, k, l)
               PROVE  pc'[r] \in {"factor", "await", "unenroll"}
    OBVIOUS
  <2>1. Moves(r, k, l) /\ l \in {"factor", "await", "unenroll"}
    BY DEF Passes
  <2> QED
    BY <1>1, <2>1
<1>6. /\ LocksSetup(r) => pc'[r] = "inspect"
      /\ LocksRefresh(r) => pc'[r] = "validate"
      /\ Admits(r) => pc'[r] = "lookup"
      /\ Identifies(r) => pc'[r] = "take"
      /\ Takes(r) => pc'[r] = "subject"
      /\ Rotates(r) => pc'[r] = "subject"
      /\ Finds(r) => pc'[r] = "reset"
      /\ Accepts(r) => pc'[r] = "reset"
      /\ Skips(r) => pc'[r] = "issue"
      /\ Creates(r) => pc'[r] = "issue"
      /\ Validates(r) => pc'[r] = "rotate"
      /\ Inspects(r) => pc'[r] = "admin"
  BY <1>1 DEF LocksSetup, LocksRefresh, Admits, Identifies, Takes, Rotates, Finds, Accepts, Skips, Creates,
     Validates, Inspects
<1>7. \A k \in Labels : Fails(r, k) => pc'[r] = "record"
  BY <1>1 DEF Fails
<1>8. \A l \in Labels : Clears(r, l) => pc'[r] = l /\ l \in {"issue", "rehash", "factor"}
  BY <1>1 DEF Clears
<1>9. \A l \in Labels : Confirms(r, l) => pc'[r] = l /\ l \in {"code", "issue"}
  BY <1>1 DEF Confirms
<1>10. Issues(r) => pc'[r] \in {"consume", "idle"}
  <2>1. Issues(r) => Moves(r, "issue", "consume") \/ Return(r)
    BY DEF Issues
  <2> QED
    BY <1>1, <1>2, <2>1
<1> QED
  BY <1>3, <1>4, <1>5, <1>6, <1>7, <1>8, <1>9, <1>10 DEF StepEffect

(* What has been used for a session, and who is about to use it: a refresh *)
(* token, a challenge, a recovery code.                                    *)
Rotated(t) == \E s \in Tokens : issued[s].via = "refresh" /\ issued[s].from = t
Rotating(r) == job[r].op = "refresh" /\ pc[r] \in {"rotate", "subject", "issue"}
RotationInv ==
  /\ \A t \in Tokens : Rotated(t) => t <= minted /\ sessions[t].st # "live"
  /\ \A r \in Requests : Rotating(r) =>
       /\ job[r].tok \in Tokens /\ ~Rotated(job[r].tok)
       /\ pc[r] # "rotate" => sessions[job[r].tok].st # "live"
  /\ \A s, t \in Tokens : s # t /\ issued[s].via = "refresh" /\ issued[t].via = "refresh" =>
       issued[s].from # issued[t].from

(* Two requests that refresh one token come from one browser, and the lock *)
(* of its address lets only one of them in.                                *)
LEMMA RotatesAlone ==
  ASSUME BaseInv, TokenInv, NEW q \in Requests, NEW r \in Requests, Rotating(q), Rotating(r),
         job[q].tok \in Tokens, job[q].tok = job[r].tok
  PROVE  q = r
<1>1. Active(q) /\ Active(r) /\ job[q].b \in Browsers /\ job[r].b \in Browsers
  BY DEF BaseInv, AuthInv, ReqInv, Rotating, Active
<1>2. job[q].tok # None
  BY ConstantsOK DEF Tokens, None, ConstantsOK
<1>3. Holds(job[q].b, job[q].tok) /\ Holds(job[r].b, job[q].tok)
  BY <1>1, <1>2 DEF Holds
<1>4. job[q].b = job[r].b
  BY <1>1, <1>3 DEF TokenInv
<1> QED
  BY <1>4 DEF BaseInv, FlowInv, Rotating, RefreshHeld, ExtractIP

(* Every step of the system. *)
LEMMA NextRotate ==
  ASSUME BaseInv, BaseInv', TokenInv, RotationInv, NextEffect
  PROVE  RotationInv'
<1>0. AuthInv /\ minted \in Nat /\ MaxTokens \in Nat /\ Tokens = 1..MaxTokens
  BY ConstantsOK DEF BaseInv, AuthInv, StoreInv, ConstantsOK, Tokens
<1>1. CASE Quiet
  <2>1. \A t : Rotated(t)' <=> Rotated(t)
    BY <1>1 DEF Quiet, Rotated
  <2>2. ASSUME NEW q \in Requests, Rotating(q)'
        PROVE  /\ job'[q].tok \in Tokens /\ ~Rotated(job'[q].tok)
               /\ pc'[q] # "rotate" => sessions'[job'[q].tok].st # "live"
    <3>1. job'[q].op = "refresh" /\ pc'[q] \in {"rotate", "subject", "issue"}
      BY <2>2 DEF Rotating
    <3>2. CASE pc'[q] = pc[q] /\ job'[q] = job[q]
      BY <1>1, <3>1, <3>2 DEF RotationInv, Rotating, Quiet, SessionsKept
    <3>3. ASSUME NEW k, Moves(q, k, "issue") \/ Moves(q, k, "subject"), k \in {"rotate", "subject"},
                 k = "subject" \/ sessions'[job[q].tok].st # "live"
          PROVE  /\ job'[q].tok \in Tokens /\ ~Rotated(job'[q].tok)
                 /\ sessions'[job'[q].tok].st # "live"
      <4>1. pc[q] = k /\ job[q].op = "refresh" /\ job'[q].tok = job[q].tok
        BY <3>1, <3>3, MoveFacts
      <4> QED
        BY <1>1, <3>3, <4>1 DEF RotationInv, Rotating, Quiet, SessionsKept
    <3>4. CASE StepEffect(q)
      <4>1. CASE pc'[q] = "rotate"
        <5>1. Moves(q, "validate", "rotate") /\ job[q].tok \in Tokens /\ sessions[job[q].tok].st = "live"
          BY <3>4, <4>1, LateMoves DEF Validates
        <5> QED
          BY <4>1, <5>1, MoveFacts DEF RotationInv
      <4>2. CASE pc'[q] = "subject"
        <5>1. ~Takes(q)
          <6>1. Takes(q) => Moves(q, "take", "subject")
            BY DEF Takes
          <6> QED
            BY <3>1, <6>1, MoveFacts DEF OpOK
        <5>2. Moves(q, "rotate", "subject") /\ (job[q].tok \in Tokens => sessions'[job[q].tok].st # "live")
          BY <3>4, <4>2, <5>1, LateMoves DEF Rotates
        <5>3. pc[q] = "rotate" /\ job[q].op = "refresh"
          BY <3>1, <5>2, MoveFacts
        <5>4. job[q].tok \in Tokens
          BY <5>3 DEF RotationInv, Rotating
        <5> QED
          BY <3>3, <5>2, <5>4
      <4>3. CASE pc'[q] = "issue"
        <5>1. ~Skips(q) /\ ~Creates(q) /\ ~Clears(q, "issue")
          <6>1. /\ Skips(q) => Moves(q, "factor", "issue")
                /\ Creates(q) => Moves(q, "admin", "issue")
                /\ Clears(q, "issue") => job[q].op = "verify" /\ Moves(q, "reset", "issue")
            BY DEF Skips, Creates, Clears
          <6> QED
            BY <3>1, <6>1, MoveFacts DEF OpOK
        <5>2. Moves(q, "subject", "issue")
          BY <3>4, <4>3, <5>1, LateMoves DEF Confirms
        <5> QED
          BY <3>3, <5>2
      <4> QED
        BY <3>1, <4>1, <4>2, <4>3
    <3> QED
      BY <3>1, <3>2, <3>4, LateRequest DEF Late
  <2>3. \A t \in Tokens : Rotated(t)' => t <= minted' /\ sessions'[t].st # "live"
    BY <1>1, <2>1 DEF Quiet, SessionsKept, RotationInv
  <2>4. \A q \in Requests : Rotating(q)' =>
          /\ job'[q].tok \in Tokens /\ ~Rotated(job[q].tok)'
          /\ pc'[q] # "rotate" => sessions'[job'[q].tok].st # "live"
    <3>1. \A q \in Requests : Rotated(job[q].tok)' <=> Rotated(job'[q].tok)
      BY <1>1 DEF Quiet, Rotated
    <3> QED
      BY <2>2, <3>1
  <2> QED
    BY <1>1, <2>3, <2>4 DEF Quiet, RotationInv
<1>2. ASSUME NEW r \in Requests, Issues(r) PROVE RotationInv'
  <2> DEFINE n == minted + 1
             v == job[r].u
             T == job[r].tok
  <2>1. /\ pc[r] = "issue" /\ minted < MaxTokens /\ minted' = n
        /\ sessions' = [sessions EXCEPT ![n] = [user |-> v, st |-> "live"]]
        /\ \A s \in Tokens \ {n} : issued'[s] = issued[s]
        /\ (issued'[n].via = "refresh" <=> job[r].op = "refresh")
        /\ job[r].op = "refresh" => issued'[n].from = T
        /\ Moves(r, "issue", "consume") \/ Return(r)
    BY <1>2 DEF Issues
  <2>2. n \in Tokens /\ n = minted + 1 /\ sessions \in [Tokens -> SessionType]
    BY <1>0, <2>1 DEF AuthInv, StoreInv
  <2>3. job[r].op = "refresh" => Rotating(r) /\ T \in Tokens /\ ~Rotated(T) /\ sessions[T].st # "live" /\ T <= minted
    <3>1. job[r].op = "refresh" => Rotating(r) /\ T \in Tokens /\ ~Rotated(T) /\ sessions[T].st # "live"
      BY <2>1 DEF RotationInv, Rotating
    <3>2. job[r].b \in Browsers
      BY <1>0, <2>1 DEF AuthInv, ReqInv
    <3>3. T \in Tokens => Holds(job[r].b, T)
      BY <2>1, ConstantsOK DEF Holds, Active, Tokens, None, ConstantsOK
    <3> QED
      BY <3>1, <3>2, <3>3 DEF TokenInv
  <2>4. (\A q \in Requests \ {r} : pc'[q] = pc[q] /\ job'[q] = job[q]) /\ pc'[r] \in {"consume", "idle"}
    BY <1>0, <2>1, OthersStay
  <2>5. \A q \in Requests \ {r} : Rotating(q) /\ job[r].op = "refresh" => job[q].tok # T
    BY <2>3, RotatesAlone
  <2>6. ~Rotated(n) /\ (\A q \in Requests : Rotating(q) => job[q].tok <= minted)
    <3>1. ~Rotated(n)
      BY <1>0, <2>2 DEF RotationInv
    <3>2. ASSUME NEW q \in Requests, Rotating(q) PROVE job[q].tok <= minted
      <4>1. Active(q) /\ job[q].b \in Browsers /\ job[q].tok \in Tokens
        BY <1>0, <3>2 DEF AuthInv, ReqInv, Rotating, Active, RotationInv
      <4>2. Holds(job[q].b, job[q].tok)
        BY <4>1, ConstantsOK DEF Holds, Tokens, None, ConstantsOK
      <4> QED
        BY <4>1, <4>2 DEF TokenInv
    <3> QED
      BY <3>1, <3>2
  <2> HIDE DEF n, v, T
  <2>7. ASSUME NEW s \in Tokens, issued'[s].via = "refresh"
        PROVE  Rotated(issued'[s].from) \/ (issued'[s].from = T /\ job[r].op = "refresh")
    BY <2>1, <2>2, <2>7 DEF Rotated
  <2>8. \A t \in Tokens \ {n} : sessions'[t] = sessions[t]
    BY <2>1, <2>2
  <2>9. \A t \in Tokens : Rotated(t)' => t <= minted' /\ sessions'[t].st # "live"
    <3> SUFFICES ASSUME NEW t \in Tokens, Rotated(t)' PROVE t <= minted' /\ sessions'[t].st # "live"
      OBVIOUS
    <3>1. t <= minted /\ sessions[t].st # "live"
      BY <2>3, <2>7 DEF RotationInv, Rotated
    <3> QED
      BY <1>0, <2>1, <2>2, <2>8, <3>1
  <2>10. ASSUME NEW q \in Requests, Rotating(q)'
         PROVE  /\ job'[q].tok \in Tokens /\ ~Rotated(job[q].tok)'
                /\ pc'[q] # "rotate" => sessions'[job'[q].tok].st # "live"
    <3>1. q # r
      BY <2>4, <2>10 DEF Rotating
    <3>2. pc'[q] = pc[q] /\ job'[q] = job[q]
      BY <2>4, <3>1
    <3>3. Rotating(q)
      BY <2>10, <3>2 DEF Rotating
    <3> DEFINE t == job[q].tok
    <3>4. /\ t \in Tokens /\ ~Rotated(t) /\ t <= minted /\ (pc[q] # "rotate" => sessions[t].st # "live")
          /\ job[r].op = "refresh" => t # T
      BY <2>5, <2>6, <3>1, <3>3 DEF RotationInv
    <3>5. job'[q].tok = t /\ pc'[q] = pc[q]
      BY <3>2
    <3> HIDE DEF t
    <3>6. t # n
      BY <1>0, <2>2, <3>4
    <3>7. ~Rotated(job[q].tok)'
      BY <2>7, <3>4, <3>5 DEF Rotated
    <3> QED
      BY <2>8, <3>4, <3>5, <3>6, <3>7
  <2>11. ASSUME NEW s \in Tokens, NEW t \in Tokens, s # t, issued'[s].via = "refresh", issued'[t].via = "refresh"
         PROVE  issued'[s].from # issued'[t].from
    <3>1. CASE s # n /\ t # n
      BY <2>1, <2>11, <3>1 DEF RotationInv
    <3>2. CASE s = n
      BY <2>1, <2>3, <2>11, <3>2 DEF Rotated
    <3>3. CASE t = n
      BY <2>1, <2>3, <2>11, <3>3 DEF Rotated
    <3> QED
      BY <3>1, <3>2, <3>3
  <2> QED
    BY <2>9, <2>10, <2>11 DEF RotationInv
<1> QED
  BY <1>0, <1>1, <1>2, NextQuiet

(* A challenge: it is not pending once it is being answered. *)
Answered(c) == \E s \in Tokens : issued[s].via = "mfa" /\ issued[s].from = c
Answering(r) == job[r].op = "verify" /\ pc[r] \in {"subject", "code", "reset", "issue"}
AnswerInv ==
  /\ \A c \in Nat : Answered(c) => c \in Chals /\ chals[c] \notin Ids /\ Past(c)
  /\ \A r \in Requests : Answering(r) =>
       job[r].chal \in Chals /\ chals[job[r].chal] \notin Ids /\ ~Answered(job[r].chal)
  /\ \A q, r \in Requests : Answering(q) /\ Answering(r) /\ job[q].chal = job[r].chal => q = r
  /\ \A s, t \in Tokens : s # t /\ issued[s].via = "mfa" /\ issued[t].via = "mfa" =>
       issued[s].from # issued[t].from

(* A challenge of a request that is over is never made again. *)
LEMMA ChalsClosed ==
  ASSUME BaseInv, NextEffect, NEW c \in Chals, Past(c), chals[c] \notin Ids
  PROVE  chals'[c] \notin Ids
<1>0. AuthInv /\ chals \in [Chals -> Ids \cup {NoId}] /\ NoId \notin Ids
  BY ConstantsOK DEF BaseInv, AuthInv, StoreInv, ConstantsOK
<1>1. CASE UNCHANGED chals
  BY <1>1
<1>2. UNCHANGED vars => UNCHANGED chals
  BY DEF vars
<1>3. CASE Elapses \/ Restarts
  BY <1>0, <1>3 DEF Elapses, Restarts
<1>4. ASSUME NEW r, NEW b, NEW op, Arrives(r, b, op) PROVE UNCHANGED chals
  BY <1>4 DEF Arrives
<1>5. ASSUME NEW r \in Requests, Takes(r) PROVE chals'[c] \notin Ids
  <2> DEFINE d == job[r].chal
  <2>1. chals' = [chals EXCEPT ![d] = NoId]
    BY <1>5 DEF Takes
  <2> HIDE DEF d
  <2> QED
    BY <1>0, <2>1
<1>6. ASSUME NEW r \in Requests, Challenges(r) PROVE chals'[c] \notin Ids
  <2> DEFINE n == job[r].no
             v == job[r].u
  <2>1. chals' = [chals EXCEPT ![n] = v] /\ Active(r)
    BY <1>6 DEF Challenges, Active
  <2>2. n # c
    BY <2>1 DEF Past
  <2> HIDE DEF n, v
  <2> QED
    BY <1>0, <2>1, <2>2
<1>7. ASSUME NEW r \in Requests, StepEffect(r), ~Takes(r), ~Challenges(r) PROVE UNCHANGED chals
  <2>1. Still => UNCHANGED chals
    BY DEF Still
  <2>2. \A u, row, k, l : Enrols(r, u, row) \/ Fails(r, k) \/ Clears(r, l) => UNCHANGED chals
    BY DEF Enrols, Fails, Clears, Untouched
  <2>3. Counts(r) \/ Accepts(r) \/ Consumes(r) \/ Issues(r) => UNCHANGED chals
    BY DEF Counts, Accepts, Consumes, Issues, Untouched
  <2> QED
    BY <1>7, <2>1, <2>2, <2>3, StillSteps DEF StepEffect
<1> QED
  BY <1>1, <1>2, <1>3, <1>4, <1>5, <1>6, <1>7 DEF NextEffect

(* Who answers a challenge did so before or has just taken it. *)
LEMMA AnsweringNew ==
  ASSUME BaseInv, NextEffect, NEW q \in Requests, Answering(q)'
  PROVE  job'[q].chal = job[q].chal /\ (Answering(q) \/ Takes(q))
<1>1. job'[q].op = "verify" /\ pc'[q] \in {"subject", "code", "reset", "issue"}
  BY DEF Answering
<1>2. CASE pc'[q] = pc[q] /\ job'[q] = job[q]
  BY <1>1, <1>2 DEF Answering
<1>3. CASE StepEffect(q)
  <2>1. /\ Takes(q) => Moves(q, "take", "subject")
        /\ Rotates(q) => Moves(q, "rotate", "subject")
        /\ Confirms(q, "code") => Moves(q, "subject", "code")
        /\ Finds(q) => Moves(q, "lookup", "reset")
        /\ Accepts(q) => Moves(q, "code", "reset")
        /\ Clears(q, "issue") => Moves(q, "reset", "issue")
        /\ Skips(q) => Moves(q, "factor", "issue")
        /\ Confirms(q, "issue") => Moves(q, "subject", "issue")
        /\ Creates(q) => Moves(q, "admin", "issue")
    BY DEF Takes, Rotates, Confirms, Finds, Accepts, Clears, Skips, Creates
  <2>2. \/ Takes(q) /\ Moves(q, "take", "subject")
        \/ Moves(q, "rotate", "subject") \/ Moves(q, "subject", "code") \/ Moves(q, "lookup", "reset")
        \/ Moves(q, "code", "reset") \/ Moves(q, "reset", "issue") \/ Moves(q, "factor", "issue")
        \/ Moves(q, "subject", "issue") \/ Moves(q, "admin", "issue")
    BY <1>1, <1>3, <2>1, LateMoves
  <2>3. ASSUME NEW k, NEW l, Moves(q, k, l), k # "idle", k \in {"subject", "code", "reset"} \/ Takes(q)
        PROVE  job'[q].chal = job[q].chal /\ (Answering(q) \/ Takes(q))
    BY <1>1, <2>3, MoveFacts DEF Answering
  <2>4. ~Moves(q, "rotate", "subject") /\ ~Moves(q, "lookup", "reset") /\ ~Moves(q, "factor", "issue")
          /\ ~Moves(q, "admin", "issue")
    BY <1>1, MoveFacts DEF OpOK
  <2> QED
    BY <2>2, <2>3, <2>4
<1> QED
  BY <1>1, <1>2, <1>3, LateRequest DEF Late

(* Every step of the system. *)
LEMMA NextAnswer ==
  ASSUME BaseInv, BaseInv', PastInv, EarnedInv, AnswerInv, NextEffect
  PROVE  AnswerInv'
<1>0. AuthInv /\ Chals \subseteq Nat /\ None \notin Chals
  BY ConstantsOK DEF BaseInv, ConstantsOK, Chals, None
<1>1. ASSUME NEW c \in Chals, Past(c) PROVE Past(c)' /\ (chals[c] \notin Ids => chals'[c] \notin Ids)
  BY <1>0, <1>1, PastStays, ChalsClosed
<1>2. ASSUME NEW q \in Requests, job[q].chal \in Chals PROVE Past(job[q].chal)
  BY <1>0, <1>2 DEF PastInv, PastOK
<1>3. ASSUME NEW q \in Requests, Answering(q)'
      PROVE  /\ job'[q].chal = job[q].chal /\ job[q].chal \in Chals
             /\ chals'[job[q].chal] \notin Ids /\ ~Answered(job[q].chal)
  <2>1. job'[q].chal = job[q].chal /\ (Answering(q) \/ Takes(q))
    BY <1>3, AnsweringNew
  <2> DEFINE c == job[q].chal
  <2>2. CASE Answering(q)
    <3>1. c \in Chals /\ chals[c] \notin Ids /\ ~Answered(c) /\ Past(c)
      BY <1>2, <2>2 DEF AnswerInv
    <3> HIDE DEF c
    <3>2. chals'[c] \notin Ids
      BY <1>1, <3>1
    <3> QED
      BY <2>1, <3>1, <3>2 DEF c
  <2>3. CASE Takes(q)
    <3>1. chals[c] \in Ids /\ chals' = [chals EXCEPT ![c] = NoId] /\ Moves(q, "take", "subject")
      BY <2>3 DEF Takes
    <3>2. job[q].op = "verify"
      BY <3>1, MoveFacts DEF OpOK
    <3>3. c \in Chals
      BY <3>2 DEF EarnedInv, GoneOK, PastInv, PastOK
    <3>4. ~Answered(c)
      BY <1>0, <3>1, <3>3 DEF AnswerInv
    <3>5. chals'[c] \notin Ids
      BY <1>0, <3>1, <3>3, ConstantsOK DEF AuthInv, StoreInv, ConstantsOK
    <3> QED
      BY <2>1, <3>3, <3>4, <3>5
  <2> QED
    BY <2>1, <2>2, <2>3
<1>4. \A q, p \in Requests : Answering(q)' /\ Answering(p)' /\ job'[q].chal = job'[p].chal => q = p
  <2> SUFFICES ASSUME NEW q \in Requests, NEW p \in Requests, Answering(q)', Answering(p)',
                      job'[q].chal = job'[p].chal, q # p
               PROVE  FALSE
    OBVIOUS
  <2>1. /\ job[q].chal = job[p].chal /\ (Answering(q) \/ Takes(q)) /\ (Answering(p) \/ Takes(p))
    BY AnsweringNew
  <2>2. \A x \in Requests : Takes(x) => chals[job[x].chal] \in Ids /\ Moves(x, "take", "subject")
    BY DEF Takes
  <2>3. ~(Takes(q) /\ Takes(p))
    BY <2>2, MoveFacts
  <2> QED
    BY <2>1, <2>2, <2>3 DEF AnswerInv
<1>5. CASE Quiet
  <2>1. \A c \in Nat : Answered(c)' => c \in Chals /\ chals'[c] \notin Ids /\ Past(c)'
    <3> SUFFICES ASSUME NEW c \in Nat, Answered(c)' PROVE c \in Chals /\ chals'[c] \notin Ids /\ Past(c)'
      OBVIOUS
    <3>1. Answered(c)
      BY <1>5 DEF Quiet, Answered
    <3> QED
      BY <1>1, <3>1 DEF AnswerInv
  <2>2. \A q \in Requests : Answering(q)' =>
          job'[q].chal \in Chals /\ chals'[job'[q].chal] \notin Ids /\ ~Answered(job[q].chal)'
    <3> SUFFICES ASSUME NEW q \in Requests, Answering(q)'
                 PROVE  job'[q].chal \in Chals /\ chals'[job'[q].chal] \notin Ids /\ ~Answered(job[q].chal)'
      OBVIOUS
    <3>1. Answered(job[q].chal)' => Answered(job'[q].chal)
      BY <1>5 DEF Quiet, Answered
    <3> QED
      BY <1>3, <3>1
  <2> QED
    BY <1>4, <1>5, <2>1, <2>2 DEF Quiet, AnswerInv
<1>6. ASSUME NEW r \in Requests, Issues(r) PROVE AnswerInv'
  <2> DEFINE n == minted + 1
             C == job[r].chal
  <2>1. /\ pc[r] = "issue" /\ minted < MaxTokens /\ UNCHANGED chals
        /\ \A s \in Tokens \ {n} : issued'[s] = issued[s]
        /\ (issued'[n].via = "mfa" <=> job[r].op = "verify")
        /\ job[r].op = "verify" => issued'[n].from = C
        /\ Moves(r, "issue", "consume") \/ Return(r)
    BY <1>6 DEF Issues
  <2>2. job[r].op = "verify" =>
          Answering(r) /\ C \in Chals /\ chals[C] \notin Ids /\ ~Answered(C) /\ Past(C)
    BY <1>2, <2>1 DEF AnswerInv, Answering
  <2>3. pc'[r] \in {"consume", "idle"}
    BY <1>0, <2>1, OthersStay
  <2>4. ASSUME NEW q \in Requests, Answering(q)' PROVE Answering(q) /\ (job[r].op = "verify" => job[q].chal # C)
    <3>1. q # r
      BY <2>3, <2>4 DEF Answering
    <3>2. pc'[q] = pc[q] /\ job'[q] = job[q]
      BY <1>0, <2>1, <3>1, OthersStay
    <3>3. Answering(q)
      BY <2>4, <3>2 DEF Answering
    <3> QED
      BY <2>2, <3>1, <3>3 DEF AnswerInv
  <2> HIDE DEF n, C
  <2>5. ASSUME NEW s \in Tokens, issued'[s].via = "mfa"
        PROVE  Answered(issued'[s].from) \/ (issued'[s].from = C /\ job[r].op = "verify")
    BY <2>1, <2>5 DEF Answered
  <2>6. \A c \in Nat : Answered(c)' => c \in Chals /\ chals'[c] \notin Ids /\ Past(c)'
    <3> SUFFICES ASSUME NEW c \in Nat, Answered(c)' PROVE c \in Chals /\ chals'[c] \notin Ids /\ Past(c)'
      OBVIOUS
    <3>1. Answered(c) \/ (c = C /\ job[r].op = "verify")
      BY <2>5 DEF Answered
    <3>2. c \in Chals /\ chals[c] \notin Ids /\ Past(c)
      BY <2>2, <3>1 DEF AnswerInv
    <3> QED
      BY <1>1, <3>2
  <2>7. \A q \in Requests : Answering(q)' =>
          job'[q].chal \in Chals /\ chals'[job'[q].chal] \notin Ids /\ ~Answered(job[q].chal)'
    <3> SUFFICES ASSUME NEW q \in Requests, Answering(q)'
                 PROVE  job'[q].chal \in Chals /\ chals'[job'[q].chal] \notin Ids /\ ~Answered(job[q].chal)'
      OBVIOUS
    <3>1. Answered(job[q].chal)' => Answered(job'[q].chal) \/ (job'[q].chal = C /\ job[r].op = "verify")
      BY <2>5 DEF Answered
    <3> QED
      BY <1>3, <2>4, <3>1
  <2>8. ASSUME NEW s \in Tokens, NEW t \in Tokens, s # t, issued'[s].via = "mfa", issued'[t].via = "mfa"
        PROVE  issued'[s].from # issued'[t].from
    <3>1. CASE s # n /\ t # n
      BY <2>1, <2>8, <3>1 DEF AnswerInv
    <3>2. CASE s = n
      BY <2>1, <2>2, <2>8, <3>2 DEF Answered
    <3>3. CASE t = n
      BY <2>1, <2>2, <2>8, <3>3 DEF Answered
    <3> QED
      BY <3>1, <3>2, <3>3
  <2> QED
    BY <1>4, <2>6, <2>7, <2>8 DEF AnswerInv
<1> QED
  BY <1>0, <1>5, <1>6, NextQuiet

(* A recovery code: it is spent once it is being redeemed. *)
Redeemed(u, c) ==
  \E s \in Tokens : issued[s].via = "mfa" /\ issued[s].code = c /\ sessions[s].user = u
Redeeming(r) == job[r].op = "verify" /\ pc[r] \in {"reset", "issue"} /\ job[r].code.kind = "recovery"
Spent(u, c) == PastGen(c.gen) /\ c.gen # 0 /\ (mfa[u].gen = c.gen => mfa[u].used)
RedeemInv ==
  /\ \A u \in Ids : mfa[u].st # "none" => mfa[u].gen # 0
  /\ \A u \in Ids, c \in Codes : c.kind = "recovery" /\ Redeemed(u, c) => Spent(u, c)
  /\ \A r \in Requests : Redeeming(r) =>
       Spent(job[r].u, job[r].code) /\ ~Redeemed(job[r].u, job[r].code)
  /\ \A q, r \in Requests :
       Redeeming(q) /\ Redeeming(r) /\ job[q].u = job[r].u /\ job[q].code = job[r].code => q = r
  /\ \A s, t \in Tokens :
       s # t /\ issued[s].via = "mfa" /\ issued[t].via = "mfa" /\ issued[s].code.kind = "recovery" =>
         issued[s].code # issued[t].code \/ sessions[s].user # sessions[t].user

(* What a step may do to an enrolment: remove it, begin one with a number  *)
(* that is not over, confirm it, use its recovery code.                    *)
LEMMA RowStep ==
  ASSUME BaseInv, NextEffect, NEW u \in Ids
  PROVE  \/ mfa'[u] = mfa[u]
         \/ mfa'[u] = NoRow
         \/ \E r \in Requests : Active(r) /\ mfa'[u].gen = job[r].no + 1
         \/ mfa[u].st = "pending" /\ mfa'[u].gen = mfa[u].gen /\ mfa'[u].used = mfa[u].used
         \/ mfa'[u].st = mfa[u].st /\ mfa'[u].gen = mfa[u].gen /\ mfa'[u].used = TRUE
<1>0. AuthInv /\ mfa \in [Ids -> RowType]
  BY DEF BaseInv, AuthInv, StoreInv
<1>1. UNCHANGED vars \/ Elapses \/ Restarts => UNCHANGED mfa
  BY DEF vars, stores, Elapses, Restarts
<1>2. ASSUME NEW r, NEW b, NEW op, Arrives(r, b, op) PROVE UNCHANGED mfa
  BY <1>2 DEF Arrives, stores
<1>3. ASSUME NEW r \in Requests, NEW v \in Ids, NEW row \in RowType, Enrols(r, v, row)
      PROVE  \/ mfa'[u] = mfa[u]
             \/ mfa'[u] = NoRow
             \/ Active(r) /\ mfa'[u].gen = job[r].no + 1
             \/ mfa[u].st = "pending" /\ mfa'[u].gen = mfa[u].gen /\ mfa'[u].used = mfa[u].used
  <2>1. /\ Active(r) /\ mfa' = [mfa EXCEPT ![v] = row]
        /\ \/ row = NoRow \/ row.gen = job[r].no + 1
           \/ mfa[v].st = "pending" /\ row.gen = mfa[v].gen /\ row.used = mfa[v].used
    BY <1>3 DEF Enrols
  <2>2. IF u = v THEN mfa'[u] = row ELSE mfa'[u] = mfa[u]
    BY <1>0, <2>1
  <2> QED
    BY <2>1, <2>2
<1>4. ASSUME NEW r \in Requests, Accepts(r)
      PROVE  \/ mfa'[u] = mfa[u]
             \/ mfa'[u].st = mfa[u].st /\ mfa'[u].gen = mfa[u].gen /\ mfa'[u].used = TRUE
  <2> DEFINE v == job[r].u
  <2>1. mfa' = mfa \/ mfa' = [mfa EXCEPT ![v].used = TRUE]
    BY <1>4 DEF Accepts
  <2> HIDE DEF v
  <2> QED
    BY <1>0, <2>1 DEF RowType
<1>5. ASSUME NEW r \in Requests, StepEffect(r), ~Accepts(r), \A v \in Ids, row \in RowType : ~Enrols(r, v, row)
      PROVE  UNCHANGED mfa
  <2>1. Still => UNCHANGED mfa
    BY DEF Still
  <2>2. \A k, l : Fails(r, k) \/ Clears(r, l) => UNCHANGED mfa
    BY DEF Fails, Clears
  <2>3. Counts(r) \/ Takes(r) \/ Challenges(r) \/ Consumes(r) \/ Issues(r) => UNCHANGED mfa
    BY DEF Counts, Takes, Challenges, Consumes, Issues
  <2> QED
    BY <1>5, <2>1, <2>2, <2>3, StillSteps DEF StepEffect
<1> QED
  BY <1>1, <1>2, <1>3, <1>4, <1>5 DEF NextEffect

(* A recovery code that is spent stays so: its secret does not come back. *)
LEMMA SpentStays ==
  ASSUME BaseInv, NextEffect, NEW u \in Ids, NEW c \in Codes, Spent(u, c)
  PROVE  Spent(u, c)'
<1>1. c.gen \in Nat /\ PastGen(c.gen) /\ c.gen # 0 /\ (mfa[u].gen = c.gen => mfa[u].used)
  BY ConstantsOK DEF Spent, Codes, Gens, ConstantsOK
<1>2. PastGen(c.gen)'
  <2> DEFINE g == c.gen
  <2>1. g \in Nat /\ PastGen(g)
    BY <1>1
  <2> HIDE DEF g
  <2>2. PastGen(g)'
    BY <2>1, PastStays
  <2> QED
    BY <2>2 DEF g
<1>3. \A r \in Requests : Active(r) => job[r].no + 1 # c.gen
  BY <1>1 DEF PastGen
<1>4. mfa'[u].gen = c.gen => mfa'[u].used
  <2>1. mfa'[u] = NoRow => mfa'[u].gen = 0
    BY DEF NoRow
  <2>2. \/ mfa'[u].gen # c.gen
        \/ mfa[u].gen = c.gen /\ mfa'[u].used = mfa[u].used
        \/ mfa'[u].used = TRUE
    BY <1>1, <1>3, <2>1, RowStep
  <2> QED
    BY <1>1, <2>2, Zenon
<1> QED
  BY <1>1, <1>2, <1>4 DEF Spent

(* Who redeems a recovery code did so before or has just had it accepted. *)
LEMMA RedeemingNew ==
  ASSUME BaseInv, NextEffect, NEW q \in Requests, Redeeming(q)'
  PROVE  /\ job'[q].u = job[q].u /\ job'[q].code = job[q].code
         /\ Redeeming(q) \/ (Accepts(q) /\ job[q].code.kind = "recovery")
<1>1. job'[q].op = "verify" /\ pc'[q] \in {"reset", "issue"} /\ job'[q].code.kind = "recovery"
  BY DEF Redeeming
<1>2. CASE pc'[q] = pc[q] /\ job'[q] = job[q]
  BY <1>1, <1>2 DEF Redeeming
<1>3. CASE StepEffect(q)
  <2>1. /\ Finds(q) => Moves(q, "lookup", "reset")
        /\ Accepts(q) => Moves(q, "code", "reset") /\ Whole(q)
        /\ Clears(q, "issue") => Moves(q, "reset", "issue") /\ Whole(q)
        /\ Skips(q) => Moves(q, "factor", "issue")
        /\ Confirms(q, "issue") => Moves(q, "subject", "issue") /\ job[q].op # "verify"
        /\ Creates(q) => Moves(q, "admin", "issue")
    BY DEF Confirms, Finds, Accepts, Clears, Skips, Creates
  <2>2. ~Finds(q) /\ ~Skips(q) /\ ~Confirms(q, "issue") /\ ~Creates(q)
    BY <1>1, <2>1, MoveFacts DEF OpOK
  <2>3. (Accepts(q) \/ Clears(q, "issue"))
    BY <1>1, <1>3, <2>2, LateMoves
  <2>4. CASE Accepts(q)
    BY <1>1, <2>1, <2>4, MoveFacts DEF Whole
  <2>5. CASE Clears(q, "issue")
    BY <1>1, <2>1, <2>5, MoveFacts DEF Whole, Redeeming
  <2> QED
    BY <2>3, <2>4, <2>5
<1> QED
  BY <1>1, <1>2, <1>3, LateRequest DEF Late

(* Every step of the system. *)
LEMMA NextRedeem ==
  ASSUME BaseInv, BaseInv', PastInv, TokenInv, RedeemInv, NextEffect
  PROVE  RedeemInv'
<1>0. AuthInv /\ minted \in Nat /\ \A q \in Requests : job[q].code \in Codes
  BY ConstantsOK DEF BaseInv, AuthInv, StoreInv, ReqInv, JobType, ConstantsOK
<1>1. \A u \in Ids : mfa'[u].st # "none" => mfa'[u].gen # 0
  <2> SUFFICES ASSUME NEW u \in Ids, mfa'[u].st # "none" PROVE mfa'[u].gen # 0
    OBVIOUS
  <2>1. \A r \in Requests : Active(r) => job[r].no + 1 # 0
    <3>1. calls \in Nat /\ \A r \in Requests : Active(r) => job[r].no \in 1..calls
      BY ConstantsOK DEF BaseInv, AuthInv, StoreInv, FlowInv, ConstantsOK
    <3> QED
      BY <3>1
  <2>2. mfa[u].st = "pending" \/ mfa[u].st = mfa'[u].st => mfa[u].gen # 0
    BY DEF RedeemInv
  <2>3. mfa'[u] # NoRow
    BY DEF NoRow
  <2> QED
    BY <2>1, <2>2, <2>3, RowStep
<1>2. ASSUME NEW q \in Requests, Redeeming(q)'
      PROVE  \E u \in Ids, c \in Codes :
               /\ job[q].u = u /\ job[q].code = c /\ job'[q].u = u /\ job'[q].code = c
               /\ c.kind = "recovery" /\ Spent(u, c)' /\ ~Redeemed(u, c)
               /\ Redeeming(q) \/ (Accepts(q) /\ ~Spent(u, c))
  <2>1. /\ job'[q].u = job[q].u /\ job'[q].code = job[q].code
        /\ Redeeming(q) \/ (Accepts(q) /\ job[q].code.kind = "recovery")
    BY <1>2, RedeemingNew
  <2>2. Accepts(q) => Moves(q, "code", "reset")
    BY DEF Accepts
  <2>3. pc[q] \in {"reset", "issue", "code"}
    BY <2>1, <2>2, MoveFacts DEF Redeeming
  <2>4. PICK u \in Ids, c \in Codes : job[q].u = u /\ job[q].code = c
    <3>1. job[q].u \in Ids
      BY <1>0, <2>3, PhaseFacts DEF WithUser
    <3> QED
      BY <1>0, <3>1
  <2>5. c.kind = "recovery"
    BY <2>1, <2>4 DEF Redeeming
  <2>6. CASE Redeeming(q)
    <3>1. Spent(u, c) /\ ~Redeemed(u, c)
      BY <2>4, <2>6 DEF RedeemInv
    <3>2. Spent(u, c)'
      BY <3>1, SpentStays
    <3> QED
      BY <2>1, <2>4, <2>5, <2>6, <3>1, <3>2
  <2>7. CASE Accepts(q)
    <3>1. /\ mfa[u].gen = c.gen /\ mfa[u].st = "active" /\ ~mfa[u].used
          /\ mfa' = [mfa EXCEPT ![u].used = TRUE]
      BY <2>4, <2>5, <2>7 DEF Accepts
    <3>2. c.gen # 0 /\ c.gen \in Nat /\ PastGen(c.gen)
      <4>1. c.gen # 0
        BY <3>1 DEF RedeemInv
      <4>2. c.gen \in Nat
        BY ConstantsOK DEF Codes, Gens, ConstantsOK
      <4>3. PastGen(mfa[u].gen)
        BY <3>1, <4>1 DEF PastInv
      <4> QED
        BY <3>1, <4>1, <4>2, <4>3
    <3>3. ~Spent(u, c)
      BY <3>1 DEF Spent
    <3>4. ~Redeemed(u, c)
      BY <2>5, <3>3 DEF RedeemInv
    <3>5. PastGen(c.gen)'
      <4>1. ASSUME NEW g \in Nat, PastGen(g) PROVE PastGen(g)'
        BY <4>1, PastStays
      <4> QED
        BY <3>2, <4>1
    <3>6. mfa'[u].used
      BY <1>0, <3>1 DEF AuthInv, StoreInv, RowType
    <3> QED
      BY <2>1, <2>4, <2>5, <2>7, <3>2, <3>3, <3>4, <3>5, <3>6 DEF Spent
  <2> QED
    BY <2>1, <2>6, <2>7
<1>3. ASSUME NEW q \in Requests, NEW p \in Requests, Redeeming(q)', Redeeming(p)',
             job'[q].u = job'[p].u, job'[q].code = job'[p].code
      PROVE  q = p
  <2>1. PICK u \in Ids, c \in Codes :
               /\ job[q].u = u /\ job[q].code = c /\ job'[q].u = u /\ job'[q].code = c
               /\ Redeeming(q) \/ (Accepts(q) /\ ~Spent(u, c))
    BY <1>2, <1>3
  <2>2. job[p].u = u /\ job[p].code = c /\ (Redeeming(p) \/ (Accepts(p) /\ ~Spent(u, c)))
    BY <1>2, <1>3, <2>1
  <2>3. \A x \in Requests : Accepts(x) => Moves(x, "code", "reset")
    BY DEF Accepts
  <2>4. Accepts(q) /\ Accepts(p) => q = p
    BY <2>3, MoveFacts
  <2>5. \A x \in {q, p} : Redeeming(x) => Spent(u, c)
    BY <2>1, <2>2 DEF RedeemInv
  <2> QED
    BY <2>1, <2>2, <2>4, <2>5 DEF RedeemInv
<1>4. \A s \in Tokens : issued[s].via # "none" => s <= minted
  BY DEF TokenInv
<1>5. CASE Quiet
  <2>1. ASSUME NEW u, NEW c, Redeemed(u, c)' PROVE Redeemed(u, c)
    BY <1>5, <2>1 DEF Quiet, SessionsKept, Redeemed
  <2>2. ASSUME NEW u \in Ids, NEW c \in Codes, c.kind = "recovery", Redeemed(u, c)' PROVE Spent(u, c)'
    BY <2>1, <2>2, SpentStays DEF RedeemInv
  <2>3. ASSUME NEW q \in Requests, Redeeming(q)'
        PROVE  Spent(job[q].u, job[q].code)' /\ ~Redeemed(job[q].u, job[q].code)'
    <3>1. PICK u \in Ids, c \in Codes :
               /\ job'[q].u = u /\ job'[q].code = c /\ Spent(u, c)' /\ ~Redeemed(u, c)
      BY <1>2, <2>3
    <3>2. ~Redeemed(u, c)'
      BY <2>1, <3>1
    <3> QED
      BY <3>1, <3>2 DEF Spent, Redeemed, PastGen
  <2>4. \A s, t \in Tokens :
       s # t /\ issued'[s].via = "mfa" /\ issued'[t].via = "mfa" /\ issued'[s].code.kind = "recovery" =>
         issued'[s].code # issued'[t].code \/ sessions'[s].user # sessions'[t].user
    BY <1>5 DEF RedeemInv, Quiet, SessionsKept
  <2> QED
    BY <1>1, <1>3, <2>2, <2>3, <2>4 DEF RedeemInv
<1>6. ASSUME NEW r \in Requests, Issues(r) PROVE RedeemInv'
  <2>1. PICK n, v, k : /\ n = minted + 1 /\ v = job[r].u /\ k = job[r].code
    OBVIOUS
  <2>2. /\ pc[r] = "issue" /\ minted < MaxTokens
        /\ sessions' = [sessions EXCEPT ![n] = [user |-> v, st |-> "live"]]
        /\ \A s \in Tokens \ {n} : issued'[s] = issued[s]
        /\ (issued'[n].via = "mfa" <=> job[r].op = "verify") /\ issued'[n].code = k
        /\ Moves(r, "issue", "consume") \/ Return(r)
    BY <1>6, <2>1 DEF Issues
  <2>3. n \in Tokens /\ v \in Ids /\ k \in Codes
    <3>1. n \in Tokens
      BY <1>0, <2>1, <2>2, ConstantsOK DEF Tokens, ConstantsOK
    <3> QED
      BY <1>0, <2>1, <2>2, <3>1, PhaseFacts DEF WithUser
  <2>4. \A s \in Tokens \ {n} : sessions'[s] = sessions[s]
    BY <1>0, <2>2 DEF AuthInv, StoreInv
  <2>5. sessions'[n].user = v
    BY <1>0, <2>2, <2>3 DEF AuthInv, StoreInv
  <2>6. job[r].op = "verify" /\ k.kind = "recovery" => Redeeming(r) /\ Spent(v, k) /\ ~Redeemed(v, k)
    BY <2>1, <2>2 DEF RedeemInv, Redeeming
  <2>7. ASSUME NEW u, NEW c, Redeemed(u, c)' PROVE Redeemed(u, c) \/ (u = v /\ c = k /\ job[r].op = "verify")
    BY <2>2, <2>4, <2>5, <2>7 DEF Redeemed
  <2>8. ASSUME NEW u \in Ids, NEW c \in Codes, c.kind = "recovery", Redeemed(u, c)' PROVE Spent(u, c)'
    <3>1. Spent(u, c)
      BY <2>6, <2>7, <2>8 DEF RedeemInv
    <3> QED
      BY <3>1, SpentStays
  <2>9. ASSUME NEW q \in Requests, Redeeming(q)'
        PROVE  Spent(job[q].u, job[q].code)' /\ ~Redeemed(job[q].u, job[q].code)'
    <3>1. PICK u \in Ids, c \in Codes :
               /\ job[q].u = u /\ job[q].code = c /\ job'[q].u = u /\ job'[q].code = c
               /\ c.kind = "recovery" /\ Spent(u, c)' /\ ~Redeemed(u, c)
      BY <1>2, <2>9
    <3>2. pc'[r] \in {"consume", "idle"}
      BY <1>0, <2>2, OthersStay
    <3>3. q # r
      BY <2>9, <3>2 DEF Redeeming
    <3>4. pc'[q] = pc[q] /\ job'[q] = job[q]
      BY <1>0, <2>2, <3>3, OthersStay
    <3>5. Redeeming(q)
      BY <2>9, <3>4 DEF Redeeming
    <3>6. ~(u = v /\ c = k /\ job[r].op = "verify")
      BY <2>1, <2>6, <3>1, <3>3, <3>5 DEF RedeemInv
    <3>7. ~Redeemed(u, c)'
      BY <2>7, <3>1, <3>6
    <3> QED
      BY <3>1, <3>7 DEF Spent, Redeemed, PastGen
  <2>10. ASSUME NEW s \in Tokens, NEW t \in Tokens, s # t, issued'[s].via = "mfa", issued'[t].via = "mfa",
                issued'[s].code.kind = "recovery", issued'[s].code = issued'[t].code
         PROVE  sessions'[s].user # sessions'[t].user
    <3>1. CASE s # n /\ t # n
      BY <2>2, <2>4, <2>10, <3>1 DEF RedeemInv
    <3>2. CASE s = n
      BY <2>2, <2>4, <2>5, <2>6, <2>10, <3>2 DEF Redeemed
    <3>3. CASE t = n
      BY <2>2, <2>4, <2>5, <2>6, <2>10, <3>3 DEF Redeemed
    <3> QED
      BY <3>1, <3>2, <3>3
  <2> QED
    BY <1>1, <1>3, <2>8, <2>9, <2>10 DEF RedeemInv
<1> QED
  BY <1>0, <1>5, <1>6, NextQuiet

(* The first states. *)
LEMMA InitOnce == ASSUME Init PROVE RotationInv /\ AnswerInv /\ RedeemInv
<1>1. (\A r \in Requests : pc[r] = "idle") /\ \A t \in Tokens : issued[t].via = "none"
  BY DEF Init, NoIssue
<1>2. \A u \in Ids : mfa[u].st # "none" => mfa[u].gen # 0
  <2>1. \A u \in Ids : mfa[u] \in {[st |-> "active", gen |-> 1, used |-> FALSE], NoRow}
    BY DEF Init
  <2> QED
    BY <2>1 DEF NoRow
<1>3. /\ \A t : ~Rotated(t) /\ ~Answered(t)
      /\ \A u, c : ~Redeemed(u, c)
      /\ \A r \in Requests : ~Rotating(r) /\ ~Answering(r) /\ ~Redeeming(r)
  BY <1>1 DEF Rotated, Rotating, Answered, Answering, Redeemed, Redeeming
<1> QED
  BY <1>1, <1>2, <1>3 DEF RotationInv, AnswerInv, RedeemInv

(* A refresh token is rotated into one session, and a challenge and a      *)
(* recovery code give one session each, whatever requests race: the        *)
(* refresh lock of the address, the removal of the challenge before it is  *)
(* answered, and the store's update of the used codes (Refresh,            *)
(* ConsumePendingToken, ConsumeRecoveryCode).                              *)
THEOREM UsedOnce == Spec => []CredentialsAreUsedOnce
<1> DEFINE OnceInv == RotationInv /\ AnswerInv /\ RedeemInv
           Known0 == BaseInv /\ PastInv /\ TokenInv /\ EarnedInv
<1>1. Init => OnceInv
  BY InitOnce
<1>2. Known0 /\ BaseInv' /\ OnceInv /\ [Next]_vars => OnceInv'
  BY NextIsEffect, NextRotate, NextAnswer, NextRedeem, ConstantsOK
<1>3. OnceInv => CredentialsAreUsedOnce
  BY DEF RotationInv, AnswerInv, RedeemInv, CredentialsAreUsedOnce
<1> QED
  BY <1>1, <1>2, <1>3, BaseInvariant, PastInvariant, TokenInvariant, EarnedInvariant, PTL DEF Spec

-----------------------------------------------------------------------------
(* Failures are limited *)

(* The limiter: the requests that have passed its check for a name, and    *)
(* the failures that it has still to count.                                *)
Checked(n) == {r \in Requests : /\ pc[r] \in {"lookup", "take", "subject", "code", "record"}
                                /\ job[r].op \in {"login", "verify"} /\ job[r].name = n}
Uncounted(n) == {r \in Requests : pc[r] = "record" /\ job[r].name = n}
Tried(n) == attempts[<<"auth-user", n>>]
LimitInv ==
  \A n \in Names :
    /\ Tried(n) + Cardinality(Checked(n)) <= MaxAttempts - 1 + Cardinality(Requests)
    /\ wrong[n] <= Tried(n) + Cardinality(Uncounted(n)) + Cardinality(Requests) * crashes

(* What a step does to the count of a name. *)
LEMMA TriedStep ==
  ASSUME BaseInv, NextEffect, NEW n \in Names
  PROVE  \/ Tried(n)' = Tried(n) /\ wrong'[n] = wrong[n]
         \/ Tried(n)' = 0 /\ wrong'[n] = 0
         \/ /\ Tried(n)' = Tried(n) /\ wrong'[n] = wrong[n] + 1
            /\ \E r \in Requests, k \in Labels : Fails(r, k) /\ job[r].name = n
         \/ /\ Tried(n)' = Tried(n) + 1 /\ wrong'[n] = wrong[n]
            /\ \E r \in Requests : Counts(r) /\ job[r].name = n
<1>0. wrong \in [Names -> Nat] /\ Tried(n) \in Nat
  BY DEF BaseInv, StateInv, Tried
<1>1. CASE LimitKept /\ UNCHANGED wrong
  BY <1>1 DEF LimitKept, Tried
<1>2. CASE UNCHANGED <<attempts, wrong>>
  BY <1>2 DEF Tried
<1>3. UNCHANGED vars => UNCHANGED <<attempts, wrong>>
  BY DEF vars, stores, ghosts
<1>4. ASSUME NEW r, NEW b, NEW op, Arrives(r, b, op) PROVE UNCHANGED <<attempts, wrong>>
  BY <1>4 DEF Arrives, stores, ghosts
<1>5. CASE Forgets
  <2>1. CASE attempts' = [k \in Keys |-> 0] /\ wrong' = [m \in Names |-> 0]
    <3>1. <<"auth-user", n>> \in Keys
      BY DEF Keys
    <3> QED
      BY <2>1, <3>1 DEF Tried
  <2> QED
    BY <1>2, <1>5, <2>1 DEF Forgets
<1>6. Elapses \/ Restarts => Forgets
  BY DEF Elapses, Restarts
<1>7. ASSUME NEW r \in Requests, NEW k \in Labels, Fails(r, k)
      PROVE  /\ Tried(n)' = Tried(n)
             /\ wrong'[n] = wrong[n] \/ (wrong'[n] = wrong[n] + 1 /\ job[r].name = n)
  <2> DEFINE m == job[r].name
  <2>1. UNCHANGED attempts /\ wrong' = [wrong EXCEPT ![m] = @ + 1]
    BY <1>7 DEF Fails
  <2> HIDE DEF m
  <2>2. wrong'[n] = wrong[n] \/ (wrong'[n] = wrong[n] + 1 /\ m = n)
    BY <1>0, <2>1
  <2> QED
    BY <2>1, <2>2 DEF Tried, m
<1>8. ASSUME NEW r \in Requests, Counts(r)
      PROVE  /\ wrong'[n] = wrong[n]
             /\ Tried(n)' = Tried(n) \/ (Tried(n)' = Tried(n) + 1 /\ job[r].name = n)
  <2>1. UNCHANGED wrong /\ Tried(n)' = Tried(n) + (IF job[r].name = n THEN 1 ELSE 0)
    BY <1>8 DEF Counts, Tried
  <2>2. CASE job[r].name = n
    BY <2>1, <2>2
  <2>3. CASE job[r].name # n
    <3>1. Tried(n)' = Tried(n) + 0
      BY <2>1, <2>3
    <3> QED
      BY <1>0, <2>1, <3>1
  <2> QED
    BY <2>2, <2>3
<1>9. ASSUME NEW r \in Requests, NEW l \in Labels, Clears(r, l)
      PROVE  \/ Tried(n)' = Tried(n) /\ wrong'[n] = wrong[n]
             \/ Tried(n)' = 0 /\ wrong'[n] = 0
  <2> DEFINE m == job[r].name
  <2>1. Tried(n)' = (IF m = n THEN 0 ELSE Tried(n)) /\ wrong' = [wrong EXCEPT ![m] = 0]
    BY <1>9 DEF Clears, Tried
  <2> HIDE DEF m
  <2> QED
    BY <1>0, <2>1
<1>10. ASSUME NEW r \in Requests, StepEffect(r), ~Counts(r), \A k \in Labels : ~Fails(r, k) /\ ~Clears(r, k)
       PROVE  LimitKept /\ UNCHANGED wrong
  <2>1. Still => LimitKept /\ UNCHANGED wrong
    BY DEF Still
  <2>2. \A u, row : Enrols(r, u, row) => LimitKept /\ UNCHANGED wrong
    BY DEF Enrols, LimitKept
  <2>3. Takes(r) \/ Challenges(r) \/ Consumes(r) \/ Issues(r) \/ Accepts(r) => LimitKept /\ UNCHANGED wrong
    BY DEF Takes, Challenges, Consumes, Issues, Accepts, LimitKept
  <2> QED
    BY <1>10, <2>1, <2>2, <2>3, StillSteps DEF StepEffect
<1>11. ASSUME NEW r \in Requests, StepEffect(r)
       PROVE  \/ Tried(n)' = Tried(n) /\ wrong'[n] = wrong[n]
              \/ Tried(n)' = 0 /\ wrong'[n] = 0
              \/ /\ Tried(n)' = Tried(n) /\ wrong'[n] = wrong[n] + 1
                 /\ \E k \in Labels : Fails(r, k) /\ job[r].name = n
              \/ /\ Tried(n)' = Tried(n) + 1 /\ wrong'[n] = wrong[n]
                 /\ Counts(r) /\ job[r].name = n
  BY <1>1, <1>7, <1>8, <1>9, <1>10, <1>11 DEF LimitKept, Tried
<1> QED
  BY <1>2, <1>3, <1>4, <1>5, <1>6, <1>11 DEF NextEffect, Tried

(* Who is past the check of a name was so before, or the check lets it in. *)
LEMMA CheckedStep ==
  ASSUME BaseInv, NextEffect, NEW n \in Names, NEW q \in Requests, q \in Checked(n)'
  PROVE  q \in Checked(n) \/ (Tried(n) < MaxAttempts /\ Tried(n)' = Tried(n))
<1>1. /\ pc'[q] \in {"lookup", "take", "subject", "code", "record"}
      /\ job'[q].op \in {"login", "verify"} /\ job'[q].name = n
  BY DEF Checked
<1>2. CASE pc'[q] = pc[q] /\ job'[q] = job[q]
  BY <1>1, <1>2 DEF Checked
<1>3. ASSUME NEW k, NEW l, Moves(q, k, l), job'[q].name = job[q].name, k \in {"take", "subject", "lookup", "code"}
      PROVE  q \in Checked(n)
  BY <1>1, <1>3, MoveFacts DEF Checked
<1>4. ASSUME Still, ~Check(<<"auth-user", n>>) PROVE Tried(n) < MaxAttempts /\ Tried(n)' = Tried(n)
  <2>1. Tried(n) \in Nat /\ MaxAttempts \in Nat /\ ~(Tried(n) >= MaxAttempts)
    BY <1>4, ConstantsOK DEF Check, Tried, BaseInv, StateInv, ConstantsOK
  <2>2. Tried(n)' = Tried(n)
    BY <1>4 DEF Still, LimitKept, Tried
  <2> QED
    BY <2>1, <2>2
<1>5. CASE StepEffect(q)
  <2>1. CASE Admits(q) \/ Identifies(q)
    <3>1. Still /\ ~Check(<<"auth-user", n>>)
      BY <1>1, <2>1 DEF Admits, Identifies, Whole
    <3> QED
      BY <1>4, <3>1
  <2>2. Rotates(q) => Moves(q, "rotate", "subject")
    BY DEF Rotates
  <2>3. ~Rotates(q)
    BY <1>1, <2>2, MoveFacts DEF OpOK
  <2>4. CASE Takes(q) \/ Confirms(q, "code")
    <3>1. (Moves(q, "take", "subject") \/ Moves(q, "subject", "code")) /\ job'[q].name = job[q].name
      BY <2>4 DEF Takes, Confirms, Whole
    <3> QED
      BY <1>3, <3>1
  <2>5. ASSUME NEW k, Fails(q, k) PROVE q \in Checked(n)
    <3>1. Moves(q, k, "record") /\ job'[q].name = job[q].name /\ k \in {"lookup", "code"}
      BY <2>5 DEF Fails, Whole
    <3> QED
      BY <1>3, <3>1
  <2> QED
    BY <1>1, <1>5, <2>1, <2>3, <2>4, <2>5, LateMoves
<1> QED
  BY <1>1, <1>2, <1>5, LateRequest DEF Late

(* A failure waits to be counted until it is, or NRCC dies. *)
LEMMA UncountedStep ==
  ASSUME BaseInv, NextEffect, ~Restarts, NEW n \in Names, NEW q \in Requests, q \in Uncounted(n)
  PROVE  q \in Uncounted(n)' \/ Counts(q)
<1>0. AuthInv /\ pc[q] = "record" /\ job[q].name = n
  BY DEF BaseInv, Uncounted
<1>1. CASE pc'[q] = pc[q] /\ job'[q] = job[q]
  BY <1>0, <1>1 DEF Uncounted
<1>2. ASSUME NEW r \in Requests, StepEffect(r), q # r PROVE pc'[q] = pc[q] /\ job'[q] = job[q]
  BY <1>0, <1>2, StepShape, OthersStay
<1>3. CASE StepEffect(q)
  <2>1. ~Ends(q) /\ ~Challenges(q) /\ ~Consumes(q) /\ ~Issues(q)
    BY <1>0 DEF Ends, Challenges, Consumes, Issues
  <2>2. \A u, row, k, l : ~Enrols(q, u, row) /\ ~Passes(q, k, l) /\ ~Fails(q, k)
    BY <1>0 DEF Enrols, Passes, Fails, Moves
  <2>3. \A l : ~Clears(q, l) /\ ~Confirms(q, l)
    BY <1>0 DEF Clears, Confirms, Moves
  <2>4. /\ ~Admits(q) /\ ~Identifies(q) /\ ~Skips(q) /\ ~Takes(q) /\ ~Validates(q) /\ ~Rotates(q)
        /\ ~Inspects(q) /\ ~Creates(q) /\ ~LocksSetup(q) /\ ~LocksRefresh(q)
    BY <1>0 DEF Admits, Identifies, Skips, Takes, Validates, Rotates, Inspects, Creates, LocksSetup,
       LocksRefresh, Moves
  <2>5. ~Finds(q) /\ ~Accepts(q)
    BY <1>0 DEF Finds, Accepts, Moves
  <2> QED
    BY <1>3, <2>1, <2>2, <2>3, <2>4, <2>5 DEF StepEffect
<1>4. ASSUME NEW r \in Requests, NEW b, NEW op, Arrives(r, b, op) PROVE pc'[q] = pc[q] /\ job'[q] = job[q]
  BY <1>0, <1>4 DEF Arrives, Goto, AuthInv, ReqInv
<1>5. CASE UNCHANGED vars \/ Elapses
  BY <1>1, <1>5 DEF vars, Elapses
<1> QED
  BY <1>1, <1>2, <1>3, <1>4, <1>5 DEF NextEffect

(* The sets are no larger than that of the requests. *)
LEMMA Sizes ==
  ASSUME IsFiniteSet(Requests), NEW S \in SUBSET Requests
  PROVE  IsFiniteSet(S) /\ Cardinality(S) \in Nat /\ Cardinality(Requests) \in Nat
         /\ Cardinality(S) <= Cardinality(Requests)
<1>1. IsFiniteSet(S) /\ Cardinality(S) <= Cardinality(Requests)
  BY FS_Subset
<1> QED
  BY <1>1, FS_CardinalityType

(* Every step keeps the first bound: what is counted and what may still be. *)
LEMMA NextChecked ==
  ASSUME BaseInv, NextEffect, IsFiniteSet(Requests), NEW n \in Names,
         Tried(n) + Cardinality(Checked(n)) <= MaxAttempts - 1 + Cardinality(Requests)
  PROVE  Tried(n)' + Cardinality(Checked(n)') <= MaxAttempts - 1 + Cardinality(Requests)
<1> DEFINE C == Checked(n)
           D == Checked(n)'
           R == Cardinality(Requests)
           a == Tried(n)
           b == Tried(n)'
<1>1. C \in SUBSET Requests /\ D \in SUBSET Requests
  BY DEF Checked
<1>2. /\ IsFiniteSet(C) /\ Cardinality(C) \in Nat /\ Cardinality(D) \in Nat /\ R \in Nat
      /\ Cardinality(D) <= R
  BY <1>1, Sizes
<1>3. a \in Nat /\ MaxAttempts \in Nat /\ a + Cardinality(C) <= MaxAttempts - 1 + R
  BY ConstantsOK DEF BaseInv, StateInv, Tried, ConstantsOK
<1>4. D \subseteq C \/ (a < MaxAttempts /\ b = a)
  BY <1>1, CheckedStep
<1>5. b = a \/ b = 0 \/ (b = a + 1 /\ \E r \in Requests : Counts(r) /\ job[r].name = n)
  BY TriedStep
<1>6. ASSUME NEW r \in Requests, Counts(r), job[r].name = n PROVE r \in C /\ r \notin D
  <2>1. pc[r] = "record" /\ Return(r)
    BY <1>6 DEF Counts
  <2>2. job[r].op \in {"login", "verify"}
    BY <2>1 DEF BaseInv, FlowInv, Active, OpOK
  <2>3. pc'[r] = "idle"
    BY <2>1, OthersStay DEF BaseInv
  <2> QED
    BY <1>6, <2>1, <2>2, <2>3 DEF Checked
<1>7. D \subseteq C => Cardinality(D) <= Cardinality(C)
  BY <1>2, FS_Subset
<1>8. ASSUME NEW r \in C, r \notin D, D \subseteq C PROVE Cardinality(D) <= Cardinality(C) - 1
  <2>1. IsFiniteSet(C \ {r}) /\ Cardinality(C \ {r}) = Cardinality(C) - 1
    BY <1>2, FS_RemoveElement
  <2>2. D \in SUBSET (C \ {r})
    BY <1>8
  <2> QED
    BY <2>1, <2>2, FS_Subset
<1> SUFFICES b + Cardinality(D) <= MaxAttempts - 1 + R
  OBVIOUS
<1> HIDE DEF C, D, R, a, b
<1>9. CASE b = a
  BY <1>2, <1>3, <1>4, <1>7, <1>9
<1>10. CASE b # a
  <2>1. D \subseteq C
    BY <1>4, <1>10
  <2>2. CASE b = 0
    BY <1>2, <1>3, <1>7, <2>1, <2>2
  <2>3. CASE b = a + 1 /\ \E r \in Requests : Counts(r) /\ job[r].name = n
    <3>1. Cardinality(D) <= Cardinality(C) - 1
      BY <1>6, <1>8, <2>1, <2>3
    <3> QED
      BY <1>2, <1>3, <2>3, <3>1
  <2> QED
    BY <1>5, <1>10, <2>2, <2>3
<1> QED
  BY <1>9, <1>10

(* And the second: what has failed is counted, waits to be, or was lost.   *)
LEMMA NextUncounted ==
  ASSUME BaseInv, BaseInv', NextEffect, IsFiniteSet(Requests), NEW n \in Names,
         wrong[n] <= Tried(n) + Cardinality(Uncounted(n)) + Cardinality(Requests) * crashes
  PROVE  wrong'[n] <= Tried(n)' + Cardinality(Uncounted(n)') + Cardinality(Requests) * crashes'
<1> DEFINE U == Uncounted(n)
           V == Uncounted(n)'
           R == Cardinality(Requests)
           a == Tried(n)
           b == Tried(n)'
           x == wrong[n]
           y == wrong'[n]
           m == R * crashes
           k == R * crashes'
<1>1. U \in SUBSET Requests /\ V \in SUBSET Requests
  BY DEF Uncounted
<1>2. /\ IsFiniteSet(U) /\ IsFiniteSet(V) /\ Cardinality(U) \in Nat /\ Cardinality(V) \in Nat /\ R \in Nat
      /\ Cardinality(U) <= R
  BY <1>1, Sizes
<1>3. a \in Nat /\ x \in Nat /\ crashes \in Nat /\ crashes' \in Nat /\ b \in Nat /\ y \in Nat
  BY DEF BaseInv, StateInv, Tried
<1>4. m \in Nat /\ k \in Nat
  <2>1. R \in Nat /\ crashes \in Nat /\ crashes' \in Nat
    BY <1>2, <1>3
  <2>2. \A i, j \in Nat : i * j \in Nat
    OBVIOUS
  <2> HIDE DEF R
  <2> QED
    BY <2>1, <2>2
<1>5. x <= a + Cardinality(U) + m
  OBVIOUS
<1>6. \/ b = a /\ y = x
      \/ b = 0 /\ y = 0
      \/ b = a /\ y = x + 1 /\ \E r \in Requests, l \in Labels : Fails(r, l) /\ job[r].name = n
      \/ b = a + 1 /\ y = x /\ \E r \in Requests : Counts(r) /\ job[r].name = n
  BY TriedStep
<1>7. CASE Restarts
  <2>1. crashes' = crashes + 1 /\ ((b = a /\ y = x) \/ y = 0)
    <3>1. CASE UNCHANGED <<attempts, wrong>>
      BY <1>7, <3>1 DEF Restarts, Tried
    <3>2. CASE wrong' = [i \in Names |-> 0]
      BY <1>7, <3>2 DEF Restarts
    <3> QED
      BY <1>7, <3>1, <3>2 DEF Restarts, Forgets
  <2>2. k = m + R
    <3>1. k = R * (crashes + 1)
      BY <2>1
    <3> HIDE DEF R, k
    <3> QED
      BY <1>2, <1>3, <3>1
  <2> HIDE DEF U, V, R, a, b, x, y, m, k
  <2> QED
    BY <1>2, <1>3, <1>4, <1>5, <2>1, <2>2 DEF U, V, R, a, b, x, y, m, k
<1>8. CASE ~Restarts
  <2>1. \A q \in U : q \in V \/ Counts(q)
    BY <1>1, <1>8, UncountedStep
  <2>2. \A q \in Requests : Counts(q) /\ job[q].name = n => b = a + 1
    BY DEF Counts, Tried
  <2>3. k = m
    <3>1. UNCHANGED crashes
      <4>1. \A r : StepEffect(r) => UNCHANGED crashes
        <5> SUFFICES ASSUME NEW r, StepEffect(r) PROVE UNCHANGED crashes
          OBVIOUS
        <5>1. Still \/ Frame => UNCHANGED crashes
          BY DEF Still, Frame
        <5>2. \A i, j, u, row : Enrols(r, u, row) \/ Fails(r, i) \/ Clears(r, j) => Frame
          BY DEF Enrols, Fails, Clears, Untouched
        <5>3. Counts(r) \/ Takes(r) \/ Challenges(r) \/ Accepts(r) => Frame
          BY DEF Counts, Takes, Challenges, Accepts, Untouched
        <5>4. Consumes(r) \/ Issues(r) => UNCHANGED crashes
          BY DEF Consumes, Issues
        <5> QED
          BY <5>1, <5>2, <5>3, <5>4, StillSteps DEF StepEffect
      <4>2. UNCHANGED vars \/ Elapses => UNCHANGED crashes
        BY DEF vars, bounds, Elapses, Frame
      <4>3. \A r, c, op : Arrives(r, c, op) => UNCHANGED crashes
        BY DEF Arrives
      <4> QED
        BY <1>8, <4>1, <4>2, <4>3 DEF NextEffect
    <3> QED
      BY <3>1
  <2>4. U \subseteq V => Cardinality(U) <= Cardinality(V)
    BY <1>2, FS_Subset
  <2>5. \A q \in U : job[q].name = n
    BY DEF Uncounted
  <2>6. CASE b = a /\ y = x
    <3>1. U \subseteq V
      <4> HIDE DEF U, V, a, b
      <4> QED
        BY <1>1, <1>3, <2>1, <2>2, <2>5, <2>6
    <3> HIDE DEF U, V, R, a, b, x, y, m, k
    <3> QED
      BY <1>2, <1>3, <1>4, <1>5, <2>3, <2>4, <2>6, <3>1 DEF U, V, R, a, b, x, y, m, k
  <2>7. CASE b = 0 /\ y = 0
    <3> HIDE DEF U, V, R, a, b, x, y, m, k
    <3> QED
      BY <1>2, <1>3, <1>4, <2>7 DEF U, V, R, a, b, x, y, m, k
  <2>8. CASE b = a /\ y = x + 1 /\ \E r \in Requests, l \in Labels : Fails(r, l) /\ job[r].name = n
    <3>1. PICK r \in Requests, l \in Labels : Fails(r, l) /\ job[r].name = n
      BY <2>8
    <3>2. Moves(r, l, "record") /\ Whole(r) /\ l \in {"lookup", "code"}
      BY <3>1 DEF Fails
    <3>3. r \notin U /\ r \in V
      BY <3>1, <3>2, MoveFacts DEF Uncounted, Whole
    <3>4. U \cup {r} \subseteq V
      <4> HIDE DEF U, V, a, b
      <4> QED
        BY <1>1, <1>3, <2>1, <2>2, <2>5, <2>8, <3>3
    <3>5. IsFiniteSet(U \cup {r}) /\ Cardinality(U \cup {r}) = Cardinality(U) + 1
      BY <1>2, <3>3, FS_AddElement
    <3>6. Cardinality(U) + 1 <= Cardinality(V)
      BY <1>2, <3>4, <3>5, FS_Subset
    <3> HIDE DEF U, V, R, a, b, x, y, m, k
    <3> QED
      BY <1>2, <1>3, <1>4, <1>5, <2>3, <2>8, <3>6 DEF U, V, R, a, b, x, y, m, k
  <2>9. CASE b = a + 1 /\ y = x /\ \E r \in Requests : Counts(r) /\ job[r].name = n
    <3>1. PICK r \in Requests : Counts(r) /\ job[r].name = n
      BY <2>9
    <3>2. \A q \in Requests \ {r} : pc'[q] = pc[q] /\ job'[q] = job[q]
      BY <3>1, OthersStay DEF Counts, BaseInv
    <3>3. U \ {r} \in SUBSET V
      BY <3>2 DEF Uncounted
    <3>4. r \in U
      BY <3>1 DEF Uncounted, Counts
    <3>5. Cardinality(U \ {r}) = Cardinality(U) - 1
      BY <1>2, <3>4, FS_RemoveElement
    <3>6. Cardinality(U) - 1 <= Cardinality(V)
      BY <1>2, <3>3, <3>5, FS_Subset
    <3> HIDE DEF U, V, R, a, b, x, y, m, k
    <3> QED
      BY <1>2, <1>3, <1>4, <1>5, <2>3, <2>9, <3>6 DEF U, V, R, a, b, x, y, m, k
  <2> QED
    BY <1>6, <2>6, <2>7, <2>8, <2>9
<1> QED
  BY <1>7, <1>8

(* However many logins and verifications of one name race, the wrong       *)
(* passwords and codes that are tried before the limiter refuses are fewer *)
(* than its limit and the requests that can be under way, once more for    *)
(* every crash: the check is made before the credentials are looked at,    *)
(* the failure counted after (Login, Verify, Check, RecordFailure).        *)
THEOREM LimitedFailures == ASSUME IsFiniteSet(Requests) PROVE Spec => []FailuresAreLimited
<1>1. Init => LimitInv
  <2> SUFFICES ASSUME Init, NEW n \in Names
               PROVE  /\ Tried(n) + Cardinality(Checked(n)) <= MaxAttempts - 1 + Cardinality(Requests)
                      /\ wrong[n] <= Tried(n) + Cardinality(Uncounted(n)) + Cardinality(Requests) * crashes
    BY DEF LimitInv
  <2>1. Tried(n) = 0 /\ wrong[n] = 0 /\ crashes = 0
    BY DEF Init, Tried, Keys
  <2>2. Checked(n) = {} /\ Uncounted(n) = {}
    BY DEF Init, Checked, Uncounted
  <2>3. Cardinality(Checked(n)) = 0 /\ Cardinality(Uncounted(n)) = 0 /\ Cardinality(Requests) \in Nat
    BY <2>2, FS_EmptySet, FS_CardinalityType
  <2>4. MaxAttempts \in Nat \ {0}
    BY ConstantsOK DEF ConstantsOK
  <2> QED
    BY <2>1, <2>3, <2>4
<1>2. BaseInv /\ BaseInv' /\ LimitInv /\ [Next]_vars => LimitInv'
  <2> SUFFICES ASSUME BaseInv, BaseInv', LimitInv, [Next]_vars, NEW n \in Names
               PROVE  /\ Tried(n)' + Cardinality(Checked(n)') <= MaxAttempts - 1 + Cardinality(Requests)
                      /\ wrong'[n] <= Tried(n)' + Cardinality(Uncounted(n)') + Cardinality(Requests) * crashes'
    BY DEF LimitInv
  <2>1. NextEffect
    BY NextIsEffect, ConstantsOK
  <2> QED
    BY <2>1, NextChecked, NextUncounted DEF LimitInv
<1>3. BaseInv /\ LimitInv => FailuresAreLimited
  <2> SUFFICES ASSUME BaseInv, LimitInv, NEW n \in Names
               PROVE  wrong[n] <= MaxAttempts - 1 + Cardinality(Requests) * (1 + crashes)
    BY DEF FailuresAreLimited
  <2> DEFINE C == Checked(n)
             U == Uncounted(n)
             R == Cardinality(Requests)
             a == Tried(n)
             x == wrong[n]
  <2>1. U \subseteq C /\ C \in SUBSET Requests
    BY DEF Checked, Uncounted, BaseInv, FlowInv, Active, OpOK
  <2>2. IsFiniteSet(C) /\ Cardinality(C) \in Nat /\ R \in Nat
    BY <2>1, Sizes
  <2>3. Cardinality(U) <= Cardinality(C) /\ Cardinality(U) \in Nat
    BY <2>1, <2>2, FS_Subset, FS_CardinalityType
  <2>4. a \in Nat /\ x \in Nat /\ crashes \in Nat /\ MaxAttempts \in Nat
    BY ConstantsOK DEF BaseInv, StateInv, Tried, ConstantsOK
  <2>5. a + Cardinality(C) <= MaxAttempts - 1 + R /\ x <= a + Cardinality(U) + R * crashes
    BY DEF LimitInv
  <2> HIDE DEF C, U, R, a, x
  <2>6. R * (1 + crashes) = R + R * crashes /\ R * crashes \in Nat
    BY <2>2, <2>4
  <2>7. x <= MaxAttempts - 1 + R * (1 + crashes)
    BY <2>2, <2>3, <2>4, <2>5, <2>6
  <2> QED
    BY <2>7 DEF x, R
<1> QED
  BY <1>1, <1>2, <1>3, BaseInvariant, PTL DEF Spec
=============================================================================
