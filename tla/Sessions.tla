------------------------------- MODULE Sessions -------------------------------
(***************************************************************************)
(* The console's sessions: login, refresh and logout (service/console.rs), *)
(* the administrator's changes to a user (api/console.rs: update_user,     *)
(* force_logout, reset_password), a user's API keys, and the rows of       *)
(* store/users.rs, store/tokens.rs and store/keys.rs under them.           *)
(*                                                                         *)
(* Every request is a process whose steps are its SQL statements.  The     *)
(* database is PostgreSQL at READ COMMITTED: a transaction's writes are    *)
(* seen when it commits, a statement that meets a locked row waits for it  *)
(* and looks again, and of transactions that wait for each other one is    *)
(* aborted.  A request can also be dropped by its client at every await,   *)
(* which rolls its transaction back.                                       *)
(***************************************************************************)
EXTENDS LoginLimiter, Sequences, Relation, TLC

CONSTANTS
    Desks,          \* name -> [clients, admins, ops, names, outcomes, ticks]: who works
                    \* (process -> how many requests it may make), what they may ask for,
                    \* who logs in, what the directory answers, and for how long
    Users,          \* user names, the protected one included
    Protected,      \* SEED_ADMIN_USERNAME
    MaxKeys,        \* 10 in the code
    UserRate, UserBurst, IpRate, IpBurst   \* the two buckets of a login attempt

Procs == UNION {DOMAIN Desks[d].clients \cup DOMAIN Desks[d].admins : d \in DOMAIN Desks}
Free  == "free"

ASSUME SessionsAssumption ==
    /\ Protected \in Users /\ \E u \in Users : u # Protected
    /\ Free \notin Procs
    /\ \A d \in DOMAIN Desks :
            /\ IsFiniteSet(DOMAIN Desks[d].clients)
            /\ Desks[d].names \subseteq Users
            /\ Desks[d].outcomes \subseteq {"admin", "member", "bad_credentials", "not_found"}
    /\ MaxKeys \in Nat \ {0}
    /\ UserRate \in Nat /\ UserBurst \in Nat /\ IpRate \in Nat /\ IpBurst \in Nat
    /\ IdleEvictAfter * UserRate >= UserBurst /\ IdleEvictAfter * IpRate >= IpBurst

VARIABLES
    desk,       \* the desk in use
    users,      \* the users table
    tokens,     \* the refresh_tokens table: a sequence of [user, login, active]
    keys,       \* active API keys per user
    user_lock,  \* user row -> the process whose transaction holds it
    token_lock, \* process -> the token rows its transaction holds
    proc,       \* the requests
    turns,      \* requests a process may still make
    held,       \* tokens that reached a client
    signed,     \* access tokens: [user, login, tv]
    ended,      \* history: logins an answered forced logout or disabling has closed
    forced,     \* history: the same for forced logouts only
    now, buckets,
    guesses,    \* history: password checks of a name since its last success
    cleared     \* history: the table of buckets was emptied as a whole

rowVars == <<users, tokens, keys>>
lockVars == <<user_lock, token_lock>>
clientVars == <<held, signed>>
historyVars == <<ended, forced>>
limitVars == <<buckets, guesses, cleared>>
vars == <<desk, now, turns, proc, rowVars, lockVars, clientVars, historyVars, limitVars>>

NoRow == [status |-> 0, tv |-> 0, password |-> "none", source |-> "none", is_admin |-> FALSE]
Idle  == [pc |-> "idle", op |-> "", user |-> "", tok |-> 0, row |-> NoRow, todo |-> {},
          before |-> {}]

Clients == DOMAIN Desks[desk].clients
Admins  == DOMAIN Desks[desk].admins
Outcomes == Desks[desk].outcomes
Tokens  == 1..Len(tokens)

LocalUser(admin) ==
    [status |-> 1, tv |-> 0, password |-> "old", source |-> "local", is_admin |-> admin]

(* seed_admin has run; every other user is a local one with a session. *)
SessionsInit ==
    /\ desk \in DOMAIN Desks
    /\ users = [u \in Users |-> LocalUser(u = Protected)]
    /\ tokens = <<[user |-> CHOOSE u \in Users : u # Protected, login |-> 1, active |-> TRUE]>>
    /\ keys = [u \in Users |-> 0]
    /\ user_lock = [u \in Users |-> Free]
    /\ token_lock = [p \in Procs |-> {}]
    /\ proc = [p \in Procs |-> Idle]
    /\ turns = Desks[desk].clients @@ Desks[desk].admins
    /\ held = {1} /\ signed = {[user |-> tokens[1].user, login |-> 1, tv |-> 0]}
    /\ ended = {} /\ forced = {}
    /\ now = 0 /\ buckets = EmptyTable /\ guesses = [u \in Users |-> 0] /\ cleared = FALSE

-----------------------------------------------------------------------------
(* Steps of a request.                                                      *)

At(p, pc) == proc[p].pc = pc
Goto(p, pc) == proc' = [proc EXCEPT ![p].pc = pc]
Become(p, req) == proc' = [proc EXCEPT ![p] = req]
Answer(p) == proc' = [proc EXCEPT ![p] = Idle]

Begin(p, op, req) ==
    /\ At(p, "idle") /\ turns[p] > 0 /\ op \in Desks[desk].ops
    /\ turns' = [turns EXCEPT ![p] = @ - 1]
    /\ Become(p, [req EXCEPT !.op = op])

(* The rows a transaction holds are free again. *)
Release(p) ==
    /\ user_lock' = [u \in Users |-> IF user_lock[u] = p THEN Free ELSE user_lock[u]]
    /\ token_lock' = [token_lock EXCEPT ![p] = {}]

(* A statement of its own on the user's row waits for whoever holds it. *)
RowFree(p) == user_lock[proc[p].user] = Free

TokenFree(t) == \A q \in Procs : t \notin token_lock[q]

(* A transaction writes the token's row; it is committed, or not, with the rest. *)
LockToken(p, t) == token_lock' = [token_lock EXCEPT ![p] = @ \cup {t}]

Issue(u, login) == tokens' = Append(tokens, [user |-> u, login |-> login, active |-> TRUE])

Revoked(S) == [t \in Tokens |-> [tokens[t] EXCEPT !.active = @ /\ t \notin S]]

Sign(u, login, tv) == signed' = signed \cup {[user |-> u, login |-> login, tv |-> tv]}

-----------------------------------------------------------------------------
(* login.                                                                   *)

UserBucket(u) == <<"login:user", u>>
IpBucket      == <<"login:ip", "client">>

(* The user's bucket, and the client's only if that one admits. *)
CheckUser(u) == CheckAt(buckets, UserBucket(u), now, UserRate, UserBurst)
CheckIp(table) == CheckAt(table, IpBucket, now, IpRate, IpBurst)

WipesOut(table) == DOMAIN table # {} /\ MakeRoom(table, now) = EmptyTable
                        /\ DOMAIN Busy(table, now) # {}

LoginStarts(p, u) ==
    LET mine == CheckUser(u)
        ip   == CheckIp(mine.table)
    IN  /\ buckets' = IF mine.ok THEN ip.table ELSE mine.table
        /\ cleared' = (cleared \/ WipesOut(buckets) \/ (mine.ok /\ WipesOut(mine.table)))
        /\ IF mine.ok /\ ip.ok
           THEN /\ Begin(p, "login", [Idle EXCEPT !.pc = "authenticate", !.user = u])
                /\ guesses' = [guesses EXCEPT ![u] = @ + 1]
           ELSE /\ Begin(p, "login", Idle)
                /\ UNCHANGED guesses
        /\ UNCHANGED <<desk, now, rowVars, lockVars, clientVars, historyVars>>

(* Mutant: the protected administrator goes through the directory too. *)
MutAsksDirectory(u) == Outcomes # {}

(* Configured, and not for the protected administrator. *)
AsksDirectory(u) == Outcomes # {} /\ u # Protected

(* upsert_ldap_user: the row follows the directory, status and version stay. *)
LdapLogin(p, outcome) ==
    /\ At(p, "authenticate") /\ AsksDirectory(proc[p].user) /\ outcome \in {"admin", "member"}
    /\ RowFree(p)
    /\ users' = [users EXCEPT ![proc[p].user] =
                    [@ EXCEPT !.source = "ldap", !.is_admin = (outcome = "admin")]]
    /\ Become(p, [proc[p] EXCEPT !.pc = "issue", !.row = users'[proc[p].user]])
    /\ UNCHANGED <<desk, now, turns, tokens, keys, lockVars, clientVars, historyVars, limitVars>>

LdapRefuses(p) ==
    /\ At(p, "authenticate") /\ AsksDirectory(proc[p].user)
    /\ "bad_credentials" \in Outcomes
    /\ Answer(p)
    /\ UNCHANGED <<desk, now, turns, rowVars, lockVars, clientVars, historyVars, limitVars>>

(* Not in the directory, no directory or no answer: the local account.  The row
   is read without a lock, and the password is checked against what was read. *)
LocalLogin(p, password) ==
    /\ At(p, "authenticate")
    /\ AsksDirectory(proc[p].user) => "not_found" \in Outcomes
    /\ IF password = users[proc[p].user].password
       THEN Become(p, [proc[p] EXCEPT !.pc = "issue", !.row = users[proc[p].user]])
       ELSE Answer(p)
    /\ UNCHANGED <<desk, now, turns, rowVars, lockVars, clientVars, historyVars, limitVars>>

(* issue_session: the status that was read, then last_login_at. *)
IssueSession(p) ==
    /\ At(p, "issue")
    /\ \/ proc[p].row.status # 1 /\ Answer(p)
       \/ proc[p].row.status = 1 /\ RowFree(p) /\ Goto(p, "insert")
    /\ UNCHANGED <<desk, now, turns, rowVars, lockVars, clientVars, historyVars, limitVars>>

(* Its foreign key makes the insert wait for FOR UPDATE, but not for an UPDATE.
   The answer resets both buckets. *)
InsertToken(p) ==
    /\ At(p, "insert")
    /\ ~\E q \in Procs : user_lock[proc[p].user] = q /\ proc[q].op = "refresh"
    /\ Issue(proc[p].user, Len(tokens) + 1)
    /\ Sign(proc[p].user, Len(tokens) + 1, proc[p].row.tv)
    /\ held' = held \cup {Len(tokens) + 1}
    /\ buckets' = Reset(Reset(buckets, UserBucket(proc[p].user)), IpBucket)
    /\ guesses' = [guesses EXCEPT ![proc[p].user] = 0]
    /\ Answer(p)
    /\ UNCHANGED <<desk, now, turns, users, keys, lockVars, historyVars, cleared>>

-----------------------------------------------------------------------------
(* refresh: one transaction, then last_login_at on a connection of its own. *)

RefreshStarts(p, t) ==
    /\ t \in held
    /\ Begin(p, "refresh", [Idle EXCEPT !.pc = "revoke_if_active", !.tok = t,
                                        !.user = tokens[t].user])
    /\ UNCHANGED <<desk, now, rowVars, lockVars, clientVars, historyVars, limitVars>>

(* Mutant: the token is looked up, not taken. *)
MutRevokeIfActive(p) ==
    /\ At(p, "revoke_if_active")
    /\ IF tokens[proc[p].tok].active THEN Goto(p, "lock_user") ELSE Answer(p)
    /\ UNCHANGED <<desk, now, turns, rowVars, lockVars, clientVars, historyVars, limitVars>>

RevokeIfActive(p) ==
    /\ At(p, "revoke_if_active") /\ TokenFree(proc[p].tok)
    /\ IF tokens[proc[p].tok].active
       THEN LockToken(p, proc[p].tok) /\ Goto(p, "lock_user")
       ELSE Answer(p) /\ UNCHANGED token_lock
    /\ UNCHANGED <<desk, now, turns, rowVars, user_lock, clientVars, historyVars, limitVars>>

(* Mutant: the user is read without locking the row. *)
MutLockUser(p) ==
    /\ At(p, "lock_user")
    /\ IF users[proc[p].user].status = 1
       THEN Become(p, [proc[p] EXCEPT !.pc = "rotate", !.row = users[proc[p].user]])
                /\ UNCHANGED lockVars
       ELSE Answer(p) /\ Release(p)
    /\ UNCHANGED <<desk, now, turns, rowVars, clientVars, historyVars, limitVars>>

(* find_by_id_for_update *)
LockUser(p) ==
    /\ At(p, "lock_user") /\ RowFree(p)
    /\ IF users[proc[p].user].status = 1
       THEN /\ Become(p, [proc[p] EXCEPT !.pc = "rotate", !.row = users[proc[p].user]])
            /\ user_lock' = [user_lock EXCEPT ![proc[p].user] = p] /\ UNCHANGED token_lock
       ELSE Answer(p) /\ Release(p)
    /\ UNCHANGED <<desk, now, turns, rowVars, clientVars, historyVars, limitVars>>

(* Mutant: last_login_at is written before the transaction ends. *)
MutCommitRotation(p) ==
    /\ At(p, "rotate") /\ RowFree(p) /\ Goto(p, "touch") /\ Release(p)
    /\ UNCHANGED <<desk, now, turns, rowVars, clientVars, historyVars, limitVars>>

(* The old token goes and the new one comes in the same commit. *)
CommitRotation(p) ==
    /\ At(p, "rotate")
    /\ tokens' = Append(Revoked({proc[p].tok}),
                        [tokens[proc[p].tok] EXCEPT !.active = TRUE])
    /\ Sign(proc[p].user, tokens[proc[p].tok].login, proc[p].row.tv)
    /\ Become(p, [proc[p] EXCEPT !.pc = "touch", !.tok = Len(tokens) + 1])
    /\ Release(p)
    /\ UNCHANGED <<desk, now, turns, users, keys, held, historyVars, limitVars>>

(* Only now the client gets its tokens; an error here keeps them from it. *)
TouchLastLogin(p, ok) ==
    /\ At(p, "touch") /\ RowFree(p)
    /\ held' = IF ok THEN held \cup {proc[p].tok} ELSE held
    /\ Answer(p)
    /\ UNCHANGED <<desk, now, turns, rowVars, lockVars, signed, historyVars, limitVars>>

-----------------------------------------------------------------------------
(* logout: two statements.                                                  *)

LogoutStarts(p, t) ==
    /\ t \in held
    /\ IF tokens[t].active
       THEN Begin(p, "logout", [Idle EXCEPT !.pc = "revoke", !.tok = t, !.user = tokens[t].user])
       ELSE Begin(p, "logout", Idle)
    /\ UNCHANGED <<desk, now, rowVars, lockVars, clientVars, historyVars, limitVars>>

Revoke(p) ==
    /\ At(p, "revoke") /\ TokenFree(proc[p].tok)
    /\ tokens' = Revoked({proc[p].tok})
    /\ Answer(p)
    /\ UNCHANGED <<desk, now, turns, users, keys, lockVars, clientVars, historyVars, limitVars>>

-----------------------------------------------------------------------------
(* The administrator.  ensure_not_protected guards every one of these.      *)

AdminStarts(p, op, u) ==
    /\ u # Protected
    /\ op = "reset_password" => users[u].source = "local"
    /\ Begin(p, op, [Idle EXCEPT !.pc = op, !.user = u,
                                 !.before = {tokens[t].login : t \in {x \in Tokens : tokens[x].user = u}}])
    /\ UNCHANGED <<desk, now, rowVars, lockVars, clientVars, historyVars, limitVars>>

(* The status is written, the tokens are not. *)
Disabling(p) == proc[p].op = "disable" /\ proc[p].pc \in {"revoke_all", "revoking"}

(* An enabling overtakes the disablings of the user that are under way: they
   promise nothing any more (history). *)
Overtake(p) ==
    proc' = [q \in Procs |->
                CASE q = p -> Idle
                  [] q # p /\ Disabling(q) /\ proc[q].user = proc[p].user
                        -> [proc[q] EXCEPT !.before = {}]
                  [] OTHER -> proc[q]]

(* update_user: status or administrator, a statement of its own.  Disabling goes
   on to the tokens. *)
UpdateUser(p) ==
    /\ proc[p].pc \in {"enable", "disable", "set_is_admin"} /\ RowFree(p)
    /\ \/ /\ At(p, "enable") /\ Overtake(p)
          /\ users' = [users EXCEPT ![proc[p].user].status = 1]
       \/ /\ At(p, "disable") /\ Goto(p, "revoke_all")
          /\ users' = [users EXCEPT ![proc[p].user].status = 0]
       \/ /\ At(p, "set_is_admin") /\ Answer(p)
          /\ users' = [users EXCEPT ![proc[p].user].is_admin = ~@]
    /\ UNCHANGED <<desk, now, turns, tokens, keys, lockVars, clientVars, historyVars, limitVars>>

SetPasswordHash(p) ==
    /\ At(p, "reset_password") /\ RowFree(p)
    /\ users' = [users EXCEPT ![proc[p].user].password = "new"]
    /\ Goto(p, "force_logout")
    /\ UNCHANGED <<desk, now, turns, tokens, keys, lockVars, clientVars, historyVars, limitVars>>

(* store::force_logout: the version first, which locks the row. *)
BumpVersion(p) ==
    /\ At(p, "force_logout") /\ RowFree(p)
    /\ user_lock' = [user_lock EXCEPT ![proc[p].user] = p]
    /\ Goto(p, "revoke_all")
    /\ UNCHANGED <<desk, now, turns, rowVars, token_lock, clientVars, historyVars, limitVars>>

Forcing(p) == proc[p].op \in {"force_logout", "reset_password"}

(* The rows the statement sees when it starts. *)
RevokeAllStarts(p) ==
    /\ At(p, "revoke_all")
    /\ Become(p, [proc[p] EXCEPT !.pc = "revoking",
                        !.todo = {t \in Tokens : tokens[t].user = proc[p].user /\ tokens[t].active}])
    /\ UNCHANGED <<desk, now, turns, rowVars, lockVars, clientVars, historyVars, limitVars>>

(* It takes them one by one and waits for those that are locked. *)
RevokeNext(p, t) ==
    /\ At(p, "revoking") /\ t \in proc[p].todo /\ TokenFree(t)
    /\ LockToken(p, t)
    /\ Become(p, [proc[p] EXCEPT !.todo = @ \ {t}])
    /\ UNCHANGED <<desk, now, turns, rowVars, user_lock, clientVars, historyVars, limitVars>>

RevokeAllCommits(p) ==
    /\ At(p, "revoking") /\ proc[p].todo = {}
    /\ tokens' = Revoked(token_lock[p])
    /\ users' = IF Forcing(p) THEN [users EXCEPT ![proc[p].user].tv = @ + 1] ELSE users
    /\ ended' = ended \cup proc[p].before
    /\ forced' = IF Forcing(p) THEN forced \cup proc[p].before ELSE forced
    /\ Release(p) /\ Answer(p)
    /\ UNCHANGED <<desk, now, turns, keys, clientVars, limitVars>>

-----------------------------------------------------------------------------
(* API keys: the active ones are counted, then the new one is inserted.     *)

KeyAllowed(n) == n < MaxKeys

CreateKeyStarts(p, u) ==
    /\ Begin(p, "create_key", IF KeyAllowed(keys[u])
                              THEN [Idle EXCEPT !.pc = "insert_key", !.user = u] ELSE Idle)
    /\ UNCHANGED <<desk, now, rowVars, lockVars, clientVars, historyVars, limitVars>>

InsertKey(p) ==
    /\ At(p, "insert_key")
    /\ keys' = [keys EXCEPT ![proc[p].user] = @ + 1]
    /\ Answer(p)
    /\ UNCHANGED <<desk, now, turns, users, tokens, lockVars, clientVars, historyVars, limitVars>>

(* revoke_key: a single statement on one's own active key. *)
RevokeKey(p, u) ==
    /\ keys[u] > 0 /\ Begin(p, "revoke_key", Idle)
    /\ keys' = [keys EXCEPT ![u] = @ - 1]
    /\ UNCHANGED <<desk, now, users, tokens, lockVars, clientVars, historyVars, limitVars>>

-----------------------------------------------------------------------------
(* The database and the clients.                                            *)

WantsUser(p) == proc[p].pc \in {"lock_user", "touch", "issue", "force_logout", "reset_password",
                                "enable", "disable", "set_is_admin"}

WaitsFor(p, q) ==
    \/ WantsUser(p) /\ user_lock[proc[p].user] = q
    \/ proc[p].pc \in {"revoke_if_active", "revoke"} /\ proc[p].tok \in token_lock[q]
    \/ At(p, "revoking") /\ q # p /\ proc[p].todo \cap token_lock[q] # {}

InDeadlock == {p \in Procs :
                /\ \E q \in Procs : WaitsFor(p, q)
                /\ TransitiveClosure([x, y \in Procs |-> WaitsFor(x, y)], Procs)[p, p]}

(* One of those that wait in a circle gets an error. *)
AbortDeadlocked(p) ==
    /\ p \in InDeadlock
    /\ Answer(p) /\ Release(p)
    /\ UNCHANGED <<desk, now, turns, rowVars, clientVars, historyVars, limitVars>>

(* The client hangs up, or the database fails the statement. *)
Drop(p) ==
    /\ ~At(p, "idle")
    /\ Answer(p) /\ Release(p)
    /\ UNCHANGED <<desk, now, turns, rowVars, clientVars, historyVars, limitVars>>

Tick ==
    /\ now < Desks[desk].ticks /\ now' = now + 1
    /\ UNCHANGED <<desk, turns, proc, rowVars, lockVars, clientVars, historyVars, limitVars>>

Arrives(p) ==
    \/ p \in Clients /\ \/ \E u \in Desks[desk].names : LoginStarts(p, u)
                        \/ \E t \in Tokens : RefreshStarts(p, t)
                        \/ \E t \in Tokens : LogoutStarts(p, t)
                        \/ \E u \in Users : CreateKeyStarts(p, u)
                        \/ \E u \in Users : RevokeKey(p, u)
    \/ p \in Admins /\ \E op \in Desks[desk].ops, u \in Users :
            /\ op \in {"enable", "disable", "set_is_admin", "reset_password", "force_logout"}
            /\ AdminStarts(p, op, u)

Goes(p) ==
    \/ \E outcome \in Outcomes : LdapLogin(p, outcome)
    \/ LdapRefuses(p)
    \/ \E password \in {"old", "new"} : LocalLogin(p, password)
    \/ IssueSession(p) \/ InsertToken(p)
    \/ RevokeIfActive(p) \/ LockUser(p) \/ CommitRotation(p)
    \/ \E ok \in BOOLEAN : TouchLastLogin(p, ok)
    \/ Revoke(p)
    \/ UpdateUser(p) \/ SetPasswordHash(p) \/ BumpVersion(p)
    \/ RevokeAllStarts(p) \/ \E t \in Tokens : RevokeNext(p, t)
    \/ RevokeAllCommits(p)
    \/ InsertKey(p)
    \/ AbortDeadlocked(p)

SessionsNext == \/ \E p \in Procs : Arrives(p) \/ Goes(p) \/ Drop(p)
                \/ Tick

(* A request goes on when it can: the runtime polls it, and PostgreSQL serves the
   waiters of a row in turn and breaks circles of them. *)
SessionsSpec == SessionsInit /\ [][SessionsNext]_vars /\ \A p \in Procs : WF_vars(Goes(p))

-----------------------------------------------------------------------------

(* A refresh token is used once: however refreshes, logouts and forced logouts of
   one login overlap, at most one of its tokens is active. *)
OneActiveToken ==
    \A s, t \in Tokens : s # t /\ tokens[s].login = tokens[t].login =>
        ~(tokens[s].active /\ tokens[t].active)

Accepted(a) == users[a.user].status = 1 /\ users[a.user].tv = a.tv

(* Once a forced logout, a password reset or a disabling has been answered, the
   logins that existed when it was asked for are over: no token of theirs can be
   refreshed any more, also when the user is enabled again afterwards, and after a
   forced logout no access token of theirs is accepted.  Only an enabling that
   comes between a disabling's two statements takes the disabling's word back. *)
EndedStaysEnded ==
    /\ \A t \in Tokens : tokens[t].login \in ended => ~tokens[t].active
    /\ \A a \in signed : a.login \in forced => ~Accepted(a)

(* No request waits for ever: refresh takes the token's row and then the user's, a
   forced logout the other way round, and both are finished all the same. *)
RequestsAnswered == \A p \in Procs : ~At(p, "idle") ~> At(p, "idle")

(* Between two successes a name is tried no more often than its bucket holds, also
   when idle buckets are evicted, unless the whole table had to be emptied. *)
GuessesBounded ==
    ~cleared => \A u \in Users : guesses[u] <= UserBurst + UserRate * now

(* The built-in administrator stays an enabled local administrator whatever the
   directory and the other administrators do. *)
ProtectedAdminKept ==
    LET root == users[Protected]
    IN  root.status = 1 /\ root.is_admin /\ root.source = "local" /\ root.tv = 0
================================================================================
