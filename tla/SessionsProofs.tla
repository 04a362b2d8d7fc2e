--------------------------- MODULE SessionsProofs ---------------------------
(***************************************************************************)
(* The console's sessions, for any users, desks and numbers of requests.   *)
(*                                                                         *)
(* The row locks carry the argument.  A refresh that goes on holds its     *)
(* token's row, so the token is still active when it is exchanged; a       *)
(* rotation and a forced logout both hold the user's row, so no rotation   *)
(* of the user runs while the forced logout gathers his tokens; and a      *)
(* disabled user starts none.  The logins a change of the user ends        *)
(* therefore have no active token outside the rows it holds or still wants *)
(* (Covers).                                                               *)
(***************************************************************************)
EXTENDS Sessions, FiniteSetTheorems, TLAPS

Steps == {"idle", "authenticate", "issue", "insert", "revoke_if_active", "lock_user", "rotate",
          "touch", "revoke", "enable", "disable", "set_is_admin", "reset_password",
          "force_logout", "revoke_all", "revoking", "insert_key"}

Operations == {"", "login", "refresh", "logout", "create_key", "revoke_key", "enable", "disable",
               "set_is_admin", "reset_password", "force_logout"}

AdminSteps == {"enable", "disable", "set_is_admin", "reset_password", "force_logout",
               "revoke_all", "revoking"}

RowType == [status : {0, 1}, tv : Nat, password : {"none", "old", "new"},
            source : {"none", "local", "ldap"}, is_admin : BOOLEAN]

TokenType == [user : Users, login : Nat, active : BOOLEAN]

RequestType == [pc : Steps, op : Operations, user : Users \cup {""}, tok : Nat, row : RowType,
                todo : SUBSET Nat, before : SUBSET Nat]

SignedType == [user : Users, login : Nat, tv : Nat]

Types ==
    /\ desk \in DOMAIN Desks
    /\ users \in [Users -> RowType]
    /\ tokens \in Seq(TokenType)
    /\ proc \in [Procs -> RequestType]
    /\ user_lock \in [Users -> Procs \cup {Free}]
    /\ token_lock \in [Procs -> SUBSET Nat]
    /\ signed \subseteq SignedType
    /\ ended \subseteq Nat /\ forced \subseteq ended

-----------------------------------------------------------------------------
(* One request.                                                             *)

\* What a request speaks of exists, and what it does follows from what it was asked.
Placed(q) ==
    /\ q.pc # "idle" => q.user \in Users
    /\ q.pc \in {"revoke_if_active", "lock_user", "rotate", "touch", "revoke"} => q.tok \in Tokens
    /\ q.pc \in {"revoke_if_active", "lock_user", "rotate"} => tokens[q.tok].user = q.user
    /\ q.pc \in AdminSteps => q.user # Protected
    /\ q.pc \in {"enable", "disable", "set_is_admin", "reset_password"} => q.op = q.pc
    /\ q.pc = "force_logout" => q.op \in {"force_logout", "reset_password"}
    /\ q.pc \in {"revoke_all", "revoking"} => q.op \in {"disable", "force_logout", "reset_password"}

\* A refresh that found its token active holds it.
Taken(p, q) ==
    q.pc \in {"lock_user", "rotate"} => q.tok \in token_lock[p] /\ tokens[q.tok].active

\* The version a session will carry is no newer than the user's.
Versioned(q) == q.pc \in {"issue", "insert", "rotate"} => q.row.tv <= users[q.user].tv

\* Who holds the user's row.
Owns(p, q) ==
    \/ q.pc = "rotate"
    \/ q.pc \in {"revoke_all", "revoking"} /\ q.op \in {"force_logout", "reset_password"}
    => user_lock[q.user] = p

\* The logins a change of the user ends are his.
Claims(q) == /\ q.before \subseteq Tokens
             /\ \A t \in Tokens : tokens[t].login \in q.before => tokens[t].user = q.user

\* Their active tokens are held or wanted.
Covers(p, q) ==
    q.pc = "revoking" => \A t \in Tokens :
        tokens[t].active /\ tokens[t].login \in q.before => t \in q.todo \cup token_lock[p]

\* A disabling that was not overtaken: the user is disabled and nobody rotates his token.
Sealed(q) ==
    q.pc \in {"revoke_all", "revoking"} /\ q.before # {} /\ q.op = "disable" =>
        /\ users[q.user].status = 0
        /\ \A x \in Procs : proc[x].pc = "rotate" => proc[x].user # q.user

RequestInv(p, q) == /\ Placed(q) /\ Taken(p, q) /\ Versioned(q) /\ Owns(p, q)
                    /\ Claims(q) /\ Covers(p, q) /\ Sealed(q)

-----------------------------------------------------------------------------
(* The tables.                                                              *)

\* A login is numbered by its first token and belongs to one user.
LoginsInv ==
    /\ \A t \in Tokens : /\ tokens[t].login \in Tokens
                         /\ tokens[tokens[t].login].login = tokens[t].login
    /\ \A s, t \in Tokens : tokens[s].login = tokens[t].login => tokens[s].user = tokens[t].user

LocksInv == \A p, q \in Procs : p # q => token_lock[p] \cap token_lock[q] = {}

EndedInv ==
    /\ ended \subseteq Tokens
    /\ \A t \in Tokens : tokens[t].login \in ended => ~tokens[t].active

\* An access token belongs to its login's user and is outdated once the login is closed.
SignedInv ==
    \A a \in signed :
        /\ a.login \in Tokens /\ tokens[a.login].login = a.login /\ tokens[a.login].user = a.user
        /\ a.tv <= users[a.user].tv
        /\ a.login \in forced => a.tv < users[a.user].tv

IInv == /\ Types /\ LoginsInv /\ OneActiveToken /\ LocksInv /\ EndedInv /\ SignedInv
        /\ \A p \in Procs : RequestInv(p, proc[p])

-----------------------------------------------------------------------------
(* Slots and tables.                                                        *)

\* A slot without a request promises nothing.
LEMMA IdleSlot ==
    /\ Idle \in RequestType /\ Idle.pc = "idle" /\ Idle.op = "" /\ Idle.user = ""
    /\ Idle.tok = 0 /\ Idle.todo = {} /\ Idle.before = {} /\ Idle.row \in RowType
  <1>1. NoRow \in RowType
    BY DEF NoRow, RowType
  <1> HIDE DEF NoRow
  <1> QED BY <1>1 DEF Idle, RequestType, Steps, Operations

\* One slot changes, the others stay.
LEMMA BecomeSlot ==
    ASSUME proc \in [Procs -> RequestType], NEW p \in Procs, NEW q \in RequestType, Become(p, q)
    PROVE  /\ proc' \in [Procs -> RequestType] /\ proc'[p] = q
           /\ \A x \in Procs : x # p => proc'[x] = proc[x]
  BY DEF Become

\* The request is answered.
LEMMA AnswerSlot ==
    ASSUME proc \in [Procs -> RequestType], NEW p \in Procs, Answer(p)
    PROVE  /\ proc' \in [Procs -> RequestType] /\ proc'[p] = Idle
           /\ \A x \in Procs : x # p => proc'[x] = proc[x]
  BY IdleSlot DEF Answer

\* The request goes on to its next statement.
LEMMA GotoSlot ==
    ASSUME proc \in [Procs -> RequestType], NEW p \in Procs, NEW pc \in Steps, Goto(p, pc)
    PROVE  /\ proc' \in [Procs -> RequestType]
           /\ \A x \in Procs : x # p => proc'[x] = proc[x]
           /\ proc'[p].pc = pc /\ proc'[p].op = proc[p].op /\ proc'[p].user = proc[p].user
           /\ proc'[p].tok = proc[p].tok /\ proc'[p].row = proc[p].row
           /\ proc'[p].todo = proc[p].todo /\ proc'[p].before = proc[p].before
  <1> DEFINE q == [proc[p] EXCEPT !.pc = pc]
  <1>1. /\ q \in RequestType /\ q.pc = pc /\ q.op = proc[p].op /\ q.user = proc[p].user
        /\ q.tok = proc[p].tok /\ q.row = proc[p].row /\ q.todo = proc[p].todo
        /\ q.before = proc[p].before
    BY DEF RequestType
  <1>2. proc' = [proc EXCEPT ![p] = q]
    BY DEF Goto
  <1> HIDE DEF q
  <1> QED BY <1>1, <1>2

\* What a revocation does to the table of tokens.
LEMMA RevokedTokens ==
    ASSUME tokens \in Seq(TokenType), NEW S
    PROVE  /\ Revoked(S) \in Seq(TokenType) /\ Len(Revoked(S)) = Len(tokens)
           /\ \A t \in Tokens : /\ Revoked(S)[t].user = tokens[t].user
                                /\ Revoked(S)[t].login = tokens[t].login
                                /\ Revoked(S)[t].active <=> tokens[t].active /\ t \notin S
  <1>1. ASSUME NEW t \in Tokens
        PROVE  /\ [tokens[t] EXCEPT !.active = @ /\ t \notin S] \in TokenType
               /\ [tokens[t] EXCEPT !.active = @ /\ t \notin S].user = tokens[t].user
               /\ [tokens[t] EXCEPT !.active = @ /\ t \notin S].login = tokens[t].login
               /\ [tokens[t] EXCEPT !.active = @ /\ t \notin S].active <=>
                        tokens[t].active /\ t \notin S
    <2>1. tokens[t] \in TokenType
      BY <1>1 DEF Tokens
    <2> QED BY <2>1 DEF TokenType
  <1>2. /\ DOMAIN Revoked(S) = 1..Len(tokens)
        /\ \A t \in Tokens : Revoked(S)[t] = [tokens[t] EXCEPT !.active = @ /\ t \notin S]
    BY DEF Revoked, Tokens
  <1>3. Revoked(S) \in [1..Len(tokens) -> TokenType]
    BY <1>1, <1>2 DEF Revoked, Tokens
  <1>4. Len(tokens) \in Nat
    OBVIOUS
  <1>5. Revoked(S) \in Seq(TokenType) /\ Len(Revoked(S)) = Len(tokens)
    BY <1>3, <1>4
  <1> QED BY <1>1, <1>2, <1>5

-----------------------------------------------------------------------------
(* What a step of one request leaves of the others.                         *)

\* A step of another request, as x sees it: x keeps its locks, tokens are only revoked
\* or added, and none of the new ones belongs to a login x is about to end.
Respects(x) ==
    /\ proc'[x] = proc[x] /\ token_lock'[x] = token_lock[x]
    /\ \A u \in Users : /\ user_lock[u] = x => user_lock'[u] = x
                        /\ users[u].tv <= users'[u].tv
    /\ users' \in [Users -> RowType] /\ tokens' \in Seq(TokenType)
    /\ Len(tokens) <= Len(tokens')
    /\ \A t \in Tokens : /\ tokens'[t].user = tokens[t].user
                         /\ tokens'[t].login = tokens[t].login
                         /\ tokens'[t].active => tokens[t].active
                         /\ tokens[t].active /\ t \in token_lock[x] => tokens'[t].active
    /\ \A t \in 1..Len(tokens') :
            \/ t \in Tokens \/ tokens'[t].login \notin proc[x].before
            \/ (proc[x].pc # "revoking" /\ tokens'[t].user = proc[x].user)
    /\ proc[x].pc \in {"revoke_all", "revoking"} /\ proc[x].before # {} /\ proc[x].op = "disable" =>
            /\ users'[proc[x].user].status = 0
            /\ \A y \in Procs : proc'[y].pc = "rotate" => proc'[y].user # proc[x].user

\* Another request's part of the invariant is kept.
LEMMA OtherKept ==
    ASSUME Types, NEW x \in Procs, RequestInv(x, proc[x]), Respects(x)
    PROVE  RequestInv(x, proc[x])'
  <1> DEFINE q == proc[x]
  <1>0. q \in RequestType /\ proc'[x] = q
    BY DEF Types, Respects
  <1>1. Tokens \subseteq Tokens' /\ Len(tokens) \in Nat /\ Len(tokens') \in Nat
    BY DEF Types, Tokens, Respects
  <1>2. Placed(q) /\ Taken(x, q) /\ Versioned(q) /\ Owns(x, q) /\ Claims(q) /\ Covers(x, q)
    BY DEF RequestInv
  <1>3. q.pc # "idle" => q.user \in Users
    BY <1>2 DEF Placed
  <1>4. Placed(q)'
    <2>1. q.pc \in {"revoke_if_active", "lock_user", "rotate"} => q.tok \in Tokens
      BY <1>2 DEF Placed
    <2> QED BY <1>0, <1>1, <1>2, <2>1 DEF Placed, Respects
  <1>5. Taken(x, q)'
    <2>1. q.pc \in {"lock_user", "rotate"} => q.tok \in Tokens
      BY <1>2 DEF Placed
    <2> QED BY <1>0, <1>2, <2>1 DEF Taken, Respects
  <1>6. Versioned(q)'
    <2> SUFFICES ASSUME q.pc \in {"issue", "insert", "rotate"} PROVE q.row.tv <= users'[q.user].tv
      BY <1>0 DEF Versioned
    <2>1. q.row.tv <= users[q.user].tv /\ q.user \in Users
      BY <1>2, <1>3 DEF Versioned
    <2>2. q.row.tv \in Nat /\ users[q.user].tv \in Nat /\ users'[q.user].tv \in Nat
      BY <1>0, <2>1 DEF Types, RequestType, RowType, Respects
    <2>3. users[q.user].tv <= users'[q.user].tv
      BY <2>1 DEF Respects
    <2> HIDE DEF q
    <2> QED BY <2>1, <2>2, <2>3
  <1>7. Owns(x, q)'
    BY <1>0, <1>2, <1>3 DEF Owns, Respects
  <1>8. Claims(q)'
    BY <1>0, <1>1, <1>2 DEF Claims, Respects, Tokens
  <1>9. Covers(x, q)'
    BY <1>0, <1>1, <1>2 DEF Covers, Respects, Tokens
  <1>10. Sealed(q)'
    BY <1>0 DEF Sealed, Respects
  <1> QED BY <1>0, <1>4, <1>5, <1>6, <1>7, <1>8, <1>9, <1>10 DEF RequestInv

\* A step of p that leaves the tokens and histories alone, keeps disabled users disabled
\* and takes only free rows.
LEMMA QuietStep ==
    ASSUME IInv, NEW p \in Procs, Types', UNCHANGED <<tokens, signed, ended, forced>>,
           \A u \in Users : /\ users'[u].tv = users[u].tv
                            /\ users[u].status = 0 => users'[u].status = 0,
           \A x \in Procs : x # p =>
                /\ proc'[x] = proc[x] /\ token_lock'[x] = token_lock[x]
                /\ token_lock'[p] \cap token_lock[x] = {}
                /\ \A u \in Users : user_lock[u] = x => user_lock'[u] = x,
           RequestInv(p, proc[p])',
           proc'[p].pc = "rotate" => users[proc'[p].user].status = 1
    PROVE  IInv'
  <1>1. LoginsInv' /\ OneActiveToken' /\ EndedInv' /\ LocksInv'
    BY DEF IInv, LoginsInv, OneActiveToken, EndedInv, LocksInv, Tokens
  <1>2. SignedInv'
    <2> SUFFICES ASSUME NEW a \in signed
                 PROVE  /\ a.login \in Tokens /\ tokens[a.login].login = a.login
                        /\ tokens[a.login].user = a.user
                        /\ a.tv <= users'[a.user].tv
                        /\ a.login \in forced => a.tv < users'[a.user].tv
      BY DEF SignedInv, Tokens
    <2>1. a.user \in Users
      BY DEF IInv, Types, SignedType
    <2> QED BY <2>1 DEF IInv, SignedInv
  <1>3. ASSUME NEW x \in Procs, x # p PROVE RequestInv(x, proc[x])'
    <2>1. Types /\ RequestInv(x, proc[x])
      BY DEF IInv
    <2>2. proc[x].pc \in {"revoke_all", "revoking"} /\ proc[x].before # {} /\ proc[x].op = "disable" =>
            /\ users'[proc[x].user].status = 0
            /\ \A y \in Procs : proc'[y].pc = "rotate" => proc'[y].user # proc[x].user
      <3> HAVE proc[x].pc \in {"revoke_all", "revoking"} /\ proc[x].before # {}
                /\ proc[x].op = "disable"
      <3>1. /\ users[proc[x].user].status = 0 /\ proc[x].user \in Users
            /\ \A y \in Procs : proc[y].pc = "rotate" => proc[y].user # proc[x].user
        BY <2>1 DEF RequestInv, Sealed, Placed
      <3> QED BY <3>1
    <2>3. \A u \in Users : users[u].tv <= users'[u].tv
      <3>1. \A u \in Users : users[u].tv \in Nat
        BY <2>1 DEF Types, RowType
      <3> QED BY <3>1
    <2>4. tokens' \in Seq(TokenType) /\ users' \in [Users -> RowType]
      BY DEF Types
    <2>5. Len(tokens) <= Len(tokens') /\ tokens' = tokens
      BY <2>4
    <2>6. /\ proc'[x] = proc[x] /\ token_lock'[x] = token_lock[x]
          /\ \A u \in Users : user_lock[u] = x => user_lock'[u] = x
      BY <1>3
    <2>7. \A t \in 1..Len(tokens') : t \in Tokens
      BY <2>5 DEF Tokens
    <2>8. \A t \in Tokens : /\ tokens'[t].user = tokens[t].user
                            /\ tokens'[t].login = tokens[t].login
                            /\ tokens'[t].active => tokens[t].active
                            /\ tokens[t].active /\ t \in token_lock[x] => tokens'[t].active
      BY <2>5
    <2>9. Respects(x)
      BY <2>2, <2>3, <2>4, <2>5, <2>6, <2>7, <2>8 DEF Respects
    <2> QED BY <2>1, <2>9, OtherKept
  <1> QED BY <1>1, <1>2, <1>3 DEF IInv

\* A step of p that takes and gives back no row.
LEMMA SoloStep ==
    ASSUME IInv, NEW p \in Procs, proc' \in [Procs -> RequestType],
           \A x \in Procs : x # p => proc'[x] = proc[x],
           UNCHANGED <<desk, users, tokens, user_lock, token_lock, signed, ended, forced>>,
           RequestInv(p, proc[p])', proc'[p].pc # "rotate"
    PROVE  IInv'
  <1>1. Types'
    BY DEF IInv, Types
  <1>2. \A x \in Procs : x # p => token_lock[p] \cap token_lock[x] = {}
    BY DEF IInv, LocksInv
  <1> QED BY <1>1, <1>2, QuietStep

\* A request that holds nothing and has no claims yet.
LEMMA LightRequest ==
    ASSUME NEW p \in Procs, Placed(proc[p])', Claims(proc[p])',
           proc'[p].pc \notin {"lock_user", "rotate", "issue", "insert", "revoke_all", "revoking"}
    PROVE  RequestInv(p, proc[p])'
  BY DEF RequestInv, Taken, Versioned, Owns, Covers, Sealed

\* A slot without a request.
LEMMA IdleInv ==
    ASSUME NEW p \in Procs, proc'[p] = Idle PROVE RequestInv(p, proc[p])'
  BY IdleSlot DEF RequestInv, Placed, Taken, Versioned, Owns, Claims, Covers, Sealed, AdminSteps

\* An answer that changes no table.
LEMMA AnsweredStep ==
    ASSUME IInv, NEW p \in Procs, Answer(p),
           UNCHANGED <<desk, users, tokens, user_lock, token_lock, signed, ended, forced>>
    PROVE  IInv'
  <1>1. proc \in [Procs -> RequestType]
    BY DEF IInv, Types
  <1>2. /\ proc' \in [Procs -> RequestType] /\ proc'[p] = Idle
        /\ \A x \in Procs : x # p => proc'[x] = proc[x]
    BY <1>1, AnswerSlot
  <1>3. RequestInv(p, proc[p])' /\ proc'[p].pc # "rotate"
    BY <1>2, IdleInv, IdleSlot
  <1> QED BY <1>2, <1>3, SoloStep

\* What giving the rows back does to the locks.
LEMMA ReleasedLocks ==
    ASSUME Types, NEW p \in Procs, Release(p)
    PROVE  /\ user_lock' \in [Users -> Procs \cup {Free}]
           /\ token_lock' \in [Procs -> SUBSET Nat]
           /\ token_lock'[p] = {}
           /\ \A x \in Procs : x # p => /\ token_lock'[x] = token_lock[x]
                                        /\ \A u \in Users : user_lock[u] = x => user_lock'[u] = x
  BY DEF Types, Release

\* A rollback.
LEMMA RolledBackStep ==
    ASSUME IInv, NEW p \in Procs, Answer(p), Release(p),
           UNCHANGED <<desk, users, tokens, signed, ended, forced>>
    PROVE  IInv'
  <1>1. Types /\ proc \in [Procs -> RequestType]
    BY DEF IInv, Types
  <1>2. /\ proc' \in [Procs -> RequestType] /\ proc'[p] = Idle
        /\ \A x \in Procs : x # p => proc'[x] = proc[x]
    BY <1>1, AnswerSlot
  <1>3. RequestInv(p, proc[p])' /\ proc'[p].pc # "rotate"
    BY <1>2, IdleInv, IdleSlot
  <1>4. Types'
    BY <1>1, <1>2, ReleasedLocks DEF Types
  <1>5. token_lock'[p] = {}
    BY <1>1, ReleasedLocks
  <1>6. \A x \in Procs : x # p =>
            /\ token_lock'[x] = token_lock[x] /\ token_lock'[p] \cap token_lock[x] = {}
            /\ \A u \in Users : user_lock[u] = x => user_lock'[u] = x
    BY <1>1, <1>5, ReleasedLocks
  <1> QED BY <1>2, <1>3, <1>4, <1>6, QuietStep

-----------------------------------------------------------------------------
(* Requests arrive.                                                         *)

\* A request starts as it was made.
LEMMA BeginSlot ==
    ASSUME proc \in [Procs -> RequestType], NEW p \in Procs, NEW op \in Operations,
           NEW q \in RequestType, Begin(p, op, q)
    PROVE  /\ proc' \in [Procs -> RequestType]
           /\ \A x \in Procs : x # p => proc'[x] = proc[x]
           /\ proc'[p].pc = q.pc /\ proc'[p].op = op /\ proc'[p].user = q.user
           /\ proc'[p].tok = q.tok /\ proc'[p].before = q.before
  <1> DEFINE n == [q EXCEPT !.op = op]
  <1>1. /\ n \in RequestType /\ n.pc = q.pc /\ n.op = op /\ n.user = q.user /\ n.tok = q.tok
        /\ n.before = q.before
    BY DEF RequestType
  <1>2. Become(p, n)
    BY DEF Begin
  <1> HIDE DEF n
  <1> QED BY <1>1, <1>2, BecomeSlot

\* A request that starts with a well-placed first step and touches no row.
LEMMA StartStep ==
    ASSUME IInv, NEW p \in Procs, NEW op \in Operations, NEW q \in RequestType, Begin(p, op, q),
           UNCHANGED <<desk, users, tokens, user_lock, token_lock, signed, ended, forced>>,
           q.pc \in {"idle", "authenticate", "revoke_if_active", "revoke", "insert_key",
                     "enable", "disable", "set_is_admin", "reset_password", "force_logout"},
           q.pc # "idle" => q.user \in Users,
           q.pc \in {"revoke_if_active", "revoke"} => /\ q.tok \in Tokens
                                                      /\ tokens[q.tok].user = q.user,
           q.pc \in AdminSteps => q.user # Protected /\ op = q.pc,
           q.before \subseteq Tokens,
           \A t \in Tokens : tokens[t].login \in q.before => tokens[t].user = q.user
    PROVE  IInv'
  <1>1. proc \in [Procs -> RequestType]
    BY DEF IInv, Types
  <1>2. /\ proc' \in [Procs -> RequestType]
        /\ \A x \in Procs : x # p => proc'[x] = proc[x]
        /\ proc'[p].pc = q.pc /\ proc'[p].op = op /\ proc'[p].user = q.user
        /\ proc'[p].tok = q.tok /\ proc'[p].before = q.before
    BY <1>1, BeginSlot
  <1>3. Placed(proc[p])'
    BY <1>2 DEF Placed, AdminSteps, Tokens
  <1>4. Claims(proc[p])'
    BY <1>2 DEF Claims, Tokens
  <1>5. RequestInv(p, proc[p])'
    BY <1>2, <1>3, <1>4, LightRequest
  <1> QED BY <1>2, <1>5, SoloStep

\* A client's requests and an administrator's arrive.
LEMMA ArrivesStep ==
    ASSUME IInv, NEW p \in Procs, Arrives(p)
    PROVE  IInv'
  <1>0. /\ desk \in DOMAIN Desks /\ tokens \in Seq(TokenType)
        /\ \A t \in Tokens : tokens[t].user \in Users /\ tokens[t].login \in Tokens /\ t \in Nat
    <2>1. desk \in DOMAIN Desks /\ tokens \in Seq(TokenType)
      BY DEF IInv, Types
    <2>2. \A t \in Tokens : tokens[t] \in TokenType /\ t \in Nat
      BY <2>1 DEF Tokens
    <2>3. \A t \in Tokens : tokens[t].login \in Tokens
      BY DEF IInv, LoginsInv
    <2> QED BY <2>1, <2>2, <2>3 DEF TokenType
  <1>i. ASSUME NEW op \in Operations, Begin(p, op, Idle),
               UNCHANGED <<desk, users, tokens, user_lock, token_lock, signed, ended, forced>>
        PROVE  IInv'
    BY <1>i, IdleSlot, StartStep DEF AdminSteps
  <1>1. ASSUME NEW u \in Desks[desk].names, LoginStarts(p, u) PROVE IInv'
    <2> DEFINE q == [Idle EXCEPT !.pc = "authenticate", !.user = u]
    <2>1. u \in Users
      BY <1>0, SessionsAssumption
    <2>2. q \in RequestType /\ q.pc = "authenticate" /\ q.user = u /\ q.before = {}
      BY <2>1, IdleSlot DEF RequestType, Steps
    <2>3. /\ Begin(p, "login", q) \/ Begin(p, "login", Idle)
          /\ UNCHANGED <<desk, users, tokens, user_lock, token_lock, signed, ended, forced>>
      BY <1>1 DEF LoginStarts, rowVars, lockVars, clientVars, historyVars
    <2> HIDE DEF q
    <2>4. "login" \in Operations
      BY DEF Operations
    <2>5. CASE Begin(p, "login", q)
      BY <2>1, <2>2, <2>3, <2>4, <2>5, StartStep DEF AdminSteps
    <2> QED BY <1>i, <2>3, <2>4, <2>5
  <1>2. ASSUME NEW t \in Tokens, RefreshStarts(p, t) PROVE IInv'
    <2> DEFINE q == [Idle EXCEPT !.pc = "revoke_if_active", !.tok = t, !.user = tokens[t].user]
    <2>1. /\ q \in RequestType /\ q.pc = "revoke_if_active" /\ q.tok = t /\ q.before = {}
          /\ q.user = tokens[t].user
      BY <1>0, IdleSlot DEF RequestType, Steps
    <2>2. /\ Begin(p, "refresh", q)
          /\ UNCHANGED <<desk, users, tokens, user_lock, token_lock, signed, ended, forced>>
      BY <1>2 DEF RefreshStarts, rowVars, lockVars, clientVars, historyVars
    <2> HIDE DEF q
    <2>3. "refresh" \in Operations
      BY DEF Operations
    <2> QED BY <1>0, <2>1, <2>2, <2>3, StartStep DEF AdminSteps
  <1>3. ASSUME NEW t \in Tokens, LogoutStarts(p, t) PROVE IInv'
    <2> DEFINE q == [Idle EXCEPT !.pc = "revoke", !.tok = t, !.user = tokens[t].user]
    <2>1. /\ q \in RequestType /\ q.pc = "revoke" /\ q.tok = t /\ q.before = {}
          /\ q.user = tokens[t].user
      BY <1>0, IdleSlot DEF RequestType, Steps
    <2>2. /\ Begin(p, "logout", q) \/ Begin(p, "logout", Idle)
          /\ UNCHANGED <<desk, users, tokens, user_lock, token_lock, signed, ended, forced>>
      BY <1>3 DEF LogoutStarts, rowVars, lockVars, clientVars, historyVars
    <2> HIDE DEF q
    <2>3. "logout" \in Operations
      BY DEF Operations
    <2>4. CASE Begin(p, "logout", q)
      BY <1>0, <2>1, <2>2, <2>3, <2>4, StartStep DEF AdminSteps
    <2> QED BY <1>i, <2>2, <2>3, <2>4
  <1>4. ASSUME NEW u \in Users, CreateKeyStarts(p, u) \/ RevokeKey(p, u) PROVE IInv'
    <2> DEFINE q == [Idle EXCEPT !.pc = "insert_key", !.user = u]
    <2>1. q \in RequestType /\ q.pc = "insert_key" /\ q.user = u /\ q.before = {}
      BY <1>4, IdleSlot DEF RequestType, Steps
    <2>2. /\ \/ Begin(p, "create_key", q) \/ Begin(p, "create_key", Idle)
             \/ Begin(p, "revoke_key", Idle)
          /\ UNCHANGED <<desk, users, tokens, user_lock, token_lock, signed, ended, forced>>
      BY <1>4 DEF CreateKeyStarts, RevokeKey, rowVars, lockVars, clientVars, historyVars
    <2> HIDE DEF q
    <2>3. "create_key" \in Operations /\ "revoke_key" \in Operations
      BY DEF Operations
    <2>4. CASE Begin(p, "create_key", q)
      BY <2>1, <2>2, <2>3, <2>4, <1>4, StartStep DEF AdminSteps
    <2> QED BY <1>i, <2>2, <2>3, <2>4
  <1>5. ASSUME NEW u \in Users, NEW op,
               op \in {"enable", "disable", "set_is_admin", "reset_password", "force_logout"},
               AdminStarts(p, op, u)
        PROVE  IInv'
    <2> DEFINE B == {tokens[t].login : t \in {x \in Tokens : tokens[x].user = u}}
               q == [Idle EXCEPT !.pc = op, !.user = u, !.before = B]
    <2>1. B \subseteq Tokens /\ B \subseteq Nat
      BY <1>0
    <2>2. \A t \in Tokens : tokens[t].login \in B => tokens[t].user = u
      BY DEF IInv, LoginsInv
    <2>3. /\ Begin(p, op, q) /\ u # Protected
          /\ UNCHANGED <<desk, users, tokens, user_lock, token_lock, signed, ended, forced>>
      BY <1>5 DEF AdminStarts, rowVars, lockVars, clientVars, historyVars
    <2> HIDE DEF B
    <2>4. /\ op \in Operations /\ q \in RequestType /\ q.pc = op /\ q.user = u /\ q.before = B
      BY <1>5, <2>1, IdleSlot DEF RequestType, Steps, Operations
    <2> HIDE DEF q
    <2> QED BY <1>5, <2>1, <2>2, <2>3, <2>4, StartStep DEF AdminSteps
  <1> QED BY <1>1, <1>2, <1>3, <1>4, <1>5 DEF Arrives

-----------------------------------------------------------------------------
(* Steps that leave the tables alone.                                       *)

\* The parts of the invariant a step of p starts from.
LEMMA OwnParts ==
    ASSUME IInv, NEW p \in Procs
    PROVE  /\ Types /\ proc \in [Procs -> RequestType] /\ proc[p] \in RequestType
           /\ Placed(proc[p]) /\ Taken(p, proc[p]) /\ Versioned(proc[p]) /\ Owns(p, proc[p])
           /\ Claims(proc[p]) /\ Covers(p, proc[p]) /\ Sealed(proc[p])
  <1>1. Types /\ proc \in [Procs -> RequestType] /\ RequestInv(p, proc[p])
    BY DEF IInv, Types
  <1> QED BY <1>1 DEF RequestInv

\* The password was checked, against the local account or not at all.
LEMMA LocalLoginStep ==
    ASSUME IInv, NEW p \in Procs, NEW password, LocalLogin(p, password)
    PROVE  IInv'
  <1> DEFINE q == proc[p]
             n == [q EXCEPT !.pc = "issue", !.row = users[q.user]]
  <1>1. At(p, "authenticate") /\ (Become(p, n) \/ Answer(p))
        /\ UNCHANGED <<desk, users, tokens, user_lock, token_lock, signed, ended, forced>>
    BY DEF LocalLogin, rowVars, lockVars, clientVars, historyVars
  <1>2. Types /\ proc \in [Procs -> RequestType] /\ q \in RequestType /\ Placed(q) /\ Claims(q)
    BY OwnParts
  <1>3. q.user \in Users /\ users[q.user] \in RowType /\ users[q.user].tv \in Nat
    BY <1>1, <1>2 DEF At, Placed, Types, RowType
  <1>4. /\ n \in RequestType /\ n.pc = "issue" /\ n.row = users[q.user] /\ n.user = q.user
        /\ n.before = q.before
    BY <1>2, <1>3 DEF RequestType, Steps
  <1> HIDE DEF n
  <1>5. CASE Become(p, n)
    <2>1. /\ proc' \in [Procs -> RequestType] /\ proc'[p] = n
          /\ \A x \in Procs : x # p => proc'[x] = proc[x]
      BY <1>2, <1>4, <1>5, BecomeSlot
    <2>2. Placed(proc[p])' /\ Claims(proc[p])'
      BY <1>1, <1>2, <1>3, <1>4, <2>1 DEF Placed, Claims, AdminSteps, Tokens
    <2>3. Versioned(proc[p])'
      <3>1. n.row.tv <= users[n.user].tv
        BY <1>3, <1>4
      <3> QED BY <1>1, <2>1, <3>1 DEF Versioned
    <2>4. RequestInv(p, proc[p])'
      BY <1>4, <2>1, <2>2, <2>3 DEF RequestInv, Taken, Owns, Covers, Sealed
    <2> QED BY <1>1, <1>4, <2>1, <2>4, SoloStep
  <1> QED BY <1>1, <1>5, AnsweredStep

\* The account that was read is checked.
LEMMA IssueSessionStep ==
    ASSUME IInv, NEW p \in Procs, IssueSession(p)
    PROVE  IInv'
  <1> DEFINE q == proc[p]
  <1>1. At(p, "issue") /\ (Goto(p, "insert") \/ Answer(p))
        /\ UNCHANGED <<desk, users, tokens, user_lock, token_lock, signed, ended, forced>>
    BY DEF IssueSession, rowVars, lockVars, clientVars, historyVars
  <1>2. /\ proc \in [Procs -> RequestType] /\ Placed(q) /\ Claims(q) /\ Versioned(q)
        /\ "insert" \in Steps
    BY OwnParts DEF Steps
  <1>3. CASE Goto(p, "insert")
    <2>1. /\ proc' \in [Procs -> RequestType]
          /\ \A x \in Procs : x # p => proc'[x] = proc[x]
          /\ proc'[p].pc = "insert" /\ proc'[p].user = q.user /\ proc'[p].row = q.row
          /\ proc'[p].before = q.before
      BY <1>2, <1>3, GotoSlot
    <2>2. RequestInv(p, proc[p])'
      BY <1>1, <1>2, <2>1 DEF At, RequestInv, Placed, Claims, Versioned, AdminSteps, Tokens,
            Taken, Owns, Covers, Sealed
    <2> QED BY <1>1, <2>1, <2>2, SoloStep
  <1> QED BY <1>1, <1>3, AnsweredStep

\* A refresh takes its token's row if the token is active.
LEMMA RevokeIfActiveStep ==
    ASSUME IInv, NEW p \in Procs, RevokeIfActive(p)
    PROVE  IInv'
  <1> DEFINE q == proc[p]
  <1>1. /\ At(p, "revoke_if_active") /\ TokenFree(q.tok)
        /\ UNCHANGED <<desk, users, tokens, user_lock, signed, ended, forced>>
        /\ \/ Answer(p) /\ UNCHANGED token_lock
           \/ tokens[q.tok].active /\ LockToken(p, q.tok) /\ Goto(p, "lock_user")
    BY DEF RevokeIfActive, rowVars, clientVars, historyVars
  <1>2. /\ Types /\ proc \in [Procs -> RequestType] /\ q \in RequestType /\ Placed(q) /\ Claims(q)
        /\ "lock_user" \in Steps
    BY OwnParts DEF Steps
  <1>3. CASE tokens[q.tok].active /\ LockToken(p, q.tok) /\ Goto(p, "lock_user")
    <2>1. /\ proc' \in [Procs -> RequestType]
          /\ \A x \in Procs : x # p => proc'[x] = proc[x]
          /\ proc'[p].pc = "lock_user" /\ proc'[p].user = q.user /\ proc'[p].tok = q.tok
          /\ proc'[p].before = q.before
      BY <1>2, <1>3, GotoSlot
    <2>2. q.tok \in Nat /\ q.tok \in Tokens /\ tokens[q.tok].user = q.user /\ q.user \in Users
      BY <1>1, <1>2 DEF At, Placed, RequestType
    <2>3. /\ token_lock' \in [Procs -> SUBSET Nat] /\ q.tok \in token_lock'[p]
          /\ \A x \in Procs : x # p => token_lock'[x] = token_lock[x]
          /\ token_lock'[p] = token_lock[p] \cup {q.tok}
      BY <1>2, <1>3, <2>2 DEF LockToken, Types
    <2>4. \A x \in Procs : x # p => token_lock'[p] \cap token_lock[x] = {}
      BY <1>1, <2>3 DEF TokenFree, IInv, LocksInv
    <2>5. RequestInv(p, proc[p])'
      BY <1>1, <1>2, <1>3, <2>1, <2>2, <2>3 DEF RequestInv, Placed, Claims, AdminSteps, Tokens,
            Taken, Versioned, Owns, Covers, Sealed
    <2>6. Types'
      BY <1>1, <1>2, <2>1, <2>3 DEF Types
    <2> QED BY <1>1, <2>1, <2>3, <2>4, <2>5, <2>6, QuietStep
  <1> QED BY <1>1, <1>3, AnsweredStep

\* A refresh takes the user's row if he is enabled.
LEMMA LockUserStep ==
    ASSUME IInv, NEW p \in Procs, LockUser(p)
    PROVE  IInv'
  <1> DEFINE q == proc[p]
             n == [q EXCEPT !.pc = "rotate", !.row = users[q.user]]
  <1>1. /\ At(p, "lock_user") /\ RowFree(p)
        /\ UNCHANGED <<desk, users, tokens, signed, ended, forced>>
        /\ \/ Answer(p) /\ Release(p)
           \/ /\ users[q.user].status = 1 /\ Become(p, n) /\ UNCHANGED token_lock
              /\ user_lock' = [user_lock EXCEPT ![q.user] = p]
    BY DEF LockUser, rowVars, clientVars, historyVars
  <1>2. Types /\ proc \in [Procs -> RequestType] /\ q \in RequestType /\ Placed(q) /\ Claims(q)
        /\ Taken(p, q)
    BY OwnParts
  <1>3. q.user \in Users /\ users[q.user] \in RowType /\ users[q.user].tv \in Nat
    BY <1>1, <1>2 DEF At, Placed, Types, RowType
  <1>4. /\ n \in RequestType /\ n.pc = "rotate" /\ n.row = users[q.user] /\ n.user = q.user
        /\ n.tok = q.tok /\ n.before = q.before
    BY <1>2, <1>3 DEF RequestType, Steps
  <1> HIDE DEF n
  <1>5. CASE /\ users[q.user].status = 1 /\ Become(p, n) /\ UNCHANGED token_lock
             /\ user_lock' = [user_lock EXCEPT ![q.user] = p]
    <2>1. /\ proc' \in [Procs -> RequestType] /\ proc'[p] = n
          /\ \A x \in Procs : x # p => proc'[x] = proc[x]
      BY <1>2, <1>4, <1>5, BecomeSlot
    <2>2. /\ user_lock' \in [Users -> Procs \cup {Free}] /\ user_lock'[q.user] = p
          /\ \A x \in Procs, u \in Users : user_lock[u] = x => user_lock'[u] = x
      BY <1>1, <1>2, <1>3, <1>5, SessionsAssumption DEF RowFree, Types
    <2>3. n.row.tv <= users[n.user].tv
      BY <1>3, <1>4
    <2>4. Placed(proc[p])' /\ Taken(p, proc[p])' /\ Claims(proc[p])'
      BY <1>1, <1>2, <1>4, <1>5, <2>1 DEF At, Placed, Taken, Claims, AdminSteps, Tokens
    <2>5. Versioned(proc[p])' /\ Owns(p, proc[p])'
      BY <1>1, <1>4, <2>1, <2>2, <2>3 DEF Versioned, Owns
    <2>6. RequestInv(p, proc[p])'
      BY <1>4, <2>1, <2>4, <2>5 DEF RequestInv, Covers, Sealed
    <2>7. Types'
      BY <1>1, <1>2, <1>5, <2>1, <2>2 DEF Types
    <2>8. \A x \in Procs : x # p => token_lock[p] \cap token_lock[x] = {}
      BY DEF IInv, LocksInv
    <2>9. users[proc'[p].user].status = 1
      BY <1>4, <1>5, <2>1
    <2> QED BY <1>1, <1>5, <2>1, <2>2, <2>6, <2>7, <2>8, <2>9, QuietStep
  <1> QED BY <1>1, <1>5, RolledBackStep

\* A forced logout takes the user's row.
LEMMA BumpVersionStep ==
    ASSUME IInv, NEW p \in Procs, BumpVersion(p)
    PROVE  IInv'
  <1> DEFINE q == proc[p]
  <1>1. /\ At(p, "force_logout") /\ RowFree(p) /\ Goto(p, "revoke_all")
        /\ UNCHANGED <<desk, users, tokens, token_lock, signed, ended, forced>>
        /\ user_lock' = [user_lock EXCEPT ![q.user] = p]
    BY DEF BumpVersion, rowVars, clientVars, historyVars
  <1>2. /\ Types /\ proc \in [Procs -> RequestType] /\ Placed(q) /\ Claims(q)
        /\ "revoke_all" \in Steps
    BY OwnParts DEF Steps
  <1>3. /\ proc' \in [Procs -> RequestType]
        /\ \A x \in Procs : x # p => proc'[x] = proc[x]
        /\ proc'[p].pc = "revoke_all" /\ proc'[p].op = q.op /\ proc'[p].user = q.user
        /\ proc'[p].before = q.before
    BY <1>1, <1>2, GotoSlot
  <1>4. /\ q.user \in Users /\ q.user # Protected
        /\ q.op \in {"force_logout", "reset_password"}
    BY <1>1, <1>2 DEF At, Placed, AdminSteps
  <1>5. /\ user_lock' \in [Users -> Procs \cup {Free}] /\ user_lock'[q.user] = p
        /\ \A x \in Procs, u \in Users : user_lock[u] = x => user_lock'[u] = x
    BY <1>1, <1>2, <1>4, SessionsAssumption DEF RowFree, Types
  <1>6. Placed(proc[p])' /\ Claims(proc[p])' /\ Owns(p, proc[p])'
    BY <1>1, <1>2, <1>3, <1>4, <1>5 DEF Placed, Claims, Owns, AdminSteps, Tokens
  <1>7. RequestInv(p, proc[p])'
    BY <1>3, <1>4, <1>6 DEF RequestInv, Taken, Versioned, Covers, Sealed
  <1>8. Types'
    BY <1>1, <1>2, <1>3, <1>5 DEF Types
  <1>9. \A x \in Procs : x # p => token_lock[p] \cap token_lock[x] = {}
    BY DEF IInv, LocksInv
  <1> QED BY <1>1, <1>3, <1>5, <1>7, <1>8, <1>9, QuietStep

\* The tokens of the user are looked up: among them all active ones of the logins to end.
LEMMA RevokeAllStartsStep ==
    ASSUME IInv, NEW p \in Procs, RevokeAllStarts(p)
    PROVE  IInv'
  <1> DEFINE q == proc[p]
             T == {t \in Tokens : tokens[t].user = q.user /\ tokens[t].active}
             n == [q EXCEPT !.pc = "revoking", !.todo = T]
  <1>1. /\ At(p, "revoke_all") /\ Become(p, n)
        /\ UNCHANGED <<desk, users, tokens, user_lock, token_lock, signed, ended, forced>>
    BY DEF RevokeAllStarts, rowVars, lockVars, clientVars, historyVars
  <1>2. /\ Types /\ proc \in [Procs -> RequestType] /\ q \in RequestType
        /\ Placed(q) /\ Claims(q) /\ Owns(p, q) /\ Sealed(q)
    BY OwnParts
  <1>3. T \subseteq Nat /\ \A t \in Tokens : t \in T <=> tokens[t].user = q.user /\ tokens[t].active
    BY DEF Tokens
  <1> HIDE DEF T
  <1>4. /\ n \in RequestType /\ n.pc = "revoking" /\ n.op = q.op /\ n.user = q.user
        /\ n.todo = T /\ n.before = q.before
    BY <1>2, <1>3 DEF RequestType, Steps
  <1> HIDE DEF n
  <1>5. /\ proc' \in [Procs -> RequestType] /\ proc'[p] = n
        /\ \A x \in Procs : x # p => proc'[x] = proc[x]
    BY <1>1, <1>2, <1>4, BecomeSlot
  <1>6. Placed(proc[p])' /\ Claims(proc[p])' /\ Owns(p, proc[p])'
    BY <1>1, <1>2, <1>4, <1>5 DEF At, Placed, Claims, Owns, AdminSteps, Tokens
  <1>7. Sealed(proc[p])'
    BY <1>1, <1>2, <1>4, <1>5 DEF At, Sealed
  <1>8. Covers(p, proc[p])'
    BY <1>1, <1>2, <1>3, <1>4, <1>5 DEF Covers, Claims, Tokens
  <1>9. RequestInv(p, proc[p])'
    BY <1>4, <1>5, <1>6, <1>7, <1>8 DEF RequestInv, Taken, Versioned
  <1> QED BY <1>1, <1>4, <1>5, <1>9, SoloStep

\* One of them is taken.
LEMMA RevokeNextStep ==
    ASSUME IInv, NEW p \in Procs, NEW t \in Tokens, RevokeNext(p, t)
    PROVE  IInv'
  <1> DEFINE q == proc[p]
             T == q.todo \ {t}
             n == [q EXCEPT !.todo = T]
  <1>1. /\ At(p, "revoking") /\ Become(p, n) /\ TokenFree(t) /\ LockToken(p, t)
        /\ UNCHANGED <<desk, users, tokens, user_lock, signed, ended, forced>>
    BY DEF RevokeNext, rowVars, clientVars, historyVars
  <1>2. /\ Types /\ proc \in [Procs -> RequestType] /\ q \in RequestType
        /\ Placed(q) /\ Claims(q) /\ Owns(p, q) /\ Sealed(q) /\ Covers(p, q)
    BY OwnParts
  <1>3. T \subseteq Nat /\ t \in Nat
    <2>1. q.todo \in SUBSET Nat
      BY <1>2 DEF RequestType
    <2>2. t \in Nat
      BY DEF Tokens
    <2> HIDE DEF q
    <2> QED BY <2>1, <2>2
  <1>4. /\ n \in RequestType /\ n.pc = "revoking" /\ n.op = q.op /\ n.user = q.user
        /\ n.todo = T /\ n.before = q.before
    BY <1>1, <1>2, <1>3 DEF At, RequestType
  <1> HIDE DEF n
  <1>5. /\ proc' \in [Procs -> RequestType] /\ proc'[p] = n
        /\ \A x \in Procs : x # p => proc'[x] = proc[x]
    BY <1>1, <1>2, <1>4, BecomeSlot
  <1>6. /\ token_lock' \in [Procs -> SUBSET Nat]
        /\ \A x \in Procs : x # p => token_lock'[x] = token_lock[x]
        /\ token_lock'[p] = token_lock[p] \cup {t}
    BY <1>1, <1>2, <1>3 DEF LockToken, Types
  <1>7. \A x \in Procs : x # p => token_lock'[p] \cap token_lock[x] = {}
    BY <1>1, <1>6 DEF TokenFree, IInv, LocksInv
  <1>8. Placed(proc[p])' /\ Claims(proc[p])' /\ Owns(p, proc[p])'
    BY <1>1, <1>2, <1>4, <1>5 DEF At, Placed, Claims, Owns, AdminSteps, Tokens
  <1>9. Sealed(proc[p])'
    BY <1>1, <1>2, <1>4, <1>5 DEF At, Sealed
  <1>10. Covers(p, proc[p])'
    BY <1>1, <1>2, <1>4, <1>5, <1>6 DEF At, Covers, Tokens
  <1>11. RequestInv(p, proc[p])'
    BY <1>4, <1>5, <1>8, <1>9, <1>10 DEF RequestInv, Taken, Versioned
  <1>12. Types'
    BY <1>1, <1>2, <1>5, <1>6 DEF Types
  <1> QED BY <1>1, <1>4, <1>5, <1>6, <1>7, <1>11, <1>12, QuietStep

-----------------------------------------------------------------------------
(* Steps that change the users.                                             *)

\* The directory's word becomes the row; status and version stay.
LEMMA LdapLoginStep ==
    ASSUME IInv, NEW p \in Procs, NEW outcome, LdapLogin(p, outcome)
    PROVE  IInv'
  <1> DEFINE q == proc[p]
             is_admin == (outcome = "admin")
             row == [users[q.user] EXCEPT !.source = "ldap", !.is_admin = is_admin]
             n == [q EXCEPT !.pc = "issue", !.row = users'[q.user]]
  <1>1. /\ At(p, "authenticate") /\ Become(p, n)
        /\ UNCHANGED <<desk, tokens, user_lock, token_lock, signed, ended, forced>>
        /\ users' = [users EXCEPT ![q.user] = row]
    BY DEF LdapLogin, lockVars, clientVars, historyVars
  <1>2. Types /\ proc \in [Procs -> RequestType] /\ q \in RequestType /\ Placed(q) /\ Claims(q)
    BY OwnParts
  <1>3. q.user \in Users /\ users[q.user] \in RowType /\ users[q.user].tv \in Nat
    BY <1>1, <1>2 DEF At, Placed, Types, RowType
  <1>4. is_admin \in BOOLEAN
    OBVIOUS
  <1> HIDE DEF is_admin
  <1>5. row \in RowType /\ row.tv = users[q.user].tv /\ row.status = users[q.user].status
    BY <1>3, <1>4 DEF RowType
  <1> HIDE DEF row
  <1>6. /\ users' \in [Users -> RowType] /\ users'[q.user] = row
        /\ \A u \in Users : users'[u].tv = users[u].tv /\ users'[u].status = users[u].status
    BY <1>1, <1>2, <1>3, <1>5 DEF Types
  <1>7. /\ n \in RequestType /\ n.pc = "issue" /\ n.row = row /\ n.user = q.user
        /\ n.before = q.before
    BY <1>2, <1>5, <1>6 DEF RequestType, Steps
  <1> HIDE DEF n
  <1>8. /\ proc' \in [Procs -> RequestType] /\ proc'[p] = n
        /\ \A x \in Procs : x # p => proc'[x] = proc[x]
    BY <1>1, <1>2, <1>7, BecomeSlot
  <1>9. Placed(proc[p])' /\ Claims(proc[p])'
    BY <1>1, <1>2, <1>3, <1>7, <1>8 DEF Placed, Claims, AdminSteps, Tokens
  <1>10. Versioned(proc[p])'
    <2>1. n.row.tv <= users'[n.user].tv
      BY <1>3, <1>5, <1>6, <1>7
    <2> QED BY <1>8, <2>1 DEF Versioned
  <1>11. RequestInv(p, proc[p])'
    BY <1>7, <1>8, <1>9, <1>10 DEF RequestInv, Taken, Owns, Covers, Sealed
  <1>12. Types'
    BY <1>1, <1>2, <1>6, <1>8 DEF Types
  <1>13. \A x \in Procs : x # p => token_lock[p] \cap token_lock[x] = {}
    BY DEF IInv, LocksInv
  <1> QED BY <1>1, <1>6, <1>7, <1>8, <1>11, <1>12, <1>13, QuietStep

\* The step of a request that goes on or ends after writing the user's row, the version
\* and a disabled status kept.
LEMMA RowWrittenStep ==
    ASSUME IInv, NEW p \in Procs, NEW row \in RowType, proc[p].user \in Users,
           users' = [users EXCEPT ![proc[p].user] = row],
           row.tv = users[proc[p].user].tv,
           users[proc[p].user].status = 0 => row.status = 0,
           UNCHANGED <<desk, tokens, user_lock, token_lock, signed, ended, forced>>,
           proc' \in [Procs -> RequestType], \A x \in Procs : x # p => proc'[x] = proc[x],
           RequestInv(p, proc[p])', proc'[p].pc # "rotate"
    PROVE  IInv'
  <1>1. /\ users' \in [Users -> RowType]
        /\ \A u \in Users : /\ users'[u].tv = users[u].tv
                            /\ users[u].status = 0 => users'[u].status = 0
    BY DEF IInv, Types
  <1>2. Types'
    BY <1>1 DEF IInv, Types
  <1>3. \A x \in Procs : x # p => token_lock[p] \cap token_lock[x] = {}
    BY DEF IInv, LocksInv
  <1> QED BY <1>1, <1>2, <1>3, QuietStep

\* A password is reset; the sessions go next.
LEMMA SetPasswordHashStep ==
    ASSUME IInv, NEW p \in Procs, SetPasswordHash(p)
    PROVE  IInv'
  <1> DEFINE q == proc[p]
             row == [users[q.user] EXCEPT !.password = "new"]
  <1>1. /\ At(p, "reset_password") /\ Goto(p, "force_logout")
        /\ UNCHANGED <<desk, tokens, user_lock, token_lock, signed, ended, forced>>
        /\ users' = [users EXCEPT ![q.user] = row]
    BY DEF SetPasswordHash, lockVars, clientVars, historyVars
  <1>2. /\ Types /\ proc \in [Procs -> RequestType] /\ Placed(q) /\ Claims(q)
        /\ "force_logout" \in Steps
    BY OwnParts DEF Steps
  <1>3. q.user \in Users /\ q.user # Protected /\ q.op = "reset_password"
    BY <1>1, <1>2 DEF At, Placed, AdminSteps
  <1>4. row \in RowType /\ row.tv = users[q.user].tv /\ row.status = users[q.user].status
    <2>1. users[q.user] \in RowType
      BY <1>2, <1>3 DEF Types
    <2> QED BY <2>1 DEF RowType
  <1> HIDE DEF row
  <1>5. /\ proc' \in [Procs -> RequestType]
        /\ \A x \in Procs : x # p => proc'[x] = proc[x]
        /\ proc'[p].pc = "force_logout" /\ proc'[p].op = q.op /\ proc'[p].user = q.user
        /\ proc'[p].before = q.before
    BY <1>1, <1>2, GotoSlot
  <1>6. Placed(proc[p])' /\ Claims(proc[p])'
    BY <1>1, <1>2, <1>3, <1>5 DEF Placed, Claims, AdminSteps, Tokens
  <1>7. RequestInv(p, proc[p])'
    BY <1>5, <1>6, LightRequest
  <1> QED BY <1>1, <1>3, <1>4, <1>5, <1>7, RowWrittenStep

\* Disabling: while the row is free nobody rotates a token of the user.
LEMMA DisableStep ==
    ASSUME IInv, NEW p \in Procs, At(p, "disable"), RowFree(p), Goto(p, "revoke_all"),
           users' = [users EXCEPT ![proc[p].user].status = 0],
           UNCHANGED <<desk, tokens, user_lock, token_lock, signed, ended, forced>>
    PROVE  IInv'
  <1> DEFINE q == proc[p]
             row == [users[q.user] EXCEPT !.status = 0]
  <1>1. /\ Types /\ proc \in [Procs -> RequestType] /\ Placed(q) /\ Claims(q)
        /\ "revoke_all" \in Steps
    BY OwnParts DEF Steps
  <1>2. q.user \in Users /\ q.user # Protected /\ q.op = "disable"
    BY <1>1 DEF At, Placed, AdminSteps
  <1>3. users' = [users EXCEPT ![q.user] = row]
    OBVIOUS
  <1>4. row \in RowType /\ row.tv = users[q.user].tv /\ row.status = 0
    <2>1. users[q.user] \in RowType
      BY <1>1, <1>2 DEF Types
    <2> QED BY <2>1 DEF RowType
  <1> HIDE DEF row
  <1>5. /\ proc' \in [Procs -> RequestType]
        /\ \A x \in Procs : x # p => proc'[x] = proc[x]
        /\ proc'[p].pc = "revoke_all" /\ proc'[p].op = q.op /\ proc'[p].user = q.user
        /\ proc'[p].before = q.before
    BY <1>1, GotoSlot
  <1>6. Placed(proc[p])' /\ Claims(proc[p])'
    BY <1>1, <1>2, <1>5 DEF Placed, Claims, AdminSteps, Tokens
  <1>7. \A x \in Procs : proc[x].pc = "rotate" => proc[x].user # q.user
    <2> SUFFICES ASSUME NEW x \in Procs, proc[x].pc = "rotate" PROVE proc[x].user # q.user
      OBVIOUS
    <2>1. Owns(x, proc[x])
      BY OwnParts
    <2>2. user_lock[proc[x].user] = x
      BY <2>1 DEF Owns
    <2> QED BY <2>2, SessionsAssumption DEF RowFree
  <1>8. Sealed(proc[p])'
    <2>1. users'[q.user].status = 0
      BY <1>1, <1>2, <1>3, <1>4 DEF Types
    <2>2. \A x \in Procs : proc'[x].pc = "rotate" => proc'[x].user # q.user
      BY <1>5, <1>7
    <2> QED BY <1>5, <2>1, <2>2 DEF Sealed
  <1>9. RequestInv(p, proc[p])'
    BY <1>2, <1>5, <1>6, <1>8 DEF RequestInv, Taken, Versioned, Owns, Covers
  <1> QED BY <1>2, <1>3, <1>4, <1>5, <1>9, RowWrittenStep

\* The administrator flag is turned.
LEMMA SetIsAdminStep ==
    ASSUME IInv, NEW p \in Procs, At(p, "set_is_admin"), Answer(p),
           users' = [users EXCEPT ![proc[p].user].is_admin = ~@],
           UNCHANGED <<desk, tokens, user_lock, token_lock, signed, ended, forced>>
    PROVE  IInv'
  <1> DEFINE q == proc[p]
             flag == ~users[q.user].is_admin
             row == [users[q.user] EXCEPT !.is_admin = flag]
  <1>1. Types /\ proc \in [Procs -> RequestType] /\ Placed(q)
    BY OwnParts
  <1>2. q.user \in Users
    BY <1>1 DEF At, Placed
  <1>3. users' = [users EXCEPT ![q.user] = row]
    OBVIOUS
  <1>4. flag \in BOOLEAN
    OBVIOUS
  <1> HIDE DEF flag
  <1>5. row \in RowType /\ row.tv = users[q.user].tv /\ row.status = users[q.user].status
    <2>1. users[q.user] \in RowType
      BY <1>1, <1>2 DEF Types
    <2> QED BY <1>4, <2>1 DEF RowType
  <1> HIDE DEF row
  <1>6. /\ proc' \in [Procs -> RequestType] /\ proc'[p] = Idle
        /\ \A x \in Procs : x # p => proc'[x] = proc[x]
    BY <1>1, AnswerSlot
  <1>7. RequestInv(p, proc[p])' /\ proc'[p].pc # "rotate"
    BY <1>6, IdleInv, IdleSlot
  <1> QED BY <1>2, <1>3, <1>5, <1>6, <1>7, RowWrittenStep

\* Enabling: the disablings of the user that are under way lose their claims.
LEMMA EnableStep ==
    ASSUME IInv, NEW p \in Procs, At(p, "enable"), Overtake(p),
           users' = [users EXCEPT ![proc[p].user].status = 1],
           UNCHANGED <<desk, tokens, user_lock, token_lock, signed, ended, forced>>
    PROVE  IInv'
  <1> DEFINE u0 == proc[p].user
             row == [users[u0] EXCEPT !.status = 1]
  <1>1. Types /\ proc \in [Procs -> RequestType] /\ Placed(proc[p])
    BY OwnParts
  <1>2. u0 \in Users
    BY <1>1 DEF At, Placed
  <1>3. users' = [users EXCEPT ![u0] = row]
    OBVIOUS
  <1>4. row \in RowType /\ row.tv = users[u0].tv
    <2>1. users[u0] \in RowType
      BY <1>1, <1>2 DEF Types
    <2> QED BY <2>1 DEF RowType
  <1> HIDE DEF row
  <1>5. /\ users' \in [Users -> RowType]
        /\ \A u \in Users : users'[u].tv = users[u].tv
        /\ \A u \in Users : u # u0 => users'[u] = users[u]
    BY <1>1, <1>2, <1>3, <1>4 DEF Types
  <1>6. ASSUME NEW x \in Procs
        PROVE  /\ proc'[x] \in RequestType
               /\ \/ proc'[x] = Idle
                  \/ proc'[x] = proc[x] /\ (Disabling(x) => proc[x].user # u0)
                  \/ /\ proc'[x].pc = proc[x].pc /\ proc'[x].op = proc[x].op
                     /\ proc'[x].user = proc[x].user /\ proc'[x].before = {}
                     /\ proc[x].pc \in {"revoke_all", "revoking"} /\ proc[x].op = "disable"
    <2> DEFINE n == [proc[x] EXCEPT !.before = {}]
    <2>1. proc[x] \in RequestType
      BY <1>1
    <2>2. /\ n \in RequestType /\ n.pc = proc[x].pc /\ n.op = proc[x].op
          /\ n.user = proc[x].user /\ n.before = {}
      BY <2>1 DEF RequestType
    <2>3. proc'[x] = CASE x = p -> Idle
                       [] x # p /\ Disabling(x) /\ proc[x].user = proc[p].user -> n
                       [] OTHER -> proc[x]
      BY DEF Overtake
    <2> HIDE DEF n
    <2>4. CASE x = p
      <3>1. proc'[x] = Idle
        BY <2>3, <2>4
      <3> QED BY <3>1, IdleSlot
    <2>5. CASE x # p /\ Disabling(x) /\ proc[x].user = proc[p].user
      <3>1. proc'[x] = n
        BY <2>3, <2>5
      <3> QED BY <2>2, <2>5, <3>1 DEF Disabling
    <2>6. CASE x # p /\ ~(Disabling(x) /\ proc[x].user = proc[p].user)
      <3>1. proc'[x] = proc[x]
        BY <2>3, <2>6
      <3> QED BY <2>1, <2>6, <3>1
    <2> QED BY <2>4, <2>5, <2>6
  <1>7. proc' \in [Procs -> RequestType]
    <2>1. proc' = [x \in Procs |-> proc'[x]]
      BY DEF Overtake
    <2> QED BY <1>6, <2>1
  <1>8. Types'
    BY <1>1, <1>5, <1>7 DEF Types
  <1>9. LoginsInv' /\ OneActiveToken' /\ EndedInv' /\ LocksInv'
    BY DEF IInv, LoginsInv, OneActiveToken, EndedInv, LocksInv, Tokens
  <1>10. SignedInv'
    <2> SUFFICES ASSUME NEW a \in signed
                 PROVE  /\ a.login \in Tokens /\ tokens[a.login].login = a.login
                        /\ tokens[a.login].user = a.user
                        /\ a.tv <= users'[a.user].tv
                        /\ a.login \in forced => a.tv < users'[a.user].tv
      BY DEF SignedInv, Tokens
    <2>1. a.user \in Users
      BY DEF IInv, Types, SignedType
    <2> QED BY <1>5, <2>1 DEF IInv, SignedInv
  <1>11. ASSUME NEW x \in Procs PROVE RequestInv(x, proc[x])'
    <2>1. /\ Placed(proc[x]) /\ Taken(x, proc[x]) /\ Versioned(proc[x]) /\ Owns(x, proc[x])
          /\ Claims(proc[x]) /\ Covers(x, proc[x]) /\ Sealed(proc[x])
      BY OwnParts
    <2>2. CASE proc'[x] = Idle
      BY <2>2, IdleInv
    <2>3. CASE proc'[x] = proc[x] /\ (Disabling(x) => proc[x].user # u0)
      <3>1. Placed(proc[x])' /\ Taken(x, proc[x])' /\ Owns(x, proc[x])' /\ Claims(proc[x])'
            /\ Covers(x, proc[x])'
        BY <2>1, <2>3 DEF Placed, Taken, Owns, Claims, Covers, Tokens
      <3>2. Versioned(proc[x])'
        BY <1>5, <2>1, <2>3 DEF Versioned, Placed
      <3>3. Sealed(proc[x])'
        <4> SUFFICES ASSUME proc[x].pc \in {"revoke_all", "revoking"}, proc[x].before # {},
                            proc[x].op = "disable"
                     PROVE  /\ users'[proc[x].user].status = 0
                            /\ \A y \in Procs : proc'[y].pc = "rotate" => proc'[y].user # proc[x].user
          BY <2>3 DEF Sealed
        <4>1. /\ users[proc[x].user].status = 0 /\ proc[x].user \in Users
              /\ \A y \in Procs : proc[y].pc = "rotate" => proc[y].user # proc[x].user
          BY <2>1 DEF Sealed, Placed
        <4>2. proc[x].user # u0
          BY <2>3 DEF Disabling
        <4>3. \A y \in Procs : proc'[y].pc = "rotate" => proc'[y] = proc[y]
          BY <1>6, IdleSlot
        <4> QED BY <1>5, <4>1, <4>2, <4>3
      <3> QED BY <3>1, <3>2, <3>3 DEF RequestInv
    <2>4. CASE /\ proc'[x].pc = proc[x].pc /\ proc'[x].op = proc[x].op
               /\ proc'[x].user = proc[x].user /\ proc'[x].before = {}
               /\ proc[x].pc \in {"revoke_all", "revoking"} /\ proc[x].op = "disable"
      <3>1. Placed(proc[x])'
        BY <2>1, <2>4 DEF Placed, AdminSteps, Tokens
      <3> QED BY <2>4, <3>1 DEF RequestInv, Taken, Owns, Claims, Covers, Versioned, Sealed
    <2> QED BY <1>6, <2>2, <2>3, <2>4
  <1> QED BY <1>8, <1>9, <1>10, <1>11 DEF IInv

-----------------------------------------------------------------------------
(* Steps that change the tokens.                                            *)

\* A revocation breaks nothing about logins and locks.
LEMMA RevokedTables ==
    ASSUME IInv, NEW S, tokens' = Revoked(S)
    PROVE  /\ tokens' \in Seq(TokenType) /\ Len(tokens') = Len(tokens) /\ Tokens' = Tokens
           /\ LoginsInv' /\ OneActiveToken'
           /\ \A t \in Tokens : /\ tokens'[t].user = tokens[t].user
                                /\ tokens'[t].login = tokens[t].login
                                /\ tokens'[t].active <=> tokens[t].active /\ t \notin S
  <1>1. tokens \in Seq(TokenType)
    BY DEF IInv, Types
  <1>2. /\ tokens' \in Seq(TokenType) /\ Len(tokens') = Len(tokens)
        /\ \A t \in Tokens : /\ tokens'[t].user = tokens[t].user
                             /\ tokens'[t].login = tokens[t].login
                             /\ tokens'[t].active <=> tokens[t].active /\ t \notin S
    BY <1>1, RevokedTokens
  <1>3. Tokens' = Tokens
    BY <1>2 DEF Tokens
  <1>4. LoginsInv' /\ OneActiveToken'
    BY <1>2, <1>3 DEF IInv, LoginsInv, OneActiveToken
  <1> QED BY <1>2, <1>3, <1>4

\* A step of p that revokes tokens nobody else holds, gives back p's rows or keeps them,
\* and makes versions only newer: what it means for the others.
LEMMA RevocationSeen ==
    ASSUME IInv, NEW p \in Procs, NEW S, tokens' = Revoked(S),
           \A x \in Procs : x # p => /\ S \cap token_lock[x] = {}
                                     /\ proc'[x] = proc[x] /\ token_lock'[x] = token_lock[x]
                                     /\ \A u \in Users : user_lock[u] = x => user_lock'[u] = x,
           proc'[p] = Idle, users' \in [Users -> RowType],
           \A u \in Users : users[u].tv <= users'[u].tv /\ users'[u].status = users[u].status
    PROVE  \A x \in Procs : RequestInv(x, proc[x])'
  <1>1. /\ tokens' \in Seq(TokenType) /\ Len(tokens') = Len(tokens) /\ Tokens' = Tokens
        /\ \A t \in Tokens : /\ tokens'[t].user = tokens[t].user
                             /\ tokens'[t].login = tokens[t].login
                             /\ tokens'[t].active <=> tokens[t].active /\ t \notin S
    BY RevokedTables
  <1> SUFFICES ASSUME NEW x \in Procs PROVE RequestInv(x, proc[x])'
    OBVIOUS
  <1>2. CASE x = p
    BY <1>2, IdleInv
  <1>3. CASE x # p
    <2>1. Types /\ RequestInv(x, proc[x]) /\ Placed(proc[x]) /\ Sealed(proc[x])
      BY OwnParts DEF IInv
    <2>2. proc[x].pc \in {"revoke_all", "revoking"} /\ proc[x].before # {} /\ proc[x].op = "disable" =>
            /\ users'[proc[x].user].status = 0
            /\ \A y \in Procs : proc'[y].pc = "rotate" => proc'[y].user # proc[x].user
      <3> HAVE proc[x].pc \in {"revoke_all", "revoking"} /\ proc[x].before # {}
                /\ proc[x].op = "disable"
      <3>1. /\ users[proc[x].user].status = 0 /\ proc[x].user \in Users
            /\ \A y \in Procs : proc[y].pc = "rotate" => proc[y].user # proc[x].user
        BY <2>1 DEF Sealed, Placed
      <3>2. \A y \in Procs : proc'[y].pc = "rotate" => proc'[y] = proc[y]
        BY IdleSlot
      <3>3. users'[proc[x].user].status = 0
        BY <3>1
      <3> QED BY <3>1, <3>2, <3>3
    <2>3. Len(tokens) <= Len(tokens') /\ \A t \in 1..Len(tokens') : t \in Tokens
      <3>1. Len(tokens) \in Nat
        BY <2>1 DEF Types
      <3> QED BY <1>1, <3>1 DEF Tokens
    <2>4. \A t \in Tokens : /\ tokens'[t].user = tokens[t].user
                            /\ tokens'[t].login = tokens[t].login
                            /\ tokens'[t].active => tokens[t].active
                            /\ tokens[t].active /\ t \in token_lock[x] => tokens'[t].active
      BY <1>1, <1>3
    <2>5. /\ proc'[x] = proc[x] /\ token_lock'[x] = token_lock[x]
          /\ \A u \in Users : user_lock[u] = x => user_lock'[u] = x
      BY <1>3
    <2>6. Respects(x)
      BY <1>1, <2>2, <2>3, <2>4, <2>5 DEF Respects
    <2> QED BY <2>1, <2>6, OtherKept
  <1> QED BY <1>2, <1>3

\* A logout.
LEMMA RevokeStep ==
    ASSUME IInv, NEW p \in Procs, Revoke(p)
    PROVE  IInv'
  <1> DEFINE S == {proc[p].tok}
  <1>1. /\ TokenFree(proc[p].tok) /\ tokens' = Revoked(S) /\ Answer(p)
        /\ UNCHANGED <<desk, users, user_lock, token_lock, signed, ended, forced>>
    BY DEF Revoke, lockVars, clientVars, historyVars
  <1>2. Types /\ proc \in [Procs -> RequestType]
    BY OwnParts
  <1>3. /\ proc' \in [Procs -> RequestType] /\ proc'[p] = Idle
        /\ \A x \in Procs : x # p => proc'[x] = proc[x]
    BY <1>1, <1>2, AnswerSlot
  <1>4. /\ tokens' \in Seq(TokenType) /\ Len(tokens') = Len(tokens) /\ Tokens' = Tokens
        /\ LoginsInv' /\ OneActiveToken'
        /\ \A t \in Tokens : /\ tokens'[t].user = tokens[t].user
                             /\ tokens'[t].login = tokens[t].login
                             /\ tokens'[t].active <=> tokens[t].active /\ t \notin S
    BY <1>1, RevokedTables
  <1>5. Types' /\ LocksInv' /\ EndedInv'
    BY <1>1, <1>2, <1>3, <1>4 DEF Types, IInv, LocksInv, EndedInv
  <1>6. SignedInv'
    BY <1>1, <1>4 DEF IInv, SignedInv
  <1>7. \A x \in Procs : x # p => S \cap token_lock[x] = {}
    BY <1>1 DEF TokenFree
  <1>8. users' \in [Users -> RowType]
        /\ \A u \in Users : users[u].tv <= users'[u].tv /\ users'[u].status = users[u].status
    BY <1>1, <1>2 DEF Types, RowType
  <1> HIDE DEF S
  <1>9. \A x \in Procs : RequestInv(x, proc[x])'
    BY <1>1, <1>3, <1>7, <1>8, RevocationSeen
  <1> QED BY <1>4, <1>5, <1>6, <1>9 DEF IInv

\* A change of the user ends the logins it claims: their active tokens are in its hands.
LEMMA RevokeAllCommitsStep ==
    ASSUME IInv, NEW p \in Procs, RevokeAllCommits(p)
    PROVE  IInv'
  <1> DEFINE q == proc[p]
             S == token_lock[p]
             force == Forcing(p)
             v == users[q.user].tv + 1
             row == [users[q.user] EXCEPT !.tv = v]
  <1>1. /\ At(p, "revoking") /\ q.todo = {} /\ tokens' = Revoked(S) /\ Answer(p) /\ Release(p)
        /\ users' = IF force THEN [users EXCEPT ![q.user] = row] ELSE users
        /\ ended' = ended \cup q.before
        /\ forced' = IF force THEN forced \cup q.before ELSE forced
        /\ UNCHANGED <<desk, signed>>
    BY DEF RevokeAllCommits, clientVars
  <1>2. /\ Types /\ proc \in [Procs -> RequestType] /\ q \in RequestType
        /\ Placed(q) /\ Claims(q) /\ Covers(p, q)
    BY OwnParts
  <1>3. /\ proc' \in [Procs -> RequestType] /\ proc'[p] = Idle
        /\ \A x \in Procs : x # p => proc'[x] = proc[x]
    BY <1>1, <1>2, AnswerSlot
  <1>4. /\ tokens' \in Seq(TokenType) /\ Len(tokens') = Len(tokens) /\ Tokens' = Tokens
        /\ LoginsInv' /\ OneActiveToken'
        /\ \A t \in Tokens : /\ tokens'[t].user = tokens[t].user
                             /\ tokens'[t].login = tokens[t].login
                             /\ tokens'[t].active <=> tokens[t].active /\ t \notin S
    BY <1>1, RevokedTables
  <1>5. /\ user_lock' \in [Users -> Procs \cup {Free}] /\ token_lock' \in [Procs -> SUBSET Nat]
        /\ token_lock'[p] = {}
        /\ \A x \in Procs : x # p => /\ token_lock'[x] = token_lock[x]
                                     /\ \A u \in Users : user_lock[u] = x => user_lock'[u] = x
    BY <1>1, <1>2, ReleasedLocks
  <1>6. q.user \in Users /\ users[q.user] \in RowType /\ users[q.user].tv \in Nat /\ v \in Nat
    BY <1>1, <1>2 DEF At, Placed, Types, RowType
  <1>7. users[q.user].tv < v
    BY <1>6
  <1> HIDE DEF v
  <1>8. row \in RowType /\ row.tv = v /\ row.status = users[q.user].status
    BY <1>6 DEF RowType
  <1> HIDE DEF row
  <1>9. /\ users' \in [Users -> RowType]
        /\ \A u \in Users : /\ users[u].tv \in Nat /\ users'[u].tv \in Nat
                            /\ users[u].tv <= users'[u].tv /\ users'[u].status = users[u].status
        /\ force => users[q.user].tv < users'[q.user].tv
    BY <1>1, <1>2, <1>6, <1>7, <1>8 DEF Types, RowType
  <1> HIDE DEF force
  <1>10. Types'
    <2>1. q.before \in SUBSET Nat
      BY <1>2 DEF RequestType
    <2>2. ended' \subseteq Nat /\ forced' \subseteq ended'
      BY <1>1, <1>2, <2>1 DEF Types
    <2> QED BY <1>1, <1>2, <1>3, <1>4, <1>5, <1>9, <2>2 DEF Types
  <1>11. LocksInv'
    BY <1>5 DEF IInv, LocksInv
  <1>12. EndedInv'
    <2>1. \A t \in Tokens : tokens[t].active /\ tokens[t].login \in q.before => t \in S
      BY <1>1, <1>2 DEF Covers, At
    <2>2. ended' \subseteq Tokens
      BY <1>1, <1>2 DEF Claims, IInv, EndedInv
    <2>3. \A t \in Tokens : tokens[t].login \in ended => ~tokens[t].active
      BY DEF IInv, EndedInv
    <2> QED BY <1>1, <1>4, <2>1, <2>2, <2>3 DEF EndedInv
  <1>13. SignedInv'
    <2> SUFFICES ASSUME NEW a \in signed
                 PROVE  /\ a.login \in Tokens' /\ tokens'[a.login].login = a.login
                        /\ tokens'[a.login].user = a.user
                        /\ a.tv <= users'[a.user].tv
                        /\ a.login \in forced' => a.tv < users'[a.user].tv
      BY <1>1 DEF SignedInv
    <2>1. /\ a.login \in Tokens /\ tokens[a.login].login = a.login /\ tokens[a.login].user = a.user
          /\ a.tv <= users[a.user].tv
          /\ a.login \in forced => a.tv < users[a.user].tv
      BY DEF IInv, SignedInv
    <2>2. a.user \in Users /\ a.tv \in Nat
      BY <1>2 DEF Types, SignedType
    <2>3. a.tv <= users'[a.user].tv /\ (a.login \in forced => a.tv < users'[a.user].tv)
      BY <1>9, <2>1, <2>2
    <2>4. force /\ a.login \in q.before => a.tv < users'[a.user].tv
      <3> HAVE force /\ a.login \in q.before
      <3>1. a.user = q.user
        BY <1>2, <2>1 DEF Claims
      <3> QED BY <1>9, <2>1, <2>2, <3>1
    <2> QED BY <1>1, <1>4, <2>1, <2>3, <2>4
  <1>14. \A x \in Procs : x # p => S \cap token_lock[x] = {}
    BY DEF IInv, LocksInv
  <1> HIDE DEF S
  <1>15. \A x \in Procs : RequestInv(x, proc[x])'
    BY <1>1, <1>3, <1>5, <1>9, <1>14, RevocationSeen
  <1> QED BY <1>4, <1>10, <1>11, <1>12, <1>13, <1>15 DEF IInv

\* A table of tokens with one more row.
LEMMA OneMoreToken ==
    ASSUME NEW s \in Seq(TokenType), NEW r \in TokenType, tokens \in Seq(TokenType),
           Len(s) = Len(tokens), tokens' = Append(s, r)
    PROVE  /\ tokens' \in Seq(TokenType) /\ Len(tokens') = Len(tokens) + 1
           /\ Len(tokens) \in Nat /\ Tokens' = Tokens \cup {Len(tokens) + 1}
           /\ Len(tokens) + 1 \notin Tokens
           /\ tokens'[Len(tokens) + 1] = r /\ \A t \in Tokens : tokens'[t] = s[t]
  BY DEF Tokens

\* A login's first token comes, and the buckets of the login are reset.
LEMMA InsertTokenStep ==
    ASSUME IInv, NEW p \in Procs, InsertToken(p)
    PROVE  IInv'
  <1> DEFINE q == proc[p]
             n == Len(tokens) + 1
             new == [user |-> q.user, login |-> n, active |-> TRUE]
             access == [user |-> q.user, login |-> n, tv |-> q.row.tv]
  <1>1. /\ At(p, "insert") /\ tokens' = Append(tokens, new) /\ Answer(p)
        /\ signed' = signed \cup {access}
        /\ UNCHANGED <<desk, users, user_lock, token_lock, ended, forced>>
    BY DEF InsertToken, Issue, Sign, lockVars, historyVars
  <1>2. /\ Types /\ proc \in [Procs -> RequestType] /\ q \in RequestType /\ Placed(q)
        /\ Versioned(q) /\ tokens \in Seq(TokenType)
    BY OwnParts DEF Types
  <1>3. q.user \in Users /\ q.row.tv \in Nat /\ q.row.tv <= users[q.user].tv
    BY <1>1, <1>2 DEF At, Placed, Versioned, RequestType, RowType
  <1>4. n \in Nat /\ Len(tokens) \in Nat /\ Len(tokens) <= n
    BY <1>2
  <1>5. /\ new \in TokenType /\ new.user = q.user /\ new.login = n /\ new.active
        /\ access \in SignedType /\ access.user = q.user /\ access.login = n
        /\ access.tv = q.row.tv
    BY <1>3, <1>4 DEF TokenType, SignedType
  <1> HIDE DEF new, access
  <1>6. /\ tokens' \in Seq(TokenType) /\ Len(tokens') = n /\ Tokens' = Tokens \cup {n}
        /\ n \notin Tokens /\ tokens'[n] = new /\ \A t \in Tokens : tokens'[t] = tokens[t]
    BY <1>1, <1>2, <1>5, OneMoreToken
  <1>7. /\ proc' \in [Procs -> RequestType] /\ proc'[p] = Idle
        /\ \A x \in Procs : x # p => proc'[x] = proc[x]
    BY <1>1, <1>2, AnswerSlot
  <1> HIDE DEF n
  <1>8. Types' /\ LocksInv'
    BY <1>1, <1>2, <1>5, <1>6, <1>7 DEF Types, IInv, LocksInv
  <1>9. \A t \in Tokens : tokens[t].login \in Tokens
    BY DEF IInv, LoginsInv
  <1>10. LoginsInv'
    BY <1>5, <1>6, <1>9 DEF IInv, LoginsInv
  <1>11. OneActiveToken'
    BY <1>5, <1>6, <1>9 DEF IInv, OneActiveToken
  <1>12. EndedInv'
    BY <1>1, <1>5, <1>6, <1>9 DEF IInv, EndedInv
  <1>13. SignedInv'
    <2>1. access.login \notin forced
      BY <1>5, <1>6 DEF IInv, EndedInv, Types
    <2> SUFFICES ASSUME NEW a \in signed'
                 PROVE  /\ a.login \in Tokens' /\ tokens'[a.login].login = a.login
                        /\ tokens'[a.login].user = a.user
                        /\ a.tv <= users[a.user].tv
                        /\ a.login \in forced => a.tv < users[a.user].tv
      BY <1>1 DEF SignedInv
    <2>2. CASE a = access
      BY <1>3, <1>5, <1>6, <2>1, <2>2
    <2>3. CASE a \in signed
      BY <1>6, <2>3 DEF IInv, SignedInv
    <2> QED BY <1>1, <2>2, <2>3
  <1>14. ASSUME NEW x \in Procs, x # p PROVE RequestInv(x, proc[x])'
    <2>1. /\ RequestInv(x, proc[x]) /\ Sealed(proc[x]) /\ proc[x].before \subseteq Tokens
      BY OwnParts DEF IInv, Claims
    <2>2. proc[x].pc \in {"revoke_all", "revoking"} /\ proc[x].before # {} /\ proc[x].op = "disable" =>
            /\ users'[proc[x].user].status = 0
            /\ \A y \in Procs : proc'[y].pc = "rotate" => proc'[y].user # proc[x].user
      <3>1. \A y \in Procs : proc'[y].pc = "rotate" => proc'[y] = proc[y]
        BY <1>7, IdleSlot
      <3> QED BY <1>1, <2>1, <3>1 DEF Sealed
    <2>3. \A t \in 1..Len(tokens') : t \in Tokens \/ tokens'[t].login \notin proc[x].before
      <3>1. 1..Len(tokens') = Tokens'
        BY DEF Tokens
      <3> QED BY <1>5, <1>6, <2>1, <3>1
    <2>4. \A t \in Tokens : /\ tokens'[t].user = tokens[t].user
                            /\ tokens'[t].login = tokens[t].login
                            /\ tokens'[t].active => tokens[t].active
                            /\ tokens[t].active /\ t \in token_lock[x] => tokens'[t].active
      BY <1>6
    <2>5. /\ proc'[x] = proc[x] /\ token_lock'[x] = token_lock[x]
          /\ \A u \in Users : user_lock[u] = x => user_lock'[u] = x
      BY <1>1, <1>7, <1>14
    <2>6. /\ users' \in [Users -> RowType] /\ \A u \in Users : users[u].tv <= users'[u].tv
      BY <1>1, <1>2 DEF Types, RowType
    <2>7. Len(tokens) <= Len(tokens')
      BY <1>4, <1>6
    <2>8. Respects(x)
      BY <1>6, <2>2, <2>3, <2>4, <2>5, <2>6, <2>7 DEF Respects
    <2> QED BY <1>2, <2>1, <2>8, OtherKept
  <1>15. RequestInv(p, proc[p])'
    BY <1>7, IdleInv
  <1> QED BY <1>8, <1>10, <1>11, <1>12, <1>13, <1>14, <1>15 DEF IInv

\* A token is exchanged for its successor.  It is still active, so its login is open and
\* has no other; nobody gathers the user's tokens meanwhile.
LEMMA CommitRotationStep ==
    ASSUME IInv, NEW p \in Procs, CommitRotation(p)
    PROVE  IInv'
  <1> DEFINE q == proc[p]
             old == tokens[q.tok]
             S == {q.tok}
             R == Revoked(S)
             n == Len(tokens) + 1
             new == [old EXCEPT !.active = TRUE]
             access == [user |-> q.user, login |-> old.login, tv |-> q.row.tv]
             next == [q EXCEPT !.pc = "touch", !.tok = n]
  <1>1. /\ At(p, "rotate") /\ tokens' = Append(R, new) /\ Become(p, next) /\ Release(p)
        /\ signed' = signed \cup {access}
        /\ UNCHANGED <<desk, users, ended, forced>>
    BY DEF CommitRotation, Sign, historyVars
  <1>2. /\ Types /\ proc \in [Procs -> RequestType] /\ q \in RequestType /\ Placed(q)
        /\ Versioned(q) /\ Taken(p, q) /\ Owns(p, q) /\ Claims(q) /\ tokens \in Seq(TokenType)
    BY OwnParts DEF Types
  <1>3. q.user \in Users /\ q.row.tv \in Nat /\ q.row.tv <= users[q.user].tv
    BY <1>1, <1>2 DEF At, Placed, Versioned, RequestType, RowType
  <1>4. /\ q.tok \in Tokens /\ q.tok \in token_lock[p] /\ old.active /\ old.user = q.user
        /\ user_lock[q.user] = p /\ old \in TokenType
    BY <1>1, <1>2 DEF At, Placed, Taken, Owns, Tokens
  <1>5. /\ old.login \in Nat /\ old.login \in Tokens /\ tokens[old.login].login = old.login
        /\ tokens[old.login].user = q.user
    BY <1>4 DEF TokenType, IInv, LoginsInv
  <1>6. n \in Nat /\ Len(tokens) \in Nat /\ Len(tokens) <= n
    BY <1>2
  <1>7. /\ new \in TokenType /\ new.user = q.user /\ new.login = old.login /\ new.active
    BY <1>4 DEF TokenType
  <1>8. /\ access \in SignedType /\ access.user = q.user /\ access.login = old.login
        /\ access.tv = q.row.tv
    BY <1>3, <1>5 DEF SignedType
  <1>9. /\ next \in RequestType /\ next.pc = "touch" /\ next.op = q.op /\ next.user = q.user
        /\ next.tok = n /\ next.before = q.before
    BY <1>2, <1>6 DEF RequestType, Steps
  <1> HIDE DEF new, access, next, R
  <1>10. /\ R \in Seq(TokenType) /\ Len(R) = Len(tokens)
         /\ \A t \in Tokens : /\ R[t].user = tokens[t].user /\ R[t].login = tokens[t].login
                              /\ R[t].active <=> tokens[t].active /\ t \notin S
    BY <1>2, RevokedTokens DEF R
  <1>11. /\ tokens' \in Seq(TokenType) /\ Len(tokens') = n /\ Tokens' = Tokens \cup {n}
         /\ n \notin Tokens /\ tokens'[n] = new /\ \A t \in Tokens : tokens'[t] = R[t]
    BY <1>1, <1>2, <1>7, <1>10, OneMoreToken
  <1>12. \A t \in Tokens : /\ tokens'[t].user = tokens[t].user
                           /\ tokens'[t].login = tokens[t].login
                           /\ tokens'[t].active <=> tokens[t].active /\ t # q.tok
    BY <1>10, <1>11
  <1>13. /\ proc' \in [Procs -> RequestType] /\ proc'[p] = next
         /\ \A x \in Procs : x # p => proc'[x] = proc[x]
    BY <1>1, <1>2, <1>9, BecomeSlot
  <1>14. /\ user_lock' \in [Users -> Procs \cup {Free}] /\ token_lock' \in [Procs -> SUBSET Nat]
         /\ token_lock'[p] = {}
         /\ \A x \in Procs : x # p => /\ token_lock'[x] = token_lock[x]
                                      /\ \A u \in Users : user_lock[u] = x => user_lock'[u] = x
    BY <1>1, <1>2, ReleasedLocks
  <1> HIDE DEF n, S
  <1>15. Types'
    BY <1>1, <1>2, <1>8, <1>11, <1>13, <1>14 DEF Types
  <1>16. LocksInv'
    BY <1>14 DEF IInv, LocksInv
  <1>17. LoginsInv'
    <2>1. \A t \in Tokens : tokens[t].login \in Tokens
      BY DEF IInv, LoginsInv
    <2>2. \A t \in Tokens' : /\ tokens'[t].login \in Tokens'
                             /\ tokens'[tokens'[t].login].login = tokens'[t].login
      BY <1>5, <1>7, <1>11, <1>12, <2>1 DEF IInv, LoginsInv
    <2>3. \A t \in Tokens : tokens[t].login = old.login => tokens[t].user = q.user
      BY <1>4 DEF IInv, LoginsInv
    <2>4. \A s, t \in Tokens' :
            tokens'[s].login = tokens'[t].login => tokens'[s].user = tokens'[t].user
      BY <1>7, <1>11, <1>12, <2>3 DEF IInv, LoginsInv
    <2> QED BY <2>2, <2>4 DEF LoginsInv
  <1>18. OneActiveToken'
    <2>1. \A t \in Tokens : t # q.tok /\ tokens[t].login = old.login => ~tokens[t].active
      BY <1>4 DEF IInv, OneActiveToken
    <2> QED BY <1>7, <1>11, <1>12, <2>1 DEF IInv, OneActiveToken
  <1>19. old.login \notin ended /\ old.login \notin forced
    BY <1>2, <1>4 DEF IInv, EndedInv, Types
  <1>20. EndedInv'
    <2>1. ended \subseteq Tokens /\ \A t \in Tokens : tokens[t].login \in ended => ~tokens[t].active
      BY DEF IInv, EndedInv
    <2>2. \A t \in Tokens : tokens'[t].login \in ended => ~tokens'[t].active
      BY <1>12, <2>1
    <2>3. tokens'[n].login \notin ended
      BY <1>7, <1>11, <1>19
    <2> QED BY <1>1, <1>11, <2>1, <2>2, <2>3 DEF EndedInv
  <1>21. SignedInv'
    <2> SUFFICES ASSUME NEW a \in signed'
                 PROVE  /\ a.login \in Tokens' /\ tokens'[a.login].login = a.login
                        /\ tokens'[a.login].user = a.user
                        /\ a.tv <= users[a.user].tv
                        /\ a.login \in forced => a.tv < users[a.user].tv
      BY <1>1 DEF SignedInv
    <2>1. CASE a = access
      BY <1>3, <1>5, <1>8, <1>11, <1>12, <1>19, <2>1
    <2>2. CASE a \in signed
      BY <1>11, <1>12, <2>2 DEF IInv, SignedInv
    <2> QED BY <1>1, <2>1, <2>2
  <1>22. RequestInv(p, proc[p])'
    <2>1. Placed(proc[p])'
      BY <1>3, <1>9, <1>11, <1>13 DEF Placed, AdminSteps
    <2>2. \A t \in Tokens' : tokens'[t].login \in q.before => tokens'[t].user = q.user
      BY <1>2, <1>7, <1>11, <1>12 DEF Claims
    <2>3. q.before \subseteq Tokens'
      BY <1>2, <1>11 DEF Claims
    <2>4. Claims(proc[p])'
      BY <1>9, <1>13, <2>2, <2>3 DEF Claims
    <2> QED BY <1>9, <1>13, <2>1, <2>4, LightRequest
  <1>23. ASSUME NEW x \in Procs, x # p PROVE RequestInv(x, proc[x])'
    <2>1. /\ RequestInv(x, proc[x]) /\ Placed(proc[x]) /\ Sealed(proc[x]) /\ Claims(proc[x])
          /\ Owns(x, proc[x])
      BY OwnParts DEF IInv
    <2>2. proc[x].pc \in {"revoke_all", "revoking"} /\ proc[x].before # {} /\ proc[x].op = "disable" =>
            /\ users'[proc[x].user].status = 0
            /\ \A y \in Procs : proc'[y].pc = "rotate" => proc'[y].user # proc[x].user
      <3>1. \A y \in Procs : proc'[y].pc = "rotate" => proc'[y] = proc[y]
        BY <1>9, <1>13
      <3> QED BY <1>1, <2>1, <3>1 DEF Sealed
    <2>3. old.login \notin proc[x].before \/ (proc[x].pc # "revoking" /\ q.user = proc[x].user)
      <3> SUFFICES ASSUME old.login \in proc[x].before
                   PROVE  proc[x].pc # "revoking" /\ q.user = proc[x].user
        OBVIOUS
      <3>1. q.user = proc[x].user
        BY <1>4, <2>1 DEF Claims
      <3>2. ASSUME proc[x].pc = "revoking" PROVE FALSE
        <4>1. CASE proc[x].op = "disable"
          <5>1. \A y \in Procs : proc[y].pc = "rotate" => proc[y].user # proc[x].user
            BY <2>1, <3>2, <4>1 DEF Sealed
          <5> QED BY <1>1, <3>1, <5>1 DEF At
        <4>2. CASE proc[x].op \in {"force_logout", "reset_password"}
          <5>1. user_lock[proc[x].user] = x
            BY <2>1, <3>2, <4>2 DEF Owns
          <5> QED BY <1>4, <1>23, <3>1, <5>1
        <4> QED BY <2>1, <3>2, <4>1, <4>2 DEF Placed
      <3> QED BY <3>1, <3>2
    <2>4. \A t \in 1..Len(tokens') :
            \/ t \in Tokens \/ tokens'[t].login \notin proc[x].before
            \/ (proc[x].pc # "revoking" /\ tokens'[t].user = proc[x].user)
      <3>1. 1..Len(tokens') = Tokens'
        BY DEF Tokens
      <3> QED BY <1>7, <1>11, <2>3, <3>1
    <2>5. q.tok \notin token_lock[x]
      BY <1>4, <1>23 DEF IInv, LocksInv
    <2>6. \A t \in Tokens : /\ tokens'[t].user = tokens[t].user
                            /\ tokens'[t].login = tokens[t].login
                            /\ tokens'[t].active => tokens[t].active
                            /\ tokens[t].active /\ t \in token_lock[x] => tokens'[t].active
      BY <1>12, <2>5
    <2>7. /\ proc'[x] = proc[x] /\ token_lock'[x] = token_lock[x]
          /\ \A u \in Users : user_lock[u] = x => user_lock'[u] = x
      BY <1>13, <1>14, <1>23
    <2>8. /\ users' \in [Users -> RowType] /\ \A u \in Users : users[u].tv <= users'[u].tv
      BY <1>1, <1>2 DEF Types, RowType
    <2>9. Len(tokens) <= Len(tokens')
      BY <1>6, <1>11
    <2>10. Respects(x)
      BY <1>11, <2>2, <2>4, <2>6, <2>7, <2>8, <2>9 DEF Respects
    <2> QED BY <1>2, <2>1, <2>10, OtherKept
  <1> QED BY <1>15, <1>16, <1>17, <1>18, <1>20, <1>21, <1>22, <1>23 DEF IInv

-----------------------------------------------------------------------------
(* The invariant.                                                           *)

\* The first administrator, the first session.
LEMMA IInvInit == SessionsInit => IInv
  <1> SUFFICES ASSUME SessionsInit PROVE IInv
    OBVIOUS
  <1> DEFINE u1 == CHOOSE u \in Users : u # Protected
             first == [user |-> u1, login |-> 1, active |-> TRUE]
             access == [user |-> tokens[1].user, login |-> 1, tv |-> 0]
  <1>1. u1 \in Users
    BY SessionsAssumption
  <1> HIDE DEF u1
  <1>2. first \in TokenType /\ first.user = u1 /\ first.login = 1 /\ first.active
    BY <1>1 DEF TokenType
  <1>3. tokens = <<first>> /\ signed = {access}
    BY DEF SessionsInit, u1
  <1> HIDE DEF first
  <1>4. /\ tokens \in Seq(TokenType) /\ Len(tokens) = 1 /\ tokens[1] = first
    BY <1>2, <1>3
  <1>5. Tokens = {1}
    BY <1>4 DEF Tokens
  <1>6. access \in SignedType /\ access.user = u1 /\ access.login = 1 /\ access.tv = 0
    BY <1>1, <1>2, <1>4 DEF SignedType
  <1> HIDE DEF access
  <1>7. \A u \in Users : users[u] \in RowType /\ users[u].tv = 0
    <2> SUFFICES ASSUME NEW u \in Users PROVE users[u] \in RowType /\ users[u].tv = 0
      OBVIOUS
    <2> DEFINE a == (u = Protected)
    <2>1. users[u] = LocalUser(a) /\ a \in BOOLEAN
      BY DEF SessionsInit
    <2> HIDE DEF a
    <2> QED BY <2>1 DEF LocalUser, RowType
  <1>8. users \in [Users -> RowType]
    BY <1>7 DEF SessionsInit
  <1>9. /\ proc \in [Procs -> RequestType] /\ \A p \in Procs : proc[p] = Idle
        /\ token_lock \in [Procs -> SUBSET Nat] /\ \A p \in Procs : token_lock[p] = {}
        /\ user_lock \in [Users -> Procs \cup {Free}]
        /\ desk \in DOMAIN Desks /\ ended = {} /\ forced = {}
    BY IdleSlot DEF SessionsInit
  <1>10. Types
    BY <1>3, <1>4, <1>6, <1>8, <1>9 DEF Types
  <1>11. LoginsInv /\ OneActiveToken /\ EndedInv
    BY <1>2, <1>4, <1>5, <1>9 DEF LoginsInv, OneActiveToken, EndedInv
  <1>12. SignedInv
    BY <1>1, <1>2, <1>3, <1>4, <1>5, <1>6, <1>7, <1>9 DEF SignedInv
  <1>13. LocksInv
    BY <1>9 DEF LocksInv
  <1>14. \A p \in Procs : RequestInv(p, proc[p])
    BY <1>9, IdleSlot DEF RequestInv, Placed, Taken, Versioned, Owns, Claims, Covers, Sealed,
          AdminSteps
  <1> QED BY <1>10, <1>11, <1>12, <1>13, <1>14 DEF IInv

\* A request goes on.
LEMMA GoesStep ==
    ASSUME IInv, NEW p \in Procs, Goes(p)
    PROVE  IInv'
  <1>1. CASE \E outcome \in Outcomes : LdapLogin(p, outcome)
    BY <1>1, LdapLoginStep
  <1>2. CASE LdapRefuses(p)
    BY <1>2, AnsweredStep DEF LdapRefuses, rowVars, lockVars, clientVars, historyVars
  <1>3. CASE \E password \in {"old", "new"} : LocalLogin(p, password)
    BY <1>3, LocalLoginStep
  <1>4. CASE \E ok \in BOOLEAN : TouchLastLogin(p, ok)
    <2>1. /\ Answer(p)
          /\ UNCHANGED <<desk, users, tokens, user_lock, token_lock, signed, ended, forced>>
      BY <1>4 DEF TouchLastLogin, rowVars, lockVars, historyVars
    <2> QED BY <2>1, AnsweredStep
  <1>5. CASE UpdateUser(p)
    <2>1. UNCHANGED <<desk, tokens, user_lock, token_lock, signed, ended, forced>> /\ RowFree(p)
      BY <1>5 DEF UpdateUser, lockVars, clientVars, historyVars
    <2>2. CASE At(p, "enable") /\ Overtake(p) /\ users' = [users EXCEPT ![proc[p].user].status = 1]
      BY <2>1, <2>2, EnableStep
    <2>3. CASE /\ At(p, "disable") /\ Goto(p, "revoke_all")
               /\ users' = [users EXCEPT ![proc[p].user].status = 0]
      BY <2>1, <2>3, DisableStep
    <2>4. CASE /\ At(p, "set_is_admin") /\ Answer(p)
               /\ users' = [users EXCEPT ![proc[p].user].is_admin = ~@]
      BY <2>1, <2>4, SetIsAdminStep
    <2> QED BY <1>5, <2>2, <2>3, <2>4 DEF UpdateUser
  <1>6. CASE \E t \in Tokens : RevokeNext(p, t)
    BY <1>6, RevokeNextStep
  <1>7. CASE InsertKey(p)
    BY <1>7, AnsweredStep DEF InsertKey, lockVars, clientVars, historyVars
  <1>8. CASE AbortDeadlocked(p)
    BY <1>8, RolledBackStep DEF AbortDeadlocked, rowVars, clientVars, historyVars
  <1>9. CASE IssueSession(p) \/ InsertToken(p) \/ RevokeIfActive(p) \/ LockUser(p) \/ CommitRotation(p)
    BY <1>9, IssueSessionStep, InsertTokenStep, RevokeIfActiveStep, LockUserStep, CommitRotationStep
  <1>10. CASE Revoke(p) \/ SetPasswordHash(p) \/ BumpVersion(p) \/ RevokeAllStarts(p)
                \/ RevokeAllCommits(p)
    BY <1>10, RevokeStep, SetPasswordHashStep, BumpVersionStep, RevokeAllStartsStep,
       RevokeAllCommitsStep
  <1> QED BY <1>1, <1>2, <1>3, <1>4, <1>5, <1>6, <1>7, <1>8, <1>9, <1>10 DEF Goes

\* Every step keeps the invariant.
LEMMA IInvStep == IInv /\ [SessionsNext]_vars => IInv'
  <1>1. ASSUME IInv, NEW p \in Procs, Drop(p) PROVE IInv'
    BY <1>1, RolledBackStep DEF Drop, rowVars, clientVars, historyVars
  <1>2. ASSUME IInv, UNCHANGED <<desk, users, tokens, proc, user_lock, token_lock, signed, ended, forced>>
        PROVE  IInv'
    BY <1>2 DEF IInv, Types, LoginsInv, OneActiveToken, LocksInv, EndedInv, SignedInv, Tokens,
          RequestInv, Placed, Taken, Versioned, Owns, Claims, Covers, Sealed
  <1>3. ASSUME IInv, Tick \/ UNCHANGED vars PROVE IInv'
    BY <1>2, <1>3 DEF Tick, vars, rowVars, lockVars, clientVars, historyVars
  <1> QED BY <1>1, <1>3, ArrivesStep, GoesStep DEF SessionsNext

\* The invariant holds throughout.
LEMMA SessionsInductive == SessionsSpec => []IInv
  BY IInvInit, IInvStep, PTL DEF SessionsSpec

\* However refreshes, logouts, forced logouts and disablings overlap, and whichever of them
\* are dropped or aborted, a login has one active refresh token at most: revoke_if_active
\* takes the row before the successor is written (service/console.rs refresh).
THEOREM SessionsOneActiveToken == SessionsSpec => []OneActiveToken
  BY SessionsInductive, PTL DEF IInv

\* An answered forced logout, password reset or disabling stays effective for every login
\* that existed when it was asked for, against any number of refreshes and administrators
\* (store/mod.rs force_logout, api/console.rs update_user).
THEOREM SessionsEndedStaysEnded == SessionsSpec => []EndedStaysEnded
  <1>1. IInv => EndedStaysEnded
    <2> SUFFICES ASSUME IInv PROVE EndedStaysEnded
      OBVIOUS
    <2>1. \A t \in Tokens : tokens[t].login \in ended => ~tokens[t].active
      BY DEF IInv, EndedInv
    <2>2. ASSUME NEW a \in signed, a.login \in forced PROVE ~Accepted(a)
      <3>1. a.tv < users[a.user].tv /\ a.user \in Users /\ a.tv \in Nat
        BY <2>2 DEF IInv, SignedInv, Types, SignedType
      <3>2. users[a.user].tv \in Nat
        BY <3>1 DEF IInv, Types, RowType
      <3> QED BY <3>1, <3>2 DEF Accepted
    <2> QED BY <2>1, <2>2 DEF EndedStaysEnded
  <1> QED BY <1>1, SessionsInductive, PTL

-----------------------------------------------------------------------------
(* The built-in administrator.                                              *)

\* No step writes his row: changes of users are guarded by ensure_not_protected, and the
\* directory is not asked about him.
LEMMA ProtectedRowKept ==
    ASSUME IInv, SessionsNext PROVE users'[Protected] = users[Protected]
  <1>1. Protected \in Users /\ users \in [Users -> RowType]
    BY SessionsAssumption DEF IInv, Types
  <1>2. ASSUME NEW p \in Procs, Arrives(p) \/ Drop(p) PROVE users' = users
    BY <1>2 DEF Arrives, LoginStarts, RefreshStarts, LogoutStarts, CreateKeyStarts, RevokeKey,
          AdminStarts, Drop, rowVars
  <1>3. ASSUME NEW p \in Procs, Goes(p) PROVE users'[Protected] = users[Protected]
    <2>1. proc[p].pc \in AdminSteps => proc[p].user # Protected
      BY OwnParts DEF Placed
    <2>2. ASSUME NEW outcome, LdapLogin(p, outcome) PROVE users'[Protected] = users[Protected]
      BY <1>1, <2>2 DEF LdapLogin, AsksDirectory
    <2>3. CASE UpdateUser(p) \/ SetPasswordHash(p) \/ RevokeAllCommits(p)
      <3>1. proc[p].user # Protected
        BY <2>1, <2>3 DEF UpdateUser, SetPasswordHash, RevokeAllCommits, At, AdminSteps
      <3> QED BY <1>1, <2>3, <3>1 DEF UpdateUser, SetPasswordHash, RevokeAllCommits
    <2>4. CASE ~(UpdateUser(p) \/ SetPasswordHash(p) \/ RevokeAllCommits(p)
                    \/ \E outcome \in Outcomes : LdapLogin(p, outcome))
      BY <1>3, <2>4 DEF Goes, LdapRefuses, LocalLogin, IssueSession, InsertToken, RevokeIfActive,
            LockUser, CommitRotation, TouchLastLogin, Revoke, BumpVersion, RevokeAllStarts,
            RevokeNext, InsertKey, AbortDeadlocked, rowVars
    <2> QED BY <2>2, <2>3, <2>4
  <1> QED BY <1>2, <1>3 DEF SessionsNext, Tick, rowVars

\* The built-in administrator stays an enabled local administrator, whatever the directory
\* answers and whatever the other administrators ask for (service/console.rs login,
\* api/console.rs ensure_not_protected).
THEOREM SessionsProtectedAdminKept == SessionsSpec => []ProtectedAdminKept
  <1>1. SessionsInit => ProtectedAdminKept
    <2> SUFFICES ASSUME SessionsInit PROVE ProtectedAdminKept
      OBVIOUS
    <2> DEFINE a == (Protected = Protected)
    <2>1. users[Protected] = LocalUser(a) /\ a
      BY SessionsAssumption DEF SessionsInit
    <2> HIDE DEF a
    <2> QED BY <2>1 DEF ProtectedAdminKept, LocalUser
  <1>2. IInv /\ ProtectedAdminKept /\ [SessionsNext]_vars => ProtectedAdminKept'
    BY ProtectedRowKept DEF ProtectedAdminKept, vars, rowVars
  <1> QED BY <1>1, <1>2, SessionsInductive, PTL DEF SessionsSpec

-----------------------------------------------------------------------------
(* API keys.                                                                *)

\* The requests that found room for a key of u.
Inserting(u) == {p \in Procs : proc[p].pc = "insert_key" /\ proc[p].user = u}

\* Requests that overlap find the same room: they can pass the limit of api/console.rs
\* 279, all clients but one by one key each.
KeysBounded == \A u \in Users : keys[u] <= MaxKeys + Cardinality(Clients) - 1

\* A key that is being inserted counts already.
KeysInv ==
    /\ keys \in [Users -> Nat]
    /\ \A u \in Users : /\ Inserting(u) \subseteq Clients
                        /\ keys[u] + Cardinality(Inserting(u)) <= MaxKeys + Cardinality(Clients) - 1

\* What the steps do to the keys: only the creation of a key lets a request in.
LEMMA KeySteps ==
    ASSUME IInv, SessionsNext
    PROVE  /\ Clients' = Clients
           /\ \/ /\ keys' = keys
                 /\ \A u \in Users : Inserting(u)' \subseteq Inserting(u)
              \/ \E p \in Clients, u \in Users : CreateKeyStarts(p, u) \/ RevokeKey(p, u)
              \/ \E p \in Procs : InsertKey(p)
  <1>1. proc \in [Procs -> RequestType]
    BY DEF IInv, Types
  <1>2. Clients' = Clients
    <2>1. desk' = desk
      BY DEF SessionsNext, Arrives, LoginStarts, RefreshStarts, LogoutStarts, CreateKeyStarts,
            RevokeKey, AdminStarts, Drop, Tick, Goes, LdapLogin, LdapRefuses, LocalLogin, IssueSession,
            InsertToken, RevokeIfActive, LockUser, CommitRotation, TouchLastLogin, Revoke, UpdateUser,
            SetPasswordHash, BumpVersion, RevokeAllStarts, RevokeNext, RevokeAllCommits, InsertKey,
            AbortDeadlocked
    <2> QED BY <2>1 DEF Clients
  <1>3. ASSUME NEW p \in Procs, proc'[p].pc # "insert_key",
               \A x \in Procs : x # p => proc'[x] = proc[x]
        PROVE  \A u \in Users : Inserting(u)' \subseteq Inserting(u)
    BY <1>3 DEF Inserting
  <1>4. ASSUME NEW p \in Procs, Arrives(p),
               ~\E c \in Clients, u \in Users : CreateKeyStarts(c, u) \/ RevokeKey(c, u)
        PROVE  keys' = keys /\ \A u \in Users : Inserting(u)' \subseteq Inserting(u)
    <2>1. \/ \E u : LoginStarts(p, u)
          \/ \E t : RefreshStarts(p, t) \/ LogoutStarts(p, t)
          \/ \E op, u : AdminStarts(p, op, u) /\ op # "insert_key"
      BY <1>4 DEF Arrives
    <2>2. keys' = keys
      BY <2>1 DEF LoginStarts, RefreshStarts, LogoutStarts, AdminStarts, rowVars
    <2>3. ASSUME NEW op, NEW q, Begin(p, op, q), [q EXCEPT !.op = op].pc # "insert_key"
          PROVE  proc'[p].pc # "insert_key" /\ \A x \in Procs : x # p => proc'[x] = proc[x]
      BY <1>1, <2>3 DEF Begin, Become
    <2>4. ASSUME NEW op, NEW pc, NEW u, NEW t, NEW B, pc # "insert_key"
          PROVE  /\ [Idle EXCEPT !.op = op].pc # "insert_key"
                 /\ [[Idle EXCEPT !.pc = pc, !.user = u] EXCEPT !.op = op].pc # "insert_key"
                 /\ [[Idle EXCEPT !.pc = pc, !.tok = t, !.user = u] EXCEPT !.op = op].pc # "insert_key"
                 /\ [[Idle EXCEPT !.pc = pc, !.user = u, !.before = B] EXCEPT !.op = op].pc # "insert_key"
      BY <2>4 DEF Idle
    <2>5. CASE \E u : LoginStarts(p, u)
      <3>1. PICK u : \/ Begin(p, "login", [Idle EXCEPT !.pc = "authenticate", !.user = u])
                     \/ Begin(p, "login", Idle)
        BY <2>5 DEF LoginStarts
      <3> DEFINE q == [Idle EXCEPT !.pc = "authenticate", !.user = u]
      <3>2. /\ [q EXCEPT !.op = "login"].pc # "insert_key"
            /\ [Idle EXCEPT !.op = "login"].pc # "insert_key"
        BY DEF Idle
      <3> HIDE DEF q
      <3>3. Begin(p, "login", q) \/ Begin(p, "login", Idle)
        BY <3>1 DEF q
      <3>4. proc'[p].pc # "insert_key" /\ \A x \in Procs : x # p => proc'[x] = proc[x]
        BY <2>3, <3>2, <3>3
      <3> QED BY <1>3, <2>2, <3>4
    <2>6. CASE \E t : RefreshStarts(p, t)
      BY <1>3, <2>2, <2>3, <2>4, <2>6 DEF RefreshStarts
    <2>7. CASE \E t : LogoutStarts(p, t)
      BY <1>3, <2>2, <2>3, <2>4, <2>7 DEF LogoutStarts
    <2>8. CASE \E op, u : AdminStarts(p, op, u) /\ op # "insert_key"
      BY <1>3, <2>2, <2>3, <2>4, <2>8 DEF AdminStarts
    <2> QED BY <2>1, <2>5, <2>6, <2>7, <2>8
  <1>5. ASSUME NEW p \in Procs, Drop(p) \/ AbortDeadlocked(p) \/ LdapRefuses(p) \/ Revoke(p)
                    \/ RevokeAllCommits(p) \/ InsertToken(p) \/ \E ok \in BOOLEAN : TouchLastLogin(p, ok)
        PROVE  keys' = keys /\ \A u \in Users : Inserting(u)' \subseteq Inserting(u)
    <2>1. Answer(p) /\ keys' = keys
      BY <1>5 DEF Drop, AbortDeadlocked, LdapRefuses, Revoke, RevokeAllCommits, InsertToken,
            TouchLastLogin, rowVars
    <2> QED BY <1>1, <1>3, <2>1, AnswerSlot, IdleSlot
  <1>6. ASSUME NEW p \in Procs, Goes(p), ~InsertKey(p), ~UpdateUser(p)
        PROVE  keys' = keys /\ \A u \in Users : Inserting(u)' \subseteq Inserting(u)
    <2>1. CASE \E o \in Outcomes, w \in {"old", "new"} : LdapLogin(p, o) \/ LocalLogin(p, w)
      <3>1. proc'[p].pc # "insert_key" /\ \A x \in Procs : x # p => proc'[x] = proc[x]
        BY <1>1, <2>1, IdleSlot DEF LdapLogin, LocalLogin, Become, Answer, RequestType
      <3> QED BY <1>3, <2>1, <3>1 DEF LdapLogin, LocalLogin, rowVars
    <2>2. CASE LockUser(p) \/ CommitRotation(p) \/ RevokeAllStarts(p)
      <3>1. ASSUME NEW a, NEW c
            PROVE  /\ [proc[p] EXCEPT !.pc = c, !.row = a].pc = c
                   /\ [proc[p] EXCEPT !.pc = c, !.tok = a].pc = c
                   /\ [proc[p] EXCEPT !.pc = c, !.todo = a].pc = c
        BY <1>1 DEF RequestType
      <3>2. \E a : \/ Answer(p)
                   \/ Become(p, [proc[p] EXCEPT !.pc = "rotate", !.row = a])
                   \/ Become(p, [proc[p] EXCEPT !.pc = "touch", !.tok = a])
                   \/ Become(p, [proc[p] EXCEPT !.pc = "revoking", !.todo = a])
        <4>1. CASE LockUser(p)
          BY <4>1 DEF LockUser
        <4>2. CASE CommitRotation(p)
          BY <4>2 DEF CommitRotation
        <4>3. CASE RevokeAllStarts(p)
          BY <4>3 DEF RevokeAllStarts
        <4> QED BY <2>2, <4>1, <4>2, <4>3
      <3>3. proc'[p].pc # "insert_key" /\ \A x \in Procs : x # p => proc'[x] = proc[x]
        BY <1>1, <3>1, <3>2, IdleSlot DEF Become, Answer
      <3> QED BY <1>3, <2>2, <3>3 DEF LockUser, CommitRotation, RevokeAllStarts, rowVars
    <2>3. CASE IssueSession(p) \/ RevokeIfActive(p) \/ SetPasswordHash(p) \/ BumpVersion(p)
      <3>1. Answer(p) \/ \E pc \in Steps \ {"insert_key"} : Goto(p, pc)
        BY <2>3 DEF IssueSession, RevokeIfActive, SetPasswordHash, BumpVersion, Steps
      <3>2. proc'[p].pc # "insert_key" /\ \A x \in Procs : x # p => proc'[x] = proc[x]
        BY <1>1, <3>1, IdleSlot, AnswerSlot, GotoSlot
      <3> QED BY <1>3, <2>3, <3>2 DEF IssueSession, RevokeIfActive, SetPasswordHash, BumpVersion,
                rowVars
    <2>4. CASE \E t \in Tokens : RevokeNext(p, t)
      <3>1. proc'[p].pc # "insert_key" /\ \A x \in Procs : x # p => proc'[x] = proc[x]
        BY <1>1, <2>4 DEF RevokeNext, Become, At, RequestType
      <3> QED BY <1>3, <2>4, <3>1 DEF RevokeNext, rowVars
    <2>5. CASE \E w \in {"old", "new"} : LocalLogin(p, w)
      <3>1. proc'[p].pc # "insert_key" /\ \A x \in Procs : x # p => proc'[x] = proc[x]
        BY <1>1, <2>5, IdleSlot DEF LocalLogin, Become, Answer, RequestType
      <3> QED BY <1>3, <2>5, <3>1 DEF LocalLogin, rowVars
    <2> QED BY <1>5, <1>6, <2>1, <2>2, <2>3, <2>4, <2>5 DEF Goes
  <1>7. ASSUME NEW p \in Procs, UpdateUser(p)
        PROVE  keys' = keys /\ \A u \in Users : Inserting(u)' \subseteq Inserting(u)
    <2>1. CASE Overtake(p)
      <3>1. ASSUME NEW x \in Procs, proc'[x].pc = "insert_key" PROVE proc'[x] = proc[x]
        <4>1. Disabling(x) => [proc[x] EXCEPT !.before = {}].pc # "insert_key"
          BY <1>1 DEF Disabling, RequestType
        <4> QED BY <2>1, <3>1, <4>1, IdleSlot DEF Overtake
      <3> QED BY <1>7, <3>1 DEF UpdateUser, Inserting
    <2>2. CASE Goto(p, "revoke_all") \/ Answer(p)
      <3>1. proc'[p].pc # "insert_key" /\ \A x \in Procs : x # p => proc'[x] = proc[x]
        BY <1>1, <2>2, IdleSlot DEF Goto, Answer, RequestType
      <3> QED BY <1>3, <1>7, <3>1 DEF UpdateUser
    <2> QED BY <1>7, <2>1, <2>2 DEF UpdateUser
  <1>8. Tick => keys' = keys /\ \A u \in Users : Inserting(u)' \subseteq Inserting(u)
    BY DEF Tick, rowVars, Inserting
  <1> QED BY <1>2, <1>4, <1>5, <1>6, <1>7, <1>8 DEF SessionsNext

\* The bound of the keys with the ones under way is kept.
LEMMA KeysStep ==
    ASSUME IInv, KeysInv, [SessionsNext]_vars PROVE KeysInv'
  <1> DEFINE limit == MaxKeys + Cardinality(Clients) - 1
  <1>1. /\ IsFiniteSet(Clients) /\ Cardinality(Clients) \in Nat /\ MaxKeys \in Nat
        /\ proc \in [Procs -> RequestType]
    BY SessionsAssumption, FS_CardinalityType DEF IInv, Types, Clients
  <1>2. \A u \in Users : /\ IsFiniteSet(Inserting(u)) /\ Cardinality(Inserting(u)) \in Nat
                         /\ Cardinality(Inserting(u)) <= Cardinality(Clients)
    BY <1>1, FS_Subset, FS_CardinalityType DEF KeysInv
  <1>3. /\ keys \in [Users -> Nat]
        /\ \A u \in Users : Inserting(u) \subseteq Clients
                            /\ keys[u] + Cardinality(Inserting(u)) <= limit
    BY DEF KeysInv
  <1>4. ASSUME NEW u \in Users, Inserting(u)' \subseteq Inserting(u)
        PROVE  /\ Inserting(u)' \subseteq Clients /\ Cardinality(Inserting(u)') \in Nat
               /\ Cardinality(Inserting(u)') <= Cardinality(Inserting(u))
    BY <1>2, <1>3, <1>4, FS_Subset, FS_CardinalityType
  <1> SUFFICES ASSUME Clients' = Clients
               PROVE  /\ keys' \in [Users -> Nat]
                      /\ \A u \in Users : /\ Inserting(u)' \subseteq Clients
                                          /\ keys'[u] + Cardinality(Inserting(u)') <= limit
    <2>1. Clients' = Clients
      BY KeySteps DEF Clients, vars
    <2> QED BY <2>1 DEF KeysInv
  <1> HIDE DEF limit
  <1>5. limit \in Int /\ limit = MaxKeys + Cardinality(Clients) - 1
    BY <1>1 DEF limit
  <1>6. CASE keys' = keys /\ \A u \in Users : Inserting(u)' \subseteq Inserting(u)
    BY <1>2, <1>3, <1>4, <1>5, <1>6
  <1>7. ASSUME NEW p \in Clients, NEW u \in Users, CreateKeyStarts(p, u)
        PROVE  /\ keys' \in [Users -> Nat]
               /\ \A v \in Users : /\ Inserting(v)' \subseteq Clients
                                   /\ keys'[v] + Cardinality(Inserting(v)') <= limit
    <2> DEFINE q == IF KeyAllowed(keys[u]) THEN [Idle EXCEPT !.pc = "insert_key", !.user = u] ELSE Idle
    <2>1. p \in Procs /\ "create_key" \in Operations
      BY DEF Clients, Procs, Operations, IInv, Types
    <2>2. q \in RequestType /\ Begin(p, "create_key", q) /\ keys' = keys
      BY <1>7, IdleSlot DEF CreateKeyStarts, RequestType, Steps, rowVars
    <2>3. q.pc = "insert_key" => q.user = u /\ keys[u] < MaxKeys
      BY IdleSlot DEF RequestType, KeyAllowed
    <2> HIDE DEF q
    <2>4. /\ proc'[p].pc = q.pc /\ proc'[p].user = q.user
          /\ \A x \in Procs : x # p => proc'[x] = proc[x]
      BY <1>1, <2>1, <2>2, BeginSlot
    <2>5. \A v \in Users : Inserting(v)' \subseteq Inserting(v) \cup {p}
      BY <2>4 DEF Inserting
    <2>6. \A v \in Users : Inserting(v)' \subseteq Inserting(v) \/ (v = u /\ keys[u] < MaxKeys)
      BY <2>3, <2>4 DEF Inserting
    <2>7. ASSUME NEW v \in Users
          PROVE  /\ Inserting(v)' \subseteq Clients
                 /\ keys'[v] + Cardinality(Inserting(v)') <= limit
      <3>1. Inserting(v)' \subseteq Clients
        BY <1>3, <1>7, <2>5
      <3>2. Cardinality(Inserting(v)') \in Nat /\ Cardinality(Inserting(v)') <= Cardinality(Clients)
        BY <1>1, <3>1, FS_Subset, FS_CardinalityType
      <3>3. keys[v] \in Nat
        BY <1>3
      <3>4. CASE Inserting(v)' \subseteq Inserting(v)
        BY <1>2, <1>3, <1>4, <1>5, <2>2, <3>1, <3>3, <3>4
      <3>5. CASE v = u /\ keys[u] < MaxKeys
        BY <1>1, <1>5, <2>2, <3>1, <3>2, <3>3, <3>5
      <3> QED BY <2>6, <3>4, <3>5
    <2> QED BY <1>3, <2>2, <2>7
  <1>8. ASSUME NEW p \in Clients, NEW u \in Users, RevokeKey(p, u)
        PROVE  /\ keys' \in [Users -> Nat]
               /\ \A v \in Users : /\ Inserting(v)' \subseteq Clients
                                   /\ keys'[v] + Cardinality(Inserting(v)') <= limit
    <2>1. p \in Procs /\ "revoke_key" \in Operations
      BY DEF Clients, Procs, Operations, IInv, Types
    <2>2. Begin(p, "revoke_key", Idle) /\ keys' = [keys EXCEPT ![u] = @ - 1] /\ keys[u] > 0
      BY <1>8 DEF RevokeKey
    <2>3. /\ proc'[p].pc = "idle" /\ \A x \in Procs : x # p => proc'[x] = proc[x]
      BY <1>1, <2>1, <2>2, BeginSlot, IdleSlot
    <2>4. \A v \in Users : Inserting(v)' \subseteq Inserting(v)
      BY <2>3 DEF Inserting
    <2>5. keys' \in [Users -> Nat] /\ \A v \in Users : keys'[v] <= keys[v]
      BY <1>3, <2>2
    <2> QED BY <1>2, <1>3, <1>4, <1>5, <2>4, <2>5
  <1>9. ASSUME NEW p \in Procs, InsertKey(p)
        PROVE  /\ keys' \in [Users -> Nat]
               /\ \A v \in Users : /\ Inserting(v)' \subseteq Clients
                                   /\ keys'[v] + Cardinality(Inserting(v)') <= limit
    <2>1. At(p, "insert_key") /\ Answer(p)
      BY <1>9 DEF InsertKey
    <2>2. PICK u \in Users : u = proc[p].user
      <3>1. Placed(proc[p])
        BY OwnParts
      <3> QED BY <2>1, <3>1 DEF Placed, At
    <2>3. /\ proc'[p] = Idle /\ \A x \in Procs : x # p => proc'[x] = proc[x]
      BY <1>1, <2>1, AnswerSlot
    <2>4. /\ \A v \in Users : Inserting(v)' \subseteq Inserting(v)
          /\ Inserting(u)' = Inserting(u) \ {p} /\ p \in Inserting(u)
      BY <2>1, <2>2, <2>3, IdleSlot DEF Inserting, At
    <2>5. Cardinality(Inserting(u)') = Cardinality(Inserting(u)) - 1
      BY <1>2, <2>2, <2>4, FS_RemoveElement
    <2>6. /\ keys' \in [Users -> Nat] /\ keys'[u] = keys[u] + 1
          /\ \A v \in Users : v # u => keys'[v] = keys[v]
      BY <1>3, <1>9, <2>2 DEF InsertKey
    <2>7. ASSUME NEW v \in Users
          PROVE  /\ Inserting(v)' \subseteq Clients
                 /\ keys'[v] + Cardinality(Inserting(v)') <= limit
      <3>1. Inserting(v)' \subseteq Clients /\ keys[v] \in Nat
        BY <1>3, <1>4, <2>4
      <3>2. CASE v = u
        BY <1>2, <1>3, <1>5, <2>5, <2>6, <3>1, <3>2
      <3>3. CASE v # u
        BY <1>2, <1>3, <1>4, <1>5, <2>4, <2>6, <3>1, <3>3
      <3> QED BY <3>2, <3>3
    <2> QED BY <2>6, <2>7
  <1>10. CASE UNCHANGED vars
    BY <1>2, <1>3, <1>6, <1>10 DEF vars, rowVars, Inserting
  <1> QED BY <1>6, <1>7, <1>8, <1>9, <1>10, KeySteps

\* Counting before inserting lets overlapping requests pass the limit, but each client by
\* one key only, whoever creates, revokes and drops out meanwhile (api/console.rs create_key).
THEOREM SessionsKeysBounded == SessionsSpec => []KeysBounded
  <1>1. ASSUME desk \in DOMAIN Desks PROVE IsFiniteSet(Clients) /\ Cardinality(Clients) \in Nat
    BY <1>1, SessionsAssumption, FS_CardinalityType DEF Clients
  <1>2. SessionsInit => KeysInv
    <2> SUFFICES ASSUME SessionsInit PROVE KeysInv
      OBVIOUS
    <2>1. \A u \in Users : Inserting(u) = {}
      BY IdleSlot DEF SessionsInit, Inserting
    <2>2. Cardinality({}) = 0 /\ Cardinality(Clients) \in Nat /\ MaxKeys \in Nat /\ MaxKeys > 0
      BY <1>1, SessionsAssumption, FS_EmptySet DEF SessionsInit
    <2>3. keys \in [Users -> Nat] /\ \A u \in Users : keys[u] = 0
      BY DEF SessionsInit
    <2>4. ASSUME NEW u \in Users
          PROVE  /\ Inserting(u) \subseteq Clients
                 /\ keys[u] + Cardinality(Inserting(u)) <= MaxKeys + Cardinality(Clients) - 1
      <3>1. Inserting(u) = {} /\ keys[u] = 0 /\ Cardinality(Inserting(u)) = 0
        BY <2>1, <2>2, <2>3
      <3> QED BY <2>2, <3>1
    <2> QED BY <2>3, <2>4 DEF KeysInv
  <1>3. IInv /\ KeysInv => KeysBounded
    <2> SUFFICES ASSUME IInv, KeysInv, NEW u \in Users
                 PROVE  keys[u] <= MaxKeys + Cardinality(Clients) - 1
      BY DEF KeysBounded
    <2>1. IsFiniteSet(Clients) /\ Cardinality(Clients) \in Nat /\ MaxKeys \in Nat
      BY <1>1, SessionsAssumption DEF IInv, Types
    <2>2. Cardinality(Inserting(u)) \in Nat
      BY <2>1, FS_Subset, FS_CardinalityType DEF KeysInv
    <2>3. /\ keys[u] \in Nat
          /\ keys[u] + Cardinality(Inserting(u)) <= MaxKeys + Cardinality(Clients) - 1
      BY DEF KeysInv
    <2> QED BY <2>1, <2>2, <2>3
  <1>4. IInv /\ KeysInv /\ [SessionsNext]_vars => KeysInv'
    BY KeysStep
  <1> QED BY <1>2, <1>3, <1>4, SessionsInductive, PTL DEF SessionsSpec

-----------------------------------------------------------------------------
(* The login limiter.                                                       *)

(* Every bucket was last used some time ago, and holds whole tokens. *)
Table(t) == \A k \in DOMAIN t : t[k].tokens \in Nat /\ t[k].last \in Nat /\ t[k].last <= now

(* What a name has used and may still use at once is within what came in since the start. *)
Budget(t, u, g) ==
    IF UserBucket(u) \in DOMAIN t
    THEN g + t[UserBucket(u)].tokens <= UserBurst + UserRate * t[UserBucket(u)].last
    ELSE g <= UserRate * now

LimitInv ==
    /\ now \in Nat /\ guesses \in [Users -> Nat]
    /\ ~cleared => Table(buckets) /\ \A u \in Users : Budget(buckets, u, guesses[u])

\* A rate brings more in a longer time.
LEMMA RateMonotone ==
    ASSUME NEW r \in Nat, NEW a \in Nat, NEW b \in Nat, a <= b
    PROVE  r * a \in Nat /\ r * b \in Nat /\ r * a <= r * b /\ (b - a) * r = r * b - r * a
  <1>1. r * (b - a) \in Nat /\ b = a + (b - a)
    OBVIOUS
  <1> QED BY <1>1

\* Making room takes idle buckets only, unless it empties the table.
LEMMA RoomKeeps ==
    ASSUME NEW t, ~WipesOut(t)
    PROVE  /\ DOMAIN MakeRoom(t, now) \subseteq DOMAIN t
           /\ \A k \in DOMAIN MakeRoom(t, now) : MakeRoom(t, now)[k] = t[k]
           /\ \A k \in DOMAIN t \ DOMAIN MakeRoom(t, now) : ~(now - t[k].last < IdleEvictAfter)
  <1>1. /\ DOMAIN Busy(t, now) = {k \in DOMAIN t : now - t[k].last < IdleEvictAfter}
        /\ \A k \in DOMAIN Busy(t, now) : Busy(t, now)[k] = t[k]
    BY DEF Busy, Restrict
  <1>2. DOMAIN EmptyTable = {}
    BY DEF EmptyTable
  <1>3. CASE MakeRoom(t, now) = t
    BY <1>3
  <1>4. CASE MakeRoom(t, now) = Busy(t, now)
    BY <1>1, <1>4
  <1>5. CASE MakeRoom(t, now) = EmptyTable
    <2>1. DOMAIN t = {} \/ DOMAIN Busy(t, now) = {}
      BY <1>5 DEF WipesOut
    <2> QED BY <1>1, <1>2, <1>5, <2>1
  <1>6. MakeRoom(t, now) \in {t, Busy(t, now), EmptyTable}
    BY DEF MakeRoom
  <1> QED BY <1>3, <1>4, <1>5, <1>6

\* A refilled bucket holds no more than its burst, and no more than what came in.
LEMMA RefilledBounds ==
    ASSUME now \in Nat, NEW t, Table(t), NEW key, NEW rate \in Nat, NEW burst \in Nat
    PROVE  LET f == Refilled(t, key, now, rate, burst)
           IN  /\ f \in Nat /\ f <= burst
               /\ key \in DOMAIN t => f <= t[key].tokens + (now - t[key].last) * rate
  <1>1. CASE key \notin DOMAIN t
    BY <1>1 DEF Refilled
  <1>2. CASE key \in DOMAIN t
    <2> DEFINE sum == t[key].tokens + (now - t[key].last) * rate
               f   == Refilled(t, key, now, rate, burst)
    <2>1. t[key].tokens \in Nat /\ now - t[key].last \in Nat
      BY <1>2 DEF Table
    <2>2. (now - t[key].last) * rate \in Nat
      BY <2>1
    <2>3. sum \in Nat /\ f = Min({burst, sum})
      BY <1>2, <2>1, <2>2 DEF Refilled
    <2> HIDE DEF sum
    <2>4. \E x \in {burst, sum} : \A y \in {burst, sum} : x <= y
      BY <2>3
    <2>5. Min({burst, sum}) \in {burst, sum} /\ \A y \in {burst, sum} : Min({burst, sum}) <= y
      BY <2>4 DEF Min
    <2>6. f \in Nat /\ f <= burst /\ f <= sum
      BY <2>3, <2>5
    <2> QED BY <2>6 DEF sum
  <1> QED BY <1>1, <1>2

(* Between the table before a check and its outcome. *)
Checked(t, key, rate, burst) ==
    LET room == MakeRoom(t, now)
        f    == Refilled(room, key, now, rate, burst)
        c    == CheckAt(t, key, now, rate, burst)
    IN  /\ Table(room) /\ Table(c.table) /\ (c.ok <=> f >= 1)
        /\ DOMAIN c.table = DOMAIN room \cup {key}
        /\ c.table[key].last = now /\ c.table[key].tokens = Take(f)
        /\ \A k \in DOMAIN room : k # key => c.table[k] = t[k]

\* What a check leaves of the table: the key's bucket refilled and used, of the others the
\* ones that were not idle, as they were.
LEMMA CheckKeeps ==
    ASSUME now \in Nat, NEW t, Table(t), ~WipesOut(t), NEW key, NEW rate \in Nat, NEW burst \in Nat
    PROVE  Checked(t, key, rate, burst)
  <1> DEFINE room == MakeRoom(t, now)
             f    == Refilled(room, key, now, rate, burst)
             c    == CheckAt(t, key, now, rate, burst)
  <1>1. DOMAIN room \subseteq DOMAIN t /\ \A k \in DOMAIN room : room[k] = t[k]
    BY RoomKeeps
  <1>2. Table(room)
    BY <1>1 DEF Table
  <1> HIDE DEF room
  <1>3. f \in Nat /\ Take(f) \in Nat
    <2>1. f \in Nat
      BY <1>2, RefilledBounds
    <2> HIDE DEF f
    <2> QED BY <2>1 DEF Take
  <1>4. /\ c.ok = (f >= 1)
        /\ c.table = Put(room, key, [tokens |-> Take(f), last |-> now])
    BY DEF CheckAt, CheckIn, room
  <1> HIDE DEF f, c
  <1>5. /\ DOMAIN c.table = DOMAIN room \cup {key}
        /\ c.table[key].last = now /\ c.table[key].tokens = Take(f)
        /\ \A k \in DOMAIN room : k # key => c.table[k] = room[k]
    BY <1>4 DEF Put
  <1>6. Table(c.table)
    <2> SUFFICES ASSUME NEW k \in DOMAIN c.table
                 PROVE  /\ c.table[k].tokens \in Nat /\ c.table[k].last \in Nat
                        /\ c.table[k].last <= now
      BY DEF Table
    <2>1. CASE k = key
      BY <1>3, <1>5, <2>1
    <2>2. CASE k # key
      BY <1>2, <1>5, <2>2 DEF Table
    <2> QED BY <2>1, <2>2
  <1> QED BY <1>1, <1>2, <1>4, <1>5, <1>6 DEF room, f, c, Checked

\* An idle bucket was full again: forgetting it costs nothing.
LEMMA BudgetOfRoom ==
    ASSUME now \in Nat, NEW t, Table(t), ~WipesOut(t), NEW u, NEW g \in Nat, Budget(t, u, g)
    PROVE  Budget(MakeRoom(t, now), u, g)
  <1> DEFINE room == MakeRoom(t, now)
             key  == UserBucket(u)
  <1>1. /\ DOMAIN room \subseteq DOMAIN t /\ \A k \in DOMAIN room : room[k] = t[k]
        /\ \A k \in DOMAIN t \ DOMAIN room : ~(now - t[k].last < IdleEvictAfter)
    BY RoomKeeps
  <1> SUFFICES Budget(room, u, g)
    OBVIOUS
  <1> HIDE DEF room
  <1>2. CASE key \in DOMAIN room
    BY <1>1, <1>2 DEF Budget
  <1>3. CASE key \notin DOMAIN room /\ key \notin DOMAIN t
    BY <1>3 DEF Budget
  <1>4. CASE key \notin DOMAIN room /\ key \in DOMAIN t
    <2> DEFINE last == t[key].last
    <2>1. last \in Nat /\ last <= now /\ t[key].tokens \in Nat
      BY <1>4 DEF Table
    <2>2. now - last >= IdleEvictAfter /\ IdleEvictAfter \in Nat
      BY <1>1, <1>4, <2>1, LimiterAssumption
    <2>3. g + t[key].tokens <= UserBurst + UserRate * last
      BY <1>4 DEF Budget
    <2> HIDE DEF last
    <2>4. UserRate \in Nat /\ UserBurst \in Nat /\ IdleEvictAfter * UserRate >= UserBurst
      BY SessionsAssumption
    <2>5. UserRate * last \in Nat /\ UserRate * now \in Nat /\ (now - last) * UserRate = UserRate * now - UserRate * last
      BY <2>1, <2>4, RateMonotone
    <2>6. UserRate * IdleEvictAfter <= UserRate * (now - last)
      BY <2>1, <2>2, <2>4, RateMonotone
    <2>7. /\ UserRate * IdleEvictAfter = IdleEvictAfter * UserRate
          /\ UserRate * (now - last) = (now - last) * UserRate
      BY <2>1, <2>2, <2>4
    <2>8. UserRate * now >= UserRate * last + UserBurst
      <3> DEFINE a == UserRate * now
                 b == UserRate * last
                 c == IdleEvictAfter * UserRate
                 d == (now - last) * UserRate
      <3>1. a \in Nat /\ b \in Nat /\ d = a - b /\ c <= d /\ c >= UserBurst /\ c \in Int
        BY <2>2, <2>4, <2>5, <2>6, <2>7
      <3> HIDE DEF a, b, c, d
      <3>2. a >= b + UserBurst
        BY <2>4, <3>1
      <3> QED BY <3>2 DEF a, b
    <2>9. g <= UserRate * now
      BY <2>1, <2>3, <2>4, <2>5, <2>8
    <2> QED BY <1>4, <2>9 DEF Budget
  <1> QED BY <1>2, <1>3, <1>4

\* A check of another key leaves a name's budget alone.
LEMMA OtherCheck ==
    ASSUME now \in Nat, NEW t, Table(t), ~WipesOut(t), NEW key, NEW rate \in Nat, NEW burst \in Nat,
           NEW u, NEW g \in Nat, UserBucket(u) # key, Budget(t, u, g)
    PROVE  Budget(CheckAt(t, key, now, rate, burst).table, u, g)
  <1> DEFINE room == MakeRoom(t, now)
             f    == Refilled(room, key, now, rate, burst)
             c    == CheckAt(t, key, now, rate, burst)
  <1>1. /\ Table(room) /\ Table(c.table) /\ (c.ok <=> f >= 1)
        /\ DOMAIN c.table = DOMAIN room \cup {key}
        /\ c.table[key].last = now /\ c.table[key].tokens = Take(f)
        /\ \A k \in DOMAIN room : k # key => c.table[k] = t[k]
    <2>1. Checked(t, key, rate, burst)
      BY CheckKeeps
    <2> QED BY <2>1 DEF Checked
  <1>2. \A k \in DOMAIN room : room[k] = t[k]
    BY RoomKeeps
  <1>3. Budget(room, u, g)
    BY BudgetOfRoom
  <1> HIDE DEF room, c
  <1> QED BY <1>1, <1>2, <1>3 DEF Budget, c

\* A check of the name itself pays for the attempt it admits.
LEMMA OwnCheck ==
    ASSUME now \in Nat, NEW t, Table(t), ~WipesOut(t), NEW u, NEW g \in Nat, Budget(t, u, g)
    PROVE  LET c == CheckAt(t, UserBucket(u), now, UserRate, UserBurst)
           IN  Budget(c.table, u, g) /\ (c.ok => Budget(c.table, u, g + 1))
  <1> DEFINE key  == UserBucket(u)
             room == MakeRoom(t, now)
             f    == Refilled(room, key, now, UserRate, UserBurst)
             c    == CheckAt(t, key, now, UserRate, UserBurst)
  <1>1. UserRate \in Nat /\ UserBurst \in Nat
    BY SessionsAssumption
  <1>2. /\ Table(room) /\ Table(c.table) /\ (c.ok <=> f >= 1)
        /\ DOMAIN c.table = DOMAIN room \cup {key}
        /\ c.table[key].last = now /\ c.table[key].tokens = Take(f)
        /\ \A k \in DOMAIN room : k # key => c.table[k] = t[k]
    <2>1. Checked(t, key, UserRate, UserBurst)
      BY <1>1, CheckKeeps
    <2> QED BY <2>1 DEF Checked
  <1>3. Budget(room, u, g)
    BY BudgetOfRoom
  <1> HIDE DEF room
  <1>4. /\ f \in Nat /\ f <= UserBurst
        /\ key \in DOMAIN room => f <= room[key].tokens + (now - room[key].last) * UserRate
    BY <1>1, <1>2, RefilledBounds
  <1> HIDE DEF f, c
  <1>5. g + f <= UserBurst + UserRate * now
    <2>1. CASE key \in DOMAIN room
      <3> DEFINE last == room[key].last
      <3>1. /\ last \in Nat /\ last <= now /\ room[key].tokens \in Nat
            /\ g + room[key].tokens <= UserBurst + UserRate * last
        BY <1>2, <1>3, <2>1 DEF Table, Budget
      <3>2. f <= room[key].tokens + (now - last) * UserRate
        BY <1>4, <2>1
      <3> HIDE DEF last
      <3>3. /\ UserRate * last \in Nat /\ UserRate * now \in Nat
            /\ (now - last) * UserRate = UserRate * now - UserRate * last
        BY <1>1, <3>1, RateMonotone
      <3> DEFINE a == UserRate * now
                 b == UserRate * last
                 d == (now - last) * UserRate
                 e == room[key].tokens
      <3>4. /\ a \in Nat /\ b \in Nat /\ d = a - b /\ e \in Nat
            /\ g + e <= UserBurst + b /\ f <= e + d
        BY <3>1, <3>2, <3>3
      <3> HIDE DEF a, b, d, e
      <3>5. g + f <= UserBurst + a
        BY <1>1, <1>4, <3>4
      <3> QED BY <3>5 DEF a
    <2>2. CASE key \notin DOMAIN room
      <3>1. g <= UserRate * now
        BY <1>3, <2>2 DEF Budget
      <3>2. UserRate * now \in Nat
        BY <1>1
      <3> QED BY <1>1, <1>4, <3>1, <3>2
    <2> QED BY <2>1, <2>2
  <1>6. UserRate * now \in Nat
    BY <1>1
  <1>7. Take(f) <= f /\ (f >= 1 => Take(f) = f - 1) /\ Take(f) \in Nat
    BY <1>4 DEF Take
  <1>8. g + Take(f) <= UserBurst + UserRate * now
    BY <1>1, <1>4, <1>5, <1>6, <1>7
  <1>9. f >= 1 => (g + 1) + Take(f) <= UserBurst + UserRate * now
    BY <1>1, <1>4, <1>5, <1>6, <1>7
  <1> QED BY <1>2, <1>8, <1>9 DEF Budget, c

\* A login attempt, admitted by both buckets or not.
LEMMA LoginLimit ==
    ASSUME LimitInv, NEW p, NEW u \in Users, LoginStarts(p, u) PROVE LimitInv'
  <1> DEFINE mine == CheckUser(u)
             ip   == CheckIp(mine.table)
             key  == UserBucket(u)
  <1>1. /\ now' = now /\ now \in Nat /\ guesses \in [Users -> Nat]
        /\ buckets' = IF mine.ok THEN ip.table ELSE mine.table
        /\ cleared' <=> cleared \/ WipesOut(buckets) \/ (mine.ok /\ WipesOut(mine.table))
        /\ guesses' = IF mine.ok /\ ip.ok THEN [guesses EXCEPT ![u] = @ + 1] ELSE guesses
    BY DEF LoginStarts, LimitInv
  <1>2. UserRate \in Nat /\ UserBurst \in Nat /\ IpRate \in Nat /\ IpBurst \in Nat
    BY SessionsAssumption
  <1>3. \A v : UserBucket(v) # IpBucket /\ (UserBucket(v) = key => v = u)
    BY DEF UserBucket, IpBucket
  <1>4. mine = CheckAt(buckets, key, now, UserRate, UserBurst)
    BY DEF CheckUser
  <1>5. ASSUME NEW t PROVE CheckIp(t) = CheckAt(t, IpBucket, now, IpRate, IpBurst)
    BY DEF CheckIp
  <1> HIDE DEF mine, key
  <1>6. guesses' \in [Users -> Nat]
    BY <1>1
  <1>7. ASSUME ~cleared'
        PROVE  Table(buckets') /\ \A v \in Users : Budget(buckets', v, guesses'[v])
    <2>1. /\ Table(buckets) /\ ~WipesOut(buckets) /\ (mine.ok => ~WipesOut(mine.table))
          /\ \A v \in Users : guesses[v] \in Nat /\ Budget(buckets, v, guesses[v])
      BY <1>1, <1>7 DEF LimitInv
    <2>2. Table(mine.table)
      <3>1. Checked(buckets, key, UserRate, UserBurst)
        BY <1>1, <1>2, <2>1, CheckKeeps
      <3> QED BY <1>4, <3>1 DEF Checked
    <2>3. \A v \in Users : Budget(mine.table, v, guesses[v])
      <3> SUFFICES ASSUME NEW v \in Users PROVE Budget(mine.table, v, guesses[v])
        OBVIOUS
      <3>1. CASE v = u
        <4>1. Budget(CheckAt(buckets, UserBucket(u), now, UserRate, UserBurst).table, u, guesses[u])
          BY <1>1, <2>1, OwnCheck
        <4> QED BY <1>4, <3>1, <4>1 DEF key
      <3>2. CASE v # u
        <4>1. UserBucket(v) # key
          BY <1>3, <3>2
        <4>2. Budget(CheckAt(buckets, key, now, UserRate, UserBurst).table, v, guesses[v])
          BY <1>1, <1>2, <2>1, <4>1, OtherCheck
        <4> QED BY <1>4, <4>2
      <3> QED BY <3>1, <3>2
    <2>4. mine.ok => Budget(mine.table, u, guesses[u] + 1)
      <3>1. LET c == CheckAt(buckets, UserBucket(u), now, UserRate, UserBurst)
            IN  c.ok => Budget(c.table, u, guesses[u] + 1)
        BY <1>1, <2>1, OwnCheck
      <3> QED BY <1>4, <3>1 DEF key
    <2>5. CASE ~mine.ok
      <3>1. buckets' = mine.table /\ guesses' = guesses
        BY <1>1, <2>5
      <3> QED BY <2>2, <2>3, <3>1
    <2>6. CASE mine.ok
      <3>1. buckets' = ip.table /\ ip = CheckAt(mine.table, IpBucket, now, IpRate, IpBurst)
        BY <1>1, <1>5, <2>6
      <3> HIDE DEF ip
      <3>2. Table(ip.table)
        <4>1. Checked(mine.table, IpBucket, IpRate, IpBurst)
          BY <1>1, <1>2, <2>1, <2>2, <2>6, CheckKeeps
        <4> QED BY <3>1, <4>1 DEF Checked
      <3>3. ASSUME NEW v \in Users, NEW g \in Nat, Budget(mine.table, v, g)
            PROVE  Budget(ip.table, v, g)
        <4>1. Budget(CheckAt(mine.table, IpBucket, now, IpRate, IpBurst).table, v, g)
          BY <1>1, <1>2, <1>3, <2>1, <2>2, <2>6, <3>3, OtherCheck
        <4> QED BY <3>1, <4>1
      <3>4. ASSUME NEW v \in Users PROVE Budget(ip.table, v, guesses'[v])
        <4>1. guesses'[v] = guesses[v] \/ (v = u /\ guesses'[v] = guesses[u] + 1)
          BY <1>1
        <4>2. guesses'[v] \in Nat /\ Budget(mine.table, v, guesses'[v])
          BY <1>6, <2>3, <2>4, <2>6, <4>1
        <4> QED BY <3>3, <4>2
      <3> QED BY <3>1, <3>2, <3>4
    <2> QED BY <2>5, <2>6
  <1>8. now' \in Nat
    BY <1>1
  <1>9. (~cleared)' => Table(buckets)' /\ \A v \in Users : Budget(buckets, v, guesses[v])'
    BY <1>1, <1>7 DEF Table, Budget
  <1> QED BY <1>6, <1>8, <1>9 DEF LimitInv

\* A success starts the name's count anew, with its bucket.
LEMMA SuccessLimit ==
    ASSUME LimitInv, NEW p, InsertToken(p) PROVE LimitInv'
  <1>1. PICK w : w = proc[p].user
    OBVIOUS
  <1>2. /\ now' = now /\ cleared' = cleared /\ now \in Nat /\ guesses \in [Users -> Nat]
        /\ guesses' = [guesses EXCEPT ![w] = 0]
        /\ buckets' = Reset(Reset(buckets, UserBucket(w)), IpBucket)
    BY <1>1 DEF InsertToken, LimitInv
  <1>3. /\ DOMAIN buckets' = DOMAIN buckets \ {UserBucket(w), IpBucket}
        /\ \A k \in DOMAIN buckets' : buckets'[k] = buckets[k]
    BY <1>2 DEF Reset, Restrict
  <1>4. \A v : UserBucket(v) # IpBucket /\ (UserBucket(v) = UserBucket(w) => v = w)
    BY DEF UserBucket, IpBucket
  <1>5. UserRate * now \in Nat
    BY <1>2, SessionsAssumption
  <1>6. guesses' \in [Users -> Nat] /\ now' \in Nat
    BY <1>2
  <1>7. ASSUME ~cleared' PROVE Table(buckets') /\ \A v \in Users : Budget(buckets', v, guesses'[v])
    <2>1. Table(buckets) /\ \A v \in Users : Budget(buckets, v, guesses[v])
      BY <1>2, <1>7 DEF LimitInv
    <2>2. Table(buckets')
      BY <1>3, <2>1 DEF Table
    <2>3. ASSUME NEW v \in Users PROVE Budget(buckets', v, guesses'[v])
      <3>1. CASE v = w
        <4>1. guesses'[v] = 0 /\ UserBucket(v) \notin DOMAIN buckets'
          BY <1>2, <1>3, <3>1
        <4> QED BY <1>5, <4>1 DEF Budget
      <3>2. CASE v # w
        <4>1. guesses'[v] = guesses[v]
          BY <1>2, <3>2
        <4>2. UserBucket(v) \in DOMAIN buckets' <=> UserBucket(v) \in DOMAIN buckets
          BY <1>3, <1>4, <3>2
        <4> QED BY <1>3, <2>1, <4>1, <4>2 DEF Budget
      <3> QED BY <3>1, <3>2
    <2> QED BY <2>2, <2>3
  <1>8. (~cleared)' => Table(buckets)' /\ \A v \in Users : Budget(buckets, v, guesses[v])'
    BY <1>2, <1>7 DEF Table, Budget
  <1> QED BY <1>6, <1>8 DEF LimitInv

\* Time brings every name more.
LEMMA TickLimit ==
    ASSUME LimitInv, Tick PROVE LimitInv'
  <1>1. /\ now' = now + 1 /\ now \in Nat /\ UNCHANGED <<buckets, guesses, cleared>>
        /\ UserRate \in Nat /\ guesses \in [Users -> Nat]
    BY SessionsAssumption DEF Tick, limitVars, LimitInv
  <1>2. UserRate * now \in Nat /\ UserRate * (now + 1) \in Nat /\ UserRate * now <= UserRate * (now + 1)
    BY <1>1, RateMonotone
  <1>3. Table(buckets) => Table(buckets)'
    BY <1>1 DEF Table
  <1>4. ASSUME NEW v \in Users, Budget(buckets, v, guesses[v])
        PROVE  Budget(buckets, v, guesses[v])'
    <2>1. CASE UserBucket(v) \in DOMAIN buckets
      BY <1>1, <1>4, <2>1 DEF Budget
    <2>2. CASE UserBucket(v) \notin DOMAIN buckets
      <3>1. guesses[v] \in Nat /\ guesses[v] <= UserRate * now
        BY <1>1, <1>4, <2>2 DEF Budget
      <3>2. guesses[v] <= UserRate * (now + 1)
        BY <1>2, <3>1
      <3> QED BY <1>1, <2>2, <3>2 DEF Budget
    <2> QED BY <2>1, <2>2
  <1>5. (~cleared)' => Table(buckets)' /\ \A v \in Users : Budget(buckets, v, guesses[v])'
    BY <1>1, <1>3, <1>4 DEF LimitInv
  <1> QED BY <1>1, <1>5 DEF LimitInv

\* Nothing else touches the limiter.
LEMMA LimitStep ==
    ASSUME IInv, LimitInv, [SessionsNext]_vars PROVE LimitInv'
  <1>1. ASSUME UNCHANGED <<now, limitVars>> PROVE LimitInv'
    BY <1>1 DEF LimitInv, limitVars, Table, Budget
  <1>2. ASSUME NEW p \in Procs, Arrives(p) PROVE LimitInv'
    <2>1. ASSUME NEW u \in Desks[desk].names, LoginStarts(p, u) PROVE LimitInv'
      <3>1. u \in Users
        BY SessionsAssumption DEF IInv, Types
      <3> QED BY <2>1, <3>1, LoginLimit
    <2>2. CASE \/ \E t \in Tokens : RefreshStarts(p, t) \/ LogoutStarts(p, t)
               \/ \E u \in Users : CreateKeyStarts(p, u) \/ RevokeKey(p, u)
      BY <1>1, <2>2 DEF RefreshStarts, LogoutStarts, CreateKeyStarts, RevokeKey
    <2>3. CASE \E op \in Desks[desk].ops, u \in Users : AdminStarts(p, op, u)
      BY <1>1, <2>3 DEF AdminStarts
    <2> QED BY <1>2, <2>1, <2>2, <2>3 DEF Arrives
  <1>3. ASSUME NEW p \in Procs, Goes(p) PROVE LimitInv'
    <2>1. CASE InsertToken(p)
      BY <2>1, SuccessLimit
    <2>2. CASE (\E o \in Outcomes : LdapLogin(p, o)) \/ LdapRefuses(p)
                  \/ (\E w \in {"old", "new"} : LocalLogin(p, w)) \/ IssueSession(p)
      BY <1>1, <2>2 DEF LdapLogin, LdapRefuses, LocalLogin, IssueSession
    <2>3. CASE RevokeIfActive(p) \/ LockUser(p) \/ CommitRotation(p)
                  \/ (\E ok \in BOOLEAN : TouchLastLogin(p, ok)) \/ Revoke(p)
      BY <1>1, <2>3 DEF RevokeIfActive, LockUser, CommitRotation, TouchLastLogin, Revoke
    <2>4. CASE UpdateUser(p) \/ SetPasswordHash(p) \/ BumpVersion(p) \/ RevokeAllStarts(p)
                  \/ (\E t \in Tokens : RevokeNext(p, t)) \/ RevokeAllCommits(p)
      BY <1>1, <2>4 DEF UpdateUser, SetPasswordHash, BumpVersion, RevokeAllStarts, RevokeNext,
            RevokeAllCommits
    <2>5. CASE InsertKey(p) \/ AbortDeadlocked(p)
      BY <1>1, <2>5 DEF InsertKey, AbortDeadlocked
    <2> QED BY <1>3, <2>1, <2>2, <2>3, <2>4, <2>5 DEF Goes
  <1>4. ASSUME NEW p \in Procs, Drop(p) PROVE LimitInv'
    BY <1>1, <1>4 DEF Drop
  <1>5. CASE UNCHANGED vars
    BY <1>1, <1>5 DEF vars
  <1> QED BY <1>2, <1>3, <1>4, <1>5, TickLimit DEF SessionsNext

\* Between two successes a name's password is tried no more often than its bucket held at
\* first and took in since, whatever is evicted in between, unless the whole table was
\* emptied (ratelimit.rs check_at and reset under service/console.rs login).
THEOREM SessionsGuessesBounded == SessionsSpec => []GuessesBounded
  <1>1. SessionsInit => LimitInv
    <2>1. ASSUME SessionsInit PROVE LimitInv
      <3>1. /\ now = 0 /\ DOMAIN buckets = {} /\ guesses = [u \in Users |-> 0]
        BY <2>1 DEF SessionsInit, EmptyTable
      <3>2. UserRate * now = 0
        BY <3>1, SessionsAssumption
      <3> QED BY <3>1, <3>2 DEF LimitInv, Table, Budget
    <2> QED BY <2>1
  <1>2. IInv /\ LimitInv /\ [SessionsNext]_vars => LimitInv'
    BY LimitStep
  <1>3. LimitInv => GuessesBounded
    <2> SUFFICES ASSUME LimitInv, ~cleared, NEW u \in Users
                 PROVE  guesses[u] <= UserBurst + UserRate * now
      BY DEF GuessesBounded
    <2>1. /\ now \in Nat /\ guesses[u] \in Nat /\ UserRate \in Nat /\ UserBurst \in Nat
          /\ Table(buckets) /\ Budget(buckets, u, guesses[u])
      BY SessionsAssumption DEF LimitInv
    <2>2. UserRate * now \in Nat
      BY <2>1
    <2>3. CASE UserBucket(u) \in DOMAIN buckets
      <3> DEFINE last == buckets[UserBucket(u)].last
                 left == buckets[UserBucket(u)].tokens
      <3>1. /\ last \in Nat /\ last <= now /\ left \in Nat
            /\ guesses[u] + left <= UserBurst + UserRate * last
        BY <2>1, <2>3 DEF Table, Budget
      <3> HIDE DEF last, left
      <3>2. UserRate * last \in Nat /\ UserRate * last <= UserRate * now
        BY <2>1, <3>1, RateMonotone
      <3> QED BY <2>1, <2>2, <3>1, <3>2
    <2>4. CASE UserBucket(u) \notin DOMAIN buckets
      BY <2>1, <2>2, <2>4 DEF Budget
    <2> QED BY <2>3, <2>4
  <1> QED BY <1>1, <1>2, <1>3, SessionsInductive, PTL DEF SessionsSpec
=============================================================================
