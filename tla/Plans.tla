-------------------------------- MODULE Plans --------------------------------
(***************************************************************************)
(* Who has which coding plan: the administrator's changes to plans, groups *)
(* and memberships (api/plans.rs, store/plans.rs, store/groups.rs), the    *)
(* synchronisation of groups with the directory (service/plans.rs,         *)
(* worker/plan_sync.rs), the copy of the result in memory (AppState.plans) *)
(* and what a user is told about his plan (my_plan).                       *)
(*                                                                         *)
(* Every request is a process whose steps are its SQL statements, and an   *)
(* insert of several rows takes one step for each: the row a transaction   *)
(* has inserted is seen by others when it commits, an insert that meets    *)
(* such a row waits for it, and the database lets one of those go that     *)
(* wait in a circle.  A request is dropped when its client goes away,      *)
(* which rolls its transaction back.                                       *)
(***************************************************************************)
EXTENDS PlanRules, Sequences, SequencesExt

CONSTANTS
    Offices,    \* name -> [plans, groups, members, users: the tables at the start,
                \* disabled: the users whose status is not 1, directory,
                \* asks: the requests, turns: process -> how many, tasks: both tasks run,
                \* faults, ticks: how often things fail and an hour passes, moves: who
                \* enters or leaves the directory]
    Users, Protected,
    Procs,      \* administrators' requests and:
    Worker, Reloader, Reader   \* the sync task, the reload task, a user at the console

(* What the handlers read from their requests. *)
RequestFields ==
    [create_plan        |-> {"fields"},
     update_plan        |-> {"plan", "patch"},
     delete_plan        |-> {"plan"},
     add_plan_users     |-> {"plan", "ids"},
     add_plan_groups    |-> {"plan", "ids"},
     remove_plan_users  |-> {"plan", "ids"},
     remove_plan_groups |-> {"plan", "ids"},
     create_group       |-> {"group", "ldap_sync"},
     update_group       |-> {"group", "ldap_sync"},
     delete_group       |-> {"group"},
     add_members        |-> {"group", "ids"},
     remove_members     |-> {"group", "ids"},
     add_all            |-> {"group"},
     sync_group         |-> {"group"}]

ASSUME PlansAssumption ==
    /\ Protected \in Users
    /\ {Worker, Reloader, Reader} \subseteq Procs /\ Reader \notin {Worker, Reloader}
    /\ \A o \in DOMAIN Offices : DOMAIN Offices[o].turns \subseteq Procs \ {Worker, Reloader}

(* The settings that rank a plan and cut its periods; two of them are integers. *)
Settings == {"priority", "period", "hours"}
Typed(rec) == \A f \in DOMAIN rec \cap {"priority", "hours"} : rec[f] \in Int

(* A request has its fields and nothing of what its handler keeps for itself. *)
ASSUME RequestsAssumption ==
    \A o \in DOMAIN Offices : \A req \in Offices[o].asks :
        /\ "op" \in DOMAIN req /\ req.op \in DOMAIN RequestFields
        /\ RequestFields[req.op] \subseteq DOMAIN req
        /\ {"pc", "mine", "began"} \cap DOMAIN req = {}
        /\ req.op = "create_plan" => Settings \subseteq DOMAIN req.fields /\ Typed(req.fields)
        /\ req.op = "update_plan" => Typed(req.patch)

ASSUME PlansTableAssumption ==
    \A o \in DOMAIN Offices :
        /\ IsFiniteSet(DOMAIN Offices[o].plans) /\ DOMAIN Offices[o].plans \subseteq Int
        /\ \A id \in DOMAIN Offices[o].plans :
                /\ Settings \subseteq DOMAIN Offices[o].plans[id] /\ Typed(Offices[o].plans[id])
                /\ Offices[o].plans[id].hours > 0 /\ Offices[o].plans[id].period \in Periods

(* No hour of an office is after the last month. *)
ASSUME ClockAssumption ==
    \A o \in DOMAIN Offices : Offices[o].ticks \in Nat /\ \E m \in MonthStarts : m > Offices[o].ticks

VARIABLES
    office, now, turns, faults, moves,
    directory,    \* who the LDAP directory lists
    users,        \* the users table
    plans,        \* coding_plans: id -> record
    groups,       \* user_groups: id -> [ldap_sync, result]
    plan_users,   \* <<plan, user>> -> added_at
    plan_groups,  \* pairs <<plan, group>>
    members,      \* <<group, user>> -> [source, since]
    runtimes,     \* AppState.plans
    sync_lock,    \* SYNC_LOCK
    proc,
    kept,         \* history: rows added by hand, their dates, not asked to leave since
    gone,         \* history: rows removed by hand and not added by hand since
    told          \* the last answer of my_plan

envVars == <<office, now, turns, faults, moves, directory>>
planTables == <<plans, plan_users, plan_groups>>
groupTables == <<groups, members>>
tables == <<users, planTables, groupTables>>
history == <<kept, gone>>
vars == <<envVars, tables, runtimes, sync_lock, proc, history, told>>

Free == "free"
Idle == [pc |-> "idle"]
Now(v) == Offices[office][v]
Admins == DOMAIN Now("turns") \ {Reader}

(* f where it is defined, else g. *)
Over(f, g) == [k \in DOMAIN f \cup DOMAIN g |-> IF k \in DOMAIN f THEN f[k] ELSE g[k]]

Pick(f, keys) == [k \in keys |-> f[k]]
Without(f, keys) == Pick(f, DOMAIN f \ keys)

(* The rows that become candidates: those of enabled plans, without the ones *)
(* whose stored scope rows_into_runtimes cannot parse.                       *)
Loads(rec) == rec.enabled /\ ScopeParses(rec.scope)

(* RUNTIME_SOURCE_SQL: through a group or directly. *)
ByGroup(u) ==
    {[plan |-> m[1], rec |-> plans[m[1]], since |-> members[<<m[2], u>>].since] :
        m \in {pg \in plan_groups : <<pg[2], u>> \in DOMAIN members /\ Loads(plans[pg[1]])}}

Direct(u) ==
    {[plan |-> r[1], rec |-> plans[r[1]], since |-> plan_users[r]] :
        r \in {pu \in DOMAIN plan_users : pu[2] = u /\ Loads(plans[pu[1]])}}

LoadRuntimes == [u \in Users |-> ByGroup(u) \cup Direct(u)]

(* list_user_plan_memberships: the disabled ones too. *)
Memberships(u) ==
    {<<p, plans[p]>> : p \in {q \in DOMAIN plans :
        \/ <<q, u>> \in DOMAIN plan_users
        \/ \E g \in DOMAIN groups : <<q, g>> \in plan_groups /\ <<g, u>> \in DOMAIN members}}

PlansInit ==
    /\ office \in DOMAIN Offices
    /\ now = 0 /\ turns = Now("turns") /\ faults = Now("faults") /\ moves = Now("moves")
    /\ directory = Now("directory") /\ users = Now("users")
    /\ plans = Now("plans") /\ groups = Now("groups")
    /\ plan_users = <<>> /\ plan_groups = (DOMAIN plans) \X (DOMAIN groups)
    /\ members = [m \in Now("members") |-> [source |-> "ldap", since |-> 0]]
    /\ runtimes = LoadRuntimes
    /\ sync_lock = Free /\ proc = [p \in Procs |-> Idle]
    /\ kept = {} /\ gone = {} /\ told = [answer |-> "nothing yet", steady |-> {}]

-----------------------------------------------------------------------------
(* Steps of a request.                                                      *)

At(p, pc) == proc[p].pc = pc
Asked(p, pc, op) == At(p, pc) /\ proc[p].op = op
Become(p, req) == proc' = [proc EXCEPT ![p] = req]
Goto(p, pc) == Become(p, [proc[p] EXCEPT !.pc = pc])
Answer(p) == Become(p, Idle)

Fails == faults > 0 /\ faults' = faults - 1
FaultsSame == UNCHANGED <<office, now, turns, moves, directory>>

(* Whether q has inserted the row a statement of p is about to insert, and not *)
(* committed: p waits for q.  The rows of plan_users and plan_groups are in    *)
(* mine, those of user_group_members in rows.                                  *)
Holds(q, p, row) ==
    /\ q # p /\ (At(q, "insert") \/ At(q, "count"))
    /\ proc[q].op = proc[p].op /\ row \in proc[q].mine

HoldsMember(q, p, row) == q # p /\ At(q, "join") /\ row \in proc[q].rows

(* Mutant: the ids stay as the caller gave them. *)
MutDedupIds(ids) == ids

(* Sorted, each once. *)
DedupIds(ids) == SetToSortSeq(ToSet(ids), <)

FirstStep(op) ==
    CASE op \in {"update_plan", "delete_plan", "add_plan_users", "add_plan_groups",
                 "remove_plan_users", "remove_plan_groups"} -> "find_plan"
      [] op \in {"update_group", "delete_group", "add_members"} -> "find_group"
      [] op \in {"create_plan", "create_group", "remove_members", "add_all"} -> "write"
      [] op = "sync_group" -> "lock"

(* Refused before any statement. *)
Malformed(req) ==
    \/ req.op \in {"add_plan_users", "add_plan_groups", "remove_plan_users",
                   "remove_plan_groups", "add_members"} /\ req.ids = <<>>
    \/ req.op = "create_plan" /\ ~ValidCreate(req.fields)

(* The request asks for the member to leave the group. *)
Dismisses(req, m) ==
    \/ req.op = "remove_members" /\ m[1] = req.group /\ m[2] \in ToSet(req.ids)
    \/ req.op = "delete_group" /\ m[1] = req.group

Undisputed(m) ==
    \A p \in Procs : "op" \in DOMAIN proc[p] => ~Dismisses(proc[p], m)

Begin(p, req) ==
    /\ At(p, "idle") /\ turns[p] > 0
    /\ turns' = [turns EXCEPT ![p] = @ - 1]
    /\ IF Malformed(req)
       THEN UNCHANGED proc
       ELSE Become(p, Over(req, [pc |-> FirstStep(req.op), mine |-> {}, began |-> now]))
    /\ kept' = {k \in kept : ~Dismisses(req, k.row)}
    /\ UNCHANGED <<office, now, faults, moves, directory, tables, runtimes, sync_lock, gone, told>>

Begins(p) == \E req \in Now("asks") : Begin(p, req)

-----------------------------------------------------------------------------
(* Reads that a handler makes before it writes.                             *)

(* update_plan validates the request merged with the row it has read. *)
ValidUpdate(before, patch) ==
    /\ ValidPeriod(Over(patch, before))
    /\ ValidOverage(Over(patch, before), IF "target" \in DOMAIN patch THEN patch.target ELSE NoTarget)
    /\ "window" \in DOMAIN patch => WindowParses(patch.window)
    /\ "scope" \in DOMAIN patch => ScopeParses(patch.scope) /\ ScopeRouted(patch.scope)

FindPlan(p) ==
    /\ At(p, "find_plan")
    /\ LET op == proc[p].op
           id == proc[p].plan
       IN  IF \/ id \notin DOMAIN plans
              \/ op = "update_plan" /\ ~ValidUpdate(plans[id], proc[p].patch)
           THEN Answer(p)
           ELSE CASE op = "update_plan" -> Become(p, Over([before |-> plans[id], pc |-> "write"], proc[p]))
                  [] op \in {"add_plan_users", "add_plan_groups"} -> Goto(p, "missing")
                  [] op \in {"delete_plan", "remove_plan_users", "remove_plan_groups"} -> Goto(p, "write")
    /\ UNCHANGED <<envVars, tables, runtimes, sync_lock, history, told>>

FindGroup(p) ==
    /\ At(p, "find_group")
    /\ IF proc[p].group \notin DOMAIN groups THEN Answer(p)
       ELSE Goto(p, IF proc[p].op = "add_members" THEN "missing" ELSE "write")
    /\ UNCHANGED <<envVars, tables, runtimes, sync_lock, history, told>>

(* missing_user_ids, missing_group_ids. *)
Known(op) == IF op = "add_plan_groups" THEN DOMAIN groups ELSE users

Missing(p) ==
    /\ At(p, "missing")
    /\ IF ~(ToSet(proc[p].ids) \subseteq Known(proc[p].op)) THEN Answer(p)
       ELSE Goto(p, IF proc[p].op = "add_members" THEN "write" ELSE "precheck")
    /\ UNCHANGED <<envVars, tables, runtimes, sync_lock, history, told>>

-----------------------------------------------------------------------------
(* add_plan_members: one transaction.                                       *)

Rows(req) == {<<req.plan, i>> : i \in ToSet(req.ids)}

Present(op) == IF op = "add_plan_groups" THEN plan_groups ELSE DOMAIN plan_users

Precheck(p) ==
    /\ At(p, "precheck")
    /\ IF Rows(proc[p]) \cap Present(proc[p].op) # {} THEN Answer(p)
       ELSE Become(p, Over([pc |-> "insert", todo |-> DedupIds(proc[p].ids), began |-> now], proc[p]))
    /\ UNCHANGED <<envVars, tables, runtimes, sync_lock, history, told>>

(* ON CONFLICT DO NOTHING: a committed row is skipped, an uncommitted one *)
(* is waited for.                                                         *)
InsertRow(p) ==
    /\ At(p, "insert") /\ proc[p].todo # <<>>
    /\ LET row == <<proc[p].plan, Head(proc[p].todo)>>
       IN  /\ \A q \in Procs : ~Holds(q, p, row)
           /\ Become(p, [proc[p] EXCEPT !.todo = Tail(@),
                            !.mine = @ \cup ({row} \ Present(proc[p].op))])
    /\ UNCHANGED <<envVars, tables, runtimes, sync_lock, history, told>>

(* The foreign keys are checked when the statement ends, and hold the rows *)
(* they refer to from then on.                                             *)
InsertEnds(p) ==
    /\ At(p, "insert") /\ proc[p].todo = <<>>
    /\ IF /\ proc[p].plan \in DOMAIN plans
          /\ proc[p].op = "add_plan_groups" => ToSet(proc[p].ids) \subseteq DOMAIN groups
       THEN Goto(p, "count") ELSE Answer(p)
    /\ UNCHANGED <<envVars, tables, runtimes, sync_lock, history, told>>

AddRows(p) ==
    IF proc[p].op = "add_plan_groups"
    THEN plan_groups' = plan_groups \cup proc[p].mine /\ UNCHANGED plan_users
    ELSE plan_users' = Over([r \in proc[p].mine |-> proc[p].began], plan_users) /\ UNCHANGED plan_groups

(* Mutant: what could be inserted is kept. *)
MutCommit(p) ==
    /\ At(p, "count")
    /\ AddRows(p) /\ Become(p, [pc |-> "load"])
    /\ UNCHANGED <<envVars, users, plans, groupTables, runtimes, sync_lock, history, told>>

(* All rows are this request's, or none of them stays. *)
Commit(p) ==
    /\ At(p, "count")
    /\ IF proc[p].mine = Rows(proc[p])
       THEN AddRows(p) /\ Become(p, [pc |-> "load"])
       ELSE Answer(p) /\ UNCHANGED <<plan_users, plan_groups>>
    /\ UNCHANGED <<envVars, users, plans, groupTables, runtimes, sync_lock, history, told>>

-----------------------------------------------------------------------------
(* Writes of one statement.                                                 *)

NameTaken(name, id) == \E q \in DOMAIN plans \ {id} : plans[q].name = name

NewId == Max(DOMAIN plans \cup {0}) + 1

CreatePlan(p) ==
    /\ Asked(p, "write", "create_plan")
    /\ LET rec == proc[p].fields
       IN  IF NameTaken(rec.name, NewId) THEN Answer(p) /\ UNCHANGED plans
           ELSE /\ plans' = Over([i \in {NewId} |-> [rec EXCEPT !.hours = NormalizedHours(rec.period, @)]], plans)
                /\ Become(p, [pc |-> "load"])
    /\ UNCHANGED <<envVars, users, plan_users, plan_groups, groupTables, runtimes, sync_lock, history, told>>

(* Fields of the request over the present row; the hours are normalised *)
(* with the type the handler has seen.                                  *)
Written(before, patch) ==
    IF {"period", "hours"} \cap DOMAIN patch = {} THEN patch
    ELSE LET eff == Over(patch, before)
         IN  Over([hours |-> NormalizedHours(eff.period, eff.hours)], patch)

UpdatePlan(p) ==
    /\ Asked(p, "write", "update_plan")
    /\ LET id   == proc[p].plan
           with == Written(proc[p].before, proc[p].patch)
       IN  IF id \notin DOMAIN plans \/ ("name" \in DOMAIN with /\ NameTaken(with.name, id))
           THEN Answer(p) /\ UNCHANGED plans
           ELSE plans' = [plans EXCEPT ![id] = Over(with, @)] /\ Become(p, [pc |-> "load"])
    /\ UNCHANGED <<envVars, users, plan_users, plan_groups, groupTables, runtimes, sync_lock, history, told>>

(* Waits for the transactions that have referred to the row; takes the     *)
(* memberships with it.  A row that was deleted after the handler found it *)
(* makes no difference.                                                    *)
DeletePlan(p) ==
    /\ Asked(p, "write", "delete_plan")
    /\ \A q \in Procs : At(q, "count") => proc[q].plan # proc[p].plan
    /\ Become(p, [pc |-> "load"])
    /\ plans' = Without(plans, {proc[p].plan})
    /\ plan_users' = Without(plan_users, {r \in DOMAIN plan_users : r[1] = proc[p].plan})
    /\ plan_groups' = {r \in plan_groups : r[1] # proc[p].plan}
    /\ UNCHANGED <<envVars, users, groupTables, runtimes, sync_lock, history, told>>

RemovePlanUsers(p) ==
    /\ Asked(p, "write", "remove_plan_users")
    /\ plan_users' = Without(plan_users, Rows(proc[p])) /\ Become(p, [pc |-> "load"])
    /\ UNCHANGED <<envVars, users, plans, plan_groups, groupTables, runtimes, sync_lock, history, told>>

RemovePlanGroups(p) ==
    /\ Asked(p, "write", "remove_plan_groups")
    /\ plan_groups' = plan_groups \ Rows(proc[p]) /\ Become(p, [pc |-> "load"])
    /\ UNCHANGED <<envVars, users, plans, plan_users, groupTables, runtimes, sync_lock, history, told>>

CreateGroup(p) ==
    /\ Asked(p, "write", "create_group")
    /\ IF proc[p].group \in DOMAIN groups THEN Answer(p) /\ UNCHANGED groups
       ELSE /\ groups' = Over([g \in {proc[p].group} |-> [ldap_sync |-> proc[p].ldap_sync, result |-> "never"]], groups)
            /\ Become(p, [pc |-> "load"])
    /\ UNCHANGED <<envVars, users, planTables, members, runtimes, sync_lock, history, told>>

(* No reload follows. *)
UpdateGroup(p) ==
    /\ Asked(p, "write", "update_group") /\ Answer(p)
    /\ groups' = IF proc[p].group \in DOMAIN groups
                 THEN [groups EXCEPT ![proc[p].group].ldap_sync = proc[p].ldap_sync] ELSE groups
    /\ UNCHANGED <<envVars, users, planTables, members, runtimes, sync_lock, history, told>>

DeleteGroup(p) ==
    /\ Asked(p, "write", "delete_group") /\ Become(p, [pc |-> "load"])
    /\ \A q \in Procs : At(q, "count") /\ proc[q].op = "add_plan_groups" =>
            proc[p].group \notin ToSet(proc[q].ids)
    /\ groups' = Without(groups, {proc[p].group})
    /\ members' = Without(members, {m \in DOMAIN members : m[1] = proc[p].group})
    /\ plan_groups' = {r \in plan_groups : r[2] # proc[p].group}
    /\ gone' = {m \in gone : m[1] # proc[p].group}
    /\ UNCHANGED <<envVars, users, plans, plan_users, runtimes, sync_lock, kept, told>>

RemoveMembers(p) ==
    /\ Asked(p, "write", "remove_members")
    /\ LET asked == {<<proc[p].group, u>> : u \in ToSet(proc[p].ids)}
       IN  members' = Without(members, asked) /\ gone' = gone \cup (asked \cap DOMAIN members)
    /\ Become(p, [pc |-> "load"])
    /\ UNCHANGED <<envVars, users, planTables, groups, runtimes, sync_lock, kept, told>>

-----------------------------------------------------------------------------
(* Inserts of several members into a group, ON CONFLICT DO NOTHING: by an   *)
(* administrator in a statement of their own, by the synchronisation at the *)
(* beginning of a transaction.                                              *)

(* The group a handler is at. *)
Target(p) == IF proc[p].op = "sync_all" THEN Head(proc[p].queue) ELSE proc[p].group

(* The order of the rows: the ids of a request sorted, the enabled users as *)
(* the table is scanned, the entries as the directory listed them.          *)
Orders(p) ==
    CASE proc[p].op = "add_members" -> {DedupIds(proc[p].ids)}
      [] proc[p].op = "add_all"     -> SetToSeqs(users \ Now("disabled"))
      [] OTHER                      -> {proc[p].found}

StartJoin(p) ==
    /\ \/ At(p, "write") /\ proc[p].op \in {"add_members", "add_all"}
       \/ At(p, "upsert") /\ proc[p].entries = <<>>
    /\ \E order \in Orders(p) :
            Become(p, Over([pc |-> "join", todo |-> order, rows |-> {}, began |-> now], proc[p]))
    /\ UNCHANGED <<envVars, tables, runtimes, sync_lock, history, told>>

JoinRow(p) ==
    /\ At(p, "join") /\ proc[p].todo # <<>>
    /\ LET row == <<Target(p), Head(proc[p].todo)>>
       IN  /\ \A q \in Procs : ~HoldsMember(q, p, row)
           /\ Become(p, [proc[p] EXCEPT !.todo = Tail(@), !.rows = @ \cup ({row} \ DOMAIN members)])
    /\ UNCHANGED <<envVars, tables, runtimes, sync_lock, history, told>>

(* All its rows are in. *)
HasJoined(p, op) == Asked(p, "join", op) /\ proc[p].todo = <<>>

(* Rows of a group that is gone violate the foreign key. *)
Orphaned(p) == proc[p].rows # {} /\ Target(p) \notin DOMAIN groups

(* The rows with their source, dated at the transaction's start; a row that *)
(* is there stays as it is.                                                 *)
Joined(p, source) == Over(members, [m \in proc[p].rows |-> [source |-> source, since |-> proc[p].began]])

(* The rows that were not there, unless somebody is about to remove them. *)
NewlyKept(p) == {[row |-> m, since |-> proc[p].began] :
                    m \in {r \in proc[p].rows : r \notin DOMAIN members /\ Undisputed(r)}}

AddAs(p, source) ==
    /\ IF Orphaned(p)
       THEN Answer(p) /\ UNCHANGED <<members, history>>
       ELSE /\ members' = Joined(p, source)
            /\ kept' = kept \cup NewlyKept(p) /\ gone' = gone \ proc[p].rows
            /\ Become(p, [pc |-> "load"])
    /\ UNCHANGED <<envVars, users, planTables, groups, runtimes, sync_lock, told>>

AddMembers(p) == HasJoined(p, "add_members") /\ AddAs(p, "manual")

AddAll(p) == HasJoined(p, "add_all") /\ AddAs(p, "all")

-----------------------------------------------------------------------------
(* The reload's section of the plans, after a write or by the task.         *)

Reload ==
    /\ Now("tasks") /\ At(Reloader, "idle") /\ Become(Reloader, [pc |-> "load"])
    /\ UNCHANGED <<envVars, tables, runtimes, sync_lock, history, told>>

Load(p) ==
    /\ At(p, "load") /\ Become(p, [pc |-> "apply", snap |-> LoadRuntimes])
    /\ UNCHANGED <<envVars, tables, runtimes, sync_lock, history, told>>

LoadFails(p) ==
    /\ At(p, "load") /\ Fails /\ Answer(p)
    /\ FaultsSame /\ UNCHANGED <<tables, runtimes, sync_lock, history, told>>

Apply(p) ==
    /\ At(p, "apply") /\ runtimes' = proc[p].snap /\ Answer(p)
    /\ UNCHANGED <<envVars, tables, sync_lock, history, told>>

-----------------------------------------------------------------------------
(* The synchronisation with the directory.                                  *)

(* Mutant: groups that have been synchronised before are left out. *)
MutLdapGroups == {g \in DOMAIN groups : groups[g].ldap_sync /\ groups[g].result = "never"}

LdapGroups == {g \in DOMAIN groups : groups[g].ldap_sync}

(* sync_all_ldap_groups reads the list before it takes the lock. *)
WorkerTicks ==
    /\ Now("tasks") /\ At(Worker, "idle") /\ LdapGroups # {}
    /\ Become(Worker, [pc |-> "lock", op |-> "sync_all", queue |-> SetToSeq(LdapGroups), failed |-> FALSE,
                       began |-> now])
    /\ UNCHANGED <<envVars, tables, runtimes, sync_lock, history, told>>

Recorded(g, result) == IF g \in DOMAIN groups THEN [groups EXCEPT ![g].result = result] ELSE groups

Lock(p) ==
    /\ At(p, "lock") /\ sync_lock = Free
    /\ IF proc[p].op = "sync_group" /\ proc[p].group \notin LdapGroups
       THEN groups' = Recorded(proc[p].group, "failed") /\ Answer(p) /\ UNCHANGED sync_lock
       ELSE sync_lock' = p /\ Goto(p, "list") /\ UNCHANGED groups
    /\ UNCHANGED <<envVars, users, planTables, members, runtimes, history, told>>

(* The directory lists its entries in an order of its own. *)
List(p) ==
    /\ At(p, "list")
    /\ \E entries \in SetToSeqs(directory \ {Protected}) :
            Become(p, Over([pc |-> "upsert", entries |-> entries, found |-> <<>>], proc[p]))
    /\ UNCHANGED <<envVars, tables, runtimes, sync_lock, history, told>>

(* upsert_sync_user keeps the rights and the status of a user it finds. *)
Upsert(p) ==
    /\ At(p, "upsert") /\ proc[p].entries # <<>>
    /\ LET entry == Head(proc[p].entries)
       IN  /\ users' = users \cup {entry}
           /\ Become(p, [proc[p] EXCEPT !.entries = Tail(@), !.found = Append(@, entry)])
    /\ UNCHANGED <<envVars, planTables, groupTables, runtimes, sync_lock, history, told>>

UpsertFails(p) ==
    /\ At(p, "upsert") /\ proc[p].entries # <<>> /\ Fails
    /\ Become(p, Over([failed |-> TRUE, entries |-> Tail(proc[p].entries)], proc[p]))
    /\ FaultsSame /\ UNCHANGED <<tables, runtimes, sync_lock, history, told>>

(* Mutant: whoever is not listed leaves the group. *)
MutReconciled(p) ==
    LET joined == Joined(p, "ldap")
    IN  Pick(joined, {m \in DOMAIN joined : m[1] = Target(p) => m[2] \in ToSet(proc[p].found)})

(* The listed ones join, the ones the directory brought and no longer lists go. *)
Reconciled(p) ==
    LET joined == Joined(p, "ldap")
    IN  Pick(joined, {m \in DOMAIN joined :
                        m[1] = Target(p) /\ joined[m].source = "ldap" => m[2] \in ToSet(proc[p].found)})

(* Mutant: the sync of the next group takes the lock itself. *)
MutSyncEnds(p, result) ==
    IF proc[p].op = "sync_group"
    THEN /\ sync_lock' = Free
         /\ IF result = "failed" THEN Answer(p) ELSE Become(p, [pc |-> "load"])
    ELSE IF Len(proc[p].queue) > 1
    THEN /\ Become(p, [proc[p] EXCEPT !.pc = "lock", !.queue = Tail(@), !.failed = FALSE])
         /\ UNCHANGED sync_lock
    ELSE sync_lock' = Free /\ Answer(p)

(* The sync of one group is over: the next group, or the lock is released. *)
SyncEnds(p, result) ==
    IF proc[p].op = "sync_group"
    THEN /\ sync_lock' = Free
         /\ IF result = "failed" THEN Answer(p) ELSE Become(p, [pc |-> "load"])
    ELSE IF Len(proc[p].queue) > 1
    THEN /\ Become(p, [proc[p] EXCEPT !.pc = "list", !.queue = Tail(@), !.failed = FALSE])
         /\ UNCHANGED sync_lock
    ELSE sync_lock' = Free /\ Answer(p)

ListFails(p) ==
    /\ At(p, "list") /\ Fails
    /\ groups' = Recorded(Target(p), "failed") /\ SyncEnds(p, "failed")
    /\ FaultsSame /\ UNCHANGED <<users, planTables, members, runtimes, history, told>>

(* reconcile_ldap_members after its INSERT: the DELETE and the UPDATE meet no *)
(* row that somebody holds.  Only the periodic sync records that users failed. *)
Reconcile(p) ==
    /\ HasJoined(p, "sync_group") \/ HasJoined(p, "sync_all")
    /\ LET result == IF proc[p].op = "sync_all" /\ proc[p].failed THEN "partial" ELSE "synced"
       IN  IF Orphaned(p)
           THEN SyncEnds(p, "failed") /\ UNCHANGED <<groups, members>>
           ELSE /\ members' = Reconciled(p)
                /\ groups' = Recorded(Target(p), result)
                /\ SyncEnds(p, result)
    /\ UNCHANGED <<envVars, users, planTables, runtimes, history, told>>

-----------------------------------------------------------------------------
(* Waiting in a circle.                                                     *)

WaitsFor(p, q) ==
    \/ At(p, "insert") /\ proc[p].todo # <<>> /\ Holds(q, p, <<proc[p].plan, Head(proc[p].todo)>>)
    \/ At(p, "join") /\ proc[p].todo # <<>> /\ HoldsMember(q, p, <<Target(p), Head(proc[p].todo)>>)

(* Each one waits for another and keeps another waiting. *)
Circle(S) == \A p \in S : (\E q \in S : WaitsFor(p, q)) /\ (\E q \in S : WaitsFor(q, p))

Inserters == {p \in Procs : At(p, "insert") \/ At(p, "join")}

(* The database aborts one of them, and its statement fails. *)
DeadlockAborts(p) ==
    /\ \E S \in SUBSET Inserters : p \in S /\ Circle(S)
    /\ IF proc[p].op \in {"sync_group", "sync_all"}
       THEN groups' = Recorded(Target(p), "failed") /\ SyncEnds(p, "failed")
       ELSE Answer(p) /\ UNCHANGED <<groups, sync_lock>>
    /\ UNCHANGED <<envVars, users, planTables, members, runtimes, history, told>>

-----------------------------------------------------------------------------
(* my_plan, asked by one user about one model.                              *)

(* Mutant: a miss in memory is believed. *)
MutFromDatabase(u) == runtimes[u]

FromDatabase(u) == ByGroup(u) \cup Direct(u)

(* Why a plan of the user is not in effect; enabled, in its hours and in its *)
(* scope, or with a scope that does not parse, it is not reported.           *)
Inactive(rec, time, model) ==
    \/ ~rec.enabled
    \/ ~InWindow(rec.window, time)
    \/ model # NoModel /\ ScopeParses(rec.scope) /\ ~MatchesScope(rec.scope, model)

(* The answer, and the memberships the user had all the time. *)
Tell(answer, steady) == told' = [answer |-> answer, steady |-> steady]

MyPlan(u, model) ==
    /\ Reader \in DOMAIN turns /\ turns[Reader] > 0 /\ At(Reader, "idle")
    /\ turns' = [turns EXCEPT ![Reader] = @ - 1]
    /\ IF Resolve(runtimes[u], LocalTime(now), model) # {}
       THEN Tell("plan", {}) /\ UNCHANGED proc
       ELSE /\ Become(Reader, [pc |-> "ask_database", user |-> u, model |-> model,
                               time |-> LocalTime(now), saw |-> Memberships(u)])
            /\ UNCHANGED told
    /\ UNCHANGED <<office, now, faults, moves, directory, tables, runtimes, sync_lock, history>>

AskDatabase ==
    /\ At(Reader, "ask_database")
    /\ LET r == proc[Reader]
       IN  IF Resolve(FromDatabase(r.user), r.time, r.model) # {}
           THEN Tell("plan", {}) /\ Answer(Reader)
           ELSE /\ Become(Reader, [r EXCEPT !.pc = "why",
                                   !.saw = IF @ = Memberships(r.user) THEN @ ELSE {}])
                /\ UNCHANGED told
    /\ UNCHANGED <<envVars, tables, runtimes, sync_lock, history>>

Why ==
    /\ At(Reader, "why")
    /\ LET r == proc[Reader]
       IN  Tell(IF \E m \in Memberships(r.user) : Inactive(m[2], r.time, r.model)
                THEN "inactive" ELSE "no plan",
                IF r.saw = Memberships(r.user) THEN r.saw ELSE {})
    /\ Answer(Reader)
    /\ UNCHANGED <<envVars, tables, runtimes, sync_lock, history>>

-----------------------------------------------------------------------------
(* The environment.                                                         *)

(* The client of an administrator's request goes away. *)
Cancel(p) ==
    /\ p \in Admins /\ ~At(p, "idle") /\ Fails /\ Answer(p)
    /\ sync_lock' = IF sync_lock = p THEN Free ELSE sync_lock
    /\ FaultsSame /\ UNCHANGED <<tables, runtimes, history, told>>

(* Somebody enters or leaves the directory. *)
PeopleMove ==
    /\ \E u \in moves :
            /\ moves' = moves \ {u}
            /\ directory' = SymDiff(directory, {u})
    /\ UNCHANGED <<office, now, turns, faults, tables, runtimes, sync_lock, proc, history, told>>

HourPasses ==
    /\ now < Now("ticks") /\ now' = now + 1
    /\ UNCHANGED <<office, turns, faults, moves, directory, tables, runtimes, sync_lock, proc, history, told>>

Writes(p) ==
    \/ CreatePlan(p) \/ UpdatePlan(p) \/ DeletePlan(p)
    \/ RemovePlanUsers(p) \/ RemovePlanGroups(p)
    \/ CreateGroup(p) \/ UpdateGroup(p) \/ DeleteGroup(p)
    \/ RemoveMembers(p)

Adds(p) == Missing(p) \/ Precheck(p) \/ InsertRow(p) \/ InsertEnds(p) \/ Commit(p)

Joins(p) == StartJoin(p) \/ JoinRow(p) \/ AddMembers(p) \/ AddAll(p)

Syncs(p) == Lock(p) \/ List(p) \/ Upsert(p) \/ Reconcile(p)

Goes(p) == \/ FindPlan(p) \/ FindGroup(p) \/ Adds(p) \/ Writes(p) \/ Joins(p)
           \/ Load(p) \/ Apply(p) \/ Syncs(p) \/ DeadlockAborts(p)

Breaks(p) == LoadFails(p) \/ UpsertFails(p) \/ ListFails(p) \/ Cancel(p)

Asks == \/ \E p \in Admins : Begins(p)
        \/ \E u \in Users, m \in Models \cup {NoModel} : MyPlan(u, m)

PlansNext ==
    \/ Asks
    \/ AskDatabase \/ Why
    \/ WorkerTicks \/ Reload
    \/ \E p \in Admins \cup {Worker, Reloader} : Goes(p) \/ Breaks(p)
    \/ PeopleMove \/ HourPasses

(* The runtime polls every request that can go on and wakes both tasks; who *)
(* waits for SYNC_LOCK gets it, tokio's mutex serves in order; the database *)
(* finds a circle of waiting transactions after its deadlock_timeout.       *)
PlansFairness ==
    /\ \A p \in Procs \ {Reader, Reloader} : SF_vars(Lock(p))
    /\ \A p \in Procs \ {Reader} : WF_vars(Goes(p))
    /\ WF_vars(WorkerTicks) /\ WF_vars(Reload) /\ WF_vars(AskDatabase \/ Why)

PlansSpec == PlansInit /\ [][PlansNext]_vars /\ PlansFairness

-----------------------------------------------------------------------------
(* A step that gives a plan new direct users or groups gives it exactly what *)
(* one request asked for: of requests that overlap one wins all and the      *)
(* others, whose duplicates came after their check, leave nothing            *)
(* (api/plans.rs 680-759).                                                   *)
AllOrNothing ==
    [][LET new == (DOMAIN plan_users' \ DOMAIN plan_users) \cup (plan_groups' \ plan_groups)
       IN  new # {} => \E p \in Admins : At(p, "count") /\ new = Rows(proc[p])]_vars

(* A member that was added by hand stays until an administrator asks for the *)
(* opposite, whatever the directory and the syncs that overlap the addition  *)
(* say; a row that is there keeps its date, the anchor of its periods        *)
(* (store/groups.rs 186-279).                                                *)
HandAddedStay == \A k \in kept : k.row \in DOMAIN members /\ members[k.row].since = k.since

(* When people stop moving and nothing fails any more, the plans in memory  *)
(* are those of the tables, everybody the directory lists and nobody has    *)
(* removed by hand is a member of every group that follows it, and nobody   *)
(* else is by its doing: a failed, overtaken, aborted or cancelled sync is  *)
(* made good (service/plans.rs 135-226).                                    *)
Mirrored ==
    /\ runtimes = LoadRuntimes
    /\ \A g \in {h \in DOMAIN groups : groups[h].ldap_sync} :
            /\ \A u \in directory \ {Protected} : <<g, u>> \in DOMAIN members \cup gone
            /\ \A m \in DOMAIN members : m[1] = g /\ members[m].source = "ldap" => m[2] \in directory

DirectoryReachesPlans == (office \in {o \in DOMAIN Offices : Offices[o].tasks}) => <>[]Mirrored

(* Requests that add what they list, to a plan or to a group, take their    *)
(* rows in one order and never wait for each other in a circle: for that it *)
(* takes the addition of all users or a sync (api/plans.rs 620-625,         *)
(* store/groups.rs 186-205, 230-259).                                       *)
ListedAddsNeverDeadlock ==
    \A S \in SUBSET {p \in Inserters : proc[p].op \in {"add_plan_users", "add_plan_groups", "add_members"}} :
        Circle(S) => S = {}

(* Every request is answered and every sync ends: one of those that wait for *)
(* each other's rows is let go by the database, its rows are gone with it,   *)
(* and whoever waits for the sync's lock gets it, however the sync before it *)
(* ended (service/plans.rs 123-226, store/groups.rs 186-279).                *)
HandlersAnswered == \A p \in Procs \ {Reloader} : ~At(p, "idle") ~> At(p, "idle")

(* A user who is a member of a plan with a readable scope during the whole  *)
(* of his question is not told that he is in none, though memory may not    *)
(* know it yet (api/plans.rs 1568-1583, 1631-1665).                         *)
MyPlanHonest == (\E m \in told.steady : ScopeParses(m[2].scope)) => told.answer # "no plan"

(* Periods tile time: the hour is in its period, and the next hour is in the  *)
(* same one or in the one that starts where it ends (store/plans.rs 374-440). *)
PeriodHolds(rt, t) ==
    /\ PeriodStart(rt, t) <= t
    /\ rt.rec.period # "total" => t < PeriodEnd(rt, t)

PeriodsTile ==
    [][\A u \in Users : \A rt \in runtimes[u] :
            /\ PeriodHolds(rt, now)
            /\ now' > now => PeriodStart(rt, now') \in {PeriodStart(rt, now), PeriodEnd(rt, now)}]_vars
=============================================================================
