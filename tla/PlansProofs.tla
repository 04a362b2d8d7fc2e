---------------------------- MODULE PlansProofs ----------------------------
(***************************************************************************)
(* For every set of users, groups, plans and requests: additions to a plan *)
(* are whole or nothing, members that were added by hand stay, my_plan is  *)
(* honest about plans it can read, and the periods tile time.              *)
(*                                                                         *)
(* A handler is at rest or on its way with the request it began with       *)
(* (Shape, Advance): what it asks for never changes while others run.      *)
(***************************************************************************)
EXTENDS Plans, FiniteSetTheorems, WellFoundedInduction, TLAPS

Resting == {"idle", "load", "apply", "ask_database", "why"}
Inserting == {"insert", "count"}
AddOps == {"add_plan_users", "add_plan_groups"}
SyncOps == {"sync_group", "sync_all"}
PlanOps == AddOps \cup {"update_plan", "delete_plan", "remove_plan_users", "remove_plan_groups"}
GroupOps == {"update_group", "delete_group", "add_members"}

\* Which handlers have a step of this name.
OpsAt(pc) ==
    CASE pc = "find_plan" -> PlanOps
      [] pc = "find_group" -> GroupOps
      [] pc = "missing" -> AddOps \cup {"add_members"}
      [] pc \in {"precheck", "insert", "count"} -> AddOps
      [] pc = "write" -> DOMAIN RequestFields \ (AddOps \cup SyncOps)
      [] pc \in {"lock", "list", "upsert"} -> SyncOps
      [] pc = "join" -> {"add_members", "add_all"} \cup SyncOps
      [] OTHER -> {}

\* What a handler keeps for itself, beside the request.
Scratch == {"pc", "mine", "began", "before", "todo", "rows", "entries", "found", "queue", "failed"}

\* A request as its handler needs it.
Whole(r) ==
    /\ {"op", "began"} \subseteq DOMAIN r
    /\ r.op # "sync_all" => /\ r.op \in DOMAIN RequestFields
                            /\ RequestFields[r.op] \subseteq DOMAIN r
    /\ r.op = "create_plan" => Settings \subseteq DOMAIN r.fields /\ Typed(r.fields)
    /\ r.op = "update_plan" => Typed(r.patch)

\* A handler at rest, or on its way with the request it began with.
AtRest(r) == "pc" \in DOMAIN r /\ r.pc \in Resting /\ "op" \notin DOMAIN r
OnItsWay(r) == "pc" \in DOMAIN r /\ Whole(r) /\ r.op \in OpsAt(r.pc)

\* The same request at another step.
Onward(r, s) ==
    /\ DOMAIN r \subseteq DOMAIN s
    /\ \A f \in DOMAIN r \ Scratch : s[f] = r[f]
    /\ s.op \in OpsAt(s.pc)

-----------------------------------------------------------------------------
(* Records.                                                                 *)

\* A step that only moves on keeps the request.
LEMMA SetPc ==
    ASSUME NEW r, OnItsWay(r), NEW c, r.op \in OpsAt(c)
    PROVE  /\ Onward(r, [r EXCEPT !.pc = c]) /\ [r EXCEPT !.pc = c].pc = c
           /\ "mine" \in DOMAIN r => [r EXCEPT !.pc = c].mine = r.mine
           /\ [r EXCEPT !.pc = c].began = r.began
  BY DEF OnItsWay, Onward, Scratch, Whole

\* The same request stays whole, and asks for nobody else to leave.
LEMMA OnwardKeeps ==
    ASSUME NEW r, NEW s, OnItsWay(r), Onward(r, s)
    PROVE  OnItsWay(s) /\ \A m : Dismisses(s, m) <=> Dismisses(r, m)
  <1>1. {"op", "group", "ids", "fields", "patch"} \cap Scratch = {}
    BY DEF Scratch
  <1>2. /\ "op" \in DOMAIN s /\ s.op = r.op /\ "pc" \in DOMAIN s
    BY <1>1 DEF OnItsWay, Onward, Whole
  <1> QED
    BY <1>1, <1>2 DEF OnItsWay, Onward, Whole, Dismisses, RequestFields

\* A handler's own notes laid over its request.
LEMMA Overlay ==
    ASSUME NEW r, OnItsWay(r), NEW x, DOMAIN x \subseteq Scratch \ {"mine"},
           "pc" \in DOMAIN x => r.op \in OpsAt(x.pc)
    PROVE  /\ Onward(r, Over(x, r))
           /\ "mine" \in DOMAIN r => Over(x, r).mine = r.mine
           /\ Over(x, r).pc = IF "pc" \in DOMAIN x THEN x.pc ELSE r.pc
           /\ Over(x, r).began = IF "began" \in DOMAIN x THEN x.began ELSE r.began
  <1>1. "op" \in DOMAIN r \ Scratch /\ {"pc", "began"} \subseteq DOMAIN r /\ r.op \in OpsAt(r.pc)
    BY DEF OnItsWay, Whole, Scratch
  <1>2. /\ DOMAIN Over(x, r) = DOMAIN x \cup DOMAIN r
        /\ \A f \in DOMAIN x : Over(x, r)[f] = x[f]
        /\ \A f \in DOMAIN r \ DOMAIN x : Over(x, r)[f] = r[f]
    BY DEF Over
  <1>3. Over(x, r).op = r.op
    BY <1>1, <1>2
  <1>4. Over(x, r).op \in OpsAt(Over(x, r).pc)
    <2>1. CASE "pc" \in DOMAIN x
      BY <2>1, <1>2, <1>3
    <2>2. CASE "pc" \notin DOMAIN x
      BY <2>2, <1>1, <1>2, <1>3
    <2> QED BY <2>1, <2>2
  <1>5. Onward(r, Over(x, r))
    BY <1>2, <1>4 DEF Onward
  <1>6. /\ Over(x, r).pc = IF "pc" \in DOMAIN x THEN x.pc ELSE r.pc
        /\ Over(x, r).began = IF "began" \in DOMAIN x THEN x.began ELSE r.began
    BY <1>1, <1>2
  <1> QED BY <1>2, <1>5, <1>6

\* What a handler is when it has answered or reloads.
LEMMA RestingRecords ==
    AtRest(Idle) /\ AtRest([pc |-> "load"]) /\ \A x : AtRest([pc |-> "apply", snap |-> x])
  BY DEF AtRest, Idle, Resting

-----------------------------------------------------------------------------
(* One step of one handler.                                                 *)

Shape == DOMAIN proc = Procs /\ \A p \in Procs : AtRest(proc[p]) \/ OnItsWay(proc[p])

\* The handler ends, rests or goes on with its request.
Advance(p, s) ==
    /\ proc' = [proc EXCEPT ![p] = s]
    /\ \/ AtRest(s) /\ (s.pc = "apply" => Load(p))
       \/ /\ OnItsWay(proc[p]) /\ Onward(proc[p], s)
          /\ InsertRow(p) \/ ("mine" \in DOMAIN proc[p] => s.mine = proc[p].mine)
          /\ proc[p].pc \in Inserting => s.pc \in Inserting
          /\ s.pc = "count" => InsertEnds(p)
          /\ s.began \in {proc[p].began, now}

\* Where a handler is says what it is about.
LEMMA Stages ==
    ASSUME Shape, NEW p \in Procs
    PROVE  /\ proc[p].pc \notin Resting => OnItsWay(proc[p])
           /\ At(p, "find_plan") => proc[p].op \in PlanOps
           /\ At(p, "find_group") => proc[p].op \in GroupOps
           /\ At(p, "missing") => proc[p].op \in AddOps \cup {"add_members"}
           /\ \A c \in {"precheck", "insert", "count"} : At(p, c) => proc[p].op \in AddOps
           /\ \A c \in {"lock", "list", "upsert"} : At(p, c) => proc[p].op \in SyncOps
           /\ At(p, "join") => proc[p].op \in {"add_members", "add_all"} \cup SyncOps
  <1>1. proc[p].pc \notin Resting => OnItsWay(proc[p])
    BY DEF Shape, AtRest
  <1>2. ASSUME NEW c \in {"find_plan", "find_group", "missing", "precheck", "insert", "count",
                         "lock", "list", "upsert", "join"}, At(p, c)
        PROVE  proc[p].op \in OpsAt(c)
    BY <1>1, <1>2 DEF At, OnItsWay, Resting
  <1> QED BY <1>1, <1>2 DEF OpsAt

\* The ways a handler goes on: it answers or reloads,
LEMMA AnswerRests ==
    ASSUME NEW p, Answer(p) \/ Become(p, [pc |-> "load"])
    PROVE  \E s : Advance(p, s)
  BY RestingRecords DEF Answer, Become, Advance, Idle

\* it goes to its next step,
LEMMA GotoGoesOn ==
    ASSUME NEW p, NEW c, OnItsWay(proc[p]), proc[p].op \in OpsAt(c), Goto(p, c),
           c = "count" => InsertEnds(p), proc[p].pc \in Inserting => c \in Inserting
    PROVE  \E s : Advance(p, s)
  <1> DEFINE s == [proc[p] EXCEPT !.pc = c]
  <1>1. /\ Onward(proc[p], s) /\ s.pc = c
        /\ "mine" \in DOMAIN proc[p] => s.mine = proc[p].mine
        /\ s.began = proc[p].began
    BY SetPc
  <1>2. proc' = [proc EXCEPT ![p] = s]
    BY DEF Goto, Become
  <1> HIDE DEF s
  <1> QED BY <1>1, <1>2 DEF Advance

\* it goes on with what it has read,
LEMMA OverlayGoesOn ==
    ASSUME NEW p, NEW x, OnItsWay(proc[p]), DOMAIN x \subseteq Scratch \ {"mine"},
           "pc" \in DOMAIN x => proc[p].op \in OpsAt(x.pc) /\ x.pc # "count",
           "began" \in DOMAIN x => x.began = now,
           Become(p, Over(x, proc[p])), proc[p].pc \notin Inserting
    PROVE  \E s : Advance(p, s)
  <1> DEFINE s == Over(x, proc[p])
  <1>1. /\ Onward(proc[p], s)
        /\ "mine" \in DOMAIN proc[p] => s.mine = proc[p].mine
        /\ s.pc = IF "pc" \in DOMAIN x THEN x.pc ELSE proc[p].pc
        /\ s.began = IF "began" \in DOMAIN x THEN x.began ELSE proc[p].began
    BY Overlay
  <1>2. s.pc # "count"
    BY <1>1 DEF Inserting
  <1>3. proc' = [proc EXCEPT ![p] = s]
    BY DEF Become
  <1> HIDE DEF s
  <1> QED BY <1>1, <1>2, <1>3 DEF Advance

\* or it turns to the next group.
LEMMA SyncEndsGoesOn ==
    ASSUME NEW p, NEW result, OnItsWay(proc[p]), proc[p].op \in SyncOps, SyncEnds(p, result),
           proc[p].pc \notin Inserting
    PROVE  \E s : Advance(p, s)
  <1>1. CASE Answer(p) \/ Become(p, [pc |-> "load"])
    BY <1>1, AnswerRests
  <1>2. CASE Become(p, [proc[p] EXCEPT !.pc = "list", !.queue = Tail(@), !.failed = FALSE])
    <2> DEFINE s == [proc[p] EXCEPT !.pc = "list", !.queue = Tail(@), !.failed = FALSE]
    <2>1. /\ DOMAIN s = DOMAIN proc[p] /\ s.pc = "list"
          /\ \A f \in DOMAIN proc[p] \ Scratch : s[f] = proc[p][f]
          /\ "mine" \in DOMAIN proc[p] => s.mine = proc[p].mine
          /\ s.began = proc[p].began
      BY DEF OnItsWay, Scratch, Whole
    <2>2. s.op = proc[p].op
      BY <2>1 DEF OnItsWay, Whole, Scratch
    <2> HIDE DEF s
    <2>3. Onward(proc[p], s)
      BY <2>1, <2>2 DEF Onward, OpsAt
    <2>4. proc' = [proc EXCEPT ![p] = s]
      BY <1>2 DEF Become, s
    <2> QED BY <2>1, <2>3, <2>4 DEF Advance
  <1> QED BY <1>1, <1>2 DEF SyncEnds

\* The reads before a write.
LEMMA ReadsGoOn ==
    ASSUME Shape, NEW p \in Procs, FindPlan(p) \/ FindGroup(p) \/ Missing(p) \/ Precheck(p)
    PROVE  \E s : Advance(p, s)
  <1>1. CASE FindPlan(p)
    <2>1. OnItsWay(proc[p]) /\ proc[p].op \in PlanOps /\ proc[p].pc \notin Inserting
      BY <1>1, Stages DEF FindPlan, At, Resting, Inserting
    <2>2. \/ Answer(p)
          \/ proc[p].op = "update_plan" /\ Become(p, Over([before |-> plans[proc[p].plan], pc |-> "write"], proc[p]))
          \/ proc[p].op \in AddOps /\ Goto(p, "missing")
          \/ proc[p].op \in {"delete_plan", "remove_plan_users", "remove_plan_groups"} /\ Goto(p, "write")
      BY <1>1, <2>1 DEF FindPlan, PlanOps, AddOps
    <2>3. "update_plan" \in OpsAt("write")
      BY DEF OpsAt, AddOps, SyncOps, RequestFields
    <2>4. CASE Answer(p)
      BY <2>4, AnswerRests
    <2>5. CASE proc[p].op = "update_plan" /\ Become(p, Over([before |-> plans[proc[p].plan], pc |-> "write"], proc[p]))
      <3> DEFINE x == [before |-> plans[proc[p].plan], pc |-> "write"]
      <3>1. DOMAIN x \subseteq Scratch \ {"mine", "began"} /\ x.pc = "write"
        BY DEF Scratch
      <3>2. Become(p, Over(x, proc[p]))
        BY <2>5
      <3> HIDE DEF x
      <3> QED BY <3>1, <3>2, <2>1, <2>3, <2>5, OverlayGoesOn
    <2>6. CASE proc[p].op \in AddOps /\ Goto(p, "missing")
      BY <2>6, <2>1, GotoGoesOn DEF OpsAt
    <2>7. CASE proc[p].op \in {"delete_plan", "remove_plan_users", "remove_plan_groups"} /\ Goto(p, "write")
      <3>1. proc[p].op \in OpsAt("write")
        BY <2>7 DEF OpsAt, AddOps, SyncOps, RequestFields
      <3> QED BY <3>1, <2>7, <2>1, GotoGoesOn
    <2> QED BY <2>2, <2>4, <2>5, <2>6, <2>7
  <1>2. CASE FindGroup(p)
    <2>1. OnItsWay(proc[p]) /\ proc[p].op \in GroupOps /\ proc[p].pc \notin Inserting
      BY <1>2, Stages DEF FindGroup, At, Resting, Inserting
    <2>2. \/ Answer(p)
          \/ proc[p].op = "add_members" /\ Goto(p, "missing")
          \/ proc[p].op # "add_members" /\ Goto(p, "write")
      BY <1>2 DEF FindGroup
    <2>3. /\ "add_members" \in OpsAt("missing")
          /\ proc[p].op # "add_members" => proc[p].op \in OpsAt("write")
      BY <2>1 DEF OpsAt, AddOps, SyncOps, RequestFields, GroupOps
    <2> QED BY <2>1, <2>2, <2>3, AnswerRests, GotoGoesOn
  <1>3. CASE Missing(p)
    <2>1. OnItsWay(proc[p]) /\ proc[p].op \in AddOps \cup {"add_members"} /\ proc[p].pc \notin Inserting
      BY <1>3, Stages DEF Missing, At, Resting, Inserting
    <2>2. \/ Answer(p)
          \/ proc[p].op = "add_members" /\ Goto(p, "write")
          \/ proc[p].op # "add_members" /\ Goto(p, "precheck")
      BY <1>3 DEF Missing
    <2>3. /\ "add_members" \in OpsAt("write")
          /\ proc[p].op # "add_members" => proc[p].op \in OpsAt("precheck")
      BY <2>1 DEF OpsAt, AddOps, SyncOps, RequestFields
    <2> QED BY <2>1, <2>2, <2>3, AnswerRests, GotoGoesOn
  <1>4. CASE Precheck(p)
    <2>1. OnItsWay(proc[p]) /\ proc[p].op \in AddOps /\ proc[p].pc \notin Inserting
      BY <1>4, Stages DEF Precheck, At, Resting, Inserting
    <2> DEFINE x == [pc |-> "insert", todo |-> DedupIds(proc[p].ids), began |-> now]
    <2>2. DOMAIN x \subseteq Scratch \ {"mine"} /\ x.pc = "insert" /\ x.began = now
      BY DEF Scratch
    <2>3. Answer(p) \/ Become(p, Over(x, proc[p]))
      BY <1>4 DEF Precheck
    <2>4. proc[p].op \in OpsAt("insert")
      BY <2>1 DEF OpsAt
    <2> HIDE DEF x
    <2> QED BY <2>1, <2>2, <2>3, <2>4, AnswerRests, OverlayGoesOn
  <1> QED BY <1>1, <1>2, <1>3, <1>4

\* The transaction of an addition.
LEMMA InsertsGoOn ==
    ASSUME Shape, NEW p \in Procs, InsertRow(p) \/ InsertEnds(p) \/ Commit(p)
    PROVE  \E s : Advance(p, s)
  <1>1. CASE InsertRow(p)
    <2>1. OnItsWay(proc[p])
      BY <1>1, Stages DEF InsertRow, At, Resting
    <2> DEFINE row == <<proc[p].plan, Head(proc[p].todo)>>
               s == [proc[p] EXCEPT !.todo = Tail(@), !.mine = @ \cup ({row} \ Present(proc[p].op))]
    <2>2. proc' = [proc EXCEPT ![p] = s]
      BY <1>1 DEF InsertRow, Become
    <2>3. /\ DOMAIN s = DOMAIN proc[p] /\ s.pc = proc[p].pc /\ s.began = proc[p].began
          /\ \A f \in DOMAIN proc[p] \ Scratch : s[f] = proc[p][f]
      BY <2>1 DEF OnItsWay, Scratch, Whole
    <2>4. s.op = proc[p].op
      BY <2>1, <2>3 DEF OnItsWay, Whole, Scratch
    <2> HIDE DEF s
    <2>5. Onward(proc[p], s)
      BY <2>1, <2>3, <2>4 DEF Onward, OnItsWay
    <2>6. s.pc # "count"
      BY <2>3, <1>1 DEF InsertRow, At
    <2> QED BY <1>1, <2>1, <2>2, <2>3, <2>5, <2>6 DEF Advance
  <1>2. CASE InsertEnds(p)
    <2>1. OnItsWay(proc[p]) /\ proc[p].op \in AddOps
      BY <1>2, Stages DEF InsertEnds, At, Resting
    <2>2. Answer(p) \/ Goto(p, "count")
      BY <1>2 DEF InsertEnds
    <2>3. proc[p].op \in OpsAt("count")
      BY <2>1 DEF OpsAt
    <2> QED BY <1>2, <2>1, <2>2, <2>3, AnswerRests, GotoGoesOn DEF Inserting
  <1>3. CASE Commit(p)
    BY <1>3, AnswerRests DEF Commit
  <1> QED BY <1>1, <1>2, <1>3

\* The synchronisation.
LEMMA SyncsGoOn ==
    ASSUME Shape, NEW p \in Procs, Syncs(p) \/ UpsertFails(p) \/ ListFails(p)
    PROVE  \E s : Advance(p, s)
  <1>0. ASSUME NEW c \in {"lock", "list", "upsert"}, At(p, c)
        PROVE  OnItsWay(proc[p]) /\ proc[p].op \in SyncOps /\ proc[p].pc \notin Inserting
    BY <1>0, Stages DEF At, Resting, Inserting
  <1>1. \A c \in {"lock", "list", "upsert"} : OpsAt(c) = SyncOps
    BY DEF OpsAt
  <1>2. CASE Lock(p)
    <2>1. OnItsWay(proc[p]) /\ proc[p].op \in SyncOps /\ proc[p].pc \notin Inserting
      BY <1>2, <1>0 DEF Lock
    <2>2. Answer(p) \/ Goto(p, "list")
      BY <1>2 DEF Lock
    <2>3. proc[p].op \in OpsAt("list")
      BY <2>1, <1>1
    <2> QED BY <2>1, <2>2, <2>3, AnswerRests, GotoGoesOn
  <1>3. CASE List(p)
    <2>1. OnItsWay(proc[p]) /\ proc[p].op \in SyncOps /\ proc[p].pc \notin Inserting
      BY <1>3, <1>0 DEF List
    <2>2. PICK entries : Become(p, Over([pc |-> "upsert", entries |-> entries, found |-> <<>>], proc[p]))
      BY <1>3 DEF List
    <2> DEFINE x == [pc |-> "upsert", entries |-> entries, found |-> <<>>]
    <2>3. DOMAIN x \subseteq Scratch \ {"mine", "began"} /\ x.pc = "upsert" /\ Become(p, Over(x, proc[p]))
      BY <2>2 DEF Scratch
    <2>4. proc[p].op \in OpsAt("upsert")
      BY <2>1, <1>1
    <2> HIDE DEF x
    <2> QED BY <2>1, <2>3, <2>4, OverlayGoesOn
  <1>4. CASE Upsert(p)
    <2>1. OnItsWay(proc[p]) /\ proc[p].pc \notin Inserting
      BY <1>4, <1>0 DEF Upsert
    <2> DEFINE s == [proc[p] EXCEPT !.entries = Tail(@), !.found = Append(@, Head(proc[p].entries))]
    <2>2. proc' = [proc EXCEPT ![p] = s]
      BY <1>4 DEF Upsert, Become
    <2>3. /\ DOMAIN s = DOMAIN proc[p] /\ s.pc = proc[p].pc /\ s.began = proc[p].began
          /\ \A f \in DOMAIN proc[p] \ Scratch : s[f] = proc[p][f]
          /\ "mine" \in DOMAIN proc[p] => s.mine = proc[p].mine
      BY <2>1 DEF OnItsWay, Scratch, Whole
    <2>4. s.op = proc[p].op
      BY <2>1, <2>3 DEF OnItsWay, Whole, Scratch
    <2> HIDE DEF s
    <2>5. Onward(proc[p], s)
      BY <2>1, <2>3, <2>4 DEF Onward, OnItsWay
    <2>6. s.pc # "count"
      BY <2>3, <1>4 DEF Upsert, At
    <2> QED BY <2>1, <2>2, <2>3, <2>5, <2>6 DEF Advance
  <1>5. CASE UpsertFails(p)
    <2>1. OnItsWay(proc[p]) /\ proc[p].pc \notin Inserting
      BY <1>5, <1>0 DEF UpsertFails
    <2> DEFINE x == [failed |-> TRUE, entries |-> Tail(proc[p].entries)]
    <2>2. DOMAIN x \subseteq Scratch \ {"mine", "began"} /\ "pc" \notin DOMAIN x
      BY DEF Scratch
    <2>3. Become(p, Over(x, proc[p]))
      BY <1>5 DEF UpsertFails
    <2> HIDE DEF x
    <2> QED BY <2>1, <2>2, <2>3, OverlayGoesOn
  <1>6. CASE ListFails(p)
    BY <1>6, <1>0, SyncEndsGoesOn DEF ListFails
  <1>7. CASE Reconcile(p)
    <2>1. PICK result : SyncEnds(p, result)
      BY <1>7 DEF Reconcile
    <2>2. OnItsWay(proc[p]) /\ proc[p].op \in SyncOps /\ proc[p].pc \notin Inserting
      BY <1>7, Stages DEF Reconcile, HasJoined, Asked, At, Resting, Inserting, SyncOps
    <2> QED BY <2>1, <2>2, SyncEndsGoesOn
  <1> QED BY <1>2, <1>3, <1>4, <1>5, <1>6, <1>7 DEF Syncs

\* The insertion of members into a group.
LEMMA JoinsGoOn ==
    ASSUME Shape, NEW p \in Procs, Joins(p)
    PROVE  \E s : Advance(p, s)
  <1>1. CASE StartJoin(p)
    <2>1. /\ OnItsWay(proc[p]) /\ proc[p].pc \notin Inserting
          /\ proc[p].op \in {"add_members", "add_all"} \cup SyncOps
      BY <1>1, Stages DEF StartJoin, At, Resting, Inserting
    <2>2. PICK order : Become(p, Over([pc |-> "join", todo |-> order, rows |-> {}, began |-> now], proc[p]))
      BY <1>1 DEF StartJoin
    <2> DEFINE x == [pc |-> "join", todo |-> order, rows |-> {}, began |-> now]
    <2>3. /\ DOMAIN x \subseteq Scratch \ {"mine"} /\ x.pc = "join" /\ x.began = now
          /\ Become(p, Over(x, proc[p]))
      BY <2>2 DEF Scratch
    <2>4. proc[p].op \in OpsAt("join")
      BY <2>1 DEF OpsAt
    <2> HIDE DEF x
    <2> QED BY <2>1, <2>3, <2>4, OverlayGoesOn
  <1>2. CASE JoinRow(p)
    <2>1. OnItsWay(proc[p]) /\ proc[p].pc = "join"
      BY <1>2, Stages DEF JoinRow, At, Resting
    <2> DEFINE row == <<Target(p), Head(proc[p].todo)>>
               s == [proc[p] EXCEPT !.todo = Tail(@), !.rows = @ \cup ({row} \ DOMAIN members)]
    <2>2. proc' = [proc EXCEPT ![p] = s]
      BY <1>2 DEF JoinRow, Become
    <2>3. /\ DOMAIN s = DOMAIN proc[p] /\ s.pc = proc[p].pc /\ s.began = proc[p].began
          /\ \A f \in DOMAIN proc[p] \ Scratch : s[f] = proc[p][f]
          /\ "mine" \in DOMAIN proc[p] => s.mine = proc[p].mine
      BY <2>1 DEF OnItsWay, Scratch, Whole
    <2>4. s.op = proc[p].op
      BY <2>1, <2>3 DEF OnItsWay, Whole, Scratch
    <2> HIDE DEF s
    <2>5. Onward(proc[p], s)
      BY <2>1, <2>3, <2>4 DEF Onward, OnItsWay
    <2> QED BY <2>1, <2>2, <2>3, <2>5 DEF Advance, Inserting
  <1>3. CASE AddMembers(p) \/ AddAll(p)
    BY <1>3, AnswerRests DEF AddMembers, AddAll, AddAs
  <1> QED BY <1>1, <1>2, <1>3 DEF Joins

\* One of those who wait in a circle is let go.
LEMMA AbortGoesOn ==
    ASSUME Shape, NEW p \in Procs, DeadlockAborts(p)
    PROVE  \E s : Advance(p, s)
  <1>1. At(p, "insert") \/ At(p, "join")
    BY DEF DeadlockAborts, Inserters
  <1>2. CASE proc[p].op \in SyncOps
    <2>1. SyncEnds(p, "failed")
      BY <1>2 DEF DeadlockAborts, SyncOps
    <2>2. OnItsWay(proc[p]) /\ proc[p].pc \notin Inserting
      BY <1>1, <1>2, Stages DEF At, Resting, Inserting, SyncOps, AddOps
    <2> QED BY <1>2, <2>1, <2>2, SyncEndsGoesOn
  <1>3. CASE proc[p].op \notin SyncOps
    BY <1>3, AnswerRests DEF DeadlockAborts, SyncOps
  <1> QED BY <1>2, <1>3

\* A handler, in whatever it does.
LEMMA GoesOn ==
    ASSUME Shape, NEW p \in Procs, Goes(p) \/ Breaks(p)
    PROVE  \E s : Advance(p, s)
  <1>1. CASE FindPlan(p) \/ FindGroup(p) \/ Adds(p) \/ Joins(p) \/ Syncs(p) \/ DeadlockAborts(p)
    BY <1>1, ReadsGoOn, InsertsGoOn, JoinsGoOn, SyncsGoOn, AbortGoesOn DEF Adds
  <1>2. CASE Writes(p) \/ LoadFails(p) \/ Cancel(p) \/ Apply(p)
    <2>1. Answer(p) \/ Become(p, [pc |-> "load"])
      BY <1>2 DEF Writes, LoadFails, Cancel, Apply, CreatePlan, UpdatePlan, DeletePlan, RemovePlanUsers,
                  RemovePlanGroups, CreateGroup, UpdateGroup, DeleteGroup, RemoveMembers
    <2> QED BY <2>1, AnswerRests
  <1>3. CASE Load(p)
    BY <1>3, RestingRecords DEF Load, Become, Advance
  <1> QED BY <1>1, <1>2, <1>3, SyncsGoOn DEF Goes, Breaks

-----------------------------------------------------------------------------
(* Every step.                                                              *)

\* What a handler that has just taken a request knows.
LEMMA Begun ==
    ASSUME office \in DOMAIN Offices, NEW req \in Now("asks"),
           NEW s, s = Over(req, [pc |-> FirstStep(req.op), mine |-> {}, began |-> now])
    PROVE  /\ OnItsWay(s) /\ s.pc \notin Inserting
           /\ "mine" \in DOMAIN s /\ s.mine = {} /\ s.began = now
           /\ \A m : Dismisses(s, m) <=> Dismisses(req, m)
  <1> DEFINE x == [pc |-> FirstStep(req.op), mine |-> {}, began |-> now]
  <1>1. /\ "op" \in DOMAIN req /\ req.op \in DOMAIN RequestFields
        /\ RequestFields[req.op] \subseteq DOMAIN req
        /\ {"pc", "mine", "began"} \cap DOMAIN req = {}
        /\ req.op = "create_plan" => Settings \subseteq DOMAIN req.fields /\ Typed(req.fields)
        /\ req.op = "update_plan" => Typed(req.patch)
    BY RequestsAssumption DEF Now
  <1>2. DOMAIN x = {"pc", "mine", "began"} /\ x.pc = FirstStep(req.op) /\ x.mine = {} /\ x.began = now
    OBVIOUS
  <1> HIDE DEF x
  <1>3. /\ DOMAIN s = DOMAIN req \cup {"pc", "mine", "began"}
        /\ \A f \in DOMAIN req : s[f] = req[f]
        /\ s.pc = FirstStep(req.op) /\ s.mine = {} /\ s.began = now
    BY <1>1, <1>2 DEF Over, x
  <1>4. req.op \in OpsAt(FirstStep(req.op)) /\ FirstStep(req.op) \notin Inserting
    BY <1>1 DEF OpsAt, FirstStep, RequestFields, PlanOps, GroupOps, AddOps, SyncOps, Inserting
  <1>5. s.op = req.op
    BY <1>1, <1>3
  <1>6. /\ req.op = "create_plan" => s.fields = req.fields
        /\ req.op = "update_plan" => s.patch = req.patch
        /\ req.op = "remove_members" => s.group = req.group /\ s.ids = req.ids
        /\ req.op = "delete_group" => s.group = req.group
    <2>1. /\ RequestFields["create_plan"] = {"fields"}
          /\ RequestFields["update_plan"] = {"plan", "patch"}
          /\ RequestFields["remove_members"] = {"group", "ids"}
          /\ RequestFields["delete_group"] = {"group"}
      BY DEF RequestFields
    <2> QED BY <2>1, <1>1, <1>3
  <1>7. Whole(s)
    BY <1>1, <1>3, <1>5, <1>6 DEF Whole
  <1>8. \A m : Dismisses(s, m) <=> Dismisses(req, m)
    BY <1>5, <1>6 DEF Dismisses
  <1> QED BY <1>3, <1>4, <1>5, <1>7, <1>8 DEF OnItsWay

\* The two tasks and the reader are nobody's requests.
LEMMA Roles ==
    ASSUME office \in DOMAIN Offices
    PROVE  /\ Admins \subseteq Procs /\ Worker \in Procs /\ Reloader \in Procs /\ Reader \in Procs
           /\ Worker \notin Admins /\ Reader \notin Admins \cup {Worker, Reloader}
  BY PlansAssumption DEF Admins, Now

\* A user's question.
Questions == (\E u \in Users, m \in Models \cup {NoModel} : MyPlan(u, m)) \/ AskDatabase \/ Why

\* A resting handler replaced by a resting one, or by the sync task's list.
LEMMA OwnSteps ==
    ASSUME office \in DOMAIN Offices, Shape, Questions \/ WorkerTicks \/ Reload
    PROVE  /\ office' = office
           /\ \/ UNCHANGED proc
              \/ \E p \in Procs : \E s : /\ proc' = [proc EXCEPT ![p] = s]
                                         /\ AtRest(s) \/ (OnItsWay(s) /\ s.op = "sync_all" /\ s.began = now)
  <1>1. CASE \E u \in Users, m \in Models \cup {NoModel} : MyPlan(u, m)
    <2>1. PICK u \in Users, m \in Models \cup {NoModel} : MyPlan(u, m)
      BY <1>1
    <2> DEFINE s == [pc |-> "ask_database", user |-> u, model |-> m, time |-> LocalTime(now), saw |-> Memberships(u)]
    <2>2. AtRest(s)
      BY DEF AtRest, Resting
    <2>3. office' = office /\ (UNCHANGED proc \/ proc' = [proc EXCEPT ![Reader] = s])
      BY <2>1 DEF MyPlan, Become
    <2> HIDE DEF s
    <2> QED BY <2>2, <2>3, Roles
  <1>2. CASE AskDatabase
    <2> DEFINE s == [proc[Reader] EXCEPT !.pc = "why",
                        !.saw = IF @ = Memberships(proc[Reader].user) THEN @ ELSE {}]
    <2>1. proc' = [proc EXCEPT ![Reader] = Idle] \/ proc' = [proc EXCEPT ![Reader] = s]
      BY <1>2 DEF AskDatabase, Answer, Become
    <2>2. AtRest(proc[Reader])
      BY <1>2, Roles DEF AskDatabase, Shape, At, OnItsWay, OpsAt
    <2>3. AtRest(s)
      BY <2>2 DEF AtRest, Resting
    <2>4. office' = office
      BY <1>2 DEF AskDatabase, envVars
    <2> HIDE DEF s
    <2> QED BY <2>1, <2>3, <2>4, Roles, RestingRecords
  <1>3. CASE Why
    BY <1>3, Roles, RestingRecords DEF Why, Answer, Become, envVars
  <1>4. CASE WorkerTicks
    <2> DEFINE s == [pc |-> "lock", op |-> "sync_all", queue |-> SetToSeq(LdapGroups), failed |-> FALSE, began |-> now]
    <2>1. proc' = [proc EXCEPT ![Worker] = s] /\ office' = office
      BY <1>4 DEF WorkerTicks, Become, envVars
    <2>2. OnItsWay(s) /\ s.op = "sync_all" /\ s.began = now
      BY DEF OnItsWay, Whole, OpsAt, SyncOps
    <2> HIDE DEF s
    <2> QED BY <2>1, <2>2, Roles
  <1>5. CASE Reload
    BY <1>5, Roles, RestingRecords DEF Reload, Become, envVars
  <1> QED BY <1>1, <1>2, <1>3, <1>4, <1>5 DEF Questions

\* The steps of the system, sorted by what they do to the handlers.
LEMMA StepKinds ==
    ASSUME office \in DOMAIN Offices, [PlansNext]_vars
    PROVE  \/ \E p \in Admins, req \in Now("asks") : Begin(p, req)
           \/ \E p \in Admins \cup {Worker, Reloader} : Goes(p) \/ Breaks(p)
           \/ Questions \/ WorkerTicks \/ Reload \/ PeopleMove \/ HourPasses \/ UNCHANGED vars
  BY DEF PlansNext, Asks, Begins, Questions

\* The instance is chosen once.
LEMMA OfficeStays ==
    ASSUME office \in DOMAIN Offices, Shape, [PlansNext]_vars
    PROVE  office' = office
  <1>1. ASSUME NEW p, Goes(p) \/ Breaks(p) PROVE office' = office
    BY <1>1 DEF Goes, Breaks, Adds, Writes, Joins, Syncs, StartJoin, JoinRow, DeadlockAborts,
        envVars, FaultsSame, FindPlan, FindGroup, Missing,
        Precheck, InsertRow, InsertEnds, Commit, CreatePlan, UpdatePlan, DeletePlan, RemovePlanUsers,
        RemovePlanGroups, CreateGroup, UpdateGroup, DeleteGroup, AddMembers, AddAll, AddAs, RemoveMembers,
        Load, LoadFails, Apply, Lock, List, ListFails, Upsert, UpsertFails, Reconcile, Cancel
  <1>2. ASSUME NEW p, NEW req, Begin(p, req) PROVE office' = office
    BY <1>2 DEF Begin
  <1>3. PeopleMove \/ HourPasses \/ UNCHANGED vars => office' = office
    BY DEF PeopleMove, HourPasses, vars, envVars
  <1> QED BY <1>1, <1>2, <1>3, StepKinds, OwnSteps

\* Every handler stays at rest or on its way.
LEMMA ShapeStep ==
    ASSUME office \in DOMAIN Offices, Shape, [PlansNext]_vars
    PROVE  Shape'
  <1>1. ASSUME NEW p \in Procs, NEW s, proc' = [proc EXCEPT ![p] = s], AtRest(s) \/ OnItsWay(s)
        PROVE  Shape'
    BY <1>1 DEF Shape
  <1>2. ASSUME UNCHANGED proc PROVE Shape'
    BY <1>2 DEF Shape
  <1>3. ASSUME NEW p \in Procs, Goes(p) \/ Breaks(p) PROVE Shape'
    <2>1. PICK s : Advance(p, s)
      BY <1>3, GoesOn
    <2>2. AtRest(s) \/ OnItsWay(s)
      BY <2>1, OnwardKeeps DEF Advance
    <2> QED BY <2>1, <2>2, <1>1 DEF Advance
  <1>4. ASSUME NEW p \in Procs, NEW req \in Now("asks"), Begin(p, req) PROVE Shape'
    <2>1. UNCHANGED proc \/ proc' = [proc EXCEPT ![p] = Over(req, [pc |-> FirstStep(req.op), mine |-> {}, began |-> now])]
      BY <1>4 DEF Begin, Become
    <2> QED BY <2>1, <1>1, <1>2, Begun
  <1>5. CASE PeopleMove \/ HourPasses \/ UNCHANGED vars
    BY <1>5, <1>2 DEF PeopleMove, HourPasses, vars
  <1>6. CASE Questions \/ WorkerTicks \/ Reload
    BY <1>6, <1>1, <1>2, OwnSteps
  <1> QED BY <1>3, <1>4, <1>5, <1>6, StepKinds, Roles

-----------------------------------------------------------------------------
(* Members added by hand.                                                   *)

\* HandAddedStay, with the reason: the row is not the directory's to take, and
\* nobody who is under way asks for it to go.
KeptInv ==
    \A k \in kept : /\ k.row \in DOMAIN members
                    /\ members[k.row].since = k.since /\ members[k.row].source # "ldap"
                    /\ Undisputed(k.row)

\* A step of one handler that does not come to dismiss the member.
LEMMA UndisputedStays ==
    ASSUME Shape, NEW p \in Procs, NEW s, proc' = [proc EXCEPT ![p] = s],
           NEW m, Undisputed(m), "op" \in DOMAIN s => ~Dismisses(s, m)
    PROVE  Undisputed(m)'
  BY DEF Undisputed, Shape

\* No handler comes to dismiss somebody on its way.
LEMMA AdvanceUndisputed ==
    ASSUME Shape, NEW p \in Procs, Goes(p) \/ Breaks(p), NEW m, Undisputed(m)
    PROVE  Undisputed(m)'
  <1>1. PICK s : Advance(p, s)
    BY GoesOn
  <1>2. "op" \in DOMAIN s => ~Dismisses(s, m)
    <2>1. CASE AtRest(s)
      BY <2>1 DEF AtRest
    <2>2. CASE OnItsWay(proc[p]) /\ Onward(proc[p], s)
      <3>1. Dismisses(s, m) <=> Dismisses(proc[p], m)
        BY <2>2, OnwardKeeps
      <3>2. "op" \in DOMAIN proc[p]
        BY <2>2 DEF OnItsWay, Whole
      <3> QED BY <3>1, <3>2 DEF Undisputed
    <2> QED BY <1>1, <2>1, <2>2 DEF Advance
  <1> QED BY <1>1, <1>2, UndisputedStays DEF Advance

\* Steps that leave the table of members and its history alone.
LEMMA OtherSteps ==
    ASSUME NEW p, Goes(p) \/ Breaks(p),
           ~(DeleteGroup(p) \/ AddMembers(p) \/ AddAll(p) \/ RemoveMembers(p) \/ Reconcile(p))
    PROVE  UNCHANGED <<members, kept>>
  BY DEF Goes, Breaks, Adds, Writes, Joins, Syncs, StartJoin, JoinRow, DeadlockAborts,
        FindPlan, FindGroup, Missing,
        Precheck, InsertRow, InsertEnds, Commit, CreatePlan, UpdatePlan, DeletePlan, RemovePlanUsers,
        RemovePlanGroups, CreateGroup, UpdateGroup, Load, LoadFails, Apply, Lock, List, ListFails,
        Upsert, UpsertFails, Cancel, tables, groupTables, history

\* Deleting rows leaves the others.
LEMMA WithoutRows ==
    ASSUME NEW f, NEW S
    PROVE  /\ DOMAIN Without(f, S) = DOMAIN f \ S
           /\ \A x \in DOMAIN f \ S : Without(f, S)[x] = f[x]
  BY DEF Without, Pick

\* Every step keeps the members that were added by hand.
LEMMA KeptStep ==
    ASSUME office \in DOMAIN Offices, Shape, KeptInv, [PlansNext]_vars
    PROVE  KeptInv'
  <1>1. ASSUME UNCHANGED <<members, kept>>, \A m : Undisputed(m) => Undisputed(m)' PROVE KeptInv'
    BY <1>1 DEF KeptInv
  <1>2. ASSUME NEW p \in Procs, Goes(p) \/ Breaks(p) PROVE KeptInv'
    <2>0. \A m : Undisputed(m) => Undisputed(m)'
      BY <1>2, AdvanceUndisputed
    <2>1. CASE AddMembers(p) \/ AddAll(p)
      <3>1. PICK source : AddAs(p, source) /\ source # "ldap"
        <4>1. "manual" # "ldap" /\ "all" # "ldap"
          OBVIOUS
        <4> QED BY <2>1, <4>1, Zenon DEF AddMembers, AddAll
      <3>2. CASE Orphaned(p)
        BY <3>1, <3>2, <2>0, <1>1 DEF AddAs, history
      <3>3. CASE ~Orphaned(p)
        <4> DEFINE rows == proc[p].rows
                   date == proc[p].began
                   new == [m \in rows |-> [source |-> source, since |-> date]]
        <4>1. members' = Over(members, new) /\ kept' = kept \cup NewlyKept(p)
          BY <3>1, <3>3 DEF AddAs, Joined
        <4>2. DOMAIN new = rows /\ \A m \in rows : new[m] = [source |-> source, since |-> date]
          OBVIOUS
        <4> HIDE DEF new
        <4>3. /\ DOMAIN members' = DOMAIN members \cup rows
              /\ \A m \in DOMAIN members : members'[m] = members[m]
              /\ \A m \in rows \ DOMAIN members : members'[m] = [source |-> source, since |-> date]
          BY <4>1, <4>2 DEF Over
        <4>4. ASSUME NEW k \in kept
              PROVE  /\ k.row \in DOMAIN members' /\ members'[k.row].since = k.since
                     /\ members'[k.row].source # "ldap" /\ Undisputed(k.row)'
          BY <4>3, <2>0 DEF KeptInv
        <4>5. ASSUME NEW k \in NewlyKept(p)
              PROVE  /\ k.row \in DOMAIN members' /\ members'[k.row].since = k.since
                     /\ members'[k.row].source # "ldap" /\ Undisputed(k.row)'
          <5>1. PICK m \in rows : m \notin DOMAIN members /\ Undisputed(m) /\ k = [row |-> m, since |-> date]
            BY DEF NewlyKept
          <5>2. k.row = m /\ k.since = date
            BY <5>1
          <5>3. members'[m] = [source |-> source, since |-> date] /\ m \in DOMAIN members'
            BY <4>3, <5>1
          <5> HIDE DEF date
          <5> QED BY <3>1, <5>1, <5>2, <5>3, <2>0
        <4> QED BY <4>1, <4>4, <4>5 DEF KeptInv
      <3> QED BY <3>2, <3>3
    <2>2. CASE RemoveMembers(p) \/ DeleteGroup(p)
      <3>1. OnItsWay(proc[p])
        BY <2>2, Stages DEF RemoveMembers, DeleteGroup, Asked, At, Resting
      <3>2. PICK S : members' = Without(members, S) /\ \A m \in S : Dismisses(proc[p], m)
        <4>1. CASE RemoveMembers(p)
          <5>1. /\ proc[p].op = "remove_members"
                /\ members' = Without(members, {<<proc[p].group, u>> : u \in ToSet(proc[p].ids)})
            BY <4>1 DEF RemoveMembers, Asked
          <5>2. \A m \in {<<proc[p].group, u>> : u \in ToSet(proc[p].ids)} : Dismisses(proc[p], m)
            BY <5>1 DEF Dismisses
          <5> QED BY <5>1, <5>2
        <4>2. CASE DeleteGroup(p)
          <5>1. /\ proc[p].op = "delete_group"
                /\ members' = Without(members, {m \in DOMAIN members : m[1] = proc[p].group})
            BY <4>2 DEF DeleteGroup, Asked
          <5>2. \A m \in {n \in DOMAIN members : n[1] = proc[p].group} : Dismisses(proc[p], m)
            BY <5>1 DEF Dismisses
          <5> QED BY <5>1, <5>2
        <4> QED BY <2>2, <4>1, <4>2
      <3>3. kept' = kept
        BY <2>2 DEF RemoveMembers, DeleteGroup
      <3>4. "op" \in DOMAIN proc[p]
        BY <3>1 DEF OnItsWay, Whole
      <3>5. \A k \in kept : k.row \notin S
        BY <3>2, <3>4 DEF KeptInv, Undisputed
      <3>6. DOMAIN members' = DOMAIN members \ S /\ \A m \in DOMAIN members \ S : members'[m] = members[m]
        BY <3>2, WithoutRows
      <3> QED BY <3>3, <3>5, <3>6, <2>0 DEF KeptInv
    <2>3. CASE Reconcile(p)
      <3>1. kept' = kept
        BY <2>3 DEF Reconcile, history
      <3>2. CASE UNCHANGED members
        BY <3>1, <3>2, <2>0, <1>1
      <3>3. CASE ~UNCHANGED members
        <4>1. members' = Reconciled(p)
          BY <2>3, <3>3 DEF Reconcile
        <4> DEFINE joined == Joined(p, "ldap")
        <4>2. \A m \in DOMAIN members : m \in DOMAIN joined /\ joined[m] = members[m]
          BY DEF Joined, Over
        <4>3. members' = Pick(joined, {m \in DOMAIN joined :
                    m[1] = Target(p) /\ joined[m].source = "ldap" => m[2] \in ToSet(proc[p].found)})
          BY <4>1 DEF Reconciled
        <4> HIDE DEF joined
        <4>4. \A m \in DOMAIN members : members[m].source # "ldap" => m \in DOMAIN members' /\ members'[m] = members[m]
          BY <4>2, <4>3 DEF Pick
        <4> QED BY <3>1, <4>4, <2>0 DEF KeptInv
      <3> QED BY <3>2, <3>3
    <2> QED BY <1>1, <1>2, <2>0, <2>1, <2>2, <2>3, OtherSteps
  <1>3. ASSUME NEW p \in Procs, NEW req \in Now("asks"), Begin(p, req) PROVE KeptInv'
    <2> DEFINE s == Over(req, [pc |-> FirstStep(req.op), mine |-> {}, began |-> now])
    <2>1. /\ UNCHANGED proc \/ proc' = [proc EXCEPT ![p] = s]
          /\ members' = members /\ kept' = {k \in kept : ~Dismisses(req, k.row)}
      BY <1>3 DEF Begin, Become, tables, groupTables
    <2>2. \A m : Dismisses(s, m) <=> Dismisses(req, m)
      BY Begun
    <2> HIDE DEF s
    <2>3. ASSUME NEW m, Undisputed(m), ~Dismisses(req, m) PROVE Undisputed(m)'
      <3>1. CASE UNCHANGED proc
        BY <3>1, <2>3 DEF Undisputed
      <3>2. CASE proc' = [proc EXCEPT ![p] = s]
        BY <3>2, <2>2, <2>3, UndisputedStays
      <3> QED BY <2>1, <3>1, <3>2
    <2> QED BY <2>1, <2>3 DEF KeptInv
  <1>4. CASE PeopleMove \/ HourPasses \/ UNCHANGED vars
    <2>1. UNCHANGED <<members, kept, proc>>
      BY <1>4 DEF PeopleMove, HourPasses, vars, tables, groupTables, history
    <2> QED BY <2>1, <1>1 DEF Undisputed
  <1>5. CASE Questions \/ WorkerTicks \/ Reload
    <2>1. UNCHANGED <<members, kept>>
      BY <1>5 DEF Questions, MyPlan, AskDatabase, Why, WorkerTicks, Reload, tables, groupTables, history
    <2>2. ASSUME NEW m, Undisputed(m) PROVE Undisputed(m)'
      <3>1. CASE UNCHANGED proc
        BY <3>1, <2>2 DEF Undisputed
      <3>2. ASSUME NEW p \in Procs, NEW s, proc' = [proc EXCEPT ![p] = s],
                   AtRest(s) \/ (OnItsWay(s) /\ s.op = "sync_all")
            PROVE  Undisputed(m)'
        <4>1. "op" \in DOMAIN s => ~Dismisses(s, m)
          BY <3>2 DEF AtRest, Dismisses
        <4> QED BY <4>1, <3>2, <2>2, UndisputedStays
      <3> QED BY <1>5, <3>1, <3>2, OwnSteps
    <2> QED BY <2>1, <2>2, <1>1
  <1> QED BY <1>2, <1>3, <1>4, <1>5, StepKinds, Roles

-----------------------------------------------------------------------------
(* Orders on finite sets.                                                   *)

\* A non-empty set of numbers has a least one.
LEMMA LeastNumber ==
    ASSUME NEW T, T \subseteq Nat, T # {}
    PROVE  \E x \in T : \A y \in T : x <= y
  <1>1. PICK x \in T : \A y \in T : ~(<<y, x>> \in OpToRel(<, Nat))
    BY NatLessThanWellFounded, WFMin
  <1>2. ASSUME NEW m \in Nat, NEW n \in Nat, n < m PROVE <<n, m>> \in OpToRel(<, Nat)
    BY <1>2, Zenon DEF OpToRel
  <1>3. \A y \in T : ~(y < x)
    BY <1>1, <1>2
  <1> QED BY <1>3

\* A finite set has an element that none of its elements comes before: the one
\* that the fewest come before.
LEMMA Unbeaten ==
    ASSUME NEW A, IsFiniteSet(A), A # {}, NEW R, \A x \in A : <<x, x>> \notin R,
           \A x, y, z \in A : <<x, y>> \in R /\ <<y, z>> \in R => <<x, z>> \in R
    PROVE  \E x \in A : \A y \in A : <<y, x>> \notin R
  <1> DEFINE Before(x) == {y \in A : <<y, x>> \in R}
             T == {Cardinality(Before(x)) : x \in A}
  <1>1. \A x \in A : IsFiniteSet(Before(x)) /\ Cardinality(Before(x)) \in Nat
    BY FS_Subset, FS_CardinalityType
  <1> HIDE DEF Before
  <1>2. T \subseteq Nat /\ T # {}
    <2>1. PICK a \in A : TRUE
      OBVIOUS
    <2>2. Cardinality(Before(a)) \in T
      OBVIOUS
    <2>3. T \subseteq Nat
      BY <1>1
    <2> QED BY <2>2, <2>3
  <1>3. PICK n \in T : \A m \in T : n <= m
    BY <1>2, LeastNumber
  <1>4. PICK x \in A : n = Cardinality(Before(x))
    OBVIOUS
  <1>5. ASSUME NEW y \in A, <<y, x>> \in R PROVE FALSE
    <2>1. Before(y) \in SUBSET Before(x) /\ Before(y) # Before(x)
      BY <1>5 DEF Before
    <2>2. Cardinality(Before(y)) <= Cardinality(Before(x)) /\ Cardinality(Before(y)) # Cardinality(Before(x))
      BY <1>1, <2>1, FS_Subset
    <2>3. Cardinality(Before(x)) <= Cardinality(Before(y))
      <3>1. Cardinality(Before(y)) \in T
        OBVIOUS
      <3> QED BY <3>1, <1>3, <1>4
    <2> QED BY <1>1, <2>2, <2>3
  <1> QED BY <1>5

\* Max is defined on finite sets of integers.
LEMMA Greatest ==
    ASSUME NEW S, IsFiniteSet(S), S # {}, S \subseteq Int
    PROVE  Max(S) \in S
  <1> DEFINE R == {w \in S \X S : w[1] > w[2]}
  <1>1. \A x, y \in S : <<x, y>> \in R <=> x > y
    OBVIOUS
  <1> HIDE DEF R
  <1>2. /\ \A x \in S : <<x, x>> \notin R
        /\ \A x, y, z \in S : <<x, y>> \in R /\ <<y, z>> \in R => <<x, z>> \in R
    BY <1>1
  <1>3. PICK x \in S : \A y \in S : <<y, x>> \notin R
    BY <1>2, Unbeaten
  <1>4. \A y \in S : ~(y > x)
    BY <1>1, <1>3
  <1>5. \A y \in S : x >= y
    BY <1>4
  <1> QED BY <1>5, Zenon DEF Max

-----------------------------------------------------------------------------
(* The tables of plans.                                                     *)

PlanRows ==
    /\ IsFiniteSet(DOMAIN plans) /\ DOMAIN plans \subseteq Int
    /\ \A id \in DOMAIN plans : "priority" \in DOMAIN plans[id] /\ plans[id].priority \in Int

\* Which tables a handler's step writes.
LEMMA WritesTo ==
    ASSUME NEW p, Goes(p) \/ Breaks(p)
    PROVE  /\ UNCHANGED plans \/ CreatePlan(p) \/ UpdatePlan(p) \/ DeletePlan(p)
           /\ \/ UNCHANGED <<plan_users, plan_groups>>
              \/ Commit(p) \/ DeletePlan(p) \/ RemovePlanUsers(p) \/ RemovePlanGroups(p) \/ DeleteGroup(p)
  BY DEF Goes, Breaks, Adds, Writes, Joins, Syncs, StartJoin, JoinRow, DeadlockAborts,
        FindPlan, FindGroup, Missing, Precheck, InsertRow, InsertEnds,
        Commit, CreatePlan, UpdatePlan, RemovePlanUsers, RemovePlanGroups, CreateGroup, UpdateGroup, DeleteGroup,
        AddMembers, AddAll, AddAs, RemoveMembers, Load, LoadFails, Apply, Lock, List, ListFails,
        Upsert, UpsertFails, Reconcile, Cancel, tables, planTables, groupTables

\* Only handlers write to the tables.
LEMMA OtherWrites ==
    ASSUME \/ \E p \in Admins, req \in Now("asks") : Begin(p, req)
           \/ Questions \/ WorkerTicks \/ Reload \/ PeopleMove \/ HourPasses \/ UNCHANGED vars
    PROVE  UNCHANGED tables
  BY DEF Begin, Questions, MyPlan, AskDatabase, Why, WorkerTicks, Reload, PeopleMove, HourPasses, vars

\* The plans stay finitely many, with integers to rank them by.
LEMMA PlanRowsStep ==
    ASSUME office \in DOMAIN Offices, Shape, PlanRows, [PlansNext]_vars
    PROVE  PlanRows'
  <1>1. CASE UNCHANGED plans
    BY <1>1 DEF PlanRows
  <1>2. ASSUME NEW p \in Procs, CreatePlan(p), ~UNCHANGED plans PROVE PlanRows'
    <2> DEFINE rec == proc[p].fields
               row == [rec EXCEPT !.hours = NormalizedHours(rec.period, @)]
               one == [i \in {NewId} |-> row]
    <2>1. OnItsWay(proc[p]) /\ proc[p].op = "create_plan"
      BY <1>2, Stages DEF CreatePlan, Asked, At, Resting
    <2>2. "priority" \in DOMAIN rec /\ rec.priority \in Int
      BY <2>1 DEF OnItsWay, Whole, Settings, Typed
    <2>3. "priority" \in DOMAIN row /\ row.priority \in Int
      BY <2>2
    <2>4. plans' = Over(one, plans)
      BY <1>2 DEF CreatePlan
    <2> HIDE DEF rec, row
    <2>5. NewId \in Int
      <3>1. IsFiniteSet(DOMAIN plans \cup {0}) /\ DOMAIN plans \cup {0} \subseteq Int
        BY FS_AddElement DEF PlanRows
      <3>2. Max(DOMAIN plans \cup {0}) \in Int
        BY <3>1, Greatest
      <3> QED BY <3>2 DEF NewId
    <2>6. DOMAIN one = {NewId} /\ one[NewId] = row
      OBVIOUS
    <2> HIDE DEF one
    <2>7. /\ DOMAIN plans' = DOMAIN plans \cup {NewId} /\ plans'[NewId] = row
          /\ \A id \in DOMAIN plans \ {NewId} : plans'[id] = plans[id]
      BY <2>4, <2>6 DEF Over
    <2>8. IsFiniteSet(DOMAIN plans')
      BY <2>7, FS_AddElement DEF PlanRows
    <2> QED BY <2>3, <2>5, <2>7, <2>8 DEF PlanRows
  <1>3. ASSUME NEW p \in Procs, UpdatePlan(p), ~UNCHANGED plans PROVE PlanRows'
    <2> DEFINE patch == proc[p].patch
               with == Written(proc[p].before, patch)
               id == proc[p].plan
    <2>1. OnItsWay(proc[p]) /\ proc[p].op = "update_plan"
      BY <1>3, Stages DEF UpdatePlan, Asked, At, Resting
    <2>2. "priority" \in DOMAIN patch => patch.priority \in Int
      BY <2>1 DEF OnItsWay, Whole, Typed
    <2>3. "priority" \in DOMAIN with => with.priority \in Int
      <3>1. CASE with = patch
        BY <3>1, <2>2
      <3>2. CASE \E h : with = Over([hours |-> h], patch)
        <4>1. PICK h : with = Over([hours |-> h], patch)
          BY <3>2
        <4> HIDE DEF with, patch
        <4>2. "priority" \in DOMAIN with => "priority" \in DOMAIN patch /\ with.priority = patch.priority
          BY <4>1 DEF Over
        <4> QED BY <2>2, <4>2
      <3> QED BY <3>1, <3>2 DEF Written
    <2>4. id \in DOMAIN plans /\ plans' = [plans EXCEPT ![id] = Over(with, plans[id])]
      BY <1>3 DEF UpdatePlan
    <2> HIDE DEF with, id
    <2>5. LET new == Over(with, plans[id]) IN "priority" \in DOMAIN new /\ new.priority \in Int
      BY <2>3, <2>4 DEF Over, PlanRows
    <2> QED BY <2>4, <2>5 DEF PlanRows
  <1>4. ASSUME NEW p \in Procs, DeletePlan(p) PROVE PlanRows'
    <2>1. /\ DOMAIN plans' = DOMAIN plans \ {proc[p].plan}
          /\ \A id \in DOMAIN plans' : plans'[id] = plans[id]
      <3>1. plans' = Without(plans, {proc[p].plan})
        BY <1>4 DEF DeletePlan
      <3> QED BY <3>1 DEF Without, Pick
    <2>2. IsFiniteSet(DOMAIN plans')
      BY <2>1, FS_Subset DEF PlanRows
    <2> QED BY <2>1, <2>2 DEF PlanRows
  <1> QED BY <1>1, <1>2, <1>3, <1>4, StepKinds, WritesTo, OtherWrites, Roles DEF tables, planTables

-----------------------------------------------------------------------------
(* Additions to a plan.                                                     *)

Adding(p) == "op" \in DOMAIN proc[p] /\ proc[p].op \in AddOps

\* What a transaction has inserted is in nobody else's hands: not in the table,
\* not in another transaction.
Apart(p) ==
    /\ p \in Admins /\ "mine" \in DOMAIN proc[p]
    /\ proc[p].mine \cap Present(proc[p].op) = {}
    /\ proc[p].pc \notin Inserting => proc[p].mine = {}
    /\ proc[p].pc = "count" => proc[p].plan \in DOMAIN plans

AddInv ==
    /\ \A p \in Procs : Adding(p) => Apart(p)
    /\ \A p, q \in Procs : p # q /\ Adding(p) /\ Adding(q) /\ proc[p].op = proc[q].op =>
            proc[p].mine \cap proc[q].mine = {}

\* The plans an open transaction refers to stay.
Held == \A q \in Procs : At(q, "count") /\ proc[q].plan \in DOMAIN plans => proc[q].plan \in DOMAIN plans'

Shrinks == DOMAIN plan_users' \subseteq DOMAIN plan_users /\ plan_groups' \subseteq plan_groups

\* A plan is deleted after the transactions that refer to it.
LEMMA PlansHeld ==
    ASSUME NEW p \in Procs, Goes(p) \/ Breaks(p)
    PROVE  Held
  <1>1. CASE UNCHANGED plans
    BY <1>1 DEF Held
  <1>2. CASE CreatePlan(p) /\ ~UNCHANGED plans
    <2>1. PICK one : plans' = Over(one, plans)
      BY <1>2 DEF CreatePlan
    <2>2. DOMAIN plans \subseteq DOMAIN plans'
      BY <2>1 DEF Over
    <2> QED BY <2>2 DEF Held
  <1>3. CASE UpdatePlan(p) /\ ~UNCHANGED plans
    <2>1. PICK id, row : plans' = [plans EXCEPT ![id] = row]
      BY <1>3 DEF UpdatePlan
    <2>2. DOMAIN plans' = DOMAIN plans
      BY <2>1
    <2> QED BY <2>2 DEF Held
  <1>4. CASE DeletePlan(p)
    <2>1. /\ \A q \in Procs : At(q, "count") => proc[q].plan # proc[p].plan
          /\ plans' = Without(plans, {proc[p].plan})
      BY <1>4 DEF DeletePlan
    <2>2. DOMAIN plans' = DOMAIN plans \ {proc[p].plan}
      BY <2>1 DEF Without, Pick
    <2> QED BY <2>1, <2>2 DEF Held
  <1> QED BY <1>1, <1>2, <1>3, <1>4, WritesTo

\* Only a commit adds rows.
LEMMA RowsShrink ==
    ASSUME NEW p, Goes(p) \/ Breaks(p), ~Commit(p)
    PROVE  Shrinks
  <1>1. CASE UNCHANGED <<plan_users, plan_groups>>
    BY <1>1 DEF Shrinks
  <1>2. CASE DeletePlan(p)
    <2>1. PICK S : plan_users' = Without(plan_users, S)
      BY <1>2 DEF DeletePlan
    <2>2. plan_groups' \subseteq plan_groups
      BY <1>2 DEF DeletePlan
    <2> QED BY <2>1, <2>2 DEF Shrinks, Without, Pick
  <1>3. CASE RemovePlanUsers(p)
    BY <1>3 DEF RemovePlanUsers, Shrinks, Without, Pick
  <1>4. CASE RemovePlanGroups(p)
    BY <1>4 DEF RemovePlanGroups, Shrinks
  <1>5. CASE DeleteGroup(p)
    BY <1>5 DEF DeleteGroup, Shrinks
  <1> QED BY <1>1, <1>2, <1>3, <1>4, <1>5, WritesTo

\* A step that takes nothing new into hand.
LEMMA AddKept ==
    ASSUME office' = office, Shape, AddInv, Held, Shrinks,
           NEW p \in Procs, NEW s, proc' = [proc EXCEPT ![p] = s],
           "op" \in DOMAIN s /\ s.op \in AddOps =>
                /\ Adding(p) /\ s.op = proc[p].op
                /\ "mine" \in DOMAIN s /\ s.mine = proc[p].mine
                /\ s.pc \notin Inserting => proc[p].pc \notin Inserting
                /\ s.pc = "count" => s.plan \in DOMAIN plans'
    PROVE  AddInv'
  <1>1. Admins' = Admins
    BY DEF Admins, Now
  <1>2. /\ proc'[p] = s
        /\ \A q \in Procs \ {p} : proc'[q] = proc[q]
    BY DEF Shape
  <1>4. /\ Adding(p)' <=> "op" \in DOMAIN s /\ s.op \in AddOps
        /\ \A q \in Procs \ {p} : Adding(q)' <=> Adding(q)
    BY <1>2 DEF Adding
  <1>5. ASSUME NEW q \in Procs \ {p}, Adding(q) PROVE Apart(q)'
    <2>1. Apart(q)
      BY <1>5 DEF AddInv
    <2>2. proc[q].pc = "count" => proc[q].plan \in DOMAIN plans'
      BY <2>1 DEF Apart, Held, At
    <2>3. proc[q].mine \cap Present(proc[q].op)' = {}
      BY <1>2, <2>1 DEF Apart, Present, Shrinks
    <2> QED BY <1>1, <1>2, <2>1, <2>2, <2>3 DEF Apart
  <1>6. ASSUME Adding(p)' PROVE Apart(p)'
    <2>1. Adding(p) /\ Apart(p)
      BY <1>4, <1>6 DEF AddInv
    <2>2. s.op = proc[p].op /\ s.mine = proc[p].mine
      BY <1>4, <1>6
    <2>3. s.mine \cap Present(proc[p].op)' = {}
      BY <1>2, <2>1, <2>2 DEF Apart, Present, Shrinks
    <2> QED BY <1>1, <1>2, <1>4, <1>6, <2>1, <2>2, <2>3 DEF Apart
  <1>7. \A q \in Procs : Adding(q)' =>
            Adding(q) /\ proc'[q].mine = proc[q].mine /\ proc'[q].op = proc[q].op
    BY <1>2, <1>4
  <1>8. \A q, o \in Procs : q # o /\ Adding(q)' /\ Adding(o)' /\ proc'[q].op = proc'[o].op =>
            proc'[q].mine \cap proc'[o].mine = {}
    BY <1>7 DEF AddInv
  <1> QED BY <1>4, <1>5, <1>6, <1>8 DEF AddInv

\* The statement inserts one more row.
LEMMA InsertApart ==
    ASSUME office \in DOMAIN Offices, office' = office, Shape, AddInv, NEW p \in Procs, InsertRow(p)
    PROVE  AddInv'
  <1> DEFINE row == <<proc[p].plan, Head(proc[p].todo)>>
             more == {row} \ Present(proc[p].op)
             s == [proc[p] EXCEPT !.todo = Tail(@), !.mine = @ \cup more]
  <1>1. OnItsWay(proc[p]) /\ proc[p].op \in AddOps /\ proc[p].pc = "insert"
    BY Stages DEF InsertRow, At, Resting
  <1>2. Adding(p) /\ Apart(p)
    BY <1>1 DEF AddInv, Adding, OnItsWay, Whole
  <1>3. (\A q \in Procs : ~Holds(q, p, row)) /\ proc' = [proc EXCEPT ![p] = s] /\ UNCHANGED <<plans, plan_users, plan_groups>>
    BY DEF InsertRow, Become, tables, planTables
  <1>4. /\ DOMAIN s = DOMAIN proc[p] /\ s.pc = "insert" /\ s.op = proc[p].op
        /\ s.mine = proc[p].mine \cup more
    BY <1>1, <1>2 DEF OnItsWay, Whole, Apart
  <1> HIDE DEF s, row
  <1>5. ASSUME NEW q \in Procs \ {p}, Adding(q), proc[q].op = proc[p].op PROVE row \notin proc[q].mine
    <2>1. Apart(q) /\ OnItsWay(proc[q])
      BY <1>5 DEF AddInv, Shape, AtRest, Adding
    <2>2. CASE proc[q].pc \in Inserting
      BY <1>3, <1>5, <2>2 DEF Holds, At, Inserting
    <2>3. CASE proc[q].pc \notin Inserting
      BY <2>1, <2>3 DEF Apart
    <2> QED BY <2>2, <2>3
  <1>6. Admins' = Admins
    BY DEF Admins, Now
  <1>7. /\ proc'[p] = s
        /\ \A q \in Procs \ {p} : proc'[q] = proc[q]
    BY <1>3 DEF Shape
  <1>8. Adding(p)' /\ \A q \in Procs \ {p} : Adding(q)' <=> Adding(q)
    BY <1>1, <1>2, <1>4, <1>7 DEF Adding
  <1>9. ASSUME NEW q \in Procs \ {p}, Adding(q) PROVE Apart(q)'
    <2>1. Apart(q)
      BY <1>9 DEF AddInv
    <2> QED BY <1>3, <1>6, <1>7, <2>1 DEF Apart, Present
  <1>10. Apart(p)'
    <2>1. s.mine \cap Present(proc[p].op) = {}
      BY <1>2, <1>4 DEF Apart
    <2>2. proc'[p].mine \cap Present(proc[p].op)' = {}
      BY <1>3, <1>4, <1>7, <2>1 DEF Present
    <2> QED BY <1>2, <1>4, <1>6, <1>7, <2>2 DEF Apart, Inserting
  <1>11. ASSUME NEW q \in Procs, NEW o \in Procs, q # o, Adding(q)', Adding(o)', proc'[q].op = proc'[o].op
         PROVE  proc'[q].mine \cap proc'[o].mine = {}
    <2>0. \A a \in Procs \ {p} : Adding(a)' /\ proc[a].op = proc[p].op => s.mine \cap proc[a].mine = {}
      BY <1>2, <1>4, <1>5, <1>8 DEF AddInv
    <2>1. CASE q = p
      BY <1>4, <1>7, <1>11, <2>0, <2>1
    <2>2. CASE o = p
      BY <1>4, <1>7, <1>11, <2>0, <2>2
    <2>3. CASE q # p /\ o # p
      BY <1>7, <1>8, <1>11, <2>3 DEF AddInv
    <2> QED BY <2>1, <2>2, <2>3
  <1> QED BY <1>8, <1>9, <1>10, <1>11 DEF AddInv

\* The rows of a commit are new in the table and in no other transaction.
LEMMA CommitApart ==
    ASSUME office \in DOMAIN Offices, office' = office, Shape, AddInv, NEW p \in Procs, Commit(p)
    PROVE  /\ AddInv'
           /\ LET new == (DOMAIN plan_users' \ DOMAIN plan_users) \cup (plan_groups' \ plan_groups)
              IN  new # {} => At(p, "count") /\ new = Rows(proc[p]) /\ p \in Admins
  <1>1. OnItsWay(proc[p]) /\ proc[p].op \in AddOps /\ At(p, "count")
    BY Stages DEF Commit, At, Resting
  <1>2. Adding(p) /\ Apart(p)
    BY <1>1 DEF AddInv, Adding, OnItsWay, Whole
  <1>3. PICK s : proc' = [proc EXCEPT ![p] = s] /\ AtRest(s)
    BY RestingRecords DEF Commit, Answer, Become
  <1>4. plans' = plans
    BY DEF Commit
  <1>5. CASE UNCHANGED <<plan_users, plan_groups>>
    <2>1. Held /\ Shrinks
      BY <1>4, <1>5 DEF Held, Shrinks
    <2>2. "op" \notin DOMAIN s
      BY <1>3 DEF AtRest
    <2>3. AddInv'
      BY <1>3, <2>1, <2>2, AddKept
    <2> QED BY <1>5, <2>3
  <1>6. CASE ~UNCHANGED <<plan_users, plan_groups>>
    <2>1. AddRows(p) /\ proc[p].mine = Rows(proc[p])
      BY <1>6 DEF Commit
    <2>2. /\ proc[p].op = "add_plan_groups" =>
                plan_groups' = plan_groups \cup proc[p].mine /\ DOMAIN plan_users' = DOMAIN plan_users
          /\ proc[p].op # "add_plan_groups" =>
                DOMAIN plan_users' = DOMAIN plan_users \cup proc[p].mine /\ plan_groups' = plan_groups
      <3>1. CASE proc[p].op = "add_plan_groups"
        BY <3>1, <2>1 DEF AddRows
      <3>2. CASE proc[p].op # "add_plan_groups"
        <4> DEFINE new == [r \in proc[p].mine |-> proc[p].began]
        <4>1. plan_users' = Over(new, plan_users) /\ plan_groups' = plan_groups
          BY <3>2, <2>1 DEF AddRows
        <4>2. DOMAIN new = proc[p].mine
          OBVIOUS
        <4> HIDE DEF new
        <4> QED BY <3>2, <4>1, <4>2 DEF Over
      <3> QED BY <3>1, <3>2
    <2>3. Admins' = Admins
      BY DEF Admins, Now
    <2>4. \A q \in Procs : Adding(q)' => q # p /\ Adding(q) /\ proc'[q] = proc[q]
      BY <1>3 DEF Shape, Adding, AtRest
    <2>5. ASSUME NEW q \in Procs, Adding(q)' PROVE Apart(q)'
      <3>1. q # p /\ Adding(q) /\ proc'[q] = proc[q] /\ Apart(q)
        BY <2>4, <2>5 DEF AddInv
      <3>2. proc[q].op = proc[p].op => proc[q].mine \cap proc[p].mine = {}
        BY <3>1, <1>2 DEF AddInv
      <3>3. proc[q].mine \cap Present(proc[q].op)' = {}
        <4>1. proc[q].op \in AddOps /\ proc[p].op \in AddOps /\ proc[q].mine \cap Present(proc[q].op) = {}
          BY <1>1, <3>1 DEF Adding, Apart
        <4> QED BY <3>1, <3>2, <2>2, <4>1 DEF Present, AddOps
      <3> QED BY <3>1, <3>3, <2>3, <1>4 DEF Apart
    <2>6. AddInv'
      BY <2>4, <2>5 DEF AddInv
    <2>7. (DOMAIN plan_users' \ DOMAIN plan_users) \cup (plan_groups' \ plan_groups) = proc[p].mine
      BY <1>2, <2>2 DEF Apart, Present
    <2> QED BY <1>1, <1>2, <2>1, <2>6, <2>7 DEF Apart
  <1> QED BY <1>5, <1>6

\* Every step keeps the transactions apart.
LEMMA AddStep ==
    ASSUME office \in DOMAIN Offices, Shape, AddInv, [PlansNext]_vars
    PROVE  AddInv'
  <1>0. office' = office
    BY OfficeStays
  <1>1. CASE UNCHANGED <<proc, tables>>
    BY <1>0, <1>1 DEF AddInv, Apart, Adding, Present, Admins, Now, tables, planTables
  <1>2. ASSUME UNCHANGED tables PROVE Held /\ Shrinks
    BY <1>2 DEF Held, Shrinks, tables, planTables
  <1>3. ASSUME NEW p \in Procs, Goes(p) \/ Breaks(p), ~Commit(p), ~InsertRow(p) PROVE AddInv'
    <2>1. PICK s : Advance(p, s)
      BY <1>3, GoesOn
    <2>2. Held /\ Shrinks
      BY <1>3, PlansHeld, RowsShrink
    <2>3. ASSUME "op" \in DOMAIN s, s.op \in AddOps
          PROVE  /\ Adding(p) /\ s.op = proc[p].op
                 /\ "mine" \in DOMAIN s /\ s.mine = proc[p].mine
                 /\ s.pc \notin Inserting => proc[p].pc \notin Inserting
                 /\ s.pc = "count" => s.plan \in DOMAIN plans'
      <3>1. /\ OnItsWay(proc[p]) /\ Onward(proc[p], s)
            /\ "mine" \in DOMAIN proc[p] => s.mine = proc[p].mine
            /\ proc[p].pc \in Inserting => s.pc \in Inserting
            /\ s.pc = "count" => InsertEnds(p)
        BY <1>3, <2>1, <2>3 DEF Advance, AtRest
      <3>2. "op" \in DOMAIN proc[p] /\ s.op = proc[p].op
        BY <3>1 DEF OnItsWay, Whole, Onward, Scratch
      <3>3. Adding(p) /\ Apart(p)
        BY <2>3, <3>2 DEF Adding, AddInv
      <3>4. "plan" \in DOMAIN proc[p] /\ s.plan = proc[p].plan
        <4>1. proc[p].op \in AddOps /\ RequestFields[proc[p].op] \subseteq DOMAIN proc[p]
          BY <3>1, <3>3 DEF OnItsWay, Whole, Adding, AddOps
        <4>2. "plan" \in RequestFields[proc[p].op]
          BY <4>1 DEF AddOps, RequestFields
        <4> QED BY <3>1, <4>1, <4>2 DEF Onward, Scratch
      <3>5. s.pc = "count" => proc[p].plan \in DOMAIN plans /\ plans' = plans
        <4>1. SUFFICES ASSUME s.pc = "count" PROVE proc[p].plan \in DOMAIN plans /\ plans' = plans
          OBVIOUS
        <4>2. InsertEnds(p)
          BY <3>1, <4>1
        <4>3. proc'[p] = s /\ s # Idle
          BY <2>1, <4>1 DEF Advance, Shape, Idle
        <4>4. ~Answer(p)
          BY <4>3 DEF Answer, Become, Shape
        <4> QED BY <4>2, <4>4 DEF InsertEnds, tables, planTables
      <3> QED BY <3>1, <3>2, <3>3, <3>4, <3>5 DEF Apart, Onward
    <2> QED BY <1>0, <2>1, <2>2, <2>3, AddKept DEF Advance
  <1>4. ASSUME NEW p \in Admins, NEW req \in Now("asks"), Begin(p, req) PROVE AddInv'
    <2> DEFINE s == Over(req, [pc |-> FirstStep(req.op), mine |-> {}, began |-> now])
    <2>1. p \in Procs /\ UNCHANGED tables /\ (UNCHANGED proc \/ proc' = [proc EXCEPT ![p] = s])
      BY <1>4, Roles DEF Begin, Become
    <2>2. OnItsWay(s) /\ s.pc \notin Inserting /\ "mine" \in DOMAIN s /\ s.mine = {}
      BY Begun
    <2> HIDE DEF s
    <2>3. CASE proc' = [proc EXCEPT ![p] = s]
      <3>1. Admins' = Admins /\ \A op : Present(op)' = Present(op)
        BY <1>0, <2>1 DEF Admins, Now, Present, tables, planTables
      <3>2. /\ proc'[p] = s
            /\ \A q \in Procs \ {p} : proc'[q] = proc[q]
        BY <2>1, <2>3 DEF Shape
      <3>3. Apart(p)'
        BY <2>2, <3>1, <3>2 DEF Apart, Inserting
      <3>4. ASSUME NEW q \in Procs \ {p}, Adding(q)' PROVE Apart(q)' /\ Adding(q)
        <4>1. Adding(q) /\ Apart(q)
          BY <3>2, <3>4 DEF Adding, AddInv
        <4> QED BY <2>1, <3>1, <3>2, <4>1 DEF Apart, Present, tables, planTables
      <3>5. ASSUME NEW q \in Procs, NEW o \in Procs, q # o, Adding(q)', Adding(o)', proc'[q].op = proc'[o].op
            PROVE  proc'[q].mine \cap proc'[o].mine = {}
        <4>1. CASE q = p \/ o = p
          BY <4>1, <2>2, <3>2
        <4>2. CASE q # p /\ o # p
          BY <4>2, <3>2, <3>4, <3>5 DEF AddInv
        <4> QED BY <4>1, <4>2
      <3> QED BY <3>3, <3>4, <3>5 DEF AddInv
    <2> QED BY <1>1, <2>1, <2>3
  <1>5. CASE Questions \/ WorkerTicks \/ Reload
    <2>1. UNCHANGED tables
      BY <1>5, OtherWrites
    <2>2. ASSUME NEW p \in Procs, NEW s, proc' = [proc EXCEPT ![p] = s],
                 AtRest(s) \/ (OnItsWay(s) /\ s.op = "sync_all")
          PROVE  AddInv'
      <3>1. ~("op" \in DOMAIN s /\ s.op \in AddOps)
        BY <2>2 DEF AtRest, AddOps
      <3> QED BY <1>0, <1>2, <2>1, <2>2, <3>1, AddKept
    <2> QED BY <1>1, <1>5, <2>1, <2>2, OwnSteps
  <1>6. CASE PeopleMove \/ HourPasses \/ UNCHANGED vars
    BY <1>1, <1>6 DEF PeopleMove, HourPasses, vars
  <1> QED BY <1>0, <1>3, <1>4, <1>5, <1>6, CommitApart, InsertApart, StepKinds, Roles

-----------------------------------------------------------------------------
(* What a user is told.                                                     *)

\* The foreign keys of the tables of plan members.
References ==
    /\ \A r \in DOMAIN plan_users : r[1] \in DOMAIN plans
    /\ \A r \in plan_groups : r[1] \in DOMAIN plans

\* Every step keeps the foreign keys.
LEMMA ReferencesStep ==
    ASSUME office \in DOMAIN Offices, Shape, AddInv, References, [PlansNext]_vars
    PROVE  References'
  <1>1. ASSUME DOMAIN plans \subseteq DOMAIN plans', Shrinks PROVE References'
    BY <1>1 DEF References, Shrinks
  <1>2. CASE UNCHANGED tables
    BY <1>2 DEF References, tables, planTables
  <1>3. ASSUME NEW p \in Procs, DeletePlan(p) PROVE References'
    <2> DEFINE S == {r \in DOMAIN plan_users : r[1] = proc[p].plan}
    <2>1. /\ plans' = Without(plans, {proc[p].plan}) /\ plan_users' = Without(plan_users, S)
          /\ plan_groups' = {r \in plan_groups : r[1] # proc[p].plan}
      BY <1>3 DEF DeletePlan
    <2>2. DOMAIN plans' = DOMAIN plans \ {proc[p].plan} /\ DOMAIN plan_users' = DOMAIN plan_users \ S
      BY <2>1 DEF Without, Pick
    <2> QED BY <2>1, <2>2 DEF References
  <1>4. ASSUME NEW p \in Procs, Commit(p) PROVE References'
    <2>1. CASE UNCHANGED <<plan_users, plan_groups>>
      BY <1>4, <2>1 DEF Commit, References
    <2>2. CASE ~UNCHANGED <<plan_users, plan_groups>>
      <3>1. AddRows(p) /\ proc[p].mine = Rows(proc[p]) /\ plans' = plans
        BY <1>4, <2>2 DEF Commit
      <3>2. proc[p].plan \in DOMAIN plans
        <4>1. OnItsWay(proc[p]) /\ proc[p].op \in AddOps /\ proc[p].pc = "count"
          BY <1>4, Stages DEF Commit, At, Resting
        <4>2. Apart(p)
          BY <4>1 DEF AddInv, Adding, OnItsWay, Whole
        <4> QED BY <4>1, <4>2 DEF Apart
      <3>3. \A r \in proc[p].mine : r[1] \in DOMAIN plans
        BY <3>1, <3>2 DEF Rows
      <3>4. CASE proc[p].op = "add_plan_groups"
        BY <3>1, <3>3, <3>4 DEF AddRows, References
      <3>5. CASE proc[p].op # "add_plan_groups"
        <4> DEFINE new == [r \in proc[p].mine |-> proc[p].began]
        <4>1. plan_users' = Over(new, plan_users) /\ plan_groups' = plan_groups
          BY <3>1, <3>5 DEF AddRows
        <4>2. DOMAIN new = proc[p].mine
          OBVIOUS
        <4> HIDE DEF new
        <4>3. DOMAIN plan_users' = DOMAIN plan_users \cup proc[p].mine
          BY <4>1, <4>2 DEF Over
        <4> QED BY <3>1, <3>3, <4>1, <4>3 DEF References
      <3> QED BY <3>4, <3>5
    <2> QED BY <2>1, <2>2
  <1>5. ASSUME NEW p \in Procs, Goes(p) \/ Breaks(p), ~DeletePlan(p), ~Commit(p) PROVE References'
    <2>1. Shrinks
      BY <1>5, RowsShrink
    <2>2. DOMAIN plans \subseteq DOMAIN plans'
      <3>1. CASE UNCHANGED plans
        BY <3>1
      <3>2. CASE CreatePlan(p) /\ ~UNCHANGED plans
        <4>1. PICK one : plans' = Over(one, plans)
          BY <3>2 DEF CreatePlan
        <4> QED BY <4>1 DEF Over
      <3>3. CASE UpdatePlan(p) /\ ~UNCHANGED plans
        <4>1. PICK id, row : plans' = [plans EXCEPT ![id] = row]
          BY <3>3 DEF UpdatePlan
        <4> QED BY <4>1
      <3> QED BY <1>5, <3>1, <3>2, <3>3, WritesTo
    <2> QED BY <2>1, <2>2, <1>1
  <1> QED BY <1>2, <1>3, <1>4, <1>5, StepKinds, OtherWrites, Roles

\* Somebody with plans for whom the database finds none in effect has one that
\* is not in effect: of plans that apply one is chosen.
LEMMA SomeInactive ==
    ASSUME PlanRows, References, NEW u, NEW time, NEW model,
           \E m \in Memberships(u) : ScopeParses(m[2].scope), Resolve(FromDatabase(u), time, model) = {}
    PROVE  \E m \in Memberships(u) : Inactive(m[2], time, model)
  <1> SUFFICES ASSUME \A m \in Memberships(u) : ~Inactive(m[2], time, model) PROVE FALSE
    OBVIOUS
  <1> DEFINE candidates == FromDatabase(u)
             applying == {rt \in candidates : Applies(rt, time, model)}
             A == {q \in DOMAIN plans : \E rt \in applying : rt.plan = q}
             special(q) == IF model = NoModel THEN 0 ELSE Specificity(plans[q].scope)
             rank(q) == <<special(q), plans[q].priority, q>>
  <1>1. ASSUME NEW rt \in candidates PROVE rt.plan \in DOMAIN plans /\ rt.rec = plans[rt.plan]
    <2>1. CASE rt \in ByGroup(u)
      <3>1. PICK m \in plan_groups : rt = [plan |-> m[1], rec |-> plans[m[1]], since |-> members[<<m[2], u>>].since]
        BY <2>1 DEF ByGroup
      <3> QED BY <3>1 DEF References
    <2>2. CASE rt \in Direct(u)
      <3>1. PICK r \in DOMAIN plan_users : rt = [plan |-> r[1], rec |-> plans[r[1]], since |-> plan_users[r]]
        BY <2>2 DEF Direct
      <3> QED BY <3>1 DEF References
    <2> QED BY <2>1, <2>2 DEF FromDatabase
  <1>2. \E rt \in candidates : Applies(rt, time, model)
    <2>1. PICK m \in Memberships(u) : ScopeParses(m[2].scope)
      OBVIOUS
    <2>2. PICK q \in DOMAIN plans :
                /\ m = <<q, plans[q]>>
                /\ \/ <<q, u>> \in DOMAIN plan_users
                   \/ \E g \in DOMAIN groups : <<q, g>> \in plan_groups /\ <<g, u>> \in DOMAIN members
      BY <2>1 DEF Memberships
    <2>3. ~Inactive(plans[q], time, model) /\ ScopeParses(plans[q].scope)
      BY <2>1, <2>2
    <2>4. /\ Loads(plans[q]) /\ InWindow(plans[q].window, time)
          /\ model # NoModel => MatchesScope(plans[q].scope, model)
      BY <2>3 DEF Inactive, Loads
    <2>5. \E rt \in candidates : rt.rec = plans[q]
      <3>1. CASE <<q, u>> \in DOMAIN plan_users
        <4> DEFINE r == <<q, u>>
        <4>1. r[1] = q /\ r[2] = u /\ r \in DOMAIN plan_users
          BY <3>1
        <4> HIDE DEF r
        <4>2. [plan |-> r[1], rec |-> plans[r[1]], since |-> plan_users[r]] \in Direct(u)
          BY <4>1, <2>4 DEF Direct
        <4> QED BY <4>1, <4>2 DEF FromDatabase
      <3>2. ASSUME NEW g \in DOMAIN groups, <<q, g>> \in plan_groups, <<g, u>> \in DOMAIN members
            PROVE  \E rt \in candidates : rt.rec = plans[q]
        <4> DEFINE r == <<q, g>>
        <4>1. r[1] = q /\ r[2] = g /\ r \in plan_groups
          BY <3>2
        <4> HIDE DEF r
        <4>2. [plan |-> r[1], rec |-> plans[r[1]], since |-> members[<<r[2], u>>].since] \in ByGroup(u)
          BY <4>1, <2>4, <3>2 DEF ByGroup
        <4> QED BY <4>1, <4>2 DEF FromDatabase
      <3> QED BY <2>2, <3>1, <3>2
    <2> QED BY <2>4, <2>5 DEF Applies
  <1> HIDE DEF candidates
  <1>3. A # {} /\ IsFiniteSet(A)
    BY <1>1, <1>2, FS_Subset DEF PlanRows
  <1>4. \A q \in A : special(q) \in Int /\ plans[q].priority \in Int /\ q \in Int
    BY DEF Specificity, PlanRows
  <1>5. \A rt \in applying : Rank(rt, model) = rank(rt.plan)
    BY <1>1 DEF Rank
  <1> HIDE DEF special
  <1> DEFINE R == {w \in A \X A : Outranks(rank(w[1]), rank(w[2]))}
  <1>6. \A x, y \in A : <<x, y>> \in R <=> Outranks(rank(x), rank(y))
    OBVIOUS
  <1>7. /\ \A x \in A : ~Outranks(rank(x), rank(x))
        /\ \A x, y, z \in A : Outranks(rank(x), rank(y)) /\ Outranks(rank(y), rank(z)) => Outranks(rank(x), rank(z))
    BY <1>4 DEF Outranks
  <1> HIDE DEF R
  <1>8. PICK x \in A : \A y \in A : ~Outranks(rank(y), rank(x))
    <2> HIDE DEF A, rank
    <2>1. PICK x \in A : \A y \in A : <<y, x>> \notin R
      BY <1>3, <1>6, <1>7, Unbeaten
    <2> QED BY <2>1, <1>6
  <1>9. PICK rt \in applying : rt.plan = x
    OBVIOUS
  <1>10. \A o \in applying : ~Outranks(Rank(o, model), Rank(rt, model))
    <2> HIDE DEF rank
    <2>1. \A o \in applying : o.plan \in A
      BY <1>1
    <2> QED BY <2>1, <1>5, <1>8, <1>9
  <1>11. rt \in Resolve(candidates, time, model)
    BY <1>10 DEF Resolve
  <1> QED BY <1>11 DEF candidates

Asking == {"user", "model", "time", "saw"} \subseteq DOMAIN proc[Reader]

\* Whoever was a member of a plan with a readable scope all the time and is now
\* asked why has a plan that is not in effect.
Readable(plansOf) == \E m \in plansOf : ScopeParses(m[2].scope)

ReaderInv ==
    /\ At(Reader, "ask_database") => Asking
    /\ At(Reader, "why") => LET r == proc[Reader]
                             IN  /\ Asking
                                 /\ Readable(r.saw) => \E m \in r.saw : Inactive(m[2], r.time, r.model)

\* Every step keeps the reader's knowledge and his answer honest.
LEMMA ReaderStep ==
    ASSUME office \in DOMAIN Offices, Shape, PlanRows, References, ReaderInv, MyPlanHonest, [PlansNext]_vars
    PROVE  ReaderInv' /\ MyPlanHonest'
  <1> DEFINE r == proc[Reader]
  <1>0. Reader \in Procs /\ DOMAIN proc = Procs
    BY Roles DEF Shape
  <1>1. ASSUME proc'[Reader] = r, told' = told PROVE ReaderInv' /\ MyPlanHonest'
    BY <1>1 DEF ReaderInv, Asking, At, MyPlanHonest
  <1>9. ASSUME proc'[Reader] = Idle PROVE ReaderInv'
    <2>1. proc'[Reader].pc = "idle"
      BY <1>9 DEF Idle
    <2> QED BY <2>1 DEF ReaderInv, At
  <1>2. ASSUME NEW p \in Procs, p # Reader, Goes(p) \/ Breaks(p) PROVE ReaderInv' /\ MyPlanHonest'
    <2>1. PICK s : proc' = [proc EXCEPT ![p] = s]
      BY <1>2, GoesOn DEF Advance
    <2>2. told' = told
      BY <1>2 DEF Goes, Breaks, Adds, Writes, Joins, Syncs, StartJoin, JoinRow, DeadlockAborts,
        FindPlan, FindGroup, Missing,
        Precheck, InsertRow, InsertEnds, Commit, CreatePlan, UpdatePlan, DeletePlan, RemovePlanUsers,
        RemovePlanGroups, CreateGroup, UpdateGroup, DeleteGroup, AddMembers, AddAll, AddAs, RemoveMembers,
        Load, LoadFails, Apply, Lock, List, ListFails, Upsert, UpsertFails, Reconcile, Cancel
    <2>3. proc'[Reader] = r
      BY <1>0, <1>2, <2>1
    <2> QED BY <2>2, <2>3, <1>1
  <1>3. ASSUME NEW p \in Admins, NEW req, Begin(p, req) PROVE ReaderInv' /\ MyPlanHonest'
    <2>1. p # Reader /\ told' = told /\ (UNCHANGED proc \/ \E s : proc' = [proc EXCEPT ![p] = s])
      BY <1>3, Roles DEF Begin, Become
    <2> QED BY <1>0, <1>1, <2>1
  <1>4. CASE WorkerTicks \/ Reload
    <2>1. PICK p \in {Worker, Reloader} : (\E s : proc' = [proc EXCEPT ![p] = s]) /\ told' = told
      BY <1>4 DEF WorkerTicks, Reload, Become
    <2>2. p # Reader
      BY Roles
    <2>3. proc'[Reader] = r
      BY <1>0, <2>1, <2>2
    <2> QED BY <1>1, <2>1, <2>3
  <1>5. CASE PeopleMove \/ HourPasses \/ UNCHANGED vars
    BY <1>1, <1>5 DEF PeopleMove, HourPasses, vars
  <1>6. ASSUME NEW u, NEW m, MyPlan(u, m) PROVE ReaderInv' /\ MyPlanHonest'
    <2>1. CASE Tell("plan", {}) /\ UNCHANGED proc
      BY <2>1 DEF Tell, MyPlanHonest, ReaderInv, Asking, At
    <2>2. CASE UNCHANGED told /\ proc' = [proc EXCEPT ![Reader] =
                    [pc |-> "ask_database", user |-> u, model |-> m, time |-> LocalTime(now), saw |-> Memberships(u)]]
      <3> DEFINE s == [pc |-> "ask_database", user |-> u, model |-> m, time |-> LocalTime(now), saw |-> Memberships(u)]
      <3>1. {"user", "model", "time", "saw"} \subseteq DOMAIN s /\ s.pc = "ask_database"
        OBVIOUS
      <3>2. proc'[Reader] = s
        BY <1>0, <2>2
      <3> HIDE DEF s
      <3> QED BY <2>2, <3>1, <3>2 DEF MyPlanHonest, ReaderInv, Asking, At
    <2> QED BY <1>6, <2>1, <2>2 DEF MyPlan, Become
  <1>7. CASE AskDatabase
    <2>0. /\ r.pc = "ask_database" /\ {"user", "model", "time", "saw"} \subseteq DOMAIN r
          /\ "pc" \in DOMAIN r
      BY <1>0, <1>7 DEF AskDatabase, ReaderInv, Asking, At, Shape, AtRest, OnItsWay
    <2>1. CASE Tell("plan", {}) /\ Answer(Reader)
      <3>1. proc'[Reader] = Idle
        BY <1>0, <2>1 DEF Answer, Become
      <3>2. told' = [answer |-> "plan", steady |-> {}]
        BY <2>1 DEF Tell
      <3>3. MyPlanHonest'
        BY <3>2 DEF MyPlanHonest
      <3> QED BY <1>9, <3>1, <3>3
    <2>2. CASE ~(Tell("plan", {}) /\ Answer(Reader))
      <3> DEFINE s == [r EXCEPT !.pc = "why", !.saw = IF @ = Memberships(r.user) THEN @ ELSE {}]
      <3>1. /\ Resolve(FromDatabase(r.user), r.time, r.model) = {} /\ told' = told
            /\ proc' = [proc EXCEPT ![Reader] = s]
        BY <1>7, <2>2 DEF AskDatabase, Become
      <3>2. /\ {"user", "model", "time", "saw"} \subseteq DOMAIN s /\ s.pc = "why"
            /\ s.user = r.user /\ s.time = r.time /\ s.model = r.model
            /\ s.saw # {} => s.saw = Memberships(r.user)
        BY <2>0
      <3>3. proc'[Reader] = s
        BY <1>0, <3>1
      <3> HIDE DEF s
      <3>4. Readable(s.saw) => \E m \in s.saw : Inactive(m[2], s.time, s.model)
        <4>1. SUFFICES ASSUME Readable(s.saw) PROVE \E m \in s.saw : Inactive(m[2], s.time, s.model)
          OBVIOUS
        <4>2. s.saw = Memberships(r.user) /\ \E m \in Memberships(r.user) : ScopeParses(m[2].scope)
          BY <3>2, <4>1 DEF Readable
        <4>3. \E m \in Memberships(r.user) : Inactive(m[2], r.time, r.model)
          BY <3>1, <4>2, SomeInactive
        <4> QED BY <3>2, <4>2, <4>3
      <3> QED BY <3>1, <3>2, <3>3, <3>4 DEF MyPlanHonest, ReaderInv, Asking, At
    <2> QED BY <2>1, <2>2
  <1>8. CASE Why
    <2>1. Readable(r.saw) => \E m \in r.saw : Inactive(m[2], r.time, r.model)
      BY <1>8 DEF Why, ReaderInv
    <2> DEFINE some == \E m \in Memberships(r.user) : Inactive(m[2], r.time, r.model)
    <2>2. told' = [answer |-> IF some THEN "inactive" ELSE "no plan",
                   steady |-> IF r.saw = Memberships(r.user) THEN r.saw ELSE {}]
      BY <1>8 DEF Why, Tell
    <2>3. r.saw = Memberships(r.user) /\ Readable(r.saw) => some
      BY <2>1
    <2> HIDE DEF some
    <2>4. Readable(told'.steady) => told'.answer # "no plan"
      <3>1. ~Readable({})
        BY DEF Readable
      <3> QED BY <2>2, <2>3, <3>1
    <2>5. proc'[Reader] = Idle
      BY <1>0, <1>8 DEF Why, Answer, Become
    <2>6. MyPlanHonest'
      BY <2>4 DEF MyPlanHonest, Readable
    <2> QED BY <1>9, <2>5, <2>6
  <1> QED BY <1>2, <1>3, <1>4, <1>5, <1>6, <1>7, <1>8, StepKinds, Roles DEF Questions

-----------------------------------------------------------------------------
(* Division.                                                                *)

\* Whole numbers times a step keep their order.
LEMMA Times ==
    ASSUME NEW n \in Nat, NEW x \in Int, NEW y \in Int, x <= y
    PROVE  x * n <= y * n /\ x * n \in Int /\ (y + 1) * n = y * n + n
  <1>1. (y - x) * n >= 0 /\ (y - x) * n = y * n - x * n
    OBVIOUS
  <1> QED BY <1>1

\* The multiples of n cut the numbers into stretches of n.
LEMMA Stretch ==
    ASSUME NEW n \in Nat \ {0}, NEW a \in Nat
    PROVE  /\ a \div n \in Nat
           /\ (a \div n) * n \in Int /\ (a \div n) * n <= a /\ a < (a \div n) * n + n
           /\ a - (a % n) = (a \div n) * n
  <1>1. a \div n \in Int /\ a % n \in 0..(n - 1) /\ a = n * (a \div n) + (a % n)
    OBVIOUS
  <1>2. n * (a \div n) = (a \div n) * n /\ (a \div n) * n \in Int
    BY <1>1
  <1>3. a \div n >= 0
    OBVIOUS
  <1> QED BY <1>1, <1>2, <1>3

\* The next number is in the same stretch or begins the next one.
LEMMA NextStretch ==
    ASSUME NEW n \in Nat \ {0}, NEW a \in Nat
    PROVE  ((a + 1) \div n) * n \in {(a \div n) * n, (a \div n) * n + n}
  <1> DEFINE q == a \div n
             s == (a + 1) \div n
  <1>1. /\ q \in Int /\ q * n \in Int /\ q * n <= a /\ a < q * n + n
        /\ s \in Int /\ s * n \in Int /\ s * n <= a + 1 /\ a + 1 < s * n + n
    BY Stretch
  <1> HIDE DEF q, s
  <1>2. ~(s + 1 <= q)
    BY <1>1, Times
  <1>3. ~(q + 1 + 1 <= s)
    <2>1. ASSUME q + 1 + 1 <= s PROVE FALSE
      <3>1. (q + 1 + 1) * n <= s * n
        BY <1>1, <2>1, Times
      <3>2. (q + 1 + 1) * n = q * n + n + n
        BY <1>1, Times
      <3> QED BY <1>1, <3>1, <3>2
    <2> QED BY <2>1
  <1>4. s = q \/ s = q + 1
    BY <1>1, <1>2, <1>3
  <1>5. (q + 1) * n = q * n + n
    BY <1>1, Times
  <1> QED BY <1>4, <1>5 DEF q, s

-----------------------------------------------------------------------------
(* Periods.                                                                 *)

\* A plan's period and length as the database holds them.
Rule(rec) == /\ {"period", "hours"} \subseteq DOMAIN rec
             /\ rec.period \in Periods /\ rec.hours \in Nat \ {0}

\* The month of an hour begins at or before it and ends after it, and the next
\* hour is in the same month or is the first of the next.
LEMMA Months ==
    ASSUME NEW t \in Nat, \E m \in MonthStarts : m > t
    PROVE  LET end == Min({m \in MonthStarts : m > t})
           IN  /\ MonthStart(t) \in Int /\ MonthStart(t) <= t /\ end \in Int /\ t < end
               /\ MonthStart(t + 1) \in {MonthStart(t), end}
  <1> DEFINE Before(h) == {m \in MonthStarts : m <= h}
             After == {m \in MonthStarts : m > t}
             end == Min(After)
  <1>1. (\A m \in MonthStarts : m \in Nat) /\ 0 \in MonthStarts
    BY PlanRulesAssumption
  <1>2. ASSUME NEW h \in Nat
        PROVE  Max(Before(h)) \in Before(h)
    <2>1. \A m \in Before(h) : m \in 0..h
      BY <1>1
    <2>2. 0 \in Before(h)
      BY <1>1
    <2> HIDE DEF Before
    <2>3. Before(h) \in SUBSET (0..h) /\ Before(h) \subseteq Int
      BY <2>1
    <2>4. IsFiniteSet(0..h)
      BY FS_Interval
    <2>5. IsFiniteSet(Before(h))
      BY <2>3, <2>4, FS_Subset
    <2> QED BY <2>2, <2>3, <2>5, Greatest
  <1>3. end \in After /\ \A m \in After : end <= m
    <2>1. \E x \in After : \A y \in After : x <= y
      BY <1>1, LeastNumber
    <2> HIDE DEF After
    <2> QED BY <2>1, Zenon DEF Min
  <1>4. MonthStart(t) = Max(Before(t)) /\ MonthStart(t + 1) = Max(Before(t + 1))
    BY DEF MonthStart
  <1>5. MonthStart(t) \in Int /\ MonthStart(t) <= t /\ end \in Int /\ t < end
    <2>1. Max(Before(t)) \in Before(t)
      BY <1>2
    <2> QED BY <1>1, <1>3, <1>4, <2>1
  <1>6. CASE t + 1 \in MonthStarts
    <2>1. t + 1 \in After
      BY <1>6
    <2>2. end = t + 1
      <3>1. end \in Nat /\ end > t /\ end <= t + 1
        BY <1>1, <1>3, <2>1
      <3> QED BY <3>1
    <2>3. Max(Before(t + 1)) = t + 1
      <3>1. t + 1 \in Before(t + 1) /\ \A m \in Before(t + 1) : t + 1 >= m
        BY <1>1, <1>6
      <3>2. ASSUME NEW x \in Before(t + 1), \A y \in Before(t + 1) : x >= y PROVE x = t + 1
        BY <1>1, <3>1, <3>2
      <3> HIDE DEF Before
      <3> QED BY <3>1, <3>2, Zenon DEF Max
    <2> QED BY <1>4, <1>5, <2>2, <2>3
  <1>7. CASE t + 1 \notin MonthStarts
    <2>1. \A m \in MonthStarts : m <= t + 1 <=> m <= t
      <3>1. ASSUME NEW m \in MonthStarts PROVE m <= t + 1 <=> m <= t
        <4>1. m \in Nat /\ m # t + 1
          BY <1>1, <1>7
        <4> QED BY <4>1
      <3> QED BY <3>1
    <2>2. Before(t + 1) = Before(t)
      BY <2>1
    <2> QED BY <1>4, <1>5, <2>2
  <1> QED BY <1>6, <1>7

\* A member's hour is in its period, and the next hour is in the same period or
\* begins the next.
LEMMA Tiles ==
    ASSUME NEW rt, NEW t \in Nat, Rule(rt.rec), rt.since \in Int, rt.since <= t,
           \E m \in MonthStarts : m > t
    PROVE  /\ PeriodHolds(rt, t)
           /\ PeriodStart(rt, t + 1) \in {PeriodStart(rt, t), PeriodEnd(rt, t)}
  <1> DEFINE rec == rt.rec
  <1>0. HoursPerDay \in Nat \ {0}
    BY PlanRulesAssumption
  <1>1. CASE rec.period = "daily"
    <2>1. \A h \in Nat : PeriodStart(rt, h) = (h \div HoursPerDay) * HoursPerDay
      BY <1>0, <1>1, Stretch DEF PeriodStart, LocalTime
    <2>2. PeriodEnd(rt, t) = PeriodStart(rt, t) + HoursPerDay
      BY <1>1 DEF PeriodEnd
    <2>4. PeriodHolds(rt, t)
      BY <1>0, <2>1, <2>2, Stretch DEF PeriodHolds
    <2>5. PeriodStart(rt, t + 1) = ((t + 1) \div HoursPerDay) * HoursPerDay
      BY <2>1
    <2> QED BY <1>0, <2>1, <2>2, <2>4, <2>5, NextStretch
  <1>2. CASE rec.period = "monthly"
    <2>1. /\ \A h : PeriodStart(rt, h) = MonthStart(h)
          /\ PeriodEnd(rt, t) = Min({m \in MonthStarts : m > t})
      BY <1>2 DEF PeriodStart, PeriodEnd
    <2> QED BY <2>1, Months DEF PeriodHolds
  <1>3. CASE rec.period = "hourly"
    <2> DEFINE anchor == IF rec.anchor = "join" THEN rt.since ELSE 0
               n == rec.hours
    <2>1. n \in Nat \ {0} /\ anchor \in Int /\ anchor <= t
      BY DEF Rule
    <2>2. Step(rec) = n
      <3>1. {n, 1} \subseteq Int /\ n >= 1
        BY <2>1
      <3>2. \A x \in {n, 1} : (\A y \in {n, 1} : x >= y) => x = n
        BY <3>1
      <3>3. n \in {n, 1} /\ \A y \in {n, 1} : n >= y
        BY <3>1
      <3>4. Max({n, 1}) = n
        BY <3>2, <3>3, Zenon DEF Max
      <3> QED BY <3>4 DEF Step
    <2>3. ASSUME NEW h \in Nat, h >= t
          PROVE  PeriodStart(rt, h) = anchor + ((h - anchor) \div n) * n
      <3>1. Max({h - anchor, 0}) = h - anchor
        <4>1. h - anchor \in Int /\ h - anchor >= 0
          BY <2>1, <2>3
        <4>2. \A x \in {h - anchor, 0} : (\A y \in {h - anchor, 0} : x >= y) => x = h - anchor
          BY <4>1
        <4>3. \A y \in {h - anchor, 0} : h - anchor >= y
          BY <4>1
        <4> HIDE DEF anchor
        <4> QED BY <4>2, <4>3, Zenon DEF Max
      <3> QED BY <1>3, <2>2, <3>1 DEF PeriodStart
    <2>4. PeriodEnd(rt, t) = PeriodStart(rt, t) + n
      BY <1>3, <2>2 DEF PeriodEnd
    <2> DEFINE a == t - anchor
    <2>5. a \in Nat /\ t + 1 - anchor = a + 1 /\ t = anchor + a
      BY <2>1
    <2>6. PeriodStart(rt, t) = anchor + (a \div n) * n /\ PeriodStart(rt, t + 1) = anchor + ((a + 1) \div n) * n
      BY <2>3, <2>5
    <2> HIDE DEF anchor, n, a
    <2>7. /\ (a \div n) * n \in Int /\ (a \div n) * n <= a /\ a < (a \div n) * n + n
          /\ ((a + 1) \div n) * n \in {(a \div n) * n, (a \div n) * n + n}
      BY <2>1, <2>5, Stretch, NextStretch
    <2>8. PeriodStart(rt, t) <= t /\ t - n < PeriodStart(rt, t) /\ t < PeriodStart(rt, t) + n
      BY <2>1, <2>5, <2>6, <2>7
    <2>10. PeriodStart(rt, t + 1) \in {PeriodStart(rt, t), PeriodStart(rt, t) + n}
      BY <2>1, <2>6, <2>7
    <2> QED BY <2>4, <2>8, <2>10 DEF PeriodHolds
  <1>4. CASE rec.period = "total"
    BY <1>4 DEF PeriodStart, PeriodEnd, PeriodHolds
  <1> QED BY <1>1, <1>2, <1>3, <1>4 DEF Rule, Periods

-----------------------------------------------------------------------------
(* What the periods are computed from.                                      *)

\* A date that has been at time t, and a member's plan in memory then.
Past(x, t) == x \in Int /\ x <= t
Sound(rt, t) == Rule(rt.rec) /\ Past(rt.since, t)
AllSound(copy, t) == \A u \in Users : \A rt \in copy[u] : Sound(rt, t)

\* What a handler has checked before it writes.
Checked(r) ==
    /\ r.pc = "write" /\ r.op = "create_plan" => ValidPeriod(r.fields)
    /\ r.pc = "write" /\ r.op = "update_plan" =>
            Rule(r.before) /\ ValidPeriod(Over(r.patch, r.before))

Clock == now \in Nat /\ now <= Now("ticks")
Rules == \A id \in DOMAIN plans : Rule(plans[id])
Dates == /\ \A r \in DOMAIN plan_users : Past(plan_users[r], now)
         /\ \A m \in DOMAIN members : Past(members[m].since, now)
Copies == /\ AllSound(runtimes, now)
          /\ \A p \in Procs : At(p, "apply") => AllSound(proc[p].snap, now)
Checks == \A p \in Procs : Checked(proc[p])

\* What a handler is going to insert is dated at a time that has been.
Started == \A p \in Procs : OnItsWay(proc[p]) => Past(proc[p].began, now)

PeriodsInv == Clock /\ Rules /\ Dates /\ Started /\ Copies /\ Checks

\* What a reload reads.
LEMMA LoadSound ==
    ASSUME References, Rules, Dates
    PROVE  AllSound(LoadRuntimes, now)
  <1>1. ASSUME NEW u \in Users, NEW rt \in ByGroup(u) PROVE Sound(rt, now)
    <2>1. PICK m \in {pg \in plan_groups : <<pg[2], u>> \in DOMAIN members /\ Loads(plans[pg[1]])} :
                rt = [plan |-> m[1], rec |-> plans[m[1]], since |-> members[<<m[2], u>>].since]
      BY <1>1 DEF ByGroup
    <2>2. m[1] \in DOMAIN plans /\ <<m[2], u>> \in DOMAIN members
      BY <2>1 DEF References
    <2> QED BY <2>1, <2>2 DEF Sound, Rules, Dates
  <1>2. ASSUME NEW u \in Users, NEW rt \in Direct(u) PROVE Sound(rt, now)
    <2>1. PICK r \in {pu \in DOMAIN plan_users : pu[2] = u /\ Loads(plans[pu[1]])} :
                rt = [plan |-> r[1], rec |-> plans[r[1]], since |-> plan_users[r]]
      BY <1>2 DEF Direct
    <2>2. r[1] \in DOMAIN plans /\ r \in DOMAIN plan_users
      BY <2>1 DEF References
    <2> QED BY <2>1, <2>2 DEF Sound, Rules, Dates
  <1> QED BY <1>1, <1>2 DEF LoadRuntimes, AllSound

\* Only the clock moves the clock.
LEMMA ClockStep ==
    ASSUME office \in DOMAIN Offices, Clock, office' = office, [PlansNext]_vars
    PROVE  /\ Clock' /\ (now' = now \/ now' = now + 1)
           /\ \A x : Past(x, now) => Past(x, now')
           /\ \A c : AllSound(c, now) => AllSound(c, now')
  <1>1. ASSUME NEW p, Goes(p) \/ Breaks(p) PROVE now' = now
    BY <1>1 DEF Goes, Breaks, Adds, Writes, Joins, Syncs, StartJoin, JoinRow, DeadlockAborts,
        envVars, FaultsSame, FindPlan, FindGroup, Missing,
        Precheck, InsertRow, InsertEnds, Commit, CreatePlan, UpdatePlan, DeletePlan, RemovePlanUsers,
        RemovePlanGroups, CreateGroup, UpdateGroup, DeleteGroup, AddMembers, AddAll, AddAs, RemoveMembers,
        Load, LoadFails, Apply, Lock, List, ListFails, Upsert, UpsertFails, Reconcile, Cancel
  <1>2. ASSUME NEW p, NEW req, Begin(p, req) PROVE now' = now
    BY <1>2 DEF Begin
  <1>3. Questions \/ WorkerTicks \/ Reload \/ PeopleMove \/ UNCHANGED vars => now' = now
    BY DEF Questions, MyPlan, AskDatabase, Why, WorkerTicks, Reload, PeopleMove, vars, envVars
  <1>4. now' = now \/ HourPasses
    BY <1>1, <1>2, <1>3, StepKinds
  <1>5. Now("ticks") \in Nat
    BY ClockAssumption DEF Now
  <1>6. now \in Nat /\ Clock' /\ (now' = now \/ now' = now + 1)
    BY <1>4, <1>5 DEF HourPasses, Clock, Now
  <1>7. \A x : Past(x, now) => Past(x, now')
    BY <1>6 DEF Past
  <1>8. \A c : AllSound(c, now) => AllSound(c, now')
    BY <1>7 DEF Sound, AllSound
  <1> QED BY <1>6, <1>7, <1>8

\* A transaction begins at a time that has been.
LEMMA StartedStep ==
    ASSUME office \in DOMAIN Offices, Shape, Clock, Started, office' = office, [PlansNext]_vars
    PROVE  Started'
  <1>1. Past(now, now') /\ \A x : Past(x, now) => Past(x, now')
    BY ClockStep DEF Past, Clock
  <1>2. CASE UNCHANGED proc
    BY <1>1, <1>2 DEF Started
  <1>3. ASSUME NEW p \in Procs, NEW s, proc' = [proc EXCEPT ![p] = s], OnItsWay(s) => Past(s.began, now')
        PROVE  Started'
    BY <1>1, <1>3 DEF Started, Shape
  <1>4. ASSUME NEW p \in Procs, Goes(p) \/ Breaks(p) PROVE Started'
    <2>1. PICK s : Advance(p, s)
      BY <1>4, GoesOn
    <2>2. ASSUME OnItsWay(s) PROVE Past(s.began, now')
      <3>1. OnItsWay(proc[p]) /\ s.began \in {proc[p].began, now}
        BY <2>1, <2>2 DEF Advance, AtRest, OnItsWay, Whole
      <3> QED BY <1>1, <3>1 DEF Started
    <2> QED BY <1>3, <2>1, <2>2 DEF Advance
  <1>5. ASSUME NEW p \in Procs, NEW req \in Now("asks"), Begin(p, req) PROVE Started'
    <2> DEFINE s == Over(req, [pc |-> FirstStep(req.op), mine |-> {}, began |-> now])
    <2>1. UNCHANGED proc \/ proc' = [proc EXCEPT ![p] = s]
      BY <1>5 DEF Begin, Become
    <2>2. s.began = now
      BY Begun
    <2> HIDE DEF s
    <2> QED BY <1>1, <1>2, <1>3, <2>1, <2>2
  <1>6. CASE Questions \/ WorkerTicks \/ Reload
    <2>1. ASSUME NEW s, AtRest(s) \/ (OnItsWay(s) /\ s.op = "sync_all" /\ s.began = now)
          PROVE  OnItsWay(s) => Past(s.began, now')
      BY <1>1, <2>1 DEF AtRest, OnItsWay, Whole
    <2> QED BY <1>2, <1>3, <1>6, <2>1, OwnSteps
  <1>7. CASE PeopleMove \/ HourPasses \/ UNCHANGED vars
    BY <1>2, <1>7 DEF PeopleMove, HourPasses, vars
  <1> QED BY <1>4, <1>5, <1>6, <1>7, StepKinds, Roles

\* Rows are dated at the start of their transaction and keep their dates.
LEMMA DatesStep ==
    ASSUME office \in DOMAIN Offices, Shape, Clock, Dates, Started, office' = office, [PlansNext]_vars
    PROVE  Dates'
  <1>0. \A x : Past(x, now) => Past(x, now')
    BY ClockStep
  <1>1. /\ \A r \in DOMAIN plan_users : Past(plan_users[r], now')
        /\ \A m \in DOMAIN members : Past(members[m].since, now')
    BY <1>0 DEF Dates
  <1>2. ASSUME NEW date, Past(date, now),
               \A r \in DOMAIN plan_users' : \/ r \in DOMAIN plan_users /\ plan_users'[r] = plan_users[r]
                                             \/ plan_users'[r] = date,
               \A m \in DOMAIN members' : \/ m \in DOMAIN members /\ members'[m] = members[m]
                                          \/ members'[m].since = date
        PROVE  Dates'
    BY <1>0, <1>1, <1>2 DEF Dates
  <1>3. CASE UNCHANGED <<plan_users, members>>
    BY <1>1, <1>3 DEF Dates
  <1>4. ASSUME NEW p, Goes(p) \/ Breaks(p)
        PROVE  \/ UNCHANGED plan_users
               \/ \E S : plan_users' = Without(plan_users, S)
               \/ At(p, "count") /\ plan_users' = Over([r \in proc[p].mine |-> proc[p].began], plan_users)
    BY <1>4, WritesTo DEF Commit, AddRows, DeletePlan, RemovePlanUsers, RemovePlanGroups, DeleteGroup
  <1>5. ASSUME NEW p, Goes(p) \/ Breaks(p)
        PROVE  \/ UNCHANGED members
               \/ \E S : members' = Without(members, S)
               \/ At(p, "join") /\ \E source : members' = Joined(p, source)
               \/ At(p, "join") /\ members' = Reconciled(p)
    BY <1>5 DEF Goes, Breaks, Adds, Writes, Joins, Syncs, StartJoin, JoinRow, DeadlockAborts,
        FindPlan, FindGroup, Missing, Precheck, InsertRow, InsertEnds,
        Commit, CreatePlan, UpdatePlan, DeletePlan, RemovePlanUsers, RemovePlanGroups, CreateGroup, UpdateGroup,
        DeleteGroup, AddMembers, AddAll, AddAs, RemoveMembers, Load, LoadFails, Apply, Lock, List, ListFails,
        Upsert, UpsertFails, Reconcile, HasJoined, Asked, Cancel, tables, planTables, groupTables
  <1>6. ASSUME NEW f, NEW S, NEW k \in DOMAIN Without(f, S)
        PROVE  k \in DOMAIN f /\ Without(f, S)[k] = f[k]
    BY <1>6 DEF Without, Pick
  <1>7. ASSUME NEW p, NEW source, NEW k \in DOMAIN Joined(p, source)
        PROVE  \/ k \in DOMAIN members /\ Joined(p, source)[k] = members[k]
               \/ Joined(p, source)[k].since = proc[p].began
    BY <1>7 DEF Joined, Over
  <1>8. ASSUME NEW p, NEW k \in DOMAIN Reconciled(p)
        PROVE  k \in DOMAIN Joined(p, "ldap") /\ Reconciled(p)[k] = Joined(p, "ldap")[k]
    BY <1>8 DEF Reconciled, Pick
  <1>9. ASSUME NEW p \in Procs, Goes(p) \/ Breaks(p) PROVE Dates'
    <2> DEFINE here == At(p, "count") \/ At(p, "join")
               date == IF here THEN proc[p].began ELSE now
    <2>1. Past(date, now)
      <3>1. here => OnItsWay(proc[p])
        BY Stages DEF At, Resting
      <3>2. Past(now, now)
        BY DEF Past, Clock
      <3> QED BY <3>1, <3>2 DEF Started
    <2>2. \A r \in DOMAIN plan_users' : \/ r \in DOMAIN plan_users /\ plan_users'[r] = plan_users[r]
                                        \/ plan_users'[r] = date
      <3>1. CASE \E S : plan_users' = Without(plan_users, S)
        BY <3>1, <1>6
      <3>2. CASE At(p, "count") /\ plan_users' = Over([r \in proc[p].mine |-> proc[p].began], plan_users)
        <4>1. date = proc[p].began
          BY <3>2
        <4>2. \A k \in DOMAIN Over([r \in proc[p].mine |-> proc[p].began], plan_users) :
                 \/ /\ k \in DOMAIN plan_users
                    /\ Over([r \in proc[p].mine |-> proc[p].began], plan_users)[k] = plan_users[k]
                 \/ Over([r \in proc[p].mine |-> proc[p].began], plan_users)[k] = proc[p].began
          <5> DEFINE S == proc[p].mine
                     d == proc[p].began
          <5> HIDE DEF S, d
          <5>1. \A k \in DOMAIN Over([r \in S |-> d], plan_users) :
                   \/ /\ k \in DOMAIN plan_users
                      /\ Over([r \in S |-> d], plan_users)[k] = plan_users[k]
                   \/ Over([r \in S |-> d], plan_users)[k] = d
            BY DEF Over
          <5> QED BY <5>1, Zenon DEF S, d
        <4> HIDE DEF date
        <4> QED BY <3>2, <4>1, <4>2, Zenon
      <3> QED BY <1>4, <1>9, <3>1, <3>2
    <2>3. \A m \in DOMAIN members' : \/ m \in DOMAIN members /\ members'[m] = members[m]
                                     \/ members'[m].since = date
      <3>1. CASE \E S : members' = Without(members, S)
        BY <3>1, <1>6
      <3>2. CASE At(p, "join") /\ ((\E source : members' = Joined(p, source)) \/ members' = Reconciled(p))
        <4>1. date = proc[p].began
          BY <3>2
        <4> QED BY <3>2, <4>1, <1>7, <1>8
      <3> QED BY <1>5, <1>9, <3>1, <3>2
    <2> HIDE DEF date
    <2> QED BY <1>2, <2>1, <2>2, <2>3
  <1> QED BY <1>3, <1>9, StepKinds, OtherWrites, Roles DEF tables, planTables, groupTables

\* A handler that answers, reloads or reads on leaves nothing to check; the others
\* are the first read of a change and the read of a reload.
LEMMA Unchecked ==
    ASSUME Shape, NEW p \in Procs, Goes(p) \/ Breaks(p), ~FindPlan(p), ~Load(p)
    PROVE  \E s : proc' = [proc EXCEPT ![p] = s] /\ s.pc # "apply" /\ Checked(s)
  <1>1. PICK s : Advance(p, s)
    BY GoesOn
  <1>2. CASE AtRest(s)
    BY <1>1, <1>2 DEF Advance, AtRest, Resting, Checked, OnItsWay, Onward, OpsAt
  <1>3. CASE ~AtRest(s)
    <2>1. OnItsWay(proc[p]) /\ Onward(proc[p], s) /\ proc' = [proc EXCEPT ![p] = s]
      BY <1>1, <1>3 DEF Advance
    <2>2. s.op = proc[p].op /\ s.pc # "apply"
      BY <2>1 DEF OnItsWay, Onward, Whole, Scratch, OpsAt
    <2>3. ASSUME s.pc = "write", s.op \in {"create_plan", "update_plan"} PROVE FALSE
      <3>1. proc[p].pc \in {"find_plan", "write"}
        BY <2>1, <2>2, <2>3 DEF OnItsWay, OpsAt, PlanOps, GroupOps, AddOps, SyncOps
      <3>2. Writes(p) \/ Cancel(p)
        BY <2>2, <2>3, <3>1 DEF Goes, Breaks, Adds, Joins, Syncs, StartJoin, JoinRow, AddMembers, AddAll,
            HasJoined, Asked, DeadlockAborts, Inserters, FindPlan, FindGroup, Missing, Precheck, InsertRow, InsertEnds,
            Commit, Load, LoadFails, Apply, Lock, List, ListFails, Upsert, UpsertFails, Reconcile, At
      <3>3. Answer(p) \/ Become(p, [pc |-> "load"])
        BY <3>2 DEF Writes, Cancel, CreatePlan, UpdatePlan, DeletePlan, RemovePlanUsers,
            RemovePlanGroups, CreateGroup, UpdateGroup, DeleteGroup, RemoveMembers
      <3>4. proc'[p] = s
        BY <2>1 DEF Shape
      <3>5. proc'[p].pc # "write"
        BY <3>3 DEF Answer, Become, Idle, Shape
      <3> QED BY <2>3, <3>4, <3>5
    <2> QED BY <2>1, <2>2, <2>3 DEF Checked
  <1> QED BY <1>2, <1>3

\* The read of a change checks it against the row.
LEMMA FindChecks ==
    ASSUME Shape, Rules, NEW p \in Procs, FindPlan(p)
    PROVE  \E s : proc' = [proc EXCEPT ![p] = s] /\ s.pc # "apply" /\ Checked(s)
  <1>1. OnItsWay(proc[p]) /\ proc[p].op \in PlanOps
    BY Stages DEF FindPlan, At, Resting
  <1> DEFINE id == proc[p].plan
             x == [before |-> plans[id], pc |-> "write"]
             s == Over(x, proc[p])
  <1>2. CASE Answer(p)
    <2>1. proc' = [proc EXCEPT ![p] = Idle] /\ Idle.pc = "idle"
      BY <1>2 DEF Answer, Become, Idle
    <2>2. Checked(Idle)
      BY <2>1 DEF Checked
    <2> QED BY <2>1, <2>2
  <1>3. CASE Become(p, s) /\ proc[p].op = "update_plan" /\ id \in DOMAIN plans /\ ValidUpdate(plans[id], proc[p].patch)
    <2>1. DOMAIN x = {"before", "pc"} /\ x.before = plans[id] /\ x.pc = "write"
      OBVIOUS
    <2>2. {"op", "patch"} \subseteq DOMAIN proc[p]
      BY <1>1, <1>3 DEF OnItsWay, Whole, RequestFields
    <2> HIDE DEF x
    <2>3. s.pc = "write" /\ s.before = plans[id] /\ s.op = proc[p].op /\ s.patch = proc[p].patch
      BY <2>1, <2>2 DEF Over
    <2>4. Rule(plans[id]) /\ ValidPeriod(Over(proc[p].patch, plans[id]))
      BY <1>3 DEF Rules, ValidUpdate
    <2>5. proc' = [proc EXCEPT ![p] = s]
      BY <1>3 DEF Become
    <2> HIDE DEF s
    <2>6. Checked(s)
      BY <1>3, <2>3, <2>4 DEF Checked
    <2> QED BY <2>3, <2>5, <2>6
  <1>4. CASE (Goto(p, "missing") \/ Goto(p, "write")) /\ proc[p].op # "update_plan"
    <2>1. PICK c \in {"missing", "write"} : Goto(p, c)
      BY <1>4
    <2> DEFINE g == [proc[p] EXCEPT !.pc = c]
    <2>2. g.pc = c /\ g.op = proc[p].op
      BY <1>1 DEF OnItsWay, Whole
    <2>3. proc' = [proc EXCEPT ![p] = g]
      BY <2>1 DEF Goto, Become
    <2>4. proc[p].op # "create_plan"
      BY <1>1 DEF PlanOps, AddOps
    <2> HIDE DEF g
    <2>5. Checked(g)
      BY <1>4, <2>2, <2>4 DEF Checked
    <2> QED BY <2>2, <2>3, <2>5
  <1>5. \/ Answer(p)
        \/ Become(p, s) /\ proc[p].op = "update_plan" /\ id \in DOMAIN plans /\ ValidUpdate(plans[id], proc[p].patch)
        \/ (Goto(p, "missing") \/ Goto(p, "write")) /\ proc[p].op # "update_plan"
    <2>1. CASE id \notin DOMAIN plans \/ (proc[p].op = "update_plan" /\ ~ValidUpdate(plans[id], proc[p].patch))
      BY <2>1 DEF FindPlan
    <2>2. CASE ~(id \notin DOMAIN plans \/ (proc[p].op = "update_plan" /\ ~ValidUpdate(plans[id], proc[p].patch)))
      BY <1>1, <2>2 DEF FindPlan, PlanOps, AddOps
    <2> QED BY <2>1, <2>2
  <1> QED BY <1>2, <1>3, <1>4, <1>5

\* A request that begins to write has been checked.
LEMMA BeginChecks ==
    ASSUME office \in DOMAIN Offices, Shape, NEW p \in Procs, NEW req \in Now("asks"), Begin(p, req)
    PROVE  UNCHANGED proc \/ \E s : proc' = [proc EXCEPT ![p] = s] /\ s.pc # "apply" /\ Checked(s)
  <1> DEFINE x == [pc |-> FirstStep(req.op), mine |-> {}, began |-> now]
             s == Over(req, x)
  <1>1. UNCHANGED proc \/ (~Malformed(req) /\ proc' = [proc EXCEPT ![p] = s])
    BY DEF Begin, Become
  <1>2. /\ "op" \in DOMAIN req /\ req.op \in DOMAIN RequestFields
        /\ RequestFields[req.op] \subseteq DOMAIN req /\ "pc" \notin DOMAIN req
    BY RequestsAssumption DEF Now
  <1>3. DOMAIN x = {"pc", "mine", "began"} /\ x.pc = FirstStep(req.op)
    OBVIOUS
  <1> HIDE DEF x
  <1>4. s.op = req.op /\ s.pc = FirstStep(req.op) /\ (req.op = "create_plan" => s.fields = req.fields)
    <2>1. RequestFields["create_plan"] = {"fields"}
      BY DEF RequestFields
    <2> QED BY <1>2, <1>3, <2>1 DEF Over
  <1> HIDE DEF s
  <1>5. FirstStep(req.op) # "apply" /\ (req.op = "update_plan" => FirstStep(req.op) # "write")
    BY <1>2 DEF FirstStep, RequestFields
  <1>6. ~Malformed(req) => Checked(s)
    BY <1>4, <1>5 DEF Malformed, ValidCreate, Checked
  <1> QED BY <1>1, <1>4, <1>5, <1>6

\* The sync task, the reload task and the reader write no plan.
LEMMA OwnChecks ==
    ASSUME office \in DOMAIN Offices, Shape, Questions \/ WorkerTicks \/ Reload
    PROVE  UNCHANGED proc \/ \E p \in Procs : \E s : proc' = [proc EXCEPT ![p] = s] /\ s.pc # "apply" /\ Checked(s)
  <1> DEFINE Ask(u, m) == [pc |-> "ask_database", user |-> u, model |-> m, time |-> LocalTime(now), saw |-> Memberships(u)]
             Tick == [pc |-> "lock", op |-> "sync_all", queue |-> SetToSeq(LdapGroups), failed |-> FALSE, began |-> now]
             Fresh(x) == [pc |-> x]
             Because(x) == [proc[Reader] EXCEPT !.pc = "why", !.saw = x]
  <1>1. \/ UNCHANGED proc
        \/ \E u, m : proc' = [proc EXCEPT ![Reader] = Ask(u, m)]
        \/ \E x : proc' = [proc EXCEPT ![Reader] = Because(x)]
        \/ proc' = [proc EXCEPT ![Reader] = Idle]
        \/ proc' = [proc EXCEPT ![Worker] = Tick]
        \/ proc' = [proc EXCEPT ![Reloader] = Fresh("load")]
    BY DEF Questions, MyPlan, AskDatabase, Why, WorkerTicks, Reload, Answer, Become
  <1>2. "pc" \in DOMAIN proc[Reader]
    BY Roles DEF Shape, AtRest, OnItsWay
  <1>3. /\ \A u, m : Ask(u, m).pc = "ask_database"
        /\ \A x : Because(x).pc = "why"
        /\ Idle.pc = "idle" /\ Tick.pc = "lock" /\ Fresh("load").pc = "load"
    BY <1>2 DEF Idle
  <1> HIDE DEF Ask, Tick, Fresh, Because
  <1>4. ASSUME NEW p \in Procs, NEW s, proc' = [proc EXCEPT ![p] = s], s.pc \notin {"apply", "write"}
        PROVE  \E q \in Procs : \E r : proc' = [proc EXCEPT ![q] = r] /\ r.pc # "apply" /\ Checked(r)
    BY <1>4 DEF Checked
  <1> QED BY <1>1, <1>3, <1>4, Roles

\* What a step does to the handlers: one of them has checked what it writes, or
\* has read what it will apply.
LEMMA Handled ==
    ASSUME office \in DOMAIN Offices, Shape, Rules, [PlansNext]_vars
    PROVE  \/ UNCHANGED proc
           \/ \E p \in Procs : \E s : proc' = [proc EXCEPT ![p] = s] /\ s.pc # "apply" /\ Checked(s)
           \/ \E p \in Procs : Load(p)
  <1>1. ASSUME NEW p \in Procs, Goes(p) \/ Breaks(p), ~Load(p)
        PROVE  \E s : proc' = [proc EXCEPT ![p] = s] /\ s.pc # "apply" /\ Checked(s)
    BY <1>1, Unchecked, FindChecks
  <1>2. PeopleMove \/ HourPasses \/ UNCHANGED vars => UNCHANGED proc
    BY DEF PeopleMove, HourPasses, vars
  <1> QED BY <1>1, <1>2, BeginChecks, OwnChecks, StepKinds, Roles

\* What a handler has checked stays checked while others run.
LEMMA ChecksStep ==
    ASSUME office \in DOMAIN Offices, Shape, Rules, Checks, [PlansNext]_vars
    PROVE  Checks'
  <1>1. CASE UNCHANGED proc
    BY <1>1 DEF Checks
  <1>2. ASSUME NEW p \in Procs, NEW s, proc' = [proc EXCEPT ![p] = s], Checked(s) PROVE Checks'
    BY <1>2 DEF Checks, Shape
  <1>3. ASSUME NEW p \in Procs, Load(p) PROVE Checks'
    <2> DEFINE s == [pc |-> "apply", snap |-> LoadRuntimes]
    <2>1. proc' = [proc EXCEPT ![p] = s] /\ s.pc = "apply"
      BY <1>3 DEF Load, Become
    <2> HIDE DEF s
    <2>2. Checked(s)
      BY <2>1 DEF Checked
    <2> QED BY <1>2, <2>1, <2>2
  <1> QED BY <1>1, <1>2, <1>3, Handled

\* What is in memory, and what a reload is about to put there, was in the tables.
LEMMA CopiesStep ==
    ASSUME office \in DOMAIN Offices, Shape, References, Clock, Rules, Dates, Copies,
           office' = office, [PlansNext]_vars
    PROVE  Copies'
  <1>0. \A c : AllSound(c, now) => AllSound(c, now')
    BY ClockStep
  <1>1. ASSUME NEW p \in Procs, Goes(p) \/ Breaks(p) PROVE UNCHANGED runtimes \/ Apply(p)
    BY <1>1 DEF Goes, Breaks, Adds, Writes, Joins, Syncs, StartJoin, JoinRow, DeadlockAborts,
        FindPlan, FindGroup, Missing,
        Precheck, InsertRow, InsertEnds, Commit, CreatePlan, UpdatePlan, DeletePlan, RemovePlanUsers,
        RemovePlanGroups, CreateGroup, UpdateGroup, DeleteGroup, AddMembers, AddAll, AddAs, RemoveMembers,
        Load, LoadFails, Lock, List, ListFails, Upsert, UpsertFails, Reconcile, Cancel
  <1>2. ASSUME NEW p, NEW req, Begin(p, req) PROVE UNCHANGED runtimes
    BY <1>2 DEF Begin
  <1>3. Questions \/ WorkerTicks \/ Reload \/ PeopleMove \/ HourPasses \/ UNCHANGED vars => UNCHANGED runtimes
    BY DEF Questions, MyPlan, AskDatabase, Why, WorkerTicks, Reload, PeopleMove, HourPasses, vars
  <1>4. UNCHANGED runtimes \/ \E p \in Procs : Apply(p)
    BY <1>1, <1>2, <1>3, StepKinds, Roles
  <1>5. AllSound(runtimes', now')
    BY <1>0, <1>4 DEF Apply, Copies
  <1>6. ASSUME NEW p \in Procs, NEW s, proc' = [proc EXCEPT ![p] = s], s.pc = "apply" => AllSound(s.snap, now)
        PROVE  \A q \in Procs : proc'[q].pc = "apply" => AllSound(proc'[q].snap, now')
    BY <1>0, <1>6 DEF Copies, At, Shape
  <1>7. ASSUME NEW p \in Procs, Load(p)
        PROVE  \A q \in Procs : proc'[q].pc = "apply" => AllSound(proc'[q].snap, now')
    <2> DEFINE s == [pc |-> "apply", snap |-> LoadRuntimes]
    <2>1. proc' = [proc EXCEPT ![p] = s] /\ s.snap = LoadRuntimes
      BY <1>7 DEF Load, Become
    <2> HIDE DEF s
    <2> QED BY <1>6, <2>1, LoadSound
  <1>8. ASSUME UNCHANGED proc
        PROVE  \A q \in Procs : proc'[q].pc = "apply" => AllSound(proc'[q].snap, now')
    BY <1>0, <1>8 DEF Copies, At
  <1>9. \A q \in Procs : proc'[q].pc = "apply" => AllSound(proc'[q].snap, now')
    BY <1>6, <1>7, <1>8, Handled
  <1> QED BY <1>5, <1>9 DEF Copies, At

\* A written plan has a kind of period and at least an hour of it, though another
\* change came between the check and the write.
LEMMA RulesStep ==
    ASSUME office \in DOMAIN Offices, Shape, Rules, Checks, [PlansNext]_vars
    PROVE  Rules'
  <1>0. MaxHours \in Nat /\ \A k, h : NormalizedHours(k, h) = IF k = "hourly" THEN h ELSE 1
    BY PlanRulesAssumption DEF NormalizedHours
  <1>1. CASE UNCHANGED plans
    BY <1>1 DEF Rules
  <1>2. ASSUME NEW p \in Procs, CreatePlan(p), ~UNCHANGED plans PROVE Rules'
    <2> DEFINE rec == proc[p].fields
               row == [rec EXCEPT !.hours = NormalizedHours(rec.period, @)]
               one == [i \in {NewId} |-> row]
    <2>1. OnItsWay(proc[p]) /\ proc[p].op = "create_plan" /\ proc[p].pc = "write"
      BY <1>2, Stages DEF CreatePlan, Asked, At, Resting
    <2>2. {"period", "hours"} \subseteq DOMAIN rec /\ rec.hours \in Int /\ ValidPeriod(rec)
      BY <2>1 DEF OnItsWay, Whole, Settings, Typed, Checks, Checked
    <2>3. Rule(row)
      <3>1. /\ DOMAIN row = DOMAIN rec /\ row.period = rec.period
            /\ row.hours = NormalizedHours(rec.period, rec.hours)
        BY <2>2
      <3> HIDE DEF row, rec
      <3> QED BY <1>0, <2>2, <3>1 DEF Rule, ValidPeriod
    <2>4. plans' = Over(one, plans)
      BY <1>2 DEF CreatePlan
    <2> HIDE DEF rec, row
    <2>5. DOMAIN one = {NewId} /\ one[NewId] = row
      OBVIOUS
    <2> HIDE DEF one
    <2>6. /\ DOMAIN plans' = DOMAIN plans \cup {NewId} /\ plans'[NewId] = row
          /\ \A id \in DOMAIN plans \ {NewId} : plans'[id] = plans[id]
      BY <2>4, <2>5 DEF Over
    <2> QED BY <2>3, <2>6 DEF Rules
  <1>3. ASSUME NEW p \in Procs, UpdatePlan(p), ~UNCHANGED plans PROVE Rules'
    <2> DEFINE patch == proc[p].patch
               before == proc[p].before
               eff == Over(patch, before)
               with == Written(before, patch)
               id == proc[p].plan
               new == Over(with, plans[id])
    <2>1. OnItsWay(proc[p]) /\ proc[p].op = "update_plan" /\ proc[p].pc = "write"
      BY <1>3, Stages DEF UpdatePlan, Asked, At, Resting
    <2>2. Typed(patch) /\ Rule(before) /\ ValidPeriod(eff)
      BY <2>1 DEF OnItsWay, Whole, Checks, Checked
    <2>3. id \in DOMAIN plans /\ plans' = [plans EXCEPT ![id] = new] /\ Rule(plans[id])
      BY <1>3 DEF UpdatePlan, Rules
    <2> HIDE DEF patch, before, id
    <2>4. CASE {"period", "hours"} \cap DOMAIN patch = {}
      <3>1. with = patch
        BY <2>4 DEF Written
      <3>2. new.period = plans[id].period /\ new.hours = plans[id].hours /\ {"period", "hours"} \subseteq DOMAIN new
        BY <2>3, <2>4, <3>1 DEF Over, Rule
      <3> HIDE DEF new
      <3> QED BY <2>3, <3>2 DEF Rule, Rules
    <2>5. CASE {"period", "hours"} \cap DOMAIN patch # {}
      <3> DEFINE h == NormalizedHours(eff.period, eff.hours)
                 x == [hours |-> h]
      <3>1. with = Over(x, patch) /\ DOMAIN x = {"hours"} /\ x.hours = h
        BY <2>5 DEF Written
      <3>2. /\ "period" \in DOMAIN patch => eff.period = patch.period
            /\ eff.hours = IF "hours" \in DOMAIN patch THEN patch.hours ELSE before.hours
            /\ eff.hours \in Int
        BY <2>2 DEF Over, Rule, Typed
      <3>3. h \in Nat \ {0} /\ eff.period \in Periods
        BY <1>0, <2>2, <3>2 DEF ValidPeriod
      <3> HIDE DEF h, x, with, eff
      <3>4. /\ DOMAIN with = DOMAIN patch \cup {"hours"} /\ with.hours = h
            /\ "period" \in DOMAIN patch => with.period = patch.period
        BY <3>1 DEF Over
      <3>5. /\ {"period", "hours"} \subseteq DOMAIN new /\ new.hours = h
            /\ new.period = IF "period" \in DOMAIN patch THEN patch.period ELSE plans[id].period
        BY <2>3, <3>4 DEF Over, Rule
      <3> HIDE DEF new
      <3>6. Rule(new)
        BY <2>3, <3>2, <3>3, <3>5 DEF Rule
      <3> QED BY <2>3, <3>6 DEF Rules
    <2> QED BY <2>4, <2>5
  <1>4. ASSUME NEW p \in Procs, DeletePlan(p) PROVE Rules'
    <2>1. plans' = Without(plans, {proc[p].plan})
      BY <1>4 DEF DeletePlan
    <2> QED BY <2>1 DEF Without, Pick, Rules
  <1> QED BY <1>1, <1>2, <1>3, <1>4, StepKinds, WritesTo, OtherWrites, Roles DEF tables, planTables

\* What the periods are computed from stays sound.
LEMMA PeriodsStep ==
    ASSUME office \in DOMAIN Offices, Shape, References, PeriodsInv, [PlansNext]_vars
    PROVE  PeriodsInv'
  <1> USE DEF PeriodsInv
  <1>1. office' = office
    BY OfficeStays
  <1>2. Clock'
    BY <1>1, ClockStep
  <1>3. Dates' /\ Started'
    BY <1>1, DatesStep, StartedStep
  <1>4. Copies'
    BY <1>1, CopiesStep
  <1>5. Rules' /\ Checks'
    BY RulesStep, ChecksStep
  <1> QED BY <1>2, <1>3, <1>4, <1>5

-----------------------------------------------------------------------------
(* The theorems.                                                            *)

IInv ==
    /\ office \in DOMAIN Offices /\ Shape
    /\ KeptInv /\ AddInv
    /\ PlanRows /\ References /\ ReaderInv /\ MyPlanHonest
    /\ PeriodsInv

\* The invariant at the start,
LEMMA InitHolds == PlansInit => IInv
  <1> SUFFICES ASSUME PlansInit PROVE IInv
    OBVIOUS
  <1>1. office \in DOMAIN Offices
    BY DEF PlansInit
  <1>2. /\ DOMAIN proc = Procs /\ kept = {} /\ told.steady = {} /\ \A p \in Procs : proc[p] = Idle
        /\ plans = Offices[office].plans /\ plan_users = <<>> /\ plan_groups = (DOMAIN plans) \X (DOMAIN groups)
    BY DEF PlansInit, Now
  <1>3. Shape
    BY <1>2, RestingRecords DEF Shape
  <1>4. KeptInv /\ MyPlanHonest
    BY <1>2 DEF KeptInv, MyPlanHonest
  <1>5. AddInv
    BY <1>2 DEF AddInv, Adding, Idle
  <1>6. PlanRows
    BY <1>1, <1>2, PlansTableAssumption DEF PlanRows, Settings, Typed
  <1>7. References
    BY <1>2 DEF References
  <1>8. ReaderInv
    BY <1>1, <1>2, Roles DEF ReaderInv, At, Idle
  <1>9. PeriodsInv
    <2>0. Clock
      <3>1. now = 0
        BY DEF PlansInit
      <3>2. Now("ticks") \in Nat
        BY <1>1, ClockAssumption DEF Now
      <3> QED BY <3>1, <3>2 DEF Clock
    <2>1. Rules
      BY <1>1, <1>2, PlansTableAssumption DEF Rules, Rule, Settings, Typed
    <2>2. Dates
      <3>1. now = 0 /\ members = [m \in Now("members") |-> [source |-> "ldap", since |-> 0]]
        BY DEF PlansInit
      <3> QED BY <1>2, <3>1 DEF Dates, Past
    <2>3. Copies
      <3>1. runtimes = LoadRuntimes
        BY DEF PlansInit
      <3> QED BY <1>2, <1>7, <2>1, <2>2, <3>1, LoadSound DEF Copies, At, Idle
    <2>4. Checks /\ Started
      BY <1>2 DEF Checks, Checked, Idle, Started, OnItsWay, Whole
    <2> QED BY <2>0, <2>1, <2>2, <2>3, <2>4 DEF PeriodsInv
  <1> QED BY <1>1, <1>3, <1>4, <1>5, <1>6, <1>7, <1>8, <1>9 DEF IInv

\* after every step,
LEMMA StepHolds == IInv /\ [PlansNext]_vars => IInv'
  <1> SUFFICES ASSUME IInv, [PlansNext]_vars PROVE IInv'
    OBVIOUS
  <1> USE DEF IInv
  <1>1. (office \in DOMAIN Offices)' /\ Shape'
    BY OfficeStays, ShapeStep
  <1>2. KeptInv'
    BY KeptStep
  <1>3. AddInv'
    BY AddStep
  <1>4. PlanRows' /\ References'
    BY PlanRowsStep, ReferencesStep
  <1>5. ReaderInv' /\ MyPlanHonest'
    BY ReaderStep
  <1>6. PeriodsInv'
    BY PeriodsStep
  <1> QED BY <1>1, <1>2, <1>3, <1>4, <1>5, <1>6

\* and so always.
LEMMA Inductive == PlansSpec => []IInv
  BY InitHolds, StepHolds, PTL DEF PlansSpec

\* A member added by hand stays, with its date, until an administrator asks for
\* the opposite, for every directory and every overlap of syncs and edits
\* (store/groups.rs 186-279).
THEOREM PlansHandAddedStay == PlansSpec => []HandAddedStay
  <1>1. IInv => HandAddedStay
    BY DEF IInv, KeptInv, HandAddedStay
  <1> QED BY <1>1, Inductive, PTL

\* A user who is a member of a plan whose stored scope parses, during the whole of
\* his question, is not told that he is in none, however many plans he has, readable
\* or not, and whatever is edited meanwhile (api/plans.rs 1568-1583, 1631-1665,
\* store/plans.rs 584-601).
THEOREM PlansMyPlanHonest == PlansSpec => []MyPlanHonest
  <1>1. IInv => MyPlanHonest
    BY DEF IInv
  <1> QED BY <1>1, Inductive, PTL

\* New direct users and groups of a plan come as one request asked for them, for
\* any number of overlapping requests (api/plans.rs 680-759).
THEOREM PlansAllOrNothing == PlansSpec => AllOrNothing
  <1> DEFINE new == (DOMAIN plan_users' \ DOMAIN plan_users) \cup (plan_groups' \ plan_groups)
             Allowed == new # {} => \E p \in Admins : At(p, "count") /\ new = Rows(proc[p])
  <1>1. ASSUME IInv, [PlansNext]_vars PROVE Allowed
    <2>0. office \in DOMAIN Offices /\ Shape /\ AddInv /\ office' = office
      BY <1>1, OfficeStays DEF IInv
    <2>1. ASSUME Shrinks PROVE Allowed
      BY <2>1 DEF Shrinks
    <2>2. ASSUME NEW p \in Procs, Goes(p) \/ Breaks(p) PROVE Allowed
      <3>1. CASE Commit(p)
        BY <2>0, <3>1, CommitApart
      <3>2. CASE ~Commit(p)
        BY <2>1, <2>2, <3>2, RowsShrink
      <3> QED BY <3>1, <3>2
    <2>3. CASE UNCHANGED tables
      BY <2>1, <2>3 DEF Shrinks, tables, planTables
    <2> QED BY <1>1, <2>0, <2>2, <2>3, StepKinds, OtherWrites, Roles
  <1>2. IInv /\ [PlansNext]_vars => [Allowed]_vars
    BY <1>1
  <1>3. [][IInv /\ [PlansNext]_vars]_vars => AllOrNothing
    BY <1>2, PTL DEF AllOrNothing
  <1> QED BY <1>3, Inductive, PTL DEF PlansSpec

\* The periods that a member's plan in memory gives tile time, whatever their kind,
\* length and anchor and the months, for every plan that overlapping patches, dated
\* additions and reloads can put there (store/plans.rs 374-440).
THEOREM PlansPeriodsTile == PlansSpec => PeriodsTile
  <1> DEFINE Tiled == \A u \in Users : \A rt \in runtimes[u] :
                /\ PeriodHolds(rt, now)
                /\ now' > now => PeriodStart(rt, now') \in {PeriodStart(rt, now), PeriodEnd(rt, now)}
  <1>1. ASSUME IInv, [PlansNext]_vars PROVE Tiled
    <2>1. office \in DOMAIN Offices /\ Shape /\ Clock /\ Copies
      BY <1>1 DEF IInv, PeriodsInv
    <2>2. now \in Nat /\ (now' = now \/ now' = now + 1)
      BY <1>1, <2>1, OfficeStays, ClockStep DEF Clock
    <2>3. \E m \in MonthStarts : m > now
      BY <2>1, ClockAssumption, PlanRulesAssumption DEF Clock, Now
    <2>4. ASSUME NEW u \in Users, NEW rt \in runtimes[u]
          PROVE  /\ PeriodHolds(rt, now)
                 /\ PeriodStart(rt, now + 1) \in {PeriodStart(rt, now), PeriodEnd(rt, now)}
      <3>1. Rule(rt.rec) /\ rt.since \in Int /\ rt.since <= now
        BY <2>1, <2>4 DEF Copies, AllSound, Sound, Past
      <3> QED BY <2>2, <2>3, <3>1, Tiles
    <2> QED BY <2>2, <2>4
  <1>2. IInv /\ [PlansNext]_vars => [Tiled]_vars
    BY <1>1
  <1>3. [][IInv /\ [PlansNext]_vars]_vars => PeriodsTile
    BY <1>2, PTL DEF PeriodsTile
  <1> QED BY <1>3, Inductive, PTL DEF PlansSpec
=============================================================================
