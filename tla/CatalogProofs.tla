---------------------------- MODULE CatalogProofs ----------------------------
(***************************************************************************)
(* The administrator's configuration, for every set of administrators,     *)
(* scenes, requests and answers of the providers: a refresh of the library *)
(* routes what it lists and switches nothing on, and no reload lets a user *)
(* through who is under access rules.                                      *)
(*                                                                         *)
(* Open refreshes carry the argument.  What one of them found (the rows it *)
(* deletes, the routes it takes again, the models it inserts) stays true   *)
(* while others write, because of the rows it holds and the inserts others *)
(* wait for; Txn says what that is, and Stable what others may do to it.   *)
(***************************************************************************)
EXTENDS Catalog, FiniteSetTheorems, SequenceTheorems, TLAPS

Tables == {"providers", "routes", "rules", "prices", "models", "user_access", "users", "ldap", "settings", "next"}
Refreshing == {"fill", "route", "commit"}
Special == Refreshing \cup {"clear", "grant", "put", "prune"}
AskedFields == {"op", "fields", "user", "rules"}

\* Rows are there in full, with ids below the next one, and a model has one row.
Rows(d) ==
    /\ DOMAIN d = Tables
    /\ d.next \in Nat
    /\ \A r \in DOMAIN d.routes :
            /\ r \in Nat /\ r < d.next
            /\ "pattern" \in DOMAIN d.routes[r] /\ "enabled" \in DOMAIN d.routes[r]
    /\ \A i \in DOMAIN d.models :
            /\ i \in Nat /\ i < d.next
            /\ DOMAIN d.models[i] = {"provider", "model", "enabled", "attrs"}
    /\ \A i, j \in DOMAIN d.models :
            d.models[i].provider = d.models[j].provider /\ d.models[i].model = d.models[j].model => i = j

\* A request is what its administrator sent, and knows why it is where it is.
Well(q) ==
    /\ "pc" \in DOMAIN q /\ "locks" \in DOMAIN q /\ "refs" \in DOMAIN q
    /\ q.pc # "idle" => "op" \in DOMAIN q /\ "todo" \in DOMAIN q
    /\ q.pc # "idle" /\ q.op = "create_route" =>
            "fields" \in DOMAIN q /\ "pattern" \in DOMAIN q.fields /\ "enabled" \in DOMAIN q.fields
    /\ q.pc # "idle" /\ q.op = "put_user_access" =>
            "user" \in DOMAIN q /\ "rules" \in DOMAIN q /\ \A r \in q.rules : "user" \in DOMAIN r /\ r.user = q.user
    /\ q.pc \in {"clear", "grant"} =>
            q.op = "put_user_access" /\ "gone" \in DOMAIN q /\ \A r \in q.gone : r.user = q.user
    /\ q.pc = "put" => q.op \in DOMAIN SettingOf
    /\ q.pc = "prune" => "listed" \in DOMAIN q /\ q.listed \in Seq(Models)

\* A listed model is still to come, or has a route.
Routed(d, q, m) ==
    \/ m \in ToSet(q.left)
    \/ \E p \in q.patterns : matches_pattern(p, m)
    \/ m \in ToSet(q.routes)
    \/ \E r \in q.reused : d.routes[r].pattern = m

\* What an open refresh has found and done.
Txn(d, q) ==
    q.pc \in Refreshing =>
        /\ {"listed", "left", "gone", "patterns", "added", "reused", "routes"} \subseteq DOMAIN q
        /\ q.listed \in Seq(Models) /\ q.left \in Seq(Models) /\ q.routes \in Seq(Models)
        /\ ToSet(q.left) \subseteq ToSet(q.listed)
        /\ q.pc = "commit" <=> q.left = <<>>
        /\ IsFiniteSet(q.added) /\ q.added \subseteq ToSet(q.listed)
        /\ \A i \in q.gone : i \in Nat /\ i < d.next
        /\ \A i \in q.gone \cap DOMAIN d.models : d.models[i].model \notin ToSet(q.listed)
        /\ \A i \in DOMAIN d.models : d.models[i].provider = Head(q.todo) => d.models[i].model \notin q.added
        /\ \A r \in q.reused : r \in DOMAIN d.routes /\ <<"route", r>> \in q.locks
        /\ \A m \in ToSet(q.listed) : Routed(d, q, m)

\* Two transactions hold different rows and insert different models.
Apart(q, s) ==
    /\ q.locks \cap s.locks = {}
    /\ q.pc \in Refreshing /\ s.pc \in Refreshing /\ Head(q.todo) = Head(s.todo) => q.added \cap s.added = {}

Requests ==
    /\ DOMAIN proc = Admins
    /\ \A a \in Admins : Well(proc[a]) /\ Txn(db, proc[a])
    /\ \A a, b \in Admins : a # b => Apart(proc[a], proc[b])

\* Rules that were in force, and some for every user who was never freed of them.
Safe(rules) ==
    /\ rules \subseteq granted
    /\ \A u \in Users \ unbound : RulesOf(rules, u) # {}

\* What a reload has read.
SafeSnap(section, value) ==
    /\ section = "user_access" => Safe(value)
    /\ section = "admin_ids" => value \subseteq unbound

Copies ==
    /\ DOMAIN loader = Loaders /\ DOMAIN mem = AllSections
    /\ \A l \in Loaders : /\ "i" \in DOMAIN loader[l] /\ "snap" \in DOMAIN loader[l] /\ "last" \in DOMAIN loader[l]
                          /\ loader[l].snap.read => SafeSnap(Section(loader[l].i), loader[l].snap.value)
    /\ Safe(mem.user_access) /\ Safe(db.user_access)
    /\ mem.admin_ids \subseteq unbound /\ load_admin_ids \subseteq unbound

CInv == scene \in DOMAIN Scenes /\ Rows(db) /\ Requests /\ Copies

-----------------------------------------------------------------------------
(* What a step of one administrator may do, as all others see it.           *)

SameModel(d, e, i) ==
    /\ i \in DOMAIN d.models
    /\ e.models[i].provider = d.models[i].provider /\ e.models[i].model = d.models[i].model

\* No other refresh inserts this model of the provider.
Unclaimed(a, row) ==
    \A b \in Admins \ {a} : proc[b].pc \in Refreshing /\ row.provider = Head(proc[b].todo) => row.model \notin proc[b].added

Keeps(a) ==
    /\ Rows(db') /\ db'.next >= db.next
    /\ \A r \in DOMAIN db.routes : <<"route", r>> \in Held(a) =>
            r \in DOMAIN db'.routes /\ db'.routes[r].pattern = db.routes[r].pattern
    /\ \A i \in DOMAIN db'.models :
            SameModel(db, db', i) \/ (i >= db.next /\ Unclaimed(a, db'.models[i]))

Becomes(a, s) ==
    /\ DOMAIN proc' = Admins /\ proc'[a] = s
    /\ \A b \in Admins \ {a} : proc'[b] = proc[b]
    /\ Well(s) /\ Txn(db', s)
    /\ \A b \in Admins \ {a} : Apart(s, proc[b])

\* The body of DisabledStays.
OffStays ==
    \A key \in load_disabled_models \ load_disabled_models' :
        (\E i \in DOMAIN db'.models : <<db'.models[i].provider, db'.models[i].model>> = key) => SwitchesOn(key)

AccessKept(a) ==
    \A u \in Users : RulesOf(db.user_access, u) # {} /\ RulesOf(db'.user_access, u) = {} => Frees(a, u)

Fresh(r) == "i" \in DOMAIN r /\ "last" \in DOMAIN r /\ "snap" \in DOMAIN r /\ ~r.snap.read

CopiesKept(a) ==
    /\ loader' = loader \/ \E r : Fresh(r) /\ loader' = [loader EXCEPT ![a] = r]
    /\ mem' = mem \/ \E s \in SettingNames : \E v : mem' = [mem EXCEPT ![s] = v]

Step(a) ==
    /\ scene' = scene /\ Keeps(a) /\ (\E s : Becomes(a, s))
    /\ OffStays /\ AccessKept(a) /\ CopiesKept(a)

\* A request goes on with what was sent to it.
Carried(q, s) ==
    /\ "pc" \in DOMAIN s /\ "locks" \in DOMAIN s /\ "refs" \in DOMAIN s
    /\ "todo" \in DOMAIN q => "todo" \in DOMAIN s
    /\ \A k \in AskedFields : k \in DOMAIN q => k \in DOMAIN s /\ s[k] = q[k]

-----------------------------------------------------------------------------
(* Rows.                                                                    *)

\* A statement that leaves the models alone switches none on.
LEMMA SameModelsOff == ASSUME db'.models = db.models PROVE OffStays
  <1>1. load_disabled_models' = load_disabled_models
    BY DEF load_disabled_models, Enabled
  <1> QED BY <1>1 DEF OffStays

LEMMA RowByRowOff ==
    ASSUME \A i \in DOMAIN db.models : ~db.models[i].enabled =>
                \/ i \in DOMAIN db'.models /\ SameModel(db, db', i) /\ ~db'.models[i].enabled
                \/ \A j \in DOMAIN db'.models : ~(/\ db'.models[j].provider = db.models[i].provider
                                                  /\ db'.models[j].model = db.models[i].model)
                \/ SwitchesOn(<<db.models[i].provider, db.models[i].model>>)
    PROVE  OffStays
  <1> SUFFICES ASSUME NEW key \in load_disabled_models, key \notin load_disabled_models',
                      NEW j \in DOMAIN db'.models, <<db'.models[j].provider, db'.models[j].model>> = key
               PROVE  SwitchesOn(key)
    BY DEF OffStays
  <1>1. PICK i \in DOMAIN db.models : ~db.models[i].enabled /\ key = <<db.models[i].provider, db.models[i].model>>
    BY DEF load_disabled_models, Enabled
  <1>2. CASE i \in DOMAIN db'.models /\ SameModel(db, db', i) /\ ~db'.models[i].enabled
    <2>1. i \in DOMAIN db'.models \ Enabled(db'.models)
      BY <1>2 DEF Enabled
    <2>2. key = <<db'.models[i].provider, db'.models[i].model>>
      BY <1>1, <1>2 DEF SameModel
    <2> QED BY <2>1, <2>2 DEF load_disabled_models
  <1>3. ~(\A k \in DOMAIN db'.models : ~(/\ db'.models[k].provider = db.models[i].provider
                                         /\ db'.models[k].model = db.models[i].model))
    BY <1>1
  <1> QED BY <1>1, <1>2, <1>3

\* A statement about other tables.
LEMMA OtherTables ==
    ASSUME NEW a \in Admins, Rows(db), DOMAIN db' = Tables, db'.next \in Nat, db'.next >= db.next,
           db'.routes = db.routes, db'.models = db.models
    PROVE  Keeps(a) /\ OffStays
  <1>1. Rows(db')
    BY DEF Rows
  <1>2. Keeps(a)
    BY <1>1 DEF Keeps, SameModel
  <1> QED BY <1>2, SameModelsOff

LEMMA NoWrite ==
    ASSUME NEW a \in Admins, Rows(db), UNCHANGED db
    PROVE  Keeps(a) /\ OffStays /\ AccessKept(a)
  <1>1. Keeps(a) /\ OffStays
    <2>1. db.next \in Nat /\ DOMAIN db = Tables
      BY DEF Rows
    <2> QED BY <2>1, OtherTables
  <1> QED BY <1>1 DEF AccessKept

LEMMA SameAccess ==
    ASSUME NEW a \in Admins, db'.user_access = db.user_access
    PROVE  AccessKept(a)
  BY DEF AccessKept

LEMMA InsertElsewhere ==
    ASSUME NEW a \in Admins, Rows(db), NEW table \in {"providers", "rules", "prices"}, NEW row,
           db' = Inserted(table, row)
    PROVE  Keeps(a) /\ OffStays /\ AccessKept(a)
  <1>1. /\ DOMAIN db' = Tables /\ db'.next = db.next + 1
        /\ db'.routes = db.routes /\ db'.models = db.models /\ db'.user_access = db.user_access
    BY DEF Rows, Inserted, Tables
  <1> QED BY <1>1, OtherTables, SameAccess DEF Rows

LEMMA ChangeElsewhere ==
    ASSUME NEW a \in Admins, Rows(db), NEW table \in {"providers", "rules", "prices", "users", "settings", "ldap"}, NEW v,
           db' = [db EXCEPT ![table] = v]
    PROVE  Keeps(a) /\ OffStays /\ AccessKept(a)
  <1>1. /\ DOMAIN db' = Tables /\ db'.next = db.next
        /\ db'.routes = db.routes /\ db'.models = db.models /\ db'.user_access = db.user_access
    BY DEF Rows, Tables
  <1>2. db.next \in Nat
    BY DEF Rows
  <1> QED BY <1>1, <1>2, OtherTables, SameAccess

-----------------------------------------------------------------------------
(* Requests.                                                                *)

LEMMA PlainBecomes ==
    ASSUME NEW a \in Admins, NEW s, Requests, proc' = [proc EXCEPT ![a] = s],
           s = Idle \/ (/\ proc[a].pc # "idle" /\ Carried(proc[a], s)
                        /\ s.pc \notin Special /\ s.locks \subseteq proc[a].locks)
    PROVE  \E t : Becomes(a, t)
  <1>1. Well(s)
    <2>1. CASE s = Idle
      BY <2>1 DEF Well, Idle
    <2>2. CASE /\ proc[a].pc # "idle" /\ Carried(proc[a], s) /\ s.pc \notin Special
      <3>1. Well(proc[a])
        BY DEF Requests
      <3>2. /\ "op" \in DOMAIN s /\ s.op = proc[a].op /\ "todo" \in DOMAIN s
            /\ "fields" \in DOMAIN proc[a] => "fields" \in DOMAIN s /\ s.fields = proc[a].fields
            /\ "user" \in DOMAIN proc[a] => "user" \in DOMAIN s /\ s.user = proc[a].user
            /\ "rules" \in DOMAIN proc[a] => "rules" \in DOMAIN s /\ s.rules = proc[a].rules
        BY <2>2, <3>1 DEF Carried, AskedFields, Well
      <3> QED BY <2>2, <3>1, <3>2 DEF Well, Carried, Special, Refreshing
    <2> QED BY <2>1, <2>2
  <1>2. s.pc \notin Refreshing /\ (s.locks = {} \/ s.locks \subseteq proc[a].locks)
    BY DEF Idle, Refreshing, Special
  <1>3. Txn(db', s)
    BY <1>2 DEF Txn
  <1>4. ASSUME NEW b \in Admins \ {a} PROVE Apart(s, proc[b])
    <2>1. proc[a].locks \cap proc[b].locks = {}
      BY DEF Requests, Apart
    <2> QED BY <1>2, <2>1 DEF Apart
  <1>5. DOMAIN proc = Admins
    BY DEF Requests
  <1> QED BY <1>1, <1>3, <1>4, <1>5 DEF Becomes

\* After a statement that took effect.
LEMMA GoesToReload ==
    ASSUME NEW q, Well(q), q.pc # "idle"
    PROVE  LET s == [q EXCEPT !.pc = "reload", !.locks = {}, !.refs = {}]
           IN  Carried(q, s) /\ s.pc = "reload" /\ s.locks = {}
  BY DEF Carried, Well, AskedFields

LEMMA StableTxn ==
    ASSUME NEW a \in Admins, NEW b \in Admins \ {a}, Requests, Rows(db), Keeps(a)
    PROVE  Txn(db', proc[b])
  <1> DEFINE q == proc[b]
  <1> SUFFICES ASSUME q.pc \in Refreshing PROVE Txn(db', q)
    BY DEF Txn
  <1>1. Txn(db, q)
    BY DEF Requests
  <1>2. q.locks \subseteq Held(a)
    BY DEF Held
  <1>3. \A i \in DOMAIN db'.models : SameModel(db, db', i) \/ (i >= db.next /\ Unclaimed(a, db'.models[i]))
    BY DEF Keeps
  <1>4. db.next \in Nat /\ db'.next \in Nat /\ db.next <= db'.next
    BY DEF Keeps, Rows
  <1>5. \A i \in q.gone : i \in Nat /\ i < db'.next
    BY <1>1, <1>4 DEF Txn
  <1>6. ASSUME NEW i \in q.gone \cap DOMAIN db'.models PROVE db'.models[i].model \notin ToSet(q.listed)
    <2>1. i \in Nat /\ i < db.next
      BY <1>1 DEF Txn
    <2>2. SameModel(db, db', i)
      BY <1>3, <1>4, <2>1
    <2> QED BY <1>1, <2>2 DEF Txn, SameModel
  <1>7. ASSUME NEW i \in DOMAIN db'.models, db'.models[i].provider = Head(q.todo)
        PROVE  db'.models[i].model \notin q.added
    <2>1. CASE SameModel(db, db', i)
      BY <1>1, <1>7, <2>1 DEF Txn, SameModel
    <2>2. CASE Unclaimed(a, db'.models[i])
      BY <1>7, <2>2 DEF Unclaimed
    <2> QED BY <1>3, <2>1, <2>2
  <1>8. \A r \in q.reused : /\ r \in DOMAIN db'.routes /\ <<"route", r>> \in q.locks
                            /\ db'.routes[r].pattern = db.routes[r].pattern
    BY <1>1, <1>2 DEF Txn, Keeps
  <1>9. ASSUME NEW m \in ToSet(q.listed) PROVE Routed(db', q, m)
    <2>1. Routed(db, q, m)
      BY <1>1 DEF Txn
    <2> QED BY <2>1, <1>8 DEF Routed
  <1> HIDE DEF q
  <1> QED BY <1>1, <1>5, <1>6, <1>7, <1>8, <1>9 DEF Txn

LEMMA RequestsStep ==
    ASSUME NEW a \in Admins, Requests, Rows(db), Keeps(a), NEW s, Becomes(a, s)
    PROVE  Requests'
  <1>2. proc'[a] = s /\ \A b \in Admins \ {a} : proc'[b] = proc[b]
    BY DEF Becomes
  <1>3. DOMAIN proc' = Admins
    BY DEF Becomes
  <1>4. ASSUME NEW b \in Admins PROVE Well(proc'[b]) /\ Txn(db', proc'[b])
    <2>1. CASE b = a
      BY <1>2, <2>1 DEF Becomes
    <2>2. CASE b # a
      <3>1. Well(proc[b])
        BY DEF Requests
      <3> QED BY <1>2, <2>2, <3>1, StableTxn
    <2> QED BY <2>1, <2>2
  <1>5. ASSUME NEW b \in Admins, NEW c \in Admins, b # c PROVE Apart(proc'[b], proc'[c])
    <2>1. CASE b = a
      BY <1>2, <1>5, <2>1 DEF Becomes
    <2>2. CASE c = a
      <3>1. Apart(s, proc[b])
        BY <1>5, <2>2 DEF Becomes
      <3>2. Apart(proc[b], s)
        BY <3>1 DEF Apart
      <3> QED BY <1>2, <1>5, <2>2, <3>2
    <2>3. CASE b # a /\ c # a
      BY <1>2, <1>5, <2>3 DEF Requests
    <2> QED BY <2>1, <2>2, <2>3
  <1> QED BY <1>3, <1>4, <1>5 DEF Requests

-----------------------------------------------------------------------------
(* Copies of the access rules.                                              *)

LEMMA SafeStays ==
    ASSUME NEW rules, Safe(rules), granted \subseteq granted', unbound \subseteq unbound'
    PROVE  /\ rules \subseteq granted'
           /\ \A u \in Users \ unbound' : RulesOf(rules, u) # {}
  BY DEF Safe

LEMMA CopiesStep ==
    ASSUME NEW a \in Admins, Copies, scene' = scene, AccessKept(a), CopiesKept(a), Remember
    PROVE  Copies'
  <1>1. granted \subseteq granted' /\ unbound \subseteq unbound'
    BY DEF Remember
  <1>2. ASSUME NEW rules, Safe(rules)
        PROVE  /\ rules \subseteq granted'
               /\ \A u \in Users \ unbound' : RulesOf(rules, u) # {}
    BY <1>1, <1>2, SafeStays
  <1>3. Safe(db.user_access)'
    <2>1. db'.user_access \subseteq granted'
      BY DEF Remember
    <2>2. ASSUME NEW u \in Users \ unbound' PROVE RulesOf(db'.user_access, u) # {}
      <3>1. u \in Users \ unbound /\ ~Frees(a, u)
        BY <1>1 DEF Remember
      <3> QED BY <3>1 DEF AccessKept, Copies, Safe
    <2> QED BY <2>1, <2>2 DEF Safe
  <1>4. DOMAIN mem' = AllSections /\ mem'.user_access = mem.user_access /\ mem'.admin_ids = mem.admin_ids
    BY DEF Copies, CopiesKept, SettingNames, AllSections
  <1>5. /\ Safe(mem.user_access)'
        /\ (mem.admin_ids \subseteq unbound)' /\ (load_admin_ids \subseteq unbound)'
    <2>1. Safe(mem.user_access)'
      BY <1>2, <1>4 DEF Copies, Safe
    <2>2. (load_admin_ids \subseteq unbound)'
      BY DEF Remember
    <2> QED BY <1>1, <1>4, <2>1, <2>2 DEF Copies
  <1>6. DOMAIN loader' = Loaders
    BY DEF Copies, CopiesKept
  <1>7. ASSUME NEW l \in Loaders
        PROVE  /\ "i" \in DOMAIN loader'[l] /\ "snap" \in DOMAIN loader'[l] /\ "last" \in DOMAIN loader'[l]
               /\ loader'[l].snap.read => SafeSnap(Section(loader[l].i), loader[l].snap.value)'
    <2>1. CASE loader'[l] = loader[l]
      <3>1. loader'[l].snap.read => SafeSnap(Section(loader[l].i), loader[l].snap.value)
        BY <2>1 DEF Copies
      <3>2. Section(loader[l].i)' = Section(loader[l].i)
        BY <2>1 DEF Section, Now
      <3>3. Safe(loader[l].snap.value) => Safe(loader[l].snap.value)'
        BY <1>2, <2>1 DEF Safe
      <3>4. SafeSnap(Section(loader[l].i), loader[l].snap.value) => SafeSnap(Section(loader[l].i), loader[l].snap.value)'
        BY <1>1, <2>1, <3>2, <3>3 DEF SafeSnap
      <3> QED BY <2>1, <3>1, <3>4 DEF Copies
    <2>2. CASE Fresh(loader'[l])
      BY <2>2 DEF Fresh
    <2> QED BY <2>1, <2>2 DEF Copies, CopiesKept
  <1> QED BY <1>3, <1>4, <1>5, <1>6, <1>7 DEF Copies

LEMMA StepKeeps ==
    ASSUME NEW a \in Admins, CInv, Step(a), Remember
    PROVE  CInv'
  <1>1. scene' \in DOMAIN Scenes
    BY DEF CInv, Step
  <1>2. Rows(db)'
    BY DEF Step, Keeps
  <1>3. Requests'
    BY RequestsStep DEF CInv, Step
  <1>4. Copies'
    BY CopiesStep DEF CInv, Step
  <1> QED BY <1>1, <1>2, <1>3, <1>4 DEF CInv

-----------------------------------------------------------------------------
(* One lemma for each operation.  First those that end a statement or only  *)
(* go on.                                                                   *)

LEMMA FreshReloads == /\ Fresh(AtRest) /\ Fresh(FullReload) /\ Fresh(LdapReload)
  BY DEF Fresh, AtRest, FullReload, LdapReload, From, NotRead

LEMMA GoOn ==
    ASSUME NEW a \in Admins, CInv, NEW s, Become(a, s), UNCHANGED db, CopiesKept(a),
           s = Idle \/ (/\ proc[a].pc # "idle" /\ Carried(proc[a], s)
                        /\ s.pc \notin Special /\ s.locks \subseteq proc[a].locks)
    PROVE  Step(a)
  <1>1. Requests /\ Rows(db) /\ scene' = scene /\ proc' = [proc EXCEPT ![a] = s]
    BY DEF CInv, Become
  <1>2. \E t : Becomes(a, t)
    BY <1>1, PlainBecomes
  <1> QED BY <1>1, <1>2, NoWrite DEF Step

LEMMA AnswerStep ==
    ASSUME NEW a \in Admins, CInv, Answer(a), UNCHANGED <<db, mem>>
    PROVE  Step(a)
  BY GoOn DEF Answer, CopiesKept

LEMMA ReloadStep ==
    ASSUME NEW a \in Admins, CInv, proc[a].pc # "idle", NEW how, Fresh(how), Reloads(a, how), UNCHANGED mem,
           Keeps(a), OffStays, AccessKept(a)
    PROVE  Step(a)
  <1> DEFINE s == [proc[a] EXCEPT !.pc = "reload", !.locks = {}, !.refs = {}]
  <1>1. Requests /\ scene' = scene /\ proc' = [proc EXCEPT ![a] = s] /\ Well(proc[a])
    BY DEF CInv, Become, Reloads, Requests
  <1>2. Carried(proc[a], s) /\ s.pc = "reload" /\ s.locks = {}
    BY <1>1, GoesToReload
  <1>3. s.pc \notin Special /\ s.locks \subseteq proc[a].locks
    BY <1>2 DEF Special, Refreshing
  <1> HIDE DEF s
  <1>4. \E t : Becomes(a, t)
    BY <1>1, <1>2, <1>3, PlainBecomes
  <1>5. CopiesKept(a)
    BY DEF CopiesKept, Reloads
  <1> QED BY <1>1, <1>4, <1>5 DEF Step

LEMMA SaveStep ==
    ASSUME NEW a \in Admins, CInv, proc[a].pc # "idle", UNCHANGED mem,
           \/ Reloads(a, FullReload) /\ Keeps(a) /\ OffStays /\ AccessKept(a)
           \/ UNCHANGED db /\ Answer(a)
    PROVE  Step(a)
  BY AnswerStep, ReloadStep, FreshReloads

LEMMA BeginStep ==
    ASSUME NEW a \in Admins, CInv, NEW req \in Now("asks"), Begin(a, req)
    PROVE  Step(a)
  <1>1. Requests /\ Rows(db) /\ scene' = scene /\ UNCHANGED <<db, mem, loader>> /\ proc[a].pc = "idle"
    BY DEF CInv, Begin, At
  <1>2. CopiesKept(a) /\ Keeps(a) /\ OffStays /\ AccessKept(a)
    BY <1>1, NoWrite DEF CopiesKept
  <1>3. CASE Malformed(req)
    <2>1. proc' = proc
      BY <1>3 DEF Begin
    <2>3. Becomes(a, proc[a])
      BY <1>1, <2>1 DEF Becomes, Requests
    <2> QED BY <1>1, <1>2, <2>3 DEF Step
  <1>4. CASE ~Malformed(req)
    <2> DEFINE s == Over([pc |-> FirstStep(req), todo |-> Lookups(req)], Over(req, Idle))
               g == Over(req, Idle)
               f == [pc |-> FirstStep(req), todo |-> Lookups(req)]
    <2>1. proc' = [proc EXCEPT ![a] = s]
      BY <1>4 DEF Begin
    <2>2. /\ "op" \in DOMAIN req /\ "locks" \notin DOMAIN req /\ "refs" \notin DOMAIN req
          /\ "pc" \notin DOMAIN req /\ "todo" \notin DOMAIN req
          /\ req.op = "create_route" =>
                "fields" \in DOMAIN req /\ "pattern" \in DOMAIN req.fields /\ "enabled" \in DOMAIN req.fields
          /\ req.op = "put_user_access" =>
                "user" \in DOMAIN req /\ "rules" \in DOMAIN req /\ \A r \in req.rules : "user" \in DOMAIN r /\ r.user = req.user
      BY RequestsAssumption DEF CInv, Now
    <2>3. /\ DOMAIN f = {"pc", "todo"} /\ f.pc = FirstStep(req)
          /\ DOMAIN Idle = {"pc", "locks", "refs"} /\ Idle.locks = {}
      BY DEF Idle
    <2>4. /\ DOMAIN g = DOMAIN req \cup {"pc", "locks", "refs"} /\ g.locks = {}
          /\ \A k \in DOMAIN req : g[k] = req[k]
      BY <2>2, <2>3 DEF Over
    <2>5. /\ DOMAIN s = DOMAIN req \cup {"pc", "locks", "refs", "todo"} /\ s.locks = {} /\ s.pc = FirstStep(req)
          /\ \A k \in DOMAIN req : s[k] = req[k]
      <3> HIDE DEF f, g
      <3>1. s = Over(f, g)
        BY DEF f, g
      <3> QED BY <2>2, <2>3, <2>4, <3>1 DEF Over
    <2>6. FirstStep(req) \in {"find_rule", "find_user", "list", "fetch", "write", "attrs", "check"}
      BY DEF FirstStep
    <2> HIDE DEF s
    <2>7. Well(s)
      BY <2>2, <2>5, <2>6 DEF Well
    <2>8. s.pc \notin Refreshing
      BY <2>5, <2>6 DEF Refreshing
    <2>9. Txn(db', s) /\ \A b \in Admins \ {a} : Apart(s, proc[b])
      BY <2>5, <2>8 DEF Txn, Apart
    <2>10. Becomes(a, s)
      BY <1>1, <2>1, <2>7, <2>9 DEF Becomes, Requests
    <2> QED BY <1>1, <1>2, <2>10 DEF Step
  <1> QED BY <1>3, <1>4

LEMMA CheckStep == ASSUME NEW a \in Admins, CInv, Check(a) PROVE Step(a)
  <1>1. CASE Answer(a)
    BY <1>1, AnswerStep DEF Check
  <1>2. CASE ~Answer(a)
    <2> DEFINE pc == IF Len(proc[a].todo) = 1 THEN "write" ELSE proc[a].pc
               s == [proc[a] EXCEPT !.todo = Tail(proc[a].todo), !.pc = pc]
    <2>1. Become(a, s) /\ UNCHANGED <<db, mem, loader>> /\ proc[a].pc = "check"
      BY <1>2 DEF Check, At
    <2>2. Well(proc[a]) /\ pc \in {"write", "check"}
      BY <2>1 DEF CInv, Requests
    <2>3. Carried(proc[a], s) /\ s.pc = pc /\ s.locks = proc[a].locks
      <3> HIDE DEF pc
      <3> QED BY <2>1, <2>2 DEF Carried, Well, AskedFields
    <2>4. s.pc \notin Special
      BY <2>2, <2>3 DEF Special, Refreshing
    <2> HIDE DEF s
    <2> QED BY <2>1, <2>3, <2>4, GoOn DEF CopiesKept
  <1> QED BY <1>1, <1>2

LEMMA FindRuleStep == ASSUME NEW a \in Admins, CInv, find_rule(a) PROVE Step(a)
  <1>1. CASE Answer(a)
    BY <1>1, AnswerStep DEF find_rule
  <1>2. CASE ~Answer(a)
    <2> DEFINE patch == PatchedFor(Field(proc[a].patch, "scope", db.rules[proc[a].id].scope), proc[a].patch)
               s == [proc[a] EXCEPT !.pc = "write", !.patch = patch]
    <2>1. Become(a, s) /\ UNCHANGED <<db, mem, loader>> /\ proc[a].pc = "find_rule"
      BY <1>2 DEF find_rule, At
    <2>2. Well(proc[a])
      BY DEF CInv, Requests
    <2>3. Carried(proc[a], s) /\ s.pc = "write" /\ s.locks = proc[a].locks
      <3> HIDE DEF patch
      <3> QED BY <2>2 DEF Carried, Well, AskedFields
    <2>4. s.pc \notin Special
      BY <2>3 DEF Special, Refreshing
    <2> HIDE DEF s
    <2> QED BY <2>1, <2>3, <2>4, GoOn DEF CopiesKept
  <1> QED BY <1>1, <1>2

LEMMA NextProviderStep ==
    ASSUME NEW a \in Admins, CInv, proc[a].pc # "idle", NextProvider(a), UNCHANGED db, CopiesKept(a)
    PROVE  Step(a)
  <1>1. CASE Become(a, Idle)
    BY <1>1, GoOn
  <1>2. CASE ~Become(a, Idle)
    <2> DEFINE todo == Tail(proc[a].todo)
               s == [proc[a] EXCEPT !.pc = "fetch", !.todo = todo]
    <2>1. Become(a, s)
      BY <1>2 DEF NextProvider
    <2>2. Well(proc[a])
      BY DEF CInv, Requests
    <2>3. Carried(proc[a], s) /\ s.pc = "fetch" /\ s.locks = proc[a].locks
      <3> HIDE DEF todo
      <3> QED BY <2>2 DEF Carried, Well, AskedFields
    <2>4. s.pc \notin Special
      BY <2>3 DEF Special, Refreshing
    <2> HIDE DEF s
    <2> QED BY <2>1, <2>3, <2>4, GoOn
  <1> QED BY <1>1, <1>2

LEMMA ListProvidersStep == ASSUME NEW a \in Admins, CInv, ListProviders(a) PROVE Step(a)
  <1>1. CASE Answer(a)
    BY <1>1, AnswerStep DEF ListProviders
  <1>2. CASE ~Answer(a)
    <2> DEFINE todo == SetToSortSeq(Enabled(db.providers), <)
               s == [proc[a] EXCEPT !.pc = "fetch", !.todo = todo]
    <2>1. Become(a, s) /\ UNCHANGED <<db, mem, loader>> /\ proc[a].pc = "list"
      BY <1>2 DEF ListProviders, At
    <2>2. Well(proc[a])
      BY DEF CInv, Requests
    <2>3. Carried(proc[a], s) /\ s.pc = "fetch" /\ s.locks = proc[a].locks
      <3> HIDE DEF todo
      <3> QED BY <2>2 DEF Carried, Well, AskedFields
    <2>4. s.pc \notin Special
      BY <2>3 DEF Special, Refreshing
    <2> HIDE DEF s
    <2> QED BY <2>1, <2>3, <2>4, GoOn DEF CopiesKept
  <1> QED BY <1>1, <1>2

LEMMA AfterReloadStep == ASSUME NEW a \in Admins, CInv, AfterReload(a) PROVE Step(a)
  <1>1. CopiesKept(a) /\ UNCHANGED db /\ proc[a].pc = "reload"
    BY FreshReloads DEF AfterReload, CopiesKept, At
  <1>2. Become(a, Idle) \/ NextProvider(a) \/ Goto(a, "attrs")
    BY DEF AfterReload
  <1>3. CASE Become(a, Idle)
    BY <1>1, <1>3, GoOn
  <1>4. CASE NextProvider(a)
    BY <1>1, <1>4, NextProviderStep
  <1>5. CASE Goto(a, "attrs")
    <2> DEFINE s == [proc[a] EXCEPT !.pc = "attrs"]
    <2>1. Well(proc[a])
      BY DEF CInv, Requests
    <2>2. Carried(proc[a], s) /\ s.pc = "attrs" /\ s.locks = proc[a].locks
      BY <1>1, <2>1 DEF Carried, Well, AskedFields
    <2>3. s.pc \notin Special
      BY <2>2 DEF Special, Refreshing
    <2>4. Become(a, s)
      BY <1>5 DEF Goto
    <2> HIDE DEF s
    <2> QED BY <1>1, <2>2, <2>3, <2>4, GoOn
  <1> QED BY <1>2, <1>3, <1>4, <1>5

LEMMA CutShortStep == ASSUME NEW a \in Admins, CInv, CutShort(a) PROVE Step(a)
  <1>1. CopiesKept(a) /\ UNCHANGED db /\ scene' = scene /\ proc' = [proc EXCEPT ![a] = Idle]
    BY FreshReloads DEF CutShort, CopiesKept
  <1>2. Requests /\ Rows(db)
    BY DEF CInv
  <1>3. \E t : Becomes(a, t)
    BY <1>1, <1>2, PlainBecomes
  <1> QED BY <1>1, <1>2, <1>3, NoWrite DEF Step

-----------------------------------------------------------------------------
(* Statements about other tables.                                           *)

LEMMA ElsewhereStep ==
    ASSUME NEW a \in Admins, CInv, proc[a].pc # "idle", UNCHANGED mem,
           NEW table \in {"providers", "rules", "prices", "users", "settings", "ldap"},
           \/ UNCHANGED db /\ Answer(a)
           \/ Reloads(a, FullReload) /\ \E v : db' = [db EXCEPT ![table] = v]
           \/ Reloads(a, FullReload) /\ table \notin {"users", "settings", "ldap"} /\ \E row : db' = Inserted(table, row)
    PROVE  Step(a)
  <1>1. Rows(db)
    BY DEF CInv
  <1>2. CASE UNCHANGED db /\ Answer(a)
    BY <1>2, SaveStep
  <1>3. CASE Reloads(a, FullReload) /\ \E v : db' = [db EXCEPT ![table] = v]
    BY <1>1, <1>3, ChangeElsewhere, SaveStep
  <1>4. CASE Reloads(a, FullReload) /\ table \notin {"users", "settings", "ldap"} /\ \E row : db' = Inserted(table, row)
    <2>1. Keeps(a) /\ OffStays /\ AccessKept(a)
      BY <1>1, <1>4, InsertElsewhere
    <2> QED BY <1>4, <2>1, SaveStep
  <1> QED BY <1>2, <1>3, <1>4

LEMMA CreateProviderStep == ASSUME NEW a \in Admins, CInv, create_provider(a) PROVE Step(a)
  <1>1. proc[a].pc = "write" /\ UNCHANGED mem
    BY DEF create_provider, Save, Asked, At
  <1>2. \/ UNCHANGED db /\ Answer(a)
        \/ Reloads(a, FullReload) /\ db' = Inserted("providers", proc[a].fields)
    BY DEF create_provider, Save, insert_provider
  <1> QED BY <1>1, <1>2, ElsewhereStep

LEMMA UpdateProviderStep == ASSUME NEW a \in Admins, CInv, update_provider(a) PROVE Step(a)
  <1>1. proc[a].pc = "write" /\ UNCHANGED mem
    BY DEF update_provider, Save, Asked, At
  <1>2. \/ UNCHANGED db /\ Answer(a)
        \/ Reloads(a, FullReload) /\ \E v : db' = [db EXCEPT !["providers"] = v]
    BY DEF update_provider, Save, set_provider, Updated
  <1> QED BY <1>1, <1>2, ElsewhereStep

LEMMA CreateRateLimitStep == ASSUME NEW a \in Admins, CInv, create_rate_limit(a) PROVE Step(a)
  <1>1. proc[a].pc = "write" /\ UNCHANGED mem
    BY DEF create_rate_limit, Save, Asked, At
  <1>2. Reloads(a, FullReload) /\ db' = Inserted("rules", proc[a].fields)
    BY DEF create_rate_limit, Save, insert_rate_rule
  <1> QED BY <1>1, <1>2, ElsewhereStep

LEMMA UpdateRateLimitStep == ASSUME NEW a \in Admins, CInv, update_rate_limit(a) PROVE Step(a)
  <1>1. proc[a].pc = "write" /\ UNCHANGED mem
    BY DEF update_rate_limit, Save, Asked, At
  <1>2. \/ UNCHANGED db /\ Answer(a)
        \/ Reloads(a, FullReload) /\ \E v : db' = [db EXCEPT !["rules"] = v]
    BY DEF update_rate_limit, Save, set_rate_rule, Updated
  <1> QED BY <1>1, <1>2, ElsewhereStep

LEMMA DeleteRateLimitStep == ASSUME NEW a \in Admins, CInv, delete_rate_limit(a) PROVE Step(a)
  <1>1. proc[a].pc = "write" /\ UNCHANGED mem
    BY DEF delete_rate_limit, Save, Asked, At
  <1>2. \/ UNCHANGED db /\ Answer(a)
        \/ Reloads(a, FullReload) /\ \E v : db' = [db EXCEPT !["rules"] = v]
    BY DEF delete_rate_limit, Save, drop_rate_rule, Deleted
  <1> QED BY <1>1, <1>2, ElsewhereStep

LEMMA CreatePriceStep == ASSUME NEW a \in Admins, CInv, create_price(a) PROVE Step(a)
  <1>1. proc[a].pc = "write" /\ UNCHANGED mem
    BY DEF create_price, Save, Asked, At
  <1>2. Reloads(a, FullReload) /\ db' = Inserted("prices", proc[a].fields)
    BY DEF create_price, Save, insert_price
  <1> QED BY <1>1, <1>2, ElsewhereStep

LEMMA DeletePriceStep == ASSUME NEW a \in Admins, CInv, delete_price(a) PROVE Step(a)
  <1>1. proc[a].pc = "write" /\ UNCHANGED mem
    BY DEF delete_price, Save, Asked, At
  <1>2. \/ UNCHANGED db /\ Answer(a)
        \/ Reloads(a, FullReload) /\ \E v : db' = [db EXCEPT !["prices"] = v]
    BY DEF delete_price, Save, drop_price, Deleted
  <1> QED BY <1>1, <1>2, ElsewhereStep

LEMMA PutLdapStep == ASSUME NEW a \in Admins, CInv, put_ldap_settings(a) PROVE Step(a)
  <1>1. proc[a].pc = "write" /\ UNCHANGED mem /\ Reloads(a, LdapReload) /\ Rows(db)
    BY DEF put_ldap_settings, Asked, At, CInv
  <1>2. \E v : db' = [db EXCEPT !["ldap"] = v]
    BY DEF put_ldap_settings, save_ldap_settings
  <1>3. Keeps(a) /\ OffStays /\ AccessKept(a)
    BY <1>1, <1>2, ChangeElsewhere
  <1> QED BY <1>1, <1>3, ReloadStep, FreshReloads

LEMMA SaveSettingStep == ASSUME NEW a \in Admins, CInv, save_setting(a) PROVE Step(a)
  <1> DEFINE s == [proc[a] EXCEPT !.pc = "put"]
  <1>1. /\ proc[a].pc = "write" /\ UNCHANGED <<mem, loader>> /\ scene' = scene /\ Rows(db) /\ Requests
        /\ proc[a].op \in DOMAIN SettingOf /\ proc' = [proc EXCEPT ![a] = s] /\ Well(proc[a])
    BY DEF save_setting, At, CInv, Goto, Become, Requests
  <1>2. \E v : db' = [db EXCEPT !["settings"] = v]
    BY DEF save_setting, save_system_setting
  <1>3. Keeps(a) /\ OffStays /\ AccessKept(a)
    BY <1>1, <1>2, ChangeElsewhere
  <1>4. /\ s.pc = "put" /\ s.locks = proc[a].locks /\ s.op = proc[a].op /\ DOMAIN s = DOMAIN proc[a]
        /\ "fields" \in DOMAIN proc[a] => s.fields = proc[a].fields
        /\ "user" \in DOMAIN proc[a] => s.user = proc[a].user
        /\ "rules" \in DOMAIN proc[a] => s.rules = proc[a].rules
    BY <1>1 DEF Well
  <1> HIDE DEF s
  <1>5. Well(s)
    BY <1>1, <1>4 DEF Well
  <1>6. Txn(db', s) /\ \A b \in Admins \ {a} : Apart(s, proc[b])
    BY <1>1, <1>4 DEF Txn, Apart, Refreshing, Requests
  <1>7. Becomes(a, s)
    BY <1>1, <1>5, <1>6 DEF Becomes, Requests
  <1> QED BY <1>1, <1>3, <1>7 DEF Step, CopiesKept

LEMMA PutSettingStep == ASSUME NEW a \in Admins, CInv, put_setting(a) PROVE Step(a)
  <1>1. /\ proc[a].pc = "put" /\ UNCHANGED <<db, loader>> /\ Become(a, Idle)
        /\ mem' = [mem EXCEPT ![SettingOf[proc[a].op]] = proc[a].value]
    BY DEF put_setting, At, Answer
  <1>2. proc[a].op \in DOMAIN SettingOf
    BY <1>1 DEF CInv, Requests, Well
  <1>3. SettingOf[proc[a].op] \in SettingNames
    BY <1>2 DEF SettingOf, SettingNames
  <1>4. CopiesKept(a)
    BY <1>1, <1>3 DEF CopiesKept
  <1> QED BY <1>1, <1>4, GoOn

-----------------------------------------------------------------------------
(* Access.                                                                  *)

LEMMA SeeAccessStep == ASSUME NEW a \in Admins, CInv, SeeAccess(a) PROVE Step(a)
  <1> DEFINE old == RulesOf(db.user_access, proc[a].user)
             f == [pc |-> "clear", gone |-> old]
             s == Over(f, proc[a])
  <1>1. /\ proc[a].pc = "write" /\ proc[a].op = "put_user_access"
        /\ UNCHANGED <<db, mem, loader>> /\ scene' = scene /\ Rows(db) /\ Requests
        /\ proc' = [proc EXCEPT ![a] = s] /\ Well(proc[a])
    BY DEF SeeAccess, Asked, At, CInv, Become, Requests
  <1>2. DOMAIN f = {"pc", "gone"} /\ f.pc = "clear" /\ f.gone = old
    OBVIOUS
  <1>3. /\ DOMAIN s = DOMAIN proc[a] \cup {"pc", "gone"}
        /\ s.pc = "clear" /\ s.gone = old
        /\ \A k \in DOMAIN proc[a] : k \notin {"pc", "gone"} => s[k] = proc[a][k]
    <2> HIDE DEF f
    <2> QED BY <1>2 DEF Over
  <1> HIDE DEF s
  <1>4. s.op = "put_user_access" /\ s.user = proc[a].user /\ s.rules = proc[a].rules /\ s.locks = proc[a].locks
    BY <1>1, <1>3 DEF Well
  <1>5. \A r \in old : r.user = proc[a].user
    BY DEF RulesOf
  <1> HIDE DEF old
  <1>6. Well(s)
    BY <1>1, <1>3, <1>4, <1>5 DEF Well
  <1>7. ASSUME NEW b \in Admins \ {a} PROVE Apart(s, proc[b])
    BY <1>1, <1>3, <1>4 DEF Apart, Refreshing, Requests
  <1>8. Txn(db', s)
    BY <1>3 DEF Txn, Refreshing
  <1>9. Becomes(a, s)
    BY <1>1, <1>6, <1>7, <1>8 DEF Becomes, Requests
  <1> QED BY <1>1, <1>9, NoWrite DEF Step, CopiesKept

LEMMA ClearAccessStep == ASSUME NEW a \in Admins, CInv, ClearAccess(a) PROVE Step(a)
  <1> DEFINE s == [proc[a] EXCEPT !.pc = "grant", !.locks = AccessRows(proc[a].gone)]
  <1>1. /\ proc[a].pc = "clear"
        /\ UNCHANGED <<db, mem, loader>> /\ scene' = scene /\ Rows(db) /\ Requests
        /\ proc' = [proc EXCEPT ![a] = s] /\ Well(proc[a]) /\ AccessRows(proc[a].gone) \cap Held(a) = {}
    BY DEF ClearAccess, At, CInv, Become, Requests
  <1>2. /\ DOMAIN s = DOMAIN proc[a]
        /\ "pc" \in DOMAIN proc[a] => s.pc = "grant"
        /\ "locks" \in DOMAIN proc[a] => s.locks = AccessRows(proc[a].gone)
        /\ \A k \in DOMAIN proc[a] : k \notin {"pc", "locks"} => s[k] = proc[a][k]
    OBVIOUS
  <1> HIDE DEF s
  <1>3. s.pc = "grant" /\ s.locks = AccessRows(proc[a].gone)
    BY <1>1, <1>2 DEF Well
  <1>4. Well(s)
    BY <1>1, <1>2, <1>3 DEF Well
  <1>5. ASSUME NEW b \in Admins \ {a} PROVE Apart(s, proc[b])
    BY <1>1, <1>3 DEF Apart, Refreshing, Held
  <1>6. Txn(db', s)
    BY <1>3 DEF Txn, Refreshing
  <1>7. Becomes(a, s)
    BY <1>1, <1>4, <1>5, <1>6 DEF Becomes, Requests
  <1> QED BY <1>1, <1>7, NoWrite DEF Step, CopiesKept

LEMMA GrantAccessStep == ASSUME NEW a \in Admins, CInv, GrantAccess(a) PROVE Step(a)
  <1>1. /\ proc[a].pc = "grant" /\ UNCHANGED mem /\ Rows(db) /\ Well(proc[a])
    BY DEF GrantAccess, At, Save, CInv, Requests
  <1>2. CASE UNCHANGED db /\ Answer(a)
    BY <1>1, <1>2, SaveStep
  <1>3. CASE ~(UNCHANGED db /\ Answer(a))
    <2> DEFINE new == (db.user_access \ proc[a].gone) \cup NewRules(a)
    <2>1. Reloads(a, FullReload) /\ db' = [db EXCEPT !.user_access = new, !.next = @ + 1]
      BY <1>3 DEF GrantAccess, Save
    <2>2. /\ DOMAIN db' = Tables /\ db'.next = db.next + 1
          /\ db'.routes = db.routes /\ db'.models = db.models /\ db'.user_access = new
      BY <1>1, <2>1 DEF Rows, Tables
    <2>3. Keeps(a) /\ OffStays
      <3>1. db.next \in Nat
        BY <1>1 DEF Rows
      <3> QED BY <1>1, <2>2, <3>1, OtherTables
    <2>4. ASSUME NEW u \in Users, RulesOf(db.user_access, u) # {}, RulesOf(new, u) = {}
          PROVE  Frees(a, u)
      <3>1. /\ \A r \in proc[a].rules : "user" \in DOMAIN r /\ r.user = proc[a].user
            /\ \A r \in proc[a].gone : r.user = proc[a].user
        BY <1>1 DEF Well
      <3>2. proc[a].user = u
        BY <2>4, <3>1 DEF RulesOf
      <3>3. ASSUME NEW r \in proc[a].rules PROVE FALSE
        <4>1. IsThere(a, r)
          <5>1. SUFFICES ASSUME ~IsThere(a, r) PROVE FALSE
            OBVIOUS
          <5> DEFINE e == Over([row |-> db.next], r)
          <5>2. e \in NewRules(a)
            BY <5>1, <3>3 DEF NewRules
          <5>3. e.user = r.user
            BY <3>1, <3>3 DEF Over
          <5> QED BY <2>4, <3>1, <3>2, <3>3, <5>2, <5>3 DEF RulesOf
        <4> QED BY <2>4, <3>2, <4>1 DEF IsThere, RulesOf
      <3> QED BY <1>1, <3>2, <3>3 DEF Frees, At
    <2>5. AccessKept(a)
      BY <2>2, <2>4 DEF AccessKept
    <2> QED BY <1>1, <2>1, <2>3, <2>5, SaveStep
  <1> QED BY <1>2, <1>3

-----------------------------------------------------------------------------
(* Administrators.                                                          *)

\* What a request may become without holding more than before.
Plain(q, s) == s = Idle \/ (q.pc # "idle" /\ Carried(q, s) /\ s.pc \notin Special /\ s.locks \subseteq q.locks)

LEMMA PersonStep ==
    ASSUME NEW a \in Admins, CInv, NEW s, Become(a, s), UNCHANGED <<mem, loader>>, Plain(proc[a], s),
           \E v : db' = [db EXCEPT !["users"] = v]
    PROVE  Step(a)
  <1>1. Requests /\ Rows(db) /\ scene' = scene /\ proc' = [proc EXCEPT ![a] = s]
    BY DEF CInv, Become
  <1>2. \E t : Becomes(a, t)
    BY <1>1, PlainBecomes DEF Plain
  <1>3. Keeps(a) /\ OffStays /\ AccessKept(a)
    BY <1>1, ChangeElsewhere
  <1> QED BY <1>1, <1>2, <1>3 DEF Step, CopiesKept

\* More fields, and a place where no rows are held.
LEMMA GoesOnPlain ==
    ASSUME NEW q, Well(q), q.pc # "idle", NEW f, DOMAIN f \cap AskedFields = {},
           "pc" \in DOMAIN f, f.pc \notin Special, "locks" \notin DOMAIN f
    PROVE  Plain(q, Over(f, q))
  <1> DEFINE s == Over(f, q)
  <1>1. DOMAIN s = DOMAIN f \cup DOMAIN q /\ \A k \in DOMAIN s : s[k] = IF k \in DOMAIN f THEN f[k] ELSE q[k]
    BY DEF Over
  <1> HIDE DEF s
  <1>2. s.pc = f.pc /\ s.locks = q.locks
    BY <1>1 DEF Well
  <1>3. Carried(q, s)
    BY <1>1 DEF Carried, Well
  <1> QED BY <1>2, <1>3 DEF Plain, s

LEMMA AdminStepPlain ==
    ASSUME NEW a \in Admins, CInv, proc[a].pc # "idle", NEW was, AdminStep(a, was)
    PROVE  \E s : Become(a, s) /\ Plain(proc[a], s)
  <1>1. Well(proc[a])
    BY DEF CInv, Requests
  <1>2. CASE Become(a, Idle)
    BY <1>2 DEF Plain
  <1>3. CASE ~Become(a, Idle)
    <2> DEFINE f == [pc |-> "is_admin"]
    <2>1. Become(a, Over(f, proc[a]))
      BY <1>3 DEF AdminStep
    <2>2. DOMAIN f = {"pc"} /\ f.pc = "is_admin"
      OBVIOUS
    <2> HIDE DEF f
    <2>3. Plain(proc[a], Over(f, proc[a]))
      BY <1>1, <2>2, GoesOnPlain DEF AskedFields, Special, Refreshing
    <2> QED BY <2>1, <2>3
  <1> QED BY <1>2, <1>3

LEMMA FindUserStep == ASSUME NEW a \in Admins, CInv, find_user(a) PROVE Step(a)
  <1>1. proc[a].pc = "find_user" /\ UNCHANGED <<db, mem, loader>> /\ Well(proc[a])
    BY DEF find_user, At, CInv, Requests
  <1>2. \E s : Become(a, s) /\ Plain(proc[a], s)
    <2>1. CASE Become(a, Idle)
      BY <2>1 DEF Plain
    <2>2. CASE \E was : AdminStep(a, was)
      BY <1>1, <2>2, AdminStepPlain
    <2>3. CASE \E was : Become(a, Over([pc |-> "write", was |-> was], proc[a]))
      <3>1. PICK was : Become(a, Over([pc |-> "write", was |-> was], proc[a]))
        BY <2>3
      <3> DEFINE f == [pc |-> "write", was |-> was]
      <3>2. DOMAIN f = {"pc", "was"} /\ f.pc = "write" /\ Become(a, Over(f, proc[a]))
        BY <3>1
      <3> HIDE DEF f
      <3>3. Plain(proc[a], Over(f, proc[a]))
        BY <1>1, <3>2, GoesOnPlain DEF AskedFields, Special, Refreshing
      <3> QED BY <3>2, <3>3
    <2> QED BY <2>1, <2>2, <2>3 DEF find_user
  <1> QED BY <1>1, <1>2, GoOn DEF Plain, CopiesKept

LEMMA SetStatusStep == ASSUME NEW a \in Admins, CInv, set_status(a) PROVE Step(a)
  <1>1. proc[a].pc = "write" /\ UNCHANGED <<mem, loader>> /\ \E was : AdminStep(a, was)
    BY DEF set_status, Asked, At
  <1>2. \E v : db' = [db EXCEPT !["users"] = v]
    BY DEF set_status
  <1> QED BY <1>1, <1>2, AdminStepPlain, PersonStep

LEMMA SetIsAdminStep == ASSUME NEW a \in Admins, CInv, set_is_admin(a) PROVE Step(a)
  <1>1. proc[a].pc = "is_admin" /\ UNCHANGED mem
    BY DEF set_is_admin, Save, At
  <1>2. Reloads(a, FullReload) /\ \E v : db' = [db EXCEPT !["users"] = v]
    BY DEF set_is_admin, Save
  <1> QED BY <1>1, <1>2, ElsewhereStep

LEMMA UpsertLdapStep == ASSUME NEW a \in Admins, CInv, upsert_ldap(a) PROVE Step(a)
  <1>1. Become(a, Idle) /\ UNCHANGED <<mem, loader>>
    BY DEF upsert_ldap, Answer
  <1>2. \E v : db' = [db EXCEPT !["users"] = v]
    BY DEF upsert_ldap
  <1> QED BY <1>1, <1>2, PersonStep DEF Plain

-----------------------------------------------------------------------------
(* Routes and providers.                                                    *)

LEMMA RoutesWritten ==
    ASSUME NEW a \in Admins, Rows(db), DOMAIN db' = Tables, db'.next \in Nat, db'.next >= db.next,
           db'.models = db.models,
           \A r \in DOMAIN db'.routes : /\ r \in Nat /\ r < db'.next
                                        /\ "pattern" \in DOMAIN db'.routes[r] /\ "enabled" \in DOMAIN db'.routes[r],
           \A r \in DOMAIN db.routes : <<"route", r>> \in Held(a) =>
                r \in DOMAIN db'.routes /\ db'.routes[r].pattern = db.routes[r].pattern
    PROVE  Keeps(a) /\ OffStays
  <1>1. Rows(db')
    BY DEF Rows
  <1>2. Keeps(a)
    BY <1>1 DEF Keeps, SameModel
  <1> QED BY <1>2, SameModelsOff

LEMMA NormalizeKeepsFields ==
    ASSUME NEW fields
    PROVE  DOMAIN normalize_upstream_model(fields) = DOMAIN fields
  BY DEF normalize_upstream_model

LEMMA CreateRouteStep == ASSUME NEW a \in Admins, CInv, create_route(a) PROVE Step(a)
  <1>1. /\ proc[a].pc = "write" /\ proc[a].op = "create_route" /\ UNCHANGED mem /\ Rows(db) /\ Well(proc[a])
    BY DEF create_route, Asked, At, Save, CInv, Requests
  <1>2. CASE UNCHANGED db /\ Answer(a)
    BY <1>1, <1>2, SaveStep
  <1>3. CASE ~(UNCHANGED db /\ Answer(a))
    <2> DEFINE row == normalize_upstream_model(proc[a].fields)
    <2>1. Reloads(a, FullReload) /\ db' = Inserted("routes", row)
      BY <1>3 DEF create_route, Save, insert_route
    <2>2. "pattern" \in DOMAIN row /\ "enabled" \in DOMAIN row
      BY <1>1, NormalizeKeepsFields DEF Well
    <2> HIDE DEF row
    <2>3. /\ DOMAIN db' = Tables /\ db'.next = db.next + 1
          /\ db'.models = db.models /\ db'.user_access = db.user_access
          /\ db'.routes = Over([i \in {db.next} |-> row], db.routes)
      BY <1>1, <2>1 DEF Rows, Inserted, Tables
    <2>4. db.next \in Nat /\ db.next \notin DOMAIN db.routes
      BY <1>1 DEF Rows
    <2>5. /\ DOMAIN db'.routes = DOMAIN db.routes \cup {db.next} /\ db'.routes[db.next] = row
          /\ \A r \in DOMAIN db.routes : db'.routes[r] = db.routes[r]
      BY <2>3, <2>4 DEF Over
    <2>6. \A r \in DOMAIN db'.routes : /\ r \in Nat /\ r < db'.next
                                       /\ "pattern" \in DOMAIN db'.routes[r] /\ "enabled" \in DOMAIN db'.routes[r]
      BY <1>1, <2>2, <2>3, <2>4, <2>5 DEF Rows
    <2>7. db'.next \in Nat /\ db'.next >= db.next
      BY <2>3, <2>4
    <2>8. Keeps(a) /\ OffStays
      BY <1>1, <2>3, <2>5, <2>6, <2>7, RoutesWritten
    <2> QED BY <1>1, <2>1, <2>3, <2>8, SameAccess, SaveStep
  <1> QED BY <1>2, <1>3

LEMMA UpdateRouteStep == ASSUME NEW a \in Admins, CInv, update_route(a) PROVE Step(a)
  <1>1. /\ proc[a].pc = "write" /\ UNCHANGED mem /\ Rows(db) /\ <<"route", proc[a].id>> \notin Held(a)
    BY DEF update_route, Asked, At, Save, CInv
  <1>2. CASE UNCHANGED db /\ Answer(a)
    BY <1>1, <1>2, SaveStep
  <1>3. CASE ~(UNCHANGED db /\ Answer(a))
    <2> DEFINE patch == normalize_upstream_model(proc[a].patch)
               id == proc[a].id
               row == Over(patch, db.routes[id])
    <2>1. /\ Reloads(a, FullReload) /\ id \in DOMAIN db.routes
          /\ db' = [db EXCEPT !["routes"][id] = row]
      BY <1>3 DEF update_route, Save, set_route, Updated
    <2>2. DOMAIN db.routes[id] \subseteq DOMAIN row
      BY DEF Over
    <2> HIDE DEF row, id
    <2>3. /\ DOMAIN db' = Tables /\ db'.next = db.next /\ db.next \in Nat
          /\ db'.models = db.models /\ db'.user_access = db.user_access
          /\ db'.routes = [db.routes EXCEPT ![id] = row]
      BY <1>1, <2>1 DEF Rows, Tables
    <2>4. /\ DOMAIN db'.routes = DOMAIN db.routes /\ db'.routes[id] = row
          /\ \A r \in DOMAIN db.routes : r # id => db'.routes[r] = db.routes[r]
      BY <2>1, <2>3
    <2>5. \A r \in DOMAIN db'.routes : /\ r \in Nat /\ r < db'.next
                                       /\ "pattern" \in DOMAIN db'.routes[r] /\ "enabled" \in DOMAIN db'.routes[r]
      BY <1>1, <2>2, <2>3, <2>4 DEF Rows
    <2>6. \A r \in DOMAIN db.routes : <<"route", r>> \in Held(a) =>
                r \in DOMAIN db'.routes /\ db'.routes[r].pattern = db.routes[r].pattern
      BY <1>1, <2>4 DEF id
    <2>7. Keeps(a) /\ OffStays
      BY <1>1, <2>3, <2>5, <2>6, RoutesWritten
    <2> QED BY <1>1, <2>1, <2>3, <2>7, SameAccess, SaveStep
  <1> QED BY <1>2, <1>3

LEMMA DeleteRouteStep == ASSUME NEW a \in Admins, CInv, delete_route(a) PROVE Step(a)
  <1>1. /\ proc[a].pc = "write" /\ UNCHANGED mem /\ Rows(db) /\ <<"route", proc[a].id>> \notin Held(a)
    BY DEF delete_route, Asked, At, Save, CInv
  <1>2. CASE UNCHANGED db /\ Answer(a)
    BY <1>1, <1>2, SaveStep
  <1>3. CASE ~(UNCHANGED db /\ Answer(a))
    <2>1. Reloads(a, FullReload) /\ db' = [db EXCEPT !["routes"] = Without(db.routes, {proc[a].id})]
      BY <1>3 DEF delete_route, Save, drop_route, Deleted
    <2>2. /\ DOMAIN db' = Tables /\ db'.next = db.next /\ db.next \in Nat
          /\ db'.models = db.models /\ db'.user_access = db.user_access
          /\ db'.routes = Without(db.routes, {proc[a].id})
      BY <1>1, <2>1 DEF Rows, Tables
    <2>3. /\ DOMAIN db'.routes = DOMAIN db.routes \ {proc[a].id}
          /\ \A r \in DOMAIN db'.routes : db'.routes[r] = db.routes[r]
      BY <2>2 DEF Without, Pick
    <2>4. \A r \in DOMAIN db'.routes : /\ r \in Nat /\ r < db'.next
                                       /\ "pattern" \in DOMAIN db'.routes[r] /\ "enabled" \in DOMAIN db'.routes[r]
      BY <1>1, <2>2, <2>3 DEF Rows
    <2>5. \A r \in DOMAIN db.routes : <<"route", r>> \in Held(a) =>
                r \in DOMAIN db'.routes /\ db'.routes[r].pattern = db.routes[r].pattern
      BY <1>1, <2>3
    <2>6. Keeps(a) /\ OffStays
      <3>1. /\ DOMAIN db' = Tables /\ db'.next \in Nat /\ db'.next >= db.next /\ db'.models = db.models
        BY <2>2
      <3> QED BY <1>1, <2>4, <2>5, <3>1, RoutesWritten
    <2> QED BY <1>1, <2>1, <2>2, <2>6, SameAccess, SaveStep
  <1> QED BY <1>2, <1>3

LEMMA ClaimRoutesStep == ASSUME NEW a \in Admins, CInv, ClaimRoutes(a) PROVE Step(a)
  <1> DEFINE rows == RouteRows(Naming(proc[a].id))
             s == [proc[a] EXCEPT !.pc = "drop", !.locks = rows]
  <1>1. /\ proc[a].pc = "write" /\ UNCHANGED <<db, mem, loader>> /\ scene' = scene /\ Rows(db) /\ Requests
        /\ proc' = [proc EXCEPT ![a] = s] /\ Well(proc[a]) /\ rows \cap Held(a) = {}
    BY DEF ClaimRoutes, Asked, At, CInv, Become, Requests
  <1> HIDE DEF rows
  <1>2. /\ s.pc = "drop" /\ s.locks = rows /\ s.op = proc[a].op /\ DOMAIN s = DOMAIN proc[a]
        /\ "fields" \in DOMAIN proc[a] => s.fields = proc[a].fields
        /\ "user" \in DOMAIN proc[a] => s.user = proc[a].user
        /\ "rules" \in DOMAIN proc[a] => s.rules = proc[a].rules
    BY <1>1 DEF Well
  <1> HIDE DEF s
  <1>3. Well(s)
    BY <1>1, <1>2 DEF Well
  <1>4. Txn(db', s) /\ \A b \in Admins \ {a} : Apart(s, proc[b])
    BY <1>1, <1>2 DEF Txn, Apart, Refreshing, Held
  <1>5. Becomes(a, s)
    BY <1>1, <1>3, <1>4 DEF Becomes, Requests
  <1> QED BY <1>1, <1>5, NoWrite DEF Step, CopiesKept

LEMMA DropProviderStep == ASSUME NEW a \in Admins, CInv, DropProvider(a) PROVE Step(a)
  <1>1. /\ proc[a].pc = "drop" /\ UNCHANGED mem /\ Rows(db) /\ Requests
        /\ Reloads(a, FullReload) \/ Answer(a)
    BY DEF DropProvider, At, CInv
  <1>2. Keeps(a) /\ OffStays /\ AccessKept(a)
    <2>1. CASE UNCHANGED db
      BY <1>1, <2>1, NoWrite
    <2>2. CASE ~UNCHANGED db
      <3> DEFINE id == proc[a].id
                 routes == Scrubbed(id, proc[a].locks)
                 models == Without(db.models, ModelsOf(id))
                 rules == db.user_access \ AboutProvider(id)
                 providers == Without(db.providers, {id})
      <3>1. db' = [db EXCEPT !.providers = providers, !.routes = routes, !.models = models, !.user_access = rules]
        BY <2>2 DEF DropProvider
      <3>2. /\ DOMAIN routes \subseteq DOMAIN db.routes
            /\ \A r \in DOMAIN db.routes : <<"route", r>> \notin proc[a].locks => r \in DOMAIN routes /\ routes[r] = db.routes[r]
            /\ \A r \in DOMAIN routes : DOMAIN routes[r] = DOMAIN db.routes[r]
        BY DEF Scrubbed
      <3>3. /\ DOMAIN models = {i \in DOMAIN db.models : db.models[i].provider # id}
            /\ \A i \in DOMAIN models : models[i] = db.models[i]
        BY DEF Without, Pick, ModelsOf
      <3>4. \A r \in DOMAIN db.routes : <<"route", r>> \in Held(a) => <<"route", r>> \notin proc[a].locks
        BY <1>1 DEF Held, Requests, Apart
      <3>5. \A u \in Users : RulesOf(rules, u) = {} => RulesOf(db.user_access, u) \subseteq AboutProvider(id)
        BY DEF RulesOf
      <3> HIDE DEF providers, routes, models, rules
      <3>6. /\ DOMAIN db' = Tables /\ db'.next = db.next /\ db.next \in Nat
            /\ db'.models = models /\ db'.user_access = rules /\ db'.routes = routes
        BY <1>1, <3>1 DEF Rows, Tables
      <3>7. Rows(db')
        <4>1. \A r \in DOMAIN db'.routes : /\ r \in Nat /\ r < db'.next
                                           /\ "pattern" \in DOMAIN db'.routes[r] /\ "enabled" \in DOMAIN db'.routes[r]
          BY <1>1, <3>2, <3>6 DEF Rows
        <4>2. \A i \in DOMAIN db'.models : i \in DOMAIN db.models /\ db'.models[i] = db.models[i]
          BY <3>3, <3>6
        <4> QED BY <1>1, <3>6, <4>1, <4>2 DEF Rows
      <3>8. Keeps(a)
        BY <3>2, <3>3, <3>4, <3>6, <3>7 DEF Keeps, SameModel
      <3>9. OffStays
        <4>1. ASSUME NEW i \in DOMAIN db.models, ~db.models[i].enabled
              PROVE  \/ i \in DOMAIN db'.models /\ SameModel(db, db', i) /\ ~db'.models[i].enabled
                     \/ \A j \in DOMAIN db'.models : ~(/\ db'.models[j].provider = db.models[i].provider
                                                       /\ db'.models[j].model = db.models[i].model)
          BY <3>3, <3>6, <4>1 DEF SameModel
        <4> QED BY <4>1, RowByRowOff
      <3>10. AccessKept(a)
        BY <1>1, <3>5, <3>6 DEF AccessKept, Frees, At
      <3> QED BY <3>8, <3>9, <3>10
    <2> QED BY <2>1, <2>2
  <1>3. CASE Reloads(a, FullReload)
    BY <1>1, <1>2, <1>3, SaveStep
  <1>4. CASE Answer(a)
    <2>1. proc' = [proc EXCEPT ![a] = Idle] /\ scene' = scene /\ CopiesKept(a)
      BY <1>1, <1>4 DEF Answer, Become, CopiesKept
    <2>2. \E t : Becomes(a, t)
      BY <1>1, <2>1, PlainBecomes
    <2> QED BY <1>2, <2>1, <2>2 DEF Step
  <1> QED BY <1>1, <1>3, <1>4

-----------------------------------------------------------------------------
(* The library.                                                             *)

\* A row of the library changes in its switch or its attributes, or goes.
LEMMA ModelsWritten ==
    ASSUME NEW a \in Admins, Rows(db), DOMAIN db' = Tables, db'.next = db.next, db'.routes = db.routes,
           \A i \in DOMAIN db'.models : /\ i \in DOMAIN db.models /\ DOMAIN db'.models[i] = DOMAIN db.models[i]
                                        /\ SameModel(db, db', i)
    PROVE  Keeps(a)
  <1>1. db.next \in Nat
    BY DEF Rows
  <1>2. Rows(db')
    BY DEF Rows, SameModel
  <1> QED BY <1>1, <1>2 DEF Keeps

LEMMA UpdateModelStep == ASSUME NEW a \in Admins, CInv, update_model(a) PROVE Step(a)
  <1>1. /\ proc[a].pc = "write" /\ proc[a].op = "update_model" /\ UNCHANGED mem /\ Rows(db)
    BY DEF update_model, Asked, At, Save, CInv
  <1>2. CASE UNCHANGED db /\ Answer(a)
    BY <1>1, <1>2, SaveStep
  <1>3. CASE ~(UNCHANGED db /\ Answer(a))
    <2> DEFINE id == proc[a].id
               on == proc[a].patch.enabled
    <2>1. Reloads(a, FullReload) /\ id \in DOMAIN db.models /\ db' = [db EXCEPT !.models[id].enabled = on]
      BY <1>3 DEF update_model, Save, set_model_enabled
    <2> HIDE DEF id, on
    <2>2. /\ DOMAIN db' = Tables /\ db'.next = db.next /\ db'.routes = db.routes /\ db'.user_access = db.user_access
          /\ db'.models = [db.models EXCEPT ![id] = [db.models[id] EXCEPT !.enabled = on]]
      BY <1>1, <2>1 DEF Rows, Tables
    <2>3. \A i \in DOMAIN db.models : DOMAIN db.models[i] = {"provider", "model", "enabled", "attrs"}
      BY <1>1 DEF Rows
    <2>4. /\ DOMAIN db'.models = DOMAIN db.models
          /\ \A i \in DOMAIN db.models : DOMAIN db'.models[i] = DOMAIN db.models[i] /\ SameModel(db, db', i)
          /\ \A i \in DOMAIN db.models : i # id => db'.models[i] = db.models[i]
          /\ db'.models[id].enabled = on
      BY <2>1, <2>2, <2>3 DEF SameModel
    <2>5. Keeps(a)
      BY <1>1, <2>2, <2>4, ModelsWritten
    <2>6. ASSUME NEW i \in DOMAIN db.models, ~db.models[i].enabled, i # id \/ ~on
          PROVE  i \in DOMAIN db'.models /\ SameModel(db, db', i) /\ ~db'.models[i].enabled
      BY <2>4, <2>6
    <2>7. on => SwitchesOn(<<db.models[id].provider, db.models[id].model>>)
      BY <1>1 DEF SwitchesOn, Asked, At, id, on
    <2>8. OffStays
      BY <2>6, <2>7, RowByRowOff
    <2> QED BY <1>1, <2>1, <2>2, <2>5, <2>8, SameAccess, SaveStep
  <1> QED BY <1>2, <1>3

LEMMA SetAttributeStep == ASSUME NEW a \in Admins, CInv, SetAttribute(a) PROVE Step(a)
  <1>1. /\ proc[a].pc = "attrs" /\ UNCHANGED mem /\ Rows(db) /\ Requests /\ Well(proc[a])
    BY DEF SetAttribute, At, CInv, Requests
  <1>2. CASE proc[a].id \notin DOMAIN db.models
    BY <1>1, <1>2, AnswerStep DEF SetAttribute
  <1>3. CASE proc[a].id \in DOMAIN db.models
    <2> DEFINE id == proc[a].id
               attr == Head(proc[a].patch.attrs)
               attrs == [db.models[id].attrs EXCEPT ![attr.of] = attr.to]
    <2>1. db' = [db EXCEPT !.models[id].attrs = attrs]
      BY <1>3 DEF SetAttribute, set_model_attribute
    <2> HIDE DEF attrs, id
    <2>2. /\ DOMAIN db' = Tables /\ db'.next = db.next /\ db'.routes = db.routes /\ db'.user_access = db.user_access
          /\ db'.models = [db.models EXCEPT ![id] = [db.models[id] EXCEPT !.attrs = attrs]]
      BY <1>1, <2>1 DEF Rows, Tables
    <2>3. \A i \in DOMAIN db.models : DOMAIN db.models[i] = {"provider", "model", "enabled", "attrs"}
      BY <1>1 DEF Rows
    <2>4. /\ DOMAIN db'.models = DOMAIN db.models
          /\ \A i \in DOMAIN db.models : /\ DOMAIN db'.models[i] = DOMAIN db.models[i] /\ SameModel(db, db', i)
                                         /\ db'.models[i].enabled = db.models[i].enabled
      BY <2>2, <2>3 DEF SameModel
    <2>5. Keeps(a)
      BY <1>1, <2>2, <2>4, ModelsWritten
    <2>6. OffStays
      BY <2>4, RowByRowOff
    <2>7. AccessKept(a)
      BY <2>2, SameAccess
    <2>8. CASE Answer(a)
      <3>1. proc' = [proc EXCEPT ![a] = Idle] /\ scene' = scene /\ CopiesKept(a)
        BY <1>1, <2>8 DEF Answer, Become, CopiesKept
      <3>2. \E t : Becomes(a, t)
        BY <1>1, <3>1, PlainBecomes
      <3> QED BY <2>5, <2>6, <2>7, <3>1, <3>2 DEF Step
    <2>9. CASE ~Answer(a)
      <3> DEFINE rest == [proc[a].patch EXCEPT !.attrs = Tail(proc[a].patch.attrs)]
                 s == [proc[a] EXCEPT !.patch = rest]
      <3>1. Become(a, s) /\ UNCHANGED loader
        BY <1>3, <2>9 DEF SetAttribute
      <3> HIDE DEF rest
      <3>2. Carried(proc[a], s) /\ s.pc = "attrs" /\ s.locks = proc[a].locks
        BY <1>1 DEF Carried, Well, AskedFields
      <3>3. s.pc \notin Special
        BY <3>2 DEF Special, Refreshing
      <3> HIDE DEF s
      <3>4. proc' = [proc EXCEPT ![a] = s] /\ scene' = scene /\ CopiesKept(a)
        BY <1>1, <3>1 DEF Become, CopiesKept
      <3>5. \E t : Becomes(a, t)
        BY <1>1, <3>2, <3>3, <3>4, PlainBecomes
      <3> QED BY <2>5, <2>6, <2>7, <3>4, <3>5 DEF Step
    <2> QED BY <2>8, <2>9
  <1> QED BY <1>2, <1>3

LEMMA DeleteModelStep == ASSUME NEW a \in Admins, CInv, delete_model(a) PROVE Step(a)
  <1>1. /\ proc[a].pc = "write" /\ UNCHANGED mem /\ Rows(db)
    BY DEF delete_model, Asked, At, Save, CInv
  <1>2. CASE UNCHANGED db /\ Answer(a)
    BY <1>1, <1>2, SaveStep
  <1>3. CASE ~(UNCHANGED db /\ Answer(a))
    <2>1. Reloads(a, FullReload) /\ db' = [db EXCEPT !["models"] = Without(db.models, {proc[a].id})]
      BY <1>3 DEF delete_model, Save, drop_model, Deleted
    <2>2. /\ DOMAIN db' = Tables /\ db'.next = db.next /\ db'.routes = db.routes /\ db'.user_access = db.user_access
          /\ db'.models = Without(db.models, {proc[a].id})
      BY <1>1, <2>1 DEF Rows, Tables
    <2>3. /\ DOMAIN db'.models = DOMAIN db.models \ {proc[a].id}
          /\ \A i \in DOMAIN db'.models : db'.models[i] = db.models[i]
      BY <2>2 DEF Without, Pick
    <2>4. \A i \in DOMAIN db'.models : /\ i \in DOMAIN db.models /\ DOMAIN db'.models[i] = DOMAIN db.models[i]
                                       /\ SameModel(db, db', i)
      BY <2>3 DEF SameModel
    <2>5. Keeps(a)
      BY <1>1, <2>2, <2>4, ModelsWritten
    <2>6. ASSUME NEW i \in DOMAIN db.models, ~db.models[i].enabled
          PROVE  \/ i \in DOMAIN db'.models /\ SameModel(db, db', i) /\ ~db'.models[i].enabled
                 \/ \A j \in DOMAIN db'.models : ~(/\ db'.models[j].provider = db.models[i].provider
                                                   /\ db'.models[j].model = db.models[i].model)
      BY <1>1, <2>3, <2>4, <2>6 DEF Rows
    <2>7. OffStays
      BY <2>6, RowByRowOff
    <2> QED BY <1>1, <2>1, <2>2, <2>5, <2>7, SameAccess, SaveStep
  <1> QED BY <1>2, <1>3

-----------------------------------------------------------------------------
(* A refresh.                                                               *)

LEMMA FetchModelsStep == ASSUME NEW a \in Admins, CInv, FetchModels(a) PROVE Step(a)
  <1>1. /\ proc[a].pc = "fetch" /\ UNCHANGED <<db, mem, loader>> /\ Rows(db) /\ Requests /\ Well(proc[a])
    BY DEF FetchModels, At, CInv, Requests
  <1>2. CopiesKept(a)
    BY <1>1 DEF CopiesKept
  <1>3. CASE NextProvider(a)
    BY <1>1, <1>2, <1>3, NextProviderStep
  <1>4. CASE ~NextProvider(a)
    <2>1. PICK answer \in Answers(Target(a)) :
            /\ answer # Failed /\ Become(a, Over([pc |-> "prune", listed |-> answer], proc[a]))
      BY <1>4 DEF FetchModels
    <2> DEFINE f == [pc |-> "prune", listed |-> answer]
               s == Over(f, proc[a])
    <2>2. answer \in Seq(Models)
      BY <2>1, ListingsAssumption DEF Answers
    <2>3. DOMAIN f = {"pc", "listed"} /\ f.pc = "prune" /\ f.listed = answer
      OBVIOUS
    <2>4. /\ DOMAIN s = DOMAIN proc[a] \cup {"pc", "listed"}
          /\ s.pc = "prune" /\ s.listed = answer
          /\ \A k \in DOMAIN proc[a] : k \notin {"pc", "listed"} => s[k] = proc[a][k]
      <3> HIDE DEF f
      <3> QED BY <2>3 DEF Over
    <2>5. scene' = scene /\ proc' = [proc EXCEPT ![a] = s]
      BY <2>1 DEF Become
    <2> HIDE DEF s
    <2>6. /\ s.op = proc[a].op /\ s.locks = proc[a].locks
          /\ "fields" \in DOMAIN proc[a] => s.fields = proc[a].fields
          /\ "user" \in DOMAIN proc[a] => s.user = proc[a].user
          /\ "rules" \in DOMAIN proc[a] => s.rules = proc[a].rules
      BY <1>1, <2>4 DEF Well
    <2>7. Well(s)
      BY <1>1, <2>2, <2>4, <2>6 DEF Well
    <2>8. Txn(db', s) /\ \A b \in Admins \ {a} : Apart(s, proc[b])
      BY <1>1, <2>4, <2>6 DEF Txn, Apart, Refreshing, Requests
    <2>9. Becomes(a, s)
      BY <1>1, <2>5, <2>7, <2>8 DEF Becomes, Requests
    <2> QED BY <1>1, <1>2, <2>5, <2>9, NoWrite DEF Step
  <1> QED BY <1>3, <1>4

LEMMA PruneModelsStep == ASSUME NEW a \in Admins, CInv, PruneModels(a) PROVE Step(a)
  <1> DEFINE q == proc[a]
             listed == proc[a].listed
             gone == Unlisted(a)
             patterns == EnabledPatterns
             rows == ModelRows(gone)
             pc == IF listed = <<>> THEN "commit" ELSE "fill"
             f == [pc |-> pc, locks |-> rows, gone |-> gone, patterns |-> patterns, left |-> listed,
                   added |-> {}, reused |-> {}, routes |-> <<>>]
             s == Over(f, q)
             names == {"pc", "locks", "gone", "patterns", "left", "added", "reused", "routes"}
  <1>1. /\ q.pc = "prune" /\ UNCHANGED <<db, mem, loader>> /\ scene' = scene /\ Rows(db) /\ Requests /\ Well(q)
        /\ rows \cap Held(a) = {} /\ proc' = [proc EXCEPT ![a] = s]
    BY DEF PruneModels, At, CInv, Requests, Become
  <1>2. listed \in Seq(Models) /\ "listed" \in DOMAIN q
    BY <1>1 DEF Well
  <1>3. \A i \in gone : i \in DOMAIN db.models /\ db.models[i].model \notin ToSet(listed)
    BY DEF Unlisted, ModelsOf
  <1> HIDE DEF listed, gone, patterns, rows
  <1>4. /\ DOMAIN f = names /\ f.pc = pc /\ f.locks = rows /\ f.gone = gone /\ f.patterns = patterns
        /\ f.left = listed /\ f.added = {} /\ f.reused = {} /\ f.routes = <<>>
    OBVIOUS
  <1>5. /\ DOMAIN s = DOMAIN q \cup names
        /\ s.pc = pc /\ s.locks = rows /\ s.gone = gone /\ s.patterns = patterns
        /\ s.left = listed /\ s.added = {} /\ s.reused = {} /\ s.routes = <<>>
        /\ \A k \in DOMAIN q : k \notin names => s[k] = q[k]
    <2> HIDE DEF f, pc
    <2> QED BY <1>4 DEF Over
  <1>6. s.listed = listed
    BY <1>2, <1>5 DEF listed
  <1> HIDE DEF s
  <1>7. /\ s.op = q.op
        /\ "fields" \in DOMAIN q => s.fields = q.fields
        /\ "user" \in DOMAIN q => s.user = q.user
        /\ "rules" \in DOMAIN q => s.rules = q.rules
    BY <1>1, <1>5 DEF Well
  <1>8. Well(s)
    BY <1>1, <1>5, <1>7 DEF Well
  <1>9. Txn(db', s)
    <2>1. \A i \in gone : i \in Nat /\ i < db.next
      BY <1>1, <1>3 DEF Rows
    <2>2. IsFiniteSet({})
      BY FS_EmptySet
    <2>3. \A m \in ToSet(listed) : Routed(db', s, m)
      BY <1>5 DEF Routed
    <2>4. {"listed", "left", "gone", "patterns", "added", "reused", "routes"} \subseteq DOMAIN s
      BY <1>2, <1>5
    <2>5. s.routes \in Seq(Models) /\ (s.pc = "commit" <=> s.left = <<>>)
      BY <1>5
    <2> QED BY <1>1, <1>2, <1>3, <1>5, <1>6, <2>1, <2>2, <2>3, <2>4, <2>5 DEF Txn
  <1>10. \A b \in Admins \ {a} : Apart(s, proc[b])
    BY <1>1, <1>5 DEF Apart, Held
  <1>11. Becomes(a, s)
    BY <1>1, <1>8, <1>9, <1>10 DEF Becomes, Requests
  <1> QED BY <1>1, <1>11, NoWrite DEF Step, CopiesKept

LEMMA FillModelStep == ASSUME NEW a \in Admins, CInv, FillModel(a) PROVE Step(a)
  <1> DEFINE q == proc[a]
             m == Head(proc[a].left)
  <1>1. /\ q.pc = "fill" /\ UNCHANGED <<db, mem, loader>> /\ scene' = scene /\ Rows(db) /\ Requests /\ Well(q) /\ Txn(db, q)
        /\ CopiesKept(a)
    BY DEF FillModel, At, CInv, Requests, Become, Goto, CopiesKept
  <1>2. m \in ToSet(q.listed) /\ q.left # <<>>
    <2>1. q.left \in Seq(Models) /\ q.left # <<>> /\ ToSet(q.left) \subseteq ToSet(q.listed)
      BY <1>1 DEF Txn, Refreshing
    <2>2. 1 \in DOMAIN q.left /\ m = q.left[1]
      BY <2>1
    <2> QED BY <2>1, <2>2 DEF ToSet
  <1>3. CASE Become(a, Idle)
    BY <1>1, <1>3, GoOn
  <1>4. CASE Goto(a, "route")
    <2> DEFINE s == [q EXCEPT !.pc = "route"]
    <2>1. proc' = [proc EXCEPT ![a] = s]
      BY <1>4 DEF Goto, Become
    <2>2. s.pc = "route" /\ DOMAIN s = DOMAIN q /\ \A k \in DOMAIN q : k # "pc" => s[k] = q[k]
      BY <1>1 DEF Well
    <2> HIDE DEF s
    <2>3. /\ s.op = q.op /\ s.locks = q.locks /\ s.todo = q.todo
          /\ "fields" \in DOMAIN q => s.fields = q.fields
          /\ "user" \in DOMAIN q => s.user = q.user
          /\ "rules" \in DOMAIN q => s.rules = q.rules
      BY <1>1, <2>2 DEF Well
    <2>4. /\ s.listed = q.listed /\ s.left = q.left /\ s.gone = q.gone /\ s.patterns = q.patterns
          /\ s.added = q.added /\ s.reused = q.reused /\ s.routes = q.routes
      BY <1>1, <2>2 DEF Txn, Refreshing
    <2>5. Well(s)
      BY <1>1, <2>2, <2>3 DEF Well
    <2>6. Txn(db', s)
      <3>1. \A x \in ToSet(q.listed) : Routed(db', s, x)
        BY <1>1, <2>4 DEF Txn, Routed, Refreshing
      <3> QED BY <1>1, <1>2, <2>2, <2>3, <2>4, <3>1 DEF Txn, Refreshing
    <2>7. \A b \in Admins \ {a} : Apart(s, proc[b])
      BY <1>1, <2>2, <2>3, <2>4 DEF Apart, Requests, Refreshing
    <2>8. Becomes(a, s)
      BY <1>1, <2>1, <2>5, <2>6, <2>7 DEF Becomes, Requests
    <2> QED BY <1>1, <2>8, NoWrite DEF Step
  <1>5. CASE ~InLibrary(a, m) /\ ~Become(a, Idle)
    <2> DEFINE s == [q EXCEPT !.pc = "route", !.added = q.added \cup {m}, !.refs = {Target(a)}]
    <2>1. /\ proc' = [proc EXCEPT ![a] = s] /\ ~ChangedElsewhere(a, m)
      BY <1>5 DEF FillModel, Become
    <2>2. "added" \in DOMAIN q /\ "refs" \in DOMAIN q
      BY <1>1 DEF Well, Txn, Refreshing
    <2>3. /\ s.pc = "route" /\ s.added = q.added \cup {m} /\ DOMAIN s = DOMAIN q
          /\ \A k \in DOMAIN q : k \notin {"pc", "added", "refs"} => s[k] = q[k]
      <3> HIDE DEF m
      <3> QED BY <1>1, <2>2 DEF Well
    <2> HIDE DEF s
    <2>4. /\ s.op = q.op /\ s.locks = q.locks /\ s.todo = q.todo
          /\ "fields" \in DOMAIN q => s.fields = q.fields
          /\ "user" \in DOMAIN q => s.user = q.user
          /\ "rules" \in DOMAIN q => s.rules = q.rules
      BY <1>1, <2>3 DEF Well
    <2>5. /\ s.listed = q.listed /\ s.left = q.left /\ s.gone = q.gone /\ s.patterns = q.patterns
          /\ s.reused = q.reused /\ s.routes = q.routes
      BY <1>1, <2>3 DEF Txn, Refreshing
    <2>6. Well(s)
      BY <1>1, <2>3, <2>4 DEF Well
    <2>7. \A i \in DOMAIN db.models : db.models[i].provider = Head(q.todo) => db.models[i].model # m
      <3>1. \A i \in q.gone \cap DOMAIN db.models : db.models[i].model # m
        BY <1>1, <1>2 DEF Txn, Refreshing
      <3>2. \A i \in DOMAIN db.models \ q.gone : db.models[i].provider = Head(q.todo) => db.models[i].model # m
        BY <1>5 DEF InLibrary, ModelsOf, Target
      <3> QED BY <3>1, <3>2
    <2>8. Txn(db', s)
      <3>1. \A x \in ToSet(q.listed) : Routed(db', s, x)
        BY <1>1, <2>5 DEF Txn, Routed, Refreshing
      <3>2. IsFiniteSet(s.added)
        <4>1. IsFiniteSet(q.added)
          BY <1>1 DEF Txn, Refreshing
        <4> QED BY <2>3, <4>1, FS_AddElement
      <3> HIDE DEF m
      <3> QED BY <1>1, <1>2, <2>3, <2>4, <2>5, <2>7, <3>1, <3>2 DEF Txn, Refreshing
    <2>9. ASSUME NEW b \in Admins \ {a} PROVE Apart(s, proc[b])
      <3>1. Apart(q, proc[b])
        BY <1>1 DEF Requests
      <3>2. proc[b].pc \in Refreshing /\ Head(q.todo) = Head(proc[b].todo) => m \notin proc[b].added
        BY <2>1 DEF ChangedElsewhere, Target, Refreshing
      <3> HIDE DEF m
      <3> QED BY <1>1, <2>3, <2>4, <3>1, <3>2 DEF Apart, Refreshing
    <2>10. Becomes(a, s)
      BY <1>1, <2>1, <2>6, <2>8, <2>9 DEF Becomes, Requests
    <2> QED BY <1>1, <2>10, NoWrite DEF Step
  <1> QED BY <1>3, <1>4, <1>5 DEF FillModel

LEMMA TailSet ==
    ASSUME NEW S, NEW s \in Seq(S), s # <<>>
    PROVE  /\ Tail(s) \in Seq(S) /\ (Len(s) = 1 <=> Tail(s) = <<>>)
           /\ \A x \in ToSet(s) : x = Head(s) \/ x \in ToSet(Tail(s))
           /\ ToSet(Tail(s)) \subseteq ToSet(s) /\ Head(s) \in ToSet(s)
  <1>1. Len(s) \in Nat \ {0} /\ DOMAIN s = 1..Len(s) /\ Head(s) = s[1]
    OBVIOUS
  <1>2. /\ Tail(s) \in Seq(S) /\ Len(Tail(s)) = Len(s) - 1 /\ DOMAIN Tail(s) = 1..(Len(s) - 1)
        /\ \A i \in 1..(Len(s) - 1) : Tail(s)[i] = s[i + 1]
    BY <1>1
  <1>3. Len(s) = 1 <=> Tail(s) = <<>>
    <2>1. Tail(s) = <<>> <=> Len(Tail(s)) = 0
      BY <1>2, EmptySeq
    <2> QED BY <1>1, <1>2, <2>1
  <1>4. ASSUME NEW x \in ToSet(s), x # Head(s) PROVE x \in ToSet(Tail(s))
    <2>1. PICK i \in 1..Len(s) : x = s[i]
      BY <1>1 DEF ToSet
    <2>2. i - 1 \in 1..(Len(s) - 1) /\ Tail(s)[i - 1] = x
      BY <1>1, <1>2, <1>4, <2>1
    <2> QED BY <1>2, <2>2 DEF ToSet
  <1>5. ASSUME NEW x \in ToSet(Tail(s)) PROVE x \in ToSet(s)
    <2>1. PICK i \in 1..(Len(s) - 1) : x = s[i + 1]
      BY <1>2 DEF ToSet
    <2>2. i + 1 \in DOMAIN s
      BY <1>1
    <2> QED BY <2>1, <2>2 DEF ToSet
  <1>6. Head(s) \in ToSet(s)
    BY <1>1 DEF ToSet
  <1> QED BY <1>2, <1>3, <1>4, <1>5, <1>6

LEMMA AppendSet ==
    ASSUME NEW S, NEW s \in Seq(S), NEW x \in S
    PROVE  Append(s, x) \in Seq(S) /\ x \in ToSet(Append(s, x)) /\ ToSet(s) \subseteq ToSet(Append(s, x))
  <1>1. /\ Append(s, x) \in Seq(S) /\ DOMAIN Append(s, x) = 1..(Len(s) + 1) /\ Len(s) \in Nat /\ DOMAIN s = 1..Len(s)
        /\ Append(s, x)[Len(s) + 1] = x /\ \A i \in 1..Len(s) : Append(s, x)[i] = s[i]
    OBVIOUS
  <1>2. x \in ToSet(Append(s, x))
    BY <1>1 DEF ToSet
  <1>3. ASSUME NEW y \in ToSet(s) PROVE y \in ToSet(Append(s, x))
    <2>1. PICK i \in 1..Len(s) : y = s[i]
      BY <1>1 DEF ToSet
    <2>2. i \in DOMAIN Append(s, x)
      BY <1>1
    <2> QED BY <1>1, <2>1, <2>2 DEF ToSet
  <1> QED BY <1>1, <1>2, <1>3

\* The model at hand has its route in w, and the next one follows.
LEMMA RouteFilledStep ==
    ASSUME NEW a \in Admins, CInv, proc[a].pc = "route", UNCHANGED <<db, mem, loader>>, NEW w, RouteFilled(a, w),
           DOMAIN w = DOMAIN proc[a],
           \A k \in DOMAIN w : k \notin {"locks", "refs", "reused", "routes"} => w[k] = proc[a][k],
           \A x \in w.locks : x \in proc[a].locks \/ x \notin Held(a),
           proc[a].reused \subseteq w.reused,
           \A r \in w.reused : r \in DOMAIN db.routes /\ <<"route", r>> \in w.locks,
           w.routes \in Seq(Models), ToSet(proc[a].routes) \subseteq ToSet(w.routes),
           \/ \E p \in w.patterns : matches_pattern(p, Head(proc[a].left))
           \/ Head(proc[a].left) \in ToSet(w.routes)
           \/ \E r \in w.reused : db.routes[r].pattern = Head(proc[a].left)
    PROVE  Step(a)
  <1> DEFINE q == proc[a]
             left == Tail(q.left)
             pc == IF Len(q.left) = 1 THEN "commit" ELSE "fill"
             s == [w EXCEPT !.left = left, !.pc = pc]
  <1>1. Rows(db) /\ Requests /\ Well(q) /\ Txn(db, q) /\ scene' = scene
    BY DEF CInv, Requests, RouteFilled, Become
  <1>2. /\ {"listed", "left", "gone", "patterns", "added", "reused", "routes", "pc", "locks", "refs", "op", "todo"} \subseteq DOMAIN w
        /\ w.left = q.left
    BY <1>1 DEF Txn, Well, Refreshing
  <1>3. /\ left \in Seq(Models) /\ (Len(q.left) = 1 <=> left = <<>>)
        /\ \A x \in ToSet(q.left) : x = Head(q.left) \/ x \in ToSet(left)
        /\ ToSet(left) \subseteq ToSet(q.listed)
    <2>1. q.left \in Seq(Models) /\ q.left # <<>> /\ ToSet(q.left) \subseteq ToSet(q.listed)
      BY <1>1 DEF Txn, Refreshing
    <2> QED BY <2>1, TailSet
  <1>4. proc' = [proc EXCEPT ![a] = s]
    BY <1>2 DEF RouteFilled, Become
  <1>5. pc \in {"commit", "fill"} /\ (pc = "commit" <=> left = <<>>)
    BY <1>3
  <1> HIDE DEF left, pc
  <1>6. /\ s.pc = pc /\ s.left = left /\ DOMAIN s = DOMAIN q
        /\ s.locks = w.locks /\ s.reused = w.reused /\ s.routes = w.routes
        /\ s.listed = q.listed /\ s.gone = q.gone /\ s.patterns = q.patterns /\ s.added = q.added
        /\ s.op = q.op /\ s.todo = q.todo
        /\ "fields" \in DOMAIN q => s.fields = q.fields
        /\ "user" \in DOMAIN q => s.user = q.user
        /\ "rules" \in DOMAIN q => s.rules = q.rules
    BY <1>2
  <1>7. w.patterns = q.patterns
    BY <1>2
  <1> HIDE DEF s
  <1>8. Well(s)
    BY <1>1, <1>5, <1>6 DEF Well
  <1>9. ASSUME NEW x \in ToSet(q.listed) PROVE Routed(db', s, x)
    <2>1. Routed(db, q, x)
      BY <1>1 DEF Txn, Refreshing
    <2>2. CASE x = Head(q.left)
      BY <1>6, <1>7, <2>2 DEF Routed
    <2>3. CASE x # Head(q.left)
      BY <1>3, <1>6, <2>1, <2>3 DEF Routed
    <2> QED BY <2>2, <2>3
  <1>10. Txn(db', s)
    <2>1. {"listed", "left", "gone", "patterns", "added", "reused", "routes"} \subseteq DOMAIN s
      BY <1>2, <1>6
    <2>2. /\ s.listed \in Seq(Models) /\ IsFiniteSet(s.added) /\ s.added \subseteq ToSet(s.listed)
          /\ \A i \in s.gone : i \in Nat /\ i < db'.next
          /\ \A i \in s.gone \cap DOMAIN db'.models : db'.models[i].model \notin ToSet(s.listed)
          /\ \A i \in DOMAIN db'.models : db'.models[i].provider = Head(s.todo) => db'.models[i].model \notin s.added
      BY <1>1, <1>6 DEF Txn, Refreshing
    <2> QED BY <1>3, <1>5, <1>6, <1>9, <2>1, <2>2 DEF Txn
  <1>11. ASSUME NEW b \in Admins \ {a} PROVE Apart(s, proc[b])
    <2>1. Apart(q, proc[b])
      BY <1>1 DEF Requests
    <2>2. s.locks \cap proc[b].locks = {}
      BY <1>6, <2>1 DEF Apart, Held
    <2> QED BY <1>6, <2>1, <2>2 DEF Apart, Refreshing
  <1>12. Becomes(a, s)
    BY <1>1, <1>4, <1>8, <1>10, <1>11 DEF Becomes, Requests
  <1> QED BY <1>1, <1>12, NoWrite DEF Step, CopiesKept

LEMMA FillRouteStep == ASSUME NEW a \in Admins, CInv, FillRoute(a) PROVE Step(a)
  <1> DEFINE q == proc[a]
             m == Head(q.left)
             again == Reusable(a, m)
  <1>1. q.pc = "route" /\ UNCHANGED <<db, mem, loader>> /\ Requests /\ Well(q) /\ Txn(db, q)
    BY DEF FillRoute, At, CInv, Requests
  <1>2. /\ {"listed", "left", "gone", "patterns", "added", "reused", "routes", "locks", "refs"} \subseteq DOMAIN q
        /\ q.routes \in Seq(Models) /\ q.left \in Seq(Models) /\ q.left # <<>>
        /\ \A r \in q.reused : r \in DOMAIN db.routes /\ <<"route", r>> \in q.locks
    BY <1>1 DEF Txn, Refreshing, Well
  <1>3. m \in Models
    BY <1>2
  <1>4. CASE pattern_hits(a, m)
    <2>1. RouteFilled(a, q)
      BY <1>4 DEF FillRoute
    <2>2. \E p \in q.patterns : matches_pattern(p, m)
      BY <1>4 DEF pattern_hits
    <2> QED BY <1>1, <1>2, <2>1, <2>2, RouteFilledStep
  <1>5. CASE ~pattern_hits(a, m) /\ again # {}
    <2> DEFINE w == [q EXCEPT !.reused = q.reused \cup again, !.locks = q.locks \cup RouteRows(again)]
    <2>1. RouteFilled(a, w) /\ RouteRows(again) \cap Held(a) = {}
      BY <1>5 DEF FillRoute
    <2>2. \A r \in again : r \in DOMAIN db.routes /\ db.routes[r].pattern = m
      BY DEF Reusable
    <2>3. \A r \in again : <<"route", r>> \in RouteRows(again)
      BY DEF RouteRows
    <2> HIDE DEF again, m
    <2>4. /\ DOMAIN w = DOMAIN q /\ \A k \in DOMAIN w : k \notin {"reused", "locks"} => w[k] = q[k]
          /\ w.reused = q.reused \cup again /\ w.locks = q.locks \cup RouteRows(again)
      BY <1>2
    <2> HIDE DEF w
    <2>5. w.routes = q.routes
      BY <1>2, <2>4
    <2>6. \A r \in w.reused : r \in DOMAIN db.routes /\ <<"route", r>> \in w.locks
      BY <1>2, <2>2, <2>3, <2>4
    <2>7. \E r \in w.reused : db.routes[r].pattern = m
      BY <1>5, <2>2, <2>4
    <2>8. \A x \in w.locks : x \in q.locks \/ x \notin Held(a)
      BY <2>1, <2>4
    <2> QED BY <1>1, <1>2, <2>1, <2>4, <2>5, <2>6, <2>7, <2>8, RouteFilledStep DEF m
  <1>6. CASE Become(a, Idle)
    BY <1>1, <1>6, GoOn DEF CopiesKept
  <1>7. CASE ~pattern_hits(a, m) /\ again = {} /\ ~Become(a, Idle)
    <2> DEFINE w == [q EXCEPT !.routes = Append(q.routes, m), !.refs = {Target(a)}]
    <2>1. RouteFilled(a, w)
      BY <1>7 DEF FillRoute
    <2>2. Append(q.routes, m) \in Seq(Models) /\ m \in ToSet(Append(q.routes, m)) /\ ToSet(q.routes) \subseteq ToSet(Append(q.routes, m))
      BY <1>2, <1>3, AppendSet
    <2> HIDE DEF m
    <2>4. /\ DOMAIN w = DOMAIN q /\ \A k \in DOMAIN w : k \notin {"routes", "refs"} => w[k] = q[k]
          /\ w.routes = Append(q.routes, m)
      BY <1>2
    <2> HIDE DEF w
    <2>5. w.reused = q.reused /\ w.locks = q.locks
      BY <1>2, <2>4
    <2> QED BY <1>1, <1>2, <2>1, <2>2, <2>4, <2>5, RouteFilledStep DEF m
  <1> QED BY <1>4, <1>5, <1>6, <1>7

LEMMA SetToSeqFacts ==
    ASSUME NEW S, IsFiniteSet(S)
    PROVE  /\ Cardinality(S) \in Nat /\ SetToSeq(S) \in [1..Cardinality(S) -> S]
           /\ \A i, j \in 1..Cardinality(S) : SetToSeq(S)[i] = SetToSeq(S)[j] => i = j
  <1>1. Cardinality(S) \in Nat /\ ExistsBijection(1..Cardinality(S), S)
    BY FS_CardinalityType
  <1>2. \E f \in [1..Cardinality(S) -> S] : IsInjective(f)
    BY <1>1 DEF ExistsBijection, Bijection, Injection
  <1>3. SetToSeq(S) \in [1..Cardinality(S) -> S] /\ IsInjective(SetToSeq(S))
    BY <1>2 DEF SetToSeq
  <1> QED BY <1>1, <1>3 DEF IsInjective

\* The rows a refresh adds to the library.
LEMMA NewModelsFacts ==
    ASSUME NEW a \in Admins, Rows(db), IsFiniteSet(proc[a].added)
    PROVE  /\ Cardinality(proc[a].added) \in Nat
           /\ \A i \in DOMAIN NewModels(a) :
                /\ i \in Nat /\ db.next <= i /\ i < db.next + Cardinality(proc[a].added)
                /\ DOMAIN NewModels(a)[i] = {"provider", "model", "enabled", "attrs"}
                /\ NewModels(a)[i].provider = Head(proc[a].todo) /\ NewModels(a)[i].model \in proc[a].added
           /\ \A i, j \in DOMAIN NewModels(a) : NewModels(a)[i].model = NewModels(a)[j].model => i = j
  <1> DEFINE added == proc[a].added
             n == Cardinality(added)
             seq == SetToSeq(added)
             row(i) == [provider |-> Target(a), model |-> seq[i - db.next + 1], enabled |-> TRUE, attrs |-> Unset]
             ids == {db.next + k - 1 : k \in DOMAIN seq}
  <1>1. n \in Nat /\ seq \in [1..n -> added] /\ \A i, j \in 1..n : seq[i] = seq[j] => i = j
    BY SetToSeqFacts
  <1>2. NewModels(a) = [i \in ids |-> row(i)]
    BY DEF NewModels
  <1> HIDE DEF seq, n
  <1>3. db.next \in Nat
    BY DEF Rows
  <1>4. ASSUME NEW i \in ids
        PROVE  i \in Nat /\ db.next <= i /\ i < db.next + n /\ i - db.next + 1 \in 1..n
    BY <1>1, <1>3
  <1>5. ASSUME NEW i \in ids
        PROVE  /\ DOMAIN row(i) = {"provider", "model", "enabled", "attrs"}
               /\ row(i).provider = Head(proc[a].todo) /\ row(i).model = seq[i - db.next + 1]
               /\ row(i).model \in added
    BY <1>1, <1>4 DEF Target
  <1>6. ASSUME NEW i \in ids, NEW j \in ids, row(i).model = row(j).model PROVE i = j
    BY <1>1, <1>3, <1>4, <1>5, <1>6
  <1> HIDE DEF row, ids
  <1>7. DOMAIN NewModels(a) = ids /\ \A i \in ids : NewModels(a)[i] = row(i)
    BY <1>2
  <1> QED BY <1>1, <1>4, <1>5, <1>6, <1>7 DEF n

\* The routes after a refresh.
LEMMA RoutesCommitted ==
    ASSUME NEW a \in Admins, Rows(db), proc[a].routes \in Seq(Models), db'.routes = Over(NewRoutes(a), Reenabled(proc[a].reused))
    PROVE  /\ \A r \in DOMAIN db.routes : /\ r \in DOMAIN db'.routes /\ DOMAIN db'.routes[r] = DOMAIN db.routes[r]
                                          /\ db'.routes[r].pattern = db.routes[r].pattern
                                          /\ db.routes[r].enabled \/ r \in proc[a].reused => db'.routes[r].enabled
           /\ \A r \in DOMAIN db'.routes \ DOMAIN db.routes :
                /\ r \in Nat /\ r < db.next + Len(proc[a].routes)
                /\ "pattern" \in DOMAIN db'.routes[r] /\ "enabled" \in DOMAIN db'.routes[r]
           /\ \A m \in ToSet(proc[a].routes) : \E r \in DOMAIN db'.routes : db'.routes[r].pattern = m /\ db'.routes[r].enabled
  <1> DEFINE seq == proc[a].routes
             new == NewRoutes(a)
             old == Reenabled(proc[a].reused)
             ids == {db.next + k - 1 : k \in DOMAIN seq}
             row(i) == AutoRoute(seq[i - db.next + 1], Target(a))
  <1>1. db.next \in Nat /\ Len(seq) \in Nat /\ DOMAIN seq = 1..Len(seq)
    BY DEF Rows
  <1>2. \A r \in DOMAIN db.routes : /\ r \in Nat /\ r < db.next
                                    /\ "pattern" \in DOMAIN db.routes[r] /\ "enabled" \in DOMAIN db.routes[r]
    BY DEF Rows
  <1>3. \A i \in ids : i \in Nat /\ db.next <= i /\ i < db.next + Len(seq)
    BY <1>1
  <1>4. \A i : "pattern" \in DOMAIN row(i) /\ "enabled" \in DOMAIN row(i) /\ row(i).enabled /\ row(i).pattern = seq[i - db.next + 1]
    BY DEF AutoRoute
  <1>5. new = [i \in ids |-> row(i)]
    BY DEF NewRoutes
  <1>6. /\ DOMAIN old = DOMAIN db.routes
        /\ \A r \in DOMAIN old : /\ DOMAIN old[r] = DOMAIN db.routes[r] /\ old[r].pattern = db.routes[r].pattern
                                 /\ db.routes[r].enabled \/ r \in proc[a].reused => old[r].enabled
    BY <1>2 DEF Reenabled
  <1>7. \A m \in ToSet(seq) : \E i \in ids : row(i).pattern = m
    <2> SUFFICES ASSUME NEW k \in DOMAIN seq PROVE \E i \in ids : row(i).pattern = seq[k]
      BY DEF ToSet
    <2>1. db.next + k - 1 \in ids /\ (db.next + k - 1) - db.next + 1 = k
      BY <1>1
    <2> QED BY <1>4, <2>1
  <1> HIDE DEF ids, row
  <1>8. DOMAIN new = ids /\ \A i \in ids : new[i] = row(i)
    BY <1>5
  <1> HIDE DEF new, old
  <1>9. /\ DOMAIN db'.routes = ids \cup DOMAIN db.routes
        /\ \A i \in ids : db'.routes[i] = row(i)
        /\ \A r \in DOMAIN db.routes : r \notin ids => db'.routes[r] = old[r]
    BY <1>6, <1>8 DEF Over, new, old
  <1>10. \A r \in DOMAIN db.routes : r \notin ids
    BY <1>1, <1>2, <1>3
  <1>11. ASSUME NEW r \in DOMAIN db.routes
         PROVE  /\ r \in DOMAIN db'.routes /\ DOMAIN db'.routes[r] = DOMAIN db.routes[r]
                /\ db'.routes[r].pattern = db.routes[r].pattern
                /\ db.routes[r].enabled \/ r \in proc[a].reused => db'.routes[r].enabled
    BY <1>6, <1>9, <1>10
  <1>12. ASSUME NEW r \in DOMAIN db'.routes \ DOMAIN db.routes
         PROVE  /\ r \in Nat /\ r < db.next + Len(seq)
                /\ "pattern" \in DOMAIN db'.routes[r] /\ "enabled" \in DOMAIN db'.routes[r]
    BY <1>3, <1>4, <1>9
  <1>13. \A m \in ToSet(seq) : \E r \in DOMAIN db'.routes : db'.routes[r].pattern = m /\ db'.routes[r].enabled
    BY <1>4, <1>7, <1>9
  <1> QED BY <1>11, <1>12, <1>13

LEMMA CommitFacts ==
    ASSUME NEW a \in Admins, CInv, CommitModels(a)
    PROVE  LET q == proc[a]
           IN  /\ q.pc = "commit" /\ Rows(db) /\ Requests /\ Txn(db, q) /\ UNCHANGED mem /\ Reloads(a, FullReload)
               /\ IsFiniteSet(q.added) /\ q.routes \in Seq(Models)
               /\ DOMAIN db' = Tables /\ db'.user_access = db.user_access
               /\ db'.next = db.next + Len(q.routes) + Cardinality(q.added)
               /\ db'.models = Over(NewModels(a), Without(db.models, q.gone))
               /\ db'.routes = Over(NewRoutes(a), Reenabled(q.reused))
  <1> DEFINE q == proc[a]
             models == Over(NewModels(a), Without(db.models, q.gone))
             routes == Over(NewRoutes(a), Reenabled(q.reused))
             next == db.next + Len(q.routes) + Cardinality(q.added)
  <1>1. q.pc = "commit" /\ Rows(db) /\ Requests /\ Txn(db, q) /\ UNCHANGED mem /\ Reloads(a, FullReload)
    BY DEF CommitModels, At, CInv, Requests
  <1>2. IsFiniteSet(q.added) /\ q.routes \in Seq(Models)
    BY <1>1 DEF Txn, Refreshing
  <1>3. db' = [db EXCEPT !.models = models, !.routes = routes, !.next = next]
    BY DEF CommitModels
  <1> HIDE DEF models, routes, next
  <1>4. /\ DOMAIN db' = Tables /\ db'.user_access = db.user_access
        /\ db'.next = next /\ db'.models = models /\ db'.routes = routes
    BY <1>1, <1>3 DEF Rows, Tables
  <1> QED BY <1>1, <1>2, <1>4 DEF models, routes, next

LEMMA CommitModelsStep == ASSUME NEW a \in Admins, CInv, CommitModels(a) PROVE Step(a)
  <1> DEFINE q == proc[a]
             new == NewModels(a)
             n == Cardinality(q.added)
  <1>1. /\ q.pc = "commit" /\ Rows(db) /\ Requests /\ Txn(db, q) /\ UNCHANGED mem /\ Reloads(a, FullReload)
        /\ IsFiniteSet(q.added) /\ q.routes \in Seq(Models)
        /\ DOMAIN db' = Tables /\ db'.user_access = db.user_access
        /\ db'.next = db.next + Len(q.routes) + n
        /\ db'.models = Over(new, Without(db.models, q.gone))
        /\ db'.routes = Over(NewRoutes(a), Reenabled(q.reused))
    BY CommitFacts
  <1>2. db.next \in Nat /\ n \in Nat /\ Len(q.routes) \in Nat /\ db'.next \in Nat /\ db'.next >= db.next
    <2>1. n \in Nat
      BY <1>1, FS_CardinalityType
    <2>2. db.next \in Nat /\ Len(q.routes) \in Nat
      BY <1>1 DEF Rows
    <2> HIDE DEF n
    <2> QED BY <1>1, <2>1, <2>2
  <1>3. \A i \in DOMAIN new : /\ i \in Nat /\ db.next <= i /\ i < db'.next
                              /\ DOMAIN new[i] = {"provider", "model", "enabled", "attrs"}
                              /\ new[i].provider = Head(q.todo) /\ new[i].model \in q.added
    <2>1. \A i \in DOMAIN new : /\ i \in Nat /\ db.next <= i /\ i < db.next + n
                                /\ DOMAIN new[i] = {"provider", "model", "enabled", "attrs"}
                                /\ new[i].provider = Head(q.todo) /\ new[i].model \in q.added
      BY <1>1, NewModelsFacts
    <2> HIDE DEF n, new
    <2> QED BY <1>1, <1>2, <2>1
  <1>4. \A i, j \in DOMAIN new : new[i].model = new[j].model => i = j
    BY <1>1, NewModelsFacts
  <1>5. \A i \in DOMAIN db.models : /\ i \in Nat /\ i < db.next
                                    /\ DOMAIN db.models[i] = {"provider", "model", "enabled", "attrs"}
    BY <1>1 DEF Rows
  <1> HIDE DEF new, n
  <1>6. /\ DOMAIN db'.models = DOMAIN new \cup (DOMAIN db.models \ q.gone)
        /\ \A i \in DOMAIN new : db'.models[i] = new[i]
        /\ \A i \in DOMAIN db.models \ q.gone : db'.models[i] = db.models[i]
    <2>1. \A i \in DOMAIN db.models : i \notin DOMAIN new
      BY <1>2, <1>3, <1>5
    <2> QED BY <1>1, <2>1 DEF Over, Without, Pick
  <1>7. /\ \A i \in q.gone \cap DOMAIN db.models : db.models[i].model \notin ToSet(q.listed)
        /\ \A i \in DOMAIN db.models : db.models[i].provider = Head(q.todo) => db.models[i].model \notin q.added
        /\ q.added \subseteq ToSet(q.listed)
    BY <1>1 DEF Txn, Refreshing
  <1>8. Rows(db')
    <2>1. \A r \in DOMAIN db'.routes : /\ r \in Nat /\ r < db'.next
                                       /\ "pattern" \in DOMAIN db'.routes[r] /\ "enabled" \in DOMAIN db'.routes[r]
      <3>1. ASSUME NEW r \in DOMAIN db'.routes, r \in DOMAIN db.routes
            PROVE  /\ r \in Nat /\ r < db.next
                   /\ "pattern" \in DOMAIN db'.routes[r] /\ "enabled" \in DOMAIN db'.routes[r]
        BY <1>1, <3>1, RoutesCommitted DEF Rows
      <3>2. ASSUME NEW r \in DOMAIN db'.routes, r \notin DOMAIN db.routes
            PROVE  /\ r \in Nat /\ r < db.next + Len(q.routes)
                   /\ "pattern" \in DOMAIN db'.routes[r] /\ "enabled" \in DOMAIN db'.routes[r]
        BY <1>1, <3>2, RoutesCommitted
      <3> QED BY <1>1, <1>2, <3>1, <3>2
    <2>2. \A i \in DOMAIN db'.models : /\ i \in Nat /\ i < db'.next
                                       /\ DOMAIN db'.models[i] = {"provider", "model", "enabled", "attrs"}
      BY <1>2, <1>3, <1>5, <1>6
    <2>3. ASSUME NEW i \in DOMAIN db'.models, NEW j \in DOMAIN db'.models,
                 db'.models[i].provider = db'.models[j].provider, db'.models[i].model = db'.models[j].model
          PROVE  i = j
      <3>1. CASE i \in DOMAIN new /\ j \in DOMAIN new
        BY <1>4, <1>6, <2>3, <3>1
      <3>2. CASE i \in DOMAIN db.models \ q.gone /\ j \in DOMAIN db.models \ q.gone
        BY <1>1, <1>6, <2>3, <3>2 DEF Rows
      <3>3. CASE i \in DOMAIN new /\ j \in DOMAIN db.models \ q.gone
        BY <1>3, <1>6, <1>7, <2>3, <3>3
      <3>4. CASE i \in DOMAIN db.models \ q.gone /\ j \in DOMAIN new
        BY <1>3, <1>6, <1>7, <2>3, <3>4
      <3> QED BY <1>6, <3>1, <3>2, <3>3, <3>4
    <2> QED BY <1>1, <1>2, <2>1, <2>2, <2>3 DEF Rows
  <1>9. Keeps(a)
    <2>1. \A r \in DOMAIN db.routes : r \in DOMAIN db'.routes /\ db'.routes[r].pattern = db.routes[r].pattern
      BY <1>1, RoutesCommitted
    <2>2. ASSUME NEW i \in DOMAIN new PROVE i >= db.next /\ Unclaimed(a, db'.models[i])
      <3>1. ASSUME NEW b \in Admins \ {a}, proc[b].pc \in Refreshing, Head(q.todo) = Head(proc[b].todo)
            PROVE  q.added \cap proc[b].added = {}
        BY <1>1, <3>1 DEF Requests, Apart, Refreshing
      <3>2. db'.models[i].provider = Head(q.todo) /\ db'.models[i].model \in q.added /\ i >= db.next
        BY <1>2, <1>3, <1>6
      <3> QED BY <3>1, <3>2 DEF Unclaimed
    <2>3. ASSUME NEW i \in DOMAIN db.models \ q.gone PROVE SameModel(db, db', i)
      BY <1>6 DEF SameModel
    <2> QED BY <1>2, <1>6, <1>8, <2>1, <2>2, <2>3 DEF Keeps
  <1>10. OffStays
    <2>1. ASSUME NEW i \in DOMAIN db.models, ~db.models[i].enabled
          PROVE  \/ i \in DOMAIN db'.models /\ SameModel(db, db', i) /\ ~db'.models[i].enabled
                 \/ \A j \in DOMAIN db'.models : ~(/\ db'.models[j].provider = db.models[i].provider
                                                   /\ db'.models[j].model = db.models[i].model)
      <3>1. CASE i \notin q.gone
        BY <1>6, <2>1, <3>1 DEF SameModel
      <3>2. CASE i \in q.gone
        <4>1. ASSUME NEW j \in DOMAIN db'.models, db'.models[j].provider = db.models[i].provider,
                     db'.models[j].model = db.models[i].model
              PROVE  FALSE
          <5>1. CASE j \in DOMAIN new
            BY <1>3, <1>6, <1>7, <3>2, <4>1, <5>1
          <5>2. CASE j \in DOMAIN db.models \ q.gone
            BY <1>1, <1>6, <3>2, <4>1, <5>2 DEF Rows
          <5> QED BY <1>6, <5>1, <5>2
        <4> QED BY <4>1
      <3> QED BY <3>1, <3>2
    <2> QED BY <2>1, RowByRowOff
  <1>11. AccessKept(a)
    BY <1>1, SameAccess
  <1> QED BY <1>1, <1>9, <1>10, <1>11, SaveStep

-----------------------------------------------------------------------------
(* Every step of an administrator is one of these.                          *)

LEMMA RequestStep ==
    ASSUME NEW a \in Admins, CInv, Begins(a) \/ Goes(a) \/ CutShort(a)
    PROVE  Step(a)
  <1>1. CASE Begins(a)
    BY <1>1, BeginStep DEF Begins
  <1>2. CASE CutShort(a)
    BY <1>2, CutShortStep
  <1>3. CASE Check(a) \/ AfterReload(a)
    BY <1>3, CheckStep, AfterReloadStep
  <1>4. CASE Providers(a)
    BY <1>4, CreateProviderStep, UpdateProviderStep, ClaimRoutesStep, DropProviderStep DEF Providers
  <1>5. CASE Routes(a)
    BY <1>5, CreateRouteStep, UpdateRouteStep, DeleteRouteStep DEF Routes
  <1>6. CASE Rules(a)
    BY <1>6, CreateRateLimitStep, FindRuleStep, UpdateRateLimitStep, DeleteRateLimitStep DEF Rules
  <1>7. CASE Prices(a)
    BY <1>7, CreatePriceStep, DeletePriceStep DEF Prices
  <1>8. CASE Library(a)
    BY <1>8, UpdateModelStep, SetAttributeStep, DeleteModelStep, ListProvidersStep, FetchModelsStep,
       PruneModelsStep, FillModelStep, FillRouteStep, CommitModelsStep DEF Library
  <1>9. CASE Access(a)
    BY <1>9, SeeAccessStep, ClearAccessStep, GrantAccessStep DEF Access
  <1>10. CASE Settings(a)
    BY <1>10, SaveSettingStep, PutSettingStep, PutLdapStep DEF Settings
  <1>11. CASE People(a)
    BY <1>11, FindUserStep, SetStatusStep, SetIsAdminStep, UpsertLdapStep DEF People
  <1> QED BY <1>1, <1>2, <1>3, <1>4, <1>5, <1>6, <1>7, <1>8, <1>9, <1>10, <1>11 DEF Goes

\* A reload reads the committed rules and puts them into memory as they were read.
LEMMA LoaderStep ==
    ASSUME CInv, Remember, NEW l \in Loaders,
           Tick \/ Load(l) \/ LoadFails(l) \/ Apply(l)
    PROVE  CInv' /\ UNCHANGED <<scene, db, proc>>
  <1>1. UNCHANGED <<scene, db, proc>>
    BY DEF Tick, Load, LoadFails, Apply, requestVars
  <1>2. scene' \in DOMAIN Scenes /\ Rows(db)' /\ Requests'
    <2>1. Rows(db)'
      BY <1>1 DEF CInv
    <2>2. Requests'
      BY <1>1 DEF CInv, Requests
    <2> QED BY <1>1, <2>1, <2>2 DEF CInv
  <1>3. Copies
    BY DEF CInv
  <1>4. granted \subseteq granted' /\ unbound \subseteq unbound'
    BY DEF Remember
  <1>5. /\ load_admin_ids \subseteq unbound' /\ mem.admin_ids \subseteq unbound' /\ (load_admin_ids \subseteq unbound)'
        /\ Safe(db.user_access)' /\ (Safe(mem.user_access) => /\ mem.user_access \subseteq granted'
                                                           /\ \A u \in Users \ unbound' : RulesOf(mem.user_access, u) # {})
    BY <1>1, <1>3, <1>4 DEF Copies, Safe, load_admin_ids
  <1> DEFINE SafeThen(rules) == rules \subseteq granted' /\ \A u \in Users \ unbound' : RulesOf(rules, u) # {}
             Fine(r) == /\ "i" \in DOMAIN r /\ "snap" \in DOMAIN r /\ "last" \in DOMAIN r
                        /\ r.snap.read /\ Section(r.i) = "user_access" => SafeThen(r.snap.value)
                        /\ r.snap.read /\ Section(r.i) = "admin_ids" => r.snap.value \subseteq unbound'
  <1>6. ASSUME NEW k \in Loaders PROVE Fine(loader[k])
    <2>1. /\ "i" \in DOMAIN loader[k] /\ "snap" \in DOMAIN loader[k] /\ "last" \in DOMAIN loader[k]
          /\ loader[k].snap.read => SafeSnap(Section(loader[k].i), loader[k].snap.value)
      BY <1>3 DEF Copies
    <2>2. Safe(loader[k].snap.value) => SafeThen(loader[k].snap.value)
      BY <1>4, SafeStays
    <2> QED BY <1>4, <2>1, <2>2 DEF SafeSnap
  <1>7. SafeThen(db.user_access) /\ SafeThen(mem.user_access)
    BY <1>1, <1>3, <1>5 DEF Copies, Safe
  <1>8. DOMAIN loader = Loaders /\ DOMAIN mem = AllSections /\ {"user_access", "admin_ids"} \subseteq AllSections
    BY <1>3 DEF Copies, AllSections
  <1>9. SUFFICES /\ DOMAIN mem' = AllSections /\ SafeThen(mem'.user_access) /\ DOMAIN loader' = Loaders
                 /\ mem'.admin_ids \subseteq unbound'
                 /\ \A k \in Loaders : Fine(loader'[k])
    <2>1. ASSUME NEW k \in Loaders, Fine(loader'[k])
          PROVE  /\ "i" \in DOMAIN loader'[k] /\ "snap" \in DOMAIN loader'[k] /\ "last" \in DOMAIN loader'[k]
                 /\ loader'[k].snap.read => SafeSnap(Section(loader[k].i), loader[k].snap.value)'
      BY <1>1, <2>1 DEF Section, Now, Safe, SafeSnap
    <2> QED BY <1>1, <1>2, <1>5, <1>9, <2>1 DEF CInv, Copies, Safe
  <1>10. Fine(FullReload)
    BY DEF FullReload, From, NotRead
  <1>11. ASSUME NEW k \in Loaders, NEW ok PROVE Fine(Advanced(loader[k], ok))
    <2>1. /\ DOMAIN Advanced(loader[k], ok) = DOMAIN loader[k]
          /\ "snap" \in DOMAIN loader[k] => Advanced(loader[k], ok).snap = NotRead
      BY DEF Advanced
    <2> QED BY <1>6, <2>1 DEF NotRead
  <1>12. CASE Tick
    <2>1. loader' = [loader EXCEPT ![Periodic] = FullReload] /\ mem' = mem
      BY <1>12 DEF Tick
    <2> HIDE DEF Fine, SafeThen
    <2> QED BY <1>5, <1>6, <1>7, <1>8, <1>10, <2>1 DEF Loaders
  <1>13. CASE Load(l)
    <2> DEFINE snap == [read |-> TRUE, value |-> View(Section(loader[l].i))]
               r == [loader[l] EXCEPT !.snap = snap]
    <2>1. loader' = [loader EXCEPT ![l] = r] /\ mem' = mem
      BY <1>13, <1>8 DEF Load
    <2>2. /\ Section(loader[l].i) = "user_access" => snap.value = db.user_access
          /\ Section(loader[l].i) = "admin_ids" => snap.value = load_admin_ids
      BY DEF View
    <2> HIDE DEF snap
    <2>3. DOMAIN r = DOMAIN loader[l] /\ ("snap" \in DOMAIN r => r.snap = snap) /\ ("i" \in DOMAIN r => r.i = loader[l].i)
      OBVIOUS
    <2> HIDE DEF r
    <2>4. Fine(r)
      BY <1>5, <1>6, <1>7, <2>2, <2>3
    <2> HIDE DEF Fine, SafeThen
    <2> QED BY <1>5, <1>6, <1>7, <1>8, <2>1, <2>4
  <1>14. CASE LoadFails(l)
    <2>1. loader' = [loader EXCEPT ![l] = Advanced(loader[l], FALSE)] /\ mem' = mem
      BY <1>14 DEF LoadFails
    <2> HIDE DEF Fine, SafeThen
    <2> QED BY <1>5, <1>6, <1>7, <1>8, <1>11, <2>1
  <1>15. CASE Apply(l)
    <2>1. /\ loader' = [loader EXCEPT ![l] = Advanced(loader[l], loader[l].ok)]
          /\ mem' = [mem EXCEPT ![Section(loader[l].i)] = loader[l].snap.value] /\ loader[l].snap.read
      BY <1>15 DEF Apply
    <2>2. SafeThen(mem'.user_access) /\ DOMAIN mem' = AllSections /\ mem'.admin_ids \subseteq unbound'
      <3>1. /\ Section(loader[l].i) = "user_access" => SafeThen(loader[l].snap.value)
            /\ Section(loader[l].i) = "admin_ids" => loader[l].snap.value \subseteq unbound'
        BY <1>6, <2>1
      <3> HIDE DEF SafeThen
      <3> QED BY <1>5, <1>7, <1>8, <2>1, <3>1
    <2> HIDE DEF Fine, SafeThen
    <2> QED BY <1>6, <1>8, <1>11, <2>1, <2>2
  <1> QED BY <1>12, <1>13, <1>14, <1>15

LEMMA CatalogInitInv == CatalogInit => CInv
  <1> SUFFICES ASSUME CatalogInit PROVE CInv
    OBVIOUS
  <1>1. scene \in DOMAIN Scenes /\ db = Scenes[scene].db
    BY DEF CatalogInit, Now
  <1>2. Rows(db)
    BY <1>1, ScenesAssumption DEF Rows, Tables
  <1>3. Requests
    <2>1. proc = [a \in Admins |-> Idle]
      BY DEF CatalogInit
    <2>2. Well(Idle) /\ Txn(db, Idle) /\ Apart(Idle, Idle)
      BY DEF Well, Txn, Apart, Idle, Refreshing
    <2> QED BY <2>1, <2>2 DEF Requests
  <1>4. Copies
    <2>1. /\ loader = [l \in Loaders |-> AtRest] /\ mem = [s \in AllSections |-> View(s)]
          /\ granted = db.user_access
          /\ unbound = load_admin_ids \cup {u \in Users : RulesOf(db.user_access, u) = {}}
      BY DEF CatalogInit
    <2>2. Safe(db.user_access)
      BY <2>1 DEF Safe
    <2>3. /\ "user_access" \in AllSections /\ View("user_access") = db.user_access
          /\ "admin_ids" \in AllSections /\ View("admin_ids") = load_admin_ids
      BY DEF AllSections, View
    <2>4. DOMAIN mem = AllSections /\ mem.user_access = db.user_access /\ mem.admin_ids = load_admin_ids
      BY <2>1, <2>3
    <2>5. \A l \in Loaders : /\ "i" \in DOMAIN loader[l] /\ "snap" \in DOMAIN loader[l] /\ "last" \in DOMAIN loader[l]
                             /\ ~loader[l].snap.read
      BY <2>1 DEF AtRest, NotRead
    <2> QED BY <2>1, <2>2, <2>4, <2>5 DEF Copies
  <1> QED BY <1>1, <1>2, <1>3, <1>4 DEF CInv

\* What every step is.
LEMMA NextCases ==
    ASSUME CInv, CatalogNext
    PROVE  CInv' /\ (UNCHANGED <<db, proc>> \/ \E a \in Admins : Step(a) /\ (Begins(a) \/ Goes(a) \/ CutShort(a)))
  <1>1. Remember
    BY DEF CatalogNext
  <1>2. CASE \E a \in Admins : Begins(a) \/ Goes(a) \/ CutShort(a)
    BY <1>1, <1>2, RequestStep, StepKeeps
  <1>3. CASE Tick
    <2>1. Periodic \in Loaders
      BY DEF Loaders
    <2> QED BY <1>1, <1>3, <2>1, LoaderStep
  <1>4. CASE \E l \in Loaders : Load(l) \/ LoadFails(l) \/ Apply(l)
    BY <1>1, <1>4, LoaderStep
  <1> QED BY <1>2, <1>3, <1>4 DEF CatalogNext

LEMMA CatalogInductive == CatalogSpec => []CInv
  <1>1. CInv /\ UNCHANGED vars => CInv'
    <2> SUFFICES ASSUME CInv, UNCHANGED vars PROVE CInv'
      OBVIOUS
    <2>1. UNCHANGED <<scene, db, mem, loader, proc, granted, unbound>>
      BY DEF vars
    <2>2. Rows(db)' /\ scene' \in DOMAIN Scenes
      BY <2>1 DEF CInv
    <2>3. Requests'
      BY <2>1 DEF CInv, Requests
    <2>4. Copies'
      BY <2>1 DEF CInv, Copies, Safe, SafeSnap, Section, Now, load_admin_ids
    <2> QED BY <2>2, <2>3, <2>4 DEF CInv
  <1>2. CInv /\ [CatalogNext]_vars => CInv'
    BY <1>1, NextCases
  <1> QED BY <1>2, CatalogInitInv, PTL DEF CatalogSpec

-----------------------------------------------------------------------------
(* The properties.                                                          *)

\* A user who has been under access rules all the time and never an administrator never
\* reaches a provider with a model that no rule of his ever allowed (store/access.rs 49-72,
\* routing.rs 33-53, state.rs 252-263).
THEOREM CatalogOnlyGranted == CatalogSpec => []OnlyGranted
  <1>1. CInv => OnlyGranted
    <2> SUFFICES ASSUME CInv, NEW u \in Users \ unbound, NEW m \in Models, NEW p \in Candidates(mem, u, m)
                 PROVE  \E r \in RulesOf(granted, u) : RuleCovers(r, p, m)
      BY DEF OnlyGranted
    <2>1. Safe(mem.user_access) /\ mem.admin_ids \subseteq unbound
      BY DEF CInv, Copies
    <2>2. user_can_use(mem.user_access, u, p, m)
      BY <2>1 DEF Candidates
    <2>3. RulesOf(mem.user_access, u) # {} /\ mem.user_access \subseteq granted
      BY <2>1 DEF Safe
    <2>4. PICK r \in RulesOf(mem.user_access, u) : RuleCovers(r, p, m)
      BY <2>2, <2>3 DEF user_can_use
    <2>5. r \in RulesOf(granted, u)
      BY <2>3 DEF RulesOf
    <2> QED BY <2>4, <2>5
  <1> QED BY <1>1, CatalogInductive, PTL

\* A model that is switched off and stays in the library is switched on by nobody but an
\* administrator, however refreshes overlap his change (store/config.rs 577-632).
THEOREM CatalogDisabledStays == CatalogSpec => DisabledStays
  <1>1. CInv /\ [CatalogNext]_vars => OffStays
    <2> SUFFICES ASSUME CInv, [CatalogNext]_vars PROVE OffStays
      OBVIOUS
    <2>1. CASE UNCHANGED db
      BY <2>1, SameModelsOff
    <2>2. CASE CatalogNext
      BY <2>1, <2>2, NextCases DEF Step
    <2>3. CASE UNCHANGED vars
      BY <2>1, <2>3 DEF vars
    <2> QED BY <2>2, <2>3
  <1> QED BY <1>1, CatalogInductive, PTL DEF CatalogSpec, DisabledStays, OffStays

\* Of an administrator's steps only the commit is at "commit".
LEMMA OnlyCommit ==
    ASSUME NEW a \in Admins, proc[a].pc = "commit", Begins(a) \/ Goes(a)
    PROVE  CommitModels(a)
  <1>1. ~Begins(a)
    BY DEF Begins, Begin, At
  <1>2. ~Check(a) /\ ~AfterReload(a)
    BY DEF Check, AfterReload, At
  <1>3. ~create_provider(a) /\ ~update_provider(a) /\ ~ClaimRoutes(a) /\ ~DropProvider(a)
    BY DEF create_provider, update_provider, ClaimRoutes, DropProvider, Asked, At
  <1>4. ~create_route(a) /\ ~update_route(a) /\ ~delete_route(a)
    BY DEF create_route, update_route, delete_route, Asked, At
  <1>5. ~create_rate_limit(a) /\ ~find_rule(a) /\ ~update_rate_limit(a) /\ ~delete_rate_limit(a)
    BY DEF create_rate_limit, find_rule, update_rate_limit, delete_rate_limit, Asked, At
  <1>6. ~create_price(a) /\ ~delete_price(a) /\ ~update_model(a) /\ ~SetAttribute(a) /\ ~delete_model(a)
    BY DEF create_price, delete_price, update_model, SetAttribute, delete_model, Asked, At
  <1>7. ~ListProviders(a) /\ ~FetchModels(a) /\ ~PruneModels(a) /\ ~FillModel(a) /\ ~FillRoute(a)
    BY DEF ListProviders, FetchModels, PruneModels, FillModel, FillRoute, At
  <1>8. ~SeeAccess(a) /\ ~ClearAccess(a) /\ ~GrantAccess(a) /\ ~save_setting(a) /\ ~put_setting(a) /\ ~put_ldap_settings(a)
    BY DEF SeeAccess, ClearAccess, GrantAccess, save_setting, put_setting, put_ldap_settings, Asked, At
  <1>9. ~find_user(a) /\ ~set_status(a) /\ ~set_is_admin(a) /\ ~upsert_ldap(a)
    BY DEF find_user, set_status, set_is_admin, upsert_ldap, Asked, At
  <1> QED BY <1>1, <1>2, <1>3, <1>4, <1>5, <1>6, <1>7, <1>8, <1>9
          DEF Goes, Providers, Routes, Rules, Prices, Library, Access, People, Settings

\* When a refresh commits, every model it lists can be routed, unless an enabled route it
\* had counted on was taken away while it ran (store/config.rs 577-632).
THEOREM CatalogListedIsRouted == CatalogSpec => ListedIsRouted
  <1> DEFINE Served(a) ==
                At(a, "commit") /\ proc'[a].pc = "reload" /\ proc[a].patterns \subseteq EnabledPatterns =>
                    \A m \in ToSet(proc[a].listed) : \E p \in EnabledPatterns' : matches_pattern(p, m)
  <1>1. ASSUME CInv, [CatalogNext]_vars, NEW a \in Admins PROVE Served(a)
    <2> DEFINE q == proc[a]
    <2> SUFFICES ASSUME q.pc = "commit", proc'[a].pc = "reload", q.patterns \subseteq EnabledPatterns,
                        NEW m \in ToSet(q.listed)
                 PROVE  \E p \in EnabledPatterns' : matches_pattern(p, m)
      BY DEF At
    <2>1. CommitModels(a)
      <3>1. CatalogNext /\ proc' # proc
        BY <1>1 DEF vars
      <3>2. PICK b \in Admins : Step(b) /\ (Begins(b) \/ Goes(b) \/ CutShort(b))
        BY <1>1, <3>1, NextCases
      <3>3. b = a
        BY <3>2 DEF Step, Becomes
      <3>4. ~CutShort(a)
        BY <1>1 DEF CutShort, Idle, CInv, Requests
      <3> QED BY <3>2, <3>3, <3>4, OnlyCommit
    <2>2. Txn(db, q) /\ Rows(db) /\ q.routes \in Seq(Models) /\ db'.routes = Over(NewRoutes(a), Reenabled(q.reused))
      BY <1>1, <2>1, CommitFacts
    <2>3. /\ q.listed \in Seq(Models) /\ q.left = <<>> /\ Routed(db, q, m)
          /\ \A r \in q.reused : r \in DOMAIN db.routes
      BY <2>2 DEF Txn, Refreshing
    <2>4. m \in Models /\ matches_pattern(m, m)
      BY <2>3, RoutingAssumption DEF ToSet, matches_pattern
    <2>5. \A r \in DOMAIN db.routes : /\ r \in DOMAIN db'.routes /\ db'.routes[r].pattern = db.routes[r].pattern
                                      /\ db.routes[r].enabled \/ r \in q.reused => db'.routes[r].enabled
      BY <2>2, RoutesCommitted
    <2>6. \A x \in ToSet(q.routes) : \E r \in DOMAIN db'.routes : db'.routes[r].pattern = x /\ db'.routes[r].enabled
      BY <2>2, RoutesCommitted
    <2>7. \A r \in DOMAIN db'.routes : db'.routes[r].enabled => db'.routes[r].pattern \in EnabledPatterns'
      BY DEF EnabledPatterns, Enabled
    <2>8. CASE \E p \in q.patterns : matches_pattern(p, m)
      <3>1. PICK p \in q.patterns : matches_pattern(p, m)
        BY <2>8
      <3>2. PICK r \in DOMAIN db.routes : db.routes[r].enabled /\ db.routes[r].pattern = p
        BY DEF EnabledPatterns, Enabled
      <3> QED BY <2>5, <2>7, <3>1, <3>2
    <2>9. CASE m \in ToSet(q.routes)
      BY <2>4, <2>6, <2>7, <2>9
    <2>10. CASE \E r \in q.reused : db.routes[r].pattern = m
      BY <2>3, <2>4, <2>5, <2>7, <2>10
    <2>11. m \notin ToSet(q.left)
      BY <2>3 DEF ToSet
    <2> QED BY <2>3, <2>8, <2>9, <2>10, <2>11 DEF Routed
  <1>2. CInv /\ [CatalogNext]_vars => \A a \in Admins : Served(a)
    BY <1>1
  <1> QED BY <1>2, CatalogInductive, PTL DEF CatalogSpec, ListedIsRouted
=============================================================================
