------------------------------- MODULE Catalog -------------------------------
(***************************************************************************)
(* The administrator's configuration: providers, routes, rate rules,       *)
(* prices, the library of models, the users' access and the settings       *)
(* (api/admin_config.rs, store/config.rs, put_user_access of               *)
(* api/console.rs), and the copy of all that in memory which the proxy     *)
(* works with (AppState::reload).                                          *)
(*                                                                         *)
(* A request is a process whose steps are its SQL statements.  A           *)
(* transaction holds the rows it changed and refers to the providers its   *)
(* rows name; what it did is seen by others when it commits.  Every write  *)
(* is followed by a reload of all sections, each read and then written     *)
(* under its own lock; some settings are written to memory directly.       *)
(***************************************************************************)
EXTENDS Routing, FiniteSets

CONSTANTS
    Scenes,      \* name -> [db: the tables at the start, sections: the ones the scene
                 \* is about, in reload's order, asks: the requests, turns: administrator
                 \* -> how many, faults: how many requests are cut short]
    Admins, Periodic,    \* administrators' requests, the task of spawn_reload_tasks
    Listings,    \* what a provider's /models can answer: sequences of models or Failed
    Failed,
    Refused,     \* a value that a handler's validation refuses
    Protected,   \* the built-in administrator
    Owner,       \* API key -> its user
    EnvLdap      \* the LDAP settings of the environment

ASSUME CatalogAssumption ==
    /\ Periodic \notin Admins /\ Protected \in Users
    /\ \A s \in DOMAIN Scenes : DOMAIN Scenes[s].turns = Admins /\ Len(Scenes[s].sections) > 0

(* Rows are there in full, a table's ids are below the next one, and the   *)
(* models table has one row for a provider and a model.                    *)
ASSUME ScenesAssumption ==
    \A s \in DOMAIN Scenes :
        LET tables == Scenes[s].db
        IN  /\ DOMAIN tables = {"providers", "routes", "rules", "prices", "models", "user_access",
                                "users", "ldap", "settings", "next"}
            /\ tables.next \in Nat
            /\ \A r \in DOMAIN tables.routes :
                    /\ r \in Nat /\ r < tables.next
                    /\ {"pattern", "provider", "fallback", "priority", "enabled", "upstream"}
                            \subseteq DOMAIN tables.routes[r]
            /\ \A i \in DOMAIN tables.models :
                    /\ i \in Nat /\ i < tables.next
                    /\ DOMAIN tables.models[i] = {"provider", "model", "enabled", "attrs"}
                    /\ \A j \in DOMAIN tables.models \ {i} :
                            <<tables.models[i].provider, tables.models[i].model>>
                                # <<tables.models[j].provider, tables.models[j].model>>

(* A request is what its handler's body type lets through. *)
ASSUME RequestsAssumption ==
    \A s \in DOMAIN Scenes : \A req \in Scenes[s].asks :
        /\ "op" \in DOMAIN req /\ DOMAIN req \cap {"pc", "todo", "locks", "refs"} = {}
        /\ req.op = "create_route" =>
                /\ "fields" \in DOMAIN req
                /\ {"pattern", "provider", "fallback", "priority", "enabled", "upstream"} \subseteq DOMAIN req.fields
        /\ req.op = "put_user_access" =>
                /\ {"user", "rules"} \subseteq DOMAIN req
                /\ \A r \in req.rules : "user" \in DOMAIN r /\ r.user = req.user

ASSUME ListingsAssumption ==
    \A p \in DOMAIN Listings : \A answer \in Listings[p] \ {Failed} : answer \in Seq(Models)

VARIABLES
    scene, turns, faults,
    db,        \* the committed tables
    mem,       \* AppState
    loader,    \* reloads: section index, the last one, what was read, all sections well
    proc,      \* requests
    granted,   \* history: access rules that were in force
    unbound    \* history: users who were freed of them, or administrators, at some time

vars == <<scene, turns, faults, db, mem, loader, proc, granted, unbound>>

Now(v) == Scenes[scene][v]
Section(i) == Now("sections")[i]
Loaders == Admins \cup {Periodic}

Pick(f, keys) == [k \in keys |-> f[k]]
Without(f, keys) == Pick(f, DOMAIN f \ keys)
Over(f, g) == [k \in DOMAIN f \cup DOMAIN g |-> IF k \in DOMAIN f THEN f[k] ELSE g[k]]

-----------------------------------------------------------------------------
(* What the load functions return.                                          *)

Enabled(table) == {k \in DOMAIN table : table[k].enabled}

load_routes ==
    LET before(a, b) == \/ db.routes[a].priority < db.routes[b].priority
                        \/ db.routes[a].priority = db.routes[b].priority /\ a < b
        order == SetToSortSeq(Enabled(db.routes), before)
    IN  [i \in DOMAIN order |-> db.routes[order[i]]]

(* The row with the latest date, today or later. *)
load_prices ==
    LET rows(m)  == {p \in DOMAIN db.prices : db.prices[p].model = m}
        latest(m) == {p \in rows(m) : \A q \in rows(m) : db.prices[p].from >= db.prices[q].from}
    IN  [m \in {db.prices[p].model : p \in DOMAIN db.prices} |-> db.prices[CHOOSE p \in latest(m) : TRUE]]

(* A disabled administrator is none. *)
load_admin_ids == {u \in DOMAIN db.users : db.users[u].is_admin /\ db.users[u].status = 1}

load_disabled_models ==
    {<<db.models[i].provider, db.models[i].model>> : i \in DOMAIN db.models \ Enabled(db.models)}

(* A database without an URL leaves everything to the environment; an empty *)
(* field leaves that field to it.                                           *)
reload_ldap ==
    IF db.ldap.url = "" THEN EnvLdap
    ELSE [f \in DOMAIN EnvLdap |-> IF db.ldap[f] = "" THEN EnvLdap[f] ELSE db.ldap[f]]

View(s) ==
    CASE s = "providers"       -> Pick(db.providers, Enabled(db.providers))
      [] s = "routes"          -> load_routes
      [] s = "rules"           -> {db.rules[r] : r \in Enabled(db.rules)}
      [] s = "prices"          -> load_prices
      [] s = "user_access"     -> db.user_access
      [] s = "admin_ids"       -> load_admin_ids
      [] s = "disabled_models" -> load_disabled_models
      [] s = "ldap"            -> reload_ldap
      [] OTHER -> db.settings[s]

SettingOf == [put_extra_body_settings |-> "extra_body_enabled", put_message_settings |-> "message_templates",
              put_api_endpoint_settings |-> "api_endpoints", put_header_settings |-> "custom_headers"]

SettingNames == {"extra_body_enabled", "message_templates", "api_endpoints", "custom_headers"}

AllSections == {"providers", "routes", "rules", "prices", "user_access", "admin_ids", "disabled_models", "ldap"}
                    \cup SettingNames

-----------------------------------------------------------------------------
(* Reloads.                                                                 *)

NotRead == [read |-> FALSE]
AtRest == [i |-> 0, last |-> 0, snap |-> NotRead, ok |-> TRUE]
From(first, last) == [i |-> first, last |-> last, snap |-> NotRead, ok |-> TRUE]
FullReload == From(1, Len(Now("sections")))
LdapReload == LET i == CHOOSE j \in DOMAIN Now("sections") : Section(j) = "ldap" IN From(i, i)

Running(l) == loader[l].i > 0

(* On to the next section, or done. *)
Advanced(r, ok) ==
    [r EXCEPT !.i = IF @ < r.last THEN @ + 1 ELSE 0, !.snap = NotRead, !.ok = ok]

requestVars == <<scene, turns, faults, proc>>

Tick ==
    /\ ~Running(Periodic) /\ loader' = [loader EXCEPT ![Periodic] = FullReload]
    /\ UNCHANGED <<db, mem, requestVars>>

Load(l) ==
    /\ Running(l) /\ ~loader[l].snap.read
    /\ loader' = [loader EXCEPT ![l].snap = [read |-> TRUE, value |-> View(Section(loader[l].i))]]
    /\ UNCHANGED <<db, mem, requestVars>>

(* Mutant: the first section that fails ends the reload. *)
MutLoadFails(l) ==
    /\ Running(l) /\ ~loader[l].snap.read
    /\ loader' = [loader EXCEPT ![l] = [AtRest EXCEPT !.ok = FALSE]]
    /\ UNCHANGED <<db, mem, requestVars>>

(* The section keeps its value, the others go on. *)
LoadFails(l) ==
    /\ Running(l) /\ ~loader[l].snap.read
    /\ loader' = [loader EXCEPT ![l] = Advanced(@, FALSE)]
    /\ UNCHANGED <<db, mem, requestVars>>

Apply(l) ==
    /\ Running(l) /\ loader[l].snap.read
    /\ mem' = [mem EXCEPT ![Section(loader[l].i)] = loader[l].snap.value]
    /\ loader' = [loader EXCEPT ![l] = Advanced(@, loader[l].ok)]
    /\ UNCHANGED <<db, requestVars>>

-----------------------------------------------------------------------------
(* Requests.                                                                *)

Idle == [pc |-> "idle", locks |-> {}, refs |-> {}]
At(a, pc) == proc[a].pc = pc
Asked(a, pc, op) == At(a, pc) /\ proc[a].op = op
Become(a, req) == proc' = [proc EXCEPT ![a] = req] /\ UNCHANGED <<scene, turns, faults>>
Goto(a, pc) == Become(a, [proc[a] EXCEPT !.pc = pc])

(* A request that is refused or done; its transaction, if open, is undone. *)
Answer(a) == Become(a, Idle) /\ UNCHANGED loader
Reloads(a, how) ==
    /\ Become(a, [proc[a] EXCEPT !.pc = "reload", !.locks = {}, !.refs = {}])
    /\ loader' = [loader EXCEPT ![a] = how]

(* The statement takes effect and the sections are reloaded, or it does not. *)
Save(a, works, tables) ==
    /\ IF works THEN db' = tables /\ Reloads(a, FullReload) ELSE UNCHANGED db /\ Answer(a)
    /\ UNCHANGED mem

(* Rows held by, and providers referred to by, transactions of others. *)
Held(a) == UNION {proc[b].locks : b \in Admins \ {a}}
Referred(a) == UNION {proc[b].refs : b \in Admins \ {a}}
RouteRows(ids) == {<<"route", r>> : r \in ids}
ModelRows(ids) == {<<"model", i>> : i \in ids}
AccessRows(rules) == {<<"access", r>> : r \in rules}

-----------------------------------------------------------------------------
(* The statements of store/config.rs: the tables after each.                *)

Inserted(table, row) == [db EXCEPT ![table] = Over([i \in {db.next} |-> row], @), !.next = @ + 1]
Updated(table, id, patch) == [db EXCEPT ![table][id] = Over(patch, @)]
Deleted(table, id) == [db EXCEPT ![table] = Without(@, {id})]

insert_provider(row) == Inserted("providers", row)
set_provider(id, patch) == Updated("providers", id, patch)
insert_route(row) == Inserted("routes", row)
set_route(id, patch) == Updated("routes", id, patch)
drop_route(id) == Deleted("routes", id)
insert_rate_rule(row) == Inserted("rules", row)
set_rate_rule(id, patch) == Updated("rules", id, patch)
drop_rate_rule(id) == Deleted("rules", id)
insert_price(row) == Inserted("prices", row)
drop_price(id) == Deleted("prices", id)
set_model_enabled(id, on) == [db EXCEPT !.models[id].enabled = on]
set_model_attribute(id, attr) == [db EXCEPT !.models[id].attrs[attr.of] = attr.to]
drop_model(id) == Deleted("models", id)
save_system_setting(s, value) == [db EXCEPT !.settings[s] = value]

(* An empty password leaves the stored one. *)
save_ldap_settings(fields) ==
    [db EXCEPT !.ldap = [f \in DOMAIN @ |->
        IF f = "password" /\ fields.password = "" THEN @.password ELSE fields[f]]]

-----------------------------------------------------------------------------
(* What is refused with nothing written.  Checks that come after a query    *)
(* are among these.                                                         *)

Field(fields, f, default) == IF f \in DOMAIN fields THEN fields[f] ELSE default

(* Refused stands for a value outside the list or the range that the handler  *)
(* checks it against, or on its blocklist.                                    *)
Takes(fields, names) == \A f \in names \cap DOMAIN fields : fields[f] # Refused

validate_extra_body(fields) == Takes(fields, {"extra_body"})
validate_extra_headers(fields) == Takes(fields, {"auth_scheme", "extra_headers"})
validate_options(fields) ==
    Takes(fields, {"reasoning_effort_mode", "thinking_form", "responses_passthrough_fields"})
validate_rule(fields) == Takes(fields, {"scope", "concurrency"})
validate_ldap_req(fields) == Takes(fields, {"url"})
validate_setting(value) == value # Refused
validate_attributes(patch) ==
    "attrs" \in DOMAIN patch => \A i \in DOMAIN patch.attrs : patch.attrs[i].to # Refused

(* An empty name is no mapping. *)
normalize_upstream_model(fields) ==
    IF Field(fields, "upstream", Null) = "" THEN [fields EXCEPT !.upstream = Null] ELSE fields

(* A rule for one user or key must not be about the protected administrator. *)
ensure_rule_target_allowed(scope, id) ==
    /\ scope = "user" => id # Protected
    /\ scope = "api_key" /\ id \in DOMAIN Owner => Owner[id] # Protected

Malformed(req) ==
    CASE req.op = "create_provider" ->
            ~validate_extra_body(req.fields) \/ ~validate_extra_headers(req.fields) \/ req.fields.key = ""
      [] req.op = "update_provider" -> ~validate_extra_body(req.patch) \/ ~validate_extra_headers(req.patch)
      [] req.op = "create_route"    -> ~validate_extra_body(req.fields) \/ ~validate_options(req.fields)
      [] req.op = "update_route"    -> ~validate_extra_body(req.patch) \/ ~validate_options(req.patch)
      [] req.op = "create_rate_limit" ->
            ~validate_rule(req.fields) \/ ~ensure_rule_target_allowed(req.fields.scope, req.fields.scope_id)
      [] req.op = "update_rate_limit" -> ~validate_rule(req.patch)
      [] req.op = "update_model"    -> DOMAIN req.patch = {} \/ ~validate_attributes(req.patch)
      [] req.op \in {"put_user_access", "ldap_login"} -> req.user = Protected
      [] req.op = "update_user" -> req.user = Protected \/ ~Takes(req.patch, {"status"})
      [] req.op = "put_ldap_settings" -> ~validate_ldap_req(req.fields)
      [] req.op \in DOMAIN SettingOf -> ~validate_setting(req.value)
      [] OTHER -> FALSE

(* The providers whose existence is looked up, one query each. *)
Lookups(req) ==
    CASE req.op = "create_route" -> <<req.fields.provider>> \o req.fields.fallback
      [] req.op = "update_route" ->
            (IF "provider" \in DOMAIN req.patch THEN <<req.patch.provider>> ELSE <<>>)
                \o Field(req.patch, "fallback", <<>>)
      [] req.op = "put_user_access" -> SetToSeq({r.provider : r \in req.rules} \ {Null})
      [] req.op = "test_connection" -> <<req.id>>
      [] OTHER -> <<>>

FirstStep(req) ==
    CASE req.op = "update_rate_limit" -> "find_rule"
      [] req.op = "update_user"     -> "find_user"
      [] req.op = "refresh_models"  -> "list"
      [] req.op = "test_connection" -> "fetch"
      [] req.op = "update_model"    -> IF "enabled" \in DOMAIN req.patch THEN "write" ELSE "attrs"
      [] OTHER -> IF Lookups(req) # <<>> THEN "check" ELSE "write"

Begin(a, req) ==
    /\ At(a, "idle") /\ turns[a] > 0 /\ turns' = [turns EXCEPT ![a] = @ - 1]
    /\ proc' = IF Malformed(req) THEN proc
               ELSE [proc EXCEPT ![a] = Over([pc |-> FirstStep(req), todo |-> Lookups(req)], Over(req, Idle))]
    /\ UNCHANGED <<scene, faults, db, mem, loader>>

(* find_provider, for each provider a route or an access rule names. *)
Check(a) ==
    /\ At(a, "check")
    /\ IF Head(proc[a].todo) \notin DOMAIN db.providers THEN Answer(a)
       ELSE /\ Become(a, [proc[a] EXCEPT !.todo = Tail(@), !.pc = IF Len(proc[a].todo) = 1 THEN "write" ELSE @])
            /\ UNCHANGED loader
    /\ UNCHANGED <<db, mem>>

-----------------------------------------------------------------------------
(* Providers.                                                               *)

NameTaken(name, id) == \E p \in DOMAIN db.providers \ {id} : db.providers[p].name = name

create_provider(a) ==
    /\ Asked(a, "write", "create_provider")
    /\ Save(a, ~NameTaken(proc[a].fields.name, db.next),
            insert_provider(proc[a].fields))

(* An empty key leaves the stored one. *)
KeyKept(patch) == IF Field(patch, "key", "none") = "" THEN Without(patch, {"key"}) ELSE patch

update_provider(a) ==
    /\ Asked(a, "write", "update_provider")
    /\ Save(a, proc[a].id \in DOMAIN db.providers
                    /\ ~("name" \in DOMAIN proc[a].patch /\ NameTaken(proc[a].patch.name, proc[a].id)),
            set_provider(proc[a].id, KeyKept(proc[a].patch)))

(* delete_provider, a transaction: the routes that name the provider are *)
(* found and taken ...                                                   *)
Naming(id) == {r \in DOMAIN db.routes : id = db.routes[r].provider \/ id \in ToSet(db.routes[r].fallback)}

ClaimRoutes(a) ==
    /\ Asked(a, "write", "delete_provider")
    /\ RouteRows(Naming(proc[a].id)) \cap Held(a) = {}
    /\ Become(a, [proc[a] EXCEPT !.pc = "drop", !.locks = RouteRows(Naming(proc[a].id))])
    /\ UNCHANGED <<db, mem, loader>>

Scrubbed(id, claimed) ==
    [r \in {s \in DOMAIN db.routes : ~(<<"route", s>> \in claimed /\ db.routes[s].provider = id)} |->
        IF <<"route", r>> \in claimed
        THEN [db.routes[r] EXCEPT !.fallback = SelectSeq(@, LAMBDA p : p # id)] ELSE db.routes[r]]

ModelsOf(id) == {i \in DOMAIN db.models : db.models[i].provider = id}

(* ... then the provider goes with its models and the access rules about it, *)
(* unless a route came meanwhile, which the foreign key does not allow.  If  *)
(* it is gone already, the routes' fall-backs are still put right.           *)
RoutedMeanwhile(a) ==
    \E r \in DOMAIN db.routes : db.routes[r].provider = proc[a].id /\ <<"route", r>> \notin proc[a].locks

AboutProvider(id) == {r \in db.user_access : r.provider = id}

DropProvider(a) ==
    /\ At(a, "drop")
    /\ proc[a].id \notin Referred(a)
    /\ (ModelRows(ModelsOf(proc[a].id)) \cup AccessRows(AboutProvider(proc[a].id))) \cap Held(a) = {}
    /\ IF RoutedMeanwhile(a) THEN UNCHANGED db
       ELSE db' = [db EXCEPT !.providers = Without(@, {proc[a].id}), !.routes = Scrubbed(proc[a].id, proc[a].locks),
                             !.models = Without(@, ModelsOf(proc[a].id)), !.user_access = @ \ AboutProvider(proc[a].id)]
    /\ IF proc[a].id \in DOMAIN db.providers /\ ~RoutedMeanwhile(a) THEN Reloads(a, FullReload) ELSE Answer(a)
    /\ UNCHANGED mem

-----------------------------------------------------------------------------
(* Routes.  Only the primary provider has a foreign key.                    *)

create_route(a) ==
    /\ Asked(a, "write", "create_route")
    /\ Save(a, proc[a].fields.provider \in DOMAIN db.providers,
            insert_route(normalize_upstream_model(proc[a].fields)))

update_route(a) ==
    /\ Asked(a, "write", "update_route") /\ <<"route", proc[a].id>> \notin Held(a)
    /\ Save(a, /\ proc[a].id \in DOMAIN db.routes
               /\ "provider" \in DOMAIN proc[a].patch => proc[a].patch.provider \in DOMAIN db.providers,
            set_route(proc[a].id, normalize_upstream_model(proc[a].patch)))

delete_route(a) ==
    /\ Asked(a, "write", "delete_route") /\ <<"route", proc[a].id>> \notin Held(a)
    /\ Save(a, proc[a].id \in DOMAIN db.routes, drop_route(proc[a].id))

-----------------------------------------------------------------------------
(* Rate rules and prices.                                                   *)

create_rate_limit(a) ==
    /\ Asked(a, "write", "create_rate_limit")
    /\ Save(a, TRUE, insert_rate_rule(proc[a].fields))

(* The request over the rule as it is now; a global rule has no target. *)
PatchedFor(scope, patch) == IF scope = "global" THEN Over([scope_id |-> Null], patch) ELSE patch

find_rule(a) ==
    LET scope == Field(proc[a].patch, "scope", db.rules[proc[a].id].scope)
        patch == PatchedFor(scope, proc[a].patch)
    IN  /\ At(a, "find_rule")
        /\ IF /\ proc[a].id \in DOMAIN db.rules
              /\ ensure_rule_target_allowed(scope, Field(patch, "scope_id", db.rules[proc[a].id].scope_id))
           THEN Become(a, [proc[a] EXCEPT !.pc = "write", !.patch = patch]) /\ UNCHANGED loader
           ELSE Answer(a)
        /\ UNCHANGED <<db, mem>>

update_rate_limit(a) ==
    /\ Asked(a, "write", "update_rate_limit")
    /\ Save(a, proc[a].id \in DOMAIN db.rules, set_rate_rule(proc[a].id, proc[a].patch))

delete_rate_limit(a) ==
    /\ Asked(a, "write", "delete_rate_limit")
    /\ Save(a, proc[a].id \in DOMAIN db.rules, drop_rate_rule(proc[a].id))

create_price(a) ==
    /\ Asked(a, "write", "create_price")
    /\ Save(a, TRUE, insert_price(proc[a].fields))

delete_price(a) ==
    /\ Asked(a, "write", "delete_price")
    /\ Save(a, proc[a].id \in DOMAIN db.prices, drop_price(proc[a].id))

-----------------------------------------------------------------------------
(* The library of models.                                                   *)

update_model(a) ==
    /\ Asked(a, "write", "update_model") /\ <<"model", proc[a].id>> \notin Held(a)
    /\ Save(a, proc[a].id \in DOMAIN db.models, set_model_enabled(proc[a].id, proc[a].patch.enabled))

(* Context length, capability and output limit: a statement each, after the *)
(* reload; memory does not hold them.                                       *)
SetAttribute(a) ==
    /\ At(a, "attrs") /\ <<"model", proc[a].id>> \notin Held(a)
    /\ IF proc[a].id \notin DOMAIN db.models THEN UNCHANGED db /\ Answer(a)
       ELSE /\ db' = set_model_attribute(proc[a].id, Head(proc[a].patch.attrs))
            /\ IF Len(proc[a].patch.attrs) = 1 THEN Answer(a)
               ELSE Become(a, [proc[a] EXCEPT !.patch.attrs = Tail(@)]) /\ UNCHANGED loader
    /\ UNCHANGED mem

delete_model(a) ==
    /\ Asked(a, "write", "delete_model") /\ <<"model", proc[a].id>> \notin Held(a)
    /\ Save(a, proc[a].id \in DOMAIN db.models, drop_model(proc[a].id))

(* refresh_models asks every enabled provider; test_connection one. *)
ListProviders(a) ==
    /\ At(a, "list")
    /\ IF Enabled(db.providers) = {} THEN Answer(a)
       ELSE /\ Become(a, [proc[a] EXCEPT !.pc = "fetch", !.todo = SetToSortSeq(Enabled(db.providers), <)])
            /\ UNCHANGED loader
    /\ UNCHANGED <<db, mem>>

Target(a) == Head(proc[a].todo)

(* The next provider, or the answer. *)
NextProvider(a) ==
    /\ IF Len(proc[a].todo) > 1 THEN Become(a, [proc[a] EXCEPT !.pc = "fetch", !.todo = Tail(@)])
       ELSE Become(a, Idle)

(* A provider that Listings does not know cannot be reached. *)
Answers(p) == IF p \in DOMAIN Listings THEN Listings[p] ELSE {Failed}

FetchModels(a) ==
    /\ At(a, "fetch")
    /\ \E answer \in Answers(Target(a)) :
            IF answer = Failed THEN NextProvider(a)
            ELSE Become(a, Over([pc |-> "prune", listed |-> answer], proc[a]))
    /\ UNCHANGED <<db, mem, loader>>

(* Mutant: all of the provider's models go, to be inserted again. *)
MutUnlisted(a) == ModelsOf(Target(a))

(* replace_provider_models, a transaction: models that are no longer listed *)
(* go, and the patterns of the enabled routes are read ...                  *)
Unlisted(a) == {i \in ModelsOf(Target(a)) : db.models[i].model \notin ToSet(proc[a].listed)}

EnabledPatterns == {db.routes[r].pattern : r \in Enabled(db.routes)}

PruneModels(a) ==
    /\ At(a, "prune") /\ ModelRows(Unlisted(a)) \cap Held(a) = {}
    /\ Become(a, Over([pc |-> IF proc[a].listed = <<>> THEN "commit" ELSE "fill",
                       locks |-> ModelRows(Unlisted(a)), gone |-> Unlisted(a),
                       patterns |-> EnabledPatterns, left |-> proc[a].listed,
                       added |-> {}, reused |-> {}, routes |-> <<>>], proc[a]))
    /\ UNCHANGED <<db, mem, loader>>

(* ... each model is inserted unless it is there; one that another transaction *)
(* inserts or deletes is waited for ...                                        *)
InLibrary(a, m) ==
    \/ m \in proc[a].added
    \/ \E i \in ModelsOf(Target(a)) \ proc[a].gone : db.models[i].model = m

ChangedElsewhere(a, m) ==
    \/ \E i \in ModelsOf(Target(a)) : db.models[i].model = m /\ <<"model", i>> \in Held(a)
    \/ \E b \in Admins \ {a} : proc[b].pc \in {"fill", "route", "commit"} /\ Target(b) = Target(a) /\ m \in proc[b].added

FillModel(a) ==
    /\ At(a, "fill")
    /\ LET m == Head(proc[a].left)
       IN  /\ ~ChangedElsewhere(a, m)
           /\ IF InLibrary(a, m) THEN Goto(a, "route")
              ELSE IF Target(a) \notin DOMAIN db.providers THEN Become(a, Idle)
              ELSE Become(a, [proc[a] EXCEPT !.pc = "route", !.added = @ \cup {m}, !.refs = {Target(a)}])
    /\ UNCHANGED <<db, mem, loader>>

(* ... and a model that no enabled route matched gets one: the provider's *)
(* disabled exact route again, or a new one.                              *)
Reusable(a, m) ==
    {r \in DOMAIN db.routes \ proc[a].reused :
        db.routes[r].pattern = m /\ db.routes[r].provider = Target(a) /\ ~db.routes[r].enabled}

(* Mutant: a route of the model is a route, enabled or not. *)
MutHit(a, m) == \/ \E p \in proc[a].patterns : matches_pattern(p, m)
                \/ \E r \in DOMAIN db.routes : db.routes[r].pattern = m

pattern_hits(a, m) == \E p \in proc[a].patterns : matches_pattern(p, m)

RouteFilled(a, with) ==
    Become(a, [with EXCEPT !.left = Tail(@), !.pc = IF Len(proc[a].left) = 1 THEN "commit" ELSE "fill"])

FillRoute(a) ==
    /\ At(a, "route")
    /\ LET m == Head(proc[a].left)
           again == Reusable(a, m)
       IN  /\ pattern_hits(a, m) \/ RouteRows(again) \cap Held(a) = {}
           /\ IF pattern_hits(a, m) THEN RouteFilled(a, proc[a])
              ELSE IF again # {}
              THEN RouteFilled(a, [proc[a] EXCEPT !.reused = @ \cup again, !.locks = @ \cup RouteRows(again)])
              ELSE IF Target(a) \notin DOMAIN db.providers THEN Become(a, Idle)
              ELSE RouteFilled(a, [proc[a] EXCEPT !.routes = Append(@, m), !.refs = {Target(a)}])
    /\ UNCHANGED <<db, mem, loader>>

AutoRoute(m, p) == [pattern |-> m, provider |-> p, fallback |-> <<>>, priority |-> 100,
                    enabled |-> TRUE, upstream |-> Null]

Unset == [context_length |-> Null, capability |-> Null, max_output_tokens |-> Null]

NewModels(a) ==
    LET seq == SetToSeq(proc[a].added)
    IN  [i \in {db.next + k - 1 : k \in DOMAIN seq} |->
            [provider |-> Target(a), model |-> seq[i - db.next + 1], enabled |-> TRUE, attrs |-> Unset]]

NewRoutes(a) ==
    [i \in {db.next + k - 1 : k \in DOMAIN proc[a].routes} |->
        AutoRoute(proc[a].routes[i - db.next + 1], Target(a))]

Reenabled(ids) ==
    [r \in DOMAIN db.routes |-> [db.routes[r] EXCEPT !.enabled = @ \/ r \in ids]]

CommitModels(a) ==
    /\ At(a, "commit")
    /\ db' = [db EXCEPT !.models = Over(NewModels(a), Without(@, proc[a].gone)),
                        !.routes = Over(NewRoutes(a), Reenabled(proc[a].reused)),
                        !.next = @ + Len(proc[a].routes) + Cardinality(proc[a].added)]
    /\ Reloads(a, FullReload) /\ UNCHANGED mem

-----------------------------------------------------------------------------
(* put_user_access: the user's rules are replaced in one transaction.       *)

(* The DELETE is for the rows there are when it begins ... *)
SeeAccess(a) ==
    /\ Asked(a, "write", "put_user_access")
    /\ Become(a, Over([pc |-> "clear", gone |-> RulesOf(db.user_access, proc[a].user)], proc[a]))
    /\ UNCHANGED <<db, mem, loader>>

(* Mutant: the deletion is committed by itself. *)
MutClearAccess(a) ==
    /\ At(a, "clear") /\ AccessRows(proc[a].gone) \cap Held(a) = {}
    /\ Become(a, [proc[a] EXCEPT !.pc = "grant"])
    /\ db' = [db EXCEPT !.user_access = @ \ proc[a].gone]
    /\ UNCHANGED <<mem, loader>>

(* ... and waits for those another transaction has deleted; what that one   *)
(* inserts in their place it does not see ...                               *)
ClearAccess(a) ==
    /\ At(a, "clear") /\ AccessRows(proc[a].gone) \cap Held(a) = {}
    /\ Become(a, [proc[a] EXCEPT !.pc = "grant", !.locks = AccessRows(proc[a].gone)])
    /\ UNCHANGED <<db, mem, loader>>

(* ... then the new rules are inserted, unless they are there, and committed. *)
IsThere(a, r) ==
    \E old \in RulesOf(db.user_access, proc[a].user) \ proc[a].gone :
        old.provider = r.provider /\ old.pattern = r.pattern

NewRules(a) == {Over([row |-> db.next], r) : r \in {x \in proc[a].rules : ~IsThere(a, x)}}

GrantAccess(a) ==
    /\ At(a, "grant")
    /\ Save(a, {r.provider : r \in proc[a].rules} \ {Null} \subseteq DOMAIN db.providers,
            [db EXCEPT !.user_access = (@ \ proc[a].gone) \cup NewRules(a), !.next = @ + 1])

-----------------------------------------------------------------------------
(* Who is an administrator: update_user, and every login through the        *)
(* directory, which does not reload.                                        *)

AdminStep(a, was) ==
    IF "is_admin" \in DOMAIN proc[a].patch /\ was # proc[a].patch.is_admin
    THEN Become(a, Over([pc |-> "is_admin"], proc[a])) ELSE Become(a, Idle)

find_user(a) ==
    /\ At(a, "find_user")
    /\ IF proc[a].user \notin DOMAIN db.users THEN Become(a, Idle)
       ELSE IF "status" \in DOMAIN proc[a].patch
       THEN Become(a, Over([pc |-> "write", was |-> db.users[proc[a].user].is_admin], proc[a]))
       ELSE AdminStep(a, db.users[proc[a].user].is_admin)
    /\ UNCHANGED <<db, mem, loader>>

set_status(a) ==
    /\ Asked(a, "write", "update_user")
    /\ db' = [db EXCEPT !.users[proc[a].user].status = proc[a].patch.status]
    /\ AdminStep(a, proc[a].was)
    /\ UNCHANGED <<mem, loader>>

set_is_admin(a) ==
    /\ At(a, "is_admin")
    /\ Save(a, TRUE, [db EXCEPT !.users[proc[a].user].is_admin = proc[a].patch.is_admin])

Upserted(u, admin) ==
    Over([is_admin |-> admin], IF u \in DOMAIN db.users THEN db.users[u] ELSE [status |-> 1])

upsert_ldap(a) ==
    /\ Asked(a, "write", "ldap_login")
    /\ db' = [db EXCEPT !.users = Over([u \in {proc[a].user} |-> Upserted(u, proc[a].is_admin)], @)]
    /\ Answer(a) /\ UNCHANGED mem

-----------------------------------------------------------------------------
(* Settings.  All but those of LDAP are written to memory by the handler.   *)

save_setting(a) ==
    /\ At(a, "write") /\ proc[a].op \in DOMAIN SettingOf
    /\ db' = save_system_setting(SettingOf[proc[a].op], proc[a].value)
    /\ Goto(a, "put") /\ UNCHANGED <<mem, loader>>

put_setting(a) ==
    /\ At(a, "put") /\ mem' = [mem EXCEPT ![SettingOf[proc[a].op]] = proc[a].value]
    /\ Answer(a) /\ UNCHANGED db

(* Only this section is reloaded. *)
put_ldap_settings(a) ==
    /\ Asked(a, "write", "put_ldap_settings")
    /\ db' = save_ldap_settings(proc[a].fields) /\ Reloads(a, LdapReload) /\ UNCHANGED mem

-----------------------------------------------------------------------------
(* A reload that met an error ends the request with it.  Otherwise a second *)
(* statement or the next provider follows, or the answer.                   *)
AfterReload(a) ==
    /\ At(a, "reload") /\ ~Running(a)
    /\ loader' = [loader EXCEPT ![a] = AtRest]
    /\ IF ~loader[a].ok THEN Become(a, Idle)
       ELSE CASE proc[a].op = "refresh_models" -> NextProvider(a)
              [] proc[a].op = "update_model" /\ "attrs" \in DOMAIN proc[a].patch -> Goto(a, "attrs")
              [] OTHER -> Become(a, Idle)
    /\ UNCHANGED <<db, mem>>

(* The client goes away or a statement fails, also as the victim of a *)
(* deadlock: the transaction is rolled back.                          *)
CutShort(a) ==
    /\ ~At(a, "idle") /\ faults > 0 /\ faults' = faults - 1
    /\ proc' = [proc EXCEPT ![a] = Idle] /\ loader' = [loader EXCEPT ![a] = AtRest]
    /\ UNCHANGED <<scene, turns, db, mem>>

Providers(a) == create_provider(a) \/ update_provider(a) \/ ClaimRoutes(a) \/ DropProvider(a)
Routes(a) == create_route(a) \/ update_route(a) \/ delete_route(a)
Rules(a) == create_rate_limit(a) \/ find_rule(a) \/ update_rate_limit(a) \/ delete_rate_limit(a)
Prices(a) == create_price(a) \/ delete_price(a)
Library(a) == \/ update_model(a) \/ SetAttribute(a) \/ delete_model(a)
              \/ ListProviders(a) \/ FetchModels(a)
              \/ PruneModels(a) \/ FillModel(a) \/ FillRoute(a) \/ CommitModels(a)
Access(a) == SeeAccess(a) \/ ClearAccess(a) \/ GrantAccess(a)
People(a) == find_user(a) \/ set_status(a) \/ set_is_admin(a) \/ upsert_ldap(a)
Settings(a) == save_setting(a) \/ put_setting(a) \/ put_ldap_settings(a)

Begins(a) == \E req \in Now("asks") : Begin(a, req)

Goes(a) == \/ Check(a) \/ Providers(a) \/ Routes(a) \/ Rules(a) \/ Prices(a)
           \/ Library(a) \/ Access(a) \/ People(a) \/ Settings(a) \/ AfterReload(a)

(* An administrator takes away the user's last rule: he asks for none, or *)
(* deletes the provider that all of them are about.                       *)
Frees(a, u) ==
    \/ At(a, "grant") /\ proc[a].user = u /\ proc[a].rules = {}
    \/ At(a, "drop") /\ RulesOf(db.user_access, u) \subseteq AboutProvider(proc[a].id)

Remember ==
    /\ granted' = granted \cup db'.user_access
    /\ unbound' = unbound \cup load_admin_ids' \cup {u \in Users : \E a \in Admins : Frees(a, u)}

(* init loads every section or does not start. *)
CatalogInit ==
    /\ scene \in DOMAIN Scenes
    /\ turns = Now("turns") /\ faults = Now("faults") /\ db = Now("db")
    /\ mem = [s \in AllSections |-> View(s)]
    /\ loader = [l \in Loaders |-> AtRest] /\ proc = [a \in Admins |-> Idle]
    /\ granted = db.user_access 
    /\ unbound = load_admin_ids \cup {u \in Users : RulesOf(db.user_access, u) = {}}

CatalogNext ==
    /\ \/ Tick
       \/ \E l \in Loaders : Load(l) \/ LoadFails(l) \/ Apply(l)
       \/ \E a \in Admins : Begins(a) \/ Goes(a) \/ CutShort(a)
    /\ Remember

(* The runtime wakes the periodic task, and what it waits for comes. *)
CatalogFairness ==
    /\ WF_loader(Tick)
    /\ WF_loader(Load(Periodic) \/ LoadFails(Periodic) \/ Apply(Periodic))

CatalogSpec == CatalogInit /\ [][CatalogNext]_vars /\ CatalogFairness

-----------------------------------------------------------------------------
Positions == 1..Max({Len(Scenes[s].sections) : s \in DOMAIN Scenes})
Concerned(i) == i <= Len(Now("sections"))

(* The i-th section is edited, or a reload leaves it without having read it. *)
Disturbs(i) == \/ View(Section(i))' # View(Section(i))
               \/ \E l \in Loaders : loader[l].i = i /\ ~loader[l].snap.read /\ loader'[l].i # i

UpToDate(i) == Concerned(i) => mem[Section(i)] = View(Section(i))

(* Whatever the other sections do, a section whose rows settle and can be    *)
(* read is eventually the one the proxy works with, for good: overlapping    *)
(* reloads, writes of settings that pass each other on the way to memory,    *)
(* requests cut short and failures of other sections only delay it           *)
(* (state.rs 211-325, admin_config.rs 1809-2156).                            *)
SectionsConverge ==
    \A i \in Positions : <>[][~(Concerned(i) /\ Disturbs(i))]_vars => <>[]UpToDate(i)

(* An administrator is about to switch the model on. *)
SwitchesOn(key) ==
    \E a \in Admins : /\ Asked(a, "write", "update_model") /\ proc[a].patch.enabled
                      /\ <<db.models[proc[a].id].provider, db.models[proc[a].id].model>> = key

(* A model that is switched off and stays in the library is switched on again *)
(* by nobody but an administrator, however refreshes of the library overlap   *)
(* his change (store/config.rs 577-632).                                      *)
DisabledStays ==
    [][\A key \in load_disabled_models \ load_disabled_models' :
            (\E i \in DOMAIN db'.models : <<db'.models[i].provider, db'.models[i].model>> = key)
                => SwitchesOn(key)]_vars

(* When a refresh commits, every model it lists can be routed: "a model in    *)
(* the list must be callable", unless an enabled route that the transaction   *)
(* had counted on was taken away while it ran (store/config.rs 577-632).      *)
ListedIsRouted ==
    [][\A a \in Admins :
            At(a, "commit") /\ proc'[a].pc = "reload" /\ proc[a].patterns \subseteq EnabledPatterns =>
                \A m \in ToSet(proc[a].listed) : \E p \in EnabledPatterns' : matches_pattern(p, m)]_vars

(* A user who has been under access rules all the time, and never an          *)
(* administrator, never reaches a provider with a model that no rule of his   *)
(* ever allowed: no reload sees the rules between their deletion and the new  *)
(* ones, when their absence would let everything through (store/access.rs     *)
(* 49-72, routing.rs 33-53).                                                  *)
OnlyGranted ==
    \A u \in Users \ unbound, m \in Models :
        \A p \in Candidates(mem, u, m) : \E r \in RulesOf(granted, u) : RuleCovers(r, p, m)
=============================================================================
