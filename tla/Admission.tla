------------------------------ MODULE Admission ------------------------------
(***************************************************************************)
(* The entry of the proxy (service/proxy.rs: proxy, proxy_test and the     *)
(* guards bound to the response body) and the concurrency limiter          *)
(* (service/ratelimit.rs), over configuration that is reloaded meanwhile.  *)
(*                                                                         *)
(* A request counts itself in three places, one after the other, and takes *)
(* itself out again when its guards are dropped, in field order.  The rules*)
(* are read under their own lock, which is released before the counts are  *)
(* locked.  A count of zero stands for an absent entry of the map.         *)
(***************************************************************************)
EXTENDS Config, FiniteSets

CONSTANTS
    Requests,     \* request slots, each used again and again
    Users, Keys,  \* user ids and API key ids
    Callers,      \* what authenticate can return: pairs of user and key, or None
    Models,       \* requested model names, the empty name included
    Endpoints,    \* the endpoints of the API
    Switched,     \* those an administrator can switch off
    None          \* the absent user, key, scope id or model restriction

\* A stored rule: the scope is checked and a negative limit refused on the way in.
RateRule == [scope       : {"global", "user", "api_key"},
             scope_id    : Users \cup Keys \cup {None},
             model       : Models \cup {None},
             concurrency : Nat]

ASSUME AdmissionAssumption ==
    /\ {"rules", "api_endpoints"} \subseteq SectionNames
    /\ \A rules \in Values["rules"] : rules \subseteq RateRule
    /\ IsFiniteSet(Requests)
    /\ None \notin Users \cup Keys \cup Models
    /\ Callers \subseteq (Users \cup {None}) \X (Keys \cup {None})

VARIABLES
    pc,               \* where each request is
    caller, model,    \* who it is and what it asks for
    seen,             \* the rules it read
    held,             \* the keys of its ConcurrencyGuard
    counts,           \* ConcurrencyLimiter.counts
    active_requests,  \* AppState.active_requests
    active_by_user    \* AppState.active_by_user

requestVars == <<pc, caller, model, seen, held>>
countVars == <<counts, active_requests, active_by_user>>
vars == <<db, mem, loader, pc, caller, model, seen, held, counts, active_requests, active_by_user>>

\* A bucket key: scope, id and model restriction.
Buckets == {"global", "user", "api_key"} \X (Users \cup Keys \cup {None}) \X (Models \cup {None})

UserKeys == Users \X Models

-----------------------------------------------------------------------------
(* The rules, as functions of a rule and a request.                         *)

\* global; user, where no scope_id means every user; api_key.
ScopeMatches(rule, who) ==
    \/ rule.scope = "global"
    \/ rule.scope = "user" /\ who[1] # None /\ rule.scope_id \in {None, who[1]}
    \/ rule.scope = "api_key" /\ who[2] # None /\ rule.scope_id = who[2]

BucketKey(rule, who) ==
    << rule.scope,
       CASE rule.scope = "global" -> None [] rule.scope = "user" -> who[1] [] OTHER -> who[2],
       rule.model >>

Applies(rule, who, m) == ScopeMatches(rule, who) /\ rule.model \in {None, m}

\* matched_rules, without the rules that limit nothing
matched_rules(rules, who, m) ==
    {<<BucketKey(rule, who), rule.concurrency>> :
        rule \in {x \in rules : Applies(x, who, m) /\ x.concurrency > 0}}

MutDedupKeepsLoosest(matched) ==
    {p \in matched : \A q \in matched : q[1] = p[1] => p[2] >= q[2]}

\* One entry per bucket, with its strictest limit.
dedup_min_limit(matched) ==
    {p \in matched : \A q \in matched : q[1] = p[1] => p[2] <= q[2]}

Limits(r) == dedup_min_limit(matched_rules(seen[r], caller[r], model[r]))

Incremented(f, S) == [x \in DOMAIN f |-> IF x \in S THEN f[x] + 1 ELSE f[x]]

\* Drop of a guard: its keys go down, an entry that reaches zero is removed.
Released(f, S) == [x \in DOMAIN f |-> IF x \in S /\ f[x] > 0 THEN f[x] - 1 ELSE f[x]]

\* The key of UserActiveGuard; a request without a user has none.
UserKey(r) == IF caller[r][1] = None THEN {} ELSE {<<caller[r][1], model[r]>>}

-----------------------------------------------------------------------------
(* proxy                                                                    *)

\* ensure_endpoint_enabled
EndpointEnabled(e) == e \in Switched => e \in mem["api_endpoints"]

Enter(r) == /\ pc[r] = "idle"
            /\ active_requests' = active_requests + 1
            /\ pc' = [pc EXCEPT ![r] = "auth"]
            /\ UNCHANGED <<caller, model, seen, held, counts, active_by_user>>

\* proxy_test: counted as active, limited by nothing.  A switched-off endpoint or
\* a bad body is one of the ways its pipeline fails (DropActive).
EnterTest(r) == /\ pc[r] = "idle"
                /\ active_requests' = active_requests + 1
                /\ pc' = [pc EXCEPT ![r] = "run"]
                /\ UNCHANGED <<caller, model, seen, held, counts, active_by_user>>

\* Not authenticated, the endpoint is switched off, the body does not parse, or
\* the client left during authentication.
Refuse(r) == /\ pc[r] = "auth"
             /\ active_requests' = active_requests - 1
             /\ pc' = [pc EXCEPT ![r] = "idle"]
             /\ UNCHANGED <<caller, model, seen, held, counts, active_by_user>>

\* The caller is known, the endpoint is on, the body parses; the rules are read.
Match(r) == /\ pc[r] = "auth" /\ \E e \in Endpoints : EndpointEnabled(e)
            /\ \E who \in Callers, m \in Models : /\ caller' = [caller EXCEPT ![r] = who]
                                                  /\ model' = [model EXCEPT ![r] = m]
            /\ seen' = [seen EXCEPT ![r] = mem["rules"]]
            /\ pc' = [pc EXCEPT ![r] = "acquire"]
            /\ UNCHANGED <<held, counts, active_requests, active_by_user>>

\* No matched bucket is full.
Room(r) == \A p \in Limits(r) : counts[p[1]] < p[2]

\* A slot of every matched bucket at once.
try_acquire(r) ==
    /\ pc[r] = "acquire" /\ Room(r)
    /\ held' = [held EXCEPT ![r] = {p[1] : p \in Limits(r)}]
    /\ counts' = Incremented(counts, held'[r])
    /\ pc' = [pc EXCEPT ![r] = "enter"]
    /\ UNCHANGED <<caller, model, seen, active_requests, active_by_user>>

\* A slot is empty again.
Forgotten(r) == /\ caller' = [caller EXCEPT ![r] = <<None, None>>]
                /\ model' = [model EXCEPT ![r] = None]
                /\ seen' = [seen EXCEPT ![r] = {}]
                /\ held' = [held EXCEPT ![r] = {}]

\* Some bucket is full: 429, and only the active count was taken.
Limited(r) == /\ pc[r] = "acquire" /\ ~Room(r)
              /\ active_requests' = active_requests - 1
              /\ pc' = [pc EXCEPT ![r] = "idle"]
              /\ Forgotten(r)
              /\ UNCHANGED <<counts, active_by_user>>

\* UserActiveGuard::enter
EnterUser(r) == /\ pc[r] = "enter"
                /\ active_by_user' = Incremented(active_by_user, UserKey(r))
                /\ pc' = [pc EXCEPT ![r] = "run"]
                /\ UNCHANGED <<caller, model, seen, held, counts, active_requests>>

\* bind_guards_to_body: the handler returns, the guards live on in the body.
Respond(r) == /\ pc[r] = "run"
              /\ pc' = [pc EXCEPT ![r] = "body"]
              /\ UNCHANGED <<caller, model, seen, held, counts, active_requests, active_by_user>>

MutDropActiveAgain(r) ==
    /\ pc[r] \in {"run", "body", "drop_user"}
    /\ active_requests' = active_requests - 1
    /\ pc' = [pc EXCEPT ![r] = "drop_user"]
    /\ UNCHANGED <<caller, model, seen, held, counts, active_by_user>>

\* The pipeline fails, the body ends, or the client leaves during either: the
\* guards are dropped, the active count first.
DropActive(r) == /\ pc[r] \in {"run", "body"}
                 /\ active_requests' = active_requests - 1
                 /\ pc' = [pc EXCEPT ![r] = "drop_user"]
                 /\ UNCHANGED <<caller, model, seen, held, counts, active_by_user>>

MutDropUserForgets(r) ==
    /\ pc[r] = "drop_user"
    /\ pc' = [pc EXCEPT ![r] = "drop_slots"]
    /\ UNCHANGED <<caller, model, seen, held, counts, active_requests, active_by_user>>

DropUser(r) == /\ pc[r] = "drop_user"
               /\ active_by_user' = Released(active_by_user, UserKey(r))
               /\ pc' = [pc EXCEPT ![r] = "drop_slots"]
               /\ UNCHANGED <<caller, model, seen, held, counts, active_requests>>

DropSlots(r) == /\ pc[r] = "drop_slots"
                /\ counts' = Released(counts, held[r])
                /\ pc' = [pc EXCEPT ![r] = "idle"]
                /\ Forgotten(r)
                /\ UNCHANGED <<active_requests, active_by_user>>

Serve(r) == \/ Enter(r) \/ EnterTest(r) \/ Refuse(r) \/ Match(r) \/ try_acquire(r)
            \/ Limited(r) \/ EnterUser(r) \/ Respond(r) \/ DropActive(r) \/ DropUser(r)
            \/ DropSlots(r)

Init == /\ ConfigInit
        /\ pc = [r \in Requests |-> "idle"]
        /\ caller = [r \in Requests |-> <<None, None>>]
        /\ model = [r \in Requests |-> None]
        /\ seen = [r \in Requests |-> {}]
        /\ held = [r \in Requests |-> {}]
        /\ counts = [b \in Buckets |-> 0]
        /\ active_requests = 0
        /\ active_by_user = [k \in UserKeys |-> 0]

Next == \/ \E r \in Requests : Serve(r) /\ UNCHANGED configVars
        \/ ConfigNext /\ UNCHANGED <<requestVars, countVars>>

Spec == Init /\ [][Next]_vars
-----------------------------------------------------------------------------
Stages == {"idle", "auth", "acquire", "enter", "run", "body", "drop_user", "drop_slots"}

TypeOK == /\ ConfigTypeOK
          /\ pc \in [Requests -> Stages]
          /\ caller \in [Requests -> (Users \cup {None}) \X (Keys \cup {None})]
          /\ model \in [Requests -> Models \cup {None}]
          /\ seen \in [Requests -> Values["rules"] \cup {{}}]
          /\ held \in [Requests -> SUBSET Buckets]
          /\ counts \in [Buckets -> Nat]
          /\ active_requests \in Nat
          /\ active_by_user \in [UserKeys -> Nat]

Holders(b) == {r \in Requests : b \in held[r]}
Active == {r \in Requests : pc[r] \notin {"idle", "drop_user", "drop_slots"}}
ActiveUsers(k) == {r \in Requests : pc[r] \in {"run", "body", "drop_user"} /\ k \in UserKey(r)}

\* Every count is exactly the number of requests that are in it: however
\* requests are refused, fail, stream or are abandoned, and whatever the reloads
\* do to the rules they were admitted by, no slot leaks and none is given back
\* twice (ratelimit.rs 197-240, proxy.rs 543-620).
CountsExact ==
    /\ \A b \in Buckets : counts[b] = Cardinality(Holders(b))
    /\ active_requests = Cardinality(Active)
    /\ \A k \in UserKeys : active_by_user[k] = Cardinality(ActiveUsers(k))

\* The requests in bucket b that some rule they read limits to at most n.
LimitedTo(b, n) ==
    {r \in Requests : /\ pc[r] \notin {"idle", "auth", "acquire"}
                      /\ \E rule \in seen[r] : /\ Applies(rule, caller[r], model[r])
                                               /\ BucketKey(rule, caller[r]) = b
                                               /\ rule.concurrency \in 1..n}

LimitValues == {rule.concurrency : rule \in UNION Values["rules"]} \ {0}

\* At most n of the requests that a rule limits to n are in progress at once,
\* with several rules on one bucket and with reloads between the reading of the
\* rules and the taking of the slot (ratelimit.rs 130-169, 243-276).
LimitRespected ==
    \A b \in Buckets, n \in LimitValues : Cardinality(LimitedTo(b, n)) <= n
=============================================================================
