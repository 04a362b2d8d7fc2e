------------------------------- MODULE Routing -------------------------------
(***************************************************************************)
(* Where a request for a model may go (service/routing.rs, proxy.rs): the  *)
(* route of the model, the providers of the route, and of those the ones   *)
(* where the model is not switched off and which the user may use.         *)
(*                                                                         *)
(* A pattern is a model's name or a prefix followed by a star: Covers      *)
(* gives the models it matches.  Models carry no [1m] suffix.  Candidates  *)
(* is a set; Failover is about the order in which they are tried.          *)
(***************************************************************************)
EXTENDS Integers, Sequences, FiniteSetsExt, SequencesExt

CONSTANTS
    Models,      \* model names
    Covers,      \* pattern -> the models it matches
    Users,
    Null         \* NULL: any provider, any model, no mapping

ASSUME RoutingAssumption ==
    /\ Models \subseteq DOMAIN Covers
    /\ \A m \in Models : Covers[m] = {m}

matches_pattern(pattern, model) == model \in Covers[pattern]

NoRoute == [pattern |-> Null]

(* The first exact pattern; failing that, the first one that matches. *)
resolve_route(routes, model) ==
    LET exact == {i \in DOMAIN routes : routes[i].pattern = model}
        hits  == {i \in DOMAIN routes : matches_pattern(routes[i].pattern, model)}
    IN  IF exact # {} THEN routes[Min(exact)]
        ELSE IF hits # {} THEN routes[Min(hits)] ELSE NoRoute

(* The primary and the fall-backs that memory knows; an id nobody has any *)
(* more is passed over.                                                   *)
resolve_candidates(route, providers) ==
    ({route.provider} \cup ToSet(route.fallback)) \cap DOMAIN providers

Outbound(route, model) == IF route.upstream = Null THEN model ELSE route.upstream

RuleCovers(rule, provider, model) ==
    /\ rule.provider \in {Null, provider}
    /\ rule.pattern = Null \/ matches_pattern(rule.pattern, model)

RulesOf(rules, user) == {r \in rules : r.user = user}

(* No rule at all lets everything through. *)
user_can_use(rules, user, provider, model) ==
    \/ RulesOf(rules, user) = {}
    \/ \E r \in RulesOf(rules, user) : RuleCovers(r, provider, model)

Candidates(mem, user, model) ==
    LET route == resolve_route(mem.routes, model)
    IN  IF route = NoRoute THEN {}
        ELSE {p \in resolve_candidates(route, mem.providers) :
                /\ <<p, Outbound(route, model)>> \notin mem.disabled_models
                /\ user \in mem.admin_ids \/ user_can_use(mem.user_access, user, p, model)}
=============================================================================
