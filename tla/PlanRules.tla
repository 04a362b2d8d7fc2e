------------------------------ MODULE PlanRules ------------------------------
(***************************************************************************)
(* What one coding plan says (store/plans.rs): which models and hours it   *)
(* covers, which of a user's plans applies to a request, in which period   *)
(* its tokens are counted, and which settings the API accepts for it.      *)
(*                                                                         *)
(* The clock counts hours of UTC; the server's local time is the hour of   *)
(* the day.  A model pattern is an exact name or a prefix: Covers gives    *)
(* the models it matches.  A scope without patterns is the unrestricted    *)
(* one, which parse_model_scope stores as NULL.                            *)
(***************************************************************************)
EXTENDS Integers, FiniteSets, FiniteSetsExt

CONSTANTS
    Models,        \* model names
    Covers,        \* pattern -> the models it matches
    Exact,         \* the patterns without a wildcard
    Routed,        \* the models some route of this instance matches
    HoursPerDay,   \* 24 in the code
    MonthStarts,   \* the hours at which a month begins
    MaxHours,      \* MAX_PERIOD_HOURS, a week in the code
    MaxPatterns    \* MAX_MODEL_PATTERNS, 32 in the code

ASSUME PlanRulesAssumption ==
    /\ \A p \in DOMAIN Covers : Covers[p] \subseteq Models
    /\ Exact \subseteq DOMAIN Covers /\ Routed \subseteq Models
    /\ {HoursPerDay, MaxHours} \subseteq Nat \ {0} /\ 0 \in MonthStarts /\ MonthStarts \subseteq Nat
    /\ \A m \in MonthStarts : m % HoursPerDay = 0

NoModel == "no_model"

-----------------------------------------------------------------------------
(* model_scope.                                                             *)

AllModels == [allow |-> {}, deny |-> {}]

MatchesScope(scope, model) ==
    /\ \A p \in scope.deny : model \notin Covers[p]
    /\ scope.allow = {} \/ \E p \in scope.allow : model \in Covers[p]

Specificity(scope) ==
    IF scope = AllModels THEN 0 ELSE IF scope.allow \cup scope.deny \subseteq Exact THEN 2 ELSE 1

(* parse_model_scope: patterns in both lists contradict each other. *)
ScopeParses(scope) ==
    /\ Cardinality(scope.allow) + Cardinality(scope.deny) <= MaxPatterns
    /\ scope.allow \cap scope.deny = {}

(* Exact names must be routed, unless there is no route at all. *)
ScopeRouted(scope) ==
    Routed = {} \/ \A p \in (scope.allow \cup scope.deny) \cap Exact : Covers[p] \cap Routed # {}

-----------------------------------------------------------------------------
(* Active hours: an empty window is the whole day, a window whose start is  *)
(* after its end runs over midnight.                                        *)

WholeDay == <<>>

LocalTime(t) == t % HoursPerDay

InWindow(w, time) ==
    \/ w = WholeDay
    \/ w # WholeDay /\ w[1] < w[2] /\ w[1] <= time /\ time < w[2]
    \/ w # WholeDay /\ w[1] > w[2] /\ (w[1] <= time \/ time < w[2])

WindowParses(w) == w # WholeDay => w[1] # w[2]

-----------------------------------------------------------------------------
(* resolve_plan.                                                            *)

Applies(rt, time, model) ==
    /\ InWindow(rt.rec.window, time)
    /\ model # NoModel => MatchesScope(rt.rec.scope, model)

(* (specificity, priority, plan_id), the first only when there is a model. *)
Rank(rt, model) ==
    <<IF model = NoModel THEN 0 ELSE Specificity(rt.rec.scope), rt.rec.priority, rt.plan>>

Outranks(a, b) == \/ a[1] > b[1]
                  \/ a[1] = b[1] /\ a[2] > b[2]
                  \/ a[1] = b[1] /\ a[2] = b[2] /\ a[3] > b[3]

(* The candidates of the highest rank: more than one only when the user has *)
(* the same plan by several ways.                                           *)
Resolve(candidates, time, model) ==
    LET applying == {rt \in candidates : Applies(rt, time, model)}
    IN  {rt \in applying : \A o \in applying : ~Outranks(Rank(o, model), Rank(rt, model))}

-----------------------------------------------------------------------------
(* Periods.                                                                 *)

Periods == {"daily", "monthly", "hourly", "total"}

Never == -1

MonthStart(t) == Max({m \in MonthStarts : m <= t})

Step(rec) == Max({rec.hours, 1})

PeriodStart(rt, t) ==
    LET anchor  == IF rt.rec.anchor = "join" THEN rt.since ELSE 0
        elapsed == Max({t - anchor, 0})
    IN  CASE rt.rec.period = "daily"   -> t - LocalTime(t)
          [] rt.rec.period = "monthly" -> MonthStart(t)
          [] rt.rec.period = "hourly"  -> anchor + (elapsed \div Step(rt.rec)) * Step(rt.rec)
          [] rt.rec.period = "total"   -> 0

(* Mutant: a day after the request, not after the period's start. *)
MutPeriodEnd(rt, t) ==
    CASE rt.rec.period = "daily"   -> t + HoursPerDay
      [] rt.rec.period = "monthly" -> Min({m \in MonthStarts : m > t})
      [] rt.rec.period = "hourly"  -> PeriodStart(rt, t) + Step(rt.rec)
      [] rt.rec.period = "total"   -> Never

PeriodEnd(rt, t) ==
    CASE rt.rec.period = "daily"   -> PeriodStart(rt, t) + HoursPerDay
      [] rt.rec.period = "monthly" -> Min({m \in MonthStarts : m > t})
      [] rt.rec.period = "hourly"  -> PeriodStart(rt, t) + Step(rt.rec)
      [] rt.rec.period = "total"   -> Never

-----------------------------------------------------------------------------
(* Validation by create_plan and update_plan.                               *)

NoTarget == "no_target"

NormalizedHours(period, hours) == IF period = "hourly" THEN hours ELSE 1

ValidPeriod(rec) ==
    /\ rec.period \in Periods /\ rec.anchor \in {"fixed", "join"}
    /\ rec.period = "hourly" => rec.hours \in 1..MaxHours

(* A target given in the request must be routed; downgrade needs one. *)
ValidOverage(rec, given) ==
    /\ rec.action \in {"block", "downgrade", "log"} /\ rec.channels \subseteq {"in_site", "email", "webhook"}
    /\ given # NoTarget => given \in Routed
    /\ rec.action = "downgrade" => rec.target # NoTarget

ValidCreate(rec) ==
    /\ ValidPeriod(rec) /\ ValidOverage(rec, rec.target)
    /\ WindowParses(rec.window) /\ ScopeParses(rec.scope) /\ ScopeRouted(rec.scope)
=============================================================================
