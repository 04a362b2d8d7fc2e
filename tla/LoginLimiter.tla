----------------------------- MODULE LoginLimiter -----------------------------
(***************************************************************************)
(* service/ratelimit.rs: RateLimiter, the table of token buckets in front  *)
(* of the console login.  A table maps keys to [tokens, last]; it is       *)
(* behind one mutex, so check and reset are functions from table to table. *)
(* Time is in ticks and a key's rate a whole number of tokens per tick.    *)
(***************************************************************************)
EXTENDS Integers, FiniteSets, FiniteSetsExt, Functions

CONSTANTS
    MaxBuckets,     \* MAX_BUCKETS
    IdleEvictAfter  \* IDLE_EVICT_AFTER, in ticks

ASSUME LimiterAssumption == MaxBuckets \in Nat \ {0} /\ IdleEvictAfter \in Nat \ {0}

EmptyTable == <<>>

(* A full table first loses what was idle for long, and everything if that was nothing. *)
Busy(table, now) ==
    Restrict(table, {k \in DOMAIN table : now - table[k].last < IdleEvictAfter})

MakeRoom(table, now) ==
    CASE Cardinality(DOMAIN table) < MaxBuckets -> table
      [] Cardinality(DOMAIN table) >= MaxBuckets
            /\ Cardinality(DOMAIN Busy(table, now)) < MaxBuckets -> Busy(table, now)
      [] OTHER -> EmptyTable

(* The tokens of a key after the time that passed, a new key's bucket being full. *)
Refilled(table, key, now, rate, burst) ==
    IF key \in DOMAIN table
    THEN Min({burst, table[key].tokens + (now - table[key].last) * rate})
    ELSE burst

Put(table, key, bucket) ==
    [k \in DOMAIN table \cup {key} |-> IF k = key THEN bucket ELSE table[k]]

(* Mutant: an admitted attempt costs nothing. *)
MutTake(tokens) == tokens

(* What is left of the tokens; a refusal costs nothing. *)
Take(tokens) == IF tokens >= 1 THEN tokens - 1 ELSE tokens

(* check_at: [ok, table] *)
CheckIn(table, key, now, rate, burst) ==
    [ok    |-> Refilled(table, key, now, rate, burst) >= 1,
     table |-> Put(table, key, [tokens |-> Take(Refilled(table, key, now, rate, burst)),
                                last   |-> now])]

CheckAt(table, key, now, rate, burst) == CheckIn(MakeRoom(table, now), key, now, rate, burst)

Reset(table, key) == Restrict(table, DOMAIN table \ {key})
================================================================================
