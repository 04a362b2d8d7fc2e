---------------------------- MODULE MCAdmission ----------------------------
(* One user with a key and the anonymous caller; a rule for every user, a   *)
(* stricter one for that user that falls into the same bucket, one for the  *)
(* key and one for everybody's use of a model.  The endpoint stays switched *)
(* on: off, it would only refuse, which happens to requests anyway.         *)
EXTENDS Admission, TLC

CONSTANTS task, a1, r1, r2, r3, u1, k1, m1, responses

Rule(scope, id, m, n) == [scope |-> scope, scope_id |-> id, model |-> m, concurrency |-> n]

Loose == {Rule("user", None, None, 2), Rule("global", None, m1, 2)}
Strict == {Rule("user", None, None, 2), Rule("user", u1, None, 1), Rule("api_key", k1, m1, 2)}

MCSections == <<"rules", "api_endpoints">>
MCValues == [rules |-> {Loose, Strict}, api_endpoints |-> {{responses}}]
Symmetry == Permutations({r1, r2, r3})
MCCallers == {<<u1, k1>>, <<None, None>>}
=============================================================================
