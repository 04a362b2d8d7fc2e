-------------------------- MODULE AdmissionProofs --------------------------
(***************************************************************************)
(* For every set of requests, rules and reloads: the counts of the         *)
(* admission path are exact and the limits hold.                           *)
(*                                                                         *)
(* What a request holds is what the rules it read say (Shape); with the    *)
(* counts exact, a request that finds room in its strictest bucket limit   *)
(* knows how many others are there, whichever rules those were admitted by.*)
(***************************************************************************)
EXTENDS Admission, FiniteSetTheorems, WellFoundedInduction, TLAPS

Early == {"idle", "auth", "acquire"}

\* What a request has before and after it took its slots.
Shape ==
    \A r \in Requests :
        /\ pc[r] \in {"idle", "auth"} => caller[r] = <<None, None>> /\ seen[r] = {}
        /\ pc[r] \in Early => held[r] = {}
        /\ pc[r] \notin Early => held[r] = {p[1] : p \in Limits(r)}

\* LimitRespected for every number, not only the limits in use.
LimitInv == \A b \in Buckets, n \in Nat : Cardinality(LimitedTo(b, n)) <= n

IInv == TypeOK /\ RightSection /\ Shape /\ CountsExact /\ LimitInv

-----------------------------------------------------------------------------
(* Sets of requests.                                                        *)

\* A set that gains or loses one request.
LEMMA OneMore ==
    ASSUME NEW S \in SUBSET Requests, NEW T \in SUBSET Requests, NEW r \in Requests
    PROVE  /\ Cardinality(S) \in Nat
           /\ T = S => Cardinality(T) = Cardinality(S)
           /\ T \subseteq S => Cardinality(T) <= Cardinality(S)
           /\ r \notin S /\ T = S \cup {r} => Cardinality(T) = Cardinality(S) + 1
           /\ r \in S /\ T = S \ {r} => Cardinality(T) = Cardinality(S) - 1 /\ Cardinality(S) > 0
  <1>1. IsFiniteSet(S) /\ IsFiniteSet(T)
    BY AdmissionAssumption, FS_Subset
  <1>2. Cardinality(S) \in Nat /\ Cardinality(T) \in Nat
    BY <1>1, FS_CardinalityType
  <1>3. T \subseteq S => Cardinality(T) <= Cardinality(S)
    BY <1>1, FS_Subset
  <1>4. r \notin S /\ T = S \cup {r} => Cardinality(T) = Cardinality(S) + 1
    BY <1>1, FS_AddElement
  <1>5. r \in S /\ T = S \ {r} => Cardinality(T) = Cardinality(S) - 1
    BY <1>1, FS_RemoveElement
  <1> QED BY <1>2, <1>3, <1>4, <1>5

\* A non-empty set of numbers has a least one.
LEMMA LeastNumber ==
    ASSUME NEW T, T \subseteq Nat, T # {}
    PROVE  \E x \in T : \A y \in T : x <= y
  <1>1. \E x \in T : \A y \in T : ~(<<y, x>> \in OpToRel(<, Nat))
    BY NatLessThanWellFounded, WFMin
  <1>2. ASSUME NEW x \in Nat, NEW y \in Nat, y < x PROVE <<y, x>> \in OpToRel(<, Nat)
    BY <1>2, Zenon DEF OpToRel
  <1>3. PICK x \in T : \A y \in T : ~(<<y, x>> \in OpToRel(<, Nat))
    BY <1>1
  <1>4. \A y \in T : ~(y < x)
    BY <1>2, <1>3
  <1> QED BY <1>4

\* Every matched rule is covered by an entry of its bucket that is as strict.
LEMMA StrictestKept ==
    ASSUME NEW M, M \subseteq Buckets \X Nat, NEW p \in M
    PROVE  \E q \in dedup_min_limit(M) : q[1] = p[1] /\ q[2] <= p[2]
  <1> DEFINE T == {n \in Nat : <<p[1], n>> \in M}
  <1>1. p = <<p[1], p[2]>> /\ p[1] \in Buckets /\ p[2] \in Nat
    OBVIOUS
  <1>2. T \subseteq Nat /\ p[2] \in T
    BY <1>1
  <1>3. PICK x \in T : \A y \in T : x <= y
    BY <1>2, LeastNumber
  <1>4. <<p[1], x>> \in M /\ x \in Nat
    OBVIOUS
  <1>5. \A q \in M : q[1] = p[1] => q[2] \in T
    <2> SUFFICES ASSUME NEW q \in M, q[1] = p[1] PROVE q[2] \in T
      OBVIOUS
    <2>1. q = <<q[1], q[2]>> /\ q[2] \in Nat
      OBVIOUS
    <2> QED BY <2>1
  <1>6. <<p[1], x>> \in dedup_min_limit(M)
    BY <1>3, <1>4, <1>5 DEF dedup_min_limit
  <1> QED BY <1>2, <1>3, <1>6
-----------------------------------------------------------------------------
(* Reloads.                                                                 *)

\* The sections stay apart under every reload step.
LEMMA ConfigStep ==
    ASSUME ConfigTypeOK, RightSection, ConfigNext \/ UNCHANGED configVars
    PROVE  ConfigTypeOK' /\ RightSection'
  <1> USE DEF ConfigTypeOK, LoaderType, NotRead, Read, AtRest, Starting
  <1>0. /\ Len(Sections) \in Nat /\ Len(Sections) > 0 /\ 1 \in 0..Len(Sections)
        /\ \A i \in 1..Len(Sections) : Sections[i] \in SectionNames
    BY ConfigSectionsAssumption DEF SectionNames
  <1>1. \A l \in Loaders : Running(l) => /\ loader[l].i \in 1..Len(Sections)
                                         /\ Section(l) \in SectionNames
                                         /\ Advanced(l) \in LoaderType
                                         /\ ~Advanced(l).snap.read
    BY <1>0 DEF Running, Section, Advanced
  <1>2. \A s \in SectionNames : Values[s] \subseteq Contents
    BY DEF Contents
  <1>3. Loaders = Admins \cup {Periodic}
    BY DEF Loaders
  <1>4. CASE UNCHANGED configVars
    BY <1>4 DEF configVars, RightSection, Running, Section, LoaderType
  <1>5. CASE Tick
    BY <1>5, <1>0, <1>3 DEF Tick, RightSection, Running, Section
  <1>6. ASSUME NEW a \in Admins, Edit(a) PROVE ConfigTypeOK' /\ RightSection'
    <2>1. PICK s \in SectionNames : \E v \in Values[s] \ {db[s]} : db' = [db EXCEPT ![s] = v]
      BY <1>6 DEF Edit
    <2>2. PICK v \in Values[s] : db' = [db EXCEPT ![s] = v]
      BY <2>1
    <2>3. loader' = [loader EXCEPT ![a] = Starting] /\ mem' = mem
      BY <1>6 DEF Edit
    <2>4. db' \in [SectionNames -> Contents] /\ \A x \in SectionNames : db'[x] \in Values[x]
      BY <2>2, <1>2 DEF RightSection
    <2>5. a \in Loaders
      BY <1>3
    <2>6. loader' \in [Loaders -> LoaderType]
      BY <2>3, <2>5, <1>0
    <2> QED BY <2>3, <2>4, <2>5, <2>6 DEF RightSection, Running, Section
  <1>7. ASSUME NEW a \in Admins, Cancel(a) PROVE ConfigTypeOK' /\ RightSection'
    BY <1>7, <1>0, <1>3 DEF Cancel, RightSection, Running, Section
  <1>8. ASSUME NEW l \in Loaders, Load(l) PROVE ConfigTypeOK' /\ RightSection'
    <2> DEFINE v == db[Section(l)]
    <2>1. v \in Contents /\ v \in Values[Section(l)]
      BY <1>8, <1>1, <1>2 DEF Load, RightSection
    <2>2. loader' = [loader EXCEPT ![l].snap = Read(v)] /\ db' = db /\ mem' = mem /\ Running(l)
      BY <1>8 DEF Load
    <2> HIDE DEF v
    <2>3. loader' \in [Loaders -> LoaderType]
      BY <2>1, <2>2
    <2>4. \A x \in Loaders : loader'[x].i = loader[x].i
      BY <2>2
    <2>5. \A x \in Loaders : loader'[x].snap = IF x = l THEN Read(v) ELSE loader[x].snap
      BY <2>2
    <2> QED BY <2>1, <2>2, <2>3, <2>4, <2>5 DEF RightSection, Running, Section
  <1>9. ASSUME NEW l \in Loaders, LoadFails(l) PROVE ConfigTypeOK' /\ RightSection'
    <2>1. loader' \in [Loaders -> LoaderType]
      BY <1>9, <1>1 DEF LoadFails
    <2> QED BY <1>9, <1>1, <2>1 DEF LoadFails, RightSection, Running, Section
  <1>10. ASSUME NEW l \in Loaders, Apply(l) PROVE ConfigTypeOK' /\ RightSection'
    <2> DEFINE v == loader[l].snap.value
               s == Section(l)
    <2>1. v \in Values[s] /\ s \in SectionNames /\ v \in Contents
      BY <1>10, <1>1, <1>2 DEF Apply, RightSection
    <2>2. mem' = [mem EXCEPT ![s] = v] /\ loader' = [loader EXCEPT ![l] = Advanced(l)] /\ db' = db
      BY <1>10 DEF Apply
    <2>3. loader' \in [Loaders -> LoaderType]
      BY <1>10, <1>1, <2>2 DEF Apply
    <2> HIDE DEF v, s
    <2>4. mem' \in [SectionNames -> Contents] /\ \A x \in SectionNames : mem'[x] \in Values[x]
      BY <2>1, <2>2 DEF RightSection
    <2>5. Running(l)
      BY <1>10 DEF Apply
    <2> QED BY <1>1, <2>2, <2>3, <2>4, <2>5 DEF RightSection, Running, Section
  <1> QED BY <1>4, <1>5, <1>6, <1>7, <1>8, <1>9, <1>10 DEF ConfigNext
-----------------------------------------------------------------------------
(* Steps of requests.                                                       *)

\* What the matched rules of a request are made of.
LEMMA LimitsType ==
    ASSUME TypeOK, NEW r \in Requests
    PROVE  /\ matched_rules(seen[r], caller[r], model[r]) \subseteq Buckets \X Nat
           /\ Limits(r) \subseteq matched_rules(seen[r], caller[r], model[r])
  <1>1. /\ seen[r] \subseteq RateRule
        /\ caller[r] \in (Users \cup {None}) \X (Keys \cup {None})
        /\ model[r] \in Models \cup {None}
    BY AdmissionAssumption DEF TypeOK
  <1>2. ASSUME NEW rule \in RateRule
        PROVE  BucketKey(rule, caller[r]) \in Buckets /\ rule.concurrency \in Nat
    BY <1>1 DEF RateRule, BucketKey, Buckets
  <1>3. matched_rules(seen[r], caller[r], model[r]) \subseteq Buckets \X Nat
    BY <1>1, <1>2 DEF matched_rules
  <1> QED BY <1>3 DEF Limits, dedup_min_limit

\* The three ways a request's step changes a count.
LEMMA CountsType ==
    ASSUME NEW D, NEW f \in [D -> Nat], NEW S
    PROVE  /\ Incremented(f, S) \in [D -> Nat]
           /\ Released(f, S) \in [D -> Nat]
           /\ \A x \in D : Incremented(f, S)[x] = IF x \in S THEN f[x] + 1 ELSE f[x]
           /\ \A x \in D : Released(f, S)[x] = IF x \in S /\ f[x] > 0 THEN f[x] - 1 ELSE f[x]
  BY DEF Incremented, Released

\* A request that is counted as active is one of at least one.
LEMMA ActivePositive ==
    ASSUME TypeOK, CountsExact, NEW r \in Requests,
           pc[r] \notin {"idle", "drop_user", "drop_slots"}
    PROVE  active_requests - 1 \in Nat
  <1>1. r \in Active /\ Active \subseteq Requests /\ Active \ {r} \subseteq Requests
    BY DEF Active
  <1>2. Cardinality(Active) > 0 /\ Cardinality(Active) \in Nat
    BY <1>1, OneMore
  <1> QED BY <1>2 DEF CountsExact

\* No step of a request leaves the types; the counts stay above zero because
\* whoever gives one back is counted (ratelimit.rs 226-240, proxy.rs 553-591).
LEMMA TypeStep ==
    ASSUME IInv, NEW r \in Requests, Serve(r), UNCHANGED configVars
    PROVE  TypeOK'
  <1> USE DEF IInv
  <1>0. ConfigTypeOK'
    BY ConfigStep DEF TypeOK
  <1>1. mem["rules"] \in Values["rules"]
    BY AdmissionAssumption DEF RightSection
  <1>2. Stages = {"idle", "auth", "acquire", "enter", "run", "body", "drop_user", "drop_slots"}
    BY DEF Stages
  <1>3. CASE Enter(r) \/ EnterTest(r)
    BY <1>0, <1>2, <1>3 DEF Enter, EnterTest, TypeOK
  <1>4. CASE Refuse(r) \/ DropActive(r)
    <2>1. active_requests - 1 \in Nat
      BY <1>4, ActivePositive DEF Refuse, DropActive
    <2> QED BY <1>0, <1>2, <1>4, <2>1 DEF Refuse, DropActive, TypeOK
  <1>5. CASE Match(r)
    <2>1. PICK who \in Callers, m \in Models : caller' = [caller EXCEPT ![r] = who]
                                                /\ model' = [model EXCEPT ![r] = m]
      BY <1>5 DEF Match
    <2> QED BY <1>0, <1>1, <1>2, <1>5, <2>1, AdmissionAssumption DEF Match, TypeOK
  <1>6. CASE try_acquire(r)
    <2> DEFINE S == {p[1] : p \in Limits(r)}
    <2>1. S \subseteq Buckets
      BY LimitsType
    <2>2. held' = [held EXCEPT ![r] = S] /\ held'[r] = S
      BY <1>6 DEF try_acquire, TypeOK
    <2>3. counts' = Incremented(counts, S)
      BY <1>6, <2>2 DEF try_acquire
    <2> HIDE DEF S
    <2>4. counts' \in [Buckets -> Nat] /\ held' \in [Requests -> SUBSET Buckets]
      BY <2>1, <2>2, <2>3, CountsType DEF TypeOK
    <2> QED BY <1>0, <1>2, <1>6, <2>4 DEF try_acquire, TypeOK
  <1>7. CASE Limited(r)
    <2>1. active_requests - 1 \in Nat
      BY <1>7, ActivePositive DEF Limited
    <2> QED BY <1>0, <1>2, <1>7, <2>1 DEF Limited, Forgotten, TypeOK
  <1>8. CASE EnterUser(r) \/ DropUser(r)
    <2>1. active_by_user' \in [UserKeys -> Nat]
      BY <1>8, CountsType DEF EnterUser, DropUser, TypeOK
    <2> QED BY <1>0, <1>2, <1>8, <2>1 DEF EnterUser, DropUser, TypeOK
  <1>9. CASE Respond(r)
    BY <1>0, <1>2, <1>9 DEF Respond, TypeOK
  <1>10. CASE DropSlots(r)
    <2>1. counts' \in [Buckets -> Nat]
      BY <1>10, CountsType DEF DropSlots, TypeOK
    <2> QED BY <1>0, <1>2, <1>10, <2>1 DEF DropSlots, Forgotten, TypeOK
  <1> QED BY <1>3, <1>4, <1>5, <1>6, <1>7, <1>8, <1>9, <1>10 DEF Serve
\* ActiveRequestGuard: in from the start to the first drop.
LEMMA ActiveStep ==
    ASSUME IInv, NEW r \in Requests, Serve(r)
    PROVE  active_requests' = Cardinality(Active')
  <1> DEFINE A == Active
             B == Active'
  <1>0. A \in SUBSET Requests /\ B \in SUBSET Requests /\ active_requests = Cardinality(A)
    BY DEF Active, IInv, CountsExact
  <1>1. CASE Enter(r) \/ EnterTest(r)
    <2>1. r \notin A /\ B = A \cup {r}
      BY <1>1 DEF Active, Enter, EnterTest, IInv, TypeOK
    <2>2. active_requests' = active_requests + 1
      BY <1>1 DEF Enter, EnterTest
    <2> HIDE DEF A, B
    <2>3. Cardinality(B) = Cardinality(A) + 1
      BY <1>0, <2>1, OneMore
    <2> QED BY <1>0, <2>2, <2>3 DEF B
  <1>2. CASE Refuse(r) \/ Limited(r) \/ DropActive(r)
    <2>1. r \in A /\ B = A \ {r}
      BY <1>2 DEF Active, Refuse, Limited, DropActive, IInv, TypeOK
    <2>2. active_requests' = active_requests - 1
      BY <1>2 DEF Refuse, Limited, DropActive
    <2> HIDE DEF A, B
    <2>3. Cardinality(B) = Cardinality(A) - 1
      BY <1>0, <2>1, OneMore
    <2> QED BY <1>0, <2>2, <2>3 DEF B
  <1>3. CASE Match(r) \/ try_acquire(r) \/ EnterUser(r) \/ Respond(r) \/ DropUser(r) \/ DropSlots(r)
    <2>1. B = A
      BY <1>3 DEF Active, Match, try_acquire, EnterUser, Respond, DropUser, DropSlots, IInv, TypeOK
    <2>2. active_requests' = active_requests
      BY <1>3 DEF Match, try_acquire, EnterUser, Respond, DropUser, DropSlots
    <2> QED BY <1>0, <2>1, <2>2
  <1> QED BY <1>1, <1>2, <1>3 DEF Serve

\* UserActiveGuard: in from EnterUser to DropUser, under the key it entered with.
LEMMA UsersStep ==
    ASSUME IInv, NEW r \in Requests, Serve(r), NEW k \in UserKeys
    PROVE  active_by_user'[k] = Cardinality(ActiveUsers(k)')
  <1> DEFINE A == ActiveUsers(k)
             B == ActiveUsers(k)'
  <1>0. /\ A \in SUBSET Requests /\ B \in SUBSET Requests
        /\ active_by_user[k] = Cardinality(A)
        /\ active_by_user \in [UserKeys -> Nat]
    BY DEF ActiveUsers, IInv, CountsExact, TypeOK
  <1>1. CASE EnterUser(r) /\ k \in UserKey(r)
    <2>1. r \notin A /\ B = A \cup {r}
      BY <1>1 DEF ActiveUsers, UserKey, EnterUser, IInv, TypeOK
    <2>2. active_by_user'[k] = active_by_user[k] + 1
      BY <1>0, <1>1, CountsType DEF EnterUser
    <2> HIDE DEF A, B
    <2>3. Cardinality(B) = Cardinality(A) + 1
      BY <1>0, <2>1, OneMore
    <2> QED BY <1>0, <2>2, <2>3 DEF B
  <1>2. CASE DropUser(r) /\ k \in UserKey(r)
    <2>1. r \in A /\ B = A \ {r}
      BY <1>2 DEF ActiveUsers, UserKey, DropUser, IInv, TypeOK
    <2>2. active_by_user'[k] = IF active_by_user[k] > 0 THEN active_by_user[k] - 1
                                                         ELSE active_by_user[k]
      BY <1>0, <1>2, CountsType DEF DropUser
    <2> HIDE DEF A, B
    <2>3. Cardinality(B) = Cardinality(A) - 1 /\ Cardinality(A) > 0
      BY <1>0, <2>1, OneMore
    <2> QED BY <1>0, <2>2, <2>3 DEF B
  <1>3. CASE (EnterUser(r) \/ DropUser(r)) /\ k \notin UserKey(r)
    <2>1. B = A
      BY <1>3 DEF ActiveUsers, UserKey, EnterUser, DropUser, IInv, TypeOK
    <2>2. active_by_user'[k] = active_by_user[k]
      BY <1>0, <1>3, CountsType DEF EnterUser, DropUser
    <2> QED BY <1>0, <2>1, <2>2
  <1>4. CASE EnterTest(r)
    <2>1. UserKey(r) = {}
      BY <1>4 DEF EnterTest, UserKey, IInv, Shape
    <2>2. B = A
      BY <1>4, <2>1 DEF ActiveUsers, UserKey, EnterTest, IInv, TypeOK
    <2> QED BY <1>0, <1>4, <2>2 DEF EnterTest
  <1>5. CASE \/ Enter(r) \/ Refuse(r) \/ Match(r) \/ try_acquire(r) \/ Limited(r)
             \/ Respond(r) \/ DropActive(r) \/ DropSlots(r)
    <2>1. \A x \in Requests : pc'[x] \in {"run", "body", "drop_user"} =>
              /\ pc[x] \in {"run", "body", "drop_user"}
              /\ caller'[x] = caller[x] /\ model'[x] = model[x]
      BY <1>5 DEF Enter, Refuse, Match, try_acquire, Limited, Forgotten, Respond, DropActive,
                  DropSlots, IInv, TypeOK
    <2>2. \A x \in Requests : pc[x] \in {"run", "body", "drop_user"} =>
              pc'[x] \in {"run", "body", "drop_user"}
      BY <1>5 DEF Enter, Refuse, Match, try_acquire, Limited, Forgotten, Respond, DropActive,
                  DropSlots, IInv, TypeOK
    <2>3. B = A
      BY <2>1, <2>2 DEF ActiveUsers, UserKey
    <2>4. active_by_user' = active_by_user
      BY <1>5 DEF Enter, Refuse, Match, try_acquire, Limited, Respond, DropActive, DropSlots
    <2> QED BY <1>0, <2>3, <2>4
  <1> QED BY <1>1, <1>2, <1>3, <1>4, <1>5 DEF Serve

\* ConcurrencyGuard: in every matched bucket at once, out of the same ones.
LEMMA SlotsStep ==
    ASSUME IInv, NEW r \in Requests, Serve(r), NEW b \in Buckets
    PROVE  counts'[b] = Cardinality(Holders(b)')
  <1> DEFINE A == Holders(b)
             B == Holders(b)'
  <1>0. /\ A \in SUBSET Requests /\ B \in SUBSET Requests
        /\ counts[b] = Cardinality(A) /\ counts \in [Buckets -> Nat]
        /\ held \in [Requests -> SUBSET Buckets]
    BY DEF Holders, IInv, CountsExact, TypeOK
  <1>1. CASE try_acquire(r)
    <2> DEFINE S == {p[1] : p \in Limits(r)}
    <2>1. held' = [held EXCEPT ![r] = S] /\ counts' = Incremented(counts, S) /\ held[r] = {}
      BY <1>0, <1>1 DEF try_acquire, IInv, Shape, Early
    <2> HIDE DEF S
    <2>2. counts'[b] = IF b \in S THEN counts[b] + 1 ELSE counts[b]
      BY <1>0, <2>1, CountsType
    <2>3. r \notin A /\ B = IF b \in S THEN A \cup {r} ELSE A
      BY <1>0, <2>1 DEF Holders
    <2> HIDE DEF A, B
    <2>4. Cardinality(B) = IF b \in S THEN Cardinality(A) + 1 ELSE Cardinality(A)
      BY <1>0, <2>3, OneMore
    <2> QED BY <1>0, <2>2, <2>4 DEF B
  <1>2. CASE DropSlots(r)
    <2> DEFINE S == held[r]
    <2>1. held' = [held EXCEPT ![r] = {}] /\ counts' = Released(counts, S)
      BY <1>2 DEF DropSlots, Forgotten
    <2>2. b \in S <=> r \in A
      BY DEF Holders
    <2>3. B = A \ {r}
      BY <1>0, <2>1 DEF Holders
    <2> HIDE DEF S
    <2>4. counts'[b] = IF b \in S /\ counts[b] > 0 THEN counts[b] - 1 ELSE counts[b]
      BY <1>0, <2>1, CountsType
    <2> HIDE DEF A, B
    <2>5. r \in A => Cardinality(B) = Cardinality(A) - 1 /\ Cardinality(A) > 0
      BY <1>0, <2>3, OneMore
    <2>6. r \notin A => Cardinality(B) = Cardinality(A)
      BY <2>3
    <2> QED BY <1>0, <2>2, <2>4, <2>5, <2>6 DEF B
  <1>3. CASE Limited(r)
    <2>1. held[r] = {} /\ held' = [held EXCEPT ![r] = {}]
      BY <1>3 DEF Limited, Forgotten, IInv, Shape, Early
    <2>2. B = A
      BY <1>0, <2>1 DEF Holders
    <2> QED BY <1>0, <1>3, <2>2 DEF Limited
  <1>4. CASE \/ Enter(r) \/ EnterTest(r) \/ Refuse(r) \/ Match(r) \/ EnterUser(r)
             \/ Respond(r) \/ DropActive(r) \/ DropUser(r)
    <2>1. held' = held /\ counts' = counts
      BY <1>4 DEF Enter, EnterTest, Refuse, Match, EnterUser, Respond, DropActive, DropUser
    <2> QED BY <1>0, <2>1 DEF Holders
  <1> QED BY <1>1, <1>2, <1>3, <1>4 DEF Serve
\* The limits of the other requests are not touched by a step.
LEMMA ShapeStep ==
    ASSUME IInv, NEW r \in Requests, Serve(r)
    PROVE  Shape'
  <1> USE DEF IInv, TypeOK
  <1>1. ASSUME NEW x \in Requests, x # r
        PROVE  /\ pc'[x] = pc[x] /\ caller'[x] = caller[x] /\ model'[x] = model[x]
               /\ seen'[x] = seen[x] /\ held'[x] = held[x]
    <2>1. CASE Enter(r) \/ EnterTest(r) \/ Refuse(r)
      BY <1>1, <2>1 DEF Enter, EnterTest, Refuse
    <2>2. CASE Match(r) \/ try_acquire(r)
      BY <1>1, <2>2 DEF Match, try_acquire
    <2>3. CASE Limited(r) \/ DropSlots(r)
      BY <1>1, <2>3 DEF Limited, DropSlots, Forgotten
    <2>4. CASE EnterUser(r) \/ Respond(r) \/ DropActive(r) \/ DropUser(r)
      BY <1>1, <2>4 DEF EnterUser, Respond, DropActive, DropUser
    <2> QED BY <2>1, <2>2, <2>3, <2>4 DEF Serve
  <1>2. ASSUME NEW x \in Requests, caller'[x] = caller[x], model'[x] = model[x], seen'[x] = seen[x]
        PROVE  Limits(x)' = Limits(x)
    BY <1>2 DEF Limits
  <1>3. /\ pc'[r] \in {"idle", "auth"} => caller'[r] = <<None, None>> /\ seen'[r] = {}
        /\ pc'[r] \in Early => held'[r] = {}
        /\ pc'[r] \notin Early => held'[r] = {p[1] : p \in Limits(r)'}
    <2>1. CASE Enter(r) \/ Refuse(r)
      BY <2>1 DEF Enter, Refuse, Shape, Early
    <2>2. CASE EnterTest(r)
      <3>1. /\ pc'[r] = "run" /\ pc[r] = "idle" /\ held'[r] = held[r] /\ seen'[r] = seen[r]
            /\ caller'[r] = caller[r] /\ model'[r] = model[r]
        BY <2>2 DEF EnterTest
      <3>2. held[r] = {} /\ seen[r] = {}
        BY <3>1 DEF Shape, Early
      <3>3. Limits(r) = {}
        BY <3>2 DEF Limits, matched_rules, dedup_min_limit
      <3>4. Limits(r)' = {}
        BY <1>2, <3>1, <3>3
      <3> QED BY <3>1, <3>2, <3>4 DEF Early
    <2>3. CASE Match(r)
      BY <2>3 DEF Match, Shape, Early
    <2>4. CASE try_acquire(r)
      <3>1. /\ pc'[r] = "enter" /\ held'[r] = {p[1] : p \in Limits(r)}
            /\ caller'[r] = caller[r] /\ model'[r] = model[r] /\ seen'[r] = seen[r]
        BY <2>4 DEF try_acquire
      <3> QED BY <1>2, <3>1 DEF Early
    <2>5. CASE Limited(r) \/ DropSlots(r)
      BY <2>5 DEF Limited, DropSlots, Forgotten, Early
    <2>6. CASE EnterUser(r) \/ Respond(r) \/ DropActive(r) \/ DropUser(r)
      <3>1. /\ pc'[r] \notin Early /\ pc[r] \notin Early /\ held'[r] = held[r]
            /\ caller'[r] = caller[r] /\ model'[r] = model[r] /\ seen'[r] = seen[r]
        BY <2>6 DEF EnterUser, Respond, DropActive, DropUser, Early
      <3> QED BY <1>2, <3>1 DEF Shape, Early
    <2> QED BY <2>1, <2>2, <2>3, <2>4, <2>5, <2>6 DEF Serve
  <1>4. ASSUME NEW x \in Requests, x # r
        PROVE  /\ pc'[x] \in {"idle", "auth"} => caller'[x] = <<None, None>> /\ seen'[x] = {}
               /\ pc'[x] \in Early => held'[x] = {}
               /\ pc'[x] \notin Early => held'[x] = {p[1] : p \in Limits(x)'}
    BY <1>1, <1>2, <1>4 DEF Shape
  <1> QED BY <1>3, <1>4 DEF Shape

\* A request that a rule limits to n on bucket b holds b, and found room for it.
LEMMA LimitedHolds ==
    ASSUME TypeOK, NEW r \in Requests, NEW b \in Buckets, NEW n \in Nat,
           \E rule \in seen[r] : /\ Applies(rule, caller[r], model[r])
                                 /\ BucketKey(rule, caller[r]) = b
                                 /\ rule.concurrency \in 1..n
    PROVE  \E q \in Limits(r) : q[1] = b /\ q[2] <= n /\ q[2] \in Nat
  <1> DEFINE M == matched_rules(seen[r], caller[r], model[r])
  <1>1. PICK rule \in seen[r] : /\ Applies(rule, caller[r], model[r])
                                /\ BucketKey(rule, caller[r]) = b
                                /\ rule.concurrency \in 1..n
    OBVIOUS
  <1> DEFINE p == <<b, rule.concurrency>>
  <1>2. p \in M
    BY <1>1 DEF matched_rules
  <1>3. M \subseteq Buckets \X Nat /\ Limits(r) = dedup_min_limit(M) /\ Limits(r) \subseteq M
    BY LimitsType DEF Limits
  <1> HIDE DEF M
  <1>4. PICK q \in dedup_min_limit(M) : q[1] = p[1] /\ q[2] <= p[2]
    BY <1>2, <1>3, StrictestKept
  <1>5. q[2] \in Nat
    BY <1>3, <1>4
  <1> QED BY <1>1, <1>3, <1>4, <1>5

\* With exact counts, the one step that adds to a bucket respects its limits.
LEMMA LimitStep ==
    ASSUME IInv, NEW r \in Requests, Serve(r), TypeOK', Shape', CountsExact'
    PROVE  LimitInv'
  <1> SUFFICES ASSUME NEW b \in Buckets, NEW n \in Nat
               PROVE  Cardinality(LimitedTo(b, n)') <= n
    BY DEF LimitInv
  <1> DEFINE A == LimitedTo(b, n)
             B == LimitedTo(b, n)'
  <1>0. A \in SUBSET Requests /\ B \in SUBSET Requests /\ Cardinality(A) <= n
    BY DEF LimitedTo, IInv, LimitInv
  <1>1. CASE ~try_acquire(r)
    <2>1. B \subseteq A
      <3>1. CASE Enter(r) \/ Refuse(r) \/ Match(r) \/ Limited(r) \/ DropSlots(r)
        <4>1. \A x \in Requests : pc'[x] \notin Early =>
                 /\ pc[x] = pc'[x] /\ caller'[x] = caller[x]
                 /\ model'[x] = model[x] /\ seen'[x] = seen[x]
          BY <3>1 DEF Enter, Refuse, Match, Limited, DropSlots, Forgotten, Early, IInv, TypeOK
        <4> QED BY <4>1 DEF LimitedTo, Early
      <3>2. CASE EnterTest(r)
        <4>1. /\ seen'[r] = {}
              /\ \A x \in Requests : x # r => pc'[x] = pc[x]
              /\ seen' = seen /\ caller' = caller /\ model' = model
          BY <3>2 DEF EnterTest, IInv, Shape, TypeOK
        <4> QED BY <4>1 DEF LimitedTo
      <3>3. CASE EnterUser(r) \/ Respond(r) \/ DropActive(r) \/ DropUser(r)
        <4>1. \A x \in Requests : pc'[x] \notin Early => pc[x] \notin Early
          BY <3>3 DEF EnterUser, Respond, DropActive, DropUser, Early, IInv, TypeOK
        <4>2. seen' = seen /\ caller' = caller /\ model' = model
          BY <3>3 DEF EnterUser, Respond, DropActive, DropUser
        <4> QED BY <4>1, <4>2 DEF LimitedTo, Early
      <3> QED BY <1>1, <3>1, <3>2, <3>3 DEF Serve
    <2> HIDE DEF A, B
    <2>2. Cardinality(B) <= Cardinality(A) /\ Cardinality(A) \in Nat /\ Cardinality(B) \in Nat
      BY <1>0, <2>1, OneMore
    <2> QED BY <1>0, <2>2 DEF B
  <1>2. CASE try_acquire(r) /\ r \notin B
    <2>1. B \subseteq A
      BY <1>2 DEF LimitedTo, try_acquire, IInv, TypeOK
    <2> HIDE DEF A, B
    <2>2. Cardinality(B) <= Cardinality(A) /\ Cardinality(A) \in Nat /\ Cardinality(B) \in Nat
      BY <1>0, <2>1, OneMore
    <2> QED BY <1>0, <2>2 DEF B
  <1>3. CASE try_acquire(r) /\ r \in B
    <2> DEFINE H == Holders(b)'
    <2>1. /\ caller' = caller /\ model' = model /\ seen' = seen
          /\ held' = [held EXCEPT ![r] = {p[1] : p \in Limits(r)}]
          /\ counts' = Incremented(counts, held'[r])
          /\ Room(r)
      BY <1>3 DEF try_acquire
    <2>2. \A x \in Requests : Limits(x)' = Limits(x)
      BY <2>1 DEF Limits
    <2>3. \E rule \in seen[r] : /\ Applies(rule, caller[r], model[r])
                                /\ BucketKey(rule, caller[r]) = b
                                /\ rule.concurrency \in 1..n
      BY <1>3, <2>1 DEF LimitedTo
    <2>4. PICK q \in Limits(r) : q[1] = b /\ q[2] <= n /\ q[2] \in Nat
      BY <2>3, LimitedHolds DEF IInv
    <2>5. counts[b] < q[2]
      BY <2>1, <2>4 DEF Room
    <2>6. counts[b] \in Nat /\ counts'[b] <= counts[b] + 1
      <3>1. counts \in [Buckets -> Nat]
        BY DEF IInv, TypeOK
      <3>2. counts'[b] = IF b \in held'[r] THEN counts[b] + 1 ELSE counts[b]
        BY <2>1, <3>1, CountsType
      <3> QED BY <3>1, <3>2
    <2>7. counts'[b] = Cardinality(H)
      BY DEF CountsExact
    <2>8. B \subseteq H
      <3> SUFFICES ASSUME NEW x \in Requests, x \in B PROVE x \in H
        BY <1>0
      <3>1. /\ pc'[x] \notin Early
            /\ \E rule \in seen[x] : /\ Applies(rule, caller[x], model[x])
                                     /\ BucketKey(rule, caller[x]) = b
                                     /\ rule.concurrency \in 1..n
        BY <2>1 DEF LimitedTo, Early
      <3>2. \E z \in Limits(x) : z[1] = b
        BY <3>1, LimitedHolds DEF IInv
      <3>3. held'[x] = {p[1] : p \in Limits(x)}
        BY <3>1, <2>2 DEF Shape
      <3> QED BY <3>2, <3>3 DEF Holders
    <2>9. H \in SUBSET Requests
      BY DEF Holders
    <2> HIDE DEF B, H
    <2>10. Cardinality(B) <= Cardinality(H) /\ Cardinality(H) \in Nat /\ Cardinality(B) \in Nat
      BY <1>0, <2>8, <2>9, OneMore
    <2> QED BY <2>4, <2>5, <2>6, <2>7, <2>10 DEF B
  <1> QED BY <1>1, <1>2, <1>3

\* Reloads do not touch requests or counts.
LEMMA ReloadStep ==
    ASSUME IInv, ConfigNext \/ UNCHANGED configVars, UNCHANGED <<requestVars, countVars>>
    PROVE  IInv'
  <1>1. ConfigTypeOK' /\ RightSection'
    BY ConfigStep DEF IInv, TypeOK
  <1>2. /\ pc' = pc /\ caller' = caller /\ model' = model /\ seen' = seen /\ held' = held
        /\ counts' = counts /\ active_requests' = active_requests
        /\ active_by_user' = active_by_user
    BY DEF requestVars, countVars
  <1>3. TypeOK'
    BY <1>1, <1>2 DEF IInv, TypeOK
  <1>4. Shape'
    BY <1>2 DEF IInv, Shape, Limits
  <1>5. CountsExact'
    BY <1>2 DEF IInv, CountsExact, Holders, Active, ActiveUsers, UserKey
  <1>6. LimitInv'
    BY <1>2 DEF IInv, LimitInv, LimitedTo
  <1> QED BY <1>1, <1>3, <1>4, <1>5, <1>6 DEF IInv

\* At the start nothing is held and nothing is counted.
LEMMA IInvInit == Init => IInv
  <1> SUFFICES ASSUME Init PROVE IInv
    OBVIOUS
  <1>1. ConfigTypeOK /\ RightSection
    BY ConfigSectionsAssumption DEF Init, ConfigInit, ConfigTypeOK, RightSection, LoaderType, AtRest,
       NotRead, Running
  <1>2. TypeOK
    BY <1>1, AdmissionAssumption DEF Init, TypeOK, Stages
  <1>3. Shape
    BY DEF Init, Shape, Early
  <1>4. CountsExact
    <2>1. /\ Active = {} /\ \A b \in Buckets : Holders(b) = {}
          /\ \A k \in UserKeys : ActiveUsers(k) = {}
      BY DEF Init, Active, Holders, ActiveUsers
    <2> QED BY <2>1, FS_EmptySet DEF Init, CountsExact
  <1>5. LimitInv
    <2>1. \A b \in Buckets, n \in Nat : LimitedTo(b, n) = {}
      BY DEF Init, LimitedTo
    <2>2. Cardinality({}) = 0
      BY FS_EmptySet
    <2> QED BY <2>1, <2>2 DEF LimitInv
  <1> QED BY <1>1, <1>2, <1>3, <1>4, <1>5 DEF IInv

\* Every step of a request or of a reload keeps the invariant.
LEMMA IInvStep == IInv /\ [Next]_vars => IInv'
  <1> SUFFICES ASSUME IInv, [Next]_vars PROVE IInv'
    OBVIOUS
  <1>1. ASSUME NEW r \in Requests, Serve(r), UNCHANGED configVars PROVE IInv'
    <2>1. TypeOK'
      BY <1>1, TypeStep
    <2>2. RightSection'
      BY <1>1, ConfigStep DEF IInv, TypeOK
    <2>3. Shape'
      BY <1>1, ShapeStep
    <2>4. CountsExact'
      BY <1>1, ActiveStep, UsersStep, SlotsStep DEF CountsExact
    <2>5. LimitInv'
      BY <1>1, <2>1, <2>3, <2>4, LimitStep
    <2> QED BY <2>1, <2>2, <2>3, <2>4, <2>5 DEF IInv
  <1>2. CASE ConfigNext /\ UNCHANGED <<requestVars, countVars>>
    BY <1>2, ReloadStep
  <1>3. CASE UNCHANGED vars
    BY <1>3, ReloadStep DEF vars, configVars, requestVars, countVars
  <1> QED BY <1>1, <1>2, <1>3 DEF Next

\* The invariant holds in every reachable state.
LEMMA Inductive == Spec => []IInv
  BY IInvInit, IInvStep, PTL DEF Spec

\* The types hold for every configuration.
THEOREM AdmissionTypes == Spec => []TypeOK
  <1>1. IInv => TypeOK
    BY DEF IInv
  <1> QED BY <1>1, Inductive, PTL

\* No slot of the limiter and no activity count leaks or is given back twice, for
\* any number of requests, rules and reloads (ratelimit.rs 197-240, proxy.rs 543-620).
THEOREM AdmissionCountsExact == Spec => []CountsExact
  <1>1. IInv => CountsExact
    BY DEF IInv
  <1> QED BY <1>1, Inductive, PTL

\* A limit n is never exceeded by the requests it was read for, whatever other
\* rules share its bucket and whenever the rules are reloaded (ratelimit.rs 243-276).
THEOREM AdmissionLimits == Spec => []LimitRespected
  <1>1. LimitValues \subseteq Nat
    BY AdmissionAssumption DEF LimitValues, RateRule
  <1>2. IInv => LimitRespected
    BY <1>1 DEF IInv, LimitInv, LimitRespected
  <1> QED BY <1>2, Inductive, PTL
=============================================================================
