--------------------------- MODULE EnforcerProofs ---------------------------
(***************************************************************************)
(* Proofs about Enforcer, for any handlers, users, providers and limits:   *)
(* its types, the bound on what a minute admits, and the deadline of a     *)
(* cooldown that no late failure moves.                                    *)
(***************************************************************************)
EXTENDS Enforcer, Integers, FiniteSetTheorems, TLAPS

-----------------------------------------------------------------------------
(* What the operators on a cooldown entry and on a minute bucket return.   *)

\* The operations on a cooldown entry return entries.
LEMMA EntryTypes ==
    ASSUME NEW e \in Entry, NEW n \in Nat, NEW d \in Nat, NEW i \in BOOLEAN
    PROVE  /\ Absent \in Entry
           /\ AfterCheck(e) \in Entry
           /\ AfterFailure(e, n, d, i) \in Entry
           /\ Elapse(e) \in Entry
  BY FailMaxAssumption DEF Absent, AfterCheck, AfterFailure, Elapse, Entry

\* An operation on an entry that is cooling down leaves its deadline, lets
\* time pass, or clears it.
LEMMA WindowLeft ==
    ASSUME NEW e \in Entry, Active(e), NEW n \in Nat, NEW d \in Nat
    PROVE  /\ AfterCheck(e) = e
           /\ \A i \in BOOLEAN : AfterFailure(e, n, d, i).left = e.left
           /\ Elapse(e).left <= e.left
           /\ ~Active(Absent)
  BY DEF AfterCheck, Expired, Active, AfterFailure, Elapse, Absent, Entry

\* The operations on a bucket return buckets, whatever the limits.
LEMMA BucketTypes ==
    ASSUME NEW b \in Bucket, NEW n \in Nat
    PROVE  /\ EmptyBucket \in Bucket
           /\ Roll(b) \in Bucket
           /\ \A rpm, tpm : AfterRateCheck(b, rpm, tpm) \in Bucket
           /\ AfterRequest(b) \in Bucket
           /\ AfterTokens(b, n) \in Bucket
           /\ [b EXCEPT !.current = FALSE] \in Bucket
<1>1. EmptyBucket \in Bucket
  BY CountMaxAssumption DEF EmptyBucket, Bucket
<1>2. Roll(b) \in Bucket
  BY <1>1 DEF Roll
<1>3. [b EXCEPT !.current = FALSE] \in Bucket
  BY DEF Bucket
<1>4. \A rpm, tpm : AfterRateCheck(b, rpm, tpm) \in Bucket
  BY <1>2 DEF AfterRateCheck
<1>5. AfterRequest(b) \in Bucket
  BY <1>2, CountMaxAssumption DEF AfterRequest, Saturate, Bucket
<1>6. AfterTokens(b, n) \in Bucket
  BY <1>2, CountMaxAssumption DEF AfterTokens, Saturate, Bucket
<1> QED
  BY <1>1, <1>2, <1>3, <1>4, <1>5, <1>6

\* They keep the request count, start it anew, or add the one request that
\* record_request records.
LEMMA BucketCounts ==
    ASSUME NEW b \in Bucket, NEW n \in Nat
    PROVE  /\ Roll(b) = b \/ Roll(b).count = 0
           /\ AfterTokens(b, n).current => AfterTokens(b, n).count = Roll(b).count
                                             \/ (b.current /\ AfterTokens(b, n).count = b.count)
           /\ b.current => Roll(b) = b
           /\ ~b.current => Roll(b).count = 0
           /\ AfterRequest(b).count <= Roll(b).count + 1
  BY CountMaxAssumption, SMTT(30) DEF EmptyBucket, Roll, AfterRequest, AfterTokens, Saturate, Bucket

\* A bucket with room left after a check that passed has room for one more.
LEMMA BucketRoom ==
    ASSUME NEW b \in Bucket, NEW rpm \in Nat, NEW tpm, ~Exhausted(b, rpm, tpm)
    PROVE  rpm # 0 /\ Roll(b).count < rpm /\ Roll(b).count \in Nat
  BY CountMaxAssumption, SMTT(30) DEF EmptyBucket, Roll, Exhausted, AtLimit, Bucket

-----------------------------------------------------------------------------
(* The handlers.                                                           *)

\* A handler with a request in hand has a key, and the key names a user.
LEMMA BusyHandler ==
    ASSUME TypeOK, NEW h \in Handlers, pc[h] # "idle"
    PROVE  key[h] \in Keys /\ UserOf(h) \in Users
  BY EnforcerAssumption DEF TypeOK, UserOf, Keys

\* Types hold at the start.
LEMMA TypeInit == Init => TypeOK
<1> SUFFICES ASSUME Init PROVE TypeOK
  OBVIOUS
<1>1. EmptyBucket \in Bucket
  BY CountMaxAssumption DEF EmptyBucket, Bucket
<1>2. [EmptyBucket EXCEPT !.current = FALSE] \in Bucket
  BY <1>1, BucketTypes
<1>3. Absent \in Entry
  BY FailMaxAssumption DEF Absent, Entry
<1> QED
  BY <1>2, <1>3 DEF Init, TypeOK

\* A handler's step changes no type.
LEMMA HandlerType ==
    ASSUME TypeOK, NEW h \in Handlers, HandlerStep(h)
    PROVE  TypeOK'
<1> USE DEF TypeOK
<1>1. ASSUME NEW k \in Keys, Arrive(h, k) PROVE TypeOK'
  BY <1>1, EnforcerAssumption DEF Arrive
<1>2. CASE CooldownRejects(h)
  BY <1>2, EnforcerAssumption DEF CooldownRejects, Answer
<1>3. CASE CooldownPasses(h)
  <2>1. key[h] \in Keys
    BY <1>3, BusyHandler DEF CooldownPasses
  <2>2. AfterCheck(cool[key[h]]) \in Entry
    BY <2>1, EntryTypes, EnforcerAssumption
  <2> QED
    BY <1>3, <2>1, <2>2 DEF CooldownPasses
<1>4. CASE RateRejects(h)
  <2>1. UserOf(h) \in Users
    BY <1>4, BusyHandler DEF RateRejects
  <2>2. AfterRateCheck(bucket[UserOf(h)], Rpm, Tpm) \in Bucket
    BY <2>1, BucketTypes
  <2> QED
    BY <1>4, <2>1, <2>2 DEF RateRejects, Answer
<1>5. CASE RatePasses(h)
  <2>1. UserOf(h) \in Users
    BY <1>5, BusyHandler DEF RatePasses
  <2>2. AfterRateCheck(bucket[UserOf(h)], Rpm, Tpm) \in Bucket
    BY <2>1, BucketTypes
  <2> QED
    BY <1>5, <2>1, <2>2 DEF RatePasses
<1>6. CASE RateSlips(h)
  <2>1. UserOf(h) \in Users
    BY <1>6, BusyHandler DEF RateSlips
  <2> DEFINE b == [bucket EXCEPT ![UserOf(h)] = AfterRateCheck(@, Rpm, Tpm)]
  <2>2. b \in [Users -> Bucket]
    BY <2>1, BucketTypes
  <2>3. NextMinute(b) \in [Users -> Bucket]
    BY <2>2, BucketTypes DEF NextMinute
  <2>4. \A k \in Keys : Elapse(cool[k]) \in Entry
    BY EntryTypes, EnforcerAssumption
  <2> QED
    BY <1>6, <2>3, <2>4 DEF RateSlips
<1>7. CASE RecordRequest(h)
  <2>1. UserOf(h) \in Users
    BY <1>7, BusyHandler DEF RecordRequest
  <2>2. AfterRequest(bucket[UserOf(h)]) \in Bucket
    BY <2>1, BucketTypes
  <2> QED
    BY <1>7, <2>1, <2>2 DEF RecordRequest
<1>8. ASSUME NEW cancelled \in BOOLEAN, NEW cost \in Costs, DoneFeedback(h, cancelled, cost)
      PROVE  TypeOK'
  <2>1. key[h] \in Keys /\ UserOf(h) \in Users
    BY <1>8, BusyHandler DEF DoneFeedback
  <2>2. AfterTokens(bucket[UserOf(h)], cost) \in Bucket
    BY <2>1, BucketTypes, EnforcerAssumption
  <2>3. Absent \in Entry
    BY FailMaxAssumption DEF Absent, Entry
  <2>4. cool' \in [Keys -> Entry]
    BY <1>8, <2>3 DEF DoneFeedback
  <2> QED
    BY <1>8, <2>1, <2>2, <2>4 DEF DoneFeedback, Answer
<1>9. ASSUME NEW authInvalid \in BOOLEAN, NEW retryable \in BOOLEAN,
             ErrorFeedback(h, authInvalid, retryable)
      PROVE  TypeOK'
  <2>1. key[h] \in Keys
    BY <1>9, BusyHandler DEF ErrorFeedback
  <2>2. AfterFailure(cool[key[h]], Threshold, Duration, authInvalid) \in Entry
    BY <2>1, EntryTypes, EnforcerAssumption
  <2>3. cool' \in [Keys -> Entry]
    BY <1>9, <2>1, <2>2 DEF ErrorFeedback
  <2> QED
    BY <1>9, <2>1, <2>3 DEF ErrorFeedback, Answer
<1>10. CASE NoFeedback(h)
  BY <1>10, EnforcerAssumption DEF NoFeedback, Answer
<1> QED
  BY <1>1, <1>2, <1>3, <1>4, <1>5, <1>6, <1>7, <1>8, <1>9, <1>10 DEF HandlerStep

\* Nor does the clock.
LEMMA TickType ==
    ASSUME TypeOK, NEW newMinute \in BOOLEAN, Tick(newMinute)
    PROVE  TypeOK'
<1>1. \A k \in Keys : Elapse(cool[k]) \in Entry
  BY EntryTypes, EnforcerAssumption DEF TypeOK
<1>2. NextMinute(bucket) \in [Users -> Bucket]
  BY BucketTypes DEF NextMinute, TypeOK
<1> QED
  BY <1>1, <1>2 DEF Tick, TypeOK

\* Every step of the enforcer keeps the types.
LEMMA TypeStep == TypeOK /\ [Next]_vars => TypeOK'
<1> SUFFICES ASSUME TypeOK, [Next]_vars PROVE TypeOK'
  OBVIOUS
<1>1. CASE Next
  BY <1>1, HandlerType, TickType DEF Next
<1>2. CASE UNCHANGED vars
  BY <1>2 DEF vars, TypeOK
<1> QED
  BY <1>1, <1>2

\* The counters stay in their width and every handler past its arrival has
\* the key of its request, which is what the enforcer's lookups rely on.
THEOREM TypeCorrect == Spec => []TypeOK
  BY TypeInit, TypeStep, PTL DEF Spec

-----------------------------------------------------------------------------
\* The handlers past a check are some of the handlers.
LEMMA PassedBound ==
    ASSUME NEW u \in Users
    PROVE  /\ IsFiniteSet(Passed(u))
           /\ Cardinality(Passed(u)) \in Nat
           /\ Cardinality(Handlers) \in Nat
           /\ Cardinality(Passed(u)) <= Cardinality(Handlers)
<1>1. Passed(u) \subseteq Handlers
  BY DEF Passed
<1> QED
  BY <1>1, EnforcerAssumption, FS_Subset, FS_CardinalityType

\* A step that admits no handler of u, and keeps the count of u's bucket or
\* starts it anew, keeps u within its bound.
LEMMA NoAdmission ==
    ASSUME TypeOK, TypeOK', Rpm \in Nat, NEW u \in Users, UserWithinBound(u),
           Passed(u)' \subseteq Passed(u),
           bucket'[u].current =>
               \/ bucket[u].current /\ bucket'[u].count = bucket[u].count
               \/ bucket'[u].count = 0
    PROVE  UserWithinBound(u)'
<1> DEFINE c == bucket[u].count
           d == bucket'[u].count
           m == Cardinality(Passed(u))
           n == Cardinality(Passed(u)')
           N == Cardinality(Handlers)
           L == IF Rpm = 0 THEN 0 ELSE Rpm - 1
<1>1. c \in Nat /\ d \in Nat
  BY DEF TypeOK, Bucket
<1>2. m \in Nat /\ n \in Nat /\ N \in Nat /\ n <= m /\ m <= N
  BY PassedBound, FS_Subset, FS_CardinalityType
<1>3. L \in Nat
  OBVIOUS
<1>4. SUFFICES ASSUME bucket'[u].current PROVE d + n <= L + N
  BY DEF UserWithinBound
<1>5. CASE bucket[u].current /\ d = c
  <2>1. c + m <= L + N
    BY <1>5 DEF UserWithinBound
  <2> QED
    BY <1>1, <1>2, <1>3, <1>5, <2>1
<1>6. CASE d = 0
  BY <1>2, <1>3, <1>6
<1> QED
  BY <1>4, <1>5, <1>6

\* A handler that leaves "passed", or was not there and does not enter it,
\* adds nothing to Passed.
LEMMA PassedShrinks ==
    ASSUME NEW h \in Handlers, NEW u \in Users, TypeOK,
           \A g \in Handlers \ {h} : pc'[g] = pc[g] /\ key'[g] = key[g],
           pc'[h] # "passed"
    PROVE  Passed(u)' = Passed(u) \ {h}
  BY DEF Passed, UserOf

\* A handler's step keeps every user within its bound.
LEMMA HandlerBound ==
    ASSUME TypeOK, TypeOK', Rpm \in Nat, NEW h \in Handlers, HandlerStep(h),
           NEW u \in Users, UserWithinBound(u)
    PROVE  UserWithinBound(u)'
<1> DEFINE b == bucket[u]
<1>a. b \in Bucket /\ bucket'[u] \in Bucket
  BY DEF TypeOK
<1>b. b.count \in Nat /\ b.current \in BOOLEAN
  BY <1>a DEF Bucket
<1>d. Roll(b).count \in Nat
  BY <1>b DEF Roll, EmptyBucket
<1>c. Roll(b).current => (b.current /\ Roll(b).count = b.count) \/ Roll(b).count = 0
  BY <1>a, <1>b, BucketCounts DEF Roll, EmptyBucket
<1>1. ASSUME NEW k \in Keys, Arrive(h, k) PROVE UserWithinBound(u)'
  BY <1>1, PassedShrinks, NoAdmission DEF Arrive, TypeOK
<1>2. CASE CooldownRejects(h) \/ NoFeedback(h)
  BY <1>2, PassedShrinks, NoAdmission DEF CooldownRejects, NoFeedback, Answer, TypeOK
<1>3. CASE CooldownPasses(h)
  BY <1>3, PassedShrinks, NoAdmission DEF CooldownPasses, TypeOK
<1>4. CASE RateRejects(h)
  <2>1. Passed(u)' \subseteq Passed(u)
    BY <1>4, PassedShrinks DEF RateRejects, Answer, TypeOK
  <2>2. bucket'[u] = b \/ bucket'[u] = Roll(b)
    BY <1>4 DEF RateRejects, AfterRateCheck, TypeOK
  <2> QED
    BY <1>c, <2>1, <2>2, NoAdmission
<1>5. CASE RatePasses(h)
  <2>1. CASE u = UserOf(h)
    <3>1. bucket'[u] = Roll(b) /\ Rpm # 0 /\ Roll(b).count < Rpm
      <4>1. bucket'[u] = AfterRateCheck(b, Rpm, Tpm) /\ ~Exhausted(b, Rpm, Tpm)
        BY <1>5, <2>1 DEF RatePasses, TypeOK
      <4>2. Rpm # NoLimit
        BY CountMaxAssumption
      <4>3. bucket'[u] = Roll(b)
        BY <4>1, <4>2 DEF AfterRateCheck
      <4> QED
        BY <1>a, <4>1, <4>3, BucketRoom
    <3>2. Roll(b).count \in Nat
      BY <1>d
    <3>3. /\ Cardinality(Passed(u)') \in Nat
          /\ Cardinality(Handlers) \in Nat
          /\ Cardinality(Passed(u)') <= Cardinality(Handlers)
      <4>1. Passed(u)' \subseteq Handlers
        BY DEF Passed
      <4> QED
        BY <4>1, EnforcerAssumption, FS_Subset, FS_CardinalityType
    <3> QED
      BY <3>1, <3>2, <3>3 DEF UserWithinBound
  <2>2. CASE u # UserOf(h)
    <3>1. Passed(u)' \subseteq Passed(u)
      BY <1>5, <2>2 DEF RatePasses, Passed, UserOf, TypeOK
    <3>2. bucket'[u] = b
      BY <1>5, <2>2 DEF RatePasses, TypeOK
    <3> QED
      BY <3>1, <3>2, NoAdmission
  <2> QED
    BY <2>1, <2>2
<1>6. CASE RateSlips(h)
  <2>1. ~bucket'[u].current
    BY <1>6 DEF RateSlips, NextMinute, TypeOK, Bucket
  <2> QED
    BY <2>1 DEF UserWithinBound
<1>7. CASE RecordRequest(h)
  <2>1. Passed(u)' = Passed(u) \ {h}
    BY <1>7, PassedShrinks DEF RecordRequest, TypeOK
  <2>2. CASE u = UserOf(h)
    <3>1. h \in Passed(u)
      BY <1>7, <2>2 DEF RecordRequest, Passed
    <3> DEFINE d == bucket'[u].count
               r == Roll(b).count
               m == Cardinality(Passed(u))
               n == Cardinality(Passed(u)')
               N == Cardinality(Handlers)
               L == IF Rpm = 0 THEN 0 ELSE Rpm - 1
    <3>2. n = m - 1 /\ m \in Nat /\ N \in Nat /\ m <= N
      BY <2>1, <3>1, PassedBound, FS_RemoveElement
    <3>3. d <= r + 1 /\ d \in Nat /\ r \in Nat
      <4>1. bucket'[u] = AfterRequest(b)
        BY <1>7, <2>2 DEF RecordRequest, TypeOK
      <4>2. d <= r + 1
        BY <1>a, <4>1, BucketCounts
      <4>3. d \in Nat /\ r \in Nat
        BY <1>a, <1>d DEF Bucket
      <4> QED
        BY <4>2, <4>3
    <3>4. L \in Nat
      OBVIOUS
    <3>5. r + m <= L + N
      <4>1. CASE b.current
        <5>1. r = b.count
          BY <1>a, <4>1, BucketCounts
        <5> QED
          BY <4>1, <5>1 DEF UserWithinBound
      <4>2. CASE ~b.current
        <5>1. r = 0
          BY <4>2 DEF Roll, EmptyBucket
        <5> QED
          BY <3>2, <3>4, <5>1
      <4> QED
        BY <4>1, <4>2
    <3>6. d + n <= L + N
      BY <3>2, <3>3, <3>4, <3>5
    <3> QED
      BY <3>6 DEF UserWithinBound
  <2>3. CASE u # UserOf(h)
    <3>1. bucket'[u] = b
      BY <1>7, <2>3 DEF RecordRequest, TypeOK
    <3> QED
      BY <2>1, <3>1, NoAdmission
  <2> QED
    BY <2>2, <2>3
<1>8. ASSUME NEW cancelled \in BOOLEAN, NEW cost \in Costs, DoneFeedback(h, cancelled, cost)
      PROVE  UserWithinBound(u)'
  <2>1. Passed(u)' \subseteq Passed(u)
    BY <1>8, PassedShrinks DEF DoneFeedback, Answer, TypeOK
  <2>2. bucket'[u] = b \/ bucket'[u] = AfterTokens(b, cost)
    BY <1>8 DEF DoneFeedback, TypeOK
  <2>3. bucket'[u].current =>
            (b.current /\ bucket'[u].count = b.count) \/ bucket'[u].count = 0
    <3>1. cost \in Nat
      BY EnforcerAssumption
    <3>2. Roll(b) = b \/ Roll(b).count = 0
      BY <1>a, BucketCounts
    <3>3. CASE bucket'[u] = AfterTokens(b, cost) /\ ~b.current
      <4>1. Roll(b).count = 0
        BY <3>3 DEF Roll, EmptyBucket
      <4> QED
        BY <1>a, <3>1, <3>3, <4>1, BucketCounts
    <3>4. CASE bucket'[u] = AfterTokens(b, cost) /\ b.current
      BY <1>a, <3>1, <3>4, BucketCounts
    <3> QED
      BY <2>2, <3>3, <3>4
  <2> QED
    BY <2>1, <2>3, NoAdmission
<1>9. ASSUME NEW authInvalid \in BOOLEAN, NEW retryable \in BOOLEAN,
             ErrorFeedback(h, authInvalid, retryable)
      PROVE  UserWithinBound(u)'
  BY <1>9, PassedShrinks, NoAdmission DEF ErrorFeedback, Answer, TypeOK
<1> QED
  BY <1>1, <1>2, <1>3, <1>4, <1>5, <1>6, <1>7, <1>8, <1>9 DEF HandlerStep

\* The bound is inductive, given the types.
LEMMA BoundStep == TypeOK /\ TypeOK' /\ AdmissionBound /\ [Next]_vars => AdmissionBound'
<1> SUFFICES ASSUME TypeOK, TypeOK', Rpm \in Nat, [Next]_vars,
                    NEW u \in Users, UserWithinBound(u)
             PROVE  UserWithinBound(u)'
  BY DEF AdmissionBound
<1>1. ASSUME NEW h \in Handlers, HandlerStep(h) PROVE UserWithinBound(u)'
  BY <1>1, HandlerBound
<1>2. ASSUME NEW newMinute \in BOOLEAN, Tick(newMinute) PROVE UserWithinBound(u)'
  <2>1. Passed(u)' = Passed(u)
    BY <1>2 DEF Tick, Passed, UserOf
  <2>2. bucket' = bucket \/ ~bucket'[u].current
    BY <1>2 DEF Tick, NextMinute, TypeOK, Bucket
  <2>3. CASE bucket' = bucket
    BY <2>1, <2>3, NoAdmission
  <2>4. CASE ~bucket'[u].current
    BY <2>4 DEF UserWithinBound
  <2> QED
    BY <2>2, <2>3, <2>4
<1>3. CASE UNCHANGED vars
  <2>1. Passed(u)' = Passed(u)
    BY <1>3 DEF vars, Passed, UserOf
  <2> QED
    BY <1>3, <2>1, NoAdmission DEF vars
<1> QED
  BY <1>1, <1>2, <1>3 DEF Next

\* At the start no bucket is of the current minute.
LEMMA BoundInit == Init => AdmissionBound
  BY CountMaxAssumption DEF Init, AdmissionBound, UserWithinBound, EmptyBucket

\* However the handlers' checks and records interleave, and whenever the
\* minute turns, a minute records at most rpm - 1 requests (none for a
\* killswitch) plus one per concurrent handler.
THEOREM AdmissionBounded == Spec => []AdmissionBound
<1>1. TypeOK /\ AdmissionBound /\ TypeOK' /\ [Next]_vars => AdmissionBound'
  BY BoundStep
<1> QED
  BY <1>1, BoundInit, TypeCorrect, PTL DEF Spec

-----------------------------------------------------------------------------
\* No step moves the deadline of a running window away.
LEMMA WindowStep ==
    ASSUME TypeOK, [Next]_vars, NEW k \in Keys, Active(cool[k]), Active(cool[k])'
    PROVE  cool'[k].left <= cool[k].left
<1>1. cool[k] \in Entry /\ cool[k].left \in Nat
  BY DEF TypeOK, Entry
<1>2. CASE cool'[k] = cool[k]
  BY <1>1, <1>2
<1>3. CASE cool'[k] = Elapse(cool[k])
  BY <1>1, <1>3, WindowLeft, EnforcerAssumption
<1>4. CASE cool'[k] = AfterCheck(cool[k])
  BY <1>1, <1>4, WindowLeft, EnforcerAssumption
<1>5. ASSUME NEW i \in BOOLEAN, cool'[k] = AfterFailure(cool[k], Threshold, Duration, i)
      PROVE  cool'[k].left <= cool[k].left
  BY <1>1, <1>5, WindowLeft, EnforcerAssumption
<1>6. CASE cool'[k] = Absent
  BY <1>1, <1>6, WindowLeft, EnforcerAssumption DEF Active
<1>7. ASSUME NEW h \in Handlers, HandlerStep(h) PROVE cool'[k].left <= cool[k].left
  <2>1. CASE \E j \in Keys : Arrive(h, j)
    BY <1>2, <2>1 DEF Arrive
  <2>2. CASE \/ CooldownRejects(h) \/ RateRejects(h) \/ RatePasses(h)
             \/ RecordRequest(h) \/ NoFeedback(h)
    BY <1>2, <2>2 DEF CooldownRejects, RateRejects, RatePasses, RecordRequest, NoFeedback
  <2>3. CASE CooldownPasses(h)
    BY <1>2, <1>4, <2>3 DEF CooldownPasses, TypeOK
  <2>4. CASE RateSlips(h)
    BY <1>3, <2>4 DEF RateSlips
  <2>5. CASE \E cancelled \in BOOLEAN, cost \in Costs : DoneFeedback(h, cancelled, cost)
    BY <1>2, <1>6, <2>5 DEF DoneFeedback, TypeOK
  <2>6. CASE \E authInvalid, retryable \in BOOLEAN : ErrorFeedback(h, authInvalid, retryable)
    BY <1>2, <1>5, <2>6 DEF ErrorFeedback, TypeOK
  <2> QED
    BY <1>7, <2>1, <2>2, <2>3, <2>4, <2>5, <2>6 DEF HandlerStep
<1>8. CASE \E newMinute \in BOOLEAN : Tick(newMinute)
  BY <1>3, <1>8 DEF Tick
<1>9. CASE UNCHANGED vars
  BY <1>2, <1>9 DEF vars
<1> QED
  BY <1>7, <1>8, <1>9 DEF Next

\* A running cooldown is waited out: failures reported during it, by calls
\* admitted before it began, do not push its deadline.
THEOREM DeadlineFixed == Spec => WindowFrozen
<1>1. TypeOK /\ [Next]_vars
        => [\A k \in Keys : Active(cool[k]) /\ Active(cool[k])'
                               => cool'[k].left <= cool[k].left]_vars
  BY WindowStep
<1> QED
  BY <1>1, TypeCorrect, PTL DEF Spec, WindowFrozen
=============================================================================
