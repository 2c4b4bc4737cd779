-------------------------- MODULE SessionRunProofs --------------------------
(***************************************************************************)
(* Proofs about SessionRun, for any runs, models, providers and limits:    *)
(* its types, the one terminal of each call, and the bound on what a       *)
(* minute starts when throttled calls wake in it.                          *)
(***************************************************************************)
EXTENDS SessionRun, Integers, FiniteSetTheorems, TLAPS

-----------------------------------------------------------------------------
(* What the operators on a cooldown entry and on a minute bucket return.   *)

\* The operations on a cooldown entry return entries.
LEMMA EntryTypes ==
    ASSUME NEW e \in Entry, NEW n \in Nat, NEW d \in Nat, NEW i \in BOOLEAN
    PROVE  /\ Absent \in Entry
           /\ AfterCheck(e) \in Entry
           /\ AfterFailure(e, n, d, i) \in Entry
           /\ Elapse(e) \in Entry
  BY FailMaxAssumption DEF Absent, AfterCheck, AfterFailure, Elapse, Entry

\* The operations on a bucket return buckets, whatever the limits.
LEMMA BucketTypes ==
    ASSUME NEW b \in Bucket, NEW n \in Nat
    PROVE  /\ EmptyBucket \in Bucket
           /\ Roll(b) \in Bucket
           /\ \A rpm, tpm : AfterRateCheck(b, rpm, tpm) \in Bucket
           /\ AfterRequest(b) \in Bucket
           /\ AfterTokens(b, n) \in Bucket
           /\ [b EXCEPT !.current = FALSE] \in Bucket
<1>1. EmptyBucket \in Bucket
  BY CountMaxAssumption DEF EmptyBucket, Bucket
<1>2. Roll(b) \in Bucket
  BY <1>1 DEF Roll
<1>3. [b EXCEPT !.current = FALSE] \in Bucket
  BY DEF Bucket
<1>4. \A rpm, tpm : AfterRateCheck(b, rpm, tpm) \in Bucket
  BY <1>2 DEF AfterRateCheck
<1>5. AfterRequest(b) \in Bucket
  BY <1>2, CountMaxAssumption DEF AfterRequest, Saturate, Bucket
<1>6. AfterTokens(b, n) \in Bucket
  BY <1>2, CountMaxAssumption DEF AfterTokens, Saturate, Bucket
<1> QED
  BY <1>1, <1>2, <1>3, <1>4, <1>5, <1>6

\* They keep the request count, start it anew, or add the one request that
\* record_request records.
LEMMA BucketCounts ==
    ASSUME NEW b \in Bucket, NEW n \in Nat
    PROVE  /\ Roll(b) = b \/ Roll(b).count = 0
           /\ AfterTokens(b, n).current => AfterTokens(b, n).count = Roll(b).count
                                             \/ (b.current /\ AfterTokens(b, n).count = b.count)
           /\ b.current => Roll(b) = b
           /\ ~b.current => Roll(b).count = 0
           /\ AfterRequest(b).count <= Roll(b).count + 1
  BY CountMaxAssumption, SMTT(30) DEF EmptyBucket, Roll, AfterRequest, AfterTokens, Saturate, Bucket

\* A bucket with room left after a check that passed has room for one more.
LEMMA BucketRoom ==
    ASSUME NEW b \in Bucket, NEW rpm \in Nat, NEW tpm, ~Exhausted(b, rpm, tpm)
    PROVE  rpm # 0 /\ Roll(b).count < rpm /\ Roll(b).count \in Nat
  BY CountMaxAssumption, SMTT(30) DEF EmptyBucket, Roll, Exhausted, AtLimit, Bucket

-----------------------------------------------------------------------------
(* The runs.                                                               *)

\* A model has a provider and a bucket.
LEMMA ModelKeys ==
    ASSUME NEW m \in Models
    PROVE  ProviderOf[m] \in Providers /\ BucketKey(m) \in Buckets
  BY SessionRunAssumption DEF Buckets

\* A run under way has a model.
LEMMA BusyRun ==
    ASSUME TypeOK, NEW r \in Runs, pc[r] # "idle"
    PROVE  /\ model[r] \in Models
           /\ ProviderOf[model[r]] \in Providers
           /\ BucketKey(model[r]) \in Buckets
  BY ModelKeys DEF TypeOK

\* Types hold at the start.
LEMMA TypeInit == Init => TypeOK
<1> SUFFICES ASSUME Init PROVE TypeOK
  OBVIOUS
<1>1. EmptyBucket \in Bucket
  BY CountMaxAssumption DEF EmptyBucket, Bucket
<1>2. [EmptyBucket EXCEPT !.current = FALSE] \in Bucket
  BY <1>1, BucketTypes
<1>3. Absent \in Entry
  BY FailMaxAssumption DEF Absent, Entry
<1> QED
  BY <1>2, <1>3 DEF Init, TypeOK

\* A call that starts with its model keeps the types of pc and model.
LEMMA BeginType ==
    ASSUME TypeOK, NEW r \in Runs, NEW m \in Models, NEW cancelled \in BOOLEAN,
           Begin(r, m, cancelled)
    PROVE  /\ model' \in [Runs -> Models \cup {NoModel}]
           /\ aborted' \in [Runs -> BOOLEAN]
           /\ model'[r] = m
           /\ \A s \in Runs \ {r} : model'[s] = model[s]
  BY DEF TypeOK, Begin

\* The start of a call changes no type.
LEMMA StartType ==
    ASSUME TypeOK, NEW r \in Runs, NEW m \in Models, NEW cancelled \in BOOLEAN,
           \/ StartInvalid(r, m, cancelled) \/ StartCooling(r, m, cancelled)
           \/ StartNow(r, m, cancelled) \/ StartThrottled(r, m, cancelled)
           \/ StartSlips(r, m, cancelled)
    PROVE  TypeOK'
<1> DEFINE p == ProviderOf[m]
           k == BucketKey(m)
<1>0. p \in Providers /\ k \in Buckets
  BY ModelKeys
<1>a. cool[p] \in Entry /\ bucket[k] \in Bucket
  BY <1>0 DEF TypeOK
<1>b. AfterCheck(cool[p]) \in Entry
  BY <1>a, EntryTypes, SessionRunAssumption
<1>c. /\ AfterRequest(bucket[k]) \in Bucket
      /\ AfterRateCheck(bucket[k], Rpm, Tpm) \in Bucket
  BY <1>a, BucketTypes
<1>1. CASE StartInvalid(r, m, cancelled)
  <2>1. Begin(r, m, cancelled)
    BY <1>1 DEF StartInvalid
  <2> QED
    BY <1>1, <2>1, BeginType DEF StartInvalid, TypeOK
<1>2. CASE StartCooling(r, m, cancelled)
  <2>1. Begin(r, m, cancelled)
    BY <1>2 DEF StartCooling
  <2> QED
    BY <1>2, <2>1, BeginType DEF StartCooling, TypeOK
<1>3. CASE StartNow(r, m, cancelled)
  <2>1. Begin(r, m, cancelled)
    BY <1>3 DEF StartNow, Admitted
  <2>2. cool' \in [Providers -> Entry]
    BY <1>3, <1>0, <1>b DEF StartNow, Admitted, TypeOK
  <2>3. bucket' \in [Buckets -> Bucket]
    BY <1>3, <1>0, <1>c DEF StartNow, TypeOK
  <2> QED
    BY <1>3, <2>1, <2>2, <2>3, BeginType DEF StartNow, Admitted, TypeOK
<1>4. CASE StartThrottled(r, m, cancelled)
  <2>1. Begin(r, m, cancelled)
    BY <1>4 DEF StartThrottled, Admitted
  <2>2. cool' \in [Providers -> Entry]
    BY <1>4, <1>0, <1>b DEF StartThrottled, Admitted, TypeOK
  <2>3. bucket' \in [Buckets -> Bucket]
    BY <1>4, <1>0, <1>c DEF StartThrottled, TypeOK
  <2> QED
    BY <1>4, <2>1, <2>2, <2>3, BeginType DEF StartThrottled, Admitted, TypeOK
<1>5. CASE StartSlips(r, m, cancelled)
  <2> DEFINE checked == [bucket EXCEPT ![k] = AfterRateCheck(@, Rpm, Tpm)]
  <2>1. Begin(r, m, cancelled)
    BY <1>5 DEF StartSlips
  <2>2. \A q \in Providers :
            Elapse(IF q = p THEN AfterCheck(cool[q]) ELSE cool[q]) \in Entry
    BY <1>b, EntryTypes, SessionRunAssumption DEF TypeOK
  <2>3. cool' \in [Providers -> Entry]
    BY <1>5, <2>2 DEF StartSlips
  <2>4. checked \in [Buckets -> Bucket]
    BY <1>0, <1>c DEF TypeOK
  <2>5. NextMinute(checked) \in [Buckets -> Bucket]
    BY <2>4, BucketTypes DEF NextMinute
  <2>6. AfterRequest(NextMinute(checked)[k]) \in Bucket
    BY <1>0, <2>5, BucketTypes
  <2>7. bucket' \in [Buckets -> Bucket]
    BY <1>5, <2>5, <2>6 DEF StartSlips
  <2>8. WakeAll \in [Runs -> {"idle", "throttled", "due", "streaming", "over", "ended", "threw"}]
        /\ \A s \in Runs : WakeAll[s] # "idle" => pc[s] # "idle"
    BY DEF WakeAll, TypeOK
  <2>9. /\ pc' \in [Runs -> {"idle", "throttled", "due", "streaming", "over", "ended", "threw"}]
        /\ pc'[r] = "streaming"
        /\ \A s \in Runs \ {r} : pc'[s] # "idle" => pc[s] # "idle"
    BY <1>5, <2>8 DEF StartSlips
  <2>10. said' \in [Runs -> Nat]
    BY <1>5 DEF StartSlips, TypeOK
  <2>11. \A s \in Runs : pc'[s] # "idle" => model'[s] \in Models
    BY <2>1, <2>9, BeginType DEF TypeOK
  <2> QED
    BY <2>1, <2>3, <2>7, <2>9, <2>10, <2>11, BeginType DEF TypeOK
<1> QED
  BY <1>1, <1>2, <1>3, <1>4, <1>5

\* Nor does the rest of a call.
LEMMA CallType ==
    ASSUME TypeOK, NEW r \in Runs,
           Wake(r) \/ AdapterEnds(r) \/ Return(r) \/ ThrowsAfter(r) \/ Abandon(r) \/ Cancel(r)
    PROVE  TypeOK'
<1> DEFINE p == ProviderOf[model[r]]
           k == BucketKey(model[r])
<1>1. CASE Wake(r)
  <2>1. k \in Buckets
    BY <1>1, BusyRun DEF Wake
  <2>2. AfterRequest(bucket[k]) \in Bucket
    BY <2>1, BucketTypes DEF TypeOK
  <2>3. model[r] \in Models
    BY <1>1, BusyRun DEF Wake
  <2> QED
    BY <1>1, <2>1, <2>2, <2>3 DEF Wake, TypeOK
<1>2. ASSUME NEW cancelled \in BOOLEAN, NEW cost \in Costs, AdapterDone(r, cancelled, cost)
      PROVE  TypeOK'
  <2>1. p \in Providers /\ k \in Buckets /\ model[r] \in Models
    BY <1>2, BusyRun DEF AdapterDone
  <2>2. Absent \in Entry
    BY FailMaxAssumption DEF Absent, Entry
  <2>3. AfterTokens(bucket[k], cost) \in Bucket
    BY <2>1, BucketTypes, SessionRunAssumption DEF TypeOK
  <2>4. cool' \in [Providers -> Entry]
    BY <1>2, <2>1, <2>2 DEF AdapterDone, TypeOK
  <2>5. bucket' \in [Buckets -> Bucket]
    BY <1>2, <2>1, <2>3 DEF AdapterDone, TypeOK
  <2> QED
    BY <1>2, <2>1, <2>4, <2>5 DEF AdapterDone, SayAndGo, TypeOK
<1>3. ASSUME NEW authInvalid \in BOOLEAN, NEW retryable \in BOOLEAN,
             AdapterError(r, authInvalid, retryable)
      PROVE  TypeOK'
  <2>1. p \in Providers /\ model[r] \in Models
    BY <1>3, BusyRun DEF AdapterError
  <2>2. AfterFailure(cool[p], Threshold, Duration, authInvalid) \in Entry
    BY <2>1, EntryTypes, SessionRunAssumption DEF TypeOK
  <2>3. cool' \in [Providers -> Entry]
    BY <1>3, <2>1, <2>2 DEF AdapterError, TypeOK
  <2> QED
    BY <1>3, <2>1, <2>3 DEF AdapterError, SayAndGo, TypeOK
<1>4. CASE AdapterFails(r) \/ Return(r) \/ ThrowsAfter(r)
  BY <1>4, BusyRun DEF AdapterFails, Return, ThrowsAfter, SayAndGo, TypeOK
<1>5. CASE Abandon(r)
  BY <1>5, BusyRun DEF Abandon, TypeOK
<1>6. CASE Cancel(r)
  BY <1>6, BusyRun DEF Cancel, TypeOK
<1> QED
  BY <1>1, <1>2, <1>3, <1>4, <1>5, <1>6 DEF AdapterEnds

\* Nor does the clock.
LEMMA TickType ==
    ASSUME TypeOK, NEW newMinute \in BOOLEAN, Tick(newMinute)
    PROVE  TypeOK'
<1>1. cool' \in [Providers -> Entry]
  BY EntryTypes, SessionRunAssumption DEF Tick, TypeOK
<1>2. NextMinute(bucket) \in [Buckets -> Bucket]
  BY BucketTypes DEF NextMinute, TypeOK
<1>3. WakeAll \in [Runs -> {"idle", "throttled", "due", "streaming", "over", "ended", "threw"}]
      /\ \A s \in Runs : WakeAll[s] # "idle" => pc[s] # "idle"
  BY DEF WakeAll, TypeOK
<1> QED
  BY <1>1, <1>2, <1>3 DEF Tick, TypeOK

\* Every step of the runs keeps the types.
LEMMA TypeStep == TypeOK /\ [Next]_vars => TypeOK'
<1> SUFFICES ASSUME TypeOK, [Next]_vars PROVE TypeOK'
  OBVIOUS
<1>1. CASE Next
  BY <1>1, StartType, CallType, TickType DEF Next, Start
<1>2. CASE UNCHANGED vars
  BY <1>2 DEF vars, TypeOK
<1> QED
  BY <1>1, <1>2

\* Every run keeps its types, and one that is under way has a model of the
\* catalog, whose spec gives its limits and its provider.
THEOREM TypeCorrect == Spec => []TypeOK
  BY TypeInit, TypeStep, PTL DEF Spec

-----------------------------------------------------------------------------
\* The terminals yielded agree with where each run is, after every step.
LEMMA TerminalStep == TypeOK /\ OneTerminal /\ [Next]_vars => OneTerminal'
<1> SUFFICES ASSUME TypeOK, OneTerminal, [Next]_vars PROVE OneTerminal'
  OBVIOUS
<1> USE DEF TypeOK, OneTerminal
<1>0. \A r \in Runs : /\ WakeAll[r] \in {"over", "ended"} <=> pc[r] \in {"over", "ended"}
                      /\ WakeAll[r] = "threw" <=> pc[r] = "threw"
  BY DEF WakeAll
<1>a. WakeAll \in [Runs -> {"idle", "throttled", "due", "streaming", "over", "ended", "threw"}]
  BY DEF WakeAll
<1>1. ASSUME NEW r \in Runs, Start(r) PROVE OneTerminal'
  <2> PICK m \in Models, cancelled \in BOOLEAN :
        \/ StartInvalid(r, m, cancelled) \/ StartCooling(r, m, cancelled)
        \/ StartNow(r, m, cancelled) \/ StartThrottled(r, m, cancelled)
        \/ StartSlips(r, m, cancelled)
    BY <1>1 DEF Start
  <2>1. CASE StartInvalid(r, m, cancelled) \/ StartCooling(r, m, cancelled)
    BY <2>1 DEF StartInvalid, StartCooling
  <2>2. CASE StartNow(r, m, cancelled) \/ StartThrottled(r, m, cancelled)
    BY <2>2 DEF StartNow, StartThrottled, Admitted
  <2>3. CASE StartSlips(r, m, cancelled)
    BY <1>0, <1>a, <2>3 DEF StartSlips
  <2> QED
    BY <2>1, <2>2, <2>3
<1>2. ASSUME NEW r \in Runs, AdapterEnds(r) PROVE OneTerminal'
  BY <1>2 DEF AdapterEnds, AdapterDone, AdapterError, AdapterFails, SayAndGo
<1>3. ASSUME NEW r \in Runs, Wake(r) \/ Return(r) \/ ThrowsAfter(r) \/ Abandon(r) \/ Cancel(r)
      PROVE  OneTerminal'
  BY <1>3 DEF Wake, Return, ThrowsAfter, SayAndGo, Abandon, Cancel
<1>4. ASSUME NEW newMinute \in BOOLEAN, Tick(newMinute) PROVE OneTerminal'
  BY <1>0, <1>4 DEF Tick
<1>5. CASE UNCHANGED vars
  BY <1>5 DEF vars
<1> QED
  BY <1>1, <1>2, <1>3, <1>4, <1>5 DEF Next

\* Whenever the caller aborts, a call that runs to its end yields one terminal
\* event, and none before its end, unless the adapter throws after its own: then,
\* against the protocol, a second one follows, and no third.
THEOREM OneTerminalUnlessThrown == Spec => []OneTerminal
<1>1. Init => OneTerminal
  BY DEF Init, OneTerminal
<1> QED
  BY <1>1, TerminalStep, TypeCorrect, PTL DEF Spec

-----------------------------------------------------------------------------
\* The bound of one bucket.
BucketBound(k) ==
    bucket[k].current =>
        bucket[k].count + Cardinality(Due(k))
            <= (IF Rpm = 0 THEN 0 ELSE Rpm - 1) + Cardinality(Runs)

\* The runs that are due, and some of them, are finitely many.
LEMMA DueBound ==
    ASSUME NEW k, NEW S, S \subseteq Due(k)
    PROVE  /\ IsFiniteSet(Due(k)) /\ IsFiniteSet(S)
           /\ Cardinality(S) \in Nat /\ Cardinality(Due(k)) \in Nat
           /\ Cardinality(Runs) \in Nat
           /\ Cardinality(S) <= Cardinality(Due(k))
           /\ Cardinality(Due(k)) <= Cardinality(Runs)
<1>1. Due(k) \subseteq Runs
  BY DEF Due
<1> QED
  BY <1>1, SessionRunAssumption, FS_Subset, FS_CardinalityType

\* Some runs without one of them are fewer than all.
LEMMA AllButOne ==
    ASSUME NEW r \in Runs, NEW S, S \subseteq Runs \ {r}
    PROVE  /\ Cardinality(S) \in Nat /\ Cardinality(Runs) \in Nat
           /\ Cardinality(S) <= Cardinality(Runs) - 1
<1>1. IsFiniteSet(Runs \ {r}) /\ Cardinality(Runs \ {r}) = Cardinality(Runs) - 1
  BY SessionRunAssumption, FS_RemoveElement
<1> QED
  BY <1>1, SessionRunAssumption, FS_Subset, FS_CardinalityType

\* A step that makes no run of k due, and keeps the count of k's bucket or
\* starts it anew, keeps k within its bound.
LEMMA NoStart ==
    ASSUME TypeOK, TypeOK', Rpm \in Nat, NEW k \in Buckets, BucketBound(k),
           Due(k)' \subseteq Due(k),
           bucket'[k].current =>
               \/ bucket[k].current /\ bucket'[k].count = bucket[k].count
               \/ bucket'[k].count = 0
    PROVE  BucketBound(k)'
<1> DEFINE c == bucket[k].count
           d == bucket'[k].count
           m == Cardinality(Due(k))
           n == Cardinality(Due(k)')
           N == Cardinality(Runs)
           L == IF Rpm = 0 THEN 0 ELSE Rpm - 1
<1>1. c \in Nat /\ d \in Nat
  BY DEF TypeOK, Bucket
<1>2. m \in Nat /\ n \in Nat /\ N \in Nat /\ n <= m /\ m <= N
  BY DueBound
<1>3. L \in Nat
  OBVIOUS
<1>4. SUFFICES ASSUME bucket'[k].current PROVE d + n <= L + N
  BY DEF BucketBound
<1>5. CASE bucket[k].current /\ d = c
  <2>1. c + m <= L + N
    BY <1>5 DEF BucketBound
  <2> QED
    BY <1>1, <1>2, <1>3, <1>5, <2>1
<1>6. CASE d = 0
  BY <1>2, <1>3, <1>6
<1> QED
  BY <1>4, <1>5, <1>6

\* A run that is not due after its own step adds nothing to Due.
LEMMA DueShrinks ==
    ASSUME TypeOK, NEW r \in Runs, NEW k,
           \A s \in Runs \ {r} : pc'[s] = pc[s] /\ model'[s] = model[s],
           pc'[r] # "due"
    PROVE  Due(k)' = Due(k) \ {r}
  BY DEF Due, TypeOK
\* The start of a call keeps every bucket within its bound.
LEMMA StartBound ==
    ASSUME TypeOK, TypeOK', Rpm \in Nat,
           NEW r \in Runs, NEW m \in Models, NEW cancelled \in BOOLEAN,
           \/ StartInvalid(r, m, cancelled) \/ StartCooling(r, m, cancelled)
           \/ StartNow(r, m, cancelled) \/ StartThrottled(r, m, cancelled)
           \/ StartSlips(r, m, cancelled),
           NEW k \in Buckets, BucketBound(k)
    PROVE  BucketBound(k)'
<1> DEFINE b == bucket[k]
           n == Cardinality(Due(k)')
           N == Cardinality(Runs)
           L == IF Rpm = 0 THEN 0 ELSE Rpm - 1
<1>a. b \in Bucket /\ bucket'[k] \in Bucket /\ bucket'[k].count \in Nat
  BY DEF TypeOK, Bucket
<1>b. \A s \in Runs \ {r} : model'[s] = model[s]
  BY DEF StartInvalid, StartCooling, StartNow, StartThrottled, StartSlips,
         Admitted, Begin, TypeOK
<1>c. L \in Nat
  OBVIOUS
<1>1. CASE StartInvalid(r, m, cancelled) \/ StartCooling(r, m, cancelled)
  <2>1. Due(k)' = Due(k) \ {r} /\ bucket'[k] = b
    BY <1>1, <1>b, DueShrinks DEF StartInvalid, StartCooling, TypeOK
  <2> QED
    BY <2>1, NoStart
<1>2. CASE StartThrottled(r, m, cancelled)
  <2>1. Due(k)' = Due(k) \ {r}
    BY <1>2, <1>b, DueShrinks DEF StartThrottled, TypeOK
  <2>2. bucket'[k] = b \/ bucket'[k] = AfterRateCheck(b, Rpm, Tpm)
    BY <1>2 DEF StartThrottled, TypeOK
  <2>3. bucket'[k] = b \/ bucket'[k] = Roll(b)
    BY <2>2 DEF AfterRateCheck
  <2> QED
    BY <1>a, <2>1, <2>3, NoStart, BucketCounts
<1>3. CASE StartNow(r, m, cancelled)
  <2>1. Due(k)' = Due(k) \ {r}
    BY <1>3, <1>b, DueShrinks DEF StartNow, TypeOK
  <2>2. CASE k = BucketKey(m)
    <3>1. bucket'[k] = AfterRequest(b) /\ ~Exhausted(b, Rpm, Tpm)
      BY <1>3, <2>2, CountMaxAssumption DEF StartNow, Limited, TypeOK
    <3>2. Roll(b).count < Rpm /\ Roll(b).count \in Nat /\ Rpm # 0
      BY <1>a, <3>1, BucketRoom
    <3>3. bucket'[k].count <= Roll(b).count + 1
      BY <1>a, <3>1, BucketCounts
    <3>4. n \in Nat /\ N \in Nat /\ n <= N - 1
      <4>1. Due(k)' \subseteq Runs \ {r}
        BY <2>1 DEF Due
      <4> QED
        BY <4>1, AllButOne
    <3>5. bucket'[k].count + n <= L + N
      BY <1>a, <3>2, <3>3, <3>4
    <3> QED
      BY <3>5 DEF BucketBound
  <2>3. CASE k # BucketKey(m)
    <3>1. bucket'[k] = b
      BY <1>3, <2>3 DEF StartNow, TypeOK
    <3> QED
      BY <2>1, <3>1, NoStart
  <2> QED
    BY <2>2, <2>3
<1>4. CASE StartSlips(r, m, cancelled)
  <2> DEFINE j == BucketKey(m)
             checked == [bucket EXCEPT ![j] = AfterRateCheck(@, Rpm, Tpm)]
             rolled == NextMinute(checked)[k]
  <2>0. j \in Buckets
    BY ModelKeys
  <2>1. checked[k] \in Bucket
    BY <1>a, <2>0, BucketTypes DEF TypeOK
  <2>2. rolled \in Bucket /\ ~rolled.current
    BY <2>1, BucketTypes DEF NextMinute, Bucket
  <2>3. bucket'[k] = IF k = j THEN AfterRequest(rolled) ELSE rolled
    <3> DEFINE next == NextMinute(checked)
    <3>1. bucket' = [next EXCEPT ![j] = AfterRequest(next[j])]
      BY <1>4 DEF StartSlips
    <3>2. next = [i \in Buckets |-> next[i]]
      BY DEF NextMinute
    <3> HIDE DEF next
    <3>3. bucket'[k] = IF k = j THEN AfterRequest(next[k]) ELSE next[k]
      BY <2>0, <3>1, <3>2
    <3> QED
      BY <3>3 DEF next
  <2>4. CASE k # j
    <3>1. bucket'[k] = rolled
      BY <2>3, <2>4
    <3>2. ~bucket'[k].current
      BY <2>2, <3>1
    <3> QED
      BY <3>2 DEF BucketBound
  <2>5. CASE k = j
    <3>1. Roll(rolled).count = 0
      BY <2>2, BucketCounts
    <3>2. bucket'[k].count <= 1
      BY <2>2, <2>3, <2>5, <3>1, BucketCounts
    <3>3. n \in Nat /\ N \in Nat /\ n <= N - 1
      <4>1. Due(k)' \subseteq Runs \ {r}
        BY <1>4 DEF StartSlips, Due, TypeOK
      <4> QED
        BY <4>1, AllButOne
    <3>4. bucket'[k].count + n <= L + N
      BY <1>a, <1>c, <3>2, <3>3
    <3> QED
      BY <3>4 DEF BucketBound
  <2> QED
    BY <2>4, <2>5
<1> QED
  BY <1>1, <1>2, <1>3, <1>4

\* So does a run that was due and starts: it moves from one term to the other.
LEMMA WakeBound ==
    ASSUME TypeOK, TypeOK', Rpm \in Nat, NEW r \in Runs, Wake(r),
           NEW k \in Buckets, BucketBound(k)
    PROVE  BucketBound(k)'
<1> DEFINE b == bucket[k]
           d == bucket'[k].count
           c == Roll(b).count
           m == Cardinality(Due(k))
           n == Cardinality(Due(k)')
           N == Cardinality(Runs)
           L == IF Rpm = 0 THEN 0 ELSE Rpm - 1
<1>a. b \in Bucket /\ bucket'[k] \in Bucket /\ d \in Nat
  BY DEF TypeOK, Bucket
<1>1. Due(k)' = Due(k) \ {r}
  BY DueShrinks DEF Wake, TypeOK
<1>2. CASE k = BucketKey(model[r])
  <2>1. bucket'[k] = AfterRequest(b)
    BY <1>2 DEF Wake, TypeOK
  <2>2. Roll(b) \in Bucket /\ c \in Nat
    <3>1. Roll(b) \in Bucket
      BY <1>a, BucketTypes
    <3> QED
      BY <3>1, CountMaxAssumption DEF Bucket
  <2>3. d <= c + 1
    BY <1>a, <2>1, BucketCounts
  <2>4. r \in Due(k)
    BY <1>2 DEF Wake, Due
  <2>5. n = m - 1 /\ m \in Nat /\ N \in Nat /\ m <= N
    BY <1>1, <2>4, DueBound, FS_RemoveElement
  <2>6. L \in Nat
    OBVIOUS
  <2>7. c + m <= L + N
    <3>1. CASE b.current
      BY <1>a, <3>1, BucketCounts DEF BucketBound
    <3>2. CASE ~b.current
      <4>1. c = 0
        BY <1>a, <3>2, BucketCounts
      <4> QED
        BY <2>5, <2>6, <4>1
    <3> QED
      BY <3>1, <3>2
  <2>8. d + n <= L + N
    BY <1>a, <2>2, <2>3, <2>5, <2>6, <2>7
  <2> QED
    BY <2>8 DEF BucketBound
<1>3. CASE k # BucketKey(model[r])
  <2>1. bucket'[k] = b
    BY <1>3 DEF Wake, TypeOK
  <2> QED
    BY <1>1, <2>1, NoStart
<1> QED
  BY <1>2, <1>3

\* And the rest of a call, which makes no run due and records tokens only.
LEMMA CallBound ==
    ASSUME TypeOK, TypeOK', Rpm \in Nat, NEW r \in Runs,
           AdapterEnds(r) \/ Return(r) \/ ThrowsAfter(r) \/ Abandon(r) \/ Cancel(r),
           NEW k \in Buckets, BucketBound(k)
    PROVE  BucketBound(k)'
<1> DEFINE b == bucket[k]
<1>a. b \in Bucket
  BY DEF TypeOK
<1>1. ASSUME NEW cancelled \in BOOLEAN, NEW cost \in Costs, AdapterDone(r, cancelled, cost)
      PROVE  BucketBound(k)'
  <2>1. Due(k)' = Due(k) \ {r}
    BY <1>1, DueShrinks DEF AdapterDone, SayAndGo, TypeOK
  <2>2. bucket'[k] = b \/ bucket'[k] = AfterTokens(b, cost)
    BY <1>1 DEF AdapterDone, TypeOK
  <2>3. cost \in Nat
    BY SessionRunAssumption
  <2>4. bucket'[k].current =>
            (b.current /\ bucket'[k].count = b.count) \/ bucket'[k].count = 0
    <3>1. CASE bucket'[k] = b
      BY <3>1
    <3>2. CASE bucket'[k] = AfterTokens(b, cost) /\ b.current
      <4>1. Roll(b) = b
        BY <1>a, <3>2, BucketCounts
      <4> QED
        BY <1>a, <2>3, <3>2, <4>1, BucketCounts
    <3>3. CASE bucket'[k] = AfterTokens(b, cost) /\ ~b.current
      <4>1. Roll(b).count = 0
        BY <1>a, <3>3, BucketCounts
      <4> QED
        BY <1>a, <2>3, <3>3, <4>1, BucketCounts
    <3> QED
      BY <1>a, <2>2, <3>1, <3>2, <3>3 DEF Bucket
  <2> QED
    BY <2>1, <2>4, NoStart
<1>2. ASSUME NEW authInvalid \in BOOLEAN, NEW retryable \in BOOLEAN,
             AdapterError(r, authInvalid, retryable)
      PROVE  BucketBound(k)'
  <2>1. Due(k)' = Due(k) \ {r} /\ bucket'[k] = b
    BY <1>2, DueShrinks DEF AdapterError, SayAndGo, TypeOK
  <2> QED
    BY <2>1, NoStart
<1>3. CASE AdapterFails(r) \/ Return(r) \/ ThrowsAfter(r)
  <2>1. Due(k)' = Due(k) \ {r} /\ bucket'[k] = b
    BY <1>3, DueShrinks DEF AdapterFails, Return, ThrowsAfter, SayAndGo, TypeOK
  <2> QED
    BY <2>1, NoStart
<1>4. CASE Abandon(r)
  <2>1. Due(k)' = Due(k) \ {r} /\ bucket'[k] = b
    BY <1>4, DueShrinks DEF Abandon, TypeOK
  <2> QED
    BY <2>1, NoStart
<1>5. CASE Cancel(r)
  <2>1. Due(k)' = Due(k) /\ bucket'[k] = b
    BY <1>5 DEF Cancel, Due
  <2> QED
    BY <2>1, NoStart
<1> QED
  BY <1>1, <1>2, <1>3, <1>4, <1>5 DEF AdapterEnds

\* The bound is inductive, given the types.
LEMMA BoundStep == TypeOK /\ TypeOK' /\ ThrottleBound /\ [Next]_vars => ThrottleBound'
<1> SUFFICES ASSUME TypeOK, TypeOK', Rpm \in Nat, [Next]_vars,
                    NEW k \in Buckets, BucketBound(k)
             PROVE  BucketBound(k)'
  BY DEF ThrottleBound, BucketBound
<1>1. ASSUME NEW r \in Runs, Start(r) PROVE BucketBound(k)'
  BY <1>1, StartBound DEF Start
<1>2. ASSUME NEW r \in Runs, Wake(r) PROVE BucketBound(k)'
  BY <1>2, WakeBound
<1>3. ASSUME NEW r \in Runs, AdapterEnds(r) \/ Return(r) \/ ThrowsAfter(r) \/ Abandon(r) \/ Cancel(r)
      PROVE  BucketBound(k)'
  BY <1>3, CallBound
<1>4. ASSUME NEW newMinute \in BOOLEAN, Tick(newMinute) PROVE BucketBound(k)'
  <2>1. CASE newMinute
    <3>1. ~bucket'[k].current
      BY <1>4, <2>1 DEF Tick, NextMinute, TypeOK, Bucket
    <3> QED
      BY <3>1 DEF BucketBound
  <2>2. CASE ~newMinute
    <3>1. Due(k)' = Due(k) /\ bucket'[k] = bucket[k]
      BY <1>4, <2>2 DEF Tick, Due
    <3> QED
      BY <3>1, NoStart
  <2> QED
    BY <2>1, <2>2
<1>5. CASE UNCHANGED vars
  <2>1. Due(k)' = Due(k) /\ bucket'[k] = bucket[k]
    BY <1>5 DEF vars, Due
  <2> QED
    BY <2>1, NoStart
<1> QED
  BY <1>1, <1>2, <1>3, <1>4, <1>5 DEF Next

\* At the start no bucket is of the current minute.
LEMMA BoundInit == Init => ThrottleBound
  BY CountMaxAssumption DEF Init, ThrottleBound, EmptyBucket

\* However many calls sleep through a minute and wake in the next, a minute
\* starts at most rpm - 1 calls (none for a killswitch) plus one per run.
THEOREM OverrunBounded == Spec => []ThrottleBound
<1>1. TypeOK /\ ThrottleBound /\ TypeOK' /\ [Next]_vars => ThrottleBound'
  BY BoundStep
<1> QED
  BY <1>1, BoundInit, TypeCorrect, PTL DEF Spec
=============================================================================
