-------------------------- MODULE SessionPoolProofs --------------------------
(***************************************************************************)
(* Theorems about SessionPool, for every pool size, every set of clients   *)
(* and every bound.                                                        *)
(***************************************************************************)
EXTENDS SessionPool, FiniteSetTheorems, FunctionTheorems, SequenceTheorems, TLAPS

\* A handler owns a session exactly while it is past the receive.
HolderOK ==
    \A c \in Calls : hold[c] = NoSlot <=> pc[c] \in {"idle", "queued"}

USE SlotsAssumption, CallsAssumption, BoundsAssumption

-----------------------------------------------------------------------------
(* The pool's size and its channel.                                        *)

\* The size is a positive number.
LEMMA SizeType == Size \in Nat
  BY FS_CardinalityType DEF Size

\* A channel that carries each of its sessions once and none outside the
\* slots it is allowed has at most as many entries as there are such slots.
LEMMA ChannelBound ==
    ASSUME NEW S \in SUBSET Slots, NEW q \in Seq(Slots),
           \A i \in DOMAIN q : q[i] \in S,
           \A i, j \in DOMAIN q : q[i] = q[j] => i = j
    PROVE  Len(q) <= Cardinality(S)
<1>1. q \in [1..Len(q) -> S] /\ Len(q) \in Nat
  BY LenProperties
<1>2. q \in Injection(1..Len(q), S)
  BY <1>1, Fun_IsInj
<1>3. IsFiniteSet(S)
  BY FS_Subset
<1>4. Cardinality(1..Len(q)) <= Cardinality(S)
  BY <1>2, <1>3, FS_Injection
<1>5. Cardinality(1..Len(q)) = Len(q)
  <2>1. ASSUME NEW n \in Nat PROVE Cardinality(1..n) = n
    <3>1. 1 \in Int /\ n \in Int
      OBVIOUS
    <3>2. Cardinality(1..n) = IF 1 > n THEN 0 ELSE n - 1 + 1
      BY ONLY <3>1, FS_Interval, Zenon
    <3> QED
      BY <3>2
  <2> QED
    BY <1>1, <2>1
<1> QED
  BY <1>4, <1>5

\* A session that is not in the channel finds room in it: the try_send of
\* release, of the drain task and of the spawn task cannot fail.
LEMMA RoomInChannel ==
    ASSUME NEW q \in Seq(Slots), NEW s \in Slots,
           \A i \in DOMAIN q : q[i] # s,
           \A i, j \in DOMAIN q : q[i] = q[j] => i = j
    PROVE  Len(q) < Size
<1>1. \A i \in DOMAIN q : q[i] \in Slots \ {s}
  BY LenProperties
<1>2. Len(q) <= Cardinality(Slots \ {s})
  BY <1>1, ChannelBound
<1>3. Cardinality(Slots \ {s}) = Size - 1
  BY FS_RemoveElement DEF Size
<1> QED
  BY <1>2, <1>3, SizeType, LenProperties

-----------------------------------------------------------------------------
(* Type correctness.                                                       *)

TInv == TypeOK /\ HolderOK

\* Retagging, reseeding or killing one session keeps every session typed.
LEMMA SessionUpdate ==
    ASSUME ProcessTypes, NEW s \in Slots, NEW v \in Nat, NEW d \in Nat,
           \/ sess' = [sess EXCEPT ![s].ver = v, ![s].data = d]
           \/ sess' = [sess EXCEPT ![s].ver = v]
           \/ sess' = [sess EXCEPT ![s].up = FALSE]
    PROVE  sess' \in [Slots -> [ver : Nat, data : Nat, up : BOOLEAN]]
<1>1. CASE sess' = [sess EXCEPT ![s].ver = v, ![s].data = d]
  BY <1>1, ZenonT(60) DEF ProcessTypes
<1>2. CASE sess' = [sess EXCEPT ![s].ver = v]
  BY <1>2 DEF ProcessTypes
<1>3. CASE sess' = [sess EXCEPT ![s].up = FALSE]
  BY <1>3 DEF ProcessTypes
<1> QED
  BY <1>1, <1>2, <1>3

\* A waiter that leaves the queue leaves a queue of calls.
LEMMA RemoveIndexType ==
    ASSUME NEW q \in Seq(Calls), NEW i \in DOMAIN q
    PROVE  RemoveIndex(q, i) \in Seq(Calls)
<1>1. Len(q) \in Nat /\ i \in 1..Len(q) /\ \A j \in 1..Len(q) : q[j] \in Calls
  BY LenProperties
<1>2. SubSeq(q, 1, i - 1) \in Seq(Calls)
  BY <1>1, SubSeqProperties
<1>3. SubSeq(q, i + 1, Len(q)) \in Seq(Calls)
  BY <1>1, SubSeqProperties
<1> QED
  BY <1>2, <1>3, ConcatProperties DEF RemoveIndex

\* Types hold at the start.
LEMMA TypeInit == Init => TInv
<1> SUFFICES ASSUME Init PROVE TypeOK /\ HolderOK
  BY DEF TInv
<1> USE DEF Init, TypeOK, PoolTypes, HandlerTypes, ProcessTypes, CatalogTypes,
            CounterTypes, HolderOK
<1>1. PoolTypes
  BY SizeType
<1>2. HandlerTypes
  BY EmptySeq
<1>3. sess \in [Slots -> [ver : Nat, data : Nat, up : BOOLEAN]]
  <2> SUFFICES ASSUME NEW s \in Slots
               PROVE  sess[s] \in [ver : Nat, data : Nat, up : BOOLEAN]
    OBVIOUS
  <2>1. sess[s] \in [ver : {0}, data : 0..source, up : {TRUE}]
    OBVIOUS
  <2>2. 0 \in Nat /\ TRUE \in BOOLEAN /\ 0..source \subseteq Nat
    OBVIOUS
  <2> QED
    BY ONLY <2>1, <2>2, Zenon
<1>4. task \in [Slots -> [pc : {"none", "queued", "booting", "ready", "backoff"},
                         seed : Nat]]
  OBVIOUS
<1>5. CatalogTypes
  OBVIOUS
<1>6. CounterTypes /\ HolderOK
  BY SizeType
<1> QED
  BY <1>1, <1>2, <1>3, <1>4, <1>5, <1>6

\* Giving a session back and discarding one, the two ways a handler ends.
LEMMA ReleaseTypes ==
    ASSUME TInv, NEW c \in Calls, hold[c] # NoSlot, Release(c)
    PROVE  TypeOK' /\ HolderOK'
<1> USE DEF TInv, TypeOK, PoolTypes, HandlerTypes, ProcessTypes, CatalogTypes,
            CounterTypes, HolderOK
<1>1. PoolTypes'
  BY DEF Release, TrySend, handlerVars, catalogVars, gauges
<1>2. HandlerTypes'
  BY DEF Release, TrySend, handlerVars, catalogVars, gauges
<1>3. CounterTypes'
  BY DEF Release, TrySend, handlerVars, catalogVars, gauges
<1>4. HolderOK'
  BY DEF Release, TrySend, handlerVars, catalogVars, gauges
<1>5. ProcessTypes' /\ CatalogTypes'
  BY DEF Release, TrySend, handlerVars, catalogVars, gauges
<1> QED
  BY <1>1, <1>2, <1>3, <1>4, <1>5

\* A discard starts a drain task and keeps the types.
LEMMA DiscardTypes ==
    ASSUME TInv, NEW c \in Calls, hold[c] # NoSlot, Discard(c)
    PROVE  TypeOK' /\ HolderOK'
<1> USE DEF TInv, TypeOK, PoolTypes, HandlerTypes, ProcessTypes, CatalogTypes,
            CounterTypes, HolderOK
<1>1. HandlerTypes'
  BY DEF Discard, SpawnReplacement, handlerVars, catalogVars, gauges
<1>2. ProcessTypes'
  BY DEF Discard, SpawnReplacement, handlerVars, catalogVars, gauges
<1>3. CounterTypes'
  BY DEF Discard, SpawnReplacement, handlerVars, catalogVars, gauges
<1>4. HolderOK'
  BY DEF Discard, SpawnReplacement, handlerVars, catalogVars, gauges
<1>5. PoolTypes' /\ CatalogTypes'
  BY DEF Discard, SpawnReplacement, handlerVars, catalogVars, gauges
<1> QED
  BY <1>1, <1>2, <1>3, <1>4, <1>5

\* Every step keeps the types.
LEMMA TypeStep == TInv /\ [Next]_vars => TInv'
<1> SUFFICES ASSUME TInv, [Next]_vars
             PROVE  TypeOK' /\ HolderOK'
  BY DEF TInv
<1> USE DEF TInv, TypeOK, PoolTypes, HandlerTypes, ProcessTypes, CatalogTypes,
            CounterTypes, HolderOK
<1>1. CASE Publish
  BY <1>1 DEF Publish, handlerVars, gauges
<1>2. CASE NotifyCatalogChanged
  BY <1>2, SMTT(30) DEF NotifyCatalogChanged, handlerVars, gauges
<1>3. ASSUME NEW c \in Calls, CallStep(c)
      PROVE  TypeOK' /\ HolderOK'
  <2>1. CASE Enqueue(c)
    <3>1. HandlerTypes'
      BY <2>1 DEF Enqueue, handlerVars, catalogVars, gauges
    <3>2. HolderOK'
      BY <2>1 DEF Enqueue, handlerVars, catalogVars, gauges
    <3>3. PoolTypes' /\ ProcessTypes' /\ CatalogTypes' /\ CounterTypes'
      BY <2>1 DEF Enqueue, handlerVars, catalogVars, gauges
    <3> QED
      BY <3>1, <3>2, <3>3
  <2>2. CASE Receive(c)
    <3>1. /\ Head(chan) \in Slots
          /\ Tail(chan) \in Seq(Slots)
          /\ Tail(waiters) \in Seq(Calls)
      BY <2>2, HeadTailProperties DEF Receive
    <3>2. PICK to \in {"writing", "refreshing"} :
             pc' = [pc EXCEPT ![c] = to]
      BY <2>2 DEF Receive
    <3>3. PoolTypes'
      BY <2>2, <3>1 DEF Receive
    <3>4. HandlerTypes'
      BY <2>2, <3>1, <3>2 DEF Receive
    <3>5. CounterTypes'
      BY <2>2 DEF Receive
    <3>6. HolderOK'
      BY <2>2, <3>1, <3>2 DEF Receive
    <3>7. ProcessTypes' /\ CatalogTypes'
      BY <2>2 DEF Receive, catalogVars
    <3> QED
      BY <3>3, <3>4, <3>5, <3>6, <3>7
  <2>3. CASE Refresh(c)
    <3>1. HandlerTypes'
      BY <2>3 DEF Refresh
    <3>2. ProcessTypes'
      <4>1. PICK v \in Nat, d \in Nat :
               \/ sess' = [sess EXCEPT ![hold[c]].ver = v, ![hold[c]].data = d]
               \/ sess' = [sess EXCEPT ![hold[c]].ver = v]
        BY <2>3 DEF Refresh
      <4>2. hold[c] \in Slots
        BY <2>3 DEF Refresh
      <4>3. sess' \in [Slots -> [ver : Nat, data : Nat, up : BOOLEAN]]
        BY <4>1, <4>2, SessionUpdate
      <4> QED
        BY <2>3, <4>3 DEF Refresh
    <3>3. CounterTypes'
      BY <2>3 DEF Refresh
    <3>4. HolderOK'
      BY <2>3 DEF Refresh
    <3>5. PoolTypes' /\ CatalogTypes'
      BY <2>3 DEF Refresh, catalogVars
    <3> QED
      BY <3>1, <3>2, <3>3, <3>4, <3>5
  <2>4. CASE RefreshFails(c)
    <3>1. HandlerTypes'
      BY <2>4 DEF RefreshFails, SpawnReplacement, handlerVars, catalogVars, gauges
    <3>2. ProcessTypes'
      BY <2>4 DEF RefreshFails, SpawnReplacement, handlerVars, catalogVars, gauges
    <3>3. CounterTypes'
      BY <2>4 DEF RefreshFails, SpawnReplacement, handlerVars, catalogVars, gauges
    <3>4. HolderOK'
      BY <2>4 DEF RefreshFails, SpawnReplacement, handlerVars, catalogVars, gauges
    <3>5. PoolTypes' /\ CatalogTypes'
      BY <2>4 DEF RefreshFails, SpawnReplacement, handlerVars, catalogVars, gauges
    <3> QED
      BY <3>1, <3>2, <3>3, <3>4, <3>5
  <2>5. CASE WriteEnvelope(c)
    <3>1. HandlerTypes'
      BY <2>5 DEF WriteEnvelope, handlerVars, catalogVars, gauges
    <3>2. HolderOK'
      BY <2>5 DEF WriteEnvelope, handlerVars, catalogVars, gauges
    <3>3. PoolTypes' /\ ProcessTypes' /\ CatalogTypes' /\ CounterTypes'
      BY <2>5 DEF WriteEnvelope, handlerVars, catalogVars, gauges
    <3> QED
      BY <3>1, <3>2, <3>3
  <2>6. CASE WriteFails(c)
    BY <2>6, DiscardTypes DEF WriteFails
  <2>7. CASE StreamTerminal(c)
    BY <2>7, ReleaseTypes DEF StreamTerminal
  <2>8. CASE StreamBreaks(c)
    BY <2>8, DiscardTypes DEF StreamBreaks
  <2>9. CASE OneShotAnswer(c)
    BY <2>9, ReleaseTypes DEF OneShotAnswer
  <2>10. CASE OneShotBreaks(c)
    BY <2>10, DiscardTypes DEF OneShotBreaks
  <2>11. CASE DropBody(c)
    <3>1. PoolTypes'
      BY <2>11 DEF DropBody, handlerVars, catalogVars, gauges
    <3>2. HandlerTypes'
      BY <2>11 DEF DropBody, handlerVars, catalogVars, gauges
    <3>3. HolderOK'
      BY <2>11 DEF DropBody, handlerVars, catalogVars, gauges
    <3>4. ProcessTypes' /\ CatalogTypes' /\ CounterTypes'
      BY <2>11 DEF DropBody, handlerVars, catalogVars, gauges
    <3> QED
      BY <3>1, <3>2, <3>3, <3>4
  <2>12. CASE DropWaiting(c)
    <3>1. HandlerTypes'
      BY <2>12, RemoveIndexType DEF DropWaiting
    <3>2. HolderOK'
      BY <2>12 DEF DropWaiting, handlerVars, catalogVars, gauges
    <3>3. PoolTypes' /\ ProcessTypes' /\ CatalogTypes' /\ CounterTypes'
      BY <2>12 DEF DropWaiting, handlerVars, catalogVars, gauges
    <3> QED
      BY <3>1, <3>2, <3>3
  <2>13. CASE DropHandler(c)
    <3>1. PoolTypes'
      BY <2>13 DEF DropHandler, handlerVars, catalogVars, gauges
    <3>2. HandlerTypes'
      BY <2>13 DEF DropHandler, handlerVars, catalogVars, gauges
    <3>3. ProcessTypes'
      BY <2>13, ZenonT(60) DEF DropHandler, handlerVars, catalogVars, gauges
    <3>4. HolderOK'
      BY <2>13 DEF DropHandler, handlerVars, catalogVars, gauges
    <3>5. CatalogTypes' /\ CounterTypes'
      BY <2>13 DEF DropHandler, handlerVars, catalogVars, gauges
    <3> QED
      BY <3>1, <3>2, <3>3, <3>4, <3>5
  <2> QED
    BY <1>3, <2>1, <2>2, <2>3, <2>4, <2>5, <2>6, <2>7, <2>8, <2>9, <2>10, <2>11, <2>12, <2>13 DEF CallStep
<1>4. ASSUME NEW s \in Slots, SlotStep(s)
      PROVE  TypeOK' /\ HolderOK'
  <2>1. CASE SessionDies(s)
    <3>1. ProcessTypes'
      BY <2>1, 0 \in Nat, SessionUpdate DEF SessionDies
    <3>2. PoolTypes' /\ HandlerTypes' /\ CatalogTypes' /\ CounterTypes' /\ HolderOK'
      BY <2>1 DEF SessionDies, handlerVars, catalogVars, gauges
    <3> QED
      BY <3>1, <3>2
  <2>2. CASE DrainDone(s)
    <3>1. PoolTypes'
      BY <2>2 DEF DrainDone, TrySend, handlerVars, catalogVars, gauges
    <3>2. CounterTypes'
      BY <2>2 DEF DrainDone, TrySend, handlerVars, catalogVars, gauges
    <3>3. HandlerTypes' /\ ProcessTypes' /\ CatalogTypes' /\ HolderOK'
      BY <2>2 DEF DrainDone, TrySend, handlerVars, catalogVars, gauges
    <3> QED
      BY <3>1, <3>2, <3>3
  <2>3. CASE DrainFails(s)
    <3>1. PoolTypes'
      BY <2>3 DEF DrainFails, SpawnReplacement, handlerVars, catalogVars, gauges
    <3>2. ProcessTypes'
      BY <2>3 DEF DrainFails, SpawnReplacement, handlerVars, catalogVars, gauges
    <3>3. CounterTypes'
      BY <2>3 DEF DrainFails, SpawnReplacement, handlerVars, catalogVars, gauges
    <3>4. HandlerTypes' /\ CatalogTypes' /\ HolderOK'
      BY <2>3 DEF DrainFails, SpawnReplacement, handlerVars, catalogVars, gauges
    <3> QED
      BY <3>1, <3>2, <3>3, <3>4
  <2>4. CASE SpawnBegin(s)
    <3>1. ProcessTypes'
      BY <2>4 DEF SpawnBegin, Fresh, handlerVars, catalogVars, gauges
    <3>2. PoolTypes' /\ HandlerTypes' /\ CatalogTypes' /\ CounterTypes' /\ HolderOK'
      BY <2>4 DEF SpawnBegin, Fresh, handlerVars, catalogVars, gauges
    <3> QED
      BY <3>1, <3>2
  <2>5. CASE SpawnSeed(s)
    <3>1. PICK v \in Nat : v = IF source = 0 THEN 0 ELSE task[s].seed
      OBVIOUS
    <3>2. sess' = [sess EXCEPT ![s].ver = v, ![s].data = source]
      BY <2>5, <3>1 DEF SpawnSeed
    <3>3. sess' \in [Slots -> [ver : Nat, data : Nat, up : BOOLEAN]]
      BY <3>1, <3>2, SessionUpdate
    <3>4. task' \in [Slots -> [pc : {"none", "queued", "booting", "ready", "backoff"},
                               seed : Nat]]
      BY <2>5, SMTT(30) DEF SpawnSeed
    <3>5. PoolTypes' /\ HandlerTypes' /\ CatalogTypes' /\ CounterTypes' /\ HolderOK'
      BY <2>5 DEF SpawnSeed, handlerVars, catalogVars, gauges
    <3> QED
      BY <3>3, <3>4, <3>5
  <2>6. CASE SpawnEnqueue(s)
    <3>1. PoolTypes'
      BY <2>6 DEF SpawnEnqueue, TrySend, handlerVars, catalogVars, gauges
    <3>2. ProcessTypes'
      BY <2>6 DEF SpawnEnqueue, TrySend, handlerVars, catalogVars, gauges
    <3>3. CounterTypes'
      BY <2>6 DEF SpawnEnqueue, TrySend, handlerVars, catalogVars, gauges
    <3>4. HandlerTypes' /\ CatalogTypes' /\ HolderOK'
      BY <2>6 DEF SpawnEnqueue, TrySend, handlerVars, catalogVars, gauges
    <3> QED
      BY <3>1, <3>2, <3>3, <3>4
  <2>7. CASE SpawnFails(s)
    <3>1. ProcessTypes'
      BY <2>7, ZenonT(60) DEF SpawnFails, handlerVars, catalogVars, gauges
    <3>2. CounterTypes'
      BY <2>7, SMTT(30) DEF SpawnFails, handlerVars, catalogVars, gauges
    <3>3. PoolTypes' /\ HandlerTypes' /\ CatalogTypes' /\ HolderOK'
      BY <2>7 DEF SpawnFails, handlerVars, catalogVars, gauges
    <3> QED
      BY <3>1, <3>2, <3>3
  <2> QED
    BY <1>4, <2>1, <2>2, <2>3, <2>4, <2>5, <2>6, <2>7 DEF SlotStep
<1>5. CASE UNCHANGED vars
  BY <1>5 DEF vars, handlerVars, catalogVars, gauges
<1> QED
  BY <1>1, <1>2, <1>3, <1>4, <1>5 DEF Next

\* Every variable keeps its type; the invariant says as well that a handler owns a
\* session exactly between its receive and its release, discard or drop.
THEOREM TypeCorrect == Spec => []TypeOK
<1>1. Init => TInv
  BY TypeInit
<1>2. TInv /\ [Next]_vars => TInv'
  BY TypeStep
<1> QED
  BY <1>1, <1>2, PTL DEF Spec, TInv

-----------------------------------------------------------------------------
(* Conservation of capacity.  Each action moves at most one slot from one  *)
(* of the five places to another; the lemmas say how each primitive move   *)
(* changes the places.                                                     *)

CInv == TInv /\ Conservation

\* recv takes the head of the channel and nothing else.
LEMMA ChanReceive ==
    ASSUME PoolTypes, ChanDistinct, chan # <<>>, chan' = Tail(chan)
    PROVE  /\ Head(chan) \in ChanSet
           /\ ChanSet' = ChanSet \ {Head(chan)}
           /\ ChanDistinct'
<1>1. /\ chan \in Seq(Slots) /\ Len(chan) \in Nat /\ Len(chan) >= 1
      /\ DOMAIN chan = 1..Len(chan)
      /\ Head(chan) = chan[1]
  BY LenProperties, EmptySeq DEF PoolTypes
<1>2. /\ DOMAIN chan' = 1..(Len(chan) - 1)
      /\ \A i \in 1..(Len(chan) - 1) : chan'[i] = chan[i + 1]
  BY <1>1, HeadTailProperties
<1>3. Head(chan) \in ChanSet
  BY <1>1 DEF ChanSet
<1>4. ChanDistinct'
  BY <1>1, <1>2 DEF ChanDistinct
<1>5. ASSUME NEW x \in ChanSet' PROVE x \in ChanSet /\ x # Head(chan)
  <2>1. PICK i \in 1..(Len(chan) - 1) : x = chan[i + 1]
    BY <1>2, <1>5 DEF ChanSet
  <2>2. i + 1 \in DOMAIN chan /\ 1 \in DOMAIN chan /\ i + 1 # 1
    BY <1>1
  <2> QED
    BY <1>1, <2>1, <2>2 DEF ChanSet, ChanDistinct
<1>6. ASSUME NEW x \in ChanSet, x # Head(chan) PROVE x \in ChanSet'
  <2>1. PICK i \in 1..Len(chan) : x = chan[i]
    BY <1>1 DEF ChanSet
  <2>2. i - 1 \in 1..(Len(chan) - 1) /\ (i - 1) + 1 = i
    BY <1>1, <1>6, <2>1
  <2>3. chan'[i - 1] = x
    BY <1>2, <2>1, <2>2
  <2> QED
    BY <1>2, <2>2, <2>3 DEF ChanSet
<1> QED
  BY <1>3, <1>4, <1>5, <1>6

\* try_send of a session that is not in the channel always succeeds.
LEMMA ChanSend ==
    ASSUME PoolTypes, ChanDistinct, NEW s \in Slots, s \notin ChanSet,
           chan' = TrySend(chan, s)
    PROVE  /\ ChanSet' = ChanSet \cup {s}
           /\ ChanDistinct'
           /\ Len(chan) < Size
<1>1. chan \in Seq(Slots) /\ Len(chan) \in Nat /\ DOMAIN chan = 1..Len(chan)
  BY LenProperties DEF PoolTypes
<1>2. Len(chan) < Size
  BY <1>1, RoomInChannel DEF ChanSet, ChanDistinct
<1>3. chan' = Append(chan, s)
  BY <1>2 DEF TrySend
<1>4. /\ DOMAIN chan' = 1..(Len(chan) + 1)
      /\ \A i \in 1..Len(chan) : chan'[i] = chan[i]
      /\ chan'[Len(chan) + 1] = s
  BY <1>1, <1>3, AppendProperties, LenProperties
<1>5. ChanSet' = ChanSet \cup {s}
  <2>1. ASSUME NEW x \in ChanSet' PROVE x \in ChanSet \cup {s}
    <3>1. PICK i \in 1..(Len(chan) + 1) : x = chan'[i]
      BY <1>4 DEF ChanSet
    <3>2. CASE i = Len(chan) + 1
      BY <1>4, <3>1, <3>2
    <3>3. CASE i \in 1..Len(chan)
      BY <1>1, <1>4, <3>1, <3>3 DEF ChanSet
    <3> QED
      BY <1>1, <3>2, <3>3
  <2>2. ASSUME NEW x \in ChanSet PROVE x \in ChanSet'
    <3>1. PICK i \in 1..Len(chan) : x = chan[i]
      BY <1>1 DEF ChanSet
    <3>2. i \in DOMAIN chan' /\ chan'[i] = x
      BY <1>1, <1>4, <3>1
    <3> QED
      BY <3>2 DEF ChanSet
  <2>3. s \in ChanSet'
    <3>1. Len(chan) + 1 \in DOMAIN chan'
      BY <1>1, <1>4
    <3> QED
      BY <1>4, <3>1 DEF ChanSet
  <2> QED
    BY <2>1, <2>2, <2>3
<1>6. ChanDistinct'
  <2> SUFFICES ASSUME NEW i \in 1..(Len(chan) + 1), NEW j \in 1..(Len(chan) + 1),
                      chan'[i] = chan'[j]
               PROVE  i = j
    BY <1>4 DEF ChanDistinct
  <2>1. \A k \in 1..Len(chan) : chan[k] # s
    BY <1>1 DEF ChanSet
  <2>2. CASE i \in 1..Len(chan) /\ j \in 1..Len(chan)
    BY <1>1, <1>4, <2>2 DEF ChanDistinct
  <2>3. CASE i = Len(chan) + 1 \/ j = Len(chan) + 1
    BY <1>1, <1>4, <2>1, <2>3
  <2> QED
    BY <1>1, <2>2, <2>3
<1> QED
  BY <1>2, <1>5, <1>6

\* A handler takes the session it received.
LEMMA HoldTake ==
    ASSUME HandlerTypes, HoldDistinct, NEW c \in Calls, NEW s \in Slots,
           hold[c] = NoSlot, s \notin HeldSet,
           hold' = [hold EXCEPT ![c] = s]
    PROVE  HeldSet' = HeldSet \cup {s} /\ HoldDistinct'
<1>1. \A d \in Calls : hold'[d] = IF d = c THEN s ELSE hold[d]
  BY DEF HandlerTypes
<1>2. HeldSet' = HeldSet \cup {s}
  BY <1>1 DEF HeldSet, Owning
<1>3. HoldDistinct'
  BY <1>1 DEF HoldDistinct, HeldSet, Owning
<1> QED
  BY <1>2, <1>3

\* A handler gives its session up.
LEMMA HoldDrop ==
    ASSUME HandlerTypes, HoldDistinct, NEW c \in Calls, hold[c] # NoSlot,
           hold' = [hold EXCEPT ![c] = NoSlot]
    PROVE  /\ hold[c] \in HeldSet /\ hold[c] \in Slots
           /\ HeldSet' = HeldSet \ {hold[c]}
           /\ HoldDistinct'
<1>1. \A d \in Calls : hold'[d] = IF d = c THEN NoSlot ELSE hold[d]
  BY DEF HandlerTypes
<1>2. hold[c] \in HeldSet /\ hold[c] \in Slots
  BY DEF HeldSet, Owning, HandlerTypes
<1>3. HeldSet' = HeldSet \ {hold[c]}
  BY <1>1 DEF HeldSet, Owning, HoldDistinct
<1>4. HoldDistinct'
  BY <1>1 DEF HoldDistinct, Owning
<1> QED
  BY <1>2, <1>3, <1>4
\* A slot's spawn task starts, goes on, or ends.
LEMMA TaskStarts ==
    ASSUME ProcessTypes, NEW s \in Slots, SpawnReplacement(s)
    PROVE  Spawning' = Spawning \cup {s}
<1>1. \A t \in Slots : task'[t].pc = IF t = s THEN "queued" ELSE task[t].pc
  BY DEF SpawnReplacement, ProcessTypes
<1> QED
  BY <1>1 DEF Spawning

\* A spawn task that goes on is still one.
LEMMA TaskGoesOn ==
    ASSUME ProcessTypes, NEW s \in Spawning, NEW to, to # "none",
           \A t \in Slots : task'[t].pc = IF t = s THEN to ELSE task[t].pc
    PROVE  Spawning' = Spawning
  BY DEF Spawning

\* A spawn task that ends is none any more.
LEMMA TaskEnds ==
    ASSUME ProcessTypes, NEW s \in Slots,
           task' = [task EXCEPT ![s] = [pc |-> "none", seed |-> 0]]
    PROVE  Spawning' = Spawning \ {s}
<1>1. \A t \in Slots : task'[t].pc = IF t = s THEN "none" ELSE task[t].pc
  BY DEF ProcessTypes
<1> QED
  BY <1>1 DEF Spawning

\* A step that leaves the five places alone.
LEMMA PlacesUnchanged ==
    ASSUME Conservation, UNCHANGED <<chan, hold, draining, abandoned>>,
           Spawning' = Spawning
    PROVE  Conservation'
<1>1. ChanSet' = ChanSet /\ HeldSet' = HeldSet
  BY DEF ChanSet, HeldSet, Owning
<1>2. ChanDistinct' /\ HoldDistinct'
  BY DEF Conservation, ChanDistinct, HoldDistinct, Owning
<1> QED
  BY <1>1, <1>2 DEF Conservation, Partition

\* release moves the handler's session into the channel.
LEMMA ReleaseConserves ==
    ASSUME CInv, NEW c \in Calls, hold[c] # NoSlot, Release(c)
    PROVE  Conservation'
<1>1. /\ hold[c] \in HeldSet /\ hold[c] \in Slots
      /\ HeldSet' = HeldSet \ {hold[c]}
      /\ HoldDistinct'
  BY HoldDrop DEF CInv, TInv, TypeOK, Conservation, Release
<1>2. hold[c] \notin ChanSet
  BY <1>1 DEF CInv, Conservation, Partition
<1>3. ChanSet' = ChanSet \cup {hold[c]} /\ ChanDistinct'
  BY <1>1, <1>2, ChanSend DEF CInv, TInv, TypeOK, Conservation, Release
<1>4. Spawning' = Spawning /\ draining' = draining /\ abandoned' = abandoned
  BY DEF Release, Spawning
<1> QED
  BY <1>1, <1>3, <1>4 DEF CInv, Conservation, Partition

\* discard moves it to a spawn task.
LEMMA DiscardConserves ==
    ASSUME CInv, NEW c \in Calls, hold[c] # NoSlot,
           SpawnReplacement(hold[c]),
           hold' = [hold EXCEPT ![c] = NoSlot],
           UNCHANGED <<chan, draining, abandoned>>
    PROVE  Conservation'
<1>1. /\ hold[c] \in HeldSet /\ hold[c] \in Slots
      /\ HeldSet' = HeldSet \ {hold[c]}
      /\ HoldDistinct'
  BY HoldDrop DEF CInv, TInv, TypeOK, Conservation
<1>2. Spawning' = Spawning \cup {hold[c]}
  BY <1>1, TaskStarts DEF CInv, TInv, TypeOK
<1>3. ChanSet' = ChanSet /\ ChanDistinct'
  BY DEF ChanSet, ChanDistinct, CInv, Conservation
<1> QED
  BY <1>1, <1>2, <1>3 DEF CInv, Conservation, Partition

\* At the start every slot is in one place.
LEMMA ConservationInit == Init => Conservation
<1> SUFFICES ASSUME Init PROVE Conservation
  OBVIOUS
<1>1. TypeOK
  BY TypeInit DEF TInv
<1>2. Owning = {} /\ HeldSet = {} /\ draining = {} /\ abandoned = {}
  BY DEF Init, Owning, HeldSet
<1>3. Spawning = {}
  BY DEF Init, Spawning
<1>4. /\ chan \in [1..Size -> Slots] /\ DOMAIN chan = 1..Size
      /\ ChanDistinct
  BY DEF Init, ChanDistinct
<1>5. ChanSet = Slots
  <2>1. chan \in Injection(1..Size, Slots)
    BY <1>4, Fun_IsInj DEF ChanDistinct
  <2>2. IsFiniteSet(1..Size) /\ Cardinality(1..Size) = Size
    <3>1. 1 \in Int /\ Size \in Int /\ Size \in Nat
      BY SizeType
    <3>2. /\ IsFiniteSet(1..Size)
          /\ Cardinality(1..Size) = IF 1 > Size THEN 0 ELSE Size - 1 + 1
      BY ONLY <3>1, FS_Interval, Zenon
    <3> QED
      BY <3>1, <3>2
  <2>3. chan \in Surjection(1..Size, Slots)
    BY <2>1, <2>2, FS_Injection DEF Size
  <2> QED
    BY <1>4, <2>3 DEF Surjection, ChanSet
<1> QED
  BY <1>2, <1>3, <1>4, <1>5 DEF Conservation, HoldDistinct, Partition
\* Every step keeps each slot in one place.
LEMMA ConservationStep == CInv /\ [Next]_vars => Conservation'
<1> SUFFICES ASSUME CInv, [Next]_vars
             PROVE  Conservation'
  OBVIOUS
<1> USE DEF CInv, TInv, TypeOK
<1>1. CASE Publish
  BY <1>1, PlacesUnchanged DEF Publish, handlerVars, Spawning
<1>2. CASE NotifyCatalogChanged
  BY <1>2, PlacesUnchanged DEF NotifyCatalogChanged, handlerVars, Spawning
<1>3. ASSUME NEW c \in Calls, CallStep(c)
      PROVE  Conservation'
  <2>1. CASE Enqueue(c)
    BY <2>1, PlacesUnchanged DEF Enqueue, Spawning
  <2>2. CASE Receive(c)
    <3>1. /\ chan # <<>> /\ chan' = Tail(chan)
          /\ hold[c] = NoSlot
          /\ hold' = [hold EXCEPT ![c] = Head(chan)]
      BY <2>2 DEF Receive, HolderOK
    <3>2. /\ Head(chan) \in ChanSet
          /\ ChanSet' = ChanSet \ {Head(chan)}
          /\ ChanDistinct'
      BY <3>1, ChanReceive DEF Conservation
    <3>3. Head(chan) \in Slots /\ Head(chan) \notin HeldSet
      BY <3>2 DEF Conservation, Partition
    <3>4. HeldSet' = HeldSet \cup {Head(chan)} /\ HoldDistinct'
      BY <3>1, <3>3, HoldTake DEF Conservation
    <3>5. Spawning' = Spawning /\ draining' = draining /\ abandoned' = abandoned
      BY <2>2 DEF Receive, Spawning
    <3> QED
      BY <3>2, <3>4, <3>5 DEF Conservation, Partition
  <2>3. CASE Refresh(c)
    BY <2>3, PlacesUnchanged DEF Refresh, Spawning
  <2>4. CASE RefreshFails(c)
    BY <2>4, DiscardConserves DEF RefreshFails, HolderOK
  <2>5. CASE WriteEnvelope(c)
    BY <2>5, PlacesUnchanged DEF WriteEnvelope, Spawning
  <2>6. CASE WriteFails(c)
    BY <2>6, DiscardConserves DEF WriteFails, Discard, HolderOK
  <2>7. CASE StreamTerminal(c)
    BY <2>7, ReleaseConserves DEF StreamTerminal, HolderOK
  <2>8. CASE StreamBreaks(c)
    BY <2>8, DiscardConserves DEF StreamBreaks, Discard, HolderOK
  <2>9. CASE OneShotAnswer(c)
    BY <2>9, ReleaseConserves DEF OneShotAnswer, HolderOK
  <2>10. CASE OneShotBreaks(c)
    BY <2>10, DiscardConserves DEF OneShotBreaks, Discard, HolderOK
  <2>11. CASE DropBody(c)
    <3>1. /\ hold[c] \in HeldSet
          /\ HeldSet' = HeldSet \ {hold[c]}
          /\ HoldDistinct'
      BY <2>11, HoldDrop DEF DropBody, HolderOK, Conservation
    <3>2. ChanSet' = ChanSet /\ ChanDistinct' /\ Spawning' = Spawning
      BY <2>11 DEF DropBody, Conservation, ChanSet, ChanDistinct, Spawning
    <3>3. draining' = draining \cup {hold[c]} /\ abandoned' = abandoned
      BY <2>11 DEF DropBody
    <3> QED
      BY <3>1, <3>2, <3>3 DEF Conservation, Partition
  <2>12. CASE DropWaiting(c)
    BY <2>12, PlacesUnchanged DEF DropWaiting, Spawning
  <2>13. CASE DropHandler(c)
    <3>1. /\ hold[c] \in HeldSet
          /\ HeldSet' = HeldSet \ {hold[c]}
          /\ HoldDistinct'
      BY <2>13, HoldDrop DEF DropHandler, HolderOK, Conservation
    <3>2. ChanSet' = ChanSet /\ ChanDistinct' /\ Spawning' = Spawning
      BY <2>13 DEF DropHandler, Conservation, ChanSet, ChanDistinct, Spawning
    <3>3. draining' = draining /\ abandoned' = abandoned \cup {hold[c]}
      BY <2>13 DEF DropHandler
    <3> QED
      BY <3>1, <3>2, <3>3 DEF Conservation, Partition
  <2> QED
    BY <1>3, <2>1, <2>2, <2>3, <2>4, <2>5, <2>6, <2>7, <2>8, <2>9, <2>10,
       <2>11, <2>12, <2>13 DEF CallStep
<1>4. ASSUME NEW s \in Slots, SlotStep(s)
      PROVE  Conservation'
  <2>1. CASE SessionDies(s)
    BY <2>1, PlacesUnchanged DEF SessionDies, handlerVars, Spawning
  <2>2. CASE DrainDone(s)
    <3>1. s \in draining /\ s \notin ChanSet
      BY <2>2 DEF DrainDone, Conservation, Partition
    <3>2. ChanSet' = ChanSet \cup {s} /\ ChanDistinct'
      BY <2>2, <3>1, ChanSend DEF DrainDone, Conservation
    <3>3. HeldSet' = HeldSet /\ HoldDistinct' /\ Spawning' = Spawning
      BY <2>2 DEF DrainDone, handlerVars, HeldSet, HoldDistinct, Owning,
                  Spawning, Conservation
    <3>4. draining' = draining \ {s} /\ abandoned' = abandoned
      BY <2>2 DEF DrainDone
    <3> QED
      BY <3>1, <3>2, <3>3, <3>4 DEF Conservation, Partition
  <2>3. CASE DrainFails(s)
    <3>1. s \in draining
      BY <2>3 DEF DrainFails
    <3>2. Spawning' = Spawning \cup {s}
      BY <2>3, TaskStarts DEF DrainFails
    <3>3. ChanSet' = ChanSet /\ ChanDistinct' /\ HeldSet' = HeldSet /\ HoldDistinct'
      BY <2>3 DEF DrainFails, handlerVars, ChanSet, ChanDistinct, HeldSet,
                  HoldDistinct, Owning, Conservation
    <3>4. draining' = draining \ {s} /\ abandoned' = abandoned
      BY <2>3 DEF DrainFails
    <3> QED
      BY <3>1, <3>2, <3>3, <3>4 DEF Conservation, Partition
  <2>4. CASE SpawnBegin(s)
    <3>1. s \in Spawning
      BY <2>4 DEF SpawnBegin, Spawning
    <3>2. \A t \in Slots : task'[t].pc = IF t = s THEN "booting" ELSE task[t].pc
      BY <2>4 DEF SpawnBegin, ProcessTypes
    <3>3. Spawning' = Spawning
      BY <3>1, <3>2, TaskGoesOn
    <3> QED
      BY <2>4, <3>3, PlacesUnchanged DEF SpawnBegin, handlerVars
  <2>5. CASE SpawnSeed(s)
    <3>1. s \in Spawning
      BY <2>5 DEF SpawnSeed, Spawning
    <3>2. \A t \in Slots : task'[t].pc = IF t = s THEN "ready" ELSE task[t].pc
      BY <2>5 DEF SpawnSeed, ProcessTypes
    <3>3. Spawning' = Spawning
      BY <3>1, <3>2, TaskGoesOn
    <3> QED
      BY <2>5, <3>3, PlacesUnchanged DEF SpawnSeed, handlerVars
  <2>6. CASE SpawnEnqueue(s)
    <3>1. s \in Spawning /\ s \notin ChanSet
      BY <2>6 DEF SpawnEnqueue, Spawning, Conservation, Partition
    <3>2. ChanSet' = ChanSet \cup {s} /\ ChanDistinct'
      BY <2>6, <3>1, ChanSend DEF SpawnEnqueue, Conservation
    <3>3. Spawning' = Spawning \ {s}
      BY <2>6, TaskEnds DEF SpawnEnqueue
    <3>4. HeldSet' = HeldSet /\ HoldDistinct'
      BY <2>6 DEF SpawnEnqueue, handlerVars, HeldSet, HoldDistinct, Owning,
                  Conservation
    <3>5. draining' = draining /\ abandoned' = abandoned
      BY <2>6 DEF SpawnEnqueue
    <3> QED
      BY <3>1, <3>2, <3>3, <3>4, <3>5 DEF Conservation, Partition
  <2>7. CASE SpawnFails(s)
    <3>1. s \in Spawning
      BY <2>7 DEF SpawnFails, Spawning
    <3>2. \A t \in Slots : task'[t].pc = IF t = s THEN "backoff" ELSE task[t].pc
      BY <2>7 DEF SpawnFails, ProcessTypes
    <3>3. Spawning' = Spawning
      BY <3>1, <3>2, TaskGoesOn
    <3> QED
      BY <2>7, <3>3, PlacesUnchanged DEF SpawnFails, handlerVars
  <2> QED
    BY <1>4, <2>1, <2>2, <2>3, <2>4, <2>5, <2>6, <2>7 DEF SlotStep
<1>5. CASE UNCHANGED vars
  BY <1>5, PlacesUnchanged DEF vars, handlerVars, Spawning
<1> QED
  BY <1>1, <1>2, <1>3, <1>4, <1>5 DEF Next

\* For every pool size, whatever the clients, the embedder and the session
\* processes do, each unit of capacity is in exactly one place: no session
\* serves two calls, and no release or replacement meets a full channel.
THEOREM CapacityConserved == Spec => []Conservation
<1>1. Init => CInv
  BY TypeInit, ConservationInit DEF CInv
<1>2. CInv /\ [Next]_vars => CInv'
  BY TypeStep, ConservationStep DEF CInv
<1>3. CInv => Conservation
  BY DEF CInv
<1> QED
  BY <1>1, <1>2, <1>3, PTL DEF Spec
-----------------------------------------------------------------------------
(* Catalog freshness.  The tags are truthful because every writer reads    *)
(* the pool's version before it reads the source; a granted session stays  *)
(* as fresh as it was because, by Conservation, no other actor owns it.    *)

\* What was promised with a notify had been published.
PromiseOK ==
    /\ promise[0] = 0
    /\ \A v \in 0..poolVer : promise[v] <= source

\* No handler and no spawn task holds a version from the future.
VersionsOK ==
    /\ \A c \in Calls : want[c] <= poolVer
    /\ \A s \in Slots : task[s].seed <= poolVer

KInv == PromiseOK /\ VersionsOK /\ TagTruthful /\ CatalogCurrent

\* The catalog invariant holds at the start.
LEMMA CatalogInit == Init => KInv
<1> SUFFICES ASSUME Init PROVE KInv
  OBVIOUS
<1>1. TypeOK
  BY TypeInit DEF TInv
<1>2. PromiseOK /\ VersionsOK
  BY DEF Init, PromiseOK, VersionsOK
<1>3. TagTruthful
  <2> SUFFICES ASSUME NEW s \in Slots
               PROVE  sess[s].ver <= poolVer /\ sess[s].data >= promise[sess[s].ver]
    BY DEF TagTruthful
  <2>1. sess[s] \in [ver : {0}, data : 0..source, up : {TRUE}]
    <3>1. sess \in [Slots -> [ver : {0}, data : 0..source, up : {TRUE}]]
      BY DEF Init
    <3> QED
      BY ONLY <3>1, s \in Slots
  <2>2. sess[s].ver = 0 /\ sess[s].data \in 0..source
    BY <2>1
  <2>3. source \in Nat /\ poolVer = 0 /\ promise[0] = 0
    BY DEF Init
  <2> QED
    BY <2>2, <2>3
<1>4. CatalogCurrent
  BY DEF Init, CatalogCurrent, Granted
<1> QED
  BY <1>2, <1>3, <1>4 DEF KInv

\* A step that touches neither versions nor what sessions were given, and
\* grants no session.
LEMMA CatalogKept ==
    ASSUME TInv, KInv,
           UNCHANGED <<catalogVars, want>>,
           \A s \in Slots : /\ sess'[s].ver = sess[s].ver
                           /\ sess'[s].data = sess[s].data
                           /\ task'[s].seed \in {0, task[s].seed},
           \A c \in Granted' : c \in Granted /\ hold'[c] = hold[c]
    PROVE  KInv'
<1> USE DEF TInv, TypeOK, HandlerTypes, ProcessTypes, CatalogTypes, catalogVars
<1>1. PromiseOK'
  BY DEF KInv, PromiseOK
<1>2. VersionsOK'
  <2>1. poolVer \in Nat /\ poolVer' = poolVer /\ want' = want
    OBVIOUS
  <2>2. \A s \in Slots : task[s].seed <= poolVer
    BY DEF KInv, VersionsOK
  <2>3. ASSUME NEW s \in Slots PROVE task'[s].seed <= poolVer
    BY ONLY <2>1, <2>2, task'[s].seed \in {0, task[s].seed}
  <2> QED
    BY <2>1, <2>3 DEF KInv, VersionsOK
<1>3. TagTruthful'
  BY DEF KInv, TagTruthful
<1>4. CatalogCurrent'
  <2> SUFFICES ASSUME NEW c \in Granted'
               PROVE  sess'[hold'[c]].data >= promise'[want'[c]]
    BY DEF CatalogCurrent
  <2>1. c \in Granted /\ hold'[c] = hold[c] /\ hold[c] \in Slots
    BY DEF Granted, HolderOK
  <2> QED
    BY <2>1 DEF KInv, CatalogCurrent
<1> QED
  BY <1>1, <1>2, <1>3, <1>4 DEF KInv
\* A spawn task rewrites the session it is starting: no handler owns it.
LEMMA CatalogSpawn ==
    ASSUME CInv, KInv, NEW s \in Spawning, NEW v \in Nat, NEW d \in Nat,
           UNCHANGED <<catalogVars, handlerVars>>,
           sess' = [sess EXCEPT ![s] = sess'[s]],
           sess'[s].ver = v, sess'[s].data = d,
           v <= poolVer, d >= promise[v],
           \A t \in Slots : task'[t].seed <= poolVer
    PROVE  KInv'
<1> USE DEF CInv, TInv, TypeOK, HandlerTypes, ProcessTypes, CatalogTypes,
            catalogVars, handlerVars
<1>1. PromiseOK' /\ VersionsOK'
  BY DEF KInv, PromiseOK, VersionsOK
<1>2. \A t \in Slots \ {s} : sess'[t] = sess[t]
  BY DEF Spawning
<1>3. TagTruthful'
  BY <1>2 DEF KInv, TagTruthful, Spawning
<1>4. CatalogCurrent'
  <2> SUFFICES ASSUME NEW c \in Granted
               PROVE  sess'[hold[c]].data >= promise[want[c]]
    BY DEF CatalogCurrent, Granted
  <2>1. hold[c] \in HeldSet /\ hold[c] \in Slots
    BY DEF Granted, HolderOK, HeldSet, Owning
  <2>2. hold[c] # s
    BY <2>1 DEF Conservation, Partition
  <2> QED
    BY <1>2, <2>1, <2>2 DEF KInv, CatalogCurrent
<1> QED
  BY <1>1, <1>3, <1>4 DEF KInv

\* Every step keeps the tags no newer than what was read.
LEMMA CatalogStep == CInv /\ KInv /\ [Next]_vars => KInv'
<1> SUFFICES ASSUME CInv, KInv, [Next]_vars
             PROVE  KInv'
  OBVIOUS
<1> USE DEF CInv, TInv, TypeOK, HandlerTypes, ProcessTypes, CatalogTypes
<1>1. CASE Publish
  BY <1>1 DEF Publish, handlerVars, KInv, PromiseOK, VersionsOK, TagTruthful,
              CatalogCurrent, Granted
<1>2. CASE NotifyCatalogChanged
  <2>1. /\ poolVer' = poolVer + 1 /\ source' = source
        /\ promise'[poolVer + 1] = source
        /\ \A v \in 0..poolVer : promise'[v] = promise[v]
    BY <1>2 DEF NotifyCatalogChanged
  <2>2. sess' = sess /\ task' = task /\ pc' = pc /\ hold' = hold /\ want' = want
    BY <1>2 DEF NotifyCatalogChanged, handlerVars
  <2>3. PromiseOK'
    BY <2>1 DEF KInv, PromiseOK
  <2>4. VersionsOK'
    BY <2>1, <2>2, SMTT(30) DEF KInv, VersionsOK
  <2>5. TagTruthful'
    BY <2>1, <2>2 DEF KInv, TagTruthful
  <2>6. CatalogCurrent'
    BY <2>1, <2>2, SMTT(30) DEF KInv, VersionsOK, CatalogCurrent, Granted
  <2> QED
    BY <2>3, <2>4, <2>5, <2>6 DEF KInv
<1>3. ASSUME NEW c \in Calls, CallStep(c)
      PROVE  KInv'
  <2>1. CASE Enqueue(c)
    BY <2>1, CatalogKept DEF Enqueue, Granted
  <2>2. CASE Receive(c)
    <3>1. /\ Head(chan) \in Slots
          /\ hold' = [hold EXCEPT ![c] = Head(chan)]
          /\ want' = [want EXCEPT ![c] = poolVer]
          /\ UNCHANGED <<sess, task, source, poolVer, promise>>
      BY <2>2, HeadTailProperties DEF Receive, PoolTypes, catalogVars
    <3>2. PromiseOK' /\ VersionsOK' /\ TagTruthful'
      BY <3>1 DEF KInv, PromiseOK, VersionsOK, TagTruthful
    <3>3. ASSUME NEW d \in Granted'
          PROVE  sess'[hold'[d]].data >= promise'[want'[d]]
      <4>1. CASE d # c
        <5>1. d \in Granted /\ hold'[d] = hold[d] /\ want'[d] = want[d]
          BY <2>2, <3>1, <3>3, <4>1 DEF Receive, Granted
        <5> QED
          BY <3>1, <5>1 DEF KInv, CatalogCurrent
      <4>2. CASE d = c
        <5>1. sess[Head(chan)].ver >= poolVer
          BY <2>2, <3>3, <4>2 DEF Receive, Granted
        <5>2. sess[Head(chan)].ver = poolVer
          BY <3>1, <5>1 DEF KInv, TagTruthful
        <5> QED
          BY <3>1, <4>2, <5>2 DEF KInv, TagTruthful
      <4> QED
        BY <4>1, <4>2
    <3> QED
      BY <3>2, <3>3 DEF KInv, CatalogCurrent
  <2>3. CASE Refresh(c)
    <3>1. hold[c] \in Slots /\ want[c] <= poolVer
      BY <2>3 DEF Refresh, HolderOK, KInv, VersionsOK
    <3>2. UNCHANGED <<task, hold, want, source, poolVer, promise>>
      BY <2>3 DEF Refresh, catalogVars
    <3>3. /\ sess'[hold[c]].ver = want[c]
          /\ sess'[hold[c]].data >= promise[want[c]]
          /\ \A t \in Slots \ {hold[c]} : sess'[t] = sess[t]
      <4>1. CASE source = 0
        <5>1. sess' = [sess EXCEPT ![hold[c]].ver = want[c]]
          BY <2>3, <4>1 DEF Refresh
        <5>2. promise[want[c]] = 0 /\ sess[hold[c]].data >= 0
          BY <3>1, <4>1 DEF KInv, PromiseOK
        <5> QED
          BY <3>1, <5>1, <5>2
      <4>2. CASE source # 0
        <5>1. sess' = [sess EXCEPT ![hold[c]].ver = want[c], ![hold[c]].data = source]
          BY <2>3, <4>2 DEF Refresh
        <5>2. promise[want[c]] <= source
          BY <3>1 DEF KInv, PromiseOK
        <5> QED
          BY <3>1, <5>1, <5>2
      <4> QED
        BY <4>1, <4>2
    <3>4. PromiseOK' /\ VersionsOK'
      BY <3>2 DEF KInv, PromiseOK, VersionsOK
    <3>5. TagTruthful'
      BY <3>1, <3>2, <3>3 DEF KInv, TagTruthful
    <3>6. ASSUME NEW d \in Granted'
          PROVE  sess'[hold[d]].data >= promise[want[d]]
      <4>1. CASE d = c
        BY <3>3, <4>1
      <4>2. CASE d # c
        <5>1. d \in Granted
          BY <2>3, <3>6, <4>2 DEF Refresh, Granted
        <5>2. hold[d] \in Slots /\ hold[d] # hold[c]
          BY <2>3, <4>2, <5>1 DEF Refresh, Granted, HolderOK, Conservation,
                                  HoldDistinct, Owning
        <5> QED
          BY <3>3, <5>1, <5>2 DEF KInv, CatalogCurrent
      <4> QED
        BY <4>1, <4>2
    <3> QED
      BY <3>2, <3>4, <3>5, <3>6 DEF KInv, CatalogCurrent
  <2>4. CASE RefreshFails(c)
    BY <2>4, CatalogKept DEF RefreshFails, SpawnReplacement, Granted
  <2>5. CASE WriteEnvelope(c)
    BY <2>5, CatalogKept DEF WriteEnvelope, Granted
  <2>6. CASE WriteFails(c)
    BY <2>6, CatalogKept DEF WriteFails, Discard, SpawnReplacement, Granted
  <2>7. CASE StreamTerminal(c)
    BY <2>7, CatalogKept DEF StreamTerminal, Release, Granted
  <2>8. CASE StreamBreaks(c)
    BY <2>8, CatalogKept DEF StreamBreaks, Discard, SpawnReplacement, Granted
  <2>9. CASE OneShotAnswer(c)
    BY <2>9, CatalogKept DEF OneShotAnswer, Release, Granted
  <2>10. CASE OneShotBreaks(c)
    BY <2>10, CatalogKept DEF OneShotBreaks, Discard, SpawnReplacement, Granted
  <2>11. CASE DropBody(c)
    BY <2>11, CatalogKept DEF DropBody, Granted
  <2>12. CASE DropWaiting(c)
    BY <2>12, CatalogKept DEF DropWaiting, Granted
  <2>13. CASE DropHandler(c)
    <3>1. hold[c] \in Slots
      BY <2>13 DEF DropHandler, HolderOK
    <3> QED
      BY <2>13, <3>1, CatalogKept, SMTT(30) DEF DropHandler, Granted
  <2> QED
    BY <1>3, <2>1, <2>2, <2>3, <2>4, <2>5, <2>6, <2>7, <2>8, <2>9, <2>10,
       <2>11, <2>12, <2>13 DEF CallStep
<1>4. ASSUME NEW s \in Slots, SlotStep(s)
      PROVE  KInv'
  <2>1. CASE SessionDies(s)
    BY <2>1, CatalogKept DEF SessionDies, handlerVars, Granted
  <2>2. CASE DrainDone(s)
    BY <2>2, CatalogKept DEF DrainDone, handlerVars, Granted
  <2>3. CASE DrainFails(s)
    BY <2>3, CatalogKept DEF DrainFails, SpawnReplacement, handlerVars, Granted
  <2>4. CASE SpawnBegin(s)
    <3>1. s \in Spawning /\ \A t \in Slots : task'[t].seed <= poolVer
      BY <2>4 DEF SpawnBegin, Spawning, KInv, VersionsOK
    <3>2. sess'[s].ver = 0 /\ sess'[s].data = 0 /\ promise[0] = 0
      BY <2>4 DEF SpawnBegin, Fresh, KInv, PromiseOK
    <3>3. /\ UNCHANGED <<catalogVars, handlerVars>>
          /\ sess' = [sess EXCEPT ![s] = sess'[s]]
      BY <2>4 DEF SpawnBegin
    <3>4. 0 \in Nat /\ 0 <= poolVer /\ 0 >= promise[0]
      BY <3>2
    <3> QED
      BY <3>1, <3>2, <3>3, <3>4, CatalogSpawn
  <2>5. CASE SpawnSeed(s)
    <3>1. s \in Spawning /\ \A t \in Slots : task'[t].seed <= poolVer
      BY <2>5 DEF SpawnSeed, Spawning, KInv, VersionsOK
    <3>2. PICK v \in 0..poolVer : v = IF source = 0 THEN 0 ELSE task[s].seed
      BY DEF KInv, VersionsOK
    <3>3. sess' = [sess EXCEPT ![s].ver = v, ![s].data = source]
      BY <2>5, <3>2 DEF SpawnSeed
    <3>4. /\ sess' = [sess EXCEPT ![s] = sess'[s]]
          /\ sess'[s].ver = v /\ sess'[s].data = source
      BY <3>3, ZenonT(60)
    <3>5. v \in Nat /\ v <= poolVer /\ source >= promise[v]
      BY <3>2 DEF KInv, PromiseOK
    <3> QED
      BY <2>5, <3>1, <3>4, <3>5, CatalogSpawn DEF SpawnSeed
  <2>6. CASE SpawnEnqueue(s)
    BY <2>6, CatalogKept DEF SpawnEnqueue, handlerVars, Granted
  <2>7. CASE SpawnFails(s)
    BY <2>7, CatalogKept DEF SpawnFails, handlerVars, Granted
  <2> QED
    BY <1>4, <2>1, <2>2, <2>3, <2>4, <2>5, <2>6, <2>7 DEF SlotStep
<1>5. CASE UNCHANGED vars
  BY <1>5, CatalogKept DEF vars, handlerVars, Granted
<1> QED
  BY <1>1, <1>2, <1>3, <1>4, <1>5 DEF Next

\* Tags and notifies agree in every reachable state.
LEMMA CatalogInvariant == Spec => []KInv
<1>1. Init => CInv /\ KInv
  BY TypeInit, ConservationInit, CatalogInit DEF CInv
<1>2. CInv /\ KInv /\ [Next]_vars => (CInv /\ KInv)'
  BY TypeStep, ConservationStep, CatalogStep DEF CInv
<1> QED
  BY <1>1, <1>2, PTL DEF Spec

\* The tag of a session never claims a newer catalog than its process was given,
\* although a spawn task reads the version before it reads the source.
THEOREM TagsTruthful == Spec => []TagTruthful
<1>1. KInv => TagTruthful
  BY DEF KInv
<1> QED
  BY <1>1, CatalogInvariant, PTL

\* Whatever the interleaving of publications, notifies, respawns and
\* acquires, a call never runs on a catalog older than the one published
\* before the last notify its acquire could see.
THEOREM CatalogAlwaysCurrent == Spec => []CatalogCurrent
<1>1. KInv => CatalogCurrent
  BY DEF KInv
<1> QED
  BY <1>1, CatalogInvariant, PTL

-----------------------------------------------------------------------------
(* The gauges.                                                             *)

\* A set gains an element, or loses one.
LEMMA Gained ==
    ASSUME NEW S, IsFiniteSet(S), NEW x, x \notin S
    PROVE  Cardinality(S \cup {x}) = Cardinality(S) + 1
  BY FS_AddElement

\* Taking an element out of a finite set.
LEMMA Lost ==
    ASSUME NEW S, IsFiniteSet(S), NEW x \in S
    PROVE  Cardinality(S \ {x}) = Cardinality(S) - 1
  BY FS_RemoveElement

\* There are as many handlers with a session as sessions with a handler: what the
\* gauges count is finite, however many clients there are.
LEMMA CountsFinite ==
    ASSUME CInv
    PROVE  /\ IsFiniteSet(ChanSet) /\ IsFiniteSet(draining) /\ IsFiniteSet(abandoned)
           /\ IsFiniteSet(Owning) /\ IsFiniteSet(Granted) /\ Granted \subseteq Owning
           /\ Cardinality(ChanSet) \in Nat /\ Cardinality(draining) \in Nat
           /\ Cardinality(abandoned) \in Nat
           /\ Cardinality(Owning) \in Nat /\ Cardinality(Granted) \in Nat
<1>1. ChanSet \subseteq Slots /\ draining \subseteq Slots /\ abandoned \subseteq Slots
  BY DEF CInv, Conservation, Partition
<1>2. Granted \subseteq Owning
  BY DEF CInv, TInv, HolderOK, Granted, Owning
<1>3. IsFiniteSet(Owning)
  <2> DEFINE f == [c \in Owning |-> hold[c]]
  <2>1. f \in [Owning -> Slots]
    BY DEF CInv, TInv, TypeOK, HandlerTypes, Owning
  <2>2. f \in Injection(Owning, Slots)
    BY <2>1, Fun_IsInj DEF CInv, Conservation, HoldDistinct
  <2> HIDE DEF f
  <2> QED
    BY <2>2, FS_Injection
<1>4. IsFiniteSet(ChanSet) /\ IsFiniteSet(draining) /\ IsFiniteSet(abandoned)
  BY <1>1, FS_Subset
<1>5. IsFiniteSet(Granted)
  <2>1. Granted \in SUBSET Owning
    BY <1>2
  <2> QED
    BY <1>3, <2>1, FS_Subset
<1> QED
  BY <1>2, <1>3, <1>4, <1>5, FS_CardinalityType

\* A handler takes a session, or gives it up.
LEMMA OwningTake ==
    ASSUME HandlerTypes, NEW c \in Calls, NEW s \in Slots, hold[c] = NoSlot,
           hold' = [hold EXCEPT ![c] = s]
    PROVE  c \notin Owning /\ Owning' = Owning \cup {c}
<1>1. \A d \in Calls : hold'[d] = IF d = c THEN s ELSE hold[d]
  BY DEF HandlerTypes
<1> QED
  BY <1>1 DEF Owning

\* A handler that gives its session away owns none.
LEMMA OwningDrop ==
    ASSUME HandlerTypes, NEW c \in Calls, hold[c] # NoSlot,
           hold' = [hold EXCEPT ![c] = NoSlot]
    PROVE  c \in Owning /\ Owning' = Owning \ {c}
  BY DEF HandlerTypes, Owning

\* A call is granted its session, loses it, or neither.
LEMMA GrantedMoves ==
    ASSUME HandlerTypes, NEW c \in Calls, NEW to, pc' = [pc EXCEPT ![c] = to]
    PROVE  Granted' = IF to \in {"writing", "streaming", "reading"}
                      THEN Granted \cup {c} ELSE Granted \ {c}
  BY DEF HandlerTypes, Granted

\* The gauges are right at the start.
LEMMA GaugesInit == Init => GaugesTrue
<1> SUFFICES ASSUME Init PROVE GaugesTrue
  OBVIOUS
<1>1. ChanSet = Slots
  <2>1. Conservation
    BY ConservationInit
  <2>2. HeldSet = {} /\ draining = {} /\ abandoned = {} /\ Spawning = {}
    BY DEF Init, HeldSet, Owning, Spawning
  <2> QED
    BY <2>1, <2>2 DEF Conservation, Partition
<1>2. Owning = {} /\ Granted = {} /\ draining = {} /\ abandoned = {}
  BY DEF Init, Owning, Granted
<1> QED
  BY <1>1, <1>2, FS_EmptySet, SizeType DEF Init, GaugesTrue, Size

\* Every step keeps both gauges right.
LEMMA GaugesStep == CInv /\ GaugesTrue /\ [Next]_vars => GaugesTrue'
<1> SUFFICES ASSUME CInv, GaugesTrue, [Next]_vars PROVE GaugesTrue'
  OBVIOUS
<1> USE DEF CInv, TInv, TypeOK
<1>0. /\ \A c \in Calls : hold[c] # NoSlot =>
            hold[c] \in Slots /\ hold[c] \notin ChanSet \cup draining \cup abandoned
      /\ alive \in Int /\ inUse \in Int
  BY DEF HandlerTypes, CounterTypes, Conservation, Partition, HeldSet, Owning
\* Back into the channel.
<1>1. ASSUME NEW c \in Granted, Release(c) PROVE GaugesTrue'
  <2>1. hold[c] # NoSlot
    BY <1>1 DEF HolderOK, Granted
  <2>2. ChanSet' = ChanSet \cup {hold[c]}
    BY <1>0, <1>1, <2>1, ChanSend DEF Release, Conservation, Granted
  <2>3. Owning' = Owning \ {c} /\ c \in Owning
    BY <1>1, <2>1, OwningDrop DEF Release, Granted
  <2>4. Granted' = Granted \ {c}
    BY <1>1, GrantedMoves DEF Release, Granted
  <2>5. /\ Cardinality(ChanSet') = Cardinality(ChanSet) + 1
        /\ Cardinality(Owning') = Cardinality(Owning) - 1
        /\ Cardinality(Granted') = Cardinality(Granted) - 1
    BY <1>0, <1>1, <2>1, <2>2, <2>3, <2>4, Gained, Lost, CountsFinite DEF Granted
  <2> QED
    BY <1>0, <1>1, <2>5, CountsFinite DEF Release, GaugesTrue
\* Killed and replaced, with a call granted ...
<1>2. ASSUME NEW c \in Granted, Discard(c) PROVE GaugesTrue'
  <2>1. hold[c] # NoSlot
    BY <1>2 DEF HolderOK, Granted
  <2>2. ChanSet' = ChanSet
    BY <1>2 DEF Discard, ChanSet
  <2>3. Owning' = Owning \ {c} /\ c \in Owning
    BY <1>2, <2>1, OwningDrop DEF Discard, Granted
  <2>4. Granted' = Granted \ {c}
    BY <1>2, GrantedMoves DEF Discard, Granted
  <2>5. /\ Cardinality(Owning') = Cardinality(Owning) - 1
        /\ Cardinality(Granted') = Cardinality(Granted) - 1
    BY <1>2, <2>3, <2>4, Lost, CountsFinite
  <2> QED
    BY <1>0, <1>2, <2>2, <2>5, CountsFinite DEF Discard, GaugesTrue
\* ... or before it was.
<1>3. ASSUME NEW c \in Calls, RefreshFails(c) PROVE GaugesTrue'
  <2>1. hold[c] # NoSlot /\ c \notin Granted
    BY <1>3 DEF RefreshFails, HolderOK, Granted
  <2>2. ChanSet' = ChanSet
    BY <1>3 DEF RefreshFails, ChanSet
  <2>3. Owning' = Owning \ {c} /\ c \in Owning
    BY <1>3, <2>1, OwningDrop DEF RefreshFails
  <2>4. Granted' = Granted
    <3>1. Granted' = Granted \ {c}
      BY <1>3, GrantedMoves DEF RefreshFails
    <3> QED
      BY <2>1, <3>1
  <2>5. Cardinality(Owning') = Cardinality(Owning) - 1
    BY <2>3, Lost, CountsFinite
  <2> QED
    BY <1>0, <1>3, <2>2, <2>4, <2>5, CountsFinite, SMTT(30) DEF RefreshFails, GaugesTrue
<1>4. ASSUME NEW c \in Calls, Receive(c) PROVE GaugesTrue'
  <2>1. /\ hold[c] = NoSlot /\ c \notin Granted /\ Head(chan) \in ChanSet
        /\ ChanSet' = ChanSet \ {Head(chan)} /\ Head(chan) \in Slots
    BY <1>4, ChanReceive DEF Receive, HolderOK, Granted, Conservation, Partition
  <2>2. c \notin Owning /\ Owning' = Owning \cup {c}
    BY <1>4, <2>1, OwningTake DEF Receive
  <2>3. /\ Cardinality(ChanSet') = Cardinality(ChanSet) - 1
        /\ Cardinality(Owning') = Cardinality(Owning) + 1
    BY <2>1, <2>2, Gained, Lost, CountsFinite
  <2>4. CASE sess[Head(chan)].ver >= poolVer
    <3>1. Granted' = Granted \cup {c}
      BY <1>4, <2>4, GrantedMoves DEF Receive
    <3>2. Cardinality(Granted') = Cardinality(Granted) + 1
      BY <2>1, <3>1, Gained, CountsFinite
    <3>3. inUse' = inUse + 1 /\ UNCHANGED <<alive, draining, abandoned>>
      BY <1>4, <2>4 DEF Receive
    <3> QED
      BY <1>0, <2>3, <3>2, <3>3, CountsFinite DEF GaugesTrue
  <2>5. CASE ~(sess[Head(chan)].ver >= poolVer)
    <3>1. Granted' = Granted \ {c}
      BY <1>4, <2>5, GrantedMoves DEF Receive
    <3>2. Granted' = Granted
      BY <2>1, <3>1
    <3>3. UNCHANGED <<inUse, alive, draining, abandoned>>
      BY <1>4, <2>5 DEF Receive
    <3> QED
      BY <1>0, <2>3, <3>2, <3>3, CountsFinite DEF GaugesTrue
  <2> QED
    BY <2>4, <2>5
<1>5. ASSUME NEW c \in Calls, Refresh(c) PROVE GaugesTrue'
  <2>1. c \notin Granted /\ Granted' = Granted \cup {c}
    BY <1>5, GrantedMoves DEF Refresh, Granted
  <2>2. Cardinality(Granted') = Cardinality(Granted) + 1
    BY <2>1, Gained, CountsFinite
  <2>3. ChanSet' = ChanSet /\ Owning' = Owning
    BY <1>5 DEF Refresh, ChanSet, Owning
  <2> QED
    BY <1>0, <1>5, <2>2, <2>3, CountsFinite DEF Refresh, GaugesTrue
<1>6. ASSUME NEW c \in Calls, DropBody(c) PROVE GaugesTrue'
  <2>1. hold[c] # NoSlot /\ c \in Granted
    BY <1>6 DEF DropBody, HolderOK, Granted
  <2>2. ChanSet' = ChanSet
    BY <1>6 DEF DropBody, ChanSet
  <2>3. Owning' = Owning \ {c} /\ c \in Owning
    BY <1>6, <2>1, OwningDrop DEF DropBody
  <2>4. Granted' = Granted \ {c}
    BY <1>6, GrantedMoves DEF DropBody
  <2>5. /\ Cardinality(Owning') = Cardinality(Owning) - 1
        /\ Cardinality(Granted') = Cardinality(Granted) - 1
        /\ Cardinality(draining') = Cardinality(draining) + 1
    BY <1>0, <1>6, <2>1, <2>3, <2>4, Gained, Lost, CountsFinite DEF DropBody
  <2> QED
    <3>1. UNCHANGED <<inUse, alive, abandoned>>
      BY <1>6 DEF DropBody, gauges
    <3> QED
      BY <1>0, <2>2, <2>5, <3>1, CountsFinite DEF GaugesTrue
<1>7. ASSUME NEW c \in Calls, DropHandler(c) PROVE GaugesTrue'
  <2>1. hold[c] # NoSlot
    BY <1>7 DEF DropHandler, HolderOK
  <2>2. ChanSet' = ChanSet
    BY <1>7 DEF DropHandler, ChanSet
  <2>3. Owning' = Owning \ {c} /\ c \in Owning
    BY <1>7, <2>1, OwningDrop DEF DropHandler
  <2>4. /\ Cardinality(Owning') = Cardinality(Owning) - 1
        /\ Cardinality(abandoned') = Cardinality(abandoned) + 1
        /\ abandoned' # {}
    BY <1>0, <1>7, <2>1, <2>3, Gained, Lost, CountsFinite DEF DropHandler
  <2> QED
    <3>1. UNCHANGED <<alive, draining>>
      BY <1>7 DEF DropHandler, gauges
    <3> QED
      BY <1>0, <2>2, <2>4, <3>1, CountsFinite DEF GaugesTrue
<1>8. ASSUME NEW s \in Slots, DrainDone(s) PROVE GaugesTrue'
  <2>1. s \in draining /\ s \notin ChanSet
    BY <1>8 DEF DrainDone, Conservation, Partition
  <2>2. ChanSet' = ChanSet \cup {s}
    BY <1>8, <2>1, ChanSend DEF DrainDone, Conservation
  <2>3. Owning' = Owning /\ Granted' = Granted
    BY <1>8 DEF DrainDone, Owning, Granted, handlerVars
  <2>4. /\ Cardinality(ChanSet') = Cardinality(ChanSet) + 1
        /\ Cardinality(draining') = Cardinality(draining) - 1
    BY <1>8, <2>1, <2>2, Gained, Lost, CountsFinite DEF DrainDone
  <2> QED
    BY <1>0, <1>8, <2>3, <2>4, CountsFinite DEF DrainDone, GaugesTrue
<1>9. ASSUME NEW s \in Slots, DrainFails(s) PROVE GaugesTrue'
  <2>1. ChanSet' = ChanSet /\ Owning' = Owning /\ Granted' = Granted
    BY <1>9 DEF DrainFails, ChanSet, Owning, Granted, handlerVars
  <2>2. Cardinality(draining') = Cardinality(draining) - 1
    BY <1>9, Lost, CountsFinite DEF DrainFails
  <2> QED
    BY <1>0, <1>9, <2>1, <2>2, CountsFinite DEF DrainFails, GaugesTrue
<1>10. ASSUME NEW s \in Slots, SpawnEnqueue(s) PROVE GaugesTrue'
  <2>1. s \notin ChanSet
    BY <1>10 DEF SpawnEnqueue, Spawning, Conservation, Partition
  <2>2. ChanSet' = ChanSet \cup {s} /\ Len(chan) < Size
    BY <1>10, <2>1, ChanSend DEF SpawnEnqueue, Conservation
  <2>3. Owning' = Owning /\ Granted' = Granted
    BY <1>10 DEF SpawnEnqueue, Owning, Granted, handlerVars
  <2>4. Cardinality(ChanSet') = Cardinality(ChanSet) + 1
    BY <2>1, <2>2, Gained, CountsFinite
  <2> QED
    BY <1>0, <1>10, <2>2, <2>3, <2>4, CountsFinite, SMTT(30) DEF SpawnEnqueue, GaugesTrue
\* The other steps move no session and grant none.
<1>11. CASE UNCHANGED <<chan, hold, draining, abandoned, gauges>> /\ Granted' = Granted
  <2>1. ChanSet' = ChanSet /\ Owning' = Owning
    BY <1>11 DEF ChanSet, Owning
  <2> QED
    BY <1>11, <2>1 DEF GaugesTrue, gauges
<1>12. ASSUME NEW c \in Calls, WriteEnvelope(c) PROVE Granted' = Granted
  BY <1>12, GrantedMoves DEF WriteEnvelope, Granted
<1>13. ASSUME NEW c \in Calls, Enqueue(c) \/ DropWaiting(c) PROVE Granted' = Granted
  BY <1>13, GrantedMoves DEF Enqueue, DropWaiting, Granted
<1>14. ASSUME NEW c \in Calls, CallStep(c) PROVE GaugesTrue'
  <2>1. CASE WriteEnvelope(c) \/ Enqueue(c) \/ DropWaiting(c)
    BY <1>11, <1>12, <1>13, <2>1 DEF WriteEnvelope, Enqueue, DropWaiting
  <2>2. CASE WriteFails(c) \/ StreamBreaks(c) \/ OneShotBreaks(c)
    BY <1>2, <2>2 DEF WriteFails, StreamBreaks, OneShotBreaks, Granted
  <2>3. CASE StreamTerminal(c) \/ OneShotAnswer(c)
    BY <1>1, <2>3 DEF StreamTerminal, OneShotAnswer, Granted
  <2> QED
    BY <1>3, <1>4, <1>5, <1>6, <1>7, <1>14, <2>1, <2>2, <2>3 DEF CallStep
<1>15. ASSUME NEW s \in Slots, SlotStep(s) PROVE GaugesTrue'
  BY <1>8, <1>9, <1>10, <1>11, <1>15
  DEF SlotStep, SessionDies, SpawnBegin, SpawnSeed, SpawnFails, Granted, handlerVars
<1>16. CASE Publish \/ NotifyCatalogChanged \/ UNCHANGED vars
  BY <1>11, <1>16 DEF Publish, NotifyCatalogChanged, vars, Granted, handlerVars
<1> QED
  BY <1>14, <1>15, <1>16 DEF Next

\* The gauges tell the truth for every pool size, whichever way sessions leave and
\* come back.
THEOREM GaugesTruthful == Spec => []GaugesTrue
<1>1. Init => CInv /\ GaugesTrue
  BY TypeInit, ConservationInit, GaugesInit DEF CInv
<1>2. CInv /\ GaugesTrue /\ [Next]_vars => (CInv /\ GaugesTrue)'
  BY TypeStep, ConservationStep, GaugesStep DEF CInv
<1> QED
  BY <1>1, <1>2, PTL DEF Spec
=============================================================================
