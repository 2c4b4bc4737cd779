--------------------------- MODULE ScenarioProofs ---------------------------
(***************************************************************************)
(* Proofs about the modules over Scenario: the cache of uploads, the       *)
(* curation of a provider's models, the rate limits of a process, the      *)
(* settings of a request, the clients that handles share and the names     *)
(* that lead to them, the failures of a provider with the cooldown they    *)
(* lead to, the calls of one answer, the commands that change the catalog  *)
(* and the file of the keys, the price of a call, the ranking of models    *)
(* and the bridge of the in-process factory.  Each is proved for every     *)
(* behaviour in which the steps of the module are taken together with any  *)
(* steps of other cases, as WireProofs does for the requests and the       *)
(* client; the last section shows that those of Algorithms, the            *)
(* specification that is checked, are such behaviours, and states the      *)
(* results of it.                                                          *)
(***************************************************************************)
EXTENDS Algorithms, WireProofs, FiniteSetTheorems, SequenceTheorems, WellFoundedInduction, TLAPS

-----------------------------------------------------------------------------
(* The cache of uploads.                                                   *)

UploadsSpec == Init /\ [][StartUploads \/ UploadStep \/ Elsewhere("uploads")]_scenario

Editions == 0 .. MaxEdits
UploadRecords == [video : Videos, edition : Editions] \cup {NoUpload}
Entries == [Hashes -> UploadRecords]
Stages == {"lookup", "missed", "processing", "ready", "hashed", "changed", "writing", "done", "gone"}
CallerRecords ==
    [video : Videos, stage : Stages, hash : Hashes, upload : UploadRecords, polls : Nat, copy : Entries,
     aborted : BOOLEAN]

UploadCases ==
    [kind : {"uploads"}, edition : [Videos -> Editions], settled : BOOLEAN, disk : Entries, parses : BOOLEAN,
     caller : [Callers -> CallerRecords]]

\* An upload stands for a hash: of the same file, of an edition that is no newer, and
\* of that very edition as long as no file has been edited while it was uploaded.
StandsFor(upload, hash, settled) ==
    /\ upload.video = hash[1] /\ upload.edition <= hash[2]
    /\ settled => upload.edition = hash[2]

\* Every entry stands for the hash it is kept under.
Sound(entries, settled) == \A h \in Hashes : entries[h] # NoUpload => StandsFor(entries[h], h, settled)

\* A call's hash is of its own file.  What it has uploaded stands for the file as it is,
\* and once the file has been hashed again for that hash.
CallerOK(m, edition, settled) ==
    /\ m.hash[1] = m.video
    /\ m.stage \in {"processing", "ready"} => StandsFor(m.upload, <<m.video, edition[m.video]>>, settled)
    /\ m.stage \in {"hashed", "changed", "writing", "done"} => StandsFor(m.upload, m.hash, settled)
    /\ Sound(m.copy, settled)

UploadsInv ==
    Uploading =>
        /\ scenario \in UploadCases
        /\ Sound(scenario.disk, scenario.settled)
        /\ \A c \in Callers : CallerOK(Me(c), scenario.edition, scenario.settled)

\* An empty cache holds nothing that could be wrong.
LEMMA NothingSound ==
    /\ Nothing \in Entries /\ NoUpload \in UploadRecords
    /\ \A settled \in BOOLEAN : Sound(Nothing, settled)
BY DEF Nothing, Entries, UploadRecords, Sound

\* A call that has just begun, and one that is over, have nothing to answer for.
LEMMA NewCallers ==
    ASSUME NEW f \in Videos, NEW edition, NEW settled \in BOOLEAN
    PROVE  /\ NewCaller(f) \in CallerRecords /\ CallerOK(NewCaller(f), edition, settled)
           /\ Gone \in CallerRecords /\ CallerOK(Gone, edition, settled)
<1>1. \A g \in Videos : NewCaller(g) \in CallerRecords /\ CallerOK(NewCaller(g), edition, settled)
  BY NothingSound, UploadsAssumption DEF NewCaller, CallerRecords, CallerOK, Stages, Hashes
<1> DEFINE g == CHOOSE x \in Videos : TRUE
           new == NewCaller(g)
<1>2. g \in Videos
  OBVIOUS
<1>3. new \in CallerRecords /\ CallerOK(new, edition, settled)
  BY <1>1, <1>2
<1>4. Gone = [new EXCEPT !.stage = "gone"]
  BY DEF Gone
<1> HIDE DEF new
<1>5. Gone \in CallerRecords
  BY <1>3, <1>4 DEF CallerRecords, Stages
<1>6. CallerOK(Gone, edition, settled)
  BY <1>3, <1>4 DEF CallerRecords, CallerOK
<1> QED
  BY <1>1, <1>5, <1>6

\* A step of one call leaves the files and the other calls alone, and the cache sound.
LEMMA CallKeeps ==
    ASSUME UploadsInv, Uploading, NEW c \in Callers, NEW caller \in CallerRecords,
           CallerOK(caller, scenario.edition, scenario.settled),
           scenario' \in UploadCases,
           scenario'.edition = scenario.edition, scenario'.settled = scenario.settled,
           Sound(scenario'.disk, scenario.settled),
           scenario'.caller = [scenario.caller EXCEPT ![c] = caller]
    PROVE  UploadsInv'
<1>1. \A d \in Callers : scenario'.caller[d] = IF d = c THEN caller ELSE scenario.caller[d]
  BY DEF UploadsInv, UploadCases
<1> QED
  BY <1>1 DEF UploadsInv, Me

\* Most steps touch nothing but the call.
LEMMA MoveKeeps ==
    ASSUME UploadsInv, Uploading, NEW c \in Callers, NEW caller \in CallerRecords, Move(c, caller),
           CallerOK(caller, scenario.edition, scenario.settled)
    PROVE  UploadsInv'
<1>1. scenario \in UploadCases /\ Sound(scenario.disk, scenario.settled)
  BY DEF UploadsInv
<1>2. /\ scenario' \in UploadCases
      /\ scenario'.edition = scenario.edition /\ scenario'.settled = scenario.settled
      /\ scenario'.disk = scenario.disk
      /\ scenario'.caller = [scenario.caller EXCEPT ![c] = caller]
  BY <1>1 DEF UploadCases, Move
<1> QED
  BY <1>1, <1>2, CallKeeps

\* What a call reads of the cache is sound, whether or not it can be parsed.
LEMMA LoadSound ==
    ASSUME UploadsInv, Uploading
    PROVE  LoadCache \in Entries /\ Sound(LoadCache, scenario.settled)
BY NothingSound DEF UploadsInv, UploadCases, LoadCache

\* Every step keeps the invariant.
LEMMA UploadsStep ==
    ASSUME UploadsInv, Uploading, UploadStep
    PROVE  UploadsInv'
<1>0. /\ scenario \in UploadCases /\ Sound(scenario.disk, scenario.settled)
      /\ scenario.settled \in BOOLEAN /\ scenario.edition \in [Videos -> Editions]
      /\ scenario.disk \in Entries
  BY DEF UploadsInv, UploadCases
<1>1. ASSUME NEW c \in Callers
      PROVE  /\ Me(c) \in CallerRecords /\ Me(c).video \in Videos /\ Me(c).hash \in Hashes
             /\ Me(c).upload \in UploadRecords /\ Me(c).polls \in Nat /\ Me(c).copy \in Entries
             /\ CallerOK(Me(c), scenario.edition, scenario.settled)
             /\ Gone \in CallerRecords /\ CallerOK(Gone, scenario.edition, scenario.settled)
  <2>1. Me(c) \in CallerRecords /\ CallerOK(Me(c), scenario.edition, scenario.settled)
    BY DEF UploadsInv, UploadCases, Me
  <2>2. Me(c).video \in Videos
    BY <2>1 DEF CallerRecords
  <2> QED
    BY <1>0, <2>1, <2>2, NewCallers DEF CallerRecords
<1>2. \A f \in Videos :
        /\ scenario.edition[f] \in Editions /\ HashFile(f) \in Hashes
        /\ HashFile(f) = <<f, scenario.edition[f]>>
        /\ Upload(f) \in UploadRecords /\ Upload(f) = [video |-> f, edition |-> scenario.edition[f]]
  BY <1>0 DEF HashFile, Hashes, Upload, UploadRecords, Editions
<1>3. ASSUME NEW c \in Callers, Move(c, Gone)
      PROVE  UploadsInv'
  BY <1>1, <1>3, MoveKeeps
<1>4. ASSUME NEW f \in Videos, EditVideo(f)
      PROVE  UploadsInv'
  <2> DEFINE busy == \E c \in Callers : Me(c).video = f /\ Me(c).stage \in InUpload
  <2>1. scenario' = [scenario EXCEPT !.edition[f] = @ + 1,
                         !.settled = @ /\ \A c \in Callers : ~(Me(c).video = f /\ Me(c).stage \in InUpload)]
    BY <1>4 DEF EditVideo
  <2>2. scenario.edition[f] \in Nat /\ scenario.edition[f] + 1 \in Editions
    BY <1>0, <1>4, UploadsAssumption DEF EditVideo, Editions
  <2>3. /\ scenario' \in UploadCases
        /\ scenario'.edition = [scenario.edition EXCEPT ![f] = @ + 1]
        /\ scenario'.settled \in BOOLEAN /\ scenario'.settled => scenario.settled /\ ~busy
        /\ scenario'.disk = scenario.disk /\ scenario'.caller = scenario.caller
    BY <1>0, <2>1, <2>2 DEF UploadCases
  <2>4. Sound(scenario'.disk, scenario'.settled)
    BY <1>0, <2>3 DEF Sound, StandsFor
  <2>5. ASSUME NEW c \in Callers
        PROVE  CallerOK(Me(c), scenario'.edition, scenario'.settled)
    <3> DEFINE m == Me(c)
    <3>1. /\ m.video \in Videos /\ CallerOK(m, scenario.edition, scenario.settled)
          /\ m.stage \in InUpload /\ m.video = f => busy
      BY <1>1
    <3>2. /\ scenario'.edition[m.video] = IF m.video = f THEN scenario.edition[f] + 1 ELSE scenario.edition[m.video]
          /\ m.upload.edition \in Nat
      BY <1>0, <1>1, <2>3 DEF UploadRecords, Editions, NoUpload
    <3> HIDE DEF m, busy
    <3>3. Sound(m.copy, scenario'.settled)
      BY <2>3, <3>1 DEF CallerOK, Sound, StandsFor
    <3>4. ASSUME m.stage \in {"processing", "ready"}
          PROVE  StandsFor(m.upload, <<m.video, scenario'.edition[m.video]>>, scenario'.settled)
      <4> DEFINE now == scenario.edition[m.video]
                 then == scenario'.edition[m.video]
                 was == <<m.video, now>>
                 is == <<m.video, then>>
      <4>1. /\ m.upload.video = m.video /\ m.upload.edition <= now
            /\ scenario.settled => m.upload.edition = now
        <5>1. StandsFor(m.upload, was, scenario.settled) /\ was[1] = m.video /\ was[2] = now
          BY <3>1, <3>4 DEF CallerOK
        <5> QED
          BY <5>1 DEF StandsFor
      <4>a. now \in Nat /\ now <= then /\ m.video # f => then = now
        BY <1>0, <2>2, <3>1, <3>2 DEF Editions
      <4>b. scenario'.settled => scenario.settled /\ m.video # f
        BY <2>3, <3>1, <3>4 DEF InUpload
      <4>2. /\ m.upload.edition <= then
            /\ scenario'.settled => m.upload.edition = then
        BY <2>2, <3>2, <4>1, <4>a, <4>b
      <4>3. is[1] = m.video /\ is[2] = then
        OBVIOUS
      <4> QED
        BY <4>1, <4>2, <4>3 DEF StandsFor
    <3>5. m.stage \in {"hashed", "changed", "writing", "done"} => StandsFor(m.upload, m.hash, scenario'.settled)
      BY <2>3, <3>1 DEF CallerOK, StandsFor
    <3>6. CallerOK(m, scenario'.edition, scenario'.settled)
      BY <3>1, <3>3, <3>4, <3>5 DEF CallerOK
    <3> QED
      BY <3>6 DEF m
  <2> QED
    BY <2>3, <2>4, <2>5 DEF UploadsInv, Me
<1>5. ASSUME NEW c \in Callers, GetCachedFile(c)
      PROVE  UploadsInv'
  <2> DEFINE m == Me(c)
             hash == HashFile(m.video)
             found == LoadCache[hash]
             new == [m EXCEPT !.hash = hash, !.upload = found, !.aborted = @ /\ found = NoUpload,
                              !.stage = IF found = NoUpload THEN "missed" ELSE "done"]
  <2>1. Move(c, new)
    BY <1>5 DEF GetCachedFile
  <2>2. /\ hash \in Hashes /\ hash[1] = m.video /\ found \in UploadRecords
        /\ found # NoUpload => StandsFor(found, hash, scenario.settled)
    BY <1>1, <1>2, LoadSound DEF Entries, Sound
  <2>3. m \in CallerRecords /\ CallerOK(m, scenario.edition, scenario.settled)
    BY <1>1
  <2> HIDE DEF m, hash, found
  <2>4. new \in CallerRecords
    BY <2>2, <2>3 DEF CallerRecords, Stages
  <2>5. CallerOK(new, scenario.edition, scenario.settled)
    BY <2>2, <2>3 DEF CallerRecords, CallerOK
  <2> QED
    BY <2>1, <2>4, <2>5, MoveKeeps
<1>6. ASSUME NEW c \in Callers, UploadFile(c)
      PROVE  UploadsInv'
  <2> DEFINE m == Me(c)
             sent == [m EXCEPT !.upload = Upload(m.video)]
             processing == [m EXCEPT !.upload = Upload(m.video), !.stage = "processing"]
             ready == Prepared(sent)
  <2>1. Move(c, Gone) \/ Move(c, processing) \/ Move(c, ready)
    BY <1>6 DEF UploadFile
  <2>2. /\ m \in CallerRecords /\ CallerOK(m, scenario.edition, scenario.settled)
        /\ Upload(m.video) \in UploadRecords
        /\ Upload(m.video) = [video |-> m.video, edition |-> scenario.edition[m.video]]
        /\ scenario.edition[m.video] \in Nat
    BY <1>1, <1>2 DEF Editions
  <2> HIDE DEF m
  <2>3. StandsFor(Upload(m.video), <<m.video, scenario.edition[m.video]>>, scenario.settled)
    BY <2>2 DEF StandsFor
  <2>4. processing \in CallerRecords /\ CallerOK(processing, scenario.edition, scenario.settled)
    BY <2>2, <2>3 DEF CallerRecords, Stages, CallerOK
  <2>5. ready \in CallerRecords /\ CallerOK(ready, scenario.edition, scenario.settled)
    BY <2>2, <2>3 DEF CallerRecords, Stages, CallerOK, Prepared
  <2> QED
    BY <1>3, <2>1, <2>4, <2>5, MoveKeeps
<1>7. ASSUME NEW c \in Callers, PollFile(c)
      PROVE  UploadsInv'
  <2> DEFINE m == Me(c)
             again == [m EXCEPT !.polls = @ + 1]
             ready == Prepared(m)
  <2>1. m.stage = "processing" /\ (Move(c, Gone) \/ Move(c, again) \/ Move(c, ready))
    BY <1>7 DEF PollFile, Stands, Me
  <2>2. m \in CallerRecords /\ CallerOK(m, scenario.edition, scenario.settled)
    BY <1>1
  <2> HIDE DEF m
  <2>3. again \in CallerRecords /\ CallerOK(again, scenario.edition, scenario.settled)
    BY <2>1, <2>2 DEF CallerRecords, CallerOK
  <2>4. ready \in CallerRecords /\ CallerOK(ready, scenario.edition, scenario.settled)
    BY <2>1, <2>2 DEF CallerRecords, Stages, CallerOK, Prepared
  <2> QED
    BY <1>3, <2>1, <2>3, <2>4, MoveKeeps
<1>8. ASSUME NEW c \in Callers, HashAgain(c)
      PROVE  UploadsInv'
  <2> DEFINE m == Me(c)
             new == [m EXCEPT !.hash = HashFile(m.video), !.stage = "hashed"]
  <2>1. m.stage = "ready" /\ Move(c, new)
    BY <1>8 DEF HashAgain, Stands, Me
  <2>2. /\ m \in CallerRecords /\ CallerOK(m, scenario.edition, scenario.settled)
        /\ HashFile(m.video) \in Hashes /\ HashFile(m.video) = <<m.video, scenario.edition[m.video]>>
    BY <1>1, <1>2
  <2>3. StandsFor(m.upload, HashFile(m.video), scenario.settled) /\ HashFile(m.video)[1] = m.video
    BY <2>1, <2>2 DEF CallerOK
  <2> HIDE DEF m
  <2>4. new \in CallerRecords
    BY <2>1, <2>2 DEF CallerRecords, Stages
  <2>5. /\ new.hash = HashFile(m.video) /\ new.upload = m.upload /\ new.copy = m.copy /\ new.video = m.video
        /\ new.stage = "hashed"
    BY <2>2 DEF CallerRecords
  <2>6. CallerOK(new, scenario.edition, scenario.settled)
    BY <2>2, <2>3, <2>5 DEF CallerOK
  <2> QED
    BY <2>1, <2>4, <2>6, MoveKeeps
<1>9. ASSUME NEW c \in Callers, SetCachedFile(c)
      PROVE  UploadsInv'
  <2> DEFINE m == Me(c)
             copy == [LoadCache EXCEPT ![m.hash] = m.upload]
             new == [m EXCEPT !.copy = copy, !.stage = "changed"]
  <2>1. m.stage = "hashed" /\ Move(c, new)
    BY <1>9 DEF SetCachedFile, Stands, Me
  <2>2. m \in CallerRecords /\ CallerOK(m, scenario.edition, scenario.settled)
    BY <1>1
  <2>3. m.hash \in Hashes /\ m.upload \in UploadRecords /\ StandsFor(m.upload, m.hash, scenario.settled)
    BY <2>1, <2>2 DEF CallerRecords, CallerOK
  <2>4. copy \in Entries /\ Sound(copy, scenario.settled)
    BY <2>3, LoadSound DEF Entries, Sound
  <2> HIDE DEF m, copy
  <2>5. new \in CallerRecords /\ CallerOK(new, scenario.edition, scenario.settled)
    BY <2>1, <2>2, <2>4 DEF CallerRecords, Stages, CallerOK
  <2> QED
    BY <2>1, <2>5, MoveKeeps
<1>10. ASSUME NEW c \in Callers, TruncateCache(c)
       PROVE  UploadsInv'
  <2> DEFINE m == Me(c)
             new == [m EXCEPT !.stage = "writing"]
  <2>1. /\ m.stage = "changed"
        /\ scenario' = [scenario EXCEPT !.disk = Nothing, !.parses = FALSE, !.caller[c].stage = "writing"]
    BY <1>10 DEF TruncateCache, Stands, Me
  <2>2. m \in CallerRecords /\ CallerOK(m, scenario.edition, scenario.settled) /\ m = scenario.caller[c]
    BY <1>1 DEF Me
  <2> HIDE DEF m
  <2>3. new \in CallerRecords /\ CallerOK(new, scenario.edition, scenario.settled)
    BY <2>1, <2>2 DEF CallerRecords, Stages, CallerOK
  <2>4. /\ scenario'.caller = [scenario.caller EXCEPT ![c] = new]
        /\ scenario'.edition = scenario.edition /\ scenario'.settled = scenario.settled
        /\ scenario'.disk = Nothing
    BY <1>0, <2>1, <2>2 DEF UploadCases
  <2>5. scenario' \in UploadCases
    BY <1>0, <2>1, <2>2, <2>3, NothingSound DEF UploadCases
  <2> QED
    BY <1>0, <2>3, <2>4, <2>5, NothingSound, CallKeeps
<1>11. ASSUME NEW c \in Callers, WriteCache(c)
       PROVE  UploadsInv'
  <2> DEFINE m == Me(c)
             copy == m.copy
             new == [m EXCEPT !.stage = "done", !.copy = Nothing]
             written == [scenario EXCEPT !.disk = copy, !.parses = TRUE, !.caller[c] = new]
  <2>1. m.stage = "writing" /\ (scenario' = written \/ scenario' = [written EXCEPT !.parses = FALSE])
    BY <1>11 DEF WriteCache, Stands, Me
  <2>2. /\ m \in CallerRecords /\ CallerOK(m, scenario.edition, scenario.settled)
        /\ copy \in Entries /\ Sound(copy, scenario.settled)
    BY <1>1 DEF CallerOK
  <2> HIDE DEF m
  <2>3. new \in CallerRecords /\ CallerOK(new, scenario.edition, scenario.settled)
    BY <1>0, <2>1, <2>2, NothingSound DEF CallerRecords, Stages, CallerOK
  <2> HIDE DEF copy, new
  <2>4. /\ written \in UploadCases
        /\ written.caller = [scenario.caller EXCEPT ![c] = new]
        /\ written.edition = scenario.edition /\ written.settled = scenario.settled
        /\ written.disk = copy
    BY <1>0, <2>2, <2>3 DEF UploadCases
  <2> HIDE DEF written
  <2>5. /\ scenario' \in UploadCases
        /\ scenario'.caller = [scenario.caller EXCEPT ![c] = new]
        /\ scenario'.edition = scenario.edition /\ scenario'.settled = scenario.settled
        /\ scenario'.disk = copy
    BY <2>1, <2>4 DEF UploadCases
  <2> QED
    BY <2>2, <2>3, <2>5, CallKeeps
<1>12. ASSUME NEW c \in Callers, WriteFails(c)
       PROVE  UploadsInv'
  <2> DEFINE m == Me(c)
             new == [m EXCEPT !.stage = "done", !.copy = Nothing]
  <2>1. m.stage = "changed" /\ Move(c, new)
    BY <1>12 DEF WriteFails, Stands, Me
  <2>2. m \in CallerRecords /\ CallerOK(m, scenario.edition, scenario.settled)
    BY <1>1
  <2> HIDE DEF m
  <2>3. new \in CallerRecords /\ CallerOK(new, scenario.edition, scenario.settled)
    BY <1>0, <2>1, <2>2, NothingSound DEF CallerRecords, Stages, CallerOK
  <2> QED
    BY <2>1, <2>3, MoveKeeps
<1>13. ASSUME NEW c \in Callers, AbortUpload(c)
       PROVE  UploadsInv'
  <2> DEFINE m == Me(c)
             new == [m EXCEPT !.aborted = TRUE]
  <2>1. Move(c, new)
    BY <1>13 DEF AbortUpload
  <2>2. m \in CallerRecords /\ CallerOK(m, scenario.edition, scenario.settled)
    BY <1>1
  <2> HIDE DEF m
  <2>3. new \in CallerRecords /\ CallerOK(new, scenario.edition, scenario.settled)
    BY <2>2 DEF CallerRecords, CallerOK
  <2> QED
    BY <2>1, <2>3, MoveKeeps
<1>14. ASSUME NEW c \in Callers, KillSession(c)
       PROVE  UploadsInv'
  BY <1>3, <1>14 DEF KillSession
<1>15. ASSUME NEW c \in Callers, NextCall(c)
       PROVE  UploadsInv'
  BY <1>0, <1>15, NewCallers, MoveKeeps DEF NextCall
<1> QED
  BY <1>4, <1>5, <1>6, <1>7, <1>8, <1>9, <1>10, <1>11, <1>12, <1>13, <1>14, <1>15 DEF UploadStep
\* The invariant holds of every behaviour.
LEMMA UploadsInvariant == UploadsSpec => []UploadsInv
<1>1. Init => UploadsInv
  BY DEF Init, Idle, UploadsInv, Uploading
<1>2. ASSUME UploadsInv, StartUploads
      PROVE  UploadsInv'
  <2>1. scenario = Idle
    BY <1>2 DEF StartUploads
  <2>2. PICK asked \in [Callers -> Videos] :
            scenario' = [kind |-> "uploads", edition |-> [f \in Videos |-> 0], settled |-> TRUE,
                         disk |-> Nothing, parses |-> TRUE,
                         caller |-> [c \in Callers |-> NewCaller(asked[c])]]
    BY <1>2 DEF StartUploads
  <2>3. \A c \in Callers : /\ asked[c] \in Videos /\ scenario'.caller[c] = NewCaller(asked[c])
                           /\ NewCaller(asked[c]) \in CallerRecords
                           /\ CallerOK(NewCaller(asked[c]), scenario'.edition, TRUE)
    BY <2>2, NewCallers
  <2>4. Sound(Nothing, TRUE) /\ Nothing \in Entries
    BY NothingSound
  <2>5. /\ scenario'.settled = TRUE /\ scenario'.disk = Nothing
        /\ scenario' \in UploadCases
    <3>1. [f \in Videos |-> 0] \in [Videos -> Editions]
      BY UploadsAssumption DEF Editions
    <3>2. [c \in Callers |-> NewCaller(asked[c])] \in [Callers -> CallerRecords]
      BY <2>2, NewCallers
    <3> QED
      BY <2>2, <2>4, <3>1, <3>2 DEF UploadCases
  <2> QED
    BY <2>3, <2>4, <2>5 DEF UploadsInv, Me
<1>3. ASSUME UploadsInv, UploadStep
      PROVE  UploadsInv'
  BY <1>3, UploadsStep DEF UploadStep
<1>4. UploadsInv /\ [StartUploads \/ UploadStep \/ Elsewhere("uploads")]_scenario => UploadsInv'
  <2>1. ASSUME UploadsInv, Elsewhere("uploads")
        PROVE  UploadsInv'
    BY <2>1 DEF Elsewhere, UploadsInv, Uploading
  <2>2. ASSUME UploadsInv, UNCHANGED scenario
        PROVE  UploadsInv'
    BY <2>2 DEF UploadsInv, Uploading, Me
  <2> QED
    BY <1>2, <1>3, <2>1, <2>2
<1> QED
  BY <1>1, <1>4, PTL DEF UploadsSpec

\* A hash is a file and an edition of it.
LEMMA HashPairs == \A h \in Hashes : h = <<h[1], h[2]>>
BY DEF Hashes

\* What the invariant says of the cache and the calls is what a caller relies on.
LEMMA UploadsInvTruthful == UploadsInv => UploadsTruthful
<1> SUFFICES ASSUME UploadsInv, Uploading
             PROVE  UploadsTruthful
  BY DEF UploadsTruthful, CachedAsLooked, NeverAnotherVideo
<1>1. \A c \in Callers : Me(c) \in CallerRecords /\ CallerOK(Me(c), scenario.edition, scenario.settled)
  BY DEF UploadsInv, UploadCases, Me
<1>2. ASSUME NEW h \in Hashes, NEW e \in Recorded[h]
      PROVE  StandsFor(e, h, scenario.settled)
  <2>1. e \in {LoadCache[h]} \cup {Me(c).copy[h] : c \in Callers} /\ e # NoUpload
    BY <1>2 DEF Recorded
  <2>2. CASE e = LoadCache[h]
    BY <2>1, <2>2, LoadSound DEF Sound
  <2>3. ASSUME NEW c \in Callers, e = Me(c).copy[h]
        PROVE  StandsFor(e, h, scenario.settled)
    BY <1>1, <2>1, <2>3 DEF CallerOK, Sound
  <2> QED
    BY <2>1, <2>2, <2>3
<1>3. ASSUME NEW c \in Callers, Stands(c, "done")
      PROVE  /\ StandsFor(Me(c).upload, Me(c).hash, scenario.settled)
             /\ Me(c).hash[1] = Me(c).video /\ Me(c).hash \in Hashes
  BY <1>1, <1>3 DEF Stands, Me, CallerOK, CallerRecords
<1>4. CachedAsLooked
  BY <1>2, <1>3, HashPairs DEF CachedAsLooked, StandsFor
<1>5. NeverAnotherVideo
  BY <1>2, <1>3 DEF NeverAnotherVideo, StandsFor
<1> QED
  BY <1>4, <1>5 DEF UploadsTruthful

\* _videos.js: however many calls race for the cache, are aborted, killed or overwrite
\* each other's writes, what is cached and what a call is given is an upload of the
\* file asked for, and of the edition looked up unless it was edited meanwhile.
LEMMA UploadsPart == UploadsSpec => []UploadsTruthful
BY UploadsInvariant, UploadsInvTruthful, PTL
-----------------------------------------------------------------------------
(* Curation.                                                               *)

CurationNext ==
    \/ StartCuration \/ PickModel \/ Include \/ Exclude \/ AddAlias \/ ReplaceModel \/ Skip
    \/ SaveCurated \/ SaveExcluded \/ SaveAborted \/ Resume

CurationSpec == Init /\ [][CurationNext \/ Elsewhere("curate")]_scenario

CuratedKeys == Upstream \cup {"house"}
CuratedRecords ==
    [model : Upstream, aliases : SUBSET Upstream, replaces : SUBSET CuratedKeys, upstream : SUBSET Upstream]
Lists == UNION {[keys -> CuratedRecords] : keys \in SUBSET CuratedKeys}

Settled == {"pick", "answer", "saved"}
Saving == {"save", "exclude", "save then exclude", "second"}

CurationRecords ==
    [kind : {"curate"}, searching : BOOLEAN, step : Settled \cup Saving \cup {"over"}, id : CuratedKeys,
     file : [curated : Lists, excluded : Lists], curated : Lists, excluded : Lists,
     offered : SUBSET Upstream, handled : SUBSET Upstream, replaced : SUBSET CuratedKeys,
     again : BOOLEAN, torn : BOOLEAN, choices : Nat]

\* The chosen model is one of the provider's.
CurationCases == {s \in CurationRecords : s.step \in Saving \cup {"answer"} => s.id \in Upstream}

\* What a list is known to track once it has been saved and loaded: its keys, its
\* models and their aliases.
KnownIds(list) == DOMAIN list \cup UNION {{list[k].model} \cup list[k].aliases : k \in DOMAIN list}

\* A file holds what a list in memory holds, but for what a load computes.
Same(file, list) ==
    /\ DOMAIN file = DOMAIN list
    /\ \A k \in DOMAIN list : /\ file[k].model = list[k].model
                              /\ file[k].aliases = list[k].aliases
                              /\ file[k].replaces = list[k].replaces

\* A model is chosen and not yet saved: nobody has dealt with it before, and once the
\* lists have been changed one of them knows it.
ChoiceOK(s) ==
    /\ s.step = "answer" => s.id \notin s.handled
    /\ s.step \in Saving => s.id \in KnownIds(s.curated) \cup KnownIds(s.excluded)

\* The provider's models that are keys have been dealt with, but for the chosen one.
KeysOK(s) ==
    s.step # "over" =>
        \A k \in DOMAIN s.curated \cup DOMAIN s.excluded :
            k \in Upstream => k \in s.handled \/ (s.step \in Saving /\ k = s.id)

\* Which file has been brought up to the lists.
FilesOK(s) ==
    /\ s.step \in Settled \cup {"exclude", "second"} => Same(s.file.curated, s.curated)
    /\ s.step \in Settled \cup {"save"} => Same(s.file.excluded, s.excluded)
    /\ s.step = "save then exclude" => DOMAIN s.file.excluded \subseteq DOMAIN s.excluded

\* No key is in both lists, in memory or on disk.
ApartOK(s) ==
    /\ DOMAIN s.curated \cap DOMAIN s.excluded = {}
    /\ DOMAIN s.file.curated \cap DOMAIN s.file.excluded = {}

\* What has been dealt with is known to a list, and to a file unless the session is
\* between the two saves of a replacement or ended there.
HandledOK(s) ==
    /\ s.torn => s.step = "over"
    /\ s.handled \subseteq KnownIds(s.curated) \cup KnownIds(s.excluded)
    /\ (~s.torn /\ s.step # "second") =>
            s.handled \subseteq KnownIds(s.file.curated) \cup KnownIds(s.file.excluded)

\* What has been replaced is excluded, and one curated entry tells of it.
LineageOK(s) ==
    /\ s.replaced \subseteq DOMAIN s.excluded
    /\ \A k \in DOMAIN s.curated : s.curated[k].replaces \subseteq s.replaced
    /\ \A key \in s.replaced : \E k \in DOMAIN s.curated : \A j \in DOMAIN s.curated :
            key \in s.curated[j].replaces <=> j = k

CurationOK(s) == ChoiceOK(s) /\ KeysOK(s) /\ FilesOK(s) /\ ApartOK(s) /\ HandledOK(s) /\ LineageOK(s)

CurationInv ==
    Working =>
        /\ scenario \in CurationCases
        /\ ~scenario.again => CurationOK(scenario)
\* A list is a function from keys to entries.
LEMMA ListTypes ==
    ASSUME NEW list \in Lists
    PROVE  /\ DOMAIN list \subseteq CuratedKeys /\ list \in [DOMAIN list -> CuratedRecords]
           /\ \A k \in DOMAIN list :
                /\ list[k] \in CuratedRecords /\ list[k].model \in Upstream
                /\ list[k].aliases \subseteq Upstream /\ list[k].replaces \subseteq CuratedKeys
                /\ list[k].upstream \subseteq Upstream
<1>1. PICK keys \in SUBSET CuratedKeys : list \in [keys -> CuratedRecords]
  BY DEF Lists
<1> QED
  BY <1>1 DEF CuratedRecords

\* Any function from keys to entries is a list.
LEMMA MakesList ==
    ASSUME NEW keys \in SUBSET CuratedKeys, NEW list \in [keys -> CuratedRecords]
    PROVE  list \in Lists /\ DOMAIN list = keys
BY DEF Lists

\* An entry is put under a key.
LEMMA EntryPut ==
    ASSUME NEW list \in Lists, NEW key \in CuratedKeys, NEW entry \in CuratedRecords,
           NEW new, new = PutEntry(list, key, entry)
    PROVE  /\ new \in Lists /\ DOMAIN new = DOMAIN list \cup {key}
           /\ new[key] = entry
           /\ \A k \in DOMAIN list : k # key => new[k] = list[k]
<1>1. DOMAIN list \subseteq CuratedKeys /\ \A k \in DOMAIN list : list[k] \in CuratedRecords
  BY ListTypes
<1>2. new \in [DOMAIN list \cup {key} -> CuratedRecords]
  BY <1>1 DEF PutEntry
<1>3. new \in Lists
  BY <1>1, <1>2, MakesList
<1> QED
  BY <1>3 DEF PutEntry

\* An entry is taken away.
LEMMA EntryTaken ==
    ASSUME NEW list \in Lists, NEW key, NEW new, new = Without(list, key)
    PROVE  /\ new \in Lists /\ DOMAIN new = DOMAIN list \ {key}
           /\ \A k \in DOMAIN new : new[k] = list[k]
<1>1. DOMAIN list \subseteq CuratedKeys /\ \A k \in DOMAIN list : list[k] \in CuratedRecords
  BY ListTypes
<1>2. Without(list, key) \in [DOMAIN list \ {key} -> CuratedRecords]
  BY <1>1 DEF Without
<1> QED
  BY <1>1, <1>2, MakesList DEF Without

\* What is saved is the same list, and so is what is loaded.
LEMMA SaveAndLoad ==
    ASSUME NEW list \in Lists
    PROVE  /\ Strip(list) \in Lists /\ Same(Strip(list), list)
           /\ Load(list) \in Lists /\ Same(list, Load(list))
<1>1. /\ DOMAIN list \subseteq CuratedKeys
      /\ \A k \in DOMAIN list : /\ list[k] \in CuratedRecords /\ list[k].model \in Upstream
                                /\ list[k].aliases \subseteq Upstream
  BY ListTypes
<1>2. ASSUME NEW k \in DOMAIN list, NEW ids \in SUBSET Upstream
      PROVE  [list[k] EXCEPT !.upstream = ids] \in CuratedRecords
  BY <1>1 DEF CuratedRecords
<1>3. Strip(list) \in [DOMAIN list -> CuratedRecords]
  BY <1>2 DEF Strip
<1>4. Load(list) \in [DOMAIN list -> CuratedRecords]
  BY <1>1, <1>2 DEF Load
<1>5. Same(Strip(list), list)
  BY <1>1 DEF Strip, Same, CuratedRecords
<1>6. Same(list, Load(list))
  BY <1>1 DEF Load, Same, CuratedRecords
<1> QED
  BY <1>1, <1>3, <1>4, <1>5, <1>6, MakesList

\* Lists that are the same track the same.
LEMMA SameKnown ==
    ASSUME NEW file \in Lists, NEW list \in Lists, Same(file, list)
    PROVE  KnownIds(file) = KnownIds(list)
BY DEF Same, KnownIds

\* A loaded list tracks what is known of the file.
LEMMA TrackedKnown ==
    ASSUME NEW file \in Lists, NEW id
    PROVE  Tracked(Load(file), id) <=> id \in KnownIds(file)
<1>1. \A k \in DOMAIN file : file[k] \in CuratedRecords
  BY ListTypes
<1>2. /\ DOMAIN Load(file) = DOMAIN file
      /\ \A k \in DOMAIN file : Load(file)[k].upstream = {file[k].model} \cup file[k].aliases
  BY <1>1 DEF Load, CuratedRecords
<1> QED
  BY <1>2 DEF Tracked, KnownIds
\* Every id that is known is known by some entry.
LEMMA KnownMembers ==
    ASSUME NEW list, NEW id
    PROVE  id \in KnownIds(list) <=>
                \E k \in DOMAIN list : id = k \/ id = list[k].model \/ id \in list[k].aliases
<1>1. ASSUME NEW k \in DOMAIN list, id = list[k].model \/ id \in list[k].aliases
      PROVE  id \in KnownIds(list)
  BY <1>1 DEF KnownIds
<1>2. ASSUME id \in KnownIds(list)
      PROVE  \E k \in DOMAIN list : id = k \/ id = list[k].model \/ id \in list[k].aliases
  BY <1>2 DEF KnownIds
<1>3. ASSUME id \in DOMAIN list
      PROVE  id \in KnownIds(list)
  BY <1>3 DEF KnownIds
<1> QED
  BY <1>1, <1>2, <1>3

\* What an entry is kept under, stands for or is also called, is known.
LEMMA KnownByEntry ==
    ASSUME NEW list, NEW k \in DOMAIN list, NEW id, id = k \/ id = list[k].model \/ id \in list[k].aliases
    PROVE  id \in KnownIds(list)
BY KnownMembers

\* A list that keeps its entries with their models and aliases knows what it knew.
LEMMA KnownGrows ==
    ASSUME NEW list \in Lists, NEW new \in Lists, DOMAIN list \subseteq DOMAIN new,
           \A k \in DOMAIN list : new[k].model = list[k].model /\ list[k].aliases \subseteq new[k].aliases
    PROVE  KnownIds(list) \subseteq KnownIds(new)
BY DEF KnownIds

\* The fields of a case.
LEMMA CaseTypes ==
    ASSUME NEW s \in CurationCases
    PROVE  /\ s.step \in Settled \cup Saving \cup {"over"} /\ s.id \in CuratedKeys
           /\ s.file.curated \in Lists /\ s.file.excluded \in Lists
           /\ s.curated \in Lists /\ s.excluded \in Lists
           /\ s.offered \subseteq Upstream /\ s.handled \subseteq Upstream /\ s.replaced \subseteq CuratedKeys
           /\ DOMAIN s.curated \subseteq CuratedKeys /\ DOMAIN s.excluded \subseteq CuratedKeys
           /\ s.step \in Saving \cup {"answer"} => s.id \in Upstream
<1>1. s.curated \in Lists /\ s.excluded \in Lists
  BY DEF CurationCases, CurationRecords
<1> QED
  BY <1>1, ListTypes DEF CurationCases, CurationRecords

\* What a choice leaves alone.
SameButLists(s, t) ==
    /\ t.file = s.file /\ t.id = s.id /\ t.handled = s.handled /\ t.torn = s.torn

\* A model that nobody has dealt with is a key of neither list.
LEMMA ChosenIsNew ==
    ASSUME NEW s \in CurationCases, s.step = "answer", CurationOK(s)
    PROVE  s.id \in Upstream /\ s.id \notin DOMAIN s.curated /\ s.id \notin DOMAIN s.excluded
BY DEF CurationOK, ChoiceOK, KeysOK, CurationCases, Saving

\* The chosen model as an entry.
LEMMA ChosenEntry ==
    ASSUME NEW id \in Upstream
    PROVE  /\ CuratedEntry(id) \in CuratedRecords /\ id \in CuratedKeys
           /\ CuratedEntry(id).model = id /\ CuratedEntry(id).replaces = {}
BY DEF CuratedEntry, CuratedRecords, CuratedKeys

\* processOneModel, include: the model is put among the curated ones, to be saved.
LEMMA IncludeOK ==
    ASSUME NEW s \in CurationCases, NEW t \in CurationCases, s.step = "answer", CurationOK(s),
           SameButLists(s, t), t.step = "save",
           t.curated = PutEntry(s.curated, s.id, CuratedEntry(s.id)), t.excluded = s.excluded,
           t.replaced = s.replaced
    PROVE  CurationOK(t)
<1>1. s.id \in Upstream /\ s.id \notin DOMAIN s.curated /\ s.id \notin DOMAIN s.excluded
  BY ChosenIsNew
<1>2. /\ t.curated \in Lists /\ DOMAIN t.curated = DOMAIN s.curated \cup {s.id}
      /\ t.curated[s.id].replaces = {}
      /\ \A k \in DOMAIN s.curated : t.curated[k] = s.curated[k]
  BY <1>1, CaseTypes DEF PutEntry, CuratedEntry
<1>3. KnownIds(s.curated) \subseteq KnownIds(t.curated)
  BY <1>2, CaseTypes, KnownGrows
<1>4. ChoiceOK(t)
  BY <1>1, <1>2 DEF ChoiceOK, SameButLists, Saving, KnownIds
<1>5. KeysOK(t)
  BY <1>2 DEF CurationOK, KeysOK, SameButLists, Saving
<1>6. FilesOK(t)
  BY DEF CurationOK, FilesOK, SameButLists, Settled
<1>7. ApartOK(t)
  BY <1>1, <1>2 DEF CurationOK, ApartOK, SameButLists
<1>8. HandledOK(t)
  BY <1>3 DEF CurationOK, HandledOK, SameButLists
<1>9. LineageOK(t)
  <2>1. \A k \in DOMAIN t.curated : t.curated[k].replaces \subseteq t.replaced
    BY <1>2 DEF CurationOK, LineageOK
  <2>2. ASSUME NEW key \in t.replaced
        PROVE  \E k \in DOMAIN t.curated : \A j \in DOMAIN t.curated :
                    key \in t.curated[j].replaces <=> j = k
    <3>1. PICK k \in DOMAIN s.curated : \A j \in DOMAIN s.curated :
                    key \in s.curated[j].replaces <=> j = k
      BY DEF CurationOK, LineageOK
    <3> QED
      BY <1>1, <1>2, <3>1
  <2> QED
    BY <2>1, <2>2 DEF CurationOK, LineageOK
<1> QED
  BY <1>4, <1>5, <1>6, <1>7, <1>8, <1>9 DEF CurationOK

\* processOneModel, exclude: the model is put among the excluded ones, to be saved.
LEMMA ExcludeOK ==
    ASSUME NEW s \in CurationCases, NEW t \in CurationCases, s.step = "answer", CurationOK(s),
           SameButLists(s, t), t.step = "exclude",
           t.excluded = PutEntry(s.excluded, s.id, CuratedEntry(s.id)), t.curated = s.curated,
           t.replaced = s.replaced
    PROVE  CurationOK(t)
<1>1. s.id \in Upstream /\ s.id \notin DOMAIN s.curated /\ s.id \notin DOMAIN s.excluded
  BY ChosenIsNew
<1>2. /\ t.excluded \in Lists /\ DOMAIN t.excluded = DOMAIN s.excluded \cup {s.id}
      /\ \A k \in DOMAIN s.excluded : t.excluded[k] = s.excluded[k]
  BY <1>1, CaseTypes DEF PutEntry
<1>3. KnownIds(s.excluded) \subseteq KnownIds(t.excluded)
  BY <1>2, CaseTypes, KnownGrows
<1>4. ChoiceOK(t)
  BY <1>1, <1>2 DEF ChoiceOK, SameButLists, Saving, KnownIds
<1>5. KeysOK(t)
  BY <1>2 DEF CurationOK, KeysOK, SameButLists, Saving
<1>6. FilesOK(t)
  BY DEF CurationOK, FilesOK, SameButLists, Settled
<1>7. ApartOK(t)
  BY <1>1, <1>2 DEF CurationOK, ApartOK, SameButLists
<1>8. HandledOK(t)
  BY <1>3 DEF CurationOK, HandledOK, SameButLists
<1>9. LineageOK(t)
  BY <1>2 DEF CurationOK, LineageOK
<1> QED
  BY <1>4, <1>5, <1>6, <1>7, <1>8, <1>9 DEF CurationOK

\* addAliasToExistingModel: a curated entry knows the model by one more name.
LEMMA AddAliasOK ==
    ASSUME NEW s \in CurationCases, NEW t \in CurationCases, s.step = "answer", CurationOK(s),
           SameButLists(s, t), t.step = "save", NEW key \in DOMAIN s.curated,
           t.curated = [s.curated EXCEPT ![key].aliases = @ \cup {s.id}, ![key].upstream = @ \cup {s.id}],
           t.excluded = s.excluded, t.replaced = s.replaced
    PROVE  CurationOK(t)
<1>1. s.id \in Upstream /\ s.id \notin DOMAIN s.curated /\ s.id \notin DOMAIN s.excluded
  BY ChosenIsNew
<1>2. /\ DOMAIN t.curated = DOMAIN s.curated
      /\ s.id \in t.curated[key].aliases
      /\ \A k \in DOMAIN s.curated : /\ t.curated[k].model = s.curated[k].model
                                     /\ s.curated[k].aliases \subseteq t.curated[k].aliases
                                     /\ t.curated[k].replaces = s.curated[k].replaces
  <2> DEFINE list == s.curated
             new == t.curated
             id == s.id
  <2>1. list \in Lists /\ \A k \in DOMAIN list : list[k] \in CuratedRecords
    BY CaseTypes, ListTypes
  <2>2. /\ new = [list EXCEPT ![key].aliases = @ \cup {id}, ![key].upstream = @ \cup {id}]
        /\ key \in DOMAIN list
    OBVIOUS
  <2> HIDE DEF list, new, id
  <2>3. DOMAIN new = DOMAIN list /\ \A k \in DOMAIN list : k # key => new[k] = list[k]
    BY <2>2
  <2>4. new[key] = [list[key] EXCEPT !.aliases = @ \cup {id}, !.upstream = @ \cup {id}]
    BY <2>1, <2>2 DEF CuratedRecords
  <2>5. /\ id \in new[key].aliases /\ list[key].aliases \subseteq new[key].aliases
        /\ new[key].model = list[key].model /\ new[key].replaces = list[key].replaces
    BY <2>1, <2>2, <2>4 DEF CuratedRecords
  <2>6. \A k \in DOMAIN list : /\ new[k].model = list[k].model
                               /\ list[k].aliases \subseteq new[k].aliases
                               /\ new[k].replaces = list[k].replaces
    BY <2>3, <2>5
  <2> QED
    BY <2>3, <2>5, <2>6 DEF list, new, id
<1>3. KnownIds(s.curated) \subseteq KnownIds(t.curated)
  BY <1>2, CaseTypes, KnownGrows
<1>4. ChoiceOK(t)
  <2>1. t.step = "save" /\ t.id = s.id /\ key \in DOMAIN t.curated
    BY <1>2 DEF SameButLists
  <2>2. t.id \in KnownIds(t.curated)
    BY <1>2, <2>1, KnownByEntry
  <2> QED
    BY <2>1, <2>2 DEF ChoiceOK
<1>5. KeysOK(t)
  BY <1>2 DEF CurationOK, KeysOK, SameButLists, Saving
<1>6. FilesOK(t)
  BY DEF CurationOK, FilesOK, SameButLists, Settled
<1>7. ApartOK(t)
  BY <1>1, <1>2 DEF CurationOK, ApartOK, SameButLists
<1>8. HandledOK(t)
  BY <1>3 DEF CurationOK, HandledOK, SameButLists
<1>9. LineageOK(t)
  <2>1. s.replaced \subseteq DOMAIN s.excluded /\ \A k \in DOMAIN s.curated : s.curated[k].replaces \subseteq s.replaced
    BY DEF CurationOK, LineageOK
  <2>2. ASSUME NEW r \in t.replaced
        PROVE  \E k \in DOMAIN t.curated : \A j \in DOMAIN t.curated : r \in t.curated[j].replaces <=> j = k
    <3>1. PICK k \in DOMAIN s.curated : \A j \in DOMAIN s.curated : r \in s.curated[j].replaces <=> j = k
      BY DEF CurationOK, LineageOK
    <3>2. k \in DOMAIN t.curated /\ \A j \in DOMAIN t.curated : r \in t.curated[j].replaces <=> j = k
      BY <1>2, <3>1
    <3> QED
      BY <3>2
  <2>3. \A k \in DOMAIN t.curated : t.curated[k].replaces \subseteq t.replaced
    BY <1>2, <2>1
  <2> QED
    BY <2>1, <2>2, <2>3 DEF LineageOK
<1> QED
  BY <1>4, <1>5, <1>6, <1>7, <1>8, <1>9 DEF CurationOK

\* replaceModel: the model follows a curated one, which is put among the excluded ones.
LEMMA ReplaceOK ==
    ASSUME NEW s \in CurationCases, NEW t \in CurationCases, s.step = "answer", CurationOK(s),
           SameButLists(s, t), t.step = "save then exclude", NEW key \in DOMAIN s.curated, key # s.id,
           t.curated = PutEntry(Without(s.curated, key), s.id, Successor(s.curated[key], key, s.id)),
           t.excluded = PutEntry(s.excluded, key, s.curated[key]),
           t.replaced = s.replaced \cup {key}
    PROVE  CurationOK(t)
<1>1. s.id \in Upstream /\ s.id \notin DOMAIN s.curated /\ s.id \notin DOMAIN s.excluded
  BY ChosenIsNew
<1>2. /\ DOMAIN t.curated = (DOMAIN s.curated \ {key}) \cup {s.id}
      /\ \A k \in DOMAIN s.curated \ {key} : t.curated[k] = s.curated[k]
      /\ t.curated[s.id] = Successor(s.curated[key], key, s.id)
  BY <1>1 DEF PutEntry, Without
<1>3. t.curated[s.id].replaces = s.curated[key].replaces \cup {key}
  BY <1>2 DEF Successor, CuratedEntry
<1>4. /\ key \notin DOMAIN s.excluded
      /\ DOMAIN t.excluded = DOMAIN s.excluded \cup {key}
      /\ \A k \in DOMAIN s.excluded : t.excluded[k] = s.excluded[k]
      /\ t.excluded[key] = s.curated[key]
  BY DEF PutEntry, CurationOK, ApartOK
<1>5. KnownIds(s.curated) \subseteq KnownIds(t.curated) \cup KnownIds(t.excluded)
  <2> SUFFICES ASSUME NEW id \in KnownIds(s.curated)
               PROVE  id \in KnownIds(t.curated) \cup KnownIds(t.excluded)
    OBVIOUS
  <2>1. PICK k \in DOMAIN s.curated : id = k \/ id = s.curated[k].model \/ id \in s.curated[k].aliases
    BY KnownMembers
  <2>2. ASSUME k = key
        PROVE  id \in KnownIds(t.excluded)
    <3>1. k \in DOMAIN t.excluded /\ t.excluded[k] = s.curated[k]
      BY <1>4, <2>2
    <3>2. id = k \/ id = t.excluded[k].model \/ id \in t.excluded[k].aliases
      BY <2>1, <3>1
    <3> QED
      BY <3>1, <3>2, KnownByEntry
  <2>3. ASSUME k # key
        PROVE  id \in KnownIds(t.curated)
    <3>1. k \in DOMAIN t.curated /\ t.curated[k] = s.curated[k]
      BY <1>2, <2>3
    <3>2. id = k \/ id = t.curated[k].model \/ id \in t.curated[k].aliases
      BY <2>1, <3>1
    <3> QED
      BY <3>1, <3>2, KnownByEntry
  <2> QED
    BY <2>2, <2>3
<1>6. KnownIds(s.excluded) \subseteq KnownIds(t.excluded)
  BY <1>4, CaseTypes, KnownGrows
<1>7. ChoiceOK(t)
  BY <1>1, <1>2 DEF ChoiceOK, SameButLists, Saving, KnownIds
<1>8. KeysOK(t)
  BY <1>2, <1>4 DEF CurationOK, KeysOK, SameButLists, Saving
<1>9. FilesOK(t)
  BY <1>4 DEF CurationOK, FilesOK, SameButLists, Settled, Same
<1>10. ApartOK(t)
  BY <1>1, <1>2, <1>4 DEF CurationOK, ApartOK, SameButLists
<1>11. HandledOK(t)
  BY <1>5, <1>6 DEF CurationOK, HandledOK, SameButLists
<1>12. LineageOK(t)
  <2>0. /\ s.replaced \subseteq DOMAIN s.excluded /\ key \notin s.replaced
        /\ \A k \in DOMAIN s.curated : s.curated[k].replaces \subseteq s.replaced
    BY <1>4 DEF CurationOK, LineageOK
  <2>1. \A k \in DOMAIN t.curated : t.curated[k].replaces \subseteq t.replaced
    BY <1>2, <1>3, <2>0
  <2>2. ASSUME NEW r \in s.replaced
        PROVE  \E k \in DOMAIN t.curated : \A j \in DOMAIN t.curated :
                    r \in t.curated[j].replaces <=> j = k
    <3>1. PICK k \in DOMAIN s.curated : \A j \in DOMAIN s.curated : r \in s.curated[j].replaces <=> j = k
      BY DEF CurationOK, LineageOK
    <3>2. CASE k = key
      <4>1. \A j \in DOMAIN t.curated : r \in t.curated[j].replaces <=> j = s.id
        BY <1>1, <1>2, <1>3, <3>1, <3>2
      <4> QED
        BY <1>2, <4>1
    <3>3. CASE k # key
      <4>1. \A j \in DOMAIN t.curated : r \in t.curated[j].replaces <=> j = k
        BY <1>1, <1>2, <1>3, <2>0, <3>1, <3>3
      <4>2. k \in DOMAIN t.curated
        BY <1>2, <3>3
      <4> QED
        BY <4>1, <4>2
    <3> QED
      BY <3>2, <3>3
  <2>3. \E k \in DOMAIN t.curated : \A j \in DOMAIN t.curated : key \in t.curated[j].replaces <=> j = k
    <3>1. \A j \in DOMAIN t.curated : key \in t.curated[j].replaces <=> j = s.id
      BY <1>1, <1>2, <1>3, <2>0
    <3> QED
      BY <1>2, <3>1
  <2>4. t.replaced \subseteq DOMAIN t.excluded
    BY <1>4, <2>0
  <2>5. \A r \in t.replaced : \E k \in DOMAIN t.curated : \A j \in DOMAIN t.curated :
            r \in t.curated[j].replaces <=> j = k
    <3> TAKE r \in t.replaced
    <3>1. r \in s.replaced \/ r = key
      OBVIOUS
    <3> QED
      BY <2>2, <2>3, <3>1
  <2> QED
    BY <2>1, <2>4, <2>5 DEF LineageOK
<1> QED
  BY <1>7, <1>8, <1>9, <1>10, <1>11, <1>12 DEF CurationOK
\* The lineage is a matter of the lists in memory.
LEMMA LineageSame ==
    ASSUME NEW s, NEW t, LineageOK(s),
           t.curated = s.curated, t.excluded = s.excluded, t.replaced = s.replaced
    PROVE  LineageOK(t)
BY DEF LineageOK

\* The curated are saved: afterwards the files have it all, or lack what a replacement
\* excludes.
LEMMA SaveCuratedOK ==
    ASSUME NEW s \in CurationCases, NEW t \in CurationCases, CurationOK(s),
           s.step \in {"save", "save then exclude"},
           s.step = "save" => t.step = "saved" /\ t.handled = s.handled \cup {s.id},
           s.step # "save" => t.step = "second" /\ t.handled = s.handled,
           t.file.curated = Strip(s.curated), t.file.excluded = s.file.excluded,
           t.curated = s.curated, t.excluded = s.excluded, t.replaced = s.replaced,
           t.id = s.id, t.torn = s.torn
    PROVE  CurationOK(t)
<1>1. /\ Same(t.file.curated, t.curated) /\ DOMAIN t.file.curated = DOMAIN s.curated
      /\ KnownIds(t.file.curated) = KnownIds(s.curated)
  <2>1. s.curated \in Lists /\ t.file.curated \in Lists
    BY CaseTypes
  <2>2. Same(t.file.curated, s.curated)
    BY <2>1, SaveAndLoad
  <2>3. DOMAIN t.file.curated = DOMAIN s.curated
    BY <2>2 DEF Same
  <2> QED
    BY <2>1, <2>2, <2>3, SameKnown
<1>2. s.step = "save" => Same(s.file.excluded, s.excluded) /\ KnownIds(s.file.excluded) = KnownIds(s.excluded)
  <2>1. ASSUME s.step = "save"
        PROVE  Same(s.file.excluded, s.excluded)
    BY <2>1 DEF CurationOK, FilesOK
  <2>2. s.excluded \in Lists /\ s.file.excluded \in Lists
    BY CaseTypes
  <2> QED
    BY <2>1, <2>2, SameKnown
<1>3. DOMAIN s.file.excluded \subseteq DOMAIN s.excluded
  BY <1>2 DEF CurationOK, FilesOK, Same
<1>4. ChoiceOK(t)
  BY DEF CurationOK, ChoiceOK, Saving
<1>5. KeysOK(t)
  BY DEF CurationOK, KeysOK, Saving
<1>6. FilesOK(t)
  BY <1>1, <1>2 DEF FilesOK, Settled
<1>7. ApartOK(t)
  BY <1>1, <1>3 DEF CurationOK, ApartOK
<1>8. HandledOK(t)
  <2>1. t.handled \subseteq KnownIds(t.curated) \cup KnownIds(t.excluded)
    BY DEF CurationOK, HandledOK, ChoiceOK, Saving
  <2>2. t.torn => t.step = "over"
    BY DEF CurationOK, HandledOK
  <2> QED
    BY <1>1, <1>2, <2>1, <2>2 DEF HandledOK
<1>9. LineageOK(t)
  BY LineageSame DEF CurationOK
<1> QED
  BY <1>4, <1>5, <1>6, <1>7, <1>8, <1>9 DEF CurationOK

\* The excluded are saved, alone or after the curated: the files have it all.
LEMMA SaveExcludedOK ==
    ASSUME NEW s \in CurationCases, NEW t \in CurationCases, CurationOK(s),
           s.step \in {"exclude", "second"}, t.step = "saved",
           t.file.curated = s.file.curated, t.file.excluded = Strip(s.excluded),
           t.curated = s.curated, t.excluded = s.excluded, t.replaced = s.replaced,
           t.id = s.id, t.torn = s.torn, t.handled = s.handled \cup {s.id}
    PROVE  CurationOK(t)
<1>1. /\ Same(t.file.excluded, t.excluded) /\ DOMAIN t.file.excluded = DOMAIN s.excluded
      /\ KnownIds(t.file.excluded) = KnownIds(s.excluded)
  <2>1. s.excluded \in Lists /\ t.file.excluded \in Lists
    BY CaseTypes
  <2>2. Same(t.file.excluded, s.excluded)
    BY <2>1, SaveAndLoad
  <2>3. DOMAIN t.file.excluded = DOMAIN s.excluded
    BY <2>2 DEF Same
  <2> QED
    BY <2>1, <2>2, <2>3, SameKnown
<1>2. /\ Same(s.file.curated, s.curated) /\ DOMAIN s.file.curated = DOMAIN s.curated
      /\ KnownIds(s.file.curated) = KnownIds(s.curated)
  <2>1. Same(s.file.curated, s.curated)
    BY DEF CurationOK, FilesOK
  <2>2. s.curated \in Lists /\ s.file.curated \in Lists
    BY CaseTypes
  <2>3. DOMAIN s.file.curated = DOMAIN s.curated
    BY <2>1 DEF Same
  <2> QED
    BY <2>1, <2>2, <2>3, SameKnown
<1>4. ChoiceOK(t)
  BY DEF CurationOK, ChoiceOK, Saving
<1>5. KeysOK(t)
  BY DEF CurationOK, KeysOK, Saving
<1>6. FilesOK(t)
  BY <1>1, <1>2 DEF FilesOK, Settled
<1>7. ApartOK(t)
  BY <1>1, <1>2 DEF CurationOK, ApartOK
<1>8. HandledOK(t)
  <2>1. t.handled \subseteq KnownIds(t.curated) \cup KnownIds(t.excluded)
    BY DEF CurationOK, HandledOK, ChoiceOK, Saving
  <2>2. t.torn => t.step = "over"
    BY DEF CurationOK, HandledOK
  <2> QED
    BY <1>1, <1>2, <2>1, <2>2 DEF HandledOK
<1>9. LineageOK(t)
  BY LineageSame DEF CurationOK
<1> QED
  BY <1>4, <1>5, <1>6, <1>7, <1>8, <1>9 DEF CurationOK

\* The next round begins with the lists as they are, or with what the files hold.
LEMMA ResumeOK ==
    ASSUME NEW s \in CurationCases, NEW t \in CurationCases, CurationOK(s),
           s.step = "saved", t.step = "pick", t.file = s.file, t.replaced = s.replaced,
           t.id = s.id, t.torn = s.torn, t.handled = s.handled,
           \/ t.curated = s.curated /\ t.excluded = s.excluded
           \/ t.curated = Load(s.file.curated) /\ t.excluded = Load(s.file.excluded)
    PROVE  CurationOK(t)
<1>0. /\ s.curated \in Lists /\ s.excluded \in Lists /\ s.file.curated \in Lists /\ s.file.excluded \in Lists
      /\ t.curated \in Lists /\ t.excluded \in Lists
  BY CaseTypes
<1>1. Same(s.file.curated, s.curated) /\ Same(s.file.excluded, s.excluded)
  BY DEF CurationOK, FilesOK, Settled
<1>2. Same(s.file.curated, t.curated) /\ Same(s.file.excluded, t.excluded)
  BY <1>0, <1>1, SaveAndLoad
<1>3. /\ DOMAIN t.curated = DOMAIN s.curated /\ DOMAIN t.excluded = DOMAIN s.excluded
      /\ \A k \in DOMAIN s.curated : t.curated[k].replaces = s.curated[k].replaces
  BY <1>1, <1>2 DEF Same
<1>4. KnownIds(t.curated) = KnownIds(s.curated) /\ KnownIds(t.excluded) = KnownIds(s.excluded)
  BY <1>0, <1>1, <1>2, SameKnown
<1>5. ChoiceOK(t)
  BY DEF ChoiceOK, Saving
<1>6. KeysOK(t)
  BY <1>3 DEF CurationOK, KeysOK, Saving
<1>7. FilesOK(t)
  BY <1>2 DEF FilesOK, Settled
<1>8. ApartOK(t)
  BY <1>3 DEF CurationOK, ApartOK
<1>9. HandledOK(t)
  BY <1>4 DEF CurationOK, HandledOK
<1>10. LineageOK(t)
  BY <1>3 DEF CurationOK, LineageOK
<1> QED
  BY <1>5, <1>6, <1>7, <1>8, <1>9, <1>10 DEF CurationOK

\* A pick, a skip and an end of the session change no list.
LEMMA ListsUnchangedOK ==
    ASSUME NEW s \in CurationCases, NEW t \in CurationCases, CurationOK(s),
           t.file = s.file, t.curated = s.curated, t.excluded = s.excluded,
           t.replaced = s.replaced, t.handled = s.handled,
           \/ s.step = "pick" /\ t.step = "answer" /\ t.id \in Upstream \ t.handled /\ t.torn = s.torn
           \/ s.step = "answer" /\ t.step = "saved" /\ t.torn = s.torn
           \/ s.step \in Saving /\ t.step = "over" /\ t.torn = (s.step = "second")
    PROVE  CurationOK(t)
<1>1. ChoiceOK(t)
  BY DEF ChoiceOK, Saving
<1>2. KeysOK(t)
  BY DEF CurationOK, KeysOK, Saving
<1>3. FilesOK(t)
  BY DEF CurationOK, FilesOK, Settled, Saving
<1>4. ApartOK(t) /\ LineageOK(t)
  BY DEF CurationOK, ApartOK, LineageOK
<1>5. HandledOK(t)
  BY DEF CurationOK, HandledOK, Saving
<1> QED
  BY <1>1, <1>2, <1>3, <1>4, <1>5 DEF CurationOK
\* What a choice does to the case, and that the lists it makes are lists.
LEMMA CommitTypes ==
    ASSUME scenario \in CurationCases, scenario.step = "answer", NEW saves \in Saving, NEW curated \in Lists, NEW excluded \in Lists,
           NEW replaced \in SUBSET CuratedKeys, Commit(saves, curated, excluded, replaced)
    PROVE  /\ scenario' \in CurationCases /\ SameButLists(scenario, scenario')
           /\ scenario'.step = saves /\ scenario'.curated = curated /\ scenario'.excluded = excluded
           /\ scenario'.replaced = scenario.replaced \cup replaced
           /\ scenario'.again = scenario.again
<1>1. scenario' = [scenario EXCEPT !.step = saves, !.curated = curated, !.excluded = excluded,
                                   !.replaced = @ \cup replaced]
  BY DEF Commit
<1>2. scenario' \in CurationCases
  BY <1>1 DEF CurationCases, CurationRecords
<1> QED
  BY <1>1, <1>2 DEF CurationCases, CurationRecords, SameButLists

\* Every step keeps the invariant.
LEMMA CurationStep ==
    ASSUME CurationInv, CurationNext, Working
    PROVE  CurationInv'
<1>0. /\ scenario \in CurationCases
      /\ scenario.step \in Settled \cup Saving \cup {"over"} /\ scenario.id \in CuratedKeys
      /\ scenario.file.curated \in Lists /\ scenario.file.excluded \in Lists
      /\ scenario.curated \in Lists /\ scenario.excluded \in Lists
      /\ scenario.offered \subseteq Upstream /\ scenario.handled \subseteq Upstream
      /\ DOMAIN scenario.curated \subseteq CuratedKeys
      /\ scenario.step \in Saving \cup {"answer"} => scenario.id \in Upstream
      /\ \A k \in DOMAIN scenario.curated : scenario.curated[k] \in CuratedRecords
  BY CaseTypes, ListTypes DEF CurationInv
<1>1. ~scenario.again => CurationOK(scenario)
  BY DEF CurationInv
<1> SUFFICES ASSUME TRUE
             PROVE  scenario' \in CurationCases /\ (~scenario'.again => CurationOK(scenario'))
  BY DEF CurationInv
<1>2. CASE StartCuration
  BY <1>2 DEF StartCuration, Working, Idle
<1>3. CASE PickModel
  <2>1. PICK id \in scenario.offered :
            /\ scenario.step = "pick"
            /\ scenario' = [scenario EXCEPT !.step = "answer", !.id = id, !.again = @ \/ id \in scenario.handled,
                                            !.choices = @ + 1]
    BY <1>3 DEF PickModel, At
  <2>2. scenario' \in CurationCases
    <3>1. id \in Upstream /\ id \in CuratedKeys
      BY <1>0 DEF CuratedKeys
    <3> DEFINE again == scenario.again \/ id \in scenario.handled
    <3>a. again \in BOOLEAN
      OBVIOUS
    <3>b. scenario' = [scenario EXCEPT !.step = "answer", !.id = id, !.again = again, !.choices = @ + 1]
      BY <2>1
    <3> HIDE DEF again
    <3>c. scenario \in CurationRecords /\ "answer" \in Settled \cup Saving \cup {"over"}
      BY <1>0 DEF CurationCases, Settled
    <3>d. scenario.choices + 1 \in Nat
      BY <3>c DEF CurationRecords
    <3>2. scenario' \in CurationRecords
      BY <3>a, <3>b, <3>c, <3>d, <3>1 DEF CurationRecords
    <3>3. scenario'.id = id
      BY <1>0, <2>1 DEF CurationCases, CurationRecords
    <3> QED
      BY <3>1, <3>2, <3>3 DEF CurationCases
  <2>3. /\ scenario'.step = "answer" /\ scenario'.id = id /\ scenario'.torn = scenario.torn
        /\ scenario'.file = scenario.file /\ scenario'.curated = scenario.curated
        /\ scenario'.excluded = scenario.excluded /\ scenario'.replaced = scenario.replaced
        /\ scenario'.handled = scenario.handled
        /\ ~scenario'.again => ~scenario.again /\ id \notin scenario.handled
    BY <1>0, <2>1 DEF CurationCases, CurationRecords
  <2>4. id \in Upstream
    BY <1>0
  <2>5. ASSUME ~scenario'.again
        PROVE  CurationOK(scenario')
    <3>1. /\ scenario.step = "pick" /\ scenario'.step = "answer"
          /\ scenario'.id \in Upstream \ scenario'.handled /\ scenario'.torn = scenario.torn
      BY <2>1, <2>3, <2>4, <2>5
    <3>2. CurationOK(scenario)
      BY <1>1, <2>3, <2>5
    <3> QED
      BY <1>0, <2>2, <2>3, <3>1, <3>2, ListsUnchangedOK
  <2> QED
    BY <2>2, <2>5
<1>4. CASE Skip
  <2>1. scenario.step = "answer" /\ scenario' = [scenario EXCEPT !.step = "saved"]
    BY <1>4 DEF Skip, At
  <2>2. scenario' \in CurationCases
    BY <1>0, <2>1 DEF CurationCases, CurationRecords, Settled
  <2>3. /\ scenario'.step = "saved" /\ scenario'.torn = scenario.torn
        /\ scenario'.file = scenario.file /\ scenario'.curated = scenario.curated
        /\ scenario'.excluded = scenario.excluded /\ scenario'.replaced = scenario.replaced
        /\ scenario'.handled = scenario.handled /\ scenario'.again = scenario.again
    BY <1>0, <2>1 DEF CurationCases, CurationRecords
  <2>4. ASSUME ~scenario'.again
        PROVE  CurationOK(scenario')
    <3>1. scenario.step = "answer" /\ scenario'.step = "saved" /\ scenario'.torn = scenario.torn
      BY <2>1, <2>3
    <3>2. CurationOK(scenario)
      BY <1>1, <2>3, <2>4
    <3> QED
      BY <1>0, <2>2, <2>3, <3>1, <3>2, ListsUnchangedOK
  <2> QED
    BY <2>2, <2>4
<1>5. CASE SaveAborted
  <2>1. /\ scenario.step \in Saving
        /\ scenario' = [scenario EXCEPT !.step = "over", !.torn = scenario.step = "second"]
    BY <1>0, <1>5 DEF SaveAborted, Settled
  <2>2. scenario' \in CurationCases
    BY <1>0, <2>1 DEF CurationCases, CurationRecords
  <2>3. /\ scenario'.step = "over" /\ scenario'.torn = (scenario.step = "second")
        /\ scenario'.file = scenario.file /\ scenario'.curated = scenario.curated
        /\ scenario'.excluded = scenario.excluded /\ scenario'.replaced = scenario.replaced
        /\ scenario'.handled = scenario.handled /\ scenario'.again = scenario.again
    BY <1>0, <2>1 DEF CurationCases, CurationRecords
  <2>4. ASSUME ~scenario'.again
        PROVE  CurationOK(scenario')
    <3>1. scenario.step \in Saving /\ scenario'.step = "over" /\ scenario'.torn = (scenario.step = "second")
      BY <2>1, <2>3
    <3>2. CurationOK(scenario)
      BY <1>1, <2>3, <2>4
    <3> QED
      BY <1>0, <2>2, <2>3, <3>1, <3>2, ListsUnchangedOK
  <2> QED
    BY <2>2, <2>4
<1>6. CASE Resume
  <2> DEFINE curated == IF scenario.searching THEN scenario.curated ELSE Load(scenario.file.curated)
             excluded == IF scenario.searching THEN scenario.excluded ELSE Load(scenario.file.excluded)
             offered == IF scenario.searching THEN scenario.offered ELSE Uncurated(curated, excluded)
  <2>1. /\ scenario.step = "saved"
        /\ scenario' = [scenario EXCEPT !.step = "pick", !.curated = curated, !.excluded = excluded,
                            !.offered = IF scenario.searching THEN @ ELSE Uncurated(curated, excluded)]
    BY <1>6 DEF Resume, At
  <2>2. curated \in Lists /\ excluded \in Lists
    BY <1>0, SaveAndLoad
  <2>3. offered \in SUBSET Upstream
    BY <1>0 DEF Uncurated
  <2>4. \/ curated = scenario.curated /\ excluded = scenario.excluded
        \/ curated = Load(scenario.file.curated) /\ excluded = Load(scenario.file.excluded)
    OBVIOUS
  <2>5. scenario' = [scenario EXCEPT !.step = "pick", !.curated = curated, !.excluded = excluded,
                                     !.offered = offered]
    BY <2>1
  <2> HIDE DEF curated, excluded, offered
  <2>a. scenario' \in CurationRecords
    BY <1>0, <2>2, <2>3, <2>5 DEF CurationCases, CurationRecords, Settled
  <2>b. scenario'.step = "pick"
    BY <1>0, <2>5 DEF CurationCases, CurationRecords
  <2>6. scenario' \in CurationCases
    BY <2>a, <2>b DEF CurationCases, Saving
  <2>7. /\ scenario'.step = "pick" /\ scenario'.torn = scenario.torn /\ scenario'.id = scenario.id
        /\ scenario'.file = scenario.file /\ scenario'.curated = curated
        /\ scenario'.excluded = excluded /\ scenario'.replaced = scenario.replaced
        /\ scenario'.handled = scenario.handled /\ scenario'.again = scenario.again
    BY <1>0, <2>5 DEF CurationCases, CurationRecords
  <2>8. ASSUME ~scenario'.again
        PROVE  CurationOK(scenario')
    <3>1. \/ scenario'.curated = scenario.curated /\ scenario'.excluded = scenario.excluded
          \/ /\ scenario'.curated = Load(scenario.file.curated)
             /\ scenario'.excluded = Load(scenario.file.excluded)
      BY <2>4, <2>7
    <3>2. CurationOK(scenario)
      BY <1>1, <2>7, <2>8
    <3> QED
      BY <1>0, <2>1, <2>6, <2>7, <3>1, <3>2, ResumeOK, ZenonT(60)
  <2> QED
    BY <2>6, <2>8
<1>7. CASE SaveCurated
  <2> DEFINE saved == Strip(scenario.curated)
  <2>1. /\ scenario.step \in {"save", "save then exclude"}
        /\ scenario' = [scenario EXCEPT !.file.curated = saved,
                                        !.step = IF @ = "save" THEN "saved" ELSE "second",
                                        !.handled = IF scenario.step = "save" THEN @ \cup {scenario.id} ELSE @]
    BY <1>7 DEF SaveCurated, Chosen
  <2>2. saved \in Lists
    BY <1>0, SaveAndLoad
  <2>3. /\ scenario.step = "save" => /\ scenario'.step = "saved"
                                     /\ scenario'.handled = scenario.handled \cup {scenario.id}
        /\ scenario.step # "save" => scenario'.step = "second" /\ scenario'.handled = scenario.handled
        /\ scenario'.torn = scenario.torn /\ scenario'.id = scenario.id
        /\ scenario'.file.curated = saved /\ scenario'.file.excluded = scenario.file.excluded
        /\ scenario'.curated = scenario.curated
        /\ scenario'.excluded = scenario.excluded /\ scenario'.replaced = scenario.replaced
        /\ scenario'.again = scenario.again
    BY <1>0, <2>1 DEF CurationCases, CurationRecords
  <2> HIDE DEF saved
  <2>4. scenario.id \in Upstream
    BY <1>0, <2>1 DEF Saving
  <2>5. scenario' \in CurationRecords
    BY <1>0, <2>1, <2>2, <2>4 DEF CurationCases, CurationRecords, Settled, Saving
  <2>6. scenario' \in CurationCases
    BY <2>3, <2>4, <2>5 DEF CurationCases
  <2>7. ASSUME ~scenario'.again
        PROVE  CurationOK(scenario')
    <3>1. CurationOK(scenario)
      BY <1>1, <2>3, <2>7
    <3>2. scenario'.file.curated = Strip(scenario.curated) /\ scenario \in CurationCases
      BY <1>0, <2>3 DEF saved
    <3> QED
      BY <2>1, <2>3, <2>6, <3>1, <3>2, SaveCuratedOK, ZenonT(60)
  <2> QED
    BY <2>6, <2>7
<1>8. CASE SaveExcluded
  <2> DEFINE saved == Strip(scenario.excluded)
  <2>1. /\ scenario.step \in {"exclude", "second"}
        /\ scenario' = [scenario EXCEPT !.file.excluded = saved, !.step = "saved",
                                        !.handled = @ \cup {scenario.id}]
    BY <1>0, <1>8 DEF SaveExcluded, Chosen, Settled, Saving
  <2>2. saved \in Lists
    BY <1>0, SaveAndLoad
  <2>3. /\ scenario'.step = "saved" /\ scenario'.handled = scenario.handled \cup {scenario.id}
        /\ scenario'.torn = scenario.torn /\ scenario'.id = scenario.id
        /\ scenario'.file.curated = scenario.file.curated /\ scenario'.file.excluded = saved
        /\ scenario'.curated = scenario.curated
        /\ scenario'.excluded = scenario.excluded /\ scenario'.replaced = scenario.replaced
        /\ scenario'.again = scenario.again
    BY <1>0, <2>1 DEF CurationCases, CurationRecords
  <2> HIDE DEF saved
  <2>4. scenario.id \in Upstream
    BY <1>0, <2>1 DEF Saving
  <2>5. scenario' \in CurationRecords
    BY <1>0, <2>1, <2>2, <2>4 DEF CurationCases, CurationRecords, Settled
  <2>6. scenario' \in CurationCases
    BY <2>3, <2>4, <2>5 DEF CurationCases
  <2>7. ASSUME ~scenario'.again
        PROVE  CurationOK(scenario')
    <3>1. CurationOK(scenario)
      BY <1>1, <2>3, <2>7
    <3>2. scenario'.file.excluded = Strip(scenario.excluded) /\ scenario \in CurationCases
      BY <1>0, <2>3 DEF saved
    <3> QED
      BY <2>1, <2>3, <2>6, <3>1, <3>2, SaveExcludedOK
  <2> QED
    BY <2>6, <2>7
<1>9. CASE Include
  <2> DEFINE curated == PutEntry(scenario.curated, scenario.id, CuratedEntry(scenario.id))
  <2>1. scenario.step = "answer" /\ Commit("save", curated, scenario.excluded, {})
    BY <1>9 DEF Include, At, Chosen
  <2>2. curated \in Lists
    <3>1. scenario.id \in CuratedKeys /\ CuratedEntry(scenario.id) \in CuratedRecords
      BY <1>0, <2>1, ChosenEntry
    <3> QED
      BY <1>0, <3>1, EntryPut
  <2> HIDE DEF curated
  <2>3. "save" \in Saving /\ {} \in SUBSET CuratedKeys
    BY DEF Saving
  <2>4. /\ scenario' \in CurationCases /\ SameButLists(scenario, scenario')
        /\ scenario'.step = "save" /\ scenario'.curated = curated /\ scenario'.excluded = scenario.excluded
        /\ scenario'.replaced = scenario.replaced \cup {}
        /\ scenario'.again = scenario.again
    BY <1>0, <2>1, <2>2, <2>3, CommitTypes
  <2>5. ASSUME ~scenario'.again
        PROVE  CurationOK(scenario')
    <3>1. /\ scenario'.curated = PutEntry(scenario.curated, scenario.id, CuratedEntry(scenario.id))
          /\ scenario'.replaced = scenario.replaced /\ CurationOK(scenario) /\ scenario \in CurationCases
      BY <1>0, <1>1, <2>4, <2>5 DEF curated
    <3> QED
      BY <2>1, <2>4, <3>1, IncludeOK
  <2> QED
    BY <2>4, <2>5
<1>10. CASE Exclude
  <2> DEFINE excluded == PutEntry(scenario.excluded, scenario.id, CuratedEntry(scenario.id))
  <2>1. scenario.step = "answer" /\ Commit("exclude", scenario.curated, excluded, {})
    BY <1>10 DEF Exclude, At, Chosen
  <2>2. excluded \in Lists
    <3>1. scenario.id \in CuratedKeys /\ CuratedEntry(scenario.id) \in CuratedRecords
      BY <1>0, <2>1, ChosenEntry
    <3> QED
      BY <1>0, <3>1, EntryPut
  <2> HIDE DEF excluded
  <2>3. "exclude" \in Saving /\ {} \in SUBSET CuratedKeys
    BY DEF Saving
  <2>4. /\ scenario' \in CurationCases /\ SameButLists(scenario, scenario')
        /\ scenario'.step = "exclude" /\ scenario'.curated = scenario.curated /\ scenario'.excluded = excluded
        /\ scenario'.replaced = scenario.replaced \cup {}
        /\ scenario'.again = scenario.again
    BY <1>0, <2>1, <2>2, <2>3, CommitTypes
  <2>5. ASSUME ~scenario'.again
        PROVE  CurationOK(scenario')
    <3>1. /\ scenario'.excluded = PutEntry(scenario.excluded, scenario.id, CuratedEntry(scenario.id))
          /\ scenario'.replaced = scenario.replaced /\ CurationOK(scenario) /\ scenario \in CurationCases
      BY <1>0, <1>1, <2>4, <2>5 DEF excluded
    <3> QED
      BY <2>1, <2>4, <3>1, ExcludeOK
  <2> QED
    BY <2>4, <2>5
<1>11. CASE AddAlias
  <2>1. PICK key \in DOMAIN scenario.curated :
            /\ scenario.step = "answer"
            /\ Commit("save",
                   [scenario.curated EXCEPT ![key].aliases = @ \cup {scenario.id},
                                            ![key].upstream = @ \cup {scenario.id}],
                   scenario.excluded, {})
    BY <1>11 DEF AddAlias, At, Chosen, Candidates
  <2> DEFINE curated == [scenario.curated EXCEPT ![key].aliases = @ \cup {scenario.id},
                                                 ![key].upstream = @ \cup {scenario.id}]
  <2>2. curated \in Lists
    <3> DEFINE list == scenario.curated
               id == scenario.id
    <3>1. /\ list \in [DOMAIN list -> CuratedRecords] /\ DOMAIN list \in SUBSET CuratedKeys
          /\ id \in Upstream /\ key \in DOMAIN list
      BY <1>0, <2>1, ListTypes
    <3> HIDE DEF list, id
    <3>2. [list EXCEPT ![key].aliases = @ \cup {id}, ![key].upstream = @ \cup {id}]
              \in [DOMAIN list -> CuratedRecords]
      BY <3>1 DEF CuratedRecords
    <3>3. [list EXCEPT ![key].aliases = @ \cup {id}, ![key].upstream = @ \cup {id}] \in Lists
      BY <3>1, <3>2, MakesList
    <3> QED
      BY <3>3 DEF list, id
  <2>3. "save" \in Saving /\ {} \in SUBSET CuratedKeys
    BY DEF Saving
  <2>4. /\ scenario' \in CurationCases /\ SameButLists(scenario, scenario')
        /\ scenario'.step = "save" /\ scenario'.curated = curated /\ scenario'.excluded = scenario.excluded
        /\ scenario'.replaced = scenario.replaced \cup {}
        /\ scenario'.again = scenario.again
    <3>1. Commit("save", curated, scenario.excluded, {}) /\ scenario.step = "answer"
      BY <2>1
    <3> HIDE DEF curated
    <3> QED
      BY <1>0, <2>2, <2>3, <3>1, CommitTypes
  <2>5. ASSUME ~scenario'.again
        PROVE  CurationOK(scenario')
    <3>1. /\ scenario'.curated = [scenario.curated EXCEPT ![key].aliases = @ \cup {scenario.id},
                                                          ![key].upstream = @ \cup {scenario.id}]
          /\ scenario'.replaced = scenario.replaced /\ CurationOK(scenario) /\ scenario \in CurationCases
      BY <1>0, <1>1, <2>4, <2>5
    <3> HIDE DEF curated
    <3> QED
      BY <2>1, <2>4, <3>1, AddAliasOK
  <2> QED
    BY <2>4, <2>5
<1>12. CASE ReplaceModel
  <2>1. PICK key \in DOMAIN scenario.curated :
            /\ key # scenario.id /\ scenario.step = "answer"
            /\ Commit("save then exclude",
                   PutEntry(Without(scenario.curated, key), scenario.id,
                            Successor(scenario.curated[key], key, scenario.id)),
                   PutEntry(scenario.excluded, key, scenario.curated[key]), {key})
    BY <1>12 DEF ReplaceModel, At, Chosen, Candidates
  <2> DEFINE rest == Without(scenario.curated, key)
             old == scenario.curated[key]
             new == Successor(old, key, scenario.id)
             curated == PutEntry(rest, scenario.id, new)
             excluded == PutEntry(scenario.excluded, key, old)
  <2>2. /\ old \in CuratedRecords /\ key \in CuratedKeys /\ scenario.id \in Upstream /\ scenario.id \in CuratedKeys
        /\ rest \in Lists
    BY <1>0, <2>1, EntryTaken
  <2>3. new \in CuratedRecords
    <3> HIDE DEF old
    <3> QED
      BY <2>2 DEF Successor, CuratedEntry, CuratedRecords
  <2>4. curated \in Lists /\ excluded \in Lists
    <3> HIDE DEF rest, old, new
    <3> QED
      BY <1>0, <2>2, <2>3, EntryPut
  <2>5. "save then exclude" \in Saving /\ {key} \in SUBSET CuratedKeys
    BY <2>2 DEF Saving
  <2>6. /\ scenario' \in CurationCases /\ SameButLists(scenario, scenario')
        /\ scenario'.step = "save then exclude" /\ scenario'.curated = curated
        /\ scenario'.excluded = excluded
        /\ scenario'.replaced = scenario.replaced \cup {key}
        /\ scenario'.again = scenario.again
    <3>1. Commit("save then exclude", curated, excluded, {key}) /\ scenario.step = "answer"
      BY <2>1
    <3> HIDE DEF curated, excluded
    <3> QED
      BY <1>0, <2>4, <2>5, <3>1, CommitTypes
  <2>7. ASSUME ~scenario'.again
        PROVE  CurationOK(scenario')
    <3>1. /\ scenario'.curated = PutEntry(Without(scenario.curated, key), scenario.id,
                                          Successor(scenario.curated[key], key, scenario.id))
          /\ scenario'.excluded = PutEntry(scenario.excluded, key, scenario.curated[key])
      BY <2>6
    <3>2. CurationOK(scenario) /\ scenario \in CurationCases
      BY <1>0, <1>1, <2>6, <2>7
    <3> HIDE DEF rest, old, new, curated, excluded
    <3> QED
      BY <2>1, <2>6, <3>1, <3>2, ReplaceOK
  <2> QED
    BY <2>6, <2>7
<1> QED
  BY <1>2, <1>3, <1>4, <1>5, <1>6, <1>7, <1>8, <1>9, <1>10, <1>11, <1>12 DEF CurationNext
\* A new file holds no entry.
LEMMA EmptyList == <<>> \in Lists /\ DOMAIN <<>> = {} /\ Load(<<>>) = <<>>
<1>1. DOMAIN <<>> = {}
  OBVIOUS
<1>2. <<>> \in [{} -> CuratedRecords]
  OBVIOUS
<1>3. Load(<<>>) = <<>>
  BY DEF Load
<1> QED
  BY <1>1, <1>2, <1>3, MakesList

\* The first session begins with an entry of one of the provider's models, or with none.
LEMMA CurationStart ==
    ASSUME StartCuration
    PROVE  CurationInv'
<1>1. PICK searching \in BOOLEAN, key \in CuratedKeys, model \in Upstream :
        LET file == IF key = "house" \/ key = model THEN PutEntry(<<>>, key, CuratedEntry(model)) ELSE <<>>
        IN  scenario' = [kind |-> "curate", searching |-> searching, step |-> "pick", id |-> "house",
                         file |-> [curated |-> file, excluded |-> <<>>],
                         curated |-> Load(file), excluded |-> <<>>,
                         offered |-> Uncurated(Load(file), <<>>),
                         handled |-> Upstream \ Uncurated(Load(file), <<>>), replaced |-> {}, again |-> FALSE, torn |-> FALSE, choices |-> 0]
  BY DEF StartCuration, CuratedKeys
<1> DEFINE file == IF key = "house" \/ key = model THEN PutEntry(<<>>, key, CuratedEntry(model)) ELSE <<>>
           loaded == Load(file)
           t == [kind |-> "curate", searching |-> searching, step |-> "pick", id |-> "house",
                 file |-> [curated |-> file, excluded |-> <<>>],
                 curated |-> loaded, excluded |-> <<>>,
                 offered |-> Uncurated(loaded, <<>>), handled |-> Upstream \ Uncurated(loaded, <<>>),
                 replaced |-> {}, again |-> FALSE, torn |-> FALSE, choices |-> 0]
<1>2. scenario' = t
  BY <1>1
<1>3. file \in Lists /\ \A k \in DOMAIN file : file[k].replaces = {}
  <2>1. CuratedEntry(model) \in CuratedRecords /\ CuratedEntry(model).replaces = {}
    BY ChosenEntry
  <2>2. PutEntry(<<>>, key, CuratedEntry(model)) \in Lists
    BY <2>1, EmptyList, EntryPut
  <2>3. \A k \in DOMAIN PutEntry(<<>>, key, CuratedEntry(model)) :
            PutEntry(<<>>, key, CuratedEntry(model))[k].replaces = {}
    BY <2>1, EmptyList DEF PutEntry
  <2> QED
    BY <2>2, <2>3, EmptyList
<1> HIDE DEF file
<1>4. loaded \in Lists /\ Same(file, loaded)
  BY <1>3, SaveAndLoad
<1>5. \A id : Tracked(loaded, id) <=> id \in KnownIds(file)
  BY <1>3, TrackedKnown
<1>6. /\ DOMAIN loaded = DOMAIN file /\ DOMAIN file \subseteq KnownIds(file) /\ KnownIds(loaded) = KnownIds(file)
      /\ \A k \in DOMAIN loaded : loaded[k].replaces = {}
  <2>1. /\ DOMAIN loaded = DOMAIN file /\ \A k \in DOMAIN loaded : loaded[k].replaces = {}
    BY <1>3, <1>4 DEF Same
  <2>2. DOMAIN file \subseteq KnownIds(file)
    BY DEF KnownIds
  <2> QED
    BY <1>3, <1>4, <2>1, <2>2, SameKnown
<1> HIDE DEF loaded
<1>7. ~ \E id : Tracked(<<>>, id)
  BY EmptyList DEF Tracked
<1>8. Uncurated(loaded, <<>>) = Upstream \ KnownIds(file)
  BY <1>5, <1>7 DEF Uncurated
<1>9. t \in CurationCases
  <2>1. Uncurated(loaded, <<>>) \in SUBSET Upstream /\ "house" \in CuratedKeys
    BY <1>8 DEF CuratedKeys
  <2>2. t \in CurationRecords
    BY <1>3, <1>4, <2>1, EmptyList DEF CurationRecords, Settled
  <2> QED
    BY <2>2 DEF CurationCases, Saving
<1>10. CurationOK(t)
  <2> DEFINE handled == Upstream \ Uncurated(loaded, <<>>)
  <2>1. handled = Upstream \cap KnownIds(file)
    BY <1>8
  <2> HIDE DEF handled
  <2>2. ChoiceOK(t)
    BY DEF ChoiceOK, Saving
  <2>3. KeysOK(t)
    BY <1>6, <2>1, EmptyList DEF KeysOK, handled
  <2>4. FilesOK(t)
    BY <1>4, EmptyList DEF FilesOK, Settled, Same
  <2>5. ApartOK(t)
    BY EmptyList DEF ApartOK
  <2>6. HandledOK(t)
    BY <1>6, <2>1 DEF HandledOK, handled
  <2>7. LineageOK(t)
    BY <1>6 DEF LineageOK
  <2> QED
    BY <2>2, <2>3, <2>4, <2>5, <2>6, <2>7 DEF CurationOK
<1> QED
  BY <1>2, <1>9, <1>10 DEF CurationInv

\* The invariant holds of every behaviour.
LEMMA CurationInvariant == CurationSpec => []CurationInv
<1>1. Init => CurationInv
  BY DEF Init, Idle, CurationInv, Working
<1>2. CurationInv /\ [CurationNext \/ Elsewhere("curate")]_scenario => CurationInv'
  <2>1. ASSUME CurationInv, Elsewhere("curate")
        PROVE  CurationInv'
    BY <2>1 DEF Elsewhere, CurationInv, Working
  <2>2. ASSUME CurationInv, UNCHANGED scenario
        PROVE  CurationInv'
    BY <2>2 DEF CurationInv, Working
  <2>3. ASSUME CurationInv, CurationNext, ~Working
        PROVE  StartCuration
    BY <2>3 DEF CurationNext, PickModel, Include, Exclude, AddAlias, ReplaceModel, Skip, SaveCurated,
                SaveExcluded, SaveAborted, Resume, At
  <2> QED
    BY <2>1, <2>2, <2>3, CurationStep, CurationStart
<1> QED
  BY <1>1, <1>2, PTL DEF CurationSpec

\* What the invariant says of lists and files is what the user relies on.
LEMMA CurationInvSound == CurationInv => CurationSound
<1> SUFFICES ASSUME CurationInv, Working, ~scenario.again
             PROVE  CurationSound
  BY DEF CurationSound, DealtWithOnce, ListsApart, LineageKept
<1>0. scenario \in CurationCases /\ CurationOK(scenario)
  BY DEF CurationInv
<1>1. DealtWithOnce
  <2>1. scenario.file.curated \in Lists /\ scenario.file.excluded \in Lists
    BY <1>0, CaseTypes
  <2>2. \A id : /\ Tracked(Load(scenario.file.curated), id) <=> id \in KnownIds(scenario.file.curated)
                /\ Tracked(Load(scenario.file.excluded), id) <=> id \in KnownIds(scenario.file.excluded)
    BY <2>1, TrackedKnown
  <2>3. (~scenario.torn /\ scenario.step # "second") =>
            scenario.handled \subseteq KnownIds(scenario.file.curated) \cup KnownIds(scenario.file.excluded)
    BY <1>0 DEF CurationOK, HandledOK
  <2> QED
    BY <2>2, <2>3 DEF DealtWithOnce
<1>2. ListsApart
  BY <1>0 DEF CurationOK, ApartOK, ListsApart
<1>3. LineageKept
  <2> SUFFICES ASSUME NEW key \in scenario.replaced
               PROVE  Cardinality({k \in DOMAIN scenario.curated : key \in scenario.curated[k].replaces}) = 1
    BY DEF LineageKept
  <2>1. PICK k \in DOMAIN scenario.curated : \A j \in DOMAIN scenario.curated :
            key \in scenario.curated[j].replaces <=> j = k
    BY <1>0 DEF CurationOK, LineageOK
  <2>2. {j \in DOMAIN scenario.curated : key \in scenario.curated[j].replaces} = {k}
    BY <2>1
  <2> QED
    BY <2>2, FS_Singleton
<1> QED
  BY <1>1, <1>2, <1>3 DEF CurationSound

\* select.js: over any number of sessions, which may end between two saves, a model
\* that was dealt with is not offered again, no key stands in both files, and what an
\* entry has replaced is told by one curated entry.
LEMMA CurationPart == CurationSpec => []CurationSound
BY CurationInvariant, CurationInvSound, PTL
-----------------------------------------------------------------------------
(* The classification of errors and the cooldown.                          *)

ErrorsSpec == Init /\ [][Fail \/ FailAgain \/ Elsewhere("errors")]_scenario

\* The failures that another attempt could mend, and the refused keys: they count.
Counted(seen) == {i \in DOMAIN seen : ~HeardOwn(seen[i]) /\ seen[i].status # 400}

\* An entry counts no more failures than those, and cools for a refused key or for as
\* many failures as the threshold says.
CauseOK(entry, seen) ==
    /\ entry \in [failCount : Nat, until : BOOLEAN]
    /\ entry.failCount <= Cardinality(Counted(seen))
    /\ entry.until => \/ \E i \in DOMAIN seen : seen[i].status \in {401, 403}
                      \/ entry.failCount >= Threshold

CooldownInv ==
    Failing =>
        /\ DOMAIN scenario = {"kind", "provider", "seen", "entry"}
        /\ scenario.seen \in Seq(Errors) /\ scenario.seen # <<>>
        /\ CauseOK(scenario.entry, scenario.seen)

\* A code that says what is wrong with the call, or words that do, decide before any
\* status is looked at.
LEMMA SpecificFirst ==
    ASSUME NEW provider, NEW err \in Errors, HeardOwn(err)
    PROVE  Classify(provider, err) \in {"CONTEXT_OVERFLOW", "QUOTA_EXHAUSTED", "CONTENT_BLOCKED"}
<1>1. CASE err.wording = "overflow"
  BY <1>1 DEF Classify, MatchesContextOverflow
<1>2. CASE err.wording # "overflow"
  <2>1. NoCode \notin SpecificCodes
    BY DEF NoCode, SpecificCodes, OverflowCodes, QuotaCodes, ContentCodes
  <2>2. ExtractCode(err) \in SpecificCodes
    BY <1>2, <2>1 DEF ExtractCode, HeardOwn, Masked, CallersOwn
  <2> QED
    BY <2>2 DEF Classify, SpecificCodes
<1> QED
  BY <1>1, <1>2

\* Behind another code nothing of it is seen, and the status decides.
LEMMA MaskedByStatus ==
    ASSUME NEW provider, NEW err \in Errors, Masked(err)
    PROVE  Retryable(Classify(provider, err)) <=> err.status \in {NoStatus, 429, 500}
<1>1. ExtractCode(err) \notin SpecificCodes /\ ~MatchesContextOverflow(err)
  BY DEF Masked, ExtractCode, MatchesContextOverflow
<1>2. /\ ExtractCode(err) \notin OverflowCodes /\ ExtractCode(err) \notin QuotaCodes
      /\ ExtractCode(err) \notin ContentCodes
  BY <1>1 DEF SpecificCodes
<1>3. Classify429(provider, err) \in {"RATE_LIMIT", "RATE_LIMIT_TIER", "RATE_LIMIT_LOAD"}
  BY DEF Classify429, Override
<1>4. CASE err.status = 429
  <2>1. Classify(provider, err) = Classify429(provider, err)
    BY <1>1, <1>2, <1>4 DEF Classify
  <2> QED
    BY <1>3, <1>4, <2>1 DEF Retryable
<1>5. CASE err.status # 429
  <2>1. err.status \in {0, 400, 401, 500}
    BY <1>5 DEF Errors, NoStatus
  <2>2. CASE err.status = 401
    BY <1>1, <1>2, <2>2 DEF Classify, Retryable, NoStatus
  <2>3. CASE err.status = 500
    BY <1>1, <1>2, <2>3 DEF Classify, Retryable, NoStatus
  <2>4. CASE err.status = 400
    BY <1>1, <1>2, <2>4 DEF Classify, Retryable, NoStatus
  <2>5. CASE err.status = 0
    BY <1>1, <1>2, <2>5 DEF Classify, Retryable, NoStatus
  <2> QED
    BY <2>1, <2>2, <2>3, <2>4, <2>5
<1> QED
  BY <1>4, <1>5

\* What makes a limit a caller's own, or a matter of load.
SaysOwn(provider, err) ==
    \/ provider = "gemini" /\ err.wording = "resource_exhausted"
    \/ provider = "anthropic" /\ err.code = NoCode /\ err.inner = "rate_limit_error"
    \/ provider \in TierByCode /\ "rate_limit_exceeded" \in {err.code, err.inner}
SaysLoad(provider, err) ==
    \/ provider = "anthropic" /\ err.code = NoCode /\ err.inner = "overloaded_error"
    \/ provider = "openrouter" /\ err.wording = "overloaded"
    \/ provider = "cerebras" /\ err.wording = "high_traffic"

\* A provider's own words or codes decide only where they say so.
LEMMA OverrideEvidence ==
    ASSUME NEW provider, NEW err \in Errors
    PROVE  /\ Override(provider, err) = "RATE_LIMIT_TIER" => SaysOwn(provider, err)
           /\ Override(provider, err) = "RATE_LIMIT_LOAD" => SaysLoad(provider, err)
<1>1. ExtractCode(err) \in {err.code, err.inner} /\ (ExtractCode(err) # err.code => err.code = NoCode)
  BY DEF ExtractCode
<1>2. err.code \notin {"overloaded_error", "rate_limit_error"}
  BY DEF Errors, NoCode
<1>3. ASSUME NEW c, ExtractCode(err) = c, c \in {"overloaded_error", "rate_limit_error"}
      PROVE  err.code = NoCode /\ err.inner = c
  BY <1>1, <1>2, <1>3
<1>4. Override(provider, err) = "RATE_LIMIT_TIER" => SaysOwn(provider, err)
  BY <1>1, <1>3 DEF Override, SaysOwn
<1>5. Override(provider, err) = "RATE_LIMIT_LOAD" => SaysLoad(provider, err)
  BY <1>3 DEF Override, SaysLoad
<1> QED
  BY <1>4, <1>5

\* A status of 429 may mean a limit, or what the code or the words say.
LEMMA LimitEvidence ==
    ASSUME NEW provider, NEW err \in Errors, err.status = 429
    PROVE  /\ Classify(provider, err) = "RATE_LIMIT_TIER" => err.headers = "zero" \/ SaysOwn(provider, err)
           /\ Classify(provider, err) = "RATE_LIMIT_LOAD" => err.headers = "some" \/ SaysLoad(provider, err)
<1> DEFINE type == Classify(provider, err)
<1>1. type \in {"CONTEXT_OVERFLOW", "QUOTA_EXHAUSTED", "CONTENT_BLOCKED", Classify429(provider, err)}
  BY DEF Classify
<1>2. Classify429(provider, err) = "RATE_LIMIT_TIER" => Override(provider, err) = "RATE_LIMIT_TIER" \/ err.headers = "zero"
  BY DEF Classify429, RemainingHeaders
<1>3. err.headers \in {"absent", "zero", "some"}
  BY DEF Errors
<1>4. Classify429(provider, err) = "RATE_LIMIT_LOAD" => Override(provider, err) = "RATE_LIMIT_LOAD" \/ err.headers = "some"
  BY <1>3 DEF Classify429, RemainingHeaders
<1>5. /\ type = "RATE_LIMIT_TIER" => Classify429(provider, err) = "RATE_LIMIT_TIER"
      /\ type = "RATE_LIMIT_LOAD" => Classify429(provider, err) = "RATE_LIMIT_LOAD"
  <2> HIDE DEF type
  <2> QED
    BY <1>1
<1> QED
  BY <1>2, <1>4, <1>5, OverrideEvidence

\* Cerebras's words count for load before any header.
LEMMA WordsOfLoad ==
    ASSUME NEW provider, provider = "cerebras",
           NEW err \in Errors, err.status = 429, err.wording = "high_traffic", ~HeardOwn(err)
    PROVE  Classify(provider, err) = "RATE_LIMIT_LOAD"
<1>1. ~MatchesContextOverflow(err) /\ err.wording # "overflow"
  BY DEF MatchesContextOverflow
<1>2. ExtractCode(err) \notin SpecificCodes
  <2>2. CASE err.code = NoCode
    <3>1. ~Masked(err)
      BY <2>2 DEF Masked
    <3>2. err.inner \notin SpecificCodes
      BY <3>1 DEF HeardOwn, CallersOwn
    <3> QED
      BY <2>2, <3>2 DEF ExtractCode
  <2>3. CASE err.code # NoCode
    <3>1. err.code \in SpecificCodes => CallersOwn(err) /\ ~Masked(err)
      BY DEF CallersOwn, Masked
    <3> QED
      BY <2>3, <3>1 DEF ExtractCode, HeardOwn
  <2> QED
    BY <2>2, <2>3
<1>3. /\ ExtractCode(err) \notin OverflowCodes /\ ExtractCode(err) \notin QuotaCodes
      /\ ExtractCode(err) \notin ContentCodes
  BY <1>2 DEF SpecificCodes
<1>4. Classify(provider, err) = Classify429(provider, err)
  BY <1>1, <1>3 DEF Classify
<1>5. Override(provider, err) = "RATE_LIMIT_LOAD"
  BY DEF Override, TierByCode
<1> QED
  BY <1>4, <1>5 DEF Classify429

\* An error that counts as a failure is not heard as the caller's own, nor of status 400.
LEMMA CountedCauses ==
    ASSUME NEW provider, NEW err \in Errors,
           Classify(provider, err) = "AUTH_INVALID" \/ Retryable(Classify(provider, err))
    PROVE  /\ ~HeardOwn(err) /\ err.status # 400
           /\ Classify(provider, err) = "AUTH_INVALID" => err.status \in {401, 403}
<1>1. ~HeardOwn(err)
  BY SpecificFirst DEF Retryable
<1>2. err.status \in Nat
  BY DEF Errors, NoStatus
<1>3. err.status = 400 => Classify(provider, err) \in {"CONTEXT_OVERFLOW", "QUOTA_EXHAUSTED", "CONTENT_BLOCKED", "PROVIDER_ERROR"}
  BY DEF Classify
<1>4. Override(provider, err) # "AUTH_INVALID"
  BY DEF Override
<1>5. Classify429(provider, err) # "AUTH_INVALID"
  BY <1>4 DEF Classify429
<1>6. Classify(provider, err) = "AUTH_INVALID" => err.status \in {401, 403}
  BY <1>5 DEF Classify
<1> QED
  BY <1>1, <1>3, <1>6 DEF Retryable

\* One more failure: what counts is counted, and a cooldown has its cause.
LEMMA FailureCounted ==
    ASSUME NEW provider, NEW seen \in Seq(Errors), NEW err \in Errors, NEW entry, CauseOK(entry, seen)
    PROVE  CauseOK(RecordFailure(entry, Classify(provider, err)), Append(seen, err))
<1> DEFINE all == Append(seen, err)
           type == Classify(provider, err)
           new == RecordFailure(entry, type)
           n == Len(seen) + 1
<1>0. /\ entry \in [failCount : Nat, until : BOOLEAN]
      /\ entry.failCount <= Cardinality(Counted(seen))
      /\ entry.until => \/ \E i \in DOMAIN seen : seen[i].status \in {401, 403}
                        \/ entry.failCount >= Threshold
  BY DEF CauseOK
<1>1. /\ Len(seen) \in Nat /\ DOMAIN seen = 1 .. Len(seen) /\ DOMAIN all = 1 .. n
      /\ n \notin DOMAIN seen /\ all[n] = err
      /\ \A i \in DOMAIN seen : i \in DOMAIN all /\ all[i] = seen[i]
  OBVIOUS
<1>a. n \in DOMAIN all
  BY <1>1
<1>2. IsFiniteSet(Counted(seen)) /\ Cardinality(Counted(seen)) \in Nat
  <2>0. 1 \in Int /\ Len(seen) \in Int
    BY <1>1
  <2>1. IsFiniteSet(1 .. Len(seen))
    BY <2>0, FS_Interval, Zenon
  <2>2. Counted(seen) \subseteq 1 .. Len(seen)
    BY <1>1 DEF Counted
  <2> QED
    BY <2>1, <2>2, FS_Subset, FS_CardinalityType
<1>3. n \notin Counted(seen)
  BY <1>1 DEF Counted
<1>4. Cardinality(Counted(all)) =
          IF ~HeardOwn(err) /\ err.status # 400 THEN Cardinality(Counted(seen)) + 1
          ELSE Cardinality(Counted(seen))
  <2>1. CASE ~HeardOwn(err) /\ err.status # 400
    <3>1. Counted(all) = Counted(seen) \cup {n}
      BY <1>1, <2>1 DEF Counted
    <3> QED
      BY <1>2, <1>3, <2>1, <3>1, FS_AddElement
  <2>2. CASE ~(~HeardOwn(err) /\ err.status # 400)
    <3>1. Counted(all) = Counted(seen)
      BY <1>1, <2>2 DEF Counted
    <3> QED
      BY <2>2, <3>1
  <2> QED
    BY <2>1, <2>2
<1>5. type = "AUTH_INVALID" \/ Retryable(type) =>
          /\ Cardinality(Counted(all)) = Cardinality(Counted(seen)) + 1
          /\ type = "AUTH_INVALID" => all[n].status \in {401, 403}
  BY <1>1, <1>4, CountedCauses
<1>6. Cardinality(Counted(all)) >= Cardinality(Counted(seen)) /\ Cardinality(Counted(all)) \in Nat
  BY <1>2, <1>4
<1>7. (\E i \in DOMAIN seen : seen[i].status \in {401, 403}) =>
            (\E i \in DOMAIN all : all[i].status \in {401, 403})
  BY <1>1
<1> HIDE DEF all, type, n
<1>8. CASE type = "AUTH_INVALID"
  <2>1. new = [failCount |-> entry.failCount + 1, until |-> TRUE]
    BY <1>8 DEF RecordFailure
  <2>2. entry.failCount \in Nat
    BY <1>0
  <2>3. n \in DOMAIN all /\ all[n].status \in {401, 403}
    BY <1>a, <1>5, <1>8
  <2>4. entry.failCount + 1 <= Cardinality(Counted(all))
    BY <1>0, <1>2, <1>5, <1>6, <1>8, <2>2
  <2> HIDE DEF new
  <2> QED
    BY <2>1, <2>2, <2>3, <2>4 DEF all, type, new, CauseOK
<1>9. CASE type # "AUTH_INVALID" /\ ~Retryable(type)
  <2>1. new = entry
    BY <1>9 DEF RecordFailure
  <2>2. entry.failCount \in Nat /\ entry.until \in BOOLEAN
    BY <1>0
  <2>3. entry.failCount <= Cardinality(Counted(all))
    BY <1>0, <1>2, <1>6, <2>2
  <2>4. entry.until => \/ \E i \in DOMAIN all : all[i].status \in {401, 403}
                       \/ entry.failCount >= Threshold
    BY <1>0, <1>7
  <2> HIDE DEF new
  <2> QED
    BY <2>1, <2>2, <2>3, <2>4 DEF all, type, new, CauseOK
<1>10. CASE type # "AUTH_INVALID" /\ Retryable(type)
  <2> DEFINE until == entry.until \/ entry.failCount + 1 >= Threshold
  <2>1. new = [failCount |-> entry.failCount + 1, until |-> until]
    BY <1>10 DEF RecordFailure
  <2>2. entry.failCount \in Nat /\ until \in BOOLEAN
    BY <1>0
  <2>3. until => \/ \E i \in DOMAIN all : all[i].status \in {401, 403}
                 \/ entry.failCount + 1 >= Threshold
    <3>1. entry.until => \/ \E i \in DOMAIN all : all[i].status \in {401, 403}
                         \/ entry.failCount >= Threshold
      BY <1>0, <1>7
    <3>2. entry.failCount >= Threshold => entry.failCount + 1 >= Threshold
      BY <2>2, ThresholdAssumption
    <3> QED
      BY <3>1, <3>2
  <2> HIDE DEF until, new
  <2> QED
    BY <1>0, <1>2, <1>5, <1>10, <2>1, <2>2, <2>3 DEF all, type, new, CauseOK
<1> QED
  BY <1>8, <1>9, <1>10 DEF all, type
\* The invariant holds of every behaviour.
LEMMA CooldownInvariant == ErrorsSpec => []CooldownInv
<1>1. Init => CooldownInv
  BY DEF Init, Idle, CooldownInv, Failing
<1>2. ASSUME Fail
      PROVE  CooldownInv'
  <2>1. PICK provider \in Providers, err \in Errors :
            scenario' = [kind |-> "errors", provider |-> provider, seen |-> <<err>>,
                         entry |-> RecordFailure(Fresh, Classify(provider, err))]
    BY <1>2 DEF Fail
  <2> DEFINE new == RecordFailure(Fresh, Classify(provider, err))
  <2>2. CauseOK(Fresh, << >>)
    <3>1. Cardinality(Counted(<< >>)) = 0
      <4>1. Counted(<< >>) = {}
        BY DEF Counted
      <4>2. Cardinality({}) = 0
        BY FS_EmptySet
      <4> QED
        BY <4>1, <4>2
    <3>2. Fresh.failCount = 0 /\ Fresh.until = FALSE /\ Fresh \in [failCount : Nat, until : BOOLEAN]
      BY DEF Fresh
    <3> DEFINE count == Cardinality(Counted(<< >>))
    <3>3. Fresh.failCount <= count
      BY <3>1, <3>2
    <3> QED
      BY <3>2, <3>3 DEF CauseOK
  <2>3. CauseOK(new, <<err>>)
    <3>1. << >> \in Seq(Errors) /\ Append(<< >>, err) = <<err>>
      OBVIOUS
    <3>2. CauseOK(new, Append(<< >>, err))
      BY <2>2, <3>1, FailureCounted
    <3> QED
      BY <3>1, <3>2
  <2> HIDE DEF new
  <2>4. /\ scenario'.seen = <<err>> /\ scenario'.entry = new
        /\ DOMAIN scenario' = {"kind", "provider", "seen", "entry"}
    BY <2>1 DEF new
  <2> QED
    BY <2>3, <2>4 DEF CooldownInv
<1>3. ASSUME CooldownInv, FailAgain
      PROVE  CooldownInv'
  <2>1. PICK err \in Repeats :
            scenario' = [scenario EXCEPT !.seen = Append(@, err),
                            !.entry = RecordFailure(@, Classify(scenario.provider, err))]
    BY <1>3 DEF FailAgain
  <2> DEFINE seen == scenario.seen
             entry == scenario.entry
             new == RecordFailure(entry, Classify(scenario.provider, err))
             all == Append(seen, err)
  <2>2. /\ err \in Errors /\ seen \in Seq(Errors) /\ CauseOK(entry, seen)
        /\ DOMAIN scenario = {"kind", "provider", "seen", "entry"}
    BY <1>3 DEF CooldownInv, FailAgain, Failing, Repeats
  <2>3. /\ scenario'.seen = all /\ scenario'.entry = new
        /\ DOMAIN scenario' = {"kind", "provider", "seen", "entry"}
    BY <2>1, <2>2
  <2> HIDE DEF seen, entry
  <2>4. CauseOK(new, all)
    BY <2>2, FailureCounted
  <2>5. all \in Seq(Errors) /\ all # << >>
    BY <2>2
  <2> HIDE DEF new, all
  <2> QED
    BY <2>3, <2>4, <2>5 DEF CooldownInv
<1>4. CooldownInv /\ [Fail \/ FailAgain \/ Elsewhere("errors")]_scenario => CooldownInv'
  <2>1. ASSUME CooldownInv, Elsewhere("errors")
        PROVE  CooldownInv'
    BY <2>1 DEF Elsewhere, CooldownInv, Failing
  <2>2. ASSUME CooldownInv, UNCHANGED scenario
        PROVE  CooldownInv'
    BY <2>2 DEF CooldownInv, Failing
  <2> QED
    BY <1>2, <1>3, <2>1, <2>2
<1> QED
  BY <1>1, <1>4, PTL DEF ErrorsSpec

\* What the invariant says of a cooldown, and what the classes say of an error, is what
\* a call's caller relies on.
LEMMA CooldownInvJudged == CooldownInv => ErrorsJudged
<1> SUFFICES ASSUME CooldownInv, Failing
             PROVE  ErrorsJudged
  BY DEF ErrorsJudged, SpecificSurvives, LimitNeedsEvidence, CoolsForCause
<1>1. Latest \in Errors
  BY DEF CooldownInv, Latest
<1>2. SpecificSurvives
  <2>1. HeardOwn(Latest) => ~Retryable(Type) /\ Type \notin {"AUTH_INVALID", "PROVIDER_ERROR"}
    BY <1>1, SpecificFirst DEF Type, Retryable
  <2>2. Masked(Latest) => (Retryable(Type) <=> Latest.status \in {NoStatus, 429, 500})
    BY <1>1, MaskedByStatus DEF Type
  <2> QED
    BY <2>1, <2>2 DEF SpecificSurvives
<1>3. LimitNeedsEvidence
  <2> SUFFICES ASSUME Latest.status = 429
               PROVE  /\ Type = "RATE_LIMIT_TIER" => Latest.headers = "zero" \/ SaysOwn(scenario.provider, Latest)
                      /\ Type = "RATE_LIMIT_LOAD" => Latest.headers = "some" \/ SaysLoad(scenario.provider, Latest)
                      /\ (scenario.provider = "cerebras" /\ Latest.wording = "high_traffic" /\ ~HeardOwn(Latest)) =>
                            Type = "RATE_LIMIT_LOAD"
    BY DEF LimitNeedsEvidence, SaysOwn, SaysLoad
  <2>1. /\ Type = "RATE_LIMIT_TIER" => Latest.headers = "zero" \/ SaysOwn(scenario.provider, Latest)
        /\ Type = "RATE_LIMIT_LOAD" => Latest.headers = "some" \/ SaysLoad(scenario.provider, Latest)
    BY <1>1, LimitEvidence DEF Type
  <2>2. (scenario.provider = "cerebras" /\ Latest.wording = "high_traffic" /\ ~HeardOwn(Latest)) =>
            Type = "RATE_LIMIT_LOAD"
    <3> SUFFICES ASSUME scenario.provider = "cerebras", Latest.wording = "high_traffic", ~HeardOwn(Latest)
                 PROVE  Type = "RATE_LIMIT_LOAD"
      OBVIOUS
    <3> QED
      BY <1>1, WordsOfLoad DEF Type
  <2> QED
    BY <2>1, <2>2
<1>4. CoolsForCause
  <2>1. Cardinality(Counted(scenario.seen)) \in Nat
    <3>1. DOMAIN scenario.seen = 1 .. Len(scenario.seen) /\ Len(scenario.seen) \in Nat
      BY DEF CooldownInv
    <3>2. IsFiniteSet(1 .. Len(scenario.seen)) /\ Counted(scenario.seen) \subseteq 1 .. Len(scenario.seen)
      BY <3>1, FS_Interval DEF Counted
    <3> QED
      BY <3>2, FS_Subset, FS_CardinalityType
  <2>2. /\ scenario.entry.failCount \in Nat
        /\ scenario.entry.failCount <= Cardinality(Counted(scenario.seen))
        /\ scenario.entry.until =>
              \/ \E i \in DOMAIN scenario.seen : scenario.seen[i].status \in {401, 403}
              \/ scenario.entry.failCount >= Threshold
    BY DEF CooldownInv, CauseOK
  <2>3. scenario.entry.failCount >= Threshold => Cardinality(Counted(scenario.seen)) >= Threshold
    BY <2>1, <2>2, ThresholdAssumption
  <2> QED
    BY <2>2, <2>3 DEF CoolsForCause, Counted
<1> QED
  BY <1>2, <1>3, <1>4 DEF ErrorsJudged

\* _errors.js and _cooldown.js: for every threshold and any failures in any order, the
\* caller's own mistakes stay such under every status where no outer code masks them, a
\* limit is told from load by what the provider said or a header shows, and a provider is
\* left alone only for a cause.
LEMMA ErrorsPart == ErrorsSpec => []ErrorsJudged
BY CooldownInvariant, CooldownInvJudged, PTL
-----------------------------------------------------------------------------
-----------------------------------------------------------------------------
(* The rate limits of a process.                                           *)

LimitsNext ==
    \/ StartProcess \/ Restart \/ SetModelLimit \/ ClearModelLimit
    \/ SetProviderLimit \/ ClearProviderLimit \/ CallModel \/ WakeUp \/ MinutePasses
LimitsSpec == Init /\ [][LimitsNext \/ Elsewhere("limits")]_scenario

Limit == Rpms \cup {Unlimited}
LimitCases ==
    [kind : {"limits"}, file : [LimitedModels -> Rules], providerFile : Limit, provider : Limit,
     loaded : BOOLEAN, spec : [LimitedModels -> Rules], count : [Buckets -> Nat],
     started : [Buckets -> Nat], passed : [Buckets -> Nat],
     asleep : [LimitedModels -> Nat], due : [LimitedModels -> Nat], most : Limit]

\* A call of a model with a limit of its own is in the bucket that this limit bounds.
OwnCounted(s) ==
    \A m \in LimitedModels : s.spec[m].rpm # Unlimited =>
        /\ s.started[m] <= s.count[BucketOf(s.spec[m], m)]
        /\ s.passed[m] <= s.spec[m].rpm

\* Where every limit of the minute was one, so are the others in their provider's.
SharedCounted(s) ==
    s.most # Unlimited =>
        /\ s.started["provider"] <= s.count["provider"]
        /\ s.passed["provider"] <= s.most

\* Before the first call nothing is counted and nothing waits.
Quiet(s) ==
    /\ s.count = Zero(Buckets) /\ s.started = Zero(Buckets) /\ s.passed = Zero(Buckets)
    /\ s.asleep = Zero(LimitedModels) /\ s.due = Zero(LimitedModels)

LimitsOK(s) ==
    /\ s.provider <= s.most
    /\ ~s.loaded => Quiet(s)
    /\ s.loaded => OwnCounted(s) /\ SharedCounted(s)

LimitsInv == Limiting => scenario \in LimitCases /\ LimitsOK(scenario)

\* Limits are numbers below the one that stands for none.
LEMMA LimitNumbers ==
    /\ Unlimited \in Nat /\ Unlimited \notin Rpms /\ Limit \subseteq Nat
    /\ \A a \in Limit : a <= Unlimited
    /\ Free \in Rules /\ 0 \in Rpms
BY LimitsAssumption DEF Unlimited, Limit, Rules, Free

\* What either limit is, a call runs under one of them.
LEMMA EffectiveLimit ==
    ASSUME NEW rule \in Rules, NEW provider \in Limit
    PROVE  /\ Effective(rule, provider) \in Limit
           /\ rule.rpm # Unlimited => Effective(rule, provider) = rule.rpm
           /\ rule = Free => Effective(rule, provider) = provider
BY DEF Effective, Either, Rules, Limit, Free

\* The buckets: those of the models and the provider's.
LEMMA BucketIn ==
    ASSUME NEW rule \in Rules, NEW m \in LimitedModels
    PROVE  BucketOf(rule, m) \in Buckets /\ "provider" \in Buckets /\ (rule = Free => BucketOf(rule, m) = "provider")
BY DEF BucketOf, Buckets, Rules, Free

\* The counts of an empty minute satisfy the invariant, whatever limits are set.
LEMMA EmptyMinuteOK ==
    ASSUME NEW s \in LimitCases, s.provider <= s.most, ~s.loaded => Quiet(s),
           s.count = Zero(Buckets), s.started = Zero(Buckets), s.passed = Zero(Buckets)
    PROVE  LimitsOK(s)
<1>0. \A b \in Buckets : s.count[b] = 0 /\ s.started[b] = 0 /\ s.passed[b] = 0
  BY DEF Zero
<1>1. OwnCounted(s)
  <2> SUFFICES ASSUME NEW m \in LimitedModels, s.spec[m].rpm # Unlimited
               PROVE  /\ s.started[m] <= s.count[BucketOf(s.spec[m], m)]
                      /\ s.passed[m] <= s.spec[m].rpm
    BY DEF OwnCounted
  <2>1. s.spec[m] \in Rules /\ s.spec[m].rpm \in Limit
    BY DEF LimitCases, Rules, Limit
  <2>2. s.started[m] = 0 /\ s.passed[m] = 0 /\ s.count[BucketOf(s.spec[m], m)] = 0
    BY <1>0, <2>1, BucketIn DEF Buckets
  <2>3. s.spec[m].rpm \in Nat
    BY <2>1, LimitNumbers
  <2> QED
    BY <2>2, <2>3
<1>2. SharedCounted(s)
  <2>1. s.started["provider"] = 0 /\ s.passed["provider"] = 0 /\ s.count["provider"] = 0
    BY <1>0 DEF Buckets
  <2>2. s.most \in Nat
    BY LimitNumbers DEF LimitCases
  <2> QED
    BY <2>1, <2>2 DEF SharedCounted
<1> QED
  BY <1>1, <1>2 DEF LimitsOK

\* What is set or cleared touches no count, and no limit that the session has read.
LEMMA SettingOK ==
    ASSUME NEW s \in LimitCases, NEW t \in LimitCases, LimitsOK(s),
           t.loaded = s.loaded, t.spec = s.spec, t.count = s.count, t.started = s.started, t.passed = s.passed,
           t.asleep = s.asleep, t.due = s.due, t.provider <= t.most, s.most <= t.most
    PROVE  LimitsOK(t)
<1>1. s.most \in Nat /\ t.most \in Nat /\ s.most <= Unlimited /\ t.most <= Unlimited /\ Unlimited \in Nat
  BY LimitNumbers DEF LimitCases
<1>2. t.most # Unlimited => s.most # Unlimited
  BY <1>1
<1>3. s.passed["provider"] \in Nat
  BY DEF LimitCases, Buckets
<1>4. OwnCounted(s) => OwnCounted(t)
  BY DEF OwnCounted
<1>5. SharedCounted(s) => SharedCounted(t)
  <2> SUFFICES ASSUME SharedCounted(s), t.most # Unlimited
               PROVE  s.started["provider"] <= s.count["provider"] /\ s.passed["provider"] <= t.most
    BY DEF SharedCounted
  <2>1. s.started["provider"] <= s.count["provider"] /\ s.passed["provider"] <= s.most
    BY <1>2 DEF SharedCounted
  <2> QED
    BY <1>1, <1>3, <2>1
<1>6. Quiet(s) => Quiet(t)
  BY DEF Quiet
<1> QED
  BY <1>4, <1>5, <1>6 DEF LimitsOK

\* Calls started, with one more.
More(started, rule, m) ==
    [b \in Buckets |-> IF b \in CountedIn(rule, m) THEN started[b] + 1 ELSE started[b]]

LEMMA MoreStarted ==
    ASSUME NEW started \in [Buckets -> Nat], NEW rule \in Rules, NEW m \in LimitedModels
    PROVE  /\ More(started, rule, m) \in [Buckets -> Nat]
           /\ More(started, rule, m)[m] = started[m] + 1
           /\ \A k \in LimitedModels : k # m => More(started, rule, m)[k] = started[k]
           /\ rule = Free => More(started, rule, m)["provider"] = started["provider"] + 1
           /\ rule # Free => More(started, rule, m)["provider"] = started["provider"]
<1>1. m \in Buckets /\ "provider" \in Buckets /\ m # "provider" /\ LimitedModels \subseteq Buckets
  BY LimitsAssumption DEF Buckets
<1>2. \A b \in Buckets : More(started, rule, m)[b] = IF b \in CountedIn(rule, m) THEN started[b] + 1 ELSE started[b]
  BY DEF More
<1>3. \A b : b \in CountedIn(rule, m) <=> b = m \/ (b = "provider" /\ rule = Free)
  BY DEF CountedIn
<1>4. More(started, rule, m) \in [Buckets -> Nat]
  BY DEF More
<1>5. \A k \in LimitedModels : k # "provider"
  BY LimitsAssumption
<1> QED
  BY <1>1, <1>2, <1>3, <1>4, <1>5

\* One more call, at once or after a sleep: it is counted where its limit counts, and
\* what it lets pass is within the limit.
LEMMA CallOK ==
    ASSUME NEW s \in LimitCases, NEW t \in LimitCases, s.loaded, t.loaded, LimitsOK(s), NEW m \in LimitedModels,
           t.spec = s.spec, t.provider = s.provider, t.most = s.most,
           t.started = More(s.started, s.spec[m], m),
           \A b \in Buckets : t.count[b] >= s.count[b],
           s.spec[m].rpm # Unlimited =>
               t.count[BucketOf(s.spec[m], m)] >= s.count[BucketOf(s.spec[m], m)] + 1,
           (s.spec[m] = Free /\ s.most # Unlimited) => t.count["provider"] >= s.count["provider"] + 1,
           \A k \in LimitedModels : k # m => t.passed[k] = s.passed[k],
           s.spec[m].rpm # Unlimited => t.passed[m] = s.passed[m] \/ t.passed[m] <= s.spec[m].rpm,
           s.most # Unlimited => t.passed["provider"] = s.passed["provider"] \/ t.passed["provider"] <= s.most
    PROVE  LimitsOK(t)
<1> DEFINE rule == s.spec[m]
<1>1. /\ rule \in Rules /\ s.started \in [Buckets -> Nat] /\ s.count \in [Buckets -> Nat] /\ t.count \in [Buckets -> Nat]
      /\ \A k \in LimitedModels : s.spec[k] \in Rules
  BY DEF LimitCases
<1>2. OwnCounted(s) /\ SharedCounted(s) /\ s.provider <= s.most
  BY DEF LimitsOK
<1>3. /\ t.started[m] = s.started[m] + 1
      /\ \A k \in LimitedModels : k # m => t.started[k] = s.started[k]
      /\ rule = Free => t.started["provider"] = s.started["provider"] + 1
      /\ rule # Free => t.started["provider"] = s.started["provider"]
  BY <1>1, MoreStarted
<1> HIDE DEF rule
<1>4. OwnCounted(t)
  <2> SUFFICES ASSUME NEW k \in LimitedModels, s.spec[k].rpm # Unlimited
               PROVE  /\ t.started[k] <= t.count[BucketOf(s.spec[k], k)]
                      /\ t.passed[k] <= s.spec[k].rpm
    BY DEF OwnCounted
  <2>1. /\ s.started[k] <= s.count[BucketOf(s.spec[k], k)] /\ s.passed[k] <= s.spec[k].rpm
        /\ BucketOf(s.spec[k], k) \in Buckets /\ k \in Buckets
    BY <1>1, <1>2, BucketIn DEF OwnCounted, Buckets
  <2>2. s.started[k] \in Nat /\ s.count[BucketOf(s.spec[k], k)] \in Nat /\ t.count[BucketOf(s.spec[k], k)] \in Nat
    BY <1>1, <2>1
  <2>3. CASE k = m
    <3>1. t.count[BucketOf(s.spec[k], k)] >= s.count[BucketOf(s.spec[k], k)] + 1 /\ t.passed[k] <= s.spec[k].rpm
      BY <2>1, <2>3
    <3> QED
      BY <1>3, <2>1, <2>2, <2>3, <3>1
  <2>4. CASE k # m
    <3>1. t.count[BucketOf(s.spec[k], k)] >= s.count[BucketOf(s.spec[k], k)] /\ t.passed[k] = s.passed[k]
      BY <2>1, <2>4
    <3> QED
      BY <1>3, <2>1, <2>2, <2>4, <3>1
  <2> QED
    BY <2>3, <2>4
<1>5. SharedCounted(t)
  <2> SUFFICES ASSUME s.most # Unlimited
               PROVE  t.started["provider"] <= t.count["provider"] /\ t.passed["provider"] <= s.most
    BY DEF SharedCounted
  <2>1. "provider" \in Buckets
    BY DEF Buckets
  <2>2. s.started["provider"] \in Nat /\ s.count["provider"] \in Nat /\ t.count["provider"] \in Nat
    BY <1>1, <2>1
  <2>3. /\ s.started["provider"] <= s.count["provider"] /\ s.passed["provider"] <= s.most
        /\ t.count["provider"] >= s.count["provider"]
        /\ rule = Free => t.count["provider"] >= s.count["provider"] + 1
    BY <1>2, <2>1 DEF SharedCounted, rule
  <2>4. t.passed["provider"] <= s.most
    BY <2>3
  <2> QED
    BY <1>3, <2>2, <2>3, <2>4
<1> QED
  BY <1>2, <1>4, <1>5 DEF LimitsOK

\* The invariant holds of every behaviour.
LEMMA LimitsInvariant == LimitsSpec => []LimitsInv
<1>1. Init => LimitsInv
  BY DEF Init, Idle, LimitsInv, Limiting
<1>2. ASSUME NEW file \in [LimitedModels -> Rules], NEW provider \in Limit, scenario' = Process(file, provider)
      PROVE  LimitsInv'
  <2>1. scenario' \in LimitCases
    BY <1>2, LimitNumbers, LimitsAssumption DEF Process, LimitCases, Zero
  <2>2. /\ scenario'.provider = provider /\ scenario'.most = provider /\ Quiet(scenario')
        /\ scenario'.count = Zero(Buckets) /\ scenario'.started = Zero(Buckets)
        /\ scenario'.passed = Zero(Buckets)
    BY <1>2 DEF Process, Quiet
  <2>3. scenario'.provider <= scenario'.most
    BY <2>2, LimitNumbers
  <2>4. LimitsOK(scenario')
    BY <2>1, <2>2, <2>3, EmptyMinuteOK
  <2> QED
    BY <2>1, <2>4 DEF LimitsInv
<1>3. StartProcess => LimitsInv'
  BY <1>2 DEF StartProcess, Limit
<1>4. ASSUME LimitsInv, Restart
      PROVE  LimitsInv'
  <2>1. scenario.file \in [LimitedModels -> Rules] /\ scenario.providerFile \in Limit
    BY <1>4 DEF LimitsInv, Restart, LimitCases
  <2> QED
    BY <1>2, <1>4, <2>1 DEF Restart
<1>5. ASSUME LimitsInv, NEW m \in LimitedModels, NEW rule \in Rules, Limiting,
             scenario' = [scenario EXCEPT !.file[m] = rule]
      PROVE  LimitsInv'
  <2>1. scenario \in LimitCases /\ LimitsOK(scenario)
    BY <1>5 DEF LimitsInv
  <2>2. scenario' \in LimitCases
    BY <1>5, <2>1 DEF LimitCases
  <2>3. /\ scenario'.loaded = scenario.loaded /\ scenario'.spec = scenario.spec
        /\ scenario'.count = scenario.count /\ scenario'.started = scenario.started
        /\ scenario'.passed = scenario.passed /\ scenario'.asleep = scenario.asleep /\ scenario'.due = scenario.due
        /\ scenario'.provider = scenario.provider /\ scenario'.most = scenario.most
    BY <1>5, <2>1 DEF LimitCases
  <2>4. scenario'.provider <= scenario'.most /\ scenario.most <= scenario'.most
    <3>1. scenario.most \in Nat
      BY <2>1, LimitNumbers DEF LimitCases
    <3> QED
      BY <2>1, <2>3, <3>1 DEF LimitsOK
  <2>5. LimitsOK(scenario')
    BY <2>1, <2>2, <2>3, <2>4, SettingOK
  <2> QED
    BY <2>2, <2>5 DEF LimitsInv
<1>6. ASSUME LimitsInv, SetModelLimit
      PROVE  LimitsInv'
  <2>1. PICK m \in LimitedModels, rpm \in Rpms : scenario' = [scenario EXCEPT !.file[m] = [rpm |-> rpm, scope |-> "model"]]
    BY <1>6 DEF SetModelLimit
  <2>2. [rpm |-> rpm, scope |-> "model"] \in Rules
    BY DEF Rules
  <2> QED
    BY <1>5, <1>6, <2>1, <2>2 DEF SetModelLimit
<1>7. ASSUME LimitsInv, ClearModelLimit
      PROVE  LimitsInv'
  <2>1. PICK m \in LimitedModels : scenario' = [scenario EXCEPT !.file[m] = Free]
    BY <1>7 DEF ClearModelLimit
  <2> QED
    BY <1>5, <1>7, <2>1, LimitNumbers DEF ClearModelLimit
<1>8. ASSUME LimitsInv, Limiting, NEW rpm \in Limit, scenario' = WithProvider(rpm)
      PROVE  LimitsInv'
  <2> DEFINE most == IF scenario.most < rpm THEN rpm ELSE scenario.most
  <2>1. scenario \in LimitCases /\ LimitsOK(scenario) /\ scenario.most \in Limit
    BY <1>8 DEF LimitsInv, LimitCases
  <2>2. most \in Limit /\ rpm <= most /\ scenario.most <= most
    <3>1. rpm \in Nat /\ scenario.most \in Nat
      BY <2>1, LimitNumbers
    <3> QED
      BY <2>1, <3>1
  <2>3. /\ scenario' = [scenario EXCEPT !.provider = rpm, !.providerFile = rpm, !.most = most]
    BY <1>8 DEF WithProvider
  <2> HIDE DEF most
  <2>4. scenario' \in LimitCases
    BY <2>1, <2>2, <2>3 DEF LimitCases
  <2>5. /\ scenario'.loaded = scenario.loaded /\ scenario'.spec = scenario.spec
        /\ scenario'.count = scenario.count /\ scenario'.started = scenario.started
        /\ scenario'.passed = scenario.passed /\ scenario'.asleep = scenario.asleep /\ scenario'.due = scenario.due
        /\ scenario'.provider = rpm /\ scenario'.most = most
    BY <2>1, <2>3 DEF LimitCases
  <2>6. scenario'.provider <= scenario'.most /\ scenario.most <= scenario'.most
    BY <2>2, <2>5
  <2>7. LimitsOK(scenario')
    BY <2>1, <2>4, <2>5, <2>6, SettingOK
  <2> QED
    BY <2>4, <2>7 DEF LimitsInv
<1>9. LimitsInv /\ (SetProviderLimit \/ ClearProviderLimit) => LimitsInv'
  BY <1>8 DEF SetProviderLimit, ClearProviderLimit, Limit
<1>10. ASSUME LimitsInv, MinutePasses
       PROVE  LimitsInv'
  <2> DEFINE due == [m \in LimitedModels |-> scenario.due[m] + scenario.asleep[m]]
  <2>1. scenario \in LimitCases /\ LimitsOK(scenario)
    BY <1>10 DEF LimitsInv, MinutePasses
  <2>2. scenario' = [scenario EXCEPT !.count = Zero(Buckets), !.started = Zero(Buckets), !.passed = Zero(Buckets),
                                     !.due = due, !.asleep = Zero(LimitedModels), !.most = scenario.provider]
    BY <1>10, <2>1 DEF MinutePasses, LimitCases
  <2>3. Zero(Buckets) \in [Buckets -> Nat] /\ Zero(LimitedModels) \in [LimitedModels -> Nat]
    BY DEF Zero
  <2>4. due \in [LimitedModels -> Nat]
    BY <2>1 DEF LimitCases
  <2>5. ~scenario.loaded => due = Zero(LimitedModels)
    <3> SUFFICES ASSUME ~scenario.loaded PROVE due = Zero(LimitedModels)
      OBVIOUS
    <3>1. scenario.due = Zero(LimitedModels) /\ scenario.asleep = Zero(LimitedModels)
      BY <2>1 DEF LimitsOK, Quiet
    <3>2. \A m \in LimitedModels : Zero(LimitedModels)[m] = 0
      BY DEF Zero
    <3>3. \A m \in LimitedModels : scenario.due[m] + scenario.asleep[m] = 0
      BY <3>1, <3>2
    <3> QED
      BY <3>3 DEF Zero
  <2> HIDE DEF due
  <2>6. scenario' \in LimitCases
    BY <2>1, <2>2, <2>3, <2>4 DEF LimitCases
  <2>7. /\ scenario'.provider = scenario.provider /\ scenario'.most = scenario.provider
        /\ scenario'.count = Zero(Buckets) /\ scenario'.started = Zero(Buckets) /\ scenario'.passed = Zero(Buckets)
        /\ scenario'.due = due /\ scenario'.asleep = Zero(LimitedModels) /\ scenario'.loaded = scenario.loaded
    BY <2>1, <2>2 DEF LimitCases
  <2>8. scenario'.provider <= scenario'.most
    <3>1. scenario.provider \in Nat
      BY <2>1, LimitNumbers DEF LimitCases
    <3> QED
      BY <2>7, <3>1
  <2>9. ~scenario'.loaded => Quiet(scenario')
    BY <2>5, <2>7 DEF Quiet
  <2>10. LimitsOK(scenario')
    BY <2>6, <2>7, <2>8, <2>9, EmptyMinuteOK
  <2> QED
    BY <2>6, <2>10 DEF LimitsInv
<1>11. ASSUME LimitsInv, CallModel
       PROVE  LimitsInv'
  <2> DEFINE read == [scenario EXCEPT !.loaded = TRUE, !.spec = SpecsRead]
  <2>1. PICK m \in LimitedModels :
            \/ LetThrough(m, Effective(SpecsRead[m], scenario.provider), BucketOf(SpecsRead[m], m))
            \/ Throttle(m, Effective(SpecsRead[m], scenario.provider), BucketOf(SpecsRead[m], m))
    BY <1>11 DEF CallModel
  <2> DEFINE rule == SpecsRead[m]
             bucket == BucketOf(rule, m)
             limit == Effective(rule, scenario.provider)
  <2>2. scenario \in LimitCases /\ LimitsOK(scenario)
    BY <1>11 DEF LimitsInv, CallModel
  <2>3. SpecsRead \in [LimitedModels -> Rules] /\ (scenario.loaded => SpecsRead = scenario.spec)
    BY <2>2 DEF SpecsRead, LimitCases
  <2>4. /\ read \in LimitCases /\ read.loaded /\ read.spec = SpecsRead /\ read.provider = scenario.provider
        /\ read.most = scenario.most /\ read.started = scenario.started /\ read.count = scenario.count
        /\ read.passed = scenario.passed
    BY <2>2, <2>3 DEF LimitCases
  <2>5. LimitsOK(read)
    <3>1. CASE scenario.loaded
      BY <2>2, <2>3, <2>4, <3>1 DEF LimitsOK, OwnCounted, SharedCounted
    <3>2. CASE ~scenario.loaded
      <4>1. /\ read.provider <= read.most /\ read.count = Zero(Buckets) /\ read.started = Zero(Buckets)
            /\ read.passed = Zero(Buckets)
        BY <2>2, <2>4, <3>2 DEF LimitsOK, Quiet
      <4> QED
        BY <2>4, <4>1, EmptyMinuteOK
    <3> QED
      BY <3>1, <3>2
  <2> HIDE DEF read
  <2>6. /\ rule \in Rules /\ bucket \in Buckets /\ "provider" \in Buckets /\ m \in Buckets /\ m # "provider"
        /\ limit \in Limit /\ scenario.provider \in Limit /\ scenario.most \in Limit
        /\ rule.rpm # Unlimited => limit = rule.rpm
        /\ rule = Free => limit = scenario.provider /\ bucket = "provider"
    BY <2>2, <2>3, BucketIn, EffectiveLimit, LimitsAssumption DEF LimitCases, Buckets
  <2>7. /\ limit \in Nat /\ scenario.provider \in Nat /\ scenario.most \in Nat /\ Unlimited \in Nat
        /\ limit <= Unlimited /\ scenario.most <= Unlimited /\ scenario.provider <= scenario.most
    BY <2>2, <2>6, LimitNumbers DEF LimitsOK
  <2>8. CASE LetThrough(m, limit, bucket)
    <3> DEFINE started == More(scenario.started, rule, m)
               passed == [b \in Buckets |-> IF b \in CountedIn(rule, m) THEN started[b] ELSE scenario.passed[b]]
               count == [scenario.count EXCEPT ![bucket] = IF limit = Unlimited THEN @ ELSE @ + 1]
    <3>1. started = OneMore(m)
      BY DEF OneMore, More
    <3>2. scenario.started \in [Buckets -> Nat] /\ scenario.passed \in [Buckets -> Nat] /\ scenario.count \in [Buckets -> Nat]
      BY <2>2 DEF LimitCases
    <3>3. /\ started \in [Buckets -> Nat] /\ started[m] = scenario.started[m] + 1
          /\ rule = Free => started["provider"] = scenario.started["provider"] + 1
      BY <2>6, <3>2, MoreStarted
    <3> HIDE DEF started, rule
    <3>4. passed \in [Buckets -> Nat] /\ count \in [Buckets -> Nat]
      BY <2>6, <3>2, <3>3
    <3>5. /\ \A b \in Buckets : passed[b] = IF b \in CountedIn(rule, m) THEN started[b] ELSE scenario.passed[b]
          /\ \A b \in Buckets : count[b] \in Nat /\ count[b] >= scenario.count[b]
          /\ limit # Unlimited => count[bucket] = scenario.count[bucket] + 1
      BY <2>6, <3>2
    <3>6. scenario' = [scenario EXCEPT !.loaded = TRUE, !.spec = SpecsRead, !.started = started,
                                       !.passed = passed, !.count = count]
      <4>1. scenario' = [scenario EXCEPT !.loaded = TRUE, !.spec = SpecsRead, !.started = OneMore(m),
                !.passed = [b \in Buckets |-> IF b \in CountedIn(SpecsRead[m], m) THEN OneMore(m)[b] ELSE @[b]],
                !.count[bucket] = IF limit = Unlimited THEN @ ELSE @ + 1]
        BY <2>8 DEF LetThrough
      <4> QED
        BY <2>2, <3>1, <4>1 DEF LimitCases, rule
    <3>7. limit = Unlimited \/ scenario.count[bucket] < limit
      BY <2>8 DEF LetThrough
    <3> HIDE DEF passed, count, bucket, limit
    <3>8. /\ scenario' \in LimitCases /\ scenario'.loaded /\ scenario'.spec = SpecsRead
          /\ scenario'.provider = scenario.provider /\ scenario'.most = scenario.most
          /\ scenario'.started = started /\ scenario'.passed = passed /\ scenario'.count = count
      BY <2>2, <2>3, <3>3, <3>4, <3>6 DEF LimitCases
    <3>9. OwnCounted(read) /\ SharedCounted(read)
      BY <2>4, <2>5 DEF LimitsOK
    <3>10. rule.rpm # Unlimited => count[bucket] >= scenario.count[bucket] + 1 /\ passed[m] <= rule.rpm
      <4> SUFFICES ASSUME rule.rpm # Unlimited
                   PROVE  count[bucket] >= scenario.count[bucket] + 1 /\ passed[m] <= rule.rpm
        OBVIOUS
      <4>1. limit = rule.rpm /\ limit # Unlimited /\ scenario.count[bucket] < limit
            /\ count[bucket] = scenario.count[bucket] + 1
        BY <2>6, <3>5, <3>7
      <4>2. scenario.started[m] <= scenario.count[bucket]
        BY <2>4, <3>9 DEF OwnCounted, rule, bucket
      <4>3. passed[m] = scenario.started[m] + 1
        <5>1. m \in CountedIn(rule, m)
          BY DEF CountedIn
        <5> QED
          BY <2>6, <3>3, <3>5, <5>1
      <4>4. scenario.started[m] \in Nat /\ scenario.count[bucket] \in Nat
        BY <2>6, <3>2
      <4> QED
        BY <2>7, <4>1, <4>2, <4>3, <4>4
    <3>11. (rule = Free /\ scenario.most # Unlimited) => count["provider"] >= scenario.count["provider"] + 1
      BY <2>6, <2>7, <3>5
    <3>12. scenario.most # Unlimited => passed["provider"] = scenario.passed["provider"] \/ passed["provider"] <= scenario.most
      <4> SUFFICES ASSUME scenario.most # Unlimited, rule = Free PROVE passed["provider"] <= scenario.most
        <5>1. rule # Free => "provider" \notin CountedIn(rule, m)
          BY <2>6 DEF CountedIn
        <5> QED
          BY <2>6, <3>5, <5>1
      <4>1. /\ limit = scenario.provider /\ bucket = "provider" /\ limit # Unlimited
            /\ scenario.count["provider"] < scenario.provider
        BY <2>6, <2>7, <3>7
      <4>2. scenario.started["provider"] <= scenario.count["provider"]
        BY <2>4, <3>9 DEF SharedCounted
      <4>3. passed["provider"] = scenario.started["provider"] + 1
        <5>1. "provider" \in CountedIn(rule, m)
          BY DEF CountedIn
        <5> QED
          BY <2>6, <3>3, <3>5, <5>1
      <4>4. scenario.started["provider"] \in Nat /\ scenario.count["provider"] \in Nat
        BY <2>6, <3>2
      <4> QED
        BY <2>7, <4>1, <4>2, <4>3, <4>4
    <3>13. \A k \in LimitedModels : k # m => passed[k] = scenario.passed[k]
      <4>1. \A k \in LimitedModels : k \in Buckets /\ k # "provider"
        BY LimitsAssumption DEF Buckets
      <4>2. \A k \in LimitedModels : k # m => k \notin CountedIn(rule, m)
        BY <4>1 DEF CountedIn
      <4> QED
        BY <3>5, <4>1, <4>2
    <3>14. LimitsOK(scenario')
      BY <2>4, <2>5, <3>5, <3>8, <3>10, <3>11, <3>12, <3>13, CallOK DEF rule, bucket, started
    <3> QED
      BY <3>8, <3>14 DEF LimitsInv
  <2>9. CASE Throttle(m, limit, bucket)
    <3> DEFINE asleep == [scenario.asleep EXCEPT ![m] = @ + 1]
    <3>1. asleep \in [LimitedModels -> Nat]
      BY <2>2 DEF LimitCases
    <3>2. scenario' = [scenario EXCEPT !.loaded = TRUE, !.spec = SpecsRead, !.asleep = asleep]
      BY <2>2, <2>9 DEF Throttle, LimitCases
    <3> HIDE DEF asleep
    <3>3. /\ scenario' \in LimitCases /\ scenario'.loaded /\ scenario'.spec = read.spec
          /\ scenario'.provider = read.provider /\ scenario'.most = read.most
          /\ scenario'.started = read.started /\ scenario'.passed = read.passed /\ scenario'.count = read.count
      BY <2>2, <2>3, <2>4, <3>1, <3>2 DEF LimitCases
    <3>4. LimitsOK(scenario')
      BY <2>4, <2>5, <3>3 DEF LimitsOK, OwnCounted, SharedCounted
    <3> QED
      BY <3>3, <3>4 DEF LimitsInv
  <2> QED
    BY <2>1, <2>8, <2>9
<1>15. ASSUME LimitsInv, WakeUp
       PROVE  LimitsInv'
  <2>1. PICK m \in LimitedModels :
            /\ scenario.due[m] > 0
            /\ scenario' = [scenario EXCEPT !.due[m] = @ - 1, !.started = OneMore(m),
                                            !.count[BucketOf(SpecsRead[m], m)] = @ + 1]
    BY <1>15 DEF WakeUp
  <2>2. scenario \in LimitCases /\ LimitsOK(scenario)
    BY <1>15 DEF LimitsInv, WakeUp
  <2>3. scenario.loaded
    <3>1. \A k \in LimitedModels : Zero(LimitedModels)[k] = 0
      BY DEF Zero
    <3>2. CASE ~scenario.loaded
      <4>1. scenario.due = Zero(LimitedModels)
        BY <2>2, <3>2 DEF LimitsOK, Quiet
      <4> QED
        BY <2>1, <3>1, <4>1
    <3> QED
      BY <2>2, <3>2 DEF LimitCases
  <2> DEFINE rule == scenario.spec[m]
             bucket == BucketOf(rule, m)
             started == More(scenario.started, rule, m)
             due == [scenario.due EXCEPT ![m] = @ - 1]
             count == [scenario.count EXCEPT ![bucket] = @ + 1]
  <2>4. /\ scenario.started \in [Buckets -> Nat] /\ scenario.count \in [Buckets -> Nat]
        /\ scenario.due \in [LimitedModels -> Nat] /\ rule \in Rules
    BY <2>2 DEF LimitCases
  <2>5. /\ started = OneMore(m) /\ SpecsRead = scenario.spec
    BY <2>3 DEF OneMore, More, SpecsRead
  <2>6. bucket \in Buckets /\ (rule = Free => bucket = "provider")
    BY <2>4, BucketIn
  <2>7. started \in [Buckets -> Nat]
    BY <2>4, MoreStarted
  <2>8. due \in [LimitedModels -> Nat] /\ count \in [Buckets -> Nat]
    BY <2>1, <2>4, <2>6
  <2>9. count[bucket] = scenario.count[bucket] + 1 /\ \A b \in Buckets : count[b] >= scenario.count[b]
    BY <2>4, <2>6
  <2>10. scenario' = [scenario EXCEPT !.due = due, !.started = started, !.count = count]
    BY <2>1, <2>2, <2>5 DEF LimitCases
  <2> HIDE DEF started, due, count, bucket, rule
  <2>11. /\ scenario' \in LimitCases /\ scenario'.loaded /\ scenario'.spec = scenario.spec
         /\ scenario'.provider = scenario.provider /\ scenario'.most = scenario.most
         /\ scenario'.started = started /\ scenario'.passed = scenario.passed /\ scenario'.count = count
    BY <2>2, <2>3, <2>7, <2>8, <2>10 DEF LimitCases
  <2>12. count[bucket] >= scenario.count[bucket] + 1
    BY <2>4, <2>6, <2>9
  <2>13. rule = Free => count["provider"] >= scenario.count["provider"] + 1
    BY <2>6, <2>12
  <2>14. LimitsOK(scenario')
    BY <2>2, <2>3, <2>9, <2>11, <2>12, <2>13, CallOK DEF rule, bucket, started
  <2> QED
    BY <2>11, <2>14 DEF LimitsInv
<1>12. ASSUME Elsewhere("limits")
       PROVE  LimitsInv'
  BY <1>12 DEF Elsewhere, LimitsInv, Limiting
<1>13. ASSUME LimitsInv, UNCHANGED scenario
       PROVE  LimitsInv'
  BY <1>13 DEF LimitsInv, Limiting
<1>14. LimitsInv /\ [LimitsNext \/ Elsewhere("limits")]_scenario => LimitsInv'
  BY <1>3, <1>4, <1>6, <1>7, <1>9, <1>10, <1>11, <1>12, <1>13, <1>15 DEF LimitsNext
<1> QED
  BY <1>1, <1>14, PTL DEF LimitsSpec

\* What the invariant counts is what a limit is about; what is shown is read from the files.
LEMMA LimitsInvHold == LimitsInv => LimitsHold
<1> SUFFICES ASSUME LimitsInv, Limiting
             PROVE  LimitsHold
  BY DEF LimitsHold, ShownIsEnforced, OwnLimitHeld, ProviderLimitHeld
<1>1. scenario \in LimitCases /\ LimitsOK(scenario)
  BY DEF LimitsInv
<1>2. ShownIsEnforced
  <2> SUFFICES ASSUME NEW m \in LimitedModels
               PROVE  Shown(m) = IF Effective(scenario.file[m], scenario.providerFile) = 0 THEN Unlimited
                                 ELSE Effective(scenario.file[m], scenario.providerFile)
    BY DEF ShownIsEnforced
  <2>1. Unlimited # 0
    BY LimitsAssumption DEF Unlimited
  <2> QED
    BY <2>1 DEF Shown, Effective, Either
<1>3. OwnLimitHeld
  BY <1>1 DEF OwnLimitHeld, LimitsOK, OwnCounted
<1>4. ProviderLimitHeld
  BY <1>1 DEF ProviderLimitHeld, LimitsOK, SharedCounted
<1> QED
  BY <1>2, <1>3, <1>4 DEF LimitsHold

\* run.js, _providers.js and src/lib/index.js: for any models and limits, whatever is set,
\* cleared or restarted while calls run and sleep, a call starts at once only if the calls
\* of its minute, those included that had waited, stay within its model's own limit, or
\* for models without one within their provider's highest of the minute; and what the CLI
\* shows is what a new process enforces, except that it shows a limit of zero as none.
LEMMA LimitsPart == LimitsSpec => []LimitsHold
BY LimitsInvariant, LimitsInvHold, PTL

-----------------------------------------------------------------------------
(* The settings of a request.                                              *)

SettingsSpec == Init /\ [][Set \/ Choose \/ (Elsewhere("settings") /\ Elsewhere("tools"))]_scenario

\* A case of settings, or of a tool's choice and arguments.
SettingsInv ==
    /\ scenario.kind = "settings" =>
        /\ scenario.budget \in Budgets \cup {NoBudget} /\ scenario.spec \in Specs
        /\ scenario.env \in [suffix : Efforts \cup {Unset}, effort : Efforts \cup {Unset}]
    /\ scenario.kind = "tools" =>
        scenario.flavor \in Flavors /\ scenario.choice \in ToolChoices /\ scenario.args \in Arguments

\* Whatever is set, it is one of the cases that the property speaks of.
LEMMA SettingsInvariant == SettingsSpec => []SettingsInv
<1>1. Init => SettingsInv
  BY DEF Init, Idle, SettingsInv
<1>2. Set => SettingsInv'
  <2> SUFFICES ASSUME Set PROVE SettingsInv'
    OBVIOUS
  <2>1. PICK suffix \in Efforts \cup {Unset}, effort \in Efforts \cup {Unset},
             budget \in Budgets \cup {NoBudget}, spec \in Specs :
            scenario' = [kind |-> "settings", budget |-> budget, spec |-> spec,
                         env |-> [suffix |-> suffix, effort |-> effort]]
    BY DEF Set
  <2> QED
    BY <2>1 DEF SettingsInv
<1>3. Choose => SettingsInv'
  <2> SUFFICES ASSUME Choose PROVE SettingsInv'
    OBVIOUS
  <2>1. PICK flavor \in Flavors, choice \in ToolChoices, args \in Arguments :
            scenario' = [kind |-> "tools", flavor |-> flavor, choice |-> choice, args |-> args]
    BY DEF Choose
  <2> QED
    BY <2>1 DEF SettingsInv
<1>4. SettingsInv /\ [Set \/ Choose \/ (Elsewhere("settings") /\ Elsewhere("tools"))]_scenario => SettingsInv'
  BY <1>2, <1>3 DEF SettingsInv, Elsewhere
<1> QED
  BY <1>1, <1>4, PTL DEF SettingsSpec

\* The levels of a model are numbers, and that of "none" is 0.
LEMMA LevelTypes ==
    ASSUME NEW spec \in Specs, NEW effort, Known(spec, effort)
    PROVE  /\ spec.levels[effort] \in Nat /\ effort \in Efforts
           /\ effort = "none" => spec.levels[effort] = 0
<1>1. spec.thinks /\ effort \in DOMAIN spec.levels
  BY DEF Known
<1>2. spec.levels \in LevelMaps
  BY <1>1 DEF Specs
<1>3. PICK known \in SUBSET Efforts : spec.levels \in [known -> Levels \cup {0}]
  BY <1>2 DEF LevelMaps
<1>4. \A e \in DOMAIN spec.levels : e = "none" => spec.levels[e] = 0
  BY <1>2 DEF LevelMaps
<1>5. effort \in known /\ spec.levels[effort] \in Levels \cup {0}
  BY <1>1, <1>3
<1>6. spec.levels[effort] \in Nat
  <2>1. Levels \cup {0} \subseteq Nat
    BY SettingsAssumption
  <2> QED
    BY <1>5, <2>1
<1> QED
  BY <1>1, <1>4, <1>5, <1>6

\* No adapter turns on the thinking that was turned off, or asks for more output then.
LEMMA NoThinking ==
    ASSUME NEW spec \in Specs, NEW budget \in Budgets \cup {NoBudget}, NEW ask \in Asked("none", budget, spec)
    PROVE  ask.thinking # "on" /\ (budget # NoBudget => ask.max = budget)
<1>1. Or("none", spec.default) = "none" /\ Or("none", Or(spec.default, DefaultEffort)) = "none"
  BY DEF Or, Unset
<1>2. budget \in Nat
  BY SettingsAssumption DEF NoBudget
<1>3. Headroom(budget, 0) = budget
  BY <1>2 DEF Headroom, NoBudget
<1>4. Known(spec, "none") => Headroom(budget, spec.levels["none"]) = budget
  BY <1>3, LevelTypes
<1>5. CASE ask = Anthropic("none", budget, spec)
  BY <1>1, <1>5 DEF Anthropic, Ask, Unset, OrLimit
<1>6. CASE ask = Openai("none", budget, spec)
  BY <1>1, <1>4, <1>6 DEF Openai, Ask, Unset
<1>7. CASE ask = Gemini("none", budget, spec)
  BY <1>1, <1>7 DEF Gemini, Ask, Unset
<1>8. CASE ask = Chat("none", budget, spec)
  BY <1>1, <1>4, <1>8 DEF Chat, Ask, Unset
<1> QED
  BY <1>5, <1>6, <1>7, <1>8 DEF Asked

\* A level that a model has reaches every provider under its name.
LEMMA LevelReaches ==
    ASSUME NEW spec \in Specs, NEW budget, NEW effort, effort \notin {Unset, "none"}, Known(spec, effort),
           NEW ask \in Asked(effort, budget, spec)
    PROVE  ask.thinking = "on" /\ ask.level = effort
<1>1. spec.thinks /\ Or(effort, spec.default) = effort /\ Or(effort, Or(spec.default, DefaultEffort)) = effort
  BY DEF Or, Known
<1>2. spec.family \in 1 .. 3
  BY DEF Specs
<1>5. CASE ask = Anthropic(effort, budget, spec)
  BY <1>1, <1>5 DEF Anthropic, Ask
<1>6. CASE ask = Openai(effort, budget, spec)
  BY <1>1, <1>6 DEF Openai, Ask
<1>7. CASE ask = Gemini(effort, budget, spec)
  BY <1>1, <1>7 DEF Gemini, Ask
<1>8. CASE ask = Chat(effort, budget, spec)
  BY <1>1, <1>8 DEF Chat, Ask
<1> QED
  BY <1>5, <1>6, <1>7, <1>8 DEF Asked

\* What is reckoned for thinking is a number.
LEMMA ReckonedNumber ==
    ASSUME NEW spec \in Specs, NEW effort
    PROVE  Reckoned(spec, effort) \in Nat /\ (Known(spec, effort) => Reckoned(spec, effort) = spec.levels[effort])
BY LevelTypes DEF Reckoned

\* Headroom is the budget and the level.
LEMMA HeadroomFits ==
    ASSUME NEW spec \in Specs, NEW budget \in Budgets, NEW asked, Known(spec, asked), NEW ask,
           ask.max = Headroom(budget, spec.levels[asked]), ask.level = asked
    PROVE  ~Cramped(ask, budget, spec) /\ ask.max >= budget
<1>1. budget \in Nat /\ budget # NoBudget
  BY SettingsAssumption DEF NoBudget
<1>2. ask.max = budget + spec.levels[asked]
  BY <1>1 DEF Headroom
<1>3. Reckoned(spec, ask.level) = spec.levels[asked] /\ spec.levels[asked] \in Nat
  BY ReckonedNumber
<1>4. ask.max >= budget + Reckoned(spec, ask.level) /\ ask.max >= budget
  BY <1>1, <1>2, <1>3
<1>5. ~(ask.max < budget + Reckoned(spec, ask.level))
  <2>1. ask.max \in Nat /\ budget + Reckoned(spec, ask.level) \in Nat
    BY <1>1, <1>2, <1>3
  <2> QED
    BY <1>4, <2>1
<1> QED
  BY <1>4, <1>5 DEF Cramped

\* Where no thinking is asked for, the budget is all the answer's.
LEMMA BareFits ==
    ASSUME NEW spec, NEW budget \in Budgets, NEW ask, ask.max = budget
    PROVE  ask.max >= budget /\ (ask.thinking # "on" => ~Cramped(ask, budget, spec))
BY SettingsAssumption DEF Cramped

\* OpenAI and chat completions are asked for both, Gemini's first family too.
LEMMA RoomAdded ==
    ASSUME NEW spec \in Specs, NEW budget \in Budgets, NEW effort
    PROVE  /\ ~Cramped(Openai(effort, budget, spec), budget, spec) /\ Openai(effort, budget, spec).max >= budget
           /\ ~Cramped(Chat(effort, budget, spec), budget, spec) /\ Chat(effort, budget, spec).max >= budget
           /\ Cramped(Gemini(effort, budget, spec), budget, spec) => spec.family # 1
           /\ Gemini(effort, budget, spec).max >= budget
<1> DEFINE asked == Or(effort, Or(spec.default, DefaultEffort))
           o == Openai(effort, budget, spec)
           c == Chat(effort, budget, spec)
           g == Gemini(effort, budget, spec)
           own == Or(effort, spec.default)
<1>1. ~Cramped(o, budget, spec) /\ o.max >= budget
  <2>1. CASE Known(spec, asked)
    <3>1. o.max = Headroom(budget, spec.levels[asked]) /\ o.level = asked
      BY <2>1 DEF Openai, Ask
    <3> HIDE DEF o, asked
    <3> QED
      BY <2>1, <3>1, HeadroomFits
  <2>2. CASE ~Known(spec, asked)
    <3>1. o.max = budget /\ o.thinking # "on"
      BY <2>2 DEF Openai, Ask, Unset
    <3> HIDE DEF o
    <3> QED
      BY <3>1, BareFits
  <2> QED
    BY <2>1, <2>2
<1>2. ~Cramped(c, budget, spec) /\ c.max >= budget
  <2>1. CASE Known(spec, asked)
    <3>1. c.max = Headroom(budget, spec.levels[asked]) /\ c.level = asked
      BY <2>1 DEF Chat, Ask
    <3> HIDE DEF c, asked
    <3> QED
      BY <2>1, <3>1, HeadroomFits
  <2>2. CASE ~Known(spec, asked)
    <3>1. c.max = budget /\ c.thinking # "on"
      BY <2>2 DEF Chat, Ask, Unset
    <3> HIDE DEF c
    <3> QED
      BY <3>1, BareFits
  <2> QED
    BY <2>1, <2>2
<1>3. (Cramped(g, budget, spec) => spec.family # 1) /\ g.max >= budget
  <2>1. CASE g.max = budget /\ (g.thinking = "on" => spec.family # 1)
    <3> HIDE DEF g
    <3> QED
      BY <2>1, BareFits
  <2>2. CASE ~(g.max = budget /\ (g.thinking = "on" => spec.family # 1))
    <3>1. Known(spec, own) /\ g.max = Headroom(budget, spec.levels[own]) /\ g.level = own
      BY <2>2 DEF Gemini, Ask, Unset
    <3> HIDE DEF g, own
    <3> QED
      BY <3>1, HeadroomFits
  <2> QED
    BY <2>1, <2>2
<1> QED
  BY <1>1, <1>2, <1>3

\* Anthropic is asked for the budget, or for the model's limit in its place.
LEMMA RoomShared ==
    ASSUME NEW spec \in Specs, NEW budget \in Budgets, NEW effort
    PROVE  LET a == Anthropic(effort, budget, spec)
           IN  /\ Cramped(a, budget, spec) => spec.limit < budget + Reckoned(spec, a.level)
               /\ a.max < budget => a.thinking = "on" /\ spec.limit \in 1 .. budget - 1
<1> DEFINE a == Anthropic(effort, budget, spec)
<1>1. budget \in Nat \ {0} /\ spec.limit \in Nat /\ Reckoned(spec, a.level) \in Nat
  <2>1. spec.limit \in OutputLimits \cup {NoBudget}
    BY DEF Specs
  <2>2. Reckoned(spec, a.level) \in Nat
    BY ReckonedNumber
  <2> QED
    BY <2>1, <2>2, SettingsAssumption DEF NoBudget
<1>2. \/ a.max = budget /\ a.thinking # "on"
      \/ a.max = budget /\ spec.limit = 0
      \/ a.max = spec.limit /\ spec.limit # 0 /\ a.thinking = "on"
  BY <1>1 DEF Anthropic, Ask, OrLimit, NoBudget, Unset
<1> DEFINE t == Reckoned(spec, a.level)
<1> HIDE DEF a, t
<1>3. Cramped(a, budget, spec) <=> (a.thinking = "on" /\ a.max < budget + t)
  BY DEF Cramped, t
<1>4. t \in Nat
  BY <1>1 DEF t
<1>5. Cramped(a, budget, spec) => spec.limit < budget + t
  BY <1>1, <1>2, <1>3, <1>4
<1>6. a.max < budget => a.thinking = "on" /\ spec.limit \in 1 .. budget - 1
  BY <1>1, <1>2
<1> QED
  BY <1>5, <1>6 DEF a, t

\* A choice, and the arguments of a call, keep their sense.
LEMMA ChoiceUnderstood ==
    ASSUME NEW flavor \in Flavors, NEW choice \in ToolChoices
    PROVE  Understood(ToToolChoice(flavor, choice)) = choice
BY DEF Flavors, ToolChoices, ToToolChoice, Understood

LEMMA ArgsThereAndBack ==
    ASSUME NEW args \in Arguments, args \notin {"none", "empty text"}
    PROVE  ParseArgs(StringifyToolArgs(ParseArgs(args))) = ParseArgs(args)
BY DEF Arguments, ParseArgs, StringifyToolArgs

\* The case is one in which the settings are honored.
LEMMA SettingsInvHonored == SettingsInv => SettingsHonored
<1> SUFFICES ASSUME SettingsInv PROVE SettingsHonored
  OBVIOUS
<1>1. NoneMeansNone
  BY NoThinking DEF NoneMeansNone, SettingsInv, Setting, Requests4
<1>2. SuffixReaches
  <2> SUFFICES ASSUME Setting, scenario.env.suffix # Unset, scenario.env.suffix # "none"
               PROVE  /\ scenario.env.effort # Unset => Effort = scenario.env.effort
                      /\ scenario.env.effort = Unset =>
                            \A ask \in Requests4 : ask.thinking = "on" /\ ask.level = scenario.env.suffix
    BY DEF SuffixReaches
  <2>1. scenario.env.effort = Unset => Known(scenario.spec, scenario.env.suffix) /\ Effort = scenario.env.suffix
    BY DEF Setting, Rejected, Effort, Normalized
  <2>2. scenario.spec \in Specs
    BY DEF SettingsInv, Setting
  <2>3. scenario.env.effort # Unset => Effort = scenario.env.effort
    BY DEF Effort, Normalized
  <2> QED
    BY <2>1, <2>2, <2>3, LevelReaches DEF Requests4
<1>3. RoomToAnswer
  <2> SUFFICES ASSUME Setting, scenario.budget # NoBudget
               PROVE  RoomToAnswer
    BY DEF RoomToAnswer
  <2>1. scenario.budget \in Budgets /\ scenario.spec \in Specs
    BY DEF SettingsInv, Setting
  <2> QED
    BY <2>1, RoomAdded, RoomShared DEF RoomToAnswer
<1>4. ChoiceKept
  BY ChoiceUnderstood DEF ChoiceKept, SettingsInv
<1>5. ArgsReplayed
  BY ArgsThereAndBack DEF ArgsReplayed, SettingsInv
<1> QED
  BY <1>1, <1>2, <1>3, <1>4, <1>5 DEF SettingsHonored

\* run.js, _tools.js and each buildRequest: for any efforts, levels, budgets and models,
\* no thinking is none for every provider, a level reaches each by its name and takes
\* nothing from the answer, and choices and arguments of tools keep their sense.
LEMMA SettingsPart == SettingsSpec => []SettingsHonored
BY SettingsInvariant, SettingsInvHonored, PTL

-----------------------------------------------------------------------------
(* The clients that the handles of a provider share.                       *)

SharingSpec == Init /\ [][StartHandles \/ Share \/ Elsewhere("clients")]_scenario

ClientRecords ==
    [provider : Provider, state : {"pending", "ready", "failed"}, specs : SUBSET Handles, epoch : {0, 1}]
SharingCases ==
    [kind : {"clients"}, clients : Seq(ClientRecords), epoch : {0, 1},
     sdkCache : [Provider -> Nat], runtime : [Handles -> Nat]]

\* A client that may be held: it is there and has not failed.
Alive(s, client) == client \in DOMAIN s.clients /\ s.clients[client].state # "failed"

\* A provider had its place freed by the failure of a client that close() left behind.
FreedLate(s, provider, epoch) ==
    \E k \in DOMAIN s.clients :
        s.clients[k].provider = provider /\ s.clients[k].epoch < epoch /\ s.clients[k].state = "failed"

\* What is held is alive, a provider's place is its own client's, and a client alive
\* since the last close() is in its provider's place, unless that was freed late.
HeldOK(s) ==
    /\ \A p \in Provider : s.sdkCache[p] # NoClient =>
            Alive(s, s.sdkCache[p]) /\ s.clients[s.sdkCache[p]].provider = p
    /\ \A h \in Handles : s.runtime[h] # NoClient => Alive(s, s.runtime[h])

PlacedOK(s) ==
    \A i \in DOMAIN s.clients :
        /\ s.clients[i].epoch <= s.epoch
        /\ (Alive(s, i) /\ s.clients[i].epoch = s.epoch) =>
                \/ s.sdkCache[s.clients[i].provider] = i
                \/ FreedLate(s, s.clients[i].provider, s.epoch)

AloneOK(s) ==
    \A i, j \in DOMAIN s.clients :
        (/\ i # j /\ Alive(s, i) /\ Alive(s, j)
         /\ s.clients[i].provider = s.clients[j].provider /\ s.clients[i].epoch = s.clients[j].epoch) =>
            FreedLate(s, s.clients[i].provider, s.clients[i].epoch)

SharingOK(s) == HeldOK(s) /\ PlacedOK(s) /\ AloneOK(s)
SharingInv == Sharing => scenario \in SharingCases /\ SharingOK(scenario)

\* The clients of a case by what tells them apart here.
SameClient(s, t, i) ==
    /\ t.clients[i].provider = s.clients[i].provider /\ t.clients[i].epoch = s.clients[i].epoch
    /\ t.clients[i].state = "failed" <=> s.clients[i].state = "failed"

\* The fields of a client.
LEMMA ClientTypes ==
    ASSUME NEW s \in SharingCases
    PROVE  \A i \in DOMAIN s.clients :
              /\ i # NoClient /\ s.clients[i] \in ClientRecords
              /\ s.clients[i].epoch \in {0, 1} /\ s.clients[i].provider \in Provider
<1>1. s.clients \in Seq(ClientRecords)
  BY DEF SharingCases
<1>2. \A i \in DOMAIN s.clients : i # 0 /\ s.clients[i] \in ClientRecords
  BY <1>1
<1> QED
  BY <1>2 DEF ClientRecords, NoClient

\* A handle takes the client that is there, or a client is set up.
LEMMA ClientTaken ==
    ASSUME NEW s \in SharingCases, NEW t \in SharingCases, SharingOK(s),
           DOMAIN t.clients = DOMAIN s.clients, \A i \in DOMAIN s.clients : SameClient(s, t, i),
           t.epoch = s.epoch, t.sdkCache = s.sdkCache,
           \A h \in Handles : t.runtime[h] = s.runtime[h] \/ Alive(s, t.runtime[h])
    PROVE  SharingOK(t)
<1>1. \A i : Alive(t, i) <=> Alive(s, i)
  BY DEF Alive, SameClient
<1>2. \A p, e : FreedLate(t, p, e) <=> FreedLate(s, p, e)
  BY DEF FreedLate, SameClient
<1>3. HeldOK(t)
  BY <1>1 DEF SharingOK, HeldOK, Alive, SameClient
<1>4. PlacedOK(t)
  BY <1>1, <1>2 DEF SharingOK, PlacedOK, SameClient
<1>5. AloneOK(t)
  BY <1>1, <1>2 DEF SharingOK, AloneOK, SameClient
<1> QED
  BY <1>3, <1>4, <1>5 DEF SharingOK

\* A client is set up for a provider whose place is free.
LEMMA ClientAdded ==
    ASSUME NEW s \in SharingCases, NEW t \in SharingCases, SharingOK(s), NEW n \in Nat, n # NoClient,
           n \notin DOMAIN s.clients, DOMAIN t.clients = DOMAIN s.clients \cup {n},
           \A i \in DOMAIN s.clients : SameClient(s, t, i),
           NEW p \in Provider, s.sdkCache[p] = NoClient,
           t.clients[n].provider = p, t.clients[n].epoch = s.epoch, t.clients[n].state # "failed",
           t.epoch = s.epoch, t.sdkCache = [s.sdkCache EXCEPT ![p] = n],
           \A h \in Handles : t.runtime[h] = s.runtime[h] \/ t.runtime[h] = n
    PROVE  SharingOK(t)
<1>1. /\ \A i \in DOMAIN s.clients : Alive(t, i) <=> Alive(s, i)
      /\ \A i : Alive(s, i) => Alive(t, i) /\ i # n
      /\ Alive(t, n)
  BY DEF Alive, SameClient
<1>2. \A q, e : FreedLate(s, q, e) => FreedLate(t, q, e)
  BY DEF FreedLate, SameClient
<1>3. t.sdkCache[p] = n /\ \A q \in Provider : q # p => t.sdkCache[q] = s.sdkCache[q]
  BY DEF SharingCases
<1>4. s.epoch \in {0, 1} /\ \A i \in DOMAIN s.clients : s.clients[i].epoch \in {0, 1} /\ s.clients[i].provider \in Provider
  BY ClientTypes DEF SharingCases
<1>5. HeldOK(t)
  <2>1. ASSUME NEW q \in Provider, t.sdkCache[q] # NoClient
        PROVE  Alive(t, t.sdkCache[q]) /\ t.clients[t.sdkCache[q]].provider = q
    <3>1. CASE q = p
      BY <1>1, <1>3, <3>1
    <3>2. CASE q # p
      BY <1>1, <1>3, <2>1, <3>2 DEF SharingOK, HeldOK, Alive, SameClient
    <3> QED
      BY <3>1, <3>2
  <2>2. ASSUME NEW h \in Handles, t.runtime[h] # NoClient
        PROVE  Alive(t, t.runtime[h])
    BY <1>1, <2>2 DEF SharingOK, HeldOK
  <2> QED
    BY <2>1, <2>2 DEF HeldOK
<1>6. \A i \in DOMAIN s.clients :
          (Alive(s, i) /\ s.clients[i].provider = p /\ s.clients[i].epoch = s.epoch) => FreedLate(s, p, s.epoch)
  <2> SUFFICES ASSUME NEW i \in DOMAIN s.clients, Alive(s, i), s.clients[i].provider = p,
                      s.clients[i].epoch = s.epoch
               PROVE  FreedLate(s, p, s.epoch)
    OBVIOUS
  <2>1. i # NoClient
    BY ClientTypes
  <2> QED
    BY <2>1 DEF SharingOK, PlacedOK
<1>7. PlacedOK(t)
  <2> SUFFICES ASSUME NEW i \in DOMAIN t.clients
               PROVE  /\ t.clients[i].epoch <= t.epoch
                      /\ (Alive(t, i) /\ t.clients[i].epoch = t.epoch) =>
                            \/ t.sdkCache[t.clients[i].provider] = i
                            \/ FreedLate(t, t.clients[i].provider, t.epoch)
    BY DEF PlacedOK
  <2>1. CASE i = n
    BY <1>3, <1>4, <2>1
  <2>2. CASE i # n
    <3>1. i \in DOMAIN s.clients /\ SameClient(s, t, i) /\ (Alive(t, i) => Alive(s, i))
      BY <1>1, <2>2
    <3>2. CASE s.clients[i].provider = p
      BY <1>2, <1>6, <3>1, <3>2 DEF SharingOK, PlacedOK, SameClient
    <3>3. CASE s.clients[i].provider # p
      BY <1>2, <1>3, <1>4, <3>1, <3>3 DEF SharingOK, PlacedOK, SameClient
    <3> QED
      BY <3>2, <3>3
  <2> QED
    BY <2>1, <2>2
<1>8. AloneOK(t)
  <2> SUFFICES ASSUME NEW i \in DOMAIN t.clients, NEW j \in DOMAIN t.clients, i # j, Alive(t, i), Alive(t, j),
                      t.clients[i].provider = t.clients[j].provider, t.clients[i].epoch = t.clients[j].epoch
               PROVE  FreedLate(t, t.clients[i].provider, t.clients[i].epoch)
    BY DEF AloneOK
  <2>1. CASE i # n /\ j # n
    <3>1. /\ i \in DOMAIN s.clients /\ j \in DOMAIN s.clients /\ Alive(s, i) /\ Alive(s, j)
          /\ SameClient(s, t, i) /\ SameClient(s, t, j)
      BY <1>1, <2>1
    <3> QED
      BY <1>2, <3>1 DEF SharingOK, AloneOK, SameClient
  <2>2. CASE i = n
    <3>1. j \in DOMAIN s.clients /\ Alive(s, j) /\ SameClient(s, t, j)
      BY <1>1, <2>2
    <3> QED
      BY <1>2, <1>6, <2>2, <3>1 DEF SameClient
  <2>3. CASE j = n
    <3>1. i \in DOMAIN s.clients /\ Alive(s, i) /\ SameClient(s, t, i)
      BY <1>1, <2>3
    <3> QED
      BY <1>2, <1>6, <2>3, <3>1 DEF SameClient
  <2> QED
    BY <2>1, <2>2, <2>3
<1> QED
  BY <1>5, <1>7, <1>8 DEF SharingOK

\* A set-up fails: its handles and its provider's place are free again.
LEMMA ClientFailed ==
    ASSUME NEW s \in SharingCases, NEW t \in SharingCases, SharingOK(s), NEW c \in DOMAIN s.clients,
           Alive(s, c), DOMAIN t.clients = DOMAIN s.clients,
           \A i \in DOMAIN s.clients : i # c => SameClient(s, t, i),
           t.clients[c].provider = s.clients[c].provider, t.clients[c].epoch = s.clients[c].epoch,
           t.clients[c].state = "failed",
           t.epoch = s.epoch, t.sdkCache = [s.sdkCache EXCEPT ![s.clients[c].provider] = NoClient],
           \A h \in Handles : t.runtime[h] = IF s.runtime[h] = c THEN NoClient ELSE s.runtime[h]
    PROVE  SharingOK(t)
<1> DEFINE p == s.clients[c].provider
<1>1. \A i : Alive(t, i) <=> Alive(s, i) /\ i # c
  BY DEF Alive, SameClient
<1>2. \A q, e : FreedLate(s, q, e) => FreedLate(t, q, e)
  <2> SUFFICES ASSUME NEW q, NEW e, FreedLate(s, q, e) PROVE FreedLate(t, q, e)
    OBVIOUS
  <2>1. PICK k \in DOMAIN s.clients :
            s.clients[k].provider = q /\ s.clients[k].epoch < e /\ s.clients[k].state = "failed"
    BY DEF FreedLate
  <2>2. k # c
    BY <2>1 DEF Alive
  <2> QED
    BY <2>1, <2>2 DEF FreedLate, SameClient
<1>3. /\ p \in Provider /\ t.sdkCache[p] = NoClient
      /\ \A q \in Provider : q # p => t.sdkCache[q] = s.sdkCache[q]
      /\ \A i \in DOMAIN s.clients : s.clients[i].provider \in Provider /\ s.clients[i].epoch \in {0, 1}
      /\ s.epoch \in {0, 1}
  BY ClientTypes DEF SharingCases
<1>4. /\ \A i \in DOMAIN s.clients : t.clients[i].provider = s.clients[i].provider
                                    /\ t.clients[i].epoch = s.clients[i].epoch
  BY DEF SameClient
<1> HIDE DEF p
<1>5. HeldOK(t)
  <2>1. ASSUME NEW q \in Provider, t.sdkCache[q] # NoClient
        PROVE  Alive(t, t.sdkCache[q]) /\ t.clients[t.sdkCache[q]].provider = q
    <3>1. q # p /\ t.sdkCache[q] = s.sdkCache[q]
      BY <1>3, <2>1
    <3>2. Alive(s, s.sdkCache[q]) /\ s.clients[s.sdkCache[q]].provider = q
      BY <2>1, <3>1 DEF SharingOK, HeldOK
    <3>3. s.sdkCache[q] # c
      BY <3>1, <3>2 DEF p
    <3>4. s.sdkCache[q] \in DOMAIN s.clients
      BY <3>2 DEF Alive
    <3> QED
      BY <1>1, <1>4, <3>1, <3>2, <3>3, <3>4
  <2>2. ASSUME NEW h \in Handles, t.runtime[h] # NoClient
        PROVE  Alive(t, t.runtime[h])
    BY <1>1, <2>2 DEF SharingOK, HeldOK
  <2> QED
    BY <2>1, <2>2 DEF HeldOK
<1>6. PlacedOK(t)
  <2> SUFFICES ASSUME NEW i \in DOMAIN s.clients
               PROVE  /\ s.clients[i].epoch <= s.epoch
                      /\ (Alive(t, i) /\ s.clients[i].epoch = s.epoch) =>
                            \/ t.sdkCache[s.clients[i].provider] = i
                            \/ FreedLate(t, s.clients[i].provider, s.epoch)
    BY <1>4 DEF PlacedOK
  <2>1. s.clients[i].epoch <= s.epoch
    BY DEF SharingOK, PlacedOK
  <2>2. ASSUME Alive(t, i), s.clients[i].epoch = s.epoch
        PROVE  t.sdkCache[s.clients[i].provider] = i \/ FreedLate(t, s.clients[i].provider, s.epoch)
    <3>1. Alive(s, i) /\ i # c
      BY <1>1, <2>2
    <3>2. s.sdkCache[s.clients[i].provider] = i \/ FreedLate(s, s.clients[i].provider, s.epoch)
      BY <2>2, <3>1 DEF SharingOK, PlacedOK
    <3>3. CASE s.clients[i].provider # p
      BY <1>2, <1>3, <3>2, <3>3
    <3>4. CASE s.clients[i].provider = p
      <4>1. CASE s.clients[c].epoch = s.epoch
        <5>1. s.sdkCache[p] = c \/ FreedLate(s, p, s.epoch)
          BY <4>1 DEF SharingOK, PlacedOK, p
        <5> QED
          BY <1>2, <3>1, <3>2, <3>4, <5>1
      <4>2. CASE s.clients[c].epoch # s.epoch
        <5>1. s.clients[c].epoch <= s.epoch
          BY DEF SharingOK, PlacedOK
        <5>2. s.clients[c].epoch < s.epoch
          BY <1>3, <4>2, <5>1
        <5>3. FreedLate(t, p, s.epoch)
          BY <1>4, <5>2 DEF FreedLate, p
        <5> QED
          BY <3>4, <5>3
      <4> QED
        BY <4>1, <4>2
    <3> QED
      BY <3>3, <3>4
  <2> QED
    BY <2>1, <2>2
<1>7. AloneOK(t)
  BY <1>1, <1>2, <1>4 DEF SharingOK, AloneOK
<1> QED
  BY <1>5, <1>6, <1>7 DEF SharingOK

\* close(): every place is free, and the clients of before are behind.
LEMMA ClientsClosed ==
    ASSUME NEW s \in SharingCases, NEW t \in SharingCases, SharingOK(s), s.epoch = 0, t.epoch = 1,
           t.clients = s.clients, t.runtime = s.runtime, \A p \in Provider : t.sdkCache[p] = NoClient
    PROVE  SharingOK(t)
<1>1. \A i \in DOMAIN s.clients : s.clients[i].epoch = 0
  BY ClientTypes DEF SharingOK, PlacedOK
<1>2. HeldOK(t) /\ PlacedOK(t)
  BY <1>1 DEF SharingOK, HeldOK, PlacedOK, Alive
<1>3. AloneOK(t)
  BY DEF SharingOK, AloneOK, Alive, FreedLate
<1> QED
  BY <1>2, <1>3 DEF SharingOK

\* The invariant holds of every behaviour.
LEMMA SharingInvariant == SharingSpec => []SharingInv
<1>1. Init => SharingInv
  BY DEF Init, Idle, SharingInv, Sharing
<1>2. StartHandles => SharingInv'
  <2> SUFFICES ASSUME StartHandles PROVE SharingInv'
    OBVIOUS
  <2>1. scenario' = [kind |-> "clients", clients |-> <<>>, epoch |-> 0,
                     sdkCache |-> [provider \in Provider |-> NoClient],
                     runtime |-> [handle \in Handles |-> NoClient]]
    BY DEF StartHandles
  <2>2. scenario' \in SharingCases
    BY <2>1 DEF SharingCases, NoClient
  <2>3. /\ scenario'.clients = <<>> /\ DOMAIN scenario'.clients = {}
        /\ \A p \in Provider : scenario'.sdkCache[p] = NoClient
        /\ \A h \in Handles : scenario'.runtime[h] = NoClient
    BY <2>1
  <2>4. SharingOK(scenario')
    BY <2>3 DEF SharingOK, HeldOK, PlacedOK, AloneOK
  <2> QED
    BY <2>2, <2>4 DEF SharingInv
<1>3. ASSUME SharingInv, NEW handle \in Handles, GetRuntime(handle)
      PROVE  SharingInv'
  <2> DEFINE provider == ProviderOf(handle)
             known == scenario.sdkCache[provider]
             clients == scenario.clients
             n == Len(clients) + 1
             new == [provider |-> provider, state |-> "pending", specs |-> {handle}, epoch |-> scenario.epoch]
  <2>1. scenario \in SharingCases /\ SharingOK(scenario)
    BY <1>3 DEF SharingInv, GetRuntime
  <2>2. provider \in Provider /\ provider = ProviderOf(handle)
    BY DEF Handles, ProviderOf, Provider
  <2>3. /\ clients \in Seq(ClientRecords) /\ scenario.epoch \in {0, 1} /\ known \in Nat
        /\ scenario.sdkCache \in [Provider -> Nat] /\ scenario.runtime \in [Handles -> Nat]
    BY <2>1, <2>2 DEF SharingCases
  <2>4. CASE known # NoClient
    <3> DEFINE specs == IF clients[known].state = "ready" THEN clients[known].specs \cup {handle} ELSE clients[known].specs
               runtime == [scenario.runtime EXCEPT ![handle] = known]
               all == [clients EXCEPT ![known] = [clients[known] EXCEPT !.specs = specs]]
    <3>1. known \in DOMAIN clients /\ Alive(scenario, known)
      BY <2>1, <2>2, <2>4 DEF SharingOK, HeldOK, Alive
    <3>2. clients[known] \in ClientRecords
      BY <2>1, <3>1, ClientTypes
    <3>3. scenario' = [scenario EXCEPT !.runtime = runtime, !.clients = all]
      BY <1>3, <2>1, <2>2, <2>4, <3>1, <3>2 DEF GetRuntime, SharingCases, ClientRecords
    <3>4. specs \in SUBSET Handles
      BY <3>2 DEF ClientRecords
    <3> HIDE DEF specs
    <3>5. [clients[known] EXCEPT !.specs = specs] \in ClientRecords
      BY <3>2, <3>4 DEF ClientRecords
    <3>6. all \in Seq(ClientRecords) /\ runtime \in [Handles -> Nat]
      <4> DEFINE one == [clients[known] EXCEPT !.specs = specs]
      <4>1. one \in ClientRecords /\ known \in DOMAIN clients /\ clients \in Seq(ClientRecords)
        BY <2>3, <3>1, <3>5
      <4> HIDE DEF one, clients
      <4>2. [clients EXCEPT ![known] = one] \in Seq(ClientRecords)
        BY <4>1
      <4>3. runtime \in [Handles -> Nat]
        BY <2>3
      <4> QED
        BY <4>2, <4>3 DEF one
    <3>7. /\ DOMAIN all = DOMAIN clients
          /\ \A i \in DOMAIN clients : /\ all[i].provider = clients[i].provider
                                        /\ all[i].epoch = clients[i].epoch /\ all[i].state = clients[i].state
      <4>1. \A i \in DOMAIN clients :
                all[i] = IF i = known THEN [clients[known] EXCEPT !.specs = specs] ELSE clients[i]
        BY <3>1
      <4>2. LET one == [clients[known] EXCEPT !.specs = specs]
            IN  /\ one.provider = clients[known].provider /\ one.epoch = clients[known].epoch
                /\ one.state = clients[known].state
        BY <3>2 DEF ClientRecords
      <4> QED
        BY <4>1, <4>2
    <3>8. \A h \in Handles : runtime[h] = scenario.runtime[h] \/ runtime[h] = known
      BY <2>3
    <3> HIDE DEF all, runtime
    <3>9. scenario' \in SharingCases
      BY <2>1, <3>3, <3>6 DEF SharingCases
    <3>10. /\ scenario'.clients = all /\ scenario'.runtime = runtime /\ scenario'.epoch = scenario.epoch
           /\ scenario'.sdkCache = scenario.sdkCache
      BY <2>1, <3>3 DEF SharingCases
    <3>11. /\ DOMAIN scenario'.clients = DOMAIN scenario.clients
           /\ \A i \in DOMAIN scenario.clients : SameClient(scenario, scenario', i)
      BY <3>7, <3>10 DEF SameClient
    <3>12. \A h \in Handles : scenario'.runtime[h] = scenario.runtime[h] \/ Alive(scenario, scenario'.runtime[h])
      BY <3>1, <3>8, <3>10
    <3>13. SharingOK(scenario')
      BY <2>1, <3>9, <3>10, <3>11, <3>12, ClientTaken
    <3> QED
      BY <3>9, <3>13 DEF SharingInv
  <2>5. CASE known = NoClient
    <3> DEFINE runtime == [scenario.runtime EXCEPT ![handle] = n]
               sdkCache == [scenario.sdkCache EXCEPT ![provider] = n]
               all == Append(clients, new)
    <3>1. scenario' = [scenario EXCEPT !.runtime = runtime, !.sdkCache = sdkCache, !.clients = all]
      BY <1>3, <2>1, <2>5 DEF GetRuntime, SharingCases
    <3>2. new \in ClientRecords
      BY <2>2, <2>3 DEF ClientRecords
    <3>3. /\ n \in Nat /\ n # NoClient /\ n \notin DOMAIN clients
          /\ all \in Seq(ClientRecords) /\ DOMAIN all = DOMAIN clients \cup {n}
          /\ \A i \in DOMAIN clients : all[i] = clients[i]
          /\ all[n] = new
      BY <2>3, <3>2 DEF NoClient
    <3>4. runtime \in [Handles -> Nat] /\ sdkCache \in [Provider -> Nat]
      BY <2>3, <3>3
    <3>5. \A h \in Handles : runtime[h] = scenario.runtime[h] \/ runtime[h] = n
      BY <2>3
    <3>6. new.provider = provider /\ new.epoch = scenario.epoch /\ new.state # "failed"
      OBVIOUS
    <3> HIDE DEF all, runtime, sdkCache, new, n, provider
    <3>7. scenario' \in SharingCases
      BY <2>1, <3>1, <3>3, <3>4 DEF SharingCases
    <3>8. /\ scenario'.clients = all /\ scenario'.runtime = runtime /\ scenario'.epoch = scenario.epoch
          /\ scenario'.sdkCache = sdkCache
      BY <2>1, <3>1 DEF SharingCases
    <3>9. \A i \in DOMAIN scenario.clients : SameClient(scenario, scenario', i)
      BY <3>3, <3>8 DEF SameClient
    <3>10. /\ n \notin DOMAIN scenario.clients /\ DOMAIN scenario'.clients = DOMAIN scenario.clients \cup {n}
           /\ scenario.sdkCache[provider] = NoClient
           /\ scenario'.clients[n].provider = provider /\ scenario'.clients[n].epoch = scenario.epoch
           /\ scenario'.clients[n].state # "failed"
           /\ scenario'.sdkCache = [scenario.sdkCache EXCEPT ![provider] = n]
           /\ \A h \in Handles : scenario'.runtime[h] = scenario.runtime[h] \/ scenario'.runtime[h] = n
      BY <2>5, <3>3, <3>5, <3>6, <3>8 DEF sdkCache
    <3>11. SharingOK(scenario')
      BY <2>1, <2>2, <3>3, <3>7, <3>8, <3>9, <3>10, ClientAdded
    <3> QED
      BY <3>7, <3>11 DEF SharingInv
  <2> QED
    BY <2>4, <2>5
<1>4. ASSUME SharingInv, Sharing, NEW c \in Clients, Ready(c)
      PROVE  SharingInv'
  <2> DEFINE clients == scenario.clients
             specs == clients[c].specs \cup {h \in Handles : scenario.runtime[h] = c}
             one == [clients[c] EXCEPT !.state = "ready", !.specs = specs]
             all == [clients EXCEPT ![c] = one]
  <2>1. scenario \in SharingCases /\ SharingOK(scenario) /\ c \in DOMAIN clients
    BY <1>4 DEF SharingInv, Clients
  <2>2. clients \in Seq(ClientRecords) /\ clients[c] \in ClientRecords /\ clients[c].state = "pending"
    BY <1>4, <2>1, ClientTypes DEF SharingCases, Ready
  <2>3. scenario' = [scenario EXCEPT !.clients = all]
    BY <1>4, <2>1, <2>2 DEF Ready, SharingCases, ClientRecords
  <2>4. specs \in SUBSET Handles
    BY <2>2 DEF ClientRecords
  <2> HIDE DEF specs
  <2>5. /\ one \in ClientRecords /\ one.provider = clients[c].provider /\ one.epoch = clients[c].epoch
        /\ one.state = "ready"
    BY <2>2, <2>4 DEF ClientRecords
  <2> HIDE DEF one
  <2>6. /\ all \in Seq(ClientRecords) /\ DOMAIN all = DOMAIN clients /\ all[c] = one
        /\ \A i \in DOMAIN clients : i # c => all[i] = clients[i]
    BY <2>1, <2>2, <2>5
  <2> HIDE DEF all
  <2>7. scenario' \in SharingCases
    BY <2>1, <2>3, <2>6 DEF SharingCases
  <2>8. /\ scenario'.clients = all /\ scenario'.runtime = scenario.runtime /\ scenario'.epoch = scenario.epoch
        /\ scenario'.sdkCache = scenario.sdkCache
    BY <2>1, <2>3 DEF SharingCases
  <2>9. /\ DOMAIN scenario'.clients = DOMAIN scenario.clients
        /\ \A i \in DOMAIN scenario.clients : SameClient(scenario, scenario', i)
        /\ \A h \in Handles : scenario'.runtime[h] = scenario.runtime[h] \/ Alive(scenario, scenario'.runtime[h])
    BY <2>2, <2>5, <2>6, <2>8 DEF SameClient
  <2>10. SharingOK(scenario')
    BY <2>1, <2>7, <2>8, <2>9, ClientTaken
  <2> QED
    BY <2>7, <2>10 DEF SharingInv
<1>5. ASSUME SharingInv, Sharing, NEW c \in Clients, SetupFails(c)
      PROVE  SharingInv'
  <2> DEFINE clients == scenario.clients
             one == [clients[c] EXCEPT !.state = "failed"]
             all == [clients EXCEPT ![c] = one]
             sdkCache == [scenario.sdkCache EXCEPT ![clients[c].provider] = NoClient]
             runtime == [h \in Handles |-> IF scenario.runtime[h] = c THEN NoClient ELSE scenario.runtime[h]]
  <2>1. scenario \in SharingCases /\ SharingOK(scenario) /\ c \in DOMAIN clients
    BY <1>5 DEF SharingInv, Clients
  <2>2. /\ clients \in Seq(ClientRecords) /\ clients[c] \in ClientRecords /\ clients[c].state = "pending"
        /\ scenario.sdkCache \in [Provider -> Nat] /\ scenario.runtime \in [Handles -> Nat]
    BY <1>5, <2>1, ClientTypes DEF SharingCases, SetupFails
  <2>3. scenario' = [scenario EXCEPT !.clients = all, !.sdkCache = sdkCache, !.runtime = runtime]
    BY <1>5, <2>1, <2>2 DEF SetupFails, SharingCases, ClientRecords
  <2>4. /\ one \in ClientRecords /\ one.provider = clients[c].provider /\ one.epoch = clients[c].epoch
        /\ one.state = "failed"
    BY <2>2 DEF ClientRecords
  <2> HIDE DEF one
  <2>5. /\ all \in Seq(ClientRecords) /\ DOMAIN all = DOMAIN clients /\ all[c] = one
        /\ \A i \in DOMAIN clients : i # c => all[i] = clients[i]
    BY <2>1, <2>2, <2>4
  <2>6. sdkCache \in [Provider -> Nat] /\ runtime \in [Handles -> Nat]
    BY <2>2 DEF NoClient
  <2> HIDE DEF all, sdkCache, runtime
  <2>7. scenario' \in SharingCases
    BY <2>1, <2>3, <2>5, <2>6 DEF SharingCases
  <2>8. /\ scenario'.clients = all /\ scenario'.runtime = runtime /\ scenario'.epoch = scenario.epoch
        /\ scenario'.sdkCache = sdkCache
    BY <2>1, <2>3 DEF SharingCases
  <2>9. /\ DOMAIN scenario'.clients = DOMAIN scenario.clients /\ c \in DOMAIN scenario.clients
        /\ Alive(scenario, c)
        /\ \A i \in DOMAIN scenario.clients : i # c => SameClient(scenario, scenario', i)
        /\ scenario'.clients[c].provider = scenario.clients[c].provider
        /\ scenario'.clients[c].epoch = scenario.clients[c].epoch /\ scenario'.clients[c].state = "failed"
    BY <2>1, <2>2, <2>4, <2>5, <2>8 DEF SameClient, Alive
  <2>10. /\ scenario'.sdkCache = [scenario.sdkCache EXCEPT ![scenario.clients[c].provider] = NoClient]
         /\ \A h \in Handles : scenario'.runtime[h] = IF scenario.runtime[h] = c THEN NoClient ELSE scenario.runtime[h]
    BY <2>8 DEF sdkCache, runtime
  <2>11. SharingOK(scenario')
    BY <2>1, <2>7, <2>8, <2>9, <2>10, ClientFailed
  <2> QED
    BY <2>7, <2>11 DEF SharingInv
<1>6. ASSUME SharingInv, Close
      PROVE  SharingInv'
  <2>1. scenario \in SharingCases /\ SharingOK(scenario) /\ scenario.epoch = 0
    BY <1>6 DEF SharingInv, Close
  <2>2. scenario' = [scenario EXCEPT !.epoch = 1, !.sdkCache = [provider \in Provider |-> NoClient]]
    BY <1>6 DEF Close
  <2>3. scenario' \in SharingCases
    BY <2>1, <2>2 DEF SharingCases, NoClient
  <2>4. /\ scenario'.clients = scenario.clients /\ scenario'.runtime = scenario.runtime /\ scenario'.epoch = 1
        /\ \A p \in Provider : scenario'.sdkCache[p] = NoClient
    BY <2>1, <2>2 DEF SharingCases
  <2>5. SharingOK(scenario')
    BY <2>1, <2>3, <2>4, ClientsClosed
  <2> QED
    BY <2>3, <2>5 DEF SharingInv
<1>7. SharingInv /\ [StartHandles \/ Share \/ Elsewhere("clients")]_scenario => SharingInv'
  <2>1. ASSUME SharingInv, Elsewhere("clients") PROVE SharingInv'
    BY <2>1 DEF Elsewhere, SharingInv, Sharing
  <2>2. ASSUME SharingInv, UNCHANGED scenario PROVE SharingInv'
    BY <2>2 DEF SharingInv, Sharing
  <2> QED
    BY <1>2, <1>3, <1>4, <1>5, <1>6, <2>1, <2>2 DEF Share
<1> QED
  BY <1>1, <1>7, PTL DEF SharingSpec

\* src/lib/index.js: in whatever order handles call, set-ups end or fail and close() is
\* called, no two clients of a provider live since the last close(), but for one whose
\* place was freed late, and a client that failed is held by nobody.
LEMMA ClientsPart == SharingSpec => [](OneClient /\ FailureForgotten)
<1>1. SharingInv => OneClient /\ FailureForgotten
  <2> SUFFICES ASSUME SharingInv, Sharing
               PROVE  OneClient /\ FailureForgotten
    BY DEF OneClient, FailureForgotten
  <2>1. scenario \in SharingCases /\ SharingOK(scenario)
    BY DEF SharingInv
  <2>2. OneClient
    BY <2>1 DEF OneClient, SharingOK, AloneOK, Alive, FreedLate, Clients
  <2>3. FailureForgotten
    <3> SUFFICES ASSUME NEW client \in Clients, scenario.clients[client].state = "failed"
                 PROVE  client \notin Range(scenario.runtime) \cup Range(scenario.sdkCache)
      BY DEF FailureForgotten
    <3>1. client # NoClient /\ client \in DOMAIN scenario.clients
      BY <2>1, ClientTypes DEF Clients
    <3>2. scenario.runtime \in [Handles -> Nat] /\ scenario.sdkCache \in [Provider -> Nat]
      BY <2>1 DEF SharingCases
    <3>3. \A h \in Handles : scenario.runtime[h] # client
      BY <2>1, <3>1 DEF SharingOK, HeldOK, Alive
    <3>4. \A p \in Provider : scenario.sdkCache[p] # client
      BY <2>1, <3>1 DEF SharingOK, HeldOK, Alive
    <3> QED
      BY <3>2, <3>3, <3>4 DEF Range
  <2> QED
    BY <2>2, <2>3
<1> QED
  BY <1>1, SharingInvariant, PTL

-----------------------------------------------------------------------------
(* From a name to a model.                                                 *)

NamesSpec == Init /\ [][NameModels \/ Elsewhere("names")]_scenario
UseSpec == Init /\ [][AskModel \/ FollowReplacement \/ UseModel \/ Elsewhere("use")]_scenario

\* Three ids that differ, none of them deprecated, and the names made from them.
NamesInv ==
    Naming =>
        /\ scenario.catalog.keys \in [1 .. 3 -> Ids]
        /\ \A id \in Keys(scenario.catalog) : scenario.catalog.entry[id].deprecated = Current
        /\ scenario.catalog.meta = {Schema}
        /\ scenario.aliases = AliasMap(scenario.catalog)

SearchOutcomes == {"searching", "ok", "no such effort", "not found", "not a model", "circular", "replacement not found"}

\* A model is current or has one replacement.
IsReplacement(deprecated) == deprecated = Current \/ \E id : deprecated = <<id>>
Replaceable(catalog) == \A id \in Keys(catalog) : IsReplacement(catalog.entry[id].deprecated)

\* The search has come to a replacement of what was asked; whatever it has left is
\* deprecated and leads to what it has left or come to.
TrailOK(s) ==
    /\ s.at \in Reached(s.catalog, s.asked.id)
    /\ s.asked.id \in s.seen \cup {s.at}
    /\ \A one \in s.seen :
        /\ one \in Keys(s.catalog) /\ s.catalog.entry[one].deprecated # Current
        /\ ToSet(s.catalog.entry[one].deprecated) \subseteq s.seen \cup {s.at}

UseFields == {"kind", "catalog", "asked", "at", "seen", "outcome"}

UseInv ==
    Using =>
        LET s == scenario
            here == s.catalog.entry[s.at]
            effort == s.asked.effort
        IN  /\ DOMAIN s = UseFields /\ s.outcome \in SearchOutcomes
            /\ Replaceable(s.catalog)
            /\ IF s.outcome \in {"not found", "not a model"} THEN s.asked.id \notin Keys(s.catalog) ELSE TrailOK(s)
            /\ s.outcome = "circular" => s.at \in s.seen
            /\ s.outcome = "replacement not found" =>
                   here.deprecated # Current /\ here.deprecated[1] \notin Keys(s.catalog)
            /\ s.outcome \in {"ok", "no such effort"} => here.deprecated = Current
            /\ (s.outcome = "ok" /\ effort # NoSuffix) =>
                   here.levels # {} /\ effort \in here.levels \cup {"none"}

\* A current model has no replacement, a deprecated one has one.
LEMMA OneReplacement ==
    ASSUME NEW deprecated, IsReplacement(deprecated)
    PROVE  /\ deprecated = Current => ToSet(deprecated) = {}
           /\ deprecated # Current => ToSet(deprecated) = {deprecated[1]}
<1>1. CASE deprecated = Current
  BY <1>1 DEF Current, ToSet
<1>2. CASE \E id : deprecated = <<id>>
  <2>1. PICK id : deprecated = <<id>>
    BY <1>2
  <2>2. DOMAIN deprecated = {1} /\ deprecated[1] = id /\ deprecated # <<>>
    BY <2>1
  <2> QED
    BY <2>2 DEF Current, ToSet
<1> QED
  BY <1>1, <1>2 DEF IsReplacement

\* So it is in every catalog that is searched.
LEMMA CatalogsReplaceable == \A catalog \in Replaced : Replaceable(catalog)
<1> SUFFICES ASSUME NEW catalog \in Replaced PROVE Replaceable(catalog)
  OBVIOUS
<1>1. CASE \E entry \in [ToSet(Trio) -> [deprecated : Replacements, aliases : {<<>>}, levels : {{}, {"max"}}]] :
               catalog = [keys |-> Trio, meta |-> {Schema}, entry |-> entry]
  <2>1. PICK entry \in [ToSet(Trio) -> [deprecated : Replacements, aliases : {<<>>}, levels : {{}, {"max"}}]] :
               catalog = [keys |-> Trio, meta |-> {Schema}, entry |-> entry]
    BY <1>1
  <2>2. Keys(catalog) = ToSet(Trio) /\ catalog.entry = entry
    BY <2>1 DEF Keys
  <2>3. \A id \in Keys(catalog) : catalog.entry[id].deprecated \in Replacements
    BY <2>1, <2>2
  <2> QED
    BY <2>3 DEF Replaceable, IsReplacement, Replacements
<1>2. CASE catalog = [keys |-> Releases, meta |-> {},
                      entry |-> [id \in ToSet(Releases) |-> Entry(NextRelease(id), <<>>, {})]]
  <2>1. /\ Keys(catalog) = ToSet(Releases)
        /\ catalog.entry = [id \in ToSet(Releases) |-> Entry(NextRelease(id), <<>>, {})]
    BY <1>2 DEF Keys
  <2>2. \A id \in Keys(catalog) : catalog.entry[id].deprecated = NextRelease(id)
    BY <2>1 DEF Entry
  <2>3. \A id : IsReplacement(NextRelease(id))
    BY DEF NextRelease, IsReplacement
  <2> QED
    BY <2>2, <2>3 DEF Replaceable
<1> QED
  BY <1>1, <1>2 DEF Replaced

LEMMA ReachedItself ==
    ASSUME NEW catalog, NEW id \in Keys(catalog)
    PROVE  id \in Reached(catalog, id)
BY DEF Reached

LEMMA ReachedNext ==
    ASSUME NEW catalog, NEW id, NEW at \in Reached(catalog, id),
           NEW next \in ToSet(catalog.entry[at].deprecated), next \in Keys(catalog)
    PROVE  next \in Reached(catalog, id)
BY DEF Reached

\* A set that has the first model and every replacement has all that are reached.
LEMMA ReachedWithin ==
    ASSUME NEW catalog, NEW id, NEW models \in SUBSET (Keys(catalog) \cup {id}), id \in models,
           \A one \in models \cap Keys(catalog) :
               ToSet(catalog.entry[one].deprecated) \cap Keys(catalog) \subseteq models
    PROVE  Reached(catalog, id) \subseteq models
BY DEF Reached

LEMMA NamesInvariant == NamesSpec => []NamesInv
<1>1. Init => NamesInv
  BY DEF Init, Idle, NamesInv, Naming
<1>2. NamesInv /\ [NameModels \/ Elsewhere("names")]_scenario => NamesInv'
  <2> SUFFICES ASSUME NamesInv, [NameModels \/ Elsewhere("names")]_scenario PROVE NamesInv'
    OBVIOUS
  <2>1. CASE NameModels
    <3>1. PICK keys \in {k \in [1 .. 3 -> Ids] : \A i, j \in 1 .. 3 : i # j => k[i] # k[j]} :
            \E own \in [ToSet(keys) -> Listed] :
                LET catalog == [keys |-> keys, meta |-> {Schema},
                                entry |-> [id \in ToSet(keys) |-> Entry(Current, own[id], {})]]
                IN  scenario' = [kind |-> "names", catalog |-> catalog, aliases |-> AliasMap(catalog)]
      BY <2>1, Zenon DEF NameModels
    <3>2. PICK own \in [ToSet(keys) -> Listed] :
                LET catalog == [keys |-> keys, meta |-> {Schema},
                                entry |-> [id \in ToSet(keys) |-> Entry(Current, own[id], {})]]
                IN  scenario' = [kind |-> "names", catalog |-> catalog, aliases |-> AliasMap(catalog)]
      BY <3>1
    <3> DEFINE catalog == [keys |-> keys, meta |-> {Schema},
                           entry |-> [id \in ToSet(keys) |-> Entry(Current, own[id], {})]]
    <3>3. scenario' = [kind |-> "names", catalog |-> catalog, aliases |-> AliasMap(catalog)]
      BY <3>2, Zenon
    <3>4. catalog.keys \in [1 .. 3 -> Ids] /\ Keys(catalog) = ToSet(keys)
      BY <3>1 DEF Keys
    <3>5. \A id \in Keys(catalog) : catalog.entry[id].deprecated = Current
      BY <3>4 DEF Entry
    <3> HIDE DEF catalog
    <3>7. catalog.meta = {Schema}
      BY DEF catalog
    <3>6. scenario'.catalog = catalog /\ scenario'.aliases = AliasMap(catalog)
      BY <3>3
    <3> QED
      BY <3>4, <3>5, <3>6, <3>7 DEF NamesInv
  <2>2. CASE Elsewhere("names") \/ UNCHANGED scenario
    BY <2>2 DEF Elsewhere, NamesInv, Naming
  <2> QED
    BY <2>1, <2>2
<1> QED
  BY <1>1, <1>2, PTL DEF NamesSpec

\* Where a name stands for one model alone, only that model implies it.
LEMMA ImpliedOnce ==
    ASSUME NEW catalog, IsFiniteSet(Keys(catalog)), NEW name, Count(catalog, name) = 1,
           NEW id \in Keys(catalog), name \in {Bare(id)} \cup BaseNames(id),
           NEW other \in Keys(catalog), name \in {Bare(other)} \cup BaseNames(other)
    PROVE  other = id
<1> DEFINE bare == {m \in Keys(catalog) : Bare(m) = name}
           based == {m \in Keys(catalog) : name \in BaseNames(m)}
<1>1. IsFiniteSet(bare) /\ IsFiniteSet(based)
  BY FS_Subset
<1>2. Cardinality(bare) \in Nat /\ Cardinality(based) \in Nat /\ Cardinality(bare) + Cardinality(based) = 1
  BY <1>1, FS_CardinalityType DEF Count
<1>3. (Cardinality(bare) = 0 /\ Cardinality(based) = 1) \/ (Cardinality(bare) = 1 /\ Cardinality(based) = 0)
  BY <1>2
<1>4. CASE Cardinality(bare) = 0 /\ Cardinality(based) = 1
  <2>1. bare = {} /\ \E one : based = {one}
    BY <1>1, <1>4, FS_EmptySet, FS_Singleton
  <2> QED
    BY <2>1
<1>5. CASE Cardinality(bare) = 1 /\ Cardinality(based) = 0
  <2>1. based = {} /\ \E one : bare = {one}
    BY <1>1, <1>5, FS_EmptySet, FS_Singleton
  <2> QED
    BY <2>1
<1> QED
  BY <1>3, <1>4, <1>5

LEMMA ThreeKeys ==
    ASSUME NEW catalog, catalog.keys \in [1 .. 3 -> Ids]
    PROVE  /\ IsFiniteSet(Keys(catalog)) /\ Keys(catalog) \subseteq Ids /\ DOMAIN catalog.keys = 1 .. 3
           /\ \A i \in 1 .. 3 : catalog.keys[i] \in Keys(catalog)
           /\ \A id \in Keys(catalog) : \E i \in 1 .. 3 : catalog.keys[i] = id
<1>1. Keys(catalog) = {catalog.keys[i] : i \in 1 .. 3}
  BY DEF Keys, ToSet
<1>2. IsFiniteSet(Keys(catalog))
  <2>1. \A x, y, z : IsFiniteSet({x} \cup {y} \cup {z})
    <3>1. \A x : IsFiniteSet({x})
      BY FS_Singleton
    <3>2. \A x, y : IsFiniteSet({x} \cup {y})
      BY <3>1, FS_AddElement
    <3> QED
      BY <3>2, FS_AddElement
  <2>2. PICK x, y, z : x = catalog.keys[1] /\ y = catalog.keys[2] /\ z = catalog.keys[3]
    OBVIOUS
  <2>3. Keys(catalog) = {x} \cup {y} \cup {z}
    BY <1>1, <2>2
  <2>4. IsFiniteSet({x} \cup {y} \cup {z})
    BY <2>1
  <2> QED
    BY <2>3, <2>4, Zenon
<1> QED
  BY <1>1, <1>2

\* Ids are names under a provider.
LEMMA IdsProvided ==
    ASSUME NEW id \in Ids
    PROVE  id.provider # NoProvider /\ \A base \in BaseNames(id) : [base EXCEPT !.provider = id.provider].provider # NoProvider
<1>1. id.provider # NoProvider
  <2>1. \A provider, bare, suffix : Name(provider, bare, suffix).provider = provider
    BY DEF Name
  <2>2. id.provider \in {"a", "b"}
    BY <2>1 DEF Ids
  <2> QED
    BY <2>2 DEF NoProvider
<1>2. ASSUME NEW base \in BaseNames(id)
      PROVE  [base EXCEPT !.provider = id.provider].provider # NoProvider
  <2>1. PICK part : base = Name(NoProvider, part, NoSuffix)
    BY <1>2 DEF BaseNames
  <2> QED
    BY <1>1, <2>1 DEF Name
<1> QED
  BY <1>1, <1>2

LEMMA NamesServed == NamesInv => LoneNameFound /\ ListedUsable
<1> SUFFICES ASSUME NamesInv, Naming PROVE LoneNameFound /\ ListedUsable
  BY DEF LoneNameFound, ListedUsable
<1> DEFINE catalog == scenario.catalog
           aliases == scenario.aliases
<1>1. catalog.keys \in [1 .. 3 -> Ids] /\ aliases = AliasMap(catalog)
  BY DEF NamesInv
<1>2. LoneNameFound
  <2> SUFFICES ASSUME NEW id \in Keys(catalog), NEW name \in Short,
                      name \in {Bare(id)} \cup BaseNames(id), Count(catalog, name) = 1
               PROVE  Expand(catalog, aliases, name) = id
    BY DEF LoneNameFound
  <2>1. name.provider = NoProvider /\ name \notin Present(catalog)
    <3>1. name.provider = NoProvider /\ name \notin Keys(catalog)
      BY <1>1, ThreeKeys, IdsProvided DEF Short, Name
    <3>2. name.bare # "$schema" /\ Schema.bare = "$schema"
      BY DEF Short, Name, Schema
    <3>3. catalog.meta = {Schema}
      BY DEF NamesInv
    <3> QED
      BY <3>1, <3>2, <3>3 DEF Present
  <2> DEFINE places == {i \in DOMAIN catalog.keys : name \in Implied(catalog, catalog.keys[i])}
  <2>2. name \in Implied(catalog, id)
    BY DEF Implied
  <2>3. \A other \in Keys(catalog) : name \in Implied(catalog, other) => other = id
    <3> SUFFICES ASSUME NEW other \in Keys(catalog), name \in Implied(catalog, other) PROVE other = id
      OBVIOUS
    <3>1. IsFiniteSet(Keys(catalog)) /\ other \in Ids
      BY <1>1, ThreeKeys
    <3>2. name \in {Bare(other)} \cup BaseNames(other)
      BY <2>1, <3>1, IdsProvided DEF Implied
    <3> QED
      BY <3>1, <3>2, ImpliedOnce
  <2>4. PICK i \in 1 .. 3 : catalog.keys[i] = id
    BY <1>1, ThreeKeys
  <2>5. i \in places /\ places \subseteq 1 .. 3 /\ \A j \in places : catalog.keys[j] = id
    BY <1>1, <2>2, <2>3, <2>4, ThreeKeys
  <2>6. Max(places) \in places
    <3>1. \E m \in places : \A j \in places : m >= j
      BY <2>5
    <3> QED
      BY <3>1 DEF Max
  <2>7. name \in DOMAIN aliases /\ aliases[name] = catalog.keys[Max(places)]
    BY <1>1, <2>2, <2>5 DEF AliasMap
  <2> QED
    BY <2>1, <2>5, <2>6, <2>7 DEF Expand
<1>3. ListedUsable
  <2> DEFINE Asks(id) == AskedFor(catalog, aliases, id)
             base(id) == [id EXCEPT !.suffix = NoSuffix]
             shadowed == {id \in Keys(catalog) : id.suffix # NoSuffix
                                /\ Expand(catalog, aliases, base(id)) \in Present(catalog)}
  <2>1. catalog.meta = {Schema} /\ Schema.suffix = NoSuffix /\ Schema.provider = NoProvider
    BY DEF NamesInv, Schema, Name
  <2>2. Schema \notin Keys(catalog)
    BY <1>1, <2>1, ThreeKeys, IdsProvided
  <2>3. ASSUME NEW id \in List(catalog) \cap Keys(catalog)
        PROVE  Asks(id) = [id |-> id, effort |-> NoSuffix] <=> id \notin shadowed
    <3>1. CASE id \in shadowed
      <4>1. Asks(id).effort = id.suffix /\ id.suffix # NoSuffix
        BY <3>1 DEF AskedFor, Split
      <4> QED
        BY <3>1, <4>1
    <3>2. CASE id \notin shadowed
      <4>1. Split(catalog, aliases, id) = [name |-> id, effort |-> NoSuffix]
        BY <3>2 DEF Split
      <4>2. Expand(catalog, aliases, id) = id
        BY DEF Expand, Present
      <4> QED
        BY <3>2, <4>1, <4>2 DEF AskedFor
    <3> QED
      BY <3>1, <3>2
  <2>4. List(catalog) \ Keys(catalog) = catalog.meta
    BY <2>1, <2>2 DEF List
  <2>5. \A id \in catalog.meta : Asks(id).id \notin Keys(catalog)
    <3>1. Split(catalog, aliases, Schema) = [name |-> Schema, effort |-> NoSuffix]
      BY <2>1 DEF Split
    <3>2. Expand(catalog, aliases, Schema) = Schema
      BY <2>1 DEF Expand, Present
    <3> QED
      BY <2>1, <2>2, <3>1, <3>2 DEF AskedFor
  <2> QED
    BY <2>3, <2>4, <2>5 DEF ListedUsable
<1> QED
  BY <1>2, <1>3

LEMMA UseInvariant == UseSpec => []UseInv
<1>1. Init => UseInv
  <2>1. Init => ~Using
    BY DEF Init, Idle, Using
  <2> QED
    BY <2>1 DEF UseInv
<1>2. UseInv /\ [AskModel \/ FollowReplacement \/ UseModel \/ Elsewhere("use")]_scenario => UseInv'
  <2> SUFFICES ASSUME UseInv, [AskModel \/ FollowReplacement \/ UseModel \/ Elsewhere("use")]_scenario
               PROVE  UseInv'
    OBVIOUS
  <2>1. CASE AskModel
    <3>0. PICK catalog \in Replaced :
            \E asked :
                scenario' = [kind |-> "use", catalog |-> catalog, asked |-> asked, at |-> asked.id, seen |-> {},
                             outcome |-> IF asked.id \in Keys(catalog) THEN "searching"
                                         ELSE IF asked.id \in catalog.meta THEN "not a model" ELSE "not found"]
      BY <2>1, Zenon DEF AskModel
    <3>1. PICK asked :
            scenario' = [kind |-> "use", catalog |-> catalog, asked |-> asked, at |-> asked.id, seen |-> {},
                         outcome |-> IF asked.id \in Keys(catalog) THEN "searching"
                                     ELSE IF asked.id \in catalog.meta THEN "not a model" ELSE "not found"]
      BY <3>0, Zenon
    <3>3. Replaceable(catalog)
      BY <3>0, CatalogsReplaceable
    <3>4. asked.id \in Keys(catalog) => asked.id \in Reached(catalog, asked.id)
      BY ReachedItself
    <3> DEFINE outcome == IF asked.id \in Keys(catalog) THEN "searching"
                          ELSE IF asked.id \in catalog.meta THEN "not a model" ELSE "not found"
    <3>5. /\ scenario'.catalog = catalog /\ scenario'.asked = asked /\ scenario'.at = asked.id
          /\ scenario'.seen = {} /\ DOMAIN scenario' = UseFields /\ scenario'.outcome = outcome
      BY <3>1 DEF UseFields
    <3> QED
      BY <3>3, <3>4, <3>5 DEF UseInv, TrailOK, SearchOutcomes
  <2>2. CASE FollowReplacement
    <3> DEFINE s == scenario
               next == Here.deprecated[1]
    <3>1. /\ Using /\ s.outcome = "searching" /\ TrailOK(s) /\ Here.deprecated # Current
          /\ Replaceable(s.catalog)
          /\ DOMAIN s = UseFields
      BY <2>2 DEF FollowReplacement, Searching, UseInv
    <3>2. s.at \in Keys(s.catalog) /\ Here = s.catalog.entry[s.at]
      BY <3>1 DEF TrailOK, Reached, Here
    <3>3. ToSet(Here.deprecated) = {next}
      BY <3>1, <3>2, OneReplacement DEF Replaceable
    <3>4. CASE s.at \in s.seen
      <4>1. /\ scenario'.catalog = s.catalog /\ scenario'.asked = s.asked /\ scenario'.at = s.at
            /\ scenario'.seen = s.seen /\ scenario'.outcome = "circular" /\ DOMAIN scenario' = UseFields
        BY <2>2, <3>1, <3>4 DEF FollowReplacement, UseFields
      <4> QED
        BY <3>1, <3>4, <4>1 DEF UseInv, TrailOK, SearchOutcomes
    <3>5. CASE s.at \notin s.seen /\ next \notin Keys(s.catalog)
      <4>1. /\ scenario'.catalog = s.catalog /\ scenario'.asked = s.asked /\ scenario'.at = s.at
            /\ scenario'.seen = s.seen /\ scenario'.outcome = "replacement not found"
            /\ DOMAIN scenario' = UseFields
        BY <2>2, <3>1, <3>5 DEF FollowReplacement, UseFields
      <4> QED
        BY <3>1, <3>2, <3>5, <4>1 DEF UseInv, TrailOK, SearchOutcomes
    <3>6. CASE s.at \notin s.seen /\ next \in Keys(s.catalog)
      <4>1. scenario' = [s EXCEPT !.at = next, !.seen = @ \cup {s.at}]
        BY <2>2, <3>6 DEF FollowReplacement
      <4>2. /\ scenario'.catalog = s.catalog /\ scenario'.asked = s.asked /\ scenario'.at = next
            /\ scenario'.seen = s.seen \cup {s.at} /\ scenario'.outcome = "searching"
            /\ DOMAIN scenario' = UseFields
        BY <3>1, <4>1 DEF UseFields
      <4>3. next \in Reached(s.catalog, s.asked.id)
        BY <3>1, <3>2, <3>3, <3>6, ReachedNext DEF TrailOK
      <4> HIDE DEF next
      <4>4. TrailOK(scenario')
        BY <3>1, <3>2, <3>3, <4>2, <4>3 DEF TrailOK
      <4> QED
        BY <3>1, <4>2, <4>4 DEF UseInv, SearchOutcomes
    <3> QED
      BY <3>4, <3>5, <3>6
  <2>3. CASE UseModel
    <3> DEFINE s == scenario
               effort == s.asked.effort
               has == effort = NoSuffix \/ (Here.levels # {} /\ effort \in Here.levels \cup {"none"})
    <3>1. /\ Using /\ TrailOK(s) /\ DOMAIN s = UseFields
          /\ Replaceable(s.catalog)
          /\ Here = s.catalog.entry[s.at] /\ Here.deprecated = Current
      BY <2>3 DEF UseModel, Searching, UseInv, Here
    <3>2. scenario' = [s EXCEPT !.outcome = IF has THEN "ok" ELSE "no such effort"]
      BY <2>3, Zenon DEF UseModel
    <3> HIDE DEF has
    <3>3. /\ scenario'.catalog = s.catalog /\ scenario'.asked = s.asked /\ scenario'.at = s.at
          /\ scenario'.seen = s.seen /\ scenario'.outcome = (IF has THEN "ok" ELSE "no such effort")
          /\ DOMAIN scenario' = UseFields
      BY <3>1, <3>2 DEF UseFields
    <3> QED
      BY <3>1, <3>3 DEF UseInv, TrailOK, SearchOutcomes, has
  <2>4. CASE Elsewhere("use") \/ UNCHANGED scenario
    BY <2>4 DEF Elsewhere, UseInv, Using
  <2> QED
    BY <2>1, <2>2, <2>3, <2>4
<1> QED
  BY <1>1, <1>2, PTL DEF UseSpec

LEMMA UseInvCurrent == UseInv => UsedIsCurrent
<1> SUFFICES ASSUME UseInv, Using PROVE UsedIsCurrent
  BY DEF UsedIsCurrent
<1> DEFINE s == scenario
           catalog == scenario.catalog
<1>1. \A id \in Keys(catalog) : IsReplacement(catalog.entry[id].deprecated)
  BY DEF UseInv, Replaceable
<1>2. ASSUME s.outcome \in {"not found", "not a model", "circular", "replacement not found"},
             NEW id \in Reached(catalog, s.asked.id), catalog.entry[id].deprecated = Current
      PROVE  FALSE
  <2>1. CASE s.outcome \in {"not found", "not a model"}
    <3>1. s.asked.id \notin Keys(catalog)
      BY <2>1 DEF UseInv
    <3>2. Reached(catalog, s.asked.id) \subseteq {s.asked.id}
      <4> DEFINE alone == {s.asked.id}
      <4>1. alone \cap Keys(catalog) = {} /\ alone \in SUBSET (Keys(catalog) \cup {s.asked.id})
        BY <3>1
      <4>2. s.asked.id \in alone
        OBVIOUS
      <4> HIDE DEF alone
      <4>3. Reached(catalog, s.asked.id) \subseteq alone
        BY <4>1, <4>2, ReachedWithin
      <4> QED
        BY <4>3 DEF alone
    <3> QED
      BY <1>2, <3>1, <3>2 DEF Reached
  <2>2. CASE s.outcome \in {"circular", "replacement not found"}
    <3> DEFINE left == s.seen \cup {s.at}
    <3>1. TrailOK(s) /\ s.at \in Keys(catalog)
      BY <2>2 DEF UseInv, TrailOK, Reached
    <3>2. left \subseteq Keys(catalog) /\ s.asked.id \in left
      BY <3>1 DEF TrailOK
    <3>3. catalog.entry[s.at].deprecated # Current
          /\ ToSet(catalog.entry[s.at].deprecated) \cap Keys(catalog) \subseteq left
      <4>1. CASE s.outcome = "circular"
        BY <3>1, <4>1 DEF UseInv, TrailOK
      <4>2. CASE s.outcome = "replacement not found"
        BY <1>1, <3>1, <4>2, OneReplacement DEF UseInv
      <4> QED
        BY <2>2, <4>1, <4>2
    <3>4. \A one \in left : ToSet(catalog.entry[one].deprecated) \cap Keys(catalog) \subseteq left
      BY <3>1, <3>3 DEF TrailOK
    <3>5. id \in left
      <4> HIDE DEF left
      <4>1. Reached(catalog, s.asked.id) \subseteq left
        BY <3>2, <3>4, ReachedWithin
      <4> QED
        BY <1>2, <4>1
    <3> QED
      BY <1>2, <3>1, <3>3, <3>5 DEF TrailOK
  <2> QED
    BY <1>2, <2>1, <2>2
<1>3. s.outcome \in {"ok", "no such effort"} =>
          s.at \in Reached(catalog, s.asked.id) /\ catalog.entry[s.at].deprecated = Current
  BY DEF UseInv, TrailOK
<1>4. (s.outcome = "ok" /\ s.asked.effort # NoSuffix) =>
          Here.levels # {} /\ s.asked.effort \in Here.levels \cup {"none"}
  BY DEF UseInv, Here
<1> QED
  BY <1>2, <1>3, <1>4 DEF UsedIsCurrent

\* index.js and curated-cache.js: a name that stands for one model leads to it, use()
\* comes to a current replacement of what was asked wherever there is one, and the
\* handles share one live client and never a failed one.
ModelsSpec == NamesSpec /\ UseSpec /\ SharingSpec
LEMMA ModelsPart == ModelsSpec => []ModelsServed
BY NamesInvariant, NamesServed, UseInvariant, UseInvCurrent, ClientsPart, PTL DEF ModelsSpec, ModelsServed

-----------------------------------------------------------------------------
(* Images and transcriptions.                                              *)

OneShotNext ==
    \/ StartOneShot \/ NoAdapter \/ OpenaiImage \/ SubmitTask \/ PollTask \/ PollTimesOut
    \/ TranscribeAudio \/ Relay \/ ExchangeFails \/ CallImage \/ CallTranscription
OneShotSpec == Init /\ [][OneShotNext \/ Elsewhere("one-shot")]_scenario

\* The errors of a one-shot call, and the result that each of the two kinds may have.
ErrorTypes ==
    {"CONTEXT_OVERFLOW", "QUOTA_EXHAUSTED", "CONTENT_BLOCKED", "AUTH_INVALID", "RATE_LIMIT",
     "PROVIDER_UNAVAILABLE", "PROVIDER_ERROR", "NET_ERROR", "SESSION_UNKNOWN_PROVIDER",
     "SESSION_INVALID_AUDIO", "SESSION_POOL_CLOSED", "SESSION_STDIN_WRITE_FAILED", "SESSION_DIED",
     "SESSION_IO_ERROR", "SESSION_INVALID_EVENT"}
ShotErrors == [type : ErrorTypes, retryable : BOOLEAN]
Payload(op) == IF op = "image" THEN "images" ELSE "text"
ShotOutcomes(op) == ShotErrors \cup {Completed(Payload(op))}

\* What the gate answers carries the outcome: a result under 200, an error under another.
Carries(reply, outcome) ==
    /\ reply.body = outcome
    /\ reply.status = 200 <=> ~Errored(outcome)

OneShotOK(s) ==
    /\ s.op \in {"image", "transcription"} /\ s.clock \in Nat /\ s.polls \in Nat
    /\ s.stage = "called" => s.clock = 0 /\ s.polls = 0
    /\ s.stage = "polling" => s.op = "image"
    /\ s.stage \in {"ran", "replied", "told"} => s.outcome \in ShotOutcomes(s.op)
    /\ s.stage = "replied" => Carries(s.reply, s.outcome)
    /\ s.stage = "told" => s.told = s.outcome

\* The polls so far have taken at least their intervals, and the last began in time.
PollsOK(s) ==
    /\ s.stage \in {"called", "polling"} => s.polls * PollEvery <= s.clock
    /\ s.clock < PollFor + SlowestPoll + PollEvery
    /\ s.polls * PollEvery < PollFor + PollEvery

ShotFields == {"kind", "op", "stage", "clock", "polls", "outcome", "reply", "told"}

OneShotInv == OneShot => DOMAIN scenario = ShotFields /\ OneShotOK(scenario) /\ PollsOK(scenario)

\* A classified error is one, whatever the status.
LEMMA StatusErrors ==
    ASSUME NEW status
    PROVE  OfStatus(status) \in ShotErrors
<1> DEFINE err == [status |-> status, code |-> NoCode, inner |-> NoCode, wording |-> "plain", headers |-> "absent"]
           type == Classify("unnamed", err)
<1>1. Override("unnamed", err) = ""
  BY DEF Override, ExtractCode, TierByCode, NoCode
<1>2. Classify429("unnamed", err) = "RATE_LIMIT"
  BY <1>1 DEF Classify429, RemainingHeaders
<1> HIDE DEF err
<1>3. type \in {"CONTEXT_OVERFLOW", "QUOTA_EXHAUSTED", "CONTENT_BLOCKED", "AUTH_INVALID", "RATE_LIMIT",
                "PROVIDER_UNAVAILABLE", "PROVIDER_ERROR", "NET_ERROR"}
  BY <1>2 DEF Classify
<1> HIDE DEF type
<1>4. type \in ErrorTypes
  BY <1>3 DEF ErrorTypes
<1>5. OfStatus(status) = Error(type, Retryable(type))
  BY DEF OfStatus, err, type
<1>6. Retryable(type) \in BOOLEAN
  BY DEF Retryable
<1> QED
  BY <1>4, <1>5, <1>6 DEF ShotErrors, Error

\* A call ends, with the time and the polls that it took.
LEMMA CallEnded ==
    ASSUME NEW s, NEW t, OneShotOK(s), s.stage \in {"called", "polling", "ran"}, t.stage = "ran",
           t.op = s.op, t.outcome \in ShotOutcomes(s.op), t.clock \in Nat, t.polls \in Nat
    PROVE  OneShotOK(t)
BY DEF OneShotOK

\* The invariant holds of every behaviour.
LEMMA OneShotInvariant == OneShotSpec => []OneShotInv
<1>1. Init => OneShotInv
  BY DEF Init, Idle, OneShotInv, OneShot
<1>2. StartOneShot => OneShotInv'
  <2> SUFFICES ASSUME StartOneShot PROVE OneShotInv'
    OBVIOUS
  <2>1. PICK op \in {"image", "transcription"} :
            scenario' = [kind |-> "one-shot", op |-> op, stage |-> "called", clock |-> 0, polls |-> 0,
                         outcome |-> Idle, reply |-> Idle, told |-> Idle]
    BY DEF StartOneShot
  <2>2. /\ DOMAIN scenario' = ShotFields /\ scenario'.stage = "called" /\ scenario'.op = op
        /\ scenario'.clock = 0 /\ scenario'.polls = 0
    BY <2>1 DEF ShotFields
  <2>3. OneShotOK(scenario') /\ PollsOK(scenario')
    <3>1. 0 * PollEvery = 0
      BY OneShotAssumption
    <3> QED
      BY <2>2, <3>1, OneShotAssumption DEF OneShotOK, PollsOK
  <2> QED
    BY <2>2, <2>3 DEF OneShotInv
<1>3. ASSUME OneShotInv, OneShot, scenario.stage \in {"called", "polling"}, NEW outcome \in ShotOutcomes(scenario.op),
             scenario' = Ended(outcome)
      PROVE  OneShotInv'
  <2>1. DOMAIN scenario = ShotFields /\ OneShotOK(scenario) /\ PollsOK(scenario)
    BY <1>3 DEF OneShotInv
  <2>2. /\ DOMAIN scenario' = ShotFields /\ scenario'.stage = "ran" /\ scenario'.outcome = outcome
        /\ scenario'.op = scenario.op /\ scenario'.clock = scenario.clock /\ scenario'.polls = scenario.polls
    BY <1>3, <2>1 DEF Ended, ShotFields
  <2>3. OneShotOK(scenario')
    BY <1>3, <2>1, <2>2, CallEnded DEF OneShotOK
  <2>4. PollsOK(scenario')
    BY <2>1, <2>2 DEF PollsOK
  <2> QED
    BY <2>2, <2>3, <2>4 DEF OneShotInv
<1>4. OneShotInv /\ NoAdapter => OneShotInv'
  <2>1. Error("SESSION_UNKNOWN_PROVIDER", FALSE) \in ShotErrors
    BY DEF ShotErrors, ErrorTypes, Error
  <2> QED
    BY <1>3, <2>1 DEF NoAdapter, During, ShotOutcomes
<1>5. OneShotInv /\ OpenaiImage => OneShotInv'
  BY <1>3, StatusErrors DEF OpenaiImage, During, ShotOutcomes, Payload
<1>6. ASSUME OneShotInv, SubmitTask
      PROVE  OneShotInv'
  <2>1. DOMAIN scenario = ShotFields /\ OneShotOK(scenario) /\ PollsOK(scenario)
    BY <1>6 DEF OneShotInv, SubmitTask, During
  <2>2. CASE \/ scenario' = Ended(Error("PROVIDER_ERROR", FALSE))
             \/ \E status \in Statuses \cup {NoStatus} : scenario' = Ended(OfStatus(status))
    <3>1. Error("PROVIDER_ERROR", FALSE) \in ShotErrors
      BY DEF ShotErrors, ErrorTypes, Error
    <3> QED
      BY <1>3, <1>6, <2>2, <3>1, StatusErrors DEF SubmitTask, During, ShotOutcomes
  <2>3. CASE scenario' = [scenario EXCEPT !.stage = "polling"]
    <3>1. /\ DOMAIN scenario' = ShotFields /\ scenario'.stage = "polling" /\ scenario'.op = "image"
          /\ scenario'.clock = scenario.clock /\ scenario'.polls = scenario.polls
      BY <1>6, <2>1, <2>3 DEF ShotFields, SubmitTask, During
    <3>2. OneShotOK(scenario') /\ PollsOK(scenario')
      BY <1>6, <2>1, <3>1 DEF OneShotOK, PollsOK, SubmitTask, During
    <3> QED
      BY <3>1, <3>2 DEF OneShotInv
  <2> QED
    BY <1>6, <2>2, <2>3 DEF SubmitTask
<1>7. ASSUME OneShotInv, PollTask
      PROVE  OneShotInv'
  <2>1. /\ DOMAIN scenario = ShotFields /\ OneShotOK(scenario) /\ PollsOK(scenario)
        /\ scenario.stage = "polling" /\ scenario.clock < PollFor /\ scenario.op = "image" /\ OneShot
    BY <1>7 DEF OneShotInv, PollTask, During, OneShotOK
  <2> DEFINE clock == scenario.clock
             polls == scenario.polls
  <2>2. clock \in Nat /\ polls \in Nat /\ polls * PollEvery <= clock /\ polls * PollEvery \in Nat
    BY <2>1, OneShotAssumption DEF OneShotOK, PollsOK
  <2>3. PICK length \in 0 .. SlowestPoll :
            \/ \E outcome \in ShotOutcomes("image") :
                   scenario' = [scenario EXCEPT !.clock = @ + length, !.polls = @ + 1,
                                                !.stage = "ran", !.outcome = outcome]
            \/ scenario' = [scenario EXCEPT !.clock = @ + length + PollEvery, !.polls = @ + 1]
    <3>1. Error("PROVIDER_ERROR", FALSE) \in ShotErrors
      BY DEF ShotErrors, ErrorTypes, Error
    <3>2. /\ Completed("images") \in ShotOutcomes("image") /\ Error("PROVIDER_ERROR", FALSE) \in ShotOutcomes("image")
          /\ \A status : OfStatus(status) \in ShotOutcomes("image")
      BY <3>1, StatusErrors DEF ShotOutcomes, Payload
    <3>3. PICK length \in 0 .. SlowestPoll :
              LET polled == [scenario EXCEPT !.clock = @ + length, !.polls = @ + 1]
                  With(outcome) == [polled EXCEPT !.stage = "ran", !.outcome = outcome]
              IN  \/ scenario' = With(Completed("images"))
                  \/ scenario' = With(Error("PROVIDER_ERROR", FALSE))
                  \/ \E status \in Statuses \cup {NoStatus} : scenario' = With(OfStatus(status))
                  \/ scenario' = [polled EXCEPT !.clock = @ + PollEvery]
      BY <1>7 DEF PollTask
    <3> DEFINE polled == [scenario EXCEPT !.clock = @ + length, !.polls = @ + 1]
    <3>4. \/ \E outcome \in ShotOutcomes("image") : scenario' = [polled EXCEPT !.stage = "ran", !.outcome = outcome]
          \/ scenario' = [polled EXCEPT !.clock = @ + PollEvery]
      BY <3>2, <3>3
    <3>5. \A outcome : [polled EXCEPT !.stage = "ran", !.outcome = outcome] =
              [scenario EXCEPT !.clock = @ + length, !.polls = @ + 1, !.stage = "ran", !.outcome = outcome]
      BY <2>1 DEF ShotFields
    <3>6. [polled EXCEPT !.clock = @ + PollEvery] =
              [scenario EXCEPT !.clock = @ + length + PollEvery, !.polls = @ + 1]
      BY <2>1 DEF ShotFields
    <3> QED
      BY <3>4, <3>5, <3>6
  <2>4. length \in Nat /\ length <= SlowestPoll /\ SlowestPoll \in Nat /\ PollEvery \in Nat /\ PollFor \in Nat /\ PollEvery > 0
    BY OneShotAssumption
  <2>5. (polls + 1) * PollEvery = polls * PollEvery + PollEvery
    BY <2>2, <2>4
  <2>6. (polls + 1) * PollEvery < PollFor + PollEvery
    BY <2>1, <2>2, <2>4, <2>5
  <2>7. CASE \E outcome \in ShotOutcomes("image") :
                 scenario' = [scenario EXCEPT !.clock = @ + length, !.polls = @ + 1,
                                              !.stage = "ran", !.outcome = outcome]
    <3>1. /\ DOMAIN scenario' = ShotFields /\ scenario'.stage = "ran" /\ scenario'.op = scenario.op
          /\ scenario'.outcome \in ShotOutcomes("image")
          /\ scenario'.clock = clock + length /\ scenario'.polls = polls + 1
      BY <2>1, <2>7 DEF ShotFields
    <3>2. scenario'.clock \in Nat /\ scenario'.polls \in Nat
      BY <2>2, <2>4, <3>1
    <3>3. OneShotOK(scenario')
      BY <2>1, <3>1, <3>2, CallEnded
    <3>4. PollsOK(scenario')
      BY <2>1, <2>2, <2>4, <2>6, <3>1 DEF PollsOK
    <3> QED
      BY <3>1, <3>3, <3>4 DEF OneShotInv
  <2>8. CASE scenario' = [scenario EXCEPT !.clock = @ + length + PollEvery, !.polls = @ + 1]
    <3>1. /\ DOMAIN scenario' = ShotFields /\ scenario'.stage = "polling" /\ scenario'.op = "image"
          /\ scenario'.clock = clock + length + PollEvery /\ scenario'.polls = polls + 1
      BY <2>1, <2>8 DEF ShotFields
    <3>2. scenario'.clock \in Nat /\ scenario'.polls \in Nat
      BY <2>2, <2>4, <3>1
    <3>3. OneShotOK(scenario')
      BY <3>1, <3>2 DEF OneShotOK
    <3>4. /\ (polls + 1) * PollEvery <= clock + length + PollEvery
          /\ clock + length + PollEvery < PollFor + SlowestPoll + PollEvery
      BY <2>1, <2>2, <2>4, <2>5
    <3>5. PollsOK(scenario')
      BY <2>6, <3>1, <3>4 DEF PollsOK
    <3> QED
      BY <3>1, <3>3, <3>5 DEF OneShotInv
  <2> QED
    BY <2>3, <2>7, <2>8
<1>8. OneShotInv /\ PollTimesOut => OneShotInv'
  <2>1. Error("PROVIDER_UNAVAILABLE", TRUE) \in ShotErrors
    BY DEF ShotErrors, ErrorTypes, Error
  <2> QED
    BY <1>3, <2>1 DEF PollTimesOut, During, ShotOutcomes
<1>9. OneShotInv /\ TranscribeAudio => OneShotInv'
  <2> SUFFICES ASSUME OneShotInv, TranscribeAudio PROVE OneShotInv'
    OBVIOUS
  <2>1. Error("SESSION_INVALID_AUDIO", FALSE) \in ShotErrors
    BY DEF ShotErrors, ErrorTypes, Error
  <2>2. \A audio : Errored(LoadAudio(audio)) => LoadAudio(audio) \in ShotErrors
    BY <2>1 DEF LoadAudio, Errored, Completed
  <2>3. /\ OneShot /\ scenario.stage = "called" /\ scenario.op = "transcription"
        /\ \/ \E audio : Errored(LoadAudio(audio)) /\ scenario' = Ended(LoadAudio(audio))
           \/ \E status \in Statuses \cup {NoStatus} : scenario' = Ended(OfStatus(status))
           \/ scenario' = Ended(Completed("text"))
    BY DEF TranscribeAudio, During
  <2>4. Completed("text") \in ShotOutcomes(scenario.op)
    BY <2>3 DEF ShotOutcomes, Payload
  <2>5. ShotErrors \subseteq ShotOutcomes(scenario.op)
    BY DEF ShotOutcomes
  <2> QED
    BY <1>3, <2>2, <2>3, <2>4, <2>5, StatusErrors
<1>10. ASSUME OneShotInv, Relay
       PROVE  OneShotInv'
  <2> DEFINE outcome == scenario.outcome
             reply == IF Errored(outcome) THEN ErrorReply(outcome) ELSE Reply(200, outcome)
  <2>1. DOMAIN scenario = ShotFields /\ OneShotOK(scenario) /\ PollsOK(scenario) /\ scenario.stage = "ran"
    BY <1>10 DEF OneShotInv, Relay, During
  <2>2. Carries(reply, outcome)
    BY DEF Carries, ErrorReply, Reply
  <2>3. scenario' = [scenario EXCEPT !.stage = "replied", !.reply = reply]
    BY <1>10 DEF Relay
  <2> HIDE DEF reply
  <2>4. /\ DOMAIN scenario' = ShotFields /\ scenario'.stage = "replied" /\ scenario'.reply = reply
        /\ scenario'.outcome = outcome /\ scenario'.op = scenario.op
        /\ scenario'.clock = scenario.clock /\ scenario'.polls = scenario.polls
    BY <2>1, <2>3 DEF ShotFields
  <2>5. OneShotOK(scenario') /\ PollsOK(scenario')
    BY <2>1, <2>2, <2>4 DEF OneShotOK, PollsOK
  <2> QED
    BY <2>4, <2>5 DEF OneShotInv
<1>11. ASSUME OneShotInv, ExchangeFails
       PROVE  OneShotInv'
  <2>1. DOMAIN scenario = ShotFields /\ OneShotOK(scenario) /\ PollsOK(scenario)
    BY <1>11 DEF OneShotInv, ExchangeFails
  <2>2. PICK error \in ExchangeFailures :
            scenario' = [scenario EXCEPT !.stage = "replied", !.outcome = error, !.reply = Reply(500, error)]
    BY <1>11 DEF ExchangeFails
  <2>3. error \in ShotErrors
    <3>1. \A type \in ErrorTypes, retryable \in BOOLEAN : Error(type, retryable) \in ShotErrors
      BY DEF Error, ShotErrors
    <3>2. {"SESSION_POOL_CLOSED", "SESSION_STDIN_WRITE_FAILED", "SESSION_DIED", "SESSION_IO_ERROR",
           "SESSION_INVALID_EVENT"} \subseteq ErrorTypes
      BY DEF ErrorTypes
    <3>3. \E type \in ErrorTypes, retryable \in BOOLEAN : error = Error(type, retryable)
      BY <2>2, <3>2, Zenon DEF ExchangeFailures
    <3> QED
      BY <3>1, <3>3
  <2>4. Carries(Reply(500, error), error)
    BY <2>3 DEF Carries, Reply, Errored, ShotErrors, ErrorTypes
  <2>5. /\ DOMAIN scenario' = ShotFields /\ scenario'.stage = "replied" /\ scenario'.reply = Reply(500, error)
        /\ scenario'.outcome = error /\ scenario'.op = scenario.op
        /\ scenario'.clock = scenario.clock /\ scenario'.polls = scenario.polls
    BY <2>1, <2>2 DEF ShotFields
  <2>6. OneShotOK(scenario') /\ PollsOK(scenario')
    BY <2>1, <2>3, <2>4, <2>5 DEF OneShotOK, PollsOK, ShotOutcomes
  <2> QED
    BY <2>5, <2>6 DEF OneShotInv
<1>12. ASSUME OneShotInv, CallImage \/ CallTranscription
       PROVE  OneShotInv'
  <2>1. /\ DOMAIN scenario = ShotFields /\ OneShotOK(scenario) /\ PollsOK(scenario)
        /\ scenario.stage = "replied"
        /\ scenario' = [scenario EXCEPT !.stage = "told", !.told = ReadReply(scenario.reply, Payload(scenario.op))]
    BY <1>12 DEF OneShotInv, CallImage, CallTranscription, During, Payload
  <2>2. scenario.outcome \in ShotOutcomes(scenario.op) /\ Carries(scenario.reply, scenario.outcome)
    BY <2>1 DEF OneShotOK
  <2>3. ReadReply(scenario.reply, Payload(scenario.op)) = scenario.outcome
    <3>1. CASE Errored(scenario.outcome)
      BY <2>2, <3>1 DEF ReadReply, ParseErrorBody, Carries
    <3>2. CASE ~Errored(scenario.outcome)
      <4>1. scenario.outcome = Completed(Payload(scenario.op))
        BY <2>2, <3>2 DEF ShotOutcomes, ShotErrors, ErrorTypes, Errored
      <4> QED
        BY <2>2, <3>2, <4>1 DEF ReadReply, Carries
    <3> QED
      BY <3>1, <3>2
  <2>4. /\ DOMAIN scenario' = ShotFields /\ scenario'.stage = "told" /\ scenario'.told = scenario.outcome
        /\ scenario'.outcome = scenario.outcome /\ scenario'.op = scenario.op
        /\ scenario'.clock = scenario.clock /\ scenario'.polls = scenario.polls
    BY <2>1, <2>3 DEF ShotFields
  <2>5. OneShotOK(scenario') /\ PollsOK(scenario')
    BY <2>1, <2>2, <2>4 DEF OneShotOK, PollsOK
  <2> QED
    BY <2>4, <2>5 DEF OneShotInv
<1>13. OneShotInv /\ [OneShotNext \/ Elsewhere("one-shot")]_scenario => OneShotInv'
  <2>1. ASSUME OneShotInv, Elsewhere("one-shot") PROVE OneShotInv'
    BY <2>1 DEF Elsewhere, OneShotInv, OneShot
  <2>2. ASSUME OneShotInv, UNCHANGED scenario PROVE OneShotInv'
    BY <2>2 DEF OneShotInv, OneShot
  <2> QED
    BY <1>2, <1>4, <1>5, <1>6, <1>7, <1>8, <1>9, <1>10, <1>11, <1>12, <2>1, <2>2 DEF OneShotNext
<1> QED
  BY <1>1, <1>13, PTL DEF OneShotSpec

\* run_image.js, run_transcription.js, server.rs and js/client: whichever adapter, status
\* or broken exchange a call meets, its caller is told what it came to, with the same
\* advice to retry, and the polls of a task end by its deadline, for any deadline,
\* interval and length of a fetch.
LEMMA OneShotsPart == OneShotSpec => [](ToldAsItEnded /\ PollingEnds)
<1>1. OneShotInv => ToldAsItEnded /\ PollingEnds
  BY DEF OneShotInv, OneShotOK, PollsOK, ToldAsItEnded, PollingEnds, During
<1> QED
  BY <1>1, OneShotInvariant, PTL

-----------------------------------------------------------------------------
(* The commands on the catalog, and on the file of the keys.               *)

CommandsNext == OpenCatalog \/ SetField \/ RemoveField \/ AddModel

CommandEntries == [Fields -> JsonValues \cup {Undefined}]
Commands == [id : CatalogIds \cup {""}, field : Fields, value : JsonValues \cup {Undefined}]
CommandCases ==
    [kind : {"commands"}, ran : Nat, last : Commands, catalog : [CatalogIds -> CommandEntries]]

\* A field has nothing, or something of a type that set accepts.
FieldsOK(entry) == \A field \in Fields : entry[field] = Undefined \/ AcceptsType(field, entry[field])

\* What the last command set is still there for the id it was given.
LastOK(s) ==
    (s.last.id # "" /\ s.last.field # "deprecated") =>
        s.catalog[UseId(s.catalog, s.last.id)][s.last.field] = s.last.value

\* What set and rm do to a catalog.
WithField(catalog, id, field, value) == [catalog EXCEPT ![id][field] = value]

CommandsInv ==
    Commanding =>
        /\ scenario \in CommandCases
        /\ \A id \in CatalogIds : FieldsOK(scenario.catalog[id])
        /\ LastOK(scenario)

\* What names are not.
LEMMA NamesApart ==
    /\ Undefined \notin JsonValues
    /\ \A id \in CatalogIds : id \notin {"text", "", Undefined} \cup OtherValues
BY CommandsAssumption DEF JsonValues, Strings, OtherValues, Undefined

\* The fields, and what set accepts for each.
LEMMA FieldTypes ==
    /\ Fields = {"model", "creator", "inputPrice", "rpmLimit", "thinkingEffortLevels", "deprecated", "supportsTools", "inputFormat"}
    /\ \A field \in Fields :
        /\ FieldDefs[field].required <=> field \in {"model", "creator", "inputFormat"}
        /\ FieldDefs[field].nullable <=> field = "thinkingEffortLevels"
        /\ FieldDefs[field].altType = IF field = "inputPrice" THEN "object" ELSE "none"
        /\ FieldDefs[field].type = CASE field \in {"inputPrice", "rpmLimit"} -> "number"
                                     [] field = "thinkingEffortLevels" -> "object"
                                     [] field = "inputFormat" -> "array"
                                     [] field = "supportsTools" -> "boolean"
                                     [] field \in {"model", "creator", "deprecated"} -> "string"
BY DEF Fields, FieldDefs

\* A value that set accepts has no error, but for a null where an object may be, and
\* for one of a type that cannot be checked.
LEMMA AcceptedIsValid ==
    ASSUME NEW field \in Fields, NEW value \in JsonValues, AcceptsType(field, value), ~CheckType(value, FieldDefs[field])
    PROVE  \/ value = "null" /\ FieldDefs[field].altType = "object"
           \/ TypeOf(value) = FieldDefs[field].type /\ FieldDefs[field].type \notin TypeCheckers
<1>1. CASE value = "null"
  <2>1. TypeOf(value) = "object"
    BY <1>1, NamesApart DEF TypeOf, Strings, OtherValues
  <2>2. "object" \in {FieldDefs[field].type, FieldDefs[field].altType}
    BY <2>1 DEF AcceptsType
  <2>3. FieldDefs[field].type = "object" => FieldDefs[field].nullable
    BY FieldTypes
  <2> QED
    BY <1>1, <2>2, <2>3 DEF CheckType
<1>2. CASE value # "null"
  <2>1. TypeOf(value) \in {FieldDefs[field].type, FieldDefs[field].altType} /\ TypeOf(value) \notin TypeCheckers
    BY <1>2 DEF AcceptsType, CheckType
  <2>2. FieldDefs[field].altType \in {"object", "none"}
    BY FieldTypes
  <2>3. TypeOf(value) # "none"
    <3>1. value \in Strings \/ value \in OtherValues
      BY DEF JsonValues
    <3>2. CASE value \in Strings
      BY <3>2 DEF TypeOf
    <3>3. CASE value \in OtherValues
      BY <3>3, <1>2, NamesApart DEF TypeOf, OtherValues, Strings
    <3> QED
      BY <3>1, <3>2, <3>3
  <2> QED
    BY <2>1, <2>2, <2>3 DEF TypeCheckers
<1> QED
  BY <1>1, <1>2

\* Entries that are there stay apart from the one that is not.
LEMMA NoEntryFields ==
    /\ NoEntry \in CommandEntries /\ \A field \in Fields : NoEntry[field] = Undefined
    /\ FieldsOK(NoEntry)
    /\ NewEntry \in CommandEntries /\ FieldsOK(NewEntry)
<1>1. NoEntry \in CommandEntries /\ \A field \in Fields : NoEntry[field] = Undefined
  BY DEF NoEntry, CommandEntries
<1>2. NewEntry \in CommandEntries
  BY <1>1, FieldTypes DEF NewEntry, CommandEntries, JsonValues, Strings, OtherValues
<1>3. /\ NewEntry["model"] = "text" /\ NewEntry["creator"] = "text" /\ NewEntry["inputFormat"] = "array"
      /\ \A field \in Fields \ {"model", "creator", "inputFormat"} : NewEntry[field] = Undefined
  BY <1>1, FieldTypes DEF NewEntry, CommandEntries
<1>4. TypeOf("text") = "string" /\ TypeOf("array") = "array"
  BY NamesApart DEF TypeOf, Strings, OtherValues
<1>5. FieldsOK(NewEntry)
  BY <1>3, <1>4, FieldTypes DEF FieldsOK, AcceptsType
<1> QED
  BY <1>1, <1>2, <1>5 DEF FieldsOK

\* use() leads to a model of the catalog, or to none.
LEMMA UsedIsThere ==
    ASSUME NEW catalog, NEW id
    PROVE  /\ UseId(catalog, id) = "" \/ (UseId(catalog, id) \in LedTo(catalog, id) /\ UseId(catalog, id) \in CatalogIds)
           /\ UseId(catalog, id) # "" =>
                In(catalog, UseId(catalog, id)) /\ ~Deprecated(catalog[UseId(catalog, id)])
BY DEF UseId, LedTo

\* It leads nowhere else when no replacement changes and no model comes or goes.
LEMMA SameUse ==
    ASSUME NEW catalog, NEW other, NEW id,
           \A m \in CatalogIds : catalog[m].deprecated = other[m].deprecated,
           \A m : In(catalog, m) <=> In(other, m)
    PROVE  UseId(catalog, id) = UseId(other, id)
<1>1. \A m \in CatalogIds : Deprecated(catalog[m]) <=> Deprecated(other[m])
  BY DEF Deprecated
<1>2. LedTo(catalog, id) = LedTo(other, id)
  BY <1>1 DEF LedTo
<1> DEFINE current(c) == {m \in LedTo(c, id) : In(c, m) /\ ~Deprecated(c[m])}
<1>3. current(catalog) = current(other)
  BY <1>1, <1>2 DEF LedTo
<1>4. \A c : UseId(c, id) = IF current(c) = {} THEN "" ELSE CHOOSE m \in current(c) : TRUE
  BY DEF UseId
<1> HIDE DEF current
<1> QED
  BY <1>3, <1>4

\* Every command keeps the invariant.
LEMMA CommandsStep == CommandsInv /\ CommandsNext => CommandsInv' /\ Commanding'
<1>2. NothingAsked \in Commands /\ NothingAsked.id = ""
  BY FieldTypes DEF NothingAsked, Command, Commands
<1>3. OpenCatalog => CommandsInv' /\ Commanding'
  <2> SUFFICES ASSUME OpenCatalog PROVE CommandsInv' /\ Commanding'
    OBVIOUS
  <2>1. PICK present \in SUBSET CatalogIds :
            scenario' = [kind |-> "commands", ran |-> 0, last |-> NothingAsked,
                         catalog |-> [id \in CatalogIds |-> IF id \in present THEN NewEntry ELSE NoEntry]]
    BY DEF OpenCatalog
  <2> DEFINE catalog == [id \in CatalogIds |-> IF id \in present THEN NewEntry ELSE NoEntry]
  <2>2. catalog \in [CatalogIds -> CommandEntries] /\ \A id \in CatalogIds : FieldsOK(catalog[id])
    BY NoEntryFields
  <2>3. scenario' = [kind |-> "commands", ran |-> 0, last |-> NothingAsked, catalog |-> catalog]
    BY <2>1
  <2> HIDE DEF catalog
  <2>4. scenario' \in CommandCases /\ scenario'.catalog = catalog /\ scenario'.last = NothingAsked
    BY <1>2, <2>2, <2>3 DEF CommandCases
  <2> QED
    BY <1>2, <2>2, <2>4 DEF CommandsInv, LastOK, CommandCases, Commanding
<1>4. ASSUME CommandsInv, MayRun, NEW catalog \in [CatalogIds -> CommandEntries], NEW last \in Commands,
             After(catalog, last), \A id \in CatalogIds : FieldsOK(catalog[id]),
             (last.id # "" /\ last.field # "deprecated") => catalog[UseId(catalog, last.id)][last.field] = last.value
      PROVE  CommandsInv' /\ Commanding'
  <2>1. scenario \in CommandCases /\ scenario' = [scenario EXCEPT !.ran = @ + 1, !.last = last, !.catalog = catalog]
    BY <1>4 DEF CommandsInv, MayRun, After
  <2>2. scenario.ran + 1 \in Nat
    BY <2>1 DEF CommandCases
  <2>3. scenario' \in CommandCases /\ scenario'.catalog = catalog /\ scenario'.last = last
    BY <1>4, <2>1, <2>2 DEF CommandCases
  <2> QED
    BY <1>4, <2>3 DEF CommandsInv, LastOK, CommandCases, Commanding
<1>5. ASSUME CommandsInv, MayRun, NEW used \in CatalogIds, NEW field \in Fields,
             NEW value \in JsonValues \cup {Undefined}, value = Undefined \/ AcceptsType(field, value)
      PROVE  /\ WithField(Catalog, used, field, value) \in [CatalogIds -> CommandEntries]
             /\ WithField(Catalog, used, field, value)[used][field] = value
             /\ \A id \in CatalogIds : FieldsOK(WithField(Catalog, used, field, value)[id])
             /\ \A id \in CatalogIds, f \in Fields :
                    ~(id = used /\ f = field) => WithField(Catalog, used, field, value)[id][f] = Catalog[id][f]
  <2> DEFINE catalog == WithField(Catalog, used, field, value)
             entry == [Catalog[used] EXCEPT ![field] = value]
  <2>1. Catalog \in [CatalogIds -> CommandEntries] /\ \A id \in CatalogIds : FieldsOK(Catalog[id])
    BY <1>5 DEF CommandsInv, MayRun, CommandCases, Catalog
  <2>2. Catalog[used] \in CommandEntries
    BY <1>5, <2>1
  <2>3. /\ entry \in CommandEntries /\ entry[field] = value
        /\ \A f \in Fields : f # field => entry[f] = Catalog[used][f]
    BY <1>5, <2>2 DEF CommandEntries
  <2>4. catalog = [Catalog EXCEPT ![used] = entry]
    BY <1>5, <2>1 DEF WithField
  <2> HIDE DEF entry, catalog
  <2>5. FieldsOK(entry)
    BY <1>5, <2>1, <2>3 DEF FieldsOK
  <2>6. /\ catalog \in [CatalogIds -> CommandEntries] /\ catalog[used] = entry
        /\ \A id \in CatalogIds : id # used => catalog[id] = Catalog[id]
    BY <1>5, <2>1, <2>3, <2>4
  <2>7. \A id \in CatalogIds : FieldsOK(catalog[id])
    BY <2>1, <2>5, <2>6
  <2>8. \A id \in CatalogIds, f \in Fields : ~(id = used /\ f = field) => catalog[id][f] = Catalog[id][f]
    BY <2>3, <2>6
  <2> QED
    BY <2>3, <2>6, <2>7, <2>8 DEF catalog
<1>6. ASSUME CommandsInv, SetField
      PROVE  CommandsInv' /\ Commanding'
  <2>0. PICK id \in CatalogIds, field \in Fields :
            \E value \in {CoerceValue(field, raw) : raw \in RawValues} \cup JsonValues :
                /\ MayRun /\ UseId(Catalog, id) # "" /\ AcceptsType(field, value)
                /\ After([Catalog EXCEPT ![UseId(Catalog, id)][field] = value], Command(id, field, value))
    BY <1>6 DEF SetField
  <2>1. PICK value \in {CoerceValue(field, raw) : raw \in RawValues} \cup JsonValues :
            /\ MayRun /\ UseId(Catalog, id) # "" /\ AcceptsType(field, value)
            /\ After([Catalog EXCEPT ![UseId(Catalog, id)][field] = value], Command(id, field, value))
    BY <2>0
  <2> DEFINE used == UseId(Catalog, id)
             catalog == WithField(Catalog, used, field, value)
             last == Command(id, field, value)
  <2>2. value \in JsonValues /\ value # Undefined
    BY NamesApart DEF CoerceValue, RawValues, JsonValues, OtherValues
  <2>3. used \in CatalogIds /\ In(Catalog, used)
    BY <2>1, UsedIsThere
  <2>4. last \in Commands /\ last.id = id /\ last.field = field /\ last.value = value
    BY <2>2 DEF Commands, Command
  <2> HIDE DEF used, last
  <2>5. value \in JsonValues \cup {Undefined}
    BY <2>2
  <2>6. After(catalog, last) /\ MayRun /\ AcceptsType(field, value) /\ field \in Fields
    BY <2>0, <2>1 DEF used, last, WithField
  <2>7. /\ catalog \in [CatalogIds -> CommandEntries] /\ catalog[used][field] = value
        /\ \A i \in CatalogIds : FieldsOK(catalog[i])
        /\ \A i \in CatalogIds, f \in Fields : ~(i = used /\ f = field) => catalog[i][f] = Catalog[i][f]
    BY <1>5, <1>6, <2>3, <2>5, <2>6
  <2> HIDE DEF catalog
  <2>8. Catalog \in [CatalogIds -> CommandEntries]
    BY <1>6, <2>1 DEF CommandsInv, MayRun, CommandCases, Catalog
  <2>9. ASSUME field # "deprecated" PROVE UseId(catalog, id) = used
    <3>1. \A m \in CatalogIds : Catalog[m].deprecated = catalog[m].deprecated
      BY <2>7, <2>9, FieldTypes
    <3>2. catalog[used] # NoEntry
      BY <2>2, <2>7, NoEntryFields
    <3>3. \A m \in CatalogIds : m # used => catalog[m] = Catalog[m]
      BY <2>7, <2>8 DEF CommandEntries
    <3>4. \A m : In(Catalog, m) <=> In(catalog, m)
      BY <2>3, <3>2, <3>3 DEF In
    <3> QED
      BY <3>1, <3>4, SameUse DEF used
  <2> QED
    BY <1>4, <1>6, <2>1, <2>4, <2>6, <2>7, <2>9
<1>7. ASSUME CommandsInv, RemoveField
      PROVE  CommandsInv' /\ Commanding'
  <2>1. PICK id \in CatalogIds, field \in Fields :
            /\ MayRun /\ UseId(Catalog, id) # ""
            /\ After([Catalog EXCEPT ![UseId(Catalog, id)][field] = Undefined], NothingAsked)
    BY <1>7 DEF RemoveField
  <2> DEFINE used == UseId(Catalog, id)
             catalog == WithField(Catalog, used, field, Undefined)
  <2>2. used \in CatalogIds
    BY <2>1, UsedIsThere
  <2>3. After(catalog, NothingAsked)
    BY <2>1 DEF WithField
  <2> HIDE DEF used
  <2>4. catalog \in [CatalogIds -> CommandEntries] /\ \A i \in CatalogIds : FieldsOK(catalog[i])
    BY <1>5, <1>7, <2>1, <2>2
  <2> HIDE DEF catalog
  <2> QED
    BY <1>2, <1>4, <1>7, <2>1, <2>3, <2>4
<1>8. ASSUME CommandsInv, AddModel
      PROVE  CommandsInv' /\ Commanding'
  <2>1. PICK id \in CatalogIds, entry \in PromptedEntries :
            MayRun /\ After([Catalog EXCEPT ![id] = entry], NothingAsked)
    BY <1>8 DEF AddModel
  <2> DEFINE catalog == [scenario.catalog EXCEPT ![id] = entry]
  <2>2. scenario.catalog \in [CatalogIds -> CommandEntries] /\ \A i \in CatalogIds : FieldsOK(scenario.catalog[i])
    BY <1>8, <2>1 DEF CommandsInv, MayRun, CommandCases
  <2>3. entry \in CommandEntries /\ FieldsOK(entry)
    <3>1. /\ DOMAIN entry = Fields
          /\ \A field \in Fields : entry[field] \in {NewEntry[field], Undefined}
      <4>1. DOMAIN NewEntry = Fields
        BY NoEntryFields DEF CommandEntries
      <4> QED
        BY <4>1 DEF PromptedEntries
    <3>2. entry \in CommandEntries
      <4>1. entry = [field \in Fields |-> entry[field]]
        BY <3>1, NoEntryFields DEF PromptedEntries, CommandEntries
      <4> QED
        BY <3>1, <4>1, NoEntryFields DEF CommandEntries
    <3> QED
      BY <3>1, <3>2, NoEntryFields DEF FieldsOK
  <2>4. catalog \in [CatalogIds -> CommandEntries] /\ \A i \in CatalogIds : FieldsOK(catalog[i])
    BY <2>2, <2>3
  <2>5. After(catalog, NothingAsked)
    BY <2>1 DEF Catalog
  <2> HIDE DEF catalog
  <2> QED
    BY <1>2, <1>4, <1>8, <2>1, <2>4, <2>5
<1> QED
  BY <1>3, <1>6, <1>7, <1>8 DEF CommandsNext

\* A catalog without missing replacements leads from each of its models to a current
\* one or into a circle: the models that lead to none.
LEMMA UsableOrCircle ==
    ASSUME Commanding, CheckLocal = {}
    PROVE  LET circle == {m \in CatalogIds : In(Catalog, m) /\ UseId(Catalog, m) = ""}
           IN  \A m \in circle : Deprecated(Catalog[m]) /\ Catalog[m].deprecated \in circle
<1> SUFFICES ASSUME NEW m \in CatalogIds, In(Catalog, m), UseId(Catalog, m) = ""
             PROVE  /\ Deprecated(Catalog[m])
                    /\ Catalog[m].deprecated \in CatalogIds /\ In(Catalog, Catalog[m].deprecated)
                    /\ UseId(Catalog, Catalog[m].deprecated) = ""
  OBVIOUS
<1> DEFINE current(id) == {one \in LedTo(Catalog, id) : In(Catalog, one) /\ ~Deprecated(Catalog[one])}
           next == Catalog[m].deprecated
<1>1. \A id : UseId(Catalog, id) = "" <=> current(id) = {}
  <2>1. ASSUME NEW id, current(id) # {} PROVE UseId(Catalog, id) # ""
    <3>1. UseId(Catalog, id) \in current(id)
      BY <2>1 DEF UseId
    <3> QED
      BY <3>1, NamesApart DEF LedTo
  <2> QED
    BY <2>1 DEF UseId
<1>2. m \in LedTo(Catalog, m)
  BY DEF LedTo
<1>3. Deprecated(Catalog[m])
  BY <1>1, <1>2
<1>4. In(Catalog, next) /\ next \in CatalogIds
  BY <1>3 DEF CheckLocal, MissingTarget, In
<1>5. LedTo(Catalog, next) \subseteq LedTo(Catalog, m)
  BY <1>3, <1>4 DEF LedTo
<1> QED
  BY <1>1, <1>3, <1>4, <1>5

\* The commands' part of CommandsAgree.
LEMMA CommandsKept == CommandsInv => CommandsKeepSchema /\ GetGivesSet /\ CheckedIsUsable /\ DoctorAgrees
<1>1. CommandsInv => CommandsKeepSchema
  <2> SUFFICES ASSUME CommandsInv, Commanding, NEW id \in CatalogIds, NEW field \in SchemaErrors(Catalog[id])
               PROVE  \/ Catalog[id][field] = "null" /\ FieldDefs[field].altType = "object"
                      \/ FieldDefs[field].required /\ Catalog[id][field] \in {"", Undefined}
                      \/ /\ TypeOf(Catalog[id][field]) = FieldDefs[field].type
                         /\ FieldDefs[field].type \notin TypeCheckers
    BY DEF CommandsKeepSchema
  <2>1. field \in Fields /\ (Catalog[id][field] = Undefined \/ AcceptsType(field, Catalog[id][field]))
    BY DEF CommandsInv, FieldsOK, Catalog, SchemaErrors
  <2>2. CASE ~CheckType(Catalog[id][field], FieldDefs[field]) /\ Catalog[id][field] # Undefined
    <3>1. Catalog[id][field] \in JsonValues
      BY <2>1, <2>2 DEF CommandsInv, CommandCases, CommandEntries, Catalog
    <3> QED
      BY <2>1, <2>2, <3>1, AcceptedIsValid
  <2>3. CASE CheckType(Catalog[id][field], FieldDefs[field]) \/ Catalog[id][field] = Undefined
    <3>1. FieldDefs[field].required /\ Catalog[id][field] \in {Undefined, "null", ""}
      BY <2>3 DEF SchemaErrors
    <3>2. Catalog[id][field] = "null" => FALSE
      <4>1. ~FieldDefs[field].nullable /\ "null" # Undefined
        BY <2>1, <3>1, FieldTypes DEF Undefined
      <4> QED
        BY <2>3, <4>1 DEF CheckType
    <3> QED
      BY <3>1, <3>2
  <2> QED
    BY <2>2, <2>3
<1>2. CommandsInv => GetGivesSet
  BY DEF CommandsInv, LastOK, GetGivesSet, Get, Catalog
<1>3. CheckedIsUsable
  <2> SUFFICES ASSUME Commanding, CheckLocal = {}, NEW id \in CatalogIds, In(Catalog, id), UseId(Catalog, id) = ""
               PROVE  \E circle \in SUBSET CatalogIds :
                        id \in circle /\ \A m \in circle : Deprecated(Catalog[m]) /\ Catalog[m].deprecated \in circle
    BY DEF CheckedIsUsable
  <2> DEFINE circle == {m \in CatalogIds : In(Catalog, m) /\ UseId(Catalog, m) = ""}
  <2>1. \A m \in circle : Deprecated(Catalog[m]) /\ Catalog[m].deprecated \in circle
    BY UsableOrCircle
  <2>2. circle \in SUBSET CatalogIds /\ id \in circle
    OBVIOUS
  <2> QED
    BY <2>1, <2>2
<1>4. DoctorAgrees
  BY DEF DoctorAgrees, Doctor, CheckLocal
<1> QED
  BY <1>1, <1>2, <1>3, <1>4

-----------------------------------------------------------------------------
(* The file of the keys.                                                   *)

KeysNext == StartCli \/ NextCli \/ Onboard \/ SetupProvider \/ RemoveProvider

KeyValues == Secrets \cup {"", "the old line"}
KeyLines == [name : KeyNames, value : KeyValues]
EnvValues == KeyValues \cup {NotSet, "exported"}
KeyCases ==
    [kind : {"keys"}, lines : Seq(KeyLines), shell : [KeyNames -> {NotSet, "exported"}], saves : Nat,
     env : [KeyNames -> EnvValues], meant : [KeyNames -> EnvValues], before : [KeyNames -> EnvValues],
     set : KeyNames \cup {NotSet}, loaded : BOOLEAN]

\* A key is what was meant, in a file that has one line at most for it.
KeptOK(lines, meant, name) ==
    \/ Cardinality(LinesFor(lines, name)) > 1
    \/ InFile(lines, name) \in {meant[name], "the old line"}

\* A process that has saved nothing has its shell's names and the file's as it is; one
\* that has loaded what it saved has the name, unless it had it before.
LoadedOK(s) ==
    /\ s.set = NotSet => ~s.loaded /\ s.env = LoadEnvFile(s.shell, s.lines)
    /\ (s.loaded /\ s.before[s.set] = NotSet) => s.env[s.set] = s.meant[s.set]

KeysInv ==
    WithFile =>
        /\ scenario \in KeyCases
        /\ \A name \in KeyNames : KeptOK(scenario.lines, scenario.meant, name)
        /\ LoadedOK(scenario)

\* A name that has lines has a last one, which is the line that counts.
LEMMA LastLine ==
    ASSUME NEW lines \in Seq(KeyLines), NEW name, LinesFor(lines, name) # {}
    PROVE  \E i \in LinesFor(lines, name) :
              /\ \A j \in LinesFor(lines, name) : j <= i
              /\ InFile(lines, name) = lines[i].value /\ InFile(lines, name) \in KeyValues
<1> DEFINE found == LinesFor(lines, name)
           after == {Len(lines) - i : i \in found}
<1>1. found \subseteq 1 .. Len(lines) /\ Len(lines) \in Nat
  BY DEF LinesFor
<1>2. after \in SUBSET Nat /\ after # {}
  BY <1>1
<1>3. PICK n \in after : \A m \in after : n <= m
  BY <1>2, LeastOf
<1>4. PICK i \in found : n = Len(lines) - i
  OBVIOUS
<1>5. ASSUME NEW j \in found PROVE j <= i
  <2>1. Len(lines) - j \in after
    OBVIOUS
  <2>2. n <= Len(lines) - j
    BY <1>3, <2>1
  <2> QED
    BY <1>1, <1>4, <2>2
<1> DEFINE last == CHOOSE k \in found : \A j \in found : j <= k
<1>6. last \in found /\ \A j \in found : j <= last
  BY <1>5
<1>7. InFile(lines, name) = lines[last].value
  BY DEF InFile
<1>8. lines[last] \in KeyLines
  BY <1>1, <1>6
<1>9. lines[last].value \in KeyValues
  BY <1>8 DEF KeyLines
<1> QED
  BY <1>6, <1>7, <1>9

\* What a save makes of the file: the name's first line, or a new one, has the value.
LEMMA FileSaved ==
    ASSUME NEW lines \in Seq(KeyLines), NEW name \in KeyNames, NEW value \in KeyValues,
           NEW new, new = AppendToEnvFile(lines, name, value)
    PROVE  /\ new \in Seq(KeyLines)
           /\ \A other \in KeyNames : other # name =>
                /\ LinesFor(new, other) = LinesFor(lines, other)
                /\ InFile(new, other) = InFile(lines, other)
           /\ LinesFor(lines, name) = {} => InFile(new, name) = value
           /\ Cardinality(LinesFor(new, name)) > 1 \/ InFile(new, name) \in {value, "the old line"}
<1> DEFINE found == LinesFor(lines, name)
<1>1. found \subseteq 1 .. Len(lines) /\ Len(lines) \in Nat /\ DOMAIN lines = 1 .. Len(lines)
  BY DEF LinesFor
<1>2. found = {i \in DOMAIN lines : Matches(lines[i], name)}
  BY DEF LinesFor, Matches
<1>3. /\ new \in Seq(KeyLines) /\ DOMAIN lines \subseteq DOMAIN new
      /\ \A i \in DOMAIN new : new[i] = (IF i \in DOMAIN lines THEN lines[i] ELSE Line(name, value)) \/ new[i].name = name
      /\ \A i \in DOMAIN new : i \notin DOMAIN lines => new[i].name = name
      /\ \A i \in DOMAIN lines : new[i].name = lines[i].name /\ (lines[i].name # name => new[i] = lines[i])
      /\ found = {} => LinesFor(new, name) = {Len(lines) + 1} /\ new[Len(lines) + 1].value = value
      /\ found # {} => LinesFor(new, name) = found /\ \E i \in found : new[i].value \in {value, "the old line"}
  <2>1. CASE found = {}
    <3>1. new = Append(lines, Line(name, value))
      BY <1>2, <2>1 DEF AppendToEnvFile
    <3>2. Line(name, value) \in KeyLines
      BY DEF Line, KeyLines
    <3>3. /\ new \in Seq(KeyLines) /\ DOMAIN new = 1 .. Len(lines) + 1
          /\ \A i \in DOMAIN lines : new[i] = lines[i]
          /\ new[Len(lines) + 1] = Line(name, value)
      BY <1>1, <3>1, <3>2
    <3>4. Line(name, value).name = name /\ Line(name, value).value = value
      BY DEF Line
    <3>5. LinesFor(new, name) = {Len(lines) + 1}
      BY <1>1, <2>1, <3>3, <3>4 DEF LinesFor
    <3> QED
      BY <1>1, <2>1, <3>3, <3>4, <3>5
  <2>2. CASE found # {}
    <3> DEFINE first == CHOOSE i \in found : \A j \in found : i <= j
               put == IF value = "$&" THEN "the old line" ELSE value
    <3>1. \E i \in found : \A j \in found : i <= j
      BY <1>1, <2>2, LeastOf
    <3>2. first \in found
      BY <3>1
    <3>3. new = [lines EXCEPT ![first] = Line(name, put)]
      BY <1>2, <2>2 DEF AppendToEnvFile
    <3>4. put \in KeyValues /\ put \in {value, "the old line"}
      BY DEF KeyValues
    <3> HIDE DEF put, first
    <3>5. Line(name, put) \in KeyLines /\ Line(name, put).name = name /\ Line(name, put).value = put
      BY <3>4 DEF Line, KeyLines
    <3>6. lines[first].name = name
      BY <3>2 DEF LinesFor
    <3> DEFINE one == Line(name, put)
    <3> HIDE DEF one
    <3>7. new = [lines EXCEPT ![first] = one] /\ one \in KeyLines /\ one.name = name /\ one.value = put
      BY <3>3, <3>5 DEF one
    <3>8. /\ new \in Seq(KeyLines) /\ DOMAIN new = DOMAIN lines
          /\ \A i \in DOMAIN lines : new[i] = IF i = first THEN one ELSE lines[i]
      BY <1>1, <3>2, <3>7
    <3>9. LinesFor(new, name) = found
      BY <3>6, <3>7, <3>8 DEF LinesFor
    <3> QED
      BY <1>1, <2>2, <3>2, <3>4, <3>6, <3>7, <3>8, <3>9
  <2> QED
    BY <2>1, <2>2
<1>4. ASSUME NEW other \in KeyNames, other # name
      PROVE  LinesFor(new, other) = LinesFor(lines, other) /\ InFile(new, other) = InFile(lines, other)
  <2>1. LinesFor(new, other) = LinesFor(lines, other)
    BY <1>3, <1>4 DEF LinesFor
  <2>2. CASE LinesFor(lines, other) = {}
    BY <2>1, <2>2 DEF InFile
  <2>3. CASE LinesFor(lines, other) # {}
    <3>1. PICK i \in LinesFor(lines, other) :
              (\A j \in LinesFor(lines, other) : j <= i) /\ InFile(lines, other) = lines[i].value
      BY <2>3, LastLine
    <3>2. PICK k \in LinesFor(new, other) :
              (\A j \in LinesFor(new, other) : j <= k) /\ InFile(new, other) = new[k].value
      <4>1. new \in Seq(KeyLines) /\ LinesFor(new, other) # {}
        BY <1>3, <2>1, <2>3
      <4> QED
        BY <4>1, LastLine
    <3>3. LinesFor(lines, other) \subseteq Nat
      BY <1>1 DEF LinesFor
    <3>4. i = k
      BY <2>1, <3>1, <3>2, <3>3
    <3>5. new[k] = lines[k]
      BY <1>3, <1>4, <2>1 DEF LinesFor
    <3> QED
      BY <2>1, <3>1, <3>2, <3>4, <3>5
  <2> QED
    BY <2>2, <2>3
<1>5. \E i \in LinesFor(new, name) : InFile(new, name) = new[i].value
  BY <1>3, LastLine
<1>6. CASE found = {}
  BY <1>3, <1>4, <1>5, <1>6
<1>7. CASE found # {}
  <2>1. PICK i \in found : new[i].value \in {value, "the old line"}
    BY <1>3, <1>7
  <2>2. PICK k \in found : InFile(new, name) = new[k].value
    BY <1>3, <1>5, <1>7
  <2>3. ASSUME i # k PROVE Cardinality(found) > 1
    <3>1. IsFiniteSet(found) /\ {i, k} \subseteq found
      <4>1. IsFiniteSet(1 .. Len(lines))
        BY <1>1, FS_Interval
      <4> QED
        BY <1>1, <4>1, FS_Subset, Zenon
    <3>2. Cardinality({i, k}) <= Cardinality(found)
      BY <3>1, FS_Subset
    <3>3. Cardinality({i, k}) = 2
      <4>1. IsFiniteSet({i}) /\ Cardinality({i}) = 1
        BY FS_Singleton
      <4> DEFINE both == {i} \cup {k}
      <4>2. both = {i, k} /\ k \notin {i}
        BY <2>3
      <4>3. Cardinality(both) = Cardinality({i}) + 1
        BY <4>1, <4>2, FS_AddElement, Zenon
      <4> HIDE DEF both
      <4>4. Cardinality(both) = 2
        BY <4>1, <4>3
      <4> QED
        BY <4>2, <4>4
    <3>4. Cardinality(found) \in Nat
      BY <3>1, FS_CardinalityType
    <3> QED
      BY <3>2, <3>3, <3>4
  <2> QED
    BY <1>3, <1>4, <1>7, <2>1, <2>2, <2>3
<1> QED
  BY <1>6, <1>7

\* A command saves a value for a name.
LEMMA KeySaved ==
    ASSUME NEW lines \in Seq(KeyLines), NEW meant \in [KeyNames -> EnvValues],
           NEW name \in KeyNames, NEW value \in KeyValues,
           \A n \in KeyNames : KeptOK(lines, meant, n),
           NEW new, new = AppendToEnvFile(lines, name, value),
           NEW now, now = [meant EXCEPT ![name] = value]
    PROVE  /\ new \in Seq(KeyLines) /\ now \in [KeyNames -> EnvValues] /\ now[name] = value
           /\ \A n \in KeyNames : KeptOK(new, now, n)
           /\ LinesFor(lines, name) = {} => InFile(new, name) = value
<1>0. new = AppendToEnvFile(lines, name, value) /\ lines \in Seq(KeyLines) /\ name \in KeyNames /\ value \in KeyValues
  OBVIOUS
<1>1. /\ new \in Seq(KeyLines)
      /\ \A other \in KeyNames : other # name =>
            /\ LinesFor(new, other) = LinesFor(lines, other)
            /\ InFile(new, other) = InFile(lines, other)
      /\ LinesFor(lines, name) = {} => InFile(new, name) = value
      /\ Cardinality(LinesFor(new, name)) > 1 \/ InFile(new, name) \in {value, "the old line"}
  BY <1>0, FileSaved
<1>2. /\ now \in [KeyNames -> EnvValues] /\ now[name] = value
      /\ \A n \in KeyNames : n # name => now[n] = meant[n]
  BY DEF EnvValues
<1>3. ASSUME NEW n \in KeyNames PROVE KeptOK(new, now, n)
  BY <1>1, <1>2 DEF KeptOK
<1> QED
  BY <1>1, <1>2, <1>3

\* What a process has loaded is of the kinds it may be, and a name that the file has is there.
LEMMA EnvLoaded ==
    ASSUME NEW env \in [KeyNames -> EnvValues], NEW lines \in Seq(KeyLines)
    PROVE  /\ LoadEnvFile(env, lines) \in [KeyNames -> EnvValues]
           /\ \A name \in KeyNames : InFile(lines, name) \in EnvValues
           /\ \A name \in KeyNames : LoadEnvFile(env, lines)[name] = NotSet => LinesFor(lines, name) = {}
<1>1. \A name \in KeyNames : LinesFor(lines, name) # {} => InFile(lines, name) \in KeyValues
  BY LastLine
<1>2. \A name \in KeyNames : LinesFor(lines, name) = {} => InFile(lines, name) = NotSet
  BY DEF InFile
<1>3. NotSet \notin KeyValues
  BY DEF NotSet, KeyValues, Secrets
<1>4. \A name \in KeyNames : InFile(lines, name) \in EnvValues
  BY <1>1, <1>2 DEF EnvValues
<1>5. \A name \in KeyNames :
        LoadEnvFile(env, lines)[name] = IF env[name] = NotSet THEN InFile(lines, name) ELSE env[name]
  BY DEF LoadEnvFile
<1>6. LoadEnvFile(env, lines) \in [KeyNames -> EnvValues]
  BY <1>4 DEF LoadEnvFile
<1> QED
  BY <1>1, <1>2, <1>3, <1>4, <1>5, <1>6

\* The file that a user wrote.
LEMMA ShortFile ==
    ASSUME NEW written, written \subseteq KeyLines, NEW lines, \E n \in 0 .. 2 : lines \in [1 .. n -> written]
    PROVE  lines \in Seq(KeyLines)
BY SeqMonotonic

\* So does every command that concerns the keys.
LEMMA KeysStep == KeysInv /\ KeysNext => KeysInv' /\ WithFile'
<1>2. ASSUME StartCli
      PROVE  KeysInv' /\ WithFile'
  <2>1. PICK lines \in UNION {[1 .. n -> [name : KeyNames, value : {"one", ""}]] : n \in 0 .. 2},
             shell \in [KeyNames -> {NotSet, "exported"}] :
            scenario' = [kind |-> "keys", lines |-> lines, shell |-> shell, saves |-> 0,
                         env |-> LoadEnvFile(shell, lines), meant |-> [name \in KeyNames |-> InFile(lines, name)],
                         before |-> shell, set |-> NotSet, loaded |-> FALSE]
    BY <1>2 DEF StartCli
  <2> DEFINE env == LoadEnvFile(shell, lines)
             meant == [name \in KeyNames |-> InFile(lines, name)]
  <2>2. lines \in Seq(KeyLines)
    <3> DEFINE written == [name : KeyNames, value : {"one", ""}]
    <3>1. written \subseteq KeyLines
      BY DEF KeyLines, KeyValues, Secrets
    <3> HIDE DEF written
    <3>2. \E n \in 0 .. 2 : lines \in [1 .. n -> written]
      BY <2>1 DEF written
    <3> QED
      BY <3>1, <3>2, ShortFile, Zenon
  <2>3. shell \in [KeyNames -> EnvValues]
    BY DEF EnvValues
  <2>4. env \in [KeyNames -> EnvValues] /\ meant \in [KeyNames -> EnvValues]
    BY <2>2, <2>3, EnvLoaded
  <2>5. scenario' = [kind |-> "keys", lines |-> lines, shell |-> shell, saves |-> 0, env |-> env, meant |-> meant,
                     before |-> shell, set |-> NotSet, loaded |-> FALSE]
    BY <2>1
  <2>6. \A name \in KeyNames : meant[name] = InFile(lines, name)
    OBVIOUS
  <2>7. env = LoadEnvFile(shell, lines)
    OBVIOUS
  <2> HIDE DEF env, meant
  <2>8. scenario' \in KeyCases
    BY <2>2, <2>3, <2>4, <2>5 DEF KeyCases
  <2>9. /\ scenario'.lines = lines /\ scenario'.meant = meant /\ scenario'.env = env /\ scenario'.shell = shell
        /\ scenario'.loaded = FALSE
    BY <2>5
  <2> QED
    BY <2>6, <2>7, <2>8, <2>9 DEF KeysInv, KeptOK, LoadedOK, KeyCases, WithFile
<1>3. ASSUME KeysInv, NextCli
      PROVE  KeysInv' /\ WithFile'
  <2>1. /\ scenario \in KeyCases /\ \A name \in KeyNames : KeptOK(scenario.lines, scenario.meant, name)
        /\ scenario' = [scenario EXCEPT !.env = LoadEnvFile(scenario.shell, scenario.lines),
                                        !.set = NotSet, !.loaded = FALSE]
    BY <1>3 DEF KeysInv, NextCli
  <2> DEFINE env == LoadEnvFile(scenario.shell, scenario.lines)
  <2>2. scenario.lines \in Seq(KeyLines) /\ scenario.shell \in [KeyNames -> EnvValues]
    BY <2>1 DEF KeyCases, EnvValues
  <2>3. env \in [KeyNames -> EnvValues] /\ env = LoadEnvFile(scenario.shell, scenario.lines)
    BY <2>2, EnvLoaded
  <2>4. scenario' = [scenario EXCEPT !.env = env, !.set = NotSet, !.loaded = FALSE]
    BY <2>1
  <2> HIDE DEF env
  <2>5. /\ scenario' \in KeyCases /\ scenario'.lines = scenario.lines /\ scenario'.meant = scenario.meant
        /\ scenario'.shell = scenario.shell /\ scenario'.env = env /\ scenario'.loaded = FALSE
    BY <2>1, <2>3, <2>4 DEF KeyCases
  <2> QED
    BY <2>1, <2>3, <2>5 DEF KeysInv, KeptOK, LoadedOK, KeyCases, WithFile
<1>4. ASSUME KeysInv, MaySave, NEW name \in KeyNames, NEW value \in KeyValues
      PROVE  /\ Saved(name, value) \in KeyCases /\ Saved(name, value).set = name
             /\ Saved(name, value).loaded = FALSE /\ Saved(name, value).meant[name] = value
             /\ \A n \in KeyNames : KeptOK(Saved(name, value).lines, Saved(name, value).meant, n)
             /\ LinesFor(scenario.lines, name) = {} => InFile(Saved(name, value).lines, name) = value
  <2> DEFINE lines == AppendToEnvFile(scenario.lines, name, value)
             meant == [scenario.meant EXCEPT ![name] = value]
             saved == [scenario EXCEPT !.lines = lines, !.meant = meant, !.saves = @ + 1, !.set = name]
  <2>1. scenario \in KeyCases /\ (\A n \in KeyNames : KeptOK(scenario.lines, scenario.meant, n)) /\ scenario.loaded = FALSE
    BY <1>4 DEF KeysInv, MaySave, LoadedOK, KeyCases
  <2>2. Saved(name, value) = saved
    BY <2>1 DEF Saved, KeyCases
  <2>3. scenario.saves + 1 \in Nat
    BY <2>1 DEF KeyCases
  <2>4. /\ scenario.lines \in Seq(KeyLines) /\ scenario.meant \in [KeyNames -> EnvValues]
        /\ lines = AppendToEnvFile(scenario.lines, name, value) /\ meant = [scenario.meant EXCEPT ![name] = value]
    BY <2>1 DEF KeyCases
  <2> HIDE DEF lines, meant
  <2>5. /\ lines \in Seq(KeyLines) /\ meant \in [KeyNames -> EnvValues] /\ meant[name] = value
        /\ \A n \in KeyNames : KeptOK(lines, meant, n)
        /\ LinesFor(scenario.lines, name) = {} => InFile(lines, name) = value
    BY <1>4, <2>1, <2>4, KeySaved
  <2>6. saved.lines = lines /\ saved.meant = meant /\ saved.set = name /\ saved.loaded = FALSE
    BY <2>1 DEF KeyCases
  <2>7. saved \in KeyCases
    BY <1>4, <2>1, <2>3, <2>5 DEF KeyCases
  <2> HIDE DEF saved
  <2> QED
    BY <2>2, <2>5, <2>6, <2>7
<1>5. ASSUME KeysInv, MaySave, NEW name \in KeyNames, NEW value \in KeyValues, scenario' = Saved(name, value)
      PROVE  KeysInv' /\ WithFile'
  <2> DEFINE saved == Saved(name, value)
  <2>1. /\ saved \in KeyCases /\ saved.set = name /\ saved.loaded = FALSE
        /\ \A n \in KeyNames : KeptOK(saved.lines, saved.meant, n)
    BY <1>4, <1>5, ZenonT(60)
  <2>2. scenario' = saved
    BY <1>5
  <2> HIDE DEF saved
  <2>3. /\ scenario' \in KeyCases /\ scenario'.set = name /\ scenario'.loaded = FALSE
        /\ \A n \in KeyNames : KeptOK(scenario'.lines, scenario'.meant, n)
    BY <2>1, <2>2
  <2>4. name # NotSet
    BY DEF KeyNames, NotSet
  <2> QED
    BY <2>3, <2>4 DEF KeysInv, LoadedOK, KeyCases, WithFile
<1>6. ASSUME KeysInv, Onboard
      PROVE  KeysInv' /\ WithFile'
  <2>1. PICK name \in KeyNames, value \in Secrets :
            scenario' = [Saved(name, value) EXCEPT !.before = scenario.env, !.loaded = TRUE,
                                                   !.env = LoadEnvFile(scenario.env, Saved(name, value).lines)]
    BY <1>6 DEF Onboard
  <2> DEFINE saved == Saved(name, value)
             env == LoadEnvFile(scenario.env, saved.lines)
  <2>2. /\ scenario \in KeyCases /\ MaySave /\ value \in KeyValues
        /\ scenario.env = LoadEnvFile(scenario.shell, scenario.lines)
    BY <1>6 DEF Onboard, MaySave, KeysInv, LoadedOK, KeyValues
  <2>3. /\ saved \in KeyCases /\ saved.set = name /\ saved.meant[name] = value
        /\ \A n \in KeyNames : KeptOK(saved.lines, saved.meant, n)
        /\ LinesFor(scenario.lines, name) = {} => InFile(saved.lines, name) = value
    BY <1>4, <1>6, <2>2
  <2>4. scenario' = [saved EXCEPT !.before = scenario.env, !.loaded = TRUE, !.env = env]
    BY <2>1
  <2>5. saved.lines \in Seq(KeyLines) /\ scenario.lines \in Seq(KeyLines) /\ scenario.env \in [KeyNames -> EnvValues]
    BY <2>2, <2>3 DEF KeyCases
  <2>6. env \in [KeyNames -> EnvValues] /\ env = LoadEnvFile(scenario.env, saved.lines)
    BY <2>5, EnvLoaded
  <2> HIDE DEF saved, env
  <2>7. /\ scenario' \in KeyCases /\ scenario'.lines = saved.lines /\ scenario'.meant = saved.meant
        /\ scenario'.set = name /\ scenario'.env = env /\ scenario'.before = scenario.env
    BY <2>2, <2>3, <2>4, <2>5, <2>6 DEF KeyCases
  <2>8. \A n \in KeyNames : KeptOK(scenario'.lines, scenario'.meant, n)
    BY <2>3, <2>7 DEF KeptOK
  <2>9. ASSUME scenario.env[name] = NotSet PROVE env[name] = value
    <3>1. scenario.shell \in [KeyNames -> EnvValues]
      BY <2>2 DEF KeyCases, EnvValues
    <3>2. LinesFor(scenario.lines, name) = {}
      BY <2>2, <2>5, <2>9, <3>1, EnvLoaded
    <3> QED
      BY <2>3, <2>6, <2>9, <3>2 DEF LoadEnvFile
  <2>10. name # NotSet
    BY DEF KeyNames, NotSet
  <2> QED
    BY <2>3, <2>7, <2>8, <2>9, <2>10 DEF KeysInv, LoadedOK, KeyCases, WithFile
<1>7. KeysInv /\ SetupProvider => KeysInv' /\ WithFile'
  BY <1>5 DEF SetupProvider, KeyValues
<1>8. KeysInv /\ RemoveProvider => KeysInv' /\ WithFile'
  BY <1>5 DEF RemoveProvider, KeyValues
<1> QED
  BY <1>2, <1>3, <1>6, <1>7, <1>8 DEF KeysNext

\* The keys' part of CommandsAgree.
LEMMA KeysInvKept == KeysInv => KeysKept /\ KeyVisible
BY DEF KeysInv, KeptOK, LoadedOK, KeysKept, KeyVisible

-----------------------------------------------------------------------------
(* Both kinds of commands together.                                        *)

CliSpec ==
    Init /\ [][CommandsNext \/ KeysNext \/ (Elsewhere("commands") /\ Elsewhere("keys"))]_scenario

\* The invariants hold of every behaviour.
LEMMA CliInvariant == CliSpec => [](CommandsInv /\ KeysInv)
<1>1. Init => CommandsInv /\ KeysInv
  BY DEF Init, Idle, CommandsInv, Commanding, KeysInv, WithFile
<1>2. ASSUME CommandsInv, KeysInv,
             [CommandsNext \/ KeysNext \/ (Elsewhere("commands") /\ Elsewhere("keys"))]_scenario
      PROVE  CommandsInv' /\ KeysInv'
  <2>1. CASE CommandsNext
    BY <1>2, <2>1, CommandsStep DEF KeysInv, Commanding, WithFile
  <2>2. CASE KeysNext
    BY <1>2, <2>2, KeysStep DEF CommandsInv, Commanding, WithFile
  <2>3. CASE Elsewhere("commands") /\ Elsewhere("keys")
    BY <2>3 DEF Elsewhere, CommandsInv, Commanding, KeysInv, WithFile
  <2>4. CASE UNCHANGED scenario
    <3>1. CommandsInv'
      BY <1>2, <2>4 DEF CommandsInv, Commanding, LastOK
    <3>2. KeysInv'
      BY <1>2, <2>4 DEF KeysInv, WithFile
    <3> QED
      BY <3>1, <3>2
  <2> QED
    BY <1>2, <2>1, <2>2, <2>3, <2>4
<1> QED
  BY <1>1, <1>2, PTL DEF CliSpec

\* src/cli/model.js, check.js, doctor.js and onboard.js: for any models and any commands
\* one after another, the catalog keeps its schema but for what the property excepts,
\* get shows what set was told, a catalog that passes the check leads from every model
\* to a current one or into a circle, and keys outlast each other's changes.
LEMMA CommandsPart == CliSpec => []CommandsAgree
<1>1. CommandsInv /\ KeysInv => CommandsAgree
  BY CommandsKept, KeysInvKept DEF CommandsAgree
<1> QED
  BY <1>1, CliInvariant, PTL

-----------------------------------------------------------------------------
(* What a call costs.                                                      *)

PriceKinds == {"price", "bill", "transcript"}
PricesSpec ==
    Init /\ [][Quote \/ Bill \/ Transcribe \/ \A kind \in PriceKinds : Elsewhere(kind)]_scenario

\* A price without tiers, and what a spec says of each kind of token.
Untiered == {Absent} \cup {Flat(rate) : rate \in Nat}
PriceSpecs ==
    [in : Untiered, out : Untiered, think : Untiered, write : Untiered, hour : Untiered, read : Untiered]
Usages == [in : Nat, out : Nat, think : Nat, write : Nat, hour : Nat, read : Nat]

PricesInv ==
    /\ Quoted => scenario.price \in Simple \cup Tiered /\ scenario.tokens \in Nat
    /\ Billed => scenario.spec \in PriceSpecs /\ scenario.usage \in Usages
    /\ scenario.kind = "transcript" =>
           /\ scenario.heard = [seconds |-> scenario.heard.seconds, in |-> scenario.heard.in,
                                out |-> scenario.heard.out]
           /\ scenario.heard.seconds \in Nat

LEMMA PricesInvariant == PricesSpec => []PricesInv
<1>1. Init => PricesInv
  BY DEF Init, Idle, PricesInv, Quoted, Billed
<1>2. PricesInv /\ [Quote \/ Bill \/ Transcribe \/ \A kind \in PriceKinds : Elsewhere(kind)]_scenario
        => PricesInv'
  <2> SUFFICES ASSUME PricesInv,
                      [Quote \/ Bill \/ Transcribe \/ \A kind \in PriceKinds : Elsewhere(kind)]_scenario
               PROVE  PricesInv'
    OBVIOUS
  <2>1. CASE Quote
    <3>1. PICK price \in Simple \cup Tiered, tokens \in 0 .. MaxTokens :
              scenario' = [kind |-> "price", price |-> price, tokens |-> tokens]
      BY <2>1 DEF Quote
    <3> QED
      BY <3>1, PricesAssumption DEF PricesInv, Quoted, Billed
  <2>2. CASE Bill
    <3>1. PICK input \in {Absent, Flat(2)}, out \in {Absent, Flat(2)}, think \in {Absent, Flat(1)},
               read \in {Absent, Flat(1)}, write \in {Absent, Flat(1), Flat(3)},
               hour \in {Absent, Flat(1), Flat(3)}, used \in [{"in", "out"} -> Counts],
               thought \in Counts, written \in Counts, kept \in Counts, fetched \in Counts :
        scenario' = [kind |-> "bill",
            spec |-> [in |-> input, out |-> out, think |-> think, write |-> write, hour |-> hour,
                      read |-> read],
            usage |-> [in |-> used["in"], out |-> used["out"], think |-> thought,
                       write |-> written, hour |-> kept, read |-> fetched]]
      BY <2>2, Zenon DEF Bill
    <3>2. Counts \subseteq Nat /\ used["in"] \in Nat /\ used["out"] \in Nat
      BY <3>1, PricesAssumption DEF Counts
    <3>3. /\ input \in Untiered /\ out \in Untiered /\ think \in Untiered
          /\ read \in Untiered /\ write \in Untiered /\ hour \in Untiered
      BY <3>1 DEF Untiered
    <3>4. scenario'.spec \in PriceSpecs
      BY <3>1, <3>3 DEF PriceSpecs
    <3>5. scenario'.usage \in Usages
      BY <3>1, <3>2 DEF Usages
    <3> QED
      BY <3>1, <3>4, <3>5 DEF PricesInv, Quoted, Billed
  <2>3. CASE Transcribe
    <3>1. PICK input \in {Absent, Flat(2)}, out \in {Absent, Flat(2)}, minute \in Rates \cup {NoRate},
               seconds \in Counts, in \in Counts, told \in Counts :
        scenario' = [kind |-> "transcript",
            spec |-> [in |-> input, out |-> out, minute |-> minute, think |-> Absent,
                      write |-> Absent, hour |-> Absent, read |-> Absent],
            heard |-> [seconds |-> seconds, in |-> in, out |-> told]]
      BY <2>3, Zenon DEF Transcribe
    <3> QED
      BY <3>1, PricesAssumption DEF PricesInv, Quoted, Billed, Counts
  <2>4. CASE \A kind \in PriceKinds : Elsewhere(kind)
    BY <2>4 DEF PricesInv, Quoted, Billed, Elsewhere, PriceKinds
  <2>5. CASE UNCHANGED scenario
    BY <2>5 DEF PricesInv, Quoted, Billed
  <2> QED
    BY <2>1, <2>2, <2>3, <2>4, <2>5
<1> QED
  BY <1>1, <1>2, PTL DEF PricesSpec

\* A map of tiers has finitely many places, and its thresholds are counts.
LEMMA TieredPrices ==
    ASSUME NEW price \in Tiered
    PROVE  /\ price.form = "tiers" /\ price.default \in Rates \cup {NoRate}
           /\ \E n \in Nat : DOMAIN price.tiers = 1 .. n
           /\ \A i \in DOMAIN price.tiers : price.tiers[i].over \in Nat
<1>1. price.form = "tiers" /\ price.default \in Rates \cup {NoRate} /\ price.tiers \in TierMaps
  BY DEF Tiered
<1>2. TierMaps \subseteq UNION {[1 .. n -> Tier] : n \in 0 .. 2}
  BY DEF TierMaps
<1>3. PICK n \in 0 .. 2 : price.tiers \in [1 .. n -> Tier]
  BY <1>1, <1>2
<1>4. \A i \in 1 .. n : price.tiers[i] \in Tier
  BY <1>3
<1>5. \A i \in 1 .. n : price.tiers[i].over \in Nat
  BY <1>4, PricesAssumption DEF Tier
<1>6. n \in Nat /\ DOMAIN price.tiers = 1 .. n
  BY <1>3
<1> QED
  BY <1>1, <1>5, <1>6

\* A set of places has a last one.
LEMMA LastIsThere ==
    ASSUME NEW n \in Nat, NEW S \in SUBSET (1 .. n), S # {}
    PROVE  Max(S) \in S /\ \A i \in S : i <= Max(S)
<1> DEFINE after == {n - i : i \in S}
<1>1. after \in SUBSET Nat /\ after # {}
  <2>1. \A i \in S : i \in 1 .. n
    OBVIOUS
  <2>2. \A i \in 1 .. n : n - i \in Nat
    OBVIOUS
  <2> QED
    BY <2>1, <2>2
<1>2. PICK least \in after : \A m \in after : least <= m
  BY <1>1, LeastOf
<1>3. PICK last \in S : least = n - last
  BY <1>2
<1>4. ASSUME NEW j \in S PROVE j <= last
  <2>1. n - j \in after
    OBVIOUS
  <2> QED
    BY <1>2, <1>3, <2>1
<1>5. \E i \in S : \A j \in S : j <= i
  BY <1>4
<1> QED
  BY <1>5 DEF Max

\* A tier whose threshold is exceeded leads to one of the climb that is as high; so
\* the last of the climb is the highest of all that are exceeded.
LEMMA ClimbEndsHighest ==
    ASSUME NEW price \in Tiered, NEW tokens \in Nat, Exceeded(price, tokens) # {}
    PROVE  /\ Max(Climb(price, tokens)) \in Climb(price, tokens)
           /\ Climb(price, tokens) # {} /\ Climb(price, tokens) \subseteq Exceeded(price, tokens)
           /\ \A j \in Exceeded(price, tokens) :
                  price.tiers[Max(Climb(price, tokens))].over >= price.tiers[j].over
<1> DEFINE exceeded == Exceeded(price, tokens)
           climb == Climb(price, tokens)
           Over(i) == price.tiers[i].over
<1>1. PICK n \in Nat : DOMAIN price.tiers = 1 .. n
  BY TieredPrices
<1>0. 1 .. n \in SUBSET Nat
  BY <1>1
<1>2. exceeded \in SUBSET (1 .. n) /\ \A i \in exceeded : Over(i) \in Nat
  BY <1>1, TieredPrices DEF Exceeded
<1>3. climb = {i \in exceeded : \A j \in exceeded : j < i => Over(j) < Over(i)}
  BY Zenon DEF Climb
<1> HIDE DEF exceeded, climb, Over
<1>4. ASSUME NEW j \in exceeded
      PROVE  \E i \in climb : i <= j /\ Over(i) >= Over(j)
  <2> DEFINE asHigh == {i \in exceeded : Over(i) >= Over(j)}
  <2>1. asHigh \in SUBSET exceeded /\ j \in asHigh
    BY <1>2
  <2>2. PICK i \in asHigh : \A k \in asHigh : i <= k
    BY <1>0, <1>2, <2>1, LeastOf
  <2>3. i \in exceeded /\ Over(i) >= Over(j) /\ i <= j
    BY <2>1, <2>2
  <2>4. ASSUME NEW k \in exceeded, k < i PROVE Over(k) < Over(i)
    <3>1. Over(i) \in Nat /\ Over(j) \in Nat /\ Over(k) \in Nat
      BY <1>2, <2>3, <2>4
    <3>2. k \in Nat /\ i \in Nat
      BY <1>2, <2>3, <2>4, <1>0
    <3>3. k \notin asHigh
      BY <2>2, <2>4, <3>2
    <3>4. ~(Over(k) >= Over(j))
      BY <2>4, <3>3
    <3> QED
      BY <2>3, <3>1, <3>4
  <2>5. i \in climb
    BY <1>3, <2>3, <2>4
  <2> QED
    BY <2>3, <2>5
<1>5. climb # {} /\ climb \in SUBSET (1 .. n)
  BY <1>2, <1>3, <1>4 DEF exceeded
<1>6. Max(climb) \in climb /\ \A i \in climb : i <= Max(climb)
  BY <1>5, LastIsThere
<1>7. ASSUME NEW j \in exceeded PROVE Over(Max(climb)) >= Over(j)
  <2>1. PICK i \in climb : i <= j /\ Over(i) >= Over(j)
    BY <1>4
  <2>2. i \in exceeded /\ Max(climb) \in exceeded /\ i <= Max(climb)
    BY <1>3, <1>6
  <2>3. i < Max(climb) => Over(i) < Over(Max(climb))
    BY <1>3, <1>6, <2>2
  <2>4. i \in Nat /\ Max(climb) \in Nat
    BY <1>0, <1>2, <2>2
  <2>5. Over(i) \in Nat /\ Over(j) \in Nat /\ Over(Max(climb)) \in Nat
    BY <1>2, <2>2
  <2>6. i = Max(climb) \/ i < Max(climb)
    BY <2>2, <2>4
  <2>7. Over(i) <= Over(Max(climb))
    BY <2>3, <2>5, <2>6
  <2> QED
    BY <2>1, <2>5, <2>7
<1> QED
  BY <1>3, <1>5, <1>6, <1>7 DEF exceeded, climb, Over

\* Where every rate is a number, the tier that is read is the last of the climb.
LEMMA RatedTier ==
    ASSUME NEW price \in Tiered, NEW tokens \in Nat, Rated(price)
    PROVE  /\ Exceeded(price, tokens) = {} =>
                  ResolveTier(price, tokens) = price.default /\ Climb(price, tokens) = {}
           /\ Exceeded(price, tokens) # {} =>
                  /\ ResolveTier(price, tokens) = price.tiers[Max(Climb(price, tokens))].rate
                  /\ price.tiers[Max(Climb(price, tokens))].rate # NoRate
                  /\ Climb(price, tokens) # {}
<1>1. Climb(price, tokens) \subseteq Exceeded(price, tokens)
  BY DEF Climb
<1>2. Exceeded(price, tokens) \subseteq DOMAIN price.tiers
  BY DEF Exceeded
<1>3. \A i \in DOMAIN price.tiers : price.tiers[i].rate # NoRate
  BY TieredPrices DEF Rated
<1>4. {i \in Climb(price, tokens) : price.tiers[i].rate # NoRate} = Climb(price, tokens)
  BY <1>1, <1>2, <1>3
<1>5. ResolveTier(price, tokens) = IF Climb(price, tokens) = {} THEN price.default
                                   ELSE price.tiers[Max(Climb(price, tokens))].rate
  BY <1>4, TieredPrices DEF ResolveTier
<1> QED
  BY <1>1, <1>2, <1>3, <1>5, ClimbEndsHighest

LEMMA UntieredRate ==
    ASSUME NEW price \in Untiered, NEW tokens
    PROVE  ResolveTier(price, tokens) \in Nat \cup {NoRate}
BY DEF Untiered, Absent, Flat, ResolveTier

LEMMA OrElseRate ==
    ASSUME NEW rate \in Nat \cup {NoRate}, NEW fallback \in Nat
    PROVE  OrElse(rate, fallback) \in Nat
BY DEF OrElse

\* What is paid for the tokens written to the cache does not depend on the rest.
LEMMA WritesPaid ==
    ASSUME NEW rest \in Nat, NEW w \in Nat, NEW h \in 0 .. w, NEW write \in Nat, NEW hour \in Nat
    PROVE  (rest + (w - h) * write + h * hour) - rest = h * hour + (w - h) * write
<1>1. (w - h) * write \in Nat /\ h * hour \in Nat
  OBVIOUS
<1> QED
  BY <1>1

LEMMA WritesOnce == PricesInv => WritesPaidOnce
<1> SUFFICES ASSUME PricesInv, Billed,
                    NoRate \notin {ResolveTier(scenario.spec.in, 0), ResolveTier(scenario.spec.out, 0)}
             PROVE  WritesPaidOnce
  BY DEF WritesPaidOnce
<1> DEFINE spec == scenario.spec
           usage == scenario.usage
           without == [usage EXCEPT !.write = 0, !.hour = 0]
           FreshRate == ResolveTier(spec.in, usage.in)
           OutRate == ResolveTier(spec.out, usage.in)
           write == OrElse(ResolveTier(spec.write, usage.in), FreshRate)
           hour == OrElse(ResolveTier(spec.hour, usage.in), write)
           read == OrElse(ResolveTier(spec.read, usage.in), FreshRate)
           think == OrElse(ResolveTier(spec.think, usage.in), OutRate)
           h == Least(usage.write, usage.hour)
<1>1. spec \in PriceSpecs /\ usage \in Usages
  BY DEF PricesInv
<1>2. /\ spec.in \in Untiered /\ spec.out \in Untiered /\ spec.think \in Untiered
      /\ spec.write \in Untiered /\ spec.hour \in Untiered /\ spec.read \in Untiered
  BY <1>1 DEF PriceSpecs
<1>3. /\ usage.in \in Nat /\ usage.out \in Nat /\ usage.think \in Nat
      /\ usage.write \in Nat /\ usage.hour \in Nat /\ usage.read \in Nat
  BY <1>1 DEF Usages
<1>4. ASSUME NEW price \in Untiered PROVE ResolveTier(price, 0) = ResolveTier(price, usage.in)
  <2>1. CASE price = Absent
    BY <2>1 DEF Absent, ResolveTier
  <2>2. CASE \E rate \in Nat : price = Flat(rate)
    <3>1. price.form = "flat"
      BY <2>2 DEF Flat
    <3> QED
      BY <3>1 DEF ResolveTier
  <2> QED
    BY <2>1, <2>2 DEF Untiered
<1>5. FreshRate \in Nat /\ OutRate \in Nat /\ FreshRate # NoRate /\ OutRate # NoRate
  BY <1>2, <1>4, UntieredRate
<1>6. write \in Nat /\ hour \in Nat /\ read \in Nat /\ think \in Nat
  BY <1>2, <1>5, UntieredRate, OrElseRate
<1>7. h \in 0 .. usage.write
  BY <1>3 DEF Least
<1> DEFINE front == usage.in * FreshRate
           back == usage.read * read + usage.out * OutRate + usage.think * think
<1>8. ComputeCost(spec, usage) =
          usage.in * FreshRate + (usage.write - h) * write + h * hour
              + usage.read * read + usage.out * OutRate + usage.think * think
  BY <1>5, Zenon DEF ComputeCost
<1>9. /\ without.in = usage.in /\ without.out = usage.out /\ without.think = usage.think
      /\ without.read = usage.read /\ without.write = 0 /\ without.hour = 0
  BY <1>1 DEF Usages
<1>10. Least(0, 0) = 0
  BY DEF Least
<1>11. ComputeCost(spec, without) =
          usage.in * FreshRate + (0 - 0) * write + 0 * hour
              + usage.read * read + usage.out * OutRate + usage.think * think
  BY <1>5, <1>9, <1>10, Zenon DEF ComputeCost
<1> HIDE DEF FreshRate, OutRate, write, hour, read, think, h, spec, usage, without
<1>12. front \in Nat /\ back \in Nat /\ (usage.write - h) * write \in Nat /\ h * hour \in Nat
  <2>1. usage.in * FreshRate \in Nat /\ usage.read * read \in Nat /\ usage.out * OutRate \in Nat /\ usage.think * think \in Nat
    BY <1>3, <1>5, <1>6
  <2>2. usage.write - h \in Nat /\ h \in Nat
    BY <1>3, <1>7
  <2> QED
    BY <1>6, <2>1, <2>2
<1>13. (0 - 0) * write = 0 /\ 0 * hour = 0
  BY <1>6
<1>14. ComputeCost(spec, usage) - ComputeCost(spec, without) = h * hour + (usage.write - h) * write
  <2>1. /\ usage.in * FreshRate \in Nat /\ usage.read * read \in Nat /\ usage.out * OutRate \in Nat
        /\ usage.think * think \in Nat
    BY <1>3, <1>5, <1>6
  <2> DEFINE a == usage.in * FreshRate
             b == (usage.write - h) * write
             c == h * hour
             d == usage.read * read
             e == usage.out * OutRate
             f == usage.think * think
  <2>2. a \in Nat /\ b \in Nat /\ c \in Nat /\ d \in Nat /\ e \in Nat /\ f \in Nat
    BY <1>12, <2>1
  <2>3. ComputeCost(spec, usage) = a + b + c + d + e + f
    BY <1>8
  <2>4. ComputeCost(spec, without) = a + 0 + 0 + d + e + f
    BY <1>11, <1>13
  <2> HIDE DEF a, b, c, d, e, f
  <2>5. (a + b + c + d + e + f) - (a + 0 + 0 + d + e + f) = c + b
    BY <2>2
  <2>6. ComputeCost(spec, usage) - ComputeCost(spec, without) = c + b
    BY <2>3, <2>4, <2>5
  <2> QED
    BY <2>6 DEF b, c
<1>15. /\ FreshRate = ResolveTier(spec.in, 0)
       /\ write = OrElse(ResolveTier(spec.write, 0), ResolveTier(spec.in, 0))
       /\ hour = OrElse(ResolveTier(spec.hour, 0), write)
  BY <1>2, <1>4 DEF FreshRate, write, hour
<1> QED
  BY <1>7, <1>14, <1>15 DEF WritesPaidOnce, spec, usage, without

LEMMA OneWay == PricesInv => PaidOneWay
<1> SUFFICES ASSUME PricesInv, scenario.kind = "transcript"
             PROVE  PaidOneWay
  BY DEF PaidOneWay
<1> DEFINE heard == scenario.heard
           tokensOnly == [heard EXCEPT !.seconds = 0]
           minutesOnly == [heard EXCEPT !.in = 0, !.out = 0]
<1>1. heard = [seconds |-> heard.seconds, in |-> heard.in, out |-> heard.out] /\ heard.seconds \in Nat
  BY DEF PricesInv
<1>2. /\ tokensOnly.seconds = 0 /\ tokensOnly.in = heard.in /\ tokensOnly.out = heard.out
      /\ minutesOnly.seconds = heard.seconds
  BY <1>1
<1>3. CASE heard.seconds > 0 /\ scenario.spec.minute # NoRate
  <2>1. TranscriptionCost(scenario.spec, heard) = TranscriptionCost(scenario.spec, minutesOnly)
    BY <1>2, <1>3 DEF TranscriptionCost
  <2> QED
    BY <2>1 DEF PaidOneWay
<1>4. CASE ~(heard.seconds > 0 /\ scenario.spec.minute # NoRate)
  <2>1. ~(tokensOnly.seconds > 0)
    BY <1>2
  <2>2. TranscriptionCost(scenario.spec, heard) = TranscriptionCost(scenario.spec, tokensOnly)
    BY <1>2, <1>4, <2>1, Zenon DEF TranscriptionCost
  <2> QED
    BY <2>2 DEF PaidOneWay
<1> QED
  BY <1>3, <1>4

LEMMA PricesInvTrue == PricesInv => PricesTrue
<1> SUFFICES ASSUME PricesInv PROVE PricesTrue
  OBVIOUS
<1>1. HighestTierRules
  <2> SUFFICES ASSUME Quoted, scenario.price.form = "tiers", Rated(scenario.price)
               PROVE  HighestTierRules
    BY DEF HighestTierRules
  <2>1. scenario.price \in Tiered /\ scenario.tokens \in Nat
    BY DEF PricesInv, Simple, Absent, Flat
  <2>2. CASE Exceeded(scenario.price, scenario.tokens) = {}
    BY <2>1, <2>2, RatedTier DEF HighestTierRules
  <2>3. CASE Exceeded(scenario.price, scenario.tokens) # {}
    BY <2>1, <2>3, RatedTier, ClimbEndsHighest DEF HighestTierRules
  <2> QED
    BY <2>2, <2>3
<1>2. PriceReadersAgree
  <2> SUFFICES ASSUME Quoted, Rated(scenario.price)
               PROVE  LibraryPrice(scenario.price, scenario.tokens)
                          = OrElse(ResolveTier(scenario.price, scenario.tokens), 0)
    BY DEF PriceReadersAgree
  <2>1. CASE scenario.price \in Tiered
    <3>1. scenario.tokens \in Nat /\ scenario.price.form = "tiers"
      BY <2>1, TieredPrices DEF PricesInv
    <3>2. LibraryPrice(scenario.price, scenario.tokens) =
              IF Climb(scenario.price, scenario.tokens) = {} THEN OrElse(scenario.price.default, 0)
              ELSE scenario.price.tiers[Max(Climb(scenario.price, scenario.tokens))].rate
      BY <3>1 DEF LibraryPrice
    <3> QED
      BY <2>1, <3>1, <3>2, RatedTier DEF OrElse
  <2>2. CASE scenario.price \in Simple
    BY <2>2, PricesAssumption DEF Simple, Absent, Flat, LibraryPrice, ResolveTier, OrElse, NoRate
  <2> QED
    BY <2>1, <2>2 DEF PricesInv
<1>3. ShownIsPaid
  <2> SUFFICES ASSUME Quoted, scenario.tokens = 0, ResolveTier(scenario.price, 0) > 0
               PROVE  ShownPrice(scenario.price) = ResolveTier(scenario.price, 0)
    BY DEF ShownIsPaid
  <2>1. CASE scenario.price \in Tiered
    <3>1. Exceeded(scenario.price, 0) = {}
      BY <2>1, TieredPrices DEF Exceeded
    <3>2. Climb(scenario.price, 0) = {}
      BY <3>1 DEF Climb
    <3>3. ResolveTier(scenario.price, 0) = scenario.price.default
      BY <2>1, <3>2, TieredPrices DEF ResolveTier
    <3>4. scenario.price.form = "tiers" /\ scenario.price.default \in Nat \cup {NoRate}
      BY <2>1, TieredPrices, PricesAssumption
    <3> QED
      BY <3>3, <3>4 DEF ShownPrice, NoRate
  <2>2. CASE scenario.price \in Simple
    BY <2>2, PricesAssumption DEF Simple, Absent, Flat, ShownPrice, ResolveTier, NoRate
  <2> QED
    BY <2>1, <2>2 DEF PricesInv
<1> QED
  BY <1>1, <1>2, <1>3, WritesOnce, OneWay DEF PricesTrue

\* _pricing.js, and resolvePrice of the library and of the CLI: for all rates and
\* thresholds the three readers of a price agree, the highest tier exceeded rules
\* whatever the order of the keys, and no token or minute is paid twice.
LEMMA PricesPart == PricesSpec => []PricesTrue
BY PricesInvariant, PricesInvTrue, PTL

-----------------------------------------------------------------------------
(* The ranking of models.                                                  *)

FetchSpec == Init /\ [][StartRank \/ HourPasses \/ ReadSource \/ Elsewhere("fetch")]_scenario
OverlaySpec == Init /\ [][StartOverlay \/ NextRow \/ Elsewhere("overlay")]_scenario
ScoreSpec == Init /\ [][ScoreModels \/ Elsewhere("rank")]_scenario

Caches == [at : Nat, data : Nat, whole : BOOLEAN, there : BOOLEAN]
FetchCases ==
    [kind : {"fetch"}, now : Nat, cache : Caches, read : Caches, fresh : BOOLEAN, gaps : SUBSET Nat]

\* What is there in part only was read in an hour that has a gap.
GapKnown(c, gaps) == c.there /\ ~c.whole => c.data \in gaps

\* What is cached was published when it was read; what has just been read is young
\* enough, new if new data were asked for, and no older than the cache.
FetchInv ==
    Fetching =>
        /\ scenario \in FetchCases
        /\ scenario.cache.data = scenario.cache.at /\ scenario.cache.at <= scenario.now
        /\ GapKnown(scenario.cache, scenario.gaps) /\ GapKnown(scenario.read, scenario.gaps)
        /\ scenario.read.there =>
               /\ scenario.now - scenario.read.data < Ttl
               /\ scenario.fresh => scenario.read.data = scenario.now
               /\ scenario.cache.data <= scenario.read.data

LEMMA FetchInvariant == FetchSpec => []FetchInv
<1>1. Init => FetchInv
  BY DEF Init, Idle, FetchInv, Fetching
<1>0. NoCache \in Caches
  BY DEF NoCache, Caches
<1>2. FetchInv /\ [StartRank \/ HourPasses \/ ReadSource \/ Elsewhere("fetch")]_scenario => FetchInv'
  <2> SUFFICES ASSUME FetchInv, [StartRank \/ HourPasses \/ ReadSource \/ Elsewhere("fetch")]_scenario
               PROVE  FetchInv'
    OBVIOUS
  <2>1. CASE StartRank
    BY <1>0, <2>1 DEF StartRank, FetchInv, FetchCases, NoCache, GapKnown
  <2>2. CASE HourPasses
    <3>1. scenario \in FetchCases /\ scenario' = [scenario EXCEPT !.now = @ + 1, !.read = NoCache]
      BY <2>2 DEF HourPasses, FetchInv
    <3>2. /\ scenario.cache.data = scenario.cache.at /\ scenario.cache.at <= scenario.now
          /\ GapKnown(scenario.cache, scenario.gaps)
      BY <2>2 DEF HourPasses, FetchInv
    <3>3. /\ scenario' \in FetchCases /\ scenario'.cache = scenario.cache
          /\ scenario'.now = scenario.now + 1 /\ scenario'.read = NoCache /\ scenario'.gaps = scenario.gaps
      <4>1. scenario.now \in Nat /\ scenario.now + 1 \in Nat
        BY <3>1 DEF FetchCases
      <4> QED
        BY <1>0, <3>1, <4>1 DEF FetchCases
    <3>4. scenario.cache.at \in Nat /\ scenario.now \in Nat /\ ~NoCache.there
      BY <3>1 DEF FetchCases, Caches, NoCache
    <3>5. scenario.cache.at <= scenario.now + 1
      BY <3>2, <3>4
    <3>6. GapKnown(NoCache, scenario.gaps)
      BY <3>4 DEF GapKnown
    <3> QED
      BY <3>2, <3>3, <3>4, <3>5, <3>6 DEF FetchInv
  <2>3. CASE ReadSource
    <3>1. /\ Fetching /\ ~scenario.read.there /\ scenario \in FetchCases
          /\ scenario.cache.data = scenario.cache.at /\ scenario.cache.at <= scenario.now
          /\ GapKnown(scenario.cache, scenario.gaps)
      BY <2>3 DEF ReadSource, FetchInv
    <3>2. PICK fresh \in BOOLEAN :
              IF Usable(scenario.cache, scenario.now, fresh)
              THEN scenario' = [scenario EXCEPT !.fresh = fresh, !.read = scenario.cache]
              ELSE \/ \E got \in {"all", "some"}, saved \in BOOLEAN : Fetch(fresh, got, saved)
                   \/ scenario' = [scenario EXCEPT !.fresh = fresh]
      BY <2>3 DEF ReadSource
    <3>3. CASE Usable(scenario.cache, scenario.now, fresh)
      <4>1. scenario' = [scenario EXCEPT !.fresh = fresh, !.read = scenario.cache]
        BY <3>2, <3>3
      <4>2. /\ scenario' \in FetchCases /\ scenario'.cache = scenario.cache /\ scenario'.now = scenario.now
            /\ scenario'.read = scenario.cache /\ scenario'.fresh = fresh /\ scenario'.gaps = scenario.gaps
        BY <3>1, <4>1 DEF FetchCases
      <4>3. ~fresh /\ scenario.now - scenario.cache.at < Ttl /\ scenario.cache.data \in Nat
        BY <3>1, <3>3 DEF Usable, FetchCases, Caches
      <4> QED
        BY <3>1, <4>2, <4>3 DEF FetchInv
    <3>4. ASSUME NEW got \in {"all", "some"}, NEW saved \in BOOLEAN, Fetch(fresh, got, saved)
          PROVE  FetchInv'
      <4> DEFINE new == [at |-> scenario.now, data |-> scenario.now, whole |-> got = "all", there |-> TRUE]
                 gaps == IF got = "all" THEN scenario.gaps ELSE scenario.gaps \cup {scenario.now}
      <4>1. scenario' = [scenario EXCEPT !.fresh = fresh, !.read = new,
                                         !.cache = IF saved THEN new ELSE @, !.gaps = gaps]
        BY <3>4 DEF Fetch
      <4>2. /\ new \in Caches /\ new.data = scenario.now /\ new.at = scenario.now
            /\ gaps \in SUBSET Nat /\ GapKnown(new, gaps) /\ scenario.gaps \subseteq gaps
        BY <3>1 DEF Caches, FetchCases, GapKnown
      <4> HIDE DEF new, gaps
      <4>3. /\ scenario' \in FetchCases /\ scenario'.now = scenario.now /\ scenario'.read = new
            /\ scenario'.cache \in {new, scenario.cache} /\ scenario'.gaps = gaps
        BY <3>1, <4>1, <4>2 DEF FetchCases
      <4>4. GapKnown(scenario'.cache, gaps)
        BY <3>1, <4>2, <4>3 DEF GapKnown
      <4> QED
        BY <3>1, <4>2, <4>3, <4>4, RankingAssumption DEF FetchInv, FetchCases, Caches
    <3>5. CASE scenario' = [scenario EXCEPT !.fresh = fresh]
      <4>1. /\ scenario' \in FetchCases /\ scenario'.cache = scenario.cache /\ scenario'.now = scenario.now
            /\ scenario'.read = scenario.read /\ scenario'.gaps = scenario.gaps
        BY <3>1, <3>5 DEF FetchCases
      <4>2. GapKnown(scenario.read, scenario.gaps)
        BY <3>1 DEF GapKnown
      <4> QED
        BY <3>1, <4>1, <4>2 DEF FetchInv
    <3> QED
      BY <3>2, <3>3, <3>4, <3>5
  <2>4. CASE Elsewhere("fetch")
    BY <2>4 DEF Elsewhere, FetchInv, Fetching
  <2>5. CASE UNCHANGED scenario
    BY <2>5 DEF FetchInv, Fetching
  <2> QED
    BY <2>1, <2>2, <2>3, <2>4, <2>5
<1> QED
  BY <1>1, <1>2, PTL DEF FetchSpec

-----------------------------------------------------------------------------
(* Names.                                                                  *)

PublishedRows == [name : RowNames, fields : RowFields]
Overlays ==
    [kind : {"overlay"}, models : [1 .. 2 -> [id : RankedIds, name : [stem : Stems, remark : {NoMark, "high"}, date : {NoMark}]]],
     rows : Seq(PublishedRows), unmatched : SUBSET Nat, score : [1 .. 2 -> [Benchmarks -> Nat]]]

\* The rows are counted, and each is where OverlaidOnNamesake looks for it.
OverlayInv ==
    scenario.kind = "overlay" =>
        /\ scenario \in Overlays
        /\ \A i \in 1 .. 2 : scenario.models[i].name.stem = scenario.models[i].id.stem
        /\ scenario.unmatched \subseteq 1 .. Len(scenario.rows)
        /\ OverlaidOnNamesake

\* A name that the index has leads to a model that bears it.
LEMMA IndexedNames ==
    ASSUME NEW models, DOMAIN models = 1 .. 2
    PROVE  /\ \A i \in 1 .. 2 : NamesOf(models[i]) \subseteq DOMAIN NameIndex(models)
           /\ \A name \in DOMAIN NameIndex(models) :
                  /\ NameIndex(models)[name] \in 1 .. 2
                  /\ name \in NamesOf(models[NameIndex(models)[name]])
<1> DEFINE names == UNION {NamesOf(models[m]) : m \in DOMAIN models}
<1>1. NameIndex(models) = [name \in names |-> Max({m \in DOMAIN models : name \in NamesOf(models[m])})]
  BY DEF NameIndex
<1>2. \A i \in 1 .. 2 : NamesOf(models[i]) \subseteq names
  OBVIOUS
<1>3. ASSUME NEW name \in names
      PROVE  LET m == Max({k \in DOMAIN models : name \in NamesOf(models[k])})
             IN  m \in 1 .. 2 /\ name \in NamesOf(models[m])
  <2> DEFINE bearers == {k \in DOMAIN models : name \in NamesOf(models[k])}
  <2>1. bearers \in SUBSET (1 .. 2) /\ bearers # {}
    BY <1>3
  <2>2. Max(bearers) \in bearers
    BY <2>1, LastIsThere
  <2> QED
    BY <2>1, <2>2
<1> QED
  BY <1>1, <1>2, <1>3

\* A row's name leads to a model of its stem, and where a model answers to it, to one.
LEMMA MatchedNames ==
    ASSUME NEW models \in [1 .. 2 -> [id : RankedIds, name : [stem : Stems, remark : {NoMark, "high"}, date : {NoMark}]]],
           \A i \in 1 .. 2 : models[i].name.stem = models[i].id.stem,
           NEW sought \in RowNames, NEW m, m = MatchModel(sought, NameIndex(models))
    PROVE  /\ m # Unmatched => m \in 1 .. 2 /\ models[m].id.stem = sought.stem
           /\ (\E i \in 1 .. 2 : sought \in NamesOf(models[i])) => m # Unmatched /\ sought \in NamesOf(models[m])
<1> DEFINE index == NameIndex(models)
<1>2. DOMAIN models = 1 .. 2
  OBVIOUS
<1>3. /\ \A i \in 1 .. 2 : NamesOf(models[i]) \subseteq DOMAIN index
      /\ \A name \in DOMAIN index : index[name] \in 1 .. 2 /\ name \in NamesOf(models[index[name]])
  BY <1>2, IndexedNames
<1> HIDE DEF index
<1>4. Cleaned(sought).stem = sought.stem /\ NoVersion(sought).stem = sought.stem
  BY DEF Cleaned, NoVersion, RowNames
<1>5. \A i \in 1 .. 2 : \A name \in NamesOf(models[i]) : name.stem = models[i].id.stem
  <2> SUFFICES ASSUME NEW i \in 1 .. 2
               PROVE  \A name \in NamesOf(models[i]) : name.stem = models[i].id.stem
    OBVIOUS
  <2>1. models[i].id \in RankedIds
    OBVIOUS
  <2>2. PICK stem \in Stems, date \in {NoMark, "d1", "d2"} : models[i].id = Named(stem, NoMark, date)
    BY <2>1 DEF RankedIds
  <2>3. NoVersion(models[i].id).stem = models[i].id.stem
    BY <2>2 DEF NoVersion, Named
  <2> QED
    BY <2>3 DEF NamesOf
<1>6. \/ sought \in DOMAIN index /\ m = index[sought]
      \/ sought \notin DOMAIN index /\ Cleaned(sought) \in DOMAIN index /\ m = index[Cleaned(sought)]
      \/ sought \notin DOMAIN index /\ NoVersion(sought) \in DOMAIN index /\ m = index[NoVersion(sought)]
      \/ sought \notin DOMAIN index /\ m = Unmatched
  BY DEF MatchModel, index
<1>7. m # Unmatched => m \in 1 .. 2 /\ models[m].id.stem = sought.stem
  BY <1>3, <1>4, <1>5, <1>6
<1>8. \A i \in 1 .. 2 : i # Unmatched
  BY DEF Unmatched
<1>9. (\E i \in 1 .. 2 : sought \in NamesOf(models[i])) => m # Unmatched /\ sought \in NamesOf(models[m])
  BY <1>3, <1>6, <1>8
<1> QED
  BY <1>7, <1>9

\* A row more keeps every row where it was, unless its own model is the new row's.
LEMMA OverlayKeeps ==
    ASSUME OverlayInv, scenario.kind = "overlay", NEW row \in PublishedRows, Overlay(row)
    PROVE  OverlayInv'
<1> DEFINE models == scenario.models
           rows == scenario.rows
           score == scenario.score
           n == Len(rows)
           k == n + 1
           m == MatchModel(row.name, NameIndex(models))
           Laid(i, field) == IF i = m /\ field \in row.fields THEN k ELSE score[i][field]
           laid == [i \in 1 .. 2 |-> [field \in Benchmarks |-> Laid(i, field)]]
           unmatched == IF m = Unmatched THEN scenario.unmatched \cup {k} ELSE scenario.unmatched
<1>1. /\ scenario \in Overlays /\ \A i \in 1 .. 2 : models[i].name.stem = models[i].id.stem
      /\ scenario.unmatched \subseteq 1 .. n /\ OverlaidOnNamesake
  BY DEF OverlayInv
<1>2. /\ models \in [1 .. 2 -> [id : RankedIds, name : [stem : Stems, remark : {NoMark, "high"}, date : {NoMark}]]]
      /\ rows \in Seq(PublishedRows) /\ score \in [1 .. 2 -> [Benchmarks -> Nat]] /\ scenario.unmatched \in SUBSET Nat
  BY <1>1 DEF Overlays
<1>3. n \in Nat /\ k \in Nat /\ DOMAIN rows = 1 .. n /\ k \notin 1 .. n /\ DOMAIN models = 1 .. 2
  BY <1>2
<1>4. /\ m # Unmatched => m \in 1 .. 2 /\ models[m].id.stem = row.name.stem
      /\ (\E i \in 1 .. 2 : row.name \in NamesOf(models[i])) => m # Unmatched /\ row.name \in NamesOf(models[m])
  <2>1. row.name \in RowNames
    BY DEF PublishedRows
  <2> QED
    BY <1>1, <1>2, <2>1, MatchedNames
<1>5. scenario' = [scenario EXCEPT !.rows = Append(rows, row), !.unmatched = unmatched, !.score = laid]
  <2>1. DOMAIN score = 1 .. 2
    BY <1>2
  <2> QED
    BY <1>1, <2>1 DEF Overlay, Overlays
<1>6. laid \in [1 .. 2 -> [Benchmarks -> Nat]]
  BY <1>2, <1>3
<1>7. \A i \in 1 .. 2, field \in Benchmarks : laid[i][field] = Laid(i, field)
  OBVIOUS
<1>8. Append(rows, row) \in Seq(PublishedRows)
  BY <1>2
<1> HIDE DEF laid, m
<1>9. unmatched \in SUBSET Nat /\ unmatched \subseteq 1 .. k /\ \A x \in 1 .. n : x \in unmatched <=> x \in scenario.unmatched
  BY <1>1, <1>2, <1>3
<1>10. k \in unmatched <=> m = Unmatched
  BY <1>1, <1>3
<1> HIDE DEF unmatched
<1>11. /\ scenario' \in Overlays /\ scenario'.models = models /\ scenario'.rows = Append(rows, row)
       /\ scenario'.unmatched = unmatched /\ scenario'.score = laid /\ scenario'.kind = "overlay"
  BY <1>1, <1>5, <1>6, <1>8, <1>9 DEF Overlays
<1>12. /\ Len(Append(rows, row)) = k /\ DOMAIN Append(rows, row) = 1 .. k
       /\ Append(rows, row)[k] = row /\ \A x \in 1 .. n : Append(rows, row)[x] = rows[x]
  BY <1>2, <1>3
<1>13. 1 .. k = (1 .. n) \cup {k} /\ \A x \in 1 .. n : x < k /\ x \in Nat
  BY <1>3
<1> DEFINE all == Append(rows, row)
<1> HIDE DEF all
<1>14. \A i \in 1 .. 2, f \in Benchmarks : score[i][f] # OwnScore =>
            /\ score[i][f] \in (1 .. n) \ scenario.unmatched
            /\ f \in rows[score[i][f]].fields
            /\ rows[score[i][f]].name.stem = models[i].id.stem
  BY <1>1, <1>3 DEF OverlaidOnNamesake
<1>15. k # OwnScore /\ \A i \in 1 .. 2, f \in Benchmarks : score[i][f] # k /\ score[i][f] \in Nat
  BY <1>2, <1>3, <1>13, <1>14 DEF OwnScore
<1>16. ASSUME NEW i \in 1 .. 2, NEW f \in Benchmarks, laid[i][f] # OwnScore
       PROVE  /\ laid[i][f] \in (1 .. k) \ unmatched
              /\ f \in all[laid[i][f]].fields
              /\ all[laid[i][f]].name.stem = models[i].id.stem
  <2>1. CASE i = m /\ f \in row.fields
    <3>1. laid[i][f] = k /\ m # Unmatched
      BY <1>7, <2>1 DEF Unmatched
    <3> QED
      BY <1>4, <1>10, <1>12, <1>13, <2>1, <3>1 DEF all
  <2>2. CASE ~(i = m /\ f \in row.fields)
    <3>1. laid[i][f] = score[i][f]
      BY <1>7, <2>2
    <3>2. /\ score[i][f] \in (1 .. n) \ scenario.unmatched /\ f \in rows[score[i][f]].fields
          /\ rows[score[i][f]].name.stem = models[i].id.stem
      BY <1>14, <1>16, <3>1
    <3> QED
      BY <1>9, <1>12, <1>13, <3>1, <3>2 DEF all
  <2> QED
    BY <2>1, <2>2
<1>17. ASSUME NEW i \in 1 .. 2, NEW j \in 1 .. 2, NEW f \in Benchmarks, NEW g \in Benchmarks,
              laid[i][f] = laid[j][g]
       PROVE  i = j \/ laid[i][f] = OwnScore
  <2>1. score[i][f] = score[j][g] => i = j \/ score[i][f] = OwnScore
    BY <1>1, <1>3, SMTT(30) DEF OverlaidOnNamesake
  <2> QED
    BY <1>7, <1>15, <1>17, <2>1
<1>18. ASSUME NEW i \in 1 .. 2, NEW x \in 1 .. n, LaidOver(x, i)
       PROVE  \A f \in all[x].fields : laid[i][f] >= x
  <2> SUFFICES ASSUME NEW f \in all[x].fields PROVE laid[i][f] >= x
    OBVIOUS
  <2>1. all[x] = rows[x] /\ rows[x] \in PublishedRows
    BY <1>2, <1>3, <1>12 DEF all
  <2>2. f \in Benchmarks
    BY <2>1 DEF PublishedRows, RowFields, Benchmarks
  <2>3. score[i][f] >= x
    BY <1>18, <2>1 DEF LaidOver
  <2>4. laid[i][f] \in {k, score[i][f]}
    BY <1>7, <2>2
  <2> QED
    BY <1>3, <1>13, <2>3, <2>4
<1>19. m # Unmatched => \A f \in all[k].fields : laid[m][f] >= k
  <2> SUFFICES ASSUME m # Unmatched, NEW f \in all[k].fields PROVE laid[m][f] >= k
    OBVIOUS
  <2>1. f \in row.fields
    BY <1>12 DEF all
  <2>2. f \in Benchmarks /\ m \in 1 .. 2
    BY <1>4, <2>1 DEF PublishedRows, RowFields, Benchmarks
  <2>3. laid[m][f] = k
    BY <1>7, <2>1, <2>2
  <2> QED
    BY <1>3, <2>3
<1>20. ASSUME NEW x \in (1 .. k) \ unmatched
       PROVE  \E i \in 1 .. 2 : \A f \in all[x].fields : laid[i][f] >= x
  <2>1. CASE x = k
    BY <1>4, <1>10, <1>19, <1>20, <2>1
  <2>2. CASE x \in 1 .. n
    <3>1. \E i \in 1 .. 2 : LaidOver(x, i)
      BY <1>1, <1>3, <1>9, <1>20, <2>2 DEF OverlaidOnNamesake
    <3> QED
      BY <1>18, <2>2, <3>1
  <2> QED
    BY <1>13, <1>20, <2>1, <2>2
<1>21. ASSUME NEW x \in 1 .. k, NEW i \in 1 .. 2, all[x].name \in {models[i].name, models[i].id}
       PROVE  /\ x \notin unmatched
              /\ (\A j \in (1 .. 2) \ {i} : all[x].name \notin NamesOf(models[j])) =>
                     \A f \in all[x].fields : laid[i][f] >= x
  <2>1. CASE x = k
    <3>1. row.name \in NamesOf(models[i])
      BY <1>12, <1>21, <2>1 DEF NamesOf, all
    <3>2. m # Unmatched /\ row.name \in NamesOf(models[m]) /\ m \in 1 .. 2
      BY <1>4, <3>1
    <3>3. (\A j \in (1 .. 2) \ {i} : all[x].name \notin NamesOf(models[j])) => m = i
      BY <1>12, <2>1, <3>2 DEF all
    <3> QED
      BY <1>10, <1>19, <2>1, <3>2, <3>3
  <2>2. CASE x \in 1 .. n
    <3>1. rows[x].name \in {models[i].name, models[i].id} /\ all[x] = rows[x]
      BY <1>12, <1>21, <2>2 DEF all
    <3>2. /\ x \notin scenario.unmatched
          /\ (\A j \in (1 .. 2) \ {i} : rows[x].name \notin NamesOf(models[j])) => LaidOver(x, i)
      BY <1>1, <1>3, <2>2, <3>1 DEF OverlaidOnNamesake
    <3> QED
      BY <1>9, <1>18, <2>2, <3>1, <3>2
  <2> QED
    BY <1>13, <2>1, <2>2
<1>22. OverlaidOnNamesake'
  <2>1. /\ scenario'.models = models /\ scenario'.rows = all /\ scenario'.unmatched = unmatched
        /\ scenario'.score = laid /\ DOMAIN all = 1 .. k /\ DOMAIN models = 1 .. 2
    BY <1>3, <1>11, <1>12 DEF all
  <2> HIDE DEF models, k
  <2> QED
    BY <1>16, <1>17, <1>20, <1>21, <2>1 DEF OverlaidOnNamesake, LaidOver
<1> QED
  BY <1>1, <1>9, <1>11, <1>12, <1>22 DEF OverlayInv

LEMMA OverlayInvariant == OverlaySpec => []OverlayInv
<1>1. Init => OverlayInv
  BY DEF Init, Idle, OverlayInv
<1>2. OverlayInv /\ [StartOverlay \/ NextRow \/ Elsewhere("overlay")]_scenario => OverlayInv'
  <2> SUFFICES ASSUME OverlayInv, [StartOverlay \/ NextRow \/ Elsewhere("overlay")]_scenario
               PROVE  OverlayInv'
    OBVIOUS
  <2>1. CASE StartOverlay
    <3>1. PICK ids \in {s \in [1 .. 2 -> RankedIds] : s[1] # s[2]}, remarks \in [1 .. 2 -> {NoMark, "high"}] :
              scenario' = [kind |-> "overlay",
                  models |-> [i \in 1 .. 2 |-> [id |-> ids[i], name |-> Named(ids[i].stem, remarks[i], NoMark)]],
                  rows |-> <<>>, unmatched |-> {},
                  score |-> [i \in 1 .. 2 |-> [field \in Benchmarks |-> OwnScore]]]
      BY <2>1, Zenon DEF StartOverlay
    <3> DEFINE models == [i \in 1 .. 2 |-> [id |-> ids[i], name |-> Named(ids[i].stem, remarks[i], NoMark)]]
               score == [i \in 1 .. 2 |-> [field \in Benchmarks |-> OwnScore]]
    <3>2. \A id \in RankedIds : id.stem \in Stems
      BY DEF RankedIds, Named
    <3>3. ids \in [1 .. 2 -> RankedIds]
      BY <3>1
    <3>4. /\ models \in [1 .. 2 -> [id : RankedIds, name : [stem : Stems, remark : {NoMark, "high"}, date : {NoMark}]]]
          /\ \A i \in 1 .. 2 : models[i].name.stem = models[i].id.stem
      BY <3>1, <3>2, <3>3 DEF Named
    <3>5. score \in [1 .. 2 -> [Benchmarks -> Nat]] /\ \A i \in 1 .. 2, f \in Benchmarks : score[i][f] = OwnScore
      BY DEF OwnScore
    <3>6. scenario' = [kind |-> "overlay", models |-> models, rows |-> <<>>, unmatched |-> {}, score |-> score]
      BY <3>1
    <3>7. DOMAIN models = 1 .. 2
      OBVIOUS
    <3> HIDE DEF models, score
    <3>8. <<>> \in Seq(PublishedRows) /\ DOMAIN <<>> = {} /\ Len(<<>>) = 0
      OBVIOUS
    <3>9. /\ scenario'.models = models /\ scenario'.rows = <<>> /\ scenario'.unmatched = {}
          /\ scenario'.score = score /\ scenario' \in Overlays
      BY <3>4, <3>5, <3>6, <3>8 DEF Overlays
    <3>10. OverlaidOnNamesake'
      BY <3>5, <3>7, <3>8, <3>9 DEF OverlaidOnNamesake
    <3> QED
      BY <3>4, <3>9, <3>10 DEF OverlayInv
  <2>2. CASE NextRow
    <3>1. PICK name \in RowNames, fields \in RowFields : Overlay([name |-> name, fields |-> fields])
      BY <2>2 DEF NextRow
    <3>2. [name |-> name, fields |-> fields] \in PublishedRows
      BY DEF PublishedRows
    <3>3. scenario.kind = "overlay" /\ OverlayInv
      BY <2>2 DEF NextRow
    <3> QED
      BY <3>1, <3>2, <3>3, OverlayKeeps
  <2>3. CASE Elsewhere("overlay")
    BY <2>3 DEF Elsewhere, OverlayInv
  <2>4. CASE UNCHANGED scenario
    BY <2>4 DEF OverlayInv, OverlaidOnNamesake, LaidOver
  <2> QED
    BY <2>1, <2>2, <2>3, <2>4
<1> QED
  BY <1>1, <1>2, PTL DEF OverlaySpec

LEMMA NamesakesOverlaid == OverlayInv => OverlaidOnNamesake
BY DEF OverlayInv, OverlaidOnNamesake

-----------------------------------------------------------------------------
(* Scores.                                                                 *)

Scores == [gpqa : Nat, swe : Nat, tau : Nat]
Weights == [gpqa : Nat \ {0}, swe : Nat \ {0}, tau : Nat \ {0}]

ScoreInv ==
    Scored =>
        /\ scenario.weights \in Weights
        /\ scenario.scores \in [1 .. 3 -> Scores]
        /\ scenario.ranked = Ranked(scenario.scores, scenario.weights)

LEMMA ScoreInvariant == ScoreSpec => []ScoreInv
<1>1. Init => ScoreInv
  BY DEF Init, Idle, ScoreInv, Scored
<1>2. ScoreInv /\ [ScoreModels \/ Elsewhere("rank")]_scenario => ScoreInv'
  <2> SUFFICES ASSUME ScoreInv, [ScoreModels \/ Elsewhere("rank")]_scenario
               PROVE  ScoreInv'
    OBVIOUS
  <2>1. CASE ScoreModels
    <3>1. PICK s \in [1 .. 3 -> [{"gpqa", "swe"} -> {0, 1, NoScore}]], tau \in [1 .. 3 -> {2, NoScore}],
               weights \in Presets :
        scenario' = [kind |-> "rank",
            scores |-> [i \in 1 .. 3 |-> [gpqa |-> s[i]["gpqa"], swe |-> s[i]["swe"], tau |-> tau[i]]],
            weights |-> weights,
            ranked |-> Ranked([i \in 1 .. 3 |-> [gpqa |-> s[i]["gpqa"], swe |-> s[i]["swe"], tau |-> tau[i]]],
                              weights)]
      BY <2>1, Zenon DEF ScoreModels
    <3> DEFINE all == [i \in 1 .. 3 |-> [gpqa |-> s[i]["gpqa"], swe |-> s[i]["swe"], tau |-> tau[i]]]
    <3>2. all \in [1 .. 3 -> Scores]
      <4>1. \A i \in 1 .. 3 : s[i]["gpqa"] \in Nat /\ s[i]["swe"] \in Nat /\ tau[i] \in Nat
        BY <3>1 DEF NoScore
      <4> QED
        BY <4>1 DEF Scores
    <3>3. weights \in Weights
      BY <3>1 DEF Presets, Weights
    <3>4. scenario' = [kind |-> "rank", scores |-> all, weights |-> weights, ranked |-> Ranked(all, weights)]
      BY <3>1
    <3> HIDE DEF all
    <3> QED
      BY <3>2, <3>3, <3>4 DEF ScoreInv
  <2>2. CASE Elsewhere("rank")
    BY <2>2 DEF Elsewhere, ScoreInv, Scored
  <2>3. CASE UNCHANGED scenario
    BY <2>3 DEF ScoreInv, Scored
  <2> QED
    BY <2>1, <2>2, <2>3
<1> QED
  BY <1>1, <1>2, PTL DEF ScoreSpec

\* Products of what is at least as much are at least as much.
LEMMA TimesKeepsOrder ==
    /\ \A x, y, z \in Nat : x <= y => x * z <= y * z
    /\ \A x, y \in Nat, z \in Nat \ {0} : x * z <= y * z => x <= y
    /\ \A x, y \in Nat : x * y \in Nat
    /\ \A x, y, z \in Nat : (x * y) * z = (x * z) * y
    /\ \A x, y, z \in Nat : x * (y + z) = x * y + x * z
<1>1. \A x, y, z \in Nat : x <= y => x * z <= y * z
  OBVIOUS
<1>2. \A x, y \in Nat, z \in Nat \ {0} : x * z <= y * z => x <= y
  OBVIOUS
<1>3. \A x, y \in Nat : x * y \in Nat
  OBVIOUS
<1>4. \A x, y, z \in Nat : (x * y) * z = (x * z) * y
  OBVIOUS
<1>5. \A x, y, z \in Nat : x * (y + z) = x * y + x * z
  OBVIOUS
<1> QED
  BY <1>1, <1>2, <1>3, <1>4, <1>5

Fractions == [sum : Nat, weight : Nat \ {0}]

\* No better than what is no better is no better.
LEMMA AboveOrder ==
    /\ \A a \in Fractions : ~Above(a, a)
    /\ \A a, b, c \in Fractions : ~Above(b, a) /\ ~Above(c, b) => ~Above(c, a)
<1>1. ASSUME NEW a \in Fractions PROVE ~Above(a, a)
  <2>1. a.sum * a.weight \in Nat
    BY TimesKeepsOrder DEF Fractions
  <2> QED
    BY <2>1 DEF Above
<1>2. ASSUME NEW a \in Fractions, NEW b \in Fractions, NEW c \in Fractions, ~Above(b, a), ~Above(c, b)
      PROVE  ~Above(c, a)
  <2>1. /\ a.sum \in Nat /\ b.sum \in Nat /\ c.sum \in Nat
        /\ a.weight \in Nat \ {0} /\ b.weight \in Nat \ {0} /\ c.weight \in Nat \ {0}
    BY DEF Fractions
  <2> DEFINE as == a.sum  bs == b.sum  cs == c.sum  aw == a.weight  bw == b.weight  cw == c.weight
  <2>2. /\ as * bw \in Nat /\ bs * aw \in Nat /\ bs * cw \in Nat /\ cs * bw \in Nat
        /\ cs * aw \in Nat /\ as * cw \in Nat
    BY <2>1, TimesKeepsOrder
  <2>3. bs * aw <= as * bw /\ cs * bw <= bs * cw
    BY <1>2, <2>2 DEF Above
  <2> HIDE DEF as, bs, cs, aw, bw, cw
  <2>4. as \in Nat /\ bs \in Nat /\ cs \in Nat /\ aw \in Nat \ {0} /\ bw \in Nat \ {0} /\ cw \in Nat \ {0}
    BY <2>1 DEF as, bs, cs, aw, bw, cw
  <2>5. (bs * aw) * cw <= (as * bw) * cw /\ (cs * bw) * aw <= (bs * cw) * aw
    BY <2>2, <2>3, <2>4, TimesKeepsOrder
  <2>6. /\ (bs * aw) * cw = (bs * cw) * aw /\ (as * bw) * cw = (as * cw) * bw
        /\ (cs * bw) * aw = (cs * aw) * bw
    <3>1. \A x, y, z \in Nat : (x * y) * z = (x * z) * y
      BY TimesKeepsOrder
    <3>2. as \in Nat /\ bs \in Nat /\ cs \in Nat /\ aw \in Nat /\ bw \in Nat /\ cw \in Nat
      BY <2>4
    <3>3. (bs * aw) * cw = (bs * cw) * aw
      BY <3>1, <3>2, ZenonT(60)
    <3>4. (as * bw) * cw = (as * cw) * bw
      BY <3>1, <3>2, ZenonT(60)
    <3>5. (cs * bw) * aw = (cs * aw) * bw
      BY <3>1, <3>2, ZenonT(60)
    <3> QED
      BY <3>3, <3>4, <3>5
  <2>7. (cs * aw) * bw \in Nat /\ (bs * cw) * aw \in Nat /\ (as * cw) * bw \in Nat
    BY <2>2, <2>4, TimesKeepsOrder
  <2> DEFINE low == (cs * aw) * bw
             mid == (bs * cw) * aw
             high == (as * cw) * bw
  <2>10. low <= mid /\ mid <= high /\ low \in Nat /\ mid \in Nat /\ high \in Nat
    BY <2>5, <2>6, <2>7
  <2> HIDE DEF low, mid, high
  <2>11. low <= high
    BY <2>10
  <2>8. (cs * aw) * bw <= (as * cw) * bw
    BY <2>11 DEF low, high
  <2>9. cs * aw <= as * cw
    BY <2>2, <2>4, <2>8, TimesKeepsOrder
  <2> QED
    BY <2>2, <2>9 DEF Above, as, bs, cs, aw, bw, cw
<1> QED
  BY <1>1, <1>2

\* The share of a benchmark in the weight and in the sum of a mean.
Weighed(scores, weights, f) == IF scores[f] # NoScore THEN weights[f] ELSE 0
Summed(scores, weights, f) == IF scores[f] # NoScore THEN weights[f] * scores[f] ELSE 0

\* The sum and the weight of a mean, term by term.
LEMMA OverallTerms ==
    ASSUME NEW scores \in Scores, NEW weights \in Weights
    PROVE  /\ Overall(scores, weights).weight =
                  Weighed(scores, weights, "gpqa") + Weighed(scores, weights, "swe") + Weighed(scores, weights, "tau")
           /\ Overall(scores, weights).sum =
                  Summed(scores, weights, "gpqa") + Summed(scores, weights, "swe") + Summed(scores, weights, "tau")
           /\ \A f \in Benchmarks : /\ Weighed(scores, weights, f) \in Nat /\ Summed(scores, weights, f) \in Nat
                                     /\ scores[f] \in Nat
           /\ Available(scores) # {} => Overall(scores, weights) \in Fractions
           /\ Available(scores) = {} => Overall(scores, weights).sum = 0 /\ Overall(scores, weights).weight = 0
<1>1. /\ Overall(scores, weights).weight =
             Weighed(scores, weights, "gpqa") + Weighed(scores, weights, "swe") + Weighed(scores, weights, "tau")
      /\ Overall(scores, weights).sum =
             Summed(scores, weights, "gpqa") + Summed(scores, weights, "swe") + Summed(scores, weights, "tau")
      /\ Overall(scores, weights) = [sum |-> Overall(scores, weights).sum,
                                     weight |-> Overall(scores, weights).weight]
  BY DEF Overall, SumOf, Available, Benchmarks, Weighed, Summed
<1>2. \A f \in Benchmarks : scores[f] \in Nat /\ weights[f] \in Nat \ {0}
  BY DEF Scores, Weights, Benchmarks
<1>3. ASSUME NEW f \in Benchmarks
      PROVE  /\ Weighed(scores, weights, f) \in Nat /\ Summed(scores, weights, f) \in Nat
             /\ f \in Available(scores) => Weighed(scores, weights, f) > 0
             /\ f \notin Available(scores) => Weighed(scores, weights, f) = 0 /\ Summed(scores, weights, f) = 0
  BY <1>2, TimesKeepsOrder DEF Weighed, Summed, Available
<1>4. Available(scores) \subseteq Benchmarks
  BY DEF Available
<1>5. Available(scores) # {} => Overall(scores, weights) \in Fractions
  <2>1. Overall(scores, weights).sum \in Nat /\ Overall(scores, weights).weight \in Nat
    BY <1>1, <1>3 DEF Benchmarks
  <2>2. Available(scores) # {} => Overall(scores, weights).weight > 0
    BY <1>1, <1>3, <1>4 DEF Benchmarks
  <2> QED
    BY <1>1, <2>1, <2>2 DEF Fractions
<1>6. Available(scores) = {} => Overall(scores, weights).sum = 0 /\ Overall(scores, weights).weight = 0
  BY <1>1, <1>3 DEF Benchmarks
<1> QED
  BY <1>1, <1>2, <1>3, <1>5, <1>6

\* A mean of numbers lies between one of them and another.
LEMMA MeanBetween ==
    ASSUME NEW scores \in Scores, NEW weights \in Weights, Available(scores) # {}
    PROVE  /\ \E f \in Available(scores) :
                  scores[f] * Overall(scores, weights).weight <= Overall(scores, weights).sum
           /\ \E f \in Available(scores) :
                  scores[f] * Overall(scores, weights).weight >= Overall(scores, weights).sum
<1> DEFINE w(f) == Weighed(scores, weights, f)
           s(f) == Summed(scores, weights, f)
<1>1. /\ Overall(scores, weights).weight = w("gpqa") + w("swe") + w("tau")
      /\ Overall(scores, weights).sum = s("gpqa") + s("swe") + s("tau")
      /\ \A f \in Benchmarks : w(f) \in Nat /\ s(f) \in Nat /\ scores[f] \in Nat
  BY OverallTerms
<1>2. /\ Available(scores) \subseteq Benchmarks
      /\ \A g \in Benchmarks : g \in Available(scores) => s(g) = scores[g] * w(g)
      /\ \A g \in Benchmarks : g \notin Available(scores) => s(g) = 0 /\ w(g) = 0
  <2>1. \A f \in Benchmarks : scores[f] \in Nat /\ weights[f] \in Nat
    BY DEF Scores, Weights, Benchmarks
  <2> QED
    BY <2>1 DEF Available, Weighed, Summed
<1>3. /\ \E f \in Available(scores) : \A g \in Available(scores) : scores[f] <= scores[g]
      /\ \E f \in Available(scores) : \A g \in Available(scores) : scores[f] >= scores[g]
  <2> DEFINE all == scores["gpqa"] + scores["swe"] + scores["tau"]
             below == {scores[f] : f \in Available(scores)}
             above == {all - scores[f] : f \in Available(scores)}
  <2>1. all \in Nat /\ \A f \in Available(scores) : scores[f] \in Nat /\ all - scores[f] \in Nat
    BY <1>1, <1>2 DEF Benchmarks
  <2> HIDE DEF all
  <2>2. below \in SUBSET Nat /\ below # {} /\ above \in SUBSET Nat /\ above # {}
    BY <2>1
  <2>3. PICK least \in below : \A n \in below : least <= n
    BY <2>2, LeastOf
  <2>4. PICK most \in above : \A n \in above : most <= n
    BY <2>2, LeastOf
  <2>5. PICK f \in Available(scores) : least = scores[f]
    BY <2>3
  <2>6. PICK g \in Available(scores) : most = all - scores[g]
    BY <2>4
  <2>7. \A h \in Available(scores) : scores[f] <= scores[h]
    BY <2>3, <2>5
  <2>8. \A h \in Available(scores) : scores[g] >= scores[h]
    <3> SUFFICES ASSUME NEW h \in Available(scores) PROVE scores[g] >= scores[h]
      OBVIOUS
    <3>1. all - scores[h] \in above
      OBVIOUS
    <3>2. all - scores[g] <= all - scores[h]
      BY <2>4, <2>6, <3>1
    <3>3. all \in Nat /\ scores[g] \in Nat /\ scores[h] \in Nat
      BY <2>1, <2>6
    <3> QED
      BY <3>2, <3>3
  <2> QED
    BY <2>5, <2>6, <2>7, <2>8
<1> HIDE DEF w, s
<1>4. ASSUME NEW n \in Nat
      PROVE  n * (w("gpqa") + w("swe") + w("tau")) = n * w("gpqa") + n * w("swe") + n * w("tau")
  <2>1. w("gpqa") \in Nat /\ w("swe") \in Nat /\ w("tau") \in Nat
    BY <1>1 DEF Benchmarks
  <2> QED
    BY <2>1
<1>5. ASSUME NEW f \in Available(scores), \A g \in Available(scores) : scores[f] <= scores[g]
      PROVE  scores[f] * Overall(scores, weights).weight <= Overall(scores, weights).sum
  <2> DEFINE n == scores[f]
  <2>0. n \in Nat
    BY <1>1, <1>2, <1>5
  <2>1. ASSUME NEW g \in Benchmarks PROVE n * w(g) <= s(g) /\ n * w(g) \in Nat
    <3>1. w(g) \in Nat /\ scores[g] \in Nat
      BY <1>1
    <3>2. CASE g \in Available(scores)
      BY <1>2, <1>5, <2>0, <3>1, <3>2, TimesKeepsOrder
    <3>3. CASE g \notin Available(scores)
      BY <1>2, <2>0, <3>3
    <3> QED
      BY <3>2, <3>3
  <2> HIDE DEF n
  <2>2. n * w("gpqa") + n * w("swe") + n * w("tau") <= s("gpqa") + s("swe") + s("tau")
    BY <1>1, <2>1 DEF Benchmarks
  <2>3. n * Overall(scores, weights).weight <= Overall(scores, weights).sum
    BY <1>1, <1>4, <2>0, <2>2
  <2> QED
    BY <2>3 DEF n
<1>6. ASSUME NEW f \in Available(scores), \A g \in Available(scores) : scores[f] >= scores[g]
      PROVE  scores[f] * Overall(scores, weights).weight >= Overall(scores, weights).sum
  <2> DEFINE n == scores[f]
  <2>0. n \in Nat
    BY <1>1, <1>2, <1>6
  <2>1. ASSUME NEW g \in Benchmarks PROVE n * w(g) >= s(g) /\ n * w(g) \in Nat
    <3>1. w(g) \in Nat /\ scores[g] \in Nat
      BY <1>1
    <3>2. CASE g \in Available(scores)
      <4>1. scores[g] <= n
        BY <1>6, <2>0, <3>1, <3>2
      <4>2. scores[g] * w(g) <= n * w(g) /\ n * w(g) \in Nat /\ scores[g] * w(g) \in Nat
        BY <2>0, <3>1, <4>1, TimesKeepsOrder
      <4> QED
        BY <1>2, <3>2, <4>2
    <3>3. CASE g \notin Available(scores)
      BY <1>2, <2>0, <3>3
    <3> QED
      BY <3>2, <3>3
  <2> HIDE DEF n
  <2>2. n * w("gpqa") + n * w("swe") + n * w("tau") >= s("gpqa") + s("swe") + s("tau")
    BY <1>1, <2>1 DEF Benchmarks
  <2>3. n * Overall(scores, weights).weight >= Overall(scores, weights).sum
    BY <1>1, <1>4, <2>0, <2>2
  <2> QED
    BY <2>3 DEF n
<1> QED
  BY <1>3, <1>5, <1>6

\* In front is a strict order of the ranks that leaves none undecided.
LEMMA AheadOrder ==
    ASSUME NEW ranks \in SUBSET Nat, NEW overall, \A i \in ranks : overall[i] \in Fractions
    PROVE  /\ \A i \in ranks : ~Ahead(overall, i, i)
           /\ \A i, j \in ranks : i # j => Ahead(overall, i, j) \/ Ahead(overall, j, i)
           /\ \A i, j, k \in ranks : Ahead(overall, i, j) /\ Ahead(overall, j, k) => Ahead(overall, i, k)
           /\ \A i, j \in ranks : Ahead(overall, i, j) => ~Above(overall[j], overall[i])
<1> DEFINE better(i, j) == Above(overall[i], overall[j])
<1>1. \A i, j, k \in ranks : ~better(j, i) /\ ~better(k, j) => ~better(k, i)
  BY AboveOrder
<1>2. \A i \in ranks : ~better(i, i)
  BY AboveOrder
<1>3. \A i, j : Ahead(overall, i, j) <=> (better(i, j) \/ (~better(j, i) /\ i < j))
  BY DEF Ahead
<1>7. \A i, j \in ranks : ~(better(i, j) /\ better(j, i))
  <2> SUFFICES ASSUME NEW i \in ranks, NEW j \in ranks, better(i, j), better(j, i)
               PROVE  FALSE
    OBVIOUS
  <2>1. /\ overall[i].sum \in Nat /\ overall[i].weight \in Nat
        /\ overall[j].sum \in Nat /\ overall[j].weight \in Nat
    BY DEF Fractions
  <2>2. overall[i].sum * overall[j].weight \in Nat /\ overall[j].sum * overall[i].weight \in Nat
    BY <2>1, TimesKeepsOrder
  <2> QED
    BY <2>2 DEF Above
<1> HIDE DEF better
<1>4. \A i, j \in ranks : i # j => i < j \/ j < i
  OBVIOUS
<1>5. \A i \in ranks : ~(i < i)
  OBVIOUS
<1>6. \A i, j, k \in ranks : i < j /\ j < k => i < k
  OBVIOUS
<1>8. ASSUME NEW i \in ranks, NEW j \in ranks, NEW k \in ranks, Ahead(overall, i, j), Ahead(overall, j, k)
      PROVE  Ahead(overall, i, k)
  <2>1. ~better(j, i) /\ ~better(k, j)
    BY <1>3, <1>7, <1>8
  <2>2. ~better(k, i)
    BY <1>1, <2>1
  <2>3. CASE better(i, j)
    <3>1. better(i, k)
      BY <1>1, <2>1, <2>3
    <3> QED
      BY <1>3, <3>1
  <2>4. CASE better(j, k)
    <3>1. better(i, k)
      BY <1>1, <2>1, <2>4
    <3> QED
      BY <1>3, <3>1
  <2>5. CASE i < j /\ j < k
    BY <1>3, <1>6, <2>2, <2>5
  <2> QED
    BY <1>3, <1>8, <2>3, <2>4, <2>5
<1>9. \A i \in ranks : ~Ahead(overall, i, i)
  BY <1>2, <1>3, <1>5
<1>10. \A i, j \in ranks : i # j => Ahead(overall, i, j) \/ Ahead(overall, j, i)
  BY <1>3, <1>4
<1>11. \A i, j \in ranks : Ahead(overall, i, j) => ~better(j, i)
  BY <1>3, <1>7
<1> QED
  BY <1>8, <1>9, <1>10, <1>11 DEF better

\* Every place is taken by one model.
LEMMA PlacesTaken ==
    ASSUME NEW ranks \in SUBSET Nat, IsFiniteSet(ranks), NEW overall,
           \A i \in ranks : overall[i] \in Fractions
    PROVE  /\ \A i \in ranks : Place(ranks, overall, i) \in 1 .. Cardinality(ranks)
           /\ \A i, j \in ranks : Place(ranks, overall, i) < Place(ranks, overall, j) => Ahead(overall, i, j)
           /\ \A i, j \in ranks : Place(ranks, overall, i) = Place(ranks, overall, j) => i = j
           /\ \A k \in 1 .. Cardinality(ranks) : \E i \in ranks : Place(ranks, overall, i) = k
<1> DEFINE front(i) == {j \in ranks : Ahead(overall, j, i)}
           n == Cardinality(ranks)
           place(i) == Place(ranks, overall, i)
<1>1. n \in Nat
  BY FS_CardinalityType
<1>2. ASSUME NEW i \in ranks
      PROVE  IsFiniteSet(front(i)) /\ Cardinality(front(i)) \in Nat /\ Cardinality(front(i)) < n
  <2>1. front(i) \in SUBSET ranks /\ i \notin front(i)
    BY AheadOrder
  <2> HIDE DEF front
  <2>2. /\ IsFiniteSet(front(i)) /\ Cardinality(front(i)) <= n
        /\ n = Cardinality(front(i)) => ranks = front(i)
    BY <2>1, FS_Subset
  <2>3. Cardinality(front(i)) \in Nat
    BY <2>2, FS_CardinalityType
  <2> QED
    BY <1>1, <2>1, <2>2, <2>3
<1>3. \A i \in ranks : place(i) \in 1 .. n /\ place(i) = Cardinality(front(i)) + 1
  BY <1>1, <1>2 DEF Place
<1>4. ASSUME NEW i \in ranks, NEW j \in ranks, Ahead(overall, i, j)
      PROVE  place(i) < place(j)
  <2>1. front(i) \in SUBSET front(j) /\ i \in front(j) /\ i \notin front(i)
    BY <1>4, AheadOrder
  <2>2. IsFiniteSet(front(j)) /\ Cardinality(front(j)) \in Nat /\ Cardinality(front(i)) \in Nat
    BY <1>2
  <2>0. place(i) = Cardinality(front(i)) + 1 /\ place(j) = Cardinality(front(j)) + 1
    BY <1>3
  <2> HIDE DEF front, place
  <2>3. /\ Cardinality(front(i)) <= Cardinality(front(j))
        /\ Cardinality(front(j)) = Cardinality(front(i)) => front(j) = front(i)
    BY <2>1, <2>2, FS_Subset
  <2> QED
    BY <2>0, <2>1, <2>2, <2>3
<1> HIDE DEF front, n, place
<1>5. \A i, j \in ranks : place(i) < place(j) => Ahead(overall, i, j)
  <2> SUFFICES ASSUME NEW i \in ranks, NEW j \in ranks, place(i) < place(j)
               PROVE  Ahead(overall, i, j)
    OBVIOUS
  <2>1. place(i) \in Nat /\ place(j) \in Nat
    BY <1>1, <1>3
  <2>2. i # j /\ ~(place(j) < place(i))
    BY <2>1
  <2> QED
    BY <1>4, <2>2, AheadOrder
<1>6. \A i, j \in ranks : place(i) = place(j) => i = j
  <2> SUFFICES ASSUME NEW i \in ranks, NEW j \in ranks, place(i) = place(j), i # j
               PROVE  FALSE
    OBVIOUS
  <2>1. place(i) \in Nat /\ place(j) \in Nat
    BY <1>1, <1>3
  <2>2. ~(place(i) < place(j)) /\ ~(place(j) < place(i))
    BY <2>1
  <2> QED
    BY <1>4, <2>2, AheadOrder
<1>7. \A k \in 1 .. n : \E i \in ranks : place(i) = k
  <2> DEFINE f == [i \in ranks |-> place(i)]
  <2>1. f \in Injection(ranks, 1 .. n)
    BY <1>3, <1>6 DEF Injection, IsInjective
  <2>2. IsFiniteSet(1 .. n) /\ Cardinality(1 .. n) = n
    BY <1>1, FS_Interval
  <2> HIDE DEF f
  <2>3. f \in Surjection(ranks, 1 .. n)
    BY <2>1, <2>2, FS_Injection DEF n
  <2>4. \A k \in 1 .. n : \E i \in ranks : f[i] = k
    BY <2>3 DEF Surjection
  <2> QED
    BY <2>4 DEF f
<1> QED
  BY <1>3, <1>5, <1>6, <1>7 DEF n, place

\* What a ranking of three models holds: the k-th of it is the model of the k-th place.
LEMMA RankedPlaces ==
    ASSUME NEW scores \in [1 .. 3 -> Scores], NEW weights \in Weights
    PROVE  LET ranks == Ranks(scores)
               overall == [i \in DOMAIN scores |-> Overall(scores[i], weights)]
               ranked == Ranked(scores, weights)
           IN  /\ ranks \in SUBSET Nat /\ IsFiniteSet(ranks) /\ ranks \subseteq DOMAIN scores
               /\ \A i \in ranks : overall[i] \in Fractions /\ Available(scores[i]) # {}
               /\ \E length \in Nat : /\ length = (IF Cardinality(ranks) < Top THEN Cardinality(ranks) ELSE Top)
                                      /\ DOMAIN ranked = 1 .. length
               /\ \A k \in DOMAIN ranked :
                      /\ ranked[k].model \in ranks /\ ranked[k].overall = overall[ranked[k].model]
                      /\ Place(ranks, overall, ranked[k].model) = k
<1> DEFINE ranks == Ranks(scores)
           overall == [i \in DOMAIN scores |-> Overall(scores[i], weights)]
           length == IF Cardinality(ranks) < Top THEN Cardinality(ranks) ELSE Top
           EntryAt(k) == CHOOSE i \in ranks : Place(ranks, overall, i) = k
<1>1. ranks \subseteq DOMAIN scores /\ DOMAIN scores = 1 .. 3 /\ ranks \in SUBSET Nat
  BY DEF Ranks
<1>2. IsFiniteSet(ranks)
  <2>0. 1 \in Int /\ 3 \in Int
    OBVIOUS
  <2>1. IsFiniteSet(1 .. 3)
    BY <2>0, FS_Interval, Zenon
  <2> QED
    BY <1>1, <2>1, FS_Subset
<1>3. \A i \in ranks : Available(scores[i]) # {}
  BY DEF Ranks
<1>4. \A i \in ranks : overall[i] \in Fractions
  <2> SUFFICES ASSUME NEW i \in ranks PROVE Overall(scores[i], weights) \in Fractions
    BY <1>1
  <2>1. scores[i] \in Scores
    BY <1>1
  <2> QED
    BY <1>3, <2>1, OverallTerms
<1>5. Cardinality(ranks) \in Nat /\ length \in Nat /\ length <= Cardinality(ranks)
  BY <1>2, FS_CardinalityType, RankingAssumption
<1>6. Ranked(scores, weights) = [k \in 1 .. length |-> [model |-> EntryAt(k), overall |-> overall[EntryAt(k)]]]
  BY DEF Ranked
<1> HIDE DEF ranks, overall, length
<1>7. \A k \in 1 .. length : EntryAt(k) \in ranks /\ Place(ranks, overall, EntryAt(k)) = k
  <2> SUFFICES ASSUME NEW k \in 1 .. length
               PROVE  EntryAt(k) \in ranks /\ Place(ranks, overall, EntryAt(k)) = k
    OBVIOUS
  <2>1. k \in 1 .. Cardinality(ranks)
    BY <1>5
  <2>2. \E i \in ranks : Place(ranks, overall, i) = k
    BY <1>1, <1>2, <1>4, <2>1, PlacesTaken
  <2> QED
    BY <2>2
<1> HIDE DEF EntryAt
<1>8. DOMAIN Ranked(scores, weights) = 1 .. length
  BY <1>6
<1>9. \A k \in 1 .. length : /\ Ranked(scores, weights)[k].model = EntryAt(k)
                             /\ Ranked(scores, weights)[k].overall = overall[EntryAt(k)]
  BY <1>6
<1> QED
  BY <1>1, <1>2, <1>3, <1>4, <1>5, <1>7, <1>8, <1>9 DEF ranks, overall, length

LEMMA BestRanked == ScoreInv => MeanWithinScores /\ BestAreRanked
<1> SUFFICES ASSUME ScoreInv, Scored
             PROVE  MeanWithinScores /\ BestAreRanked
  BY DEF MeanWithinScores, BestAreRanked
<1> DEFINE scores == scenario.scores
           weights == scenario.weights
           ranks == Ranks(scores)
           overall == [i \in DOMAIN scores |-> Overall(scores[i], weights)]
           ranked == scenario.ranked
<1>1. scores \in [1 .. 3 -> Scores] /\ weights \in Weights /\ ranked = Ranked(scores, weights)
  BY DEF ScoreInv
<1> HIDE DEF scores, weights, ranked
<1>2. /\ ranks \in SUBSET Nat /\ IsFiniteSet(ranks) /\ ranks \subseteq DOMAIN scores
      /\ \A i \in ranks : overall[i] \in Fractions /\ Available(scores[i]) # {}
      /\ \E length \in Nat : /\ length = (IF Cardinality(ranks) < Top THEN Cardinality(ranks) ELSE Top)
                             /\ DOMAIN ranked = 1 .. length
      /\ \A k \in DOMAIN ranked :
             /\ ranked[k].model \in ranks /\ ranked[k].overall = overall[ranked[k].model]
             /\ Place(ranks, overall, ranked[k].model) = k
  BY <1>1, RankedPlaces, ZenonT(60)
<1>3. \A i \in DOMAIN scores : scores[i] \in Scores /\ overall[i] = Overall(scores[i], weights)
  BY <1>1
<1> HIDE DEF ranks, overall
<1>4. /\ \A i \in ranks : Place(ranks, overall, i) \in 1 .. Cardinality(ranks)
      /\ \A i, j \in ranks : Place(ranks, overall, i) < Place(ranks, overall, j) => Ahead(overall, i, j)
      /\ \A i, j \in ranks : Place(ranks, overall, i) = Place(ranks, overall, j) => i = j
  BY <1>2, PlacesTaken
<1>5. \A i, j \in ranks : Ahead(overall, i, j) => ~Above(overall[j], overall[i])
  BY <1>2, AheadOrder
<1>6. MeanWithinScores
  <2> SUFFICES ASSUME NEW k \in DOMAIN ranked
               PROVE  /\ \E f \in Available(scores[ranked[k].model]) :
                          scores[ranked[k].model][f] * ranked[k].overall.weight <= ranked[k].overall.sum
                      /\ \E f \in Available(scores[ranked[k].model]) :
                          scores[ranked[k].model][f] * ranked[k].overall.weight >= ranked[k].overall.sum
    BY DEF MeanWithinScores, Range, scores, ranked
  <2> DEFINE i == ranked[k].model
  <2>1. i \in ranks /\ ranked[k].overall = overall[i]
    BY <1>2
  <2> HIDE DEF i
  <2>2. scores[i] \in Scores /\ Available(scores[i]) # {} /\ overall[i] = Overall(scores[i], weights)
    BY <1>2, <1>3, <2>1
  <2>3. /\ \E f \in Available(scores[i]) : scores[i][f] * overall[i].weight <= overall[i].sum
        /\ \E f \in Available(scores[i]) : scores[i][f] * overall[i].weight >= overall[i].sum
    BY <1>1, <2>2, MeanBetween
  <2> QED
    BY <2>1, <2>3 DEF i
<1>7. ASSUME NEW k \in DOMAIN ranked, k > 1
      PROVE  ~Above(ranked[k].overall, ranked[k - 1].overall)
  <2>1. k - 1 \in DOMAIN ranked /\ k \in Nat /\ k - 1 < k
    BY <1>2, <1>7
  <2>2. Ahead(overall, ranked[k - 1].model, ranked[k].model)
    BY <1>2, <1>4, <2>1
  <2> QED
    BY <1>2, <1>5, <2>1, <2>2
<1>8. ASSUME NEW i \in DOMAIN scores \ {ranked[k].model : k \in DOMAIN ranked},
             Cardinality(Available(scores[i])) >= MinCoverage, NEW k \in DOMAIN ranked
      PROVE  ~Above(Overall(scores[i], weights), ranked[k].overall)
  <2>1. CASE Available(scores[i]) = {}
    <3>1. Overall(scores[i], weights).sum = 0 /\ Overall(scores[i], weights).weight = 0
      BY <1>1, <1>3, <2>1, OverallTerms
    <3>2. ranked[k].overall.sum \in Nat /\ ranked[k].overall.weight \in Nat
      BY <1>2 DEF Fractions
    <3> QED
      BY <3>1, <3>2 DEF Above
  <2>2. CASE Available(scores[i]) # {}
    <3>1. i \in ranks
      BY <1>8, <2>2 DEF ranks, Ranks
    <3> DEFINE here == Place(ranks, overall, i)
    <3>2. PICK length \in Nat : /\ length = (IF Cardinality(ranks) < Top THEN Cardinality(ranks) ELSE Top)
                                 /\ DOMAIN ranked = 1 .. length
      BY <1>2
    <3>3. here \in 1 .. Cardinality(ranks) /\ Cardinality(ranks) \in Nat
      BY <1>2, <1>4, <3>1, FS_CardinalityType
    <3>4. here \notin DOMAIN ranked
      <4> SUFFICES ASSUME here \in DOMAIN ranked PROVE FALSE
        OBVIOUS
      <4>1. ranked[here].model \in ranks /\ Place(ranks, overall, ranked[here].model) = here
        BY <1>2
      <4>2. ranked[here].model = i
        BY <1>4, <3>1, <4>1
      <4> QED
        BY <1>8, <4>2
    <3> HIDE DEF here
    <3>5. k < here
      BY <3>2, <3>3, <3>4
    <3>6. Ahead(overall, ranked[k].model, i)
      BY <1>2, <1>4, <3>1, <3>5 DEF here
    <3>7. ~Above(overall[i], overall[ranked[k].model])
      BY <1>2, <1>5, <3>1, <3>6
    <3> QED
      BY <1>2, <1>3, <3>7
  <2> QED
    BY <2>1, <2>2
<1>9. BestAreRanked
  BY <1>7, <1>8, Zenon DEF BestAreRanked, scores, weights, ranked
<1> QED
  BY <1>6, <1>9

LEMMA FetchInvWithin == FetchInv => ReadWithinTtl /\ GapsFade
<1>1. FetchInv => ReadWithinTtl
  BY DEF FetchInv, ReadWithinTtl
<1>2. FetchInv => GapsFade
  <2> SUFFICES ASSUME FetchInv, Fetching, scenario.read.there, ~scenario.read.whole
               PROVE  \E hour \in scenario.gaps :
                          scenario.now - hour < Ttl /\ (scenario.fresh => hour = scenario.now)
    BY DEF GapsFade
  <2>1. /\ scenario.read.data \in scenario.gaps /\ scenario.now - scenario.read.data < Ttl
        /\ scenario.fresh => scenario.read.data = scenario.now
    BY DEF FetchInv, GapKnown
  <2> QED
    BY <2>1
<1> QED
  BY <1>1, <1>2

\* rank.js: whatever is read, cached, lost or asked for anew, the data are fresh and their
\* gaps fade with the cache; of any number of rows each is laid over a model of its stem,
\* over the model of that very name unless another answers to it, and lost only to a later
\* row; for any scores and weights the models that are ranked are the best, in order, by
\* means that lie between their scores.
RankingSpec == FetchSpec /\ OverlaySpec /\ ScoreSpec
LEMMA RankingPart == RankingSpec => []RankingSound
<1>1. FetchInv /\ OverlayInv /\ ScoreInv => RankingSound
  BY FetchInvWithin, NamesakesOverlaid, BestRanked DEF RankingSound
<1> QED
  BY <1>1, FetchInvariant, OverlayInvariant, ScoreInvariant, PTL DEF RankingSpec

-----------------------------------------------------------------------------
(* The deltas of the in-process path.                                      *)

StreamSpec == Init /\ [][StartBridge \/ Delta \/ Finish \/ Elsewhere("bridge")]_scenario

DeltaTypes == {"message", "function_call"}
DeltaPieces == [n : Nat, type : DeltaTypes]
Endings == {Running, "handler's error", "result", "typed error", "SESSION_NO_TERMINAL"}
Streams ==
    [kind : {"bridge"}, handler : BOOLEAN, pushed : Seq(DeltaPieces), buffer : Seq(DeltaPieces), lastType : DeltaTypes,
     batches : Seq([type : DeltaTypes, text : Seq(DeltaPieces) \ {<<>>}]), heard : Seq(DeltaPieces), thrown : BOOLEAN,
     outcome : Endings]

\* The buffer's last piece gives its label, and a batch's last piece the batch's.
Labelled(s) ==
    /\ s.buffer # <<>> => s.lastType = s.buffer[Len(s.buffer)].type
    /\ \A i \in DOMAIN s.batches : s.batches[i].type = s.batches[i].text[Len(s.batches[i].text)].type

LastBatch(s) == s.batches[Len(s.batches)].text

\* What was handed over and what is buffered make what was pushed; a handler that has
\* just thrown has been handed all of it, and the buffer still holds the last batch.
Waits(s) == ~s.thrown /\ s.heard \o s.buffer = s.pushed
HasThrown(s) == s.thrown /\ s.heard = s.pushed /\ s.buffer # <<>>

\* Once the call has ended all was heard, the last batch perhaps twice.
AllHeard(s) == s.heard = s.pushed \/ (s.thrown /\ s.heard = s.pushed \o LastBatch(s))

StreamInv ==
    scenario.kind = "bridge" =>
        /\ scenario \in Streams /\ Labelled(scenario)
        /\ scenario.outcome = Running => Waits(scenario)
        /\ scenario.outcome # Running => AllHeard(scenario)

LEMMA LastPut ==
    ASSUME NEW S, NEW s \in Seq(S), NEW x \in S
    PROVE  /\ Append(s, x) \in Seq(S) /\ Append(s, x) # <<>>
           /\ Append(s, x)[Len(Append(s, x))] = x
           /\ \A i \in DOMAIN Append(s, x) : (i \in DOMAIN s /\ Append(s, x)[i] = s[i]) \/ Append(s, x)[i] = x
  OBVIOUS

LEMMA ConcatAppend ==
    ASSUME NEW S, NEW a \in Seq(S), NEW b \in Seq(S), NEW x \in S
    PROVE  a \o Append(b, x) = Append(a \o b, x)
<1>1. <<x>> \in Seq(S) /\ a \o b \in Seq(S)
  OBVIOUS
<1>2. Append(b, x) = b \o <<x>> /\ Append(a \o b, x) = (a \o b) \o <<x>>
  BY <1>1, AppendIsConcat
<1>3. (a \o b) \o <<x>> = a \o (b \o <<x>>)
  BY <1>1, ConcatAssociative
<1> QED
  BY <1>2, <1>3, Zenon

\* The elements of the second of two sequences follow those of the first.
LEMMA ConcatShift ==
    ASSUME NEW S, NEW a \in Seq(S), NEW b \in Seq(S)
    PROVE  /\ Len(a \o b) = Len(a) + Len(b)
           /\ \A i \in DOMAIN b : (a \o b)[i + Len(a)] = b[i]
<1>1. Len(a) \in Nat /\ Len(b) \in Nat /\ DOMAIN b = 1 .. Len(b)
  OBVIOUS
<1>2. ASSUME NEW i \in DOMAIN b PROVE (a \o b)[i + Len(a)] = b[i]
  <2>1. PICK j \in Nat : j = i + Len(a)
    BY <1>1
  <2>2. j \in 1 .. Len(a) + Len(b) /\ ~(j <= Len(a)) /\ j - Len(a) = i
    BY <1>1, <2>1
  <2>3. (a \o b)[j] = b[j - Len(a)]
    BY <2>2, ConcatProperties
  <2> QED
    BY <2>1, <2>2, <2>3
<1> QED
  BY <1>2, ConcatProperties

\* Conversations of one or two messages are sequences.
LEMMA ConversationTypes ==
    ASSUME NEW S, NEW messages, messages \in UNION {[1 .. n -> S] : n \in 1 .. 2}
    PROVE  messages \in Seq(S)
<1>1. PICK n \in 1 .. 2 : messages \in [1 .. n -> S]
  OBVIOUS
<1>2. n \in Nat
  BY <1>1
<1> QED
  BY <1>1, <1>2

LEMMA PushedOK ==
    ASSUME NEW s \in Streams, Labelled(s), Waits(s), NEW type \in DeltaTypes
    PROVE  /\ Pushed(s, type) \in Streams /\ Labelled(Pushed(s, type)) /\ Waits(Pushed(s, type))
           /\ Pushed(s, type).buffer # <<>> /\ Pushed(s, type).outcome = s.outcome
<1> DEFINE piece == [n |-> Len(s.pushed) + 1, type |-> type]
           t == Pushed(s, type)
<1>1. /\ s.pushed \in Seq(DeltaPieces) /\ s.buffer \in Seq(DeltaPieces) /\ s.heard \in Seq(DeltaPieces)
      /\ piece \in DeltaPieces
  BY DEF Streams, DeltaPieces
<1>2. t = [s EXCEPT !.pushed = Append(@, piece), !.buffer = Append(@, piece), !.lastType = type]
  BY DEF Pushed
<1>3. piece.type = type
  OBVIOUS
<1> HIDE DEF piece, t
<1>4. /\ t.pushed = Append(s.pushed, piece) /\ t.buffer = Append(s.buffer, piece) /\ t.lastType = type
      /\ t.batches = s.batches /\ t.heard = s.heard /\ t.thrown = s.thrown /\ t.outcome = s.outcome
  BY <1>2 DEF Streams
<1>5. t \in Streams
  BY <1>1, <1>2, LastPut DEF Streams
<1>6. t.buffer # <<>> /\ t.buffer[Len(t.buffer)].type = t.lastType
  <2>1. Append(s.buffer, piece) # <<>> /\ Append(s.buffer, piece)[Len(Append(s.buffer, piece))] = piece
    BY <1>1, LastPut
  <2> QED
    BY <1>3, <1>4, <2>1
<1>7. s.heard \o Append(s.buffer, piece) = Append(s.heard \o s.buffer, piece)
  <2>1. \A a, b \in Seq(DeltaPieces), x \in DeltaPieces : a \o Append(b, x) = Append(a \o b, x)
    BY ConcatAppend
  <2> QED
    BY <1>1, <2>1, Zenon
<1>8. Labelled(t)
  BY <1>4, <1>6 DEF Labelled
<1>9. Waits(t)
  BY <1>4, <1>7 DEF Waits
<1> QED
  BY <1>4, <1>5, <1>6, <1>8, <1>9 DEF t

LEMMA HandedOK ==
    ASSUME NEW s \in Streams, Labelled(s), s.buffer # <<>>
    PROVE  /\ Handed(s) \in Streams /\ Labelled(Handed(s))
           /\ Handed(s).heard = s.heard \o s.buffer /\ LastBatch(Handed(s)) = s.buffer
           /\ Handed(s).buffer = s.buffer /\ Handed(s).pushed = s.pushed /\ Handed(s).thrown = s.thrown
           /\ Handed(s).outcome = s.outcome
<1> DEFINE batch == Batch(s)
           Batches == [type : DeltaTypes, text : Seq(DeltaPieces) \ {<<>>}]
           t == Handed(s)
<1>1. s.batches \in Seq(Batches) /\ s.buffer \in Seq(DeltaPieces) /\ s.heard \in Seq(DeltaPieces) /\ s.lastType \in DeltaTypes
  BY DEF Streams
<1>2. batch \in Batches /\ batch.type = batch.text[Len(batch.text)].type /\ batch.text = s.buffer
  BY <1>1 DEF Batch, Labelled
<1>3. t = [s EXCEPT !.batches = Append(@, batch), !.heard = @ \o s.buffer]
  BY DEF Handed
<1> HIDE DEF batch, t
<1>4. /\ t.batches = Append(s.batches, batch) /\ t.heard = s.heard \o s.buffer /\ t.buffer = s.buffer
      /\ t.pushed = s.pushed /\ t.thrown = s.thrown /\ t.lastType = s.lastType /\ t.outcome = s.outcome
  BY <1>3 DEF Streams
<1>5. Append(s.batches, batch) \in Seq(Batches) /\ s.heard \o s.buffer \in Seq(DeltaPieces)
  BY <1>1, <1>2, LastPut
<1>6. t \in Streams
  BY <1>3, <1>5 DEF Streams
<1>7. /\ t.batches[Len(t.batches)] = batch
      /\ \A i \in DOMAIN t.batches :
             (i \in DOMAIN s.batches /\ t.batches[i] = s.batches[i]) \/ t.batches[i] = batch
  BY <1>1, <1>2, <1>4, LastPut
<1>8. LastBatch(t) = s.buffer
  BY <1>2, <1>7 DEF LastBatch
<1>9. Labelled(t)
  BY <1>2, <1>4, <1>7 DEF Labelled
<1> QED
  BY <1>4, <1>6, <1>8, <1>9 DEF t

LEMMA DeliverOK ==
    ASSUME NEW s \in Streams, Labelled(s)
    PROVE  /\ Deliver(s) \in Streams /\ Labelled(Deliver(s))
           /\ Deliver(s).heard = s.heard \o s.buffer /\ Deliver(s).buffer = <<>>
           /\ Deliver(s).pushed = s.pushed /\ Deliver(s).thrown = s.thrown /\ Deliver(s).outcome = s.outcome
           /\ s.buffer # <<>> => LastBatch(Deliver(s)) = s.buffer
<1>1. CASE s.buffer = <<>>
  <2>1. s.heard \in Seq(DeltaPieces)
    BY DEF Streams
  <2>2. s.heard \o <<>> = s.heard
    BY <2>1
  <2> QED
    BY <1>1, <2>2 DEF Deliver
<1>2. CASE s.buffer # <<>>
  <2> DEFINE h == Handed(s)
             t == [h EXCEPT !.buffer = <<>>]
  <2>1. Deliver(s) = t
    BY <1>2 DEF Deliver
  <2>2. /\ h \in Streams /\ Labelled(h) /\ h.heard = s.heard \o s.buffer /\ LastBatch(h) = s.buffer
        /\ h.pushed = s.pushed /\ h.thrown = s.thrown /\ h.outcome = s.outcome
    BY <1>2, HandedOK
  <2> HIDE DEF h
  <2>3. t \in Streams
    <3>1. <<>> \in Seq(DeltaPieces)
      OBVIOUS
    <3> QED
      BY <2>2, <3>1 DEF Streams
  <2>4. /\ t.heard = h.heard /\ t.pushed = h.pushed /\ t.thrown = h.thrown /\ t.batches = h.batches
        /\ t.buffer = <<>> /\ t.outcome = h.outcome
    BY <2>2 DEF Streams
  <2> HIDE DEF t
  <2>5. Labelled(t) /\ LastBatch(t) = s.buffer
    BY <2>2, <2>4 DEF Labelled, LastBatch
  <2> QED
    BY <2>1, <2>2, <2>3, <2>4, <2>5
<1> QED
  BY <1>1, <1>2

LEMMA ThrowsOK ==
    ASSUME NEW s \in Streams, Labelled(s), s.buffer # <<>>
    PROVE  /\ DeliverThrows(s) \in Streams /\ Labelled(DeliverThrows(s))
           /\ DeliverThrows(s).heard = s.heard \o s.buffer /\ DeliverThrows(s).buffer = s.buffer
           /\ DeliverThrows(s).pushed = s.pushed /\ DeliverThrows(s).thrown
           /\ LastBatch(DeliverThrows(s)) = s.buffer
<1> DEFINE h == Handed(s)
           t == [h EXCEPT !.thrown = TRUE]
<1>1. /\ h \in Streams /\ Labelled(h) /\ h.heard = s.heard \o s.buffer /\ h.buffer = s.buffer
      /\ h.pushed = s.pushed /\ LastBatch(h) = s.buffer
  BY HandedOK
<1> HIDE DEF h
<1>2. /\ t \in Streams /\ t.thrown = TRUE /\ t.buffer = s.buffer /\ t.lastType = h.lastType
      /\ t.batches = h.batches /\ t.heard = h.heard /\ t.pushed = h.pushed
  BY <1>1 DEF Streams
<1>3. Labelled(t) /\ LastBatch(t) = s.buffer
  BY <1>1, <1>2 DEF Labelled, LastBatch
<1> QED
  BY <1>1, <1>2, <1>3 DEF DeliverThrows, h

\* However it ends, what is left in the buffer is handed over first; the batch at which
\* the handler has thrown is the last one, and is handed over again.
LEMMA LeaveOK ==
    ASSUME NEW s \in Streams, Labelled(s), Waits(s) \/ HasThrown(s),
           NEW outcome \in Endings \ {Running}, Leave(s, outcome)
    PROVE  scenario' \in Streams /\ Labelled(scenario') /\ scenario'.outcome # Running /\ AllHeard(scenario')
<1>1. ASSUME NEW t \in Streams, Labelled(t), AllHeard(t), NEW out \in Endings \ {Running},
             scenario' = [t EXCEPT !.outcome = out]
      PROVE  scenario' \in Streams /\ Labelled(scenario') /\ scenario'.outcome # Running /\ AllHeard(scenario')
  <2>1. /\ scenario' \in Streams /\ scenario'.thrown = t.thrown /\ scenario'.heard = t.heard
        /\ scenario'.buffer = t.buffer /\ scenario'.pushed = t.pushed /\ scenario'.lastType = t.lastType
        /\ scenario'.batches = t.batches /\ scenario'.outcome = out
    BY <1>1 DEF Streams
  <2> QED
    BY <1>1, <2>1 DEF Labelled, AllHeard, LastBatch
<1>2. Waits(s) => s.heard \o s.buffer = s.pushed
  BY DEF Waits
<1>3. HasThrown(s) => s.thrown /\ s.buffer # <<>> /\ s.heard \o s.buffer = s.pushed \o s.buffer
  BY DEF HasThrown
<1>4. CASE scenario' = [Deliver(s) EXCEPT !.outcome = outcome]
  <2>1. AllHeard(Deliver(s))
    BY <1>2, <1>3, DeliverOK DEF AllHeard
  <2> QED
    BY <1>1, <1>4, <2>1, DeliverOK
<1>5. CASE s.buffer # <<>> /\ scenario' = [DeliverThrows(s) EXCEPT !.outcome = "handler's error"]
  <2>1. "handler's error" \in Endings \ {Running}
    BY DEF Endings, Running
  <2>2. AllHeard(DeliverThrows(s))
    BY <1>2, <1>3, <1>5, ThrowsOK DEF AllHeard
  <2> QED
    BY <1>1, <1>5, <2>1, <2>2, ThrowsOK
<1> QED
  BY <1>4, <1>5 DEF Leave

LEMMA StreamInvariant == StreamSpec => []StreamInv
<1>1. Init => StreamInv
  BY DEF Init, Idle, StreamInv
<1>2. StreamInv /\ [StartBridge \/ Delta \/ Finish \/ Elsewhere("bridge")]_scenario => StreamInv'
  <2> SUFFICES ASSUME StreamInv, [StartBridge \/ Delta \/ Finish \/ Elsewhere("bridge")]_scenario
               PROVE  StreamInv'
    OBVIOUS
  <2>1. CASE StartBridge
    <3>1. PICK handler \in BOOLEAN : scenario' = NewStream(handler)
      BY <2>1 DEF StartBridge
    <3>2. scenario' \in Streams
      <4>1. \A S : <<>> \in Seq(S)
        OBVIOUS
      <4> QED
        BY <3>1, <4>1 DEF NewStream, Streams, Endings, DeltaTypes
    <3>3. /\ scenario'.heard = <<>> /\ scenario'.buffer = <<>> /\ scenario'.pushed = <<>>
          /\ scenario'.batches = <<>> /\ ~scenario'.thrown /\ scenario'.outcome = Running
      BY <3>1 DEF NewStream
    <3>4. Labelled(scenario') /\ Waits(scenario')
      BY <3>3 DEF Labelled, Waits
    <3> QED
      BY <3>2, <3>3, <3>4 DEF StreamInv
  <2>2. CASE Delta
    <3>1. scenario \in Streams /\ Labelled(scenario) /\ Waits(scenario) /\ scenario.outcome = Running
      BY <2>2 DEF Delta, Streaming, StreamInv
    <3>2. CASE UNCHANGED scenario
      BY <3>2 DEF StreamInv
    <3>3. CASE \E type \in DeltaTypes : LET stream == Pushed(scenario, type)
              IN  \/ scenario' = Deliver(stream)
                  \/ scenario' = stream
                  \/ Leave(DeliverThrows(stream), "handler's error")
      <4>1. PICK type \in DeltaTypes :
              \/ scenario' = Deliver(Pushed(scenario, type))
              \/ scenario' = Pushed(scenario, type)
              \/ Leave(DeliverThrows(Pushed(scenario, type)), "handler's error")
        BY <3>3, Zenon
      <4> DEFINE stream == Pushed(scenario, type)
      <4>2. /\ stream \in Streams /\ Labelled(stream) /\ Waits(stream) /\ stream.buffer # <<>>
            /\ stream.outcome = Running
        BY <3>1, PushedOK
      <4>3. "handler's error" \in Endings \ {Running}
        BY DEF Endings, Running
      <4> HIDE DEF stream
      <4>4. CASE scenario' = Deliver(stream)
        <5>1. scenario'.heard = stream.pushed /\ scenario'.pushed = stream.pushed /\ scenario'.buffer = <<>>
          BY <4>2, <4>4, DeliverOK DEF Waits
        <5>2. stream.pushed \in Seq(DeltaPieces)
          BY <4>2 DEF Streams
        <5>3. stream.pushed \o <<>> = stream.pushed
          BY <5>2
        <5>4. Waits(scenario')
          BY <4>2, <4>4, <5>1, <5>3, DeliverOK DEF Waits
        <5> QED
          BY <4>2, <4>4, <5>4, DeliverOK DEF StreamInv
      <4>5. CASE scenario' = stream
        BY <4>2, <4>5 DEF StreamInv
      <4>6. CASE Leave(DeliverThrows(stream), "handler's error")
        <5>1. HasThrown(DeliverThrows(stream))
          BY <4>2, ThrowsOK DEF HasThrown, Waits
        <5>2. /\ scenario' \in Streams /\ Labelled(scenario') /\ scenario'.outcome # Running
              /\ AllHeard(scenario')
          BY <4>2, <4>3, <4>6, <5>1, ThrowsOK, LeaveOK
        <5> QED
          BY <5>2 DEF StreamInv
      <4> QED
        BY <4>1, <4>4, <4>5, <4>6 DEF stream
    <3> QED
      BY <2>2, <3>2, <3>3, Zenon DEF Delta, DeltaTypes
  <2>3. CASE Finish
    <3>1. scenario \in Streams /\ Labelled(scenario) /\ Waits(scenario)
      BY <2>3 DEF Finish, Streaming, StreamInv
    <3>2. PICK terminal \in DOMAIN Outcomes : Leave(scenario, Outcomes[terminal])
      BY <2>3 DEF Finish
    <3>3. Outcomes[terminal] \in Endings \ {Running}
      <4>1. terminal \in {"done", "error", "none"}
        BY <3>2 DEF Outcomes
      <4>2. Outcomes.done = "result" /\ Outcomes.error = "typed error" /\ Outcomes.none = "SESSION_NO_TERMINAL"
        BY DEF Outcomes
      <4> QED
        BY <4>1, <4>2 DEF Endings, Running
    <3> HIDE DEF Outcomes
    <3>4. scenario' \in Streams /\ Labelled(scenario') /\ scenario'.outcome # Running /\ AllHeard(scenario')
      BY <3>1, <3>2, <3>3, LeaveOK
    <3> QED
      BY <3>4 DEF StreamInv
  <2>4. CASE Elsewhere("bridge") \/ UNCHANGED scenario
    BY <2>4 DEF Elsewhere, StreamInv
  <2> QED
    BY <2>1, <2>2, <2>3, <2>4
<1> QED
  BY <1>1, <1>2, PTL DEF StreamSpec

EnvelopeSpec == Init /\ [][SetOptions \/ Convert \/ (Elsewhere("options") /\ Elsewhere("prompt"))]_scenario

OptionNames == {"outputBudget", "idleHeartbeatMs", "cache", "parallelToolCalls", "outputEffort"}

\* The values that the caller may give, and what the envelope then is.
OptionsInv ==
    scenario.kind = "options" =>
        /\ scenario.envelope = Envelope(scenario.options)
        /\ DOMAIN scenario.options = OptionNames
        /\ scenario.options["parallelToolCalls"] \in {Missing, "true", "false"}
        /\ scenario.options["outputEffort"] \in {Missing, "none", "high"}

HistoryMessages == Results \cup Assistants \cup {PlainMessage("user", "hi")}
PromptInv ==
    scenario.kind = "prompt" =>
        /\ scenario.given.messages \in Seq(HistoryMessages)
        /\ scenario.sent = EnvelopePrompt(scenario.given)

LEMMA EnvelopeInvariant == EnvelopeSpec => [](OptionsInv /\ PromptInv)
<1>1. Init => OptionsInv /\ PromptInv
  BY DEF Init, Idle, OptionsInv, PromptInv
<1>2. (OptionsInv /\ PromptInv)
        /\ [SetOptions \/ Convert \/ (Elsewhere("options") /\ Elsewhere("prompt"))]_scenario
          => (OptionsInv /\ PromptInv)'
  <2> SUFFICES ASSUME OptionsInv, PromptInv,
                      [SetOptions \/ Convert \/ (Elsewhere("options") /\ Elsewhere("prompt"))]_scenario
               PROVE  (OptionsInv /\ PromptInv)'
    OBVIOUS
  <2>1. CASE SetOptions
    <3>1. PICK budget \in {Missing, "0", "9"}, idle \in {Missing, "0", "9"},
               cache \in {Missing, "true", "false"}, parallel \in {Missing, "true", "false"}, effort \in {Missing, "none", "high"} :
              scenario' = [kind |-> "options",
                  options |-> [outputBudget |-> budget, idleHeartbeatMs |-> idle, cache |-> cache,
                               parallelToolCalls |-> parallel, outputEffort |-> effort],
                  envelope |-> Envelope([outputBudget |-> budget, idleHeartbeatMs |-> idle, cache |-> cache,
                               parallelToolCalls |-> parallel, outputEffort |-> effort])]
      BY <2>1, Zenon DEF SetOptions
    <3> QED
      BY <3>1 DEF OptionsInv, PromptInv, OptionNames
  <2>2. CASE Convert
    <3>1. PICK system, messages :
              /\ messages \in UNION {[1 .. n -> HistoryMessages] : n \in 1 .. 2}
              /\ scenario' = [kind |-> "prompt", given |-> [system |-> system, messages |-> messages],
                              sent |-> EnvelopePrompt([system |-> system, messages |-> messages])]
      BY <2>2, Zenon DEF Convert, HistoryMessages
    <3>2. messages \in Seq(HistoryMessages)
      BY <3>1, ConversationTypes, Zenon
    <3>3. /\ scenario'.kind = "prompt" /\ scenario'.given.messages = messages
          /\ scenario'.given = [system |-> system, messages |-> messages]
          /\ scenario'.sent = EnvelopePrompt([system |-> system, messages |-> messages])
      BY <3>1, Zenon
    <3> QED
      BY <3>2, <3>3 DEF OptionsInv, PromptInv
  <2>3. CASE (Elsewhere("options") /\ Elsewhere("prompt")) \/ UNCHANGED scenario
    BY <2>3 DEF Elsewhere, OptionsInv, PromptInv
  <2> QED
    BY <2>1, <2>2, <2>3
<1> QED
  BY <1>1, <1>2, PTL DEF EnvelopeSpec

LEMMA OptionsArrive == OptionsInv => SettingsArrive
<1> SUFFICES ASSUME OptionsInv, scenario.kind = "options", NEW name \in DOMAIN scenario.options,
                    scenario.options[name] # Missing,
                    <<name, scenario.options[name]>> # <<"parallelToolCalls", "true">>
             PROVE  name \in DOMAIN scenario.envelope /\ scenario.envelope[name] = scenario.options[name]
  BY DEF SettingsArrive
<1> DEFINE options == scenario.options
<1>1. name \in OptionNames /\ scenario.envelope = Envelope(options)
  BY DEF OptionsInv
<1>2. CASE name \in {"outputBudget", "cache", "idleHeartbeatMs"}
  BY <1>1, <1>2 DEF Envelope
<1>3. CASE name = "parallelToolCalls"
  BY <1>1, <1>3 DEF Envelope, OptionsInv
<1>4. CASE name = "outputEffort"
  BY <1>1, <1>4 DEF Envelope, OptionsInv, Truthy
<1> QED
  BY <1>1, <1>2, <1>3, <1>4 DEF OptionNames

LEMMA MessageTypes ==
    ASSUME NEW m \in HistoryMessages
    PROVE  /\ m = [role |-> m.role, content |-> m.content, calls |-> m.calls, callId |-> m.callId,
                   tool |-> m.tool]
           /\ m.role \in {"tool", "tool_result", "assistant", "user"}
           /\ m.role # "assistant" => m.calls = <<>>
           /\ m.calls \in CallLists
<1>1. CASE m \in Results
  <2>1. PICK role \in {"tool", "tool_result"}, content \in {Missing, "42"}, tool \in {Missing, "f"} :
            m = [PlainMessage(role, content) EXCEPT !.callId = "1", !.tool = tool]
    BY <1>1 DEF Results
  <2>2. m = [role |-> role, content |-> content, calls |-> <<>>, callId |-> "1", tool |-> tool]
    BY <2>1 DEF PlainMessage
  <2> QED
    BY <2>2 DEF CallLists
<1>2. CASE m \in Assistants
  <2>1. PICK content \in {Missing, "hm"}, calls \in CallLists :
            m = [PlainMessage("assistant", content) EXCEPT !.calls = calls]
    BY <1>2 DEF Assistants
  <2>2. m = [role |-> "assistant", content |-> content, calls |-> calls, callId |-> Missing, tool |-> Missing]
    BY <2>1 DEF PlainMessage
  <2> QED
    BY <2>1, <2>2
<1>3. CASE m = PlainMessage("user", "hi")
  BY <1>3 DEF PlainMessage, CallLists
<1> QED
  BY <1>1, <1>2, <1>3 DEF HistoryMessages

\* A call stays as it was when its arguments are filled in.
LEMMA CallsKept ==
    ASSUME NEW calls \in CallLists, NEW k \in DOMAIN calls
    PROVE  CallKept(EnvelopeCall(calls[k]), calls[k])
<1>1. PICK call : call \in Calls /\ calls = <<call>>
  <2>1. calls # <<>>
    OBVIOUS
  <2> QED
    BY <2>1 DEF CallLists
<1>2. k = 1 /\ calls[k] = call
  BY <1>1
<1>3. \E signature \in {Missing, "sig"}, args \in {Missing, "x"} : call = Call("1", signature, args)
  BY <1>1 DEF Calls
<1> QED
  BY <1>2, <1>3 DEF EnvelopeCall, Call, CallKept

\* Of every message all that the envelope has a place for stays.
LEMMA MessageKept ==
    ASSUME NEW m \in HistoryMessages
    PROVE  ArrivedAs(EnvelopeMessage(m), m)
<1> DEFINE sent == EnvelopeMessage(m)
<1>1. CASE m.role \in {"tool", "tool_result"}
  <2>1. sent = [m EXCEPT !.role = "tool", !.content = OrEmpty(@), !.calls = <<>>]
    BY <1>1 DEF EnvelopeMessage
  <2>2. /\ sent.role = "tool" /\ sent.callId = m.callId /\ sent.tool = m.tool /\ sent.calls = <<>>
        /\ sent.content = OrEmpty(m.content) /\ m.calls = <<>>
    BY <1>1, <2>1, MessageTypes
  <2> HIDE DEF sent
  <2>3. DOMAIN sent.calls = {}
    BY <2>2
  <2>4. /\ sent.role = IF m.role = "tool_result" THEN "tool" ELSE m.role
        /\ sent.content = IF m.content = Missing THEN "" ELSE m.content
        /\ sent.role = "tool" => <<sent.callId, sent.tool>> = <<m.callId, m.tool>>
        /\ Len(sent.calls) = Len(m.calls)
    BY <1>1, <2>2 DEF OrEmpty
  <2>5. ArrivedAs(sent, m)
    BY <2>3, <2>4 DEF ArrivedAs
  <2> QED
    BY <2>5 DEF sent
<1>2. CASE m.role = "assistant" /\ m.calls # <<>>
  <2> DEFINE calls == [i \in DOMAIN m.calls |-> EnvelopeCall(m.calls[i])]
  <2>1. sent = [PlainMessage("assistant", OrEmpty(m.content)) EXCEPT !.calls = calls]
    BY <1>2 DEF EnvelopeMessage
  <2>2. sent.calls = calls /\ sent.role = "assistant" /\ sent.content = OrEmpty(m.content)
    BY <2>1 DEF PlainMessage
  <2>3. m.calls \in CallLists
    BY MessageTypes
  <2>4. DOMAIN m.calls = {1} /\ Len(m.calls) = 1
    <3>1. PICK call : m.calls = <<call>>
      BY <1>2, <2>3 DEF CallLists
    <3> QED
      BY <3>1
  <2>5. calls = <<EnvelopeCall(m.calls[1])>>
    BY <2>4
  <2>6. Len(sent.calls) = Len(m.calls)
    BY <2>2, <2>4, <2>5
  <2>7. ASSUME NEW k \in DOMAIN sent.calls
        PROVE  CallKept(sent.calls[k], m.calls[k])
    <3>1. k \in DOMAIN m.calls /\ sent.calls[k] = EnvelopeCall(m.calls[k])
      BY <2>2, <2>4, <2>7
    <3> QED
      BY <2>3, <3>1, CallsKept
  <2> HIDE DEF sent
  <2> QED
    BY <1>2, <2>2, <2>6, <2>7 DEF ArrivedAs, OrEmpty, sent
<1>3. CASE m.role = "user" \/ (m.role = "assistant" /\ m.calls = <<>>)
  <2>1. sent = PlainMessage(m.role, OrEmpty(m.content))
    BY <1>3 DEF EnvelopeMessage
  <2>2. sent.calls = <<>> /\ m.calls = <<>> /\ sent.role = m.role /\ sent.content = OrEmpty(m.content)
    BY <1>3, <2>1, MessageTypes DEF PlainMessage
  <2> HIDE DEF sent
  <2>3. DOMAIN sent.calls = {}
    BY <2>2
  <2>4. /\ sent.role = IF m.role = "tool_result" THEN "tool" ELSE m.role
        /\ sent.content = IF m.content = Missing THEN "" ELSE m.content
        /\ sent.role = "tool" => <<sent.callId, sent.tool>> = <<m.callId, m.tool>>
        /\ Len(sent.calls) = Len(m.calls)
    BY <1>3, <2>2 DEF OrEmpty
  <2>5. ArrivedAs(sent, m)
    BY <2>3, <2>4 DEF ArrivedAs
  <2> QED
    BY <2>5 DEF sent
<1> QED
  BY <1>1, <1>2, <1>3, MessageTypes

LEMMA HistoryStays == PromptInv => HistoryKept
<1> SUFFICES ASSUME PromptInv, scenario.kind = "prompt" PROVE HistoryKept
  BY DEF HistoryKept
<1> DEFINE given == scenario.given.messages
           converted == [i \in DOMAIN given |-> EnvelopeMessage(given[i])]
           front == IF scenario.given.system = Missing THEN <<>>
                    ELSE <<PlainMessage("system", scenario.given.system)>>
           ahead == IF scenario.given.system = Missing THEN 0 ELSE 1
<1>1. given \in Seq(HistoryMessages) /\ scenario.sent = front \o converted
  BY DEF PromptInv, EnvelopePrompt
<1>2. DOMAIN given = 1 .. Len(given) /\ Len(given) \in Nat
  BY <1>1
<1>3. Len(front) = ahead /\ ahead \in Nat /\ Len(converted) = Len(given)
  BY <1>2
<1>4. /\ Len(scenario.sent) = Len(given) + ahead
      /\ \A i \in DOMAIN given : scenario.sent[i + ahead] = EnvelopeMessage(given[i])
  <2> DEFINE system == PlainMessage("system", scenario.given.system)
             all == {EnvelopeMessage(given[i]) : i \in DOMAIN given} \cup {system}
  <2>1. front \in Seq(all)
    <3>1. system \in all
      OBVIOUS
    <3>2. front = <<>> \/ front = <<system>>
      OBVIOUS
    <3> HIDE DEF all, front, system
    <3>3. <<>> \in Seq(all) /\ <<system>> \in Seq(all)
      BY <3>1
    <3> QED
      BY <3>2, <3>3
  <2>2. converted \in Seq(all) /\ DOMAIN converted = DOMAIN given
    <3>1. converted \in [1 .. Len(given) -> all]
      BY <1>2
    <3> HIDE DEF all
    <3> QED
      BY <1>2, <3>1
  <2>3. \A i \in DOMAIN given : converted[i] = EnvelopeMessage(given[i])
    OBVIOUS
  <2> HIDE DEF all, front, converted
  <2>4. /\ Len(front \o converted) = Len(front) + Len(converted)
        /\ \A i \in DOMAIN converted : (front \o converted)[i + Len(front)] = converted[i]
    BY <2>1, <2>2, ConcatShift
  <2> HIDE DEF given, ahead
  <2>5. Len(front) + Len(given) = Len(given) + ahead
    BY <1>2, <1>3
  <2> QED
    BY <1>1, <1>3, <2>2, <2>3, <2>4, <2>5
<1>5. Len(scenario.sent) - Len(given) = ahead
  BY <1>2, <1>3, <1>4
<1>6. ASSUME NEW i \in DOMAIN given
      PROVE  ArrivedAs(scenario.sent[i + ahead], given[i])
  <2>1. given[i] \in HistoryMessages /\ scenario.sent[i + ahead] = EnvelopeMessage(given[i])
    BY <1>1, <1>4
  <2> QED
    BY <2>1, MessageKept
<1>7. ASSUME ahead = 1
      PROVE  ArrivedAs(scenario.sent[1], PlainMessage("system", scenario.given.system))
  <2> DEFINE system == PlainMessage("system", scenario.given.system)
  <2>1. front = <<system>> /\ scenario.given.system # Missing
    BY <1>7
  <2>2. system.role = "system" /\ system.content # Missing /\ system.calls = <<>>
    BY <2>1 DEF PlainMessage
  <2>3. scenario.sent[1] = system
    <3> DEFINE S == {EnvelopeMessage(given[i]) : i \in DOMAIN given} \cup {system}
    <3>1. system \in S /\ converted \in [1 .. Len(given) -> S]
      BY <1>2
    <3> HIDE DEF S, system, converted, front
    <3>2. <<system>> \in Seq(S) /\ converted \in Seq(S)
      BY <1>2, <3>1
    <3>3. (<<system>> \o converted)[1] = system
      BY <3>2
    <3> QED
      BY <1>1, <2>1, <3>3
  <2> HIDE DEF system
  <2>4. ArrivedAs(system, system)
    BY <2>2 DEF ArrivedAs
  <2> QED
    BY <2>3, <2>4 DEF system
<1> HIDE DEF given, ahead
<1> QED
  BY <1>5, <1>6, <1>7, ZenonT(60) DEF HistoryKept, given, ahead

\* bridge.js and utils.js: however deltas are batched and whatever ends the call, when it
\* has ended the handler has heard all of the text in order, once if it has not thrown, and
\* otherwise perhaps the last batch again; settings and histories reach the session as they
\* were given, contents and arguments included.
LEMMA BridgePart == StreamSpec /\ EnvelopeSpec => []BridgeFaithful
<1>1. StreamInv => StreamWhole /\ BatchLabelled
  BY DEF StreamInv, Labelled, Waits, AllHeard, LastBatch, StreamWhole, BatchLabelled
<1>2. StreamInv /\ OptionsInv /\ PromptInv => BridgeFaithful
  BY <1>1, OptionsArrive, HistoryStays DEF BridgeFaithful
<1> QED
  BY <1>2, StreamInvariant, EnvelopeInvariant, PTL

-----------------------------------------------------------------------------
(* All of the cases together: a step of one case is a step elsewhere for   *)
(* the others, so that what is proved above of the behaviours of each      *)
(* module holds of those of Algorithms, the specification that is checked. *)

HasKind == "kind" \in DOMAIN scenario

\* A step that begins a case of this kind or goes on with one.
Belongs(kind) == scenario.kind \in {"idle", kind} /\ scenario'.kind = kind /\ HasKind'

LEMMA TalkOwn ==
    HasKind /\ (Talk \/ Say) => Belongs("talk")
<1>1. HasKind /\ Talk => Belongs("talk")
  BY DEF HasKind, Belongs, Talk, Idle
<1>2. HasKind /\ Say => Belongs("talk")
  BY DEF HasKind, Belongs, Say
<1> QED
  BY <1>1, <1>2

LEMMA SettingsOwn ==
    HasKind /\ (Set) => Belongs("settings")
BY DEF HasKind, Belongs, Set, Idle

LEMMA ToolsOwn ==
    HasKind /\ (Choose) => Belongs("tools")
BY DEF HasKind, Belongs, Choose, Idle

LEMMA ErrorsOwn ==
    HasKind /\ (Fail \/ FailAgain) => Belongs("errors")
<1>1. HasKind /\ Fail => Belongs("errors")
  BY DEF HasKind, Belongs, Fail, Idle
<1>2. HasKind /\ FailAgain => Belongs("errors")
  BY DEF HasKind, Belongs, FailAgain
<1> QED
  BY <1>1, <1>2

LEMMA PriceOwn ==
    HasKind /\ (Quote) => Belongs("price")
BY DEF HasKind, Belongs, Quote, Idle

LEMMA BillOwn ==
    HasKind /\ (Bill) => Belongs("bill")
BY DEF HasKind, Belongs, Bill, Idle

LEMMA TranscriptOwn ==
    HasKind /\ (Transcribe) => Belongs("transcript")
BY DEF HasKind, Belongs, Transcribe, Idle

LEMMA NamesOwn ==
    HasKind /\ (NameModels) => Belongs("names")
BY DEF HasKind, Belongs, NameModels, Idle

LEMMA UseOwn ==
    HasKind /\ (AskModel \/ FollowReplacement \/ UseModel) => Belongs("use")
<1>1. HasKind /\ AskModel => Belongs("use")
  <2>1. AskModel => \E catalog, asked, at, seen, outcome :
           scenario' = [kind |-> "use", catalog |-> catalog, asked |-> asked, at |-> at, seen |-> seen,
                        outcome |-> outcome]
    BY Zenon DEF AskModel
  <2>2. AskModel => scenario = Idle
    BY DEF AskModel
  <2> QED
    BY <2>1, <2>2 DEF HasKind, Belongs, Idle
<1>2. HasKind /\ FollowReplacement => Belongs("use")
  BY DEF HasKind, Belongs, FollowReplacement, Searching, Using
<1>3. HasKind /\ UseModel => Belongs("use")
  BY DEF HasKind, Belongs, UseModel, Searching, Using
<1> QED
  BY <1>1, <1>2, <1>3

LEMMA ClientsOwn ==
    HasKind /\ (StartHandles \/ Share) => Belongs("clients")
<1>1. HasKind /\ StartHandles => Belongs("clients")
  BY DEF HasKind, Belongs, StartHandles, Idle
<1>2. HasKind /\ Share => Belongs("clients")
  BY DEF HasKind, Belongs, Share, Sharing, GetRuntime, Ready, SetupFails, Close
<1> QED
  BY <1>1, <1>2

LEMMA BridgeOwn ==
    HasKind /\ (StartBridge \/ Delta \/ Finish) => Belongs("bridge")
<1>1. HasKind /\ StartBridge => Belongs("bridge")
  BY DEF HasKind, Belongs, StartBridge, NewStream, Idle
<1>2. HasKind /\ Delta => Belongs("bridge")
  <2>1. ASSUME HasKind, Delta PROVE Belongs("bridge")
    <3>1. scenario.kind = "bridge"
      BY <2>1 DEF Delta, Streaming
    <3>2. PICK type : \/ UNCHANGED scenario
                      \/ scenario' = Deliver(Pushed(scenario, type))
                      \/ scenario' = Pushed(scenario, type)
                      \/ Leave(DeliverThrows(Pushed(scenario, type)), "handler's error")
      BY <2>1 DEF Delta
    <3>3. ASSUME NEW stream, "kind" \in DOMAIN stream, stream.kind = "bridge"
          PROVE  \A same \in {Deliver(stream), DeliverThrows(stream), Pushed(stream, type)} :
                    "kind" \in DOMAIN same /\ same.kind = "bridge"
      BY <3>3 DEF Deliver, DeliverThrows, Handed, Pushed
    <3> QED
      BY <2>1, <3>1, <3>2, <3>3 DEF HasKind, Belongs, Leave
  <2> QED
    BY <2>1
<1>3. HasKind /\ Finish => Belongs("bridge")
  BY DEF HasKind, Belongs, Finish, Streaming, Leave, Deliver, DeliverThrows, Handed
<1> QED
  BY <1>1, <1>2, <1>3

LEMMA OptionsOwn ==
    HasKind /\ (SetOptions) => Belongs("options")
BY DEF HasKind, Belongs, SetOptions, Idle

LEMMA PromptOwn ==
    HasKind /\ (Convert) => Belongs("prompt")
<1>1. Convert => \E given, sent : scenario' = [kind |-> "prompt", given |-> given, sent |-> sent]
  BY Zenon DEF Convert
<1>2. Convert => scenario = Idle
  BY DEF Convert
<1> QED
  BY <1>1, <1>2 DEF HasKind, Belongs, Idle

LEMMA FetchOwn ==
    HasKind /\ (StartRank \/ HourPasses \/ ReadSource) => Belongs("fetch")
<1>1. HasKind /\ StartRank => Belongs("fetch")
  BY DEF HasKind, Belongs, StartRank, Idle
<1>2. HasKind /\ HourPasses => Belongs("fetch")
  BY DEF HasKind, Belongs, HourPasses, Fetching
<1>3. HasKind /\ ReadSource => Belongs("fetch")
  BY DEF HasKind, Belongs, ReadSource, Fetching, Fetch
<1> QED
  BY <1>1, <1>2, <1>3

LEMMA OverlayOwn ==
    HasKind /\ (StartOverlay \/ NextRow) => Belongs("overlay")
<1>1. HasKind /\ StartOverlay => Belongs("overlay")
  BY DEF HasKind, Belongs, StartOverlay, Idle
<1>2. HasKind /\ NextRow => Belongs("overlay")
  BY DEF HasKind, Belongs, NextRow, Overlay
<1> QED
  BY <1>1, <1>2

LEMMA RankOwn ==
    HasKind /\ (ScoreModels) => Belongs("rank")
BY DEF HasKind, Belongs, ScoreModels, Idle

LEMMA CurateOwn ==
    HasKind /\ (StartCuration \/ PickModel \/ Skip \/ SaveCurated \/ SaveExcluded \/ SaveAborted \/ Resume \/ Include \/ Exclude \/ AddAlias \/ ReplaceModel) => Belongs("curate")
<1>1. HasKind /\ StartCuration => Belongs("curate")
  BY DEF HasKind, Belongs, StartCuration, Idle
<1>2. HasKind /\ PickModel => Belongs("curate")
  BY DEF HasKind, Belongs, PickModel, At, Working
<1>3. HasKind /\ Skip => Belongs("curate")
  BY DEF HasKind, Belongs, Skip, At, Working
<1>4. HasKind /\ SaveCurated => Belongs("curate")
  BY DEF HasKind, Belongs, SaveCurated, At, Working
<1>5. HasKind /\ SaveExcluded => Belongs("curate")
  BY DEF HasKind, Belongs, SaveExcluded, At, Working
<1>6. HasKind /\ SaveAborted => Belongs("curate")
  BY DEF HasKind, Belongs, SaveAborted, At, Working
<1>7. HasKind /\ Resume => Belongs("curate")
  BY DEF HasKind, Belongs, Resume, At, Working
<1>8. HasKind /\ Include => Belongs("curate")
  BY DEF HasKind, Belongs, Include, At, Working, Commit
<1>9. HasKind /\ Exclude => Belongs("curate")
  BY DEF HasKind, Belongs, Exclude, At, Working, Commit
<1>10. HasKind /\ AddAlias => Belongs("curate")
  BY DEF HasKind, Belongs, AddAlias, At, Working, Commit
<1>11. HasKind /\ ReplaceModel => Belongs("curate")
  BY DEF HasKind, Belongs, ReplaceModel, At, Working, Commit
<1> QED
  BY <1>1, <1>2, <1>3, <1>4, <1>5, <1>6, <1>7, <1>8, <1>9, <1>10, <1>11

LEMMA LimitsOwn ==
    HasKind /\ (StartProcess \/ Restart \/ SetModelLimit \/ ClearModelLimit \/ CallModel \/ WakeUp \/ MinutePasses \/ SetProviderLimit \/ ClearProviderLimit) => Belongs("limits")
<1>1. HasKind /\ StartProcess => Belongs("limits")
  BY DEF HasKind, Belongs, StartProcess, Process, Idle
<1>2. HasKind /\ Restart => Belongs("limits")
  BY DEF HasKind, Belongs, Restart, Limiting, Process
<1>3. HasKind /\ SetModelLimit => Belongs("limits")
  BY DEF HasKind, Belongs, SetModelLimit, Limiting
<1>4. HasKind /\ ClearModelLimit => Belongs("limits")
  BY DEF HasKind, Belongs, ClearModelLimit, Limiting
<1>5. HasKind /\ CallModel => Belongs("limits")
  BY DEF HasKind, Belongs, CallModel, LetThrough, Throttle, Limiting
<1>9. HasKind /\ WakeUp => Belongs("limits")
  BY DEF HasKind, Belongs, WakeUp, Limiting
<1>6. HasKind /\ MinutePasses => Belongs("limits")
  BY DEF HasKind, Belongs, MinutePasses, Limiting
<1>7. HasKind /\ SetProviderLimit => Belongs("limits")
  BY DEF HasKind, Belongs, SetProviderLimit, Limiting, WithProvider
<1>8. HasKind /\ ClearProviderLimit => Belongs("limits")
  BY DEF HasKind, Belongs, ClearProviderLimit, Limiting, WithProvider
<1> QED
  BY <1>1, <1>2, <1>3, <1>4, <1>5, <1>6, <1>7, <1>8, <1>9

LEMMA ClientOwn ==
    HasKind /\ (Request \/ ReadSocket \/ TakeLine \/ BodyEnds \/ AbortCall \/ ConnectionLost) => Belongs("client")
<1>1. HasKind /\ Request => Belongs("client")
  BY DEF HasKind, Belongs, Request, Idle
<1>2. HasKind /\ ReadSocket => Belongs("client")
  BY DEF HasKind, Belongs, ReadSocket, Waiting, Connected, Receive
<1>3. HasKind /\ TakeLine => Belongs("client")
  BY DEF HasKind, Belongs, TakeLine, Connected, Deliverable
<1>4. HasKind /\ BodyEnds => Belongs("client")
  BY DEF HasKind, Belongs, BodyEnds, Waiting, Connected, Deliverable
<1>5. HasKind /\ AbortCall => Belongs("client")
  BY DEF HasKind, Belongs, AbortCall, Connected
<1>6. HasKind /\ ConnectionLost => Belongs("client")
  BY DEF HasKind, Belongs, ConnectionLost, Waiting, Connected
<1> QED
  BY <1>1, <1>2, <1>3, <1>4, <1>5, <1>6

LEMMA OneShotOwn ==
    HasKind /\ (StartOneShot \/ NoAdapter \/ OpenaiImage \/ SubmitTask \/ PollTask \/ PollTimesOut \/ TranscribeAudio \/ Relay \/ ExchangeFails \/ CallImage \/ CallTranscription) => Belongs("one-shot")
<1>1. HasKind /\ StartOneShot => Belongs("one-shot")
  BY DEF HasKind, Belongs, StartOneShot, Idle
<1>2. HasKind /\ NoAdapter => Belongs("one-shot")
  BY DEF HasKind, Belongs, NoAdapter, During, OneShot, Ended
<1>3. HasKind /\ OpenaiImage => Belongs("one-shot")
  BY DEF HasKind, Belongs, OpenaiImage, During, OneShot, Ended
<1>4. HasKind /\ SubmitTask => Belongs("one-shot")
  BY DEF HasKind, Belongs, SubmitTask, During, OneShot, Ended
<1>5. HasKind /\ PollTask => Belongs("one-shot")
  BY DEF HasKind, Belongs, PollTask, During, OneShot, Ended
<1>6. HasKind /\ PollTimesOut => Belongs("one-shot")
  BY DEF HasKind, Belongs, PollTimesOut, During, OneShot, Ended
<1>7. HasKind /\ TranscribeAudio => Belongs("one-shot")
  BY DEF HasKind, Belongs, TranscribeAudio, During, OneShot, Ended
<1>8. HasKind /\ Relay => Belongs("one-shot")
  BY DEF HasKind, Belongs, Relay, During, OneShot, Ended
<1>9. HasKind /\ ExchangeFails => Belongs("one-shot")
  BY DEF HasKind, Belongs, ExchangeFails, During, OneShot, Ended
<1>10. HasKind /\ CallImage => Belongs("one-shot")
  BY DEF HasKind, Belongs, CallImage, During, OneShot, Ended
<1>11. HasKind /\ CallTranscription => Belongs("one-shot")
  BY DEF HasKind, Belongs, CallTranscription, During, OneShot, Ended
<1> QED
  BY <1>1, <1>2, <1>3, <1>4, <1>5, <1>6, <1>7, <1>8, <1>9, <1>10, <1>11

LEMMA UploadsOwn ==
    HasKind /\ (StartUploads \/ UploadStep) => Belongs("uploads")
<1>1. HasKind /\ StartUploads => Belongs("uploads")
  BY DEF HasKind, Belongs, StartUploads, Idle
<1>2. HasKind /\ UploadStep => Belongs("uploads")
  BY DEF HasKind, Belongs, UploadStep, Uploading, EditVideo, GetCachedFile, UploadFile, PollFile, HashAgain, SetCachedFile, TruncateCache, WriteCache, WriteFails, AbortUpload, KillSession, NextCall, Move
<1> QED
  BY <1>1, <1>2

LEMMA CommandsOwn ==
    HasKind /\ (OpenCatalog \/ SetField \/ RemoveField \/ AddModel) => Belongs("commands")
<1>1. HasKind /\ OpenCatalog => Belongs("commands")
  BY DEF HasKind, Belongs, OpenCatalog, Idle
<1>2. HasKind /\ SetField => Belongs("commands")
  BY DEF HasKind, Belongs, SetField, MayRun, Commanding, After
<1>3. HasKind /\ RemoveField => Belongs("commands")
  BY DEF HasKind, Belongs, RemoveField, MayRun, Commanding, After
<1>4. HasKind /\ AddModel => Belongs("commands")
  BY DEF HasKind, Belongs, AddModel, MayRun, Commanding, After
<1> QED
  BY <1>1, <1>2, <1>3, <1>4

LEMMA KeysOwn ==
    HasKind /\ (StartCli \/ NextCli \/ Onboard \/ SetupProvider \/ RemoveProvider) => Belongs("keys")
<1>1. HasKind /\ StartCli => Belongs("keys")
  <2>1. StartCli => \E lines, shell :
           scenario' = [kind |-> "keys", lines |-> lines, shell |-> shell, saves |-> 0,
                        env |-> LoadEnvFile(shell, lines),
                        meant |-> [name \in KeyNames |-> InFile(lines, name)],
                        before |-> shell, set |-> NotSet, loaded |-> FALSE]
    BY Zenon DEF StartCli
  <2>2. StartCli => scenario = Idle
    BY DEF StartCli
  <2> QED
    BY <2>1, <2>2 DEF HasKind, Belongs, Idle
<1>2. HasKind /\ NextCli => Belongs("keys")
  BY DEF HasKind, Belongs, NextCli, WithFile
<1>3. HasKind /\ Onboard => Belongs("keys")
  BY DEF HasKind, Belongs, Onboard, MaySave, WithFile, Saved
<1>4. HasKind /\ SetupProvider => Belongs("keys")
  BY DEF HasKind, Belongs, SetupProvider, MaySave, WithFile, Saved
<1>5. HasKind /\ RemoveProvider => Belongs("keys")
  BY DEF HasKind, Belongs, RemoveProvider, MaySave, WithFile, Saved
<1> QED
  BY <1>1, <1>2, <1>3, <1>4, <1>5

\* Every step begins a case of its module or goes on with one.
LEMMA StepsAreOwn ==
    HasKind /\ Next =>
       \/ (Talk \/ Say) /\ Belongs("talk")
       \/ (Set) /\ Belongs("settings")
       \/ (Choose) /\ Belongs("tools")
       \/ (Fail \/ FailAgain) /\ Belongs("errors")
       \/ (Quote) /\ Belongs("price")
       \/ (Bill) /\ Belongs("bill")
       \/ (Transcribe) /\ Belongs("transcript")
       \/ (NameModels) /\ Belongs("names")
       \/ (AskModel \/ FollowReplacement \/ UseModel) /\ Belongs("use")
       \/ (StartHandles \/ Share) /\ Belongs("clients")
       \/ (StartBridge \/ Delta \/ Finish) /\ Belongs("bridge")
       \/ (SetOptions) /\ Belongs("options")
       \/ (Convert) /\ Belongs("prompt")
       \/ (StartRank \/ HourPasses \/ ReadSource) /\ Belongs("fetch")
       \/ (StartOverlay \/ NextRow) /\ Belongs("overlay")
       \/ (ScoreModels) /\ Belongs("rank")
       \/ (StartCuration \/ PickModel \/ Skip \/ SaveCurated \/ SaveExcluded \/ SaveAborted \/ Resume \/ Include \/ Exclude \/ AddAlias \/ ReplaceModel) /\ Belongs("curate")
       \/ (StartProcess \/ Restart \/ SetModelLimit \/ ClearModelLimit \/ CallModel \/ WakeUp \/ MinutePasses \/ SetProviderLimit \/ ClearProviderLimit) /\ Belongs("limits")
       \/ (Request \/ ReadSocket \/ TakeLine \/ BodyEnds \/ AbortCall \/ ConnectionLost) /\ Belongs("client")
       \/ (StartOneShot \/ NoAdapter \/ OpenaiImage \/ SubmitTask \/ PollTask \/ PollTimesOut \/ TranscribeAudio \/ Relay \/ ExchangeFails \/ CallImage \/ CallTranscription) /\ Belongs("one-shot")
       \/ (StartUploads \/ UploadStep) /\ Belongs("uploads")
       \/ (OpenCatalog \/ SetField \/ RemoveField \/ AddModel) /\ Belongs("commands")
       \/ (StartCli \/ NextCli \/ Onboard \/ SetupProvider \/ RemoveProvider) /\ Belongs("keys")
BY TalkOwn, SettingsOwn, ToolsOwn, ErrorsOwn, PriceOwn, BillOwn, TranscriptOwn, NamesOwn, UseOwn, ClientsOwn, BridgeOwn, OptionsOwn, PromptOwn, FetchOwn, OverlayOwn, RankOwn, CurateOwn, LimitsOwn, ClientOwn, OneShotOwn, UploadsOwn, CommandsOwn, KeysOwn DEF Next

LEMMA AlwaysKind == Spec => []HasKind
<1>1. Init => HasKind
  BY DEF Init, Idle, HasKind
<1>2. HasKind /\ Next => HasKind'
  BY StepsAreOwn DEF Belongs
<1>3. HasKind /\ UNCHANGED scenario => HasKind'
  BY DEF HasKind
<1>4. HasKind /\ [Next]_scenario => HasKind'
  BY <1>2, <1>3
<1> QED
  BY <1>1, <1>4, PTL DEF Spec

\* _videos.js: in every behaviour that is checked, and for any callers, videos, edits and
\* polls, what is cached and what a call is given is an upload of the file asked for, and
\* of the edition looked up unless it was edited meanwhile.
THEOREM UploadsAnswerTruly == Spec => []UploadsTruthful
<1>1. HasKind /\ [Next]_scenario =>
        [StartUploads \/ UploadStep \/ Elsewhere("uploads")]_scenario
  BY StepsAreOwn DEF Belongs, Elsewhere
<1>2. Spec => UploadsSpec
  BY <1>1, AlwaysKind, PTL DEF Spec, UploadsSpec
<1> QED
  BY <1>2, UploadsPart, PTL

\* select.js: over any number of sessions, which may end between two saves, a model that
\* was dealt with is not offered again, no key stands in both files, and what an entry
\* has replaced is told by one curated entry.
THEOREM CurationKeepsCount == Spec => []CurationSound
<1>1. HasKind /\ [Next]_scenario =>
        [CurationNext \/ Elsewhere("curate")]_scenario
  BY StepsAreOwn DEF Belongs, Elsewhere, CurationNext
<1>2. Spec => CurationSpec
  BY <1>1, AlwaysKind, PTL DEF Spec, CurationSpec
<1> QED
  BY <1>2, CurationPart, PTL

\* _errors.js and _cooldown.js: for every threshold and any failures in any order, the
\* caller's own mistakes stay such, a limit is told from load by what the provider said,
\* and a provider is left alone only for a cause.
THEOREM ErrorsJudgedRightly == Spec => []ErrorsJudged
<1>1. HasKind /\ [Next]_scenario =>
        [Fail \/ FailAgain \/ Elsewhere("errors")]_scenario
  BY StepsAreOwn DEF Belongs, Elsewhere
<1>2. Spec => ErrorsSpec
  BY <1>1, AlwaysKind, PTL DEF Spec, ErrorsSpec
<1> QED
  BY <1>2, ErrorsPart, PTL

\* run.js, _providers.js and src/lib/index.js: for any models and limits, whatever is set,
\* cleared or restarted while calls run and sleep, a call starts at once only if the calls
\* of its minute, those included that had waited, stay within its model's own limit, or
\* for models without one within their provider's highest of the minute; and what the CLI
\* shows is what a new process enforces, except that it shows a limit of zero as none.
THEOREM LimitsAreHeld == Spec => []LimitsHold
<1>1. HasKind /\ [Next]_scenario =>
        [LimitsNext \/ Elsewhere("limits")]_scenario
  BY StepsAreOwn DEF Belongs, Elsewhere, LimitsNext
<1>2. Spec => LimitsSpec
  BY <1>1, AlwaysKind, PTL DEF Spec, LimitsSpec
<1> QED
  BY <1>2, LimitsPart, PTL

\* run.js, _tools.js and each buildRequest: for any efforts, levels and budgets no thinking
\* is none for every provider, a level takes nothing from the answer, and choices and
\* arguments of tools keep their sense.
THEOREM SettingsAreHonored == Spec => []SettingsHonored
<1>1. HasKind /\ [Next]_scenario =>
        [Set \/ Choose \/ (Elsewhere("settings") /\ Elsewhere("tools"))]_scenario
  BY StepsAreOwn DEF Belongs, Elsewhere
<1>2. Spec => SettingsSpec
  BY <1>1, AlwaysKind, PTL DEF Spec, SettingsSpec
<1> QED
  BY <1>2, SettingsPart, PTL

\* index.js and curated-cache.js: a name that stands for one model leads to it, use()
\* comes to a current replacement wherever there is one, and handles share one live
\* client and never a failed one.
THEOREM ModelsAreServed == Spec => []ModelsServed
<1>1. HasKind /\ [Next]_scenario =>
        [NameModels \/ Elsewhere("names")]_scenario
  BY StepsAreOwn DEF Belongs, Elsewhere
<1>2. HasKind /\ [Next]_scenario =>
        [AskModel \/ FollowReplacement \/ UseModel \/ Elsewhere("use")]_scenario
  BY StepsAreOwn DEF Belongs, Elsewhere
<1>3. HasKind /\ [Next]_scenario =>
        [StartHandles \/ Share \/ Elsewhere("clients")]_scenario
  BY StepsAreOwn DEF Belongs, Elsewhere
<1>4. Spec => NamesSpec /\ UseSpec /\ SharingSpec
  BY <1>1, <1>2, <1>3, AlwaysKind, PTL DEF Spec, NamesSpec, UseSpec, SharingSpec
<1> QED
  BY <1>4, ModelsPart, PTL DEF ModelsSpec

\* run_image.js, run_transcription.js, server.rs and js/client: the caller of an image or a
\* transcription is told what it came to, with the same advice to retry, and polling ends
\* by its deadline, for any deadline, interval and length of a fetch.
THEOREM OneShotsTold == Spec => [](ToldAsItEnded /\ PollingEnds)
<1>1. HasKind /\ [Next]_scenario =>
        [OneShotNext \/ Elsewhere("one-shot")]_scenario
  BY StepsAreOwn DEF Belongs, Elsewhere, OneShotNext
<1>2. Spec => OneShotSpec
  BY <1>1, AlwaysKind, PTL DEF Spec, OneShotSpec
<1> QED
  BY <1>2, OneShotsPart, PTL

\* src/cli: for any commands one after another, the catalog keeps its schema but for a
\* null, an emptied field and a boolean, which the schema cannot check, get shows
\* what set was told, a catalog that passes the check leads from every model to a current
\* one or into a circle, and keys outlast each other's changes.
THEOREM CommandsAlwaysAgree == Spec => []CommandsAgree
<1>1. HasKind /\ [Next]_scenario =>
        [CommandsNext \/ KeysNext \/ (Elsewhere("commands") /\ Elsewhere("keys"))]_scenario
  BY StepsAreOwn DEF Belongs, Elsewhere, CommandsNext, KeysNext
<1>2. Spec => CliSpec
  BY <1>1, AlwaysKind, PTL DEF Spec, CliSpec
<1> QED
  BY <1>2, CommandsPart, PTL

\* _pricing.js and resolvePrice: for all rates and thresholds the three readers of a price
\* agree, the highest tier exceeded rules, and no token or minute is paid twice.
THEOREM PricesAreTrue == Spec => []PricesTrue
<1>1. HasKind /\ [Next]_scenario =>
        [Quote \/ Bill \/ Transcribe \/ \A kind \in PriceKinds : Elsewhere(kind)]_scenario
  BY StepsAreOwn DEF Belongs, Elsewhere, PriceKinds
<1>2. Spec => PricesSpec
  BY <1>1, AlwaysKind, PTL DEF Spec, PricesSpec
<1> QED
  BY <1>2, PricesPart, PTL

\* rank.js: whatever is read, cached or asked for anew, the data are fresh and their gaps
\* fade; a row goes to a model of its stem, to the model of that very name where no other
\* answers to it, and is lost only to a later row; the ranked models are the best by their means.
THEOREM RankingIsSound == Spec => []RankingSound
<1>1. HasKind /\ [Next]_scenario =>
        [StartRank \/ HourPasses \/ ReadSource \/ Elsewhere("fetch")]_scenario
  BY StepsAreOwn DEF Belongs, Elsewhere
<1>2. HasKind /\ [Next]_scenario =>
        [StartOverlay \/ NextRow \/ Elsewhere("overlay")]_scenario
  BY StepsAreOwn DEF Belongs, Elsewhere
<1>3. HasKind /\ [Next]_scenario =>
        [ScoreModels \/ Elsewhere("rank")]_scenario
  BY StepsAreOwn DEF Belongs, Elsewhere
<1>4. Spec => FetchSpec /\ OverlaySpec /\ ScoreSpec
  BY <1>1, <1>2, <1>3, AlwaysKind, PTL DEF Spec, FetchSpec, OverlaySpec, ScoreSpec
<1> QED
  BY <1>4, RankingPart, PTL DEF RankingSpec

\* bridge.js and utils.js: a handler that does not throw hears all of the text once and in
\* order; settings and histories reach the session as they were given.
THEOREM BridgeIsFaithful == Spec => []BridgeFaithful
<1>1. HasKind /\ [Next]_scenario =>
        [StartBridge \/ Delta \/ Finish \/ Elsewhere("bridge")]_scenario
  BY StepsAreOwn DEF Belongs, Elsewhere
<1>2. HasKind /\ [Next]_scenario =>
        [SetOptions \/ Convert \/ (Elsewhere("options") /\ Elsewhere("prompt"))]_scenario
  BY StepsAreOwn DEF Belongs, Elsewhere
<1>3. Spec => StreamSpec /\ EnvelopeSpec
  BY <1>1, <1>2, AlwaysKind, PTL DEF Spec, StreamSpec, EnvelopeSpec
<1> QED
  BY <1>3, BridgePart, PTL

\* buildRequest, for every provider: a conversation of any length, of messages and parts of
\* any number, arrives whole and in its order, its images beside the user's words; reasoning
\* is in every turn where it must be, and the breakpoints fit, keep the system's ends and let
\* the next request find the cache.
THEOREM RequestsAreFaithful == Spec => []RequestsFaithful
<1>1. HasKind /\ [Next]_scenario => [Talk \/ Say \/ Elsewhere("talk")]_scenario
  BY StepsAreOwn DEF Belongs, Elsewhere
<1>2. Spec => TalkSpec
  BY <1>1, AlwaysKind, PTL DEF Spec, TalkSpec
<1> QED
  BY <1>2, RequestsPart, PTL

\* The client hears what happened: every event of a streamed call once and in its order,
\* the result or the error of the others as it was, and an end of each.
THEOREM ClientsAreToldTheTruth == Spec => []ClientToldTruth
<1>1. HasKind /\ [Next]_scenario => [ClientNext \/ Elsewhere("client")]_scenario
  BY StepsAreOwn DEF Belongs, Elsewhere, ClientNext
<1>2. Spec => ClientSpec
  BY <1>1, AlwaysKind, PTL DEF Spec, ClientSpec
<1>3. EventsAsSent /\ LimitForLines /\ ToldAsItEnded /\ PollingEnds => ClientToldTruth
  BY DEF ClientToldTruth
<1> QED
  BY <1>2, <1>3, ClientPart, OneShotsTold, PTL
=============================================================================
