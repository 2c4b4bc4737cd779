------------------------------- MODULE Uploads -------------------------------
(***************************************************************************)
(* The upload of videos (js/session/adapters/_videos.js): calls of several *)
(* sessions, each a process, look a file up in a cache on disk that they   *)
(* share, upload it when it is not there, wait until the provider has made *)
(* it ready, and write it into the cache.  Nothing locks the cache, the    *)
(* file may be edited at any time, and a session may be killed.            *)
(***************************************************************************)
EXTENDS Scenario

CONSTANTS Callers, Videos, MaxEdits, MaxPolls  \* MaxPolls: MAX_UPLOAD_POLL_MS in intervals

ASSUME UploadsAssumption == MaxEdits \in Nat /\ MaxPolls \in Nat

Uploading == scenario.kind = "uploads"

\* What an upload is: the file and the edition of it that was sent.
Upload(f) == [video |-> f, edition |-> scenario.edition[f]]
NoUpload == [video |-> "none", edition |-> 0]

\* Mutant: the path alone is hashed.
HashFile_Bug(f) == <<f, 0>>

\* hashFile: a hash of the path, the time of its last change and the bytes.
HashFile(f) == <<f, scenario.edition[f]>>

Hashes == Videos \X (0 .. MaxEdits)
Nothing == [h \in Hashes |-> NoUpload]

NewCaller(f) == [video |-> f, stage |-> "lookup", hash |-> <<f, 0>>, upload |-> NoUpload,
                 polls |-> 0, copy |-> Nothing, aborted |-> FALSE]
Gone == [NewCaller(CHOOSE f \in Videos : TRUE) EXCEPT !.stage = "gone"]

\* The cache on disk: what it holds, and whether it can be parsed.  Editions count the
\* edits; settled says that no file has been edited while a call was uploading it.
StartUploads ==
    /\ scenario = Idle
    /\ \E asked \in [Callers -> Videos] :
        scenario' = [kind |-> "uploads", edition |-> [f \in Videos |-> 0], settled |-> TRUE,
                     disk |-> Nothing, parses |-> TRUE,
                     caller |-> [c \in Callers |-> NewCaller(asked[c])]]

Stands(c, stage) == scenario.caller[c].stage = stage
Move(c, caller) == scenario' = [scenario EXCEPT !.caller[c] = caller]
Me(c) == scenario.caller[c]

\* throwIfAborted: the call ends instead of its next step.
Unaborted(c) == ~Me(c).aborted

\* From here on the signal and the deadline are not looked at.
Prepared(caller) == [caller EXCEPT !.stage = "ready", !.aborted = FALSE, !.polls = 0]

\* loadCache: what cannot be parsed is as good as empty.
LoadCache == IF scenario.parses THEN scenario.disk ELSE Nothing

\* getCachedFile: the hash, then the cache.
GetCachedFile(c) ==
    /\ Stands(c, "lookup")
    /\ LET hash == HashFile(Me(c).video)
           found == LoadCache[hash]
       IN  Move(c, [Me(c) EXCEPT !.hash = hash, !.upload = found, !.aborted = @ /\ found = NoUpload,
                                 !.stage = IF found = NoUpload THEN "missed" ELSE "done"])

\* files.upload: the bytes are those of this moment; the file is ready or in the making.
UploadFile(c) ==
    /\ Stands(c, "missed")
    /\ IF Unaborted(c)
       THEN \/ Move(c, Gone)
            \/ Move(c, [Me(c) EXCEPT !.upload = Upload(Me(c).video), !.stage = "processing"])
            \/ Move(c, Prepared([Me(c) EXCEPT !.upload = Upload(Me(c).video)]))
       ELSE Move(c, Gone)

\* One turn of the loop: the deadline, the signal, the sleep, the signal, files.get.
PollFile(c) ==
    /\ Stands(c, "processing")
    /\ IF Me(c).polls >= MaxPolls \/ ~Unaborted(c) THEN Move(c, Gone)
       ELSE \/ Move(c, Gone)
            \/ Move(c, [Me(c) EXCEPT !.polls = @ + 1])
            \/ Move(c, Prepared(Me(c)))

\* setCachedFile hashes the file once more, as it is now.
HashAgain(c) ==
    /\ Stands(c, "ready")
    /\ Move(c, [Me(c) EXCEPT !.hash = HashFile(Me(c).video), !.stage = "hashed"])

\* The cache as it is now, with the upload under the new hash.
SetCachedFile(c) ==
    /\ Stands(c, "hashed")
    /\ Move(c, [Me(c) EXCEPT !.copy = [LoadCache EXCEPT ![Me(c).hash] = Me(c).upload], !.stage = "changed"])

\* writeFile empties the file and writes it.  Where another write came between, the
\* longer one's end may be left behind the shorter one.
TruncateCache(c) ==
    /\ Stands(c, "changed")
    /\ scenario' = [scenario EXCEPT !.disk = Nothing, !.parses = FALSE, !.caller[c].stage = "writing"]

Held(entries) == Cardinality({h \in Hashes : entries[h] # NoUpload})

WriteCache(c) ==
    /\ Stands(c, "writing")
    /\ LET written == [scenario EXCEPT !.disk = Me(c).copy, !.parses = TRUE,
                                       !.caller[c] = [Me(c) EXCEPT !.stage = "done", !.copy = Nothing]]
       IN  \/ Held(scenario.disk) <= Held(Me(c).copy) /\ scenario' = written
           \/ /\ scenario.disk # Nothing
              /\ scenario' = [written EXCEPT !.parses = FALSE]

\* A failed write is forgotten: the call has its upload all the same.
WriteFails(c) ==
    /\ Stands(c, "changed")
    /\ Move(c, [Me(c) EXCEPT !.stage = "done", !.copy = Nothing])

AbortUpload(c) ==
    /\ Unaborted(c) /\ Me(c).stage \in {"lookup", "missed", "processing"}
    /\ Move(c, [Me(c) EXCEPT !.aborted = TRUE])

\* The session is killed where it is; after its call there is nothing left to lose.
KillSession(c) == Me(c).stage \notin {"done", "gone"} /\ Move(c, Gone)

InUpload == {"missed", "processing", "ready"}

\* Someone edits a file.
EditVideo(f) ==
    /\ scenario.edition[f] < MaxEdits
    /\ scenario' = [scenario EXCEPT !.edition[f] = @ + 1,
            !.settled = @ /\ \A c \in Callers : ~(Me(c).video = f /\ Me(c).stage \in InUpload)]

NextCall(c) ==
    /\ Stands(c, "done") \/ Stands(c, "gone")
    /\ \E f \in Videos : Move(c, NewCaller(f))

UploadStep ==
    /\ Uploading
    /\ \/ \E f \in Videos : EditVideo(f)
       \/ \E c \in Callers :
            \/ GetCachedFile(c) \/ UploadFile(c) \/ PollFile(c) \/ HashAgain(c) \/ SetCachedFile(c)
            \/ TruncateCache(c) \/ WriteCache(c) \/ WriteFails(c) \/ AbortUpload(c) \/ KillSession(c)
            \/ NextCall(c)

---------------------------------------------------------------------------
\* The uploads a hash may lead to.
Recorded == [h \in Hashes |-> {e \in {LoadCache[h]} \cup {Me(c).copy[h] : c \in Callers} : e # NoUpload}]

\* However calls race for the cache, are aborted, killed or overwrite each other, what
\* is cached for a file, and what a call is given, is an upload of that file and of the
\* edition that was looked up, as long as nobody edits a file during its upload.
CachedAsLooked ==
    (Uploading /\ scenario.settled) =>
        /\ \A h \in Hashes : \A e \in Recorded[h] : <<e.video, e.edition>> = h
        /\ \A c \in Callers : Stands(c, "done") => <<Me(c).upload.video, Me(c).upload.edition>> = Me(c).hash

\* Even then no call is given another file, nor an edition newer than it is cached for.
NeverAnotherVideo ==
    Uploading => /\ \A h \in Hashes : \A e \in Recorded[h] : e.video = h[1] /\ e.edition <= h[2]
                 /\ \A c \in Callers : Stands(c, "done") => Me(c).upload.video = Me(c).video

\* The cache of uploads, written by several processes, answers for the right file,
\* and unless a file is edited during its upload for the right edition.
UploadsTruthful ==
    /\ CachedAsLooked
    /\ NeverAnotherVideo
=============================================================================
