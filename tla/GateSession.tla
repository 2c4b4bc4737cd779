----------------------------- MODULE GateSession -----------------------------
(***************************************************************************)
(* One session process and the gate's side of it: the response body of     *)
(* POST /v1/call (pool_stream_next and Drop in                             *)
(* rust/thin-gate/src/server.rs), cancel_and_drain in session_pool.rs, and *)
(* the stdio driver of the session (js/session/driver.js), joined by two   *)
(* pipes.  The process serves one call after the other; nothing on its     *)
(* stdout says which call a line belongs to.                               *)
(*                                                                         *)
(* What run() does for one call is abstracted to some frames and one       *)
(* terminal event, "cancelled" only when its signal was aborted: every     *)
(* adapter of the repository returns right after its terminal (SessionRun  *)
(* has the adapter that throws after it).                                  *)
(***************************************************************************)
EXTENDS Naturals, Sequences, SequencesExt

CONSTANTS
    Calls,          \* the requests; each is made once
    NoCall,
    Ids,            \* callId values
    IdOf,           \* the callId of each request
    Junk,           \* a line that is not an Event: the rest or the start of one
    PrecancelCap,   \* PRECANCEL_CAP
    MaxFrames       \* bound on the frames of one call

ASSUME GateSessionAssumption ==
    /\ NoCall \notin Calls
    /\ IdOf \in [Calls -> Ids]
    /\ PrecancelCap \in Nat \ {0}
    /\ MaxFrames \in Nat

VARIABLES
    client,     \* "new", "open", "closed" (terminal received) or "left"
    seen,       \* per call, the lines of its response body
    phase,      \* the gate's PooledSession: "pooled", "stream", "drain", "gone"
    owner,      \* the call it is streaming or draining for
    torn,       \* the reader has consumed part of stdout's first line
    stdin,      \* lines in the pipe to the process
    stdout,     \* lines in the pipe from it
    up,         \* the process runs
    queue,      \* envelopeQueue
    cur,        \* currentCall and whether its signal is aborted
    said,       \* per call, the frames that run() has yielded
    ended,      \* per call, the terminal that it has yielded, or "none"
    pre,        \* precancelled, oldest first
    heard       \* calls whose cancel line the driver has read (history)

clientVars  == <<client, seen>>
gateVars    == <<phase, owner, torn>>
saidVars    == <<said, ended>>
processVars == <<up, queue, cur, saidVars, pre, heard>>
vars == <<clientVars, gateVars, stdin, stdout, processVars>>

Endings == {"done", "cancelled", "error", "lost"}

Frame(c, n) == [call |-> c, kind |-> "frame", n |-> n]

Terminal(c, k) == [call |-> c, kind |-> k, n |-> 0]

IsFrame(line) == line # Junk /\ line.kind = "frame"

IsCut(line) == line # Junk /\ line.kind = "cut"

IsTerminal(line) == line # Junk /\ line.kind \in Endings

\* What a process that dies has written of its next delta; it starts like one.
Cut(c) == [call |-> c, kind |-> "cut", n |-> 0]

Envelope(c) == [op |-> "call", call |-> c]

Cancel(c) == [op |-> "cancel", call |-> c]

NoCurrent == [call |-> NoCall, aborted |-> FALSE]

Init ==
    /\ client = [c \in Calls |-> "new"]
    /\ seen = [c \in Calls |-> <<>>]
    /\ phase = "pooled" /\ owner = NoCall /\ torn = FALSE
    /\ stdin = <<>> /\ stdout = <<>>
    /\ up = TRUE
    /\ queue = <<>> /\ cur = NoCurrent /\ pre = <<>> /\ heard = {}
    /\ said = [c \in Calls |-> 0]
    /\ ended = [c \in Calls |-> "none"]

-----------------------------------------------------------------------------
(* The gate.                                                               *)

\* The session goes back to the pool.
Release == phase' = "pooled" /\ owner' = NoCall /\ torn' = FALSE

\* The session is dropped, which kills the process and closes the pipes.
Kill == phase' = "gone" /\ owner' = NoCall /\ torn' = FALSE /\ up' = FALSE

Close(c, ending) ==
    /\ client' = [client EXCEPT ![c] = "closed"]
    /\ seen' = [seen EXCEPT ![c] = Append(@, Terminal(c, ending))]

\* dispatch_via_pool writes the envelope ...
Dispatch(c) ==
    /\ phase = "pooled" /\ client[c] = "new" /\ up
    /\ phase' = "stream" /\ owner' = c
    /\ stdin' = Append(stdin, Envelope(c))
    /\ client' = [client EXCEPT ![c] = "open"]
    /\ UNCHANGED <<seen, torn, stdout, processVars>>

\* ... or finds the pipe broken: SESSION_STDIN_WRITE_FAILED.
DispatchFails(c) ==
    /\ phase = "pooled" /\ client[c] = "new" /\ ~up
    /\ Kill
    /\ Close(c, "lost")
    /\ UNCHANGED <<stdin, stdout, queue, cur, saidVars, pre, heard>>

\* read_capped_line consumes the part of a line that has arrived and waits.
ReadPart ==
    /\ phase = "stream" /\ stdout # <<>> /\ ~torn
    /\ torn' = TRUE
    /\ UNCHANGED <<clientVars, phase, owner, stdin, stdout, processVars>>

\* pool_stream_next forwards a frame ...
StreamFrame ==
    /\ phase = "stream" /\ stdout # <<>> /\ IsFrame(Head(stdout))
    /\ seen' = [seen EXCEPT ![owner] = Append(@, Head(stdout))]
    /\ stdout' = Tail(stdout) /\ torn' = FALSE
    /\ UNCHANGED <<client, phase, owner, stdin, processVars>>

\* ... or a terminal, and releases the session in the same poll.
StreamTerminal ==
    /\ phase = "stream" /\ stdout # <<>> /\ IsTerminal(Head(stdout))
    /\ seen' = [seen EXCEPT ![owner] = Append(@, Head(stdout))]
    /\ client' = [client EXCEPT ![owner] = "closed"]
    /\ stdout' = Tail(stdout)
    /\ Release
    /\ UNCHANGED <<stdin, processVars>>

\* ... at EOF also the line that is not complete, when it starts like a delta.
StreamCut ==
    /\ phase = "stream" /\ stdout # <<>> /\ IsCut(Head(stdout))
    /\ seen' = [seen EXCEPT ![owner] = Append(@, Head(stdout))]
    /\ stdout' = Tail(stdout) /\ torn' = FALSE
    /\ UNCHANGED <<client, phase, owner, stdin, processVars>>

\* A line that is no Event: SESSION_INVALID_EVENT.
StreamJunk ==
    /\ phase = "stream" /\ stdout # <<>> /\ Head(stdout) = Junk
    /\ Close(owner, "lost")
    /\ Kill
    /\ UNCHANGED <<stdin, stdout, queue, cur, saidVars, pre, heard>>

\* A line that is too long or unreadable: SESSION_IO_ERROR.
StreamBreaks ==
    /\ phase = "stream" /\ stdout # <<>>
    /\ Close(owner, "lost")
    /\ Kill
    /\ UNCHANGED <<stdin, stdout, queue, cur, saidVars, pre, heard>>

\* Nothing more to read: SESSION_DIED.
StreamEOF ==
    /\ phase = "stream" /\ stdout = <<>> /\ ~up
    /\ Close(owner, "lost")
    /\ Kill
    /\ UNCHANGED <<stdin, stdout, queue, cur, saidVars, pre, heard>>

\* Mutation: the dropped body returns its session to the pool at once.
DropBody_Bug ==
    /\ phase = "stream"
    /\ client' = [client EXCEPT ![owner] = "left"]
    /\ Release
    /\ UNCHANGED <<seen, stdin, stdout, processVars>>

\* The client disconnects: the body is dropped, with the part of a line that
\* its pending read had consumed, and a detached task takes the session.
DropBody ==
    /\ phase = "stream"
    /\ client' = [client EXCEPT ![owner] = "left"]
    /\ phase' = "drain" /\ torn' = FALSE
    /\ stdout' = IF torn THEN <<Junk>> \o Tail(stdout) ELSE stdout
    /\ stdin' = IF up THEN Append(stdin, Cancel(owner)) ELSE stdin
    /\ UNCHANGED <<seen, owner, processVars>>

\* Mutation: any event ends the drain.
DrainFrame_Bug ==
    /\ phase = "drain" /\ stdout # <<>> /\ IsFrame(Head(stdout))
    /\ stdout' = Tail(stdout)
    /\ Release
    /\ UNCHANGED <<clientVars, stdin, processVars>>

\* cancel_and_drain reads past the frames ...
DrainFrame ==
    /\ phase = "drain" /\ stdout # <<>> /\ IsFrame(Head(stdout))
    /\ stdout' = Tail(stdout) /\ torn' = FALSE
    /\ UNCHANGED <<clientVars, phase, owner, stdin, processVars>>

\* ... up to a terminal, and the session is released.
DrainTerminal ==
    /\ phase = "drain" /\ stdout # <<>> /\ IsTerminal(Head(stdout))
    /\ stdout' = Tail(stdout)
    /\ Release
    /\ UNCHANGED <<clientVars, stdin, processVars>>

\* The cancel cannot be written, EOF, an invalid line, or 2 s have passed.
DrainFails ==
    /\ phase = "drain"
    /\ Kill
    /\ UNCHANGED <<clientVars, stdin, stdout, queue, cur, saidVars, pre, heard>>

\* The replacement: a new process with new pipes.
Respawn ==
    /\ phase = "gone"
    /\ phase' = "pooled" /\ up' = TRUE
    /\ stdin' = <<>> /\ stdout' = <<>>
    /\ queue' = <<>> /\ cur' = NoCurrent /\ pre' = <<>> /\ heard' = {}
    /\ UNCHANGED <<clientVars, owner, torn, saidVars>>

-----------------------------------------------------------------------------
(* The session process.                                                    *)

\* onLine of an envelope.
ReadEnvelope ==
    /\ up /\ stdin # <<>> /\ Head(stdin).op = "call"
    /\ queue' = Append(queue, Head(stdin).call)
    /\ stdin' = Tail(stdin)
    /\ UNCHANGED <<clientVars, gateVars, stdout, up, cur, saidVars, pre, heard>>

\* Mutation: at the cap the new id is dropped.
RecordPrecancel_Bug(id) ==
    IF Contains(pre, id) \/ Len(pre) >= PrecancelCap THEN pre ELSE Append(pre, id)

\* Mutation: there is no cap.
RecordPrecancelUncapped_Bug(id) ==
    IF Contains(pre, id) THEN pre ELSE Append(pre, id)

\* recordPrecancel: a set in insertion order; at the cap the oldest goes.
RecordPrecancel(id) ==
    IF Contains(pre, id) THEN pre
    ELSE Append(IF Len(pre) >= PrecancelCap THEN Tail(pre) ELSE pre, id)

\* precancelled.delete: an id is in the set once at most.
Forget(id) ==
    IF Contains(pre, id) THEN RemoveAt(pre, CHOOSE i \in DOMAIN pre : pre[i] = id) ELSE pre

\* onLine of a cancel: abort the call in flight, or remember the id.
ReadCancel ==
    /\ up /\ stdin # <<>> /\ Head(stdin).op = "cancel"
    /\ LET c == Head(stdin).call IN
       /\ heard' = heard \cup {c}
       /\ IF cur.call # NoCall /\ IdOf[cur.call] = IdOf[c]
          THEN cur' = [cur EXCEPT !.aborted = TRUE] /\ UNCHANGED pre
          ELSE pre' = RecordPrecancel(IdOf[c]) /\ UNCHANGED cur
    /\ stdin' = Tail(stdin)
    /\ UNCHANGED <<clientVars, gateVars, stdout, up, queue, saidVars>>

\* The main loop takes the next envelope; a remembered cancel aborts it.
Dequeue ==
    /\ up /\ cur = NoCurrent /\ queue # <<>>
    /\ LET id == IdOf[Head(queue)] IN
       /\ cur' = [call |-> Head(queue), aborted |-> Contains(pre, id)]
       /\ pre' = Forget(id)
    /\ queue' = Tail(queue)
    /\ UNCHANGED <<clientVars, gateVars, stdin, stdout, up, saidVars, heard>>

InFlight == up /\ cur # NoCurrent /\ ended[cur.call] = "none"

\* run() yields a frame.
SayFrame ==
    /\ InFlight
    /\ said[cur.call] < MaxFrames
    /\ said' = [said EXCEPT ![cur.call] = @ + 1]
    /\ stdout' = Append(stdout, Frame(cur.call, said[cur.call] + 1))
    /\ UNCHANGED <<clientVars, gateVars, stdin, up, queue, cur, ended, pre, heard>>

\* run() yields its terminal.
SayTerminal(ending) ==
    /\ InFlight
    /\ ending = "cancelled" => cur.aborted
    /\ ended' = [ended EXCEPT ![cur.call] = ending]
    /\ stdout' = Append(stdout, Terminal(cur.call, ending))
    /\ UNCHANGED <<clientVars, gateVars, stdin, up, queue, cur, said, pre, heard>>

\* Mutation: the driver stops without clearing currentCall.
EndCall_Bug ==
    /\ up /\ cur # NoCurrent /\ ended[cur.call] # "none"
    /\ UNCHANGED vars

\* run() returns, some time after its last yield: currentCall is cleared.
EndCall ==
    /\ up /\ cur # NoCurrent /\ ended[cur.call] # "none"
    /\ cur' = NoCurrent
    /\ UNCHANGED <<clientVars, gateVars, stdin, stdout, up, queue, saidVars, pre, heard>>

\* The process exits; what it wrote can still be read.  A line that it was
\* writing is cut short: what arrives is nothing, or starts like a delta, or is
\* no Event.  (All of a line but its newline is read as the line.)
SessionDies ==
    /\ up
    /\ up' = FALSE
    /\ \/ UNCHANGED stdout
       \/ InFlight /\ said[cur.call] < MaxFrames /\ stdout' = Append(stdout, Cut(cur.call))
       \/ InFlight /\ stdout' = Append(stdout, Junk)
    /\ UNCHANGED <<clientVars, gateVars, stdin, queue, cur, saidVars, pre, heard>>

-----------------------------------------------------------------------------
GateReads ==
    \/ StreamFrame \/ StreamTerminal \/ StreamCut \/ StreamJunk \/ StreamEOF
    \/ DrainFrame \/ DrainTerminal

DriverReads == ReadEnvelope \/ ReadCancel

SayEnd == \E ending \in Endings \ {"lost"} : SayTerminal(ending)

Next ==
    \/ \E c \in Calls : Dispatch(c) \/ DispatchFails(c)
    \/ ReadPart \/ GateReads \/ StreamBreaks \/ DropBody \/ DrainFails \/ Respawn
    \/ DriverReads \/ Dequeue \/ SayFrame \/ SayEnd \/ EndCall
    \/ SessionDies

Spec == Init /\ [][Next]_vars

\* The gate's tasks are polled while there is something to read, node's event
\* loop turns, and a provider's answer ends some time.
FairSpec ==
    /\ Spec
    /\ WF_vars(GateReads)
    /\ WF_vars(DriverReads) /\ WF_vars(Dequeue) /\ WF_vars(EndCall)
    /\ WF_vars(SayEnd)

-----------------------------------------------------------------------------
Lines == {Frame(c, n) : c \in Calls, n \in 1..MaxFrames}
            \cup {Terminal(c, k) : c \in Calls, k \in Endings}
            \cup {Cut(c) : c \in Calls}

Outputs == Lines \cup {Junk}

Inputs == {Envelope(c) : c \in Calls} \cup {Cancel(c) : c \in Calls}

Currents == [call : Calls \cup {NoCall}, aborted : BOOLEAN]

\* Every variable has its type; no more ids are remembered than the cap.
TypeOK ==
    /\ client \in [Calls -> {"new", "open", "closed", "left"}]
    /\ seen \in [Calls -> Seq(Lines)]
    /\ phase \in {"pooled", "stream", "drain", "gone"}
    /\ owner \in Calls \cup {NoCall}
    /\ torn \in BOOLEAN
    /\ stdin \in Seq(Inputs)
    /\ stdout \in Seq(Outputs)
    /\ up \in BOOLEAN
    /\ queue \in Seq(Calls)
    /\ cur \in Currents
    /\ said \in [Calls -> 0..MaxFrames]
    /\ ended \in [Calls -> Endings \cup {"none"}]
    /\ pre \in Seq(Ids) /\ Len(pre) <= PrecancelCap
    /\ heard \subseteq Calls

\* Calls the process has been given and has not finished.
Unfinished ==
    {c \in Calls : \/ Contains(stdin, Envelope(c))
                   \/ Contains(queue, c)
                   \/ cur.call = c /\ ended[c] = "none"}

\* A session in the pool owes nothing to an earlier call: no line of it is
\* still in the pipe and no call of it is still to be run, whether the last
\* call ended, was cancelled at any moment, or both at once.  While a call
\* holds the session, the process works for that call only.
CleanHandover ==
    /\ phase = "pooled" => stdout = <<>> /\ Unfinished = {}
    /\ phase \in {"stream", "drain"} => Unfinished \subseteq {owner}

\* A cancel hits its own call and no other: a call runs aborted only if its
\* client left, whatever stale cancels are read late, and a cancel read before
\* its call was dequeued is not forgotten, however many came before it.
CancelsHit ==
    /\ InFlight /\ cur.aborted => client[cur.call] = "left"
    /\ \A c \in heard : cur.call = c => cur.aborted

\* What the clients see is what the call stream promises: every frame that the
\* adapter yielded, in order, before the terminal that it yielded, unless the
\* session is lost.
Abstract == INSTANCE CallStream
StreamsAsPromised == Abstract!Spec

\* Every call ends for its client: with a terminal, unless the client leaves.
Answered == \A c \in Calls : client[c] = "open" ~> client[c] \in {"closed", "left"}
=============================================================================
