------------------------------ MODULE GateClient ------------------------------
(***************************************************************************)
(* The client of the gate (js/client): one request per call over a unix    *)
(* socket, the lines of a streamed answer cut out of reads that end        *)
(* anywhere, and the typed error that a failed call becomes.  A body is a  *)
(* sequence of units: a letter, the two bytes of an accented one, the mark *)
(* of an unknown event, the brace that completes a line, the line's end.   *)
(***************************************************************************)
EXTENDS Scenario

CONSTANTS MaxLine, MaxRead  \* MAX_LINE_BYTES; the longest read of the socket

ASSUME ClientAssumption == MaxLine \in Nat \ {0} /\ MaxRead \in Nat \ {0}

End == "\n"
Brace == "}"
Head1 == "first byte"
Tail1 == "second byte"
Accented == "accented"
Broken == "replacement character"

SentLines ==
    {<<Brace>>, <<"a", Brace>>, <<Head1, Tail1, Brace>>, <<"a", "a", "a", "a", "a", Brace>>,
     <<"unknown", Brace>>}

\* What the gate may send: up to three lines, the last with or without its end.
Bodies ==
    (UNION {{Gather(lines, LAMBDA l : Append(l, End)) : lines \in [1 .. n -> SentLines]} : n \in 0 .. 3})
        \cup {lines[1] \o <<End>> \o lines[2] : lines \in [1 .. 2 -> SentLines]}

\* chunk.toString('utf8'): the halves of a character that a read separates are each
\* replaced.
DecodedAt(read, i) ==
    IF read[i] = Head1 THEN <<IF i < Len(read) THEN Accented ELSE Broken>>
    ELSE IF read[i] = Tail1 THEN (IF i > 1 THEN <<>> ELSE <<Broken>>)
    ELSE <<read[i]>>
Decoded(read) == Gather([i \in DOMAIN read |-> i], LAMBDA i : DecodedAt(read, i))

LineEnds(text) == {i \in DOMAIN text : text[i] = End}
FirstEnd(text) == CHOOSE i \in LineEnds(text) : \A j \in LineEnds(text) : i <= j

\* JSON.parse: a line is complete with its brace.
Parses(line) == line # <<>> /\ line[Len(line)] = Brace
IsEvent(line) == line[1] # "unknown"

\* The lines of a text that are not empty, the last with or without its end.
Starts(text) == {i \in DOMAIN text : text[i] # End /\ (i > 1 => text[i - 1] = End)}
Unbroken(text, i) == {j \in i .. Len(text) : \A k \in i .. j : text[k] # End}
LineAt(text, i) == SubSeq(text, i, CHOOSE j \in Unbroken(text, i) : \A k \in Unbroken(text, i) : k <= j)
LinesOf(text) ==
    Pick([i \in DOMAIN text |-> i], LAMBDA i : i \in Starts(text), LAMBDA i : LineAt(text, i))

---------------------------------------------------------------------------
(* A streamed call.                                                        *)

Connected == scenario.kind = "client" /\ scenario.ending = "none"

\* requestUnix and the answer's head; a signal aborted beforehand ends it here.
Request ==
    /\ scenario = Idle
    /\ \E body \in Bodies, aborted \in BOOLEAN :
        scenario' = [kind |-> "client", body |-> body, read |-> 0, torn |-> FALSE, buffer |-> <<>>,
                     events |-> <<>>, aborted |-> aborted, ending |-> IF aborted THEN "aborted" ELSE "none"]

\* A read is taken when the buffer holds no whole line.
Waiting == Connected /\ LineEnds(scenario.buffer) = {}

\* The buffer is measured with the read, before its lines are taken.
Receive(read) ==
    LET buffer == scenario.buffer \o Decoded(read) IN
    [scenario EXCEPT !.read = @ + Len(read), !.buffer = buffer, !.torn = @ \/ read[1] = Tail1,
                     !.ending = IF Len(buffer) > MaxLine THEN "line too long" ELSE @]

ReadSocket ==
    /\ Waiting /\ ~scenario.aborted
    /\ \E n \in 1 .. MaxRead :
        /\ scenario.read + n <= Len(scenario.body)
        /\ scenario' = Receive(SubSeq(scenario.body, scenario.read + 1, scenario.read + n))

\* The next step of the generator with a line: an event for the caller, or the end.
Deliverable(line) ==
    IF ~Parses(line) THEN [scenario EXCEPT !.ending = "syntax error"]
    ELSE IF ~IsEvent(line) THEN [scenario EXCEPT !.ending = "PROTOCOL_INVALID_EVENT"]
    ELSE [scenario EXCEPT !.events = Append(@, line)]

TakeLine ==
    /\ Connected /\ ~Waiting
    /\ LET end == FirstEnd(scenario.buffer)
           line == SubSeq(scenario.buffer, 1, end - 1)
           rest == SubSeq(scenario.buffer, end + 1, Len(scenario.buffer))
       IN  scenario' = IF line = <<>> THEN [scenario EXCEPT !.buffer = rest]
                       ELSE [Deliverable(line) EXCEPT !.buffer = rest]

\* The body is over: what is left is the last line.
BodyEnds ==
    /\ Waiting /\ ~scenario.aborted /\ scenario.read = Len(scenario.body)
    /\ LET last == IF scenario.buffer = <<>> THEN scenario ELSE Deliverable(scenario.buffer)
       IN  scenario' = [last EXCEPT !.buffer = <<>>, !.ending = IF @ = "none" THEN "whole" ELSE @]

\* The caller aborts: the request is destroyed, what has been read is still to be yielded.
AbortCall == Connected /\ ~scenario.aborted /\ scenario' = [scenario EXCEPT !.aborted = TRUE]

\* The next read of a request that was destroyed, or whose connection the gate lost.
ConnectionLost ==
    /\ Waiting
    /\ scenario' = [scenario EXCEPT !.ending = IF scenario.aborted THEN "aborted" ELSE "connection lost"]

---------------------------------------------------------------------------
Streamed == scenario.kind = "client"

\* The events the caller gets are those the gate sent, in their order, none twice,
\* none missing once the body is whole; letter for letter unless a read ended
\* inside a character.
EventsAsSent ==
    Streamed =>
        LET sent == LinesOf(Decoded(scenario.body)) IN
        /\ Len(scenario.events) <= Len(sent)
        /\ scenario.ending = "whole" => Len(scenario.events) = Len(sent)
        /\ ~scenario.torn => \A i \in DOMAIN scenario.events : scenario.events[i] = sent[i]

\* The limit falls on long lines alone: it ends no call whose lines are shorter than
\* it by a read, and no event is longer than it.
LimitForLines ==
    Streamed =>
        /\ scenario.ending = "line too long" =>
               \E line \in Range(LinesOf(scenario.body)) : Len(line) + MaxRead > MaxLine
        /\ \A i \in DOMAIN scenario.events : Len(scenario.events[i]) <= MaxLine
=============================================================================
