----------------------------- MODULE CallStream -----------------------------
(***************************************************************************)
(* What a client of thin-gate is promised for each call (PROTOCOL.md 4.5): *)
(* all the frames that the call's adapter yields, none repeated or out of  *)
(* order, then the one terminal event that it yields, and nothing after    *)
(* it.  The client may go away first; a session may be lost, and then the  *)
(* client has a part of the frames, at the end of it perhaps one that was  *)
(* cut short, and one error of the gate.  How a session process carries    *)
(* many calls one after the other, is cancelled, or dies, must not show.   *)
(***************************************************************************)
EXTENDS Naturals, Sequences

CONSTANTS
    Calls,
    MaxFrames       \* bound on the frames of one call

VARIABLES
    client,     \* "new", "open", "closed" (terminal received) or "left"
    seen,       \* the lines of the response body, oldest first
    said,       \* the frames that the adapter has yielded
    ended       \* the terminal that it has yielded, or "none"

\* How a call may end; "lost" is an error the gate writes in the session's place.
Endings == {"done", "cancelled", "error", "lost"}

Frame(c, n) == [call |-> c, kind |-> "frame", n |-> n]

Terminal(c, k) == [call |-> c, kind |-> k, n |-> 0]

Cut(c) == [call |-> c, kind |-> "cut", n |-> 0]

\* The body ends with a frame that was cut short.
IsTorn(c) == \E i \in DOMAIN seen[c] : seen[c][i] = Cut(c)

Init ==
    /\ client = [c \in Calls |-> "new"]
    /\ seen = [c \in Calls |-> <<>>]
    /\ said = [c \in Calls |-> 0]
    /\ ended = [c \in Calls |-> "none"]

Open(c) ==
    /\ client[c] = "new"
    /\ client' = [client EXCEPT ![c] = "open"]
    /\ UNCHANGED <<seen, said, ended>>

\* The adapter yields a frame, whether the client is still there or not ...
Say(c) ==
    /\ client[c] # "new" /\ ended[c] = "none"
    /\ said[c] < MaxFrames
    /\ said' = [said EXCEPT ![c] = @ + 1]
    /\ UNCHANGED <<client, seen, ended>>

\* ... and its terminal; it is cancelled only for a client that has left.
End(c, k) ==
    /\ client[c] # "new" /\ ended[c] = "none"
    /\ k = "cancelled" => client[c] = "left"
    /\ ended' = [ended EXCEPT ![c] = k]
    /\ UNCHANGED <<client, seen, said>>

\* The gate cannot hand the call to a session: the answer is one error.
Refuse(c) ==
    /\ client[c] = "new"
    /\ client' = [client EXCEPT ![c] = "closed"]
    /\ seen' = [seen EXCEPT ![c] = <<Terminal(c, "lost")>>]
    /\ UNCHANGED <<said, ended>>

Deliver(c) ==
    /\ client[c] = "open" /\ ~IsTorn(c)
    /\ Len(seen[c]) < said[c]
    /\ seen' = [seen EXCEPT ![c] = Append(@, Frame(c, Len(@) + 1))]
    /\ UNCHANGED <<client, said, ended>>

\* The terminal follows the last of the frames.
Finish(c) ==
    /\ client[c] = "open" /\ ~IsTorn(c)
    /\ ended[c] # "none" /\ Len(seen[c]) = said[c]
    /\ client' = [client EXCEPT ![c] = "closed"]
    /\ seen' = [seen EXCEPT ![c] = Append(@, Terminal(c, ended[c]))]
    /\ UNCHANGED <<said, ended>>

\* The session dies while it writes the frame after those delivered.
Tear(c) ==
    /\ client[c] = "open" /\ ~IsTorn(c)
    /\ ended[c] = "none" /\ Len(seen[c]) = said[c] /\ said[c] < MaxFrames
    /\ seen' = [seen EXCEPT ![c] = Append(@, Cut(c))]
    /\ UNCHANGED <<client, said, ended>>

\* The session is lost, or what it writes cannot be read.
Lose(c) ==
    /\ client[c] = "open"
    /\ client' = [client EXCEPT ![c] = "closed"]
    /\ seen' = [seen EXCEPT ![c] = Append(@, Terminal(c, "lost"))]
    /\ UNCHANGED <<said, ended>>

Leave(c) ==
    /\ client[c] = "open"
    /\ client' = [client EXCEPT ![c] = "left"]
    /\ UNCHANGED <<seen, said, ended>>

Next ==
    \E c \in Calls :
        \/ Open(c) \/ Refuse(c) \/ Say(c) \/ Deliver(c) \/ Finish(c)
        \/ Tear(c) \/ Lose(c) \/ Leave(c)
        \/ \E k \in Endings \ {"lost"} : End(c, k)

Spec == Init /\ [][Next]_<<client, seen, said, ended>>
=============================================================================
