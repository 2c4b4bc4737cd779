-------------------------- MODULE GateSessionProofs --------------------------
(***************************************************************************)
(* Theorems about GateSession, for every set of calls and every bound.     *)
(***************************************************************************)
EXTENDS GateSession, SequenceTheorems, TLAPS

\* PROTOCOL.md asks clients for a callId of its own for every call.
UniqueIds == \A c, d \in Calls : IdOf[c] = IdOf[d] => c = d

\* The process runs a call that has not said its terminal.
Running == cur.call # NoCall /\ ended[cur.call] = "none"

\* An envelope is still in the pipe to the process.
Sent == \E i \in DOMAIN stdin : stdin[i].op = "call"

\* The process has nothing to do, but for run() to return.
Idle == ~Sent /\ queue = <<>> /\ ~Running

\* Without a call there is nothing else to know of the current one; the session
\* has an owner while it streams or drains; half a line is half of some line.
ShapeOK ==
    /\ cur.call = NoCall => cur = NoCurrent
    /\ owner # NoCall <=> phase \in {"stream", "drain"}
    /\ torn => stdout # <<>> /\ phase = "stream"

\* Nothing has been said or seen of a call yet.
Untouched(c) == seen[c] = <<>> /\ said[c] = 0 /\ ended[c] = "none"

\* Whose turn it is: the client of the call being streamed waits, that of a call
\* being drained has left, and no other call is under way.
OwnerOK ==
    /\ phase = "stream" => client[owner] = "open"
    /\ phase = "drain" => client[owner] = "left"
    /\ phase = "gone" => ~up
    /\ \A c \in Calls : client[c] = "open" => owner = c /\ phase = "stream"
    /\ \A c \in Calls : client[c] = "new" => Untouched(c)

\* Only calls whose client has left are cancelled or run aborted, the cancel of the
\* call being drained is the last line that the process will read, and once it has
\* read it the call is aborted or will be.
CancelsOK ==
    /\ \A i \in DOMAIN stdin : stdin[i].op = "cancel" => client[stdin[i].call] = "left"
    /\ \A c \in heard : client[c] = "left"
    /\ \A i \in DOMAIN pre : \E c \in Calls : pre[i] = IdOf[c] /\ client[c] = "left"
    /\ cur.call # NoCall /\ cur.aborted => client[cur.call] = "left"
    /\ phase = "drain" => \A i \in DOMAIN stdin : stdin[i] = Cancel(owner) => i = Len(stdin)
    /\ phase = "drain" /\ owner \in heard => stdin = <<>>
    /\ phase = "drain" /\ owner \in heard /\ queue # <<>> => Contains(pre, IdOf[owner])
    /\ \A c \in heard : cur.call = c => cur.aborted

\* A call is in the pipe, in the queue or current, in one of them, and its own
\* output comes after that of the calls before it has been read; a terminal is the
\* last line the process writes for it.
WorkOK ==
    /\ cur.call # NoCall => client[cur.call] # "new"
    /\ phase # "gone" =>
        /\ \A i, j \in DOMAIN stdin : stdin[i].op = "call" /\ stdin[j].op = "call" => i = j
        /\ \A i \in DOMAIN stdin : stdin[i].op = "call" => stdin[i].call = owner
        /\ queue # <<>> => Len(queue) = 1 /\ queue[1] = owner
        /\ Sent => queue = <<>>
        /\ Sent \/ queue # <<>> =>
            /\ ~Running /\ cur.call # owner
            /\ stdout = <<>> /\ Untouched(owner) /\ phase \in {"stream", "drain"}
        /\ Running => cur.call = owner /\ phase \in {"stream", "drain"}
        /\ phase = "pooled" => stdout = <<>>
        /\ \A i \in DOMAIN stdout : IsTerminal(stdout[i]) => i = Len(stdout) /\ Idle

\* A line of the pipe is the next frame that the client has not seen, ...
FrameAt(i) ==
    /\ stdout[i] = Frame(owner, Len(seen[owner]) + i)
    /\ Len(seen[owner]) + i <= said[owner]

\* ... the terminal of a finished call, behind all its frames, ...
TerminalAt(i) ==
    /\ i = Len(stdout) /\ said[owner] = Len(seen[owner]) + i - 1
    /\ Idle /\ ended[owner] \in {"done", "error"}
    /\ stdout[i] = Terminal(owner, ended[owner])

\* ... or what a dead process has left of its next line.
RestAt(i) ==
    /\ i = Len(stdout) /\ ~up
    /\ \/ stdout[i] = Junk
       \/ /\ stdout[i] = Cut(owner) /\ said[owner] = Len(seen[owner]) + i - 1
          /\ ended[owner] = "none" /\ said[owner] < MaxFrames

\* What the client of a stream has yet to read, and what it has read.
OutputOK ==
    phase = "stream" =>
        /\ \A i \in DOMAIN stdout : FrameAt(i) \/ TerminalAt(i) \/ RestAt(i)
        /\ up /\ Running => said[owner] = Len(seen[owner]) + Len(stdout)
        /\ stdout # <<>> \/ (up /\ Running) => ~Abstract!IsTorn(owner)

-----------------------------------------------------------------------------
(* Type correctness.                                                       *)

\* What is written to the pipes, and what its reader makes of it.
LEMMA LineTypes ==
    /\ \A c \in Calls, n \in 1..MaxFrames : Frame(c, n) \in Lines
    /\ \A c \in Calls, k \in Endings : Terminal(c, k) \in Lines
    /\ \A c \in Calls : Cut(c) \in Lines
    /\ Lines \subseteq Outputs /\ Junk \in Outputs
    /\ \A line \in Outputs : IsFrame(line) \/ IsTerminal(line) \/ IsCut(line) => line \in Lines
  BY DEF Lines, Outputs, IsFrame, IsTerminal, IsCut

\* What the gate may write to the process, and what the process makes of it.
LEMMA InputTypes ==
    /\ \A c \in Calls : Envelope(c) \in Inputs /\ Cancel(c) \in Inputs
    /\ \A c \in Calls : /\ Envelope(c).op = "call" /\ Envelope(c).call = c
                        /\ Cancel(c).op = "cancel" /\ Cancel(c).call = c
    /\ \A line \in Inputs :
        /\ line.call \in Calls
        /\ line.op = "call" => line = Envelope(line.call)
        /\ line.op # "call" => line = Cancel(line.call) /\ line.op = "cancel"
<1>1. \A c \in Calls : Envelope(c) \in Inputs /\ Cancel(c) \in Inputs
  BY DEF Inputs
<1>2. \A c \in Calls : /\ Envelope(c).op = "call" /\ Envelope(c).call = c
                       /\ Cancel(c).op = "cancel" /\ Cancel(c).call = c
  BY DEF Envelope, Cancel
<1>3. ASSUME NEW line \in Inputs
      PROVE  \E c \in Calls : line = Envelope(c) \/ line = Cancel(c)
  BY DEF Inputs
<1> QED
  BY <1>1, <1>2, <1>3

\* The states of the current call.
LEMMA CurrentTypes ==
    /\ NoCurrent \in Currents
    /\ \A u \in Currents :
        /\ [u EXCEPT !.aborted = TRUE] \in Currents
        /\ u.call \in Calls \cup {NoCall} /\ u.aborted \in BOOLEAN
    /\ \A c \in Calls, b \in BOOLEAN : [call |-> c, aborted |-> b] \in Currents
<1>1. NoCurrent \in Currents
  BY GateSessionAssumption DEF NoCurrent, Currents
<1>2. ASSUME NEW u \in Currents
      PROVE  [u EXCEPT !.aborted = TRUE] \in Currents
  BY DEF Currents
<1>3. ASSUME NEW u \in Currents
      PROVE  u.call \in Calls \cup {NoCall} /\ u.aborted \in BOOLEAN
  BY DEF Currents
<1>4. ASSUME NEW c \in Calls, NEW b \in BOOLEAN
      PROVE  [call |-> c, aborted |-> b] \in Currents
  BY GateSessionAssumption DEF Currents
<1> QED
  BY <1>1, <1>2, <1>3, <1>4

\* One more line of a response body.
LEMMA SeenTypes ==
    ASSUME seen \in [Calls -> Seq(Lines)], NEW c, NEW line \in Lines
    PROVE  [seen EXCEPT ![c] = Append(@, line)] \in [Calls -> Seq(Lines)]
<1>1. CASE c \in Calls
  BY <1>1
<1>2. CASE c \notin Calls
  BY <1>2
<1> QED
  BY <1>1, <1>2

\* Taking the first element off a sequence, and adding one at its end.
LEMMA TailElements ==
    ASSUME NEW S, NEW s \in Seq(S), s # <<>>
    PROVE  /\ Tail(s) \in Seq(S) /\ Len(Tail(s)) = Len(s) - 1
           /\ Head(s) = s[1] /\ 1 \in DOMAIN s /\ s[1] \in S
           /\ \A i \in DOMAIN Tail(s) : i + 1 \in DOMAIN s /\ Tail(s)[i] = s[i + 1]
           /\ Len(s) = 1 => Tail(s) = <<>>
<1>1. Tail(s) \in Seq(S) /\ Len(Tail(s)) = Len(s) - 1
  OBVIOUS
<1>2. Head(s) = s[1] /\ 1 \in DOMAIN s /\ s[1] \in S
  OBVIOUS
<1>3. ASSUME NEW i \in DOMAIN Tail(s)
      PROVE  i + 1 \in DOMAIN s /\ Tail(s)[i] = s[i + 1]
  OBVIOUS
<1>4. Len(s) = 1 => Tail(s) = <<>>
  <2>1. Tail(s) # <<>> => Len(Tail(s)) \in Nat \ {0}
    BY <1>1, EmptySeq, Zenon
  <2> QED
    BY <1>1, <2>1
<1> QED
  BY <1>1, <1>2, <1>3, <1>4

\* The elements of a sequence after an append.
LEMMA AppendElements ==
    ASSUME NEW S, NEW s \in Seq(S), NEW x \in S
    PROVE  /\ Append(s, x) \in Seq(S) /\ Len(Append(s, x)) = Len(s) + 1
           /\ \A i \in DOMAIN Append(s, x) : \/ i \in DOMAIN s /\ i # Len(s) + 1 /\ Append(s, x)[i] = s[i]
                                             \/ i = Len(s) + 1 /\ Append(s, x)[i] = x
           /\ \A i \in DOMAIN s : i \in DOMAIN Append(s, x) /\ Append(s, x)[i] = s[i]
           /\ Append(s, x) # <<>>
<1>1. Append(s, x) \in Seq(S) /\ Len(Append(s, x)) = Len(s) + 1
  OBVIOUS
<1>2. ASSUME NEW i \in DOMAIN Append(s, x)
      PROVE  \/ i \in DOMAIN s /\ i # Len(s) + 1 /\ Append(s, x)[i] = s[i]
             \/ i = Len(s) + 1 /\ Append(s, x)[i] = x
  OBVIOUS
<1>3. ASSUME NEW i \in DOMAIN s
      PROVE  i \in DOMAIN Append(s, x) /\ Append(s, x)[i] = s[i]
  OBVIOUS
<1>4. Append(s, x) # <<>>
  BY AppendProperties
<1> QED
  BY <1>1, <1>2, <1>3, <1>4

\* RemoveAt leaves the other elements, in their order.
LEMMA RemoveAtProperties ==
    ASSUME NEW S, NEW s \in Seq(S), NEW k \in 1..Len(s)
    PROVE  /\ RemoveAt(s, k) \in Seq(S)
           /\ Len(RemoveAt(s, k)) = Len(s) - 1
           /\ \A i \in 1 .. Len(s) - 1 :
                RemoveAt(s, k)[i] = IF i < k THEN s[i] ELSE s[i + 1]
<1> DEFINE front == SubSeq(s, 1, k - 1)
           back == SubSeq(s, k + 1, Len(s))
<1>1. front \in Seq(S) /\ Len(front) = k - 1 /\ \A j \in 1 .. k - 1 : front[j] = s[j]
  <2>1. front \in Seq(S) /\ Len(front) = k - 1
    OBVIOUS
  <2>2. ASSUME NEW j \in 1 .. k - 1
        PROVE  front[j] = s[j]
    OBVIOUS
  <2> QED
    BY <2>1, <2>2
<1>2. back \in Seq(S) /\ Len(back) = Len(s) - k /\ \A j \in 1 .. Len(s) - k : back[j] = s[k + j]
  <2>1. back \in Seq(S) /\ Len(back) = Len(s) - k
    OBVIOUS
  <2>2. ASSUME NEW j \in 1 .. Len(s) - k
        PROVE  back[j] = s[k + j]
    OBVIOUS
  <2> QED
    BY <2>1, <2>2
<1>3. RemoveAt(s, k) = front \o back
  BY DEF RemoveAt
<1> HIDE DEF front, back
<1>4. /\ front \o back \in Seq(S)
      /\ Len(front \o back) = Len(front) + Len(back)
      /\ \A i \in 1 .. Len(front) + Len(back) :
           (front \o back)[i] = IF i <= Len(front) THEN front[i] ELSE back[i - Len(front)]
  <2>1. front \o back \in Seq(S) /\ Len(front \o back) = Len(front) + Len(back)
    BY <1>1, <1>2, ConcatProperties, Zenon
  <2>2. ASSUME NEW i \in 1 .. Len(front) + Len(back)
        PROVE  (front \o back)[i] = IF i <= Len(front) THEN front[i] ELSE back[i - Len(front)]
    BY <1>1, <1>2, ConcatProperties, Zenon
  <2> QED
    BY <2>1, <2>2
<1>5. Len(s) \in Nat
  OBVIOUS
<1>6. Len(front) + Len(back) = Len(s) - 1
  BY <1>1, <1>2, <1>5
<1>7. ASSUME NEW i \in 1 .. Len(s) - 1
      PROVE  (front \o back)[i] = IF i < k THEN s[i] ELSE s[i + 1]
  <2>1. CASE i < k
    BY <2>1, <1>1, <1>4, <1>6
  <2>2. CASE ~(i < k)
    <3>1. i - (k - 1) \in 1 .. Len(s) - k /\ k + (i - (k - 1)) = i + 1
      BY <2>2, <1>5
    <3>2. back[i - (k - 1)] = s[i + 1]
      BY <3>1, <1>2
    <3>3. (front \o back)[i] = back[i - (k - 1)]
      BY <2>2, <1>1, <1>4, <1>6
    <3> QED
      BY <3>2, <3>3, <2>2
  <2> QED
    BY <2>1, <2>2
<1> QED
  BY <1>3, <1>4, <1>6, <1>7

\* Forgetting an id leaves the others.
LEMMA ForgetType ==
    ASSUME pre \in Seq(Ids), NEW id \in Ids
    PROVE  /\ Forget(id) \in Seq(Ids)
           /\ Len(Forget(id)) <= Len(pre)
           /\ \A i \in DOMAIN Forget(id) : \E j \in DOMAIN pre : Forget(id)[i] = pre[j]
<1> USE LenProperties
<1>1. CASE ~Contains(pre, id)
  BY <1>1 DEF Forget
<1>2. CASE Contains(pre, id)
  <2>1. PICK k \in 1..Len(pre) : Forget(id) = RemoveAt(pre, k)
    BY <1>2 DEF Forget, Contains
  <2>2. /\ RemoveAt(pre, k) \in Seq(Ids)
        /\ Len(RemoveAt(pre, k)) = Len(pre) - 1
        /\ \A i \in 1 .. Len(pre) - 1 :
             RemoveAt(pre, k)[i] = IF i < k THEN pre[i] ELSE pre[i + 1]
    BY RemoveAtProperties
  <2>3. ASSUME NEW i \in 1 .. Len(pre) - 1
        PROVE  \E j \in 1..Len(pre) : RemoveAt(pre, k)[i] = pre[j]
    <3>1. i \in 1..Len(pre) /\ i + 1 \in 1..Len(pre)
      OBVIOUS
    <3> QED
      BY <3>1, <2>2
  <2>4. DOMAIN RemoveAt(pre, k) = 1 .. Len(pre) - 1 /\ DOMAIN pre = 1..Len(pre)
    BY <2>2
  <2>5. Len(RemoveAt(pre, k)) <= Len(pre)
    BY <2>2
  <2> QED
    BY ONLY <2>1, <2>2, <2>3, <2>4, <2>5
<1> QED
  BY <1>1, <1>2

\* Remembering an id: it is there, and the others were.
LEMMA RecordType ==
    ASSUME pre \in Seq(Ids), NEW id \in Ids
    PROVE  /\ Contains(RecordPrecancel(id), id)
           /\ \A i \in DOMAIN RecordPrecancel(id) :
                \/ RecordPrecancel(id)[i] = id
                \/ \E j \in DOMAIN pre : RecordPrecancel(id)[i] = pre[j]
<1>1. CASE Contains(pre, id)
  BY <1>1 DEF RecordPrecancel
<1>2. CASE ~Contains(pre, id)
  <2>1. PICK s \in Seq(Ids) : /\ RecordPrecancel(id) = Append(s, id)
                              /\ \A i \in DOMAIN s : \E j \in DOMAIN pre : s[i] = pre[j]
    <3>1. CASE Len(pre) >= PrecancelCap
      <4>1. pre # <<>>
        BY <3>1, GateSessionAssumption
      <4>2. /\ Tail(pre) \in Seq(Ids)
            /\ \A i \in DOMAIN Tail(pre) : \E j \in DOMAIN pre : Tail(pre)[i] = pre[j]
        BY <4>1, TailElements
      <4> QED
        BY <1>2, <3>1, <4>2 DEF RecordPrecancel
    <3>2. CASE ~(Len(pre) >= PrecancelCap)
      BY <1>2, <3>2 DEF RecordPrecancel
    <3> QED
      BY <3>1, <3>2
  <2>2. Append(s, id)[Len(s) + 1] = id /\ Len(s) + 1 \in 1..Len(Append(s, id))
    OBVIOUS
  <2> QED
    BY <2>1, <2>2, AppendElements DEF Contains
<1> QED
  BY <1>1, <1>2

\* Types hold at the start.
LEMMA TypeInit == Init => TypeOK /\ ShapeOK
<1>1. Init => /\ client \in [Calls -> {"new", "open", "closed", "left"}]
              /\ seen \in [Calls -> Seq(Lines)]
  BY DEF Init
<1>2. Init => stdin \in Seq(Inputs) /\ stdout \in Seq(Outputs) /\ queue \in Seq(Calls)
  BY DEF Init
<1>3. Init => pre \in Seq(Ids) /\ Len(pre) <= PrecancelCap
  BY GateSessionAssumption DEF Init
<1>4. Init => cur \in Currents /\ ShapeOK
  BY CurrentTypes DEF Init, ShapeOK
<1>5. Init => said \in [Calls -> 0..MaxFrames] /\ ended \in [Calls -> Endings \cup {"none"}]
  BY GateSessionAssumption DEF Init
<1> QED
  BY <1>1, <1>2, <1>3, <1>4, <1>5 DEF Init, TypeOK

\* Every step keeps the types and the shape of the queues.
LEMMA TypeStep == TypeOK /\ ShapeOK /\ [Next]_vars => TypeOK' /\ ShapeOK'
<1> USE DEF TypeOK, clientVars, gateVars, saidVars, processVars
<1>1. ASSUME TypeOK, NEW c \in Calls, Dispatch(c) PROVE TypeOK'
  BY <1>1, InputTypes DEF Dispatch
<1>2. ASSUME TypeOK, NEW c \in Calls, DispatchFails(c) PROVE TypeOK'
  <2>1. seen' \in [Calls -> Seq(Lines)]
    BY <1>2, LineTypes, SeenTypes DEF DispatchFails, Close, Endings
  <2> QED
    BY <1>2, <2>1 DEF DispatchFails, Kill, Close
<1>3. ASSUME TypeOK, ReadPart PROVE TypeOK'
  BY <1>3 DEF ReadPart
<1>4. ASSUME TypeOK, StreamFrame PROVE TypeOK'
  <2>1. Head(stdout) \in Lines
    BY <1>4, LineTypes DEF StreamFrame
  <2>2. seen' \in [Calls -> Seq(Lines)]
    BY <1>4, <2>1, SeenTypes DEF StreamFrame
  <2>3. stdout' \in Seq(Outputs)
    BY <1>4 DEF StreamFrame
  <2> QED
    BY <1>4, <2>2, <2>3 DEF StreamFrame
<1>5. ASSUME TypeOK, StreamTerminal PROVE TypeOK'
  <2>1. Head(stdout) \in Lines
    BY <1>5, LineTypes DEF StreamTerminal
  <2>2. seen' \in [Calls -> Seq(Lines)]
    BY <1>5, <2>1, SeenTypes DEF StreamTerminal
  <2>3. stdout' \in Seq(Outputs)
    BY <1>5 DEF StreamTerminal
  <2> QED
    BY <1>5, <2>2, <2>3 DEF StreamTerminal, Release
<1>6. ASSUME TypeOK, ShapeOK, phase = "stream", Close(owner, "lost"), Kill,
             UNCHANGED <<stdin, stdout, queue, cur, saidVars, pre, heard>>
      PROVE TypeOK'
  <2>0. owner \in Calls
    BY <1>6 DEF ShapeOK
  <2>1. seen' \in [Calls -> Seq(Lines)]
    BY <1>6, <2>0, LineTypes, SeenTypes DEF Close, Endings
  <2> QED
    BY <1>6, <2>1 DEF Kill, Close
<1>7. ASSUME TypeOK, DrainFrame PROVE TypeOK'
  <2>1. stdout' \in Seq(Outputs)
    BY <1>7 DEF DrainFrame
  <2> QED
    BY <1>7, <2>1 DEF DrainFrame
<1>8. ASSUME TypeOK, DrainTerminal PROVE TypeOK'
  <2>1. stdout' \in Seq(Outputs)
    BY <1>8 DEF DrainTerminal
  <2> QED
    BY <1>8, <2>1 DEF DrainTerminal, Release
<1>10. ASSUME TypeOK, ShapeOK, DropBody PROVE TypeOK'
  <2>1. owner \in Calls
    BY <1>10 DEF DropBody, ShapeOK
  <2>2. stdout' \in Seq(Outputs)
    <3>1. <<Junk>> \in Seq(Outputs)
      BY LineTypes
    <3>2. stdout # <<>> => Tail(stdout) \in Seq(Outputs)
      BY <1>10
    <3> QED
      BY <1>10, <3>1, <3>2 DEF DropBody, ShapeOK
  <2>3. stdin' \in Seq(Inputs)
    BY <1>10, <2>1, InputTypes DEF DropBody
  <2> QED
    BY <1>10, <2>2, <2>3 DEF DropBody
<1>11. ASSUME TypeOK, DrainFails PROVE TypeOK'
  BY <1>11 DEF DrainFails, Kill
<1>12. ASSUME TypeOK, Respawn PROVE TypeOK'
  <2>1. stdin' \in Seq(Inputs) /\ stdout' \in Seq(Outputs) /\ queue' \in Seq(Calls)
    BY <1>12 DEF Respawn
  <2>2. pre' \in Seq(Ids) /\ Len(pre') <= PrecancelCap
    BY <1>12, GateSessionAssumption DEF Respawn
  <2> QED
    BY <1>12, <2>1, <2>2, CurrentTypes DEF Respawn
<1>13. ASSUME TypeOK, ReadEnvelope PROVE TypeOK'
  <2>1. Head(stdin) \in Inputs
    BY <1>13 DEF ReadEnvelope
  <2> QED
    BY <1>13, <2>1, InputTypes DEF ReadEnvelope
<1>14. ASSUME TypeOK, ReadCancel PROVE TypeOK'
  <2>1. Head(stdin).call \in Calls
    BY <1>14, InputTypes DEF ReadCancel
  <2>2. cur' \in Currents
    BY <1>14, CurrentTypes DEF ReadCancel
  <2>3. pre' \in Seq(Ids) /\ Len(pre') <= PrecancelCap
    <3>1. IdOf[Head(stdin).call] \in Ids
      BY <2>1, GateSessionAssumption
    <3>2. ASSUME NEW id \in Ids
          PROVE  RecordPrecancel(id) \in Seq(Ids) /\ Len(RecordPrecancel(id)) <= PrecancelCap
      <4>1. RecordPrecancel(id) \in Seq(Ids)
        BY <1>14, GateSessionAssumption DEF RecordPrecancel
      <4>2. Len(RecordPrecancel(id)) <= PrecancelCap
        BY <1>14, GateSessionAssumption DEF RecordPrecancel
      <4> QED
        BY <4>1, <4>2
    <3> QED
      BY <1>14, <3>1, <3>2 DEF ReadCancel
  <2> QED
    BY <1>14, <2>1, <2>2, <2>3 DEF ReadCancel
<1>15. ASSUME TypeOK, Dequeue PROVE TypeOK'
  <2>1. Head(queue) \in Calls /\ IdOf[Head(queue)] \in Ids
    BY <1>15, GateSessionAssumption DEF Dequeue
  <2>2. pre' \in Seq(Ids) /\ Len(pre') <= PrecancelCap
    <3>1. Forget(IdOf[Head(queue)]) \in Seq(Ids) /\ Len(Forget(IdOf[Head(queue)])) <= Len(pre)
      BY <2>1, <1>15, ForgetType
    <3> QED
      BY <3>1, <1>15, LenProperties, GateSessionAssumption DEF Dequeue
  <2>3. cur' \in Currents
    BY <1>15, <2>1, CurrentTypes DEF Dequeue, Contains
  <2> QED
    BY <1>15, <2>1, <2>2, <2>3 DEF Dequeue
<1>16. ASSUME TypeOK, ShapeOK, SayFrame PROVE TypeOK'
  <2>1. cur.call \in Calls /\ said[cur.call] + 1 \in 1..MaxFrames
    <3>1. cur.call \in Calls
      BY <1>16 DEF SayFrame, InFlight, ShapeOK, Currents
    <3>2. said[cur.call] + 1 \in 1..MaxFrames
      BY <1>16, <3>1, GateSessionAssumption DEF SayFrame
    <3> QED
      BY <3>1, <3>2
  <2>2. stdout' \in Seq(Outputs)
    BY <1>16, <2>1, LineTypes DEF SayFrame
  <2>3. said' \in [Calls -> 0..MaxFrames]
    BY <1>16, <2>1, GateSessionAssumption DEF SayFrame
  <2> QED
    BY <1>16, <2>2, <2>3 DEF SayFrame
<1>17. ASSUME TypeOK, NEW ending \in Endings, ShapeOK, SayTerminal(ending) PROVE TypeOK'
  <2>1. cur.call \in Calls
    BY <1>17, CurrentTypes, GateSessionAssumption DEF SayTerminal, InFlight, ShapeOK
  <2>2. stdout' \in Seq(Outputs)
    BY <1>17, <2>1, LineTypes DEF SayTerminal
  <2>3. ended' \in [Calls -> Endings \cup {"none"}]
    BY <1>17, <2>1 DEF SayTerminal
  <2> QED
    BY <1>17, <2>2, <2>3 DEF SayTerminal
<1>18. ASSUME TypeOK, EndCall PROVE TypeOK'
  BY <1>18, CurrentTypes DEF EndCall
<1>19. ASSUME TypeOK, ShapeOK, SessionDies PROVE TypeOK'
  <2>1. InFlight => cur.call \in Calls
    BY <1>19, CurrentTypes, GateSessionAssumption DEF InFlight, ShapeOK
  <2>2. stdout' \in Seq(Outputs)
    <3>1. ASSUME NEW line \in Outputs PROVE Append(stdout, line) \in Seq(Outputs)
      BY <1>19
    <3>2. InFlight => Cut(cur.call) \in Outputs
      BY <2>1, LineTypes
    <3>3. Junk \in Outputs
      BY LineTypes
    <3> QED
      BY <1>19, <3>1, <3>2, <3>3 DEF SessionDies
  <2> QED
    BY <1>19, <2>2 DEF SessionDies
<1>22. ASSUME TypeOK, StreamCut PROVE TypeOK'
  <2>1. Head(stdout) \in Lines
    BY <1>22, LineTypes DEF StreamCut
  <2>2. seen' \in [Calls -> Seq(Lines)]
    BY <1>22, <2>1, SeenTypes DEF StreamCut
  <2>3. stdout' \in Seq(Outputs)
    BY <1>22 DEF StreamCut
  <2> QED
    BY <1>22, <2>2, <2>3 DEF StreamCut
<1>20. ASSUME TypeOK, UNCHANGED vars PROVE TypeOK'
  BY <1>20 DEF vars
<1>21. ASSUME TypeOK, ShapeOK, [Next]_vars PROVE ShapeOK'
  <2>1. (cur.call = NoCall => cur = NoCurrent)'
    <3>1. CASE ReadCancel
      BY <3>1, <1>21 DEF ShapeOK, ReadCancel, Currents
    <3>2. CASE Dequeue
      BY <3>2, <1>21, GateSessionAssumption DEF Dequeue
    <3>5. CASE EndCall \/ Respawn
      BY <3>5 DEF EndCall, Respawn
    <3>6. CASE UNCHANGED cur
      BY <3>6, <1>21 DEF ShapeOK, NoCurrent
    <3> QED
      BY <1>21, <3>1, <3>2, <3>5, <3>6
      DEF vars, Next, SayFrame, SayTerminal, GateReads, DriverReads, SayEnd, Dispatch, DispatchFails, ReadPart, StreamFrame,
          StreamTerminal, StreamCut, StreamJunk, StreamEOF, DrainFrame, DrainTerminal, StreamBreaks, DropBody, DrainFails,
          ReadEnvelope, SessionDies
  <2>2. (owner # NoCall <=> phase \in {"stream", "drain"})'
    <3>1. ASSUME NEW c \in Calls, Dispatch(c) PROVE (owner # NoCall <=> phase \in {"stream", "drain"})'
      BY <3>1, GateSessionAssumption DEF Dispatch
    <3>2. CASE Kill \/ Release
      BY <3>2 DEF Kill, Release
    <3>3. CASE DropBody \/ Respawn
      BY <3>3, <1>21 DEF ShapeOK, DropBody, Respawn
    <3>4. CASE UNCHANGED <<owner, phase>>
      BY <3>4, <1>21 DEF ShapeOK
    <3> QED
      BY <1>21, <3>1, <3>2, <3>3, <3>4
      DEF vars, Next, GateReads, DriverReads, SayEnd, DispatchFails, ReadPart, StreamFrame,
          StreamTerminal, StreamCut, StreamJunk, StreamEOF, DrainFrame, DrainTerminal, StreamBreaks, DrainFails,
          ReadEnvelope, ReadCancel, Dequeue, SayFrame, SayTerminal, EndCall, SessionDies
  <2>3. (torn => stdout # <<>> /\ phase = "stream")'
    <3>0. ASSUME NEW line PROVE Append(stdout, line) # <<>>
      <4>1. Len(Append(stdout, line)) = Len(stdout) + 1 /\ Len(stdout) \in Nat
        BY <1>21 DEF TypeOK
      <4> QED
        BY <4>1
    <3>1. CASE ~torn'
      BY <3>1
    <3>2. CASE ReadPart
      BY <3>2 DEF ReadPart
    <3>3. CASE SayFrame
      BY <3>0, <3>3, <1>21 DEF ShapeOK, SayFrame, gateVars
    <3>4. ASSUME NEW ending \in Endings, SayTerminal(ending)
          PROVE  (torn => stdout # <<>> /\ phase = "stream")'
      BY <3>0, <3>4, <1>21 DEF ShapeOK, SayTerminal, gateVars
    <3>5. CASE UNCHANGED <<torn, stdout, phase>>
      BY <3>5, <1>21 DEF ShapeOK
    <3>8. CASE SessionDies
      BY <3>0, <3>8, <1>21 DEF ShapeOK, SessionDies, gateVars
    <3>6. ASSUME NEW c \in Calls, Dispatch(c) PROVE ~torn'
      BY <3>6, <1>21 DEF ShapeOK, Dispatch
    <3>7. CASE Respawn
      BY <3>7, <1>21 DEF ShapeOK, Respawn
    <3> QED
      BY <1>21, <3>1, <3>2, <3>3, <3>4, <3>5, <3>6, <3>7, <3>8
      DEF vars, Next, GateReads, DriverReads, SayEnd, DispatchFails, StreamFrame, StreamTerminal,
          StreamCut, StreamJunk, StreamEOF, DrainFrame, DrainTerminal, StreamBreaks, DropBody, DrainFails,
          ReadEnvelope, ReadCancel, Dequeue, EndCall, Kill, Release
  <2> QED
    BY <2>1, <2>2, <2>3 DEF ShapeOK
<1> QED
  BY <1>1, <1>2, <1>3, <1>4, <1>5, <1>6, <1>7, <1>8, <1>10, <1>11, <1>12, <1>13, <1>14,
     <1>15, <1>16, <1>17, <1>18, <1>19, <1>20, <1>21, <1>22
  DEF Next, GateReads, DriverReads, SayEnd, StreamBreaks, StreamJunk, StreamEOF

\* Every variable keeps its type, and no more ids are remembered than the cap allows.
THEOREM TypeCorrect == Spec => []TypeOK
<1>1. Spec => [](TypeOK /\ ShapeOK)
  BY TypeInit, TypeStep, PTL DEF Spec
<1> QED
  BY <1>1, PTL

-----------------------------------------------------------------------------
(* A session is handed over with nothing left to do.                       *)

\* At the start no call owns the session.
LEMMA OwnerInit == Init => OwnerOK
  BY DEF Init, OwnerOK, Untouched

\* Every step keeps the body and the owner of the session in one phase.
LEMMA OwnerStep == TypeOK /\ ShapeOK /\ OwnerOK /\ WorkOK /\ [Next]_vars => OwnerOK'
<1> SUFFICES ASSUME TypeOK, ShapeOK, OwnerOK, WorkOK, [Next]_vars PROVE OwnerOK'
  OBVIOUS
<1>0. /\ client \in [Calls -> {"new", "open", "closed", "left"}]
      /\ seen \in [Calls -> Seq(Lines)]
      /\ owner \in Calls \cup {NoCall}
      /\ phase \in {"stream", "drain"} => owner \in Calls
      /\ said \in [Calls -> 0..MaxFrames] /\ ended \in [Calls -> Endings \cup {"none"}]
  BY DEF TypeOK, ShapeOK
<1> USE DEF OwnerOK, Untouched, saidVars
<1>1. ASSUME NEW c \in Calls, Dispatch(c) PROVE OwnerOK'
  BY <1>0, <1>1 DEF Dispatch, processVars
<1>2. ASSUME NEW c \in Calls, DispatchFails(c) PROVE OwnerOK'
  BY <1>0, <1>2 DEF DispatchFails, Kill, Close
<1>3. CASE ReadPart
  BY <1>3 DEF ReadPart, clientVars, processVars
<1>4. CASE StreamFrame
  BY <1>0, <1>4 DEF StreamFrame, processVars
<1>5. CASE StreamTerminal
  BY <1>0, <1>5 DEF StreamTerminal, Release, processVars
<1>6. CASE phase = "stream" /\ Close(owner, "lost") /\ Kill /\ UNCHANGED saidVars
  BY <1>0, <1>6 DEF Close, Kill
<1>7. CASE DrainFrame
  BY <1>7 DEF DrainFrame, clientVars, processVars
<1>8. CASE DrainTerminal
  BY <1>0, <1>8 DEF DrainTerminal, Release, clientVars, processVars
<1>9. CASE DropBody
  BY <1>0, <1>9 DEF DropBody, processVars
<1>10. CASE DrainFails
  BY <1>0, <1>10 DEF DrainFails, Kill, clientVars
<1>11. CASE Respawn
  BY <1>0, <1>11 DEF Respawn, clientVars
<1>12. CASE SessionDies
  BY <1>12 DEF SessionDies, clientVars, gateVars
<1>13. CASE UNCHANGED <<client, seen, phase, owner, up, said, ended>>
  BY <1>13
<1>14. CASE StreamCut
  BY <1>0, <1>14 DEF StreamCut, processVars
<1>15. CASE SayFrame \/ SayEnd
  <2>1. cur.call # NoCall /\ UNCHANGED <<client, seen, phase, owner, up>>
    BY <1>15 DEF SayFrame, SayEnd, SayTerminal, InFlight, ShapeOK, clientVars, gateVars
  <2>2. ASSUME NEW c \in Calls, c # cur.call
        PROVE  said'[c] = said[c] /\ ended'[c] = ended[c]
    BY <1>0, <1>15, <2>2 DEF SayFrame, SayEnd, SayTerminal
  <2>3. ASSUME NEW c \in Calls, client[c] = "new" PROVE c # cur.call
    BY <2>1, <2>3 DEF WorkOK
  <2> QED
    BY <2>1, <2>2, <2>3
<1> QED
  BY <1>1, <1>2, <1>3, <1>4, <1>5, <1>6, <1>7, <1>8, <1>9, <1>10, <1>11, <1>12, <1>13, <1>14, <1>15
  DEF Next, GateReads, DriverReads, StreamBreaks, StreamJunk, StreamEOF, ReadEnvelope, ReadCancel,
      Dequeue, EndCall, clientVars, gateVars, processVars, vars

\* At the start nothing is queued.
LEMMA WorkInit == Init => WorkOK
  BY DEF Init, WorkOK, Sent, Running, NoCurrent, Idle, Untouched

\* Every step keeps what is sent, queued and run the owner's.
LEMMA WorkStep == TypeOK /\ ShapeOK /\ OwnerOK /\ WorkOK /\ [Next]_vars => WorkOK'
<1> SUFFICES ASSUME TypeOK, ShapeOK, OwnerOK, WorkOK, [Next]_vars PROVE WorkOK'
  OBVIOUS
<1>0. /\ client \in [Calls -> {"new", "open", "closed", "left"}]
      /\ seen \in [Calls -> Seq(Lines)]
      /\ owner \in Calls \cup {NoCall}
      /\ phase \in {"stream", "drain"} => owner \in Calls /\ client[owner] # "new"
      /\ stdin \in Seq(Inputs) /\ stdout \in Seq(Outputs) /\ queue \in Seq(Calls)
      /\ cur \in Currents
      /\ cur.call \in Calls \cup {NoCall}
      /\ said \in [Calls -> 0..MaxFrames] /\ ended \in [Calls -> Endings \cup {"none"}]
  BY CurrentTypes DEF TypeOK, ShapeOK, OwnerOK
<1> USE DEF Untouched, saidVars
<1>1. ASSUME NEW c \in Calls, Dispatch(c) PROVE WorkOK'
  BY <1>0, <1>1, InputTypes, AppendElements, GateSessionAssumption
  DEF WorkOK, OwnerOK, Dispatch, Sent, Running, Idle, processVars
<1>2. ASSUME Kill, UNCHANGED <<cur, saidVars>>, \A c \in Calls : client[c] # "new" => client'[c] # "new"
      PROVE  WorkOK'
  BY <1>0, <1>2, GateSessionAssumption DEF WorkOK, Kill
<1>3. CASE ReadPart
  BY <1>3 DEF WorkOK, ReadPart, clientVars, processVars, Sent, Running, Idle
<1>4. CASE StreamFrame
  BY <1>0, <1>4, TailElements DEF WorkOK, StreamFrame, processVars, Sent, Running, Idle
<1>5. CASE StreamTerminal
  BY <1>0, <1>5, TailElements DEF WorkOK, StreamTerminal, Release, processVars, Sent, Running, Idle
<1>6. CASE DrainFrame
  BY <1>0, <1>6, TailElements DEF WorkOK, DrainFrame, clientVars, processVars, Sent, Running, Idle
<1>7. CASE DrainTerminal
  BY <1>0, <1>7, TailElements DEF WorkOK, DrainTerminal, Release, clientVars, processVars, Sent, Running, Idle
<1>8. CASE DropBody
  <2>1. \A i \in DOMAIN stdin' :
          \/ i \in DOMAIN stdin /\ stdin'[i] = stdin[i]
          \/ stdin'[i].op # "call"
    BY <1>0, <1>8, AppendElements, InputTypes DEF DropBody
  <2>2. \A i \in DOMAIN stdin : i \in DOMAIN stdin' /\ stdin'[i] = stdin[i]
    BY <1>0, <1>8, AppendElements, InputTypes DEF DropBody
  <2>3. /\ Len(stdout') = Len(stdout) /\ DOMAIN stdout' = DOMAIN stdout
        /\ \A i \in DOMAIN stdout : stdout'[i] = stdout[i] \/ stdout'[i] = Junk
    <3>1. CASE ~torn
      BY <1>0, <1>8, <3>1 DEF DropBody
    <3>2. CASE torn
      <4>1. stdout # <<>> /\ stdout' = <<Junk>> \o Tail(stdout)
        BY <1>8, <3>2 DEF DropBody, ShapeOK
      <4> QED
        BY ONLY <4>1, <1>0
    <3> QED
      BY <3>1, <3>2
  <2>4. stdout = <<>> => stdout' = <<>>
    BY <1>8 DEF DropBody, ShapeOK
  <2>5. Sent' <=> Sent
    BY <2>1, <2>2 DEF Sent
  <2>6. /\ phase' = "drain" /\ UNCHANGED <<owner, queue, cur, seen, said, ended>>
        /\ \A c \in Calls : client[c] # "new" => client'[c] # "new"
    BY <1>0, <1>8 DEF DropBody, processVars
  <2>7. \A i \in DOMAIN stdout' : IsTerminal(stdout'[i]) => i = Len(stdout') /\ Idle'
    BY <1>8, <2>3, <2>5, <2>6 DEF DropBody, WorkOK, Idle, Running, IsTerminal
  <2>8. phase # "gone" /\ (Running' <=> Running)
    BY <1>8, <2>6 DEF DropBody, Running
  <2>9. \A i, j \in DOMAIN stdin' : stdin'[i].op = "call" /\ stdin'[j].op = "call" => i = j
    BY <2>1, <2>8 DEF WorkOK
  <2>10. \A i \in DOMAIN stdin' : stdin'[i].op = "call" => stdin'[i].call = owner'
    BY <2>1, <2>6, <2>8 DEF WorkOK
  <2>11. cur'.call # NoCall => client'[cur'.call] # "new"
    BY <1>0, <2>6 DEF WorkOK
  <2> QED
    BY <2>4, <2>5, <2>6, <2>7, <2>8, <2>9, <2>10, <2>11 DEF WorkOK
<1>9. CASE Respawn
  BY <1>0, <1>9 DEF WorkOK, Respawn, clientVars, Sent, Running, Idle, NoCurrent
<1>10. CASE ReadEnvelope
  BY <1>0, <1>10, TailElements DEF WorkOK, ReadEnvelope, clientVars, gateVars, Sent, Running, Idle
<1>11. CASE ReadCancel
  <2>1. cur'.call = cur.call
    BY <1>0, <1>11 DEF ReadCancel, Currents
  <2>2. /\ DOMAIN stdin' \in SUBSET Nat
        /\ \A i \in DOMAIN stdin' : i + 1 \in DOMAIN stdin /\ stdin'[i] = stdin[i + 1]
    BY <1>0, <1>11, TailElements DEF ReadCancel
  <2> QED
    BY <1>0, <1>11, <2>1, <2>2 DEF WorkOK, ReadCancel, clientVars, gateVars, Sent, Running, Idle
<1>12. CASE Dequeue
  <2>1. phase # "gone" /\ owner \in Calls
    BY <1>0, <1>12 DEF Dequeue, WorkOK, OwnerOK
  <2>2. queue' = <<>> /\ cur'.call = owner /\ UNCHANGED <<said, ended>>
    BY <1>0, <1>12, <2>1, TailElements DEF Dequeue, WorkOK
  <2>3. ~Sent /\ stdout = <<>> /\ phase \in {"stream", "drain"}
    BY <1>12, <2>1 DEF Dequeue, WorkOK
  <2> QED
    BY <1>0, <1>12, <2>1, <2>2, <2>3 DEF WorkOK, Dequeue, clientVars, gateVars, Sent, Running, Idle
<1>13. CASE SayFrame
  <2>1. Running /\ phase # "gone" /\ UNCHANGED <<cur, ended>> /\ cur.call \in Calls
    BY <1>0, <1>13 DEF SayFrame, InFlight, Running, ShapeOK, OwnerOK
  <2>2. ~IsTerminal(Frame(cur.call, said[cur.call] + 1)) /\ Frame(cur.call, said[cur.call] + 1) \in Outputs
    <3>1. ~IsTerminal(Frame(cur.call, said[cur.call] + 1))
      BY DEF IsTerminal, Frame, Endings
    <3>3. said[cur.call] + 1 \in 1..MaxFrames
      BY <1>0, <1>13, <2>1, GateSessionAssumption DEF SayFrame
    <3> QED
      BY <2>1, <3>1, <3>3, LineTypes
  <2>3. \A i \in DOMAIN stdout' : ~IsTerminal(stdout'[i])
    BY <1>0, <1>13, <2>1, <2>2, AppendElements DEF WorkOK, SayFrame, Idle
  <2>4. ~Sent /\ queue = <<>>
    BY <2>1 DEF WorkOK
  <2> QED
    BY <1>0, <1>13, <2>1, <2>3, <2>4
    DEF WorkOK, SayFrame, clientVars, gateVars, Sent, Running, Idle
<1>14. ASSUME NEW ending \in Endings, SayTerminal(ending) PROVE WorkOK'
  <2>1. Running /\ phase # "gone" /\ UNCHANGED cur /\ cur.call \in Calls /\ ~Running'
    <3>1. Running /\ phase # "gone" /\ UNCHANGED cur /\ cur.call \in Calls
      BY <1>0, <1>14 DEF SayTerminal, InFlight, Running, ShapeOK, OwnerOK
    <3>2. ended'[cur.call] = ending /\ ending # "none"
      BY <1>0, <1>14, <3>1 DEF SayTerminal, Endings
    <3> QED
      BY <3>1, <3>2 DEF Running
  <2>2. Terminal(cur.call, ending) \in Outputs
    BY <1>0, <1>14, <2>1, LineTypes DEF Running
  <2>3. ~Sent /\ queue = <<>>
    BY <2>1 DEF WorkOK
  <2>4. \A i \in DOMAIN stdout' : IsTerminal(stdout'[i]) => i = Len(stdout')
    BY <1>0, <1>14, <2>1, <2>2, AppendElements DEF WorkOK, SayTerminal, Idle
  <2>5. ~Sent' /\ queue' = <<>>
    BY <1>14, <2>3 DEF SayTerminal, Sent
  <2> QED
    BY <1>0, <1>14, <2>1, <2>4, <2>5
    DEF WorkOK, SayTerminal, clientVars, gateVars, Idle
<1>15. CASE EndCall
  BY <1>0, <1>15, GateSessionAssumption DEF WorkOK, EndCall, clientVars, gateVars, Sent, Running, Idle, NoCurrent
<1>16. CASE UNCHANGED <<clientVars, phase, owner, stdin, stdout, queue, cur, saidVars>>
  BY <1>16 DEF WorkOK, clientVars, Sent, Running, Idle
<1>17. ASSUME NEW c \in Calls, DispatchFails(c) PROVE WorkOK'
  BY <1>0, <1>2, <1>17 DEF DispatchFails, Close
<1>18. CASE StreamBreaks \/ StreamJunk \/ StreamEOF \/ DrainFails
  BY <1>0, <1>2, <1>18 DEF StreamBreaks, StreamJunk, StreamEOF, DrainFails, Close, clientVars
<1>19. CASE SessionDies
  <2>1. CASE UNCHANGED stdout
    BY <1>16, <1>19, <2>1 DEF SessionDies, gateVars
  <2>2. ASSUME NEW line \in {Junk, Cut(cur.call)}, InFlight, stdout' = Append(stdout, line)
        PROVE  WorkOK'
    <3>1. Running /\ phase # "gone" /\ UNCHANGED <<cur, ended>> /\ cur.call \in Calls
      BY <1>0, <1>19, <2>2 DEF SessionDies, InFlight, Running, ShapeOK, OwnerOK
    <3>2. ~IsTerminal(line) /\ line \in Outputs
      BY <2>2, <3>1, LineTypes DEF IsTerminal, Cut, Endings
    <3>3. \A i \in DOMAIN stdout' : ~IsTerminal(stdout'[i])
      BY <1>0, <2>2, <3>1, <3>2, AppendElements DEF WorkOK, Idle
    <3>4. ~Sent /\ queue = <<>> /\ ~Sent' /\ queue' = <<>>
      BY <1>19, <3>1 DEF WorkOK, SessionDies, Sent
    <3>5. UNCHANGED <<client, seen, said, phase, owner, stdin>>
      BY <1>19 DEF SessionDies, clientVars, gateVars
    <3> QED
      BY <3>1, <3>3, <3>4, <3>5 DEF WorkOK, Running, Idle
  <2> QED
    BY <1>19, <2>1, <2>2 DEF SessionDies
<1>20. CASE StreamCut
  BY <1>0, <1>20, TailElements DEF WorkOK, StreamCut, processVars, Sent, Running, Idle
<1> QED
  BY <1>1, <1>3, <1>4, <1>5, <1>6, <1>7, <1>8, <1>9, <1>10, <1>11, <1>12, <1>13, <1>14,
     <1>15, <1>16, <1>17, <1>18, <1>19, <1>20
  DEF Next, GateReads, DriverReads, SayEnd, vars, gateVars, processVars

\* What every reachable state has in common, whatever the callIds.
SInv == TypeOK /\ ShapeOK /\ OwnerOK /\ WorkOK

\* The structure holds at the start.
LEMMA SInvInit == Init => SInv
  BY TypeInit, OwnerInit, WorkInit DEF SInv

\* Every step keeps the structure.
LEMMA SInvStep == SInv /\ [Next]_vars => SInv'
  BY TypeStep, OwnerStep, WorkStep DEF SInv

\* The structure holds in every reachable state.
LEMMA Invariant == Spec => []SInv
  BY SInvInit, SInvStep, PTL DEF Spec

\* A session in the pool has nothing to say and nothing to do, and the process works
\* only for the call that holds the session: no call can read another one's lines.
THEOREM HandedOverClean == Spec => []CleanHandover
<1>1. SInv => CleanHandover
  <2> SUFFICES ASSUME SInv PROVE CleanHandover
    OBVIOUS
  <2>1. ASSUME NEW c \in Calls, Contains(stdin, Envelope(c)), phase # "gone"
        PROVE  Sent /\ c = owner
    <3>1. PICK i \in DOMAIN stdin : stdin[i] = Envelope(c)
      BY <2>1 DEF Contains, SInv, TypeOK
    <3>2. stdin[i].op = "call" /\ stdin[i].call = c
      BY <3>1, InputTypes
    <3> QED
      BY <2>1, <3>1, <3>2 DEF SInv, WorkOK, Sent
  <2>2. ASSUME NEW c \in Calls, Contains(queue, c), phase # "gone"
        PROVE  queue # <<>> /\ c = owner
    BY <2>2 DEF SInv, TypeOK, WorkOK, Contains
  <2>3. ASSUME NEW c \in Calls, cur.call = c /\ ended[c] = "none", phase # "gone"
        PROVE  Running /\ c = owner
    BY <2>3, GateSessionAssumption DEF SInv, WorkOK, Running
  <2>4. phase = "pooled" => stdout = <<>> /\ ~Sent /\ queue = <<>> /\ ~Running
    BY DEF SInv, WorkOK
  <2> QED
    BY <2>1, <2>2, <2>3, <2>4 DEF CleanHandover, Unfinished
<1> QED
  BY <1>1, Invariant, PTL

-----------------------------------------------------------------------------
(* A cancel hits its own call, when no callId is used twice.               *)

\* A client that has left does not come back.
LEMMA LeftStays ==
    ASSUME SInv, [Next]_vars, NEW c \in Calls, client[c] = "left"
    PROVE  client'[c] = "left"
<1>1. /\ client \in [Calls -> {"new", "open", "closed", "left"}]
      /\ phase = "stream" => client[owner] # "left"
  BY DEF SInv, TypeOK, OwnerOK
<1> QED
  BY <1>1 DEF Next, vars, clientVars, GateReads, DriverReads, SayEnd, Dispatch, DispatchFails, Close,
      ReadPart, StreamFrame, StreamTerminal, StreamCut, StreamJunk, StreamEOF, DrainFrame, DrainTerminal, StreamBreaks,
      DropBody, DrainFails, Respawn, ReadEnvelope, ReadCancel, Dequeue, SayFrame, SayTerminal,
      EndCall, SessionDies

\* At the start no cancel is on its way.
LEMMA CancelsInit == Init => CancelsOK
  BY DEF Init, CancelsOK, NoCurrent

\* Every step keeps each cancel the owner's, where calls have unique ids.
LEMMA CancelsStep ==
    ASSUME UniqueIds PROVE SInv /\ CancelsOK /\ [Next]_vars => CancelsOK'
<1> SUFFICES ASSUME SInv, CancelsOK, [Next]_vars PROVE CancelsOK'
  OBVIOUS
<1>0. /\ client \in [Calls -> {"new", "open", "closed", "left"}]
      /\ owner \in Calls \cup {NoCall}
      /\ stdin \in Seq(Inputs) /\ queue \in Seq(Calls) /\ pre \in Seq(Ids)
      /\ cur \in Currents /\ cur.call \in Calls \cup {NoCall}
      /\ heard \subseteq Calls
      /\ \A c \in Calls : client[c] = "left" => client'[c] = "left"
  BY CurrentTypes, LeftStays DEF SInv, TypeOK
<1>1. ASSUME NEW c \in Calls, Dispatch(c) PROVE CancelsOK'
  <2>1. \A i \in DOMAIN stdin' : \/ i \in DOMAIN stdin /\ stdin'[i] = stdin[i]
                                 \/ stdin'[i].op # "cancel"
    BY <1>0, <1>1, AppendElements, InputTypes DEF Dispatch
  <2> QED
    BY <1>0, <1>1, <2>1, InputTypes DEF Dispatch, CancelsOK, processVars
<1>2. ASSUME Kill, UNCHANGED <<stdin, cur, pre, heard>> PROVE CancelsOK'
  BY <1>0, <1>2, InputTypes DEF CancelsOK, Kill
<1>3. CASE StreamFrame \/ StreamCut \/ ReadPart \/ DrainFrame \/ SessionDies
  BY <1>3 DEF CancelsOK, StreamFrame, StreamCut, ReadPart, DrainFrame, SessionDies, clientVars, gateVars, processVars
<1>4. CASE StreamTerminal \/ DrainTerminal
  BY <1>0, <1>4, InputTypes DEF CancelsOK, StreamTerminal, DrainTerminal, Release, clientVars, processVars
<1>5. CASE DropBody
  <2>1. owner \in Calls /\ client[owner] # "left" /\ client'[owner] = "left"
    BY <1>0, <1>5 DEF DropBody, SInv, ShapeOK, OwnerOK
  <2>2. \A i \in DOMAIN stdin : stdin[i] # Cancel(owner)
    BY <1>0, <2>1, InputTypes DEF CancelsOK
  <2>3. \A i \in DOMAIN stdin' :
          \/ i \in DOMAIN stdin /\ stdin'[i] = stdin[i]
          \/ stdin'[i] = Cancel(owner) /\ i = Len(stdin')
    BY <1>0, <1>5, <2>1, AppendElements, InputTypes DEF DropBody
  <2>4. owner \notin heard
    BY <2>1 DEF CancelsOK
  <2> QED
    BY <1>0, <1>5, <2>1, <2>2, <2>3, <2>4, InputTypes DEF DropBody, CancelsOK, processVars
<1>6. CASE Respawn
  BY <1>6, GateSessionAssumption DEF CancelsOK, Respawn, NoCurrent, clientVars
<1>7. CASE ReadEnvelope
  <2>1. /\ \A i \in DOMAIN stdin' : i + 1 \in DOMAIN stdin /\ stdin'[i] = stdin[i + 1]
        /\ Len(stdin') = Len(stdin) - 1 /\ stdin # <<>>
    BY <1>0, <1>7, TailElements DEF ReadEnvelope
  <2> QED
    BY <1>0, <1>7, <2>1 DEF CancelsOK, ReadEnvelope, clientVars, gateVars
<1>8. CASE ReadCancel
  <2> DEFINE d == Head(stdin).call
  <2>1. /\ \A i \in DOMAIN stdin' : i + 1 \in DOMAIN stdin /\ stdin'[i] = stdin[i + 1]
        /\ Len(stdin') = Len(stdin) - 1 /\ stdin # <<>>
        /\ Len(stdin) = 1 => stdin' = <<>>
        /\ Len(stdin) \in Nat /\ Head(stdin) = stdin[1] /\ 1 \in DOMAIN stdin
    BY <1>0, <1>8, TailElements DEF ReadCancel
  <2>2. d \in Calls /\ client[d] = "left" /\ Head(stdin) = Cancel(d) /\ IdOf[d] \in Ids
    BY <1>0, <1>8, <2>1, InputTypes, GateSessionAssumption DEF ReadCancel, CancelsOK
  <2>3. heard' = heard \cup {d} /\ UNCHANGED <<client, phase, owner, queue>>
    BY <1>8 DEF ReadCancel, clientVars, gateVars
  <2>4. /\ cur'.call = cur.call
        /\ cur.aborted => cur'.aborted
        /\ cur'.aborted => cur.aborted \/ cur.call = d
        /\ cur.call = d => cur'.aborted
    BY <1>0, <1>8, <2>2, GateSessionAssumption DEF ReadCancel, Currents, UniqueIds
  <2>5. \A i \in DOMAIN pre' : \E c \in Calls : pre'[i] = IdOf[c] /\ client[c] = "left"
    <3>1. CASE pre' = pre
      BY <3>1 DEF CancelsOK
    <3>2. CASE pre' = RecordPrecancel(IdOf[d])
      <4>1. \A i \in DOMAIN pre' : pre'[i] = IdOf[d] \/ \E j \in DOMAIN pre : pre'[i] = pre[j]
        BY <1>0, <2>2, <3>2, RecordType
      <4> QED
        BY <2>2, <4>1 DEF CancelsOK
    <3> QED
      BY <1>8, <3>1, <3>2 DEF ReadCancel
  <2>6. ASSUME phase = "drain", owner \in heard' PROVE d = owner /\ stdin' = <<>>
    <3>1. d = owner
      BY <2>1, <2>3, <2>6 DEF CancelsOK
    <3> QED
      BY <2>1, <2>2, <2>6, <3>1 DEF CancelsOK
  <2>7. ASSUME phase = "drain", owner \in heard', queue # <<>>
        PROVE  Contains(pre', IdOf[owner])
    <3>1. cur.call # owner
      BY <2>7 DEF SInv, WorkOK
    <3>2. pre' = RecordPrecancel(IdOf[d])
      BY <1>0, <1>8, <2>2, <2>6, <2>7, <3>1 DEF ReadCancel, UniqueIds
    <3> QED
      BY <1>0, <2>2, <2>6, <2>7, <3>2, RecordType
  <2>8. /\ \A i \in DOMAIN stdin' : stdin'[i].op = "cancel" => client[stdin'[i].call] = "left"
        /\ phase = "drain" => \A i \in DOMAIN stdin' : stdin'[i] = Cancel(owner) => i = Len(stdin')
    BY <1>0, <2>1 DEF CancelsOK
  <2> QED
    BY <1>0, <2>2, <2>3, <2>4, <2>5, <2>6, <2>7, <2>8 DEF CancelsOK
<1>9. CASE Dequeue
  <2>1. owner \in Calls /\ IdOf[owner] \in Ids /\ phase \in {"stream", "drain"}
    BY <1>0, <1>9, GateSessionAssumption DEF Dequeue, SInv, OwnerOK, WorkOK, ShapeOK
  <2>2. Head(queue) = owner /\ queue' = <<>>
    BY <1>0, <1>9, <2>1, TailElements DEF Dequeue, SInv, WorkOK
  <2>3. cur'.call = owner /\ cur'.aborted = Contains(pre, IdOf[owner]) /\ pre' = Forget(IdOf[owner])
    BY <1>9, <2>2 DEF Dequeue
  <2>4. \A i \in DOMAIN pre' : \E c \in Calls : pre'[i] = IdOf[c] /\ client[c] = "left"
    <3>1. \A i \in DOMAIN pre' : \E j \in DOMAIN pre : pre'[i] = pre[j]
      BY <1>0, <2>1, <2>3, ForgetType
    <3> QED
      BY <3>1 DEF CancelsOK
  <2>5. Contains(pre, IdOf[owner]) => client[owner] = "left"
    BY <1>0, <2>1 DEF Contains, CancelsOK, UniqueIds
  <2>6. owner \in heard => Contains(pre, IdOf[owner])
    BY <1>9, <2>1 DEF Dequeue, CancelsOK, SInv, OwnerOK
  <2>7. UNCHANGED <<client, phase, owner, stdin, heard>>
    BY <1>9 DEF Dequeue, clientVars, gateVars
  <2> QED
    BY <2>2, <2>3, <2>4, <2>5, <2>6, <2>7 DEF CancelsOK
<1>10. CASE SayFrame
  BY <1>0, <1>10 DEF CancelsOK, SayFrame, clientVars, gateVars, Currents
<1>11. ASSUME NEW ending \in Endings, SayTerminal(ending) PROVE CancelsOK'
  BY <1>0, <1>11 DEF CancelsOK, SayTerminal, clientVars, gateVars, Currents
<1>12. CASE EndCall
  BY <1>0, <1>12, GateSessionAssumption DEF CancelsOK, EndCall, NoCurrent, clientVars, gateVars
<1>13. CASE UNCHANGED vars
  BY <1>13 DEF CancelsOK, vars, clientVars, gateVars, processVars
<1>14. CASE StreamBreaks \/ StreamJunk \/ StreamEOF \/ DrainFails
  BY <1>2, <1>14 DEF StreamBreaks, StreamJunk, StreamEOF, DrainFails
<1>15. ASSUME NEW c \in Calls, DispatchFails(c) PROVE CancelsOK'
  BY <1>2, <1>15 DEF DispatchFails
<1> QED
  BY <1>1, <1>3, <1>4, <1>5, <1>6, <1>7, <1>8, <1>9, <1>10, <1>11, <1>12, <1>13, <1>14, <1>15
  DEF Next, GateReads, DriverReads, SayEnd

\* A call that runs aborted is one whose client has left, and a cancel that has been
\* read before its call started is not lost: PROTOCOL.md leaves it to the clients
\* that no callId is used twice.
THEOREM CancelsHitTheirCall == UniqueIds => (Spec => []CancelsHit)
<1> SUFFICES ASSUME UniqueIds PROVE Spec => []CancelsHit
  OBVIOUS
<1>1. Spec => [](SInv /\ CancelsOK)
  <2>1. Init => SInv /\ CancelsOK
    BY SInvInit, CancelsInit
  <2>2. SInv /\ CancelsOK /\ [Next]_vars => SInv' /\ CancelsOK'
    BY SInvStep, CancelsStep
  <2> QED
    BY <2>1, <2>2, PTL DEF Spec
<1>2. SInv /\ CancelsOK => CancelsHit
  BY DEF SInv, ShapeOK, CancelsOK, CancelsHit, InFlight
<1> QED
  BY <1>1, <1>2, PTL

-----------------------------------------------------------------------------
(* What the clients see implements the promise of CallStream.              *)

\* At the start no body has read a line.
LEMMA OutputInit == Init => OutputOK
  BY DEF Init, OutputOK

\* A line is of one kind, and a frame says its call and number.
LEMMA LineKinds ==
    /\ \A c, n : IsFrame(Frame(c, n)) \/ Frame(c, n) = Junk
    /\ \A c, n : ~IsTerminal(Frame(c, n)) /\ ~IsCut(Frame(c, n))
    /\ \A c : \A k \in Endings : ~IsFrame(Terminal(c, k)) /\ ~IsCut(Terminal(c, k))
    /\ \A c : ~IsFrame(Cut(c)) /\ ~IsTerminal(Cut(c))
    /\ ~IsFrame(Junk) /\ ~IsTerminal(Junk) /\ ~IsCut(Junk)
    /\ \A c, n : Frame(c, n) # Cut(c)
<1>1. ASSUME NEW c, NEW n
      PROVE  /\ IsFrame(Frame(c, n)) \/ Frame(c, n) = Junk
             /\ ~IsTerminal(Frame(c, n)) /\ ~IsCut(Frame(c, n)) /\ Frame(c, n) # Cut(c)
  BY DEF IsFrame, IsTerminal, IsCut, Frame, Cut, Endings
<1>2. ASSUME NEW c, NEW k \in Endings PROVE ~IsFrame(Terminal(c, k)) /\ ~IsCut(Terminal(c, k))
  BY DEF IsFrame, IsCut, Terminal, Endings
<1>3. ASSUME NEW c PROVE ~IsFrame(Cut(c)) /\ ~IsTerminal(Cut(c))
  BY DEF IsFrame, IsTerminal, Cut, Endings
<1>4. ~IsFrame(Junk) /\ ~IsTerminal(Junk) /\ ~IsCut(Junk)
  BY DEF IsFrame, IsTerminal, IsCut
<1> QED
  BY <1>1, <1>2, <1>3, <1>4

\* The abstract lines are the concrete ones.
LEMMA SameLines ==
    /\ \A c, n : Abstract!Frame(c, n) = Frame(c, n)
    /\ \A c, k : Abstract!Terminal(c, k) = Terminal(c, k)
    /\ \A c : Abstract!Cut(c) = Cut(c)
    /\ Abstract!Endings = Endings
  BY DEF Abstract!Frame, Abstract!Terminal, Abstract!Cut, Abstract!Endings, Frame, Terminal, Cut, Endings

\* What the first line of the pipe tells about the call.
LEMMA HeadLine ==
    ASSUME SInv, OutputOK, phase = "stream", stdout # <<>>
    PROVE  /\ owner \in Calls /\ client[owner] = "open" /\ ~Abstract!IsTorn(owner)
           /\ Len(seen[owner]) \in Nat
           /\ IsFrame(Head(stdout)) => /\ Head(stdout) = Frame(owner, Len(seen[owner]) + 1)
                                       /\ Len(seen[owner]) < said[owner]
           /\ IsTerminal(Head(stdout)) => /\ Head(stdout) = Terminal(owner, ended[owner])
                                          /\ ended[owner] \in {"done", "error"}
                                          /\ said[owner] = Len(seen[owner]) /\ Len(stdout) = 1
           /\ IsCut(Head(stdout)) => /\ Head(stdout) = Cut(owner) /\ ended[owner] = "none"
                                     /\ said[owner] = Len(seen[owner]) /\ said[owner] < MaxFrames
                                     /\ ~up /\ Len(stdout) = 1
<1>1. /\ owner \in Calls /\ client[owner] = "open" /\ ~Abstract!IsTorn(owner)
      /\ Len(seen[owner]) \in Nat /\ stdout \in Seq(Outputs) /\ said[owner] \in Nat
  BY GateSessionAssumption DEF SInv, TypeOK, ShapeOK, OwnerOK, OutputOK
<1>2. Head(stdout) = stdout[1] /\ 1 \in DOMAIN stdout
  BY <1>1, TailElements
<1>3. FrameAt(1) \/ TerminalAt(1) \/ RestAt(1)
  BY <1>2 DEF OutputOK
<1>4. CASE FrameAt(1)
  BY <1>1, <1>2, <1>4, LineKinds DEF FrameAt
<1>5. CASE TerminalAt(1)
  <2>1. /\ stdout[1] = Terminal(owner, ended[owner]) /\ ended[owner] \in Endings
        /\ said[owner] = Len(seen[owner]) /\ Len(stdout) = 1 /\ ended[owner] \in {"done", "error"}
    BY <1>1, <1>5 DEF TerminalAt, Endings
  <2> QED
    BY <1>1, <1>2, <2>1, LineKinds
<1>6. CASE RestAt(1)
  <2>1. CASE stdout[1] = Junk
    BY <1>1, <1>2, <2>1, LineKinds
  <2>2. CASE stdout[1] # Junk
    <3>1. /\ stdout[1] = Cut(owner) /\ ended[owner] = "none" /\ said[owner] < MaxFrames
          /\ said[owner] = Len(seen[owner]) /\ ~up /\ Len(stdout) = 1
      BY <1>1, <1>6, <2>2 DEF RestAt
    <3> QED
      BY <1>1, <1>2, <3>1, LineKinds
  <2> QED
    BY <2>1, <2>2
<1> QED
  BY <1>3, <1>4, <1>5, <1>6

\* What the process may write, and what is in the pipe before.
LEMMA RunningLines ==
    ASSUME SInv, OutputOK, InFlight, phase = "stream"
    PROVE  /\ cur.call = owner /\ owner \in Calls /\ Running /\ ~Abstract!IsTorn(owner)
           /\ \A i \in DOMAIN stdout : FrameAt(i)
           /\ said[owner] = Len(seen[owner]) + Len(stdout)
           /\ Len(seen[owner]) \in Nat /\ Len(stdout) \in Nat /\ said[owner] \in Nat
           /\ stdout \in Seq(Outputs)
<1>1. /\ cur.call = owner /\ owner \in Calls /\ Running /\ up
  <2>1. cur.call # NoCall /\ Running /\ up
    BY DEF InFlight, Running, SInv, ShapeOK
  <2>2. cur.call = owner
    BY <2>1 DEF SInv, WorkOK
  <2>3. owner \in Calls
    BY DEF SInv, TypeOK, ShapeOK
  <2> QED
    BY <2>1, <2>2, <2>3
<1>2. /\ Len(seen[owner]) \in Nat /\ Len(stdout) \in Nat /\ said[owner] \in Nat
      /\ stdout \in Seq(Outputs)
  BY <1>1, GateSessionAssumption DEF SInv, TypeOK
<1>3. \A i \in DOMAIN stdout : FrameAt(i)
  BY <1>1 DEF OutputOK, TerminalAt, RestAt, Idle
<1> QED
  BY <1>1, <1>2, <1>3 DEF OutputOK

\* One more line in the pipe: the lines before it are where they were.
LEMMA AppendedLine ==
    ASSUME SInv, OutputOK, InFlight, phase = "stream", NEW line \in Outputs,
           stdout' = Append(stdout, line), UNCHANGED <<seen, owner>>,
           said'[owner] >= said[owner], said'[owner] \in Nat
    PROVE  /\ Len(stdout') = Len(stdout) + 1
           /\ \A i \in DOMAIN stdout' : \/ FrameAt(i)'
                                        \/ i = Len(stdout') /\ stdout'[i] = line
<1>1. /\ Len(stdout') = Len(stdout) + 1
      /\ \A i \in DOMAIN stdout' : \/ i \in DOMAIN stdout /\ stdout'[i] = stdout[i]
                                   \/ i = Len(stdout') /\ stdout'[i] = line
  BY RunningLines, AppendElements
<1>2. ASSUME NEW i \in DOMAIN stdout, stdout'[i] = stdout[i] PROVE FrameAt(i)'
  <2>1. FrameAt(i) /\ i \in Nat
    BY RunningLines
  <2>2. Len(seen[owner]) + i <= said[owner] => Len(seen[owner]) + i <= said'[owner]
    BY <2>1, RunningLines
  <2> QED
    BY <1>2, <2>1, <2>2 DEF FrameAt
<1> QED
  BY <1>1, <1>2

\* Every step keeps the frames of a call whole and in order.
LEMMA OutputStep ==
    ASSUME UniqueIds PROVE SInv /\ CancelsOK /\ OutputOK /\ [Next]_vars => OutputOK'
<1> SUFFICES ASSUME SInv, CancelsOK, OutputOK, [Next]_vars, phase' = "stream" PROVE OutputOK'
  BY DEF OutputOK
<1>0. /\ stdin \in Seq(Inputs) /\ stdout \in Seq(Outputs) /\ queue \in Seq(Calls)
      /\ seen \in [Calls -> Seq(Lines)]
      /\ said \in [Calls -> 0..MaxFrames] /\ ended \in [Calls -> Endings \cup {"none"}]
      /\ cur \in Currents /\ cur.call \in Calls \cup {NoCall}
      /\ owner \in Calls \cup {NoCall}
      /\ phase \in {"stream", "drain"} => owner \in Calls
  BY CurrentTypes DEF SInv, TypeOK, ShapeOK
<1>1. ASSUME NEW c \in Calls, Dispatch(c) PROVE OutputOK'
  <2>1. stdout' = <<>> /\ ~Running'
    BY <1>1 DEF Dispatch, SInv, WorkOK, Running, processVars, saidVars
  <2> QED
    BY <2>1 DEF OutputOK
<1>2. CASE StreamFrame
  <2>1. /\ phase = "stream" /\ stdout # <<>> /\ IsFrame(Head(stdout))
        /\ UNCHANGED <<owner, stdin, queue, cur, said, ended, up>> /\ stdout' = Tail(stdout)
        /\ seen'[owner] = Append(seen[owner], Head(stdout))
    BY <1>0, <1>2 DEF StreamFrame, processVars, saidVars
  <2>2. /\ Head(stdout) = Frame(owner, Len(seen[owner]) + 1) /\ owner \in Calls
        /\ ~Abstract!IsTorn(owner) /\ Len(seen[owner]) \in Nat /\ said[owner] \in Nat
    BY <1>0, <2>1, HeadLine, GateSessionAssumption
  <2>3. Len(seen'[owner]) = Len(seen[owner]) + 1
    BY <1>0, <2>1, <2>2
  <2>4. /\ Len(stdout') = Len(stdout) - 1 /\ Len(stdout) \in Nat
        /\ \A i \in DOMAIN stdout' : i \in Nat /\ i + 1 \in DOMAIN stdout /\ stdout'[i] = stdout[i + 1]
    BY <1>0, <2>1, TailElements
  <2>5. Idle' = Idle /\ Running' = Running
    BY <2>1 DEF Idle, Running, Sent
  <2>6. ASSUME NEW i \in DOMAIN stdout'
        PROVE  (FrameAt(i) \/ TerminalAt(i) \/ RestAt(i))'
    <3>1. /\ i \in Nat /\ i + 1 \in DOMAIN stdout /\ stdout'[i] = stdout[i + 1]
          /\ Len(seen[owner]) + (i + 1) = Len(seen'[owner]) + i
          /\ i + 1 = Len(stdout) => i = Len(stdout')
      BY <2>2, <2>3, <2>4
    <3>2. Len(seen[owner]) + (i + 1) - 1 = Len(seen'[owner]) + i - 1
      BY <2>2, <2>3, <3>1
    <3>3. FrameAt(i + 1) \/ TerminalAt(i + 1) \/ RestAt(i + 1)
      BY <2>1, <3>1 DEF OutputOK
    <3>4. CASE FrameAt(i + 1)
      BY <2>1, <3>1, <3>4 DEF FrameAt
    <3>5. CASE TerminalAt(i + 1)
      BY <2>1, <2>5, <3>1, <3>2, <3>5 DEF TerminalAt
    <3>6. CASE RestAt(i + 1)
      BY <2>1, <3>1, <3>2, <3>6 DEF RestAt
    <3> QED
      BY <3>3, <3>4, <3>5, <3>6
  <2>7. (up /\ Running)' => said'[owner'] = Len(seen'[owner']) + Len(stdout')
    BY <2>1, <2>2, <2>3, <2>4, <2>5 DEF OutputOK
  <2>8. ~Abstract!IsTorn(owner)'
    <3>1. \A i \in DOMAIN seen'[owner] : \/ i \in DOMAIN seen[owner] /\ seen'[owner][i] = seen[owner][i]
                                         \/ seen'[owner][i] = Head(stdout)
      BY <1>0, <2>1, <2>2
    <3> QED
      BY <2>1, <2>2, <3>1, LineKinds, SameLines DEF Abstract!IsTorn
  <2> QED
    BY <2>1, <2>6, <2>7, <2>8 DEF OutputOK
<1>3. CASE SayFrame
  <2>1. /\ InFlight /\ phase = "stream" /\ UNCHANGED <<owner, stdin, queue, seen, cur, ended, up, phase>>
        /\ said' = [said EXCEPT ![cur.call] = @ + 1] /\ said[cur.call] < MaxFrames
        /\ stdout' = Append(stdout, Frame(cur.call, said[cur.call] + 1))
    BY <1>3 DEF SayFrame, gateVars, clientVars
  <2>2. /\ cur.call = owner /\ owner \in Calls /\ Running /\ ~Abstract!IsTorn(owner)
        /\ said[owner] = Len(seen[owner]) + Len(stdout)
        /\ Len(seen[owner]) \in Nat /\ Len(stdout) \in Nat /\ said[owner] \in Nat
    BY <2>1, RunningLines
  <2>3. /\ said'[owner] = said[owner] + 1 /\ said[owner] + 1 \in 1..MaxFrames
    BY <1>0, <2>1, <2>2, GateSessionAssumption
  <2>4. Frame(owner, said[owner] + 1) \in Outputs
    BY <2>2, <2>3, LineTypes
  <2>5. /\ Len(stdout') = Len(stdout) + 1
        /\ \A i \in DOMAIN stdout' : \/ FrameAt(i)'
                                     \/ i = Len(stdout') /\ stdout'[i] = Frame(owner, said[owner] + 1)
    BY <2>1, <2>2, <2>3, <2>4, AppendedLine
  <2>6. /\ Len(seen'[owner]) + Len(stdout') = said'[owner]
        /\ said[owner] + 1 = Len(seen'[owner]) + Len(stdout')
    <3>1. seen' = seen
      BY <2>1
    <3>2. said'[owner] = said[owner] + 1 /\ Len(stdout') = Len(stdout) + 1
      BY <2>3, <2>5
    <3>3. /\ said[owner] = Len(seen[owner]) + Len(stdout)
          /\ Len(seen[owner]) \in Nat /\ Len(stdout) \in Nat /\ said[owner] \in Nat
      BY <2>2
    <3> QED
      <4>1. Len(seen'[owner]) = Len(seen[owner])
        BY <3>1, Zenon
      <4>2. PICK a, b : a = Len(seen[owner]) /\ b = Len(stdout)
        OBVIOUS
      <4>3. a \in Nat /\ b \in Nat /\ said[owner] = a + b /\ said'[owner] = said[owner] + 1
        BY <3>2, <3>3, <4>2
      <4>4. a + (b + 1) = said[owner] + 1
        BY <4>3
      <4> QED
        BY <3>2, <4>1, <4>2, <4>3, <4>4, Zenon
  <2>7. \A i \in DOMAIN stdout' : FrameAt(i)'
    <3> SUFFICES ASSUME NEW i \in DOMAIN stdout', i = Len(stdout'),
                        stdout'[i] = Frame(owner, said[owner] + 1)
                 PROVE  FrameAt(i)'
      BY <2>5
    <3>1. Len(seen'[owner]) + i = said'[owner] /\ Len(seen'[owner]) + i <= said'[owner]
      BY <2>2, <2>3, <2>6
    <3>2. stdout'[i] = Frame(owner, Len(seen'[owner]) + i)
      BY <2>6
    <3> QED
      BY <2>1, <3>1, <3>2 DEF FrameAt
  <2>8. ~Abstract!IsTorn(owner)'
    BY <2>1, <2>2 DEF Abstract!IsTorn
  <2> QED
    BY <2>1, <2>6, <2>7, <2>8 DEF OutputOK
<1>4. ASSUME NEW ending \in Endings \ {"lost"}, SayTerminal(ending) PROVE OutputOK'
  <2>1. /\ InFlight /\ phase = "stream" /\ UNCHANGED <<owner, stdin, queue, seen, cur, said, up, phase>>
        /\ ended' = [ended EXCEPT ![cur.call] = ending]
        /\ stdout' = Append(stdout, Terminal(cur.call, ending))
        /\ ending = "cancelled" => cur.aborted
    BY <1>4 DEF SayTerminal, gateVars, clientVars
  <2>2. /\ cur.call = owner /\ owner \in Calls /\ Running /\ ~Abstract!IsTorn(owner)
        /\ said[owner] = Len(seen[owner]) + Len(stdout)
        /\ Len(seen[owner]) \in Nat /\ Len(stdout) \in Nat /\ said[owner] \in Nat
    BY <2>1, RunningLines
  <2>3. ended'[owner] = ending
    BY <1>0, <2>1, <2>2
  <2>4. ending \in {"done", "error"}
    BY <2>1, <2>2, GateSessionAssumption DEF Endings, CancelsOK, SInv, OwnerOK
  <2>5. ~Running' /\ Idle'
    <3>1. ~Running'
      BY <2>1, <2>2, <2>3, <2>4 DEF Running
    <3>2. ~Sent /\ queue = <<>>
      BY <2>1, <2>2 DEF SInv, WorkOK
    <3> QED
      BY <2>1, <3>1, <3>2 DEF Idle, Sent
  <2>6. /\ Len(stdout') = Len(stdout) + 1
        /\ \A i \in DOMAIN stdout' : \/ FrameAt(i)'
                                     \/ i = Len(stdout') /\ stdout'[i] = Terminal(owner, ending)
    <3>1. Terminal(owner, ending) \in Outputs
      BY <2>2, <2>4, LineTypes DEF Endings
    <3>2. said'[owner] >= said[owner] /\ said'[owner] \in Nat
      BY <2>1, <2>2
    <3> QED
      BY <2>1, <2>2, <3>1, <3>2, AppendedLine
  <2>7. ASSUME NEW i \in DOMAIN stdout', i = Len(stdout'), stdout'[i] = Terminal(owner, ending)
        PROVE  TerminalAt(i)'
    <3>1. said'[owner] = Len(seen'[owner]) + i - 1
      BY <2>1, <2>2, <2>6, <2>7
    <3> QED
      BY <2>1, <2>3, <2>4, <2>5, <2>7, <3>1 DEF TerminalAt
  <2>8. ~Abstract!IsTorn(owner)'
    BY <2>1, <2>2 DEF Abstract!IsTorn
  <2> QED
    BY <2>1, <2>5, <2>6, <2>7, <2>8 DEF OutputOK
<1>5. CASE Dequeue
  <2>1. stdout' = <<>> /\ seen'[owner'] = <<>> /\ said'[owner'] = 0
    BY <1>5 DEF Dequeue, SInv, WorkOK, OwnerOK, Untouched, clientVars, gateVars, saidVars
  <2> QED
    BY <2>1 DEF OutputOK, Abstract!IsTorn
<1>6. CASE ReadEnvelope
  <2>1. Sent /\ phase # "gone"
    BY <1>0, <1>6, TailElements DEF ReadEnvelope, Sent, SInv, OwnerOK
  <2>2. stdout' = <<>> /\ ~Running'
    BY <1>6, <2>1 DEF ReadEnvelope, SInv, WorkOK, Running, saidVars
  <2> QED
    BY <2>2 DEF OutputOK
<1>7. CASE ReadCancel
  <2>1. \A i \in DOMAIN stdin' : i + 1 \in DOMAIN stdin /\ stdin'[i] = stdin[i + 1]
    BY <1>0, <1>7, TailElements DEF ReadCancel
  <2>2. UNCHANGED <<queue, stdout, seen, owner, phase, up, said, ended>> /\ Running' = Running
    BY <1>0, <1>7 DEF ReadCancel, Running, Currents, clientVars, gateVars, saidVars
  <2>3. Idle => Idle'
    BY <2>1, <2>2 DEF Idle, Sent
  <2> QED
    BY <2>2, <2>3 DEF OutputOK, FrameAt, TerminalAt, RestAt, Abstract!IsTorn
<1>8. CASE EndCall
  <2>1. ~Running' /\ (Idle => Idle') /\ UNCHANGED <<stdout, seen, owner, phase, up, said, ended>>
    BY <1>8 DEF EndCall, Running, Idle, Sent, NoCurrent, clientVars, gateVars, saidVars
  <2> QED
    BY <2>1 DEF OutputOK, FrameAt, TerminalAt, RestAt, Abstract!IsTorn
<1>9. CASE ReadPart \/ UNCHANGED vars
  <2>1. UNCHANGED <<stdin, queue, cur, stdout, seen, owner, phase, up, said, ended>>
    BY <1>9 DEF ReadPart, vars, clientVars, gateVars, processVars, saidVars
  <2>2. Running' = Running /\ Idle' = Idle
    BY <2>1 DEF Running, Idle, Sent
  <2> QED
    BY <2>1, <2>2 DEF OutputOK, FrameAt, TerminalAt, RestAt, Abstract!IsTorn
<1>10. CASE SessionDies
  <2>1. ~up' /\ UNCHANGED <<stdin, queue, cur, seen, owner, phase, said, ended>>
    BY <1>10 DEF SessionDies, clientVars, gateVars, saidVars
  <2>2. CASE UNCHANGED stdout
    <3>1. Idle' = Idle
      BY <2>1, <2>2 DEF Idle, Running, Sent
    <3>2. up
      BY <1>10 DEF SessionDies
    <3>3. ASSUME NEW i \in DOMAIN stdout PROVE (FrameAt(i) \/ TerminalAt(i))'
      BY <2>1, <2>2, <3>1, <3>2 DEF OutputOK, FrameAt, TerminalAt, RestAt
    <3> QED
      BY <2>1, <2>2, <3>3 DEF OutputOK, Abstract!IsTorn
  <2>3. ASSUME NEW line \in {Junk, Cut(cur.call)}, InFlight, stdout' = Append(stdout, line),
               line # Junk => said[cur.call] < MaxFrames
        PROVE  OutputOK'
    <3>1. /\ cur.call = owner /\ owner \in Calls /\ Running /\ ~Abstract!IsTorn(owner)
          /\ said[owner] = Len(seen[owner]) + Len(stdout) /\ phase = "stream"
          /\ Len(seen[owner]) \in Nat /\ Len(stdout) \in Nat /\ said[owner] \in Nat
      BY <2>1, <2>3, RunningLines
    <3>2. line \in Outputs
      BY <2>3, <3>1, LineTypes
    <3>3. /\ Len(stdout') = Len(stdout) + 1
          /\ \A i \in DOMAIN stdout' : \/ FrameAt(i)'
                                       \/ i = Len(stdout') /\ stdout'[i] = line
      <4>1. said'[owner] >= said[owner] /\ said'[owner] \in Nat
        BY <2>1, <3>1
      <4> QED
        BY <2>1, <2>3, <3>1, <3>2, <4>1, AppendedLine
    <3>4. ASSUME NEW i \in DOMAIN stdout', i = Len(stdout'), stdout'[i] = line
          PROVE  RestAt(i)'
      <4>1. said'[owner] = Len(seen'[owner]) + i - 1
        BY <2>1, <3>1, <3>3, <3>4
      <4>2. ended[owner] = "none"
        BY <3>1 DEF Running
      <4> QED
        BY <2>1, <2>3, <3>1, <3>4, <4>1, <4>2 DEF RestAt
    <3>5. ~Abstract!IsTorn(owner)'
      BY <2>1, <3>1 DEF Abstract!IsTorn
    <3> QED
      BY <2>1, <3>3, <3>4, <3>5 DEF OutputOK
  <2> QED
    BY <1>10, <2>2, <2>3 DEF SessionDies
<1>11. CASE StreamCut
  <2>1. ~up /\ stdout' = Tail(stdout) /\ Len(stdout) = 1 /\ UNCHANGED up /\ stdout # <<>>
    BY <1>11, HeadLine DEF StreamCut, processVars
  <2>2. stdout' = <<>>
    BY <1>0, <2>1, TailElements
  <2> QED
    BY <2>1, <2>2 DEF OutputOK
<1>12. ASSUME NEW c \in Calls, DispatchFails(c) PROVE FALSE
  BY <1>12 DEF DispatchFails, Kill
<1>13. ~(Kill \/ Release \/ DrainFrame \/ DropBody \/ Respawn)
  BY DEF Kill, Release, DrainFrame, DropBody, Respawn
<1> QED
  BY <1>1, <1>2, <1>3, <1>4, <1>5, <1>6, <1>7, <1>8, <1>9, <1>10, <1>11, <1>12, <1>13
  DEF Next, GateReads, DriverReads, SayEnd, StreamTerminal, StreamBreaks, StreamJunk, StreamEOF,
      DrainTerminal, DrainFails

\* Each step shows its client a step of its call, or nothing.
LEMMA StreamStep ==
    SInv /\ CancelsOK /\ OutputOK /\ [Next]_vars => [Abstract!Next]_<<client, seen, said, ended>>
<1> SUFFICES ASSUME SInv, CancelsOK, OutputOK, [Next]_vars
             PROVE  Abstract!Next \/ UNCHANGED <<client, seen, said, ended>>
  OBVIOUS
<1> USE DEF saidVars, processVars
<1>0. /\ client \in [Calls -> {"new", "open", "closed", "left"}]
      /\ seen \in [Calls -> Seq(Lines)] /\ stdout \in Seq(Outputs)
      /\ phase = "stream" => owner \in Calls /\ client[owner] = "open"
  BY DEF SInv, TypeOK, ShapeOK, OwnerOK
<1>1. ASSUME NEW c \in Calls, Dispatch(c) PROVE Abstract!Next
  BY <1>1 DEF Dispatch, Abstract!Next, Abstract!Open
<1>2. ASSUME NEW c \in Calls, DispatchFails(c) PROVE Abstract!Next
  <2>1. seen[c] = <<>> /\ client[c] = "new"
    BY <1>2 DEF DispatchFails, SInv, OwnerOK, Untouched
  <2>2. seen' = [seen EXCEPT ![c] = <<Terminal(c, "lost")>>]
    <3>1. seen' = [seen EXCEPT ![c] = Append(seen[c], Terminal(c, "lost"))]
      BY <1>2 DEF DispatchFails, Close
    <3>2. Append(<<>>, Terminal(c, "lost")) = <<Terminal(c, "lost")>>
      OBVIOUS
    <3> QED
      BY <2>1, <3>1, <3>2
  <2> QED
    BY <1>2, <2>1, <2>2, SameLines DEF DispatchFails, Close, Abstract!Next, Abstract!Refuse
<1>3. CASE StreamFrame
  <2>1. /\ owner \in Calls /\ client[owner] = "open" /\ ~Abstract!IsTorn(owner)
        /\ Head(stdout) = Frame(owner, Len(seen[owner]) + 1) /\ Len(seen[owner]) < said[owner]
    BY <1>3, HeadLine DEF StreamFrame
  <2>2. /\ seen' = [seen EXCEPT ![owner] = Append(@, Frame(owner, Len(@) + 1))]
        /\ UNCHANGED <<client, said, ended>>
    BY <1>3, <2>1 DEF StreamFrame
  <2> QED
    BY <2>1, <2>2, SameLines DEF Abstract!Next, Abstract!Deliver
<1>4. CASE StreamTerminal
  <2>1. /\ owner \in Calls /\ client[owner] = "open" /\ ~Abstract!IsTorn(owner)
        /\ Head(stdout) = Terminal(owner, ended[owner]) /\ Len(seen[owner]) = said[owner]
        /\ ended[owner] # "none"
    BY <1>4, HeadLine DEF StreamTerminal
  <2>2. /\ client' = [client EXCEPT ![owner] = "closed"]
        /\ seen' = [seen EXCEPT ![owner] = Append(@, Terminal(owner, ended[owner]))]
        /\ UNCHANGED <<said, ended>>
    BY <1>4, <2>1 DEF StreamTerminal
  <2> QED
    BY <2>1, <2>2, SameLines DEF Abstract!Next, Abstract!Finish
<1>5. CASE StreamBreaks \/ StreamJunk \/ StreamEOF
  <2>1. owner \in Calls /\ client[owner] = "open" /\ Close(owner, "lost") /\ UNCHANGED <<said, ended>>
    BY <1>0, <1>5 DEF StreamBreaks, StreamJunk, StreamEOF
  <2>2. Abstract!Lose(owner)
    BY <2>1, SameLines DEF Close, Abstract!Lose
  <2> QED
    BY <2>1, <2>2 DEF Abstract!Next
<1>6. CASE DropBody
  BY <1>0, <1>6 DEF DropBody, Abstract!Next, Abstract!Leave
<1>7. CASE StreamCut
  <2>1. /\ owner \in Calls /\ client[owner] = "open" /\ ~Abstract!IsTorn(owner)
        /\ Head(stdout) = Cut(owner) /\ Len(seen[owner]) = said[owner]
        /\ ended[owner] = "none" /\ said[owner] < MaxFrames
    BY <1>7, HeadLine DEF StreamCut
  <2>2. seen' = [seen EXCEPT ![owner] = Append(@, Cut(owner))] /\ UNCHANGED <<client, said, ended>>
    BY <1>7, <2>1 DEF StreamCut
  <2> QED
    BY <2>1, <2>2, SameLines DEF Abstract!Next, Abstract!Tear
<1>8. ASSUME SayFrame \/ SayEnd
      PROVE  /\ cur.call \in Calls /\ client[cur.call] # "new" /\ ended[cur.call] = "none"
             /\ UNCHANGED <<client, seen>>
  <2>1. cur.call \in Calls \cup {NoCall} /\ cur.call # NoCall
    BY <1>8, CurrentTypes DEF SayFrame, SayEnd, SayTerminal, InFlight, SInv, TypeOK, ShapeOK
  <2> QED
    BY <1>8, <2>1 DEF SayFrame, SayEnd, SayTerminal, InFlight, SInv, WorkOK, clientVars
<1>9. CASE SayFrame
  BY <1>8, <1>9 DEF SayFrame, Abstract!Next, Abstract!Say
<1>10. ASSUME NEW ending \in Endings \ {"lost"}, SayTerminal(ending) PROVE Abstract!Next
  <2>1. cur.call \in Calls /\ client[cur.call] # "new" /\ ended[cur.call] = "none"
        /\ UNCHANGED <<client, seen>>
    BY <1>8, <1>10 DEF SayEnd
  <2>2. ending = "cancelled" => client[cur.call] = "left"
    BY <1>10, <2>1, GateSessionAssumption DEF SayTerminal, CancelsOK
  <2>3. Abstract!End(cur.call, ending)
    BY <1>10, <2>1, <2>2 DEF SayTerminal, Abstract!End
  <2> QED
    BY <2>1, <2>3, SameLines DEF Abstract!Next
<1> QED
  BY <1>1, <1>2, <1>3, <1>4, <1>5, <1>6, <1>7, <1>9, <1>10
  DEF Next, vars, clientVars, GateReads, DriverReads, SayEnd, ReadPart, DrainFrame, DrainTerminal,
      DrainFails, Respawn, ReadEnvelope, ReadCancel, Dequeue, EndCall, SessionDies

\* Every client gets all the frames that its call's adapter yielded, in order and before
\* the terminal that the adapter yielded, or a part of them and the gate's error, whoever
\* used the session before it and however that call ended.
THEOREM StreamsCorrect == UniqueIds => (Spec => StreamsAsPromised)
<1> SUFFICES ASSUME UniqueIds PROVE Spec => StreamsAsPromised
  OBVIOUS
<1>1. Init => SInv /\ CancelsOK /\ OutputOK
  BY SInvInit, CancelsInit, OutputInit
<1>2. SInv /\ CancelsOK /\ OutputOK /\ [Next]_vars => SInv' /\ CancelsOK' /\ OutputOK'
  BY SInvStep, CancelsStep, OutputStep
<1>3. Init => Abstract!Init
  BY DEF Init, Abstract!Init
<1> QED
  BY <1>1, <1>2, <1>3, StreamStep, PTL DEF Spec, StreamsAsPromised, Abstract!Spec
=============================================================================
