--------------------------- MODULE ProviderStream ---------------------------
(***************************************************************************)
(* One answer of a model provider, as BaseOpenAICompatibleProvider.stream  *)
(* (packages/provider-sdk/src/providers/base.ts) reads it: the body of the *)
(* response arrives in pieces that end anywhere, is cut into lines, and    *)
(* each line is an event whose deltas of tool calls are gathered by index  *)
(* until the calls are complete.  The server may send any lines.           *)
(***************************************************************************)
EXTENDS Naturals, Sequences, FiniteSets

CONSTANTS
    Indexes,        \* of the tool calls, 1 .. n
    MaxLines        \* bound on the lines of a body

VARIABLES
    body,           \* the lines the server sent, the last one perhaps without its end
    ends,           \* how many of them with their ends
    closed,         \* "no", "yes", "broken"
    read,           \* how many lines and ends of them were read
    buffer,         \* read, behind the last end of a line
    pending,        \* index -> the call that is gathered, or None
    out,            \* the chunks of the stream
    state           \* "reading", "returned"

vars == <<body, ends, closed, read, buffer, pending, out, state>>

None == [named |-> FALSE, arguments |-> <<>>, completed |-> FALSE]

Other(kind) == [kind |-> kind]

\* The events.  A delta of a call has an id, a name and the head of the arguments, or
\* their tail only; such an event may also finish the answer.
Lines ==
    [kind : {"text", "finish", "error", "done", "junk"}]
      \cup [kind : {"delta"}, index : Indexes, named : {TRUE}, part : {"head"}, finish : {FALSE}]
      \cup [kind : {"delta"}, index : Indexes, named : {FALSE}, part : {"tail"}, finish : BOOLEAN]

Chunk(kind) == [kind |-> kind]
CallChunk(kind, i, arguments) == [kind |-> kind, index |-> i, arguments |-> arguments]

TypeOK ==
    /\ body \in Seq(Lines) /\ ends \in 0 .. Len(body) /\ closed \in {"no", "yes", "broken"}
    /\ read \in [lines : 0 .. Len(body), ends : 0 .. ends] /\ state \in {"reading", "returned"}
    /\ \A i \in Indexes : pending[i].named \in BOOLEAN /\ pending[i].completed \in BOOLEAN

-----------------------------------------------------------------------------
(* The events. *)

\* tryParseJSON: no arguments at all count as an empty object.
IsJSON(arguments) == arguments \in {<<>>, <<"head", "tail">>}

Settled(call, i) ==
    IF call.named /\ IsJSON(call.arguments) THEN CallChunk("tool_call", i, call.arguments)
    ELSE CallChunk("tool_call_error", i, call.arguments)

InOrder(set) ==
    CHOOSE s \in [1 .. Cardinality(set) -> set] : \A i, k \in DOMAIN s : i < k => s[i] < s[k]

Gathered(acc) == {i \in Indexes : acc.pending[i] # None}

\* Mutant: a call that is complete is sent again.
Incomplete(acc) == InOrder(Gathered(acc))

\* The calls that are still to be completed, in the order of their indexes.
ToComplete(acc) == InOrder({i \in Gathered(acc) : ~acc.pending[i].completed})

CompletePendingCalls(acc) ==
    [pending |-> [i \in Indexes |->
                   [acc.pending[i] EXCEPT !.completed = acc.pending[i] # None]],
     out |-> acc.out \o [k \in DOMAIN ToComplete(acc) |->
                           Settled(acc.pending[ToComplete(acc)[k]], ToComplete(acc)[k])],
     state |-> acc.state]

Extended(call, e) ==
    [named |-> call.named \/ e.named, arguments |-> Append(call.arguments, e.part),
     completed |-> call.completed]

AddDelta(acc, e) ==
    [pending |-> [acc.pending EXCEPT ![e.index] = Extended(@, e)],
     out |-> Append(acc.out, CallChunk("tool_call_delta", e.index, <<e.part>>)),
     state |-> acc.state]

\* parseEvent, and the line that says the stream is done.
HandleLine(acc, e) ==
    IF acc.state = "returned" \/ e.kind = "junk" THEN acc
    ELSE CASE e.kind = "text" -> [acc EXCEPT !.out = Append(@, Chunk("text"))]
           [] e.kind = "error" -> [pending |-> [i \in Indexes |-> None],
                                   out |-> Append(acc.out, Chunk("error")), state |-> acc.state]
           [] e.kind = "finish" -> CompletePendingCalls(acc)
           [] e.kind = "done" ->
                [CompletePendingCalls(acc) EXCEPT !.state = "returned"]
           [] OTHER -> IF e.finish THEN CompletePendingCalls(AddDelta(acc, e))
                                   ELSE AddDelta(acc, e)

Handle(acc, lines) ==
    LET after[n \in 0 .. Len(lines)] == IF n = 0 THEN acc ELSE HandleLine(after[n - 1], lines[n])
    IN after[Len(lines)]

Now == [pending |-> pending, out |-> out, state |-> state]

Becomes(acc) == pending' = acc.pending /\ out' = acc.out /\ state' = acc.state

-----------------------------------------------------------------------------
(* The body. *)

\* Lines follow each other; the last one may lack its end.
Send(line) ==
    /\ closed = "no" /\ ends = Len(body) /\ Len(body) < MaxLines
    /\ body' = Append(body, line)
    /\ UNCHANGED <<ends, closed, read, buffer, pending, out, state>>

SendEnd ==
    /\ closed = "no" /\ ends < Len(body)
    /\ ends' = Len(body)
    /\ UNCHANGED <<body, closed, read, buffer, pending, out, state>>

Close(how) ==
    /\ closed = "no"
    /\ closed' = how
    /\ UNCHANGED <<body, ends, read, buffer, pending, out, state>>

Sent == [lines |-> Len(body), ends |-> ends]

\* One read of whatever has arrived since the last one: as many lines as it has ends
\* are handled, and what is behind the last end is kept.
Read ==
    /\ state = "reading" /\ read # Sent
    /\ LET text == buffer \o SubSeq(body, read.lines + 1, Len(body))
           whole == ends - read.ends
       IN /\ buffer' = SubSeq(text, whole + 1, Len(text))
          /\ Becomes(Handle(Now, SubSeq(text, 1, whole)))
    /\ read' = Sent
    /\ UNCHANGED <<body, ends, closed>>

\* The end of the body: the line that lacks its end counts, except for "[DONE]".
ReadEnd ==
    /\ state = "reading" /\ closed = "yes" /\ read = Sent
    /\ LET trailing == IF buffer = <<Other("done")>> THEN <<>> ELSE buffer
       IN Becomes([CompletePendingCalls(Handle(Now, trailing)) EXCEPT !.state = "returned"])
    /\ buffer' = <<>>
    /\ UNCHANGED <<body, ends, closed, read>>

\* A read rejects: the stream ends with an error and without the calls it gathered.
ReadFails ==
    /\ state = "reading" /\ closed = "broken"
    /\ out' = Append(out, Chunk("error"))
    /\ state' = "returned"
    /\ UNCHANGED <<body, ends, closed, read, buffer, pending>>

First == [pending |-> [i \in Indexes |-> None], out |-> <<>>, state |-> "reading"]

Init ==
    /\ body = <<>> /\ ends = 0 /\ closed = "no" /\ read = Sent /\ buffer = <<>>
    /\ pending = First.pending /\ out = <<>> /\ state = "reading"

Next ==
    \/ (\E line \in Lines : Send(line)) \/ SendEnd
    \/ \E how \in {"yes", "broken"} : Close(how)
    \/ Read \/ ReadEnd \/ ReadFails

Spec == Init /\ [][Next]_vars

-----------------------------------------------------------------------------
(* Properties. *)

IsFor(chunks, k, i, kinds) == chunks[k].kind \in kinds /\ chunks[k].index = i
Settling == {"tool_call", "tool_call_error"}

\* The last error before the k-th chunk, 0 if there is none.
Errors(chunks, k) == {j \in 1 .. k - 1 : chunks[j].kind = "error"}
LastError(chunks, k) ==
    IF Errors(chunks, k) = {} THEN 0
    ELSE CHOOSE j \in Errors(chunks, k) : \A l \in Errors(chunks, k) : l <= j

\* The parts of a call's arguments that were shown from one chunk to another.
Deltas(chunks, i, from, to) ==
    LET parts[k \in 0 .. to] ==
            IF k < from THEN <<>>
            ELSE IF IsFor(chunks, k, i, {"tool_call_delta"}) THEN parts[k - 1] \o chunks[k].arguments
            ELSE parts[k - 1]
    IN parts[to]

\* A tool call that a consumer gets has a name and whole arguments: every part it was
\* shown for that call since the last error, and the call comes once.
CallsAreWhole(chunks) ==
    \A k \in DOMAIN chunks : chunks[k].kind = "tool_call" =>
      LET i == chunks[k].index  from == LastError(chunks, k) + 1 IN
      /\ chunks[k].arguments = Deltas(chunks, i, from, k) /\ IsJSON(chunks[k].arguments)
      /\ \A j \in from .. k - 1 : ~IsFor(chunks, j, i, Settling)

\* When the stream is over, each call it showed a part of was settled, unless an error
\* came between.
CallsAreSettled(chunks) ==
    \A k \in DOMAIN chunks : chunks[k].kind = "tool_call_delta" =>
      \E j \in DOMAIN chunks :
        \/ j > k /\ chunks[j].kind = "error"
        \/ j > LastError(chunks, k) /\ IsFor(chunks, j, chunks[k].index, Settling)

\* However the body is cut, the chunks are those of the lines that were read to their
\* ends.
CutsDoNotShow == out = Handle(First, SubSeq(body, 1, read.ends)).out

StreamsAreFaithful ==
    /\ CallsAreWhole(out)
    /\ state = "returned" => CallsAreSettled(out)
    /\ state = "reading" => CutsDoNotShow
=============================================================================
