--------------------------- MODULE HarnessBackend ---------------------------
(***************************************************************************)
(* One session of DeepSeekHarnessBackend (agent-runtime/src/backends/      *)
(* deepseek-harness.ts) behind a transport that keeps a numbered log of    *)
(* events and hands them over late, again or out of order, over streams    *)
(* that close and open again; it may break its own contract. A result is a *)
(* value; the call key of a tool call is the call itself.                  *)
(***************************************************************************)
EXTENDS Naturals, Sequences, FiniteSets

CONSTANTS
    Calls, Turns, TurnOf,
    Results,        \* what KerniQ can answer and the transport can claim
    MaxLog,         \* bound on the events of the transport
    MaxBreaches,    \* and on those that break its contract
    MaxUpsets       \* bound on failed requests and listeners that throw

VARIABLES
    log,            \* the transport's events, the n-th of them with sequence n
    received,       \* [call, result] the transport took
    breaches,       \* how often the transport broke its contract
    lastSequence, streamOpen,
    pending,        \* pendingRequests
    submitted,      \* submittedResults: None or a result, for each call
    terminalCalls, terminalTurns, cancellationRequests,
    sending,        \* the results submitToolResult waits for the transport to take
    stopped,        \* shutdown was called
    heard,          \* the sequences the runtime's listener took, in order
    upsets, lostReplies

session == <<lastSequence, streamOpen, pending, submitted, terminalCalls, terminalTurns,
             cancellationRequests>>
transport == <<log, received, breaches>>
vars == <<transport, session, sending, stopped, heard, upsets, lostReplies>>

None == "none"
Event(type, t) == [type |-> type, turn |-> t, call |-> None, result |-> None]
CallEvent(type, c, r) == [type |-> type, turn |-> TurnOf[c], call |-> c, result |-> r]

Events ==
    {Event(type, t) : type \in {"model.output", "turn.completed", "turn.cancelled", "runtime.error"},
                      t \in Turns}
    \cup {CallEvent("tool_call.requested", c, None) : c \in Calls}
    \cup {CallEvent("tool_call.resolved", c, r) : c \in Calls, r \in Results}

TypeOK ==
    /\ log \in Seq(Events) /\ Len(log) <= MaxLog /\ lastSequence \in 0 .. Len(log)
    /\ received \subseteq [call : Calls, result : Results]
    /\ streamOpen \in BOOLEAN /\ stopped \in BOOLEAN /\ lostReplies \in BOOLEAN
    /\ pending \subseteq Calls /\ terminalCalls \subseteq Calls
    /\ terminalTurns \subseteq Turns /\ cancellationRequests \subseteq Turns
    /\ submitted \in [Calls -> Results \cup {None}]
    /\ sending \subseteq [call : Calls, result : Results]
    /\ breaches \in 0 .. MaxBreaches /\ upsets \in 0 .. MaxUpsets
    /\ heard \in Seq(1 .. MaxLog)

-----------------------------------------------------------------------------
(* The transport. *)

InLog(e) == \E i \in DOMAIN log : log[i] = e
EndedInLog(t) == InLog(Event("turn.completed", t)) \/ InLog(Event("turn.cancelled", t))
OpenInLog(c) ==
    /\ InLog(CallEvent("tool_call.requested", c, None))
    /\ \A r \in Results : ~InLog(CallEvent("tool_call.resolved", c, r))

\* What a governed connector may emit next.
Conforming(e) ==
    CASE e.type = "model.output"        -> ~EndedInLog(e.turn)
      [] e.type = "runtime.error"       -> TRUE
      [] e.type = "tool_call.requested" -> ~InLog(e) /\ ~EndedInLog(e.turn)
      [] e.type = "tool_call.resolved"  ->
           OpenInLog(e.call) /\ ~EndedInLog(e.turn) /\ [call |-> e.call, result |-> e.result] \in received
      [] e.type = "turn.completed"      ->
           ~EndedInLog(e.turn) /\ \A c \in Calls : TurnOf[c] = e.turn => ~OpenInLog(c)
      [] e.type = "turn.cancelled"      -> ~EndedInLog(e.turn)

Emit(e) ==
    /\ Len(log) < MaxLog
    /\ log' = Append(log, e)
    /\ breaches' = breaches + (IF Conforming(e) THEN 0 ELSE 1) /\ breaches' <= MaxBreaches
    /\ UNCHANGED <<received, session, sending, stopped, heard, upsets, lostReplies>>

-----------------------------------------------------------------------------
(* The events of the stream. *)

\* A stream from a cursor that skips nothing; it may fail to open, which leaves it
\* closed. Every cursor up to the last sequence is taken alike: what the transport
\* sends again is below it.
OpenStream ==
    /\ ~stopped /\ ~streamOpen
    /\ streamOpen' = TRUE
    /\ UNCHANGED <<transport, lastSequence, pending, submitted, terminalCalls, terminalTurns,
                   cancellationRequests, sending, stopped, heard, upsets, lostReplies>>

CloseStream ==
    /\ streamOpen
    /\ streamOpen' = FALSE
    /\ UNCHANGED <<transport, lastSequence, pending, submitted, terminalCalls, terminalTurns,
                   cancellationRequests, sending, stopped, heard, upsets, lostReplies>>

\* Mutant: an event already behind the cursor is only recognised at the cursor itself.
BehindTheLastOnly(n) == n # lastSequence

\* translateEvent: events behind the last sequence are dropped, one that leaves a gap
\* is refused.
IsNext(n) == n = lastSequence + 1

\* requireActiveTurn.
Active(t) == t \notin terminalTurns

\* receiveToolRequest, resolveToolCall, completeTurn, cancelPendingTurn: what is
\* refused by an error, which leaves the event where it was.
Accepts(e) ==
    CASE e.type = "model.output"        -> Active(e.turn)
      [] e.type = "runtime.error"       -> TRUE
      [] e.type = "tool_call.requested" ->
           Active(e.turn) /\ e.call \notin pending \cup terminalCalls /\ submitted[e.call] = None
      [] e.type = "tool_call.resolved"  -> e.call \in pending /\ submitted[e.call] = e.result
      [] e.type = "turn.completed"      ->
           Active(e.turn) /\ \A c \in pending : TurnOf[c] # e.turn
      [] e.type = "turn.cancelled"      -> Active(e.turn)

\* Mutant: a cancelled turn leaves its calls pending.
CallsOutliveTurns(e) == IF e.type = "tool_call.resolved" THEN {e.call} ELSE {}

\* The calls an event settles.
Settled(e) ==
    CASE e.type = "tool_call.resolved" -> {e.call}
      [] e.type = "turn.cancelled"     -> {c \in pending : TurnOf[c] = e.turn}
      [] OTHER                         -> {}

\* mapOrderedEvent.
Translate(e) ==
    /\ Accepts(e)
    /\ terminalCalls' = terminalCalls \cup Settled(e)
    /\ pending' = (pending \ Settled(e))
                    \cup (IF e.type = "tool_call.requested" THEN {e.call} ELSE {})
    /\ submitted' = [c \in Calls |-> IF c \in Settled(e) THEN None ELSE submitted[c]]
    /\ IF e.type \in {"turn.completed", "turn.cancelled"}
       THEN /\ terminalTurns' = terminalTurns \cup {e.turn}
            /\ cancellationRequests' = cancellationRequests \ {e.turn}
       ELSE UNCHANGED <<terminalTurns, cancellationRequests>>

\* The transport hands over the n-th event of its log, whichever that is. A listener
\* that throws has had the event.
Deliver(n, throws) ==
    /\ streamOpen /\ IsNext(n)
    /\ Translate(log[n])
    /\ lastSequence' = n
    /\ heard' = IF throws THEN heard ELSE Append(heard, n)
    /\ upsets' = upsets + (IF throws THEN 1 ELSE 0) /\ upsets' <= MaxUpsets
    /\ UNCHANGED <<transport, streamOpen, sending, stopped, lostReplies>>

-----------------------------------------------------------------------------
(* The runtime's calls. *)

\* The checks of submitToolResult.
MayAnswer(c) ==
    /\ c \in pending /\ Active(TurnOf[c]) /\ c \notin terminalCalls
    /\ submitted[c] = None

SubmitToolResult(c, r) ==
    /\ ~stopped /\ MayAnswer(c)
    /\ submitted' = [submitted EXCEPT ![c] = r]
    /\ sending' = sending \cup {[call |-> c, result |-> r]}
    /\ UNCHANGED <<transport, lastSequence, streamOpen, pending, terminalCalls, terminalTurns,
                   cancellationRequests, stopped, heard, upsets, lostReplies>>

\* The transport takes the result and says so, or its reply is lost.
ResultTaken(s, reply) ==
    /\ s \in sending
    /\ sending' = sending \ {s}
    /\ received' = received \cup {s}
    /\ submitted' = IF reply THEN submitted ELSE [submitted EXCEPT ![s.call] = None]
    /\ lostReplies' = (lostReplies \/ ~reply)
    /\ upsets' = upsets + (IF reply THEN 0 ELSE 1) /\ upsets' <= MaxUpsets
    /\ UNCHANGED <<log, breaches, lastSequence, streamOpen, pending, terminalCalls,
                   terminalTurns, cancellationRequests, stopped, heard>>

ResultRefused(s) ==
    /\ s \in sending /\ upsets < MaxUpsets
    /\ sending' = sending \ {s}
    /\ submitted' = [submitted EXCEPT ![s.call] = None]
    /\ upsets' = upsets + 1
    /\ UNCHANGED <<transport, lastSequence, streamOpen, pending, terminalCalls, terminalTurns,
                   cancellationRequests, stopped, heard, lostReplies>>

\* One request for each turn; one that fails is forgotten and may be made again.
CancelTurn(t) ==
    /\ ~stopped /\ Active(t) /\ t \notin cancellationRequests
    /\ cancellationRequests' = cancellationRequests \cup {t}
    /\ UNCHANGED <<transport, lastSequence, streamOpen, pending, submitted, terminalCalls,
                   terminalTurns, sending, stopped, heard, upsets, lostReplies>>

CancelRefused(t) ==
    /\ t \in cancellationRequests /\ upsets < MaxUpsets
    /\ cancellationRequests' = cancellationRequests \ {t}
    /\ upsets' = upsets + 1
    /\ UNCHANGED <<transport, lastSequence, streamOpen, pending, submitted, terminalCalls,
                   terminalTurns, sending, stopped, heard, lostReplies>>

\* The sessions are forgotten once the transport has stopped; a stream that is still
\* open keeps its session and goes on.
Shutdown ==
    /\ ~stopped /\ stopped' = TRUE
    /\ UNCHANGED <<transport, session, sending, heard, upsets, lostReplies>>

-----------------------------------------------------------------------------
Init ==
    /\ log = <<>> /\ received = {} /\ breaches = 0
    /\ lastSequence = 0 /\ streamOpen = FALSE /\ pending = {} /\ submitted = [c \in Calls |-> None]
    /\ terminalCalls = {} /\ terminalTurns = {} /\ cancellationRequests = {}
    /\ sending = {} /\ stopped = FALSE /\ heard = <<>> /\ upsets = 0 /\ lostReplies = FALSE

TransportStep ==
    \/ \E e \in Events : Emit(e)
    \/ \E s \in sending : ResultTaken(s, TRUE) \/ ResultTaken(s, FALSE) \/ ResultRefused(s)
    \/ \E t \in Turns : CancelRefused(t)

Next ==
    \/ TransportStep
    \/ OpenStream \/ CloseStream
    \/ \E n \in DOMAIN log : Deliver(n, FALSE) \/ Deliver(n, TRUE)
    \/ \E c \in Calls, r \in Results : SubmitToolResult(c, r)
    \/ \E t \in Turns : CancelTurn(t)
    \/ Shutdown

\* The runtime opens a stream whenever there is none, and the transport goes on
\* handing its log over.
Fairness == WF_vars(OpenStream) /\ SF_vars(\E n \in DOMAIN log : Deliver(n, FALSE) \/ Deliver(n, TRUE))

Spec == Init /\ [][Next]_vars /\ Fairness

-----------------------------------------------------------------------------
(* Properties. *)

\* However the transport sends its log, again, out of order or over several streams,
\* the runtime hears no event twice, none before an earlier one, and nothing but an
\* error of a turn whose end it heard.
HeardInOrder ==
    \A i \in DOMAIN heard : \A k \in i + 1 .. Len(heard) :
      /\ heard[i] < heard[k]
      /\ log[heard[i]].turn = log[heard[k]].turn
           /\ log[heard[i]].type \in {"turn.completed", "turn.cancelled"}
         => log[heard[k]].type = "runtime.error"

\* A backend whose calls are asked once, answered while pending, and closed with
\* their turn.
CallState ==
    [c \in Calls |-> IF c \in terminalCalls THEN "closed"
                     ELSE IF submitted[c] # None THEN "answered"
                     ELSE IF c \in pending THEN "asked" ELSE "none"]

Contract == INSTANCE BackendContract WITH call <- CallState, ended <- terminalTurns

KeepsContract == Contract!Spec

\* A transport that keeps its contract is heard to the end: nothing it sends, in any
\* order and whatever fails, makes the adapter refuse the rest for ever, unless the
\* reply to a result it had taken was lost.
Quiet == lastSequence = Len(log) \/ breaches > 0 \/ lostReplies \/ stopped
=============================================================================
