--------------------------- MODULE RuntimesProofs ---------------------------
(***************************************************************************)
(* Theorems about the runtimes and backends that go on by themselves, for  *)
(* any calls, plans, runs, scripts, callers, instances and bounds.         *)
(***************************************************************************)
EXTENDS Runtimes, Integers, FiniteSetTheorems, TLAPS

-----------------------------------------------------------------------------
(* HarnessBackend: the inductive invariant.                                *)

\* A pending call is of a turn that has not ended, and a result counts only for one.
PendingInv ==
    /\ \A c \in pending : TurnOf[c] \notin terminalTurns /\ c \notin terminalCalls
    /\ \A c \in HarnessCalls : submitted[c] # "none" => c \in pending

Ends == {"turn.completed", "turn.cancelled"}

\* What was heard is behind the cursor, and the end of a turn that was heard is known.
HeardInv ==
    /\ \A i \in 1 .. Len(heard) : heard[i] <= lastSequence
    /\ \A i \in 1 .. Len(heard) :
         log[heard[i]].type \in Ends => log[heard[i]].turn \in terminalTurns

HarnessInv == Harness!TypeOK /\ PendingInv /\ HeardInv /\ Harness!HeardInOrder

LEMMA Appended ==
  ASSUME NEW S, NEW s \in Seq(S), NEW e \in S
  PROVE  /\ Append(s, e) \in Seq(S) /\ Len(Append(s, e)) = Len(s) + 1
         /\ Len(s) \in Nat /\ DOMAIN s = 1 .. Len(s)
         /\ \A i \in 1 .. Len(s) : Append(s, e)[i] = s[i] /\ s[i] \in S
         /\ Append(s, e)[Len(s) + 1] = e
OBVIOUS

LEMMA Elements ==
  ASSUME NEW S, NEW s \in Seq(S)
  PROVE  /\ Len(s) \in Nat /\ DOMAIN s = 1 .. Len(s)
         /\ \A i \in 1 .. Len(s) : s[i] \in S
OBVIOUS

LEMMA HarnessInit == Harness!Init => HarnessInv
<1> SUFFICES ASSUME Harness!Init PROVE HarnessInv
  OBVIOUS
<1>1. /\ log = <<>> /\ heard = <<>> /\ pending = {} /\ lastSequence = 0
      /\ submitted = [c \in HarnessCalls |-> Harness!None]
  BY DEF Harness!Init
<1>2. Len(<<>>) = 0 /\ <<>> \in Seq(Harness!Events) /\ <<>> \in Seq(1 .. MaxLog)
  OBVIOUS
<1>3. DOMAIN heard = {}
  BY <1>1
<1>4. Harness!TypeOK
  <2>1. /\ log \in Seq(Harness!Events) /\ Len(log) <= MaxLog /\ lastSequence \in 0 .. Len(log)
        /\ heard \in Seq(1 .. MaxLog)
    BY <1>1, <1>2, RuntimeBoundsAreNat
  <2>2. submitted \in [HarnessCalls -> Results \cup {Harness!None}]
    BY <1>1
  <2>3. breaches \in 0 .. MaxBreaches /\ upsets \in 0 .. MaxUpsets
    BY RuntimeBoundsAreNat DEF Harness!Init
  <2> QED BY <2>1, <2>2, <2>3 DEF Harness!Init, Harness!TypeOK
<1>5. PendingInv
  BY <1>1 DEF PendingInv, Harness!None
<1>6. HeardInv /\ Harness!HeardInOrder
  BY <1>1, <1>2, <1>3 DEF HeardInv, Harness!HeardInOrder
<1> QED BY <1>4, <1>5, <1>6 DEF HarnessInv

LEMMA EventFacts ==
  ASSUME NEW e \in Harness!Events
  PROVE  /\ e.type \in {"model.output", "runtime.error", "tool_call.requested",
                        "tool_call.resolved", "turn.completed", "turn.cancelled"}
         /\ e.turn \in Turns
         /\ e.type \in {"tool_call.requested", "tool_call.resolved"} =>
              e.call \in HarnessCalls /\ e.turn = TurnOf[e.call]
         /\ e.type = "tool_call.resolved" => e.result \in Results
<1>1. CASE \E type \in {"model.output", "turn.completed", "turn.cancelled", "runtime.error"},
              t \in Turns : e = Harness!Event(type, t)
  BY <1>1 DEF Harness!Event
<1>2. CASE \E c \in HarnessCalls :
             e = Harness!CallEvent("tool_call.requested", c, Harness!None)
  BY <1>2, CallsHaveTurns DEF Harness!CallEvent
<1>3. CASE \E c \in HarnessCalls, r \in Results :
             e = Harness!CallEvent("tool_call.resolved", c, r)
  BY <1>3, CallsHaveTurns DEF Harness!CallEvent
<1> QED BY <1>1, <1>2, <1>3 DEF Harness!Events

LEMMA EmitKeeps ==
  ASSUME HarnessInv, NEW e \in Harness!Events, Harness!Emit(e)
  PROVE  HarnessInv'
<1>1. /\ log \in Seq(Harness!Events) /\ Len(log) < MaxLog /\ log' = Append(log, e)
      /\ lastSequence \in 0 .. Len(log) /\ heard \in Seq(1 .. MaxLog)
      /\ breaches' \in 0 .. MaxBreaches
  BY RuntimeBoundsAreNat DEF HarnessInv, Harness!TypeOK, Harness!Emit
<1>2. /\ log' \in Seq(Harness!Events) /\ Len(log') = Len(log) + 1 /\ Len(log) \in Nat
      /\ \A i \in 1 .. Len(log) : log'[i] = log[i]
  BY <1>1, Appended
<1>3. UNCHANGED <<lastSequence, heard, pending, submitted, terminalCalls, terminalTurns>>
  BY DEF Harness!Emit, Harness!session
<1>4. Harness!TypeOK'
  <2>1. Len(log') <= MaxLog /\ lastSequence' \in 0 .. Len(log')
    BY <1>1, <1>2, <1>3, RuntimeBoundsAreNat
  <2> QED BY <1>1, <1>2, <2>1 DEF HarnessInv, Harness!TypeOK, Harness!Emit, Harness!session
<1>5. PendingInv'
  BY <1>3 DEF HarnessInv, PendingInv
<1>6. \A i \in 1 .. Len(heard) :
        heard[i] \in 1 .. Len(log) /\ log'[heard[i]] = log[heard[i]]
  <2>1. \A i \in 1 .. Len(heard) : heard[i] \in 1 .. MaxLog
    BY <1>1, Elements
  <2>2. \A i \in 1 .. Len(heard) : heard[i] <= lastSequence
    BY DEF HarnessInv, HeardInv
  <2>3. \A i \in 1 .. Len(heard) : heard[i] \in 1 .. Len(log)
    <3> TAKE i \in 1 .. Len(heard)
    <3>1. heard[i] \in 1 .. MaxLog /\ heard[i] <= lastSequence
      BY <2>1, <2>2
    <3> QED BY ONLY <1>1, <3>1, RuntimeBoundsAreNat
  <2> QED BY <1>2, <2>3
<1>7. HeardInv'
  BY <1>3, <1>6 DEF HarnessInv, HeardInv
<1>8. Harness!HeardInOrder'
  <2>1. DOMAIN heard = 1 .. Len(heard) /\ Len(heard) \in Nat
    BY <1>1
  <2>2. \A i \in 1 .. Len(heard) : \A k \in i + 1 .. Len(heard) : k \in 1 .. Len(heard)
    BY <2>1
  <2> QED BY <1>3, <1>6, <2>1, <2>2 DEF HarnessInv, Harness!HeardInOrder
<1> QED BY <1>4, <1>5, <1>7, <1>8 DEF HarnessInv

\* What the session knows of calls and turns once an event was translated.
LEMMA TranslateFacts ==
  ASSUME HarnessInv, NEW e \in Harness!Events, Harness!Translate(e)
  PROVE  /\ pending' \subseteq HarnessCalls /\ terminalCalls' \subseteq HarnessCalls
         /\ terminalTurns' \subseteq Turns /\ cancellationRequests' \subseteq Turns
         /\ submitted' \in [HarnessCalls -> Results \cup {Harness!None}]
         /\ PendingInv'
         /\ terminalTurns \subseteq terminalTurns'
         /\ e.type \in Ends => e.turn \in terminalTurns'
         /\ e.type # "runtime.error" => e.turn \notin terminalTurns
<1>1. PICK S : S = Harness!Settled(e)
  OBVIOUS
<1>2. /\ Harness!Accepts(e)
      /\ terminalCalls' = terminalCalls \cup S
      /\ pending' = (pending \ S)
                      \cup (IF e.type = "tool_call.requested" THEN {e.call} ELSE {})
      /\ submitted' = [c \in HarnessCalls |-> IF c \in S THEN Harness!None ELSE submitted[c]]
  BY <1>1 DEF Harness!Translate
<1>3. \/ /\ e.type \in Ends /\ terminalTurns' = terminalTurns \cup {e.turn}
         /\ cancellationRequests' = cancellationRequests \ {e.turn}
      \/ e.type \notin Ends /\ UNCHANGED <<terminalTurns, cancellationRequests>>
  BY DEF Harness!Translate, Ends
<1>4. /\ pending \subseteq HarnessCalls /\ terminalCalls \subseteq HarnessCalls
      /\ terminalTurns \subseteq Turns /\ cancellationRequests \subseteq Turns
      /\ submitted \in [HarnessCalls -> Results \cup {Harness!None}]
      /\ \A c \in pending : TurnOf[c] \notin terminalTurns /\ c \notin terminalCalls
      /\ \A c \in HarnessCalls : submitted[c] # Harness!None => c \in pending
  BY DEF HarnessInv, Harness!TypeOK, PendingInv, Harness!None
<1>5. CASE e.type = "tool_call.requested"
  <2>1. /\ e.call \in HarnessCalls /\ e.turn = TurnOf[e.call]
        /\ e.turn \notin terminalTurns /\ e.call \notin terminalCalls
    BY <1>2, <1>5, EventFacts DEF Harness!Accepts, Harness!Active
  <2>2. S = {} /\ pending' = pending \cup {e.call} /\ e.type \notin Ends
    BY <1>1, <1>2, <1>5 DEF Harness!Settled, Ends
  <2> QED BY <1>2, <1>3, <1>4, <1>5, <2>1, <2>2 DEF PendingInv, Harness!None
<1>6. CASE e.type = "tool_call.resolved"
  <2>1. e.call \in pending /\ e.turn = TurnOf[e.call] /\ S = {e.call} /\ e.type \notin Ends
    BY <1>1, <1>2, <1>6, EventFacts DEF Harness!Accepts, Harness!Settled, Ends
  <2>2. pending' = pending \ S
    BY <1>2, <1>6
  <2> QED BY <1>2, <1>3, <1>4, <1>6, <2>1, <2>2 DEF PendingInv, Harness!None
<1>7. CASE e.type \in Ends
  <2>1. e.turn \in Turns /\ e.turn \notin terminalTurns
    BY <1>2, <1>7, EventFacts DEF Harness!Accepts, Harness!Active, Ends
  <2>2. S \subseteq pending /\ \A c \in pending \ S : TurnOf[c] # e.turn
    BY <1>1, <1>2, <1>7 DEF Harness!Accepts, Harness!Settled, Ends
  <2>3. pending' = pending \ S
    BY <1>2, <1>7 DEF Ends
  <2> QED BY <1>2, <1>3, <1>4, <1>7, <2>1, <2>2, <2>3 DEF PendingInv, Harness!None
<1>8. CASE e.type \in {"model.output", "runtime.error"}
  <2>1. S = {} /\ pending' = pending /\ e.type \notin Ends
    BY <1>1, <1>2, <1>8 DEF Harness!Settled, Ends
  <2>2. e.type # "runtime.error" => e.turn \notin terminalTurns
    BY <1>2, <1>8 DEF Harness!Accepts, Harness!Active
  <2> QED BY <1>2, <1>3, <1>4, <1>8, <2>1, <2>2 DEF PendingInv, Harness!None
<1> QED BY <1>5, <1>6, <1>7, <1>8, EventFacts DEF Ends

LEMMA DeliverKeeps ==
  ASSUME HarnessInv, NEW n \in DOMAIN log, NEW throws \in BOOLEAN, Harness!Deliver(n, throws)
  PROVE  HarnessInv'
<1>1. /\ log \in Seq(Harness!Events) /\ Len(log) \in Nat /\ Len(log) <= MaxLog
      /\ lastSequence \in 0 .. Len(log) /\ heard \in Seq(1 .. MaxLog)
      /\ n = lastSequence + 1 /\ lastSequence' = n /\ log' = log
  BY DEF HarnessInv, Harness!TypeOK, Harness!Deliver, Harness!IsNext, Harness!transport
<1>2. n \in 1 .. Len(log) /\ n \in 1 .. MaxLog /\ log[n] \in Harness!Events
  BY <1>1, RuntimeBoundsAreNat
<1>3. Harness!Translate(log[n])
  BY DEF Harness!Deliver
<1>4. /\ pending' \subseteq HarnessCalls /\ terminalCalls' \subseteq HarnessCalls
      /\ terminalTurns' \subseteq Turns /\ cancellationRequests' \subseteq Turns
      /\ submitted' \in [HarnessCalls -> Results \cup {Harness!None}]
      /\ PendingInv'
      /\ terminalTurns \subseteq terminalTurns'
      /\ log[n].type \in Ends => log[n].turn \in terminalTurns'
      /\ log[n].type # "runtime.error" => log[n].turn \notin terminalTurns
  BY <1>2, <1>3, TranslateFacts
<1>5. heard' = heard \/ heard' = Append(heard, n)
  BY DEF Harness!Deliver
<1>6. /\ heard' \in Seq(1 .. MaxLog) /\ Len(heard) \in Nat /\ Len(heard') \in Nat
      /\ DOMAIN heard = 1 .. Len(heard) /\ DOMAIN heard' = 1 .. Len(heard')
      /\ Len(heard') = Len(heard) \/ Len(heard') = Len(heard) + 1
      /\ \A i \in 1 .. Len(heard) : heard'[i] = heard[i]
      /\ \A i \in 1 .. Len(heard') : i \in 1 .. Len(heard) \/ (i = Len(heard) + 1 /\ heard'[i] = n)
  <2>1. CASE heard' = heard
    BY <1>1, <2>1
  <2>2. CASE heard' = Append(heard, n)
    <3>1. /\ heard' \in Seq(1 .. MaxLog) /\ Len(heard') = Len(heard) + 1
          /\ \A i \in 1 .. Len(heard) : heard'[i] = heard[i]
          /\ heard'[Len(heard) + 1] = n
      BY <1>1, <1>2, <2>2, Appended
    <3> QED BY <1>1, <3>1
  <2> QED BY <1>5, <2>1, <2>2
<1>7. Harness!TypeOK'
  <2>1. upsets' \in 0 .. MaxUpsets
    BY RuntimeBoundsAreNat DEF HarnessInv, Harness!TypeOK, Harness!Deliver
  <2>2. lastSequence' \in 0 .. Len(log')
    BY <1>1, <1>2
  <2>3. UNCHANGED <<log, received, breaches, streamOpen, sending, stopped, lostReplies>>
    BY DEF Harness!Deliver, Harness!transport
  <2> QED BY <1>4, <1>6, <2>1, <2>2, <2>3 DEF HarnessInv, Harness!TypeOK
<1>8. \A i \in 1 .. Len(heard) :
        /\ heard[i] \in 1 .. MaxLog /\ heard[i] <= lastSequence
        /\ log[heard[i]].type \in Ends => log[heard[i]].turn \in terminalTurns
  BY <1>1, Elements DEF HarnessInv, HeardInv
<1>9. HeardInv'
  <2>1. \A i \in 1 .. Len(heard') :
          /\ heard'[i] <= n
          /\ log[heard'[i]].type \in Ends => log[heard'[i]].turn \in terminalTurns'
    <3> TAKE i \in 1 .. Len(heard')
    <3>1. CASE i \in 1 .. Len(heard)
      <4>1. heard[i] <= n
        BY <1>1, <1>8, <3>1
      <4> QED BY <1>4, <1>6, <1>8, <3>1, <4>1
    <3>2. CASE heard'[i] = n
      BY <1>1, <1>4, <3>2
    <3> QED BY <1>6, <3>1, <3>2
  <2> QED BY <1>1, <2>1 DEF HeardInv
<1>10. Harness!HeardInOrder'
  <2> SUFFICES ASSUME NEW i \in 1 .. Len(heard'), NEW k \in i + 1 .. Len(heard')
               PROVE  /\ heard'[i] < heard'[k]
                      /\ log[heard'[i]].turn = log[heard'[k]].turn
                           /\ log[heard'[i]].type \in {"turn.completed", "turn.cancelled"}
                         => log[heard'[k]].type = "runtime.error"
    BY <1>1, <1>6 DEF Harness!HeardInOrder
  <2>1. i \in 1 .. Len(heard) /\ k \in 1 .. Len(heard') /\ i + 1 <= k
    <3>1. /\ Len(heard) \in Nat /\ Len(heard') \in Nat
          /\ Len(heard') = Len(heard) \/ Len(heard') = Len(heard) + 1
      BY <1>6
    <3> QED BY ONLY <3>1, i \in 1 .. Len(heard'), k \in i + 1 .. Len(heard')
  <2>4. heard'[i] = heard[i]
    BY <1>6, <2>1
  <2>2. CASE k \in 1 .. Len(heard)
    <3>1. heard'[k] = heard[k]
      BY <1>6, <2>2
    <3>2. k \in i + 1 .. Len(heard)
      BY ONLY <2>1, <2>2
    <3>3. /\ heard[i] < heard[k]
          /\ log[heard[i]].turn = log[heard[k]].turn
               /\ log[heard[i]].type \in {"turn.completed", "turn.cancelled"}
             => log[heard[k]].type = "runtime.error"
      <4>1. i \in DOMAIN heard
        BY <1>6, <2>1
      <4> QED BY <3>2, <4>1 DEF HarnessInv, Harness!HeardInOrder
    <3> QED BY <1>1, <2>4, <3>1, <3>3
  <2>3. CASE heard'[k] = n
    <3>1. heard[i] < n
      BY <1>1, <1>8, <2>1
    <3> QED BY <1>4, <1>8, <2>1, <2>3, <2>4, <3>1 DEF Ends
  <2> QED BY <1>6, <2>1, <2>2, <2>3
<1> QED BY <1>4, <1>7, <1>9, <1>10 DEF HarnessInv

\* Steps that leave the log and what was heard of it alone.
LEMMA SessionMoves ==
  ASSUME HarnessInv, UNCHANGED <<log, lastSequence, heard, pending, terminalCalls, terminalTurns>>,
         Harness!TypeOK',
         \A c \in HarnessCalls : submitted'[c] # Harness!None => c \in pending
  PROVE  HarnessInv'
<1>1. PendingInv'
  BY DEF HarnessInv, PendingInv, Harness!None
<1>2. HeardInv' /\ Harness!HeardInOrder'
  BY DEF HarnessInv, HeardInv, Harness!HeardInOrder
<1> QED BY <1>1, <1>2 DEF HarnessInv

LEMMA HarnessStutters ==
  ASSUME HarnessInv, UNCHANGED harnessVars
  PROVE  HarnessInv'
<1>1. Harness!TypeOK'
  BY DEF HarnessInv, Harness!TypeOK, harnessVars
<1> QED BY <1>1, SessionMoves DEF HarnessInv, PendingInv, Harness!None, harnessVars

LEMMA ResultMoves ==
  ASSUME HarnessInv, NEW s \in sending, NEW reply \in BOOLEAN,
         Harness!ResultTaken(s, reply) \/ Harness!ResultRefused(s)
  PROVE  HarnessInv'
<1>1. s \in [call : HarnessCalls, result : Results]
  BY DEF HarnessInv, Harness!TypeOK
<1>2. submitted \in [HarnessCalls -> Results \cup {Harness!None}] /\ s.call \in HarnessCalls
  BY <1>1 DEF HarnessInv, Harness!TypeOK
<1>3. /\ submitted' \in [HarnessCalls -> Results \cup {Harness!None}]
      /\ \A c \in HarnessCalls : submitted'[c] \in {submitted[c], Harness!None}
  <2>1. submitted' = submitted \/ submitted' = [submitted EXCEPT ![s.call] = Harness!None]
    BY DEF Harness!ResultTaken, Harness!ResultRefused
  <2> QED BY <1>2, <2>1
<1>4. /\ sending' \subseteq [call : HarnessCalls, result : Results]
      /\ received' \subseteq [call : HarnessCalls, result : Results]
      /\ upsets' \in 0 .. MaxUpsets /\ lostReplies' \in BOOLEAN
  <2>1. /\ sending \subseteq [call : HarnessCalls, result : Results]
        /\ received \subseteq [call : HarnessCalls, result : Results]
        /\ upsets \in 0 .. MaxUpsets /\ lostReplies \in BOOLEAN
    BY DEF HarnessInv, Harness!TypeOK
  <2>2. CASE Harness!ResultTaken(s, reply)
    <3>1. /\ sending' = sending \ {s} /\ received' = received \cup {s}
          /\ lostReplies' = (lostReplies \/ ~reply)
          /\ upsets' = upsets + (IF reply THEN 0 ELSE 1) /\ upsets' <= MaxUpsets
      BY <2>2 DEF Harness!ResultTaken
    <3>2. upsets' \in 0 .. MaxUpsets
      BY <2>1, <3>1, RuntimeBoundsAreNat
    <3> QED BY <1>1, <2>1, <3>1, <3>2
  <2>3. CASE Harness!ResultRefused(s)
    <3>1. /\ sending' = sending \ {s} /\ received' = received
          /\ upsets' = upsets + 1 /\ upsets < MaxUpsets /\ lostReplies' = lostReplies
      BY <2>3 DEF Harness!ResultRefused, Harness!transport
    <3>2. upsets' \in 0 .. MaxUpsets
      BY <2>1, <3>1, RuntimeBoundsAreNat
    <3> QED BY <2>1, <3>1, <3>2
  <2> QED BY <2>2, <2>3
<1>5. UNCHANGED <<log, breaches, lastSequence, streamOpen, pending, terminalCalls, terminalTurns,
                  cancellationRequests, stopped, heard>>
  BY DEF Harness!ResultTaken, Harness!ResultRefused, Harness!transport
<1>6. Harness!TypeOK'
  BY <1>3, <1>4, <1>5 DEF HarnessInv, Harness!TypeOK
<1> QED BY <1>3, <1>5, <1>6, SessionMoves DEF HarnessInv, PendingInv, Harness!None

LEMMA SubmitKeeps ==
  ASSUME HarnessInv, NEW c \in HarnessCalls, NEW r \in Results, Harness!SubmitToolResult(c, r)
  PROVE  HarnessInv'
<1>1. /\ c \in pending /\ submitted' = [submitted EXCEPT ![c] = r]
      /\ sending' = sending \cup {[call |-> c, result |-> r]}
  BY DEF Harness!SubmitToolResult, Harness!MayAnswer
<1>2. submitted \in [HarnessCalls -> Results \cup {Harness!None}]
  BY DEF HarnessInv, Harness!TypeOK
<1>3. /\ submitted' \in [HarnessCalls -> Results \cup {Harness!None}]
      /\ \A o \in HarnessCalls \ {c} : submitted'[o] = submitted[o]
  BY <1>1, <1>2
<1>4. UNCHANGED <<log, received, breaches, lastSequence, streamOpen, pending, terminalCalls,
                  terminalTurns, cancellationRequests, stopped, heard, upsets, lostReplies>>
  BY DEF Harness!SubmitToolResult, Harness!transport
<1>5. Harness!TypeOK'
  BY <1>1, <1>3, <1>4 DEF HarnessInv, Harness!TypeOK
<1> QED BY <1>1, <1>3, <1>4, <1>5, SessionMoves DEF HarnessInv, PendingInv, Harness!None

LEMMA HarnessKeeps == HarnessInv /\ Harness!Next => HarnessInv'
<1> SUFFICES ASSUME HarnessInv, Harness!Next PROVE HarnessInv'
  OBVIOUS
<1>1. CASE \E e \in Harness!Events : Harness!Emit(e)
  BY <1>1, EmitKeeps
<1>2. CASE \E s \in sending : \/ Harness!ResultTaken(s, TRUE) \/ Harness!ResultTaken(s, FALSE)
                              \/ Harness!ResultRefused(s)
  BY <1>2, ResultMoves
<1>3. CASE \/ Harness!OpenStream \/ Harness!CloseStream \/ Harness!Shutdown
           \/ \E t \in Turns : Harness!CancelRefused(t) \/ Harness!CancelTurn(t)
  <2>1. UNCHANGED <<log, received, breaches, lastSequence, pending, submitted, terminalCalls,
                    terminalTurns, sending, heard, lostReplies>>
    BY <1>3 DEF Harness!OpenStream, Harness!CloseStream, Harness!Shutdown, Harness!CancelRefused,
                Harness!CancelTurn, Harness!transport, Harness!session
  <2>2. /\ streamOpen' \in BOOLEAN /\ stopped' \in BOOLEAN
        /\ cancellationRequests' \subseteq Turns /\ upsets' \in 0 .. MaxUpsets
    <3>1. /\ streamOpen \in BOOLEAN /\ stopped \in BOOLEAN
          /\ cancellationRequests \subseteq Turns /\ upsets \in 0 .. MaxUpsets
      BY DEF HarnessInv, Harness!TypeOK
    <3>2. CASE Harness!OpenStream \/ Harness!CloseStream
      BY <3>1, <3>2 DEF Harness!OpenStream, Harness!CloseStream
    <3>3. CASE Harness!Shutdown
      BY <3>1, <3>3 DEF Harness!Shutdown, Harness!session
    <3>4. CASE \E t \in Turns : Harness!CancelTurn(t)
      BY <3>1, <3>4 DEF Harness!CancelTurn
    <3>5. CASE \E t \in Turns : Harness!CancelRefused(t)
      <4>1. /\ upsets' = upsets + 1 /\ upsets < MaxUpsets
            /\ UNCHANGED <<streamOpen, stopped>> /\ cancellationRequests' \subseteq Turns
        BY <3>1, <3>5 DEF Harness!CancelRefused
      <4> QED BY <3>1, <4>1, RuntimeBoundsAreNat
    <3> QED BY <1>3, <3>2, <3>3, <3>4, <3>5
  <2>3. Harness!TypeOK'
    BY <2>1, <2>2 DEF HarnessInv, Harness!TypeOK
  <2> QED BY <2>1, <2>3, SessionMoves DEF HarnessInv, PendingInv, Harness!None
<1>4. CASE \E n \in DOMAIN log : Harness!Deliver(n, FALSE) \/ Harness!Deliver(n, TRUE)
  BY <1>4, DeliverKeeps
<1>5. CASE \E c \in HarnessCalls, r \in Results : Harness!SubmitToolResult(c, r)
  BY <1>5, SubmitKeeps
<1> QED BY <1>1, <1>2, <1>3, <1>4, <1>5 DEF Harness!Next, Harness!TransportStep

-----------------------------------------------------------------------------
(* EngineAdapter: the inductive invariant.                                 *)

Awaited(k) == start[k] \in Engine!Awaited

EngineTyped ==
    /\ Engine!TypeOK
    /\ start \in [Starts -> Engine!Awaited \cup {"idle", "refused", "threw", "returned"}]
    /\ os \in [Starts -> {"none", "alive", "dead"}]
    /\ calls \in [ToolCalls -> Engine!CallStates]
    /\ submit \in [Submits -> [call : ToolCalls \cup {Nil},
                               at : {"idle", "sending", "settled", "threw"}]]
    /\ \A s \in Submits : submit[s].at = "sending" => submit[s].call \in ToolCalls

\* The field holds the process that lives; a start that has launched none yet finds no
\* other, because the status says "stopped" only without one, or while a start that
\* launched one is awaited.
ChildInv ==
    /\ \A k \in Starts : os[k] = "alive" => child = k
    /\ \A j, k \in Starts : Awaited(j) /\ Awaited(k) => j = k
    /\ \A k \in Starts : start[k] \in {"verifying", "launching"} => child = Nil
    /\ process.status = "stopped" /\ child # Nil =>
         \E k \in Starts : start[k] \in {"probing", "inspecting"}

EngineInv == EngineTyped /\ ChildInv

Places == Engine!Awaited \cup {"idle", "refused", "threw", "returned"}

\* Steps on the process leave the calls alone, and steps on the calls the process.
LEMMA ProcessMoves ==
  ASSUME EngineInv, UNCHANGED <<calls, submit, cursor>>,
         process'.status \in {"stopped", "starting", "healthy", "stopping", "failed"},
         process'.pid \in Starts \cup {Nil},
         child' \in Starts \cup {Nil}, start' \in [Starts -> Places],
         os' \in [Starts -> {"none", "alive", "dead"}], ChildInv'
  PROVE  EngineInv'
<1>1. /\ calls \in [ToolCalls -> Engine!CallStates] /\ cursor \in 0 .. MaxSequence
      /\ submit \in [Submits -> [call : ToolCalls \cup {Nil},
                                 at : {"idle", "sending", "settled", "threw"}]]
      /\ \A s \in Submits : submit[s].at = "sending" => submit[s].call \in ToolCalls
  BY DEF EngineInv, EngineTyped, Engine!TypeOK
<1>2. Engine!TypeOK'
  BY <1>1 DEF Engine!TypeOK
<1> QED BY <1>1, <1>2 DEF EngineInv, EngineTyped, Places

LEMMA ToolsMove ==
  ASSUME EngineInv, UNCHANGED <<process, child, start, os>>,
         calls' \in [ToolCalls -> Engine!CallStates], cursor' \in 0 .. MaxSequence,
         submit' \in [Submits -> [call : ToolCalls \cup {Nil},
                                  at : {"idle", "sending", "settled", "threw"}]],
         \A s \in Submits : submit'[s].at = "sending" => submit'[s].call \in ToolCalls
  PROVE  EngineInv'
<1>1. Engine!TypeOK'
  BY DEF EngineInv, EngineTyped, Engine!TypeOK
<1>2. ChildInv'
  BY DEF EngineInv, ChildInv, Awaited, Engine!Awaited
<1> QED BY <1>1, <1>2 DEF EngineInv, EngineTyped

LEMMA EngineInit == Engine!Init => EngineInv
<1> SUFFICES ASSUME Engine!Init PROVE EngineInv
  OBVIOUS
<1>1. /\ start \in [Starts -> Places] /\ \A k \in Starts : start[k] = "idle"
      /\ os \in [Starts -> {"none", "alive", "dead"}] /\ \A k \in Starts : os[k] = "none"
      /\ calls \in [ToolCalls -> Engine!CallStates] /\ cursor \in 0 .. MaxSequence
      /\ process.status = "stopped" /\ process.pid = Nil /\ child = Nil
  BY RuntimeBoundsAreNat DEF Engine!Init, Places, Engine!CallStates
<1>2. /\ submit \in [Submits -> [call : ToolCalls \cup {Nil},
                                 at : {"idle", "sending", "settled", "threw"}]]
      /\ \A s \in Submits : submit[s].at = "idle"
  BY DEF Engine!Init
<1>3. Engine!TypeOK
  BY <1>1 DEF Engine!TypeOK
<1>4. ChildInv
  BY <1>1 DEF ChildInv, Awaited, Engine!Awaited
<1> QED BY <1>1, <1>2, <1>3, <1>4 DEF EngineInv, EngineTyped, Places

\* A start that fails has killed what the field held.
LEMMA StartFailsKeeps ==
  ASSUME EngineInv, NEW k \in Starts, Awaited(k), Engine!StartFails(k),
         UNCHANGED <<calls, submit, cursor>>
  PROVE  EngineInv'
<1>1. /\ start \in [Starts -> Places] /\ os \in [Starts -> {"none", "alive", "dead"}]
      /\ child \in Starts \cup {Nil} /\ \A j \in Starts : os[j] = "alive" => child = j
      /\ \A j \in Starts : Awaited(j) => j = k
  BY DEF EngineInv, EngineTyped, ChildInv, Engine!TypeOK, Places
<1>2. /\ start' = [start EXCEPT ![k] = "threw"] /\ child' = Nil
      /\ process' = [status |-> "failed", pid |-> Nil]
  BY DEF Engine!StartFails, Engine!Says
<1>3. /\ start' \in [Starts -> Places] /\ start'[k] = "threw"
      /\ \A j \in Starts \ {k} : start'[j] = start[j]
  BY <1>1, <1>2 DEF Places
<1>4. os' \in [Starts -> {"none", "alive", "dead"}] /\ \A j \in Starts : os'[j] # "alive"
  <2>1. CASE child = Nil
    BY <1>1, <2>1, NilIsAbsent DEF Engine!StartFails
  <2>2. CASE child \in Starts
    BY <1>1, <2>2, NilIsAbsent DEF Engine!StartFails
  <2> QED BY <1>1, <2>1, <2>2
<1>5. \A j \in Starts : start'[j] \notin Engine!Awaited
  BY <1>1, <1>3 DEF Awaited, Engine!Awaited
<1>6. ChildInv'
  BY <1>2, <1>4, <1>5 DEF ChildInv, Awaited, Engine!Awaited
<1> QED BY <1>2, <1>3, <1>4, <1>6, ProcessMoves

\* A start goes on to another place.
LEMMA StartMoves ==
  ASSUME EngineInv, NEW k \in Starts, NEW place \in Places,
         start' = [start EXCEPT ![k] = place]
  PROVE  /\ start' \in [Starts -> Places] /\ start'[k] = place
         /\ \A j \in Starts \ {k} : start'[j] = start[j]
BY DEF EngineInv, EngineTyped, Places

LEMMA StartKeeps ==
  ASSUME EngineInv, NEW k \in Starts,
         \/ Engine!StartCalled(k) \/ Engine!Verified(k) \/ Engine!Launched(k)
         \/ Engine!Probed(k) \/ Engine!Inspected(k)
  PROVE  EngineInv'
<1>1. /\ start \in [Starts -> Places] /\ os \in [Starts -> {"none", "alive", "dead"}]
      /\ process.status \in {"stopped", "starting", "healthy", "stopping", "failed"}
      /\ process.pid \in Starts \cup {Nil} /\ child \in Starts \cup {Nil}
  BY DEF EngineInv, EngineTyped, Engine!TypeOK, Places
<1>2. /\ \A j \in Starts : os[j] = "alive" => child = j
      /\ \A i, j \in Starts : Awaited(i) /\ Awaited(j) => i = j
      /\ \A j \in Starts : start[j] \in {"verifying", "launching"} => child = Nil
      /\ process.status = "stopped" /\ child # Nil =>
           \E j \in Starts : start[j] \in {"probing", "inspecting"}
  BY DEF EngineInv, ChildInv
<1>3. CASE Engine!StartCalled(k)
  <2>1. PICK place \in {"verifying", "refused"} :
          /\ start' = [start EXCEPT ![k] = place]
          /\ place = "verifying" => process.status = "stopped"
    BY <1>3 DEF Engine!StartCalled
  <2>2. \A j \in Starts : ~Awaited(j)
    BY <1>3 DEF Engine!StartCalled, Awaited
  <2>3. /\ start' \in [Starts -> Places] /\ start'[k] = place
        /\ \A j \in Starts \ {k} : start'[j] = start[j]
    BY <2>1, StartMoves DEF Places, Engine!Awaited
  <2>4. UNCHANGED <<process, child, os, calls, submit, cursor>>
    BY <1>3 DEF Engine!StartCalled, Engine!callVars
  <2>5. process.status = "stopped" => child = Nil
    BY <1>2, <2>2 DEF Awaited, Engine!Awaited
  <2>6. \A j \in Starts : start'[j] \in Engine!Awaited => j = k /\ start'[j] = "verifying"
    BY <2>1, <2>2, <2>3 DEF Awaited, Engine!Awaited
  <2>7. ChildInv'
    BY <1>2, <2>1, <2>3, <2>4, <2>5, <2>6 DEF ChildInv, Awaited, Engine!Awaited
  <2> QED BY <1>1, <2>3, <2>4, <2>7, ProcessMoves
<1>4. CASE ~Engine!StartCalled(k) /\ start[k] \in Engine!Awaited
  <2>1. \A j \in Starts : Awaited(j) => j = k
    BY <1>2, <1>4 DEF Awaited
  <2>2. CASE /\ Engine!StartFails(k)
             /\ UNCHANGED <<calls, submit, cursor>>
    BY <1>4, <2>2, StartFailsKeeps DEF Awaited
  <2>3. CASE Engine!Verified(k)
    <3>1. PICK place \in {"launching", "threw"} : start' = [start EXCEPT ![k] = place]
      BY <2>3 DEF Engine!Verified
    <3>2. /\ start' \in [Starts -> Places] /\ start'[k] = place
          /\ \A j \in Starts \ {k} : start'[j] = start[j]
      BY <3>1, StartMoves DEF Places, Engine!Awaited
    <3>3. /\ process'.status \in {"stopped", "starting", "healthy", "stopping", "failed"}
          /\ process'.pid \in Starts \cup {Nil}
      BY <1>1, <2>3 DEF Engine!Verified, Engine!Says
    <3>4. UNCHANGED <<child, os, calls, submit, cursor>> /\ child = Nil
      BY <1>2, <2>3 DEF Engine!Verified, Engine!callVars
    <3>5. ChildInv'
      BY <1>2, <2>1, <3>1, <3>2, <3>4 DEF ChildInv, Awaited, Engine!Awaited
    <3> QED BY <1>1, <3>2, <3>3, <3>4, <3>5, ProcessMoves
  <2>4. CASE Engine!Launched(k) /\ ~Engine!StartFails(k)
    <3>1. /\ start' = [start EXCEPT ![k] = "probing"] /\ os' = [os EXCEPT ![k] = "alive"]
          /\ child' = k /\ UNCHANGED <<process, calls, submit, cursor>> /\ child = Nil
      BY <1>2, <2>4 DEF Engine!Launched, Engine!callVars
    <3>2. /\ start' \in [Starts -> Places] /\ start'[k] = "probing"
          /\ \A j \in Starts \ {k} : start'[j] = start[j]
      BY <3>1, StartMoves DEF Places, Engine!Awaited
    <3>3. /\ os' \in [Starts -> {"none", "alive", "dead"}]
          /\ \A j \in Starts \ {k} : os'[j] # "alive"
      BY <1>1, <1>2, <3>1, NilIsAbsent
    <3>4. ChildInv'
      BY <1>2, <2>1, <3>1, <3>2, <3>3 DEF ChildInv, Awaited, Engine!Awaited
    <3> QED BY <1>1, <3>1, <3>2, <3>3, <3>4, ProcessMoves
  <2>5. CASE Engine!Probed(k) /\ ~Engine!StartFails(k)
    <3>1. /\ start' = [start EXCEPT ![k] = "inspecting"]
          /\ UNCHANGED <<process, child, os, calls, submit, cursor>>
      BY <2>5 DEF Engine!Probed, Engine!callVars
    <3>2. /\ start' \in [Starts -> Places] /\ start'[k] = "inspecting"
          /\ \A j \in Starts \ {k} : start'[j] = start[j]
      BY <3>1, StartMoves DEF Places, Engine!Awaited
    <3>3. ChildInv'
      BY <1>2, <2>1, <3>1, <3>2 DEF ChildInv, Awaited, Engine!Awaited
    <3> QED BY <1>1, <3>1, <3>2, <3>3, ProcessMoves
  <2>6. CASE Engine!Inspected(k) /\ ~Engine!StartFails(k)
    <3>1. /\ start' = [start EXCEPT ![k] = "returned"]
          /\ process' = [status |-> "healthy", pid |-> k]
          /\ UNCHANGED <<child, os, calls, submit, cursor>>
      BY <2>6 DEF Engine!Inspected, Engine!callVars
    <3>2. /\ start' \in [Starts -> Places] /\ start'[k] = "returned"
          /\ \A j \in Starts \ {k} : start'[j] = start[j]
      BY <3>1, StartMoves DEF Places
    <3>3. ChildInv'
      BY <1>2, <2>1, <3>1, <3>2 DEF ChildInv, Awaited, Engine!Awaited
    <3> QED BY <1>1, <3>1, <3>2, <3>3, ProcessMoves
  <2>7. UNCHANGED <<calls, submit, cursor>>
    BY <1>4 DEF Engine!Verified, Engine!Launched, Engine!Probed, Engine!Inspected, Engine!callVars
  <2> QED BY <1>4, <2>2, <2>3, <2>4, <2>5, <2>6, <2>7
<1> QED BY <1>3, <1>4
        DEF Engine!Verified, Engine!Launched, Engine!Probed, Engine!Inspected, Engine!Awaited

\* A process that ends, and the shutdown.
LEMMA ShutdownKeeps ==
  ASSUME EngineInv,
         \/ \E k \in Starts : Engine!Exits(k) \/ Engine!ExitNoticed(k)
         \/ Engine!ShutdownCalled \/ Engine!Asked \/ Engine!Killed
  PROVE  EngineInv'
<1>1. /\ start \in [Starts -> Places] /\ os \in [Starts -> {"none", "alive", "dead"}]
      /\ process.status \in {"stopped", "starting", "healthy", "stopping", "failed"}
      /\ process.pid \in Starts \cup {Nil} /\ child \in Starts \cup {Nil}
  BY DEF EngineInv, EngineTyped, Engine!TypeOK, Places
<1>2. ChildInv
  BY DEF EngineInv
<1>3. UNCHANGED <<start, calls, submit, cursor>>
  BY DEF Engine!Exits, Engine!ExitNoticed, Engine!ShutdownCalled, Engine!Asked, Engine!Killed,
         Engine!callVars
<1>4. CASE \E k \in Starts : os' = [os EXCEPT ![k] = "dead"] /\ UNCHANGED <<process, child>>
  <2>1. /\ os' \in [Starts -> {"none", "alive", "dead"}]
        /\ \A j \in Starts : os'[j] = "alive" => os[j] = "alive"
    BY <1>1, <1>4
  <2>2. ChildInv'
    BY <1>2, <1>3, <1>4, <2>1 DEF ChildInv, Awaited, Engine!Awaited
  <2> QED BY <1>1, <1>3, <1>4, <2>1, <2>2, ProcessMoves
<1>5. CASE \E k \in Starts : Engine!ExitNoticed(k)
  <2>1. PICK k \in Starts : Engine!ExitNoticed(k)
    BY <1>5
  <2>2. /\ os[k] = "dead" /\ child = k /\ child' = Nil /\ UNCHANGED os
        /\ process' = [status |-> "failed", pid |-> Nil]
    BY <2>1 DEF Engine!ExitNoticed, Engine!Mine, Engine!Says
  <2>3. ChildInv'
    BY <1>2, <1>3, <2>2 DEF ChildInv, Awaited, Engine!Awaited
  <2> QED BY <1>1, <1>3, <2>2, <2>3, ProcessMoves
<1>6. CASE Engine!ShutdownCalled
  <2>1. /\ UNCHANGED <<os, child>>
        /\ \/ child = Nil /\ process' = [status |-> "stopped", pid |-> Nil]
           \/ child # Nil /\ process' = [status |-> "stopping", pid |-> child]
    BY <1>6 DEF Engine!ShutdownCalled, Engine!Says
  <2>2. /\ process'.status \in {"stopped", "stopping"} /\ process'.pid \in Starts \cup {Nil}
        /\ process'.status = "stopped" => child = Nil
    BY <1>1, <2>1
  <2>3. ChildInv'
    BY <1>2, <1>3, <2>1, <2>2 DEF ChildInv, Awaited, Engine!Awaited
  <2> QED BY <1>1, <1>3, <2>1, <2>2, <2>3, ProcessMoves
<1>7. CASE UNCHANGED <<process, child, os>>
  <2>1. ChildInv'
    BY <1>2, <1>3, <1>7 DEF ChildInv, Awaited, Engine!Awaited
  <2> QED BY <1>1, <1>3, <1>7, <2>1, ProcessMoves
<1>8. CASE Engine!Killed /\ child # Nil
  <2>1. /\ os' = [os EXCEPT ![child] = "dead"] /\ child' = Nil
        /\ process' = [status |-> "stopped", pid |-> Nil]
    BY <1>8 DEF Engine!Killed, Engine!Says
  <2>2. os' \in [Starts -> {"none", "alive", "dead"}] /\ \A j \in Starts : os'[j] # "alive"
    <3>1. child \in Starts
      BY <1>1, <1>8
    <3> QED BY <1>1, <1>2, <2>1, <3>1 DEF ChildInv
  <2>3. ChildInv'
    BY <1>2, <1>3, <2>1, <2>2 DEF ChildInv, Awaited, Engine!Awaited
  <2> QED BY <1>1, <1>3, <2>1, <2>2, <2>3, ProcessMoves
<1>9. CASE \E k \in Starts : Engine!Exits(k)
  BY <1>4, <1>9 DEF Engine!Exits
<1>10. CASE Engine!Asked
  BY <1>1, <1>4, <1>7, <1>10 DEF Engine!Asked
<1>11. CASE Engine!Killed /\ child = Nil
  BY <1>7, <1>11 DEF Engine!Killed
<1> QED BY <1>5, <1>6, <1>8, <1>9, <1>10, <1>11

LEMMA ToolsKeep ==
  ASSUME EngineInv,
         \/ \E c \in ToolCalls :
              Engine!Register(c) \/ Engine!Withdraw(c) \/ Engine!RestoreHistorical(c)
         \/ \E s \in Submits :
              \/ Engine!Submitted(s) \/ Engine!SubmitFails(s)
              \/ \E c \in ToolCalls : Engine!Submit(s, c)
         \/ \E n \in 1 .. MaxSequence : Engine!Event(n)
  PROVE  EngineInv'
<1>1. /\ calls \in [ToolCalls -> Engine!CallStates] /\ cursor \in 0 .. MaxSequence
      /\ submit \in [Submits -> [call : ToolCalls \cup {Nil},
                                 at : {"idle", "sending", "settled", "threw"}]]
      /\ \A s \in Submits : submit[s].at = "sending" => submit[s].call \in ToolCalls
  BY DEF EngineInv, EngineTyped, Engine!TypeOK
<1>2. UNCHANGED <<process, child, start, os>>
  BY DEF Engine!Register, Engine!Withdraw, Engine!RestoreHistorical, Engine!Submitted,
         Engine!SubmitFails, Engine!Submit, Engine!Event, Engine!processVars
<1>3. calls' \in [ToolCalls -> Engine!CallStates]
  <2>1. \/ UNCHANGED calls
        \/ \E c \in ToolCalls, end \in Engine!CallStates : calls' = [calls EXCEPT ![c] = end]
    BY <1>1 DEF Engine!Register, Engine!Withdraw, Engine!RestoreHistorical, Engine!Submitted,
         Engine!SubmitFails, Engine!Submit, Engine!Event, Engine!callVars, Engine!CallStates
  <2> QED BY <1>1, <2>1
<1>4. /\ submit' \in [Submits -> [call : ToolCalls \cup {Nil},
                                  at : {"idle", "sending", "settled", "threw"}]]
      /\ \A s \in Submits : submit'[s].at = "sending" => submit'[s].call \in ToolCalls
  <2>1. CASE UNCHANGED submit
    BY <1>1, <2>1
  <2>2. CASE \E s \in Submits, c \in ToolCalls :
               submit' = [submit EXCEPT ![s] = [call |-> c, at |-> "sending"]]
    BY <1>1, <2>2
  <2>3. ASSUME NEW s \in Submits, NEW place \in {"settled", "threw"},
               submit' = [submit EXCEPT ![s].at = place]
        PROVE  /\ submit' \in [Submits -> [call : ToolCalls \cup {Nil},
                                         at : {"idle", "sending", "settled", "threw"}]]
               /\ \A o \in Submits : submit'[o].at = "sending" => submit'[o].call \in ToolCalls
    BY <1>1, <2>3
  <2> QED BY <2>1, <2>2, <2>3
          DEF Engine!Register, Engine!Withdraw, Engine!RestoreHistorical, Engine!Submitted,
              Engine!SubmitFails, Engine!Submit, Engine!Event, Engine!callVars
<1>5. cursor' \in 0 .. MaxSequence
  <2>1. UNCHANGED cursor \/ cursor' \in 1 .. MaxSequence
    BY DEF Engine!Register, Engine!Withdraw, Engine!RestoreHistorical, Engine!Submitted,
         Engine!SubmitFails, Engine!Submit, Engine!Event
  <2> QED BY <1>1, <2>1, RuntimeBoundsAreNat
<1> QED BY <1>2, <1>3, <1>4, <1>5, ToolsMove

LEMMA EngineStutters ==
  ASSUME EngineInv, UNCHANGED engineVars
  PROVE  EngineInv'
<1>1. UNCHANGED <<process, child, start, os, calls, submit, cursor>>
  BY DEF engineVars
<1> QED BY <1>1, ToolsMove DEF EngineInv, EngineTyped, Engine!TypeOK

LEMMA EngineKeeps == EngineInv /\ Engine!Next => EngineInv'
BY StartKeeps, ShutdownKeeps, ToolsKeep DEF Engine!Next

LEMMA EngineSays == EngineInv => Engine!TypeOK /\ Engine!OneInstance
BY DEF EngineInv, EngineTyped, ChildInv, Engine!OneInstance

\* Only a pending call is settled, and only history takes the place of a settled one.
LEMMA SettledStay == EngineInv /\ Engine!Next => Engine!SettledCallsStay
<1> SUFFICES ASSUME EngineInv, Engine!Next, NEW c \in ToolCalls,
                    calls[c] \in {"resolved", "timed_out", "canceled", "historical"}
             PROVE  calls'[c] \in {calls[c], "historical"}
  BY DEF Engine!SettledCallsStay
<1>1. /\ calls \in [ToolCalls -> Engine!CallStates]
      /\ \A s \in Submits : submit[s].at = "sending" => submit[s].call \in ToolCalls
  BY DEF EngineInv, EngineTyped
<1>2. CASE UNCHANGED calls
  BY <1>2
<1>3. CASE \E o \in ToolCalls : Engine!RestoreHistorical(o)
  BY <1>1, <1>3 DEF Engine!RestoreHistorical
<1>4. CASE \E o \in ToolCalls, end \in Engine!CallStates :
             calls[o] \in {"unknown", "pending"} /\ calls' = [calls EXCEPT ![o] = end]
  BY <1>1, <1>4
<1>5. ASSUME NEW s \in Submits, Engine!Submitted(s)
      PROVE  \/ UNCHANGED calls
             \/ \E o \in ToolCalls, end \in Engine!CallStates :
                  calls[o] \in {"unknown", "pending"} /\ calls' = [calls EXCEPT ![o] = end]
  BY <1>1, <1>5 DEF Engine!Submitted, Engine!Open, Engine!CallStates
<1>6. ASSUME NEW o \in ToolCalls, Engine!Register(o) \/ Engine!Withdraw(o)
      PROVE  \E end \in Engine!CallStates : calls[o] \in {"unknown", "pending"} /\ calls' = [calls EXCEPT ![o] = end]
  BY <1>6 DEF Engine!Register, Engine!Withdraw, Engine!CallStates
<1>7. ASSUME NEW k \in Starts,
             \/ Engine!StartCalled(k) \/ Engine!Verified(k) \/ Engine!Launched(k)
             \/ Engine!Probed(k) \/ Engine!Inspected(k) \/ Engine!Exits(k) \/ Engine!ExitNoticed(k)
      PROVE  UNCHANGED calls
  BY <1>7 DEF Engine!StartCalled, Engine!Verified, Engine!Launched, Engine!Probed, Engine!Inspected,
              Engine!Exits, Engine!ExitNoticed, Engine!callVars
<1>8. CASE \/ Engine!ShutdownCalled \/ Engine!Asked \/ Engine!Killed
           \/ \E s \in Submits : Engine!SubmitFails(s) \/ \E o \in ToolCalls : Engine!Submit(s, o)
           \/ \E n \in 1 .. MaxSequence : Engine!Event(n)
  BY <1>2, <1>8 DEF Engine!ShutdownCalled, Engine!Asked, Engine!Killed, Engine!SubmitFails,
              Engine!Submit, Engine!Event, Engine!callVars
<1> QED BY <1>2, <1>3, <1>4, <1>5, <1>6, <1>7, <1>8 DEF Engine!Next

-----------------------------------------------------------------------------
(* PlanExecution: the inductive invariant.                                 *)

\* How often a node was started follows from its failures, and nobody starts a node
\* before its dependencies have completed.
NodeInv(n) ==
    /\ retryCount[n] <= MaxRetries \/ status[n] \notin {"pending", "running"}
    /\ status[n] = "pending" => runs[n] = retryCount[n]
    /\ executor = "node" /\ current = n =>
         /\ status[n] \in {"running", "cancelled"}
         /\ runs[n] = retryCount[n] + 1 /\ retryCount[n] <= MaxRetries
    /\ runs[n] <= MaxRetries + 1
    /\ status[n] = "completed" => runs[n] > 0
    /\ runs[n] > 0 => \A d \in dependencies[n] : d \in Nodes /\ status[d] = "completed"
    /\ status[n] = "blocked" => \E d \in Nodes : status[d] = "failed"

PlanInv ==
    /\ Plan!TypeOK /\ Plan!CompletedGraphsRan
    /\ executor = "node" => current \in Nodes
    /\ cancelled => graph = "cancelled"
    /\ \A n \in Nodes : NodeInv(n)

LEMMA PlanInit == Plan!Init => PlanInv
<1> SUFFICES ASSUME Plan!Init PROVE PlanInv
  OBVIOUS
<1>1. /\ graph = "running" /\ executor = "loop" /\ current = 0 /\ cancelled = FALSE /\ replans = 0
      /\ status \in [Nodes -> Plan!NodeStatuses] /\ \A n \in Nodes : status[n] = "pending"
      /\ retryCount \in [Nodes -> 0 .. MaxRetries + 1] /\ \A n \in Nodes : retryCount[n] = 0
      /\ runs \in [Nodes -> Nat] /\ \A n \in Nodes : runs[n] = 0
  BY RuntimeBoundsAreNat DEF Plan!Init, Plan!NodeStatuses
<1>2. /\ dependencies \in Plan!Plans
      /\ replanned \in [removed : SUBSET Nodes, kept : SUBSET Nodes]
      /\ replans \in 0 .. MaxReplans
  BY RuntimeBoundsAreNat DEF Plan!Init
<1>3. Plan!TypeOK
  BY <1>1, <1>2 DEF Plan!TypeOK, Plan!GraphStatuses
<1>4. \A n \in Nodes : NodeInv(n)
  BY <1>1, RuntimeBoundsAreNat DEF NodeInv
<1>5. Plan!CompletedGraphsRan
  BY <1>1, RuntimeBoundsAreNat DEF Plan!CompletedGraphsRan
<1> QED BY <1>1, <1>3, <1>4, <1>5 DEF PlanInv

\* The invariant needs no more than its parts after a step.
LEMMA PlanMoves ==
  ASSUME Plan!TypeOK', \A n \in Nodes : NodeInv(n)',
         graph' = "completed" => ~cancelled' /\ \A n \in Nodes : status'[n] = "completed",
         executor' = "node" => current' \in Nodes,
         cancelled' => graph' = "cancelled"
  PROVE  PlanInv'
<1>1. ASSUME NEW n \in Nodes, status'[n] = "completed" PROVE dependencies'[n] \subseteq Nodes
  BY <1>1 DEF NodeInv
<1>2. Plan!CompletedGraphsRan'
  BY <1>1 DEF NodeInv, Plan!CompletedGraphsRan, Plan!AllNodes
<1> QED BY <1>2 DEF PlanInv

LEMMA ExecuteNodeKeeps == PlanInv /\ Plan!ExecuteNode => PlanInv'
<1> SUFFICES ASSUME PlanInv, Plan!ExecuteNode PROVE PlanInv'
  OBVIOUS
<1>1. PICK n \in Plan!ReadyNodes :
        /\ status' = [status EXCEPT ![n] = "running"]
        /\ runs' = [runs EXCEPT ![n] = @ + 1]
        /\ current' = n
  BY DEF Plan!ExecuteNode
<1>2. /\ status \in [Nodes -> Plan!NodeStatuses] /\ runs \in [Nodes -> Nat]
      /\ retryCount \in [Nodes -> 0 .. MaxRetries + 1]
  BY DEF PlanInv, Plan!TypeOK
<1>3. /\ n \in Nodes /\ status[n] = "pending"
      /\ \A d \in dependencies[n] : d \in Nodes /\ status[d] = "completed"
  BY DEF Plan!ReadyNodes
<1>4. /\ graph = "running" /\ executor' = "node"
      /\ UNCHANGED <<dependencies, graph, retryCount, cancelled, replans, replanned>>
  BY DEF Plan!ExecuteNode
<1>5. /\ status'[n] = "running" /\ runs'[n] = runs[n] + 1
      /\ \A o \in Nodes \ {n} : status'[o] = status[o] /\ runs'[o] = runs[o]
      /\ status' \in [Nodes -> Plan!NodeStatuses] /\ runs' \in [Nodes -> Nat]
  BY <1>1, <1>2, <1>3 DEF Plan!NodeStatuses
<1>6. Plan!TypeOK'
  BY <1>1, <1>3, <1>4, <1>5 DEF PlanInv, Plan!TypeOK
<1>7. ASSUME NEW o \in Nodes PROVE NodeInv(o)'
  <2>1. NodeInv(o) /\ NodeInv(n)
    BY <1>3 DEF PlanInv
  <2>2. CASE o = n
    <3>1. runs'[n] = retryCount[n] + 1 /\ retryCount[n] <= MaxRetries
      BY <1>3, <1>5, <2>1 DEF NodeInv
    <3>2. \A d \in dependencies[n] : d \in Nodes /\ status'[d] = "completed"
      BY <1>3, <1>5
    <3> QED BY <1>2, <1>4, <1>5, <2>1, <2>2, <3>1, <3>2, RuntimeBoundsAreNat DEF NodeInv
  <2>3. CASE o # n
    <3>1. status'[o] = status[o] /\ runs'[o] = runs[o] /\ current' # o
      BY <1>1, <1>5, <2>3
    <3>2. runs[o] > 0 => \A d \in dependencies[o] : d \in Nodes /\ status'[d] = "completed"
      BY <1>3, <1>5, <2>1 DEF NodeInv
    <3>3. status[o] = "blocked" => \E d \in Nodes : status'[d] = "failed"
      BY <1>3, <1>5, <2>1 DEF NodeInv
    <3> QED BY <1>4, <2>1, <3>1, <3>2, <3>3 DEF NodeInv
  <2> QED BY <2>2, <2>3
<1> QED BY <1>1, <1>3, <1>4, <1>6, <1>7, PlanMoves DEF PlanInv

\* The node that runs.
LEMMA RunningNode ==
  ASSUME PlanInv, executor = "node"
  PROVE  /\ current \in Nodes /\ status[current] \in {"running", "cancelled"}
         /\ runs[current] = retryCount[current] + 1 /\ retryCount[current] <= MaxRetries
         /\ \A d \in dependencies[current] : d \in Nodes /\ status[d] = "completed"
         /\ graph # "completed"
<1>1. current \in Nodes /\ NodeInv(current)
  BY DEF PlanInv
<1>2. retryCount[current] \in Nat
  BY <1>1, RuntimeBoundsAreNat DEF PlanInv, Plan!TypeOK
<1>3. graph # "completed"
  BY <1>1 DEF PlanInv, NodeInv, Plan!CompletedGraphsRan, Plan!AllNodes
<1> QED BY <1>1, <1>2, <1>3 DEF NodeInv

LEMMA NodeSucceedsKeeps == PlanInv /\ Plan!NodeSucceeds => PlanInv'
<1> SUFFICES ASSUME PlanInv, Plan!NodeSucceeds PROVE PlanInv'
  OBVIOUS
<1>1. /\ executor = "node" /\ status' = [status EXCEPT ![current] = "completed"]
      /\ executor' = "loop" /\ current' = 0
      /\ UNCHANGED <<dependencies, graph, retryCount, runs, cancelled, replans, replanned>>
  BY DEF Plan!NodeSucceeds
<1>2. /\ current \in Nodes /\ status[current] \in {"running", "cancelled"}
      /\ runs[current] = retryCount[current] + 1 /\ retryCount[current] <= MaxRetries
      /\ \A d \in dependencies[current] : d \in Nodes /\ status[d] = "completed"
      /\ graph # "completed"
  BY <1>1, RunningNode
<1>3. /\ status'[current] = "completed" /\ status' \in [Nodes -> Plan!NodeStatuses]
      /\ \A o \in Nodes \ {current} : status'[o] = status[o]
  BY <1>1, <1>2 DEF PlanInv, Plan!TypeOK, Plan!NodeStatuses
<1>4. Plan!TypeOK'
  BY <1>1, <1>3 DEF PlanInv, Plan!TypeOK
<1>5. ASSUME NEW o \in Nodes PROVE NodeInv(o)'
  <2>1. NodeInv(o) /\ retryCount[o] \in Nat /\ runs[o] \in Nat
    BY RuntimeBoundsAreNat DEF PlanInv, Plan!TypeOK
  <2>2. \A d \in Nodes : status[d] = "completed" => status'[d] = "completed"
    BY <1>3
  <2>3. \A d \in Nodes : status[d] = "failed" => status'[d] = "failed"
    BY <1>2, <1>3
  <2>4. CASE o = current
    BY <1>1, <1>2, <1>3, <2>1, <2>2, <2>4, RuntimeBoundsAreNat DEF NodeInv
  <2>5. CASE o # current
    BY <1>1, <1>3, <2>1, <2>2, <2>3, <2>5 DEF NodeInv
  <2> QED BY <2>4, <2>5
<1> QED BY <1>1, <1>2, <1>4, <1>5, PlanMoves DEF PlanInv

LEMMA NodeFailsKeeps == PlanInv /\ Plan!NodeFails => PlanInv'
<1> SUFFICES ASSUME PlanInv, Plan!NodeFails PROVE PlanInv'
  OBVIOUS
<1>1. /\ executor = "node" /\ retryCount' = [retryCount EXCEPT ![current] = @ + 1]
      /\ executor' = "loop" /\ current' = 0
      /\ UNCHANGED <<dependencies, graph, runs, cancelled, replans, replanned>>
  BY DEF Plan!NodeFails
<1>2. /\ current \in Nodes /\ status[current] \in {"running", "cancelled"}
      /\ runs[current] = retryCount[current] + 1 /\ retryCount[current] <= MaxRetries
      /\ \A d \in dependencies[current] : d \in Nodes /\ status[d] = "completed"
      /\ graph # "completed"
  BY <1>1, RunningNode
<1>3. /\ status \in [Nodes -> Plan!NodeStatuses] /\ runs \in [Nodes -> Nat]
      /\ retryCount \in [Nodes -> 0 .. MaxRetries + 1]
  BY DEF PlanInv, Plan!TypeOK
<1>4. /\ retryCount'[current] = retryCount[current] + 1
      /\ \A o \in Nodes \ {current} : retryCount'[o] = retryCount[o]
      /\ retryCount' \in [Nodes -> 0 .. MaxRetries + 1]
  <2>1. retryCount[current] + 1 \in 0 .. MaxRetries + 1
    BY <1>2, <1>3, RuntimeBoundsAreNat
  <2> QED BY <1>1, <1>2, <1>3, <2>1
<1>5. /\ status' \in [Nodes -> Plan!NodeStatuses]
      /\ \/ status'[current] = "pending" /\ retryCount[current] + 1 <= MaxRetries
         \/ status'[current] = "failed"
      /\ \A o \in Nodes \ {current} :
           \/ status'[o] = status[o]
           \/ status[o] = "pending" /\ status'[o] = "blocked" /\ status'[current] = "failed"
  <2>1. CASE Plan!MayRetry(current)
    <3>1. status' = [status EXCEPT ![current] = "pending"]
      BY <2>1 DEF Plan!NodeFails
    <3> QED BY <1>2, <1>3, <2>1, <3>1 DEF Plan!MayRetry, Plan!NodeStatuses
  <2>2. CASE ~Plan!MayRetry(current)
    <3>1. status' = [n \in Nodes |->
                      CASE n \in Plan!Dependents(current) /\ status[n] = "pending" -> "blocked"
                        [] n = current -> "failed"
                        [] OTHER -> status[n]]
      BY <2>2 DEF Plan!NodeFails
    <3>2. status'[current] = "failed"
      BY <1>2, <3>1
    <3>3. ASSUME NEW o \in Nodes \ {current}
          PROVE  \/ status'[o] = status[o]
                 \/ status[o] = "pending" /\ status'[o] = "blocked"
      BY <3>1
    <3>4. \A o \in Nodes : status'[o] \in Plan!NodeStatuses
      BY <1>3, <3>2, <3>3 DEF Plan!NodeStatuses
    <3> QED BY <3>1, <3>2, <3>3, <3>4
  <2> QED BY <2>1, <2>2
<1>6. Plan!TypeOK'
  BY <1>1, <1>4, <1>5 DEF PlanInv, Plan!TypeOK
<1>7. ASSUME NEW o \in Nodes PROVE NodeInv(o)'
  <2>1. NodeInv(o) /\ retryCount[o] \in Nat /\ runs[o] \in Nat
    BY RuntimeBoundsAreNat DEF PlanInv, Plan!TypeOK
  <2>2. \A d \in Nodes : status[d] = "completed" => status'[d] = "completed"
    BY <1>2, <1>5
  <2>3. \A d \in Nodes : status[d] = "failed" => status'[d] = "failed"
    BY <1>2, <1>5
  <2>4. CASE o = current
    BY <1>1, <1>2, <1>4, <1>5, <2>1, <2>2, <2>4, RuntimeBoundsAreNat DEF NodeInv
  <2>5. CASE o # current /\ status'[o] = status[o]
    BY <1>1, <1>4, <2>1, <2>2, <2>3, <2>5 DEF NodeInv
  <2>6. CASE o # current /\ status'[o] = "blocked" /\ status'[current] = "failed"
    BY <1>1, <1>2, <1>4, <2>1, <2>2, <2>6 DEF NodeInv
  <2> QED BY <1>5, <2>4, <2>5, <2>6
<1> QED BY <1>1, <1>2, <1>6, <1>7, PlanMoves DEF PlanInv

LEMMA ExecuteReturnsKeeps == PlanInv /\ Plan!ExecuteReturns => PlanInv'
<1> SUFFICES ASSUME PlanInv, Plan!ExecuteReturns PROVE PlanInv'
  OBVIOUS
<1>1. /\ graph' = IF graph = "cancelled" THEN graph ELSE Plan!FinalStatus
      /\ executor' = "returned"
      /\ UNCHANGED <<dependencies, status, retryCount, current, runs, cancelled, replans, replanned>>
  BY DEF Plan!ExecuteReturns
<1>2. graph' \in Plan!GraphStatuses
  BY <1>1 DEF PlanInv, Plan!TypeOK, Plan!FinalStatus, Plan!GraphStatuses
<1>3. Plan!TypeOK'
  BY <1>1, <1>2 DEF PlanInv, Plan!TypeOK
<1>4. \A n \in Nodes : NodeInv(n)'
  BY <1>1 DEF PlanInv, NodeInv
<1>5. cancelled' => graph' = "cancelled"
  BY <1>1 DEF PlanInv
<1>6. ASSUME graph' = "completed"
      PROVE  ~cancelled' /\ \A n \in Nodes : status'[n] = "completed"
  <2>1. CASE graph = "completed"
    BY <1>1, <2>1 DEF PlanInv, Plan!CompletedGraphsRan, Plan!AllNodes
  <2>2. CASE graph # "completed"
    <3>1. /\ \A n \in Nodes : status[n] \in {"completed", "failed", "blocked"}
          /\ \A n \in Nodes : status[n] # "failed"
      BY <1>1, <1>6, <2>2 DEF Plan!FinalStatus, Plan!SomeNode, Plan!AllNodes
    <3>2. \A n \in Nodes : status[n] # "blocked"
      BY <3>1 DEF PlanInv, NodeInv
    <3> QED BY <1>1, <1>5, <1>6, <3>1, <3>2
  <2> QED BY <2>1, <2>2
<1> QED BY <1>1, <1>3, <1>4, <1>5, <1>6, PlanMoves

LEMMA CancelExecutionKeeps == PlanInv /\ Plan!CancelExecution => PlanInv'
<1> SUFFICES ASSUME PlanInv, Plan!CancelExecution PROVE PlanInv'
  OBVIOUS
<1>1. /\ graph' = "cancelled" /\ cancelled' = TRUE
      /\ status' = [n \in Nodes |-> IF status[n] \in {"pending", "running"} THEN "cancelled"
                                    ELSE status[n]]
      /\ UNCHANGED <<dependencies, retryCount, executor, current, runs, replans, replanned>>
  BY DEF Plan!CancelExecution
<1>2. /\ status' \in [Nodes -> Plan!NodeStatuses]
      /\ \A n \in Nodes : \/ status'[n] = status[n]
                          \/ status[n] \in {"pending", "running"} /\ status'[n] = "cancelled"
  BY <1>1 DEF PlanInv, Plan!TypeOK, Plan!NodeStatuses
<1>3. Plan!TypeOK'
  BY <1>1, <1>2 DEF PlanInv, Plan!TypeOK, Plan!GraphStatuses
<1>4. ASSUME NEW o \in Nodes PROVE NodeInv(o)'
  <2>1. NodeInv(o)
    BY DEF PlanInv
  <2>2. /\ \A d \in Nodes : status[d] = "completed" => status'[d] = "completed"
        /\ \A d \in Nodes : status[d] = "failed" => status'[d] = "failed"
    BY <1>2
  <2>3. CASE status'[o] = status[o]
    BY <1>1, <2>1, <2>2, <2>3 DEF NodeInv
  <2>4. CASE status[o] \in {"pending", "running"} /\ status'[o] = "cancelled"
    BY <1>1, <2>1, <2>2, <2>4 DEF NodeInv
  <2> QED BY <1>2, <2>3, <2>4
<1> QED BY <1>1, <1>3, <1>4, PlanMoves DEF PlanInv

LEMMA PlanStutters ==
  ASSUME PlanInv,
         UNCHANGED <<dependencies, graph, status, retryCount, executor, current, runs, cancelled>>,
         replans' \in 0 .. MaxReplans,
         replanned' \in [removed : SUBSET Nodes, kept : SUBSET Nodes]
  PROVE  PlanInv'
<1>1. Plan!TypeOK'
  BY DEF PlanInv, Plan!TypeOK
<1>2. \A n \in Nodes : NodeInv(n)'
  BY DEF PlanInv, NodeInv
<1> QED BY <1>1, <1>2, PlanMoves DEF PlanInv, Plan!CompletedGraphsRan, Plan!AllNodes

LEMMA PlanKeeps == PlanInv /\ Plan!Next => PlanInv'
<1> SUFFICES ASSUME PlanInv, Plan!Next PROVE PlanInv'
  OBVIOUS
<1>1. CASE Plan!RequestReplan({n \in Nodes : status[n] = "failed"})
  <2>1. /\ replans < MaxReplans /\ replans' = replans + 1
        /\ replanned' = [removed |-> {n \in Nodes : status[n] = "failed"}, kept |-> Nodes]
        /\ UNCHANGED <<dependencies, graph, status, retryCount, executor, current, runs, cancelled>>
    BY <1>1 DEF Plan!RequestReplan, Plan!ReplannedGraph
  <2>2. replans' \in 0 .. MaxReplans
    BY <2>1, RuntimeBoundsAreNat DEF PlanInv, Plan!TypeOK
  <2>3. replanned' \in [removed : SUBSET Nodes, kept : SUBSET Nodes]
    BY <2>1
  <2> QED BY <2>1, <2>2, <2>3, PlanStutters
<1> QED BY <1>1, ExecuteNodeKeeps, NodeSucceedsKeeps, NodeFailsKeeps, ExecuteReturnsKeeps,
           CancelExecutionKeeps DEF Plan!Next, Plan!ExecutorStep

-----------------------------------------------------------------------------
(* TaskRuntime: the inductive invariant.                                   *)

Occurrences(s, v) == {i \in DOMAIN s : s[i] = v}

Finished == {r \in TaskRuns : run[r].machine = "Done"}

TaskInv ==
    /\ Task!TypeOK
    /\ events \in Seq({"started", "completed", "failed", "cancelled"})
    /\ Cardinality(Occurrences(events, "completed")) = Cardinality(Finished)
    /\ \A r \in TaskRuns :
         /\ Cardinality(Occurrences(output, r)) = run[r].chunks
         /\ run[r].at = "no" => run[r].machine = "Idle"
         /\ run[r].at = "planning" => run[r].machine = "Planning"
         /\ run[r].at = "streaming" => run[r].machine = "Streaming"
         /\ run[r].machine = "Done" => run[r].at = "ended" /\ run[r].chunks = Chunks

EventNames == {"started", "completed", "failed", "cancelled"}

LEMMA OccurrencesAppended ==
  ASSUME NEW S, NEW s \in Seq(S), NEW e \in S, NEW v
  PROVE  /\ Cardinality(Occurrences(s, v)) \in Nat
         /\ e = v => Cardinality(Occurrences(Append(s, e), v)) = Cardinality(Occurrences(s, v)) + 1
         /\ e # v => Cardinality(Occurrences(Append(s, e), v)) = Cardinality(Occurrences(s, v))
<1>1. PICK a : a = Append(s, e)
  OBVIOUS
<1>2. /\ Len(s) \in Nat /\ DOMAIN s = 1 .. Len(s) /\ DOMAIN a = 1 .. Len(s) + 1
      /\ \A i \in 1 .. Len(s) : a[i] = s[i]
      /\ a[Len(s) + 1] = e
  BY <1>1
<1>3. IsFiniteSet(Occurrences(s, v)) /\ Len(s) + 1 \notin Occurrences(s, v)
  <2>1. IsFiniteSet(1 .. Len(s))
    <3>1. 1 \in Int /\ Len(s) \in Int
      BY <1>2
    <3> QED BY ONLY <3>1, FS_Interval
  <2>2. Occurrences(s, v) \subseteq 1 .. Len(s)
    BY <1>2 DEF Occurrences
  <2> QED BY <1>2, <2>1, <2>2, FS_Subset
<1>4. CASE e = v
  <2>1. Occurrences(a, v) = Occurrences(s, v) \cup {Len(s) + 1}
    BY <1>2, <1>4 DEF Occurrences
  <2> QED BY <1>1, <1>3, <1>4, <2>1, FS_AddElement, FS_CardinalityType
<1>5. CASE e # v
  <2>1. Occurrences(a, v) = Occurrences(s, v)
    BY <1>2, <1>5 DEF Occurrences
  <2> QED BY <1>1, <1>3, <1>5, <2>1, FS_CardinalityType
<1> QED BY <1>4, <1>5

LEMMA NoOccurrences == \A v : Cardinality(Occurrences(<<>>, v)) = 0
<1> SUFFICES ASSUME NEW v PROVE Cardinality(Occurrences(<<>>, v)) = 0
  OBVIOUS
<1>1. Occurrences(<<>>, v) = {}
  BY DEF Occurrences
<1> QED BY <1>1, FS_EmptySet

TaskMachines == {"Idle", "Planning", "CallingModel", "Streaming", "Done", "Failed", "Cancelled"}

LEMMA TransitionFacts ==
  /\ DOMAIN Task!TaskTransitions = TaskMachines
  /\ Task!CanTransition("CallingModel", "Failed") /\ Task!CanTransition("Streaming", "Failed")
BY DEF Task!TaskTransitions, Task!CanTransition, TaskMachines

RunRecord == [at : {"no", "planning", "streaming", "ended", "rejected"},
              machine : TaskMachines, chunks : 0 .. Chunks]

\* What the invariant says of one call of runTask, whose record is n.
Sound(n) ==
    /\ n.at = "no" => n.machine = "Idle"
    /\ n.at = "planning" => n.machine = "Planning"
    /\ n.at = "streaming" => n.machine = "Streaming"
    /\ n.machine = "Done" => n.at = "ended" /\ n.chunks = Chunks

LEMMA TaskFacts ==
  ASSUME TaskInv
  PROVE  /\ taskStatus \in TaskMachines
         /\ output \in Seq(TaskRuns) /\ events \in Seq(EventNames) /\ run \in [TaskRuns -> RunRecord]
         /\ Cardinality(Occurrences(events, "completed")) = Cardinality(Finished)
         /\ \A r \in TaskRuns : Sound(run[r]) /\ Cardinality(Occurrences(output, r)) = run[r].chunks
BY TransitionFacts DEF TaskInv, Task!TypeOK, EventNames, RunRecord, Sound

LEMMA TaskHolds ==
  ASSUME taskStatus \in TaskMachines,
         output \in Seq(TaskRuns), events \in Seq(EventNames), run \in [TaskRuns -> RunRecord],
         Cardinality(Occurrences(events, "completed")) = Cardinality(Finished),
         \A r \in TaskRuns : Sound(run[r]) /\ Cardinality(Occurrences(output, r)) = run[r].chunks
  PROVE  TaskInv
BY TransitionFacts DEF TaskInv, Task!TypeOK, EventNames, RunRecord, Sound

LEMMA TaskInit == Task!Init => TaskInv
<1> SUFFICES ASSUME Task!Init PROVE TaskInv
  OBVIOUS
<1>1. /\ taskStatus = "Idle" /\ output = <<>> /\ events = <<>>
      /\ run = [r \in TaskRuns |-> [at |-> "no", machine |-> "Idle", chunks |-> 0]]
  BY DEF Task!Init
<1>2. run \in [TaskRuns -> RunRecord]
  BY <1>1, RuntimeBoundsAreNat DEF RunRecord, TaskMachines
<1>3. Finished = {}
  BY <1>1 DEF Finished
<1>4. /\ Cardinality(Occurrences(events, "completed")) = 0 /\ Cardinality(Finished) = 0
      /\ \A r \in TaskRuns : Sound(run[r]) /\ Cardinality(Occurrences(output, r)) = run[r].chunks
  BY <1>1, <1>3, NoOccurrences, FS_EmptySet DEF Sound
<1> QED BY <1>1, <1>2, <1>4, TaskHolds DEF TaskMachines

\* One call of runTask goes on, and has not finished before.
LEMMA RunMoves ==
  ASSUME TaskInv, NEW r \in TaskRuns, NEW n \in RunRecord, run' = [run EXCEPT ![r] = n],
         run[r].machine # "Done", Sound(n),
         taskStatus' \in TaskMachines, events' \in Seq(EventNames), output' \in Seq(TaskRuns),
         n.machine # "Done" => Cardinality(Occurrences(events', "completed"))
                                 = Cardinality(Occurrences(events, "completed")),
         n.machine = "Done" => Cardinality(Occurrences(events', "completed"))
                                 = Cardinality(Occurrences(events, "completed")) + 1,
         Cardinality(Occurrences(output', r)) = n.chunks,
         \A o \in TaskRuns \ {r} :
           Cardinality(Occurrences(output', o)) = Cardinality(Occurrences(output, o))
  PROVE  TaskInv'
<1>1. /\ run \in [TaskRuns -> RunRecord]
      /\ Cardinality(Occurrences(events, "completed")) = Cardinality(Finished)
      /\ \A o \in TaskRuns : Sound(run[o]) /\ Cardinality(Occurrences(output, o)) = run[o].chunks
  BY TaskFacts
<1>2. /\ run' \in [TaskRuns -> RunRecord] /\ run'[r] = n
      /\ \A o \in TaskRuns \ {r} : run'[o] = run[o]
  BY <1>1
<1>3. IsFiniteSet(Finished) /\ r \notin Finished
  BY RunsAreFew, FS_Subset DEF Finished
<1>4. Cardinality(Occurrences(events', "completed")) = Cardinality(Finished')
  <2>1. CASE n.machine = "Done"
    <3>1. Finished' = Finished \cup {r}
      BY <1>2, <2>1 DEF Finished
    <3>2. Cardinality(Finished \cup {r}) = Cardinality(Finished) + 1
      BY ONLY <1>3, FS_AddElement
    <3>3. Cardinality(Occurrences(events', "completed"))
            = Cardinality(Occurrences(events, "completed")) + 1
      BY <2>1
    <3> QED BY <1>1, <3>1, <3>2, <3>3
  <2>2. CASE n.machine # "Done"
    <3>1. Finished' = Finished
      BY <1>2, <2>2 DEF Finished
    <3> QED BY <1>1, <2>2, <3>1
  <2> QED BY <2>1, <2>2
<1>5. \A o \in TaskRuns :
        Sound(run'[o]) /\ Cardinality(Occurrences(output', o)) = run'[o].chunks
  BY <1>1, <1>2
<1>6. /\ Task!TypeOK'
      /\ events' \in Seq({"started", "completed", "failed", "cancelled"})
  BY <1>2, TransitionFacts DEF Task!TypeOK, RunRecord, EventNames
<1>7. Cardinality(Occurrences(events, "completed"))' = Cardinality(Finished)'
  BY <1>4 DEF Occurrences
<1>8. \A o \in TaskRuns : Cardinality(Occurrences(output, o))' = run'[o].chunks
  BY <1>5 DEF Occurrences
<1> QED BY <1>5, <1>6, <1>7, <1>8 DEF TaskInv, Sound

\* An event that is not the completion does not count as one.
LEMMA Told ==
  ASSUME NEW s \in Seq(EventNames), NEW e \in EventNames \ {"completed"}
  PROVE  /\ Append(s, e) \in Seq(EventNames)
         /\ Cardinality(Occurrences(Append(s, e), "completed"))
              = Cardinality(Occurrences(s, "completed"))
BY OccurrencesAppended

LEMMA FailKeeps ==
  ASSUME TaskInv, NEW r \in TaskRuns, NEW machine \in TaskMachines, NEW told \in Seq(EventNames),
         Cardinality(Occurrences(told, "completed"))
           = Cardinality(Occurrences(events, "completed")),
         Task!Fail(r, machine, told), run[r].at # "ended" => run[r].machine # "Done",
         run[r].at \in {"no", "planning", "streaming"}, UNCHANGED output
  PROVE  TaskInv'
<1>1. /\ taskStatus \in TaskMachines /\ run \in [TaskRuns -> RunRecord] /\ output \in Seq(TaskRuns)
      /\ \A o \in TaskRuns : Sound(run[o]) /\ Cardinality(Occurrences(output, o)) = run[o].chunks
  BY TaskFacts
<1>2. run[r] \in RunRecord /\ run[r].machine # "Done"
  BY <1>1
<1>3. CASE Task!CanTransition(machine, "Failed")
  <2>1. /\ run' = [run EXCEPT ![r].machine = "Failed", ![r].at = "ended"]
        /\ taskStatus' = "Failed" /\ events' = told \o <<"failed">>
    BY <1>3 DEF Task!Fail, Task!Transition
  <2>2. PICK n : n = [run[r] EXCEPT !.machine = "Failed", !.at = "ended"]
    OBVIOUS
  <2>3. n \in RunRecord /\ Sound(n) /\ n.machine = "Failed" /\ n.chunks = run[r].chunks
    BY <1>2, <2>2 DEF RunRecord, TaskMachines, Sound
  <2>4. run' = [run EXCEPT ![r] = n]
    BY <1>1, <2>1, <2>2
  <2>5. events' = Append(told, "failed")
    BY <2>1 DEF EventNames
  <2>6. /\ events' \in Seq(EventNames)
        /\ Cardinality(Occurrences(events', "completed"))
             = Cardinality(Occurrences(events, "completed"))
    BY <2>5, Told DEF EventNames
  <2>7. taskStatus' \in TaskMachines
    BY <2>1 DEF TaskMachines
  <2> QED BY <1>1, <1>2, <2>3, <2>4, <2>6, <2>7, RunMoves
<1>4. CASE ~Task!CanTransition(machine, "Failed")
  <2>1. /\ run' = [run EXCEPT ![r].at = "rejected"] /\ taskStatus' = taskStatus /\ events' = told
    BY <1>4 DEF Task!Fail
  <2>2. PICK n : n = [run[r] EXCEPT !.at = "rejected"]
    OBVIOUS
  <2>3. n \in RunRecord /\ Sound(n) /\ n.machine = run[r].machine /\ n.chunks = run[r].chunks
    BY <1>2, <2>2 DEF RunRecord, Sound
  <2>4. run' = [run EXCEPT ![r] = n]
    BY <1>1, <2>1, <2>2
  <2> QED BY <1>1, <1>2, <2>1, <2>3, <2>4, RunMoves
<1> QED BY <1>3, <1>4

LEMMA TaskKeeps == TaskInv /\ Task!Next => TaskInv'
<1> SUFFICES ASSUME TaskInv, Task!Next PROVE TaskInv'
  OBVIOUS
<1>1. /\ taskStatus \in TaskMachines /\ run \in [TaskRuns -> RunRecord] /\ output \in Seq(TaskRuns)
      /\ events \in Seq(EventNames)
      /\ Cardinality(Occurrences(events, "completed")) = Cardinality(Finished)
      /\ \A r \in TaskRuns : Sound(run[r]) /\ Cardinality(Occurrences(output, r)) = run[r].chunks
  BY TaskFacts
<1>2. ASSUME NEW r \in TaskRuns, Task!RunTask(r) PROVE TaskInv'
  <2>1. run[r].at = "no" /\ run[r].machine = "Idle" /\ UNCHANGED output /\ run[r] \in RunRecord
    BY <1>1, <1>2 DEF Task!RunTask, Sound
  <2>2. /\ Append(events, "started") \in Seq(EventNames)
        /\ Cardinality(Occurrences(Append(events, "started"), "completed"))
             = Cardinality(Occurrences(events, "completed"))
    BY <1>1, Told DEF EventNames
  <2>3. CASE Task!CanTransition(taskStatus, "Planning")
    <3>1. /\ run' = [run EXCEPT ![r].machine = "Planning", ![r].at = "planning"]
          /\ taskStatus' = "Planning" /\ events' = Append(events, "started")
      BY <1>2, <2>3 DEF Task!RunTask, Task!Transition
    <3>2. PICK n : n = [run[r] EXCEPT !.machine = "Planning", !.at = "planning"]
      OBVIOUS
    <3>3. n \in RunRecord /\ Sound(n) /\ n.machine = "Planning" /\ n.chunks = run[r].chunks
      BY <2>1, <3>2 DEF RunRecord, TaskMachines, Sound
    <3>4. run' = [run EXCEPT ![r] = n] /\ taskStatus' \in TaskMachines
      BY <1>1, <3>1, <3>2 DEF TaskMachines
    <3> QED BY <1>1, <2>1, <2>2, <3>1, <3>3, <3>4, RunMoves
  <2>4. CASE ~Task!CanTransition(taskStatus, "Planning")
    <3>1. Task!Fail(r, taskStatus, Append(events, "started"))
      BY <1>2, <2>4 DEF Task!RunTask
    <3> QED BY <1>1, <2>1, <2>2, <3>1, FailKeeps
  <2> QED BY <2>3, <2>4
<1>3. ASSUME NEW r \in TaskRuns, NEW registered \in BOOLEAN, Task!CallModel(r, registered) PROVE TaskInv'
  <2>1. run[r].at = "planning" /\ run[r].machine = "Planning" /\ UNCHANGED output /\ run[r] \in RunRecord
    BY <1>1, <1>3 DEF Task!CallModel, Sound
  <2>2. CASE registered
    <3>1. /\ run' = [run EXCEPT ![r].machine = "Streaming", ![r].at = "streaming"]
          /\ taskStatus' = "Streaming" /\ events' = events
      BY <1>3, <2>2 DEF Task!CallModel, Task!Transition
    <3>2. PICK n : n = [run[r] EXCEPT !.machine = "Streaming", !.at = "streaming"]
      OBVIOUS
    <3>3. n \in RunRecord /\ Sound(n) /\ n.machine = "Streaming" /\ n.chunks = run[r].chunks
      BY <2>1, <3>2 DEF RunRecord, TaskMachines, Sound
    <3>4. run' = [run EXCEPT ![r] = n] /\ taskStatus' \in TaskMachines
      BY <1>1, <3>1, <3>2 DEF TaskMachines
    <3> QED BY <1>1, <2>1, <3>1, <3>3, <3>4, RunMoves
  <2>3. CASE ~registered
    <3>1. Task!Fail(r, "CallingModel", events)
      BY <1>3, <2>3 DEF Task!CallModel
    <3> QED BY <1>1, <2>1, <3>1, FailKeeps DEF TaskMachines
  <2> QED BY <2>2, <2>3
<1>4. ASSUME NEW r \in TaskRuns, Task!Chunk(r) PROVE TaskInv'
  <2>1. /\ run[r].at = "streaming" /\ run[r].machine = "Streaming" /\ run[r].chunks < Chunks
        /\ run[r] \in RunRecord /\ run' = [run EXCEPT ![r].chunks = @ + 1]
        /\ output' = Append(output, r) /\ UNCHANGED <<taskStatus, events>>
    BY <1>1, <1>4 DEF Task!Chunk, Sound
  <2>2. PICK n : n = [run[r] EXCEPT !.chunks = @ + 1]
    OBVIOUS
  <2>3. run[r].chunks \in 0 .. Chunks
    BY <2>1 DEF RunRecord
  <2>4. run[r].chunks + 1 \in 0 .. Chunks
    <3>1. PICK m \in 0 .. Chunks : m = run[r].chunks /\ m < Chunks
      BY <2>1, <2>3
    <3>2. m + 1 \in 0 .. Chunks
      BY <3>1, RuntimeBoundsAreNat
    <3> QED BY <3>1, <3>2
  <2>5. /\ n \in RunRecord /\ n.chunks = run[r].chunks + 1
        /\ n.at = "streaming" /\ n.machine = "Streaming"
    BY <2>1, <2>2, <2>4 DEF RunRecord
  <2>6. Sound(n)
    BY <2>5 DEF Sound
  <2>7. run' = [run EXCEPT ![r] = n]
    BY <1>1, <2>1, <2>2
  <2>8. /\ output' \in Seq(TaskRuns) /\ Cardinality(Occurrences(output', r)) = n.chunks
        /\ \A o \in TaskRuns \ {r} :
             Cardinality(Occurrences(output', o)) = Cardinality(Occurrences(output, o))
    BY <1>1, <2>1, <2>5, OccurrencesAppended
  <2> QED BY <1>1, <2>1, <2>5, <2>6, <2>7, <2>8, RunMoves
<1>5. ASSUME NEW r \in TaskRuns, Task!StreamEnds(r) PROVE TaskInv'
  <2>1. /\ run[r].at = "streaming" /\ run[r].machine = "Streaming" /\ run[r].chunks = Chunks
        /\ run[r] \in RunRecord
        /\ run' = [run EXCEPT ![r].machine = "Done", ![r].at = "ended"]
        /\ taskStatus' = "Done" /\ events' = Append(events, "completed") /\ UNCHANGED output
    BY <1>1, <1>5 DEF Task!StreamEnds, Task!StreamIsOver, Task!Transition, Sound
  <2>2. PICK n : n = [run[r] EXCEPT !.machine = "Done", !.at = "ended"]
    OBVIOUS
  <2>3. n \in RunRecord /\ Sound(n) /\ n.machine = "Done" /\ n.chunks = run[r].chunks
    BY <2>1, <2>2 DEF RunRecord, TaskMachines, Sound
  <2>4. run' = [run EXCEPT ![r] = n] /\ taskStatus' \in TaskMachines
    BY <1>1, <2>1, <2>2 DEF TaskMachines
  <2>5. /\ events' \in Seq(EventNames)
        /\ Cardinality(Occurrences(events', "completed"))
             = Cardinality(Occurrences(events, "completed")) + 1
    <3>1. "completed" \in EventNames
      BY DEF EventNames
    <3>2. Append(events, "completed") \in Seq(EventNames)
      BY <1>1, <3>1
    <3>3. Cardinality(Occurrences(Append(events, "completed"), "completed"))
            = Cardinality(Occurrences(events, "completed")) + 1
      BY <1>1, <3>1, OccurrencesAppended
    <3> QED BY <2>1, <3>2, <3>3
  <2> QED BY <1>1, <2>1, <2>3, <2>4, <2>5, RunMoves
<1>6. ASSUME NEW r \in TaskRuns, Task!StreamFails(r) PROVE TaskInv'
  <2>1. run[r].at = "streaming" /\ run[r].machine = "Streaming" /\ UNCHANGED output
    BY <1>1, <1>6 DEF Task!StreamFails, Sound
  <2>2. Task!Fail(r, "Streaming", events)
    BY <1>6, <2>1 DEF Task!StreamFails
  <2> QED BY <1>1, <2>1, <2>2, FailKeeps DEF TaskMachines
<1>7. CASE Task!CancelTask
  <2>1. /\ taskStatus' = "Cancelled" /\ events' = Append(events, "cancelled")
        /\ UNCHANGED <<output, run>>
    BY <1>7 DEF Task!CancelTask
  <2>2. /\ events' \in Seq(EventNames)
        /\ Cardinality(Occurrences(events', "completed"))
             = Cardinality(Occurrences(events, "completed"))
    BY <1>1, <2>1, Told DEF EventNames
  <2>3. Finished' = Finished
    BY <2>1 DEF Finished
  <2>4. Task!TypeOK' /\ events' \in Seq({"started", "completed", "failed", "cancelled"})
    BY <1>1, <2>1, <2>2, TransitionFacts DEF Task!TypeOK, RunRecord, EventNames, TaskMachines
  <2>5. Cardinality(Occurrences(events, "completed"))' = Cardinality(Finished)'
    BY <1>1, <2>2, <2>3 DEF Occurrences
  <2>6. \A o \in TaskRuns : Cardinality(Occurrences(output, o))' = run'[o].chunks
    BY <1>1, <2>1 DEF Occurrences
  <2> QED BY <1>1, <2>1, <2>4, <2>5, <2>6 DEF TaskInv, Sound
<1> QED BY <1>2, <1>3, <1>4, <1>5, <1>6, <1>7 DEF Task!Next, Task!RunStep

LEMMA TaskStutters ==
  ASSUME TaskInv, UNCHANGED taskVars
  PROVE  TaskInv'
<1>1. UNCHANGED <<taskStatus, output, run, events>>
  BY DEF taskVars
<1> QED BY <1>1 DEF TaskInv, Task!TypeOK, Occurrences, Finished

\* The operator of FiniteSets is the same seen from the instance.
LEMMA TaskCounts == \A S : Task!Cardinality(S) = Cardinality(S)
BY DEF Task!Cardinality, Cardinality

LEMMA TaskSays == TaskInv => Task!TypeOK /\ Task!CompletionsAreEarned
<1> SUFFICES ASSUME TaskInv PROVE Task!TypeOK /\ Task!CompletionsAreEarned
  OBVIOUS
<1>1. Cardinality({i \in DOMAIN events : events[i] = "completed"})
        = Cardinality({r \in TaskRuns : run[r].machine = "Done"})
  BY DEF TaskInv, Occurrences, Finished
<1>2. ASSUME NEW r \in TaskRuns, run[r].machine = "Done"
      PROVE  Cardinality({i \in DOMAIN output : output[i] = r}) = Chunks
  BY <1>2 DEF TaskInv, Occurrences
<1>3. Task!CompletionsAreEarned
  <2>1. PICK done : done = {r \in TaskRuns : run[r].machine = "Done"}
    OBVIOUS
  <2>2. Cardinality({i \in DOMAIN events : events[i] = "completed"}) = Cardinality(done)
    BY <1>1, <2>1
  <2>3. \A r \in done : Cardinality({i \in DOMAIN output : output[i] = r}) = Chunks
    BY <1>2, <2>1
  <2> QED BY <2>1, <2>2, <2>3, TaskCounts, Zenon DEF Task!CompletionsAreEarned
<1>4. Task!TypeOK
  BY DEF TaskInv
<1> QED BY <1>3, <1>4

-----------------------------------------------------------------------------
(* CommandCatalog: the inductive invariant.                                *)

Running(k) == tool[k].at \in Catalog!InFlight

\* What the invariant says of a call.
ToolInv(k) ==
    /\ spawned[k] # "nothing" =>
         /\ tool[k].at \in {"running", "settled"}
         /\ spawned[k] = tool[k].digest \/ k \in edited
    /\ tool[k].at = "checked" => script = tool[k].digest \/ k \in edited
    /\ tool[k].stray => tool[k].at \in {"reading", "keeping", "done"} /\ tool[k].op # "recover"
    /\ Running(k) \/ tool[k].at \in {"pending", "stored"} => tool[k].digest # Nil
    /\ tool[k].op = "recover" => tool[k].digest # Nil

CatalogInv ==
    /\ Catalog!TypeOK
    /\ \A j, k \in Catalog!Live : j = k
    /\ \A k \in CommandCalls : ToolInv(k)

ToolRecord ==
    [at : Catalog!InFlight \cup {"no", "reading", "keeping", "pending", "stored", "done", "settled"},
     op : {"list", "resolve", "recover"}, found : Catalog!Texts, digest : Catalog!Texts,
     stray : BOOLEAN]

IsLive(n) == n.at \notin {"no", "stored", "done", "settled"} /\ ~n.stray /\ n.op # "recover"

LEMMA CatalogFacts ==
  ASSUME CatalogInv
  PROVE  /\ script \in Catalog!Texts /\ edits \in 0 .. MaxEdits
         /\ catalog \in [script : Catalog!Texts, cargo : BOOLEAN]
         /\ tool \in [CommandCalls -> ToolRecord]
         /\ asked \subseteq CommandCalls /\ flag \subseteq asked /\ edited \subseteq CommandCalls
         /\ spawned \in [CommandCalls -> Catalog!Texts \cup {"nothing"}]
         /\ \A j, k \in CommandCalls : IsLive(tool[j]) /\ IsLive(tool[k]) => j = k
         /\ \A k \in CommandCalls : ToolInv(k)
<1> USE DEF CatalogInv
<1>1. /\ tool \in [CommandCalls -> ToolRecord] /\ script \in Catalog!Texts
      /\ edits \in 0 .. MaxEdits /\ catalog \in [script : Catalog!Texts, cargo : BOOLEAN]
      /\ asked \subseteq CommandCalls /\ flag \subseteq asked /\ edited \subseteq CommandCalls
      /\ spawned \in [CommandCalls -> Catalog!Texts \cup {"nothing"}]
  BY DEF Catalog!TypeOK, ToolRecord
<1>2. \A j, k \in CommandCalls : IsLive(tool[j]) /\ IsLive(tool[k]) => j = k
  BY DEF Catalog!Live, IsLive
<1> QED BY <1>1, <1>2

LEMMA CatalogHolds ==
  ASSUME script' \in Catalog!Texts, edits' \in 0 .. MaxEdits,
         catalog' \in [script : Catalog!Texts, cargo : BOOLEAN],
         tool' \in [CommandCalls -> ToolRecord],
         asked' \subseteq CommandCalls, flag' \subseteq asked', edited' \subseteq CommandCalls,
         spawned' \in [CommandCalls -> Catalog!Texts \cup {"nothing"}],
         \A j, k \in CommandCalls : IsLive(tool'[j]) /\ IsLive(tool'[k]) => j = k,
         \A k \in CommandCalls : ToolInv(k)'
  PROVE  CatalogInv'
<1>1. Catalog!TypeOK'
  BY DEF Catalog!TypeOK, ToolRecord
<1>2. \A j, k \in Catalog!Live' : j = k
  BY DEF Catalog!Live, IsLive
<1> QED BY <1>1, <1>2 DEF CatalogInv

LEMMA CatalogInit == Catalog!Init => CatalogInv
<1> SUFFICES ASSUME Catalog!Init PROVE CatalogInv
  OBVIOUS
<1>1. /\ script \in Catalog!Texts /\ edits = 0 /\ catalog = [script |-> Nil, cargo |-> FALSE]
      /\ tool = [k \in CommandCalls |-> [at |-> "no", op |-> "list", found |-> Nil,
                                         digest |-> Nil, stray |-> FALSE]]
      /\ asked = {} /\ flag = {} /\ edited = {}
      /\ spawned = [k \in CommandCalls |-> "nothing"]
  BY DEF Catalog!Init, Catalog!NoCommands
<1>2. Nil \in Catalog!Texts
  BY DEF Catalog!Texts
<1>3. Catalog!TypeOK
  <2>1. tool \in [CommandCalls -> ToolRecord]
    BY <1>1, <1>2 DEF ToolRecord
  <2>2. catalog \in [script : Catalog!Texts, cargo : BOOLEAN]
    BY <1>1, <1>2
  <2>3. spawned \in [CommandCalls -> Catalog!Texts \cup {"nothing"}] /\ edits \in 0 .. MaxEdits
    BY <1>1, RuntimeBoundsAreNat
  <2> QED BY <1>1, <2>1, <2>2, <2>3 DEF Catalog!TypeOK, ToolRecord
<1>4. Catalog!Live = {}
  BY <1>1 DEF Catalog!Live
<1>5. \A k \in CommandCalls :
        /\ tool[k].at = "no" /\ tool[k].op = "list" /\ ~tool[k].stray /\ spawned[k] = "nothing"
  BY <1>1
<1> QED BY <1>3, <1>4, <1>5 DEF CatalogInv, ToolInv, Running, Catalog!InFlight

\* One call goes on, while the script stays.
LEMMA ToolMoves ==
  ASSUME CatalogInv, NEW k \in CommandCalls, NEW n \in ToolRecord,
         tool' = [tool EXCEPT ![k] = n],
         UNCHANGED <<script, edits, edited>>,
         catalog' \in [script : Catalog!Texts, cargo : BOOLEAN],
         asked' \subseteq CommandCalls, flag' \subseteq asked',
         spawned' \in [CommandCalls -> Catalog!Texts \cup {"nothing"}],
         \A o \in CommandCalls \ {k} : spawned'[o] = spawned[o],
         IsLive(n) => IsLive(tool[k]) \/ \A o \in CommandCalls : ~IsLive(tool[o]),
         spawned'[k] # "nothing" =>
           n.at \in {"running", "settled"} /\ (spawned'[k] = n.digest \/ k \in edited),
         n.at = "checked" => script = n.digest \/ k \in edited,
         n.stray => n.at \in {"reading", "keeping", "done"} /\ n.op # "recover",
         n.at \in Catalog!InFlight \cup {"pending", "stored"} => n.digest # Nil,
         n.op = "recover" => n.digest # Nil
  PROVE  CatalogInv'
<1>1. /\ script \in Catalog!Texts /\ edits \in 0 .. MaxEdits
      /\ tool \in [CommandCalls -> ToolRecord] /\ edited \subseteq CommandCalls
      /\ \A i, j \in CommandCalls : IsLive(tool[i]) /\ IsLive(tool[j]) => i = j
      /\ \A o \in CommandCalls : ToolInv(o)
  BY CatalogFacts
<1>2. /\ tool' \in [CommandCalls -> ToolRecord] /\ tool'[k] = n
      /\ \A o \in CommandCalls \ {k} : tool'[o] = tool[o]
  BY <1>1
<1>3. \A i, j \in CommandCalls : IsLive(tool'[i]) /\ IsLive(tool'[j]) => i = j
  BY <1>1, <1>2
<1>4. ASSUME NEW o \in CommandCalls PROVE ToolInv(o)'
  <2>1. CASE o = k
    BY <1>2, <2>1 DEF ToolInv, Running
  <2>2. CASE o # k
    <3>1. tool'[o] = tool[o] /\ spawned'[o] = spawned[o] /\ ToolInv(o)
      BY <1>1, <1>2, <2>2
    <3> QED BY <3>1 DEF ToolInv, Running
  <2> QED BY <2>1, <2>2
<1> QED BY <1>1, <1>2, <1>3, <1>4, CatalogHolds

\* One call that has started nothing goes on outside the native command.
LEMMA QuietMoves ==
  ASSUME CatalogInv, NEW k \in CommandCalls, NEW n \in ToolRecord,
         tool' = [tool EXCEPT ![k] = n],
         UNCHANGED <<script, edits, asked, flag, spawned, edited>>,
         catalog' \in [script : Catalog!Texts, cargo : BOOLEAN],
         spawned[k] = "nothing",
         IsLive(n) => IsLive(tool[k]) \/ \A o \in CommandCalls : ~IsLive(tool[o]),
         n.at \in {"reading", "keeping", "pending", "done"},
         n.stray => n.at # "pending" /\ n.op # "recover",
         n.at = "pending" \/ n.op = "recover" => n.digest # Nil
  PROVE  CatalogInv'
<1>1. /\ asked \subseteq CommandCalls /\ flag \subseteq asked
      /\ spawned \in [CommandCalls -> Catalog!Texts \cup {"nothing"}]
  BY CatalogFacts
<1>2. n.at # "checked" /\ (n.at \in Catalog!InFlight \cup {"pending", "stored"} => n.at = "pending")
  BY DEF Catalog!InFlight
<1> QED BY <1>1, <1>2, ToolMoves

LEMMA ToolBecomes ==
  ASSUME CatalogInv, NEW k \in CommandCalls,
         NEW at \in Catalog!InFlight \cup {"no", "reading", "keeping", "pending", "stored", "done",
                                           "settled"},
         Catalog!Becomes(k, at)
  PROVE  \E n \in ToolRecord :
           /\ tool' = [tool EXCEPT ![k] = n] /\ n.at = at /\ n.op = tool[k].op
           /\ n.digest = tool[k].digest /\ n.found = tool[k].found /\ n.stray = tool[k].stray
<1>1. tool \in [CommandCalls -> ToolRecord] /\ tool[k] \in ToolRecord
  BY CatalogFacts
<1>2. PICK n : n = [tool[k] EXCEPT !.at = at]
  OBVIOUS
<1>3. tool' = [tool EXCEPT ![k] = n]
  BY <1>1, <1>2 DEF Catalog!Becomes
<1>4. /\ n \in ToolRecord /\ n.at = at /\ n.op = tool[k].op
      /\ n.digest = tool[k].digest /\ n.found = tool[k].found /\ n.stray = tool[k].stray
  BY <1>1, <1>2 DEF ToolRecord
<1> QED BY <1>3, <1>4

\* A call that did not run yet, or no longer, only becomes something else.
LEMMA BecomesKeeps ==
  ASSUME CatalogInv, NEW k \in CommandCalls,
         NEW at \in Catalog!InFlight \cup {"pending", "done", "settled"},
         Catalog!Becomes(k, at),
         UNCHANGED <<script, edits, catalog, asked, flag, edited>>,
         UNCHANGED spawned \/ (at = "running" /\ spawned' = [spawned EXCEPT ![k] = script]),
         tool[k].at \in Catalog!InFlight \cup {"keeping", "pending"},
         tool[k].at = "running" => at = "settled",
         at = "running" => tool[k].at = "checked",
         at = "checked" => script = tool[k].digest,
         tool[k].at = "keeping" => at = "done" \/ tool[k].op = "recover"
  PROVE  CatalogInv'
<1>1. PICK n \in ToolRecord :
         /\ tool' = [tool EXCEPT ![k] = n] /\ n.at = at /\ n.op = tool[k].op
         /\ n.digest = tool[k].digest /\ n.found = tool[k].found /\ n.stray = tool[k].stray
  BY ToolBecomes
<1>2. /\ script \in Catalog!Texts /\ ToolInv(k)
      /\ catalog \in [script : Catalog!Texts, cargo : BOOLEAN]
      /\ asked \subseteq CommandCalls /\ flag \subseteq asked
      /\ spawned \in [CommandCalls -> Catalog!Texts \cup {"nothing"}]
  BY CatalogFacts
<1>3. /\ spawned' \in [CommandCalls -> Catalog!Texts \cup {"nothing"}]
      /\ \A o \in CommandCalls \ {k} : spawned'[o] = spawned[o]
      /\ spawned'[k] = spawned[k] \/ (spawned'[k] = script /\ at = "running")
  BY <1>2
<1>4. IsLive(n) => IsLive(tool[k])
  BY <1>1 DEF IsLive, Catalog!InFlight
<1>5. /\ spawned'[k] # "nothing" =>
           n.at \in {"running", "settled"} /\ (spawned'[k] = n.digest \/ k \in edited)
      /\ n.at = "checked" => script = n.digest \/ k \in edited
  <2>1. CASE spawned'[k] = spawned[k]
    <3>1. spawned[k] # "nothing" => /\ tool[k].at = "running" /\ at = "settled"
                                    /\ spawned[k] = tool[k].digest \/ k \in edited
      BY <1>2 DEF ToolInv, Catalog!InFlight
    <3> QED BY <1>1, <2>1, <3>1
  <2>2. CASE spawned'[k] = script /\ at = "running"
    <3>1. script = tool[k].digest \/ k \in edited
      BY <1>2, <2>2 DEF ToolInv
    <3> QED BY <1>1, <2>2, <3>1
  <2> QED BY <1>3, <2>1, <2>2
<1>6. /\ n.stray => n.at \in {"reading", "keeping", "done"} /\ n.op # "recover"
      /\ n.at \in Catalog!InFlight \cup {"pending", "stored"} => n.digest # Nil
      /\ n.op = "recover" => n.digest # Nil
  BY <1>1, <1>2 DEF ToolInv, Running, Catalog!InFlight
<1> QED BY <1>1, <1>2, <1>3, <1>4, <1>5, <1>6, ToolMoves

LEMMA NativeKeeps ==
  ASSUME CatalogInv, NEW k \in CommandCalls,
         \/ Catalog!Approve(k) \/ Catalog!Native(k) \/ Catalog!Exits(k)
  PROVE  CatalogInv'
<1>1. UNCHANGED <<script, edits, catalog, asked, flag, edited>>
  BY DEF Catalog!Approve, Catalog!Native, Catalog!Exits, Catalog!Register, Catalog!Check,
         Catalog!Spawn, Catalog!Cancelled, Catalog!TimedOut, Catalog!Ends
<1>2. CASE Catalog!Approve(k)
  BY <1>1, <1>2, BecomesKeeps DEF Catalog!Approve, Catalog!InFlight
<1>3. ASSUME NEW authorized \in BOOLEAN, Catalog!Register(k, authorized) PROVE CatalogInv'
  BY <1>1, <1>3, BecomesKeeps DEF Catalog!Register, Catalog!InFlight
<1>4. CASE Catalog!Check(k)
  BY <1>1, <1>4, BecomesKeeps DEF Catalog!Check, Catalog!Unchanged, Catalog!InFlight
<1>5. CASE Catalog!Spawn(k)
  BY <1>1, <1>5, BecomesKeeps DEF Catalog!Spawn, Catalog!InFlight
<1>6. CASE Catalog!Ends(k)
  BY <1>1, <1>6, BecomesKeeps DEF Catalog!Ends, Catalog!InFlight
<1> QED BY <1>2, <1>3, <1>4, <1>5, <1>6
        DEF Catalog!Native, Catalog!Exits, Catalog!Cancelled, Catalog!TimedOut

LEMMA StartCallKeeps ==
  ASSUME CatalogInv, NEW k \in CommandCalls, NEW op \in {"list", "resolve"},
         Catalog!StartCall(k, op)
  PROVE  CatalogInv'
<1>1. /\ script \in Catalog!Texts /\ ToolInv(k) /\ tool \in [CommandCalls -> ToolRecord]
      /\ catalog \in [script : Catalog!Texts, cargo : BOOLEAN]
      /\ asked \subseteq CommandCalls /\ flag \subseteq asked
      /\ spawned \in [CommandCalls -> Catalog!Texts \cup {"nothing"}]
  BY CatalogFacts
<1>2. /\ tool[k].at = "no" /\ \A o \in CommandCalls : ~IsLive(tool[o])
      /\ UNCHANGED <<script, edits, asked, flag, spawned, edited>>
  BY DEF Catalog!StartCall, Catalog!Live, IsLive
<1>3. tool[k] \in ToolRecord /\ spawned[k] = "nothing" /\ ~tool[k].stray
  BY <1>1, <1>2 DEF ToolInv
<1>4. CASE op = "resolve" /\ catalog # Catalog!NoCommands
  <2>1. PICK n : n = [tool[k] EXCEPT !.op = op, !.digest = catalog.script,
                        !.at = IF catalog.script = Nil THEN "done" ELSE "pending"]
    OBVIOUS
  <2>2. /\ tool' = [tool EXCEPT ![k].op = op, ![k].digest = catalog.script,
                      ![k].at = IF catalog.script = Nil THEN "done" ELSE "pending"]
        /\ UNCHANGED catalog
    BY <1>4 DEF Catalog!StartCall
  <2>3. tool' = [tool EXCEPT ![k] = n]
    BY <1>1, <2>1, <2>2
  <2>4. /\ n \in ToolRecord /\ n.op = op /\ n.digest = catalog.script /\ ~n.stray
        /\ (n.at = "pending" /\ catalog.script # Nil) \/ n.at = "done"
    BY <1>1, <1>3, <2>1 DEF ToolRecord
  <2>5. /\ catalog' \in [script : Catalog!Texts, cargo : BOOLEAN]
        /\ n.at \in {"pending", "done"} /\ n.op # "recover"
        /\ n.at = "pending" => n.digest # Nil
    BY <1>1, <1>4, <2>2, <2>4
  <2> QED BY <1>2, <1>3, <2>3, <2>4, <2>5, QuietMoves
<1>5. CASE ~(op = "resolve" /\ catalog # Catalog!NoCommands)
  <2>1. PICK n : n = [tool[k] EXCEPT !.op = op, !.at = "reading"]
    OBVIOUS
  <2>2. /\ tool' = [tool EXCEPT ![k].op = op, ![k].at = "reading"]
        /\ catalog' = [script |-> Nil, cargo |-> FALSE]
    BY <1>5 DEF Catalog!StartCall, Catalog!NoCommands
  <2>3. tool' = [tool EXCEPT ![k] = n]
    BY <1>1, <2>1, <2>2
  <2>4. n \in ToolRecord /\ n.op = op /\ n.at = "reading" /\ ~n.stray
    BY <1>1, <1>3, <2>1 DEF ToolRecord
  <2>5. catalog' \in [script : Catalog!Texts, cargo : BOOLEAN]
    BY <2>2 DEF Catalog!Texts
  <2> QED BY <1>2, <1>3, <2>3, <2>4, <2>5, QuietMoves
<1> QED BY <1>4, <1>5

LEMMA ReadPackageKeeps ==
  ASSUME CatalogInv, NEW k \in CommandCalls, Catalog!ReadPackage(k)
  PROVE  CatalogInv'
<1>1. /\ script \in Catalog!Texts /\ ToolInv(k) /\ tool \in [CommandCalls -> ToolRecord]
      /\ catalog \in [script : Catalog!Texts, cargo : BOOLEAN]
      /\ asked \subseteq CommandCalls /\ flag \subseteq asked
      /\ spawned \in [CommandCalls -> Catalog!Texts \cup {"nothing"}]
  BY CatalogFacts
<1>2. /\ tool[k].at = "reading"
      /\ tool' = [tool EXCEPT ![k].found = script, ![k].at = "keeping"]
      /\ UNCHANGED <<script, edits, catalog, asked, flag, spawned, edited>>
  BY DEF Catalog!ReadPackage
<1>3. PICK n : n = [tool[k] EXCEPT !.found = script, !.at = "keeping"]
  OBVIOUS
<1>4. tool' = [tool EXCEPT ![k] = n]
  BY <1>1, <1>2, <1>3
<1>5. tool[k] \in ToolRecord
  BY <1>1
<1>6. /\ n \in ToolRecord /\ n.at = "keeping" /\ n.op = tool[k].op /\ n.stray = tool[k].stray
      /\ n.digest = tool[k].digest
  BY <1>1, <1>3, <1>5 DEF ToolRecord
<1>7. IsLive(n) => IsLive(tool[k])
  BY <1>2, <1>6 DEF IsLive
<1>8. spawned[k] = "nothing" /\ (n.op = "recover" => n.digest # Nil)
      /\ (n.stray => n.op # "recover")
  BY <1>1, <1>2, <1>6 DEF ToolInv
<1>9. catalog' \in [script : Catalog!Texts, cargo : BOOLEAN] /\ n.at # "pending"
  BY <1>1, <1>2, <1>6
<1> QED BY <1>2, <1>4, <1>6, <1>7, <1>8, <1>9, QuietMoves

LEMMA KeepKeeps ==
  ASSUME CatalogInv, NEW k \in CommandCalls, Catalog!Keep(k)
  PROVE  CatalogInv'
<1>1. /\ script \in Catalog!Texts /\ ToolInv(k) /\ tool \in [CommandCalls -> ToolRecord]
      /\ catalog \in [script : Catalog!Texts, cargo : BOOLEAN]
      /\ asked \subseteq CommandCalls /\ flag \subseteq asked
      /\ spawned \in [CommandCalls -> Catalog!Texts \cup {"nothing"}]
  BY CatalogFacts
<1>2. /\ tool[k].at = "keeping"
      /\ UNCHANGED <<script, edits, asked, flag, spawned, edited>>
  BY DEF Catalog!Keep
<1>3. tool[k] \in ToolRecord /\ spawned[k] = "nothing"
  BY <1>1, <1>2 DEF ToolInv
<1>4. Catalog!Kept(k) \in [script : Catalog!Texts, cargo : BOOLEAN]
  BY <1>1, <1>3, CargoIsBoolean DEF Catalog!Kept, ToolRecord
<1>5. CASE tool[k].op = "recover"
  <2>1. PICK at \in {"pending", "done"} : Catalog!Becomes(k, at) /\ UNCHANGED catalog
    BY <1>5 DEF Catalog!Keep
  <2> QED BY <1>2, <1>5, <2>1, BecomesKeeps DEF Catalog!InFlight
<1>6. CASE tool[k].op # "recover" /\ Catalog!Becomes(k, "done") /\ catalog' = Catalog!Kept(k)
  <2>1. PICK n \in ToolRecord :
           /\ tool' = [tool EXCEPT ![k] = n] /\ n.at = "done" /\ n.op = tool[k].op
    BY <1>6, ToolBecomes
  <2>2. ~IsLive(n)
    BY <2>1 DEF IsLive
  <2> QED BY <1>2, <1>3, <1>4, <1>6, <2>1, <2>2, QuietMoves
<1>7. CASE /\ tool[k].op # "recover" /\ ~tool[k].stray /\ Catalog!Kept(k).script # Nil
           /\ tool' = [tool EXCEPT ![k].digest = Catalog!Kept(k).script, ![k].at = "pending"]
           /\ catalog' = Catalog!Kept(k)
  <2>1. PICK text : text = Catalog!Kept(k).script
    OBVIOUS
  <2>2. PICK n : n = [tool[k] EXCEPT !.digest = text, !.at = "pending"]
    OBVIOUS
  <2>3. tool' = [tool EXCEPT ![k] = n]
    BY <1>1, <1>7, <2>1, <2>2
  <2>4. text \in Catalog!Texts /\ text # Nil
    BY <1>4, <1>7, <2>1
  <2>5. /\ n \in ToolRecord /\ n.at = "pending" /\ n.op = tool[k].op /\ n.stray = tool[k].stray
        /\ n.digest = text
    BY <1>3, <2>2, <2>4 DEF ToolRecord
  <2>6. IsLive(n) => IsLive(tool[k])
    BY <1>2, <2>5 DEF IsLive
  <2> QED BY <1>2, <1>3, <1>4, <1>7, <2>3, <2>4, <2>5, <2>6, QuietMoves
<1> QED BY <1>5, <1>6, <1>7 DEF Catalog!Keep

LEMMA UserKeeps ==
  ASSUME CatalogInv, NEW k \in CommandCalls,
         Catalog!CancelTask(k) \/ Catalog!CancelRun(k) \/ Catalog!Recover(k)
  PROVE  CatalogInv'
<1>1. /\ script \in Catalog!Texts /\ ToolInv(k) /\ tool \in [CommandCalls -> ToolRecord]
      /\ catalog \in [script : Catalog!Texts, cargo : BOOLEAN]
      /\ asked \subseteq CommandCalls /\ flag \subseteq asked
      /\ spawned \in [CommandCalls -> Catalog!Texts \cup {"nothing"}]
  BY CatalogFacts
<1>2. tool[k] \in ToolRecord /\ UNCHANGED <<script, edits, catalog, spawned, edited>>
  BY <1>1 DEF Catalog!CancelTask, Catalog!CancelRun, Catalog!Recover
<1>3. CASE Catalog!CancelTask(k) /\ Catalog!Becomes(k, "done") /\ tool[k].at = "pending"
  BY <1>2, <1>3, BecomesKeeps DEF Catalog!CancelTask, Catalog!InFlight
<1>4. CASE /\ Catalog!CancelTask(k)
           /\ tool[k].at \in {"reading", "keeping"} /\ tool[k].op # "recover"
           /\ tool' = [tool EXCEPT ![k].stray = TRUE]
  <2>1. PICK n : n = [tool[k] EXCEPT !.stray = TRUE]
    OBVIOUS
  <2>2. tool' = [tool EXCEPT ![k] = n]
    BY <1>1, <1>4, <2>1
  <2>3. n \in ToolRecord /\ n.at = tool[k].at /\ n.op = tool[k].op /\ n.stray
    BY <1>2, <2>1 DEF ToolRecord
  <2>4. ~IsLive(n) /\ spawned[k] = "nothing"
    BY <1>1, <1>4, <2>3 DEF IsLive, ToolInv
  <2>5. UNCHANGED <<asked, flag>>
    BY <1>4 DEF Catalog!CancelTask
  <2>6. /\ n.at \in {"reading", "keeping"} /\ n.op # "recover" /\ n.at # "pending"
        /\ catalog' \in [script : Catalog!Texts, cargo : BOOLEAN]
    BY <1>1, <1>2, <1>4, <2>3
  <2> QED BY <1>2, <2>2, <2>3, <2>4, <2>5, <2>6, QuietMoves
<1>5. CASE Catalog!CancelRun(k)
  <2>1. UNCHANGED tool /\ asked' \subseteq CommandCalls /\ flag' \subseteq asked'
    BY <1>1, <1>5 DEF Catalog!CancelRun
  <2>2. PICK n \in ToolRecord : n = tool[k]
    BY <1>2
  <2>3. tool' = [tool EXCEPT ![k] = n]
    BY <1>1, <2>1, <2>2
  <2>4. /\ spawned[k] # "nothing" =>
             n.at \in {"running", "settled"} /\ (spawned[k] = n.digest \/ k \in edited)
        /\ n.at = "checked" => script = n.digest \/ k \in edited
        /\ n.stray => n.at \in {"reading", "keeping", "done"} /\ n.op # "recover"
        /\ n.at \in Catalog!InFlight \cup {"pending", "stored"} => n.digest # Nil
        /\ n.op = "recover" => n.digest # Nil
    BY <1>1, <2>2 DEF ToolInv, Running
  <2>5. /\ spawned' \in [CommandCalls -> Catalog!Texts \cup {"nothing"}]
        /\ catalog' \in [script : Catalog!Texts, cargo : BOOLEAN]
        /\ IsLive(n) => IsLive(tool[k])
    BY <1>1, <1>2, <2>2
  <2> QED BY <1>2, <2>1, <2>3, <2>4, <2>5, ToolMoves
<1>6. CASE Catalog!Recover(k)
  <2>1. /\ tool[k].at = "stored"
        /\ tool' = [tool EXCEPT ![k].at = "reading", ![k].op = "recover"]
        /\ UNCHANGED <<asked, flag>>
    BY <1>6 DEF Catalog!Recover
  <2>2. PICK n : n = [tool[k] EXCEPT !.at = "reading", !.op = "recover"]
    OBVIOUS
  <2>3. tool' = [tool EXCEPT ![k] = n]
    BY <1>1, <2>1, <2>2
  <2>4. /\ n \in ToolRecord /\ n.at = "reading" /\ n.op = "recover" /\ n.stray = tool[k].stray
        /\ n.digest = tool[k].digest
    BY <1>2, <2>2 DEF ToolRecord
  <2>5. ~IsLive(n) /\ spawned[k] = "nothing" /\ ~tool[k].stray /\ tool[k].digest # Nil
    BY <1>1, <2>1, <2>4 DEF IsLive, ToolInv
  <2>6. /\ n.at \in {"reading", "keeping", "pending", "done"} /\ ~n.stray /\ n.digest # Nil
        /\ catalog' \in [script : Catalog!Texts, cargo : BOOLEAN]
    BY <1>1, <1>2, <2>4, <2>5
  <2> QED BY <1>2, <2>1, <2>3, <2>4, <2>5, <2>6, QuietMoves
<1> QED BY <1>3, <1>4, <1>5, <1>6 DEF Catalog!CancelTask

LEMMA EditKeeps ==
  ASSUME CatalogInv, NEW text \in Catalog!Texts, Catalog!Edit(text)
  PROVE  CatalogInv'
<1>1. /\ edits \in 0 .. MaxEdits /\ tool \in [CommandCalls -> ToolRecord]
      /\ catalog \in [script : Catalog!Texts, cargo : BOOLEAN]
      /\ asked \subseteq CommandCalls /\ flag \subseteq asked /\ edited \subseteq CommandCalls
      /\ spawned \in [CommandCalls -> Catalog!Texts \cup {"nothing"}]
      /\ \A i, j \in CommandCalls : IsLive(tool[i]) /\ IsLive(tool[j]) => i = j
      /\ \A o \in CommandCalls : ToolInv(o)
  BY CatalogFacts
<1>2. /\ edits < MaxEdits /\ script' = text /\ edits' = edits + 1
      /\ edited' = edited \cup {k \in CommandCalls : tool[k].at = "checked"}
      /\ UNCHANGED <<catalog, tool, asked, flag, spawned>>
  BY DEF Catalog!Edit
<1>3. edits' \in 0 .. MaxEdits
  BY <1>1, <1>2, RuntimeBoundsAreNat
<1>4. ASSUME NEW o \in CommandCalls PROVE ToolInv(o)'
  BY <1>1, <1>2 DEF ToolInv, Running
<1> QED BY <1>1, <1>2, <1>3, <1>4, CatalogHolds

LEMMA RestartKeeps == CatalogInv /\ Catalog!Restart => CatalogInv'
<1> SUFFICES ASSUME CatalogInv, Catalog!Restart PROVE CatalogInv'
  OBVIOUS
<1>1. /\ script \in Catalog!Texts /\ edits \in 0 .. MaxEdits
      /\ tool \in [CommandCalls -> ToolRecord]
      /\ asked \subseteq CommandCalls /\ flag \subseteq asked /\ edited \subseteq CommandCalls
      /\ spawned \in [CommandCalls -> Catalog!Texts \cup {"nothing"}]
      /\ \A o \in CommandCalls : ToolInv(o)
  BY CatalogFacts
<1>2. /\ \A k \in CommandCalls : tool[k].at \notin Catalog!InFlight
      /\ tool' = [k \in CommandCalls |-> [tool[k] EXCEPT
                   !.at = IF @ = "pending" \/ (@ \in {"reading", "keeping"} /\ tool[k].op = "recover")
                          THEN "stored" ELSE IF @ \in {"reading", "keeping"} THEN "done" ELSE @]]
      /\ catalog' = [script |-> Nil, cargo |-> FALSE]
      /\ UNCHANGED <<script, edits, asked, flag, spawned, edited>>
  BY DEF Catalog!Restart, Catalog!NoCommands
<1>3. ASSUME NEW o \in CommandCalls
      PROVE  /\ tool'[o] \in ToolRecord /\ ~IsLive(tool'[o]) /\ ToolInv(o)'
  <2>1. PICK at : at = IF \/ tool[o].at = "pending"
                          \/ tool[o].at \in {"reading", "keeping"} /\ tool[o].op = "recover"
                       THEN "stored"
                       ELSE IF tool[o].at \in {"reading", "keeping"} THEN "done" ELSE tool[o].at
    OBVIOUS
  <2>2. tool'[o] = [tool[o] EXCEPT !.at = at]
    BY <1>2, <2>1
  <2>3. /\ tool[o] \in ToolRecord /\ tool[o].at \notin Catalog!InFlight /\ ToolInv(o)
    BY <1>1, <1>2
  <2>4. at \in {"no", "stored", "done", "settled"}
    BY <2>1, <2>3 DEF ToolRecord, Catalog!InFlight
  <2>5. /\ tool'[o] \in ToolRecord /\ tool'[o].at = at /\ tool'[o].op = tool[o].op
        /\ tool'[o].digest = tool[o].digest /\ tool'[o].stray = tool[o].stray
    BY <2>2, <2>3, <2>4 DEF ToolRecord
  <2>6. ~IsLive(tool'[o])
    BY <2>4, <2>5 DEF IsLive
  <2>7. /\ spawned[o] # "nothing" => at = tool[o].at
        /\ at = "stored" => tool[o].digest # Nil
        /\ tool[o].stray => at = "done"
    BY <2>1, <2>3 DEF ToolInv, Catalog!InFlight
  <2>8. ToolInv(o)'
    BY <1>2, <2>3, <2>4, <2>5, <2>7 DEF ToolInv, Running, Catalog!InFlight
  <2> QED BY <2>5, <2>6, <2>8
<1>4. catalog' \in [script : Catalog!Texts, cargo : BOOLEAN]
  BY <1>2 DEF Catalog!Texts
<1>5. tool' \in [CommandCalls -> ToolRecord]
  BY <1>2, <1>3
<1> QED BY <1>1, <1>2, <1>3, <1>4, <1>5, CatalogHolds

LEMMA CatalogKeeps == CatalogInv /\ Catalog!Next => CatalogInv'
BY NativeKeeps, StartCallKeeps, ReadPackageKeeps, KeepKeeps, UserKeeps, EditKeeps, RestartKeeps
DEF Catalog!Next

LEMMA CatalogStutters ==
  ASSUME CatalogInv, UNCHANGED catalogVars
  PROVE  CatalogInv'
<1>1. UNCHANGED <<script, edits, catalog, tool, asked, flag, spawned, edited>>
  BY DEF catalogVars
<1>2. \A o \in CommandCalls : ToolInv(o)'
  BY <1>1, CatalogFacts DEF ToolInv, Running
<1> QED BY <1>1, <1>2, CatalogFacts, CatalogHolds

LEMMA CatalogCounts == \A S : Catalog!Cardinality(S) = Cardinality(S)
BY DEF Catalog!Cardinality, Cardinality

LEMMA CatalogSays == CatalogInv => Catalog!TypeOK /\ Catalog!RunsWhatWasCataloged
<1> SUFFICES ASSUME CatalogInv PROVE Catalog!TypeOK /\ Catalog!RunsWhatWasCataloged
  OBVIOUS
<1>1. Catalog!TypeOK
  BY DEF CatalogInv
<1>2. \A k \in CommandCalls :
        /\ spawned[k] # "nothing" => spawned[k] = tool[k].digest \/ k \in edited
        /\ tool[k].stray => tool[k].at \in {"reading", "keeping", "done"}
        /\ tool[k].at \in Catalog!InFlight => tool[k].digest # Nil
  BY DEF CatalogInv, ToolInv, Running
<1>3. Cardinality({k \in Catalog!Live : tool[k].at \in Catalog!InFlight}) <= 1
  <2>1. PICK one : one = {k \in Catalog!Live : tool[k].at \in Catalog!InFlight}
    OBVIOUS
  <2>2. \A j, k \in one : j = k
    BY <2>1 DEF CatalogInv
  <2>3. one = {} \/ \E k : one = {k}
    BY <2>2
  <2>4. Cardinality(one) <= 1
    BY <2>3, FS_EmptySet, FS_Singleton
  <2> QED BY <2>1, <2>4
<1> QED BY <1>1, <1>2, <1>3, CatalogCounts DEF Catalog!RunsWhatWasCataloged

-----------------------------------------------------------------------------
(* CodingPackStore: the inductive invariant.                               *)

Evaluates(c) == caller[c].pc \in {"reading", "verifying", "asking", "recording", "deciding"}

\* One caller at a time evaluates, and a confirmed export; who confirms has its row.
CallersInv ==
    \A c \in Callers :
      /\ Evaluates(c) => evaluating
      /\ Evaluates(c) => \A o \in Callers : Evaluates(o) => o = c
      /\ Evaluates(c) /\ caller[c].pc # "reading" => row # Nil /\ row.state = "confirmed"
      /\ caller[c].pc = "confirming" => row # Nil

PacksInv ==
    /\ Packs!TypeOK /\ Packs!RowsReadBack
    /\ caller \in [Callers -> [pc : {"idle", "confirming", "reading", "verifying", "asking",
                                     "recording", "deciding"},
                               event : Packs!EventRecord]]
    /\ CallersInv

CallerRecord ==
    [pc : {"idle", "confirming", "reading", "verifying", "asking", "recording", "deciding"},
     event : Packs!EventRecord]

LEMMA PacksHold ==
  ASSUME clock' \in 0 .. MaxTime, setbacks' \in 0 .. MaxSetbacks,
         row' \in Packs!OperationRow \cup {Nil}, rowEvents' \in Seq(Packs!EventRecord),
         evaluating' \in BOOLEAN, caller' \in [Callers -> CallerRecord],
         row' # Nil => Packs!Reconstructs(row', rowEvents'), CallersInv'
  PROVE  PacksInv'
<1>1. ASSUME NEW c \in Callers
      PROVE  /\ caller'[c].pc \in {"idle", "confirming", "reading", "verifying", "asking",
                                   "recording", "deciding"}
             /\ caller'[c].event \in Packs!EventRecord
  BY DEF CallerRecord
<1>2. Packs!TypeOK'
  BY <1>1 DEF Packs!TypeOK
<1> QED BY <1>2 DEF PacksInv, Packs!RowsReadBack, CallerRecord

LEMMA PacksFacts ==
  ASSUME PacksInv
  PROVE  /\ clock \in 0 .. MaxTime /\ setbacks \in 0 .. MaxSetbacks
         /\ row \in Packs!OperationRow \cup {Nil} /\ rowEvents \in Seq(Packs!EventRecord)
         /\ evaluating \in BOOLEAN /\ caller \in [Callers -> CallerRecord]
         /\ row # Nil => Packs!Reconstructs(row, rowEvents)
         /\ CallersInv
BY DEF PacksInv, Packs!TypeOK, Packs!RowsReadBack, CallerRecord

LEMMA PacksInit == Packs!Init => PacksInv
<1> SUFFICES ASSUME Packs!Init PROVE PacksInv
  OBVIOUS
<1>1. /\ clock \in 0 .. MaxTime /\ setbacks \in 0 .. MaxSetbacks /\ row = Nil
      /\ rowEvents = <<>> /\ evaluating = FALSE /\ caller = [c \in Callers |-> Packs!Idle]
  BY RuntimeBoundsAreNat DEF Packs!Init
<1>2. Packs!Idle \in CallerRecord /\ Packs!Idle.pc = "idle"
  BY DEF Packs!Idle, Packs!NoEvent, Packs!Event, CallerRecord, Packs!EventRecord, Packs!EventTypes
<1>3. caller \in [Callers -> CallerRecord] /\ CallersInv
  BY <1>1, <1>2 DEF CallersInv, Evaluates
<1>4. rowEvents \in Seq(Packs!EventRecord)
  BY <1>1
<1>5. Packs!TypeOK
  <2>1. \A c \in Callers :
          /\ caller[c].pc \in {"idle", "confirming", "reading", "verifying", "asking",
                              "recording", "deciding"}
          /\ caller[c].event \in Packs!EventRecord
    BY <1>3 DEF CallerRecord
  <2> QED BY <1>1, <1>4, <2>1 DEF Packs!TypeOK
<1> QED BY <1>1, <1>3, <1>5 DEF PacksInv, Packs!RowsReadBack, CallerRecord

\* One caller goes on to n.
LEMMA CallerMoves ==
  ASSUME PacksInv, NEW c \in Callers, NEW n \in CallerRecord,
         caller' = [caller EXCEPT ![c] = n]
  PROVE  /\ caller' \in [Callers -> CallerRecord] /\ caller'[c] = n
         /\ \A o \in Callers \ {c} : caller'[o] = caller[o]
BY DEF PacksInv, CallerRecord

\* A step of one caller that writes no row.
LEMMA CallerKeeps ==
  ASSUME PacksInv, NEW c \in Callers, NEW n \in CallerRecord,
         caller' = [caller EXCEPT ![c] = n],
         UNCHANGED <<clock, setbacks, row, rowEvents>>, evaluating' \in BOOLEAN,
         n.pc \in {"reading", "verifying", "asking", "recording", "deciding"} =>
           evaluating' /\ (Evaluates(c) \/ ~evaluating),
         n.pc \in {"verifying", "asking", "recording", "deciding"} =>
           row # Nil /\ row.state = "confirmed",
         n.pc = "confirming" => row # Nil,
         evaluating' = evaluating \/ n.pc = "reading" \/ (n.pc = "idle" /\ Evaluates(c))
  PROVE  PacksInv'
<1>1. /\ clock \in 0 .. MaxTime /\ setbacks \in 0 .. MaxSetbacks
      /\ row \in Packs!OperationRow \cup {Nil} /\ rowEvents \in Seq(Packs!EventRecord)
      /\ row # Nil => Packs!Reconstructs(row, rowEvents)
      /\ CallersInv
  BY PacksFacts
<1>2. /\ caller' \in [Callers -> CallerRecord] /\ caller'[c] = n
      /\ \A o \in Callers \ {c} : caller'[o] = caller[o]
  BY CallerMoves
<1>3. ASSUME NEW o \in Callers \ {c}, Evaluates(o)
      PROVE  /\ evaluating' /\ evaluating /\ ~Evaluates(c)
             /\ n.pc \notin {"reading", "verifying", "asking", "recording", "deciding"}
  BY <1>1, <1>3 DEF CallersInv
<1>4. CallersInv'
  BY <1>1, <1>2, <1>3 DEF CallersInv, Evaluates
<1>5. row' # Nil => Packs!Reconstructs(row', rowEvents')
  BY <1>1
<1> QED BY <1>1, <1>2, <1>4, <1>5, PacksHold

\* The chronology that holds so far holds with the next event of its kind.
LEMMA Grows ==
  ASSUME NEW es \in Seq(Packs!EventRecord), NEW r, Packs!Reconstructs(r, es),
         NEW e \in Packs!EventRecord, NEW s \in Packs!OperationRow,
         s.seq = Len(es) + 1, Len(es) <= 4,
         Len(es) = 1 => /\ s.state = "confirmed"
                        /\ Packs!ApprovalIsValid(es[1], e) /\ Packs!FollowsProposal(es[1], e),
         Len(es) = 2 => /\ s.state = Packs!DecidedState(e.verdict)
                        /\ Packs!DecisionIsValid(es[1], es[2], e),
         Len(es) = 3 => /\ s.state = "export_started"
                        /\ Packs!StartIsValid(es[1], es[2], es[3], e),
         Len(es) = 4 => /\ Packs!EndIsValid(es[4], e)
                        /\ s.state = IF e.type = "PACK_EXPORT_COMPLETED"
                                     THEN "export_completed" ELSE "export_interrupted"
  PROVE  Packs!Reconstructs(s, Append(es, e))
<1>1. PICK a : a = Append(es, e)
  OBVIOUS
<1>2. /\ Len(a) = Len(es) + 1 /\ Len(es) \in Nat
      /\ \A i \in 1 .. Len(es) : a[i] = es[i]
      /\ a[Len(es) + 1] = e
  BY <1>1, Appended
<1>3. /\ Len(es) \in 1 .. 5 /\ Packs!ProposalIsValid(es[1])
      /\ Len(es) >= 2 => Packs!ApprovalIsValid(es[1], es[2]) /\ Packs!FollowsProposal(es[1], es[2])
      /\ Len(es) >= 3 => Packs!DecisionIsValid(es[1], es[2], es[3])
      /\ Len(es) >= 4 => Packs!StartIsValid(es[1], es[2], es[3], es[4])
  BY DEF Packs!Reconstructs
<1>4. Len(es) = 1 \/ Len(es) = 2 \/ Len(es) = 3 \/ Len(es) = 4
  <2>1. PICK l \in 1 .. 5 : l = Len(es) /\ l <= 4
    BY <1>3
  <2>2. l = 1 \/ l = 2 \/ l = 3 \/ l = 4
    BY ONLY <2>1
  <2> QED BY <2>1, <2>2
<1>5. CASE Len(es) = 1
  <2>1. Len(a) = 2 /\ a[1] = es[1] /\ a[2] = e
    BY <1>2, <1>5
  <2>2. Packs!StateOf(a) = "confirmed"
    BY <2>1 DEF Packs!StateOf
  <2> QED BY <1>1, <1>3, <1>5, <2>1, <2>2 DEF Packs!Reconstructs
<1>6. CASE Len(es) = 2
  <2>1. Len(a) = 3 /\ a[1] = es[1] /\ a[2] = es[2] /\ a[3] = e
    BY <1>2, <1>6
  <2>2. Packs!StateOf(a) = Packs!DecidedState(e.verdict)
    BY <2>1 DEF Packs!StateOf
  <2> QED BY <1>1, <1>3, <1>6, <2>1, <2>2 DEF Packs!Reconstructs
<1>7. CASE Len(es) = 3
  <2>1. Len(a) = 4 /\ a[1] = es[1] /\ a[2] = es[2] /\ a[3] = es[3] /\ a[4] = e
    BY <1>2, <1>7
  <2>2. Packs!StateOf(a) = "export_started"
    BY <2>1 DEF Packs!StateOf
  <2> QED BY <1>1, <1>3, <1>7, <2>1, <2>2 DEF Packs!Reconstructs
<1>8. CASE Len(es) = 4
  <2>1. /\ Len(a) = 5 /\ a[1] = es[1] /\ a[2] = es[2] /\ a[3] = es[3] /\ a[4] = es[4]
        /\ a[5] = e
    BY <1>2, <1>8
  <2>2. Packs!StateOf(a) = s.state
    BY <1>8, <2>1 DEF Packs!StateOf
  <2> QED BY <1>1, <1>3, <1>8, <2>1, <2>2 DEF Packs!Reconstructs
<1> QED BY <1>4, <1>5, <1>6, <1>7, <1>8

\* A row that reads back is as long as its sequence says, and its state says how long.
LEMMA ReadsBack ==
  ASSUME PacksInv, row # Nil
  PROVE  /\ rowEvents \in Seq(Packs!EventRecord) /\ Len(rowEvents) = row.seq
         /\ Packs!Reconstructs(row, rowEvents)
         /\ \A i \in 1 .. Len(rowEvents) : rowEvents[i] \in Packs!EventRecord
BY PacksFacts, Elements DEF Packs!Reconstructs

\* A writer appends an event to the row while nobody evaluates it, or only itself does.
LEMMA RowMoves ==
  ASSUME PacksInv, NEW e \in Packs!EventRecord, row # Nil,
         NEW r \in Packs!OperationRow, row' = r, Packs!Reconstructs(r, Append(rowEvents, e)),
         rowEvents' = Append(rowEvents, e), UNCHANGED <<clock, setbacks>>,
         evaluating' \in BOOLEAN, caller' \in [Callers -> CallerRecord],
         \A c \in Callers : Evaluates(c)' =>
           Evaluates(c) /\ evaluating' = evaluating /\ caller'[c] = caller[c]
             /\ caller[c].pc = "reading"
  PROVE  PacksInv'
<1>1. /\ clock \in 0 .. MaxTime /\ setbacks \in 0 .. MaxSetbacks
      /\ rowEvents \in Seq(Packs!EventRecord) /\ CallersInv
  BY PacksFacts
<1>2. row' # Nil
  BY NilIsNoRow
<1>3. CallersInv'
  BY <1>1, <1>2 DEF CallersInv, Evaluates
<1>4. rowEvents' \in Seq(Packs!EventRecord)
  BY <1>1, Appended
<1> QED BY <1>1, <1>3, <1>4, PacksHold

IdleCaller == Packs!Idle \in CallerRecord /\ Packs!Idle.pc = "idle"
LEMMA IdleFacts == IdleCaller
BY DEF IdleCaller, Packs!Idle, Packs!NoEvent, Packs!Event, CallerRecord, Packs!EventRecord,
       Packs!EventTypes

LEMMA CreateKeeps ==
  ASSUME PacksInv, NEW c \in Callers, Packs!Create(c)
  PROVE  PacksInv'
<1>1. /\ clock \in 0 .. MaxTime /\ setbacks \in 0 .. MaxSetbacks /\ evaluating \in BOOLEAN
      /\ caller \in [Callers -> CallerRecord] /\ CallersInv
  BY PacksFacts
<1>2. PICK e : e = Packs!Event("PACK_PROPOSED", clock, clock, clock + Lifetime, Nil)
  OBVIOUS
<1>3. PICK r : r = Packs!Row("proposed", 1)
  OBVIOUS
<1>4. /\ row = Nil /\ rowEvents' = <<e>> /\ row' = r
      /\ UNCHANGED <<clock, setbacks, evaluating, caller>>
  BY <1>2, <1>3 DEF Packs!Create
<1>5. clock \in Int /\ clock + Lifetime \in Int
  BY <1>1, LifetimeIsAllowed, RuntimeBoundsAreNat
<1>6. /\ e \in Packs!EventRecord /\ e.type = "PACK_PROPOSED" /\ e.at = clock /\ e.from = clock
      /\ e.until = clock + Lifetime
  BY <1>2, <1>5 DEF Packs!Event, Packs!EventRecord, Packs!EventTypes
<1>7. r \in Packs!OperationRow /\ r.seq = 1 /\ r.state = "proposed"
  BY <1>3 DEF Packs!Row, Packs!OperationRow
<1>8. /\ rowEvents' \in Seq(Packs!EventRecord) /\ Len(rowEvents') = 1 /\ rowEvents'[1] = e
  BY <1>4, <1>6
<1>9. Packs!ProposalIsValid(e)
  <2>1. clock < clock + Lifetime /\ (clock + Lifetime) - clock <= MaxLifetime
    BY <1>5, LifetimeIsAllowed
  <2> QED BY <1>6, <2>1 DEF Packs!ProposalIsValid, Packs!Lives
<1>10. Packs!Reconstructs(row', rowEvents')
  BY <1>4, <1>7, <1>8, <1>9 DEF Packs!Reconstructs, Packs!StateOf
<1>11. CallersInv'
  BY <1>1, <1>4 DEF CallersInv, Evaluates
<1> QED BY <1>1, <1>4, <1>7, <1>8, <1>10, <1>11, PacksHold

LEMMA ConfirmKeeps ==
  ASSUME PacksInv, NEW c \in Callers, Packs!Confirm(c)
  PROVE  PacksInv'
<1>1. PICK at, until \in Packs!Times :
        Packs!Awaits(c, "confirming", Packs!Event("PACK_CONFIRMED", at, at, until, Nil))
  BY DEF Packs!Confirm
<1>2. PICK n : n = [pc |-> "confirming",
                    event |-> Packs!Event("PACK_CONFIRMED", at, at, until, Nil)]
  OBVIOUS
<1>3. caller' = [caller EXCEPT ![c] = n]
  BY <1>1, <1>2 DEF Packs!Awaits
<1>4. n \in CallerRecord /\ n.pc = "confirming"
  <2>1. Packs!Times \subseteq Int
    BY LifetimeIsAllowed, RuntimeBoundsAreNat DEF Packs!Times
  <2>2. Packs!Event("PACK_CONFIRMED", at, at, until, Nil) \in Packs!EventRecord
    BY <2>1 DEF Packs!Event, Packs!EventRecord, Packs!EventTypes
  <2> QED BY <1>2, <2>2 DEF CallerRecord
<1>5. /\ row # Nil /\ UNCHANGED <<clock, setbacks, row, rowEvents, evaluating>>
  BY DEF Packs!Confirm, Packs!ReadsState
<1>6. evaluating' \in BOOLEAN
  BY <1>5, PacksFacts
<1> QED BY <1>3, <1>4, <1>5, <1>6, CallerKeeps

LEMMA AppendConfirmationKeeps ==
  ASSUME PacksInv, NEW c \in Callers, Packs!AppendConfirmation(c)
  PROVE  PacksInv'
<1>1. PICK e : e = caller[c].event
  OBVIOUS
<1>2. /\ caller[c].pc = "confirming" /\ caller' = [caller EXCEPT ![c] = Packs!Idle]
      /\ UNCHANGED <<clock, setbacks, evaluating>>
  BY DEF Packs!AppendConfirmation, Packs!Returns
<1>3. /\ caller \in [Callers -> CallerRecord] /\ evaluating \in BOOLEAN /\ CallersInv
      /\ row \in Packs!OperationRow \cup {Nil}
  BY PacksFacts
<1>4. row # Nil /\ e \in Packs!EventRecord
  BY <1>1, <1>2, <1>3 DEF CallersInv, CallerRecord
<1>5. CASE UNCHANGED <<row, rowEvents>>
  BY <1>2, <1>3, <1>5, IdleFacts, CallerKeeps DEF IdleCaller
<1>6. CASE /\ row.state = "proposed" /\ row.seq = 1 /\ Packs!AdapterConfirms(e)
           /\ row' = Packs!Row("confirmed", 2) /\ rowEvents' = Append(rowEvents, e)
  <2>1. PICK r : r = Packs!Row("confirmed", 2)
    OBVIOUS
  <2>2. r \in Packs!OperationRow /\ r.seq = 2 /\ r.state = "confirmed"
    BY <2>1 DEF Packs!Row, Packs!OperationRow
  <2>3. /\ rowEvents \in Seq(Packs!EventRecord) /\ Len(rowEvents) = 1
        /\ Packs!Reconstructs(row, rowEvents)
    BY <1>4, <1>6, ReadsBack
  <2>4. Packs!ApprovalIsValid(rowEvents[1], e) /\ Packs!FollowsProposal(rowEvents[1], e)
    BY <1>6 DEF Packs!AdapterConfirms, Packs!Proposal
  <2>5. Packs!Reconstructs(r, Append(rowEvents, e))
    <3>1. /\ r.seq = Len(rowEvents) + 1 /\ Len(rowEvents) <= 4
          /\ Len(rowEvents) # 2 /\ Len(rowEvents) # 3 /\ Len(rowEvents) # 4
      BY <2>2, <2>3
    <3> QED BY <1>4, <2>2, <2>3, <2>4, <3>1, Grows
  <2>6. /\ caller' \in [Callers -> CallerRecord] /\ caller'[c] = Packs!Idle
        /\ \A o \in Callers \ {c} : caller'[o] = caller[o]
    BY <1>2, CallerMoves, IdleFacts DEF IdleCaller
  <2>7. ASSUME NEW o \in Callers, Evaluates(o)'
        PROVE  /\ Evaluates(o) /\ evaluating' = evaluating /\ caller'[o] = caller[o]
               /\ caller[o].pc = "reading"
    BY <1>2, <1>3, <1>6, <2>6, <2>7, IdleFacts DEF CallersInv, Evaluates, IdleCaller
  <2> QED BY <1>2, <1>3, <1>4, <1>6, <2>1, <2>2, <2>5, <2>6, <2>7, RowMoves
<1> QED BY <1>1, <1>5, <1>6 DEF Packs!AppendConfirmation

\* A caller that evaluates awaits the next thing, or gives up.
LEMMA EvaluationMoves ==
  ASSUME PacksInv, NEW c \in Callers, Evaluates(c),
         UNCHANGED <<clock, setbacks, row, rowEvents>>,
         \/ Packs!EvaluationEnds(c)
         \/ /\ UNCHANGED evaluating
            /\ \E pc \in {"verifying", "asking", "recording", "deciding"},
                  e \in Packs!EventRecord : Packs!Awaits(c, pc, e)
            /\ row # Nil /\ row.state = "confirmed"
  PROVE  PacksInv'
<1>1. evaluating \in BOOLEAN /\ evaluating /\ caller \in [Callers -> CallerRecord]
  BY PacksFacts DEF CallersInv
<1>2. CASE Packs!EvaluationEnds(c)
  <2>1. caller' = [caller EXCEPT ![c] = Packs!Idle] /\ evaluating' = FALSE
    BY <1>2 DEF Packs!EvaluationEnds, Packs!Returns
  <2> QED BY <2>1, IdleFacts, CallerKeeps DEF IdleCaller
<1>3. ASSUME NEW pc \in {"verifying", "asking", "recording", "deciding"},
             NEW e \in Packs!EventRecord, Packs!Awaits(c, pc, e), UNCHANGED evaluating,
             row # Nil, row.state = "confirmed"
      PROVE  PacksInv'
  <2>1. PICK n : n = [pc |-> pc, event |-> e]
    OBVIOUS
  <2>2. caller' = [caller EXCEPT ![c] = n] /\ n \in CallerRecord /\ n.pc = pc
    BY <1>3, <2>1 DEF Packs!Awaits, CallerRecord
  <2> QED BY <1>1, <1>3, <2>2, CallerKeeps
<1> QED BY <1>2, <1>3

LEMMA EvaluateKeeps ==
  ASSUME PacksInv, NEW c \in Callers, Packs!Evaluate(c)
  PROVE  PacksInv'
<1>1. PICK n : n = [pc |-> "reading", event |-> Packs!NoEvent]
  OBVIOUS
<1>2. /\ ~evaluating /\ evaluating' = TRUE /\ caller' = [caller EXCEPT ![c] = n]
      /\ UNCHANGED <<clock, setbacks, row, rowEvents>>
  BY <1>1 DEF Packs!Evaluate, Packs!Awaits
<1>3. n \in CallerRecord /\ n.pc = "reading"
  BY <1>1, IdleFacts DEF IdleCaller, Packs!Idle, CallerRecord
<1> QED BY <1>2, <1>3, CallerKeeps

LEMMA EvaluationKeeps ==
  ASSUME PacksInv, NEW c \in Callers,
         \/ Packs!ReadForEvaluation(c) \/ Packs!BridgeFails(c) \/ Packs!RecordDecision(c)
         \/ \E available \in BOOLEAN : Packs!VerifyDestination(c, available)
         \/ \E verdict \in {"allow", "deny"}, at \in Packs!Times :
              Packs!BridgeAnswers(c, verdict, at)
  PROVE  PacksInv'
<1>1. /\ caller \in [Callers -> CallerRecord] /\ CallersInv /\ clock \in 0 .. MaxTime
  BY PacksFacts
<1>2. Packs!NoEvent \in Packs!EventRecord
  BY DEF Packs!NoEvent, Packs!Event, Packs!EventRecord, Packs!EventTypes
<1>3. CASE Packs!ReadForEvaluation(c)
  <2>1. Evaluates(c) /\ UNCHANGED <<clock, setbacks, row, rowEvents>>
    BY <1>3 DEF Packs!ReadForEvaluation, Evaluates
  <2>2. \/ Packs!EvaluationEnds(c)
        \/ /\ Packs!ReadsState("confirmed") /\ Packs!Awaits(c, "verifying", Packs!NoEvent)
           /\ UNCHANGED evaluating
    BY <1>3 DEF Packs!ReadForEvaluation
  <2> QED BY <1>2, <2>1, <2>2, EvaluationMoves DEF Packs!ReadsState
<1>4. ASSUME NEW available \in BOOLEAN, Packs!VerifyDestination(c, available) PROVE PacksInv'
  <2>1. /\ Evaluates(c) /\ row # Nil /\ row.state = "confirmed"
        /\ UNCHANGED <<clock, setbacks, row, rowEvents>>
    BY <1>1, <1>4 DEF Packs!VerifyDestination, CallersInv, Evaluates
  <2>2. \/ Packs!EvaluationEnds(c)
        \/ /\ Packs!Awaits(c, "asking", Packs!Event("PACK_DECIDED", 0, clock, 0, Nil))
           /\ UNCHANGED evaluating
    BY <1>4 DEF Packs!VerifyDestination
  <2>3. Packs!Event("PACK_DECIDED", 0, clock, 0, Nil) \in Packs!EventRecord
    <3>1. clock \in Int
      BY <1>1, RuntimeBoundsAreNat
    <3> QED BY <3>1 DEF Packs!Event, Packs!EventRecord, Packs!EventTypes
  <2> QED BY <2>1, <2>2, <2>3, EvaluationMoves
<1>5. ASSUME NEW verdict \in {"allow", "deny", "error"}, NEW at \in Int,
             caller[c].pc = "asking", Packs!Answered(c, verdict, at),
             UNCHANGED <<clock, setbacks, row, rowEvents, evaluating>>
      PROVE  PacksInv'
  <2>1. Evaluates(c) /\ row # Nil /\ row.state = "confirmed"
    BY <1>1, <1>5 DEF CallersInv, Evaluates
  <2>2. PICK e : e = [caller[c].event EXCEPT !.verdict = verdict, !.at = at, !.until = at]
    OBVIOUS
  <2>3. caller[c].event \in Packs!EventRecord
    BY <1>1 DEF CallerRecord
  <2>4. e \in Packs!EventRecord
    BY <2>2, <2>3 DEF Packs!EventRecord
  <2>5. Packs!Awaits(c, "recording", e)
    BY <1>5, <2>2 DEF Packs!Answered
  <2> QED BY <1>5, <2>1, <2>4, <2>5, EvaluationMoves
<1>6. ASSUME NEW verdict \in {"allow", "deny"}, NEW at \in Packs!Times,
             Packs!BridgeAnswers(c, verdict, at)
      PROVE  PacksInv'
  <2>1. at \in Int
    BY LifetimeIsAllowed, RuntimeBoundsAreNat DEF Packs!Times
  <2>2. Packs!Answered(c, verdict, at) \/ Packs!Answered(c, "error", at)
    BY <1>6 DEF Packs!BridgeAnswers
  <2>3. caller[c].pc = "asking" /\ UNCHANGED <<clock, setbacks, row, rowEvents, evaluating>>
    BY <1>6 DEF Packs!BridgeAnswers
  <2> QED BY <1>5, <2>1, <2>2, <2>3
<1>7. CASE Packs!BridgeFails(c)
  <2>1. PICK at : /\ at \in {clock, caller[c].event.from} /\ Packs!Answered(c, "error", at)
    BY <1>7 DEF Packs!BridgeFails
  <2>2. caller[c].event \in Packs!EventRecord
    BY <1>1 DEF CallerRecord
  <2>3. at \in Int
    BY <1>1, <2>1, <2>2, RuntimeBoundsAreNat DEF Packs!EventRecord
  <2>4. caller[c].pc = "asking" /\ UNCHANGED <<clock, setbacks, row, rowEvents, evaluating>>
    BY <1>7 DEF Packs!BridgeFails
  <2> QED BY <1>5, <2>1, <2>3, <2>4
<1>8. CASE Packs!RecordDecision(c)
  <2>1. /\ Evaluates(c) /\ row # Nil /\ row.state = "confirmed"
        /\ UNCHANGED <<clock, setbacks, row, rowEvents>>
    BY <1>1, <1>8 DEF Packs!RecordDecision, CallersInv, Evaluates
  <2>2. \/ Packs!EvaluationEnds(c)
        \/ Packs!Awaits(c, "deciding", caller[c].event) /\ UNCHANGED evaluating
    BY <1>8 DEF Packs!RecordDecision
  <2>3. caller[c].event \in Packs!EventRecord
    BY <1>1 DEF CallerRecord
  <2> QED BY <2>1, <2>2, <2>3, EvaluationMoves
<1> QED BY <1>3, <1>4, <1>6, <1>7, <1>8

LEMMA AppendDecisionKeeps ==
  ASSUME PacksInv, NEW c \in Callers, Packs!AppendDecision(c)
  PROVE  PacksInv'
<1>1. PICK d : d = caller[c].event
  OBVIOUS
<1>2. /\ caller[c].pc = "deciding" /\ Packs!EvaluationEnds(c) /\ UNCHANGED <<clock, setbacks>>
      /\ caller' = [caller EXCEPT ![c] = Packs!Idle] /\ evaluating' = FALSE
  BY DEF Packs!AppendDecision, Packs!EvaluationEnds, Packs!Returns
<1>3. caller \in [Callers -> CallerRecord] /\ CallersInv /\ Evaluates(c)
  BY <1>2, PacksFacts DEF Evaluates
<1>4. row # Nil /\ d \in Packs!EventRecord
  BY <1>1, <1>2, <1>3 DEF CallersInv, CallerRecord
<1>5. CASE UNCHANGED <<row, rowEvents>>
  BY <1>2, <1>3, <1>5, EvaluationMoves
<1>6. CASE /\ row.state = "confirmed" /\ row.seq = 2 /\ Packs!AdapterDecides(d)
           /\ row' = Packs!Row(Packs!DecidedState(d.verdict), 3)
           /\ rowEvents' = Append(rowEvents, d)
  <2>1. PICK r : r = Packs!Row(Packs!DecidedState(d.verdict), 3)
    OBVIOUS
  <2>2. r \in Packs!OperationRow /\ r.seq = 3 /\ r.state = Packs!DecidedState(d.verdict)
    BY <2>1 DEF Packs!Row, Packs!OperationRow, Packs!DecidedState
  <2>3. /\ rowEvents \in Seq(Packs!EventRecord) /\ Len(rowEvents) = 2
        /\ Packs!Reconstructs(row, rowEvents)
    BY <1>4, <1>6, ReadsBack
  <2>4. Packs!DecisionIsValid(rowEvents[1], rowEvents[2], d)
    BY <1>6 DEF Packs!AdapterDecides, Packs!Proposal, Packs!Approval
  <2>5. Packs!Reconstructs(r, Append(rowEvents, d))
    <3>1. /\ r.seq = Len(rowEvents) + 1 /\ Len(rowEvents) <= 4
          /\ Len(rowEvents) # 1 /\ Len(rowEvents) # 3 /\ Len(rowEvents) # 4
      BY <2>2, <2>3
    <3> QED BY <1>4, <2>2, <2>3, <2>4, <3>1, Grows
  <2>6. /\ caller' \in [Callers -> CallerRecord] /\ caller'[c] = Packs!Idle
        /\ \A o \in Callers \ {c} : caller'[o] = caller[o]
    BY <1>2, CallerMoves, IdleFacts DEF IdleCaller
  <2>7. \A o \in Callers : ~Evaluates(o)'
    BY <1>3, <2>6, IdleFacts DEF CallersInv, Evaluates, IdleCaller
  <2> QED BY <1>2, <1>4, <1>6, <2>1, <2>2, <2>5, <2>6, <2>7, RowMoves
<1> QED BY <1>1, <1>5, <1>6 DEF Packs!AppendDecision

\* What the native export writes follows what it read.
LEMMA NativeWritesKeep ==
  ASSUME PacksInv, NEW state \in {"export_started", "export_completed", "export_interrupted"},
         NEW type \in Packs!EventTypes, row # Nil, row.state # "confirmed",
         Packs!NativeWrites(state, type),
         LET e == Packs!Event(type, clock, clock, clock, Nil)
         IN  \/ /\ row.seq = 3 /\ state = "export_started"
                /\ Packs!StartIsValid(rowEvents[1], rowEvents[2], rowEvents[3], e)
             \/ /\ row.seq = 4 /\ Packs!EndIsValid(rowEvents[4], e)
                /\ state = IF type = "PACK_EXPORT_COMPLETED"
                           THEN "export_completed" ELSE "export_interrupted"
  PROVE  PacksInv'
<1>1. PICK e : e = Packs!Event(type, clock, clock, clock, Nil)
  OBVIOUS
<1>2. /\ clock \in 0 .. MaxTime /\ caller \in [Callers -> CallerRecord] /\ CallersInv
      /\ evaluating \in BOOLEAN
  BY PacksFacts
<1>3. e \in Packs!EventRecord /\ e.type = type
  <2>1. clock \in Int
    BY <1>2, RuntimeBoundsAreNat
  <2> QED BY <1>1, <2>1 DEF Packs!Event, Packs!EventRecord
<1>4. /\ rowEvents \in Seq(Packs!EventRecord) /\ Len(rowEvents) = row.seq
      /\ Packs!Reconstructs(row, rowEvents)
  BY ReadsBack
<1>5. PICK r : r = Packs!Row(state, Len(rowEvents) + 1)
  OBVIOUS
<1>6. row.seq \in {3, 4}
  OBVIOUS
<1>7. r \in Packs!OperationRow /\ r.seq = Len(rowEvents) + 1 /\ r.state = state
  <2>1. Len(rowEvents) + 1 \in Nat
    BY <1>4, <1>6
  <2> QED BY <1>5, <2>1 DEF Packs!Row, Packs!OperationRow
<1>8. /\ row' = r /\ rowEvents' = Append(rowEvents, e)
      /\ UNCHANGED <<clock, setbacks, evaluating, caller>>
  BY <1>1, <1>5 DEF Packs!NativeWrites
<1>9. Packs!Reconstructs(r, Append(rowEvents, e))
  <2>1. CASE row.seq = 3
    <3>1. /\ Len(rowEvents) <= 4 /\ Len(rowEvents) = 3
          /\ Len(rowEvents) # 1 /\ Len(rowEvents) # 2 /\ Len(rowEvents) # 4
      BY <1>4, <2>1
    <3>2. /\ state = "export_started"
          /\ Packs!StartIsValid(rowEvents[1], rowEvents[2], rowEvents[3], e)
      BY <1>1, <2>1
    <3> QED BY <1>3, <1>4, <1>7, <3>1, <3>2, Grows
  <2>2. CASE row.seq = 4
    <3>1. /\ Len(rowEvents) <= 4 /\ Len(rowEvents) = 4
          /\ Len(rowEvents) # 1 /\ Len(rowEvents) # 2 /\ Len(rowEvents) # 3
      BY <1>4, <2>2
    <3>2. /\ Packs!EndIsValid(rowEvents[4], e)
          /\ r.state = IF e.type = "PACK_EXPORT_COMPLETED"
                       THEN "export_completed" ELSE "export_interrupted"
      BY <1>1, <1>3, <1>7, <2>2
    <3> QED BY <1>3, <1>4, <1>7, <3>1, <3>2, Grows
  <2> QED BY <1>6, <2>1, <2>2
<1>10. \A o \in Callers : Evaluates(o)' => Evaluates(o) /\ caller[o].pc = "reading"
  BY <1>2, <1>8 DEF CallersInv, Evaluates
<1> QED BY <1>2, <1>3, <1>7, <1>8, <1>9, <1>10, RowMoves

LEMMA BeginKeeps == PacksInv /\ Packs!BeginNativeExport => PacksInv'
<1> SUFFICES ASSUME PacksInv, Packs!BeginNativeExport PROVE PacksInv'
  OBVIOUS
<1>1. PICK e : e = Packs!Event("PACK_EXPORT_STARTED", clock, clock, clock, Nil)
  OBVIOUS
<1>2. /\ row # Nil /\ row.state = "decided_allow" /\ row.seq = 3
      /\ rowEvents[3].verdict = "allow" /\ rowEvents[3].until <= clock
      /\ clock < rowEvents[1].until /\ clock < rowEvents[2].until
      /\ Packs!NativeWrites("export_started", "PACK_EXPORT_STARTED")
  BY DEF Packs!BeginNativeExport, Packs!Decision, Packs!InWindow, Packs!Proposal, Packs!Approval
<1>3. e.type = "PACK_EXPORT_STARTED" /\ e.at = clock /\ e.from = clock
  BY <1>1 DEF Packs!Event
<1>4. Packs!StartIsValid(rowEvents[1], rowEvents[2], rowEvents[3], e)
  BY <1>2, <1>3 DEF Packs!StartIsValid
<1>5. "PACK_EXPORT_STARTED" \in Packs!EventTypes
  BY DEF Packs!EventTypes
<1> QED BY <1>1, <1>2, <1>4, <1>5, NativeWritesKeep

LEMMA EndKeeps ==
  ASSUME PacksInv, Packs!RecordNativeExportCompleted \/ Packs!RecordNativeExportInterrupted
  PROVE  PacksInv'
<1>1. PICK state, type :
        /\ Packs!EndNativeExport(state, type)
        /\ \/ state = "export_completed" /\ type = "PACK_EXPORT_COMPLETED"
           \/ state = "export_interrupted" /\ type = "PACK_EXPORT_INTERRUPTED"
  BY DEF Packs!RecordNativeExportCompleted, Packs!RecordNativeExportInterrupted
<1>2. PICK e : e = Packs!Event(type, clock, clock, clock, Nil)
  OBVIOUS
<1>3. /\ row # Nil /\ row.state = "export_started" /\ row.seq = 4
      /\ rowEvents[4].from <= clock /\ Packs!NativeWrites(state, type)
  BY <1>1 DEF Packs!EndNativeExport
<1>4. e.type = type /\ e.at = clock /\ e.from = clock
  BY <1>2 DEF Packs!Event
<1>5. Packs!EndIsValid(rowEvents[4], e)
  BY <1>1, <1>3, <1>4 DEF Packs!EndIsValid
<1>6. /\ state \in {"export_started", "export_completed", "export_interrupted"}
      /\ type \in Packs!EventTypes
      /\ state = IF type = "PACK_EXPORT_COMPLETED"
                 THEN "export_completed" ELSE "export_interrupted"
  BY <1>1 DEF Packs!EventTypes
<1> QED BY <1>2, <1>3, <1>5, <1>6, NativeWritesKeep

\* The clock moves, or a restart forgets the callers.
LEMMA ClockKeeps ==
  ASSUME PacksInv, clock' \in 0 .. MaxTime, setbacks' \in 0 .. MaxSetbacks,
         UNCHANGED <<row, rowEvents>>,
         \/ UNCHANGED <<evaluating, caller>>
         \/ evaluating' = FALSE /\ caller' = [c \in Callers |-> Packs!Idle]
  PROVE  PacksInv'
<1>1. /\ row \in Packs!OperationRow \cup {Nil} /\ rowEvents \in Seq(Packs!EventRecord)
      /\ evaluating \in BOOLEAN /\ caller \in [Callers -> CallerRecord]
      /\ row # Nil => Packs!Reconstructs(row, rowEvents)
      /\ CallersInv
  BY PacksFacts
<1>2. row' # Nil => Packs!Reconstructs(row', rowEvents')
  BY <1>1
<1>3. CASE UNCHANGED <<evaluating, caller>>
  <2>1. CallersInv'
    BY <1>1, <1>3 DEF CallersInv, Evaluates
  <2> QED BY <1>1, <1>2, <1>3, <2>1, PacksHold
<1>4. CASE evaluating' = FALSE /\ caller' = [c \in Callers |-> Packs!Idle]
  <2>1. caller' \in [Callers -> CallerRecord] /\ \A c \in Callers : caller'[c].pc = "idle"
    BY <1>4, IdleFacts DEF IdleCaller
  <2>2. CallersInv'
    BY <2>1 DEF CallersInv, Evaluates
  <2> QED BY <1>1, <1>2, <1>4, <2>1, <2>2, PacksHold
<1> QED BY <1>3, <1>4

LEMMA PacksKeep == PacksInv /\ Packs!Next => PacksInv'
<1> SUFFICES ASSUME PacksInv, Packs!Next PROVE PacksInv'
  OBVIOUS
<1>1. clock \in 0 .. MaxTime /\ setbacks \in 0 .. MaxSetbacks
  BY PacksFacts
<1>2. CASE Packs!Tick
  <2>1. clock' \in 0 .. MaxTime
    BY <1>1, <1>2, RuntimeBoundsAreNat DEF Packs!Tick
  <2> QED BY <1>1, <1>2, <2>1, ClockKeeps DEF Packs!Tick
<1>3. CASE Packs!SetBack
  <2>1. clock' \in 0 .. MaxTime /\ setbacks' \in 0 .. MaxSetbacks
    BY <1>1, <1>3, RuntimeBoundsAreNat DEF Packs!SetBack
  <2> QED BY <1>3, <2>1, ClockKeeps DEF Packs!SetBack
<1>4. CASE Packs!Restart
  BY <1>1, <1>4, ClockKeeps DEF Packs!Restart
<1> QED BY <1>2, <1>3, <1>4, CreateKeeps, ConfirmKeeps, EvaluateKeeps, AppendConfirmationKeeps,
           EvaluationKeeps, AppendDecisionKeeps, BeginKeeps, EndKeeps DEF Packs!Next, Packs!Step

LEMMA PacksStutter ==
  ASSUME PacksInv, UNCHANGED packsVars
  PROVE  PacksInv'
<1>1. UNCHANGED <<clock, setbacks, row, rowEvents, evaluating, caller>>
  BY DEF packsVars
<1> QED BY <1>1, PacksFacts, ClockKeeps

LEMMA PacksSay ==
  PacksInv => Packs!TypeOK /\ Packs!RowsReadBack /\ Packs!AsksOnceConfirmed
BY DEF PacksInv, CallersInv, Evaluates, Packs!AsksOnceConfirmed

-----------------------------------------------------------------------------
(* ManagedRuntime: the inductive invariant.                                *)

Installers == {"building", "aside", "inspecting"}
Operations == Python!Kinds \cup Installers \cup {"idle", "removing", "deleting"}
Bridges == {"idle", "decide", "check", "running"}
Views == [info : {"Loading", "NotInstalled", "Ready", "Broken"}, busy : {"no", "op", "check"}]

PythonTyped ==
    /\ Python!TypeOK
    /\ operation \in [Instances -> Operations] /\ bridge \in [Instances -> Bridges]
    /\ view \in [Instances -> Views]
    /\ keptRuntime \in BOOLEAN /\ pythonCrashes \in Nat /\ failures \in Nat

\* The lock is the installer's until it returns or dies; while it has moved a runtime
\* aside there is none in its place.
InstallInv ==
    /\ \A i \in Instances :
         /\ operation[i] \in Installers => installLock = i
         /\ operation[i] \in {"building", "aside"} => installing = {i}
         /\ operation[i] = "inspecting" => installing = {}
         /\ operation[i] = "aside" => profileDirectory = "absent"
    /\ movedAside # "absent" => \E i \in Instances : operation[i] = "aside"

PythonInv == PythonTyped /\ InstallInv /\ Python!InstalledStays

LEMMA PythonFacts ==
  ASSUME PythonInv
  PROVE  /\ profileDirectory \in Python!Profiles /\ movedAside \in Python!Profiles
         /\ installing \subseteq Instances /\ installLock \in Instances \cup {Nil}
         /\ operation \in [Instances -> Operations] /\ bridge \in [Instances -> Bridges]
         /\ view \in [Instances -> Views]
         /\ keptRuntime \in BOOLEAN /\ pythonCrashes \in Nat /\ failures \in Nat
         /\ InstallInv /\ Python!InstalledStays
BY DEF PythonInv, PythonTyped, Python!TypeOK

LEMMA PythonHolds ==
  ASSUME profileDirectory' \in Python!Profiles, movedAside' \in Python!Profiles,
         installing' \subseteq Instances, installLock' \in Instances \cup {Nil},
         operation' \in [Instances -> Operations], bridge' \in [Instances -> Bridges],
         view' \in [Instances -> Views],
         keptRuntime' \in BOOLEAN, pythonCrashes' \in Nat, failures' \in Nat,
         InstallInv', Python!InstalledStays'
  PROVE  PythonInv'
<1>1. \A i \in Instances :
        /\ operation'[i] \in Operations /\ bridge'[i] \in Bridges
        /\ view'[i].info \in {"Loading", "NotInstalled", "Ready", "Broken"}
        /\ view'[i].busy \in {"no", "op", "check"}
  BY DEF Views
<1>2. Python!TypeOK'
  BY <1>1 DEF Python!TypeOK, Operations, Installers, Bridges
<1> QED BY <1>2 DEF PythonInv, PythonTyped

LEMMA PythonInit == Python!Init => PythonInv
<1> SUFFICES ASSUME Python!Init PROVE PythonInv
  OBVIOUS
<1>1. /\ operation \in [Instances -> Operations] /\ bridge \in [Instances -> Bridges]
      /\ \A i \in Instances : operation[i] = "idle"
  BY DEF Python!Init, Operations, Bridges
<1>2. view \in [Instances -> Views]
  BY DEF Python!Init, Views
<1>3. \A i \in Instances : view[i].info = "Loading" /\ view[i].busy = "no" /\ bridge[i] = "idle"
  BY DEF Python!Init
<1>4. Python!TypeOK
  BY <1>1, <1>3 DEF Python!Init, Python!TypeOK, Python!Profiles
<1>5. InstallInv
  BY <1>1 DEF Python!Init, InstallInv, Installers
<1> QED BY <1>1, <1>2, <1>4, <1>5 DEF Python!Init, PythonInv, PythonTyped, Python!InstalledStays

\* One instance installs at a time.
LEMMA OneInstalls ==
  ASSUME PythonInv, NEW i \in Instances, NEW j \in Instances,
         operation[i] \in Installers, operation[j] \in Installers
  PROVE  i = j
BY PythonFacts DEF InstallInv

LEMMA Inspected ==
  ASSUME NEW p
  PROVE  Python!Inspect(p) \in {"NotInstalled", "Ready", "Broken"}
BY DEF Python!Inspect

LEMMA ViewMoves ==
  ASSUME PythonInv, NEW i \in Instances,
         NEW x \in {"Loading", "NotInstalled", "Ready", "Broken"},
         NEW b \in {"no", "op", "check"}
  PROVE  /\ [view EXCEPT ![i] = [info |-> x, busy |-> b]] \in [Instances -> Views]
         /\ [view EXCEPT ![i].info = x] \in [Instances -> Views]
         /\ [view EXCEPT ![i].busy = b] \in [Instances -> Views]
         /\ view[i].info \in {"Loading", "NotInstalled", "Ready", "Broken"}
<1>1. view \in [Instances -> Views]
  BY PythonFacts
<1>2. view[i] \in Views
  BY <1>1
<1>3. /\ [info |-> x, busy |-> b] \in Views
      /\ [view[i] EXCEPT !.info = x] \in Views
      /\ [view[i] EXCEPT !.busy = b] \in Views
      /\ view[i].info \in {"Loading", "NotInstalled", "Ready", "Broken"}
  BY <1>2 DEF Views
<1> QED BY <1>1, <1>3

LEMMA ReturnMoves ==
  ASSUME PythonInv, NEW i \in Instances, NEW found, Python!Return(i, found)
  PROVE  operation' = [operation EXCEPT ![i] = "idle"] /\ view' \in [Instances -> Views]
<1>1. Python!Inspect(found) \in {"Loading", "NotInstalled", "Ready", "Broken"}
  BY Inspected
<1>2. [view EXCEPT ![i] = [info |-> Python!Inspect(found), busy |-> "no"]]
        \in [Instances -> Views]
  BY <1>1, ViewMoves
<1> QED BY <1>2, PythonFacts DEF Python!Return

LEMMA SessionEnds ==
  ASSUME PythonInv, NEW i \in Instances,
         NEW x \in {"Loading", "NotInstalled", "Ready", "Broken"}, Python!EndSession(i, x)
  PROVE  bridge' \in [Instances -> Bridges] /\ view' \in [Instances -> Views]
<1>1. [view EXCEPT ![i] = [info |-> x, busy |-> "no"]] \in [Instances -> Views]
  BY ViewMoves
<1> QED BY <1>1, PythonFacts DEF Python!EndSession, Bridges

\* Nothing on disk moves, and nobody begins or ends an install.
LEMMA DiskStands ==
  ASSUME PythonInv,
         UNCHANGED <<profileDirectory, movedAside, installing, installLock, keptRuntime>>,
         UNCHANGED <<pythonCrashes, failures>>,
         operation' \in [Instances -> Operations], bridge' \in [Instances -> Bridges],
         view' \in [Instances -> Views],
         \A j \in Instances : \/ operation'[j] = operation[j]
                              \/ operation[j] \notin Installers /\ operation'[j] \notin Installers
  PROVE  PythonInv'
<1>1. InstallInv'
  BY PythonFacts DEF InstallInv, Installers
<1>2. Python!InstalledStays'
  BY PythonFacts DEF Python!InstalledStays
<1> QED BY <1>1, <1>2, PythonFacts, PythonHolds

\* The same, of a step of one operation that installs nothing.
LEMMA OperationMoves ==
  ASSUME PythonInv, NEW i \in Instances, NEW o \in Operations \ Installers,
         operation[i] \notin Installers, operation' = [operation EXCEPT ![i] = o]
  PROVE  /\ operation' \in [Instances -> Operations]
         /\ \A j \in Instances :
              \/ operation'[j] = operation[j]
              \/ operation[j] \notin Installers /\ operation'[j] \notin Installers
BY PythonFacts

LEMMA PythonStutters ==
  ASSUME PythonInv, UNCHANGED pythonVars
  PROVE  PythonInv'
<1>1. UNCHANGED <<profileDirectory, movedAside, installing, installLock, keptRuntime>>
      /\ UNCHANGED <<pythonCrashes, failures, operation, bridge, view>>
  BY DEF pythonVars
<1> QED BY <1>1, PythonFacts, DiskStands

-----------------------------------------------------------------------------
(* The settings view and the bridge. *)

LEMMA OpenKeeps ==
  ASSUME PythonInv, NEW i \in Instances, Python!Open(i)
  PROVE  PythonInv'
<1>1. view' \in [Instances -> Views]
  BY Inspected, ViewMoves DEF Python!Open
<1> QED BY <1>1, PythonFacts, DiskStands DEF Python!Open, Python!disk, Python!session, Python!bounds

LEMMA AskKeeps ==
  ASSUME PythonInv, NEW i \in Instances, NEW kind \in Python!Kinds, Python!Ask(i, kind)
  PROVE  PythonInv'
<1>0. UNCHANGED <<profileDirectory, movedAside, installing, installLock, keptRuntime>>
      /\ UNCHANGED <<pythonCrashes, failures, bridge>>
  BY DEF Python!Ask, Python!disk, Python!session
<1>1. CASE operation[i] = "idle"
  <2>1. operation' = [operation EXCEPT ![i] = kind] /\ view' = [view EXCEPT ![i].busy = "op"]
    BY <1>1 DEF Python!Ask
  <2>2. kind \in Operations \ Installers
    BY DEF Python!Kinds, Operations, Installers
  <2>3. view' \in [Instances -> Views]
    BY <2>1, ViewMoves
  <2>4. operation[i] \notin Installers
    BY <1>1 DEF Installers
  <2> QED BY <1>0, <2>1, <2>2, <2>3, <2>4, OperationMoves, PythonFacts, DiskStands
<1>2. CASE operation[i] # "idle"
  <2>1. UNCHANGED operation
        /\ view' = [view EXCEPT ![i].info = Python!Inspect(profileDirectory)]
    BY <1>2 DEF Python!Ask
  <2>2. view' \in [Instances -> Views]
    BY <2>1, Inspected, ViewMoves
  <2> QED BY <1>0, <2>1, <2>2, PythonFacts, DiskStands
<1> QED BY <1>1, <1>2

LEMMA BridgeKeeps ==
  ASSUME PythonInv, NEW i \in Instances,
         \/ Python!Decide(i) \/ Python!Abort(i) \/ Python!SelfCheck(i)
         \/ Python!Spawn(i) \/ Python!Answer(i) \/ Python!TimesOut(i)
  PROVE  PythonInv'
<1>1. UNCHANGED <<profileDirectory, movedAside, installing, installLock, keptRuntime>>
      /\ UNCHANGED <<pythonCrashes, failures, operation>>
  BY DEF Python!Decide, Python!Abort, Python!SelfCheck, Python!Spawn, Python!Answer,
         Python!TimesOut, Python!disk, Python!bounds
<1>2. bridge' \in [Instances -> Bridges] /\ view' \in [Instances -> Views]
  <2>1. view[i].info \in {"Loading", "NotInstalled", "Ready", "Broken"}
    BY ViewMoves
  <2>2. CASE Python!Decide(i) \/ Python!Abort(i)
    BY <2>2, PythonFacts DEF Python!Decide, Python!Abort, Bridges
  <2>3. CASE Python!SelfCheck(i)
    <3>1. [view EXCEPT ![i].busy = "check"] \in [Instances -> Views]
      BY ViewMoves
    <3> QED BY <2>3, <3>1, PythonFacts DEF Python!SelfCheck, Bridges
  <2>4. CASE Python!Spawn(i)
    <3>1. CASE Python!EndSession(i, view[i].info)
      BY <2>1, <3>1, SessionEnds
    <3> QED BY <2>4, <3>1, PythonFacts DEF Python!Spawn, Bridges
  <2>5. CASE Python!Answer(i)
    <3>1. PICK x \in {Python!Inspect(profileDirectory), view[i].info} : Python!EndSession(i, x)
      BY <2>5 DEF Python!Answer
    <3>2. x \in {"Loading", "NotInstalled", "Ready", "Broken"}
      BY <2>1, Inspected
    <3> QED BY <3>1, <3>2, SessionEnds
  <2>6. CASE Python!TimesOut(i)
    BY <2>1, <2>6, SessionEnds DEF Python!TimesOut
  <2> QED BY <2>2, <2>3, <2>4, <2>5, <2>6
<1> QED BY <1>1, <1>2, PythonFacts, DiskStands

-----------------------------------------------------------------------------
(* Installing. *)

LEMMA LockKeeps ==
  ASSUME PythonInv, NEW i \in Instances, Python!Lock(i)
  PROVE  PythonInv'
<1>1. /\ operation[i] \notin Installers
      /\ UNCHANGED <<profileDirectory, movedAside, keptRuntime, bridge, pythonCrashes, failures>>
  BY DEF Python!Lock, Python!session, Python!bounds, Installers
<1>2. CASE installLock = Nil
  <2>1. /\ installLock' = i /\ installing' = {i} /\ UNCHANGED view
        /\ operation' = [operation EXCEPT ![i] = "building"]
    BY <1>2 DEF Python!Lock
  <2>2. operation' \in [Instances -> Operations]
    BY <2>1, PythonFacts DEF Operations, Installers
  <2>3. \A j \in Instances : operation[j] \notin Installers
    BY <1>2, NilIsAbsent, PythonFacts DEF InstallInv
  <2>4. \A j \in Instances : IF j = i THEN operation'[j] = "building"
                                     ELSE operation'[j] \notin Installers
    BY <2>1, <2>3, PythonFacts
  <2>5. movedAside = "absent"
    BY <2>3, PythonFacts DEF InstallInv, Installers
  <2>6. InstallInv'
    BY <1>1, <2>1, <2>4, <2>5 DEF InstallInv, Installers
  <2>7. Python!InstalledStays'
    BY <1>1, PythonFacts DEF Python!InstalledStays
  <2> QED BY <1>1, <2>1, <2>2, <2>6, <2>7, PythonFacts, PythonHolds
<1>3. CASE installLock # Nil
  <2>1. Python!Return(i, profileDirectory) /\ UNCHANGED <<installLock, installing>>
    BY <1>3 DEF Python!Lock
  <2>2. "idle" \in Operations \ Installers
    BY DEF Operations, Installers
  <2>3. operation' = [operation EXCEPT ![i] = "idle"] /\ view' \in [Instances -> Views]
    BY <2>1, ReturnMoves
  <2> QED BY <1>1, <2>1, <2>2, <2>3, OperationMoves, PythonFacts, DiskStands
<1> QED BY <1>2, <1>3

\* An install comes to its end: its directory is gone, the lock free, nothing is aside.
LEMMA InstallEnds ==
  ASSUME PythonInv, NEW i \in Instances, operation[i] \in Installers,
         operation' = [operation EXCEPT ![i] = "idle"],
         installLock' = Nil, movedAside' = "absent", installing' \subseteq Instances,
         profileDirectory' \in Python!Profiles, bridge' \in [Instances -> Bridges],
         view' \in [Instances -> Views],
         pythonCrashes' \in Nat, failures' \in Nat, UNCHANGED keptRuntime,
         Python!InstalledStays'
  PROVE  PythonInv'
<1>1. \A j \in Instances : operation'[j] \notin Installers
  BY OneInstalls, PythonFacts DEF Installers
<1>2. InstallInv'
  BY <1>1 DEF InstallInv, Installers
<1>3. operation' \in [Instances -> Operations]
  BY PythonFacts DEF Operations
<1>4. movedAside' \in Python!Profiles
  BY DEF Python!Profiles
<1> QED BY <1>2, <1>3, <1>4, PythonFacts, PythonHolds

\* Only the one whose promotion moved a runtime aside has one there.
LEMMA AsideIsHis ==
  ASSUME PythonInv, NEW i \in Instances, operation[i] \in {"building", "inspecting"}
  PROVE  movedAside = "absent"
BY OneInstalls, PythonFacts DEF InstallInv, Installers

LEMMA InstallFailsKeeps ==
  ASSUME PythonInv, NEW i \in Instances,
         \/ Python!BuildFails(i) \/ Python!Installed(i)
         \/ Python!PutBack(i) \/ Python!NothingPutBack(i)
  PROVE  PythonInv'
<1>1. /\ operation[i] \in Installers /\ UNCHANGED <<keptRuntime, bridge, pythonCrashes>>
      /\ installLock' = Nil /\ installing' \subseteq installing
  BY DEF Python!BuildFails, Python!Installed, Python!PutBack, Python!NothingPutBack, Python!Fail,
         Python!session, Python!bounds, Installers
<1>2. PICK found : Python!Return(i, found)
  BY DEF Python!BuildFails, Python!Installed, Python!PutBack, Python!NothingPutBack, Python!Fail
<1>3. operation' = [operation EXCEPT ![i] = "idle"] /\ view' \in [Instances -> Views]
  BY <1>2, ReturnMoves
<1>4. /\ movedAside' = "absent" /\ profileDirectory' \in Python!Profiles
      /\ failures' \in Nat /\ Python!InstalledStays'
  <2>1. CASE Python!BuildFails(i) \/ Python!Installed(i)
    <3>1. /\ operation[i] \in {"building", "inspecting"}
          /\ UNCHANGED <<profileDirectory, movedAside, failures>>
      BY <2>1 DEF Python!BuildFails, Python!Installed, Python!bounds
    <3>2. movedAside = "absent"
      BY <3>1, AsideIsHis
    <3> QED BY <1>1, <3>1, <3>2, PythonFacts DEF Python!InstalledStays
  <2>2. CASE Python!PutBack(i)
    <3>1. /\ operation[i] = "aside" /\ failures' = failures + 1
          /\ profileDirectory' = movedAside /\ movedAside' = "absent"
      BY <2>2 DEF Python!PutBack, Python!Fails
    <3>2. profileDirectory = "absent"
      BY <3>1, PythonFacts DEF InstallInv
    <3> QED BY <1>1, <3>1, <3>2, PythonFacts DEF Python!InstalledStays
  <2>3. CASE Python!NothingPutBack(i)
    <3>1. failures' = failures + 2 /\ movedAside' = "absent" /\ UNCHANGED profileDirectory
      BY <2>3 DEF Python!NothingPutBack
    <3>2. failures' \in Nat /\ ~(failures' < 2)
      BY <3>1, PythonFacts
    <3> QED BY <3>1, <3>2, PythonFacts DEF Python!InstalledStays
  <2> QED BY <2>1, <2>2, <2>3
<1>5. /\ installing' \subseteq Instances /\ bridge' \in [Instances -> Bridges]
      /\ pythonCrashes' \in Nat
  BY <1>1, PythonFacts
<1> QED BY <1>1, <1>3, <1>4, <1>5, InstallEnds

LEMMA PromoteKeeps ==
  ASSUME PythonInv, NEW i \in Instances, Python!Promote(i) \/ Python!Land(i)
  PROVE  PythonInv'
<1>1. /\ operation[i] \in {"building", "aside"}
      /\ UNCHANGED <<installLock, bridge, view, pythonCrashes, failures>>
  BY DEF Python!Promote, Python!Land, Python!session, Python!bounds
<1>2. installLock = i /\ installing = {i}
  BY <1>1, PythonFacts DEF InstallInv, Installers
<1>3. \A j \in Instances : operation[j] \in Installers => j = i
  BY <1>2, PythonFacts DEF InstallInv
<1>4. CASE /\ operation[i] = "building" /\ profileDirectory # "absent"
           /\ Python!Promote(i)
  <2>1. /\ movedAside' = profileDirectory /\ profileDirectory' = "absent"
        /\ operation' = [operation EXCEPT ![i] = "aside"]
        /\ UNCHANGED <<keptRuntime, installing>>
    BY <1>4 DEF Python!Promote
  <2>2. movedAside = "absent"
    BY <1>4, AsideIsHis
  <2>3. \A j \in Instances : IF j = i THEN operation'[j] = "aside"
                                     ELSE operation'[j] \notin Installers
    BY <1>3, <2>1, PythonFacts
  <2>4. InstallInv'
    BY <1>1, <1>2, <2>1, <2>3 DEF InstallInv, Installers
  <2>5. Python!InstalledStays'
    BY <1>1, <2>1, <2>2, PythonFacts DEF Python!InstalledStays
  <2>6. operation' \in [Instances -> Operations] /\ "absent" \in Python!Profiles
    BY <2>1, PythonFacts DEF Operations, Installers, Python!Profiles
  <2> QED BY <1>1, <2>1, <2>4, <2>5, <2>6, PythonFacts, PythonHolds
<1>5. CASE \/ Python!Land(i)
           \/ Python!Promote(i) /\ profileDirectory = "absent"
  <2>1. /\ profileDirectory' = "whole" /\ keptRuntime' = TRUE
        /\ installing' = installing \ {i}
        /\ operation' = [operation EXCEPT ![i] = "inspecting"]
    BY <1>5 DEF Python!Promote, Python!Land
  <2>2. movedAside' = "absent"
    <3>1. CASE Python!Land(i)
      BY <3>1 DEF Python!Land
    <3>2. CASE Python!Promote(i) /\ profileDirectory = "absent"
      BY <3>2, AsideIsHis DEF Python!Promote
    <3> QED BY <1>5, <3>1, <3>2
  <2>3. \A j \in Instances : IF j = i THEN operation'[j] = "inspecting"
                                     ELSE operation'[j] \notin Installers
    BY <1>3, <2>1, PythonFacts
  <2>4. installing' = {}
    BY <1>2, <2>1
  <2>5. InstallInv'
    BY <1>1, <1>2, <2>2, <2>3, <2>4 DEF InstallInv, Installers
  <2>6. Python!InstalledStays'
    BY <2>1 DEF Python!InstalledStays
  <2>7. /\ operation' \in [Instances -> Operations]
        /\ "absent" \in Python!Profiles /\ "whole" \in Python!Profiles
    BY <2>1, PythonFacts DEF Operations, Installers, Python!Profiles
  <2> QED BY <1>1, <2>1, <2>2, <2>4, <2>5, <2>6, <2>7, PythonFacts, PythonHolds
<1> QED BY <1>4, <1>5 DEF Python!Promote, Python!Land

-----------------------------------------------------------------------------
(* Verifying, removing, and what happens to an instance and to the directory. *)

LEMMA VerifyKeeps ==
  ASSUME PythonInv, NEW i \in Instances, Python!Verify(i) \/ Python!CheckBridge(i)
  PROVE  PythonInv'
<1>1. /\ operation[i] \notin Installers
      /\ UNCHANGED <<profileDirectory, movedAside, installing, installLock, keptRuntime>>
      /\ UNCHANGED <<pythonCrashes, failures, bridge>>
  BY DEF Python!Verify, Python!CheckBridge, Python!disk, Python!session, Python!bounds, Installers
<1>2. /\ "idle" \in Operations \ Installers /\ "removing" \in Operations \ Installers
  BY DEF Operations, Installers
<1>3. CASE Python!Return(i, profileDirectory)
  <2>1. operation' = [operation EXCEPT ![i] = "idle"] /\ view' \in [Instances -> Views]
    BY <1>3, ReturnMoves
  <2> QED BY <1>1, <1>2, <2>1, OperationMoves, PythonFacts, DiskStands
<1>4. CASE operation' = [operation EXCEPT ![i] = "removing"] /\ UNCHANGED view
  BY <1>1, <1>2, <1>4, OperationMoves, PythonFacts, DiskStands
<1> QED BY <1>3, <1>4 DEF Python!Verify, Python!CheckBridge

\* A directory that is there loses its first file, or the last: nobody is promoting one.
LEMMA DirectoryGoes ==
  ASSUME PythonInv, NEW i \in Instances, NEW o \in Operations \ Installers,
         operation[i] \notin Installers, operation' = [operation EXCEPT ![i] = o],
         UNCHANGED <<movedAside, installing, installLock, bridge, pythonCrashes, failures>>,
         view' \in [Instances -> Views], profileDirectory # "absent",
         profileDirectory' \in Python!Profiles, keptRuntime' \in BOOLEAN,
         Python!InstalledStays'
  PROVE  PythonInv'
<1>1. /\ operation' \in [Instances -> Operations]
      /\ \A j \in Instances :
           \/ operation'[j] = operation[j]
           \/ operation[j] \notin Installers /\ operation'[j] \notin Installers
  BY OperationMoves
<1>2. \A j \in Instances : operation[j] # "aside"
  BY PythonFacts DEF InstallInv
<1>3. InstallInv'
  BY <1>1, <1>2, PythonFacts DEF InstallInv, Installers
<1> QED BY <1>1, <1>3, PythonFacts, PythonHolds

LEMMA RemoveKeeps ==
  ASSUME PythonInv, NEW i \in Instances, Python!Remove(i) \/ Python!Removed(i)
  PROVE  PythonInv'
<1>1. /\ operation[i] \notin Installers
      /\ UNCHANGED <<movedAside, installing, installLock, bridge, pythonCrashes, failures>>
  BY DEF Python!Remove, Python!Removed, Python!session, Python!bounds, Installers
<1>2. /\ "idle" \in Operations \ Installers /\ "deleting" \in Operations \ Installers
      /\ {"absent", "partial"} \subseteq Python!Profiles
  BY DEF Operations, Installers, Python!Profiles
<1>3. CASE Python!Remove(i) /\ profileDirectory # "absent"
  <2>1. /\ profileDirectory' = "partial" /\ keptRuntime' = FALSE /\ UNCHANGED view
        /\ operation' = [operation EXCEPT ![i] = "deleting"]
    BY <1>3 DEF Python!Remove
  <2>2. Python!InstalledStays'
    BY <2>1 DEF Python!InstalledStays
  <2> QED BY <1>1, <1>2, <1>3, <2>1, <2>2, PythonFacts, DirectoryGoes
<1>4. CASE Python!Remove(i) /\ profileDirectory = "absent"
  <2>1. Python!Return(i, profileDirectory) /\ UNCHANGED <<profileDirectory, keptRuntime>>
    BY <1>4 DEF Python!Remove
  <2>2. operation' = [operation EXCEPT ![i] = "idle"] /\ view' \in [Instances -> Views]
    BY <2>1, ReturnMoves
  <2> QED BY <1>1, <1>2, <2>1, <2>2, OperationMoves, PythonFacts, DiskStands
<1>5. CASE Python!Removed(i)
  <2>1. Python!Return(i, profileDirectory') /\ UNCHANGED keptRuntime
    BY <1>5 DEF Python!Removed
  <2>2. operation' = [operation EXCEPT ![i] = "idle"] /\ view' \in [Instances -> Views]
    BY <2>1, ReturnMoves
  <2>3. CASE profileDirectory = "partial"
    <3>1. profileDirectory' \in {"partial", "absent"}
      BY <1>5, <2>3 DEF Python!Removed
    <3>2. Python!InstalledStays'
      BY <1>1, <2>1, <2>3, PythonFacts DEF Python!InstalledStays
    <3> QED BY <1>1, <1>2, <2>1, <2>2, <2>3, <3>1, <3>2, PythonFacts, DirectoryGoes
  <2>4. CASE profileDirectory # "partial"
    <3>1. UNCHANGED profileDirectory
      BY <1>5, <2>4 DEF Python!Removed
    <3> QED BY <1>1, <1>2, <2>1, <2>2, <3>1, OperationMoves, PythonFacts, DiskStands
  <2> QED BY <2>3, <2>4
<1> QED BY <1>3, <1>4, <1>5

LEMMA CrashKeeps ==
  ASSUME PythonInv, NEW i \in Instances, Python!Crash(i)
  PROVE  PythonInv'
<1>1. /\ operation' = [operation EXCEPT ![i] = "idle"]
      /\ bridge' = [bridge EXCEPT ![i] = "idle"]
      /\ view' = [view EXCEPT ![i] = [info |-> "Loading", busy |-> "no"]]
      /\ installLock' = IF installLock = i THEN Nil ELSE installLock
      /\ movedAside' = IF operation[i] = "aside" THEN "absent" ELSE movedAside
      /\ UNCHANGED <<profileDirectory, installing, keptRuntime, failures>>
      /\ pythonCrashes' = pythonCrashes + 1
  BY DEF Python!Crash
<1>2. operation' \in [Instances -> Operations] /\ bridge' \in [Instances -> Bridges]
  BY <1>1, PythonFacts DEF Operations, Bridges
<1>3. view' \in [Instances -> Views]
  BY <1>1, ViewMoves
<1>4. /\ installLock' \in Instances \cup {Nil} /\ movedAside' \in Python!Profiles
      /\ pythonCrashes' \in Nat /\ pythonCrashes' # 0
  BY <1>1, PythonFacts DEF Python!Profiles
<1>5. \A j \in Instances : operation'[j] = IF j = i THEN "idle" ELSE operation[j]
  BY <1>1, PythonFacts
<1>6. InstallInv'
  <2>1. ASSUME NEW j \in Instances
        PROVE  /\ operation'[j] \in Installers => installLock' = j
               /\ operation'[j] \in {"building", "aside"} => installing' = {j}
               /\ operation'[j] = "inspecting" => installing' = {}
               /\ operation'[j] = "aside" => profileDirectory' = "absent"
    BY <1>1, <1>5, PythonFacts DEF InstallInv, Installers
  <2>2. ASSUME movedAside' # "absent"
        PROVE  \E j \in Instances : operation'[j] = "aside"
    <3>1. operation[i] # "aside" /\ movedAside # "absent"
      BY <1>1, <2>2
    <3>2. PICK j \in Instances : operation[j] = "aside"
      BY <3>1, PythonFacts DEF InstallInv
    <3> QED BY <1>5, <3>1, <3>2
  <2> QED BY <2>1, <2>2 DEF InstallInv
<1>7. Python!InstalledStays'
  BY <1>4 DEF Python!InstalledStays
<1> QED BY <1>1, <1>2, <1>3, <1>4, <1>6, <1>7, PythonFacts, PythonHolds

LEMMA DamageKeeps ==
  ASSUME PythonInv, Python!Damage
  PROVE  PythonInv'
<1>1. /\ profileDirectory = "whole" /\ profileDirectory' = "broken" /\ keptRuntime' = FALSE
      /\ failures' = failures + 1
      /\ UNCHANGED <<movedAside, installing, installLock, operation, bridge, view, pythonCrashes>>
  BY DEF Python!Damage, Python!Fails, Python!session
<1>2. InstallInv'
  BY <1>1, PythonFacts DEF InstallInv
<1>3. Python!InstalledStays' /\ profileDirectory' \in Python!Profiles
  BY <1>1 DEF Python!InstalledStays, Python!Profiles
<1>4. failures' \in Nat
  BY <1>1, PythonFacts
<1> QED BY <1>1, <1>2, <1>3, <1>4, PythonFacts, PythonHolds

LEMMA PythonKeeps == PythonInv /\ Python!Next => PythonInv'
BY OpenKeeps, AskKeeps, BridgeKeeps, LockKeeps, InstallFailsKeeps, PromoteKeeps, VerifyKeeps,
   RemoveKeeps, CrashKeeps, DamageKeeps DEF Python!Next, Python!OpStep

LEMMA PythonSays ==
  PythonInv => /\ Python!TypeOK /\ Python!InstallsStand
               /\ Python!InstalledStays /\ Python!NothingLeftBehind
BY DEF PythonInv, PythonTyped, InstallInv, Installers, Python!InstallsStand,
       Python!NothingLeftBehind

-----------------------------------------------------------------------------
(* HarnessBackend implements BackendContract.                              *)

CallIs(c) ==
    IF c \in terminalCalls THEN "closed"
    ELSE IF submitted[c] # Harness!None THEN "answered"
    ELSE IF c \in pending THEN "asked" ELSE "none"

LEMMA StateOfCalls ==
  ASSUME NEW x \in {"none", "asked", "answered", "closed"}, NEW c \in HarnessCalls,
         CallIs(c)' = x, \A o \in HarnessCalls \ {c} : CallIs(o)' = CallIs(o)
  PROVE  /\ Harness!CallState' = [Harness!CallState EXCEPT ![c] = x]
         /\ Harness!CallState[c] = CallIs(c)
BY DEF Harness!CallState, CallIs

LEMMA SameCalls ==
  ASSUME UNCHANGED <<submitted, pending, terminalCalls>>
  PROVE  Harness!CallState' = Harness!CallState
BY DEF Harness!CallState

\* The steps of the contract, of the calls as the backend sees them.
LEMMA ContractSteps ==
  ASSUME part = "harness", part' = "harness"
  PROVE  /\ Harness!CallState' = Harness!CallState /\ terminalTurns' = terminalTurns
              => UNCHANGED Contract!vars
         /\ \A c \in HarnessCalls :
              LET Moves(from, to) ==
                    /\ Harness!CallState[c] = from
                    /\ Harness!CallState' = [Harness!CallState EXCEPT ![c] = to]
                    /\ terminalTurns' = terminalTurns IN
              /\ Moves("none", "asked") /\ TurnOf[c] \notin terminalTurns => Contract!Ask(c)
              /\ Moves("asked", "answered") /\ TurnOf[c] \notin terminalTurns
                   => Contract!Answer(c)
              /\ Moves("answered", "asked") => Contract!TakeBack(c)
              /\ Moves("answered", "closed") /\ TurnOf[c] \notin terminalTurns
                   => Contract!Confirm(c)
<1>1. Harness!CallState' = Harness!CallState /\ terminalTurns' = terminalTurns
        => UNCHANGED Contract!vars
  BY DEF Contract!vars
<1>2. ASSUME NEW c \in HarnessCalls, terminalTurns' = terminalTurns,
             NEW to, Harness!CallState' = [Harness!CallState EXCEPT ![c] = to]
      PROVE  /\ Harness!CallState[c] = "none" /\ to = "asked" /\ TurnOf[c] \notin terminalTurns
                  => Contract!Ask(c)
             /\ Harness!CallState[c] = "asked" /\ to = "answered"
                  /\ TurnOf[c] \notin terminalTurns => Contract!Answer(c)
             /\ Harness!CallState[c] = "answered" /\ to = "asked" => Contract!TakeBack(c)
             /\ Harness!CallState[c] = "answered" /\ to = "closed"
                  /\ TurnOf[c] \notin terminalTurns => Contract!Confirm(c)
  BY <1>2 DEF Contract!Ask, Contract!Answer, Contract!TakeBack, Contract!Confirm, Contract!Live
<1> QED BY <1>1, <1>2

LEMMA TurnsEnd ==
  ASSUME HarnessInv, NEW e \in Harness!Events, Harness!Translate(e), e.type \in Ends,
         part = "harness", part' = "harness"
  PROVE  Contract!Complete(e.turn) \/ Contract!Cancel(e.turn)
<1>1. /\ terminalTurns' = terminalTurns \cup {e.turn} /\ e.turn \notin terminalTurns
      /\ terminalCalls' = terminalCalls \cup Harness!Settled(e)
      /\ pending' = pending \ Harness!Settled(e)
      /\ submitted' = [c \in HarnessCalls |-> IF c \in Harness!Settled(e)
                                              THEN Harness!None ELSE submitted[c]]
  BY DEF Harness!Translate, Harness!Accepts, Harness!Active, Ends
<1>2. \A c \in HarnessCalls : CallIs(c) \in {"asked", "answered"} <=> c \in pending
  BY DEF HarnessInv, PendingInv, CallIs, Harness!None
<1>3. \A c \in HarnessCalls : Harness!CallState[c] = CallIs(c)
  BY DEF Harness!CallState, CallIs
<1>4. CASE e.type = "turn.completed"
  <2>1. Harness!Settled(e) = {} /\ \A c \in pending : TurnOf[c] # e.turn
    BY <1>4 DEF Harness!Settled, Harness!Translate, Harness!Accepts
  <2>2. Harness!CallState' = Harness!CallState
    BY <1>1, <2>1 DEF Harness!CallState
  <2>3. Contract!Pending(e.turn) = {}
    BY <1>2, <1>3, <2>1 DEF Contract!Pending
  <2> QED BY <1>1, <2>2, <2>3 DEF Contract!Complete, Contract!Live
<1>5. CASE e.type = "turn.cancelled"
  <2>1. Harness!Settled(e) = {c \in pending : TurnOf[c] = e.turn}
    BY <1>5 DEF Harness!Settled
  <2>2. pending \subseteq HarnessCalls
    BY DEF HarnessInv, Harness!TypeOK
  <2>3. Contract!Pending(e.turn) = Harness!Settled(e)
    BY <1>2, <1>3, <2>1, <2>2 DEF Contract!Pending
  <2>4. \A c \in HarnessCalls :
          CallIs(c)' = IF c \in Harness!Settled(e) THEN "closed" ELSE CallIs(c)
    BY <1>1 DEF CallIs
  <2>5. Harness!CallState'
          = [c \in HarnessCalls |-> IF c \in Contract!Pending(e.turn)
                                    THEN "closed" ELSE Harness!CallState[c]]
    BY <1>3, <2>3, <2>4 DEF Harness!CallState, CallIs
  <2> QED BY <1>1, <2>5 DEF Contract!Cancel, Contract!Live
<1> QED BY <1>4, <1>5 DEF Ends

LEMMA EventsKeepContract ==
  ASSUME HarnessInv, NEW n \in DOMAIN log, NEW throws \in BOOLEAN, Harness!Deliver(n, throws),
         part = "harness", part' = "harness"
  PROVE  Contract!Next \/ UNCHANGED Contract!vars
<1>1. log[n] \in Harness!Events /\ Harness!Translate(log[n])
  BY Elements DEF HarnessInv, Harness!TypeOK, Harness!Deliver
<1>2. PICK e \in Harness!Events : e = log[n]
  BY <1>1
<1>3. Harness!Translate(e) /\ Harness!Accepts(e)
  BY <1>1, <1>2 DEF Harness!Translate
<1>4. CASE e.type \in Ends
  <2>1. e.turn \in Turns
    BY <1>4, EventFacts DEF Ends
  <2> QED BY <1>3, <1>4, <2>1, TurnsEnd DEF Contract!Next
<1>5. CASE e.type = "tool_call.requested"
  <2>1. /\ e.call \in HarnessCalls /\ e.turn = TurnOf[e.call] /\ e.turn \notin terminalTurns
        /\ e.call \notin pending /\ e.call \notin terminalCalls
        /\ submitted[e.call] = Harness!None
    BY <1>3, <1>5, EventFacts DEF Harness!Accepts, Harness!Active
  <2>2. /\ pending' = pending \cup {e.call} /\ terminalCalls' = terminalCalls
        /\ submitted' = [c \in HarnessCalls |-> submitted[c]]
        /\ terminalTurns' = terminalTurns
    BY <1>3, <1>5 DEF Harness!Translate, Harness!Settled
  <2>3. CallIs(e.call) = "none" /\ CallIs(e.call)' = "asked"
    BY <2>1, <2>2 DEF CallIs
  <2>4. \A o \in HarnessCalls \ {e.call} : CallIs(o)' = CallIs(o)
    BY <2>2 DEF CallIs
  <2>5. Contract!Ask(e.call)
    BY <2>1, <2>2, <2>3, <2>4, StateOfCalls, ContractSteps
  <2> QED BY <2>1, <2>5 DEF Contract!Next
<1>6. CASE e.type = "tool_call.resolved"
  <2>1. /\ e.call \in pending /\ e.call \in HarnessCalls /\ e.turn = TurnOf[e.call]
        /\ submitted[e.call] # Harness!None
        /\ e.call \notin terminalCalls /\ TurnOf[e.call] \notin terminalTurns
    <3>1. /\ e.call \in pending /\ e.call \in HarnessCalls /\ e.turn = TurnOf[e.call]
          /\ submitted[e.call] = e.result /\ e.result \in Results
      BY <1>3, <1>6, EventFacts DEF Harness!Accepts
    <3> QED BY <3>1, NoneIsNoResult DEF HarnessInv, PendingInv, Harness!None
  <2>2. /\ pending' = pending \ {e.call} /\ terminalCalls' = terminalCalls \cup {e.call}
        /\ submitted' = [c \in HarnessCalls |-> IF c \in {e.call} THEN Harness!None ELSE submitted[c]]
        /\ terminalTurns' = terminalTurns
    BY <1>3, <1>6 DEF Harness!Translate, Harness!Settled
  <2>3. CallIs(e.call) = "answered" /\ CallIs(e.call)' = "closed"
    BY <2>1, <2>2 DEF CallIs
  <2>4. \A o \in HarnessCalls \ {e.call} : CallIs(o)' = CallIs(o)
    BY <2>2 DEF CallIs
  <2>5. Contract!Confirm(e.call)
    BY <2>1, <2>2, <2>3, <2>4, StateOfCalls, ContractSteps
  <2> QED BY <2>1, <2>5 DEF Contract!Next
<1>7. CASE e.type \in {"model.output", "runtime.error"}
  <2>1. /\ pending' = pending /\ terminalCalls' = terminalCalls
        /\ submitted' = [c \in HarnessCalls |-> submitted[c]]
        /\ terminalTurns' = terminalTurns
    BY <1>3, <1>7 DEF Harness!Translate, Harness!Settled
  <2>2. Harness!CallState' = Harness!CallState
    BY <2>1 DEF Harness!CallState
  <2> QED BY <2>1, <2>2, ContractSteps
<1> QED BY <1>4, <1>5, <1>6, <1>7, EventFacts DEF Ends

LEMMA AnswersKeepContract ==
  ASSUME HarnessInv, part = "harness", part' = "harness",
         \/ \E c \in HarnessCalls, r \in Results : Harness!SubmitToolResult(c, r)
         \/ \E s \in sending : \/ Harness!ResultTaken(s, TRUE) \/ Harness!ResultTaken(s, FALSE)
                               \/ Harness!ResultRefused(s)
  PROVE  Contract!Next \/ UNCHANGED Contract!vars
<1>1. ASSUME NEW c \in HarnessCalls, NEW r \in Results, Harness!SubmitToolResult(c, r)
      PROVE  Contract!Next
  <2>1. /\ c \in pending /\ c \notin terminalCalls /\ TurnOf[c] \notin terminalTurns
        /\ submitted[c] = Harness!None /\ submitted' = [submitted EXCEPT ![c] = r]
        /\ UNCHANGED <<pending, terminalCalls, terminalTurns>>
    BY <1>1 DEF Harness!SubmitToolResult, Harness!MayAnswer, Harness!Active
  <2>2. submitted \in [HarnessCalls -> Results \cup {Harness!None}] /\ r # Harness!None
    BY NoneIsNoResult DEF HarnessInv, Harness!TypeOK, Harness!None
  <2>3. CallIs(c) = "asked" /\ CallIs(c)' = "answered"
    BY <2>1, <2>2 DEF CallIs
  <2>4. \A o \in HarnessCalls \ {c} : CallIs(o)' = CallIs(o)
    BY <2>1, <2>2 DEF CallIs
  <2>5. Contract!Answer(c)
    BY <2>1, <2>3, <2>4, StateOfCalls, ContractSteps
  <2> QED BY <2>5 DEF Contract!Next
<1>2. ASSUME NEW s \in sending,
             \/ Harness!ResultTaken(s, TRUE) \/ Harness!ResultTaken(s, FALSE)
             \/ Harness!ResultRefused(s)
      PROVE  Contract!Next \/ UNCHANGED Contract!vars
  <2>1. /\ submitted' = submitted \/ submitted' = [submitted EXCEPT ![s.call] = Harness!None]
        /\ UNCHANGED <<pending, terminalCalls, terminalTurns>>
    BY <1>2 DEF Harness!ResultTaken, Harness!ResultRefused
  <2>2. s.call \in HarnessCalls /\ submitted \in [HarnessCalls -> Results \cup {Harness!None}]
    BY DEF HarnessInv, Harness!TypeOK
  <2>3. CASE submitted' = submitted
    BY <2>1, <2>3, SameCalls, ContractSteps
  <2>4. CASE submitted' = [submitted EXCEPT ![s.call] = Harness!None]
    <3>1. \A o \in HarnessCalls \ {s.call} : CallIs(o)' = CallIs(o)
      BY <2>1, <2>2, <2>4 DEF CallIs
    <3>2. CASE s.call \in terminalCalls \/ submitted[s.call] = Harness!None
      <4>1. \A o \in HarnessCalls : CallIs(o)' = CallIs(o)
        BY <2>1, <2>2, <2>4, <3>1, <3>2 DEF CallIs
      <4>2. Harness!CallState' = Harness!CallState
        BY <4>1 DEF Harness!CallState, CallIs
      <4> QED BY <2>1, <4>2, ContractSteps
    <3>3. CASE s.call \notin terminalCalls /\ submitted[s.call] # Harness!None
      <4>1. s.call \in pending
        BY <2>2, <3>3 DEF HarnessInv, PendingInv, Harness!None
      <4>2. CallIs(s.call) = "answered" /\ CallIs(s.call)' = "asked"
        BY <2>1, <2>2, <2>4, <3>3, <4>1 DEF CallIs
      <4>3. Contract!TakeBack(s.call)
        BY <2>1, <2>2, <3>1, <4>2, StateOfCalls, ContractSteps
      <4> QED BY <2>2, <4>3 DEF Contract!Next
    <3> QED BY <3>2, <3>3
  <2> QED BY <2>1, <2>3, <2>4
<1> QED BY <1>1, <1>2

LEMMA HarnessKeepsContract ==
  ASSUME HarnessInv, Harness!Next, part = "harness", part' = "harness"
  PROVE  Contract!Next \/ UNCHANGED Contract!vars
<1>1. CASE \/ \E e \in Harness!Events : Harness!Emit(e)
           \/ Harness!OpenStream \/ Harness!CloseStream \/ Harness!Shutdown
           \/ \E t \in Turns : Harness!CancelRefused(t) \/ Harness!CancelTurn(t)
  <2>1. UNCHANGED <<submitted, pending, terminalCalls, terminalTurns>>
    BY <1>1 DEF Harness!Emit, Harness!OpenStream, Harness!CloseStream, Harness!Shutdown,
                Harness!CancelRefused, Harness!CancelTurn, Harness!session
  <2> QED BY <2>1, SameCalls, ContractSteps
<1>2. CASE \E n \in DOMAIN log : Harness!Deliver(n, FALSE) \/ Harness!Deliver(n, TRUE)
  BY <1>2, EventsKeepContract
<1> QED BY <1>1, <1>2, AnswersKeepContract DEF Harness!Next, Harness!TransportStep

-----------------------------------------------------------------------------
(* One invariant of all parts. A behaviour is of one of them, and keeps its *)
(* own.                                                                     *)

PartsInv ==
    /\ part = "harness" => HarnessInv
    /\ part = "engine" => EngineInv
    /\ part = "plan" => PlanInv
    /\ part = "task" => TaskInv
    /\ part = "catalog" => CatalogInv
    /\ part = "packs" => PacksInv
    /\ part = "python" => PythonInv

LEMMA PartStays == [Next]_vars => part' = part
BY DEF Next, HarnessStep, EngineStep, ControlStep, PlanStep, TaskStep, CatalogStep, PacksStep,
       HandledStep, PythonStep, LegacyStep, vars

\* A step of a behaviour is of its part, or none.
LEMMA PartSteps ==
  ASSUME [Next]_vars
  PROVE  /\ part = "harness" => Harness!Next \/ UNCHANGED harnessVars
         /\ part = "engine" => Engine!Next \/ UNCHANGED engineVars
         /\ part = "plan" => Plan!Next \/ UNCHANGED planVars
         /\ part = "task" => Task!Next \/ UNCHANGED taskVars
         /\ part = "catalog" => Catalog!Next \/ UNCHANGED catalogVars
         /\ part = "packs" => Packs!Next \/ UNCHANGED packsVars
         /\ part = "python" => Python!Next \/ UNCHANGED pythonVars
BY DEF Next, HarnessStep, EngineStep, ControlStep, PlanStep, TaskStep, CatalogStep, PacksStep,
       HandledStep, PythonStep, LegacyStep, vars

LEMMA PartsInit == Init => PartsInv
<1> SUFFICES ASSUME Init PROVE PartsInv
  OBVIOUS
<1>1. /\ part = "harness" => Harness!Init
      /\ part = "engine" => Engine!Init
      /\ part = "plan" => Plan!Init
      /\ part = "task" => Task!Init
      /\ part = "catalog" => Catalog!Init
      /\ part = "packs" => Packs!Init
      /\ part = "python" => Python!Init
  BY DEF Init
<1> QED BY <1>1, HarnessInit, EngineInit, PlanInit, TaskInit, CatalogInit, PacksInit, PythonInit
        DEF PartsInv

LEMMA PartsKeep == PartsInv /\ [Next]_vars => PartsInv'
<1> SUFFICES ASSUME PartsInv, [Next]_vars PROVE PartsInv'
  OBVIOUS
<1>1. part' = part
  BY PartStays
<1>2. part = "harness" => HarnessInv'
  BY PartSteps, HarnessKeeps, HarnessStutters DEF PartsInv
<1>3. part = "engine" => EngineInv'
  BY PartSteps, EngineKeeps, EngineStutters DEF PartsInv
<1>4. part = "plan" => PlanInv'
  <2>1. ASSUME PlanInv, UNCHANGED planVars PROVE PlanInv'
    <3>1. /\ UNCHANGED <<dependencies, graph, status, retryCount, executor, current, runs>>
          /\ UNCHANGED <<cancelled, replans, replanned>>
      BY <2>1 DEF planVars
    <3>2. /\ replans \in 0 .. MaxReplans
          /\ replanned \in [removed : SUBSET Nodes, kept : SUBSET Nodes]
      BY <2>1 DEF PlanInv, Plan!TypeOK
    <3> QED BY <2>1, <3>1, <3>2, PlanStutters
  <2> QED BY <2>1, PartSteps, PlanKeeps DEF PartsInv
<1>5. part = "task" => TaskInv'
  BY PartSteps, TaskKeeps, TaskStutters DEF PartsInv
<1>6. part = "catalog" => CatalogInv'
  BY PartSteps, CatalogKeeps, CatalogStutters DEF PartsInv
<1>7. part = "packs" => PacksInv'
  BY PartSteps, PacksKeep, PacksStutter DEF PartsInv
<1>8. part = "python" => PythonInv'
  BY PartSteps, PythonKeeps, PythonStutters DEF PartsInv
<1> QED BY <1>1, <1>2, <1>3, <1>4, <1>5, <1>6, <1>7, <1>8 DEF PartsInv

(* The invariants of all parts hold, for any calls, plans, runs, scripts,  *)
(* callers and instances.                                                  *)
THEOREM PartsStand == Spec => []PartsInv
BY PartsInit, PartsKeep, PTL DEF Spec

(* A transport's events are heard in order and once, whatever it sends and *)
(* however often; and one engine process runs, however many starts are     *)
(* awaited while another exits.                                            *)
THEOREM TransportsStayTamed == Spec => []TransportsAreTamed
<1>1. HarnessInv => Harness!TypeOK /\ Harness!HeardInOrder
  BY DEF HarnessInv
<1>2. PartsInv => TransportsAreTamed
  BY <1>1, EngineSays DEF PartsInv, TransportsAreTamed
<1> QED BY <1>2, PartsStand, PTL

(* A plan or a task called completed was run to its end, each step once,   *)
(* whatever failed and was tried again; an installed Python runtime stays  *)
(* until somebody removes or damages it.                                   *)
THEOREM CompletionsStayEarned == Spec => []CompletionsAreEarned
<1>1. PlanInv => Plan!TypeOK /\ Plan!CompletedGraphsRan
  BY DEF PlanInv
<1>2. PartsInv => CompletionsAreEarned
  BY <1>1, TaskSays, PythonSays DEF PartsInv, CompletionsAreEarned
<1> QED BY <1>2, PartsStand, PTL

(* A process runs the text whose digest the catalog gave, unless somebody  *)
(* edits the script between the last check and the spawn; a cancelled task *)
(* runs nothing, and the loop runs one process at a time.                  *)
THEOREM CatalogIsRun == Spec => []RunsWhatWasCataloged
<1>1. PartsInv => RunsWhatWasCataloged
  BY CatalogSays DEF PartsInv, RunsWhatWasCataloged
<1> QED BY <1>1, PartsStand, PTL

(* Every row of the pack store reads back from its events, whoever writes  *)
(* it and whatever the clock does, and the policy is asked by one caller.  *)
THEOREM RowsReadBack == Spec => []PackRowsReadBack
<1>1. PartsInv => PackRowsReadBack
  BY PacksSay DEF PartsInv, PackRowsReadBack
<1> QED BY <1>1, PartsStand, PTL

(* What was recorded is what is acted upon: the script that was catalogued *)
(* runs, and every row that was written reads back.                        *)
THEOREM RecordsStayFollowed == Spec => []RecordsAreFollowed
BY CatalogIsRun, RowsReadBack, PTL DEF RecordsAreFollowed

(* What became of a tool call of the engine stays, and only the restored   *)
(* history takes its place.                                                *)
THEOREM SettledCallsAreKept == Spec => SettledCallsStay
<1>1. PartsInv /\ [Next]_vars => [part = "engine" => Engine!SettledCallsStay]_vars
  <2> SUFFICES ASSUME PartsInv, Next, part = "engine" PROVE Engine!SettledCallsStay
    OBVIOUS
  <2>1. EngineInv /\ Engine!Next
    BY DEF PartsInv, Next, HarnessStep, EngineStep, ControlStep, PlanStep, TaskStep,
           CatalogStep, PacksStep, HandledStep, PythonStep, LegacyStep
  <2> QED BY <2>1, SettledStay
<1>2. [][part = "engine" => Engine!SettledCallsStay]_vars <=> SettledCallsStay
  BY DEF SettledCallsStay
<1> QED BY <1>1, <1>2, PartsStand, PTL DEF Spec

(* The DeepSeek harness keeps what a backend promises: its steps are steps *)
(* of the contract, or change nothing the runtime is promised about,       *)
(* whatever its transport sends, loses or sends again.                     *)
THEOREM HarnessKeepsPromise == Spec => KeepsContract
<1>1. Init => Contract!Init
  <2>1. ASSUME Harness!Init
        PROVE  Harness!CallState = [c \in HarnessCalls |-> "none"] /\ terminalTurns = {}
    BY <2>1 DEF Harness!Init, Harness!CallState
  <2> QED BY <2>1 DEF Init, Contract!Init
<1>2. PartsInv /\ [Next]_vars => [Contract!Next]_(Contract!vars)
  <2> SUFFICES ASSUME PartsInv, [Next]_vars PROVE Contract!Next \/ UNCHANGED Contract!vars
    OBVIOUS
  <2>1. part' = part
    BY PartStays
  <2>2. CASE part = "harness"
    <3>1. CASE Harness!Next
      BY <2>1, <2>2, <3>1, HarnessKeepsContract DEF PartsInv
    <3>2. CASE UNCHANGED harnessVars
      BY <2>1, <2>2, <3>2, SameCalls, ContractSteps DEF harnessVars
    <3> QED BY <2>2, <3>1, <3>2, PartSteps
  <2>3. CASE part # "harness"
    BY <2>1, <2>3 DEF Contract!vars
  <2> QED BY <2>2, <2>3
<1> QED BY <1>1, <1>2, PartsStand, PTL DEF Spec, KeepsContract, Contract!Spec
=============================================================================
