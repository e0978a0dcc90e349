------------------------ MODULE ActionRuntimeProofs ------------------------
(***************************************************************************)
(* Theorems about ActionRuntime, for any sets of actions, approvals,       *)
(* decisions and receipts.  Every step but Approve and Expire replaces the *)
(* snapshot, the call and the run count of one action and lets the         *)
(* evidence grow (Advance); the lemmas say of each step that what it puts  *)
(* in their place is a good continuation (Continues), and the theorems     *)
(* follow from that alone.                                                 *)
(***************************************************************************)
EXTENDS ActionRuntime, TLAPS

BeforeReceipt == {"beforeDecision", "deciding", "recordingDecision",
                  "failingClosed"}

NeverRan == Cancellable \cup {"Denied", "Held", "DecisionError"}

(* How far an execution is, and what its action may then show. *)
Lifecycle(s, c, n) ==
  /\ c.pc = "idle" => s.state \in {"AwaitingApproval", "Approved", "Cancelled"}
  /\ c.pc \in BeforeReceipt => s.state \in {"Evaluating", "Cancelled"}
  /\ c.pc = "dispatching" =>
       s.state \in {"Starting", "Cancelled"} /\ c.receipt # None
  /\ c.pc \in {"handling", "settling"} =>
       s.state = "Running" /\ s.started = c.receipt
  /\ c.pc = "settling" => c.candidate # None
  /\ c.pc \in {"idle", "dispatching"} \cup BeforeReceipt => s.started = None
  /\ s.aborted => s.state \notin Cancellable
  /\ s.state = "Cancelled" /\ s.started = None => s.aborted
  /\ s.state \in NeverRan => s.started = None
  /\ s.started = None => s.state \in NeverRan \cup {"Cancelled"}
  /\ s.started = None => n = 0 /\ s.outcome = None
  /\ s.started # None => n = 1
  /\ s.state = "Running" => s.outcome = None

(* What is durable when an action shows it: ids are the decisions, ds the  *)
(* dispatch and ss the settlement evidence.                                *)
Evidence(a, s, c, ids, ds, ss) ==
  /\ c.pc = "recordingDecision" => s.decision # None /\ s.decision.id \in ids
  /\ c.pc = "dispatching" \/ s.started # None =>
       /\ s.decision # None
       /\ s.decision.verdict = "allow"
       /\ s.decision.id \in ids
  /\ s.started # None => <<a, s.started>> \in ds
  /\ s.outcome \notin {None, "unknown_or_interrupted"} =>
       <<a, s.outcome>> \in ss /\ s.state = OutcomeState(s.outcome)
  /\ s.outcome = "unknown_or_interrupted" => s.state = "Interrupted"

LifecycleInv ==
  \A a \in Actions :
    IF action[a] = None THEN call[a].pc = "idle" /\ runs[a] = 0
                        ELSE Lifecycle(action[a], call[a], runs[a])

EvidenceInv ==
  \A a \in Actions :
    action[a] # None =>
      Evidence(a, action[a], call[a], decisionIds, dispatched, settled)

(* An approve call awaits its hook for an action that exists. *)
AcceptingInv ==
  \A a \in Actions, ap \in Approvals :
    <<a, ap>> \in accepting => action[a] # None

Inv == TypeOK /\ LifecycleInv /\ EvidenceInv /\ AcceptingInv

(* One action advances; evidence is never taken back. *)
Advance(a, s, c, n) ==
  /\ action' = [action EXCEPT ![a] = s]
  /\ call' = [call EXCEPT ![a] = c]
  /\ runs' = [runs EXCEPT ![a] = n]
  /\ decisionIds \subseteq decisionIds' /\ decisionIds' \subseteq Decisions
  /\ dispatched \subseteq dispatched' /\ dispatched' \subseteq Actions \X Receipts
  /\ settled \subseteq settled' /\ settled' \subseteq Actions \X Outcomes
  /\ receipts' \subseteq Receipts
  /\ outcomes' \subseteq Receipts
  /\ accepting' \subseteq accepting
  /\ expired' \subseteq Approvals

LegalMoves ==
  {<<"none", "requested">>, <<"requested", "authorised">>,
   <<"requested", "closed">>, <<"authorised", "closed">>,
   <<"authorised", "running">>, <<"running", "settled">>,
   <<"running", "uncertain">>}

(* From snapshot old with m runs to snapshot s with n runs. *)
Keeps(old, s, m, n) ==
  /\ PhaseOf(s) = PhaseOf(old) \/ <<PhaseOf(old), PhaseOf(s)>> \in LegalMoves
  /\ old # None =>
       (old.aborted /\ old.started = None => s.started = None /\ n = m)

Continues(a) ==
  \E s \in Snapshot, c \in Call, n \in 0..MaxRuns :
    /\ Advance(a, s, c, n)
    /\ Lifecycle(s, c, n)
    /\ Evidence(a, s, c, decisionIds', dispatched', settled')
    /\ Keeps(action[a], s, runs[a], n)

-----------------------------------------------------------------------------
(* What the steps have in common.                                          *)

(* The invariant at one action. *)
LEMMA InvAt ==
  ASSUME Inv, NEW a \in Actions
  PROVE  /\ call[a] \in Call
         /\ runs[a] \in 0..MaxRuns
         /\ action[a] # None =>
              /\ action[a] \in Snapshot
              /\ Lifecycle(action[a], call[a], runs[a])
              /\ Evidence(a, action[a], call[a], decisionIds, dispatched,
                          settled)
         /\ action[a] = None => call[a].pc = "idle" /\ runs[a] = 0
<1> QED  BY DEF Inv, TypeOK, LifecycleInv, EvidenceInv

(* A record update that keeps a snapshot a snapshot. *)
LEMMA SnapshotWith ==
  ASSUME NEW s \in Snapshot
  PROVE  /\ \A t \in States : [s EXCEPT !.state = t] \in Snapshot
         /\ \A d \in Decision : [s EXCEPT !.decision = d] \in Snapshot
         /\ \A ap \in Approvals : [s EXCEPT !.approval = ap] \in Snapshot
         /\ [s EXCEPT !.aborted = TRUE] \in Snapshot
         /\ \A o \in Outcomes \cup {"unknown_or_interrupted"} :
              [s EXCEPT !.outcome = o] \in Snapshot
<1> QED  BY DEF Snapshot

LEMMA SnapshotInState ==
  ASSUME NEW s \in Snapshot, NEW t \in States
  PROVE  [s EXCEPT !.state = t] \in Snapshot
<1> QED  BY DEF Snapshot

LEMMA LocalIsDecision == LocalDecision \in Decision
<1> QED  BY DEF LocalDecision, Decision, Verdicts

(* The phase a snapshot shows. *)
LEMMA Phases ==
  ASSUME NEW s, s # None
  PROVE  /\ s.state \in {"AwaitingApproval", "Approved", "Evaluating"} =>
              PhaseOf(s) = "requested"
         /\ s.state = "Starting" => PhaseOf(s) = "authorised"
         /\ s.state = "Running" => PhaseOf(s) = "running"
         /\ s.state = "Interrupted" => PhaseOf(s) = "uncertain"
         /\ s.state \in {"Denied", "Held", "DecisionError"} =>
              PhaseOf(s) = "closed"
         /\ s.state = "Cancelled" /\ s.started = None => PhaseOf(s) = "closed"
         /\ s.state \in {"Completed", "Failed", "Cancelled"}
              /\ s.started # None => PhaseOf(s) = "settled"
<1> QED  BY DEF PhaseOf

LEMMA ProposeContinues ==
  ASSUME Inv, NEW a \in Actions, Propose(a)
  PROVE  Continues(a)
<1>1. Proposal \in Snapshot /\ Proposal # None
  <2>1. Proposal \in Snapshot
    BY DEF Proposal, Snapshot, States, Cancellable
  <2> QED  BY <2>1, NoneIsAbsent
<1>2. call[a] \in Call /\ runs[a] \in 0..MaxRuns /\ call[a].pc = "idle"
      /\ runs[a] = 0
  BY InvAt DEF Propose
<1>3. Advance(a, Proposal, call[a], runs[a])
  BY DEF Propose, rest, Advance, Inv, TypeOK
<1>4. Lifecycle(Proposal, call[a], runs[a])
  BY <1>2 DEF Lifecycle, Proposal, NeverRan, Cancellable, BeforeReceipt
<1>5. Evidence(a, Proposal, call[a], decisionIds', dispatched', settled')
  BY <1>2, NoneIsAbsent DEF Evidence, Proposal
<1>6. Keeps(action[a], Proposal, runs[a], runs[a])
  BY <1>1 DEF Propose, Keeps, PhaseOf, Proposal, LegalMoves
<1> QED  BY <1>1, <1>2, <1>3, <1>4, <1>5, <1>6 DEF Continues

LEMMA CancelContinues ==
  ASSUME Inv, NEW a \in Actions, Cancel(a)
  PROVE  Continues(a)
<1> DEFINE o == action[a]
           u == [o EXCEPT !.aborted = TRUE]
           s == [u EXCEPT !.state =
                   IF o.state \in Cancellable THEN "Cancelled" ELSE o.state]
<1>1. o \in Snapshot /\ o # None /\ s \in Snapshot /\ s # None
  <2>1. o \in Snapshot /\ o # None
    BY InvAt DEF Cancel
  <2>2. u \in Snapshot
    BY <2>1, SnapshotWith
  <2>3. (IF o.state \in Cancellable THEN "Cancelled" ELSE o.state) \in States
    BY <2>1 DEF Snapshot, States
  <2>4. s \in Snapshot
    BY <2>2, <2>3, SnapshotWith
  <2> QED  BY <2>1, <2>4, NoneIsAbsent
<1>2. call[a] \in Call /\ runs[a] \in 0..MaxRuns
  BY InvAt
<1>3. Advance(a, s, call[a], runs[a])
  BY DEF Cancel, rest, Advance, Inv, TypeOK
<1>4. Lifecycle(o, call[a], runs[a])
      /\ Evidence(a, o, call[a], decisionIds, dispatched, settled)
  BY <1>1, InvAt
<1>5. /\ s.aborted = TRUE /\ s.started = o.started /\ s.decision = o.decision
      /\ s.outcome = o.outcome
      /\ s.state = IF o.state \in Cancellable THEN "Cancelled" ELSE o.state
  BY <1>1 DEF Snapshot
<1> HIDE DEF s
<1>6. Lifecycle(s, call[a], runs[a])
  BY <1>4, <1>5 DEF Lifecycle, NeverRan, Cancellable, BeforeReceipt
<1>7. Evidence(a, s, call[a], decisionIds', dispatched', settled')
  BY <1>4, <1>5 DEF Cancel, rest, Evidence, Lifecycle, NeverRan, Cancellable,
                    OutcomeState
<1>8. Keeps(o, s, runs[a], runs[a])
  <2>1. CASE o.state \in Cancellable
    <3>1. s.state = "Cancelled" /\ o.started = None /\ PhaseOf(s) = "closed"
      BY <2>1, <1>1, <1>4, <1>5, Phases DEF Lifecycle, NeverRan
    <3>2. PhaseOf(o) \in {"requested", "authorised"}
      BY <2>1, <1>1, Phases DEF Cancellable
    <3> QED  BY <3>1, <3>2, <1>5 DEF Keeps, LegalMoves
  <2>2. CASE o.state \notin Cancellable
    <3>1. s.state = o.state /\ PhaseOf(s) = PhaseOf(o)
      BY <2>2, <1>1, <1>5 DEF PhaseOf
    <3> QED  BY <3>1, <1>5 DEF Keeps
  <2> QED  BY <2>1, <2>2
<1> QED  BY <1>1, <1>2, <1>3, <1>6, <1>7, <1>8 DEF Continues

-----------------------------------------------------------------------------
(* Steps that leave the snapshot alone.                                    *)

LEMMA CallOnly ==
  ASSUME Inv, NEW a \in Actions, action[a] # None, NEW c \in Call,
         UNCHANGED <<action, accepting, expired, decisionIds, receipts,
                     outcomes, settled, runs>>,
         call' = [call EXCEPT ![a] = c],
         dispatched \subseteq dispatched', dispatched' \subseteq Actions \X Receipts,
         c.pc \notin {"recordingDecision", "dispatching"},
         Lifecycle(action[a], c, runs[a])
  PROVE  Continues(a)
<1> DEFINE o == action[a]
<1>1. o \in Snapshot /\ runs[a] \in 0..MaxRuns
      /\ Evidence(a, o, call[a], decisionIds, dispatched, settled)
  BY InvAt
<1>2. Advance(a, o, c, runs[a])
  BY DEF Advance, Inv, TypeOK
<1>3. Evidence(a, o, c, decisionIds', dispatched', settled')
  BY <1>1 DEF Evidence
<1>4. Keeps(o, o, runs[a], runs[a])
  BY DEF Keeps
<1> QED  BY <1>1, <1>2, <1>3, <1>4 DEF Continues

(* execute rejects and the action stays as it is. *)
LEMMA ThrowContinues ==
  ASSUME Inv, NEW a \in Actions, action[a] # None, Throw(a),
         UNCHANGED <<action, accepting, expired, decisionIds, receipts,
                     outcomes, settled, runs>>,
         dispatched \subseteq dispatched', dispatched' \subseteq Actions \X Receipts
  PROVE  Continues(a)
<1> DEFINE c == [call[a] EXCEPT !.pc = "threw"]
<1>1. call[a] \in Call /\ Lifecycle(action[a], call[a], runs[a])
  BY InvAt
<1>2. c \in Call /\ c.pc = "threw"
  BY <1>1 DEF Call
<1>3. call' = [call EXCEPT ![a] = c]
  BY DEF Throw, Inv, TypeOK
<1> HIDE DEF c
<1>4. Lifecycle(action[a], c, runs[a])
  BY <1>1, <1>2 DEF Lifecycle, BeforeReceipt
<1> QED  BY <1>2, <1>3, <1>4, CallOnly

(* An action whose execution is under way exists. *)
LEMMA UnderWay ==
  ASSUME Inv, NEW a \in Actions, call[a].pc # "idle"
  PROVE  action[a] # None
<1> QED  BY InvAt

LEMMA WaitsContinue ==
  ASSUME Inv, NEW a \in Actions,
         \/ ExecuteRefused(a) \/ RequestRecorded(a) \/ RequestHookFails(a)
         \/ AllowedTooLate(a) \/ DispatchHookFails(a) \/ InterruptReturns(a)
         \/ \E o \in Outcomes : HandlerEnds(a, o)
  PROVE  Continues(a)
<1>0. call[a] \in Call /\ runs[a] \in 0..MaxRuns
      /\ (action[a] # None => Lifecycle(action[a], call[a], runs[a]))
  BY InvAt
<1>1. CASE ExecuteRefused(a) \/ RequestHookFails(a) \/ AllowedTooLate(a)
  <2>1. action[a] # None /\ Throw(a) /\ UNCHANGED <<action, rest>>
    BY <1>1, UnderWay DEF ExecuteRefused, CanExecute, RequestHookFails,
                          AllowedTooLate, Allowed
  <2> QED  BY <2>1, ThrowContinues DEF rest, Inv, TypeOK
<1>2. CASE DispatchHookFails(a)
  <2>1. action[a] # None /\ Lifecycle(action[a], call[a], runs[a])
        /\ call[a].receipt \in Receipts
    BY <1>0, <1>2, UnderWay DEF DispatchHookFails, Lifecycle, Call
  <2>2. dispatched \subseteq dispatched' /\ dispatched' \subseteq Actions \X Receipts
    BY <1>2, <2>1 DEF DispatchHookFails, Inv, TypeOK
  <2> QED  BY <1>2, <2>1, <2>2, ThrowContinues DEF DispatchHookFails
<1>3. CASE RequestRecorded(a)
  <2> DEFINE c == [call[a] EXCEPT !.pc = "deciding"]
  <2>1. action[a] # None
    BY <1>3, UnderWay DEF RequestRecorded
  <2>2. c \in Call /\ c.pc = "deciding"
    BY <1>0 DEF Call, Awaits
  <2>3. call' = [call EXCEPT ![a] = c] /\ call[a].pc = "beforeDecision"
    BY <1>3 DEF RequestRecorded, Inv, TypeOK
  <2> HIDE DEF c
  <2>4. Lifecycle(action[a], c, runs[a])
    BY <1>0, <2>1, <2>2, <2>3 DEF Lifecycle, BeforeReceipt
  <2> QED  BY <1>3, <2>1, <2>2, <2>3, <2>4, CallOnly
           DEF RequestRecorded, rest, Inv, TypeOK
<1>4. CASE InterruptReturns(a)
  <2> DEFINE c == [call[a] EXCEPT !.pc = "returned"]
  <2>1. action[a] # None
    BY <1>4, UnderWay DEF InterruptReturns
  <2>2. c \in Call /\ c.pc = "returned"
    BY <1>0 DEF Call
  <2>3. call' = [call EXCEPT ![a] = c]
    BY <1>4 DEF InterruptReturns, Inv, TypeOK
  <2> HIDE DEF c
  <2>4. Lifecycle(action[a], c, runs[a])
    BY <1>0, <2>1, <2>2 DEF Lifecycle, BeforeReceipt
  <2> QED  BY <1>4, <2>1, <2>2, <2>3, <2>4, CallOnly
           DEF InterruptReturns, rest, Inv, TypeOK
<1>5. ASSUME NEW o \in Outcomes, HandlerEnds(a, o)
      PROVE  Continues(a)
  <2> DEFINE c == [call[a] EXCEPT !.pc = "settling", !.candidate = o]
  <2>1. action[a] # None
    BY <1>5, UnderWay DEF HandlerEnds
  <2>2. c \in Call /\ c.pc = "settling" /\ c.candidate = o
        /\ c.receipt = call[a].receipt
    BY <1>0 DEF Call, Awaits
  <2>3. call' = [call EXCEPT ![a] = c] /\ call[a].pc = "handling"
    BY <1>5 DEF HandlerEnds, Inv, TypeOK
  <2> HIDE DEF c
  <2>4. Lifecycle(action[a], c, runs[a])
    BY <1>0, <2>1, <2>2, <2>3, NoneIsAbsent DEF Lifecycle, BeforeReceipt
  <2> QED  BY <1>5, <2>1, <2>2, <2>3, <2>4, CallOnly
           DEF HandlerEnds, rest, Inv, TypeOK
<1> QED  BY <1>1, <1>2, <1>3, <1>4, <1>5

-----------------------------------------------------------------------------
(* Steps before the receipt.                                               *)

(* The transitions an execution may ask for. *)
LEMMA Moves ==
  ASSUME NEW x
  PROVE  /\ <<x, "Approved">> \in Transitions => x = "AwaitingApproval"
         /\ \A t \in {"Denied", "Held"} :
              <<x, t>> \in Transitions <=> x = "Evaluating"
         /\ <<x, "DecisionError">> \in Transitions <=>
              x \in {"Evaluating", "Starting"}
         /\ <<x, "Cancelled">> \in Transitions <=>
              x \in Cancellable \cup {"Running"}
         /\ \A t \in {"Completed", "Failed", "Interrupted"} :
              <<x, t>> \in Transitions <=> x = "Running"
<1> QED  BY DEF Transitions, Cancellable

LEMMA ApprovalContinues ==
  ASSUME Inv, NEW a \in Actions, NEW ap \in Approvals, ApprovalRecorded(a, ap),
         action[a] # None
  PROVE  Continues(a)
<1> DEFINE o == action[a]
           t == IF <<o.state, "Approved">> \in Transitions THEN "Approved"
                                                         ELSE o.state
           u == [o EXCEPT !.approval = ap]
           s == [u EXCEPT !.state = t]
<1>1. o \in Snapshot /\ call[a] \in Call /\ runs[a] \in 0..MaxRuns
      /\ Lifecycle(o, call[a], runs[a])
      /\ Evidence(a, o, call[a], decisionIds, dispatched, settled)
  BY InvAt
<1>2. t \in States /\ (t = o.state \/ (o.state = "AwaitingApproval" /\ t = "Approved"))
  <2>1. o.state \in States /\ "Approved" \in States
    BY <1>1 DEF Snapshot, States, Cancellable
  <2>2. CASE <<o.state, "Approved">> \in Transitions
    <3>1. o.state = "AwaitingApproval" /\ t = "Approved"
      BY <2>2, Moves
    <3> QED  BY <2>1, <3>1
  <2>3. CASE <<o.state, "Approved">> \notin Transitions
    <3>1. t = o.state
      BY <2>3
    <3> QED  BY <2>1, <3>1
  <2> QED  BY <2>2, <2>3
<1>3. u \in Snapshot /\ s \in Snapshot /\ s # None
  <2>1. u \in Snapshot
    BY <1>1, SnapshotWith
  <2>2. t \in States
    BY <1>2
  <2> HIDE DEF u, t
  <2>3. s \in Snapshot
    BY <2>1, <2>2, SnapshotInState
  <2> HIDE DEF s
  <2> QED  BY <2>1, <2>3, NoneIsAbsent
<1> HIDE DEF t
<1>4. Advance(a, s, call[a], runs[a])
  BY DEF ApprovalRecorded, Advance, Inv, TypeOK, t
<1>5. /\ s.aborted = o.aborted /\ s.started = o.started
      /\ s.decision = o.decision /\ s.outcome = o.outcome /\ s.state = t
  BY <1>1 DEF Snapshot
<1> HIDE DEF s, u
<1>6. Lifecycle(s, call[a], runs[a])
  BY <1>1, <1>2, <1>5 DEF Lifecycle, NeverRan, Cancellable, BeforeReceipt
<1>7. Evidence(a, s, call[a], decisionIds', dispatched', settled')
  BY <1>1, <1>2, <1>5 DEF ApprovalRecorded, Evidence, OutcomeState, Lifecycle,
                          NeverRan, Cancellable
<1>8. PhaseOf(s) = PhaseOf(o)
  <2>1. CASE t = o.state
    BY <2>1, <1>3, <1>5 DEF PhaseOf
  <2>2. CASE o.state = "AwaitingApproval" /\ t = "Approved"
    BY <2>2, <1>3, <1>5, Phases
  <2> QED  BY <1>2, <2>1, <2>2
<1>9. Keeps(o, s, runs[a], runs[a])
  BY <1>5, <1>8 DEF Keeps
<1> QED  BY <1>1, <1>3, <1>4, <1>6, <1>7, <1>9 DEF Continues

(* execute enters Evaluating. *)
LEMMA EvaluatingContinues ==
  ASSUME Inv, NEW a \in Actions, Execute(a) \/ ExecuteUnknown(a)
  PROVE  Continues(a)
<1> DEFINE o == action[a]
           d == IF a \in Registered THEN o.decision ELSE LocalDecision
           p == IF a \in Registered THEN "beforeDecision" ELSE "failingClosed"
           u == [o EXCEPT !.state = "Evaluating"]
           s == [u EXCEPT !.decision = d]
           c == [call[a] EXCEPT !.pc = p, !.approval = o.approval]
<1>1. o # None /\ o.state = "Approved" /\ call[a].pc = "idle"
  BY DEF Execute, ExecuteUnknown, CanExecute, Executable
<1>2. o \in Snapshot /\ call[a] \in Call /\ runs[a] \in 0..MaxRuns
      /\ Lifecycle(o, call[a], runs[a])
  BY <1>1, InvAt
<1>3. u \in Snapshot
  BY <1>2, SnapshotWith DEF States, Cancellable
<1>4. s \in Snapshot /\ s # None
  <2>1. s \in Snapshot
    <3>1. CASE a \in Registered
      <4>1. s = u
        BY <1>2, <1>3, <3>1 DEF Snapshot
      <4> QED  BY <1>3, <4>1
    <3>2. CASE a \notin Registered
      BY <1>3, <3>2, SnapshotWith, LocalIsDecision
    <3> QED  BY <3>1, <3>2
  <2> QED  BY <2>1, NoneIsAbsent
<1>5. c \in Call /\ c.pc = p
  BY <1>2 DEF Call, Awaits, Snapshot
<1>6. Advance(a, s, c, runs[a])
  <2>1. action' = [action EXCEPT ![a] = s]
    <3>1. CASE a \in Registered
      <4>1. s = u
        BY <1>2, <1>3, <3>1 DEF Snapshot
      <4> QED  BY <3>1, <4>1 DEF Execute, ExecuteUnknown, Inv, TypeOK
    <3>2. CASE a \notin Registered
      BY <3>2 DEF Execute, ExecuteUnknown, Inv, TypeOK
    <3> QED  BY <3>1, <3>2
  <2>2. call' = [call EXCEPT ![a] = c]
    BY DEF Execute, ExecuteUnknown, Inv, TypeOK
  <2>3. UNCHANGED rest
    BY DEF Execute, ExecuteUnknown
  <2> QED  BY <2>1, <2>2, <2>3 DEF Advance, rest, Inv, TypeOK
<1>7. /\ s.state = "Evaluating" /\ s.aborted = o.aborted
      /\ s.started = o.started /\ s.outcome = o.outcome
  BY <1>2 DEF Snapshot
<1>8. p \in {"beforeDecision", "failingClosed"}
  OBVIOUS
<1> HIDE DEF s, c, u, d, p
<1>9. Lifecycle(s, c, runs[a])
  BY <1>1, <1>2, <1>5, <1>7, <1>8 DEF Lifecycle, NeverRan, Cancellable,
                                      BeforeReceipt
<1>10. Evidence(a, s, c, decisionIds', dispatched', settled')
  BY <1>1, <1>2, <1>5, <1>7, <1>8, NoneIsAbsent
     DEF Evidence, Lifecycle, NeverRan, Cancellable
<1>11. Keeps(o, s, runs[a], runs[a])
  BY <1>1, <1>4, <1>7, Phases DEF Keeps
<1> QED  BY <1>2, <1>4, <1>5, <1>6, <1>9, <1>10, <1>11 DEF Continues

(* A decision is received, the provider's or a local one. *)
LEMMA DecidingContinues ==
  ASSUME Inv, NEW a \in Actions,
         \/ DecideFails(a)
         \/ \E d \in Decisions, v \in Verdicts : Decide(a, d, v)
  PROVE  Continues(a)
<1> DEFINE o == action[a]
<1>1. call[a].pc = "deciding" /\ o # None
  BY UnderWay DEF DecideFails, Decide
<1>2. o \in Snapshot /\ call[a] \in Call /\ runs[a] \in 0..MaxRuns
      /\ Lifecycle(o, call[a], runs[a])
  BY <1>1, InvAt
<1> DEFINE Received(d, p) ==
             /\ action' = [action EXCEPT ![a] = [o EXCEPT !.decision = d]]
             /\ call' = [call EXCEPT ![a] = [call[a] EXCEPT !.pc = p]]
             /\ p = "recordingDecision" => d.id \in decisionIds'
             /\ decisionIds \subseteq decisionIds'
             /\ decisionIds' \subseteq Decisions
             /\ UNCHANGED <<accepting, expired, receipts, outcomes, dispatched,
                            settled, runs>>
<1>3. \E d \in Decision, p \in {"recordingDecision", "failingClosed"} :
        Received(d, p)
  <2>1. CASE DecideFails(a)
    <3>1. /\ action' = [action EXCEPT ![a] = [o EXCEPT !.decision = LocalDecision]]
          /\ call' = [call EXCEPT ![a] = [call[a] EXCEPT !.pc = "failingClosed"]]
          /\ UNCHANGED rest
      BY <2>1 DEF DecideFails, Inv, TypeOK
    <3> QED  BY <3>1, LocalIsDecision DEF rest, Inv, TypeOK
  <2>2. ASSUME NEW d \in Decisions, NEW v \in Verdicts, Decide(a, d, v)
        PROVE  \E e \in Decision,
                  p \in {"recordingDecision", "failingClosed"} : Received(e, p)
    <3> DEFINE e == [id |-> d, verdict |-> v]
    <3>1. e \in Decision /\ e.id = d
      BY DEF Decision
    <3>2. /\ action' = [action EXCEPT ![a] = [o EXCEPT !.decision = e]]
          /\ call' = [call EXCEPT ![a] = [call[a] EXCEPT !.pc = "recordingDecision"]]
          /\ decisionIds' = decisionIds \cup {d}
          /\ UNCHANGED <<accepting, expired, receipts, outcomes, dispatched,
                         settled, runs>>
      BY <2>2 DEF Decide, Inv, TypeOK
    <3> HIDE DEF e
    <3> QED  BY <3>1, <3>2 DEF Inv, TypeOK
  <2> QED  BY <2>1, <2>2
<1>a. PICK d \in Decision, p \in {"recordingDecision", "failingClosed"} :
        Received(d, p)
  BY <1>3
<1> DEFINE s == [o EXCEPT !.decision = d]
           c == [call[a] EXCEPT !.pc = p]
<1>4. s \in Snapshot /\ s # None
  BY <1>2, SnapshotWith, NoneIsAbsent
<1>5. c \in Call /\ c.pc = p
  BY <1>2 DEF Call, Awaits
<1>6. Advance(a, s, c, runs[a])
  BY <1>a DEF Advance, Inv, TypeOK
<1>7. /\ s.state = o.state /\ s.aborted = o.aborted /\ s.decision = d
      /\ s.started = o.started /\ s.outcome = o.outcome
  BY <1>2 DEF Snapshot
<1>8. d # None
  BY NoneIsAbsent
<1> HIDE DEF s, c
<1>9. Lifecycle(s, c, runs[a])
  BY <1>1, <1>2, <1>a, <1>5, <1>7 DEF Lifecycle, BeforeReceipt
<1>10. Evidence(a, s, c, decisionIds', dispatched', settled')
  BY <1>1, <1>2, <1>a, <1>5, <1>7, <1>8, NoneIsAbsent
     DEF Evidence, Lifecycle, BeforeReceipt
<1>11. PhaseOf(s) = PhaseOf(o)
  BY <1>1, <1>4, <1>7 DEF PhaseOf
<1>12. Keeps(o, s, runs[a], runs[a])
  BY <1>7, <1>11 DEF Keeps
<1> QED  BY <1>2, <1>4, <1>5, <1>6, <1>9, <1>10, <1>12 DEF Continues

(* An execution ends before it has a receipt.                               *)
LEMMA FinishContinues ==
  ASSUME Inv, NEW a \in Actions,
         call[a].pc \in {"recordingDecision", "failingClosed"},
         NEW b \in Snapshot,
         b.state = action[a].state, b.aborted = action[a].aborted,
         b.started = action[a].started, b.outcome = action[a].outcome,
         NEW t \in {"DecisionError", "Denied", "Held", "Cancelled"},
         t = "Cancelled" => b.aborted,
         Finish(a, b, t), UNCHANGED rest
  PROVE  Continues(a)
<1> DEFINE o == action[a]
<1>1. o # None /\ o \in Snapshot /\ call[a] \in Call /\ runs[a] \in 0..MaxRuns
      /\ Lifecycle(o, call[a], runs[a])
  BY InvAt, UnderWay
<1>2. o.state \in {"Evaluating", "Cancelled"} /\ o.started = None
      /\ runs[a] = 0 /\ o.outcome = None
  BY <1>1 DEF Lifecycle, BeforeReceipt
<1> DEFINE Ends(s, p) ==
             /\ action' = [action EXCEPT ![a] = s]
             /\ call' = [call EXCEPT ![a] = [call[a] EXCEPT !.pc = p]]
             /\ s.aborted = o.aborted /\ s.started = None /\ s.outcome = None
             /\ \/ s.state = t /\ o.state = "Evaluating"
                \/ s.state = "Cancelled" /\ o.state = "Cancelled"
<1>3. \E s \in Snapshot, p \in {"returned", "threw"} : Ends(s, p)
  <2>1. CASE <<b.state, t>> \in Transitions
    <3> DEFINE s == [b EXCEPT !.state = t]
    <3>1. s \in Snapshot /\ s.state = t /\ s.aborted = b.aborted
          /\ s.started = b.started /\ s.outcome = b.outcome
      BY DEF Snapshot, States, Cancellable
    <3>2. o.state = "Evaluating"
      <4>1. b.state # "Cancelled"
        BY <2>1, Moves DEF Cancellable
      <4> QED  BY <4>1, <1>2
    <3>3. action' = [action EXCEPT ![a] = s]
          /\ call' = [call EXCEPT ![a] = [call[a] EXCEPT !.pc = "returned"]]
      BY <2>1 DEF Finish, Inv, TypeOK
    <3> HIDE DEF s
    <3> QED  BY <1>2, <3>1, <3>2, <3>3
  <2>2. CASE <<b.state, t>> \notin Transitions
    <3>1. o.state = "Cancelled"
      <4>1. b.state # "Evaluating"
        BY <2>2, Moves DEF Cancellable
      <4> QED  BY <4>1, <1>2
    <3>2. action' = [action EXCEPT ![a] = b]
          /\ call' = [call EXCEPT ![a] = [call[a] EXCEPT !.pc = "threw"]]
      BY <2>2 DEF Finish, Inv, TypeOK
    <3> QED  BY <1>2, <3>1, <3>2
  <2> QED  BY <2>1, <2>2
<1>a. PICK s \in Snapshot, p \in {"returned", "threw"} : Ends(s, p)
  BY <1>3
<1> DEFINE c == [call[a] EXCEPT !.pc = p]
<1>4. c \in Call /\ c.pc = p
  BY <1>1 DEF Call
<1>5. s # None
  BY NoneIsAbsent
<1>6. Advance(a, s, c, runs[a])
  BY <1>a DEF rest, Advance, Inv, TypeOK
<1> HIDE DEF c
<1>7. Lifecycle(s, c, runs[a])
  BY <1>1, <1>2, <1>a, <1>4 DEF Lifecycle, BeforeReceipt, NeverRan, Cancellable
<1>8. Evidence(a, s, c, decisionIds', dispatched', settled')
  BY <1>a, <1>4, NoneIsAbsent DEF Evidence
<1>9. Keeps(o, s, runs[a], runs[a])
  <2>1. PhaseOf(s) = "closed"
    BY <1>a, <1>5, Phases
  <2>2. PhaseOf(o) = IF o.state = "Evaluating" THEN "requested" ELSE "closed"
    BY <1>1, <1>2, Phases
  <2> QED  BY <1>a, <2>1, <2>2, <1>2 DEF Keeps, LegalMoves
<1> QED  BY <1>1, <1>4, <1>6, <1>7, <1>8, <1>9 DEF Continues

LEMMA ClosersContinue ==
  ASSUME Inv, NEW a \in Actions,
         \/ FailClosed(a) \/ DecisionHookFails(a)
         \/ DecisionTooLate(a) \/ DecisionRefuses(a)
  PROVE  Continues(a)
<1> DEFINE o == action[a]
<1>1. call[a].pc \in {"recordingDecision", "failingClosed"} /\ o \in Snapshot
      /\ UNCHANGED rest
  BY InvAt, UnderWay DEF FailClosed, DecisionHookFails, DecisionTooLate,
                         DecisionRefuses
<1>2. CASE FailClosed(a)
  BY <1>1, <1>2, FinishContinues DEF FailClosed
<1>3. CASE DecisionHookFails(a)
  <2> DEFINE b == [o EXCEPT !.decision = LocalDecision]
  <2>1. b \in Snapshot
    BY <1>1, SnapshotWith, LocalIsDecision
  <2>2. b.state = o.state /\ b.aborted = o.aborted /\ b.started = o.started
        /\ b.outcome = o.outcome
    BY <1>1 DEF Snapshot
  <2>3. Finish(a, b, "DecisionError")
    BY <1>3 DEF DecisionHookFails
  <2> HIDE DEF b
  <2> QED  BY <1>1, <2>1, <2>2, <2>3, FinishContinues
<1>4. CASE DecisionTooLate(a)
  BY <1>1, <1>4, FinishContinues DEF DecisionTooLate
<1>5. CASE DecisionRefuses(a)
  <2> DEFINE t == VerdictState(o.decision.verdict)
  <2>1. t \in {"Denied", "Held", "DecisionError"}
    BY DEF VerdictState
  <2>2. Finish(a, o, t)
    BY <1>5 DEF DecisionRefuses
  <2> HIDE DEF t
  <2> QED  BY <1>1, <2>1, <2>2, FinishContinues
<1> QED  BY <1>2, <1>3, <1>4, <1>5

-----------------------------------------------------------------------------
(* Steps from the receipt on.                                              *)

(* The state of an allowed action: a cancelled one is not allowed.         *)
LEMMA AllowedIsEvaluating ==
  ASSUME Inv, NEW a \in Actions, Allowed(a)
  PROVE  /\ action[a] # None /\ action[a] \in Snapshot
         /\ action[a].state = "Evaluating" /\ action[a].started = None
         /\ action[a].outcome = None /\ runs[a] = 0
         /\ action[a].decision # None
         /\ action[a].decision.verdict = "allow"
         /\ action[a].decision.id \in decisionIds
<1>1. call[a].pc = "recordingDecision" /\ action[a] # None
  BY UnderWay DEF Allowed
<1> QED  BY <1>1, InvAt DEF Allowed, Lifecycle, BeforeReceipt, Evidence

LEMMA StartContinues ==
  ASSUME Inv, NEW a \in Actions, NEW r \in Receipts,
         Start(a, r) \/ ReceiptTaken(a, r)
  PROVE  Continues(a)
<1> DEFINE o == action[a]
           s == [o EXCEPT !.state = "Starting"]
           c == IF Start(a, r)
                  THEN [call[a] EXCEPT !.pc = "dispatching", !.receipt = r]
                  ELSE [call[a] EXCEPT !.pc = "threw"]
<1>1. Allowed(a) /\ UNCHANGED rest
  BY DEF Start, ReceiptTaken
<1>2. /\ o # None /\ o \in Snapshot /\ o.state = "Evaluating"
      /\ o.started = None /\ o.outcome = None /\ runs[a] = 0
      /\ o.decision # None /\ o.decision.verdict = "allow"
      /\ o.decision.id \in decisionIds
  BY <1>1, AllowedIsEvaluating
<1>3. call[a] \in Call /\ runs[a] \in 0..MaxRuns /\ ~o.aborted
  BY <1>1, InvAt DEF Allowed
<1>4. s \in Snapshot /\ s # None /\ s.state = "Starting"
      /\ s.decision = o.decision /\ s.aborted = o.aborted
      /\ s.started = None /\ s.outcome = None
  <2>1. s \in Snapshot
    BY <1>2, SnapshotWith DEF States, Cancellable
  <2>2. s.state = "Starting" /\ s.decision = o.decision
        /\ s.aborted = o.aborted /\ s.started = None /\ s.outcome = None
    BY <1>2 DEF Snapshot
  <2> HIDE DEF s
  <2> QED  BY <2>1, <2>2, NoneIsAbsent
<1>5. c \in Call /\ (c.pc = "threw" \/ (c.pc = "dispatching" /\ c.receipt = r))
  BY <1>3 DEF Call, Awaits
<1>6. action' = [action EXCEPT ![a] = s] /\ call' = [call EXCEPT ![a] = c]
  <2>1. CASE Start(a, r)
    BY <2>1 DEF Start, Inv, TypeOK
  <2>2. CASE ~Start(a, r)
    BY <2>2 DEF ReceiptTaken, Throw, Inv, TypeOK
  <2> QED  BY <2>1, <2>2
<1> HIDE DEF s, c
<1>7. Advance(a, s, c, runs[a])
  BY <1>1, <1>6 DEF Advance, rest, Inv, TypeOK
<1>8. Lifecycle(s, c, runs[a])
  BY <1>2, <1>3, <1>4, <1>5, NoneIsAbsent
     DEF Lifecycle, BeforeReceipt, NeverRan, Cancellable
<1>9. Evidence(a, s, c, decisionIds', dispatched', settled')
  BY <1>1, <1>2, <1>4, <1>5, NoneIsAbsent DEF Evidence, rest
<1>10. Keeps(o, s, runs[a], runs[a])
  <2>1. PhaseOf(o) = "requested" /\ PhaseOf(s) = "authorised"
    BY <1>2, <1>4, Phases
  <2> QED  BY <1>2, <1>4, <2>1 DEF Keeps, LegalMoves
<1> QED  BY <1>3, <1>4, <1>5, <1>7, <1>8, <1>9, <1>10 DEF Continues

LEMMA DispatchTooLateContinues ==
  ASSUME Inv, NEW a \in Actions, DispatchTooLate(a)
  PROVE  Continues(a)
<1>1. call[a].pc = "dispatching" /\ action[a] # None /\ call[a] \in Call
      /\ action[a] \in Snapshot /\ Lifecycle(action[a], call[a], runs[a])
  BY InvAt, UnderWay DEF DispatchTooLate, RecordDispatch
<1>2. dispatched \subseteq dispatched' /\ dispatched' \subseteq Actions \X Receipts
  BY <1>1 DEF DispatchTooLate, RecordDispatch, Lifecycle, Call, Inv, TypeOK
<1>3. UNCHANGED action /\ Throw(a)
  <2>1. CASE call[a].approval \in expired
    BY <2>1 DEF DispatchTooLate
  <2>2. CASE call[a].approval \notin expired
    <3>1. action[a].state = "Cancelled" /\ Finish(a, action[a], "Cancelled")
      BY <1>1, <2>2 DEF DispatchTooLate, Lifecycle, Cancellable
    <3>2. <<action[a].state, "Cancelled">> \notin Transitions
      BY <3>1, Moves DEF Cancellable
    <3> QED  BY <3>1, <3>2, <1>1 DEF Finish, Throw, Inv, TypeOK
  <2> QED  BY <2>1, <2>2
<1> QED  BY <1>1, <1>2, <1>3, ThrowContinues DEF DispatchTooLate

(* The handler is started. *)
LEMMA DispatchContinues ==
  ASSUME Inv, NEW a \in Actions, Dispatch(a)
  PROVE  Continues(a)
<1> DEFINE o == action[a]
           r == call[a].receipt
           s == RunSnapshot(a)
           c == [call[a] EXCEPT !.pc = "handling"]
<1>1. /\ o # None /\ o \in Snapshot /\ call[a] \in Call
      /\ call[a].pc = "dispatching" /\ ~o.aborted
      /\ Lifecycle(o, call[a], runs[a])
      /\ Evidence(a, o, call[a], decisionIds, dispatched, settled)
  BY InvAt, UnderWay DEF Dispatch, RecordDispatch
<1>2. r \in Receipts /\ r # None
  BY <1>1, NoneIsAbsent DEF Lifecycle, Call
<1>3. o.state = "Starting" /\ o.started = None /\ o.outcome = None
      /\ runs[a] = 0
  BY <1>1 DEF Lifecycle, BeforeReceipt
<1>4. /\ s \in Snapshot /\ s.state = "Running" /\ s.started = r
      /\ s.decision = o.decision /\ s.outcome = None /\ s.aborted = FALSE
  BY <1>1, <1>2, <1>3 DEF RunSnapshot, Snapshot, Call, States
<1>5. c \in Call /\ c.pc = "handling" /\ c.receipt = r
  BY <1>1 DEF Call, Awaits
<1>6. action' = [action EXCEPT ![a] = s] /\ call' = [call EXCEPT ![a] = c]
      /\ dispatched' = dispatched \cup {<<a, r>>}
      /\ receipts' = receipts \cup {r}
      /\ UNCHANGED <<accepting, expired, decisionIds, outcomes, settled>>
  BY DEF Dispatch, RecordDispatch, Inv, TypeOK
<1>7. 1 \in 0..MaxRuns /\ runs' = [runs EXCEPT ![a] = 1]
  <2> DEFINE n == IF runs[a] < MaxRuns THEN runs[a] + 1 ELSE runs[a]
  <2>1. runs' = [runs EXCEPT ![a] = n]
    BY DEF Dispatch, Inv, TypeOK
  <2>2. n = 1
    BY <1>3, RunsAreCounted
  <2>3. 1 \in 0..MaxRuns
    BY RunsAreCounted
  <2> HIDE DEF n
  <2> QED  BY <2>1, <2>2, <2>3
<1>8. s # None
  BY <1>4, NoneIsAbsent
<1> HIDE DEF s, c, r
<1>9. Advance(a, s, c, 1)
  BY <1>2, <1>6, <1>7 DEF Advance, Inv, TypeOK
<1>10. Lifecycle(s, c, 1)
  BY <1>2, <1>4, <1>5 DEF Lifecycle, BeforeReceipt, NeverRan, Cancellable
<1>11. Evidence(a, s, c, decisionIds', dispatched', settled')
  BY <1>1, <1>4, <1>5, <1>6, NoneIsAbsent DEF Evidence
<1>12. Keeps(o, s, runs[a], 1)
  <2>1. PhaseOf(o) = "authorised" /\ PhaseOf(s) = "running"
    BY <1>1, <1>3, <1>4, <1>8, Phases
  <2> QED  BY <1>1, <2>1 DEF Keeps, LegalMoves
<1> QED  BY <1>4, <1>5, <1>7, <1>9, <1>10, <1>11, <1>12 DEF Continues

LEMMA OutcomeStates ==
  /\ \A o \in Outcomes : OutcomeState(o) \in {"Completed", "Failed", "Cancelled"}
  /\ OutcomeState("unknown_or_interrupted") = "Interrupted"
<1> QED  BY DEF Outcomes, OutcomeState

(* The outcome is recorded, or execute rejects behind stored evidence.     *)
LEMMA SettlementContinues ==
  ASSUME Inv, NEW a \in Actions, SettlementRecorded(a)
  PROVE  Continues(a)
<1> DEFINE o == action[a]
           k == call[a].candidate
           u == [o EXCEPT !.outcome = k]
           t == OutcomeState(k)
           s == [u EXCEPT !.state = t]
           c == [call[a] EXCEPT !.pc = "returned"]
<1>1. /\ o # None /\ o \in Snapshot /\ call[a] \in Call
      /\ runs[a] \in 0..MaxRuns /\ call[a].pc = "settling"
      /\ Lifecycle(o, call[a], runs[a])
      /\ Evidence(a, o, call[a], decisionIds, dispatched, settled)
  BY InvAt, UnderWay DEF SettlementRecorded
<1>2. /\ k \in Outcomes /\ k # None /\ call[a].receipt \in Receipts
      /\ o.state = "Running" /\ o.started = call[a].receipt
      /\ o.started # None /\ o.outcome = None /\ runs[a] = 1
  <2>1. o.state = "Running" /\ k # None /\ o.started = call[a].receipt
    BY <1>1 DEF Lifecycle
  <2>2. o.started # None
    BY <1>1, <2>1 DEF Lifecycle, NeverRan, Cancellable
  <2> QED  BY <1>1, <2>1, <2>2 DEF Lifecycle, Call
<1>3. /\ settled \subseteq settled' /\ settled' \subseteq Actions \X Outcomes
      /\ <<a, k>> \in settled'
      /\ UNCHANGED <<accepting, expired, decisionIds, receipts, dispatched, runs>>
      /\ outcomes' \subseteq Receipts
  BY <1>2 DEF SettlementRecorded, Inv, TypeOK
<1>4. CASE call[a].receipt \in outcomes
  <2> DEFINE d == [call[a] EXCEPT !.pc = "threw"]
  <2>1. d \in Call /\ d.pc = "threw"
    BY <1>1 DEF Call
  <2>2. UNCHANGED action /\ call' = [call EXCEPT ![a] = d]
    BY <1>4 DEF SettlementRecorded, Throw, Inv, TypeOK
  <2> HIDE DEF d
  <2>3. Advance(a, o, d, runs[a])
    BY <1>3, <2>2 DEF Advance, Inv, TypeOK
  <2>4. Lifecycle(o, d, runs[a])
    BY <1>1, <2>1 DEF Lifecycle, BeforeReceipt
  <2>5. Evidence(a, o, d, decisionIds', dispatched', settled')
    BY <1>1, <1>2, <1>3, <2>1, NoneIsAbsent DEF Evidence
  <2>6. Keeps(o, o, runs[a], runs[a])
    BY DEF Keeps
  <2> QED  BY <1>1, <2>1, <2>3, <2>4, <2>5, <2>6 DEF Continues
<1>5. CASE call[a].receipt \notin outcomes
  <2>1. t \in {"Completed", "Failed", "Cancelled"}
    BY <1>2, OutcomeStates
  <2>2. u \in Snapshot /\ u.state = "Running" /\ u.started = o.started
        /\ u.decision = o.decision /\ u.aborted = o.aborted
        /\ u.outcome = k
    BY <1>1, <1>2 DEF Snapshot
  <2>3. c \in Call /\ c.pc = "returned"
    BY <1>1 DEF Call
  <2>4. action' = [action EXCEPT ![a] = s] /\ call' = [call EXCEPT ![a] = c]
    <3>1. <<u.state, t>> \in Transitions
      BY <2>1, <2>2, Moves
    <3>2. Finish(a, u, t)
      BY <1>5 DEF SettlementRecorded
    <3> HIDE DEF u, t
    <3>3. QED  BY <3>1, <3>2 DEF Finish, Inv, TypeOK
  <2> HIDE DEF u, c
  <2>5. t = OutcomeState(k)
    OBVIOUS
  <2> HIDE DEF t
  <2>6. s \in Snapshot /\ s.state = t /\ s.started = o.started
        /\ s.decision = o.decision /\ s.aborted = o.aborted
        /\ s.outcome = k
    <3>1. t \in States
      BY <2>1 DEF States
    <3> QED  BY <2>2, <3>1 DEF Snapshot
  <2>7. s # None
    BY <2>6, NoneIsAbsent
  <2> HIDE DEF s, k
  <2>8. Advance(a, s, c, runs[a])
    BY <1>3, <2>4 DEF Advance, Inv, TypeOK
  <2>9. Lifecycle(s, c, runs[a])
    BY <1>1, <1>2, <2>1, <2>3, <2>6
       DEF Lifecycle, BeforeReceipt, NeverRan, Cancellable
  <2>10. Evidence(a, s, c, decisionIds', dispatched', settled')
    BY <1>1, <1>2, <1>3, <2>3, <2>5, <2>6, NoneIsAbsent
       DEF Evidence, Outcomes
  <2>11. Keeps(o, s, runs[a], runs[a])
    <3>1. PhaseOf(o) = "running" /\ PhaseOf(s) = "settled"
      BY <1>1, <1>2, <2>1, <2>6, <2>7, Phases
    <3> QED  BY <1>2, <3>1 DEF Keeps, LegalMoves
  <2> QED  BY <1>1, <2>3, <2>6, <2>8, <2>9, <2>10, <2>11 DEF Continues
<1> QED  BY <1>4, <1>5

(* The outcome could not be made durable.                                  *)
LEMMA InterruptContinues ==
  ASSUME Inv, NEW a \in Actions, Interrupt(a)
  PROVE  Continues(a)
<1> DEFINE o == action[a]
           u == [o EXCEPT !.outcome = "unknown_or_interrupted"]
           s == [u EXCEPT !.state = "Interrupted"]
           c == [call[a] EXCEPT !.pc = "interrupting"]
<1>1. /\ o # None /\ o \in Snapshot /\ call[a] \in Call
      /\ runs[a] \in 0..MaxRuns
      /\ Lifecycle(o, call[a], runs[a])
      /\ Evidence(a, o, call[a], decisionIds, dispatched, settled)
  BY InvAt, UnderWay DEF Interrupt
<1>2. /\ o.state = "Running" /\ o.started = call[a].receipt
      /\ o.started # None /\ runs[a] = 1
      /\ call[a].receipt \in Receipts
  <2>1. o.state = "Running" /\ o.started = call[a].receipt
    BY <1>1 DEF Interrupt, Lifecycle
  <2>2. o.started # None
    BY <1>1, <2>1 DEF Lifecycle, NeverRan, Cancellable
  <2> QED  BY <1>1, <2>1, <2>2 DEF Lifecycle, Call
<1>3. CASE call[a].receipt \in outcomes
  <2>1. Throw(a) /\ UNCHANGED <<action, outcomes, accepting, expired, decisionIds,
                               receipts, dispatched, settled, runs>>
    BY <1>3 DEF Interrupt
  <2> QED  BY <1>1, <2>1, ThrowContinues DEF Inv, TypeOK
<1>4. CASE call[a].receipt \notin outcomes
  <2>1. u \in Snapshot /\ s \in Snapshot
    BY <1>1, SnapshotWith DEF States
  <2>2. s.state = "Interrupted" /\ s.started = o.started
        /\ s.decision = o.decision /\ s.aborted = o.aborted
        /\ s.outcome = "unknown_or_interrupted"
    BY <1>1 DEF Snapshot
  <2>3. c \in Call /\ c.pc = "interrupting"
    BY <1>1 DEF Call, Awaits
  <2>4. /\ action' = [action EXCEPT ![a] = s]
        /\ call' = [call EXCEPT ![a] = c]
        /\ outcomes' = outcomes \cup {call[a].receipt}
        /\ UNCHANGED <<accepting, expired, decisionIds, receipts, dispatched,
                       settled, runs>>
    <3>1. s = [o EXCEPT !.outcome = "unknown_or_interrupted",
                        !.state = "Interrupted"]
      OBVIOUS
    <3> QED  BY <1>4, <3>1 DEF Interrupt, Inv, TypeOK
  <2> HIDE DEF u, s, c
  <2>5. s # None
    BY <2>1, NoneIsAbsent
  <2>6. Advance(a, s, c, runs[a])
    BY <1>2, <2>4 DEF Advance, Inv, TypeOK
  <2>7. Lifecycle(s, c, runs[a])
    BY <1>1, <1>2, <2>2, <2>3, NoneIsAbsent
       DEF Lifecycle, BeforeReceipt, NeverRan, Cancellable
  <2>8. Evidence(a, s, c, decisionIds', dispatched', settled')
    BY <1>1, <1>2, <2>2, <2>3, <2>4, NoneIsAbsent DEF Evidence
  <2>9. Keeps(o, s, runs[a], runs[a])
    <3>1. PhaseOf(o) = "running" /\ PhaseOf(s) = "uncertain"
      BY <1>1, <1>2, <2>2, <2>5, Phases
    <3> QED  BY <1>2, <3>1 DEF Keeps, LegalMoves
  <2> QED  BY <1>1, <2>1, <2>3, <2>6, <2>7, <2>8, <2>9 DEF Continues
<1> QED  BY <1>3, <1>4

-----------------------------------------------------------------------------
(* Every step.                                                             *)

(* A step that moves no action. *)
Still ==
  /\ UNCHANGED <<action, call, decisionIds, receipts, outcomes, dispatched,
                 settled, runs>>
  /\ accepting' \subseteq Actions \X Approvals
  /\ expired' \subseteq Approvals
  /\ AcceptingInv'

LEMMA StillSteps ==
  ASSUME Inv,
         \/ \E a \in Actions, ap \in Approvals :
              Approve(a, ap) \/ ApprovalHookFails(a, ap)
         \/ \E ap \in Approvals : Expire(ap)
         \/ UNCHANGED vars
  PROVE  Still
<1>1. ASSUME NEW a \in Actions, NEW ap \in Approvals, Approve(a, ap)
      PROVE  Still
  BY <1>1 DEF Approve, Still, Inv, TypeOK, AcceptingInv
<1>2. ASSUME NEW a \in Actions, NEW ap \in Approvals, ApprovalHookFails(a, ap)
      PROVE  Still
  BY <1>2 DEF ApprovalHookFails, Still, Inv, TypeOK, AcceptingInv
<1>3. ASSUME NEW ap \in Approvals, Expire(ap)
      PROVE  Still
  BY <1>3 DEF Expire, Still, Inv, TypeOK, AcceptingInv
<1>4. CASE UNCHANGED vars
  BY <1>4 DEF vars, Still, Inv, TypeOK, AcceptingInv
<1> QED  BY <1>1, <1>2, <1>3, <1>4

LEMMA EveryStep ==
  ASSUME Inv, [Next]_vars
  PROVE  Still \/ \E a \in Actions : Continues(a)
<1>1. ASSUME NEW a \in Actions, Propose(a) \/ Cancel(a)
      PROVE  Continues(a)
  BY <1>1, ProposeContinues, CancelContinues
<1>2. ASSUME NEW a \in Actions, Approving(a)
      PROVE  Still \/ Continues(a)
  <2>1. ASSUME NEW ap \in Approvals, ApprovalRecorded(a, ap)
        PROVE  Continues(a)
    <3>1. action[a] # None
      BY <2>1 DEF ApprovalRecorded, Inv, AcceptingInv
    <3> QED  BY <2>1, <3>1, ApprovalContinues
  <2> QED  BY <1>2, <2>1, StillSteps DEF Approving
<1>3. ASSUME NEW a \in Actions, Evaluating(a)
      PROVE  Continues(a)
  BY <1>3, WaitsContinue, EvaluatingContinues, DecidingContinues,
     ClosersContinue DEF Evaluating
<1>4. ASSUME NEW a \in Actions, Dispatching(a)
      PROVE  Continues(a)
  BY <1>4, StartContinues, WaitsContinue, DispatchTooLateContinues,
     DispatchContinues DEF Dispatching
<1>5. ASSUME NEW a \in Actions, Settling(a)
      PROVE  Continues(a)
  BY <1>5, WaitsContinue, SettlementContinues, InterruptContinues DEF Settling
<1>6. CASE Next
  BY <1>1, <1>2, <1>3, <1>4, <1>5, <1>6, StillSteps DEF Next
<1>7. CASE UNCHANGED vars
  BY <1>7, StillSteps
<1> QED  BY <1>6, <1>7

LEMMA StillInv ==
  ASSUME Inv, Still
  PROVE  Inv'
<1>1. TypeOK' /\ AcceptingInv'
  BY DEF Inv, TypeOK, Still
<1>2. LifecycleInv' /\ EvidenceInv'
  BY DEF Inv, LifecycleInv, EvidenceInv, Still
<1> QED  BY <1>1, <1>2 DEF Inv

LEMMA ContinuesInv ==
  ASSUME Inv, NEW a \in Actions, Continues(a)
  PROVE  Inv'
<1>1. PICK s \in Snapshot, c \in Call, n \in 0..MaxRuns :
        /\ Advance(a, s, c, n)
        /\ Lifecycle(s, c, n)
        /\ Evidence(a, s, c, decisionIds', dispatched', settled')
  BY DEF Continues
<1>2. s # None
  BY NoneIsAbsent
<1>3. action'[a] = s /\ call'[a] = c /\ runs'[a] = n
      /\ \A b \in Actions \ {a} :
           action'[b] = action[b] /\ call'[b] = call[b] /\ runs'[b] = runs[b]
  BY <1>1 DEF Advance, Inv, TypeOK
<1>4. TypeOK'
  BY <1>1 DEF Advance, Inv, TypeOK
<1>5. LifecycleInv'
  BY <1>1, <1>2, <1>3 DEF Inv, LifecycleInv
<1>6. EvidenceInv'
  <2>1. ASSUME NEW b \in Actions \ {a}, action'[b] # None
        PROVE  Evidence(b, action'[b], call'[b], decisionIds', dispatched', settled')
    <3>1. Evidence(b, action[b], call[b], decisionIds, dispatched, settled)
          /\ action[b] \in Snapshot
      BY <1>3, <2>1 DEF Inv, EvidenceInv, TypeOK
    <3>2. decisionIds \subseteq decisionIds' /\ dispatched \subseteq dispatched'
          /\ settled \subseteq settled'
      BY <1>1 DEF Advance
    <3> QED  BY <1>3, <3>1, <3>2 DEF Evidence
  <2> QED  BY <1>1, <1>3, <2>1 DEF EvidenceInv
<1>7. AcceptingInv'
  BY <1>1, <1>2, <1>3 DEF Advance, Inv, AcceptingInv
<1> QED  BY <1>4, <1>5, <1>6, <1>7 DEF Inv

LEMMA InitInv == Init => Inv
<1> SUFFICES ASSUME Init PROVE Inv
  OBVIOUS
<1>1. TypeOK
  <2>1. NoCall \in Call
    BY DEF NoCall, Call
  <2> QED  BY <2>1, RunsAreCounted DEF Init, TypeOK
<1>2. LifecycleInv
  BY DEF Init, LifecycleInv, NoCall
<1>3. EvidenceInv /\ AcceptingInv
  BY DEF Init, EvidenceInv, AcceptingInv
<1> QED  BY <1>1, <1>2, <1>3 DEF Inv

LEMMA Inductive == Spec => []Inv
<1>1. Inv /\ [Next]_vars => Inv'
  BY EveryStep, StillInv, ContinuesInv
<1> QED  BY InitInv, <1>1, PTL DEF Spec

-----------------------------------------------------------------------------
(* Whose decision an action shows.                                         *)

(* Ids shown are recorded, and each of them by one action. *)
Distinct ==
  /\ \A a \in Actions :
       action[a] # None /\ action[a].decision # None =>
         action[a].decision.id \in decisionIds \cup {None}
  /\ DecisionsNotShared

(* At most action a changes, and the decision it then shows is the one it  *)
(* had, a local one, or one under an id that was not recorded.             *)
DecidesAnew(a) ==
  /\ \A b \in Actions \ {a} : action'[b] = action[b]
  /\ decisionIds \subseteq decisionIds'
  /\ action'[a] # None /\ action'[a].decision # None =>
       \/ action[a] # None /\ action'[a].decision = action[a].decision
       \/ action'[a].decision.id = None
       \/ action'[a].decision.id \in decisionIds' \ decisionIds

LEMMA LocalHasNoId ==
  LocalDecision.id = None
<1> QED  BY DEF LocalDecision

(* Finish keeps the decision of the snapshot it is given. *)
LEMMA FinishKeepsDecision ==
  ASSUME TypeOK, NEW a \in Actions, NEW s \in Snapshot, NEW t \in States,
         Finish(a, s, t)
  PROVE  /\ \A b \in Actions \ {a} : action'[b] = action[b]
         /\ action'[a].decision = s.decision
<1>1. [s EXCEPT !.state = t].decision = s.decision
  BY DEF Snapshot
<1> QED  BY <1>1 DEF Finish, TypeOK

LEMMA FinishesDecideAnew ==
  ASSUME Inv, NEW a \in Actions,
         \/ FailClosed(a) \/ DecisionHookFails(a) \/ DecisionTooLate(a)
         \/ DecisionRefuses(a) \/ DispatchTooLate(a) \/ SettlementRecorded(a)
  PROVE  DecidesAnew(a)
<1> DEFINE o == action[a]
<1>1. TypeOK /\ o # None /\ o \in Snapshot /\ call[a] \in Call
  BY InvAt, UnderWay
     DEF Inv, FailClosed, DecisionHookFails, DecisionTooLate, DecisionRefuses,
         DispatchTooLate, RecordDispatch, SettlementRecorded
<1>2. decisionIds' = decisionIds
  BY DEF FailClosed, DecisionHookFails, DecisionTooLate, DecisionRefuses,
         DispatchTooLate, SettlementRecorded, rest
<1>3. CASE FailClosed(a) \/ DecisionTooLate(a) \/ DecisionRefuses(a)
  <2>1. PICK t \in States : Finish(a, o, t)
    BY <1>3 DEF FailClosed, DecisionTooLate, DecisionRefuses, VerdictState,
                States, Cancellable
  <2> QED  BY <1>1, <1>2, <2>1, FinishKeepsDecision DEF DecidesAnew
<1>4. CASE DecisionHookFails(a)
  <2> DEFINE u == [o EXCEPT !.decision = LocalDecision]
  <2>1. u \in Snapshot /\ u.decision = LocalDecision
    BY <1>1, SnapshotWith, LocalIsDecision DEF Snapshot
  <2>2. Finish(a, u, "DecisionError") /\ "DecisionError" \in States
    BY <1>4 DEF DecisionHookFails, States
  <2> HIDE DEF u
  <2> QED  BY <1>1, <1>2, <2>1, <2>2, FinishKeepsDecision, LocalHasNoId
           DEF DecidesAnew
<1>5. CASE DispatchTooLate(a)
  <2>1. CASE UNCHANGED action
    BY <1>1, <1>2, <2>1 DEF DecidesAnew
  <2>2. CASE Finish(a, o, "Cancelled")
    <3>1. "Cancelled" \in States
      BY DEF States
    <3> QED  BY <1>1, <1>2, <2>2, <3>1, FinishKeepsDecision DEF DecidesAnew
  <2> QED  BY <1>5, <2>1, <2>2 DEF DispatchTooLate
<1>6. CASE SettlementRecorded(a)
  <2>1. CASE UNCHANGED action
    BY <1>1, <1>2, <2>1 DEF DecidesAnew
  <2>2. CASE call[a].receipt \notin outcomes
    <3> DEFINE k == call[a].candidate
               u == [o EXCEPT !.outcome = k]
    <3>1. k \in Outcomes
      BY <1>1, <1>6, InvAt DEF SettlementRecorded, Lifecycle, Call
    <3>2. u \in Snapshot /\ u.decision = o.decision
      BY <1>1, <3>1 DEF Snapshot
    <3>3. Finish(a, u, OutcomeState(k)) /\ OutcomeState(k) \in States
      BY <1>6, <2>2 DEF SettlementRecorded, OutcomeState, States
    <3> HIDE DEF u, k
    <3> QED  BY <1>1, <1>2, <3>2, <3>3, FinishKeepsDecision DEF DecidesAnew
  <2> QED  BY <1>6, <2>1, <2>2 DEF SettlementRecorded
<1> QED  BY <1>3, <1>4, <1>5, <1>6

LEMMA EvaluatingDecidesAnew ==
  ASSUME Inv, NEW a \in Actions, Evaluating(a)
  PROVE  DecidesAnew(a)
<1>1. TypeOK
  BY DEF Inv
<1>2. CASE \/ ExecuteRefused(a) \/ RequestRecorded(a) \/ RequestHookFails(a)
           \/ AllowedTooLate(a)
  BY <1>2 DEF ExecuteRefused, RequestRecorded, RequestHookFails,
              AllowedTooLate, rest, DecidesAnew
<1>3. CASE ExecuteUnknown(a) \/ DecideFails(a)
  <2>1. action[a] \in Snapshot
    BY <1>3, InvAt, UnderWay DEF ExecuteUnknown, CanExecute, DecideFails
  <2>2. action'[a].decision = LocalDecision
    BY <1>1, <1>3, <2>1 DEF ExecuteUnknown, DecideFails, TypeOK, Snapshot
  <2>3. decisionIds' = decisionIds
        /\ \A b \in Actions \ {a} : action'[b] = action[b]
    BY <1>1, <1>3 DEF ExecuteUnknown, DecideFails, TypeOK, rest
  <2> QED  BY <2>2, <2>3, LocalHasNoId DEF DecidesAnew
<1>4. CASE Execute(a)
  <2>1. action[a] \in Snapshot /\ action[a] # None
    BY <1>4, InvAt DEF Execute, CanExecute
  <2>2. action'[a].decision = action[a].decision
    BY <1>1, <1>4, <2>1 DEF Execute, TypeOK, Snapshot
  <2>3. decisionIds' = decisionIds
        /\ \A b \in Actions \ {a} : action'[b] = action[b]
    BY <1>1, <1>4 DEF Execute, TypeOK, rest
  <2> QED  BY <2>1, <2>2, <2>3 DEF DecidesAnew
<1>5. ASSUME NEW d \in Decisions, NEW v \in Verdicts, Decide(a, d, v)
      PROVE  DecidesAnew(a)
  <2>1. action[a] \in Snapshot
    BY <1>5, InvAt, UnderWay DEF Decide
  <2>2. action'[a].decision = [id |-> d, verdict |-> v]
    BY <1>1, <1>5, <2>1 DEF Decide, TypeOK, Snapshot
  <2>3. action'[a].decision.id = d
    BY <2>2
  <2>4. \A b \in Actions \ {a} : action'[b] = action[b]
    BY <1>1, <1>5 DEF Decide, TypeOK
  <2> QED  BY <1>5, <2>3, <2>4 DEF Decide, DecidesAnew
<1> QED  BY <1>2, <1>3, <1>4, <1>5, FinishesDecideAnew DEF Evaluating

LEMMA DispatchingDecidesAnew ==
  ASSUME Inv, NEW a \in Actions, Dispatching(a) \/ Settling(a)
  PROVE  DecidesAnew(a)
<1>1. TypeOK /\ (call[a].pc # "idle" => action[a] # None)
      /\ (action[a] # None => action[a] \in Snapshot)
  BY InvAt, UnderWay DEF Inv
<1>2. CASE \/ DispatchHookFails(a) \/ InterruptReturns(a)
           \/ \E o \in Outcomes : HandlerEnds(a, o)
  BY <1>2 DEF DispatchHookFails, InterruptReturns, HandlerEnds, rest,
              DecidesAnew
<1>3. ASSUME NEW r \in Receipts, Start(a, r) \/ ReceiptTaken(a, r)
      PROVE  DecidesAnew(a)
  <2>1. action[a] # None /\ action[a] \in Snapshot
    BY <1>1, <1>3 DEF Start, ReceiptTaken, Allowed
  <2>2. /\ action'[a].decision = action[a].decision
        /\ \A b \in Actions \ {a} : action'[b] = action[b]
    BY <1>1, <1>3, <2>1 DEF Start, ReceiptTaken, TypeOK, Snapshot
  <2>3. decisionIds' = decisionIds
    BY <1>3 DEF Start, ReceiptTaken, rest
  <2> QED  BY <2>1, <2>2, <2>3 DEF DecidesAnew
<1>4. CASE Dispatch(a)
  <2>1. action[a] # None /\ action[a] \in Snapshot
    BY <1>1, <1>4 DEF Dispatch, RecordDispatch
  <2>2. RunSnapshot(a).decision = action[a].decision
    BY <2>1 DEF RunSnapshot, Snapshot
  <2>3. /\ action'[a] = RunSnapshot(a)
        /\ \A b \in Actions \ {a} : action'[b] = action[b]
    BY <1>1, <1>4 DEF Dispatch, TypeOK
  <2> QED  BY <1>4, <2>1, <2>2, <2>3 DEF Dispatch, DecidesAnew
<1>5. CASE Interrupt(a)
  <2>1. action[a] # None /\ action[a] \in Snapshot
    BY <1>1, <1>5 DEF Interrupt
  <2>2. CASE UNCHANGED action
    BY <1>5, <2>1, <2>2 DEF Interrupt, DecidesAnew
  <2>3. CASE action' = [action EXCEPT
                          ![a].outcome = "unknown_or_interrupted",
                          ![a].state = "Interrupted"]
    <3>1. /\ action'[a].decision = action[a].decision
          /\ \A b \in Actions \ {a} : action'[b] = action[b]
      BY <1>1, <2>1, <2>3 DEF TypeOK, Snapshot
    <3> QED  BY <1>5, <2>1, <3>1 DEF Interrupt, DecidesAnew
  <2> QED  BY <1>5, <2>2, <2>3 DEF Interrupt
<1> QED  BY <1>2, <1>3, <1>4, <1>5, FinishesDecideAnew
         DEF Dispatching, Settling

LEMMA OpeningDecidesAnew ==
  ASSUME Inv, NEW a \in Actions, Propose(a) \/ Cancel(a) \/ Approving(a)
  PROVE  DecidesAnew(a)
<1>1. TypeOK /\ (action[a] # None => action[a] \in Snapshot)
  BY InvAt DEF Inv
<1>2. CASE Propose(a)
  BY <1>1, <1>2 DEF Propose, Proposal, TypeOK, rest, DecidesAnew
<1>3. CASE Cancel(a)
  <2>1. action[a] # None /\ action[a] \in Snapshot
    BY <1>1, <1>3 DEF Cancel
  <2>2. /\ action'[a].decision = action[a].decision
        /\ \A b \in Actions \ {a} : action'[b] = action[b]
    BY <1>1, <1>3, <2>1 DEF Cancel, TypeOK, Snapshot
  <2> QED  BY <1>3, <2>1, <2>2 DEF Cancel, rest, DecidesAnew
<1>4. ASSUME NEW ap \in Approvals, ApprovalRecorded(a, ap)
      PROVE  DecidesAnew(a)
  <2>1. action[a] # None /\ action[a] \in Snapshot
    BY <1>1, <1>4 DEF ApprovalRecorded, Inv, AcceptingInv
  <2>2. /\ action'[a].decision = action[a].decision
        /\ \A b \in Actions \ {a} : action'[b] = action[b]
    BY <1>1, <1>4, <2>1 DEF ApprovalRecorded, TypeOK, Snapshot
  <2> QED  BY <1>4, <2>1, <2>2 DEF ApprovalRecorded, DecidesAnew
<1>5. ASSUME NEW ap \in Approvals, Approve(a, ap) \/ ApprovalHookFails(a, ap)
      PROVE  DecidesAnew(a)
  BY <1>5 DEF Approve, ApprovalHookFails, DecidesAnew
<1> QED  BY <1>2, <1>3, <1>4, <1>5 DEF Approving

LEMMA EveryStepDecidesAnew ==
  ASSUME Inv, [Next]_vars
  PROVE  \/ UNCHANGED <<action, decisionIds>>
         \/ \E a \in Actions : DecidesAnew(a)
<1>1. CASE UNCHANGED vars
  BY <1>1 DEF vars
<1>2. ASSUME NEW ap \in Approvals, Expire(ap)
      PROVE  UNCHANGED <<action, decisionIds>>
  BY <1>2 DEF Expire
<1> QED  BY <1>1, <1>2, OpeningDecidesAnew, EvaluatingDecidesAnew,
            DispatchingDecidesAnew DEF Next

LEMMA DistinctStays ==
  ASSUME Inv, Distinct, [Next]_vars
  PROVE  Distinct'
<1>1. CASE UNCHANGED <<action, decisionIds>>
  BY <1>1 DEF Distinct, DecisionsNotShared
<1>2. ASSUME NEW a \in Actions, DecidesAnew(a)
      PROVE  Distinct'
  <2> DEFINE Shows(b) == action[b] # None /\ action[b].decision # None
  <2>1. \A b \in Actions \ {a} : action'[b] = action[b]
    BY <1>2 DEF DecidesAnew
  <2>2. ASSUME action'[a] # None, action'[a].decision # None
        PROVE  \/ Shows(a) /\ action'[a].decision = action[a].decision
               \/ action'[a].decision.id = None
               \/ action'[a].decision.id \in decisionIds' \ decisionIds
    BY <1>2, <2>2 DEF DecidesAnew
  <2>3. ASSUME NEW b \in Actions, action'[b] # None, action'[b].decision # None
        PROVE  action'[b].decision.id \in decisionIds' \cup {None}
    <3>1. decisionIds \subseteq decisionIds'
      BY <1>2 DEF DecidesAnew
    <3> QED  BY <2>1, <2>2, <2>3, <3>1 DEF Distinct
  <2>4. ASSUME NEW b \in Actions \ {a},
               action'[a] # None, action'[a].decision # None,
               action'[b] # None, action'[b].decision # None,
               action'[a].decision.id # None \/ action'[b].decision.id # None
        PROVE  action'[a].decision.id # action'[b].decision.id
    <3>1. Shows(b) /\ action'[b] = action[b]
          /\ action[b].decision.id \in decisionIds \cup {None}
      BY <2>1, <2>4 DEF Distinct
    <3>2. CASE Shows(a) /\ action'[a].decision = action[a].decision
      BY <2>4, <3>1, <3>2 DEF Distinct, DecisionsNotShared
    <3>3. CASE action'[a].decision.id = None
      BY <2>4, <3>1, <3>3
    <3>4. CASE action'[a].decision.id \in decisionIds' \ decisionIds
      BY <2>4, <3>1, <3>4
    <3> QED  BY <2>2, <2>4, <3>2, <3>3, <3>4
  <2>5. DecisionsNotShared'
    <3> SUFFICES ASSUME NEW b \in Actions, NEW c \in Actions, b # c,
                        action'[b] # None, action'[b].decision # None,
                        action'[c] # None, action'[c].decision # None,
                        action'[b].decision.id # None
                 PROVE  action'[b].decision.id # action'[c].decision.id
      BY DEF DecisionsNotShared
    <3>1. CASE b # a /\ c # a
      BY <2>1, <3>1 DEF Distinct, DecisionsNotShared
    <3>2. CASE b = a
      BY <2>4, <3>2
    <3>3. CASE c = a
      BY <2>4, <3>3
    <3> QED  BY <3>1, <3>2, <3>3
  <2> QED  BY <2>3, <2>5 DEF Distinct
<1> QED  BY <1>1, <1>2, EveryStepDecidesAnew

-----------------------------------------------------------------------------
(* The theorems.                                                           *)

(* Every state of the action runtime has the types the code declares: the  *)
(* fields and the statuses of runtime.ts and state-machine.ts.             *)
THEOREM TypeCorrect == Spec => []TypeOK
<1> QED  BY Inductive, PTL DEF Inv

(* A handler runs at most once, and only behind a recorded allow and its   *)
(* own durable dispatch evidence (the barrier of executeOnce).             *)
THEOREM HandlersRunBehindEvidence == Spec => []RunsBehindEvidence
<1>1. Inv => RunsBehindEvidence
  <2> SUFFICES ASSUME Inv, NEW a \in Actions, runs[a] > 0
               PROVE  /\ runs[a] = 1
                      /\ action[a].started # None
                      /\ <<a, action[a].started>> \in dispatched
                      /\ action[a].decision # None
                      /\ action[a].decision.verdict = "allow"
                      /\ action[a].decision.id \in decisionIds
    BY DEF RunsBehindEvidence
  <2>1. action[a] # None /\ runs[a] # 0
    BY InvAt
  <2>2. action[a].started # None /\ runs[a] = 1
    BY <2>1, InvAt DEF Lifecycle
  <2> QED  BY <2>1, <2>2, InvAt DEF Evidence
<1> QED  BY Inductive, <1>1, PTL

(* A published outcome is the durable one (recordTerminalOutcome behind    *)
(* afterSettlement).                                                       *)
THEOREM OutcomesAreDurable == Spec => []OutcomeIsDurable
<1>1. Inv => OutcomeIsDurable
  BY InvAt DEF OutcomeIsDurable, Evidence
<1> QED  BY Inductive, <1>1, PTL

(* Handlers and outcomes are on durable record (the two above).            *)
THEOREM EffectsStayOnRecord == Spec => []EffectsAreOnRecord
  BY HandlersRunBehindEvidence, OutcomesAreDurable, PTL DEF EffectsAreOnRecord

(* A cancelled action that has not been started never is (the checks of    *)
(* the abort signal behind each await of executeOnce).                     *)
THEOREM CancelIsFinal == Spec => CancelPrevents
<1> DEFINE Prevents == \A a \in Actions :
             action[a] # None /\ action[a].aborted /\ action[a].started = None
               => action'[a].started = None /\ runs'[a] = runs[a]
<1>1. Inv /\ [Next]_vars => Prevents
  <2> SUFFICES ASSUME Inv, [Next]_vars PROVE Prevents
    OBVIOUS
  <2>1. CASE Still
    BY <2>1 DEF Still
  <2>2. ASSUME NEW a \in Actions, Continues(a)
        PROVE  Prevents
    <3>1. PICK s \in Snapshot, c \in Call, n \in 0..MaxRuns :
            Advance(a, s, c, n) /\ Keeps(action[a], s, runs[a], n)
      BY <2>2 DEF Continues
    <3>2. action'[a] = s /\ runs'[a] = n
          /\ \A b \in Actions \ {a} :
               action'[b] = action[b] /\ runs'[b] = runs[b]
      BY <3>1 DEF Advance, Inv, TypeOK
    <3> QED  BY <3>1, <3>2 DEF Keeps
  <2> QED  BY <2>1, <2>2, EveryStep
<1>2. Inv /\ [Next]_vars => [Prevents]_vars
  BY <1>1
<1> QED  BY Inductive, <1>2, PTL DEF Spec, CancelPrevents

(* One policy decision is authority for one action, however the executions *)
(* of several actions interleave (executeOnce, the check of decisionIds    *)
(* behind the provider's answer).                                          *)
THEOREM DecisionsAreNotShared == Spec => []DecisionsNotShared
<1>1. Init => Distinct
  BY DEF Init, Distinct, DecisionsNotShared
<1>2. Inv /\ Distinct /\ [Next]_vars => Distinct'
  BY DistinctStays
<1>3. Distinct => DecisionsNotShared
  BY DEF Distinct
<1> QED  BY Inductive, <1>1, <1>2, <1>3, PTL DEF Spec

(* A legal move of one effect is a step of SideEffect.                     *)
LEMMA LegalMoveIsStep ==
  ASSUME NEW eff, NEW eff2, NEW a \in Actions, NEW p,
         eff \in [Actions -> Promise!Phases],
         eff2 = [eff EXCEPT ![a] = p],
         p = eff[a] \/ <<eff[a], p>> \in LegalMoves
  PROVE  \/ eff2 = eff
         \/ eff[a] = "none" /\ p = "requested"
         \/ eff[a] = "requested" /\ p = "authorised"
         \/ eff[a] \in {"requested", "authorised"} /\ p = "closed"
         \/ eff[a] = "authorised" /\ p = "running"
         \/ eff[a] = "running" /\ p = "settled"
         \/ eff[a] = "running" /\ p = "uncertain"
<1>1. CASE p = eff[a]
  BY <1>1
<1>2. CASE <<eff[a], p>> \in LegalMoves
  BY <1>2 DEF LegalMoves
<1> QED  BY <1>1, <1>2

LEMMA PhaseIsPhase ==
  ASSUME NEW s
  PROVE  PhaseOf(s) \in Promise!Phases
<1> QED  BY DEF PhaseOf, Promise!Phases

(* The action runtime implements SideEffect: every action is requested,    *)
(* authorised, run at most once and settled or recorded as uncertain, and  *)
(* is never run behind its closing.                                        *)
THEOREM RuntimeKeepsPromise == Spec => KeepsPromise
<1> DEFINE eff == [a \in Actions |-> EffectOf(a)]
<1>1. Init => Promise!Init
  BY DEF Init, Promise!Init, EffectOf, PhaseOf
<1>2. Inv /\ [Next]_vars => [Promise!Next]_eff
  <2> SUFFICES ASSUME Inv, [Next]_vars PROVE Promise!Next \/ eff' = eff
    OBVIOUS
  <2>1. CASE Still
    BY <2>1 DEF Still, EffectOf
  <2>2. ASSUME NEW a \in Actions, Continues(a)
        PROVE  Promise!Next \/ eff' = eff
    <3>1. PICK s \in Snapshot, c \in Call, n \in 0..MaxRuns :
            Advance(a, s, c, n) /\ Keeps(action[a], s, runs[a], n)
      BY <2>2 DEF Continues
    <3> DEFINE p == PhaseOf(s)
               next == [b \in Actions |-> PhaseOf(action'[b])]
    <3>2. action'[a] = s /\ \A b \in Actions \ {a} : action'[b] = action[b]
      BY <3>1 DEF Advance, Inv, TypeOK
    <3>3. next = [eff EXCEPT ![a] = p]
      BY <3>2 DEF EffectOf
    <3>4. eff' = next
      BY DEF EffectOf
    <3>5. eff \in [Actions -> Promise!Phases] /\ eff[a] = PhaseOf(action[a])
      BY PhaseIsPhase DEF EffectOf
    <3>6. p = eff[a] \/ <<eff[a], p>> \in LegalMoves
      BY <3>1, <3>5 DEF Keeps
    <3> HIDE DEF eff, p, next
    <3>7. \/ next = eff
          \/ eff[a] = "none" /\ p = "requested"
          \/ eff[a] = "requested" /\ p = "authorised"
          \/ eff[a] \in {"requested", "authorised"} /\ p = "closed"
          \/ eff[a] = "authorised" /\ p = "running"
          \/ eff[a] = "running" /\ p = "settled"
          \/ eff[a] = "running" /\ p = "uncertain"
      BY <3>3, <3>5, <3>6, LegalMoveIsStep
    <3>8. eff' = [eff EXCEPT ![a] = p]
      BY <3>3, <3>4
    <3> QED  BY <3>4, <3>7, <3>8
             DEF eff, Promise!Next, Promise!Request, Promise!Authorise,
                 Promise!Close, Promise!Run, Promise!Settle, Promise!Lose,
                 Promise!Moves
  <2> QED  BY <2>1, <2>2, EveryStep
<1> QED  BY Inductive, <1>1, <1>2, PTL DEF Spec, KeepsPromise, Promise!Spec

=============================================================================
