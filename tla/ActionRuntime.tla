--------------------------- MODULE ActionRuntime ---------------------------
(***************************************************************************)
(* The governed lifecycle of generic actions                               *)
(* (packages/action-runtime: runtime.ts, state-machine.ts, registry.ts,    *)
(* evidence.ts and the checks of validation.ts).                           *)
(*                                                                         *)
(* propose and cancel are synchronous; approve awaits one hook and         *)
(* executeOnce awaits the policy decision, the handler and up to four      *)
(* hooks, so the calls for one action interleave at those awaits.  `pc`    *)
(* names what executeOnce waits for.  A call whose arguments are refused   *)
(* changes nothing and is left out, except where execute caches the        *)
(* refusal.                                                                *)
(***************************************************************************)
EXTENDS Naturals

CONSTANTS Actions,        \* action ids
          Registered,     \* those whose action type has a handler
          Approvals,      \* approvals, valid for any action until they expire
          Decisions,      \* decision ids a provider answers with
          Receipts,       \* what idFactory("executionReceipt") can return
          FreshReceipts,  \* idFactory never returns a receipt twice
          MaxRuns,        \* bound: the history of handler calls counts to it
          None

ASSUME RegisteredAreActions == Registered \subseteq Actions
ASSUME FreshIsBoolean == FreshReceipts \in BOOLEAN
ASSUME RunsAreCounted == MaxRuns \in Nat /\ MaxRuns > 1

Verdicts == {"allow", "deny", "hold", "error"}

Outcomes == {"completed", "failed", "cancelled"}

(* TRANSITIONS; "Proposed" and "Allowed" are left in the call that enters  *)
(* them.                                                                   *)
Transitions ==
  {<<"AwaitingApproval", "Approved">>, <<"AwaitingApproval", "Cancelled">>,
   <<"Approved", "Evaluating">>, <<"Approved", "Cancelled">>,
   <<"Evaluating", "Starting">>, <<"Evaluating", "Denied">>,
   <<"Evaluating", "Held">>, <<"Evaluating", "DecisionError">>,
   <<"Evaluating", "Cancelled">>,
   <<"Starting", "Running">>, <<"Starting", "DecisionError">>,
   <<"Starting", "Cancelled">>,
   <<"Running", "Completed">>, <<"Running", "Failed">>,
   <<"Running", "Cancelled">>, <<"Running", "Interrupted">>}

Cancellable == {"AwaitingApproval", "Approved", "Evaluating", "Starting"}

States ==
  Cancellable \cup {"Running", "Denied", "Held", "DecisionError", "Completed",
                    "Failed", "Cancelled", "Interrupted"}

(* Of a local fail-closed decision only that it is an error matters. *)
LocalDecision == [id |-> None, verdict |-> "error"]

Decision == [id : Decisions \cup {None}, verdict : Verdicts]

Snapshot ==
  [state : States, approval : Approvals \cup {None},
   decision : Decision \cup {None}, started : Receipts \cup {None},
   startedUnder : Approvals \cup {None},
   outcome : Outcomes \cup {"unknown_or_interrupted", None},
   aborted : BOOLEAN]

ASSUME NoneIsAbsent ==
  /\ None \notin Approvals \cup Decisions \cup Receipts \cup Outcomes
  /\ None \notin Decision
  /\ None \notin Snapshot
  /\ None # "unknown_or_interrupted"

Awaits ==
  {"beforeDecision", "deciding", "recordingDecision", "failingClosed",
   "dispatching", "handling", "settling", "interrupting"}

Call ==
  [pc : Awaits \cup {"idle", "returned", "threw"},
   approval : Approvals \cup {None}, receipt : Receipts \cup {None},
   candidate : Outcomes \cup {None}]

VARIABLES
  action,       \* records: the snapshot and abort signal of each action
  call,         \* the locals of its executeOnce
  accepting,    \* approve calls that await beforeApprovalAccepted
  expired,      \* approvals whose expiresAt has passed
  decisionIds,  \* decisionIds
  receipts,     \* executionReceipts
  outcomes,     \* keys of terminalOutcomes
  dispatched,   \* durable dispatch evidence: <<action, receipt>>
  settled,      \* durable settlement evidence: <<action, outcome>>
  runs          \* history: handler calls of each action

vars == <<action, call, accepting, expired, decisionIds, receipts, outcomes,
          dispatched, settled, runs>>

(* What a call that only moves one action leaves alone. *)
rest == <<accepting, expired, decisionIds, receipts, outcomes, dispatched,
          settled, runs>>

-----------------------------------------------------------------------------

Proposal ==
  [state |-> "AwaitingApproval", approval |-> None, decision |-> None,
   started |-> None, startedUnder |-> None, outcome |-> None,
   aborted |-> FALSE]

NoCall == [pc |-> "idle", approval |-> None, receipt |-> None,
           candidate |-> None]

(* propose *)
Propose(a) ==
  /\ action[a] = None
  /\ action' = [action EXCEPT ![a] = Proposal]
  /\ UNCHANGED <<call, rest>>

(* approve up to its hook *)
Approve(a, ap) ==
  /\ action[a] # None
  /\ action[a].state = "AwaitingApproval"
  /\ ap \notin expired
  /\ accepting' = accepting \cup {<<a, ap>>}
  /\ UNCHANGED <<action, call, expired, decisionIds, receipts, outcomes,
                 dispatched, settled, runs>>

(* Mutant: the state is assigned, not moved. *)
ApprovedAnyway(a, ap) ==
  /\ <<a, ap>> \in accepting
  /\ accepting' = accepting \ {<<a, ap>>}
  /\ action' = [action EXCEPT ![a].approval = ap, ![a].state = "Approved"]
  /\ UNCHANGED <<call, expired, decisionIds, receipts, outcomes, dispatched,
                 settled, runs>>

(* approve behind its hook: the approval is assigned before the transition *)
(* is checked.                                                             *)
ApprovalRecorded(a, ap) ==
  /\ <<a, ap>> \in accepting
  /\ accepting' = accepting \ {<<a, ap>>}
  /\ action' = [action EXCEPT
       ![a].approval = ap,
       ![a].state = IF <<@, "Approved">> \in Transitions THEN "Approved" ELSE @]
  /\ UNCHANGED <<call, expired, decisionIds, receipts, outcomes, dispatched,
                 settled, runs>>

ApprovalHookFails(a, ap) ==
  /\ <<a, ap>> \in accepting
  /\ accepting' = accepting \ {<<a, ap>>}
  /\ UNCHANGED <<action, call, expired, decisionIds, receipts, outcomes,
                 dispatched, settled, runs>>

(* cancel *)
Cancel(a) ==
  /\ action[a] # None
  /\ action' = [action EXCEPT
       ![a].aborted = TRUE,
       ![a].state = IF @ \in Cancellable THEN "Cancelled" ELSE @]
  /\ UNCHANGED <<call, rest>>

Expire(ap) ==
  /\ ap \notin expired
  /\ expired' = expired \cup {ap}
  /\ UNCHANGED <<action, call, accepting, decisionIds, receipts, outcomes,
                 dispatched, settled, runs>>

-----------------------------------------------------------------------------
(* execute and executeOnce.  Finish ends the call with a transition of the *)
(* snapshot, or with its rejection when transitionActionState throws.      *)

Finish(a, snapshot, target) ==
  IF <<snapshot.state, target>> \in Transitions
    THEN /\ action' = [action EXCEPT ![a] = [snapshot EXCEPT !.state = target]]
         /\ call' = [call EXCEPT ![a].pc = "returned"]
    ELSE /\ action' = [action EXCEPT ![a] = snapshot]
         /\ call' = [call EXCEPT ![a].pc = "threw"]

Throw(a) == call' = [call EXCEPT ![a].pc = "threw"]

Executable(a) ==
  /\ action[a].state = "Approved"
  /\ action[a].approval # None
  /\ action[a].approval \notin expired

(* Without executionPromise the check of the state is all that is left. *)
CanExecute(a) == action[a] # None /\ call[a].pc = "idle"

(* A refused execute: its rejected promise is what every later call gets. *)
ExecuteRefused(a) ==
  /\ CanExecute(a)
  /\ ~Executable(a)
  /\ Throw(a)
  /\ UNCHANGED <<action, rest>>

ExecuteUnknown(a) ==
  /\ CanExecute(a)
  /\ Executable(a)
  /\ a \notin Registered
  /\ action' = [action EXCEPT ![a].state = "Evaluating",
                              ![a].decision = LocalDecision]
  /\ call' = [call EXCEPT ![a].pc = "failingClosed",
                          ![a].approval = action[a].approval]
  /\ UNCHANGED rest

Execute(a) ==
  /\ CanExecute(a)
  /\ Executable(a)
  /\ a \in Registered
  /\ action' = [action EXCEPT ![a].state = "Evaluating"]
  /\ call' = [call EXCEPT ![a].pc = "beforeDecision",
                          ![a].approval = action[a].approval]
  /\ UNCHANGED rest

(* beforeDecisionRequest *)
RequestRecorded(a) ==
  /\ call[a].pc = "beforeDecision"
  /\ call' = [call EXCEPT ![a].pc = "deciding"]
  /\ UNCHANGED <<action, rest>>

RequestHookFails(a) ==
  /\ call[a].pc = "beforeDecision"
  /\ Throw(a)
  /\ UNCHANGED <<action, rest>>

(* Mutant: the ids of earlier decisions are not looked at. *)
DecideTrusting(a, d, v) ==
  /\ call[a].pc = "deciding"
  /\ decisionIds' = decisionIds \cup {d}
  /\ action' = [action EXCEPT ![a].decision = [id |-> d, verdict |-> v]]
  /\ call' = [call EXCEPT ![a].pc = "recordingDecision"]
  /\ UNCHANGED <<accepting, expired, receipts, outcomes, dispatched, settled,
                 runs>>

(* The provider answers with a valid decision under a new id. *)
Decide(a, d, v) ==
  /\ call[a].pc = "deciding"
  /\ d \notin decisionIds
  /\ decisionIds' = decisionIds \cup {d}
  /\ action' = [action EXCEPT ![a].decision = [id |-> d, verdict |-> v]]
  /\ call' = [call EXCEPT ![a].pc = "recordingDecision"]
  /\ UNCHANGED <<accepting, expired, receipts, outcomes, dispatched, settled,
                 runs>>

(* The provider fails, or its answer is malformed, foreign or repeated. *)
DecideFails(a) ==
  /\ call[a].pc = "deciding"
  /\ action' = [action EXCEPT ![a].decision = LocalDecision]
  /\ call' = [call EXCEPT ![a].pc = "failingClosed"]
  /\ UNCHANGED rest

(* failClosedDecision behind its hook, whose failure is swallowed. *)
FailClosed(a) ==
  /\ call[a].pc = "failingClosed"
  /\ Finish(a, action[a], "DecisionError")
  /\ UNCHANGED rest

DecisionHookFails(a) ==
  /\ call[a].pc = "recordingDecision"
  /\ Finish(a, [action[a] EXCEPT !.decision = LocalDecision], "DecisionError")
  /\ UNCHANGED rest

VerdictState(v) ==
  CASE v = "deny" -> "Denied" [] v = "hold" -> "Held" [] OTHER -> "DecisionError"

(* afterDecisionReceived returned and the action was cancelled meanwhile. *)
DecisionTooLate(a) ==
  /\ call[a].pc = "recordingDecision"
  /\ action[a].aborted
  /\ Finish(a, action[a], "Cancelled")
  /\ UNCHANGED rest

DecisionRefuses(a) ==
  /\ call[a].pc = "recordingDecision"
  /\ ~action[a].aborted
  /\ action[a].decision.verdict # "allow"
  /\ Finish(a, action[a], VerdictState(action[a].decision.verdict))
  /\ UNCHANGED rest

Allowed(a) ==
  /\ call[a].pc = "recordingDecision"
  /\ ~action[a].aborted
  /\ action[a].decision.verdict = "allow"

(* The approval expired while the decision was awaited: execute rejects    *)
(* and the action stays in Evaluating.                                     *)
AllowedTooLate(a) ==
  /\ Allowed(a)
  /\ call[a].approval \in expired
  /\ Throw(a)
  /\ UNCHANGED <<action, rest>>

Issued == {call[b].receipt : b \in Actions}

(* Allowed, Starting, and a receipt that is not bound to another action:   *)
(* beforeDispatch is awaited.                                              *)
Start(a, r) ==
  /\ Allowed(a)
  /\ call[a].approval \notin expired
  /\ FreshReceipts => r \notin Issued
  /\ r \notin receipts
  /\ action' = [action EXCEPT ![a].state = "Starting"]
  /\ call' = [call EXCEPT ![a].pc = "dispatching", ![a].receipt = r]
  /\ UNCHANGED rest

ReceiptTaken(a, r) ==
  /\ Allowed(a)
  /\ call[a].approval \notin expired
  /\ ~FreshReceipts
  /\ r \in receipts
  /\ action' = [action EXCEPT ![a].state = "Starting"]
  /\ Throw(a)
  /\ UNCHANGED rest

(* beforeDispatch rejects; its evidence may have been stored all the same. *)
DispatchHookFails(a) ==
  /\ call[a].pc = "dispatching"
  /\ Throw(a)
  /\ \/ UNCHANGED dispatched
     \/ dispatched' = dispatched \cup {<<a, call[a].receipt>>}
  /\ UNCHANGED <<action, accepting, expired, decisionIds, receipts, outcomes,
                 settled, runs>>

(* Mutant: the hook is called and not awaited. *)
DispatchUnrecorded(a) ==
  call[a].pc = "dispatching" /\ UNCHANGED dispatched

RecordDispatch(a) ==
  /\ call[a].pc = "dispatching"
  /\ dispatched' = dispatched \cup {<<a, call[a].receipt>>}

(* The approval expired, or the action was cancelled, behind the evidence. *)
DispatchTooLate(a) ==
  /\ RecordDispatch(a)
  /\ \/ call[a].approval \in expired /\ Throw(a) /\ UNCHANGED action
     \/ /\ call[a].approval \notin expired
        /\ action[a].aborted
        /\ Finish(a, action[a], "Cancelled")
  /\ UNCHANGED <<accepting, expired, decisionIds, receipts, outcomes, settled,
                 runs>>

RunSnapshot(a) ==
  [action[a] EXCEPT !.state = "Running", !.started = call[a].receipt,
                    !.startedUnder = call[a].approval]

(* Mutant: the abort signal is not looked at again behind the evidence. *)
DispatchRegardless(a) ==
  /\ RecordDispatch(a)
  /\ call[a].approval \notin expired
  /\ action' = [action EXCEPT ![a] = RunSnapshot(a)]
  /\ receipts' = receipts \cup {call[a].receipt}
  /\ runs' = [runs EXCEPT ![a] = IF @ < MaxRuns THEN @ + 1 ELSE @]
  /\ call' = [call EXCEPT ![a].pc = "handling"]
  /\ UNCHANGED <<accepting, expired, decisionIds, outcomes, settled>>

(* The evidence is durable, the authority still stands: the handler runs. *)
Dispatch(a) ==
  /\ RecordDispatch(a)
  /\ call[a].approval \notin expired
  /\ ~action[a].aborted
  /\ action' = [action EXCEPT ![a] = RunSnapshot(a)]
  /\ receipts' = receipts \cup {call[a].receipt}
  /\ runs' = [runs EXCEPT ![a] = IF @ < MaxRuns THEN @ + 1 ELSE @]
  /\ call' = [call EXCEPT ![a].pc = "handling"]
  /\ UNCHANGED <<accepting, expired, decisionIds, outcomes, settled>>

(* The handler returns, throws, or throws an AbortError; behind a cancel   *)
(* every failure counts as cancelled.                                      *)
HandlerEnds(a, o) ==
  /\ call[a].pc = "handling"
  /\ o = "failed" => ~action[a].aborted
  /\ call' = [call EXCEPT ![a].pc = "settling", ![a].candidate = o]
  /\ UNCHANGED <<action, rest>>

OutcomeState(o) ==
  CASE o = "completed" -> "Completed"
    [] o = "failed" -> "Failed"
    [] o = "cancelled" -> "Cancelled"
    [] OTHER -> "Interrupted"

(* afterSettlement stored the candidate, which becomes the outcome unless  *)
(* recordTerminalOutcome finds one for the receipt.                        *)
SettlementRecorded(a) ==
  /\ call[a].pc = "settling"
  /\ settled' = settled \cup {<<a, call[a].candidate>>}
  /\ IF call[a].receipt \in outcomes
       THEN Throw(a) /\ UNCHANGED <<action, outcomes>>
       ELSE /\ outcomes' = outcomes \cup {call[a].receipt}
            /\ Finish(a, [action[a] EXCEPT !.outcome = call[a].candidate],
                      OutcomeState(call[a].candidate))
  /\ UNCHANGED <<accepting, expired, decisionIds, receipts, dispatched, runs>>

(* The candidate is no valid outcome, or afterSettlement rejects:          *)
(* interruptAfterSettlementFailure up to its hook.                         *)
Interrupt(a) ==
  /\ call[a].pc \in {"handling", "settling"}
  /\ IF call[a].receipt \in outcomes
       THEN Throw(a) /\ UNCHANGED <<action, outcomes>>
       ELSE /\ outcomes' = outcomes \cup {call[a].receipt}
            /\ action' = [action EXCEPT
                            ![a].outcome = "unknown_or_interrupted",
                            ![a].state = "Interrupted"]
            /\ call' = [call EXCEPT ![a].pc = "interrupting"]
  /\ UNCHANGED <<accepting, expired, decisionIds, receipts, dispatched,
                 settled, runs>>

(* afterSettlementPersistenceFailure returned or failed. *)
InterruptReturns(a) ==
  /\ call[a].pc = "interrupting"
  /\ call' = [call EXCEPT ![a].pc = "returned"]
  /\ UNCHANGED <<action, rest>>

-----------------------------------------------------------------------------

Init ==
  /\ action = [a \in Actions |-> None]
  /\ call = [a \in Actions |-> NoCall]
  /\ accepting = {}
  /\ expired = {}
  /\ decisionIds = {}
  /\ receipts = {}
  /\ outcomes = {}
  /\ dispatched = {}
  /\ settled = {}
  /\ runs = [a \in Actions |-> 0]

Approving(a) ==
  \E ap \in Approvals :
    Approve(a, ap) \/ ApprovalRecorded(a, ap) \/ ApprovalHookFails(a, ap)

Evaluating(a) ==
  \/ ExecuteRefused(a) \/ ExecuteUnknown(a) \/ Execute(a)
  \/ RequestRecorded(a) \/ RequestHookFails(a)
  \/ \E d \in Decisions, v \in Verdicts : Decide(a, d, v)
  \/ DecideFails(a) \/ FailClosed(a) \/ DecisionHookFails(a)
  \/ DecisionTooLate(a) \/ DecisionRefuses(a) \/ AllowedTooLate(a)

Dispatching(a) ==
  \/ \E r \in Receipts : Start(a, r) \/ ReceiptTaken(a, r)
  \/ DispatchHookFails(a) \/ DispatchTooLate(a) \/ Dispatch(a)

Settling(a) ==
  \/ \E o \in Outcomes : HandlerEnds(a, o)
  \/ SettlementRecorded(a) \/ Interrupt(a) \/ InterruptReturns(a)

Next ==
  \/ \E a \in Actions :
       \/ Propose(a) \/ Cancel(a) \/ Approving(a) \/ Evaluating(a)
       \/ Dispatching(a) \/ Settling(a)
  \/ \E ap \in Approvals : Expire(ap)

Spec == Init /\ [][Next]_vars

(* The settlement hooks are awaited appends to the session ledger: each of *)
(* them resolves or rejects.  Nothing is assumed of callers, providers or  *)
(* handlers.                                                               *)
SettlementHookReturns(a) ==
  \/ SettlementRecorded(a)
  \/ call[a].pc = "settling" /\ Interrupt(a)

FairSpec ==
  Spec /\ \A a \in Actions : WF_vars(SettlementHookReturns(a))

-----------------------------------------------------------------------------
(* Properties.                                                             *)

TypeOK ==
  /\ action \in [Actions -> Snapshot \cup {None}]
  /\ call \in [Actions -> Call]
  /\ accepting \subseteq Actions \X Approvals
  /\ expired \subseteq Approvals
  /\ decisionIds \subseteq Decisions
  /\ receipts \subseteq Receipts
  /\ outcomes \subseteq Receipts
  /\ dispatched \subseteq Actions \X Receipts
  /\ settled \subseteq Actions \X Outcomes
  /\ runs \in [Actions -> 0..MaxRuns]

(* A handler runs at most once, and only behind a recorded allow and the   *)
(* durable dispatch evidence of its own receipt (runtime.ts, the dispatch  *)
(* barrier).                                                               *)
RunsBehindEvidence ==
  \A a \in Actions : runs[a] > 0 =>
    /\ runs[a] = 1
    /\ action[a].started # None
    /\ <<a, action[a].started>> \in dispatched
    /\ action[a].decision # None
    /\ action[a].decision.verdict = "allow"
    /\ action[a].decision.id \in decisionIds

(* A cancel that returns before the handler was started prevents it, at    *)
(* whichever await of executeOnce it arrived (runtime.ts, cancel).         *)
CancelPrevents ==
  [][\A a \in Actions :
       action[a] # None /\ action[a].aborted /\ action[a].started = None
         => action'[a].started = None /\ runs'[a] = runs[a]]_vars

(* An outcome is published only behind durable evidence of exactly that    *)
(* outcome; without it the action is Interrupted (universal-action-        *)
(* runtime.md, "durably recorded before it becomes the runtime terminal    *)
(* result").                                                               *)
OutcomeIsDurable ==
  \A a \in Actions :
    action[a] # None /\ action[a].outcome # None =>
      IF action[a].outcome = "unknown_or_interrupted"
        THEN action[a].state = "Interrupted"
        ELSE /\ <<a, action[a].outcome>> \in settled
             /\ action[a].state = OutcomeState(action[a].outcome)

(* What ran, and what is said of how it ended, is on durable record.       *)
EffectsAreOnRecord == RunsBehindEvidence /\ OutcomeIsDurable

(* One policy decision is authority for one action. *)
DecisionsNotShared ==
  \A a, b \in Actions :
    /\ a # b
    /\ action[a] # None /\ action[a].decision # None
    /\ action[b] # None /\ action[b].decision # None
    /\ action[a].decision.id # None
    => action[a].decision.id # action[b].decision.id

(* With receipts that never repeat, an action whose handler has ended gets *)
(* its outcome, known or interrupted: it never stays Running behind an     *)
(* execute that threw (runtime.ts, interruptAfterSettlementFailure).       *)
Quiet == \A a \in Actions : call[a].pc # "settling"

(* The action runtime keeps the promise of SideEffect. *)
PhaseOf(s) ==
  IF s = None THEN "none"
  ELSE CASE s.state \in {"AwaitingApproval", "Approved", "Evaluating"} ->
              "requested"
         [] s.state = "Starting" -> "authorised"
         [] s.state = "Running" -> "running"
         [] s.state = "Interrupted" -> "uncertain"
         [] s.state \in {"Completed", "Failed", "Cancelled"}
              /\ s.started # None -> "settled"
         [] OTHER -> "closed"

EffectOf(a) == PhaseOf(action[a])

Promise == INSTANCE SideEffect
             WITH Effects <- Actions, effect <- [a \in Actions |-> EffectOf(a)]

KeepsPromise == Promise!Spec

-----------------------------------------------------------------------------
(* Statements of the repository that the code does not keep.               *)

(* universal-action-runtime.md: "execution receipt IDs cannot be reused".  *)
ReceiptsNotReused ==
  \A a, b \in Actions :
    /\ a # b
    /\ action[a] # None /\ action[a].started # None
    /\ action[b] # None
    => action[a].started # action[b].started

(* validation.ts: "Started receipt targets a different approval" is an     *)
(* error: the approval of a snapshot is the one its receipt was issued     *)
(* under.                                                                  *)
ReceiptNamesApproval ==
  \A a \in Actions :
    action[a] # None /\ action[a].started # None
      => action[a].startedUnder = action[a].approval

=============================================================================
