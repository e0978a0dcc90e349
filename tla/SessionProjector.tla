-------------------------- MODULE SessionProjector --------------------------
(***************************************************************************)
(* The deterministic replay of one session's active path                   *)
(* (packages/session-runtime/src/projector.ts), and what its recovery      *)
(* appends (recovery.ts).  `project` is a fold over                        *)
(* the entries of the path that throws on an entry the lifecycle of the    *)
(* pending action does not admit, so one entry is modelled by two          *)
(* operators: Accepts (the entry does not throw) and After (the projected  *)
(* state behind it).                                                       *)
(*                                                                         *)
(* The three families of entry types (ACTION_x, PATCH_x, COMMAND_x) are    *)
(* one type x and a kind; the counters, payloads, digests and timestamps   *)
(* are abstracted, and `bound` says whether the task, proposal digest and  *)
(* evidence payload of a decision agree with the proposal it names.        *)
(***************************************************************************)
EXTENDS Naturals

CONSTANTS Actions,     \* action identifiers: tool-call ids and proposal ids
          Approvals,   \* approval identifiers
          Decisions,   \* decision identifiers
          Receipts,    \* execution receipt identifiers
          None         \* an absent identifier, pending action or status

Kinds == {"patch", "command", "action"}

Verdicts == {"allow", "deny", "hold", "error"}

EndStatuses == {"Completed", "Failed", "Cancelled", "LimitReached"}

SessionStatuses ==
  {"Active", "RecoveryRequired", "Interrupted"} \cup EndStatuses

Reapprovals == {"patch_reapproval", "command_reapproval"}

Reasons == {"interrupted"} \cup Reapprovals

(* NOTE stands for the entries that never touch the pending action:        *)
(* messages, tool requests and results, artifacts, AGENT_STATE_CHANGED.    *)
(* ENDED stands for SESSION_COMPLETED, DELIVERY_COMPLETED, SESSION_FAILED, *)
(* SESSION_CANCELLED and SESSION_LIMIT_REACHED, told apart by `status`.    *)
EntryTypes ==
  {"SESSION_CREATED", "NOTE", "PROPOSED", "APPROVED", "DECIDED", "DENIED",
   "STARTED", "COMPLETED", "ACTION_FAILED", "RECOVERY_REQUIRED",
   "RECOVERY_COMPLETED", "SESSION_INTERRUPTED", "ENDED"}

(* The task statuses an entry's safeMetadata.runtimeStatus can carry.      *)
(* "Streaming" stands for the eight statuses of INTERRUPTED_RUNTIME_STATES.*)
RuntimeStatuses ==
  {"Idle", "Streaming", "WaitingForPatchApproval",
   "WaitingForCommandApproval", "Done", "Failed", "Cancelled",
   "LimitReached", "queued"}

EntryRecord ==
  [type : EntryTypes, kind : Kinds \cup {None}, action : Actions \cup {None},
   approval : Approvals \cup {None}, generation : Nat,
   decision : Decisions \cup {None}, verdict : Verdicts \cup {None},
   bound : BOOLEAN, receipt : Receipts \cup {None},
   reason : Reasons \cup {None}, ended : EndStatuses \cup {None},
   runtimeStatus : RuntimeStatuses \cup {None}]

(* The type of an entry fixes which of its fields are present. *)
Entry ==
  {e \in EntryRecord :
     /\ e.type = "PROPOSED" => e.kind # None
     /\ e.type = "RECOVERY_REQUIRED" => e.reason # None
     /\ e.type = "ENDED" => e.ended # None}

BlankEntry ==
  [type |-> "NOTE", kind |-> None, action |-> None, approval |-> None,
   generation |-> 0, decision |-> None, verdict |-> None, bound |-> TRUE,
   receipt |-> None, reason |-> None, ended |-> None, runtimeStatus |-> None]

Pending ==
  [kind : Kinds, action : Actions, approved : BOOLEAN, started : BOOLEAN,
   approval : Approvals \cup {None}, generation : Nat,
   verdict : Verdicts \cup {None}, decision : Decisions \cup {None},
   receipt : Receipts \cup {None}, recoveryRequired : BOOLEAN]

(* An absent value is none of the present ones. *)
ASSUME NoneIsAbsent ==
  /\ None \notin Actions \cup Approvals \cup Decisions \cup Receipts
  /\ None \notin Kinds \cup Verdicts \cup Reasons \cup EndStatuses
                 \cup RuntimeStatuses
  /\ None \notin Entry
  /\ None \notin Pending

Projection ==
  [status : SessionStatuses, pending : Pending \cup {None},
   requirement : Reasons \cup {None},
   approvalIds : SUBSET Approvals, decisionIds : SUBSET Decisions]

FirstProjection ==
  [status |-> "Active", pending |-> None, requirement |-> None,
   approvalIds |-> {}, decisionIds |-> {}]

(* proposed(): the pending action a proposal entry opens. *)
Proposed(e) ==
  [kind |-> e.kind, action |-> e.action, approved |-> FALSE,
   started |-> FALSE, approval |-> None, generation |-> 0, verdict |-> None,
   decision |-> None, receipt |-> None, recoveryRequired |-> FALSE]

-----------------------------------------------------------------------------
(* The throwing half of the replay.                                        *)

(* requirePending and requireKind: the entry names the pending action. *)
Targets(p, e) == p.pending # None /\ p.pending.action = e.action

SameKind(p, e) == p.pending.kind = e.kind

(* requireApprovalBinding: the entry repeats the current authority. *)
BoundToApproval(p, e) ==
  /\ e.approval # None
  /\ e.approval = p.pending.approval
  /\ e.generation = p.pending.generation

(* Mutant: the receipt alone settles. *)
SettlesByReceipt(p, e) ==
  /\ p.pending.started
  /\ e.receipt # None
  /\ e.receipt = p.pending.receipt

(* requireStarted: a settlement repeats the authority and the receipt of   *)
(* the started evidence.                                                   *)
SettlesStart(p, e) ==
  /\ p.pending.approved
  /\ p.pending.started
  /\ BoundToApproval(p, e)
  /\ e.receipt # None
  /\ e.receipt = p.pending.receipt

(* Mutant: the check missing, as in the ledgers called legacy below. *)
AnyEnd(p) == TRUE

(* requireNoUnsettledStartedAction. *)
NoUnsettledStart(p) == p.pending # None => ~p.pending.started

AcceptsApproval(p, e) ==
  /\ Targets(p, e)
  /\ SameKind(p, e)
  /\ ~p.pending.started
  /\ ~p.pending.approved
  /\ e.approval # None
  /\ e.approval \notin p.approvalIds
  /\ e.generation = p.pending.generation

AcceptsDecision(p, e) ==
  /\ Targets(p, e)
  /\ p.pending.kind \in {"action", "command"}
  /\ p.pending.approved
  /\ ~p.pending.started
  /\ p.pending.decision = None
  /\ BoundToApproval(p, e)
  /\ e.bound
  /\ e.decision # None
  /\ e.decision \notin p.decisionIds
  /\ e.verdict # None
  /\ p.pending.kind = "command" => e.verdict # "hold"

AcceptsStart(p, e) ==
  /\ Targets(p, e)
  /\ SameKind(p, e)
  /\ p.pending.approved
  /\ ~p.pending.started
  /\ BoundToApproval(p, e)
  /\ p.pending.kind # "patch" =>
       /\ p.pending.verdict = "allow"
       /\ e.decision # None
       /\ e.decision = p.pending.decision
  /\ e.receipt # None

(* requireRecoveryKind and the generation checks of RECOVERY_REQUIRED. *)
AcceptsReapproval(p, e) ==
  /\ e.reason = "patch_reapproval" => p.pending.kind = "patch"
  /\ e.reason = "command_reapproval" => p.pending.kind = "command"
  /\ ~p.pending.started
  /\ e.generation = p.pending.generation + 1

(* The replay of entry e behind projection p does not throw. *)
Accepts(p, e) ==
  /\ p.status \notin EndStatuses
  /\ \/ e.type \in {"NOTE", "SESSION_INTERRUPTED"}
     \/ e.type = "PROPOSED" /\ e.action # None /\ p.pending = None
     \/ e.type = "APPROVED" /\ AcceptsApproval(p, e)
     \/ e.type = "DECIDED" /\ AcceptsDecision(p, e)
     \/ /\ e.type = "DENIED"
        /\ Targets(p, e) /\ SameKind(p, e) /\ ~p.pending.started
     \/ e.type = "STARTED" /\ AcceptsStart(p, e)
     \/ /\ e.type = "COMPLETED"
        /\ Targets(p, e) /\ SameKind(p, e) /\ SettlesStart(p, e)
     \/ e.type = "ACTION_FAILED" /\ Targets(p, e) /\ SettlesStart(p, e)
     \/ /\ e.type = "RECOVERY_REQUIRED"
        /\ (p.pending # None /\ e.reason # "interrupted")
              => AcceptsReapproval(p, e)
     \/ e.type = "RECOVERY_COMPLETED" /\ p.pending = None
     \/ e.type = "ENDED" /\ NoUnsettledStart(p)

-----------------------------------------------------------------------------
(* The projecting half of the replay.                                      *)

(* Mutant: an interruption that keeps the approval in force. *)
InterruptedOnly(pending) ==
  [pending EXCEPT !.recoveryRequired = ~pending.started]

(* Mutant: an interruption that forgets the started evidence. *)
Forgotten(pending) ==
  [pending EXCEPT !.recoveryRequired = TRUE, !.started = FALSE,
                  !.approved = FALSE, !.approval = None]

(* An interruption withdraws the approval and nothing else: it keeps the   *)
(* generation and the recorded decision.                                   *)
Withdrawn(pending) ==
  [pending EXCEPT !.recoveryRequired = ~pending.started,
                  !.approved = FALSE, !.approval = None]

(* Mutant: a reapproval under the generation of the lost approval. *)
ReopenedInPlace(pending) ==
  [Withdrawn(pending) EXCEPT !.verdict = None, !.decision = None]

(* A reapproval requirement also opens a new generation and forgets the    *)
(* recorded decision.                                                      *)
Reopened(pending) ==
  [Withdrawn(pending) EXCEPT !.generation = pending.generation + 1,
                             !.verdict = None, !.decision = None]

AfterApproval(p, e) ==
  [p EXCEPT !.status = "Active", !.requirement = None,
            !.approvalIds = @ \cup {e.approval},
            !.pending = [@ EXCEPT !.approved = TRUE, !.approval = e.approval,
                                  !.recoveryRequired = FALSE]]

AfterDecision(p, e) ==
  IF e.verdict = "allow"
    THEN [p EXCEPT !.decisionIds = @ \cup {e.decision},
                   !.pending = [@ EXCEPT !.verdict = e.verdict,
                                         !.decision = e.decision]]
    ELSE [p EXCEPT !.decisionIds = @ \cup {e.decision},
                   !.pending = None, !.requirement = None]

AfterRecoveryRequired(p, e) ==
  [p EXCEPT
     !.status = IF e.reason = "interrupted" THEN "Interrupted"
                                            ELSE "RecoveryRequired",
     !.requirement = e.reason,
     !.pending = IF p.pending = None THEN None
                 ELSE IF e.reason = "interrupted" THEN Withdrawn(p.pending)
                 ELSE Reopened(p.pending)]

(* The projected state behind an accepted entry. *)
After(p, e) ==
  CASE e.type = "PROPOSED" -> [p EXCEPT !.pending = Proposed(e)]
    [] e.type = "APPROVED" -> AfterApproval(p, e)
    [] e.type = "DECIDED" -> AfterDecision(p, e)
    [] e.type \in {"DENIED", "COMPLETED"} ->
         [p EXCEPT !.pending = None, !.requirement = None]
    [] e.type = "STARTED" ->
         [p EXCEPT !.pending = [@ EXCEPT !.started = TRUE,
                                         !.receipt = e.receipt]]
    [] e.type = "ACTION_FAILED" -> [p EXCEPT !.pending = None]
    [] e.type = "RECOVERY_REQUIRED" -> AfterRecoveryRequired(p, e)
    [] e.type = "RECOVERY_COMPLETED" ->
         [p EXCEPT !.status = "Active", !.requirement = None]
    [] e.type = "SESSION_INTERRUPTED" ->
         [p EXCEPT !.status = "Interrupted", !.requirement = "interrupted",
                   !.pending = IF @ = None THEN None ELSE Withdrawn(@)]
    [] e.type = "ENDED" ->
         [p EXCEPT !.status = e.ended, !.pending = None, !.requirement = None]
    [] OTHER -> p

-----------------------------------------------------------------------------
(* recovery.ts: what a restart appends to a session without unmatched      *)
(* started evidence, as a function of its projection and of the task       *)
(* status its last entry carries.                                          *)

InterruptEntry == [BlankEntry EXCEPT !.type = "SESSION_INTERRUPTED"]

ReapprovalEntry(p, why) ==
  [BlankEntry EXCEPT
     !.type = "RECOVERY_REQUIRED", !.reason = why,
     !.generation = IF p.pending = None THEN 1 ELSE p.pending.generation + 1]

EndedBy(runtimeStatus) ==
  [BlankEntry EXCEPT
     !.type = "ENDED",
     !.ended = IF runtimeStatus = "Done" THEN "Completed" ELSE runtimeStatus]

PendingOf(p, kind) == p.pending # None /\ p.pending.kind = kind

(* Mutant: recovery that does not look at what it recovered before.        *)
RecoveryEntryAgain(p, runtimeStatus) ==
  IF p.status \in EndStatuses THEN None
  ELSE IF runtimeStatus \in {"Done", "Failed", "Cancelled", "LimitReached"}
    THEN EndedBy(runtimeStatus)
    ELSE InterruptEntry

(* recover() for a path without unmatched starts: the entry it appends, or *)
(* None.                                                                   *)
RecoveryEntry(p, runtimeStatus) ==
  IF p.status # "Active" THEN None
  ELSE CASE
       runtimeStatus \in {"Done", "Failed", "Cancelled", "LimitReached"} ->
         EndedBy(runtimeStatus)
    [] runtimeStatus = "Streaming" -> InterruptEntry
    [] \/ runtimeStatus = "WaitingForPatchApproval"
       \/ runtimeStatus = None /\ PendingOf(p, "patch") ->
         ReapprovalEntry(p, "patch_reapproval")
    [] \/ runtimeStatus = "WaitingForCommandApproval"
       \/ runtimeStatus = None /\ PendingOf(p, "command") ->
         ReapprovalEntry(p, "command_reapproval")
    [] \/ runtimeStatus = "Idle"
       \/ runtimeStatus = None /\ ~PendingOf(p, "patch")
                               /\ ~PendingOf(p, "command") -> InterruptEntry
    [] OTHER -> None

=============================================================================
