----------------------------- MODULE AgentLoop -----------------------------
(***************************************************************************)
(* One task of Agent Mode (packages/agent-runtime/src/agent-loop).         *)
(*                                                                         *)
(* The model loop (continueLoop with processQueuedCalls) runs until it     *)
(* waits for an approval; an approval (approvePatch, approveCommand) runs  *)
(* until its side effect is settled and then resumes the loop; cancel and  *)
(* rollback arrive at any await of either.  `loop` and `op.pc` name those  *)
(* awaits.  Tasks share nothing, so one is enough.  The lifecycle hooks    *)
(* are present, as in the product; messages, tool arguments and results    *)
(* are left out.  What an await resumes runs to its next await in one      *)
(* step: the turns of the microtask queue in between belong to no caller.  *)
(***************************************************************************)
EXTENDS Integers, Sequences

CONSTANTS Requests,       \* the lists of tool calls a model turn may ask for
          MaxTurns,       \* maxModelTurns
          MaxTotal,       \* maxTotalToolCalls
          MaxCalls,       \* maxSearchCalls, maxReadCalls, maxCommandCalls
          MaxPatches,     \* maxPatchProposals
          None

Kinds == {"search", "read", "list", "command"}

ASSUME LimitsAreNat ==
  /\ MaxTurns \in Nat /\ MaxTotal \in Nat /\ MaxPatches \in Nat
  /\ MaxCalls \in [Kinds \ {"list"} -> Nat]
ASSUME RequestsAreCalls == Requests \subseteq Seq(Kinds) \ {<<>>}

Patches == {"patch"} \X (1..MaxPatches)
Commands == {"command"} \X (1..MaxCalls["command"])
Actions == Patches \cup Commands

ASSUME NoneIsAbsent == None \notin Actions

TerminalStatuses == {"Done", "Failed", "Cancelled", "LimitReached"}
Waiting == {"WaitingForPatchApproval", "WaitingForCommandApproval"}
Working ==
  {"Streaming", "ExecutingReadTool", "ReturningToolResult", "ApplyingPatch",
   "RunningCommand", "Cancelling"}

(* "Idle", "Planning" and "CallingModel" are left in the step that enters  *)
(* them; a task that was not started is None.                              *)
Statuses == TerminalStatuses \cup Waiting \cup Working \cup {None}

ASSUME NoneIsNoStatus == None \notin TerminalStatuses \cup Waiting \cup Working

PatchAwaits == {"startingPatch", "applying", "settlingPatch", "failingPatch"}
CommandAwaits ==
  {"deciding", "startingCommand", "running", "settlingCommand",
   "failingCommand"}

VARIABLES
  status,          \* task.status
  pendingPatch,    \* task.pendingPatch
  pendingCommand,  \* task.pendingCommand
  queue,           \* queuedCalls
  loop,            \* what the model loop awaits
  inLoop,          \* runningTasks: that is inside continueLoop
  op,              \* what approvePatch or approveCommand awaits, for what,
                   \* and whether the runner was told to cancel it
  cancelling,      \* cancellationRequests: a cancel awaits the operation
  rolling,         \* activeRollbacks, and whether it is rollbackAll
  late,            \* maxTaskDurationMs has passed
  turns,           \* task.modelTurns
  total,           \* task.totalToolCalls
  calls,           \* task.searchCalls, readCalls, commandCalls
  proposals,       \* task.patchProposals
  asked,           \* history: how many commands the user was asked about
  history,         \* task.patchHistory
  disk,            \* the patches that are in the project's files
  started,         \* durable PATCH_STARTED, COMMAND_STARTED
  settled,         \* durable settlements of them
  approved,        \* history: actions an approve call claimed
  allowed,         \* history: commands the policy allowed
  runs             \* history: actions handed to the adapter or the runner,
                   \* with the number of times (at most MaxRuns)

taskVars == <<status, pendingPatch, pendingCommand, queue>>
loopVars == <<loop, inLoop, turns, total, calls, proposals, asked>>
evidence == <<started, settled, approved, allowed, runs>>
vars == <<taskVars, loopVars, op, cancelling, rolling, late, history,
          disk, evidence>>

MaxRuns == 2   \* bound: a second run would be seen

Terminal == status \in TerminalStatuses

NoOp == [pc |-> "idle", action |-> None, verified |-> FALSE, told |-> FALSE]

(* guardTaskAction up to the time limit; it asks for the status of the     *)
(* caller's await, which only terminateTask and cancel change meanwhile.   *)
Live == ~Terminal /\ ~cancelling /\ rolling = "no"

-----------------------------------------------------------------------------
(* Pieces of steps.  Each says what becomes of the task and its loop.      *)

NothingPending ==
  pendingPatch' = None /\ pendingCommand' = None /\ queue' = <<>>

(* terminateTask with disposePendingState, and the loop returns. *)
Stop(s) ==
  /\ status' = s
  /\ NothingPending
  /\ loop' = "idle"
  /\ inLoop' = FALSE
  /\ UNCHANGED <<turns, total, calls, proposals, asked>>

(* The head of continueLoop up to the provider's stream. *)
NextTurn ==
  IF late \/ turns >= MaxTurns
    THEN Stop("LimitReached")
    ELSE /\ status' = "Streaming"
         /\ NothingPending
         /\ loop' = "streaming"
         /\ inLoop' = TRUE
         /\ turns' = turns + 1
         /\ UNCHANGED <<total, calls, proposals, asked>>

(* consumeToolBudget *)
OverBudget(k) ==
  total >= MaxTotal \/ (k # "list" /\ calls[k] >= MaxCalls[k])

(* processQueuedCalls with q queued, in status s, up to its next await. *)
NextCall(q, s) ==
  IF q = <<>> THEN NextTurn
  ELSE IF late \/ OverBudget(Head(q)) THEN Stop("LimitReached")
  ELSE /\ total' = total + 1
       /\ calls' = IF Head(q) = "list" THEN calls
                                       ELSE [calls EXCEPT ![Head(q)] = @ + 1]
       /\ queue' = Tail(q)
       /\ pendingPatch' = None
       /\ pendingCommand' = None
       /\ IF Head(q) = "command"
            THEN status' = s /\ loop' = "resolving"
            ELSE status' = "ExecutingReadTool" /\ loop' = "reading"
       /\ UNCHANGED <<inLoop, turns, proposals, asked>>

(* endOperation *)
OpEnds == op' = NoOp

OpMoves(pc) == op' = [op EXCEPT !.pc = pc]

-----------------------------------------------------------------------------
(* start and the model loop.                                               *)

Start ==
  /\ status = None
  /\ NextTurn \/ Stop("Failed")     \* the provider may be unsupported
  /\ UNCHANGED <<op, cancelling, rolling, late, history, disk, evidence>>

(* The loop resumes behind an await and finds the task terminal. *)
LoopReturns ==
  /\ loop # "idle"
  /\ ~Live
  /\ loop' = "idle"
  /\ inLoop' = FALSE
  /\ UNCHANGED <<taskVars, turns, total, calls, proposals, asked, op,
                 cancelling, rolling, late, history, disk, evidence>>

LoopContinues(pc) ==
  /\ loop = pc
  /\ Live
  /\ UNCHANGED <<op, cancelling, rolling, late, history, disk, evidence>>

LoopExpires ==
  /\ \E pc \in {"streaming", "preparing", "reading", "resolving"} :
       LoopContinues(pc)
  /\ late
  /\ Stop("LimitReached")

(* The stream, or prepare, ends in an error; a rejection is not held       *)
(* against the time limit.                                                 *)
LoopFails ==
  /\ LoopContinues("streaming") \/ LoopContinues("preparing")
  /\ Stop("Failed")

StreamRequestsTools(q) ==
  /\ LoopContinues("streaming")
  /\ ~late
  /\ NextCall(q, "Streaming")

StreamAnswers ==
  /\ LoopContinues("streaming")
  /\ ~late
  /\ loop' = "preparing"
  /\ UNCHANGED <<taskVars, inLoop, turns, total, calls, proposals, asked>>

AnswerIsFinal ==
  /\ LoopContinues("preparing")
  /\ ~late
  /\ Stop("Done")

AnswerProposesPatch ==
  /\ LoopContinues("preparing")
  /\ ~late
  /\ IF proposals >= MaxPatches
       THEN Stop("LimitReached")
       ELSE /\ proposals' = proposals + 1
            /\ pendingPatch' = <<"patch", proposals + 1>>
            /\ status' = "WaitingForPatchApproval"
            /\ loop' = "idle"
            /\ inLoop' = FALSE
            /\ UNCHANGED <<pendingCommand, queue, turns, total, calls, asked>>

(* A read tool has answered, or run_project_command was refused. *)
ToolReturns ==
  /\ LoopContinues("reading") \/ LoopContinues("resolving")
  /\ ~late
  /\ NextCall(queue, "ReturningToolResult")

CommandResolved ==
  /\ LoopContinues("resolving")
  /\ ~late
  /\ asked' = asked + 1
  /\ pendingCommand' = <<"command", asked + 1>>
  /\ status' = "WaitingForCommandApproval"
  /\ loop' = "idle"
  /\ inLoop' = FALSE
  /\ UNCHANGED <<pendingPatch, queue, turns, total, calls, proposals>>

-----------------------------------------------------------------------------
(* Approvals.                                                              *)

(* claimApproval *)
Claims(s) == op.pc = "idle" /\ Live /\ status = s

(* Any of the four answers behind the time limit. *)
AnswerExpires ==
  /\ \E s \in Waiting : Claims(s)
  /\ late
  /\ Stop("LimitReached")
  /\ UNCHANGED <<op, cancelling, rolling, late, history, disk, evidence>>

(* An approve call up to its first hook. *)
Approve(s, a, pc) ==
  /\ Claims(s)
  /\ ~late
  /\ a # None
  /\ op' = [NoOp EXCEPT !.pc = pc, !.action = a]
  /\ approved' = approved \cup {a}
  /\ UNCHANGED <<taskVars, loopVars, cancelling, rolling, late, history, disk,
                 started, settled, allowed, runs>>

ApprovePatch ==
  Approve("WaitingForPatchApproval", pendingPatch, "startingPatch")

ApproveCommand ==
  Approve("WaitingForCommandApproval", pendingCommand, "deciding")

RejectPatch ==
  /\ Claims("WaitingForPatchApproval")
  /\ ~late
  /\ pendingPatch # None
  /\ NextTurn
  /\ UNCHANGED <<op, cancelling, rolling, late, history, disk, evidence>>

DenyCommand ==
  /\ Claims("WaitingForCommandApproval")
  /\ ~late
  /\ pendingCommand # None
  /\ NextCall(queue, "ReturningToolResult")
  /\ UNCHANGED <<op, cancelling, rolling, late, history, disk, evidence>>

(* Mutant: a cancelled operation is not ended. *)
OpFailsHeld ==
  IF cancelling THEN UNCHANGED <<op, taskVars, loopVars>>
                ELSE OpEnds /\ Stop("Failed")

(* The operation is over.  A cancel that waits for it terminates the task, *)
(* otherwise it fails.                                                     *)
OpFails ==
  /\ OpEnds
  /\ IF cancelling THEN UNCHANGED <<taskVars, loopVars>> ELSE Stop("Failed")

(* The guard behind an await refuses to go on. *)
OpStops ==
  /\ cancelling \/ late
  /\ OpEnds
  /\ IF cancelling THEN UNCHANGED <<taskVars, loopVars>>
                   ELSE Stop("LimitReached")

(* Its side effect is handed over. *)
Dispatches ==
  /\ runs' = [runs EXCEPT ![op.action] = IF @ < MaxRuns THEN @ + 1 ELSE @]
  /\ pendingPatch' = None
  /\ pendingCommand' = None

StartRecorded == started' = started \cup {op.action}

(* Mutant: the task is not looked at again behind the hook. *)
PatchStartedUnguarded ==
  /\ op.pc = "startingPatch"
  /\ StartRecorded
  /\ Dispatches
  /\ status' = "ApplyingPatch"
  /\ OpMoves("applying")
  /\ UNCHANGED <<queue, loopVars, cancelling, rolling, late, history, disk,
                 settled, approved, allowed>>

(* beforePatchApply returned. *)
PatchStarted ==
  /\ op.pc = "startingPatch"
  /\ StartRecorded
  /\ \/ /\ OpStops
        /\ UNCHANGED runs
     \/ /\ ~cancelling /\ ~late
        /\ Dispatches
        /\ status' = "ApplyingPatch"
        /\ OpMoves("applying")
        /\ UNCHANGED <<queue, loopVars>>
  /\ UNCHANGED <<cancelling, rolling, late, history, disk, settled, approved,
                 allowed>>

(* A start hook failed; its evidence may be stored all the same. *)
StartFails ==
  /\ StartRecorded \/ UNCHANGED started
  /\ UNCHANGED <<cancelling, rolling, late, history, disk, settled, approved,
                 allowed, runs>>

PatchStartFails ==
  /\ op.pc = "startingPatch"
  /\ OpFails
  /\ StartFails

(* The adapter resolves, with every file written and read back or not, or  *)
(* it rejects.  Unless it verified them, the patch may or may not be left  *)
(* on disk.                                                                *)
PatchAdapterReturns(answer) ==
  /\ op.pc = "applying"
  /\ disk' \in {disk, disk \cup {op.action}}
  /\ answer = "verified" => op.action \in disk'
  /\ op' = [op EXCEPT !.pc = IF answer = "threw" THEN "failingPatch"
                                                 ELSE "settlingPatch",
                      !.verified = answer = "verified"]
  /\ UNCHANGED <<taskVars, loopVars, cancelling, rolling, late, history,
                 evidence>>

Settles == settled' = settled \cup {op.action}

(* Mutant: a patch that was not verified can be rolled back, too. *)
PatchSettledUnverified ==
  /\ op.pc = "settlingPatch"
  /\ Settles
  /\ history' = Append(history, op.action)
  /\ OpEnds
  /\ IF cancelling THEN Stop("Cancelled") ELSE NextTurn
  /\ UNCHANGED <<cancelling, rolling, late, disk, started, approved, allowed,
                 runs>>

(* afterPatchApply returned. *)
PatchSettled ==
  /\ op.pc = "settlingPatch"
  /\ Settles
  /\ history' = IF op.verified THEN Append(history, op.action) ELSE history
  /\ OpEnds
  /\ IF cancelling THEN Stop("Cancelled") ELSE NextTurn
  /\ UNCHANGED <<cancelling, rolling, late, disk, started, approved, allowed,
                 runs>>

(* beforeCommandDecision answered. *)
CommandDecided(allow) ==
  /\ op.pc = "deciding"
  /\ allowed' = IF allow THEN allowed \cup {op.action} ELSE allowed
  /\ \/ OpStops
     \/ /\ ~cancelling /\ ~late
        /\ allow
        /\ OpMoves("startingCommand")
        /\ UNCHANGED <<taskVars, loopVars>>
     \/ /\ ~cancelling /\ ~late
        /\ ~allow
        /\ OpEnds
        /\ NextCall(queue, "ReturningToolResult")
  /\ UNCHANGED <<cancelling, rolling, late, history, disk, started, settled,
                 approved, runs>>

(* Mutant: the answer is queued for the model, which nobody calls. *)
GateFailsSilently ==
  /\ OpEnds
  /\ UNCHANGED loopVars
  /\ IF cancelling THEN UNCHANGED taskVars
                   ELSE /\ status' = "ReturningToolResult"
                        /\ pendingCommand' = None
                        /\ UNCHANGED <<pendingPatch, queue>>

(* A hook in front of the command threw a gate error. *)
GateFails ==
  /\ OpEnds
  /\ IF cancelling THEN UNCHANGED <<taskVars, loopVars>>
                   ELSE NextCall(queue, "ReturningToolResult")

CommandDecisionFails ==
  /\ op.pc = "deciding"
  /\ GateFails \/ OpFails
  /\ UNCHANGED <<cancelling, rolling, late, history, disk, evidence>>

(* Mutant: a cancel that came before the run is not passed on. *)
CommandStartedUntold ==
  /\ op.pc = "startingCommand"
  /\ StartRecorded
  /\ Dispatches
  /\ status' = IF cancelling THEN status ELSE "RunningCommand"
  /\ OpMoves("running")
  /\ UNCHANGED <<queue, loopVars, cancelling, rolling, late, history, disk,
                 settled, approved, allowed>>

(* beforeCommandStart returned: the command is run, and told to stop if a  *)
(* cancel came meanwhile.                                                  *)
CommandStarted ==
  /\ op.pc = "startingCommand"
  /\ StartRecorded
  /\ Dispatches
  /\ status' = IF cancelling THEN status ELSE "RunningCommand"
  /\ op' = [op EXCEPT !.pc = "running", !.told = cancelling]
  /\ UNCHANGED <<queue, loopVars, cancelling, rolling, late, history, disk,
                 settled, approved, allowed>>

CommandStartFails ==
  /\ op.pc = "startingCommand"
  /\ GateFails \/ OpFails
  /\ StartFails

(* The runner's promise is settled, either way. *)
CommandEnds ==
  /\ op.pc = "running"
  /\ OpMoves("settlingCommand")
  /\ UNCHANGED <<taskVars, loopVars, cancelling, rolling, late, history, disk,
                 evidence>>

(* afterCommandComplete returned. *)
CommandSettled ==
  /\ op.pc = "settlingCommand"
  /\ Settles
  /\ OpEnds
  /\ IF cancelling THEN Stop("Cancelled")
                   ELSE NextCall(queue, "ReturningToolResult")
  /\ UNCHANGED <<cancelling, rolling, late, history, disk, started, approved,
                 allowed, runs>>

(* Mutant: the side effect is tried again. *)
SettlementFailureRetried ==
  /\ op.pc \in {"settlingPatch", "settlingCommand"}
  /\ OpMoves(IF op.pc = "settlingPatch" THEN "startingPatch"
                                        ELSE "startingCommand")
  /\ UNCHANGED <<taskVars, loopVars, cancelling, rolling, late, history, disk,
                 evidence>>

(* A settlement hook threw: a SettlementPersistenceError ends the          *)
(* operation, another error is recorded as a failure first.                *)
SettlementFails ==
  /\ op.pc \in {"settlingPatch", "settlingCommand"}
  /\ \/ OpFails
     \/ /\ OpMoves(IF op.pc = "settlingPatch" THEN "failingPatch"
                                              ELSE "failingCommand")
        /\ UNCHANGED <<taskVars, loopVars>>
  /\ UNCHANGED <<cancelling, rolling, late, history, disk, evidence>>

(* afterSideEffectFailure returned or threw. *)
FailureRecorded ==
  /\ op.pc \in {"failingPatch", "failingCommand"}
  /\ Settles \/ UNCHANGED settled
  /\ OpFails
  /\ UNCHANGED <<cancelling, rolling, late, history, disk, started, approved,
                 allowed, runs>>

-----------------------------------------------------------------------------
(* cancel, rollback and the clock.                                         *)

Cancel ==
  /\ status \notin TerminalStatuses \cup {None}
  /\ ~cancelling
  /\ NothingPending
  /\ IF op.pc = "idle"
       THEN status' = "Cancelled" /\ UNCHANGED <<op, cancelling>>
       ELSE /\ status' = "Cancelling"
            /\ cancelling' = TRUE
            /\ op' = [op EXCEPT !.told = op.pc = "running"]
  /\ UNCHANGED <<loopVars, rolling, late, history, disk, evidence>>

(* The settlement cancel awaits is resolved. *)
CancelReturns ==
  /\ cancelling
  /\ op.pc = "idle"
  /\ cancelling' = FALSE
  /\ status' = IF Terminal THEN status ELSE "Cancelled"
  /\ NothingPending
  /\ UNCHANGED <<loopVars, op, rolling, late, history, disk, evidence>>

(* Mutant: the model loop is not waited for. *)
CanRollbackInLoop ==
  Terminal /\ op.pc = "idle" /\ rolling = "no" /\ ~cancelling /\ queue = <<>>

CanRollback ==
  /\ Terminal
  /\ ~inLoop
  /\ op.pc = "idle"
  /\ rolling = "no"
  /\ ~cancelling
  /\ queue = <<>>

(* rollbackLatest and rollbackAll *)
Rollback(extent) ==
  /\ CanRollback
  /\ history # <<>>
  /\ rolling' = extent
  /\ UNCHANGED <<taskVars, loopVars, op, cancelling, late, history, disk,
                 evidence>>

(* rollbackOne: the adapter restores the latest patch, or leaves it. *)
RollbackReturns(restored) ==
  /\ rolling # "no"
  /\ IF restored
       THEN /\ history' = SubSeq(history, 1, Len(history) - 1)
            /\ disk' = disk \ {history[Len(history)]}
            /\ rolling' = IF rolling = "all" /\ Len(history) > 1 THEN "all"
                                                                 ELSE "no"
       ELSE /\ rolling' = "no"
            /\ UNCHANGED <<history, disk>>
  /\ UNCHANGED <<taskVars, loopVars, op, cancelling, late, evidence>>

TimePasses ==
  /\ ~late
  /\ late' = TRUE
  /\ UNCHANGED <<taskVars, loopVars, op, cancelling, rolling, history, disk,
                 evidence>>

-----------------------------------------------------------------------------

Init ==
  /\ status = None
  /\ pendingPatch = None /\ pendingCommand = None
  /\ queue = <<>>
  /\ loop = "idle" /\ inLoop = FALSE
  /\ op = NoOp
  /\ cancelling = FALSE
  /\ rolling = "no"
  /\ late = FALSE
  /\ turns = 0 /\ total = 0 /\ calls = [k \in Kinds \ {"list"} |-> 0]
  /\ proposals = 0 /\ asked = 0
  /\ history = <<>>
  /\ disk = {} /\ started = {} /\ settled = {} /\ approved = {} /\ allowed = {}
  /\ runs = [a \in Actions |-> 0]

LoopStep ==
  \/ Start \/ LoopReturns \/ LoopExpires \/ LoopFails
  \/ \E q \in Requests : StreamRequestsTools(q)
  \/ StreamAnswers \/ AnswerIsFinal \/ AnswerProposesPatch
  \/ ToolReturns \/ CommandResolved

Answer ==
  \/ AnswerExpires \/ ApprovePatch \/ ApproveCommand
  \/ RejectPatch \/ DenyCommand

(* An await of approvePatch or approveCommand resolves. *)
OpStep ==
  \/ PatchStarted \/ PatchStartFails
  \/ \E answer \in {"verified", "refused", "threw"} : PatchAdapterReturns(answer)
  \/ PatchSettled
  \/ \E allow \in BOOLEAN : CommandDecided(allow)
  \/ CommandDecisionFails \/ CommandStarted \/ CommandStartFails
  \/ CommandEnds \/ CommandSettled
  \/ SettlementFails \/ FailureRecorded

RollbackStep ==
  \/ \E extent \in {"one", "all"} : Rollback(extent)
  \/ \E restored \in BOOLEAN : RollbackReturns(restored)

Next ==
  \/ LoopStep \/ Answer \/ OpStep \/ Cancel \/ CancelReturns \/ RollbackStep
  \/ TimePasses

Spec == Init /\ [][Next]_vars

(* Hooks, adapter and runner answer: appends to the local ledger, file     *)
(* writes, and a process the native runner kills after its own timeout.    *)
(* Nothing is assumed of the user and of the provider.                     *)
FairSpec == Spec /\ WF_vars(OpStep) /\ WF_vars(CancelReturns)

-----------------------------------------------------------------------------
(* Properties.                                                             *)

(* The budgets of types.ts L252-260 hold, whatever the model asks for.     *)
TypeOK ==
  /\ status \in Statuses
  /\ pendingPatch \in Patches \cup {None}
  /\ pendingCommand \in Commands \cup {None}
  /\ queue \in Seq(Kinds)
  /\ loop \in {"idle", "streaming", "preparing", "reading", "resolving"}
  /\ inLoop \in BOOLEAN
  /\ op \in [pc : {"idle"} \cup PatchAwaits \cup CommandAwaits,
            action : Actions \cup {None}, verified : BOOLEAN, told : BOOLEAN]
  /\ cancelling \in BOOLEAN /\ rolling \in {"no", "one", "all"}
  /\ late \in BOOLEAN
  /\ turns \in 0..MaxTurns /\ total \in 0..MaxTotal
  /\ calls \in [Kinds \ {"list"} -> Nat]
  /\ \A k \in Kinds \ {"list"} : calls[k] <= MaxCalls[k]
  /\ proposals \in 0..MaxPatches /\ asked \in 0..calls["command"]
  /\ history \in Seq(Patches)
  /\ disk \subseteq Patches
  /\ started \subseteq Actions /\ settled \subseteq Actions
  /\ approved \subseteq Actions /\ allowed \subseteq Commands
  /\ runs \in [Actions -> 0..MaxRuns]

(* The user is asked exactly for what is pending. *)
AwaitsUser ==
  \/ status = "WaitingForPatchApproval" /\ pendingPatch # None
  \/ status = "WaitingForCommandApproval" /\ pendingCommand # None

(* A task that has not ended is carried on by the model loop, an approval  *)
(* or a cancel, or it waits for the user with something to answer: no      *)
(* early return leaves it behind.                                          *)
NoLostTask ==
  status \notin TerminalStatuses \cup {None} =>
    \/ AwaitsUser
    \/ loop # "idle" \/ op.pc # "idle" \/ cancelling

(* The model loop and an approval never run side by side, nothing waits    *)
(* for the user meanwhile, and a task that has ended keeps neither an      *)
(* operation nor anything to approve.                                      *)
OneAtATime ==
  /\ loop # "idle" => op.pc = "idle" /\ ~AwaitsUser
  /\ inLoop => loop # "idle"
  /\ Terminal => op.pc = "idle" /\ pendingPatch = None /\ pendingCommand = None

(* A side effect is dispatched once, behind a claimed approval and durable *)
(* evidence of its start, by a task that has not ended; a command only     *)
(* after the policy allowed it; a patch never after a cancel or the time   *)
(* limit, however long its start hook took.                                *)
DispatchIsAuthorised ==
  [][\A a \in Actions :
       runs'[a] # runs[a] =>
         /\ runs[a] = 0
         /\ a \in approved /\ a \in started'
         /\ ~Terminal
         /\ a \in Commands => a \in allowed
         /\ a \in Patches => ~cancelling /\ ~late]_vars

(* A command that runs while a cancel waits for it was told to stop,       *)
(* whichever came first.                                                   *)
CancelledCommandsAreTold == cancelling /\ op.pc = "running" => op.told

(* Nothing revives a task: late answers, late streams and late cancels     *)
(* leave it as it ended.                                                   *)
TerminalIsFinal ==
  [][Terminal => UNCHANGED <<taskVars, turns, total, calls, proposals, asked,
                             evidence>>]_vars

(* A rollback has the project to itself: the task has ended, no approval,  *)
(* cancel or model turn is outstanding.                                    *)
RollbackAlone ==
  rolling # "no" => Terminal /\ op.pc = "idle" /\ ~cancelling /\ ~inLoop

(* Nothing of a task goes on beside something that must not see it.        *)
WorkDoesNotOverlap == OneAtATime /\ RollbackAlone

(* What can be rolled back is on disk, the latest patch last.              *)
HistoryIsOnDisk ==
  /\ \A i \in DOMAIN history : history[i] \in disk
  /\ \A i, j \in DOMAIN history : i < j => history[i][2] < history[j][2]

(* A task one of whose side effects ran and has no durable outcome does    *)
(* not go on.                                                              *)
UnsettledStops ==
  \A a \in Actions :
    runs[a] > 0 /\ a \notin settled /\ op.action # a => Terminal \/ cancelling

(* A stop reaches whatever it must stop: a cancel the command that runs, a *)
(* lost outcome the task.                                                  *)
StopsAreHeard == CancelledCommandsAreTold /\ UnsettledStops

(* The task keeps the promise of SideEffect for each of its side effects;  *)
(* to be waiting for the user is to be requested.                          *)
EffectOf(a) ==
  IF op.action = a
    THEN IF op.pc \in {"startingPatch", "deciding", "startingCommand"}
           THEN "authorised" ELSE "running"
  ELSE IF a \in settled THEN "settled"
  ELSE IF runs[a] > 0 THEN "uncertain"
  ELSE IF a \in {pendingPatch, pendingCommand} THEN "requested"
  ELSE IF a[2] > (IF a \in Patches THEN proposals ELSE asked) THEN "none"
  ELSE "closed"

Promise == INSTANCE SideEffect WITH
  Effects <- Actions, effect <- [a \in Actions |-> EffectOf(a)]

KeepsPromise == Promise!Spec

(* A cancel that waits for an operation ends with the task.                *)
CancelEnds == cancelling ~> Terminal

=============================================================================
