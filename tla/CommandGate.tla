---------------------------- MODULE CommandGate ----------------------------
(***************************************************************************)
(* One session's governed commands, from the model's request to durable    *)
(* settlement, through restarts: the desktop's agent session recorder      *)
(* (agentSessionRecorder.ts over session-runtime/recorder.ts), its live    *)
(* decision gate and decision coordinator, the AgentFuse adapter, and the  *)
(* sessions view that offers a command again after a restart.              *)
(*                                                                         *)
(* The ledger is what its readers compute from the active path: the        *)
(* projection (SessionProjector), the record keys, and the task status of  *)
(* the last entry.  An append is one step here; SessionLedger has its      *)
(* awaits and its concurrent callers.  What the agent loop does between    *)
(* the hooks is AgentLoop's; here it asks for commands and ends.           *)
(*                                                                         *)
(* An operation is one approveCommand of the loop or one approveRecovered  *)
(* of the view; op.pc names what it awaits.                                *)
(***************************************************************************)
EXTENDS SessionProjector, Sequences

CONSTANTS Answers,      \* decision ids the bridge may answer with
          LocalError,   \* the id of the adapter's own error, per command
          MaxCrashes,   \* bound: restarts
          MaxFaults     \* bound: failures of the store

ASSUME AnswersAreDecisions ==
  /\ Answers \subseteq Decisions
  /\ LocalError \in [Actions -> Decisions \ Answers]

ASSUME GateBoundsAreNat == MaxCrashes \in Nat /\ MaxFaults \in Nat

VARIABLES
  ledger,     \* the active path as its readers see it
  known,      \* recordKeys of the session recorder
  queue,      \* the session recorder's promise queue
  uncertain,  \* settlementEvidenceUncertain
  offered,    \* liveProposalOperations and failedProposalActions
  seen,       \* seenResponseIds of the adapter
  task,       \* the agent task of this process
  op,         \* the operation under way, or the command waiting for the user
  asked,      \* history: commands the model has asked for
  given,      \* history: approvals the user gave since the last restart
  runs,       \* history: how often the runner was given each command
  mode,       \* "live", or "recovering" until the restart recovery returns
  crashes, faults

process == <<known, queue, uncertain, offered, seen, task, op, given>>
vars == <<ledger, process, asked, runs, mode, crashes, faults>>

MaxRuns == 2   \* bound: a second run would be seen

Keys ==
  {"proposed", "approved", "started", "completed", "denied", "interrupted"}
    \X (Actions \cup Receipts)

ASSUME NoneIsNoKey == None \notin Keys

(* Deciding and starting: until the start is recorded a cancel aborts.     *)
GateAwaits ==
  {"proposing", "approving", "asserting", "deciding", "recordingDecision",
   "allowed", "starting"}

DispatchAwaits == {"started", "running", "settling", "interrupting"}

(* The view's last appends, one after the other.                           *)
ViewAwaits == {"completing", "ending", "failing"}

NoOp ==
  [by |-> None, pc |-> "idle", action |-> None, approval |-> None,
   generation |-> 0, verdict |-> None, decision |-> None, receipt |-> None,
   expired |-> FALSE, aborted |-> FALSE, threw |-> FALSE]

Waiting(by, pc, a) == [NoOp EXCEPT !.by = by, !.pc = pc, !.action = a]

OpMoves(pc) == op' = [op EXCEPT !.pc = pc]

-----------------------------------------------------------------------------
(* Entries, and the recorder's queue of them.                              *)

(* A queued entry, and whose promise waits for it: the operation's, the    *)
(* proposal's, or nobody's.                                                *)
Queued(entry, key, for) == [entry |-> entry, key |-> key, for |-> for]

Background(entry) == Queued(entry, None, "nobody")

Awaited(entry) == Queued(entry, None, "op")

Note(status) == Background([BlankEntry EXCEPT !.runtimeStatus = status])

About(type, a) ==
  [BlankEntry EXCEPT !.type = type, !.kind = "command", !.action = a]

(* An entry that names the authority of the operation. *)
Authorised(type) ==
  [About(type, op.action) EXCEPT !.approval = op.approval,
                                 !.generation = op.generation]

(* What terminateTask and the last turn make the recorder queue. *)
EndNotes(status) ==
  IF uncertain THEN <<Note(status)>>
               ELSE <<Note(status), Background(EndedBy(status))>>

(* The ledger with entry q appended. *)
Extended(q) ==
  [proj |-> After(ledger.proj, q.entry),
   keys |-> IF q.key = None THEN ledger.keys ELSE ledger.keys \cup {q.key},
   status |-> q.entry.runtimeStatus,
   receipts |-> (ledger.receipts \cup {q.entry.receipt}) \ {None},
   settled |-> IF q.entry.type \in {"COMPLETED", "ACTION_FAILED"}
                 THEN ledger.settled \cup {q.entry.action}
                 ELSE ledger.settled]

Fits(q) == Accepts(ledger.proj, q.entry)

(* A store failure: nothing was written, or the answer was lost. *)
StoreFails(q) ==
  /\ faults < MaxFaults
  /\ faults' = faults + 1
  /\ ledger' = ledger \/ (Fits(q) /\ ledger' = Extended(q))

(* The operation at the head of the queue resolves; `more` is queued in    *)
(* the same turn.  An entry whose key is known is skipped.                 *)
Resolves(for, more) ==
  /\ queue # <<>>
  /\ LET q == Head(queue)
     IN /\ q.for = for
        /\ \/ q.key \in known /\ UNCHANGED <<ledger, known>>
           \/ /\ q.key \notin known
              /\ Fits(q)
              /\ ledger' = Extended(q)
              /\ known' = IF q.key = None THEN known ELSE known \cup {q.key}
  /\ queue' = Tail(queue) \o more
  /\ UNCHANGED faults

(* It rejects: the projector throws, or the store fails. *)
Rejects(for) ==
  /\ queue # <<>>
  /\ LET q == Head(queue)
     IN /\ q.for = for
        /\ q.key \notin known
        /\ \/ ~Fits(q) /\ UNCHANGED <<ledger, faults>>
           \/ StoreFails(q)
  /\ UNCHANGED known

-----------------------------------------------------------------------------
(* How an operation ends.                                                  *)

(* The agent's operation returns to the loop with status notes n, unless a *)
(* cancel waits for it.                                                    *)
ReturnsToLoop(q, n) ==
  /\ op' = NoOp
  /\ queue' = IF task = "cancelling" THEN q ELSE q \o n

(* The catch block of approveRecovered: the session is failed unless it    *)
(* has ended.  The view keeps its gate, the button stays.                  *)
ViewFails(q) ==
  IF ledger'.proj.status \in EndStatuses
    THEN op' = Waiting("view", "ready", op.action) /\ queue' = q
    ELSE /\ OpMoves("failing")
         /\ queue' = Append(q, Awaited(EndedBy("Failed")))

(* A hook of the gate threw: nothing is dispatched. *)
Blocks(q) ==
  IF op.by = "view" THEN ViewFails(q)
                    ELSE ReturnsToLoop(q, <<Note("Streaming")>>)

(* The same for the steps that do not append. *)
BlocksAtOnce == UNCHANGED <<ledger, known, faults>> /\ Blocks(queue)

-----------------------------------------------------------------------------
(* The task: the agent loop seen from the recorder.                        *)

(* processQueuedCalls reaches a command: the recorder is told that the     *)
(* task waits, and begins to build the proposal.                           *)
AskCommand(c) ==
  /\ mode = "live"
  /\ task = "working"
  /\ op.pc = "idle"
  /\ c \notin asked
  /\ asked' = asked \cup {c}
  /\ op' = Waiting("agent", "waiting", c)
  /\ offered' = [offered EXCEPT ![c] = "hashing"]
  /\ queue' = Append(queue, Note("WaitingForCommandApproval"))
  /\ UNCHANGED <<ledger, known, uncertain, seen, task, given, runs, mode,
                 crashes, faults>>

(* propose: the proposal's digest is there, COMMAND_PROPOSED is queued. *)
ProposalHashed(c) ==
  /\ mode = "live"
  /\ offered[c] = "hashing"
  /\ offered' = [offered EXCEPT ![c] = "queued"]
  /\ queue' = Append(queue,
                Queued(About("PROPOSED", c), <<"proposed", c>>, "proposal"))
  /\ UNCHANGED <<ledger, known, uncertain, seen, task, op, asked, given, runs,
                 mode, crashes, faults>>

(* The user denies the command. *)
DenyCommand ==
  /\ mode = "live"
  /\ task = "working"
  /\ op.pc = "waiting"
  /\ op' = NoOp
  /\ queue' = queue \o <<Queued(About("DENIED", op.action),
                                <<"denied", op.action>>, "nobody"),
                         Note("Streaming")>>
  /\ UNCHANGED <<ledger, known, uncertain, offered, seen, task, asked, given,
                 runs, mode, crashes, faults>>

(* The task ends between commands or, by its limit, at an answer. *)
EndTask(status) ==
  /\ mode = "live"
  /\ task = "working"
  /\ \/ op.pc = "idle"
     \/ op.pc = "waiting" /\ status = "LimitReached"
  /\ task' = "ended"
  /\ op' = NoOp
  /\ queue' = queue \o EndNotes(status)
  /\ UNCHANGED <<ledger, known, uncertain, offered, seen, asked, given, runs,
                 mode, crashes, faults>>

(* The user stops the task; an operation under way is waited for. *)
CancelTask ==
  /\ mode = "live"
  /\ task = "working"
  /\ IF op.pc \in {"idle", "waiting"}
       THEN /\ task' = "ended"
            /\ op' = NoOp
            /\ queue' = queue \o EndNotes("Cancelled")
       ELSE /\ task' = "cancelling"
            /\ op' = [op EXCEPT !.aborted = op.pc \in GateAwaits]
            /\ queue' = Append(queue, Note("Streaming"))
  /\ UNCHANGED <<ledger, known, uncertain, offered, seen, asked, given, runs,
                 mode, crashes, faults>>

CancelReturns ==
  /\ mode = "live"
  /\ task = "cancelling"
  /\ op.pc = "idle"
  /\ task' = "ended"
  /\ queue' = queue \o EndNotes("Cancelled")
  /\ UNCHANGED <<ledger, known, uncertain, offered, seen, op, asked, given,
                 runs, mode, crashes, faults>>

-----------------------------------------------------------------------------
(* approveAndDecide and the coordinator.                                   *)

(* The sessions view offers to open the project again.                     *)
NeedsReapproval ==
  ledger.proj.requirement \in Reapprovals /\ ledger.proj.pending # None

(* It still shows a command it prepared. *)
StillShown == ledger.proj.requirement # None /\ ledger.proj.pending # None

(* The user approves the command the loop or the view shows.  Approval ids *)
(* are fresh UUIDs.                                                        *)
ApproveCommand(ap) ==
  /\ mode = "live"
  /\ \/ op.pc = "waiting" /\ task = "working"
     \/ op.pc = "ready" /\ StillShown
  /\ ap \notin given \cup ledger.proj.approvalIds
  /\ given' = given \cup {ap}
  /\ op' = [op EXCEPT !.pc = "proposing", !.approval = ap]
  /\ UNCHANGED <<ledger, known, queue, uncertain, offered, seen, task, asked,
                 runs, mode, crashes, faults>>

PendingIsMine ==
  /\ ledger.proj.pending # None
  /\ ledger.proj.pending.kind = "command"
  /\ ledger.proj.pending.action = op.action

(* approveAndDecide L114-127: the pending action is the proposal, and      *)
(* nothing was recorded for it.                                            *)
ProposalIsCurrent ==
  /\ PendingIsMine
  /\ ~ledger.proj.pending.approved
  /\ ~ledger.proj.pending.started
  /\ ledger.proj.pending.decision = None

RecordApproval ==
  /\ op.pc = "proposing"
  /\ offered[op.action] = "stored"
  /\ ~op.aborted
  /\ ProposalIsCurrent
  /\ op' = [op EXCEPT !.pc = "approving",
                      !.generation = ledger.proj.pending.generation]
  /\ queue' = Append(queue,
       Queued([About("APPROVED", op.action) EXCEPT
                 !.approval = op.approval,
                 !.generation = ledger.proj.pending.generation],
              <<"approved", op.action>>, "op"))
  /\ UNCHANGED <<ledger, known, uncertain, offered, seen, task, asked, given,
                 runs, mode, crashes, faults>>

(* Mutant: a proposal that could not be stored is waited for. *)
ProposalRefusedIfStored ==
  /\ op.pc = "proposing"
  /\ offered[op.action] = "stored" /\ (op.aborted \/ ~ProposalIsCurrent)
  /\ BlocksAtOnce
  /\ UNCHANGED <<uncertain, offered, seen, task, asked, given, runs, mode,
                 crashes>>

ProposalRefused ==
  /\ op.pc = "proposing"
  /\ \/ offered[op.action] = "failed"
     \/ offered[op.action] = "stored" /\ (op.aborted \/ ~ProposalIsCurrent)
  /\ BlocksAtOnce
  /\ UNCHANGED <<uncertain, offered, seen, task, asked, given, runs, mode,
                 crashes>>

(* Five minutes pass since the approval. *)
Expire ==
  /\ op.pc \in GateAwaits \ {"proposing"}
  /\ ~op.expired
  /\ op' = [op EXCEPT !.expired = TRUE]
  /\ UNCHANGED <<ledger, known, queue, uncertain, offered, seen, task, asked,
                 given, runs, mode, crashes, faults>>

(* The recorder reports COMMAND_APPROVED as recorded. *)
ApprovalRecorded ==
  /\ op.pc = "approving"
  /\ Resolves("op", <<>>)
  /\ OpMoves("asserting")
  /\ UNCHANGED <<uncertain, offered, seen, task, asked, given, runs, mode,
                 crashes>>

(* Mutant: the recorder's answer is believed. *)
ApprovalBelieved == TRUE

(* assertApproved: the approval is in force in the ledger, undecided. *)
ApprovalIsDurable ==
  /\ PendingIsMine
  /\ ledger.proj.pending.approved
  /\ ledger.proj.pending.approval = op.approval
  /\ ledger.proj.pending.generation = op.generation
  /\ ~ledger.proj.pending.started
  /\ ledger.proj.pending.decision = None

AskPolicy ==
  /\ op.pc = "asserting"
  /\ ~op.aborted /\ ~op.expired
  /\ ApprovalIsDurable
  /\ OpMoves("deciding")
  /\ UNCHANGED <<ledger, known, queue, uncertain, offered, seen, task, asked,
                 given, runs, mode, crashes, faults>>

ApprovalRefused ==
  /\ op.pc = "asserting"
  /\ op.aborted \/ op.expired \/ ~ApprovalIsDurable
  /\ BlocksAtOnce
  /\ UNCHANGED <<uncertain, offered, seen, task, asked, given, runs, mode,
                 crashes>>

StillInTime == ~op.aborted /\ ~op.expired

RecordDecision(verdict, d) ==
  /\ StillInTime
  /\ op' = [op EXCEPT !.pc = "recordingDecision", !.verdict = verdict,
                      !.decision = d]
  /\ queue' = Append(queue,
       Awaited([Authorised("DECIDED") EXCEPT !.verdict = verdict,
                                             !.decision = d]))
  /\ UNCHANGED <<ledger, known, faults>>

(* The adapter answers: the bridge's allow or deny under an id it has not  *)
(* used in this process, or a local error for every other answer.  The     *)
(* decision's own time may lie outside the approval's.                     *)
PolicyAnswers(verdict, d) ==
  /\ op.pc = "deciding"
  /\ \/ d \in Answers \ seen /\ verdict \in {"allow", "deny"}
        /\ seen' = seen \cup {d}
     \/ d = LocalError[op.action] /\ verdict = "error" /\ UNCHANGED seen
  /\ RecordDecision(verdict, d) \/ BlocksAtOnce
  /\ UNCHANGED <<uncertain, offered, task, asked, given, runs, mode, crashes>>

(* ACTION_DECIDED is stored.  A deny or an error ends the operation, as    *)
(* does a loop that was cancelled or reached its time limit meanwhile.     *)
DecisionRecorded ==
  /\ op.pc = "recordingDecision"
  /\ LET closed == Awaited([BlankEntry EXCEPT !.type = "RECOVERY_COMPLETED"])
     IN \/ /\ op.verdict = "allow" /\ task # "cancelling"
           /\ Resolves("op", <<>>)
           /\ OpMoves("allowed")
           /\ UNCHANGED task
        \/ /\ op.verdict # "allow" /\ op.by = "view"
           /\ Resolves("op", <<closed>>)
           /\ OpMoves("completing")
           /\ UNCHANGED task
        \/ /\ op.by = "agent" /\ (op.verdict # "allow" \/ task = "cancelling")
           /\ Resolves("op", IF task = "cancelling" THEN <<>>
                                                    ELSE <<Note("Streaming")>>)
           /\ op' = NoOp
           /\ UNCHANGED task
        \/ /\ op.by = "agent" /\ task = "working"
           /\ Resolves("op", EndNotes("LimitReached"))
           /\ op' = NoOp
           /\ task' = "ended"
  /\ UNCHANGED <<uncertain, offered, seen, asked, given, runs, mode, crashes>>

-----------------------------------------------------------------------------
(* recordStarted, the run and its settlement.                              *)

(* assertAllowed *)
AllowIsDurable ==
  /\ PendingIsMine
  /\ ledger.proj.pending.approved
  /\ ledger.proj.pending.approval = op.approval
  /\ ledger.proj.pending.generation = op.generation
  /\ ~ledger.proj.pending.started
  /\ ledger.proj.pending.verdict = "allow"
  /\ ledger.proj.pending.decision = op.decision

(* Receipt ids are fresh UUIDs. *)
RecordStart(r) ==
  /\ op.pc = "allowed"
  /\ StillInTime
  /\ AllowIsDurable
  /\ r \notin ledger.receipts
  /\ op' = [op EXCEPT !.pc = "starting", !.receipt = r]
  /\ queue' = Append(queue,
       Queued([Authorised("STARTED") EXCEPT !.decision = op.decision,
                                            !.receipt = r],
              <<"started", op.action>>, "op"))
  /\ UNCHANGED <<ledger, known, uncertain, offered, seen, task, asked, given,
                 runs, mode, crashes, faults>>

StartRefused ==
  /\ op.pc = "allowed"
  /\ ~StillInTime \/ ~AllowIsDurable
  /\ BlocksAtOnce
  /\ UNCHANGED <<uncertain, offered, seen, task, asked, given, runs, mode,
                 crashes>>

StartRecorded ==
  /\ op.pc = "starting"
  /\ Resolves("op", <<>>)
  /\ OpMoves("started")
  /\ UNCHANGED <<uncertain, offered, seen, task, asked, given, runs, mode,
                 crashes>>

(* Mutant: a failed start is taken for a failed answer. *)
GateAppendFailsOpen ==
  /\ op.pc \in {"approving", "recordingDecision", "starting"}
  /\ Rejects("op")
  /\ IF op.pc = "starting" THEN OpMoves("started") /\ queue' = Tail(queue)
                           ELSE Blocks(Tail(queue))
  /\ UNCHANGED <<uncertain, offered, seen, task, asked, given, runs, mode,
                 crashes>>

(* An append of the gate rejects: fail closed. *)
GateAppendFails ==
  /\ op.pc \in {"approving", "recordingDecision", "starting"}
  /\ Rejects("op")
  /\ Blocks(Tail(queue))
  /\ UNCHANGED <<uncertain, offered, seen, task, asked, given, runs, mode,
                 crashes>>

Run ==
  /\ op.pc = "started"
  /\ runs[op.action] < MaxRuns
  /\ runs' = [runs EXCEPT ![op.action] = @ + 1]
  /\ OpMoves("running")
  /\ queue' = IF task = "working" THEN Append(queue, Note("Streaming"))
                                  ELSE queue
  /\ UNCHANGED <<ledger, known, uncertain, offered, seen, task, asked, given,
                 mode, crashes, faults>>

(* The runner's promise settles.  The loop makes a result of a rejection,  *)
(* the view records it as a failure; only the loop's entry has a key.      *)
CommandEnds(threw) ==
  /\ op.pc = "running"
  /\ op' = [op EXCEPT !.pc = "settling", !.threw = threw /\ op.by = "view"]
  /\ queue' = Append(queue,
       Queued([Authorised(IF op'.threw THEN "ACTION_FAILED" ELSE "COMPLETED")
                 EXCEPT !.receipt = op.receipt],
              IF op.by = "view" THEN None ELSE <<"completed", op.action>>,
              "op"))
  /\ UNCHANGED <<ledger, known, uncertain, offered, seen, task, asked, given,
                 runs, mode, crashes, faults>>

SettlementRecorded ==
  /\ op.pc = "settling"
  /\ \/ /\ op.by = "agent"
        /\ Resolves("op", IF task = "cancelling" THEN <<>>
                                                 ELSE <<Note("Streaming")>>)
        /\ op' = NoOp
     \/ /\ op.by = "view" /\ ~op.threw
        /\ Resolves("op",
             <<Awaited([BlankEntry EXCEPT !.type = "RECOVERY_COMPLETED"])>>)
        /\ OpMoves("completing")
     \/ /\ op.by = "view" /\ op.threw
        /\ Resolves("op", <<Awaited(EndedBy("Failed"))>>)
        /\ OpMoves("failing")
  /\ UNCHANGED <<uncertain, offered, seen, task, asked, given, runs, mode,
                 crashes>>

(* recordSettlement's catch block: the session is interrupted instead. *)
SettlementFails ==
  /\ op.pc = "settling"
  /\ Rejects("op")
  /\ OpMoves("interrupting")
  /\ uncertain' = (op.by = "agent")
  /\ queue' = Append(Tail(queue),
       Queued(InterruptEntry,
              IF op.by = "view" THEN None ELSE <<"interrupted", op.receipt>>,
              "op"))
  /\ UNCHANGED <<offered, seen, task, asked, given, runs, mode, crashes>>

(* The interruption is stored or not; a SettlementPersistenceError ends    *)
(* the task, and the view stops.                                           *)
InterruptionAnswered ==
  /\ op.pc = "interrupting"
  /\ LET failed == op.by = "agent" /\ task = "working"
         more == IF failed THEN EndNotes("Failed") ELSE <<>>
     IN /\ \/ Resolves("op", more)
           \/ Rejects("op") /\ queue' = Tail(queue) \o more
        /\ task' = IF failed THEN "ended" ELSE task
  /\ op' = IF op.by = "view" THEN Waiting("view", "ready", op.action) ELSE NoOp
  /\ UNCHANGED <<uncertain, offered, seen, asked, given, runs, mode, crashes>>

(* Entries nobody waits for, and the proposal's. *)
BackgroundAppend ==
  /\ mode = "live"
  /\ \E for \in {"nobody", "proposal"} :
       LET answer(outcome) ==
             offered' = IF for = "nobody" THEN offered
                        ELSE [offered EXCEPT ![Head(queue).entry.action] =
                                outcome]
       IN \/ Resolves(for, <<>>) /\ answer("stored")
          \/ /\ Rejects(for)
             /\ queue' = Tail(queue)
             /\ answer("failed")
  /\ UNCHANGED <<uncertain, seen, task, op, asked, given, runs, mode, crashes>>

-----------------------------------------------------------------------------
(* The sessions view.                                                      *)

(* reauthorize: the project is opened again and the same proposal built by *)
(* a new recorder and gate; its COMMAND_PROPOSED is on the path and        *)
(* skipped.  Selecting the session again forgets what was ready.           *)
Reauthorize ==
  /\ mode = "live"
  /\ op.pc \in {"idle", "ready"}
  /\ NeedsReapproval
  /\ op' = Waiting("view", "ready", ledger.proj.pending.action)
  /\ known' = ledger.keys
  /\ seen' = {}
  /\ offered' = [offered EXCEPT ![ledger.proj.pending.action] = "stored"]
  /\ UNCHANGED <<ledger, queue, uncertain, task, asked, given, runs, mode,
                 crashes, faults>>

(* The last appends of approveRecovered: RECOVERY_COMPLETED, then          *)
(* SESSION_COMPLETED; or SESSION_FAILED.                                   *)
ViewAppends ==
  /\ \/ /\ op.pc = "completing"
        /\ Resolves("op", <<Awaited(EndedBy("Done"))>>)
        /\ OpMoves("ending")
     \/ /\ op.pc = "ending"
        /\ Resolves("op", <<>>)
        /\ op' = NoOp
     \/ /\ op.pc \in {"completing", "ending"}
        /\ Rejects("op")
        /\ ViewFails(Tail(queue))
     \/ /\ op.pc = "failing"
        /\ \/ Resolves("op", <<>>)
           \/ Rejects("op") /\ queue' = Tail(queue)
        /\ op' = Waiting("view", "ready", op.action)
  /\ UNCHANGED <<uncertain, offered, seen, task, asked, given, runs, mode,
                 crashes>>

(* abandon: offered unless the pending action was started. *)
Abandon ==
  /\ mode = "live"
  /\ op.pc \in {"idle", "ready"}
  /\ ledger.proj.requirement # None
  /\ ledger.proj.pending # None => ~ledger.proj.pending.started
  /\ LET q == Background(EndedBy("Cancelled"))
     IN \/ /\ Fits(q)
           /\ ledger' = Extended(q)
           /\ op' = NoOp
           /\ UNCHANGED faults
        \/ StoreFails(q) /\ UNCHANGED op
  /\ UNCHANGED <<known, queue, uncertain, offered, seen, task, asked, given,
                 runs, mode, crashes>>

-----------------------------------------------------------------------------
(* Restart.                                                                *)

(* The application stops; only the ledger survives. *)
Crash ==
  /\ crashes < MaxCrashes
  /\ crashes' = crashes + 1
  /\ mode' = "recovering"
  /\ known' = {} /\ queue' = <<>> /\ uncertain' = FALSE
  /\ offered' = [c \in Actions |-> "no"]
  /\ seen' = {} /\ task' = "none" /\ op' = NoOp /\ given' = {}
  /\ UNCHANGED <<ledger, asked, runs, faults>>

(* Mutant: the scan for unmatched started evidence is left out. *)
StatusRecovery ==
  RecoveryEntry(ledger.proj, ledger.status)

(* recover(): unmatched started evidence is a started pending action, and  *)
(* an interruption has withdrawn its approval (theorem ScanAgrees of       *)
(* SessionLedgerProofs).                                                   *)
RestartEntry ==
  IF ledger.proj.pending # None /\ ledger.proj.pending.started
    THEN IF ledger.proj.pending.approved THEN InterruptEntry ELSE None
    ELSE RecoveryEntry(ledger.proj, ledger.status)

(* The startup recovery returns or throws; the views are ready either way. *)
Recover ==
  /\ mode = "recovering"
  /\ mode' = "live"
  /\ IF RestartEntry = None THEN UNCHANGED <<ledger, faults>>
     ELSE LET q == Background(RestartEntry)
          IN \/ /\ ledger' = IF Fits(q) THEN Extended(q) ELSE ledger
                /\ UNCHANGED faults
             \/ StoreFails(q)
  /\ UNCHANGED <<process, asked, runs, crashes>>

-----------------------------------------------------------------------------

Init ==
  /\ ledger = [proj |-> FirstProjection, keys |-> {}, status |-> None,
               receipts |-> {}, settled |-> {}]
  /\ known = {} /\ queue = <<>> /\ uncertain = FALSE
  /\ offered = [c \in Actions |-> "no"]
  /\ seen = {} /\ task = "working" /\ op = NoOp
  /\ asked = {} /\ given = {}
  /\ runs = [c \in Actions |-> 0]
  /\ mode = "live" /\ crashes = 0 /\ faults = 0

TaskStep ==
  \/ \E c \in Actions : AskCommand(c) \/ ProposalHashed(c)
  \/ DenyCommand \/ CancelTask \/ CancelReturns
  \/ \E s \in {"Done", "Failed", "LimitReached"} : EndTask(s)

GateStep ==
  \/ \E ap \in Approvals : ApproveCommand(ap)
  \/ RecordApproval \/ ProposalRefused \/ Expire \/ ApprovalRecorded
  \/ AskPolicy \/ ApprovalRefused
  \/ \E v \in {"allow", "deny", "error"}, d \in Decisions : PolicyAnswers(v, d)
  \/ DecisionRecorded
  \/ (\E r \in Receipts : RecordStart(r)) \/ StartRefused \/ StartRecorded
  \/ GateAppendFails

DispatchStep ==
  \/ Run \/ SettlementRecorded \/ SettlementFails \/ InterruptionAnswered
  \/ \E threw \in BOOLEAN : CommandEnds(threw)

Next ==
  \/ TaskStep \/ GateStep \/ DispatchStep \/ BackgroundAppend
  \/ Reauthorize \/ ViewAppends \/ Abandon
  \/ Crash \/ Recover

Spec == Init /\ [][Next]_vars

(* What an operation waits for settles: digests and appends are local, the *)
(* bridge request and the runner have timeouts of their own.               *)
Settles ==
  \/ RecordApproval \/ ProposalRefused \/ ApprovalRecorded
  \/ AskPolicy \/ ApprovalRefused
  \/ \E v \in {"allow", "deny", "error"}, d \in Decisions : PolicyAnswers(v, d)
  \/ DecisionRecorded
  \/ (\E r \in Receipts : RecordStart(r)) \/ StartRefused \/ StartRecorded
  \/ GateAppendFails \/ DispatchStep \/ ViewAppends

FairSpec ==
  /\ Spec
  /\ WF_vars(Settles)
  /\ WF_vars(BackgroundAppend)
  /\ WF_vars(CancelReturns)
  /\ \A c \in Actions : WF_vars(ProposalHashed(c))

-----------------------------------------------------------------------------
(* Properties.                                                             *)

TypeOK ==
  /\ ledger.proj \in Projection
  /\ ledger.keys \subseteq Keys /\ known \subseteq Keys
  /\ ledger.status \in RuntimeStatuses \cup {None}
  /\ ledger.receipts \subseteq Receipts /\ ledger.settled \subseteq Actions
  /\ \A i \in DOMAIN queue :
       /\ queue[i].entry \in Entry
       /\ queue[i].key \in Keys \cup {None}
       /\ queue[i].for \in {"nobody", "proposal", "op"}
  /\ uncertain \in BOOLEAN
  /\ offered \in [Actions -> {"no", "hashing", "queued", "stored", "failed"}]
  /\ seen \subseteq Answers
  /\ task \in {"working", "cancelling", "ended", "none"}
  /\ op.by \in {"agent", "view", None}
  /\ op.pc \in {"idle", "waiting", "ready"} \cup GateAwaits
                 \cup DispatchAwaits \cup ViewAwaits
  /\ asked \subseteq Actions
  /\ given \subseteq Approvals
  /\ runs \in [Actions -> 0..MaxRuns]
  /\ mode \in {"live", "recovering"}
  /\ crashes \in 0..MaxCrashes /\ faults \in 0..MaxFaults

(* AgentFuse is asked about an approval only while that approval, given by *)
(* the user since the last restart, is in force in the ledger and          *)
(* undecided (ADR-021: "the exact current persisted" approval).            *)
AsksUnderApproval ==
  op.pc = "deciding" =>
    /\ op.approval \in given
    /\ ledger.proj.pending # None
    /\ ledger.proj.pending.action = op.action
    /\ ledger.proj.pending.approval = op.approval
    /\ ledger.proj.pending.verdict = None

(* While a command is handed to the runner, and until its settlement is    *)
(* stored, the ledger holds its started evidence under this approval, this *)
(* allow and this receipt; the approval was given since the restart.       *)
RunsBehindEvidence ==
  op.pc \in {"started", "running", "settling"} =>
    /\ op.approval \in given
    /\ \/ op.action \in ledger.settled
       \/ /\ PendingIsMine
          /\ ledger.proj.pending.started
          /\ ledger.proj.pending.approval = op.approval
          /\ ledger.proj.pending.decision = op.decision
          /\ ledger.proj.pending.verdict = "allow"
          /\ ledger.proj.pending.receipt = op.receipt

(* From the question to AgentFuse to the settlement, a command is under an *)
(* approval of the user's in force in the ledger.                          *)
AuthorityIsInForce == TypeOK /\ AsksUnderApproval /\ RunsBehindEvidence

(* A command that ran and was not settled stays pending and started in the *)
(* ledger, whatever ends, fails or restarts: its evidence is never lost,   *)
(* and the session does not end over it.                                   *)
UnsettledStaysStarted ==
  \A a \in Actions : runs[a] > 0 /\ a \notin ledger.settled =>
    /\ ledger.proj.status \notin EndStatuses
    /\ ledger.proj.pending # None
    /\ ledger.proj.pending.action = a
    /\ ledger.proj.pending.started

(* The sessions view never offers to reapprove a command that may have run *)
(* (ADR-019: only unstarted actions enter RecoveryRequired).               *)
NeverReoffered ==
  NeedsReapproval =>
    runs[ledger.proj.pending.action] = 0 /\ ~ledger.proj.pending.started

(* What may have run and is not known to have ended is not forgotten.      *)
UncertaintyStays == UnsettledStaysStarted /\ NeverReoffered

(* Behind a restart whose recovery returned, a command that ran without    *)
(* settlement is shown as interrupted.                                     *)
RestartShowsUncertainty ==
  [][mode = "recovering" /\ mode' = "live" /\ faults' = faults =>
       \A a \in Actions : runs[a] > 0 /\ a \notin ledger.settled =>
         ledger'.proj.status = "Interrupted"]_vars

(* The product keeps the promise of SideEffect for every command, across   *)
(* restarts: it runs at most once, behind authority, never after it was    *)
(* closed by a denial, a refusal, an interruption or the session's end.    *)
MayStillRun(a) ==
  \/ op.action = a /\ op.pc \in {"waiting"} \cup GateAwaits
  \/ offered[a] \in {"hashing", "queued"}
  \/ /\ ledger.proj.pending # None
     /\ ledger.proj.pending.action = a
     /\ ~ledger.proj.pending.started

EffectOf(a) ==
  IF a \in ledger.settled THEN "settled"
  ELSE IF op.action = a /\ op.pc = "started" THEN "authorised"
  ELSE IF op.action = a /\ op.pc \in {"running", "settling"} THEN "running"
  ELSE IF runs[a] > 0 THEN "uncertain"
  ELSE IF a \notin asked THEN "none"
  ELSE IF MayStillRun(a) THEN "requested"
  ELSE "closed"

Promise == INSTANCE SideEffect WITH
  Effects <- Actions, effect <- [a \in Actions |-> EffectOf(a)]

KeepsPromise == Promise!Spec

(* Nobody waits for ever on the recorder's queue: an approval, a dispatch  *)
(* or a recovery under way returns to the user, and so does a cancel that  *)
(* waits for it (AgentLoop.cancel awaits the operation).                   *)
OperationReturns ==
  op.pc \in GateAwaits \cup DispatchAwaits \cup ViewAwaits
    ~> op.pc \in {"idle", "ready"} /\ task # "cancelling"

-----------------------------------------------------------------------------
(* A statement of the repository that the code does not keep.              *)

(* ADR-019: the recorder is an awaitable barrier, and a fresh approval     *)
(* generation is committed before dispatch: an approval the recorder       *)
(* reports as recorded is in force in the ledger.                          *)
RecordedApprovalIsInForce ==
  op.pc = "asserting" => ApprovalIsDurable

=============================================================================
