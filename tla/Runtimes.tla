------------------------------ MODULE Runtimes ------------------------------
(***************************************************************************)
(* The runtimes and backends that go on by themselves once they were asked *)
(* to. They share no state; one behaviour is of one of them, under the     *)
(* fairness its own module justifies. Three of them are here for their     *)
(* fairness alone, on a small instance: their safety is stated and proved  *)
(* where they are modelled.                                                *)
(***************************************************************************)
EXTENDS Naturals, Sequences, FiniteSets

CONSTANTS
    Nil,
    HarnessCalls, Turns, TurnOf, Results, MaxLog, MaxBreaches, MaxUpsets,
    Starts, ToolCalls, Submits, MaxSequence,           \* EngineAdapter's
    Nodes, Unknown, MaxRetries, MaxReplans,            \* PlanExecution's
    TaskRuns, Chunks,                                  \* TaskRuntime's
    CommandCalls, Versions, Cargo, MaxEdits,           \* CommandCatalog's
    Callers, Lifetime, MaxLifetime, Skew, MaxTime, MaxSetbacks,
    Instances, MaxAsks, MaxPythonCrashes, MaxFailures, \* ManagedRuntime's
    OldEntries    \* what the callers of a session of old can append

ASSUME CallsHaveTurns == TurnOf \in [HarnessCalls -> Turns]
ASSUME NoneIsNoResult == "none" \notin Results
ASSUME NilIsAbsent == Nil \notin Starts /\ Nil \notin Instances /\ Nil \notin Versions
ASSUME RunsAreFew == IsFiniteSet(TaskRuns)
ASSUME CargoIsBoolean == Cargo \in BOOLEAN
ASSUME LifetimeIsAllowed == Lifetime \in Nat \ {0} /\ MaxLifetime \in Nat /\ Lifetime <= MaxLifetime
ASSUME RuntimeBoundsAreNat ==
    /\ MaxLog \in Nat /\ MaxBreaches \in Nat /\ MaxUpsets \in Nat
    /\ MaxSequence \in Nat /\ MaxRetries \in Nat /\ MaxReplans \in Nat
    /\ Chunks \in Nat /\ MaxEdits \in Nat
    /\ Skew \in Nat /\ MaxTime \in Nat /\ MaxSetbacks \in Nat
    /\ MaxAsks \in Nat /\ MaxPythonCrashes \in Nat /\ MaxFailures \in Nat

VARIABLES
    part,    \* which of them this behaviour is of
    log, received, breaches, lastSequence, streamOpen, pending, submitted,
    terminalCalls, terminalTurns, cancellationRequests, sending, stopped, heard,
    upsets, lostReplies,
    process, child, start, os, stopping, calls, submit, cursor,
    stage, probed, worker, ran, notes, sessions, writer, outcome, faults,
    dependencies, graph, status, retryCount, executor, current, runs, cancelled,
    replans, replanned,
    taskStatus, output, run, events,
    script, edits, catalog, tool, asked, flag, spawned, edited,
    clock, setbacks, row, rowEvents, evaluating, caller,
    action, call, accepting, expired, decisionIds, receipts, outcomes, dispatched,
    settled, handled,
    profileDirectory, movedAside, installing, installLock, operation, bridge,
    decisionAwaited, view, keptRuntime, requests, pythonCrashes, failures,
    entries, leaf, cached, client, mode, crashes

Harness == INSTANCE HarnessBackend WITH Calls <- HarnessCalls

Engine == INSTANCE EngineAdapter WITH Overlapping <- FALSE, None <- Nil

Control == INSTANCE ControlPlane WITH
    Backends <- {"b1", "b2"}, Governed <- {"b2"}, MaxNotes <- 1, MaxFaults <- 0, log <-
    sessions

Plan == INSTANCE PlanExecution

Task == INSTANCE TaskRuntime WITH Runs <- TaskRuns, status <- taskStatus

Catalog == INSTANCE CommandCatalog WITH
    Calls <- CommandCalls, None <- Nil, call <- tool, ran <- spawned

Packs == INSTANCE CodingPackStore WITH
    None <- Nil, events <- rowEvents, call <- caller

\* Nil is no row of the operation's.
ASSUME NilIsNoRow == Nil \notin Packs!OperationRow

Handled == INSTANCE ActionRuntime WITH
    None <- Nil, Actions <- {"a1", "a2"}, Registered <- {"a1"}, Approvals <- {"ap1"},
    Decisions <- {"d1", "d2"}, Receipts <- {"r1", "r2"}, FreshReceipts <- TRUE, MaxRuns
    <- 2, runs <- handled

Python == INSTANCE ManagedRuntime WITH
    None <- Nil, MaxCrashes <- MaxPythonCrashes,
    op <- operation, asks <- requests, window <- view, profile <-
    profileDirectory, lock <- installLock, aside <- movedAside, kept <- keptRuntime,
    waits <- decisionAwaited, crashes <- pythonCrashes

Legacy == INSTANCE SessionLedger WITH
    Actions <- {"p1"}, Approvals <- {"ap1", "ap2"}, Decisions <- {"d1"}, Receipts <-
    {"r1", "r2"}, Clients <- {"k1", "k2"}, None <- Nil, MaxEntries <- 7, MaxCrashes <-
    2, Inputs <- OldEntries

harnessVars ==
    <<log, received, breaches, lastSequence, streamOpen, pending,
      submitted, terminalCalls, terminalTurns, cancellationRequests, sending, stopped,
      heard, upsets, lostReplies>>
engineVars == <<process, child, start, os, stopping, calls, submit, cursor>>
controlVars ==
    <<stage, probed, worker, ran, notes, sessions, writer, outcome,
      faults>>
planVars ==
    <<dependencies, graph, status, retryCount, executor, current, runs,
      cancelled, replans, replanned>>
taskVars == <<taskStatus, output, run, events>>
catalogVars == <<script, edits, catalog, tool, asked, flag, spawned, edited>>
packsVars == <<clock, setbacks, row, rowEvents, evaluating, caller>>
handledVars ==
    <<action, call, accepting, expired, decisionIds, receipts, outcomes,
      dispatched, settled, handled>>
pythonVars ==
    <<profileDirectory, movedAside, installing, installLock, operation,
      bridge, decisionAwaited, view, keptRuntime, requests, pythonCrashes, failures>>
legacyVars == <<entries, leaf, cached, client, mode, crashes>>

vars == <<part, harnessVars, engineVars, controlVars, planVars, taskVars, catalogVars,
          packsVars, handledVars, pythonVars, legacyVars>>

-----------------------------------------------------------------------------
(* A part that is not the behaviour's has no state. *)

NoHarness ==
    /\ log = 0 /\ received = 0 /\ breaches = 0 /\ lastSequence = 0
    /\ streamOpen = 0 /\ pending = 0 /\ submitted = 0 /\ terminalCalls = 0
    /\ terminalTurns = 0 /\ cancellationRequests = 0 /\ sending = 0 /\ stopped = 0
    /\ heard = 0 /\ upsets = 0 /\ lostReplies = 0
NoEngine ==
    /\ process = 0 /\ child = 0 /\ start = 0 /\ os = 0 /\ stopping = 0
    /\ calls = 0 /\ submit = 0 /\ cursor = 0
NoControl ==
    /\ stage = 0 /\ probed = 0 /\ worker = 0 /\ ran = 0 /\ notes = 0
    /\ sessions = 0 /\ writer = 0 /\ outcome = 0 /\ faults = 0
NoPlan ==
    /\ dependencies = 0 /\ graph = 0 /\ status = 0 /\ retryCount = 0
    /\ executor = 0 /\ current = 0 /\ runs = 0 /\ cancelled = 0 /\ replans = 0
    /\ replanned = 0
NoTask == taskStatus = 0 /\ output = 0 /\ run = 0 /\ events = 0
NoCatalog ==
    /\ script = 0 /\ edits = 0 /\ catalog = 0 /\ tool = 0 /\ asked = 0
    /\ flag = 0 /\ spawned = 0 /\ edited = 0
NoPacks ==
    /\ clock = 0 /\ setbacks = 0 /\ row = 0 /\ rowEvents = 0
    /\ evaluating = 0 /\ caller = 0
NoHandled ==
    /\ action = 0 /\ call = 0 /\ accepting = 0 /\ expired = 0
    /\ decisionIds = 0 /\ receipts = 0 /\ outcomes = 0 /\ dispatched = 0
    /\ settled = 0 /\ handled = 0
NoPython ==
    /\ profileDirectory = 0 /\ movedAside = 0 /\ installing = 0
    /\ installLock = 0 /\ operation = 0 /\ bridge = 0 /\ decisionAwaited = 0
    /\ view = 0 /\ keptRuntime = 0 /\ requests = 0 /\ pythonCrashes = 0
    /\ failures = 0
NoLegacy ==
    /\ entries = 0 /\ leaf = 0 /\ cached = 0 /\ client = 0 /\ mode = 0
    /\ crashes = 0

Init ==
    \/ part = "harness" /\ Harness!Init /\ NoEngine /\ NoControl /\ NoPlan /\ NoTask
       /\ NoCatalog /\ NoPacks /\ NoHandled /\ NoPython /\ NoLegacy
    \/ part = "engine" /\ Engine!Init /\ NoHarness /\ NoControl /\ NoPlan /\ NoTask
       /\ NoCatalog /\ NoPacks /\ NoHandled /\ NoPython /\ NoLegacy
    \/ part = "control" /\ Control!Init /\ NoHarness /\ NoEngine /\ NoPlan /\ NoTask
       /\ NoCatalog /\ NoPacks /\ NoHandled /\ NoPython /\ NoLegacy
    \/ part = "plan" /\ Plan!Init /\ NoHarness /\ NoEngine /\ NoControl /\ NoTask
       /\ NoCatalog /\ NoPacks /\ NoHandled /\ NoPython /\ NoLegacy
    \/ part = "task" /\ Task!Init /\ NoHarness /\ NoEngine /\ NoControl /\ NoPlan
       /\ NoCatalog /\ NoPacks /\ NoHandled /\ NoPython /\ NoLegacy
    \/ part = "catalog" /\ Catalog!Init /\ NoHarness /\ NoEngine /\ NoControl
       /\ NoPlan /\ NoTask /\ NoPacks /\ NoHandled /\ NoPython /\ NoLegacy
    \/ part = "packs" /\ Packs!Init /\ NoHarness /\ NoEngine /\ NoControl /\ NoPlan
       /\ NoTask /\ NoCatalog /\ NoHandled /\ NoPython /\ NoLegacy
    \/ part = "actions" /\ Handled!Init /\ NoHarness /\ NoEngine /\ NoControl
       /\ NoPlan /\ NoTask /\ NoCatalog /\ NoPacks /\ NoPython /\ NoLegacy
    \/ part = "python" /\ Python!Init /\ NoHarness /\ NoEngine /\ NoControl /\ NoPlan
       /\ NoTask /\ NoCatalog /\ NoPacks /\ NoHandled /\ NoLegacy
    \/ part = "legacy" /\ Legacy!LegacyInit /\ NoHarness /\ NoEngine /\ NoControl
       /\ NoPlan /\ NoTask /\ NoCatalog /\ NoPacks /\ NoHandled /\ NoPython

HarnessStep ==
    /\ part = "harness" /\ Harness!Next
    /\ UNCHANGED <<part, engineVars, controlVars, planVars, taskVars, catalogVars,
         packsVars, handledVars, pythonVars, legacyVars>>

EngineStep ==
    /\ part = "engine" /\ Engine!Next
    /\ UNCHANGED <<part, harnessVars, controlVars, planVars, taskVars, catalogVars,
         packsVars, handledVars, pythonVars, legacyVars>>

ControlStep ==
    /\ part = "control" /\ Control!Next
    /\ UNCHANGED <<part, harnessVars, engineVars, planVars, taskVars, catalogVars,
         packsVars, handledVars, pythonVars, legacyVars>>

PlanStep ==
    /\ part = "plan" /\ Plan!Next
    /\ UNCHANGED <<part, harnessVars, engineVars, controlVars, taskVars, catalogVars,
         packsVars, handledVars, pythonVars, legacyVars>>

TaskStep ==
    /\ part = "task" /\ Task!Next
    /\ UNCHANGED <<part, harnessVars, engineVars, controlVars, planVars, catalogVars,
         packsVars, handledVars, pythonVars, legacyVars>>

CatalogStep ==
    /\ part = "catalog" /\ Catalog!Next
    /\ UNCHANGED <<part, harnessVars, engineVars, controlVars, planVars, taskVars,
         packsVars, handledVars, pythonVars, legacyVars>>

PacksStep ==
    /\ part = "packs" /\ Packs!Next
    /\ UNCHANGED <<part, harnessVars, engineVars, controlVars, planVars, taskVars,
         catalogVars, handledVars, pythonVars, legacyVars>>

HandledStep ==
    /\ part = "actions" /\ Handled!Next
    /\ UNCHANGED <<part, harnessVars, engineVars, controlVars, planVars, taskVars,
         catalogVars, packsVars, pythonVars, legacyVars>>

PythonStep ==
    /\ part = "python" /\ Python!Next
    /\ UNCHANGED <<part, harnessVars, engineVars, controlVars, planVars, taskVars,
         catalogVars, packsVars, handledVars, legacyVars>>

LegacyStep ==
    /\ part = "legacy" /\ Legacy!Next
    /\ UNCHANGED <<part, harnessVars, engineVars, controlVars, planVars, taskVars,
         catalogVars, packsVars, handledVars, pythonVars>>

Next == HarnessStep \/ EngineStep \/ ControlStep \/ PlanStep \/ TaskStep
        \/ CatalogStep \/ PacksStep \/ HandledStep \/ PythonStep \/ LegacyStep

\* Each part's own fairness.
FairHarness ==
    LET Deliveries == \E n \in DOMAIN log : Harness!Deliver(n, FALSE) \/ Harness!Deliver(n, TRUE) IN
    /\ WF_harnessVars(part = "harness" /\ Harness!OpenStream)
    /\ SF_harnessVars(part = "harness" /\ Deliveries)

FairControl ==
    /\ WF_controlVars(/\ part = "control"
                      /\ \/ Control!Start \/ Control!ProbesAnswer \/ Control!SessionsCreated
                         \/ Control!SessionNotCreated \/ Control!Admit \/ Control!Reconcile
                         \/ Control!Report \/ Control!ResultNotRecorded \/ Control!Throw)
    /\ \A b \in {"b1", "b2"} :
         /\ WF_controlVars(part = "control" /\ (Control!Launch(b) \/ Control!Answer(b)))
         /\ \A w \in Control!Writers :
              WF_controlVars(part = "control" /\ Control!Write(b, w))

FairEngine ==
    /\ \A k \in Starts :
         /\ WF_engineVars(/\ part = "engine"
                          /\ \/ Engine!Verified(k) \/ Engine!Launched(k)
                             \/ Engine!Probed(k) \/ Engine!Inspected(k))
         /\ WF_engineVars(part = "engine" /\ Engine!ExitNoticed(k))
    /\ WF_engineVars(part = "engine" /\ (Engine!Asked \/ Engine!Killed))

Fairness ==
    /\ FairHarness /\ FairEngine /\ FairControl
    /\ WF_planVars(part = "plan" /\ Plan!ExecutorStep)
    /\ \A i \in Instances :
         /\ WF_pythonVars(part = "python" /\ Python!OpStep(i))
         /\ WF_pythonVars(part = "python" /\ (Python!Spawn(i) \/ Python!TimesOut(i)))
    /\ \A r \in TaskRuns : WF_taskVars(part = "task" /\ Task!RunStep(r))
    /\ \A k \in CommandCalls : WF_catalogVars(part = "catalog" /\ Catalog!Native(k))
    /\ \A c \in Callers : WF_packsVars(part = "packs" /\ Packs!Step(c))
    /\ \A a \in {"a1", "a2"} : WF_handledVars(part = "actions" /\ Handled!SettlementHookReturns(a))
    /\ WF_legacyVars(part = "legacy" /\ mode = "recovering" /\ Legacy!RecoverySteps)

Spec == Init /\ [][Next]_vars /\ Fairness

-----------------------------------------------------------------------------
(* Properties. *)

\* A transport's events are heard in order and once, and one engine process runs.
TransportsAreTamed ==
    /\ part = "harness" => Harness!TypeOK /\ Harness!HeardInOrder
    /\ part = "engine" => Engine!TypeOK /\ Engine!OneInstance

\* A backend whose calls are asked once, answered while pending, and closed with
\* their turn.
Contract == INSTANCE BackendContract WITH
    Calls <- HarnessCalls,
    call <- IF part = "harness" THEN Harness!CallState ELSE [c \in HarnessCalls |-> "none"],
    ended <- IF part = "harness" THEN terminalTurns ELSE {}

KeepsContract == Contract!Spec

\* What became of a tool call stays: a result that comes when it timed out, was
\* withdrawn, resolved or restored from history does not settle it.
SettledCallsStay == [][part = "engine" => Engine!SettledCallsStay]_vars

\* A plan or a task that is called completed was run to its end, each step once; a
\* Python runtime that was installed stays whole until somebody removes or damages it,
\* and an install under way keeps its directory.
CompletionsAreEarned ==
    /\ part = "plan" => Plan!TypeOK /\ Plan!CompletedGraphsRan
    /\ part = "task" => Task!TypeOK /\ Task!CompletionsAreEarned
    /\ part = "python" => /\ Python!TypeOK /\ Python!InstallsStand
                          /\ Python!InstalledStays /\ Python!NothingLeftBehind

\* A process runs the text whose digest the catalog gave.
RunsWhatWasCataloged == part = "catalog" => Catalog!TypeOK /\ Catalog!RunsWhatWasCataloged

\* Every row of the pack store reads back, and the policy is asked by one caller.
PackRowsReadBack ==
    part = "packs" => Packs!TypeOK /\ Packs!RowsReadBack /\ Packs!AsksOnceConfirmed

\* What was recorded is what is acted upon: the script that was catalogued runs, the rows
\* that were written read back.
RecordsAreFollowed == RunsWhatWasCataloged /\ PackRowsReadBack

\* What was begun and has not come to its end: a transport that keeps its contract is
\* not heard to the end, a dead engine is called healthy, a worker's session is open, a
\* plan's execution, a run of a task, a native command, an evaluation or the settlement
\* of an action has not returned, an operation on the Python runtime or a session of its
\* bridge goes on, a start is still masked in a session of old.
AllIsQuiet ==
    CASE part = "harness" -> Harness!Quiet
      [] part = "engine" -> Engine!Quiet
      [] part = "control" -> Control!Quiet
      [] part = "plan" -> Plan!Quiet
      [] part = "task" -> Task!Quiet
      [] part = "catalog" -> Catalog!Quiet
      [] part = "packs" -> Packs!Quiet
      [] part = "actions" -> Handled!Quiet
      [] part = "python" -> Python!Quiet
      [] part = "legacy" -> Legacy!Quiet

\* Everything comes to its end, again and again.
EverythingEnds == []<>AllIsQuiet
=============================================================================
