---------------------------- MODULE TaskRuntime ----------------------------
(***************************************************************************)
(* One task of AgentRuntime (packages/agent-runtime/src/runtime.ts): each  *)
(* call of runTask carries a state machine of its own through the awaits,  *)
(* cancelTask makes another, and all of them write the one stored status,  *)
(* which is announced with every change.                                   *)
(***************************************************************************)
EXTENDS Naturals, Sequences, FiniteSets

CONSTANTS
    Runs,       \* the calls of runTask for this task
    Chunks      \* how many chunks the provider streams

VARIABLES
    status,     \* of the stored task
    output,     \* the runs whose chunks were appended, in order
    run,        \* [at, machine, chunks] of each call
    events      \* the events of the task as a whole: "started", "completed", ...

vars == <<status, output, run, events>>

TaskTransitions ==
    [Idle |-> {"Planning", "Failed", "Cancelled"}, Planning |-> {"CallingModel", "Failed", "Cancelled"},
     CallingModel |-> {"Streaming", "Failed", "Cancelled"}, Streaming |-> {"Done", "Failed", "Cancelled"},
     Done |-> {}, Failed |-> {}, Cancelled |-> {}]

CanTransition(from, to) == to \in TaskTransitions[from]

TypeOK ==
    /\ status \in DOMAIN TaskTransitions
    /\ output \in Seq(Runs)
    /\ run \in [Runs -> [at : {"no", "planning", "streaming", "ended", "rejected"},
                         machine : DOMAIN TaskTransitions, chunks : 0 .. Chunks]]

\* transitionTask: of the machine first, which may throw, then of the store.
Transition(r, to, at) ==
    /\ run' = [run EXCEPT ![r].machine = to, ![r].at = at]
    /\ status' = to

\* The catch of runTask: the machine may have nowhere to fail to, then the caller's
\* promise is rejected and nobody is told.
Fail(r, machine, told) ==
    IF CanTransition(machine, "Failed")
    THEN /\ Transition(r, "Failed", "ended")
         /\ events' = told \o <<"failed">>
    ELSE /\ run' = [run EXCEPT ![r].at = "rejected"]
         /\ events' = told /\ UNCHANGED status

\* runTask up to the first await, with a machine from the stored status.
RunTask(r) ==
    /\ run[r].at = "no"
    /\ IF CanTransition(status, "Planning")
       THEN Transition(r, "Planning", "planning") /\ events' = Append(events, "started")
       ELSE Fail(r, status, Append(events, "started"))
    /\ UNCHANGED output

\* Behind the pause: the default provider, if it is registered, is called and the
\* stream begins.
CallModel(r, registered) ==
    /\ run[r].at = "planning"
    /\ IF registered
       THEN Transition(r, "Streaming", "streaming") /\ UNCHANGED events
       ELSE Fail(r, "CallingModel", events)
    /\ UNCHANGED output

Chunk(r) ==
    /\ run[r].at = "streaming" /\ run[r].chunks < Chunks
    /\ run' = [run EXCEPT ![r].chunks = @ + 1]
    /\ output' = Append(output, r)
    /\ UNCHANGED <<status, events>>

StreamIsOver(r) == run[r].at = "streaming" /\ run[r].chunks = Chunks

StreamEnds(r) ==
    /\ StreamIsOver(r)
    /\ Transition(r, "Done", "ended")
    /\ events' = Append(events, "completed")
    /\ UNCHANGED output

StreamFails(r) ==
    /\ run[r].at = "streaming"
    /\ Fail(r, run[r].machine, events)
    /\ UNCHANGED output

\* cancelTask, with a machine of its own; the run is not told.
CancelTask ==
    /\ CanTransition(status, "Cancelled")
    /\ status' = "Cancelled"
    /\ events' = Append(events, "cancelled")
    /\ UNCHANGED <<output, run>>

Init ==
    /\ status = "Idle" /\ output = <<>> /\ events = <<>>
    /\ run = [r \in Runs |-> [at |-> "no", machine |-> "Idle", chunks |-> 0]]

RunStep(r) ==
    CallModel(r, TRUE) \/ CallModel(r, FALSE) \/ Chunk(r) \/ StreamEnds(r) \/ StreamFails(r)

Next == (\E r \in Runs : RunTask(r) \/ RunStep(r)) \/ CancelTask

\* A call that began goes on: the pause ends, and the provider's stream does.
Fairness == \A r \in Runs : WF_vars(RunStep(r))

Spec == Init /\ [][Next]_vars /\ Fairness

-----------------------------------------------------------------------------
(* Properties. *)

\* The task is said to be completed once for each run that streamed its whole answer
\* into the output, whatever other runs and cancellations did meanwhile.
CompletionsAreEarned ==
    LET done == {r \in Runs : run[r].machine = "Done"} IN
    /\ Cardinality({i \in DOMAIN events : events[i] = "completed"}) = Cardinality(done)
    /\ \A r \in done : Cardinality({i \in DOMAIN output : output[i] = r}) = Chunks

\* Every call of runTask returns or rejects.
Quiet == \A r \in Runs : run[r].at \in {"no", "ended", "rejected"}
=============================================================================
