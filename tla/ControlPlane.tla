---------------------------- MODULE ControlPlane ----------------------------
(***************************************************************************)
(* One task of the control plane: ControlPlaneProductRuntime.runTask       *)
(* (packages/multi-agent-runtime/src/control-plane/product-runtime.ts),    *)
(* the supervisor it starts (supervisor.ts), the Codex and DSH backends    *)
(* (backends/), and the desktop's ledger of worker sessions                *)
(* (apps/desktop/src/session/controlPlaneSessionLedger.ts).                *)
(*                                                                         *)
(* A backend is probed three times before its process runs: when runTask   *)
(* writes the session, when the supervisor admits it, and in startTask.    *)
(* What a probe says may change in between.                                *)
(*                                                                         *)
(* Every ledger record is made by a recorder of its own: it reads the      *)
(* active path and then commits an entry behind the entries it read.  A    *)
(* commit is refused when the path has grown meanwhile, when the path has  *)
(* ended (SessionProjector), or when the database fails.  Three writers of *)
(* one session exist: the one that creates it, the one that writes the     *)
(* worker's result and the one that writes the task's failure.  A Promise. *)
(* all that rejects leaves the writers it was waiting for running.         *)
(*                                                                         *)
(* Abstracted: prompts, the contents of evidence, findings (Reconciliation *)
(* compares them), timestamps, record keys (each is written once in a      *)
(* task), and the second read of the path when an append starts.           *)
(***************************************************************************)
EXTENDS Naturals, Sequences, SequencesExt

CONSTANTS Backends,    \* the two backends of a task
          Governed,    \* those of them the task requires governance of
          MaxNotes,    \* observations, findings and evidence of one result
          MaxFaults    \* database failures and deaths of the application

Tiers == {"OPAQUE", "OBSERVED", "GOVERNED"}

Ends == {"SESSION_COMPLETED", "SESSION_FAILED"}

Writers == {"create", "result", "failure"}

VARIABLES stage,     \* where runTask is
          probed,    \* backend -> the tier of the supervisor's probe
          worker,    \* backend -> the status of its WorkerRun
          ran,       \* backend -> the tier its process was started on
          notes,     \* backend -> how many entries its result carries
          log,       \* backend -> the active path of its session
          writer,    \* backend -> writer -> what it still has to record
          outcome,   \* what runTask returned
          faults     \* failures and deaths so far

vars == <<stage, probed, worker, ran, notes, log, writer, outcome, faults>>

Stages == {"idle", "probing", "creating", "admitting", "working",
           "recording", "failing", "ended", "restarted"}

(* A writer: the entries left, the path length it read (0 before it reads) *)
(* and whether it is recording, done or rejected.                          *)
Idle == [pending |-> << >>, seen |-> 0, state |-> "idle"]
Recording(entries) == [pending |-> entries, seen |-> 0, state |-> "recording"]

Init ==
  /\ stage = "idle"
  /\ probed = [b \in Backends |-> "OPAQUE"]
  /\ worker = [b \in Backends |-> "none"]
  /\ ran = [b \in Backends |-> "none"]
  /\ notes = [b \in Backends |-> 0]
  /\ log = [b \in Backends |-> << >>]
  /\ writer = [b \in Backends |-> [w \in Writers |-> Idle]]
  /\ outcome = "none"
  /\ faults = 0

-----------------------------------------------------------------------------
(* The ledger. *)

HasEnded(path) == path # << >> /\ Last(path) \in Ends

(* Mutant: the path is not projected before the append. *)
AdmitsBehindTheEnd(path, seen) == Len(path) = seen

(* The sequence the append computed is taken when the path has grown, and  *)
(* the projector throws behind a terminal entry.                           *)
Admits(path, seen) == Len(path) = seen /\ ~HasEnded(path)

(* The entries of one result: the lifecycle behind "queued", what was      *)
(* observed, found and proven, and the terminal entry.                     *)
ResultEntries(b) ==
  <<"starting", "running", worker[b]>>
    \o [i \in 1..notes[b] |-> "note"]
    \o <<IF worker[b] = "completed" THEN "SESSION_COMPLETED"
                                    ELSE "SESSION_FAILED">>

Read(b, w) ==
  /\ writer[b][w].state \in {"recording", "interrupting"}
  /\ writer[b][w].seen = 0
  /\ writer[b][w].pending # << >>
  /\ writer' = [writer EXCEPT ![b][w].seen = Len(log[b]) + 1]
  /\ UNCHANGED <<stage, probed, worker, ran, notes, log, outcome, faults>>

Behind(w) ==
  [w EXCEPT !.pending = Tail(@), !.seen = 0,
            !.state = IF Len(w.pending) > 1 THEN @
                      ELSE IF @ = "interrupting" THEN "rejected" ELSE "done"]

(* recordWorkerResult answers a rejected record by one SESSION_INTERRUPTED *)
(* and rejects whatever becomes of it; the other writers just reject.      *)
Rejected(w, who) ==
  IF who = "result" /\ w.state = "recording"
  THEN [pending |-> <<"SESSION_INTERRUPTED">>, seen |-> 0,
        state |-> "interrupting"]
  ELSE [w EXCEPT !.pending = << >>, !.seen = 0, !.state = "rejected"]

Commit(b, w) ==
  /\ writer[b][w].seen > 0
  /\ Admits(log[b], writer[b][w].seen - 1)
  /\ log' = [log EXCEPT ![b] = Append(@, Head(writer[b][w].pending))]
  /\ writer' = [writer EXCEPT ![b][w] = Behind(@)]
  /\ UNCHANGED <<stage, probed, worker, ran, notes, outcome, faults>>

Refused(b, w) ==
  /\ writer[b][w].seen > 0
  /\ ~Admits(log[b], writer[b][w].seen - 1)
  /\ writer' = [writer EXCEPT ![b][w] = Rejected(@, w)]
  /\ UNCHANGED <<stage, probed, worker, ran, notes, log, outcome, faults>>

DatabaseFails(b, w) ==
  /\ writer[b][w].seen > 0
  /\ faults < MaxFaults
  /\ faults' = faults + 1
  /\ writer' = [writer EXCEPT ![b][w] = Rejected(@, w)]
  /\ UNCHANGED <<stage, probed, worker, ran, notes, log, outcome>>

-----------------------------------------------------------------------------
(* runTask: probes, sessions, admission. *)

(* What createWorkerSession records, one entry after the other. *)
NewSession == <<"SESSION_CREATED", "queued">>

Start ==
  /\ stage = "idle"
  /\ stage' = "probing"
  /\ UNCHANGED <<probed, worker, ran, notes, log, writer, outcome, faults>>

(* A probe that throws before a session exists leaves nothing behind. *)
ProbesAnswer ==
  /\ stage = "probing"
  /\ \/ /\ stage' = "creating"
        /\ writer' = [b \in Backends |-> [writer[b] EXCEPT
             !["create"] = Recording(NewSession)]]
        /\ UNCHANGED outcome
     \/ /\ stage' = "ended"
        /\ outcome' = "threw"
        /\ UNCHANGED writer
  /\ UNCHANGED <<probed, worker, ran, notes, log, faults>>

State(b, w) == writer[b][w].state

AllDone(w) == \A b \in Backends : State(b, w) = "done"
OneRejected(w) == \E b \in Backends : State(b, w) = "rejected"

SessionsCreated ==
  /\ stage = "creating"
  /\ AllDone("create")
  /\ stage' = "admitting"
  /\ UNCHANGED <<probed, worker, ran, notes, log, writer, outcome, faults>>

(* `sessions` is still empty when a createWorkerSession rejects, so no     *)
(* failure is recorded for the session the other one made.                 *)
SessionNotCreated ==
  /\ stage = "creating"
  /\ OneRejected("create")
  /\ stage' = "ended"
  /\ outcome' = "threw"
  /\ UNCHANGED <<probed, worker, ran, notes, log, writer, faults>>

Fail ==
  /\ stage' = "failing"
  /\ writer' = [b \in Backends |-> [writer[b] EXCEPT
       !["failure"] = Recording(<<"SESSION_FAILED">>)]]

Admissible(tiers) == \A b \in Governed : tiers[b] = "GOVERNED"

(* The supervisor admits every backend before it starts a worker. *)
Admit ==
  /\ stage = "admitting"
  /\ \E tiers \in [Backends -> Tiers] :
       /\ probed' = tiers
       /\ IF Admissible(tiers)
          THEN /\ stage' = "working"
               /\ worker' = [b \in Backends |-> "running"]
               /\ UNCHANGED writer
          ELSE Fail /\ UNCHANGED worker
  /\ UNCHANGED <<ran, notes, log, outcome, faults>>

-----------------------------------------------------------------------------
(* The workers. *)

(* Mutant: startTask relies on the admission before it. *)
RunsAsAdmitted(b, tier) ==
  tier # "OPAQUE" /\ (b \in Governed => probed[b] = "GOVERNED")

(* startTask probes once more: an unavailable backend does not run, a      *)
(* governed task runs on a governed backend only, Codex runs no governed   *)
(* task.                                                                   *)
Runs(b, tier) == tier # "OPAQUE" /\ (b \in Governed => tier = "GOVERNED")

Launch(b) ==
  /\ stage = "working"
  /\ worker[b] = "running"
  /\ ran[b] = "none"
  /\ \E tier \in Tiers :
       IF Runs(b, tier)
       THEN ran' = [ran EXCEPT ![b] = tier] /\ UNCHANGED worker
       ELSE worker' = [worker EXCEPT ![b] = "failed"] /\ UNCHANGED ran
  /\ UNCHANGED <<stage, probed, notes, log, writer, outcome, faults>>

AttachOutput(b, n) == notes' = [notes EXCEPT ![b] = n]

(* The process answers; evidence of another worker fails the run.  What    *)
(* was observed before a failure stays in the result.                      *)
Answer(b) ==
  /\ stage = "working"
  /\ worker[b] = "running"
  /\ ran[b] # "none"
  /\ \E end \in {"completed", "failed"}, n \in 0..MaxNotes :
       /\ worker' = [worker EXCEPT ![b] = end]
       /\ AttachOutput(b, n)
  /\ UNCHANGED <<stage, probed, ran, log, writer, outcome, faults>>

Settled(b) == worker[b] \in {"completed", "failed"}

(* Promise.all over the workers: the results are recorded side by side. *)
Reconcile ==
  /\ stage = "working"
  /\ \A b \in Backends : Settled(b)
  /\ stage' = "recording"
  /\ writer' = [b \in Backends |-> [writer[b] EXCEPT
       !["result"] = Recording(ResultEntries(b))]]
  /\ UNCHANGED <<probed, worker, ran, notes, log, outcome, faults>>

Report ==
  /\ stage = "recording"
  /\ AllDone("result")
  /\ stage' = "ended"
  /\ outcome' = IF \A b \in Backends : worker[b] = "completed"
                THEN "completed" ELSE "failed"
  /\ UNCHANGED <<probed, worker, ran, notes, log, writer, faults>>

ResultNotRecorded ==
  /\ stage = "recording"
  /\ OneRejected("result")
  /\ Fail
  /\ UNCHANGED <<probed, worker, ran, notes, log, outcome, faults>>

(* Promise.allSettled over the failure records, then runTask throws. *)
Throw ==
  /\ stage = "failing"
  /\ \A b \in Backends : State(b, "failure") \in {"done", "rejected"}
  /\ stage' = "ended"
  /\ outcome' = "threw"
  /\ UNCHANGED <<probed, worker, ran, notes, log, writer, faults>>

-----------------------------------------------------------------------------
(* The application dies and its next start recovers every session.         *)

(* recover.ts: a path that ended or was interrupted is left alone, and so  *)
(* is one whose last entry carries a runtimeStatus recovery does not know: *)
(* the worker statuses are written in lower case.                          *)
Recovered(path) ==
  IF path = << >> THEN path
  ELSE IF Last(path) \in Ends \cup {"SESSION_INTERRUPTED", "queued",
                          "starting", "running", "completed", "failed"}
       THEN path
       ELSE Append(path, "SESSION_INTERRUPTED")

Die ==
  /\ stage \notin {"idle", "restarted"}
  /\ faults < MaxFaults
  /\ faults' = faults + 1
  /\ stage' = "restarted"
  /\ writer' = [b \in Backends |-> [w \in Writers |-> Idle]]
  /\ log' = [b \in Backends |-> Recovered(log[b])]
  /\ outcome' = "none"
  /\ UNCHANGED <<probed, worker, ran, notes>>

Write(b, w) == Read(b, w) \/ Commit(b, w) \/ Refused(b, w)

Next ==
  \/ Start \/ ProbesAnswer \/ SessionsCreated \/ SessionNotCreated \/ Admit
  \/ \E b \in Backends : Launch(b) \/ Answer(b)
  \/ Reconcile \/ Report \/ ResultNotRecorded \/ Throw \/ Die
  \/ \E b \in Backends, w \in Writers : Write(b, w) \/ DatabaseFails(b, w)

(* runTask and the recorders run as long as the application does, and the  *)
(* processes answer: control_plane_process.rs bounds each by a timeout.    *)
Fairness ==
  /\ WF_vars(Start \/ ProbesAnswer \/ SessionsCreated \/ SessionNotCreated
               \/ Admit \/ Reconcile \/ Report \/ ResultNotRecorded \/ Throw)
  /\ \A b \in Backends : WF_vars(Launch(b) \/ Answer(b))
  /\ \A b \in Backends, w \in Writers : WF_vars(Write(b, w))

Spec == Init /\ [][Next]_vars /\ Fairness

-----------------------------------------------------------------------------
TypeOK ==
  /\ stage \in Stages
  /\ probed \in [Backends -> Tiers]
  /\ \A b \in Backends :
       /\ worker[b] \in {"none", "running", "completed", "failed"}
       /\ ran[b] \in Tiers \cup {"none"}
       /\ notes[b] \in 0..MaxNotes
  /\ outcome \in {"none", "completed", "failed", "threw"}
  /\ faults \in 0..MaxFaults

(* A process of a backend that must be governed is started only on a probe *)
(* that found it governed, and no process starts before both sessions and  *)
(* both admissions are durable facts, however the probes change.           *)
GovernedWorkersAreGoverned ==
  \A b \in Backends :
    ran[b] # "none" =>
      /\ \A c \in Backends : Len(log[c]) >= 2
      /\ \A c \in Governed : probed[c] = "GOVERNED"
      /\ b \in Governed => ran[b] = "GOVERNED"

(* A session that says completed holds the worker's whole evidence: every  *)
(* lifecycle entry and every note, behind the creation, before the end.    *)
CompletedSessionsAreWhole ==
  \A b \in Backends :
    HasEnded(log[b]) /\ Last(log[b]) = "SESSION_COMPLETED" =>
      log[b] = <<"SESSION_CREATED", "queued", "starting", "running",
                 "completed">> \o [i \in 1..notes[b] |-> "note"]
               \o <<"SESSION_COMPLETED">>

(* The result runTask returns is what the sessions durably say. *)
ReportedResultsAreDurable ==
  outcome \in {"completed", "failed"} =>
    \A b \in Backends :
      /\ HasEnded(log[b])
      /\ (Last(log[b]) = "SESSION_COMPLETED") <=> (worker[b] = "completed")

(* No step, of any writer or of a recovery, adds to a session that ended. *)
EndedSessionsStay == \A b \in Backends : HasEnded(log[b]) => log'[b] = log[b]

(* Unless the database failed or the application died, runTask ends, and   *)
(* every session that was created ends with it.                            *)
Quiet ==
  \/ faults > 0
  \/ /\ stage = "ended"
     /\ \A b \in Backends : log[b] # << >> => HasEnded(log[b])
=============================================================================
