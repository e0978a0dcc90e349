--------------------------- MODULE DesktopRuntime ---------------------------
(***************************************************************************)
(* The hook that owns the desktop's agent (apps/desktop/src/hooks/         *)
(* useRuntime.ts): what the window shows of a task, and the refs through   *)
(* which its buttons reach the loop, the session recorder and the diff     *)
(* engine of the opened project.                                           *)
(*                                                                         *)
(* sendPrompt is a chain of awaits; opening a project is another; a change *)
(* of the provider's configuration clears the refs from an effect.  The    *)
(* window disables the prompt only when a task is shown or running, which  *)
(* is not so while sendPrompt builds the context and creates the session.  *)
(*                                                                         *)
(* AgentLoop, SessionLedger and PatchEngine describe what lies behind the  *)
(* refs.  Here a loop is its status, one patch proposal per task is enough,*)
(* a session is the evidence of patches recorded in it, and what is on the *)
(* disk is the patches applied.  The Coding pack half of the hook is       *)
(* CodingPackExport.                                                       *)
(***************************************************************************)
EXTENDS Naturals

CONSTANTS Tasks,        \* prompts, numbered as they are sent, and their tasks
          Providers,    \* provider configurations
          AgentCapable, \* those that support the tool loop
          Initially,    \* the configuration the window starts with
          None,
          MaxOpens,     \* directories picked
          MaxUpsets     \* configuration changes and failing records

Terminal == {"Done", "Failed", "Cancelled"}
Waiting == {"WaitingForPatchApproval", "WaitingForCommandApproval"}
Statuses ==
  Terminal \cup Waiting
    \cup {"none", "Planning", "Approving", "ApplyingPatch", "RunningCommand"}

VARIABLES sending,   \* task -> where its sendPrompt is, and what it captured
          loop,      \* task -> its AgentLoopRuntime
          refs,      \* projectRef, agentLoopRef, recorder, subscription
          ui,        \* the React state the buttons look at
          config,    \* the provider configured now
          built,     \* the provider the single-turn runtime was built with
          opening,   \* how many projects were picked, how many are being opened
          ledger,    \* task -> evidence recorded in its session
          disk,      \* the patches applied, and by whom
          spent      \* upsets so far, and the recorders that lost an entry

vars ==
  <<sending, loop, refs, ui, config, built, opening, ledger, disk, spent>>

BlankUi == [task |-> None, status |-> "none", running |-> FALSE,
            proposal |-> None, origin |-> None, current |-> None]

NoRefs == [project |-> FALSE, loop |-> None, recorder |-> None,
           subscribed |-> None]

Init ==
  /\ sending = [t \in Tasks |->
                  [at |-> "unsent", provider |-> None, runtime |-> None]]
  /\ loop = [t \in Tasks |->
               [status |-> "none", stopped |-> FALSE]]
  /\ refs = NoRefs
  /\ ui = BlankUi
  /\ config = Initially
  /\ built = Initially
  /\ opening = [picked |-> 0, pending |-> 0]
  /\ ledger = [t \in Tasks |-> {}]
  /\ disk = {}
  /\ spent = [upsets |-> 0, lost |-> {}]

-----------------------------------------------------------------------------
(* syncAgentTask *)

(* The window's view behind a snapshot of task t: a waiting proposal is    *)
(* shown, one of the same task that waits no longer is discarded.          *)
Synced(t, status) ==
  LET applied == <<t, "loop">> \in disk
      shown == [ui EXCEPT !.task = t, !.status = status,
                          !.running = status \notin Terminal,
                          !.current = IF applied THEN t ELSE None]
  IN IF status = "WaitingForPatchApproval"
     THEN [shown EXCEPT !.proposal = t, !.origin = "agent"]
     ELSE IF ui.origin = "agent" /\ ui.proposal = t
     THEN [shown EXCEPT !.proposal = None, !.origin = None]
     ELSE shown

(* recordTask writes into the session of the recorder in the ref, whoever  *)
(* the task is, and in the background: what the database or the projector, *)
(* which admits one pending proposal, refuses is lost until a flush tells. *)
Admits(r) == \A s \in Tasks : <<"proposed", s>> \notin ledger[r]

Recorded(t, r) ==
  \/ /\ Admits(r)
     /\ ledger' = [ledger EXCEPT ![r] = @ \cup {<<"proposed", t>>}]
     /\ UNCHANGED spent
  \/ /\ Admits(r) => spent.upsets < MaxUpsets
     /\ spent' = [spent EXCEPT !.upsets = IF Admits(r) THEN @ + 1 ELSE @,
                               !.lost = @ \cup {r}]
     /\ UNCHANGED ledger

Sync(t, status) ==
  /\ ui' = Synced(t, status)
  /\ IF refs.recorder # None /\ status = "WaitingForPatchApproval"
     THEN Recorded(t, refs.recorder)
     ELSE UNCHANGED <<ledger, spent>>

-----------------------------------------------------------------------------
(* sendPrompt *)

(* PromptBar and AppShell: taskActive. *)
TaskActive == ui.running \/ (ui.task # None /\ ui.status \notin Terminal)

At(t, place) == sending[t].at = place
Moved(t, place) == [sending EXCEPT ![t].at = place]

(* The callbacks of the render it was sent from stay with the prompt. *)
SendPrompt(t) ==
  /\ At(t, "unsent")
  /\ \A s \in Tasks : At(s, "unsent") => t <= s
  /\ ~TaskActive
  /\ sending' = [sending EXCEPT ![t] =
       [at |-> "context", provider |-> config, runtime |-> built]]
  /\ ui' = [BlankUi EXCEPT !.running = ui.running]
  /\ UNCHANGED <<loop, refs, config, built, opening, ledger, disk, spent>>

ContextBuilt(t) ==
  /\ At(t, "context")
  /\ IF refs.project /\ sending[t].provider \in AgentCapable
     THEN sending' = Moved(t, "session")
     ELSE sending' = Moved(t, "single")
  /\ UNCHANGED <<loop, refs, ui, config, built, opening, ledger, disk, spent>>

SessionCreated(t) ==
  /\ At(t, "session")
  /\ sending' = Moved(t, "recording")
  /\ refs' = [refs EXCEPT !.recorder = t]
  /\ UNCHANGED <<loop, ui, config, built, opening, ledger, disk, spent>>

Fault ==
  /\ spent.upsets < MaxUpsets
  /\ spent' = [spent EXCEPT !.upsets = @ + 1]

(* The session or its first message cannot be written: sendPrompt throws. *)
SendFails(t) ==
  /\ sending[t].at \in {"session", "recording"}
  /\ Fault
  /\ sending' = Moved(t, "returned")
  /\ UNCHANGED <<loop, refs, ui, config, built, opening, ledger, disk>>

LoopStarts(t) ==
  /\ At(t, "recording")
  /\ refs' = [refs EXCEPT !.loop = t, !.subscribed = t]
  /\ loop' = [loop EXCEPT ![t].status = "Planning"]
  /\ sending' = Moved(t, "running")
  /\ ui' = Synced(t, "Planning")
  /\ UNCHANGED <<config, built, opening, ledger, disk, spent>>

(* A task that stops to wait or ends: loop.start returns to the sendPrompt *)
(* that awaits it, which shows the task whether or not it is subscribed.   *)
Stops(t, status) ==
  /\ loop' = [loop EXCEPT ![t].status = status]
  /\ IF At(t, "running")
     THEN Sync(t, status) /\ sending' = Moved(t, "flushing")
     ELSE /\ UNCHANGED sending
          /\ IF refs.subscribed = t THEN Sync(t, status)
                                    ELSE UNCHANGED <<ui, ledger, spent>>

Works(t) ==
  /\ loop[t].status = "Planning"
  /\ \E status \in {"Done", "Failed", "WaitingForCommandApproval"} \cup
                   (IF <<t, "loop">> \in disk
                    THEN {} ELSE {"WaitingForPatchApproval"}) :
       Stops(t, status)
  /\ UNCHANGED <<refs, config, built, opening, disk>>

Flushed(t) ==
  /\ At(t, "flushing")
  /\ t \notin spent.lost
  /\ sending' = Moved(t, "returned")
  /\ UNCHANGED <<loop, refs, ui, config, built, opening, ledger, disk, spent>>

(* "No approval action was made available."  The loop itself waits on. *)
FlushFails(t) ==
  /\ At(t, "flushing")
  /\ t \in spent.lost
  /\ sending' = Moved(t, "returned")
  /\ refs' = [NoRefs EXCEPT !.project = refs.project]
  /\ ui' = [ui EXCEPT !.task = None, !.status = "none", !.running = FALSE]
  /\ UNCHANGED <<loop, config, built, opening, ledger, disk, spent>>

(* The single-turn fallback; its proposal is shown when the project's      *)
(* selected files validate it.                                             *)
SingleTurnStarts(t) ==
  /\ At(t, "single")
  /\ sending' = Moved(t, "streaming")
  /\ ui' = [ui EXCEPT !.running = TRUE]
  /\ UNCHANGED <<loop, refs, config, built, opening, ledger, disk, spent>>

SingleTurnEnds(t) ==
  /\ At(t, "streaming")
  /\ sending' = Moved(t, "returned")
  /\ \/ ui' = [ui EXCEPT !.running = FALSE]
     \/ /\ refs.project
        /\ ui' = [ui EXCEPT !.running = FALSE, !.proposal = t,
                            !.origin = "single_turn"]
  /\ UNCHANGED <<loop, refs, config, built, opening, ledger, disk, spent>>

-----------------------------------------------------------------------------
(* The buttons. *)

(* Mutant: a proposal its task no longer waits for is applied directly. *)
RouteFallsBack ==
  IF ui.proposal = None THEN None
  ELSE IF ui.origin = "agent" /\ ui.task = ui.proposal
          /\ ui.status = "WaitingForPatchApproval"
  THEN "agent" ELSE "single_turn"

(* resolveProposalActionRoute *)
Route ==
  IF ui.proposal = None THEN None
  ELSE IF ui.origin = "single_turn" THEN "single_turn"
  ELSE IF ui.task = ui.proposal /\ ui.status = "WaitingForPatchApproval"
  THEN "agent" ELSE None

(* The loop in the ref knows its own task only: it throws for another one. *)
ApprovePatch ==
  /\ Route = "agent"
  /\ refs.loop = ui.proposal
  /\ loop[ui.proposal].status = "WaitingForPatchApproval"
  /\ loop' = [loop EXCEPT ![ui.proposal].status = "Approving"]
  /\ UNCHANGED <<sending, refs, ui, config, built, opening, ledger, disk,
                 spent>>

ApplySingleTurn ==
  /\ Route = "single_turn"
  /\ refs.project
  /\ \/ /\ disk' = disk \cup {<<ui.proposal, "hook">>}
        /\ ui' = [ui EXCEPT !.proposal = None, !.origin = None,
                            !.current = ui.proposal]
     \/ UNCHANGED <<disk, ui>>
  /\ UNCHANGED <<sending, loop, refs, config, built, opening, ledger, spent>>

DiscardStale ==
  /\ ui.proposal # None
  /\ Route = None
  /\ ui' = [ui EXCEPT !.proposal = None, !.origin = None]
  /\ UNCHANGED <<sending, loop, refs, config, built, opening, ledger, disk,
                 spent>>

RejectProposal ==
  \/ /\ Route = "agent"
     /\ refs.loop = ui.proposal
     /\ loop[ui.proposal].status = "WaitingForPatchApproval"
     /\ Stops(ui.proposal, "Planning")
     /\ UNCHANGED <<refs, config, built, opening, disk>>
  \/ /\ Route = "single_turn"
     /\ ui' = [ui EXCEPT !.proposal = None, !.origin = None]
     /\ UNCHANGED <<sending, loop, refs, config, built, opening, ledger, disk,
                    spent>>

(* approveCommand and denyCommand; the command itself is CommandGate's. *)
DecideCommand ==
  /\ ui.status = "WaitingForCommandApproval"
  /\ refs.loop = ui.task
  /\ loop[ui.task].status = "WaitingForCommandApproval"
  /\ Stops(ui.task, "Planning")
  /\ UNCHANGED <<refs, config, built, opening, disk>>

(* stopTask; a task that applies a patch is cancelled when it has settled. *)
StopTask ==
  /\ ui.task # None /\ ui.status \notin Terminal
  /\ refs.loop = ui.task
  /\ ~loop[ui.task].stopped
  /\ IF loop[ui.task].status \in Waiting \cup {"Planning"}
     THEN Stops(ui.task, "Cancelled")
     ELSE /\ loop[ui.task].status \in {"Approving", "ApplyingPatch"}
          /\ loop' = [loop EXCEPT ![ui.task].stopped = TRUE]
          /\ UNCHANGED <<sending, ui, ledger, spent>>
  /\ UNCHANGED <<refs, config, built, opening, disk>>

(* rollbackProposal and rollbackAllPatches: the loop's patches through the *)
(* loop, once its task ended, the hook's own through the engine.           *)
Rollback ==
  /\ ui.current # None
  /\ refs.project
  /\ LET by == IF refs.loop # None /\ ui.task = ui.current
               THEN "loop" ELSE "hook"
     IN /\ by = "loop" => refs.loop = ui.task /\ loop[ui.task].status \in Terminal
        /\ <<ui.current, by>> \in disk
        /\ disk' = disk \ {<<ui.current, by>>}
  /\ ui' = [ui EXCEPT !.current = None]
  /\ UNCHANGED <<sending, loop, refs, config, built, opening, ledger, spent>>

-----------------------------------------------------------------------------
(* Behind an approval: the evidence, then the engine in the ref. *)

(* beforePatchApply records through the loop's own recorder; the projector *)
(* refuses a start without the proposal it starts.                         *)
Evidence(t) == <<"proposed", t>> \in ledger[t]

EvidenceStored(t) ==
  /\ loop[t].status = "Approving"
  /\ IF ~Evidence(t)
     THEN Stops(t, IF loop[t].stopped THEN "Cancelled" ELSE "Failed")
     ELSE /\ loop' = [loop EXCEPT ![t].status =
                        IF loop[t].stopped THEN "Cancelled"
                        ELSE "ApplyingPatch"]
          /\ ledger' = [ledger EXCEPT ![t] = @ \cup {<<"started", t>>}]
          /\ ui' = IF refs.subscribed = t
                   THEN Synced(t, loop'[t].status) ELSE ui
          /\ UNCHANGED <<sending, spent>>
  /\ UNCHANGED <<refs, config, built, opening, disk>>

(* createPatchAdapter applies through diffRef.current: the engine of the   *)
(* project opened last.  It refuses a file whose text is not the text the  *)
(* patch was made from; another project may hold the same text.            *)
PatchApplied(t) ==
  /\ loop[t].status = "ApplyingPatch"
  /\ \/ disk' = disk \cup {<<t, "loop">>}
     \/ UNCHANGED disk
  /\ LET status == IF loop[t].stopped THEN "Cancelled" ELSE "Planning"
     IN /\ loop' = [loop EXCEPT ![t].status = status]
        /\ ui' = IF refs.subscribed = t THEN Synced(t, status) ELSE ui
  /\ UNCHANGED <<sending, refs, config, built, opening, ledger, spent>>

-----------------------------------------------------------------------------
(* Opening a project, changing the configuration. *)

(* The button is there while no project is shown. *)
OpenProject ==
  /\ ~refs.project
  /\ opening.picked < MaxOpens
  /\ opening' = [picked |-> opening.picked + 1,
                 pending |-> opening.pending + 1]
  /\ UNCHANGED <<sending, loop, refs, ui, config, built, ledger, disk, spent>>

(* The rest of openProject runs whatever has started meanwhile. *)
ProjectOpened ==
  /\ opening.pending > 0
  /\ opening' = [opening EXCEPT !.pending = @ - 1]
  /\ refs' = [NoRefs EXCEPT !.project = TRUE]
  /\ ui' = [BlankUi EXCEPT !.running = ui.running]
  /\ UNCHANGED <<sending, loop, config, built, ledger, disk, spent>>

(* The effect on the configuration leaves a running task alone, and does   *)
(* not run again when the task has ended.                                  *)
ChangeProvider ==
  /\ spent.upsets < MaxUpsets
  /\ spent' = [spent EXCEPT !.upsets = @ + 1]
  /\ config' \in Providers \ {config}
  /\ IF ui.running
     THEN UNCHANGED <<built, refs, ui>>
     ELSE /\ built' = config'
          /\ refs' = [NoRefs EXCEPT !.project = refs.project]
          /\ ui' = [ui EXCEPT !.task = None, !.status = "none",
                      !.proposal = IF ui.origin = "agent" THEN None ELSE @,
                      !.origin = IF ui.origin = "agent" THEN None ELSE @]
  /\ UNCHANGED <<sending, loop, opening, ledger, disk>>

Next ==
  \/ \E t \in Tasks :
       \/ SendPrompt(t) \/ ContextBuilt(t) \/ SessionCreated(t)
       \/ SendFails(t) \/ LoopStarts(t) \/ Works(t) \/ Flushed(t)
       \/ FlushFails(t) \/ SingleTurnStarts(t) \/ SingleTurnEnds(t)
       \/ EvidenceStored(t) \/ PatchApplied(t)
  \/ ApprovePatch \/ ApplySingleTurn \/ DiscardStale \/ RejectProposal
  \/ DecideCommand \/ StopTask \/ Rollback \/ ChangeProvider
  \/ OpenProject \/ ProjectOpened

Spec == Init /\ [][Next]_vars

-----------------------------------------------------------------------------
Views ==
  [task : Tasks \cup {None}, status : Statuses, running : BOOLEAN,
   proposal : Tasks \cup {None}, origin : {None, "agent", "single_turn"},
   current : Tasks \cup {None}]

TypeOK ==
  /\ \A t \in Tasks :
       /\ sending[t].at \in {"unsent", "context", "session", "recording",
                             "running", "flushing", "single", "streaming",
                             "returned"}
       /\ loop[t].status \in Statuses
       /\ ledger[t] \subseteq ({"proposed", "started"} \X Tasks)
  /\ refs.project \in BOOLEAN
  /\ {refs.loop, refs.recorder, refs.subscribed} \subseteq Tasks \cup {None}
  /\ ui \in Views
  /\ ui.proposal = None <=> ui.origin = None
  /\ opening.pending \in 0..opening.picked

(* However prompts, openings and configuration changes overlap, a patch of *)
(* an agent's task reaches a disk only through its loop, behind evidence   *)
(* of its proposal and its start in the session of that very task; what    *)
(* the hook applies itself is never a patch of an agent's task.            *)
PatchesAreAccounted ==
  \A t \in Tasks :
    /\ <<t, "loop">> \in disk =>
         {<<"proposed", t>>, <<"started", t>>} \subseteq ledger[t]
    /\ <<t, "hook">> \in disk => loop[t].status = "none"

(* BETA0_PROVIDER_PRODUCTION_REVIEW.md: "Provider switched | Next task     *)
(* uses new provider".  A prompt that is sent runs on the provider         *)
(* configured when it was sent.                                            *)
NextTaskUsesNewProvider ==
  \A t \in Tasks :
    At(t, "streaming") => sending[t].runtime = sending[t].provider
=============================================================================
