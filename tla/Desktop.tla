------------------------------- MODULE Desktop -------------------------------
(***************************************************************************)
(* The flows a user drives in the desktop's window, each cut by many       *)
(* awaits: prompts and patches (DesktopRuntime), the export of a coding    *)
(* pack (CodingPackExport) and a review by two workers (ControlPlane).     *)
(* They share no state; one behaviour is of one of them.                   *)
(***************************************************************************)
EXTENDS Naturals

CONSTANTS None,
          Tasks, Providers, AgentCapable, Initially,    \* DesktopRuntime's
          Ops, Files, Purposes, FirstPurpose, Dests,    \* CodingPackExport's
          Backends, Governed,                           \* ControlPlane's
          TextLines, PackPaths, PathClass, PathFold, PackReads,  \* PatchText's, CodingPackSelection's
          MaxOpens, MaxUpsets, MaxEdits, MaxPreviews, MaxFlights, MaxNotes,
          MaxFaults, MaxTextLines, MaxTokens, MaxPayload, MaxCandidates,
          MaxPackFiles, MaxFileBytes, MaxPackBytes, MaxEligibleBytes   \* their bounds

ASSUME BoundsAreNat ==
  MaxNotes \in Nat /\ MaxFaults \in Nat /\ MaxPreviews \in Nat

ASSUME PurposesStart == FirstPurpose \in Purposes

ASSUME StartsConfigured == Initially \in Providers

ASSUME TextsAreBounded ==
  MaxTextLines \in Nat /\ MaxTokens \in Nat /\ MaxPayload \in Nat

ASSUME PathsAreRanked == PackPaths \subseteq Nat

ASSUME ReadsHaveSizes == PackReads \subseteq [size : Nat, utf8 : BOOLEAN]

ASSUME PackLimitsAreNat ==
  MaxCandidates \in Nat /\ MaxPackFiles \in Nat /\ MaxFileBytes \in Nat
  /\ MaxPackBytes \in Nat

(* None is neither a task nor the origin of a proposal. *)
ASSUME NoneIsNoTask == None \notin Tasks /\ None \notin {"agent", "single_turn"}

VARIABLES
  part,    \* which of them this behaviour is of
  sending, loop, refs, ui, config, built, opening, ledger, disk, spent,
  sources, project, screen, awaiting, digesting, flight, store, expired, bundle,
  consented, made, edits, upsets, crashes,
  stage, probed, worker, ran, notes, sessions, writer, outcome, faults,
  response, payload, before, after,
  candidates, readPlan

Window == INSTANCE DesktopRuntime

Export == INSTANCE CodingPackExport WITH disk <- sources, opening <- awaiting

Control == INSTANCE ControlPlane WITH log <- sessions

Text == INSTANCE PatchText WITH
  Lines <- TextLines, MaxLines <- MaxTextLines, Candidates <- MaxPayload,
  old <- before, new <- after

Selected == INSTANCE CodingPackSelection WITH
  Paths <- PackPaths, Class <- PathClass, Fold <- PathFold, Reads <- PackReads,
  MaxFiles <- MaxPackFiles, MaxTotalBytes <- MaxPackBytes, plan <- readPlan

ASSUME PathsHaveClasses == PathClass \in [PackPaths -> Selected!Classes]

(* None is no record of the store of operations. *)
ASSUME NoneIsNoRecord ==
  None \notin [state : Export!States, pack : Export!Packs, dest : Dests, born : Nat]

windowVars ==
  <<sending, loop, refs, ui, config, built, opening, ledger, disk, spent>>
exportVars ==
  <<sources, project, screen, awaiting, digesting, flight, store,
   expired, bundle, consented, made, edits, upsets, crashes>>
controlVars ==
  <<stage, probed, worker, ran, notes, sessions, writer, outcome, faults>>

textVars == <<response, payload, before, after>>
selectionVars == <<candidates, readPlan>>

vars == <<part, windowVars, exportVars, controlVars, textVars, selectionVars>>

-----------------------------------------------------------------------------
(* A part that is not the behaviour's has no state. *)

NoWindow ==
  /\ sending = 0 /\ loop = 0 /\ refs = 0 /\ ui = 0 /\ config = 0
  /\ built = 0 /\ opening = 0 /\ ledger = 0 /\ disk = 0 /\ spent = 0
NoExport ==
  /\ sources = 0 /\ project = 0 /\ screen = 0 /\ awaiting = 0
  /\ digesting = 0 /\ flight = 0 /\ store = 0 /\ expired = 0 /\ bundle = 0
  /\ consented = 0 /\ made = 0 /\ edits = 0 /\ upsets = 0 /\ crashes = 0
NoControl ==
  /\ stage = 0 /\ probed = 0 /\ worker = 0 /\ ran = 0 /\ notes = 0
  /\ sessions = 0 /\ writer = 0 /\ outcome = 0 /\ faults = 0

NoText == response = 0 /\ payload = 0 /\ before = 0 /\ after = 0
NoSelection == candidates = 0 /\ readPlan = 0

Init ==
  \/ part = "window" /\ Window!Init /\ NoExport /\ NoControl /\ NoText /\ NoSelection
  \/ part = "export" /\ Export!Init /\ NoWindow /\ NoControl /\ NoText /\ NoSelection
  \/ part = "control" /\ Control!Init /\ NoWindow /\ NoExport /\ NoText /\ NoSelection
  \/ part = "text" /\ Text!Init /\ NoWindow /\ NoExport /\ NoControl /\ NoSelection
  \/ part = "selection" /\ Selected!Init /\ NoWindow /\ NoExport /\ NoControl /\ NoText

WindowStep ==
  /\ part = "window" /\ Window!Next
  /\ UNCHANGED <<part, exportVars, controlVars, textVars, selectionVars>>

ExportStep ==
  /\ part = "export" /\ Export!Next
  /\ UNCHANGED <<part, windowVars, controlVars, textVars, selectionVars>>

ControlStep ==
  /\ part = "control" /\ Control!Next
  /\ UNCHANGED <<part, windowVars, exportVars, textVars, selectionVars>>

TextStep ==
  /\ part = "text" /\ Text!Next
  /\ UNCHANGED <<part, windowVars, exportVars, controlVars, selectionVars>>

SelectionStep ==
  /\ part = "selection" /\ Selected!Next
  /\ UNCHANGED <<part, windowVars, exportVars, controlVars, textVars>>

Next == WindowStep \/ ExportStep \/ ControlStep \/ TextStep \/ SelectionStep

Spec == Init /\ [][Next]_vars

-----------------------------------------------------------------------------
(* Properties. *)

(* Every patch that is on disk was applied by the task and for the session *)
(* that say so; DesktopRuntime's property says how.                        *)
PatchesAreAccounted ==
  part = "window" => Window!TypeOK /\ Window!PatchesAreAccounted

(* What is on disk was agreed to, the record of its export is true, and    *)
(* the panel does not deny it.                                             *)
ExportsAreHonest ==
  part = "export" =>
    /\ Export!TypeOK /\ Export!ConsentBehindExport
    /\ Export!SettlementIsTrue /\ Export!FilesAreAdmitted

(* Governed workers run governed, and what is said of a worker is durably  *)
(* so.                                                                     *)
WorkersAreGoverned ==
  part = "control" =>
    /\ Control!TypeOK /\ Control!GovernedWorkersAreGoverned
    /\ Control!CompletedSessionsAreWhole /\ Control!ReportedResultsAreDurable

(* Proposals are what they look like, to the reader of a timeline, the     *)
(* validator and whoever decides on the diff; PatchText's properties say   *)
(* how.                                                                    *)
ProposalsReadTrue ==
  part = "text" =>
    /\ Text!TypeOK /\ Text!PayloadIsHidden /\ Text!ParsedProposalsValidate
    /\ Text!DiffAccountsForEveryLine /\ Text!SerializedReadsBack

(* One project gives one pack, which verifies, and no plan widens it.      *)
SelectionsAreFaithful ==
  part = "selection" =>
    /\ Selected!SelectionIgnoresOrder /\ Selected!SelectionsVerify
    /\ Selected!PlansCannotWiden

(* No step, of any writer or of a recovery, adds to a worker's session     *)
(* that ended.                                                             *)
EndedSessionsStay == [][part = "control" => Control!EndedSessionsStay]_vars

(* An export is a side effect like any other: authorised before it runs,   *)
(* run at most once, never after a restart, and settled or uncertain.      *)
Promise == INSTANCE SideEffect WITH
  Effects <- Ops,
  effect <- [o \in Ops |-> IF part = "export" THEN Export!Phase(o) ELSE "none"]

KeepsPromise == Promise!Spec
=============================================================================
