-------------------------- MODULE CodingPackExport --------------------------
(***************************************************************************)
(* A Coding Pack from the selected files to the bundle on disk, as the     *)
(* desktop drives it: the hook (useRuntime.ts) whose operations capture    *)
(* what is on the screen, await, and land on whatever is on the screen by  *)
(* then; the panel's buttons; the durable operations; and the native       *)
(* export (lib.rs), which starts, writes and records in turn and may fail  *)
(* or stop between any two of these.                                       *)
(*                                                                         *)
(* A digest is the value it is a digest of.  How the record of one         *)
(* operation survives clocks and competing writers is CodingPackStore's.   *)
(***************************************************************************)
EXTENDS Integers, FiniteSets

CONSTANTS None, Ops, Files, Purposes, Dests,
          FirstPurpose,  \* codingPackPurposeRef's first value
          MaxEdits,      \* bound: projects opened, files toggled, purposes set
          MaxPreviews,   \* bound: manifests generated
          MaxFlights,    \* bound: operations of the hook under way at once
          MaxUpsets      \* bound: changes of the sources, expiries, failures of
                         \* the disk or the store, and restarts, in all

VARIABLES
  disk,       \* the version of the sources
  project,    \* the hook's refs: generation, selected paths, purpose
  screen,     \* the hook's state, as the panel shows it
  opening,    \* openProject awaits its digest
  digesting,  \* the selection whose digest the latest toggle awaits, or None
  flight,     \* operations of the hook under way, with what they captured
  store,      \* the durable operations
  expired,    \* those past their expiry
  bundle,     \* the bundles on disk
  consented,  \* history: the previews the user confirmed
  made, edits, upsets,
  crashes     \* history: restarts

world == <<disk, expired, bundle, upsets, crashes>>
vars == <<project, screen, opening, digesting, flight, store, consented, made,
          edits, world>>

PreStart == {"proposed", "confirmed", "decided_allow"}

BlankScreen ==
  [digest |-> {}, preview |-> None, confirmation |-> None, dest |-> None,
   shown |-> None, previewing |-> FALSE, exporting |-> FALSE,
   failed |-> FALSE]

NewProject(gen, purpose) == [gen |-> gen, selected |-> {}, purpose |-> purpose]

(* A preview: what was selected, what was read, and its manifest's own     *)
(* number (generatedAt is part of the manifest's digest).                  *)
Pack(content, number) ==
  [gen |-> project.gen, selected |-> project.selected,
   purpose |-> project.purpose, content |-> content, number |-> number]

Flight(kind, pc) ==
  [kind |-> kind, pc |-> pc, pack |-> screen.preview,
   confirmation |-> screen.confirmation, dest |-> screen.dest,
   op |-> IF screen.shown = None THEN None ELSE screen.shown.op,
   read |-> None]

Departs(f) == Cardinality(flight) < MaxFlights /\ flight' = flight \cup {f}

Goes(f, pc) == flight' = (flight \ {f}) \cup {[f EXCEPT !.pc = pc]}

Arrives(f) == flight' = flight \ {f}

Upset == upsets < MaxUpsets /\ upsets' = upsets + 1

(* What a changed selection, purpose or preview takes off the screen.      *)
Cleared == [screen EXCEPT !.confirmation = None, !.shown = None,
                          !.failed = FALSE]

Stale ==
  \/ screen.preview.gen # project.gen
  \/ screen.preview.selected # screen.digest
  \/ screen.preview.purpose # project.purpose

IsConfirmed ==
  screen.preview # None /\ screen.confirmation # None /\ ~Stale

Shows(state) ==
  /\ screen.preview # None /\ screen.shown # None
  /\ screen.shown.state = state

-----------------------------------------------------------------------------
(* The project, its selected files and the purpose.                        *)

Edit == edits < MaxEdits /\ edits' = edits + 1

OpenProject ==
  /\ Edit /\ ~opening
  /\ project' = NewProject(project.gen + 1, project.purpose)
  /\ opening' = TRUE
  /\ digesting' = None
  /\ UNCHANGED <<screen, flight, store, consented, made, world>>

(* Both loading flags fall, whatever is under way. *)
ProjectOpened ==
  /\ opening
  /\ opening' = FALSE
  /\ screen' = BlankScreen
  /\ UNCHANGED <<project, digesting, flight, store, consented, made, edits,
                 world>>

ToggleFile(file) ==
  /\ Edit
  /\ LET selected == IF file \in project.selected
                       THEN project.selected \ {file}
                       ELSE project.selected \cup {file}
     IN /\ project' = [project EXCEPT !.selected = selected]
        /\ digesting' = selected
  /\ screen' = [Cleared EXCEPT !.digest = None]
  /\ UNCHANGED <<opening, flight, store, consented, made, world>>

DigestLands ==
  /\ digesting # None
  /\ screen' = [screen EXCEPT !.digest = digesting]
  /\ digesting' = None
  /\ UNCHANGED <<project, opening, flight, store, consented, made, edits, world>>

SetPurpose(purpose) ==
  /\ Edit /\ purpose # project.purpose /\ ~screen.previewing
  /\ project' = [project EXCEPT !.purpose = purpose]
  /\ screen' = Cleared
  /\ UNCHANGED <<opening, digesting, flight, store, consented, made, world>>

-----------------------------------------------------------------------------
(* The preview and its confirmation.                                       *)

RefreshPreview ==
  /\ ~screen.previewing /\ project.selected # {} /\ made < MaxPreviews
  /\ Departs([Flight("preview", "read") EXCEPT !.pack = Pack(0, 0)])
  /\ screen' = [Cleared EXCEPT !.previewing = TRUE, !.preview = None]
  /\ UNCHANGED <<project, opening, digesting, store, consented, made, edits,
                 world>>

IsCurrent(f) == f.pack = Pack(0, 0)

PreviewLands(f) ==
  /\ f.kind = "preview"
  /\ made < MaxPreviews
  /\ Arrives(f)
  /\ made' = made + 1
  /\ screen' = IF IsCurrent(f)
                 THEN [screen EXCEPT !.previewing = FALSE,
                                     !.digest = f.pack.selected,
                                     !.preview = Pack(disk, made')]
                 ELSE [screen EXCEPT !.previewing = FALSE]
  /\ UNCHANGED <<project, opening, digesting, store, consented, edits, world>>

PreviewFails(f) ==
  /\ f.kind = "preview"
  /\ Arrives(f)
  /\ screen' = [screen EXCEPT !.previewing = FALSE]
  /\ UNCHANGED <<project, opening, digesting, store, consented, made, edits,
                 world>>

ConfirmPreview ==
  /\ screen.preview # None /\ ~Stale /\ ~screen.previewing /\ ~IsConfirmed
  /\ Departs(Flight("confirm", "digest"))
  /\ consented' = consented \cup {screen.preview}
  /\ UNCHANGED <<project, screen, opening, digesting, store, made, edits, world>>

(* Whatever the screen shows by now: what was captured is what it checks.  *)
ConfirmationLands(f) ==
  /\ f.kind = "confirm"
  /\ Arrives(f)
  /\ screen' = [Cleared EXCEPT !.confirmation = f.pack]
  /\ UNCHANGED <<project, opening, digesting, store, consented, made, edits,
                 world>>

-----------------------------------------------------------------------------
(* The destination, the proposal, its approval and its decision.           *)

Starts(kind, pc) ==
  /\ ~screen.exporting
  /\ Departs(Flight(kind, pc))
  /\ screen' = [screen EXCEPT !.exporting = TRUE]
  /\ UNCHANGED <<project, opening, digesting, store, consented, made, edits,
                 world>>

Ends(f, s) ==
  /\ Arrives(f)
  /\ screen' = [s EXCEPT !.exporting = FALSE]

ChooseDestination == IsConfirmed /\ Starts("choose", "pick")

(* The user picks a directory, or none. *)
DestinationLands(f, d) ==
  /\ f.kind = "choose"
  /\ Ends(f, IF d = None \/ f.confirmation # f.pack THEN screen
             ELSE [screen EXCEPT !.dest = d, !.shown = None, !.failed = FALSE])
  /\ UNCHANGED <<project, opening, digesting, store, consented, made, edits,
                 world>>

CreateProposal ==
  /\ IsConfirmed /\ screen.dest # None /\ screen.shown = None
  /\ Starts("create", "write")

ApproveProposal == Shows("proposed") /\ Starts("approve", "write")

EvaluatePolicy ==
  Shows("confirmed") /\ screen.dest # None /\ Starts("evaluate", "write")

(* A store operation writes and is read back, or throws. *)
Records(f, op, state) ==
  /\ store' = [store EXCEPT ![op].state = state]
  /\ Goes(f, "land")
  /\ UNCHANGED <<project, screen, opening, digesting, consented, made, edits,
                 world>>

ProposalRecorded(f) ==
  /\ f.kind = "create" /\ f.pc = "write"
  /\ f.confirmation = f.pack
  /\ \E o \in Ops : store[o] = None
  /\ LET op == CHOOSE o \in Ops : store[o] = None
     IN /\ store' = [store EXCEPT ![op] =
                       [state |-> "proposed", pack |-> f.pack, dest |-> f.dest,
                        born |-> crashes]]
        /\ flight' = (flight \ {f}) \cup {[f EXCEPT !.pc = "land", !.op = op]}
  /\ UNCHANGED <<project, screen, opening, digesting, consented, made, edits,
                 world>>

ApprovalRecorded(f) ==
  /\ f.kind = "approve" /\ f.pc = "write"
  /\ store[f.op].state = "proposed" /\ f.op \notin expired
  /\ Records(f, f.op, "confirmed")

DecisionRecorded(f, verdict) ==
  /\ f.kind = "evaluate" /\ f.pc = "write"
  /\ store[f.op].state = "confirmed" /\ store[f.op].dest = f.dest
  /\ verdict # "decided_error" => f.op \notin expired
  /\ Records(f, f.op, verdict)

StoreRefuses(f) ==
  /\ f.kind \in {"create", "approve", "evaluate"} /\ f.pc = "write"
  /\ Ends(f, screen)
  /\ UNCHANGED <<project, opening, digesting, store, consented, made, edits,
                 world>>

(* The operation is read back, whatever became of the export. *)
Lands(f) ==
  /\ f.pc \in {"land", "result"}
  /\ Ends(f, [screen EXCEPT !.shown = [op |-> f.op,
                                       state |-> store[f.op].state]])
  /\ UNCHANGED <<project, opening, digesting, store, consented, made, edits,
                 world>>

ReadBackFails(f) ==
  /\ f.pc = "land"
  /\ Upset
  /\ Ends(f, screen)
  /\ UNCHANGED <<project, opening, digesting, store, consented, made, edits,
                 disk, expired, bundle, crashes>>

-----------------------------------------------------------------------------
(* The export.                                                             *)

HasAuthority ==
  LET op == screen.shown.op
  IN /\ screen.confirmation = screen.preview
     /\ store[op].pack = screen.preview
     /\ store[op].dest = screen.dest
     /\ op \notin expired
     /\ ~Stale

CanExport ==
  /\ Shows("decided_allow") /\ IsConfirmed /\ screen.dest # None
  /\ ~screen.exporting

Export ==
  /\ CanExport /\ HasAuthority
  /\ Departs(Flight("export", "begin"))
  /\ screen' = [screen EXCEPT !.exporting = TRUE, !.failed = FALSE]
  /\ UNCHANGED <<project, opening, digesting, store, consented, made, edits,
                 world>>

ExportRefused ==
  /\ CanExport /\ ~HasAuthority
  /\ screen' = [screen EXCEPT !.failed = TRUE]
  /\ UNCHANGED <<project, opening, digesting, flight, store, consented, made,
                 edits, world>>

TargetIsAbsent(f) == \A b \in bundle : b.dest # f.dest \/ b.pack # f.pack

(* The sources are read and compared with the manifest in the transaction  *)
(* that records the start.                                                 *)
MayBegin(f) ==
  /\ store[f.op].state = "decided_allow" /\ f.op \notin expired
  /\ store[f.op].pack = f.pack /\ store[f.op].dest = f.dest
  /\ f.pack.content = disk
  /\ TargetIsAbsent(f)

NativeBegins(f) ==
  /\ f.kind = "export" /\ f.pc = "begin"
  /\ MayBegin(f)
  /\ store' = [store EXCEPT ![f.op].state = "export_started"]
  /\ flight' = (flight \ {f}) \cup {[f EXCEPT !.pc = "promote", !.read = disk]}
  /\ UNCHANGED <<project, screen, opening, digesting, consented, made, edits,
                 world>>

(* The catch of the hook: the error is shown, then the operation is read.  *)
Caught(f) == Goes(f, "land") /\ screen' = [screen EXCEPT !.failed = TRUE]

NativeRefuses(f) ==
  /\ f.kind = "export" /\ f.pc = "begin"
  /\ Caught(f)
  /\ UNCHANGED <<project, opening, digesting, store, consented, made, edits,
                 world>>

Promotes(f) ==
  bundle' = bundle \cup {[op |-> f.op, dest |-> f.dest, pack |-> f.pack,
                          content |-> f.read, era |-> crashes]}

PromotedAndSynced(f) ==
  /\ f.pc = "promote"
  /\ Promotes(f)
  /\ Goes(f, "complete")
  /\ UNCHANGED <<project, screen, opening, digesting, store, consented, made,
                 edits, disk, expired, upsets, crashes>>

PrePromotionFailure(f) ==
  /\ f.pc = "promote"
  /\ Upset
  /\ Goes(f, "interrupt")
  /\ UNCHANGED <<project, screen, opening, digesting, store, consented, made,
                 edits, disk, expired, bundle, crashes>>

(* Mutant: an unsynced bundle is taken for one that was never promoted. *)
UncertainIsInterrupted(f) ==
  /\ f.pc = "promote"
  /\ Upset
  /\ Promotes(f)
  /\ Goes(f, "interrupt")
  /\ UNCHANGED <<project, screen, opening, digesting, store, consented, made,
                 edits, disk, expired, crashes>>

(* The bundle is in place but its directory could not be synced. *)
PromotedButUncertain(f) ==
  /\ f.pc = "promote"
  /\ Upset
  /\ Promotes(f)
  /\ Caught(f)
  /\ UNCHANGED <<project, opening, digesting, store, consented, made, edits,
                 disk, expired, crashes>>

CompletionRecorded(f) ==
  /\ f.pc = "complete"
  /\ store' = [store EXCEPT ![f.op].state = "export_completed"]
  /\ Goes(f, "result")
  /\ UNCHANGED <<project, screen, opening, digesting, consented, made, edits,
                 world>>

(* The export succeeded but cannot be read back: an error like any other.  *)
ResultUnread(f) ==
  /\ f.pc = "result"
  /\ Upset
  /\ Caught(f)
  /\ UNCHANGED <<project, opening, digesting, store, consented, made, edits,
                 disk, expired, bundle, crashes>>

InterruptionRecorded(f) ==
  /\ f.pc = "interrupt"
  /\ store' = [store EXCEPT ![f.op].state = "export_interrupted"]
  /\ Caught(f)
  /\ UNCHANGED <<project, opening, digesting, consented, made, edits, world>>

(* Mutant: an outcome that cannot be recorded gives the authority back. *)
OutcomeForgotten(f) ==
  /\ f.pc \in {"complete", "interrupt"}
  /\ Upset
  /\ store' = [store EXCEPT ![f.op].state = "decided_allow"]
  /\ Caught(f)
  /\ UNCHANGED <<project, opening, digesting, consented, made, edits, disk,
                 expired, bundle, crashes>>

(* Neither outcome could be recorded: the operation stays started. *)
OutcomeLost(f) ==
  /\ f.pc \in {"complete", "interrupt"}
  /\ Upset
  /\ Caught(f)
  /\ UNCHANGED <<project, opening, digesting, store, consented, made, edits,
                 disk, expired, bundle, crashes>>

-----------------------------------------------------------------------------
(* The world, and a restart: the record stays, the screen is forgotten.    *)

SourcesChange ==
  /\ Upset
  /\ disk' = disk + 1
  /\ UNCHANGED <<project, screen, opening, digesting, flight, store, consented,
                 made, edits, expired, bundle, crashes>>

Expires(op) ==
  /\ store[op] # None /\ op \notin expired
  /\ Upset
  /\ expired' = expired \cup {op}
  /\ UNCHANGED <<project, screen, opening, digesting, flight, store, consented,
                 made, edits, disk, bundle, crashes>>

(* The desktop stops and the project is opened again. *)
Restart ==
  /\ Upset
  /\ crashes' = crashes + 1
  /\ project' = NewProject(1, FirstPurpose)
  /\ screen' = BlankScreen
  /\ opening' = FALSE /\ digesting' = None /\ flight' = {}
  /\ UNCHANGED <<store, consented, made, edits, disk, expired, bundle>>

Init ==
  /\ disk = 0
  /\ project = NewProject(1, FirstPurpose)
  /\ screen = BlankScreen
  /\ opening = FALSE /\ digesting = None /\ flight = {}
  /\ store = [o \in Ops |-> None]
  /\ expired = {} /\ bundle = {} /\ consented = {}
  /\ made = 0 /\ edits = 0 /\ upsets = 0 /\ crashes = 0

Returns(f) ==
  \/ PreviewLands(f) \/ PreviewFails(f) \/ ConfirmationLands(f)
  \/ ProposalRecorded(f) \/ ApprovalRecorded(f)
  \/ \E verdict \in {"decided_allow", "decided_deny", "decided_error"} :
       DecisionRecorded(f, verdict)
  \/ StoreRefuses(f) \/ Lands(f) \/ ReadBackFails(f)
  \/ NativeBegins(f) \/ NativeRefuses(f)
  \/ PromotedAndSynced(f) \/ PrePromotionFailure(f) \/ PromotedButUncertain(f)
  \/ CompletionRecorded(f) \/ ResultUnread(f)
  \/ InterruptionRecorded(f) \/ OutcomeLost(f)

Next ==
  \/ OpenProject \/ ProjectOpened \/ DigestLands
  \/ \E file \in Files : ToggleFile(file)
  \/ \E purpose \in Purposes : SetPurpose(purpose)
  \/ RefreshPreview \/ ConfirmPreview
  \/ ChooseDestination \/ CreateProposal \/ ApproveProposal \/ EvaluatePolicy
  \/ Export \/ ExportRefused
  \/ \E f \in flight :
       Returns(f) \/ \E d \in Dests \cup {None} : DestinationLands(f, d)
  \/ SourcesChange \/ Restart
  \/ \E op \in Ops : Expires(op)

Spec == Init /\ [][Next]_vars

Kinds == {"preview", "confirm", "choose", "create", "approve", "evaluate",
          "export"}

-----------------------------------------------------------------------------
Packs ==
  [gen : Nat, selected : SUBSET Files, purpose : Purposes, content : Nat,
   number : 0..MaxPreviews]

States == PreStart \cup {"decided_deny", "decided_error", "export_started",
                         "export_completed", "export_interrupted"}

Screens ==
  [digest : (SUBSET Files) \cup {None}, preview : Packs \cup {None},
   confirmation : Packs \cup {None}, dest : Dests \cup {None},
   shown : [op : Ops, state : States] \cup {None},
   previewing : BOOLEAN, exporting : BOOLEAN, failed : BOOLEAN]

TypeOK ==
  /\ project \in [gen : Nat, selected : SUBSET Files, purpose : Purposes]
  /\ screen \in Screens
  /\ opening \in BOOLEAN /\ digesting \in (SUBSET Files) \cup {None}
  /\ \A f \in flight :
       /\ f.kind \in Kinds
       /\ f.pc \in {"read", "digest", "pick", "write", "land", "begin",
                    "promote", "complete", "interrupt", "result"}
       /\ f.pc \in {"land", "result", "promote", "complete", "interrupt"}
            => f.op \in Ops /\ store[f.op] # None
  /\ store \in [Ops -> [state : States, pack : Packs, dest : Dests,
                        born : Nat] \cup {None}]

(* What is on disk is what somebody agreed to: a preview the user          *)
(* confirmed, with the very bytes it was made from, at the destination of  *)
(* a proposal of the same run of the desktop.                              *)
ConsentBehindExport ==
  \A b \in bundle :
    /\ b.pack \in consented
    /\ b.content = b.pack.content
    /\ store[b.op].pack = b.pack /\ store[b.op].dest = b.dest
    /\ store[b.op].born = b.era

(* The record of an ended export is true: a completed one has its bundle,  *)
(* and one recorded as interrupted, or not started, has none.              *)
SettlementIsTrue ==
  \A o \in Ops : store[o] # None =>
    LET promoted == \E b \in bundle : b.op = o
    IN /\ store[o].state = "export_completed" => promoted
       /\ store[o].state \in PreStart \cup {"export_interrupted"} => ~promoted

(* The panel never says that no files were written of an operation whose   *)
(* bundle is on disk, unless it shows an error or the export is under way. *)
FilesAreAdmitted ==
  (screen.shown # None /\ ~screen.failed) =>
    LET o == screen.shown.op
    IN screen.shown.state \in PreStart \cup {"export_interrupted"} =>
         \/ \E f \in flight : f.kind = "export" /\ f.op = o
         \/ \A b \in bundle : b.op # o

Running(o) ==
  \E f \in flight :
    f.op = o /\ f.pc \in {"promote", "complete", "interrupt"}

Phase(o) ==
  IF store[o] = None THEN "none"
  ELSE CASE store[o].state \in {"decided_deny", "decided_error"} -> "closed"
         [] store[o].state \in {"proposed", "confirmed"} ->
              IF store[o].born # crashes THEN "closed" ELSE "requested"
         [] store[o].state = "decided_allow" ->
              IF store[o].born # crashes THEN "closed" ELSE "authorised"
         [] store[o].state = "export_started" ->
              IF Running(o) THEN "running" ELSE "uncertain"
         [] OTHER -> "settled"

Promise == INSTANCE SideEffect WITH
             Effects <- Ops, effect <- [o \in Ops |-> Phase(o)]

(* An export is a side effect like any other: authorised before it runs,   *)
(* run at most once, never after a restart, and settled or uncertain.      *)
KeepsPromise == Promise!Spec

-----------------------------------------------------------------------------
(* A statement of the repository that the code does not keep.              *)

(* ADR-022: a confirmation is invalidated by manifest-digest changes: what *)
(* the panel shows as confirmed is what the user confirmed.                *)
ConfirmationIsCurrent == IsConfirmed => screen.confirmation = screen.preview

=============================================================================
