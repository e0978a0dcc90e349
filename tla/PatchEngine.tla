---------------------------- MODULE PatchEngine ----------------------------
(***************************************************************************)
(* The diff engine: a proposal of whole-file replacements is validated,    *)
(* applied with every write read back, restored when a file fails, and     *)
(* rolled back on request (packages/diff-engine/src), over the desktop's   *)
(* project adapter, whose write truncates the file before it fills it      *)
(* (apps/desktop/src/platform/tauriFileSystemAdapter.ts).  Every read and  *)
(* write is awaited, so other programs edit the same files between any two *)
(* of them, and each may fail.                                             *)
(***************************************************************************)
EXTENDS Naturals, Sequences

CONSTANTS
    Files,       \* project-relative paths
    MaxLength,   \* bound on the files of a proposal
    MaxOps,      \* bound on applies and rollbacks
    MaxUpsets    \* bound on edits by other programs and failures of the disk

\* What a file can hold: the text the proposal was made from, its replacement,
\* a text someone else wrote, part of a write, or nothing readable.
Contents == {"old", "new", "newer", "torn", "gone"}

\* What validation can find wrong with one file of a proposal.
Defects == {"unsafe_path", "binary_file_unsupported", "empty_patch"}

VARIABLES
    proposal,   \* the files of the proposal, in order
    defect,     \* what is wrong with each file of it, "none" mostly
    content,    \* the project's files
    applied,    \* ApplyEngine.applied: the originals of an applied proposal
    step,       \* where the running operation stands
    at,         \* the file of the proposal it has reached
    originals,  \* the contents read when the operation began
    failure,    \* the file and code that stopped it
    stuck,      \* files whose restore (or reapply) failed
    report,     \* the ApplyResult of each file, of the last operation
    before,     \* history: the project when the operation began
    touched,    \* history: files others edited during the operation
    lost,       \* history: files whose newer text the operation overwrote
    ops, upsets

vars == <<proposal, defect, content, applied, step, at, originals, failure, stuck,
          report, before, touched, lost, ops, upsets>>

engine == <<applied, originals, failure, stuck, report>>
history == <<before, touched, lost>>
chosen == <<proposal, defect>>

NotApplied == [f \in {} |-> "old"]
NoFailure == [file |-> "none", code |-> "none"]

Proposals == UNION {[1 .. n -> Files] : n \in 0 .. MaxLength}
Paths == {proposal[i] : i \in DOMAIN proposal}
Current == proposal[at]

ApplySteps == {"validate", "read", "recheck", "write", "verify", "restore", "confirm"}
RollbackSteps == {"compare", "unwrite", "unverify", "reapply", "reconfirm"}
Codes == Defects \cup {"none", "duplicate_patch_path", "content_mismatch", "file_not_found",
                       "write_failed", "write_verification_failed", "rollback_failed"}

TypeOK ==
    /\ proposal \in Proposals
    /\ defect \in [Files -> Defects \cup {"none"}]
    /\ content \in [Files -> Contents]
    /\ applied = NotApplied \/ applied \in [Paths -> Contents]
    /\ step \in ApplySteps \cup RollbackSteps \cup {"idle"}
    /\ at \in 0 .. MaxLength + 1
    /\ step # "idle" => proposal = <<>> \/ at \in DOMAIN proposal
    /\ DOMAIN originals \subseteq Files /\ \A f \in DOMAIN originals : originals[f] \in Contents
    /\ failure.file \in Files \cup {"none"} /\ failure.code \in Codes
    /\ stuck \subseteq Files
    /\ \A f \in DOMAIN report : report[f] \in {"ok"} \cup Codes
    /\ before \in [Files -> Contents] /\ touched \subseteq Files /\ lost \subseteq Files
    /\ ops \in 0 .. MaxOps /\ upsets \in 0 .. MaxUpsets

Init ==
    /\ proposal \in Proposals
    /\ \E f \in Files, d \in Defects \cup {"none"} : defect = [g \in Files |-> IF g = f THEN d ELSE "none"]
    /\ content = [f \in Files |-> "old"]
    /\ applied = NotApplied /\ originals = NotApplied
    /\ step = "idle" /\ at = 0
    /\ failure = NoFailure /\ stuck = {} /\ report = NotApplied
    /\ before = content /\ touched = {} /\ lost = {}
    /\ ops = 0 /\ upsets = 0

-----------------------------------------------------------------------------
(* The disk. *)

Upset == upsets < MaxUpsets /\ upsets' = upsets + 1

\* A read gives the text of the file, or fails: the file is gone, is no longer a
\* regular file, or the disk refuses.
Read(f, seen) ==
    \/ seen = content[f] /\ UNCHANGED upsets
    \/ seen = "gone" /\ content[f] # "gone" /\ Upset

\* A write opens the file truncated and fills it; a failing one leaves what was
\* there, part of the text, or all of it.  Files that are gone are not created.
Write(f, text, ok) ==
    /\ \/ ok /\ content[f] # "gone" /\ content' = [content EXCEPT ![f] = text] /\ UNCHANGED upsets
       \/ ~ok /\ content[f] = "gone" /\ UNCHANGED <<content, upsets>>
       \/ ~ok /\ content[f] # "gone" /\ Upset
          /\ \E left \in {content[f], "torn", text} : content' = [content EXCEPT ![f] = left]
    /\ lost' = IF content[f] = "newer" /\ content'[f] # "newer" THEN lost \cup {f} ELSE lost
    /\ UNCHANGED <<before, touched>>

\* Another program replaces or removes a file of the project.
EditByOthers(f) ==
    /\ Upset
    /\ \E text \in {"newer", "gone"} \ {content[f]} : content' = [content EXCEPT ![f] = text]
    /\ touched' = touched \cup {f}
    /\ UNCHANGED <<chosen, engine, step, at, before, lost, ops>>

-----------------------------------------------------------------------------
(* How an operation ends. *)

Finish(results) ==
    /\ step' = "idle" /\ at' = 0
    /\ report' = results

Next1(next) == step' = next /\ at' = at + 1

\* The failure that stopped the writing, told of every file; a file the restore
\* could not put back says so.
Failed(f, badly) ==
    IF f \in badly THEN "rollback_failed"
    ELSE IF f = failure.file THEN failure.code
    ELSE "write_failed"

\* restoreWrittenFiles starts from the last file written, at most `last`.
StartRestore(last, code) ==
    /\ failure' = [file |-> Current, code |-> code]
    /\ stuck' = {}
    /\ IF last = 0 THEN Finish([f \in Paths |-> IF f = Current THEN code ELSE "write_failed"])
                   ELSE step' = "restore" /\ at' = last /\ UNCHANGED report

-----------------------------------------------------------------------------
(* apply: validation, then a first reading, then one file after the other. *)

Apply ==
    /\ step = "idle" /\ ops < MaxOps /\ ops' = ops + 1
    /\ before' = content /\ touched' = {} /\ lost' = {}
    /\ originals' = NotApplied /\ stuck' = {} /\ failure' = NoFailure
    /\ IF proposal = <<>> THEN Finish(NotApplied)       \* "Patch proposal contains no files"
                          ELSE step' = "validate" /\ at' = 1 /\ report' = NotApplied
    /\ UNCHANGED <<chosen, content, applied, upsets>>

Duplicate == \E i \in 1 .. at - 1 : proposal[i] = Current

\* What validateProposal says of one file, once it has looked at it on disk.
Conflict(seen) ==
    IF defect[Current] = "unsafe_path" THEN "unsafe_path"
    ELSE IF Duplicate THEN "duplicate_patch_path"
    ELSE IF defect[Current] # "none" THEN defect[Current]
    ELSE IF seen = "gone" THEN "file_not_found"
    ELSE IF seen # "old" THEN "content_mismatch"
    ELSE "none"

Noted(results, code) ==
    IF code = "none" THEN results
    ELSE [f \in DOMAIN results \cup {Current} |-> IF f = Current THEN code ELSE results[f]]

Validate ==
    /\ step = "validate"
    /\ \E seen \in Contents :
         /\ Read(Current, seen)
         /\ LET noted == Noted(report, Conflict(seen)) IN
            IF at < Len(proposal) THEN Next1("validate") /\ report' = noted
            ELSE IF DOMAIN noted # {} THEN Finish(noted)
            ELSE step' = "read" /\ at' = 1 /\ report' = noted
    /\ UNCHANGED <<chosen, content, applied, originals, failure, stuck, history, ops>>

\* The first phase of ApplyEngine.apply: every file is read, every conflict told.
ReadOriginal ==
    /\ step = "read"
    /\ \E seen \in Contents :
         /\ Read(Current, seen)
         /\ originals' = [f \in DOMAIN originals \cup {Current} |->
                            IF f = Current THEN seen ELSE originals[f]]
         /\ LET noted == Noted(report, IF seen = "gone" THEN "file_not_found"
                                       ELSE IF seen # "old" THEN "content_mismatch" ELSE "none") IN
            IF at < Len(proposal) THEN Next1("read") /\ report' = noted
            ELSE IF DOMAIN noted # {} THEN Finish(noted)
            ELSE step' = "recheck" /\ at' = 1 /\ report' = noted
    /\ UNCHANGED <<chosen, content, applied, failure, stuck, history, ops>>

\* The file is read again just before it is written; a file that changed stops the
\* operation, and is not among those restored.
Recheck ==
    /\ step = "recheck"
    /\ \E seen \in Contents :
         /\ Read(Current, seen)
         /\ IF seen = originals[Current]
            THEN step' = "write" /\ UNCHANGED <<at, failure, stuck, report>>
            ELSE StartRestore(at - 1, IF seen = "gone" THEN "file_not_found" ELSE "content_mismatch")
    /\ UNCHANGED <<chosen, content, applied, originals, history, ops>>

\* Mutant: the file counts as written only once its write succeeded.
PushAfterWrite ==
    /\ step = "write"
    /\ \E ok \in BOOLEAN :
         /\ Write(Current, "new", ok)
         /\ IF ok THEN step' = "verify" /\ UNCHANGED <<at, failure, stuck, report>>
                  ELSE StartRestore(at - 1, "write_failed")
    /\ UNCHANGED <<chosen, applied, originals, ops>>

\* The file is counted as written before the write, so a torn one is restored.
WriteReplacement ==
    /\ step = "write"
    /\ \E ok \in BOOLEAN :
         /\ Write(Current, "new", ok)
         /\ IF ok THEN step' = "verify" /\ UNCHANGED <<at, failure, stuck, report>>
                  ELSE StartRestore(at, "write_failed")
    /\ UNCHANGED <<chosen, applied, originals, ops>>

VerifyReplacement ==
    /\ step = "verify"
    /\ \E seen \in Contents :
         /\ Read(Current, seen)
         /\ IF seen # "new" THEN StartRestore(at, "write_verification_failed") /\ UNCHANGED applied
            ELSE IF at < Len(proposal)
            THEN Next1("recheck") /\ UNCHANGED <<applied, failure, stuck, report>>
            ELSE Finish([f \in Paths |-> "ok"]) /\ applied' = originals /\ UNCHANGED <<failure, stuck>>
    /\ UNCHANGED <<chosen, content, originals, history, ops>>

\* restoreWrittenFiles: last file first, without looking at what the file holds now.
\* A failure is noted and the others are still restored.
RestoreNext(badly) ==
    /\ stuck' = badly
    /\ IF at > 1 THEN step' = "restore" /\ at' = at - 1 /\ UNCHANGED report
                 ELSE Finish([f \in Paths |-> Failed(f, badly)])

Restore ==
    /\ step = "restore"
    /\ \E ok \in BOOLEAN :
         /\ Write(Current, originals[Current], ok)
         /\ IF ok THEN step' = "confirm" /\ UNCHANGED <<at, stuck, report>>
                  ELSE RestoreNext(stuck \cup {Current})
    /\ UNCHANGED <<chosen, applied, originals, failure, ops>>

ConfirmRestore ==
    /\ step = "confirm"
    /\ \E seen \in Contents :
         /\ Read(Current, seen)
         /\ RestoreNext(IF seen = originals[Current] THEN stuck ELSE stuck \cup {Current})
    /\ UNCHANGED <<chosen, content, applied, originals, failure, history, ops>>

-----------------------------------------------------------------------------
(* rollback of an applied proposal. *)

Rollback ==
    /\ step = "idle" /\ proposal # <<>> /\ ops < MaxOps /\ ops' = ops + 1
    /\ before' = content /\ touched' = {} /\ lost' = {}
    /\ stuck' = {} /\ failure' = NoFailure /\ originals' = applied
    /\ IF applied = NotApplied THEN Finish([f \in Paths |-> "rollback_failed"])
                               ELSE step' = "compare" /\ at' = 1 /\ report' = NotApplied
    /\ UNCHANGED <<chosen, content, applied, upsets>>

\* Every file must still hold the replacement before anything is written back.
Compare ==
    /\ step = "compare"
    /\ \E seen \in Contents :
         /\ Read(Current, seen)
         /\ LET noted == Noted(report, IF seen = "gone" THEN "rollback_failed"
                                       ELSE IF seen # "new" THEN "content_mismatch" ELSE "none") IN
            IF at < Len(proposal) THEN Next1("compare") /\ report' = noted
            ELSE IF DOMAIN noted # {} THEN Finish(noted)
            ELSE step' = "unwrite" /\ at' = 1 /\ report' = noted
    /\ UNCHANGED <<chosen, content, applied, originals, failure, stuck, history, ops>>

StartReapply == step' = "reapply" /\ UNCHANGED <<at, report, applied>>

WriteOriginal ==
    /\ step = "unwrite"
    /\ \E ok \in BOOLEAN :
         /\ Write(Current, originals[Current], ok)
         /\ IF ok THEN step' = "unverify" /\ UNCHANGED <<at, report, applied>> ELSE StartReapply
    /\ UNCHANGED <<chosen, originals, failure, stuck, ops>>

VerifyOriginal ==
    /\ step = "unverify"
    /\ \E seen \in Contents :
         /\ Read(Current, seen)
         /\ IF seen # originals[Current] THEN StartReapply
            ELSE IF at < Len(proposal) THEN Next1("unwrite") /\ UNCHANGED <<report, applied>>
            ELSE Finish([f \in Paths |-> "ok"]) /\ applied' = NotApplied
    /\ UNCHANGED <<chosen, content, originals, failure, stuck, history, ops>>

\* reapplyFiles: the replacement goes back over the files already rolled back; the
\* proposal stays applied.
ReapplyNext(badly) ==
    /\ stuck' = badly
    /\ IF at > 1 THEN step' = "reapply" /\ at' = at - 1 /\ UNCHANGED report
                 ELSE Finish([f \in Paths |-> "rollback_failed"])

Reapply ==
    /\ step = "reapply"
    /\ \E ok \in BOOLEAN :
         /\ Write(Current, "new", ok)
         /\ IF ok THEN step' = "reconfirm" /\ UNCHANGED <<at, stuck, report>>
                  ELSE ReapplyNext(stuck \cup {Current})
    /\ UNCHANGED <<chosen, applied, originals, failure, ops>>

ConfirmReapply ==
    /\ step = "reconfirm"
    /\ \E seen \in Contents :
         /\ Read(Current, seen)
         /\ ReapplyNext(IF seen = "new" THEN stuck ELSE stuck \cup {Current})
    /\ UNCHANGED <<chosen, content, applied, originals, failure, history, ops>>

-----------------------------------------------------------------------------
OperationStep ==
    \/ Validate \/ ReadOriginal \/ Recheck \/ WriteReplacement \/ VerifyReplacement
    \/ Restore \/ ConfirmRestore
    \/ Compare \/ WriteOriginal \/ VerifyOriginal \/ Reapply \/ ConfirmReapply

Next ==
    \/ Apply \/ Rollback \/ OperationStep
    \/ \E f \in Files : EditByOthers(f)

Spec == Init /\ [][Next]_vars

-----------------------------------------------------------------------------
(* Properties. *)

Reported(code) == {f \in DOMAIN report : report[f] = code}

\* What an operation reports of the project is so, for every file no other program
\* touched meanwhile: reported success means every file holds the text asked for (the
\* replacement, or after a rollback what was there before the apply); any other
\* report means every file holds what it held when the operation began, unless the
\* restore of that very file failed, which is then reported as rollback_failed.
\* The writes, the torn files and the restores of several files fail in any order.
ResultsAreTrue ==
    step = "idle" /\ DOMAIN report # {} =>
      \A f \in Paths \ touched :
        IF Paths \subseteq Reported("ok")
        THEN content[f] = IF applied = NotApplied THEN "old" ELSE "new"
        ELSE content[f] = before[f] \/ (f \in stuck /\ report[f] = "rollback_failed")

\* A newer text that was in place when an operation began survives it, and so does
\* one that made the operation stop: a file reported as content_mismatch was not
\* written over by the restore of the others.
NewerTextSurvives ==
    /\ lost \subseteq touched
    /\ step = "idle" => lost \cap Reported("content_mismatch") = {}
=============================================================================
