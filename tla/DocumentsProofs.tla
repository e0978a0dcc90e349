-------------------------- MODULE DocumentsProofs --------------------------
(***************************************************************************)
(* Theorems about the parts that turn texts into something to decide on,   *)
(* for any files, findings, nodes and bounds.                              *)
(***************************************************************************)
EXTENDS Documents, Integers, SequenceTheorems, FiniteSetTheorems, TLAPS

-----------------------------------------------------------------------------
(* PatchEngine: the inductive invariant.                                   *)

\* What a file holds, or held when the operation began, unless others touched it.
Kept(f) == f \in touched \/ content[f] = before[f]
Holds(f, text) == f \in touched \/ content[f] = text
Began(f, text) == f \in touched \/ before[f] = text

\* No two of the first n files of the proposal are the same.
Distinct(n) == \A i, k \in 1 .. n : proposal[i] = proposal[k] => i = k

\* The originals of a proposal that passed the first reading.
KnownOld(map) == map = [f \in Engine!Paths |-> "old"]

EngineStands ==
  /\ Engine!TypeOK
  /\ step # "idle" => at \in 1 .. Len(proposal)
  /\ lost \subseteq touched

\* While files are only read nothing was written, and no report says "ok".
EngineLooks ==
  step \in {"validate", "read", "compare"} =>
    /\ lost = {} /\ stuck = {}
    /\ \A f \in Engine!Paths : Kept(f)
    /\ \A f \in DOMAIN report : report[f] # "ok"

\* What the files passed so far were found to be.
EngineSeen ==
  /\ step = "validate" => DOMAIN originals = {}
  /\ step = "validate" /\ DOMAIN report = {} => Distinct(at - 1)
  /\ step = "read" => DOMAIN originals = {proposal[k] : k \in 1 .. at - 1}
  /\ step = "read" /\ DOMAIN report = {} =>
       \A k \in 1 .. at - 1 :
         originals[proposal[k]] = "old" /\ Began(proposal[k], "old")
  /\ step = "compare" /\ DOMAIN report = {} =>
       \A k \in 1 .. at - 1 : Began(proposal[k], "new")

Writing == {"recheck", "write", "verify", "restore", "confirm",
            "unwrite", "unverify", "reapply", "reconfirm"}

EngineKnows ==
  /\ applied = Engine!NotApplied \/ KnownOld(applied)
  /\ step \in Writing \cup {"compare"} => KnownOld(originals)
  /\ step \notin {"idle", "validate"} \/ applied # Engine!NotApplied =>
       Distinct(Len(proposal))
  /\ step \in Writing => \A f \in Engine!Paths : content[f] = "newer" => f \in touched

\* A proposal half written: the files before the current one hold their
\* replacement, those behind it what they held when the apply began.
EngineApplies ==
  step \in {"recheck", "write", "verify"} =>
    /\ \A f \in Engine!Paths : Began(f, "old")
    /\ \A k \in 1 .. at - 1 : Holds(proposal[k], "new")
    /\ \A k \in at + 1 .. Len(proposal) : Kept(proposal[k])
    /\ IF step = "verify" THEN Holds(proposal[at], "new") ELSE Kept(proposal[at])
    /\ \A f \in lost : \E k \in 1 .. at : /\ f = proposal[k]
                                          /\ k = at => step = "verify"

\* A restore on its way back: what it has passed holds its text of before, or the
\* restore of it failed; the file whose text was not the expected one is not on it.
EngineRestores ==
  step \in {"restore", "confirm"} =>
    /\ \A f \in Engine!Paths : Began(f, "old")
    /\ \A k \in at + 1 .. Len(proposal) : Kept(proposal[k]) \/ proposal[k] \in stuck
    /\ step = "confirm" => Holds(proposal[at], "old")
    /\ failure.code = "content_mismatch" =>
         /\ failure.file \notin lost
         /\ \A k \in 1 .. at : proposal[k] # failure.file

EngineRollsBack ==
  step \in {"unwrite", "unverify"} =>
    /\ stuck = {}
    /\ \A f \in Engine!Paths : Began(f, "new")
    /\ \A k \in 1 .. at - 1 : Holds(proposal[k], "old")
    /\ \A k \in at + 1 .. Len(proposal) : Kept(proposal[k])
    /\ IF step = "unverify" THEN Holds(proposal[at], "old") ELSE Kept(proposal[at])

EngineReapplies ==
  step \in {"reapply", "reconfirm"} =>
    /\ \A f \in Engine!Paths : Began(f, "new")
    /\ \A k \in at + 1 .. Len(proposal) : Kept(proposal[k]) \/ proposal[k] \in stuck
    /\ step = "reconfirm" => Holds(proposal[at], "new")

EngineInv ==
  /\ EngineStands /\ EngineLooks /\ EngineSeen /\ EngineKnows
  /\ EngineApplies /\ EngineRestores /\ EngineRollsBack /\ EngineReapplies
  /\ Engine!ResultsAreTrue /\ Engine!NewerTextSurvives

-----------------------------------------------------------------------------
(* PatchEngine: what its operators do. *)

(* The files of a proposal that has any.                                   *)
LEMMA ProposalFiles ==
  ASSUME EngineStands
  PROVE  /\ proposal \in Seq(PatchFiles) /\ Len(proposal) \in 0 .. MaxPatches
         /\ Engine!Paths = {proposal[k] : k \in 1 .. Len(proposal)}
         /\ \A k \in 1 .. Len(proposal) : proposal[k] \in Engine!Paths
         /\ \A f \in Engine!Paths : \E k \in 1 .. Len(proposal) : f = proposal[k]
         /\ Engine!Paths \subseteq PatchFiles
         /\ step # "idle" => Engine!Current \in Engine!Paths /\ proposal # <<>>
<1>1. PICK n \in 0 .. MaxPatches : proposal \in [1 .. n -> PatchFiles]
  BY DEF EngineStands, Engine!TypeOK, Engine!Proposals
<1>2. proposal \in Seq(PatchFiles) /\ Len(proposal) = n /\ DOMAIN proposal = 1 .. n
  BY <1>1
<1>3. Engine!Paths = {proposal[k] : k \in 1 .. Len(proposal)}
  BY <1>2 DEF Engine!Paths
<1>4. Engine!Paths \subseteq PatchFiles
  BY <1>1, <1>2, <1>3
<1>5. step # "idle" => Engine!Current \in Engine!Paths /\ proposal # <<>>
  BY <1>2, <1>3 DEF EngineStands, Engine!Current
<1> QED BY <1>2, <1>3, <1>4, <1>5

(* A proposal that has no two files alike is at one place with each.       *)
LEMMA CurrentIsElsewhere ==
  ASSUME EngineStands, Distinct(Len(proposal)), step # "idle"
  PROVE  \A k \in 1 .. Len(proposal) : proposal[k] = Engine!Current => k = at
BY DEF EngineStands, Distinct, Engine!Current

(* A read tells what the file holds, or nothing.                           *)
LEMMA ReadTells ==
  ASSUME NEW f, NEW told, Engine!Read(f, told), upsets \in 0 .. MaxUpsets
  PROVE  /\ told # "gone" => told = content[f]
         /\ upsets' \in 0 .. MaxUpsets
BY DocumentBoundsAreNat DEF Engine!Read, Engine!Upset

(* A write changes its file alone, and a newer text is lost only there.    *)
LEMMA WriteChanges ==
  ASSUME NEW f \in PatchFiles, NEW text \in Engine!Contents, NEW ok \in BOOLEAN,
         Engine!Write(f, text, ok), Engine!TypeOK
  PROVE  /\ content' \in [PatchFiles -> Engine!Contents]
         /\ \A g \in PatchFiles : g # f => content'[g] = content[g]
         /\ ok => content'[f] = text
         /\ text # "newer" /\ content'[f] = "newer" => content[f] = "newer"
         /\ content[f] # "newer" => lost' = lost
         /\ lost' \in SUBSET PatchFiles /\ lost' \subseteq lost \cup {f}
         /\ before' = before /\ touched' = touched
         /\ upsets' \in 0 .. MaxUpsets
<1>1. /\ content \in [PatchFiles -> Engine!Contents] /\ lost \subseteq PatchFiles
      /\ upsets \in 0 .. MaxUpsets
  BY DEF Engine!TypeOK
<1>2. upsets' \in 0 .. MaxUpsets
  BY <1>1, DocumentBoundsAreNat DEF Engine!Write, Engine!Upset
<1>3. PICK left \in {content[f], "torn", text} : content' = [content EXCEPT ![f] = left]
  BY <1>1 DEF Engine!Write
<1>4. left \in Engine!Contents
  BY <1>1, <1>3 DEF Engine!Contents
<1>5. ok => content'[f] = text
  BY <1>1 DEF Engine!Write
<1>6. content' \in [PatchFiles -> Engine!Contents]
  BY <1>1, <1>3, <1>4
<1>7. \A g \in PatchFiles : g # f => content'[g] = content[g]
  BY <1>1, <1>3
<1>8. content'[f] = left
  BY <1>1, <1>3
<1>9. /\ content[f] # "newer" => lost' = lost
      /\ lost' \in SUBSET PatchFiles /\ lost' \subseteq lost \cup {f}
      /\ before' = before /\ touched' = touched
  BY <1>1 DEF Engine!Write
<1> QED BY <1>2, <1>3, <1>5, <1>6, <1>7, <1>8, <1>9

(* A code that is noted is in the results, and nothing else new is.        *)
LEMMA NotedTells ==
  ASSUME NEW results, NEW code
  PROVE  LET noted == Engine!Noted(results, code) IN
         /\ DOMAIN noted = {} => code = "none" /\ noted = results
         /\ \A f \in DOMAIN noted : \/ noted[f] = code /\ code # "none"
                                    \/ f \in DOMAIN results /\ noted[f] = results[f]
BY DEF Engine!Noted

(* What is found wrong with a file is one of the codes.                    *)
LEMMA ConflictIsACode ==
  ASSUME EngineStands, step # "idle", NEW told
  PROVE  Engine!Conflict(told) \in Engine!Codes /\ Engine!Conflict(told) # "ok"
<1>1. Engine!Current \in PatchFiles
  BY ProposalFiles
<1>2. defect[Engine!Current] \in Engine!Defects \cup {"none"}
  BY <1>1 DEF EngineStands, Engine!TypeOK
<1> QED BY <1>2 DEF Engine!Conflict, Engine!Codes, Engine!Defects

(* A report without "ok" says nothing that the idle state could belie, as  *)
(* long as nothing was written.                                            *)
LEMMA NothingWritten ==
  ASSUME EngineStands', step' = "idle", lost' = {},
         \A f \in (Engine!Paths)' : Kept(f)',
         \A f \in DOMAIN report' : report'[f] # "ok"
  PROVE  Engine!ResultsAreTrue' /\ Engine!NewerTextSurvives'
<1>1. Engine!NewerTextSurvives'
  BY DEF Engine!NewerTextSurvives
<1>2. (Engine!Reported("ok"))' = {}
  BY DEF Engine!Reported
<1>3. \A f \in (Engine!Paths)' \ touched' : content'[f] = before'[f]
  BY DEF Kept
<1>4. (Engine!Paths)' \subseteq (Engine!Reported("ok"))' => (Engine!Paths)' = {}
  BY <1>2
<1>5. Engine!ResultsAreTrue'
  BY <1>2, <1>3, <1>4 DEF Engine!ResultsAreTrue
<1> QED BY <1>1, <1>5

-----------------------------------------------------------------------------
(* PatchEngine: every step keeps the invariant. *)

LEMMA EngineValidateKeeps ==
  ASSUME EngineInv, Engine!Validate
  PROVE  EngineInv'
<1> USE DEF EngineInv
<1>1. /\ step = "validate" /\ at \in 1 .. Len(proposal)
      /\ UNCHANGED <<proposal, defect, content, applied, originals, failure, stuck,
                     before, touched, lost, ops>>
  BY DEF Engine!Validate, EngineStands, Engine!chosen, Engine!history
<1> DEFINE noted(told) == Engine!Noted(report, Engine!Conflict(told))
<1>2. PICK told \in Engine!Contents :
        /\ Engine!Read(Engine!Current, told)
        /\ IF at < Len(proposal)
           THEN step' = "validate" /\ at' = at + 1 /\ report' = noted(told)
           ELSE IF DOMAIN noted(told) # {}
                THEN step' = "idle" /\ at' = 0 /\ report' = noted(told)
                ELSE step' = "read" /\ at' = 1 /\ report' = noted(told)
  BY DEF Engine!Validate, Engine!Next1, Engine!Finish
<1>3. Engine!Conflict(told) \in Engine!Codes /\ Engine!Conflict(told) # "ok"
  BY <1>1, ConflictIsACode
<1>4. /\ DOMAIN report' = {} => Engine!Conflict(told) = "none" /\ report' = report
      /\ \A f \in DOMAIN report' : report'[f] \in Engine!Codes /\ report'[f] # "ok"
  <2>1. report' = noted(told)
    BY <1>2
  <2>2. \A f \in DOMAIN report : report[f] \in Engine!Codes /\ report[f] # "ok"
    BY <1>1 DEF EngineLooks, EngineStands, Engine!TypeOK
  <2> QED BY <2>1, <2>2, <1>3, NotedTells
<1>5. upsets' \in 0 .. MaxUpsets
  BY <1>2, ReadTells DEF EngineStands, Engine!TypeOK
<1>6. /\ Len(proposal) \in 0 .. MaxPatches
      /\ (Engine!Paths)' = Engine!Paths
  BY <1>1, ProposalFiles DEF Engine!Paths
<1>7. /\ step' \in {"idle", "validate", "read"}
      /\ step' # "idle" => at' \in 1 .. Len(proposal)
      /\ at' \in 0 .. MaxPatches + 1
  BY <1>1, <1>2, <1>6, DocumentBoundsAreNat
<1>8. EngineStands'
  <2>1. DOMAIN proposal = 1 .. Len(proposal)
    BY ProposalFiles
  <2>2. Engine!TypeOK'
    BY <1>1, <1>4, <1>5, <1>6, <1>7, <2>1
    DEF EngineStands, Engine!TypeOK, Engine!ApplySteps, Engine!RollbackSteps
  <2> QED BY <1>1, <1>7, <2>2 DEF EngineStands
<1>9. EngineLooks'
  BY <1>1, <1>4, <1>6 DEF EngineLooks, Kept
<1>10. DOMAIN report' = {} => Distinct(at)
  <2> HAVE DOMAIN report' = {}
  <2>1. Distinct(at - 1)
    BY <1>1, <1>4 DEF EngineSeen
  <2>2. ~Engine!Duplicate
    BY <1>4 DEF Engine!Conflict
  <2>3. \A k \in 1 .. at - 1 : proposal[k] # proposal[at]
    BY <2>2 DEF Engine!Duplicate, Engine!Current
  <2> QED BY <1>1, <2>1, <2>3, ProposalFiles DEF Distinct
<1>11. step' = "read" => at = Len(proposal) /\ DOMAIN report' = {} /\ at' = 1
  <2>1. step' = "read" => ~(at < Len(proposal))
    BY <1>2
  <2>2. at = Len(proposal) \/ at < Len(proposal)
    BY <1>1, <1>6
  <2> QED BY <1>2, <2>1, <2>2
<1>12. step' = "validate" => at' = at + 1
  BY <1>2
<1>13. EngineSeen'
  <2>1. step' = "validate" /\ DOMAIN report' = {} => Distinct(at' - 1)
    BY <1>1, <1>10, <1>12
  <2>2. step' = "read" => 1 .. at' - 1 = {}
    BY <1>11
  <2>3. step' = "read" => DOMAIN originals = {}
    BY <1>1 DEF EngineSeen
  <2> QED BY <1>1, <1>7, <2>1, <2>2, <2>3 DEF EngineSeen, Distinct, Began
<1>14. EngineKnows'
  BY <1>1, <1>6, <1>7, <1>10, <1>11 DEF EngineKnows, KnownOld, Distinct, Writing
<1>15. EngineApplies' /\ EngineRestores' /\ EngineRollsBack' /\ EngineReapplies'
  BY <1>7 DEF EngineApplies, EngineRestores, EngineRollsBack, EngineReapplies
<1>16. lost' = {} /\ \A f \in (Engine!Paths)' : Kept(f)'
  BY <1>1, <1>6 DEF EngineLooks, Kept
<1>17. Engine!ResultsAreTrue' /\ Engine!NewerTextSurvives'
  <2>1. CASE step' = "idle"
    BY <1>4, <1>8, <1>16, <2>1, NothingWritten
  <2>2. CASE step' # "idle"
    BY <1>8, <2>2 DEF Engine!ResultsAreTrue, Engine!NewerTextSurvives, EngineStands
  <2> QED BY <2>1, <2>2
<1> QED BY <1>8, <1>9, <1>13, <1>14, <1>15, <1>17

(* The operations begin with nothing written, lost or stuck.               *)
LEMMA EngineBeginsClean ==
  ASSUME EngineInv, UNCHANGED <<proposal, defect, content, applied, upsets>>,
         step = "idle", step' \in {"idle", "validate", "compare"},
         step' = "idle" => at' = 0,
         step' # "idle" => proposal # <<>> /\ at' = 1 /\ report' = Engine!NotApplied,
         ops' \in 0 .. MaxOps,
         before' = content, touched' = {}, lost' = {}, stuck' = {},
         failure' = Engine!NoFailure,
         originals' = Engine!NotApplied \/ (originals' = applied /\ KnownOld(applied)),
         step' = "validate" => originals' = Engine!NotApplied,
         step' = "compare" => originals' = applied /\ applied # Engine!NotApplied,
         \A f \in DOMAIN report' : report'[f] = "rollback_failed"
  PROVE  EngineInv'
<1> USE DEF EngineInv
<1>1. /\ proposal \in Seq(PatchFiles) /\ Len(proposal) \in 0 .. MaxPatches
      /\ Engine!Paths \subseteq PatchFiles /\ (Engine!Paths)' = Engine!Paths
      /\ DOMAIN proposal = 1 .. Len(proposal)
  BY ProposalFiles DEF Engine!Paths
<1>2. at' \in 0 .. MaxPatches + 1 /\ (step' # "idle" => at' \in 1 .. Len(proposal))
  BY <1>1, DocumentBoundsAreNat
<1>3. DOMAIN Engine!NotApplied = {}
  BY DEF Engine!NotApplied
<1>4. /\ DOMAIN originals' \subseteq PatchFiles
      /\ \A f \in DOMAIN originals' : originals'[f] \in Engine!Contents
  BY <1>1, <1>3 DEF KnownOld, Engine!Contents
<1>5. EngineStands'
  <2>1. Engine!TypeOK'
    BY <1>1, <1>2, <1>4 DEF EngineStands, Engine!TypeOK, Engine!ApplySteps,
       Engine!RollbackSteps, Engine!NoFailure, Engine!Codes
  <2> QED BY <1>2, <2>1 DEF EngineStands
<1>6. EngineLooks'
  BY DEF EngineLooks, Kept
<1>7. EngineSeen'
  <2>1. step' # "idle" => 1 .. at' - 1 = {}
    BY <1>2
  <2> QED BY <1>3, <2>1 DEF EngineSeen, Distinct, Began
<1>8. EngineKnows'
  BY <1>1 DEF EngineKnows, KnownOld, Distinct, Writing
<1>9. EngineApplies' /\ EngineRestores' /\ EngineRollsBack' /\ EngineReapplies'
  BY DEF EngineApplies, EngineRestores, EngineRollsBack, EngineReapplies
<1>10. Engine!ResultsAreTrue' /\ Engine!NewerTextSurvives'
  <2>1. CASE step' = "idle"
    BY <1>5, <2>1, NothingWritten DEF Kept
  <2>2. CASE step' # "idle"
    BY <2>2 DEF Engine!ResultsAreTrue, Engine!NewerTextSurvives
  <2> QED BY <2>1, <2>2
<1> QED BY <1>5, <1>6, <1>7, <1>8, <1>9, <1>10

LEMMA EngineApplyKeeps ==
  ASSUME EngineInv, Engine!Apply
  PROVE  EngineInv'
<1>1. ops' \in 0 .. MaxOps
  BY DocumentBoundsAreNat DEF EngineInv, EngineStands, Engine!TypeOK, Engine!Apply
<1>2. \A f \in DOMAIN Engine!NotApplied : FALSE
  BY DEF Engine!NotApplied
<1>3. /\ step' \in {"idle", "validate"} /\ report' = Engine!NotApplied
      /\ step' = "idle" => at' = 0
      /\ step' # "idle" => proposal # <<>> /\ at' = 1
  BY DEF Engine!Apply, Engine!Finish
<1> QED BY <1>1, <1>2, <1>3, EngineBeginsClean DEF Engine!Apply, Engine!chosen

LEMMA EngineRollbackKeeps ==
  ASSUME EngineInv, Engine!Rollback
  PROVE  EngineInv'
<1>1. ops' \in 0 .. MaxOps
  BY DocumentBoundsAreNat DEF EngineInv, EngineStands, Engine!TypeOK, Engine!Rollback
<1>2. \A f \in DOMAIN Engine!NotApplied : FALSE
  BY DEF Engine!NotApplied
<1>3. originals' = Engine!NotApplied \/ (originals' = applied /\ KnownOld(applied))
  BY DEF EngineInv, EngineKnows, Engine!Rollback
<1>4. /\ step' \in {"idle", "compare"}
      /\ \A f \in DOMAIN report' : report'[f] = "rollback_failed"
      /\ step' = "idle" => at' = 0
      /\ step' # "idle" => at' = 1 /\ report' = Engine!NotApplied /\ applied # Engine!NotApplied
  BY <1>2 DEF Engine!Rollback, Engine!Finish
<1> QED BY <1>1, <1>3, <1>4, EngineBeginsClean DEF Engine!Rollback, Engine!chosen

(* What a step of an operation has to see to for the state to be typed.    *)
LEMMA EngineStandsOn ==
  ASSUME EngineStands, UNCHANGED <<proposal, defect, before, touched, ops>>,
         content' \in [PatchFiles -> Engine!Contents],
         applied' = Engine!NotApplied \/ applied' \in [Engine!Paths -> Engine!Contents],
         step' \in Engine!ApplySteps \cup Engine!RollbackSteps \cup {"idle"},
         step' = "idle" => at' = 0,
         step' # "idle" => at' \in 1 .. Len(proposal),
         DOMAIN originals' \subseteq PatchFiles,
         \A f \in DOMAIN originals' : originals'[f] \in Engine!Contents,
         failure'.file \in PatchFiles \cup {"none"}, failure'.code \in Engine!Codes,
         stuck' \subseteq PatchFiles,
         \A f \in DOMAIN report' : report'[f] \in {"ok"} \cup Engine!Codes,
         lost' \subseteq PatchFiles, lost' \subseteq touched,
         upsets' \in 0 .. MaxUpsets
  PROVE  EngineStands' /\ (Engine!Paths)' = Engine!Paths
<1>1. (Engine!Paths)' = Engine!Paths
  BY DEF Engine!Paths
<1>2. Len(proposal) \in 0 .. MaxPatches /\ DOMAIN proposal = 1 .. Len(proposal)
  BY ProposalFiles
<1>3. at' \in 0 .. MaxPatches + 1
  BY <1>2, DocumentBoundsAreNat
<1>4. Engine!TypeOK'
  BY <1>1, <1>2, <1>3 DEF EngineStands, Engine!TypeOK
<1> QED BY <1>1, <1>4 DEF EngineStands

LEMMA EngineReadOriginalKeeps ==
  ASSUME EngineInv, Engine!ReadOriginal
  PROVE  EngineInv'
<1> USE DEF EngineInv
<1>1. /\ step = "read" /\ at \in 1 .. Len(proposal)
      /\ UNCHANGED <<proposal, defect, content, applied, failure, stuck,
                     before, touched, lost, ops>>
  BY DEF Engine!ReadOriginal, EngineStands, Engine!chosen, Engine!history
<1> DEFINE code(told) == IF told = "gone" THEN "file_not_found"
                         ELSE IF told # "old" THEN "content_mismatch" ELSE "none"
           noted(told) == Engine!Noted(report, code(told))
<1>2. PICK told \in Engine!Contents :
        /\ Engine!Read(Engine!Current, told)
        /\ originals' = [f \in DOMAIN originals \cup {Engine!Current} |->
                           IF f = Engine!Current THEN told ELSE originals[f]]
        /\ IF at < Len(proposal)
           THEN step' = "read" /\ at' = at + 1 /\ report' = noted(told)
           ELSE IF DOMAIN noted(told) # {}
                THEN step' = "idle" /\ at' = 0 /\ report' = noted(told)
                ELSE step' = "recheck" /\ at' = 1 /\ report' = noted(told)
  BY DEF Engine!ReadOriginal, Engine!Next1, Engine!Finish
<1>3. code(told) \in Engine!Codes /\ code(told) # "ok"
  BY DEF Engine!Codes
<1>4. /\ DOMAIN report' = {} => told = "old" /\ report' = report
      /\ \A f \in DOMAIN report' : report'[f] \in Engine!Codes /\ report'[f] # "ok"
  <2>1. report' = noted(told)
    BY <1>2
  <2>2. \A f \in DOMAIN report : report[f] \in Engine!Codes /\ report[f] # "ok"
    BY <1>1 DEF EngineLooks, EngineStands, Engine!TypeOK
  <2> QED BY <2>1, <2>2, <1>3, NotedTells
<1> HIDE DEF code, noted
<1>5. upsets' \in 0 .. MaxUpsets /\ (told # "gone" => told = content[Engine!Current])
  BY <1>2, ReadTells DEF EngineStands, Engine!TypeOK
<1>6. /\ Len(proposal) \in 0 .. MaxPatches
      /\ Engine!Paths \subseteq PatchFiles
      /\ Engine!Current \in Engine!Paths /\ Engine!Current = proposal[at]
      /\ Engine!Paths = {proposal[k] : k \in 1 .. Len(proposal)}
  BY <1>1, ProposalFiles DEF Engine!Current
<1>7. /\ step' \in {"idle", "read", "recheck"}
      /\ step' # "idle" => at' \in 1 .. Len(proposal)
      /\ step' = "idle" => at' = 0
      /\ step' = "read" => at' = at + 1
      /\ step' = "recheck" => at' = 1 /\ DOMAIN report' = {} /\ at = Len(proposal)
  <2>1. CASE at < Len(proposal)
    <3>1. step' = "read" /\ at' = at + 1
      BY <1>2, <2>1
    <3> QED BY <1>1, <1>6, <2>1, <3>1
  <2>2. CASE ~(at < Len(proposal))
    <3>1. at = Len(proposal) /\ 1 \in 1 .. Len(proposal)
      BY <1>1, <1>6, <2>2
    <3>2. CASE DOMAIN noted(told) # {}
      BY <1>2, <2>2, <3>2
    <3>3. CASE DOMAIN noted(told) = {}
      BY <1>2, <2>2, <3>1, <3>3
    <3> QED BY <3>2, <3>3
  <2> QED BY <2>1, <2>2
<1>8. /\ DOMAIN originals' = {proposal[k] : k \in 1 .. at}
      /\ originals'[Engine!Current] = told
      /\ \A f \in DOMAIN originals : f # Engine!Current => originals'[f] = originals[f]
  <2>1. DOMAIN originals' = DOMAIN originals \cup {proposal[at]}
    BY <1>2, <1>6
  <2>2. DOMAIN originals = {proposal[k] : k \in 1 .. at - 1}
    BY <1>1 DEF EngineSeen
  <2>3. {proposal[k] : k \in 1 .. at - 1} \cup {proposal[at]} = {proposal[k] : k \in 1 .. at}
    <3>1. 1 .. at = (1 .. at - 1) \cup {at}
      BY <1>1, <1>6
    <3> QED BY <3>1
  <2> QED BY <1>2, <2>1, <2>2, <2>3
<1>9. EngineStands' /\ (Engine!Paths)' = Engine!Paths
  <2>1. /\ DOMAIN originals' \subseteq PatchFiles
        /\ \A f \in DOMAIN originals' : originals'[f] \in Engine!Contents
    BY <1>2, <1>6 DEF EngineStands, Engine!TypeOK
  <2> QED BY <1>1, <1>4, <1>5, <1>7, <2>1, EngineStandsOn
          DEF EngineStands, Engine!TypeOK, Engine!ApplySteps, Engine!RollbackSteps
<1>10. EngineLooks'
  BY <1>1, <1>4, <1>7, <1>9 DEF EngineLooks, Kept
<1>11. DOMAIN report' = {} =>
         \A k \in 1 .. at : originals'[proposal[k]] = "old" /\ Began(proposal[k], "old")
  <2> SUFFICES ASSUME DOMAIN report' = {}, NEW k \in 1 .. at
               PROVE  originals'[proposal[k]] = "old" /\ Began(proposal[k], "old")
    OBVIOUS
  <2>1. CASE proposal[k] = Engine!Current
    <3>1. content[Engine!Current] = "old"
      BY <1>4, <1>5
    <3>2. Kept(Engine!Current)
      BY <1>1, <1>6 DEF EngineLooks
    <3> QED BY <1>4, <1>8, <2>1, <3>1, <3>2 DEF Kept, Began
  <2>2. CASE proposal[k] # Engine!Current
    <3>1. k \in 1 .. at - 1
      BY <1>1, <1>6, <2>2
    <3> QED BY <1>1, <1>4, <1>8, <2>2, <3>1 DEF EngineSeen
  <2> QED BY <2>1, <2>2
<1>12. EngineSeen'
  <2>1. step' = "read" => DOMAIN originals' = {proposal[k] : k \in 1 .. at' - 1}
    <3>1. step' = "read" => at' - 1 = at
      BY <1>1, <1>7
    <3> QED BY <1>8, <3>1
  <2>2. step' = "read" /\ DOMAIN report' = {} =>
          \A k \in 1 .. at' - 1 : originals'[proposal[k]] = "old" /\ Began(proposal[k], "old")
    <3>1. step' = "read" => at' - 1 = at
      BY <1>1, <1>7
    <3> QED BY <1>11, <3>1
  <2> QED BY <1>1, <1>7, <2>1, <2>2 DEF EngineSeen, Began
<1>13. step' = "recheck" => KnownOld(originals')
  <2> HAVE step' = "recheck"
  <2>1. DOMAIN originals' = Engine!Paths
    BY <1>6, <1>7, <1>8
  <2>2. \A f \in Engine!Paths : originals'[f] = "old"
    BY <1>6, <1>7, <1>11
  <2>3. originals' = [f \in DOMAIN originals' |-> originals'[f]]
    BY <1>2
  <2> QED BY <2>1, <2>2, <2>3 DEF KnownOld
<1>14. step' = "recheck" => \A f \in Engine!Paths : Began(f, "old") /\ Kept(f)
  BY <1>1, <1>6, <1>7, <1>11 DEF EngineLooks
<1>15. EngineKnows'
  <2>1. Distinct(Len(proposal))
    BY <1>1 DEF EngineKnows
  <2>2. step' \in Writing \cup {"compare"} => step' = "recheck"
    BY <1>7 DEF Writing
  <2>3. step' = "recheck" => \A f \in Engine!Paths : content[f] = "newer" => f \in touched
    BY <1>14 DEF Began, Kept
  <2>4. KnownOld(applied)' = KnownOld(applied) /\ KnownOld(originals)' = KnownOld(originals')
    BY <1>1, <1>9 DEF KnownOld
  <2> QED BY <1>1, <1>9, <1>13, <2>1, <2>2, <2>3, <2>4 DEF EngineKnows, Distinct
<1>16. EngineApplies'
  <2> SUFFICES ASSUME step' = "recheck" PROVE EngineApplies'
    BY <1>7 DEF EngineApplies
  <2>1. at' = 1 /\ lost' = {} /\ Len(proposal)' = Len(proposal)
    BY <1>1, <1>7 DEF EngineLooks
  <2>2. \A k \in 1 .. Len(proposal) : Kept(proposal[k])
    BY <1>6, <1>14
  <2>3. 1 \in 1 .. Len(proposal)
    BY <1>1, <1>6
  <2>4. /\ \A k \in at' + 1 .. Len(proposal) : Kept(proposal[k])
        /\ Kept(proposal[at'])
    BY <1>6, <2>1, <2>2, <2>3
  <2> QED BY <1>1, <1>9, <1>14, <2>1, <2>4 DEF EngineApplies, Kept, Began, Holds
<1>17. EngineRestores' /\ EngineRollsBack' /\ EngineReapplies'
  BY <1>7 DEF EngineRestores, EngineRollsBack, EngineReapplies
<1>18. Engine!ResultsAreTrue' /\ Engine!NewerTextSurvives'
  <2>0. lost' = {} /\ \A f \in (Engine!Paths)' : Kept(f)'
    BY <1>1, <1>9 DEF EngineLooks, Kept
  <2>1. CASE step' = "idle"
    BY <1>4, <1>9, <2>0, <2>1, NothingWritten
  <2>2. CASE step' # "idle"
    BY <1>9, <2>2 DEF Engine!ResultsAreTrue, Engine!NewerTextSurvives, EngineStands
  <2> QED BY <2>1, <2>2
<1> QED BY <1>9, <1>10, <1>12, <1>15, <1>16, <1>17, <1>18

(* A proposal that was stopped is restored from the last file written on;  *)
(* if none was, the operation is over.                                     *)
LEMMA RestoreStarts ==
  ASSUME EngineInv, step \in {"recheck", "write", "verify"},
         UNCHANGED <<proposal, defect, applied, originals, ops, before, touched>>,
         content' \in [PatchFiles -> Engine!Contents],
         lost' \subseteq PatchFiles, lost' \subseteq touched, upsets' \in 0 .. MaxUpsets,
         NEW last \in 0 .. at, NEW code \in Engine!Codes,
         Engine!StartRestore(last, code),
         \A f \in Engine!Paths : content'[f] = "newer" => f \in touched,
         \A k \in last + 1 .. Len(proposal) : Kept(proposal[k])',
         code = "content_mismatch" => Engine!Current \notin lost' /\ last < at
  PROVE  EngineInv'
<1> USE DEF EngineInv
<1>1. /\ Len(proposal) \in 0 .. MaxPatches
      /\ Engine!Paths \subseteq PatchFiles
      /\ Engine!Current \in Engine!Paths /\ Engine!Current = proposal[at]
      /\ \A f \in Engine!Paths : \E k \in 1 .. Len(proposal) : f = proposal[k]
      /\ at \in 1 .. Len(proposal)
  BY ProposalFiles DEF Engine!Current, EngineStands
<1>2. /\ failure' = [file |-> Engine!Current, code |-> code] /\ stuck' = {}
      /\ step' \in {"idle", "restore"}
      /\ step' = "idle" => last = 0 /\ at' = 0
           /\ report' = [f \in Engine!Paths |-> IF f = Engine!Current THEN code ELSE "write_failed"]
      /\ step' = "restore" => last # 0 /\ at' = last /\ UNCHANGED report
  BY DEF Engine!StartRestore, Engine!Finish
<1>3. step' = "restore" => at' \in 1 .. Len(proposal) /\ at' <= at
  BY <1>1, <1>2
<1>4. EngineStands' /\ (Engine!Paths)' = Engine!Paths
  <2>1. \A f \in DOMAIN report' : report'[f] \in {"ok"} \cup Engine!Codes
    BY <1>2 DEF EngineStands, Engine!TypeOK, Engine!Codes
  <2>2. failure'.file \in PatchFiles \cup {"none"} /\ failure'.code \in Engine!Codes
    BY <1>1, <1>2
  <2> QED BY <1>2, <1>3, <2>1, <2>2, EngineStandsOn
          DEF EngineStands, Engine!TypeOK, Engine!ApplySteps, Engine!RollbackSteps
<1>5. EngineLooks' /\ EngineSeen' /\ EngineApplies' /\ EngineRollsBack' /\ EngineReapplies'
  BY <1>2 DEF EngineLooks, EngineSeen, EngineApplies, EngineRollsBack, EngineReapplies
<1>6. Distinct(Len(proposal)) /\ KnownOld(originals)
  BY DEF EngineKnows, Writing
<1>7. EngineKnows'
  BY <1>2, <1>4, <1>6 DEF EngineKnows, KnownOld, Distinct
<1>8. EngineRestores'
  <2> SUFFICES ASSUME step' = "restore" PROVE EngineRestores'
    BY <1>2 DEF EngineRestores
  <2>1. \A f \in Engine!Paths : Began(f, "old")
    BY DEF EngineApplies
  <2>2. \A k \in at' + 1 .. Len(proposal) : Kept(proposal[k])'
    BY <1>2
  <2>3. failure'.code = "content_mismatch" =>
          /\ failure'.file \notin lost'
          /\ \A k \in 1 .. at' : proposal[k] # failure'.file
    <3> HAVE failure'.code = "content_mismatch"
    <3>1. failure'.file = proposal[at] /\ code = "content_mismatch" /\ at' < at
      BY <1>1, <1>2
    <3>2. \A k \in 1 .. at' : k \in 1 .. Len(proposal) /\ k # at
      BY <1>1, <1>2, <3>1
    <3>3. \A k \in 1 .. at' : proposal[k] # proposal[at]
      BY <1>1, <1>6, <3>2 DEF Distinct
    <3> QED BY <1>1, <3>1, <3>3
  <2> QED BY <1>2, <1>4, <2>1, <2>2, <2>3 DEF EngineRestores, Began, Kept
<1>9. Engine!ResultsAreTrue' /\ Engine!NewerTextSurvives'
  <2> SUFFICES ASSUME step' = "idle"
               PROVE  Engine!ResultsAreTrue' /\ Engine!NewerTextSurvives'
    BY <1>2, <1>4 DEF Engine!ResultsAreTrue, Engine!NewerTextSurvives, EngineStands
  <2>1. \A f \in Engine!Paths : Kept(f)'
    BY <1>1, <1>2
  <2>2. DOMAIN report' = Engine!Paths /\ \A f \in Engine!Paths : report'[f] # "ok"
    BY <1>2 DEF Engine!Codes, Engine!Defects
  <2>3. (Engine!Reported("ok"))' = {}
    BY <2>2 DEF Engine!Reported
  <2>4. Engine!ResultsAreTrue'
    BY <1>1, <1>4, <2>1, <2>3 DEF Engine!ResultsAreTrue, Kept
  <2>5. \A f \in (Engine!Reported("content_mismatch"))' : f \notin lost'
    BY <1>1, <1>2, <2>2 DEF Engine!Reported
  <2>6. Engine!NewerTextSurvives'
    BY <1>4, <2>5 DEF Engine!NewerTextSurvives, EngineStands
  <2> QED BY <2>4, <2>6
<1> QED BY <1>4, <1>5, <1>7, <1>8, <1>9

(* The restore goes on to the file before, or ends and tells.              *)
LEMMA RestoreGoesOn ==
  ASSUME EngineInv, step \in {"restore", "confirm"},
         UNCHANGED <<proposal, defect, applied, originals, failure, ops, before, touched>>,
         content' \in [PatchFiles -> Engine!Contents],
         lost' \subseteq PatchFiles, lost' \subseteq touched, upsets' \in 0 .. MaxUpsets,
         NEW badly, badly \subseteq PatchFiles, Engine!RestoreNext(badly),
         \A f \in Engine!Paths : content'[f] = "newer" => f \in touched,
         \A k \in at .. Len(proposal) : Kept(proposal[k])' \/ proposal[k] \in badly,
         failure.code = "content_mismatch" => failure.file \notin lost'
  PROVE  EngineInv'
<1> USE DEF EngineInv
<1>1. /\ Len(proposal) \in 0 .. MaxPatches
      /\ Engine!Paths \subseteq PatchFiles
      /\ \A f \in Engine!Paths : \E k \in 1 .. Len(proposal) : f = proposal[k]
      /\ at \in 1 .. Len(proposal)
  BY ProposalFiles DEF EngineStands
<1>2. /\ stuck' = badly /\ step' \in {"idle", "restore"}
      /\ step' = "idle" => at' = 0
           /\ report' = [f \in Engine!Paths |-> Engine!Failed(f, badly)]
      /\ step' = "restore" => at > 1 /\ at' = at - 1 /\ UNCHANGED report
  BY DEF Engine!RestoreNext, Engine!Finish
<1>3. /\ step' = "restore" => at' \in 1 .. Len(proposal) /\ at' + 1 = at
      /\ step' = "idle" => at = 1
  BY <1>1, <1>2 DEF Engine!RestoreNext
<1>4. \A f : Engine!Failed(f, badly) \in Engine!Codes
  BY DEF EngineStands, Engine!TypeOK, Engine!Failed, Engine!Codes
<1>5. EngineStands' /\ (Engine!Paths)' = Engine!Paths
  <2>1. \A f \in DOMAIN report' : report'[f] \in {"ok"} \cup Engine!Codes
    BY <1>2, <1>4 DEF EngineStands, Engine!TypeOK
  <2> QED BY <1>2, <1>3, <2>1, EngineStandsOn
          DEF EngineStands, Engine!TypeOK, Engine!ApplySteps, Engine!RollbackSteps
<1>6. EngineLooks' /\ EngineSeen' /\ EngineApplies' /\ EngineRollsBack' /\ EngineReapplies'
  BY <1>2 DEF EngineLooks, EngineSeen, EngineApplies, EngineRollsBack, EngineReapplies
<1>7. EngineKnows'
  <2>1. Distinct(Len(proposal)) /\ KnownOld(originals)
    BY DEF EngineKnows, Writing
  <2> QED BY <1>2, <1>5, <2>1 DEF EngineKnows, KnownOld, Distinct
<1>8. EngineRestores'
  <2> SUFFICES ASSUME step' = "restore" PROVE EngineRestores'
    BY <1>2 DEF EngineRestores
  <2>1. \A f \in Engine!Paths : Began(f, "old")
    BY DEF EngineRestores
  <2>2. \A k \in at' + 1 .. Len(proposal) : Kept(proposal[k])' \/ proposal[k] \in stuck'
    BY <1>2, <1>3
  <2>3. \A k \in 1 .. at' : k \in 1 .. at
    BY <1>1, <1>3
  <2>4. failure.code = "content_mismatch" => \A k \in 1 .. at' : proposal[k] # failure.file
    BY <2>3 DEF EngineRestores
  <2> QED BY <1>5, <2>1, <2>2, <2>4 DEF EngineRestores, Began, Kept
<1>9. Engine!ResultsAreTrue' /\ Engine!NewerTextSurvives'
  <2> SUFFICES ASSUME step' = "idle"
               PROVE  Engine!ResultsAreTrue' /\ Engine!NewerTextSurvives'
    BY <1>2, <1>5 DEF Engine!ResultsAreTrue, Engine!NewerTextSurvives, EngineStands
  <2>1. \A f \in Engine!Paths : Kept(f)' \/ f \in badly
    BY <1>1, <1>3
  <2>2. /\ DOMAIN report' = Engine!Paths
        /\ \A f \in Engine!Paths : report'[f] # "ok"
        /\ \A f \in Engine!Paths : f \in badly => report'[f] = "rollback_failed"
        /\ \A f \in Engine!Paths : report'[f] = "content_mismatch" =>
             f = failure.file /\ failure.code = "content_mismatch"
    BY <1>2, <1>4 DEF Engine!Failed, Engine!Codes, Engine!Defects
  <2>3. (Engine!Reported("ok"))' = {}
    BY <2>2 DEF Engine!Reported
  <2>4. Engine!ResultsAreTrue'
    BY <1>1, <1>2, <1>5, <2>1, <2>2, <2>3 DEF Engine!ResultsAreTrue, Kept
  <2>5. \A f \in (Engine!Reported("content_mismatch"))' : f \notin lost'
    BY <2>2 DEF Engine!Reported
  <2>6. Engine!NewerTextSurvives'
    BY <1>5, <2>5 DEF Engine!NewerTextSurvives, EngineStands
  <2> QED BY <2>4, <2>6
<1> QED BY <1>5, <1>6, <1>7, <1>8, <1>9

LEMMA EngineRecheckKeeps ==
  ASSUME EngineInv, Engine!Recheck
  PROVE  EngineInv'
<1> USE DEF EngineInv
<1>1. /\ step = "recheck"
      /\ UNCHANGED <<proposal, defect, content, applied, originals,
                     before, touched, lost, ops>>
  BY DEF Engine!Recheck, Engine!chosen, Engine!history
<1>2. /\ Len(proposal) \in 0 .. MaxPatches
      /\ at \in 1 .. Len(proposal) /\ Engine!Current = proposal[at]
      /\ Engine!Paths \subseteq PatchFiles
  BY <1>1, ProposalFiles DEF Engine!Current, EngineStands
<1>3. PICK told \in Engine!Contents :
        /\ Engine!Read(Engine!Current, told)
        /\ IF told = originals[Engine!Current]
           THEN step' = "write" /\ UNCHANGED <<at, failure, stuck, report>>
           ELSE Engine!StartRestore(at - 1, IF told = "gone" THEN "file_not_found"
                                           ELSE "content_mismatch")
  BY DEF Engine!Recheck
<1>4. upsets' \in 0 .. MaxUpsets
  BY <1>3, ReadTells DEF EngineStands, Engine!TypeOK
<1>5. CASE told = originals[Engine!Current]
  <2>1. step' = "write" /\ UNCHANGED <<at, failure, stuck, report>>
    BY <1>3, <1>5
  <2>2. EngineStands' /\ (Engine!Paths)' = Engine!Paths
    BY <1>1, <1>2, <1>4, <2>1, EngineStandsOn
    DEF EngineStands, Engine!TypeOK, Engine!ApplySteps, Engine!RollbackSteps
  <2>3. EngineLooks' /\ EngineSeen' /\ EngineRestores' /\ EngineRollsBack' /\ EngineReapplies'
    BY <2>1 DEF EngineLooks, EngineSeen, EngineRestores, EngineRollsBack, EngineReapplies
  <2>4. EngineKnows'
    BY <1>1, <2>1, <2>2 DEF EngineKnows, KnownOld, Distinct, Writing
  <2>5. EngineApplies'
    BY <1>1, <2>1, <2>2 DEF EngineApplies, Kept, Began, Holds
  <2>6. Engine!ResultsAreTrue' /\ Engine!NewerTextSurvives'
    BY <2>1, <2>2 DEF Engine!ResultsAreTrue, Engine!NewerTextSurvives, EngineStands
  <2> QED BY <2>2, <2>3, <2>4, <2>5, <2>6
<1>6. CASE told # originals[Engine!Current]
  <2> DEFINE code == IF told = "gone" THEN "file_not_found" ELSE "content_mismatch"
  <2>1. Engine!StartRestore(at - 1, code) /\ code \in Engine!Codes
    BY <1>3, <1>6 DEF Engine!Codes
  <2> HIDE DEF code
  <2>2. at - 1 \in 0 .. at /\ at - 1 < at
    BY <1>2
  <2>3. \A f \in Engine!Paths : content'[f] = "newer" => f \in touched
    BY <1>1 DEF EngineKnows, Writing
  <2>4. \A k \in (at - 1) + 1 .. Len(proposal) : Kept(proposal[k])'
    <3>1. \A k \in (at - 1) + 1 .. Len(proposal) : k = at \/ k \in at + 1 .. Len(proposal)
      BY <1>2
    <3> QED BY <1>1, <3>1 DEF EngineApplies, Kept
  <2>5. Engine!Current \notin lost'
    <3>1. \A f \in lost : \E k \in 1 .. Len(proposal) : f = proposal[k] /\ k # at
      BY <1>1, <1>2 DEF EngineApplies
    <3> QED BY <1>1, <1>2, <3>1, CurrentIsElsewhere DEF EngineKnows
  <2> QED BY <1>1, <1>4, <2>1, <2>2, <2>3, <2>4, <2>5, RestoreStarts
          DEF EngineStands, Engine!TypeOK
<1> QED BY <1>5, <1>6

(* What a write of the operation under way leaves alone, and does.         *)
LEMMA CurrentWritten ==
  ASSUME EngineInv, step \in Writing, NEW text \in {"old", "new"}, NEW ok \in BOOLEAN,
         Engine!Write(Engine!Current, text, ok)
  PROVE  /\ content' \in [PatchFiles -> Engine!Contents]
         /\ \A k \in 1 .. Len(proposal) : k # at => content'[proposal[k]] = content[proposal[k]]
         /\ ok => content'[proposal[at]] = text
         /\ \A f \in Engine!Paths : content'[f] = "newer" => f \in touched
         /\ lost' \subseteq PatchFiles /\ lost' \subseteq touched
         /\ lost' \subseteq lost \cup {proposal[at]}
         /\ before' = before /\ touched' = touched
         /\ upsets' \in 0 .. MaxUpsets
<1> USE DEF EngineInv
<1>1. /\ Engine!Current = proposal[at] /\ at \in 1 .. Len(proposal)
      /\ Engine!Current \in Engine!Paths /\ Engine!Paths \subseteq PatchFiles
      /\ \A k \in 1 .. Len(proposal) : proposal[k] \in PatchFiles
  BY ProposalFiles DEF Engine!Current, EngineStands, Writing
<1>2. text \in Engine!Contents /\ text # "newer"
  BY DEF Engine!Contents
<1>3. /\ content' \in [PatchFiles -> Engine!Contents]
      /\ \A g \in PatchFiles : g # proposal[at] => content'[g] = content[g]
      /\ ok => content'[proposal[at]] = text
      /\ content'[proposal[at]] = "newer" => content[proposal[at]] = "newer"
      /\ content[proposal[at]] # "newer" => lost' = lost
      /\ lost' \in SUBSET PatchFiles /\ lost' \subseteq lost \cup {proposal[at]}
      /\ before' = before /\ touched' = touched
      /\ upsets' \in 0 .. MaxUpsets
  BY <1>1, <1>2, WriteChanges DEF EngineStands
<1>4. \A f \in Engine!Paths : content[f] = "newer" => f \in touched
  BY DEF EngineKnows
<1>5. \A f \in Engine!Paths : content'[f] = "newer" => f \in touched
  BY <1>1, <1>3, <1>4
<1>6. lost' \subseteq touched
  BY <1>1, <1>3, <1>4 DEF EngineStands
<1>7. \A k \in 1 .. Len(proposal) : k # at => proposal[k] # proposal[at]
  BY <1>1, CurrentIsElsewhere DEF EngineKnows, Writing
<1> QED BY <1>1, <1>3, <1>5, <1>6, <1>7

LEMMA EngineWriteReplacementKeeps ==
  ASSUME EngineInv, Engine!WriteReplacement
  PROVE  EngineInv'
<1> USE DEF EngineInv
<1>1. /\ step = "write"
      /\ UNCHANGED <<proposal, defect, applied, originals, ops>>
  BY DEF Engine!WriteReplacement, Engine!chosen
<1>2. /\ Len(proposal) \in 0 .. MaxPatches
      /\ at \in 1 .. Len(proposal) /\ Engine!Current = proposal[at]
      /\ Engine!Paths \subseteq PatchFiles
  BY <1>1, ProposalFiles DEF Engine!Current, EngineStands
<1>3. PICK ok \in BOOLEAN :
        /\ Engine!Write(Engine!Current, "new", ok)
        /\ IF ok THEN step' = "verify" /\ UNCHANGED <<at, failure, stuck, report>>
                 ELSE Engine!StartRestore(at, "write_failed")
  BY DEF Engine!WriteReplacement
<1>4. /\ content' \in [PatchFiles -> Engine!Contents]
      /\ \A k \in 1 .. Len(proposal) : k # at => content'[proposal[k]] = content[proposal[k]]
      /\ ok => content'[proposal[at]] = "new"
      /\ \A f \in Engine!Paths : content'[f] = "newer" => f \in touched
      /\ lost' \subseteq PatchFiles /\ lost' \subseteq touched
      /\ lost' \subseteq lost \cup {proposal[at]}
      /\ before' = before /\ touched' = touched
      /\ upsets' \in 0 .. MaxUpsets
  BY <1>1, <1>3, CurrentWritten DEF Writing
<1>5. \A k \in at + 1 .. Len(proposal) : Kept(proposal[k])'
  <2>1. \A k \in at + 1 .. Len(proposal) : k \in 1 .. Len(proposal) /\ k # at
    BY <1>2
  <2> QED BY <1>1, <1>4, <2>1 DEF EngineApplies, Kept
<1>6. CASE ok
  <2>1. step' = "verify" /\ UNCHANGED <<at, failure, stuck, report>>
    BY <1>3, <1>6
  <2>2. EngineStands' /\ (Engine!Paths)' = Engine!Paths
    BY <1>1, <1>2, <1>4, <2>1, EngineStandsOn
    DEF EngineStands, Engine!TypeOK, Engine!ApplySteps, Engine!RollbackSteps
  <2>3. EngineLooks' /\ EngineSeen' /\ EngineRestores' /\ EngineRollsBack' /\ EngineReapplies'
    BY <2>1 DEF EngineLooks, EngineSeen, EngineRestores, EngineRollsBack, EngineReapplies
  <2>4. EngineKnows'
    BY <1>1, <1>4, <2>1, <2>2 DEF EngineKnows, KnownOld, Distinct, Writing
  <2>5. \A k \in 1 .. at - 1 : Holds(proposal[k], "new")'
    <3>1. \A k \in 1 .. at - 1 : k \in 1 .. Len(proposal) /\ k # at
      BY <1>2
    <3> QED BY <1>1, <1>4, <3>1 DEF EngineApplies, Holds
  <2>6. \A f \in lost' : \E k \in 1 .. at : f = proposal[k]
    BY <1>1, <1>2, <1>4 DEF EngineApplies
  <2>7. EngineApplies'
    BY <1>1, <1>4, <1>5, <1>6, <2>1, <2>2, <2>5, <2>6 DEF EngineApplies, Kept, Began, Holds
  <2>8. Engine!ResultsAreTrue' /\ Engine!NewerTextSurvives'
    BY <2>1, <2>2 DEF Engine!ResultsAreTrue, Engine!NewerTextSurvives, EngineStands
  <2> QED BY <2>2, <2>3, <2>4, <2>7, <2>8
<1>7. CASE ~ok
  <2>1. Engine!StartRestore(at, "write_failed") /\ "write_failed" \in Engine!Codes
    BY <1>3, <1>7 DEF Engine!Codes
  <2>2. at \in 0 .. at
    BY <1>2
  <2> QED BY <1>1, <1>4, <1>5, <2>1, <2>2, RestoreStarts
<1> QED BY <1>6, <1>7

LEMMA EngineVerifyReplacementKeeps ==
  ASSUME EngineInv, Engine!VerifyReplacement
  PROVE  EngineInv'
<1> USE DEF EngineInv
<1>1. /\ step = "verify"
      /\ UNCHANGED <<proposal, defect, content, originals, before, touched, lost, ops>>
  BY DEF Engine!VerifyReplacement, Engine!chosen, Engine!history
<1>2. /\ Len(proposal) \in 0 .. MaxPatches
      /\ at \in 1 .. Len(proposal) /\ Engine!Current = proposal[at]
      /\ Engine!Paths \subseteq PatchFiles /\ Engine!Current \in Engine!Paths
      /\ \A f \in Engine!Paths : \E k \in 1 .. Len(proposal) : f = proposal[k]
      /\ \A k \in 1 .. Len(proposal) : proposal[k] \in Engine!Paths
  BY <1>1, ProposalFiles DEF Engine!Current, EngineStands
<1>3. PICK told \in Engine!Contents :
        /\ Engine!Read(Engine!Current, told)
        /\ IF told # "new"
           THEN Engine!StartRestore(at, "write_verification_failed") /\ UNCHANGED applied
           ELSE IF at < Len(proposal)
           THEN step' = "recheck" /\ at' = at + 1 /\ UNCHANGED <<applied, failure, stuck, report>>
           ELSE /\ step' = "idle" /\ at' = 0 /\ report' = [f \in Engine!Paths |-> "ok"]
                /\ applied' = originals /\ UNCHANGED <<failure, stuck>>
  BY DEF Engine!VerifyReplacement, Engine!Next1, Engine!Finish
<1>4. upsets' \in 0 .. MaxUpsets
  BY <1>3, ReadTells DEF EngineStands, Engine!TypeOK
<1>5. CASE told # "new"
  <2>1. /\ Engine!StartRestore(at, "write_verification_failed") /\ UNCHANGED applied
        /\ "write_verification_failed" \in Engine!Codes
    BY <1>3, <1>5 DEF Engine!Codes
  <2>2. at \in 0 .. at
    BY <1>2
  <2>3. \A f \in Engine!Paths : content'[f] = "newer" => f \in touched
    BY <1>1 DEF EngineKnows, Writing
  <2>4. \A k \in at + 1 .. Len(proposal) : Kept(proposal[k])'
    BY <1>1 DEF EngineApplies, Kept
  <2> QED BY <1>1, <1>4, <2>1, <2>2, <2>3, <2>4, RestoreStarts DEF EngineStands, Engine!TypeOK
<1>6. CASE told = "new" /\ at < Len(proposal)
  <2>1. step' = "recheck" /\ at' = at + 1 /\ UNCHANGED <<applied, failure, stuck, report>>
    BY <1>3, <1>6
  <2>2. at' \in 1 .. Len(proposal) /\ at' - 1 = at
    BY <1>2, <1>6, <2>1
  <2>3. EngineStands' /\ (Engine!Paths)' = Engine!Paths
    BY <1>1, <1>2, <1>4, <2>1, <2>2, EngineStandsOn
    DEF EngineStands, Engine!TypeOK, Engine!ApplySteps, Engine!RollbackSteps
  <2>4. EngineLooks' /\ EngineSeen' /\ EngineRestores' /\ EngineRollsBack' /\ EngineReapplies'
    BY <2>1 DEF EngineLooks, EngineSeen, EngineRestores, EngineRollsBack, EngineReapplies
  <2>5. EngineKnows'
    BY <1>1, <2>1, <2>3 DEF EngineKnows, KnownOld, Distinct, Writing
  <2>6. \A k \in 1 .. at : Holds(proposal[k], "new")
    <3>1. \A k \in 1 .. at : k \in 1 .. at - 1 \/ k = at
      BY <1>2
    <3> QED BY <1>1, <3>1 DEF EngineApplies
  <2>7. /\ \A k \in at' + 1 .. Len(proposal) : Kept(proposal[k])
        /\ Kept(proposal[at'])
    <3>1. /\ \A k \in at' + 1 .. Len(proposal) : k \in at + 1 .. Len(proposal)
          /\ at' \in at + 1 .. Len(proposal)
      BY <1>2, <2>1, <2>2
    <3> QED BY <1>1, <3>1 DEF EngineApplies
  <2>8. \A f \in lost : \E k \in 1 .. at' : f = proposal[k] /\ k # at'
    <3>1. \A k \in 1 .. at : k \in 1 .. at' /\ k # at'
      BY <1>2, <2>1
    <3> QED BY <1>1, <3>1 DEF EngineApplies
  <2>9. EngineApplies'
    BY <1>1, <2>1, <2>2, <2>3, <2>6, <2>7, <2>8 DEF EngineApplies, Kept, Began, Holds
  <2>10. Engine!ResultsAreTrue' /\ Engine!NewerTextSurvives'
    BY <2>1, <2>3 DEF Engine!ResultsAreTrue, Engine!NewerTextSurvives, EngineStands
  <2> QED BY <2>3, <2>4, <2>5, <2>9, <2>10
<1>7. CASE told = "new" /\ ~(at < Len(proposal))
  <2>1. /\ step' = "idle" /\ at' = 0 /\ report' = [f \in Engine!Paths |-> "ok"]
        /\ applied' = originals /\ UNCHANGED <<failure, stuck>>
    BY <1>3, <1>7
  <2>2. KnownOld(originals) /\ Distinct(Len(proposal))
    BY <1>1 DEF EngineKnows, Writing
  <2>3. EngineStands' /\ (Engine!Paths)' = Engine!Paths
    <3>1. applied' \in [Engine!Paths -> Engine!Contents]
      BY <2>1, <2>2 DEF KnownOld, Engine!Contents
    <3> QED BY <1>1, <1>2, <1>4, <2>1, <3>1, EngineStandsOn
            DEF EngineStands, Engine!TypeOK, Engine!ApplySteps, Engine!RollbackSteps
  <2>4. EngineLooks' /\ EngineSeen' /\ EngineRestores' /\ EngineRollsBack' /\ EngineReapplies'
        /\ EngineApplies'
    BY <2>1 DEF EngineLooks, EngineSeen, EngineRestores, EngineRollsBack, EngineReapplies,
       EngineApplies
  <2>5. EngineKnows'
    BY <1>1, <2>1, <2>2, <2>3 DEF EngineKnows, KnownOld, Distinct, Writing
  <2>6. \A f \in Engine!Paths : Holds(f, "new")
    <3>1. \A k \in 1 .. Len(proposal) : k \in 1 .. at - 1 \/ k = at
      BY <1>2, <1>7
    <3> QED BY <1>1, <1>2, <3>1 DEF EngineApplies
  <2>7. applied' # Engine!NotApplied
    BY <1>2, <2>1, <2>2 DEF KnownOld, Engine!NotApplied
  <2>8. (Engine!Reported("ok"))' = Engine!Paths /\ (Engine!Reported("content_mismatch"))' = {}
    BY <2>1 DEF Engine!Reported
  <2>9. Engine!ResultsAreTrue' /\ Engine!NewerTextSurvives'
    BY <1>1, <2>3, <2>6, <2>7, <2>8
    DEF Engine!ResultsAreTrue, Engine!NewerTextSurvives, EngineStands, Holds
  <2> QED BY <2>3, <2>4, <2>5, <2>9
<1> QED BY <1>5, <1>6, <1>7

LEMMA EngineRestoreKeeps ==
  ASSUME EngineInv, Engine!Restore
  PROVE  EngineInv'
<1> USE DEF EngineInv
<1>1. /\ step = "restore"
      /\ UNCHANGED <<proposal, defect, applied, originals, failure, ops>>
  BY DEF Engine!Restore, Engine!chosen
<1>2. /\ Len(proposal) \in 0 .. MaxPatches
      /\ at \in 1 .. Len(proposal) /\ Engine!Current = proposal[at]
      /\ Engine!Current \in Engine!Paths /\ Engine!Paths \subseteq PatchFiles
  BY <1>1, ProposalFiles DEF Engine!Current, EngineStands
<1>3. KnownOld(originals) /\ originals[Engine!Current] = "old"
  BY <1>1, <1>2 DEF EngineKnows, KnownOld, Writing
<1>4. PICK ok \in BOOLEAN :
        /\ Engine!Write(Engine!Current, "old", ok)
        /\ IF ok THEN step' = "confirm" /\ UNCHANGED <<at, stuck, report>>
                 ELSE Engine!RestoreNext(stuck \cup {Engine!Current})
  BY <1>3 DEF Engine!Restore
<1>5. /\ content' \in [PatchFiles -> Engine!Contents]
      /\ \A k \in 1 .. Len(proposal) : k # at => content'[proposal[k]] = content[proposal[k]]
      /\ ok => content'[proposal[at]] = "old"
      /\ \A f \in Engine!Paths : content'[f] = "newer" => f \in touched
      /\ lost' \subseteq PatchFiles /\ lost' \subseteq touched
      /\ lost' \subseteq lost \cup {proposal[at]}
      /\ before' = before /\ touched' = touched
      /\ upsets' \in 0 .. MaxUpsets
  BY <1>1, <1>4, CurrentWritten DEF Writing
<1>6. \A k \in at + 1 .. Len(proposal) : Kept(proposal[k])' \/ proposal[k] \in stuck
  <2>1. \A k \in at + 1 .. Len(proposal) : k \in 1 .. Len(proposal) /\ k # at
    BY <1>2
  <2> QED BY <1>1, <1>5, <2>1 DEF EngineRestores, Kept
<1>7. failure.code = "content_mismatch" => failure.file \notin lost'
  <2>1. at \in 1 .. at
    BY <1>2
  <2> QED BY <1>1, <1>5, <2>1 DEF EngineRestores
<1>8. CASE ok
  <2>1. step' = "confirm" /\ UNCHANGED <<at, stuck, report>>
    BY <1>4, <1>8
  <2>2. EngineStands' /\ (Engine!Paths)' = Engine!Paths
    BY <1>1, <1>2, <1>5, <2>1, EngineStandsOn
    DEF EngineStands, Engine!TypeOK, Engine!ApplySteps, Engine!RollbackSteps
  <2>3. EngineLooks' /\ EngineSeen' /\ EngineApplies' /\ EngineRollsBack' /\ EngineReapplies'
    BY <2>1 DEF EngineLooks, EngineSeen, EngineApplies, EngineRollsBack, EngineReapplies
  <2>4. EngineKnows'
    BY <1>1, <1>5, <2>1, <2>2 DEF EngineKnows, KnownOld, Distinct, Writing
  <2>5. EngineRestores'
    BY <1>1, <1>5, <1>6, <1>7, <1>8, <2>1, <2>2 DEF EngineRestores, Kept, Began, Holds
  <2>6. Engine!ResultsAreTrue' /\ Engine!NewerTextSurvives'
    BY <2>1, <2>2 DEF Engine!ResultsAreTrue, Engine!NewerTextSurvives, EngineStands
  <2> QED BY <2>2, <2>3, <2>4, <2>5, <2>6
<1>9. CASE ~ok
  <2> DEFINE badly == stuck \cup {Engine!Current}
  <2>1. Engine!RestoreNext(badly)
    BY <1>4, <1>9
  <2>2. badly \subseteq PatchFiles
    BY <1>2 DEF EngineStands, Engine!TypeOK
  <2>3. \A k \in at .. Len(proposal) : Kept(proposal[k])' \/ proposal[k] \in badly
    <3>1. \A k \in at .. Len(proposal) : k = at \/ k \in at + 1 .. Len(proposal)
      BY <1>2
    <3> QED BY <1>2, <1>6, <3>1
  <2> HIDE DEF badly
  <2> QED BY <1>1, <1>5, <1>7, <2>1, <2>2, <2>3, RestoreGoesOn
<1> QED BY <1>8, <1>9

LEMMA EngineConfirmRestoreKeeps ==
  ASSUME EngineInv, Engine!ConfirmRestore
  PROVE  EngineInv'
<1> USE DEF EngineInv
<1>1. /\ step = "confirm"
      /\ UNCHANGED <<proposal, defect, content, applied, originals, failure,
                     before, touched, lost, ops>>
  BY DEF Engine!ConfirmRestore, Engine!chosen, Engine!history
<1>2. /\ Len(proposal) \in 0 .. MaxPatches
      /\ at \in 1 .. Len(proposal) /\ Engine!Current = proposal[at]
      /\ Engine!Current \in Engine!Paths /\ Engine!Paths \subseteq PatchFiles
  BY <1>1, ProposalFiles DEF Engine!Current, EngineStands
<1>3. originals[Engine!Current] = "old"
  BY <1>1, <1>2 DEF EngineKnows, KnownOld, Writing
<1> DEFINE badly(told) == IF told = "old" THEN stuck ELSE stuck \cup {Engine!Current}
<1>4. PICK told \in Engine!Contents :
        Engine!Read(Engine!Current, told) /\ Engine!RestoreNext(badly(told))
  BY <1>3 DEF Engine!ConfirmRestore
<1>5. upsets' \in 0 .. MaxUpsets /\ (told # "gone" => told = content[Engine!Current])
  BY <1>4, ReadTells DEF EngineStands, Engine!TypeOK
<1>6. badly(told) \subseteq PatchFiles
  BY <1>2 DEF EngineStands, Engine!TypeOK
<1>7. Kept(proposal[at]) \/ proposal[at] \in badly(told)
  <2>1. CASE told = "old"
    BY <1>1, <1>2, <1>5, <2>1 DEF EngineRestores, Began, Kept
  <2>2. CASE told # "old"
    BY <1>2, <2>2
  <2> QED BY <2>1, <2>2
<1>8. \A k \in at .. Len(proposal) : Kept(proposal[k])' \/ proposal[k] \in badly(told)
  <2>1. \A k \in at .. Len(proposal) : k = at \/ k \in at + 1 .. Len(proposal)
    BY <1>2
  <2> QED BY <1>1, <1>7, <2>1 DEF EngineRestores, Kept
<1>9. /\ \A f \in Engine!Paths : content'[f] = "newer" => f \in touched
      /\ failure.code = "content_mismatch" => failure.file \notin lost'
  BY <1>1 DEF EngineKnows, EngineRestores, Writing
<1> HIDE DEF badly
<1> QED BY <1>1, <1>4, <1>5, <1>6, <1>8, <1>9, RestoreGoesOn DEF EngineStands, Engine!TypeOK

LEMMA EngineCompareKeeps ==
  ASSUME EngineInv, Engine!Compare
  PROVE  EngineInv'
<1> USE DEF EngineInv
<1>1. /\ step = "compare" /\ at \in 1 .. Len(proposal)
      /\ UNCHANGED <<proposal, defect, content, applied, originals, failure, stuck,
                     before, touched, lost, ops>>
  BY DEF Engine!Compare, EngineStands, Engine!chosen, Engine!history
<1> DEFINE code(told) == IF told = "gone" THEN "rollback_failed"
                         ELSE IF told # "new" THEN "content_mismatch" ELSE "none"
           noted(told) == Engine!Noted(report, code(told))
<1>2. PICK told \in Engine!Contents :
        /\ Engine!Read(Engine!Current, told)
        /\ IF at < Len(proposal)
           THEN step' = "compare" /\ at' = at + 1 /\ report' = noted(told)
           ELSE IF DOMAIN noted(told) # {}
                THEN step' = "idle" /\ at' = 0 /\ report' = noted(told)
                ELSE step' = "unwrite" /\ at' = 1 /\ report' = noted(told)
  BY DEF Engine!Compare, Engine!Next1, Engine!Finish
<1>3. code(told) \in Engine!Codes /\ code(told) # "ok"
  BY DEF Engine!Codes
<1>4. /\ DOMAIN report' = {} => told = "new" /\ report' = report
      /\ \A f \in DOMAIN report' : report'[f] \in Engine!Codes /\ report'[f] # "ok"
  <2>1. report' = noted(told)
    BY <1>2
  <2>2. \A f \in DOMAIN report : report[f] \in Engine!Codes /\ report[f] # "ok"
    BY <1>1 DEF EngineLooks, EngineStands, Engine!TypeOK
  <2> QED BY <2>1, <2>2, <1>3, NotedTells
<1> HIDE DEF code
<1>5. upsets' \in 0 .. MaxUpsets /\ (told # "gone" => told = content[Engine!Current])
  BY <1>2, ReadTells DEF EngineStands, Engine!TypeOK
<1>6. /\ Len(proposal) \in 0 .. MaxPatches
      /\ Engine!Current \in Engine!Paths /\ Engine!Current = proposal[at]
      /\ \A f \in Engine!Paths : \E k \in 1 .. Len(proposal) : f = proposal[k]
      /\ \A k \in 1 .. Len(proposal) : proposal[k] \in Engine!Paths
  BY <1>1, ProposalFiles DEF Engine!Current
<1> HIDE DEF noted
<1>7. /\ step' \in {"idle", "compare", "unwrite"}
      /\ step' # "idle" => at' \in 1 .. Len(proposal)
      /\ step' = "idle" => at' = 0
      /\ step' = "compare" => at' - 1 = at
      /\ step' = "unwrite" => at' = 1 /\ DOMAIN report' = {} /\ at = Len(proposal)
  <2>1. CASE at < Len(proposal)
    <3>1. step' = "compare" /\ at' = at + 1
      BY <1>2, <2>1
    <3> QED BY <1>1, <1>6, <2>1, <3>1
  <2>2. CASE ~(at < Len(proposal))
    <3>1. at = Len(proposal) /\ 1 \in 1 .. Len(proposal)
      BY <1>1, <1>6, <2>2
    <3>2. CASE DOMAIN noted(told) # {}
      BY <1>2, <2>2, <3>2
    <3>3. CASE DOMAIN noted(told) = {}
      BY <1>2, <2>2, <3>1, <3>3
    <3> QED BY <3>2, <3>3
  <2> QED BY <2>1, <2>2
<1>8. EngineStands' /\ (Engine!Paths)' = Engine!Paths
  BY <1>1, <1>4, <1>5, <1>7, EngineStandsOn
  DEF EngineStands, Engine!TypeOK, Engine!ApplySteps, Engine!RollbackSteps
<1>9. EngineLooks'
  BY <1>1, <1>4, <1>7, <1>8 DEF EngineLooks, Kept
<1>10. DOMAIN report' = {} => \A k \in 1 .. at : Began(proposal[k], "new")
  <2> SUFFICES ASSUME DOMAIN report' = {}, NEW k \in 1 .. at
               PROVE  Began(proposal[k], "new")
    OBVIOUS
  <2>1. CASE k = at
    BY <1>1, <1>4, <1>5, <1>6, <2>1 DEF EngineLooks, Kept, Began
  <2>2. CASE k # at
    <3>1. k \in 1 .. at - 1
      BY <1>1, <1>6, <2>2
    <3> QED BY <1>1, <1>4, <3>1 DEF EngineSeen
  <2> QED BY <2>1, <2>2
<1>11. EngineSeen'
  BY <1>1, <1>7, <1>10 DEF EngineSeen, Began
<1>12. step' = "unwrite" => \A f \in Engine!Paths : Began(f, "new") /\ Kept(f)
  BY <1>1, <1>6, <1>7, <1>10 DEF EngineLooks
<1>13. EngineKnows'
  <2>1. Distinct(Len(proposal)) /\ KnownOld(originals)
    BY <1>1 DEF EngineKnows
  <2>2. step' \in Writing => step' = "unwrite"
    BY <1>7 DEF Writing
  <2>3. step' = "unwrite" => \A f \in Engine!Paths : content[f] = "newer" => f \in touched
    BY <1>12 DEF Began, Kept
  <2> QED BY <1>1, <1>8, <2>1, <2>2, <2>3 DEF EngineKnows, Distinct, KnownOld
<1>14. EngineRollsBack'
  <2> SUFFICES ASSUME step' = "unwrite" PROVE EngineRollsBack'
    BY <1>7 DEF EngineRollsBack
  <2>1. at' = 1 /\ stuck' = {}
    BY <1>1, <1>7 DEF EngineLooks
  <2>2. /\ 1 \in 1 .. Len(proposal) /\ 1 .. at' - 1 = {}
        /\ \A k \in at' + 1 .. Len(proposal) : k \in 1 .. Len(proposal)
    BY <1>1, <1>6, <2>1
  <2>3. /\ \A k \in at' + 1 .. Len(proposal) : Kept(proposal[k])
        /\ Kept(proposal[at'])
    BY <1>6, <1>12, <2>1, <2>2
  <2> QED BY <1>1, <1>8, <1>12, <2>1, <2>2, <2>3 DEF EngineRollsBack, Kept, Began, Holds
<1>15. EngineApplies' /\ EngineRestores' /\ EngineReapplies'
  BY <1>7 DEF EngineApplies, EngineRestores, EngineReapplies
<1>16. Engine!ResultsAreTrue' /\ Engine!NewerTextSurvives'
  <2>0. lost' = {} /\ \A f \in (Engine!Paths)' : Kept(f)'
    BY <1>1, <1>8 DEF EngineLooks, Kept
  <2>1. CASE step' = "idle"
    BY <1>4, <1>8, <2>0, <2>1, NothingWritten
  <2>2. CASE step' # "idle"
    BY <1>8, <2>2 DEF Engine!ResultsAreTrue, Engine!NewerTextSurvives, EngineStands
  <2> QED BY <2>1, <2>2
<1> QED BY <1>8, <1>9, <1>11, <1>13, <1>14, <1>15, <1>16

(* The rollback turns back over the files it has passed.                   *)
LEMMA ReapplyStarts ==
  ASSUME EngineInv, step \in {"unwrite", "unverify"},
         UNCHANGED <<proposal, defect, originals, failure, stuck, ops, before, touched>>,
         content' \in [PatchFiles -> Engine!Contents],
         lost' \subseteq PatchFiles, lost' \subseteq touched, upsets' \in 0 .. MaxUpsets,
         Engine!StartReapply,
         \A f \in Engine!Paths : content'[f] = "newer" => f \in touched,
         \A k \in at + 1 .. Len(proposal) : Kept(proposal[k])'
  PROVE  EngineInv'
<1> USE DEF EngineInv
<1>1. /\ Len(proposal) \in 0 .. MaxPatches /\ Engine!Paths \subseteq PatchFiles
      /\ at \in 1 .. Len(proposal)
  BY ProposalFiles DEF EngineStands
<1>2. step' = "reapply" /\ UNCHANGED <<at, report, applied>>
  BY DEF Engine!StartReapply
<1>3. EngineStands' /\ (Engine!Paths)' = Engine!Paths
  BY <1>1, <1>2, EngineStandsOn
  DEF EngineStands, Engine!TypeOK, Engine!ApplySteps, Engine!RollbackSteps
<1>4. EngineLooks' /\ EngineSeen' /\ EngineApplies' /\ EngineRollsBack' /\ EngineRestores'
  BY <1>2 DEF EngineLooks, EngineSeen, EngineApplies, EngineRollsBack, EngineRestores
<1>5. EngineKnows'
  BY <1>2, <1>3 DEF EngineKnows, KnownOld, Distinct, Writing
<1>6. EngineReapplies'
  BY <1>2, <1>3 DEF EngineReapplies, EngineRollsBack, Began, Kept
<1>7. Engine!ResultsAreTrue' /\ Engine!NewerTextSurvives'
  BY <1>2, <1>3 DEF Engine!ResultsAreTrue, Engine!NewerTextSurvives, EngineStands
<1> QED BY <1>3, <1>4, <1>5, <1>6, <1>7

LEMMA EngineWriteOriginalKeeps ==
  ASSUME EngineInv, Engine!WriteOriginal
  PROVE  EngineInv'
<1> USE DEF EngineInv
<1>1. /\ step = "unwrite"
      /\ UNCHANGED <<proposal, defect, originals, failure, stuck, ops>>
  BY DEF Engine!WriteOriginal, Engine!chosen
<1>2. /\ Len(proposal) \in 0 .. MaxPatches
      /\ at \in 1 .. Len(proposal) /\ Engine!Current = proposal[at]
      /\ Engine!Current \in Engine!Paths /\ Engine!Paths \subseteq PatchFiles
  BY <1>1, ProposalFiles DEF Engine!Current, EngineStands
<1>3. KnownOld(originals) /\ originals[Engine!Current] = "old"
  BY <1>1, <1>2 DEF EngineKnows, KnownOld, Writing
<1>4. PICK ok \in BOOLEAN :
        /\ Engine!Write(Engine!Current, "old", ok)
        /\ IF ok THEN step' = "unverify" /\ UNCHANGED <<at, report, applied>>
                 ELSE Engine!StartReapply
  BY <1>3 DEF Engine!WriteOriginal
<1>5. /\ content' \in [PatchFiles -> Engine!Contents]
      /\ \A k \in 1 .. Len(proposal) : k # at => content'[proposal[k]] = content[proposal[k]]
      /\ ok => content'[proposal[at]] = "old"
      /\ \A f \in Engine!Paths : content'[f] = "newer" => f \in touched
      /\ lost' \subseteq PatchFiles /\ lost' \subseteq touched
      /\ before' = before /\ touched' = touched
      /\ upsets' \in 0 .. MaxUpsets
  BY <1>1, <1>4, CurrentWritten DEF Writing
<1>6. \A k \in at + 1 .. Len(proposal) : Kept(proposal[k])'
  <2>1. \A k \in at + 1 .. Len(proposal) : k \in 1 .. Len(proposal) /\ k # at
    BY <1>2
  <2> QED BY <1>1, <1>5, <2>1 DEF EngineRollsBack, Kept
<1>7. CASE ok
  <2>1. step' = "unverify" /\ UNCHANGED <<at, report, applied>>
    BY <1>4, <1>7
  <2>2. EngineStands' /\ (Engine!Paths)' = Engine!Paths
    BY <1>1, <1>2, <1>5, <2>1, EngineStandsOn
    DEF EngineStands, Engine!TypeOK, Engine!ApplySteps, Engine!RollbackSteps
  <2>3. EngineLooks' /\ EngineSeen' /\ EngineApplies' /\ EngineRestores' /\ EngineReapplies'
    BY <2>1 DEF EngineLooks, EngineSeen, EngineApplies, EngineRestores, EngineReapplies
  <2>4. EngineKnows'
    BY <1>1, <1>5, <2>1, <2>2 DEF EngineKnows, KnownOld, Distinct, Writing
  <2>5. \A k \in 1 .. at - 1 : Holds(proposal[k], "old")'
    <3>1. \A k \in 1 .. at - 1 : k \in 1 .. Len(proposal) /\ k # at
      BY <1>2
    <3> QED BY <1>1, <1>5, <3>1 DEF EngineRollsBack, Holds
  <2>6. EngineRollsBack'
    BY <1>1, <1>5, <1>6, <1>7, <2>1, <2>2, <2>5 DEF EngineRollsBack, Kept, Began, Holds
  <2>7. Engine!ResultsAreTrue' /\ Engine!NewerTextSurvives'
    BY <2>1, <2>2 DEF Engine!ResultsAreTrue, Engine!NewerTextSurvives, EngineStands
  <2> QED BY <2>2, <2>3, <2>4, <2>6, <2>7
<1>8. CASE ~ok
  BY <1>1, <1>4, <1>5, <1>6, <1>8, ReapplyStarts
<1> QED BY <1>7, <1>8

LEMMA EngineVerifyOriginalKeeps ==
  ASSUME EngineInv, Engine!VerifyOriginal
  PROVE  EngineInv'
<1> USE DEF EngineInv
<1>1. /\ step = "unverify"
      /\ UNCHANGED <<proposal, defect, content, originals, failure, stuck,
                     before, touched, lost, ops>>
  BY DEF Engine!VerifyOriginal, Engine!chosen, Engine!history
<1>2. /\ Len(proposal) \in 0 .. MaxPatches
      /\ at \in 1 .. Len(proposal) /\ Engine!Current = proposal[at]
      /\ Engine!Paths \subseteq PatchFiles /\ Engine!Current \in Engine!Paths
      /\ \A f \in Engine!Paths : \E k \in 1 .. Len(proposal) : f = proposal[k]
      /\ \A k \in 1 .. Len(proposal) : proposal[k] \in Engine!Paths
  BY <1>1, ProposalFiles DEF Engine!Current, EngineStands
<1>3. PICK told \in Engine!Contents :
        /\ Engine!Read(Engine!Current, told)
        /\ IF told # originals[Engine!Current] THEN Engine!StartReapply
           ELSE IF at < Len(proposal)
           THEN step' = "unwrite" /\ at' = at + 1 /\ UNCHANGED <<report, applied>>
           ELSE /\ step' = "idle" /\ at' = 0 /\ report' = [f \in Engine!Paths |-> "ok"]
                /\ applied' = Engine!NotApplied
  BY DEF Engine!VerifyOriginal, Engine!Next1, Engine!Finish
<1>4. upsets' \in 0 .. MaxUpsets
  BY <1>3, ReadTells DEF EngineStands, Engine!TypeOK
<1>5. CASE told # originals[Engine!Current]
  <2>1. Engine!StartReapply
    BY <1>3, <1>5
  <2>2. \A f \in Engine!Paths : content'[f] = "newer" => f \in touched
    BY <1>1 DEF EngineKnows, Writing
  <2>3. \A k \in at + 1 .. Len(proposal) : Kept(proposal[k])'
    BY <1>1 DEF EngineRollsBack, Kept
  <2> QED BY <1>1, <1>4, <2>1, <2>2, <2>3, ReapplyStarts DEF EngineStands, Engine!TypeOK
<1>6. CASE told = originals[Engine!Current] /\ at < Len(proposal)
  <2>1. step' = "unwrite" /\ at' = at + 1 /\ UNCHANGED <<report, applied>>
    BY <1>3, <1>6
  <2>2. at' \in 1 .. Len(proposal) /\ at' - 1 = at
    BY <1>2, <1>6, <2>1
  <2>3. EngineStands' /\ (Engine!Paths)' = Engine!Paths
    BY <1>1, <1>2, <1>4, <2>1, <2>2, EngineStandsOn
    DEF EngineStands, Engine!TypeOK, Engine!ApplySteps, Engine!RollbackSteps
  <2>4. EngineLooks' /\ EngineSeen' /\ EngineApplies' /\ EngineRestores' /\ EngineReapplies'
    BY <2>1 DEF EngineLooks, EngineSeen, EngineApplies, EngineRestores, EngineReapplies
  <2>5. EngineKnows'
    BY <1>1, <2>1, <2>3 DEF EngineKnows, KnownOld, Distinct, Writing
  <2>6. \A k \in 1 .. at : Holds(proposal[k], "old")
    <3>1. \A k \in 1 .. at : k \in 1 .. at - 1 \/ k = at
      BY <1>2
    <3> QED BY <1>1, <3>1 DEF EngineRollsBack
  <2>7. /\ \A k \in at' + 1 .. Len(proposal) : Kept(proposal[k])
        /\ Kept(proposal[at'])
    <3>1. /\ \A k \in at' + 1 .. Len(proposal) : k \in at + 1 .. Len(proposal)
          /\ at' \in at + 1 .. Len(proposal)
      BY <1>2, <2>1, <2>2
    <3> QED BY <1>1, <3>1 DEF EngineRollsBack
  <2>8. EngineRollsBack'
    BY <1>1, <2>1, <2>2, <2>3, <2>6, <2>7 DEF EngineRollsBack, Kept, Began, Holds
  <2>9. Engine!ResultsAreTrue' /\ Engine!NewerTextSurvives'
    BY <2>1, <2>3 DEF Engine!ResultsAreTrue, Engine!NewerTextSurvives, EngineStands
  <2> QED BY <2>3, <2>4, <2>5, <2>8, <2>9
<1>7. CASE told = originals[Engine!Current] /\ ~(at < Len(proposal))
  <2>1. /\ step' = "idle" /\ at' = 0 /\ report' = [f \in Engine!Paths |-> "ok"]
        /\ applied' = Engine!NotApplied
    BY <1>3, <1>7
  <2>2. EngineStands' /\ (Engine!Paths)' = Engine!Paths
    BY <1>1, <1>2, <1>4, <2>1, EngineStandsOn
    DEF EngineStands, Engine!TypeOK, Engine!ApplySteps, Engine!RollbackSteps
  <2>3. EngineLooks' /\ EngineSeen' /\ EngineRestores' /\ EngineRollsBack' /\ EngineReapplies'
        /\ EngineApplies'
    BY <2>1 DEF EngineLooks, EngineSeen, EngineRestores, EngineRollsBack, EngineReapplies,
       EngineApplies
  <2>4. EngineKnows'
    BY <2>1 DEF EngineKnows, Writing
  <2>5. \A f \in Engine!Paths : Holds(f, "old")
    <3>1. \A k \in 1 .. Len(proposal) : k \in 1 .. at - 1 \/ k = at
      BY <1>2, <1>7
    <3> QED BY <1>1, <1>2, <3>1 DEF EngineRollsBack
  <2>6. (Engine!Reported("ok"))' = Engine!Paths /\ (Engine!Reported("content_mismatch"))' = {}
    BY <2>1 DEF Engine!Reported
  <2>7. (Engine!NotApplied)' = Engine!NotApplied
    BY DEF Engine!NotApplied
  <2>8. Engine!ResultsAreTrue' /\ Engine!NewerTextSurvives'
    BY <1>1, <2>1, <2>2, <2>5, <2>6, <2>7
    DEF Engine!ResultsAreTrue, Engine!NewerTextSurvives, EngineStands, Holds
  <2> QED BY <2>2, <2>3, <2>4, <2>8
<1> QED BY <1>5, <1>6, <1>7

(* The reapply goes on to the file before, or ends and tells.              *)
LEMMA ReapplyGoesOn ==
  ASSUME EngineInv, step \in {"reapply", "reconfirm"},
         UNCHANGED <<proposal, defect, applied, originals, failure, ops, before, touched>>,
         content' \in [PatchFiles -> Engine!Contents],
         lost' \subseteq PatchFiles, lost' \subseteq touched, upsets' \in 0 .. MaxUpsets,
         NEW badly, badly \subseteq PatchFiles, Engine!ReapplyNext(badly),
         \A f \in Engine!Paths : content'[f] = "newer" => f \in touched,
         \A k \in at .. Len(proposal) : Kept(proposal[k])' \/ proposal[k] \in badly
  PROVE  EngineInv'
<1> USE DEF EngineInv
<1>1. /\ Len(proposal) \in 0 .. MaxPatches
      /\ Engine!Paths \subseteq PatchFiles
      /\ \A f \in Engine!Paths : \E k \in 1 .. Len(proposal) : f = proposal[k]
      /\ at \in 1 .. Len(proposal)
  BY ProposalFiles DEF EngineStands
<1>2. /\ stuck' = badly /\ step' \in {"idle", "reapply"}
      /\ step' = "idle" => at' = 0 /\ report' = [f \in Engine!Paths |-> "rollback_failed"]
      /\ step' = "reapply" => at > 1 /\ at' = at - 1 /\ UNCHANGED report
  BY DEF Engine!ReapplyNext, Engine!Finish
<1>3. /\ step' = "reapply" => at' \in 1 .. Len(proposal) /\ at' + 1 = at
      /\ step' = "idle" => at = 1
  BY <1>1, <1>2 DEF Engine!ReapplyNext
<1>4. EngineStands' /\ (Engine!Paths)' = Engine!Paths
  <2>1. \A f \in DOMAIN report' : report'[f] \in {"ok"} \cup Engine!Codes
    BY <1>2 DEF EngineStands, Engine!TypeOK, Engine!Codes
  <2> QED BY <1>2, <1>3, <2>1, EngineStandsOn
          DEF EngineStands, Engine!TypeOK, Engine!ApplySteps, Engine!RollbackSteps
<1>5. EngineLooks' /\ EngineSeen' /\ EngineApplies' /\ EngineRollsBack' /\ EngineRestores'
  BY <1>2 DEF EngineLooks, EngineSeen, EngineApplies, EngineRollsBack, EngineRestores
<1>6. EngineKnows'
  <2>1. Distinct(Len(proposal)) /\ KnownOld(originals)
    BY DEF EngineKnows, Writing
  <2> QED BY <1>2, <1>4, <2>1 DEF EngineKnows, KnownOld, Distinct
<1>7. EngineReapplies'
  <2> SUFFICES ASSUME step' = "reapply" PROVE EngineReapplies'
    BY <1>2 DEF EngineReapplies
  <2>1. \A f \in Engine!Paths : Began(f, "new")
    BY DEF EngineReapplies
  <2>2. \A k \in at' + 1 .. Len(proposal) : Kept(proposal[k])' \/ proposal[k] \in stuck'
    BY <1>2, <1>3
  <2> QED BY <1>4, <2>1, <2>2 DEF EngineReapplies, Began, Kept
<1>8. Engine!ResultsAreTrue' /\ Engine!NewerTextSurvives'
  <2> SUFFICES ASSUME step' = "idle"
               PROVE  Engine!ResultsAreTrue' /\ Engine!NewerTextSurvives'
    BY <1>2, <1>4 DEF Engine!ResultsAreTrue, Engine!NewerTextSurvives, EngineStands
  <2>1. \A f \in Engine!Paths : Kept(f)' \/ f \in badly
    BY <1>1, <1>3
  <2>2. /\ (Engine!Reported("ok"))' = {} /\ (Engine!Reported("content_mismatch"))' = {}
        /\ \A f \in Engine!Paths : report'[f] = "rollback_failed"
    BY <1>2 DEF Engine!Reported
  <2>3. Engine!ResultsAreTrue'
    BY <1>1, <1>2, <1>4, <2>1, <2>2 DEF Engine!ResultsAreTrue, Kept
  <2>4. Engine!NewerTextSurvives'
    BY <1>4, <2>2 DEF Engine!NewerTextSurvives, EngineStands
  <2> QED BY <2>3, <2>4
<1> QED BY <1>4, <1>5, <1>6, <1>7, <1>8

LEMMA EngineReapplyKeeps ==
  ASSUME EngineInv, Engine!Reapply
  PROVE  EngineInv'
<1> USE DEF EngineInv
<1>1. /\ step = "reapply"
      /\ UNCHANGED <<proposal, defect, applied, originals, failure, ops>>
  BY DEF Engine!Reapply, Engine!chosen
<1>2. /\ Len(proposal) \in 0 .. MaxPatches
      /\ at \in 1 .. Len(proposal) /\ Engine!Current = proposal[at]
      /\ Engine!Current \in Engine!Paths /\ Engine!Paths \subseteq PatchFiles
  BY <1>1, ProposalFiles DEF Engine!Current, EngineStands
<1>3. PICK ok \in BOOLEAN :
        /\ Engine!Write(Engine!Current, "new", ok)
        /\ IF ok THEN step' = "reconfirm" /\ UNCHANGED <<at, stuck, report>>
                 ELSE Engine!ReapplyNext(stuck \cup {Engine!Current})
  BY DEF Engine!Reapply
<1>4. /\ content' \in [PatchFiles -> Engine!Contents]
      /\ \A k \in 1 .. Len(proposal) : k # at => content'[proposal[k]] = content[proposal[k]]
      /\ ok => content'[proposal[at]] = "new"
      /\ \A f \in Engine!Paths : content'[f] = "newer" => f \in touched
      /\ lost' \subseteq PatchFiles /\ lost' \subseteq touched
      /\ before' = before /\ touched' = touched
      /\ upsets' \in 0 .. MaxUpsets
  BY <1>1, <1>3, CurrentWritten DEF Writing
<1>5. \A k \in at + 1 .. Len(proposal) : Kept(proposal[k])' \/ proposal[k] \in stuck
  <2>1. \A k \in at + 1 .. Len(proposal) : k \in 1 .. Len(proposal) /\ k # at
    BY <1>2
  <2> QED BY <1>1, <1>4, <2>1 DEF EngineReapplies, Kept
<1>6. CASE ok
  <2>1. step' = "reconfirm" /\ UNCHANGED <<at, stuck, report>>
    BY <1>3, <1>6
  <2>2. EngineStands' /\ (Engine!Paths)' = Engine!Paths
    BY <1>1, <1>2, <1>4, <2>1, EngineStandsOn
    DEF EngineStands, Engine!TypeOK, Engine!ApplySteps, Engine!RollbackSteps
  <2>3. EngineLooks' /\ EngineSeen' /\ EngineApplies' /\ EngineRollsBack' /\ EngineRestores'
    BY <2>1 DEF EngineLooks, EngineSeen, EngineApplies, EngineRollsBack, EngineRestores
  <2>4. EngineKnows'
    BY <1>1, <1>4, <2>1, <2>2 DEF EngineKnows, KnownOld, Distinct, Writing
  <2>5. EngineReapplies'
    BY <1>1, <1>4, <1>5, <1>6, <2>1, <2>2 DEF EngineReapplies, Kept, Began, Holds
  <2>6. Engine!ResultsAreTrue' /\ Engine!NewerTextSurvives'
    BY <2>1, <2>2 DEF Engine!ResultsAreTrue, Engine!NewerTextSurvives, EngineStands
  <2> QED BY <2>2, <2>3, <2>4, <2>5, <2>6
<1>7. CASE ~ok
  <2> DEFINE badly == stuck \cup {Engine!Current}
  <2>1. Engine!ReapplyNext(badly)
    BY <1>3, <1>7
  <2>2. badly \subseteq PatchFiles
    BY <1>2 DEF EngineStands, Engine!TypeOK
  <2>3. \A k \in at .. Len(proposal) : Kept(proposal[k])' \/ proposal[k] \in badly
    <3>1. \A k \in at .. Len(proposal) : k = at \/ k \in at + 1 .. Len(proposal)
      BY <1>2
    <3> QED BY <1>2, <1>5, <3>1
  <2> HIDE DEF badly
  <2> QED BY <1>1, <1>4, <2>1, <2>2, <2>3, ReapplyGoesOn
<1> QED BY <1>6, <1>7

LEMMA EngineConfirmReapplyKeeps ==
  ASSUME EngineInv, Engine!ConfirmReapply
  PROVE  EngineInv'
<1> USE DEF EngineInv
<1>1. /\ step = "reconfirm"
      /\ UNCHANGED <<proposal, defect, content, applied, originals, failure,
                     before, touched, lost, ops>>
  BY DEF Engine!ConfirmReapply, Engine!chosen, Engine!history
<1>2. /\ Len(proposal) \in 0 .. MaxPatches
      /\ at \in 1 .. Len(proposal) /\ Engine!Current = proposal[at]
      /\ Engine!Current \in Engine!Paths /\ Engine!Paths \subseteq PatchFiles
  BY <1>1, ProposalFiles DEF Engine!Current, EngineStands
<1> DEFINE badly(told) == IF told = "new" THEN stuck ELSE stuck \cup {Engine!Current}
<1>3. PICK told \in Engine!Contents :
        Engine!Read(Engine!Current, told) /\ Engine!ReapplyNext(badly(told))
  BY DEF Engine!ConfirmReapply
<1>4. upsets' \in 0 .. MaxUpsets /\ (told # "gone" => told = content[Engine!Current])
  BY <1>3, ReadTells DEF EngineStands, Engine!TypeOK
<1>5. badly(told) \subseteq PatchFiles
  BY <1>2 DEF EngineStands, Engine!TypeOK
<1>6. Kept(proposal[at]) \/ proposal[at] \in badly(told)
  <2>1. CASE told = "new"
    BY <1>1, <1>2, <1>4, <2>1 DEF EngineReapplies, Began, Kept
  <2>2. CASE told # "new"
    BY <1>2, <2>2
  <2> QED BY <2>1, <2>2
<1>7. \A k \in at .. Len(proposal) : Kept(proposal[k])' \/ proposal[k] \in badly(told)
  <2>1. \A k \in at .. Len(proposal) : k = at \/ k \in at + 1 .. Len(proposal)
    BY <1>2
  <2> QED BY <1>1, <1>6, <2>1 DEF EngineReapplies, Kept
<1>8. \A f \in Engine!Paths : content'[f] = "newer" => f \in touched
  BY <1>1 DEF EngineKnows, Writing
<1> HIDE DEF badly
<1> QED BY <1>1, <1>3, <1>4, <1>5, <1>7, <1>8, ReapplyGoesOn DEF EngineStands, Engine!TypeOK

(* What others do to a file is excused from then on.                       *)
LEMMA EngineEditByOthersKeeps ==
  ASSUME EngineInv, NEW g \in PatchFiles, Engine!EditByOthers(g)
  PROVE  EngineInv'
<1> USE DEF EngineInv
<1>1. /\ UNCHANGED <<proposal, defect, applied, originals, failure, stuck, report, step,
                     at, before, lost, ops>>
      /\ touched' = touched \cup {g}
      /\ upsets' \in 0 .. MaxUpsets
  BY DocumentBoundsAreNat DEF Engine!EditByOthers, Engine!chosen, Engine!engine,
     Engine!Upset, EngineStands, Engine!TypeOK
<1>2. PICK text \in {"newer", "gone"} : content' = [content EXCEPT ![g] = text]
  BY DEF Engine!EditByOthers
<1>3. /\ content \in [PatchFiles -> Engine!Contents]
      /\ content' \in [PatchFiles -> Engine!Contents]
      /\ \A f \in PatchFiles : f # g => content'[f] = content[f]
  BY <1>2 DEF EngineStands, Engine!TypeOK, Engine!Contents
<1>4. /\ Engine!Paths \subseteq PatchFiles
      /\ Len(proposal) \in 0 .. MaxPatches
      /\ \A k \in 1 .. Len(proposal) : proposal[k] \in PatchFiles
  BY ProposalFiles
<1>5. EngineStands' /\ (Engine!Paths)' = Engine!Paths
  <2>1. (Engine!Paths)' = Engine!Paths /\ (Engine!NotApplied)' = Engine!NotApplied
    BY <1>1 DEF Engine!Paths, Engine!NotApplied
  <2> QED BY <1>1, <1>3, <2>1 DEF EngineStands, Engine!TypeOK
<1>6. /\ \A f \in PatchFiles : Kept(f) => Kept(f)'
      /\ \A f \in PatchFiles, text0 \in {"old", "new"} :
           /\ Holds(f, text0) => Holds(f, text0)'
           /\ Began(f, text0) => Began(f, text0)'
  BY <1>1, <1>3 DEF Kept, Holds, Began
<1>7. step # "idle" => at \in 1 .. Len(proposal)
  BY DEF EngineStands
<1>8. step # "idle" =>
        /\ \A k \in 1 .. at - 1 : proposal[k] \in PatchFiles
        /\ \A k \in at + 1 .. Len(proposal) : proposal[k] \in PatchFiles
        /\ proposal[at] \in PatchFiles
  BY <1>4, <1>7
<1>9. EngineLooks'
  BY <1>1, <1>4, <1>5, <1>6 DEF EngineLooks
<1>10. EngineSeen'
  <2>1. (Distinct(at - 1))' <=> Distinct(at - 1)
    BY <1>1 DEF Distinct
  <2> QED BY <1>1, <1>6, <1>8, <2>1 DEF EngineSeen
<1>11. EngineKnows'
  <2>1. /\ (Distinct(Len(proposal)))' <=> Distinct(Len(proposal))
        /\ KnownOld(originals)' <=> KnownOld(originals)
        /\ KnownOld(applied)' <=> KnownOld(applied)
        /\ (Engine!NotApplied)' = Engine!NotApplied
    BY <1>1, <1>5 DEF Distinct, KnownOld, Engine!NotApplied
  <2>2. step \in Writing => \A f \in Engine!Paths : content'[f] = "newer" => f \in touched'
    BY <1>1, <1>3, <1>4 DEF EngineKnows
  <2> QED BY <1>1, <1>5, <2>1, <2>2 DEF EngineKnows
<1>12. EngineApplies'
  BY <1>1, <1>4, <1>5, <1>6, <1>8 DEF EngineApplies
<1>13. EngineRestores'
  BY <1>1, <1>4, <1>5, <1>6, <1>8 DEF EngineRestores
<1>14. EngineRollsBack'
  BY <1>1, <1>4, <1>5, <1>6, <1>8 DEF EngineRollsBack
<1>15. EngineReapplies'
  BY <1>1, <1>4, <1>5, <1>6, <1>8 DEF EngineReapplies
<1>16. /\ (Engine!Reported("ok"))' = Engine!Reported("ok")
       /\ (Engine!Reported("content_mismatch"))' = Engine!Reported("content_mismatch")
       /\ (Engine!NotApplied)' = Engine!NotApplied
  BY <1>1 DEF Engine!Reported, Engine!NotApplied
<1>17. Engine!ResultsAreTrue'
  BY <1>1, <1>3, <1>4, <1>5, <1>16 DEF Engine!ResultsAreTrue
<1>18. Engine!NewerTextSurvives'
  BY <1>1, <1>16 DEF Engine!NewerTextSurvives
<1> QED BY <1>5, <1>9, <1>10, <1>11, <1>12, <1>13, <1>14, <1>15, <1>17, <1>18

LEMMA EngineBegins ==
  ASSUME Engine!Init
  PROVE  EngineInv
<1>1. /\ step = "idle" /\ at = 0 /\ ops = 0 /\ upsets = 0
      /\ content = [f \in PatchFiles |-> "old"] /\ before = content
      /\ applied = Engine!NotApplied /\ originals = Engine!NotApplied
      /\ report = Engine!NotApplied /\ failure = Engine!NoFailure
      /\ touched = {} /\ lost = {} /\ stuck = {}
      /\ proposal \in Engine!Proposals
  BY DEF Engine!Init
<1>2. defect \in [PatchFiles -> Engine!Defects \cup {"none"}]
  BY DEF Engine!Init
<1>3. DOMAIN Engine!NotApplied = {}
  BY DEF Engine!NotApplied
<1>4. content \in [PatchFiles -> Engine!Contents]
  BY <1>1 DEF Engine!Contents
<1>5. at \in 0 .. MaxPatches + 1 /\ ops \in 0 .. MaxOps /\ upsets \in 0 .. MaxUpsets
  BY <1>1, DocumentBoundsAreNat
<1>6. Engine!NoFailure.file = "none" /\ Engine!NoFailure.code = "none"
  BY DEF Engine!NoFailure
<1>7. Engine!TypeOK
  BY <1>1, <1>2, <1>3, <1>4, <1>5, <1>6
  DEF Engine!TypeOK, Engine!ApplySteps, Engine!RollbackSteps, Engine!Codes
<1> QED BY <1>1, <1>3, <1>7
        DEF EngineInv, EngineStands, EngineLooks, EngineSeen, EngineKnows, EngineApplies,
            EngineRestores, EngineRollsBack, EngineReapplies, Engine!ResultsAreTrue,
            Engine!NewerTextSurvives, Writing

LEMMA EngineUnchangedKeeps ==
  ASSUME EngineInv, UNCHANGED engineVars
  PROVE  EngineInv'
<1> USE DEF engineVars
<1>1. /\ (Engine!Paths)' = Engine!Paths /\ (Engine!NotApplied)' = Engine!NotApplied
      /\ (Engine!Reported("ok"))' = Engine!Reported("ok")
      /\ (Engine!Reported("content_mismatch"))' = Engine!Reported("content_mismatch")
  BY DEF Engine!Paths, Engine!NotApplied, Engine!Reported
<1>2. EngineStands'
  BY <1>1 DEF EngineInv, EngineStands, Engine!TypeOK
<1>3. EngineLooks' /\ EngineSeen'
  BY <1>1 DEF EngineInv, EngineLooks, EngineSeen, Kept, Began, Distinct
<1>4. EngineKnows'
  BY <1>1 DEF EngineInv, EngineKnows, KnownOld, Distinct
<1>5. EngineApplies' /\ EngineRestores' /\ EngineRollsBack' /\ EngineReapplies'
  BY <1>1 DEF EngineInv, EngineApplies, EngineRestores, EngineRollsBack, EngineReapplies,
     Kept, Began, Holds
<1>6. Engine!ResultsAreTrue' /\ Engine!NewerTextSurvives'
  BY <1>1 DEF EngineInv, Engine!ResultsAreTrue, Engine!NewerTextSurvives
<1> QED BY <1>2, <1>3, <1>4, <1>5, <1>6 DEF EngineInv

LEMMA EngineNextKeeps ==
  ASSUME EngineInv, Engine!Next
  PROVE  EngineInv'
<1>1. CASE Engine!Apply
  BY <1>1, EngineApplyKeeps
<1>2. CASE Engine!Rollback
  BY <1>2, EngineRollbackKeeps
<1>3. CASE Engine!OperationStep
  BY <1>3, EngineValidateKeeps, EngineReadOriginalKeeps, EngineRecheckKeeps,
     EngineWriteReplacementKeeps, EngineVerifyReplacementKeeps, EngineRestoreKeeps,
     EngineConfirmRestoreKeeps, EngineCompareKeeps, EngineWriteOriginalKeeps,
     EngineVerifyOriginalKeeps, EngineReapplyKeeps, EngineConfirmReapplyKeeps
  DEF Engine!OperationStep
<1>4. CASE \E f \in PatchFiles : Engine!EditByOthers(f)
  BY <1>4, EngineEditByOthersKeeps
<1> QED BY <1>1, <1>2, <1>3, <1>4 DEF Engine!Next

-----------------------------------------------------------------------------
(* Induction over the naturals, and the functions it defines. *)

LEMMA LeastNat ==
  ASSUME NEW T \in SUBSET Nat, T # {}
  PROVE  \E n \in T : \A m \in T : n <= m
<1> DEFINE R == OpToRel(<, Nat)
<1>1. \E n \in T : \A m \in T : <<m, n>> \notin R
  <2> HIDE DEF R
  <2>1. IsWellFoundedOn(R, Nat)
    BY NatLessThanWellFounded DEF R
  <2>2. T \subseteq Nat /\ T # {}
    OBVIOUS
  <2>3. \E n \in T : \A m \in T : ~(<<m, n>> \in R)
    BY <2>1, <2>2, WFMin
  <2> QED BY <2>3
<1>2. \A m, n \in T : m < n => <<m, n>> \in R
  BY DEF OpToRel
<1> HIDE DEF R
<1>3. PICK n \in T : \A m \in T : <<m, n>> \notin R
  BY <1>1
<1>4. ASSUME NEW m \in T PROVE n <= m
  <2>1. ~(m < n)
    BY <1>3, <1>2
  <2>2. m \in Nat /\ n \in Nat
    OBVIOUS
  <2> QED BY <2>1, <2>2
<1> QED BY <1>4

LEMMA SetInduction ==
  ASSUME NEW T \in SUBSET Nat, 0 \in T, \A n \in T : n + 1 \in T
  PROVE  T = Nat
<1> SUFFICES ASSUME NEW k \in Nat \ T PROVE FALSE
  OBVIOUS
<1>1. PICK n \in Nat \ T : \A m \in Nat \ T : n <= m
  BY LeastNat
<1>2. n # 0
  OBVIOUS
<1>3. n - 1 \in Nat /\ n - 1 \in T
  BY <1>1, <1>2
<1> QED BY <1>3, <1>1


-----------------------------------------------------------------------------
(* Reconciliation: what the matching does.                                 *)

ReviewsType ==
  /\ Reviews!TypeOK
  /\ Reviews!Left \in Seq(ReviewFindings) /\ Reviews!Right \in Seq(ReviewFindings)

(* Two counts compare as fractions do. *)
LEMMA MoreSimilarThanAll ==
  ASSUME NEW a \in Nat, NEW p \in Nat, NEW b \in Nat, NEW q \in Nat,
         NEW c \in Nat, NEW r \in Nat,
         q > 0, p > 0, r > 0, a * q > b * p, b * r >= c * q
  PROVE  a * r > c * p
<1>1. (a * q) * r > (b * p) * r
  <2>1. a * q \in Nat /\ b * p \in Nat
    OBVIOUS
  <2>2. \A x, y \in Nat : x > y => x * r > y * r
    OBVIOUS
  <2> QED BY <2>1, <2>2
<1>2. (b * r) * p >= (c * q) * p
  <2>1. b * r \in Nat /\ c * q \in Nat
    OBVIOUS
  <2>2. \A x, y \in Nat : x >= y => x * p >= y * p
    OBVIOUS
  <2> QED BY <2>1, <2>2
<1>3. (a * r) * q > (c * p) * q
  <2>1. /\ (a * q) * r = (a * r) * q /\ (b * p) * r = (b * r) * p
        /\ (c * q) * p = (c * p) * q
    OBVIOUS
  <2>2. /\ (a * r) * q \in Nat /\ (b * r) * p \in Nat /\ (c * p) * q \in Nat
    OBVIOUS
  <2> QED BY <1>1, <1>2, <2>1, <2>2
<1>4. a * r \in Nat /\ c * p \in Nat
  OBVIOUS
<1>5. \A x, y \in Nat : x * q > y * q => x > y
  <2>1. \A x, y \in Nat : x <= y => x * q <= y * q
    OBVIOUS
  <2>2. \A x, y \in Nat : x * q \in Nat /\ y * q \in Nat
    OBVIOUS
  <2> QED BY <2>1, <2>2
<1> QED BY <1>3, <1>4, <1>5

(* Of finitely many fractions one is the largest, and of the largest one   *)
(* comes first.                                                            *)
LEMMA MostSimilarExists ==
  ASSUME NEW m \in Nat, NEW a \in [1 .. m -> Nat], NEW p \in [1 .. m -> Nat],
         NEW C \in SUBSET (1 .. m), C # {}, \A k \in C : p[k] > 0
  PROVE  \E k \in C : \A o \in C :
           \/ a[k] * p[o] > a[o] * p[k]
           \/ ~(a[o] * p[k] > a[k] * p[o]) /\ k <= o
<1> DEFINE First(D, k) == \A o \in D : \/ a[k] * p[o] > a[o] * p[k]
                                       \/ ~(a[o] * p[k] > a[k] * p[o]) /\ k <= o
           Bounded(D, n) == D # {} /\ \A k \in D : k <= n /\ p[k] > 0
           T == {n \in Nat : \A D \in SUBSET (1 .. m) : Bounded(D, n) =>
                               \E k \in D : First(D, k)}
<1>1. 0 \in T
  <2>1. \A D \in SUBSET (1 .. m) : ~Bounded(D, 0)
    <3>1. \A k \in 1 .. m : ~(k <= 0)
      OBVIOUS
    <3> HIDE DEF First
    <3> QED BY <3>1
  <2> QED BY <2>1
<1>2. ASSUME NEW n \in T PROVE n + 1 \in T
  <2> SUFFICES ASSUME NEW D \in SUBSET (1 .. m), Bounded(D, n + 1)
               PROVE  \E k \in D : First(D, k)
    OBVIOUS
  <2>1. n \in Nat
    OBVIOUS
  <2>2. CASE n + 1 \notin D
    <3>1. Bounded(D, n)
      <4>1. \A k \in D : k \in Nat /\ k <= n + 1 /\ k # n + 1
        BY <2>2
      <4> QED BY <2>1, <4>1
    <3> QED BY <3>1
  <2>3. CASE D = {n + 1}
    <3>1. First(D, n + 1)
      <4>1. a[n + 1] \in Nat /\ p[n + 1] \in Nat
        BY <2>3
      <4>2. ~(a[n + 1] * p[n + 1] > a[n + 1] * p[n + 1])
        BY <4>1
      <4> QED BY <2>1, <2>3, <4>2
    <3> QED BY <2>3, <3>1
  <2>4. CASE n + 1 \in D /\ D # {n + 1}
    <3> DEFINE E == D \ {n + 1}
    <3>1. Bounded(E, n) /\ E \in SUBSET (1 .. m)
      <4>1. \A k \in E : k \in Nat /\ k <= n + 1 /\ k # n + 1 /\ p[k] > 0
        OBVIOUS
      <4>2. E # {}
        BY <2>4
      <4> QED BY <2>1, <4>1, <4>2
    <3>2. PICK k \in E : First(E, k)
      BY <3>1
    <3>3. /\ k \in D /\ k \in Nat /\ k <= n
          /\ a[k] \in Nat /\ p[k] \in Nat /\ p[k] > 0
          /\ a[n + 1] \in Nat /\ p[n + 1] \in Nat /\ p[n + 1] > 0
      BY <2>4, <3>1
    <3>4. CASE a[n + 1] * p[k] > a[k] * p[n + 1]
      <4>1. First(D, n + 1)
        <5> SUFFICES ASSUME NEW o \in D
                     PROVE  \/ a[n + 1] * p[o] > a[o] * p[n + 1]
                            \/ ~(a[o] * p[n + 1] > a[n + 1] * p[o]) /\ n + 1 <= o
          OBVIOUS
        <5>1. CASE o = n + 1
          <6>1. ~(a[n + 1] * p[n + 1] > a[n + 1] * p[n + 1])
            BY <3>3
          <6> QED BY <2>1, <5>1, <6>1
        <5>2. CASE o # n + 1
          <6>1. o \in E /\ a[o] \in Nat /\ p[o] \in Nat /\ p[o] > 0
            BY <5>2
          <6>2. a[k] * p[o] >= a[o] * p[k]
            <7>1. a[k] * p[o] > a[o] * p[k] \/ ~(a[o] * p[k] > a[k] * p[o])
              BY <3>2, <6>1
            <7> HIDE DEF First, Bounded, T
            <7>2. \A x, y \in Nat : x * y \in Nat
              OBVIOUS
            <7>3. a[k] * p[o] \in Nat /\ a[o] * p[k] \in Nat
              BY <3>3, <6>1, <7>2
            <7>4. \A x, y \in Nat : x > y \/ ~(y > x) => x >= y
              OBVIOUS
            <7> QED BY <7>1, <7>3, <7>4
          <6> HIDE DEF First, Bounded, T
          <6>3. a[n + 1] * p[o] > a[o] * p[n + 1]
            BY <3>3, <3>4, <6>1, <6>2, MoreSimilarThanAll
          <6> QED BY <6>3
        <5> QED BY <5>1, <5>2
      <4> QED BY <2>4, <4>1
    <3>5. CASE ~(a[n + 1] * p[k] > a[k] * p[n + 1])
      <4>1. k <= n + 1
        BY <2>1, <3>3
      <4>2. First(D, k)
        BY <3>2, <3>5, <4>1
      <4> QED BY <3>3, <4>2
    <3> QED BY <3>4, <3>5
  <2> QED BY <2>2, <2>3, <2>4
<1>3. Bounded(C, m)
  OBVIOUS
<1> HIDE DEF T, First, Bounded
<1>4. T \in SUBSET Nat
  BY DEF T
<1>5. m \in T
  BY <1>1, <1>2, <1>4, SetInduction
<1>6. \E k \in C : First(C, k)
  BY <1>3, <1>5 DEF T
<1> QED BY <1>6 DEF First

LEMMA ReviewsCount == \A S : Reviews!Cardinality(S) = Cardinality(S)
BY DEF Reviews!Cardinality, Cardinality

(* The partner taken for a finding is one of its candidates.               *)
LEMMA BestIsACandidate ==
  ASSUME ReviewsType, NEW i \in DOMAIN Reviews!Left,
         NEW candidates0 \in SUBSET DOMAIN Reviews!Right, candidates0 # {},
         \A k \in candidates0 : Reviews!Compatible(Reviews!Left[i], Reviews!Right[k])
  PROVE  Reviews!Best(i, candidates0) \in candidates0
<1> DEFINE l == Reviews!Left[i]
           m == Len(Reviews!Right)
           a == [k \in 1 .. m |-> Reviews!Common(l, Reviews!Right[k])]
           p == [k \in 1 .. m |-> Reviews!All(l, Reviews!Right[k])]
<1>1. m \in Nat /\ DOMAIN Reviews!Right = 1 .. m /\ l \in ReviewFindings
      /\ \A k \in 1 .. m : Reviews!Right[k] \in ReviewFindings
  BY DEF ReviewsType
<1>2. ASSUME NEW k \in 1 .. m
      PROVE  /\ Reviews!Common(l, Reviews!Right[k]) \in Nat
             /\ Reviews!All(l, Reviews!Right[k]) \in Nat
  <2>1. IsFiniteSet(l.words) /\ IsFiniteSet(Reviews!Right[k].words)
    BY <1>1, <1>2, WordsAreFinite
  <2>2. IsFiniteSet(l.words \cup Reviews!Right[k].words)
    BY <2>1, FS_Union
  <2>3. IsFiniteSet(l.words \cap Reviews!Right[k].words)
    BY <2>1, FS_Intersection
  <2> QED BY <2>2, <2>3, FS_CardinalityType, ReviewsCount DEF Reviews!Common, Reviews!All
<1>3. a \in [1 .. m -> Nat] /\ p \in [1 .. m -> Nat]
  BY <1>2
<1>4. \A k \in candidates0 : p[k] > 0
  BY <1>1 DEF Reviews!Compatible, Reviews!Similar
<1>5. candidates0 \in SUBSET (1 .. m)
  BY <1>1
<1>6. \A k, o \in candidates0 :
        /\ (a[k] * p[o] > a[o] * p[k]) = Reviews!MoreSimilar(l, Reviews!Right[k], Reviews!Right[o])
        /\ (a[o] * p[k] > a[k] * p[o]) = Reviews!MoreSimilar(l, Reviews!Right[o], Reviews!Right[k])
  BY <1>5 DEF Reviews!MoreSimilar
<1> HIDE DEF a, p
<1>7. \E k \in candidates0 : \A o \in candidates0 :
           \/ a[k] * p[o] > a[o] * p[k]
           \/ ~(a[o] * p[k] > a[k] * p[o]) /\ k <= o
  BY <1>1, <1>3, <1>4, <1>5, MostSimilarExists
<1> QED BY <1>6, <1>7 DEF Reviews!Best

(* The pairs matched so far: defined for every number of findings.         *)
LEMMA MatchedExists ==
  \A n0 \in Nat : \E f : f = [n \in 0 .. n0 |-> IF n = 0 THEN {} ELSE Reviews!Match(f[n - 1], n)]
<1> DEFINE Def(f, k) == f = [n \in 0 .. k |-> IF n = 0 THEN {} ELSE Reviews!Match(f[n - 1], n)]
           T == {k \in Nat : \E f : Def(f, k)}
<1>1. 0 \in T
  <2>1. Def([n \in 0 .. 0 |-> {}], 0)
    OBVIOUS
  <2> QED BY <2>1
<1>2. ASSUME NEW k \in T PROVE k + 1 \in T
  <2>1. PICK f : Def(f, k)
    OBVIOUS
  <2> DEFINE g == [n \in 0 .. k + 1 |-> IF n = k + 1 THEN Reviews!Match(f[k], k + 1) ELSE f[n]]
  <2>2. \A n \in 0 .. k : f[n] = IF n = 0 THEN {} ELSE Reviews!Match(f[n - 1], n)
    BY <2>1
  <2>3. \A n \in 0 .. k + 1 : g[n] = IF n = 0 THEN {} ELSE Reviews!Match(g[n - 1], n)
    <3> TAKE n \in 0 .. k + 1
    <3>1. CASE n = k + 1
      <4>1. n - 1 = k /\ n # 0 /\ k \in 0 .. k + 1
        BY <3>1
      <4> QED BY <4>1, <3>1
    <3>2. CASE n # k + 1
      <4>1. n \in 0 .. k /\ g[n] = f[n]
        BY <3>2
      <4>2. n # 0 => n - 1 \in 0 .. k + 1 /\ g[n - 1] = f[n - 1]
        BY <4>1
      <4> QED BY <4>1, <4>2, <2>2
    <3> QED BY <3>1, <3>2
  <2>4. Def(g, k + 1)
    <3>1. g = [n \in 0 .. k + 1 |-> g[n]]
      OBVIOUS
    <3> HIDE DEF g
    <3> QED BY <3>1, <2>3
  <2>5. k + 1 \in Nat
    OBVIOUS
  <2> HIDE DEF g, Def
  <2> QED BY <2>4, <2>5
<1> HIDE DEF T
<1>3. T = Nat
  BY <1>1, <1>2, SetInduction DEF T
<1> QED BY <1>3 DEF T

LEMMA MatchedIs ==
  ASSUME ReviewsType
  PROVE  /\ Reviews!matched[0] = {}
         /\ \A n \in 1 .. Len(Reviews!Left) :
              Reviews!matched[n] = Reviews!Match(Reviews!matched[n - 1], n)
<1>1. Len(Reviews!Left) \in Nat
  BY DEF ReviewsType
<1>2. Reviews!matched = [n \in 0 .. Len(Reviews!Left) |->
                           IF n = 0 THEN {} ELSE Reviews!Match(Reviews!matched[n - 1], n)]
  BY <1>1, MatchedExists DEF Reviews!matched
<1>3. \A n \in 0 .. Len(Reviews!Left) :
        Reviews!matched[n] = IF n = 0 THEN {} ELSE Reviews!Match(Reviews!matched[n - 1], n)
  BY <1>2
<1> QED BY <1>1, <1>3

\* The first n findings of the first worker are matched one to one, with what is
\* compatible, and none of them is left over with one it could be matched with.
MatchedWell(pairs, n) ==
  /\ \A q \in pairs : \E i \in 1 .. n, k \in DOMAIN Reviews!Right :
       q = <<i, k>> /\ Reviews!Compatible(Reviews!Left[i], Reviews!Right[k])
  /\ \A q, r \in pairs : q # r => q[1] # r[1] /\ q[2] # r[2]
  /\ \A i \in 1 .. n, k \in DOMAIN Reviews!Right :
       Reviews!Compatible(Reviews!Left[i], Reviews!Right[k]) =>
         \E q \in pairs : q[1] = i \/ q[2] = k

LEMMA MatchStaysGood ==
  ASSUME ReviewsType, NEW n \in 1 .. Len(Reviews!Left), NEW pairs, MatchedWell(pairs, n - 1)
  PROVE  MatchedWell(Reviews!Match(pairs, n), n)
<1> DEFINE fits == {k \in DOMAIN Reviews!Right :
                      /\ Reviews!Claimable(pairs, k)
                      /\ Reviews!Compatible(Reviews!Left[n], Reviews!Right[k])}
<1>0. /\ Len(Reviews!Left) \in Nat /\ n \in DOMAIN Reviews!Left
      /\ \A i \in 1 .. n : i = n \/ i \in 1 .. n - 1
      /\ \A i \in 1 .. n - 1 : i \in 1 .. n /\ i # n
  BY DEF ReviewsType
<1>1. /\ \A q \in pairs : \E i \in 1 .. n - 1, k \in DOMAIN Reviews!Right :
           q = <<i, k>> /\ Reviews!Compatible(Reviews!Left[i], Reviews!Right[k])
      /\ \A q, r \in pairs : q # r => q[1] # r[1] /\ q[2] # r[2]
      /\ \A i \in 1 .. n - 1, k \in DOMAIN Reviews!Right :
           Reviews!Compatible(Reviews!Left[i], Reviews!Right[k]) =>
             \E q \in pairs : q[1] = i \/ q[2] = k
  BY DEF MatchedWell
<1>2. CASE fits = {}
  <2>1. Reviews!Match(pairs, n) = pairs
    BY <1>2 DEF Reviews!Match
  <2>2. \A k \in DOMAIN Reviews!Right :
          Reviews!Compatible(Reviews!Left[n], Reviews!Right[k]) => \E q \in pairs : q[2] = k
    BY <1>2 DEF Reviews!Claimable
  <2> HIDE DEF fits
  <2>3. \A q \in pairs : \E i \in 1 .. n, k \in DOMAIN Reviews!Right :
          q = <<i, k>> /\ Reviews!Compatible(Reviews!Left[i], Reviews!Right[k])
    BY <1>0, <1>1
  <2>4. \A i \in 1 .. n, k \in DOMAIN Reviews!Right :
           Reviews!Compatible(Reviews!Left[i], Reviews!Right[k]) =>
             \E q \in pairs : q[1] = i \/ q[2] = k
    BY <1>0, <1>1, <2>2
  <2> QED BY <1>1, <2>1, <2>3, <2>4 DEF MatchedWell
<1>3. CASE fits # {}
  <2> DEFINE b == Reviews!Best(n, fits)
  <2>1. Reviews!Match(pairs, n) = pairs \cup {<<n, b>>}
    BY <1>3 DEF Reviews!Match
  <2>2. b \in fits
    <3>1. /\ fits \in SUBSET DOMAIN Reviews!Right
          /\ \A k \in fits : Reviews!Compatible(Reviews!Left[n], Reviews!Right[k])
      OBVIOUS
    <3> HIDE DEF fits
    <3> QED BY <1>0, <1>3, <3>1, BestIsACandidate
  <2>3. /\ b \in DOMAIN Reviews!Right /\ \A q \in pairs : q[2] # b
        /\ Reviews!Compatible(Reviews!Left[n], Reviews!Right[b])
    BY <2>2 DEF Reviews!Claimable
  <2> HIDE DEF b, fits
  <2>4. \A q \in pairs : q[1] # n
    BY <1>0, <1>1
  <2>5. <<n, b>>[1] = n /\ <<n, b>>[2] = b /\ n \in 1 .. n
    BY <1>0
  <2> DEFINE more == pairs \cup {<<n, b>>}
  <2>6. \A q \in more : \E i \in 1 .. n, k \in DOMAIN Reviews!Right :
          q = <<i, k>> /\ Reviews!Compatible(Reviews!Left[i], Reviews!Right[k])
    <3>1. ASSUME NEW q \in pairs
          PROVE  \E i \in 1 .. n, k \in DOMAIN Reviews!Right :
                   q = <<i, k>> /\ Reviews!Compatible(Reviews!Left[i], Reviews!Right[k])
      BY <1>0, <1>1
    <3> QED BY <2>3, <2>5, <3>1
  <2>7. \A q, r \in more : q # r => q[1] # r[1] /\ q[2] # r[2]
    BY <1>1, <2>3, <2>4, <2>5
  <2>8. ASSUME NEW i \in 1 .. n, NEW k \in DOMAIN Reviews!Right,
               Reviews!Compatible(Reviews!Left[i], Reviews!Right[k])
        PROVE  \E q \in more : q[1] = i \/ q[2] = k
    <3>1. CASE i = n
      BY <2>5, <3>1
    <3>2. CASE i # n
      BY <1>0, <1>1, <2>8, <3>2
    <3> QED BY <3>1, <3>2
  <2> QED BY <2>1, <2>6, <2>7, <2>8 DEF MatchedWell
<1> QED BY <1>2, <1>3

LEMMA MatchedStaysGood ==
  ASSUME ReviewsType
  PROVE  MatchedWell(Reviews!MatchFindings, Len(Reviews!Left))
<1> DEFINE T == {n \in Nat : n <= Len(Reviews!Left) => MatchedWell(Reviews!matched[n], n)}
<1>1. Len(Reviews!Left) \in Nat
  BY DEF ReviewsType
<1>2. 0 \in T
  BY MatchedIs DEF MatchedWell
<1>3. ASSUME NEW n \in T PROVE n + 1 \in T
  <2> SUFFICES ASSUME n + 1 <= Len(Reviews!Left)
               PROVE  MatchedWell(Reviews!matched[n + 1], n + 1)
    OBVIOUS
  <2>1. n + 1 \in 1 .. Len(Reviews!Left) /\ (n + 1) - 1 = n /\ n <= Len(Reviews!Left)
    BY <1>1
  <2>2. MatchedWell(Reviews!matched[n], n)
    BY <2>1
  <2>3. Reviews!matched[n + 1] = Reviews!Match(Reviews!matched[n], n + 1)
    BY <2>1, MatchedIs
  <2> HIDE DEF T
  <2> QED BY <2>1, <2>2, <2>3, MatchStaysGood
<1> HIDE DEF T
<1>4. T \in SUBSET Nat
  BY DEF T
<1>5. Len(Reviews!Left) \in T
  BY <1>1, <1>2, <1>3, <1>4, SetInduction
<1> QED BY <1>1, <1>5 DEF T, Reviews!MatchFindings

(* Pairs as many as there are places, one to one, leave no place out.      *)
LEMMA PairsCover ==
  ASSUME NEW top \in Nat, NEW pairs, NEW side,
         \A q \in pairs : q[side] \in 1 .. top,
         \A q, r \in pairs : q # r => q[side] # r[side],
         Cardinality(pairs) = top
  PROVE  \A i \in 1 .. top : \E q \in pairs : q[side] = i
<1> DEFINE f == [q \in pairs |-> q[side]]
<1>3. f \in Injection(pairs, 1 .. top)
  <2>1. f \in [pairs -> 1 .. top]
    OBVIOUS
  <2>2. \A q, r \in pairs : f[q] = f[r] => q = r
    OBVIOUS
  <2> HIDE DEF f
  <2> QED BY <2>1, <2>2 DEF Injection, IsInjective
<1>4. IsFiniteSet(1 .. top) /\ Cardinality(1 .. top) = top
  BY FS_Interval
<1>5. Cardinality(pairs) = Cardinality(1 .. top)
  BY <1>4
<1> HIDE DEF f
<1>6. f \in Surjection(pairs, 1 .. top)
  BY <1>3, <1>4, <1>5, FS_Injection
<1>7. \A i \in 1 .. top : \E q \in pairs : f[q] = i
  BY <1>6 DEF Surjection
<1> QED BY <1>7 DEF f

-----------------------------------------------------------------------------
(* Reconciliation: the invariant. *)

\* A verdict is of findings that no longer change.
ReviewsInv ==
  /\ Reviews!TypeOK /\ Reviews!VerdictIsEarned
  /\ result # Reviews!NoResult => \A side \in {1, 2} : worker[side].status # "running"

LEMMA ReviewsAreTyped ==
  ASSUME Reviews!TypeOK PROVE ReviewsType
BY DEF ReviewsType, Reviews!TypeOK, Reviews!Left, Reviews!Right, Reviews!Sides

LEMMA ReviewsFindKeeps ==
  ASSUME ReviewsInv, NEW side \in {1, 2}, NEW f \in ReviewFindings, Reviews!Find(side, f)
  PROVE  ReviewsInv'
<1>1. result = Reviews!NoResult /\ result' = Reviews!NoResult
  BY DEF ReviewsInv, Reviews!Find, Reviews!NoResult
<1>2. worker' = [worker EXCEPT ![side].findings = Append(@, f)]
  BY DEF Reviews!Find
<1>3. worker' \in [{1, 2} -> [status : {"running", "completed", "failed"},
                              findings : Seq(ReviewFindings)]]
  <2>1. worker[side].findings \in Seq(ReviewFindings)
    BY DEF ReviewsInv, Reviews!TypeOK, Reviews!Sides
  <2>2. PICK more \in Seq(ReviewFindings) : worker' = [worker EXCEPT ![side].findings = more]
    <3>1. Append(worker[side].findings, f) \in Seq(ReviewFindings)
      BY <2>1
    <3>2. worker' = [worker EXCEPT ![side].findings = Append(worker[side].findings, f)]
      BY <1>2 DEF ReviewsInv, Reviews!TypeOK, Reviews!Sides
    <3> QED BY <3>1, <3>2
  <2> QED BY <2>2 DEF ReviewsInv, Reviews!TypeOK, Reviews!Sides
<1>4. Reviews!TypeOK'
  BY <1>1, <1>3 DEF ReviewsInv, Reviews!TypeOK, Reviews!Sides
<1> QED BY <1>1, <1>4 DEF ReviewsInv, Reviews!VerdictIsEarned, Reviews!NoResult

LEMMA ReviewsFinishKeeps ==
  ASSUME ReviewsInv, NEW side \in {1, 2}, NEW status0 \in {"completed", "failed"},
         Reviews!Finish(side, status0)
  PROVE  ReviewsInv'
<1>1. result = Reviews!NoResult /\ result' = Reviews!NoResult
  BY DEF ReviewsInv, Reviews!Finish, Reviews!NoResult
<1>2. worker' = [worker EXCEPT ![side].status = status0,
                               ![side].findings = IF status0 = "failed" THEN <<>> ELSE @]
  BY DEF Reviews!Finish
<1>3. worker' \in [{1, 2} -> [status : {"running", "completed", "failed"},
                              findings : Seq(ReviewFindings)]]
  <2>1. worker[side].findings \in Seq(ReviewFindings) /\ <<>> \in Seq(ReviewFindings)
    BY DEF ReviewsInv, Reviews!TypeOK, Reviews!Sides
  <2>2. PICK left \in Seq(ReviewFindings) :
          worker' = [worker EXCEPT ![side].status = status0, ![side].findings = left]
    <3>1. CASE status0 = "failed"
      BY <1>2, <2>1, <3>1
    <3>2. CASE status0 # "failed"
      <4>1. worker' = [worker EXCEPT ![side].status = status0,
                                     ![side].findings = worker[side].findings]
        BY <1>2, <3>2 DEF ReviewsInv, Reviews!TypeOK, Reviews!Sides
      <4> QED BY <2>1, <4>1
    <3> QED BY <3>1, <3>2
  <2> QED BY <2>2 DEF ReviewsInv, Reviews!TypeOK, Reviews!Sides
<1>4. Reviews!TypeOK'
  BY <1>1, <1>3 DEF ReviewsInv, Reviews!TypeOK, Reviews!Sides
<1> QED BY <1>1, <1>4 DEF ReviewsInv, Reviews!VerdictIsEarned, Reviews!NoResult

LEMMA ReviewsReconcileKeeps ==
  ASSUME ReviewsInv, Reviews!Reconcile
  PROVE  ReviewsInv'
<1> DEFINE pairs == Reviews!MatchFindings
           n == Len(Reviews!Left)
           m == Len(Reviews!Right)
<1>1. UNCHANGED worker /\ \A side \in {1, 2} : worker'[side].status # "running"
  BY DEF Reviews!Reconcile, Reviews!Sides
<1>2. /\ (Reviews!Left)' = Reviews!Left /\ (Reviews!Right)' = Reviews!Right
      /\ (Reviews!FilesOf(1))' = Reviews!FilesOf(1) /\ (Reviews!FilesOf(2))' = Reviews!FilesOf(2)
  BY <1>1 DEF Reviews!Left, Reviews!Right, Reviews!FilesOf
<1>3. ReviewsType
  BY ReviewsAreTyped DEF ReviewsInv
<1>4. /\ n \in Nat /\ m \in Nat
      /\ DOMAIN Reviews!Left = 1 .. n /\ DOMAIN Reviews!Right = 1 .. m
  BY <1>3 DEF ReviewsType
<1>5. MatchedWell(pairs, n)
  BY <1>3, MatchedStaysGood
<1>6. Reviews!Classification(pairs) \in {"DISAGREEMENT", "PARTIAL_AGREEMENT", "AGREEMENT"}
  BY DEF Reviews!Classification
<1>7. CASE \E side \in {1, 2} : worker[side].status = "failed" \/ Reviews!FilesOf(side) = {}
  <2>1. result' = [Reviews!NoResult EXCEPT !.classification = "UNRESOLVED"]
    BY <1>7 DEF Reviews!Reconcile, Reviews!Sides
  <2>2. result'.classification = "UNRESOLVED"
    BY <2>1 DEF Reviews!NoResult
  <2> QED BY <1>1, <2>2 DEF ReviewsInv, Reviews!TypeOK, Reviews!VerdictIsEarned
<1>8. CASE ~(\E side \in {1, 2} : worker[side].status = "failed" \/ Reviews!FilesOf(side) = {})
  <2>1. /\ result'.classification = Reviews!Classification(pairs) /\ result'.pairs = pairs
    BY <1>8 DEF Reviews!Reconcile, Reviews!Sides
  <2>2. Reviews!TypeOK'
    BY <1>1, <1>6, <2>1 DEF ReviewsInv, Reviews!TypeOK
  <2>3. /\ \A q \in pairs : \E i \in 1 .. n, k \in 1 .. m :
             q = <<i, k>> /\ Reviews!Compatible(Reviews!Left[i], Reviews!Right[k])
        /\ \A q, r \in pairs : q # r => q[1] # r[1] /\ q[2] # r[2]
        /\ \A i \in 1 .. n, k \in 1 .. m :
             Reviews!Compatible(Reviews!Left[i], Reviews!Right[k]) =>
               \E q \in pairs : q[1] = i \/ q[2] = k
    BY <1>4, <1>5 DEF MatchedWell
  <2>4. \A q \in pairs : Reviews!Compatible(Reviews!Left[q[1]], Reviews!Right[q[2]])
    BY <2>3
  <2>5. (Reviews!Classification(pairs) = "DISAGREEMENT") = (pairs = {})
    BY DEF Reviews!Classification
  <2>6. (pairs = {}) = (\A i \in 1 .. n, k \in 1 .. m :
                          ~Reviews!Compatible(Reviews!Left[i], Reviews!Right[k]))
    BY <2>3
  <2>7. ASSUME Reviews!Classification(pairs) = "AGREEMENT"
        PROVE  /\ \A i \in 1 .. n : \E q \in pairs : q[1] = i
               /\ \A k \in 1 .. m : \E q \in pairs : q[2] = k
               /\ Reviews!FilesOf(1) = Reviews!FilesOf(2)
    <3>1. /\ Cardinality(pairs) = n /\ Cardinality(pairs) = m
          /\ Reviews!FilesOf(1) = Reviews!FilesOf(2)
      BY <2>7, ReviewsCount DEF Reviews!Classification
    <3>2. \A q \in pairs : q[1] \in 1 .. n /\ q[2] \in 1 .. m
      BY <2>3
    <3>3. /\ \A q, r \in pairs : q # r => q[1] # r[1]
          /\ \A q, r \in pairs : q # r => q[2] # r[2]
      BY <2>3
    <3>4. n \in Nat /\ m \in Nat
      BY <1>4
    <3> HIDE DEF pairs, n, m
    <3>5. \A q \in pairs : q[1] \in 1 .. n
      BY <3>2
    <3>6. \A q \in pairs : q[2] \in 1 .. m
      BY <3>2
    <3>7. \A i \in 1 .. n : \E q \in pairs : q[1] = i
      BY <3>1, <3>3, <3>4, <3>5, PairsCover
    <3>8. \A k \in 1 .. m : \E q \in pairs : q[2] = k
      BY <3>1, <3>3, <3>4, <3>6, PairsCover
    <3> QED BY <3>1, <3>7, <3>8
  <2> HIDE DEF pairs
  <2>8. Reviews!VerdictIsEarned'
    <3> DEFINE fits(i, k) == Reviews!Compatible(Reviews!Left[i], Reviews!Right[k])
    <3>1. \A i, k : (Reviews!Compatible(Reviews!Left[i], Reviews!Right[k]))' = fits(i, k)
      BY <1>2 DEF Reviews!Compatible
    <3>2. (result.classification = "DISAGREEMENT")' = (\A i \in 1 .. n, k \in 1 .. m : ~fits(i, k))
      BY <2>1, <2>5, <2>6
    <3>3. /\ \A q, r \in pairs : q # r => q[1] # r[1] /\ q[2] # r[2]
          /\ \A i \in 1 .. n, k \in 1 .. m : fits(i, k) => \E q \in pairs : q[1] = i \/ q[2] = k
          /\ \A q \in pairs : fits(q[1], q[2])
      BY <2>3, <2>4
    <3> HIDE DEF fits, n, m
    <3>4. result'.pairs = pairs /\ (result.classification)' = Reviews!Classification(pairs)
      BY <2>1
    <3>5. DOMAIN (Reviews!Left)' = 1 .. n /\ DOMAIN (Reviews!Right)' = 1 .. m
      BY <1>2, <1>4
    <3>6. Reviews!Classification(pairs) = "AGREEMENT" =>
            /\ \A i \in 1 .. n : \E q \in pairs : q[1] = i
            /\ \A k \in 1 .. m : \E q \in pairs : q[2] = k
            /\ (Reviews!FilesOf(1) = Reviews!FilesOf(2))'
      BY <1>2, <2>7
    <3>7. \A q \in result'.pairs :
            (Reviews!Compatible(Reviews!Left[q[1]], Reviews!Right[q[2]]))'
      BY <3>1, <3>3, <3>4
    <3>8. (result.classification = "DISAGREEMENT")' =
            (\A i \in 1 .. n, k \in 1 .. m :
              ~(Reviews!Compatible(Reviews!Left[i], Reviews!Right[k]))')
      <4>1. (\A i \in 1 .. n, k \in 1 .. m : ~fits(i, k)) =
              (\A i \in 1 .. n, k \in 1 .. m :
                ~(Reviews!Compatible(Reviews!Left[i], Reviews!Right[k]))')
        BY <3>1
      <4> QED BY <3>2, <4>1
    <3>9. \A i \in 1 .. n, k \in 1 .. m :
            (Reviews!Compatible(Reviews!Left[i], Reviews!Right[k]))' =>
              \E q \in pairs : q[1] = i \/ q[2] = k
      BY <3>1, <3>3
    <3> HIDE DEF fits
    <3> HIDE DEF pairs
    <3> QED
      BY <3>3, <3>4, <3>5, <3>6, <3>7, <3>8, <3>9, ZenonT(30) DEF Reviews!VerdictIsEarned
  <2> QED BY <1>1, <2>2, <2>8 DEF ReviewsInv
<1> QED BY <1>7, <1>8

LEMMA ReviewsNextKeeps ==
  ASSUME ReviewsInv, Reviews!Next
  PROVE  ReviewsInv'
BY ReviewsFindKeeps, ReviewsFinishKeeps, ReviewsReconcileKeeps
DEF Reviews!Next, Reviews!Sides

LEMMA ReviewsBegin ==
  ASSUME Reviews!Init
  PROVE  ReviewsInv
BY DEF Reviews!Init, ReviewsInv, Reviews!TypeOK, Reviews!Sides, Reviews!NoResult,
   Reviews!VerdictIsEarned

LEMMA ReviewsUnchangedKeeps ==
  ASSUME ReviewsInv, UNCHANGED <<worker, result>>
  PROVE  ReviewsInv'
<1>1. /\ (Reviews!Left)' = Reviews!Left /\ (Reviews!Right)' = Reviews!Right
      /\ (Reviews!FilesOf(1))' = Reviews!FilesOf(1) /\ (Reviews!FilesOf(2))' = Reviews!FilesOf(2)
      /\ (Reviews!NoResult)' = Reviews!NoResult
  BY DEF Reviews!Left, Reviews!Right, Reviews!FilesOf, Reviews!NoResult
<1>2. Reviews!TypeOK'
  BY DEF ReviewsInv, Reviews!TypeOK
<1>3. Reviews!VerdictIsEarned'
  BY <1>1 DEF ReviewsInv, Reviews!VerdictIsEarned, Reviews!Compatible
<1> QED BY <1>1, <1>2, <1>3 DEF ReviewsInv

-----------------------------------------------------------------------------
(* Sets of numbers in their order. *)

\* A sequence of the elements of a set, from the least to the greatest.
Ordered(s, set) ==
  /\ s \in [1 .. Cardinality(set) -> set]
  /\ \A i, k \in 1 .. Cardinality(set) : i < k => s[i] < s[k]

LEMMA OrderExists ==
  ASSUME NEW m \in Nat
  PROVE  \A set \in SUBSET (1 .. m) : \E s : Ordered(s, set)
<1> DEFINE T == {n \in Nat : \A set \in SUBSET (1 .. n) : \E s : Ordered(s, set)}
<1>1. 0 \in T
  <2>1. 1 .. 0 = {} /\ Cardinality({}) = 0
    BY FS_EmptySet
  <2>2. Ordered(<<>>, {})
    BY <2>1 DEF Ordered
  <2>3. \A set \in SUBSET (1 .. 0) : set = {}
    BY <2>1
  <2> QED BY <2>2, <2>3
<1>2. ASSUME NEW n \in T PROVE n + 1 \in T
  <2>1. n \in Nat
    OBVIOUS
  <2>2. ASSUME NEW set \in SUBSET (1 .. n + 1)
        PROVE  \E s : Ordered(s, set)
    <3>1. CASE n + 1 \notin set
      <4>1. set \in SUBSET (1 .. n)
        <5>1. \A x \in 1 .. n + 1 : x # n + 1 => x \in 1 .. n
          BY <2>1
        <5> QED BY <3>1, <5>1
      <4> QED BY <4>1
    <3>2. CASE n + 1 \in set
      <4> DEFINE less == set \ {n + 1}
      <4>1. less \in SUBSET (1 .. n)
        <5>1. \A x \in 1 .. n + 1 : x # n + 1 => x \in 1 .. n
          BY <2>1
        <5> QED BY <5>1
      <4>2. PICK s : Ordered(s, less)
        BY <4>1
      <4> DEFINE c == Cardinality(less)
                 t == [i \in 1 .. c + 1 |-> IF i = c + 1 THEN n + 1 ELSE s[i]]
      <4>3. c \in Nat /\ Cardinality(set) = c + 1
        <5>1. IsFiniteSet(1 .. n)
          BY <2>1, FS_Interval
        <5>2. IsFiniteSet(less)
          BY <4>1, <5>1, FS_Subset
        <5>3. set = less \cup {n + 1} /\ n + 1 \notin less
          BY <3>2
        <5> HIDE DEF less
        <5> QED BY <5>2, <5>3, FS_AddElement, FS_CardinalityType DEF c
      <4>4. /\ \A i \in 1 .. c : s[i] \in less
            /\ \A i, k \in 1 .. c : i < k => s[i] < s[k]
        BY <4>2 DEF Ordered
      <4> HIDE DEF c
      <4>5. \A i \in 1 .. c + 1 : i # c + 1 => i \in 1 .. c
        BY <4>3
      <4>6. t \in [1 .. c + 1 -> set]
        BY <3>2, <4>4, <4>5
      <4>7. \A i, k \in 1 .. c + 1 : i < k => t[i] < t[k]
        <5> SUFFICES ASSUME NEW i \in 1 .. c + 1, NEW k \in 1 .. c + 1, i < k
                     PROVE  t[i] < t[k]
          OBVIOUS
        <5>1. i \in 1 .. c /\ t[i] = s[i]
          BY <4>3
        <5>2. CASE k = c + 1
          <6>1. s[i] \in 1 .. n
            BY <4>1, <4>4, <5>1
          <6> QED BY <2>1, <5>1, <5>2, <6>1
        <5>3. CASE k # c + 1
          BY <4>4, <4>5, <5>1, <5>3
        <5> QED BY <5>2, <5>3
      <4> HIDE DEF t
      <4>8. Ordered(t, set)
        BY <4>3, <4>6, <4>7 DEF Ordered
      <4> QED BY <4>8
    <3> QED BY <3>1, <3>2
  <2> QED BY <2>1, <2>2
<1> HIDE DEF T
<1>3. T \in SUBSET Nat
  BY DEF T
<1>4. T = Nat
  BY <1>1, <1>2, <1>3, SetInduction
<1> QED BY <1>4 DEF T

\* A sequence that leaves no element of a set out.
Covers(s, set) == \A x \in set : \E i \in 1 .. Len(s) : s[i] = x

(* Such a sequence has each element at one place.                          *)
LEMMA OrderedTells ==
  ASSUME NEW m \in Nat, NEW set \in SUBSET (1 .. m), NEW s, Ordered(s, set)
  PROVE  /\ s \in Seq(set) /\ Len(s) = Cardinality(set)
         /\ \A i, k \in 1 .. Len(s) : i < k => s[i] < s[k]
         /\ \A i, k \in 1 .. Len(s) : s[i] = s[k] => i = k
         /\ Covers(s, set)
<1> DEFINE n == Cardinality(set)
<1>1. IsFiniteSet(set)
  <2>1. IsFiniteSet(1 .. m)
    BY FS_Interval
  <2> QED BY <2>1, FS_Subset
<1>2. n \in Nat
  BY <1>1, FS_CardinalityType
<1>3. IsFiniteSet(1 .. n) /\ Cardinality(1 .. n) = n
  BY <1>2, FS_Interval
<1>4. s \in [1 .. n -> set] /\ \A i, k \in 1 .. n : i < k => s[i] < s[k]
  BY DEF Ordered
<1>5. s \in Seq(set) /\ Len(s) = n
  BY <1>2, <1>4
<1>6. \A i, k \in 1 .. n : s[i] = s[k] => i = k
  <2> SUFFICES ASSUME NEW i \in 1 .. n, NEW k \in 1 .. n, s[i] = s[k] PROVE i = k
    OBVIOUS
  <2>1. ~(s[i] < s[k]) /\ ~(s[k] < s[i])
    <3>1. s[i] \in 1 .. m
      BY <1>4
    <3> QED BY <3>1
  <2>2. ~(i < k) /\ ~(k < i)
    BY <1>4, <2>1
  <2> QED BY <1>2, <2>2
<1> HIDE DEF n
<1>7. s \in Injection(1 .. n, set)
  BY <1>4, <1>6 DEF Injection, IsInjective
<1>8. s \in Surjection(1 .. n, set)
  BY <1>1, <1>3, <1>7, FS_Injection DEF n
<1>9. \A x \in set : \E i \in 1 .. n : s[i] = x
  BY <1>8 DEF Surjection
<1>10. Covers(s, set)
  BY <1>5, <1>9 DEF Covers
<1> QED BY <1>4, <1>5, <1>6, <1>10 DEF n

-----------------------------------------------------------------------------
(* ExecutionGraph: the inductive invariant. *)

Cancelled == \E i \in DOMAIN events : events[i] = "cancelled"

GraphStands ==
  /\ Graphs!TypeOK
  /\ graph \in {"created", "ready"} => orchestrator = "idle"
  /\ graph = "completed" => orchestrator = "returned"
  /\ graph = "cancelled" => Cancelled
  /\ orchestrator = "node" => batch # <<>>
  /\ orchestrator = "node" /\ graph # "running" => Cancelled

\* The nodes the orchestrator still goes through are different ones that wait for
\* nothing any more, and only the first of them may be running.
BatchIsReady ==
  /\ \A i, k \in 1 .. Len(batch) : batch[i] = batch[k] => i = k
  /\ \A i \in 1 .. Len(batch) :
       /\ \A d \in dependencies[batch[i]] : d \in 1 .. LastNode /\ status[d] = "completed"
       /\ status[batch[i]] = IF i = 1 /\ orchestrator = "node" THEN "running" ELSE "pending"
  /\ \A n \in 1 .. LastNode : status[n] = "running" => orchestrator = "node" /\ n = batch[1]

StatusesHold ==
  /\ \A n \in 1 .. LastNode :
       /\ status[n] \in {"running", "completed", "failed"} =>
            \A d \in dependencies[n] : d \in 1 .. LastNode /\ status[d] = "completed"
       /\ status[n] = "blocked" =>
            \E d \in dependencies[n] : d \in 1 .. LastNode /\ status[d] = "failed"
       /\ status[n] # "failed" => retryCount[n] <= MaxRetries
  /\ graph = "completed" => \A n \in 1 .. LastNode : status[n] = "completed"

ArchiveHolds ==
  /\ archive # <<>> => graph = "archived"
  /\ archive # <<>> /\ archive # status => Cancelled

GraphInv == GraphStands /\ BatchIsReady /\ StatusesHold /\ ArchiveHolds

-----------------------------------------------------------------------------
(* ExecutionGraph: every step keeps the invariant. *)

LEMMA GraphsCount == \A S : Graphs!Cardinality(S) = Cardinality(S)
BY DEF Graphs!Cardinality, Cardinality

LEMMA GraphsOrder ==
  ASSUME NEW set \in SUBSET (1 .. LastNode)
  PROVE  Ordered(Graphs!InOrder(set), set)
<1>1. PICK s : Ordered(s, set)
  BY DocumentBoundsAreNat, OrderExists
<1>2. /\ s \in [1 .. Graphs!Cardinality(set) -> set]
      /\ \A i, k \in DOMAIN s : i < k => s[i] < s[k]
  BY <1>1, GraphsCount DEF Ordered
<1>3. /\ Graphs!InOrder(set) \in [1 .. Graphs!Cardinality(set) -> set]
      /\ \A i, k \in DOMAIN Graphs!InOrder(set) :
           i < k => Graphs!InOrder(set)[i] < Graphs!InOrder(set)[k]
  BY <1>2 DEF Graphs!InOrder
<1>4. Graphs!InOrder(set) \in [1 .. Cardinality(set) -> set]
  BY <1>3, GraphsCount
<1> QED BY <1>3, <1>4 DEF Ordered

LEMMA EventsGrow ==
  ASSUME Graphs!TypeOK, NEW e \in {"started", "completed", "failed", "cancelled", "archived"},
         events' = Append(events, e)
  PROVE  /\ events' \in Seq({"started", "completed", "failed", "cancelled", "archived"})
         /\ Cancelled => Cancelled'
         /\ e = "cancelled" => Cancelled'
<1>1. events \in Seq({"started", "completed", "failed", "cancelled", "archived"})
  BY DEF Graphs!TypeOK
<1>2. /\ Len(events) \in Nat /\ DOMAIN events = 1 .. Len(events)
      /\ DOMAIN events' = 1 .. Len(events) + 1
      /\ events'[Len(events) + 1] = e
      /\ \A i \in 1 .. Len(events) : events'[i] = events[i] /\ i \in 1 .. Len(events) + 1
  BY <1>1
<1>3. Len(events) + 1 \in 1 .. Len(events) + 1
  BY <1>2
<1> QED BY <1>1, <1>2, <1>3 DEF Cancelled

LEMMA GraphBuildKeeps ==
  ASSUME GraphInv, Graphs!BuildGraph
  PROVE  GraphInv'
<1> USE DEF GraphInv
<1>1. /\ graph = "created" /\ graph' \in {"ready", "failed"}
      /\ UNCHANGED <<dependencies, status, retryCount, batch, orchestrator, archive, replays>>
      /\ events' = events \/ events' = Append(events, "failed")
  BY DEF Graphs!BuildGraph
<1>2. /\ events' \in Seq({"started", "completed", "failed", "cancelled", "archived"})
      /\ Cancelled => Cancelled'
  <2>1. CASE events' = events
    BY <2>1 DEF GraphStands, Graphs!TypeOK, Cancelled
  <2>2. CASE events' = Append(events, "failed")
    BY <2>2, EventsGrow DEF GraphStands
  <2> QED BY <1>1, <2>1, <2>2
<1>3. GraphStands'
  BY <1>1, <1>2 DEF GraphStands, Graphs!TypeOK, Graphs!Legal
<1>4. BatchIsReady'
  BY <1>1 DEF BatchIsReady
<1>5. StatusesHold'
  BY <1>1 DEF StatusesHold
<1>6. ArchiveHolds'
  BY <1>1, <1>2 DEF ArchiveHolds
<1> QED BY <1>3, <1>4, <1>5, <1>6

(* From where a graph can be started, cancelled, ended and archived.       *)
LEMMA LegalMoves ==
  ASSUME Graphs!TypeOK
  PROVE  /\ Graphs!CanTransition("running") => graph = "ready"
         /\ Graphs!CanTransition("cancelled") => graph \in {"ready", "running"}
         /\ Graphs!CanTransition("archived") => graph \in {"completed", "failed", "cancelled"}
         /\ Graphs!CanTransition("completed") => graph = "running"
<1>1. graph \in {"created", "validated", "ready", "running", "completed", "failed",
                "cancelled", "archived"}
  BY DEF Graphs!TypeOK, Graphs!Legal
<1> QED BY <1>1 DEF Graphs!CanTransition, Graphs!Legal

LEMMA GraphStartKeeps ==
  ASSUME GraphInv, Graphs!Start
  PROVE  GraphInv'
<1> USE DEF GraphInv
<1>1. /\ graph = "ready" /\ graph' = "running"
      /\ orchestrator = "idle" /\ orchestrator' = "loop"
      /\ UNCHANGED <<dependencies, status, retryCount, batch, archive, replays>>
      /\ events' = Append(events, "started")
  BY LegalMoves DEF Graphs!Start, GraphStands, Graphs!TypeOK
<1>2. /\ events' \in Seq({"started", "completed", "failed", "cancelled", "archived"})
      /\ Cancelled => Cancelled'
  BY <1>1, EventsGrow DEF GraphStands
<1>3. GraphStands'
  BY <1>1, <1>2 DEF GraphStands, Graphs!TypeOK, Graphs!Legal
<1>4. BatchIsReady'
  BY <1>1 DEF BatchIsReady
<1>5. StatusesHold'
  BY <1>1 DEF StatusesHold
<1>6. ArchiveHolds'
  BY <1>1, <1>2 DEF ArchiveHolds
<1> QED BY <1>3, <1>4, <1>5, <1>6

LEMMA GraphCancelKeeps ==
  ASSUME GraphInv, Graphs!Cancel
  PROVE  GraphInv'
<1> USE DEF GraphInv
<1>1. /\ graph \in {"ready", "running"} /\ graph' = "cancelled"
      /\ UNCHANGED <<dependencies, status, retryCount, batch, orchestrator, archive, replays>>
      /\ events' = Append(events, "cancelled")
  BY LegalMoves DEF Graphs!Cancel, GraphStands, Graphs!TypeOK
<1>2. /\ events' \in Seq({"started", "completed", "failed", "cancelled", "archived"})
      /\ Cancelled'
  BY <1>1, EventsGrow DEF GraphStands
<1>3. GraphStands'
  BY <1>1, <1>2 DEF GraphStands, Graphs!TypeOK, Graphs!Legal
<1>4. BatchIsReady'
  BY <1>1 DEF BatchIsReady
<1>5. StatusesHold'
  BY <1>1 DEF StatusesHold
<1>6. ArchiveHolds'
  BY <1>1, <1>2 DEF ArchiveHolds
<1> QED BY <1>3, <1>4, <1>5, <1>6

LEMMA GraphArchiveKeeps ==
  ASSUME GraphInv, Graphs!Archive
  PROVE  GraphInv'
<1> USE DEF GraphInv
<1>1. /\ graph \in {"completed", "failed", "cancelled"} /\ graph' = "archived"
      /\ UNCHANGED <<dependencies, status, retryCount, batch, orchestrator, replays>>
      /\ events' = Append(events, "archived")
      /\ archive' = [n \in 1 .. LastNode |-> status[n]]
  BY LegalMoves DEF Graphs!Archive, GraphStands, Graphs!TypeOK
<1>2. /\ events' \in Seq({"started", "completed", "failed", "cancelled", "archived"})
      /\ Cancelled => Cancelled'
  BY <1>1, EventsGrow DEF GraphStands
<1>3. archive' = status'
  BY <1>1 DEF GraphStands, Graphs!TypeOK
<1>4. GraphStands'
  BY <1>1, <1>2 DEF GraphStands, Graphs!TypeOK, Graphs!Legal
<1>5. BatchIsReady'
  BY <1>1 DEF BatchIsReady
<1>6. StatusesHold'
  BY <1>1 DEF StatusesHold
<1>7. ArchiveHolds'
  BY <1>1, <1>3 DEF ArchiveHolds
<1> QED BY <1>4, <1>5, <1>6, <1>7

LEMMA GraphReplayKeeps ==
  ASSUME GraphInv, Graphs!Replay
  PROVE  GraphInv'
<1> USE DEF GraphInv
<1>1. /\ replays' \in 0 .. MaxReplays
      /\ UNCHANGED <<dependencies, graph, status, retryCount, batch, orchestrator, events,
                     archive>>
  BY DocumentBoundsAreNat DEF Graphs!Replay, GraphStands, Graphs!TypeOK
<1>2. GraphStands'
  BY <1>1 DEF GraphStands, Graphs!TypeOK, Graphs!Legal, Cancelled
<1>3. BatchIsReady' /\ StatusesHold' /\ ArchiveHolds'
  BY <1>1 DEF BatchIsReady, StatusesHold, ArchiveHolds, Cancelled
<1> QED BY <1>2, <1>3

(* What the orchestrator's steps leave alone.                              *)
LEMMA ReadyInOrder ==
  ASSUME Graphs!TypeOK
  PROVE  LET nodes == Graphs!InOrder(Graphs!ReadyNodes) IN
         /\ nodes \in Seq(1 .. LastNode)
         /\ \A i, k \in 1 .. Len(nodes) : nodes[i] = nodes[k] => i = k
         /\ \A i \in 1 .. Len(nodes) :
              /\ status[nodes[i]] = "pending"
              /\ \A d \in dependencies[nodes[i]] : d \in 1 .. LastNode /\ status[d] = "completed"
<1> DEFINE nodes == Graphs!InOrder(Graphs!ReadyNodes)
<1>1. Graphs!ReadyNodes \in SUBSET (1 .. LastNode)
  BY DEF Graphs!ReadyNodes
<1>2. Ordered(nodes, Graphs!ReadyNodes)
  BY <1>1, GraphsOrder
<1> HIDE DEF nodes
<1>3. /\ nodes \in Seq(Graphs!ReadyNodes)
      /\ \A i, k \in 1 .. Len(nodes) : nodes[i] = nodes[k] => i = k
  BY <1>1, <1>2, DocumentBoundsAreNat, OrderedTells
<1>4. \A i \in 1 .. Len(nodes) : nodes[i] \in Graphs!ReadyNodes
  BY <1>3
<1>5. nodes \in Seq(1 .. LastNode)
  BY <1>1, <1>3, SeqMonotonic
<1> QED BY <1>3, <1>4, <1>5 DEF nodes, Graphs!ReadyNodes

LEMMA GraphExecuteKeeps ==
  ASSUME GraphInv, Graphs!ExecuteNode
  PROVE  GraphInv'
<1> USE DEF GraphInv
<1> DEFINE nodes == IF batch = <<>> THEN Graphs!InOrder(Graphs!ReadyNodes) ELSE batch
<1>1. /\ graph = "running" /\ orchestrator = "loop" /\ orchestrator' = "node"
      /\ nodes # <<>> /\ batch' = nodes
      /\ status' = [status EXCEPT ![Head(nodes)] = "running"]
      /\ UNCHANGED <<dependencies, graph, retryCount, events, archive, replays>>
  BY DEF Graphs!ExecuteNode
<1>2. /\ nodes \in Seq(1 .. LastNode)
      /\ \A i, k \in 1 .. Len(nodes) : nodes[i] = nodes[k] => i = k
      /\ \A i \in 1 .. Len(nodes) :
           /\ status[nodes[i]] = "pending"
           /\ \A d \in dependencies[nodes[i]] : d \in 1 .. LastNode /\ status[d] = "completed"
  <2>1. CASE batch = <<>>
    BY <2>1, ReadyInOrder DEF GraphStands
  <2>2. CASE batch # <<>>
    BY <1>1, <2>2 DEF GraphStands, BatchIsReady, Graphs!TypeOK
  <2> QED BY <2>1, <2>2
<1> HIDE DEF nodes
<1>3. /\ Len(nodes) \in Nat /\ 1 \in 1 .. Len(nodes) /\ Head(nodes) = nodes[1]
      /\ nodes[1] \in 1 .. LastNode
      /\ \A i \in 1 .. Len(nodes) : nodes[i] \in 1 .. LastNode
  <2>1. nodes \in Seq(1 .. LastNode) /\ nodes # <<>>
    BY <1>1, <1>2
  <2>2. Len(nodes) \in Nat \ {0}
    BY <2>1, EmptySeq
  <2>3. Head(nodes) = nodes[1]
    OBVIOUS
  <2>4. \A i \in 1 .. Len(nodes) : nodes[i] \in 1 .. LastNode
    BY <2>1, ElementOfSeq
  <2> QED BY <2>2, <2>3, <2>4
<1>4. status \in [1 .. LastNode -> {"pending", "running", "completed", "failed", "blocked"}]
  BY DEF GraphStands, Graphs!TypeOK
<1>5. /\ status' \in [1 .. LastNode -> {"pending", "running", "completed", "failed", "blocked"}]
      /\ status'[nodes[1]] = "running"
      /\ \A n \in 1 .. LastNode : n # nodes[1] => status'[n] = status[n]
  BY <1>1, <1>3, <1>4
<1>6. \A n \in 1 .. LastNode : status[n] # "running"
  BY <1>1 DEF BatchIsReady
<1>7. \A n \in 1 .. LastNode :
        /\ status[n] = "completed" => status'[n] = "completed"
        /\ status[n] = "failed" => status'[n] = "failed"
  BY <1>2, <1>3, <1>5
<1>8. GraphStands'
  BY <1>1, <1>2, <1>5 DEF GraphStands, Graphs!TypeOK, Graphs!Legal
<1>9. BatchIsReady'
  <2>1. \A i \in 1 .. Len(batch') :
          /\ \A d \in dependencies'[batch'[i]] : d \in 1 .. LastNode /\ status'[d] = "completed"
          /\ status'[batch'[i]] = IF i = 1 /\ orchestrator' = "node" THEN "running" ELSE "pending"
    <3> TAKE i \in 1 .. Len(batch')
    <3>1. i \in 1 .. Len(nodes) /\ batch'[i] = nodes[i]
      BY <1>1
    <3>2. \A d \in dependencies[nodes[i]] : d \in 1 .. LastNode /\ status'[d] = "completed"
      BY <1>2, <1>7, <3>1
    <3>3. CASE i = 1
      BY <1>1, <1>5, <3>1, <3>2, <3>3
    <3>4. CASE i # 1
      <4>1. nodes[i] # nodes[1]
        BY <1>2, <1>3, <3>1, <3>4
      <4> QED BY <1>1, <1>2, <1>3, <1>5, <3>1, <3>2, <3>4, <4>1
    <3> QED BY <3>3, <3>4
  <2>2. \A n \in 1 .. LastNode : status'[n] = "running" => orchestrator' = "node" /\ n = batch'[1]
    BY <1>1, <1>5, <1>6
  <2> QED BY <1>1, <1>2, <2>1, <2>2 DEF BatchIsReady
<1>10. StatusesHold'
  <2>1. ASSUME NEW n \in 1 .. LastNode
        PROVE  /\ status'[n] \in {"running", "completed", "failed"} =>
                    \A d \in dependencies[n] : d \in 1 .. LastNode /\ status'[d] = "completed"
               /\ status'[n] = "blocked" =>
                    \E d \in dependencies[n] : d \in 1 .. LastNode /\ status'[d] = "failed"
               /\ status'[n] # "failed" => retryCount[n] <= MaxRetries
    <3>1. CASE n = nodes[1]
      BY <1>2, <1>3, <1>5, <1>7, <3>1 DEF StatusesHold
    <3>2. CASE n # nodes[1]
      BY <1>5, <1>7, <3>2 DEF StatusesHold
    <3> QED BY <3>1, <3>2
  <2> QED BY <1>1, <2>1 DEF StatusesHold
<1>11. ArchiveHolds'
  BY <1>1 DEF ArchiveHolds
<1> QED BY <1>8, <1>9, <1>10, <1>11

(* The batch of an orchestrator that has begun a node, and what is left.   *)
LEMMA NodeAtHand ==
  ASSUME GraphInv, orchestrator = "node"
  PROVE  /\ batch \in Seq(1 .. LastNode) /\ Len(batch) \in Nat /\ Head(batch) = batch[1]
         /\ batch[1] \in 1 .. LastNode /\ status[batch[1]] = "running"
         /\ \A d \in dependencies[batch[1]] : d \in 1 .. LastNode /\ status[d] = "completed"
         /\ \A n \in 1 .. LastNode : status[n] = "running" => n = batch[1]
         /\ Tail(batch) \in Seq(1 .. LastNode) /\ Len(Tail(batch)) = Len(batch) - 1
         /\ \A i, k \in 1 .. Len(Tail(batch)) : Tail(batch)[i] = Tail(batch)[k] => i = k
         /\ \A i \in 1 .. Len(Tail(batch)) :
              /\ Tail(batch)[i] \in 1 .. LastNode /\ Tail(batch)[i] # batch[1]
              /\ status[Tail(batch)[i]] = "pending"
              /\ \A d \in dependencies[Tail(batch)[i]] :
                   d \in 1 .. LastNode /\ status[d] = "completed"
<1> USE DEF GraphInv
<1>1. batch \in Seq(1 .. LastNode) /\ batch # <<>>
  BY DEF GraphStands, Graphs!TypeOK
<1>2. /\ Len(batch) \in Nat \ {0} /\ Head(batch) = batch[1]
      /\ \A i \in 1 .. Len(batch) : batch[i] \in 1 .. LastNode
  <2>1. Len(batch) \in Nat \ {0}
    BY <1>1, EmptySeq
  <2>2. Head(batch) = batch[1]
    OBVIOUS
  <2>3. \A i \in 1 .. Len(batch) : batch[i] \in 1 .. LastNode
    BY <1>1, ElementOfSeq
  <2> QED BY <2>1, <2>2, <2>3
<1>3. /\ Tail(batch) \in Seq(1 .. LastNode) /\ Len(Tail(batch)) = Len(batch) - 1
      /\ \A i \in 1 .. Len(Tail(batch)) :
           i + 1 \in 1 .. Len(batch) /\ Tail(batch)[i] = batch[i + 1] /\ i + 1 # 1
  BY <1>1, <1>2
<1>4. 1 \in 1 .. Len(batch)
  BY <1>2
<1>5. /\ \A i, k \in 1 .. Len(batch) : batch[i] = batch[k] => i = k
      /\ \A i \in 1 .. Len(batch) :
           /\ \A d \in dependencies[batch[i]] : d \in 1 .. LastNode /\ status[d] = "completed"
           /\ status[batch[i]] = IF i = 1 THEN "running" ELSE "pending"
      /\ \A n \in 1 .. LastNode : status[n] = "running" => n = batch[1]
  BY DEF BatchIsReady
<1>6. \A i, k \in 1 .. Len(Tail(batch)) : Tail(batch)[i] = Tail(batch)[k] => i = k
  <2> SUFFICES ASSUME NEW i \in 1 .. Len(Tail(batch)), NEW k \in 1 .. Len(Tail(batch)),
                      Tail(batch)[i] = Tail(batch)[k]
               PROVE  i = k
    OBVIOUS
  <2>1. i + 1 = k + 1
    BY <1>3, <1>5
  <2> QED BY <2>1
<1>7. \A i \in 1 .. Len(Tail(batch)) :
        /\ Tail(batch)[i] \in 1 .. LastNode /\ Tail(batch)[i] # batch[1]
        /\ status[Tail(batch)[i]] = "pending"
        /\ \A d \in dependencies[Tail(batch)[i]] : d \in 1 .. LastNode /\ status[d] = "completed"
  BY <1>2, <1>3, <1>4, <1>5
<1> QED BY <1>1, <1>2, <1>3, <1>4, <1>5, <1>6, <1>7

\* The orchestrator has dealt with a node: what a step that only says what became of it
\* needs to keep.
LEMMA NodeDealtWith ==
  ASSUME GraphInv, orchestrator = "node", orchestrator' = "loop", batch' = Tail(batch),
         UNCHANGED <<dependencies, graph, events, archive, replays>>,
         status' \in [1 .. LastNode -> {"pending", "running", "completed", "failed", "blocked"}],
         retryCount' \in [1 .. LastNode -> 0 .. MaxRetries + 1],
         status'[batch[1]] # "running",
         \A n \in 1 .. LastNode : n # batch[1] =>
           /\ retryCount'[n] = retryCount[n]
           /\ \/ status'[n] = status[n]
              \/ /\ status[n] = "pending" /\ status'[n] = "blocked"
                 /\ batch[1] \in dependencies[n] /\ status'[batch[1]] = "failed",
         status'[batch[1]] # "blocked",
         status'[batch[1]] # "failed" => retryCount'[batch[1]] <= MaxRetries
  PROVE  GraphInv'
<1> USE DEF GraphInv
<1> DEFINE h == batch[1]
           rest == Tail(batch)
<1>1. /\ h \in 1 .. LastNode /\ status[h] = "running"
      /\ \A d \in dependencies[h] : d \in 1 .. LastNode /\ status[d] = "completed"
      /\ \A n \in 1 .. LastNode : status[n] = "running" => n = h
      /\ rest \in Seq(1 .. LastNode)
      /\ \A i, k \in 1 .. Len(rest) : rest[i] = rest[k] => i = k
      /\ \A i \in 1 .. Len(rest) :
           /\ rest[i] \in 1 .. LastNode /\ rest[i] # h
           /\ status[rest[i]] = "pending"
           /\ \A d \in dependencies[rest[i]] : d \in 1 .. LastNode /\ status[d] = "completed"
  BY NodeAtHand
<1>2. \A n \in 1 .. LastNode : n # h =>
        /\ retryCount'[n] = retryCount[n]
        /\ status'[n] = status[n] \/ (/\ status[n] = "pending" /\ status'[n] = "blocked"
                                      /\ h \in dependencies[n] /\ status'[h] = "failed")
  OBVIOUS
<1>3. status'[h] \notin {"running", "blocked"}
      /\ (status'[h] # "failed" => retryCount'[h] <= MaxRetries)
  OBVIOUS
<1> HIDE DEF h, rest
<1>4. \A d \in 1 .. LastNode :
        /\ status[d] = "completed" => status'[d] = "completed"
        /\ status[d] = "failed" => status'[d] = "failed"
  BY <1>1, <1>2
<1>5. GraphStands'
  BY <1>1 DEF GraphStands, Graphs!TypeOK, Cancelled, rest
<1>6. BatchIsReady'
  <2>1. ASSUME NEW i \in 1 .. Len(rest)
        PROVE  /\ \A d \in dependencies[rest[i]] : d \in 1 .. LastNode /\ status'[d] = "completed"
               /\ status'[rest[i]] = "pending"
    <3>1. \A d \in dependencies[rest[i]] : d \in 1 .. LastNode /\ status[d] = "completed"
      BY <1>1
    <3>2. h \notin dependencies[rest[i]]
      BY <1>1, <3>1
    <3>3. \A d \in dependencies[rest[i]] : d \in 1 .. LastNode /\ status'[d] = "completed"
      BY <1>4, <3>1
    <3>4. PICK r : r = rest[i] /\ r \in 1 .. LastNode /\ r # h /\ status[r] = "pending"
      BY <1>1
    <3>5. status'[r] = "pending"
      BY <1>2, <3>2, <3>4
    <3> QED BY <3>3, <3>4, <3>5
  <2>2. \A n \in 1 .. LastNode : status'[n] # "running"
    BY <1>1, <1>2, <1>3
  <2> QED BY <1>1, <2>1, <2>2 DEF BatchIsReady, rest
<1>7. StatusesHold'
  <2>1. graph' # "completed"
    BY DEF GraphStands
  <2>2. ASSUME NEW n \in 1 .. LastNode
        PROVE  /\ status'[n] \in {"running", "completed", "failed"} =>
                    \A d \in dependencies[n] : d \in 1 .. LastNode /\ status'[d] = "completed"
               /\ status'[n] = "blocked" =>
                    \E d \in dependencies[n] : d \in 1 .. LastNode /\ status'[d] = "failed"
               /\ status'[n] # "failed" => retryCount'[n] <= MaxRetries
    <3>1. CASE n = h
      BY <1>1, <1>3, <1>4, <3>1
    <3>2. CASE n # h /\ status'[n] = status[n]
      BY <1>2, <1>4, <3>2 DEF StatusesHold
    <3>3. CASE n # h /\ status'[n] # status[n]
      BY <1>1, <1>2, <3>3 DEF StatusesHold
    <3> QED BY <3>1, <3>2, <3>3
  <2> QED BY <2>1, <2>2 DEF StatusesHold
<1>8. ArchiveHolds'
  BY DEF ArchiveHolds, GraphStands, Cancelled
<1> QED BY <1>5, <1>6, <1>7, <1>8

LEMMA GraphSucceedsKeeps ==
  ASSUME GraphInv, Graphs!NodeSucceeds
  PROVE  GraphInv'
<1>1. /\ orchestrator = "node" /\ orchestrator' = "loop" /\ batch' = Tail(batch)
      /\ status' = [status EXCEPT ![Head(batch)] = "completed"]
      /\ UNCHANGED <<dependencies, graph, retryCount, events, archive, replays>>
  BY DEF Graphs!NodeSucceeds
<1>2. /\ batch[1] \in 1 .. LastNode /\ status[batch[1]] = "running"
      /\ Head(batch) = batch[1]
  BY <1>1, NodeAtHand
<1>3. /\ status \in [1 .. LastNode -> {"pending", "running", "completed", "failed", "blocked"}]
      /\ retryCount \in [1 .. LastNode -> 0 .. MaxRetries + 1]
  BY DEF GraphInv, GraphStands, Graphs!TypeOK
<1>4. /\ status' \in [1 .. LastNode -> {"pending", "running", "completed", "failed", "blocked"}]
      /\ status'[batch[1]] = "completed"
      /\ \A n \in 1 .. LastNode : n # batch[1] => status'[n] = status[n]
  BY <1>1, <1>2, <1>3
<1>5. retryCount[batch[1]] <= MaxRetries
  BY <1>2 DEF GraphInv, StatusesHold
<1> QED BY <1>1, <1>3, <1>4, <1>5, NodeDealtWith

LEMMA GraphFailsKeeps ==
  ASSUME GraphInv, Graphs!NodeFails
  PROVE  GraphInv'
<1> DEFINE h == batch[1]
<1>1. /\ h \in 1 .. LastNode /\ status[h] = "running" /\ Head(batch) = h
  BY NodeAtHand DEF Graphs!NodeFails
<1>2. /\ orchestrator = "node" /\ orchestrator' = "loop" /\ batch' = Tail(batch)
      /\ retryCount' = [retryCount EXCEPT ![h] = @ + 1]
      /\ status' = IF retryCount[h] + 1 <= MaxRetries THEN [status EXCEPT ![h] = "pending"]
                   ELSE [m \in 1 .. LastNode |->
                           IF m = h THEN "failed"
                           ELSE IF h \in dependencies[m] /\ status[m] = "pending" THEN "blocked"
                           ELSE status[m]]
      /\ UNCHANGED <<dependencies, graph, events, archive, replays>>
  BY <1>1 DEF Graphs!NodeFails
<1>3. /\ status \in [1 .. LastNode -> {"pending", "running", "completed", "failed", "blocked"}]
      /\ retryCount \in [1 .. LastNode -> 0 .. MaxRetries + 1]
  BY DEF GraphInv, GraphStands, Graphs!TypeOK
<1>4. retryCount[h] <= MaxRetries
  BY <1>1 DEF GraphInv, StatusesHold
<1> HIDE DEF h
<1>5. /\ retryCount' \in [1 .. LastNode -> 0 .. MaxRetries + 1]
      /\ retryCount'[h] = retryCount[h] + 1
      /\ \A n \in 1 .. LastNode : n # h => retryCount'[n] = retryCount[n]
  <2>1. retryCount[h] + 1 \in 0 .. MaxRetries + 1
    BY <1>1, <1>3, <1>4, DocumentBoundsAreNat
  <2> QED BY <1>1, <1>2, <1>3, <2>1
<1>6. CASE retryCount[h] + 1 <= MaxRetries
  <2>1. /\ status' \in [1 .. LastNode -> {"pending", "running", "completed", "failed", "blocked"}]
        /\ status'[h] = "pending"
        /\ \A n \in 1 .. LastNode : n # h => status'[n] = status[n]
    BY <1>1, <1>2, <1>3, <1>6
  <2> QED BY <1>2, <1>5, <1>6, <2>1, NodeDealtWith DEF h
<1>7. CASE ~(retryCount[h] + 1 <= MaxRetries)
  <2>1. status' = [m \in 1 .. LastNode |->
                     IF m = h THEN "failed"
                     ELSE IF h \in dependencies[m] /\ status[m] = "pending" THEN "blocked"
                     ELSE status[m]]
    BY <1>2, <1>7
  <2>2. /\ status' \in [1 .. LastNode -> {"pending", "running", "completed", "failed", "blocked"}]
        /\ status'[h] = "failed"
        /\ \A n \in 1 .. LastNode : n # h =>
             status'[n] = status[n] \/ (/\ status[n] = "pending" /\ status'[n] = "blocked"
                                        /\ h \in dependencies[n])
    BY <1>1, <1>3, <2>1
  <2> QED BY <1>2, <1>5, <2>2, NodeDealtWith DEF h
<1> QED BY <1>6, <1>7

(* When the nodes that ended are all the nodes and none failed, all completed. *)
LEMMA DoneIsCompleted ==
  ASSUME GraphInv, Graphs!Done, ~(Graphs!Count("failed") > 0)
  PROVE  \A n \in 1 .. LastNode : status[n] = "completed"
<1> DEFINE Of(s) == {n \in 1 .. LastNode : status[n] = s}
<1>1. \A s : Graphs!Count(s) = Cardinality(Of(s))
  BY GraphsCount DEF Graphs!Count
<1>2. IsFiniteSet(1 .. LastNode) /\ \A s : Of(s) \subseteq 1 .. LastNode
  BY DocumentBoundsAreNat, FS_Interval
<1>3. \A s : IsFiniteSet(Of(s)) /\ Cardinality(Of(s)) \in Nat
  BY <1>2, FS_Subset, FS_CardinalityType
<1>4. Of("failed") = {}
  <2>1. Cardinality(Of("failed")) = 0
    BY <1>1, <1>3
  <2> HIDE DEF Of
  <2> QED BY <1>3, <2>1, FS_EmptySet
<1>5. Of("blocked") = {}
  BY <1>4 DEF GraphInv, StatusesHold
<1>6. Cardinality(Of("completed")) = Cardinality(1 .. LastNode)
  <2>1. Cardinality(Of("completed")) + Cardinality(Of("failed")) + Cardinality(Of("blocked"))
          = Cardinality(1 .. LastNode)
    BY <1>1, GraphsCount DEF Graphs!Done
  <2> HIDE DEF Of
  <2>2. Cardinality(Of("failed")) = 0 /\ Cardinality(Of("blocked")) = 0
    BY <1>4, <1>5, FS_EmptySet
  <2> QED BY <1>3, <2>1, <2>2
<1>7. Of("completed") = 1 .. LastNode
  <2> HIDE DEF Of
  <2> QED BY <1>2, <1>6, FS_Subset
<1> QED BY <1>7

LEMMA GraphReturnsKeeps ==
  ASSUME GraphInv, Graphs!ExecuteReturns
  PROVE  GraphInv'
<1> USE DEF GraphInv
<1>1. /\ orchestrator = "loop" /\ orchestrator' = "returned" /\ batch' = <<>>
      /\ events' = events \/ events' = Append(events, Graphs!End)
      /\ UNCHANGED <<dependencies, status, retryCount, archive, replays>>
  BY DEF Graphs!ExecuteReturns
<1>2. \/ graph' = graph
      \/ graph' = "failed" /\ graph \in {"created", "validated", "running"}
      \/ /\ graph' = "completed" /\ graph = "running"
         /\ Graphs!Done /\ ~(Graphs!Count("failed") > 0)
  <2>1. graph \in {"created", "validated", "ready", "running", "completed", "failed",
                   "cancelled", "archived"}
    BY DEF GraphStands, Graphs!TypeOK, Graphs!Legal
  <2>2. graph' = graph \/ (graph' = Graphs!End /\ Graphs!Done /\ Graphs!CanTransition(Graphs!End))
    BY DEF Graphs!ExecuteReturns
  <2>3. CASE graph' = graph
    BY <2>3
  <2>4. CASE graph' = Graphs!End /\ Graphs!Done /\ Graphs!CanTransition(Graphs!End)
    <3>1. CASE Graphs!Count("failed") > 0
      <4>1. Graphs!End = "failed" /\ "failed" \in Graphs!Legal[graph]
        BY <2>4, <3>1 DEF Graphs!End, Graphs!CanTransition
      <4>2. graph \in {"created", "validated", "running"}
        BY <2>1, <4>1 DEF Graphs!Legal
      <4> QED BY <2>4, <4>1, <4>2
    <3>2. CASE ~(Graphs!Count("failed") > 0)
      <4>1. Graphs!End = "completed" /\ Graphs!CanTransition("completed")
        BY <2>4, <3>2 DEF Graphs!End
      <4>2. graph = "running"
        BY <4>1, LegalMoves DEF GraphStands
      <4> QED BY <2>4, <3>2, <4>1, <4>2
    <3> QED BY <3>1, <3>2
  <2> QED BY <2>2, <2>3, <2>4
<1>3. /\ events' \in Seq({"started", "completed", "failed", "cancelled", "archived"})
      /\ Cancelled => Cancelled'
  <2>1. CASE events' = events
    BY <2>1 DEF GraphStands, Graphs!TypeOK, Cancelled
  <2>2. CASE events' = Append(events, Graphs!End)
    <3>1. Graphs!End \in {"started", "completed", "failed", "cancelled", "archived"}
      BY DEF Graphs!End
    <3> QED BY <2>2, <3>1, EventsGrow DEF GraphStands
  <2> QED BY <1>1, <2>1, <2>2
<1>4. graph' = "completed" => \A n \in 1 .. LastNode : status[n] = "completed"
  <2>1. CASE graph' = graph
    BY <2>1 DEF StatusesHold
  <2>2. CASE graph' # graph
    BY <1>2, <2>2, DoneIsCompleted
  <2> QED BY <2>1, <2>2
<1>5. GraphStands'
  <2>1. graph' \in DOMAIN Graphs!Legal
    BY <1>2 DEF GraphStands, Graphs!TypeOK, Graphs!Legal
  <2>2. batch' \in Seq(1 .. LastNode)
    BY <1>1
  <2>3. Graphs!TypeOK'
    BY <1>1, <1>3, <2>1, <2>2 DEF GraphStands, Graphs!TypeOK
  <2>4. ~(graph' \in {"created", "ready"})
    BY <1>1, <1>2 DEF GraphStands
  <2>5. graph' = "cancelled" => Cancelled'
    BY <1>2, <1>3 DEF GraphStands
  <2> QED BY <1>1, <2>3, <2>4, <2>5 DEF GraphStands
<1>6. BatchIsReady'
  <2>1. Len(batch') = 0
    BY <1>1
  <2>2. \A n \in 1 .. LastNode : status[n] # "running"
    BY <1>1 DEF BatchIsReady
  <2> QED BY <1>1, <2>1, <2>2 DEF BatchIsReady
<1>7. StatusesHold'
  BY <1>1, <1>4 DEF StatusesHold
<1>8. ArchiveHolds'
  BY <1>1, <1>2, <1>3 DEF ArchiveHolds
<1> QED BY <1>5, <1>6, <1>7, <1>8

LEMMA GraphBegins ==
  ASSUME Graphs!Init
  PROVE  GraphInv
<1>1. <<>> \in Seq(1 .. LastNode) /\ Len(<<>>) = 0
  BY EmptySeq
<1>2. <<>> \in Seq({"started", "completed", "failed", "cancelled", "archived"})
  BY EmptySeq
<1>3. GraphStands
  BY <1>1, <1>2, DocumentBoundsAreNat DEF Graphs!Init, GraphStands, Graphs!TypeOK, Graphs!Legal
<1>4. BatchIsReady
  BY <1>1 DEF Graphs!Init, BatchIsReady
<1>5. StatusesHold
  BY DocumentBoundsAreNat DEF Graphs!Init, StatusesHold
<1>6. ArchiveHolds
  BY DEF Graphs!Init, ArchiveHolds
<1> QED BY <1>3, <1>4, <1>5, <1>6 DEF GraphInv

LEMMA GraphNextKeeps ==
  ASSUME GraphInv, Graphs!Next
  PROVE  GraphInv'
BY GraphBuildKeeps, GraphStartKeeps, GraphExecuteKeeps, GraphSucceedsKeeps, GraphFailsKeeps,
   GraphReturnsKeeps, GraphCancelKeeps, GraphArchiveKeeps, GraphReplayKeeps
DEF Graphs!Next, Graphs!OrchestratorStep

LEMMA GraphUnchangedKeeps ==
  ASSUME GraphInv, UNCHANGED graphsVars
  PROVE  GraphInv'
<1>1. UNCHANGED <<dependencies, graph, status, retryCount, batch, orchestrator, events,
                  archive, replays>>
  BY DEF graphsVars
<1> QED BY <1>1 DEF GraphInv, GraphStands, Graphs!TypeOK, Cancelled, BatchIsReady,
             StatusesHold, ArchiveHolds

LEMMA GraphInvTells ==
  ASSUME GraphInv
  PROVE  Graphs!TypeOK /\ Graphs!RunsAreSound
BY DEF GraphInv, GraphStands, StatusesHold, ArchiveHolds, Graphs!RunsAreSound, Cancelled

-----------------------------------------------------------------------------
(* RegistrySync: what a sync makes of an answer. *)

\* What one source answers, and the ids its first n entries list.
IsAnswer(b) ==
  b \in Seq(Registry!Listed \cup {[id |-> "invalid"]})
ListedIn(b, n) == {b[k].id : k \in {m \in 1 .. n : Registry!IsValid(b[m])}}

\* The entry that gives an id last.
IsLast(b, n, i, k) == k \in 1 .. n /\ b[k].id = i /\ \A l \in 1 .. n : b[l].id = i => l <= k

Repeats(b) == \E k, l \in 1 .. Len(b) : k # l /\ Registry!IsValid(b[k]) /\ b[k].id = b[l].id

Caches == [EntryIds -> Registry!Listed \cup {Absent}]
Tallies == [new : Nat, updated : Nat, removed : Nat, errors : Nat]
Accumulated == [old : SUBSET EntryIds, cache : Caches, counts : Tallies]

Updated(was, c, ids) == {i \in ids \cap Registry!KeysOf(was) : c[i].version # was[i].version}

\* What the first n entries of an answer have made of what was cached.
CacheFollows(was, b, n, c) ==
  \A i \in EntryIds :
    /\ i \notin ListedIn(b, n) => c[i] = was[i]
    /\ i \in ListedIn(b, n) =>
         \E k \in 1 .. n :
           /\ IsLast(b, n, i, k)
           /\ c[i] \in Registry!Listed /\ c[i].version = b[k].version
           /\ c[i] = b[k] \/ c[i].version = was[i].version

CountsFollow(was, b, n, c, told) ==
  /\ told.errors = Cardinality({k \in 1 .. n : ~Registry!IsValid(b[k])}) /\ told.removed = 0
  /\ ~Repeats(b) =>
       /\ told.new = Cardinality(ListedIn(b, n) \ Registry!KeysOf(was))
       /\ told.updated = Cardinality(Updated(was, c, ListedIn(b, n)))

Beginning(was) ==
  [old |-> Registry!KeysOf(was), cache |-> was, counts |-> Registry!NoCounts]

Follows(was, b, n, acc) ==
  /\ acc \in Accumulated
  /\ acc.old = Registry!KeysOf(was) \ ListedIn(b, n)
  /\ CacheFollows(was, b, n, acc.cache)
  /\ CountsFollow(was, b, n, acc.cache, acc.counts)

(* The entries of an answer.                                               *)
LEMMA EntriesOfAnswers ==
  ASSUME NEW b, IsAnswer(b), NEW k \in 1 .. Len(b)
  PROVE  /\ Registry!IsValid(b[k]) => b[k] \in Registry!Listed /\ b[k].id \in EntryIds
         /\ ~Registry!IsValid(b[k]) => b[k].id \notin EntryIds
         /\ b[k].id \in EntryIds => Registry!IsValid(b[k])
<1>1. b[k] \in Registry!Listed \cup {[id |-> "invalid"]}
  BY ElementOfSeq DEF IsAnswer
<1>2. \A e \in Registry!Listed : e.id \in EntryIds
  BY DEF Registry!Listed
<1> QED BY <1>1, <1>2, EntriesAreTold DEF Registry!IsValid, Registry!Invalid

LEMMA ListedOneMore ==
  ASSUME NEW b, IsAnswer(b), NEW n \in Nat, n + 1 \in 1 .. Len(b)
  PROVE  ListedIn(b, n + 1) = IF Registry!IsValid(b[n + 1]) THEN ListedIn(b, n) \cup {b[n + 1].id}
                              ELSE ListedIn(b, n)
<1>1. \A k : k \in 1 .. n + 1 <=> k \in 1 .. n \/ k = n + 1
  OBVIOUS
<1> QED BY <1>1 DEF ListedIn

LEMMA ListedIsFinite ==
  ASSUME NEW b, NEW n \in Nat
  PROVE  IsFiniteSet(ListedIn(b, n))
<1> DEFINE places == {m \in 1 .. n : Registry!IsValid(b[m])}
<1>1. IsFiniteSet(places)
  <2>1. IsFiniteSet(1 .. n)
    BY FS_Interval
  <2> QED BY <2>1, FS_Subset
<1> DEFINE f == [k \in places |-> b[k].id]
<1> HIDE DEF places
<1>2. f \in Surjection(places, {b[k].id : k \in places})
  BY DEF Surjection
<1> HIDE DEF f
<1>3. IsFiniteSet({b[k].id : k \in places})
  BY <1>1, <1>2, FS_Surjection
<1> QED BY <1>3 DEF ListedIn, places

(* What taking one entry does to what was taken so far.                    *)
LEMMA EntryInvalid ==
  ASSUME NEW acc \in Accumulated, NEW e, ~Registry!IsValid(e)
  PROVE  LET next == Registry!TakeEntry(acc, e) IN
         /\ next \in Accumulated /\ next.old = acc.old /\ next.cache = acc.cache
         /\ next.counts = [acc.counts EXCEPT !.errors = @ + 1]
<1>1. [acc.counts EXCEPT !.errors = @ + 1] \in Tallies
  BY DEF Accumulated, Tallies
<1>2. Registry!TakeEntry(acc, e) = [acc EXCEPT !.counts.errors = @ + 1]
  BY DEF Registry!TakeEntry
<1>3. /\ [acc EXCEPT !.counts.errors = @ + 1].old = acc.old
      /\ [acc EXCEPT !.counts.errors = @ + 1].cache = acc.cache
      /\ [acc EXCEPT !.counts.errors = @ + 1].counts = [acc.counts EXCEPT !.errors = @ + 1]
  BY DEF Accumulated
<1>4. [acc EXCEPT !.counts.errors = @ + 1] \in Accumulated
  BY <1>1 DEF Accumulated
<1> QED BY <1>2, <1>3, <1>4

LEMMA EntryNew ==
  ASSUME NEW acc \in Accumulated, NEW e \in Registry!Listed, Registry!IsValid(e),
         e.id \notin acc.old
  PROVE  LET next == Registry!TakeEntry(acc, e) IN
         /\ next \in Accumulated /\ next.old = acc.old
         /\ next.cache = [acc.cache EXCEPT ![e.id] = e]
         /\ next.counts = [acc.counts EXCEPT !.new = @ + 1]
<1>1. e.id \in EntryIds
  BY DEF Registry!Listed
<1> DEFINE next == [acc EXCEPT !.cache[e.id] = e, !.counts.new = @ + 1]
<1>2. Registry!TakeEntry(acc, e) = next
  BY DEF Registry!TakeEntry
<1>3. /\ next.old = acc.old /\ next.cache = [acc.cache EXCEPT ![e.id] = e]
      /\ next.counts = [acc.counts EXCEPT !.new = @ + 1]
  BY DEF Accumulated
<1>4. [acc.cache EXCEPT ![e.id] = e] \in Caches
  BY <1>1 DEF Accumulated, Caches
<1>5. [acc.counts EXCEPT !.new = @ + 1] \in Tallies
  BY DEF Accumulated, Tallies
<1>6. next \in Accumulated
  BY <1>4, <1>5 DEF Accumulated
<1> QED BY <1>2, <1>3, <1>6

LEMMA EntryKnown ==
  ASSUME NEW acc \in Accumulated, NEW e \in Registry!Listed, Registry!IsValid(e),
         e.id \in acc.old
  PROVE  LET next == Registry!TakeEntry(acc, e) IN
         /\ next \in Accumulated /\ next.old = acc.old \ {e.id}
         /\ acc.cache[e.id].version = e.version =>
              next.cache = acc.cache /\ next.counts = acc.counts
         /\ acc.cache[e.id].version # e.version =>
              /\ next.cache = [acc.cache EXCEPT ![e.id] = e]
              /\ next.counts = [acc.counts EXCEPT !.updated = @ + 1]
<1>1. e.id \in EntryIds /\ acc.old \ {e.id} \in SUBSET EntryIds
  BY DEF Registry!Listed, Accumulated
<1>2. CASE acc.cache[e.id].version = e.version
  <2> DEFINE next == [acc EXCEPT !.old = @ \ {e.id}]
  <2>1. Registry!TakeEntry(acc, e) = next
    BY <1>2 DEF Registry!TakeEntry
  <2>2. next.old = acc.old \ {e.id} /\ next.cache = acc.cache /\ next.counts = acc.counts
    BY DEF Accumulated
  <2>3. next \in Accumulated
    BY <1>1 DEF Accumulated
  <2> QED BY <1>2, <2>1, <2>2, <2>3
<1>3. CASE acc.cache[e.id].version # e.version
  <2> DEFINE next == [acc EXCEPT !.old = @ \ {e.id}, !.cache[e.id] = e, !.counts.updated = @ + 1]
  <2>1. Registry!TakeEntry(acc, e) = next
    BY <1>3 DEF Registry!TakeEntry
  <2>2. /\ next.old = acc.old \ {e.id} /\ next.cache = [acc.cache EXCEPT ![e.id] = e]
        /\ next.counts = [acc.counts EXCEPT !.updated = @ + 1]
    BY DEF Accumulated
  <2>3. [acc.cache EXCEPT ![e.id] = e] \in Caches
    BY <1>1 DEF Accumulated, Caches
  <2>4. [acc.counts EXCEPT !.updated = @ + 1] \in Tallies
    BY DEF Accumulated, Tallies
  <2>5. next \in Accumulated
    BY <1>1, <2>3, <2>4 DEF Accumulated
  <2> QED BY <1>3, <2>1, <2>2, <2>5
<1> QED BY <1>2, <1>3

(* Taking the next entry of an answer.                                     *)
LEMMA CacheFollowsOn ==
  ASSUME NEW was \in Caches, NEW b, IsAnswer(b), NEW n \in Nat, n + 1 \in 1 .. Len(b),
         NEW acc, Follows(was, b, n, acc)
  PROVE  LET next == Registry!TakeEntry(acc, b[n + 1]) IN
         /\ next \in Accumulated
         /\ next.old = Registry!KeysOf(was) \ ListedIn(b, n + 1)
         /\ CacheFollows(was, b, n + 1, next.cache)
<1> DEFINE e == b[n + 1]
           next == Registry!TakeEntry(acc, e)
<1>1. /\ acc \in Accumulated /\ acc.old = Registry!KeysOf(was) \ ListedIn(b, n)
      /\ CacheFollows(was, b, n, acc.cache) /\ acc.cache \in Caches
  BY DEF Follows, Accumulated
<1>2. \A k : k \in 1 .. n + 1 <=> k \in 1 .. n \/ k = n + 1
  OBVIOUS
<1>3. /\ Registry!IsValid(e) => e \in Registry!Listed /\ e.id \in EntryIds
      /\ ~Registry!IsValid(e) => e.id \notin EntryIds
  BY EntriesOfAnswers
<1>4. ListedIn(b, n + 1) = IF Registry!IsValid(e) THEN ListedIn(b, n) \cup {e.id} ELSE ListedIn(b, n)
  BY ListedOneMore
<1>5. ASSUME NEW i \in EntryIds, NEW k \in 1 .. n, IsLast(b, n, i, k), e.id # i
      PROVE  k \in 1 .. n + 1 /\ IsLast(b, n + 1, i, k)
  BY <1>2, <1>5 DEF IsLast
<1>6. ASSUME NEW i \in EntryIds, e.id = i
      PROVE  n + 1 \in 1 .. n + 1 /\ IsLast(b, n + 1, i, n + 1)
  BY <1>6 DEF IsLast
<1> HIDE DEF e
<1>7. CASE ~Registry!IsValid(e)
  <2>1. next \in Accumulated /\ next.old = acc.old /\ next.cache = acc.cache
    BY <1>1, <1>7, EntryInvalid
  <2> HIDE DEF next
  <2>2. CacheFollows(was, b, n + 1, next.cache)
    <3> SUFFICES ASSUME NEW i \in EntryIds
                 PROVE  /\ i \notin ListedIn(b, n + 1) => next.cache[i] = was[i]
                        /\ i \in ListedIn(b, n + 1) =>
                             \E k \in 1 .. n + 1 :
                               /\ IsLast(b, n + 1, i, k)
                               /\ next.cache[i] \in Registry!Listed /\ next.cache[i].version = b[k].version
                               /\ next.cache[i] = b[k] \/ next.cache[i].version = was[i].version
      BY DEF CacheFollows
    <3>1. e.id # i
      BY <1>3, <1>7
    <3> QED BY <1>1, <1>4, <1>5, <1>7, <2>1, <3>1 DEF CacheFollows
  <2> QED BY <1>1, <1>4, <1>7, <2>1, <2>2 DEF next, e
<1>8. CASE Registry!IsValid(e) /\ e.id \notin acc.old
  <2>1. /\ next \in Accumulated /\ next.old = acc.old
        /\ next.cache = [acc.cache EXCEPT ![e.id] = e]
    BY <1>1, <1>3, <1>8, EntryNew
  <2> HIDE DEF next
  <2>2. /\ next.cache[e.id] = e
        /\ \A i \in EntryIds : i # e.id => next.cache[i] = acc.cache[i]
    BY <1>1, <1>3, <1>8, <2>1 DEF Caches
  <2>3. CacheFollows(was, b, n + 1, next.cache)
    <3> SUFFICES ASSUME NEW i \in EntryIds
                 PROVE  /\ i \notin ListedIn(b, n + 1) => next.cache[i] = was[i]
                        /\ i \in ListedIn(b, n + 1) =>
                             \E k \in 1 .. n + 1 :
                               /\ IsLast(b, n + 1, i, k)
                               /\ next.cache[i] \in Registry!Listed /\ next.cache[i].version = b[k].version
                               /\ next.cache[i] = b[k] \/ next.cache[i].version = was[i].version
      BY DEF CacheFollows
    <3>1. CASE e.id = i
      BY <1>3, <1>4, <1>6, <1>8, <2>2, <3>1 DEF e
    <3>2. CASE e.id # i
      BY <1>1, <1>4, <1>5, <1>8, <2>2, <3>2 DEF CacheFollows
    <3> QED BY <3>1, <3>2
  <2>4. next.old = Registry!KeysOf(was) \ ListedIn(b, n + 1)
    BY <1>1, <1>4, <1>8, <2>1
  <2> QED BY <2>1, <2>3, <2>4 DEF next, e
<1>9. CASE Registry!IsValid(e) /\ e.id \in acc.old
  <2>1. /\ next \in Accumulated /\ next.old = acc.old \ {e.id}
        /\ acc.cache[e.id].version = e.version => next.cache = acc.cache
        /\ acc.cache[e.id].version # e.version => next.cache = [acc.cache EXCEPT ![e.id] = e]
    BY <1>1, <1>3, <1>9, EntryKnown
  <2> HIDE DEF next
  <2>2. /\ was[e.id] # Absent /\ was[e.id] \in Registry!Listed
        /\ acc.cache[e.id] = was[e.id]
    BY <1>1, <1>3, <1>9 DEF CacheFollows, Registry!KeysOf, Caches
  <2>3. /\ next.cache[e.id] \in Registry!Listed /\ next.cache[e.id].version = e.version
        /\ next.cache[e.id] = e \/ next.cache[e.id].version = was[e.id].version
        /\ \A i \in EntryIds : i # e.id => next.cache[i] = acc.cache[i]
    <3>1. CASE acc.cache[e.id].version = e.version
      BY <2>1, <2>2, <3>1
    <3>2. CASE acc.cache[e.id].version # e.version
      BY <1>1, <1>3, <1>9, <2>1, <3>2 DEF Caches
    <3> QED BY <3>1, <3>2
  <2>4. CacheFollows(was, b, n + 1, next.cache)
    <3> SUFFICES ASSUME NEW i \in EntryIds
                 PROVE  /\ i \notin ListedIn(b, n + 1) => next.cache[i] = was[i]
                        /\ i \in ListedIn(b, n + 1) =>
                             \E k \in 1 .. n + 1 :
                               /\ IsLast(b, n + 1, i, k)
                               /\ next.cache[i] \in Registry!Listed /\ next.cache[i].version = b[k].version
                               /\ next.cache[i] = b[k] \/ next.cache[i].version = was[i].version
      BY DEF CacheFollows
    <3>1. CASE e.id = i
      BY <1>3, <1>4, <1>6, <1>9, <2>3, <3>1 DEF e
    <3>2. CASE e.id # i
      BY <1>1, <1>4, <1>5, <1>9, <2>3, <3>2 DEF CacheFollows
    <3> QED BY <3>1, <3>2
  <2>5. next.old = Registry!KeysOf(was) \ ListedIn(b, n + 1)
    BY <1>1, <1>4, <1>9, <2>1
  <2> QED BY <2>1, <2>4, <2>5 DEF next, e
<1> QED BY <1>7, <1>8, <1>9

LEMMA RefusedOneMore ==
  ASSUME NEW b, NEW n \in Nat
  PROVE  LET Refused(m) == {k \in 1 .. m : ~Registry!IsValid(b[k])} IN
         /\ Cardinality(Refused(n)) \in Nat
         /\ Cardinality(Refused(n + 1)) =
              IF Registry!IsValid(b[n + 1]) THEN Cardinality(Refused(n)) ELSE Cardinality(Refused(n)) + 1
<1> DEFINE Refused(m) == {k \in 1 .. m : ~Registry!IsValid(b[k])}
<1>1. IsFiniteSet(Refused(n)) /\ n + 1 \notin Refused(n)
  <2>1. IsFiniteSet(1 .. n)
    BY FS_Interval
  <2> QED BY <2>1, FS_Subset
<1>2. Refused(n + 1) = IF Registry!IsValid(b[n + 1]) THEN Refused(n) ELSE Refused(n) \cup {n + 1}
  <2>1. \A k : k \in 1 .. n + 1 <=> k \in 1 .. n \/ k = n + 1
    OBVIOUS
  <2> QED BY <2>1
<1> HIDE DEF Refused
<1>3. Cardinality(Refused(n)) \in Nat
  BY <1>1, FS_CardinalityType
<1>4. Cardinality(Refused(n + 1)) =
        IF Registry!IsValid(b[n + 1]) THEN Cardinality(Refused(n)) ELSE Cardinality(Refused(n)) + 1
  BY <1>1, <1>2, FS_AddElement
<1> QED BY <1>3, <1>4 DEF Refused

LEMMA CountsFollowOn ==
  ASSUME NEW was \in Caches, NEW b, IsAnswer(b), NEW n \in Nat, n + 1 \in 1 .. Len(b),
         NEW acc, Follows(was, b, n, acc)
  PROVE  LET next == Registry!TakeEntry(acc, b[n + 1])
         IN  CountsFollow(was, b, n + 1, next.cache, next.counts)
<1> DEFINE e == b[n + 1]
           next == Registry!TakeEntry(acc, e)
           keys == Registry!KeysOf(was)
           before1 == ListedIn(b, n)
           after1 == ListedIn(b, n + 1)
<1>1. /\ acc \in Accumulated /\ acc.old = keys \ before1
      /\ CacheFollows(was, b, n, acc.cache) /\ acc.cache \in Caches /\ acc.counts \in Tallies
      /\ acc.counts.errors = Cardinality({k \in 1 .. n : ~Registry!IsValid(b[k])})
      /\ acc.counts.removed = 0
      /\ ~Repeats(b) =>
           /\ acc.counts.new = Cardinality(before1 \ keys)
           /\ acc.counts.updated = Cardinality(Updated(was, acc.cache, before1))
  BY DEF Follows, Accumulated, CountsFollow
<1>2. /\ Registry!IsValid(e) => e \in Registry!Listed /\ e.id \in EntryIds
      /\ ~Registry!IsValid(e) => e.id \notin EntryIds
  BY EntriesOfAnswers
<1>3. after1 = IF Registry!IsValid(e) THEN before1 \cup {e.id} ELSE before1
  BY ListedOneMore
<1>4. /\ Cardinality({k \in 1 .. n : ~Registry!IsValid(b[k])}) \in Nat
      /\ Cardinality({k \in 1 .. n + 1 : ~Registry!IsValid(b[k])}) =
           IF Registry!IsValid(e) THEN Cardinality({k \in 1 .. n : ~Registry!IsValid(b[k])})
           ELSE Cardinality({k \in 1 .. n : ~Registry!IsValid(b[k])}) + 1
  BY RefusedOneMore
<1>5. IsFiniteSet(before1 \ keys) /\ IsFiniteSet(Updated(was, acc.cache, before1))
  <2>1. IsFiniteSet(before1)
    BY ListedIsFinite
  <2>2. Updated(was, acc.cache, before1) \subseteq before1
    BY DEF Updated
  <2> HIDE DEF before1
  <2> QED BY <2>1, <2>2, FS_Subset
<1>6. ~Repeats(b) /\ Registry!IsValid(e) => e.id \notin before1
  <2> SUFFICES ASSUME ~Repeats(b), Registry!IsValid(e), e.id \in before1 PROVE FALSE
    OBVIOUS
  <2>1. PICK k \in 1 .. n : b[k].id = e.id
    BY DEF ListedIn
  <2>2. k \in 1 .. Len(b) /\ k # n + 1
    <3>1. Len(b) \in Nat
      BY LenProperties DEF IsAnswer
    <3> QED BY <3>1
  <2> QED BY <2>1, <2>2 DEF Repeats
<1> HIDE DEF e, keys, before1, after1
<1>7. CASE ~Registry!IsValid(e)
  <2>1. /\ next.cache = acc.cache /\ next.counts = [acc.counts EXCEPT !.errors = @ + 1]
    BY <1>1, <1>7, EntryInvalid
  <2> HIDE DEF next
  <2>2. /\ next.counts.errors = acc.counts.errors + 1 /\ next.counts.removed = 0
        /\ next.counts.new = acc.counts.new /\ next.counts.updated = acc.counts.updated
    BY <1>1, <2>1 DEF Tallies
  <2>3. CountsFollow(was, b, n + 1, next.cache, next.counts)
    BY <1>1, <1>3, <1>4, <1>7, <2>1, <2>2 DEF CountsFollow, keys, after1
  <2> QED BY <2>3 DEF next, e
<1>8. CASE Registry!IsValid(e) /\ e.id \notin acc.old
  <2>1. /\ next.cache = [acc.cache EXCEPT ![e.id] = e]
        /\ next.counts = [acc.counts EXCEPT !.new = @ + 1]
    BY <1>1, <1>2, <1>8, EntryNew
  <2> HIDE DEF next
  <2>2. /\ next.counts.errors = acc.counts.errors /\ next.counts.removed = 0
        /\ next.counts.new = acc.counts.new + 1 /\ next.counts.updated = acc.counts.updated
    BY <1>1, <2>1 DEF Tallies
  <2>3. ASSUME ~Repeats(b)
        PROVE  /\ next.counts.new = Cardinality(after1 \ keys)
               /\ next.counts.updated = Cardinality(Updated(was, next.cache, after1))
    <3>1. e.id \notin before1 /\ e.id \notin keys
      BY <1>1, <1>6, <1>8, <2>3
    <3>2. after1 \ keys = (before1 \ keys) \cup {e.id} /\ e.id \notin before1 \ keys
      BY <1>3, <1>8, <3>1
    <3>3. Updated(was, next.cache, after1) = Updated(was, acc.cache, before1)
      <4>1. \A i \in EntryIds : i # e.id => next.cache[i] = acc.cache[i]
        BY <1>1, <1>2, <1>8, <2>1 DEF Caches
      <4>2. keys \subseteq EntryIds
        BY DEF keys, Registry!KeysOf
      <4> QED BY <1>3, <1>8, <3>1, <4>1, <4>2 DEF Updated, keys
    <3>4. Cardinality(after1 \ keys) = Cardinality(before1 \ keys) + 1
      BY <1>5, <3>2, FS_AddElement
    <3> QED BY <1>1, <2>2, <2>3, <3>3, <3>4
  <2>4. CountsFollow(was, b, n + 1, next.cache, next.counts)
    BY <1>1, <1>4, <1>8, <2>2, <2>3 DEF CountsFollow, keys, after1
  <2> QED BY <2>4 DEF next, e
<1>9. CASE Registry!IsValid(e) /\ e.id \in acc.old
  <2>1. /\ acc.cache[e.id].version = e.version => next.cache = acc.cache /\ next.counts = acc.counts
        /\ acc.cache[e.id].version # e.version =>
             /\ next.cache = [acc.cache EXCEPT ![e.id] = e]
             /\ next.counts = [acc.counts EXCEPT !.updated = @ + 1]
    BY <1>1, <1>2, <1>9, EntryKnown
  <2> HIDE DEF next
  <2>2. e.id \in keys /\ e.id \notin before1
    BY <1>1, <1>9
  <2>3. after1 \ keys = before1 \ keys
    BY <1>3, <1>9, <2>2
  <2>4. acc.cache[e.id] = was[e.id] /\ keys \subseteq EntryIds
    BY <1>1, <1>2, <1>9, <2>2 DEF CacheFollows, keys, before1, Registry!KeysOf
  <2>5. CASE acc.cache[e.id].version = e.version
    <3>1. Updated(was, next.cache, after1) = Updated(was, acc.cache, before1)
      BY <1>3, <1>9, <2>1, <2>2, <2>4, <2>5 DEF Updated, keys
    <3>2. CountsFollow(was, b, n + 1, next.cache, next.counts)
      BY <1>1, <1>4, <1>9, <2>1, <2>3, <2>5, <3>1 DEF CountsFollow, keys, after1
    <3> QED BY <3>2 DEF next, e
  <2>6. CASE acc.cache[e.id].version # e.version
    <3>1. /\ next.counts.errors = acc.counts.errors /\ next.counts.removed = 0
          /\ next.counts.new = acc.counts.new /\ next.counts.updated = acc.counts.updated + 1
      BY <1>1, <2>1, <2>6 DEF Tallies
    <3>2. /\ next.cache[e.id] = e
          /\ \A i \in EntryIds : i # e.id => next.cache[i] = acc.cache[i]
      BY <1>1, <1>2, <1>9, <2>1, <2>6 DEF Caches
    <3>3. /\ Updated(was, next.cache, after1) = Updated(was, acc.cache, before1) \cup {e.id}
          /\ e.id \notin Updated(was, acc.cache, before1)
      BY <1>3, <1>9, <2>2, <2>4, <2>6, <3>2 DEF Updated, keys
    <3>4. Cardinality(Updated(was, next.cache, after1)) = Cardinality(Updated(was, acc.cache, before1)) + 1
      BY <1>5, <3>3, FS_AddElement
    <3>5. CountsFollow(was, b, n + 1, next.cache, next.counts)
      BY <1>1, <1>4, <1>9, <2>3, <3>1, <3>4 DEF CountsFollow, keys, after1
    <3> QED BY <3>5 DEF next, e
  <2> QED BY <2>5, <2>6
<1> QED BY <1>7, <1>8, <1>9

\* The entries of an answer are taken one after the other.
InTurn(f, was, b, m) ==
  f = [n \in 0 .. m |-> IF n = 0 THEN Beginning(was) ELSE Registry!TakeEntry(f[n - 1], b[n])]

LEMMA TakenExists ==
  ASSUME NEW was, NEW b
  PROVE  \A m \in Nat : \E f : InTurn(f, was, b, m)
<1> DEFINE T == {k \in Nat : \E f : InTurn(f, was, b, k)}
<1>1. 0 \in T
  <2>1. InTurn([n \in 0 .. 0 |-> Beginning(was)], was, b, 0)
    BY DEF InTurn
  <2> QED BY <2>1
<1>2. ASSUME NEW k \in T PROVE k + 1 \in T
  <2>1. PICK f : InTurn(f, was, b, k)
    OBVIOUS
  <2> DEFINE g == [n \in 0 .. k + 1 |->
                     IF n = k + 1 THEN Registry!TakeEntry(f[k], b[k + 1]) ELSE f[n]]
  <2>2. \A n \in 0 .. k : f[n] = IF n = 0 THEN Beginning(was) ELSE Registry!TakeEntry(f[n - 1], b[n])
    BY <2>1 DEF InTurn
  <2>3. \A n \in 0 .. k + 1 :
          g[n] = IF n = 0 THEN Beginning(was) ELSE Registry!TakeEntry(g[n - 1], b[n])
    <3> TAKE n \in 0 .. k + 1
    <3>1. CASE n = k + 1
      <4>1. n - 1 = k /\ n # 0 /\ k \in 0 .. k + 1 /\ g[k] = f[k]
        BY <3>1
      <4> QED BY <4>1, <3>1
    <3>2. CASE n # k + 1
      <4>1. n \in 0 .. k /\ g[n] = f[n]
        BY <3>2
      <4>2. n # 0 => n - 1 \in 0 .. k + 1 /\ g[n - 1] = f[n - 1]
        BY <4>1
      <4> QED BY <4>1, <4>2, <2>2
    <3> QED BY <3>1, <3>2
  <2>4. InTurn(g, was, b, k + 1)
    <3>1. g = [n \in 0 .. k + 1 |-> g[n]]
      OBVIOUS
    <3> HIDE DEF g
    <3> QED BY <3>1, <2>3 DEF InTurn
  <2>5. k + 1 \in Nat
    OBVIOUS
  <2> HIDE DEF g
  <2> QED BY <2>4, <2>5
<1> HIDE DEF T
<1>3. T = Nat
  BY <1>1, <1>2, SetInduction DEF T
<1> QED BY <1>3 DEF T

LEMMA FollowsFromTheStart ==
  ASSUME NEW was \in Caches, NEW b, IsAnswer(b)
  PROVE  Follows(was, b, 0, Beginning(was))
<1>1. ListedIn(b, 0) = {} /\ {k \in 1 .. 0 : ~Registry!IsValid(b[k])} = {}
  BY DEF ListedIn
<1>2. Cardinality({}) = 0
  BY FS_EmptySet
<1>3. Beginning(was) \in Accumulated
  BY DEF Beginning, Accumulated, Tallies, Registry!NoCounts, Registry!KeysOf
<1>4. CacheFollows(was, b, 0, was)
  BY <1>1 DEF CacheFollows
<1>5. CountsFollow(was, b, 0, was, Registry!NoCounts)
  <2>1. Updated(was, was, {}) = {} /\ {} \ Registry!KeysOf(was) = {}
    BY DEF Updated
  <2> QED BY <1>1, <1>2, <2>1 DEF CountsFollow, Registry!NoCounts
<1> QED BY <1>1, <1>3, <1>4, <1>5 DEF Follows, Beginning

LEMMA WholeAnswerTaken ==
  ASSUME NEW was \in Caches, NEW b, IsAnswer(b)
  PROVE  \E all : /\ Follows(was, b, Len(b), all)
                  /\ Registry!Taken(was, b) =
                       [cache |-> [i \in EntryIds |-> IF i \in all.old THEN Absent ELSE all.cache[i]],
                        counts |-> [all.counts EXCEPT !.removed = Registry!Cardinality(all.old)]]
<1>1. Len(b) \in Nat
  BY LenProperties DEF IsAnswer
<1>2. \E f : InTurn(f, was, b, Len(b))
  BY <1>1, TakenExists
<1>3. PICK f : /\ InTurn(f, was, b, Len(b))
               /\ Registry!Taken(was, b) =
                    [cache |-> [i \in EntryIds |-> IF i \in f[Len(b)].old THEN Absent ELSE f[Len(b)].cache[i]],
                     counts |-> [f[Len(b)].counts EXCEPT !.removed = Registry!Cardinality(f[Len(b)].old)]]
  BY <1>2 DEF Registry!Taken, InTurn, Beginning
<1>4. f[0] = Beginning(was) /\ \A n \in 1 .. Len(b) : f[n] = Registry!TakeEntry(f[n - 1], b[n])
  <2>1. \A n \in 0 .. Len(b) : f[n] = IF n = 0 THEN Beginning(was) ELSE Registry!TakeEntry(f[n - 1], b[n])
    BY <1>3 DEF InTurn
  <2> QED BY <1>1, <2>1
<1> DEFINE T == {n \in Nat : n <= Len(b) => Follows(was, b, n, f[n])}
<1>5. 0 \in T
  BY <1>4, FollowsFromTheStart
<1>6. ASSUME NEW n \in T PROVE n + 1 \in T
  <2>1. n \in Nat
    OBVIOUS
  <2>2. ASSUME n + 1 <= Len(b) PROVE Follows(was, b, n + 1, f[n + 1])
    <3>1. Follows(was, b, n, f[n]) /\ n + 1 \in 1 .. Len(b)
      BY <1>1, <2>1, <2>2
    <3>2. f[n + 1] = Registry!TakeEntry(f[n], b[n + 1])
      <4>1. (n + 1) - 1 = n
        BY <2>1
      <4> QED BY <1>4, <3>1, <4>1
    <3> QED BY <2>1, <3>1, <3>2, CacheFollowsOn, CountsFollowOn DEF Follows
  <2> QED BY <2>1, <2>2
<1> HIDE DEF T
<1>7. T = Nat
  BY <1>5, <1>6, SetInduction DEF T
<1>8. Follows(was, b, Len(b), f[Len(b)])
  BY <1>1, <1>7 DEF T
<1> QED BY <1>3, <1>8

(* RegistrySync: the inductive invariant.                                  *)

RegistryInv == Registry!TypeOK /\ cache \in Caches /\ Registry!ListsTheAnswer

LEMMA RegistryCount == \A S : Registry!Cardinality(S) = Cardinality(S)
BY DEF Registry!Cardinality, Cardinality

LEMMA AnswerIsListed ==
  ASSUME NEW b \in Registry!Answers, Registry!SourceAnswers(b), cache \in Caches
  PROVE  cache' \in Caches /\ Registry!ListsTheAnswer'
<1>1. IsAnswer(b)
  <2>1. PICK n \in 0 .. MaxEntries : b \in [1 .. n -> Registry!Listed \cup {[id |-> Registry!Invalid]}]
    BY DEF Registry!Answers
  <2>2. n \in Nat
    BY DocumentBoundsAreNat
  <2> QED BY <2>1, <2>2 DEF IsAnswer, Registry!Invalid
<1>2. PICK all : /\ Follows(cache, b, Len(b), all)
                 /\ Registry!Taken(cache, b) =
                      [cache |-> [i \in EntryIds |-> IF i \in all.old THEN Absent ELSE all.cache[i]],
                       counts |-> [all.counts EXCEPT !.removed = Registry!Cardinality(all.old)]]
  BY <1>1, WholeAnswerTaken
<1>3. /\ cache' = [i \in EntryIds |-> IF i \in all.old THEN Absent ELSE all.cache[i]]
      /\ counts' = [all.counts EXCEPT !.removed = Cardinality(all.old)]
      /\ answer' = b /\ cacheBefore' = cache
  BY <1>2, RegistryCount DEF Registry!SourceAnswers
<1> DEFINE keys == Registry!KeysOf(cache)
           ids == ListedIn(b, Len(b))
<1>4. /\ all.cache \in Caches /\ all.counts \in Tallies /\ all.old = keys \ ids
      /\ CacheFollows(cache, b, Len(b), all.cache)
      /\ CountsFollow(cache, b, Len(b), all.cache, all.counts)
  BY <1>2 DEF Follows, Accumulated
<1>5. Len(b) \in Nat /\ DOMAIN b = 1 .. Len(b)
  BY <1>1, LenProperties DEF IsAnswer
<1>6. ids \subseteq EntryIds
  BY <1>1, EntriesOfAnswers DEF ListedIn
<1>7. \A i \in EntryIds : cache'[i] = IF i \in all.old THEN Absent ELSE all.cache[i]
  BY <1>3
<1>8. cache' \in Caches
  BY <1>3, <1>4 DEF Caches
<1>9. /\ \A i \in ids : cache'[i] = all.cache[i] /\ cache'[i] # Absent
      /\ \A i \in EntryIds : i \notin ids => cache'[i] = Absent
  <2>1. \A i \in ids : all.cache[i] # Absent
    BY <1>4, <1>6, EntriesAreTold DEF CacheFollows
  <2>2. \A i \in EntryIds : i \notin ids /\ i \notin keys => all.cache[i] = Absent
    BY <1>4 DEF CacheFollows, Registry!KeysOf
  <2> QED BY <1>4, <1>6, <1>7, <2>1, <2>2
<1>10. Registry!KeysOf(cache') = ids
  <2> HIDE DEF ids, keys
  <2> QED BY <1>6, <1>9 DEF Registry!KeysOf
<1>11. ids = {b[k].id : k \in {l \in DOMAIN b : Registry!IsValid(b[l])}}
  BY <1>5 DEF ListedIn
<1>12. ASSUME NEW i \in ids
       PROVE  /\ cache'[i].version = b[Registry!LastFor(i)'].version
              /\ cache'[i] # b[Registry!LastFor(i)'] => cache'[i].version = cache[i].version
  <2>1. PICK k \in 1 .. Len(b) :
          /\ IsLast(b, Len(b), i, k) /\ all.cache[i].version = b[k].version
          /\ all.cache[i] = b[k] \/ all.cache[i].version = cache[i].version
    BY <1>4, <1>6 DEF CacheFollows
  <2>2. Registry!LastFor(i)' = k
    <3>1. answer' \in Seq(Registry!Listed \cup {[id |-> "invalid"]}) /\ IsLast(answer', Len(answer'), i, k)
      BY <1>1, <1>3, <2>1 DEF IsAnswer
    <3>2. Registry!LastFor(i)' = CHOOSE m \in {m \in DOMAIN b : b[m].id = i} :
                                   \A l \in {l \in DOMAIN b : b[l].id = i} : l <= m
      BY <1>3 DEF Registry!LastFor
    <3> DEFINE places == {m \in DOMAIN b : b[m].id = i}
    <3>3. k \in places /\ \A l \in places : l <= k
      BY <1>5, <2>1 DEF IsLast
    <3>4. places \subseteq Nat
      BY <1>5
    <3> HIDE DEF places
    <3>5. \A m \in places : (\A l \in places : l <= m) => m = k
      <4> SUFFICES ASSUME NEW m \in places, \A l \in places : l <= m PROVE m = k
        OBVIOUS
      <4>1. m <= k /\ k <= m /\ m \in Nat /\ k \in Nat
        BY <3>3, <3>4
      <4> QED BY <4>1
    <3> QED BY <3>2, <3>3, <3>5 DEF places
  <2> QED BY <1>9, <2>1, <2>2
<1>13. /\ counts'.errors = all.counts.errors /\ counts'.new = all.counts.new
       /\ counts'.updated = all.counts.updated /\ counts'.removed = Cardinality(all.old)
  BY <1>3, <1>4 DEF Tallies
<1>14. counts'.errors = Cardinality({k \in DOMAIN b : ~Registry!IsValid(b[k])})
  BY <1>4, <1>5, <1>13 DEF CountsFollow
<1>15. ASSUME \A k, l \in DOMAIN b : k # l /\ Registry!IsValid(b[k]) => b[k].id # b[l].id
       PROVE  /\ counts'.new = Cardinality(ids \ keys)
              /\ counts'.removed = Cardinality(keys \ ids)
              /\ counts'.updated = Cardinality({i \in ids \cap keys : cache'[i].version # cache[i].version})
  <2>1. ~Repeats(b)
    BY <1>5, <1>15 DEF Repeats
  <2>2. Updated(cache, all.cache, ids) = {i \in ids \cap keys : cache'[i].version # cache[i].version}
    BY <1>9 DEF Updated
  <2> QED BY <1>4, <1>13, <2>1, <2>2 DEF CountsFollow
<1> HIDE DEF ids, keys
<1>16. \A i \in Registry!KeysOf(cache') :
         /\ cache'[i].version = answer'[Registry!LastFor(i)'].version
         /\ cache'[i] # answer'[Registry!LastFor(i)'] => cache'[i].version = cacheBefore'[i].version
  BY <1>3, <1>10, <1>12
<1>17. Registry!KeysOf(cache') =
         {answer'[k].id : k \in {l \in DOMAIN answer' : Registry!IsValid(answer'[l])}}
  BY <1>3, <1>10, <1>11
<1>18. counts'.errors = Registry!Cardinality({k \in DOMAIN answer' : ~Registry!IsValid(answer'[k])})
  BY <1>3, <1>14, RegistryCount
<1>19. (\A k, l \in DOMAIN answer' :
          k # l /\ Registry!IsValid(answer'[k]) => answer'[k].id # answer'[l].id) =>
         /\ counts'.new = Registry!Cardinality(Registry!KeysOf(cache') \ Registry!KeysOf(cacheBefore'))
         /\ counts'.removed = Registry!Cardinality(Registry!KeysOf(cacheBefore') \ Registry!KeysOf(cache'))
         /\ counts'.updated =
              Registry!Cardinality({i \in Registry!KeysOf(cache') \cap Registry!KeysOf(cacheBefore') :
                                      cache'[i].version # cacheBefore'[i].version})
  BY <1>3, <1>10, <1>15, RegistryCount DEF keys
<1>20. Registry!ListsTheAnswer'
  BY <1>16, <1>17, <1>18, <1>19 DEF Registry!ListsTheAnswer
<1> QED BY <1>8, <1>20

LEMMA RegistryBegins ==
  ASSUME Registry!Init
  PROVE  RegistryInv
<1>1. /\ sources = {} /\ targets = 0 /\ syncing = FALSE /\ syncs = 0
      /\ cache = [i \in EntryIds |-> Absent] /\ cacheBefore = cache
      /\ answer = <<>> /\ counts = Registry!NoCounts
  BY DEF Registry!Init, Registry!EmptyCache
<1>2. Registry!IsFiniteSet({}) /\ Cardinality({}) = 0
  BY FS_EmptySet DEF Registry!IsFiniteSet, IsFiniteSet
<1>3. Registry!TypeOK
  <2>1. {cache[i] : i \in EntryIds} \subseteq {Absent}
    BY <1>1
  <2>2. sources \subseteq [id : RegistrySources, enabled : BOOLEAN] /\ Registry!IsFiniteSet(sources)
    BY <1>1, <1>2
  <2>3. targets \in Nat /\ syncs \in 0 .. MaxSyncs
    BY <1>1, DocumentBoundsAreNat
  <2>4. {cache[i] : i \in EntryIds} \subseteq Registry!Listed \cup {Absent}
    BY <2>1
  <2>5. syncing \in BOOLEAN
    BY <1>1
  <2> QED BY <2>2, <2>3, <2>4, <2>5 DEF Registry!TypeOK
<1>4. cache \in Caches
  BY <1>1 DEF Caches
<1>5. Registry!KeysOf(cache) = {} /\ Registry!KeysOf(cacheBefore) = {}
  BY <1>1 DEF Registry!KeysOf
<1>6. DOMAIN answer = {}
  BY <1>1
<1>7. Registry!ListsTheAnswer
  BY <1>1, <1>2, <1>5, <1>6, RegistryCount DEF Registry!ListsTheAnswer, Registry!NoCounts
<1> QED BY <1>3, <1>4, <1>7 DEF RegistryInv

LEMMA RegistryFinite == \A S : Registry!IsFiniteSet(S) <=> IsFiniteSet(S)
BY DEF Registry!IsFiniteSet, IsFiniteSet

LEMMA ListsUnchanged ==
  ASSUME Registry!ListsTheAnswer, UNCHANGED <<cache, cacheBefore, answer, counts>>
  PROVE  Registry!ListsTheAnswer'
<1>1. cache' = cache /\ cacheBefore' = cacheBefore /\ answer' = answer /\ counts' = counts
  OBVIOUS
<1>2. \A i : Registry!LastFor(i)' = Registry!LastFor(i)
  BY <1>1 DEF Registry!LastFor
<1> QED BY <1>1, <1>2 DEF Registry!ListsTheAnswer

LEMMA RegistryNextKeeps ==
  ASSUME RegistryInv, Registry!Next
  PROVE  RegistryInv'
<1> USE DEF RegistryInv
<1>1. /\ sources \subseteq [id : RegistrySources, enabled : BOOLEAN] /\ IsFiniteSet(sources)
      /\ targets \in Nat /\ syncing \in BOOLEAN /\ syncs \in 0 .. MaxSyncs
  BY RegistryFinite DEF Registry!TypeOK
<1>2. ASSUME UNCHANGED <<cache, cacheBefore, answer, counts>>
      PROVE  cache' \in Caches /\ Registry!ListsTheAnswer'
  BY <1>2, ListsUnchanged
<1>3. ASSUME cache' \in Caches, sources' \subseteq [id : RegistrySources, enabled : BOOLEAN],
             IsFiniteSet(sources'), targets' \in Nat, syncing' \in BOOLEAN, syncs' \in 0 .. MaxSyncs
      PROVE  Registry!TypeOK'
  <2>1. {cache'[i] : i \in EntryIds} \subseteq Registry!Listed \cup {Absent}
    BY <1>3 DEF Caches
  <2> QED BY <1>3, <2>1, RegistryFinite DEF Registry!TypeOK
<1>4. ASSUME NEW s \in RegistrySources, NEW on \in BOOLEAN, Registry!AddSource(s, on)
      PROVE  RegistryInv'
  <2>1. /\ sources' = sources \cup {[id |-> s, enabled |-> on]}
        /\ UNCHANGED <<targets, syncing, cache, cacheBefore, answer, counts, syncs>>
    BY <1>4 DEF Registry!AddSource
  <2>2. IsFiniteSet(sources')
    BY <1>1, <2>1, FS_AddElement
  <2> QED BY <1>1, <1>2, <1>3, <2>1, <2>2
<1>5. ASSUME NEW s \in RegistrySources, Registry!RemoveSource(s)
      PROVE  RegistryInv'
  <2>1. /\ sources' \subseteq sources
        /\ UNCHANGED <<targets, syncing, cache, cacheBefore, answer, counts, syncs>>
    BY <1>5 DEF Registry!RemoveSource
  <2>2. IsFiniteSet(sources')
    BY <1>1, <2>1, FS_Subset
  <2> QED BY <1>1, <1>2, <1>3, <2>1, <2>2
<1>6. ASSUME Registry!Sync
      PROVE  RegistryInv'
  <2>1. /\ syncs < MaxSyncs /\ syncs' = syncs + 1 /\ syncing' = TRUE
        /\ targets' = Cardinality({s \in sources : s.enabled})
        /\ UNCHANGED <<sources, cache, cacheBefore, answer, counts>>
    BY <1>6, RegistryCount DEF Registry!Sync
  <2>2. targets' \in Nat
    <3>1. IsFiniteSet({s \in sources : s.enabled})
      BY <1>1, FS_Subset
    <3> QED BY <2>1, <3>1, FS_CardinalityType
  <2>3. syncs' \in 0 .. MaxSyncs
    BY <1>1, <2>1, DocumentBoundsAreNat
  <2> QED BY <1>1, <1>2, <1>3, <2>1, <2>2, <2>3
<1>7. ASSUME Registry!Returns
      PROVE  RegistryInv'
  BY <1>1, <1>2, <1>3, <1>7 DEF Registry!Returns
<1>8. ASSUME NEW b \in Registry!Answers, Registry!SourceAnswers(b)
      PROVE  RegistryInv'
  <2>1. cache' \in Caches /\ Registry!ListsTheAnswer'
    BY <1>8, AnswerIsListed
  <2>2. targets' \in Nat /\ UNCHANGED <<sources, syncing, syncs>>
    BY <1>1, <1>8 DEF Registry!SourceAnswers
  <2> QED BY <1>1, <1>3, <2>1, <2>2
<1>9. ASSUME Registry!SourceFails
      PROVE  RegistryInv'
  <2>1. targets' \in Nat /\ UNCHANGED <<sources, syncing, cache, cacheBefore, answer, counts, syncs>>
    BY <1>1, <1>9 DEF Registry!SourceFails
  <2> QED BY <1>1, <1>2, <1>3, <2>1
<1> QED BY <1>4, <1>5, <1>6, <1>7, <1>8, <1>9 DEF Registry!Next

LEMMA RegistryUnchangedKeeps ==
  ASSUME RegistryInv, UNCHANGED registryVars
  PROVE  RegistryInv'
<1>1. UNCHANGED <<sources, targets, syncing, cache, cacheBefore, answer, counts, syncs>>
  BY DEF registryVars
<1>2. Registry!TypeOK'
  BY <1>1 DEF RegistryInv, Registry!TypeOK
<1> QED BY <1>1, <1>2, ListsUnchanged DEF RegistryInv

-----------------------------------------------------------------------------
(* AgentTools: the inductive invariant. *)

Places == (1 .. LastFile) \X (1 .. MaxLength)
Searches ==
  [at : {"no", "reading", "done"}, left : Seq(1 .. LastFile), limit : Nat, matches : Seq(Places),
   files : Nat, bytes : Nat, truncated : BOOLEAN]

\* Files are read in their order, each once.
ReadsOn ==
  /\ seen \subseteq (1 .. LastFile) \X Tools!Texts
  /\ \A i, k \in 1 .. Len(search.left) : i < k => search.left[i] < search.left[k]
  /\ \A s \in seen : \A i \in 1 .. Len(search.left) : s[1] < search.left[i]

WithinLimits ==
  /\ search.files + Len(search.left) <= MaxScanned
  /\ search.bytes <= MaxScannedBytes /\ Len(search.matches) <= search.limit

MatchesAreThere ==
  \A i \in 1 .. Len(search.matches) :
    \E s \in seen : s[1] = search.matches[i][1] /\ s[2][search.matches[i][2]] = "hit"

Precedes(p, q) == p[1] < q[1] \/ (p[1] = q[1] /\ p[2] < q[2])
MatchesInOrder ==
  \A i, k \in 1 .. Len(search.matches) : i < k => Precedes(search.matches[i], search.matches[k])

NothingLeftOut ==
  ~search.truncated =>
    \A s \in seen : \A l \in DOMAIN s[2] :
      s[2][l] = "hit" => \E i \in 1 .. Len(search.matches) : search.matches[i] = <<s[1], l>>

PageIsTold == ~page.truncated => page.lines = SubSeq(page.of, page.start, Len(page.of))

ToolsInv ==
  /\ texts \in [1 .. LastFile -> Tools!Texts \cup {Absent}] /\ edits \in 0 .. MaxEdits
  /\ search \in Searches
  /\ ReadsOn /\ WithinLimits /\ MatchesAreThere /\ MatchesInOrder /\ NothingLeftOut
  /\ PageIsTold
  /\ search.at = "no" => seen = {} /\ search.matches = <<>> /\ search.files = 0 /\ search.bytes = 0

-----------------------------------------------------------------------------
(* AgentTools: every step keeps the invariant. *)

LEMMA ToolsInvTells ==
  ASSUME ToolsInv
  PROVE  Tools!TypeOK /\ Tools!TruncationIsTold
<1>1. /\ search.at \in {"no", "reading", "done"} /\ search.truncated \in BOOLEAN
      /\ search.left \in Seq(1 .. LastFile) /\ search.matches \in Seq(Places)
      /\ search.files \in Nat
  BY DEF ToolsInv, Searches
<1>2. Tools!TypeOK
  BY <1>1 DEF ToolsInv, Tools!TypeOK, Places
<1>3. DOMAIN search.matches = 1 .. Len(search.matches) /\ Len(search.left) \in Nat
  BY <1>1, LenProperties
<1>4. search.files <= MaxScanned
  BY <1>1, <1>3, DocumentBoundsAreNat DEF ToolsInv, WithinLimits
<1>5. Tools!TruncationIsTold
  BY <1>3, <1>4 DEF ToolsInv, Tools!TruncationIsTold, WithinLimits, MatchesAreThere, MatchesInOrder,
     Precedes, NothingLeftOut, PageIsTold
<1> QED BY <1>2, <1>5

LEMMA ToolsCount == \A S : Tools!Cardinality(S) = Cardinality(S)
BY DEF Tools!Cardinality, Cardinality

LEMMA ToolsOrder ==
  ASSUME NEW m \in Nat, NEW set \in SUBSET (1 .. m)
  PROVE  Ordered(Tools!InOrder(set), set)
<1>1. PICK s : Ordered(s, set)
  BY OrderExists
<1>2. /\ s \in [1 .. Tools!Cardinality(set) -> set]
      /\ \A i, k \in DOMAIN s : i < k => s[i] < s[k]
  BY <1>1, ToolsCount DEF Ordered
<1>3. /\ Tools!InOrder(set) \in [1 .. Tools!Cardinality(set) -> set]
      /\ \A i, k \in DOMAIN Tools!InOrder(set) :
           i < k => Tools!InOrder(set)[i] < Tools!InOrder(set)[k]
  BY <1>2 DEF Tools!InOrder
<1>4. Tools!InOrder(set) \in [1 .. Cardinality(set) -> set]
  BY <1>3, ToolsCount
<1> QED BY <1>3, <1>4 DEF Ordered

LEMMA ToolsBegin ==
  ASSUME Tools!Init
  PROVE  ToolsInv
<1>1. /\ search.at = "no" /\ search.left = <<>> /\ search.limit = 0 /\ search.matches = <<>>
      /\ search.files = 0 /\ search.bytes = 0 /\ search.truncated = FALSE
      /\ search \in Searches
  <2>1. <<>> \in Seq(1 .. LastFile) /\ <<>> \in Seq(Places)
    BY EmptySeq
  <2> QED BY <2>1 DEF Tools!Init, Tools!NoSearch, Searches
<1>2. /\ Len(<<>>) = 0 /\ seen = {} /\ edits = 0
      /\ texts \in [1 .. LastFile -> Tools!Texts \cup {Absent}]
  BY EmptySeq DEF Tools!Init
<1>3. page.lines = <<>> /\ page.of = <<>> /\ page.start = 1
  BY DEF Tools!Init, Tools!NoPage
<1>4. PageIsTold
  <2>1. SubSeq(<<>>, 1, 0) = <<>>
    BY SubSeqEmpty
  <2> QED BY <1>2, <1>3, <2>1 DEF PageIsTold
<1>5. WithinLimits
  BY <1>1, <1>2, DocumentBoundsAreNat DEF WithinLimits
<1>6. edits \in 0 .. MaxEdits
  BY <1>2, DocumentBoundsAreNat
<1> QED BY <1>1, <1>2, <1>4, <1>5, <1>6
        DEF ToolsInv, ReadsOn, MatchesAreThere, MatchesInOrder, NothingLeftOut

\* The parts of the invariant that are about a search, when it stays as it is.
LEMMA SearchStays ==
  ASSUME ToolsInv, UNCHANGED <<search, seen>>, PageIsTold',
         texts' \in [1 .. LastFile -> Tools!Texts \cup {Absent}], edits' \in 0 .. MaxEdits
  PROVE  ToolsInv'
<1>1. search' = search /\ seen' = seen
  OBVIOUS
<1>2. ReadsOn' /\ WithinLimits' /\ MatchesAreThere' /\ MatchesInOrder' /\ NothingLeftOut'
  BY <1>1 DEF ToolsInv, ReadsOn, WithinLimits, MatchesAreThere, MatchesInOrder, NothingLeftOut
<1> QED BY <1>1, <1>2 DEF ToolsInv

LEMMA ReadFileKeeps ==
  ASSUME ToolsInv, NEW f \in 1 .. LastFile, NEW start \in 1 .. MaxLength + 1,
         NEW end \in 1 .. MaxLength + 1, Tools!ReadFile(f, start, end)
  PROVE  ToolsInv'
<1> DEFINE text == texts[f]
           last == Tools!Least(end, Len(text))
           lines == IF last >= start THEN SubSeq(text, start, last) ELSE <<>>
<1>1. /\ text \in Tools!Texts
      /\ page'.lines = SubSeq(lines, 1, Tools!Least(Len(lines), MaxPageBytes))
      /\ page'.of = text /\ page'.start = start
      /\ page'.truncated = (Len(lines) > MaxPageBytes \/ last < Len(text))
      /\ UNCHANGED <<texts, edits, search, seen>>
  BY DEF Tools!ReadFile, ToolsInv
<1>2. text \in Seq({"hit", "miss"}) /\ Len(text) \in Nat /\ start \in Nat \ {0} /\ end \in Nat
  BY <1>1, DocumentBoundsAreNat DEF Tools!Texts
<1>3. /\ last \in Nat /\ last <= Len(text)
  BY <1>2 DEF Tools!Least
<1>4. lines \in Seq({"hit", "miss"}) /\ lines = SubSeq(text, start, last)
  <2>1. SubSeq(text, start, last) \in Seq({"hit", "miss"})
    <3>1. \A i \in start .. last : text[i] \in {"hit", "miss"}
      BY <1>2, <1>3
    <3> HIDE DEF text, last
    <3> QED BY <1>2, <1>3, <3>1, SubSeqProperties
  <2>2. CASE last >= start
    BY <2>1, <2>2
  <2>3. CASE ~(last >= start)
    <3>1. last < start
      BY <1>2, <1>3, <2>3
    <3>2. SubSeq(text, start, last) = <<>>
      BY <1>2, <1>3, <3>1, SubSeqEmpty
    <3> QED BY <2>1, <2>3, <3>2
  <2> QED BY <2>2, <2>3
<1>5. ASSUME ~page'.truncated
      PROVE  page'.lines = SubSeq(page'.of, page'.start, Len(page'.of))
  <2> HIDE DEF lines, last, text
  <2>0. ~(Len(lines) > MaxPageBytes) /\ ~(last < Len(text))
    BY <1>1, <1>5, Zenon
  <2>1. last = Len(text)
    BY <1>2, <1>3, <2>0
  <2>2. Len(lines) \in Nat /\ SubSeq(lines, 1, Len(lines)) = lines
    BY <1>4, LenProperties, SubSeqFull
  <2>3. Tools!Least(Len(lines), MaxPageBytes) = Len(lines)
    <3>1. \A m, n \in Nat : ~(n > m) => Tools!Least(n, m) = n
      BY DEF Tools!Least
    <3> QED BY <2>0, <2>2, <3>1, DocumentBoundsAreNat
  <2> QED BY <1>1, <1>4, <2>1, <2>2, <2>3
<1>6. PageIsTold'
  BY <1>5 DEF PageIsTold
<1> QED BY <1>1, <1>6, SearchStays DEF ToolsInv

LEMMA EditKeeps ==
  ASSUME ToolsInv, NEW f \in 1 .. LastFile, NEW text \in {<<"hit">>, Absent}, Tools!Edit(f, text)
  PROVE  ToolsInv'
<1>1. /\ edits < MaxEdits /\ edits' = edits + 1 /\ texts' = [texts EXCEPT ![f] = text]
      /\ UNCHANGED <<search, seen, page>>
  BY DEF Tools!Edit
<1>2. <<"hit">> \in Tools!Texts
  <2>1. 1 \in 1 .. MaxLength /\ <<"hit">> \in [1 .. 1 -> {"hit", "miss"}]
    BY DocumentBoundsAreNat
  <2> QED BY <2>1 DEF Tools!Texts
<1>3. texts' \in [1 .. LastFile -> Tools!Texts \cup {Absent}]
  BY <1>1, <1>2 DEF ToolsInv
<1>4. edits' \in 0 .. MaxEdits
  BY <1>1, DocumentBoundsAreNat DEF ToolsInv
<1>5. PageIsTold'
  BY <1>1 DEF ToolsInv, PageIsTold
<1> QED BY <1>1, <1>3, <1>4, <1>5, SearchStays

LEMMA SearchEndsKeeps ==
  ASSUME ToolsInv, Tools!SearchEnds
  PROVE  ToolsInv'
<1>1. /\ search' = [search EXCEPT !.at = "done"]
      /\ UNCHANGED <<texts, edits, seen, page>>
  BY DEF Tools!SearchEnds
<1>2. /\ search' \in Searches /\ search'.at = "done" /\ search'.left = search.left
      /\ search'.limit = search.limit /\ search'.matches = search.matches
      /\ search'.files = search.files /\ search'.bytes = search.bytes
      /\ search'.truncated = search.truncated
  BY <1>1 DEF ToolsInv, Searches
<1>3. ReadsOn' /\ WithinLimits' /\ MatchesAreThere' /\ MatchesInOrder' /\ NothingLeftOut'
  <2>1. ReadsOn'
    BY <1>1, <1>2 DEF ToolsInv, ReadsOn
  <2>2. WithinLimits'
    BY <1>1, <1>2 DEF ToolsInv, WithinLimits
  <2>3. MatchesAreThere'
    BY <1>1, <1>2 DEF ToolsInv, MatchesAreThere
  <2>4. MatchesInOrder'
    BY <1>1, <1>2 DEF ToolsInv, MatchesInOrder
  <2>5. NothingLeftOut'
    <3>1. SUFFICES ASSUME ~search'.truncated, NEW s \in seen, NEW l \in DOMAIN s[2], s[2][l] = "hit"
                   PROVE  \E i \in 1 .. Len(search.matches) : search.matches[i] = <<s[1], l>>
      <4>1. /\ search'.matches = search.matches /\ seen' = seen
        BY <1>1, <1>2
      <4> QED BY <4>1 DEF NothingLeftOut
    <3>2. ~search.truncated
      BY <1>2, <3>1, Zenon
    <3> QED BY <3>1, <3>2 DEF ToolsInv, NothingLeftOut
  <2> QED BY <2>1, <2>2, <2>3, <2>4, <2>5
<1>4. PageIsTold'
  BY <1>1 DEF ToolsInv, PageIsTold
<1> QED BY <1>1, <1>2, <1>3, <1>4 DEF ToolsInv

LEMMA StartSearchKeeps ==
  ASSUME ToolsInv, NEW eligible \in SUBSET (1 .. LastFile), NEW limit \in 1 .. MaxResults,
         Tools!StartSearch(eligible, limit)
  PROVE  ToolsInv'
<1> DEFINE list == Tools!InOrder(eligible)
           cut == IF Len(list) > MaxScanned THEN MaxScanned ELSE Len(list)
           left == SubSeq(list, 1, cut)
<1>1. /\ search.at = "no"
      /\ search' = [Tools!NoSearch EXCEPT !.at = "reading", !.limit = limit, !.left = left,
                                          !.truncated = Len(list) > MaxScanned]
      /\ page' = Tools!NoPage
      /\ UNCHANGED <<texts, edits, seen>>
  BY DEF Tools!StartSearch
<1>2. /\ list \in Seq(eligible) /\ \A i, k \in 1 .. Len(list) : i < k => list[i] < list[k]
  <2>1. Ordered(list, eligible)
    BY DocumentBoundsAreNat, ToolsOrder
  <2> HIDE DEF list
  <2> QED BY <2>1, DocumentBoundsAreNat, OrderedTells
<1>3. list \in Seq(1 .. LastFile)
  BY <1>2, SeqMonotonic
<1> HIDE DEF list
<1>4. Len(list) \in Nat /\ cut \in 0 .. Len(list) /\ cut <= MaxScanned
  BY <1>3, LenProperties, DocumentBoundsAreNat
<1> HIDE DEF cut
<1>5. /\ left \in Seq(1 .. LastFile) /\ Len(left) = cut
      /\ \A i \in 1 .. cut : left[i] = list[i]
  <2>1. \A i \in 1 .. cut : list[i] \in 1 .. LastFile
    <3>1. \A i \in 1 .. cut : i \in 1 .. Len(list)
      BY <1>4
    <3> QED BY <1>3, <3>1, ElementOfSeq
  <2>2. 1 \in Int /\ cut \in Int
    BY <1>4
  <2>3. /\ left \in Seq(1 .. LastFile) /\ Len(left) = IF 1 <= cut THEN cut - 1 + 1 ELSE 0
        /\ \A i \in 1 .. cut - 1 + 1 : left[i] = list[1 + i - 1]
    BY <2>1, <2>2, SubSeqProperties
  <2> HIDE DEF left
  <2> QED BY <1>4, <2>3
<1> HIDE DEF left
<1>6. /\ search'.at = "reading" /\ search'.left = left /\ search'.limit = limit
      /\ search'.matches = <<>> /\ search'.files = 0 /\ search'.bytes = 0
      /\ search' \in Searches
  <2>1. <<>> \in Seq(Places) /\ limit \in Nat
    BY EmptySeq, DocumentBoundsAreNat
  <2>2. search' = [at |-> "reading", left |-> left, limit |-> limit, matches |-> <<>>, files |-> 0,
                   bytes |-> 0, truncated |-> Len(list) > MaxScanned]
    BY <1>1 DEF Tools!NoSearch
  <2>3. search' \in Searches
    <3>1. (Len(list) > MaxScanned) \in BOOLEAN
      OBVIOUS
    <3>2. left \in Seq(1 .. LastFile)
      BY <1>5
    <3> QED BY <2>1, <2>2, <3>1, <3>2 DEF Searches
  <2> QED BY <2>2, <2>3
<1>7. seen' = {} /\ Len(<<>>) = 0
  BY <1>1, EmptySeq DEF ToolsInv
<1>8. \A i, k \in 1 .. cut : i < k => left[i] < left[k]
  BY <1>2, <1>4, <1>5
<1>9. WithinLimits'
  BY <1>4, <1>5, <1>6, <1>7, DocumentBoundsAreNat DEF WithinLimits
<1>10. PageIsTold'
  <2>1. SubSeq(<<>>, 1, 0) = <<>>
    BY SubSeqEmpty
  <2>2. page'.lines = <<>> /\ page'.of = <<>> /\ page'.start = 1
    BY <1>1 DEF Tools!NoPage
  <2> QED BY <1>7, <2>1, <2>2 DEF PageIsTold
<1>11. ReadsOn' /\ MatchesAreThere' /\ MatchesInOrder' /\ NothingLeftOut'
  BY <1>5, <1>6, <1>7, <1>8 DEF ReadsOn, MatchesAreThere, MatchesInOrder, NothingLeftOut
<1> QED BY <1>1, <1>6, <1>9, <1>10, <1>11 DEF ToolsInv

\* The places of a text's hits, and what a search has after it.
Marks(f, text) == [k \in DOMAIN Tools!Hits(text) |-> <<f, Tools!Hits(text)[k]>>]
Found(matches, marks, room) ==
  matches \o SubSeq(marks, 1, IF Len(marks) < room THEN Len(marks) ELSE room)

LEMMA HitsTold ==
  ASSUME NEW text \in Tools!Texts, NEW f \in 1 .. LastFile
  PROVE  /\ Marks(f, text) \in Seq(Places)
         /\ \A i \in 1 .. Len(Marks(f, text)) :
              Marks(f, text)[i][1] = f /\ text[Marks(f, text)[i][2]] = "hit"
         /\ \A i, k \in 1 .. Len(Marks(f, text)) :
              i < k => Marks(f, text)[i][2] < Marks(f, text)[k][2]
         /\ \A l \in DOMAIN text :
              text[l] = "hit" => \E i \in 1 .. Len(Marks(f, text)) : Marks(f, text)[i] = <<f, l>>
<1> DEFINE set == {i \in DOMAIN text : text[i] = "hit"}
           hits == Tools!Hits(text)
<1>1. PICK n \in 1 .. MaxLength : text \in [1 .. n -> {"hit", "miss"}]
  BY DEF Tools!Texts
<1>2. n \in Nat /\ set \in SUBSET (1 .. n) /\ 1 .. n \subseteq 1 .. MaxLength
  BY <1>1, DocumentBoundsAreNat
<1>3. hits = Tools!InOrder(set)
  BY DEF Tools!Hits
<1> HIDE DEF hits
<1>4. Ordered(hits, set)
  <2> HIDE DEF set
  <2> QED BY <1>2, <1>3, ToolsOrder
<1>5. /\ hits \in Seq(set)
      /\ \A i, k \in 1 .. Len(hits) : i < k => hits[i] < hits[k]
      /\ \A x \in set : \E i \in 1 .. Len(hits) : hits[i] = x
  <2> HIDE DEF set
  <2>1. n \in Nat /\ set \in SUBSET (1 .. n)
    BY <1>2
  <2>2. /\ hits \in Seq(set) /\ Len(hits) = Cardinality(set)
        /\ \A i, k \in 1 .. Len(hits) : i < k => hits[i] < hits[k]
        /\ \A x \in set : \E i \in 1 .. Len(hits) : hits[i] = x
    <3>1. PICK j \in Nat : set \in SUBSET (1 .. j)
      BY <2>1
    <3>2. hits \in Seq(set) /\ Len(hits) = Cardinality(set)
      BY <1>4, <3>1, OrderedTells
    <3>3. \A i, k \in 1 .. Len(hits) : i < k => hits[i] < hits[k]
      BY <1>4, <3>1, OrderedTells
    <3>4. Covers(hits, set)
      BY <1>4, <3>1, OrderedTells
    <3> QED BY <3>2, <3>3, <3>4 DEF Covers
  <2> QED BY <2>2
<1>6. Len(hits) \in Nat /\ DOMAIN hits = 1 .. Len(hits) /\ \A i \in 1 .. Len(hits) : hits[i] \in set
  <2> HIDE DEF set
  <2> QED BY <1>5, LenProperties, ElementOfSeq
<1>7. Marks(f, text) = [k \in 1 .. Len(hits) |-> <<f, hits[k]>>]
  BY <1>6 DEF Marks, hits
<1>8. \A i \in 1 .. Len(hits) : hits[i] \in 1 .. MaxLength /\ text[hits[i]] = "hit"
  BY <1>2, <1>6
<1>9. Marks(f, text) \in Seq(Places) /\ Len(Marks(f, text)) = Len(hits)
  <2>1. \A i \in 1 .. Len(hits) : <<f, hits[i]>> \in Places
    BY <1>8 DEF Places
  <2>2. Marks(f, text) \in [1 .. Len(hits) -> Places]
    BY <1>7, <2>1
  <2> QED BY <1>6, <2>2
<1>10. \A i \in 1 .. Len(hits) : Marks(f, text)[i] = <<f, hits[i]>>
  BY <1>7
<1>11. \A l \in DOMAIN text : text[l] = "hit" => \E i \in 1 .. Len(hits) : hits[i] = l
  BY <1>5
<1>12. \A i \in 1 .. Len(hits) : Marks(f, text)[i][1] = f /\ Marks(f, text)[i][2] = hits[i]
  BY <1>10
<1>13. \A i, k \in 1 .. Len(hits) : i < k => Marks(f, text)[i][2] < Marks(f, text)[k][2]
  BY <1>5, <1>12
<1>14. \A i \in 1 .. Len(hits) : Marks(f, text)[i][1] = f /\ text[Marks(f, text)[i][2]] = "hit"
  BY <1>8, <1>12
<1>15. \A l \in DOMAIN text :
         text[l] = "hit" => \E i \in 1 .. Len(hits) : Marks(f, text)[i] = <<f, l>>
  BY <1>10, <1>11
<1> QED BY <1>9, <1>13, <1>14, <1>15

LEMMA FoundTold ==
  ASSUME NEW matches \in Seq(Places), NEW marks \in Seq(Places), NEW limit \in Nat,
         Len(matches) <= limit
  PROVE  LET found == Found(matches, marks, limit - Len(matches)) IN
         /\ found \in Seq(Places) /\ Len(found) <= limit /\ Len(found) >= Len(matches)
         /\ \A i \in 1 .. Len(found) :
              \/ i <= Len(matches) /\ found[i] = matches[i]
              \/ /\ i > Len(matches) /\ i - Len(matches) \in 1 .. Len(marks)
                 /\ found[i] = marks[i - Len(matches)]
         /\ \A i \in 1 .. Len(matches) : i \in 1 .. Len(found) /\ found[i] = matches[i]
         /\ ~(Len(found) >= limit) =>
              \A k \in 1 .. Len(marks) :
                k + Len(matches) \in 1 .. Len(found) /\ found[k + Len(matches)] = marks[k]
<1> DEFINE m == Len(matches)
           room == limit - m
           t == IF Len(marks) < room THEN Len(marks) ELSE room
           more == SubSeq(marks, 1, t)
           found == Found(matches, marks, limit - Len(matches))
<1>1. m \in Nat /\ Len(marks) \in Nat
  BY LenProperties
<1>2. /\ t \in Nat /\ t <= Len(marks) /\ m + t <= limit
      /\ m + t < limit => t = Len(marks)
  <2> HIDE DEF m
  <2> QED BY <1>1 DEF m
<1>3. found = matches \o more
  BY DEF Found
<1> HIDE DEF t, found, m
<1>4. more \in Seq(Places) /\ Len(more) = t /\ \A i \in 1 .. t : more[i] = marks[i]
  <2>1. \A i \in 1 .. t : marks[i] \in Places
    <3>1. \A i \in 1 .. t : i \in 1 .. Len(marks)
      BY <1>1, <1>2
    <3> QED BY <3>1, ElementOfSeq
  <2>2. /\ more \in Seq(Places) /\ Len(more) = IF 1 <= t THEN t - 1 + 1 ELSE 0
        /\ \A i \in 1 .. t - 1 + 1 : more[i] = marks[1 + i - 1]
    <3>1. 1 \in Int /\ t \in Int
      BY <1>2
    <3> QED BY <2>1, <3>1, SubSeqProperties
  <2> HIDE DEF more
  <2> QED BY <1>2, <2>2
<1> HIDE DEF more
<1>5. /\ found \in Seq(Places) /\ Len(found) = m + t
      /\ \A i \in 1 .. m + t : found[i] = IF i <= m THEN matches[i] ELSE more[i - m]
  <2>1. matches \in Seq(Places) /\ more \in Seq(Places)
    BY <1>1, <1>2, <1>3, <1>4
  <2>2. /\ found \in Seq(Places) /\ Len(found) = Len(matches) + Len(more)
        /\ \A i \in 1 .. Len(matches) + Len(more) :
             found[i] = IF i <= Len(matches) THEN matches[i] ELSE more[i - Len(matches)]
    BY <1>3, <2>1, ConcatProperties, Zenon
  <2>3. Len(matches) = m /\ Len(more) = t
    BY <1>4 DEF m
  <2> QED BY <2>2, <2>3, Zenon
<1>6. ASSUME NEW i \in 1 .. Len(found)
      PROVE  \/ i <= m /\ found[i] = matches[i]
             \/ i > m /\ i - m \in 1 .. Len(marks) /\ found[i] = marks[i - m]
  <2>1. CASE i <= m
    BY <1>5, <2>1
  <2>2. CASE ~(i <= m)
    <3>1. i > m /\ i - m \in 1 .. t /\ i - m \in 1 .. Len(marks)
      BY <1>1, <1>2, <1>5, <2>2
    <3> QED BY <1>4, <1>5, <2>2, <3>1
  <2> QED BY <2>1, <2>2
<1>7. ASSUME NEW i \in 1 .. m
      PROVE  i \in 1 .. Len(found) /\ found[i] = matches[i]
  BY <1>1, <1>2, <1>5
<1>8. ASSUME ~(Len(found) >= limit), NEW k \in 1 .. Len(marks)
      PROVE  k + m \in 1 .. Len(found) /\ found[k + m] = marks[k]
  <2>1. t = Len(marks)
    BY <1>1, <1>2, <1>5, <1>8
  <2>2. k + m \in 1 .. m + t /\ ~(k + m <= m) /\ k + m - m = k
    BY <1>1, <1>2, <2>1
  <2>3. found[k + m] = more[k]
    <3>1. found[k + m] = IF k + m <= m THEN matches[k + m] ELSE more[k + m - m]
      <4>1. PICK j \in 1 .. m + t : j = k + m
        BY <2>2
      <4>2. found[j] = IF j <= m THEN matches[j] ELSE more[j - m]
        BY <1>5
      <4> QED BY <1>1, <4>1, <4>2
    <3> QED BY <2>2, <3>1
  <2>4. more[k] = marks[k]
    BY <1>4, <2>1
  <2> QED BY <1>5, <2>2, <2>3, <2>4
<1>9. Len(found) <= limit /\ Len(found) >= m
  BY <1>1, <1>2, <1>5
<1> QED BY <1>5, <1>6, <1>7, <1>8, <1>9 DEF m, found

\* The files still to read, when the first of them is done.
Onward ==
  /\ search'.left \in Seq(1 .. LastFile)
  /\ Len(search'.left) < Len(search.left)
  /\ \A i \in 1 .. Len(search'.left) : i + 1 \in 1 .. Len(search.left) /\ search'.left[i] = search.left[i + 1]

LEMMA OnwardTold ==
  ASSUME ToolsInv, search.left # <<>>, search'.left = <<>> \/ search'.left = Tail(search.left)
  PROVE  /\ Onward /\ Head(search.left) = search.left[1] /\ search.left[1] \in 1 .. LastFile
         /\ 1 \in 1 .. Len(search.left)
<1> DEFINE left == search.left
<1>1. left \in Seq(1 .. LastFile) /\ Len(left) \in Nat
  BY LenProperties DEF ToolsInv, Searches
<1>2. /\ Head(left) \in 1 .. LastFile /\ Tail(left) \in Seq(1 .. LastFile)
      /\ Len(Tail(left)) = Len(left) - 1 /\ Len(left) > 0
      /\ \A i \in 1 .. Len(left) - 1 : Tail(left)[i] = left[i + 1]
  <2>1. left # <<>>
    OBVIOUS
  <2> HIDE DEF left
  <2>2. /\ Head(left) \in 1 .. LastFile /\ Tail(left) \in Seq(1 .. LastFile)
        /\ Len(Tail(left)) = Len(left) - 1
        /\ \A i \in 1 .. Len(Tail(left)) : Tail(left)[i] = left[i + 1]
    BY <1>1, <2>1, HeadTailProperties
  <2>3. Len(left) # 0
    BY <1>1, <2>1, EmptySeq
  <2>4. Len(left) > 0
    BY <1>1, <2>3
  <2> QED BY <2>2, <2>4
<1>3. Head(left) = left[1]
  OBVIOUS
<1>4. <<>> \in Seq(1 .. LastFile) /\ Len(<<>>) = 0
  BY EmptySeq
<1>5. search'.left = <<>> \/ search'.left = Tail(left)
  OBVIOUS
<1> HIDE DEF left
<1>6. search'.left \in Seq(1 .. LastFile) /\ Len(search'.left) < Len(left)
  <2>1. CASE search'.left = <<>>
    BY <1>1, <1>2, <1>4, <2>1
  <2>2. CASE search'.left = Tail(left)
    <3>1. Len(Tail(left)) < Len(left)
      BY <1>1, <1>2
    <3> QED BY <1>2, <2>2, <3>1
  <2> QED BY <1>5, <2>1, <2>2
<1>7. ASSUME NEW i \in 1 .. Len(search'.left)
      PROVE  i + 1 \in 1 .. Len(left) /\ search'.left[i] = left[i + 1]
  <2>1. CASE search'.left = <<>>
    BY <1>4, <2>1
  <2>2. CASE search'.left = Tail(left)
    <3>1. i \in 1 .. Len(left) - 1
      BY <1>2, <2>2
    <3>2. i + 1 \in 1 .. Len(left)
      BY <1>1, <3>1
    <3> QED BY <1>2, <2>2, <3>1, <3>2
  <2> QED BY <1>5, <2>1, <2>2
<1>8. Onward
  BY <1>6, <1>7 DEF Onward, left
<1> QED BY <1>1, <1>2, <1>3, <1>8 DEF left

\* Reading goes on in order, whatever the file that was read is remembered as.
LEMMA ReadsOnward ==
  ASSUME ToolsInv, Onward, 1 \in 1 .. Len(search.left), NEW text \in Tools!Texts,
         search.left[1] \in 1 .. LastFile,
         seen' = seen \/ seen' = seen \cup {<<search.left[1], text>>}
  PROVE  ReadsOn'
<1>1. /\ seen \subseteq (1 .. LastFile) \X Tools!Texts
      /\ \A i, k \in 1 .. Len(search.left) : i < k => search.left[i] < search.left[k]
      /\ \A s \in seen : \A i \in 1 .. Len(search.left) : s[1] < search.left[i]
  BY DEF ToolsInv, ReadsOn
<1>2. Len(search'.left) \in Nat /\ Len(search.left) \in Nat
  <2>1. search.left \in Seq(1 .. LastFile)
    BY DEF ToolsInv, Searches
  <2> QED BY <2>1, LenProperties DEF Onward
<1>3. seen' \subseteq (1 .. LastFile) \X Tools!Texts
  BY <1>1
<1>4. ASSUME NEW i \in 1 .. Len(search'.left), NEW k \in 1 .. Len(search'.left), i < k
      PROVE  search'.left[i] < search'.left[k]
  <2>1. i + 1 < k + 1 /\ i + 1 \in 1 .. Len(search.left) /\ k + 1 \in 1 .. Len(search.left)
    BY <1>4 DEF Onward
  <2>2. search.left[i + 1] < search.left[k + 1]
    BY <1>1, <2>1
  <2> QED BY <2>2 DEF Onward
<1>5. ASSUME NEW s \in seen', NEW i \in 1 .. Len(search'.left)
      PROVE  s[1] < search'.left[i]
  <2>1. i + 1 \in 1 .. Len(search.left) /\ search'.left[i] = search.left[i + 1] /\ 1 < i + 1
    BY <1>2 DEF Onward
  <2>2. CASE s \in seen
    BY <1>1, <2>1, <2>2
  <2>3. CASE s = <<search.left[1], text>>
    <3>1. search.left[1] < search.left[i + 1]
      BY <1>1, <2>1
    <3> QED BY <2>1, <2>3, <3>1
  <2> QED BY <2>2, <2>3
<1> QED BY <1>3, <1>4, <1>5 DEF ReadsOn

\* A file that is passed over, or ends the search.
LEMMA PassedOverKeeps ==
  ASSUME ToolsInv, Onward, 1 \in 1 .. Len(search.left), search.left[1] \in 1 .. LastFile,
         search' \in Searches, search'.at = "reading", search'.limit = search.limit,
         search'.matches = search.matches, search'.files = search.files,
         search'.bytes = search.bytes, search.truncated => search'.truncated,
         UNCHANGED <<texts, edits, seen, page>>
  PROVE  ToolsInv'
<1>1. seen' = seen /\ page' = page /\ texts' = texts /\ edits' = edits
  OBVIOUS
<1>2. ReadsOn'
  <2>1. \E text : text \in Tools!Texts
    <3>1. 1 \in 1 .. MaxLength /\ <<"hit">> \in [1 .. 1 -> {"hit", "miss"}]
      BY DocumentBoundsAreNat
    <3> QED BY <3>1 DEF Tools!Texts
  <2> QED BY <1>1, <2>1, ReadsOnward
<1>3. WithinLimits'
  <2>1. /\ search.files + Len(search.left) <= MaxScanned
        /\ search.bytes <= MaxScannedBytes /\ Len(search.matches) <= search.limit
    BY DEF ToolsInv, WithinLimits
  <2>2. search.files \in Nat /\ Len(search.left) \in Nat /\ Len(search'.left) \in Nat
    BY LenProperties DEF ToolsInv, Searches, Onward
  <2>3. search'.files + Len(search'.left) <= MaxScanned
    BY <2>1, <2>2, DocumentBoundsAreNat DEF Onward
  <2> QED BY <2>1, <2>3 DEF WithinLimits
<1>4. MatchesAreThere' /\ MatchesInOrder'
  BY <1>1 DEF ToolsInv, MatchesAreThere, MatchesInOrder
<1>5. NothingLeftOut'
  <2> SUFFICES ASSUME ~search'.truncated, NEW s \in seen, NEW l \in DOMAIN s[2], s[2][l] = "hit"
               PROVE  \E i \in 1 .. Len(search.matches) : search.matches[i] = <<s[1], l>>
    BY <1>1 DEF NothingLeftOut
  <2>1. ~search.truncated
    OBVIOUS
  <2> QED BY <2>1 DEF ToolsInv, NothingLeftOut
<1>6. PageIsTold'
  BY <1>1 DEF ToolsInv, PageIsTold
<1> QED BY <1>1, <1>2, <1>3, <1>4, <1>5, <1>6 DEF ToolsInv

\* A file that is read.
LEMMA FileReadKeeps ==
  ASSUME ToolsInv, Onward, 1 \in 1 .. Len(search.left), search.left[1] \in 1 .. LastFile,
         NEW text \in Tools!Texts,
         search' \in Searches, search'.at = "reading", search'.limit = search.limit,
         search'.matches = Found(search.matches, Marks(search.left[1], text),
                                 search.limit - Len(search.matches)),
         search'.files = search.files + 1, search'.bytes <= MaxScannedBytes,
         search.truncated \/ Len(search'.matches) >= search.limit => search'.truncated,
         seen' = seen \cup {<<search.left[1], text>>},
         UNCHANGED <<texts, edits, page>>
  PROVE  ToolsInv'
<1> DEFINE f == search.left[1]
           marks == Marks(f, text)
           matches == search.matches
           found == search'.matches
           m == Len(matches)
<1>1. page' = page /\ texts' = texts /\ edits' = edits
  OBVIOUS
<1>2. /\ marks \in Seq(Places)
      /\ \A i \in 1 .. Len(marks) : marks[i][1] = f /\ text[marks[i][2]] = "hit"
      /\ \A i, k \in 1 .. Len(marks) : i < k => marks[i][2] < marks[k][2]
      /\ \A l \in DOMAIN text : text[l] = "hit" => \E i \in 1 .. Len(marks) : marks[i] = <<f, l>>
  BY HitsTold
<1>3. /\ matches \in Seq(Places) /\ search.limit \in Nat /\ m <= search.limit /\ m \in Nat
  BY LenProperties DEF ToolsInv, Searches, WithinLimits
<1>4. found = Found(matches, marks, search.limit - m)
  OBVIOUS
<1>5. <<f, text>> \in seen'
  OBVIOUS
<1>6. \A s : s \in seen' <=> s \in seen \/ s = <<f, text>>
  OBVIOUS
<1> HIDE DEF marks
<1>7. /\ found \in Seq(Places) /\ Len(found) <= search.limit /\ Len(found) >= m
      /\ \A i \in 1 .. Len(found) :
           \/ i <= m /\ found[i] = matches[i]
           \/ i > m /\ i - m \in 1 .. Len(marks) /\ found[i] = marks[i - m]
      /\ \A i \in 1 .. m : i \in 1 .. Len(found) /\ found[i] = matches[i]
      /\ ~(Len(found) >= search.limit) =>
           \A k \in 1 .. Len(marks) : k + m \in 1 .. Len(found) /\ found[k + m] = marks[k]
  <2> DEFINE after == Found(matches, marks, search.limit - m)
  <2>1. /\ after \in Seq(Places) /\ Len(after) <= search.limit /\ Len(after) >= m
        /\ \A i \in 1 .. Len(after) :
             \/ i <= m /\ after[i] = matches[i]
             \/ i > m /\ i - m \in 1 .. Len(marks) /\ after[i] = marks[i - m]
        /\ \A i \in 1 .. m : i \in 1 .. Len(after) /\ after[i] = matches[i]
        /\ ~(Len(after) >= search.limit) =>
             \A k \in 1 .. Len(marks) : k + m \in 1 .. Len(after) /\ after[k + m] = marks[k]
    <3>1. marks \in Seq(Places) /\ matches \in Seq(Places) /\ search.limit \in Nat
      BY <1>2, <1>3
    <3>2. Len(matches) <= search.limit
      BY <1>3
    <3> HIDE DEF matches
    <3> QED BY <3>1, <3>2, FoundTold, ZenonT(30) DEF m
  <2>2. found = after
    BY <1>4
  <2> HIDE DEF after, matches, found
  <2> QED BY <2>1, <2>2
<1>8. Len(marks) \in Nat /\ Len(found) \in Nat
  BY <1>2, <1>7, LenProperties
<1>9. ReadsOn'
  BY ReadsOnward
<1>10. WithinLimits'
  <2>1. search.files + Len(search.left) <= MaxScanned
    BY DEF ToolsInv, WithinLimits
  <2>2. search.files \in Nat /\ Len(search.left) \in Nat /\ Len(search'.left) \in Nat
    BY LenProperties DEF ToolsInv, Searches, Onward
  <2>3. search'.files + Len(search'.left) <= MaxScanned
    BY <2>1, <2>2, DocumentBoundsAreNat DEF Onward
  <2>4. Len(search'.matches) <= search'.limit
    BY <1>7
  <2> QED BY <2>3, <2>4 DEF WithinLimits
<1>11. \A i \in 1 .. m : \E s \in seen : s[1] = matches[i][1] /\ s[2][matches[i][2]] = "hit"
  BY DEF ToolsInv, MatchesAreThere
<1>12. MatchesAreThere'
  <2> SUFFICES ASSUME NEW i \in 1 .. Len(found)
               PROVE  \E s \in seen' : s[1] = found[i][1] /\ s[2][found[i][2]] = "hit"
    BY DEF MatchesAreThere
  <2>1. CASE i <= m /\ found[i] = matches[i]
    <3>1. i \in 1 .. m
      BY <1>3, <1>8, <2>1
    <3>2. PICK s \in seen : s[1] = matches[i][1] /\ s[2][matches[i][2]] = "hit"
      BY <1>11, <3>1
    <3> QED BY <1>6, <2>1, <3>2
  <2>2. CASE i - m \in 1 .. Len(marks) /\ found[i] = marks[i - m]
    <3>1. found[i][1] = f /\ text[found[i][2]] = "hit"
      BY <1>2, <2>2
    <3> QED BY <1>5, <3>1
  <2> QED BY <1>7, <2>1, <2>2
<1>13. \A i, k \in 1 .. m : i < k => Precedes(matches[i], matches[k])
  BY DEF ToolsInv, MatchesInOrder
<1>14. \A i \in 1 .. m : matches[i][1] < f
  <2>1. \A s \in seen : s[1] < f
    BY DEF ToolsInv, ReadsOn
  <2> QED BY <1>11, <2>1
<1>15. MatchesInOrder'
  <2> SUFFICES ASSUME NEW i \in 1 .. Len(found), NEW k \in 1 .. Len(found), i < k
               PROVE  Precedes(found[i], found[k])
    BY DEF MatchesInOrder
  <2>1. CASE k <= m /\ found[k] = matches[k]
    <3>1. i \in 1 .. m /\ k \in 1 .. m
      BY <1>3, <1>8, <2>1
    <3>2. found[i] = matches[i]
      BY <1>7, <3>1
    <3> QED BY <1>13, <2>1, <3>1, <3>2
  <2>2. CASE k > m /\ k - m \in 1 .. Len(marks) /\ found[k] = marks[k - m]
    <3>1. found[k][1] = f
      BY <1>2, <2>2
    <3>2. CASE i <= m /\ found[i] = matches[i]
      <4>1. i \in 1 .. m
        BY <1>3, <1>8, <3>2
      <4> QED BY <1>14, <3>1, <3>2, <4>1 DEF Precedes
    <3>3. CASE i > m /\ i - m \in 1 .. Len(marks) /\ found[i] = marks[i - m]
      <4>1. i - m < k - m
        BY <1>3, <1>8
      <4>2. marks[i - m][2] < marks[k - m][2] /\ marks[i - m][1] = f
        BY <1>2, <2>2, <3>3, <4>1
      <4> QED BY <2>2, <3>1, <3>3, <4>2 DEF Precedes
    <3> QED BY <1>7, <3>2, <3>3
  <2> QED BY <1>7, <2>1, <2>2
<1>16. NothingLeftOut'
  <2> SUFFICES ASSUME ~search'.truncated, NEW s \in seen', NEW l \in DOMAIN s[2], s[2][l] = "hit"
               PROVE  \E i \in 1 .. Len(found) : found[i] = <<s[1], l>>
    BY DEF NothingLeftOut
  <2>1. ~search.truncated /\ ~(Len(found) >= search.limit)
    OBVIOUS
  <2>2. CASE s \in seen
    <3>1. PICK i \in 1 .. m : matches[i] = <<s[1], l>>
      BY <2>1, <2>2 DEF ToolsInv, NothingLeftOut
    <3> QED BY <1>7, <3>1
  <2>3. CASE s = <<f, text>>
    <3>1. PICK k \in 1 .. Len(marks) : marks[k] = <<f, l>>
      BY <1>2, <2>3
    <3>2. k + m \in 1 .. Len(found) /\ found[k + m] = marks[k]
      BY <1>7, <2>1
    <3> QED BY <2>3, <3>1, <3>2
  <2> QED BY <1>6, <2>2, <2>3
<1>17. PageIsTold'
  BY <1>1 DEF ToolsInv, PageIsTold
<1> QED BY <1>1, <1>9, <1>10, <1>12, <1>15, <1>16, <1>17 DEF ToolsInv

LEMMA SearchFileKeeps ==
  ASSUME ToolsInv, Tools!SearchFile
  PROVE  ToolsInv'
<1> DEFINE f == Head(search.left)
           text == texts[f]
           marks == [k \in DOMAIN Tools!Hits(text) |-> <<f, Tools!Hits(text)[k]>>]
           room == search.limit - Len(search.matches)
           found == search.matches \o SubSeq(marks, 1, IF Len(marks) < room THEN Len(marks) ELSE room)
           over == search.bytes >= MaxScannedBytes
                     \/ (text # Absent /\ search.bytes + Len(text) > MaxScannedBytes)
           rest == IF Len(found) >= search.limit THEN <<>> ELSE Tail(search.left)
           cut == search.truncated \/ Tools!Enough(found)
<1>1. /\ search.at = "reading" /\ search.left # <<>>
      /\ IF over
         THEN search' = [search EXCEPT !.left = <<>>, !.truncated = TRUE] /\ UNCHANGED seen
         ELSE IF text = Absent THEN search' = [search EXCEPT !.left = Tail(search.left)] /\ UNCHANGED seen
         ELSE /\ search' = [search EXCEPT !.left = rest, !.matches = found,
                              !.files = search.files + 1, !.bytes = search.bytes + Len(text),
                              !.truncated = cut]
              /\ seen' = seen \cup {<<f, text>>}
      /\ UNCHANGED <<texts, edits, page>>
  BY DEF Tools!SearchFile
<1> HIDE DEF over, rest, cut
<1>2. /\ search \in Searches /\ search.limit \in Nat /\ search.files \in Nat /\ search.bytes \in Nat
      /\ search.matches \in Seq(Places) /\ search.left \in Seq(1 .. LastFile)
      /\ search.truncated \in BOOLEAN
  BY DEF ToolsInv, Searches
<1>3. \/ over /\ search' = [search EXCEPT !.left = <<>>, !.truncated = TRUE] /\ UNCHANGED seen
      \/ ~over /\ text = Absent /\ search' = [search EXCEPT !.left = Tail(search.left)] /\ UNCHANGED seen
      \/ /\ ~over /\ text # Absent
         /\ search' = [search EXCEPT !.left = rest, !.matches = found, !.files = search.files + 1,
                         !.bytes = search.bytes + Len(text), !.truncated = cut]
         /\ seen' = seen \cup {<<f, text>>}
  BY <1>1
<1>4. CASE over /\ search' = [search EXCEPT !.left = <<>>, !.truncated = TRUE] /\ UNCHANGED seen
  <2>1. /\ search'.left = <<>> /\ search'.at = "reading" /\ search'.limit = search.limit
        /\ search'.matches = search.matches /\ search'.files = search.files
        /\ search'.bytes = search.bytes /\ search'.truncated
    BY <1>1, <1>2, <1>4 DEF Searches
  <2>2. search' \in Searches
    <3>1. <<>> \in Seq(1 .. LastFile)
      BY EmptySeq
    <3> QED BY <1>2, <1>4, <3>1 DEF Searches
  <2>3. Onward /\ search.left[1] \in 1 .. LastFile /\ 1 \in 1 .. Len(search.left)
    BY <1>1, <2>1, OnwardTold
  <2>4. UNCHANGED <<texts, edits, seen, page>>
    BY <1>1, <1>4
  <2> QED BY <2>1, <2>2, <2>3, <2>4, PassedOverKeeps
<1>5. CASE ~over /\ text = Absent /\ search' = [search EXCEPT !.left = Tail(search.left)]
             /\ UNCHANGED seen
  <2>1. /\ search'.left = Tail(search.left) /\ search'.at = "reading"
        /\ search'.limit = search.limit
        /\ search'.matches = search.matches /\ search'.files = search.files
        /\ search'.bytes = search.bytes /\ search'.truncated = search.truncated
    BY <1>1, <1>2, <1>5 DEF Searches
  <2>2. Onward /\ search.left[1] \in 1 .. LastFile /\ 1 \in 1 .. Len(search.left)
    BY <1>1, <2>1, OnwardTold
  <2>3. search' \in Searches
    <3>1. Tail(search.left) \in Seq(1 .. LastFile)
      BY <2>1, <2>2 DEF Onward
    <3> QED BY <1>2, <1>5, <3>1 DEF Searches
  <2>4. UNCHANGED <<texts, edits, seen, page>>
    BY <1>1, <1>5
  <2>5. search.truncated => search'.truncated
    BY <2>1, Zenon
  <2> QED BY <2>1, <2>2, <2>3, <2>4, <2>5, PassedOverKeeps
<1>6. CASE /\ ~over /\ text # Absent
           /\ search' = [search EXCEPT !.left = rest, !.matches = found, !.files = search.files + 1,
                           !.bytes = search.bytes + Len(text), !.truncated = cut]
           /\ seen' = seen \cup {<<f, text>>}
  <2> HIDE DEF found
  <2>1. /\ search'.left = rest /\ search'.at = "reading" /\ search'.limit = search.limit
        /\ search'.matches = found /\ search'.files = search.files + 1
        /\ search'.bytes = search.bytes + Len(text) /\ search'.truncated = cut
    BY <1>1, <1>2, <1>6 DEF Searches
  <2>2. rest = <<>> \/ rest = Tail(search.left)
    BY DEF rest
  <2>3. /\ Onward /\ f = search.left[1] /\ search.left[1] \in 1 .. LastFile
        /\ 1 \in 1 .. Len(search.left)
    BY <1>1, <2>1, <2>2, OnwardTold
  <2>4. text \in Tools!Texts
    BY <1>6, <2>3 DEF ToolsInv
  <2>5. Len(text) \in Nat
    BY <2>4, DocumentBoundsAreNat DEF Tools!Texts
  <2>6. search.bytes + Len(text) <= MaxScannedBytes
    <3>1. ~(search.bytes + Len(text) > MaxScannedBytes)
      BY <1>6, Zenon DEF over
    <3> HIDE DEF text
    <3> QED BY <1>2, <2>5, <3>1, DocumentBoundsAreNat
  <2>7. found = Found(search.matches, Marks(f, text), search.limit - Len(search.matches))
    BY DEF found, Found, Marks
  <2>8. found \in Seq(Places)
    <3>1. Marks(f, text) \in Seq(Places)
      BY <2>3, <2>4, HitsTold
    <3>2. Len(search.matches) <= search.limit
      BY DEF ToolsInv, WithinLimits
    <3> HIDE DEF text, f
    <3> QED BY <1>2, <2>7, <3>1, <3>2, FoundTold, Zenon
  <2>9. cut \in BOOLEAN
    BY <1>2 DEF cut, Tools!Enough
  <2>10. search' \in Searches
    <3>1. rest \in Seq(1 .. LastFile)
      BY <2>1, <2>3 DEF Onward
    <3>2. search.files + 1 \in Nat /\ search.bytes + Len(text) \in Nat
      BY <1>2, <2>5
    <3> HIDE DEF text, f
    <3> QED BY <1>2, <1>6, <2>8, <2>9, <3>1, <3>2 DEF Searches
  <2>11. search.truncated \/ Len(search'.matches) >= search.limit => search'.truncated
    BY <2>1, Zenon DEF cut, Tools!Enough
  <2>12. search'.matches = Found(search.matches, Marks(search.left[1], text),
                                 search.limit - Len(search.matches))
    BY <2>1, <2>3, <2>7
  <2>13. seen' = seen \cup {<<search.left[1], text>>}
    BY <1>6, <2>3
  <2>14. search'.bytes <= MaxScannedBytes
    BY <2>1, <2>6
  <2>15. search'.files = search.files + 1 /\ search'.at = "reading" /\ search'.limit = search.limit
    BY <2>1
  <2>16. UNCHANGED <<texts, edits, page>>
    BY <1>1
  <2> HIDE DEF text, f
  <2> QED BY <2>3, <2>4, <2>10, <2>11, <2>12, <2>13, <2>14, <2>15, <2>16, FileReadKeeps
<1> QED BY <1>3, <1>4, <1>5, <1>6

LEMMA ToolsNextKeeps ==
  ASSUME ToolsInv, Tools!Next
  PROVE  ToolsInv'
<1>1. CASE \E eligible \in SUBSET (1 .. LastFile), limit \in 1 .. MaxResults :
             Tools!StartSearch(eligible, limit)
  BY <1>1, StartSearchKeeps
<1>2. CASE Tools!SearchFile
  BY <1>2, SearchFileKeeps
<1>3. CASE Tools!SearchEnds
  BY <1>3, SearchEndsKeeps
<1>4. CASE \E f \in 1 .. LastFile, start, end \in 1 .. MaxLength + 1 : Tools!ReadFile(f, start, end)
  BY <1>4, ReadFileKeeps
<1>5. CASE \E f \in 1 .. LastFile, text \in {<<"hit">>, Absent} : Tools!Edit(f, text)
  BY <1>5, EditKeeps
<1> QED BY <1>1, <1>2, <1>3, <1>4, <1>5 DEF Tools!Next

LEMMA ToolsUnchangedKeeps ==
  ASSUME ToolsInv, UNCHANGED toolsVars
  PROVE  ToolsInv'
<1>1. /\ texts' = texts /\ edits' = edits /\ search' = search /\ seen' = seen /\ page' = page
  BY DEF toolsVars
<1>2. PageIsTold'
  BY <1>1 DEF ToolsInv, PageIsTold
<1>3. texts' \in [1 .. LastFile -> Tools!Texts \cup {Absent}] /\ edits' \in 0 .. MaxEdits
  BY <1>1 DEF ToolsInv
<1> QED BY <1>1, <1>2, <1>3, SearchStays

-----------------------------------------------------------------------------
(* ProviderStream: the parts of a call's arguments that were shown. *)

Calls == [named : BOOLEAN, arguments : Seq({"head", "tail"}), completed : BOOLEAN]
Chunks ==
  [kind : {"text", "error"}]
    \cup [kind : {"tool_call_delta", "tool_call", "tool_call_error"},
           index : 1 .. LastCall, arguments : Seq({"head", "tail"})]

\* The parts from the from-th chunk on, up to each of the first chunks.
ShownIn(f, chunks, i, from, m) ==
  f = [k \in 0 .. m |->
         IF k < from THEN <<>>
         ELSE IF Stream!IsFor(chunks, k, i, {"tool_call_delta"}) THEN f[k - 1] \o chunks[k].arguments
         ELSE f[k - 1]]

LEMMA ShownTells ==
  ASSUME NEW f, NEW chunks, NEW i, NEW from, NEW m \in Nat, ShownIn(f, chunks, i, from, m),
         NEW k \in 0 .. m
  PROVE  f[k] = IF k < from THEN <<>>
                ELSE IF Stream!IsFor(chunks, k, i, {"tool_call_delta"})
                     THEN f[k - 1] \o chunks[k].arguments
                     ELSE f[k - 1]
BY DEF ShownIn

LEMMA ShownExists ==
  ASSUME NEW chunks, NEW i, NEW from \in Nat \ {0}
  PROVE  \A m \in Nat : \E f : ShownIn(f, chunks, i, from, m)
<1> DEFINE T == {n \in Nat : \E f : ShownIn(f, chunks, i, from, n)}
<1>1. 0 \in T
  <2>1. ShownIn([k \in 0 .. 0 |-> <<>>], chunks, i, from, 0)
    BY DEF ShownIn
  <2> QED BY <2>1
<1>2. ASSUME NEW n \in T PROVE n + 1 \in T
  <2>1. PICK f : ShownIn(f, chunks, i, from, n)
    OBVIOUS
  <2>2. n \in Nat
    OBVIOUS
  <2> DEFINE last == IF n + 1 < from THEN <<>>
                     ELSE IF Stream!IsFor(chunks, n + 1, i, {"tool_call_delta"})
                          THEN f[n] \o chunks[n + 1].arguments
                          ELSE f[n]
             g == [k \in 0 .. n + 1 |-> IF k = n + 1 THEN last ELSE f[k]]
             Next1(h, k) == IF k < from THEN <<>>
                            ELSE IF Stream!IsFor(chunks, k, i, {"tool_call_delta"})
                                 THEN h[k - 1] \o chunks[k].arguments
                                 ELSE h[k - 1]
  <2>3. \A k \in 0 .. n : f[k] = Next1(f, k)
    BY <2>1, <2>2, ShownTells
  <2>4. \A k \in 0 .. n : g[k] = f[k] /\ k \in 0 .. n + 1
    BY <2>2
  <2>5. g[n + 1] = last /\ n + 1 \in 0 .. n + 1
    BY <2>2
  <2> HIDE DEF g
  <2>6. ASSUME NEW k \in 0 .. n + 1 PROVE g[k] = Next1(g, k)
    <3>1. CASE k = n + 1
      <4>1. k - 1 = n /\ g[n] = f[n]
        BY <2>2, <2>4, <3>1
      <4> QED BY <2>5, <3>1, <4>1
    <3>2. CASE k # n + 1
      <4>1. k \in 0 .. n /\ g[k] = f[k]
        BY <2>2, <2>4, <3>2
      <4>2. CASE k < from
        BY <2>3, <4>1, <4>2
      <4>3. CASE ~(k < from)
        <5>1. k - 1 \in 0 .. n
          BY <2>2, <4>1, <4>3
        <5>2. g[k - 1] = f[k - 1]
          BY <2>4, <5>1
        <5> QED BY <2>3, <4>1, <4>3, <5>2
      <4> QED BY <4>2, <4>3
    <3> QED BY <3>1, <3>2
  <2>7. g = [k \in 0 .. n + 1 |-> Next1(g, k)]
    <3>1. g = [k \in 0 .. n + 1 |-> g[k]]
      BY DEF g
    <3> HIDE DEF Next1
    <3> QED BY <2>6, <3>1
  <2>8. ShownIn(g, chunks, i, from, n + 1)
    BY <2>7 DEF ShownIn
  <2> QED BY <2>2, <2>8
<1> HIDE DEF T
<1>3. T = Nat
  BY <1>1, <1>2, SetInduction DEF T
<1> QED BY <1>3 DEF T

\* What was shown up to a chunk depends on no later one.
LEMMA ShownAgree ==
  ASSUME NEW c, NEW d, NEW i, NEW from \in Nat \ {0}, NEW m \in Nat, NEW n \in Nat,
         NEW f, ShownIn(f, c, i, from, m), NEW g, ShownIn(g, d, i, from, n),
         \A k \in 1 .. m : k <= n => c[k] = d[k]
  PROVE  \A k \in Nat : k <= m /\ k <= n => f[k] = g[k]
<1> DEFINE T == {k \in Nat : k <= m /\ k <= n => f[k] = g[k]}
<1>1. 0 \in T
  <2>1. f[0] = <<>>
    <3>1. 0 \in 0 .. m /\ 0 < from
      OBVIOUS
    <3> QED BY <3>1, ShownTells
  <2>2. g[0] = <<>>
    <3>1. 0 \in 0 .. n /\ 0 < from
      OBVIOUS
    <3> QED BY <3>1, ShownTells
  <2> QED BY <2>1, <2>2
<1>2. ASSUME NEW k \in T PROVE k + 1 \in T
  <2>1. k \in Nat /\ (k <= m /\ k <= n => f[k] = g[k])
    OBVIOUS
  <2>2. ASSUME k + 1 <= m, k + 1 <= n PROVE f[k + 1] = g[k + 1]
    <3>1. k + 1 \in 0 .. m /\ k + 1 \in 0 .. n /\ k + 1 \in 1 .. m /\ (k + 1) - 1 = k
      BY <2>1, <2>2
    <3>2. c[k + 1] = d[k + 1] /\ f[k] = g[k]
      BY <2>1, <2>2, <3>1
    <3>3. f[k + 1] = IF k + 1 < from THEN <<>>
                     ELSE IF Stream!IsFor(c, k + 1, i, {"tool_call_delta"})
                          THEN f[k] \o c[k + 1].arguments
                          ELSE f[k]
      <4>1. PICK j \in 0 .. m : j = k + 1
        BY <3>1
      <4>2. j - 1 = k
        BY <2>1, <4>1
      <4> QED BY <4>1, <4>2, ShownTells
    <3>4. g[k + 1] = IF k + 1 < from THEN <<>>
                     ELSE IF Stream!IsFor(d, k + 1, i, {"tool_call_delta"})
                          THEN g[k] \o d[k + 1].arguments
                          ELSE g[k]
      <4>1. PICK j \in 0 .. n : j = k + 1
        BY <3>1
      <4>2. j - 1 = k
        BY <2>1, <4>1
      <4> QED BY <4>1, <4>2, ShownTells
    <3> QED BY <3>2, <3>3, <3>4 DEF Stream!IsFor
  <2> QED BY <2>1, <2>2
<1> HIDE DEF T
<1>3. T = Nat
  BY <1>1, <1>2, SetInduction DEF T
<1> QED BY <1>3 DEF T

LEMMA DeltasShown ==
  ASSUME NEW chunks, NEW i, NEW from \in Nat \ {0}, NEW to \in Nat
  PROVE  \E f : ShownIn(f, chunks, i, from, to) /\ Stream!Deltas(chunks, i, from, to) = f[to]
<1>1. \E f : ShownIn(f, chunks, i, from, to)
  BY ShownExists
<1> QED BY <1>1 DEF Stream!Deltas, ShownIn

LEMMA DeltasAgree ==
  ASSUME NEW c, NEW d, NEW i, NEW from \in Nat \ {0}, NEW to \in Nat,
         \A k \in 1 .. to : c[k] = d[k]
  PROVE  Stream!Deltas(c, i, from, to) = Stream!Deltas(d, i, from, to)
<1>1. PICK f : ShownIn(f, c, i, from, to) /\ Stream!Deltas(c, i, from, to) = f[to]
  BY DeltasShown
<1>2. PICK g : ShownIn(g, d, i, from, to) /\ Stream!Deltas(d, i, from, to) = g[to]
  BY DeltasShown
<1>3. \A k \in Nat : k <= to /\ k <= to => f[k] = g[k]
  BY <1>1, <1>2, ShownAgree
<1> QED BY <1>1, <1>2, <1>3

LEMMA DeltasGrow ==
  ASSUME NEW chunks, NEW i, NEW from \in Nat \ {0}, NEW to \in Nat
  PROVE  /\ to < from => Stream!Deltas(chunks, i, from, to) = <<>>
         /\ from <= to + 1 =>
              Stream!Deltas(chunks, i, from, to + 1) =
                IF Stream!IsFor(chunks, to + 1, i, {"tool_call_delta"})
                THEN Stream!Deltas(chunks, i, from, to) \o chunks[to + 1].arguments
                ELSE Stream!Deltas(chunks, i, from, to)
<1>1. PICK f : ShownIn(f, chunks, i, from, to) /\ Stream!Deltas(chunks, i, from, to) = f[to]
  BY DeltasShown
<1>2. PICK g : ShownIn(g, chunks, i, from, to + 1) /\ Stream!Deltas(chunks, i, from, to + 1) = g[to + 1]
  BY DeltasShown
<1>3. f[to] = g[to]
  <2>1. \A k \in Nat : k <= to /\ k <= to + 1 => f[k] = g[k]
    BY <1>1, <1>2, ShownAgree
  <2> QED BY <2>1
<1>4. to < from => f[to] = <<>>
  <2>1. to \in 0 .. to
    OBVIOUS
  <2> QED BY <1>1, <2>1, ShownTells
<1>5. ASSUME from <= to + 1
      PROVE  g[to + 1] = IF Stream!IsFor(chunks, to + 1, i, {"tool_call_delta"})
                         THEN g[to] \o chunks[to + 1].arguments ELSE g[to]
  <2>1. PICK j \in 0 .. to + 1 : j = to + 1
    OBVIOUS
  <2>2. j - 1 = to /\ ~(j < from)
    BY <1>5, <2>1
  <2> QED BY <1>2, <2>1, <2>2, ShownTells
<1> QED BY <1>1, <1>2, <1>3, <1>4, <1>5

-----------------------------------------------------------------------------
(* ProviderStream: the last error before a chunk. *)

LastErrorIn(chunks, k, x) ==
  /\ x \in 0 .. k - 1
  /\ x # 0 => chunks[x].kind = "error"
  /\ \A j \in 1 .. k - 1 : chunks[j].kind = "error" => j <= x

LEMMA LastErrorTells ==
  ASSUME NEW chunks, NEW k \in Nat \ {0}
  PROVE  LastErrorIn(chunks, k, Stream!LastError(chunks, k))
<1> DEFINE Broken == Stream!Errors(chunks, k)
<1>1. Broken \in SUBSET (1 .. k - 1) /\ \A j \in 1 .. k - 1 : j \in Broken <=> chunks[j].kind = "error"
  BY DEF Stream!Errors
<1>2. CASE Broken = {}
  <2>1. Stream!LastError(chunks, k) = 0
    BY <1>2 DEF Stream!LastError
  <2> QED BY <1>1, <1>2, <2>1 DEF LastErrorIn
<1>3. CASE Broken # {}
  <2> DEFINE T == {n \in Nat : \E j \in Broken : n = k - j}
  <2> HIDE DEF Broken
  <2>1. T \in SUBSET Nat /\ T # {}
    <3>1. PICK j \in Broken : TRUE
      BY <1>3
    <3>2. k - j \in Nat
      BY <1>1, <3>1
    <3> QED BY <3>1, <3>2
  <2>2. PICK n \in T : \A m \in T : n <= m
    BY <2>1, LeastNat
  <2>3. PICK x \in Broken : n = k - x
    BY <2>2
  <2>4. ASSUME NEW l \in Broken PROVE l <= x
    <3>1. k - l \in Nat /\ l \in 1 .. k - 1 /\ x \in 1 .. k - 1
      BY <1>1, <2>3
    <3>2. k - l \in T
      BY <3>1
    <3>3. k - x <= k - l
      BY <2>2, <2>3, <3>2
    <3> QED BY <3>1, <3>3
  <2>5. \E j \in Broken : \A l \in Broken : l <= j
    BY <2>3, <2>4
  <2> DEFINE y == CHOOSE j \in Broken : \A l \in Broken : l <= j
  <2>6. y \in Broken /\ \A l \in Broken : l <= y
    BY <2>5
  <2>7. Stream!LastError(chunks, k) = y
    BY <1>3 DEF Stream!LastError, Broken
  <2> HIDE DEF y
  <2> QED BY <1>1, <2>6, <2>7 DEF LastErrorIn
<1> QED BY <1>2, <1>3

LEMMA LastErrorIs ==
  ASSUME NEW chunks, NEW k \in Nat \ {0}, NEW x, LastErrorIn(chunks, k, x)
  PROVE  Stream!LastError(chunks, k) = x
<1> DEFINE y == Stream!LastError(chunks, k)
<1>1. LastErrorIn(chunks, k, y)
  BY LastErrorTells
<1> HIDE DEF y
<1>2. y \in Nat /\ x \in Nat
  BY <1>1 DEF LastErrorIn
<1>3. y <= x
  BY <1>1, <1>2 DEF LastErrorIn
<1>4. x <= y
  BY <1>1, <1>2 DEF LastErrorIn
<1>5. x = y
  BY <1>2, <1>3, <1>4
<1> QED BY <1>5 DEF y

-----------------------------------------------------------------------------
(* ProviderStream: more chunks. *)

\* The chunks that were there stay, and the new ones are no errors and no parts of calls.
Prefix(c, d) == Len(c) <= Len(d) /\ \A k \in 1 .. Len(c) : d[k] = c[k]
Latest(chunks) == Stream!LastError(chunks, Len(chunks) + 1)

LEMMA PrefixLastError ==
  ASSUME NEW c \in Seq(Chunks), NEW d \in Seq(Chunks), Prefix(c, d), NEW k \in 1 .. Len(c) + 1
  PROVE  Stream!LastError(d, k) = Stream!LastError(c, k)
<1> DEFINE x == Stream!LastError(c, k)
<1>1. LastErrorIn(c, k, x)
  BY LastErrorTells
<1>2. Len(c) \in Nat
  OBVIOUS
<1>3. \A j \in 1 .. k - 1 : d[j] = c[j]
  BY <1>2 DEF Prefix
<1> HIDE DEF x
<1>4. LastErrorIn(d, k, x)
  BY <1>1, <1>2, <1>3 DEF LastErrorIn
<1>5. k \in Nat \ {0}
  BY <1>2
<1>6. Stream!LastError(d, k) = x
  BY <1>4, <1>5, LastErrorIs
<1> QED BY <1>6 DEF x

\* New chunks that are no errors leave the last error where it was.
LEMMA LatestStays ==
  ASSUME NEW c \in Seq(Chunks), NEW d \in Seq(Chunks), Prefix(c, d),
         \A j \in Len(c) + 1 .. Len(d) : d[j].kind # "error",
         NEW k \in Len(c) + 1 .. Len(d) + 1
  PROVE  Stream!LastError(d, k) = Latest(c) /\ Latest(c) \in 0 .. Len(c)
<1> DEFINE x == Latest(c)
<1>1. Len(c) \in Nat /\ Len(d) \in Nat
  OBVIOUS
<1>2. LastErrorIn(c, Len(c) + 1, x)
  BY <1>1, LastErrorTells DEF Latest
<1> HIDE DEF x
<1>3. k \in Nat \ {0} /\ x \in 0 .. Len(c)
  BY <1>1, <1>2 DEF LastErrorIn
<1>4. LastErrorIn(d, k, x)
  <2>1. x \in 0 .. k - 1
    BY <1>1, <1>3
  <2>2. x # 0 => d[x].kind = "error"
    BY <1>1, <1>2, <1>3 DEF LastErrorIn, Prefix
  <2>3. ASSUME NEW j \in 1 .. k - 1, d[j].kind = "error" PROVE j <= x
    <3>1. j \in 1 .. Len(c)
      BY <1>1, <2>3
    <3> QED BY <1>1, <1>2, <2>3, <3>1 DEF LastErrorIn, Prefix
  <2> QED BY <2>1, <2>2, <2>3 DEF LastErrorIn
<1>5. Stream!LastError(d, k) = x
  BY <1>3, <1>4, LastErrorIs
<1> QED BY <1>3, <1>5 DEF x

\* New chunks that are no parts of a call leave its arguments as they were.
LEMMA DeltasStay ==
  ASSUME NEW c \in Seq(Chunks), NEW d \in Seq(Chunks), Prefix(c, d), NEW i,
         NEW from \in 1 .. Len(c) + 1,
         \A j \in Len(c) + 1 .. Len(d) : ~Stream!IsFor(d, j, i, {"tool_call_delta"})
  PROVE  \A k \in Len(c) .. Len(d) :
           Stream!Deltas(d, i, from, k) = Stream!Deltas(c, i, from, Len(c))
<1>1. Len(c) \in Nat /\ Len(d) \in Nat /\ Len(c) <= Len(d) /\ from \in Nat \ {0}
  BY DEF Prefix
<1> DEFINE T == {n \in Nat : Len(c) + n <= Len(d) =>
                   Stream!Deltas(d, i, from, Len(c) + n) = Stream!Deltas(c, i, from, Len(c))}
<1>2. 0 \in T
  <2>1. \A k \in 1 .. Len(c) : d[k] = c[k]
    BY DEF Prefix
  <2>2. Stream!Deltas(d, i, from, Len(c)) = Stream!Deltas(c, i, from, Len(c))
    BY <1>1, <2>1, DeltasAgree
  <2>3. Len(c) + 0 = Len(c)
    BY <1>1
  <2> QED BY <2>2, <2>3
<1>3. ASSUME NEW n \in T PROVE n + 1 \in T
  <2>1. PICK to \in Nat : to = Len(c) + n
    BY <1>1
  <2>2. Len(c) + (n + 1) = to + 1 /\ from <= to + 1 /\ n \in Nat
    BY <1>1, <2>1
  <2>3. ASSUME to + 1 <= Len(d)
        PROVE  Stream!Deltas(d, i, from, to + 1) = Stream!Deltas(c, i, from, Len(c))
    <3>1. to + 1 \in Len(c) + 1 .. Len(d) /\ to <= Len(d)
      BY <1>1, <2>1, <2>2, <2>3
    <3>2. ~Stream!IsFor(d, to + 1, i, {"tool_call_delta"})
      BY <3>1
    <3>3. Stream!Deltas(d, i, from, to + 1) = Stream!Deltas(d, i, from, to)
      BY <1>1, <2>1, <2>2, <3>2, DeltasGrow
    <3>4. Stream!Deltas(d, i, from, to) = Stream!Deltas(c, i, from, Len(c))
      BY <2>1, <3>1
    <3> QED BY <3>3, <3>4
  <2> QED BY <2>2, <2>3
<1> HIDE DEF T
<1>4. T = Nat
  BY <1>2, <1>3, SetInduction DEF T
<1>5. ASSUME NEW k \in Len(c) .. Len(d)
      PROVE  Stream!Deltas(d, i, from, k) = Stream!Deltas(c, i, from, Len(c))
  <2>1. PICK n \in Nat : k = Len(c) + n
    <3>1. k - Len(c) \in Nat /\ k = Len(c) + (k - Len(c))
      BY <1>1
    <3> QED BY <3>1
  <2>2. n \in T
    BY <1>4, <2>1
  <2>3. Len(c) + n <= Len(d)
    BY <1>1, <2>1
  <2> QED BY <2>1, <2>2, <2>3 DEF T
<1> QED BY <1>5

\* The calls that were there stay whole.
WholeAt(chunks, k) ==
  chunks[k].kind = "tool_call" =>
    LET i == chunks[k].index  from == Stream!LastError(chunks, k) + 1 IN
    /\ chunks[k].arguments = Stream!Deltas(chunks, i, from, k) /\ Stream!IsJSON(chunks[k].arguments)
    /\ \A j \in from .. k - 1 : ~Stream!IsFor(chunks, j, i, Stream!Settling)

LEMMA WholeEverywhere ==
  ASSUME NEW chunks \in Seq(Chunks)
  PROVE  Stream!CallsAreWhole(chunks) <=> \A k \in 1 .. Len(chunks) : WholeAt(chunks, k)
BY DEF Stream!CallsAreWhole, WholeAt

LEMMA WholeStays ==
  ASSUME NEW c \in Seq(Chunks), NEW d \in Seq(Chunks), Prefix(c, d), NEW k \in 1 .. Len(c),
         WholeAt(c, k)
  PROVE  WholeAt(d, k)
<1>1. Len(c) \in Nat /\ Len(d) \in Nat /\ k \in Nat \ {0} /\ k \in 1 .. Len(c) + 1
  OBVIOUS
<1>2. \A j \in 1 .. k : d[j] = c[j]
  BY <1>1 DEF Prefix
<1>3. d[k] = c[k]
  BY <1>1, <1>2
<1> SUFFICES ASSUME d[k].kind = "tool_call"
             PROVE  WholeAt(d, k)
  BY DEF WholeAt
<1> DEFINE i == c[k].index
           from == Stream!LastError(c, k) + 1
<1>4. Stream!LastError(d, k) + 1 = from
  BY <1>1, PrefixLastError
<1>5. from \in Nat \ {0} /\ from \in 1 .. k
  BY <1>1, LastErrorTells DEF LastErrorIn
<1>6. /\ c[k].arguments = Stream!Deltas(c, i, from, k) /\ Stream!IsJSON(c[k].arguments)
      /\ \A j \in from .. k - 1 : ~Stream!IsFor(c, j, i, Stream!Settling)
  BY <1>3 DEF WholeAt
<1> HIDE DEF i, from
<1>7. Stream!Deltas(d, i, from, k) = Stream!Deltas(c, i, from, k)
  BY <1>1, <1>2, <1>5, DeltasAgree
<1>8. ASSUME NEW j \in from .. k - 1 PROVE ~Stream!IsFor(d, j, i, Stream!Settling)
  <2>1. j \in 1 .. k
    BY <1>1, <1>5
  <2> QED BY <1>2, <1>6, <2>1 DEF Stream!IsFor
<1> QED BY <1>3, <1>4, <1>6, <1>7, <1>8 DEF WholeAt, i

-----------------------------------------------------------------------------
(* ProviderStream: what the reader knows behind a line. *)

\* The calls that are gathered are what was shown of them since the last error, each of
\* them is complete when it was settled since then, and nothing else was shown.
AccInv(acc) ==
  /\ acc = [pending |-> acc.pending, out |-> acc.out, state |-> acc.state]
  /\ acc.pending \in [1 .. LastCall -> Calls]
  /\ acc.out \in Seq(Chunks)
  /\ acc.state \in {"reading", "returned"}
  /\ \A k \in 1 .. Len(acc.out) : WholeAt(acc.out, k)
  /\ \A i \in 1 .. LastCall :
       /\ acc.pending[i].arguments =
            Stream!Deltas(acc.out, i, Latest(acc.out) + 1, Len(acc.out))
       /\ acc.pending[i].completed <=>
            \E j \in Latest(acc.out) + 1 .. Len(acc.out) :
              Stream!IsFor(acc.out, j, i, Stream!Settling)
  /\ \A k \in Latest(acc.out) + 1 .. Len(acc.out) :
       acc.out[k].kind = "tool_call_delta" => acc.pending[acc.out[k].index] # Stream!None
  /\ acc.state = "returned" => Stream!CallsAreSettled(acc.out)

LEMMA LatestType ==
  ASSUME NEW c \in Seq(Chunks)
  PROVE  /\ Latest(c) \in 0 .. Len(c) /\ Len(c) \in Nat
         /\ Latest(c) # 0 => c[Latest(c)].kind = "error"
         /\ \A j \in 1 .. Len(c) : c[j].kind = "error" => j <= Latest(c)
<1>1. Len(c) \in Nat /\ Len(c) + 1 \in Nat \ {0}
  OBVIOUS
<1>2. LastErrorIn(c, Len(c) + 1, Latest(c))
  BY <1>1, LastErrorTells DEF Latest
<1> QED BY <1>1, <1>2 DEF LastErrorIn

LEMMA ChunkTells ==
  ASSUME NEW c \in Chunks
  PROVE  /\ c.kind \in {"text", "error", "tool_call_delta", "tool_call", "tool_call_error"}
         /\ c.kind \in {"tool_call_delta", "tool_call", "tool_call_error"} =>
              c.index \in 1 .. LastCall /\ c.arguments \in Seq({"head", "tail"})
BY DEF Chunks

\* A text changes nothing of the calls.
LEMMA TextKeeps ==
  ASSUME NEW acc, AccInv(acc), acc.state = "reading"
  PROVE  AccInv([acc EXCEPT !.out = Append(@, Stream!Chunk("text"))])
<1> DEFINE c == acc.out
           d == Append(acc.out, Stream!Chunk("text"))
           new == [acc EXCEPT !.out = Append(@, Stream!Chunk("text"))]
<1>1. new = [pending |-> acc.pending, out |-> d, state |-> "reading"]
  <2>1. acc = [pending |-> acc.pending, out |-> acc.out, state |-> acc.state]
    BY DEF AccInv
  <2>2. PICK p, o, s : acc = [pending |-> p, out |-> o, state |-> s]
    BY <2>1
  <2>3. acc.pending = p /\ acc.out = o /\ s = "reading"
    BY <2>2
  <2> DEFINE x == Stream!Chunk("text")
  <2> HIDE DEF x
  <2>4. new = [[pending |-> p, out |-> o, state |-> s] EXCEPT !.out = Append(o, x)]
    BY <2>2, <2>3, Zenon DEF x
  <2>5. d = Append(o, x)
    BY <2>3 DEF x
  <2> HIDE DEF d, new
  <2>6. new = [pending |-> p, out |-> Append(o, x), state |-> s]
    BY <2>4
  <2> QED BY <2>3, <2>5, <2>6
<1>2. c \in Seq(Chunks) /\ d \in Seq(Chunks) /\ Prefix(c, d) /\ Len(d) = Len(c) + 1
      /\ Len(c) \in Nat /\ d[Len(c) + 1] = Stream!Chunk("text")
  <2>1. Stream!Chunk("text") \in Chunks
    BY DEF Chunks, Stream!Chunk
  <2> QED BY <2>1 DEF AccInv, Prefix
<1>3. d[Len(c) + 1].kind = "text"
  BY <1>2 DEF Stream!Chunk
<1> HIDE DEF d
<1>4. \A j \in Len(c) + 1 .. Len(d) : d[j].kind = "text"
  BY <1>2, <1>3
<1>5. Latest(d) = Latest(c) /\ Latest(c) \in 0 .. Len(c)
  <2>1. Len(d) + 1 \in Len(c) + 1 .. Len(d) + 1
    BY <1>2
  <2>2. \A j \in Len(c) + 1 .. Len(d) : d[j].kind # "error"
    BY <1>4
  <2> QED BY <1>2, <2>1, <2>2, LatestStays DEF Latest
<1>6. \A k \in 1 .. Len(d) : WholeAt(d, k)
  <2>1. ASSUME NEW k \in 1 .. Len(d) PROVE WholeAt(d, k)
    <3>1. CASE k \in 1 .. Len(c)
      BY <1>2, <3>1, WholeStays DEF AccInv
    <3>2. CASE k \notin 1 .. Len(c)
      <4>1. d[k].kind = "text"
        BY <1>2, <1>4, <3>2
      <4> QED BY <4>1 DEF WholeAt
    <3> QED BY <3>1, <3>2
  <2> QED BY <2>1
<1>7. \A i \in 1 .. LastCall :
        Stream!Deltas(d, i, Latest(c) + 1, Len(d)) = Stream!Deltas(c, i, Latest(c) + 1, Len(c))
  <2>1. ASSUME NEW i \in 1 .. LastCall
        PROVE  Stream!Deltas(d, i, Latest(c) + 1, Len(d)) = Stream!Deltas(c, i, Latest(c) + 1, Len(c))
    <3>1. \A j \in Len(c) + 1 .. Len(d) : ~Stream!IsFor(d, j, i, {"tool_call_delta"})
      BY <1>4 DEF Stream!IsFor
    <3>2. Latest(c) + 1 \in 1 .. Len(c) + 1 /\ Len(d) \in Len(c) .. Len(d)
      BY <1>2, <1>5
    <3> QED BY <1>2, <3>1, <3>2, DeltasStay
  <2> QED BY <2>1
<1>8. \A i : (\E j \in Latest(c) + 1 .. Len(c) : Stream!IsFor(c, j, i, Stream!Settling))
              <=> \E j \in Latest(c) + 1 .. Len(d) : Stream!IsFor(d, j, i, Stream!Settling)
  <2>1. \A j \in Latest(c) + 1 .. Len(d) :
          d[j].kind \in Stream!Settling => j \in Latest(c) + 1 .. Len(c)
    BY <1>2, <1>4, <1>5 DEF Stream!Settling
  <2>2. \A j \in Latest(c) + 1 .. Len(c) : d[j] = c[j] /\ j \in Latest(c) + 1 .. Len(d)
    BY <1>2, <1>5 DEF Prefix
  <2> QED BY <2>1, <2>2 DEF Stream!IsFor
<1>9. \A k \in Latest(c) + 1 .. Len(d) :
        d[k].kind = "tool_call_delta" => k \in Latest(c) + 1 .. Len(c) /\ d[k] = c[k]
  BY <1>2, <1>4, <1>5 DEF Prefix
<1>10. new.pending = acc.pending /\ new.out = d /\ new.state = "reading"
       /\ new = [pending |-> new.pending, out |-> new.out, state |-> new.state]
  BY <1>1
<1> HIDE DEF new
<1>11. \A i \in 1 .. LastCall :
         /\ new.pending[i].arguments =
              Stream!Deltas(new.out, i, Latest(new.out) + 1, Len(new.out))
         /\ new.pending[i].completed <=>
              \E j \in Latest(new.out) + 1 .. Len(new.out) :
                Stream!IsFor(new.out, j, i, Stream!Settling)
  BY <1>5, <1>7, <1>8, <1>10, Zenon DEF AccInv
<1>12. \A k \in Latest(new.out) + 1 .. Len(new.out) :
         new.out[k].kind = "tool_call_delta" => new.pending[new.out[k].index] # Stream!None
  <2>1. \A k \in Latest(c) + 1 .. Len(c) :
          c[k].kind = "tool_call_delta" => acc.pending[c[k].index] # Stream!None
    BY DEF AccInv
  <2> QED BY <1>5, <1>9, <1>10, <2>1
<1>13. AccInv(new)
  <2>1. "reading" # "returned"
    OBVIOUS
  <2>2. acc.pending \in [1 .. LastCall -> Calls]
    BY DEF AccInv
  <2> QED BY <1>2, <1>6, <1>10, <1>11, <1>12, <2>1, <2>2 DEF AccInv
<1> QED BY <1>13 DEF new

\* An error forgets the calls.
LEMMA ErrorKeeps ==
  ASSUME NEW acc, AccInv(acc), acc.state = "reading"
  PROVE  AccInv([pending |-> [i \in 1 .. LastCall |-> Stream!None],
                  out |-> Append(acc.out, Stream!Chunk("error")), state |-> acc.state])
<1> DEFINE c == acc.out
           d == Append(acc.out, Stream!Chunk("error"))
           forgotten == [i \in 1 .. LastCall |-> Stream!None]
           new == [pending |-> forgotten, out |-> d, state |-> acc.state]
<1>1. new = [pending |-> forgotten, out |-> d, state |-> "reading"]
  OBVIOUS
<1>2. c \in Seq(Chunks) /\ d \in Seq(Chunks) /\ Prefix(c, d) /\ Len(d) = Len(c) + 1
      /\ Len(c) \in Nat /\ d[Len(c) + 1] = Stream!Chunk("error")
  <2>1. Stream!Chunk("error") \in Chunks
    BY DEF Chunks, Stream!Chunk
  <2> QED BY <2>1 DEF AccInv, Prefix
<1>3. d[Len(c) + 1].kind = "error"
  BY <1>2 DEF Stream!Chunk
<1> HIDE DEF d
<1>4. Latest(d) = Len(d)
  BY <1>2, <1>3, LatestType
<1>5. \A k \in 1 .. Len(d) : WholeAt(d, k)
  <2>1. ASSUME NEW k \in 1 .. Len(d) PROVE WholeAt(d, k)
    <3>1. CASE k \in 1 .. Len(c)
      BY <1>2, <3>1, WholeStays DEF AccInv
    <3>2. CASE k \notin 1 .. Len(c)
      <4>1. k = Len(c) + 1
        BY <1>2, <3>2
      <4>2. d[k].kind = "error"
        BY <1>3, <4>1
      <4> QED BY <4>2 DEF WholeAt
    <3> QED BY <3>1, <3>2
  <2> QED BY <2>1
<1>6. \A i : Stream!Deltas(d, i, Latest(d) + 1, Len(d)) = <<>>
  <2>1. Len(d) \in Nat /\ Latest(d) + 1 \in Nat \ {0} /\ Len(d) < Latest(d) + 1
    BY <1>2, <1>4
  <2> QED BY <2>1, DeltasGrow
<1>7. Latest(d) + 1 .. Len(d) = {}
  BY <1>2, <1>4
<1>8. forgotten \in [1 .. LastCall -> Calls]
      /\ \A i \in 1 .. LastCall : forgotten[i].arguments = <<>> /\ forgotten[i].completed = FALSE
  <2>1. Stream!None \in Calls /\ Stream!None.arguments = <<>> /\ Stream!None.completed = FALSE
    BY DEF Stream!None, Calls
  <2> QED BY <2>1
<1>9. new.pending = forgotten /\ new.out = d /\ new.state = "reading"
       /\ new = [pending |-> new.pending, out |-> new.out, state |-> new.state]
  BY <1>1
<1> HIDE DEF new, forgotten
<1>10. \A i \in 1 .. LastCall :
         /\ new.pending[i].arguments =
              Stream!Deltas(new.out, i, Latest(new.out) + 1, Len(new.out))
         /\ new.pending[i].completed <=>
              \E j \in Latest(new.out) + 1 .. Len(new.out) :
                Stream!IsFor(new.out, j, i, Stream!Settling)
  BY <1>6, <1>7, <1>8, <1>9, Zenon
<1>11. \A k \in Latest(new.out) + 1 .. Len(new.out) :
         new.out[k].kind = "tool_call_delta" => new.pending[new.out[k].index] # Stream!None
  BY <1>7, <1>9, Zenon
<1>12. AccInv(new)
  <2>1. "reading" # "returned"
    OBVIOUS
  <2> QED BY <1>2, <1>5, <1>8, <1>9, <1>10, <1>11, <2>1 DEF AccInv
<1> QED BY <1>12 DEF new, forgotten, d

\* A part of a call is gathered as it is shown.
LEMMA AddKeeps ==
  ASSUME NEW acc, AccInv(acc), acc.state = "reading", NEW e, e.index \in 1 .. LastCall,
         e.named \in BOOLEAN, e.part \in {"head", "tail"}
  PROVE  AccInv(Stream!AddDelta(acc, e)) /\ Stream!AddDelta(acc, e).state = "reading"
<1> DEFINE c == acc.out
           x == Stream!CallChunk("tool_call_delta", e.index, <<e.part>>)
           d == Append(c, x)
           call == Stream!Extended(acc.pending[e.index], e)
           more == [acc.pending EXCEPT ![e.index] = call]
           new == Stream!AddDelta(acc, e)
<1>1. new = [pending |-> more, out |-> d, state |-> "reading"]
  BY DEF Stream!AddDelta
<1>2. x \in Chunks /\ x.kind = "tool_call_delta" /\ x.index = e.index /\ x.arguments = <<e.part>>
  BY DEF Chunks, Stream!CallChunk
<1> HIDE DEF x
<1>3. c \in Seq(Chunks) /\ d \in Seq(Chunks) /\ Prefix(c, d) /\ Len(d) = Len(c) + 1
      /\ Len(c) \in Nat /\ d[Len(c) + 1] = x
  BY <1>2 DEF AccInv, Prefix
<1>4. acc.pending \in [1 .. LastCall -> Calls]
  BY DEF AccInv
<1>5. /\ call \in Calls /\ call.arguments = Append(acc.pending[e.index].arguments, e.part)
      /\ call.completed = acc.pending[e.index].completed
      /\ call.arguments # <<>>
  <2>1. PICK old : old = acc.pending[e.index] /\ old \in Calls
    BY <1>4
  <2>2. old.named \in BOOLEAN /\ old.completed \in BOOLEAN /\ old.arguments \in Seq({"head", "tail"})
    BY <2>1 DEF Calls
  <2>3. Append(old.arguments, e.part) \in Seq({"head", "tail"}) /\ Append(old.arguments, e.part) # <<>>
    BY <2>2
  <2>4. old.named \/ e.named \in BOOLEAN
    BY <2>2, Zenon
  <2>5. call = [named |-> old.named \/ e.named, arguments |-> Append(old.arguments, e.part),
                completed |-> old.completed]
    BY <2>1, Zenon DEF Stream!Extended
  <2> HIDE DEF call
  <2>6. call.arguments = Append(old.arguments, e.part) /\ call.completed = old.completed
    BY <2>5
  <2>7. call \in Calls
    BY <2>2, <2>3, <2>4, <2>5 DEF Calls
  <2> QED BY <2>1, <2>3, <2>6, <2>7
<1> HIDE DEF d, call
<1>6. \A j \in Len(c) + 1 .. Len(d) : j = Len(c) + 1 /\ d[j].kind = "tool_call_delta"
  BY <1>2, <1>3
<1>7. Latest(d) = Latest(c) /\ Latest(c) \in 0 .. Len(c)
  <2>1. Len(d) + 1 \in Len(c) + 1 .. Len(d) + 1
    BY <1>3
  <2>2. \A j \in Len(c) + 1 .. Len(d) : d[j].kind # "error"
    BY <1>6
  <2> QED BY <1>3, <2>1, <2>2, LatestStays DEF Latest
<1>8. \A k \in 1 .. Len(d) : WholeAt(d, k)
  <2>1. ASSUME NEW k \in 1 .. Len(d) PROVE WholeAt(d, k)
    <3>1. CASE k \in 1 .. Len(c)
      BY <1>3, <3>1, WholeStays DEF AccInv
    <3>2. CASE k \notin 1 .. Len(c)
      <4>1. d[k].kind = "tool_call_delta"
        BY <1>3, <1>6, <3>2
      <4> QED BY <4>1 DEF WholeAt
    <3> QED BY <3>1, <3>2
  <2> QED BY <2>1
<1>9. \A i \in 1 .. LastCall :
        more[i].arguments = Stream!Deltas(d, i, Latest(c) + 1, Len(d))
  <2>1. ASSUME NEW i \in 1 .. LastCall
        PROVE  more[i].arguments = Stream!Deltas(d, i, Latest(c) + 1, Len(d))
    <3>1. Latest(c) + 1 \in Nat \ {0} /\ Latest(c) + 1 <= Len(c) + 1
      BY <1>3, <1>7
    <3>2. Stream!Deltas(d, i, Latest(c) + 1, Len(c)) = Stream!Deltas(c, i, Latest(c) + 1, Len(c))
      BY <1>3, <3>1, DeltasAgree DEF Prefix
    <3>3. acc.pending[i].arguments = Stream!Deltas(c, i, Latest(c) + 1, Len(c))
      BY DEF AccInv
    <3>4. acc.pending[i].arguments \in Seq({"head", "tail"})
      BY <1>4 DEF Calls
    <3>5. Stream!Deltas(d, i, Latest(c) + 1, Len(c) + 1) =
            IF Stream!IsFor(d, Len(c) + 1, i, {"tool_call_delta"})
            THEN acc.pending[i].arguments \o <<e.part>>
            ELSE acc.pending[i].arguments
      <4>1. Stream!Deltas(d, i, Latest(c) + 1, Len(c) + 1) =
              IF Stream!IsFor(d, Len(c) + 1, i, {"tool_call_delta"})
              THEN Stream!Deltas(d, i, Latest(c) + 1, Len(c)) \o d[Len(c) + 1].arguments
              ELSE Stream!Deltas(d, i, Latest(c) + 1, Len(c))
        BY <1>3, <3>1, DeltasGrow
      <4>2. d[Len(c) + 1].arguments = <<e.part>>
        BY <1>2, <1>3
      <4> QED BY <3>2, <3>3, <4>1, <4>2
    <3>6. Stream!IsFor(d, Len(c) + 1, i, {"tool_call_delta"}) <=> i = e.index
      BY <1>2, <1>3 DEF Stream!IsFor
    <3>7. acc.pending[i].arguments \o <<e.part>> = Append(acc.pending[i].arguments, e.part)
      <4>1. PICK told : told = acc.pending[i].arguments /\ told \in Seq({"head", "tail"})
        BY <3>4
      <4>2. PICK piece : piece = e.part /\ piece \in {"head", "tail"}
        OBVIOUS
      <4>3. told \o <<piece>> = Append(told, piece)
        BY <4>1, <4>2
      <4> QED BY <4>1, <4>2, <4>3
    <3>8. CASE i = e.index
      <4>1. more[i] = call
        BY <1>4, <3>8
      <4> QED BY <1>3, <1>5, <3>5, <3>6, <3>7, <3>8, <4>1
    <3>9. CASE i # e.index
      <4>1. more[i] = acc.pending[i]
        BY <1>4, <3>9
      <4> QED BY <1>3, <3>5, <3>6, <3>9, <4>1
    <3> QED BY <3>8, <3>9
  <2> QED BY <2>1
<1>10. \A i : (\E j \in Latest(c) + 1 .. Len(c) : Stream!IsFor(c, j, i, Stream!Settling))
              <=> \E j \in Latest(c) + 1 .. Len(d) : Stream!IsFor(d, j, i, Stream!Settling)
  <2>1. \A j \in Latest(c) + 1 .. Len(d) :
          d[j].kind \in Stream!Settling => j \in Latest(c) + 1 .. Len(c)
    BY <1>3, <1>6, <1>7 DEF Stream!Settling
  <2>2. \A j \in Latest(c) + 1 .. Len(c) : d[j] = c[j] /\ j \in Latest(c) + 1 .. Len(d)
    BY <1>3, <1>7 DEF Prefix
  <2> QED BY <2>1, <2>2 DEF Stream!IsFor
<1>11. \A i \in 1 .. LastCall : more[i].completed = acc.pending[i].completed
  BY <1>4, <1>5
<1>12. \A k \in Latest(c) + 1 .. Len(d) :
         d[k].kind = "tool_call_delta" => more[d[k].index] # Stream!None
  <2> SUFFICES ASSUME NEW k \in Latest(c) + 1 .. Len(d), d[k].kind = "tool_call_delta"
               PROVE  more[d[k].index] # Stream!None
    OBVIOUS
  <2>1. call # Stream!None
    <3>1. Stream!None.arguments = <<>>
      BY DEF Stream!None
    <3> QED BY <1>5, <3>1
  <2>2. CASE k = Len(c) + 1
    BY <1>2, <1>3, <1>4, <2>1, <2>2
  <2>3. CASE k # Len(c) + 1
    <3>1. k \in Latest(c) + 1 .. Len(c) /\ k \in 1 .. Len(c)
      BY <1>3, <1>7, <2>3
    <3>2. d[k] = c[k] /\ c[k] \in Chunks
      BY <1>3, <3>1 DEF Prefix
    <3>3. acc.pending[c[k].index] # Stream!None
      BY <3>1, <3>2 DEF AccInv
    <3>4. c[k].index \in 1 .. LastCall
      BY <3>2, ChunkTells
    <3>5. CASE c[k].index = e.index
      BY <1>4, <2>1, <3>2, <3>5
    <3>6. CASE c[k].index # e.index
      BY <1>4, <3>2, <3>3, <3>4, <3>6
    <3> QED BY <3>5, <3>6
  <2> QED BY <2>2, <2>3
<1>13. more \in [1 .. LastCall -> Calls]
  BY <1>4, <1>5
<1>14. new.pending = more /\ new.out = d /\ new.state = "reading"
       /\ new = [pending |-> new.pending, out |-> new.out, state |-> new.state]
  BY <1>1
<1> HIDE DEF new, more
<1>15. \A i \in 1 .. LastCall :
         /\ new.pending[i].arguments =
              Stream!Deltas(new.out, i, Latest(new.out) + 1, Len(new.out))
         /\ new.pending[i].completed <=>
              \E j \in Latest(new.out) + 1 .. Len(new.out) :
                Stream!IsFor(new.out, j, i, Stream!Settling)
  <2>1. \A i \in 1 .. LastCall :
          acc.pending[i].completed <=>
            \E j \in Latest(c) + 1 .. Len(c) : Stream!IsFor(c, j, i, Stream!Settling)
    BY Zenon DEF AccInv
  <2> QED BY <1>7, <1>9, <1>10, <1>11, <1>14, <2>1, Zenon
<1>16. \A k \in Latest(new.out) + 1 .. Len(new.out) :
         new.out[k].kind = "tool_call_delta" => new.pending[new.out[k].index] # Stream!None
  BY <1>7, <1>12, <1>14, Zenon
<1>17. AccInv(new)
  <2>1. "reading" # "returned"
    OBVIOUS
  <2> QED BY <1>3, <1>8, <1>13, <1>14, <1>15, <1>16, <2>1 DEF AccInv
<1> QED BY <1>14, <1>17 DEF new

LEMMA StreamCount == ASSUME NEW set PROVE Stream!Cardinality(set) = Cardinality(set)
BY DEF Stream!Cardinality, Cardinality

LEMMA StreamOrder ==
  ASSUME NEW m \in Nat, NEW set \in SUBSET (1 .. m)
  PROVE  Ordered(Stream!InOrder(set), set)
<1>1. PICK s : Ordered(s, set)
  BY OrderExists
<1>2. /\ s \in [1 .. Stream!Cardinality(set) -> set]
      /\ \A i, k \in DOMAIN s : i < k => s[i] < s[k]
  BY <1>1, StreamCount DEF Ordered
<1>3. /\ Stream!InOrder(set) \in [1 .. Stream!Cardinality(set) -> set]
      /\ \A i, k \in DOMAIN Stream!InOrder(set) :
           i < k => Stream!InOrder(set)[i] < Stream!InOrder(set)[k]
  BY <1>2 DEF Stream!InOrder
<1>4. Stream!InOrder(set) \in [1 .. Cardinality(set) -> set]
  BY <1>3, StreamCount
<1> QED BY <1>3, <1>4 DEF Ordered

\* The calls are completed one behind the other.
LEMMA ToCompleteTells ==
  ASSUME NEW acc
  PROVE  LET left == {i \in Stream!Gathered(acc) : ~acc.pending[i].completed}
             t == Stream!ToComplete(acc)
         IN  /\ left \in SUBSET (1 .. LastCall) /\ t \in Seq(left)
             /\ \A k, l \in 1 .. Len(t) : t[k] = t[l] => k = l
             /\ Covers(t, left)
<1> DEFINE left == {i \in Stream!Gathered(acc) : ~acc.pending[i].completed}
           t == Stream!InOrder(left)
<1>1. left \in SUBSET (1 .. LastCall)
  BY DEF Stream!Gathered
<1>2. Stream!ToComplete(acc) = t
  BY DEF Stream!ToComplete
<1> HIDE DEF left
<1>3. Ordered(t, left)
  BY <1>1, DocumentBoundsAreNat, StreamOrder
<1> HIDE DEF t
<1>4. t \in Seq(left) /\ (\A k, l \in 1 .. Len(t) : t[k] = t[l] => k = l) /\ Covers(t, left)
  BY <1>1, <1>3, DocumentBoundsAreNat, OrderedTells
<1> QED BY <1>1, <1>2, <1>4, Zenon DEF left

LEMMA SettledTells ==
  ASSUME NEW call \in Calls, NEW i \in 1 .. LastCall
  PROVE  LET x == Stream!Settled(call, i) IN
         /\ x \in Chunks /\ x.kind \in Stream!Settling /\ x.index = i
         /\ x.arguments = call.arguments
         /\ x.kind = "tool_call" => Stream!IsJSON(call.arguments)
<1> DEFINE x == Stream!Settled(call, i)
<1>1. call.arguments \in Seq({"head", "tail"})
  BY DEF Calls
<1>2. CASE call.named /\ Stream!IsJSON(call.arguments)
  <2>1. x = Stream!CallChunk("tool_call", i, call.arguments)
    BY <1>2, Zenon DEF Stream!Settled
  <2> HIDE DEF x
  <2>2. x \in Chunks /\ x.kind = "tool_call" /\ x.index = i /\ x.arguments = call.arguments
    BY <1>1, <2>1 DEF Chunks, Stream!CallChunk
  <2>3. "tool_call" \in Stream!Settling
    BY DEF Stream!Settling
  <2> QED BY <1>2, <2>2, <2>3, Zenon DEF x
<1>3. CASE ~(call.named /\ Stream!IsJSON(call.arguments))
  <2>1. x = Stream!CallChunk("tool_call_error", i, call.arguments)
    BY <1>3, Zenon DEF Stream!Settled
  <2> HIDE DEF x
  <2>2. x \in Chunks /\ x.kind = "tool_call_error" /\ x.index = i /\ x.arguments = call.arguments
    BY <1>1, <2>1 DEF Chunks, Stream!CallChunk
  <2>3. "tool_call_error" \in Stream!Settling /\ "tool_call_error" # "tool_call"
    BY DEF Stream!Settling
  <2> QED BY <2>2, <2>3, Zenon DEF x
<1> QED BY <1>2, <1>3

LEMMA CompleteKeeps ==
  ASSUME NEW acc, AccInv(acc)
  PROVE  LET new == Stream!CompletePendingCalls(acc) IN
         AccInv(new) /\ Stream!CallsAreSettled(new.out)
<1> DEFINE c == acc.out
           t == Stream!ToComplete(acc)
           left == {i \in Stream!Gathered(acc) : ~acc.pending[i].completed}
           s == [k \in DOMAIN t |-> Stream!Settled(acc.pending[t[k]], t[k])]
           d == c \o s
           done == [i \in 1 .. LastCall |->
                      [acc.pending[i] EXCEPT !.completed = acc.pending[i] # Stream!None]]
           new == Stream!CompletePendingCalls(acc)
<1>1. new = [pending |-> done, out |-> d, state |-> acc.state]
  BY DEF Stream!CompletePendingCalls
<1>2. left \in SUBSET (1 .. LastCall) /\ t \in Seq(left)
      /\ (\A k, l \in 1 .. Len(t) : t[k] = t[l] => k = l) /\ Covers(t, left)
  BY ToCompleteTells, Zenon
<1>3. acc.pending \in [1 .. LastCall -> Calls]
  BY DEF AccInv
<1>4. \A i \in 1 .. LastCall : i \in left <=> acc.pending[i] # Stream!None /\ ~acc.pending[i].completed
  BY DEF Stream!Gathered
<1> HIDE DEF t, left
<1>5. DOMAIN t = 1 .. Len(t) /\ Len(t) \in Nat /\ \A k \in 1 .. Len(t) : t[k] \in left
  BY <1>2
<1>6. /\ s \in Seq(Chunks) /\ Len(s) = Len(t)
      /\ \A k \in 1 .. Len(t) : /\ s[k].kind \in Stream!Settling /\ s[k].index = t[k]
                                /\ s[k].arguments = acc.pending[t[k]].arguments
                                /\ s[k].kind = "tool_call" => Stream!IsJSON(s[k].arguments)
  <2>1. ASSUME NEW k \in 1 .. Len(t)
        PROVE  /\ s[k] \in Chunks /\ s[k].kind \in Stream!Settling /\ s[k].index = t[k]
               /\ s[k].arguments = acc.pending[t[k]].arguments
               /\ s[k].kind = "tool_call" => Stream!IsJSON(s[k].arguments)
    <3>1. s[k] = Stream!Settled(acc.pending[t[k]], t[k])
      BY <1>5
    <3>2. t[k] \in 1 .. LastCall
      BY <1>2, <1>5
    <3>3. acc.pending[t[k]] \in Calls
      BY <1>3, <3>2
    <3> HIDE DEF s
    <3>4. PICK call \in Calls : call = acc.pending[t[k]]
      BY <3>3
    <3>5. PICK i \in 1 .. LastCall : i = t[k]
      BY <3>2
    <3>6. /\ Stream!Settled(call, i) \in Chunks /\ Stream!Settled(call, i).kind \in Stream!Settling
          /\ Stream!Settled(call, i).index = i /\ Stream!Settled(call, i).arguments = call.arguments
          /\ Stream!Settled(call, i).kind = "tool_call" => Stream!IsJSON(call.arguments)
      BY SettledTells, Zenon
    <3>7. s[k] = Stream!Settled(call, i)
      BY <3>1, <3>4, <3>5
    <3> QED BY <3>4, <3>5, <3>6, <3>7, Zenon
  <2>2. s = [k \in 1 .. Len(t) |-> s[k]]
    BY <1>5
  <2> HIDE DEF s
  <2>3. s \in [1 .. Len(t) -> Chunks]
    BY <2>1, <2>2
  <2> QED BY <1>5, <2>1, <2>3
<1> HIDE DEF s
<1>7. c \in Seq(Chunks) /\ d \in Seq(Chunks) /\ Prefix(c, d) /\ Len(d) = Len(c) + Len(t)
      /\ Len(c) \in Nat
  <2>1. c \in Seq(Chunks) /\ Len(c) \in Nat
    BY DEF AccInv
  <2>2. /\ d \in Seq(Chunks) /\ Len(d) = Len(c) + Len(s)
        /\ \A i \in 1 .. Len(c) + Len(s) :
             d[i] = IF i <= Len(c) THEN c[i] ELSE s[i - Len(c)]
    <3>1. s \in Seq(Chunks)
      BY <1>6
    <3>2. /\ c \o s \in Seq(Chunks) /\ Len(c \o s) = Len(c) + Len(s)
          /\ \A i \in 1 .. Len(c) + Len(s) :
               (c \o s)[i] = IF i <= Len(c) THEN c[i] ELSE s[i - Len(c)]
      BY <2>1, <3>1, ConcatProperties, Zenon
    <3> QED BY <3>2, Zenon
  <2> HIDE DEF d
  <2>3. Prefix(c, d)
    <3>1. Len(s) \in Nat
      BY <1>5, <1>6
    <3>2. Len(c) <= Len(d)
      BY <2>1, <2>2, <3>1
    <3>3. \A i \in 1 .. Len(c) : i \in 1 .. Len(c) + Len(s) /\ i <= Len(c)
      BY <2>1, <3>1
    <3> QED BY <2>2, <3>2, <3>3 DEF Prefix
  <2> QED BY <1>6, <2>1, <2>2, <2>3
<1>7a. \A i \in Len(c) + 1 .. Len(d) : d[i] = s[i - Len(c)]
  <2>1. /\ \A i \in 1 .. Len(c) + Len(s) :
             d[i] = IF i <= Len(c) THEN c[i] ELSE s[i - Len(c)]
    BY <1>6, <1>7, ConcatProperties
  <2> HIDE DEF d
  <2> QED BY <1>5, <1>6, <1>7, <2>1
<1> HIDE DEF d
<1>8. ASSUME NEW n \in Len(c) + 1 .. Len(d)
      PROVE  \E k \in 1 .. Len(t) :
               n = Len(c) + k /\ d[n] = s[k]
  <2>1. n - Len(c) \in 1 .. Len(t) /\ n = Len(c) + (n - Len(c))
    BY <1>5, <1>7
  <2>2. d[n] = s[n - Len(c)]
    BY <1>7a
  <2> QED BY <2>1, <2>2
<1>9. \A k \in 1 .. Len(t) : Len(c) + k \in Len(c) + 1 .. Len(d) /\ d[Len(c) + k] = s[k]
  <2>1. ASSUME NEW k \in 1 .. Len(t)
        PROVE  Len(c) + k \in Len(c) + 1 .. Len(d) /\ d[Len(c) + k] = s[k]
    <3>1. PICK n : n = Len(c) + k
      OBVIOUS
    <3>2. n \in Len(c) + 1 .. Len(d) /\ n - Len(c) = k
      BY <1>5, <1>7, <3>1
    <3> QED BY <1>7a, <3>1, <3>2
  <2> QED BY <2>1
<1>10. \A j \in Len(c) + 1 .. Len(d) : d[j].kind \in Stream!Settling
  BY <1>6, <1>8
<1>11. \A j \in Len(c) + 1 .. Len(d) : d[j].kind # "error" /\ d[j].kind # "tool_call_delta"
  BY <1>10 DEF Stream!Settling
<1>12. /\ \A k \in Len(c) + 1 .. Len(d) + 1 : Stream!LastError(d, k) = Latest(c)
       /\ Latest(d) = Latest(c) /\ Latest(c) \in 0 .. Len(c)
  <2>1. \A k \in Len(c) + 1 .. Len(d) + 1 :
           Stream!LastError(d, k) = Latest(c) /\ Latest(c) \in 0 .. Len(c)
    BY <1>7, <1>11, LatestStays
  <2>2. Len(d) + 1 \in Len(c) + 1 .. Len(d) + 1
    BY <1>5, <1>7
  <2> QED BY <2>1, <2>2 DEF Latest
<1>13. \A i \in 1 .. LastCall : \A k \in Len(c) .. Len(d) :
         Stream!Deltas(d, i, Latest(c) + 1, k) = acc.pending[i].arguments
  <2>1. ASSUME NEW i \in 1 .. LastCall
        PROVE  \A k \in Len(c) .. Len(d) :
                 Stream!Deltas(d, i, Latest(c) + 1, k) = acc.pending[i].arguments
    <3>1. \A j \in Len(c) + 1 .. Len(d) : ~Stream!IsFor(d, j, i, {"tool_call_delta"})
      BY <1>11 DEF Stream!IsFor
    <3>2. Latest(c) + 1 \in 1 .. Len(c) + 1
      BY <1>7, <1>12
    <3>3. acc.pending[i].arguments = Stream!Deltas(c, i, Latest(c) + 1, Len(c))
      BY DEF AccInv
    <3> QED BY <1>7, <3>1, <3>2, <3>3, DeltasStay
  <2> QED BY <2>1
<1>14. \A i \in 1 .. LastCall :
         acc.pending[i].completed <=>
           \E j \in Latest(c) + 1 .. Len(c) : Stream!IsFor(c, j, i, Stream!Settling)
  BY Zenon DEF AccInv
<1>15. \A k \in 1 .. Len(d) : WholeAt(d, k)
  <2>1. ASSUME NEW n \in 1 .. Len(d) PROVE WholeAt(d, n)
    <3>1. CASE n \in 1 .. Len(c)
      BY <1>7, <3>1, WholeStays DEF AccInv
    <3>2. CASE n \notin 1 .. Len(c)
      <4>1. n \in Len(c) + 1 .. Len(d) /\ n \in Len(c) .. Len(d) /\ n \in Len(c) + 1 .. Len(d) + 1
        BY <1>5, <1>7, <3>2
      <4>2. PICK k \in 1 .. Len(t) : n = Len(c) + k /\ d[n] = s[k]
        BY <1>8, <4>1
      <4>3. PICK i \in left : i = t[k]
        BY <1>5
      <4>3a. PICK from : from = Latest(c) + 1
        OBVIOUS
      <4>3b. /\ i \in 1 .. LastCall /\ d[n].index = i
             /\ d[n].arguments = acc.pending[i].arguments
             /\ d[n].kind = "tool_call" => Stream!IsJSON(d[n].arguments)
        BY <1>2, <1>6, <4>2, <4>3
      <4>4. ~acc.pending[i].completed
        BY <1>4, <4>3b
      <4>5. \A j \in from .. Len(c) : ~Stream!IsFor(c, j, i, Stream!Settling)
        BY <1>14, <4>3a, <4>3b, <4>4
      <4>6. ASSUME NEW j \in from .. n - 1 PROVE ~Stream!IsFor(d, j, i, Stream!Settling)
        <5>1. CASE j \in from .. Len(c)
          <6>1. j \in 1 .. Len(c)
            BY <1>7, <1>12, <4>3a, <5>1
          <6>2. d[j] = c[j]
            BY <1>7, <6>1 DEF Prefix
          <6> QED BY <4>5, <5>1, <6>2 DEF Stream!IsFor
        <5>2. CASE j \notin from .. Len(c)
          <6>1. j \in Len(c) + 1 .. Len(d) /\ j # n
            BY <1>7, <1>12, <4>1, <4>3a, <5>2
          <6>2. PICK l \in 1 .. Len(t) : j = Len(c) + l /\ d[j] = s[l]
            BY <1>8, <6>1
          <6>3. l # k
            BY <4>2, <6>1, <6>2
          <6>4. d[j].index # i
            BY <1>2, <1>6, <4>3, <6>2, <6>3
          <6> QED BY <6>4 DEF Stream!IsFor
        <5> QED BY <5>1, <5>2
      <4>7. Stream!Deltas(d, i, from, n) = acc.pending[i].arguments
        BY <1>13, <4>1, <4>3a, <4>3b
      <4>8. Stream!LastError(d, n) + 1 = from
        BY <1>12, <4>1, <4>3a
      <4> QED BY <4>3b, <4>6, <4>7, <4>8 DEF WholeAt
    <3> QED BY <3>1, <3>2
  <2> QED BY <2>1
<1>16. ASSUME NEW i \in 1 .. LastCall
       PROVE  /\ done[i] \in Calls /\ done[i].arguments = acc.pending[i].arguments
              /\ done[i].completed <=> acc.pending[i] # Stream!None
              /\ acc.pending[i] # Stream!None => done[i] # Stream!None
  <2>1. PICK old : old = acc.pending[i] /\ old \in Calls
    BY <1>3
  <2>2. (old # Stream!None) \in BOOLEAN
    OBVIOUS
  <2>3. done[i] = [old EXCEPT !.completed = old # Stream!None]
    BY <2>1
  <2> HIDE DEF done
  <2>4. done[i] = [named |-> old.named, arguments |-> old.arguments,
                   completed |-> old # Stream!None]
    BY <2>1, <2>3 DEF Calls
  <2>5. done[i] \in Calls
    BY <2>1, <2>2, <2>4 DEF Calls
  <2>6. done[i].arguments = old.arguments /\ (done[i].completed <=> old # Stream!None)
    <3>1. PICK b \in BOOLEAN : b <=> old # Stream!None
      BY <2>2
    <3>2. b = (old # Stream!None)
      BY <3>1
    <3>3. done[i] = [named |-> old.named, arguments |-> old.arguments, completed |-> b]
      BY <2>4, <3>2
    <3>4. done[i].arguments = old.arguments /\ done[i].completed = b
      BY <3>3
    <3> QED BY <3>1, <3>4
  <2>7. Stream!None.completed = FALSE
    BY DEF Stream!None
  <2> QED BY <2>1, <2>5, <2>6, <2>7
<1>17. done \in [1 .. LastCall -> Calls]
  <2>1. done = [i \in 1 .. LastCall |-> done[i]]
    OBVIOUS
  <2> HIDE DEF done
  <2> QED BY <1>16, <2>1
<1> HIDE DEF done
<1>18. ASSUME NEW i \in 1 .. LastCall
       PROVE  acc.pending[i] # Stream!None
                <=> \E j \in Latest(c) + 1 .. Len(d) : Stream!IsFor(d, j, i, Stream!Settling)
  <2>1. CASE i \in left
    <3>1. PICK k \in 1 .. Len(t) : t[k] = i
      BY <1>2, <2>1 DEF Covers
    <3>2. Len(c) + k \in Latest(c) + 1 .. Len(d)
      BY <1>5, <1>7, <1>12
    <3>3. d[Len(c) + k] = s[k] /\ s[k].kind \in Stream!Settling /\ s[k].index = i
      BY <1>6, <1>9, <3>1
    <3>4. Stream!IsFor(d, Len(c) + k, i, Stream!Settling)
      BY <3>3 DEF Stream!IsFor
    <3> QED BY <1>4, <2>1, <3>2, <3>4
  <2>2. CASE i \notin left
    <3>1. acc.pending[i] # Stream!None <=> acc.pending[i].completed
      <4>1. Stream!None.completed = FALSE
        BY DEF Stream!None
      <4> QED BY <1>4, <2>2, <4>1
    <3>2. \A j \in Latest(c) + 1 .. Len(c) : j \in Latest(c) + 1 .. Len(d) /\ d[j] = c[j]
      BY <1>5, <1>7, <1>12 DEF Prefix
    <3>3. ASSUME NEW j \in Latest(c) + 1 .. Len(d), Stream!IsFor(d, j, i, Stream!Settling)
          PROVE  j \in Latest(c) + 1 .. Len(c)
      <4>1. CASE j \in Len(c) + 1 .. Len(d)
        <5>1. PICK k \in 1 .. Len(t) : d[j] = s[k]
          BY <1>8, <4>1
        <5>2. d[j].index \in left
          BY <1>5, <1>6, <5>1
        <5> QED BY <2>2, <3>3, <5>2 DEF Stream!IsFor
      <4>2. CASE j \notin Len(c) + 1 .. Len(d)
        BY <1>7, <1>12, <4>2
      <4> QED BY <4>1, <4>2
    <3>4. (\E j \in Latest(c) + 1 .. Len(c) : Stream!IsFor(c, j, i, Stream!Settling))
             <=> \E j \in Latest(c) + 1 .. Len(d) : Stream!IsFor(d, j, i, Stream!Settling)
      BY <3>2, <3>3 DEF Stream!IsFor
    <3> QED BY <1>14, <3>1, <3>4
  <2> QED BY <2>1, <2>2
<1>19. \A k \in Latest(c) + 1 .. Len(d) :
         d[k].kind = "tool_call_delta" =>
           /\ d[k].index \in 1 .. LastCall /\ acc.pending[d[k].index] # Stream!None
  <2> SUFFICES ASSUME NEW k \in Latest(c) + 1 .. Len(d), d[k].kind = "tool_call_delta"
               PROVE  d[k].index \in 1 .. LastCall /\ acc.pending[d[k].index] # Stream!None
    OBVIOUS
  <2>1. k \in Latest(c) + 1 .. Len(c) /\ k \in 1 .. Len(c)
    BY <1>7, <1>11, <1>12
  <2>2. d[k] = c[k] /\ c[k] \in Chunks
    BY <1>7, <2>1 DEF Prefix
  <2>3. acc.pending[c[k].index] # Stream!None
    BY <2>1, <2>2 DEF AccInv
  <2>4. c[k].index \in 1 .. LastCall
    BY <2>2, ChunkTells
  <2> QED BY <2>2, <2>3, <2>4
<1>20. Stream!CallsAreSettled(d)
  <2>1. ASSUME NEW k \in DOMAIN d, d[k].kind = "tool_call_delta"
        PROVE  \E j \in DOMAIN d :
                 \/ j > k /\ d[j].kind = "error"
                 \/ j > Stream!LastError(d, k) /\ Stream!IsFor(d, j, d[k].index, Stream!Settling)
    <3>1. DOMAIN d = 1 .. Len(d) /\ Len(d) \in Nat /\ k \in 1 .. Len(d)
      BY <1>7
    <3>2. /\ Latest(d) # 0 => d[Latest(d)].kind = "error"
          /\ \A j \in 1 .. Len(d) : d[j].kind = "error" => j <= Latest(d)
          /\ Latest(d) \in 0 .. Len(d)
      BY <1>7, LatestType
    <3>3. CASE k <= Latest(d)
      <4>1. Latest(d) \in DOMAIN d /\ Latest(d) > k /\ d[Latest(d)].kind = "error"
        <5>1. Latest(d) # 0 /\ d[Latest(d)].kind = "error"
          BY <3>1, <3>2, <3>3
        <5>2. Latest(d) # k
          BY <2>1, <5>1
        <5> QED BY <3>1, <3>2, <3>3, <5>1, <5>2
      <4> QED BY <4>1
    <3>4. CASE ~(k <= Latest(d))
      <4>1. k \in Latest(c) + 1 .. Len(d)
        BY <1>12, <3>1, <3>2, <3>4
      <4>2. PICK j \in Latest(c) + 1 .. Len(d) : Stream!IsFor(d, j, d[k].index, Stream!Settling)
        BY <1>18, <1>19, <2>1, <4>1
      <4>3. LastErrorIn(d, k, Stream!LastError(d, k))
        BY <3>1, LastErrorTells
      <4>4. Stream!LastError(d, k) <= Latest(d) /\ Stream!LastError(d, k) \in Nat
        BY <3>1, <3>2, <4>3 DEF LastErrorIn
      <4>5. j > Stream!LastError(d, k) /\ j \in DOMAIN d
        BY <1>7, <1>12, <3>1, <4>2, <4>4
      <4> QED BY <4>2, <4>5
    <3> QED BY <3>3, <3>4
  <2> QED BY <2>1 DEF Stream!CallsAreSettled
<1>21. new.pending = done /\ new.out = d /\ new.state = acc.state
       /\ new = [pending |-> new.pending, out |-> new.out, state |-> new.state]
  BY <1>1
<1> HIDE DEF new
<1>22. \A i \in 1 .. LastCall :
         /\ new.pending[i].arguments =
              Stream!Deltas(new.out, i, Latest(new.out) + 1, Len(new.out))
         /\ new.pending[i].completed <=>
              \E j \in Latest(new.out) + 1 .. Len(new.out) :
                Stream!IsFor(new.out, j, i, Stream!Settling)
  <2>1. \A i \in 1 .. LastCall :
          Stream!Deltas(d, i, Latest(c) + 1, Len(d)) = acc.pending[i].arguments
    <3>1. Len(d) \in Len(c) .. Len(d)
      BY <1>5, <1>7
    <3> QED BY <1>13, <3>1
  <2> QED BY <1>12, <1>16, <1>18, <1>21, <2>1, Zenon
<1>23. \A k \in Latest(new.out) + 1 .. Len(new.out) :
         new.out[k].kind = "tool_call_delta" => new.pending[new.out[k].index] # Stream!None
  BY <1>12, <1>16, <1>19, <1>21, Zenon
<1>24. AccInv(new)
  <2>1. acc.state \in {"reading", "returned"}
    BY DEF AccInv
  <2> QED BY <1>7, <1>15, <1>17, <1>20, <1>21, <1>22, <1>23, <2>1 DEF AccInv
<1> QED BY <1>20, <1>21, <1>24 DEF new

-----------------------------------------------------------------------------
(* ProviderStream: the lines. *)

LEMMA LineTells ==
  ASSUME NEW e \in Stream!Lines
  PROVE  \/ e.kind \in {"text", "finish", "error", "done", "junk"}
         \/ /\ e.kind = "delta" /\ e.index \in 1 .. LastCall /\ e.named \in BOOLEAN
            /\ e.part \in {"head", "tail"} /\ e.finish \in BOOLEAN
BY DEF Stream!Lines

\* A stream may end where every call is settled.
LEMMA ReturnKeeps ==
  ASSUME NEW acc, AccInv(acc), Stream!CallsAreSettled(acc.out)
  PROVE  AccInv([acc EXCEPT !.state = "returned"])
<1> DEFINE new == [acc EXCEPT !.state = "returned"]
<1>1. acc = [pending |-> acc.pending, out |-> acc.out, state |-> acc.state]
  BY DEF AccInv
<1>2. PICK p, o, s : acc = [pending |-> p, out |-> o, state |-> s]
  BY <1>1
<1>3. new = [pending |-> p, out |-> o, state |-> "returned"]
  BY <1>2
<1> HIDE DEF new
<1>4. new.pending = acc.pending /\ new.out = acc.out /\ new.state = "returned"
      /\ new = [pending |-> new.pending, out |-> new.out, state |-> new.state]
  BY <1>2, <1>3
<1>5. AccInv(new)
  BY <1>4, Zenon DEF AccInv
<1> QED BY <1>5 DEF new

LEMMA LineKeeps ==
  ASSUME NEW acc, AccInv(acc), NEW e \in Stream!Lines
  PROVE  AccInv(Stream!HandleLine(acc, e))
<1>1. CASE acc.state = "returned" \/ e.kind = "junk"
  BY <1>1, Zenon DEF Stream!HandleLine
<1>2. CASE ~(acc.state = "returned" \/ e.kind = "junk")
  <2>1. acc.state = "reading"
    BY <1>2 DEF AccInv
  <2>2. CASE e.kind = "text"
    <3>1. Stream!HandleLine(acc, e) = [acc EXCEPT !.out = Append(@, Stream!Chunk("text"))]
      BY <1>2, <2>2 DEF Stream!HandleLine
    <3> QED BY <2>1, <3>1, TextKeeps
  <2>3. CASE e.kind = "error"
    <3>1. Stream!HandleLine(acc, e) =
            [pending |-> [i \in 1 .. LastCall |-> Stream!None],
             out |-> Append(acc.out, Stream!Chunk("error")), state |-> acc.state]
      BY <1>2, <2>3 DEF Stream!HandleLine
    <3> QED BY <2>1, <3>1, ErrorKeeps
  <2>4. CASE e.kind = "finish"
    <3>1. Stream!HandleLine(acc, e) = Stream!CompletePendingCalls(acc)
      BY <1>2, <2>4 DEF Stream!HandleLine
    <3> QED BY <2>1, <3>1, CompleteKeeps
  <2>5. CASE e.kind = "done"
    <3>1. Stream!HandleLine(acc, e) =
            [Stream!CompletePendingCalls(acc) EXCEPT !.state = "returned"]
      BY <1>2, <2>5 DEF Stream!HandleLine
    <3> QED BY <2>1, <3>1, CompleteKeeps, ReturnKeeps
  <2>6. CASE e.kind = "delta"
    <3>1. e.index \in 1 .. LastCall /\ e.named \in BOOLEAN /\ e.part \in {"head", "tail"}
      BY <2>6, LineTells
    <3>2. AccInv(Stream!AddDelta(acc, e)) /\ Stream!AddDelta(acc, e).state = "reading"
      BY <2>1, <3>1, AddKeeps
    <3>3. CASE e.finish
      <4>1. Stream!HandleLine(acc, e) = Stream!CompletePendingCalls(Stream!AddDelta(acc, e))
        BY <1>2, <2>6, <3>3 DEF Stream!HandleLine
      <4> QED BY <3>2, <4>1, CompleteKeeps
    <3>4. CASE ~e.finish
      <4>1. Stream!HandleLine(acc, e) = Stream!AddDelta(acc, e)
        BY <1>2, <2>6, <3>4 DEF Stream!HandleLine
      <4> QED BY <3>2, <4>1
    <3> QED BY <3>3, <3>4
  <2> QED BY <1>2, <2>2, <2>3, <2>4, <2>5, <2>6, LineTells
<1> QED BY <1>1, <1>2

\* What the reader knows behind each of the first lines.
HandledIn(h, acc, lines, m) ==
  h = [n \in 0 .. m |-> IF n = 0 THEN acc ELSE Stream!HandleLine(h[n - 1], lines[n])]

LEMMA HandledTells ==
  ASSUME NEW h, NEW acc, NEW lines, NEW m \in Nat, HandledIn(h, acc, lines, m)
  PROVE  h[0] = acc /\ \A n \in 1 .. m : h[n] = Stream!HandleLine(h[n - 1], lines[n])
<1>1. 0 \in 0 .. m /\ \A n \in 1 .. m : n \in 0 .. m /\ n # 0
  OBVIOUS
<1> QED BY <1>1 DEF HandledIn

LEMMA HandledExists ==
  ASSUME NEW acc, NEW lines
  PROVE  \A m \in Nat : \E h : HandledIn(h, acc, lines, m)
<1> DEFINE T == {n \in Nat : \E h : HandledIn(h, acc, lines, n)}
<1>1. 0 \in T
  <2>1. HandledIn([n \in 0 .. 0 |-> acc], acc, lines, 0)
    BY DEF HandledIn
  <2> QED BY <2>1
<1>2. ASSUME NEW m \in T PROVE m + 1 \in T
  <2>1. PICK h : HandledIn(h, acc, lines, m)
    OBVIOUS
  <2>2. m \in Nat
    OBVIOUS
  <2> DEFINE g == [n \in 0 .. m + 1 |->
                     IF n = m + 1 THEN Stream!HandleLine(h[m], lines[m + 1]) ELSE h[n]]
             After(f, n) == IF n = 0 THEN acc ELSE Stream!HandleLine(f[n - 1], lines[n])
  <2>3. h[0] = acc /\ \A n \in 1 .. m : h[n] = Stream!HandleLine(h[n - 1], lines[n])
    BY <2>1, <2>2, HandledTells
  <2>4. \A n \in 0 .. m : g[n] = h[n] /\ n \in 0 .. m + 1
    BY <2>2
  <2>5. g[m + 1] = Stream!HandleLine(h[m], lines[m + 1]) /\ m + 1 \in 0 .. m + 1
    BY <2>2
  <2>6. g = [n \in 0 .. m + 1 |-> g[n]]
    OBVIOUS
  <2> HIDE DEF g
  <2>7. ASSUME NEW n \in 0 .. m + 1 PROVE g[n] = After(g, n)
    <3>1. CASE n = m + 1
      <4>1. n - 1 = m /\ n # 0 /\ g[m] = h[m]
        BY <2>2, <2>4, <3>1
      <4> QED BY <2>5, <3>1, <4>1
    <3>2. CASE n = 0
      BY <2>2, <2>3, <2>4, <3>2
    <3>3. CASE n # m + 1 /\ n # 0
      <4>1. n \in 1 .. m /\ n \in 0 .. m /\ n - 1 \in 0 .. m
        BY <2>2, <3>3
      <4>2. g[n] = h[n] /\ g[n - 1] = h[n - 1]
        BY <2>4, <4>1
      <4> QED BY <2>3, <3>3, <4>1, <4>2
    <3> QED BY <3>1, <3>2, <3>3
  <2> HIDE DEF After
  <2>8. g = [n \in 0 .. m + 1 |-> After(g, n)]
    BY <2>6, <2>7
  <2>9. HandledIn(g, acc, lines, m + 1)
    BY <2>8, Zenon DEF HandledIn, After
  <2> QED BY <2>2, <2>9
<1> HIDE DEF T
<1>3. T = Nat
  BY <1>1, <1>2, SetInduction DEF T
<1> QED BY <1>3 DEF T

LEMMA HandleHandled ==
  ASSUME NEW acc, NEW lines \in Seq(Stream!Lines)
  PROVE  \E h : HandledIn(h, acc, lines, Len(lines)) /\ Stream!Handle(acc, lines) = h[Len(lines)]
<1>1. \E h : HandledIn(h, acc, lines, Len(lines))
  <2>1. Len(lines) \in Nat
    OBVIOUS
  <2> QED BY <2>1, HandledExists
<1> QED BY <1>1 DEF Stream!Handle, HandledIn

LEMMA HandleKeeps ==
  ASSUME NEW acc, AccInv(acc), NEW lines \in Seq(Stream!Lines)
  PROVE  AccInv(Stream!Handle(acc, lines))
<1>1. PICK h : HandledIn(h, acc, lines, Len(lines)) /\ Stream!Handle(acc, lines) = h[Len(lines)]
  BY HandleHandled
<1>2. Len(lines) \in Nat /\ \A n \in 1 .. Len(lines) : lines[n] \in Stream!Lines
  OBVIOUS
<1>3. h[0] = acc /\ \A n \in 1 .. Len(lines) : h[n] = Stream!HandleLine(h[n - 1], lines[n])
  BY <1>1, <1>2, HandledTells
<1> DEFINE T == {n \in Nat : n <= Len(lines) => AccInv(h[n])}
<1>4. 0 \in T
  BY <1>3
<1>5. ASSUME NEW n \in T PROVE n + 1 \in T
  <2>1. n \in Nat
    OBVIOUS
  <2>2. ASSUME n + 1 <= Len(lines) PROVE AccInv(h[n + 1])
    <3>1. PICK k : k = n + 1
      OBVIOUS
    <3>2. k \in 1 .. Len(lines) /\ k - 1 = n /\ n <= Len(lines)
      BY <1>2, <2>1, <2>2, <3>1
    <3>3. AccInv(h[n])
      BY <3>2
    <3>4. h[k] = Stream!HandleLine(h[n], lines[k]) /\ lines[k] \in Stream!Lines
      BY <1>2, <1>3, <3>2
    <3> QED BY <3>1, <3>3, <3>4, LineKeeps
  <2> QED BY <2>1, <2>2
<1> HIDE DEF T
<1>6. T = Nat
  BY <1>4, <1>5, SetInduction DEF T
<1>7. AccInv(h[Len(lines)])
  BY <1>2, <1>6 DEF T
<1> QED BY <1>1, <1>7

\* Lines are handled one behind the other, wherever they are cut in two.
LEMMA HandleInTwo ==
  ASSUME NEW acc, NEW lines \in Seq(Stream!Lines), NEW first \in Seq(Stream!Lines),
         NEW rest \in Seq(Stream!Lines), Len(lines) = Len(first) + Len(rest),
         \A k \in 1 .. Len(first) : first[k] = lines[k],
         \A k \in 1 .. Len(rest) : rest[k] = lines[Len(first) + k]
  PROVE  Stream!Handle(Stream!Handle(acc, first), rest) = Stream!Handle(acc, lines)
<1>1. PICK h : HandledIn(h, acc, lines, Len(lines)) /\ Stream!Handle(acc, lines) = h[Len(lines)]
  BY HandleHandled
<1>2. PICK f : HandledIn(f, acc, first, Len(first)) /\ Stream!Handle(acc, first) = f[Len(first)]
  BY HandleHandled
<1>3. PICK g : HandledIn(g, f[Len(first)], rest, Len(rest))
               /\ Stream!Handle(f[Len(first)], rest) = g[Len(rest)]
  BY HandleHandled
<1>4. Len(first) \in Nat /\ Len(rest) \in Nat /\ Len(lines) \in Nat
  OBVIOUS
<1>5. h[0] = acc /\ \A n \in 1 .. Len(lines) : h[n] = Stream!HandleLine(h[n - 1], lines[n])
  BY <1>1, <1>4, HandledTells
<1>6. f[0] = acc /\ \A n \in 1 .. Len(first) : f[n] = Stream!HandleLine(f[n - 1], first[n])
  BY <1>2, <1>4, HandledTells
<1>7. g[0] = f[Len(first)]
      /\ \A n \in 1 .. Len(rest) : g[n] = Stream!HandleLine(g[n - 1], rest[n])
  BY <1>3, <1>4, HandledTells
<1>8. f[Len(first)] = h[Len(first)]
  <2> DEFINE T == {n \in Nat : n <= Len(first) => f[n] = h[n]}
  <2>1. 0 \in T
    BY <1>5, <1>6
  <2>2. ASSUME NEW n \in T PROVE n + 1 \in T
    <3>1. n \in Nat
      OBVIOUS
    <3>2. ASSUME n + 1 <= Len(first) PROVE f[n + 1] = h[n + 1]
      <4>1. PICK k : k = n + 1
        OBVIOUS
      <4>2. k \in 1 .. Len(first) /\ k \in 1 .. Len(lines) /\ k - 1 = n /\ n <= Len(first)
        BY <1>4, <3>1, <3>2, <4>1
      <4>3. f[n] = h[n] /\ first[k] = lines[k]
        BY <4>2
      <4>4. f[k] = Stream!HandleLine(f[n], first[k]) /\ h[k] = Stream!HandleLine(h[n], lines[k])
        BY <1>5, <1>6, <4>2
      <4> QED BY <4>1, <4>3, <4>4
    <3> QED BY <3>1, <3>2
  <2> HIDE DEF T
  <2>3. T = Nat
    BY <2>1, <2>2, SetInduction DEF T
  <2> QED BY <1>4, <2>3 DEF T
<1>9. g[Len(rest)] = h[Len(first) + Len(rest)]
  <2> DEFINE T == {n \in Nat : n <= Len(rest) => g[n] = h[Len(first) + n]}
  <2>1. 0 \in T
    <3>1. Len(first) + 0 = Len(first)
      BY <1>4
    <3> QED BY <1>7, <1>8, <3>1
  <2>2. ASSUME NEW n \in T PROVE n + 1 \in T
    <3>1. n \in Nat
      OBVIOUS
    <3>2. ASSUME n + 1 <= Len(rest) PROVE g[n + 1] = h[Len(first) + (n + 1)]
      <4>1. PICK k : k = n + 1
        OBVIOUS
      <4>2. PICK l : l = Len(first) + k
        OBVIOUS
      <4>3. /\ k \in 1 .. Len(rest) /\ k - 1 = n /\ n <= Len(rest)
            /\ l \in 1 .. Len(lines) /\ l - 1 = Len(first) + n
        BY <1>4, <3>1, <3>2, <4>1, <4>2
      <4>4. g[n] = h[Len(first) + n] /\ rest[k] = lines[l]
        BY <4>2, <4>3
      <4>5. g[k] = Stream!HandleLine(g[n], rest[k])
        BY <1>7, <4>3
      <4>6. h[l] = Stream!HandleLine(h[Len(first) + n], lines[l])
        BY <1>5, <4>3
      <4> QED BY <4>1, <4>2, <4>4, <4>5, <4>6
    <3> QED BY <3>1, <3>2
  <2> HIDE DEF T
  <2>3. T = Nat
    BY <2>1, <2>2, SetInduction DEF T
  <2>4. PICK n \in T : n = Len(rest)
    BY <1>4, <2>3
  <2>5. n \in Nat /\ n <= Len(rest)
    BY <1>4, <2>4
  <2>6. g[n] = h[Len(first) + n]
    BY <2>4, <2>5 DEF T
  <2> QED BY <2>4, <2>6
<1> QED BY <1>1, <1>2, <1>3, <1>9

LEMMA HandleNone ==
  ASSUME NEW acc
  PROVE  Stream!Handle(acc, <<>>) = acc
<1>1. <<>> \in Seq(Stream!Lines) /\ Len(<<>>) = 0 /\ 0 \in Nat
  OBVIOUS
<1>2. PICK h : HandledIn(h, acc, <<>>, Len(<<>>)) /\ Stream!Handle(acc, <<>>) = h[Len(<<>>)]
  BY <1>1, HandleHandled
<1>3. HandledIn(h, acc, <<>>, 0)
  BY <1>1, <1>2
<1> QED BY <1>1, <1>2, <1>3, HandledTells

-----------------------------------------------------------------------------
(* ProviderStream: the body. *)

LEMMA Between ==
  ASSUME NEW S, NEW s \in Seq(S), NEW a \in Nat, NEW b \in Nat, a <= b, b <= Len(s)
  PROVE  /\ SubSeq(s, a + 1, b) \in Seq(S) /\ Len(SubSeq(s, a + 1, b)) = b - a
         /\ \A k \in 1 .. b - a : SubSeq(s, a + 1, b)[k] = s[a + k]
<1>1. Len(s) \in Nat /\ \A i \in 1 .. Len(s) : s[i] \in S
  OBVIOUS
<1>2. a + 1 \in Int /\ b \in Int /\ \A i \in a + 1 .. b : s[i] \in S
  BY <1>1
<1> DEFINE t == SubSeq(s, a + 1, b)
<1>3. /\ t \in Seq(S) /\ Len(t) = IF a + 1 <= b THEN b - (a + 1) + 1 ELSE 0
      /\ \A i \in 1 .. b - (a + 1) + 1 : t[i] = s[(a + 1) + i - 1]
  BY <1>2, SubSeqProperties
<1> HIDE DEF t
<1>4. Len(t) = b - a
  BY <1>3
<1>5. ASSUME NEW k \in 1 .. b - a PROVE t[k] = s[a + k]
  <2>1. k \in 1 .. b - (a + 1) + 1 /\ (a + 1) + k - 1 = a + k
    OBVIOUS
  <2> QED BY <1>3, <2>1
<1> QED BY <1>3, <1>4, <1>5 DEF t

StreamInv ==
  /\ body \in Seq(Stream!Lines) /\ ends \in Nat /\ ends <= Len(body)
  /\ closed \in {"no", "yes", "broken"}
  /\ read \in [lines : Nat, ends : Nat] /\ pending \in [1 .. LastCall -> Calls]
  /\ read.ends <= read.lines /\ read.lines <= Len(body) /\ read.ends <= ends
  /\ buffer \in Seq(Stream!Lines) /\ state \in {"reading", "returned"}
  /\ out \in Seq(Chunks) /\ Stream!CallsAreWhole(out)
  /\ state = "returned" => Stream!CallsAreSettled(out)
  /\ state = "reading" =>
       /\ AccInv(Stream!Now)
       /\ buffer = SubSeq(body, read.ends + 1, read.lines)
       /\ Stream!Now = Stream!Handle(Stream!First, SubSeq(body, 1, read.ends))

LEMMA StreamInvTells ==
  ASSUME StreamInv
  PROVE  Stream!TypeOK /\ Stream!StreamsAreFaithful
<1>1. state = "reading" => Stream!CutsDoNotShow
  <2> SUFFICES ASSUME state = "reading" PROVE Stream!CutsDoNotShow
    OBVIOUS
  <2>1. Stream!Now = Stream!Handle(Stream!First, SubSeq(body, 1, read.ends))
    BY DEF StreamInv
  <2>2. Stream!Now.out = out
    BY DEF Stream!Now
  <2> QED BY <2>1, <2>2, Zenon DEF Stream!CutsDoNotShow
<1>2. Stream!StreamsAreFaithful
  BY <1>1, Zenon DEF StreamInv, Stream!StreamsAreFaithful
<1>3. /\ body \in Seq(Stream!Lines) /\ ends \in 0 .. Len(body) /\ closed \in {"no", "yes", "broken"}
      /\ read.lines \in 0 .. Len(body) /\ read.ends \in 0 .. ends
      /\ read \in [lines : Nat, ends : Nat] /\ state \in {"reading", "returned"}
  BY DEF StreamInv
<1>4. read \in [lines : 0 .. Len(body), ends : 0 .. ends]
  BY <1>3
<1>5. \A i \in 1 .. LastCall : pending[i].named \in BOOLEAN /\ pending[i].completed \in BOOLEAN
  BY DEF StreamInv, Calls
<1> QED BY <1>2, <1>3, <1>4, <1>5 DEF Stream!TypeOK

\* No line is handled at first.
LEMMA FirstHolds == AccInv(Stream!First)
<1>1. /\ Stream!First.pending = [i \in 1 .. LastCall |-> Stream!None]
      /\ Stream!First.out = <<>> /\ Stream!First.state = "reading"
      /\ Stream!First = [pending |-> Stream!First.pending, out |-> Stream!First.out,
                         state |-> Stream!First.state]
  BY DEF Stream!First
<1>2. Stream!None \in Calls /\ Stream!None.arguments = <<>> /\ Stream!None.completed = FALSE
  BY DEF Stream!None, Calls
<1>3. Stream!First.pending \in [1 .. LastCall -> Calls]
  BY <1>1, <1>2
<1>4. Stream!First.out \in Seq(Chunks) /\ Len(Stream!First.out) = 0
  BY <1>1
<1>5. Latest(Stream!First.out) = 0
  BY <1>4, LatestType
<1> DEFINE f == Stream!First
<1> HIDE DEF f
<1>6. ASSUME NEW i \in 1 .. LastCall
      PROVE  /\ f.pending[i].arguments = Stream!Deltas(f.out, i, Latest(f.out) + 1, Len(f.out))
             /\ f.pending[i].completed <=>
                  \E j \in Latest(f.out) + 1 .. Len(f.out) : Stream!IsFor(f.out, j, i, Stream!Settling)
  <2>1. f.pending[i] = Stream!None
    BY <1>1 DEF f
  <2>2. PICK m : m = Latest(f.out)
    OBVIOUS
  <2>3. PICK n : n = Len(f.out)
    OBVIOUS
  <2>4. m + 1 .. n = {} /\ n < m + 1 /\ m + 1 \in Nat \ {0} /\ n \in Nat
    BY <1>4, <1>5, <2>2, <2>3 DEF f
  <2>5. Stream!Deltas(f.out, i, m + 1, n) = <<>>
    BY <2>4, DeltasGrow
  <2> QED BY <1>2, <2>1, <2>2, <2>3, <2>4, <2>5, Zenon
<1>7. Latest(f.out) + 1 .. Len(f.out) = {} /\ 1 .. Len(f.out) = {}
  BY <1>4, <1>5 DEF f
<1>8. f.state # "returned"
  BY <1>1 DEF f
<1>9. AccInv(f)
  BY <1>1, <1>3, <1>4, <1>6, <1>7, <1>8 DEF AccInv, f
<1> QED BY <1>9 DEF f

LEMMA StreamBegin ==
  ASSUME Stream!Init
  PROVE  StreamInv
<1>1. /\ body = <<>> /\ ends = 0 /\ closed = "no" /\ read = [lines |-> Len(body), ends |-> ends]
      /\ buffer = <<>> /\ pending = Stream!First.pending /\ out = <<>> /\ state = "reading"
  BY DEF Stream!Init, Stream!Sent
<1>2. Stream!Now = Stream!First
  BY <1>1 DEF Stream!Now, Stream!First
<1>3. SubSeq(body, 1, read.ends) = <<>> /\ SubSeq(body, read.ends + 1, read.lines) = <<>>
  <2>1. <<>> \in Seq(Stream!Lines) /\ Len(<<>>) = 0
    OBVIOUS
  <2>2. /\ SubSeq(<<>>, 0 + 1, 0) \in Seq(Stream!Lines) /\ Len(SubSeq(<<>>, 0 + 1, 0)) = 0 - 0
    BY <2>1, Between
  <2>3. SubSeq(<<>>, 1, 0) = <<>>
    BY <2>2, EmptySeq
  <2> QED BY <1>1, <2>3
<1>4. Stream!Now = Stream!Handle(Stream!First, SubSeq(body, 1, read.ends))
  BY <1>2, <1>3, HandleNone
<1>5. AccInv(Stream!Now)
  BY <1>2, FirstHolds
<1>6. out \in Seq(Chunks) /\ Stream!CallsAreWhole(out)
  BY <1>1 DEF Stream!CallsAreWhole
<1>7. /\ body \in Seq(Stream!Lines) /\ ends \in Nat /\ ends <= Len(body)
      /\ read \in [lines : Nat, ends : Nat]
      /\ read.ends <= read.lines /\ read.lines <= Len(body) /\ read.ends <= ends
      /\ buffer \in Seq(Stream!Lines)
  BY <1>1
<1>8. pending \in [1 .. LastCall -> Calls] /\ closed \in {"no", "yes", "broken"}
  BY <1>1, FirstHolds DEF AccInv
<1> QED BY <1>1, <1>3, <1>4, <1>5, <1>6, <1>7, <1>8, Zenon DEF StreamInv

\* What the reader makes of a line or of several keeps the invariant.
LEMMA BecomesHolds ==
  ASSUME NEW acc, AccInv(acc), Stream!Becomes(acc),
         UNCHANGED <<body, ends, closed>>, StreamInv,
         read' \in [lines : Nat, ends : Nat],
         read'.ends <= read'.lines, read'.lines <= Len(body), read'.ends <= ends,
         buffer' \in Seq(Stream!Lines),
         acc.state = "reading" =>
           /\ buffer' = SubSeq(body, read'.ends + 1, read'.lines)
           /\ acc = Stream!Handle(Stream!First, SubSeq(body, 1, read'.ends))
  PROVE  StreamInv'
<1>1. pending' = acc.pending /\ out' = acc.out /\ state' = acc.state
  BY DEF Stream!Becomes
<1>2. Stream!Now' = acc
  <2>1. acc = [pending |-> acc.pending, out |-> acc.out, state |-> acc.state]
    BY DEF AccInv
  <2>2. Stream!Now' = [pending |-> pending', out |-> out', state |-> state']
    BY DEF Stream!Now
  <2> QED BY <1>1, <2>1, <2>2, Zenon
<1>3. /\ out' \in Seq(Chunks) /\ state' \in {"reading", "returned"}
      /\ pending' \in [1 .. LastCall -> Calls]
      /\ state' = "returned" => Stream!CallsAreSettled(out')
  BY <1>1, Zenon DEF AccInv
<1>4. Stream!CallsAreWhole(out')
  <2>1. acc.out \in Seq(Chunks) /\ \A k \in 1 .. Len(acc.out) : WholeAt(acc.out, k)
    BY DEF AccInv
  <2>2. Stream!CallsAreWhole(acc.out)
    BY <2>1, WholeEverywhere
  <2> QED BY <1>1, <2>2, Zenon
<1>5. /\ body' \in Seq(Stream!Lines) /\ ends' \in Nat /\ ends' <= Len(body')
      /\ closed' \in {"no", "yes", "broken"}
      /\ read'.lines <= Len(body') /\ read'.ends <= ends'
  BY DEF StreamInv
<1>6. state' = "reading" =>
        /\ AccInv(Stream!Now')
        /\ buffer' = SubSeq(body', read'.ends + 1, read'.lines)
        /\ Stream!Now' = Stream!Handle(Stream!First, SubSeq(body', 1, read'.ends))
  BY <1>1, <1>2, Zenon
<1>7. Stream!First' = Stream!First
  BY DEF Stream!First
<1>8. state' = "reading" => Stream!Now' = Stream!Handle(Stream!First', SubSeq(body', 1, read'.ends))
  BY <1>6, <1>7, Zenon
<1> QED BY <1>3, <1>4, <1>5, <1>6, <1>8, Zenon DEF StreamInv

\* Lines that arrive are not read yet.
LEMMA ArriveHolds ==
  ASSUME StreamInv, UNCHANGED <<read, buffer, pending, out, state>>,
         closed' \in {"no", "yes", "broken"},
         body' \in Seq(Stream!Lines), ends' \in Nat, ends <= ends', ends' <= Len(body'),
         Len(body) <= Len(body'), \A k \in 1 .. Len(body) : body'[k] = body[k]
  PROVE  StreamInv'
<1>1. /\ body \in Seq(Stream!Lines) /\ ends \in Nat /\ ends <= Len(body)
      /\ read.lines \in Nat /\ read.ends \in Nat
      /\ read.ends <= read.lines /\ read.lines <= Len(body) /\ read.ends <= ends
      /\ Len(body) \in Nat /\ Len(body') \in Nat
  BY DEF StreamInv
<1>2. ASSUME NEW a \in Nat, NEW b \in Nat, a <= b, b <= Len(body)
      PROVE  SubSeq(body', a + 1, b) = SubSeq(body, a + 1, b)
  <2> DEFINE s == SubSeq(body', a + 1, b)
             t == SubSeq(body, a + 1, b)
  <2>1. /\ t \in Seq(Stream!Lines) /\ Len(t) = b - a
        /\ \A k \in 1 .. b - a : t[k] = body[a + k]
    BY <1>1, <1>2, Between
  <2>2. PICK new \in Seq(Stream!Lines) : new = body'
    OBVIOUS
  <2>3. /\ SubSeq(new, a + 1, b) \in Seq(Stream!Lines) /\ Len(SubSeq(new, a + 1, b)) = b - a
        /\ \A k \in 1 .. b - a : SubSeq(new, a + 1, b)[k] = new[a + k]
    BY <1>1, <1>2, <2>2, Between
  <2>4. /\ s \in Seq(Stream!Lines) /\ Len(s) = b - a
        /\ \A k \in 1 .. b - a : s[k] = body'[a + k]
    BY <2>2, <2>3
  <2> HIDE DEF s, t
  <2>5. \A k \in 1 .. b - a : a + k \in 1 .. Len(body)
    BY <1>1, <1>2
  <2>6. \A k \in 1 .. Len(s) : s[k] = t[k]
    BY <2>1, <2>4, <2>5
  <2>7. s = t
    BY <2>1, <2>4, <2>6, SeqEqual
  <2> QED BY <2>7 DEF s, t
<1>3. /\ SubSeq(body', read.ends + 1, read.lines) = SubSeq(body, read.ends + 1, read.lines)
      /\ SubSeq(body', 1, read.ends) = SubSeq(body, 1, read.ends)
  <2>1. SubSeq(body', read.ends + 1, read.lines) = SubSeq(body, read.ends + 1, read.lines)
    BY <1>1, <1>2
  <2>2. 0 \in Nat /\ 0 <= read.ends /\ read.ends <= Len(body) /\ 0 + 1 = 1
    BY <1>1
  <2>3. SubSeq(body', 0 + 1, read.ends) = SubSeq(body, 0 + 1, read.ends)
    BY <1>1, <1>2, <2>2
  <2> QED BY <2>1, <2>2, <2>3
<1>4. Stream!Now' = Stream!Now /\ Stream!First' = Stream!First
  BY DEF Stream!Now, Stream!First
<1>5. read.lines <= Len(body') /\ read.ends <= ends'
  BY <1>1
<1>6. /\ read'.lines = read.lines /\ read'.ends = read.ends /\ buffer' = buffer
      /\ out' = out /\ state' = state
  OBVIOUS
<1>7. state = "reading" =>
        /\ AccInv(Stream!Now')
        /\ buffer = SubSeq(body', read.ends + 1, read.lines)
        /\ Stream!Now' = Stream!Handle(Stream!First', SubSeq(body', 1, read.ends))
  BY <1>3, <1>4, Zenon DEF StreamInv
<1>8. /\ read' \in [lines : Nat, ends : Nat] /\ read'.ends <= read'.lines
      /\ read'.lines <= Len(body') /\ read'.ends <= ends'
      /\ pending' \in [1 .. LastCall -> Calls]
  BY <1>1, <1>5, <1>6 DEF StreamInv
<1>9. /\ buffer' \in Seq(Stream!Lines) /\ state' \in {"reading", "returned"}
      /\ out' \in Seq(Chunks) /\ Stream!CallsAreWhole(out')
      /\ state' = "returned" => Stream!CallsAreSettled(out')
  BY <1>6, Zenon DEF StreamInv
<1>10. state' = "reading" =>
         /\ AccInv(Stream!Now')
         /\ buffer' = SubSeq(body', read'.ends + 1, read'.lines)
         /\ Stream!Now' = Stream!Handle(Stream!First', SubSeq(body', 1, read'.ends))
  BY <1>6, <1>7, Zenon
<1> QED BY <1>8, <1>9, <1>10, Zenon DEF StreamInv

LEMMA SendHolds ==
  ASSUME StreamInv, NEW line \in Stream!Lines, Stream!Send(line)
  PROVE  StreamInv'
<1>1. body \in Seq(Stream!Lines) /\ ends \in Nat /\ ends <= Len(body)
      /\ closed \in {"no", "yes", "broken"}
  BY DEF StreamInv
<1>2. body' = Append(body, line) /\ UNCHANGED <<ends, closed, read, buffer, pending, out, state>>
  BY DEF Stream!Send
<1>3. body' \in Seq(Stream!Lines) /\ Len(body') = Len(body) + 1
      /\ \A k \in 1 .. Len(body) : body'[k] = body[k]
  BY <1>1, <1>2
<1>4. ends <= ends' /\ ends' <= Len(body') /\ ends' \in Nat /\ Len(body) <= Len(body')
  BY <1>1, <1>2, <1>3
<1> QED BY <1>1, <1>2, <1>3, <1>4, ArriveHolds

LEMMA SendEndHolds ==
  ASSUME StreamInv, Stream!SendEnd
  PROVE  StreamInv'
<1>1. body \in Seq(Stream!Lines) /\ ends \in Nat /\ ends <= Len(body) /\ Len(body) \in Nat
      /\ closed \in {"no", "yes", "broken"}
  BY DEF StreamInv
<1>2. ends' = Len(body) /\ UNCHANGED <<body, closed, read, buffer, pending, out, state>>
  BY DEF Stream!SendEnd
<1>3. ends <= ends' /\ ends' <= Len(body') /\ ends' \in Nat /\ Len(body) <= Len(body')
      /\ \A k \in 1 .. Len(body) : body'[k] = body[k]
  BY <1>1, <1>2
<1> QED BY <1>1, <1>2, <1>3, ArriveHolds

LEMMA CloseHolds ==
  ASSUME StreamInv, NEW how \in {"yes", "broken"}, Stream!Close(how)
  PROVE  StreamInv'
<1>1. body \in Seq(Stream!Lines) /\ ends \in Nat /\ ends <= Len(body) /\ Len(body) \in Nat
  BY DEF StreamInv
<1>2. closed' = how /\ UNCHANGED <<body, ends, read, buffer, pending, out, state>>
  BY DEF Stream!Close
<1>3. ends <= ends' /\ ends' <= Len(body') /\ ends' \in Nat /\ Len(body) <= Len(body')
      /\ closed' \in {"no", "yes", "broken"} /\ \A k \in 1 .. Len(body) : body'[k] = body[k]
  BY <1>1, <1>2
<1> QED BY <1>1, <1>2, <1>3, ArriveHolds

LEMMA StreamUnchangedHolds ==
  ASSUME StreamInv, UNCHANGED streamVars
  PROVE  StreamInv'
<1>1. UNCHANGED <<body, ends, closed, read, buffer, pending, out, state>>
  BY DEF streamVars
<1>2. body \in Seq(Stream!Lines) /\ ends \in Nat /\ ends <= Len(body) /\ Len(body) \in Nat
      /\ closed \in {"no", "yes", "broken"}
  BY DEF StreamInv
<1>3. ends <= ends' /\ ends' <= Len(body') /\ ends' \in Nat /\ Len(body) <= Len(body')
      /\ closed' \in {"no", "yes", "broken"} /\ \A k \in 1 .. Len(body) : body'[k] = body[k]
  BY <1>1, <1>2
<1> QED BY <1>1, <1>2, <1>3, ArriveHolds

LEMMA ReadHolds ==
  ASSUME StreamInv, Stream!Read
  PROVE  StreamInv'
<1>1. /\ body \in Seq(Stream!Lines) /\ ends \in Nat /\ ends <= Len(body)
      /\ read.lines \in Nat /\ read.ends \in Nat
      /\ read.ends <= read.lines /\ read.lines <= Len(body) /\ read.ends <= ends
      /\ Len(body) \in Nat
  BY DEF StreamInv
<1>2. state = "reading" /\ UNCHANGED <<body, ends, closed>>
      /\ read' = [lines |-> Len(body), ends |-> ends]
  BY DEF Stream!Read, Stream!Sent
<1>3. /\ AccInv(Stream!Now) /\ buffer = SubSeq(body, read.ends + 1, read.lines)
      /\ Stream!Now = Stream!Handle(Stream!First, SubSeq(body, 1, read.ends))
  BY <1>2, Zenon DEF StreamInv
<1> DEFINE more == SubSeq(body, read.lines + 1, Len(body))
           text == buffer \o more
           whole == ends - read.ends
           now == SubSeq(text, 1, whole)
           acc == Stream!Handle(Stream!Now, now)
<1>4. buffer' = SubSeq(text, whole + 1, Len(text)) /\ Stream!Becomes(acc)
  BY Zenon DEF Stream!Read
<1>5. /\ buffer \in Seq(Stream!Lines) /\ Len(buffer) = read.lines - read.ends
      /\ \A k \in 1 .. read.lines - read.ends : buffer[k] = body[read.ends + k]
  <2>1. LET s == SubSeq(body, read.ends + 1, read.lines) IN
        /\ s \in Seq(Stream!Lines) /\ Len(s) = read.lines - read.ends
        /\ \A k \in 1 .. read.lines - read.ends : s[k] = body[read.ends + k]
    <3>1. PICK a, b \in Nat : a = read.ends /\ b = read.lines
      BY <1>1
    <3>2. a <= b /\ b <= Len(body) /\ body \in Seq(Stream!Lines)
      BY <1>1, <3>1
    <3>3. /\ SubSeq(body, a + 1, b) \in Seq(Stream!Lines) /\ Len(SubSeq(body, a + 1, b)) = b - a
          /\ \A k \in 1 .. b - a : SubSeq(body, a + 1, b)[k] = body[a + k]
      BY <3>2, Between
    <3> QED BY <3>1, <3>3, Zenon
  <2>2. buffer = SubSeq(body, read.ends + 1, read.lines)
    BY <1>3
  <2> QED BY <2>1, <2>2, Zenon
<1>6. /\ more \in Seq(Stream!Lines) /\ Len(more) = Len(body) - read.lines
      /\ \A k \in 1 .. Len(body) - read.lines : more[k] = body[read.lines + k]
  <2>1. Len(body) <= Len(body)
    BY <1>1
  <2> QED BY <1>1, <2>1, Between
<1> HIDE DEF more
<1>7. /\ text \in Seq(Stream!Lines) /\ Len(text) = Len(body) - read.ends
      /\ \A k \in 1 .. Len(body) - read.ends : text[k] = body[read.ends + k]
  <2>1. /\ text \in Seq(Stream!Lines) /\ Len(text) = Len(buffer) + Len(more)
        /\ \A k \in 1 .. Len(buffer) + Len(more) :
             text[k] = IF k <= Len(buffer) THEN buffer[k] ELSE more[k - Len(buffer)]
    <3>1. buffer \in Seq(Stream!Lines) /\ more \in Seq(Stream!Lines)
      BY <1>5, <1>6
    <3> QED BY <3>1, ConcatProperties, Zenon
  <2> HIDE DEF text
  <2>2. Len(text) = Len(body) - read.ends
    BY <1>1, <1>5, <1>6, <2>1
  <2>3. ASSUME NEW k \in 1 .. Len(body) - read.ends PROVE text[k] = body[read.ends + k]
    <3>1. k \in 1 .. Len(buffer) + Len(more)
      BY <1>1, <1>5, <1>6
    <3>2. CASE k <= Len(buffer)
      <4>1. k \in 1 .. read.lines - read.ends
        BY <1>1, <1>5, <3>2
      <4> QED BY <1>5, <2>1, <3>1, <3>2, <4>1
    <3>3. CASE ~(k <= Len(buffer))
      <4>1. PICK l : l = k - Len(buffer)
        OBVIOUS
      <4>2. l \in 1 .. Len(body) - read.lines /\ read.lines + l = read.ends + k
        <5>1. Len(buffer) = read.lines - read.ends /\ read.lines \in Nat /\ read.ends \in Nat
              /\ Len(body) \in Nat /\ read.lines <= Len(body) /\ read.ends <= read.lines
          BY <1>1, <1>5
        <5> QED BY <3>3, <4>1, <5>1
      <4> QED BY <1>6, <2>1, <3>1, <3>3, <4>1, <4>2
    <3> QED BY <3>2, <3>3
  <2> QED BY <2>1, <2>2, <2>3
<1> HIDE DEF text
<1>8. whole \in Nat /\ whole <= Len(text) /\ Len(text) \in Nat /\ read.ends + whole = ends
  BY <1>1, <1>7
<1> HIDE DEF whole
<1>9. /\ now \in Seq(Stream!Lines) /\ Len(now) = whole
      /\ \A k \in 1 .. whole : now[k] = body[read.ends + k]
  <2>1. 0 \in Nat /\ 0 <= whole /\ 0 + 1 = 1 /\ whole - 0 = whole
        /\ \A k \in 1 .. whole : 0 + k = k /\ k \in 1 .. Len(body) - read.ends
    BY <1>7, <1>8
  <2>2. /\ SubSeq(text, 0 + 1, whole) \in Seq(Stream!Lines)
        /\ Len(SubSeq(text, 0 + 1, whole)) = whole - 0
        /\ \A k \in 1 .. whole - 0 : SubSeq(text, 0 + 1, whole)[k] = text[0 + k]
    BY <1>7, <1>8, <2>1, Between
  <2>3. /\ now \in Seq(Stream!Lines) /\ Len(now) = whole
        /\ \A k \in 1 .. whole : now[k] = text[0 + k]
    BY <2>1, <2>2
  <2> HIDE DEF now
  <2> QED BY <1>7, <2>1, <2>3
<1> HIDE DEF now
<1>10. buffer' = SubSeq(body, ends + 1, Len(body))
  <2> DEFINE s == SubSeq(text, whole + 1, Len(text))
             t == SubSeq(body, ends + 1, Len(body))
  <2>1. /\ s \in Seq(Stream!Lines) /\ Len(s) = Len(text) - whole
        /\ \A k \in 1 .. Len(text) - whole : s[k] = text[whole + k]
    <3>1. Len(text) <= Len(text)
      BY <1>8
    <3> QED BY <1>7, <1>8, <3>1, Between
  <2>2. /\ t \in Seq(Stream!Lines) /\ Len(t) = Len(body) - ends
        /\ \A k \in 1 .. Len(body) - ends : t[k] = body[ends + k]
    <3>1. Len(body) <= Len(body)
      BY <1>1
    <3> QED BY <1>1, <3>1, Between
  <2>3. s = buffer'
    BY <1>4
  <2> HIDE DEF s, t
  <2>4. Len(s) = Len(t)
    <3>1. /\ Len(s) = Len(text) - whole /\ Len(t) = Len(body) - ends
          /\ Len(text) = Len(body) - read.ends /\ read.ends + whole = ends
      BY <1>7, <1>8, <2>1, <2>2
    <3>2. whole \in Nat /\ read.ends \in Nat /\ Len(body) \in Nat
      BY <1>1, <1>8
    <3> QED BY <3>1, <3>2
  <2>5. ASSUME NEW k \in 1 .. Len(s) PROVE s[k] = t[k]
    <3>1. PICK l : l = whole + k
      OBVIOUS
    <3>2. /\ k \in 1 .. Len(text) - whole /\ k \in 1 .. Len(body) - ends
          /\ l \in 1 .. Len(body) - read.ends /\ read.ends + l = ends + k
      <4>1. /\ Len(s) = Len(text) - whole /\ Len(text) = Len(body) - read.ends
            /\ read.ends + whole = ends
        BY <1>7, <1>8, <2>1
      <4>2. whole \in Nat /\ read.ends \in Nat /\ Len(body) \in Nat /\ ends \in Nat
        BY <1>1, <1>8
      <4>3. Len(s) = Len(body) - ends /\ k \in 1 .. Len(body) - ends
        <5>1. Len(s) = Len(body) - ends
          BY <2>2, <2>4
        <5> QED BY <5>1
      <4>4. k \in 1 .. Len(text) - whole
        <5>1. Len(s) = Len(text) - whole
          BY <4>1
        <5> QED BY <5>1
      <4>5. k \in Nat /\ 1 <= k /\ k <= Len(body) - ends
        BY <4>2, <4>3
      <4>6. l \in Nat /\ 1 <= l
        BY <3>1, <4>2, <4>5
      <4>7. read.ends + l = ends + k
        <5>1. PICK a, w, e \in Nat : a = read.ends /\ w = whole /\ e = ends
          BY <4>2
        <5>2. a + w = e
          BY <4>1, <5>1
        <5>3. a + (w + k) = e + k
          BY <4>5, <5>2
        <5> QED BY <3>1, <5>1, <5>3
      <4>8. l <= Len(body) - read.ends
        BY <4>2, <4>5, <4>6, <4>7
      <4>9. l \in 1 .. Len(body) - read.ends
        BY <4>2, <4>6, <4>8
      <4> QED BY <4>3, <4>4, <4>7, <4>9
    <3>3. s[k] = text[l] /\ text[l] = body[read.ends + l] /\ t[k] = body[ends + k]
      BY <1>7, <2>1, <2>2, <3>1, <3>2
    <3> QED BY <3>2, <3>3
  <2>6. s = t
    BY <2>1, <2>2, <2>4, <2>5, SeqEqual
  <2> QED BY <2>3, <2>6 DEF t
<1>11. acc = Stream!Handle(Stream!First, SubSeq(body, 1, ends))
  <2> DEFINE first == SubSeq(body, 1, read.ends)
             lines == SubSeq(body, 1, ends)
  <2>1. /\ first \in Seq(Stream!Lines) /\ Len(first) = read.ends
        /\ \A k \in 1 .. read.ends : first[k] = body[k]
    <3>1. 0 \in Nat /\ 0 <= read.ends /\ 0 + 1 = 1 /\ read.ends - 0 = read.ends
          /\ read.ends <= Len(body) /\ \A k \in 1 .. read.ends : 0 + k = k
      BY <1>1
    <3>2. /\ SubSeq(body, 0 + 1, read.ends) \in Seq(Stream!Lines)
          /\ Len(SubSeq(body, 0 + 1, read.ends)) = read.ends - 0
          /\ \A k \in 1 .. read.ends - 0 : SubSeq(body, 0 + 1, read.ends)[k] = body[0 + k]
      BY <1>1, <3>1, Between
    <3> QED BY <3>1, <3>2
  <2>2. /\ lines \in Seq(Stream!Lines) /\ Len(lines) = ends
        /\ \A k \in 1 .. ends : lines[k] = body[k]
    <3>1. 0 \in Nat /\ 0 <= ends /\ 0 + 1 = 1 /\ ends - 0 = ends
          /\ ends <= Len(body) /\ \A k \in 1 .. ends : 0 + k = k
      BY <1>1
    <3>2. /\ SubSeq(body, 0 + 1, ends) \in Seq(Stream!Lines)
          /\ Len(SubSeq(body, 0 + 1, ends)) = ends - 0
          /\ \A k \in 1 .. ends - 0 : SubSeq(body, 0 + 1, ends)[k] = body[0 + k]
      BY <1>1, <3>1, Between
    <3> QED BY <3>1, <3>2
  <2>3. Stream!Now = Stream!Handle(Stream!First, first)
    BY <1>3
  <2> HIDE DEF first, lines
  <2>4. Len(lines) = Len(first) + Len(now)
    BY <1>8, <1>9, <2>1, <2>2
  <2>5. \A k \in 1 .. Len(first) : first[k] = lines[k]
    BY <1>1, <2>1, <2>2
  <2>6. \A k \in 1 .. Len(now) : now[k] = lines[Len(first) + k]
    <3>1. ASSUME NEW k \in 1 .. Len(now) PROVE now[k] = lines[Len(first) + k]
      <4>1. PICK l : l = read.ends + k
        OBVIOUS
      <4>2. l \in 1 .. ends
        BY <1>1, <1>8, <1>9, <4>1
      <4> QED BY <1>9, <2>1, <2>2, <4>1, <4>2
    <3> QED BY <3>1
  <2>7. Stream!Handle(Stream!Handle(Stream!First, first), now) = Stream!Handle(Stream!First, lines)
    BY <1>9, <2>1, <2>2, <2>4, <2>5, <2>6, HandleInTwo
  <2> QED BY <2>3, <2>7 DEF lines
<1>12. AccInv(acc)
  BY <1>3, <1>9, HandleKeeps
<1> HIDE DEF acc
<1>13. read'.lines = Len(body) /\ read'.ends = ends
  BY <1>2
<1>14. buffer' \in Seq(Stream!Lines)
  <2>1. Len(body) <= Len(body)
    BY <1>1
  <2> QED BY <1>1, <1>10, <2>1, Between
<1>15. /\ read' \in [lines : Nat, ends : Nat]
       /\ read'.ends <= read'.lines /\ read'.lines <= Len(body) /\ read'.ends <= ends
  BY <1>1, <1>2, <1>13
<1>16. /\ buffer' = SubSeq(body, read'.ends + 1, read'.lines)
       /\ acc = Stream!Handle(Stream!First, SubSeq(body, 1, read'.ends))
  BY <1>10, <1>11, <1>13
<1> QED BY <1>2, <1>4, <1>12, <1>14, <1>15, <1>16, BecomesHolds

LEMMA ReadEndHolds ==
  ASSUME StreamInv, Stream!ReadEnd
  PROVE  StreamInv'
<1>1. state = "reading" /\ buffer' = <<>> /\ UNCHANGED <<body, ends, closed, read>>
  BY DEF Stream!ReadEnd
<1> DEFINE trailing == IF buffer = <<Stream!Other("done")>> THEN <<>> ELSE buffer
           some == Stream!Handle(Stream!Now, trailing)
           all == Stream!CompletePendingCalls(some)
           acc == [all EXCEPT !.state = "returned"]
<1>2. Stream!Becomes(acc)
  BY Zenon DEF Stream!ReadEnd
<1>3. trailing \in Seq(Stream!Lines)
  <2>1. buffer \in Seq(Stream!Lines) /\ <<>> \in Seq(Stream!Lines)
    BY DEF StreamInv
  <2> QED BY <2>1, Zenon
<1>4. AccInv(Stream!Now)
  BY <1>1, Zenon DEF StreamInv
<1> HIDE DEF trailing
<1>5. AccInv(some)
  BY <1>3, <1>4, HandleKeeps
<1> HIDE DEF some
<1>6. AccInv(all) /\ Stream!CallsAreSettled(all.out)
  BY <1>5, CompleteKeeps, Zenon
<1> HIDE DEF all
<1>7. AccInv(acc)
  BY <1>6, ReturnKeeps
<1>8. acc.state # "reading"
  <2>1. all = [pending |-> all.pending, out |-> all.out, state |-> all.state]
    BY <1>6 DEF AccInv
  <2>2. acc.state = "returned"
    BY <2>1
  <2> QED BY <2>2
<1> HIDE DEF acc
<1>9. /\ read' \in [lines : Nat, ends : Nat] /\ buffer' \in Seq(Stream!Lines)
      /\ read'.ends <= read'.lines /\ read'.lines <= Len(body) /\ read'.ends <= ends
  BY <1>1 DEF StreamInv
<1> QED BY <1>1, <1>2, <1>7, <1>8, <1>9, BecomesHolds

LEMMA ReadFailsHolds ==
  ASSUME StreamInv, Stream!ReadFails
  PROVE  StreamInv'
<1>1. /\ out' = Append(out, Stream!Chunk("error")) /\ state' = "returned"
      /\ UNCHANGED <<body, ends, closed, read, buffer, pending>>
  BY DEF Stream!ReadFails
<1>2. out \in Seq(Chunks) /\ Stream!CallsAreWhole(out)
  BY DEF StreamInv
<1> DEFINE d == Append(out, Stream!Chunk("error"))
<1>3. d \in Seq(Chunks) /\ Prefix(out, d) /\ Len(d) = Len(out) + 1 /\ Len(out) \in Nat
      /\ d[Len(out) + 1].kind = "error"
  <2>1. Stream!Chunk("error") \in Chunks /\ Stream!Chunk("error").kind = "error"
    BY DEF Chunks, Stream!Chunk
  <2> QED BY <1>2, <2>1 DEF Prefix
<1>4. out' = d
  BY <1>1
<1> HIDE DEF d
<1>5. \A k \in 1 .. Len(d) : k = Len(out) + 1 \/ k \in 1 .. Len(out)
  BY <1>3
<1>6. Stream!CallsAreWhole(d)
  <2>1. ASSUME NEW k \in 1 .. Len(d) PROVE WholeAt(d, k)
    <3>1. CASE k \in 1 .. Len(out)
      BY <1>2, <1>3, <3>1, WholeEverywhere, WholeStays
    <3>2. CASE k = Len(out) + 1
      <4>1. d[k].kind = "error"
        BY <1>3, <3>2
      <4> QED BY <4>1 DEF WholeAt
    <3> QED BY <1>5, <3>1, <3>2
  <2> QED BY <1>3, <2>1, WholeEverywhere
<1>7. Stream!CallsAreSettled(d)
  <2>1. ASSUME NEW k \in DOMAIN d, d[k].kind = "tool_call_delta"
        PROVE  \E j \in DOMAIN d : j > k /\ d[j].kind = "error"
    <3>1. k \in 1 .. Len(d) /\ k # Len(out) + 1 /\ DOMAIN d = 1 .. Len(d)
      BY <1>3, <2>1
    <3>2. Len(out) + 1 \in DOMAIN d /\ Len(out) + 1 > k
      BY <1>3, <1>5, <3>1
    <3> QED BY <1>3, <3>2
  <2> QED BY <2>1 DEF Stream!CallsAreSettled
<1>8. /\ body' \in Seq(Stream!Lines) /\ ends' \in Nat /\ ends' <= Len(body')
      /\ closed' \in {"no", "yes", "broken"}
      /\ read' \in [lines : Nat, ends : Nat] /\ pending' \in [1 .. LastCall -> Calls]
      /\ read'.ends <= read'.lines /\ read'.lines <= Len(body') /\ read'.ends <= ends'
      /\ buffer' \in Seq(Stream!Lines)
  BY <1>1 DEF StreamInv
<1>9. state' \in {"reading", "returned"} /\ state' # "reading"
  BY <1>1
<1>10. out' \in Seq(Chunks) /\ Stream!CallsAreWhole(out') /\ Stream!CallsAreSettled(out')
  BY <1>3, <1>4, <1>6, <1>7, Zenon
<1> QED BY <1>8, <1>9, <1>10, Zenon DEF StreamInv

LEMMA StreamNextHolds ==
  ASSUME StreamInv, Stream!Next
  PROVE  StreamInv'
<1>1. CASE \E line \in Stream!Lines : Stream!Send(line)
  BY <1>1, SendHolds
<1>2. CASE \E how \in {"yes", "broken"} : Stream!Close(how)
  BY <1>2, CloseHolds
<1> QED BY <1>1, <1>2, SendEndHolds, ReadHolds, ReadEndHolds, ReadFailsHolds DEF Stream!Next

-----------------------------------------------------------------------------
(* The theorems. *)

\* What an apply or a rollback of a patch proposal reports is so, and a text newer
\* than the one it knew is not written over, for every number of files, operations,
\* edits by others and failures of the disk (packages/diff-engine/src).
THEOREM PatchesStayTrue == Spec => []PatchesTellTheTruth
<1> DEFINE Inv == part = "engine" => EngineInv
<1>1. Init => Inv
  BY EngineBegins DEF Init
<1>2. Inv /\ [Next]_vars => Inv'
  <2> SUFFICES ASSUME Inv, [Next]_vars PROVE Inv'
    OBVIOUS
  <2>1. CASE EngineStep
    BY <2>1, EngineNextKeeps DEF EngineStep
  <2>2. CASE UNCHANGED <<part, engineVars>>
    BY <2>2, EngineUnchangedKeeps
  <2>3. EngineStep \/ UNCHANGED <<part, engineVars>>
    BY DEF Next, ToolsStep, ReviewsStep, GraphsStep,
       RegistryStep, StreamStep, vars
  <2> QED BY <2>1, <2>2, <2>3
<1>3. Inv => PatchesTellTheTruth
  BY DEF EngineInv, EngineStands, PatchesTellTheTruth
<1> QED BY <1>1, <1>2, <1>3, PTL DEF Spec

\* Whatever two reviews find, and in whatever order, the verdict on them is earned:
\* partners are one to one and compatible, no two that could be partners are both left
\* over (reconcileWorkerResults, multi-agent-runtime/src/control-plane/supervisor.ts).
THEOREM VerdictStaysEarned == Spec => []VerdictIsEarned
<1> DEFINE Inv == part = "reviews" => ReviewsInv
<1>1. Init => Inv
  BY ReviewsBegin DEF Init
<1>2. Inv /\ [Next]_vars => Inv'
  <2> SUFFICES ASSUME Inv, [Next]_vars PROVE Inv'
    OBVIOUS
  <2>1. CASE ReviewsStep
    BY <2>1, ReviewsNextKeeps DEF ReviewsStep
  <2>2. CASE UNCHANGED <<part, reviewsVars>>
    BY <2>2, ReviewsUnchangedKeeps DEF reviewsVars
  <2>3. ReviewsStep \/ UNCHANGED <<part, reviewsVars>>
    BY DEF Next, EngineStep, ToolsStep, GraphsStep,
       RegistryStep, StreamStep, vars
  <2> QED BY <2>1, <2>2, <2>3
<1>3. Inv => VerdictIsEarned
  BY DEF ReviewsInv, VerdictIsEarned
<1> QED BY <1>1, <1>2, <1>3, PTL DEF Spec

\* A graph runs no node before what it depends on has completed, completes by having
\* completed every node, and archives what the nodes had come to unless it was cancelled
\* under its orchestrator, for every graph and however its nodes fail and are retried
\* (packages/execution-graph-runtime/src).
THEOREM GraphRunsStaySound == Spec => []GraphRunsAreSound
<1> DEFINE Inv == part = "graphs" => GraphInv
<1>1. Init => Inv
  BY GraphBegins DEF Init
<1>2. Inv /\ [Next]_vars => Inv'
  <2> SUFFICES ASSUME Inv, [Next]_vars PROVE Inv'
    OBVIOUS
  <2>1. CASE GraphsStep
    BY <2>1, GraphNextKeeps DEF GraphsStep
  <2>2. CASE UNCHANGED <<part, graphsVars>>
    BY <2>2, GraphUnchangedKeeps
  <2>3. GraphsStep \/ UNCHANGED <<part, graphsVars>>
    BY DEF Next, EngineStep, ToolsStep, ReviewsStep,
       RegistryStep, StreamStep, vars
  <2> QED BY <2>1, <2>2, <2>3
<1>3. Inv => GraphRunsAreSound
  BY GraphInvTells DEF GraphRunsAreSound
<1> QED BY <1>1, <1>2, <1>3, PTL DEF Spec

\* The view of the marketplace lists what the registry that answered last lists, each
\* entry in the version it gave last, and counts what that changed, for any number of
\* sources, entries and syncs, and whatever an answer repeats or gets wrong
\* (packages/marketplace-runtime/src/registry/sync.ts).
THEOREM ViewStaysTrue == Spec => []ViewListsTheAnswer
<1> DEFINE Inv == part = "registry" => RegistryInv
<1>1. Init => Inv
  BY RegistryBegins DEF Init
<1>2. Inv /\ [Next]_vars => Inv'
  <2> SUFFICES ASSUME Inv, [Next]_vars PROVE Inv'
    OBVIOUS
  <2>1. CASE RegistryStep
    BY <2>1, RegistryNextKeeps DEF RegistryStep
  <2>2. CASE UNCHANGED <<part, registryVars>>
    BY <2>2, RegistryUnchangedKeeps
  <2>3. RegistryStep \/ UNCHANGED <<part, registryVars>>
    BY DEF Next, EngineStep, ToolsStep, ReviewsStep, GraphsStep, StreamStep, vars
  <2> QED BY <2>1, <2>2, <2>3
<1>3. Inv => ViewListsTheAnswer
  BY DEF RegistryInv, ViewListsTheAnswer
<1> QED BY <1>1, <1>2, <1>3, PTL DEF Spec

\* What a search or a page shows the model of the project is there, in order and
\* within the limits, and one that does not say it is cut left nothing out, for any
\* number of files, lines and bytes and however the files change between two reads
\* (packages/agent-runtime/src/agent-loop/tools.ts).
THEOREM NothingStaysCutUntold == Spec => []NothingIsCutUntold
<1> DEFINE Inv == part = "tools" => ToolsInv
<1>1. Init => Inv
  BY ToolsBegin DEF Init
<1>2. Inv /\ [Next]_vars => Inv'
  <2> SUFFICES ASSUME Inv, [Next]_vars PROVE Inv'
    OBVIOUS
  <2>1. CASE ToolsStep
    BY <2>1, ToolsNextKeeps DEF ToolsStep
  <2>2. CASE UNCHANGED <<part, toolsVars>>
    BY <2>2, ToolsUnchangedKeeps
  <2>3. ToolsStep \/ UNCHANGED <<part, toolsVars>>
    BY DEF Next, EngineStep, ReviewsStep, GraphsStep, RegistryStep, StreamStep, vars
  <2> QED BY <2>1, <2>2, <2>3
<1>3. Inv => NothingIsCutUntold
  BY ToolsInvTells DEF NothingIsCutUntold
<1> QED BY <1>1, <1>2, <1>3, PTL DEF Spec

\* A consumer of a stream gets each tool call once, with a name and the whole of the
\* arguments it was shown parts of, or is told it is in error; nothing that was shown
\* stays open when the stream ends, and where the body is cut into pieces does not show,
\* for any number of calls and lines
\* (packages/provider-sdk/src/providers/base.ts).
THEOREM CallsStayWhole == Spec => []CallsComeWhole
<1> DEFINE Inv == part = "stream" => StreamInv
<1>1. Init => Inv
  BY StreamBegin DEF Init
<1>2. Inv /\ [Next]_vars => Inv'
  <2> SUFFICES ASSUME Inv, [Next]_vars PROVE Inv'
    OBVIOUS
  <2>1. CASE StreamStep
    BY <2>1, StreamNextHolds DEF StreamStep
  <2>2. CASE UNCHANGED <<part, streamVars>>
    BY <2>2, StreamUnchangedHolds
  <2>3. StreamStep \/ UNCHANGED <<part, streamVars>>
    BY DEF Next, EngineStep, ToolsStep, ReviewsStep, GraphsStep, RegistryStep, vars
  <2> QED BY <2>1, <2>2, <2>3
<1>3. Inv => CallsComeWhole
  BY StreamInvTells DEF CallsComeWhole
<1> QED BY <1>1, <1>2, <1>3, PTL DEF Spec

(* A search or a page tells what it leaves out, and two reviews agree or   *)
(* disagree for a reason.                                                  *)
THEOREM ReportsStayEarned == Spec => []ReportsAreEarned
BY NothingStaysCutUntold, VerdictStaysEarned, PTL DEF ReportsAreEarned

(* What a registry or a provider answers is taken whole.                   *)
THEOREM AnswersStayWhole == Spec => []AnswersComeWhole
BY ViewStaysTrue, CallsStayWhole, PTL DEF AnswersComeWhole
=============================================================================
