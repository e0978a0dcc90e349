------------------------ MODULE CodingPackSelection ------------------------
(***************************************************************************)
(* What goes into a coding pack (packages/coding-pack-runtime/src): the    *)
(* candidates are classified before anything is read, the plan says which  *)
(* of them to read, the reads are selected within the limits, and the      *)
(* result and its manifest carry identities computed from their content.   *)
(* A path is its rank in UTF-8 byte order; a digest is what it is computed *)
(* from, so two digests agree exactly when their contents do.              *)
(***************************************************************************)
EXTENDS Naturals, Sequences, SequencesExt, FiniteSets

CONSTANTS
    Paths,          \* ranks of the paths a candidate can have
    Class,          \* what classifyBeforeRead finds in the name of each path
    Fold,           \* each path without case and in normal form
    Reads,          \* what a candidate's file can hold: [size, utf8]
    MaxCandidates,  \* bound on the candidates
    MaxFiles, MaxFileBytes, MaxTotalBytes,  \* the reviewed rules
    MaxEligibleBytes                        \* and the cap on what is read for them

\* What the name alone excludes, whatever the marks of the candidate say.
HardClasses == {"hard_private_path", "vendor_directory", "generated_directory", "credential_like_name"}
Classes == HardClasses \cup {"binary_like_extension", "plain"}
Marks == SUBSET {"explicit_exclusion", "project_ignore"}

VARIABLES
    candidates,  \* the candidates handed in, in no particular order
    plan         \* the read plan on its way to the completion

vars == <<candidates, plan>>

Candidate == [path : Paths, marks : Marks, read : Reads]

Refused == [refused |-> TRUE]     \* a CodingPackManifestError

\* The elements of a set in the order of their paths, no two of which agree.
Sorted(set) ==
    CHOOSE s \in [1 .. Cardinality(set) -> set] : \A i, k \in DOMAIN s : i < k => s[i].path < s[k].path

\* assertNoPortablePathCollisions.
Collide(entries) ==
    \E i \in DOMAIN entries : \E k \in 1 .. i - 1 : Fold[entries[i].path] = Fold[entries[k].path]

-----------------------------------------------------------------------------
(* selection.ts: the plan. *)

\* The reason that excludes a candidate before it is read, "none" to read it.
ClassifyBeforeRead(path, marks) ==
    IF Class[path] \in HardClasses THEN Class[path]
    ELSE IF "explicit_exclusion" \in marks THEN "explicit_exclusion"
    ELSE IF "project_ignore" \in marks THEN "project_ignore"
    ELSE IF Class[path] = "plain" THEN "none"
    ELSE Class[path]

Entry(c) == [path |-> c.path, marks |-> c.marks, reason |-> ClassifyBeforeRead(c.path, c.marks)]

\* The candidates in canonical order, each with its disposition.
Entries(given) == Sorted({Entry(given[i]) : i \in DOMAIN given})

PathsOf(entries) == {entries[i].path : i \in DOMAIN entries}

\* The plan and the digest it is bound to.
Sealed(entries) == [entries |-> entries, seal |-> entries, pathsSeal |-> PathsOf(entries)]

Plan(given) == IF Collide(given) THEN Refused ELSE Sealed(Entries(given))

\* Mutant: what the plan says of an entry is believed.
EntriesBelieved(entries) ==
    /\ \A i \in 2 .. Len(entries) : entries[i - 1].path <= entries[i].path
    /\ ~Collide(entries)

\* validatePlanEntries: the classification is repeated, the order and the collisions
\* are checked again.
EntriesAreValid(entries) ==
    /\ \A i \in DOMAIN entries : entries[i].reason = ClassifyBeforeRead(entries[i].path, entries[i].marks)
    /\ \A i \in 2 .. Len(entries) : entries[i - 1].path <= entries[i].path
    /\ ~Collide(entries)

\* normalizeCodingPackReadPlan.
PlanIsValid(p) ==
    EntriesAreValid(p.entries) /\ p.pathsSeal = PathsOf(p.entries) /\ p.seal = p.entries

-----------------------------------------------------------------------------
(* selection.ts: the reads and the limits. *)

\* What excludes an entry in one of the two passes over them, "none" to keep it: what
\* the plan says, its own size and text, or what was kept before it.
Reason(pass, acc, e, reads) ==
    IF pass = "reads"
    THEN IF e.reason # "none" THEN e.reason
         ELSE IF reads[e.path].size > MaxFileBytes THEN "file_size_limit"
         ELSE IF ~reads[e.path].utf8 THEN "invalid_utf8"
         ELSE "none"
    ELSE IF Len(acc.kept) >= MaxFiles THEN "file_count_limit"
         ELSE IF acc.bytes + reads[e.path].size > MaxTotalBytes THEN "aggregate_size_limit"
         ELSE "none"

\* One entry in a pass. A file that does not fit is passed over and a later one may
\* still fit; what is not text was read all the same.
Judged(pass, acc, e, reads) ==
    LET reason == Reason(pass, acc, e, reads) IN
    [bytes |-> acc.bytes + IF reason \in {"none", "invalid_utf8"} THEN reads[e.path].size ELSE 0,
     excluded |-> acc.excluded \cup
                    IF reason = "none" THEN {} ELSE {[path |-> e.path, reason |-> reason]},
     kept |-> IF reason = "none" THEN Append(acc.kept, e) ELSE acc.kept]

Passed(pass, entries, reads, excluded) ==
    LET after[n \in 0 .. Len(entries)] ==
            IF n = 0 THEN [bytes |-> 0, excluded |-> excluded, kept |-> <<>>]
            ELSE Judged(pass, after[n - 1], entries[n], reads)
    IN after[Len(entries)]

\* computeCodingPackSourceIdentity: the fingerprint of what is in and what is out.
Identity(included, exclusions) == <<included, exclusions>>

Wanted(entries) == {i \in DOMAIN entries : entries[i].reason = "none"}

Included(kept, reads) == [i \in DOMAIN kept |-> [path |-> kept[i].path, digest |-> reads[kept[i].path]]]

\* completeSelection: exactly the planned files were read.
Complete(entries, reads) ==
    LET eligible == Passed("reads", entries, reads, {})
        accepted == Passed("limits", eligible.kept, reads, eligible.excluded)
        included == Included(accepted.kept, reads)
        exclusions == Sorted(accepted.excluded)
    IN IF DOMAIN reads # {entries[i].path : i \in Wanted(entries)}
          \/ eligible.bytes > MaxEligibleBytes THEN Refused
       ELSE [included |-> included, exclusions |-> exclusions,
             candidates |-> PathsOf(entries),
             identity |-> Identity(included, exclusions),
             totals |-> [candidates |-> Len(entries), included |-> Len(included),
                         excluded |-> Len(exclusions), bytes |-> accepted.bytes]]

\* What the project's files hold, for the entries that are read.
ReadsFor(entries, given) ==
    [p \in {entries[i].path : i \in Wanted(entries)} |->
       LET i == CHOOSE i \in DOMAIN given : given[i].path = p IN given[i].read]

\* selectCodingPackSources: both at once.
Selection(given) ==
    IF Collide(given) THEN Refused ELSE Complete(Entries(given), ReadsFor(Entries(given), given))

\* completeCodingPackSelectionFromReadPlan.
CompletePlan(p, given) ==
    IF ~PlanIsValid(p) THEN Refused ELSE Complete(p.entries, ReadsFor(p.entries, given))

-----------------------------------------------------------------------------
(* selection-result.ts, evidence.ts, manifest.ts. *)

InOrder(files) == \A i \in 2 .. Len(files) : files[i - 1].path < files[i].path

SizeOf(files) ==
    LET total[n \in 0 .. Len(files)] == IF n = 0 THEN 0 ELSE total[n - 1] + files[n].digest.size
    IN total[Len(files)]

\* validateCodingPackBounds.
WithinBounds(files) ==
    /\ Len(files) <= MaxFiles
    /\ \A i \in DOMAIN files : files[i].digest.size <= MaxFileBytes
    /\ SizeOf(files) <= MaxTotalBytes

\* The checks a list of sources and a list of exclusions pass together.
EvidenceIsValid(included, exclusions) ==
    /\ InOrder(included) /\ InOrder(exclusions)
    /\ PathsOf(included) \cap PathsOf(exclusions) = {}
    /\ WithinBounds(included)

\* normalizeCodingPackSelectionResult.
ResultIsValid(r) ==
    /\ EvidenceIsValid(r.included, r.exclusions)
    /\ ~Collide(r.included \o r.exclusions)
    /\ r.totals = [candidates |-> Len(r.included) + Len(r.exclusions),
                   included |-> Len(r.included), excluded |-> Len(r.exclusions),
                   bytes |-> SizeOf(r.included)]
    /\ r.candidates = PathsOf(r.included) \cup PathsOf(r.exclusions)
    /\ r.identity = Identity(r.included, r.exclusions)

\* createCodingPackManifestFromSelection: refused, or bound to the result's identity.
Manifest(r) ==
    IF ~ResultIsValid(r) THEN Refused
    ELSE [sources |-> r.included, exclusions |-> r.exclusions,
          identity |-> Identity(r.included, r.exclusions)]

\* verifyCodingPackManifest.
ManifestIsValid(m) ==
    EvidenceIsValid(m.sources, m.exclusions) /\ m.identity = Identity(m.sources, m.exclusions)

-----------------------------------------------------------------------------
(* The inputs: candidates come one by one, then a plan of theirs, which may be
   altered before it is completed. *)

Init == candidates = <<>> /\ plan = Refused

AddCandidate(c) ==
    /\ plan = Refused /\ Len(candidates) < MaxCandidates
    /\ candidates' = Append(candidates, c)
    /\ UNCHANGED plan

MakePlan ==
    /\ plan = Refused /\ candidates # <<>>
    /\ plan' = Plan(candidates)
    /\ UNCHANGED candidates

\* An entry of the plan is changed, dropped or moved; the digests are computed again
\* or left as they were.
AlterPlan ==
    /\ plan # Refused /\ plan.entries # <<>> /\ Len(candidates) < MaxCandidates
    /\ plan = Sealed(Entries(candidates))
    /\ \E changed \in
         {[plan.entries EXCEPT ![i].reason = r] :
            i \in DOMAIN plan.entries, r \in {"none", "project_ignore"}}
         \cup {[plan.entries EXCEPT ![i].marks = s] : i \in DOMAIN plan.entries, s \in Marks}
         \cup {Reverse(plan.entries), Tail(plan.entries)} :
         plan' \in {Sealed(changed), [plan EXCEPT !.entries = changed]}
    /\ UNCHANGED candidates

Next == (\E c \in Candidate : AddCandidate(c)) \/ MakePlan \/ AlterPlan

Spec == Init /\ [][Next]_vars

-----------------------------------------------------------------------------
(* Properties. *)

\* The same project gives the same pack: the selection does not depend on the order
\* in which the candidates were found, although its limits take them one by one.
SelectionIgnoresOrder == Selection(Reverse(candidates)) = Selection(candidates)

\* The runtime accepts what it produced: every selection passes its own verifier,
\* gives a manifest, and that manifest verifies.
SelectionsVerify ==
    LET r == Selection(candidates) IN
    r # Refused => ResultIsValid(r) /\ Manifest(r) # Refused /\ ManifestIsValid(Manifest(r))

\* A plan completes to what a selection of the candidates it lists would give, or not
\* at all: no alteration of a plan, with its digests computed again or not, gets a file
\* read or packed that the classification excludes.
PlansCannotWiden ==
    plan # Refused /\ PlanIsValid(plan) =>
      LET listed == [i \in DOMAIN plan.entries |->
                       [path |-> plan.entries[i].path, marks |-> plan.entries[i].marks,
                        read |-> LET k == CHOOSE k \in DOMAIN candidates :
                                            candidates[k].path = plan.entries[i].path
                                 IN candidates[k].read]]
      IN /\ CompletePlan(plan, candidates) = Selection(listed)
         /\ \A i \in DOMAIN plan.entries :
              plan.entries[i].reason = "none" => Class[plan.entries[i].path] = "plain"
=============================================================================
