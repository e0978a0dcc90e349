--------------------------- MODULE Reconciliation ---------------------------
(***************************************************************************)
(* What the control plane says of two workers' reviews: reconcileWorker-   *)
(* Results of packages/multi-agent-runtime/src/control-plane/supervisor.ts *)
(* matches the findings greedily, in the order of the first worker.  A     *)
(* finding is the files it cites and the words that tell it from others.   *)
(***************************************************************************)
EXTENDS Naturals, Sequences, FiniteSets

CONSTANTS
    Findings,       \* records [files, words] of sets
    MaxFindings     \* of one worker

VARIABLES
    worker,         \* [status, findings] of the first and the second worker
    result          \* [classification, pairs], or the result there is not yet

vars == <<worker, result>>

Sides == {1, 2}
NoResult == [classification |-> "none", pairs |-> {}]

TypeOK ==
    /\ worker \in [Sides -> [status : {"running", "completed", "failed"}, findings : Seq(Findings)]]
    /\ result.classification \in {"none", "UNRESOLVED", "DISAGREEMENT", "PARTIAL_AGREEMENT", "AGREEMENT"}

-----------------------------------------------------------------------------
(* findingSimilarity, a fraction. *)

Common(f, g) == Cardinality(f.words \cap g.words)
All(f, g) == Cardinality(f.words \cup g.words)

\* At least 0.3 of the words are common, and there are words.
Similar(f, g) == All(f, g) > 0 /\ 10 * Common(f, g) >= 3 * All(f, g)
MoreSimilar(f, g, h) == Common(f, g) * All(f, h) > Common(f, h) * All(f, g)

Compatible(f, g) == f.files \cap g.files # {} /\ Similar(f, g)

Left == worker[1].findings
Right == worker[2].findings

\* Mutant: a finding may be matched twice.
Unclaimed(pairs, k) == TRUE

Claimable(pairs, k) == \A p \in pairs : p[2] # k

\* The first of the most similar findings that are left for the i-th one.
Best(i, candidates) ==
    CHOOSE k \in candidates : \A other \in candidates :
      \/ MoreSimilar(Left[i], Right[k], Right[other])
      \/ ~MoreSimilar(Left[i], Right[other], Right[k]) /\ k <= other

Match(pairs, i) ==
    LET candidates == {k \in DOMAIN Right : Claimable(pairs, k) /\ Compatible(Left[i], Right[k])}
    IN IF candidates = {} THEN pairs ELSE pairs \cup {<<i, Best(i, candidates)>>}

\* The pairs once the first n findings of the first worker were taken up.
matched[n \in 0 .. Len(Left)] == IF n = 0 THEN {} ELSE Match(matched[n - 1], n)

MatchFindings == matched[Len(Left)]

FilesOf(side) == UNION {worker[side].findings[i].files : i \in DOMAIN worker[side].findings}

Classification(pairs) ==
    IF pairs = {} THEN "DISAGREEMENT"
    ELSE IF /\ Cardinality(pairs) = Len(Left) /\ Cardinality(pairs) = Len(Right)
            /\ FilesOf(1) = FilesOf(2)
         THEN "AGREEMENT" ELSE "PARTIAL_AGREEMENT"

-----------------------------------------------------------------------------
Find(side, f) ==
    /\ worker[side].status = "running" /\ Len(worker[side].findings) < MaxFindings
    /\ worker' = [worker EXCEPT ![side].findings = Append(@, f)]
    /\ UNCHANGED result

\* A worker that fails has no result.
Finish(side, status) ==
    /\ worker[side].status = "running"
    /\ worker' = [worker EXCEPT ![side].status = status,
                                ![side].findings = IF status = "failed" THEN <<>> ELSE @]
    /\ UNCHANGED result

Reconcile ==
    /\ \A side \in Sides : worker[side].status # "running"
    /\ result = NoResult
    /\ result' = IF \E side \in Sides : worker[side].status = "failed" \/ FilesOf(side) = {}
                 THEN [NoResult EXCEPT !.classification = "UNRESOLVED"]
                 ELSE [classification |-> Classification(MatchFindings), pairs |-> MatchFindings]
    /\ UNCHANGED worker

Init ==
    /\ worker = [side \in Sides |-> [status |-> "running", findings |-> <<>>]]
    /\ result = NoResult

Next ==
    \/ \E side \in Sides : \/ \E f \in Findings : Find(side, f)
                           \/ \E status \in {"completed", "failed"} : Finish(side, status)
    \/ Reconcile

Spec == Init /\ [][Next]_vars

-----------------------------------------------------------------------------
(* Properties. *)

\* The verdict is earned: findings are matched one to one and only when they cite a
\* common file and say similar things, and no two findings that could be matched are
\* both left over. The workers are said to disagree only if no finding of one could be
\* matched with any of the other, and to agree only if each finding has its partner and
\* both cite the same files; whoever comes first, the disagreement is the same.
VerdictIsEarned ==
    result.classification \notin {"none", "UNRESOLVED"} =>
      /\ \A p, q \in result.pairs : p # q => p[1] # q[1] /\ p[2] # q[2]
      /\ \A p \in result.pairs : Compatible(Left[p[1]], Right[p[2]])
      /\ \A i \in DOMAIN Left, k \in DOMAIN Right : Compatible(Left[i], Right[k]) =>
           \E p \in result.pairs : p[1] = i \/ p[2] = k
      /\ (result.classification = "DISAGREEMENT") =
           (\A i \in DOMAIN Left, k \in DOMAIN Right : ~Compatible(Left[i], Right[k]))
      /\ result.classification = "AGREEMENT" =>
           /\ \A i \in DOMAIN Left : \E p \in result.pairs : p[1] = i
           /\ \A k \in DOMAIN Right : \E p \in result.pairs : p[2] = k
           /\ FilesOf(1) = FilesOf(2)
=============================================================================
