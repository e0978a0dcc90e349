----------------------------- MODULE Documents -----------------------------
(***************************************************************************)
(* The parts that work through files, findings, nodes, entries or events   *)
(* one by one and then report on them, and need no other part to do so:    *)
(* one behaviour is of one of them. The question is the same of each:      *)
(* whether what is reported is what was done.                              *)
(***************************************************************************)
EXTENDS Naturals, FiniteSets

CONSTANTS
    Absent,
    PatchFiles, MaxPatches, MaxOps, MaxUpsets,            \* PatchEngine's
    LastFile, MaxLength, MaxScanned, MaxScannedBytes, MaxResults,
    MaxPage, MaxPageBytes, MaxEdits,                      \* AgentTools'
    ReviewFindings, MaxFindings,                          \* Reconciliation's
    LastNode, Unknown, MaxRetries, MaxReplays,            \* ExecutionGraph's
    RegistrySources, EntryIds, EntryVersions, MaxEntries, MaxSyncs,
    LastCall, MaxBodyLines                                \* ProviderStream's

ASSUME DocumentBoundsAreNat ==
    /\ MaxPatches \in Nat /\ MaxOps \in Nat /\ MaxUpsets \in Nat
    /\ LastFile \in Nat /\ LastNode \in Nat /\ MaxRetries \in Nat /\ MaxReplays \in Nat
    /\ MaxEntries \in Nat /\ MaxSyncs \in Nat
    /\ MaxLength \in Nat \ {0} /\ MaxScanned \in Nat /\ MaxScannedBytes \in Nat
    /\ MaxResults \in Nat /\ MaxPageBytes \in Nat /\ MaxEdits \in Nat
    /\ LastCall \in Nat

ASSUME WordsAreFinite == \A f \in ReviewFindings : IsFiniteSet(f.words)

VARIABLES
    part,    \* which of them this behaviour is of
    proposal, defect, content, applied, step, at, originals, failure, stuck, report,
    before, touched, lost, ops, upsets,
    texts, edits, search, seen, page,
    worker, result,
    dependencies, graph, status, retryCount, batch, orchestrator, events, archive,
    replays,
    sources, targets, syncing, cache, cacheBefore, answer, counts, syncs,
    body, ends, closed, read, buffer, pending, out, state

Engine == INSTANCE PatchEngine WITH
    Files <- PatchFiles, MaxLength <- MaxPatches

Tools == INSTANCE AgentTools WITH
    Files <- 1 .. LastFile, MaxFiles <- MaxScanned, MaxBytes <- MaxScannedBytes,
    content <- texts

Reviews == INSTANCE Reconciliation WITH
    Findings <- ReviewFindings

Graphs == INSTANCE ExecutionGraph WITH
    Nodes <- 1 .. LastNode

Registry == INSTANCE RegistrySync WITH
    Sources <- RegistrySources, Ids <- EntryIds, Versions <- EntryVersions,
    Missing <- Absent, before <- cacheBefore

Stream == INSTANCE ProviderStream WITH
    Indexes <- 1 .. LastCall, MaxLines <- MaxBodyLines

\* An entry that is not valid has no id, and no entry is none.
ASSUME EntriesAreTold == Registry!Invalid \notin EntryIds /\ Absent \notin Registry!Listed

engineVars ==
    <<proposal, defect, content, applied, step, at, originals, failure,
      stuck, report, before, touched, lost, ops, upsets>>
toolsVars == <<texts, edits, search, seen, page>>
reviewsVars == <<worker, result>>
graphsVars ==
    <<dependencies, graph, status, retryCount, batch, orchestrator,
      events, archive, replays>>
registryVars == <<sources, targets, syncing, cache, cacheBefore, answer, counts, syncs>>
streamVars == <<body, ends, closed, read, buffer, pending, out, state>>

vars == <<part, engineVars, toolsVars, reviewsVars, graphsVars, registryVars, streamVars>>

-----------------------------------------------------------------------------
(* A part that is not the behaviour's has no state. *)

NoEngine ==
    /\ proposal = 0 /\ defect = 0 /\ content = 0 /\ applied = 0
    /\ step = 0 /\ at = 0 /\ originals = 0 /\ failure = 0 /\ stuck = 0 /\ report = 0
    /\ before = 0 /\ touched = 0 /\ lost = 0 /\ ops = 0 /\ upsets = 0
NoTools ==
    /\ texts = 0 /\ edits = 0 /\ search = 0 /\ seen = 0 /\ page = 0
NoReviews == worker = 0 /\ result = 0
NoGraphs ==
    /\ dependencies = 0 /\ graph = 0 /\ status = 0 /\ retryCount = 0
    /\ batch = 0 /\ orchestrator = 0 /\ events = 0 /\ archive = 0 /\ replays = 0
NoRegistry ==
    /\ sources = 0 /\ targets = 0 /\ syncing = 0 /\ cache = 0
    /\ cacheBefore = 0 /\ answer = 0 /\ counts = 0 /\ syncs = 0

NoStream ==
    /\ body = 0 /\ ends = 0 /\ closed = 0 /\ read = 0 /\ buffer = 0
    /\ pending = 0 /\ out = 0 /\ state = 0

Init ==
    /\ part \in {"engine", "tools", "reviews", "graphs", "registry", "stream"}
    /\ IF part = "engine" THEN Engine!Init ELSE NoEngine
    /\ IF part = "tools" THEN Tools!Init ELSE NoTools
    /\ IF part = "reviews" THEN Reviews!Init ELSE NoReviews
    /\ IF part = "graphs" THEN Graphs!Init ELSE NoGraphs
    /\ IF part = "registry" THEN Registry!Init ELSE NoRegistry
    /\ IF part = "stream" THEN Stream!Init ELSE NoStream

EngineStep ==
    /\ part = "engine" /\ Engine!Next
    /\ UNCHANGED <<part, toolsVars, reviewsVars, graphsVars, registryVars, streamVars>>

ToolsStep ==
    /\ part = "tools" /\ Tools!Next
    /\ UNCHANGED <<part, engineVars, reviewsVars, graphsVars, registryVars, streamVars>>

ReviewsStep ==
    /\ part = "reviews" /\ Reviews!Next
    /\ UNCHANGED <<part, engineVars, toolsVars, graphsVars, registryVars, streamVars>>

GraphsStep ==
    /\ part = "graphs" /\ Graphs!Next
    /\ UNCHANGED <<part, engineVars, toolsVars, reviewsVars, registryVars, streamVars>>

RegistryStep ==
    /\ part = "registry" /\ Registry!Next
    /\ UNCHANGED <<part, engineVars, toolsVars, reviewsVars, graphsVars, streamVars>>

StreamStep ==
    /\ part = "stream" /\ Stream!Next
    /\ UNCHANGED <<part, engineVars, toolsVars, reviewsVars, graphsVars, registryVars>>

Next == EngineStep \/ ToolsStep \/ ReviewsStep \/ GraphsStep \/ RegistryStep \/ StreamStep

Spec == Init /\ [][Next]_vars

-----------------------------------------------------------------------------
(* Properties. *)

\* What an apply or a rollback reports of the project's files is so, and no text newer
\* than the one it knew is written over.
PatchesTellTheTruth ==
    part = "engine" => Engine!TypeOK /\ Engine!ResultsAreTrue /\ Engine!NewerTextSurvives

\* A search or a page that leaves something out says so.
NothingIsCutUntold == part = "tools" => Tools!TypeOK /\ Tools!TruncationIsTold

\* The view lists what the registry that answered last lists, and counts what changed.
ViewListsTheAnswer == part = "registry" => Registry!TypeOK /\ Registry!ListsTheAnswer

\* However a provider's answer is cut, its tool calls come whole, and once.
CallsComeWhole == part = "stream" => Stream!TypeOK /\ Stream!StreamsAreFaithful

\* Two reviews agree or disagree for a reason.
VerdictIsEarned == part = "reviews" => Reviews!TypeOK /\ Reviews!VerdictIsEarned

\* What a search or a page found, and what two reviews agree on, is all there was to say
\* or says that it is not.
ReportsAreEarned == NothingIsCutUntold /\ VerdictIsEarned

\* What a registry or a provider answers is taken whole: the view lists its entries, and
\* its tool calls are put together from all of their pieces.
AnswersComeWhole == ViewListsTheAnswer /\ CallsComeWhole

\* The execution graph's traversals list what they should.
TraversalsAreSound == part = "graphs" => Graphs!TraversalsAreSound

\* A graph runs no node before what it depends on, and completes by completing all.
GraphRunsAreSound == part = "graphs" => Graphs!TypeOK /\ Graphs!RunsAreSound
=============================================================================
