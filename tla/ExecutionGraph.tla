--------------------------- MODULE ExecutionGraph ---------------------------
(***************************************************************************)
(* The execution graph runtime (packages/execution-graph-runtime/src): a   *)
(* graph is validated when it is built, run by the orchestrator batch by   *)
(* batch, cancelled, archived and replayed; the traverser lists its nodes. *)
(***************************************************************************)
EXTENDS Integers, FiniteSets, Sequences, SequencesExt

CONSTANTS
    Nodes,          \* 1 .. n, in the order the graph was given
    Unknown,        \* a dependency that is no node of the graph
    MaxRetries,     \* of every node
    MaxReplays      \* bound on the replays

VARIABLES
    dependencies,   \* of each node
    graph,          \* the lifecycle status
    status,         \* of each node
    retryCount,
    batch,          \* the ready nodes the orchestrator still goes through
    orchestrator,   \* "idle", "loop", "node", "returned"
    events,         \* what the bus was told of the graph as a whole
    archive,        \* the statuses an archive holds, << >> before there is one
    replays         \* replayCount

vars == <<dependencies, graph, status, retryCount, batch, orchestrator, events, archive, replays>>

Legal ==
    [created |-> {"validated", "failed"}, validated |-> {"ready", "failed"},
     ready |-> {"running", "cancelled"}, running |-> {"completed", "failed", "cancelled"},
     completed |-> {"archived"}, failed |-> {"archived"}, cancelled |-> {"archived"}, archived |-> {}]

TypeOK ==
    /\ dependencies \in [Nodes -> SUBSET (Nodes \cup {Unknown})]
    /\ graph \in DOMAIN Legal
    /\ status \in [Nodes -> {"pending", "running", "completed", "failed", "blocked"}]
    /\ retryCount \in [Nodes -> 0 .. MaxRetries + 1]
    /\ batch \in Seq(Nodes) /\ orchestrator \in {"idle", "loop", "node", "returned"}
    /\ events \in Seq({"started", "completed", "failed", "cancelled", "archived"})
    /\ replays \in 0 .. MaxReplays

InOrder(set) ==
    CHOOSE s \in [1 .. Cardinality(set) -> set] : \A i, k \in DOMAIN s : i < k => s[i] < s[k]
Dependents(n) == InOrder({d \in Nodes : n \in dependencies[d]})

-----------------------------------------------------------------------------
(* Validation and traversal. *)

\* The nodes from which a node is reached over dependencies, one way or another.
Reaches ==
    FoldLeft(LAMBDA r, k : r \cup {p \in Nodes \X Nodes : <<p[1], k>> \in r /\ <<k, p[2]>> \in r},
             {p \in Nodes \X Nodes : p[2] \in dependencies[p[1]]}, InOrder(Nodes))

\* What a search has met: the nodes it is done with, and whether there is a cycle.
Found == [visited : SUBSET Nodes, cycle : BOOLEAN]

\* The depth-first search of validate, from one node, with the nodes on the path and
\* those done with; it returns those done with and whether it met the path again.
search[n \in Nodes, path \in SUBSET Nodes, found \in Found] ==
    IF n \in path THEN [found EXCEPT !.cycle = TRUE]
    ELSE IF n \in found.visited THEN found
    ELSE LET below == FoldLeft(LAMBDA acc, m : search[m, path \cup {n}, acc], found,
                               InOrder(dependencies[n] \ {Unknown}))
         IN [below EXCEPT !.visited = @ \cup {n}]

SearchAll ==
    FoldLeft(LAMBDA acc, n : search[n, {}, acc], [visited |-> {}, cycle |-> FALSE], InOrder(Nodes))

\* A node neither depends nor is depended on, and is not the root.
Orphans == {n \in Nodes \ {1} : dependencies[n] = {} /\ Dependents(n) = <<>>}

Validates == ~SearchAll.cycle /\ Orphans = {}

\* Mutant: a node joins the queue when any of its dependencies has left it.
JoinsEarly(left, n) == TRUE

\* A node joins the queue when the last of its dependencies has left it.
Joins(left, n) == left[n] = 1

\* How many dependencies each node still waits for.
Counts == [Nodes -> Int]

\* topologicalSort: the queue, the counts, and the order so far.
sort[queue \in Seq(Nodes), left \in Counts, result \in Seq(Nodes)] ==
    IF queue = <<>> THEN result
    ELSE LET n == Head(queue)
             free == SelectSeq(Dependents(n), LAMBDA d : Joins(left, d))
         IN sort[Tail(queue) \o free,
                 [d \in Nodes |-> IF n \in dependencies[d] THEN left[d] - 1 ELSE left[d]],
                 Append(result, n)]

TopologicalSort ==
    sort[InOrder({n \in Nodes : dependencies[n] = {}}),
         [n \in Nodes |-> Cardinality(dependencies[n])], <<>>]

\* dependencyWalk: a node follows what it depends on.
walk[n \in Nodes, result \in Seq(Nodes)] ==
    LET below == FoldLeft(LAMBDA acc, d : IF d \in ToSet(acc) THEN acc ELSE walk[d, acc], result,
                          InOrder(dependencies[n] \cap Nodes))
    IN Append(below, n)

DependencyWalk(n) == walk[n, <<>>]

\* reverseDependencyWalk: what depends on a node follows it.
climb[n \in Nodes, result \in Seq(Nodes)] ==
    FoldLeft(LAMBDA acc, d : IF d \in ToSet(acc) THEN acc ELSE climb[d, acc],
             Append(result, n), Dependents(n))

ReverseWalk(n) == climb[n, <<>>]

\* getAllPaths: from each node without dependencies to a node nothing depends on.
paths[path \in Seq(Nodes)] ==
    LET above == SelectSeq(Dependents(Last(path)), LAMBDA d : d \notin ToSet(path))
    IN IF Dependents(Last(path)) = <<>> THEN <<path>>
       ELSE FoldLeft(LAMBDA acc, d : acc \o paths[Append(path, d)], <<>>, above)

AllPaths ==
    FoldLeft(LAMBDA acc, n : acc \o paths[<<n>>], <<>>, InOrder({n \in Nodes : dependencies[n] = {}}))

-----------------------------------------------------------------------------
(* The runtime. *)

\* buildGraph.
BuildGraph ==
    /\ graph = "created"
    /\ graph' = IF Validates THEN "ready" ELSE "failed"
    /\ events' = IF Validates THEN events ELSE Append(events, "failed")
    /\ UNCHANGED <<dependencies, status, retryCount, batch, orchestrator, archive, replays>>

CanTransition(to) == to \in Legal[graph]

Start ==
    /\ orchestrator = "idle" /\ CanTransition("running")
    /\ graph' = "running"
    /\ events' = Append(events, "started")
    /\ orchestrator' = "loop"
    /\ UNCHANGED <<dependencies, status, retryCount, batch, archive, replays>>

\* Mutant: a node is ready behind the first of its dependencies that completes.
ReadyBehindOne ==
    {n \in Nodes : status[n] = "pending" /\ dependencies[n] \subseteq Nodes
        /\ (dependencies[n] # {} => \E d \in dependencies[n] : status[d] = "completed")}

ReadyNodes ==
    {n \in Nodes : status[n] = "pending" /\ \A d \in dependencies[n] : d \in Nodes /\ status[d] = "completed"}

\* The next node of the batch, or of a new one.
ExecuteNode ==
    /\ orchestrator = "loop" /\ graph = "running"
    /\ LET nodes == IF batch = <<>> THEN InOrder(ReadyNodes) ELSE batch IN
       /\ nodes # <<>>
       /\ status' = [status EXCEPT ![Head(nodes)] = "running"]
       /\ batch' = nodes
    /\ orchestrator' = "node"
    /\ UNCHANGED <<dependencies, graph, retryCount, events, archive, replays>>

NodeSucceeds ==
    /\ orchestrator = "node"
    /\ status' = [status EXCEPT ![Head(batch)] = "completed"]
    /\ batch' = Tail(batch) /\ orchestrator' = "loop"
    /\ UNCHANGED <<dependencies, graph, retryCount, events, archive, replays>>

NodeFails ==
    LET n == Head(batch) IN
    /\ orchestrator = "node"
    /\ retryCount' = [retryCount EXCEPT ![n] = @ + 1]
    /\ status' = IF retryCount[n] + 1 <= MaxRetries THEN [status EXCEPT ![n] = "pending"]
                 ELSE [m \in Nodes |-> IF m = n THEN "failed"
                                       ELSE IF n \in dependencies[m] /\ status[m] = "pending" THEN "blocked"
                                       ELSE status[m]]
    /\ batch' = Tail(batch) /\ orchestrator' = "loop"
    /\ UNCHANGED <<dependencies, graph, events, archive, replays>>

Count(s) == Cardinality({n \in Nodes : status[n] = s})
Done == Count("completed") + Count("failed") + Count("blocked") = Cardinality(Nodes)

\* The end the orchestrator sees; its event follows whether or not the transition was
\* legal.
End == IF Count("failed") > 0 THEN "failed" ELSE "completed"

ExecuteReturns ==
    /\ orchestrator = "loop" /\ (graph # "running" \/ (batch = <<>> /\ ReadyNodes = {}))
    /\ graph' = IF Done /\ CanTransition(End) THEN End ELSE graph
    /\ events' = IF Done THEN Append(events, End) ELSE events
    /\ orchestrator' = "returned" /\ batch' = <<>>
    /\ UNCHANGED <<dependencies, status, retryCount, archive, replays>>

Cancel ==
    /\ CanTransition("cancelled")
    /\ graph' = "cancelled"
    /\ events' = Append(events, "cancelled")
    /\ UNCHANGED <<dependencies, status, retryCount, batch, orchestrator, archive, replays>>

Archive ==
    /\ CanTransition("archived")
    /\ graph' = "archived"
    /\ archive' = [n \in Nodes |-> status[n]]
    /\ events' = Append(events, "archived")
    /\ UNCHANGED <<dependencies, status, retryCount, batch, orchestrator, replays>>

\* The records of the whole archive, of one node or of a path: copied, never replayed
\* against the nodes.
Replay ==
    /\ archive # <<>> /\ replays < MaxReplays
    /\ replays' = replays + 1
    /\ UNCHANGED <<dependencies, graph, status, retryCount, batch, orchestrator, events, archive>>

Init ==
    /\ dependencies \in [Nodes -> SUBSET (Nodes \cup {Unknown})]
    /\ graph = "created" /\ status = [n \in Nodes |-> "pending"]
    /\ retryCount = [n \in Nodes |-> 0] /\ batch = <<>> /\ orchestrator = "idle"
    /\ events = <<>> /\ archive = <<>> /\ replays = 0

OrchestratorStep == ExecuteNode \/ NodeSucceeds \/ NodeFails \/ ExecuteReturns

Next == BuildGraph \/ Start \/ OrchestratorStep \/ Cancel \/ Archive \/ Replay

Spec == Init /\ [][Next]_vars

-----------------------------------------------------------------------------
(* Properties. *)

\* A graph that validates has no cycle, and the traverser lists it as it should: every
\* node it can reach a beginning of once, behind everything it depends on, and the walk
\* from a node exactly what the node depends on, each behind its own dependencies; the
\* walk back finds what depends on it, and no path is listed twice.
Behind(s) == \A i \in DOMAIN s : dependencies[s[i]] \cap Nodes \subseteq {s[k] : k \in 1 .. i - 1}

TraversalsAreSound ==
    /\ graph \in {"ready", "running", "completed"} => \A n \in Nodes : <<n, n>> \notin Reaches
    /\ graph = "ready" =>
         /\ IsInjective(TopologicalSort) /\ Behind(TopologicalSort)
         /\ (\A n \in Nodes : dependencies[n] \subseteq Nodes) => ToSet(TopologicalSort) = Nodes
         /\ \A n \in Nodes :
              /\ Behind(DependencyWalk(n)) /\ IsInjective(DependencyWalk(n))
              /\ ToSet(DependencyWalk(n)) = {n} \cup {d \in Nodes : <<n, d>> \in Reaches}
              /\ IsInjective(ReverseWalk(n))
              /\ ToSet(ReverseWalk(n)) = {n} \cup {d \in Nodes : <<d, n>> \in Reaches}
         /\ IsInjective(AllPaths)
         /\ \A i \in DOMAIN AllPaths : \A k \in 2 .. Len(AllPaths[i]) :
              AllPaths[i][k - 1] \in dependencies[AllPaths[i][k]]

\* A completed graph ran every node; one that failed in its run ran none whose
\* dependencies had not completed; an archive holds what the nodes had come to, unless
\* the graph was cancelled under the orchestrator.
RunsAreSound ==
    /\ graph = "completed" => \A n \in Nodes : status[n] = "completed"
    /\ \A n \in Nodes : status[n] \in {"running", "completed", "failed"} =>
         \A d \in dependencies[n] : status[d] = "completed"
    /\ archive # <<>> /\ archive # status =>
         \E i \in DOMAIN events : events[i] = "cancelled"
=============================================================================
