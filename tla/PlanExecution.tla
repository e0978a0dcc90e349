--------------------------- MODULE PlanExecution ---------------------------
(***************************************************************************)
(* The planning runtime (packages/planning-runtime/src): a plan becomes a  *)
(* graph of nodes that the executor runs one at a time, with retries,      *)
(* while the user may cancel, and a replan makes a new graph of it. The    *)
(* graph is any graph: nothing validates the plan.                         *)
(***************************************************************************)
EXTENDS Naturals, Sequences, FiniteSets

CONSTANTS
    Nodes,          \* 1 .. n, in the order of the plan's steps
    Unknown,        \* a dependency that is no step of the plan
    MaxRetries,     \* of every node
    MaxReplans      \* Replanner.maxDepth

VARIABLES
    dependencies,   \* of each node
    graph,          \* the status of the graph
    status,         \* and of each node
    retryCount,
    executor,       \* "loop", "node" while a node runs, "returned"
    current,        \* the node that runs, 0 for none
    runs,           \* how often each node was started
    cancelled,      \* the user cancelled while the graph could be
    replans,        \* replanCount
    replanned       \* the last replan: the nodes it says it removed and those it kept

vars == <<dependencies, graph, status, retryCount, executor, current, runs, cancelled,
          replans, replanned>>

NodeStatuses == {"pending", "running", "completed", "failed", "blocked", "cancelled"}
GraphStatuses == {"running", "completed", "failed", "cancelled"}

\* The steps of a plan may depend on one another as they like, and on none of them.
Plans == [Nodes -> SUBSET (Nodes \cup {Unknown})]

TypeOK ==
    /\ dependencies \in Plans
    /\ graph \in GraphStatuses
    /\ status \in [Nodes -> NodeStatuses]
    /\ retryCount \in [Nodes -> 0 .. MaxRetries + 1] /\ runs \in [Nodes -> Nat]
    /\ executor \in {"loop", "node", "returned"} /\ current \in Nodes \cup {0}
    /\ cancelled \in BOOLEAN /\ replans \in 0 .. MaxReplans
    /\ replanned \in [removed : SUBSET Nodes, kept : SUBSET Nodes]

Dependents(n) == {d \in Nodes : n \in dependencies[d]}

\* Mutant: a dependency that ended in any way will do.
ReadyBehindEnded ==
    {n \in Nodes : status[n] = "pending"
                     /\ \A d \in dependencies[n] : d \in Nodes /\ status[d] \notin {"pending", "running"}}

\* getReadyNodes: an unknown dependency is never completed.
ReadyNodes ==
    {n \in Nodes : status[n] = "pending"
                     /\ \A d \in dependencies[n] : d \in Nodes /\ status[d] = "completed"}

-----------------------------------------------------------------------------
(* The executor. *)

\* The first ready node in the order of the plan; "ready" and "running" follow each
\* other at once.
ExecuteNode ==
    /\ executor = "loop" /\ graph = "running" /\ ReadyNodes # {}
    /\ \E n \in ReadyNodes :
         /\ \A other \in ReadyNodes : n <= other
         /\ status' = [status EXCEPT ![n] = "running"]
         /\ runs' = [runs EXCEPT ![n] = @ + 1]
         /\ current' = n
    /\ executor' = "node"
    /\ UNCHANGED <<dependencies, graph, retryCount, cancelled, replans, replanned>>

\* A result is written over whatever became of the node while it ran.
NodeSucceeds ==
    /\ executor = "node"
    /\ status' = [status EXCEPT ![current] = "completed"]
    /\ executor' = "loop" /\ current' = 0
    /\ UNCHANGED <<dependencies, graph, retryCount, runs, cancelled, replans, replanned>>

MayRetry(n) == retryCount[n] + 1 <= MaxRetries

NodeFails ==
    /\ executor = "node"
    /\ retryCount' = [retryCount EXCEPT ![current] = @ + 1]
    /\ status' = IF MayRetry(current) THEN [status EXCEPT ![current] = "pending"]
                 ELSE [n \in Nodes |->
                        CASE n \in Dependents(current) /\ status[n] = "pending" -> "blocked"
                          [] n = current -> "failed"
                          [] OTHER -> status[n]]
    /\ executor' = "loop" /\ current' = 0
    /\ UNCHANGED <<dependencies, graph, runs, cancelled, replans, replanned>>

AllNodes(s) == \A n \in Nodes : status[n] \in s
SomeNode(s) == \E n \in Nodes : status[n] = s

\* The end of execute: a graph with a node that is still pending stays as it is.
FinalStatus ==
    IF SomeNode("cancelled") THEN "cancelled"
    ELSE IF ~AllNodes({"completed", "failed", "blocked"}) THEN graph
    ELSE IF SomeNode("failed") THEN "failed" ELSE "completed"

ExecuteReturns ==
    /\ executor = "loop" /\ (graph # "running" \/ ReadyNodes = {})
    /\ graph' = IF graph = "cancelled" THEN graph ELSE FinalStatus
    /\ executor' = "returned"
    /\ UNCHANGED <<dependencies, status, retryCount, current, runs, cancelled, replans, replanned>>

-----------------------------------------------------------------------------
(* The user. *)

CancelExecution ==
    /\ graph = "running"
    /\ graph' = "cancelled" /\ cancelled' = TRUE
    /\ status' = [n \in Nodes |-> IF status[n] \in {"pending", "running"} THEN "cancelled" ELSE status[n]]
    /\ UNCHANGED <<dependencies, retryCount, executor, current, runs, replans, replanned>>

\* The replanner makes a graph without the failed and the blocked nodes, which it
\* drops; the graph the runtime then keeps under the reported id has every node.
ReplannedGraph(failedNodes) == [removed |-> failedNodes, kept |-> Nodes]

\* The failed nodes are reported as removed.
RequestReplan(failedNodes) ==
    /\ replans < MaxReplans
    /\ replans' = replans + 1
    /\ replanned' = ReplannedGraph(failedNodes)
    /\ UNCHANGED <<dependencies, graph, status, retryCount, executor, current, runs, cancelled>>

-----------------------------------------------------------------------------
Init ==
    /\ dependencies \in Plans
    /\ graph = "running" /\ status = [n \in Nodes |-> "pending"]
    /\ retryCount = [n \in Nodes |-> 0] /\ runs = [n \in Nodes |-> 0]
    /\ executor = "loop" /\ current = 0 /\ cancelled = FALSE
    /\ replans = 0 /\ replanned = [removed |-> {}, kept |-> {}]

ExecutorStep == ExecuteNode \/ NodeSucceeds \/ NodeFails \/ ExecuteReturns

Next == ExecutorStep \/ CancelExecution \/ RequestReplan({n \in Nodes : status[n] = "failed"})

\* The executor goes on, and what a node does comes to an end.
Fairness == WF_vars(ExecutorStep)

Spec == Init /\ [][Next]_vars /\ Fairness

-----------------------------------------------------------------------------
(* Properties. *)

\* A graph called completed ran every node to completion, each after all of its
\* dependencies and at most once more than its retries, and no user had cancelled it.
CompletedGraphsRan ==
    /\ graph = "completed" =>
         AllNodes({"completed"}) /\ ~cancelled /\ \A n \in Nodes : dependencies[n] \subseteq Nodes
    /\ \A n \in Nodes :
         /\ runs[n] <= MaxRetries + 1
         /\ runs[n] > 0 => \A d \in dependencies[n] : d \in Nodes /\ status[d] = "completed"

\* Whatever the graph, and however often its nodes fail, execute returns.
Quiet == executor = "returned"
=============================================================================
