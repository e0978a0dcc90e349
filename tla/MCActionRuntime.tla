-------------------------- MODULE MCActionRuntime --------------------------
(***************************************************************************)
(* ActionRuntime on a few actions; approvals, decisions, receipts and the  *)
(* actions that have a handler are interchangeable.                        *)
(***************************************************************************)
EXTENDS ActionRuntime, TLC

Symmetry ==
  Permutations(Approvals) \cup Permutations(Decisions)
    \cup Permutations(Receipts)

\* An action nobody handles is looked at by itself: beside another one it is in part
\* "actions" of MCRuntimes.
UnhandledAlone ==
  \A a \in Actions \ Registered :
    action[a] # None => \A b \in Registered : action[b] = None

ActionSymmetry == Symmetry \cup Permutations(Registered)

=============================================================================
