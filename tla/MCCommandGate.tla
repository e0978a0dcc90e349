--------------------------- MODULE MCCommandGate ---------------------------
(* CommandGate with a local error of its own for every command.            *)
EXTENDS CommandGate, TLC

CONSTANTS c1, c2, d1, d2, e1, e2

MCDecisions == {d1, d2, e1, e2}

MCLocalError == [c \in Actions |-> IF c = c1 THEN e1 ELSE e2]

GateSymmetry == Permutations(Approvals) \cup Permutations(Answers)

=============================================================================
