----------------------------- MODULE MCRuntimes -----------------------------
(***************************************************************************)
(* Runtimes with one turn, and a session of old with one patch.            *)
(***************************************************************************)
EXTENDS Runtimes

OneTurn == [c \in HarnessCalls |-> CHOOSE t \in Turns : TRUE]

\* The entries the callers of a session with one patch can build.
Shapes == INSTANCE MCSessionLedger WITH
    p1 <- "p1", c1 <- "c1", a1 <- "a1", Actions <- {"p1"}, Approvals <- {"ap1", "ap2"},
    Decisions <- {"d1"}, Receipts <- {"r1", "r2"}, Clients <- {"k1", "k2"}, None <- Nil,
    NoteStatuses <- {Nil, "Streaming"}, Generations <- {0, 1}, EndKinds <- {"Completed"},
    Inputs <- {}, MaxEntries <- 7, MaxCrashes <- 2

PatchEntries == Shapes!MCInputs
=============================================================================
