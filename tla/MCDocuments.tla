---------------------------- MODULE MCDocuments ----------------------------
(***************************************************************************)
(* Documents on small instances of each part.                              *)
(***************************************************************************)
EXTENDS Documents

\* Findings that share files, words, both or neither, and two without evidence.
Reported ==
    {[files |-> {"a"}, words |-> {1, 2}], [files |-> {"a"}, words |-> {2, 3, 4}],
     [files |-> {"a", "b"}, words |-> {1}], [files |-> {"b"}, words |-> {1, 3}],
     [files |-> {}, words |-> {1, 2}], [files |-> {"b"}, words |-> {}]}
=============================================================================
