------------------------------ MODULE MCDesktop ------------------------------
(***************************************************************************)
(* Desktop on small instances of each part.                                *)
(***************************************************************************)
EXTENDS Desktop

\* Of four paths, one looks like a credential and has the key of another.
Classes == <<"plain", "plain", "plain", "credential_like_name">>
Keys == <<1, 2, 3, 3>>
Contents ==
    {[size |-> 1, utf8 |-> TRUE], [size |-> 2, utf8 |-> TRUE], [size |-> 3, utf8 |-> TRUE],
     [size |-> 1, utf8 |-> FALSE]}
=============================================================================
