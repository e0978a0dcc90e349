----------------------------- MODULE SideEffect -----------------------------
(***************************************************************************)
(* What KerniQ promises of every governed side effect, whoever carries it  *)
(* out: it is requested, authorised, run, and then settled or recorded as  *)
(* uncertain; it runs at most once, never without authority, never after   *)
(* it was closed, and an uncertain one is never run again.                 *)
(***************************************************************************)
CONSTANT Effects      \* the side effects asked for

VARIABLE effect       \* the phase of each of them

Phases ==
  {"none", "requested", "authorised", "running", "settled", "uncertain",
   "closed"}

Init == effect = [e \in Effects |-> "none"]

Moves(e, from, to) ==
  /\ effect[e] \in from
  /\ effect' = [effect EXCEPT ![e] = to]

Request(e) == Moves(e, {"none"}, "requested")

Authorise(e) == Moves(e, {"requested"}, "authorised")

(* Authority is withdrawn, refused or never given. *)
Close(e) == Moves(e, {"requested", "authorised"}, "closed")

Run(e) == Moves(e, {"authorised"}, "running")

(* The outcome is known, and durably so. *)
Settle(e) == Moves(e, {"running"}, "settled")

(* It ran, but how it ended could not be made durable. *)
Lose(e) == Moves(e, {"running"}, "uncertain")

(* A stop of the process hits several at once. *)
Interrupt(hit) ==
  effect' = [e \in Effects |->
    IF e \in hit /\ effect[e] \in {"requested", "authorised"} THEN "closed"
    ELSE IF e \in hit /\ effect[e] = "running" THEN "uncertain"
    ELSE effect[e]]

Next ==
  \/ \E e \in Effects :
       Request(e) \/ Authorise(e) \/ Close(e) \/ Run(e) \/ Settle(e) \/ Lose(e)
  \/ \E hit \in SUBSET Effects : Interrupt(hit)

Spec == Init /\ [][Next]_effect

=============================================================================
