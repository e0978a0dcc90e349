-------------------------- MODULE BackendContract --------------------------
(***************************************************************************)
(* What an AgentBackend promises its runtime (agent-runtime/src/backends/  *)
(* types.ts, and docs/development/agent_backend_conformance.md): a call    *)
(* is asked once, a result counts only for a call that is pending, it is   *)
(* confirmed once, and an ended turn takes its calls with it for good.     *)
(***************************************************************************)
CONSTANTS Calls, Turns, TurnOf

VARIABLES
    call,   \* "none", "asked", "answered" or "closed", for each call
    ended   \* the turns whose end was told

vars == <<call, ended>>

Live(t) == t \notin ended

Init == call = [c \in Calls |-> "none"] /\ ended = {}

Ask(c) ==
    /\ call[c] = "none" /\ Live(TurnOf[c])
    /\ call' = [call EXCEPT ![c] = "asked"]
    /\ UNCHANGED ended

Answer(c) ==
    /\ call[c] = "asked" /\ Live(TurnOf[c])
    /\ call' = [call EXCEPT ![c] = "answered"]
    /\ UNCHANGED ended

\* The result did not get through: the call is still pending.
TakeBack(c) ==
    /\ call[c] = "answered"
    /\ call' = [call EXCEPT ![c] = "asked"]
    /\ UNCHANGED ended

Confirm(c) ==
    /\ call[c] = "answered" /\ Live(TurnOf[c])
    /\ call' = [call EXCEPT ![c] = "closed"]
    /\ UNCHANGED ended

Pending(t) == {c \in Calls : TurnOf[c] = t /\ call[c] \in {"asked", "answered"}}

Complete(t) ==
    /\ Live(t) /\ Pending(t) = {}
    /\ ended' = ended \cup {t}
    /\ UNCHANGED call

Cancel(t) ==
    /\ Live(t)
    /\ ended' = ended \cup {t}
    /\ call' = [c \in Calls |-> IF c \in Pending(t) THEN "closed" ELSE call[c]]

Next ==
    \/ \E c \in Calls : Ask(c) \/ Answer(c) \/ TakeBack(c) \/ Confirm(c)
    \/ \E t \in Turns : Complete(t) \/ Cancel(t)

Spec == Init /\ [][Next]_vars
=============================================================================
