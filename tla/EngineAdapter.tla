--------------------------- MODULE EngineAdapter ----------------------------
(***************************************************************************)
(* The CodeWhale engine behind its adapter (packages/codewhale-engine-     *)
(* adapter): the supervisor of the managed process (supervisor.ts), the    *)
(* guard of dynamic tool results and the cursor of events (proposal.ts),   *)
(* and the adapter's operations on them (adapter.ts).                      *)
(*                                                                         *)
(* start() checks that the supervisor is stopped, awaits the verification  *)
(* of the executable and only then says that it is starting; it keeps the  *)
(* child in a field that a second start or a shutdown may change during    *)
(* its awaits.  submitToolResult checks the call, awaits the runtime and   *)
(* checks the call again when it settles it.                               *)
(*                                                                         *)
(* One shutdown runs at a time, and the kill of a start that fails is one  *)
(* step with the fields it clears.                                         *)
(*                                                                         *)
(* Abstracted: ports, paths, digests, tokens and arguments; the runtime    *)
(* behind its client, which may answer, fail, repeat and reorder events.   *)
(***************************************************************************)
EXTENDS Naturals

CONSTANTS Starts,      \* calls of start(), each with the process it launches
          Overlapping, \* whether a start may be called while one is awaited
          ToolCalls,   \* dynamic tool calls
          Submits,     \* deliveries of a result, each of some call
          MaxSequence, \* the last event of the session
          None

VARIABLES process,   \* the status the supervisor reports, and of which child
          child,     \* the field `child`
          start,     \* start call -> where it is
          os,        \* start call -> its operating system process
          stopping,  \* where shutdown() is
          calls,     \* tool call -> its entry in the guard
          submit,    \* delivery -> the call and where it is
          cursor     \* the sequence of the last event listened to

processVars == <<process, child, start, os, stopping>>
callVars == <<calls, submit>>
vars == <<processVars, callVars, cursor>>

Init ==
  /\ process = [status |-> "stopped", pid |-> None]
  /\ child = None
  /\ start = [k \in Starts |-> "idle"]
  /\ os = [k \in Starts |-> "none"]
  /\ stopping = "idle"
  /\ calls = [c \in ToolCalls |-> "unknown"]
  /\ submit = [s \in Submits |-> [call |-> None, at |-> "idle"]]
  /\ cursor = 0

-----------------------------------------------------------------------------
(* start() *)

Says(status) == [status |-> status, pid |-> None]

Awaited == {"verifying", "launching", "probing", "inspecting"}

(* The checks before the first await. *)
StartCalled(k) ==
  /\ start[k] = "idle"
  /\ Overlapping \/ \A j \in Starts : start[j] \notin Awaited
  /\ start' = [start EXCEPT ![k] =
       IF process.status = "stopped" THEN "verifying" ELSE "refused"]
  /\ UNCHANGED <<process, child, os, stopping, callVars, cursor>>

(* A digest, path, port or timeout that does not pass throws and leaves    *)
(* the status alone.                                                       *)
Verified(k) ==
  /\ start[k] = "verifying"
  /\ \/ /\ start' = [start EXCEPT ![k] = "launching"]
        /\ process' = Says("starting")
     \/ /\ start' = [start EXCEPT ![k] = "threw"]
        /\ UNCHANGED process
  /\ UNCHANGED <<child, os, stopping, callVars, cursor>>

(* The catch block kills whatever child the field holds by then. *)
StartFails(k) ==
  /\ start' = [start EXCEPT ![k] = "threw"]
  /\ os' = IF child # None THEN [os EXCEPT ![child] = "dead"] ELSE os
  /\ child' = None
  /\ process' = Says("failed")

Launched(k) ==
  /\ start[k] = "launching"
  /\ \/ /\ start' = [start EXCEPT ![k] = "probing"]
        /\ os' = [os EXCEPT ![k] = "alive"]
        /\ child' = k
        /\ UNCHANGED process
     \/ StartFails(k)
  /\ UNCHANGED <<stopping, callVars, cursor>>

(* The race of health, exit and deadline. *)
Probed(k) ==
  /\ start[k] = "probing"
  /\ \/ /\ os[k] = "alive"
        /\ start' = [start EXCEPT ![k] = "inspecting"]
        /\ UNCHANGED <<process, child, os>>
     \/ StartFails(k)
  /\ UNCHANGED <<stopping, callVars, cursor>>

(* Version and capabilities, which a process that died since cannot tell. *)
Inspected(k) ==
  /\ start[k] = "inspecting"
  /\ \/ /\ os[k] = "alive"
        /\ start' = [start EXCEPT ![k] = "returned"]
        /\ process' = [status |-> "healthy", pid |-> k]
        /\ UNCHANGED <<child, os>>
     \/ StartFails(k)
  /\ UNCHANGED <<stopping, callVars, cursor>>

Exits(k) ==
  /\ os[k] = "alive"
  /\ os' = [os EXCEPT ![k] = "dead"]
  /\ UNCHANGED <<process, child, start, stopping, callVars, cursor>>

(* Mutant: the handler ignores an exit that came before it was attached to *)
(* the field.                                                              *)
NotMine(k) == child # k /\ process.status = "healthy"

(* The handler of `exited`, attached when the start returned. *)
Mine(k) == child = k /\ process.status = "healthy"

ExitNoticed(k) ==
  /\ start[k] = "returned"
  /\ os[k] = "dead"
  /\ Mine(k)
  /\ child' = None
  /\ process' = Says("failed")
  /\ UNCHANGED <<start, os, stopping, callVars, cursor>>

-----------------------------------------------------------------------------
(* shutdown() *)

ShutdownCalled ==
  /\ stopping = "idle"
  /\ IF child = None
     THEN process' = Says("stopped") /\ UNCHANGED stopping
     ELSE /\ process' = [status |-> "stopping", pid |-> child]
          /\ stopping' = "asking"
  /\ UNCHANGED <<child, start, os, callVars, cursor>>

(* interruptLiveTurns, shutdown and terminate; any of them may throw. *)
Asked ==
  /\ stopping = "asking"
  /\ stopping' = "killing"
  /\ \/ UNCHANGED os
     \/ child # None /\ os' = [os EXCEPT ![child] = "dead"]
  /\ UNCHANGED <<process, child, start, callVars, cursor>>

(* The finally block; it throws when a failing start cleared the field. *)
Killed ==
  /\ stopping = "killing"
  /\ stopping' = "idle"
  /\ IF child = None
     THEN UNCHANGED <<process, child, os>>
     ELSE /\ os' = [os EXCEPT ![child] = "dead"]
          /\ child' = None
          /\ process' = Says("stopped")
  /\ UNCHANGED <<start, callVars, cursor>>

-----------------------------------------------------------------------------
(* Dynamic tool calls.  A registered call is "pending". *)

Health == process.status = "healthy"

Register(c) ==
  /\ calls[c] = "unknown"
  /\ calls' = [calls EXCEPT ![c] = "pending"]
  /\ UNCHANGED <<processVars, submit, cursor>>

(* timeout() and cancel() of the guard, for a call that is not settled. *)
Withdraw(c) ==
  /\ calls[c] = "pending"
  /\ \E end \in {"timed_out", "canceled"} :
       calls' = [calls EXCEPT ![c] = end]
  /\ UNCHANGED <<processVars, submit, cursor>>

(* Replayed history takes the place of whatever entry the call has. *)
RestoreHistorical(c) ==
  /\ calls' = [calls EXCEPT ![c] = "historical"]
  /\ UNCHANGED <<processVars, submit, cursor>>

(* Mutant: only a resolved call refuses a result. *)
OpenUnlessResolved(c) == calls[c] \notin {"unknown", "resolved"}

(* validateResultRoute *)
Open(c) == calls[c] = "pending"

Submit(s, c) ==
  /\ submit[s].at = "idle"
  /\ Health
  /\ Open(c)
  /\ submit' = [submit EXCEPT ![s] = [call |-> c, at |-> "sending"]]
  /\ UNCHANGED <<processVars, calls, cursor>>

(* The result is with the runtime when accept() checks the call again. *)
Submitted(s) ==
  /\ submit[s].at = "sending"
  /\ LET c == submit[s].call
     IN IF Open(c)
        THEN /\ calls' = [calls EXCEPT ![c] = "resolved"]
             /\ submit' = [submit EXCEPT ![s].at = "settled"]
        ELSE /\ submit' = [submit EXCEPT ![s].at = "threw"]
             /\ UNCHANGED calls
  /\ UNCHANGED <<processVars, cursor>>

SubmitFails(s) ==
  /\ submit[s].at = "sending"
  /\ submit' = [submit EXCEPT ![s].at = "threw"]
  /\ UNCHANGED <<processVars, calls, cursor>>

(* Events come repeated and out of order; the gate passes what is newer.   *)
Event(n) ==
  /\ n > cursor
  /\ cursor' = n
  /\ UNCHANGED <<processVars, callVars>>

Next ==
  \/ \E k \in Starts :
       \/ StartCalled(k) \/ Verified(k) \/ Launched(k) \/ Probed(k)
       \/ Inspected(k) \/ Exits(k) \/ ExitNoticed(k)
  \/ ShutdownCalled \/ Asked \/ Killed
  \/ \E c \in ToolCalls :
       Register(c) \/ Withdraw(c) \/ RestoreHistorical(c)
  \/ \E s \in Submits :
       \/ Submitted(s) \/ SubmitFails(s)
       \/ \E c \in ToolCalls : Submit(s, c)
  \/ \E n \in 1..MaxSequence : Event(n)

(* Continuations run, the deadline of a start and a kill return. *)
Fairness ==
  /\ \A k \in Starts :
       /\ WF_vars(Verified(k) \/ Launched(k) \/ Probed(k) \/ Inspected(k))
       /\ WF_vars(ExitNoticed(k))
  /\ WF_vars(Asked \/ Killed)

Spec == Init /\ [][Next]_vars /\ Fairness

-----------------------------------------------------------------------------
CallStates == {"unknown", "pending", "resolved", "timed_out", "canceled", "historical"}

TypeOK ==
  /\ process.status \in {"stopped", "starting", "healthy", "stopping",
                         "failed"}
  /\ process.pid \in Starts \cup {None}
  /\ child \in Starts \cup {None}
  /\ \A k \in Starts : os[k] \in {"none", "alive", "dead"}
  /\ \A c \in ToolCalls : calls[c] \in CallStates
  /\ cursor \in 0..MaxSequence

(* A process that dies while it is reported healthy, at whatever point of  *)
(* a start or a shutdown, is not reported healthy for ever.                *)
Quiet ==
  \A k \in Starts :
    process = [status |-> "healthy", pid |-> k] => os[k] # "dead"

(* What a call became stays: a result that comes when it timed out, was    *)
(* withdrawn, resolved or restored from history does not settle it.        *)
SettledCallsStay ==
  \A c \in ToolCalls :
    calls[c] \in {"resolved", "timed_out", "canceled", "historical"}
      => calls'[c] \in {calls[c], "historical"}

(* supervisor.ts: "A managed CodeWhale instance is already active." *)
OneInstance ==
  \A j, k \in Starts : os[j] = "alive" /\ os[k] = "alive" => j = k
=============================================================================
