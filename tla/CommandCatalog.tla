--------------------------- MODULE CommandCatalog ---------------------------
(***************************************************************************)
(* From a project's package.json to a process: the catalog of an agent's   *)
(* tools (packages/agent-runtime/src/agent-loop/tools.ts), the command a   *)
(* restart leaves pending (apps/desktop/src/views/SessionsView.tsx), the   *)
(* runner (platform/tauriProjectCommandRunner.ts) and the native command   *)
(* it invokes (src-tauri/src/lib.rs). Anyone may edit the script meanwhile. *)
(* One script is followed; its digest is the version of its text. What an  *)
(* approval needs besides is CommandGate's matter.                         *)
(***************************************************************************)
EXTENDS Naturals, FiniteSets

CONSTANTS
    Calls,          \* of the tools, by the tasks of one window
    Versions,       \* of the script's text
    None,           \* no such script, or no readable package.json
    Cargo,          \* the project has a Cargo.toml
    MaxEdits        \* bound on the edits of the script

VARIABLES
    script,         \* what package.json says
    edits,
    catalog,        \* [script, cargo] of the loop's tools
    call,           \* [at, op, found, digest, stray] of each call
    asked,          \* the calls whose run the user wants cancelled
    flag,           \* those whose native run was told
    ran,            \* the text the process of a call was started on
    edited          \* history: calls whose script was edited behind the native check

vars == <<script, edits, catalog, call, asked, flag, ran, edited>>

Texts == Versions \cup {None}
InFlight == {"invoked", "registered", "checked", "running"}

TypeOK ==
    /\ script \in Texts /\ edits \in 0 .. MaxEdits
    /\ catalog \in [script : Texts, cargo : BOOLEAN]
    /\ call \in [Calls -> [at : InFlight \cup {"no", "reading", "keeping", "pending", "stored", "done", "settled"},
                           op : {"list", "resolve", "recover"}, found : Texts, digest : Texts,
                           stray : BOOLEAN]]
    /\ asked \subseteq Calls /\ flag \subseteq asked /\ edited \subseteq Calls
    /\ ran \in [Calls -> Texts \cup {"nothing"}]

NoCommands == [script |-> None, cargo |-> FALSE]

\* The loop works on one task at a time, and waits for its calls; a task that was
\* cancelled no longer counts, whatever its call still does, and a recovery is not the
\* loop's.
Live == {k \in Calls : /\ call[k].at \notin {"no", "stored", "done", "settled"}
                       /\ ~call[k].stray /\ call[k].op # "recover"}

Becomes(k, at) == call' = [call EXCEPT ![k].at = at]

-----------------------------------------------------------------------------
(* The tools. *)

\* discoverCommands clears the catalog before it reads; a resolve does so only when
\* the catalog is empty.
StartCall(k, op) ==
    /\ call[k].at = "no" /\ Live = {}
    /\ IF op = "resolve" /\ catalog # NoCommands
       THEN /\ call' = [call EXCEPT ![k].op = op, ![k].digest = catalog.script,
                                    ![k].at = IF catalog.script = None THEN "done" ELSE "pending"]
            /\ UNCHANGED catalog
       ELSE /\ call' = [call EXCEPT ![k].op = op, ![k].at = "reading"]
            /\ catalog' = NoCommands
    /\ UNCHANGED <<script, edits, asked, flag, ran, edited>>

ReadPackage(k) ==
    /\ call[k].at = "reading"
    /\ call' = [call EXCEPT ![k].found = script, ![k].at = "keeping"]
    /\ UNCHANGED <<script, edits, catalog, asked, flag, ran, edited>>

\* What the map holds once the digests are made: an entry that another discovery left
\* is only replaced.
Kept(k) ==
    [script |-> IF call[k].found = None THEN catalog.script ELSE call[k].found, cargo |-> Cargo]

\* commandsMatch, against what the recovery's own tools discovered.
Offers(k) == call[k].found = call[k].digest

\* The end of a discovery, and what the call makes of it.
Keep(k) ==
    /\ call[k].at = "keeping"
    /\ IF call[k].op = "recover"
       THEN /\ Becomes(k, IF Offers(k) THEN "pending" ELSE "done")
            /\ UNCHANGED catalog
       ELSE /\ catalog' = Kept(k)
            /\ IF call[k].op = "list" \/ call[k].stray \/ Kept(k).script = None
               THEN Becomes(k, "done")
               ELSE call' = [call EXCEPT ![k].digest = Kept(k).script, ![k].at = "pending"]
    /\ UNCHANGED <<script, edits, asked, flag, ran, edited>>

-----------------------------------------------------------------------------
(* The user, and whoever edits the project. *)

\* A task is cancelled, or its command denied.
CancelTask(k) ==
    /\ \/ call[k].at \in {"reading", "keeping"} /\ call[k].op # "recover" /\ ~call[k].stray
          /\ call' = [call EXCEPT ![k].stray = TRUE]
       \/ call[k].at = "pending" /\ Becomes(k, "done")
    /\ UNCHANGED <<script, edits, catalog, asked, flag, ran, edited>>

\* approveCommand and the recovered approval: runner.run invokes the native command.
Approve(k) ==
    /\ call[k].at = "pending"
    /\ Becomes(k, "invoked")
    /\ UNCHANGED <<script, edits, catalog, asked, flag, ran, edited>>

\* runner.cancel: a run that is not registered yet is not told.
CancelRun(k) ==
    /\ call[k].at \in InFlight /\ k \notin asked
    /\ asked' = asked \cup {k}
    /\ flag' = IF call[k].at = "invoked" THEN flag ELSE flag \cup {k}
    /\ UNCHANGED <<script, edits, catalog, call, ran, edited>>

Edit(text) ==
    /\ edits < MaxEdits /\ text # script
    /\ script' = text /\ edits' = edits + 1
    /\ edited' = edited \cup {k \in Calls : call[k].at = "checked"}
    /\ UNCHANGED <<catalog, call, asked, flag, ran>>

\* A restart while no process runs: the ledger keeps what was pending.
Restart ==
    /\ \A k \in Calls : call[k].at \notin InFlight
    /\ \E k \in Calls : call[k].at \in {"reading", "keeping", "pending"}
    /\ call' = [k \in Calls |-> [call[k] EXCEPT
                 !.at = IF @ = "pending" \/ (@ \in {"reading", "keeping"} /\ call[k].op = "recover")
                        THEN "stored" ELSE IF @ \in {"reading", "keeping"} THEN "done" ELSE @]]
    /\ catalog' = NoCommands
    /\ UNCHANGED <<script, edits, asked, flag, ran, edited>>

\* reauthorize: tools of its own, which discover before they resolve.
Recover(k) ==
    /\ call[k].at = "stored"
    /\ call' = [call EXCEPT ![k].at = "reading", ![k].op = "recover"]
    /\ UNCHANGED <<script, edits, catalog, asked, flag, ran, edited>>

-----------------------------------------------------------------------------
(* The native command. *)

\* The cancellation flag is there before anything is checked; the root must be one the
\* user picked in this process.
Register(k, authorized) ==
    /\ call[k].at = "invoked"
    /\ Becomes(k, IF authorized THEN "registered" ELSE "settled")
    /\ UNCHANGED <<script, edits, catalog, asked, flag, ran, edited>>

\* Mutant: the script need only still be there.
StillThere(k) == script # None

Unchanged(k) == script = call[k].digest

\* resolve_command, on a thread of its own.
Check(k) ==
    /\ call[k].at = "registered"
    /\ Becomes(k, IF Unchanged(k) THEN "checked" ELSE "settled")
    /\ UNCHANGED <<script, edits, catalog, asked, flag, ran, edited>>

\* The process reads package.json itself; or it cannot be started.
Spawn(k) ==
    /\ call[k].at = "checked"
    /\ \/ Becomes(k, "running") /\ ran' = [ran EXCEPT ![k] = script]
       \/ Becomes(k, "settled") /\ UNCHANGED ran
    /\ UNCHANGED <<script, edits, catalog, asked, flag, edited>>

\* The loop of execute_command: the process ends by itself, is cancelled, or is killed
\* when its time is up.
Ends(k) ==
    /\ call[k].at = "running"
    /\ Becomes(k, "settled")
    /\ UNCHANGED <<script, edits, catalog, asked, flag, ran, edited>>

Exits(k) == Ends(k)
Cancelled(k) == k \in flag /\ Ends(k)
TimedOut(k) == Ends(k)

Native(k) == Register(k, TRUE) \/ Register(k, FALSE) \/ Check(k) \/ Spawn(k) \/ Cancelled(k) \/ TimedOut(k)

Init ==
    /\ script \in Texts /\ edits = 0 /\ catalog = NoCommands
    /\ call = [k \in Calls |-> [at |-> "no", op |-> "list", found |-> None, digest |-> None, stray |-> FALSE]]
    /\ asked = {} /\ flag = {} /\ edited = {}
    /\ ran = [k \in Calls |-> "nothing"]

Next ==
    \/ \E k \in Calls :
         \/ \E op \in {"list", "resolve"} : StartCall(k, op)
         \/ ReadPackage(k) \/ Keep(k) \/ CancelTask(k) \/ Approve(k) \/ CancelRun(k)
         \/ Recover(k) \/ Native(k) \/ Exits(k)
    \/ \E text \in Texts : Edit(text)
    \/ Restart

\* The native command goes on, and its loop sees the flag and the clock.
Fairness == \A k \in Calls : WF_vars(Native(k))

Spec == Init /\ [][Next]_vars /\ Fairness

-----------------------------------------------------------------------------
(* Properties. *)

\* A process runs the very text whose digest the catalog gave when the command was
\* proposed, however the script, the catalog and the window changed in between; only
\* an edit between the native check and the start of the process escapes. A task that
\* was cancelled runs nothing, and the loop runs one process at a time.
RunsWhatWasCataloged ==
    /\ \A k \in Calls :
         /\ ran[k] # "nothing" => ran[k] = call[k].digest \/ k \in edited
         /\ call[k].stray => call[k].at \in {"reading", "keeping", "done"}
         /\ call[k].at \in InFlight => call[k].digest # None
    /\ Cardinality({k \in Live : call[k].at \in InFlight}) <= 1

\* Every run that was invoked settles, cancelled or not, even if the cancel came before
\* the run was registered and was lost: again and again, none is under way.
Quiet == \A k \in Calls : call[k].at \notin InFlight
=============================================================================
