--------------------------- MODULE ManagedRuntime ---------------------------
(***************************************************************************)
(* The private Python runtime of managed_python.rs: running copies of the  *)
(* application install, verify and remove one directory, keep installs     *)
(* apart by a file lock, and each runs one AgentFuse bridge at a time in   *)
(* it, for the settings view and for the decisions of its actions.         *)
(***************************************************************************)
EXTENDS Naturals, FiniteSets

CONSTANTS
    Instances,    \* running copies of the application
    None,         \* no instance
    MaxAsks,      \* bound: requests of all of them
    MaxCrashes,   \* bound
    MaxFailures   \* bound: renames that fail, damage done from outside

VARIABLES
    profile,     \* the installed directory
    aside,       \* the one a promotion moved aside
    installing,  \* whose directories of an install are on disk
    lock,        \* who holds the file lock
    op,          \* instance -> its operation, "idle" when operation_active is clear
    bridge,      \* instance -> its bridge session, "idle" when bridge_active is clear
    waits,       \* instance -> a decision is awaited in the window
    window,      \* instance -> what its settings view shows, and what it is busy with
    kept,        \* history: a runtime was installed, nobody removed or damaged it
    asks, crashes, failures

disk == <<profile, aside, installing, lock, kept>>
session == <<bridge, waits>>
bounds == <<asks, crashes, failures>>
vars == <<disk, op, session, window, bounds>>

Profiles == {"absent", "whole", "broken", "partial"}

\* inspect_runtime; whoever verifies finds a partial tree broken.
Inspect(p) ==
    IF p = "absent" THEN "NotInstalled" ELSE IF p = "whole" THEN "Ready" ELSE "Broken"

Fails == failures < MaxFailures /\ failures' = failures + 1

-----------------------------------------------------------------------------
(* The settings view. *)

\* The buttons of the view.
Offered(kind, info) ==
    CASE kind = "provision" -> info \in {"NotInstalled", "Broken"}
      [] kind \in {"verify", "check"} -> info = "Ready"
      [] kind = "remove" -> info \in {"Ready", "Broken"}

\* The view is opened, or opened again while what it began goes on.
Open(i) ==
    /\ window' = [window EXCEPT ![i] = [info |-> Inspect(profile), busy |-> "no"]]
    /\ window' # window
    /\ UNCHANGED <<disk, op, session, bounds>>

MayAsk(i, kind) ==
    /\ asks < MaxAsks /\ asks' = asks + 1
    /\ window[i].busy = "no" /\ Offered(kind, window[i].info)

\* runRuntimeAction: an operation under way refuses the next, and the view looks again.
Ask(i, kind) ==
    /\ MayAsk(i, kind)
    /\ IF op[i] = "idle"
       THEN /\ op' = [op EXCEPT ![i] = kind]
            /\ window' = [window EXCEPT ![i].busy = "op"]
       ELSE /\ window' = [window EXCEPT ![i].info = Inspect(profile)]
            /\ UNCHANGED op
    /\ UNCHANGED <<disk, session, crashes, failures>>

\* An operation returns or fails to a view that may be gone; both ways it shows what
\* an inspection finds.
Return(i, found) ==
    /\ op' = [op EXCEPT ![i] = "idle"]
    /\ window' = IF window[i].busy = "op"
                 THEN [window EXCEPT ![i] = [info |-> Inspect(found), busy |-> "no"]]
                 ELSE window

-----------------------------------------------------------------------------
(* provision_runtime *)

\* The lock, what interrupted installs left behind, a directory for this one.
Lock(i) ==
    /\ op[i] = "provision"
    /\ IF lock = None
       THEN /\ lock' = i /\ installing' = {i}
            /\ op' = [op EXCEPT ![i] = "building"]
            /\ UNCHANGED window
       ELSE Return(i, profile) /\ UNCHANGED <<lock, installing>>
    /\ UNCHANGED <<profile, aside, kept, session, bounds>>

\* Every error of a provision: the directory is removed, the lock given back.
Fail(i, found) ==
    /\ Return(i, found)
    /\ lock' = None /\ installing' = installing \ {i}

\* A download, an archive, the layout or the verification of the new tree fails.
BuildFails(i) ==
    /\ op[i] = "building"
    /\ Fail(i, profile)
    /\ UNCHANGED <<profile, aside, kept, session, bounds>>

\* promote_runtime up to its first rename, of the new tree or of the old.
Promote(i) ==
    /\ op[i] = "building" /\ i \in installing
    /\ IF profile = "absent"
       THEN /\ profile' = "whole" /\ kept' = TRUE
            /\ installing' = installing \ {i}
            /\ op' = [op EXCEPT ![i] = "inspecting"]
            /\ UNCHANGED aside
       ELSE /\ aside' = profile /\ profile' = "absent"
            /\ op' = [op EXCEPT ![i] = "aside"]
            /\ UNCHANGED <<kept, installing>>
    /\ UNCHANGED <<lock, session, window, bounds>>

Land(i) ==
    /\ op[i] = "aside" /\ i \in installing
    /\ profile' = "whole" /\ kept' = TRUE
    /\ aside' = "absent" /\ installing' = installing \ {i}
    /\ op' = [op EXCEPT ![i] = "inspecting"]
    /\ UNCHANGED <<lock, session, window, bounds>>

\* The new tree cannot be renamed: the old one is put back.
PutBack(i) ==
    /\ op[i] = "aside"
    /\ Fails
    /\ profile' = aside /\ aside' = "absent"
    /\ Fail(i, aside)
    /\ UNCHANGED <<kept, session, asks, crashes>>

\* Nor can the old one; nothing looks for it any more.
NothingPutBack(i) ==
    /\ op[i] = "aside"
    /\ failures + 2 <= MaxFailures /\ failures' = failures + 2
    /\ aside' = "absent"
    /\ Fail(i, profile)
    /\ UNCHANGED <<profile, kept, session, asks, crashes>>

Installed(i) ==
    /\ op[i] = "inspecting"
    /\ Return(i, profile)
    /\ lock' = None
    /\ UNCHANGED <<profile, aside, installing, kept, session, bounds>>

-----------------------------------------------------------------------------
(* verify_runtime, remove_runtime *)

Verify(i) ==
    /\ op[i] = "verify"
    /\ Return(i, profile)
    /\ UNCHANGED <<disk, session, bounds>>

\* bridge_active is looked at once, of this instance alone.
CheckBridge(i) ==
    /\ op[i] = "remove"
    /\ IF bridge[i] = "idle"
       THEN op' = [op EXCEPT ![i] = "removing"] /\ UNCHANGED window
       ELSE Return(i, profile)
    /\ UNCHANGED <<disk, session, bounds>>

\* remove_dir_all, up to its first file.
Remove(i) ==
    /\ op[i] = "removing"
    /\ IF profile = "absent"
       THEN Return(i, profile) /\ UNCHANGED <<profile, kept>>
       ELSE /\ profile' = "partial" /\ kept' = FALSE
            /\ op' = [op EXCEPT ![i] = "deleting"]
            /\ UNCHANGED window
    /\ UNCHANGED <<aside, installing, lock, session, bounds>>

\* The directory goes, unless a file stays or another directory took its place.
Removed(i) ==
    /\ op[i] = "deleting"
    /\ profile' \in IF profile = "partial" THEN {"partial", "absent"} ELSE {profile}
    /\ Return(i, profile')
    /\ UNCHANGED <<aside, installing, lock, kept, session, bounds>>

-----------------------------------------------------------------------------
(* Bridge sessions: agentfuse_decide, self_check, run_bridge_session *)

\* requestDecision: an active bridge refuses it.
Decide(i) ==
    /\ asks < MaxAsks /\ asks' = asks + 1
    /\ ~waits[i] /\ bridge[i] = "idle"
    /\ bridge' = [bridge EXCEPT ![i] = "decide"]
    /\ waits' = [waits EXCEPT ![i] = TRUE]
    /\ UNCHANGED <<disk, op, window, crashes, failures>>

\* raceAbort: the caller is told, the native side is not.
Abort(i) ==
    /\ waits[i]
    /\ waits' = [waits EXCEPT ![i] = FALSE]
    /\ UNCHANGED <<disk, op, bridge, window, bounds>>

SelfCheck(i) ==
    /\ MayAsk(i, "check")
    /\ IF bridge[i] = "idle"
       THEN /\ bridge' = [bridge EXCEPT ![i] = "check"]
            /\ window' = [window EXCEPT ![i].busy = "check"]
       ELSE UNCHANGED <<bridge, window>>
    /\ UNCHANGED <<disk, op, waits, crashes, failures>>

\* The guard is dropped, and whoever still waits is answered.
EndSession(i, info) ==
    /\ bridge' = [bridge EXCEPT ![i] = "idle"]
    /\ waits' = [waits EXCEPT ![i] = FALSE]
    /\ window' = IF window[i].busy = "check"
                 THEN [window EXCEPT ![i] = [info |-> info, busy |-> "no"]]
                 ELSE window

\* The runtime is verified before the process is started in it.
Spawn(i) ==
    /\ bridge[i] \in {"decide", "check"}
    /\ IF profile = "whole"
       THEN bridge' = [bridge EXCEPT ![i] = "running"] /\ UNCHANGED <<waits, window>>
       ELSE EndSession(i, window[i].info)
    /\ UNCHANGED <<disk, op, bounds>>

\* The process answers or exits by itself, which it need not; the view looks again
\* after a self check that passed.
Answer(i) ==
    /\ bridge[i] = "running"
    /\ \E info \in {Inspect(profile), window[i].info} : EndSession(i, info)
    /\ UNCHANGED <<disk, op, bounds>>

\* wait_for_child_output: past the limit it is killed.
TimesOut(i) ==
    /\ bridge[i] = "running"
    /\ EndSession(i, window[i].info)
    /\ UNCHANGED <<disk, op, bounds>>

-----------------------------------------------------------------------------
(* What happens to an instance and to the directory. *)

\* The lock goes with the process, its directories stay.
Crash(i) ==
    /\ crashes < MaxCrashes /\ crashes' = crashes + 1
    /\ op' = [op EXCEPT ![i] = "idle"]
    /\ bridge' = [bridge EXCEPT ![i] = "idle"]
    /\ waits' = [waits EXCEPT ![i] = FALSE]
    /\ window' = [window EXCEPT ![i] = [info |-> "Loading", busy |-> "no"]]
    /\ lock' = IF lock = i THEN None ELSE lock
    /\ aside' = IF op[i] = "aside" THEN "absent" ELSE aside
    /\ UNCHANGED <<profile, installing, kept, asks, failures>>

Damage ==
    /\ profile = "whole" /\ profile' = "broken" /\ kept' = FALSE
    /\ Fails
    /\ UNCHANGED <<aside, installing, lock, op, session, window, asks, crashes>>

Init ==
    /\ profile \in {"absent", "broken"} /\ aside = "absent"
    /\ installing = {} /\ lock = None /\ kept = FALSE
    /\ op = [i \in Instances |-> "idle"] /\ bridge = [i \in Instances |-> "idle"]
    /\ waits = [i \in Instances |-> FALSE]
    /\ window = [i \in Instances |-> [info |-> "Loading", busy |-> "no"]]
    /\ asks = 0 /\ crashes = 0 /\ failures = 0

OpStep(i) ==
    \/ Lock(i) \/ BuildFails(i) \/ Promote(i) \/ Land(i) \/ PutBack(i)
    \/ NothingPutBack(i) \/ Installed(i) \/ Verify(i) \/ CheckBridge(i) \/ Remove(i)
    \/ Removed(i)

Kinds == {"provision", "verify", "remove"}

Next ==
    \/ \E i \in Instances :
         \/ Open(i) \/ \E kind \in Kinds : Ask(i, kind)
         \/ OpStep(i)
         \/ Decide(i) \/ Abort(i) \/ SelfCheck(i) \/ Spawn(i) \/ Answer(i) \/ TimesOut(i)
         \/ Crash(i)
    \/ Damage

\* A worker thread goes on, and the loop that waits for the process does.
Fairness ==
    \A i \in Instances : WF_vars(OpStep(i)) /\ WF_vars(Spawn(i) \/ TimesOut(i))

Spec == Init /\ [][Next]_vars /\ Fairness

-----------------------------------------------------------------------------
(* Properties. *)

TypeOK ==
    /\ {profile, aside} \subseteq Profiles
    /\ installing \subseteq Instances /\ lock \in Instances \cup {None}
    /\ \A i \in Instances :
         /\ op[i] \in Kinds \cup {"idle", "building", "aside", "inspecting", "removing",
                                  "deleting"}
         /\ bridge[i] \in {"idle", "decide", "check", "running"}
         /\ window[i].info \in {"Loading", "NotInstalled", "Ready", "Broken"}
         /\ window[i].busy \in {"no", "op", "check"}

\* An install under way has its directory until it is promoted or fails: the recovery
\* of interrupted installs takes nobody's but theirs.
InstallsStand ==
    \A i \in Instances : op[i] \in {"building", "aside"} => i \in installing /\ lock = i

\* A runtime that was installed stays, or is moved aside by a promotion, until somebody
\* removes or damages it: repairs that fail, of copies that saw it broken long ago,
\* give it back, unless the process dies or the file system fails twice meanwhile.
InstalledStays ==
    kept /\ crashes = 0 /\ failures < 2 => "whole" \in {profile, aside}

\* Nothing but the lock's holder has a runtime aside, and after the crash of an install
\* the next one leaves no directory behind.
NothingLeftBehind ==
    /\ aside # "absent" => \E i \in Instances : op[i] = "aside"
    /\ \A i \in Instances : op[i] = "inspecting" => installing = {}

\* No operation and no bridge session is under way, and no view is busy.
Quiet ==
    \A i \in Instances :
        op[i] = "idle" /\ bridge[i] = "idle" /\ ~waits[i] /\ window[i].busy = "no"
=============================================================================
