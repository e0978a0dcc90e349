-------------------------- MODULE MCSessionLedger --------------------------
(***************************************************************************)
(* SessionLedger on one patch, one command and one generic action, with    *)
(* the entries the live agent, the recovered-action view and the recovery  *)
(* service can build over two approvals, decisions and receipts.           *)
(***************************************************************************)
EXTENDS SessionLedger, TLC

CONSTANTS p1, c1, a1,          \* a patch, a command, a generic action
          NoteStatuses,        \* runtime statuses notes and proposals carry
          EndKinds,            \* how callers end a session
          Generations          \* approval generations callers name

KindOf(a) == CASE a = p1 -> "patch" [] a = c1 -> "command" [] OTHER -> "action"

About(type, a) ==
  [BlankEntry EXCEPT !.type = type, !.kind = KindOf(a), !.action = a]

(* The task statuses under which a pending action of this kind is recorded *)
ProposalStatuses(a) ==
  NoteStatuses \cap
    CASE a = p1 -> {"Streaming", "WaitingForPatchApproval"}
      [] a = c1 -> {"WaitingForCommandApproval", None}
      [] OTHER -> {None}

Proposals ==
  UNION {{[About("PROPOSED", a) EXCEPT !.runtimeStatus = s] :
            s \in ProposalStatuses(a)} : a \in Actions}

Approved ==
  {[About("APPROVED", a) EXCEPT !.approval = ap, !.generation = g] :
     a \in Actions, ap \in Approvals, g \in Generations}

Decided ==
  {[About("DECIDED", a) EXCEPT !.approval = ap, !.generation = g,
      !.decision = d, !.verdict = v, !.bound = b] :
     a \in Actions, ap \in Approvals, g \in Generations, d \in Decisions,
     v \in {"allow", "deny", "hold"}, b \in BOOLEAN}

(* Also starts whose entry type belongs to another kind of action. *)
Started ==
  UNION {{[About("STARTED", a) EXCEPT !.approval = ap, !.generation = g,
             !.decision = d, !.receipt = r, !.kind = k] :
            ap \in Approvals, g \in Generations, d \in Decisions \cup {None},
            r \in Receipts, k \in {KindOf(a), "patch"}} : a \in Actions}

Settled ==
  {[About(type, a) EXCEPT !.approval = ap, !.generation = g, !.receipt = r] :
     type \in {"COMPLETED", "ACTION_FAILED"},
     a \in Actions, ap \in Approvals, g \in Generations, r \in Receipts}

Notes == {[BlankEntry EXCEPT !.runtimeStatus = s] : s \in NoteStatuses}

Ends == {[BlankEntry EXCEPT !.type = "ENDED", !.ended = s] :
           s \in EndKinds}

MCInputs ==
  Proposals \cup Approved \cup Decided \cup Started \cup Settled \cup Notes
    \cup Ends
    \cup {About("DENIED", a) : a \in Actions}
    \cup {[BlankEntry EXCEPT !.type = "RECOVERY_COMPLETED"], InterruptEntry}

Symmetry ==
  Permutations(Approvals) \cup Permutations(Decisions)
    \cup Permutations(Receipts)

=============================================================================
