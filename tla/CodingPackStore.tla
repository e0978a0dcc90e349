-------------------------- MODULE CodingPackStore --------------------------
(***************************************************************************)
(* The durable record of one Coding Pack export: the row and the events of *)
(* @qodex/coding-pack-store, its writers (the store, the AgentFuse         *)
(* coordinator and the native export), which read, await and then append,  *)
(* and its reader, which accepts a row only when the whole chronology      *)
(* holds.                                                                  *)
(*                                                                         *)
(* Digests and identities are values that match by construction; times are *)
(* the clock of the machine, which may be set back between two calls.      *)
(***************************************************************************)
EXTENDS Integers, Sequences

CONSTANTS None,
          Callers,     \* calls of the webview that may be under way at once
          Lifetime,    \* DEFAULT_LIFETIME_MS
          MaxLifetime, \* CODING_PACK_MAX_PROPOSAL_LIFETIME_MS, and approval's
          Skew,        \* MAX_CLOCK_SKEW_MS
          MaxTime,     \* bound: the clock
          MaxSetbacks  \* bound: how often the clock is set back

VARIABLES
  clock,       \* Date and database_timestamp
  setbacks,
  row,         \* the operation's row, or None
  events,      \* its events
  evaluating,  \* activeEvaluations holds the operation
  call         \* what each caller awaits

vars == <<clock, setbacks, row, events, evaluating, call>>

Times == 0 .. MaxTime + MaxLifetime

(* One event: when it was recorded, the two times of its payload (created  *)
(* and expires, approved and expires, evaluation started and decided), and *)
(* the decision of a PACK_DECIDED.                                         *)
Event(type, at, from, until, verdict) ==
  [type |-> type, at |-> at, from |-> from, until |-> until,
   verdict |-> verdict]

NoEvent == Event(None, 0, 0, 0, None)

Idle == [pc |-> "idle", event |-> NoEvent]

Awaits(c, pc, e) == call' = [call EXCEPT ![c] = [pc |-> pc, event |-> e]]

Returns(c) == call' = [call EXCEPT ![c] = Idle]

Proposal == events[1]
Approval == events[2]
Decision == events[3]

DecidedState(verdict) ==
  CASE verdict = "allow" -> "decided_allow"
    [] verdict = "deny"  -> "decided_deny"
    [] OTHER             -> "decided_error"

Row(state, seq) == [state |-> state, seq |-> seq]

-----------------------------------------------------------------------------
(* What the reader accepts.                                                *)

Lives(e) == e.from < e.until /\ e.until - e.from <= MaxLifetime

ProposalIsValid(p) == p.type = "PACK_PROPOSED" /\ p.at = p.from /\ Lives(p)

(* The approval of proposal p, whenever it is read. *)
ApprovalIsValid(p, a) ==
  /\ a.type = "PACK_CONFIRMED"
  /\ Lives(a)
  /\ a.from < p.until /\ a.until <= p.until

FollowsProposal(p, a) == a.at = a.from /\ a.from >= p.from

DecisionIsValid(p, a, d) ==
  /\ d.type = "PACK_DECIDED" /\ d.at = d.until
  /\ a.from <= d.from /\ d.from < a.until /\ d.from < p.until
  /\ d.from <= d.until
  /\ d.verdict # "error" => d.until < a.until /\ d.until < p.until

StartIsValid(p, a, d, s) ==
  /\ s.type = "PACK_EXPORT_STARTED" /\ s.at = s.from
  /\ d.verdict = "allow"
  /\ d.until <= s.from /\ s.from < p.until /\ s.from < a.until

EndIsValid(s, f) ==
  /\ f.type \in {"PACK_EXPORT_COMPLETED", "PACK_EXPORT_INTERRUPTED"}
  /\ f.at = f.from /\ s.from <= f.from

StateOf(es) ==
  CASE Len(es) = 1 -> "proposed"
    [] Len(es) = 2 -> "confirmed"
    [] Len(es) = 3 -> DecidedState(es[3].verdict)
    [] Len(es) = 4 -> "export_started"
    [] OTHER -> IF es[5].type = "PACK_EXPORT_COMPLETED"
                  THEN "export_completed" ELSE "export_interrupted"

Reconstructs(r, es) ==
  /\ Len(es) \in 1..5
  /\ r.seq = Len(es)
  /\ r.state = StateOf(es)
  /\ ProposalIsValid(es[1])
  /\ Len(es) >= 2 => ApprovalIsValid(es[1], es[2])
                       /\ FollowsProposal(es[1], es[2])
  /\ Len(es) >= 3 => DecisionIsValid(es[1], es[2], es[3])
  /\ Len(es) >= 4 => StartIsValid(es[1], es[2], es[3], es[4])
  /\ Len(es) >= 5 => EndIsValid(es[4], es[5])

(* The snapshot a caller reads is in this state. *)
ReadsState(state) ==
  row # None /\ Reconstructs(row, events) /\ row.state = state

-----------------------------------------------------------------------------
(* The proposal.                                                           *)

Create(c) ==
  /\ call[c] = Idle
  /\ row = None
  /\ events' = <<Event("PACK_PROPOSED", clock, clock, clock + Lifetime, None)>>
  /\ row' = Row("proposed", 1)
  /\ UNCHANGED <<clock, setbacks, evaluating, call>>

-----------------------------------------------------------------------------
(* The user's approval: built, checked against a snapshot, then appended.  *)

(* createCodingPackExportApproval: approved now or at a time given, for as *)
(* long as asked.                                                          *)
CandidateApproval(e) ==
  /\ e \in {Event("PACK_CONFIRMED", t, t, u, None) : t, u \in Times}
  /\ e.from <= clock + Skew
  /\ Lives(e)

Confirm(c) ==
  /\ call[c] = Idle
  /\ ReadsState("proposed")
  /\ clock < Proposal.until
  /\ \E e \in {Event("PACK_CONFIRMED", t, t, u, None) : t, u \in Times} :
       /\ CandidateApproval(e)
       /\ ApprovalIsValid(Proposal, e)
       /\ clock < e.until
       /\ Awaits(c, "confirming", e)
  /\ UNCHANGED <<clock, setbacks, row, events, evaluating>>

(* Mutant: the adapters of the browser and the tests, which look at   *)
(* the state and the sequence only: an approval dated before its proposal. *)
BrowserConfirms(e) == TRUE

(* The native side validates the pair again. *)
AdapterConfirms(e) ==
  /\ ApprovalIsValid(Proposal, e) /\ FollowsProposal(Proposal, e)
  /\ clock < Proposal.until /\ clock < e.until

AppendConfirmation(c) ==
  /\ call[c].pc = "confirming"
  /\ LET e == call[c].event
     IN IF row.state = "proposed" /\ row.seq = 1 /\ AdapterConfirms(e)
          THEN /\ row' = Row("confirmed", 2)
               /\ events' = Append(events, e)
          ELSE UNCHANGED <<row, events>>
  /\ Returns(c)
  /\ UNCHANGED <<clock, setbacks, evaluating>>

-----------------------------------------------------------------------------
(* The policy decision, one evaluation at a time in this process.          *)

InWindow == clock < Proposal.until /\ clock < Approval.until

(* finally: activeEvaluations forgets the operation. *)
EvaluationEnds(c) == evaluating' = FALSE /\ Returns(c)

Evaluate(c) ==
  /\ call[c] = Idle
  /\ ~evaluating
  /\ evaluating' = TRUE
  /\ Awaits(c, "reading", NoEvent)
  /\ UNCHANGED <<clock, setbacks, row, events>>

ReadForEvaluation(c) ==
  /\ call[c].pc = "reading"
  /\ IF ReadsState("confirmed") /\ InWindow
       THEN Awaits(c, "verifying", NoEvent) /\ UNCHANGED evaluating
       ELSE EvaluationEnds(c)
  /\ UNCHANGED <<clock, setbacks, row, events>>

VerifyDestination(c, available) ==
  /\ call[c].pc = "verifying"
  /\ IF available /\ InWindow
       THEN /\ Awaits(c, "asking", Event("PACK_DECIDED", 0, clock, 0, None))
            /\ UNCHANGED evaluating
       ELSE EvaluationEnds(c)
  /\ UNCHANGED <<clock, setbacks, row, events>>

Answered(c, verdict, at) ==
  Awaits(c, "recording",
         [call[c].event EXCEPT !.verdict = verdict, !.at = at, !.until = at])

(* The bridge answers with a time of its own; a late answer is an error.   *)
BridgeAnswers(c, verdict, at) ==
  /\ call[c].pc = "asking"
  /\ LET late == at >= Proposal.until \/ at >= Approval.until
     IN Answered(c, IF late THEN "error" ELSE verdict, at)
  /\ UNCHANGED <<clock, setbacks, row, events, evaluating>>

(* It fails, times out or answers badly. *)
BridgeFails(c) ==
  /\ call[c].pc = "asking"
  /\ LET from == call[c].event.from
     IN Answered(c, "error", IF clock >= from THEN clock ELSE from)
  /\ UNCHANGED <<clock, setbacks, row, events, evaluating>>

RecordDecision(c) ==
  /\ call[c].pc = "recording"
  /\ LET d == call[c].event
     IN IF /\ ReadsState("confirmed")
           /\ DecisionIsValid(Proposal, Approval, d)
           /\ d.from <= clock + Skew /\ d.until <= clock + Skew
          THEN Awaits(c, "deciding", d) /\ UNCHANGED evaluating
          ELSE EvaluationEnds(c)
  /\ UNCHANGED <<clock, setbacks, row, events>>

AdapterDecides(d) == DecisionIsValid(Proposal, Approval, d)

AppendDecision(c) ==
  /\ call[c].pc = "deciding"
  /\ LET d == call[c].event
     IN IF row.state = "confirmed" /\ row.seq = 2 /\ AdapterDecides(d)
          THEN /\ row' = Row(DecidedState(d.verdict), 3)
               /\ events' = Append(events, d)
          ELSE UNCHANGED <<row, events>>
  /\ EvaluationEnds(c)
  /\ UNCHANGED <<clock, setbacks>>

-----------------------------------------------------------------------------
(* The native export's own writes, each one transaction.                   *)

NativeWrites(state, type) ==
  /\ row' = Row(state, Len(events) + 1)
  /\ events' = Append(events, Event(type, clock, clock, clock, None))
  /\ UNCHANGED <<clock, setbacks, evaluating, call>>

BeginNativeExport ==
  /\ row # None /\ row.state = "decided_allow" /\ row.seq = 3
  /\ Decision.verdict = "allow"
  /\ Decision.until <= clock /\ InWindow
  /\ NativeWrites("export_started", "PACK_EXPORT_STARTED")

EndNativeExport(state, type) ==
  /\ row # None /\ row.state = "export_started" /\ row.seq = 4
  /\ events[4].from <= clock
  /\ NativeWrites(state, type)

RecordNativeExportCompleted ==
  EndNativeExport("export_completed", "PACK_EXPORT_COMPLETED")

RecordNativeExportInterrupted ==
  EndNativeExport("export_interrupted", "PACK_EXPORT_INTERRUPTED")

-----------------------------------------------------------------------------
(* The clock, and a restart between any two steps.                         *)

Tick ==
  /\ clock < MaxTime
  /\ clock' = clock + 1
  /\ UNCHANGED <<setbacks, row, events, evaluating, call>>

SetBack ==
  /\ setbacks < MaxSetbacks
  /\ \E t \in 0..MaxTime : t < clock /\ clock' = t
  /\ setbacks' = setbacks + 1
  /\ UNCHANGED <<row, events, evaluating, call>>

Restart ==
  /\ \E c \in Callers : call[c] # Idle
  /\ call' = [c \in Callers |-> Idle]
  /\ evaluating' = FALSE
  /\ UNCHANGED <<clock, setbacks, row, events>>

Init ==
  /\ clock = 0 /\ setbacks = 0
  /\ row = None /\ events = <<>>
  /\ evaluating = FALSE
  /\ call = [c \in Callers |-> Idle]

Step(c) ==
  \/ AppendConfirmation(c)
  \/ ReadForEvaluation(c)
  \/ \E available \in BOOLEAN : VerifyDestination(c, available)
  \/ \E verdict \in {"allow", "deny"}, at \in Times :
       BridgeAnswers(c, verdict, at)
  \/ BridgeFails(c)
  \/ RecordDecision(c)
  \/ AppendDecision(c)

Next ==
  \/ \E c \in Callers : Create(c) \/ Confirm(c) \/ Evaluate(c) \/ Step(c)
  \/ BeginNativeExport
  \/ RecordNativeExportCompleted
  \/ RecordNativeExportInterrupted
  \/ Tick \/ SetBack \/ Restart

Spec == Init /\ [][Next]_vars

(* What a call awaits settles: the adapter answers, the managed bridge     *)
(* answers or times out.                                                   *)
FairSpec == Spec /\ \A c \in Callers : WF_vars(Step(c))

-----------------------------------------------------------------------------
EventTypes ==
  {None, "PACK_PROPOSED", "PACK_CONFIRMED", "PACK_DECIDED",
   "PACK_EXPORT_STARTED", "PACK_EXPORT_COMPLETED", "PACK_EXPORT_INTERRUPTED"}

EventRecord ==
  [type : EventTypes, at : Int, from : Int, until : Int,
   verdict : {None, "allow", "deny", "error"}]

OperationRow ==
  [state : {"proposed", "confirmed", "decided_allow", "decided_deny",
            "decided_error", "export_started", "export_completed",
            "export_interrupted"},
   seq : Nat]

TypeOK ==
  /\ clock \in 0..MaxTime /\ setbacks \in 0..MaxSetbacks
  /\ row \in OperationRow \cup {None}
  /\ events \in Seq(EventRecord)
  /\ evaluating \in BOOLEAN
  /\ \A c \in Callers :
       /\ call[c].pc \in {"idle", "confirming", "reading", "verifying",
                          "asking", "recording", "deciding"}
       /\ call[c].event \in EventRecord

(* Every row that was ever written can be read back: the checks its four   *)
(* writers make before they append, each from a snapshot of its own and by *)
(* a clock of its own, imply the checks of reconstructSnapshot.  One row   *)
(* that does not fails listCodingPackOperations for all of them.           *)
RowsReadBack == row # None => Reconstructs(row, events)

(* While AgentFuse is asked about an export, the export is confirmed and   *)
(* nobody else asks: the bridge decides each approval for one caller.      *)
AsksOnceConfirmed ==
  \A c \in Callers : call[c].pc \in {"asking", "recording", "deciding"} =>
    /\ row.state = "confirmed"
    /\ \A o \in Callers \ {c} : call[o].pc \notin
         {"verifying", "asking", "recording", "deciding"}

(* An evaluation ends, however it ends, and lets the next one in: a failed *)
(* bridge does not leave the operation "in progress" for ever.             *)
Quiet == ~evaluating
=============================================================================
