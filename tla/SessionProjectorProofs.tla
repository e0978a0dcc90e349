----------------------- MODULE SessionProjectorProofs -----------------------
(***************************************************************************)
(* What the replay of one accepted entry does to a projection, whoever     *)
(* keeps the ledger: the facts that the proofs about SessionLedger and     *)
(* CommandGate need of SessionProjector.                                    *)
(***************************************************************************)
EXTENDS SessionProjector, TLAPS

(* The replay of an accepted entry yields a well-formed projection.        *)
LEMMA AfterType ==
  ASSUME NEW p \in Projection, NEW e \in Entry, Accepts(p, e)
  PROVE  After(p, e) \in Projection
<1>1. CASE e.type = "PROPOSED"
  <2>1. Proposed(e) \in Pending
    BY <1>1 DEF Accepts, Proposed, Pending, Entry, EntryRecord
  <2> QED BY <1>1, <2>1 DEF After, Projection
<1>2. CASE e.type = "APPROVED"
  <2> DEFINE q == [p.pending EXCEPT !.approved = TRUE,
                                    !.approval = e.approval,
                                    !.recoveryRequired = FALSE]
             ids == p.approvalIds \cup {e.approval}
  <2>1. p.pending \in Pending /\ e.approval \in Approvals
    BY <1>2 DEF Accepts, AcceptsApproval, Targets, Projection, Entry,
                EntryRecord
  <2>2. q \in Pending
    BY <2>1 DEF Pending
  <2>3. ids \in SUBSET Approvals
    BY <2>1 DEF Projection
  <2>4. After(p, e) = [p EXCEPT !.status = "Active", !.requirement = None,
                                !.approvalIds = ids, !.pending = q]
    BY <1>2, Zenon DEF After, AfterApproval
  <2> HIDE DEF q, ids
  <2> QED BY <2>2, <2>3, <2>4 DEF Projection, SessionStatuses
<1>3. CASE e.type = "DECIDED"
  <2> DEFINE q == [p.pending EXCEPT !.verdict = e.verdict,
                                    !.decision = e.decision]
             ids == p.decisionIds \cup {e.decision}
  <2>1. p.pending \in Pending /\ e.decision \in Decisions
    BY <1>3 DEF Accepts, AcceptsDecision, Targets, Projection, Entry,
                EntryRecord
  <2>2. q \in Pending
    BY <2>1 DEF Pending, Entry, EntryRecord
  <2>3. ids \in SUBSET Decisions
    BY <2>1 DEF Projection
  <2>4. After(p, e) = IF e.verdict = "allow"
                        THEN [p EXCEPT !.decisionIds = ids, !.pending = q]
                        ELSE [p EXCEPT !.decisionIds = ids, !.pending = None,
                                       !.requirement = None]
    BY <1>3, Zenon DEF After, AfterDecision
  <2> HIDE DEF q, ids
  <2>5. CASE e.verdict = "allow"
    BY <2>2, <2>3, <2>4, <2>5 DEF Projection
  <2>6. CASE e.verdict # "allow"
    BY <2>3, <2>4, <2>6 DEF Projection
  <2> QED BY <2>5, <2>6
<1>4. CASE e.type \in {"DENIED", "COMPLETED"}
  BY <1>4 DEF After, Projection
<1>5. CASE e.type = "STARTED"
  <2> DEFINE q == [p.pending EXCEPT !.started = TRUE, !.receipt = e.receipt]
  <2>1. p.pending \in Pending
    BY <1>5 DEF Accepts, AcceptsStart, Targets, Projection
  <2>2. q \in Pending
    BY <2>1 DEF Pending, Entry, EntryRecord
  <2>3. After(p, e) = [p EXCEPT !.pending = q]
    BY <1>5, Zenon DEF After
  <2> HIDE DEF q
  <2> QED BY <2>2, <2>3 DEF Projection
<1>6. CASE e.type = "ACTION_FAILED"
  BY <1>6 DEF After, Projection
<1>7. CASE e.type = "RECOVERY_REQUIRED"
  <2> DEFINE q == IF p.pending = None THEN None
                  ELSE IF e.reason = "interrupted" THEN Withdrawn(p.pending)
                  ELSE Reopened(p.pending)
             s == IF e.reason = "interrupted" THEN "Interrupted"
                                              ELSE "RecoveryRequired"
  <2>1. ASSUME p.pending # None
        PROVE  Withdrawn(p.pending) \in Pending /\ Reopened(p.pending) \in Pending
    <3>1. p.pending \in Pending
      BY <2>1 DEF Projection
    <3>2. Withdrawn(p.pending) \in Pending
      BY <3>1 DEF Pending, Withdrawn
    <3>3. p.pending.generation + 1 \in Nat
      BY <3>1 DEF Pending
    <3> QED BY <3>2, <3>3 DEF Pending, Reopened
  <2>2. q \in Pending \cup {None}
    BY <2>1
  <2>3. s \in SessionStatuses
    BY DEF SessionStatuses
  <2>4. e.reason \in Reasons
    BY <1>7 DEF Entry, EntryRecord
  <2>5. After(p, e) = [p EXCEPT !.status = s, !.requirement = e.reason,
                                !.pending = q]
    BY <1>7, Zenon DEF After, AfterRecoveryRequired
  <2> HIDE DEF q, s
  <2> QED BY <2>2, <2>3, <2>4, <2>5 DEF Projection
<1>8. CASE e.type = "RECOVERY_COMPLETED"
  BY <1>8 DEF After, Projection, SessionStatuses
<1>9. CASE e.type = "SESSION_INTERRUPTED"
  <2>1. ASSUME p.pending # None PROVE Withdrawn(p.pending) \in Pending
    BY <2>1 DEF Projection, Pending, Withdrawn
  <2> QED BY <1>9, <2>1 DEF After, Projection, SessionStatuses, Reasons
<1>10. CASE e.type = "ENDED"
  BY <1>10 DEF After, Projection, SessionStatuses, Entry, EntryRecord
<1>11. CASE e.type \in {"SESSION_CREATED", "NOTE"}
  BY <1>11 DEF After
<1> QED
  BY <1>1, <1>2, <1>3, <1>4, <1>5, <1>6, <1>7, <1>8, <1>9, <1>10, <1>11
  DEF Entry, EntryRecord, EntryTypes

(* What recovery can append is a well-formed entry.                        *)
LEMMA RecoveryEntries ==
  ASSUME NEW p \in Projection
  PROVE  /\ InterruptEntry \in Entry
         /\ \A why \in Reapprovals : ReapprovalEntry(p, why) \in Entry
         /\ \A s \in {"Done", "Failed", "Cancelled", "LimitReached"} :
              EndedBy(s) \in Entry
<1>1. InterruptEntry \in Entry
  BY DEF InterruptEntry, BlankEntry, Entry, EntryRecord, EntryTypes
<1>2. ASSUME NEW why \in Reapprovals
      PROVE  ReapprovalEntry(p, why) \in Entry
  <2> DEFINE g == IF p.pending = None THEN 1 ELSE p.pending.generation + 1
  <2>1. g \in Nat
    BY DEF Projection, Pending
  <2> HIDE DEF g
  <2>2. ReapprovalEntry(p, why)
          = [BlankEntry EXCEPT !.type = "RECOVERY_REQUIRED", !.reason = why,
                               !.generation = g]
    BY DEF ReapprovalEntry, g
  <2>3. why \in Reasons /\ why # None
    BY NoneIsAbsent DEF Reasons, Reapprovals
  <2> QED
    BY <2>1, <2>2, <2>3 DEF BlankEntry, Entry, EntryRecord, EntryTypes
<1>3. ASSUME NEW s \in {"Done", "Failed", "Cancelled", "LimitReached"}
      PROVE  EndedBy(s) \in Entry
  BY NoneIsAbsent
  DEF EndedBy, BlankEntry, Entry, EntryRecord, EntryTypes, EndStatuses
<1> QED BY <1>1, <1>2, <1>3

-----------------------------------------------------------------------------
(* What is said of the pending action in one place of a projection agrees  *)
(* with what is said of it in another.                                     *)
ProjectionSound(p) ==
  /\ p.status \in EndStatuses => p.pending = None
  /\ p.pending # None =>
       /\ p.pending.decision = None <=> p.pending.verdict = None
       /\ p.pending.approved => p.requirement = None
       /\ p.pending.started => p.requirement \notin Reapprovals
       /\ p.pending.started /\ ~p.pending.approved => p.status = "Interrupted"

(* Action a is pending and may still be started.                           *)
InPlay(p, a) ==
  p.pending # None /\ p.pending.action = a /\ ~p.pending.started

LEMMA FirstIsSound ==
  FirstProjection \in Projection /\ ProjectionSound(FirstProjection)
  BY DEF FirstProjection, Projection, ProjectionSound, SessionStatuses,
     EndStatuses

(* An interruption keeps the identity of what it withdraws.                *)
LEMMA WithdrawnType ==
  ASSUME NEW p \in Projection, p.pending # None,
         NEW w \in {Withdrawn(p.pending), Reopened(p.pending)}
  PROVE  /\ w \in Pending /\ w # None
         /\ w.action = p.pending.action /\ w.started = p.pending.started
<1>1. p.pending \in Pending /\ None \notin Pending
  BY NoneIsAbsent DEF Projection
<1>2. Withdrawn(p.pending) \in Pending
  BY <1>1 DEF Withdrawn, Pending
<1>3. p.pending.generation + 1 \in Nat
  BY <1>1 DEF Pending
<1>4. CASE w = Withdrawn(p.pending)
  BY <1>1, <1>2, <1>4 DEF Withdrawn, Pending
<1>5. CASE w = Reopened(p.pending)
  <2>1. w \in Pending
    BY <1>2, <1>3, <1>5 DEF Reopened, Pending
  <2> QED
    BY <1>1, <1>2, <2>1, <1>5 DEF Withdrawn, Reopened, Pending
<1> QED
  BY <1>4, <1>5

LEMMA AfterSound ==
  ASSUME NEW p \in Projection, NEW e \in Entry, Accepts(p, e),
         ProjectionSound(p)
  PROVE  ProjectionSound(After(p, e))
<1>1. CASE e.type \in {"SESSION_CREATED", "NOTE"}
  BY <1>1 DEF After
<1>2. CASE e.type = "PROPOSED"
  BY <1>2 DEF After, Proposed, Projection, ProjectionSound, Accepts
<1>3. CASE e.type = "APPROVED"
  <2> DEFINE q == [p.pending EXCEPT !.approved = TRUE, !.approval = e.approval,
                                    !.recoveryRequired = FALSE]
  <2>1. /\ After(p, e).pending = q /\ After(p, e).status = "Active"
        /\ After(p, e).requirement = None
    BY <1>3 DEF After, AfterApproval, Projection
  <2>2. p.pending \in Pending /\ p.pending # None /\ ~p.pending.started
    BY <1>3 DEF Accepts, AcceptsApproval, Targets, Projection
  <2>3. /\ q.started = p.pending.started /\ q.verdict = p.pending.verdict
        /\ q.decision = p.pending.decision
    BY <2>2 DEF Pending
  <2> HIDE DEF q
  <2> QED
    BY <2>1, <2>2, <2>3 DEF ProjectionSound, EndStatuses
<1>4. CASE e.type = "DECIDED"
  <2> DEFINE q == [p.pending EXCEPT !.verdict = e.verdict,
                                    !.decision = e.decision]
  <2>1. p.pending \in Pending /\ p.pending # None /\ ~p.pending.started
        /\ e.decision # None /\ e.verdict # None /\ p.status \notin EndStatuses
    BY <1>4 DEF Accepts, AcceptsDecision, Targets, Projection
  <2>2. /\ After(p, e).pending \in {None, q} /\ After(p, e).status = p.status
        /\ After(p, e).pending # None =>
             After(p, e).requirement = p.requirement
    BY <1>4 DEF After, AfterDecision, Projection
  <2>3. /\ q.started = p.pending.started /\ q.verdict = e.verdict
        /\ q.decision = e.decision /\ q.approved = p.pending.approved
    BY <2>1 DEF Pending
  <2> HIDE DEF q
  <2> QED
    BY <2>1, <2>2, <2>3 DEF ProjectionSound
<1>5. CASE e.type \in {"DENIED", "COMPLETED", "ACTION_FAILED"}
  BY <1>5 DEF After, Projection, ProjectionSound
<1>6. CASE e.type = "STARTED"
  <2> DEFINE q == [p.pending EXCEPT !.started = TRUE, !.receipt = e.receipt]
  <2>1. p.pending \in Pending /\ p.pending # None /\ p.pending.approved
        /\ p.status \notin EndStatuses
    BY <1>6 DEF Accepts, AcceptsStart, Targets, Projection
  <2>2. After(p, e).pending = q /\ After(p, e).status = p.status
        /\ After(p, e).requirement = p.requirement
    BY <1>6 DEF After, Projection
  <2>3. /\ q.verdict = p.pending.verdict /\ q.decision = p.pending.decision
        /\ q.approved
    BY <2>1 DEF Pending
  <2>4. None \notin Reapprovals
    BY NoneIsAbsent DEF Reasons
  <2> HIDE DEF q
  <2> QED
    BY <2>1, <2>2, <2>3, <2>4 DEF ProjectionSound
<1>7. CASE e.type \in {"RECOVERY_REQUIRED", "SESSION_INTERRUPTED"}
  <2> DEFINE w == Withdrawn(p.pending)
             r == Reopened(p.pending)
  <2>1. ASSUME p.pending # None
        PROVE  /\ w.started = p.pending.started /\ ~w.approved
               /\ w.verdict = p.pending.verdict
               /\ w.decision = p.pending.decision
               /\ r.started = p.pending.started /\ ~r.approved
               /\ r.verdict = None /\ r.decision = None
    <3>1. p.pending \in Pending
      BY <2>1 DEF Projection
    <3>2. w \in Pending
      BY <3>1 DEF Withdrawn, Pending
    <3> QED
      BY <3>1, <3>2 DEF Withdrawn, Reopened, Pending
  <2>2. \/ /\ After(p, e).status = "Interrupted"
           /\ After(p, e).requirement = "interrupted"
           /\ After(p, e).pending = IF p.pending = None THEN None ELSE w
        \/ /\ After(p, e).status = "RecoveryRequired"
           /\ e.reason \in Reapprovals
           /\ e.type = "RECOVERY_REQUIRED" /\ e.reason # "interrupted"
           /\ After(p, e).pending = IF p.pending = None THEN None ELSE r
    <3>1. e.type = "RECOVERY_REQUIRED" => e.reason \in Reasons
      BY DEF Entry, EntryRecord
    <3> QED
      BY <1>7, <3>1 DEF After, AfterRecoveryRequired, Projection, Reasons
  <2>3. e.type = "RECOVERY_REQUIRED" /\ e.reason # "interrupted"
        /\ p.pending # None => ~p.pending.started
    BY DEF Accepts, AcceptsReapproval
  <2> HIDE DEF w, r
  <2> QED
    BY <2>1, <2>2, <2>3 DEF ProjectionSound, EndStatuses, Reapprovals
<1>8. CASE e.type \in {"RECOVERY_COMPLETED", "ENDED"}
  BY <1>8 DEF After, Projection, ProjectionSound, Accepts, EndStatuses
<1> QED
  BY <1>1, <1>2, <1>3, <1>4, <1>5, <1>6, <1>7, <1>8
  DEF Entry, EntryRecord, EntryTypes

(* Only a proposal brings an action into play, and only what names it, or  *)
(* the end of the session, takes it out.                                   *)
LEMMA AfterInPlay ==
  ASSUME NEW p \in Projection, NEW e \in Entry, Accepts(p, e), NEW a
  PROVE  /\ InPlay(After(p, e), a) =>
              InPlay(p, a) \/ (e.type = "PROPOSED" /\ e.action = a)
         /\ InPlay(p, a) =>
              \/ InPlay(After(p, e), a)
              \/ /\ e.type \in {"DECIDED", "DENIED", "STARTED"}
                 /\ e.action = a
              \/ e.type = "ENDED"
<1>1. CASE e.type \in {"SESSION_CREATED", "NOTE"}
  BY <1>1 DEF After
<1>2. CASE e.type = "PROPOSED"
  BY <1>2 DEF After, Proposed, Projection, InPlay, Accepts
<1>3. CASE e.type = "APPROVED"
  <2>1. p.pending \in Pending /\ p.pending # None
    BY <1>3 DEF Accepts, AcceptsApproval, Targets, Projection
  <2>2. /\ After(p, e).pending \in Pending /\ After(p, e).pending # None
        /\ After(p, e).pending.action = p.pending.action
        /\ After(p, e).pending.started = p.pending.started
    <3>1. After(p, e).pending =
            [p.pending EXCEPT !.approved = TRUE, !.approval = e.approval,
                              !.recoveryRequired = FALSE]
      BY <1>3 DEF After, AfterApproval, Projection
    <3>2. e.approval \in Approvals
      BY <1>3 DEF Accepts, AcceptsApproval, Entry, EntryRecord
    <3> QED
      BY <2>1, <3>1, <3>2, NoneIsAbsent DEF Pending
  <2> QED
    BY <2>1, <2>2 DEF InPlay
<1>4. CASE e.type = "DECIDED"
  <2>1. p.pending \in Pending /\ p.pending # None /\ p.pending.action = e.action
    BY <1>4 DEF Accepts, AcceptsDecision, Targets, Projection
  <2>2. \/ After(p, e).pending = None
        \/ /\ After(p, e).pending.action = p.pending.action
           /\ After(p, e).pending.started = p.pending.started
    BY <1>4, <2>1 DEF After, AfterDecision, Projection, Pending
  <2> QED
    BY <1>4, <2>1, <2>2 DEF InPlay
<1>5. CASE e.type \in {"DENIED", "COMPLETED", "ACTION_FAILED", "ENDED"}
  BY <1>5 DEF After, Projection, InPlay, Accepts, Targets, SettlesStart
<1>6. CASE e.type = "STARTED"
  <2>1. p.pending \in Pending /\ p.pending # None /\ p.pending.action = e.action
    BY <1>6 DEF Accepts, AcceptsStart, Targets, Projection
  <2>2. After(p, e).pending =
          [p.pending EXCEPT !.started = TRUE, !.receipt = e.receipt]
    BY <1>6 DEF After, Projection
  <2> QED
    BY <1>6, <2>1, <2>2 DEF InPlay, Pending
<1>7. CASE e.type \in {"RECOVERY_REQUIRED", "SESSION_INTERRUPTED"}
  <2>1. After(p, e).pending \in
          (IF p.pending = None THEN {None}
                               ELSE {Withdrawn(p.pending), Reopened(p.pending)})
    BY <1>7 DEF After, AfterRecoveryRequired, Projection
  <2>2. ASSUME p.pending # None, NEW w \in {Withdrawn(p.pending), Reopened(p.pending)}
        PROVE  w # None /\ w.action = p.pending.action
               /\ w.started = p.pending.started
    BY <2>2, NoneIsAbsent, WithdrawnType
  <2> QED
    BY <2>1, <2>2 DEF InPlay
<1>8. CASE e.type = "RECOVERY_COMPLETED"
  BY <1>8 DEF After, Projection, InPlay
<1> QED
  BY <1>1, <1>2, <1>3, <1>4, <1>5, <1>6, <1>7, <1>8
  DEF Entry, EntryRecord, EntryTypes

(* Started evidence stays until what it started is settled.                *)
LEMMA StartedStays ==
  ASSUME NEW p \in Projection, NEW e \in Entry, Accepts(p, e),
         p.pending # None, p.pending.started
  PROVE  \/ /\ e.type \in {"COMPLETED", "ACTION_FAILED"}
            /\ e.action = p.pending.action /\ After(p, e).pending = None
         \/ /\ e.type \in {"NOTE", "SESSION_INTERRUPTED", "RECOVERY_REQUIRED"}
            /\ After(p, e).status \notin EndStatuses
            /\ After(p, e).pending # None
            /\ After(p, e).pending.action = p.pending.action
            /\ After(p, e).pending.started
<1>1. p.pending \in Pending
  BY DEF Projection
<1>2. e.type \in {"NOTE", "SESSION_INTERRUPTED", "RECOVERY_REQUIRED",
                  "COMPLETED", "ACTION_FAILED"}
  BY DEF Accepts, AcceptsApproval, AcceptsDecision, AcceptsStart,
     NoUnsettledStart
<1>3. CASE e.type \in {"COMPLETED", "ACTION_FAILED"}
  BY <1>3 DEF Accepts, Targets, After, Projection
<1>4. CASE e.type = "NOTE"
  BY <1>4 DEF After, Accepts
<1>5. CASE e.type = "SESSION_INTERRUPTED"
  <2>1. After(p, e).status = "Interrupted"
        /\ After(p, e).pending = Withdrawn(p.pending)
    BY <1>5 DEF After, Projection
  <2> QED
    BY <1>5, <2>1, WithdrawnType DEF EndStatuses
<1>6. CASE e.type = "RECOVERY_REQUIRED"
  <2>1. /\ After(p, e).status \in {"Interrupted", "RecoveryRequired"}
        /\ After(p, e).pending \in {Withdrawn(p.pending), Reopened(p.pending)}
    BY <1>6 DEF After, AfterRecoveryRequired, Projection
  <2> QED
    BY <1>6, <2>1, WithdrawnType DEF EndStatuses
<1> QED
  BY <1>2, <1>3, <1>4, <1>5, <1>6

(* An entry that is no proposal leaves the identity of what is pending.    *)
LEMMA PendingStays ==
  ASSUME NEW p \in Projection, NEW e \in Entry, Accepts(p, e),
         e.type # "PROPOSED", After(p, e).pending # None
  PROVE  /\ p.pending # None /\ After(p, e).pending.action = p.pending.action
         /\ After(p, e).pending.started /\ ~After(p, e).pending.approved =>
              \/ p.pending.started /\ ~p.pending.approved
              \/ e.type \in {"SESSION_INTERRUPTED", "RECOVERY_REQUIRED"}
<1>1. CASE e.type \in {"SESSION_CREATED", "NOTE"}
  BY <1>1 DEF After
<1>2. CASE e.type = "APPROVED"
  <2>1. p.pending \in Pending /\ p.pending # None
    BY <1>2 DEF Accepts, AcceptsApproval, Targets, Projection
  <2>2. After(p, e).pending =
          [p.pending EXCEPT !.approved = TRUE, !.approval = e.approval,
                            !.recoveryRequired = FALSE]
    BY <1>2 DEF After, AfterApproval, Projection
  <2> QED
    BY <2>1, <2>2 DEF Pending
<1>3. CASE e.type = "DECIDED"
  <2>1. p.pending \in Pending /\ p.pending # None
    BY <1>3 DEF Accepts, AcceptsDecision, Targets, Projection
  <2>2. After(p, e).pending =
          [p.pending EXCEPT !.verdict = e.verdict, !.decision = e.decision]
    BY <1>3 DEF After, AfterDecision, Projection
  <2> QED
    BY <2>1, <2>2 DEF Pending
<1>4. CASE e.type = "STARTED"
  <2>1. p.pending \in Pending /\ p.pending # None /\ p.pending.approved
    BY <1>4 DEF Accepts, AcceptsStart, Targets, Projection
  <2>2. After(p, e).pending =
          [p.pending EXCEPT !.started = TRUE, !.receipt = e.receipt]
    BY <1>4 DEF After, Projection
  <2> QED
    BY <2>1, <2>2 DEF Pending
<1>5. CASE e.type \in {"RECOVERY_REQUIRED", "SESSION_INTERRUPTED"}
  <2>1. After(p, e).pending \in
          (IF p.pending = None THEN {None}
                               ELSE {Withdrawn(p.pending), Reopened(p.pending)})
    BY <1>5 DEF After, AfterRecoveryRequired, Projection
  <2> QED
    BY <1>5, <2>1, WithdrawnType
<1>6. CASE e.type = "RECOVERY_COMPLETED"
  BY <1>6 DEF After, Projection
<1>7. CASE e.type \in {"DENIED", "COMPLETED", "ACTION_FAILED", "ENDED"}
  BY <1>7 DEF After, Projection
<1> QED
  BY <1>1, <1>2, <1>3, <1>4, <1>5, <1>6, <1>7
  DEF Entry, EntryRecord, EntryTypes

(* Only a reapproval requirement asks for a reapproval.                    *)
LEMMA RequirementStays ==
  ASSUME NEW p \in Projection, NEW e \in Entry, Accepts(p, e),
         e.type # "RECOVERY_REQUIRED"
  PROVE  After(p, e).requirement \in {p.requirement, None, "interrupted"}
  BY DEF Entry, EntryRecord, EntryTypes, After, AfterApproval, AfterDecision,
     Projection

=============================================================================
