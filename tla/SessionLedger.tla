--------------------------- MODULE SessionLedger ---------------------------
(***************************************************************************)
(* The append-only ledger of one session                                   *)
(* (packages/session-runtime: SessionRuntime, SessionProjectorService and   *)
(* the SessionStore contract of in-memory-store.ts and session_database.rs)*)
(*                                                                         *)
(* Any caller may ask for any entry at any time; appendEntry awaits three  *)
(* times (getSession, listEntries, store.appendEntry), so the appends of   *)
(* several callers interleave between its reads and its write.  A crash    *)
(* loses every append in flight and keeps the stored entries; the restart  *)
(* runs the recovery service before callers are served.                    *)
(*                                                                         *)
(* A node is a stored entry with the two things every reader recomputes    *)
(* from it: `path`, the indices buildActivePath returns for it as a leaf,  *)
(* and `proj`, what the projector folds that path to.                      *)
(***************************************************************************)
EXTENDS SessionProjector, Sequences, FiniteSets

CONSTANTS Clients,      \* concurrent users of SessionRuntime
          Inputs,       \* the entries callers ask to append
          MaxEntries,   \* bound: a caller's append starts below this length
          MaxCrashes    \* bound: restarts

ASSUME InputsAreEntries == Inputs \subseteq Entry
ASSUME BoundsAreNat == MaxEntries \in Nat /\ MaxCrashes \in Nat

(* A status recovery does not know is that of a control-plane worker, and  *)
(* it is recorded in sessions that hold no actions: controlPlaneSession-   *)
(* Ledger.ts, their only writer, proposes none.                            *)
WorkerStatus == "queued"

ASSUME WorkersProposeNothing ==
  (\E e \in Inputs : e.runtimeStatus = WorkerStatus)
    => \A e \in Inputs : e.type # "PROPOSED"

VARIABLES
  entries,   \* session_entries: the nodes in sequence order
  leaf,      \* sessions.active_leaf_id: index of the active leaf, 0 if deleted
  cached,    \* sessions.status
  client,    \* what each client's appendEntry holds across its awaits
  mode,      \* "live", or "recovering" until the restart recovery returns
  crashes

vars == <<entries, leaf, cached, client, mode, crashes>>

Idle == [pc |-> "idle", entry |-> None, parent |-> 0, seen |-> 0, leaf |-> 0]

Client ==
  [pc : {"idle", "called", "sessionRead", "listed"},
   entry : Entry \cup {None}, parent : Nat, seen : Nat, leaf : Nat]

Node == [parent : Nat, path : SUBSET Nat, entry : Entry, proj : Projection]

-----------------------------------------------------------------------------
(* What recovery reads on a path.                                          *)

Path(n) == entries[n].path

Between(n, low) == {k \in Path(n) : k > low}

StartsAction(m, a) ==
  entries[m].entry.type = "STARTED" /\ entries[m].entry.action = a

SettlesAction(m, a) ==
  /\ entries[m].entry.type \in {"COMPLETED", "ACTION_FAILED"}
  /\ entries[m].entry.action = a

(* findUnmatchedStartedAction: started evidence on the path of n that no   *)
(* later settlement of the same action matches.                            *)
UnmatchedStarts(n) ==
  {m \in Path(n) :
     /\ entries[m].entry.type = "STARTED"
     /\ \A k \in Between(n, m) : ~SettlesAction(k, entries[m].entry.action)}

FirstUnmatched(n) ==
  CHOOSE m \in UnmatchedStarts(n) : \A k \in UnmatchedStarts(n) : m <= k

MaskingEnds(n, m) ==
  {k \in Between(n, m) : entries[k].entry.type = "ENDED"}

(* The entry before the first terminal event that hides the start at m, or *)
(* 0 when nothing hides it.                                                *)
MaskingParent(n, m) ==
  IF MaskingEnds(n, m) = {} THEN 0
  ELSE LET first == CHOOSE k \in MaskingEnds(n, m) :
                       \A j \in MaskingEnds(n, m) : k <= j
       IN entries[first].parent

InterruptedSince(n, m) ==
  \E k \in Between(n, m) : entries[k].entry.type = "SESSION_INTERRUPTED"

(* recover(): the entry to append (None: nothing to do) and the explicit   *)
(* parent that skips a masking terminal event (0: the active leaf).        *)
RecoveryPlan(n) ==
  IF UnmatchedStarts(n) # {}
    THEN LET m == FirstUnmatched(n)
             parent == MaskingParent(n, m)
         IN IF parent = 0 /\ InterruptedSince(n, m)
              THEN [entry |-> None, parent |-> 0]
              ELSE [entry |-> InterruptEntry, parent |-> parent]
    ELSE [entry |-> RecoveryEntry(entries[n].proj,
                                  entries[n].entry.runtimeStatus),
          parent |-> 0]

-----------------------------------------------------------------------------
(* appendEntry, step by step.                                              *)

(* A caller's appendEntry up to the answer of getSession. Which entry it   *)
(* asks for is left open until the append examines it.                     *)
Call(c) ==
  /\ mode = "live"
  /\ client[c].pc = "idle"
  /\ leaf # 0
  /\ Len(entries) < MaxEntries
  /\ client' = [client EXCEPT ![c] = [Idle EXCEPT !.pc = "sessionRead",
                                                  !.leaf = leaf]]
  /\ UNCHANGED <<entries, leaf, cached, mode, crashes>>

(* getSession for the append the recovery service asked for. *)
ReadSession(c) ==
  /\ client[c].pc = "called"
  /\ client' = [client EXCEPT ![c].pc = "sessionRead", ![c].leaf = leaf]
  /\ UNCHANGED <<entries, leaf, cached, mode, crashes>>

ParentOf(cl) == IF cl.parent = 0 THEN cl.leaf ELSE cl.parent

(* listEntries answers: the candidate path is projected and the sequence   *)
(* number after the last listed entry is taken.                            *)
ListEntries(c, e) ==
  /\ client[c].pc = "sessionRead"
  /\ leaf # 0
  /\ Accepts(entries[ParentOf(client[c])].proj, e)
  /\ client' = [client EXCEPT ![c].pc = "listed", ![c].entry = e,
                              ![c].seen = Len(entries)]
  /\ UNCHANGED <<entries, leaf, cached, mode, crashes>>

(* Recovery's append carries its entry; a caller's may be any input. *)
Candidates(c) ==
  IF client[c].entry = None THEN Inputs ELSE {client[c].entry}

(* The projector throws on the candidate path, or the session is gone:     *)
(* nothing is stored and the caller sees the error.                        *)
Reject(c) ==
  /\ client[c].pc = "sessionRead"
  /\ leaf # 0 => ~ \A e \in Candidates(c) :
                     Accepts(entries[ParentOf(client[c])].proj, e)
  /\ client' = [client EXCEPT ![c] = Idle]
  /\ mode' = "live"
  /\ UNCHANGED <<entries, leaf, cached, crashes>>

NewNode(cl) ==
  [parent |-> ParentOf(cl),
   path |-> entries[ParentOf(cl)].path \cup {cl.seen + 1},
   entry |-> cl.entry,
   proj |-> After(entries[ParentOf(cl)].proj, cl.entry)]

(* TERMINAL_ENTRY_STATUS: the status column an appended entry leaves. *)
CachedStatus(e, p) ==
  IF e.type = "RECOVERY_REQUIRED" THEN "RecoveryRequired" ELSE p.status

(* store.appendEntry with the next sequence number: entry and session row  *)
(* are written in one transaction.                                         *)
Store(c) ==
  /\ client[c].pc = "listed"
  /\ leaf # 0
  /\ client[c].seen = Len(entries)
  /\ LET node == NewNode(client[c])
     IN /\ entries' = Append(entries, node)
        /\ cached' = CachedStatus(node.entry, node.proj)
  /\ leaf' = Len(entries) + 1
  /\ client' = [client EXCEPT ![c] = Idle]
  /\ mode' = "live"
  /\ UNCHANGED crashes

(* "The ledger sequence is not append-only": somebody stored an entry in   *)
(* between, or the session was deleted.                                    *)
Conflict(c) ==
  /\ client[c].pc = "listed"
  /\ leaf # 0 => client[c].seen # Len(entries)
  /\ client' = [client EXCEPT ![c] = Idle]
  /\ mode' = "live"
  /\ UNCHANGED <<entries, leaf, cached, crashes>>

-----------------------------------------------------------------------------

(* The application stops; only the store survives. *)
Crash ==
  /\ crashes < MaxCrashes
  /\ crashes' = crashes + 1
  /\ client' = [c \in Clients |-> Idle]
  /\ mode' = "recovering"
  /\ UNCHANGED <<entries, leaf, cached>>

(* recoverSession at startup reads the active path and plans one append. *)
Recover(c) ==
  /\ mode = "recovering"
  /\ leaf # 0
  /\ \A d \in Clients : client[d].pc = "idle"
  /\ LET plan == RecoveryPlan(leaf)
     IN /\ plan.entry # None
        /\ client' = [client EXCEPT ![c] = [Idle EXCEPT !.pc = "called",
                                                !.entry = plan.entry,
                                                !.parent = plan.parent]]
  /\ UNCHANGED <<entries, leaf, cached, mode, crashes>>

(* recoverSession finds a session that needs nothing (or no session). *)
RecoverNothing ==
  /\ mode = "recovering"
  /\ \A d \in Clients : client[d].pc = "idle"
  /\ leaf # 0 => RecoveryPlan(leaf).entry = None
  /\ mode' = "live"
  /\ UNCHANGED <<entries, leaf, cached, client, crashes>>

(* deleteSession removes the row and, by cascade, its entries. *)
DeleteSession ==
  /\ mode = "live"
  /\ leaf # 0
  /\ entries' = << >>
  /\ leaf' = 0
  /\ UNCHANGED <<cached, client, mode, crashes>>

-----------------------------------------------------------------------------

CreatedEntry == [BlankEntry EXCEPT !.type = "SESSION_CREATED"]

CreatedNode ==
  [parent |-> 0, path |-> {1}, entry |-> CreatedEntry,
   proj |-> FirstProjection]

Init ==
  /\ entries = <<CreatedNode>>
  /\ leaf = 1
  /\ cached = "Active"
  /\ client = [c \in Clients |-> Idle]
  /\ mode = "live"
  /\ crashes = 0

Next ==
  \/ \E c \in Clients :
       \/ Call(c) \/ ReadSession(c) \/ Reject(c) \/ Store(c) \/ Conflict(c)
       \/ Recover(c) \/ \E e \in Candidates(c) : ListEntries(c, e)
  \/ Crash \/ RecoverNothing \/ DeleteSession

Spec == Init /\ [][Next]_vars

(* A ledger written before requireNoUnsettledStartedAction existed: an     *)
(* ordinary terminal event follows patch evidence that never settled.      *)
LegacyEntries(a, ap, r, end) ==
  << CreatedEntry,
     [BlankEntry EXCEPT !.type = "PROPOSED", !.kind = "patch", !.action = a],
     [BlankEntry EXCEPT !.type = "APPROVED", !.kind = "patch", !.action = a,
                        !.approval = ap],
     [BlankEntry EXCEPT !.type = "STARTED", !.kind = "patch", !.action = a,
                        !.approval = ap, !.receipt = r],
     [BlankEntry EXCEPT !.type = "ENDED", !.ended = end] >>

LegacyNodes(es) ==
  LET proj[n \in 1..Len(es)] ==
        IF n = 1 THEN FirstProjection ELSE After(proj[n - 1], es[n])
  IN [n \in 1..Len(es) |->
        [parent |-> n - 1, path |-> 1..n, entry |-> es[n], proj |-> proj[n]]]

LegacyInit ==
  /\ \E a \in Actions, ap \in Approvals, r \in Receipts, end \in EndStatuses :
       /\ entries = LegacyNodes(LegacyEntries(a, ap, r, end))
       /\ cached = end
  /\ leaf = Len(entries)
  /\ client = [c \in Clients |-> Idle]
  /\ mode = "recovering"
  /\ crashes = 0

(* A started recovery is driven to its answer: every await of the append   *)
(* resolves or rejects.                                                    *)
RecoverySteps ==
  \/ RecoverNothing
  \/ \E c \in Clients :
       \/ Recover(c) \/ ReadSession(c) \/ Reject(c) \/ Store(c) \/ Conflict(c)
       \/ \E e \in Candidates(c) : ListEntries(c, e)

FairRecovery == WF_vars(mode = "recovering" /\ RecoverySteps)

LegacySpec == LegacyInit /\ [][Next]_vars /\ FairRecovery

-----------------------------------------------------------------------------
(* Properties.                                                             *)

TypeOK ==
  /\ entries \in Seq(Node)
  /\ leaf \in 0..Len(entries)
  /\ cached \in SessionStatuses
  /\ client \in [Clients -> Client]
  /\ mode \in {"live", "recovering"}
  /\ crashes \in 0..MaxCrashes

Withdraws(m) ==
  entries[m].entry.type \in {"SESSION_INTERRUPTED", "RECOVERY_REQUIRED"}

(* m is the approval entry the authority of entry n names. *)
ApprovalFor(m, n) ==
  /\ entries[m].entry.type = "APPROVED"
  /\ entries[m].entry.action = entries[n].entry.action
  /\ entries[m].entry.approval = entries[n].entry.approval
  /\ entries[m].entry.generation = entries[n].entry.generation

AllowFor(m, n) ==
  /\ entries[m].entry.type = "DECIDED"
  /\ entries[m].entry.verdict = "allow"
  /\ entries[m].entry.action = entries[n].entry.action
  /\ entries[m].entry.decision = entries[n].entry.decision

ReopensGeneration(m) ==
  /\ entries[m].entry.type = "RECOVERY_REQUIRED"
  /\ entries[m].entry.reason # "interrupted"

(* Started evidence for a patch, a command or a generic action is stored   *)
(* only behind an approval of the same action, id and generation that no   *)
(* restart or interruption has withdrawn since; for commands and generic   *)
(* actions also behind the allow decision it names, recorded since the     *)
(* last reapproval requirement.  (projector.ts, the x_STARTED cases.)      *)
StartAuthorised ==
  \A n \in DOMAIN entries : entries[n].entry.type = "STARTED" =>
    /\ \E m \in Path(n) :
         ApprovalFor(m, n) /\ \A k \in Between(n, m) : ~Withdraws(k)
    /\ entries[n].entry.kind # "patch" =>
         \E m \in Path(n) :
           AllowFor(m, n) /\ \A k \in Between(n, m) : ~ReopensGeneration(k)

(* A settlement repeats approval, generation and receipt of a start on its *)
(* path, and between the two there is neither another settlement nor a     *)
(* withdrawal: what was interrupted after dispatch is never settled,       *)
(* replayed or reapproved (ARCHITECTURE.md, "never reapprovable").         *)
SettlementMatchesStart ==
  \A n \in DOMAIN entries :
    entries[n].entry.type \in {"COMPLETED", "ACTION_FAILED"} =>
      \E m \in Path(n) :
        /\ StartsAction(m, entries[n].entry.action)
        /\ entries[m].entry.receipt = entries[n].entry.receipt
        /\ entries[m].entry.approval = entries[n].entry.approval
        /\ entries[m].entry.generation = entries[n].entry.generation
        /\ \A k \in Between(n, m) \ {n} :
             entries[k].entry.type \in {"NOTE"}

(* The projector and the recovery service's scan, two independent readings *)
(* of one path, agree on whether started evidence is unsettled, so no      *)
(* terminal, denial or recovery entry can hide it from either.             *)
ScanAgreesWithProjection ==
  \A n \in DOMAIN entries :
    LET p == entries[n].proj
    IN UnmatchedStarts(n) # {} <=> (p.pending # None /\ p.pending.started)

(* An approval is accepted for generation g only when exactly g restarts   *)
(* have required reapproval since the proposal: authority given before a   *)
(* restart is never accepted after it.                                     *)
GenerationCountsRestarts ==
  \A n \in DOMAIN entries : entries[n].entry.type = "APPROVED" =>
    \E m \in Path(n) :
      /\ entries[m].entry.type = "PROPOSED"
      /\ entries[m].entry.action = entries[n].entry.action
      /\ \A k \in Between(n, m) : entries[k].entry.type # "PROPOSED"
      /\ entries[n].entry.generation =
           Cardinality({k \in Between(n, m) : ReopensGeneration(k)})

(* The status column never says a session ended while started evidence on  *)
(* its active path is unsettled.                                           *)
CachedEndIsHonest ==
  leaf # 0 /\ cached \in EndStatuses => UnmatchedStarts(leaf) = {}

Recovered ==
  leaf # 0 =>
    LET p == entries[leaf].proj
    IN /\ RecoveryPlan(leaf).entry = None
       /\ UnmatchedStarts(leaf) # {} => p.status = "Interrupted"
       /\ p.pending # None => ~p.pending.approved

RecoveryReturned ==
  /\ mode = "recovering" /\ mode' = "live"
  /\ leaf' # leaf \/ \A c \in Clients : client[c].pc = "idle"

(* When the restart recovery returns normally, recovering once more would  *)
(* append nothing, unsettled started evidence is shown as interrupted, and *)
(* no approval given before the restart is left in force (recovery.ts).    *)
RecoverySettles == [][RecoveryReturned => Recovered']_vars

(* A terminal event hides unsettled started evidence in a ledger written   *)
(* before terminal events were checked; recovery must take it off the      *)
(* active path (ARCHITECTURE.md, "legacy malformed ledgers").              *)
MaskedStart ==
  leaf # 0 /\ \E m \in UnmatchedStarts(leaf) : MaskingEnds(leaf, m) # {}

Quiet == leaf = 0 \/ (~MaskedStart /\ entries[leaf].proj.status = "Interrupted")

-----------------------------------------------------------------------------
(* Statements of the repository that the code does not keep.               *)

(* ARCHITECTURE.md: "Pending patch or command decisions become             *)
(* RecoveryRequired, increment an explicit approval generation".           *)
PendingNeedsReapproval ==
  [][RecoveryReturned =>
       (leaf # 0 /\ entries[leaf].proj.pending # None
          /\ ~entries[leaf].proj.pending.started
        => entries'[leaf'].proj.status = "RecoveryRequired")]_vars

(* ARCHITECTURE.md: "the durable unmatched started receipt remains the     *)
(* recovery signal": stored started evidence without a settlement stays    *)
(* visible to the recovery scan of the active path.                        *)
StartedEvidenceStaysVisible ==
  \A n \in DOMAIN entries :
    leaf # 0 /\ entries[n].entry.type = "STARTED" =>
      \/ n \in Path(leaf)
      \/ \E m \in DOMAIN entries : n \in Path(m) /\ m > n
             /\ SettlesAction(m, entries[n].entry.action)

=============================================================================
