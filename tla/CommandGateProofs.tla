------------------------- MODULE CommandGateProofs -------------------------
(***************************************************************************)
(* Theorems about CommandGate, for any commands, identifiers, restarts and *)
(* failures of the store.                                                  *)
(***************************************************************************)
EXTENDS CommandGate, SessionProjectorProofs, TLAPS

-----------------------------------------------------------------------------
(* The inductive invariant.                                                *)

Members(s) == {s[i] : i \in DOMAIN s}

(* The awaits that wait for an entry of the queue. *)
Appending ==
  {"approving", "recordingDecision", "starting", "settling", "interrupting"}
    \cup ViewAwaits

(* Whoever finds the key of a start finds its entry. *)
QueuedEntries ==
  {q \in [entry : Entry, key : Keys \cup {None},
          for : {"nobody", "proposal", "op"}] :
     \A a \in Actions :
       q.key = <<"started", a>> =>
         q.entry.type = "STARTED" /\ q.entry.action = a}

Ledgers ==
  [proj : Projection, keys : SUBSET Keys, status : RuntimeStatuses \cup {None},
   receipts : SUBSET Receipts, settled : SUBSET Actions]

Operations ==
  [by : {"agent", "view", None},
   pc : {"idle", "waiting", "ready"} \cup GateAwaits \cup DispatchAwaits
          \cup ViewAwaits,
   action : Actions \cup {None}, approval : Approvals \cup {None},
   generation : Nat, verdict : Verdicts \cup {None},
   decision : Decisions \cup {None}, receipt : Receipts \cup {None},
   expired : BOOLEAN, aborted : BOOLEAN, threw : BOOLEAN]

Outcomes == {"no", "hashing", "queued", "stored", "failed"}

Typed ==
  /\ ledger \in Ledgers
  /\ known \subseteq Keys
  /\ queue \in Seq(QueuedEntries)
  /\ uncertain \in BOOLEAN
  /\ offered \in [Actions -> Outcomes]
  /\ seen \subseteq Answers
  /\ task \in {"working", "cancelling", "ended", "none"}
  /\ op \in Operations
  /\ asked \subseteq Actions /\ given \subseteq Approvals
  /\ runs \in [Actions -> 0..MaxRuns]
  /\ mode \in {"live", "recovering"}
  /\ crashes \in 0..MaxCrashes /\ faults \in 0..MaxFaults

(* The proposal of a is still to come. *)
Unproposed(a) == a \notin asked \/ offered[a] \in {"hashing", "queued"}

IsPending(a) == ledger.proj.pending # None /\ ledger.proj.pending.action = a

IsStarted(a) == IsPending(a) /\ ledger.proj.pending.started

LedgerInv ==
  /\ ProjectionSound(ledger.proj)
  /\ known \subseteq ledger.keys
  /\ UnsettledStaysStarted
  /\ \A a \in Actions :
       /\ a \in ledger.settled => ~IsPending(a)
       /\ <<"started", a>> \in ledger.keys => a \in ledger.settled \/ IsStarted(a)
       /\ IsPending(a) => a \in asked
       /\ Unproposed(a) =>
            a \notin ledger.settled /\ runs[a] = 0 /\ ~IsPending(a)

(* What the operation waits for. *)
IsAwaited(q) ==
  /\ op.pc \in Appending
  /\ op.pc = "approving" => q.entry.type = "APPROVED"
  /\ op.pc = "recordingDecision" => q.entry.type = "DECIDED"
  /\ op.pc = "starting" =>
       /\ q.entry.type = "STARTED" /\ q.entry.receipt = op.receipt
       /\ q.key = <<"started", op.action>>
  /\ op.pc = "settling" => q.entry.type \in {"COMPLETED", "ACTION_FAILED"}
  /\ op.pc = "interrupting" => q.entry.type = "SESSION_INTERRUPTED"
  /\ op.pc = "completing" => q.entry.type = "RECOVERY_COMPLETED"
  /\ op.pc \in {"ending", "failing"} => q.entry.type = "ENDED"
  /\ op.pc \in {"approving", "recordingDecision", "starting", "settling"} =>
       q.entry.action = op.action

(* What stands in the queue behind nobody's promise. *)
IsBackground(q) ==
  /\ task # "none"
  /\ \/ q.entry.type = "NOTE"
     \/ q.entry.type = "ENDED" /\ task = "ended"
     \/ /\ q.entry.type = "DENIED"
        /\ q.entry.action \in asked \ {op.action}

IsProposal(q) ==
  /\ q.entry.type = "PROPOSED"
  /\ q.entry.action \in Actions
  /\ offered[q.entry.action] = "queued"

Rivals(q, r) ==
  \/ q.for = "op" /\ r.for = "op"
  \/ /\ q.for = "proposal" /\ r.for = "proposal"
     /\ q.entry.action = r.entry.action

Unrivalled(s) == \A i, j \in DOMAIN s : i # j => ~Rivals(s[i], s[j])

Belongs(q) ==
  /\ q.for = "op" => IsAwaited(q)
  /\ q.for = "proposal" => IsProposal(q)
  /\ q.for = "nobody" => IsBackground(q)

QueueInv == Unrivalled(queue) /\ \A q \in Members(queue) : Belongs(q)

(* The ledger holds the start of the operation's run. *)
StartIsDurable ==
  /\ PendingIsMine
  /\ ledger.proj.pending.started
  /\ ledger.proj.pending.approval = op.approval
  /\ ledger.proj.pending.decision = op.decision
  /\ ledger.proj.pending.verdict = "allow"
  /\ ledger.proj.pending.receipt = op.receipt

OpInv ==
  /\ op.pc = "idle" => op = NoOp
  /\ op.pc # "idle" => op.action \in asked /\ op.by \in {"agent", "view"}
  /\ op.pc \in GateAwaits \cup {"started", "running", "settling"} =>
       op.approval \in given
  /\ op.pc \in {"starting"} \cup DispatchAwaits =>
       op.approval \in Approvals /\ op.receipt \in Receipts
  /\ op.pc = "deciding" => ApprovalIsDurable
  /\ op.pc = "starting" => AllowIsDurable
  /\ op.pc \in {"started", "running", "settling"} => StartIsDurable
  /\ op.pc = "started" => runs[op.action] = 0
  /\ op.pc \in {"running", "settling", "interrupting"} => runs[op.action] > 0

(* The loop's operations end with the process, the view's begin with the   *)
(* next one.                                                               *)
EraInv ==
  /\ op.pc # "idle" /\ op.by = "agent" => task \in {"working", "cancelling"}
  /\ op.pc # "idle" /\ op.by = "view" => task = "none"
  /\ op.pc \in {"ready"} \cup ViewAwaits => op.by = "view"
  /\ task # "none" => ledger.proj.requirement \notin Reapprovals
  /\ task = "none" => \A a \in Actions : offered[a] \notin {"hashing", "queued"}
  /\ \A a \in Actions : offered[a] # "no" => a \in asked
  /\ mode = "recovering" => op = NoOp /\ queue = <<>> /\ task = "none"
  /\ task = "none" /\ op.pc # "idle" /\ ledger.proj.pending # None =>
       /\ ledger.proj.pending.action = op.action
       /\ ledger.proj.pending.started /\ runs[op.action] = 0 =>
            ledger.proj.pending.approved

IInv == Typed /\ LedgerInv /\ QueueInv /\ OpInv /\ EraInv

-----------------------------------------------------------------------------
(* Queues.                                                                 *)

LEMMA HeadAndTail ==
  ASSUME NEW S, NEW s \in Seq(S), s # <<>>, Unrivalled(s)
  PROVE  /\ Head(s) \in S /\ Head(s) \in Members(s)
         /\ Tail(s) \in Seq(S) /\ Unrivalled(Tail(s))
         /\ \A q \in Members(Tail(s)) :
              q \in Members(s) /\ ~Rivals(Head(s), q)
<1>1. /\ 1 \in DOMAIN s /\ Head(s) = s[1] /\ Head(s) \in S
      /\ Tail(s) \in Seq(S)
      /\ \A i \in DOMAIN Tail(s) :
           /\ i + 1 \in DOMAIN s /\ i \in Nat \ {0} /\ Tail(s)[i] = s[i + 1]
  OBVIOUS
<1>2. Unrivalled(Tail(s))
  <2> SUFFICES ASSUME NEW i \in DOMAIN Tail(s), NEW j \in DOMAIN Tail(s), i # j
               PROVE  ~Rivals(Tail(s)[i], Tail(s)[j])
    BY DEF Unrivalled
  <2>1. i + 1 # j + 1
    BY <1>1
  <2> QED
    BY <1>1, <2>1 DEF Unrivalled
<1>3. ASSUME NEW i \in DOMAIN Tail(s)
      PROVE  Tail(s)[i] \in Members(s) /\ ~Rivals(Head(s), Tail(s)[i])
  <2>1. i + 1 # 1
    BY <1>1
  <2> QED
    BY <1>1, <2>1 DEF Unrivalled, Members
<1> QED
  BY <1>1, <1>2, <1>3 DEF Members

LEMMA Joined ==
  ASSUME NEW S, NEW s \in Seq(S), NEW t \in Seq(S), Unrivalled(s),
         Unrivalled(t),
         \A q \in Members(s), r \in Members(t) : ~Rivals(q, r)
  PROVE  /\ s \o t \in Seq(S) /\ Unrivalled(s \o t)
         /\ Members(s \o t) = Members(s) \cup Members(t)
<1>1. /\ s \o t \in Seq(S) /\ Len(s) \in Nat
      /\ DOMAIN s = 1..Len(s) /\ DOMAIN t = 1..Len(t) /\ Len(t) \in Nat
      /\ DOMAIN (s \o t) = 1..(Len(s) + Len(t))
      /\ \A i \in 1..(Len(s) + Len(t)) :
           (s \o t)[i] = IF i <= Len(s) THEN s[i] ELSE t[i - Len(s)]
  OBVIOUS
<1>2. \A i \in DOMAIN (s \o t) :
        \/ i \in DOMAIN s /\ (s \o t)[i] = s[i]
        \/ i - Len(s) \in DOMAIN t /\ (s \o t)[i] = t[i - Len(s)]
  BY <1>1
<1>3. \A q, r : Rivals(q, r) <=> Rivals(r, q)
  BY DEF Rivals
<1>4. Unrivalled(s \o t)
  <2> SUFFICES ASSUME NEW i \in DOMAIN (s \o t), NEW j \in DOMAIN (s \o t),
                      i # j
               PROVE  ~Rivals((s \o t)[i], (s \o t)[j])
    BY DEF Unrivalled
  <2>1. i - Len(s) # j - Len(s)
    BY <1>1
  <2>2. \A k \in DOMAIN s : s[k] \in Members(s)
    BY DEF Members
  <2>3. \A k \in DOMAIN t : t[k] \in Members(t)
    BY DEF Members
  <2>4. CASE i \in DOMAIN s /\ (s \o t)[i] = s[i]
    BY <1>2, <1>3, <2>2, <2>3, <2>4 DEF Unrivalled
  <2>5. CASE i - Len(s) \in DOMAIN t /\ (s \o t)[i] = t[i - Len(s)]
    BY <1>2, <1>3, <2>1, <2>2, <2>3, <2>5 DEF Unrivalled
  <2> QED
    BY <1>2, <2>4, <2>5
<1>5. Members(s \o t) \subseteq Members(s) \cup Members(t)
  BY <1>2 DEF Members
<1>6. ASSUME NEW i \in DOMAIN s PROVE s[i] \in Members(s \o t)
  <2>1. i \in DOMAIN (s \o t) /\ (s \o t)[i] = s[i]
    BY <1>1
  <2> QED
    BY <2>1 DEF Members
<1>7. ASSUME NEW i \in DOMAIN t PROVE t[i] \in Members(s \o t)
  <2>1. i + Len(s) \in DOMAIN (s \o t) /\ (s \o t)[i + Len(s)] = t[i]
    BY <1>1
  <2> QED
    BY <2>1 DEF Members
<1> QED
  BY <1>1, <1>4, <1>5, <1>6, <1>7 DEF Members

LEMMA ShortQueues ==
  ASSUME NEW S
  PROVE  /\ <<>> \in Seq(S) /\ Members(<<>>) = {} /\ Unrivalled(<<>>)
         /\ \A q \in S : <<q>> \in Seq(S) /\ Members(<<q>>) = {q}
                          /\ Unrivalled(<<q>>)
         /\ \A q, r \in S :
              /\ <<q, r>> \in Seq(S) /\ Members(<<q, r>>) = {q, r}
              /\ ~Rivals(q, r) => Unrivalled(<<q, r>>)
         /\ \A s \in Seq(S), q \in S : Append(s, q) = s \o <<q>>
<1>1. \A q, r : Rivals(q, r) <=> Rivals(r, q)
  BY DEF Rivals
<1>2. <<>> \in Seq(S) /\ Members(<<>>) = {} /\ Unrivalled(<<>>)
  BY DEF Members, Unrivalled
<1>3. ASSUME NEW q \in S
      PROVE  <<q>> \in Seq(S) /\ Members(<<q>>) = {q} /\ Unrivalled(<<q>>)
  BY DEF Members, Unrivalled
<1>4. ASSUME NEW q \in S, NEW r \in S
      PROVE  /\ <<q, r>> \in Seq(S) /\ Members(<<q, r>>) = {q, r}
             /\ ~Rivals(q, r) => Unrivalled(<<q, r>>)
  <2>1. DOMAIN <<q, r>> = {1, 2} /\ <<q, r>>[1] = q /\ <<q, r>>[2] = r
    OBVIOUS
  <2> QED
    BY <1>1, <2>1 DEF Members, Unrivalled
<1> QED
  BY <1>2, <1>3, <1>4

(* Nobody's entry competes with another. *)
LEMMA NoRival ==
  ASSUME NEW q, NEW r, q.for = "nobody" \/ r.for = "nobody"
  PROVE  ~Rivals(q, r)
  BY DEF Rivals

-----------------------------------------------------------------------------
(* The ledger.                                                             *)

LedgerGrows(q) == Fits(q) /\ ledger' = Extended(q)

LEMMA Growth ==
  ASSUME IInv, NEW q \in QueuedEntries, LedgerGrows(q),
         runs' = runs, asked' = asked, known' \subseteq ledger'.keys,
         \A a \in Actions : Unproposed(a)' => Unproposed(a),
         q.entry.type = "PROPOSED" =>
           /\ q.entry.action \in asked
           /\ Unproposed(q.entry.action) /\ ~Unproposed(q.entry.action)'
  PROVE  ledger' \in Ledgers /\ LedgerInv'
<1>1. PICK p : p = ledger.proj
  OBVIOUS
<1>2. PICK e : e = q.entry
  OBVIOUS
<1>3. /\ p \in Projection /\ e \in Entry /\ Accepts(p, e)
      /\ ProjectionSound(p) /\ ledger \in Ledgers
      /\ q.key \in Keys \cup {None}
  BY <1>1, <1>2 DEF IInv, Typed, Ledgers, LedgerInv, QueuedEntries,
     LedgerGrows, Fits
<1>4. /\ ledger'.proj = After(p, e)
      /\ ledger'.keys = IF q.key = None THEN ledger.keys
                                        ELSE ledger.keys \cup {q.key}
      /\ ledger'.status = e.runtimeStatus
      /\ ledger'.receipts = (ledger.receipts \cup {e.receipt}) \ {None}
      /\ ledger'.settled = IF e.type \in {"COMPLETED", "ACTION_FAILED"}
                             THEN ledger.settled \cup {e.action}
                             ELSE ledger.settled
      /\ ledger' = [proj |-> ledger'.proj, keys |-> ledger'.keys,
                    status |-> ledger'.status, receipts |-> ledger'.receipts,
                    settled |-> ledger'.settled]
  BY <1>1, <1>2 DEF LedgerGrows, Extended
<1>5. e.type \in {"COMPLETED", "ACTION_FAILED"} =>
        /\ p.pending # None /\ p.pending.started
        /\ p.pending.action = e.action /\ e.action \in Actions
        /\ After(p, e).pending = None
  BY <1>3 DEF Accepts, Targets, SettlesStart, After, Projection, Pending
<1>6. ledger' \in Ledgers
  <2>1. /\ After(p, e) \in Projection
        /\ e.runtimeStatus \in RuntimeStatuses \cup {None}
        /\ e.receipt \in Receipts \cup {None}
    BY <1>3, AfterType DEF Entry, EntryRecord
  <2>2. /\ ledger'.proj \in Projection /\ ledger'.keys \in SUBSET Keys
        /\ ledger'.status \in RuntimeStatuses \cup {None}
        /\ ledger'.receipts \in SUBSET Receipts
        /\ ledger'.settled \in SUBSET Actions
    BY <1>3, <1>4, <1>5, <2>1 DEF Ledgers
  <2> QED
    BY <1>4, <2>2 DEF Ledgers
<1>7. ProjectionSound(ledger'.proj)
  BY <1>3, <1>4, AfterSound
<1>8. \A a : IsPending(a)' =>
        IsPending(a) \/ (e.type = "PROPOSED" /\ e.action = a)
  <2>1. e.type = "PROPOSED" => After(p, e).pending.action = e.action
    BY <1>3 DEF After, Proposed, Projection
  <2> QED
    BY <1>1, <1>3, <1>4, <2>1, PendingStays DEF IsPending
<1>9. \A a : IsStarted(a) => a \in ledger'.settled \/ IsStarted(a)'
  BY <1>1, <1>3, <1>4, StartedStays DEF IsStarted, IsPending
<1>10. UnsettledStaysStarted'
  <2> SUFFICES ASSUME NEW a \in Actions, runs[a] > 0, a \notin ledger'.settled
               PROVE  /\ ledger'.proj.status \notin EndStatuses
                      /\ IsStarted(a)'
    BY DEF UnsettledStaysStarted, IsStarted, IsPending
  <2>1. a \notin ledger.settled
    BY <1>4
  <2>2. IsStarted(a)
    BY <1>1, <2>1
    DEF IInv, LedgerInv, UnsettledStaysStarted, IsStarted, IsPending
  <2> QED
    BY <1>1, <1>3, <1>4, <1>9, <2>2, StartedStays DEF IsStarted, IsPending
<1>11. ASSUME NEW a \in Actions
       PROVE  /\ a \in ledger'.settled => ~IsPending(a)'
              /\ <<"started", a>> \in ledger'.keys =>
                   a \in ledger'.settled \/ IsStarted(a)'
              /\ IsPending(a)' => a \in asked'
              /\ Unproposed(a)' =>
                   a \notin ledger'.settled /\ runs'[a] = 0 /\ ~IsPending(a)'
  <2>1. a \in ledger'.settled => ~IsPending(a)'
    <3>1. CASE a \in ledger.settled
      BY <1>2, <1>8, <3>1 DEF IInv, LedgerInv
    <3>2. CASE a \notin ledger.settled
      BY <1>4, <1>5, <3>2 DEF IsPending
    <3> QED
      BY <3>1, <3>2
  <2>2. <<"started", a>> \in ledger'.keys =>
          a \in ledger'.settled \/ IsStarted(a)'
    <3>1. CASE <<"started", a>> \in ledger.keys
      BY <1>4, <1>9, <3>1 DEF IInv, LedgerInv
    <3>2. CASE q.key = <<"started", a>>
      <4>1. e.type = "STARTED" /\ e.action = a
        BY <1>2, <3>2 DEF QueuedEntries
      <4>2. /\ p.pending \in Pending /\ p.pending.action = a
            /\ After(p, e).pending =
                 [p.pending EXCEPT !.started = TRUE, !.receipt = e.receipt]
        BY <1>3, <4>1 DEF Accepts, AcceptsStart, Targets, After, Projection
      <4>3. /\ After(p, e).pending \in Pending
            /\ After(p, e).pending.action = a /\ After(p, e).pending.started
        BY <1>3, <4>2 DEF Pending, Entry, EntryRecord
      <4> QED
        BY <1>4, <4>3, NoneIsAbsent DEF IsStarted, IsPending
    <3> QED
      BY <1>4, <3>1, <3>2
  <2>3. IsPending(a)' => a \in asked'
    BY <1>2, <1>8 DEF IInv, LedgerInv
  <2>4. Unproposed(a)' =>
          a \notin ledger'.settled /\ runs'[a] = 0 /\ ~IsPending(a)'
    <3> SUFFICES ASSUME Unproposed(a)'
                 PROVE  a \notin ledger'.settled /\ ~IsPending(a)' /\ runs[a] = 0
      OBVIOUS
    <3>1. a \notin ledger.settled /\ runs[a] = 0 /\ ~IsPending(a)
      BY DEF IInv, LedgerInv
    <3>2. a \notin ledger'.settled
      BY <1>1, <1>4, <1>5, <3>1 DEF IsPending
    <3>3. ~IsPending(a)'
      BY <1>2, <1>8, <3>1
    <3> QED
      BY <3>1, <3>2, <3>3
  <2> QED
    BY <2>1, <2>2, <2>3, <2>4
<1> QED
  BY <1>6, <1>7, <1>10, <1>11 DEF LedgerInv

LEMMA NoGrowth ==
  ASSUME IInv, ledger' = ledger, runs' = runs, asked \subseteq asked',
         known' \subseteq ledger'.keys,
         \A a \in Actions : Unproposed(a)' => Unproposed(a)
  PROVE  LedgerInv'
  BY DEF IInv, LedgerInv, UnsettledStaysStarted, IsPending, IsStarted

(* The entry at the head of the queue is answered. *)
LEMMA HeadAnswered ==
  ASSUME IInv, NEW for, NEW more, Resolves(for, more) \/ Rejects(for)
  PROVE  /\ queue # <<>> /\ Head(queue) \in QueuedEntries
         /\ Head(queue) \in Members(queue) /\ Head(queue).for = for
         /\ Belongs(Head(queue))
         /\ ledger' = ledger \/ LedgerGrows(Head(queue))
         /\ known' \subseteq Keys /\ known' \subseteq ledger'.keys
         /\ faults' \in 0..MaxFaults
<1>1. queue # <<>> /\ queue \in Seq(QueuedEntries)
  BY DEF Resolves, Rejects, IInv, Typed
<1>2. Head(queue) \in QueuedEntries /\ Head(queue) \in Members(queue)
  BY <1>1, HeadAndTail DEF IInv, QueueInv
<1>3. PICK q : q = Head(queue)
  OBVIOUS
<1>4. /\ q.for = for
      /\ \/ ledger' = ledger /\ known' = known
         \/ /\ LedgerGrows(q)
            /\ known' \in {known, IF q.key = None THEN known
                                                 ELSE known \cup {q.key}}
      /\ faults' = faults \/ (faults < MaxFaults /\ faults' = faults + 1)
  BY <1>3 DEF Resolves, Rejects, StoreFails, LedgerGrows
<1>5. q.key \in Keys \cup {None} /\ known \subseteq Keys
      /\ known \subseteq ledger.keys
  BY <1>2, <1>3 DEF QueuedEntries, IInv, Typed, LedgerInv
<1>6. LedgerGrows(q) => ledger'.keys = IF q.key = None THEN ledger.keys
                                              ELSE ledger.keys \cup {q.key}
  BY DEF LedgerGrows, Extended
<1>7. known' \subseteq Keys /\ known' \subseteq ledger'.keys
  BY <1>4, <1>5, <1>6
<1>8. faults' \in 0..MaxFaults
  BY <1>4, GateBoundsAreNat DEF IInv, Typed
<1> QED
  BY <1>1, <1>2, <1>3, <1>4, <1>7, <1>8 DEF IInv, QueueInv

(* The operation's own entry is answered. *)
LEMMA OwnAnswered ==
  ASSUME IInv, NEW more, Resolves("op", more) \/ Rejects("op"),
         runs' = runs, asked' = asked, offered' = offered
  PROVE  /\ IsAwaited(Head(queue)) /\ Head(queue) \in QueuedEntries
         /\ queue # <<>> /\ Head(queue) \in Members(queue)
         /\ Head(queue).for = "op"
         /\ ledger' = ledger \/ LedgerGrows(Head(queue))
         /\ ledger' \in Ledgers /\ LedgerInv'
         /\ known' \subseteq Keys /\ faults' \in 0..MaxFaults
<1>1. /\ queue # <<>> /\ Head(queue) \in QueuedEntries
      /\ Head(queue) \in Members(queue) /\ Head(queue).for = "op"
      /\ IsAwaited(Head(queue))
      /\ ledger' = ledger \/ LedgerGrows(Head(queue))
      /\ known' \subseteq Keys /\ known' \subseteq ledger'.keys
      /\ faults' \in 0..MaxFaults
  BY HeadAnswered DEF Belongs
<1>2. Head(queue).entry.type # "PROPOSED"
  BY <1>1 DEF IsAwaited, Appending, ViewAwaits
<1>3. \A a \in Actions : Unproposed(a)' => Unproposed(a)
  BY DEF Unproposed
<1>4. CASE ledger' = ledger
  BY <1>1, <1>3, <1>4, NoGrowth DEF IInv, Typed
<1>5. CASE LedgerGrows(Head(queue))
  BY <1>1, <1>2, <1>3, <1>5, Growth
<1> QED
  BY <1>1, <1>4, <1>5

-----------------------------------------------------------------------------
(* The queue under a step.                                                 *)

(* What waits for nobody outlives what the task does next. *)
TaskMoves ==
  task' = task \/ (task \in {"working", "cancelling"}
                    /\ task' \in {"cancelling", "ended"})

LEMMA StaysPut ==
  ASSUME IInv, NEW q \in Members(queue), q.for # "op",
         TaskMoves, asked \subseteq asked',
         \/ op'.action \in {op.action, None} \/ op'.action \notin asked
         \/ task = "none",
         \A a \in Actions : offered[a] = "queued" => offered'[a] = "queued"
  PROVE  Belongs(q)'
<1>1. Belongs(q) /\ None \notin asked
  BY NoneIsAbsent DEF IInv, QueueInv, Typed
<1>2. q.for = "proposal" => IsProposal(q)'
  BY <1>1 DEF Belongs, IsProposal
<1>3. q.for = "nobody" => IsBackground(q)'
  BY <1>1 DEF Belongs, IsBackground, TaskMoves
<1> QED
  BY <1>2, <1>3 DEF Belongs

(* So does what an operation waits for, while it does. *)
LEMMA OwnStaysPut ==
  ASSUME IInv, NEW q \in Members(queue), q.for = "op",
         op'.pc = op.pc, op'.action = op.action, op'.receipt = op.receipt
  PROVE  Belongs(q)'
  BY DEF IInv, QueueInv, Belongs, IsAwaited

LEMMA QueueMoves ==
  ASSUME NEW base \in Seq(QueuedEntries), Unrivalled(base),
         NEW more \in Seq(QueuedEntries), queue' = base \o more,
         \A q \in Members(base) \cup Members(more) : Belongs(q)',
         \/ \A r \in Members(more) : r.for = "nobody"
         \/ \E r \in QueuedEntries :
              more = <<r>> /\ \A q \in Members(base) : ~Rivals(q, r)
  PROVE  queue' \in Seq(QueuedEntries) /\ QueueInv'
<1>1. Unrivalled(more)
  <2>1. CASE \A r \in Members(more) : r.for = "nobody"
    BY <2>1, NoRival DEF Unrivalled, Members
  <2>2. CASE \E r \in QueuedEntries : more = <<r>>
    BY <2>2, ShortQueues
  <2> QED
    BY <2>1, <2>2
<1>2. \A q \in Members(base), r \in Members(more) : ~Rivals(q, r)
  <2>1. CASE \A r \in Members(more) : r.for = "nobody"
    BY <2>1, NoRival
  <2>2. ASSUME NEW r \in QueuedEntries, more = <<r>>,
               \A q \in Members(base) : ~Rivals(q, r)
        PROVE  \A q \in Members(base), x \in Members(more) : ~Rivals(q, x)
    BY <2>2, ShortQueues
  <2> QED
    BY <2>1, <2>2
<1>3. /\ base \o more \in Seq(QueuedEntries) /\ Unrivalled(base \o more)
      /\ Members(base \o more) = Members(base) \cup Members(more)
  BY <1>1, <1>2, Joined
<1>4. Unrivalled(queue') /\ \A q \in Members(queue') : Belongs(q)'
  BY <1>3
<1> QED
  BY <1>3, <1>4 DEF QueueInv, Unrivalled, Members

(* A part of the queue that no operation waits for. *)
Quiet(base) ==
  /\ base \in Seq(QueuedEntries) /\ Unrivalled(base)
  /\ \A q \in Members(base) : q \in Members(queue) /\ q.for # "op"

LEMMA QuietQueue ==
  ASSUME IInv, op.pc \notin Appending
  PROVE  Quiet(queue)
  BY DEF IInv, Typed, QueueInv, Belongs, IsAwaited, Quiet

LEMMA QuietTail ==
  ASSUME IInv, queue # <<>>, Head(queue).for = "op"
  PROVE  Quiet(Tail(queue))
<1>1. queue \in Seq(QueuedEntries) /\ Unrivalled(queue)
  BY DEF IInv, Typed, QueueInv
<1>2. \A q \in Members(Tail(queue)) :
        q \in Members(queue) /\ ~Rivals(Head(queue), q)
  BY <1>1, HeadAndTail
<1> QED
  BY <1>1, <1>2, HeadAndTail DEF Quiet, Rivals

(* Behind it, notes and one awaited entry can be queued. *)
LEMMA QuietMoves ==
  ASSUME IInv, NEW base, Quiet(base), NEW more \in Seq(QueuedEntries),
         queue' = base \o more, TaskMoves, asked' = asked, offered' = offered,
         op'.action \in {op.action, None},
         \/ \A r \in Members(more) : r.for = "nobody" /\ IsBackground(r)'
         \/ \E r \in QueuedEntries :
              more = <<r>> /\ r.for = "op" /\ IsAwaited(r)'
  PROVE  queue' \in Seq(QueuedEntries) /\ QueueInv'
<1>1. \A q \in Members(base) : Belongs(q)'
  BY StaysPut DEF Quiet
<1>2. CASE \A r \in Members(more) : r.for = "nobody" /\ IsBackground(r)'
  <2>1. \A r \in Members(more) : Belongs(r)'
    BY <1>2 DEF Belongs
  <2> QED
    BY <1>1, <1>2, <2>1, QueueMoves DEF Quiet
<1>3. ASSUME NEW r \in QueuedEntries, more = <<r>>, r.for = "op", IsAwaited(r)'
      PROVE  queue' \in Seq(QueuedEntries) /\ QueueInv'
  <2>1. Members(more) = {r}
    BY <1>3, ShortQueues
  <2>2. \A x \in Members(more) : Belongs(x)'
    BY <1>3, <2>1 DEF Belongs
  <2>3. \A q \in Members(base) : ~Rivals(q, r)
    BY <1>3 DEF Quiet, Rivals
  <2> QED
    BY <1>1, <1>3, <2>2, <2>3, QueueMoves DEF Quiet
<1> QED
  BY <1>2, <1>3

LEMMA QuietStays ==
  ASSUME IInv, NEW base, Quiet(base), queue' = base, TaskMoves,
         asked' = asked, offered' = offered, op'.action \in {op.action, None}
  PROVE  queue' \in Seq(QueuedEntries) /\ QueueInv'
<1>1. base \in Seq(QueuedEntries) /\ base \o <<>> = base
  BY DEF Quiet
<1>2. <<>> \in Seq(QueuedEntries) /\ Members(<<>>) = {}
  BY ShortQueues
<1> QED
  BY <1>1, <1>2, QuietMoves

(* The entries that are queued. *)
LEMMA NotesTyped ==
  ASSUME NEW s \in RuntimeStatuses
  PROVE  /\ Note(s) \in QueuedEntries
         /\ Note(s).for = "nobody" /\ Note(s).entry.type = "NOTE"
<1> DEFINE e == [BlankEntry EXCEPT !.runtimeStatus = s]
<1>1. e \in Entry /\ e.type = "NOTE"
  BY DEF BlankEntry, Entry, EntryRecord, EntryTypes
<1>2. \A a \in Actions : <<"started", a>> \in Keys
  BY DEF Keys
<1>3. Note(s) = [entry |-> e, key |-> None, for |-> "nobody"]
  BY DEF Note, Background, Queued
<1> HIDE DEF e
<1> QED
  BY <1>1, <1>2, <1>3, NoneIsNoKey DEF QueuedEntries

LEMMA EndsTyped ==
  ASSUME NEW s \in {"Done", "Failed", "Cancelled", "LimitReached"},
         NEW for \in {"nobody", "op"}
  PROVE  /\ Queued(EndedBy(s), None, for) \in QueuedEntries
         /\ Queued(EndedBy(s), None, for).for = for
         /\ Queued(EndedBy(s), None, for).entry.type = "ENDED"
<1>1. EndedBy(s) \in Entry /\ EndedBy(s).type = "ENDED"
  <2>1. FirstProjection \in Projection
    BY FirstIsSound
  <2> QED
    BY <2>1, RecoveryEntries DEF EndedBy, BlankEntry
<1> QED
  BY <1>1, NoneIsNoKey DEF Queued, QueuedEntries, Keys

LEMMA EndNotesTyped ==
  ASSUME NEW s \in {"Done", "Failed", "Cancelled", "LimitReached"}
  PROVE  /\ EndNotes(s) \in Seq(QueuedEntries)
         /\ \A r \in Members(EndNotes(s)) :
              r.for = "nobody" /\ r.entry.type \in {"NOTE", "ENDED"}
<1>1. Note(s) \in QueuedEntries /\ Note(s).for = "nobody"
      /\ Note(s).entry.type = "NOTE"
  BY NotesTyped DEF RuntimeStatuses
<1>2. /\ Background(EndedBy(s)) \in QueuedEntries
      /\ Background(EndedBy(s)).for = "nobody"
      /\ Background(EndedBy(s)).entry.type = "ENDED"
  BY EndsTyped DEF Background
<1>3. PICK n, m : n = Note(s) /\ m = Background(EndedBy(s))
  OBVIOUS
<1>4. EndNotes(s) \in {<<n>>, <<n, m>>}
  BY <1>3 DEF EndNotes
<1>5. /\ <<n>> \in Seq(QueuedEntries) /\ Members(<<n>>) = {n}
      /\ <<n, m>> \in Seq(QueuedEntries) /\ Members(<<n, m>>) = {n, m}
  <2>1. n \in QueuedEntries /\ m \in QueuedEntries
    BY <1>1, <1>2, <1>3
  <2>2. <<n>> \in Seq(QueuedEntries) /\ Members(<<n>>) = {n}
    BY <2>1, ShortQueues
  <2>3. <<n, m>> \in Seq(QueuedEntries) /\ Members(<<n, m>>) = {n, m}
    BY <2>1, ShortQueues
  <2> QED
    BY <2>2, <2>3
<1> QED
  BY <1>1, <1>2, <1>3, <1>4, <1>5

(* What is queued for the operation. *)
LEMMA OwnTyped ==
  ASSUME NEW e \in Entry, NEW k \in Keys \cup {None},
         \A a \in Actions : k = <<"started", a>> =>
           e.type = "STARTED" /\ e.action = a
  PROVE  /\ Queued(e, k, "op") \in QueuedEntries
         /\ Queued(e, k, "op").for = "op" /\ Queued(e, k, "op").entry = e
         /\ Queued(e, k, "op").key = k
  BY DEF Queued, QueuedEntries

LEMMA AwaitedTyped ==
  ASSUME NEW e \in Entry
  PROVE  Awaited(e) \in QueuedEntries /\ Awaited(e).for = "op"
         /\ Awaited(e).entry = e
<1>1. \A a \in Actions : <<"started", a>> \in Keys
  BY DEF Keys
<1>2. \A a \in Actions : None # <<"started", a>>
  BY <1>1, NoneIsNoKey
<1> QED
  BY <1>2, OwnTyped DEF Awaited

LEMMA BlankTyped ==
  /\ InterruptEntry \in Entry /\ InterruptEntry.type = "SESSION_INTERRUPTED"
  /\ [BlankEntry EXCEPT !.type = "RECOVERY_COMPLETED"] \in Entry
  /\ [BlankEntry EXCEPT !.type = "RECOVERY_COMPLETED"].type
       = "RECOVERY_COMPLETED"
  BY DEF InterruptEntry, BlankEntry, Entry, EntryRecord, EntryTypes

LEMMA AboutTyped ==
  ASSUME NEW a \in Actions,
         NEW type \in {"PROPOSED", "APPROVED", "DECIDED", "DENIED", "STARTED",
                       "COMPLETED", "ACTION_FAILED"},
         NEW ap \in Approvals \cup {None}, NEW g \in Nat,
         NEW v \in Verdicts \cup {None}, NEW d \in Decisions \cup {None},
         NEW r \in Receipts \cup {None}, NEW e,
         e = [About(type, a) EXCEPT !.approval = ap, !.generation = g,
                                    !.verdict = v, !.decision = d, !.receipt = r]
  PROVE  /\ e \in Entry /\ e.type = type /\ e.action = a /\ e.receipt = r
  BY NoneIsAbsent DEF About, BlankEntry, Entry, EntryRecord, EntryTypes, Kinds

-----------------------------------------------------------------------------
(* Operations and effects under a step.                                    *)

Asking == {"waiting"} \cup GateAwaits
Carrying == {"started", "running", "settling"}
Phases == {"idle", "ready"} \cup Asking \cup DispatchAwaits \cup ViewAwaits

(* What every step does to the side effects: it moves one of them on,      *)
(* legally, or it is a crash.                                              *)
LegalMoves ==
  {<<"none", "requested">>, <<"requested", "authorised">>,
   <<"requested", "closed">>, <<"authorised", "closed">>,
   <<"authorised", "running">>, <<"running", "settled">>,
   <<"running", "uncertain">>}

Progresses(a) ==
  EffectOf(a)' = EffectOf(a) \/ <<EffectOf(a), EffectOf(a)'>> \in LegalMoves

Rests(b) == EffectOf(b)' = EffectOf(b)

MovesOne ==
  \/ \A b \in Actions : Rests(b)
  \/ \E a \in Actions : Progresses(a) /\ \A b \in Actions \ {a} : Rests(b)

Stopped ==
  \A b \in Actions :
    \/ Rests(b)
    \/ EffectOf(b) \in {"requested", "authorised"} /\ EffectOf(b)' = "closed"
    \/ EffectOf(b) = "running" /\ EffectOf(b)' = "uncertain"

Good == IInv' /\ (MovesOne \/ Stopped)

LEMMA OpTypes ==
  /\ NoOp \in Operations /\ NoOp.pc = "idle" /\ NoOp.action = None
  /\ \A by \in {"agent", "view"}, pc \in {"waiting", "ready"}, a \in Actions :
       /\ Waiting(by, pc, a) \in Operations /\ Waiting(by, pc, a).by = by
       /\ Waiting(by, pc, a).pc = pc /\ Waiting(by, pc, a).action = a
  BY DEF NoOp, Waiting, Operations

LEMMA Moved ==
  ASSUME op \in Operations, NEW pc \in Phases, OpMoves(pc)
  PROVE  /\ op' \in Operations /\ op'.pc = pc /\ op'.by = op.by
         /\ op'.action = op.action /\ op'.approval = op.approval
         /\ op'.generation = op.generation /\ op'.verdict = op.verdict
         /\ op'.decision = op.decision /\ op'.receipt = op.receipt
  BY DEF OpMoves, Operations, Phases, Asking

LEMMA AuthorityKept ==
  ASSUME IInv, op'.pc = op.pc, op'.by = op.by, op'.action = op.action,
         op'.approval = op.approval, op'.generation = op.generation,
         op'.decision = op.decision, op'.receipt = op.receipt,
         op' = op \/ op.pc # "idle",
         runs' = runs, asked \subseteq asked', given \subseteq given',
         op.pc # "idle" /\ IsPending(op.action) =>
           ledger'.proj.pending = ledger.proj.pending
  PROVE  OpInv'
<1>1. OpInv
  BY DEF IInv
<1>2. op.pc = "deciding" => ApprovalIsDurable'
  BY <1>1 DEF OpInv, ApprovalIsDurable, PendingIsMine, IsPending
<1>3. op.pc = "starting" => AllowIsDurable'
  BY <1>1 DEF OpInv, AllowIsDurable, PendingIsMine, IsPending
<1>4. op.pc \in Carrying => StartIsDurable'
  BY <1>1 DEF OpInv, StartIsDurable, PendingIsMine, IsPending, Carrying
<1> QED
  BY <1>1, <1>2, <1>3, <1>4 DEF OpInv, Carrying

(* Nothing that stands in the queue behind an operation can touch what is  *)
(* pending for it.                                                         *)
LEMMA BackgroundIsHarmless ==
  ASSUME IInv, NEW q \in Members(queue), q.for # "op", Fits(q),
         op.pc # "idle", IsPending(op.action)
  PROVE  After(ledger.proj, q.entry) = ledger.proj
<1>1. q.for \in {"nobody", "proposal"}
  BY DEF Members, IInv, Typed, QueuedEntries
<1>2. Belongs(q) /\ EraInv /\ OpInv
  BY DEF IInv, QueueInv
<1>3. ~IsProposal(q)
  BY DEF IsProposal, Fits, Accepts, IsPending
<1>4. IsBackground(q) => q.entry.type = "NOTE"
  BY <1>2
  DEF IsBackground, Fits, Accepts, Targets, IsPending, EraInv, OpInv
<1> QED
  BY <1>1, <1>2, <1>3, <1>4 DEF Belongs, After

LEMMA EraLedger ==
  ASSUME IInv, NEW q \in QueuedEntries, LedgerGrows(q),
         q.entry.type \notin {"RECOVERY_REQUIRED"},
         task = "none" => q.entry.type # "PROPOSED",
         task = "none" /\ op.pc # "idle" /\ q.entry.type = "SESSION_INTERRUPTED" =>
           runs[op.action] > 0
  PROVE  /\ task # "none" => ledger'.proj.requirement \notin Reapprovals
         /\ task = "none" /\ op.pc # "idle" /\ ledger'.proj.pending # None =>
              /\ ledger'.proj.pending.action = op.action
              /\ ledger'.proj.pending.started /\ runs[op.action] = 0 =>
                   ledger'.proj.pending.approved
<1>1. /\ ledger.proj \in Projection /\ q.entry \in Entry
      /\ Accepts(ledger.proj, q.entry)
      /\ ledger'.proj = After(ledger.proj, q.entry)
  BY DEF IInv, Typed, Ledgers, QueuedEntries, LedgerGrows, Fits, Extended
<1>2. task # "none" => ledger'.proj.requirement \notin Reapprovals
  <2>1. None \notin Reapprovals /\ "interrupted" \notin Reapprovals
    BY NoneIsAbsent DEF Reasons, Reapprovals
  <2> QED
    BY <1>1, <2>1, RequirementStays DEF IInv, EraInv
<1>3. ASSUME task = "none", op.pc # "idle", ledger'.proj.pending # None
      PROVE  /\ ledger'.proj.pending.action = op.action
             /\ ledger'.proj.pending.started /\ runs[op.action] = 0 =>
                  ledger'.proj.pending.approved
  <2>1. EraInv
    BY DEF IInv
  <2> QED
    BY <1>1, <1>3, <2>1, PendingStays DEF EraInv
<1> QED
  BY <1>2, <1>3

(* How an operation and its task may move on. *)
OpCourse ==
  \/ op' = NoOp
  \/ /\ op'.pc # "idle" /\ op'.action = op.action /\ op'.by = op.by
     /\ op'.pc \in {"ready"} \cup ViewAwaits => op.by = "view"

TaskCourse ==
  \/ task' = task
  \/ task \in {"working", "cancelling"} /\ task' = "ended" /\ op' = NoOp
  \/ task = "working" /\ task' = "cancelling"

LEMMA EraMoves ==
  ASSUME IInv, op.pc # "idle", OpCourse, TaskCourse, offered' = offered,
         asked' = asked, mode' = mode, \A a \in Actions : runs'[a] = 0 => runs[a] = 0,
         \/ ledger' = ledger
         \/ \E q \in QueuedEntries : LedgerGrows(q) /\ IsAwaited(q)
  PROVE  EraInv'
<1>1. EraInv /\ OpInv /\ NoOp.pc = "idle"
  BY OpTypes DEF IInv
<1>2. /\ task # "none" => ledger'.proj.requirement \notin Reapprovals
      /\ task = "none" /\ ledger'.proj.pending # None =>
           /\ ledger'.proj.pending.action = op.action
           /\ ledger'.proj.pending.started /\ runs[op.action] = 0 =>
                ledger'.proj.pending.approved
  <2>1. CASE ledger' = ledger
    BY <1>1, <2>1 DEF EraInv
  <2>2. ASSUME NEW q \in QueuedEntries, LedgerGrows(q), IsAwaited(q)
        PROVE  /\ task # "none" => ledger'.proj.requirement \notin Reapprovals
               /\ task = "none" /\ ledger'.proj.pending # None =>
                    /\ ledger'.proj.pending.action = op.action
                    /\ ledger'.proj.pending.started /\ runs[op.action] = 0 =>
                         ledger'.proj.pending.approved
    <3>1. q.entry.type \notin {"RECOVERY_REQUIRED", "PROPOSED"}
      BY <2>2 DEF IsAwaited, Appending, ViewAwaits
    <3>2. q.entry.type = "SESSION_INTERRUPTED" => runs[op.action] > 0
      BY <1>1, <2>2 DEF IsAwaited, Appending, ViewAwaits, OpInv
    <3> QED
      BY <2>2, <3>1, <3>2, EraLedger
  <2> QED
    BY <2>1, <2>2
<1>3. mode' # "recovering" /\ op.action \in Actions
  BY <1>1 DEF EraInv, OpInv, IInv, Typed
<1>4. CASE op' = NoOp
  <2>1. op'.pc = "idle" /\ (task' = "none" <=> task = "none")
    BY <1>1, <1>4 DEF TaskCourse
  <2> QED
    BY <1>1, <1>2, <1>3, <2>1 DEF EraInv, ViewAwaits
<1>5. CASE op' # NoOp
  <2>1. /\ op'.pc # "idle" /\ op'.action = op.action /\ op'.by = op.by
        /\ op'.pc \in {"ready"} \cup ViewAwaits => op.by = "view"
        /\ task' = task \/ (task = "working" /\ task' = "cancelling")
    BY <1>5 DEF OpCourse, TaskCourse
  <2> QED
    BY <1>1, <1>2, <1>3, <2>1 DEF EraInv
<1> QED
  BY <1>4, <1>5

LEMMA OthersRest ==
  ASSUME NEW b \in Actions, op.action # b, op'.action # b,
         b \in ledger'.settled <=> b \in ledger.settled,
         runs'[b] = runs[b], b \in asked' <=> b \in asked,
         offered'[b] \in {"hashing", "queued"}
           <=> offered[b] \in {"hashing", "queued"},
         InPlay(ledger'.proj, b) <=> InPlay(ledger.proj, b)
  PROVE  Rests(b)
  BY DEF EffectOf, MayStillRun, InPlay, Rests

(* What is not being carried out can only be given up. *)
LEMMA Fades ==
  ASSUME NEW a \in Actions,
         a \in ledger'.settled <=> a \in ledger.settled,
         runs'[a] = runs[a], a \in asked' <=> a \in asked,
         op.action = a => op.pc \notin Carrying,
         op'.action = a => op'.pc \notin Carrying,
         MayStillRun(a)' => MayStillRun(a)
  PROVE  /\ Progresses(a)
         /\ (MayStillRun(a) => MayStillRun(a)') => Rests(a)
  BY DEF EffectOf, Carrying, Progresses, Rests, LegalMoves

LEMMA GrowthRests ==
  ASSUME IInv, NEW q \in QueuedEntries, IsAwaited(q),
         ledger' = ledger \/ LedgerGrows(q), NEW b \in Actions, b # op.action
  PROVE  /\ b \in ledger'.settled <=> b \in ledger.settled
         /\ InPlay(ledger'.proj, b) <=> InPlay(ledger.proj, b)
<1>1. CASE ledger' = ledger
  BY <1>1
<1>2. CASE LedgerGrows(q)
  <2>1. /\ ledger.proj \in Projection /\ q.entry \in Entry
        /\ Accepts(ledger.proj, q.entry)
        /\ ledger'.proj = After(ledger.proj, q.entry)
        /\ ledger'.settled = IF q.entry.type \in {"COMPLETED", "ACTION_FAILED"}
                               THEN ledger.settled \cup {q.entry.action}
                               ELSE ledger.settled
    BY <1>2 DEF IInv, Typed, Ledgers, QueuedEntries, LedgerGrows, Fits, Extended
  <2>2. /\ q.entry.type # "PROPOSED"
        /\ q.entry.type \in {"DECIDED", "STARTED", "COMPLETED", "ACTION_FAILED"}
             => q.entry.action = op.action
        /\ q.entry.type # "DENIED"
        /\ q.entry.type = "ENDED" => op.pc \in ViewAwaits
    BY DEF IsAwaited, Appending, ViewAwaits
  <2>3. op.pc \in ViewAwaits => ~InPlay(ledger.proj, b)
    BY DEF IInv, EraInv, OpInv, ViewAwaits, InPlay
  <2> QED
    BY <2>1, <2>2, <2>3, AfterInPlay
<1> QED
  BY <1>1, <1>2

-----------------------------------------------------------------------------
(* Steps that answer the operation.                                        *)

OwnAnswer(more) ==
  Resolves("op", more) \/ (Rejects("op") /\ queue' = Tail(queue) \o more)

(* What may stand behind the answered entry. *)
MayFollow(more) ==
  \/ \A r \in Members(more) : r.for = "nobody" /\ IsBackground(r)'
  \/ \E r \in QueuedEntries : more = <<r>> /\ r.for = "op" /\ IsAwaited(r)'

LEMMA NothingFollows ==
  <<>> \in Seq(QueuedEntries) /\ MayFollow(<<>>)
  BY ShortQueues DEF MayFollow

LEMMA NoteFollows ==
  ASSUME task' # "none", NEW s \in RuntimeStatuses
  PROVE  <<Note(s)>> \in Seq(QueuedEntries) /\ MayFollow(<<Note(s)>>)
<1>1. PICK n : n = Note(s)
  OBVIOUS
<1>2. n \in QueuedEntries /\ n.for = "nobody" /\ n.entry.type = "NOTE"
  BY <1>1, NotesTyped
<1>3. <<n>> \in Seq(QueuedEntries) /\ Members(<<n>>) = {n}
  BY <1>2, ShortQueues
<1> QED
  BY <1>1, <1>2, <1>3 DEF MayFollow, IsBackground

LEMMA EndNotesFollow ==
  ASSUME task' = "ended",
         NEW s \in {"Done", "Failed", "Cancelled", "LimitReached"}
  PROVE  EndNotes(s) \in Seq(QueuedEntries) /\ MayFollow(EndNotes(s))
<1>1. PICK n : n = EndNotes(s)
  OBVIOUS
<1> QED
  BY <1>1, EndNotesTyped DEF MayFollow, IsBackground

LEMMA OwnFollows ==
  ASSUME NEW r \in QueuedEntries, r.for = "op", IsAwaited(r)'
  PROVE  <<r>> \in Seq(QueuedEntries) /\ MayFollow(<<r>>)
  BY ShortQueues DEF MayFollow

LEMMA OpKeepsAction ==
  ASSUME OpCourse
  PROVE  op'.action \in {op.action, None}
  BY OpTypes DEF OpCourse

LEMMA OwnStep ==
  ASSUME IInv, NEW more \in Seq(QueuedEntries), OwnAnswer(more),
         MayFollow(more), op' \in Operations, OpCourse, TaskCourse, OpInv',
         uncertain' \in BOOLEAN,
         UNCHANGED <<offered, seen, asked, given, runs, mode, crashes>>,
         NEW a, a = op.action, Progresses(a)
  PROVE  Good
<1>1. /\ IsAwaited(Head(queue)) /\ Head(queue) \in QueuedEntries
      /\ queue # <<>> /\ Head(queue).for = "op"
      /\ ledger' = ledger \/ LedgerGrows(Head(queue))
      /\ ledger' \in Ledgers /\ LedgerInv'
      /\ known' \subseteq Keys /\ faults' \in 0..MaxFaults
  BY OwnAnswered DEF OwnAnswer
<1>2. queue' = Tail(queue) \o more
  BY DEF OwnAnswer, Resolves
<1>3. op'.action \in {op.action, None}
  BY OpKeepsAction
<1>4. TaskMoves
  BY DEF TaskCourse, TaskMoves
<1>5. Quiet(Tail(queue))
  BY <1>1, QuietTail
<1>6. queue' \in Seq(QueuedEntries) /\ QueueInv'
  BY <1>2, <1>3, <1>4, <1>5, QuietMoves DEF MayFollow
<1>7. op.pc # "idle" /\ op.action \in Actions
  BY <1>1 DEF IsAwaited, Appending, ViewAwaits, IInv, OpInv, Typed
<1>8. EraInv'
  BY <1>1, <1>7, EraMoves
<1>9. Typed'
  BY <1>1, <1>6 DEF Typed, IInv, TaskCourse
<1>10. ASSUME NEW b \in Actions \ {a} PROVE Rests(b)
  <2>1. /\ b \in ledger'.settled <=> b \in ledger.settled
        /\ InPlay(ledger'.proj, b) <=> InPlay(ledger.proj, b)
    BY <1>1, GrowthRests
  <2>2. b # None
    BY NoneIsAbsent
  <2> QED
    BY <1>3, <2>1, <2>2, OthersRest
<1>11. MovesOne
  BY <1>7, <1>10 DEF MovesOne
<1> QED
  BY <1>1, <1>6, <1>8, <1>9, <1>11 DEF Good, IInv

(* The operation does not run its command: it can only be given up. *)
LEMMA OwnFades ==
  ASSUME IInv, NEW more, OwnAnswer(more), op.pc \notin Carrying,
         op'.pc \notin Carrying, op'.pc \in Asking => op.pc \in Asking,
         op'.action \in {op.action, None},
         UNCHANGED <<offered, asked, runs>>,
         NEW a, a = op.action
  PROVE  Progresses(a)
<1>1. /\ IsAwaited(Head(queue)) /\ Head(queue) \in QueuedEntries
      /\ ledger' = ledger \/ LedgerGrows(Head(queue))
  BY OwnAnswered DEF OwnAnswer
<1>2. PICK q : q = Head(queue)
  OBVIOUS
<1>3. /\ op.pc # "idle" /\ op.pc # "settling"
      /\ q.entry.type \notin {"PROPOSED", "COMPLETED", "ACTION_FAILED"}
  BY <1>1, <1>2 DEF IsAwaited, Appending, ViewAwaits, Carrying
<1>4. a \in Actions
  BY <1>3 DEF IInv, OpInv, Typed
<1>5. /\ ledger'.settled = ledger.settled
      /\ \A b : InPlay(ledger'.proj, b) => InPlay(ledger.proj, b)
  <2>1. CASE LedgerGrows(q)
    <3>1. /\ ledger.proj \in Projection /\ q.entry \in Entry
          /\ Accepts(ledger.proj, q.entry)
          /\ ledger'.proj = After(ledger.proj, q.entry)
          /\ ledger'.settled = ledger.settled
      BY <1>1, <1>2, <1>3, <2>1
      DEF IInv, Typed, Ledgers, QueuedEntries, LedgerGrows, Fits, Extended
    <3> QED
      BY <1>3, <3>1, AfterInPlay
  <2> QED
    BY <1>1, <1>2, <2>1
<1>6. MayStillRun(a)' => MayStillRun(a)
  BY <1>4, <1>5, NoneIsAbsent DEF MayStillRun, InPlay, Asking
<1> QED
  BY <1>4, <1>5, <1>6, Fades

(* An operation that is over, or only waits, needs no authority. *)
LEMMA CalmOp ==
  ASSUME \/ op' = NoOp
         \/ /\ op'.pc \in {"ready", "waiting"} \cup ViewAwaits
            /\ op'.action \in asked' /\ op'.by \in {"agent", "view"}
  PROVE  OpInv'
<1>1. NoOp.pc = "idle"
  BY OpTypes
<1> QED
  BY <1>1 DEF OpInv, GateAwaits, DispatchAwaits, ViewAwaits

LEMMA ViewFailsCourse ==
  ASSUME IInv, NEW base \in Seq(QueuedEntries), ViewFails(base),
         op.pc # "idle", op.by = "view", task' = task, asked' = asked
  PROVE  /\ op' \in Operations /\ op'.pc \in {"ready", "failing"}
         /\ OpCourse /\ TaskCourse /\ OpInv'
         /\ \E more \in Seq(QueuedEntries) :
              queue' = base \o more /\ MayFollow(more)
<1>1. op \in Operations /\ op.action \in Actions /\ op.action \in asked
  BY DEF IInv, Typed, OpInv
<1>2. CASE ledger'.proj.status \in EndStatuses
  <2>1. op' = Waiting("view", "ready", op.action) /\ queue' = base
    BY <1>2 DEF ViewFails
  <2>2. /\ op' \in Operations /\ op'.pc = "ready" /\ op'.by = "view"
        /\ op'.action = op.action
    BY <1>1, <2>1, OpTypes
  <2>3. queue' = base \o <<>>
    BY <2>1
  <2> QED
    BY <1>1, <2>2, <2>3, CalmOp, NothingFollows DEF OpCourse, TaskCourse
<1>3. CASE ledger'.proj.status \notin EndStatuses
  <2>1. OpMoves("failing") /\ queue' = Append(base, Awaited(EndedBy("Failed")))
    BY <1>3 DEF ViewFails
  <2>2. /\ op' \in Operations /\ op'.pc = "failing" /\ op'.by = "view"
        /\ op'.action = op.action
    BY <1>1, <2>1, Moved DEF Phases, ViewAwaits
  <2>3. PICK r : r = Awaited(EndedBy("Failed"))
    OBVIOUS
  <2>4. r \in QueuedEntries /\ r.for = "op" /\ r.entry.type = "ENDED"
    BY <2>3, EndsTyped DEF Awaited
  <2>5. IsAwaited(r)'
    BY <2>2, <2>4 DEF IsAwaited, Appending, ViewAwaits
  <2>6. <<r>> \in Seq(QueuedEntries) /\ MayFollow(<<r>>)
    BY <2>4, <2>5, OwnFollows
  <2>7. queue' = base \o <<r>>
    BY <2>1, <2>3, <2>4, ShortQueues
  <2> QED
    BY <1>1, <2>2, <2>6, <2>7, CalmOp DEF OpCourse, TaskCourse, ViewAwaits
<1> QED
  BY <1>2, <1>3

LEMMA BlocksCourse ==
  ASSUME IInv, NEW base \in Seq(QueuedEntries), Blocks(base), op.pc # "idle",
         task' = task, asked' = asked
  PROVE  /\ op' \in Operations /\ op'.pc \in {"idle", "ready", "failing"}
         /\ OpCourse /\ TaskCourse /\ OpInv'
         /\ \E more \in Seq(QueuedEntries) :
              queue' = base \o more /\ MayFollow(more)
<1>1. CASE op.by = "view"
  BY <1>1, ViewFailsCourse DEF Blocks
<1>2. CASE op.by # "view"
  <2>1. op' = NoOp /\ queue' \in {base, base \o <<Note("Streaming")>>}
    BY <1>2 DEF Blocks, ReturnsToLoop
  <2>2. task' # "none"
    BY <1>2 DEF IInv, EraInv, OpInv
  <2>3. base = base \o <<>>
    OBVIOUS
  <2>4. \E more \in Seq(QueuedEntries) :
          queue' = base \o more /\ MayFollow(more)
    BY <2>1, <2>2, <2>3, NothingFollows, NoteFollows DEF RuntimeStatuses
  <2> QED
    BY <2>1, <2>4, OpTypes, CalmOp DEF OpCourse, TaskCourse
<1> QED
  BY <1>1, <1>2

(* What an operation is while one of its entries is answered. *)
LEMMA OwnFacts ==
  ASSUME IInv, op.pc # "idle"
  PROVE  /\ op \in Operations /\ op.action \in Actions /\ op.action \in asked
         /\ op.by \in {"agent", "view"} /\ mode = "live"
         /\ op.by = "agent" => task \in {"working", "cancelling"}
         /\ op.by = "view" => task = "none"
  BY OpTypes DEF IInv, Typed, OpInv, EraInv

LEMMA ApprovalRecordedGood ==
  ASSUME IInv, ApprovalRecorded
  PROVE  Good
<1>1. /\ op.pc = "approving" /\ OwnAnswer(<<>>) /\ OpMoves("asserting")
      /\ UNCHANGED <<uncertain, offered, seen, task, asked, given, runs, mode,
                     crashes>>
  BY DEF ApprovalRecorded, OwnAnswer
<1>2. PICK a : a = op.action
  OBVIOUS
<1>3. /\ op' \in Operations /\ op'.pc = "asserting" /\ op'.by = op.by
      /\ op'.action = op.action /\ op'.approval = op.approval
  BY <1>1, OwnFacts, Moved DEF Phases, Asking, GateAwaits
<1>4. OpInv'
  BY <1>1, <1>3 DEF IInv, OpInv, GateAwaits, DispatchAwaits
<1>5. Progresses(a)
  BY <1>1, <1>2, <1>3, OwnFades DEF Carrying, Asking, GateAwaits
<1>6. OpCourse /\ TaskCourse
  BY <1>1, <1>3 DEF OpCourse, TaskCourse, ViewAwaits
<1>7. uncertain' \in BOOLEAN
  BY <1>1 DEF IInv, Typed
<1> QED
  BY <1>1, <1>2, <1>3, <1>4, <1>5, <1>6, <1>7, NothingFollows, OwnStep

LEMMA DecisionRecordedGood ==
  ASSUME IInv, DecisionRecorded
  PROVE  Good
<1>1. /\ op.pc = "recordingDecision" /\ op.pc # "idle"
      /\ UNCHANGED <<uncertain, offered, seen, asked, given, runs, mode, crashes>>
      /\ uncertain' \in BOOLEAN
  BY DEF DecisionRecorded, IInv, Typed
<1>2. PICK a : a = op.action
  OBVIOUS
<1>3. CASE /\ Resolves("op", <<>>) /\ OpMoves("allowed") /\ task' = task
  <2>1. /\ op' \in Operations /\ op'.pc = "allowed" /\ op'.by = op.by
        /\ op'.action = op.action /\ op'.approval = op.approval
    BY <1>1, <1>3, OwnFacts, Moved DEF Phases, Asking, GateAwaits
  <2>2. OpInv'
    BY <1>1, <2>1 DEF IInv, OpInv, GateAwaits, DispatchAwaits
  <2>3. Progresses(a)
    BY <1>1, <1>2, <1>3, <2>1, OwnFades
    DEF Carrying, Asking, GateAwaits, OwnAnswer
  <2>4. OpCourse /\ TaskCourse
    BY <1>3, <2>1 DEF OpCourse, TaskCourse, ViewAwaits
  <2> QED
    BY <1>1, <1>2, <1>3, <2>1, <2>2, <2>3, <2>4, NothingFollows, OwnStep
    DEF OwnAnswer
<1>4. ASSUME NEW closed,
             closed = Awaited([BlankEntry EXCEPT !.type = "RECOVERY_COMPLETED"]),
             op.by = "view", Resolves("op", <<closed>>), OpMoves("completing"),
             task' = task
      PROVE  Good
  <2>1. /\ op' \in Operations /\ op'.pc = "completing" /\ op'.by = op.by
        /\ op'.action = op.action
    BY <1>1, <1>4, OwnFacts, Moved DEF Phases, ViewAwaits
  <2>2. /\ closed \in QueuedEntries /\ closed.for = "op"
        /\ closed.entry.type = "RECOVERY_COMPLETED"
    BY <1>4, BlankTyped, AwaitedTyped
  <2>3. IsAwaited(closed)'
    BY <2>1, <2>2 DEF IsAwaited, Appending, ViewAwaits
  <2>4. OpInv'
    BY <1>1, <1>4, <2>1, CalmOp, OwnFacts DEF ViewAwaits
  <2>5. Progresses(a)
    BY <1>1, <1>2, <1>4, <2>1, OwnFades
    DEF Carrying, Asking, GateAwaits, OwnAnswer
  <2>6. OpCourse /\ TaskCourse
    BY <1>4, <2>1 DEF OpCourse, TaskCourse
  <2>7. <<closed>> \in Seq(QueuedEntries) /\ MayFollow(<<closed>>)
    BY <2>2, <2>3, OwnFollows
  <2> QED
    BY <1>1, <1>2, <1>4, <2>1, <2>4, <2>5, <2>6, <2>7, OwnStep DEF OwnAnswer
<1>5. ASSUME NEW more, Resolves("op", more), op' = NoOp, op.by = "agent",
             more \in Seq(QueuedEntries), MayFollow(more), TaskCourse
      PROVE  Good
  <2>1. op' \in Operations /\ op'.pc = "idle" /\ op'.action = None
    BY <1>5, OpTypes
  <2>2. OpInv' /\ OpCourse
    BY <1>5, CalmOp DEF OpCourse
  <2>3. Progresses(a)
    BY <1>1, <1>2, <1>5, <2>1, OwnFades
    DEF Carrying, Asking, GateAwaits, OwnAnswer
  <2> QED
    BY <1>1, <1>2, <1>5, <2>1, <2>2, <2>3, OwnStep DEF OwnAnswer
<1>6. CASE /\ op.by = "agent" /\ op' = NoOp /\ task' = task
           /\ Resolves("op", IF task = "cancelling" THEN <<>>
                                                    ELSE <<Note("Streaming")>>)
  <2>1. task' # "none" /\ TaskCourse
    BY <1>1, <1>6, OwnFacts DEF TaskCourse
  <2>2. CASE task = "cancelling"
    BY <1>5, <1>6, <2>1, <2>2, NothingFollows
  <2>3. CASE task # "cancelling"
    BY <1>5, <1>6, <2>1, <2>3, NoteFollows DEF RuntimeStatuses
  <2> QED
    BY <2>2, <2>3
<1>7. CASE /\ op.by = "agent" /\ task = "working" /\ op' = NoOp
           /\ Resolves("op", EndNotes("LimitReached")) /\ task' = "ended"
  BY <1>5, <1>7, EndNotesFollow DEF TaskCourse
<1> QED
  BY <1>3, <1>4, <1>6, <1>7 DEF DecisionRecorded

LEMMA StartRecordedGood ==
  ASSUME IInv, StartRecorded
  PROVE  Good
<1>1. /\ op.pc = "starting" /\ Resolves("op", <<>>) /\ OwnAnswer(<<>>)
      /\ OpMoves("started")
      /\ UNCHANGED <<uncertain, offered, seen, task, asked, given, runs, mode,
                     crashes>>
  BY DEF StartRecorded, OwnAnswer
<1>2. PICK a : a = op.action
  OBVIOUS
<1>3. PICK q : q = Head(queue)
  OBVIOUS
<1>4. /\ op' \in Operations /\ op'.pc = "started" /\ op'.by = op.by
      /\ op'.action = a /\ op'.approval = op.approval
      /\ op'.generation = op.generation /\ op'.decision = op.decision
      /\ op'.receipt = op.receipt
  BY <1>1, <1>2, OwnFacts, Moved DEF Phases, DispatchAwaits
<1>5. /\ op \in Operations /\ a \in Actions /\ a \in asked /\ AllowIsDurable
      /\ op.approval \in given /\ op.approval \in Approvals
      /\ op.receipt \in Receipts
  BY <1>1, <1>2, OwnFacts DEF IInv, OpInv, GateAwaits
<1>6. /\ ledger.proj.pending # None /\ ledger.proj.pending.action = a
      /\ ~ledger.proj.pending.started /\ ledger.proj.pending.approved
      /\ ledger.proj.pending.kind = "command"
      /\ ledger.proj.pending.verdict = "allow"
      /\ ledger.proj.pending.approval = op.approval
      /\ ledger.proj.pending.decision = op.decision
      /\ ledger.proj.pending \in Pending /\ ledger.proj \in Projection
  BY <1>2, <1>5 DEF AllowIsDurable, PendingIsMine, IInv, Typed, Ledgers,
     Projection
<1>7. /\ IsAwaited(q) /\ q \in QueuedEntries
      /\ ledger' = ledger \/ LedgerGrows(q)
  BY <1>1, <1>3, OwnAnswered
<1>8. /\ q.entry.type = "STARTED" /\ q.entry.receipt = op.receipt
      /\ q.entry.action = a /\ q.key = <<"started", a>> /\ q.entry \in Entry
  BY <1>1, <1>2, <1>7 DEF IsAwaited, QueuedEntries
<1>9. a \notin ledger.settled /\ <<"started", a>> \notin ledger.keys
  BY <1>5, <1>6 DEF IInv, LedgerInv, IsPending, IsStarted
<1>10. runs[a] = 0
  <2>1. ~(runs[a] > 0)
    BY <1>5, <1>6, <1>9 DEF IInv, LedgerInv, UnsettledStaysStarted
  <2> QED
    BY <1>5, <2>1 DEF IInv, Typed, MaxRuns
<1>11. LedgerGrows(q)
  <2>1. q.key \notin known
    BY <1>8, <1>9 DEF IInv, LedgerInv
  <2> QED
    BY <1>1, <1>3, <2>1 DEF Resolves, LedgerGrows
<1>12. PICK p : p = ledger.proj.pending
  OBVIOUS
<1>13. /\ ledger'.proj.pending = [p EXCEPT !.started = TRUE,
                                          !.receipt = q.entry.receipt]
       /\ ledger'.settled = ledger.settled
  BY <1>6, <1>8, <1>11, <1>12 DEF LedgerGrows, Extended, After, Projection
<1>14. StartIsDurable'
  <2>1. PICK n : n = [p EXCEPT !.started = TRUE, !.receipt = q.entry.receipt]
    OBVIOUS
  <2>2. /\ n.started /\ n.receipt = op.receipt /\ n.kind = "command"
        /\ n.action = a /\ n.approval = op.approval
        /\ n.decision = op.decision /\ n.verdict = "allow" /\ n \in Pending
    BY <1>5, <1>6, <1>8, <1>12, <2>1 DEF Pending
  <2>3. n # None /\ ledger'.proj.pending = n
    BY <1>13, <2>1, <2>2, NoneIsAbsent
  <2> QED
    BY <1>4, <2>2, <2>3 DEF StartIsDurable, PendingIsMine
<1>15. OpInv'
  <2>1. op'.by \in {"agent", "view"}
    BY <1>1, <1>4, OwnFacts
  <2> QED
    BY <1>1, <1>4, <1>5, <1>10, <1>14, <2>1
    DEF OpInv, GateAwaits, DispatchAwaits
<1>16. Progresses(a)
  <2>1. EffectOf(a) = "requested"
    BY <1>1, <1>2, <1>5, <1>9, <1>10
    DEF EffectOf, MayStillRun, GateAwaits
  <2>2. EffectOf(a)' = "authorised"
    BY <1>4, <1>9, <1>13 DEF EffectOf
  <2> QED
    BY <2>1, <2>2 DEF Progresses, LegalMoves
<1>17. OpCourse /\ TaskCourse
  BY <1>1, <1>2, <1>4 DEF OpCourse, TaskCourse, ViewAwaits
<1>18. uncertain' \in BOOLEAN
  BY <1>1 DEF IInv, Typed
<1> QED
  BY <1>1, <1>2, <1>4, <1>15, <1>16, <1>17, <1>18, NothingFollows, OwnStep

LEMMA GateAppendFailsGood ==
  ASSUME IInv, GateAppendFails
  PROVE  Good
<1>1. /\ op.pc \in {"approving", "recordingDecision", "starting"}
      /\ op.pc # "idle" /\ Rejects("op") /\ Blocks(Tail(queue))
      /\ UNCHANGED <<uncertain, offered, seen, task, asked, given, runs, mode,
                     crashes>>
  BY DEF GateAppendFails
<1>2. PICK a : a = op.action
  OBVIOUS
<1>3. queue # <<>> /\ Quiet(Tail(queue))
  BY <1>1, OwnAnswered, QuietTail
<1>4. /\ op' \in Operations /\ op'.pc \in {"idle", "ready", "failing"}
      /\ OpCourse /\ TaskCourse /\ OpInv'
  BY <1>1, <1>3, BlocksCourse DEF Quiet
<1>5. PICK more \in Seq(QueuedEntries) :
        queue' = Tail(queue) \o more /\ MayFollow(more)
  BY <1>1, <1>3, BlocksCourse DEF Quiet
<1>6. OwnAnswer(more) /\ uncertain' \in BOOLEAN
  BY <1>1, <1>5 DEF OwnAnswer, IInv, Typed
<1>7. op'.action \in {op.action, None}
  BY <1>4, OpKeepsAction
<1>8. Progresses(a)
  BY <1>1, <1>2, <1>4, <1>6, <1>7, OwnFades DEF Carrying, Asking, GateAwaits
<1> QED
  BY <1>1, <1>2, <1>4, <1>5, <1>6, <1>8, OwnStep

(* The run is over: its settlement is stored, or it is not known to be.    *)
LEMMA SettlingProgresses ==
  ASSUME IInv, op.pc = "settling", NEW more, OwnAnswer(more),
         op'.pc \notin Carrying, runs' = runs, asked' = asked,
         offered' = offered, NEW a, a = op.action
  PROVE  Progresses(a)
<1>1. /\ a \in Actions /\ StartIsDurable /\ runs[a] > 0
  BY OwnFacts DEF IInv, OpInv
<1>2. a \notin ledger.settled
  BY <1>1 DEF StartIsDurable, PendingIsMine, IInv, LedgerInv, IsPending
<1>3. EffectOf(a) = "running"
  BY <1>2 DEF EffectOf
<1>4. EffectOf(a)' \in {"settled", "uncertain"}
  BY <1>1 DEF EffectOf, Carrying
<1> QED
  BY <1>3, <1>4 DEF Progresses, LegalMoves

LEMMA SettlementRecordedGood ==
  ASSUME IInv, SettlementRecorded
  PROVE  Good
<1>1. /\ op.pc = "settling" /\ op.pc # "idle"
      /\ UNCHANGED <<uncertain, offered, seen, task, asked, given, runs, mode,
                     crashes>>
      /\ uncertain' \in BOOLEAN
  BY DEF SettlementRecorded, IInv, Typed
<1>2. PICK a : a = op.action
  OBVIOUS
<1>3. CASE /\ op.by = "agent" /\ op' = NoOp
           /\ Resolves("op", IF task = "cancelling" THEN <<>>
                                                    ELSE <<Note("Streaming")>>)
  <2>1. task' # "none" /\ TaskCourse
    BY <1>1, <1>3, OwnFacts DEF TaskCourse
  <2>2. op' \in Operations /\ op'.pc = "idle" /\ OpInv' /\ OpCourse
    BY <1>3, OpTypes, CalmOp DEF OpCourse
  <2>3. ASSUME NEW more \in Seq(QueuedEntries), Resolves("op", more),
               MayFollow(more)
        PROVE  Good
    <3>1. OwnAnswer(more)
      BY <2>3 DEF OwnAnswer
    <3>2. Progresses(a)
      BY <1>1, <1>2, <2>2, <3>1, SettlingProgresses DEF Carrying
    <3> QED
      BY <1>1, <1>2, <2>1, <2>2, <2>3, <3>1, <3>2, OwnStep
  <2>4. CASE task = "cancelling"
    BY <1>3, <2>3, <2>4, NothingFollows
  <2>5. CASE task # "cancelling"
    BY <1>3, <2>1, <2>3, <2>5, NoteFollows DEF RuntimeStatuses
  <2> QED
    BY <2>4, <2>5
<1>4. ASSUME NEW pc \in {"completing", "failing"}, NEW e \in Entry,
             pc = "completing" => e.type = "RECOVERY_COMPLETED",
             pc = "failing" => e.type = "ENDED",
             op.by = "view", Resolves("op", <<Awaited(e)>>), OpMoves(pc)
      PROVE  Good
  <2>1. PICK r : r = Awaited(e)
    OBVIOUS
  <2>2. /\ op' \in Operations /\ op'.pc = pc /\ op'.by = op.by
        /\ op'.action = op.action
    BY <1>1, <1>4, OwnFacts, Moved DEF Phases, ViewAwaits
  <2>3. r \in QueuedEntries /\ r.for = "op" /\ r.entry = e
    BY <2>1, AwaitedTyped
  <2>4. IsAwaited(r)'
    BY <1>4, <2>2, <2>3 DEF IsAwaited, Appending, ViewAwaits
  <2>5. <<r>> \in Seq(QueuedEntries) /\ MayFollow(<<r>>) /\ OwnAnswer(<<r>>)
    BY <1>4, <2>1, <2>3, <2>4, OwnFollows DEF OwnAnswer
  <2>6. OpInv'
    BY <1>1, <1>4, <2>2, CalmOp, OwnFacts DEF ViewAwaits
  <2>7. OpCourse /\ TaskCourse
    BY <1>1, <1>4, <2>2 DEF OpCourse, TaskCourse
  <2>8. Progresses(a)
    BY <1>1, <1>2, <2>2, <2>5, SettlingProgresses DEF Carrying
  <2> QED
    BY <1>1, <1>2, <2>2, <2>5, <2>6, <2>7, <2>8, OwnStep
<1>5. EndedBy("Failed") \in Entry /\ EndedBy("Failed").type = "ENDED"
  <2>1. FirstProjection \in Projection
    BY FirstIsSound
  <2> QED
    BY <2>1, RecoveryEntries DEF EndedBy, BlankEntry
<1> QED
  BY <1>3, <1>4, <1>5, BlankTyped DEF SettlementRecorded

LEMMA SettlementFailsGood ==
  ASSUME IInv, SettlementFails
  PROVE  Good
<1>1. /\ op.pc = "settling" /\ op.pc # "idle" /\ Rejects("op")
      /\ OpMoves("interrupting")
      /\ UNCHANGED <<offered, seen, task, asked, given, runs, mode, crashes>>
      /\ uncertain' \in BOOLEAN
  BY DEF SettlementFails
<1>2. PICK a : a = op.action
  OBVIOUS
<1>3. PICK k : k = IF op.by = "view" THEN None ELSE <<"interrupted", op.receipt>>
  OBVIOUS
<1>4. PICK r : r = Queued(InterruptEntry, k, "op")
  OBVIOUS
<1>5. /\ op' \in Operations /\ op'.pc = "interrupting" /\ op'.by = op.by
      /\ op'.action = a /\ op'.receipt = op.receipt
      /\ op'.approval = op.approval
  BY <1>1, <1>2, OwnFacts, Moved DEF Phases, DispatchAwaits
<1>6. /\ a \in asked /\ op.approval \in Approvals /\ op.receipt \in Receipts
      /\ runs[a] > 0 /\ op.by \in {"agent", "view"}
  BY <1>1, <1>2 DEF IInv, OpInv, DispatchAwaits
<1>7. /\ k \in Keys \cup {None}
      /\ \A b \in Actions : k # <<"started", b>>
  <2>1. <<"interrupted", op.receipt>> \in Keys
        /\ \A b \in Actions : <<"started", b>> \in Keys
    BY <1>6 DEF Keys
  <2> QED
    BY <1>3, <2>1, NoneIsNoKey
<1>8. /\ r \in QueuedEntries /\ r.for = "op"
      /\ r.entry.type = "SESSION_INTERRUPTED"
  BY <1>4, <1>7, BlankTyped, OwnTyped
<1>9. IsAwaited(r)'
  BY <1>5, <1>8 DEF IsAwaited, Appending, ViewAwaits
<1>10. <<r>> \in Seq(QueuedEntries) /\ MayFollow(<<r>>)
  BY <1>8, <1>9, OwnFollows
<1>11. queue' = Tail(queue) \o <<r>>
  <2>1. queue' = Append(Tail(queue), r)
    BY <1>3, <1>4 DEF SettlementFails
  <2>2. queue # <<>> /\ Quiet(Tail(queue))
    BY <1>1, OwnAnswered, QuietTail
  <2>3. Tail(queue) \in Seq(QueuedEntries)
    BY <2>2 DEF Quiet
  <2> QED
    BY <1>8, <2>1, <2>3, ShortQueues
<1>12. OwnAnswer(<<r>>)
  BY <1>1, <1>11 DEF OwnAnswer
<1>13. OpInv'
  BY <1>1, <1>5, <1>6 DEF OpInv, GateAwaits, DispatchAwaits
<1>14. Progresses(a)
  BY <1>1, <1>2, <1>5, <1>12, SettlingProgresses DEF Carrying
<1>15. OpCourse /\ TaskCourse
  BY <1>1, <1>2, <1>5 DEF OpCourse, TaskCourse, ViewAwaits
<1> QED
  BY <1>1, <1>2, <1>5, <1>10, <1>12, <1>13, <1>14, <1>15, OwnStep

LEMMA InterruptionAnsweredGood ==
  ASSUME IInv, InterruptionAnswered
  PROVE  Good
<1> DEFINE failed == op.by = "agent" /\ task = "working"
<1>1. /\ op.pc = "interrupting" /\ op.pc # "idle"
      /\ UNCHANGED <<uncertain, offered, seen, asked, given, runs, mode, crashes>>
      /\ uncertain' \in BOOLEAN
      /\ task' = IF failed THEN "ended" ELSE task
      /\ op' = IF op.by = "view" THEN Waiting("view", "ready", op.action)
                                 ELSE NoOp
  BY DEF InterruptionAnswered, IInv, Typed
<1>2. PICK a : a = op.action
  OBVIOUS
<1>3. PICK more : more = IF failed THEN EndNotes("Failed") ELSE <<>>
  OBVIOUS
<1>4. OwnAnswer(more)
  BY <1>3 DEF InterruptionAnswered, OwnAnswer
<1>5. more \in Seq(QueuedEntries) /\ MayFollow(more)
  <2>1. CASE failed
    BY <1>1, <1>3, <2>1, EndNotesFollow
  <2>2. CASE ~failed
    BY <1>3, <2>2, NothingFollows
  <2> QED
    BY <2>1, <2>2
<1>6. /\ a \in Actions /\ op.action \in asked
      /\ op.by \in {"agent", "view"}
  BY <1>1, <1>2, OwnFacts
<1>7. /\ op' \in Operations /\ op'.pc \in {"idle", "ready"}
      /\ OpCourse /\ TaskCourse /\ OpInv'
  <2>1. CASE op.by = "view"
    <3>1. ~failed
      BY <1>1, <2>1, OwnFacts
    <3>2. /\ op' \in Operations /\ op'.pc = "ready" /\ op'.by = "view"
          /\ op'.action = op.action
      BY <1>1, <1>2, <1>6, <2>1, OpTypes
    <3> QED
      BY <1>1, <1>6, <2>1, <3>1, <3>2, CalmOp DEF OpCourse, TaskCourse
  <2>2. CASE op.by # "view"
    BY <1>1, <2>2, OpTypes, CalmOp DEF OpCourse, TaskCourse
  <2> QED
    BY <2>1, <2>2
<1>8. op'.action \in {op.action, None}
  BY <1>7, OpKeepsAction
<1>9. Progresses(a)
  BY <1>1, <1>2, <1>4, <1>7, <1>8, OwnFades DEF Carrying, Asking, GateAwaits
<1> QED
  BY <1>1, <1>2, <1>4, <1>5, <1>7, <1>9, OwnStep

LEMMA ViewAppendsGood ==
  ASSUME IInv, ViewAppends
  PROVE  Good
<1>1. /\ op.pc \in ViewAwaits /\ op.pc # "idle" /\ op.by = "view"
      /\ UNCHANGED <<uncertain, offered, seen, task, asked, given, runs, mode,
                     crashes>>
      /\ uncertain' \in BOOLEAN
  BY DEF ViewAppends, ViewAwaits, IInv, Typed, EraInv
<1>2. PICK a : a = op.action
  OBVIOUS
<1>3. ASSUME NEW more \in Seq(QueuedEntries), OwnAnswer(more), MayFollow(more),
             op' \in Operations, op'.pc \in {"idle", "ready"} \cup ViewAwaits,
             OpCourse, OpInv'
      PROVE  Good
  <2>1. op'.action \in {op.action, None} /\ TaskCourse
    BY <1>1, <1>3, OpKeepsAction DEF TaskCourse
  <2>2. Progresses(a)
    BY <1>1, <1>2, <1>3, <2>1, OwnFades
    DEF Carrying, Asking, GateAwaits, ViewAwaits
  <2> QED
    BY <1>1, <1>2, <1>3, <2>1, <2>2, OwnStep
<1>4. CASE /\ op.pc = "completing" /\ OpMoves("ending")
           /\ Resolves("op", <<Awaited(EndedBy("Done"))>>)
  <2>1. PICK r : r = Awaited(EndedBy("Done"))
    OBVIOUS
  <2>2. r \in QueuedEntries /\ r.for = "op" /\ r.entry.type = "ENDED"
    BY <2>1, EndsTyped DEF Awaited
  <2>3. /\ op' \in Operations /\ op'.pc = "ending" /\ op'.by = op.by
        /\ op'.action = op.action
    BY <1>1, <1>4, OwnFacts, Moved DEF Phases, ViewAwaits
  <2>4. IsAwaited(r)'
    BY <2>2, <2>3 DEF IsAwaited, Appending, ViewAwaits
  <2>5. <<r>> \in Seq(QueuedEntries) /\ MayFollow(<<r>>) /\ OwnAnswer(<<r>>)
    BY <1>4, <2>1, <2>2, <2>4, OwnFollows DEF OwnAnswer
  <2>6. OpInv' /\ OpCourse
    BY <1>1, <2>3, CalmOp, OwnFacts DEF ViewAwaits, OpCourse
  <2> QED
    BY <1>3, <2>3, <2>5, <2>6 DEF ViewAwaits
<1>5. CASE op.pc = "ending" /\ Resolves("op", <<>>) /\ op' = NoOp
  <2>1. op' \in Operations /\ op'.pc = "idle" /\ OpInv' /\ OpCourse
    BY <1>5, OpTypes, CalmOp DEF OpCourse
  <2> QED
    BY <1>3, <1>5, <2>1, NothingFollows DEF OwnAnswer
<1>6. CASE Rejects("op") /\ ViewFails(Tail(queue))
  <2>1. Tail(queue) \in Seq(QueuedEntries)
    BY <1>1, <1>6, OwnAnswered, QuietTail DEF Quiet
  <2>2. /\ op' \in Operations /\ op'.pc \in {"ready", "failing"}
        /\ OpCourse /\ OpInv'
    BY <1>1, <1>6, <2>1, ViewFailsCourse
  <2>3. PICK more \in Seq(QueuedEntries) :
          queue' = Tail(queue) \o more /\ MayFollow(more)
    BY <1>1, <1>6, <2>1, ViewFailsCourse
  <2> QED
    BY <1>3, <1>6, <2>2, <2>3 DEF OwnAnswer, ViewAwaits
<1>7. CASE /\ op.pc = "failing" /\ op' = Waiting("view", "ready", op.action)
           /\ Resolves("op", <<>>) \/ (Rejects("op") /\ queue' = Tail(queue))
  <2>1. /\ op' \in Operations /\ op'.pc = "ready" /\ op'.by = "view"
        /\ op'.action = op.action /\ op.action \in asked
    BY <1>1, <1>7, OwnFacts, OpTypes
  <2>2. Rejects("op") => Tail(queue) \in Seq(QueuedEntries)
    BY <1>1, OwnAnswered, QuietTail DEF Quiet
  <2>3. Rejects("op") => Tail(queue) \o <<>> = Tail(queue)
    BY <2>2
  <2>4. OwnAnswer(<<>>)
    BY <1>7, <2>3 DEF OwnAnswer
  <2>5. OpInv' /\ OpCourse
    BY <1>1, <2>1, CalmOp DEF OpCourse
  <2> QED
    BY <1>3, <2>1, <2>4, <2>5, NothingFollows
<1> QED
  BY <1>4, <1>5, <1>6, <1>7 DEF ViewAppends

-----------------------------------------------------------------------------
(* Steps of the operation that append nothing yet.                         *)

LEMMA OpStep ==
  ASSUME IInv, op.pc # "idle", NEW base, Quiet(base),
         NEW more \in Seq(QueuedEntries), queue' = base \o more,
         MayFollow(more), op' \in Operations, OpCourse, OpInv', LedgerInv',
         UNCHANGED <<ledger, known, uncertain, offered, task, asked, mode,
                     crashes, faults>>,
         seen' \subseteq Answers, given' \subseteq Approvals,
         runs' \in [Actions -> 0..MaxRuns],
         \A b \in Actions : runs'[b] = 0 => runs[b] = 0,
         \A b \in Actions : b # op.action => runs'[b] = runs[b],
         NEW a, a = op.action, Progresses(a)
  PROVE  Good
<1>1. op'.action \in {op.action, None}
  BY OpKeepsAction
<1>2. TaskMoves /\ TaskCourse
  BY DEF TaskCourse, TaskMoves
<1>3. queue' \in Seq(QueuedEntries) /\ QueueInv'
  BY <1>1, <1>2, QuietMoves DEF MayFollow
<1>4. EraInv'
  BY <1>2, EraMoves
<1>5. Typed'
  BY <1>3 DEF Typed, IInv
<1>6. ASSUME NEW b \in Actions \ {a} PROVE Rests(b)
  BY <1>1, <1>6, OthersRest, NoneIsAbsent
<1>7. MovesOne
  BY <1>6, OwnFacts DEF MovesOne
<1> QED
  BY <1>3, <1>4, <1>5, <1>7 DEF Good, IInv

LEMMA OpFades ==
  ASSUME IInv, op.pc # "idle", op.pc \notin Carrying, op'.pc \notin Carrying,
         op'.pc \in Asking => op.pc \in Asking,
         op'.action \in {op.action, None},
         UNCHANGED <<ledger, offered, asked, runs>>,
         NEW a, a = op.action
  PROVE  Progresses(a) /\ (op'.pc \in Asking /\ op'.action = a => Rests(a))
<1>1. a \in Actions
  BY OwnFacts
<1>2. MayStillRun(a)' => MayStillRun(a)
  BY <1>1, NoneIsAbsent DEF MayStillRun, Asking
<1>3. op'.pc \in Asking /\ op'.action = a => MayStillRun(a)'
  BY DEF MayStillRun, Asking
<1> QED
  BY <1>1, <1>2, <1>3, Fades

LEMMA LedgerRests ==
  ASSUME IInv, UNCHANGED <<ledger, known, runs, asked, offered>>
  PROVE  LedgerInv'
  BY NoGrowth DEF IInv, LedgerInv, Unproposed

(* The entry behind which it waits is queued, or none is. *)
LEMMA QuietGate ==
  ASSUME IInv, op.pc # "idle", op.pc \notin Appending
  PROVE  Quiet(queue) /\ queue \in Seq(QueuedEntries) /\ queue = queue \o <<>>
<1>1. Quiet(queue)
  BY QuietQueue
<1> QED
  BY <1>1 DEF Quiet

LEMMA BlocksAtOnceGood ==
  ASSUME IInv, op.pc \in {"proposing", "asserting", "deciding", "allowed"},
         BlocksAtOnce, seen' \subseteq Answers,
         UNCHANGED <<uncertain, offered, task, asked, given, runs, mode,
                     crashes>>
  PROVE  Good
<1>1. /\ op.pc # "idle" /\ op.pc \notin Appending /\ op.pc \notin Carrying
      /\ op.pc \in Asking
  BY DEF Appending, ViewAwaits, Carrying, Asking, GateAwaits
<1>2. Quiet(queue) /\ queue \in Seq(QueuedEntries)
  BY <1>1, QuietGate
<1>3. UNCHANGED <<ledger, known, faults>> /\ Blocks(queue)
  BY DEF BlocksAtOnce
<1>4. /\ op' \in Operations /\ op'.pc \in {"idle", "ready", "failing"}
      /\ OpCourse /\ TaskCourse /\ OpInv'
  BY <1>1, <1>2, <1>3, BlocksCourse
<1>5. PICK more \in Seq(QueuedEntries) : queue' = queue \o more /\ MayFollow(more)
  BY <1>1, <1>2, <1>3, BlocksCourse
<1>6. PICK a : a = op.action
  OBVIOUS
<1>7. op'.action \in {op.action, None}
  BY <1>4, OpKeepsAction
<1>8. Progresses(a)
  BY <1>1, <1>3, <1>4, <1>6, <1>7, OpFades DEF Carrying
<1>9. LedgerInv'
  BY <1>3, LedgerRests
<1>10. /\ given' \subseteq Approvals /\ runs' \in [Actions -> 0..MaxRuns]
  BY DEF IInv, Typed
<1> QED
  BY <1>1, <1>2, <1>3, <1>4, <1>5, <1>6, <1>8, <1>9, <1>10, OpStep

LEMMA ProposalRefusedGood ==
  ASSUME IInv, ProposalRefused
  PROVE  Good
  BY BlocksAtOnceGood DEF ProposalRefused, IInv, Typed

LEMMA ApprovalRefusedGood ==
  ASSUME IInv, ApprovalRefused
  PROVE  Good
  BY BlocksAtOnceGood DEF ApprovalRefused, IInv, Typed

LEMMA StartRefusedGood ==
  ASSUME IInv, StartRefused
  PROVE  Good
  BY BlocksAtOnceGood DEF StartRefused, IInv, Typed

LEMMA ApproveCommandGood ==
  ASSUME IInv, NEW ap \in Approvals, ApproveCommand(ap)
  PROVE  Good
<1>1. /\ mode = "live" /\ op.pc \in {"waiting", "ready"}
      /\ op.pc = "ready" => StillShown
      /\ given' = given \cup {ap}
      /\ op' = [op EXCEPT !.pc = "proposing", !.approval = ap]
      /\ UNCHANGED <<ledger, known, queue, uncertain, offered, seen, task,
                     asked, runs, mode, crashes, faults>>
  BY DEF ApproveCommand
<1>2. PICK a : a = op.action
  OBVIOUS
<1>3. /\ op.pc # "idle" /\ op.pc \notin Appending /\ op.pc \notin Carrying
      /\ op \in Operations /\ a \in Actions /\ a \in asked
      /\ op.by \in {"agent", "view"}
  BY <1>1, <1>2, OwnFacts
  DEF Appending, ViewAwaits, Carrying
<1>4. /\ op' \in Operations /\ op'.pc = "proposing" /\ op'.by = op.by
      /\ op'.action = a /\ op'.approval = ap
  BY <1>1, <1>2, <1>3 DEF Operations, GateAwaits
<1>5. OpInv'
  BY <1>1, <1>3, <1>4 DEF OpInv, GateAwaits, DispatchAwaits
<1>6. OpCourse
  BY <1>2, <1>4 DEF OpCourse, ViewAwaits
<1>7. Progresses(a)
  <2>1. CASE op.pc = "waiting"
    BY <1>1, <1>2, <1>3, <1>4, <2>1, OpFades DEF Carrying, Asking
  <2>2. CASE op.pc = "ready" /\ runs[a] > 0
    BY <1>1, <1>2, <1>4, <2>2
    DEF EffectOf, Progresses
  <2>3. CASE op.pc = "ready" /\ runs[a] = 0
    <3>1. /\ ledger.proj.pending # None /\ ledger.proj.requirement # None
          /\ task = "none" /\ ProjectionSound(ledger.proj)
      BY <1>1, <2>3, OwnFacts DEF StillShown, IInv, LedgerInv, EraInv
    <3>2. ~ledger.proj.pending.started /\ ledger.proj.pending.action = a
      BY <1>2, <1>3, <2>3, <3>1 DEF IInv, EraInv, ProjectionSound
    <3>3. MayStillRun(a) /\ MayStillRun(a)'
      BY <1>1, <3>1, <3>2 DEF MayStillRun
    <3> QED
      BY <1>1, <1>3, <1>4, <3>3, Fades DEF Carrying
  <2> QED
    BY <1>1, <1>3, <2>1, <2>2, <2>3 DEF IInv, Typed, MaxRuns
<1>8. LedgerInv'
  BY <1>1, LedgerRests
<1>9. /\ seen' \subseteq Answers /\ given' \subseteq Approvals
      /\ runs' \in [Actions -> 0..MaxRuns]
  BY <1>1 DEF IInv, Typed
<1>10. queue' = queue \o <<>> /\ Quiet(queue)
  BY <1>1, <1>3, QuietGate
<1> QED
  BY <1>1, <1>2, <1>3, <1>4, <1>5, <1>6, <1>7, <1>8, <1>9, <1>10,
     NothingFollows, OpStep

(* The operation queues its next entry. *)
LEMMA OpQueues ==
  ASSUME IInv, op.pc # "idle", op.pc \notin Appending,
         NEW r \in QueuedEntries, r.for = "op", IsAwaited(r)',
         queue' = Append(queue, r), op' \in Operations, OpCourse, OpInv',
         op.pc \notin Carrying, op'.pc \notin Carrying, op'.pc \in Asking,
         op.pc \in Asking, seen' \subseteq Answers,
         UNCHANGED <<ledger, known, uncertain, offered, task, asked, given,
                     runs, mode, crashes, faults>>
  PROVE  Good
<1>1. PICK a : a = op.action
  OBVIOUS
<1>2. Quiet(queue) /\ queue \in Seq(QueuedEntries)
  BY QuietGate
<1>3. queue' = queue \o <<r>>
  BY <1>2, ShortQueues
<1>4. <<r>> \in Seq(QueuedEntries) /\ MayFollow(<<r>>)
  BY OwnFollows
<1>5. op'.action \in {op.action, None}
  BY OpKeepsAction
<1>6. Progresses(a)
  BY <1>1, <1>5, OpFades
<1>7. LedgerInv'
  BY LedgerRests
<1>8. given' \subseteq Approvals /\ runs' \in [Actions -> 0..MaxRuns]
  BY DEF IInv, Typed
<1> QED
  BY <1>1, <1>2, <1>3, <1>4, <1>6, <1>7, <1>8, OpStep

LEMMA RecordApprovalGood ==
  ASSUME IInv, RecordApproval
  PROVE  Good
<1>1. PICK g, a, ap : /\ g = ledger.proj.pending.generation /\ a = op.action
                      /\ ap = op.approval
  OBVIOUS
<1>2. PICK e : e = [About("APPROVED", a) EXCEPT !.approval = ap,
                                                !.generation = g]
  OBVIOUS
<1>3. PICK r : r = Queued(e, <<"approved", a>>, "op")
  OBVIOUS
<1>4. /\ op.pc = "proposing" /\ ProposalIsCurrent
      /\ op' = [op EXCEPT !.pc = "approving", !.generation = g]
      /\ queue' = Append(queue, r)
      /\ UNCHANGED <<ledger, known, uncertain, offered, seen, task, asked,
                     given, runs, mode, crashes, faults>>
  BY <1>1, <1>2, <1>3 DEF RecordApproval
<1>5. /\ op.pc # "idle" /\ op.pc \notin Appending /\ op.pc \notin Carrying
      /\ op \in Operations /\ a \in Actions /\ a \in asked /\ op.pc \in Asking
      /\ op.by \in {"agent", "view"} /\ ap \in given /\ ap \in Approvals
      /\ seen \subseteq Answers
  BY <1>1, <1>4, OwnFacts
  DEF Appending, ViewAwaits, Carrying, Asking, GateAwaits, IInv, OpInv, Typed
<1>6. g \in Nat
  BY <1>1, <1>4
  DEF ProposalIsCurrent, PendingIsMine, IInv, Typed, Ledgers, Projection,
      Pending
<1>7. /\ op' \in Operations /\ op'.pc = "approving" /\ op'.by = op.by
      /\ op'.action = a /\ op'.approval = ap
  BY <1>1, <1>4, <1>5, <1>6 DEF Operations, GateAwaits
<1>8. e \in Entry /\ e.type = "APPROVED" /\ e.action = a
  BY <1>2, <1>5, <1>6, NoneIsAbsent
  DEF About, BlankEntry, Entry, EntryRecord, EntryTypes, Kinds
<1>9. /\ r \in QueuedEntries /\ r.for = "op" /\ r.entry = e
  <2>1. <<"approved", a>> \in Keys
    BY <1>5 DEF Keys
  <2> QED
    BY <1>3, <1>8, <2>1, OwnTyped
<1>10. IsAwaited(r)'
  BY <1>7, <1>8, <1>9 DEF IsAwaited, Appending, ViewAwaits
<1>11. OpInv'
  BY <1>4, <1>5, <1>7 DEF OpInv, GateAwaits, DispatchAwaits
<1>12. OpCourse
  BY <1>1, <1>7 DEF OpCourse, ViewAwaits
<1> QED
  BY <1>4, <1>5, <1>7, <1>9, <1>10, <1>11, <1>12, OpQueues
  DEF Carrying, Asking, GateAwaits

LEMMA AskPolicyGood ==
  ASSUME IInv, AskPolicy
  PROVE  Good
<1>1. /\ op.pc = "asserting" /\ ApprovalIsDurable /\ OpMoves("deciding")
      /\ UNCHANGED <<ledger, known, queue, uncertain, offered, seen, task,
                     asked, given, runs, mode, crashes, faults>>
  BY DEF AskPolicy
<1>2. PICK a : a = op.action
  OBVIOUS
<1>3. /\ op.pc # "idle" /\ op.pc \notin Appending /\ op.pc \notin Carrying
      /\ op \in Operations /\ a \in Actions /\ a \in asked /\ op.pc \in Asking
      /\ op.by \in {"agent", "view"} /\ op.approval \in given
      /\ seen \subseteq Answers /\ given \subseteq Approvals
      /\ runs \in [Actions -> 0..MaxRuns]
  BY <1>1, <1>2, OwnFacts
  DEF Appending, ViewAwaits, Carrying, Asking, GateAwaits, IInv, OpInv, Typed
<1>4. /\ op' \in Operations /\ op'.pc = "deciding" /\ op'.by = op.by
      /\ op'.action = op.action /\ op'.approval = op.approval
      /\ op'.generation = op.generation
  BY <1>1, <1>3, Moved DEF Phases, Asking, GateAwaits
<1>5. ApprovalIsDurable'
  BY <1>1, <1>4 DEF ApprovalIsDurable, PendingIsMine
<1>6. OpInv'
  BY <1>1, <1>2, <1>3, <1>4, <1>5 DEF OpInv, GateAwaits, DispatchAwaits
<1>7. OpCourse
  BY <1>2, <1>4 DEF OpCourse, ViewAwaits
<1>8. Progresses(a)
  BY <1>1, <1>2, <1>3, <1>4, OpFades DEF Carrying
<1>9. queue' = queue \o <<>> /\ Quiet(queue)
  BY <1>1, <1>3, QuietGate
<1>10. LedgerInv'
  BY <1>1, LedgerRests
<1> QED
  BY <1>1, <1>2, <1>3, <1>4, <1>6, <1>7, <1>8, <1>9, <1>10, NothingFollows,
     OpStep

LEMMA PolicyAnswersGood ==
  ASSUME IInv, NEW v \in {"allow", "deny", "error"}, NEW d \in Decisions,
         PolicyAnswers(v, d)
  PROVE  Good
<1>1. /\ op.pc = "deciding" /\ seen' \in {seen, seen \cup {d}}
      /\ seen' # seen => d \in Answers
      /\ UNCHANGED <<uncertain, offered, task, asked, given, runs, mode,
                     crashes>>
      /\ RecordDecision(v, d) \/ BlocksAtOnce
  BY DEF PolicyAnswers
<1>2. seen' \subseteq Answers
  BY <1>1 DEF IInv, Typed
<1>3. CASE BlocksAtOnce
  BY <1>1, <1>2, <1>3, BlocksAtOnceGood
<1>4. CASE RecordDecision(v, d)
  <2>1. PICK a, ap, g : a = op.action /\ ap = op.approval /\ g = op.generation
    OBVIOUS
  <2>2. PICK e : e = [About("DECIDED", a) EXCEPT !.approval = ap,
                        !.generation = g, !.verdict = v, !.decision = d]
    OBVIOUS
  <2>3. PICK r : r = Awaited(e)
    OBVIOUS
  <2>4. /\ op' = [op EXCEPT !.pc = "recordingDecision", !.verdict = v,
                            !.decision = d]
        /\ queue' = Append(queue, r) /\ UNCHANGED <<ledger, known, faults>>
    BY <1>4, <2>1, <2>2, <2>3 DEF RecordDecision, Authorised
  <2>5. /\ op.pc # "idle" /\ op.pc \notin Appending /\ op.pc \notin Carrying
        /\ op \in Operations /\ a \in Actions /\ a \in asked
        /\ op.pc \in Asking /\ op.by \in {"agent", "view"} /\ ap \in given
        /\ ap \in Approvals /\ g \in Nat
    BY <1>1, <2>1, OwnFacts
    DEF Appending, ViewAwaits, Carrying, Asking, GateAwaits, IInv, OpInv,
        Typed, Operations
  <2>6. /\ op' \in Operations /\ op'.pc = "recordingDecision"
        /\ op'.by = op.by /\ op'.action = a /\ op'.approval = ap
    BY <2>1, <2>4, <2>5 DEF Operations, GateAwaits, Verdicts
  <2>7. e \in Entry /\ e.type = "DECIDED" /\ e.action = a
    BY <2>2, <2>5, NoneIsAbsent
    DEF About, BlankEntry, Entry, EntryRecord, EntryTypes, Kinds, Verdicts
  <2>8. r \in QueuedEntries /\ r.for = "op" /\ r.entry = e
    BY <2>3, <2>7, AwaitedTyped
  <2>9. IsAwaited(r)'
    BY <2>6, <2>7, <2>8 DEF IsAwaited, Appending, ViewAwaits
  <2>10. OpInv'
    BY <1>1, <2>5, <2>6 DEF OpInv, GateAwaits, DispatchAwaits
  <2>11. OpCourse
    BY <2>1, <2>6 DEF OpCourse, ViewAwaits
  <2> QED
    BY <1>1, <1>2, <2>4, <2>5, <2>6, <2>8, <2>9, <2>10, <2>11, OpQueues
    DEF Carrying, Asking, GateAwaits
<1> QED
  BY <1>1, <1>3, <1>4

LEMMA RecordStartGood ==
  ASSUME IInv, NEW rc \in Receipts, RecordStart(rc)
  PROVE  Good
<1>1. PICK a, ap, g, d : /\ a = op.action /\ ap = op.approval
                         /\ g = op.generation /\ d = op.decision
  OBVIOUS
<1>2. PICK e : e = [About("STARTED", a) EXCEPT !.approval = ap,
                      !.generation = g, !.decision = d, !.receipt = rc]
  OBVIOUS
<1>3. PICK r : r = Queued(e, <<"started", a>>, "op")
  OBVIOUS
<1>4. /\ op.pc = "allowed" /\ AllowIsDurable
      /\ op' = [op EXCEPT !.pc = "starting", !.receipt = rc]
      /\ queue' = Append(queue, r)
      /\ UNCHANGED <<ledger, known, uncertain, offered, seen, task, asked,
                     given, runs, mode, crashes, faults>>
  BY <1>1, <1>2, <1>3 DEF RecordStart, Authorised
<1>5. /\ op.pc # "idle" /\ op.pc \notin Appending /\ op.pc \notin Carrying
      /\ op \in Operations /\ a \in Actions /\ a \in asked /\ op.pc \in Asking
      /\ op.by \in {"agent", "view"} /\ ap \in given /\ ap \in Approvals
      /\ g \in Nat /\ d \in Decisions \cup {None} /\ seen \subseteq Answers
  BY <1>1, <1>4, OwnFacts
  DEF Appending, ViewAwaits, Carrying, Asking, GateAwaits, IInv, OpInv,
      Typed, Operations
<1>6. /\ op' \in Operations /\ op'.pc = "starting" /\ op'.by = op.by
      /\ op'.action = a /\ op'.approval = ap /\ op'.generation = g
      /\ op'.decision = d /\ op'.receipt = rc
  BY <1>1, <1>4, <1>5 DEF Operations, GateAwaits
<1>7. /\ e \in Entry /\ e.type = "STARTED" /\ e.action = a
      /\ e.receipt = rc
  BY <1>2, <1>5, NoneIsAbsent
  DEF About, BlankEntry, Entry, EntryRecord, EntryTypes, Kinds
<1>8. /\ r \in QueuedEntries /\ r.for = "op" /\ r.entry = e
      /\ r.key = <<"started", a>>
  <2>1. <<"started", a>> \in Keys
    BY <1>5 DEF Keys
  <2>2. \A b \in Actions : <<"started", a>> = <<"started", b>> => a = b
    OBVIOUS
  <2> QED
    BY <1>3, <1>7, <2>1, <2>2, OwnTyped
<1>9. IsAwaited(r)'
  BY <1>6, <1>7, <1>8 DEF IsAwaited, Appending, ViewAwaits
<1>10. AllowIsDurable'
  BY <1>1, <1>4, <1>6 DEF AllowIsDurable, PendingIsMine
<1>11. OpInv'
  BY <1>4, <1>5, <1>6, <1>10 DEF OpInv, GateAwaits, DispatchAwaits
<1>12. OpCourse
  BY <1>1, <1>6 DEF OpCourse, ViewAwaits
<1> QED
  BY <1>4, <1>5, <1>6, <1>8, <1>9, <1>11, <1>12, OpQueues
  DEF Carrying, Asking, GateAwaits

(* A command that is carried out is not settled. *)
LEMMA CarriedFacts ==
  ASSUME IInv, op.pc \in Carrying, NEW a, a = op.action
  PROVE  /\ a \in Actions /\ a \in asked /\ op \in Operations
         /\ op.pc # "idle" /\ op.by \in {"agent", "view"}
         /\ op.approval \in given /\ op.approval \in Approvals
         /\ op.receipt \in Receipts /\ StartIsDurable
         /\ IsPending(a) /\ a \notin ledger.settled
         /\ seen \subseteq Answers /\ given \subseteq Approvals
         /\ runs \in [Actions -> 0..MaxRuns]
<1>1. op.pc # "idle" /\ OpInv
  BY DEF Carrying, IInv
<1>2. /\ op.approval \in given /\ op.approval \in Approvals
      /\ op.receipt \in Receipts /\ StartIsDurable
  BY <1>1 DEF OpInv, Carrying, DispatchAwaits
<1>3. IsPending(a)
  BY <1>2 DEF StartIsDurable, PendingIsMine, IsPending
<1> QED
  BY <1>1, <1>2, <1>3, OwnFacts DEF IInv, LedgerInv, Typed

LEMMA RunGood ==
  ASSUME IInv, Run
  PROVE  Good
<1>1. PICK a : a = op.action
  OBVIOUS
<1>2. /\ op.pc = "started" /\ OpMoves("running")
      /\ runs' = [runs EXCEPT ![a] = @ + 1]
      /\ queue' = IF task = "working" THEN Append(queue, Note("Streaming"))
                                      ELSE queue
      /\ UNCHANGED <<ledger, known, uncertain, offered, seen, task, asked,
                     given, mode, crashes, faults>>
  BY <1>1 DEF Run
<1>3. /\ op.pc \in Carrying /\ op.pc \notin Appending
  BY <1>2 DEF Carrying, Appending, ViewAwaits
<1>4. /\ a \in Actions /\ a \in asked /\ op \in Operations /\ op.pc # "idle"
      /\ op.by \in {"agent", "view"} /\ op.approval \in given
      /\ op.approval \in Approvals /\ op.receipt \in Receipts
      /\ StartIsDurable /\ IsPending(a) /\ a \notin ledger.settled
      /\ seen \subseteq Answers /\ given \subseteq Approvals
      /\ runs \in [Actions -> 0..MaxRuns]
  BY <1>1, <1>3, CarriedFacts
<1>5. runs[a] = 0 /\ runs'[a] = 1 /\ runs' \in [Actions -> 0..MaxRuns]
      /\ \A b \in Actions : b # a => runs'[b] = runs[b]
  BY <1>1, <1>2, <1>4 DEF IInv, OpInv, MaxRuns
<1>6. /\ op' \in Operations /\ op'.pc = "running" /\ op'.by = op.by
      /\ op'.action = op.action /\ op'.approval = op.approval
      /\ op'.decision = op.decision /\ op'.receipt = op.receipt
  BY <1>2, <1>4, Moved DEF Phases, DispatchAwaits
<1>7. StartIsDurable'
  BY <1>2, <1>4, <1>6 DEF StartIsDurable, PendingIsMine
<1>8. OpInv'
  BY <1>1, <1>2, <1>4, <1>5, <1>6, <1>7 DEF OpInv, GateAwaits, DispatchAwaits
<1>9. OpCourse
  BY <1>4, <1>6 DEF OpCourse, ViewAwaits
<1>10. Progresses(a)
  <2>1. EffectOf(a) = "authorised"
    BY <1>1, <1>2, <1>4 DEF EffectOf
  <2>2. EffectOf(a)' = "running"
    BY <1>1, <1>2, <1>4, <1>6 DEF EffectOf
  <2> QED
    BY <2>1, <2>2 DEF Progresses, LegalMoves
<1>11. LedgerInv'
  <2>1. /\ ledger.proj.status \notin EndStatuses
        /\ ledger.proj.pending # None /\ ledger.proj.pending.action = a
        /\ ledger.proj.pending.started
    BY <1>1, <1>4
    DEF StartIsDurable, PendingIsMine, IInv, LedgerInv, ProjectionSound
  <2>2. UnsettledStaysStarted'
    BY <1>2, <1>5, <2>1 DEF IInv, LedgerInv, UnsettledStaysStarted
  <2>3. ~Unproposed(a)
    BY <1>4 DEF IInv, LedgerInv
  <2> QED
    BY <1>2, <1>5, <2>2, <2>3
    DEF IInv, LedgerInv, Unproposed, IsPending, IsStarted
<1>12. Quiet(queue) /\ queue \in Seq(QueuedEntries) /\ queue = queue \o <<>>
  BY <1>3, <1>4, QuietGate
<1>13. PICK more \in Seq(QueuedEntries) : queue' = queue \o more /\ MayFollow(more)
  <2>1. CASE task = "working"
    <3>1. PICK n : n = Note("Streaming")
      OBVIOUS
    <3>2. n \in QueuedEntries
      BY <3>1, NotesTyped DEF RuntimeStatuses
    <3>3. queue' = queue \o <<n>>
      BY <1>2, <1>12, <2>1, <3>1, <3>2, ShortQueues
    <3> QED
      BY <1>2, <2>1, <3>1, <3>3, NoteFollows DEF RuntimeStatuses
  <2>2. CASE task # "working"
    BY <1>2, <1>12, <2>2, NothingFollows
  <2> QED
    BY <2>1, <2>2
<1>14. \A b \in Actions : runs'[b] = 0 => runs[b] = 0
  BY <1>5
<1> QED
  BY <1>1, <1>2, <1>4, <1>5, <1>6, <1>8, <1>9, <1>10, <1>11, <1>12, <1>13,
     <1>14, OpStep

LEMMA CommandEndsGood ==
  ASSUME IInv, NEW threw \in BOOLEAN, CommandEnds(threw)
  PROVE  Good
<1>1. PICK a, ap, g, rc, t, k :
        /\ a = op.action /\ ap = op.approval /\ g = op.generation
        /\ rc = op.receipt /\ t = (threw /\ op.by = "view")
        /\ k = IF op.by = "view" THEN None ELSE <<"completed", op.action>>
  OBVIOUS
<1>2. PICK type : type = IF t THEN "ACTION_FAILED" ELSE "COMPLETED"
  OBVIOUS
<1>3. PICK e : e = [About(type, a) EXCEPT !.approval = ap, !.generation = g,
                                          !.receipt = rc]
  OBVIOUS
<1>4. PICK r : r = Queued(e, k, "op")
  OBVIOUS
<1>5. /\ op.pc = "running"
      /\ op' = [op EXCEPT !.pc = "settling", !.threw = t]
      /\ UNCHANGED <<ledger, known, uncertain, offered, seen, task, asked,
                     given, runs, mode, crashes, faults>>
  BY <1>1 DEF CommandEnds
<1>6. /\ op.pc \in Carrying /\ op.pc \notin Appending
  BY <1>5 DEF Carrying, Appending, ViewAwaits
<1>7. /\ a \in Actions /\ a \in asked /\ op \in Operations /\ op.pc # "idle"
      /\ op.by \in {"agent", "view"} /\ ap \in given
      /\ ap \in Approvals /\ rc \in Receipts
      /\ StartIsDurable /\ IsPending(a) /\ a \notin ledger.settled
      /\ seen \subseteq Answers /\ given \subseteq Approvals
      /\ runs \in [Actions -> 0..MaxRuns]
  BY <1>1, <1>6, CarriedFacts
<1>8. g \in Nat /\ t \in BOOLEAN
  BY <1>1, <1>7 DEF Operations
<1>9. /\ op' \in Operations /\ op'.pc = "settling" /\ op'.by = op.by
      /\ op'.action = op.action /\ op'.approval = op.approval
      /\ op'.decision = op.decision /\ op'.receipt = op.receipt
      /\ op'.threw = t
  BY <1>5, <1>7, <1>8 DEF Operations, DispatchAwaits
<1>10. queue' = Append(queue, r)
  <2>1. queue' = Append(queue,
          Queued([Authorised(IF op'.threw THEN "ACTION_FAILED" ELSE "COMPLETED")
                    EXCEPT !.receipt = op.receipt],
                 IF op.by = "view" THEN None ELSE <<"completed", op.action>>,
                 "op"))
    BY DEF CommandEnds
  <2>2. Authorised(type) = [About(type, a) EXCEPT !.approval = ap,
                                                  !.generation = g]
    BY <1>1 DEF Authorised
  <2>3. (IF op'.threw THEN "ACTION_FAILED" ELSE "COMPLETED") = type
    BY <1>2, <1>9
  <2>4. e = [Authorised(type) EXCEPT !.receipt = rc]
    BY <1>3, <2>2 DEF About, BlankEntry
  <2> QED
    BY <1>1, <1>4, <2>1, <2>3, <2>4
<1>11. e \in Entry /\ e.type = type /\ e.action = a
  BY <1>2, <1>3, <1>7, <1>8, NoneIsAbsent
  DEF About, BlankEntry, Entry, EntryRecord, EntryTypes, Kinds
<1>12. k \in Keys \cup {None} /\ \A b \in Actions : k # <<"started", b>>
  <2>1. <<"completed", a>> \in Keys
        /\ \A b \in Actions : <<"started", b>> \in Keys
    BY <1>7 DEF Keys
  <2>2. \A b \in Actions : <<"completed", a>> # <<"started", b>>
    OBVIOUS
  <2> QED
    BY <1>1, <2>1, <2>2, NoneIsNoKey
<1>13. r \in QueuedEntries /\ r.for = "op" /\ r.entry = e
  BY <1>4, <1>11, <1>12, OwnTyped
<1>14. IsAwaited(r)'
  BY <1>1, <1>2, <1>9, <1>11, <1>13 DEF IsAwaited, Appending, ViewAwaits
<1>15. <<r>> \in Seq(QueuedEntries) /\ MayFollow(<<r>>)
  BY <1>13, <1>14, OwnFollows
<1>16. Quiet(queue) /\ queue \in Seq(QueuedEntries)
  BY <1>6, <1>7, QuietGate
<1>17. queue' = queue \o <<r>>
  BY <1>10, <1>13, <1>16, ShortQueues
<1>18. StartIsDurable'
  BY <1>5, <1>7, <1>9 DEF StartIsDurable, PendingIsMine
<1>19. OpInv'
  BY <1>1, <1>5, <1>7, <1>9, <1>18 DEF IInv, OpInv, GateAwaits, DispatchAwaits
<1>20. OpCourse
  BY <1>7, <1>9 DEF OpCourse, ViewAwaits
<1>21. Progresses(a)
  BY <1>1, <1>5, <1>7, <1>9 DEF EffectOf, Progresses
<1>22. LedgerInv'
  BY <1>5, LedgerRests
<1> QED
  BY <1>1, <1>5, <1>7, <1>9, <1>15, <1>16, <1>17, <1>19, <1>20, <1>21, <1>22,
     OpStep

LEMMA ExpireGood ==
  ASSUME IInv, Expire
  PROVE  Good
<1>1. /\ op.pc \in GateAwaits \ {"proposing"}
      /\ op' = [op EXCEPT !.expired = TRUE]
      /\ UNCHANGED <<ledger, known, queue, uncertain, offered, seen, task,
                     asked, given, runs, mode, crashes, faults>>
  BY DEF Expire
<1>2. op.pc # "idle" /\ op.pc \notin Carrying /\ op.pc \in Asking
  BY <1>1 DEF Carrying, Asking, GateAwaits
<1>3. op \in Operations /\ op.action \in Actions
  BY <1>2, OwnFacts
<1>4. /\ op' \in Operations /\ op'.pc = op.pc /\ op'.by = op.by
      /\ op'.action = op.action /\ op'.approval = op.approval
      /\ op'.generation = op.generation /\ op'.decision = op.decision
      /\ op'.receipt = op.receipt
  BY <1>1, <1>3 DEF Operations
<1>5. QueueInv'
  <2>1. TaskMoves
    BY <1>1 DEF TaskMoves
  <2>2. \A q \in Members(queue) : Belongs(q)'
    BY <1>1, <1>4, <2>1, StaysPut, OwnStaysPut
  <2> QED
    BY <1>1, <2>2 DEF IInv, QueueInv, Unrivalled, Members
<1>6. OpInv'
  BY <1>1, <1>2, <1>4, AuthorityKept
<1>7. EraInv'
  <2>1. OpCourse /\ TaskCourse
    BY <1>1, <1>2, <1>4 DEF OpCourse, TaskCourse, ViewAwaits, GateAwaits
  <2> QED
    BY <1>1, <1>2, <2>1, EraMoves
<1>8. Typed' /\ LedgerInv'
  BY <1>1, <1>4, LedgerRests DEF Typed, IInv
<1>9. ASSUME NEW b \in Actions PROVE Rests(b)
  <2>1. CASE b = op.action
    BY <1>1, <1>2, <1>4, <2>1, OpFades
  <2>2. CASE b # op.action
    BY <1>1, <1>4, <2>2, OthersRest
  <2> QED
    BY <2>1, <2>2
<1> QED
  BY <1>5, <1>6, <1>7, <1>8, <1>9 DEF Good, IInv, MovesOne

-----------------------------------------------------------------------------
(* Steps of the task.                                                      *)

(* Entries queued behind what stays where it is. *)
LEMMA Follows ==
  ASSUME NEW base \in Seq(QueuedEntries), Unrivalled(base),
         NEW more \in Seq(QueuedEntries), queue' = base \o more,
         \A q \in Members(base) \cup Members(more) : Belongs(q)',
         \A r \in Members(more) : r.for = "nobody"
  PROVE  queue' \in Seq(QueuedEntries) /\ QueueInv'
  BY QueueMoves

(* One step in the side effects, of whichever action it is. *)
LEMMA OneMoves ==
  ASSUME \A b \in Actions : Progresses(b),
         NEW z, \A b \in Actions : b # z => Rests(b)
  PROVE  MovesOne
<1>1. CASE z \in Actions
  BY <1>1 DEF MovesOne
<1>2. CASE z \notin Actions
  BY <1>2 DEF MovesOne
<1> QED
  BY <1>1, <1>2

LEMMA Resting ==
  ASSUME NEW b, Rests(b)
  PROVE  Progresses(b)
  BY DEF Rests, Progresses

(* The operation stays where it is. *)
LEMMA SameRests ==
  ASSUME NEW b \in Actions, op'.action = op.action, op'.pc = op.pc,
         b \in ledger'.settled <=> b \in ledger.settled,
         runs'[b] = runs[b], b \in asked' <=> b \in asked,
         offered'[b] \in {"hashing", "queued"}
           <=> offered[b] \in {"hashing", "queued"},
         InPlay(ledger'.proj, b) <=> InPlay(ledger.proj, b)
  PROVE  Rests(b)
  BY DEF EffectOf, MayStillRun, InPlay, Rests

(* Between commands, or on a command that waits for the user. *)
Free == op.pc \in {"idle", "waiting"}

LEMMA FreeFacts ==
  ASSUME IInv, Free
  PROVE  /\ Quiet(queue) /\ queue \in Seq(QueuedEntries)
         /\ op.pc \notin Appending /\ op.pc \notin Carrying
         /\ op.pc = "idle" => op = NoOp /\ op.action = None
<1>1. op.pc \notin Appending /\ op.pc \notin Carrying
  BY DEF Free, Appending, ViewAwaits, Carrying
<1>2. Quiet(queue)
  BY <1>1, QuietQueue
<1> QED
  BY <1>1, <1>2, OpTypes DEF Quiet, IInv, OpInv

(* The task goes on without the command, or ends. *)
LEMMA TaskGoesOn ==
  ASSUME IInv, Free, mode = "live", op' = NoOp,
         NEW more \in Seq(QueuedEntries), queue' = queue \o more,
         \A r \in Members(more) : r.for = "nobody" /\ IsBackground(r)',
         TaskMoves, task # "none", task' # "none",
         task' \in {"working", "cancelling", "ended"},
         UNCHANGED <<ledger, known, uncertain, offered, seen, asked, given,
                     runs, mode, crashes, faults>>
  PROVE  Good
<1>1. /\ Quiet(queue) /\ queue \in Seq(QueuedEntries) /\ op.pc \notin Carrying
      /\ op.pc = "idle" => op.action = None
  BY FreeFacts
<1>2. op' \in Operations /\ op'.pc = "idle" /\ op'.action = None
  BY OpTypes
<1>3. queue' \in Seq(QueuedEntries) /\ QueueInv'
  BY <1>1, <1>2, QuietMoves
<1>4. OpInv'
  BY CalmOp
<1>5. EraInv'
  BY <1>2, NoneIsAbsent DEF IInv, EraInv, ViewAwaits
<1>6. Typed' /\ LedgerInv'
  BY <1>2, <1>3, LedgerRests DEF Typed, IInv
<1>7. PICK a : a = op.action
  OBVIOUS
<1>8. ASSUME NEW b \in Actions, b # a PROVE Rests(b)
  BY <1>2, <1>7, <1>8, OthersRest, NoneIsAbsent
<1>9. ASSUME NEW b \in Actions PROVE Progresses(b)
  <2>1. CASE b = a
    <3>1. op.pc # "idle"
      BY <1>1, <1>7, <2>1, NoneIsAbsent
    <3> QED
      BY <1>1, <1>2, <1>7, <2>1, <3>1, OpFades DEF Carrying, Asking, GateAwaits
  <2>2. CASE b # a
    BY <1>8, <2>2, Resting
  <2> QED
    BY <2>1, <2>2
<1>10. MovesOne
  BY <1>8, <1>9, OneMoves
<1> QED
  BY <1>3, <1>4, <1>5, <1>6, <1>10 DEF Good, IInv

LEMMA EndsGood ==
  ASSUME IInv, Free, mode = "live", op' = NoOp, task \in {"working", "cancelling"},
         task' = "ended",
         NEW s \in {"Done", "Failed", "Cancelled", "LimitReached"},
         queue' = queue \o EndNotes(s),
         UNCHANGED <<ledger, known, uncertain, offered, seen, asked, given,
                     runs, mode, crashes, faults>>
  PROVE  Good
<1>1. PICK more : more = EndNotes(s)
  OBVIOUS
<1>2. /\ more \in Seq(QueuedEntries)
      /\ \A r \in Members(more) : r.for = "nobody" /\ IsBackground(r)'
  BY <1>1, EndNotesTyped DEF IsBackground
<1> QED
  BY <1>1, <1>2, TaskGoesOn DEF TaskMoves

LEMMA EndTaskGood ==
  ASSUME IInv, NEW s \in {"Done", "Failed", "LimitReached"}, EndTask(s)
  PROVE  Good
  BY EndsGood DEF EndTask, Free

LEMMA CancelReturnsGood ==
  ASSUME IInv, CancelReturns
  PROVE  Good
<1>1. op' = NoOp /\ Free
  BY FreeFacts DEF CancelReturns, Free
<1> QED
  BY <1>1, EndsGood DEF CancelReturns

LEMMA DenyCommandGood ==
  ASSUME IInv, DenyCommand
  PROVE  Good
<1>1. PICK a : a = op.action
  OBVIOUS
<1>2. PICK e : e = About("DENIED", a)
  OBVIOUS
<1>3. PICK q : q = Queued(e, <<"denied", a>>, "nobody")
  OBVIOUS
<1>4. PICK n : n = Note("Streaming")
  OBVIOUS
<1>5. /\ mode = "live" /\ task = "working" /\ op.pc = "waiting" /\ op' = NoOp
      /\ queue' = queue \o <<q, n>>
      /\ UNCHANGED <<ledger, known, uncertain, offered, seen, task, asked,
                     given, runs, mode, crashes, faults>>
  BY <1>1, <1>2, <1>3, <1>4 DEF DenyCommand
<1>6. a \in Actions /\ a \in asked
  BY <1>1, <1>5, OwnFacts
<1>7. e \in Entry /\ e.type = "DENIED" /\ e.action = a
  BY <1>2, <1>6, NoneIsAbsent
  DEF About, BlankEntry, Entry, EntryRecord, EntryTypes, Kinds
<1>8. q \in QueuedEntries /\ q.for = "nobody" /\ q.entry = e
  <2>1. <<"denied", a>> \in Keys
    BY <1>6 DEF Keys
  <2>2. \A b \in Actions : <<"denied", a>> # <<"started", b>>
    OBVIOUS
  <2> QED
    BY <1>3, <1>7, <2>1, <2>2 DEF Queued, QueuedEntries
<1>9. n \in QueuedEntries /\ n.for = "nobody" /\ n.entry.type = "NOTE"
  BY <1>4, NotesTyped DEF RuntimeStatuses
<1>10. <<q, n>> \in Seq(QueuedEntries) /\ Members(<<q, n>>) = {q, n}
  <2>1. q \in QueuedEntries /\ n \in QueuedEntries
    BY <1>8, <1>9
  <2> QED
    BY <2>1, ShortQueues
<1>11. IsBackground(q)' /\ IsBackground(n)'
  <2>1. op'.action = None /\ a # None
    BY <1>5, <1>6, OpTypes, NoneIsAbsent
  <2> QED
    BY <1>5, <1>6, <1>7, <1>8, <1>9, <2>1 DEF IsBackground
<1> QED
  BY <1>5, <1>8, <1>9, <1>10, <1>11, TaskGoesOn DEF Free, TaskMoves

LEMMA CancelTaskGood ==
  ASSUME IInv, CancelTask
  PROVE  Good
<1>1. /\ mode = "live" /\ task = "working"
      /\ UNCHANGED <<ledger, known, uncertain, offered, seen, asked, given,
                     runs, mode, crashes, faults>>
  BY DEF CancelTask
<1>2. CASE op.pc \in {"idle", "waiting"}
  BY <1>1, <1>2, EndsGood DEF CancelTask, Free
<1>3. CASE op.pc \notin {"idle", "waiting"}
  <2>1. PICK n, t : n = Note("Streaming") /\ t = (op.pc \in GateAwaits)
    OBVIOUS
  <2>2. /\ task' = "cancelling" /\ op' = [op EXCEPT !.aborted = t]
        /\ queue' = Append(queue, n)
    BY <1>3, <2>1 DEF CancelTask
  <2>3. op \in Operations /\ op.pc # "idle" /\ t \in BOOLEAN
    BY <1>3, <2>1, OwnFacts
  <2>4. /\ op' \in Operations /\ op'.pc = op.pc /\ op'.by = op.by
        /\ op'.action = op.action /\ op'.approval = op.approval
        /\ op'.generation = op.generation /\ op'.decision = op.decision
        /\ op'.receipt = op.receipt
    BY <2>2, <2>3 DEF Operations
  <2>5. n \in QueuedEntries /\ n.for = "nobody" /\ n.entry.type = "NOTE"
    BY <2>1, NotesTyped DEF RuntimeStatuses
  <2>6. /\ <<n>> \in Seq(QueuedEntries) /\ Members(<<n>>) = {n}
        /\ queue' = queue \o <<n>> /\ queue \in Seq(QueuedEntries)
        /\ Unrivalled(queue)
    BY <2>2, <2>5, ShortQueues DEF IInv, Typed, QueueInv
  <2>7. queue' \in Seq(QueuedEntries) /\ QueueInv'
    <3>1. TaskMoves
      BY <1>1, <2>2 DEF TaskMoves
    <3>2. \A q \in Members(queue) : Belongs(q)'
      BY <1>1, <2>4, <3>1, StaysPut, OwnStaysPut
    <3>3. Belongs(n)'
      BY <2>2, <2>5 DEF Belongs, IsBackground
    <3> QED
      BY <2>5, <2>6, <3>2, <3>3, Follows
  <2>8. OpInv'
    BY <1>1, <2>3, <2>4, AuthorityKept
  <2>9. OpCourse /\ TaskCourse
    BY <1>1, <2>2, <2>3, <2>4 DEF OpCourse, TaskCourse, IInv, EraInv
  <2>10. EraInv'
    BY <1>1, <2>3, <2>9, EraMoves
  <2>11. Typed' /\ LedgerInv'
    BY <1>1, <2>2, <2>4, <2>7, LedgerRests DEF Typed, IInv
  <2>12. \A b \in Actions : Rests(b)
    BY <1>1, <2>4, SameRests
  <2> QED
    BY <2>7, <2>8, <2>10, <2>11, <2>12 DEF Good, IInv, MovesOne
<1> QED
  BY <1>2, <1>3

LEMMA AskCommandGood ==
  ASSUME IInv, NEW c \in Actions, AskCommand(c)
  PROVE  Good
<1>1. PICK n : n = Note("WaitingForCommandApproval")
  OBVIOUS
<1>2. /\ mode = "live" /\ task = "working" /\ op.pc = "idle" /\ c \notin asked
      /\ asked' = asked \cup {c} /\ op' = Waiting("agent", "waiting", c)
      /\ offered' = [offered EXCEPT ![c] = "hashing"]
      /\ queue' = Append(queue, n)
      /\ UNCHANGED <<ledger, known, uncertain, seen, task, given, runs, mode,
                     crashes, faults>>
  BY <1>1 DEF AskCommand
<1>3. /\ Quiet(queue) /\ queue \in Seq(QueuedEntries) /\ op.action = None
  BY <1>2, FreeFacts DEF Free
<1>4. /\ op' \in Operations /\ op'.pc = "waiting" /\ op'.by = "agent"
      /\ op'.action = c
  BY <1>2, OpTypes
<1>5. n \in QueuedEntries /\ n.for = "nobody" /\ n.entry.type = "NOTE"
  BY <1>1, NotesTyped DEF RuntimeStatuses
<1>6. /\ <<n>> \in Seq(QueuedEntries) /\ Members(<<n>>) = {n}
      /\ queue' = queue \o <<n>>
  BY <1>2, <1>3, <1>5, ShortQueues
<1>7. /\ offered \in [Actions -> Outcomes] /\ offered[c] = "no"
      /\ offered' \in [Actions -> Outcomes] /\ offered'[c] = "hashing"
      /\ \A b \in Actions : b # c => offered'[b] = offered[b]
  BY <1>2 DEF IInv, Typed, EraInv, Outcomes
<1>8. queue' \in Seq(QueuedEntries) /\ QueueInv'
  <2>1. TaskMoves /\ asked \subseteq asked' /\ op'.action \notin asked
    BY <1>2, <1>4 DEF TaskMoves
  <2>2. \A b \in Actions : offered[b] = "queued" => offered'[b] = "queued"
    BY <1>7
  <2>3. \A q \in Members(queue) : Belongs(q)'
    BY <1>3, <2>1, <2>2, StaysPut DEF Quiet
  <2>4. Belongs(n)'
    BY <1>2, <1>5 DEF Belongs, IsBackground
  <2> QED
    BY <1>3, <1>5, <1>6, <2>3, <2>4, Follows DEF Quiet
<1>9. OpInv'
  BY <1>2, <1>4, CalmOp
<1>10. EraInv'
  BY <1>2, <1>4, <1>7 DEF IInv, EraInv, ViewAwaits
<1>11. LedgerInv'
  <2>1. \A a \in Actions : Unproposed(a)' => Unproposed(a)
    BY <1>2, <1>7 DEF Unproposed
  <2> QED
    BY <1>2, <2>1, NoGrowth DEF IInv, LedgerInv
<1>12. Typed'
  BY <1>2, <1>4, <1>7, <1>8 DEF IInv, Typed
<1>13. ASSUME NEW b \in Actions, b # c PROVE Rests(b)
  BY <1>2, <1>3, <1>4, <1>7, <1>13, OthersRest, NoneIsAbsent
<1>14. Progresses(c)
  <2>1. c \notin ledger.settled /\ runs[c] = 0 /\ c # None
    BY <1>2, NoneIsAbsent DEF IInv, LedgerInv, Unproposed
  <2>2. EffectOf(c) = "none"
    BY <1>2, <1>3, <2>1 DEF EffectOf
  <2>3. EffectOf(c)' = "requested"
    BY <1>2, <1>4, <2>1 DEF EffectOf, MayStillRun
  <2> QED
    BY <2>2, <2>3 DEF Progresses, LegalMoves
<1>15. MovesOne
  BY <1>13, <1>14 DEF MovesOne
<1> QED
  BY <1>8, <1>9, <1>10, <1>11, <1>12, <1>15 DEF Good, IInv

LEMMA ProposalHashedGood ==
  ASSUME IInv, NEW c \in Actions, ProposalHashed(c)
  PROVE  Good
<1>1. PICK e : e = About("PROPOSED", c)
  OBVIOUS
<1>2. PICK r : r = Queued(e, <<"proposed", c>>, "proposal")
  OBVIOUS
<1>3. /\ mode = "live" /\ offered[c] = "hashing"
      /\ offered' = [offered EXCEPT ![c] = "queued"]
      /\ queue' = Append(queue, r)
      /\ UNCHANGED <<ledger, known, uncertain, seen, task, op, asked, given,
                     runs, mode, crashes, faults>>
  BY <1>1, <1>2 DEF ProposalHashed
<1>4. e \in Entry /\ e.type = "PROPOSED" /\ e.action = c
  BY <1>1, NoneIsAbsent
  DEF About, BlankEntry, Entry, EntryRecord, EntryTypes, Kinds
<1>5. r \in QueuedEntries /\ r.for = "proposal" /\ r.entry = e
  <2>1. <<"proposed", c>> \in Keys
    BY DEF Keys
  <2>2. \A b \in Actions : <<"proposed", c>> # <<"started", b>>
    OBVIOUS
  <2> QED
    BY <1>2, <1>4, <2>1, <2>2 DEF Queued, QueuedEntries
<1>6. /\ offered \in [Actions -> Outcomes]
      /\ offered' \in [Actions -> Outcomes] /\ offered'[c] = "queued"
      /\ \A b \in Actions : b # c => offered'[b] = offered[b]
  BY <1>3 DEF IInv, Typed, Outcomes
<1>7. /\ <<r>> \in Seq(QueuedEntries) /\ Members(<<r>>) = {r}
      /\ queue' = queue \o <<r>> /\ queue \in Seq(QueuedEntries)
      /\ Unrivalled(queue)
  BY <1>3, <1>5, ShortQueues DEF IInv, Typed, QueueInv
<1>8. queue' \in Seq(QueuedEntries) /\ QueueInv'
  <2>1. TaskMoves
    BY <1>3 DEF TaskMoves
  <2>2. \A b \in Actions : offered[b] = "queued" => offered'[b] = "queued"
    BY <1>3, <1>6
  <2>3. \A q \in Members(queue) : Belongs(q)'
    BY <1>3, <2>1, <2>2, StaysPut, OwnStaysPut
  <2>4. Belongs(r)'
    BY <1>4, <1>5, <1>6 DEF Belongs, IsProposal
  <2>5. \A q \in Members(queue) : ~Rivals(q, r)
    BY <1>3, <1>4, <1>5 DEF IInv, QueueInv, Belongs, IsProposal, Rivals
  <2> QED
    BY <1>5, <1>7, <2>3, <2>4, <2>5, QueueMoves
<1>9. OpInv'
  BY <1>3, AuthorityKept
<1>10. EraInv'
  BY <1>3, <1>6 DEF IInv, EraInv
<1>11. LedgerInv'
  <2>1. \A a \in Actions : Unproposed(a)' => Unproposed(a)
    BY <1>3, <1>6 DEF Unproposed
  <2> QED
    BY <1>3, <2>1, NoGrowth DEF IInv, LedgerInv
<1>12. Typed'
  BY <1>3, <1>6, <1>8 DEF IInv, Typed
<1>13. \A b \in Actions : Rests(b)
  BY <1>3, <1>6, SameRests
<1> QED
  BY <1>8, <1>9, <1>10, <1>11, <1>12, <1>13 DEF Good, IInv, MovesOne

-----------------------------------------------------------------------------
(* Entries nobody waits for.                                               *)

(* The proposal or the end that is answered does not touch what an         *)
(* operation stands on, and takes at most one action out of play.          *)
LEMMA BackgroundFacts ==
  ASSUME IInv, NEW q \in Members(queue), q.for # "op", q \in QueuedEntries,
         ledger' = ledger \/ LedgerGrows(q)
  PROVE  /\ ledger'.settled = ledger.settled
         /\ q.entry.type \in {"NOTE", "ENDED", "DENIED", "PROPOSED"}
         /\ op.pc # "idle" /\ IsPending(op.action) =>
              ledger'.proj.pending = ledger.proj.pending
         /\ \A a : InPlay(ledger'.proj, a) =>
              InPlay(ledger.proj, a) \/ (IsProposal(q) /\ q.entry.action = a)
         /\ \A a : InPlay(ledger.proj, a) /\ ~InPlay(ledger'.proj, a) =>
              a = q.entry.action \/ q.entry.type = "ENDED"
         /\ LedgerGrows(q) /\ q.entry.type = "PROPOSED" =>
              InPlay(ledger'.proj, q.entry.action)
<1>1. q.for \in {"nobody", "proposal"} /\ Belongs(q)
  BY DEF QueuedEntries, IInv, QueueInv
<1>2. /\ q.entry.type \in {"NOTE", "ENDED", "DENIED", "PROPOSED"}
      /\ q.entry.type = "PROPOSED" => IsProposal(q)
  BY <1>1 DEF Belongs, IsBackground, IsProposal
<1>3. CASE ledger' = ledger /\ ~LedgerGrows(q)
  BY <1>2, <1>3
<1>4. CASE LedgerGrows(q)
  <2>1. /\ ledger.proj \in Projection /\ q.entry \in Entry
        /\ Accepts(ledger.proj, q.entry) /\ Fits(q)
        /\ ledger'.proj = After(ledger.proj, q.entry)
        /\ ledger'.settled = ledger.settled
    BY <1>2, <1>4
    DEF IInv, Typed, Ledgers, QueuedEntries, LedgerGrows, Fits, Extended
  <2>2. op.pc # "idle" /\ IsPending(op.action) =>
          ledger'.proj.pending = ledger.proj.pending
    BY <2>1, BackgroundIsHarmless
  <2>3. q.entry.type = "PROPOSED" => InPlay(ledger'.proj, q.entry.action)
    <3>1. PICK e : e = q.entry
      OBVIOUS
    <3>2. e.type = "PROPOSED" =>
            After(ledger.proj, e).pending = Proposed(e) /\ Proposed(e) \in Pending
      BY <2>1, <3>1
      DEF After, Projection, Proposed, Pending, Accepts, Entry, EntryRecord
    <3> QED
      BY <2>1, <3>1, <3>2, NoneIsAbsent DEF InPlay, Proposed
  <2> QED
    BY <1>2, <2>1, <2>2, <2>3, AfterInPlay
<1> QED
  BY <1>3, <1>4

LEMMA BackgroundAppendGood ==
  ASSUME IInv, BackgroundAppend
  PROVE  Good
<1>1. PICK for \in {"nobody", "proposal"}, outcome \in {"stored", "failed"} :
        /\ \/ Resolves(for, <<>>) /\ outcome = "stored"
           \/ /\ Rejects(for) /\ queue' = Tail(queue) /\ outcome = "failed"
        /\ offered' = IF for = "nobody" THEN offered
                      ELSE [offered EXCEPT ![Head(queue).entry.action] = outcome]
  BY DEF BackgroundAppend
<1>2. /\ mode = "live"
      /\ UNCHANGED <<uncertain, seen, task, op, asked, given, runs, mode,
                     crashes>>
  BY DEF BackgroundAppend
<1>3. PICK q : q = Head(queue)
  OBVIOUS
<1>4. /\ queue # <<>> /\ q \in QueuedEntries /\ q \in Members(queue)
      /\ q.for = for /\ Belongs(q) /\ q.for # "op"
      /\ ledger' = ledger \/ LedgerGrows(q)
      /\ known' \subseteq Keys /\ known' \subseteq ledger'.keys
      /\ faults' \in 0..MaxFaults
  BY <1>1, <1>3, HeadAnswered
<1>5. /\ ledger'.settled = ledger.settled
      /\ q.entry.type \in {"NOTE", "ENDED", "DENIED", "PROPOSED"}
      /\ op.pc # "idle" /\ IsPending(op.action) =>
           ledger'.proj.pending = ledger.proj.pending
      /\ \A a : InPlay(ledger'.proj, a) =>
           InPlay(ledger.proj, a) \/ (IsProposal(q) /\ q.entry.action = a)
      /\ \A a : InPlay(ledger.proj, a) /\ ~InPlay(ledger'.proj, a) =>
           a = q.entry.action \/ q.entry.type = "ENDED"
      /\ LedgerGrows(q) /\ q.entry.type = "PROPOSED" =>
           InPlay(ledger'.proj, q.entry.action)
  BY <1>4, BackgroundFacts
<1>6. PICK c : c = q.entry.action
  OBVIOUS
<1>7. /\ for = "proposal" =>
           /\ q.entry.type = "PROPOSED" /\ c \in Actions /\ c \in asked
           /\ offered[c] = "queued" /\ task # "none"
      /\ for = "nobody" => q.entry.type # "PROPOSED"
  BY <1>4, <1>6
  DEF Belongs, IsProposal, IsBackground, IInv, EraInv
<1>8. /\ offered \in [Actions -> Outcomes] /\ offered' \in [Actions -> Outcomes]
      /\ \A b \in Actions :
           \/ offered'[b] = offered[b]
           \/ for = "proposal" /\ b = c
      /\ for = "proposal" => offered'[c] \in {"stored", "failed"}
  BY <1>1, <1>3, <1>6, <1>7 DEF IInv, Typed, Outcomes
<1>9. /\ queue \in Seq(QueuedEntries) /\ Unrivalled(queue)
      /\ Tail(queue) \in Seq(QueuedEntries) /\ Unrivalled(Tail(queue))
      /\ \A x \in Members(Tail(queue)) : x \in Members(queue) /\ ~Rivals(q, x)
  <2>1. queue \in Seq(QueuedEntries) /\ Unrivalled(queue)
    BY DEF IInv, Typed, QueueInv
  <2> QED
    BY <1>3, <1>4, <2>1, HeadAndTail
<1>10. queue' = Tail(queue)
  BY <1>1, <1>9 DEF Resolves
<1>11. QueueInv'
  <2> SUFFICES ASSUME NEW x \in Members(Tail(queue)) PROVE Belongs(x)'
    BY <1>9, <1>10 DEF QueueInv, Unrivalled, Members
  <2>1. x \in Members(queue) /\ Belongs(x) /\ ~Rivals(q, x)
    BY <1>9 DEF IInv, QueueInv
  <2>2. x.for = "op" => IsAwaited(x)'
    BY <1>2, <2>1, OwnStaysPut DEF Belongs
  <2>3. x.for = "proposal" => IsProposal(x)'
    BY <1>4, <1>6, <1>8, <2>1 DEF Belongs, IsProposal, Rivals
  <2>4. x.for = "nobody" => IsBackground(x)'
    BY <1>2, <2>1 DEF Belongs, IsBackground
  <2> QED
    BY <2>2, <2>3, <2>4 DEF Belongs
<1>12. OpInv'
  BY <1>2, <1>5, AuthorityKept
<1>13. \A a \in Actions : Unproposed(a)' => Unproposed(a)
  BY <1>2, <1>7, <1>8 DEF Unproposed
<1>14. ledger' \in Ledgers /\ LedgerInv'
  <2>1. CASE ledger' = ledger
    BY <1>2, <1>4, <1>13, <2>1, NoGrowth DEF IInv, Typed
  <2>2. CASE LedgerGrows(q)
    <3>1. q.entry.type = "PROPOSED" =>
            /\ q.entry.action \in asked
            /\ Unproposed(q.entry.action) /\ ~Unproposed(q.entry.action)'
      BY <1>2, <1>4, <1>6, <1>7, <1>8 DEF Unproposed
    <3> QED
      BY <1>2, <1>4, <1>13, <2>2, <3>1, Growth
  <2> QED
    BY <1>4, <2>1, <2>2
<1>15. EraInv'
  <2>1. /\ task # "none" => ledger'.proj.requirement \notin Reapprovals
        /\ task = "none" /\ op.pc # "idle" /\ ledger'.proj.pending # None =>
             /\ ledger'.proj.pending.action = op.action
             /\ ledger'.proj.pending.started /\ runs[op.action] = 0 =>
                  ledger'.proj.pending.approved
    <3>1. CASE ledger' = ledger
      BY <3>1 DEF IInv, EraInv
    <3>2. CASE LedgerGrows(q)
      BY <1>4, <1>5, <1>7, <3>2, EraLedger
    <3> QED
      BY <1>4, <3>1, <3>2
  <2> QED
    BY <1>2, <1>7, <1>8, <2>1 DEF IInv, EraInv
<1>16. Typed'
  BY <1>2, <1>4, <1>8, <1>9, <1>10, <1>14 DEF IInv, Typed
<1>17. \A b \in Actions : MayStillRun(b)' => MayStillRun(b)
  BY <1>2, <1>5, <1>8, <1>7 DEF MayStillRun, InPlay, IsProposal
<1>18. ASSUME NEW b \in Actions, op.action = b, op.pc \in Carrying
       PROVE  Rests(b)
  <2>1. IsPending(b) /\ op.pc # "idle"
    BY <1>18, CarriedFacts
  <2>2. /\ offered[b] \notin {"hashing", "queued"}
    BY <2>1 DEF IInv, LedgerInv, Unproposed
  <2>3. offered'[b] = offered[b]
    BY <1>7, <1>8, <2>2
  <2> QED
    BY <1>2, <1>5, <1>18, <2>1, <2>3, SameRests DEF InPlay
<1>19. PICK z : z = IF q.entry.type = "ENDED" THEN ledger.proj.pending.action
                                              ELSE c
  OBVIOUS
<1>20. ASSUME NEW b \in Actions, b # z PROVE Rests(b)
  <2>1. InPlay(ledger'.proj, b) <=> InPlay(ledger.proj, b)
    BY <1>5, <1>6, <1>19, <1>20 DEF InPlay, IsProposal
  <2>2. offered'[b] = offered[b]
    BY <1>7, <1>8, <1>19, <1>20
  <2> QED
    BY <1>2, <1>5, <2>1, <2>2, SameRests
<1>21. ASSUME NEW b \in Actions PROVE Progresses(b)
  BY <1>2, <1>5, <1>17, <1>18, Resting, Fades
<1>22. MovesOne
  BY <1>20, <1>21, OneMoves
<1> QED
  BY <1>11, <1>12, <1>14, <1>15, <1>16, <1>22 DEF Good, IInv

-----------------------------------------------------------------------------
(* The sessions view, and restarts.                                        *)

(* No operation of the gate is under way, before or after. *)
Unasked == op.pc \notin Asking \cup Carrying /\ op'.pc \notin Asking \cup Carrying

LEMMA UnaskedFades ==
  ASSUME Unasked, NEW b \in Actions, ledger'.settled = ledger.settled,
         runs' = runs, asked' = asked,
         offered'[b] \in {"hashing", "queued"}
           <=> offered[b] \in {"hashing", "queued"},
         InPlay(ledger'.proj, b) => InPlay(ledger.proj, b)
  PROVE  /\ Progresses(b)
         /\ (InPlay(ledger.proj, b) => InPlay(ledger'.proj, b)) => Rests(b)
<1>1. MayStillRun(b)' => MayStillRun(b)
  BY DEF Unasked, MayStillRun, InPlay, Asking
<1>2. (InPlay(ledger.proj, b) => InPlay(ledger'.proj, b)) =>
        (MayStillRun(b) => MayStillRun(b)')
  BY DEF Unasked, MayStillRun, InPlay, Asking
<1> QED
  BY <1>1, <1>2, Fades DEF Unasked

(* An entry that no action brings into play ends one at most. *)
LEMMA UnaskedGrows ==
  ASSUME IInv, Unasked, NEW q \in QueuedEntries,
         q.entry.type \in {"ENDED", "SESSION_INTERRUPTED", "RECOVERY_REQUIRED"},
         ledger' = ledger \/ LedgerGrows(q),
         runs' = runs, asked' = asked, offered' = offered
  PROVE  MovesOne
<1>1. PICK z : z = ledger.proj.pending.action
  OBVIOUS
<1>2. /\ ledger'.settled = ledger.settled
      /\ \A b : InPlay(ledger'.proj, b) => InPlay(ledger.proj, b)
      /\ \A b : InPlay(ledger.proj, b) => b = z
  <2>1. CASE ledger' = ledger
    BY <1>1, <2>1 DEF InPlay
  <2>2. CASE LedgerGrows(q)
    <3>1. /\ ledger.proj \in Projection /\ q.entry \in Entry
          /\ Accepts(ledger.proj, q.entry)
          /\ ledger'.proj = After(ledger.proj, q.entry)
          /\ ledger'.settled = ledger.settled
      BY <2>2
      DEF IInv, Typed, Ledgers, QueuedEntries, LedgerGrows, Fits, Extended
    <3> QED
      BY <1>1, <3>1, AfterInPlay DEF InPlay
  <2> QED
    BY <2>1, <2>2
<1>3. \A b \in Actions : Progresses(b)
  BY <1>2, UnaskedFades
<1>4. \A b \in Actions : b # z => Rests(b)
  BY <1>2, UnaskedFades
<1> QED
  BY <1>3, <1>4, OneMoves

(* No operation appends: what is queued is the task's.                     *)
LEMMA Unattended ==
  ASSUME IInv, op.pc \in {"idle", "ready"}
  PROVE  /\ Quiet(queue) /\ queue \in Seq(QueuedEntries)
         /\ op.pc \notin Asking \cup Carrying
<1>1. op.pc \notin Appending /\ op.pc \notin Asking \cup Carrying
  BY DEF Appending, ViewAwaits, Carrying, Asking, GateAwaits
<1> QED
  BY <1>1, QuietQueue DEF Quiet

LEMMA ReauthorizeGood ==
  ASSUME IInv, Reauthorize
  PROVE  Good
<1>1. PICK a : a = ledger.proj.pending.action
  OBVIOUS
<1>2. /\ mode = "live" /\ op.pc \in {"idle", "ready"} /\ NeedsReapproval
      /\ op' = Waiting("view", "ready", a) /\ known' = ledger.keys /\ seen' = {}
      /\ offered' = [offered EXCEPT ![a] = "stored"]
      /\ UNCHANGED <<ledger, queue, uncertain, task, asked, given, runs, mode,
                     crashes, faults>>
  BY <1>1 DEF Reauthorize
<1>3. /\ ledger.proj.requirement \in Reapprovals /\ ledger.proj.pending # None
      /\ IsPending(a) /\ ~ledger.proj.pending.started /\ task = "none"
  BY <1>1, <1>2
  DEF NeedsReapproval, IsPending, IInv, LedgerInv, ProjectionSound, EraInv
<1>4. a \in Actions /\ a \in asked
  <2>1. a \in Actions
    BY <1>1, <1>3 DEF IInv, Typed, Ledgers, Projection, Pending
  <2> QED
    BY <1>3, <2>1 DEF IInv, LedgerInv
<1>5. /\ Quiet(queue) /\ queue \in Seq(QueuedEntries)
      /\ op.pc \notin Asking \cup Carrying
  BY <1>2, Unattended
<1>6. /\ op' \in Operations /\ op'.pc = "ready" /\ op'.by = "view"
      /\ op'.action = a
  BY <1>2, <1>4, OpTypes
<1>7. /\ offered \in [Actions -> Outcomes] /\ offered' \in [Actions -> Outcomes]
      /\ \A b \in Actions : offered[b] \notin {"hashing", "queued"}
      /\ offered'[a] = "stored" /\ \A b \in Actions : b # a => offered'[b] = offered[b]
  BY <1>2, <1>3, <1>4 DEF IInv, Typed, EraInv, Outcomes
<1>8. QueueInv'
  <2>1. TaskMoves /\ asked \subseteq asked'
    BY <1>2 DEF TaskMoves
  <2>2. \A q \in Members(queue) : Belongs(q)'
    BY <1>3, <1>5, <1>7, <2>1, StaysPut DEF Quiet
  <2> QED
    BY <1>2, <2>2 DEF IInv, QueueInv, Unrivalled, Members
<1>9. OpInv'
  BY <1>2, <1>4, <1>6, CalmOp
<1>10. EraInv'
  <2>1. \A b \in Actions : /\ offered'[b] \notin {"hashing", "queued"}
                           /\ offered'[b] # "no" => b \in asked
    BY <1>4, <1>7 DEF IInv, EraInv
  <2> QED
    BY <1>1, <1>2, <1>3, <1>6, <2>1 DEF EraInv, ViewAwaits
<1>11. LedgerInv'
  <2>1. \A b \in Actions : Unproposed(b)' => Unproposed(b)
    BY <1>2, <1>7 DEF Unproposed
  <2> QED
    BY <1>2, <2>1, NoGrowth
<1>12. Typed'
  BY <1>2, <1>5, <1>6, <1>7 DEF IInv, Typed, Ledgers
<1>13. ASSUME NEW b \in Actions PROVE Rests(b)
  <2>1. offered'[b] \notin {"hashing", "queued"}
    BY <1>7
  <2>2. Unasked
    BY <1>5, <1>6 DEF Unasked, Asking, Carrying, GateAwaits
  <2> QED
    BY <1>2, <1>7, <2>1, <2>2, UnaskedFades
<1> QED
  BY <1>8, <1>9, <1>10, <1>11, <1>12, <1>13 DEF Good, IInv, MovesOne

LEMMA AbandonGood ==
  ASSUME IInv, Abandon
  PROVE  Good
<1>1. PICK q : q = Background(EndedBy("Cancelled"))
  OBVIOUS
<1>2. /\ mode = "live" /\ op.pc \in {"idle", "ready"}
      /\ ledger' = ledger \/ LedgerGrows(q)
      /\ op' = NoOp \/ op' = op
      /\ faults' = faults \/ (faults < MaxFaults /\ faults' = faults + 1)
      /\ UNCHANGED <<known, queue, uncertain, offered, seen, task, asked,
                     given, runs, mode, crashes>>
  BY <1>1 DEF Abandon, StoreFails, LedgerGrows
<1>3. q \in QueuedEntries /\ q.entry.type = "ENDED"
  BY <1>1, EndsTyped DEF Background
<1>4. /\ Quiet(queue) /\ queue \in Seq(QueuedEntries)
      /\ op.pc \notin Asking \cup Carrying
  BY <1>2, Unattended
<1>5. /\ op' \in Operations /\ op'.pc \in {"idle", "ready"}
      /\ op'.action \in {op.action, None}
  BY <1>2, OpTypes DEF IInv, Typed
<1>6. QueueInv'
  <2>1. TaskMoves
    BY <1>2 DEF TaskMoves
  <2> QED
    BY <1>2, <1>4, <1>5, <2>1, QuietStays
<1>7. OpInv'
  BY <1>2, CalmOp, OpTypes DEF IInv, OpInv
<1>8. known \subseteq ledger'.keys
  BY <1>2 DEF LedgerGrows, Extended, IInv, LedgerInv
<1>9. \A b \in Actions : Unproposed(b)' => Unproposed(b)
  BY <1>2 DEF Unproposed
<1>10. ledger' \in Ledgers /\ LedgerInv'
  <2>1. CASE ledger' = ledger
    BY <1>2, <1>8, <1>9, <2>1, NoGrowth DEF IInv, Typed
  <2>2. CASE LedgerGrows(q)
    BY <1>2, <1>3, <1>8, <1>9, <2>2, Growth
  <2> QED
    BY <1>2, <2>1, <2>2
<1>11. EraInv'
  <2>1. /\ task # "none" => ledger'.proj.requirement \notin Reapprovals
        /\ task = "none" /\ op.pc # "idle" /\ ledger'.proj.pending # None =>
             /\ ledger'.proj.pending.action = op.action
             /\ ledger'.proj.pending.started /\ runs[op.action] = 0 =>
                  ledger'.proj.pending.approved
    <3>1. CASE ledger' = ledger
      BY <3>1 DEF IInv, EraInv
    <3>2. CASE LedgerGrows(q)
      BY <1>3, <3>2, EraLedger
    <3> QED
      BY <1>2, <3>1, <3>2
  <2>2. CASE op' = op
    BY <1>2, <2>1, <2>2 DEF IInv, EraInv
  <2>3. CASE op' = NoOp
    BY <1>2, <2>1, <2>3, OpTypes DEF IInv, EraInv, ViewAwaits
  <2> QED
    BY <1>2, <2>2, <2>3
<1>12. faults' \in 0..MaxFaults
  BY <1>2, GateBoundsAreNat DEF IInv, Typed
<1>13. Typed'
  BY <1>2, <1>5, <1>10, <1>12 DEF IInv, Typed
<1>14. MovesOne
  <2>1. Unasked
    BY <1>4, <1>5 DEF Unasked, Asking, Carrying, GateAwaits
  <2> QED
    BY <1>2, <1>3, <2>1, UnaskedGrows
<1> QED
  BY <1>6, <1>7, <1>10, <1>11, <1>13, <1>14 DEF Good, IInv

LEMMA CrashGood ==
  ASSUME IInv, Crash
  PROVE  Good
<1>1. /\ crashes' \in 0..MaxCrashes /\ mode' = "recovering" /\ known' = {}
      /\ queue' = <<>> /\ uncertain' = FALSE
      /\ offered' = [c \in Actions |-> "no"] /\ seen' = {} /\ task' = "none"
      /\ op' = NoOp /\ given' = {}
      /\ UNCHANGED <<ledger, asked, runs, faults>>
  BY GateBoundsAreNat DEF Crash, IInv, Typed
<1>2. op' \in Operations /\ op'.pc = "idle" /\ op'.action = None
  BY <1>1, OpTypes
<1>3. \A b \in Actions : offered'[b] = "no"
  BY <1>1
<1>4. queue' \in Seq(QueuedEntries) /\ QueueInv'
  <2>1. <<>> \in Seq(QueuedEntries) /\ Members(<<>>) = {} /\ Unrivalled(<<>>)
    BY ShortQueues
  <2> QED
    BY <1>1, <2>1 DEF QueueInv, Unrivalled, Members
<1>5. OpInv'
  BY <1>1, CalmOp
<1>6. EraInv'
  BY <1>1, <1>2, <1>3 DEF EraInv, ViewAwaits
<1>7. LedgerInv'
  <2>1. \A b \in Actions : Unproposed(b)' => Unproposed(b)
    BY <1>1, <1>3 DEF Unproposed
  <2> QED
    BY <1>1, <2>1, NoGrowth
<1>8. Typed'
  BY <1>1, <1>2, <1>4 DEF IInv, Typed, Outcomes
<1>9. Stopped
  <2> SUFFICES ASSUME NEW b \in Actions
               PROVE  \/ Rests(b)
                      \/ /\ EffectOf(b) \in {"requested", "authorised"}
                         /\ EffectOf(b)' = "closed"
                      \/ EffectOf(b) = "running" /\ EffectOf(b)' = "uncertain"
    BY DEF Stopped
  <2>1. b # None /\ offered'[b] = "no" /\ runs[b] \in 0..MaxRuns
    BY <1>3, NoneIsAbsent DEF IInv, Typed
  <2>2. MayStillRun(b)' => InPlay(ledger.proj, b)
    BY <1>1, <1>2, <2>1 DEF MayStillRun, InPlay
  <2>3. CASE op.action = b /\ op.pc \in Carrying
    <3>1. /\ b \in asked /\ b \notin ledger.settled /\ ~InPlay(ledger.proj, b)
      BY <2>3, CarriedFacts
      DEF StartIsDurable, PendingIsMine, InPlay
    <3>2. op.pc = "started" => runs[b] = 0
      BY <2>3 DEF IInv, OpInv
    <3>3. op.pc \in {"running", "settling"} => runs[b] > 0
      BY <2>3 DEF IInv, OpInv
    <3> QED
      BY <1>1, <1>2, <2>1, <2>2, <2>3, <3>1, <3>2, <3>3
      DEF EffectOf, Carrying
  <2>4. CASE ~(op.action = b /\ op.pc \in Carrying)
    <3>1. MayStillRun(b)' => MayStillRun(b)
      BY <2>2 DEF MayStillRun, InPlay
    <3> QED
      BY <1>1, <1>2, <2>1, <2>4, <3>1 DEF EffectOf, Carrying, Rests
  <2> QED
    BY <2>3, <2>4
<1> QED
  BY <1>4, <1>5, <1>6, <1>7, <1>8, <1>9 DEF Good, IInv

(* What the startup recovery appends.                                      *)
LEMMA RestartEntryTyped ==
  ASSUME IInv, RestartEntry # None
  PROVE  /\ Background(RestartEntry) \in QueuedEntries
         /\ RestartEntry.type \in
              {"ENDED", "SESSION_INTERRUPTED", "RECOVERY_REQUIRED"}
<1>1. PICK p, s, e : p = ledger.proj /\ s = ledger.status /\ e = RestartEntry
  OBVIOUS
<1>2. p \in Projection
  BY <1>1 DEF IInv, Typed, Ledgers
<1>3. e = InterruptEntry \/ e = RecoveryEntry(p, s)
  BY <1>1 DEF RestartEntry
<1>4. \/ e = InterruptEntry
      \/ \E why \in Reapprovals : e = ReapprovalEntry(p, why)
      \/ \E t \in {"Done", "Failed", "Cancelled", "LimitReached"} : e = EndedBy(t)
  BY <1>1, <1>3 DEF RecoveryEntry, Reapprovals
<1>5. e \in Entry
  BY <1>2, <1>4, RecoveryEntries
<1>6. e.type \in {"ENDED", "SESSION_INTERRUPTED", "RECOVERY_REQUIRED"}
  BY <1>4 DEF InterruptEntry, ReapprovalEntry, EndedBy, BlankEntry
<1>7. Background(e) \in QueuedEntries
  BY <1>5, NoneIsNoKey DEF Background, Queued, QueuedEntries, Keys
<1> QED
  BY <1>1, <1>6, <1>7

LEMMA RecoverGood ==
  ASSUME IInv, Recover
  PROVE  Good
<1>1. PICK q : q = Background(RestartEntry)
  OBVIOUS
<1>2. /\ mode = "recovering" /\ mode' = "live"
      /\ UNCHANGED <<known, queue, uncertain, offered, seen, task, op, given,
                     asked, runs, crashes>>
      /\ ledger' = ledger \/ (RestartEntry # None /\ LedgerGrows(q))
      /\ faults' = faults \/ (faults < MaxFaults /\ faults' = faults + 1)
  BY <1>1 DEF Recover, process, StoreFails, LedgerGrows
<1>3. op = NoOp /\ queue = <<>> /\ task = "none" /\ op.pc = "idle"
  BY <1>2, OpTypes DEF IInv, EraInv
<1>4. LedgerGrows(q) /\ RestartEntry # None =>
        /\ q \in QueuedEntries
        /\ q.entry.type \in {"ENDED", "SESSION_INTERRUPTED", "RECOVERY_REQUIRED"}
  <2>1. q.entry = RestartEntry
    BY <1>1 DEF Background, Queued
  <2> QED
    BY <1>1, <2>1, RestartEntryTyped
<1>5. QueueInv'
  BY <1>2, <1>3 DEF QueueInv, Unrivalled, Members
<1>6. OpInv'
  BY <1>2, <1>3, CalmOp
<1>7. EraInv'
  BY <1>2, <1>3 DEF IInv, EraInv
<1>8. known \subseteq ledger'.keys
  BY <1>2 DEF LedgerGrows, Extended, IInv, LedgerInv
<1>9. \A b \in Actions : Unproposed(b)' => Unproposed(b)
  BY <1>2 DEF Unproposed
<1>10. ledger' \in Ledgers /\ LedgerInv'
  <2>1. CASE ledger' = ledger
    BY <1>2, <1>8, <1>9, <2>1, NoGrowth DEF IInv, Typed
  <2>2. CASE RestartEntry # None /\ LedgerGrows(q)
    BY <1>2, <1>4, <1>8, <1>9, <2>2, Growth
  <2> QED
    BY <1>2, <2>1, <2>2
<1>11. faults' \in 0..MaxFaults
  BY <1>2, GateBoundsAreNat DEF IInv, Typed
<1>12. Typed'
  BY <1>2, <1>10, <1>11 DEF IInv, Typed
<1>13. MovesOne
  <2>1. Unasked
    BY <1>2, <1>3 DEF Unasked, Asking, Carrying, GateAwaits
  <2>2. CASE ledger' = ledger
    BY <1>2, <2>1, <2>2, UnaskedFades DEF MovesOne
  <2>3. CASE RestartEntry # None /\ LedgerGrows(q)
    BY <1>2, <1>4, <2>1, <2>3, UnaskedGrows
  <2> QED
    BY <1>2, <2>2, <2>3
<1> QED
  BY <1>5, <1>6, <1>7, <1>10, <1>12, <1>13 DEF Good, IInv

-----------------------------------------------------------------------------
(* The theorems.                                                           *)

LEMMA Begins == Init => IInv
<1> SUFFICES ASSUME Init PROVE IInv
  OBVIOUS
<1>1. /\ op = NoOp /\ op \in Operations /\ op.pc = "idle" /\ op.action = None
  BY OpTypes DEF Init
<1>2. /\ queue = <<>> /\ queue \in Seq(QueuedEntries) /\ QueueInv
  <2>1. <<>> \in Seq(QueuedEntries) /\ Members(<<>>) = {} /\ Unrivalled(<<>>)
    BY ShortQueues
  <2> QED
    BY <2>1 DEF Init, QueueInv
<1>3. ledger.proj = FirstProjection /\ ledger.proj \in Projection
      /\ ProjectionSound(ledger.proj) /\ ledger.proj.pending = None
      /\ ledger.proj.requirement = None
  BY FirstIsSound DEF Init, FirstProjection
<1>4. Typed
  <2>1. ledger \in Ledgers
    BY <1>3 DEF Init, Ledgers
  <2>2. crashes \in 0..MaxCrashes /\ faults \in 0..MaxFaults
    BY GateBoundsAreNat DEF Init
  <2>3. /\ offered \in [Actions -> Outcomes] /\ runs \in [Actions -> 0..MaxRuns]
    BY DEF Init, Outcomes, MaxRuns
  <2> QED
    BY <1>1, <1>2, <2>1, <2>2, <2>3 DEF Init, Typed
<1>5. LedgerInv
  BY <1>3 DEF Init, LedgerInv, UnsettledStaysStarted, IsPending, Keys
<1>6. OpInv
  BY <1>1 DEF OpInv, GateAwaits, DispatchAwaits
<1>7. EraInv
  BY <1>1, <1>3, NoneIsAbsent DEF Init, EraInv, ViewAwaits, Reasons
<1> QED
  BY <1>2, <1>4, <1>5, <1>6, <1>7 DEF IInv

LEMMA Stutters ==
  ASSUME IInv, UNCHANGED vars
  PROVE  Good
<1>1. UNCHANGED <<ledger, known, queue, uncertain, offered, seen, task, op,
                  asked, given, runs, mode, crashes, faults>>
  BY DEF vars, process
<1>2. Typed' /\ LedgerInv' /\ EraInv'
  BY <1>1, LedgerRests DEF IInv, Typed, EraInv
<1>3. QueueInv'
  BY <1>1 DEF IInv, QueueInv, Unrivalled, Members, Belongs, IsAwaited,
     IsBackground, IsProposal
<1>4. OpInv'
  BY <1>1, AuthorityKept
<1>5. \A b \in Actions : Rests(b)
  BY <1>1, SameRests
<1> QED
  BY <1>2, <1>3, <1>4, <1>5 DEF Good, IInv, MovesOne

LEMMA EveryStep ==
  ASSUME IInv, [Next]_vars
  PROVE  Good
<1>1. CASE TaskStep
  BY <1>1, AskCommandGood, ProposalHashedGood, DenyCommandGood, CancelTaskGood,
     CancelReturnsGood, EndTaskGood DEF TaskStep
<1>2. CASE GateStep
  BY <1>2, ApproveCommandGood, RecordApprovalGood, ProposalRefusedGood,
     ExpireGood, ApprovalRecordedGood, AskPolicyGood, ApprovalRefusedGood,
     PolicyAnswersGood, DecisionRecordedGood, RecordStartGood,
     StartRefusedGood, StartRecordedGood, GateAppendFailsGood DEF GateStep
<1>3. CASE DispatchStep
  BY <1>3, RunGood, CommandEndsGood, SettlementRecordedGood,
     SettlementFailsGood, InterruptionAnsweredGood DEF DispatchStep
<1>4. CASE \/ BackgroundAppend \/ Reauthorize \/ ViewAppends \/ Abandon
           \/ Crash \/ Recover
  BY <1>4, BackgroundAppendGood, ReauthorizeGood, ViewAppendsGood, AbandonGood,
     CrashGood, RecoverGood
<1>5. CASE UNCHANGED vars
  BY <1>5, Stutters
<1> QED
  BY <1>1, <1>2, <1>3, <1>4, <1>5 DEF Next

(* The inductive invariant: what the queue of the recorder may hold, what  *)
(* the ledger says of every command, and under which authority the         *)
(* operation under way is.                                                 *)
THEOREM Inductive == Spec => []IInv
<1>1. IInv /\ [Next]_vars => IInv'
  BY EveryStep DEF Good
<1> QED
  BY <1>1, Begins, PTL DEF Spec

(* From the question to AgentFuse to the settlement, a governed command is *)
(* under an approval that the user gave since the restart and that is in   *)
(* force in the ledger; from its start on, the ledger holds that start     *)
(* under this approval, this allow and this receipt.  What the decision    *)
(* coordinator checks behind each await is enough, in any order of         *)
(* appends, cancels, expiries, store failures and restarts.                *)
THEOREM AuthorityHolds == Spec => []AuthorityIsInForce
<1>1. IInv => TypeOK
  <2> SUFFICES ASSUME IInv PROVE TypeOK
    OBVIOUS
  <2>1. \A i \in DOMAIN queue : queue[i] \in QueuedEntries
    BY DEF IInv, Typed
  <2>2. \A i \in DOMAIN queue :
          /\ queue[i].entry \in Entry /\ queue[i].key \in Keys \cup {None}
          /\ queue[i].for \in {"nobody", "proposal", "op"}
    BY <2>1 DEF QueuedEntries
  <2> QED
    BY <2>2 DEF IInv, Typed, TypeOK, Ledgers, Operations, Outcomes
<1>2. IInv => AsksUnderApproval
  BY DEF IInv, OpInv, LedgerInv, ProjectionSound, AsksUnderApproval,
     ApprovalIsDurable, PendingIsMine, GateAwaits
<1>3. IInv => RunsBehindEvidence
  BY DEF IInv, OpInv, RunsBehindEvidence, StartIsDurable
<1> QED
  BY <1>1, <1>2, <1>3, Inductive, PTL DEF AuthorityIsInForce

(* A command that ran and was not settled stays pending and started in the *)
(* ledger, whatever ends, fails or restarts, and the sessions view never   *)
(* offers to approve again what may have run.                              *)
THEOREM UncertaintyIsKept == Spec => []UncertaintyStays
<1>1. IInv => UnsettledStaysStarted
  BY DEF IInv, LedgerInv
<1>2. IInv => NeverReoffered
  <2> SUFFICES ASSUME IInv, NeedsReapproval, NEW a,
                      a = ledger.proj.pending.action
               PROVE  runs[a] = 0 /\ ~ledger.proj.pending.started
    BY DEF NeverReoffered
  <2>1. ~ledger.proj.pending.started /\ IsPending(a)
    BY DEF NeedsReapproval, IInv, LedgerInv, ProjectionSound, IsPending
  <2>2. a \in Actions /\ runs[a] \in 0..MaxRuns
    BY <2>1 DEF IsPending, IInv, Typed, Ledgers, Projection, Pending
  <2>3. a \notin ledger.settled
    BY <2>1, <2>2 DEF IInv, LedgerInv
  <2>4. ~(runs[a] > 0)
    BY <2>1, <2>2, <2>3 DEF IInv, LedgerInv, UnsettledStaysStarted
  <2> QED
    BY <2>1, <2>2, <2>4
<1> QED
  BY <1>1, <1>2, Inductive, PTL DEF UncertaintyStays

(* Behind a restart whose recovery returned without a store failure, the   *)
(* session of a command that ran without settlement is shown as            *)
(* interrupted.                                                            *)
THEOREM RestartsTell == Spec => RestartShowsUncertainty
<1> DEFINE Told ==
      mode = "recovering" /\ mode' = "live" /\ faults' = faults =>
        \A a \in Actions : runs[a] > 0 /\ a \notin ledger.settled =>
          ledger'.proj.status = "Interrupted"
<1>1. IInv /\ [Next]_vars => [Told]_vars
  <2> SUFFICES ASSUME IInv, Next, mode = "recovering", mode' = "live",
                      faults' = faults, NEW a \in Actions, runs[a] > 0,
                      a \notin ledger.settled
               PROVE  ledger'.proj.status = "Interrupted"
    BY DEF vars
  <2>1. Recover
    <3>1. op.pc = "idle" /\ queue = <<>> /\ task = "none"
      BY OpTypes DEF IInv, EraInv
    <3>2. ~TaskStep
      BY DEF TaskStep, AskCommand, ProposalHashed, DenyCommand, CancelTask,
         CancelReturns, EndTask
    <3>3. ~GateStep
      BY <3>1
      DEF GateStep, ApproveCommand, RecordApproval, ProposalRefused, Expire,
          ApprovalRecorded, AskPolicy, ApprovalRefused, PolicyAnswers,
          DecisionRecorded, RecordStart, StartRefused, StartRecorded,
          GateAppendFails, GateAwaits
    <3>4. ~DispatchStep /\ ~ViewAppends
      BY <3>1
      DEF DispatchStep, Run, SettlementRecorded, SettlementFails,
          InterruptionAnswered, CommandEnds, ViewAppends
    <3>5. ~BackgroundAppend /\ ~Reauthorize /\ ~Abandon /\ ~Crash
      BY DEF BackgroundAppend, Reauthorize, Abandon, Crash
    <3> QED
      BY <3>2, <3>3, <3>4, <3>5 DEF Next
  <2>2. /\ ledger.proj.status \notin EndStatuses /\ ledger.proj.pending # None
        /\ ledger.proj.pending.started /\ ledger \in Ledgers
        /\ ProjectionSound(ledger.proj)
    BY DEF IInv, LedgerInv, UnsettledStaysStarted, Typed
  <2>3. CASE ledger.proj.pending.approved
    <3>1. PICK q : q = Background(InterruptEntry)
      OBVIOUS
    <3>2. RestartEntry = InterruptEntry /\ InterruptEntry # None
      BY <2>2, <2>3, BlankTyped, NoneIsAbsent DEF RestartEntry
    <3>3. q.entry = InterruptEntry /\ q.entry.type = "SESSION_INTERRUPTED"
      BY <3>1, BlankTyped DEF Background, Queued
    <3>4. Fits(q)
      BY <2>2, <3>3 DEF Fits, Accepts
    <3>5. ~StoreFails(q)
      BY GateBoundsAreNat DEF StoreFails, IInv, Typed
    <3>6. ledger' = Extended(q)
      BY <2>1, <3>1, <3>2, <3>4, <3>5 DEF Recover
    <3>7. After(ledger.proj, q.entry).status = "Interrupted"
      BY <2>2, <3>3 DEF After, Ledgers, Projection
    <3> QED
      BY <3>6, <3>7 DEF Extended
  <2>4. CASE ~ledger.proj.pending.approved
    <3>1. ledger' = ledger
      BY <2>1, <2>2, <2>4 DEF Recover, RestartEntry
    <3> QED
      BY <2>2, <2>4, <3>1 DEF ProjectionSound
  <2> QED
    BY <2>3, <2>4
<1> QED
  BY <1>1, Inductive, PTL DEF Spec, RestartShowsUncertainty

-----------------------------------------------------------------------------

LEMMA NoEffectsAtFirst == Init => Promise!Init
<1> SUFFICES ASSUME Init, NEW a \in Actions PROVE EffectOf(a) = "none"
  BY DEF Promise!Init
<1>1. a # None /\ runs[a] = 0 /\ op.action = None
  BY NoneIsAbsent, OpTypes DEF Init
<1> QED
  BY <1>1 DEF Init, EffectOf

(* The product keeps the promise of SideEffect for every command, across   *)
(* restarts: it runs at most once, behind authority, never after it was    *)
(* closed, and an uncertain one is never run again.                        *)
THEOREM GateKeepsPromise == Spec => KeepsPromise
<1> DEFINE eff == [a \in Actions |-> EffectOf(a)]
<1>1. IInv /\ [Next]_vars => [Promise!Next]_eff
  <2> SUFFICES ASSUME IInv, [Next]_vars PROVE Promise!Next \/ eff' = eff
    OBVIOUS
  <2>1. MovesOne \/ Stopped
    BY EveryStep DEF Good
  <2>2. CASE \A b \in Actions : Rests(b)
    BY <2>2 DEF Rests
  <2>3. ASSUME NEW a \in Actions,
               <<EffectOf(a), EffectOf(a)'>> \in LegalMoves,
               \A b \in Actions \ {a} : Rests(b)
        PROVE  Promise!Next \/ eff' = eff
    <3>1. PICK p : p = EffectOf(a)'
      OBVIOUS
    <3>2. eff' = [eff EXCEPT ![a] = p]
      BY <2>3, <3>1 DEF Rests
    <3>3. eff[a] = EffectOf(a)
      OBVIOUS
    <3> HIDE DEF eff
    <3>4. <<eff[a], p>> \in LegalMoves
      BY <2>3, <3>1, <3>3
    <3>5. \/ eff[a] = "none" /\ p = "requested"
          \/ eff[a] = "requested" /\ p = "authorised"
          \/ eff[a] \in {"requested", "authorised"} /\ p = "closed"
          \/ eff[a] = "authorised" /\ p = "running"
          \/ eff[a] = "running" /\ p = "settled"
          \/ eff[a] = "running" /\ p = "uncertain"
      BY <3>4 DEF LegalMoves
    <3> QED
      BY <3>2, <3>5
      DEF eff, Promise!Next, Promise!Request, Promise!Authorise,
          Promise!Close, Promise!Run, Promise!Settle, Promise!Lose,
          Promise!Moves
  <2>4. CASE Stopped
    <3>1. PICK old, new : /\ old = [b \in Actions |-> EffectOf(b)]
                          /\ new = [b \in Actions |-> EffectOf(b)']
      OBVIOUS
    <3>2. eff = old /\ eff' = new
      BY <3>1
    <3>3. PICK hit : hit = {b \in Actions : new[b] # old[b]}
      OBVIOUS
    <3>4. \A b \in Actions :
            \/ new[b] = old[b]
            \/ old[b] \in {"requested", "authorised"} /\ new[b] = "closed"
            \/ old[b] = "running" /\ new[b] = "uncertain"
      BY <2>4, <3>1 DEF Stopped, Rests
    <3>5. new = [b \in Actions |->
                   IF b \in hit /\ old[b] \in {"requested", "authorised"}
                     THEN "closed"
                   ELSE IF b \in hit /\ old[b] = "running" THEN "uncertain"
                   ELSE old[b]]
      BY <3>1, <3>3, <3>4
    <3>6. Promise!Interrupt(hit)
      BY <3>2, <3>5 DEF Promise!Interrupt
    <3> QED
      BY <3>3, <3>6 DEF Promise!Next
  <2> QED
    BY <2>1, <2>2, <2>3, <2>4 DEF MovesOne, Progresses, Rests
<1> QED
  BY Inductive, <1>1, NoEffectsAtFirst, PTL DEF Spec, KeepsPromise, Promise!Spec

=============================================================================
