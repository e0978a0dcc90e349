------------------------ MODULE SessionLedgerProofs ------------------------
(***************************************************************************)
(* Proofs about SessionLedger for every set of clients, identifiers and    *)
(* inputs, every length of the ledger and every number of restarts.        *)
(***************************************************************************)
EXTENDS SessionLedger, SessionProjectorProofs, SequenceTheorems,
        FiniteSetTheorems, WellFoundedInduction, TLAPS

-----------------------------------------------------------------------------
(* Helpers.                                                                *)

(* Every set of naturals with a member has a smallest one, so the CHOOSEs  *)
(* of the recovery scan name a member of the set they look in.             *)
LEMMA SmallestNat ==
  ASSUME NEW S \in SUBSET Nat, S # {}
  PROVE  \E x \in S : \A y \in S : x <= y
<1> DEFINE R == {ss \in Nat \X Nat : ss[1] < ss[2]}
<1>1. IsWellFoundedOn(R, Nat)
  BY NatLessThanWellFounded DEF OpToRel
<1> HIDE DEF R
<1>2. PICK x \in S : \A y \in S : ~(<<y, x>> \in R)
  BY <1>1, WFMin
<1>3. ASSUME NEW y \in S PROVE x <= y
  <2>1. y \in Nat /\ x \in Nat /\ <<y, x>> \notin R
    BY <1>2
  <2> QED BY <2>1 DEF R
<1> QED BY <1>3

-----------------------------------------------------------------------------
(* The typing invariant.  TypeOK is not inductive on its own: a stored     *)
(* node is typed only because its parent exists and the append examined    *)
(* the entry behind that parent.                                           *)

Tree ==
  \A n \in DOMAIN entries :
    /\ n \in Path(n)
    /\ Path(n) \subseteq 1..n
    /\ entries[n].parent \in 0..(n - 1)

InFlight(c) ==
  leaf # 0 =>
    /\ client[c].pc = "called" => client[c].parent \in 0..Len(entries)
    /\ client[c].pc \in {"sessionRead", "listed"} =>
         ParentOf(client[c]) \in 1..Len(entries)
    /\ client[c].pc = "listed" =>
         /\ client[c].entry \in Entry
         /\ Accepts(entries[ParentOf(client[c])].proj, client[c].entry)

TypeInv == TypeOK /\ Tree /\ \A c \in Clients : InFlight(c)

(* Recovery plans a well-formed entry behind the root, the leaf or an      *)
(* entry of its path.                                                      *)
LEMMA PlanType ==
  ASSUME TypeOK, Tree, NEW n \in DOMAIN entries
  PROVE  /\ RecoveryPlan(n).entry \in Entry \cup {None}
         /\ RecoveryPlan(n).parent \in 0..Len(entries)
<1> DEFINE p == entries[n].proj
<1>1. /\ n \in 1..Len(entries) /\ Len(entries) \in Nat
      /\ entries[n] \in Node /\ p \in Projection
  <2>1. n \in 1..Len(entries) /\ Len(entries) \in Nat /\ entries[n] \in Node
    BY DEF TypeOK
  <2> QED BY <2>1 DEF Node
<1>2. /\ InterruptEntry \in Entry
      /\ \A why \in Reapprovals : ReapprovalEntry(p, why) \in Entry
      /\ \A s \in {"Done", "Failed", "Cancelled", "LimitReached"} :
           EndedBy(s) \in Entry
  BY <1>1, RecoveryEntries
<1>5. RecoveryEntry(p, entries[n].entry.runtimeStatus) \in Entry \cup {None}
  <2> DEFINE s == entries[n].entry.runtimeStatus
  <2> SUFFICES RecoveryEntry(p, s) \in Entry \cup {None}
    OBVIOUS
  <2> HIDE DEF p, s
  <2>1. /\ ReapprovalEntry(p, "patch_reapproval") \in Entry
        /\ ReapprovalEntry(p, "command_reapproval") \in Entry
    BY <1>2 DEF Reapprovals
  <2> QED BY <1>2, <2>1 DEF RecoveryEntry
<1>6. ASSUME NEW m PROVE MaskingParent(n, m) \in 0..Len(entries)
  <2>1. CASE MaskingEnds(n, m) = {}
    BY <1>1, <2>1 DEF MaskingParent
  <2>2. CASE MaskingEnds(n, m) # {}
    <3> DEFINE first == CHOOSE k \in MaskingEnds(n, m) :
                          \A j \in MaskingEnds(n, m) : k <= j
    <3>1. MaskingEnds(n, m) \subseteq 1..n
      BY DEF MaskingEnds, Between, Tree
    <3>2. first \in 1..n
      BY <1>1, <2>2, <3>1, SmallestNat
    <3>3. entries[first].parent \in 0..(first - 1)
      BY <1>1, <3>2 DEF Tree
    <3>4. MaskingParent(n, m) = entries[first].parent
      BY <2>2 DEF MaskingParent
    <3> HIDE DEF first
    <3>5. entries[first].parent \in 0..n
      BY <1>1, <3>2, <3>3
    <3> QED BY <1>1, <3>4, <3>5
  <2> QED BY <2>1, <2>2
<1> HIDE DEF p
<1>7. CASE UnmatchedStarts(n) = {}
  BY <1>1, <1>5, <1>7 DEF RecoveryPlan, p
<1>8. CASE UnmatchedStarts(n) # {}
  <2> DEFINE m == FirstUnmatched(n)
  <2>1. MaskingParent(n, m) \in 0..Len(entries)
    BY <1>6
  <2>2. RecoveryPlan(n)
          = IF MaskingParent(n, m) = 0 /\ InterruptedSince(n, m)
              THEN [entry |-> None, parent |-> 0]
              ELSE [entry |-> InterruptEntry, parent |-> MaskingParent(n, m)]
    BY <1>8 DEF RecoveryPlan
  <2> HIDE DEF m
  <2> QED BY <1>1, <1>2, <2>1, <2>2
<1> QED BY <1>7, <1>8

(* What Store adds: one node behind a stored one, with an entry accepted   *)
(* there; the nodes stored before stay as they are.                        *)
LEMMA StoredNode ==
  ASSUME TypeInv, NEW c \in Clients, Store(c)
  PROVE  LET n == Len(entries) + 1
             q == ParentOf(client[c])
             e == client[c].entry
         IN /\ Len(entries) \in Nat
            /\ DOMAIN entries = 1..Len(entries) /\ DOMAIN entries' = 1..n
            /\ q \in DOMAIN entries
            /\ e \in Entry /\ Accepts(entries[q].proj, e)
            /\ entries[q].proj \in Projection
            /\ entries' \in Seq(Node)
            /\ \A i \in DOMAIN entries : entries'[i] = entries[i]
            /\ entries'[n].parent = q
            /\ entries'[n].path = entries[q].path \cup {n}
            /\ entries'[n].entry = e
            /\ entries'[n].proj = After(entries[q].proj, e)
<1> DEFINE n == Len(entries) + 1
           q == ParentOf(client[c])
           e == client[c].entry
           node == NewNode(client[c])
<1>1. /\ entries \in Seq(Node) /\ Len(entries) \in Nat
      /\ DOMAIN entries = 1..Len(entries)
  BY DEF TypeInv, TypeOK
<1>2. q \in DOMAIN entries /\ e \in Entry /\ Accepts(entries[q].proj, e)
  BY <1>1 DEF TypeInv, InFlight, Store
<1>3. entries[q] \in Node
  BY <1>1, <1>2
<1>4. entries[q].proj \in Projection /\ entries[q].path \in SUBSET Nat
      /\ q \in Nat
  BY <1>1, <1>2, <1>3 DEF Node
<1>5. After(entries[q].proj, e) \in Projection
  BY <1>2, <1>4, AfterType
<1>6. client[c].seen + 1 = n
  BY DEF Store
<1>7. node = [parent |-> q, path |-> entries[q].path \cup {n}, entry |-> e,
              proj |-> After(entries[q].proj, e)]
  BY <1>6 DEF NewNode
<1>8. entries' = Append(entries, node)
  BY DEF Store
<1> HIDE DEF q, e, node
<1>9. n \in Nat
  BY <1>1
<1> HIDE DEF n
<1>10. node \in Node
  BY <1>2, <1>4, <1>5, <1>7, <1>9 DEF Node
<1> USE DEF n
<1>11. /\ entries' \in Seq(Node) /\ Len(entries') = n
       /\ \A i \in DOMAIN entries : entries'[i] = entries[i]
       /\ entries'[n] = node
  BY <1>1, <1>8, <1>10, AppendProperties
<1>12. DOMAIN entries' = 1..n
  BY <1>11
<1> QED BY <1>1, <1>2, <1>4, <1>7, <1>11, <1>12 DEF q, e

-----------------------------------------------------------------------------
(* The typing invariant is inductive.                                      *)

LEMMA InitTypeInv == Init => TypeInv
<1> SUFFICES ASSUME Init PROVE TypeInv
  OBVIOUS
<1>1. CreatedNode \in Node
  <2>1. FirstProjection \in Projection
    BY DEF Projection, FirstProjection, SessionStatuses
  <2>2. CreatedEntry \in Entry
    BY DEF CreatedEntry, BlankEntry, Entry, EntryRecord, EntryTypes
  <2> QED BY <2>1, <2>2 DEF CreatedNode, Node
<1>2. entries \in Seq(Node) /\ leaf \in 0..Len(entries)
  BY <1>1 DEF Init
<1>3. Idle \in Client
  BY DEF Idle, Client
<1>4. TypeOK
  BY <1>2, <1>3, BoundsAreNat DEF Init, TypeOK, SessionStatuses
<1>5. Tree
  BY DEF Init, Tree, Path, CreatedNode
<1>6. \A c \in Clients : InFlight(c)
  BY DEF Init, InFlight, Idle
<1> QED BY <1>4, <1>5, <1>6 DEF TypeInv

(* A step that leaves the ledger alone and moves one client.               *)
LEMMA ClientStep ==
  ASSUME TypeInv, NEW c \in Clients, NEW cl \in Client,
         client' = [client EXCEPT ![c] = cl], UNCHANGED <<entries, leaf>>,
         InFlight(c)'
  PROVE  /\ client' \in [Clients -> Client]
         /\ Tree'
         /\ \A d \in Clients : InFlight(d)'
<1>1. client' \in [Clients -> Client]
  BY DEF TypeInv, TypeOK
<1>2. Tree'
  BY DEF TypeInv, Tree, Path
<1>3. ASSUME NEW d \in Clients, d # c PROVE InFlight(d)'
  <2>1. client'[d] = client[d]
    BY <1>3 DEF TypeInv, TypeOK
  <2> QED BY <2>1 DEF TypeInv, InFlight, ParentOf
<1> QED BY <1>1, <1>2, <1>3

LEMMA NextTypeInv == TypeInv /\ [Next]_vars => TypeInv'
<1> SUFFICES ASSUME TypeInv, [Next]_vars PROVE TypeInv'
  OBVIOUS
<1> USE DEF vars
<1>0. /\ TypeOK /\ Tree /\ \A d \in Clients : InFlight(d)
      /\ client \in [Clients -> Client] /\ Len(entries) \in Nat
      /\ leaf \in Nat /\ Idle \in Client
  BY DEF TypeInv, TypeOK, Idle, Client
<1>1. ASSUME NEW c \in Clients, Call(c) PROVE TypeInv'
  <2> DEFINE cl == [Idle EXCEPT !.pc = "sessionRead", !.leaf = leaf]
  <2>1. cl \in Client /\ leaf \in 1..Len(entries)
    <3>1. leaf \in 1..Len(entries)
      BY <1>0, <1>1 DEF Call, TypeOK
    <3> QED BY <1>0, <3>1 DEF Client
  <2>2. client' = [client EXCEPT ![c] = cl] /\ UNCHANGED <<entries, leaf>>
    BY <1>1 DEF Call
  <2>3. client'[c] = cl
    BY <1>0, <2>2
  <2>4. ParentOf(cl) = leaf /\ cl.pc = "sessionRead"
    BY DEF ParentOf, Idle
  <2> HIDE DEF cl
  <2>5. InFlight(c)'
    BY <2>1, <2>2, <2>3, <2>4 DEF InFlight, ParentOf
  <2> QED BY <1>0, <1>1, <2>1, <2>2, <2>5, ClientStep DEF Call, TypeInv, TypeOK
<1>2. ASSUME NEW c \in Clients, ReadSession(c) PROVE TypeInv'
  <2> DEFINE cl == [client[c] EXCEPT !.pc = "sessionRead", !.leaf = leaf]
  <2>1. cl \in Client
    BY <1>0 DEF Client
  <2>2. client' = [client EXCEPT ![c] = cl] /\ UNCHANGED <<entries, leaf>>
    BY <1>0, <1>2 DEF ReadSession, Client
  <2>3. client'[c] = cl
    BY <1>0, <2>2
  <2>4. /\ ParentOf(cl) = IF client[c].parent = 0 THEN leaf
                                                  ELSE client[c].parent
        /\ cl.pc = "sessionRead"
    BY <1>0 DEF ParentOf, Client
  <2>5. leaf # 0 => client[c].parent \in 0..Len(entries)
                      /\ leaf \in 1..Len(entries)
    BY <1>0, <1>2 DEF ReadSession, InFlight, TypeOK
  <2> HIDE DEF cl
  <2>6. InFlight(c)'
    BY <2>1, <2>2, <2>3, <2>4, <2>5 DEF InFlight, ParentOf
  <2> QED
    BY <1>0, <1>2, <2>1, <2>2, <2>6, ClientStep
    DEF ReadSession, TypeInv, TypeOK
<1>3. ASSUME NEW c \in Clients, NEW e \in Candidates(c), ListEntries(c, e)
      PROVE  TypeInv'
  <2> DEFINE cl == [client[c] EXCEPT !.pc = "listed", !.entry = e,
                                     !.seen = Len(entries)]
  <2>1. e \in Entry
    BY <1>0, <1>3, InputsAreEntries DEF Candidates, Client
  <2>2. cl \in Client
    BY <1>0, <2>1 DEF Client
  <2>3. client' = [client EXCEPT ![c] = cl] /\ UNCHANGED <<entries, leaf>>
    BY <1>0, <1>3 DEF ListEntries, Client
  <2>4. client'[c] = cl
    BY <1>0, <2>3
  <2>5. ParentOf(cl) = ParentOf(client[c]) /\ cl.pc = "listed" /\ cl.entry = e
    BY <1>0 DEF ParentOf, Client
  <2>6. /\ leaf # 0 => ParentOf(client[c]) \in 1..Len(entries)
        /\ Accepts(entries[ParentOf(client[c])].proj, e)
    BY <1>0, <1>3 DEF ListEntries, InFlight
  <2> HIDE DEF cl
  <2>7. InFlight(c)'
    BY <2>1, <2>3, <2>4, <2>5, <2>6 DEF InFlight, ParentOf
  <2> QED
    BY <1>0, <1>3, <2>2, <2>3, <2>7, ClientStep
    DEF ListEntries, TypeInv, TypeOK
<1>4. ASSUME NEW c \in Clients, Reject(c) \/ Conflict(c) PROVE TypeInv'
  <2>1. client' = [client EXCEPT ![c] = Idle] /\ UNCHANGED <<entries, leaf>>
    BY <1>4 DEF Reject, Conflict
  <2>2. InFlight(c)'
    BY <1>0, <2>1 DEF InFlight, Idle
  <2> QED
    BY <1>0, <1>4, <2>1, <2>2, ClientStep
    DEF Reject, Conflict, TypeInv, TypeOK
<1>5. ASSUME NEW c \in Clients, Store(c) PROVE TypeInv'
  <2> DEFINE n == Len(entries) + 1
             q == ParentOf(client[c])
             e == client[c].entry
  <2>1. /\ DOMAIN entries = 1..Len(entries) /\ DOMAIN entries' = 1..n
        /\ q \in DOMAIN entries
        /\ e \in Entry /\ Accepts(entries[q].proj, e)
        /\ entries[q].proj \in Projection
        /\ entries' \in Seq(Node)
        /\ \A i \in DOMAIN entries : entries'[i] = entries[i]
        /\ entries'[n].parent = q
        /\ entries'[n].path = entries[q].path \cup {n}
    BY <1>5, StoredNode
  <2>2. /\ leaf' = n
        /\ client' = [client EXCEPT ![c] = Idle]
        /\ mode' = "live" /\ UNCHANGED crashes
        /\ client'[c] = Idle
        /\ client' \in [Clients -> Client]
    BY <1>0, <1>5 DEF Store
  <2>3. cached' \in SessionStatuses
    <3>1. After(entries[q].proj, e).status \in SessionStatuses
      BY <2>1, AfterType DEF Projection
    <3>2. cached' = CachedStatus(e, After(entries[q].proj, e))
      BY <1>5 DEF Store, NewNode
    <3> HIDE DEF q, e
    <3> QED BY <3>1, <3>2 DEF CachedStatus, SessionStatuses
  <2> HIDE DEF q, e
  <2>4. TypeOK'
    <3>1. Len(entries') = n
      BY <1>0, <2>1
    <3> QED BY <1>0, <2>1, <2>2, <2>3, <3>1 DEF TypeOK
  <2>5. Tree'
    <3> SUFFICES ASSUME NEW i \in 1..n
                 PROVE  /\ i \in entries'[i].path
                        /\ entries'[i].path \subseteq 1..i
                        /\ entries'[i].parent \in 0..(i - 1)
      BY <2>1 DEF Tree, Path
    <3>1. CASE i \in 1..Len(entries)
      BY <1>0, <2>1, <3>1 DEF Tree, Path
    <3>2. CASE i = n
      <4>1. entries[q].path \subseteq 1..q /\ q \in 1..Len(entries)
        BY <1>0, <2>1 DEF Tree, Path
      <4> QED BY <1>0, <2>1, <3>2, <4>1
    <3> QED BY <1>0, <3>1, <3>2
  <2>6. ASSUME NEW d \in Clients PROVE InFlight(d)'
    <3>1. CASE d = c
      BY <2>2, <3>1 DEF InFlight, Idle
    <3>2. CASE d # c
      <4>1. client'[d] = client[d] /\ leaf # 0
        BY <1>0, <1>5, <2>2, <3>2 DEF Store
      <4>2. Len(entries') = Len(entries) + 1
        BY <1>0, <2>1
      <4> QED BY <1>0, <2>1, <4>1, <4>2 DEF InFlight, ParentOf
    <3> QED BY <3>1, <3>2
  <2> QED BY <2>4, <2>5, <2>6 DEF TypeInv
<1>6. ASSUME NEW c \in Clients, Recover(c) PROVE TypeInv'
  <2> DEFINE plan == RecoveryPlan(leaf)
             cl == [Idle EXCEPT !.pc = "called", !.entry = plan.entry,
                                !.parent = plan.parent]
  <2>1. leaf \in DOMAIN entries
    BY <1>0, <1>6 DEF Recover, TypeOK
  <2>2. plan.entry \in Entry \cup {None} /\ plan.parent \in 0..Len(entries)
    BY <1>0, <2>1, PlanType
  <2>3. client' = [client EXCEPT ![c] = cl] /\ UNCHANGED <<entries, leaf>>
    BY <1>6 DEF Recover
  <2> HIDE DEF plan
  <2>4. cl \in Client /\ cl.pc = "called" /\ cl.parent = plan.parent
    <3>1. plan.parent \in Nat
      BY <1>0, <2>2
    <3> QED BY <1>0, <2>2, <3>1 DEF Client
  <2>5. client'[c] = cl
    BY <1>0, <2>3
  <2> HIDE DEF cl
  <2>6. InFlight(c)'
    BY <2>2, <2>3, <2>4, <2>5 DEF InFlight
  <2> QED
    BY <1>0, <1>6, <2>3, <2>4, <2>6, ClientStep DEF Recover, TypeInv, TypeOK
<1>7. CASE Crash
  <2>1. client' = [c \in Clients |-> Idle] /\ UNCHANGED <<entries, leaf, cached>>
    BY <1>7 DEF Crash
  <2>2. \A d \in Clients : InFlight(d)'
    BY <2>1 DEF InFlight, Idle
  <2>3. crashes' \in 0..MaxCrashes
    BY <1>0, <1>7, BoundsAreNat DEF Crash, TypeOK
  <2> QED
    BY <1>0, <1>7, <2>1, <2>2, <2>3 DEF Crash, TypeInv, TypeOK, Tree, Path
<1>8. CASE RecoverNothing
  BY <1>0, <1>8
  DEF RecoverNothing, TypeInv, TypeOK, Tree, Path, InFlight, ParentOf
<1>9. CASE DeleteSession
  <2>1. entries' = << >> /\ leaf' = 0 /\ UNCHANGED <<cached, client, crashes, mode>>
    BY <1>9 DEF DeleteSession
  <2>2. TypeOK'
    BY <1>0, <2>1 DEF TypeOK
  <2> QED BY <2>1, <2>2 DEF TypeInv, Tree, InFlight
<1>10. CASE UNCHANGED vars
  BY <1>0, <1>10 DEF TypeInv, TypeOK, Tree, Path, InFlight, ParentOf
<1> QED
  BY <1>1, <1>2, <1>3, <1>4, <1>5, <1>6, <1>7, <1>8, <1>9, <1>10 DEF Next

(* Every stored node, the leaf, the cached status and every append in      *)
(* flight stay well formed, whatever callers ask to append and whenever    *)
(* the application restarts.                                               *)
THEOREM TypeCorrect == Spec => []TypeOK
<1>1. Spec => []TypeInv
  BY InitTypeInv, NextTypeInv, PTL DEF Spec
<1>2. TypeInv => TypeOK
  BY DEF TypeInv
<1> QED BY <1>1, <1>2, PTL

-----------------------------------------------------------------------------
(* Authority.  What a projection says of its pending action is grounded in *)
(* entries of its path: an approval in force in an APPROVED entry nothing  *)
(* has withdrawn since, a recorded allow in a DECIDED entry.               *)

Grants(m, pending) ==
  /\ entries[m].entry.type = "APPROVED"
  /\ entries[m].entry.action = pending.action
  /\ entries[m].entry.approval = pending.approval
  /\ entries[m].entry.generation = pending.generation

Allows(m, pending) ==
  /\ entries[m].entry.type = "DECIDED"
  /\ entries[m].entry.verdict = "allow"
  /\ entries[m].entry.action = pending.action
  /\ entries[m].entry.decision = pending.decision

ApprovalGrounded(n) ==
  LET pending == entries[n].proj.pending
  IN pending # None /\ pending.approved =>
       \E m \in Path(n) :
         Grants(m, pending) /\ \A k \in Between(n, m) : ~Withdraws(k)

AllowGrounded(n) ==
  LET pending == entries[n].proj.pending
  IN pending # None /\ pending.verdict = "allow" =>
       \E m \in Path(n) :
         Allows(m, pending) /\ \A k \in Between(n, m) : ~ReopensGeneration(k)

StartGrounded(n) ==
  entries[n].entry.type = "STARTED" =>
    /\ \E m \in Path(n) :
         ApprovalFor(m, n) /\ \A k \in Between(n, m) : ~Withdraws(k)
    /\ entries[n].entry.kind # "patch" =>
         \E m \in Path(n) :
           AllowFor(m, n) /\ \A k \in Between(n, m) : ~ReopensGeneration(k)

AuthorityInv ==
  \A n \in DOMAIN entries :
    ApprovalGrounded(n) /\ AllowGrounded(n) /\ StartGrounded(n)

(* An approval in force behind an accepted entry was in force before it,   *)
(* with the same action, id and generation, unless the entry gives it; and *)
(* the entry withdraws nothing.                                            *)
LEMMA AfterApproved ==
  ASSUME NEW p \in Projection, NEW e \in Entry, Accepts(p, e),
         After(p, e).pending # None, After(p, e).pending.approved
  PROVE  LET old == p.pending
             new == After(p, e).pending
         IN /\ e.type \notin {"SESSION_INTERRUPTED", "RECOVERY_REQUIRED"}
            /\ \/ /\ e.type = "APPROVED" /\ e.action = new.action
                  /\ e.approval = new.approval
                  /\ e.generation = new.generation
               \/ /\ old # None /\ old.approved /\ new.action = old.action
                  /\ new.approval = old.approval
                  /\ new.generation = old.generation
<1> DEFINE q == p.pending
<1>1. q # None => q \in Pending
  BY DEF Projection
<1>2. CASE e.type = "APPROVED"
  <2>1. After(p, e).pending = [q EXCEPT !.approved = TRUE,
                                        !.approval = e.approval,
                                        !.recoveryRequired = FALSE]
    BY <1>2 DEF After, AfterApproval, Projection
  <2>2. q \in Pending /\ q.action = e.action /\ e.generation = q.generation
    BY <1>1, <1>2 DEF Accepts, AcceptsApproval, Targets
  <2> HIDE DEF q
  <2> QED BY <1>2, <2>1, <2>2 DEF Pending
<1>3. CASE e.type = "DECIDED"
  <2>1. CASE e.verdict = "allow"
    <3>1. After(p, e).pending = [q EXCEPT !.verdict = e.verdict,
                                          !.decision = e.decision]
      BY <1>3, <2>1 DEF After, AfterDecision, Projection
    <3>2. q \in Pending /\ q # None
      BY <1>1, <1>3 DEF Accepts, AcceptsDecision, Targets
    <3> QED BY <1>3, <3>1, <3>2 DEF Pending
  <2>2. CASE e.verdict # "allow"
    BY <1>3, <2>2 DEF After, AfterDecision, Projection
  <2> QED BY <2>1, <2>2
<1>4. CASE e.type = "STARTED"
  <2>1. After(p, e).pending = [q EXCEPT !.started = TRUE,
                                        !.receipt = e.receipt]
    BY <1>4 DEF After, Projection
  <2>2. q \in Pending /\ q # None
    BY <1>1, <1>4 DEF Accepts, AcceptsStart, Targets
  <2> QED BY <1>4, <2>1, <2>2 DEF Pending
<1>5. CASE e.type \in {"SESSION_INTERRUPTED", "RECOVERY_REQUIRED"}
  <2>1. \/ After(p, e).pending = None
        \/ q # None /\ After(p, e).pending \in {Withdrawn(q), Reopened(q)}
    BY <1>5 DEF After, AfterRecoveryRequired, Projection
  <2>2. q # None => ~Withdrawn(q).approved /\ ~Reopened(q).approved
    BY <1>1 DEF Pending, Withdrawn, Reopened
  <2> QED BY <2>1, <2>2
<1>6. CASE e.type = "PROPOSED"
  BY <1>6 DEF After, Proposed, Projection
<1>7. CASE e.type \in {"DENIED", "COMPLETED", "ACTION_FAILED", "ENDED"}
  BY <1>7 DEF After, Projection
<1>8. CASE e.type \in {"RECOVERY_COMPLETED", "SESSION_CREATED", "NOTE"}
  BY <1>8 DEF After, Projection
<1> QED
  BY <1>2, <1>3, <1>4, <1>5, <1>6, <1>7, <1>8 DEF Entry, EntryRecord, EntryTypes

(* Likewise for a recorded allow; the entry opens no new generation.       *)
LEMMA AfterAllowed ==
  ASSUME NEW p \in Projection, NEW e \in Entry, Accepts(p, e),
         After(p, e).pending # None, After(p, e).pending.verdict = "allow"
  PROVE  LET old == p.pending
             new == After(p, e).pending
         IN /\ ~(e.type = "RECOVERY_REQUIRED" /\ e.reason # "interrupted")
            /\ \/ /\ e.type = "DECIDED" /\ e.verdict = "allow"
                  /\ e.action = new.action /\ e.decision = new.decision
               \/ /\ old # None /\ old.verdict = "allow"
                  /\ new.action = old.action /\ new.decision = old.decision
<1> DEFINE q == p.pending
<1>1. q # None => q \in Pending
  BY DEF Projection
<1>2. CASE e.type = "APPROVED"
  <2>1. After(p, e).pending = [q EXCEPT !.approved = TRUE,
                                        !.approval = e.approval,
                                        !.recoveryRequired = FALSE]
    BY <1>2 DEF After, AfterApproval, Projection
  <2>2. q \in Pending /\ q # None
    BY <1>1, <1>2 DEF Accepts, AcceptsApproval, Targets
  <2> QED BY <1>2, <2>1, <2>2 DEF Pending
<1>3. CASE e.type = "DECIDED"
  <2>1. CASE e.verdict = "allow"
    <3>1. After(p, e).pending = [q EXCEPT !.verdict = e.verdict,
                                          !.decision = e.decision]
      BY <1>3, <2>1 DEF After, AfterDecision, Projection
    <3>2. q \in Pending /\ q.action = e.action
      BY <1>1, <1>3 DEF Accepts, AcceptsDecision, Targets
    <3> HIDE DEF q
    <3> QED BY <1>3, <2>1, <3>1, <3>2 DEF Pending
  <2>2. CASE e.verdict # "allow"
    BY <1>3, <2>2 DEF After, AfterDecision, Projection
  <2> QED BY <2>1, <2>2
<1>4. CASE e.type = "STARTED"
  <2>1. After(p, e).pending = [q EXCEPT !.started = TRUE,
                                        !.receipt = e.receipt]
    BY <1>4 DEF After, Projection
  <2>2. q \in Pending /\ q # None
    BY <1>1, <1>4 DEF Accepts, AcceptsStart, Targets
  <2> QED BY <1>4, <2>1, <2>2 DEF Pending
<1>5. CASE e.type = "SESSION_INTERRUPTED"
  <2>1. q # None /\ After(p, e).pending = Withdrawn(q)
    BY <1>5 DEF After, Projection
  <2> QED BY <1>1, <1>5, <2>1 DEF Pending, Withdrawn
<1>6. CASE e.type = "RECOVERY_REQUIRED"
  <2>1. q # None
    BY <1>6 DEF After, AfterRecoveryRequired, Projection
  <2>2. CASE e.reason = "interrupted"
    <3>1. After(p, e).pending = Withdrawn(q)
      BY <1>6, <2>1, <2>2 DEF After, AfterRecoveryRequired, Projection
    <3> QED BY <1>1, <1>6, <2>1, <2>2, <3>1 DEF Pending, Withdrawn
  <2>3. CASE e.reason # "interrupted"
    <3>1. After(p, e).pending = Reopened(q)
      BY <1>6, <2>1, <2>3 DEF After, AfterRecoveryRequired, Projection
    <3>2. Reopened(q).verdict = None
      BY <1>1, <2>1 DEF Pending, Withdrawn, Reopened
    <3> QED BY <3>1, <3>2, NoneIsAbsent DEF Verdicts
  <2> QED BY <2>2, <2>3
<1>7. CASE e.type = "PROPOSED"
  BY <1>7, NoneIsAbsent DEF After, Proposed, Projection, Verdicts
<1>8. CASE e.type \in {"DENIED", "COMPLETED", "ACTION_FAILED", "ENDED"}
  BY <1>8 DEF After, Projection
<1>9. CASE e.type \in {"RECOVERY_COMPLETED", "SESSION_CREATED", "NOTE"}
  BY <1>9 DEF After, Projection
<1>10. e.type \in EntryTypes
  BY DEF Entry, EntryRecord
<1> QED
  BY <1>2, <1>3, <1>4, <1>5, <1>6, <1>7, <1>8, <1>9, <1>10 DEF EntryTypes

(* Only Store and DeleteSession touch the ledger.                          *)
LEMMA LedgerSteps ==
  ASSUME [Next]_vars
  PROVE  \/ UNCHANGED <<entries, leaf>>
         \/ \E c \in Clients : Store(c)
         \/ entries' = << >> /\ leaf' = 0
<1>1. CASE Next
  BY <1>1 DEF Next, Call, ReadSession, ListEntries, Reject, Conflict, Crash,
              Recover, RecoverNothing, DeleteSession
<1>2. CASE UNCHANGED vars
  BY <1>2 DEF vars
<1> QED BY <1>1, <1>2

(* The step of an accepted append: node n with entry e behind node q,      *)
(* whose projection is p.                                                  *)
Extends(n, q, e, p) ==
  /\ DOMAIN entries = 1..(n - 1) /\ DOMAIN entries' = 1..n
  /\ p = entries[q].proj /\ Accepts(p, e)
  /\ \A i \in 1..(n - 1) : entries'[i] = entries[i]
  /\ entries'[n].path = entries[q].path \cup {n}
  /\ entries'[n].entry = e
  /\ entries'[n].proj = After(p, e)

LEMMA StoreExtends ==
  ASSUME TypeInv, NEW c \in Clients, Store(c)
  PROVE  \E n \in Nat \ {0} : \E q \in 1..(n - 1) :
           \E e \in Entry, p \in Projection : Extends(n, q, e, p)
<1> DEFINE n == Len(entries) + 1
           q == ParentOf(client[c])
           e == client[c].entry
           p == entries[q].proj
<1>1. Extends(n, q, e, p) /\ q \in 1..(n - 1) /\ e \in Entry
        /\ p \in Projection /\ n \in Nat \ {0}
  BY StoredNode DEF Extends
<1> HIDE DEF n, q, e, p
<1> QED BY <1>1

(* What an extension leaves alone, and what becomes of the new path.       *)
LEMMA ExtendsPaths ==
  ASSUME TypeInv, NEW n \in Nat \ {0}, NEW q \in 1..(n - 1), NEW e, NEW p,
         Extends(n, q, e, p)
  PROVE  /\ \A i \in 1..(n - 1) :
              /\ entries'[i] = entries[i] /\ Path(i)' = Path(i)
              /\ \A m \in Path(i) : m \in 1..i /\ entries'[m] = entries[m]
              /\ \A m : Between(i, m)' = Between(i, m)
              /\ \A m : Between(i, m) \subseteq Path(i)
         /\ Path(n)' = Path(q) \cup {n}
         /\ n \notin Path(q)
         /\ \A m \in Path(q) : Between(n, m)' = Between(q, m) \cup {n}
         /\ Between(n, n)' = {}
<1>1. \A i \in 1..(n - 1) : Path(i) \subseteq 1..i
  BY DEF Extends, TypeInv, Tree
<1>2. ASSUME NEW i \in 1..(n - 1)
      PROVE  /\ entries'[i] = entries[i] /\ Path(i)' = Path(i)
             /\ \A m \in Path(i) : m \in 1..i /\ entries'[m] = entries[m]
             /\ \A m : Between(i, m)' = Between(i, m)
             /\ \A m : Between(i, m) \subseteq Path(i)
  <2>1. entries'[i] = entries[i] /\ Path(i)' = Path(i)
    BY DEF Extends, Path
  <2>2. \A m \in Path(i) : m \in 1..i /\ entries'[m] = entries[m]
    BY <1>1 DEF Extends
  <2> QED BY <2>1, <2>2 DEF Between
<1>3. Path(n)' = Path(q) \cup {n}
  BY DEF Extends, Path
<1>4. Path(q) \subseteq 1..(n - 1)
  BY <1>1
<1>5. \A m : Between(n, m)' = {k \in Path(q) \cup {n} : k > m}
  BY <1>3 DEF Between
<1>6. \A m \in Path(q) : Between(n, m)' = Between(q, m) \cup {n}
  BY <1>4, <1>5 DEF Between
<1>7. Between(n, n)' = {}
  BY <1>4, <1>5
<1> QED BY <1>2, <1>3, <1>4, <1>6, <1>7

LEMMA ExtendsAuthority ==
  ASSUME TypeInv, AuthorityInv,
         NEW n \in Nat \ {0}, NEW q \in 1..(n - 1),
         NEW e \in Entry, NEW p \in Projection, Extends(n, q, e, p)
  PROVE  AuthorityInv'
<1>1. /\ DOMAIN entries = 1..(n - 1) /\ DOMAIN entries' = 1..n
      /\ p = entries[q].proj /\ Accepts(p, e)
      /\ entries'[n].entry = e
      /\ entries'[n].proj = After(p, e)
  BY DEF Extends
<1>3. ASSUME NEW i \in 1..(n - 1)
      PROVE  (ApprovalGrounded(i) /\ AllowGrounded(i) /\ StartGrounded(i))'
  <2>1. ApprovalGrounded(i) /\ AllowGrounded(i) /\ StartGrounded(i)
    BY <1>1 DEF AuthorityInv
  <2>2. /\ entries'[i] = entries[i] /\ Path(i)' = Path(i)
        /\ \A m \in Path(i) : entries'[m] = entries[m]
        /\ \A m : Between(i, m)' = Between(i, m)
        /\ \A m : Between(i, m) \subseteq Path(i)
    BY ExtendsPaths
  <2>3. ApprovalGrounded(i)'
    BY <2>1, <2>2 DEF ApprovalGrounded, Grants, Withdraws
  <2>4. AllowGrounded(i)'
    BY <2>1, <2>2 DEF AllowGrounded, Allows, ReopensGeneration
  <2>5. StartGrounded(i)'
    BY <2>1, <2>2
    DEF StartGrounded, ApprovalFor, AllowFor, Withdraws, ReopensGeneration
  <2> QED BY <2>3, <2>4, <2>5
<1>4. /\ Path(n)' = Path(q) \cup {n}
      /\ \A m \in Path(q) : entries'[m] = entries[m]
      /\ \A m \in Path(q) : Between(n, m)' = Between(q, m) \cup {n}
      /\ Between(n, n)' = {}
      /\ \A m : Between(q, m) \subseteq Path(q)
  BY ExtendsPaths
<1>5. ApprovalGrounded(q) /\ AllowGrounded(q)
  BY <1>1 DEF AuthorityInv
<1>6. ApprovalGrounded(n)'
  <2> SUFFICES ASSUME NEW new, new = After(p, e).pending,
                      new # None, new.approved
               PROVE  \E m \in Path(n)' :
                        Grants(m, new)' /\ \A k \in Between(n, m)' : ~Withdraws(k)'
    BY <1>1 DEF ApprovalGrounded, Grants
  <2>1. /\ e.type \notin {"SESSION_INTERRUPTED", "RECOVERY_REQUIRED"}
        /\ \/ /\ e.type = "APPROVED" /\ e.action = new.action
              /\ e.approval = new.approval
              /\ e.generation = new.generation
           \/ /\ p.pending # None /\ p.pending.approved
              /\ new.action = p.pending.action
              /\ new.approval = p.pending.approval
              /\ new.generation = p.pending.generation
    BY <1>1, AfterApproved
  <2>2. CASE e.type = "APPROVED" /\ e.action = new.action
             /\ e.approval = new.approval /\ e.generation = new.generation
    BY <1>1, <1>4, <2>2 DEF Grants
  <2>3. CASE /\ p.pending # None /\ p.pending.approved
             /\ new.action = p.pending.action
             /\ new.approval = p.pending.approval
             /\ new.generation = p.pending.generation
    <3>1. PICK m \in Path(q) : /\ Grants(m, p.pending)
                               /\ \A k \in Between(q, m) : ~Withdraws(k)
      BY <1>1, <1>5, <2>3 DEF ApprovalGrounded
    <3>2. Grants(m, new)'
      BY <1>4, <2>3, <3>1 DEF Grants
    <3>3. ~Withdraws(n)'
      BY <1>1, <2>1 DEF Withdraws
    <3>4. \A k \in Between(q, m) : ~Withdraws(k)'
      BY <1>4, <3>1 DEF Withdraws
    <3> QED BY <1>4, <3>1, <3>2, <3>3, <3>4
  <2> QED BY <2>1, <2>2, <2>3
<1>7. AllowGrounded(n)'
  <2> SUFFICES ASSUME NEW new, new = After(p, e).pending,
                      new # None, new.verdict = "allow"
               PROVE  \E m \in Path(n)' :
                        /\ Allows(m, new)'
                        /\ \A k \in Between(n, m)' : ~ReopensGeneration(k)'
    BY <1>1 DEF AllowGrounded, Allows
  <2>1. /\ ~(e.type = "RECOVERY_REQUIRED" /\ e.reason # "interrupted")
        /\ \/ /\ e.type = "DECIDED" /\ e.verdict = "allow"
              /\ e.action = new.action /\ e.decision = new.decision
           \/ /\ p.pending # None /\ p.pending.verdict = "allow"
              /\ new.action = p.pending.action
              /\ new.decision = p.pending.decision
    BY <1>1, AfterAllowed
  <2>2. CASE e.type = "DECIDED" /\ e.verdict = "allow"
             /\ e.action = new.action /\ e.decision = new.decision
    BY <1>1, <1>4, <2>2 DEF Allows
  <2>3. CASE /\ p.pending # None /\ p.pending.verdict = "allow"
             /\ new.action = p.pending.action
             /\ new.decision = p.pending.decision
    <3>1. PICK m \in Path(q) : /\ Allows(m, p.pending)
                               /\ \A k \in Between(q, m) : ~ReopensGeneration(k)
      BY <1>1, <1>5, <2>3 DEF AllowGrounded
    <3>2. Allows(m, new)'
      BY <1>4, <2>3, <3>1 DEF Allows
    <3>3. ~ReopensGeneration(n)'
      BY <1>1, <2>1 DEF ReopensGeneration
    <3>4. \A k \in Between(q, m) : ~ReopensGeneration(k)'
      BY <1>4, <3>1 DEF ReopensGeneration
    <3> QED BY <1>4, <3>1, <3>2, <3>3, <3>4
  <2> QED BY <2>1, <2>2, <2>3
<1>8. StartGrounded(n)'
  <2> SUFFICES ASSUME e.type = "STARTED" PROVE StartGrounded(n)'
    BY <1>1 DEF StartGrounded
  <2>1. /\ p.pending # None /\ p.pending.action = e.action
        /\ p.pending.kind = e.kind /\ p.pending.approved
        /\ e.approval = p.pending.approval
        /\ e.generation = p.pending.generation
        /\ e.kind # "patch" => /\ p.pending.verdict = "allow"
                               /\ e.decision = p.pending.decision
    BY <1>1 DEF Accepts, AcceptsStart, Targets, SameKind, BoundToApproval
  <2>2. ~Withdraws(n)' /\ ~ReopensGeneration(n)'
    BY <1>1 DEF Withdraws, ReopensGeneration
  <2>3. PICK m \in Path(q) : /\ Grants(m, p.pending)
                             /\ \A k \in Between(q, m) : ~Withdraws(k)
    BY <1>1, <1>5, <2>1 DEF ApprovalGrounded
  <2>4. /\ m \in Path(n)' /\ ApprovalFor(m, n)'
        /\ \A k \in Between(n, m)' : ~Withdraws(k)'
    <3>1. ApprovalFor(m, n)'
      BY <1>1, <1>4, <2>1, <2>3 DEF ApprovalFor, Grants
    <3>2. \A k \in Between(q, m) : ~Withdraws(k)'
      BY <1>4, <2>3 DEF Withdraws
    <3> QED BY <1>4, <2>2, <2>3, <3>1, <3>2
  <2>5. ASSUME e.kind # "patch"
        PROVE  \E j \in Path(n)' :
                 /\ AllowFor(j, n)'
                 /\ \A k \in Between(n, j)' : ~ReopensGeneration(k)'
    <3>1. PICK j \in Path(q) : /\ Allows(j, p.pending)
                               /\ \A k \in Between(q, j) : ~ReopensGeneration(k)
      BY <1>1, <1>5, <2>1, <2>5 DEF AllowGrounded
    <3>2. AllowFor(j, n)'
      BY <1>1, <1>4, <2>1, <2>5, <3>1 DEF AllowFor, Allows
    <3>3. \A k \in Between(q, j) : ~ReopensGeneration(k)'
      BY <1>4, <3>1 DEF ReopensGeneration
    <3> QED BY <1>4, <2>2, <3>1, <3>2, <3>3
  <2> QED BY <1>1, <2>4, <2>5 DEF StartGrounded
<1> QED BY <1>1, <1>3, <1>6, <1>7, <1>8 DEF AuthorityInv

LEMMA InitAuthority == Init => AuthorityInv
  BY DEF Init, AuthorityInv, CreatedNode, CreatedEntry, BlankEntry,
         FirstProjection, ApprovalGrounded, AllowGrounded, StartGrounded

LEMMA NextAuthority ==
  TypeInv /\ AuthorityInv /\ [Next]_vars => AuthorityInv'
<1> SUFFICES ASSUME TypeInv, AuthorityInv, [Next]_vars PROVE AuthorityInv'
  OBVIOUS
<1>1. CASE UNCHANGED <<entries, leaf>>
  BY <1>1 DEF AuthorityInv, ApprovalGrounded, AllowGrounded, StartGrounded,
              Grants, Allows, ApprovalFor, AllowFor, Path, Between, Withdraws,
              ReopensGeneration
<1>2. ASSUME NEW c \in Clients, Store(c) PROVE AuthorityInv'
  <2> PICK n \in Nat \ {0} :
        \E q \in 1..(n - 1) :
          \E e \in Entry, p \in Projection : Extends(n, q, e, p)
    BY <1>2, StoreExtends
  <2> PICK q \in 1..(n - 1), e \in Entry, p \in Projection : Extends(n, q, e, p)
    OBVIOUS
  <2> QED BY ExtendsAuthority
<1>3. CASE entries' = << >>
  BY <1>3 DEF AuthorityInv
<1> QED BY <1>1, <1>2, <1>3, LedgerSteps

(* No caller, interleaving or restart gets started evidence stored without *)
(* the approval in force and, for commands and generic actions, an allow   *)
(* of the current generation.                                              *)
THEOREM StartsAreAuthorised == Spec => []StartAuthorised
<1>1. AuthorityInv => StartAuthorised
  BY DEF AuthorityInv, StartGrounded, StartAuthorised
<1>2. Spec => [](TypeInv /\ AuthorityInv)
  BY InitTypeInv, NextTypeInv, InitAuthority, NextAuthority, PTL DEF Spec
<1> QED BY <1>1, <1>2, PTL

-----------------------------------------------------------------------------
(* Settlement.  The pending action is started exactly when its path has    *)
(* one unmatched start, and that start is the pending action's; while its  *)
(* approval is in force nothing but notes have followed it.                *)

Dispatched(n, m, pending) ==
  /\ StartsAction(m, pending.action)
  /\ entries[m].entry.receipt = pending.receipt
  /\ pending.approved =>
       /\ entries[m].entry.approval = pending.approval
       /\ entries[m].entry.generation = pending.generation
       /\ \A k \in Between(n, m) : entries[k].entry.type = "NOTE"

UnsettledShown(n) ==
  LET pending == entries[n].proj.pending
  IN IF pending # None /\ pending.started
       THEN \E m \in Path(n) :
              UnmatchedStarts(n) = {m} /\ Dispatched(n, m, pending)
       ELSE UnmatchedStarts(n) = {}

SettlementGrounded(n) ==
  entries[n].entry.type \in {"COMPLETED", "ACTION_FAILED"} =>
    \E m \in Path(n) :
      /\ StartsAction(m, entries[n].entry.action)
      /\ entries[m].entry.receipt = entries[n].entry.receipt
      /\ entries[m].entry.approval = entries[n].entry.approval
      /\ entries[m].entry.generation = entries[n].entry.generation
      /\ \A k \in Between(n, m) \ {n} : entries[k].entry.type \in {"NOTE"}

SettlementInv ==
  \A n \in DOMAIN entries : UnsettledShown(n) /\ SettlementGrounded(n)

(* A start needs a pending action that has not started; it is settled by   *)
(* an entry that repeats its authority, and survives every other entry.    *)
LEMMA AfterStarted ==
  ASSUME NEW p \in Projection, NEW e \in Entry, Accepts(p, e),
         NEW old, old = p.pending, NEW new, new = After(p, e).pending
  PROVE  /\ e.type = "STARTED" =>
              /\ old # None /\ ~old.started /\ new # None /\ new.started
              /\ new.action = e.action /\ new.receipt = e.receipt
              /\ new.approval = e.approval /\ new.generation = e.generation
         /\ e.type \in {"COMPLETED", "ACTION_FAILED"} =>
              /\ old # None /\ old.started /\ new = None
              /\ e.action = old.action /\ old.approved
              /\ e.receipt = old.receipt /\ e.approval = old.approval
              /\ e.generation = old.generation
         /\ e.type \notin {"STARTED", "COMPLETED", "ACTION_FAILED"} =>
              /\ (new # None /\ new.started) <=> (old # None /\ old.started)
              /\ new # None /\ new.started =>
                   /\ new.action = old.action /\ new.receipt = old.receipt
                   /\ new.approved =>
                        /\ old.approved /\ e.type = "NOTE"
                        /\ new.approval = old.approval
                        /\ new.generation = old.generation
<1>1. old # None => old \in Pending
  BY DEF Projection
<1>2. CASE e.type = "STARTED"
  <2>1. /\ old # None /\ old.action = e.action /\ ~old.started
        /\ e.approval = old.approval /\ e.generation = old.generation
    BY <1>2 DEF Accepts, AcceptsStart, Targets, BoundToApproval
  <2>2. new = [old EXCEPT !.started = TRUE, !.receipt = e.receipt]
    BY <1>2 DEF After, Projection
  <2>3. new \in Pending
    BY <1>1, <1>2, <2>1, <2>2 DEF Pending, Entry, EntryRecord
  <2> QED BY <1>1, <1>2, <2>1, <2>2, <2>3, NoneIsAbsent DEF Pending
<1>3. CASE e.type \in {"COMPLETED", "ACTION_FAILED"}
  <2>1. new = None
    BY <1>3 DEF After, Projection
  <2> QED
    BY <1>3, <2>1 DEF Accepts, SettlesStart, Targets, BoundToApproval
<1>4. CASE e.type = "APPROVED"
  <2>1. old # None /\ ~old.started
    BY <1>4 DEF Accepts, AcceptsApproval, Targets
  <2>2. new = [old EXCEPT !.approved = TRUE, !.approval = e.approval,
                          !.recoveryRequired = FALSE]
    BY <1>4 DEF After, AfterApproval, Projection
  <2> QED BY <1>1, <1>4, <2>1, <2>2 DEF Pending
<1>5. CASE e.type = "DECIDED"
  <2>1. old # None /\ ~old.started
    BY <1>5 DEF Accepts, AcceptsDecision, Targets
  <2>2. new \in {None, [old EXCEPT !.verdict = e.verdict,
                                   !.decision = e.decision]}
    BY <1>5 DEF After, AfterDecision, Projection
  <2> QED BY <1>1, <1>5, <2>1, <2>2 DEF Pending
<1>6. CASE e.type = "SESSION_INTERRUPTED"
  <2>1. new = IF old = None THEN None ELSE Withdrawn(old)
    BY <1>6 DEF After, Projection
  <2>2. CASE old = None
    BY <1>6, <2>1, <2>2
  <2>3. CASE old # None
    <3>1. /\ Withdrawn(old) \in Pending /\ ~Withdrawn(old).approved
          /\ Withdrawn(old).started = old.started
          /\ Withdrawn(old).action = old.action
          /\ Withdrawn(old).receipt = old.receipt
      BY <1>1, <2>3 DEF Pending, Withdrawn
    <3> QED BY <1>6, <2>1, <2>3, <3>1, NoneIsAbsent
  <2> QED BY <2>2, <2>3
<1>7. CASE e.type = "RECOVERY_REQUIRED"
  <2>1. new = IF old = None THEN None
              ELSE IF e.reason = "interrupted" THEN Withdrawn(old)
              ELSE Reopened(old)
    BY <1>7 DEF After, AfterRecoveryRequired, Projection
  <2>2. CASE old = None
    BY <1>7, <2>1, <2>2
  <2>3. CASE old # None
    <3>1. /\ Withdrawn(old) \in Pending /\ ~Withdrawn(old).approved
          /\ Withdrawn(old).started = old.started
          /\ Withdrawn(old).action = old.action
          /\ Withdrawn(old).receipt = old.receipt
      BY <1>1, <2>3 DEF Pending, Withdrawn
    <3>2. /\ Reopened(old).approved = Withdrawn(old).approved
          /\ Reopened(old).started = old.started
          /\ Reopened(old).action = old.action
          /\ Reopened(old).receipt = old.receipt
      BY <3>1 DEF Pending, Reopened
    <3>3. e.reason # "interrupted" => ~old.started
      BY <1>7, <2>3 DEF Accepts, AcceptsReapproval
    <3> QED BY <1>7, <2>1, <2>3, <3>1, <3>2, <3>3, NoneIsAbsent
  <2> QED BY <2>2, <2>3
<1>8. CASE e.type = "PROPOSED"
  <2>1. old = None
    BY <1>8 DEF Accepts
  <2>2. new = Proposed(e)
    BY <1>8 DEF After, Projection
  <2> QED BY <1>8, <2>1, <2>2 DEF Proposed
<1>9. CASE e.type \in {"DENIED", "ENDED"}
  <2>1. new = None
    BY <1>9 DEF After, Projection
  <2>2. old # None => ~old.started
    BY <1>9 DEF Accepts, NoUnsettledStart
  <2> QED BY <1>9, <2>1, <2>2
<1>10. CASE e.type = "RECOVERY_COMPLETED"
  <2>1. new = None /\ old = None
    BY <1>10 DEF Accepts, After, Projection
  <2> QED BY <1>10, <2>1
<1>11. CASE e.type = "NOTE"
  <2>1. new = old
    BY <1>11 DEF After
  <2> QED BY <1>11, <2>1
<1>12. e.type # "SESSION_CREATED"
  BY DEF Accepts
<1>13. e.type \in EntryTypes
  BY DEF Entry, EntryRecord
<1> QED
  BY <1>2, <1>3, <1>4, <1>5, <1>6, <1>7, <1>8, <1>9, <1>10, <1>11, <1>12,
     <1>13 DEF EntryTypes

LEMMA ExtendsSettlement ==
  ASSUME TypeInv, SettlementInv,
         NEW n \in Nat \ {0}, NEW q \in 1..(n - 1),
         NEW e \in Entry, NEW p \in Projection, Extends(n, q, e, p)
  PROVE  SettlementInv'
<1>1. /\ DOMAIN entries = 1..(n - 1) /\ DOMAIN entries' = 1..n
      /\ p = entries[q].proj /\ Accepts(p, e)
      /\ entries'[n].entry = e
      /\ entries'[n].proj = After(p, e)
  BY DEF Extends
<1>2. ASSUME NEW i \in 1..(n - 1)
      PROVE  (UnsettledShown(i) /\ SettlementGrounded(i))'
  <2>1. UnsettledShown(i) /\ SettlementGrounded(i)
    BY <1>1 DEF SettlementInv
  <2>2. /\ entries'[i] = entries[i] /\ Path(i)' = Path(i)
        /\ \A m \in Path(i) : entries'[m] = entries[m]
        /\ \A m : Between(i, m)' = Between(i, m)
        /\ \A m : Between(i, m) \subseteq Path(i)
    BY ExtendsPaths
  <2>3. UnmatchedStarts(i)' = UnmatchedStarts(i)
    BY <2>2 DEF UnmatchedStarts, SettlesAction
  <2>4. UnsettledShown(i)'
    BY <2>1, <2>2, <2>3 DEF UnsettledShown, Dispatched, StartsAction
  <2>5. SettlementGrounded(i)'
    BY <2>1, <2>2 DEF SettlementGrounded, StartsAction
  <2> QED BY <2>4, <2>5
<1>3. /\ Path(n)' = Path(q) \cup {n} /\ n \notin Path(q)
      /\ \A m \in Path(q) : entries'[m] = entries[m]
      /\ \A m \in Path(q) : Between(n, m)' = Between(q, m) \cup {n}
      /\ Between(n, n)' = {}
      /\ \A m : Between(q, m) \subseteq Path(q)
  BY ExtendsPaths
<1>4. UnmatchedStarts(n)'
        = {m \in UnmatchedStarts(q) :
             ~(/\ e.type \in {"COMPLETED", "ACTION_FAILED"}
               /\ e.action = entries[m].entry.action)}
          \cup (IF e.type = "STARTED" THEN {n} ELSE {})
  BY <1>1, <1>3 DEF UnmatchedStarts, SettlesAction
<1>5. UnsettledShown(q)
  BY <1>1 DEF SettlementInv
<1>6. PICK old, new : old = p.pending /\ new = After(p, e).pending
  OBVIOUS
<1>7. UnsettledShown(n)' /\ SettlementGrounded(n)'
  <2>1. CASE e.type = "STARTED"
    <3>1. /\ old # None /\ ~old.started /\ new # None /\ new.started
          /\ new.action = e.action /\ new.receipt = e.receipt
          /\ new.approval = e.approval /\ new.generation = e.generation
      BY <1>1, <1>6, <2>1, AfterStarted
    <3>2. UnmatchedStarts(q) = {}
      BY <1>1, <1>5, <1>6, <3>1 DEF UnsettledShown
    <3>3. UnmatchedStarts(n)' = {n}
      BY <1>4, <2>1, <3>2
    <3>4. Dispatched(n, n, new)'
      BY <1>1, <1>3, <2>1, <3>1 DEF Dispatched, StartsAction
    <3>5. UnsettledShown(n)'
      BY <1>1, <1>3, <1>6, <3>1, <3>3, <3>4
      DEF UnsettledShown, Dispatched, StartsAction
    <3> QED BY <1>1, <2>1, <3>5 DEF SettlementGrounded
  <2>2. CASE e.type \in {"COMPLETED", "ACTION_FAILED"}
    <3>1. /\ old # None /\ old.started /\ new = None
          /\ e.action = old.action /\ old.approved
          /\ e.receipt = old.receipt /\ e.approval = old.approval
          /\ e.generation = old.generation
      BY <1>1, <1>6, <2>2, AfterStarted
    <3>2. PICK m \in Path(q) :
            UnmatchedStarts(q) = {m} /\ Dispatched(q, m, old)
      BY <1>1, <1>5, <1>6, <3>1 DEF UnsettledShown
    <3>3. /\ entries[m].entry.type = "STARTED"
          /\ entries[m].entry.action = e.action
          /\ entries[m].entry.receipt = e.receipt
          /\ entries[m].entry.approval = e.approval
          /\ entries[m].entry.generation = e.generation
          /\ \A k \in Between(q, m) : entries[k].entry.type = "NOTE"
      BY <3>1, <3>2 DEF Dispatched, StartsAction
    <3>4. UnmatchedStarts(n)' = {}
      BY <1>4, <2>2, <3>2, <3>3
    <3>5. UnsettledShown(n)'
      BY <1>1, <1>6, <3>1, <3>4 DEF UnsettledShown
    <3>6. \A k \in Between(n, m)' \ {n} : entries'[k].entry.type = "NOTE"
      BY <1>3, <3>2, <3>3
    <3>7. SettlementGrounded(n)'
      BY <1>1, <1>3, <3>2, <3>3, <3>6 DEF SettlementGrounded, StartsAction
    <3> QED BY <3>5, <3>7
  <2>3. CASE e.type \notin {"STARTED", "COMPLETED", "ACTION_FAILED"}
    <3>1. /\ (new # None /\ new.started) <=> (old # None /\ old.started)
          /\ new # None /\ new.started =>
               /\ new.action = old.action /\ new.receipt = old.receipt
               /\ new.approved =>
                    /\ old.approved /\ e.type = "NOTE"
                    /\ new.approval = old.approval
                    /\ new.generation = old.generation
      BY <1>1, <1>6, <2>3, AfterStarted
    <3>2. UnmatchedStarts(n)' = UnmatchedStarts(q)
      BY <1>4, <2>3
    <3>3. CASE new # None /\ new.started
      <4>1. PICK m \in Path(q) :
              UnmatchedStarts(q) = {m} /\ Dispatched(q, m, old)
        BY <1>1, <1>5, <1>6, <3>1, <3>3 DEF UnsettledShown
      <4>2. Dispatched(n, m, new)'
        BY <1>1, <1>3, <3>1, <3>3, <4>1 DEF Dispatched, StartsAction
      <4> QED
        BY <1>1, <1>3, <1>6, <2>3, <3>2, <3>3, <4>1, <4>2
        DEF UnsettledShown, SettlementGrounded, Dispatched, StartsAction
    <3>4. CASE ~(new # None /\ new.started)
      <4>1. UnmatchedStarts(q) = {}
        BY <1>1, <1>5, <1>6, <3>1, <3>4 DEF UnsettledShown
      <4> QED
        BY <1>1, <1>6, <2>3, <3>2, <3>4, <4>1
        DEF UnsettledShown, SettlementGrounded
    <3> QED BY <3>3, <3>4
  <2> QED BY <2>1, <2>2, <2>3
<1> QED BY <1>1, <1>2, <1>7 DEF SettlementInv

LEMMA InitSettlement == Init => SettlementInv
  BY DEF Init, SettlementInv, CreatedNode, CreatedEntry, BlankEntry, Path,
         FirstProjection, UnsettledShown, UnmatchedStarts, SettlementGrounded

LEMMA NextSettlement ==
  TypeInv /\ SettlementInv /\ [Next]_vars => SettlementInv'
<1> SUFFICES ASSUME TypeInv, SettlementInv, [Next]_vars PROVE SettlementInv'
  OBVIOUS
<1>1. CASE UNCHANGED <<entries, leaf>>
  BY <1>1 DEF SettlementInv, UnsettledShown, SettlementGrounded, Dispatched,
              UnmatchedStarts, StartsAction, SettlesAction, Path, Between
<1>2. ASSUME NEW c \in Clients, Store(c) PROVE SettlementInv'
  <2> PICK n \in Nat \ {0} :
        \E q \in 1..(n - 1) :
          \E e \in Entry, p \in Projection : Extends(n, q, e, p)
    BY <1>2, StoreExtends
  <2> PICK q \in 1..(n - 1), e \in Entry, p \in Projection : Extends(n, q, e, p)
    OBVIOUS
  <2> QED BY ExtendsSettlement
<1>3. CASE entries' = << >>
  BY <1>3 DEF SettlementInv
<1> QED BY <1>1, <1>2, <1>3, LedgerSteps

LEMMA SettlementCorrect == Spec => []SettlementInv
<1>1. Spec => [](TypeInv /\ SettlementInv)
  BY InitTypeInv, NextTypeInv, InitSettlement, NextSettlement, PTL DEF Spec
<1> QED BY <1>1, PTL

(* A stored settlement has its start, with only notes in between.          *)
THEOREM SettlementsMatchStarts == Spec => []SettlementMatchesStart
<1>1. SettlementInv => SettlementMatchesStart
  BY DEF SettlementInv, SettlementGrounded, SettlementMatchesStart
<1> QED BY <1>1, SettlementCorrect, PTL

(* The projector and the recovery scan agree on every stored path.         *)
THEOREM ScanAgrees == Spec => []ScanAgreesWithProjection
<1>1. SettlementInv => ScanAgreesWithProjection
  BY DEF SettlementInv, UnsettledShown, ScanAgreesWithProjection
<1> QED BY <1>1, SettlementCorrect, PTL

-----------------------------------------------------------------------------
(* Generations.  The generation of a pending action is the number of       *)
(* reapproval requirements on its path since its proposal.                 *)

Reopenings(n, m) == {k \in Between(n, m) : ReopensGeneration(k)}

ProposesAt(m, n, a) ==
  /\ entries[m].entry.type = "PROPOSED"
  /\ entries[m].entry.action = a
  /\ \A k \in Between(n, m) : entries[k].entry.type # "PROPOSED"

PendingCounted(n) ==
  LET pending == entries[n].proj.pending
  IN pending # None =>
       \E m \in Path(n) :
         /\ ProposesAt(m, n, pending.action)
         /\ pending.generation = Cardinality(Reopenings(n, m))

ApprovalCounted(n) ==
  entries[n].entry.type = "APPROVED" =>
    \E m \in Path(n) :
      /\ ProposesAt(m, n, entries[n].entry.action)
      /\ entries[n].entry.generation = Cardinality(Reopenings(n, m))

GenerationInv ==
  \A n \in DOMAIN entries : PendingCounted(n) /\ ApprovalCounted(n)

(* A pending action is the one proposed, or the one there was, under the   *)
(* next generation when the entry reopens it.                              *)
LEMMA AfterGeneration ==
  ASSUME NEW p \in Projection, NEW e \in Entry, Accepts(p, e),
         NEW old, old = p.pending, NEW new, new = After(p, e).pending,
         new # None
  PROVE  \/ e.type = "PROPOSED" /\ new.action = e.action /\ new.generation = 0
         \/ /\ e.type # "PROPOSED" /\ old # None /\ new.action = old.action
            /\ new.generation =
                 IF e.type = "RECOVERY_REQUIRED" /\ e.reason # "interrupted"
                   THEN old.generation + 1 ELSE old.generation
<1>1. old # None => old \in Pending
  BY DEF Projection
<1>2. CASE e.type = "APPROVED"
  <2>1. new = [old EXCEPT !.approved = TRUE, !.approval = e.approval,
                          !.recoveryRequired = FALSE] /\ old # None
    BY <1>2 DEF After, AfterApproval, Projection, Accepts, AcceptsApproval,
                Targets
  <2> QED BY <1>1, <1>2, <2>1 DEF Pending
<1>3. CASE e.type = "DECIDED"
  <2>1. new \in {None, [old EXCEPT !.verdict = e.verdict,
                                   !.decision = e.decision]} /\ old # None
    BY <1>3 DEF After, AfterDecision, Projection, Accepts, AcceptsDecision,
                Targets
  <2> QED BY <1>1, <1>3, <2>1 DEF Pending
<1>4. CASE e.type = "STARTED"
  <2>1. new = [old EXCEPT !.started = TRUE, !.receipt = e.receipt]
        /\ old # None
    BY <1>4 DEF After, Projection, Accepts, AcceptsStart, Targets
  <2> QED BY <1>1, <1>4, <2>1 DEF Pending
<1>5. CASE e.type = "SESSION_INTERRUPTED"
  <2>1. old # None /\ new = Withdrawn(old)
    BY <1>5 DEF After, Projection
  <2> QED BY <1>1, <1>5, <2>1 DEF Pending, Withdrawn
<1>6. CASE e.type = "RECOVERY_REQUIRED"
  <2>1. old # None /\ new = IF e.reason = "interrupted" THEN Withdrawn(old)
                                                        ELSE Reopened(old)
    BY <1>6 DEF After, AfterRecoveryRequired, Projection
  <2>2. old \in Pending
    BY <1>1, <2>1
  <2>3. /\ Withdrawn(old).action = old.action
        /\ Withdrawn(old).generation = old.generation
        /\ Withdrawn(old) \in Pending
    BY <2>2 DEF Pending, Withdrawn
  <2>4. /\ Reopened(old).action = old.action
        /\ Reopened(old).generation = old.generation + 1
    BY <2>2, <2>3 DEF Pending, Reopened
  <2> QED BY <1>6, <2>1, <2>3, <2>4
<1>7. CASE e.type = "PROPOSED"
  BY <1>7 DEF After, Proposed, Projection
<1>8. CASE e.type \in {"DENIED", "COMPLETED", "ACTION_FAILED", "ENDED"}
  BY <1>8 DEF After, Projection
<1>9. CASE e.type \in {"RECOVERY_COMPLETED", "NOTE"}
  BY <1>9 DEF After, Projection
<1>10. e.type # "SESSION_CREATED"
  BY DEF Accepts
<1> QED
  BY <1>2, <1>3, <1>4, <1>5, <1>6, <1>7, <1>8, <1>9, <1>10
  DEF Entry, EntryRecord, EntryTypes

(* The count behind an extension, and the proposal that starts it.         *)
LEMMA ExtendsCount ==
  ASSUME TypeInv, NEW n \in Nat \ {0}, NEW q \in 1..(n - 1), NEW e, NEW p,
         Extends(n, q, e, p), NEW m \in Path(q), NEW a
  PROVE  /\ m \in Path(n)'
         /\ ProposesAt(m, q, a) /\ e.type # "PROPOSED" => ProposesAt(m, n, a)'
         /\ Cardinality(Reopenings(q, m)) \in Nat
         /\ Cardinality(Reopenings(n, m))' =
              IF e.type = "RECOVERY_REQUIRED" /\ e.reason # "interrupted"
                THEN Cardinality(Reopenings(q, m)) + 1
                ELSE Cardinality(Reopenings(q, m))
<1>1. /\ Path(n)' = Path(q) \cup {n} /\ n \notin Path(q)
      /\ \A k \in Path(q) : entries'[k] = entries[k]
      /\ Between(n, m)' = Between(q, m) \cup {n}
      /\ Between(q, m) \subseteq Path(q)
      /\ Path(q) \subseteq 1..q
      /\ entries'[n].entry = e
  BY ExtendsPaths DEF Extends
<1>2. IsFiniteSet(Reopenings(q, m))
  <2>1. IsFiniteSet(1..q)
    BY FS_Interval
  <2> QED BY <1>1, <2>1, FS_Subset DEF Reopenings
<1>3. n \notin Reopenings(q, m)
  BY <1>1 DEF Reopenings
<1>4. Reopenings(n, m)'
        = Reopenings(q, m) \cup
            (IF e.type = "RECOVERY_REQUIRED" /\ e.reason # "interrupted"
               THEN {n} ELSE {})
  BY <1>1 DEF Reopenings, ReopensGeneration
<1>5. Cardinality(Reopenings(n, m))' = Cardinality(Reopenings(n, m)')
  OBVIOUS
<1>6. ProposesAt(m, q, a) /\ e.type # "PROPOSED" => ProposesAt(m, n, a)'
  BY <1>1 DEF ProposesAt
<1> QED
  BY <1>1, <1>2, <1>3, <1>4, <1>5, <1>6, FS_CardinalityType, FS_AddElement

LEMMA ExtendsGeneration ==
  ASSUME TypeInv, GenerationInv,
         NEW n \in Nat \ {0}, NEW q \in 1..(n - 1),
         NEW e \in Entry, NEW p \in Projection, Extends(n, q, e, p)
  PROVE  GenerationInv'
<1>1. /\ DOMAIN entries = 1..(n - 1) /\ DOMAIN entries' = 1..n
      /\ p = entries[q].proj /\ Accepts(p, e)
      /\ entries'[n].entry = e
      /\ entries'[n].proj = After(p, e)
  BY DEF Extends
<1>2. ASSUME NEW i \in 1..(n - 1)
      PROVE  (PendingCounted(i) /\ ApprovalCounted(i))'
  <2>1. PendingCounted(i) /\ ApprovalCounted(i)
    BY <1>1 DEF GenerationInv
  <2>2. /\ entries'[i] = entries[i] /\ Path(i)' = Path(i)
        /\ \A m \in Path(i) : entries'[m] = entries[m]
        /\ \A m : Between(i, m)' = Between(i, m)
        /\ \A m : Between(i, m) \subseteq Path(i)
    BY ExtendsPaths
  <2>3. \A m : Reopenings(i, m)' = Reopenings(i, m)
    BY <2>2 DEF Reopenings, ReopensGeneration
  <2>4. \A m : Cardinality(Reopenings(i, m))' = Cardinality(Reopenings(i, m))
    BY <2>3
  <2>5. \A m \in Path(i) :
          \A a : ProposesAt(m, i, a)' <=> ProposesAt(m, i, a)
    BY <2>2 DEF ProposesAt
  <2>6. PendingCounted(i)'
    BY <2>1, <2>2, <2>4, <2>5 DEF PendingCounted
  <2>7. ApprovalCounted(i)'
    BY <2>1, <2>2, <2>4, <2>5 DEF ApprovalCounted
  <2> QED BY <2>6, <2>7
<1>3. PendingCounted(q)
  BY <1>1 DEF GenerationInv
<1>4. PendingCounted(n)'
  <2> SUFFICES ASSUME NEW new, new = After(p, e).pending, new # None
               PROVE  \E m \in Path(n)' :
                        /\ ProposesAt(m, n, new.action)'
                        /\ new.generation = Cardinality(Reopenings(n, m))'
    BY <1>1 DEF PendingCounted, ProposesAt, Reopenings
  <2>1. CASE /\ e.type = "PROPOSED" /\ new.action = e.action
             /\ new.generation = 0
    <3>1. n \in Path(n)' /\ Between(n, n)' = {}
      BY ExtendsPaths
    <3>2. Reopenings(n, n)' = {}
      BY <3>1 DEF Reopenings
    <3>3. Cardinality(Reopenings(n, n))' = 0
      BY <3>2, FS_EmptySet
    <3>4. ProposesAt(n, n, new.action)'
      BY <1>1, <2>1, <3>1 DEF ProposesAt
    <3> QED BY <2>1, <3>1, <3>3, <3>4
  <2>2. CASE /\ e.type # "PROPOSED" /\ p.pending # None
             /\ new.action = p.pending.action
             /\ new.generation =
                  IF e.type = "RECOVERY_REQUIRED" /\ e.reason # "interrupted"
                    THEN p.pending.generation + 1 ELSE p.pending.generation
    <3>1. PICK m \in Path(q) :
            /\ ProposesAt(m, q, new.action)
            /\ p.pending.generation = Cardinality(Reopenings(q, m))
      BY <1>1, <1>3, <2>2 DEF PendingCounted
    <3> QED BY <2>2, <3>1, ExtendsCount
  <2> QED BY <1>1, <2>1, <2>2, AfterGeneration
<1>5. ApprovalCounted(n)'
  <2> SUFFICES ASSUME e.type = "APPROVED"
               PROVE  \E m \in Path(n)' :
                        /\ ProposesAt(m, n, e.action)'
                        /\ e.generation = Cardinality(Reopenings(n, m))'
    BY <1>1 DEF ApprovalCounted, ProposesAt, Reopenings
  <2>1. /\ p.pending # None /\ p.pending.action = e.action
        /\ e.generation = p.pending.generation
    BY <1>1 DEF Accepts, AcceptsApproval, Targets
  <2>2. PICK m \in Path(q) :
          /\ ProposesAt(m, q, e.action)
          /\ e.generation = Cardinality(Reopenings(q, m))
    BY <1>1, <1>3, <2>1 DEF PendingCounted
  <2> QED BY <2>2, ExtendsCount
<1> QED BY <1>1, <1>2, <1>4, <1>5 DEF GenerationInv

LEMMA NextGeneration ==
  TypeInv /\ GenerationInv /\ [Next]_vars => GenerationInv'
<1> SUFFICES ASSUME TypeInv, GenerationInv, [Next]_vars PROVE GenerationInv'
  OBVIOUS
<1>1. CASE UNCHANGED <<entries, leaf>>
  <2>1. ASSUME NEW n \in DOMAIN entries
        PROVE  (PendingCounted(n) /\ ApprovalCounted(n))'
    <3>1. PendingCounted(n) /\ ApprovalCounted(n)
      BY DEF GenerationInv
    <3>2. \A m : Reopenings(n, m)' = Reopenings(n, m)
      BY <1>1 DEF Reopenings, ReopensGeneration, Between, Path
    <3>3. \A m : Cardinality(Reopenings(n, m))' = Cardinality(Reopenings(n, m))
      BY <3>2
    <3>4. \A m, a : ProposesAt(m, n, a)' <=> ProposesAt(m, n, a)
      BY <1>1 DEF ProposesAt, Between, Path
    <3> QED BY <1>1, <3>1, <3>3, <3>4 DEF PendingCounted, ApprovalCounted, Path
  <2> QED BY <1>1, <2>1 DEF GenerationInv
<1>2. ASSUME NEW c \in Clients, Store(c) PROVE GenerationInv'
  <2> PICK n \in Nat \ {0} :
        \E q \in 1..(n - 1) :
          \E e \in Entry, p \in Projection : Extends(n, q, e, p)
    BY <1>2, StoreExtends
  <2> PICK q \in 1..(n - 1), e \in Entry, p \in Projection : Extends(n, q, e, p)
    OBVIOUS
  <2> QED BY ExtendsGeneration
<1>3. CASE entries' = << >>
  BY <1>3 DEF GenerationInv
<1> QED BY <1>1, <1>2, <1>3, LedgerSteps

(* Every stored approval names as its generation the number of reapproval  *)
(* requirements recorded since its proposal, so one given before a restart *)
(* that required reapproval is never stored behind it (projector.ts).      *)
THEOREM GenerationsCountRestarts == Spec => []GenerationCountsRestarts
<1>1. Init => GenerationInv
  BY DEF Init, GenerationInv, CreatedNode, CreatedEntry, BlankEntry,
         FirstProjection, PendingCounted, ApprovalCounted
<1>2. GenerationInv => GenerationCountsRestarts
  BY DEF GenerationInv, ApprovalCounted, ProposesAt, Reopenings,
         GenerationCountsRestarts
<1> QED BY InitTypeInv, NextTypeInv, <1>1, <1>2, NextGeneration, PTL DEF Spec

-----------------------------------------------------------------------------
(* Ends.  Nothing is stored behind a terminal entry, and the status column *)
(* is what the active leaf left there.                                     *)

EndedIsLast(n) ==
  /\ entries[n].proj.status \in EndStatuses => entries[n].proj.pending = None
  /\ (\E k \in Path(n) : entries[k].entry.type = "ENDED") =>
       entries[n].proj.status \in EndStatuses

CachedIsShown ==
  leaf # 0 => cached = CachedStatus(entries[leaf].entry, entries[leaf].proj)

EndInv == (\A n \in DOMAIN entries : EndedIsLast(n)) /\ CachedIsShown

(* Only a terminal entry ends a session, and it leaves nothing pending.    *)
LEMMA AfterEnd ==
  ASSUME NEW p \in Projection, NEW e \in Entry, Accepts(p, e)
  PROVE  IF e.type = "ENDED"
           THEN After(p, e).status \in EndStatuses /\ After(p, e).pending = None
           ELSE After(p, e).status \notin EndStatuses
<1>1. p.status \notin EndStatuses
  BY DEF Accepts
<1>2. CASE e.type = "ENDED"
  BY <1>2 DEF After, Projection, Entry, EntryRecord
<1>3. CASE e.type \in {"APPROVED", "DECIDED"}
  BY <1>1, <1>3 DEF After, AfterApproval, AfterDecision, Projection, EndStatuses
<1>4. CASE e.type \in {"RECOVERY_REQUIRED", "RECOVERY_COMPLETED",
                       "SESSION_INTERRUPTED"}
  BY <1>4 DEF After, AfterRecoveryRequired, Projection, EndStatuses
<1>5. CASE e.type \in {"SESSION_CREATED", "NOTE", "PROPOSED", "DENIED",
                       "STARTED", "COMPLETED", "ACTION_FAILED"}
  BY <1>1, <1>5 DEF After, Projection
<1> QED
  BY <1>2, <1>3, <1>4, <1>5 DEF Entry, EntryRecord, EntryTypes

LEMMA ExtendsEnds ==
  ASSUME TypeInv, \A n \in DOMAIN entries : EndedIsLast(n),
         NEW n \in Nat \ {0}, NEW q \in 1..(n - 1),
         NEW e \in Entry, NEW p \in Projection, Extends(n, q, e, p)
  PROVE  (\A i \in DOMAIN entries : EndedIsLast(i))'
<1>1. /\ DOMAIN entries = 1..(n - 1) /\ DOMAIN entries' = 1..n
      /\ p = entries[q].proj /\ Accepts(p, e)
      /\ entries'[n].entry = e
      /\ entries'[n].proj = After(p, e)
  BY DEF Extends
<1>2. ASSUME NEW i \in 1..(n - 1) PROVE EndedIsLast(i)'
  <2>1. EndedIsLast(i)
    BY <1>1
  <2>2. /\ entries'[i] = entries[i] /\ Path(i)' = Path(i)
        /\ \A m \in Path(i) : entries'[m] = entries[m]
    BY ExtendsPaths
  <2> QED BY <2>1, <2>2 DEF EndedIsLast
<1>3. EndedIsLast(n)'
  <2>1. /\ Path(n)' = Path(q) \cup {n}
        /\ \A m \in Path(q) : entries'[m] = entries[m]
    BY ExtendsPaths
  <2>2. \A k \in Path(q) : entries[k].entry.type # "ENDED"
    BY <1>1 DEF EndedIsLast, Accepts
  <2> QED BY <1>1, <2>1, <2>2, AfterEnd DEF EndedIsLast
<1> QED BY <1>1, <1>2, <1>3

LEMMA NextEnd == TypeInv /\ EndInv /\ [Next]_vars => EndInv'
<1> SUFFICES ASSUME TypeInv, EndInv, [Next]_vars PROVE EndInv'
  OBVIOUS
<1>1. CASE UNCHANGED <<entries, leaf>> /\ UNCHANGED cached
  BY <1>1 DEF EndInv, EndedIsLast, CachedIsShown, CachedStatus, Path
<1>2. ASSUME NEW c \in Clients, Store(c) PROVE EndInv'
  <2>1. (\A n \in DOMAIN entries : EndedIsLast(n))'
    <3> PICK n \in Nat \ {0} :
          \E q \in 1..(n - 1) :
            \E e \in Entry, p \in Projection : Extends(n, q, e, p)
      BY <1>2, StoreExtends
    <3> PICK q \in 1..(n - 1), e \in Entry, p \in Projection :
          Extends(n, q, e, p)
      OBVIOUS
    <3> QED BY ExtendsEnds DEF EndInv
  <2>2. CachedIsShown'
    <3> DEFINE n == Len(entries) + 1
               q == ParentOf(client[c])
               e == client[c].entry
    <3>1. entries'[n].entry = e /\ entries'[n].proj = After(entries[q].proj, e)
      BY <1>2, StoredNode
    <3>2. leaf' = n /\ cached' = CachedStatus(e, After(entries[q].proj, e))
      BY <1>2 DEF Store, NewNode
    <3> HIDE DEF n, q, e
    <3> QED BY <3>1, <3>2 DEF CachedIsShown, CachedStatus
  <2> QED BY <2>1, <2>2 DEF EndInv
<1>3. CASE entries' = << >> /\ leaf' = 0
  BY <1>3 DEF EndInv, CachedIsShown
<1>4. \/ UNCHANGED <<entries, leaf>> /\ UNCHANGED cached
      \/ \E c \in Clients : Store(c)
      \/ entries' = << >> /\ leaf' = 0
  <2>1. CASE Next
    BY <2>1 DEF Next, Call, ReadSession, ListEntries, Reject, Conflict, Crash,
                Recover, RecoverNothing, DeleteSession
  <2>2. CASE UNCHANGED vars
    BY <2>2 DEF vars
  <2> QED BY <2>1, <2>2
<1> QED BY <1>1, <1>2, <1>3, <1>4

LEMMA InitEnd == Init => EndInv
  BY DEF Init, EndInv, EndedIsLast, CachedIsShown, CachedStatus, CreatedNode,
         CreatedEntry, BlankEntry, FirstProjection, Path, EndStatuses

(* The status column names an end only when the active path has no started *)
(* evidence left to settle (TERMINAL_ENTRY_STATUS of session_database.rs   *)
(* and requireNoUnsettledStartedAction of projector.ts).                   *)
THEOREM CachedEndsAreHonest == Spec => []CachedEndIsHonest
<1>1. TypeInv /\ SettlementInv /\ EndInv => CachedEndIsHonest
  <2> SUFFICES ASSUME TypeInv, SettlementInv, EndInv, leaf # 0,
                      cached \in EndStatuses
               PROVE  UnmatchedStarts(leaf) = {}
    BY DEF CachedEndIsHonest
  <2>1. leaf \in DOMAIN entries
    BY DEF TypeInv, TypeOK
  <2>2. entries[leaf].proj.status \in EndStatuses
    BY DEF EndInv, CachedIsShown, CachedStatus, EndStatuses
  <2>3. entries[leaf].proj.pending = None
    BY <2>1, <2>2 DEF EndInv, EndedIsLast
  <2> QED BY <2>1, <2>3 DEF SettlementInv, UnsettledShown
<1>2. Spec => [](TypeInv /\ SettlementInv /\ EndInv)
  BY InitTypeInv, NextTypeInv, InitSettlement, NextSettlement, InitEnd, NextEnd,
     PTL DEF Spec
<1> QED BY <1>1, <1>2, PTL

-----------------------------------------------------------------------------
(* Recovery.  On every path Spec builds, the plan of recover() appends     *)
(* behind the leaf, and what it is can be told from the projection and the *)
(* unmatched starts; the append in flight while a restart is recovering    *)
(* carries exactly that plan.                                              *)

(* An approval is in force only in an active session, and a start that was *)
(* interrupted is shown as interrupted.                                    *)
StatusShown(n) ==
  LET p == entries[n].proj
  IN /\ p.pending # None /\ p.pending.approved => p.status = "Active"
     /\ \A m \in UnmatchedStarts(n) :
          InterruptedSince(n, m) => p.status = "Interrupted"

ProposesNothing == \A e \in Inputs : e.type # "PROPOSED"

(* A worker's status comes from an input, an action from a proposal. *)
KindInv ==
  /\ ProposesNothing => \A n \in DOMAIN entries : entries[n].proj.pending = None
  /\ (\A e \in Inputs : e.runtimeStatus # WorkerStatus) =>
       \A n \in DOMAIN entries : entries[n].entry.runtimeStatus # WorkerStatus

OfRecovery(e) == e.runtimeStatus = None /\ e.type # "PROPOSED"

(* What recover() appends behind node n. *)
Needed(n) ==
  IF UnmatchedStarts(n) # {}
    THEN IF \E m \in UnmatchedStarts(n) : InterruptedSince(n, m)
           THEN None ELSE InterruptEntry
    ELSE RecoveryEntry(entries[n].proj, entries[n].entry.runtimeStatus)

Requested(c) ==
  /\ client[c].entry \in Inputs \cup {None} \/ OfRecovery(client[c].entry)
  /\ client[c].pc = "listed" => client[c].entry # None
  /\ mode = "recovering" /\ client[c].pc # "idle" =>
       /\ leaf # 0 /\ Needed(leaf) # None
       /\ client[c].entry = Needed(leaf) /\ client[c].parent = 0
       /\ client[c].pc \in {"sessionRead", "listed"} => client[c].leaf = leaf

PathInv == TypeInv /\ SettlementInv /\ EndInv

RecoveryInv ==
  /\ \A n \in DOMAIN entries : StatusShown(n)
  /\ KindInv
  /\ \A c \in Clients : Requested(c)

LEMMA PlanIsNeeded ==
  PathInv => \A n \in DOMAIN entries :
               RecoveryPlan(n) = [entry |-> Needed(n), parent |-> 0]
<1> SUFFICES ASSUME PathInv, NEW n \in DOMAIN entries
             PROVE  RecoveryPlan(n) = [entry |-> Needed(n), parent |-> 0]
  OBVIOUS
<1>1. CASE UnmatchedStarts(n) = {}
  BY <1>1 DEF RecoveryPlan, Needed
<1>2. CASE UnmatchedStarts(n) # {}
  <2>1. entries[n].proj.pending # None /\ entries[n].proj.pending.started
    BY <1>2 DEF PathInv, SettlementInv, UnsettledShown
  <2>2. PICK m : UnmatchedStarts(n) = {m}
    BY <2>1 DEF PathInv, SettlementInv, UnsettledShown
  <2>3. \A k \in Path(n) : entries[k].entry.type # "ENDED"
    BY <2>1 DEF PathInv, EndInv, EndedIsLast
  <2>4. \A j : MaskingEnds(n, j) = {}
    BY <2>3 DEF MaskingEnds, Between
  <2>5. MaskingParent(n, FirstUnmatched(n)) = 0
    BY <2>4 DEF MaskingParent
  <2>6. FirstUnmatched(n) = m
    <3>1. m \in Nat
      BY <2>2 DEF UnmatchedStarts, PathInv, TypeInv, Tree
    <3> QED BY <2>2, <3>1 DEF FirstUnmatched
  <2>7. RecoveryPlan(n)
          = IF InterruptedSince(n, m)
              THEN [entry |-> None, parent |-> 0]
              ELSE [entry |-> InterruptEntry, parent |-> 0]
    BY <1>2, <2>5, <2>6 DEF RecoveryPlan
  <2> QED BY <1>2, <2>2, <2>7 DEF Needed
<1> QED BY <1>1, <1>2

(* What recovery appends is no proposal and carries no status.             *)
LEMMA NeededType ==
  ASSUME NEW n
  PROVE  Needed(n) = None \/ OfRecovery(Needed(n))
<1>1. OfRecovery(InterruptEntry)
  BY DEF OfRecovery, InterruptEntry, BlankEntry
<1>2. ASSUME NEW p, NEW why PROVE OfRecovery(ReapprovalEntry(p, why))
  BY DEF OfRecovery, ReapprovalEntry, BlankEntry
<1>3. ASSUME NEW s PROVE OfRecovery(EndedBy(s))
  BY DEF OfRecovery, EndedBy, BlankEntry
<1>4. ASSUME NEW p, NEW s
      PROVE  RecoveryEntry(p, s) = None \/ OfRecovery(RecoveryEntry(p, s))
  <2>1. /\ OfRecovery(ReapprovalEntry(p, "patch_reapproval"))
        /\ OfRecovery(ReapprovalEntry(p, "command_reapproval"))
        /\ OfRecovery(EndedBy(s))
    BY <1>2, <1>3
  <2> QED BY <1>1, <2>1 DEF RecoveryEntry
<1> QED BY <1>1, <1>4 DEF Needed

(* The status behind an accepted entry. *)
LEMMA AfterStatus ==
  ASSUME NEW p \in Projection, NEW e \in Entry, Accepts(p, e)
  PROVE  /\ e.type = "SESSION_INTERRUPTED" => After(p, e).status = "Interrupted"
         /\ e.type = "APPROVED" => After(p, e).status = "Active"
         /\ e.type = "RECOVERY_REQUIRED" => After(p, e).status \in
              (IF e.reason = "interrupted" THEN {"Interrupted"}
                                           ELSE {"RecoveryRequired"})
         /\ e.type \notin {"SESSION_INTERRUPTED", "APPROVED",
                           "RECOVERY_REQUIRED", "RECOVERY_COMPLETED", "ENDED"}
              => After(p, e).status = p.status
<1>1. CASE e.type \in {"APPROVED", "DECIDED"}
  BY <1>1 DEF After, AfterApproval, AfterDecision, Projection
<1>2. CASE e.type \in {"RECOVERY_REQUIRED", "SESSION_INTERRUPTED"}
  BY <1>2 DEF After, AfterRecoveryRequired, Projection
<1>3. CASE e.type \in {"RECOVERY_COMPLETED", "ENDED"}
  BY <1>3
<1>4. CASE e.type \in {"SESSION_CREATED", "NOTE", "PROPOSED", "DENIED",
                       "STARTED", "COMPLETED", "ACTION_FAILED"}
  BY <1>4 DEF After, Projection
<1> QED
  BY <1>1, <1>2, <1>3, <1>4 DEF Entry, EntryRecord, EntryTypes

(* The unmatched starts of an extended path. *)
LEMMA ExtendsUnmatched ==
  ASSUME TypeInv, NEW n \in Nat \ {0}, NEW q \in 1..(n - 1), NEW e, NEW p,
         Extends(n, q, e, p)
  PROVE  /\ e.type = "STARTED" =>
              \A m \in UnmatchedStarts(n)' : m = n \/ m \in UnmatchedStarts(q)
         /\ e.type \notin {"STARTED", "COMPLETED", "ACTION_FAILED"} =>
              UnmatchedStarts(n)' = UnmatchedStarts(q)
         /\ \A m \in UnmatchedStarts(q) :
              InterruptedSince(n, m)' <=>
                InterruptedSince(q, m) \/ e.type = "SESSION_INTERRUPTED"
         /\ ~InterruptedSince(n, n)'
<1>1. /\ Path(n)' = Path(q) \cup {n} /\ n \notin Path(q)
      /\ \A m \in Path(q) : entries'[m] = entries[m]
      /\ \A m \in Path(q) : Between(n, m)' = Between(q, m) \cup {n}
      /\ Between(n, n)' = {}
      /\ \A m : Between(q, m) \subseteq Path(q)
      /\ entries'[n].entry = e
  BY ExtendsPaths DEF Extends
<1>2. \A m \in UnmatchedStarts(n)' : m = n \/ m \in UnmatchedStarts(q)
  BY <1>1 DEF UnmatchedStarts, SettlesAction
<1>3. e.type \notin {"STARTED", "COMPLETED", "ACTION_FAILED"} =>
        UnmatchedStarts(n)' = UnmatchedStarts(q)
  BY <1>1 DEF UnmatchedStarts, SettlesAction
<1>4. UnmatchedStarts(q) \subseteq Path(q)
  BY DEF UnmatchedStarts
<1> QED BY <1>1, <1>2, <1>3, <1>4 DEF InterruptedSince

LEMMA ExtendsStatus ==
  ASSUME PathInv, \A n \in DOMAIN entries : StatusShown(n),
         NEW n \in Nat \ {0}, NEW q \in 1..(n - 1),
         NEW e \in Entry, NEW p \in Projection, Extends(n, q, e, p)
  PROVE  (\A i \in DOMAIN entries : StatusShown(i))'
<1>1. /\ DOMAIN entries = 1..(n - 1) /\ DOMAIN entries' = 1..n
      /\ p = entries[q].proj /\ Accepts(p, e)
      /\ entries'[n].entry = e
      /\ entries'[n].proj = After(p, e)
      /\ TypeInv
  BY DEF Extends, PathInv
<1>2. ASSUME NEW i \in 1..(n - 1) PROVE StatusShown(i)'
  <2>1. StatusShown(i)
    BY <1>1
  <2>2. /\ entries'[i] = entries[i] /\ Path(i)' = Path(i)
        /\ \A m \in Path(i) : entries'[m] = entries[m]
        /\ \A m : Between(i, m)' = Between(i, m)
        /\ \A m : Between(i, m) \subseteq Path(i)
    BY <1>1, ExtendsPaths
  <2>3. UnmatchedStarts(i)' = UnmatchedStarts(i)
    BY <2>2 DEF UnmatchedStarts, SettlesAction
  <2>4. \A m : InterruptedSince(i, m)' <=> InterruptedSince(i, m)
    BY <2>2 DEF InterruptedSince
  <2> QED BY <2>1, <2>2, <2>3, <2>4 DEF StatusShown
<1>3. StatusShown(q) /\ UnsettledShown(q)
  BY <1>1 DEF PathInv, SettlementInv
<1>4. ASSUME NEW new, new = After(p, e).pending, new # None, new.approved
      PROVE  After(p, e).status = "Active"
  <2>1. /\ e.type \notin {"SESSION_INTERRUPTED", "RECOVERY_REQUIRED"}
        /\ e.type = "APPROVED" \/ (p.pending # None /\ p.pending.approved)
    BY <1>1, <1>4, AfterApproved
  <2>2. CASE e.type = "APPROVED"
    BY <1>1, <2>2, AfterStatus
  <2>3. CASE p.pending # None /\ p.pending.approved /\ e.type # "APPROVED"
    <3>1. p.status = "Active"
      BY <1>1, <1>3, <2>3 DEF StatusShown
    <3>2. e.type # "RECOVERY_COMPLETED"
      BY <1>1, <2>3 DEF Accepts
    <3>3. e.type # "ENDED"
      BY <1>1, <1>4, AfterEnd
    <3> QED BY <1>1, <2>1, <2>3, <3>1, <3>2, <3>3, AfterStatus
  <2> QED BY <2>1, <2>2, <2>3
<1>5. ASSUME NEW m \in UnmatchedStarts(n)', InterruptedSince(n, m)'
      PROVE  After(p, e).status = "Interrupted"
  <2>1. CASE e.type = "SESSION_INTERRUPTED"
    BY <1>1, <2>1, AfterStatus
  <2>2. CASE e.type = "STARTED"
    <3>1. p.pending # None /\ ~p.pending.started
      BY <1>1, <2>2 DEF Accepts, AcceptsStart, Targets
    <3>2. UnmatchedStarts(q) = {}
      BY <1>1, <1>3, <3>1 DEF UnsettledShown
    <3>3. /\ \A k \in UnmatchedStarts(n)' : k = n \/ k \in UnmatchedStarts(q)
          /\ ~InterruptedSince(n, n)'
      BY <1>1, <2>2, ExtendsUnmatched
    <3>4. m = n
      BY <1>5, <3>2, <3>3
    <3> QED BY <1>5, <3>3, <3>4
  <2>3. CASE e.type \in {"COMPLETED", "ACTION_FAILED"}
    <3>1. SettlementInv'
      BY <1>1, ExtendsSettlement DEF PathInv
    <3>2. After(p, e).pending = None
      BY <1>1, <2>3 DEF After, Projection
    <3>3. UnmatchedStarts(n)' = {}
      BY <1>1, <3>1, <3>2 DEF SettlementInv, UnsettledShown
    <3> QED BY <1>5, <3>3
  <2>4. CASE e.type \notin {"SESSION_INTERRUPTED", "STARTED", "COMPLETED",
                            "ACTION_FAILED"}
    <3>1. m \in UnmatchedStarts(q) /\ InterruptedSince(q, m)
      BY <1>1, <1>5, <2>4, ExtendsUnmatched
    <3>2. p.status = "Interrupted"
      BY <1>1, <1>3, <3>1 DEF StatusShown
    <3>3. p.pending # None /\ p.pending.started
      BY <1>1, <1>3, <3>1 DEF UnsettledShown
    <3>4. /\ e.type \notin {"APPROVED", "RECOVERY_COMPLETED", "ENDED"}
          /\ e.type = "RECOVERY_REQUIRED" => e.reason = "interrupted"
      BY <1>1, <3>3
      DEF Accepts, AcceptsApproval, AcceptsReapproval, NoUnsettledStart
    <3> QED BY <1>1, <2>4, <3>2, <3>4, AfterStatus
  <2> QED BY <2>1, <2>2, <2>3, <2>4
<1>6. StatusShown(n)'
  BY <1>1, <1>4, <1>5 DEF StatusShown
<1> QED BY <1>1, <1>2, <1>6

LEMMA StoreKind ==
  ASSUME TypeInv, KindInv, NEW c \in Clients, Requested(c), Store(c)
  PROVE  KindInv'
<1> DEFINE n == Len(entries) + 1
           q == ParentOf(client[c])
           e == client[c].entry
<1>1. /\ Len(entries) \in Nat
      /\ DOMAIN entries = 1..Len(entries) /\ DOMAIN entries' = 1..n
      /\ q \in DOMAIN entries
      /\ e \in Entry /\ Accepts(entries[q].proj, e)
      /\ entries[q].proj \in Projection
      /\ \A i \in DOMAIN entries : entries'[i] = entries[i]
      /\ entries'[n].entry = e
      /\ entries'[n].proj = After(entries[q].proj, e)
  BY StoredNode
<1>2. e \in Inputs \/ OfRecovery(e)
  BY <1>1, NoneIsAbsent DEF Requested, Store
<1>3. \A i \in DOMAIN entries' : i \in DOMAIN entries \/ i = n
  BY <1>1
<1>4. ASSUME ProposesNothing
      PROVE  \A i \in DOMAIN entries' : entries'[i].proj.pending = None
  <2>1. entries[q].proj.pending = None /\ e.type # "PROPOSED"
    BY <1>1, <1>2, <1>4 DEF KindInv, ProposesNothing, OfRecovery
  <2>2. After(entries[q].proj, e).pending = None
    BY <1>1, <2>1, AfterGeneration
  <2> QED BY <1>1, <1>3, <1>4, <2>2 DEF KindInv
<1>5. ASSUME \A i \in Inputs : i.runtimeStatus # WorkerStatus
      PROVE  \A i \in DOMAIN entries' :
               entries'[i].entry.runtimeStatus # WorkerStatus
  <2>1. e.runtimeStatus # WorkerStatus
    BY <1>2, <1>5, NoneIsAbsent DEF OfRecovery, WorkerStatus, RuntimeStatuses
  <2> QED BY <1>1, <1>3, <1>5, <2>1 DEF KindInv
<1> QED BY <1>4, <1>5 DEF KindInv, ProposesNothing

LEMMA NeededSame ==
  ASSUME UNCHANGED entries, NEW n
  PROVE  Needed(n)' = Needed(n)
<1>1. UnmatchedStarts(n)' = UnmatchedStarts(n)
  BY DEF UnmatchedStarts, SettlesAction, Between, Path
<1>2. \A m : InterruptedSince(n, m)' <=> InterruptedSince(n, m)
  BY DEF InterruptedSince, Between, Path
<1> QED BY <1>1, <1>2 DEF Needed

(* The appends in flight, step by step.                                    *)
LEMMA NextRequested ==
  ASSUME PathInv, \A c \in Clients : Requested(c), [Next]_vars
  PROVE  \A c \in Clients : Requested(c)'
<1>1. /\ client \in [Clients -> Client] /\ TypeInv
      /\ leaf # 0 => leaf \in DOMAIN entries
  BY DEF PathInv, TypeInv, TypeOK
<1>2. ASSUME NEW c \in Clients, UNCHANGED <<entries, leaf, mode>>,
             client'[c] = client[c]
      PROVE  Requested(c)'
  <2>1. Requested(c) /\ Needed(leaf)' = Needed(leaf)
    BY <1>2, NeededSame
  <2> QED BY <1>2, <2>1 DEF Requested
<1>3. ASSUME NEW c \in Clients, client'[c] = Idle PROVE Requested(c)'
  BY <1>3 DEF Requested, Idle
<1>4. ASSUME NEW c \in Clients, mode' = "live", client'[c] = client[c]
      PROVE  Requested(c)'
  BY <1>4 DEF Requested
<1>5. ASSUME NEW c \in Clients, Call(c) PROVE \A d \in Clients : Requested(d)'
  <2>1. mode' = "live" /\ client'[c].entry = None
        /\ client'[c].pc = "sessionRead"
        /\ \A d \in Clients \ {c} : client'[d] = client[d]
    BY <1>1, <1>5 DEF Call, Idle
  <2> QED BY <1>4, <2>1 DEF Requested
<1>6. ASSUME NEW c \in Clients, ReadSession(c)
      PROVE  \A d \in Clients : Requested(d)'
  <2>1. /\ client'[c] = [client[c] EXCEPT !.pc = "sessionRead", !.leaf = leaf]
        /\ client[c].pc = "called"
        /\ \A d \in Clients \ {c} : client'[d] = client[d]
        /\ UNCHANGED <<entries, leaf, mode>>
    BY <1>1, <1>6 DEF ReadSession
  <2>2. /\ client'[c].pc = "sessionRead" /\ client'[c].leaf = leaf
        /\ client'[c].entry = client[c].entry
        /\ client'[c].parent = client[c].parent
    BY <1>1, <2>1 DEF Client
  <2>3. Needed(leaf)' = Needed(leaf) /\ Requested(c)
    BY <2>1, NeededSame
  <2>4. Requested(c)'
    BY <2>1, <2>2, <2>3 DEF Requested
  <2> QED BY <1>2, <2>1, <2>4
<1>7. ASSUME NEW c \in Clients, NEW e \in Candidates(c), ListEntries(c, e)
      PROVE  \A d \in Clients : Requested(d)'
  <2>1. /\ client'[c] = [client[c] EXCEPT !.pc = "listed", !.entry = e,
                                          !.seen = Len(entries)]
        /\ client[c].pc = "sessionRead"
        /\ \A d \in Clients \ {c} : client'[d] = client[d]
        /\ UNCHANGED <<entries, leaf, mode>>
    BY <1>1, <1>7 DEF ListEntries
  <2>2. /\ client'[c].pc = "listed" /\ client'[c].leaf = client[c].leaf
        /\ client'[c].entry = e
        /\ client'[c].parent = client[c].parent
    BY <1>1, <2>1 DEF Client
  <2>3. Needed(leaf)' = Needed(leaf) /\ Requested(c)
    BY <2>1, NeededSame
  <2>4. IF client[c].entry = None THEN e \in Inputs ELSE e = client[c].entry
    BY DEF Candidates
  <2>5. e # None
    BY <2>4, InputsAreEntries, NoneIsAbsent
  <2>6. Requested(c)'
    BY <2>1, <2>2, <2>3, <2>4, <2>5 DEF Requested
  <2> QED BY <1>2, <2>1, <2>6
<1>8. ASSUME NEW c \in Clients, Reject(c) \/ Conflict(c) \/ Store(c)
      PROVE  \A d \in Clients : Requested(d)'
  <2>1. mode' = "live" /\ client'[c] = Idle
        /\ \A d \in Clients \ {c} : client'[d] = client[d]
    BY <1>1, <1>8 DEF Reject, Conflict, Store
  <2> QED BY <1>3, <1>4, <2>1
<1>9. ASSUME NEW c \in Clients, Recover(c)
      PROVE  \A d \in Clients : Requested(d)'
  <2> DEFINE plan == RecoveryPlan(leaf)
  <2>1. /\ client'[c] = [Idle EXCEPT !.pc = "called", !.entry = plan.entry,
                                     !.parent = plan.parent]
        /\ plan.entry # None
        /\ leaf # 0
        /\ \A d \in Clients \ {c} : client'[d] = client[d]
        /\ UNCHANGED <<entries, leaf, mode>>
    BY <1>1, <1>9 DEF Recover
  <2>2. plan = [entry |-> Needed(leaf), parent |-> 0]
    BY <1>1, <2>1, PlanIsNeeded
  <2> HIDE DEF plan
  <2>3. /\ client'[c].pc = "called" /\ client'[c].entry = Needed(leaf)
        /\ client'[c].parent = 0 /\ Needed(leaf) # None
    BY <2>1, <2>2 DEF Idle
  <2>4. Needed(leaf)' = Needed(leaf) /\ OfRecovery(Needed(leaf))
    BY <2>1, <2>3, NeededSame, NeededType
  <2>5. Requested(c)'
    BY <2>1, <2>3, <2>4 DEF Requested, OfRecovery
  <2> QED BY <1>2, <2>1, <2>5
<1>10. CASE Crash
  <2>1. \A d \in Clients : client'[d] = Idle
    BY <1>10 DEF Crash
  <2> QED BY <1>3, <2>1
<1>11. CASE RecoverNothing \/ DeleteSession
  <2>1. mode' = "live" /\ client' = client
    BY <1>11 DEF RecoverNothing, DeleteSession
  <2> QED BY <1>4, <2>1
<1>12. CASE UNCHANGED vars
  BY <1>2, <1>12 DEF vars
<1> QED
  BY <1>5, <1>6, <1>7, <1>8, <1>9, <1>10, <1>11, <1>12 DEF Next

LEMMA NextRecovery ==
  PathInv /\ RecoveryInv /\ [Next]_vars => RecoveryInv'
<1> SUFFICES ASSUME PathInv, RecoveryInv, [Next]_vars PROVE RecoveryInv'
  OBVIOUS
<1>1. \A c \in Clients : Requested(c)'
  BY NextRequested DEF RecoveryInv
<1>2. CASE UNCHANGED <<entries, leaf>>
  <2>1. KindInv'
    BY <1>2 DEF RecoveryInv, KindInv, ProposesNothing
  <2>2. ASSUME NEW n \in DOMAIN entries PROVE StatusShown(n)'
    <3>1. UnmatchedStarts(n)' = UnmatchedStarts(n)
      BY <1>2 DEF UnmatchedStarts, SettlesAction, Between, Path
    <3>2. \A m : InterruptedSince(n, m)' <=> InterruptedSince(n, m)
      BY <1>2 DEF InterruptedSince, Between, Path
    <3>3. StatusShown(n)
      BY DEF RecoveryInv
    <3> QED BY <1>2, <3>1, <3>2, <3>3 DEF StatusShown
  <2> QED BY <1>1, <1>2, <2>1, <2>2 DEF RecoveryInv
<1>3. ASSUME NEW c \in Clients, Store(c) PROVE RecoveryInv'
  <2>1. KindInv'
    BY <1>3, StoreKind DEF PathInv, RecoveryInv
  <2>2. (\A i \in DOMAIN entries : StatusShown(i))'
    <3> PICK n \in Nat \ {0} :
          \E q \in 1..(n - 1) :
            \E e \in Entry, p \in Projection : Extends(n, q, e, p)
      BY <1>3, StoreExtends DEF PathInv
    <3> PICK q \in 1..(n - 1), e \in Entry, p \in Projection :
          Extends(n, q, e, p)
      OBVIOUS
    <3> QED BY ExtendsStatus DEF RecoveryInv
  <2> QED BY <1>1, <2>1, <2>2 DEF RecoveryInv
<1>4. CASE entries' = << >>
  BY <1>1, <1>4 DEF RecoveryInv, KindInv
<1> QED BY <1>2, <1>3, <1>4, LedgerSteps

LEMMA InitRecovery == Init => RecoveryInv
<1> SUFFICES ASSUME Init PROVE RecoveryInv
  OBVIOUS
<1>1. \A c \in Clients : Requested(c)
  BY DEF Init, Requested, Idle
<1>2. KindInv
  BY NoneIsAbsent
  DEF Init, KindInv, CreatedNode, CreatedEntry, BlankEntry, FirstProjection,
      WorkerStatus, RuntimeStatuses
<1>3. \A n \in DOMAIN entries : StatusShown(n)
  BY DEF Init, StatusShown, CreatedNode, CreatedEntry, BlankEntry,
         FirstProjection, UnmatchedStarts, Path
<1> QED BY <1>1, <1>2, <1>3 DEF RecoveryInv

(* A session that needs nothing is as the restart should leave it.         *)
LEMMA NothingNeeded ==
  PathInv /\ RecoveryInv /\ (leaf # 0 => Needed(leaf) = None) => Recovered
<1> SUFFICES ASSUME PathInv, RecoveryInv, leaf # 0, Needed(leaf) = None
             PROVE  Recovered
  BY DEF Recovered
<1> DEFINE p == entries[leaf].proj
           s == entries[leaf].entry.runtimeStatus
<1>1. /\ leaf \in DOMAIN entries /\ entries[leaf] \in Node
      /\ StatusShown(leaf)
  BY DEF PathInv, TypeInv, TypeOK, RecoveryInv
<1>2. s \in RuntimeStatuses \cup {None} /\ p \in Projection
  BY <1>1 DEF Node, Entry, EntryRecord
<1>3. RecoveryPlan(leaf).entry = None
  BY <1>1, PlanIsNeeded
<1>4. UnmatchedStarts(leaf) # {} => p.status = "Interrupted"
  <2>1. InterruptEntry # None
    BY <1>2, RecoveryEntries, NoneIsAbsent
  <2> QED BY <1>1, <2>1 DEF Needed, StatusShown
<1>5. ASSUME p.pending # None, p.pending.approved PROVE FALSE
  <2>1. p.status = "Active" /\ UnmatchedStarts(leaf) = {}
    BY <1>1, <1>4, <1>5 DEF StatusShown
  <2>2. RecoveryEntry(p, s) = None
    BY <2>1 DEF Needed
  <2>3. s # WorkerStatus
    BY <1>1, <1>5, WorkersProposeNothing
    DEF RecoveryInv, KindInv, ProposesNothing
  <2>4. /\ InterruptEntry # None
        /\ ReapprovalEntry(p, "patch_reapproval") # None
        /\ ReapprovalEntry(p, "command_reapproval") # None
        /\ \A k \in {"Done", "Failed", "Cancelled", "LimitReached"} :
             EndedBy(k) # None
    BY <1>2, RecoveryEntries, NoneIsAbsent DEF Reapprovals
  <2> QED BY <1>2, <2>1, <2>2, <2>3, <2>4
          DEF RecoveryEntry, RuntimeStatuses, WorkerStatus
<1> QED BY <1>3, <1>4, <1>5 DEF Recovered

(* The recovery append itself: behind it nothing more is needed. *)
LEMMA RecoveryStored ==
  ASSUME PathInv, RecoveryInv, RecoveryInv', mode = "recovering",
         NEW c \in Clients, Store(c)
  PROVE  leaf' # 0 /\ Needed(leaf)' = None
<1>0. PICK n \in Nat \ {0} : n = Len(entries) + 1
  BY DEF PathInv, TypeInv, TypeOK
<1> DEFINE p == entries[leaf].proj
           e == client[c].entry
<1>1. /\ leaf # 0 /\ e = Needed(leaf) /\ e # None
      /\ ParentOf(client[c]) = leaf
  BY DEF RecoveryInv, Requested, Store, ParentOf
<1>2. /\ Len(entries) \in Nat
      /\ DOMAIN entries = 1..Len(entries) /\ DOMAIN entries' = 1..n
      /\ leaf \in DOMAIN entries /\ n \in DOMAIN entries'
      /\ e \in Entry /\ Accepts(p, e) /\ p \in Projection
      /\ entries'[n].proj = After(p, e)
      /\ Extends(n, leaf, e, p)
  BY <1>0, <1>1, StoredNode DEF PathInv, Extends
<1>3. leaf' = n
  BY <1>0 DEF Store
<1>4. /\ e.type \in {"SESSION_INTERRUPTED", "RECOVERY_REQUIRED", "ENDED"}
      /\ UnmatchedStarts(leaf) # {} => e.type = "SESSION_INTERRUPTED"
  <2>1. InterruptEntry.type = "SESSION_INTERRUPTED"
        /\ \A why : ReapprovalEntry(p, why).type = "RECOVERY_REQUIRED"
        /\ \A s : EndedBy(s).type = "ENDED"
    BY DEF InterruptEntry, ReapprovalEntry, EndedBy, BlankEntry
  <2> HIDE DEF p, e
  <2> QED BY <1>1, <2>1 DEF Needed, RecoveryEntry, p
<1> HIDE DEF e, p
<1>5. /\ UnmatchedStarts(n)' = UnmatchedStarts(leaf)
      /\ \A m \in UnmatchedStarts(leaf) :
           InterruptedSince(n, m)' <=>
             InterruptedSince(leaf, m) \/ e.type = "SESSION_INTERRUPTED"
  <2>1. leaf \in 1..(n - 1) /\ TypeInv
    BY <1>0, <1>2 DEF PathInv
  <2> QED BY <1>2, <1>4, <2>1, ExtendsUnmatched
<1>6. After(p, e).status # "Active"
  BY <1>2, <1>4, AfterStatus, AfterEnd DEF EndStatuses
<1>7. Needed(n)' = None
  <2>1. CASE UnmatchedStarts(leaf) # {}
    BY <1>4, <1>5, <2>1 DEF Needed
  <2>2. CASE UnmatchedStarts(leaf) = {}
    BY <1>2, <1>5, <1>6, <2>2 DEF Needed, RecoveryEntry
  <2> QED BY <2>1, <2>2
<1>8. Needed(leaf)' = Needed(n)'
  BY <1>3
<1> QED BY <1>3, <1>7, <1>8

(* When a restart's recovery returns, recovering once more appends         *)
(* nothing, unsettled started evidence is shown as interrupted and no      *)
(* approval is in force (recovery.ts), for every ledger the appends of     *)
(* any callers and any number of restarts can leave.                       *)
THEOREM RecoverySettlesAll == Spec => RecoverySettles
<1>1. PathInv /\ RecoveryInv /\ PathInv' /\ RecoveryInv' /\ [Next]_vars
        => [RecoveryReturned => Recovered']_vars
  <2> SUFFICES ASSUME PathInv, RecoveryInv, PathInv', RecoveryInv',
                      [Next]_vars, RecoveryReturned
               PROVE  Recovered'
    OBVIOUS
  <2>1. (PathInv /\ RecoveryInv /\ (leaf # 0 => Needed(leaf) = None)
           => Recovered)'
    BY NothingNeeded, PTL
  <2>2. \/ \E c \in Clients : Reject(c) \/ Conflict(c) \/ Store(c)
        \/ RecoverNothing
    BY DEF RecoveryReturned, Next, Call, ReadSession, ListEntries, Crash,
           Recover, DeleteSession, vars
  <2>3. ASSUME NEW c \in Clients, Reject(c) \/ Conflict(c) PROVE FALSE
    BY <2>3 DEF RecoveryReturned, Reject, Conflict
  <2>4. ASSUME NEW c \in Clients, Store(c) PROVE Recovered'
    BY <2>1, <2>4, RecoveryStored DEF RecoveryReturned
  <2>5. CASE RecoverNothing
    <3>1. leaf # 0 => Needed(leaf) = None
      BY <2>5, PlanIsNeeded
      DEF RecoverNothing, PathInv, TypeInv, TypeOK
    <3>2. Needed(leaf)' = Needed(leaf) /\ leaf' = leaf
      <4>1. UNCHANGED <<entries, leaf>>
        BY <2>5 DEF RecoverNothing
      <4> QED BY <4>1, NeededSame DEF Needed, UnmatchedStarts,
                                     InterruptedSince, Between, Path
    <3> QED BY <2>1, <3>1, <3>2
  <2> QED BY <2>2, <2>3, <2>4, <2>5
<1>2. Spec => [](PathInv /\ RecoveryInv)
  <2>1. Init => PathInv /\ RecoveryInv
    BY InitTypeInv, InitSettlement, InitEnd, InitRecovery DEF PathInv
  <2>2. PathInv /\ RecoveryInv /\ [Next]_vars => PathInv' /\ RecoveryInv'
    BY NextTypeInv, NextSettlement, NextEnd, NextRecovery DEF PathInv
  <2> QED BY <2>1, <2>2, PTL DEF Spec
<1> QED BY <1>1, <1>2, PTL DEF Spec, RecoverySettles

=============================================================================
