-------------------------- MODULE AgentLoopProofs --------------------------
(***************************************************************************)
(* Theorems about AgentLoop, for any limits and any requests of the model. *)
(* Most steps end in Stop, NextTurn or NextCall: the lemma Carried says    *)
(* once what those leave behind, and the steps use no more of them.        *)
(***************************************************************************)
EXTENDS AgentLoop, SequenceTheorems, TLAPS

Before == {"startingPatch", "deciding", "startingCommand"}
After == (PatchAwaits \cup CommandAwaits) \ Before

(* The two halves of TypeOK. *)
TaskTyped ==
  /\ status \in Statuses
  /\ pendingPatch \in Patches \cup {None}
  /\ pendingCommand \in Commands \cup {None}
  /\ queue \in Seq(Kinds)
  /\ loop \in {"idle", "streaming", "preparing", "reading", "resolving"}
  /\ inLoop \in BOOLEAN
  /\ turns \in 0..MaxTurns /\ total \in 0..MaxTotal
  /\ calls \in [Kinds \ {"list"} -> Nat]
  /\ \A k \in Kinds \ {"list"} : calls[k] <= MaxCalls[k]
  /\ proposals \in 0..MaxPatches /\ asked \in 0..calls["command"]

EffectsTyped ==
  /\ op \in [pc : {"idle"} \cup PatchAwaits \cup CommandAwaits,
            action : Actions \cup {None}, verified : BOOLEAN, told : BOOLEAN]
  /\ cancelling \in BOOLEAN /\ rolling \in {"no", "one", "all"}
  /\ late \in BOOLEAN
  /\ history \in Seq(Patches)
  /\ disk \subseteq Patches
  /\ started \subseteq Actions /\ settled \subseteq Actions
  /\ approved \subseteq Actions /\ allowed \subseteq Commands
  /\ runs \in [Actions -> 0..MaxRuns]

(* Who carries the task on, and what may be pending meanwhile. *)
TaskInv ==
  /\ Terminal => queue = <<>>
  /\ loop # "idle" => op.pc = "idle" /\ ~cancelling
  /\ loop # "idle" => pendingPatch = None /\ pendingCommand = None
  /\ loop # "idle" => status \notin Waiting \cup {None}
  /\ loop = "resolving" => asked < calls["command"]
  /\ pendingPatch # None => status = "WaitingForPatchApproval"
  /\ pendingCommand # None => status = "WaitingForCommandApproval"
  /\ status = "WaitingForPatchApproval" => pendingPatch # None
  /\ status = "WaitingForCommandApproval" => pendingCommand # None
  /\ status = None => loop = "idle" /\ op.pc = "idle" /\ ~cancelling
  /\ inLoop => loop # "idle"
  /\ Terminal => op.pc = "idle"
  /\ cancelling => status \in TerminalStatuses \cup {"Cancelling"}
  /\ NoLostTask

OpInv ==
  /\ op.pc = "idle" => op = NoOp
  /\ op.pc \in PatchAwaits => op.action \in Patches
  /\ op.pc \in CommandAwaits => op.action \in Commands
  /\ op.pc # "idle" => pendingPatch \in {None, op.action}
  /\ op.pc # "idle" => pendingCommand \in {None, op.action}
  /\ CancelledCommandsAreTold

RollingInv == rolling # "no" => history # <<>> /\ RollbackAlone

Asked(a) == a[2] <= (IF a \in Patches THEN proposals ELSE asked)

EvidenceInv ==
  /\ \A a \in Actions : a \in settled => runs[a] > 0
  /\ \A a \in Actions :
       runs[a] > 0 \/ a \in {op.action, pendingPatch, pendingCommand} => Asked(a)
  /\ pendingPatch # None => runs[pendingPatch] = 0
  /\ pendingCommand # None => runs[pendingCommand] = 0
  /\ op.pc \in Before => runs[op.action] = 0 /\ op.action \in approved
  /\ op.pc = "startingCommand" => op.action \in allowed
  /\ op.pc \in After => runs[op.action] > 0
  /\ UnsettledStops

IInv ==
  /\ TaskTyped /\ EffectsTyped
  /\ TaskInv /\ OpInv /\ RollingInv /\ EvidenceInv

(* What Stop, NextTurn and NextCall leave behind. *)
CarriedOn ==
  /\ TaskTyped'
  /\ pendingPatch' = None /\ pendingCommand' = None
  /\ proposals' = proposals /\ asked' = asked
  /\ status' \notin Waiting \cup {None, "Cancelling"}
  /\ Terminal' => loop' = "idle" /\ queue' = <<>>
  /\ ~Terminal' => loop' # "idle"
  /\ inLoop' => loop' # "idle"
  /\ loop' = "resolving" => asked' < calls'["command"]

(* Steps that hand the task on and leave no operation behind.              *)
Ends ==
  /\ ~Terminal
  /\ \/ CarriedOn
     \/ cancelling /\ UNCHANGED <<taskVars, loopVars>>
  /\ cancelling => Terminal' \/ UNCHANGED status
  /\ op' = NoOp
  /\ UNCHANGED <<cancelling, rolling, runs>>
  /\ \/ settled' = settled
     \/ op.pc \in After /\ settled' = settled \cup {op.action}
  /\ op.pc \in After => op.action \in settled' \/ Terminal' \/ cancelling

-----------------------------------------------------------------------------

(* What every step does to the side effects: at most one of them moves on, *)
(* legally, and what is dispatched is authorised.                          *)
LegalMoves ==
  {<<"none", "requested">>, <<"requested", "authorised">>,
   <<"requested", "closed">>, <<"authorised", "closed">>,
   <<"authorised", "running">>, <<"running", "settled">>,
   <<"running", "uncertain">>}

Alone(a) == \A b \in Actions \ {a} : EffectOf(b)' = EffectOf(b)

MovesOne ==
  \/ \A b \in Actions : EffectOf(b)' = EffectOf(b)
  \/ \E a \in Actions :
       <<EffectOf(a), EffectOf(a)'>> \in LegalMoves /\ Alone(a)

Authorised ==
  \A a \in Actions :
    runs'[a] # runs[a] =>
      /\ runs[a] = 0
      /\ a \in approved /\ a \in started'
      /\ ~Terminal
      /\ a \in Commands => a \in allowed
      /\ a \in Patches => ~cancelling /\ ~late

Final ==
  Terminal => UNCHANGED <<taskVars, turns, total, calls, proposals, asked,
                          evidence>>

Good == IInv' /\ MovesOne /\ Authorised /\ Final

-----------------------------------------------------------------------------

LEMMA SamePhases ==
  ASSUME UNCHANGED <<settled, runs, pendingPatch, pendingCommand, proposals,
                     asked>>,
         op'.action = op.action, op.pc \in Before <=> op'.pc \in Before
  PROVE  \A b \in Actions : EffectOf(b)' = EffectOf(b)
  BY DEF EffectOf, Before

LEMMA StillIsGood ==
  ASSUME IInv', Final,
         UNCHANGED <<settled, runs, pendingPatch, pendingCommand, proposals,
                     asked>>,
         op'.action = op.action, op.pc \in Before <=> op'.pc \in Before
  PROVE  Good
  BY SamePhases DEF Good, MovesOne, Authorised

LEMMA TypeParts == TypeOK <=> TaskTyped /\ EffectsTyped
  BY DEF TypeOK, TaskTyped, EffectsTyped

LEMMA StopCarries ==
  ASSUME TaskTyped, NEW s \in TerminalStatuses, Stop(s)
  PROVE  CarriedOn
<1>1. TaskTyped'
  <2>1. s \in Statuses
    BY DEF Statuses
  <2>2. queue' \in Seq(Kinds)
    BY DEF Stop, NothingPending
  <2> QED
    BY <2>1, <2>2 DEF TaskTyped, Stop, NothingPending
<1>2. s \notin Waiting \cup {None, "Cancelling"}
  BY NoneIsNoStatus DEF TerminalStatuses, Waiting
<1>3. Terminal'
  BY DEF Stop, Terminal
<1> QED
  BY <1>1, <1>2, <1>3 DEF Stop, NothingPending, CarriedOn

LEMMA NextTurnCarries ==
  ASSUME TaskTyped, NextTurn
  PROVE  CarriedOn
<1>1. CASE late \/ turns >= MaxTurns
  BY <1>1, StopCarries DEF NextTurn, TerminalStatuses
<1>2. CASE ~(late \/ turns >= MaxTurns)
  <2>1. turns + 1 \in 0..MaxTurns
    BY <1>2, LimitsAreNat DEF TaskTyped
  <2>2. status' = "Streaming" /\ loop' = "streaming" /\ turns' = turns + 1
    BY <1>2 DEF NextTurn
  <2>3. "Streaming" \in Statuses /\ "Streaming" \notin TerminalStatuses
    BY DEF Statuses, Working, TerminalStatuses
  <2>4. queue' \in Seq(Kinds)
    BY <1>2 DEF NextTurn, NothingPending
  <2>5. TaskTyped'
    BY <1>2, <2>1, <2>2, <2>3, <2>4 DEF TaskTyped, NextTurn, NothingPending
  <2> QED
    BY <1>2, <2>2, <2>3, <2>5, NoneIsNoStatus
    DEF NextTurn, NothingPending, CarriedOn, Terminal, Waiting, Working
<1> QED
  BY <1>1, <1>2

LEMMA NextCallCarries ==
  ASSUME TaskTyped, NEW q \in Seq(Kinds),
         NEW s \in {"Streaming", "ReturningToolResult"}, NextCall(q, s)
  PROVE  CarriedOn
<1>1. CASE q = <<>>
  BY <1>1, NextTurnCarries DEF NextCall
<1>2. CASE q # <<>> /\ (late \/ OverBudget(Head(q)))
  BY <1>2, StopCarries DEF NextCall, TerminalStatuses
<1>3. CASE q # <<>> /\ ~(late \/ OverBudget(Head(q)))
  <2> DEFINE k == Head(q)
  <2>1. k \in Kinds /\ Tail(q) \in Seq(Kinds)
    BY <1>3
  <2>2. total + 1 \in 0..MaxTotal
    BY <1>3, LimitsAreNat DEF TaskTyped, OverBudget
  <2>3. k # "list" => calls[k] \in Nat /\ calls[k] + 1 <= MaxCalls[k]
    BY <1>3, <2>1, LimitsAreNat DEF TaskTyped, OverBudget
  <2>4. /\ calls' \in [Kinds \ {"list"} -> Nat]
        /\ \A j \in Kinds \ {"list"} : calls'[j] <= MaxCalls[j]
        /\ calls["command"] <= calls'["command"]
        /\ k = "command" => calls'["command"] = calls["command"] + 1
    BY <1>3, <2>1, <2>3 DEF TaskTyped, NextCall, Kinds
  <2>5. /\ status' \in {"Streaming", "ReturningToolResult", "ExecutingReadTool"}
        /\ loop' \in {"reading", "resolving"}
        /\ loop' = "resolving" => k = "command"
    BY <1>3 DEF NextCall
  <2>6. status' \in Statuses /\ status' \notin TerminalStatuses
    BY <2>5 DEF Statuses, Working, TerminalStatuses
  <2>7. /\ pendingPatch' = None /\ pendingCommand' = None
        /\ UNCHANGED <<inLoop, turns, proposals, asked>>
        /\ total' = total + 1
        /\ queue' = Tail(q)
    BY <1>3 DEF NextCall
  <2>8. /\ asked' \in 0..calls'["command"]
        /\ loop' = "resolving" => asked' < calls'["command"]
    BY <2>4, <2>5, <2>7 DEF TaskTyped, Kinds
  <2>9. TaskTyped'
    BY <2>1, <2>2, <2>4, <2>5, <2>6, <2>7, <2>8 DEF TaskTyped
  <2> QED
    BY <2>5, <2>6, <2>7, <2>8, <2>9, NoneIsNoStatus
    DEF CarriedOn, Terminal, Waiting, Working
<1> QED
  BY <1>1, <1>2, <1>3

LEMMA EndsUnsettled ==
  ASSUME IInv, Ends, EffectsTyped'
  PROVE  UnsettledStops'
<1> SUFFICES ASSUME NEW a \in Actions, runs[a] > 0, a \notin settled',
                    ~cancelling
             PROVE  Terminal'
  BY DEF UnsettledStops, Ends
<1>1. a \notin settled
  BY DEF Ends
<1>2. op.action = a
  BY <1>1 DEF IInv, EvidenceInv, UnsettledStops, Ends
<1>3. op.pc \in After
  BY <1>2, NoneIsAbsent
  DEF IInv, EvidenceInv, OpInv, EffectsTyped, After, Before, NoOp
<1> QED
  BY <1>2, <1>3 DEF Ends

(* What the user was asked for is withdrawn. *)
LEMMA DropMoves ==
  ASSUME IInv, op.pc = "idle", op'.action = None,
         pendingPatch' = None, pendingCommand' = None,
         UNCHANGED <<proposals, asked, runs, settled>>
  PROVE  MovesOne
<1> USE DEF IInv
<1>1. op.action = None
  BY DEF OpInv, NoOp
<1>2. pendingPatch = None \/ pendingCommand = None
  BY DEF TaskInv
<1>3. ASSUME NEW a \in Actions, a \in {pendingPatch, pendingCommand}
      PROVE  /\ EffectOf(a) = "requested" /\ EffectOf(a)' = "closed"
             /\ Alone(a)
  <2>1. a # None /\ runs[a] = 0 /\ a \notin settled /\ Asked(a)
    BY <1>3, NoneIsAbsent DEF EvidenceInv
  <2>2. ~(a[2] > (IF a \in Patches THEN proposals ELSE asked))
    BY <2>1, LimitsAreNat DEF Asked, TaskTyped, Actions, Patches, Commands
  <2>3. EffectOf(a) = "requested" /\ EffectOf(a)' = "closed"
    BY <1>1, <1>3, <2>1, <2>2, NoneIsAbsent DEF EffectOf
  <2>4. Alone(a)
    BY <1>1, <1>2, <1>3, <2>1, NoneIsAbsent DEF Alone, EffectOf
  <2> QED
    BY <2>3, <2>4
<1>4. CASE \E a \in Actions : a \in {pendingPatch, pendingCommand}
  BY <1>3, <1>4 DEF MovesOne, LegalMoves
<1>5. CASE ~\E a \in Actions : a \in {pendingPatch, pendingCommand}
  BY <1>1, <1>5, NoneIsAbsent DEF MovesOne, EffectOf
<1> QED
  BY <1>4, <1>5

LEMMA EndsMoves ==
  ASSUME IInv, Ends
  PROVE  MovesOne
<1> USE DEF IInv
<1>1. op'.action = None
  BY DEF Ends, NoOp
<1>2. \/ pendingPatch' = None /\ pendingCommand' = None
      \/ UNCHANGED <<pendingPatch, pendingCommand>>
  BY DEF Ends, CarriedOn, taskVars
<1>3. proposals' = proposals /\ asked' = asked /\ runs' = runs
  BY DEF Ends, CarriedOn, loopVars
<1>5. CASE op.pc = "idle"
  <2>1. op.action = None /\ settled' = settled
    BY <1>5 DEF OpInv, NoOp, Ends, After, PatchAwaits, CommandAwaits
  <2>2. CASE UNCHANGED <<pendingPatch, pendingCommand>>
    BY <1>1, <1>3, <2>1, <2>2, NoneIsAbsent DEF MovesOne, EffectOf
  <2>3. CASE pendingPatch' = None /\ pendingCommand' = None
    BY <1>1, <1>3, <1>5, <2>1, <2>3, DropMoves
  <2> QED
    BY <1>2, <2>2, <2>3
<1>6. CASE op.pc # "idle"
  <2>0. PICK a : a = op.action
    OBVIOUS
  <2>1. a \in Actions /\ a # None /\ Asked(a)
    BY <1>6, <2>0, NoneIsAbsent DEF OpInv, EffectsTyped, EvidenceInv, Actions
  <2>2. ~(a[2] > (IF a \in Patches THEN proposals ELSE asked))
    BY <2>1, LimitsAreNat DEF Asked, TaskTyped, Actions, Patches, Commands
  <2>3. pendingPatch' = None /\ pendingCommand' = None
    BY <1>2, NoneIsNoStatus
    DEF Ends, CarriedOn, TaskInv, taskVars, Waiting, Terminal
  <2>4. settled' \in {settled, settled \cup {a}}
    BY <2>0 DEF Ends
  <2>5. \A b \in Actions \ {a} : EffectOf(b)' = EffectOf(b)
    BY <1>1, <1>3, <1>6, <2>0, <2>3, <2>4, NoneIsAbsent DEF EffectOf, OpInv
  <2>6. CASE op.pc \in Before
    <3>1. runs[a] = 0 /\ a \notin settled /\ a \notin settled'
      BY <2>0, <2>1, <2>6 DEF EvidenceInv, Ends, After
    <3>2. EffectOf(a) = "authorised" /\ EffectOf(a)' = "closed"
      BY <1>1, <1>3, <2>0, <2>1, <2>2, <2>3, <2>6, <3>1, NoneIsAbsent
      DEF EffectOf, Before
    <3> QED
      BY <2>1, <2>5, <3>2 DEF MovesOne, Alone, LegalMoves
  <2>7. CASE op.pc \notin Before
    <3>1. op.pc \in After
      BY <1>6, <2>7 DEF After, EffectsTyped
    <3>2. runs[a] > 0
      BY <2>0, <3>1 DEF EvidenceInv
    <3>3. EffectOf(a) = "running" /\ EffectOf(a)' \in {"settled", "uncertain"}
      BY <1>1, <1>3, <2>0, <2>1, <2>7, <3>2, NoneIsAbsent DEF EffectOf, Before
    <3> QED
      BY <2>1, <2>5, <3>3 DEF MovesOne, Alone, LegalMoves
  <2> QED
    BY <2>6, <2>7
<1> QED
  BY <1>5, <1>6

(* A step that hands the task on preserves but the types of the *)
(* effects, which are the step's own.                                      *)
LEMMA EndsPreserves ==
  ASSUME IInv, Ends, EffectsTyped'
  PROVE  Good
<1>a. MovesOne /\ Authorised /\ Final
  BY EndsMoves DEF Ends, Authorised, Final
<1> USE DEF IInv
<1>1. op'.pc = "idle" /\ op'.action = None /\ op'.told = FALSE
  BY DEF Ends, NoOp
<1>2. CASE CarriedOn
  <2>1. cancelling' => Terminal'
    BY <1>2, NoneIsNoStatus
    DEF Ends, CarriedOn, TaskInv, Terminal, TerminalStatuses
  <2>2. TaskInv'
    BY <1>1, <1>2, <2>1, NoneIsNoStatus
    DEF CarriedOn, TaskInv, NoLostTask, Terminal, TerminalStatuses, Waiting
  <2>3. OpInv'
    BY <1>1 DEF OpInv, Ends, PatchAwaits, CommandAwaits,
                CancelledCommandsAreTold
  <2>4. RollingInv'
    BY DEF Ends, RollingInv, RollbackAlone
  <2>5. \A a \in Actions : Asked(a)' <=> Asked(a)
    BY <1>2 DEF CarriedOn, Asked
  <2>6. \A a \in Actions : a \in settled' => runs'[a] > 0
    BY DEF Ends, EvidenceInv
  <2>7. UnsettledStops'
    BY EndsUnsettled
  <2>8. EvidenceInv'
    BY <1>1, <1>2, <2>5, <2>6, <2>7, NoneIsAbsent
    DEF EvidenceInv, CarriedOn, Ends, Before, After, PatchAwaits, CommandAwaits
  <2> QED
    BY <1>a, <1>2, <2>2, <2>3, <2>4, <2>8 DEF CarriedOn, Good
<1>3. CASE cancelling /\ UNCHANGED <<taskVars, loopVars>>
  <2> USE DEF taskVars, loopVars
  <2>1. TaskTyped'
    BY <1>3 DEF TaskTyped
  <2>2. TaskInv'
    BY <1>1, <1>3 DEF TaskInv, NoLostTask, Ends, Terminal, AwaitsUser
  <2>3. OpInv'
    BY <1>1 DEF OpInv, Ends, PatchAwaits, CommandAwaits,
                CancelledCommandsAreTold
  <2>4. RollingInv'
    BY DEF Ends, RollingInv, RollbackAlone
  <2>5. \A a \in Actions : Asked(a)' <=> Asked(a)
    BY <1>3 DEF Asked
  <2>6. \A a \in Actions : a \in settled' => runs'[a] > 0
    BY DEF Ends, EvidenceInv
  <2>7. UnsettledStops'
    BY EndsUnsettled
  <2>8. EvidenceInv'
    BY <1>1, <1>3, <2>5, <2>6, <2>7, NoneIsAbsent
    DEF EvidenceInv, Ends, Before, After, PatchAwaits, CommandAwaits
  <2> QED
    BY <1>a, <2>1, <2>2, <2>3, <2>4, <2>8 DEF Good
<1> QED
  BY <1>2, <1>3 DEF Ends

(* The same for the steps of the loop and the answers of the user.         *)
LEMMA CarriesPreserve ==
  ASSUME IInv, CarriedOn, ~Terminal, ~cancelling, op.pc = "idle",
         UNCHANGED <<op, cancelling, rolling, late, history, disk, evidence>>
  PROVE  Good
<1>1. op = NoOp
  BY DEF IInv, OpInv
<1>2. EffectsTyped'
  BY DEF IInv, EffectsTyped, evidence
<1>3. Ends
  BY <1>1 DEF Ends, After, PatchAwaits, CommandAwaits, evidence
<1> QED
  BY <1>2, <1>3, EndsPreserves

(* What is newly asked for was never run. *)
LEMMA FreshPatch ==
  ASSUME IInv, proposals < MaxPatches
  PROVE  /\ <<"patch", proposals + 1>> \in Patches
         /\ runs[<<"patch", proposals + 1>>] = 0
         /\ \A a \in Actions :
              Asked(a) => a[2] <= (IF a \in Patches THEN proposals + 1 ELSE asked)
<1> DEFINE p == <<"patch", proposals + 1>>
<1>1. proposals \in Nat /\ asked \in Nat /\ proposals + 1 \in 1..MaxPatches
  BY LimitsAreNat DEF IInv, TaskTyped
<1>2. p \in Patches /\ p[2] = proposals + 1
  BY <1>1 DEF Patches
<1>3. ~Asked(p)
  BY <1>1, <1>2 DEF Asked
<1>4. runs[p] = 0
  BY <1>2, <1>3 DEF IInv, EvidenceInv, EffectsTyped, Actions
<1>5. \A a \in Actions : a[2] \in Nat
  BY DEF Actions, Patches, Commands
<1> QED
  BY <1>1, <1>2, <1>4, <1>5 DEF Asked

LEMMA FreshCommand ==
  ASSUME IInv, loop = "resolving"
  PROVE  /\ <<"command", asked + 1>> \in Commands
         /\ runs[<<"command", asked + 1>>] = 0
         /\ \A a \in Actions :
              Asked(a) => a[2] <= (IF a \in Patches THEN proposals ELSE asked + 1)
<1> DEFINE p == <<"command", asked + 1>>
<1>1. proposals \in Nat /\ asked \in Nat
      /\ asked + 1 \in 1..MaxCalls["command"]
  BY LimitsAreNat DEF IInv, TaskTyped, TaskInv, Kinds
<1>2. p \in Commands /\ p[2] = asked + 1 /\ p \notin Patches
  BY <1>1 DEF Commands, Patches
<1>3. ~Asked(p)
  BY <1>1, <1>2 DEF Asked
<1>4. runs[p] = 0
  BY <1>2, <1>3 DEF IInv, EvidenceInv, EffectsTyped, Actions
<1>5. \A a \in Actions : a[2] \in Nat
  BY DEF Actions, Patches, Commands
<1> QED
  BY <1>1, <1>2, <1>4, <1>5 DEF Asked

(* Asking the user leaves the evidence as it is. *)
LEMMA AskedPreserves ==
  ASSUME IInv, NEW p \in Actions, runs[p] = 0, Asked(p)',
         \A a \in Actions : Asked(a) => Asked(a)',
         op.pc = "idle", ~Terminal,
         pendingPatch' \in {None, p}, pendingCommand' \in {None, p},
         UNCHANGED <<op, cancelling, evidence>>
  PROVE  EvidenceInv'
<1> USE DEF IInv, evidence
<1>1. op.action = None
  BY DEF OpInv, NoOp
<1>2. \A a \in Actions :
        runs'[a] > 0 \/ a \in {op'.action, pendingPatch', pendingCommand'}
          => Asked(a)'
  BY <1>1, NoneIsAbsent DEF EvidenceInv
<1>3. UnsettledStops'
  BY DEF EvidenceInv, UnsettledStops
<1> QED
  BY <1>2, <1>3, NoneIsAbsent
  DEF EvidenceInv, Before, After, PatchAwaits, CommandAwaits

LEMMA AskedMoves ==
  ASSUME IInv, NEW p \in Actions, runs[p] = 0,
         \/ /\ p = <<"patch", proposals + 1>>
            /\ proposals' = proposals + 1 /\ asked' = asked
         \/ /\ p = <<"command", asked + 1>>
            /\ asked' = asked + 1 /\ proposals' = proposals,
         op.pc = "idle", ~Terminal,
         pendingPatch = None, pendingCommand = None,
         p \in {pendingPatch', pendingCommand'},
         pendingPatch' \in {None, p}, pendingCommand' \in {None, p},
         UNCHANGED <<op, evidence>>
  PROVE  MovesOne /\ Authorised /\ Final
<1> USE DEF IInv, evidence
<1>1. op.action = None /\ p # None
  BY NoneIsAbsent DEF OpInv, NoOp
<1>2. p \notin settled
  BY DEF EvidenceInv
<1>3. proposals \in Nat /\ asked \in Nat
  BY LimitsAreNat DEF TaskTyped
<1>4. \A a \in Actions :
        \/ a \in Patches /\ a[2] \in Nat /\ a = <<"patch", a[2]>>
        \/ a \notin Patches /\ a[2] \in Nat /\ a = <<"command", a[2]>>
  BY DEF Actions, Patches, Commands
<1>5. p[2] > (IF p \in Patches THEN proposals ELSE asked)
  <2>1. CASE p = <<"patch", proposals + 1>>
    BY <1>3, <1>4, <2>1
  <2>2. CASE p = <<"command", asked + 1>>
    BY <1>3, <1>4, <2>2
  <2> QED
    BY <2>1, <2>2
<1>6. EffectOf(p) = "none" /\ EffectOf(p)' = "requested"
  BY <1>1, <1>2, <1>5 DEF EffectOf
<1>7. \A a \in Actions \ {p} :
        a[2] > (IF a \in Patches THEN proposals ELSE asked)
          <=> a[2] > (IF a \in Patches THEN proposals' ELSE asked')
  <2> SUFFICES ASSUME NEW a \in Actions \ {p}
               PROVE  a[2] > (IF a \in Patches THEN proposals ELSE asked)
                        <=> a[2] > (IF a \in Patches THEN proposals' ELSE asked')
    OBVIOUS
  <2>1. CASE a \in Patches
    <3>1. a[2] \in Nat /\ a = <<"patch", a[2]>>
      BY <1>4, <2>1
    <3>2. \/ proposals' = proposals
          \/ proposals' = proposals + 1 /\ p = <<"patch", proposals + 1>>
      OBVIOUS
    <3>3. p = <<"patch", proposals + 1>> => a[2] # proposals + 1
      BY <3>1
    <3> QED
      BY <1>3, <2>1, <3>1, <3>2, <3>3
  <2>2. CASE a \notin Patches
    <3>1. a[2] \in Nat /\ a = <<"command", a[2]>>
      BY <1>4, <2>2
    <3>2. \/ asked' = asked
          \/ asked' = asked + 1 /\ p = <<"command", asked + 1>>
      OBVIOUS
    <3>3. p = <<"command", asked + 1>> => a[2] # asked + 1
      BY <3>1
    <3> QED
      BY <1>3, <2>2, <3>1, <3>2, <3>3
  <2> QED
    BY <2>1, <2>2
<1>8. Alone(p)
  BY <1>1, <1>7, NoneIsAbsent DEF Alone, EffectOf
<1> QED
  BY <1>6, <1>8 DEF MovesOne, LegalMoves, Authorised, Final

LEMMA ProposalPreserves ==
  ASSUME IInv, AnswerProposesPatch, proposals < MaxPatches
  PROVE  Good
<1>1. PICK p : p = <<"patch", proposals + 1>>
  OBVIOUS
<1>2. /\ p \in Patches /\ p \in Actions /\ p # None
      /\ runs[p] = 0
      /\ p[2] = proposals + 1
  BY <1>1, FreshPatch, NoneIsAbsent DEF Actions
<1>3. \A a \in Actions :
        Asked(a) => a[2] <= (IF a \in Patches THEN proposals + 1 ELSE asked)
  BY FreshPatch
<1> USE DEF IInv
<1>4. proposals \in Nat /\ proposals + 1 \in 0..MaxPatches
  BY LimitsAreNat DEF TaskTyped
<1>5. /\ ~Terminal /\ ~cancelling /\ op.pc = "idle" /\ rolling = "no"
      /\ pendingCommand = None
  BY DEF AnswerProposesPatch, LoopContinues, Live, TaskInv
<1>6. /\ pendingPatch' = p
      /\ status' = "WaitingForPatchApproval"
      /\ loop' = "idle" /\ inLoop' = FALSE
      /\ proposals' = proposals + 1
      /\ UNCHANGED <<pendingCommand, queue, turns, total, calls, asked>>
  BY <1>1, <1>4, LimitsAreNat DEF AnswerProposesPatch
<1>7. UNCHANGED <<op, cancelling, rolling, late, history, disk, evidence>>
  BY DEF AnswerProposesPatch, LoopContinues
<1>8. status' \in Statuses /\ ~Terminal'
  BY <1>6 DEF Statuses, Waiting, Terminal, TerminalStatuses
<1>9. TaskTyped' /\ EffectsTyped'
  BY <1>2, <1>4, <1>6, <1>7, <1>8 DEF TaskTyped, EffectsTyped, evidence
<1>10. TaskInv'
  BY <1>2, <1>5, <1>6, <1>7, <1>8, NoneIsNoStatus
  DEF TaskInv, NoLostTask, AwaitsUser, Waiting
<1>11. OpInv' /\ RollingInv'
  BY <1>5, <1>7 DEF OpInv, RollingInv, CancelledCommandsAreTold
<1>12. Asked(p)' /\ \A a \in Actions : Asked(a) => Asked(a)'
  BY <1>2, <1>3, <1>4, <1>6 DEF Asked
<1>13. EvidenceInv'
  BY <1>2, <1>5, <1>6, <1>7, <1>12, NoneIsAbsent, AskedPreserves
  DEF OpInv, NoOp
<1> QED
  <2>1. pendingPatch = None
    BY <1>5, <1>7 DEF AnswerProposesPatch, LoopContinues, TaskInv
  <2>2. MovesOne /\ Authorised /\ Final
    BY <1>1, <1>2, <1>5, <1>6, <1>7, <2>1, AskedMoves
  <2> QED
    BY <1>9, <1>10, <1>11, <1>13, <2>2 DEF Good

LEMMA ResolutionPreserves ==
  ASSUME IInv, CommandResolved
  PROVE  Good
<1>1. PICK p : p = <<"command", asked + 1>>
  OBVIOUS
<1>2. loop = "resolving"
  BY DEF CommandResolved, LoopContinues
<1>3. /\ p \in Commands /\ p \in Actions /\ p # None
      /\ runs[p] = 0
      /\ p[2] = asked + 1 /\ p \notin Patches
  BY <1>1, <1>2, FreshCommand, NoneIsAbsent DEF Actions, Patches
<1>4. \A a \in Actions :
        Asked(a) => a[2] <= (IF a \in Patches THEN proposals ELSE asked + 1)
  BY <1>2, FreshCommand
<1> USE DEF IInv
<1>5. asked \in Nat /\ asked + 1 \in 0..calls["command"]
  BY <1>2, LimitsAreNat DEF TaskTyped, TaskInv, Kinds
<1>6. /\ ~Terminal /\ ~cancelling /\ op.pc = "idle" /\ rolling = "no"
      /\ pendingPatch = None
  BY <1>2 DEF CommandResolved, LoopContinues, Live, TaskInv
<1>7. /\ pendingCommand' = p
      /\ status' = "WaitingForCommandApproval"
      /\ loop' = "idle" /\ inLoop' = FALSE
      /\ asked' = asked + 1
      /\ UNCHANGED <<pendingPatch, queue, turns, total, calls, proposals>>
  BY <1>1 DEF CommandResolved
<1>8. UNCHANGED <<op, cancelling, rolling, late, history, disk, evidence>>
  BY DEF CommandResolved, LoopContinues
<1>9. status' \in Statuses /\ ~Terminal'
  BY <1>7 DEF Statuses, Waiting, Terminal, TerminalStatuses
<1>10. TaskTyped' /\ EffectsTyped'
  BY <1>3, <1>5, <1>7, <1>8, <1>9 DEF TaskTyped, EffectsTyped, evidence
<1>11. TaskInv'
  BY <1>3, <1>6, <1>7, <1>8, <1>9, NoneIsNoStatus
  DEF TaskInv, NoLostTask, AwaitsUser, Waiting
<1>12. OpInv' /\ RollingInv'
  BY <1>6, <1>8 DEF OpInv, RollingInv, CancelledCommandsAreTold
<1>13. Asked(p)' /\ \A a \in Actions : Asked(a) => Asked(a)'
  BY <1>3, <1>4, <1>5, <1>7 DEF Asked
<1>14. EvidenceInv'
  BY <1>3, <1>6, <1>7, <1>8, <1>13, NoneIsAbsent, AskedPreserves
  DEF OpInv, NoOp
<1> QED
  <2>1. pendingCommand = None
    BY <1>2 DEF TaskInv
  <2>2. MovesOne /\ Authorised /\ Final
    BY <1>1, <1>3, <1>6, <1>7, <1>8, <2>1, AskedMoves
  <2> QED
    BY <1>10, <1>11, <1>12, <1>14, <2>2 DEF Good

LEMMA LoopPreserves ==
  ASSUME IInv, LoopStep
  PROVE  Good
<1> USE DEF IInv
<1>1. CASE Start
  <2>1. CarriedOn
    BY <1>1, NextTurnCarries, StopCarries DEF Start, TerminalStatuses
  <2>2. ~Terminal /\ ~cancelling /\ op.pc = "idle"
    BY <1>1, NoneIsNoStatus DEF Start, TaskInv, Terminal
  <2> QED
    BY <1>1, <2>1, <2>2, CarriesPreserve DEF Start
<1>2. CASE LoopReturns
  <2>1. Terminal
    BY <1>2, NoneIsNoStatus DEF LoopReturns, Live, TaskInv, RollingInv, RollbackAlone
  <2>2. TaskTyped' /\ EffectsTyped'
    BY <1>2 DEF LoopReturns, TaskTyped, EffectsTyped, taskVars, evidence
  <2>3. TaskInv'
    BY <1>2, <2>1 DEF LoopReturns, TaskInv, NoLostTask, Terminal, taskVars
  <2>4. OpInv' /\ RollingInv'
    BY <1>2 DEF LoopReturns, OpInv, RollingInv, RollbackAlone, Terminal,
                CancelledCommandsAreTold, taskVars
  <2>5. EvidenceInv'
    BY <1>2 DEF LoopReturns, EvidenceInv, UnsettledStops, Terminal, taskVars,
                evidence, Asked
  <2> QED
    BY <1>2, <2>2, <2>3, <2>4, <2>5, StillIsGood
    DEF LoopReturns, Final, taskVars, evidence
<1>3. ASSUME NEW pc \in {"streaming", "preparing", "reading", "resolving"},
             LoopContinues(pc), CarriedOn
      PROVE  Good
  <2>1. ~Terminal /\ ~cancelling /\ op.pc = "idle"
    BY <1>3 DEF LoopContinues, Live, TaskInv
  <2> QED
    BY <1>3, <2>1, CarriesPreserve DEF LoopContinues
<1>4. CASE LoopExpires
  BY <1>3, <1>4, StopCarries DEF LoopExpires, TerminalStatuses
<1>5. CASE LoopFails
  BY <1>3, <1>5, StopCarries DEF LoopFails, TerminalStatuses
<1>6. ASSUME NEW q \in Requests, StreamRequestsTools(q)
      PROVE  Good
  <2>1. q \in Seq(Kinds)
    BY RequestsAreCalls
  <2> QED
    BY <1>3, <1>6, <2>1, NextCallCarries DEF StreamRequestsTools
<1>7. CASE StreamAnswers
  <2>1. TaskTyped' /\ EffectsTyped'
    BY <1>7 DEF StreamAnswers, LoopContinues, TaskTyped, EffectsTyped, taskVars,
                evidence
  <2>2. TaskInv'
    BY <1>7 DEF StreamAnswers, LoopContinues, TaskInv, NoLostTask, Terminal,
                taskVars
  <2>3. OpInv' /\ RollingInv'
    BY <1>7 DEF StreamAnswers, LoopContinues, OpInv, RollingInv, RollbackAlone,
                Terminal, CancelledCommandsAreTold, taskVars
  <2>4. EvidenceInv'
    BY <1>7 DEF StreamAnswers, LoopContinues, EvidenceInv, UnsettledStops,
                Terminal, taskVars, evidence, Asked
  <2> QED
    BY <1>7, <2>1, <2>2, <2>3, <2>4, StillIsGood
    DEF StreamAnswers, LoopContinues, Live, Final, taskVars, evidence
<1>8. CASE AnswerIsFinal
  BY <1>3, <1>8, StopCarries DEF AnswerIsFinal, TerminalStatuses
<1>9. CASE AnswerProposesPatch
  <2>1. CASE proposals >= MaxPatches
    BY <1>3, <1>9, <2>1, StopCarries DEF AnswerProposesPatch, TerminalStatuses
  <2>2. CASE ~(proposals >= MaxPatches)
    <3>1. proposals < MaxPatches
      BY <2>2, LimitsAreNat DEF TaskTyped
    <3> QED
      BY <1>9, <3>1, ProposalPreserves
  <2> QED
    BY <2>1, <2>2
<1>10. CASE ToolReturns
  <2>1. queue \in Seq(Kinds)
    BY DEF TaskTyped
  <2> QED
    BY <1>3, <1>10, <2>1, NextCallCarries DEF ToolReturns
<1>11. CASE CommandResolved
  BY <1>11, ResolutionPreserves
<1> QED
  BY <1>1, <1>2, <1>4, <1>5, <1>6, <1>7, <1>8, <1>9, <1>10, <1>11 DEF LoopStep

-----------------------------------------------------------------------------

LEMMA ApprovePreserves ==
  ASSUME IInv, NEW s \in Waiting, NEW a \in {pendingPatch, pendingCommand},
         NEW pc \in Before, Approve(s, a, pc),
         pc = "startingPatch" <=> a \in Patches,
         pc # "startingCommand"
  PROVE  Good
<1> USE DEF IInv
<1>1. /\ a \in Actions /\ a # None /\ runs[a] = 0 /\ Asked(a)
      /\ pc = "startingPatch" => a \in Patches
      /\ pc = "deciding" => a \in Commands
  BY NoneIsAbsent
  DEF Approve, TaskTyped, EvidenceInv, Actions, Before
<1>2. /\ ~Terminal /\ ~cancelling /\ op.pc = "idle" /\ rolling = "no"
      /\ loop = "idle" /\ ~inLoop
      /\ pendingPatch \in {None, a} /\ pendingCommand \in {None, a}
  BY NoneIsAbsent
  DEF Approve, Claims, Live, TaskInv, TaskTyped
<1>3. /\ op' = [NoOp EXCEPT !.pc = pc, !.action = a]
      /\ approved' = approved \cup {a}
      /\ UNCHANGED <<taskVars, loopVars, cancelling, rolling, late, history,
                     disk, started, settled, allowed, runs>>
  BY DEF Approve
<1>4. /\ op'.pc = pc /\ op'.action = a /\ pc # "idle" /\ pc # "running"
      /\ pc \notin After
  BY <1>3 DEF NoOp, Before, After
<1>5. pc \in PatchAwaits => a \in Patches
  BY <1>1 DEF PatchAwaits, Before
<1>6. pc \in CommandAwaits => a \in Commands
  BY <1>1 DEF CommandAwaits, Before
<1>7. TaskTyped' /\ EffectsTyped'
  BY <1>1, <1>3
  DEF TaskTyped, EffectsTyped, NoOp, taskVars, loopVars, Before, PatchAwaits,
      CommandAwaits
<1>8. TaskInv'
  BY <1>2, <1>3, <1>4, NoneIsNoStatus
  DEF TaskInv, NoLostTask, AwaitsUser, Terminal, taskVars, loopVars, Approve,
      Claims, Waiting
<1>9. OpInv' /\ RollingInv'
  BY <1>2, <1>3, <1>4, <1>5, <1>6
  DEF OpInv, RollingInv, CancelledCommandsAreTold, taskVars
<1>10. \A b \in Actions : Asked(b)' <=> Asked(b)
  BY <1>3 DEF Asked, loopVars
<1>11. UnsettledStops'
  BY <1>2, <1>3, NoneIsAbsent
  DEF UnsettledStops, EvidenceInv, OpInv, NoOp, Terminal, taskVars
<1>12. EvidenceInv'
  BY <1>1, <1>3, <1>4, <1>10, <1>11
  DEF EvidenceInv, taskVars
<1>13. a \notin settled
  BY <1>1 DEF EvidenceInv
<1>14. EffectOf(a) = "requested" /\ EffectOf(a)' = "authorised"
  BY <1>1, <1>2, <1>3, <1>4, <1>13, NoneIsAbsent
  DEF EffectOf, OpInv, NoOp, Before
<1>15. Alone(a)
  BY <1>1, <1>2, <1>3, <1>4, NoneIsAbsent
  DEF Alone, EffectOf, OpInv, NoOp, taskVars, loopVars
<1>16. MovesOne /\ Authorised /\ Final
  BY <1>1, <1>2, <1>3, <1>14, <1>15 DEF MovesOne, LegalMoves, Authorised, Final
<1> QED
  BY <1>7, <1>8, <1>9, <1>12, <1>16 DEF Good

LEMMA AnswerPreserves ==
  ASSUME IInv, Answer
  PROVE  Good
<1> USE DEF IInv
<1>1. ASSUME NEW s \in Waiting, Claims(s), CarriedOn,
             UNCHANGED <<op, cancelling, rolling, late, history, disk, evidence>>
      PROVE  Good
  BY <1>1, CarriesPreserve DEF Claims, Live
<1>2. CASE AnswerExpires
  BY <1>1, <1>2, StopCarries DEF AnswerExpires, TerminalStatuses
<1>3. CASE ApprovePatch
  BY <1>3, ApprovePreserves, NoneIsAbsent
  DEF ApprovePatch, Approve, Before, Waiting, TaskTyped
<1>4. CASE ApproveCommand
  BY <1>4, ApprovePreserves, NoneIsAbsent
  DEF ApproveCommand, Approve, Before, Waiting, TaskTyped, Commands, Patches
<1>5. CASE RejectPatch
  BY <1>1, <1>5, NextTurnCarries DEF RejectPatch, Waiting
<1>6. CASE DenyCommand
  <2>1. queue \in Seq(Kinds)
    BY DEF TaskTyped
  <2> QED
    BY <1>1, <1>6, <2>1, NextCallCarries DEF DenyCommand, Waiting
<1> QED
  BY <1>2, <1>3, <1>4, <1>5, <1>6 DEF Answer

-----------------------------------------------------------------------------
(* Steps of an operation.                                                  *)

LEMMA OpFacts ==
  ASSUME IInv, op.pc # "idle"
  PROVE  /\ ~Terminal /\ loop = "idle" /\ ~inLoop /\ rolling = "no"
         /\ op.action \in Actions /\ op.action # None
         /\ op.pc \in PatchAwaits => op.action \in Patches
         /\ op.pc \in CommandAwaits => op.action \in Commands
         /\ queue \in Seq(Kinds)
  BY NoneIsAbsent
  DEF IInv, TaskInv, RollingInv, RollbackAlone, OpInv, EffectsTyped, Actions,
      TaskTyped

(* A step that ends an operation. *)
LEMMA OpEndPreserves ==
  ASSUME IInv, op.pc # "idle", OpEnds,
         \/ CarriedOn /\ (cancelling => Terminal')
         \/ cancelling /\ UNCHANGED <<taskVars, loopVars>>,
         UNCHANGED <<cancelling, rolling, late, disk, approved, runs>>,
         history' \in Seq(Patches),
         started' \subseteq Actions, allowed' \subseteq Commands,
         \/ settled' = settled /\ (op.pc \in After => cancelling \/ Terminal')
         \/ op.pc \in After /\ settled' = settled \cup {op.action}
  PROVE  Good
<1>1. EffectsTyped'
  BY OpFacts DEF IInv, EffectsTyped, OpEnds, NoOp
<1>2. Ends
  BY OpFacts DEF Ends, OpEnds, taskVars
<1> QED
  BY <1>1, <1>2, EndsPreserves

(* A step that moves an operation on before its dispatch or behind it,     *)
(* without an end.                                                         *)
LEMMA OpMovePreserves ==
  ASSUME IInv, op.pc # "idle",
         UNCHANGED <<taskVars, loopVars, cancelling, rolling, late, history,
                     settled, approved, runs>>,
         disk' \subseteq Patches, started' \subseteq Actions,
         allowed' \subseteq Commands, allowed \subseteq allowed',
         NEW pc, op'.pc = pc, op'.action = op.action,
         EffectsTyped',
         \/ op.pc \in PatchAwaits /\ pc \in PatchAwaits
         \/ op.pc \in CommandAwaits /\ pc \in CommandAwaits,
         op.pc \in Before <=> pc \in Before,
         pc = "startingCommand" => op.action \in allowed',
         pc # "running"
  PROVE  Good
<1> USE DEF IInv
<1>1. pc # "idle" /\ (pc \in After <=> op.pc \in After)
  BY DEF After, Before, PatchAwaits, CommandAwaits
<1>2. TaskTyped'
  BY DEF TaskTyped, taskVars, loopVars
<1>3. TaskInv'
  BY <1>1, OpFacts
  DEF TaskInv, NoLostTask, AwaitsUser, Terminal, taskVars, loopVars
<1>4. OpInv' /\ RollingInv'
  BY <1>1, OpFacts
  DEF OpInv, RollingInv, CancelledCommandsAreTold, taskVars, PatchAwaits,
      CommandAwaits
<1>5. \A b \in Actions : Asked(b)' <=> Asked(b)
  BY DEF Asked, loopVars
<1>6. UnsettledStops'
  BY DEF UnsettledStops, EvidenceInv, Terminal, taskVars
<1>7. EvidenceInv'
  BY <1>1, <1>5, <1>6 DEF EvidenceInv, taskVars
<1> QED
  BY <1>2, <1>3, <1>4, <1>7, OpFacts, StillIsGood
  DEF Final, taskVars, loopVars

(* A step that dispatches the side effect. *)
LEMMA DispatchPreserves ==
  ASSUME IInv, op.pc \in Before, Dispatches, StartRecorded,
         NEW s \in Working, status' = s, cancelling => s = "Cancelling",
         UNCHANGED <<queue, loopVars, cancelling, rolling, late, history, disk,
                     settled, approved, allowed>>,
         NEW pc, op' = [op EXCEPT !.pc = pc, !.told = op'.told],
         op'.told \in BOOLEAN,
         \/ op.pc \in PatchAwaits /\ pc = "applying"
         \/ op.pc \in CommandAwaits /\ pc = "running",
         pc = "running" /\ cancelling => op'.told,
         pc = "applying" => ~cancelling /\ ~late,
         pc = "running" => op.pc = "startingCommand"
  PROVE  Good
<1> USE DEF IInv
<1>1. op.pc # "idle"
  BY DEF Before
<1>2. /\ op'.pc = pc /\ op'.action = op.action
      /\ pc # "idle" /\ pc \notin Before /\ pc \in After
  BY DEF EffectsTyped, Before, After, PatchAwaits, CommandAwaits
<1>3. /\ s \in Statuses /\ s \notin TerminalStatuses
      /\ s \notin Waiting \cup {None}
  BY NoneIsNoStatus DEF Statuses, Working, TerminalStatuses, Waiting
<1>4. /\ runs[op.action] = 0
      /\ runs' = [runs EXCEPT ![op.action] = 1]
      /\ runs'[op.action] = 1
      /\ \A b \in Actions : b # op.action => runs'[b] = runs[b]
  <2>1. runs[op.action] = 0 /\ op.action \in Actions
    BY <1>1, OpFacts DEF EvidenceInv
  <2>2. runs' = [runs EXCEPT ![op.action] = 1]
    BY <2>1 DEF Dispatches, MaxRuns
  <2> QED
    BY <2>1, <2>2 DEF EffectsTyped
<1>5. TaskTyped'
  BY <1>3 DEF TaskTyped, Dispatches, loopVars
<1>6. EffectsTyped'
  <2>1. op' \in [pc : {"idle"} \cup PatchAwaits \cup CommandAwaits,
                action : Actions \cup {None}, verified : BOOLEAN,
                told : BOOLEAN]
    BY DEF EffectsTyped, PatchAwaits, CommandAwaits
  <2>2. runs' \in [Actions -> 0..MaxRuns]
    BY <1>4 DEF EffectsTyped, MaxRuns
  <2>3. started' \subseteq Actions
    BY <1>1, OpFacts DEF EffectsTyped, StartRecorded
  <2> QED
    BY <2>1, <2>2, <2>3 DEF EffectsTyped
<1>7. TaskInv'
  BY <1>1, <1>2, <1>3, OpFacts, NoneIsNoStatus
  DEF TaskInv, NoLostTask, Terminal, Dispatches, loopVars, TerminalStatuses,
      Waiting
<1>8. OpInv' /\ RollingInv'
  BY <1>1, <1>2, OpFacts
  DEF OpInv, RollingInv, CancelledCommandsAreTold, Dispatches, PatchAwaits,
      CommandAwaits
<1>9. \A b \in Actions : Asked(b)' <=> Asked(b)
  BY DEF Asked, loopVars
<1>10. UnsettledStops'
  BY <1>1, <1>2, <1>4, OpFacts DEF UnsettledStops, EvidenceInv
<1>11. EvidenceInv'
  BY <1>1, <1>2, <1>4, <1>9, <1>10, OpFacts, NoneIsAbsent
  DEF EvidenceInv, Dispatches, Before
<1>12. PICK a : a = op.action
  OBVIOUS
<1>13. a \in Actions /\ a \notin settled
  BY <1>1, <1>4, <1>12, OpFacts DEF EvidenceInv
<1>14. EffectOf(a) = "authorised" /\ EffectOf(a)' = "running"
  BY <1>2, <1>12 DEF EffectOf, Before
<1>15. pendingPatch \in {None, a} /\ pendingCommand \in {None, a}
  BY <1>1, <1>12 DEF OpInv
<1>16. Alone(a)
  BY <1>2, <1>4, <1>12, <1>15, NoneIsAbsent
  DEF Alone, EffectOf, Dispatches, loopVars
<1>17. a \in approved /\ a \in started'
  BY <1>12 DEF EvidenceInv, StartRecorded
<1>18. a \in Commands => a \in allowed
  BY <1>1, <1>12, OpFacts
  DEF EvidenceInv, PatchAwaits, Patches, Commands
<1>19. a \in Patches => ~cancelling /\ ~late
  BY <1>1, <1>12, OpFacts DEF CommandAwaits, Patches, Commands
<1>20. Authorised
  BY <1>1, <1>4, <1>12, <1>17, <1>18, <1>19, OpFacts DEF Authorised
<1>21. MovesOne
  BY <1>13, <1>14, <1>16 DEF MovesOne, LegalMoves
<1>22. Final
  BY <1>1, OpFacts DEF Final
<1> QED
  BY <1>5, <1>6, <1>7, <1>8, <1>11, <1>20, <1>21, <1>22 DEF Good

LEMMA MovesAlone ==
  ASSUME IInv, op.pc # "idle", NEW pc, OpMoves(pc),
         UNCHANGED <<taskVars, loopVars, cancelling, rolling, late, history,
                     disk, evidence>>,
         \/ op.pc \in PatchAwaits /\ pc \in PatchAwaits
         \/ op.pc \in CommandAwaits /\ pc \in CommandAwaits,
         op.pc \notin Before, pc \notin Before, pc # "running"
  PROVE  Good
<1>1. /\ op'.pc = pc /\ op'.action = op.action
      /\ op' \in [pc : {"idle"} \cup PatchAwaits \cup CommandAwaits,
                 action : Actions \cup {None}, verified : BOOLEAN,
                 told : BOOLEAN]
  BY DEF IInv, EffectsTyped, OpMoves
<1>2. EffectsTyped'
  BY <1>1 DEF IInv, EffectsTyped, evidence
<1>3. pc # "startingCommand"
  BY DEF Before
<1> QED
  BY <1>1, <1>2, <1>3, OpMovePreserves DEF IInv, EffectsTyped, evidence

LEMMA OpPreserves ==
  ASSUME IInv, OpStep
  PROVE  Good
<1>1. op.pc # "idle"
  BY DEF OpStep, PatchStarted, PatchStartFails, PatchAdapterReturns,
     PatchSettled, CommandDecided, CommandDecisionFails, CommandStarted,
     CommandStartFails, CommandEnds, CommandSettled, SettlementFails,
     FailureRecorded
<1>2. queue \in Seq(Kinds) /\ TaskTyped
  BY <1>1, OpFacts DEF IInv
<1>3. /\ history \in Seq(Patches)
      /\ started \subseteq Actions /\ started \cup {op.action} \subseteq Actions
      /\ allowed \subseteq Commands
  BY <1>1, OpFacts DEF IInv, EffectsTyped
<1>5. ASSUME OpStops \/ OpFails
      PROVE  /\ OpEnds
             /\ \/ CarriedOn /\ ~cancelling
                \/ cancelling /\ UNCHANGED <<taskVars, loopVars>>
             /\ cancelling \/ Terminal'
  BY <1>2, <1>5, StopCarries DEF OpStops, OpFails, TerminalStatuses, Stop, Terminal
<1>6. ASSUME GateFails
      PROVE  /\ OpEnds
             /\ \/ CarriedOn /\ ~cancelling
                \/ cancelling /\ UNCHANGED <<taskVars, loopVars>>
  BY <1>2, <1>6, NextCallCarries DEF GateFails
<1>7. CASE PatchStarted
  <2>1. CASE OpStops /\ UNCHANGED runs
    BY <1>1, <1>3, <1>5, <1>7, <2>1, OpEndPreserves
    DEF PatchStarted, StartRecorded, After, Before
  <2>2. CASE Dispatches /\ status' = "ApplyingPatch" /\ OpMoves("applying")
             /\ ~cancelling /\ ~late /\ UNCHANGED <<queue, loopVars>>
    <3>1. op.told \in BOOLEAN /\ op' = [op EXCEPT !.pc = "applying", !.told = op.told]
      BY <2>2 DEF IInv, EffectsTyped, OpMoves
    <3>2. op'.told = op.told
      BY <3>1 DEF IInv, EffectsTyped
    <3>3. /\ op.pc \in Before /\ op.pc \in PatchAwaits
          /\ "ApplyingPatch" \in Working
          /\ StartRecorded /\ op'.told \in BOOLEAN
          /\ UNCHANGED <<cancelling, rolling, late, history, disk, settled,
                         approved, allowed>>
      BY <1>7, <3>1, <3>2 DEF PatchStarted, Before, PatchAwaits, Working
    <3>4. op' = [op EXCEPT !.pc = "applying", !.told = op'.told]
      BY <3>1, <3>2
    <3> QED
      BY <2>2, <3>3, <3>4, DispatchPreserves
  <2> QED
    BY <1>7, <2>1, <2>2 DEF PatchStarted
<1>8. CASE PatchStartFails
  BY <1>1, <1>3, <1>5, <1>8, OpEndPreserves
  DEF PatchStartFails, StartFails, StartRecorded, After, Before
<1>9. ASSUME NEW answer \in {"verified", "refused", "threw"},
             PatchAdapterReturns(answer)
      PROVE  Good
  <2>1. PICK pc \in {"settlingPatch", "failingPatch"} :
          op' = [op EXCEPT !.pc = pc, !.verified = answer = "verified"]
    BY <1>9 DEF PatchAdapterReturns
  <2>2. op'.pc = pc /\ op'.action = op.action
    BY <2>1 DEF IInv, EffectsTyped
  <2>3. disk' \subseteq Patches
    BY <1>1, <1>9, OpFacts
    DEF PatchAdapterReturns, IInv, EffectsTyped, PatchAwaits
  <2>4. EffectsTyped'
    <3>1. op' \in [pc : {"idle"} \cup PatchAwaits \cup CommandAwaits,
                  action : Actions \cup {None}, verified : BOOLEAN,
                  told : BOOLEAN]
      BY <2>1 DEF IInv, EffectsTyped, PatchAwaits
    <3> QED
      BY <1>9, <2>3, <3>1
      DEF PatchAdapterReturns, IInv, EffectsTyped, evidence
  <2> QED
    BY <1>1, <1>3, <1>9, <2>2, <2>3, <2>4, OpMovePreserves
    DEF PatchAdapterReturns, PatchAwaits, Before, evidence
<1>10. CASE PatchSettled
  <2>1. CarriedOn /\ (cancelling => Terminal')
    BY <1>2, <1>10, StopCarries, NextTurnCarries
    DEF PatchSettled, TerminalStatuses, Stop, Terminal
  <2>2. history' \in Seq(Patches)
    BY <1>1, <1>3, <1>10, OpFacts DEF PatchSettled, PatchAwaits
  <2> QED
    BY <1>1, <1>3, <1>10, <2>1, <2>2, OpEndPreserves
    DEF PatchSettled, Settles, After, Before, PatchAwaits
<1>11. ASSUME NEW allow \in BOOLEAN, CommandDecided(allow)
       PROVE  Good
  <2>1. /\ op.action \in Commands
        /\ allowed' \subseteq Commands /\ allowed \subseteq allowed'
        /\ allow => op.action \in allowed'
    BY <1>1, <1>3, <1>11, OpFacts DEF CommandDecided, CommandAwaits
  <2>2. CASE OpStops
    BY <1>1, <1>3, <1>5, <1>11, <2>1, <2>2, OpEndPreserves
    DEF CommandDecided, After, Before
  <2>3. CASE allow /\ OpMoves("startingCommand") /\ UNCHANGED <<taskVars, loopVars>>
    <3>1. op' = [op EXCEPT !.pc = "startingCommand"]
      BY <2>3 DEF OpMoves
    <3>2. /\ op'.pc = "startingCommand" /\ op'.action = op.action
          /\ op' \in [pc : {"idle"} \cup PatchAwaits \cup CommandAwaits,
                     action : Actions \cup {None}, verified : BOOLEAN,
                     told : BOOLEAN]
      BY <3>1 DEF IInv, EffectsTyped, CommandAwaits
    <3>3. EffectsTyped'
      BY <1>11, <2>1, <3>2 DEF CommandDecided, IInv, EffectsTyped
    <3> QED
      BY <1>1, <1>3, <1>11, <2>1, <2>3, <3>2, <3>3, OpMovePreserves
      DEF CommandDecided, CommandAwaits, Before, IInv, EffectsTyped
  <2>4. CASE OpEnds /\ ~cancelling /\ NextCall(queue, "ReturningToolResult")
    BY <1>1, <1>2, <1>3, <1>11, <2>1, <2>4, NextCallCarries, OpEndPreserves
    DEF CommandDecided, After, Before
  <2> QED
    BY <1>11, <2>2, <2>3, <2>4 DEF CommandDecided
<1>12. CASE CommandDecisionFails
  BY <1>1, <1>3, <1>5, <1>6, <1>12, OpEndPreserves
  DEF CommandDecisionFails, After, Before, evidence
<1>13. CASE CommandStarted
  <2>1. PICK s : s = IF cancelling THEN status ELSE "RunningCommand"
    OBVIOUS
  <2>2. cancelling => status = "Cancelling"
    BY <1>1, OpFacts DEF IInv, TaskInv, Terminal
  <2>3. s \in Working /\ (cancelling => s = "Cancelling")
    BY <2>1, <2>2 DEF Working
  <2>4. /\ op'.told = cancelling /\ cancelling \in BOOLEAN
        /\ op' = [op EXCEPT !.pc = "running", !.told = cancelling]
    BY <1>13 DEF CommandStarted, IInv, EffectsTyped
  <2>5. /\ op.pc \in Before /\ op.pc \in CommandAwaits
        /\ op.pc = "startingCommand"
        /\ Dispatches /\ StartRecorded /\ status' = s
        /\ UNCHANGED <<queue, loopVars, cancelling, rolling, late, history,
                       disk, settled, approved, allowed>>
    BY <1>13, <2>1 DEF CommandStarted, Before, CommandAwaits
  <2>6. op' = [op EXCEPT !.pc = "running", !.told = op'.told]
    BY <2>4
  <2> QED
    BY <2>3, <2>4, <2>5, <2>6, DispatchPreserves
<1>14. CASE CommandStartFails
  BY <1>1, <1>3, <1>5, <1>6, <1>14, OpEndPreserves
  DEF CommandStartFails, StartFails, StartRecorded, After, Before
<1>15. CASE CommandEnds
  BY <1>1, <1>3, <1>15, MovesAlone
  DEF CommandEnds, CommandAwaits, Before
<1>16. CASE CommandSettled
  <2>1. CarriedOn /\ (cancelling => Terminal')
    BY <1>2, <1>16, StopCarries, NextCallCarries
    DEF CommandSettled, TerminalStatuses, Stop, Terminal
  <2> QED
    BY <1>1, <1>3, <1>16, <2>1, OpEndPreserves
    DEF CommandSettled, Settles, After, Before, CommandAwaits
<1>17. CASE SettlementFails
  <2>1. CASE OpFails
    BY <1>1, <1>3, <1>5, <1>17, <2>1, OpEndPreserves
    DEF SettlementFails, evidence
  <2>2. CASE ~OpFails
    BY <1>1, <1>3, <1>17, <2>2, MovesAlone
    DEF SettlementFails, PatchAwaits, CommandAwaits, Before
  <2> QED
    BY <2>1, <2>2
<1>18. CASE FailureRecorded
  BY <1>1, <1>3, <1>5, <1>18, OpEndPreserves
  DEF FailureRecorded, Settles, After, Before, PatchAwaits, CommandAwaits
<1> QED
  BY <1>7, <1>8, <1>9, <1>10, <1>11, <1>12, <1>13, <1>14, <1>15, <1>16, <1>17,
     <1>18
  DEF OpStep

-----------------------------------------------------------------------------
(* cancel, rollback and the clock.                                         *)

LEMMA CancelPreserves ==
  ASSUME IInv, Cancel
  PROVE  Good
<1> USE DEF IInv
<1>1. /\ ~Terminal /\ status # None /\ ~cancelling
      /\ pendingPatch' = None /\ pendingCommand' = None /\ queue' = <<>>
      /\ UNCHANGED <<loopVars, rolling, late, history, disk, evidence>>
  BY DEF Cancel, NothingPending, Terminal
<1>2. Authorised /\ Final
  BY <1>1 DEF Authorised, Final, evidence
<1>3. CASE op.pc = "idle"
  <2>1. status' = "Cancelled" /\ UNCHANGED <<op, cancelling>>
    BY <1>3 DEF Cancel
  <2>2. op.action = None /\ op'.action = None
    BY <1>3, <2>1 DEF OpInv, NoOp
  <2>3. Terminal' /\ status' \in Statuses
    BY <2>1 DEF Terminal, TerminalStatuses, Statuses
  <2>4. TaskTyped' /\ EffectsTyped'
    BY <1>1, <2>1, <2>3 DEF TaskTyped, EffectsTyped, loopVars, evidence
  <2>5. TaskInv'
    BY <1>1, <1>3, <2>1, <2>3, NoneIsNoStatus
    DEF TaskInv, NoLostTask, Terminal, Waiting, TerminalStatuses, loopVars
  <2>6. OpInv' /\ RollingInv'
    BY <1>1, <1>3, <2>1
    DEF OpInv, RollingInv, RollbackAlone, CancelledCommandsAreTold, Terminal
  <2>7. \A b \in Actions : Asked(b)' <=> Asked(b)
    BY <1>1 DEF Asked, loopVars
  <2>8. EvidenceInv'
    BY <1>1, <1>3, <2>1, <2>2, <2>3, <2>7, NoneIsAbsent
    DEF EvidenceInv, UnsettledStops, evidence
  <2>9. MovesOne
    BY <1>1, <1>3, <2>2, DropMoves DEF loopVars, evidence
  <2> QED
    BY <1>2, <2>4, <2>5, <2>6, <2>8, <2>9 DEF Good
<1>4. CASE op.pc # "idle"
  <2>1. /\ status' = "Cancelling" /\ cancelling' = TRUE
        /\ op' = [op EXCEPT !.told = op.pc = "running"]
    BY <1>4 DEF Cancel
  <2>2. /\ op'.pc = op.pc /\ op'.action = op.action
        /\ op.pc = "running" => op'.told
        /\ op' \in [pc : {"idle"} \cup PatchAwaits \cup CommandAwaits,
                   action : Actions \cup {None}, verified : BOOLEAN,
                   told : BOOLEAN]
    BY <2>1 DEF EffectsTyped
  <2>3. ~Terminal' /\ status' \in Statuses /\ status' \notin Waiting \cup {None}
    BY <2>1, NoneIsNoStatus
    DEF Terminal, TerminalStatuses, Statuses, Working, Waiting
  <2>4. TaskTyped' /\ EffectsTyped'
    BY <1>1, <2>1, <2>2, <2>3 DEF TaskTyped, EffectsTyped, loopVars, evidence
  <2>5. TaskInv'
    BY <1>1, <1>4, <2>1, <2>2, <2>3, OpFacts
    DEF TaskInv, NoLostTask, Waiting, loopVars
  <2>6. OpInv' /\ RollingInv'
    BY <1>1, <1>4, <2>1, <2>2, OpFacts
    DEF OpInv, RollingInv, CancelledCommandsAreTold
  <2>7. \A b \in Actions : Asked(b)' <=> Asked(b)
    BY <1>1 DEF Asked, loopVars
  <2>8. EvidenceInv'
    BY <1>1, <2>1, <2>2, <2>7, NoneIsAbsent
    DEF EvidenceInv, UnsettledStops, evidence
  <2>9. \A b \in Actions : EffectOf(b)' = EffectOf(b)
    BY <1>1, <1>4, <2>2, NoneIsAbsent DEF EffectOf, OpInv, loopVars, evidence
  <2> QED
    BY <1>2, <2>4, <2>5, <2>6, <2>8, <2>9 DEF Good, MovesOne
<1> QED
  BY <1>3, <1>4

LEMMA CancelReturnPreserves ==
  ASSUME IInv, CancelReturns
  PROVE  Good
<1> USE DEF IInv
<1>1. /\ cancelling /\ cancelling' = FALSE /\ op.pc = "idle" /\ loop = "idle"
      /\ pendingPatch = None /\ pendingCommand = None
      /\ pendingPatch' = None /\ pendingCommand' = None /\ queue' = <<>>
      /\ UNCHANGED <<loopVars, op, rolling, late, history, disk, evidence>>
  BY NoneIsNoStatus
  DEF CancelReturns, NothingPending, TaskInv, Terminal, TerminalStatuses
<1>2. /\ Terminal' /\ status' \in Statuses
      /\ Terminal => status' = status /\ queue = <<>>
  BY DEF CancelReturns, Terminal, TerminalStatuses, Statuses, TaskInv
<1>3. TaskTyped' /\ EffectsTyped'
  <2>1. queue' \in Seq(Kinds)
    BY <1>1
  <2>2. TaskTyped'
    BY <1>1, <1>2, <2>1 DEF TaskTyped, loopVars
  <2>3. EffectsTyped'
    BY <1>1 DEF EffectsTyped, evidence
  <2> QED
    BY <2>2, <2>3
<1>4. TaskInv'
  BY <1>1, <1>2, NoneIsNoStatus
  DEF TaskInv, NoLostTask, Terminal, TerminalStatuses, Waiting, loopVars
<1>5. OpInv' /\ RollingInv'
  BY <1>1, <1>2
  DEF OpInv, RollingInv, RollbackAlone, CancelledCommandsAreTold
<1>6. \A b \in Actions : Asked(b)' <=> Asked(b)
  BY <1>1 DEF Asked, loopVars
<1>7. EvidenceInv'
  BY <1>1, <1>2, <1>6 DEF EvidenceInv, UnsettledStops, evidence
<1>8. Final
  BY <1>1, <1>2 DEF Final, taskVars, loopVars
<1> QED
  BY <1>1, <1>3, <1>4, <1>5, <1>7, <1>8, StillIsGood DEF loopVars, evidence

(* A step of a rollback or of the clock leaves the task alone.             *)
LEMMA AsidePreserves ==
  ASSUME IInv, UNCHANGED <<taskVars, loopVars, op, cancelling, evidence>>,
         EffectsTyped', RollingInv'
  PROVE  Good
<1> USE DEF IInv, taskVars, loopVars, evidence
<1>1. TaskTyped'
  BY DEF TaskTyped
<1>2. TaskInv'
  BY DEF TaskInv, NoLostTask, Terminal, AwaitsUser
<1>3. OpInv'
  BY DEF OpInv, CancelledCommandsAreTold
<1>4. EvidenceInv'
  BY DEF EvidenceInv, UnsettledStops, Asked, Terminal
<1> QED
  BY <1>1, <1>2, <1>3, <1>4, StillIsGood DEF Final

LEMMA PrefixOfSequence ==
  ASSUME NEW S, NEW s \in Seq(S), NEW n \in 0..Len(s)
  PROVE  SubSeq(s, 1, n) \in Seq(S) /\ Len(SubSeq(s, 1, n)) = n
  OBVIOUS

LEMMA RollbackPreserves ==
  ASSUME IInv, RollbackStep
  PROVE  Good
<1> USE DEF IInv
<1>1. ASSUME NEW extent \in {"one", "all"}, Rollback(extent)
      PROVE  Good
  <2>1. EffectsTyped' /\ RollingInv'
    BY <1>1
    DEF Rollback, CanRollback, EffectsTyped, RollingInv, RollbackAlone, Terminal,
        taskVars, loopVars, evidence
  <2> QED
    BY <1>1, <2>1, AsidePreserves DEF Rollback
<1>2. ASSUME NEW restored \in BOOLEAN, RollbackReturns(restored)
      PROVE  Good
  <2>1. history \in Seq(Patches) /\ history # <<>> /\ Len(history) \in Nat \ {0}
    BY <1>2 DEF RollbackReturns, RollingInv, EffectsTyped
  <2>2. /\ SubSeq(history, 1, Len(history) - 1) \in Seq(Patches)
        /\ Len(SubSeq(history, 1, Len(history) - 1)) = Len(history) - 1
    <3>1. PICK h : h = history
      OBVIOUS
    <3>2. h \in Seq(Patches) /\ Len(h) - 1 \in 0..Len(h)
      BY <2>1, <3>1
    <3>3. /\ SubSeq(h, 1, Len(h) - 1) \in Seq(Patches)
          /\ Len(SubSeq(h, 1, Len(h) - 1)) = Len(h) - 1
      BY <3>2, PrefixOfSequence
    <3> QED
      BY <3>1, <3>3
  <2>3. history' \in Seq(Patches) /\ disk' \subseteq Patches
        /\ rolling' \in {"no", "one", "all"}
    BY <1>2, <2>1, <2>2 DEF RollbackReturns, EffectsTyped
  <2>4. rolling' # "no" => history' # <<>>
    <3>1. CASE restored /\ rolling = "all" /\ Len(history) > 1
      <4>1. Len(history') = Len(history) - 1 /\ Len(history') > 0
        BY <1>2, <2>1, <2>2, <3>1 DEF RollbackReturns
      <4> QED
        BY <4>1
    <3>2. CASE ~(restored /\ rolling = "all" /\ Len(history) > 1)
      BY <1>2, <3>2 DEF RollbackReturns
    <3> QED
      BY <3>1, <3>2
  <2>5. EffectsTyped' /\ RollingInv'
    BY <1>2, <2>3, <2>4
    DEF RollbackReturns, EffectsTyped, RollingInv, RollbackAlone, Terminal,
        taskVars, loopVars, evidence
  <2> QED
    BY <1>2, <2>5, AsidePreserves DEF RollbackReturns
<1> QED
  BY <1>1, <1>2 DEF RollbackStep

LEMMA EveryStep ==
  ASSUME IInv, Next
  PROVE  Good
<1>1. CASE TimePasses
  <2>1. EffectsTyped' /\ RollingInv'
    BY <1>1
    DEF IInv, TimePasses, EffectsTyped, RollingInv, RollbackAlone, Terminal,
        taskVars, loopVars, evidence
  <2> QED
    BY <1>1, <2>1, AsidePreserves DEF TimePasses
<1> QED
  BY <1>1, LoopPreserves, AnswerPreserves, OpPreserves, CancelPreserves,
     CancelReturnPreserves, RollbackPreserves
  DEF Next

LEMMA InitialState == Init => IInv
<1> SUFFICES ASSUME Init PROVE IInv
  OBVIOUS
<1> USE DEF Init
<1>1. TaskTyped
  <2>1. status \in Statuses /\ queue \in Seq(Kinds)
    BY DEF Statuses
  <2>2. /\ calls \in [Kinds \ {"list"} -> Nat] /\ calls["command"] = 0
        /\ \A k \in Kinds \ {"list"} : calls[k] <= MaxCalls[k]
    BY LimitsAreNat DEF Kinds
  <2>3. asked \in 0..calls["command"]
    BY <2>2
  <2>4. turns \in 0..MaxTurns /\ total \in 0..MaxTotal
        /\ proposals \in 0..MaxPatches
    BY LimitsAreNat
  <2> QED
    BY <2>1, <2>2, <2>3, <2>4 DEF TaskTyped
<1>2. EffectsTyped
  <2>1. history \in Seq(Patches) /\ runs \in [Actions -> 0..MaxRuns]
    BY DEF MaxRuns
  <2> QED
    BY <2>1 DEF EffectsTyped, NoOp
<1>3. TaskInv
  <2>1. ~Terminal /\ status \notin Waiting
    BY NoneIsNoStatus DEF Terminal
  <2>2. status = None /\ None \notin Waiting
    BY <2>1
  <2> QED
    BY <2>1, <2>2 DEF TaskInv, NoLostTask, NoOp, Waiting
<1>4. OpInv /\ RollingInv
  BY DEF OpInv, RollingInv, NoOp, PatchAwaits, CommandAwaits,
     CancelledCommandsAreTold
<1>5. EvidenceInv
  BY NoneIsAbsent
  DEF EvidenceInv, UnsettledStops, NoOp, Before, After, PatchAwaits,
      CommandAwaits, Actions
<1> QED
  BY <1>1, <1>2, <1>3, <1>4, <1>5 DEF IInv

(* A step that changes nothing changes no part of the invariant.           *)
LEMMA Stutters ==
  ASSUME IInv, UNCHANGED vars
  PROVE  Good
<1>1. EffectsTyped' /\ RollingInv'
  BY DEF IInv, EffectsTyped, RollingInv, RollbackAlone, Terminal, vars, taskVars,
     loopVars, evidence
<1> QED
  BY <1>1, AsidePreserves DEF vars

LEMMA Inductive == Spec => []IInv
<1>1. IInv /\ [Next]_vars => IInv'
  BY EveryStep, Stutters DEF Good
<1> QED
  BY <1>1, InitialState, PTL DEF Spec

-----------------------------------------------------------------------------

(* Every variable keeps its type, and every budget of types.ts L252-260    *)
(* holds, for any limits and whatever tools the model asks for.            *)
THEOREM TypeCorrect == Spec => []TypeOK
  BY Inductive, TypeParts, PTL DEF IInv

(* No interleaving of answers, hooks, cancels and refusals leaves a task   *)
(* that has not ended with nobody to carry it on (continueLoop,            *)
(* processQueuedCalls and the tails of the four answers).                  *)
THEOREM TasksAreNotLost == Spec => []NoLostTask
  BY Inductive, PTL DEF IInv, TaskInv

(* The model loop, an approved operation and the user's answer exclude     *)
(* one another (claimApproval, runningTasks).                              *)
THEOREM WorkIsExclusive == Spec => []OneAtATime
<1>1. IInv => OneAtATime
  BY NoneIsNoStatus
  DEF IInv, TaskInv, OneAtATime, AwaitsUser, Waiting, Terminal, TerminalStatuses
<1> QED
  BY <1>1, Inductive, PTL

(* A rollback shares the project with no model turn, approval or cancel    *)
(* (canRollback).                                                          *)
THEOREM RollbackIsAlone == Spec => []RollbackAlone
  BY Inductive, PTL DEF IInv, RollingInv, RollbackAlone

(* Nothing of a task goes on beside something that must not see it.        *)
THEOREM NoOverlap == Spec => []WorkDoesNotOverlap
  BY WorkIsExclusive, RollbackIsAlone, PTL DEF WorkDoesNotOverlap

(* A command that runs while its task is being cancelled was told to stop, *)
(* whether the cancel or the start came first (approveCommand, cancel).    *)
THEOREM RunsAreTold == Spec => []CancelledCommandsAreTold
  BY Inductive, PTL DEF IInv, OpInv

(* A side effect without a durable outcome stops its task (the catch of    *)
(* approvePatch and approveCommand).                                       *)
THEOREM UnsettledEffectsStop == Spec => []UnsettledStops
  BY Inductive, PTL DEF IInv, EvidenceInv

(* A stop reaches whatever it must stop (the two above).                   *)
THEOREM StopsReach == Spec => []StopsAreHeard
  BY RunsAreTold, UnsettledEffectsStop, PTL DEF StopsAreHeard

(* What is handed to the patch adapter or the command runner was approved, *)
(* durably started, never dispatched before and, for a command, allowed.   *)
THEOREM DispatchesAreAuthorised == Spec => DispatchIsAuthorised
<1>1. IInv /\ [Next]_vars => [Authorised]_vars
  BY EveryStep DEF Good
<1> QED
  BY <1>1, Inductive, PTL DEF Spec, DispatchIsAuthorised, Authorised

(* No late answer, stream, hook or cancel changes a task that has ended.   *)
THEOREM EndsAreFinal == Spec => TerminalIsFinal
<1>1. IInv /\ [Next]_vars => [Final]_vars
  BY EveryStep DEF Good
<1> QED
  BY <1>1, Inductive, PTL DEF Spec, TerminalIsFinal, Final

-----------------------------------------------------------------------------
(* What can be rolled back.  The history grows by the patch an approval    *)
(* holds, which is younger than every patch in it and, once its adapter    *)
(* verified it, on disk; it shrinks from its young end.                    *)

Younger(a) == \A i \in DOMAIN history : history[i][2] < a[2]

HistoryInv ==
  /\ HistoryIsOnDisk
  /\ \A i \in DOMAIN history : history[i][2] <= proposals
  /\ pendingPatch # None => Younger(pendingPatch)
  /\ op.pc \in PatchAwaits => Younger(op.action)
  /\ op.pc = "settlingPatch" /\ op.verified => op.action \in disk

(* An operation holds the patch it held, and was told the same of it.      *)
SamePatch ==
  op'.pc \in PatchAwaits =>
    /\ op.pc \in PatchAwaits /\ op'.action = op.action
    /\ op'.pc = "settlingPatch" /\ op'.verified =>
         op.pc = "settlingPatch" /\ op.verified

(* Most steps leave the history and the files alone. *)
LEMMA HistoryKept ==
  ASSUME IInv, HistoryInv, history' = history, disk' = disk,
         proposals' = proposals, pendingPatch' \in {None, pendingPatch},
         SamePatch
  PROVE  HistoryInv'
<1>1. HistoryIsOnDisk' /\ \A i \in DOMAIN history' : history'[i][2] <= proposals'
  BY DEF HistoryInv, HistoryIsOnDisk
<1>2. pendingPatch' # None => Younger(pendingPatch)'
  BY DEF HistoryInv, Younger
<1>3. op'.pc \in PatchAwaits => Younger(op.action)'
  BY DEF HistoryInv, Younger, SamePatch
<1>4. op'.pc = "settlingPatch" /\ op'.verified => op'.action \in disk'
  BY DEF HistoryInv, SamePatch, PatchAwaits
<1> QED
  BY <1>1, <1>2, <1>3, <1>4 DEF HistoryInv

(* The loop has not the hands of an operation. *)
LEMMA LoopKeepsHistory ==
  ASSUME IInv, HistoryInv, LoopStep
  PROVE  HistoryInv'
<1>1. history' = history /\ disk' = disk /\ op' = op
  BY DEF LoopStep, Start, LoopReturns, LoopExpires, LoopFails, LoopContinues,
     StreamRequestsTools, StreamAnswers, AnswerIsFinal, AnswerProposesPatch,
     ToolReturns, CommandResolved
<1>2. SamePatch
  BY <1>1 DEF SamePatch
<1>3. CASE proposals' = proposals /\ pendingPatch' \in {None, pendingPatch}
  BY <1>1, <1>2, <1>3, HistoryKept
<1>4. CASE proposals' = proposals + 1 /\ pendingPatch' = <<"patch", proposals + 1>>
  <2>1. proposals \in Nat /\ history \in Seq(Patches)
    BY LimitsAreNat DEF IInv, TaskTyped, EffectsTyped
  <2>2. \A i \in DOMAIN history : history[i][2] \in Nat
    BY <2>1 DEF Patches
  <2>3. \A i \in DOMAIN history : history[i][2] < proposals + 1
    BY <2>1, <2>2 DEF HistoryInv
  <2>4. Younger(pendingPatch)'
    BY <1>1, <1>4, <2>3 DEF Younger
  <2>5. \A i \in DOMAIN history' : history'[i][2] <= proposals'
    BY <1>1, <1>4, <2>1, <2>2, <2>3
  <2> QED
    BY <1>1, <2>4, <2>5 DEF HistoryInv, HistoryIsOnDisk, Younger
<1> QED
  BY <1>3, <1>4
  DEF LoopStep, Start, LoopReturns, LoopExpires, LoopFails, LoopContinues,
      StreamRequestsTools, StreamAnswers, AnswerIsFinal, AnswerProposesPatch,
      ToolReturns, CommandResolved, Stop, NextTurn, NextCall, NothingPending,
      taskVars

LEMMA AnswerKeepsHistory ==
  ASSUME IInv, HistoryInv, Answer
  PROVE  HistoryInv'
<1>1. CASE ApprovePatch
  <2>1. /\ history' = history /\ disk' = disk /\ proposals' = proposals
        /\ pendingPatch' = pendingPatch /\ pendingPatch # None
        /\ op'.pc = "startingPatch" /\ op'.action = pendingPatch
    BY <1>1 DEF ApprovePatch, Approve, NoOp, taskVars, loopVars
  <2> QED
    BY <2>1 DEF HistoryInv, HistoryIsOnDisk, Younger
<1>2. CASE ApproveCommand
  <2>1. /\ history' = history /\ disk' = disk /\ proposals' = proposals
        /\ pendingPatch' = pendingPatch /\ op'.pc = "deciding"
    BY <1>2 DEF ApproveCommand, Approve, NoOp, taskVars, loopVars
  <2> QED
    BY <2>1, HistoryKept DEF SamePatch, PatchAwaits
<1>3. CASE AnswerExpires \/ RejectPatch \/ DenyCommand
  <2>1. /\ history' = history /\ disk' = disk /\ proposals' = proposals
        /\ pendingPatch' = None /\ op' = op
    BY <1>3 DEF AnswerExpires, RejectPatch, DenyCommand, Stop, NextTurn,
       NextCall, NothingPending
  <2> QED
    BY <2>1, HistoryKept DEF SamePatch
<1> QED
  BY <1>1, <1>2, <1>3 DEF Answer

LEMMA LongerHistory ==
  ASSUME NEW h \in Seq(Patches), NEW a \in Patches
  PROVE  /\ DOMAIN Append(h, a) = DOMAIN h \cup {Len(h) + 1}
         /\ \A i \in DOMAIN h : Append(h, a)[i] = h[i] /\ i <= Len(h)
         /\ Append(h, a)[Len(h) + 1] = a
         /\ Len(h) \in Nat /\ DOMAIN h \subseteq Nat
  OBVIOUS

LEMMA SettledKeepsHistory ==
  ASSUME IInv, HistoryInv, PatchSettled
  PROVE  HistoryInv'
<1>1. disk' = disk /\ proposals' = proposals
      /\ pendingPatch' = None /\ op'.pc = "idle" /\ op.pc = "settlingPatch"
  BY DEF PatchSettled, OpEnds, NoOp, Stop, NextTurn, NothingPending
<1>2. CASE ~op.verified
  BY <1>1, <1>2, HistoryKept DEF PatchSettled, SamePatch, PatchAwaits
<1>3. CASE op.verified
  <2>1. PICK a : a = op.action
    OBVIOUS
  <2>2. PICK h : h = history
    OBVIOUS
  <2>3. h \in Seq(Patches) /\ a \in Patches
    BY <1>1, <2>1, <2>2 DEF IInv, EffectsTyped, OpInv, PatchAwaits
  <2>4. history' = Append(h, a)
    BY <1>3, <2>1, <2>2 DEF PatchSettled
  <2>5. a \in disk /\ Younger(a) /\ a[2] <= proposals
    BY <1>1, <1>3, <2>1, <2>3
    DEF HistoryInv, IInv, EvidenceInv, Asked, PatchAwaits, Actions
  <2>6. /\ DOMAIN history' = DOMAIN h \cup {Len(h) + 1}
        /\ \A i \in DOMAIN h : history'[i] = h[i] /\ i <= Len(h)
        /\ history'[Len(h) + 1] = a
        /\ Len(h) \in Nat /\ DOMAIN h \subseteq Nat
    BY <2>3, <2>4, LongerHistory
  <2>7. \A i \in DOMAIN history' : history'[i] \in disk /\ history'[i][2] <= proposals
    BY <2>2, <2>5, <2>6 DEF HistoryInv, HistoryIsOnDisk
  <2>8. ASSUME NEW i \in DOMAIN history', NEW j \in DOMAIN history', i < j
        PROVE  history'[i][2] < history'[j][2]
    <3>1. i \in DOMAIN h
      BY <2>6, <2>8
    <3>2. CASE j \in DOMAIN h
      BY <2>2, <2>6, <2>8, <3>1, <3>2 DEF HistoryInv, HistoryIsOnDisk
    <3>3. CASE j = Len(h) + 1
      BY <2>2, <2>5, <2>6, <3>1, <3>3 DEF Younger
    <3> QED
      BY <2>6, <3>2, <3>3
  <2> QED
    BY <1>1, <2>7, <2>8 DEF HistoryInv, HistoryIsOnDisk, PatchAwaits
<1> QED
  BY <1>2, <1>3

LEMMA OpKeepsHistory ==
  ASSUME IInv, HistoryInv, OpStep
  PROVE  HistoryInv'
<1>1. ASSUME NEW answer \in {"verified", "refused", "threw"},
             PatchAdapterReturns(answer)
      PROVE  HistoryInv'
  <2>1. /\ history' = history /\ proposals' = proposals
        /\ pendingPatch' = pendingPatch
        /\ op.pc = "applying" /\ op'.action = op.action
        /\ op'.verified => answer = "verified"
        /\ disk \subseteq disk' /\ (answer = "verified" => op.action \in disk')
    BY <1>1 DEF PatchAdapterReturns, taskVars, loopVars, IInv, EffectsTyped
  <2> QED
    BY <2>1 DEF HistoryInv, HistoryIsOnDisk, Younger, PatchAwaits
<1>2. CASE ~PatchSettled /\ ~\E answer \in {"verified", "refused", "threw"} :
                                PatchAdapterReturns(answer)
  <2>1. /\ history' = history /\ disk' = disk /\ proposals' = proposals
        /\ pendingPatch' \in {None, pendingPatch}
    BY <1>2 DEF OpStep, PatchStarted, PatchStartFails, CommandDecided,
       CommandDecisionFails, CommandStarted, CommandStartFails, CommandEnds,
       CommandSettled, SettlementFails, FailureRecorded, StartFails, OpStops,
       OpFails, GateFails, Dispatches, Stop, NextTurn, NextCall,
       NothingPending, taskVars, loopVars
  <2>2. \/ op' = NoOp
        \/ \E pc \in {"applying", "failingPatch", "startingCommand",
                      "settlingCommand", "failingCommand"} :
             /\ op' = [op EXCEPT !.pc = pc]
             /\ pc \in PatchAwaits => op.pc \in PatchAwaits
        \/ op' = [op EXCEPT !.pc = "running", !.told = cancelling]
    BY <1>2 DEF OpStep, PatchStarted, PatchStartFails, CommandDecided,
       CommandDecisionFails, CommandStarted, CommandStartFails, CommandEnds,
       CommandSettled, SettlementFails, FailureRecorded, OpStops,
       OpFails, GateFails, OpEnds, OpMoves, PatchAwaits
  <2>3. SamePatch
    <3>1. CASE op' = NoOp
      BY <3>1 DEF NoOp, SamePatch, PatchAwaits
    <3>2. ASSUME NEW pc \in {"applying", "failingPatch", "startingCommand",
                             "settlingCommand", "failingCommand"},
                 op' = [op EXCEPT !.pc = pc],
                 pc \in PatchAwaits => op.pc \in PatchAwaits
          PROVE  SamePatch
      <4>1. op'.pc = pc /\ op'.action = op.action
        BY <3>2 DEF IInv, EffectsTyped
      <4> QED
        BY <3>2, <4>1 DEF SamePatch
    <3>3. CASE op' = [op EXCEPT !.pc = "running", !.told = cancelling]
      <4>1. op'.pc = "running"
        BY <3>3 DEF IInv, EffectsTyped
      <4> QED
        BY <4>1 DEF SamePatch, PatchAwaits
    <3> QED
      BY <2>2, <3>1, <3>2, <3>3
  <2> QED
    BY <2>1, <2>3, HistoryKept
<1> QED
  BY <1>1, <1>2, SettledKeepsHistory DEF OpStep

LEMMA ShorterHistory ==
  ASSUME NEW h \in Seq(Patches), h # <<>>
  PROVE  /\ DOMAIN SubSeq(h, 1, Len(h) - 1) = DOMAIN h \ {Len(h)}
         /\ \A i \in DOMAIN h \ {Len(h)} :
              SubSeq(h, 1, Len(h) - 1)[i] = h[i] /\ i < Len(h)
         /\ Len(h) \in DOMAIN h /\ DOMAIN h \subseteq Nat
  OBVIOUS

LEMMA RollbackKeepsHistory ==
  ASSUME IInv, HistoryInv, RollbackStep
  PROVE  HistoryInv'
<1>1. CASE (\E extent \in {"one", "all"} : Rollback(extent))
           \/ RollbackReturns(FALSE)
  <2>1. /\ history' = history /\ disk' = disk /\ proposals' = proposals
        /\ pendingPatch' = pendingPatch /\ op' = op
    BY <1>1 DEF Rollback, RollbackReturns, taskVars, loopVars
  <2> QED
    BY <2>1, HistoryKept DEF SamePatch
<1>2. CASE RollbackReturns(TRUE)
  <2>1. PICK h : h = history
    OBVIOUS
  <2>2. h \in Seq(Patches) /\ h # <<>>
    BY <1>2, <2>1 DEF RollbackReturns, IInv, EffectsTyped, RollingInv
  <2>3. /\ history' = SubSeq(h, 1, Len(h) - 1) /\ disk' = disk \ {h[Len(h)]}
        /\ proposals' = proposals /\ pendingPatch' = pendingPatch /\ op' = op
        /\ rolling # "no"
    BY <1>2, <2>1 DEF RollbackReturns, taskVars, loopVars
  <2>4. /\ DOMAIN history' = DOMAIN h \ {Len(h)}
        /\ \A i \in DOMAIN h \ {Len(h)} : history'[i] = h[i] /\ i < Len(h)
        /\ Len(h) \in DOMAIN h /\ DOMAIN h \subseteq Nat
    BY <2>2, <2>3, ShorterHistory
  <2>5. op.pc = "idle"
    BY <2>3 DEF IInv, RollingInv, RollbackAlone
  <2>6. ASSUME NEW i \in DOMAIN history'
        PROVE  history'[i] \in disk' /\ history'[i][2] <= proposals'
    <3>1. h[i][2] < h[Len(h)][2] /\ h[i] \in disk /\ h[i][2] <= proposals
      BY <2>1, <2>4, <2>6 DEF HistoryInv, HistoryIsOnDisk
    <3>2. h[i][2] \in Nat /\ h[Len(h)][2] \in Nat
      BY <2>2, <2>4, <2>6 DEF Patches
    <3>3. h[i] # h[Len(h)]
      BY <3>1, <3>2
    <3> QED
      BY <2>3, <2>4, <3>1, <3>3
  <2>7. \A i, j \in DOMAIN history' : i < j => history'[i][2] < history'[j][2]
    BY <2>1, <2>4 DEF HistoryInv, HistoryIsOnDisk
  <2>8. pendingPatch' # None => Younger(pendingPatch)'
    BY <2>1, <2>3, <2>4 DEF HistoryInv, Younger
  <2> QED
    BY <2>3, <2>5, <2>6, <2>7, <2>8 DEF HistoryInv, HistoryIsOnDisk, PatchAwaits
<1> QED
  BY <1>1, <1>2 DEF RollbackStep

(* A task rolls back what is on disk and nothing it rolled back before,    *)
(* the latest patch first (approvePatch, rollbackOne).                     *)
THEOREM HistoryOnDisk == Spec => []HistoryIsOnDisk
<1>1. Init => HistoryInv
  BY DEF Init, HistoryInv, HistoryIsOnDisk, NoOp, PatchAwaits
<1>2. IInv /\ HistoryInv /\ [Next]_vars => HistoryInv'
  <2> SUFFICES ASSUME IInv, HistoryInv, [Next]_vars PROVE HistoryInv'
    OBVIOUS
  <2>1. CASE Cancel \/ CancelReturns \/ TimePasses \/ UNCHANGED vars
    <3>1. history' = history /\ disk' = disk /\ proposals' = proposals
          /\ pendingPatch' \in {None, pendingPatch}
      BY <2>1 DEF Cancel, CancelReturns, TimePasses, vars, taskVars, loopVars,
         NothingPending
    <3>2. SamePatch
      BY <2>1 DEF SamePatch, Cancel, CancelReturns, TimePasses, vars, IInv,
         EffectsTyped
    <3> QED
      BY <3>1, <3>2, HistoryKept
  <2> QED
    BY <2>1, LoopKeepsHistory, AnswerKeepsHistory, OpKeepsHistory,
       RollbackKeepsHistory DEF Next
<1>3. HistoryInv => HistoryIsOnDisk
  BY DEF HistoryInv
<1> QED
  BY <1>1, <1>2, <1>3, Inductive, PTL DEF Spec

-----------------------------------------------------------------------------

LEMMA NoEffectsAtFirst == Init => Promise!Init
<1> SUFFICES ASSUME Init, NEW a \in Actions PROVE EffectOf(a) = "none"
  BY DEF Promise!Init
<1>1. a # None /\ a[2] > 0 /\ runs[a] = 0
  BY NoneIsAbsent DEF Init, Actions, Patches, Commands
<1> QED
  BY <1>1 DEF Init, EffectOf, NoOp

(* The agent loop implements SideEffect: every patch and command proposed  *)
(* in a task is approved before it runs, runs at most once, and is settled *)
(* or left as uncertain; none runs behind a refusal or a cancel.           *)
THEOREM AgentKeepsPromise == Spec => KeepsPromise
<1> DEFINE eff == [a \in Actions |-> EffectOf(a)]
<1>1. IInv /\ [Next]_vars => [Promise!Next]_eff
  <2> SUFFICES ASSUME IInv, [Next]_vars PROVE Promise!Next \/ eff' = eff
    OBVIOUS
  <2>1. MovesOne
    BY EveryStep, Stutters DEF Good
  <2>2. CASE \A b \in Actions : EffectOf(b)' = EffectOf(b)
    BY <2>2
  <2>3. ASSUME NEW a \in Actions,
               <<EffectOf(a), EffectOf(a)'>> \in LegalMoves, Alone(a)
        PROVE  Promise!Next \/ eff' = eff
    <3>1. PICK p : p = EffectOf(a)'
      OBVIOUS
    <3>2. eff' = [eff EXCEPT ![a] = p]
      BY <2>3, <3>1 DEF Alone
    <3>3. eff[a] = EffectOf(a)
      OBVIOUS
    <3> HIDE DEF eff
    <3>4. <<eff[a], p>> \in LegalMoves
      BY <2>3, <3>1, <3>3
    <3>5. \/ eff[a] = "none" /\ p = "requested"
          \/ eff[a] = "requested" /\ p = "authorised"
          \/ eff[a] \in {"requested", "authorised"} /\ p = "closed"
          \/ eff[a] = "authorised" /\ p = "running"
          \/ eff[a] = "running" /\ p = "settled"
          \/ eff[a] = "running" /\ p = "uncertain"
      BY <3>4 DEF LegalMoves
    <3> QED
      BY <3>2, <3>5
      DEF eff, Promise!Next, Promise!Request, Promise!Authorise,
          Promise!Close, Promise!Run, Promise!Settle, Promise!Lose,
          Promise!Moves
  <2> QED
    BY <2>1, <2>2, <2>3 DEF MovesOne
<1> QED
  BY Inductive, <1>1, NoEffectsAtFirst, PTL DEF Spec, KeepsPromise, Promise!Spec

=============================================================================
