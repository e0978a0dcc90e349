--------------------------- MODULE DesktopProofs ---------------------------
(***************************************************************************)
(* Theorems about the flows of the desktop's window, for any workers,      *)
(* operations, prompts, providers and bounds.                              *)
(***************************************************************************)
EXTENDS Desktop, Integers, Sequences, TLAPS

-----------------------------------------------------------------------------
(* ControlPlane: the inductive invariant.                                  *)

Entries ==
  {"SESSION_CREATED", "queued", "starting", "running", "completed", "failed",
   "note", "SESSION_INTERRUPTED"} \cup Control!Ends

WriterStates == {"idle", "recording", "interrupting", "done", "rejected"}

ControlTyped ==
  /\ Control!TypeOK
  /\ worker \in [Backends -> {"none", "running", "completed", "failed"}]
  /\ ran \in [Backends -> Control!Tiers \cup {"none"}]
  /\ notes \in [Backends -> Nat]
  /\ sessions \in [Backends -> Seq(Entries)]
  /\ writer \in [Backends -> [Control!Writers ->
       [pending : Seq(Entries), seen : Nat, state : WriterStates]]]

(* Only a writer with something to record has read the path. *)
WritersInv ==
  \A b \in Backends, w \in Control!Writers :
    /\ writer[b][w].state \in {"recording", "interrupting"} =>
         writer[b][w].pending # << >>
    /\ writer[b][w].seen > 0 =>
         writer[b][w].state \in {"recording", "interrupting"}
    /\ writer[b][w].state = "interrupting" =>
         w = "result" /\ writer[b][w].pending = <<"SESSION_INTERRUPTED">>

IsIdle(b, w) == Control!State(b, w) = "idle"
IsDone(b, w) == Control!State(b, w) = "done"

(* Who writes at each stage.  The creators may outlive the task. *)
StageInv ==
  /\ stage \in {"idle", "probing", "restarted"} =>
       \A b \in Backends, w \in Control!Writers : IsIdle(b, w)
  /\ \A b \in Backends :
       /\ ~IsIdle(b, "result") =>
            /\ stage \in {"recording", "failing", "ended"}
            /\ worker[b] \in {"completed", "failed"}
       /\ ~IsIdle(b, "failure") => stage \in {"failing", "ended"}
       /\ ~IsIdle(b, "result") \/ ~IsIdle(b, "failure") => IsDone(b, "create")
       /\ ran[b] # "none" =>
            stage \notin {"idle", "probing", "creating", "admitting"}
       /\ stage \in {"admitting", "working"} => IsDone(b, "create")
       /\ stage \in {"recording", "failing"} => IsDone(b, "create")
       /\ stage = "recording" => ~IsIdle(b, "result")
  /\ stage = "working" => \A b \in Governed : probed[b] = "GOVERNED"
  /\ outcome \in {"completed", "failed"} =>
       /\ stage = "ended"
       /\ \A b \in Backends : IsDone(b, "result")
       /\ outcome = "completed" => \A b \in Backends : worker[b] = "completed"

(* What a worker's session holds when its whole result is recorded. *)
Whole(b) == Control!NewSession \o Control!ResultEntries(b)

(* A session is the part of what its writers record that they have         *)
(* recorded, unless the record of a failure came in between.               *)
SessionOk(b) ==
  /\ stage \in {"idle", "probing"} => sessions[b] = << >>
  /\ IsDone(b, "create") => Len(sessions[b]) >= 2
  /\ /\ stage \in {"creating", "admitting", "working"}
     /\ IsDone(b, "create")
     => sessions[b] = Control!NewSession
  /\ Control!State(b, "create") = "recording" =>
       sessions[b] \o writer[b]["create"].pending = Control!NewSession
  /\ Control!State(b, "result") = "recording" =>
       \/ sessions[b] \o writer[b]["result"].pending = Whole(b)
       \/ Control!HasEnded(sessions[b])
  /\ IsDone(b, "result") => sessions[b] = Whole(b)
  /\ Control!State(b, "failure") = "recording" =>
       writer[b]["failure"].pending = <<"SESSION_FAILED">>
  /\ sessions[b] # << >> /\ sessions[b][Len(sessions[b])] = "SESSION_COMPLETED" =>
       /\ stage \in {"recording", "failing", "ended", "restarted"}
       /\ worker[b] = "completed"
       /\ sessions[b] = Whole(b)

SessionsInv == \A b \in Backends : SessionOk(b)

ControlInv ==
  /\ ControlTyped /\ WritersInv /\ StageInv /\ SessionsInv
  /\ Control!GovernedWorkersAreGoverned

-----------------------------------------------------------------------------
(* Sequences.                                                              *)

LEMMA Concatenation ==
  ASSUME NEW S, NEW s \in Seq(S), NEW t \in Seq(S)
  PROVE  /\ s \o t \in Seq(S)
         /\ Len(s \o t) = Len(s) + Len(t)
         /\ \A i \in 1..Len(s) : (s \o t)[i] = s[i]
         /\ \A i \in 1..Len(t) : (s \o t)[Len(s) + i] = t[i]
  OBVIOUS

LEMMA SequencesEqual ==
  ASSUME NEW S, NEW s \in Seq(S), NEW t \in Seq(S), Len(s) = Len(t),
         \A i \in 1..Len(s) : s[i] = t[i]
  PROVE  s = t
  OBVIOUS

LEMMA NothingIsEmpty ==
  ASSUME NEW S, NEW s \in Seq(S)
  PROVE  s = << >> <=> Len(s) = 0
  OBVIOUS

(* What is taken from one end of a seam and put on the other. *)
LEMMA SeamMoves ==
  ASSUME NEW S, NEW s \in Seq(S), NEW p \in Seq(S), p # << >>
  PROVE  /\ Head(p) \in S /\ Tail(p) \in Seq(S)
         /\ Append(s, Head(p)) \in Seq(S)
         /\ Append(s, Head(p)) \o Tail(p) = s \o p
         /\ (s \o p)[Len(s) + 1] = Head(p)
         /\ Len(s) + 1 \in 1..Len(s \o p)
         /\ Len(s) + 1 = Len(s \o p) <=> Tail(p) = << >>
         /\ Tail(p) = << >> => Append(s, Head(p)) = s \o p
         /\ Len(p) > 1 <=> Tail(p) # << >>
<1>1. /\ Len(p) \in Nat \ {0} /\ Len(s) \in Nat
      /\ Head(p) = p[1] /\ Head(p) \in S /\ Tail(p) \in Seq(S)
      /\ Len(Tail(p)) = Len(p) - 1
      /\ \A i \in 1..(Len(p) - 1) : Tail(p)[i] = p[i + 1]
  OBVIOUS
<1>2. /\ Append(s, Head(p)) \in Seq(S)
      /\ Len(Append(s, Head(p))) = Len(s) + 1
      /\ \A i \in 1..Len(s) : Append(s, Head(p))[i] = s[i]
      /\ Append(s, Head(p))[Len(s) + 1] = p[1]
  BY <1>1
<1>3. /\ s \o p \in Seq(S) /\ Len(s \o p) = Len(s) + Len(p)
      /\ \A i \in 1..Len(s) : (s \o p)[i] = s[i]
      /\ \A i \in 1..Len(p) : (s \o p)[Len(s) + i] = p[i]
  BY Concatenation
<1> DEFINE a == Append(s, Head(p))
           r == Tail(p)
<1>4. /\ a \in Seq(S) /\ Len(a) = Len(s) + 1
      /\ \A i \in 1..Len(s) : a[i] = s[i]
      /\ a[Len(s) + 1] = p[1]
      /\ r \in Seq(S) /\ Len(r) = Len(p) - 1
      /\ \A i \in 1..(Len(p) - 1) : r[i] = p[i + 1]
  BY <1>1, <1>2
<1> HIDE DEF a, r
<1>5. /\ a \o r \in Seq(S) /\ Len(a \o r) = Len(a) + Len(r)
      /\ \A i \in 1..Len(a) : (a \o r)[i] = a[i]
      /\ \A i \in 1..Len(r) : (a \o r)[Len(a) + i] = r[i]
  <2>1. a \in Seq(S) /\ r \in Seq(S)
    BY <1>4
  <2> QED BY <2>1, Concatenation
<1>6. ASSUME NEW i \in 1..(Len(s) + Len(p)) PROVE (a \o r)[i] = (s \o p)[i]
  <2>1. CASE i <= Len(s)
    BY <1>1, <1>3, <1>4, <1>5, <2>1
  <2>2. CASE i = Len(s) + 1
    BY <1>1, <1>3, <1>4, <1>5, <2>2
  <2>3. CASE i > Len(s) + 1
    <3> DEFINE j == i - Len(s) - 1
    <3>1. j \in 1..(Len(p) - 1) /\ i = Len(a) + j /\ i = Len(s) + (j + 1)
      BY <1>1, <1>4, <2>3
    <3> HIDE DEF j
    <3>2. (a \o r)[i] = r[j] /\ r[j] = p[j + 1]
      BY <1>4, <1>5, <3>1
    <3>3. (s \o p)[i] = p[j + 1]
      BY <1>1, <1>3, <3>1
    <3> QED BY <3>2, <3>3
  <2>4. Len(s) \in Int /\ Len(p) \in Int /\ i \in Int
    BY <1>1
  <2>5. i <= Len(s) \/ i = Len(s) + 1 \/ i > Len(s) + 1
    BY <2>4
  <2> QED BY <2>1, <2>2, <2>3, <2>5
<1>7. a \o r = s \o p
  <2>1. Len(a \o r) = Len(s) + Len(p)
    BY <1>1, <1>4, <1>5
  <2> QED BY <1>3, <1>5, <1>6, <2>1, SequencesEqual
<1>8. r = << >> <=> Len(p) = 1
  <2>1. r = << >> <=> Len(r) = 0
    BY <1>4, NothingIsEmpty
  <2>2. Len(r) = 0 <=> Len(p) = 1
    BY ONLY <1>1, <1>4
  <2> QED BY <2>1, <2>2
<1>9. r = << >> => a \o r = a
  <2> SUFFICES ASSUME r = << >> PROVE a \o r = a
    OBVIOUS
  <2>1. Len(a \o r) = Len(a)
    BY <1>1, <1>4, <1>5
  <2> QED BY <1>4, <1>5, <2>1, SequencesEqual
<1>10. (s \o p)[Len(s) + 1] = Head(p) /\ Len(s) + 1 \in 1..Len(s \o p)
  BY <1>1, <1>3
<1>11. Len(s) + 1 = Len(s \o p) <=> Len(p) = 1
  BY <1>1, <1>3
<1>12. Len(p) > 1 <=> Len(p) # 1
  BY <1>1
<1> QED BY <1>1, <1>2, <1>7, <1>8, <1>9, <1>10, <1>11, <1>12 DEF a, r

-----------------------------------------------------------------------------
(* The sessions of workers.                                                *)

Noted(n) == [i \in 1..n |-> "note"]

ResultOf(n, w, e) == <<"starting", "running", w>> \o Noted(n) \o <<e>>

SessionOf(n, w, e) == <<"SESSION_CREATED", "queued">> \o ResultOf(n, w, e)

FullSession(n, w, e) ==
  <<"SESSION_CREATED", "queued", "starting", "running", w>> \o Noted(n) \o <<e>>

(* Five entries, the notes and the end, however they are put together. *)
LEMMA SessionParts ==
  ASSUME NEW n \in Nat, NEW w \in Entries, NEW e \in Entries
  PROVE  /\ SessionOf(n, w, e) \in Seq(Entries)
         /\ Len(SessionOf(n, w, e)) = n + 6
         /\ SessionOf(n, w, e)[n + 6] = e
         /\ \A i \in 1..(n + 5) :
              SessionOf(n, w, e)[i] \in {"SESSION_CREATED", "queued", "starting",
                                        "running", w, "note"}
         /\ SessionOf(n, w, e) = FullSession(n, w, e)
         /\ ResultOf(n, w, e) \in Seq(Entries) /\ ResultOf(n, w, e) # << >>
<1> DEFINE c == <<"SESSION_CREATED", "queued">>
           r == <<"starting", "running", w>>
           l == <<"SESSION_CREATED", "queued", "starting", "running", w>>
           m == Noted(n)
           t == <<e>>
<1>1. /\ c \in Seq(Entries) /\ Len(c) = 2
      /\ c[1] = "SESSION_CREATED" /\ c[2] = "queued"
      /\ r \in Seq(Entries) /\ Len(r) = 3
      /\ r[1] = "starting" /\ r[2] = "running" /\ r[3] = w
  BY DEF Entries
<1>2. /\ l \in Seq(Entries) /\ Len(l) = 5
      /\ l[1] = "SESSION_CREATED" /\ l[2] = "queued"
      /\ l[3] = "starting" /\ l[4] = "running" /\ l[5] = w
  BY DEF Entries
<1>3. /\ m \in Seq(Entries) /\ Len(m) = n
      /\ \A i \in 1..n : m[i] = "note"
  <2>1. m \in [1..n -> Entries]
    BY DEF Noted, Entries
  <2> QED BY <2>1 DEF Noted
<1>4. t \in Seq(Entries) /\ Len(t) = 1 /\ t[1] = e
  OBVIOUS
<1> HIDE DEF c, r, l, m, t
<1>5. /\ r \o m \in Seq(Entries) /\ Len(r \o m) = 3 + n
      /\ \A i \in 1..3 : (r \o m)[i] = r[i]
      /\ \A i \in 1..n : (r \o m)[3 + i] = m[i]
  <2>1. r \in Seq(Entries) /\ m \in Seq(Entries)
    BY <1>1, <1>3
  <2>2. Len(r) = 3 /\ Len(m) = n
    BY <1>1, <1>3
  <2>3. /\ r \o m \in Seq(Entries) /\ Len(r \o m) = Len(r) + Len(m)
        /\ \A i \in 1..Len(r) : (r \o m)[i] = r[i]
        /\ \A i \in 1..Len(m) : (r \o m)[Len(r) + i] = m[i]
    BY <2>1, Concatenation
  <2> QED BY <2>2, <2>3
<1>6. /\ l \o m \in Seq(Entries) /\ Len(l \o m) = 5 + n
      /\ \A i \in 1..5 : (l \o m)[i] = l[i]
      /\ \A i \in 1..n : (l \o m)[5 + i] = m[i]
  <2>1. l \in Seq(Entries) /\ m \in Seq(Entries)
    BY <1>2, <1>3
  <2>2. Len(l) = 5 /\ Len(m) = n
    BY <1>2, <1>3
  <2>3. /\ l \o m \in Seq(Entries) /\ Len(l \o m) = Len(l) + Len(m)
        /\ \A i \in 1..Len(l) : (l \o m)[i] = l[i]
        /\ \A i \in 1..Len(m) : (l \o m)[Len(l) + i] = m[i]
    BY <2>1, Concatenation
  <2> QED BY <2>2, <2>3
<1> DEFINE rm == r \o m
           lm == l \o m
<1> HIDE DEF rm, lm
<1>7. /\ rm \o t \in Seq(Entries) /\ Len(rm \o t) = 4 + n
      /\ \A i \in 1..(3 + n) : (rm \o t)[i] = rm[i]
      /\ (rm \o t)[4 + n] = e
  <2>1. rm \in Seq(Entries) /\ t \in Seq(Entries)
    BY <1>4, <1>5 DEF rm
  <2>2. Len(rm) = 3 + n /\ Len(t) = 1 /\ t[1] = e
    BY <1>4, <1>5 DEF rm
  <2>3. /\ rm \o t \in Seq(Entries) /\ Len(rm \o t) = Len(rm) + Len(t)
        /\ \A i \in 1..Len(rm) : (rm \o t)[i] = rm[i]
        /\ \A i \in 1..Len(t) : (rm \o t)[Len(rm) + i] = t[i]
    BY <2>1, Concatenation
  <2> QED BY <2>2, <2>3
<1>8. /\ lm \o t \in Seq(Entries) /\ Len(lm \o t) = 6 + n
      /\ \A i \in 1..(5 + n) : (lm \o t)[i] = lm[i]
      /\ (lm \o t)[6 + n] = e
  <2>1. lm \in Seq(Entries) /\ t \in Seq(Entries)
    BY <1>4, <1>6 DEF lm
  <2>2. Len(lm) = 5 + n /\ Len(t) = 1 /\ t[1] = e
    BY <1>4, <1>6 DEF lm
  <2>3. /\ lm \o t \in Seq(Entries) /\ Len(lm \o t) = Len(lm) + Len(t)
        /\ \A i \in 1..Len(lm) : (lm \o t)[i] = lm[i]
        /\ \A i \in 1..Len(t) : (lm \o t)[Len(lm) + i] = t[i]
    BY <2>1, Concatenation
  <2> QED BY <2>2, <2>3
<1> DEFINE rmt == rm \o t
           lmt == lm \o t
<1> HIDE DEF rmt, lmt
<1>9. /\ c \o rmt \in Seq(Entries) /\ Len(c \o rmt) = 6 + n
      /\ \A i \in 1..2 : (c \o rmt)[i] = c[i]
      /\ \A i \in 1..(4 + n) : (c \o rmt)[2 + i] = rmt[i]
  <2>1. c \in Seq(Entries) /\ rmt \in Seq(Entries)
    BY <1>1, <1>7 DEF rmt
  <2>2. Len(c) = 2 /\ Len(rmt) = 4 + n
    BY <1>1, <1>7 DEF rmt
  <2>3. /\ c \o rmt \in Seq(Entries) /\ Len(c \o rmt) = Len(c) + Len(rmt)
        /\ \A i \in 1..Len(c) : (c \o rmt)[i] = c[i]
        /\ \A i \in 1..Len(rmt) : (c \o rmt)[Len(c) + i] = rmt[i]
    BY <2>1, Concatenation
  <2> QED BY <2>2, <2>3
<1>10. /\ (c \o rmt)[1] = "SESSION_CREATED" /\ (c \o rmt)[2] = "queued"
       /\ (c \o rmt)[3] = "starting" /\ (c \o rmt)[4] = "running"
       /\ (c \o rmt)[5] = w /\ (c \o rmt)[n + 6] = e
       /\ \A i \in 1..n : (c \o rmt)[5 + i] = "note"
  <2>1. (c \o rmt)[1] = "SESSION_CREATED" /\ (c \o rmt)[2] = "queued"
    BY <1>1, <1>9
  <2>2. rmt[1] = "starting" /\ rmt[2] = "running" /\ rmt[3] = w /\ rmt[4 + n] = e
    BY <1>1, <1>5, <1>7 DEF rm, rmt
  <2>3. ASSUME NEW i \in 1..n PROVE rmt[3 + i] = "note"
    BY <1>3, <1>5, <1>7 DEF rm, rmt
  <2>4. ASSUME NEW i \in 1..n PROVE (c \o rmt)[5 + i] = "note"
    <3>1. 3 + i \in 1..(4 + n) /\ 2 + (3 + i) = 5 + i
      OBVIOUS
    <3> QED BY <1>9, <2>3, <3>1
  <2>5. (c \o rmt)[n + 6] = e
    <3>1. 4 + n \in 1..(4 + n) /\ 2 + (4 + n) = n + 6
      OBVIOUS
    <3> QED BY <1>9, <2>2, <3>1
  <2>6. (c \o rmt)[3] = rmt[1] /\ (c \o rmt)[4] = rmt[2] /\ (c \o rmt)[5] = rmt[3]
    <3>1. 1 \in 1..(4 + n) /\ 2 \in 1..(4 + n) /\ 3 \in 1..(4 + n)
      OBVIOUS
    <3>2. 2 + 1 = 3 /\ 2 + 2 = 4 /\ 2 + 3 = 5
      OBVIOUS
    <3>3. \A i \in 1..(4 + n) : (c \o rmt)[2 + i] = rmt[i]
      BY <1>9
    <3> QED BY ONLY <3>1, <3>2, <3>3
  <2> HIDE DEF rmt
  <2> QED BY ONLY <2>1, <2>2, <2>4, <2>5, <2>6
<1>11. /\ lmt[1] = "SESSION_CREATED" /\ lmt[2] = "queued"
       /\ lmt[3] = "starting" /\ lmt[4] = "running"
       /\ lmt[5] = w /\ lmt[n + 6] = e
       /\ \A i \in 1..n : lmt[5 + i] = "note"
  BY <1>2, <1>3, <1>6, <1>8 DEF lm, lmt
<1>12. ASSUME NEW i \in 1..(n + 6)
       PROVE  i \in {1, 2, 3, 4, 5} \/ i = n + 6 \/ \E j \in 1..n : i = 5 + j
  <2>1. i > 5 /\ i # n + 6 => i - 5 \in 1..n /\ i = 5 + (i - 5)
    OBVIOUS
  <2>2. i > 5 \/ i \in {1, 2, 3, 4, 5}
    OBVIOUS
  <2> QED BY <2>1, <2>2
<1>13. c \o rmt = lmt
  <2>1. ASSUME NEW i \in 1..(n + 6) PROVE (c \o rmt)[i] = lmt[i]
    <3>1. CASE i \in {1, 2, 3, 4, 5} \/ i = n + 6
      BY <1>10, <1>11, <3>1
    <3>2. CASE \E j \in 1..n : i = 5 + j
      BY <1>10, <1>11, <3>2
    <3> QED BY <1>12, <3>1, <3>2
  <2>2. /\ c \o rmt \in Seq(Entries) /\ lmt \in Seq(Entries)
        /\ Len(c \o rmt) = n + 6 /\ Len(lmt) = n + 6
    BY <1>8, <1>9 DEF lmt
  <2> QED BY <2>1, <2>2, SequencesEqual
<1>14. \A i \in 1..(n + 5) : (c \o rmt)[i] \in {"SESSION_CREATED", "queued",
                                  "starting", "running", w, "note"}
  <2> TAKE i \in 1..(n + 5)
  <2>1. i \in 1..(n + 6) /\ i # n + 6
    OBVIOUS
  <2> QED BY <1>10, <1>12, <2>1
<1>15. rmt \in Seq(Entries) /\ rmt # << >>
  BY <1>7 DEF rmt
<1>16. /\ c \o rmt \in Seq(Entries) /\ Len(c \o rmt) = n + 6
       /\ (c \o rmt)[n + 6] = e
  BY <1>9, <1>10
<1>17. /\ ResultOf(n, w, e) = rmt /\ SessionOf(n, w, e) = c \o rmt
       /\ lmt = FullSession(n, w, e)
  BY DEF FullSession, ResultOf, SessionOf, c, r, l, m, t, rm, lm, rmt, lmt
<1> QED BY <1>13, <1>14, <1>15, <1>16, <1>17

LEMMA NewSessionParts ==
  /\ Control!NewSession \in Seq(Entries) /\ Control!NewSession # << >>
  /\ Len(Control!NewSession) = 2
  /\ Control!NewSession[1] = "SESSION_CREATED"
  /\ Control!NewSession[2] = "queued"
  BY DEF Control!NewSession, Entries

(* What a worker's whole session consists of. *)
LEMMA WholeParts ==
  ASSUME ControlTyped, NEW b \in Backends, worker[b] \in {"completed", "failed"}
  PROVE  /\ Control!ResultEntries(b) \in Seq(Entries)
         /\ Control!ResultEntries(b) # << >>
         /\ Whole(b) \in Seq(Entries) /\ Len(Whole(b)) = notes[b] + 6
         /\ worker[b] = "completed" =>
              /\ Whole(b)[Len(Whole(b))] = "SESSION_COMPLETED"
              /\ Whole(b) = FullSession(notes[b], "completed", "SESSION_COMPLETED")
         /\ worker[b] = "failed" => Whole(b)[Len(Whole(b))] = "SESSION_FAILED"
         /\ \A i \in 1..Len(Whole(b)) :
              Whole(b)[i] \in Control!Ends => i = Len(Whole(b))
<1> PICK n, w, e :
      /\ n = notes[b] /\ w = worker[b]
      /\ e = IF w = "completed" THEN "SESSION_COMPLETED" ELSE "SESSION_FAILED"
  OBVIOUS
<1>1. n \in Nat /\ w \in Entries /\ e \in Entries /\ e \in Control!Ends
  BY DEF ControlTyped, Entries, Control!Ends
<1>2. Control!ResultEntries(b) = ResultOf(n, w, e) /\ Whole(b) = SessionOf(n, w, e)
  BY DEF Control!ResultEntries, Control!NewSession, Noted, Whole, ResultOf, SessionOf
<1>3. w \in {"completed", "failed"}
  OBVIOUS
<1>4. /\ ResultOf(n, w, e) \in Seq(Entries) /\ ResultOf(n, w, e) # << >>
      /\ Whole(b) \in Seq(Entries) /\ Len(Whole(b)) = n + 6
      /\ Whole(b)[n + 6] = e
      /\ \A i \in 1..(n + 5) :
           Whole(b)[i] \in {"SESSION_CREATED", "queued", "starting", "running",
                            w, "note"}
      /\ Whole(b) = FullSession(n, w, e)
  <2>1. n \in Nat /\ w \in Entries /\ e \in Entries
    BY <1>1
  <2>2. /\ SessionOf(n, w, e) \in Seq(Entries)
        /\ Len(SessionOf(n, w, e)) = n + 6
        /\ SessionOf(n, w, e)[n + 6] = e
        /\ \A i \in 1..(n + 5) :
             SessionOf(n, w, e)[i] \in {"SESSION_CREATED", "queued", "starting",
                                       "running", w, "note"}
        /\ SessionOf(n, w, e) = FullSession(n, w, e)
        /\ ResultOf(n, w, e) \in Seq(Entries) /\ ResultOf(n, w, e) # << >>
    BY ONLY <2>1, SessionParts
  <2> QED BY ONLY <1>2, <2>2
<1>5. ASSUME NEW i \in 1..Len(Whole(b)), Whole(b)[i] \in Control!Ends
      PROVE  i = Len(Whole(b))
  <2>1. i \in 1..(n + 5) \/ i = n + 6
    BY <1>1, <1>4
  <2>2. \A x \in {"SESSION_CREATED", "queued", "starting", "running", w, "note"} :
          x \notin Control!Ends
    BY <1>3 DEF Control!Ends
  <2> QED BY <1>4, <1>5, <2>1, <2>2
<1>6. w = "completed" =>
        Whole(b) = FullSession(n, "completed", "SESSION_COMPLETED")
  BY <1>4
<1>7. /\ w = "completed" => e = "SESSION_COMPLETED"
      /\ w = "failed" => e = "SESSION_FAILED"
  OBVIOUS
<1>8. Whole(b)[Len(Whole(b))] = e
  BY <1>4
<1>9. Control!ResultEntries(b) \in Seq(Entries) /\ Control!ResultEntries(b) # << >>
  BY <1>2, <1>4
<1>10. Len(Whole(b)) = n + 6 /\ Whole(b) \in Seq(Entries)
  BY <1>4
<1> QED BY <1>5, <1>6, <1>7, <1>8, <1>9, <1>10

LEMMA ControlInit == Control!Init => ControlInv
<1> SUFFICES ASSUME Control!Init PROVE ControlInv
  OBVIOUS
<1>1. /\ << >> \in Seq(Entries)
      /\ Control!Idle \in [pending : Seq(Entries), seen : Nat, state : WriterStates]
      /\ Control!Idle.seen = 0 /\ Control!Idle.state = "idle"
  BY DEF Control!Idle, WriterStates
<1>2. ControlTyped
  <2>1. Control!TypeOK
    BY BoundsAreNat
    DEF Control!Init, Control!TypeOK, Control!Stages, Control!Tiers
  <2> QED BY <1>1, <2>1 DEF Control!Init, ControlTyped, Control!Tiers
<1>3. \A b \in Backends, w \in Control!Writers : writer[b][w] = Control!Idle
  BY DEF Control!Init
<1>4. WritersInv
  BY <1>1, <1>3 DEF WritersInv
<1>5. StageInv
  BY <1>1, <1>3
  DEF Control!Init, StageInv, IsIdle, IsDone, Control!State, Control!Writers
<1>6. SessionsInv
  BY <1>1, <1>3
  DEF Control!Init, SessionsInv, SessionOk, IsDone, Control!State, Control!Writers
<1>7. Control!GovernedWorkersAreGoverned
  BY DEF Control!Init, Control!GovernedWorkersAreGoverned
<1> QED BY <1>2, <1>4, <1>5, <1>6, <1>7 DEF ControlInv

LEMMA ControlSays ==
  ASSUME ControlInv
  PROVE  /\ Control!TypeOK /\ Control!GovernedWorkersAreGoverned
         /\ Control!CompletedSessionsAreWhole /\ Control!ReportedResultsAreDurable
<1>1. Control!TypeOK /\ Control!GovernedWorkersAreGoverned
  BY DEF ControlInv, ControlTyped
<1>2. Control!CompletedSessionsAreWhole
  <2> SUFFICES ASSUME NEW b \in Backends, sessions[b] # << >>,
                      sessions[b][Len(sessions[b])] = "SESSION_COMPLETED"
               PROVE  sessions[b] =
                        FullSession(notes[b], "completed", "SESSION_COMPLETED")
    BY DEF Control!CompletedSessionsAreWhole, Control!HasEnded, Control!Last,
           FullSession, Noted
  <2>1. worker[b] = "completed" /\ sessions[b] = Whole(b)
    BY DEF ControlInv, SessionsInv, SessionOk
  <2> QED BY <2>1, WholeParts DEF ControlInv
<1>3. Control!ReportedResultsAreDurable
  <2> SUFFICES ASSUME outcome \in {"completed", "failed"}, NEW b \in Backends
               PROVE  /\ Control!HasEnded(sessions[b])
                      /\ (Control!Last(sessions[b]) = "SESSION_COMPLETED")
                           <=> (worker[b] = "completed")
    BY DEF Control!ReportedResultsAreDurable
  <2>1. IsDone(b, "result")
    BY DEF ControlInv, StageInv
  <2>2. sessions[b] = Whole(b) /\ worker[b] \in {"completed", "failed"}
    BY <2>1 DEF ControlInv, StageInv, SessionsInv, SessionOk, IsIdle, IsDone
  <2>3. /\ Whole(b) \in Seq(Entries) /\ Len(Whole(b)) = notes[b] + 6
        /\ worker[b] = "completed" =>
             Whole(b)[Len(Whole(b))] = "SESSION_COMPLETED"
        /\ worker[b] = "failed" => Whole(b)[Len(Whole(b))] = "SESSION_FAILED"
    BY <2>2, WholeParts DEF ControlInv
  <2>4. Whole(b) # << >>
    BY <2>3 DEF ControlInv, ControlTyped
  <2> QED BY <2>2, <2>3, <2>4 DEF Control!HasEnded, Control!Last, Control!Ends
<1> QED BY <1>1, <1>2, <1>3

-----------------------------------------------------------------------------
(* ControlPlane: the steps of the writers.                                 *)

WriterRecords == [pending : Seq(Entries), seen : Nat, state : WriterStates]

Writing(b, w) == Control!State(b, w) \in {"recording", "interrupting"}

(* A writer that was recording goes on or stops, and nobody else moves. *)
Turns(b, w, r) ==
  /\ Writing(b, w)
  /\ writer' = [writer EXCEPT ![b][w] = r]
  /\ r \in WriterRecords
  /\ r.state # "idle"
  /\ r.state \in {"recording", "interrupting"} => r.pending # << >>
  /\ r.seen > 0 => r.state \in {"recording", "interrupting"}
  /\ r.state = "interrupting" =>
       w = "result" /\ r.pending = <<"SESSION_INTERRUPTED">>
  /\ sessions' \in [Backends -> Seq(Entries)]
  /\ UNCHANGED <<stage, probed, worker, ran, notes, outcome>>
  /\ faults' \in 0..MaxFaults

LEMMA TurnKeeps ==
  ASSUME ControlInv, NEW b \in Backends, NEW w \in Control!Writers, NEW r,
         Turns(b, w, r)
  PROVE  /\ ControlTyped' /\ WritersInv' /\ StageInv'
         /\ \A c \in Backends, v \in Control!Writers :
              /\ writer'[c][v] = IF c = b /\ v = w THEN r ELSE writer[c][v]
              /\ IsIdle(c, v)' <=> IsIdle(c, v)
              /\ IsDone(c, v) => IsDone(c, v)'
         /\ \A c \in Backends : Whole(c)' = Whole(c)
<1>1. writer \in [Backends -> [Control!Writers -> WriterRecords]]
  BY DEF ControlInv, ControlTyped, WriterRecords
<1>2. \A c \in Backends, v \in Control!Writers :
        writer'[c][v] = IF c = b /\ v = w THEN r ELSE writer[c][v]
  BY <1>1 DEF Turns
<1>3. writer' \in [Backends -> [Control!Writers -> WriterRecords]]
  BY <1>1 DEF Turns
<1>4. ControlTyped'
  <2>1. Control!TypeOK'
    BY DEF ControlInv, ControlTyped, Turns, Control!TypeOK
  <2> QED BY <1>3, <2>1 DEF ControlInv, ControlTyped, Turns, WriterRecords
<1>5. WritersInv'
  BY <1>2 DEF ControlInv, WritersInv, Turns
<1>6. \A c \in Backends, v \in Control!Writers :
        /\ IsIdle(c, v)' <=> IsIdle(c, v)
        /\ IsDone(c, v) => IsDone(c, v)'
        /\ v # w => (IsDone(c, v)' <=> IsDone(c, v))
        /\ c # b => (IsDone(c, v)' <=> IsDone(c, v))
  BY <1>2 DEF Turns, Writing, IsIdle, IsDone, Control!State
<1>7. {"create", "result", "failure"} \subseteq Control!Writers
  BY DEF Control!Writers
<1>8. ~IsDone(b, w)
  BY DEF Turns, Writing, IsDone, Control!State
<1>9. StageInv'
  <2>1. stage' = stage /\ worker' = worker /\ ran' = ran /\ probed' = probed
        /\ outcome' = outcome
    BY DEF Turns
  <2>2. stage' \in {"idle", "probing", "restarted"} =>
          \A c \in Backends, v \in Control!Writers : IsIdle(c, v)'
    BY <1>6, <2>1 DEF ControlInv, StageInv
  <2>3. ASSUME NEW c \in Backends
        PROVE  /\ ~IsIdle(c, "result")' =>
                    /\ stage' \in {"recording", "failing", "ended"}
                    /\ worker'[c] \in {"completed", "failed"}
               /\ ~IsIdle(c, "failure")' => stage' \in {"failing", "ended"}
               /\ ~IsIdle(c, "result")' \/ ~IsIdle(c, "failure")' =>
                    IsDone(c, "create")'
               /\ ran'[c] # "none" =>
                    stage' \notin {"idle", "probing", "creating", "admitting"}
               /\ stage' \in {"admitting", "working"} => IsDone(c, "create")'
               /\ stage' \in {"recording", "failing"} => IsDone(c, "create")'
               /\ stage' = "recording" => ~IsIdle(c, "result")'
    BY <1>6, <1>7, <2>1 DEF ControlInv, StageInv
  <2>4. stage' = "working" => \A c \in Governed : probed'[c] = "GOVERNED"
    BY <2>1 DEF ControlInv, StageInv
  <2>5. outcome' \in {"completed", "failed"} =>
          /\ stage' = "ended"
          /\ \A c \in Backends : IsDone(c, "result")'
          /\ outcome' = "completed" => \A c \in Backends : worker'[c] = "completed"
    BY <1>6, <1>7, <2>1 DEF ControlInv, StageInv
  <2> QED BY <2>2, <2>3, <2>4, <2>5 DEF StageInv
<1>10. \A c \in Backends : Whole(c)' = Whole(c)
  BY DEF Turns, Whole, Control!ResultEntries
<1> QED BY <1>2, <1>4, <1>5, <1>6, <1>9, <1>10

(* A turn that records nothing. *)
LEMMA TurnAside ==
  ASSUME ControlInv, NEW b \in Backends, NEW w \in Control!Writers, NEW r,
         Turns(b, w, r), sessions' = sessions, r.state # "done",
         r.state = "recording" =>
           Control!State(b, w) = "recording" /\ r.pending = writer[b][w].pending
  PROVE  ControlInv'
<1>1. /\ ControlTyped' /\ WritersInv' /\ StageInv'
      /\ \A c \in Backends, v \in Control!Writers :
           writer'[c][v] = IF c = b /\ v = w THEN r ELSE writer[c][v]
      /\ \A c \in Backends : Whole(c)' = Whole(c)
  BY TurnKeeps
<1>2. /\ stage' = stage /\ worker' = worker /\ sessions' = sessions
      /\ ran' = ran /\ probed' = probed
  BY DEF Turns
<1>3. {"create", "result", "failure"} \subseteq Control!Writers
  BY DEF Control!Writers
<1>4. ASSUME NEW c \in Backends, NEW v \in Control!Writers
      PROVE  /\ IsDone(c, v)' <=> IsDone(c, v)
             /\ Control!State(c, v)' = "recording" =>
                  /\ Control!State(c, v) = "recording"
                  /\ writer'[c][v].pending = writer[c][v].pending
  <2>1. CASE c = b /\ v = w
    BY <1>1, <2>1 DEF IsDone, Control!State, Turns, Writing
  <2>2. CASE ~(c = b /\ v = w)
    BY <1>1, <2>2 DEF IsDone, Control!State
  <2> QED BY <2>1, <2>2
<1>5. SessionsInv'
  <2> SUFFICES ASSUME NEW c \in Backends PROVE SessionOk(c)'
    BY DEF SessionsInv
  <2>1. Control!HasEnded(sessions[c])' <=> Control!HasEnded(sessions[c])
    BY <1>2 DEF Control!HasEnded, Control!Last
  <2>2. SessionOk(c)
    BY DEF ControlInv, SessionsInv
  <2>3. /\ IsDone(c, "create")' <=> IsDone(c, "create")
        /\ IsDone(c, "result")' <=> IsDone(c, "result")
        /\ \A v \in {"create", "result", "failure"} :
             Control!State(c, v)' = "recording" =>
               /\ Control!State(c, v) = "recording"
               /\ writer'[c][v].pending = writer[c][v].pending
    BY <1>3, <1>4
  <2>4. Whole(c)' = Whole(c)
    BY <1>1
  <2> QED BY <1>2, <2>1, <2>2, <2>3, <2>4 DEF SessionOk
<1>6. Control!GovernedWorkersAreGoverned'
  BY <1>2 DEF ControlInv, Control!GovernedWorkersAreGoverned
<1> QED BY <1>1, <1>5, <1>6 DEF ControlInv

LEMMA ReadKeeps ==
  ASSUME ControlInv, NEW b \in Backends, NEW w \in Control!Writers,
         Control!Read(b, w)
  PROVE  ControlInv'
<1> PICK r : r = [writer[b][w] EXCEPT !.seen = Len(sessions[b]) + 1]
  OBVIOUS
<1>1. writer[b][w] \in WriterRecords /\ sessions[b] \in Seq(Entries)
  BY DEF ControlInv, ControlTyped, WriterRecords
<1>2. /\ r \in WriterRecords /\ r.pending = writer[b][w].pending
      /\ r.state = writer[b][w].state
  BY <1>1 DEF WriterRecords
<1>3. Turns(b, w, r)
  <2>1. writer' = [writer EXCEPT ![b][w] = r]
    BY DEF Control!Read
  <2>2. Writing(b, w) /\ r.state \in {"recording", "interrupting"}
    BY <1>2 DEF Control!Read, Writing, Control!State
  <2>3. /\ r.pending # << >>
        /\ r.state = "interrupting" =>
             w = "result" /\ r.pending = <<"SESSION_INTERRUPTED">>
    BY <1>2, <2>2 DEF ControlInv, WritersInv
  <2>4. sessions' \in [Backends -> Seq(Entries)] /\ faults' \in 0..MaxFaults
    BY DEF Control!Read, ControlInv, ControlTyped, Control!TypeOK
  <2> QED BY <1>2, <2>1, <2>2, <2>3, <2>4 DEF Turns, Control!Read
<1>4. sessions' = sessions /\ r.state # "done"
  BY <1>2 DEF Control!Read
<1> QED BY <1>2, <1>3, <1>4, TurnAside DEF Control!State

(* A record that was refused or failed. *)
LEMMA RejectedKeeps ==
  ASSUME ControlInv, NEW b \in Backends, NEW w \in Control!Writers,
         writer[b][w].seen > 0,
         writer' = [writer EXCEPT ![b][w] = Control!Rejected(@, w)],
         UNCHANGED <<stage, probed, worker, ran, notes, sessions, outcome>>,
         faults' \in 0..MaxFaults
  PROVE  ControlInv'
<1> PICK r : r = Control!Rejected(writer[b][w], w)
  OBVIOUS
<1>1. writer[b][w] \in WriterRecords
  BY DEF ControlInv, ControlTyped, WriterRecords
<1>2. <<"SESSION_INTERRUPTED">> \in Seq(Entries) /\ << >> \in Seq(Entries)
  BY DEF Entries
<1>3. /\ r \in WriterRecords /\ r.seen = 0
      /\ \/ /\ w = "result" /\ r.state = "interrupting"
            /\ r.pending = <<"SESSION_INTERRUPTED">>
         \/ r.state = "rejected"
  BY <1>1, <1>2 DEF Control!Rejected, WriterRecords, WriterStates
<1>4. Writing(b, w)
  BY DEF ControlInv, WritersInv, Writing, Control!State
<1>5. Turns(b, w, r)
  <2>1. writer' = [writer EXCEPT ![b][w] = r]
    OBVIOUS
  <2>2. sessions' \in [Backends -> Seq(Entries)]
    BY DEF ControlInv, ControlTyped
  <2>3. <<"SESSION_INTERRUPTED">> # << >>
    OBVIOUS
  <2>4. /\ r.state # "idle" /\ ~(r.seen > 0)
        /\ r.state \in {"recording", "interrupting"} => r.pending # << >>
        /\ r.state = "interrupting" =>
             w = "result" /\ r.pending = <<"SESSION_INTERRUPTED">>
    <3>1. CASE r.state = "interrupting"
      <4>1. w = "result" /\ r.pending = <<"SESSION_INTERRUPTED">> /\ r.seen = 0
        BY ONLY <1>3, <3>1
      <4>2. r.pending # << >>
        BY ONLY <4>1
      <4>3. r.state # "idle" /\ ~(r.seen > 0)
        BY ONLY <4>1, <3>1
      <4> QED BY ONLY <4>1, <4>2, <4>3
    <3>2. CASE r.state = "rejected"
      BY ONLY <1>3, <3>2
    <3> QED BY <1>3, <3>1, <3>2
  <2> QED BY <1>3, <1>4, <2>1, <2>2, <2>4 DEF Turns
<1> QED BY <1>3, <1>5, TurnAside

LEMMA CommitKeeps ==
  ASSUME ControlInv, NEW b \in Backends, NEW w \in Control!Writers,
         Control!Commit(b, w)
  PROVE  ControlInv'
<1> PICK s, p, r : /\ s = sessions[b] /\ p = writer[b][w].pending
                   /\ r = Control!Behind(writer[b][w])
  OBVIOUS
<1>1. /\ writer[b][w] \in WriterRecords /\ s \in Seq(Entries) /\ p \in Seq(Entries)
      /\ sessions \in [Backends -> Seq(Entries)]
  BY DEF ControlInv, ControlTyped, WriterRecords
<1>2. Writing(b, w) /\ p # << >>
  BY DEF Control!Commit, ControlInv, WritersInv, Writing, Control!State
<1>3. /\ Head(p) \in Entries /\ Tail(p) \in Seq(Entries)
      /\ Append(s, Head(p)) \in Seq(Entries)
      /\ Append(s, Head(p)) \o Tail(p) = s \o p
      /\ (s \o p)[Len(s) + 1] = Head(p)
      /\ Len(s) + 1 \in 1..Len(s \o p)
      /\ Len(s) + 1 = Len(s \o p) <=> Tail(p) = << >>
      /\ Tail(p) = << >> => Append(s, Head(p)) = s \o p
      /\ Len(p) > 1 <=> Tail(p) # << >>
  <2>1. s \in Seq(Entries) /\ p \in Seq(Entries) /\ p # << >>
    BY <1>1, <1>2
  <2> QED BY ONLY <2>1, SeamMoves
<1> PICK h, u : h = Head(p) /\ u = Append(s, h)
  OBVIOUS
<1>4. /\ u \in Seq(Entries) /\ u # << >> /\ Len(u) = Len(s) + 1
      /\ u[Len(u)] = h /\ Len(s) \in Nat
  <2>1. s \in Seq(Entries) /\ h \in Entries /\ u = Append(s, h)
    BY <1>1, <1>3
  <2> QED BY ONLY <2>1
<1>5. /\ sessions'[b] = u
      /\ \A c \in Backends \ {b} : sessions'[c] = sessions[c]
      /\ sessions' \in [Backends -> Seq(Entries)]
  BY <1>1, <1>4 DEF Control!Commit
<1>6. /\ r \in WriterRecords /\ r.seen = 0 /\ r.pending = Tail(p)
      /\ r.state = IF Tail(p) # << >> THEN Control!State(b, w)
                   ELSE IF Control!State(b, w) = "interrupting" THEN "rejected"
                   ELSE "done"
  BY <1>1, <1>3 DEF Control!Behind, WriterRecords, WriterStates, Control!State
<1>7. ~Control!HasEnded(s)
  BY DEF Control!Commit, Control!Admits
<1>8. Control!State(b, w) = "interrupting" =>
        w = "result" /\ p = <<"SESSION_INTERRUPTED">> /\ Tail(p) = << >>
        /\ h = "SESSION_INTERRUPTED"
  <2>1. Control!State(b, w) = "interrupting" =>
          w = "result" /\ p = <<"SESSION_INTERRUPTED">>
    BY DEF ControlInv, WritersInv, Control!State
  <2>2. p = <<"SESSION_INTERRUPTED">> =>
          Tail(p) = << >> /\ Head(p) = "SESSION_INTERRUPTED"
    OBVIOUS
  <2> QED BY <2>1, <2>2
<1>9. Turns(b, w, r)
  <2>1. writer' = [writer EXCEPT ![b][w] = r]
    BY DEF Control!Commit
  <2>2. r.state # "idle" /\ r.state # "interrupting" /\ ~(r.seen > 0)
    <3>1. Control!State(b, w) \in {"recording", "interrupting"}
      BY <1>2 DEF Writing
    <3>2. CASE Tail(p) # << >>
      BY ONLY <1>6, <1>8, <3>1, <3>2
    <3>3. CASE Tail(p) = << >>
      BY ONLY <1>6, <1>8, <3>1, <3>3
    <3> QED BY <3>2, <3>3
  <2>3. r.state \in {"recording", "interrupting"} => r.pending # << >>
    BY <1>6
  <2>4. /\ UNCHANGED <<stage, probed, worker, ran, notes, outcome>>
        /\ faults' \in 0..MaxFaults
    BY DEF Control!Commit, ControlInv, ControlTyped, Control!TypeOK
  <2> QED BY ONLY <1>2, <1>5, <1>6, <2>1, <2>2, <2>3, <2>4 DEF Turns
<1>10. /\ ControlTyped' /\ WritersInv' /\ StageInv'
       /\ \A c \in Backends, v \in Control!Writers :
            /\ writer'[c][v] = IF c = b /\ v = w THEN r ELSE writer[c][v]
            /\ IsIdle(c, v)' <=> IsIdle(c, v)
            /\ IsDone(c, v) => IsDone(c, v)'
       /\ \A c \in Backends : Whole(c)' = Whole(c)
  BY <1>9, TurnKeeps
<1>11. {"create", "result", "failure"} = Control!Writers
  BY DEF Control!Writers
<1>12. stage' = stage /\ worker' = worker /\ ran' = ran /\ probed' = probed
  BY <1>9 DEF Turns
<1>13. ASSUME NEW c \in Backends, c # b PROVE SessionOk(c)'
  <2>1. SessionOk(c) /\ sessions'[c] = sessions[c]
    BY <1>5, <1>13 DEF ControlInv, SessionsInv
  <2>2. \A v \in Control!Writers :
          /\ writer'[c][v] = writer[c][v]
          /\ Control!State(c, v)' = Control!State(c, v)
          /\ IsDone(c, v)' <=> IsDone(c, v)
    BY <1>10, <1>13 DEF Control!State, IsDone
  <2>3. Control!HasEnded(sessions[c])' <=> Control!HasEnded(sessions[c])
    BY <2>1 DEF Control!HasEnded, Control!Last
  <2>4. Whole(c)' = Whole(c)
    BY <1>10
  <2> QED BY <1>11, <1>12, <2>1, <2>2, <2>3, <2>4 DEF SessionOk
<1>14. SessionOk(b)'
  <2>1. /\ SessionOk(b) /\ Whole(b)' = Whole(b)
        /\ \A v \in Control!Writers :
             /\ v # w => writer'[b][v] = writer[b][v]
             /\ v = w => writer'[b][v] = r
    BY <1>10 DEF ControlInv, SessionsInv
  <2>2. stage' \notin {"idle", "probing"}
    BY <1>2, <1>12
    DEF ControlInv, StageInv, Writing, IsIdle, Control!State
  <2>3. CASE w = "create"
    <3>1. /\ Control!State(b, "create") = "recording"
          /\ s \o p = Control!NewSession
      BY <1>2, <1>8, <2>1, <2>3 DEF Writing, SessionOk
    <3>2. IsIdle(b, "result")' /\ IsIdle(b, "failure")'
      <4>1. ~IsDone(b, "create")
        BY <3>1 DEF IsDone
      <4>2. IsIdle(b, "result") /\ IsIdle(b, "failure")
        BY <4>1 DEF ControlInv, StageInv
      <4> QED BY <1>10, <1>11, <4>2
    <3>3. h \in {"SESSION_CREATED", "queued"}
      <4>1. Len(s) + 1 \in {1, 2}
        <5>1. Len(s \o p) = 2
          BY <3>1, NewSessionParts
        <5>2. Len(s) + 1 \in 1..Len(s \o p)
          BY <1>3
        <5> QED BY ONLY <5>1, <5>2
      <4>2. h = Control!NewSession[Len(s) + 1]
        BY <1>3, <3>1
      <4>3. CASE Len(s) + 1 = 1
        BY <4>2, <4>3, NewSessionParts
      <4>4. CASE Len(s) + 1 = 2
        BY <4>2, <4>4, NewSessionParts
      <4> QED BY <4>1, <4>3, <4>4
    <3>4. IsDone(b, "create")' => u = Control!NewSession /\ Len(u) >= 2
      <4>1. Control!State(b, "create")' = r.state
        BY <1>11, <2>1, <2>3 DEF Control!State
      <4>2. r.state = "done" => Tail(p) = << >>
        BY <1>6, <2>3, <3>1
      <4>3. Tail(p) = << >> => u = Control!NewSession
        BY <1>3, <3>1
      <4>4. u = Control!NewSession => Len(u) >= 2
        <5> SUFFICES ASSUME u = Control!NewSession PROVE Len(u) >= 2
          OBVIOUS
        <5>1. Len(u) = 2
          BY NewSessionParts
        <5> QED BY ONLY <5>1
      <4> QED BY <4>1, <4>2, <4>3, <4>4 DEF IsDone
    <3>5. Control!State(b, "create")' = "recording" =>
            u \o writer'[b]["create"].pending = Control!NewSession
      BY <1>3, <1>6, <1>11, <2>1, <2>3, <3>1
    <3>6. u[Len(u)] # "SESSION_COMPLETED"
      BY <1>4, <3>3
    <3> QED BY <1>5, <2>2, <3>2, <3>4, <3>5, <3>6
            DEF SessionOk, IsIdle, IsDone, Control!State
  <2>4. ASSUME w # "create"
        PROVE  /\ stage' \notin {"creating", "admitting", "working"}
               /\ IsDone(b, "create")' /\ Control!State(b, "create")' = "done"
               /\ Len(u) >= 2
    <3>1. ~IsIdle(b, "result") \/ ~IsIdle(b, "failure")
      BY <1>2, <1>11, <2>4 DEF Writing, IsIdle
    <3>2. /\ stage \in {"recording", "failing", "ended"}
          /\ IsDone(b, "create")
      BY <3>1 DEF ControlInv, StageInv
    <3>3. IsDone(b, "create")'
      BY <1>10, <1>11, <3>2
    <3>4. Len(s) >= 2
      BY <2>1, <3>2 DEF SessionOk
    <3>5. Len(u) >= 2
      BY <1>4, <3>4
    <3> QED BY <1>12, <3>2, <3>3, <3>5 DEF IsDone
  <2>5. CASE w = "result"
    <3>1. worker[b] \in {"completed", "failed"} /\ stage \in {"recording", "failing", "ended"}
      BY <1>2, <2>5 DEF ControlInv, StageInv, IsIdle, Writing
    <3>2. writer'[b]["result"] = r /\ writer'[b]["failure"] = writer[b]["failure"]
      BY <1>11, <2>1, <2>5
    <3>3. CASE Control!State(b, "result") = "recording"
      <4>1. s \o p = Whole(b)
        BY <1>7, <2>1, <2>5, <3>3 DEF SessionOk
      <4>2. r.state = "recording" => u \o r.pending = Whole(b)
        BY <1>3, <1>6, <4>1
      <4>3. r.state = "done" => u = Whole(b)
        BY <1>3, <1>6, <2>5, <3>3, <4>1
      <4>4. h = "SESSION_COMPLETED" => u = Whole(b) /\ worker[b] = "completed"
        <5> SUFFICES ASSUME h = "SESSION_COMPLETED"
                     PROVE  u = Whole(b) /\ worker[b] = "completed"
          OBVIOUS
        <5>1. /\ Len(s) + 1 \in 1..Len(Whole(b))
              /\ Whole(b)[Len(s) + 1] \in Control!Ends
          BY <1>3, <4>1 DEF Control!Ends
        <5>2. Len(s) + 1 = Len(Whole(b))
          BY <3>1, <5>1, WholeParts DEF ControlInv
        <5>3. u = Whole(b)
          BY <1>3, <4>1, <5>2
        <5>4. Whole(b)[Len(Whole(b))] = "SESSION_COMPLETED"
          BY <1>4, <5>3
        <5>5. worker[b] = "failed" => Whole(b)[Len(Whole(b))] = "SESSION_FAILED"
          BY <3>1, WholeParts DEF ControlInv
        <5> QED BY <3>1, <5>3, <5>4, <5>5
      <4> QED BY <1>4, <1>5, <1>12, <2>1, <2>2, <2>4, <2>5, <3>1, <3>2, <4>2, <4>3, <4>4
              DEF SessionOk, IsDone, Control!State
    <3>4. CASE Control!State(b, "result") = "interrupting"
      <4>1. r.state = "rejected" /\ h = "SESSION_INTERRUPTED"
        BY <1>6, <1>8, <2>5, <3>4
      <4> QED BY <1>4, <1>5, <2>1, <2>2, <2>4, <2>5, <3>2, <4>1
              DEF SessionOk, IsDone, Control!State
    <3> QED BY <1>2, <2>5, <3>3, <3>4 DEF Writing
  <2>6. CASE w = "failure"
    <3>1. Control!State(b, "failure") = "recording" /\ p = <<"SESSION_FAILED">>
      BY <1>2, <1>8, <2>1, <2>6 DEF Writing, SessionOk
    <3>2. h = "SESSION_FAILED" /\ Tail(p) = << >>
      BY ONLY <3>1, h = Head(p)
    <3>3. r.state = "done"
      BY <1>6, <2>6, <3>1, <3>2
    <3>4. Control!HasEnded(u)
      BY <1>4, <3>2 DEF Control!HasEnded, Control!Last, Control!Ends
    <3>5. writer'[b]["result"] = writer[b]["result"] /\ writer'[b]["failure"] = r
      BY <1>11, <2>1, <2>6
    <3>6. ~IsDone(b, "result")
      <4> SUFFICES ASSUME IsDone(b, "result") PROVE FALSE
        OBVIOUS
      <4>1. s = Whole(b) /\ worker[b] \in {"completed", "failed"}
        BY <2>1 DEF SessionOk, ControlInv, StageInv, IsIdle, IsDone
      <4>2. /\ Whole(b) \in Seq(Entries) /\ Len(Whole(b)) = notes[b] + 6
            /\ Whole(b)[Len(Whole(b))] \in Control!Ends
        BY <4>1, WholeParts DEF ControlInv, Control!Ends
      <4>3. Whole(b) # << >>
        BY <4>2 DEF ControlInv, ControlTyped
      <4> QED BY <1>7, <4>1, <4>2, <4>3 DEF Control!HasEnded, Control!Last
    <3>7. ~IsDone(b, "result")' /\ Control!HasEnded(sessions[b])'
      BY <1>5, <3>4, <3>5, <3>6
      DEF IsDone, Control!State, Control!HasEnded, Control!Last
    <3> QED BY <1>4, <1>5, <2>1, <2>2, <2>4, <2>6, <3>2, <3>3, <3>5, <3>7
            DEF SessionOk, IsDone, Control!State
  <2> QED BY <1>11, <2>3, <2>5, <2>6
<1>15. Control!GovernedWorkersAreGoverned'
  <2>1. \A c \in Backends : Len(sessions[c]) >= 2 => Len(sessions'[c]) >= 2
    BY <1>4, <1>5
  <2> QED BY <1>12, <2>1 DEF ControlInv, Control!GovernedWorkersAreGoverned
<1> QED BY <1>10, <1>13, <1>14, <1>15 DEF ControlInv, SessionsInv

-----------------------------------------------------------------------------
(* ControlPlane: the steps of the task.                                    *)

(* A step of the task alone: no writer, worker or session moves. *)
LEMMA StageMoves ==
  ASSUME ControlInv, UNCHANGED <<probed, worker, ran, notes, sessions, writer, faults>>,
         stage' \in Control!Stages, StageInv',
         outcome' \in {"none", "completed", "failed", "threw"},
         stage' \in {"idle", "probing"} => stage \in {"idle", "probing"},
         stage' \in {"creating", "admitting", "working"} =>
           stage \in {"creating", "admitting", "working"},
         stage \in {"recording", "failing", "ended", "restarted"} =>
           stage' \in {"recording", "failing", "ended", "restarted"}
  PROVE  ControlInv'
<1>1. ControlTyped'
  BY DEF ControlInv, ControlTyped, Control!TypeOK
<1>2. WritersInv'
  BY DEF ControlInv, WritersInv
<1>3. SessionsInv'
  <2> SUFFICES ASSUME NEW b \in Backends PROVE SessionOk(b)'
    BY DEF SessionsInv
  <2>1. SessionOk(b)
    BY DEF ControlInv, SessionsInv
  <2>2. /\ \A w \in {"create", "result", "failure"} :
             /\ IsDone(b, w)' <=> IsDone(b, w)
             /\ Control!State(b, w)' = Control!State(b, w)
        /\ Control!HasEnded(sessions[b])' <=> Control!HasEnded(sessions[b])
        /\ Whole(b)' = Whole(b)
    BY DEF IsDone, Control!State, Control!HasEnded, Control!Last, Whole,
           Control!ResultEntries
  <2> QED BY <2>1, <2>2 DEF SessionOk
<1>4. Control!GovernedWorkersAreGoverned'
  BY DEF ControlInv, Control!GovernedWorkersAreGoverned
<1> QED BY <1>1, <1>2, <1>3, <1>4 DEF ControlInv

LEMMA TaskKeeps ==
  ASSUME ControlInv,
         \/ Control!Start \/ Control!SessionsCreated \/ Control!SessionNotCreated
         \/ Control!Report \/ Control!Throw
  PROVE  ControlInv'
<1>1. /\ \A b \in Backends, w \in Control!Writers :
           (writer' = writer => (IsIdle(b, w)' <=> IsIdle(b, w)))
      /\ \A b \in Backends, w \in Control!Writers :
           (writer' = writer => (IsDone(b, w)' <=> IsDone(b, w)))
  BY DEF IsIdle, IsDone, Control!State
<1>2. {"create", "result", "failure"} = Control!Writers
  BY DEF Control!Writers
<1>3. CASE Control!Start
  <2>1. StageInv'
    BY <1>1, <1>2, <1>3 DEF Control!Start, ControlInv, StageInv
  <2> QED BY <1>3, <2>1, StageMoves
          DEF Control!Start, Control!Stages, ControlInv, ControlTyped, Control!TypeOK
<1>4. CASE Control!SessionsCreated
  <2>1. \A b \in Backends : IsDone(b, "create")
    BY <1>4 DEF Control!SessionsCreated, Control!AllDone, IsDone
  <2>2. StageInv'
    BY <1>1, <1>2, <1>4, <2>1 DEF Control!SessionsCreated, ControlInv, StageInv
  <2> QED BY <1>4, <2>2, StageMoves
          DEF Control!SessionsCreated, Control!Stages, ControlInv, ControlTyped, Control!TypeOK
<1>5. CASE Control!SessionNotCreated
  <2>1. StageInv'
    BY <1>1, <1>2, <1>5 DEF Control!SessionNotCreated, ControlInv, StageInv
  <2> QED BY <1>5, <2>1, StageMoves
          DEF Control!SessionNotCreated, Control!Stages, ControlInv, ControlTyped, Control!TypeOK
<1>6. CASE Control!Report
  <2>1. \A b \in Backends : IsDone(b, "result")
    BY <1>6 DEF Control!Report, Control!AllDone, IsDone
  <2>2. StageInv'
    BY <1>1, <1>2, <1>6, <2>1 DEF Control!Report, ControlInv, StageInv
  <2> QED BY <1>6, <2>2, StageMoves
          DEF Control!Report, Control!Stages, ControlInv, ControlTyped, Control!TypeOK
<1>7. CASE Control!Throw
  <2>1. StageInv'
    BY <1>1, <1>2, <1>7 DEF Control!Throw, ControlInv, StageInv
  <2> QED BY <1>7, <2>1, StageMoves
          DEF Control!Throw, Control!Stages, ControlInv, ControlTyped, Control!TypeOK
<1> QED BY <1>3, <1>4, <1>5, <1>6, <1>7

(* One writer of every session begins to record. *)
Begins(v, e) ==
  /\ \A b \in Backends : IsIdle(b, v)
  /\ \A b \in Backends : e[b] \in Seq(Entries) /\ e[b] # << >>
  /\ writer' = [b \in Backends |-> [writer[b] EXCEPT ![v] = Control!Recording(e[b])]]

LEMMA BeginsWriters ==
  ASSUME ControlInv, NEW v \in Control!Writers, NEW e, Begins(v, e)
  PROVE  /\ writer' \in [Backends -> [Control!Writers -> WriterRecords]]
         /\ WritersInv'
         /\ \A b \in Backends :
              /\ writer'[b][v].pending = e[b]
              /\ Control!State(b, v)' = "recording"
              /\ ~IsIdle(b, v)' /\ ~IsDone(b, v)' /\ ~IsDone(b, v)
              /\ \A u \in Control!Writers \ {v} :
                   /\ writer'[b][u] = writer[b][u]
                   /\ Control!State(b, u)' = Control!State(b, u)
                   /\ IsIdle(b, u)' <=> IsIdle(b, u)
                   /\ IsDone(b, u)' <=> IsDone(b, u)
<1>1. writer \in [Backends -> [Control!Writers -> WriterRecords]]
  BY DEF ControlInv, ControlTyped, WriterRecords
<1>2. ASSUME NEW b \in Backends
      PROVE  /\ Control!Recording(e[b]) \in WriterRecords
             /\ Control!Recording(e[b]).pending = e[b]
             /\ Control!Recording(e[b]).seen = 0
             /\ Control!Recording(e[b]).state = "recording"
  BY DEF Begins, Control!Recording, WriterRecords, WriterStates
<1>3. ASSUME NEW b \in Backends, NEW u \in Control!Writers
      PROVE  writer'[b][u] = IF u = v THEN Control!Recording(e[b]) ELSE writer[b][u]
  BY <1>1 DEF Begins
<1>4. writer' \in [Backends -> [Control!Writers -> WriterRecords]]
  <2>1. \A b \in Backends :
          [writer[b] EXCEPT ![v] = Control!Recording(e[b])]
            \in [Control!Writers -> WriterRecords]
    BY <1>1, <1>2
  <2> QED BY <2>1 DEF Begins
<1>5. WritersInv'
  <2> SUFFICES ASSUME NEW b \in Backends, NEW u \in Control!Writers
               PROVE  /\ writer'[b][u].state \in {"recording", "interrupting"} =>
                           writer'[b][u].pending # << >>
                      /\ writer'[b][u].seen > 0 =>
                           writer'[b][u].state \in {"recording", "interrupting"}
                      /\ writer'[b][u].state = "interrupting" =>
                           /\ u = "result"
                           /\ writer'[b][u].pending = <<"SESSION_INTERRUPTED">>
    BY DEF WritersInv
  <2>1. CASE u = v
    BY <1>2, <1>3, <2>1 DEF Begins
  <2>2. CASE u # v
    BY <1>3, <2>2 DEF ControlInv, WritersInv
  <2> QED BY <2>1, <2>2
<1>6. ASSUME NEW b \in Backends
      PROVE  /\ writer'[b][v].pending = e[b]
             /\ Control!State(b, v)' = "recording"
             /\ ~IsIdle(b, v)' /\ ~IsDone(b, v)' /\ ~IsDone(b, v)
  BY <1>2, <1>3 DEF Begins, IsIdle, IsDone, Control!State
<1>7. ASSUME NEW b \in Backends, NEW u \in Control!Writers \ {v}
      PROVE  /\ writer'[b][u] = writer[b][u]
             /\ Control!State(b, u)' = Control!State(b, u)
             /\ IsIdle(b, u)' <=> IsIdle(b, u)
             /\ IsDone(b, u)' <=> IsDone(b, u)
  BY <1>3 DEF IsIdle, IsDone, Control!State
<1> QED BY <1>4, <1>5, <1>6, <1>7

LEMMA ProbesAnswerKeeps ==
  ASSUME ControlInv, Control!ProbesAnswer
  PROVE  ControlInv'
<1>1. {"create", "result", "failure"} = Control!Writers
  BY DEF Control!Writers
<1>2. CASE stage' = "ended" /\ outcome' = "threw" /\ UNCHANGED writer
  <2>1. \A b \in Backends, w \in Control!Writers :
          (IsIdle(b, w)' <=> IsIdle(b, w)) /\ (IsDone(b, w)' <=> IsDone(b, w))
    BY <1>2 DEF IsIdle, IsDone, Control!State
  <2>2. StageInv'
    BY <1>1, <1>2, <2>1 DEF Control!ProbesAnswer, ControlInv, StageInv
  <2> QED BY <1>2, <2>2, StageMoves DEF Control!ProbesAnswer, Control!Stages
<1>3. CASE /\ stage' = "creating" /\ UNCHANGED outcome
           /\ writer' = [b \in Backends |-> [writer[b] EXCEPT
                !["create"] = Control!Recording(Control!NewSession)]]
  <2> PICK e : e = [b \in Backends |-> Control!NewSession]
    OBVIOUS
  <2>1. Begins("create", e)
    <3>1. \A b \in Backends : IsIdle(b, "create")
      BY <1>1 DEF Control!ProbesAnswer, ControlInv, StageInv
    <3> QED BY <1>3, <3>1, NewSessionParts DEF Begins
  <2>2. /\ writer' \in [Backends -> [Control!Writers -> WriterRecords]]
        /\ WritersInv'
        /\ \A b \in Backends :
             /\ writer'[b]["create"].pending = e[b]
             /\ Control!State(b, "create")' = "recording"
             /\ ~IsIdle(b, "create")' /\ ~IsDone(b, "create")'
             /\ ~IsDone(b, "create")
             /\ \A u \in Control!Writers \ {"create"} :
                  /\ writer'[b][u] = writer[b][u]
                  /\ Control!State(b, u)' = Control!State(b, u)
                  /\ IsIdle(b, u)' <=> IsIdle(b, u)
                  /\ IsDone(b, u)' <=> IsDone(b, u)
    BY <1>1, <2>1, BeginsWriters
  <2>3. /\ stage = "probing" /\ stage' = "creating"
        /\ UNCHANGED <<probed, worker, ran, notes, sessions, faults, outcome>>
    BY <1>3 DEF Control!ProbesAnswer
  <2>4. ControlTyped'
    <3>1. Control!TypeOK'
      BY <2>3 DEF ControlInv, ControlTyped, Control!TypeOK, Control!Stages
    <3> QED BY <2>2, <2>3, <3>1 DEF ControlInv, ControlTyped, WriterRecords
  <2>5. \A b \in Backends, u \in Control!Writers : IsIdle(b, u)
    BY <2>3 DEF ControlInv, StageInv
  <2>6. \A b \in Backends : IsIdle(b, "result")' /\ IsIdle(b, "failure")'
    BY <1>1, <2>2, <2>5
  <2>7. \A b \in Backends : ran'[b] = "none"
    BY <2>3 DEF ControlInv, StageInv
  <2>8. outcome' \notin {"completed", "failed"}
    BY <2>3 DEF ControlInv, StageInv
  <2>9. StageInv'
    BY <2>3, <2>6, <2>7, <2>8 DEF StageInv
  <2>10. ASSUME NEW b \in Backends PROVE SessionOk(b)'
    <3>1. sessions'[b] = << >>
      BY <2>3 DEF ControlInv, SessionsInv, SessionOk
    <3>2. /\ ~IsDone(b, "create")' /\ ~IsDone(b, "result")'
          /\ Control!State(b, "result")' # "recording"
          /\ Control!State(b, "failure")' # "recording"
      BY <2>2, <2>6 DEF IsIdle, IsDone
    <3>3. << >> \o Control!NewSession = Control!NewSession
      BY NewSessionParts
    <3>4. sessions'[b] \o writer'[b]["create"].pending = Control!NewSession
      BY <2>2, <3>1, <3>3
    <3> QED BY <2>3, <3>1, <3>2, <3>4 DEF SessionOk
  <2>11. Control!GovernedWorkersAreGoverned'
    BY <2>3, <2>7 DEF Control!GovernedWorkersAreGoverned
  <2> QED BY <2>2, <2>4, <2>9, <2>10, <2>11 DEF ControlInv, SessionsInv
<1> QED BY <1>2, <1>3 DEF Control!ProbesAnswer

LEMMA FailKeeps ==
  ASSUME ControlInv, Control!Fail, stage \in {"admitting", "recording"},
         probed' \in [Backends -> Control!Tiers],
         stage = "recording" => probed' = probed,
         UNCHANGED <<worker, ran, notes, sessions, outcome, faults>>
  PROVE  ControlInv'
<1>1. {"create", "result", "failure"} = Control!Writers
  BY DEF Control!Writers
<1> PICK e : e = [b \in Backends |-> <<"SESSION_FAILED">>]
  OBVIOUS
<1>2. <<"SESSION_FAILED">> \in Seq(Entries) /\ <<"SESSION_FAILED">> # << >>
  BY DEF Entries, Control!Ends
<1>3. Begins("failure", e)
  <2>1. \A b \in Backends : IsIdle(b, "failure")
    BY DEF ControlInv, StageInv
  <2>2. writer' = [b \in Backends |-> [writer[b] EXCEPT
                     !["failure"] = Control!Recording(e[b])]]
    BY DEF Control!Fail
  <2>3. \A b \in Backends : e[b] \in Seq(Entries) /\ e[b] # << >>
    BY <1>2
  <2> QED BY <2>1, <2>2, <2>3 DEF Begins
<1>4. /\ writer' \in [Backends -> [Control!Writers -> WriterRecords]]
      /\ WritersInv'
      /\ \A b \in Backends :
           /\ writer'[b]["failure"].pending = e[b]
           /\ Control!State(b, "failure")' = "recording"
           /\ ~IsIdle(b, "failure")' /\ ~IsDone(b, "failure")'
           /\ ~IsDone(b, "failure")
           /\ \A u \in Control!Writers \ {"failure"} :
                /\ writer'[b][u] = writer[b][u]
                /\ Control!State(b, u)' = Control!State(b, u)
                /\ IsIdle(b, u)' <=> IsIdle(b, u)
                /\ IsDone(b, u)' <=> IsDone(b, u)
  BY <1>1, <1>3, BeginsWriters
<1>5. stage' = "failing"
  BY DEF Control!Fail
<1>6. ControlTyped'
  <2>1. Control!TypeOK'
    BY <1>5 DEF ControlInv, ControlTyped, Control!TypeOK, Control!Stages
  <2> QED BY <1>4, <2>1 DEF ControlInv, ControlTyped, WriterRecords
<1>7. \A b \in Backends : IsDone(b, "create") /\ IsDone(b, "create")'
  BY <1>1, <1>4 DEF ControlInv, StageInv
<1>8. \A b \in Backends :
        /\ IsIdle(b, "result")' <=> IsIdle(b, "result")
        /\ IsDone(b, "result")' <=> IsDone(b, "result")
        /\ writer'[b]["create"] = writer[b]["create"]
        /\ writer'[b]["result"] = writer[b]["result"]
        /\ Control!State(b, "create")' = Control!State(b, "create")
        /\ Control!State(b, "result")' = Control!State(b, "result")
  BY <1>1, <1>4
<1>9. outcome' \notin {"completed", "failed"}
  BY DEF ControlInv, StageInv
<1>10. StageInv'
  <2>1. \A b \in Backends :
          ~IsIdle(b, "result")' => worker'[b] \in {"completed", "failed"}
    BY <1>8 DEF ControlInv, StageInv
  <2> QED BY <1>5, <1>7, <1>9, <2>1 DEF StageInv
<1>11. ASSUME NEW b \in Backends PROVE SessionOk(b)'
  <2>1. SessionOk(b) /\ Whole(b)' = Whole(b)
        /\ (Control!HasEnded(sessions[b])' <=> Control!HasEnded(sessions[b]))
    BY DEF ControlInv, SessionsInv, Whole, Control!ResultEntries,
           Control!HasEnded, Control!Last
  <2>2. /\ writer'[b]["failure"].pending = <<"SESSION_FAILED">>
        /\ Control!State(b, "create") = "done"
    BY <1>4, <1>7 DEF IsDone
  <2> QED BY <1>5, <1>7, <1>8, <2>1, <2>2 DEF SessionOk
<1>12. Control!GovernedWorkersAreGoverned'
  <2>1. CASE stage = "admitting"
    <3>1. \A b \in Backends : ran'[b] = "none"
      BY <2>1 DEF ControlInv, StageInv
    <3> QED BY <3>1 DEF Control!GovernedWorkersAreGoverned
  <2>2. CASE stage = "recording"
    BY <2>2 DEF ControlInv, Control!GovernedWorkersAreGoverned
  <2> QED BY <2>1, <2>2
<1> QED BY <1>4, <1>6, <1>10, <1>11, <1>12 DEF ControlInv, SessionsInv

LEMMA ResultNotRecordedKeeps ==
  ASSUME ControlInv, Control!ResultNotRecorded
  PROVE  ControlInv'
<1>1. probed' \in [Backends -> Control!Tiers]
  BY DEF Control!ResultNotRecorded, ControlInv, ControlTyped, Control!TypeOK
<1> QED BY <1>1, FailKeeps DEF Control!ResultNotRecorded

(* A step of the workers, while no result of theirs is written. *)
LEMMA WorkersMove ==
  ASSUME ControlInv, stage \in {"admitting", "working"}, stage' = "working",
         probed' \in [Backends -> Control!Tiers],
         worker' \in [Backends -> {"none", "running", "completed", "failed"}],
         ran' \in [Backends -> Control!Tiers \cup {"none"}],
         notes' \in [Backends -> 0..MaxNotes],
         Control!Admissible(probed)',
         UNCHANGED <<sessions, writer, outcome, faults>>,
         \A b \in Backends :
           ran'[b] # "none" => (b \in Governed => ran'[b] = "GOVERNED")
  PROVE  ControlInv'
<1>1. /\ \A b \in Backends, w \in Control!Writers :
           (IsIdle(b, w)' <=> IsIdle(b, w)) /\ (IsDone(b, w)' <=> IsDone(b, w))
      /\ \A b \in Backends, w \in Control!Writers :
           Control!State(b, w)' = Control!State(b, w)
  BY DEF IsIdle, IsDone, Control!State
<1>2. {"create", "result", "failure"} = Control!Writers
  BY DEF Control!Writers
<1>3. ControlTyped'
  <2>1. Control!TypeOK'
    BY DEF ControlInv, ControlTyped, Control!TypeOK, Control!Stages
  <2>2. notes' \in [Backends -> Nat]
    BY BoundsAreNat
  <2> QED BY <2>1, <2>2 DEF ControlInv, ControlTyped
<1>4. WritersInv'
  BY DEF ControlInv, WritersInv
<1>5. \A b \in Backends :
        IsIdle(b, "result") /\ IsIdle(b, "failure") /\ IsDone(b, "create")
  BY DEF ControlInv, StageInv
<1>6. StageInv'
  <2>1. outcome' \notin {"completed", "failed"}
    BY DEF ControlInv, StageInv
  <2>2. \A b \in Governed : probed'[b] = "GOVERNED"
    BY DEF Control!Admissible
  <2> QED BY <1>1, <1>2, <1>5, <2>1, <2>2 DEF StageInv
<1>7. ASSUME NEW b \in Backends
      PROVE  SessionOk(b)' /\ Len(sessions'[b]) >= 2
  <2>1. sessions'[b] = Control!NewSession /\ Control!NewSession' = Control!NewSession
    BY <1>5 DEF ControlInv, SessionsInv, SessionOk, Control!NewSession
  <2>2. /\ IsDone(b, "create")' /\ ~IsDone(b, "result")'
        /\ Control!State(b, "create")' # "recording"
        /\ Control!State(b, "result")' # "recording"
        /\ Control!State(b, "failure")' # "recording"
    BY <1>1, <1>2, <1>5 DEF IsIdle, IsDone
  <2>3. sessions'[b][Len(sessions'[b])] = "queued" /\ Len(sessions'[b]) = 2
    BY <2>1, NewSessionParts
  <2> QED BY <2>1, <2>2, <2>3 DEF SessionOk
<1>8. Control!GovernedWorkersAreGoverned'
  BY <1>7 DEF Control!GovernedWorkersAreGoverned, Control!Admissible
<1> QED BY <1>3, <1>4, <1>6, <1>7, <1>8 DEF ControlInv, SessionsInv

LEMMA AdmitKeeps ==
  ASSUME ControlInv, Control!Admit
  PROVE  ControlInv'
<1> PICK tiers \in [Backends -> Control!Tiers] :
      /\ probed' = tiers
      /\ IF Control!Admissible(tiers)
         THEN /\ stage' = "working"
              /\ worker' = [b \in Backends |-> "running"]
              /\ UNCHANGED writer
         ELSE Control!Fail /\ UNCHANGED worker
  BY DEF Control!Admit
<1>1. stage = "admitting" /\ UNCHANGED <<ran, notes, sessions, outcome, faults>>
  BY DEF Control!Admit
<1>2. CASE Control!Admissible(tiers)
  <2>1. ran = [b \in Backends |-> "none"]
    BY <1>1 DEF ControlInv, ControlTyped, StageInv
  <2>2. ran' \in [Backends -> Control!Tiers \cup {"none"}]
        /\ \A b \in Backends : ran'[b] = "none"
    BY <1>1, <2>1
  <2>3. notes' \in [Backends -> 0..MaxNotes]
    BY <1>1 DEF ControlInv, ControlTyped, Control!TypeOK
  <2>4. Control!Admissible(probed)'
    BY <1>2 DEF Control!Admissible
  <2>5. worker' \in [Backends -> {"none", "running", "completed", "failed"}]
    BY <1>2
  <2> QED BY <1>1, <1>2, <2>2, <2>3, <2>4, <2>5, WorkersMove
<1>3. CASE ~Control!Admissible(tiers)
  BY <1>1, <1>3, FailKeeps
<1> QED BY <1>2, <1>3

LEMMA WorkersKeep ==
  ASSUME ControlInv, NEW b \in Backends, Control!Launch(b) \/ Control!Answer(b)
  PROVE  ControlInv'
<1>1. /\ stage = "working" /\ stage' = "working"
      /\ UNCHANGED <<sessions, writer, outcome, faults, probed>>
  BY DEF Control!Launch, Control!Answer
<1>2. /\ probed' \in [Backends -> Control!Tiers]
      /\ worker \in [Backends -> {"none", "running", "completed", "failed"}]
      /\ ran \in [Backends -> Control!Tiers \cup {"none"}]
      /\ notes \in [Backends -> 0..MaxNotes]
  BY <1>1 DEF ControlInv, ControlTyped, Control!TypeOK
<1>3. Control!Admissible(probed)'
  BY <1>1 DEF ControlInv, StageInv, Control!Admissible
<1>4. \A c \in Backends :
        ran[c] # "none" => (c \in Governed => ran[c] = "GOVERNED")
  BY DEF ControlInv, Control!GovernedWorkersAreGoverned
<1>5. CASE Control!Launch(b)
  <2> PICK tier \in Control!Tiers :
        IF Control!Runs(b, tier)
        THEN ran' = [ran EXCEPT ![b] = tier] /\ UNCHANGED worker
        ELSE worker' = [worker EXCEPT ![b] = "failed"] /\ UNCHANGED ran
    BY <1>5 DEF Control!Launch
  <2>1. notes' = notes
    BY <1>5 DEF Control!Launch
  <2>2. /\ worker' \in [Backends -> {"none", "running", "completed", "failed"}]
        /\ ran' \in [Backends -> Control!Tiers \cup {"none"}]
    BY <1>2
  <2>3. \A c \in Backends :
          ran'[c] # "none" => (c \in Governed => ran'[c] = "GOVERNED")
    BY <1>2, <1>4 DEF Control!Runs
  <2> QED BY <1>1, <1>2, <1>3, <2>1, <2>2, <2>3, WorkersMove
<1>6. CASE Control!Answer(b)
  <2>1. /\ ran' = ran
        /\ worker' \in [Backends -> {"none", "running", "completed", "failed"}]
        /\ notes' \in [Backends -> 0..MaxNotes]
    BY <1>2, <1>6 DEF Control!Answer, Control!AttachOutput
  <2> QED BY <1>1, <1>2, <1>3, <1>4, <2>1, WorkersMove
<1> QED BY <1>5, <1>6

LEMMA ReconcileKeeps ==
  ASSUME ControlInv, Control!Reconcile
  PROVE  ControlInv'
<1>1. {"create", "result", "failure"} = Control!Writers
  BY DEF Control!Writers
<1>2. /\ stage = "working" /\ stage' = "recording"
      /\ \A b \in Backends : worker[b] \in {"completed", "failed"}
      /\ UNCHANGED <<probed, worker, ran, notes, sessions, outcome, faults>>
  BY DEF Control!Reconcile, Control!Settled
<1> PICK e : e = [b \in Backends |-> Control!ResultEntries(b)]
  OBVIOUS
<1>3. Begins("result", e)
  <2>1. \A b \in Backends : IsIdle(b, "result")
    BY <1>2 DEF ControlInv, StageInv
  <2>2. writer' = [b \in Backends |-> [writer[b] EXCEPT
                     !["result"] = Control!Recording(e[b])]]
    BY DEF Control!Reconcile
  <2>3. \A b \in Backends : e[b] \in Seq(Entries) /\ e[b] # << >>
    BY <1>2, WholeParts DEF ControlInv
  <2> QED BY <2>1, <2>2, <2>3 DEF Begins
<1>4. /\ writer' \in [Backends -> [Control!Writers -> WriterRecords]]
      /\ WritersInv'
      /\ \A b \in Backends :
           /\ writer'[b]["result"].pending = e[b]
           /\ Control!State(b, "result")' = "recording"
           /\ ~IsIdle(b, "result")' /\ ~IsDone(b, "result")'
           /\ ~IsDone(b, "result")
           /\ \A u \in Control!Writers \ {"result"} :
                /\ writer'[b][u] = writer[b][u]
                /\ Control!State(b, u)' = Control!State(b, u)
                /\ IsIdle(b, u)' <=> IsIdle(b, u)
                /\ IsDone(b, u)' <=> IsDone(b, u)
  BY <1>1, <1>3, BeginsWriters
<1>5. ControlTyped'
  <2>1. Control!TypeOK'
    BY <1>2 DEF ControlInv, ControlTyped, Control!TypeOK, Control!Stages
  <2> QED BY <1>2, <1>4, <2>1 DEF ControlInv, ControlTyped, WriterRecords
<1>6. \A b \in Backends :
        /\ IsDone(b, "create") /\ IsDone(b, "create")'
        /\ IsIdle(b, "failure") /\ IsIdle(b, "failure")'
  BY <1>1, <1>2, <1>4 DEF ControlInv, StageInv
<1>7. outcome' \notin {"completed", "failed"}
  BY <1>2 DEF ControlInv, StageInv
<1>8. StageInv'
  BY <1>2, <1>4, <1>6, <1>7 DEF StageInv
<1>9. ASSUME NEW b \in Backends PROVE SessionOk(b)'
  <2>1. sessions[b] = Control!NewSession
    BY <1>2, <1>6 DEF ControlInv, SessionsInv, SessionOk
  <2>2. Whole(b)' = Whole(b)
    BY <1>2 DEF Whole, Control!ResultEntries
  <2>3. sessions'[b] \o writer'[b]["result"].pending = Whole(b)'
    BY <1>2, <1>4, <2>1, <2>2 DEF Whole
  <2>4. sessions'[b][Len(sessions'[b])] = "queued" /\ Len(sessions'[b]) = 2
    BY <1>2, <2>1, NewSessionParts
  <2>5. /\ Control!State(b, "create")' # "recording"
        /\ Control!State(b, "failure")' # "recording"
        /\ ~IsDone(b, "result")' /\ IsDone(b, "create")'
    BY <1>4, <1>6 DEF IsIdle, IsDone
  <2>6. sessions'[b][Len(sessions'[b])] # "SESSION_COMPLETED" /\ Len(sessions'[b]) >= 2
    BY ONLY <2>4
  <2>7. stage' = "recording"
    BY <1>2
  <2> QED BY ONLY <2>3, <2>5, <2>6, <2>7 DEF SessionOk
<1>10. Control!GovernedWorkersAreGoverned'
  BY <1>2 DEF ControlInv, Control!GovernedWorkersAreGoverned
<1> QED BY <1>4, <1>5, <1>8, <1>9, <1>10 DEF ControlInv, SessionsInv

(* What a recovery makes of a session. *)
LEMMA RecoveredParts ==
  ASSUME NEW s \in Seq(Entries)
  PROVE  /\ Control!Recovered(s) \in Seq(Entries)
         /\ Len(s) >= 2 => Len(Control!Recovered(s)) >= 2
         /\ Control!HasEnded(s) => Control!Recovered(s) = s
         /\ /\ Control!Recovered(s) # << >>
            /\ Control!Recovered(s)[Len(Control!Recovered(s))] = "SESSION_COMPLETED"
            => Control!Recovered(s) = s
<1> PICK u : u = Append(s, "SESSION_INTERRUPTED")
  OBVIOUS
<1>1. /\ u \in Seq(Entries) /\ Len(u) = Len(s) + 1 /\ Len(s) \in Nat
      /\ u[Len(u)] = "SESSION_INTERRUPTED"
  <2>1. "SESSION_INTERRUPTED" \in Entries
    BY DEF Entries
  <2> QED BY <2>1
<1>2. Control!Recovered(s) = s \/ Control!Recovered(s) = u
  BY DEF Control!Recovered
<1>3. Control!HasEnded(s) => Control!Recovered(s) = s
  BY DEF Control!Recovered, Control!HasEnded
<1>4. Len(s) >= 2 => Len(u) >= 2
  BY <1>1
<1> QED BY <1>1, <1>2, <1>3, <1>4

LEMMA DieKeeps ==
  ASSUME ControlInv, Control!Die
  PROVE  ControlInv'
<1>1. /\ stage' = "restarted" /\ outcome' = "none" /\ faults' \in 0..MaxFaults
      /\ writer' = [b \in Backends |-> [w \in Control!Writers |-> Control!Idle]]
      /\ sessions' = [b \in Backends |-> Control!Recovered(sessions[b])]
      /\ UNCHANGED <<probed, worker, ran, notes>>
  <2>1. faults \in Nat /\ faults < MaxFaults /\ faults' = faults + 1
    BY BoundsAreNat DEF Control!Die, ControlInv, ControlTyped, Control!TypeOK
  <2>2. faults' \in 0..MaxFaults
    BY <2>1, BoundsAreNat
  <2> QED BY <2>2 DEF Control!Die
<1>2. /\ Control!Idle \in WriterRecords
      /\ Control!Idle.seen = 0 /\ Control!Idle.state = "idle"
  BY DEF Control!Idle, WriterStates, WriterRecords
<1>3. \A b \in Backends, w \in Control!Writers : writer'[b][w] = Control!Idle
  BY <1>1
<1>4. \A b \in Backends, w \in Control!Writers :
        /\ IsIdle(b, w)' /\ ~IsDone(b, w)'
        /\ Control!State(b, w)' = "idle"
  BY <1>2, <1>3 DEF IsIdle, IsDone, Control!State
<1>5. {"create", "result", "failure"} = Control!Writers
  BY DEF Control!Writers
<1>6. ASSUME NEW b \in Backends
      PROVE  /\ sessions'[b] = Control!Recovered(sessions[b])
             /\ sessions'[b] \in Seq(Entries)
             /\ Len(sessions[b]) >= 2 => Len(sessions'[b]) >= 2
             /\ /\ sessions'[b] # << >>
                /\ sessions'[b][Len(sessions'[b])] = "SESSION_COMPLETED"
                => sessions'[b] = sessions[b]
  <2>1. sessions[b] \in Seq(Entries) /\ sessions'[b] = Control!Recovered(sessions[b])
    BY <1>1 DEF ControlInv, ControlTyped
  <2> QED BY <2>1, RecoveredParts
<1>7. ControlTyped'
  <2>1. Control!TypeOK'
    BY <1>1 DEF ControlInv, ControlTyped, Control!TypeOK, Control!Stages
  <2>2. writer' \in [Backends -> [Control!Writers -> WriterRecords]]
    BY <1>1, <1>2
  <2>3. sessions' \in [Backends -> Seq(Entries)]
    BY <1>1, <1>6
  <2> QED BY <1>1, <2>1, <2>2, <2>3 DEF ControlInv, ControlTyped, WriterRecords
<1>8. WritersInv'
  BY <1>2, <1>3 DEF WritersInv
<1>9. StageInv'
  BY <1>1, <1>4, <1>5 DEF StageInv
<1>10. ASSUME NEW b \in Backends PROVE SessionOk(b)'
  <2>1. SessionOk(b) /\ Whole(b)' = Whole(b)
    BY <1>1 DEF ControlInv, SessionsInv, Whole, Control!ResultEntries
  <2>2. /\ sessions'[b] # << >>
        /\ sessions'[b][Len(sessions'[b])] = "SESSION_COMPLETED"
        => worker'[b] = "completed" /\ sessions'[b] = Whole(b)'
    BY <1>1, <1>6, <2>1 DEF SessionOk
  <2>3. /\ ~IsDone(b, "create")' /\ ~IsDone(b, "result")'
        /\ Control!State(b, "create")' # "recording"
        /\ Control!State(b, "result")' # "recording"
        /\ Control!State(b, "failure")' # "recording"
    BY <1>4, <1>5
  <2> QED BY <1>1, <2>2, <2>3 DEF SessionOk
<1>11. Control!GovernedWorkersAreGoverned'
  BY <1>1, <1>6 DEF ControlInv, Control!GovernedWorkersAreGoverned
<1> QED BY <1>7, <1>8, <1>9, <1>10, <1>11 DEF ControlInv, SessionsInv

LEMMA ControlKeeps ==
  ASSUME ControlInv, Control!Next
  PROVE  ControlInv'
<1>1. CASE \/ Control!Start \/ Control!SessionsCreated
           \/ Control!SessionNotCreated \/ Control!Report \/ Control!Throw
  BY <1>1, TaskKeeps
<1>2. CASE Control!ProbesAnswer
  BY <1>2, ProbesAnswerKeeps
<1>3. CASE Control!Admit
  BY <1>3, AdmitKeeps
<1>4. CASE \E b \in Backends : Control!Launch(b) \/ Control!Answer(b)
  BY <1>4, WorkersKeep
<1>5. CASE Control!Reconcile
  BY <1>5, ReconcileKeeps
<1>6. CASE Control!ResultNotRecorded
  BY <1>6, ResultNotRecordedKeeps
<1>7. CASE Control!Die
  BY <1>7, DieKeeps
<1>8. ASSUME NEW b \in Backends, NEW w \in Control!Writers,
             Control!Write(b, w) \/ Control!DatabaseFails(b, w)
      PROVE  ControlInv'
  <2>1. CASE Control!Read(b, w)
    BY <2>1, ReadKeeps
  <2>2. CASE Control!Commit(b, w)
    BY <2>2, CommitKeeps
  <2>3. CASE Control!Refused(b, w)
    <3>1. faults' \in 0..MaxFaults
      BY <2>3 DEF Control!Refused, ControlInv, ControlTyped, Control!TypeOK
    <3> QED BY <2>3, <3>1, RejectedKeeps DEF Control!Refused
  <2>4. CASE Control!DatabaseFails(b, w)
    <3>1. faults \in Nat /\ faults < MaxFaults /\ faults' = faults + 1
      BY <2>4, BoundsAreNat
      DEF Control!DatabaseFails, ControlInv, ControlTyped, Control!TypeOK
    <3>2. faults' \in 0..MaxFaults
      BY <3>1, BoundsAreNat
    <3> QED BY <2>4, <3>2, RejectedKeeps DEF Control!DatabaseFails
  <2> QED BY <1>8, <2>1, <2>2, <2>3, <2>4 DEF Control!Write
<1> QED BY <1>1, <1>2, <1>3, <1>4, <1>5, <1>6, <1>7, <1>8 DEF Control!Next

LEMMA ControlEnds ==
  ASSUME ControlInv, Control!Next
  PROVE  Control!EndedSessionsStay
<1> SUFFICES ASSUME NEW b \in Backends, Control!HasEnded(sessions[b])
             PROVE  sessions'[b] = sessions[b]
  BY DEF Control!EndedSessionsStay
<1>1. sessions \in [Backends -> Seq(Entries)]
  BY DEF ControlInv, ControlTyped
<1>2. CASE Control!Die
  <2>1. sessions[b] \in Seq(Entries) /\ sessions'[b] = Control!Recovered(sessions[b])
    BY <1>1, <1>2 DEF Control!Die
  <2> QED BY <2>1, RecoveredParts
<1>3. ASSUME NEW c \in Backends, NEW w \in Control!Writers, Control!Commit(c, w)
      PROVE  sessions'[b] = sessions[b]
  <2>1. c # b
    BY <1>3 DEF Control!Commit, Control!Admits
  <2> QED BY <1>1, <1>3, <2>1 DEF Control!Commit
<1>4. \/ Control!Die
      \/ \E c \in Backends, w \in Control!Writers : Control!Commit(c, w)
      \/ sessions' = sessions
  BY DEF Control!Next, Control!Start, Control!ProbesAnswer, Control!SessionsCreated,
         Control!SessionNotCreated, Control!Admit, Control!Launch, Control!Answer,
         Control!Reconcile, Control!Report, Control!ResultNotRecorded,
         Control!Throw, Control!Write, Control!Read, Control!Refused,
         Control!DatabaseFails
<1> QED BY <1>2, <1>3, <1>4

LEMMA ControlStutters ==
  ASSUME ControlInv, UNCHANGED controlVars
  PROVE  ControlInv'
<1>1. ControlTyped' /\ WritersInv'
  BY DEF ControlInv, ControlTyped, WritersInv, Control!TypeOK, controlVars
<1>2. StageInv'
  BY DEF ControlInv, StageInv, IsIdle, IsDone, Control!State, controlVars
<1>3. SessionsInv'
  BY DEF ControlInv, SessionsInv, SessionOk, IsDone, Control!State,
         Control!HasEnded, Control!Last, Whole, Control!ResultEntries, controlVars
<1>4. Control!GovernedWorkersAreGoverned'
  BY DEF ControlInv, Control!GovernedWorkersAreGoverned, controlVars
<1> QED BY <1>1, <1>2, <1>3, <1>4 DEF ControlInv

-----------------------------------------------------------------------------
(* ControlPlane, as a part of the window.                                  *)

ControlPart == part = "control" => ControlInv

LEMMA ControlPartInit == Init => ControlPart
BY ControlInit DEF Init, ControlPart

LEMMA ControlPartKeeps ==
  ASSUME ControlPart, [Next]_vars
  PROVE  ControlPart'
<1>1. CASE ControlStep
  <2>1. part = "control" /\ part' = part
    BY <1>1 DEF ControlStep
  <2> QED BY <1>1, <2>1, ControlKeeps DEF ControlStep, ControlPart
<1>2. CASE WindowStep \/ ExportStep \/ TextStep \/ SelectionStep
  BY <1>2 DEF WindowStep, ExportStep, TextStep, SelectionStep, ControlPart
<1>3. CASE UNCHANGED vars
  <2>1. part' = part /\ UNCHANGED controlVars
    BY <1>3 DEF vars
  <2> QED BY <2>1, ControlStutters DEF ControlPart
<1> QED BY <1>1, <1>2, <1>3 DEF Next

(* A worker that the task requires governance of runs only as governed,    *)
(* though its backend is probed anew at every turn; a session that says    *)
(* completed holds the whole of the worker's result, though three writers  *)
(* of it race each other, failures of the database and the death of the    *)
(* application; and what runTask reports is what the sessions say.         *)
THEOREM WorkersStayGoverned == Spec => []WorkersAreGoverned
<1>1. ControlPart => WorkersAreGoverned
  BY ControlSays DEF ControlPart, WorkersAreGoverned
<1>2. ControlPart /\ [Next]_vars => ControlPart'
  BY ControlPartKeeps
<1> QED BY <1>1, <1>2, ControlPartInit, PTL DEF Spec

(* No record of a writer that read the session earlier, no retry and no    *)
(* recovery adds to a worker's session that has ended.                     *)
THEOREM SessionsStayEnded == Spec => EndedSessionsStay
<1>1. ControlPart /\ [Next]_vars => ControlPart'
  BY ControlPartKeeps
<1>2. ControlPart /\ [Next]_vars =>
        [part = "control" => Control!EndedSessionsStay]_vars
  <2> SUFFICES ASSUME ControlPart, Next, part = "control"
               PROVE  Control!EndedSessionsStay
    OBVIOUS
  <2>1. ControlInv /\ Control!Next
    BY DEF ControlPart, Next, WindowStep, ExportStep, ControlStep, TextStep, SelectionStep
  <2> QED BY <2>1, ControlEnds
<1>3. [][part = "control" => Control!EndedSessionsStay]_vars <=> EndedSessionsStay
  BY DEF EndedSessionsStay
<1> QED BY <1>1, <1>2, <1>3, ControlPartInit, PTL DEF Spec

-----------------------------------------------------------------------------
(* CodingPackExport: the inductive invariant.                              *)

Active == {"promote", "complete", "interrupt"}

FlightRecords ==
  [kind : Export!Kinds,
   pc : Active \cup {"read", "digest", "pick", "write", "land", "begin", "result"},
   pack : Export!Packs \cup {None}, confirmation : Export!Packs \cup {None},
   dest : Dests \cup {None}, op : Ops \cup {None}, read : Nat \cup {None}]

(* An operation that was recorded, and by this run of the desktop. *)
Current(o) == o \in Ops /\ store[o] # None /\ store[o].born = crashes

Promoted(o) == \E x \in bundle : x.op = o

(* What is under way has captured what was agreed to, and an export that   *)
(* has begun is the one its operation was started for.                     *)
FlightOk(f) ==
  /\ f \in FlightRecords
  /\ f.kind = "preview" <=> f.pc = "read"
  /\ f.pc \in Active \cup {"begin", "result"} => f.kind = "export"
  /\ f.kind \in {"approve", "evaluate", "export"} \/ f.pc = "land" =>
       Current(f.op)
  /\ f.confirmation # None => f.confirmation \in consented
  /\ f.kind \in {"confirm", "create"} => f.pack \in Export!Packs
  /\ f.kind = "confirm" => f.pack \in consented
  /\ f.kind = "create" => f.confirmation # None /\ f.dest \in Dests
  /\ f.pc \in Active =>
       /\ store[f.op].state = "export_started"
       /\ store[f.op].pack = f.pack /\ store[f.op].dest = f.dest
       /\ f.read = f.pack.content
  /\ f.pc \in {"promote", "interrupt"} => ~Promoted(f.op)
  /\ f.pc \in {"complete", "result"} => Promoted(f.op)

FlightsInv == \A f \in flight : FlightOk(f)

(* No two exports of one operation. *)
ActiveAreUnique ==
  \A f, g \in flight :
    f.pc \in Active /\ g.pc \in Active /\ f.op = g.op => f = g

StoreInv ==
  \A o \in Ops : store[o] # None =>
    /\ store[o].pack \in consented /\ store[o].born <= crashes
    /\ store[o].state = "export_completed" => Promoted(o)

BundlesInv ==
  \A x \in bundle :
    /\ x.op \in Ops /\ store[x.op] # None
    /\ store[x.op].state \in {"export_started", "export_completed"}
    /\ x.pack \in consented /\ x.content = x.pack.content
    /\ store[x.op].pack = x.pack /\ store[x.op].dest = x.dest
    /\ store[x.op].born = x.era

ScreenInv ==
  /\ screen \in Export!Screens
  /\ screen.confirmation # None => screen.confirmation \in consented
  /\ screen.shown # None => Current(screen.shown.op)

Denied == Export!PreStart \cup {"export_interrupted"}

Exporting(o) ==
  \E f \in flight : f.kind = "export" /\ f.op = o /\ f.pc # "land"

(* What the panel shows is of before the bundle only while an export that  *)
(* will show more is under way, or an error is shown.                      *)
PanelInv ==
  /\ screen.shown # None /\ ~screen.failed /\ screen.shown.state \in Denied
  => Exporting(screen.shown.op) \/ ~Promoted(screen.shown.op)

StoreRecords ==
  [state : Export!States, pack : Export!Packs, dest : Dests, born : Nat]

ExportTyped ==
  /\ project \in [gen : Nat, selected : SUBSET Files, purpose : Purposes]
  /\ awaiting \in BOOLEAN /\ digesting \in (SUBSET Files) \cup {None}
  /\ store \in [Ops -> StoreRecords \cup {None}]
  /\ sources \in Nat /\ made \in 0..MaxPreviews /\ crashes \in Nat

ExportInv ==
  /\ ExportTyped /\ FlightsInv /\ ActiveAreUnique
  /\ StoreInv /\ BundlesInv /\ ScreenInv /\ PanelInv

ExportPart == part = "export" => ExportInv

LEMMA ExportInit == Export!Init => ExportInv
<1> SUFFICES ASSUME Export!Init PROVE ExportInv
  OBVIOUS
<1>1. ExportTyped
  <2>1. /\ sources = 0 /\ awaiting = FALSE /\ digesting = None /\ made = 0
        /\ crashes = 0 /\ store = [o \in Ops |-> None]
        /\ project = [gen |-> 1, selected |-> {}, purpose |-> FirstPurpose]
    BY DEF Export!Init, Export!NewProject
  <2>2. 0 \in 0..MaxPreviews
    BY BoundsAreNat
  <2>3. project \in [gen : Nat, selected : SUBSET Files, purpose : Purposes]
    BY <2>1, PurposesStart
  <2>4. store \in [Ops -> StoreRecords \cup {None}]
    BY <2>1
  <2> QED BY <2>1, <2>2, <2>3, <2>4 DEF ExportTyped
<1>2. FlightsInv /\ ActiveAreUnique
  BY DEF Export!Init, FlightsInv, ActiveAreUnique
<1>3. StoreInv /\ BundlesInv
  BY DEF Export!Init, StoreInv, BundlesInv
<1>4. ScreenInv /\ PanelInv
  BY DEF Export!Init, ScreenInv, PanelInv, Export!BlankScreen, Export!Screens
<1> QED BY <1>1, <1>2, <1>3, <1>4 DEF ExportInv

LEMMA ExportSays ==
  ASSUME ExportInv
  PROVE  /\ Export!TypeOK /\ Export!ConsentBehindExport
         /\ Export!SettlementIsTrue /\ Export!FilesAreAdmitted
<1>1. Export!TypeOK
  <2>1. ASSUME NEW f \in flight
        PROVE  /\ f.kind \in Export!Kinds
               /\ f.pc \in {"read", "digest", "pick", "write", "land", "begin",
                            "promote", "complete", "interrupt", "result"}
               /\ f.pc \in {"land", "result", "promote", "complete", "interrupt"}
                    => f.op \in Ops /\ store[f.op] # None
    <3>1. FlightOk(f)
      BY DEF ExportInv, FlightsInv
    <3> QED BY <3>1 DEF FlightOk, FlightRecords, Active, Current
  <2> QED BY <2>1
          DEF ExportInv, ExportTyped, ScreenInv, StoreRecords, Export!TypeOK
<1>2. Export!ConsentBehindExport
  BY DEF ExportInv, BundlesInv, Export!ConsentBehindExport
<1>3. Export!SettlementIsTrue
  BY DEF ExportInv, BundlesInv, StoreInv, Promoted, Export!SettlementIsTrue,
         Export!PreStart
<1>4. Export!FilesAreAdmitted
  BY DEF ExportInv, PanelInv, Denied, Exporting, Promoted,
         Export!FilesAreAdmitted
<1> QED BY <1>1, <1>2, <1>3, <1>4

-----------------------------------------------------------------------------
(* CodingPackExport: the steps of the panel and of the hook.               *)

(* What stays true of the records while no record changes. *)
LEMMA RecordsStay ==
  ASSUME ExportInv, UNCHANGED <<store, bundle, crashes>>,
         consented \subseteq consented'
  PROVE  /\ StoreInv' /\ BundlesInv'
         /\ \A f : FlightOk(f) => FlightOk(f)'
         /\ \A o : Current(o)' <=> Current(o)
         /\ \A o : Promoted(o)' <=> Promoted(o)
<1>1. /\ \A o : Current(o)' <=> Current(o)
      /\ \A o : Promoted(o)' <=> Promoted(o)
  BY DEF Current, Promoted
<1>2. StoreInv' /\ BundlesInv'
  BY <1>1 DEF ExportInv, StoreInv, BundlesInv
<1>3. ASSUME NEW f, FlightOk(f) PROVE FlightOk(f)'
  BY <1>1, <1>3 DEF FlightOk
<1> QED BY <1>1, <1>2, <1>3

LEMMA PanelMoves ==
  ASSUME ExportInv, UNCHANGED <<store, bundle, crashes>>,
         consented \subseteq consented',
         ExportTyped', ScreenInv', PanelInv',
         \A g \in flight' \ flight :
           /\ FlightOk(g)'
           /\ \A f \in flight' :
                f.pc \in Active /\ g.pc \in Active /\ f.op = g.op => f = g
  PROVE  ExportInv'
<1>1. /\ StoreInv' /\ BundlesInv'
      /\ \A f : FlightOk(f) => FlightOk(f)'
  BY RecordsStay
<1>2. FlightsInv'
  BY <1>1 DEF ExportInv, FlightsInv
<1>3. ActiveAreUnique'
  BY DEF ExportInv, ActiveAreUnique
<1> QED BY <1>1, <1>2, <1>3 DEF ExportInv

(* The panel goes on showing what it showed, or nothing, or an error. *)
LEMMA PanelStays ==
  ASSUME ExportInv, UNCHANGED bundle,
         \A f \in flight : f.kind = "export" /\ f.pc # "land" => f \in flight',
         \/ screen'.shown = None
         \/ screen'.failed
         \/ screen'.shown = screen.shown /\ screen'.failed = screen.failed
  PROVE  PanelInv'
<1>1. \A o : Promoted(o)' <=> Promoted(o)
  BY DEF Promoted
<1>2. \A o : Exporting(o) => Exporting(o)'
  BY DEF Exporting
<1> QED BY <1>1, <1>2 DEF ExportInv, PanelInv

LEMMA ClearedParts ==
  ASSUME ScreenInv
  PROVE  /\ Export!Cleared \in Export!Screens
         /\ Export!Cleared.confirmation = None /\ Export!Cleared.shown = None
  BY DEF ScreenInv, Export!Cleared, Export!Screens

LEMMA ProjectKeeps ==
  ASSUME ExportInv,
         \/ Export!OpenProject \/ Export!ProjectOpened \/ Export!DigestLands
         \/ \E file \in Files : Export!ToggleFile(file)
         \/ \E purpose \in Purposes : Export!SetPurpose(purpose)
         \/ Export!ExportRefused \/ Export!SourcesChange
         \/ \E o \in Ops : Export!Expires(o)
  PROVE  ExportInv'
<1>1. /\ flight' = flight /\ consented' = consented /\ made' = made
      /\ UNCHANGED <<store, bundle, crashes>>
  BY DEF Export!OpenProject, Export!ProjectOpened, Export!DigestLands,
         Export!ToggleFile, Export!SetPurpose, Export!ExportRefused,
         Export!SourcesChange, Export!Expires, Export!world
<1>2. /\ screen \in Export!Screens
      /\ Export!Cleared \in Export!Screens
      /\ Export!Cleared.confirmation = None /\ Export!Cleared.shown = None
  BY ClearedParts DEF ExportInv, ScreenInv
<1>3. \A o : Current(o)' <=> Current(o)
  BY <1>1 DEF Current
<1>4. CASE /\ UNCHANGED screen
           /\ \/ Export!OpenProject \/ Export!SourcesChange
              \/ \E o \in Ops : Export!Expires(o)
  <2>1. ScreenInv'
    BY <1>1, <1>3, <1>4 DEF ExportInv, ScreenInv
  <2>2. PanelInv'
    BY <1>1, <1>4, PanelStays
  <2>3. CASE Export!OpenProject
    <3>1. /\ project' = [gen |-> project.gen + 1, selected |-> {},
                         purpose |-> project.purpose]
          /\ awaiting' = TRUE /\ digesting' = None /\ sources' = sources
      BY <2>3 DEF Export!OpenProject, Export!NewProject, Export!world
    <3>2. ExportTyped'
      BY <1>1, <3>1 DEF ExportInv, ExportTyped
    <3> QED BY <1>1, <2>1, <2>2, <3>2, PanelMoves
  <2>4. CASE Export!SourcesChange \/ \E o \in Ops : Export!Expires(o)
    <3>1. /\ UNCHANGED <<project, awaiting, digesting>>
          /\ sources' = sources \/ sources' = sources + 1
      BY <2>4 DEF Export!SourcesChange, Export!Expires
    <3>2. ExportTyped'
      BY <1>1, <3>1 DEF ExportInv, ExportTyped
    <3> QED BY <1>1, <2>1, <2>2, <3>2, PanelMoves
  <2> QED BY <1>4, <2>3, <2>4
<1>5. CASE Export!ProjectOpened
  <2>1. ScreenInv'
    BY <1>5 DEF Export!ProjectOpened, ScreenInv, Export!BlankScreen, Export!Screens
  <2>2. screen'.shown = None
    BY <1>5 DEF Export!ProjectOpened, Export!BlankScreen
  <2>3. PanelInv'
    BY <1>1, <2>2, PanelStays
  <2>4. ExportTyped'
    BY <1>5 DEF Export!ProjectOpened, ExportInv, ExportTyped, Export!world
  <2> QED BY <1>1, <2>1, <2>3, <2>4, PanelMoves
<1>6. CASE Export!DigestLands
  <2>1. screen' = [screen EXCEPT !.digest = digesting] /\ digesting \in SUBSET Files
    BY <1>6 DEF Export!DigestLands, ExportInv, ExportTyped
  <2>2. /\ screen' \in Export!Screens /\ screen'.shown = screen.shown
        /\ screen'.failed = screen.failed
        /\ screen'.confirmation = screen.confirmation
    BY <1>2, <2>1 DEF Export!Screens
  <2>3. ScreenInv'
    BY <1>1, <1>3, <2>2 DEF ExportInv, ScreenInv, Export!Screens
  <2>4. PanelInv'
    BY <1>1, <2>2, PanelStays
  <2>5. ExportTyped'
    BY <1>6 DEF Export!DigestLands, ExportInv, ExportTyped, Export!world
  <2> QED BY <1>1, <2>3, <2>4, <2>5, PanelMoves
<1>7. ASSUME NEW file \in Files, Export!ToggleFile(file) PROVE ExportInv'
  <2>1. screen' = [Export!Cleared EXCEPT !.digest = None]
    BY <1>7 DEF Export!ToggleFile
  <2>2. /\ screen' \in Export!Screens /\ screen'.shown = None
        /\ screen'.confirmation = None
    BY <1>2, <2>1 DEF Export!Screens
  <2>3. ScreenInv'
    BY <2>2 DEF ScreenInv, Export!Screens
  <2>4. PanelInv'
    BY <1>1, <2>2, PanelStays
  <2>5. ExportTyped'
    BY <1>7 DEF Export!ToggleFile, ExportInv, ExportTyped, Export!world
  <2> QED BY <1>1, <2>3, <2>4, <2>5, PanelMoves
<1>8. ASSUME NEW purpose \in Purposes, Export!SetPurpose(purpose) PROVE ExportInv'
  <2>1. /\ screen' \in Export!Screens /\ screen'.shown = None
        /\ screen'.confirmation = None
    BY <1>2, <1>8 DEF Export!SetPurpose
  <2>2. ScreenInv'
    BY <2>1 DEF ScreenInv, Export!Screens
  <2>3. PanelInv'
    BY <1>1, <2>1, PanelStays
  <2>4. ExportTyped'
    BY <1>8 DEF Export!SetPurpose, ExportInv, ExportTyped, Export!world
  <2> QED BY <1>1, <2>2, <2>3, <2>4, PanelMoves
<1>9. CASE Export!ExportRefused
  <2>1. screen' = [screen EXCEPT !.failed = TRUE]
    BY <1>9 DEF Export!ExportRefused
  <2>2. /\ screen' \in Export!Screens /\ screen'.shown = screen.shown
        /\ screen'.failed /\ screen'.confirmation = screen.confirmation
    BY <1>2, <2>1 DEF Export!Screens
  <2>3. ScreenInv'
    BY <1>1, <1>3, <2>2 DEF ExportInv, ScreenInv, Export!Screens
  <2>4. PanelInv'
    BY <1>1, <2>2, PanelStays
  <2>5. ExportTyped'
    BY <1>9 DEF Export!ExportRefused, ExportInv, ExportTyped, Export!world
  <2> QED BY <1>1, <2>3, <2>4, <2>5, PanelMoves
<1>10. \/ Export!OpenProject \/ Export!SourcesChange
       \/ \E o \in Ops : Export!Expires(o)
       => UNCHANGED screen
  BY DEF Export!OpenProject, Export!SourcesChange, Export!Expires
<1> QED BY <1>4, <1>5, <1>6, <1>7, <1>8, <1>9, <1>10

(* What an operation of the hook captures. *)
LEMMA FlightParts ==
  ASSUME ExportInv, NEW kind \in Export!Kinds,
         NEW pc \in {"read", "digest", "pick", "write", "begin"}
  PROVE  /\ Export!Flight(kind, pc) \in FlightRecords
         /\ Export!Flight(kind, pc).kind = kind /\ Export!Flight(kind, pc).pc = pc
         /\ Export!Flight(kind, pc).pack = screen.preview
         /\ Export!Flight(kind, pc).confirmation = screen.confirmation
         /\ Export!Flight(kind, pc).dest = screen.dest
         /\ screen.shown # None =>
              Export!Flight(kind, pc).op = screen.shown.op /\ Current(screen.shown.op)
<1>1. /\ screen \in Export!Screens
      /\ screen.shown # None => screen.shown.op \in Ops /\ Current(screen.shown.op)
  BY DEF ExportInv, ScreenInv, Current
<1>2. PICK o : o = IF screen.shown = None THEN None ELSE screen.shown.op
  OBVIOUS
<1>3. o \in Ops \cup {None}
  BY <1>1, <1>2
<1>4. Export!Flight(kind, pc) =
        [kind |-> kind, pc |-> pc, pack |-> screen.preview,
         confirmation |-> screen.confirmation, dest |-> screen.dest,
         op |-> o, read |-> None]
  BY <1>2 DEF Export!Flight
<1>5. /\ screen.preview \in Export!Packs \cup {None}
      /\ screen.confirmation \in Export!Packs \cup {None}
      /\ screen.dest \in Dests \cup {None}
  BY <1>1 DEF Export!Screens
<1> QED BY <1>1, <1>2, <1>3, <1>4, <1>5 DEF FlightRecords

(* An operation of the hook departs: one that is not yet an export. *)
LEMMA Departure ==
  ASSUME ExportInv, NEW g,
         UNCHANGED <<project, awaiting, digesting, store, made, sources, bundle,
                     crashes>>,
         consented \subseteq consented',
         flight' = flight \cup {g}, FlightOk(g)', g.pc \notin Active,
         ScreenInv',
         \/ screen'.shown = None
         \/ screen'.shown = screen.shown /\ screen'.failed = screen.failed
         \/ screen'.shown # None /\ g.kind = "export" /\ g.pc = "begin"
            /\ g.op = screen'.shown.op
  PROVE  ExportInv'
<1>1. ExportTyped'
  BY DEF ExportInv, ExportTyped
<1>2. PanelInv'
  <2>1. CASE \/ screen'.shown = None
             \/ screen'.shown = screen.shown /\ screen'.failed = screen.failed
    BY <2>1, PanelStays
  <2>2. CASE g.kind = "export" /\ g.pc = "begin" /\ g.op = screen'.shown.op
    BY <2>2 DEF PanelInv, Exporting
  <2> QED BY <2>1, <2>2
<1> QED BY <1>1, <1>2, PanelMoves

LEMMA DeparturesKeep ==
  ASSUME ExportInv,
         \/ Export!RefreshPreview \/ Export!ConfirmPreview
         \/ Export!ChooseDestination \/ Export!CreateProposal
         \/ Export!ApproveProposal \/ Export!EvaluatePolicy \/ Export!Export
  PROVE  ExportInv'
<1>1. /\ UNCHANGED <<project, awaiting, digesting, store, made, sources, bundle,
                     crashes>>
      /\ consented \subseteq consented'
  BY DEF Export!RefreshPreview, Export!ConfirmPreview, Export!ChooseDestination,
         Export!CreateProposal, Export!ApproveProposal, Export!EvaluatePolicy,
         Export!Export, Export!Starts, Export!world
<1>2. /\ screen \in Export!Screens
      /\ screen.confirmation # None => screen.confirmation \in consented'
      /\ screen.shown # None => Current(screen.shown.op)
      /\ \A o : Current(o) <=> Current(o)'
  BY <1>1 DEF ExportInv, ScreenInv, Current
<1>3. CASE Export!RefreshPreview
  <2> PICK g : g = [Export!Flight("preview", "read") EXCEPT !.pack = Export!Pack(0, 0)]
    OBVIOUS
  <2>1. /\ Export!Flight("preview", "read") \in FlightRecords
        /\ Export!Flight("preview", "read").kind = "preview"
        /\ Export!Flight("preview", "read").pc = "read"
        /\ Export!Flight("preview", "read").confirmation = screen.confirmation
    BY FlightParts DEF Export!Kinds
  <2>2. Export!Pack(0, 0) \in Export!Packs
    BY BoundsAreNat DEF ExportInv, ExportTyped, Export!Pack, Export!Packs
  <2>3. /\ g \in FlightRecords /\ g.kind = "preview" /\ g.pc = "read"
        /\ g.confirmation = screen.confirmation
    BY <2>1, <2>2 DEF FlightRecords
  <2>4. FlightOk(g)' /\ g.pc \notin Active
    BY <1>2, <2>3 DEF FlightOk, Active
  <2>5. screen' = [Export!Cleared EXCEPT !.previewing = TRUE, !.preview = None]
        /\ flight' = flight \cup {g}
    BY <1>3 DEF Export!RefreshPreview, Export!Departs
  <2>6. /\ Export!Cleared \in Export!Screens
        /\ Export!Cleared.confirmation = None /\ Export!Cleared.shown = None
    BY ClearedParts DEF ExportInv
  <2>7. /\ screen' \in Export!Screens /\ screen'.shown = None
        /\ screen'.confirmation = None
    BY <2>5, <2>6 DEF Export!Screens
  <2>8. ScreenInv'
    BY <2>7 DEF ScreenInv, Export!Screens
  <2> QED BY <1>1, <2>4, <2>5, <2>7, <2>8, Departure
<1>4. CASE Export!ConfirmPreview
  <2> PICK g : g = Export!Flight("confirm", "digest")
    OBVIOUS
  <2>1. /\ g \in FlightRecords /\ g.kind = "confirm" /\ g.pc = "digest"
        /\ g.pack = screen.preview /\ g.confirmation = screen.confirmation
    BY FlightParts DEF Export!Kinds
  <2>2. /\ screen.preview \in Export!Packs /\ screen.preview \in consented'
        /\ flight' = flight \cup {g} /\ screen' = screen
    BY <1>2, <1>4 DEF Export!ConfirmPreview, Export!Departs, Export!Screens
  <2>3. FlightOk(g)' /\ g.pc \notin Active
    BY <1>2, <2>1, <2>2 DEF FlightOk, Active
  <2>4. ScreenInv'
    BY <1>2, <2>2 DEF ScreenInv, Export!Screens
  <2> QED BY <1>1, <2>2, <2>3, <2>4, Departure
<1>5. ASSUME screen' = [screen EXCEPT !.exporting = TRUE]
      PROVE  /\ ScreenInv' /\ screen'.shown = screen.shown
             /\ screen'.failed = screen.failed
  <2>1. /\ screen' \in Export!Screens /\ screen'.shown = screen.shown
        /\ screen'.failed = screen.failed
        /\ screen'.confirmation = screen.confirmation
    BY <1>2, <1>5 DEF Export!Screens
  <2> QED BY <1>2, <2>1 DEF ScreenInv, Export!Screens
<1>6. CASE Export!ChooseDestination
  <2> PICK g : g = Export!Flight("choose", "pick")
    OBVIOUS
  <2>1. /\ g \in FlightRecords /\ g.kind = "choose" /\ g.pc = "pick"
        /\ g.confirmation = screen.confirmation
    BY FlightParts DEF Export!Kinds
  <2>2. /\ screen' = [screen EXCEPT !.exporting = TRUE]
        /\ flight' = flight \cup {g}
    BY <1>6 DEF Export!ChooseDestination, Export!Starts, Export!Departs
  <2>3. FlightOk(g)' /\ g.pc \notin Active
    BY <1>2, <2>1 DEF FlightOk, Active
  <2> QED BY <1>1, <1>5, <2>2, <2>3, Departure
<1>7. CASE Export!CreateProposal
  <2> PICK g : g = Export!Flight("create", "write")
    OBVIOUS
  <2>1. /\ g \in FlightRecords /\ g.kind = "create" /\ g.pc = "write"
        /\ g.pack = screen.preview /\ g.confirmation = screen.confirmation
        /\ g.dest = screen.dest
    BY FlightParts DEF Export!Kinds
  <2>2. /\ screen' = [screen EXCEPT !.exporting = TRUE]
        /\ flight' = flight \cup {g}
        /\ screen.preview # None /\ screen.confirmation # None /\ screen.dest # None
    BY <1>7
    DEF Export!CreateProposal, Export!IsConfirmed, Export!Starts, Export!Departs
  <2>3. screen.preview \in Export!Packs /\ screen.dest \in Dests
    BY <1>2, <2>2 DEF Export!Screens
  <2>4. FlightOk(g)' /\ g.pc \notin Active
    BY <1>2, <2>1, <2>2, <2>3 DEF FlightOk, Active
  <2> QED BY <1>1, <1>5, <2>2, <2>4, Departure
<1>8. ASSUME NEW kind \in {"approve", "evaluate"}, screen.shown # None,
             Export!Starts(kind, "write")
      PROVE  ExportInv'
  <2> PICK g : g = Export!Flight(kind, "write")
    OBVIOUS
  <2>1. /\ g \in FlightRecords /\ g.kind = kind /\ g.pc = "write"
        /\ g.confirmation = screen.confirmation /\ g.op = screen.shown.op
    BY <1>8, FlightParts DEF Export!Kinds
  <2>2. /\ screen' = [screen EXCEPT !.exporting = TRUE]
        /\ flight' = flight \cup {g}
    BY <1>8 DEF Export!Starts, Export!Departs
  <2>3. FlightOk(g)' /\ g.pc \notin Active
    <3>1. Current(g.op)'
      BY <1>2, <1>8, <2>1
    <3> QED BY <1>2, <2>1, <3>1 DEF FlightOk, Active
  <2> QED BY <1>1, <1>5, <2>2, <2>3, Departure
<1>9. CASE Export!Export
  <2> PICK g : g = Export!Flight("export", "begin")
    OBVIOUS
  <2>1. screen.shown # None
    BY <1>9 DEF Export!Export, Export!CanExport, Export!Shows
  <2>2. /\ g \in FlightRecords /\ g.kind = "export" /\ g.pc = "begin"
        /\ g.confirmation = screen.confirmation /\ g.op = screen.shown.op
    BY <2>1, FlightParts DEF Export!Kinds
  <2>3. /\ screen' = [screen EXCEPT !.exporting = TRUE, !.failed = FALSE]
        /\ flight' = flight \cup {g}
    BY <1>9 DEF Export!Export, Export!Departs
  <2>4. FlightOk(g)' /\ g.pc \notin Active
    <3>1. Current(g.op)'
      BY <1>2, <2>1, <2>2
    <3> QED BY <1>2, <2>2, <3>1 DEF FlightOk, Active
  <2>5. /\ screen' \in Export!Screens /\ screen'.shown = screen.shown
        /\ screen'.confirmation = screen.confirmation
    BY <1>2, <2>3 DEF Export!Screens
  <2>6. ScreenInv'
    BY <1>2, <2>5 DEF ScreenInv, Export!Screens
  <2> QED BY <1>1, <2>1, <2>2, <2>3, <2>4, <2>5, <2>6, Departure
<1>10. /\ Export!ApproveProposal =>
            screen.shown # None /\ Export!Starts("approve", "write")
       /\ Export!EvaluatePolicy =>
            screen.shown # None /\ Export!Starts("evaluate", "write")
  BY DEF Export!ApproveProposal, Export!EvaluatePolicy, Export!Shows
<1> QED BY <1>3, <1>4, <1>6, <1>7, <1>8, <1>9, <1>10

(* An operation of the hook arrives: one that leaves nothing to be shown.  *)
LEMMA Arrival ==
  ASSUME ExportInv, NEW f \in flight,
         UNCHANGED <<store, bundle, crashes, consented>>, ExportTyped',
         flight' = flight \ {f}, ScreenInv',
         f.kind # "export" \/ f.pc = "land",
         \/ screen'.shown = None
         \/ screen'.shown = screen.shown /\ screen'.failed = screen.failed
  PROVE  ExportInv'
<1>1. PanelInv'
  BY PanelStays
<1> QED BY <1>1, PanelMoves

LEMMA ArrivalsKeep ==
  ASSUME ExportInv, NEW f \in flight,
         \/ Export!PreviewLands(f) \/ Export!PreviewFails(f)
         \/ Export!ConfirmationLands(f)
         \/ \E d \in Dests \cup {None} : Export!DestinationLands(f, d)
         \/ Export!StoreRefuses(f) \/ Export!Lands(f) \/ Export!ReadBackFails(f)
  PROVE  ExportInv'
<1>1. /\ UNCHANGED <<project, awaiting, digesting, store, sources, bundle,
                     crashes, consented>>
      /\ flight' = flight \ {f}
  BY DEF Export!PreviewLands, Export!PreviewFails, Export!ConfirmationLands,
         Export!DestinationLands, Export!StoreRefuses, Export!Lands,
         Export!ReadBackFails, Export!Arrives, Export!Ends, Export!world
<1>2. /\ screen \in Export!Screens
      /\ screen.confirmation # None => screen.confirmation \in consented
      /\ screen.shown # None => Current(screen.shown.op)
      /\ \A o : Current(o) <=> Current(o)'
      /\ consented' = consented
  BY <1>1 DEF ExportInv, ScreenInv, Current
<1>3. FlightOk(f)
  BY DEF ExportInv, FlightsInv
<1>4. ASSUME made' = made PROVE ExportTyped'
  BY <1>1, <1>4 DEF ExportInv, ExportTyped
<1>5. ASSUME screen' \in Export!Screens, screen'.shown = screen.shown,
             screen'.confirmation = screen.confirmation
      PROVE  ScreenInv'
  BY <1>2, <1>5 DEF ScreenInv
<1>6. CASE Export!PreviewLands(f)
  <2>1. /\ f.kind = "preview" /\ made' = made + 1 /\ made < MaxPreviews
        /\ screen' = IF Export!IsCurrent(f)
                       THEN [screen EXCEPT !.previewing = FALSE,
                               !.digest = f.pack.selected,
                               !.preview = Export!Pack(sources, made')]
                       ELSE [screen EXCEPT !.previewing = FALSE]
    BY <1>6 DEF Export!PreviewLands
  <2>2. made' \in 0..MaxPreviews
    BY <2>1, BoundsAreNat DEF ExportInv, ExportTyped
  <2>3. ExportTyped'
    BY <1>1, <2>2 DEF ExportInv, ExportTyped
  <2>4. CASE Export!IsCurrent(f)
    <3>1. f.pack.selected \in SUBSET Files
      BY <2>4 DEF Export!IsCurrent, Export!Pack, ExportInv, ExportTyped
    <3>2. PICK p : p = Export!Pack(sources, made')
      OBVIOUS
    <3>3. p \in Export!Packs
      BY <2>2, <3>2 DEF ExportInv, ExportTyped, Export!Pack, Export!Packs
    <3>4. screen' = [screen EXCEPT !.previewing = FALSE,
                       !.digest = f.pack.selected, !.preview = p]
      BY <2>1, <2>4, <3>2
    <3>5. /\ screen' \in Export!Screens /\ screen'.shown = screen.shown
          /\ screen'.failed = screen.failed
          /\ screen'.confirmation = screen.confirmation
      BY <1>2, <3>1, <3>3, <3>4 DEF Export!Screens
    <3> QED BY <1>1, <1>5, <2>1, <2>3, <3>5, Arrival
  <2>5. CASE ~Export!IsCurrent(f)
    <3>1. screen' = [screen EXCEPT !.previewing = FALSE]
      BY <2>1, <2>5
    <3>2. /\ screen' \in Export!Screens /\ screen'.shown = screen.shown
          /\ screen'.failed = screen.failed
          /\ screen'.confirmation = screen.confirmation
      BY <1>2, <3>1 DEF Export!Screens
    <3> QED BY <1>1, <1>5, <2>1, <2>3, <3>2, Arrival
  <2> QED BY <2>4, <2>5
<1>7. CASE Export!PreviewFails(f)
  <2>1. /\ f.kind = "preview" /\ made' = made
        /\ screen' = [screen EXCEPT !.previewing = FALSE]
    BY <1>7 DEF Export!PreviewFails
  <2>2. /\ screen' \in Export!Screens /\ screen'.shown = screen.shown
        /\ screen'.failed = screen.failed
        /\ screen'.confirmation = screen.confirmation
    BY <1>2, <2>1 DEF Export!Screens
  <2> QED BY <1>1, <1>4, <1>5, <2>1, <2>2, Arrival
<1>8. CASE Export!ConfirmationLands(f)
  <2>1. /\ f.kind = "confirm" /\ made' = made
        /\ screen' = [Export!Cleared EXCEPT !.confirmation = f.pack]
    BY <1>8 DEF Export!ConfirmationLands
  <2>2. f.pack \in Export!Packs /\ f.pack \in consented
    BY <1>3, <2>1 DEF FlightOk
  <2>3. Export!Cleared \in Export!Screens /\ Export!Cleared.shown = None
    BY ClearedParts DEF ExportInv
  <2>4. /\ screen' \in Export!Screens /\ screen'.shown = None
        /\ screen'.confirmation = f.pack
    BY <2>1, <2>2, <2>3 DEF Export!Screens
  <2>5. ScreenInv'
    BY <1>2, <2>2, <2>4 DEF ScreenInv
  <2> QED BY <1>1, <1>4, <2>1, <2>4, <2>5, Arrival
<1>9. ASSUME NEW d \in Dests \cup {None}, Export!DestinationLands(f, d)
      PROVE  ExportInv'
  <2>1. f.kind = "choose" /\ made' = made
    BY <1>9 DEF Export!DestinationLands
  <2>2. CASE screen' = [screen EXCEPT !.exporting = FALSE]
    <3>1. /\ screen' \in Export!Screens /\ screen'.shown = screen.shown
          /\ screen'.failed = screen.failed
          /\ screen'.confirmation = screen.confirmation
      BY <1>2, <2>2 DEF Export!Screens
    <3> QED BY <1>1, <1>4, <1>5, <2>1, <3>1, Arrival
  <2>3. CASE screen' = [[screen EXCEPT !.dest = d, !.shown = None,
                           !.failed = FALSE] EXCEPT !.exporting = FALSE]
    <3>1. /\ screen' \in Export!Screens /\ screen'.shown = None
          /\ screen'.confirmation = screen.confirmation
      BY <1>2, <2>3 DEF Export!Screens
    <3>2. ScreenInv'
      BY <1>2, <3>1 DEF ScreenInv
    <3> QED BY <1>1, <1>4, <2>1, <3>1, <3>2, Arrival
  <2> QED BY <1>9, <2>2, <2>3 DEF Export!DestinationLands, Export!Ends
<1>10. CASE Export!StoreRefuses(f) \/ Export!ReadBackFails(f)
  <2>1. /\ f.kind # "export" \/ f.pc = "land"
        /\ made' = made /\ screen' = [screen EXCEPT !.exporting = FALSE]
    BY <1>10 DEF Export!StoreRefuses, Export!ReadBackFails, Export!Ends
  <2>2. /\ screen' \in Export!Screens /\ screen'.shown = screen.shown
        /\ screen'.failed = screen.failed
        /\ screen'.confirmation = screen.confirmation
    BY <1>2, <2>1 DEF Export!Screens
  <2> QED BY <1>1, <1>4, <1>5, <2>1, <2>2, Arrival
<1>11. CASE Export!Lands(f)
  <2> PICK r : r = [op |-> f.op, state |-> store[f.op].state]
    OBVIOUS
  <2>1. made' = made /\ f.pc \in {"land", "result"}
        /\ screen' = [[screen EXCEPT !.shown = r] EXCEPT !.exporting = FALSE]
    BY <1>11 DEF Export!Lands, Export!Ends
  <2>2. Current(f.op)
    BY <1>3, <2>1 DEF FlightOk
  <2>3. store[f.op] \in StoreRecords /\ f.op \in Ops
    BY <2>2 DEF Current, ExportInv, ExportTyped
  <2>4. r \in [op : Ops, state : Export!States] /\ r.op = f.op
        /\ r.state = store[f.op].state
    BY <2>3 DEF StoreRecords
  <2>5. /\ screen' \in Export!Screens /\ screen'.shown = r
        /\ screen'.confirmation = screen.confirmation
    BY <1>2, <2>1, <2>4 DEF Export!Screens
  <2>6. Current(r.op)'
    BY <1>2, <2>2, <2>4
  <2>7. ScreenInv'
    BY <1>2, <2>5, <2>6 DEF ScreenInv
  <2>8. r.state \in Denied => ~Promoted(r.op)
    BY <2>4 DEF Denied, Promoted, ExportInv, BundlesInv, Export!PreStart
  <2>9. PanelInv'
    BY <1>1, <2>5, <2>8 DEF PanelInv, Promoted
  <2> QED BY <1>1, <1>4, <2>1, <2>7, <2>9, PanelMoves
<1> QED BY <1>6, <1>7, <1>8, <1>9, <1>10, <1>11

-----------------------------------------------------------------------------
(* CodingPackExport: the steps of the records and of the native export.    *)

(* An operation of the hook goes on, as f did. *)
Follows(f, g) ==
  /\ flight' = (flight \ {f}) \cup {g}
  /\ g.kind = f.kind /\ g.confirmation = f.confirmation /\ g.pack = f.pack
  /\ g.dest = f.dest

LEMMA GoesParts ==
  ASSUME NEW f \in FlightRecords,
         NEW pc \in Active \cup {"land", "result"}, Export!Goes(f, pc)
  PROVE  \E g \in FlightRecords :
           Follows(f, g) /\ g.op = f.op /\ g.pc = pc /\ g.read = f.read
<1> PICK g : g = [f EXCEPT !.pc = pc]
  OBVIOUS
<1>1. /\ g \in FlightRecords /\ g.pc = pc /\ g.op = f.op /\ g.read = f.read
      /\ g.kind = f.kind /\ g.confirmation = f.confirmation /\ g.pack = f.pack
      /\ g.dest = f.dest
  BY DEF FlightRecords
<1>2. flight' = (flight \ {f}) \cup {g}
  BY DEF Export!Goes
<1> QED BY <1>1, <1>2 DEF Follows

LEMMA PanelFollows ==
  ASSUME ExportInv, NEW f \in flight, NEW g, Follows(f, g),
         UNCHANGED bundle, screen'.shown = screen.shown,
         \/ screen'.failed
         \/ /\ screen'.failed = screen.failed
            /\ f.kind = "export" => g.op = f.op /\ g.pc # "land"
  PROVE  PanelInv'
<1>1. \A o : Promoted(o)' <=> Promoted(o)
  BY DEF Promoted
<1>2. CASE screen'.failed
  BY <1>2 DEF PanelInv
<1>3. CASE /\ screen'.failed = screen.failed
           /\ f.kind = "export" => g.op = f.op /\ g.pc # "land"
  <2>1. \A o : Exporting(o) => Exporting(o)'
    BY <1>3 DEF Exporting, Follows
  <2> QED BY <1>1, <1>3, <2>1 DEF ExportInv, PanelInv
<1> QED BY <1>2, <1>3

LEMMA CaughtKeeps ==
  ASSUME ExportInv, NEW f \in flight,
         \/ Export!NativeRefuses(f) \/ Export!ResultUnread(f)
         \/ Export!OutcomeLost(f)
  PROVE  ExportInv'
<1>1. /\ UNCHANGED <<project, awaiting, digesting, store, sources, bundle,
                     crashes, consented, made>>
      /\ Export!Goes(f, "land") /\ screen' = [screen EXCEPT !.failed = TRUE]
      /\ f.pc \in Active \cup {"begin", "result"}
  BY DEF Export!NativeRefuses, Export!ResultUnread, Export!OutcomeLost,
         Export!Caught, Export!world, Active
<1>2. FlightOk(f)
  BY DEF ExportInv, FlightsInv
<1>3. PICK g \in FlightRecords :
        Follows(f, g) /\ g.op = f.op /\ g.pc = "land" /\ g.read = f.read
  <2>1. f \in FlightRecords
    BY <1>2 DEF FlightOk
  <2> QED BY <1>1, <2>1, GoesParts
<1>4. ExportTyped'
  BY <1>1 DEF ExportInv, ExportTyped
<1>5. /\ screen' \in Export!Screens /\ screen'.shown = screen.shown
      /\ screen'.failed /\ screen'.confirmation = screen.confirmation
  BY <1>1 DEF ExportInv, ScreenInv, Export!Screens
<1>6. ScreenInv'
  BY <1>1, <1>5 DEF ExportInv, ScreenInv, Current
<1>7. PanelInv'
  BY <1>1, <1>3, <1>5, PanelFollows
<1>8. \A o : Current(o) => Current(o)'
  BY <1>1 DEF Current
<1>9. FlightOk(g)'
  BY <1>1, <1>2, <1>3, <1>8 DEF FlightOk, Follows, Active
<1> QED BY <1>1, <1>3, <1>4, <1>6, <1>7, <1>9, PanelMoves DEF Follows, Active

LEMMA PrePromotionFailureKeeps ==
  ASSUME ExportInv, NEW f \in flight, Export!PrePromotionFailure(f)
  PROVE  ExportInv'
<1>1. /\ UNCHANGED <<project, awaiting, digesting, store, sources, bundle,
                     crashes, consented, made, screen>>
      /\ Export!Goes(f, "interrupt") /\ f.pc = "promote"
  BY DEF Export!PrePromotionFailure
<1>2. FlightOk(f) /\ f.pc \in Active
  BY <1>1 DEF ExportInv, FlightsInv, Active
<1>3. PICK g \in FlightRecords :
        Follows(f, g) /\ g.op = f.op /\ g.pc = "interrupt" /\ g.read = f.read
  <2>1. f \in FlightRecords
    BY <1>2 DEF FlightOk
  <2> QED BY <1>1, <2>1, GoesParts DEF Active
<1>4. ExportTyped'
  BY <1>1 DEF ExportInv, ExportTyped
<1>5. ScreenInv'
  BY <1>1 DEF ExportInv, ScreenInv, Current
<1>6. PanelInv'
  BY <1>1, <1>3, PanelFollows
<1>7. /\ \A o : Current(o) => Current(o)'
      /\ \A o : Promoted(o) <=> Promoted(o)'
  BY <1>1 DEF Current, Promoted
<1>8. FlightOk(g)'
  BY <1>1, <1>2, <1>3, <1>7 DEF FlightOk, Follows, Active
<1>9. \A h \in flight' : h.pc \in Active /\ h.op = g.op => h = g
  BY <1>2, <1>3 DEF ExportInv, ActiveAreUnique, Follows
<1> QED BY <1>1, <1>3, <1>4, <1>5, <1>6, <1>8, <1>9, PanelMoves DEF Follows

(* The record of one operation moves, with the operation of the hook that  *)
(* moves it and no export of it under way.                                 *)
LEMMA RecordMoves ==
  ASSUME ExportInv, NEW f \in flight, NEW g, NEW o \in Ops, NEW r \in StoreRecords,
         UNCHANGED <<project, awaiting, digesting, sources, bundle, crashes,
                     consented, made>>,
         store' = [store EXCEPT ![o] = r],
         Follows(f, g), FlightOk(g)', g.op = o,
         ScreenInv', PanelInv',
         r.pack \in consented, r.born = crashes,
         store[o] # None =>
           /\ r.pack = store[o].pack /\ r.dest = store[o].dest
           /\ r.born = store[o].born,
         Promoted(o) => r.state \in {"export_started", "export_completed"},
         r.state = "export_completed" => Promoted(o),
         \A h \in flight \ {f} : h.pc \in Active => h.op # o
  PROVE  ExportInv'
<1>1. /\ \A p \in Ops \ {o} : store'[p] = store[p]
      /\ store'[o] = r /\ store' \in [Ops -> StoreRecords \cup {None}]
  BY DEF ExportInv, ExportTyped
<1>2. r # None
  BY NoneIsNoRecord DEF StoreRecords
<1>3. ExportTyped'
  BY <1>1 DEF ExportInv, ExportTyped
<1>4. /\ \A p : Current(p) => Current(p)'
      /\ \A p : Promoted(p)' <=> Promoted(p)
  BY <1>1, <1>2 DEF Current, Promoted
<1>5. FlightsInv'
  <2> SUFFICES ASSUME NEW h \in flight' PROVE FlightOk(h)'
    BY DEF FlightsInv
  <2>1. CASE h = g
    BY <2>1
  <2>2. CASE h # g
    <3>1. h \in flight \ {f} /\ FlightOk(h)
      BY <2>2 DEF Follows, ExportInv, FlightsInv
    <3>2. h.pc \in Active => h.op # o /\ h.op \in Ops
      BY <3>1 DEF FlightOk, Current
    <3>3. h.pc \in Active => store'[h.op] = store[h.op]
      BY <1>1, <3>2
    <3> QED BY <1>4, <3>1, <3>3 DEF FlightOk
  <2> QED BY <2>1, <2>2
<1>6. ActiveAreUnique'
  BY DEF ExportInv, ActiveAreUnique, Follows
<1>7. StoreInv'
  <2> SUFFICES ASSUME NEW p \in Ops, store'[p] # None
               PROVE  /\ store'[p].pack \in consented' /\ store'[p].born <= crashes'
                      /\ store'[p].state = "export_completed" => Promoted(p)'
    BY DEF StoreInv
  <2>1. CASE p = o
    BY <1>1, <1>4, <2>1 DEF ExportInv, ExportTyped
  <2>2. CASE p # o
    BY <1>1, <1>4, <2>2 DEF ExportInv, StoreInv
  <2> QED BY <2>1, <2>2
<1>8. BundlesInv'
  <2> SUFFICES ASSUME NEW x \in bundle
               PROVE  /\ x.op \in Ops /\ store'[x.op] # None
                      /\ store'[x.op].state \in {"export_started", "export_completed"}
                      /\ x.pack \in consented' /\ x.content = x.pack.content
                      /\ store'[x.op].pack = x.pack /\ store'[x.op].dest = x.dest
                      /\ store'[x.op].born = x.era
    BY DEF BundlesInv
  <2>1. /\ x.op \in Ops /\ store[x.op] # None
        /\ store[x.op].state \in {"export_started", "export_completed"}
        /\ x.pack \in consented /\ x.content = x.pack.content
        /\ store[x.op].pack = x.pack /\ store[x.op].dest = x.dest
        /\ store[x.op].born = x.era
    BY DEF ExportInv, BundlesInv
  <2>2. x.op = o => Promoted(o)
    BY DEF Promoted
  <2>3. CASE x.op = o
    BY <1>1, <1>2, <2>1, <2>2, <2>3
  <2>4. CASE x.op # o
    BY <1>1, <2>1, <2>4
  <2> QED BY <2>3, <2>4
<1> QED BY <1>3, <1>5, <1>6, <1>7, <1>8 DEF ExportInv

(* An operation of an export that is under way is in no other export's     *)
(* hands, and one that is not started is in nobody's.                      *)
LEMMA NobodyElse ==
  ASSUME ExportInv, NEW f \in flight, NEW h \in flight \ {f}, h.pc \in Active,
         \/ f.pc \in Active
         \/ store[f.op].state # "export_started"
  PROVE  h.op # f.op
<1>1. FlightOk(h)
  BY DEF ExportInv, FlightsInv
<1> QED BY <1>1 DEF ExportInv, ActiveAreUnique, FlightOk

SetsState(o, s) == store' = [store EXCEPT ![o].state = s]

SetsRecord(o, r) == store' = [store EXCEPT ![o] = r]

(* What moves the state of a record alone. *)
LEMMA StateMoves ==
  ASSUME ExportInv, NEW f \in flight, NEW s \in Export!States, Current(f.op),
         SetsState(f.op, s)
  PROVE  \E r \in StoreRecords :
           /\ SetsRecord(f.op, r)
           /\ r.state = s /\ r.pack = store[f.op].pack
           /\ r.dest = store[f.op].dest /\ r.born = store[f.op].born
           /\ r.born = crashes /\ r.pack \in consented
<1>1. /\ f.op \in Ops /\ store[f.op] # None /\ store[f.op] \in StoreRecords
      /\ store[f.op].born = crashes
  BY DEF Current, ExportInv, ExportTyped
<1> PICK r : r = [store[f.op] EXCEPT !.state = s]
  OBVIOUS
<1>2. /\ r \in StoreRecords /\ r.state = s /\ r.pack = store[f.op].pack
      /\ r.dest = store[f.op].dest /\ r.born = store[f.op].born
  BY <1>1 DEF StoreRecords
<1>3. store[f.op].pack \in consented
  BY <1>1 DEF ExportInv, StoreInv
<1>4. SetsRecord(f.op, r)
  BY DEF SetsState, SetsRecord
<1> QED BY <1>1, <1>2, <1>3, <1>4

LEMMA RecordsKeep ==
  ASSUME ExportInv, NEW f \in flight,
         \/ Export!ApprovalRecorded(f)
         \/ \E verdict \in {"decided_allow", "decided_deny", "decided_error"} :
              Export!DecisionRecorded(f, verdict)
         \/ Export!NativeBegins(f)
         \/ Export!CompletionRecorded(f) \/ Export!InterruptionRecorded(f)
  PROVE  ExportInv'
<1>1. UNCHANGED <<project, awaiting, digesting, sources, bundle, crashes,
                  consented, made>>
  BY DEF Export!ApprovalRecorded, Export!DecisionRecorded, Export!NativeBegins,
         Export!CompletionRecorded, Export!InterruptionRecorded, Export!Records,
         Export!world
<1>2. FlightOk(f) /\ f \in FlightRecords
  BY DEF ExportInv, FlightsInv, FlightOk
<1>3. Current(f.op) /\ f.op \in Ops
  BY <1>2
  DEF FlightOk, Current, Active, Export!ApprovalRecorded, Export!DecisionRecorded,
      Export!NativeBegins, Export!CompletionRecorded, Export!InterruptionRecorded
<1>4. ASSUME UNCHANGED screen PROVE ScreenInv'
  <2>1. \A o : Current(o) => Current(o)'
    <3>1. \A o \in Ops : store[o] # None =>
            store'[o] # None /\ store'[o].born = store[o].born
      <4>1. PICK s \in Export!States : SetsState(f.op, s)
        BY DEF SetsState, Export!ApprovalRecorded, Export!DecisionRecorded,
               Export!NativeBegins, Export!CompletionRecorded,
               Export!InterruptionRecorded, Export!Records, Export!States,
               Export!PreStart
      <4>2. PICK r \in StoreRecords :
              /\ SetsRecord(f.op, r)
              /\ r.born = store[f.op].born
        BY ONLY ExportInv, f \in flight, <1>3, <4>1, StateMoves
      <4>3. r # None
        BY NoneIsNoRecord DEF StoreRecords
      <4> QED BY <4>2, <4>3 DEF ExportInv, ExportTyped, SetsRecord
    <3> QED BY <1>1, <3>1 DEF Current
  <2> QED BY <1>1, <1>4, <2>1 DEF ExportInv, ScreenInv
<1>5. Promoted(f.op) =>
        store[f.op].state \in {"export_started", "export_completed"}
  BY DEF ExportInv, BundlesInv, Promoted
<1>6. \A o : Promoted(o)' <=> Promoted(o)
  BY <1>1 DEF Promoted
<1>7. ASSUME NEW kind \in {"approve", "evaluate"}, f.kind = kind, f.pc = "write",
             NEW s \in {"confirmed", "decided_allow", "decided_deny", "decided_error"},
             store[f.op].state \in {"proposed", "confirmed"},
             Export!Records(f, f.op, s)
      PROVE  ExportInv'
  <2>1. /\ store' = [store EXCEPT ![f.op].state = s]
        /\ Export!Goes(f, "land") /\ UNCHANGED screen
    BY <1>7 DEF Export!Records
  <2>2. PICK r \in StoreRecords :
          /\ SetsRecord(f.op, r)
          /\ r.state = s /\ r.pack = store[f.op].pack
          /\ r.dest = store[f.op].dest /\ r.born = store[f.op].born
          /\ r.born = crashes /\ r.pack \in consented
    <3>1. s \in Export!States
      BY DEF Export!States, Export!PreStart
    <3>2. SetsState(f.op, s)
      BY <2>1 DEF SetsState
    <3> QED BY ONLY ExportInv, f \in flight, <1>3, <3>1, <3>2, StateMoves
  <2>3. PICK g \in FlightRecords :
          Follows(f, g) /\ g.op = f.op /\ g.pc = "land" /\ g.read = f.read
    BY <1>2, <2>1, GoesParts
  <2>4. Current(g.op)'
    <3>1. store'[f.op] = r
      BY <1>3, <2>2 DEF ExportInv, ExportTyped, SetsRecord
    <3>2. r # None
      BY NoneIsNoRecord DEF StoreRecords
    <3> QED BY <1>1, <1>3, <2>2, <2>3, <3>1, <3>2 DEF Current
  <2>5. FlightOk(g)'
    BY <1>1, <1>2, <1>7, <2>3, <2>4 DEF FlightOk, Follows, Active
  <2>6. ScreenInv'
    BY <1>4, <2>1
  <2>7. PanelInv'
    BY <1>1, <1>7, <2>1, <2>3, PanelFollows
  <2>8. ~Promoted(f.op) /\ r.state # "export_completed"
    BY <1>5, <1>7, <2>2
  <2>9. \A h \in flight \ {f} : h.pc \in Active => h.op # f.op
    BY <1>7, NobodyElse
  <2> QED BY <1>1, <1>3, <2>2, <2>3, <2>5, <2>6, <2>7, <2>8, <2>9, RecordMoves DEF SetsRecord
<1>8. CASE Export!ApprovalRecorded(f)
  BY <1>7, <1>8 DEF Export!ApprovalRecorded
<1>9. ASSUME NEW verdict \in {"decided_allow", "decided_deny", "decided_error"},
             Export!DecisionRecorded(f, verdict)
      PROVE  ExportInv'
  BY <1>7, <1>9 DEF Export!DecisionRecorded
<1>10. CASE Export!NativeBegins(f)
  <2>1. /\ store' = [store EXCEPT ![f.op].state = "export_started"]
        /\ flight' = (flight \ {f}) \cup
                       {[f EXCEPT !.pc = "promote", !.read = sources]}
        /\ UNCHANGED screen
        /\ f.kind = "export" /\ f.pc = "begin"
        /\ store[f.op].state = "decided_allow"
        /\ store[f.op].pack = f.pack /\ store[f.op].dest = f.dest
        /\ f.pack.content = sources
    BY <1>10 DEF Export!NativeBegins, Export!MayBegin
  <2>2. PICK r \in StoreRecords :
          /\ SetsRecord(f.op, r)
          /\ r.state = "export_started" /\ r.pack = store[f.op].pack
          /\ r.dest = store[f.op].dest /\ r.born = store[f.op].born
          /\ r.born = crashes /\ r.pack \in consented
    <3>1. "export_started" \in Export!States
      BY DEF Export!States
    <3>2. SetsState(f.op, "export_started")
      BY <2>1 DEF SetsState
    <3> QED BY ONLY ExportInv, f \in flight, <1>3, <3>1, <3>2, StateMoves
  <2> PICK g : g = [f EXCEPT !.pc = "promote", !.read = sources]
    OBVIOUS
  <2>3. /\ g \in FlightRecords /\ g.pc = "promote" /\ g.read = sources
        /\ g.op = f.op /\ Follows(f, g)
    <3>1. sources \in Nat
      BY DEF ExportInv, ExportTyped
    <3> QED BY <1>2, <2>1, <3>1 DEF FlightRecords, Follows, Active
  <2>4. store'[f.op] = r
    BY <1>3, <2>2 DEF ExportInv, ExportTyped, SetsRecord
  <2>5. Current(g.op)'
    <3>1. r # None
      BY NoneIsNoRecord DEF StoreRecords
    <3> QED BY <1>1, <1>3, <2>2, <2>3, <2>4, <3>1 DEF Current
  <2>6. ~Promoted(f.op)
    BY <1>5, <2>1
  <2>7. FlightOk(g)'
    BY <1>1, <1>2, <1>6, <2>1, <2>2, <2>3, <2>4, <2>5, <2>6
    DEF FlightOk, Follows, Active
  <2>8. ScreenInv'
    BY <1>4, <2>1
  <2>9. PanelInv'
    BY <1>1, <2>1, <2>3, PanelFollows
  <2>10. \A h \in flight \ {f} : h.pc \in Active => h.op # f.op
    BY <2>1, NobodyElse
  <2> QED BY <1>1, <1>3, <2>2, <2>3, <2>6, <2>7, <2>8, <2>9, <2>10, RecordMoves DEF SetsRecord
<1>11. CASE Export!CompletionRecorded(f)
  <2>1. /\ store' = [store EXCEPT ![f.op].state = "export_completed"]
        /\ Export!Goes(f, "result") /\ UNCHANGED screen /\ f.pc = "complete"
    BY <1>11 DEF Export!CompletionRecorded
  <2>2. PICK r \in StoreRecords :
          /\ SetsRecord(f.op, r)
          /\ r.state = "export_completed" /\ r.pack = store[f.op].pack
          /\ r.dest = store[f.op].dest /\ r.born = store[f.op].born
          /\ r.born = crashes /\ r.pack \in consented
    <3>1. "export_completed" \in Export!States
      BY DEF Export!States
    <3>2. SetsState(f.op, "export_completed")
      BY <2>1 DEF SetsState
    <3> QED BY ONLY ExportInv, f \in flight, <1>3, <3>1, <3>2, StateMoves
  <2>3. PICK g \in FlightRecords :
          Follows(f, g) /\ g.op = f.op /\ g.pc = "result" /\ g.read = f.read
    BY <1>2, <2>1, GoesParts
  <2>4. Current(g.op)'
    <3>1. store'[f.op] = r
      BY <1>3, <2>2 DEF ExportInv, ExportTyped, SetsRecord
    <3>2. r # None
      BY NoneIsNoRecord DEF StoreRecords
    <3> QED BY <1>1, <1>3, <2>2, <2>3, <3>1, <3>2 DEF Current
  <2>5. Promoted(f.op) /\ f.kind = "export" /\ f.pc \in Active
    BY <1>2, <2>1 DEF FlightOk, Active
  <2>6. FlightOk(g)'
    BY <1>1, <1>2, <1>6, <2>3, <2>4, <2>5 DEF FlightOk, Follows, Active
  <2>7. ScreenInv'
    BY <1>4, <2>1
  <2>8. PanelInv'
    BY <1>1, <2>1, <2>3, PanelFollows
  <2>9. \A h \in flight \ {f} : h.pc \in Active => h.op # f.op
    BY <2>5, NobodyElse
  <2> QED BY <1>1, <1>3, <2>2, <2>3, <2>5, <2>6, <2>7, <2>8, <2>9, RecordMoves DEF SetsRecord
<1>12. CASE Export!InterruptionRecorded(f)
  <2>1. /\ store' = [store EXCEPT ![f.op].state = "export_interrupted"]
        /\ Export!Goes(f, "land") /\ screen' = [screen EXCEPT !.failed = TRUE]
        /\ f.pc = "interrupt"
    BY <1>12 DEF Export!InterruptionRecorded, Export!Caught
  <2>2. PICK r \in StoreRecords :
          /\ SetsRecord(f.op, r)
          /\ r.state = "export_interrupted" /\ r.pack = store[f.op].pack
          /\ r.dest = store[f.op].dest /\ r.born = store[f.op].born
          /\ r.born = crashes /\ r.pack \in consented
    <3>1. "export_interrupted" \in Export!States
      BY DEF Export!States
    <3>2. SetsState(f.op, "export_interrupted")
      BY <2>1 DEF SetsState
    <3> QED BY ONLY ExportInv, f \in flight, <1>3, <3>1, <3>2, StateMoves
  <2>3. PICK g \in FlightRecords :
          Follows(f, g) /\ g.op = f.op /\ g.pc = "land" /\ g.read = f.read
    BY <1>2, <2>1, GoesParts
  <2>4. store'[f.op] = r /\ r # None
        /\ \A o \in Ops \ {f.op} : store'[o] = store[o]
    <3>1. r # None
      BY NoneIsNoRecord DEF StoreRecords
    <3> QED BY <1>3, <2>2, <3>1 DEF ExportInv, ExportTyped, SetsRecord
  <2>5. \A o : Current(o) => Current(o)'
    BY <1>1, <2>2, <2>4 DEF Current
  <2>6. ~Promoted(f.op) /\ f.kind = "export" /\ f.pc \in Active
    BY <1>2, <2>1 DEF FlightOk, Active
  <2>7. FlightOk(g)'
    BY <1>1, <1>2, <1>3, <2>3, <2>5, <2>6 DEF FlightOk, Follows, Active
  <2>8. /\ screen' \in Export!Screens /\ screen'.shown = screen.shown
        /\ screen'.failed /\ screen'.confirmation = screen.confirmation
    BY <2>1 DEF ExportInv, ScreenInv, Export!Screens
  <2>9. ScreenInv'
    BY <1>1, <2>5, <2>8 DEF ExportInv, ScreenInv
  <2>10. PanelInv'
    BY <1>1, <2>3, <2>8, PanelFollows
  <2>11. \A h \in flight \ {f} : h.pc \in Active => h.op # f.op
    BY <2>6, NobodyElse
  <2> QED BY <1>1, <1>3, <2>2, <2>3, <2>6, <2>7, <2>9, <2>10, <2>11, RecordMoves DEF SetsRecord
<1> QED BY <1>8, <1>9, <1>10, <1>11, <1>12

LEMMA ProposalKeeps ==
  ASSUME ExportInv, NEW f \in flight, Export!ProposalRecorded(f)
  PROVE  ExportInv'
<1> PICK o : o = CHOOSE p \in Ops : store[p] = None
  OBVIOUS
<1> PICK r : r = [state |-> "proposed", pack |-> f.pack, dest |-> f.dest,
                  born |-> crashes]
  OBVIOUS
<1> PICK g : g = [f EXCEPT !.pc = "land", !.op = o]
  OBVIOUS
<1>1. /\ UNCHANGED <<project, awaiting, digesting, sources, bundle, crashes,
                     consented, made, screen>>
      /\ f.kind = "create" /\ f.pc = "write" /\ f.confirmation = f.pack
      /\ store' = [store EXCEPT ![o] = r]
      /\ flight' = (flight \ {f}) \cup {g}
  BY DEF Export!ProposalRecorded, Export!world
<1>2. o \in Ops /\ store[o] = None
  BY DEF Export!ProposalRecorded
<1>3. FlightOk(f)
  BY DEF ExportInv, FlightsInv
<1>4. f.pack \in Export!Packs /\ f.dest \in Dests /\ f.pack \in consented
  BY <1>1, <1>3 DEF FlightOk
<1>5. /\ r \in StoreRecords /\ r.state = "proposed" /\ r.pack \in consented
      /\ r.born = crashes
  BY <1>4 DEF ExportInv, ExportTyped, StoreRecords, Export!States, Export!PreStart
<1>6. /\ g \in FlightRecords /\ g.pc = "land" /\ g.op = o /\ Follows(f, g)
  BY <1>1, <1>2, <1>3 DEF FlightOk, FlightRecords, Follows
<1>7. /\ store'[o] = r /\ r # None
      /\ \A p \in Ops \ {o} : store'[p] = store[p]
  <2>1. r # None
    BY <1>5, NoneIsNoRecord DEF StoreRecords
  <2> QED BY <1>1, <1>2, <2>1 DEF ExportInv, ExportTyped
<1>8. /\ \A p : Current(p) => Current(p)'
      /\ Current(o)'
  BY <1>1, <1>2, <1>5, <1>7 DEF Current
<1>9. FlightOk(g)'
  <2>1. /\ g.kind = "create" /\ g.pc = "land" /\ g.op = o
        /\ g.confirmation = f.confirmation /\ g.pack = f.pack /\ g.dest = f.dest
    BY <1>1, <1>6 DEF Follows
  <2>2. f.confirmation # None /\ f.confirmation \in consented'
    BY <1>1, <1>3 DEF FlightOk
  <2> QED BY ONLY <1>4, <1>6, <1>8, <2>1, <2>2 DEF FlightOk, Active
<1>10. ScreenInv'
  BY <1>1, <1>8 DEF ExportInv, ScreenInv
<1>11. PanelInv'
  BY <1>1, <1>6, PanelFollows
<1>12. ~Promoted(o)
  BY <1>2 DEF Promoted, ExportInv, BundlesInv
<1>13. \A h \in flight \ {f} : h.pc \in Active => h.op # o
  BY <1>2 DEF ExportInv, FlightsInv, FlightOk, Current
<1>14. r.state # "export_completed" /\ o \in Ops
  BY <1>2, <1>5
<1> QED BY ONLY ExportInv, f \in flight, <1>1, <1>2, <1>5, <1>6, <1>9, <1>10,
                <1>11, <1>12, <1>13, <1>14, RecordMoves

(* The bundle is promoted: its directory is synced, or it is uncertain. *)
LEMMA PromotionsKeep ==
  ASSUME ExportInv, NEW f \in flight,
         Export!PromotedAndSynced(f) \/ Export!PromotedButUncertain(f)
  PROVE  ExportInv'
<1> PICK x : x = [op |-> f.op, dest |-> f.dest, pack |-> f.pack,
                  content |-> f.read, era |-> crashes]
  OBVIOUS
<1>1. /\ UNCHANGED <<project, awaiting, digesting, sources, store, crashes,
                     consented, made>>
      /\ f.pc = "promote" /\ bundle' = bundle \cup {x}
      /\ \/ Export!Goes(f, "complete") /\ UNCHANGED screen
         \/ Export!Goes(f, "land") /\ screen' = [screen EXCEPT !.failed = TRUE]
  BY DEF Export!PromotedAndSynced, Export!PromotedButUncertain, Export!Promotes,
         Export!Caught
<1>2. FlightOk(f) /\ f \in FlightRecords /\ f.kind = "export" /\ f.pc \in Active
      /\ Current(f.op)
  BY <1>1 DEF ExportInv, FlightsInv, FlightOk, Active
<1>3. PICK g \in FlightRecords :
        /\ Follows(f, g) /\ g.op = f.op /\ g.pc \in {"complete", "land"}
        /\ g.read = f.read
        /\ \/ g.pc = "complete" /\ UNCHANGED screen
           \/ g.pc = "land" /\ screen' = [screen EXCEPT !.failed = TRUE]
  <2>1. CASE Export!Goes(f, "complete") /\ UNCHANGED screen
    <3>1. \E g \in FlightRecords :
            Follows(f, g) /\ g.op = f.op /\ g.pc = "complete" /\ g.read = f.read
      BY <1>2, <2>1, GoesParts DEF Active
    <3> QED BY <2>1, <3>1
  <2>2. CASE Export!Goes(f, "land") /\ screen' = [screen EXCEPT !.failed = TRUE]
    <3>1. \E g \in FlightRecords :
            Follows(f, g) /\ g.op = f.op /\ g.pc = "land" /\ g.read = f.read
      BY <1>2, <2>2, GoesParts DEF Active
    <3> QED BY <2>2, <3>1
  <2> QED BY <1>1, <2>1, <2>2
<1>4. ExportTyped'
  BY <1>1 DEF ExportInv, ExportTyped
<1>5. x.op = f.op
  OBVIOUS
<1>6. /\ \A o : Current(o) <=> Current(o)'
      /\ \A o : Promoted(o)' <=> Promoted(o) \/ o = f.op
  BY <1>1, <1>5 DEF Current, Promoted
<1>7. FlightOk(g)'
  BY <1>1, <1>2, <1>3, <1>6 DEF FlightOk, Follows, Active
<1>8. FlightsInv'
  <2> SUFFICES ASSUME NEW h \in flight' PROVE FlightOk(h)'
    BY DEF FlightsInv
  <2>1. CASE h = g
    BY <1>7, <2>1
  <2>2. CASE h # g
    <3>1. h \in flight \ {f} /\ FlightOk(h)
      BY <1>3, <2>2 DEF Follows, ExportInv, FlightsInv
    <3>2. h.pc \in Active => h.op # f.op
      BY <1>2, <3>1, NobodyElse
    <3> QED BY <1>1, <1>6, <3>1, <3>2 DEF FlightOk, Active
  <2> QED BY <2>1, <2>2
<1>9. ActiveAreUnique'
  <2>1. \A h \in flight \ {f} : h.pc \in Active => h.op # f.op
    BY <1>2, NobodyElse
  <2> QED BY <1>3, <2>1 DEF ExportInv, ActiveAreUnique, Follows
<1>10. StoreInv'
  BY <1>1, <1>6 DEF ExportInv, StoreInv
<1>11. BundlesInv'
  <2>1. /\ f.op \in Ops /\ store[f.op] # None /\ store[f.op].born = crashes
        /\ store[f.op].state = "export_started"
        /\ store[f.op].pack = f.pack /\ store[f.op].dest = f.dest
        /\ f.read = f.pack.content
    BY <1>2 DEF FlightOk, Current
  <2>2. store[f.op].pack \in consented
    BY <2>1 DEF ExportInv, StoreInv
  <2>3. /\ x.op = f.op /\ x.dest = f.dest /\ x.pack = f.pack
        /\ x.content = f.read /\ x.era = crashes
    OBVIOUS
  <2> SUFFICES ASSUME NEW y \in bundle'
               PROVE  /\ y.op \in Ops /\ store[y.op] # None
                      /\ store[y.op].state \in {"export_started", "export_completed"}
                      /\ y.pack \in consented /\ y.content = y.pack.content
                      /\ store[y.op].pack = y.pack /\ store[y.op].dest = y.dest
                      /\ store[y.op].born = y.era
    BY <1>1 DEF BundlesInv
  <2>4. CASE y = x
    BY <2>1, <2>2, <2>3, <2>4
  <2>5. CASE y \in bundle
    BY <2>5 DEF ExportInv, BundlesInv
  <2> QED BY <1>1, <2>4, <2>5
<1>12. ScreenInv' /\ screen'.shown = screen.shown
       /\ \/ screen'.failed
          \/ g.pc = "complete" /\ screen' = screen
  <2>1. CASE screen' = screen
    BY <1>1, <1>3, <1>6, <2>1 DEF ExportInv, ScreenInv, Export!Screens
  <2>2. CASE screen' = [screen EXCEPT !.failed = TRUE]
    <3>1. /\ screen' \in Export!Screens /\ screen'.shown = screen.shown
          /\ screen'.failed /\ screen'.confirmation = screen.confirmation
      BY <2>2 DEF ExportInv, ScreenInv, Export!Screens
    <3> QED BY <1>1, <1>6, <3>1 DEF ExportInv, ScreenInv
  <2> QED BY <1>3, <2>1, <2>2
<1>13. PanelInv'
  <2>1. CASE screen'.failed
    BY <2>1 DEF PanelInv
  <2>2. CASE g.pc = "complete" /\ screen' = screen
    <3>1. /\ \A o : Exporting(o) => Exporting(o)'
          /\ Exporting(f.op)'
      BY <1>2, <1>3, <2>2 DEF Exporting, Follows
    <3> QED BY <1>6, <2>2, <3>1 DEF ExportInv, PanelInv
  <2> QED BY <1>12, <2>1, <2>2
<1> QED BY <1>4, <1>8, <1>9, <1>10, <1>11, <1>12, <1>13 DEF ExportInv

LEMMA RestartKeeps ==
  ASSUME ExportInv, Export!Restart
  PROVE  ExportInv'
<1>1. /\ UNCHANGED <<sources, store, bundle, consented, made>>
      /\ crashes' = crashes + 1 /\ flight' = {}
      /\ project' = Export!NewProject(1, FirstPurpose)
      /\ screen' = Export!BlankScreen /\ awaiting' = FALSE /\ digesting' = None
  BY DEF Export!Restart
<1>2. ExportTyped'
  <2>1. project' \in [gen : Nat, selected : SUBSET Files, purpose : Purposes]
    BY <1>1, PurposesStart DEF Export!NewProject
  <2>2. crashes' \in Nat
    BY <1>1 DEF ExportInv, ExportTyped
  <2> QED BY <1>1, <2>1, <2>2 DEF ExportInv, ExportTyped
<1>3. FlightsInv' /\ ActiveAreUnique'
  BY <1>1 DEF FlightsInv, ActiveAreUnique
<1>4. \A o : Promoted(o)' <=> Promoted(o)
  BY <1>1 DEF Promoted
<1>5. StoreInv'
  <2> SUFFICES ASSUME NEW o \in Ops, store[o] # None
               PROVE  /\ store[o].pack \in consented
                      /\ store[o].born <= crashes'
                      /\ store[o].state = "export_completed" => Promoted(o)'
    BY <1>1 DEF StoreInv
  <2>1. store[o].born \in Nat /\ store[o].born <= crashes /\ crashes \in Nat
    BY DEF ExportInv, ExportTyped, StoreInv, StoreRecords
  <2> QED BY <1>1, <1>4, <2>1 DEF ExportInv, StoreInv
<1>6. BundlesInv'
  BY <1>1 DEF ExportInv, BundlesInv
<1>7. ScreenInv' /\ PanelInv'
  BY <1>1 DEF ScreenInv, PanelInv, Export!BlankScreen, Export!Screens
<1> QED BY <1>2, <1>3, <1>5, <1>6, <1>7 DEF ExportInv

LEMMA ExportKeeps ==
  ASSUME ExportInv, Export!Next
  PROVE  ExportInv'
<1>1. CASE \/ Export!OpenProject \/ Export!ProjectOpened \/ Export!DigestLands
           \/ \E file \in Files : Export!ToggleFile(file)
           \/ \E purpose \in Purposes : Export!SetPurpose(purpose)
           \/ Export!ExportRefused \/ Export!SourcesChange
           \/ \E o \in Ops : Export!Expires(o)
  BY <1>1, ProjectKeeps
<1>2. CASE \/ Export!RefreshPreview \/ Export!ConfirmPreview
           \/ Export!ChooseDestination \/ Export!CreateProposal
           \/ Export!ApproveProposal \/ Export!EvaluatePolicy \/ Export!Export
  BY <1>2, DeparturesKeep
<1>3. CASE Export!Restart
  BY <1>3, RestartKeeps
<1>4. ASSUME NEW f \in flight,
             \/ Export!Returns(f)
             \/ \E d \in Dests \cup {None} : Export!DestinationLands(f, d)
      PROVE  ExportInv'
  <2>1. CASE \/ Export!PreviewLands(f) \/ Export!PreviewFails(f)
             \/ Export!ConfirmationLands(f)
             \/ \E d \in Dests \cup {None} : Export!DestinationLands(f, d)
             \/ Export!StoreRefuses(f) \/ Export!Lands(f) \/ Export!ReadBackFails(f)
    BY <2>1, ArrivalsKeep
  <2>2. CASE \/ Export!ApprovalRecorded(f)
             \/ \E verdict \in {"decided_allow", "decided_deny", "decided_error"} :
                  Export!DecisionRecorded(f, verdict)
             \/ Export!NativeBegins(f)
             \/ Export!CompletionRecorded(f) \/ Export!InterruptionRecorded(f)
    BY <2>2, RecordsKeep
  <2>3. CASE Export!ProposalRecorded(f)
    BY <2>3, ProposalKeeps
  <2>4. CASE \/ Export!NativeRefuses(f) \/ Export!ResultUnread(f)
             \/ Export!OutcomeLost(f)
    BY <2>4, CaughtKeeps
  <2>5. CASE Export!PrePromotionFailure(f)
    BY <2>5, PrePromotionFailureKeeps
  <2>6. CASE Export!PromotedAndSynced(f) \/ Export!PromotedButUncertain(f)
    BY <2>6, PromotionsKeep
  <2> QED BY <1>4, <2>1, <2>2, <2>3, <2>4, <2>5, <2>6 DEF Export!Returns
<1> QED BY <1>1, <1>2, <1>3, <1>4 DEF Export!Next

LEMMA ExportStutters ==
  ASSUME ExportInv, UNCHANGED exportVars
  PROVE  ExportInv'
<1>1. ExportTyped'
  BY DEF ExportInv, ExportTyped, exportVars
<1>2. /\ StoreInv' /\ BundlesInv'
      /\ \A f : FlightOk(f) => FlightOk(f)'
      /\ \A o : Current(o)' <=> Current(o)
  <2>1. UNCHANGED <<store, bundle, crashes>> /\ consented \subseteq consented'
    BY DEF exportVars
  <2> QED BY <2>1, RecordsStay
<1>3. FlightsInv' /\ ActiveAreUnique'
  BY <1>2 DEF ExportInv, FlightsInv, ActiveAreUnique, exportVars
<1>4. ScreenInv'
  BY DEF ExportInv, ScreenInv, Current, exportVars
<1>5. PanelInv'
  BY DEF ExportInv, PanelInv, Exporting, Promoted, exportVars
<1> QED BY <1>1, <1>2, <1>3, <1>4, <1>5 DEF ExportInv

LEMMA ExportPartInit == Init => ExportPart
BY ExportInit DEF Init, ExportPart

LEMMA ExportPartKeeps ==
  ASSUME ExportPart, [Next]_vars
  PROVE  ExportPart'
<1>1. CASE ExportStep
  BY <1>1, ExportKeeps DEF ExportStep, ExportPart
<1>2. CASE WindowStep \/ ControlStep \/ TextStep \/ SelectionStep
  BY <1>2 DEF WindowStep, ControlStep, TextStep, SelectionStep, ExportPart
<1>3. CASE UNCHANGED vars
  <2>1. part' = part /\ UNCHANGED exportVars
    BY <1>3 DEF vars
  <2> QED BY <2>1, ExportStutters DEF ExportPart
<1> QED BY <1>1, <1>2, <1>3 DEF Next

(* Whatever the user does while the hook's operations are under way, and   *)
(* wherever the desktop stops: what is on disk is a preview that the user  *)
(* confirmed, with the bytes it was made from and at the destination that  *)
(* was proposed; the record of its export is true; and the panel does not  *)
(* go on to deny it.                                                       *)
THEOREM ExportsStayHonest == Spec => []ExportsAreHonest
<1>1. ExportPart => ExportsAreHonest
  BY ExportSays DEF ExportPart, ExportsAreHonest
<1>2. ExportPart /\ [Next]_vars => ExportPart'
  BY ExportPartKeeps
<1> QED BY <1>1, <1>2, ExportPartInit, PTL DEF Spec

-----------------------------------------------------------------------------
(* CodingPackExport: it keeps the promise of SideEffect.                   *)

(* The moves of SideEffect. *)
PhaseMoves ==
  {<<"none", "requested">>, <<"requested", "authorised">>,
   <<"requested", "closed">>, <<"authorised", "closed">>,
   <<"authorised", "running">>, <<"running", "settled">>,
   <<"running", "uncertain">>}

SamePhase(o) == Export!Phase(o)' = Export!Phase(o)

OthersRest(o) == \A p \in Ops \ {o} : SamePhase(p)

OneMoves ==
  \E o \in Ops :
    <<Export!Phase(o), Export!Phase(o)'>> \in PhaseMoves /\ OthersRest(o)

AllStop ==
  \A o \in Ops :
    \/ SamePhase(o)
    \/ Export!Phase(o) \in {"requested", "authorised"} /\ Export!Phase(o)' = "closed"
    \/ Export!Phase(o) = "running" /\ Export!Phase(o)' = "uncertain"

PhaseGood == (\A o \in Ops : SamePhase(o)) \/ OneMoves \/ AllStop

LEMMA PhaseRests ==
  ASSUME NEW o \in Ops, store'[o] = store[o], crashes' = crashes,
         Export!Running(o)' <=> Export!Running(o)
  PROVE  SamePhase(o)
BY DEF SamePhase, Export!Phase

(* A step that starts and ends no export. *)
LEMMA PhasesRest ==
  ASSUME UNCHANGED <<store, crashes>>,
         \A f \in flight : f.pc \in Active => f \in flight',
         \A g \in flight' \ flight : g.pc \notin Active
  PROVE  PhaseGood
<1> SUFFICES ASSUME NEW o \in Ops PROVE SamePhase(o)
  BY DEF PhaseGood
<1>1. Export!Running(o)' <=> Export!Running(o)
  BY DEF Export!Running, Active
<1> QED BY <1>1, PhaseRests

(* A step of one operation of the hook leaves the other exports running.   *)
LEMMA OthersRun ==
  ASSUME NEW f \in flight, NEW g, Follows(f, g), NEW o \in Ops,
         f.pc \in Active => f.op = o, g.pc \in Active => g.op = o,
         crashes' = crashes, \A p \in Ops \ {o} : store'[p] = store[p]
  PROVE  OthersRest(o)
<1> SUFFICES ASSUME NEW p \in Ops \ {o} PROVE SamePhase(p)
  BY DEF OthersRest
<1>1. Export!Running(p)' <=> Export!Running(p)
  BY DEF Export!Running, Active, Follows
<1> QED BY <1>1, PhaseRests

LEMMA QuietPhases ==
  ASSUME ExportInv,
         \/ Export!OpenProject \/ Export!ProjectOpened \/ Export!DigestLands
         \/ \E file \in Files : Export!ToggleFile(file)
         \/ \E purpose \in Purposes : Export!SetPurpose(purpose)
         \/ Export!ExportRefused \/ Export!SourcesChange
         \/ \E o \in Ops : Export!Expires(o)
         \/ Export!RefreshPreview \/ Export!ConfirmPreview
         \/ Export!ChooseDestination \/ Export!CreateProposal
         \/ Export!ApproveProposal \/ Export!EvaluatePolicy \/ Export!Export
  PROVE  PhaseGood
<1>1. CASE \/ Export!OpenProject \/ Export!ProjectOpened \/ Export!DigestLands
           \/ \E file \in Files : Export!ToggleFile(file)
           \/ \E purpose \in Purposes : Export!SetPurpose(purpose)
           \/ Export!ExportRefused \/ Export!SourcesChange
           \/ \E o \in Ops : Export!Expires(o)
  <2>1. UNCHANGED <<store, crashes, flight>>
    BY <1>1
    DEF Export!OpenProject, Export!ProjectOpened, Export!DigestLands,
        Export!ToggleFile, Export!SetPurpose, Export!ExportRefused,
        Export!SourcesChange, Export!Expires, Export!world
  <2> QED BY <2>1, PhasesRest
<1>2. ASSUME NEW g, g.pc \notin Active, flight' = flight \cup {g},
             UNCHANGED <<store, crashes>>
      PROVE  PhaseGood
  BY <1>2, PhasesRest
<1>3. CASE Export!RefreshPreview
  <2> PICK g : g = [Export!Flight("preview", "read") EXCEPT !.pack = Export!Pack(0, 0)]
    OBVIOUS
  <2>1. g.pc = "read"
    BY DEF Export!Flight
  <2> QED BY <1>2, <1>3, <2>1
          DEF Export!RefreshPreview, Export!Departs, Export!world, Active
<1>4. ASSUME NEW kind \in Export!Kinds,
             NEW pc \in {"digest", "pick", "write", "begin"},
             Export!Departs(Export!Flight(kind, pc)), UNCHANGED <<store, crashes>>
      PROVE  PhaseGood
  <2> PICK g : g = Export!Flight(kind, pc)
    OBVIOUS
  <2>1. g.pc = pc
    BY DEF Export!Flight
  <2>2. g.pc \notin Active
    BY <2>1 DEF Active
  <2> QED BY <1>2, <1>4, <2>2 DEF Export!Departs
<1>5. CASE Export!ConfirmPreview
  BY <1>4, <1>5 DEF Export!ConfirmPreview, Export!Kinds, Export!world
<1>6. ASSUME NEW kind \in Export!Kinds, NEW pc \in {"pick", "write"},
             Export!Starts(kind, pc)
      PROVE  PhaseGood
  BY <1>4, <1>6 DEF Export!Starts, Export!world
<1>7. CASE \/ Export!ChooseDestination \/ Export!CreateProposal
           \/ Export!ApproveProposal \/ Export!EvaluatePolicy
  BY <1>6, <1>7
  DEF Export!ChooseDestination, Export!CreateProposal, Export!ApproveProposal,
      Export!EvaluatePolicy, Export!Kinds
<1>8. CASE Export!Export
  BY <1>4, <1>8 DEF Export!Export, Export!Kinds, Export!world
<1> QED BY <1>1, <1>3, <1>5, <1>7, <1>8

LEMMA ArrivalPhases ==
  ASSUME ExportInv, NEW f \in flight,
         \/ Export!PreviewLands(f) \/ Export!PreviewFails(f)
         \/ Export!ConfirmationLands(f)
         \/ \E d \in Dests \cup {None} : Export!DestinationLands(f, d)
         \/ Export!StoreRefuses(f) \/ Export!Lands(f) \/ Export!ReadBackFails(f)
  PROVE  PhaseGood
<1>1. UNCHANGED <<store, crashes>> /\ flight' = flight \ {f}
  BY DEF Export!PreviewLands, Export!PreviewFails, Export!ConfirmationLands,
         Export!DestinationLands, Export!StoreRefuses, Export!Lands,
         Export!ReadBackFails, Export!Arrives, Export!Ends, Export!world
<1>2. FlightOk(f)
  BY DEF ExportInv, FlightsInv
<1>3. f.kind # "export" \/ f.pc \in {"land", "result"}
  BY DEF Export!PreviewLands, Export!PreviewFails, Export!ConfirmationLands,
         Export!DestinationLands, Export!StoreRefuses, Export!Lands,
         Export!ReadBackFails
<1>4. f.pc \notin Active
  BY <1>2, <1>3 DEF FlightOk, Active
<1> QED BY <1>1, <1>4, PhasesRest

(* One operation moves, and no other. *)
LEMMA OneOperationMoves ==
  ASSUME NEW f \in flight, NEW g, Follows(f, g), NEW o \in Ops,
         f.pc \in Active => f.op = o, g.pc \in Active => g.op = o,
         crashes' = crashes, \A p \in Ops \ {o} : store'[p] = store[p],
         NEW from, NEW to, Export!Phase(o) = from, Export!Phase(o)' = to,
         from = to \/ <<from, to>> \in PhaseMoves
  PROVE  PhaseGood
<1>1. OthersRest(o)
  BY OthersRun
<1>2. CASE from = to
  <2>1. SamePhase(o)
    BY <1>2 DEF SamePhase
  <2> QED BY <1>1, <2>1 DEF PhaseGood, OthersRest
<1>3. CASE <<from, to>> \in PhaseMoves
  BY <1>1, <1>3 DEF PhaseGood, OneMoves
<1> QED BY <1>2, <1>3

(* The phase of an operation by its record. *)
LEMMA PhaseParts ==
  ASSUME NEW o, store[o] # None
  PROVE  /\ store[o].state \in {"proposed", "confirmed"} /\ store[o].born = crashes
              => Export!Phase(o) = "requested"
         /\ store[o].state = "decided_allow" /\ store[o].born = crashes
              => Export!Phase(o) = "authorised"
         /\ store[o].state \in Export!PreStart /\ store[o].born # crashes
              => Export!Phase(o) = "closed"
         /\ store[o].state \in {"decided_deny", "decided_error"}
              => Export!Phase(o) = "closed"
         /\ store[o].state = "export_started" =>
              /\ Export!Running(o) => Export!Phase(o) = "running"
              /\ ~Export!Running(o) => Export!Phase(o) = "uncertain"
         /\ store[o].state \in {"export_completed", "export_interrupted"}
              => Export!Phase(o) = "settled"
BY DEF Export!Phase, Export!PreStart

LEMMA NextPhaseParts ==
  ASSUME NEW o, store'[o] # None
  PROVE  /\ store'[o].state \in {"proposed", "confirmed"} /\ store'[o].born = crashes'
              => Export!Phase(o)' = "requested"
         /\ store'[o].state = "decided_allow" /\ store'[o].born = crashes'
              => Export!Phase(o)' = "authorised"
         /\ store'[o].state \in Export!PreStart /\ store'[o].born # crashes'
              => Export!Phase(o)' = "closed"
         /\ store'[o].state \in {"decided_deny", "decided_error"}
              => Export!Phase(o)' = "closed"
         /\ store'[o].state = "export_started" =>
              /\ Export!Running(o)' => Export!Phase(o)' = "running"
              /\ ~Export!Running(o)' => Export!Phase(o)' = "uncertain"
         /\ store'[o].state \in {"export_completed", "export_interrupted"}
              => Export!Phase(o)' = "settled"
BY DEF Export!Phase, Export!PreStart

(* The record does not move. *)
LEMMA CaughtPhases ==
  ASSUME ExportInv, NEW f \in flight,
         Export!NativeRefuses(f) \/ Export!ResultUnread(f)
  PROVE  PhaseGood
<1>1. /\ UNCHANGED <<store, crashes>> /\ f.pc \in {"begin", "result"}
      /\ Export!Goes(f, "land")
  BY DEF Export!NativeRefuses, Export!ResultUnread, Export!Caught, Export!world
<1>2. f \in FlightRecords
  BY DEF ExportInv, FlightsInv, FlightOk
<1>3. PICK g \in FlightRecords :
        Follows(f, g) /\ g.op = f.op /\ g.pc = "land" /\ g.read = f.read
  BY <1>1, <1>2, GoesParts
<1> QED BY <1>1, <1>3, PhasesRest DEF Follows, Active

LEMMA ExportingPhases ==
  ASSUME ExportInv, NEW f \in flight,
         \/ Export!OutcomeLost(f) \/ Export!PrePromotionFailure(f)
         \/ Export!PromotedAndSynced(f) \/ Export!PromotedButUncertain(f)
  PROVE  PhaseGood
<1>1. UNCHANGED <<store, crashes>> /\ f.pc \in Active
  BY DEF Export!OutcomeLost, Export!PrePromotionFailure,
         Export!PromotedAndSynced, Export!PromotedButUncertain, Active
<1>2. /\ f \in FlightRecords /\ Current(f.op) /\ f.op \in Ops
      /\ store[f.op].state = "export_started" /\ store[f.op] # None
  BY <1>1 DEF ExportInv, FlightsInv, FlightOk, Active, Current
<1>3. PICK pc \in {"complete", "interrupt", "land"} : Export!Goes(f, pc)
  BY DEF Export!OutcomeLost, Export!PrePromotionFailure,
         Export!PromotedAndSynced, Export!PromotedButUncertain, Export!Caught
<1>4. PICK g \in FlightRecords :
        Follows(f, g) /\ g.op = f.op /\ g.pc = pc /\ g.read = f.read
  <2>1. pc \in Active \cup {"land", "result"}
    BY DEF Active
  <2> QED BY <1>2, <1>3, <2>1, GoesParts
<1> PICK o : o = f.op
  OBVIOUS
<1>5. Export!Running(o) /\ (g.pc \in Active => Export!Running(o)')
      /\ (g.pc \notin Active => ~Export!Running(o)')
  <2>1. \A h \in flight \ {f} : h.pc \in Active => h.op # o
    BY <1>1, NobodyElse
  <2>2. Export!Running(o)
    BY <1>1 DEF Export!Running, Active
  <2>3. g.pc \in Active => Export!Running(o)'
    BY <1>4 DEF Export!Running, Active, Follows
  <2>4. g.pc \notin Active => ~Export!Running(o)'
    BY <1>4, <2>1 DEF Export!Running, Active, Follows
  <2> QED BY <2>2, <2>3, <2>4
<1>6. /\ Export!Phase(o) = "running"
      /\ g.pc \in Active => Export!Phase(o)' = "running"
      /\ g.pc \notin Active => Export!Phase(o)' = "uncertain"
  BY <1>1, <1>2, <1>5, PhaseParts, NextPhaseParts
<1>7. PICK to : to = Export!Phase(o)'
  OBVIOUS
<1>8. to = "running" \/ <<"running", to>> \in PhaseMoves
  BY <1>6, <1>7 DEF PhaseMoves
<1> QED BY <1>1, <1>2, <1>4, <1>6, <1>7, <1>8, OneOperationMoves

LEMMA RecordPhases ==
  ASSUME ExportInv, NEW f \in flight,
         \/ Export!ApprovalRecorded(f)
         \/ \E verdict \in {"decided_allow", "decided_deny", "decided_error"} :
              Export!DecisionRecorded(f, verdict)
         \/ Export!NativeBegins(f)
         \/ Export!CompletionRecorded(f) \/ Export!InterruptionRecorded(f)
  PROVE  PhaseGood
<1>1. FlightOk(f) /\ f \in FlightRecords /\ crashes' = crashes
  BY DEF ExportInv, FlightsInv, FlightOk, Export!ApprovalRecorded,
         Export!DecisionRecorded, Export!NativeBegins,
         Export!CompletionRecorded, Export!InterruptionRecorded, Export!Records,
         Export!world
<1>2. Current(f.op) /\ f.op \in Ops
  BY <1>1
  DEF FlightOk, Current, Active, Export!ApprovalRecorded, Export!DecisionRecorded,
      Export!NativeBegins, Export!CompletionRecorded, Export!InterruptionRecorded
<1> PICK o : o = f.op
  OBVIOUS
<1>3. o \in Ops /\ store[o] # None /\ store[o].born = crashes
  BY <1>2 DEF Current
<1>4. ASSUME NEW s \in Export!States, SetsState(o, s)
      PROVE  /\ store'[o] # None /\ store'[o].state = s
             /\ store'[o].born = crashes'
             /\ \A p \in Ops \ {o} : store'[p] = store[p]
  <2>1. PICK r \in StoreRecords : SetsRecord(o, r) /\ r.state = s /\ r.born = crashes
    BY <1>2, <1>4, StateMoves
  <2>2. r # None
    BY NoneIsNoRecord DEF StoreRecords
  <2> QED BY <1>1, <1>3, <2>1, <2>2 DEF SetsRecord, ExportInv, ExportTyped
<1>5. ASSUME NEW s \in {"confirmed", "decided_allow", "decided_deny", "decided_error"},
             f.pc = "write",
             \/ store[o].state = "proposed" /\ s = "confirmed"
             \/ store[o].state = "confirmed" /\ s # "confirmed",
             Export!Records(f, o, s)
      PROVE  PhaseGood
  <2>1. s \in Export!States /\ SetsState(o, s) /\ Export!Goes(f, "land")
    BY <1>5 DEF Export!States, Export!PreStart, Export!Records, SetsState
  <2>2. PICK g \in FlightRecords :
          Follows(f, g) /\ g.op = f.op /\ g.pc = "land" /\ g.read = f.read
    BY <1>1, <2>1, GoesParts
  <2>3. /\ store'[o] # None /\ store'[o].state = s /\ store'[o].born = crashes'
        /\ \A p \in Ops \ {o} : store'[p] = store[p]
    BY <1>4, <2>1
  <2>4. Export!Phase(o) = "requested"
    BY <1>3, <1>5, PhaseParts
  <2>5. /\ s = "confirmed" => Export!Phase(o)' = "requested"
        /\ s = "decided_allow" => Export!Phase(o)' = "authorised"
        /\ s \in {"decided_deny", "decided_error"} => Export!Phase(o)' = "closed"
    BY <2>3, NextPhaseParts
  <2>6. PICK to : to = Export!Phase(o)'
    OBVIOUS
  <2>7. to = "requested" \/ <<"requested", to>> \in PhaseMoves
    BY <2>5, <2>6 DEF PhaseMoves
  <2>8. f.pc \notin Active /\ g.pc \notin Active
    BY <1>5, <2>2 DEF Active
  <2> QED BY <1>1, <1>3, <2>2, <2>3, <2>4, <2>6, <2>7, <2>8, OneOperationMoves
<1>6. CASE Export!ApprovalRecorded(f)
  BY <1>5, <1>6 DEF Export!ApprovalRecorded
<1>7. ASSUME NEW verdict \in {"decided_allow", "decided_deny", "decided_error"},
             Export!DecisionRecorded(f, verdict)
      PROVE  PhaseGood
  BY <1>5, <1>7 DEF Export!DecisionRecorded
<1>8. CASE Export!NativeBegins(f)
  <2>1. /\ SetsState(o, "export_started") /\ f.pc = "begin"
        /\ store[o].state = "decided_allow"
        /\ flight' = (flight \ {f}) \cup
                       {[f EXCEPT !.pc = "promote", !.read = sources]}
    BY <1>8 DEF Export!NativeBegins, Export!MayBegin, SetsState
  <2> PICK g : g = [f EXCEPT !.pc = "promote", !.read = sources]
    OBVIOUS
  <2>2. g.pc = "promote" /\ g.op = o /\ Follows(f, g)
    BY <1>1, <2>1 DEF FlightRecords, Follows
  <2>3. /\ store'[o] # None /\ store'[o].state = "export_started"
        /\ \A p \in Ops \ {o} : store'[p] = store[p]
    <3>1. "export_started" \in Export!States
      BY DEF Export!States
    <3> QED BY <1>4, <2>1, <3>1
  <2>4. Export!Running(o)'
    BY <2>2 DEF Export!Running, Follows
  <2>5. Export!Phase(o) = "authorised"
    BY <1>3, <2>1, PhaseParts
  <2>6. Export!Phase(o)' = "running"
    BY <2>3, <2>4, NextPhaseParts
  <2>7. <<"authorised", "running">> \in PhaseMoves
    BY DEF PhaseMoves
  <2>8. f.pc \notin Active
    BY <2>1 DEF Active
  <2> QED BY <1>1, <1>3, <2>2, <2>3, <2>5, <2>6, <2>7, <2>8, OneOperationMoves
<1>9. ASSUME NEW s \in {"export_completed", "export_interrupted"},
             NEW pc \in {"result", "land"}, f.pc \in Active,
             SetsState(o, s), Export!Goes(f, pc)
      PROVE  PhaseGood
  <2>1. PICK g \in FlightRecords :
          Follows(f, g) /\ g.op = f.op /\ g.pc = pc /\ g.read = f.read
    <3>1. pc \in Active \cup {"land", "result"}
      OBVIOUS
    <3> QED BY <1>1, <1>9, <3>1, GoesParts
  <2>2. s \in Export!States
    BY DEF Export!States
  <2>3. /\ store'[o] # None /\ store'[o].state = s
        /\ \A p \in Ops \ {o} : store'[p] = store[p]
    BY <1>4, <1>9, <2>2
  <2>4. Export!Running(o) /\ store[o].state = "export_started"
    BY <1>1, <1>9 DEF Export!Running, Active, FlightOk
  <2>5. Export!Phase(o) = "running"
    BY <1>3, <2>4, PhaseParts
  <2>6. Export!Phase(o)' = "settled"
    BY <2>3, NextPhaseParts
  <2>7. <<"running", "settled">> \in PhaseMoves
    BY DEF PhaseMoves
  <2>8. g.pc \notin Active
    BY <2>1 DEF Active
  <2> QED BY <1>1, <1>3, <2>1, <2>3, <2>5, <2>6, <2>7, <2>8, OneOperationMoves
<1>10. CASE Export!CompletionRecorded(f)
  BY <1>9, <1>10 DEF Export!CompletionRecorded, SetsState, Active
<1>11. CASE Export!InterruptionRecorded(f)
  BY <1>9, <1>11 DEF Export!InterruptionRecorded, Export!Caught, SetsState, Active
<1> QED BY <1>6, <1>7, <1>8, <1>10, <1>11

LEMMA ProposalPhases ==
  ASSUME ExportInv, NEW f \in flight, Export!ProposalRecorded(f)
  PROVE  PhaseGood
<1> PICK o : o = CHOOSE p \in Ops : store[p] = None
  OBVIOUS
<1> PICK g : g = [f EXCEPT !.pc = "land", !.op = o]
  OBVIOUS
<1>1. /\ crashes' = crashes /\ f.pc = "write" /\ f.kind = "create"
      /\ store' = [store EXCEPT ![o] = [state |-> "proposed", pack |-> f.pack,
                                        dest |-> f.dest, born |-> crashes]]
      /\ flight' = (flight \ {f}) \cup {g}
  BY DEF Export!ProposalRecorded, Export!world
<1>2. o \in Ops /\ store[o] = None
  BY DEF Export!ProposalRecorded
<1>3. f \in FlightRecords /\ f.pack \in Export!Packs /\ f.dest \in Dests
  BY <1>1 DEF ExportInv, FlightsInv, FlightOk
<1>4. g.pc = "land" /\ Follows(f, g)
  BY <1>1, <1>3 DEF FlightRecords, Follows
<1>5. /\ store'[o] \in StoreRecords /\ store'[o].state = "proposed"
      /\ store'[o].born = crashes'
      /\ \A p \in Ops \ {o} : store'[p] = store[p]
  BY <1>1, <1>2, <1>3
  DEF ExportInv, ExportTyped, StoreRecords, Export!States, Export!PreStart
<1>6. store'[o] # None
  BY <1>5, NoneIsNoRecord DEF StoreRecords
<1>7. Export!Phase(o) = "none"
  BY <1>2 DEF Export!Phase
<1>8. Export!Phase(o)' = "requested"
  BY <1>5, <1>6, NextPhaseParts
<1>9. <<"none", "requested">> \in PhaseMoves
  BY DEF PhaseMoves
<1>10. f.pc \notin Active /\ g.pc \notin Active
  BY <1>1, <1>4 DEF Active
<1> QED BY ONLY f \in flight, <1>1, <1>2, <1>4, <1>5, <1>7, <1>8, <1>9, <1>10,
                OneOperationMoves

LEMMA RestartPhases ==
  ASSUME ExportInv, Export!Restart
  PROVE  PhaseGood
<1>1. UNCHANGED store /\ crashes' = crashes + 1 /\ flight' = {}
  BY DEF Export!Restart
<1> SUFFICES ASSUME NEW o \in Ops
             PROVE  \/ SamePhase(o)
                    \/ /\ Export!Phase(o) \in {"requested", "authorised"}
                       /\ Export!Phase(o)' = "closed"
                    \/ Export!Phase(o) = "running" /\ Export!Phase(o)' = "uncertain"
  BY DEF PhaseGood, AllStop
<1>2. CASE store[o] = None
  BY <1>1, <1>2 DEF SamePhase, Export!Phase
<1>3. CASE store[o] # None
  <2>1. /\ store[o].state \in Export!States /\ store[o].born \in Nat
        /\ store[o].born <= crashes /\ crashes \in Nat
    BY <1>3 DEF ExportInv, ExportTyped, StoreInv, StoreRecords
  <2>2. store'[o] = store[o] /\ store'[o].born # crashes'
    BY <1>1, <2>1
  <2>3. ~Export!Running(o)'
    BY <1>1 DEF Export!Running
  <2>4. CASE store[o].state \in Export!PreStart
    <3>1. Export!Phase(o)' = "closed"
      BY <1>3, <2>2, <2>4, NextPhaseParts
    <3>2. Export!Phase(o) \in {"requested", "authorised", "closed"}
      BY <1>3, <2>4, PhaseParts DEF Export!PreStart
    <3> QED BY <3>1, <3>2 DEF SamePhase
  <2>5. CASE store[o].state = "export_started"
    <3>1. Export!Phase(o)' = "uncertain"
      BY <1>3, <2>2, <2>3, <2>5, NextPhaseParts
    <3>2. Export!Phase(o) \in {"running", "uncertain"}
      BY <1>3, <2>5, PhaseParts
    <3> QED BY <3>1, <3>2 DEF SamePhase
  <2>6. CASE store[o].state \in {"decided_deny", "decided_error",
                                 "export_completed", "export_interrupted"}
    BY <1>3, <2>2, <2>6, PhaseParts, NextPhaseParts DEF SamePhase
  <2> QED BY <2>1, <2>4, <2>5, <2>6 DEF Export!States
<1> QED BY <1>2, <1>3

LEMMA ExportPhases ==
  ASSUME ExportInv, Export!Next
  PROVE  PhaseGood
<1>1. CASE \/ Export!OpenProject \/ Export!ProjectOpened \/ Export!DigestLands
           \/ \E file \in Files : Export!ToggleFile(file)
           \/ \E purpose \in Purposes : Export!SetPurpose(purpose)
           \/ Export!ExportRefused \/ Export!SourcesChange
           \/ \E o \in Ops : Export!Expires(o)
           \/ Export!RefreshPreview \/ Export!ConfirmPreview
           \/ Export!ChooseDestination \/ Export!CreateProposal
           \/ Export!ApproveProposal \/ Export!EvaluatePolicy \/ Export!Export
  BY <1>1, QuietPhases
<1>2. CASE Export!Restart
  BY <1>2, RestartPhases
<1>3. ASSUME NEW f \in flight,
             \/ Export!Returns(f)
             \/ \E d \in Dests \cup {None} : Export!DestinationLands(f, d)
      PROVE  PhaseGood
  <2>1. CASE \/ Export!PreviewLands(f) \/ Export!PreviewFails(f)
             \/ Export!ConfirmationLands(f)
             \/ \E d \in Dests \cup {None} : Export!DestinationLands(f, d)
             \/ Export!StoreRefuses(f) \/ Export!Lands(f) \/ Export!ReadBackFails(f)
    BY <2>1, ArrivalPhases
  <2>2. CASE \/ Export!ApprovalRecorded(f)
             \/ \E verdict \in {"decided_allow", "decided_deny", "decided_error"} :
                  Export!DecisionRecorded(f, verdict)
             \/ Export!NativeBegins(f)
             \/ Export!CompletionRecorded(f) \/ Export!InterruptionRecorded(f)
    BY <2>2, RecordPhases
  <2>3. CASE Export!ProposalRecorded(f)
    BY <2>3, ProposalPhases
  <2>4. CASE Export!NativeRefuses(f) \/ Export!ResultUnread(f)
    BY <2>4, CaughtPhases
  <2>5. CASE \/ Export!OutcomeLost(f) \/ Export!PrePromotionFailure(f)
             \/ Export!PromotedAndSynced(f) \/ Export!PromotedButUncertain(f)
    BY <2>5, ExportingPhases
  <2> QED BY <1>3, <2>1, <2>2, <2>3, <2>4, <2>5 DEF Export!Returns
<1> QED BY <1>1, <1>2, <1>3 DEF Export!Next

LEMMA PhasesStutter ==
  ASSUME UNCHANGED exportVars
  PROVE  \A o \in Ops : SamePhase(o)
BY DEF exportVars, SamePhase, Export!Phase, Export!Running

(* An export is a side effect like any other, across restarts: authorised  *)
(* before it runs, run at most once, never after it was closed, and        *)
(* settled or uncertain, never run again.                                  *)
THEOREM ExportKeepsPromise == Spec => KeepsPromise
<1> DEFINE eff == [o \in Ops |-> IF part = "export" THEN Export!Phase(o) ELSE "none"]
<1>1. Init => Promise!Init
  <2> SUFFICES ASSUME Init, NEW o \in Ops, part = "export"
               PROVE  Export!Phase(o) = "none"
    BY DEF Promise!Init
  <2>1. store = [p \in Ops |-> None]
    BY DEF Init, Export!Init
  <2> QED BY <2>1 DEF Export!Phase
<1>2. ExportPart /\ [Next]_vars => [Promise!Next]_eff
  <2> SUFFICES ASSUME ExportPart, [Next]_vars PROVE Promise!Next \/ eff' = eff
    OBVIOUS
  <2>1. part' = part
    BY DEF Next, WindowStep, ExportStep, ControlStep, TextStep, SelectionStep, vars
  <2>2. CASE part # "export"
    BY <2>1, <2>2
  <2>3. CASE part = "export" /\ ~(ExportStep)
    <3>1. UNCHANGED exportVars
      BY <2>3 DEF Next, WindowStep, ControlStep, TextStep, SelectionStep, vars
    <3>2. \A o \in Ops : SamePhase(o)
      BY <3>1, PhasesStutter
    <3> QED BY <2>1, <2>3, <3>2 DEF SamePhase
  <2>4. CASE ExportStep
    <3>1. /\ part = "export" /\ part' = "export" /\ PhaseGood
      BY <2>4, ExportPhases DEF ExportStep, ExportPart
    <3>2. PICK old, new : /\ old = [o \in Ops |-> Export!Phase(o)]
                          /\ new = [o \in Ops |-> Export!Phase(o)']
      OBVIOUS
    <3>3. eff = old /\ eff' = new
      BY <3>1, <3>2
    <3> HIDE DEF eff
    <3>4. CASE \A o \in Ops : SamePhase(o)
      BY <3>2, <3>3, <3>4 DEF SamePhase
    <3>5. CASE OneMoves
      <4>1. PICK o \in Ops :
              /\ <<Export!Phase(o), Export!Phase(o)'>> \in PhaseMoves
              /\ OthersRest(o)
        BY <3>5 DEF OneMoves
      <4>2. PICK to : to = Export!Phase(o)'
        OBVIOUS
      <4>3. new = [old EXCEPT ![o] = to]
        BY <3>2, <4>1, <4>2 DEF OthersRest, SamePhase
      <4>4. old[o] = Export!Phase(o)
        BY <3>2
      <4>5. \/ old[o] = "none" /\ to = "requested"
            \/ old[o] = "requested" /\ to = "authorised"
            \/ old[o] \in {"requested", "authorised"} /\ to = "closed"
            \/ old[o] = "authorised" /\ to = "running"
            \/ old[o] = "running" /\ to = "settled"
            \/ old[o] = "running" /\ to = "uncertain"
        BY <4>1, <4>2, <4>4 DEF PhaseMoves
      <4>6. eff' = [eff EXCEPT ![o] = to] /\ eff[o] = old[o]
        BY <3>3, <4>3
      <4> QED
        BY <4>5, <4>6
        DEF eff, Promise!Next, Promise!Request, Promise!Authorise,
            Promise!Close, Promise!Run, Promise!Settle, Promise!Lose,
            Promise!Moves
    <3>6. CASE AllStop
      <4>1. PICK hit : hit = {o \in Ops : new[o] # old[o]}
        OBVIOUS
      <4>2. \A o \in Ops :
              \/ new[o] = old[o]
              \/ old[o] \in {"requested", "authorised"} /\ new[o] = "closed"
              \/ old[o] = "running" /\ new[o] = "uncertain"
        BY <3>2, <3>6 DEF AllStop, SamePhase
      <4>3. new = [o \in Ops |->
                     IF o \in hit /\ old[o] \in {"requested", "authorised"}
                       THEN "closed"
                     ELSE IF o \in hit /\ old[o] = "running" THEN "uncertain"
                     ELSE old[o]]
        BY <3>2, <4>1, <4>2
      <4>4. Promise!Interrupt(hit)
        BY <3>3, <4>3 DEF eff, Promise!Interrupt
      <4> QED
        BY <4>1, <4>4 DEF Promise!Next
    <3> QED BY <3>1, <3>4, <3>5, <3>6 DEF PhaseGood
  <2> QED BY <2>2, <2>3, <2>4
<1>3. ExportPart /\ [Next]_vars => ExportPart'
  BY ExportPartKeeps
<1> QED
  BY <1>1, <1>2, <1>3, ExportPartInit, PTL DEF Spec, KeepsPromise, Promise!Spec

-----------------------------------------------------------------------------
(* DesktopRuntime: the inductive invariant.                                *)

Places == {"unsent", "context", "session", "recording", "running", "flushing",
           "single", "streaming", "returned"}

WindowTyped ==
  /\ sending \in [Tasks -> [at : Places, provider : Providers \cup {None},
                            runtime : Providers \cup {None}]]
  /\ loop \in [Tasks -> [status : Window!Statuses, stopped : BOOLEAN]]
  /\ refs \in [project : BOOLEAN, loop : Tasks \cup {None},
               recorder : Tasks \cup {None}, subscribed : Tasks \cup {None}]
  /\ ui \in Window!Views
  /\ ui.proposal = None <=> ui.origin = None
  /\ ui.task = None => ui.status = "none"
  /\ config \in Providers /\ built \in Providers
  /\ opening \in [picked : Nat, pending : Nat]
  /\ opening.pending <= opening.picked
  /\ ledger \in [Tasks -> SUBSET ({"proposed", "started"} \X Tasks)]

(* A task whose loop applies its patch, or has applied it, has recorded    *)
(* the proposal and the start in its own session.                          *)
EvidenceInv ==
  \A t \in Tasks :
    loop[t].status = "ApplyingPatch" \/ <<t, "loop">> \in disk =>
      {<<"proposed", t>>, <<"started", t>>} \subseteq ledger[t]

(* A prompt whose sendPrompt has yet to choose its path has no loop, ...   *)
BeforeLoopInv ==
  \A t \in Tasks :
    sending[t].at \notin {"running", "flushing", "returned"} =>
      loop[t].status = "none"

(* ... and one that returned without a loop never gets one: the proposals  *)
(* of the single turn, shown or applied, are of such prompts.              *)
NeverLoops(t) == sending[t].at = "returned" /\ loop[t].status = "none"

SingleTurnInv ==
  /\ ui.origin = "single_turn" => NeverLoops(ui.proposal)
  /\ \A t \in Tasks : <<t, "hook">> \in disk => NeverLoops(t)

WindowInv == WindowTyped /\ EvidenceInv /\ BeforeLoopInv /\ SingleTurnInv

WindowPart == part = "window" => WindowInv
LEMMA WindowInit == Window!Init => WindowInv
<1> SUFFICES ASSUME Window!Init PROVE WindowInv
  OBVIOUS
<1>1. WindowTyped
  <2>1. sending \in [Tasks -> [at : Places, provider : Providers \cup {None},
                               runtime : Providers \cup {None}]]
    BY DEF Window!Init, Places
  <2>2. loop \in [Tasks -> [status : Window!Statuses, stopped : BOOLEAN]]
    BY DEF Window!Init, Window!Statuses
  <2>3. /\ ui \in Window!Views
        /\ ui.proposal = None /\ ui.origin = None /\ ui.status = "none"
    BY DEF Window!Init, Window!BlankUi, Window!Views, Window!Statuses
  <2>4. /\ refs \in [project : BOOLEAN, loop : Tasks \cup {None},
               recorder : Tasks \cup {None}, subscribed : Tasks \cup {None}]
        /\ opening \in [picked : Nat, pending : Nat]
        /\ opening.pending <= opening.picked
    BY DEF Window!Init, Window!NoRefs
  <2>5. /\ config \in Providers /\ built \in Providers
        /\ ledger \in [Tasks -> SUBSET ({"proposed", "started"} \X Tasks)]
    BY StartsConfigured DEF Window!Init
  <2> QED BY <2>1, <2>2, <2>3, <2>4, <2>5 DEF WindowTyped
<1>2. EvidenceInv
  BY DEF Window!Init, EvidenceInv
<1>3. BeforeLoopInv
  BY DEF Window!Init, BeforeLoopInv
<1>4. SingleTurnInv
  BY NoneIsNoTask DEF Window!Init, Window!BlankUi, SingleTurnInv
<1> QED BY <1>1, <1>2, <1>3, <1>4 DEF WindowInv

LEMMA WindowSays ==
  WindowInv => Window!TypeOK /\ Window!PatchesAreAccounted
<1> SUFFICES ASSUME WindowInv
             PROVE  Window!TypeOK /\ Window!PatchesAreAccounted
  OBVIOUS
<1>1. ASSUME NEW t \in Tasks
      PROVE  /\ sending[t].at \in Places
             /\ loop[t].status \in Window!Statuses
             /\ ledger[t] \subseteq ({"proposed", "started"} \X Tasks)
  BY DEF WindowInv, WindowTyped
<1>2. refs.project \in BOOLEAN
  BY DEF WindowInv, WindowTyped
<1>3. {refs.loop, refs.recorder, refs.subscribed} \subseteq Tasks \cup {None}
  BY DEF WindowInv, WindowTyped
<1>4. ui \in Window!Views /\ (ui.proposal = None <=> ui.origin = None)
  BY DEF WindowInv, WindowTyped
<1>5. opening.pending \in 0 .. opening.picked
  BY DEF WindowInv, WindowTyped
<1>6. Window!PatchesAreAccounted
  BY DEF WindowInv, EvidenceInv, SingleTurnInv, NeverLoops,
         Window!PatchesAreAccounted
<1> QED BY <1>1, <1>2, <1>3, <1>4, <1>5, <1>6 DEF Window!TypeOK, Places

(* What a step must not do to keep the invariant, given the types.         *)
BothRecorded(t) == {<<"proposed", t>>, <<"started", t>>} \subseteq ledger[t]

LEMMA WindowMoves ==
  ASSUME WindowInv, WindowTyped',
         \A t \in Tasks : ledger[t] \subseteq ledger'[t],
         \A t \in Tasks : loop'[t].status = "ApplyingPatch" =>
           loop[t].status = "ApplyingPatch" \/ BothRecorded(t)',
         \A t \in Tasks : <<t, "loop">> \in disk' =>
           loop[t].status = "ApplyingPatch" \/ <<t, "loop">> \in disk,
         \A t \in Tasks :
           sending'[t].at \notin {"running", "flushing", "returned"} =>
             loop'[t].status = "none",
         \A t \in Tasks : NeverLoops(t) => NeverLoops(t)',
         ui'.origin = "single_turn" =>
           \/ ui.origin = "single_turn" /\ ui'.proposal = ui.proposal
           \/ ui'.proposal \in Tasks
              /\ sending'[ui'.proposal].at = "returned"
              /\ loop'[ui'.proposal].status = "none",
         \A t \in Tasks : <<t, "hook">> \in disk' =>
           NeverLoops(t) \/ <<t, "hook">> \in disk
  PROVE  WindowInv'
<1>1. EvidenceInv'
  BY DEF WindowInv, EvidenceInv, BothRecorded
<1>2. BeforeLoopInv'
  BY DEF BeforeLoopInv
<1>3. ASSUME ui'.origin = "single_turn" PROVE NeverLoops(ui.proposal)'
  <2>1. CASE ui.origin = "single_turn" /\ ui'.proposal = ui.proposal
    <3>1. ui.proposal \in Tasks
      BY <2>1, NoneIsNoTask DEF WindowInv, WindowTyped, Window!Views
    <3>2. NeverLoops(ui.proposal)
      BY <2>1 DEF WindowInv, SingleTurnInv
    <3> QED BY <2>1, <3>1, <3>2 DEF NeverLoops
  <2>2. CASE /\ sending'[ui'.proposal].at = "returned"
             /\ loop'[ui'.proposal].status = "none"
    BY <2>2 DEF NeverLoops
  <2> QED BY <1>3, <2>1, <2>2
<1>4. SingleTurnInv'
  BY <1>3 DEF WindowInv, SingleTurnInv
<1> QED BY <1>1, <1>2, <1>4 DEF WindowInv

LEMMA SyncedParts ==
  ASSUME WindowTyped, NEW t \in Tasks, NEW status \in Window!Statuses,
         ui' = Window!Synced(t, status)
  PROVE  /\ ui' \in Window!Views
         /\ ui'.proposal = None <=> ui'.origin = None
         /\ ui'.task = t
         /\ ui'.origin = "single_turn" =>
              ui.origin = "single_turn" /\ ui'.proposal = ui.proposal
<1>1. PICK shown :
        /\ shown = [ui EXCEPT !.task = t, !.status = status,
                      !.running = status \notin Window!Terminal,
                      !.current = IF <<t, "loop">> \in disk THEN t ELSE None]
        /\ ui' = IF status = "WaitingForPatchApproval"
                 THEN [shown EXCEPT !.proposal = t, !.origin = "agent"]
                 ELSE IF ui.origin = "agent" /\ ui.proposal = t
                 THEN [shown EXCEPT !.proposal = None, !.origin = None]
                 ELSE shown
  BY DEF Window!Synced
<1>2. ui \in Window!Views /\ (ui.proposal = None <=> ui.origin = None)
  BY DEF WindowTyped
<1>3. /\ shown \in Window!Views /\ shown.task = t
      /\ shown.proposal = ui.proposal /\ shown.origin = ui.origin
  BY <1>1, <1>2 DEF Window!Views
<1>4. CASE status = "WaitingForPatchApproval"
  <2>1. ui' = [shown EXCEPT !.proposal = t, !.origin = "agent"]
    BY <1>1, <1>4
  <2>2. /\ ui' \in Window!Views /\ ui'.task = t
        /\ ui'.proposal = t /\ ui'.origin = "agent"
    BY ONLY <1>3, <2>1, t \in Tasks DEF Window!Views
  <2> QED BY <2>2, NoneIsNoTask
<1>5. CASE /\ status # "WaitingForPatchApproval"
           /\ ui.origin = "agent" /\ ui.proposal = t
  <2>1. ui' = [shown EXCEPT !.proposal = None, !.origin = None]
    BY <1>1, <1>5
  <2>2. /\ ui' \in Window!Views /\ ui'.task = t
        /\ ui'.proposal = None /\ ui'.origin = None
    BY ONLY <1>3, <2>1 DEF Window!Views
  <2> QED BY <2>2, NoneIsNoTask
<1>6. CASE /\ status # "WaitingForPatchApproval"
           /\ ~(ui.origin = "agent" /\ ui.proposal = t)
  BY <1>1, <1>2, <1>3, <1>6
<1> QED BY <1>4, <1>5, <1>6

LEMMA MovedParts ==
  ASSUME WindowTyped, NEW t \in Tasks, NEW place \in Places,
         sending' = Window!Moved(t, place)
  PROVE  /\ sending' \in [Tasks ->
              [at : Places, provider : Providers \cup {None},
               runtime : Providers \cup {None}]]
         /\ sending'[t].at = place
         /\ \A s \in Tasks \ {t} : sending'[s] = sending[s]
<1>1. sending' = [sending EXCEPT ![t].at = place]
  BY DEF Window!Moved
<1>2. sending \in [Tasks -> [at : Places, provider : Providers \cup {None},
                             runtime : Providers \cup {None}]]
  BY DEF WindowTyped
<1>3. [sending[t] EXCEPT !.at = place]
        \in [at : Places, provider : Providers \cup {None},
            runtime : Providers \cup {None}]
  BY <1>2
<1>4. sending' = [sending EXCEPT ![t] = [sending[t] EXCEPT !.at = place]]
  BY <1>1
<1>5. sending'[t] = [sending[t] EXCEPT !.at = place]
  BY ONLY <1>2, <1>4, t \in Tasks
<1> QED BY ONLY <1>2, <1>3, <1>4, <1>5, t \in Tasks

LEMMA LoopParts ==
  ASSUME WindowTyped, NEW t \in Tasks, NEW status \in Window!Statuses,
         loop' = [loop EXCEPT ![t].status = status]
  PROVE  /\ loop' \in [Tasks ->
              [status : Window!Statuses, stopped : BOOLEAN]]
         /\ loop'[t].status = status
         /\ \A s \in Tasks \ {t} : loop'[s] = loop[s]
BY DEF WindowTyped

LEMMA SyncParts ==
  ASSUME WindowTyped, NEW t \in Tasks, NEW status \in Window!Statuses,
         Window!Sync(t, status)
  PROVE  /\ ui' = Window!Synced(t, status)
         /\ ledger' \in [Tasks -> SUBSET ({"proposed", "started"} \X Tasks)]
         /\ \A s \in Tasks : ledger[s] \subseteq ledger'[s]
<1>1. ui' = Window!Synced(t, status)
  BY DEF Window!Sync
<1>2. CASE ledger' = ledger
  BY <1>1, <1>2 DEF WindowTyped
<1>3. CASE ledger' # ledger
  <2>1. PICK r : /\ r = refs.recorder /\ r # None
                 /\ ledger' = [ledger EXCEPT ![r] =
                                 @ \cup {<<"proposed", t>>}]
    BY <1>3 DEF Window!Sync, Window!Recorded
  <2>2. r \in Tasks
    BY <2>1 DEF WindowTyped
  <2> QED BY <1>1, <2>1, <2>2 DEF WindowTyped
<1> QED BY <1>2, <1>3

LEMMA StopsParts ==
  ASSUME WindowTyped, NEW t \in Tasks, NEW status \in Window!Statuses,
         status # "none", Window!Stops(t, status)
  PROVE  /\ loop' = [loop EXCEPT ![t].status = status]
         /\ \/ UNCHANGED sending
            \/ sending[t].at = "running"
               /\ sending' = Window!Moved(t, "flushing")
         /\ ledger' \in [Tasks -> SUBSET ({"proposed", "started"} \X Tasks)]
         /\ \A s \in Tasks : ledger[s] \subseteq ledger'[s]
         /\ UNCHANGED ui \/ ui' = Window!Synced(t, status)
<1>1. CASE Window!Sync(t, status)
  BY <1>1, SyncParts DEF Window!Stops, Window!At
<1>2. CASE ~Window!Sync(t, status)
  BY <1>2 DEF Window!Stops, WindowTyped
<1> QED BY <1>1, <1>2

(* The loop of task t stops, or only changes its status.                   *)
LEMMA LoopMovesKeep ==
  ASSUME WindowInv, NEW t \in Tasks, loop[t].status # "none",
         NEW status \in Window!Statuses, status # "none",
         status = "ApplyingPatch" => BothRecorded(t)',
         loop' = [loop EXCEPT ![t].status = status],
         \/ UNCHANGED sending
         \/ sending[t].at = "running" /\ sending' = Window!Moved(t, "flushing"),
         ledger' \in [Tasks -> SUBSET ({"proposed", "started"} \X Tasks)],
         \A s \in Tasks : ledger[s] \subseteq ledger'[s],
         UNCHANGED ui \/ ui' = Window!Synced(t, status),
         \/ UNCHANGED disk
         \/ loop[t].status = "ApplyingPatch" /\ disk' = disk \cup {<<t, "loop">>},
         UNCHANGED <<refs, config, built, opening>>
  PROVE  WindowInv'
<1>1. WindowTyped
  BY DEF WindowInv
<1>2. /\ loop' \in [Tasks -> [status : Window!Statuses, stopped : BOOLEAN]]
      /\ loop'[t].status = status
      /\ \A s \in Tasks \ {t} : loop'[s] = loop[s]
  BY <1>1, LoopParts
<1>3. /\ sending' \in [Tasks ->
              [at : Places, provider : Providers \cup {None},
               runtime : Providers \cup {None}]]
      /\ \A s \in Tasks \ {t} : sending'[s] = sending[s]
      /\ sending'[t] = sending[t] \/ sending'[t].at = "flushing"
  <2>1. CASE UNCHANGED sending
    BY <1>1, <2>1 DEF WindowTyped
  <2>2. CASE sending' = Window!Moved(t, "flushing")
    <3>1. "flushing" \in Places
      BY DEF Places
    <3> QED BY <1>1, <2>2, <3>1, MovedParts
  <2> QED BY <2>1, <2>2
<1>4. /\ ui' \in Window!Views
      /\ ui'.proposal = None <=> ui'.origin = None
      /\ ui'.task = None => ui'.status = "none"
      /\ ui'.origin = "single_turn" =>
           ui.origin = "single_turn" /\ ui'.proposal = ui.proposal
  <2>1. CASE UNCHANGED ui
    BY <1>1, <2>1 DEF WindowTyped
  <2>2. CASE ui' = Window!Synced(t, status)
    <3>1. t # None
      BY NoneIsNoTask
    <3> QED BY <1>1, <2>2, <3>1, SyncedParts
  <2> QED BY <2>1, <2>2
<1>5. WindowTyped'
  BY <1>1, <1>2, <1>3, <1>4 DEF WindowTyped
<1>6. \A s \in Tasks : loop'[s].status = "ApplyingPatch" =>
        loop[s].status = "ApplyingPatch" \/ BothRecorded(s)'
  BY <1>2
<1>7. \A s \in Tasks : <<s, "loop">> \in disk' =>
        loop[s].status = "ApplyingPatch" \/ <<s, "loop">> \in disk
  OBVIOUS
<1>8. sending[t].at \in {"running", "flushing", "returned"}
  BY DEF WindowInv, BeforeLoopInv
<1>9. \A s \in Tasks :
        sending'[s].at \notin {"running", "flushing", "returned"} =>
          loop'[s].status = "none"
  BY <1>2, <1>3, <1>8 DEF WindowInv, BeforeLoopInv
<1>10. \A s \in Tasks : NeverLoops(s) => NeverLoops(s)'
  BY <1>2, <1>3 DEF NeverLoops
<1>11. \A s \in Tasks : <<s, "hook">> \in disk' =>
         NeverLoops(s) \/ <<s, "hook">> \in disk
  OBVIOUS
<1> QED BY <1>4, <1>5, <1>6, <1>7, <1>9, <1>10, <1>11, WindowMoves

LEMMA StopsKeep ==
  ASSUME WindowInv, NEW t \in Tasks, loop[t].status # "none",
         NEW status \in Window!Statuses \ {"none", "ApplyingPatch"},
         Window!Stops(t, status),
         UNCHANGED <<refs, config, built, opening, disk>>
  PROVE  WindowInv'
<1>1. WindowTyped
  BY DEF WindowInv
<1>2. /\ loop' = [loop EXCEPT ![t].status = status]
      /\ \/ UNCHANGED sending
         \/ sending[t].at = "running"
            /\ sending' = Window!Moved(t, "flushing")
      /\ ledger' \in [Tasks -> SUBSET ({"proposed", "started"} \X Tasks)]
      /\ \A s \in Tasks : ledger[s] \subseteq ledger'[s]
      /\ UNCHANGED ui \/ ui' = Window!Synced(t, status)
  BY <1>1, StopsParts
<1> QED BY ONLY <1>2, LoopMovesKeep, WindowInv, t \in Tasks,
           loop[t].status # "none", UNCHANGED <<refs, config, built, opening, disk>>,
           status \in Window!Statuses \ {"none", "ApplyingPatch"}

(* Steps that change no loop, no session and no disk.                      *)
LEMMA SendingMoves ==
  ASSUME WindowInv, WindowTyped', NEW t \in Tasks,
         UNCHANGED <<loop, ledger, disk>>,
         \A s \in Tasks \ {t} : sending'[s] = sending[s],
         sending[t].at # "returned",
         \/ sending'[t].at \in {"running", "flushing", "returned"}
         \/ loop[t].status = "none",
         ui'.origin = "single_turn" =>
           \/ ui.origin = "single_turn" /\ ui'.proposal = ui.proposal
           \/ /\ ui'.proposal = t /\ sending'[t].at = "returned"
              /\ loop[t].status = "none"
  PROVE  WindowInv'
<1>1. \A s \in Tasks :
        sending'[s].at \notin {"running", "flushing", "returned"} =>
          loop'[s].status = "none"
  BY DEF WindowInv, BeforeLoopInv
<1>2. \A s \in Tasks : NeverLoops(s) => NeverLoops(s)'
  BY DEF NeverLoops
<1> QED BY <1>1, <1>2, WindowMoves

LEMMA ScreenMoves ==
  ASSUME WindowInv, WindowTyped',
         UNCHANGED <<sending, loop, ledger, disk>>,
         ui'.origin = "single_turn" =>
           ui.origin = "single_turn" /\ ui'.proposal = ui.proposal
  PROVE  WindowInv'
<1>1. \A s \in Tasks :
        sending'[s].at \notin {"running", "flushing", "returned"} =>
          loop'[s].status = "none"
  BY DEF WindowInv, BeforeLoopInv
<1>2. \A s \in Tasks : NeverLoops(s) => NeverLoops(s)'
  BY DEF NeverLoops
<1> QED BY <1>1, <1>2, WindowMoves

LEMMA BlankParts ==
  ASSUME WindowTyped
  PROVE  LET blank == [Window!BlankUi EXCEPT !.running = ui.running]
         IN /\ blank \in Window!Views
            /\ blank.task = None /\ blank.status = "none"
            /\ blank.proposal = None /\ blank.origin = None
<1>1. ui.running \in BOOLEAN
  BY DEF WindowTyped, Window!Views
<1> QED BY <1>1 DEF Window!BlankUi, Window!Views, Window!Statuses

LEMMA SendPromptKeeps ==
  ASSUME WindowInv, NEW t \in Tasks, Window!SendPrompt(t)
  PROVE  WindowInv'
<1>1. WindowTyped
  BY DEF WindowInv
<1>2. /\ sending[t].at = "unsent"
      /\ sending' = [sending EXCEPT ![t] =
           [at |-> "context", provider |-> config, runtime |-> built]]
      /\ ui' = [Window!BlankUi EXCEPT !.running = ui.running]
      /\ UNCHANGED <<loop, refs, config, built, opening, ledger, disk>>
  BY DEF Window!SendPrompt, Window!At
<1>3. /\ sending' \in [Tasks -> [at : Places, provider : Providers \cup {None},
                                 runtime : Providers \cup {None}]]
      /\ \A s \in Tasks \ {t} : sending'[s] = sending[s]
  BY <1>1, <1>2 DEF WindowTyped, Places
<1>4. /\ ui' \in Window!Views /\ ui'.task = None /\ ui'.status = "none"
      /\ ui'.proposal = None /\ ui'.origin = None
  BY <1>1, <1>2, BlankParts
<1>5. WindowTyped'
  BY <1>1, <1>2, <1>3, <1>4 DEF WindowTyped
<1>6. loop[t].status = "none" /\ ui'.origin # "single_turn"
  BY <1>2, <1>4, NoneIsNoTask DEF WindowInv, BeforeLoopInv
<1> QED BY <1>2, <1>3, <1>5, <1>6, SendingMoves

LEMMA ContextBuiltKeeps ==
  ASSUME WindowInv, NEW t \in Tasks, Window!ContextBuilt(t)
  PROVE  WindowInv'
<1>1. WindowTyped
  BY DEF WindowInv
<1>2. PICK place \in {"session", "single"} :
        sending' = Window!Moved(t, place)
  BY DEF Window!ContextBuilt
<1>3. /\ sending[t].at = "context"
      /\ UNCHANGED <<loop, refs, ui, config, built, opening, ledger, disk>>
  BY DEF Window!ContextBuilt, Window!At
<1>4. place \in Places
  BY DEF Places
<1>5. /\ sending' \in [Tasks -> [at : Places, provider : Providers \cup {None},
                                 runtime : Providers \cup {None}]]
      /\ \A s \in Tasks \ {t} : sending'[s] = sending[s]
  BY <1>1, <1>2, <1>4, MovedParts
<1>6. WindowTyped'
  BY <1>1, <1>3, <1>5 DEF WindowTyped
<1>7. loop[t].status = "none"
  BY <1>3 DEF WindowInv, BeforeLoopInv
<1> QED BY <1>3, <1>5, <1>6, <1>7, SendingMoves

LEMMA SessionCreatedKeeps ==
  ASSUME WindowInv, NEW t \in Tasks, Window!SessionCreated(t)
  PROVE  WindowInv'
<1>1. WindowTyped
  BY DEF WindowInv
<1>2. /\ sending[t].at = "session"
      /\ sending' = Window!Moved(t, "recording")
      /\ refs' = [refs EXCEPT !.recorder = t]
      /\ UNCHANGED <<loop, ui, config, built, opening, ledger, disk>>
  BY DEF Window!SessionCreated, Window!At
<1>3. "recording" \in Places
  BY DEF Places
<1>4. /\ sending' \in [Tasks -> [at : Places, provider : Providers \cup {None},
                                 runtime : Providers \cup {None}]]
      /\ \A s \in Tasks \ {t} : sending'[s] = sending[s]
  BY <1>1, <1>2, <1>3, MovedParts
<1>5. refs' \in [project : BOOLEAN, loop : Tasks \cup {None},
               recorder : Tasks \cup {None}, subscribed : Tasks \cup {None}]
  BY <1>1, <1>2 DEF WindowTyped
<1>6. WindowTyped'
  BY <1>1, <1>2, <1>4, <1>5 DEF WindowTyped
<1>7. loop[t].status = "none"
  BY <1>2 DEF WindowInv, BeforeLoopInv
<1> QED BY <1>2, <1>4, <1>6, <1>7, SendingMoves

LEMMA SendFailsKeeps ==
  ASSUME WindowInv, NEW t \in Tasks, Window!SendFails(t) \/ Window!Flushed(t)
  PROVE  WindowInv'
<1>1. WindowTyped
  BY DEF WindowInv
<1>2. /\ sending[t].at # "returned"
      /\ sending' = Window!Moved(t, "returned")
      /\ UNCHANGED <<loop, refs, ui, config, built, opening, ledger, disk>>
  BY DEF Window!SendFails, Window!Flushed, Window!At
<1>3. "returned" \in Places
  BY DEF Places
<1>4. /\ sending' \in [Tasks -> [at : Places, provider : Providers \cup {None},
                                 runtime : Providers \cup {None}]]
      /\ sending'[t].at = "returned"
      /\ \A s \in Tasks \ {t} : sending'[s] = sending[s]
  BY <1>1, <1>2, <1>3, MovedParts
<1>5. WindowTyped'
  BY <1>1, <1>2, <1>4 DEF WindowTyped
<1> QED BY <1>2, <1>4, <1>5, SendingMoves

LEMMA FlushFailsKeeps ==
  ASSUME WindowInv, NEW t \in Tasks, Window!FlushFails(t)
  PROVE  WindowInv'
<1>1. WindowTyped
  BY DEF WindowInv
<1>2. /\ sending[t].at # "returned"
      /\ sending' = Window!Moved(t, "returned")
      /\ refs' = [Window!NoRefs EXCEPT !.project = refs.project]
      /\ ui' = [ui EXCEPT !.task = None, !.status = "none", !.running = FALSE]
      /\ UNCHANGED <<loop, config, built, opening, ledger, disk>>
  BY DEF Window!FlushFails, Window!At
<1>3. "returned" \in Places
  BY DEF Places
<1>4. /\ sending' \in [Tasks -> [at : Places, provider : Providers \cup {None},
                                 runtime : Providers \cup {None}]]
      /\ sending'[t].at = "returned"
      /\ \A s \in Tasks \ {t} : sending'[s] = sending[s]
  BY <1>1, <1>2, <1>3, MovedParts
<1>5. refs' \in [project : BOOLEAN, loop : Tasks \cup {None},
               recorder : Tasks \cup {None}, subscribed : Tasks \cup {None}]
  BY <1>1, <1>2 DEF WindowTyped, Window!NoRefs
<1>6. /\ ui' \in Window!Views /\ ui'.status = "none"
      /\ ui'.proposal = ui.proposal /\ ui'.origin = ui.origin
  BY <1>1, <1>2 DEF WindowTyped, Window!Views, Window!Statuses
<1>7. WindowTyped'
  BY <1>1, <1>2, <1>4, <1>5, <1>6 DEF WindowTyped
<1> QED BY <1>2, <1>4, <1>6, <1>7, SendingMoves

(* The one way into a loop: a prompt that is recording has none yet, and   *)
(* was never shown or applied as a single turn.                            *)
LEMMA LoopStartsKeeps ==
  ASSUME WindowInv, NEW t \in Tasks, Window!LoopStarts(t)
  PROVE  WindowInv'
<1>1. WindowTyped
  BY DEF WindowInv
<1>2. /\ sending[t].at = "recording"
      /\ refs' = [refs EXCEPT !.loop = t, !.subscribed = t]
      /\ loop' = [loop EXCEPT ![t].status = "Planning"]
      /\ sending' = Window!Moved(t, "running")
      /\ ui' = Window!Synced(t, "Planning")
      /\ UNCHANGED <<config, built, opening, ledger, disk>>
  BY DEF Window!LoopStarts, Window!At
<1>3. "running" \in Places /\ "Planning" \in Window!Statuses /\ t # None
  BY NoneIsNoTask DEF Places, Window!Statuses
<1>4. /\ sending' \in [Tasks -> [at : Places, provider : Providers \cup {None},
                                 runtime : Providers \cup {None}]]
      /\ sending'[t].at = "running"
      /\ \A s \in Tasks \ {t} : sending'[s] = sending[s]
  BY <1>1, <1>2, <1>3, MovedParts
<1>5. /\ loop' \in [Tasks -> [status : Window!Statuses, stopped : BOOLEAN]]
      /\ loop'[t].status = "Planning"
      /\ \A s \in Tasks \ {t} : loop'[s] = loop[s]
  BY <1>1, <1>2, <1>3, LoopParts
<1>6. refs' \in [project : BOOLEAN, loop : Tasks \cup {None},
               recorder : Tasks \cup {None}, subscribed : Tasks \cup {None}]
  BY <1>1, <1>2 DEF WindowTyped
<1>7. /\ ui' \in Window!Views /\ (ui'.proposal = None <=> ui'.origin = None)
      /\ ui'.task = t
      /\ ui'.origin = "single_turn" =>
           ui.origin = "single_turn" /\ ui'.proposal = ui.proposal
  BY <1>1, <1>2, <1>3, SyncedParts
<1>8. WindowTyped'
  BY <1>1, <1>2, <1>3, <1>4, <1>5, <1>6, <1>7 DEF WindowTyped
<1>9. \A s \in Tasks :
        sending'[s].at \notin {"running", "flushing", "returned"} =>
          loop'[s].status = "none"
  BY <1>4, <1>5 DEF WindowInv, BeforeLoopInv
<1>10. \A s \in Tasks : NeverLoops(s) => NeverLoops(s)'
  BY <1>2, <1>4, <1>5 DEF NeverLoops
<1> QED BY <1>2, <1>5, <1>7, <1>8, <1>9, <1>10, WindowMoves

LEMMA SingleTurnKeeps ==
  ASSUME WindowInv, NEW t \in Tasks,
         Window!SingleTurnStarts(t) \/ Window!SingleTurnEnds(t)
  PROVE  WindowInv'
<1>1. WindowTyped
  BY DEF WindowInv
<1>2. PICK place \in {"streaming", "returned"} :
        /\ sending' = Window!Moved(t, place)
        /\ \/ \E b \in BOOLEAN : ui' = [ui EXCEPT !.running = b]
           \/ /\ place = "returned"
              /\ ui' = [ui EXCEPT !.running = FALSE, !.proposal = t,
                                  !.origin = "single_turn"]
  BY DEF Window!SingleTurnStarts, Window!SingleTurnEnds
<1>3. /\ sending[t].at \in {"single", "streaming"}
      /\ UNCHANGED <<loop, refs, config, built, opening, ledger, disk>>
  BY DEF Window!SingleTurnStarts, Window!SingleTurnEnds, Window!At
<1>4. place \in Places /\ t # None
  BY NoneIsNoTask DEF Places
<1>5. /\ sending' \in [Tasks -> [at : Places, provider : Providers \cup {None},
                                 runtime : Providers \cup {None}]]
      /\ sending'[t].at = place
      /\ \A s \in Tasks \ {t} : sending'[s] = sending[s]
  BY <1>1, <1>2, <1>4, MovedParts
<1>6. /\ ui' \in Window!Views /\ (ui'.proposal = None <=> ui'.origin = None)
      /\ ui'.task = ui.task /\ ui'.status = ui.status
      /\ \/ ui'.origin = ui.origin /\ ui'.proposal = ui.proposal
         \/ place = "returned" /\ ui'.proposal = t
  <2>1. ui \in Window!Views /\ (ui.proposal = None <=> ui.origin = None)
    BY <1>1 DEF WindowTyped
  <2>2. CASE \E b \in BOOLEAN : ui' = [ui EXCEPT !.running = b]
    BY <2>1, <2>2 DEF Window!Views
  <2>3. CASE /\ place = "returned"
             /\ ui' = [ui EXCEPT !.running = FALSE, !.proposal = t,
                                 !.origin = "single_turn"]
    BY <1>4, <2>1, <2>3, NoneIsNoTask DEF Window!Views
  <2> QED BY <1>2, <2>2, <2>3
<1>7. WindowTyped'
  BY <1>1, <1>3, <1>5, <1>6 DEF WindowTyped
<1>8. loop[t].status = "none"
  BY <1>3 DEF WindowInv, BeforeLoopInv
<1> QED BY <1>3, <1>5, <1>6, <1>7, <1>8, SendingMoves

LEMMA WorksKeeps ==
  ASSUME WindowInv, NEW t \in Tasks, Window!Works(t)
  PROVE  WindowInv'
<1>1. PICK status \in {"Done", "Failed", "WaitingForCommandApproval",
                       "WaitingForPatchApproval"} : Window!Stops(t, status)
  BY DEF Window!Works
<1>2. /\ loop[t].status # "none"
      /\ UNCHANGED <<refs, config, built, opening, disk>>
  BY DEF Window!Works
<1>3. status \in Window!Statuses \ {"none", "ApplyingPatch"}
  BY DEF Window!Statuses, Window!Terminal, Window!Waiting
<1> QED BY <1>1, <1>2, <1>3, StopsKeep

(* What the buttons reach when a proposal is the agent's is a task.        *)
LEMMA ShownAreTasks ==
  ASSUME WindowInv
  PROVE  /\ ui.proposal # None => ui.proposal \in Tasks
         /\ ui.status # "none" => ui.task \in Tasks
         /\ ui.task # None => ui.task \in Tasks
BY DEF WindowInv, WindowTyped, Window!Views

LEMMA ApprovePatchKeeps ==
  ASSUME WindowInv, Window!ApprovePatch
  PROVE  WindowInv'
<1>1. PICK t : t = ui.proposal
  OBVIOUS
<1>2. /\ loop[t].status = "WaitingForPatchApproval"
      /\ loop' = [loop EXCEPT ![t].status = "Approving"]
      /\ UNCHANGED <<sending, refs, ui, config, built, opening, ledger, disk>>
      /\ t # None
  BY <1>1, NoneIsNoTask DEF Window!ApprovePatch, Window!Route
<1>3. t \in Tasks
  BY <1>1, <1>2, ShownAreTasks
<1>4. "Approving" \in Window!Statuses
  BY DEF Window!Statuses
<1>5. /\ ledger' \in [Tasks -> SUBSET ({"proposed", "started"} \X Tasks)]
      /\ \A s \in Tasks : ledger[s] \subseteq ledger'[s]
  BY <1>2 DEF WindowInv, WindowTyped
<1> QED BY <1>2, <1>3, <1>4, <1>5, LoopMovesKeep

LEMMA ApplySingleTurnKeeps ==
  ASSUME WindowInv, Window!ApplySingleTurn
  PROVE  WindowInv'
<1>1. WindowTyped
  BY DEF WindowInv
<1>2. /\ UNCHANGED <<sending, loop, refs, config, built, opening, ledger>>
      /\ ui.proposal # None /\ ui.origin = "single_turn"
      /\ \/ /\ disk' = disk \cup {<<ui.proposal, "hook">>}
            /\ ui' = [ui EXCEPT !.proposal = None, !.origin = None,
                                !.current = ui.proposal]
         \/ UNCHANGED <<disk, ui>>
  BY NoneIsNoTask DEF Window!ApplySingleTurn, Window!Route
<1>3. ui.proposal \in Tasks /\ NeverLoops(ui.proposal)
  BY <1>2, ShownAreTasks DEF WindowInv, SingleTurnInv
<1>4. /\ ui' \in Window!Views /\ (ui'.proposal = None <=> ui'.origin = None)
      /\ ui'.task = ui.task /\ ui'.status = ui.status
      /\ ui'.origin # None => ui' = ui
  <2>1. ui \in Window!Views /\ (ui.proposal = None <=> ui.origin = None)
    BY <1>1 DEF WindowTyped
  <2>2. CASE UNCHANGED ui
    BY <2>1, <2>2
  <2>3. CASE ui' = [ui EXCEPT !.proposal = None, !.origin = None,
                              !.current = ui.proposal]
    BY <1>3, <2>1, <2>3 DEF Window!Views
  <2> QED BY <1>2, <2>2, <2>3
<1>5. WindowTyped'
  BY <1>1, <1>2, <1>4 DEF WindowTyped
<1>6. \A s \in Tasks :
        sending'[s].at \notin {"running", "flushing", "returned"} =>
          loop'[s].status = "none"
  BY <1>2 DEF WindowInv, BeforeLoopInv
<1>7. \A s \in Tasks : NeverLoops(s) => NeverLoops(s)'
  BY <1>2 DEF NeverLoops
<1>8. \A s \in Tasks : <<s, "hook">> \in disk' =>
        NeverLoops(s) \/ <<s, "hook">> \in disk
  BY <1>2, <1>3
<1>9. \A s \in Tasks : <<s, "loop">> \in disk' => <<s, "loop">> \in disk
  BY <1>2
<1>10. ui'.origin = "single_turn" =>
         ui.origin = "single_turn" /\ ui'.proposal = ui.proposal
  BY <1>2, <1>4, NoneIsNoTask
<1> QED BY <1>2, <1>5, <1>6, <1>7, <1>8, <1>9, <1>10, WindowMoves

(* A proposal is taken off the screen.                                     *)
LEMMA DiscardKeeps ==
  ASSUME WindowInv,
         ui' = [ui EXCEPT !.proposal = None, !.origin = None],
         UNCHANGED <<sending, loop, refs, config, built, opening, ledger, disk>>
  PROVE  WindowInv'
<1>1. WindowTyped
  BY DEF WindowInv
<1>2. /\ ui' \in Window!Views /\ ui'.proposal = None /\ ui'.origin = None
      /\ ui'.task = ui.task /\ ui'.status = ui.status
  BY <1>1 DEF WindowTyped, Window!Views
<1>3. WindowTyped'
  BY <1>1, <1>2 DEF WindowTyped
<1> QED BY <1>2, <1>3, NoneIsNoTask, ScreenMoves

LEMMA RejectProposalKeeps ==
  ASSUME WindowInv, Window!RejectProposal
  PROVE  WindowInv'
<1>1. CASE Window!Stops(ui.proposal, "Planning")
           /\ loop[ui.proposal].status = "WaitingForPatchApproval"
           /\ Window!Route = "agent"
           /\ UNCHANGED <<refs, config, built, opening, disk>>
  <2>1. ui.proposal # None
    BY <1>1, NoneIsNoTask DEF Window!Route
  <2>2. ui.proposal \in Tasks
    BY <2>1, ShownAreTasks
  <2>3. "Planning" \in Window!Statuses \ {"none", "ApplyingPatch"}
    BY DEF Window!Statuses
  <2> QED BY <1>1, <2>2, <2>3, StopsKeep
<1>2. CASE ~(Window!Stops(ui.proposal, "Planning")
             /\ loop[ui.proposal].status = "WaitingForPatchApproval"
             /\ Window!Route = "agent"
             /\ UNCHANGED <<refs, config, built, opening, disk>>)
  <2>1. /\ ui' = [ui EXCEPT !.proposal = None, !.origin = None]
        /\ UNCHANGED <<sending, loop, refs, config, built, opening, ledger,
                       disk>>
    BY <1>2 DEF Window!RejectProposal
  <2> QED BY <2>1, DiscardKeeps
<1> QED BY <1>1, <1>2

LEMMA DecideCommandKeeps ==
  ASSUME WindowInv, Window!DecideCommand
  PROVE  WindowInv'
<1>1. /\ ui.status # "none" /\ loop[ui.task].status # "none"
      /\ Window!Stops(ui.task, "Planning")
      /\ UNCHANGED <<refs, config, built, opening, disk>>
  BY DEF Window!DecideCommand
<1>2. ui.task \in Tasks
  BY <1>1, ShownAreTasks
<1>3. "Planning" \in Window!Statuses \ {"none", "ApplyingPatch"}
  BY DEF Window!Statuses
<1> QED BY <1>1, <1>2, <1>3, StopsKeep

LEMMA StopTaskKeeps ==
  ASSUME WindowInv, Window!StopTask
  PROVE  WindowInv'
<1>1. PICK t : t = ui.task
  OBVIOUS
<1>2. t \in Tasks
  BY <1>1, ShownAreTasks DEF Window!StopTask
<1>3. UNCHANGED <<refs, config, built, opening, disk>>
  BY DEF Window!StopTask
<1>4. CASE loop[t].status \in Window!Waiting \cup {"Planning"}
  <2>1. Window!Stops(t, "Cancelled") /\ loop[t].status # "none"
    BY <1>1, <1>4 DEF Window!StopTask, Window!Waiting
  <2>2. "Cancelled" \in Window!Statuses \ {"none", "ApplyingPatch"}
    BY DEF Window!Statuses, Window!Terminal
  <2> QED BY <1>2, <1>3, <2>1, <2>2, StopsKeep
<1>5. CASE loop[t].status \notin Window!Waiting \cup {"Planning"}
  <2>1. /\ loop' = [loop EXCEPT ![t].stopped = TRUE]
        /\ UNCHANGED <<sending, ui, ledger>>
    BY <1>1, <1>5 DEF Window!StopTask
  <2>2. WindowTyped
    BY DEF WindowInv
  <2>3. /\ loop' \in [Tasks -> [status : Window!Statuses, stopped : BOOLEAN]]
        /\ \A s \in Tasks : loop'[s].status = loop[s].status
    <3>1. loop \in [Tasks -> [status : Window!Statuses, stopped : BOOLEAN]]
      BY <2>2 DEF WindowTyped
    <3>2. [loop[t] EXCEPT !.stopped = TRUE]
            \in [status : Window!Statuses, stopped : BOOLEAN]
      BY <1>2, <3>1
    <3>3. loop' = [loop EXCEPT ![t] = [loop[t] EXCEPT !.stopped = TRUE]]
      BY <2>1
    <3> QED BY ONLY <1>2, <3>1, <3>2, <3>3
  <2>4. WindowTyped'
    BY <1>3, <2>1, <2>2, <2>3 DEF WindowTyped
  <2>5. \A s \in Tasks :
          sending'[s].at \notin {"running", "flushing", "returned"} =>
            loop'[s].status = "none"
    BY <2>1, <2>3 DEF WindowInv, BeforeLoopInv
  <2>6. \A s \in Tasks : NeverLoops(s) => NeverLoops(s)'
    BY <2>1, <2>3 DEF NeverLoops
  <2> QED BY <1>3, <2>1, <2>3, <2>4, <2>5, <2>6, WindowMoves
<1> QED BY <1>4, <1>5

LEMMA RollbackKeeps ==
  ASSUME WindowInv, Window!Rollback
  PROVE  WindowInv'
<1>1. WindowTyped
  BY DEF WindowInv
<1>2. /\ disk' \subseteq disk
      /\ ui' = [ui EXCEPT !.current = None]
      /\ UNCHANGED <<sending, loop, refs, config, built, opening, ledger>>
  BY DEF Window!Rollback
<1>3. /\ ui' \in Window!Views
      /\ ui'.proposal = ui.proposal /\ ui'.origin = ui.origin
      /\ ui'.task = ui.task /\ ui'.status = ui.status
  BY <1>1, <1>2 DEF WindowTyped, Window!Views
<1>4. WindowTyped'
  BY <1>1, <1>2, <1>3 DEF WindowTyped
<1>5. \A s \in Tasks :
        sending'[s].at \notin {"running", "flushing", "returned"} =>
          loop'[s].status = "none"
  BY <1>2 DEF WindowInv, BeforeLoopInv
<1>6. \A s \in Tasks : NeverLoops(s) => NeverLoops(s)'
  BY <1>2 DEF NeverLoops
<1> QED BY <1>2, <1>3, <1>4, <1>5, <1>6, WindowMoves

(* The start is recorded in the task's own session before its patch is     *)
(* applied, and only behind its proposal.                                  *)
LEMMA EvidenceStoredKeeps ==
  ASSUME WindowInv, NEW t \in Tasks, Window!EvidenceStored(t)
  PROVE  WindowInv'
<1>1. WindowTyped
  BY DEF WindowInv
<1>2. /\ loop[t].status = "Approving"
      /\ UNCHANGED <<refs, config, built, opening, disk>>
  BY DEF Window!EvidenceStored
<1>3. CASE ~Window!Evidence(t)
  <2>1. PICK status \in {"Cancelled", "Failed"} : Window!Stops(t, status)
    BY <1>3 DEF Window!EvidenceStored
  <2>2. status \in Window!Statuses \ {"none", "ApplyingPatch"}
    BY DEF Window!Statuses, Window!Terminal
  <2> QED BY <1>2, <2>1, <2>2, StopsKeep
<1>4. CASE Window!Evidence(t)
  <2>1. PICK status \in {"Cancelled", "ApplyingPatch"} :
          loop' = [loop EXCEPT ![t].status = status]
    BY <1>4 DEF Window!EvidenceStored
  <2>2. status \in Window!Statuses /\ status # "none"
    BY DEF Window!Statuses, Window!Terminal
  <2>3. loop'[t].status = status
    BY <1>1, <2>1, <2>2, LoopParts
  <2>4. /\ ledger' = [ledger EXCEPT ![t] = @ \cup {<<"started", t>>}]
        /\ UNCHANGED sending
        /\ UNCHANGED ui \/ ui' = Window!Synced(t, loop'[t].status)
    BY <1>4 DEF Window!EvidenceStored
  <2>5. /\ ledger' \in [Tasks -> SUBSET ({"proposed", "started"} \X Tasks)]
        /\ \A s \in Tasks : ledger[s] \subseteq ledger'[s]
        /\ ledger'[t] = ledger[t] \cup {<<"started", t>>}
    BY <1>1, <2>4 DEF WindowTyped
  <2>6. BothRecorded(t)'
    BY <1>4, <2>5 DEF Window!Evidence, BothRecorded
  <2>7. UNCHANGED ui \/ ui' = Window!Synced(t, status)
    BY <2>3, <2>4
  <2> QED BY <1>2, <2>1, <2>2, <2>4, <2>5, <2>6, <2>7, LoopMovesKeep
<1> QED BY <1>3, <1>4

LEMMA PatchAppliedKeeps ==
  ASSUME WindowInv, NEW t \in Tasks, Window!PatchApplied(t)
  PROVE  WindowInv'
<1>1. PICK status \in {"Cancelled", "Planning"} :
        /\ loop' = [loop EXCEPT ![t].status = status]
        /\ UNCHANGED ui \/ ui' = Window!Synced(t, status)
  BY DEF Window!PatchApplied
<1>2. /\ loop[t].status = "ApplyingPatch"
      /\ disk' = disk \cup {<<t, "loop">>} \/ UNCHANGED disk
      /\ UNCHANGED <<sending, refs, config, built, opening, ledger>>
  BY DEF Window!PatchApplied
<1>3. status \in Window!Statuses /\ status \notin {"none", "ApplyingPatch"}
  BY DEF Window!Statuses, Window!Terminal
<1>4. /\ ledger' \in [Tasks -> SUBSET ({"proposed", "started"} \X Tasks)]
      /\ \A s \in Tasks : ledger[s] \subseteq ledger'[s]
  BY <1>2 DEF WindowInv, WindowTyped
<1> QED BY <1>1, <1>2, <1>3, <1>4, LoopMovesKeep

LEMMA OpenProjectKeeps ==
  ASSUME WindowInv, Window!OpenProject
  PROVE  WindowInv'
<1>1. WindowTyped
  BY DEF WindowInv
<1>2. /\ opening' = [picked |-> opening.picked + 1,
                     pending |-> opening.pending + 1]
      /\ UNCHANGED <<sending, loop, refs, ui, config, built, ledger, disk>>
  BY DEF Window!OpenProject
<1>3. /\ opening' \in [picked : Nat, pending : Nat]
      /\ opening'.pending <= opening'.picked
  BY <1>1, <1>2 DEF WindowTyped
<1>4. WindowTyped'
  BY <1>1, <1>2, <1>3 DEF WindowTyped
<1> QED BY <1>2, <1>4, ScreenMoves

LEMMA ProjectOpenedKeeps ==
  ASSUME WindowInv, Window!ProjectOpened
  PROVE  WindowInv'
<1>1. WindowTyped
  BY DEF WindowInv
<1>2. /\ opening.pending > 0
      /\ opening' = [opening EXCEPT !.pending = @ - 1]
      /\ refs' = [Window!NoRefs EXCEPT !.project = TRUE]
      /\ ui' = [Window!BlankUi EXCEPT !.running = ui.running]
      /\ UNCHANGED <<sending, loop, config, built, ledger, disk>>
  BY DEF Window!ProjectOpened
<1>3. /\ opening' \in [picked : Nat, pending : Nat]
      /\ opening'.pending <= opening'.picked
  BY <1>1, <1>2 DEF WindowTyped
<1>4. refs' \in [project : BOOLEAN, loop : Tasks \cup {None},
               recorder : Tasks \cup {None}, subscribed : Tasks \cup {None}]
  BY <1>2 DEF Window!NoRefs
<1>5. /\ ui' \in Window!Views /\ ui'.task = None /\ ui'.status = "none"
      /\ ui'.proposal = None /\ ui'.origin = None
  BY <1>1, <1>2, BlankParts
<1>6. WindowTyped'
  BY <1>1, <1>2, <1>3, <1>4, <1>5 DEF WindowTyped
<1> QED BY <1>2, <1>5, <1>6, NoneIsNoTask, ScreenMoves

LEMMA ChangeProviderKeeps ==
  ASSUME WindowInv, Window!ChangeProvider
  PROVE  WindowInv'
<1>1. WindowTyped
  BY DEF WindowInv
<1>2. /\ config' \in Providers
      /\ UNCHANGED <<sending, loop, opening, ledger, disk>>
  BY DEF Window!ChangeProvider
<1>3. CASE ui.running
  <2>1. UNCHANGED <<built, refs, ui>>
    BY <1>3 DEF Window!ChangeProvider
  <2>2. WindowTyped'
    BY <1>1, <1>2, <2>1 DEF WindowTyped
  <2> QED BY <1>2, <2>1, <2>2, ScreenMoves
<1>4. CASE ~ui.running
  <2>1. /\ built' = config'
        /\ refs' = [Window!NoRefs EXCEPT !.project = refs.project]
        /\ ui' = [ui EXCEPT !.task = None, !.status = "none",
                    !.proposal = IF ui.origin = "agent" THEN None ELSE @,
                    !.origin = IF ui.origin = "agent" THEN None ELSE @]
    BY <1>4 DEF Window!ChangeProvider
  <2>2. refs' \in [project : BOOLEAN, loop : Tasks \cup {None},
                 recorder : Tasks \cup {None}, subscribed : Tasks \cup {None}]
    BY <1>1, <2>1 DEF WindowTyped, Window!NoRefs
  <2>3. /\ ui' \in Window!Views /\ ui'.status = "none"
        /\ \/ ui'.proposal = None /\ ui'.origin = None
           \/ ui'.proposal = ui.proposal /\ ui'.origin = ui.origin
    <3>1. ui \in Window!Views
      BY <1>1 DEF WindowTyped
    <3> QED BY <2>1, <3>1 DEF Window!Views, Window!Statuses
  <2>4. WindowTyped'
    BY <1>1, <1>2, <2>1, <2>2, <2>3 DEF WindowTyped
  <2> QED BY <1>2, <2>3, <2>4, NoneIsNoTask, ScreenMoves
<1> QED BY <1>3, <1>4

LEMMA WindowKeeps ==
  ASSUME WindowInv, Window!Next
  PROVE  WindowInv'
<1>1. ASSUME NEW t \in Tasks,
             \/ Window!SendPrompt(t) \/ Window!ContextBuilt(t)
             \/ Window!SessionCreated(t) \/ Window!SendFails(t)
             \/ Window!LoopStarts(t) \/ Window!Works(t) \/ Window!Flushed(t)
             \/ Window!FlushFails(t) \/ Window!SingleTurnStarts(t)
             \/ Window!SingleTurnEnds(t) \/ Window!EvidenceStored(t)
             \/ Window!PatchApplied(t)
      PROVE  WindowInv'
  BY <1>1, SendPromptKeeps, ContextBuiltKeeps, SessionCreatedKeeps,
     SendFailsKeeps, LoopStartsKeeps, WorksKeeps, FlushFailsKeeps,
     SingleTurnKeeps, EvidenceStoredKeeps, PatchAppliedKeeps
<1>2. CASE Window!DiscardStale
  BY <1>2, DiscardKeeps DEF Window!DiscardStale
<1> QED
  BY <1>1, <1>2, ApprovePatchKeeps, ApplySingleTurnKeeps, RejectProposalKeeps,
     DecideCommandKeeps, StopTaskKeeps, RollbackKeeps, ChangeProviderKeeps,
     OpenProjectKeeps, ProjectOpenedKeeps
  DEF Window!Next

LEMMA WindowStutters ==
  ASSUME WindowInv, UNCHANGED windowVars
  PROVE  WindowInv'
<1>1. WindowTyped'
  BY DEF WindowInv, WindowTyped, windowVars
<1>2. UNCHANGED <<sending, loop, ui, ledger, disk>>
  BY DEF windowVars
<1> QED BY <1>1, <1>2, ScreenMoves

LEMMA WindowPartInit == Init => WindowPart
BY WindowInit DEF Init, WindowPart

LEMMA WindowPartKeeps ==
  ASSUME WindowPart, [Next]_vars
  PROVE  WindowPart'
<1>1. CASE WindowStep
  BY <1>1, WindowKeeps DEF WindowStep, WindowPart
<1>2. CASE ExportStep \/ ControlStep \/ TextStep \/ SelectionStep
  BY <1>2 DEF ExportStep, ControlStep, TextStep, SelectionStep, WindowPart
<1>3. CASE UNCHANGED vars
  BY <1>3, WindowStutters DEF vars, windowVars, WindowPart
<1> QED BY <1>1, <1>2, <1>3 DEF Next

(* However prompts, openings and changes of the configuration overlap in   *)
(* useRuntime.ts, a patch of an agent's task reaches a disk only behind    *)
(* the evidence of its proposal and its start in the session of that task, *)
(* and what the hook applies itself is never a patch of an agent's task.   *)
THEOREM PatchesStayAccounted == Spec => []PatchesAreAccounted
<1>1. WindowPart => PatchesAreAccounted
  BY WindowSays DEF WindowPart, PatchesAreAccounted
<1>2. WindowPart /\ [Next]_vars => WindowPart'
  BY WindowPartKeeps
<1> QED BY <1>1, <1>2, WindowPartInit, PTL DEF Spec
=============================================================================
