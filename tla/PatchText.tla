----------------------------- MODULE PatchText -----------------------------
(***************************************************************************)
(* The texts a patch passes through (packages/diff-engine/src): the model  *)
(* response that carries a proposal in an envelope, read while it streams  *)
(* (parser/model-output.ts), the diff shown for a decision                 *)
(* (diff/generator.ts), and the unified diff a proposal is written to and  *)
(* read from (parser/parser.ts).  A line is an element of Lines; a         *)
(* response is a sequence of tokens.                                       *)
(***************************************************************************)
EXTENDS Integers, Sequences, SequencesExt, FiniteSetsExt

CONSTANTS
    Lines,       \* the lines a file is made of
    MaxLines,    \* bound on the lines of a file
    MaxTokens,   \* bound on the tokens of a response
    Candidates   \* bound on the files of a payload: 0 .. Candidates

\* What is wrong with one file of a payload, if anything.
FileDefects == {"fine", "not_object", "not_strings", "unsafe_path",
                "binary_file_unsupported", "unchanged"}
\* What is wrong with the JSON around the files, if anything.
Shapes == {"fine", "malformed", "not_object", "no_version", "other_version", "no_summary"}
Paths == {"p", "q"}

Tags == {"open", "close", "open_other", "close_other"}     \* of version 1, of another one
Tokens == Tags \cup {"text", "payload"}

VARIABLES
    response,   \* what the model has sent so far
    payload,    \* what the token "payload" stands for
    old, new    \* the two versions of a file

vars == <<response, payload, old, new>>

Payloads == [shape : Shapes, files : BoundedSeq([path : Paths, defect : FileDefects], Candidates)]

TypeOK ==
    /\ response \in BoundedSeq(Tokens, MaxTokens)
    /\ payload \in Payloads
    /\ old \in BoundedSeq(Lines, MaxLines) /\ new \in BoundedSeq(Lines, MaxLines)

Init ==
    /\ response = <<>>
    /\ payload \in {p \in Payloads :
                      IF p.shape = "fine"
                      THEN Len(p.files) = 2 => p.files[1].defect = "fine"
                      ELSE p.files = <<>>}
    /\ old = <<>> /\ new = <<>>

\* The provider streams another token.
Stream(token) ==
    /\ Len(response) < MaxTokens /\ old = <<>> /\ new = <<>>
    /\ response' = Append(response, token)
    /\ UNCHANGED <<payload, old, new>>

\* Another pair of versions: a line is added to one of them.
Grow(line) ==
    /\ response = <<>> /\ payload = [shape |-> "fine", files |-> <<>>]
    /\ \/ Len(old) < MaxLines /\ old' = Append(old, line) /\ UNCHANGED new
       \/ Len(new) < MaxLines /\ new' = Append(new, line) /\ UNCHANGED old
    /\ UNCHANGED <<response, payload>>

Next == (\E token \in Tokens : Stream(token)) \/ (\E line \in Lines : Grow(line))

Spec == Init /\ [][Next]_vars

-----------------------------------------------------------------------------
(* parser/model-output.ts *)

Places(tokens) == {i \in DOMAIN response : response[i] \in tokens}
First(places) == Min(places)

\* The text outside the first envelope; while the envelope is still open, and when
\* its tag cannot be read, the text before it.
AssistantText ==
    LET opened == Places(Tags) IN
    IF opened = {} THEN response
    ELSE LET from == First(opened)
             closing == IF response[from] = "open" THEN "close" ELSE "close_other"
             closed == {i \in Places({closing}) : i > from} IN
         IF response[from] \notin {"open", "open_other"} \/ closed = {}
         THEN SubSeq(response, 1, from - 1)
         ELSE SubSeq(response, 1, from - 1)
              \o SubSeq(response, First(closed) + 1, Len(response))

\* What is wrong with the i-th file, checked in the order of the code.
FileError(files, i) ==
    IF files[i].defect \in {"not_object", "not_strings"} THEN "invalid_patch_shape"
    ELSE IF files[i].defect = "unsafe_path" THEN "unsafe_path"
    ELSE IF \E k \in 1 .. i - 1 : files[k].path = files[i].path THEN "duplicate_patch_path"
    ELSE IF files[i].defect = "binary_file_unsupported" THEN "binary_file_unsupported"
    ELSE IF files[i].defect = "unchanged" THEN "invalid_patch_shape"
    ELSE "none"

\* parseModelPatchResponse: "none" and a proposal, or the code of the first check
\* that fails.
ParseError ==
    IF Places(Tags) = {} THEN "patch_not_present"
    ELSE IF Places({"open_other", "close_other"}) # {} THEN "unsupported_patch_version"
    ELSE IF Cardinality(Places({"open"})) # 1 \/ Cardinality(Places({"close"})) # 1
    THEN "patch_parse_failed"
    ELSE LET from == First(Places({"open"}))
             to == First(Places({"close"})) IN
         IF to < from \/ SubSeq(response, from + 1, to - 1) # <<"payload">>
            \/ payload.shape = "malformed" THEN "patch_parse_failed"
         ELSE IF payload.shape = "other_version" THEN "unsupported_patch_version"
         ELSE IF payload.shape # "fine" \/ payload.files = <<>> THEN "invalid_patch_shape"
         ELSE LET wrong == {i \in DOMAIN payload.files : FileError(payload.files, i) # "none"} IN
              IF wrong = {} THEN "none" ELSE FileError(payload.files, First(wrong))

\* validateProposal, the checks it makes before it reads a file.
ValidatorAccepts(files) ==
    /\ files # <<>>
    /\ \A i \in DOMAIN files :
         /\ files[i].defect \notin {"unsafe_path", "binary_file_unsupported", "unchanged"}
         /\ \A k \in 1 .. i - 1 : files[k].path # files[i].path

-----------------------------------------------------------------------------
(* diff/generator.ts *)

Context == 3

InOld(i) == i <= Len(old)
InNew(j) == j <= Len(new)
Same(i, j) == InOld(i) /\ InNew(j) /\ old[i] = new[j]

\* Mutant: context is taken without comparing its lines.
TrailingUnread(i, j) ==
    Max({k \in 0 .. Context : k = 0 \/ (Same(i, j) /\ InOld(i + k - 1) /\ InNew(j + k - 1))})

\* The run of context after (i, j): as far as the lines agree, three at most.
Trailing(i, j) ==
    Max({k \in 0 .. Context : \A d \in 0 .. k - 1 : Same(i + d, j + d)})

\* Where the removed lines from i on end, and then the added lines from j on.
RemovedEnd(i, j) ==
    Min({k \in i .. Len(old) + 1 : ~InOld(k) \/ (InNew(j) /\ old[k] = new[j])})
AddedEnd(i, j) ==
    Min({k \in j .. Len(new) + 1 : ~InNew(k) \/ (InOld(i) /\ new[k] = old[i])})

Start == [old |-> 1, new |-> 1, removed |-> {}, added |-> {}]

\* One turn of the loop of buildHunks, from a line of each version: an unchanged line is
\* skipped; a hunk holds the old lines up to `to` as removed, the new lines likewise as
\* added, and the context that follows.
Turn(at) ==
    LET to == RemovedEnd(at.old, at.new)
        upTo == AddedEnd(to, at.new)
        after == Trailing(to, upTo)
    IN IF ~InOld(at.old) /\ ~InNew(at.new) THEN at
       ELSE IF Same(at.old, at.new)
       THEN [old |-> at.old + 1, new |-> at.new + 1, removed |-> at.removed, added |-> at.added]
       ELSE [old |-> to + after, new |-> upTo + after,
             removed |-> at.removed \cup (at.old .. to - 1), added |-> at.added \cup (at.new .. upTo - 1)]

\* buildHunks: a turn leaves at least one line behind, until there is none.
Hunks ==
    LET turns[n \in 0 .. Len(old) + Len(new)] == IF n = 0 THEN Start ELSE Turn(turns[n - 1])
    IN turns[Len(old) + Len(new)]

\* generateDiff: the lines shown as removed and as added.
Removed == Hunks.removed
Added == Hunks.added

-----------------------------------------------------------------------------
(* parser/parser.ts *)

\* serialize: line by line; a pair that agrees is context, any other a removal
\* followed by an addition.
Row(i) ==
    IF Same(i, i) THEN << <<"kept", old[i]>> >>
    ELSE (IF InOld(i) THEN << <<"removed", old[i]>> >> ELSE <<>>)
         \o (IF InNew(i) THEN << <<"added", new[i]>> >> ELSE <<>>)

Serialized ==
    LET longest == IF Len(old) > Len(new) THEN Len(old) ELSE Len(new)
        rows[n \in 0 .. longest] == IF n = 0 THEN <<>> ELSE rows[n - 1] \o Row(n)
    IN rows[longest]

\* extractFiles: a removal belongs to the old version, an addition to the new one,
\* a context line to both.
Extracted(rows, mark) ==
    LET text[n \in 0 .. Len(rows)] ==
            IF n = 0 THEN <<>>
            ELSE IF rows[n][1] \in {"kept", mark} THEN Append(text[n - 1], rows[n][2])
            ELSE text[n - 1]
    IN text[Len(rows)]

-----------------------------------------------------------------------------
(* Properties. *)

\* Replacement text is kept out of the timeline while a response that will be
\* accepted streams in and after it is complete: a payload inside the only
\* envelope, closed or still open, is no part of the assistant's text.
OneEnvelope ==
    \E from \in Places({"open"}) :
        LET closed == Places({"close"}) IN
        /\ Places(Tags) = {from} \cup closed /\ Cardinality(closed) <= 1
        /\ \A to \in closed : from < to
        /\ \A i \in Places({"payload"}) : from < i /\ \A to \in closed : i < to

PayloadIsHidden == OneEnvelope => ~Contains(AssistantText, "payload")

\* A response that parses gives a proposal the validator has nothing to say about
\* until it reads the files: the two lists of checks agree, so a proposal that
\* reaches the timeline is never refused later for its shape.
ParsedProposalsValidate == ParseError = "none" => ValidatorAccepts(payload.files)

\* The diff shown for a decision leaves nothing out: take away the lines it shows as
\* removed from the old version and those it shows as added from the new one, and
\* the same text remains.
Without(text, gone) ==
    LET left[n \in 0 .. Len(text)] ==
            IF n = 0 THEN <<>>
            ELSE IF n \in gone THEN left[n - 1]
            ELSE Append(left[n - 1], text[n])
    IN left[Len(text)]
DiffAccountsForEveryLine == Without(old, Removed) = Without(new, Added)

\* A proposal of one file whose versions end in a newline, written as a unified
\* diff, reads back as itself.
SerializedReadsBack ==
    Extracted(Serialized, "removed") = old /\ Extracted(Serialized, "added") = new
=============================================================================
