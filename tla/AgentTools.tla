----------------------------- MODULE AgentTools -----------------------------
(***************************************************************************)
(* The two tools that read a project for the agent, search_files and       *)
(* read_file of AgentToolRegistry (packages/agent-runtime/src/agent-loop/  *)
(* tools.ts).  A search reads one file after another, and files may change *)
(* between two reads.  A file is its lines; a line matches the query or    *)
(* not and counts for one byte.                                            *)
(***************************************************************************)
EXTENDS Naturals, Sequences, FiniteSets

CONSTANTS
    Files,          \* 1 .. n, in the order of the project's index
    Absent,         \* the content of a file that cannot be read
    MaxLength,      \* lines of a file
    MaxFiles,       \* MAX_FILES_SCANNED
    MaxBytes,       \* MAX_TOTAL_BYTES_SCANNED
    MaxResults,     \* the most matches a call may ask for
    MaxPage,        \* HARD_MAX_LINES
    MaxPageBytes,   \* HARD_MAX_BYTES
    MaxEdits        \* bound on the changes of the files

VARIABLES
    content,        \* of each file
    edits,
    search,         \* [at, left, limit, matches, files, bytes, truncated]
    seen,           \* history: the files a search read, with their lines
    page            \* the last page: [file, start, end, lines, truncated, of]

vars == <<content, edits, search, seen, page>>

Texts == UNION {[1 .. n -> {"hit", "miss"}] : n \in 1 .. MaxLength}

NoSearch ==
    [at |-> "no", left |-> <<>>, limit |-> 0, matches |-> <<>>, files |-> 0, bytes |-> 0, truncated |-> FALSE]
NoPage == [file |-> 0, start |-> 1, end |-> 0, lines |-> <<>>, truncated |-> FALSE, of |-> <<>>]

TypeOK ==
    /\ content \in [Files -> Texts \cup {Absent}] /\ edits \in 0 .. MaxEdits
    /\ search.at \in {"no", "reading", "done"} /\ search.truncated \in BOOLEAN
    /\ search.matches \in Seq(Files \X (1 .. MaxLength))

-----------------------------------------------------------------------------
(* search_files. *)

\* A set of files or lines, in their order.
InOrder(set) ==
    CHOOSE s \in [1 .. Cardinality(set) -> set] : \A i, k \in DOMAIN s : i < k => s[i] < s[k]

\* The eligible files below a prefix, no more of them than may be read.
StartSearch(eligible, limit) ==
    /\ search.at = "no"
    /\ LET files == InOrder(eligible) IN
       search' = [NoSearch EXCEPT !.at = "reading", !.limit = limit,
                    !.left = SubSeq(files, 1, IF Len(files) > MaxFiles THEN MaxFiles ELSE Len(files)),
                    !.truncated = Len(files) > MaxFiles]
    /\ page' = NoPage
    /\ UNCHANGED <<content, edits, seen>>

Hits(text) == InOrder({i \in DOMAIN text : text[i] = "hit"})

\* Mutant: as many matches as asked for count as all of them.
EnoughBehind(found) == Len(found) > search.limit

Enough(found) == Len(found) >= search.limit

\* The next file; one that cannot be read is passed over, and one that is too much
\* ends the search.
SearchFile ==
    /\ search.at = "reading" /\ search.left # <<>>
    /\ LET f == Head(search.left)
           text == content[f]
           room == search.limit - Len(search.matches)
           hits == [k \in DOMAIN Hits(text) |-> <<f, Hits(text)[k]>>]
           found == search.matches \o SubSeq(hits, 1, IF Len(hits) < room THEN Len(hits) ELSE room)
       IN
       IF search.bytes >= MaxBytes \/ (text # Absent /\ search.bytes + Len(text) > MaxBytes)
       THEN search' = [search EXCEPT !.left = <<>>, !.truncated = TRUE] /\ UNCHANGED seen
       ELSE IF text = Absent THEN search' = [search EXCEPT !.left = Tail(@)] /\ UNCHANGED seen
       ELSE /\ search' = [search EXCEPT
                 !.left = IF Len(found) >= search.limit THEN <<>> ELSE Tail(@),
                 !.matches = found, !.files = @ + 1, !.bytes = @ + Len(text),
                 !.truncated = @ \/ Enough(found)]
            /\ seen' = seen \cup {<<f, text>>}
    /\ UNCHANGED <<content, edits, page>>

SearchEnds ==
    /\ search.at = "reading" /\ search.left = <<>>
    /\ search' = [search EXCEPT !.at = "done"]
    /\ UNCHANGED <<content, edits, seen, page>>

-----------------------------------------------------------------------------
(* read_file. *)

Least(a, b) == IF a < b THEN a ELSE b

\* A page of the lines asked for, cut at the bytes it may hold. The loop makes one call
\* at a time; here pages come before a search.
ReadFile(f, start, end) ==
    /\ search.at = "no"
    /\ content[f] # Absent /\ start <= end /\ end - start + 1 <= MaxPage
    /\ LET text == content[f]
           last == Least(end, Len(text))
           lines == IF last >= start THEN SubSeq(text, start, last) ELSE <<>>
       IN page' = [file |-> f, start |-> start, end |-> last, of |-> text,
                   lines |-> SubSeq(lines, 1, Least(Len(lines), MaxPageBytes)),
                   truncated |-> Len(lines) > MaxPageBytes \/ last < Len(text)]
    /\ UNCHANGED <<content, edits, search, seen>>

Edit(f, text) ==
    /\ edits < MaxEdits /\ content[f] # text
    /\ content' = [content EXCEPT ![f] = text] /\ edits' = edits + 1
    /\ UNCHANGED <<search, seen, page>>

Init ==
    /\ content \in [Files -> Texts \cup {Absent}] /\ edits = 0
    /\ search = NoSearch /\ seen = {} /\ page = NoPage

Next ==
    \/ \E eligible \in SUBSET Files, limit \in 1 .. MaxResults : StartSearch(eligible, limit)
    \/ SearchFile \/ SearchEnds
    \/ \E f \in Files, start, end \in 1 .. MaxLength + 1 : ReadFile(f, start, end)
    \/ \E f \in Files, text \in {<<"hit">>, Absent} : Edit(f, text)

Spec == Init /\ [][Next]_vars

-----------------------------------------------------------------------------
(* Properties. *)

\* What the model is shown is there, in the order of the files and lines, within the
\* limits; and a result that does not say it is truncated left nothing out: a search
\* has every match of every file it could read, a page the rest of its file.
TruncationIsTold ==
    /\ search.files <= MaxFiles /\ search.bytes <= MaxBytes
    /\ search.at # "no" => Len(search.matches) <= search.limit
    /\ \A i \in DOMAIN search.matches :
         \E s \in seen : s[1] = search.matches[i][1] /\ s[2][search.matches[i][2]] = "hit"
    /\ \A i, k \in DOMAIN search.matches : i < k =>
         \/ search.matches[i][1] < search.matches[k][1]
         \/ search.matches[i][1] = search.matches[k][1] /\ search.matches[i][2] < search.matches[k][2]
    /\ search.at = "done" /\ ~search.truncated =>
         \A s \in seen : \A l \in DOMAIN s[2] :
           s[2][l] = "hit" => \E i \in DOMAIN search.matches : search.matches[i] = <<s[1], l>>
    /\ ~page.truncated => page.lines = SubSeq(page.of, page.start, Len(page.of))
=============================================================================
