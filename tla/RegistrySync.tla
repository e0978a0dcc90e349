---------------------------- MODULE RegistrySync ----------------------------
(***************************************************************************)
(* The registry of the marketplace view (packages/marketplace-runtime/src/ *)
(* registry, apps/desktop/src/components/RegistryContext.tsx): sources are *)
(* added and removed, and a sync asks the enabled ones in turn, each of    *)
(* whose answers replaces the one cache they share.                        *)
(***************************************************************************)
EXTENDS Naturals, Sequences, FiniteSets

CONSTANTS
    Sources, Ids, Versions,
    Missing,        \* no entry
    MaxEntries,     \* bound: entries of an answer
    MaxSyncs        \* bound: syncs of the view

VARIABLES
    sources,    \* the sources; nothing here depends on their order
    targets,    \* how many of them the sync under way has still to ask
    syncing,    \* the view shows that one is
    cache,      \* id -> its entry
    before,     \* history: the cache when the last answer came
    answer,     \* history: that answer
    counts,     \* what its SyncResult counts
    syncs

vars == <<sources, targets, syncing, cache, before, answer, counts, syncs>>

Listed == [id : Ids, version : Versions, level : {"community", "blocked"}]

\* An entry of an answer is valid or not, whatever validateEntry has against it.
Invalid == "invalid"
Answers == UNION {[1 .. n -> Listed \cup {[id |-> Invalid]}] : n \in 0 .. MaxEntries}
IsValid(e) == e.id # Invalid

EmptyCache == [i \in Ids |-> Missing]
NoCounts == [new |-> 0, updated |-> 0, removed |-> 0, errors |-> 0]

TypeOK ==
    /\ sources \subseteq [id : Sources, enabled : BOOLEAN] /\ IsFiniteSet(sources)
    /\ targets \in Nat
    /\ syncing \in BOOLEAN /\ syncs \in 0 .. MaxSyncs
    /\ {cache[i] : i \in Ids} \subseteq Listed \cup {Missing}

-----------------------------------------------------------------------------
\* A source whose id is taken is refused.
AddSource(s, enabled) ==
    /\ \A k \in sources : k.id # s
    /\ sources' = sources \cup {[id |-> s, enabled |-> enabled]}
    /\ UNCHANGED <<targets, syncing, cache, before, answer, counts, syncs>>

\* The sync under way asks a source that was removed, and its entries stay.
RemoveSource(s) ==
    /\ \E k \in sources : k.id = s /\ sources' = sources \ {k}
    /\ UNCHANGED <<targets, syncing, cache, before, answer, counts, syncs>>

\* The button, disabled while it syncs.
Sync ==
    /\ ~syncing /\ syncs < MaxSyncs
    /\ syncing' = TRUE /\ syncs' = syncs + 1
    /\ targets' = Cardinality({s \in sources : s.enabled})
    /\ UNCHANGED <<sources, cache, before, answer, counts>>

Returns ==
    /\ syncing /\ targets = 0
    /\ syncing' = FALSE
    /\ UNCHANGED <<sources, targets, cache, before, answer, counts, syncs>>

\* Mutant: an entry in the version it has already stays among those that go.
TakeChanges(acc, e) ==
    IF ~IsValid(e)
    THEN [acc EXCEPT !.counts.errors = @ + 1]
    ELSE IF e.id \notin acc.old
    THEN [acc EXCEPT !.cache[e.id] = e, !.counts.new = @ + 1]
    ELSE IF acc.cache[e.id].version = e.version
    THEN acc
    ELSE [acc EXCEPT !.old = @ \ {e.id}, !.cache[e.id] = e, !.counts.updated = @ + 1]

\* One entry of an answer: listed before, it is replaced by another version.
TakeEntry(acc, e) ==
    IF ~IsValid(e)
    THEN [acc EXCEPT !.counts.errors = @ + 1]
    ELSE IF e.id \notin acc.old
    THEN [acc EXCEPT !.cache[e.id] = e, !.counts.new = @ + 1]
    ELSE IF acc.cache[e.id].version = e.version
    THEN [acc EXCEPT !.old = @ \ {e.id}]
    ELSE [acc EXCEPT !.old = @ \ {e.id}, !.cache[e.id] = e, !.counts.updated = @ + 1]

KeysOf(entries) == {i \in Ids : entries[i] # Missing}

\* What the answer does not list any more goes.
Taken(entries, body) ==
    LET taken[n \in 0 .. Len(body)] ==
            IF n = 0 THEN [old |-> KeysOf(entries), cache |-> entries, counts |-> NoCounts]
            ELSE TakeEntry(taken[n - 1], body[n])
        all == taken[Len(body)]
    IN [cache |-> [i \in Ids |-> IF i \in all.old THEN Missing ELSE all.cache[i]],
        counts |-> [all.counts EXCEPT !.removed = Cardinality(all.old)]]

SourceAnswers(body) ==
    /\ targets > 0 /\ targets' = targets - 1
    /\ LET taken == Taken(cache, body)
       IN cache' = taken.cache /\ counts' = taken.counts
    /\ before' = cache /\ answer' = body
    /\ UNCHANGED <<sources, syncing, syncs>>

\* No answer, or none that is a registry: the next source is asked.
SourceFails ==
    /\ targets > 0 /\ targets' = targets - 1
    /\ UNCHANGED <<sources, syncing, cache, before, answer, counts, syncs>>

Init ==
    /\ sources = {} /\ targets = 0 /\ syncing = FALSE
    /\ cache = EmptyCache /\ before = EmptyCache
    /\ answer = <<>> /\ counts = NoCounts /\ syncs = 0

Next ==
    \/ \E s \in Sources : RemoveSource(s) \/ \E on \in BOOLEAN : AddSource(s, on)
    \/ Sync \/ Returns \/ SourceFails
    \/ \E body \in Answers : SourceAnswers(body)

Spec == Init /\ [][Next]_vars

-----------------------------------------------------------------------------
(* Properties. *)

LastFor(i) ==
    LET at == {k \in DOMAIN answer : answer[k].id = i}
    IN CHOOSE k \in at : \A l \in at : l <= k

\* The view lists what the source that answered last listed, each id in the version it
\* gave last, whatever was cached and however the answer repeats itself; what was left
\* out is told as an error, and of an answer without repetitions the counts are the
\* difference it made.
ListsTheAnswer ==
    /\ KeysOf(cache) = {answer[k].id : k \in {l \in DOMAIN answer : IsValid(answer[l])}}
    /\ \A i \in KeysOf(cache) :
         /\ cache[i].version = answer[LastFor(i)].version
         /\ cache[i] # answer[LastFor(i)] => cache[i].version = before[i].version
    /\ counts.errors = Cardinality({k \in DOMAIN answer : ~IsValid(answer[k])})
    /\ (\A k, l \in DOMAIN answer : k # l /\ IsValid(answer[k]) => answer[k].id # answer[l].id) =>
         /\ counts.new = Cardinality(KeysOf(cache) \ KeysOf(before))
         /\ counts.removed = Cardinality(KeysOf(before) \ KeysOf(cache))
         /\ counts.updated = Cardinality({i \in KeysOf(cache) \cap KeysOf(before) :
                                            cache[i].version # before[i].version})
=============================================================================
