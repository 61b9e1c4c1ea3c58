------------------------ MODULE RuntimeConsolidation ------------------------
(***************************************************************************)
(* `consolidate runtime' and the model's check of `consolidate               *)
(* reality-check' (memra-server/src/cli/phase4.rs): old events become facts  *)
(* or are merged into one, groups of events become procedures, fixtures mark *)
(* contradictions, and a language model refreshes facts that went stale.     *)
(*                                                                         *)
(* A command reads its candidates once and works through them with one      *)
(* autocommitted statement after the other; only add_memory has a            *)
(* transaction.  mark_superseded, outside a transaction, hides the row, then *)
(* names its successor.  The server adds and retires notes all the while,    *)
(* and the command may die anywhere.                                         *)
(*                                                                         *)
(* The table is a sequence: a note's id is its place, 0 is no note.  Events, *)
(* facts and procedures are all notes of it.                                 *)
(***************************************************************************)
EXTENDS Naturals, Sequences, FiniteSets, SequencesExt, FiniteSetsExt

CONSTANTS
    Phrase,        \* contents
    Close,         \* [Text \X Text -> 0..100], cosine similarity of two contents
    Tables,        \* tables there may be before
    Drafts,        \* contents an extracted procedure or a refreshed fact may have
    Fixtures,      \* sequence of pairs of contents, older and newer
    Arrivals,      \* notes the server may insert
    MaxNotes, MaxRuns, MaxRetired     \* bounds of the instance

MergeAt     == 70      \* find_runtime_similar_fact
RetireAt    == 70      \* AUTO_SUPERSEDE_THRESHOLD
TwinAbove   == 88      \* DEDUP_SIMILARITY_THRESHOLD

Layers == {"event_log", "verified_fact", "procedure_schema"}
Ids    == 0..MaxNotes
NoteRow == [layer: Layers, text: Phrase, root: Ids, topic: Nat, ver: Nat,
            shown: BOOLEAN, heir: Ids, from: SUBSET Ids, vec: BOOLEAN,
            ripe: {"no", "old", "recalled"}]

ASSUME RuntimeAssumption ==
    /\ Close \in [Phrase \X Phrase -> 0..100]
    /\ \A t \in Phrase : Close[<<t, t>>] = 100
    /\ Tables \cup {<<a>> : a \in Arrivals} \subseteq Seq(NoteRow)
    /\ Drafts \subseteq Phrase /\ Fixtures \in Seq(Phrase \X Phrase)

VARIABLES
    stored,   \* the table
    clashes,  \* contradiction relations, <<newer, older>>
    counts,   \* contradict_count of each note
    step,     \* what the command does next
    queue,    \* events, or facts, still to be looked at
    groups,   \* groups of events still to be generalised
    pairs,    \* fixtures still to be applied
    old, new, \* the notes the command has at hand
    seen,     \* the metadata it read of `new'
    back,     \* the step after the two of mark_superseded
    quiet,    \* no one else wrote since the command started (history)
    cut,      \* a command has died (history)
    runs, retired   \* counters

runtimeVars == <<stored, clashes, counts, step, queue, groups, pairs, old, new,
                 seen, back, quiet, cut, runs, retired>>
table == <<stored, clashes, counts>>
hands == <<old, new, seen, back>>
lists == <<queue, groups, pairs>>
world == <<quiet, cut, runs, retired>>

Steps == {"idle", "events", "merge", "promote", "hide", "stamp", "groups",
          "head", "draft", "transition", "fixtures", "relate", "count",
          "facts", "refresh"}

RuntimeTypeOK ==
    /\ stored \in Seq(NoteRow) /\ Len(stored) <= MaxNotes
    /\ clashes \subseteq Ids \X Ids /\ counts \in [Ids -> Nat]
    /\ step \in Steps /\ back \in {"events", "facts"}
    /\ old \in 0..Len(stored) /\ new \in 0..Len(stored) /\ seen \subseteq Ids
    /\ queue \in Seq(DOMAIN stored)
    /\ \A g \in ToSet(groups) : g.eps \subseteq DOMAIN stored
    /\ step \in {"hide", "stamp", "transition", "relate", "count"} => 0 \notin {old, new}

InView(layer) == {i \in DOMAIN stored : stored[i].layer = layer /\ stored[i].shown}
Closeness(a, b) == Close[<<a.text, b.text>>]
Nearest(n, S) == {i \in S : \A j \in S : Closeness(n, stored[i]) >= Closeness(n, stored[j])}
NoteAt(layer, text, root, topic, ver, from) ==
    [layer |-> layer, text |-> text, root |-> root, topic |-> topic, ver |-> ver,
     shown |-> TRUE, heir |-> 0, from |-> from, vec |-> FALSE, ripe |-> "no"]
Hidden(rows, i, by) == [rows EXCEPT ![i].shown = FALSE, ![i].heir = by]

\* add_memory: what it answers, and the rows after it.  The embedding or the
\* policy may fail it.
Twins(n) ==
    {i \in InView(n.layer) :
        \/ stored[i].text = n.text
        \/ n.vec /\ stored[i].vec /\ Closeness(n, stored[i]) > TwinAbove}
Outdone(n) ==
    {i \in Nearest(n, {j \in InView(n.layer) : stored[j].vec}) :
        n.vec /\ Closeness(n, stored[i]) >= RetireAt}
AddMemory(row, ok, rows) ==
    \E v \in BOOLEAN :
      LET n == [row EXCEPT !.vec = v] IN
      \/ ok = FALSE /\ rows = stored
      \/ /\ ok = TRUE /\ Twins(n) = {} /\ Len(stored) < MaxNotes
         /\ IF Outdone(n) = {} THEN rows = Append(stored, n)
            ELSE \E i \in Outdone(n) :
                   rows = Append(Hidden(stored, i, Len(stored) + 1), n)
----------------------------------------------------------------------------
\* consolidate runtime

\* load_runtime_event_candidates
RipeEvents ==
    LET ripe(r) == {i \in InView("event_log") : stored[i].ripe = r}
    IN  IF ripe("recalled") # {} THEN ripe("recalled") ELSE ripe("old")

\* load_runtime_procedure_candidates: a group is named by the root of its
\* events, else by their topic; it carries the first topic of its rows, and
\* when that is NULL the root serves as topic.
RuntimeGroups ==
    LET key(i) == <<stored[i].root, IF stored[i].root = 0 THEN stored[i].topic ELSE 0>>
        eps(k) == {i \in InView("event_log") : key(i) = k}
        first(k) == Min({stored[i].topic : i \in eps(k)})
        topic(k) == IF first(k) = 0 THEN k[1] ELSE first(k)
    IN  {[key |-> k, eps |-> eps(k), topic |-> topic(k)] :
            k \in {key(i) : i \in InView("event_log")} \ {<<0, 0>>}}

StartRuntime ==
    /\ step = "idle" /\ runs < MaxRuns
    /\ step' = "events" /\ runs' = runs + 1 /\ quiet' = TRUE
    /\ queue' = SetToSortSeq(RipeEvents, LAMBDA i, j : i < j)
    /\ groups' = SetToSeq({g \in RuntimeGroups :
                             Cardinality({stored[i].text : i \in g.eps}) >= 2})
    /\ pairs' = Fixtures
    /\ UNCHANGED <<table, hands, cut, retired>>

\* find_runtime_similar_fact
Similar(e) ==
    {f \in InView("verified_fact") :
        stored[e].vec /\ stored[f].vec /\ Closeness(stored[e], stored[f]) >= MergeAt}

\* promote_runtime_event begins by looking for a fact to merge into.
LookForFact ==
    /\ step = "events" /\ queue # <<>>
    /\ LET e == Head(queue) IN
       /\ old' = e
       /\ IF Similar(e) = {} THEN step' = "promote" /\ UNCHANGED <<new, seen>>
          ELSE /\ step' = "merge"
               /\ \E f \in Nearest(stored[e], Similar(e)) :
                    new' = f /\ seen' = stored[f].from
    /\ back' = "events" /\ queue' = Tail(queue)
    /\ UNCHANGED <<table, groups, pairs, world>>

MergedFrom == seen \cup {old}

\* The fact's metadata is written back as it was read, with the event added.
Merge ==
    /\ step = "merge" /\ step' = "hide"
    /\ stored' = [stored EXCEPT ![new].from = MergedFrom]
    /\ UNCHANGED <<clashes, counts, lists, hands, world>>

\* A duplicate and what the policy refuses stay events.
AfterPromotion(ok) == IF ok THEN "hide" ELSE "events"

PromoteEvent ==
    /\ step = "promote"
    /\ LET e == stored[old]
           row == NoteAt("verified_fact", e.text, e.root, e.topic, 1, {old})
       IN  \E ok \in BOOLEAN :
             /\ AddMemory(row, ok, stored')
             /\ new' = IF ok THEN Len(stored') ELSE 0
             /\ step' = AfterPromotion(ok)
    /\ UNCHANGED <<clashes, counts, lists, old, seen, back, world>>

\* mark_superseded, statement by statement
HideRow ==
    /\ step = "hide" /\ step' = "stamp"
    /\ stored' = [stored EXCEPT ![old].shown = FALSE]
    /\ UNCHANGED <<clashes, counts, lists, hands, world>>

StampHeir ==
    /\ step = "stamp" /\ step' = back
    /\ stored' = [stored EXCEPT ![old].heir = new]
    /\ UNCHANGED <<clashes, counts, lists, hands, world>>

EventsEnd ==
    /\ step = "events" /\ queue = <<>> /\ step' = "groups"
    /\ UNCHANGED <<table, lists, hands, world>>

\* extract_runtime_procedure may find no procedure, after a long wait.
ExtractProcedure ==
    /\ step = "groups" /\ groups # <<>>
    /\ \/ step' = "head" /\ UNCHANGED groups
       \/ step' = "groups" /\ groups' = Tail(groups)
    /\ UNCHANGED <<table, queue, pairs, hands, world>>

Newest(S) == IF S = {} THEN 0 ELSE
    CHOOSE i \in S : \A j \in S :
        stored[i].ver > stored[j].ver \/ (stored[i].ver = stored[j].ver /\ i >= j)

\* resolve_runtime_procedure_lineage_head.  A procedure keeps the root of its
\* events apart from its own: `from' of the row names the events.
LineageHead(g) ==
    LET ofRoot == {i \in InView("procedure_schema") :
                     g.key[1] # 0 /\ \E e \in stored[i].from : stored[e].root = g.key[1]}
        ofTopic == {i \in InView("procedure_schema") : stored[i].topic = g.topic}
    IN  Newest(IF ofRoot # {} THEN ofRoot ELSE ofTopic)

ResolveHead ==
    /\ step = "head" /\ step' = "draft"
    /\ old' = LineageHead(Head(groups))
    /\ UNCHANGED <<table, lists, new, seen, back, world>>

RootOf(i) == IF stored[i].root # 0 THEN stored[i].root ELSE i

NextVersion_Same(i) == IF i = 0 THEN 1 ELSE stored[i].ver
NextVersion(i) == IF i = 0 THEN 1 ELSE stored[i].ver + 1

AddProcedure ==
    /\ step = "draft"
    /\ LET g == Head(groups) IN
       \E ok \in BOOLEAN, t \in Drafts :
         /\ AddMemory(NoteAt("procedure_schema", t, IF old = 0 THEN 0 ELSE RootOf(old),
                          g.topic, NextVersion(old), g.eps),
                      ok, stored')
         /\ new' = IF ok THEN Len(stored') ELSE 0
         /\ IF ok /\ old # 0 THEN step' = "transition" /\ UNCHANGED groups
            ELSE step' = "groups" /\ groups' = Tail(groups)
    /\ UNCHANGED <<clashes, counts, queue, pairs, old, seen, back, world>>

\* mark_playbook_transition is one UPDATE.  The generalized_from relations
\* repeat what the row's metadata says.
Transition ==
    /\ step = "transition" /\ step' = "groups"
    /\ stored' = Hidden(stored, old, new)
    /\ groups' = Tail(groups)
    /\ UNCHANGED <<clashes, counts, queue, pairs, hands, world>>

GroupsEnd ==
    /\ step = "groups" /\ groups = <<>> /\ step' = "fixtures"
    /\ UNCHANGED <<table, lists, hands, world>>

\* find_runtime_fixture_note
FixtureNote(t) == LET S == {i \in DOMAIN stored : stored[i].shown /\ stored[i].text = t}
                  IN  IF S = {} THEN 0 ELSE Max(S)

FindFixture ==
    /\ step = "fixtures" /\ pairs # <<>>
    /\ old' = FixtureNote(Head(pairs)[1]) /\ new' = FixtureNote(Head(pairs)[2])
    /\ step' = IF 0 \in {old', new'} \/ old' = new' THEN "fixtures" ELSE "relate"
    /\ pairs' = Tail(pairs)
    /\ UNCHANGED <<table, queue, groups, seen, back, world>>

\* upsert_note_relation_max
RelateFixture ==
    /\ step = "relate"
    /\ step' = IF <<new, old>> \in clashes THEN "fixtures" ELSE "count"
    /\ clashes' = clashes \cup {<<new, old>>}
    /\ UNCHANGED <<stored, counts, lists, hands, world>>

CountClash ==
    /\ step = "count" /\ step' = "fixtures"
    /\ counts' = [counts EXCEPT ![old] = @ + 1]
    /\ UNCHANGED <<stored, clashes, lists, hands, world>>

\* The activation trace and the metadata patches of the two deterministic
\* reality checks come last; neither touches what is modelled here.
RuntimeEnds ==
    /\ step = "fixtures" /\ pairs = <<>> /\ step' = "idle"
    /\ old' = 0 /\ new' = 0 /\ seen' = {}
    /\ UNCHANGED <<table, lists, back, world>>
----------------------------------------------------------------------------
\* reality-check --detection llm --apply

StartReality ==
    /\ step = "idle" /\ runs < MaxRuns
    /\ step' = "facts" /\ runs' = runs + 1 /\ quiet' = TRUE
    /\ queue' = SetToSortSeq(InView("verified_fact"), LAMBDA i, j : i < j)
    /\ UNCHANGED <<table, groups, pairs, hands, cut, retired>>

\* The model says CURRENT, is unsure, or fails; or it says OUTDATED and sends
\* new content.
AskModel ==
    /\ step = "facts" /\ queue # <<>> /\ queue' = Tail(queue)
    /\ \/ step' = "facts" /\ UNCHANGED <<old, back>>
       \/ step' = "refresh" /\ old' = Head(queue) /\ back' = "facts"
    /\ UNCHANGED <<table, groups, pairs, new, seen, world>>

\* apply_reality_llm_refresh inserts with no look at duplicates; the row has
\* no vector, no root and no topic.
RefreshFact ==
    /\ step = "refresh" /\ Len(stored) < MaxNotes
    /\ \E t \in Drafts :
          stored' = Append(stored, NoteAt("verified_fact", t, 0, 0, 0, {old}))
    /\ new' = Len(stored') /\ step' = "hide"
    /\ UNCHANGED <<clashes, counts, lists, old, seen, back, world>>

RealityEnds ==
    /\ step = "facts" /\ queue = <<>> /\ step' = "idle"
    /\ old' = 0 /\ new' = 0 /\ seen' = {}
    /\ UNCHANGED <<table, lists, back, world>>

RuntimeCrash ==
    /\ step # "idle" /\ step' = "idle" /\ cut' = TRUE
    /\ queue' = <<>> /\ groups' = <<>> /\ pairs' = <<>>
    /\ old' = 0 /\ new' = 0 /\ seen' = {}
    /\ UNCHANGED <<table, back, quiet, runs, retired>>
----------------------------------------------------------------------------
\* The server

ServerAdds ==
    /\ \E a \in Arrivals :
          /\ \A i \in DOMAIN stored : stored[i].text # a.text
          /\ \E ok \in {TRUE} : AddMemory(a, ok, stored')
    /\ quiet' = FALSE
    /\ UNCHANGED <<clashes, counts, step, lists, hands, cut, runs, retired>>

\* Expired, reported outdated, or rejected.
ServerRetires ==
    /\ retired < MaxRetired /\ retired' = retired + 1
    /\ \E i \in DOMAIN stored :
          stored[i].shown /\ stored' = [stored EXCEPT ![i].shown = FALSE]
    /\ quiet' = FALSE
    /\ UNCHANGED <<clashes, counts, step, lists, hands, cut, runs>>
----------------------------------------------------------------------------
RuntimeInit ==
    /\ stored \in Tables /\ clashes = {} /\ counts = [i \in Ids |-> 0]
    /\ step = "idle" /\ queue = <<>> /\ groups = <<>> /\ pairs = <<>>
    /\ old = 0 /\ new = 0 /\ seen = {} /\ back = "events"
    /\ quiet = TRUE /\ cut = FALSE /\ runs = 0 /\ retired = 0

RuntimeNext ==
    \/ StartRuntime \/ LookForFact \/ Merge \/ PromoteEvent
    \/ HideRow \/ StampHeir \/ EventsEnd
    \/ ExtractProcedure \/ ResolveHead \/ AddProcedure \/ Transition \/ GroupsEnd
    \/ FindFixture \/ RelateFixture \/ CountClash \/ RuntimeEnds
    \/ StartReality \/ AskModel \/ RefreshFact \/ RealityEnds
    \/ RuntimeCrash \/ ServerAdds \/ ServerRetires

RuntimeSpec == RuntimeInit /\ [][RuntimeNext]_runtimeVars
----------------------------------------------------------------------------
\* An event that the command has hidden, or whose successor it has named, is
\* among those its fact says it comes from: wherever a command died, what was
\* taken out of sight can be found again from what replaced it.
NothingIsLost ==
    /\ \A i \in DOMAIN stored :
          stored[i].layer = "event_log" /\ stored[i].heir # 0
            => i \in stored[stored[i].heir].from
    /\ step = "stamp" => old \in stored[new].from

\* However often a command dies between the insert and the mark, an event is
\* never the source of two readable facts promoted from it.
PromotedOnce ==
    \A f, g \in InView("verified_fact"), e \in DOMAIN stored :
        /\ stored[e].layer = "event_log" /\ e \in stored[f].from \cap stored[g].from
        /\ stored[f].text = stored[e].text /\ stored[g].text = stored[e].text
        => f = g

\* While no command has died, the procedures of one root of events have one
\* readable version, across topics that change and contents that are alike.
OneProcedureHead ==
    ~cut /\ step \in {"idle", "groups"} =>
        \A p, q \in InView("procedure_schema") :
            (\E d \in stored[p].from, e \in stored[q].from :
                stored[d].root # 0 /\ stored[d].root = stored[e].root) => p = q

\* Even when commands die, no two procedures of a lineage have one version.
VersionsAreUnique ==
    \A p, q \in {i \in DOMAIN stored : stored[i].layer = "procedure_schema"} :
        RootOf(p) = RootOf(q) /\ stored[p].ver = stored[q].ver => p = q

\* contradict_count is the number of contradictions of the note, however
\* often the fixtures are applied; a command that dies may miss one and never
\* counts one twice.
ClashesAreCounted ==
    \A i \in DOMAIN stored :
        LET n == Cardinality({c \in clashes : c[2] = i})
        IN  /\ counts[i] <= n
            /\ ~cut /\ step # "count" => counts[i] = n

\* A note that has a successor keeps it, unless the server wrote meanwhile.
SuccessorsStay ==
    [][\A i \in DOMAIN stored :
          quiet' /\ stored[i].heir # 0 => stored'[i].heir = stored[i].heir]_runtimeVars

\* What promotion keeps through deaths and a server that adds and retires:
\* every event to be found from its fact, one fact of an event, one procedure
\* of a root, one version of a number, and the true count of contradictions.
PromotionsAreSound ==
    /\ SuccessorsStay
    /\ [][/\ RuntimeTypeOK' /\ NothingIsLost' /\ PromotedOnce'
          /\ OneProcedureHead' /\ VersionsAreUnique' /\ ClashesAreCounted']_runtimeVars
=============================================================================
