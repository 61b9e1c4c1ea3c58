----------------------------- MODULE Playbooks -----------------------------
(***************************************************************************)
(* `ma consolidate refresh-playbooks' (memra-server/src/cli/phase4.rs): the  *)
(* procedures that are compiled into the binary are saved as notes, each     *)
(* the next version of the head of its topic, which it retires together with  *)
(* the older notes it stands for; then the evidence files are written. Every   *)
(* statement commits by itself.                                            *)
(***************************************************************************)
EXTENDS Naturals, Sequences, FiniteSets

CONSTANTS
    Refreshers,   \* processes that run the command
    Curated,      \* the playbooks, in order: [topic, episodes, legacy]
    Facts,        \* facts the evidence may sample: [complete, filled]
    SampleSize,   \* notes of a layer in the evidence: 20
    MaxEditions,  \* bound: binaries whose playbooks read differently
    MaxRefreshRuns       \* bound: commands

ASSUME PlaybookAssumption ==
    /\ IsFiniteSet(Refreshers) /\ IsFiniteSet(Facts) /\ SampleSize \in Nat \ {0} /\ {MaxEditions, MaxRefreshRuns} \subseteq Nat
    /\ Len(Curated) \in Nat \ {0} /\ DOMAIN Curated = 1..Len(Curated)
    /\ \A i \in DOMAIN Curated : Curated[i].episodes \in Nat /\ Curated[i].topic # "legacy"
    /\ \A i, j \in DOMAIN Curated : Curated[i].topic = Curated[j].topic => i = j

VARIABLES
    book,         \* notes, in the order they were created
    related,      \* [note -> generalized_from relations it has]
    edition,      \* the text of the binary that is installed
    fpc,          \* [Refreshers -> stage]
    turn,         \* [Refreshers -> [at, text, head, created, left]] of the playbook in hand
    evidence,     \* [bundle, page, summary]: of which store each file tells
    refreshRuns,
    meddled       \* commands crossed, or one stopped before its end (history)

playbookVars == <<book, related, edition, fpc, turn, evidence, refreshRuns, meddled>>

NoNote == 0
PlaybookTopic(i) == Curated[i].topic
\* Episodes are found whether they are active or not.
Episodes(i) == Curated[i].episodes
NoTurn == [at |-> 0, text |-> 0, head |-> NoNote, created |-> NoNote, left |-> {}]
Live(n) == book[n].live

\* The notes that are there before the first run: those the playbooks stand for.
LegacyNotes == UNION {Curated[i].legacy : i \in DOMAIN Curated}
ASSUME LegacyAssumption == IsFiniteSet(LegacyNotes) /\ LegacyNotes = 1..Cardinality(LegacyNotes)
Legacy == [topic |-> "legacy", text |-> 0, version |-> 1, root |-> NoNote, live |-> TRUE, by |-> NoNote, episodes |-> 0]

Newer(m, n) == book[m].version > book[n].version \/ (book[m].version = book[n].version /\ m > n)
\* resolve_playbook_lineage_head
Heads(topic) == {n \in DOMAIN book : book[n].topic = topic /\ Live(n)}
Head1(topic) == IF Heads(topic) = {} THEN NoNote
                ELSE CHOOSE n \in Heads(topic) : \A m \in Heads(topic) \ {n} : Newer(n, m)
----------------------------------------------------------------------------
Crossing(p) == meddled \/ \E q \in Refreshers \ {p} : fpc[q] # "idle"

\* The text is that of the binary with which the process was started.
RefreshStarts(p) ==
    /\ fpc[p] = "idle" /\ refreshRuns < MaxRefreshRuns /\ refreshRuns' = refreshRuns + 1
    /\ fpc' = [fpc EXCEPT ![p] = "load"] /\ turn' = [turn EXCEPT ![p] = [NoTurn EXCEPT !.at = 1, !.text = edition]]
    /\ meddled' = Crossing(p) /\ UNCHANGED <<book, related, edition, evidence>>

\* On to the next playbook, and after the last to the evidence.
Onwards(p) ==
    IF turn[p].at < Len(Curated)
    THEN /\ fpc' = [fpc EXCEPT ![p] = "load"]
         /\ turn' = [turn EXCEPT ![p] = [NoTurn EXCEPT !.at = turn[p].at + 1, !.text = turn[p].text]]
    ELSE fpc' = [fpc EXCEPT ![p] = "bundle"] /\ turn' = [turn EXCEPT ![p] = NoTurn]
RestIs(p, stage) == fpc' = [fpc EXCEPT ![p] = stage]

\* A playbook with less than two episodes is skipped.
LoadPlaybook(p) ==
    LET i == turn[p].at
    IN  /\ fpc[p] = "load"
        /\ IF Episodes(i) < 2 THEN Onwards(p)
           ELSE RestIs(p, "save") /\ turn' = [turn EXCEPT ![p].head = Head1(PlaybookTopic(i))]
        /\ UNCHANGED <<book, related, edition, evidence, refreshRuns, meddled>>

\* What find_exact_duplicate finds: an active procedure that reads the same.
Same(topic, text) == {n \in Heads(topic) : book[n].text = text}

NextEdition(h) == IF h = NoNote THEN 1 ELSE book[h].version + 1
PlaybookRoot(h) == IF h = NoNote THEN NoNote ELSE IF book[h].root = NoNote THEN h ELSE book[h].root

\* playbook_procedure_metadata, and the lineage it is given.
Procedure(i, t) ==
    [topic |-> PlaybookTopic(i), text |-> t.text, version |-> NextEdition(t.head), root |-> PlaybookRoot(t.head),
     live |-> TRUE, by |-> NoNote, episodes |-> Episodes(i)]

\* add_memory saves the playbook as the head's next version, finds that it is
\* there already, or refuses it.
SavePlaybook(p) ==
    LET i == turn[p].at
        n == Len(book) + 1
        t == turn[p]
    IN  /\ fpc[p] = "save" /\ Same(PlaybookTopic(i), t.text) = {}
        /\ book' = Append(book, Procedure(i, t))
        /\ related' = Append(related, 0)
        /\ RestIs(p, "retire")
        /\ turn' = [turn EXCEPT ![p].created = n,
                       ![p].left = Curated[i].legacy \cup (IF t.head = NoNote THEN {} ELSE {t.head})]
        /\ UNCHANGED <<edition, evidence, refreshRuns, meddled>>

UpToDate(p) ==
    /\ fpc[p] = "save" /\ Same(PlaybookTopic(turn[p].at), turn[p].text) # {}
    /\ Onwards(p) /\ UNCHANGED <<book, related, edition, evidence, refreshRuns, meddled>>

CreateFails(p) ==
    /\ fpc[p] = "save" /\ Onwards(p)
    /\ meddled' = TRUE /\ UNCHANGED <<book, related, edition, evidence, refreshRuns>>

Transitions_OnlyHead(p, n) == n = turn[p].head
\* The previous head is retired whatever it is by now, a legacy note if it is active.
Transitions(p, n) == n = turn[p].head \/ Live(n)

\* mark_playbook_transition
RetireNext(p) ==
    LET left == turn[p].left
    IN  /\ fpc[p] = "retire" /\ left # {}
        /\ \E n \in left :
              /\ turn[p].head \in left => n = turn[p].head
              /\ book' = IF Transitions(p, n)
                         THEN [book EXCEPT ![n].live = FALSE, ![n].by = turn[p].created] ELSE book
              /\ turn' = [turn EXCEPT ![p].left = @ \ {n}]
        /\ UNCHANGED <<related, edition, fpc, evidence, refreshRuns, meddled>>

\* insert_note_relation, once for each episode.
Relate(p) ==
    LET n == turn[p].created
    IN  /\ fpc[p] = "retire" /\ turn[p].left = {}
        /\ IF related[n] < book[n].episodes
           THEN related' = [related EXCEPT ![n] = @ + 1] /\ UNCHANGED <<fpc, turn>>
           ELSE Onwards(p) /\ UNCHANGED related
        /\ UNCHANGED <<book, edition, evidence, refreshRuns, meddled>>

\* The process dies, or a statement fails, which ends the command.
RefreshStops(p) ==
    /\ fpc[p] # "idle" /\ RestIs(p, "idle") /\ turn' = [turn EXCEPT ![p] = NoTurn]
    /\ meddled' = TRUE /\ UNCHANGED <<book, related, edition, evidence, refreshRuns>>

Install(e) ==
    /\ e \in 1..MaxEditions /\ e # edition /\ edition' = e
    /\ UNCHANGED <<book, related, fpc, turn, evidence, refreshRuns, meddled>>
----------------------------------------------------------------------------
\* dogfood_sample_layer: the first SampleSize of each layer, among the facts those
\* that name where they come from. The newest procedures come first.
SampledProcedures ==
    LET procedures == {n \in DOMAIN book : Live(n) /\ book[n].episodes > 0}
    IN  {n \in procedures : Cardinality({m \in procedures : m > n}) < SampleSize}
SampledFacts == {f \in Facts : f.complete}

\* dogfood_reinterpretation_summary
Filled == {f \in SampledFacts : f.filled}
Bundle == [procedures |-> SampledProcedures,
           supported |-> {n \in SampledProcedures : book[n].episodes >= 3},
           unprovenanced |-> Cardinality(SampledFacts) - Cardinality(Filled)]

\* refresh_playbook_evidence: the bundle is read once and written to three files.
WriteBundle(p) ==
    /\ fpc[p] = "bundle" /\ evidence' = [evidence EXCEPT !.bundle = Bundle]
    /\ RestIs(p, "page") /\ UNCHANGED <<book, related, edition, turn, refreshRuns, meddled>>
WritePage(p) ==
    /\ fpc[p] = "page" /\ evidence' = [evidence EXCEPT !.page = evidence.bundle]
    /\ RestIs(p, "summary") /\ UNCHANGED <<book, related, edition, turn, refreshRuns, meddled>>
WriteSummary(p) ==
    /\ fpc[p] = "summary" /\ evidence' = [evidence EXCEPT !.summary = evidence.bundle]
    /\ RestIs(p, "idle") /\ UNCHANGED <<book, related, edition, turn, refreshRuns, meddled>>
----------------------------------------------------------------------------
NoEvidence == [procedures |-> {}, supported |-> {}, unprovenanced |-> 0]
PlaybookInit ==
    /\ book = [n \in LegacyNotes |-> Legacy] /\ related = [n \in LegacyNotes |-> 0]
    /\ edition = 1 /\ fpc = [p \in Refreshers |-> "idle"] /\ turn = [p \in Refreshers |-> NoTurn]
    /\ evidence = [bundle |-> NoEvidence, page |-> NoEvidence, summary |-> NoEvidence]
    /\ refreshRuns = 0 /\ meddled = FALSE

PlaybookNext ==
    \/ \E p \in Refreshers :
          \/ RefreshStarts(p) \/ LoadPlaybook(p) \/ SavePlaybook(p) \/ UpToDate(p) \/ CreateFails(p)
          \/ RetireNext(p) \/ Relate(p) \/ RefreshStops(p)
          \/ WriteBundle(p) \/ WritePage(p) \/ WriteSummary(p)
    \/ \E e \in 1..MaxEditions : Install(e)

PlaybookSpec == PlaybookInit /\ [][PlaybookNext]_playbookVars
----------------------------------------------------------------------------
PlaybookTypeOK ==
    /\ DOMAIN related = DOMAIN book
    /\ \A p \in Refreshers : fpc[p] \in {"idle", "load", "save", "retire", "bundle", "page", "summary"}

\* However commands cross and stop: a retired note names a note that was created
\* after it, so whoever follows the successors comes to one that is active, or to
\* the end of a lineage, never round in a circle.
SuccessorsLeadOn == \A n \in DOMAIN book : ~Live(n) => book[n].by > n

\* However commands cross and stop, every version of a lineage
\* names the same first note as its root, one of its own topic.
RootsAreFirst ==
    \A n \in DOMAIN book : book[n].root # NoNote =>
        book[book[n].root].root = NoNote /\ book[book[n].root].topic = book[n].topic

Idle == \A p \in Refreshers : fpc[p] = "idle"
\* Commands that run alone and to their end leave one head per playbook, the newest
\* of its lineage, linked to every episode, and none of the notes it stands for.
OneHeadEach ==
    Idle /\ ~meddled /\ refreshRuns > 0 =>
        \A i \in DOMAIN Curated : Curated[i].episodes >= 2 =>
            /\ Cardinality(Heads(PlaybookTopic(i))) = 1
            /\ \A n \in DOMAIN book : book[n].topic = PlaybookTopic(i) =>
                  /\ n # Head1(PlaybookTopic(i)) => book[n].version < book[Head1(PlaybookTopic(i))].version
                  /\ related[n] = book[n].episodes
            /\ \A n \in Curated[i].legacy : ~Live(n)

\* The same commands leave three files that tell of one store, the present one.
EvidenceIsOfOneStore ==
    Idle /\ ~meddled /\ refreshRuns > 0 =>
        /\ evidence.page = evidence.bundle /\ evidence.summary = evidence.bundle
        /\ evidence.bundle = Bundle
        /\ \A i \in DOMAIN Curated : Curated[i].episodes >= 3 /\ Cardinality(SampledProcedures) < SampleSize =>
              Heads(PlaybookTopic(i)) \subseteq evidence.summary.supported

\* What refreshing the playbooks leaves behind.
PlaybooksAreSound ==
    PlaybookTypeOK /\ SuccessorsLeadOn /\ RootsAreFirst /\ OneHeadEach /\ EvidenceIsOfOneStore
=============================================================================
