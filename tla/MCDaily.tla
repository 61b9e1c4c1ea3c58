------------------------------- MODULE MCDaily -------------------------------
(***************************************************************************)
(* Small instances for TLC, side by side, of what works while sessions run: *)
(* ColdArchive, WorkQueues, DocRefresh, Experience, Search, Wiki and Imports  *)
(* share no variable, so a behaviour is one of one of them, which `part'      *)
(* names, and the variables of the others stay where they begin.             *)
(***************************************************************************)
EXTENDS ColdArchive, WorkQueues, DocRefresh, Experience, Search, Wiki, Imports, TLC

VARIABLE part
----------------------------------------------------------------------------
\* DocRefresh. A plan that is cut at five documents is out of reach of the
\* sources with three, so one has six.
At(d, t) == [path |-> d, at |-> t, changed |-> FALSE]
AtChanged(d, t) == [path |-> d, at |-> t, changed |-> TRUE]

MCSources ==
    {[session |-> {1}, checkpoints |-> <<At(2, 5), At(3, 4)>>, durable |-> <<AtChanged(2, 3), At(3, 2)>>,
      limit |-> 2, explicit |-> <<>>],
     [session |-> {}, checkpoints |-> <<>>, durable |-> <<>>, limit |-> 5, explicit |-> <<>>],
     [session |-> {1, 2, 3, 4, 5}, checkpoints |-> <<At(6, 1), At(6, 2)>>, durable |-> <<At(2, 3)>>,
      limit |-> 6, explicit |-> <<>>],
     [session |-> {1}, checkpoints |-> <<>>, durable |-> <<>>, limit |-> 5, explicit |-> <<4, 3>>]}
----------------------------------------------------------------------------
\* Search: three notes of different kinds, in every order, and the requests
\* that tell the channels apart. Lineages are those the writers keep: the root
\* has one live head.
MCNotes == 1..3

Row(project, layer, topic, root, shown, trusted, hits, score) ==
    [project |-> project, layer |-> layer, topic |-> topic, root |-> root, live |-> shown,
     trusted |-> trusted, hits |-> hits, score |-> score]

Sorts ==
    {Row(1, "verified_fact", 1, 0, TRUE, TRUE, {"fts"}, 80),
     Row(1, "verified_fact", 2, 0, TRUE, TRUE, {"exact", "prefix"}, 90),
     Row(1, "verified_fact", 1, 0, FALSE, TRUE, {"fts"}, 70),
     Row(2, "verified_fact", 1, 0, TRUE, TRUE, {"fts"}, 60),
     Row(1, "event_log", 0, 0, TRUE, FALSE, {"vector", "entity"}, 50),
     Row(1, "event_log", 0, 0, TRUE, TRUE, {}, 40),
     Row(1, "event_log", 0, 0, TRUE, TRUE, {"fts"}, 15),
     Row(1, "identity_schema", 3, 0, TRUE, TRUE, {"bigram"}, 90),
     Row(1, "procedure_schema", 3, 1, TRUE, TRUE, {"fts"}, 60)}

MCStores ==
    {s \in [MCNotes -> Sorts] :
        Cardinality({s[n] : n \in MCNotes}) = Cardinality(MCNotes)}

Edge(from, to, strength, project) ==
    [from |-> from, to |-> to, strength |-> strength, project |-> project]

MCGraphs ==
    {{Edge(1, 2, 10, 0), Edge(3, 2, 8, 0)},
     {Edge(1, 3, 9, 1), Edge(2, 1, 4, 0), Edge(2, 3, 7, 2)}}

Plain == [project |-> 1, cross |-> FALSE, layer |-> AnyLayer, constitution |-> FALSE, auto |-> TRUE,
          lexical |-> FALSE, words |-> TRUE, empty |-> FALSE, entity |-> FALSE, embeds |-> TRUE,
          min |-> 0, limit |-> 2]

MCRequests ==
    {Plain,
     [Plain EXCEPT !.words = FALSE, !.min = 50],
     [Plain EXCEPT !.entity = TRUE, !.embeds = FALSE],
     [Plain EXCEPT !.auto = FALSE, !.cross = TRUE, !.constitution = TRUE, !.limit = 3],
     [Plain EXCEPT !.auto = FALSE, !.lexical = TRUE, !.limit = 3]}
----------------------------------------------------------------------------
\* Wiki: two topics on one page, and a fact that quotes another's id line.
Words(k) == PageLine("text", k)
MCBodies == <<<<Words(1), Blank, Words(2)>>, <<Blank, Words(3)>>, <<Words(4), PageLine("id", 1), Words(5)>>,
              <<Words(6)>>>>
MCTopicOf == <<1, 1, 2, 3>>
MCPageOf == <<1, 2, 1>>
MCEdited == Words(0)

\* Imports: one document in two versions; exports with up to four turns in any roles,
\* trees with any parents, and directories with a file that is none.
MCSections == <<<<"x", "y">>, <<"x", "z">>>>
Roles == {User, Assistant, "tool"}
Files(formats, n) == UNION {[format : formats, turns : [1..k -> Roles], current : {0}, parent : {<<>>}] : k \in 0..n}
Chats == [format : {"chatgpt"}, turns : [1..3 -> Roles], current : {0, 2, 3, 9}, parent : [1..3 -> {0, 1, 2, 3}]]
Other == [format |-> "other", turns |-> <<>>, current |-> 0, parent |-> <<>>]
MCDirs == {<<e>> : e \in Files({"jsonl", "text"}, 4) \cup Chats}
          \cup {<<Other, e, f>> : e, f \in Files({"jsonl"}, 2)}
----------------------------------------------------------------------------
\* A component that is not at work rests in one of its initial states.
One(S) == CHOOSE x \in S : TRUE
QueueRests   == QueueInit /\ queue = "dream"
RefreshRests == RefreshInit /\ source = [j \in RefreshJobs |-> One(Sources)]
SearchRests  == /\ notes = One(Stores) /\ edges = One(Graphs) /\ request = One(Requests)
                /\ SearchInit
OthersRest   == WikiInit /\ ImportsInit

DailyInit ==
    \/ /\ part = "archive" /\ Init
       /\ QueueRests /\ RefreshRests /\ ExperienceInit /\ SearchRests /\ OthersRest
    \/ /\ part = "queues" /\ QueueInit
       /\ Init /\ RefreshRests /\ ExperienceInit /\ SearchRests /\ OthersRest
    \/ /\ part = "refresh" /\ RefreshInit
       /\ Init /\ QueueRests /\ ExperienceInit /\ SearchRests /\ OthersRest
    \/ /\ part = "experience" /\ ExperienceInit
       /\ Init /\ QueueRests /\ RefreshRests /\ SearchRests /\ OthersRest
    \/ /\ part = "search" /\ SearchInit
       /\ Init /\ QueueRests /\ RefreshRests /\ ExperienceInit /\ OthersRest
    \/ /\ part \in {"wiki", "imports"} /\ OthersRest
       /\ Init /\ QueueRests /\ RefreshRests /\ ExperienceInit /\ SearchRests

\* A bound: with the last signal, and while the hour passes, one process works at a time.
LastAlone ==
    calls' = MaxSignals \/ hour' # hour => Cardinality({p \in Procs : qpc'[p] # "idle"}) <= 1

\* A bound: documents and conversations are not imported at once.
ImportsApart == (miner = NoMiner /\ IngestNext) \/ (ingests = 0 /\ docEdits = 0 /\ MineNext)

DailyNext ==
    \/ /\ part = "archive" /\ Next
       /\ UNCHANGED <<part, queueVars, refreshVars, experienceVars, searchVars, wikiVars, importVars>>
    \/ /\ part = "queues" /\ QueueNext /\ LastAlone
       /\ UNCHANGED <<part, vars, refreshVars, experienceVars, searchVars, wikiVars, importVars>>
    \/ /\ part = "refresh" /\ RefreshNext
       /\ UNCHANGED <<part, vars, queueVars, experienceVars, searchVars, wikiVars, importVars>>
    \/ /\ part = "experience" /\ ExperienceNext
       /\ UNCHANGED <<part, vars, queueVars, refreshVars, searchVars, wikiVars, importVars>>
    \/ /\ part = "search" /\ SearchNext
       /\ UNCHANGED <<part, vars, queueVars, refreshVars, experienceVars, wikiVars, importVars>>
    \/ /\ part = "wiki" /\ WikiNext
       /\ UNCHANGED <<part, vars, queueVars, refreshVars, experienceVars, searchVars, importVars>>
    \/ /\ part = "imports" /\ ImportsApart
       /\ UNCHANGED <<part, vars, queueVars, refreshVars, experienceVars, searchVars, wikiVars>>

dailyVars == <<part, vars, queueVars, refreshVars, experienceVars, searchVars, wikiVars, importVars>>
DailySpec == DailyInit /\ [][DailyNext]_dailyVars

\* The processes of the queues are alike; those of Imports are, and have their names.
ProcSymmetry == Permutations(Procs)
----------------------------------------------------------------------------
\* Pages tell the facts they were made from and documents are taken in as they were
\* read: `ma wiki', `ma ingest' and `ma mine' (phase4.rs, convo_normalizer.rs).
PagesAndImportsAreFaithful ==
    /\ part = "wiki" => WikiIsFaithful
    /\ part = "imports" => ImportsAreFaithful
=============================================================================
