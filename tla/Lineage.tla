------------------------------ MODULE Lineage ------------------------------
(***************************************************************************)
(* The nightly maintenance of a project's notes (memra-server/src/cli/      *)
(* phase4.rs): `consolidate strengthen-prune' deprecates old notes nobody   *)
(* recalls, `consolidate chain' gathers versions of one memory into a       *)
(* lineage (root_id, version, is_head) and keeps the newest.                *)
(*                                                                         *)
(* The commands open the database of a running server and use no            *)
(* transaction: what to do is read first, and every UPDATE then commits by  *)
(* itself.  Between any two of them the server inserts, supersedes or       *)
(* expires notes, and the command may die.                                  *)
(*                                                                         *)
(* Notes are numbered by (created_at, id).                                  *)
(***************************************************************************)
EXTENDS Naturals, FiniteSets, FiniteSetsExt

CONSTANTS
    Text,      \* contents
    Sim,       \* [Text \X Text -> 0..100], cosine similarity in percent
    Topic,     \* topic keys
    Given,     \* roots that a writer supplied, not the id of a note
    MaxNote,   \* bound on the notes ever inserted
    MaxChains, \* --max-chains
    Rows,      \* rows the server may insert
    Seeds      \* note tables the database may start with

Note == 1..MaxNote
None == 0      \* no note, no root, no topic

\* --threshold of chain, and the fixed one of its last phase, in percent.
ChainAt     == 82
SupersedeAt == 85

NoteRec ==
    [present : BOOLEAN, text : Text, vec : BOOLEAN,
     layer : {"event_log", "verified_fact"},
     topic : Topic \cup {None}, root : Note \cup Given \cup {None},
     sure : 0..2,                \* confidence; 2 is 0.8 and above
     stale : BOOLEAN,            \* older than 180 days and never recalled
     active : BOOLEAN, state : {"active", "superseded", "deprecated"},
     head : BOOLEAN, version : Nat, by : 0..MaxNote]
Chain == [ids : SUBSET Note, root : Note \cup Given]
Phases == {"idle", "prune", "A", "B", "C", "done"}

ASSUME LineageAssumption ==
    /\ MaxNote \in Nat \ {0} /\ MaxChains \in Nat
    /\ Sim \in [Text \X Text -> 0..100]
    /\ Given \subseteq Nat /\ Given \cap 0..MaxNote = {} /\ None \notin Topic
    /\ Rows \subseteq NoteRec
    /\ Seeds \subseteq [Note -> NoteRec]

VARIABLES
    notes,  \* the committed table
    phase,  \* the stage of the nightly run
    plan,   \* id sets (A) or chains (B, C) or single notes (prune) to do
    chain,  \* the chain at work, or the empty one
    todo,   \* its rows not yet updated
    spent,  \* total_superseded of the phase
    calm    \* nobody wrote since the command began (history)

vars == <<notes, phase, plan, chain, todo, spent, calm>>

TypeOK ==
    /\ notes \in [Note -> NoteRec]
    /\ phase \in Phases
    /\ phase = "A" => plan \subseteq SUBSET Note
    /\ phase \in {"B", "C"} => plan \subseteq Chain
    /\ todo \subseteq (IF phase = "prune" THEN Note ELSE chain.ids)
    /\ spent \in 0..MaxNote /\ calm \in BOOLEAN

Visible == {n \in Note :
              notes[n].present /\ notes[n].active /\ notes[n].state = "active"}

\* COALESCE of root_id, topic_key and the note itself.
Key(n) == CASE notes[n].root  # None -> <<"root", notes[n].root>>
            [] notes[n].root = None /\ notes[n].topic # None
                                     -> <<"topic", notes[n].topic>>
            [] OTHER                 -> <<"id", n>>

\* note_has_active_lineage_siblings
Siblings(n) == {m \in Visible \ {n} : Key(m) = Key(n)}

----------------------------------------------------------------------------
\* The grouping of chain.

Alike(m, n, least) == Sim[<<notes[m].text, notes[n].text>>] >= least

Roots(S) == {notes[n].root : n \in S} \ {None}

\* canonical_chain_root_id over records in order newest first: the root of
\* the first that has one, else the id of the newest.
CanonicalRoot(S) ==
    LET rooted == {n \in S : notes[n].root # None}
    IN  IF rooted = {} THEN Max(S) ELSE notes[Max(rooted)].root

\* A newest note and those of `near' that can_extend_chain_with admits one
\* after the other: the first root met is the only one.
Cluster(n, near) ==
    LET root == CanonicalRoot({n} \cup near)
    IN  {n} \cup {m \in near : Roots({m}) \subseteq {root}}

Candidates(layer) == {n \in Visible : notes[n].vec /\ notes[n].layer = layer}

\* How many notes the clusters supersede.
Cost(clusters) == MapThenSumSet(LAMBDA S : Cardinality(S) - 1, clusters)

\* phase_b_vector_chains in one layer: from the newest note down, each takes
\* the older similar ones still free, while fewer than MaxChains notes are
\* superseded, `sofar' of them in the layer before.
VectorClusters(layer, sofar) ==
    LET free == {n \in Candidates(layer) : notes[n].topic = None}
        from[n \in 1..MaxNote + 1] ==      \* the clusters of notes >= n
          IF n > MaxNote THEN {}
          ELSE LET done == from[n + 1]
                   left == free \ UNION done
                   S == Cluster(n, {m \in left : m < n /\ Alike(m, n, ChainAt)})
               IN  IF n \in left /\ sofar + Cost(done) < MaxChains /\ Cardinality(S) > 1
                   THEN done \cup {S} ELSE done
    IN  from[1]

\* phase_c_auto_supersede in one layer: a note claims the older similar ones
\* it is more confident than.
ConfidentClusters(layer) ==
    LET from[n \in 1..MaxNote + 1] ==
          IF n > MaxNote THEN {}
          ELSE LET done == from[n + 1]
                   left == Candidates(layer) \ UNION done
                   S == Cluster(n, {m \in left :
                           /\ m < n /\ Alike(m, n, SupersedeAt)
                           /\ notes[n].sure > notes[m].sure})
               IN  IF n \in left /\ Cardinality(S) > 1 THEN done \cup {S} ELSE done
    IN  from[1]

Loaded(S) == [ids |-> S, root |-> CanonicalRoot(S)]
NoChain   == [ids |-> {}, root |-> None]
----------------------------------------------------------------------------
Init ==
    /\ notes \in Seeds
    /\ phase = "idle" /\ plan = {} /\ todo = {} /\ chain = NoChain
    /\ spent = 0 /\ calm = TRUE

\* consolidate_prune reads its candidates: the canonical note of its group,
\* alone in it, old, never recalled and not too sure.
StartPrune ==
    /\ phase \in {"idle", "done"}
    /\ phase' = "prune" /\ calm' = TRUE
    /\ todo' = {n \in Visible :
                  notes[n].stale /\ notes[n].sure < 2 /\ Siblings(n) = {}}
    /\ UNCHANGED <<notes, plan, chain, spent>>

\* One UPDATE by id, oldest first; it asks nothing of the row again.
Prune ==
    /\ phase = "prune" /\ todo # {}
    /\ notes' = [notes EXCEPT ![Min(todo)].state = "deprecated"]
    /\ todo' = todo \ {Min(todo)}
    /\ UNCHANGED <<phase, plan, chain, spent, calm>>

PruneEnds ==
    /\ phase = "prune" /\ todo = {}
    /\ phase' = "idle"
    /\ UNCHANGED <<notes, plan, chain, todo, spent, calm>>

\* GROUP BY in phase_a_topic_chains
GroupOf(n) == {m \in Visible : Key(m) = Key(n)}

\* phase_a_topic_chains: the ids of every group of two or more.
StartChain ==
    /\ phase \in {"idle", "done"}
    /\ phase' = "A" /\ calm' = TRUE
    /\ plan' = {S \in {GroupOf(n) : n \in Visible} : Cardinality(S) > 1}
    /\ UNCHANGED <<notes, chain, todo, spent>>

\* load_chain_records_by_ids, which takes the rows as they are by now.
LoadGroup ==
    /\ phase = "A" /\ todo = {}
    /\ \E S \in plan :
          /\ chain' = Loaded(S) /\ todo' = S /\ plan' = plan \ {S}
    /\ UNCHANGED <<notes, phase, spent, calm>>

InEvents(c) == \A n \in c.ids : notes[n].layer = "event_log"

\* The next chain of a vector phase, all of whose rows were read at its
\* start; the last phase takes layer by layer and stops at MaxChains.
NextChain ==
    /\ phase \in {"B", "C"} /\ todo = {}
    /\ phase = "C" => spent < MaxChains
    /\ \E c \in plan :
          /\ \A d \in plan : InEvents(d) => InEvents(c)
          /\ chain' = c /\ todo' = c.ids /\ plan' = plan \ {c}
          /\ spent' = spent + Cardinality(c.ids) - 1
    /\ UNCHANGED <<notes, phase, calm>>

HeadOf_Oldest(S) == Min(S)
HeadOf(S) == Max(S)

Revised_Reactivated(row, root, version) ==
    [row EXCEPT !.root = root, !.version = version, !.head = TRUE,
                !.state = "active", !.active = TRUE]

\* The UPDATE of the head: it keeps is_active as it is.
Revised(row, root, version) ==
    [row EXCEPT !.root = root, !.version = version, !.head = TRUE,
                !.state = "active"]

\* apply_chain_update, one row: UPDATE by id, oldest first, the head last.
Link ==
    LET n == IF todo = {HeadOf(chain.ids)} THEN HeadOf(chain.ids)
             ELSE Min(todo \ {HeadOf(chain.ids)})
        version == Cardinality({m \in chain.ids : m <= n})
    IN  /\ phase \in {"A", "B", "C"} /\ todo # {}
        /\ notes' = [notes EXCEPT ![n] =
              IF n = HeadOf(chain.ids) THEN Revised(@, chain.root, version)
              ELSE [@ EXCEPT !.root = chain.root, !.version = version,
                             !.state = "superseded", !.head = FALSE,
                             !.by = HeadOf(chain.ids)]]
        /\ todo' = todo \ {n}
        /\ UNCHANGED <<phase, plan, chain, spent, calm>>

Enter(next, sets) ==
    /\ phase' = next /\ spent' = 0 /\ chain' = NoChain
    /\ plan' = {Loaded(S) : S \in sets}
    /\ UNCHANGED <<notes, todo, calm>>

AEnds ==
    /\ phase = "A" /\ plan = {} /\ todo = {}
    /\ LET events == VectorClusters("event_log", 0)
       IN  Enter("B", events \cup VectorClusters("verified_fact", Cost(events)))

BEnds ==
    /\ phase = "B" /\ plan = {} /\ todo = {}
    /\ Enter("C", ConfidentClusters("event_log") \cup ConfidentClusters("verified_fact"))

CEnds ==
    /\ phase = "C" /\ (plan = {} \/ spent >= MaxChains) /\ todo = {}
    /\ Enter("done", {})

\* The command dies, or an UPDATE fails and the error ends it.
Crash ==
    /\ phase \in {"prune", "A", "B", "C"}
    /\ phase' = "idle" /\ plan' = {} /\ todo' = {} /\ chain' = NoChain
    /\ spent' = 0
    /\ UNCHANGED <<notes, calm>>

\* The server's add_memory: the new row and, in its transaction, the note it
\* supersedes, whose topic it takes over when it has none of its own.
Add ==
    \E n \in Note, row \in Rows, old \in Visible \cup {None} :
        /\ ~notes[n].present /\ \A m \in Note : m < n => notes[m].present
        /\ notes' = [m \in Note |->
              CASE m = n -> [row EXCEPT !.topic =
                      IF @ = None /\ old # None THEN notes[old].topic ELSE @]
                [] m = old -> [notes[m] EXCEPT !.active = FALSE, !.head = FALSE,
                                 !.state = "superseded", !.by = n]
                [] OTHER -> notes[m]]
        /\ calm' = FALSE
        /\ UNCHANGED <<phase, plan, chain, todo, spent>>

\* `consolidate candidate-ttl' and the other writers of is_active = 0.
Expire ==
    \E n \in Visible :
        /\ notes' = [notes EXCEPT ![n].active = FALSE]
        /\ calm' = FALSE
        /\ UNCHANGED <<phase, plan, chain, todo, spent>>

Next ==
    \/ StartPrune \/ Prune \/ PruneEnds
    \/ StartChain \/ LoadGroup \/ NextChain \/ Link \/ AEnds \/ BEnds \/ CEnds
    \/ Crash \/ Add \/ Expire

Spec == Init /\ [][Next]_vars

----------------------------------------------------------------------------
\* A note that was superseded, deprecated or expired never comes back to the
\* reads, although the head of a chain is set 'active' without a look at what
\* became of it since it was read.
RetiredStaysHidden ==
    [][\A n \in Note : notes[n].present /\ n \notin Visible => n \notin Visible']_vars

\* A lineage is never renamed or merged into another: once a note has a root
\* it keeps it, through interrupted commands and later runs.
RootIsForever ==
    [][\A n \in Note : notes[n].root # None => notes'[n].root = notes[n].root]_vars

\* What replaces a note is newer than it, so successors never run in a circle.
HeirsAreNewer ==
    \A n \in Note : notes[n].state = "superseded" => notes[n].by > n

\* After an undisturbed run of chain one visible note speaks for each root
\* and each rootless topic, whatever earlier runs left half done.
OneVoicePerLineage ==
    phase = "done" /\ calm =>
        \A m, n \in Visible : Key(m) = Key(n) => m = n

\* And of similar notes without a topic only those of lineages that were
\* distinct before are still apart.
AlikeAreOne ==
    phase = "done" /\ calm =>
        \A m, n \in Visible :
            /\ notes[m].layer = notes[n].layer /\ notes[m].vec /\ notes[n].vec
            /\ notes[m].topic = None /\ notes[n].topic = None
            /\ Alike(m, n, ChainAt) /\ m # n
            => Cardinality(Roots({m, n})) = 2

\* An undisturbed prune deprecates no note whose lineage has another one.
PruneSparesLineages ==
    [][\A n \in Visible :
          calm /\ notes'[n].state = "deprecated" =>
              \A m \in Visible : Key(m) = Key(n) => m = n]_vars

\* What a night of prune and chain that nobody disturbed leaves behind: every
\* lineage, and every set of like notes, speaks with its newest voice alone.
NightGathers == TypeOK /\ HeirsAreNewer /\ OneVoicePerLineage /\ AlikeAreOne

\* What no step of a night may do, however the server or a crash interferes:
\* bring a retired note back, rename a lineage, or silence one that has others.
NightKeepsLineages == RetiredStaysHidden /\ RootIsForever /\ PruneSparesLineages
=============================================================================
