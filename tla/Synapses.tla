------------------------------ MODULE Synapses ------------------------------
(***************************************************************************)
(* The relations between notes and the nightly stages that write them       *)
(* (memra-server/src/cli/phase4.rs): `consolidate connect' links orphans,   *)
(* `consolidate synapse' strengthens notes recalled together, prunes weak   *)
(* links and bridges events to facts, and the activation trace strengthens  *)
(* notes activated together.                                                *)
(*                                                                         *)
(* A stage reads its agenda first and carries it out one autocommitted        *)
(* statement after the other, with no transaction and no lock against the   *)
(* server, which inserts and retires notes, links what it inserts and lets  *)
(* the outcomes users report move the strengths.  A stage may die anywhere. *)
(*                                                                         *)
(* Notes are numbered in the order of their ids.  Strengths and             *)
(* similarities are in percent.                                             *)
(***************************************************************************)
EXTENDS Naturals, Sequences, FiniteSets, SequencesExt

CONSTANTS
    Memory,        \* ids
    Layer,         \* [Note -> layer]
    Group,         \* [Note -> root, topic or id that groups versions]
    Born,          \* [Note -> Nat], rank of created_at
    Likeness,      \* [Note \X Note -> 0..100], cosine similarity
    Trusted,       \* notes of a user, of a checkpoint, or confirmed
    Stale,         \* notes not verified for 60 days
    Kinds,         \* relation types
    SameAt, CrossAt,            \* --same-threshold, --cross-threshold
    MaxPerNote, MaxLinks,       \* --max-links-per-note, --max-links
    MaxPairs, MaxPruned, MaxBridges,   \* limits of the synapse stage
    JointAt,       \* MIN_JOINT_ACTIVATION, in trace lines
    Old,           \* relations there may be before, functions
    Late,          \* notes the server may insert during the nights
    MaxRecalls, MaxOutcomes, MaxStages \* bounds of the instance

HebbianDelta == 10
PruneAt      == 20
BridgeAt     == 60
BridgeWith   == 30
InitialTrace == 30

Edge  == Memory \X Memory \X Kinds
Pair  == {p \in Memory \X Memory : p[1] < p[2]}
Plastic == Kinds \cap {"supports", "refines", "overlaps", "co_activated"}

ASSUME SynapseAssumption ==
    /\ Memory \subseteq Nat /\ IsFiniteSet(Memory)
    /\ Layer \in [Memory -> {"event_log", "verified_fact", "identity_schema"}]
    /\ Born \in [Memory -> Nat] /\ Likeness \in [Memory \X Memory -> 0..100]
    /\ Trusted \subseteq Memory /\ Late \subseteq Memory /\ Stale \subseteq Memory
    /\ {"supports", "co_activated"} \subseteq Kinds
    /\ \A r \in Old : DOMAIN r \subseteq Edge

VARIABLES
    rels,     \* note_relations: [subset of Edge -> strength]
    shown,    \* notes that are active
    coming,   \* notes not inserted yet
    linking,  \* the note inserted and not linked yet
    trace,    \* the pairs of notes that queries returned, in query_log and in
              \* the activation trace
    mark,     \* the watermark file: lines of the trace already used
    stage,    \* what the nightly run is doing
    agenda,   \* what it still has to write
    found,    \* the row it has read for the head of the agenda
    next,     \* the watermark it will save
    unmixed,  \* no one else wrote since the stage read its agenda (history)
    pulses,   \* strengthenings from the trace of each pair (history)
    died,     \* a trace stage died before it saved its watermark (history)
    outcomes, nights   \* counters

synapseVars == <<rels, shown, coming, linking, trace, mark, stage, agenda, found, next,
          unmixed, pulses, died, outcomes, nights>>

Stages == {"idle", "connect", "hebbian", "prune", "bridge", "trace"}
Absent == 101      \* no row

SynapseTypeOK ==
    /\ DOMAIN rels \subseteq Edge /\ \A e \in DOMAIN rels : rels[e] \in 0..100
    /\ shown \subseteq Memory /\ coming \subseteq Memory /\ shown \cap coming = {}
    /\ linking \subseteq Memory
    /\ trace \in Seq(Pair)
    /\ mark \in 0..Len(trace) /\ next \in 0..Len(trace)
    /\ pulses \in [Pair -> Nat]
    /\ stage \in Stages /\ found \in 0..Absent
    /\ stage = "idle" => agenda = <<>>

AtMost(a, b) == IF a < b THEN a ELSE b
\* One step of strengthening.
Boosted(s) == AtMost(s + HebbianDelta, 100)
Between(m, n) == {e \in DOMAIN rels : {e[1], e[2]} = {m, n}}
Linked(m, n) == Between(m, n) # {}
Put(e, s) == [x \in DOMAIN rels \cup {e} |-> IF x = e THEN s ELSE rels[x]]
\* INSERT OR IGNORE
InsertOrIgnore(e, s) == IF e \in DOMAIN rels THEN rels ELSE Put(e, s)
\* The first k of a set in an order.
Top(S, k, Before(_, _)) == {x \in S : Cardinality({y \in S : Before(y, x)}) < k}
Earlier(p, q) == p[1] < q[1] \/ (p[1] = q[1] /\ p[2] < q[2])
Times(seq, x) == Cardinality({i \in DOMAIN seq : seq[i] = x})
----------------------------------------------------------------------------
\* consolidate connect

\* load_connect_vectors: the newest readable note of each group.
Canonical ==
    LET readable == {n \in shown : Layer[n] # "identity_schema"}
    IN  {n \in readable : \A m \in readable : Group[m] = Group[n] => Born[m] <= Born[n]}

Orphans == {n \in Canonical : \A e \in DOMAIN rels : n \notin {e[1], e[2]}}

Nearer(o, c, d) ==
    \/ Likeness[<<o, c>>] > Likeness[<<o, d>>]
    \/ Likeness[<<o, c>>] = Likeness[<<o, d>>] /\ c < d

\* find_connect_links
LinksOf(o, cross) ==
    LET near == {c \in Canonical \ {o} :
                   /\ (Layer[c] = Layer[o]) # cross
                   /\ Likeness[<<o, c>>] >= IF cross THEN CrossAt ELSE SameAt}
    IN  {<<o, c>> : c \in Top(near, MaxPerNote, LAMBDA c, d : Nearer(o, c, d))}

Stronger(p, q) ==
    LET s == Likeness[p] t == Likeness[q] IN
    \/ s > t
    \/ s = t /\ p[1] < q[1]
    \/ s = t /\ p[1] = q[1] /\ Nearer(p[1], p[2], q[2])

Deduped_Ordered(P) == P
\* Of a pair proposed from both ends the first orphan's link stays.
Deduped(P) == {p \in P : <<p[2], p[1]>> \notin P \/ p[1] < p[2]}

\* process_connect_orphans.  All orphans fit in one --batch-size.
Proposed ==
    LET all == UNION {LinksOf(o, cross) : o \in Orphans, cross \in BOOLEAN}
    IN  Deduped(Top(all, MaxLinks, Stronger))

Begin(s, todo) ==
    /\ stage = "idle" /\ nights < MaxStages
    /\ stage' = s /\ agenda' = todo /\ found' = Absent /\ unmixed' = TRUE
    /\ nights' = nights + 1
    /\ UNCHANGED <<rels, shown, coming, linking, trace, mark, pulses, died, outcomes>>

StartConnect ==
    /\ Begin("connect", SetToSortSeq(Proposed, Stronger))
    /\ UNCHANGED next

\* Carries out the head of the agenda; the stage goes on to the next.
Done(r) ==
    /\ rels' = r /\ agenda' = Tail(agenda) /\ found' = Absent
    /\ pulses' = IF stage = "trace" THEN [pulses EXCEPT ![Head(agenda)] = @ + 1]
                 ELSE pulses
    /\ UNCHANGED <<shown, coming, linking, trace, mark, stage, next, unmixed, died,
                   outcomes, nights>>

WriteLink ==
    /\ stage = "connect" /\ agenda # <<>>
    /\ LET p == Head(agenda)
       IN  Done(InsertOrIgnore(<<p[1], p[2], "supports">>, Likeness[p]))
----------------------------------------------------------------------------
\* consolidate synapse

\* find_co_recalled_pairs
CoRecalled ==
    LET seen == {p \in Pair : Times(trace, p) >= 2 /\ {p[1], p[2]} \subseteq Trusted}
        Often(p, q) ==
          \/ Times(trace, p) > Times(trace, q)
          \/ /\ Times(trace, p) = Times(trace, q)
             /\ Earlier(p, q)
    IN  SetToSortSeq({[pair |-> p, count |-> Times(trace, p)] :
                        p \in Top(seen, MaxPairs, Often)},
                     LAMBDA x, y : Often(x.pair, y.pair))

StartHebbian == Begin("hebbian", CoRecalled) /\ UNCHANGED next

\* run_synapse_hebbian reads one row of the pair, of either direction and of
\* any type (LIMIT 1).
HebbianRead ==
    /\ stage = "hebbian" /\ agenda # <<>> /\ found = Absent
    /\ LET p == Head(agenda).pair
       IN  \E e \in Between(p[1], p[2]) : found' = rels[e]
    /\ UNCHANGED <<rels, shown, coming, linking, trace, mark, stage, agenda, next,
                   unmixed, pulses, died, outcomes, nights>>

\* One UPDATE gives every row of the pair the new strength.
HebbianStrengthen ==
    /\ stage = "hebbian" /\ agenda # <<>> /\ found # Absent
    /\ LET p == Head(agenda).pair
           s == Boosted(found)
       IN  Done(IF s > found
                THEN [e \in DOMAIN rels |->
                        IF e \in Between(p[1], p[2]) THEN s ELSE rels[e]]
                ELSE rels)

\* No row: a new one, when both notes are active.
HebbianCreate ==
    /\ stage = "hebbian" /\ agenda # <<>> /\ found = Absent
    /\ LET x == Head(agenda) IN
       /\ ~Linked(x.pair[1], x.pair[2])
       /\ Done(IF {x.pair[1], x.pair[2]} \subseteq shown
               THEN InsertOrIgnore(<<x.pair[1], x.pair[2], "supports">>,
                                   AtMost(30 + (x.count - 2) * 5, 100))
               ELSE rels)

\* run_synapse_pruning: weak relations, weakest first, of notes both stale;
\* only three times --max-pruned rows are looked at.
StartPruning ==
    LET weak == {e \in DOMAIN rels : rels[e] < PruneAt}
        Weaker(e, f) == rels[e] < rels[f] \/ (rels[e] = rels[f] /\ e[1] < f[1])
        idle == {e \in Top(weak, 3 * MaxPruned, Weaker) : {e[1], e[2]} \subseteq Stale}
    IN  Begin("prune", SetToSortSeq(Top(idle, MaxPruned, Weaker), Weaker))
        /\ UNCHANGED next

PruneLink ==
    /\ stage = "prune" /\ agenda # <<>>
    /\ Done([e \in DOMAIN rels \ {Head(agenda)} |-> rels[e]])

\* existing_pairs of run_synapse_bridging
Unlinked(e, f) == ~Linked(e, f)

\* run_synapse_bridging: each event with each fact, in the order of the rows,
\* which no ORDER BY fixes.
StartBridging ==
    LET In(layer) == {n \in shown : Layer[n] = layer}
        near == {p \in In("event_log") \X In("verified_fact") :
                   Unlinked(p[1], p[2]) /\ Likeness[p] >= BridgeAt}
    IN  \E S \in SUBSET near :
          /\ Cardinality(S) = AtMost(Cardinality(near), MaxBridges)
          /\ Begin("bridge", SetToSortSeq(S, Stronger))
          /\ UNCHANGED next

WriteBridge ==
    /\ stage = "bridge" /\ agenda # <<>>
    /\ Done(InsertOrIgnore(<<Head(agenda)[1], Head(agenda)[2], "supports">>, BridgeWith))
----------------------------------------------------------------------------
\* apply_runtime_activation_trace_hebbian

\* The line the reading starts after.
From == mark

StartTrace ==
    LET new == SubSeq(trace, From + 1, Len(trace))
        often == {p \in Pair : Times(new, p) >= JointAt}
        Order(p, q) == \/ Times(new, p) > Times(new, q)
                       \/ /\ Times(new, p) = Times(new, q)
                          /\ Earlier(p, q)
    IN  Begin("trace", SetToSortSeq(often, Order)) /\ next' = Len(trace)

CoActivated == LET p == Head(agenda) IN <<p[1], p[2], "co_activated">>

\* strengthen_note_relation: a SELECT, then an INSERT or an UPDATE.
TraceRead ==
    /\ stage = "trace" /\ agenda # <<>> /\ found = Absent
    /\ CoActivated \in DOMAIN rels /\ found' = rels[CoActivated]
    /\ UNCHANGED <<rels, shown, coming, linking, trace, mark, stage, agenda, next,
                   unmixed, pulses, died, outcomes, nights>>

TraceStrengthen ==
    /\ stage = "trace" /\ agenda # <<>> /\ found # Absent
    /\ Done(IF CoActivated \in DOMAIN rels
            THEN Put(CoActivated, Boosted(found)) ELSE rels)

TraceCreate ==
    /\ stage = "trace" /\ agenda # <<>> /\ found = Absent
    /\ CoActivated \notin DOMAIN rels
    /\ Done(Put(CoActivated, InitialTrace))

\* The watermark is saved after the last pair.
SaveWatermark ==
    /\ stage = "trace" /\ agenda = <<>>
    /\ mark' = next /\ stage' = "idle"
    /\ UNCHANGED <<rels, shown, coming, linking, trace, agenda, found, next, unmixed,
                   pulses, died, outcomes, nights>>

StageEnds ==
    /\ stage \in {"connect", "hebbian", "prune", "bridge"} /\ agenda = <<>>
    /\ stage' = "idle"
    /\ UNCHANGED <<rels, shown, coming, linking, trace, mark, agenda, found, next,
                   unmixed, pulses, died, outcomes, nights>>

\* The stage is killed or a statement fails; the run of the night goes on
\* with the next stage.
StageDies ==
    /\ stage # "idle"
    /\ stage' = "idle" /\ agenda' = <<>> /\ found' = Absent
    /\ died' = (died \/ stage = "trace")
    /\ UNCHANGED <<rels, shown, coming, linking, trace, mark, next, unmixed,
                   pulses, outcomes, nights>>
----------------------------------------------------------------------------
\* The server

Night == <<mark, stage, agenda, found, next, pulses, died, nights>>

Insert ==
    /\ \E n \in coming :
          coming' = coming \ {n} /\ shown' = shown \cup {n} /\ linking' = {n}
    /\ unmixed' = FALSE
    /\ UNCHANGED <<rels, trace, outcomes, Night>>

\* link_related, after the commit of add_memory: the new note to older ones.
\* Its few statements are taken as one.
LinkRelated ==
    /\ \E n \in linking :
          LET near == {m \in shown \ {n} : Likeness[<<n, m>>] \in 50..87}
              new == {<<n, m, "supports">> :
                        m \in Top(near, 3, LAMBDA c, d : Nearer(n, c, d))}
          IN  rels' = [e \in DOMAIN rels \cup new |->
                         IF e \in DOMAIN rels THEN rels[e] ELSE Likeness[<<e[1], e[2]>>]]
    /\ linking' = {} /\ unmixed' = FALSE
    /\ UNCHANGED <<shown, coming, trace, outcomes, Night>>

Retire ==
    /\ \E n \in shown : shown' = shown \ {n}
    /\ unmixed' = FALSE
    /\ UNCHANGED <<rels, coming, linking, trace, outcomes, Night>>

\* A search returns two notes and logs it; both were activated.
Recall ==
    /\ Len(trace) < MaxRecalls
    /\ \E p \in Pair :
          /\ {p[1], p[2]} \subseteq shown
          /\ trace' = Append(trace, p)
    /\ UNCHANGED <<rels, shown, coming, linking, unmixed, outcomes, Night>>

\* apply_hebbian_feedback on one strength
Moved(n, outcome, s) ==
    CASE outcome = "confirmed" -> IF n \in Trusted THEN AtMost(s + 5, 100) ELSE s
      [] outcome = "corrected" -> (s * 85) \div 100
      [] outcome = "outdated"  -> (s * 70) \div 100

ReportOutcome ==
    /\ outcomes < MaxOutcomes /\ outcomes' = outcomes + 1
    /\ \E n \in shown, o \in {"confirmed", "corrected", "outdated"} :
          rels' = [e \in DOMAIN rels |->
                     IF n \in {e[1], e[2]} /\ e[3] \in Plastic
                     THEN Moved(n, o, rels[e]) ELSE rels[e]]
    /\ unmixed' = FALSE
    /\ UNCHANGED <<shown, coming, linking, trace, Night>>
----------------------------------------------------------------------------
SynapseInit ==
    /\ rels \in Old /\ coming \in {{}, Late}
    /\ shown = Memory \ coming /\ linking = {}
    /\ \A e \in DOMAIN rels : {e[1], e[2]} \subseteq shown
    /\ trace = <<>> /\ mark = 0
    /\ stage = "idle" /\ agenda = <<>> /\ found = Absent /\ next = 0
    /\ pulses = [p \in Pair |-> 0]
    /\ unmixed = TRUE /\ died = FALSE /\ outcomes = 0 /\ nights = 0

SynapseNext ==
    \/ StartConnect \/ WriteLink
    \/ StartHebbian \/ HebbianRead \/ HebbianStrengthen \/ HebbianCreate
    \/ StartPruning \/ PruneLink \/ StartBridging \/ WriteBridge
    \/ StartTrace \/ TraceRead \/ TraceStrengthen \/ TraceCreate \/ SaveWatermark
    \/ StageEnds \/ StageDies
    \/ Insert \/ LinkRelated \/ Retire \/ Recall \/ ReportOutcome

SynapseSpec == SynapseInit /\ [][SynapseNext]_synapseVars
----------------------------------------------------------------------------
Supports(m, n) == <<m, n, "supports">>

\* An undisturbed stage never links a pair of notes the other way round when
\* they are linked already: the three linking stages and the two orders in
\* which a pair can be met agree on what an existing link is.
LinkedOnce ==
    [][\A m, n \in Memory :
          unmixed' /\ Supports(m, n) \in DOMAIN rels' \ DOMAIN rels
            => Supports(n, m) \notin DOMAIN rels]_synapseVars

\* An undisturbed stage links only notes that readers can see: recalls are
\* older than the stage and name notes retired since.
LinksJoinVisible ==
    [][unmixed' => \A e \in DOMAIN rels' \ DOMAIN rels :
                  stage # "trace" => {e[1], e[2]} \subseteq shown]_synapseVars

\* After an undisturbed connect that did not reach --max-links every
\* canonical note that has a near one of its layer is related to some note.
ConnectLeavesNoOrphan ==
    [][stage = "connect" /\ stage' = "idle" /\ agenda = <<>> /\ unmixed =>
          \A n \in Orphans, m \in Canonical :
              m # n /\ Layer[m] = Layer[n] => Likeness[<<n, m>>] < SameAt]_synapseVars

\* While no trace stage has died, every strengthening of a co-activated pair
\* is backed by JointAt lines of the trace of its own: no line counts twice.
CoActivationIsEarned ==
    ~died => \A p \in Pair : pulses[p] * JointAt <= Times(trace, p)

\* What the linking stages keep of the graph of notes, step by step: no pair
\* linked both ways, no edge to a note out of sight, no note left alone that
\* connect could have linked, no strength that recalls do not account for.
LinksAreEarned ==
    /\ LinkedOnce /\ LinksJoinVisible /\ ConnectLeavesNoOrphan
    /\ [][SynapseTypeOK' /\ CoActivationIsEarned']_synapseVars
=============================================================================
