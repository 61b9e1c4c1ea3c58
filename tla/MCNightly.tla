------------------------------ MODULE MCNightly ------------------------------
(***************************************************************************)
(* Small instances for TLC, side by side, of what consolidates memory:       *)
(* Lineage, Synapses, RuntimeConsolidation, DreamCandidates, Evolver, Upkeep  *)
(* and Playbooks share no variable, so a behaviour is one of one of them,     *)
(* which `part' names, and the variables of the others stay where they begin. *)
(***************************************************************************)
EXTENDS Lineage, Synapses, RuntimeConsolidation, DreamCandidates, Evolver, Upkeep, Playbooks, TLC

CONSTANTS ta, tb, tc, k1, w1, w2

\* The component at work; "insertions" is Synapses with a server that inserts
\* a note, and without reports of outcomes, to keep the two cases apart.
VARIABLE part
----------------------------------------------------------------------------
\* Lineage. tb lies between the two others: near to both, which are not near.
MCSim == [x \in Text \X Text |->
    CASE x[1] = x[2] -> 100
      [] {x[1], x[2]} = {ta, tb} -> 84
      [] {x[1], x[2]} = {tb, tc} -> 90
      [] OTHER -> 40]

Row(text, layer, topic, root, sure, stale) ==
    [present |-> TRUE, text |-> text, vec |-> TRUE, layer |-> layer,
     topic |-> topic, root |-> root, sure |-> sure, stale |-> stale,
     active |-> TRUE, state |-> "active", head |-> TRUE, version |-> 1, by |-> 0]
NoRow == [Row(ta, "event_log", None, None, 0, FALSE) EXCEPT !.present = FALSE,
             !.active = FALSE]

\* What the server inserts: a fact, of a topic, of a lineage.
NewRows == {Row(tb, "verified_fact", None, None, 2, FALSE),
            Row(ta, "verified_fact", k1, None, 1, FALSE),
            Row(tc, "verified_fact", None, 9, 1, FALSE)}
OldRows == {Row(t, "verified_fact", None, None, 1, TRUE) : t \in Text}
           \cup {Row(t, "verified_fact", None, 9, 1, TRUE) : t \in {ta, tc}}
           \cup {Row(tb, "verified_fact", k1, None, 1, TRUE),
                 Row(tc, "verified_fact", k1, None, 2, FALSE)}

OldEvent == Row(ta, "event_log", None, None, 1, TRUE)

\* Three facts of before, or two notes, with room for one to come.
Past == [Note -> OldRows]
        \cup {[past EXCEPT ![MaxNote] = NoRow] : past \in [Note -> OldRows \cup {OldEvent}]}
----------------------------------------------------------------------------
\* Synapses: two facts and an event.
MCLayer == [n \in Memory |-> IF n = 2 THEN "event_log" ELSE "verified_fact"]
MCGroup == [n \in Memory |-> n]
MCBorn  == [n \in Memory |-> 4 - n]
MCLikeness == [p \in Memory \X Memory |-> IF p[1] = p[2] THEN 100
                  ELSE IF 3 \in {p[1], p[2]} THEN 75 ELSE 60]
MCOld   == {[e \in {} |-> 0],
            [e \in {<<1, 2, "supports">>, <<1, 3, "supports">>} |->
                IF e[2] = 2 THEN 15 ELSE 95]}
----------------------------------------------------------------------------
\* RuntimeConsolidation: a and b are the same fact in other words.
MCClose == [p \in Phrase \X Phrase |-> IF p[1] = p[2] THEN 100
              ELSE IF p = <<"a", "b">> \/ p = <<"b", "a">> THEN 75 ELSE 20]
Event(t, root, topic, vec, ripe) ==
    [NoteAt("event_log", t, root, topic, 1, {}) EXCEPT !.vec = vec, !.ripe = ripe]
Fact(t) == [NoteAt("verified_fact", t, 0, 50, 1, {}) EXCEPT !.vec = TRUE]
\* Events that are ripe and a fact, or events that only make a procedure.
MCTables ==
    {<<Event("a", 1, 50, v, "old"), Event("b", 1, 50, TRUE, r), Fact("c")>> :
        <<v, r>> \in {<<TRUE, "old">>, <<FALSE, "recalled">>}}
    \cup {<<Event("a", 1, 50, TRUE, "no"), Event("b", 1, 50, TRUE, "no")>>}
MCArrivals == {Fact("b"), Event("e", 1, 40, FALSE, "no")}
MCFixtures == <<<<"c", "a">>, <<"c", "b">>, <<"c", "a">>>>
----------------------------------------------------------------------------
\* DreamCandidates: two candidates that say the same, and one of drift.
MCClaim == [c \in Cand |-> IF c = 3 THEN "q" ELSE "p"]
----------------------------------------------------------------------------
\* Upkeep: facts and events with every reason for a stage to touch them.
Common == [live |-> TRUE, state |-> "active", conf |-> 80, recall |-> 0, support |-> 0, layer |-> "verified_fact",
          group |-> 0, old |-> FALSE, gone |-> {}, marks |-> {}, captured |-> TRUE, confirmedBy |-> {},
          busy |-> FALSE, moved |-> 0, numbers |-> {}, says |-> {}, denies |-> {}]
MCBegins ==
    {<<[Common EXCEPT !.group = 1, !.recall = 10, !.support = 3, !.marks = {"imported"}, !.gone = {"dead"},
                     !.numbers = {1}, !.denies = {"x"}],
       [Common EXCEPT !.group = 2, !.layer = "event_log", !.old = TRUE, !.gone = {"drift"}, !.numbers = {2},
                     !.says = {"x"}, !.moved = 1],
       [Common EXCEPT !.group = 3, !.recall = 5, !.conf = 97, !.support = 3, !.captured = FALSE, !.moved = 1,
                     !.gone = {"dead", "drift"}, !.numbers = {3}, !.says = {"x"}]>>,
     <<[Common EXCEPT !.group = 1, !.recall = 4, !.layer = "event_log", !.old = TRUE],
       [Common EXCEPT !.group = 1, !.layer = "event_log", !.old = TRUE, !.numbers = {1}],
       [Common EXCEPT !.group = 1, !.recall = 12, !.layer = "identity_schema", !.gone = {"dead"}]>>}
MCResemblance == [s \in {{1, 2}, {1, 3}, {2, 3}} |-> IF 2 \in s THEN 85 ELSE 95]
----------------------------------------------------------------------------
\* Playbooks: with enough episodes, with few, and with a note of before.
MCCurated == <<[topic |-> "gate", episodes |-> 3, legacy |-> {1}], [topic |-> "hygiene", episodes |-> 2, legacy |-> {}],
               [topic |-> "fix", episodes |-> 1, legacy |-> {2}]>>
MCFacts == {[complete |-> TRUE, filled |-> TRUE], [complete |-> TRUE, filled |-> FALSE],
            [complete |-> FALSE, filled |-> TRUE]}
----------------------------------------------------------------------------
\* A component that is not at work rests in one of its initial states.
One(S) == CHOOSE x \in S : TRUE
LineageRests == Init /\ notes = One(Seeds)
SynapsesRest == SynapseInit /\ rels = One(Old) /\ coming = {}
RuntimeRests == RuntimeInit /\ stored = One(Tables)
UpkeepRests  == UpkeepInit /\ rows = One(Begins)

\* Bounds. Synapses: an outcome is not reported after the last recall.
OutcomesBefore == outcomes' > 0 => Len(trace') < MaxRecalls

\* Upkeep: reports are asked for before any stage has run. Of processes that are alike,
\* w1 begins.
ReportsAlone == report' # NoReport => stagesRun' = 0
KeeperFirst == stagesRun = 0 /\ stagesRun' = 1 => wpc'[w2] = "idle"

\* Playbooks: so does it here.
RefresherFirst == refreshRuns = 0 /\ refreshRuns' = 1 => fpc'[w2] = "idle"

NightlyInit ==
    \/ /\ part = "lineage" /\ Init
       /\ SynapsesRest /\ RuntimeRests /\ UpkeepRests /\ DreamInit /\ EvolverInit /\ PlaybookInit
    \/ /\ \/ part = "synapses" /\ SynapseInit /\ coming = {}
          \/ part = "insertions" /\ SynapseInit /\ coming # {}
       /\ LineageRests /\ RuntimeRests /\ UpkeepRests /\ DreamInit /\ EvolverInit /\ PlaybookInit
    \/ /\ part = "runtime" /\ RuntimeInit
       /\ LineageRests /\ SynapsesRest /\ UpkeepRests /\ DreamInit /\ EvolverInit /\ PlaybookInit
    \/ /\ part = "upkeep" /\ UpkeepInit
       /\ LineageRests /\ SynapsesRest /\ RuntimeRests /\ DreamInit /\ EvolverInit /\ PlaybookInit
    \/ /\ part \in {"dreams", "evolver", "playbooks"}
       /\ LineageRests /\ SynapsesRest /\ RuntimeRests /\ UpkeepRests /\ DreamInit /\ EvolverInit /\ PlaybookInit

NightlyNext ==
    \/ /\ part = "lineage" /\ Next
       /\ UNCHANGED <<part, synapseVars, runtimeVars, dreamVars, evolverVars, upkeepVars, playbookVars>>
    \/ /\ part \in {"synapses", "insertions"} /\ SynapseNext
       /\ part = "insertions" => outcomes' = 0
       /\ OutcomesBefore
       /\ UNCHANGED <<part, vars, runtimeVars, dreamVars, evolverVars, upkeepVars, playbookVars>>
    \/ /\ part = "runtime" /\ RuntimeNext
       /\ UNCHANGED <<part, vars, synapseVars, dreamVars, evolverVars, upkeepVars, playbookVars>>
    \/ /\ part = "dreams" /\ DreamNext
       /\ UNCHANGED <<part, vars, synapseVars, runtimeVars, evolverVars, upkeepVars, playbookVars>>
    \/ /\ part = "evolver" /\ EvolverNext
       /\ UNCHANGED <<part, vars, synapseVars, runtimeVars, dreamVars, upkeepVars, playbookVars>>
    \/ /\ part = "upkeep" /\ UpkeepNext /\ ReportsAlone /\ KeeperFirst
       /\ UNCHANGED <<part, vars, synapseVars, runtimeVars, dreamVars, evolverVars, playbookVars>>
    \/ /\ part = "playbooks" /\ PlaybookNext /\ RefresherFirst
       /\ UNCHANGED <<part, vars, synapseVars, runtimeVars, dreamVars, evolverVars, upkeepVars>>

nightlyVars == <<part, vars, synapseVars, runtimeVars, dreamVars, evolverVars, upkeepVars, playbookVars>>
NightlySpec == NightlyInit /\ [][NightlyNext]_nightlyVars
=============================================================================
