------------------------------ MODULE Evolver ------------------------------
(***************************************************************************)
(* `consolidate dream evolve' (run_dream_evolver, memra-server/src/cli/      *)
(* phase4.rs): the outcomes reported on the memories that came of dreams      *)
(* move the weights the reflector's configuration file holds. Each run adds a *)
(* row to the log, then rewrites the file.                                   *)
(*                                                                         *)
(* Weights are in ten-thousandths and divisions round down; the code rounds   *)
(* to four places at the end.                                                *)
(***************************************************************************)
EXTENDS Integers, FiniteSets, FiniteSetsExt

CONSTANTS
    Promotions,    \* dream memories promoted in the period looked back on
    MaxEvolutions, MaxReviews    \* bounds of the instance

Unit   == 10000
Keys   == {"frequency", "consistency", "actionability"}
Least  == 1000
Most   == 5000
Target == 80
Slack  == 3        \* what the rounding down may cost
DefaultWeights == [k \in Keys |-> IF k = "frequency" THEN 3400 ELSE 3300]

ASSUME EvolverAssumption ==
    IsFiniteSet(Promotions) /\ {MaxEvolutions, MaxReviews} \subseteq Nat

VARIABLES
    metadata,    \* [Promotions -> what its memory's metadata count]
    config,      \* [weights, logId], or torn by a write that did not end
    logRows,     \* rows of dream_evolution_log
    evolution,   \* the run between its two writes, or NoEvolution
    evolutions, reviews          \* counters

evolverVars == <<metadata, config, logRows, evolution, evolutions, reviews>>

NoEvolution == [id |-> 0, weights |-> DefaultWeights, precision |-> -1]
Fresh == [success |-> 0, failure |-> 0, corrected |-> FALSE, outdated |-> FALSE]

EvolverTypeOK ==
    /\ metadata \in [Promotions -> [success : 0..MaxReviews, failure : 0..MaxReviews,
                                    corrected : BOOLEAN, outdated : BOOLEAN]]
    /\ config.weights \in [Keys -> 0..Unit] /\ config.logId \in 0..MaxEvolutions
    /\ config.torn \in BOOLEAN /\ logRows \subseteq 1..MaxEvolutions
    /\ evolution.id \in 0..MaxEvolutions /\ evolution.precision \in -1..100
----------------------------------------------------------------------------
\* classify_dream_feedback: what spoils a memory counts before what confirms it.
Feedback(m) ==
    IF m.outdated THEN "outdated"
    ELSE IF m.corrected \/ m.failure > 0 THEN "corrected"
    ELSE IF m.success > 0 THEN "confirmed" ELSE "unreviewed"

Told(f) == Cardinality({p \in Promotions : Feedback(metadata[p]) = f})
FeedbackCount == Told("confirmed") + Told("corrected") + Told("outdated")
\* -1 when nothing was reviewed.
Precision ==
    IF FeedbackCount = 0 THEN -1 ELSE (100 * Told("confirmed")) \div FeedbackCount

Total(w, S) == MapThenSumSet(LAMBDA k : w[k], S)
Clamp(x) == IF x < Least THEN Least ELSE IF x > Most THEN Most ELSE x

\* One round: the weights out of bounds are fixed at the bound, the others share
\* what is left.
Round(r) ==
    LET wrong == {k \in r.free : r.w[k] < Least \/ r.w[k] > Most}
        free  == r.free \ wrong
        w     == [k \in Keys |-> IF k \in wrong THEN Clamp(r.w[k]) ELSE r.w[k]]
        rest  == Unit - Total(w, Keys \ free)
        all   == Max({1, Total(w, free)})
    IN  IF wrong = {} THEN r
        ELSE [free |-> free,
              w |-> [k \in Keys |-> IF k \in free THEN (w[k] * rest) \div all ELSE w[k]]]

ToUnit(w) == [k \in Keys |-> (w[k] * Unit) \div Max({1, Total(w, Keys)})]

\* normalize_dream_weights
Normalized(weights) ==
    LET scaled == ToUnit([k \in Keys |-> Clamp(weights[k])])
    IN  ToUnit(Round(Round(Round([free |-> Keys, w |-> scaled]))).w)

\* adjust_dream_reflector_config, before it normalises: too little precision asks
\* for what recurs, enough of it lets more actionable candidates through.
Pushed(w, precision) ==
    LET gap == IF precision < Target THEN Target - precision ELSE precision - Target
        m   == Min({2000, gap * 20})
        By(x, change) == (x * (Unit + change)) \div Unit
    IN  IF precision < Target
        THEN [frequency     |-> By(w["frequency"], m \div 2),
              consistency   |-> By(w["consistency"], m),
              actionability |-> By(w["actionability"], -m)]
        ELSE [frequency     |-> By(w["frequency"], -(m \div 2)),
              consistency   |-> By(w["consistency"], -(m \div 2)),
              actionability |-> By(w["actionability"], m)]

\* load_dream_reflector_config: a file that cannot be read is the default.
LoadedWeights == IF config.torn THEN DefaultWeights ELSE config.weights
----------------------------------------------------------------------------
LogRow_OnlyIdle(id) == IF FeedbackCount = 0 THEN logRows \cup {id} ELSE logRows
\* The log, once the run has added its row.
LogRow(id) == logRows \cup {id}

\* The run reads the outcomes and adds its row to the log; without feedback it
\* leaves the file alone.
Evolve ==
    /\ evolution = NoEvolution /\ evolutions < MaxEvolutions
    /\ evolutions' = evolutions + 1
    /\ logRows' = LogRow(evolutions')
    /\ evolution' = IF Precision = -1 THEN NoEvolution
                    ELSE [id |-> evolutions', precision |-> Precision,
                          weights |-> Normalized(Pushed(LoadedWeights, Precision))]
    /\ UNCHANGED <<metadata, config, reviews>>

\* write_dream_reflector_config
WriteConfig ==
    /\ evolution # NoEvolution /\ evolution' = NoEvolution
    /\ config' = [weights |-> evolution.weights, logId |-> evolution.id, torn |-> FALSE]
    /\ UNCHANGED <<metadata, logRows, evolutions, reviews>>

\* The run dies before the write, or in it.
EvolverDies ==
    /\ evolution # NoEvolution /\ evolution' = NoEvolution
    /\ config' \in {config, [config EXCEPT !.torn = TRUE]}
    /\ UNCHANGED <<metadata, logRows, evolutions, reviews>>

\* An outcome is reported on the memory (WriteOrchestrator::report_outcome).
Review ==
    /\ reviews < MaxReviews /\ reviews' = reviews + 1
    /\ \E p \in Promotions :
         \E m \in {[metadata[p] EXCEPT !.success = @ + 1],
                   [metadata[p] EXCEPT !.failure = @ + 1, !.corrected = TRUE],
                   [metadata[p] EXCEPT !.outdated = TRUE]} :
           metadata' = [metadata EXCEPT ![p] = m]
    /\ UNCHANGED <<config, logRows, evolution, evolutions>>

EvolverInit ==
    /\ metadata = [p \in Promotions |-> Fresh]
    /\ config = [weights |-> DefaultWeights, logId |-> 0, torn |-> FALSE]
    /\ logRows = {} /\ evolution = NoEvolution /\ evolutions = 0 /\ reviews = 0

EvolverNext == Evolve \/ WriteConfig \/ EvolverDies \/ Review

EvolverSpec == EvolverInit /\ [][EvolverNext]_evolverVars
----------------------------------------------------------------------------
\* However often the same outcomes push them, the weights stay within their
\* bounds and share one unit: neither clamping nor scaling back undoes the other.
WeightsStayInBounds ==
    LET w == config.weights IN
    /\ \A k \in Keys : w[k] >= Least - Slack /\ w[k] <= Most + Slack
    /\ Total(w, Keys) >= Unit - Slack /\ Total(w, Keys) <= Unit

\* Below the target precision a run never makes the reflector more eager, and
\* above it never less, whatever the bounds and the shares do to the push.
PushGoesTheRightWay ==
    evolution # NoEvolution =>
        LET before == LoadedWeights["actionability"]  after == evolution.weights["actionability"]
        IN  IF evolution.precision < Target THEN after <= before + Slack
            ELSE after >= before - Slack

\* The file never names a run that the log does not hold, wherever a run died.
ConfigIsLogged == config.logId # 0 => config.logId \in logRows

\* What a night's evolution may do to the reflector's configuration.
EvolutionIsSound ==
    EvolverTypeOK /\ WeightsStayInBounds /\ PushGoesTheRightWay /\ ConfigIsLogged
=============================================================================
