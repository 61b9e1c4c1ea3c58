------------------------------- MODULE Upkeep -------------------------------
(***************************************************************************)
(* What marks notes without rewriting them (memra-server/src/cli/phase4.rs): *)
(* the strengthen, accuracy and reality-check stages of a consolidation, the *)
(* confirmation of captured notes, and the single writes of `ma batch-write'. *)
(* A stage reads its candidates once, then updates them statement by          *)
(* statement, outside a transaction, while others write the same rows.       *)
(***************************************************************************)
EXTENDS Integers, Sequences, FiniteSets

LOCAL INSTANCE SequencesExt

CONSTANTS
    Keepers,     \* processes of the command line
    Kept,        \* notes: numbers, the newest last
    Begins,      \* the stores to begin with: [Kept -> row]
    Resemblance,     \* [{a, b} -> hundredths]: how alike two notes are
    Bulk,        \* notes of one minute that count as an import: 5
    MaxPerPhase, \* --max-per-phase
    MaxKept,   \* bound: commands
    MaxReported  \* bound: reportsMade reported, rows updated by hand

ASSUME UpkeepAssumption ==
    /\ IsFiniteSet(Keepers) /\ Kept \subseteq Nat /\ IsFiniteSet(Kept)
    /\ {Bulk, MaxKept, MaxReported} \subseteq Nat /\ MaxPerPhase \in Nat \ {0}

VARIABLES
    rows,        \* [Kept -> the columns that are marked or that decide]
    events,      \* <<note, kind>> of note_events
    wpc,         \* [Keepers -> stage]
    remaining,        \* [Keepers -> candidates still to be updated, as they were read]
    report,      \* what the last detection without a write reported
    stagesRun, reportsMade,
    overtaken,   \* [Keepers -> notes whose row another wrote since it was read] (history)
    stamped,     \* [Keepers -> notes its batch has confirmed, by its own count] (history)
    byHand,      \* notes whose row `update-note' set (history)
    cutShort     \* a command died (history)

upkeepVars == <<rows, events, wpc, remaining, report, stagesRun, reportsMade, overtaken, stamped, byHand, cutShort>>

\* live: is_active; state: evolution_state; conf: hundredths; marks: keys of the
\* metadata; group: its root, topic or own id; old: older than 180 days; gone: the
\* stages that find half of its references missing; numbers, says, denies: its
\* content; moved: the minute it was imported at, or 0; busy: written,
\* verified or mentioned in an event within 60 days.
Active(n) == rows[n].live /\ rows[n].state = "active"
Greater(x, y) == IF x > y THEN x ELSE y
Lesser(x, y) == IF x < y THEN x ELSE y
NoReport == [kind |-> "none", pairs |-> <<>>, notes |-> {}]
Confirmed(n) == rows[n].confirmedBy # {}

\* canonical_active_note_ids: the newest of every lineage.
FirstOfGroup(n) == Active(n) /\ \A m \in Kept : Active(m) /\ rows[m].group = rows[n].group => m <= n

LiftedByRecall(r) == IF r.recall >= 5 /\ r.conf < 95 THEN 95 ELSE r.conf
Strengthened(r) == IF r.support >= 3 THEN Greater(LiftedByRecall(r), Lesser(LiftedByRecall(r) + 5, 99)) ELSE LiftedByRecall(r)
MarkCore(r) == r.recall >= 10 /\ "core_memory" \notin r.marks

\* At most MaxPerPhase of the candidates, ordered.
Foremost(S, Before(_, _)) ==
    LET all == SetToSortSeq(S, Before)
    IN  SubSeq(all, 1, Lesser(Len(all), MaxPerPhase))
----------------------------------------------------------------------------
Read(n) == [id |-> n, conf |-> Strengthened(rows[n]), core |-> MarkCore(rows[n]), marks |-> rows[n].marks]

StageBegins(p, stage, found) ==
    /\ wpc[p] = "idle" /\ stagesRun < MaxKept /\ stagesRun' = stagesRun + 1
    /\ found # <<>> /\ wpc' = [wpc EXCEPT ![p] = stage]
    /\ remaining' = [remaining EXCEPT ![p] = [i \in DOMAIN found |-> Read(found[i])]]
    /\ overtaken' = [overtaken EXCEPT ![p] = {}] /\ stamped' = [stamped EXCEPT ![p] = {}]
    /\ UNCHANGED <<rows, events, report, reportsMade, byHand, cutShort>>

\* consolidate_strengthen: what has been recalled and has something to change.
Strengthen(p) ==
    LET found == {n \in Kept : /\ FirstOfGroup(n) /\ rows[n].recall > 0 /\ rows[n].layer # "identity_schema"
                               /\ Strengthened(rows[n]) # rows[n].conf \/ MarkCore(rows[n])}
    IN  StageBegins(p, "strengthen", Foremost(found, LAMBDA m, n :
            \/ rows[m].recall > rows[n].recall
            \/ rows[m].recall = rows[n].recall /\ m < n))

\* detect_accuracy_stale_events: the oldest events nobody has recalled.
LongStale(r) == r.layer = "event_log" /\ r.recall = 0 /\ r.conf < 85 /\ r.old
StaleEvents(p) ==
    StageBegins(p, "stale", Foremost({n \in Kept : Active(n) /\ LongStale(rows[n])}, LAMBDA m, n : m < n))

\* detect_reality_dead_paths, detect_reality_codebase_drift: half of the paths, of
\* the code references, of a note are missing. A note that is marked is marked again.
RealityCheck(p, stage) ==
    LET found == {n \in Kept : Active(n) /\ rows[n].layer # "identity_schema" /\ stage \in rows[n].gone}
    IN  StageBegins(p, stage, Foremost(found, LAMBDA m, n :
            \/ rows[m].conf > rows[n].conf
            \/ rows[m].conf = rows[n].conf /\ m > n))

\* confirm_batch_for_cli, up to its prompt: the newest first, and all of them.
ConfirmBatch(p) ==
    LET found == {n \in Kept : rows[n].captured /\ rows[n].live /\ ~Confirmed(n)}
    IN  StageBegins(p, "prompt", SetToSortSeq(found, LAMBDA m, n : m > n))
----------------------------------------------------------------------------
\* Note n is written by p: all others who have read it have now read an old row.
Writes(p, n, r) ==
    /\ rows' = [rows EXCEPT ![n] = r]
    /\ overtaken' = [q \in Keepers |-> overtaken[q] \cup (IF q = p \/ r = rows[n] THEN {} ELSE {n})]

\* A statement of p on the row of its first candidate, after which next is due.
Statement(p, next, r) ==
    /\ wpc' = [wpc EXCEPT ![p] = next] /\ Writes(p, Head(remaining[p]).id, r)
    /\ UNCHANGED <<events, remaining, report, stagesRun, reportsMade, stamped, byHand, cutShort>>

\* The row that was read decides, whatever the row is by now.
SetConfidence(p) ==
    LET c == Head(remaining[p])
    IN  /\ wpc[p] = "strengthen"
        /\ Statement(p, IF c.core THEN "core" ELSE "log strengthen",
                     [rows[c.id] EXCEPT !.conf = c.conf, !.busy = TRUE])

CoreMarks_Only(c) == {"core_memory"}
\* The whole of the metadata is written back.
CoreMarks(c) == c.marks \cup {"core_memory"}
SetCore(p) ==
    /\ wpc[p] = "core"
    /\ Statement(p, "log strengthen", [rows[Head(remaining[p]).id] EXCEPT !.marks = CoreMarks(Head(remaining[p]))])

Deprecate(p) ==
    /\ wpc[p] = "stale"
    /\ Statement(p, "log stale", [rows[Head(remaining[p]).id] EXCEPT !.state = "deprecated", !.busy = TRUE])

\* apply_reality_metadata_updates: json_patch keeps the other keys of the row.
Patch(p) ==
    /\ wpc[p] \in {"dead", "drift"}
    /\ Statement(p, IF wpc[p] = "dead" THEN "log dead" ELSE "log drift",
                 [rows[Head(remaining[p]).id] EXCEPT !.marks = @ \cup {wpc[p]}, !.busy = TRUE])

Logs == [log \in {"log strengthen", "log stale", "log dead", "log drift"} |->
            CASE log = "log strengthen" -> "strengthen" [] log = "log stale" -> "stale"
              [] log = "log dead" -> "dead" [] OTHER -> "drift"]

\* log_consolidation_event: the third statement, or the second, of a candidate.
LogEvent(p) ==
    /\ wpc[p] \in DOMAIN Logs
    /\ events' = events \cup {<<Head(remaining[p]).id, Logs[wpc[p]]>>} /\ remaining' = [remaining EXCEPT ![p] = Tail(@)]
    /\ wpc' = [wpc EXCEPT ![p] = IF Len(remaining[p]) = 1 THEN "idle" ELSE Logs[wpc[p]]]
    /\ UNCHANGED <<rows, report, stagesRun, reportsMade, overtaken, stamped, byHand, cutShort>>

Unstamped(p) == {n \in {remaining[p][i].id : i \in DOMAIN remaining[p]} : ~Confirmed(n)}

\* confirm_batch_for_cli, after its prompt: one transaction.
Answer(p, yes) ==
    LET now == IF yes THEN Unstamped(p) ELSE {}
    IN  /\ wpc[p] = "prompt" /\ wpc' = [wpc EXCEPT ![p] = "idle"] /\ remaining' = [remaining EXCEPT ![p] = <<>>]
        /\ rows' = [n \in Kept |-> IF n \in now THEN [rows[n] EXCEPT !.confirmedBy = {p}] ELSE rows[n]]
        /\ stamped' = [stamped EXCEPT ![p] = now]
        /\ overtaken' = [q \in Keepers |-> overtaken[q] \cup (IF q = p THEN {} ELSE now)]
        /\ UNCHANGED <<events, report, stagesRun, reportsMade, byHand, cutShort>>

\* confirm_one_for_cli: an earlier confirmation is replaced.
ConfirmOne(p, n) ==
    /\ wpc[p] = "idle" /\ stagesRun < MaxKept /\ stagesRun' = stagesRun + 1
    /\ Writes(p, n, [rows[n] EXCEPT !.confirmedBy = {p}])
    /\ UNCHANGED <<events, wpc, remaining, report, reportsMade, stamped, byHand, cutShort>>

KeeperDies(p) ==
    /\ wpc[p] # "idle" /\ wpc' = [wpc EXCEPT ![p] = "idle"] /\ remaining' = [remaining EXCEPT ![p] = <<>>]
    /\ cutShort' = TRUE /\ UNCHANGED <<rows, events, report, stagesRun, reportsMade, overtaken, stamped, byHand>>
----------------------------------------------------------------------------
\* Someone else writes the row: a server, or the helper of `ma batch-write'.
Elsewhere(n, r) ==
    /\ reportsMade < MaxReported /\ reportsMade' = reportsMade + 1
    /\ overtaken' = [q \in Keepers |-> overtaken[q] \cup {n}] /\ rows' = [rows EXCEPT ![n] = r]
    /\ UNCHANGED <<events, wpc, remaining, report, stagesRun, stamped, cutShort>>

\* atomic_update_outcome
Outcome(n, how) ==
    LET r == rows[n]
    IN  /\ r.live /\ UNCHANGED byHand
        /\ Elsewhere(n, CASE how = "confirmed" -> [r EXCEPT !.conf = Lesser(@ + 1, 99)]
                          [] how = "corrected" -> [r EXCEPT !.conf = Greater(@ - 5, 10), !.marks = @ \cup {"is_corrected"}]
                          [] how = "outdated"  -> [r EXCEPT !.conf = Greater(@ - 10, 10), !.marks = @ \cup {"is_outdated"}])

\* mark_superseded, in the part that hides the note.
Superseded(n) == rows[n].live /\ UNCHANGED byHand /\ Elsewhere(n, [rows[n] EXCEPT !.live = FALSE, !.state = "superseded"])

\* UpdateNote of execute_batch_write: what is given replaces what is there, in any row.
UpdateNote(n, conf, state) ==
    /\ byHand' = byHand \cup {n}
    /\ Elsewhere(n, [rows[n] EXCEPT !.conf = conf, !.state = state, !.marks = {}])
----------------------------------------------------------------------------
\* The detections that only report, of notes that are active, the newest first.
WithinRange(a, b, least, most) == Resemblance[{a, b}] >= least /\ Resemblance[{a, b}] <= most
Scanned == SetToSortSeq({n \in Kept : Active(n) /\ rows[n].layer # "identity_schema"}, LAMBDA m, n : m > n)

\* detect_accuracy_contradictions: alike, of 80 or more, but for the numbers.
Contradict(a, b) ==
    /\ rows[a].numbers # {} /\ rows[b].numbers # {} /\ rows[a].numbers # rows[b].numbers
    /\ WithinRange(a, b, 80, 100)

\* detect_accuracy_semantic_conflicts: of 75 to 95, and what one asserts the other,
\* which does not assert it, denies.
Denies(a, b) == \E s \in rows[a].denies \cap rows[b].says : s \notin rows[a].says
Conflict(a, b) == WithinRange(a, b, 75, 95) /\ (Denies(a, b) \/ Denies(b, a))

\* The two loops over what was scanned, the second from after the first, cut at the limit.
Pairs(Holds(_, _)) ==
    LET ahead(i) == SelectSeq([k \in 1..(Len(Scanned) - i) |-> <<Scanned[i], Scanned[i + k]>>],
                              LAMBDA pair : Holds(pair[1], pair[2]))
        all == FlattenSeq([i \in DOMAIN Scanned |-> ahead(i)])
    IN  SubSeq(all, 1, Lesser(Len(all), MaxPerPhase))

\* detect_accuracy_cold_memories: recalled once, and nothing has happened since.
Cold == {n \in Kept : Active(n) /\ rows[n].layer # "identity_schema" /\ rows[n].recall >= 3 /\ ~rows[n].busy}

Reports(kind, pairs, notes) ==
    /\ report = NoReport /\ report' = [kind |-> kind, pairs |-> pairs, notes |-> notes]
    /\ UNCHANGED <<rows, events, wpc, remaining, stagesRun, reportsMade, overtaken, stamped, byHand, cutShort>>
Contradictions    == Reports("contradictions", Pairs(Contradict), {})
SemanticConflicts == Reports("conflicts", Pairs(Conflict), {})
\* detect_accuracy_migration_dirty: what came in bulk within one minute, the
\* earliest minutes.
Dirty ==
    LET at(t) == {n \in Kept : Active(n) /\ rows[n].layer # "identity_schema" /\ rows[n].moved = t}
        bulks == {t \in {rows[n].moved : n \in Kept} \ {0} : Cardinality(at(t)) >= Bulk}
    IN  UNION {at(t) : t \in {u \in bulks : Cardinality({v \in bulks : v < u}) < MaxPerPhase}}
MigrationDirty == Reports("dirty", <<>>, Dirty)
ColdMemories ==
    LET cold == SetToSortSeq(Cold, LAMBDA m, n :
            rows[m].recall > rows[n].recall \/ (rows[m].recall = rows[n].recall /\ m < n))
    IN  Reports("cold", <<>>, {cold[i] : i \in 1..Lesser(Len(cold), MaxPerPhase)})
ReportIsRead ==
    /\ report # NoReport /\ report' = NoReport
    /\ UNCHANGED <<rows, events, wpc, remaining, stagesRun, reportsMade, overtaken, stamped, byHand, cutShort>>
----------------------------------------------------------------------------
UpkeepInit ==
    /\ rows \in Begins /\ events = {} /\ wpc = [p \in Keepers |-> "idle"] /\ remaining = [p \in Keepers |-> <<>>]
    /\ report = NoReport /\ stagesRun = 0 /\ reportsMade = 0 /\ overtaken = [p \in Keepers |-> {}]
    /\ stamped = [p \in Keepers |-> {}] /\ byHand = {} /\ cutShort = FALSE

UpkeepNext ==
    \/ \E p \in Keepers :
          \/ Strengthen(p) \/ StaleEvents(p) \/ \E stage \in {"dead", "drift"} : RealityCheck(p, stage)
          \/ ConfirmBatch(p) \/ \E n \in Kept : ConfirmOne(p, n)
          \/ SetConfidence(p) \/ SetCore(p) \/ Deprecate(p) \/ Patch(p) \/ LogEvent(p)
          \/ \E yes \in BOOLEAN : Answer(p, yes)
          \/ KeeperDies(p)
    \/ \E n \in Kept :
          \/ \E how \in {"confirmed", "corrected", "outdated"} : Outcome(n, how)
          \/ Superseded(n)
          \/ \E state \in {"active", "deprecated"} : UpdateNote(n, 60, state)
    \/ Contradictions \/ SemanticConflicts \/ MigrationDirty \/ ColdMemories \/ ReportIsRead

UpkeepSpec == UpkeepInit /\ [][UpkeepNext]_upkeepVars
----------------------------------------------------------------------------
UpkeepTypeOK ==
    /\ \A n \in Kept : rows[n].conf \in 10..99 /\ rows[n].state \in {"active", "superseded", "deprecated"}
    /\ \A p \in Keepers : (wpc[p] = "idle") = (remaining[p] = <<>>)

\* A mark is lost only where the row was overtaken between the read and the write
\* of the core mark, or by hand: consolidate_strengthen writes back the whole of
\* the metadata, the reality checks patch it.
MarksAreKept ==
    \A n \in Kept : rows[n].marks \ rows'[n].marks # {} =>
        \/ n \in byHand'
        \/ \E p \in Keepers : wpc[p] = "core" /\ Head(remaining[p]).id = n /\ n \in overtaken[p]

\* Strengthening weakens only what was reported on in the meantime, and once it
\* has run over rows that nobody else wrote it finds nothing more to do there.
StrengthIsGained ==
    \A p \in Keepers : wpc[p] = "strengthen" /\ wpc'[p] \notin {"strengthen", "idle"} =>
        LET n == Head(remaining[p]).id
        IN  n \notin overtaken[p] => rows'[n].conf >= rows[n].conf /\ Strengthened(rows'[n]) <= 99

\* A note is deprecated while it is what StaleEvents looks for, unless its row was
\* overtaken or set by hand.
OnlyTheStaleGo ==
    \A n \in Kept : rows[n].state # "deprecated" /\ rows'[n].state = "deprecated" =>
        \/ n \in byHand'
        \/ Active(n) /\ LongStale(rows[n])
        \/ \E p \in Keepers : wpc[p] = "stale" /\ Head(remaining[p]).id = n /\ n \in overtaken[p]

\* Where no command died, whatever was deprecated or marked has its event.
MarksAreLogged ==
    (\A p \in Keepers : wpc[p] = "idle") /\ ~cutShort =>
        \A n \in Kept \ byHand :
            /\ rows[n].state = "deprecated" => <<n, "stale">> \in events
            /\ \A stage \in {"dead", "drift"} \cap rows[n].marks : <<n, stage>> \in events

\* A batch replaces no confirmation, and what it counts is what it confirmed; one
\* note confirmed by name replaces an earlier confirmation.
BatchKeepsConfirmations ==
    \A p \in Keepers : wpc[p] = "prompt" /\ wpc'[p] = "idle" =>
        \A n \in Kept :
            /\ Confirmed(n) => rows'[n] = rows[n]
            /\ n \in stamped'[p] <=> rows'[n] # rows[n]

\* A report lists every pair once, the newer note first, and leaves out a pair that
\* qualifies only when it is full.
ReportIsFull ==
    report' # report /\ report' # NoReport =>
        /\ \A i, j \in DOMAIN report'.pairs : i # j =>
              {report'.pairs[i][1], report'.pairs[i][2]} # {report'.pairs[j][1], report'.pairs[j][2]}
        /\ \A i \in DOMAIN report'.pairs : report'.pairs[i][1] > report'.pairs[i][2]
        /\ \A a, b \in Kept : a > b /\ Active(a) /\ Active(b)
              /\ (IF report'.kind = "contradictions" THEN Contradict(b, a)
                  ELSE report'.kind = "conflicts" /\ Conflict(b, a))
              /\ "identity_schema" \notin {rows[a].layer, rows[b].layer} =>
                 \/ <<a, b>> \in {report'.pairs[i] : i \in DOMAIN report'.pairs}
                 \/ Len(report'.pairs) = MaxPerPhase

\* What a step of the upkeep may do to a note.
UpkeepIsCareful ==
    [][/\ UpkeepTypeOK' /\ MarksAreLogged' /\ MarksAreKept /\ StrengthIsGained /\ OnlyTheStaleGo
       /\ BatchKeepsConfirmations /\ ReportIsFull]_upkeepVars
=============================================================================
