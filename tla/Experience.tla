---------------------------- MODULE Experience ----------------------------
(***************************************************************************)
(* The experience loop (memra-core/src/experience.rs). Notes that are         *)
(* procedures, that are due for a review, or that outcomes have spoilt are    *)
(* copied into experience records; a reviewer adds reviews, and a record that *)
(* passes the gate becomes stable, which is what the surfaces given to agents *)
(* show. Artifacts made of the surfaces carry a token for feedback.           *)
(*                                                                         *)
(* A refresh is several statements outside a transaction, and everything else *)
(* goes on between them. The limits of the refresh (8 to 100 records) are     *)
(* above the instance.                                                       *)
(***************************************************************************)
EXTENDS Naturals, FiniteSets

CONSTANTS
    Lesson,              \* notes
    Procedure,           \* those of layer procedure_schema
    Legacy,              \* candidate records of the earlier, Python, loop
    MaxChanges, MaxReviewCalls, MaxRefreshes, MaxBuilds    \* bounds of the instance

ASSUME ExperienceAssumption ==
    /\ IsFiniteSet(Lesson) /\ Procedure \subseteq Lesson /\ Legacy \subseteq Lesson
    /\ {MaxChanges, MaxReviewCalls, MaxRefreshes, MaxBuilds} \subseteq Nat

GateConfidence == 75
ReadyReviews   == 2
Lenses         == 4      \* hermes, harness, research, cold_eye

IdPrefixes == {"procedure", "review", "degraded", "legacy"}
Ids == IdPrefixes \X Lesson
Absent == [status |-> "none", confidence |-> 0, reviews |-> 0, verdict |-> "none"]

VARIABLES
    lessons,     \* [Lesson -> shown, due, spoilt, confidence]
    records,     \* [Ids -> status, confidence, reviews, verdict of the reviews]
    refresh,     \* the statement the refresh is at
    settled,     \* nothing else has happened since the refresh began (history)
    artifacts,   \* number of artifacts built; its rows are 1..artifacts
    unsaved,     \* artifacts whose row was not inserted
    feedback,    \* topic feedback: the artifact it is about, 0 for none
    changes, reviewCalls, refreshes      \* counters

experienceVars == <<lessons, records, refresh, settled, artifacts, unsaved, feedback,
                    changes, reviewCalls, refreshes>>
artifactVars == <<artifacts, unsaved, feedback>>

ExperienceTypeOK ==
    /\ lessons \in [Lesson -> [shown : BOOLEAN, due : BOOLEAN, spoilt : BOOLEAN,
                               confidence : {50, 70, 80}]]
    /\ records \in [Ids -> [status : {"none", "candidate", "review_required", "stable", "degraded"},
                            confidence : {0, 38, 50, 70, 80}, reviews : {0, Lenses},
                            verdict : {"none", "adopt", "monitor"}]]
    /\ refresh \in {"off", "seed", "review", "degrade", "judge", "settle"}
    /\ \A id \in Ids : records[id].status = "none" => records[id].reviews = 0
----------------------------------------------------------------------------
Upserted_KeepsStatus(record, status, confidence) ==
    [record EXCEPT !.status = IF @ = "none" THEN status ELSE @, !.confidence = confidence]
\* upsert_experience_record: what there was is overwritten; the reviews, rows of
\* their own, stay.
Upserted(record, status, confidence) ==
    [record EXCEPT !.status = status, !.confidence = confidence]

\* One statement of the refresh over the records it writes.
Materialize(prefix, S, status(_), confidence(_)) ==
    records' = [id \in Ids |->
        IF id[1] = prefix /\ id[2] \in S
        THEN Upserted(records[id], status(id[2]), confidence(id[2])) ELSE records[id]]

Shown == {n \in Lesson : lessons[n].shown}
OwnConfidence(n) == lessons[n].confidence

StartRefresh ==
    /\ refresh = "off" /\ refreshes < MaxRefreshes /\ refreshes' = refreshes + 1
    /\ refresh' = "seed" /\ settled' = TRUE
    /\ UNCHANGED <<lessons, records, artifactVars, changes, reviewCalls>>

ProcedureStatus(n) == IF lessons[n].spoilt THEN "degraded" ELSE "stable"

SeedProcedures ==
    /\ refresh = "seed" /\ refresh' = "review"
    /\ Materialize("procedure", Shown \cap Procedure, ProcedureStatus, OwnConfidence)
    /\ UNCHANGED <<lessons, settled, artifactVars, changes, reviewCalls, refreshes>>

MaterializeReview ==
    /\ refresh = "review" /\ refresh' = "degrade"
    /\ Materialize("review", {n \in Shown : lessons[n].due}, LAMBDA n : "review_required",
                   OwnConfidence)
    /\ UNCHANGED <<lessons, settled, artifactVars, changes, reviewCalls, refreshes>>

MaterializeDegraded ==
    /\ refresh = "degrade" /\ refresh' = "judge"
    /\ Materialize("degraded", {n \in Shown : lessons[n].spoilt}, LAMBDA n : "degraded",
                   LAMBDA n : 38)
    /\ UNCHANGED <<lessons, settled, artifactVars, changes, reviewCalls, refreshes>>

\* deterministic_reviews
Reviewed(record) ==
    [record EXCEPT !.reviews = Lenses,
                   !.verdict = IF record.status = "stable" THEN "adopt" ELSE "monitor"]

\* The candidates review_candidate_experiences reviews: those without a review.
ToReview(id) == records[id].status = "candidate" /\ records[id].reviews = 0

ReviewCandidates ==
    /\ refresh = "judge" /\ refresh' = "settle"
    /\ records' = [id \in Ids |-> IF ToReview(id) THEN Reviewed(records[id]) ELSE records[id]]
    /\ UNCHANGED <<lessons, settled, artifactVars, changes, reviewCalls, refreshes>>

\* readiness_summary. Of evidence a record has its note, once as a note and once
\* as a reference, which is the two the gate asks for.
Ready(record) == record.reviews >= ReadyReviews /\ record.confidence >= GateConfidence

\* refresh_experience_statuses
RefreshStatuses ==
    /\ refresh = "settle" /\ refresh' = "off"
    /\ records' = [id \in Ids |->
         IF records[id].status \in {"candidate", "review_required"} /\ Ready(records[id])
         THEN [records[id] EXCEPT !.status = "stable"] ELSE records[id]]
    /\ UNCHANGED <<lessons, settled, artifactVars, changes, reviewCalls, refreshes>>

\* A statement fails, or the process dies: those before it stay.
RefreshFails ==
    /\ refresh # "off" /\ refresh' = "off" /\ settled' = FALSE
    /\ UNCHANGED <<lessons, records, artifactVars, changes, reviewCalls, refreshes>>
----------------------------------------------------------------------------
\* review_experience: the reviews there are, unless there are none or the caller
\* forces new ones.
Review(id, force) ==
    /\ reviewCalls < MaxReviewCalls /\ reviewCalls' = reviewCalls + 1
    /\ records[id].status # "none"
    /\ records' = IF force \/ records[id].reviews = 0
                  THEN [records EXCEPT ![id] = Reviewed(@)] ELSE records
    /\ settled' = FALSE
    /\ UNCHANGED <<lessons, refresh, artifactVars, changes, refreshes>>

\* Outcomes, the passing of review_after, a snooze and the retiring of notes,
\* which are not the loop's.
NoteChanges ==
    /\ changes < MaxChanges /\ changes' = changes + 1 /\ settled' = FALSE
    /\ \E n \in Shown :
         \E to \in {[lessons[n] EXCEPT !.spoilt = TRUE,
                                       !.confidence = IF @ = 80 THEN 70 ELSE 50],
                    [lessons[n] EXCEPT !.due = ~@],
                    [lessons[n] EXCEPT !.shown = FALSE]} :
           lessons' = [lessons EXCEPT ![n] = to]
    /\ UNCHANGED <<records, refresh, artifactVars, reviewCalls, refreshes>>

\* build_artifacts: the token is handed out whether or not the row was inserted.
BuildArtifact ==
    /\ artifacts < MaxBuilds /\ artifacts' = artifacts + 1
    /\ unsaved' \in {unsaved, unsaved \cup {artifacts'}}
    /\ UNCHANGED <<lessons, records, refresh, settled, feedback, changes, reviewCalls, refreshes>>

\* get_artifact_run
FoundRun(token) == {token} \ unsaved

\* report_artifact_feedback and record_topic_feedback: about an artifact whose
\* run is found, or about a topic alone.
ReportFeedback ==
    /\ \E token \in 0..artifacts :
          /\ token # 0 => FoundRun(token) # {}
          /\ token \notin feedback /\ feedback' = feedback \cup {token}
    /\ UNCHANGED <<lessons, records, refresh, settled, artifacts, unsaved, changes,
                   reviewCalls, refreshes>>
----------------------------------------------------------------------------
ExperienceInit ==
    /\ lessons = [n \in Lesson |-> [shown |-> TRUE, due |-> FALSE, spoilt |-> FALSE,
                                    confidence |-> 80]]
    /\ records = [id \in Ids |->
         IF id[1] = "legacy" /\ id[2] \in Legacy
         THEN [Absent EXCEPT !.status = "candidate", !.confidence = 70] ELSE Absent]
    /\ refresh = "off" /\ settled = FALSE /\ artifacts = 0 /\ unsaved = {} /\ feedback = {}
    /\ changes = 0 /\ reviewCalls = 0 /\ refreshes = 0

ExperienceNext ==
    \/ StartRefresh \/ SeedProcedures \/ MaterializeReview \/ MaterializeDegraded
    \/ ReviewCandidates \/ RefreshStatuses \/ RefreshFails
    \/ \E id \in Ids, force \in BOOLEAN : Review(id, force)
    \/ NoteChanges \/ BuildArtifact \/ ReportFeedback

ExperienceSpec == ExperienceInit /\ [][ExperienceNext]_experienceVars
----------------------------------------------------------------------------
\* A record that came of a review is stable only with the reviews and at the
\* confidence the gate asks for, also after the note was spoilt, was due again
\* and was copied again: being stable once is no licence.
StableIsEarned ==
    \A n \in Lesson : records[<<"review", n>>].status = "stable" => Ready(records[<<"review", n>>])

\* After a refresh that nothing disturbed the records agree with the notes: a
\* procedure is stable or degraded as its outcomes say, a spoilt note has its
\* degraded record, and a due note its record, stable or waiting for a review.
RefreshCatchesUp ==
    [][(refresh = "settle" /\ refresh' = "off" /\ settled /\ settled') =>
        \A n \in Shown :
          /\ n \in Procedure => records'[<<"procedure", n>>].status = ProcedureStatus(n)
          /\ lessons[n].spoilt => records'[<<"degraded", n>>].status = "degraded"
          /\ lessons[n].due =>
               records'[<<"review", n>>].status =
                 IF Ready(records'[<<"review", n>>]) THEN "stable" ELSE "review_required"]_experienceVars

\* Reviews are written over only by a reviewer: a refresh that comes by a record
\* again, whatever its status has become, keeps the verdict it got.
VerdictsStay ==
    [][\A id \in Ids :
          records[id].reviews > 0 /\ records'[id].verdict # records[id].verdict
            => reviewCalls' # reviewCalls]_experienceVars

\* Feedback about an artifact has the run it is about.
FeedbackHasRun == feedback \cap unsaved = {}

\* What the gate of the experience loop keeps, step by step: nothing is stable
\* that did not earn it, a refresh that ends has caught up with the notes, only
\* reviewers change a verdict, and feedback has its run.
GateHolds ==
    /\ RefreshCatchesUp /\ VerdictsStay
    /\ [][ExperienceTypeOK' /\ StableIsEarned' /\ FeedbackHasRun']_experienceVars
=============================================================================
