---- MODULE DocRefresh ----
(***************************************************************************)
(* What an autoDream job leaves behind when its command succeeds           *)
(* (memra-server/src/cli/phase4.rs): a report of the living documents that *)
(* need a refresh, and the patch, the plan, the execution bundle and the   *)
(* apply-ready bundle, each derived from the one before; then the record   *)
(* of the job in the orchestrator file.  That file is read whole and       *)
(* written whole by every process that has news about a job, without a     *)
(* lock.  WorkQueues models the queue the jobs come from.                  *)
(*                                                                         *)
(* A document is a number; smaller numbers sort first by path.  Scores are *)
(* in tenths.  Sections of a document are left out: a bundle is the        *)
(* sequence of the documents it names.                                     *)
(***************************************************************************)
EXTENDS Integers, FiniteSets, Sequences, SequencesExt

CONSTANTS
    RefreshJobs,    \* identifiers of jobs
    Documents,      \* living documents
    Sources,        \* what the session, checkpoints and notes say of them
    Kept            \* job records the orchestrator file keeps (25)

ASSUME RefreshAssumption ==
    /\ IsFiniteSet(RefreshJobs) /\ Documents \subseteq Nat \ {0}
    /\ Kept \in Nat \ {0}

NoDocument == 0
Planned == 5        \* documents a plan and what follows it hold at most
Bundles == <<"report", "patch", "plan", "execution", "apply">>
Stages == {"new", "pending", "executing", "failing", "finishing", "over"} \cup Range(Bundles)

VARIABLES
    orchestrator,   \* the orchestrator file
    stage,          \* what the process that holds a job is at
    copy,           \* the orchestrator state it has read, if it has
    source,         \* what it finds about the documents
    bundleFiles,    \* bundles a job has written
    named           \* the paths the job's record will name

refreshVars == <<orchestrator, stage, copy, source, bundleFiles, named>>

NoCopy == [active |-> NoDocument, history |-> <<>>, read |-> FALSE]

----------------------------------------------------------------------------
(* The documents worth a refresh.                                          *)
Naming(rows, d) == SelectSeq(rows, LAMBDA r : r.path = d)
Mentions(rows, d) == Len(Naming(rows, d))

Found(s) == s.session \cup {r.path : r \in Range(s.checkpoints)} \cup {r.path : r \in Range(s.durable)}

Score(s, d) ==
    (IF d \in s.session THEN 16 ELSE 0) + 12 * Mentions(s.checkpoints, d) + 9 * Mentions(s.durable, d)
        + 3 * Len(SelectSeq(Naming(s.durable, d), LAMBDA r : r.changed))

Signals(s, d) ==
    Cardinality({k \in {"session", "checkpoint", "durable"} :
        \/ k = "session" /\ d \in s.session
        \/ k = "checkpoint" /\ Mentions(s.checkpoints, d) > 0
        \/ k = "durable" /\ Mentions(s.durable, d) > 0})

(* The row that is read last gives the time: checkpoints, then notes, each *)
(* newest first.                                                           *)
LastSeen(s, d) ==
    LET rows == Naming(s.checkpoints \o s.durable, d)
    IN  IF rows = <<>> THEN 0 ELSE Last(rows).at

MoreUrgent(s, a, b) ==
    \/ Score(s, a) > Score(s, b)
    \/ Score(s, a) = Score(s, b) /\ Signals(s, a) > Signals(s, b)
    \/ Score(s, a) = Score(s, b) /\ Signals(s, a) = Signals(s, b)
         /\ \/ LastSeen(s, a) > LastSeen(s, b)
            \/ LastSeen(s, a) = LastSeen(s, b) /\ a < b

First(seq, n) == SubSeq(seq, 1, IF Len(seq) < n THEN Len(seq) ELSE n)

(* Documents the job names itself, else the most urgent ones found.        *)
ReportItems(s) ==
    IF s.explicit # <<>> THEN s.explicit
    ELSE First(SetToSortSeq(Found(s), LAMBDA a, b : MoreUrgent(s, a, b)), s.limit)

(* A patch holds what the report holds; the rest no more than five.        *)
ItemsOf(s, bundle) ==
    IF bundle \in {"report", "patch"} THEN ReportItems(s) ELSE First(ReportItems(s), Planned)

AfterBundle(bundle) ==
    IF bundle = "apply" THEN "finishing" ELSE Bundles[1 + CHOOSE i \in 1 .. 4 : Bundles[i] = bundle]

----------------------------------------------------------------------------
RefreshInit ==
    /\ orchestrator = [active |-> NoDocument, history |-> <<>>]
    /\ stage = [j \in RefreshJobs |-> "new"]
    /\ copy = [j \in RefreshJobs |-> NoCopy]
    /\ source \in [RefreshJobs -> Sources]
    /\ bundleFiles = [j \in RefreshJobs |-> {}]
    /\ named = [j \in RefreshJobs |-> {}]

Reports(j) == stage[j] \in {"new", "pending", "failing", "finishing"}

(* The process reads the orchestrator file ...                             *)
ReadOrchestrator(j) ==
    /\ Reports(j) /\ ~copy[j].read
    /\ copy' = [copy EXCEPT ![j] = [active |-> orchestrator.active,
                                    history |-> orchestrator.history, read |-> TRUE]]
    /\ UNCHANGED <<orchestrator, stage, source, bundleFiles, named>>

(* ... puts the record of its job first, and drops the oldest ...          *)
Merged_Twice(history, record) == First(<<record>> \o history, Kept)

Merged(history, record) ==
    First(<<record>> \o SelectSeq(history, LAMBDA r : r.id # record.id), Kept)

Status(s) ==
    CASE s = "new" -> "pending" [] s = "pending" -> "running"
      [] s = "failing" -> "failed" [] s = "finishing" -> "completed"

Active(j) == IF stage[j] \in {"new", "pending"} THEN j ELSE NoDocument

After(s) ==
    CASE s = "new" -> "pending" [] s = "pending" -> "executing" [] OTHER -> "over"

(* ... and writes all of it back.                                          *)
WriteOrchestrator(j) ==
    /\ Reports(j) /\ copy[j].read
    /\ LET record == [id |-> j, status |-> Status(stage[j]), paths |-> named[j]]
       IN  orchestrator' = [active |-> Active(j), history |-> Merged(copy[j].history, record)]
    /\ copy' = [copy EXCEPT ![j] = NoCopy]
    /\ stage' = [stage EXCEPT ![j] = After(stage[j])]
    /\ UNCHANGED <<source, bundleFiles, named>>

(* The news that a job runs may fail to be written; the job runs anyway.   *)
RunningUnreported(j) ==
    /\ stage[j] = "pending"
    /\ stage' = [stage EXCEPT ![j] = "executing"]
    /\ copy' = [copy EXCEPT ![j] = NoCopy]
    /\ UNCHANGED <<orchestrator, source, bundleFiles, named>>

(* The command of the job ends, fails or is killed at its time limit.      *)
RefreshEnds(j) ==
    /\ stage[j] = "executing"
    /\ \E result \in {"report", "failing"} : stage' = [stage EXCEPT ![j] = result]
    /\ UNCHANGED <<orchestrator, copy, source, bundleFiles, named>>

(* One bundle is rendered and written; an empty report ends the chain.     *)

Names(j, bundle) == named[j] \cup {bundle}

WriteBundle(j) ==
    /\ stage[j] \in Range(Bundles)
    /\ LET bundle == stage[j]
       IN  /\ bundleFiles' = [bundleFiles EXCEPT ![j] = @ \cup {bundle}]
           /\ named' = [named EXCEPT ![j] = Names(j, bundle)]
           /\ stage' = [stage EXCEPT ![j] = IF bundle = "report" /\ ReportItems(source[j]) = <<>>
                                            THEN "finishing" ELSE AfterBundle(bundle)]
    /\ UNCHANGED <<orchestrator, copy, source>>

(* The process dies or a write fails: the error ends it, the job stays as  *)
(* the files have it.                                                      *)
ProcessEnds(j) ==
    /\ stage[j] \notin {"over", "new"}
    /\ stage' = [stage EXCEPT ![j] = "over"]
    /\ copy' = [copy EXCEPT ![j] = NoCopy]
    /\ UNCHANGED <<orchestrator, source, bundleFiles, named>>

RefreshNext ==
    \E j \in RefreshJobs :
        \/ ReadOrchestrator(j) \/ WriteOrchestrator(j) \/ RunningUnreported(j)
        \/ RefreshEnds(j) \/ WriteBundle(j) \/ ProcessEnds(j)

RefreshSpec == RefreshInit /\ [][RefreshNext]_refreshVars

----------------------------------------------------------------------------
(* Type correctness; the file keeps no more than it may.                   *)
RefreshTypeOK ==
    /\ orchestrator.active \in RefreshJobs \cup {NoDocument}
    /\ Len(orchestrator.history) <= Kept
    /\ stage \in [RefreshJobs -> Stages]
    /\ \A j \in RefreshJobs : bundleFiles[j] \cup named[j] \subseteq Range(Bundles)

(* The history tells every job once, whichever processes wrote it.         *)
HistoryTellsOnce ==
    \A i, k \in DOMAIN orchestrator.history :
        orchestrator.history[i].id = orchestrator.history[k].id => i = k

(* The job the file calls active is in its history, and not as a job that  *)
(* is over: a failed or finished job frees the place.                      *)
ActiveIsUnderWay ==
    orchestrator.active # NoDocument =>
        \E r \in Range(orchestrator.history) :
            r.id = orchestrator.active /\ r.status \in {"pending", "running"}

(* The record of a job never names a bundle that was not written, wherever *)
(* the chain broke; a completed job with anything to refresh names all.    *)
RecordsNameFiles ==
    \A r \in Range(orchestrator.history) :
        /\ r.paths \subseteq bundleFiles[r.id]
        /\ r.status = "completed" =>
               r.paths = IF ReportItems(source[r.id]) = <<>> THEN {"report"} ELSE Range(Bundles)

(* What is cut between the documents found and the apply-ready bundle is   *)
(* never more urgent than what is kept.                                    *)
MostUrgentFirst ==
    \A j \in RefreshJobs : "apply" \in bundleFiles[j] /\ source[j].explicit = <<>> =>
        \A kept \in Range(ItemsOf(source[j], "apply")),
           d \in Found(source[j]) \ Range(ItemsOf(source[j], "apply")) :
            Score(source[j], d) <= Score(source[j], kept)

(* What a reader of the orchestrator file and of the bundles it names may  *)
(* rely on, whatever broke or was overwritten on the way.                  *)
RefreshTellsTheTruth ==
    /\ RefreshTypeOK /\ HistoryTellsOnce /\ ActiveIsUnderWay
    /\ RecordsNameFiles /\ MostUrgentFirst
====
