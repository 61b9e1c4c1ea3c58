----------------------------- MODULE NoteStore -----------------------------
(***************************************************************************)
(* The governed write path of memra-core: add_memory, save_checkpoint and   *)
(* report_outcome of core/write_orchestrator.rs, with the SQL they call in  *)
(* storage/writer.rs and the cold-storage append inside the transaction.    *)
(*                                                                         *)
(* A process is one orchestrator: one SQLite connection behind a mutex, so  *)
(* it runs one call at a time.  Several processes (stdio servers, the HTTP  *)
(* daemon, the CLI) share the WAL database: a transaction starts with BEGIN *)
(* IMMEDIATE, a statement outside one commits by itself, and a reader keeps *)
(* the snapshot it started on.  `db' is the committed image, `work' that of *)
(* the open write transaction, `owner' the process that holds it.           *)
(*                                                                         *)
(* Notes are numbered in the order their transactions begin.                *)
(***************************************************************************)
EXTENDS Naturals, FiniteSets

CONSTANTS
    Process, Project, ProjectOf,
    Text,      \* contents; a checkpoint's text stands for its metadata too
    Sim,       \* [Text \X Text -> 0..100], cosine similarity in percent
    Terms,     \* [Text -> sets of mutable keywords and names]
    Task,
    MaxNote,   \* bound on the notes ever begun
    MaxReport, \* bound on the outcomes reported for a note
    Window,    \* DEDUP_CANDIDATE_LIMIT
    Seeds,     \* note tables the database may start with
    Nobody     \* no process, no task

Note == 1..MaxNote
None == 0

\* The thresholds of the module, in percent.
DedupAt     == 88
SupersedeAt == 70
LinkAt      == 50
SoftAt      == 62
HardAt      == 85
MaxLinks    == 3

NoteRec ==
    [present : BOOLEAN, text : Text,
     layer : {"identity_schema", "verified_fact", "event_log"},
     project : Project, active : BOOLEAN, state : {"active", "superseded"},
     vec : {"none", "old", "new"},      \* missing, of a past dimension, current
     task : Task \cup {Nobody},         \* of a checkpoint
     by : 0..MaxNote,                   \* superseded_by
     counted : Nat,                     \* success_count
     ref : BOOLEAN]                     \* cold_storage_ref
Edge  == [from : Note, to : Note, kind : {"supports", "forget_cascade"}]
Image == [notes : [Note -> NoteRec], edges : SUBSET Edge]
Job   == [op : {"add", "checkpoint", "report"}, text : Text,
          layer : {"verified_fact", "event_log"}, vec : {"none", "new"},
          task : Task \cup {Nobody}, target : 0..MaxNote,
          note : 0..MaxNote, todo : SUBSET Note, old : 0..MaxNote, read : Nat]

ASSUME NoteStoreAssumption ==
    /\ MaxNote \in Nat \ {0} /\ MaxReport \in Nat /\ Window \in Nat \ {0}
    /\ ProjectOf \in [Process -> Project]
    /\ Sim \in [Text \X Text -> 0..100]
    /\ Nobody \notin Process \cup Task
    /\ Text # {} /\ Seeds \subseteq [Note -> NoteRec]

\* A database of before is one this path has left behind: its notes have the
\* first numbers, and outcomes are counted from then on.
ASSUME SeedsAssumption ==
    \A rows \in Seeds :
        /\ \E k \in 0..MaxNote : \A n \in Note : rows[n].present <=> n <= k
        /\ \A n \in Note :
              /\ rows[n].counted = 0
              /\ rows[n].by # None => rows[rows[n].by].present
        /\ \A n, m \in Note :
              /\ rows[n].active /\ rows[m].active
              /\ rows[n].task = rows[m].task /\ rows[n].task # Nobody
              => n = m

VARIABLES
    db, work, owner,
    pc, job,    \* where each process is, and the arguments of its call
    fresh,      \* processes whose open SELECT still sees the newest image
    archive,    \* notes with a line in cold storage
    next,       \* the next note's number
    seeded,     \* the notes the database started with
    reported    \* [Note -> outcomes answered Ok(true)]

vars == <<db, work, owner, pc, job, fresh, archive, next, seeded, reported>>
books == <<archive, next, seeded, reported>>

TypeOK ==
    /\ db \in Image /\ work \in Image
    /\ owner \in Process \cup {Nobody}
    /\ pc \in [Process -> {"idle", "probing", "comparing", "ready", "writing",
                 "appending", "feedback", "committing", "scanning", "marking",
                 "stamping", "relating", "linking"}]
    /\ job \in [Process -> Job]
    /\ fresh \subseteq Process
    /\ archive \subseteq Note /\ seeded \subseteq Note
    /\ next \in 1..(MaxNote + 1)
    /\ reported \in [Note -> Nat]

NoJob == [op |-> "add", text |-> CHOOSE t \in Text : TRUE, layer |-> "event_log",
          vec |-> "none", task |-> Nobody, target |-> None,
          note |-> None, todo |-> {}, old |-> None, read |-> 0]

Init ==
    /\ \E notes \in Seeds : db = [notes |-> notes, edges |-> {}]
    /\ work = db /\ owner = Nobody
    /\ pc = [p \in Process |-> "idle"]
    /\ job = [p \in Process |-> NoJob]
    /\ fresh = {} /\ archive = {}
    /\ seeded = {n \in Note : db.notes[n].present}
    /\ next = Cardinality(seeded) + 1
    /\ reported = [n \in Note |-> 0]

----------------------------------------------------------------------------
\* A connection reads its own open transaction, else the committed image.
View(p) == IF owner = p THEN work.notes ELSE db.notes

Goto(p, where) == pc' = [pc EXCEPT ![p] = where]
\* What an answer leaves behind: an idle connection.
Done(p) == Goto(p, "idle") /\ job' = [job EXCEPT ![p] = NoJob]

Rollback(p) ==
    /\ owner' = Nobody /\ work' = db
    /\ Done(p)
    /\ UNCHANGED <<db, fresh>>

\* A commit by p: every other open snapshot falls behind.
Publish(p, image) == db' = image /\ fresh' = fresh \cap {p}

\* Variant: the SELECT is closed first, so that a stale reader may write.
Autocommit_AnySnapshot(p, image) ==
    /\ owner = Nobody
    /\ Publish(p, image) /\ work' = image

\* An UPDATE outside a transaction, by a connection whose SELECT is open: it
\* needs the newest snapshot and the write lock.
Autocommit(p, image) ==
    /\ p \in fresh /\ owner = Nobody
    /\ Publish(p, image) /\ work' = image

Call(p, j, where) ==
    /\ pc[p] = "idle"
    /\ job' = [job EXCEPT ![p] = j]
    /\ Goto(p, where)
    /\ UNCHANGED <<db, work, owner, fresh, books>>

\* add_memory: identity_schema is refused, an event skips deduplication.
AddMemory(p, text, layer, vec) ==
    /\ layer # "identity_schema"
    /\ Call(p, [NoJob EXCEPT !.text = text, !.layer = layer, !.vec = vec],
            IF layer = "event_log" THEN "ready" ELSE "probing")

SaveCheckpoint(p, task, text) ==
    Call(p, [NoJob EXCEPT !.op = "checkpoint", !.task = task, !.text = text,
                          !.vec = "new"], "ready")

ReportOutcome(p, n) ==
    /\ reported[n] < MaxReport
    /\ Call(p, [NoJob EXCEPT !.op = "report", !.target = n], "ready")

\* exact_duplicate_vector_compatible
Compatible(stored, query) ==
    IF stored = "none" THEN query = "none" ELSE query \in {"none", stored}

\* find_exact_duplicate, a SELECT of its own.
FindExact(p) ==
    LET j == job[p]
        dup == {n \in Note :
                  LET row == View(p)[n]
                  IN  /\ row.present /\ row.active
                      /\ row.layer = j.layer /\ row.text = j.text
                      /\ row.project = ProjectOf[p] /\ Compatible(row.vec, j.vec)}
    IN  /\ pc[p] = "probing"
        /\ IF dup # {} THEN Done(p)
           ELSE /\ Goto(p, IF j.vec = "none" THEN "ready" ELSE "comparing")
                /\ UNCHANGED job
        /\ UNCHANGED <<db, work, owner, fresh, books>>

\* check_duplicate: of the newest Window active notes of the layer, in any
\* project, the most similar one, the newer of equals.
Candidates(rows, layer) ==
    LET all == {n \in Note : rows[n].present /\ rows[n].active /\ rows[n].layer = layer}
    IN  {n \in all : Cardinality({m \in all : m > n}) < Window}
BestMatch(rows, j) ==
    LET sim(n) == Sim[<<j.text, rows[n].text>>]
        near == {n \in Candidates(rows, j.layer) : rows[n].vec = j.vec /\ sim(n) > 0}
    IN  {n \in near : \A m \in near \ {n} :
            sim(n) > sim(m) \/ (sim(n) = sim(m) /\ n > m)}

Compare(p) ==
    LET j    == job[p]
        best == BestMatch(View(p), j)
        Above(t) == {n \in best : Sim[<<j.text, View(p)[n].text>>] >= t}
    IN  /\ pc[p] = "comparing"
        /\ IF Above(DedupAt + 1) # {} THEN Done(p)
           ELSE /\ Goto(p, "ready")
                /\ job' = [job EXCEPT ![p].old =
                      IF Above(SupersedeAt) = {} THEN None
                      ELSE CHOOSE n \in Above(SupersedeAt) : TRUE]
        /\ UNCHANGED <<db, work, owner, fresh, books>>

\* BEGIN IMMEDIATE waits for the write lock, and fails when the busy timeout
\* passes or when this connection is inside a transaction already.
Begin(p) ==
    /\ pc[p] = "ready" /\ owner = Nobody
    /\ job[p].op # "report" => next <= MaxNote
    /\ owner' = p /\ work' = db
    /\ Goto(p, "writing")
    /\ UNCHANGED <<db, job, fresh, books>>

BeginFails(p) ==
    /\ pc[p] = "ready" /\ owner # Nobody
    /\ Done(p)
    /\ UNCHANGED <<db, work, owner, fresh, books>>

\* Variant: a note enters as a candidate.
NewNote_Candidate(p) ==
    LET j == job[p]
    IN  [present |-> TRUE, text |-> j.text, layer |-> j.layer,
         project |-> ProjectOf[p], active |-> TRUE, state |-> "candidate",
         vec |-> j.vec, task |-> j.task, by |-> None, counted |-> 0, ref |-> FALSE]

NewNote(p) ==
    LET j == job[p]
    IN  [present |-> TRUE, text |-> j.text, layer |-> j.layer,
         project |-> ProjectOf[p], active |-> TRUE, state |-> "active",
         vec |-> j.vec, task |-> j.task, by |-> None, counted |-> 0, ref |-> FALSE]

Deactivated(row, n) ==
    [row EXCEPT !.active = FALSE, !.state = "superseded", !.by = n]

\* The transaction of add_memory: upsert_note, and mark_superseded with its
\* edge, whatever has become of the note found before BEGIN.
WriteNote(p) ==
    LET j == job[p]
        old == {j.old} \ {None}
    IN  /\ pc[p] = "writing" /\ j.op = "add"
        /\ work' =
             [notes |-> [n \in Note |->
                 CASE n = next   -> NewNote(p)
                   [] n \in old  -> Deactivated(work.notes[n], next)
                   [] OTHER      -> work.notes[n]],
              edges |-> work.edges \cup
                 {[from |-> next, to |-> o, kind |-> "forget_cascade"] : o \in old}]
        /\ job' = [job EXCEPT ![p].note = next]
        /\ next' = next + 1
        /\ Goto(p, "appending")
        /\ UNCHANGED <<db, owner, fresh, archive, seeded, reported>>

\* Variant: only the caller's project.
Retire_OwnProject(notes, task, keep) ==
    [n \in Note |-> IF /\ notes[n].task = task /\ n \notin keep
                       /\ notes[n].project = ProjectOf[owner]
                    THEN [notes[n] EXCEPT !.active = FALSE] ELSE notes[n]]

\* deactivate_checkpoints_by_task_id: of every project.
Retire(notes, task, keep) ==
    [n \in Note |-> IF notes[n].task = task /\ n \notin keep
                    THEN [notes[n] EXCEPT !.active = FALSE] ELSE notes[n]]

\* The transaction of save_checkpoint: the same checkpoint saved again keeps
\* its row; otherwise the task's other checkpoints go and a row comes.
WriteCheckpoint(p) ==
    LET j == job[p]
        same == {n \in Note : /\ work.notes[n].active /\ work.notes[n].task = j.task
                              /\ work.notes[n].text = j.text
                              /\ work.notes[n].project = ProjectOf[p]}
        newest == {n \in same : \A m \in same : m <= n}
    IN  /\ pc[p] = "writing" /\ j.op = "checkpoint"
        /\ IF same # {}
           THEN /\ work' = [work EXCEPT !.notes = Retire(@, j.task, newest)]
                /\ Goto(p, "committing")
                /\ UNCHANGED <<job, next>>
           ELSE /\ work' = [work EXCEPT
                      !.notes = [Retire(@, j.task, {}) EXCEPT ![next] = NewNote(p)]]
                /\ job' = [job EXCEPT ![p].note = next]
                /\ next' = next + 1
                /\ Goto(p, "appending")
        /\ UNCHANGED <<db, owner, fresh, archive, seeded, reported>>

\* atomic_update_outcome: the row must be active.  `counted' is the success
\* count, that a "confirmed" adds to; the others touch the failure count.
WriteOutcome(p) ==
    LET n == job[p].target
    IN  /\ pc[p] = "writing" /\ job[p].op = "report"
        /\ work.notes[n].present /\ work.notes[n].active
        /\ work' = [work EXCEPT !.notes[n].counted = @ + 1]
        /\ Goto(p, "feedback")
        /\ UNCHANGED <<db, owner, job, fresh, books>>

\* A statement before the cold append fails, or finds no active row.
WriteFails(p) ==
    /\ pc[p] = "writing"
    /\ Rollback(p)
    /\ UNCHANGED books

\* ColdStorageWriter::append, then the UPDATE of cold_storage_ref.
Append(p) ==
    LET n == job[p].note
    IN  /\ pc[p] = "appending"
        /\ archive' = archive \cup {n}
        /\ work' = [work EXCEPT !.notes[n].ref = TRUE]
        /\ Goto(p, "committing")
        /\ UNCHANGED <<db, owner, job, fresh, next, seeded, reported>>

\* Variant: the archive is best effort.
AppendFails_GoesOn(p) ==
    /\ pc[p] = "appending"
    /\ Goto(p, "committing")
    /\ UNCHANGED <<db, work, owner, job, fresh, books>>

\* Either fails: the transaction goes, a line already written stays.
AppendFails(p) ==
    /\ pc[p] = "appending"
    /\ archive' \in {archive, archive \cup {job[p].note}}
    /\ Rollback(p)
    /\ UNCHANGED <<next, seeded, reported>>

\* apply_hebbian_feedback and apply_dream_feedback.  Their errors return
\* through `?', past the ROLLBACK.
Feedback(p) ==
    /\ pc[p] = "feedback"
    /\ Goto(p, "committing")
    /\ UNCHANGED <<db, work, owner, job, fresh, books>>

FeedbackFails(p) ==
    /\ pc[p] = "feedback"
    /\ Done(p)
    /\ UNCHANGED <<db, work, owner, fresh, books>>

Commit(p) ==
    LET j == job[p]
    IN  /\ pc[p] = "committing"
        /\ Publish(p, work)
        /\ owner' = Nobody
        /\ reported' = IF j.op # "report" THEN reported
                       ELSE [reported EXCEPT ![j.target] = @ + 1]
        /\ IF j.op = "add" /\ j.layer # "event_log" /\ j.vec # "none"
           THEN Goto(p, "scanning") /\ UNCHANGED job
           ELSE Done(p)
        /\ UNCHANGED <<work, archive, next, seeded>>

CommitFails(p) ==
    /\ pc[p] = "committing"
    /\ Rollback(p)
    /\ UNCHANGED books

----------------------------------------------------------------------------
\* After the COMMIT: cross_layer_contradiction_scan.  Its SELECT stays open
\* while the rows it yields are updated, three statements each.
Contradicted(p, n, rows) ==
    {o \in Note \ {n} :
        /\ rows[o].present /\ rows[o].active /\ rows[o].project = ProjectOf[p]
        /\ Terms[rows[n].text] \cap Terms[rows[o].text] # {}
        /\ rows[o].task = Nobody
        /\ rows[o].vec = rows[n].vec
        /\ Sim[<<rows[n].text, rows[o].text>>] >= SoftAt}
Hard(n, o) == Sim[<<db.notes[n].text, db.notes[o].text>>] >= HardAt

Scan(p) ==
    LET n == job[p].note
        todo == Contradicted(p, n, db.notes)
    IN  /\ pc[p] = "scanning"
        /\ job' = [job EXCEPT ![p].todo = todo]
        /\ fresh' = fresh \cup {p}
        /\ Goto(p, IF todo = {} THEN "linking" ELSE "marking")
        /\ UNCHANGED <<db, work, owner, books>>

\* The next row: its columns, and the SELECT of its metadata.
Mark(p) ==
    \E o \in job[p].todo :
        /\ pc[p] = "marking"
        /\ Autocommit(p, IF Hard(job[p].note, o)
                         THEN [db EXCEPT !.notes[o].active = FALSE,
                                         !.notes[o].state = "superseded"]
                         ELSE db)
        /\ job' = [job EXCEPT ![p].old = o, ![p].todo = @ \ {o},
                              ![p].read = db.notes[o].counted]
        /\ Goto(p, "stamping")
        /\ UNCHANGED <<owner, books>>

\* The metadata that was read, with superseded_by added, written back.
Stamp(p) ==
    LET o == job[p].old
    IN  /\ pc[p] = "stamping"
        /\ Autocommit(p, [db EXCEPT !.notes[o].by = job[p].note,
                                    !.notes[o].counted = job[p].read])
        /\ Goto(p, IF Hard(job[p].note, o) THEN "relating" ELSE "marking")
        /\ UNCHANGED <<owner, job, books>>

Relate(p) ==
    /\ pc[p] = "relating"
    /\ Autocommit(p, [db EXCEPT !.edges = @ \cup
            {[from |-> job[p].note, to |-> job[p].old, kind |-> "forget_cascade"]}])
    /\ Goto(p, "marking")
    /\ UNCHANGED <<owner, job, books>>

\* A statement of the scan fails (another connection wrote after the SELECT
\* began, or holds the lock past the timeout): the row is left half done.
MarkFails(p) ==
    /\ pc[p] \in {"marking", "stamping", "relating"}
    /\ p \notin fresh \/ owner # Nobody
    /\ \/ /\ pc[p] = "marking"
          /\ \E o \in job[p].todo : job' = [job EXCEPT ![p].todo = @ \ {o}]
       \/ pc[p] # "marking" /\ UNCHANGED job
    /\ Goto(p, "marking")
    /\ UNCHANGED <<db, work, owner, fresh, books>>

ScanEnds(p) ==
    /\ pc[p] = "marking" /\ job[p].todo = {}
    /\ fresh' = fresh \ {p}
    /\ Goto(p, "linking")
    /\ UNCHANGED <<db, work, owner, job, books>>

\* Variant: the candidates of every project.
Linkable_AnyProject(p, n, rows) ==
    {o \in Candidates(rows, rows[n].layer) \ {n} :
        /\ rows[o].vec = rows[n].vec
        /\ Sim[<<rows[n].text, rows[o].text>>] \in LinkAt..(DedupAt - 1)}

\* link_related: the MaxLinks most similar live notes of layer and project.
\* Each INSERT commits by itself and its failure is only logged.
Linkable(p, n, rows) ==
    LET near == {o \in Candidates([m \in Note |-> [rows[m] EXCEPT !.active =
                     @ /\ rows[m].project = ProjectOf[p] /\ rows[m].state = "active"]],
                   rows[n].layer) :
                   /\ o # n /\ rows[o].vec = rows[n].vec
                   /\ Sim[<<rows[n].text, rows[o].text>>] \in LinkAt..(DedupAt - 1)}
    IN  {o \in near : Cardinality({m \in near :
            Sim[<<rows[n].text, rows[m].text>>] > Sim[<<rows[n].text, rows[o].text>>]})
              < MaxLinks}

Link(p) ==
    LET n == job[p].note
    IN  /\ pc[p] = "linking"
        /\ \E K \in SUBSET Linkable(p, n, db.notes) :
              /\ Cardinality(K) <= MaxLinks
              /\ K # {} => owner = Nobody
              /\ LET image == [db EXCEPT !.edges = @ \cup
                        {[from |-> n, to |-> o, kind |-> "supports"] : o \in K}]
                 IN  IF image = db THEN UNCHANGED <<db, work, fresh>>
                     ELSE Publish(p, image) /\ work' = image
        /\ Done(p)
        /\ UNCHANGED <<owner, books>>

\* A process dies anywhere; SQLite drops its transaction, the archive keeps
\* the line it may have been writing.
Crash(p) ==
    /\ pc[p] # "idle" \/ owner = p
    /\ Done(p)
    /\ IF owner = p THEN owner' = Nobody /\ work' = db ELSE UNCHANGED <<owner, work>>
    /\ fresh' = fresh \ {p}
    /\ archive' \in IF pc[p] = "appending" THEN {archive, archive \cup {job[p].note}}
                   ELSE {archive}
    /\ UNCHANGED <<db, next, seeded, reported>>

Step(p) ==
    \/ FindExact(p) \/ Compare(p) \/ Begin(p) \/ BeginFails(p)
    \/ WriteNote(p) \/ WriteCheckpoint(p) \/ WriteOutcome(p) \/ WriteFails(p)
    \/ Append(p) \/ AppendFails(p) \/ Feedback(p) \/ FeedbackFails(p)
    \/ Commit(p) \/ CommitFails(p)
    \/ Scan(p) \/ Mark(p) \/ Stamp(p) \/ Relate(p) \/ MarkFails(p) \/ ScanEnds(p)
    \/ Link(p)

Next ==
    \E p \in Process :
        \/ \E t \in Text, l \in {"verified_fact", "event_log"}, v \in {"none", "new"} :
              AddMemory(p, t, l, v)
        \/ \E k \in Task, t \in Text : SaveCheckpoint(p, k, t)
        \/ \E n \in Note : ReportOutcome(p, n)
        \/ Step(p)
        \/ Crash(p)

Spec == Init /\ [][Next]_vars
----------------------------------------------------------------------------
Written(n) == db.notes[n].present /\ n \notin seeded

\* No reader sees a note of this path without its archive line and reference,
\* whatever fails or dies between the append and the COMMIT.
ArchivedWhenVisible ==
    \A n \in Note : Written(n) => db.notes[n].ref /\ n \in archive

\* However many processes save a task's checkpoints, one is active at most.
OneCheckpoint ==
    \A n, m \in Note :
        /\ db.notes[n].active /\ db.notes[m].active
        /\ db.notes[n].task = db.notes[m].task /\ db.notes[n].task # Nobody
        => n = m

\* A success count is exactly the outcomes answered Ok(true): neither another
\* process's scan nor a wedged or dead connection loses one.
OutcomesKept == \A n \in Note : db.notes[n].counted = reported[n]

\* superseded_by and the relations name committed notes only, a forgotten note
\* is superseded, and a support never leaves its project.
EdgesAreReal ==
    /\ \A n \in Note : db.notes[n].by # None => db.notes[db.notes[n].by].present
    /\ \A e \in db.edges :
          /\ db.notes[e.from].present /\ db.notes[e.to].present /\ e.from # e.to
          /\ e.kind = "forget_cascade" =>
                ~db.notes[e.to].active /\ db.notes[e.to].state = "superseded"
          /\ e.kind = "supports" => db.notes[e.from].project = db.notes[e.to].project

\* "AI CANNOT directly write to identity_schema": no step of this path
\* changes an L0 row.
L0Untouched ==
    [][\A n \in Note : db.notes[n].layer = "identity_schema" =>
            db'.notes[n] = db.notes[n]]_vars
=============================================================================
