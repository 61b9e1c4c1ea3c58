-------------------------- MODULE NoteStoreProofs --------------------------
(***************************************************************************)
(* Theorems of NoteStore, for every set of processes, texts and tasks, every  *)
(* similarity and every database of before.                                 *)
(***************************************************************************)
EXTENDS NoteStore, FiniteSetTheorems, TLAPS

\* A call that holds the write lock.
Inside(p) == pc[p] \in {"writing", "appending", "feedback", "committing"}

\* Nobody but the owner is inside a transaction, and without an owner there is
\* no image but the committed one.
Locked ==
    /\ \A p \in Process : Inside(p) => owner = p
    /\ owner = Nobody => work = db

\* What holds of either image.
Sound(image) ==
    /\ \A n \in Note :
          LET row == image.notes[n]
          IN  /\ ~row.present => row.counted = 0
              /\ n >= next => ~row.present
              /\ row.by # None => image.notes[row.by].present
    /\ \A n, m \in Note :
          /\ image.notes[n].active /\ image.notes[m].active
          /\ image.notes[n].task = image.notes[m].task /\ image.notes[n].task # Nobody
          => n = m
    /\ \A e \in image.edges :
          /\ image.notes[e.from].present /\ image.notes[e.to].present /\ e.from # e.to
          /\ e.kind = "forget_cascade" =>
                ~image.notes[e.to].active /\ image.notes[e.to].state = "superseded"
          /\ e.kind = "supports" => image.notes[e.from].project = image.notes[e.to].project

\* The columns of a row that is there: what never changes, and what changes
\* one way.
Onward(old, new) ==
    \A n \in Note : old[n].present =>
        /\ new[n].present
        /\ new[n].project = old[n].project /\ new[n].text = old[n].text
        /\ ~old[n].active => ~new[n].active
        /\ old[n].state = "superseded" => new[n].state = "superseded"

\* The note that a transaction has inserted and not yet archived.
Unarchived(n) == \E p \in Process : pc[p] = "appending" /\ job[p].note = n

Archived ==
    \A n \in Note \ seeded :
        /\ db.notes[n].present => db.notes[n].ref /\ n \in archive
        /\ work.notes[n].present =>
              (work.notes[n].ref /\ n \in archive) \/ Unarchived(n)

\* What an open transaction has changed: a report its one count, and the others
\* none; nothing at first; the rows there are when it inserts none.
Draft(p) ==
    /\ pc[p] = "writing" => work = db
    /\ pc[p] \notin {"appending", "committing"} =>
          \A n \in Note : work.notes[n].present => db.notes[n].present
    /\ Inside(p) =>
          \A n \in Note : work.notes[n].counted = db.notes[n].counted
              + (IF job[p].op = "report" /\ pc[p] # "writing" /\ n = job[p].target THEN 1 ELSE 0)

\* The note of a call whose transaction is open, and then committed.
NoteIn(p, rows) ==
    /\ job[p].note \in Note
    /\ rows[job[p].note].present /\ rows[job[p].note].project = ProjectOf[p]

Present(n) == n \in Note /\ db.notes[n].present
Forgotten(n) == ~db.notes[n].active /\ db.notes[n].state = "superseded"

\* What a call carries from one step to the next.
JobOK(p) ==
    LET j == job[p]
    IN  /\ j.op = "add" => j.task = Nobody
        /\ j.op = "report" => j.target \in Note
        /\ pc[p] \in {"probing", "comparing", "ready", "writing"} /\ j.old # None => Present(j.old)
        /\ pc[p] = "writing" /\ j.op # "report" => next <= MaxNote
        /\ pc[p] = "appending" => j.op # "report" /\ NoteIn(p, work.notes)
        /\ pc[p] = "feedback" => j.op = "report"
        /\ pc[p] = "committing" /\ j.op = "add" => NoteIn(p, work.notes)
        /\ pc[p] \in {"scanning", "marking", "stamping", "relating", "linking"} =>
              NoteIn(p, db.notes)
        /\ pc[p] \in {"marking", "stamping", "relating"} =>
              \A o \in j.todo : Present(o) /\ o # j.note
        /\ pc[p] \in {"stamping", "relating"} => Present(j.old) /\ j.old # j.note
        /\ pc[p] = "stamping" /\ p \in fresh => j.read = db.notes[j.old].counted
        /\ pc[p] = "stamping" /\ Hard(j.note, j.old) => Forgotten(j.old)
        /\ pc[p] = "relating" => Forgotten(j.old)

IInv ==
    /\ TypeOK
    /\ Locked
    /\ Sound(db) /\ Sound(work)
    /\ Onward(db.notes, work.notes)
    /\ Archived
    /\ \A p \in Process : JobOK(p)
    /\ \A p \in Process : owner = p => Draft(p)
    /\ OutcomesKept

----------------------------------------------------------------------------
\* Types.
LEMMA JobTypes == ASSUME IInv, NEW p \in Process PROVE job[p] \in Job /\ NoJob \in Job
<1>1. (CHOOSE t \in Text : TRUE) \in Text
    BY NoteStoreAssumption
<1>2. NoJob \in Job
    BY <1>1, NoteStoreAssumption DEF NoJob, Job, None
<1>3. QED
    BY <1>2 DEF IInv, TypeOK

LEMMA NewNoteType == ASSUME IInv, NEW p \in Process PROVE NewNote(p) \in NoteRec
<1>1. ProjectOf[p] \in Project
    BY NoteStoreAssumption
<1>2. job[p] \in Job
    BY JobTypes
<1>3. QED
    BY <1>1, <1>2, NoteStoreAssumption DEF NewNote, NoteRec, Job, None

\* The lock owner, and nobody else, is inside a transaction.
LEMMA OnlyOwner ==
    ASSUME IInv, NEW p \in Process, Inside(p)
    PROVE  /\ owner = p /\ Draft(p)
           /\ \A q \in Process : Inside(q) => q = p
BY DEF IInv, Locked

LEMMA NobodyInside ==
    ASSUME IInv, owner = Nobody
    PROVE  work = db /\ \A q \in Process : ~Inside(q)
BY NoteStoreAssumption DEF IInv, Locked

\* What the calls of others carry stays true when the committed image moves
\* onward and those that are inside keep their transaction.
LEMMA OthersOK ==
    ASSUME IInv, NEW q \in Process, pc'[q] = pc[q], job'[q] = job[q],
           Onward(db.notes, db'.notes),
           q \in fresh' => q \in fresh /\ db' = db,
           Inside(q) => next' = next /\ work' = work
    PROVE  JobOK(q)'
<1>1. JobOK(q)
    BY DEF IInv
<1>2. ASSUME NEW n, Present(n)
      PROVE  /\ Present(n)' /\ db'.notes[n].text = db.notes[n].text
             /\ db'.notes[n].project = db.notes[n].project
             /\ Forgotten(n) => Forgotten(n)'
    BY <1>2 DEF Present, Forgotten, Onward
<1>3. NoteIn(q, db.notes) => Present(job[q].note) /\ NoteIn(q, db.notes)'
    BY <1>2 DEF NoteIn, Present
<1>4. ASSUME pc[q] \in {"stamping"}, Hard(job[q].note, job[q].old)'
      PROVE  Hard(job[q].note, job[q].old)
    <2>1. Present(job[q].note) /\ Present(job[q].old)
        BY <1>1, <1>3, <1>4 DEF JobOK
    <2>2. QED
        BY <1>2, <1>4, <2>1 DEF Hard
<1>5. pc[q] \in {"writing", "appending", "committing"} => Inside(q)
    BY DEF Inside
<1>6. NoteIn(q, work.notes) /\ work' = work => NoteIn(q, work.notes)'
    BY DEF NoteIn
<1>7. QED
    BY <1>1, <1>2, <1>3, <1>4, <1>5, <1>6 DEF JobOK

LEMMA SameRowsOnward == ASSUME NEW rows PROVE Onward(rows, rows)
BY DEF Onward

----------------------------------------------------------------------------
\* Steps that change neither image nor its owner.
LEMMA Quiet ==
    ASSUME IInv, NEW p \in Process, NEW w, NEW j \in Job,
           pc' = [pc EXCEPT ![p] = w], job' = [job EXCEPT ![p] = j],
           UNCHANGED <<db, work, owner, books>>,
           fresh' \subseteq Process, fresh' \ {p} \subseteq fresh,
           pc[p] \notin {"appending", "committing"},
           w \in {"idle", "probing", "comparing", "ready", "committing", "scanning",
                  "marking", "stamping", "relating", "linking"},
           w = "committing" => pc[p] = "feedback" /\ j = job[p],
           JobOK(p)'
    PROVE  IInv'
<1> USE DEF books
<1>1. /\ pc'[p] = w /\ job'[p] = j
      /\ \A q \in Process \ {p} : pc'[q] = pc[q] /\ job'[q] = job[q]
    BY DEF IInv, TypeOK
<1>2. TypeOK'
    BY DEF IInv, TypeOK, Image
<1>3. Locked'
    BY <1>1 DEF IInv, Locked, Inside
<1>4. Sound(db)' /\ Sound(work)' /\ Onward(db.notes, work.notes)'
    BY DEF IInv, Sound, Onward
<1>5. Archived'
    <2>1. \A n : Unarchived(n) => Unarchived(n)'
        BY <1>1 DEF Unarchived
    <2>2. QED
        BY <2>1 DEF IInv, Archived
<1>6. ASSUME NEW q \in Process PROVE JobOK(q)'
    BY <1>1, OthersOK, SameRowsOnward
<1>7. ASSUME NEW q \in Process, owner' = q PROVE Draft(q)'
    <2>1. Draft(q)
        BY <1>7 DEF IInv
    <2>2. CASE q # p
        BY <1>1, <2>1, <2>2 DEF Draft, Inside
    <2>3. CASE q = p /\ w = "committing"
        BY <1>1, <2>1, <2>3 DEF Draft, Inside
    <2>4. CASE q = p /\ w # "committing"
        BY <1>1, <2>1, <2>4 DEF Draft, Inside
    <2>5. QED
        BY <2>2, <2>3, <2>4
<1>8. OutcomesKept'
    BY DEF IInv, OutcomesKept
<1>9. QED
    BY <1>2, <1>3, <1>4, <1>5, <1>6, <1>7, <1>8 DEF IInv

\* An open transaction goes with the call that began it.
LEMMA RolledBack ==
    ASSUME IInv, NEW p \in Process, Done(p), db' = db,
           \/ owner = p /\ owner' = Nobody /\ work' = db
           \/ owner # p /\ UNCHANGED <<owner, work>>,
           fresh' \subseteq fresh, archive \subseteq archive', archive' \subseteq Note,
           UNCHANGED <<next, seeded, reported>>
    PROVE  IInv'
<1>1. /\ pc'[p] = "idle" /\ job'[p] = NoJob
      /\ \A q \in Process \ {p} : pc'[q] = pc[q] /\ job'[q] = job[q]
    BY DEF IInv, TypeOK, Done, Goto
<1>2. TypeOK'
    BY JobTypes DEF IInv, TypeOK, Done, Goto, Image
<1>3. Locked'
    BY <1>1 DEF IInv, Locked, Inside
<1>4. Sound(db)' /\ Sound(work)'
    BY DEF IInv, Sound
<1>5. Onward(db.notes, work.notes)'
    BY SameRowsOnward DEF IInv
<1>6. Archived'
    <2>1. ASSUME NEW n, Unarchived(n), owner # p PROVE Unarchived(n)'
        BY <1>1, <2>1, OnlyOwner DEF Unarchived, Inside
    <2>2. QED
        BY <2>1 DEF IInv, Archived
<1>7. ASSUME NEW q \in Process PROVE JobOK(q)'
    <2>1. CASE q = p
        BY <1>1, <2>1 DEF JobOK, NoJob, None
    <2>2. CASE q # p
        <3>1. Inside(q) => work' = work
            BY <2>2, OnlyOwner
        <3>2. QED
            BY <1>1, <2>2, <3>1, OthersOK, SameRowsOnward
    <2>3. QED
        BY <2>1, <2>2
<1>8. ASSUME NEW q \in Process, owner' = q PROVE Draft(q)'
    BY <1>1, <1>8, NoteStoreAssumption DEF IInv, Draft, Inside
<1>9. OutcomesKept'
    BY DEF IInv, OutcomesKept
<1>10. QED
    BY <1>2, <1>3, <1>4, <1>5, <1>6, <1>7, <1>8, <1>9 DEF IInv

\* A statement that commits by itself.
LEMMA Autocommits ==
    ASSUME IInv, NEW p \in Process, NEW w, NEW j \in Job, NEW image \in Image,
           owner = Nobody, Publish(p, image), work' = image,
           Sound(image), Onward(db.notes, image.notes),
           \A n \in Note : /\ image.notes[n].present => db.notes[n].present
                           /\ db.notes[n].ref => image.notes[n].ref
                           /\ image.notes[n].counted = db.notes[n].counted,
           pc' = [pc EXCEPT ![p] = w], job' = [job EXCEPT ![p] = j],
           w \in {"idle", "marking", "stamping", "relating", "linking"},
           JobOK(p)', UNCHANGED <<owner, books>>
    PROVE  IInv'
<1> USE DEF books, Publish
<1>1. /\ pc'[p] = w /\ job'[p] = j
      /\ \A q \in Process \ {p} : pc'[q] = pc[q] /\ job'[q] = job[q]
    BY DEF IInv, TypeOK
<1>2. TypeOK'
    BY DEF IInv, TypeOK
<1>3. Locked'
    BY <1>1 DEF IInv, Locked, Inside
<1>4. Sound(db)' /\ Sound(work)'
    BY DEF IInv, Sound
<1>5. Onward(db.notes, work.notes)'
    BY SameRowsOnward
<1>6. Archived'
    BY DEF IInv, Archived
<1>7. ASSUME NEW q \in Process PROVE JobOK(q)'
    BY <1>1, OthersOK, NobodyInside
<1>8. ASSUME NEW q \in Process, owner' = q PROVE Draft(q)'
    BY <1>8, NoteStoreAssumption
<1>9. OutcomesKept'
    BY DEF IInv, OutcomesKept
<1>10. QED
    BY <1>2, <1>3, <1>4, <1>5, <1>6, <1>7, <1>8, <1>9 DEF IInv

----------------------------------------------------------------------------
\* The calls, and the reads before a transaction.
LEMMA CallIInv ==
    ASSUME IInv, NEW p \in Process, NEW j \in Job, NEW w \in {"probing", "ready"},
           Call(p, j, w), j.op = "add" => j.task = Nobody,
           j.op = "report" => j.target \in Note, j.old = None
    PROVE  IInv'
<1>1. JobOK(p)'
    BY DEF IInv, TypeOK, Call, Goto, JobOK
<1>2. QED
    BY <1>1, Quiet DEF Call, Goto, books, IInv, TypeOK

LEMMA AddMemoryIInv ==
    ASSUME IInv, NEW p \in Process, NEW t \in Text, NEW l \in {"verified_fact", "event_log"},
           NEW v \in {"none", "new"}, AddMemory(p, t, l, v)
    PROVE  IInv'
<1> DEFINE j == [NoJob EXCEPT !.text = t, !.layer = l, !.vec = v]
<1>1. /\ j \in Job /\ j.op = "add" /\ j.task = Nobody /\ j.old = None
    BY JobTypes DEF NoJob, Job
<1>2. QED
    BY <1>1, CallIInv DEF AddMemory

LEMMA SaveCheckpointIInv ==
    ASSUME IInv, NEW p \in Process, NEW k \in Task, NEW t \in Text, SaveCheckpoint(p, k, t)
    PROVE  IInv'
<1> DEFINE j == [NoJob EXCEPT !.op = "checkpoint", !.task = k, !.text = t, !.vec = "new"]
<1>1. j \in Job /\ j.op = "checkpoint" /\ j.old = None
    BY JobTypes DEF NoJob, Job
<1>2. QED
    BY <1>1, CallIInv DEF SaveCheckpoint

LEMMA ReportOutcomeIInv ==
    ASSUME IInv, NEW p \in Process, NEW n \in Note, ReportOutcome(p, n)
    PROVE  IInv'
<1> DEFINE j == [NoJob EXCEPT !.op = "report", !.target = n]
<1>1. n \in 0..MaxNote
    BY NoteStoreAssumption DEF Note
<1>2. j \in Job /\ j.op = "report" /\ j.target = n /\ j.old = None
    BY <1>1, JobTypes DEF NoJob, Job
<1>3. QED
    BY <1>2, CallIInv DEF ReportOutcome

\* The same job, and an answer.
LEMMA SameJob ==
    ASSUME IInv, NEW p \in Process
    PROVE  job = [job EXCEPT ![p] = job[p]]
BY DEF IInv, TypeOK

LEMMA DoneIInv ==
    ASSUME IInv, NEW p \in Process, pc[p] \notin {"appending", "committing"}, Done(p),
           UNCHANGED <<db, work, owner, fresh, books>>
    PROVE  IInv'
<1>1. JobOK(p)'
    BY DEF IInv, TypeOK, Done, Goto, JobOK, NoJob, None
<1>2. QED
    BY <1>1, Quiet, JobTypes DEF Done, Goto, IInv, TypeOK

LEMMA FindExactIInv == ASSUME IInv, NEW p \in Process, FindExact(p) PROVE IInv'
<1>1. pc[p] = "probing" /\ UNCHANGED <<db, work, owner, fresh, books>>
    BY DEF FindExact
<1>2. CASE Done(p)
    BY <1>1, <1>2, DoneIInv
<1>3. ASSUME NEW w \in {"ready", "comparing"}, Goto(p, w), UNCHANGED job PROVE IInv'
    <2>1. JobOK(p)'
        BY <1>1, <1>3 DEF IInv, TypeOK, Goto, JobOK, Present
    <2>2. QED
        BY <1>1, <1>3, <2>1, Quiet, SameJob, JobTypes DEF Goto, IInv, TypeOK
<1>4. QED
    BY <1>2, <1>3 DEF FindExact

\* A note that a connection sees outside a transaction of its own is committed.
LEMMA SeenIsPresent ==
    ASSUME IInv, NEW p \in Process, pc[p] = "comparing", NEW n \in Note, View(p)[n].present
    PROVE  Present(n)
BY DEF IInv, Draft, View, Present

LEMMA CompareIInv == ASSUME IInv, NEW p \in Process, Compare(p) PROVE IInv'
<1> DEFINE best == BestMatch(View(p), job[p])
           Above(t) == {n \in best : Sim[<<job[p].text, View(p)[n].text>>] >= t}
           old == IF Above(SupersedeAt) = {} THEN None
                  ELSE CHOOSE n \in Above(SupersedeAt) : TRUE
           j == [job[p] EXCEPT !.old = old]
<1>1. pc[p] = "comparing" /\ UNCHANGED <<db, work, owner, fresh, books>>
    BY DEF Compare
<1>2. \A n \in best : Present(n)
    BY <1>1, SeenIsPresent DEF BestMatch, Candidates
<1>3. old = None \/ Present(old)
    BY <1>2
<1>4. CASE Done(p)
    BY <1>1, <1>4, DoneIInv
<1>5. CASE Goto(p, "ready") /\ job' = [job EXCEPT ![p] = j]
    <2> HIDE DEF old
    <2>0. old \in 0..MaxNote
        BY <1>3, NoteStoreAssumption DEF Present, Note, None
    <2>1. j \in Job
        BY <2>0, JobTypes DEF Job
    <2>2. JobOK(p)'
        BY <1>1, <1>3, <1>5, <2>1 DEF IInv, TypeOK, Goto, JobOK, Present, Job
    <2>3. QED
        BY <1>1, <1>5, <2>1, <2>2, Quiet DEF Goto, IInv, TypeOK
<1>6. [job EXCEPT ![p].old = old] = [job EXCEPT ![p] = j]
    BY DEF IInv, TypeOK
<1>7. QED
    BY <1>4, <1>5, <1>6 DEF Compare

LEMMA BeginFailsIInv == ASSUME IInv, NEW p \in Process, BeginFails(p) PROVE IInv'
BY DoneIInv DEF BeginFails

----------------------------------------------------------------------------
\* The transaction.
LEMMA BeginIInv == ASSUME IInv, NEW p \in Process, Begin(p) PROVE IInv'
<1>1. /\ pc'[p] = "writing" /\ job' = job /\ owner = Nobody /\ owner' = p
      /\ \A q \in Process \ {p} : pc'[q] = pc[q]
      /\ UNCHANGED <<db, fresh, archive, next, seeded, reported>> /\ work' = db
    BY DEF IInv, TypeOK, Begin, Goto, books
<1>2. TypeOK'
    BY <1>1 DEF IInv, TypeOK, Begin, Goto
<1>3. Locked'
    BY <1>1, NobodyInside, NoteStoreAssumption DEF Locked, Inside
<1>4. Sound(db)' /\ Sound(work)'
    BY <1>1 DEF IInv, Sound
<1>5. Onward(db.notes, work.notes)'
    BY <1>1, SameRowsOnward
<1>6. Archived'
    BY <1>1 DEF IInv, Archived
<1>7. ASSUME NEW q \in Process PROVE JobOK(q)'
    <2>1. CASE q = p
        BY <1>1, <2>1 DEF IInv, JobOK, Begin, Present
    <2>2. CASE q # p
        BY <1>1, <2>2, NobodyInside, OthersOK, SameRowsOnward
    <2>3. QED
        BY <2>1, <2>2
<1>8. ASSUME NEW q \in Process, owner' = q PROVE Draft(q)'
    <2>1. \A n \in Note : db.notes[n].counted \in Nat
        BY DEF IInv, TypeOK, Image, NoteRec
    <2>2. QED
        BY <1>1, <1>8, <2>1 DEF Draft
<1>9. OutcomesKept'
    BY <1>1 DEF IInv, OutcomesKept
<1>10. QED
    BY <1>2, <1>3, <1>4, <1>5, <1>6, <1>7, <1>8, <1>9 DEF IInv

\* What a statement of the transaction has to leave behind.
LEMMA Drafts ==
    ASSUME IInv, NEW p \in Process, Inside(p), NEW image \in Image, NEW w, NEW j \in Job,
           w \in {"appending", "feedback", "committing"},
           work' = image, pc' = [pc EXCEPT ![p] = w], job' = [job EXCEPT ![p] = j],
           UNCHANGED <<db, owner, fresh, seeded, reported>>,
           next' \in {next, next + 1}, next' \in 1..(MaxNote + 1),
           archive \subseteq archive', archive' \subseteq Note,
           Sound(work)', Onward(db.notes, image.notes), Draft(p)', JobOK(p)',
           \A n \in Note \ seeded : image.notes[n].present =>
              (image.notes[n].ref /\ n \in archive') \/ (w = "appending" /\ j.note = n)
    PROVE  IInv'
<1>1. /\ pc'[p] = w /\ job'[p] = j
      /\ \A q \in Process \ {p} : pc'[q] = pc[q] /\ job'[q] = job[q]
    BY DEF IInv, TypeOK
<1>2. TypeOK'
    BY DEF IInv, TypeOK
<1>3. Locked'
    BY <1>1, OnlyOwner, NoteStoreAssumption DEF IInv, Locked, Inside
<1>4. Sound(db)'
    <2>1. \A n \in Note : n >= next' => n >= next
        BY NoteStoreAssumption DEF IInv, TypeOK, Note
    <2>2. QED
        BY <2>1 DEF IInv, Sound
<1>5. Archived'
    BY <1>1 DEF IInv, Archived, Unarchived
<1>6. ASSUME NEW q \in Process PROVE JobOK(q)'
    <2>1. q # p => ~Inside(q)
        BY OnlyOwner
    <2>2. QED
        BY <1>1, <2>1, OthersOK, SameRowsOnward
<1>7. ASSUME NEW q \in Process, owner' = q PROVE Draft(q)'
    BY <1>7, OnlyOwner
<1>8. OutcomesKept'
    BY DEF IInv, OutcomesKept
<1>9. QED
    BY <1>2, <1>3, <1>4, <1>5, <1>6, <1>7, <1>8 DEF IInv

LEMMA WriteNoteIInv == ASSUME IInv, NEW p \in Process, WriteNote(p) PROVE IInv'
<1> DEFINE j == job[p]
           old == {j.old} \ {None}
           rows == [n \in Note |-> CASE n = next   -> NewNote(p)
                                     [] n \in old  -> Deactivated(work.notes[n], next)
                                     [] OTHER      -> work.notes[n]]
           image == [notes |-> rows,
                     edges |-> work.edges \cup
                        {[from |-> next, to |-> o, kind |-> "forget_cascade"] : o \in old}]
           k == [j EXCEPT !.note = next]
<1>1. /\ pc[p] = "writing" /\ j.op = "add" /\ work' = image
      /\ next' = next + 1 /\ pc' = [pc EXCEPT ![p] = "appending"]
      /\ job' = [job EXCEPT ![p] = k]
      /\ UNCHANGED <<db, owner, fresh, archive, seeded, reported>>
    BY DEF WriteNote, Goto, IInv, TypeOK
<1>2. work = db /\ owner = p
    BY <1>1, OnlyOwner DEF Inside, Draft
<1>3. next \in Note /\ next \in 0..MaxNote /\ next + 1 \in 1..(MaxNote + 1)
    BY <1>1, NoteStoreAssumption DEF IInv, JobOK, TypeOK, Note
<1>4. \A o \in old : o \in Note /\ db.notes[o].present /\ o # next
    <2>1. ~db.notes[next].present
        BY <1>3 DEF IInv, Sound, TypeOK
    <2>2. QED
        BY <1>1, <2>1 DEF IInv, JobOK, Present
<1>5. j \in Job /\ k \in Job /\ k.note = next /\ k.op = "add" /\ k.task = Nobody
    <2>1. j \in Job
        BY JobTypes
    <2>2. k \in Job
        BY <1>3, <2>1 DEF Job
    <2>3. j.task = Nobody
        BY <1>1 DEF IInv, JobOK
    <2>4. QED
        BY <1>1, <2>1, <2>2, <2>3 DEF Job
<1>6. /\ NewNote(p).present /\ NewNote(p).counted = 0 /\ NewNote(p).by = None
      /\ NewNote(p).task = Nobody /\ NewNote(p).project = ProjectOf[p]
      /\ NewNote(p) \in NoteRec
    BY <1>5, NewNoteType DEF NewNote
<1>7. ASSUME NEW r \in NoteRec
      PROVE  LET d == Deactivated(r, next)
             IN  /\ d \in NoteRec /\ d.present = r.present /\ d.counted = r.counted
                 /\ d.by = next /\ ~d.active /\ d.state = "superseded" /\ d.ref = r.ref
                 /\ d.project = r.project /\ d.text = r.text /\ d.task = r.task
    BY <1>3 DEF Deactivated, NoteRec
<1>8. db.notes \in [Note -> NoteRec] /\ db.edges \subseteq Edge
    BY DEF IInv, TypeOK, Image
<1>9. \A n \in Note :
          /\ n = next => rows[n] = NewNote(p)
          /\ n \in old => rows[n] = Deactivated(db.notes[n], next)
          /\ n # next /\ n \notin old => rows[n] = db.notes[n]
    BY <1>2, <1>4
<1> HIDE DEF rows, old, k
<1>10. rows \in [Note -> NoteRec]
    BY <1>2, <1>6, <1>7, <1>8 DEF rows
<1>11. image \in Image
    BY <1>2, <1>3, <1>4, <1>8, <1>10 DEF Image, Edge
<1>12. \A n \in Note :
          /\ n = next => rows[n].present /\ rows[n].counted = 0 /\ rows[n].by = None
                         /\ rows[n].task = Nobody
          /\ n # next => /\ rows[n].present = db.notes[n].present
                         /\ rows[n].counted = db.notes[n].counted
                         /\ rows[n].project = db.notes[n].project
                         /\ rows[n].text = db.notes[n].text
                         /\ rows[n].task = db.notes[n].task /\ rows[n].ref = db.notes[n].ref
                         /\ rows[n].active => db.notes[n].active
                         /\ rows[n].by \in {next, db.notes[n].by}
                         /\ db.notes[n].state = "superseded" => rows[n].state = "superseded"
          /\ n \in old => ~rows[n].active /\ rows[n].state = "superseded"
    BY <1>4, <1>6, <1>7, <1>8, <1>9
<1>13. ~db.notes[next].present /\ db.notes[next].counted = 0
    BY <1>3 DEF IInv, Sound, TypeOK
<1>14. Sound(work)'
    <2>1. ASSUME NEW n \in Note
          PROVE  /\ ~rows[n].present => rows[n].counted = 0
                 /\ n >= next + 1 => ~rows[n].present
                 /\ rows[n].by # None => rows[rows[n].by].present
        <3>1. /\ ~db.notes[n].present => db.notes[n].counted = 0
              /\ n >= next => ~db.notes[n].present
              /\ db.notes[n].by # None => db.notes[db.notes[n].by].present
            BY DEF IInv, Sound
        <3>2. db.notes[n].by # None => db.notes[n].by \in Note
            BY <1>8, NoteStoreAssumption DEF NoteRec, Note, None
        <3>3. n >= next + 1 => n >= next /\ n # next
            BY <1>3, NoteStoreAssumption DEF Note
        <3>4. QED
            BY <1>3, <1>12, <3>1, <3>2, <3>3
    <2>2. ASSUME NEW n \in Note, NEW m \in Note, rows[n].active, rows[m].active,
                 rows[n].task = rows[m].task, rows[n].task # Nobody
          PROVE  n = m
        BY <1>12, <2>2 DEF IInv, Sound
    <2>3. ASSUME NEW e \in image.edges
          PROVE  /\ rows[e.from].present /\ rows[e.to].present /\ e.from # e.to
                 /\ e.kind = "forget_cascade" => ~rows[e.to].active /\ rows[e.to].state = "superseded"
                 /\ e.kind = "supports" => rows[e.from].project = rows[e.to].project
        <3>1. CASE e \in db.edges
            <4>1. e.from \in Note /\ e.to \in Note
                BY <1>8, <3>1 DEF Edge
            <4>2. /\ db.notes[e.from].present /\ db.notes[e.to].present /\ e.from # e.to
                  /\ e.kind = "forget_cascade" =>
                        ~db.notes[e.to].active /\ db.notes[e.to].state = "superseded"
                  /\ e.kind = "supports" => db.notes[e.from].project = db.notes[e.to].project
                BY <3>1 DEF IInv, Sound
            <4>3. QED
                BY <1>12, <1>13, <4>1, <4>2
        <3>2. CASE e \notin db.edges
            <4>1. PICK o \in old : e = [from |-> next, to |-> o, kind |-> "forget_cascade"]
                BY <1>2, <2>3, <3>2
            <4>2. QED
                BY <1>3, <1>4, <1>12, <4>1
        <3>3. QED
            BY <3>1, <3>2
    <2>4. QED
        BY <1>1, <2>1, <2>2, <2>3 DEF Sound
<1>15. Onward(db.notes, image.notes)
    BY <1>12, <1>13 DEF Onward
<1>16. Draft(p)'
    <2>1. \A n \in Note : db.notes[n].counted \in Nat
        BY <1>8 DEF NoteRec
    <2>2. job'[p] = k /\ pc'[p] = "appending"
        BY <1>1 DEF IInv, TypeOK
    <2>3. QED
        BY <1>1, <1>5, <1>12, <1>13, <2>1, <2>2 DEF Draft
<1>17. JobOK(p)'
    <2>1. job'[p] = k /\ pc'[p] = "appending"
        BY <1>1 DEF IInv, TypeOK
    <2>2. NoteIn(p, work.notes)'
        BY <1>1, <1>3, <1>5, <1>6, <1>9, <2>1 DEF NoteIn
    <2>3. QED
        BY <1>5, <2>1, <2>2 DEF JobOK
<1>18. \A n \in Note \ seeded : image.notes[n].present =>
            (image.notes[n].ref /\ n \in archive') \/ k.note = n
    BY <1>1, <1>5, <1>12 DEF IInv, Archived
<1>19. Inside(p) /\ archive \subseteq Note /\ next' \in 1..(MaxNote + 1)
    BY <1>1, <1>3 DEF Inside, IInv, TypeOK
<1>20. QED
    BY <1>1, <1>5, <1>11, <1>14, <1>15, <1>16, <1>17, <1>18, <1>19, Drafts

\* Deactivating checkpoints changes nothing else of a row.
LEMMA RetireOnly ==
    ASSUME NEW rows \in [Note -> NoteRec], NEW task, NEW keep
    PROVE  LET after == Retire(rows, task, keep)
           IN  /\ after \in [Note -> NoteRec]
               /\ \A n \in Note :
                     /\ after[n].present = rows[n].present /\ after[n].counted = rows[n].counted
                     /\ after[n].by = rows[n].by /\ after[n].ref = rows[n].ref
                     /\ after[n].project = rows[n].project /\ after[n].text = rows[n].text
                     /\ after[n].task = rows[n].task /\ after[n].state = rows[n].state
                     /\ after[n].active =>
                           rows[n].active /\ (rows[n].task = task => n \in keep)
<1> DEFINE after == Retire(rows, task, keep)
<1>1. ASSUME NEW n \in Note
      PROVE  /\ after[n] \in NoteRec
             /\ after[n].present = rows[n].present /\ after[n].counted = rows[n].counted
             /\ after[n].by = rows[n].by /\ after[n].ref = rows[n].ref
             /\ after[n].project = rows[n].project /\ after[n].text = rows[n].text
             /\ after[n].task = rows[n].task /\ after[n].state = rows[n].state
             /\ after[n].active => rows[n].active /\ (rows[n].task = task => n \in keep)
    <2>1. rows[n] \in NoteRec
        OBVIOUS
    <2>2. CASE rows[n].task = task /\ n \notin keep
        <3>1. after[n] = [rows[n] EXCEPT !.active = FALSE]
            BY <2>2 DEF Retire
        <3>2. QED
            BY <2>1, <2>2, <3>1 DEF NoteRec
    <2>3. CASE ~(rows[n].task = task /\ n \notin keep)
        <3>1. after[n] = rows[n]
            BY <2>3 DEF Retire
        <3>2. QED
            BY <2>1, <2>3, <3>1
    <2>4. QED
        BY <2>2, <2>3
<1>2. DOMAIN after = Note /\ after = [n \in Note |-> after[n]]
    BY DEF Retire
<1> HIDE DEF after
<1>3. after \in [Note -> NoteRec]
    BY <1>1, <1>2
<1>4. QED
    BY <1>1, <1>3 DEF after

\* The edges and the references between rows stay true when rows only go.
LEMMA RetiredIsSound ==
    ASSUME IInv, NEW rows \in [Note -> NoteRec],
           \A n \in Note :
              /\ rows[n].present = db.notes[n].present /\ rows[n].counted = db.notes[n].counted
              /\ rows[n].by = db.notes[n].by
              /\ rows[n].project = db.notes[n].project
              /\ rows[n].task = db.notes[n].task /\ rows[n].state = db.notes[n].state
              /\ rows[n].active => db.notes[n].active
    PROVE  Sound([notes |-> rows, edges |-> db.edges])
<1> DEFINE image == [notes |-> rows, edges |-> db.edges]
<1>1. db.notes \in [Note -> NoteRec] /\ db.edges \subseteq Edge
    BY DEF IInv, TypeOK, Image
<1>2. \A n \in Note : db.notes[n].by # None => db.notes[n].by \in Note
    BY <1>1, NoteStoreAssumption DEF NoteRec, Note, None
<1>3. \A e \in db.edges : e.from \in Note /\ e.to \in Note
    BY <1>1 DEF Edge
<1>4. Sound(db)
    BY DEF IInv
<1>5. QED
    BY <1>2, <1>3, <1>4 DEF Sound

LEMMA WriteCheckpointIInv == ASSUME IInv, NEW p \in Process, WriteCheckpoint(p) PROVE IInv'
<1> DEFINE j == job[p]
           same == {n \in Note : /\ work.notes[n].active /\ work.notes[n].task = j.task
                                 /\ work.notes[n].text = j.text
                                 /\ work.notes[n].project = ProjectOf[p]}
           newest == {n \in same : \A m \in same : m <= n}
<1>1. /\ pc[p] = "writing" /\ j.op = "checkpoint"
      /\ UNCHANGED <<db, owner, fresh, archive, seeded, reported>>
    BY DEF WriteCheckpoint
<1>2. work = db /\ owner = p /\ Inside(p)
    BY <1>1, OnlyOwner DEF Inside, Draft
<1>3. /\ db.notes \in [Note -> NoteRec] /\ db.edges \subseteq Edge
      /\ db = [notes |-> db.notes, edges |-> db.edges]
    BY DEF IInv, TypeOK, Image
<1>4. j \in Job
    BY JobTypes
<1>5. Sound(db) /\ \A n \in Note : db.notes[n].counted \in Nat
    BY <1>3 DEF IInv, NoteRec
<1>6. CASE same # {}
    <2> DEFINE rows == Retire(db.notes, j.task, newest)
               image == [notes |-> rows, edges |-> db.edges]
    <2>1. work' = image /\ pc' = [pc EXCEPT ![p] = "committing"] /\ job' = job /\ next' = next
        BY <1>2, <1>3, <1>6 DEF WriteCheckpoint, Goto
    <2>2. /\ rows \in [Note -> NoteRec]
          /\ \A n \in Note :
                     /\ rows[n].present = db.notes[n].present /\ rows[n].counted = db.notes[n].counted
                     /\ rows[n].by = db.notes[n].by /\ rows[n].ref = db.notes[n].ref
                     /\ rows[n].project = db.notes[n].project /\ rows[n].text = db.notes[n].text
                     /\ rows[n].task = db.notes[n].task /\ rows[n].state = db.notes[n].state
                     /\ rows[n].active => db.notes[n].active
        <3> HIDE DEF newest, j
        <3>1. QED
            BY <1>3, RetireOnly
    <2> HIDE DEF rows
    <2>3. image \in Image
        BY <1>3, <2>2 DEF Image
    <2>4. Sound(work)'
        BY <2>1, <2>2, RetiredIsSound DEF Sound
    <2>5. Onward(db.notes, image.notes)
        BY <2>2 DEF Onward
    <2>6. job'[p] = j /\ pc'[p] = "committing" /\ job' = [job EXCEPT ![p] = j]
        BY <2>1 DEF IInv, TypeOK
    <2>7. Draft(p)'
        BY <1>1, <1>5, <2>1, <2>2, <2>6 DEF Draft
    <2>8. JobOK(p)'
        BY <1>1, <2>6 DEF JobOK
    <2>9. \A n \in Note \ seeded : image.notes[n].present => image.notes[n].ref /\ n \in archive'
        BY <1>1, <2>2 DEF IInv, Archived
    <2>10. archive \subseteq Note /\ next' \in 1..(MaxNote + 1)
        BY <2>1 DEF IInv, TypeOK
    <2>11. QED
        BY <1>1, <1>2, <1>4, <2>1, <2>3, <2>4, <2>5, <2>6, <2>7, <2>8, <2>9, <2>10, Drafts
<1>7. CASE same = {}
    <2> DEFINE old == Retire(db.notes, j.task, {})
               rows == [old EXCEPT ![next] = NewNote(p)]
               image == [notes |-> rows, edges |-> db.edges]
               k == [j EXCEPT !.note = next]
    <2>1. /\ work' = image /\ pc' = [pc EXCEPT ![p] = "appending"]
          /\ job' = [job EXCEPT ![p] = k] /\ next' = next + 1
        BY <1>2, <1>3, <1>7 DEF WriteCheckpoint, Goto, IInv, TypeOK
    <2>2. /\ old \in [Note -> NoteRec]
          /\ \A n \in Note :
                     /\ old[n].present = db.notes[n].present /\ old[n].counted = db.notes[n].counted
                     /\ old[n].by = db.notes[n].by /\ old[n].ref = db.notes[n].ref
                     /\ old[n].project = db.notes[n].project /\ old[n].text = db.notes[n].text
                     /\ old[n].task = db.notes[n].task /\ old[n].state = db.notes[n].state
                     /\ old[n].active => db.notes[n].active /\ db.notes[n].task # j.task
        <3> HIDE DEF newest, j
        <3>1. QED
            BY <1>3, RetireOnly
    <2> HIDE DEF old
    <2>3. next \in Note /\ next \in 0..MaxNote /\ next + 1 \in 1..(MaxNote + 1)
        BY <1>1, NoteStoreAssumption DEF IInv, JobOK, TypeOK, Note
    <2>4. k \in Job /\ k.op = "checkpoint" /\ k.note = next /\ k.old = j.old
        BY <1>1, <1>4, <2>3 DEF Job
    <2>5. /\ NewNote(p).present /\ NewNote(p).counted = 0 /\ NewNote(p).by = None
          /\ NewNote(p).task = j.task /\ NewNote(p).project = ProjectOf[p]
          /\ NewNote(p) \in NoteRec
        BY NewNoteType DEF NewNote
    <2>6. ~db.notes[next].present /\ db.notes[next].counted = 0
        BY <2>3 DEF IInv, Sound, TypeOK
    <2>7. rows[next] = NewNote(p) /\ \A n \in Note \ {next} : rows[n] = old[n]
        BY <2>2, <2>3
    <2>8. rows \in [Note -> NoteRec]
        BY <2>2, <2>3, <2>5
    <2> HIDE DEF rows
    <2>9. image \in Image
        BY <1>3, <2>8 DEF Image
    <2>10. Sound([notes |-> old, edges |-> db.edges])
        BY <2>2, RetiredIsSound
    <2>11. Sound(work)'
        <3>1. ASSUME NEW n \in Note
              PROVE  /\ ~rows[n].present => rows[n].counted = 0
                     /\ n >= next + 1 => ~rows[n].present
                     /\ rows[n].by # None => rows[rows[n].by].present
            <4>1. /\ ~old[n].present => old[n].counted = 0
                  /\ n >= next => ~old[n].present
                  /\ old[n].by # None => old[old[n].by].present
                BY <2>10 DEF Sound
            <4>2. old[n].by # None => old[n].by \in Note
                BY <2>2, NoteStoreAssumption DEF NoteRec, Note, None
            <4>3. n >= next + 1 => n >= next /\ n # next
                BY <2>3, NoteStoreAssumption DEF Note
            <4>4. QED
                BY <2>3, <2>5, <2>7, <4>1, <4>2, <4>3
        <3>2. ASSUME NEW n \in Note, NEW m \in Note, rows[n].active, rows[m].active,
                     rows[n].task = rows[m].task, rows[n].task # Nobody
              PROVE  n = m
            <4>1. CASE n # next /\ m # next
                BY <2>7, <2>10, <3>2, <4>1 DEF Sound
            <4>2. CASE n = next \/ m = next
                BY <2>2, <2>5, <2>7, <3>2, <4>2
            <4>3. QED
                BY <4>1, <4>2
        <3>3. ASSUME NEW e \in db.edges
              PROVE  /\ rows[e.from].present /\ rows[e.to].present /\ e.from # e.to
                     /\ e.kind = "forget_cascade" => ~rows[e.to].active /\ rows[e.to].state = "superseded"
                     /\ e.kind = "supports" => rows[e.from].project = rows[e.to].project
            <4>1. e.from \in Note /\ e.to \in Note
                BY <1>3, <3>3 DEF Edge
            <4>2. /\ old[e.from].present /\ old[e.to].present /\ e.from # e.to
                  /\ e.kind = "forget_cascade" => ~old[e.to].active /\ old[e.to].state = "superseded"
                  /\ e.kind = "supports" => old[e.from].project = old[e.to].project
                BY <2>10, <3>3 DEF Sound
            <4>3. e.from # next /\ e.to # next
                BY <2>2, <2>3, <2>6, <4>2
            <4>4. QED
                BY <2>7, <4>1, <4>2, <4>3
        <3>4. QED
            BY <2>1, <3>1, <3>2, <3>3 DEF Sound
    <2>12. Onward(db.notes, image.notes)
        BY <2>2, <2>6, <2>7 DEF Onward
    <2>13. job'[p] = k /\ pc'[p] = "appending"
        BY <2>1 DEF IInv, TypeOK
    <2>14. Draft(p)'
        BY <1>1, <1>5, <2>1, <2>2, <2>4, <2>5, <2>6, <2>7, <2>13 DEF Draft
    <2>15. JobOK(p)'
        <3>1. NoteIn(p, work.notes)'
            BY <2>1, <2>3, <2>4, <2>5, <2>7, <2>13 DEF NoteIn
        <3>2. QED
            BY <2>4, <2>13, <3>1 DEF JobOK
    <2>16. \A n \in Note \ seeded : image.notes[n].present =>
                (image.notes[n].ref /\ n \in archive') \/ k.note = n
        BY <1>1, <2>2, <2>4, <2>7 DEF IInv, Archived
    <2>17. archive \subseteq Note /\ next' \in 1..(MaxNote + 1)
        BY <2>1, <2>3 DEF IInv, TypeOK
    <2>18. QED
        BY <1>1, <1>2, <2>1, <2>4, <2>9, <2>11, <2>12, <2>14, <2>15, <2>16, <2>17, Drafts
<1>8. QED
    BY <1>6, <1>7

\* One row is replaced by one that differs in a column no other row depends on.
LEMMA RowStaysSound ==
    ASSUME NEW image \in Image, NEW n \in Note, NEW row \in NoteRec, Sound(image),
           row.present = image.notes[n].present, row.present \/ row.counted = 0,
           row.by = image.notes[n].by \/ (row.by \in Note /\ image.notes[row.by].present),
           row.project = image.notes[n].project, row.task = image.notes[n].task,
           row.active => image.notes[n].active,
           image.notes[n].state = "superseded" => row.state = "superseded"
    PROVE  LET rows == [image.notes EXCEPT ![n] = row]
           IN  /\ [image EXCEPT !.notes[n] = row] = [notes |-> rows, edges |-> image.edges]
               /\ [image EXCEPT !.notes[n] = row] \in Image
               /\ Sound([image EXCEPT !.notes[n] = row])
<1> DEFINE rows == [image.notes EXCEPT ![n] = row]
           new == [notes |-> rows, edges |-> image.edges]
<1>1. image.notes \in [Note -> NoteRec] /\ image.edges \subseteq Edge
    BY DEF Image
<1>2. [image EXCEPT !.notes[n] = row] = new
    BY DEF Image
<1>3. rows[n] = row /\ \A m \in Note \ {n} : rows[m] = image.notes[m]
    BY <1>1
<1>4. rows \in [Note -> NoteRec]
    BY <1>1
<1> HIDE DEF rows
<1>5. new \in Image
    BY <1>1, <1>4 DEF Image
<1>6. \A m \in Note : image.notes[m].by # None => image.notes[m].by \in Note
    BY <1>1, NoteStoreAssumption DEF NoteRec, Note, None
<1>7. \A e \in image.edges : e.from \in Note /\ e.to \in Note
    BY <1>1 DEF Edge
<1>8. Sound(new)
    <2>1. ASSUME NEW m \in Note
          PROVE  /\ ~rows[m].present => rows[m].counted = 0
                 /\ m >= next => ~rows[m].present
                 /\ rows[m].by # None => rows[rows[m].by].present
        <3>1. /\ ~image.notes[m].present => image.notes[m].counted = 0
              /\ m >= next => ~image.notes[m].present
              /\ image.notes[m].by # None => image.notes[image.notes[m].by].present
            BY DEF Sound
        <3>2. \A o \in Note : rows[o].present = image.notes[o].present
            BY <1>3
        <3>3. rows[m].by # None => rows[m].by \in Note /\ image.notes[rows[m].by].present
            BY <1>3, <1>6, <3>1
        <3>4. QED
            BY <1>3, <3>1, <3>2, <3>3
    <2>2. ASSUME NEW m \in Note, NEW o \in Note, rows[m].active, rows[o].active,
                 rows[m].task = rows[o].task, rows[m].task # Nobody
          PROVE  m = o
        BY <1>3, <2>2 DEF Sound
    <2>3. ASSUME NEW e \in image.edges
          PROVE  /\ rows[e.from].present /\ rows[e.to].present /\ e.from # e.to
                 /\ e.kind = "forget_cascade" => ~rows[e.to].active /\ rows[e.to].state = "superseded"
                 /\ e.kind = "supports" => rows[e.from].project = rows[e.to].project
        BY <1>3, <1>7, <2>3 DEF Sound
    <2>4. QED
        BY <2>1, <2>2, <2>3 DEF Sound
<1>9. QED
    BY <1>2, <1>5, <1>8 DEF rows

LEMMA WriteOutcomeIInv == ASSUME IInv, NEW p \in Process, WriteOutcome(p) PROVE IInv'
<1> DEFINE j == job[p]
           n == j.target
           row == [db.notes[n] EXCEPT !.counted = @ + 1]
           rows == [db.notes EXCEPT ![n] = row]
           image == [db EXCEPT !.notes[n] = row]
<1>1. /\ pc[p] = "writing" /\ j.op = "report" /\ work.notes[n].present
      /\ pc' = [pc EXCEPT ![p] = "feedback"] /\ UNCHANGED <<db, owner, job, fresh, books>>
    BY DEF WriteOutcome, Goto
<1>2. work = db /\ owner = p /\ Inside(p)
    BY <1>1, OnlyOwner DEF Inside, Draft
<1>3. n \in Note
    BY <1>1 DEF IInv, JobOK
<1>4. db \in Image /\ db.notes \in [Note -> NoteRec] /\ db.notes[n] \in NoteRec
    BY <1>3 DEF IInv, TypeOK, Image
<1>5. /\ row \in NoteRec /\ row.counted = db.notes[n].counted + 1
      /\ row.present = db.notes[n].present /\ row.by = db.notes[n].by
      /\ row.project = db.notes[n].project /\ row.task = db.notes[n].task
      /\ row.active = db.notes[n].active /\ row.state = db.notes[n].state
      /\ row.text = db.notes[n].text /\ row.ref = db.notes[n].ref
    BY <1>4 DEF NoteRec
<1>6. work' = image
    BY <1>2 DEF WriteOutcome
<1> HIDE DEF row
<1>7. Sound(db)
    BY DEF IInv
<1>8. image = [notes |-> rows, edges |-> db.edges] /\ image \in Image /\ Sound(image)
    <2> HIDE DEF n
    <2>1. row.present /\ row.project = db.notes[n].project /\ row.task = db.notes[n].task
        BY <1>1, <1>2, <1>5
    <2>2. LET new == [db.notes EXCEPT ![n] = row]
          IN  /\ [db EXCEPT !.notes[n] = row] = [notes |-> new, edges |-> db.edges]
              /\ [db EXCEPT !.notes[n] = row] \in Image
              /\ Sound([db EXCEPT !.notes[n] = row])
        BY <1>3, <1>4, <1>5, <1>7, <2>1, RowStaysSound
    <2>3. QED
        BY <2>2
<1>9. rows[n] = row /\ \A m \in Note \ {n} : rows[m] = db.notes[m]
    BY <1>3, <1>4
<1> HIDE DEF rows
<1>10. image.notes = rows
    BY <1>8
<1> HIDE DEF image
<1>11. Sound(work)'
    BY <1>1, <1>6, <1>8 DEF Sound, books
<1>12. Onward(db.notes, image.notes)
    BY <1>5, <1>9, <1>10 DEF Onward
<1>13. job'[p] = j /\ pc'[p] = "feedback" /\ job' = [job EXCEPT ![p] = j]
    BY <1>1 DEF IInv, TypeOK
<1>14. Draft(p)'
    <2>1. \A m \in Note : db.notes[m].counted \in Nat
        BY <1>4 DEF NoteRec
    <2>2. QED
        BY <1>1, <1>5, <1>6, <1>9, <1>10, <1>13, <2>1 DEF Draft, Inside
<1>15. JobOK(p)'
    BY <1>1, <1>3, <1>13, JobTypes DEF JobOK, Job, IInv
<1>16. \A m \in Note \ seeded : image.notes[m].present => image.notes[m].ref /\ m \in archive'
    BY <1>1, <1>5, <1>9, <1>10 DEF IInv, Archived, books
<1>17. archive \subseteq Note /\ next \in 1..(MaxNote + 1)
    BY DEF IInv, TypeOK
<1>18. QED
    BY <1>1, <1>2, <1>6, <1>8, <1>11, <1>12, <1>13, <1>14, <1>15, <1>16, <1>17, JobTypes, Drafts
       DEF books

LEMMA AppendIInv == ASSUME IInv, NEW p \in Process, Append(p) PROVE IInv'
<1> DEFINE j == job[p]
           n == j.note
           row == [work.notes[n] EXCEPT !.ref = TRUE]
           rows == [work.notes EXCEPT ![n] = row]
           image == [work EXCEPT !.notes[n] = row]
<1>1. /\ pc[p] = "appending" /\ archive' = archive \cup {n}
      /\ pc' = [pc EXCEPT ![p] = "committing"]
      /\ UNCHANGED <<db, owner, job, fresh, next, seeded, reported>>
    BY DEF Append, Goto
<1>2. owner = p /\ Inside(p) /\ Draft(p)
    BY <1>1, OnlyOwner DEF Inside
<1>3. n \in Note /\ work.notes[n].present /\ work.notes[n].project = ProjectOf[p] /\ j.op # "report"
    BY <1>1 DEF IInv, JobOK, NoteIn
<1>4. work \in Image /\ work.notes \in [Note -> NoteRec] /\ work.notes[n] \in NoteRec
    BY <1>3 DEF IInv, TypeOK, Image
<1>5. /\ row \in NoteRec /\ row.ref
      /\ row.counted = work.notes[n].counted
      /\ row.present = work.notes[n].present /\ row.by = work.notes[n].by
      /\ row.project = work.notes[n].project /\ row.task = work.notes[n].task
      /\ row.active = work.notes[n].active /\ row.state = work.notes[n].state
      /\ row.text = work.notes[n].text
    BY <1>4 DEF NoteRec
<1>6. work' = image
    BY <1>1 DEF Append
<1> HIDE DEF row
<1>7. Sound(work)
    BY DEF IInv
<1>8. image = [notes |-> rows, edges |-> work.edges] /\ image \in Image /\ Sound(image)
    <2> HIDE DEF n
    <2>1. LET new == [work.notes EXCEPT ![n] = row]
          IN  /\ [work EXCEPT !.notes[n] = row] = [notes |-> new, edges |-> work.edges]
              /\ [work EXCEPT !.notes[n] = row] \in Image
              /\ Sound([work EXCEPT !.notes[n] = row])
        BY <1>3, <1>4, <1>5, <1>7, RowStaysSound
    <2>2. QED
        BY <2>1
<1>9. rows[n] = row /\ \A m \in Note \ {n} : rows[m] = work.notes[m]
    BY <1>3, <1>4
<1> HIDE DEF rows
<1>10. image.notes = rows
    BY <1>8
<1> HIDE DEF image
<1>11. Sound(work)'
    BY <1>1, <1>6, <1>8 DEF Sound
<1>12. Onward(db.notes, image.notes)
    BY <1>5, <1>9, <1>10 DEF IInv, Onward
<1>13. job'[p] = j /\ pc'[p] = "committing" /\ job' = [job EXCEPT ![p] = j]
    BY <1>1 DEF IInv, TypeOK
<1>14. Draft(p)'
    BY <1>1, <1>2, <1>3, <1>5, <1>6, <1>9, <1>10, <1>13 DEF Draft, Inside
<1>15. JobOK(p)'
    <2>1. NoteIn(p, work.notes)'
        BY <1>3, <1>5, <1>6, <1>9, <1>10, <1>13 DEF NoteIn
    <2>2. JobOK(p)
        BY DEF IInv
    <2>3. QED
        BY <1>1, <1>3, <1>13, <2>1, <2>2 DEF JobOK
<1>16. ASSUME NEW m \in Note \ seeded, image.notes[m].present
       PROVE  image.notes[m].ref /\ m \in archive'
    <2>1. CASE m = n
        BY <1>1, <1>5, <1>9, <1>10, <2>1
    <2>2. CASE m # n
        <3>1. ~Unarchived(m)
            BY <1>2, <2>2, OnlyOwner DEF Unarchived, Inside
        <3>2. QED
            BY <1>1, <1>9, <1>10, <1>16, <2>2, <3>1 DEF IInv, Archived
    <2>3. QED
        BY <2>1, <2>2
<1>17. archive' \subseteq Note /\ next' \in 1..(MaxNote + 1)
    BY <1>1, <1>3 DEF IInv, TypeOK
<1>18. QED
    BY <1>1, <1>2, <1>6, <1>8, <1>11, <1>12, <1>13, <1>14, <1>15, <1>16, <1>17, JobTypes, Drafts

LEMMA WriteFailsIInv == ASSUME IInv, NEW p \in Process, WriteFails(p) PROVE IInv'
BY OnlyOwner, RolledBack DEF WriteFails, Rollback, books, Inside, IInv, TypeOK

LEMMA AppendFailsIInv == ASSUME IInv, NEW p \in Process, AppendFails(p) PROVE IInv'
<1>1. job[p].note \in Note /\ archive \subseteq Note
    BY DEF AppendFails, IInv, TypeOK, JobOK, NoteIn
<1>2. QED
    BY <1>1, OnlyOwner, RolledBack DEF AppendFails, Rollback, Inside

LEMMA CommitFailsIInv == ASSUME IInv, NEW p \in Process, CommitFails(p) PROVE IInv'
BY OnlyOwner, RolledBack DEF CommitFails, Rollback, books, Inside, IInv, TypeOK

LEMMA FeedbackIInv == ASSUME IInv, NEW p \in Process, Feedback(p) PROVE IInv'
<1>1. JobOK(p)'
    BY DEF Feedback, Goto, IInv, TypeOK, JobOK
<1>2. QED
    BY <1>1, Quiet, SameJob, JobTypes DEF Feedback, Goto, IInv, TypeOK

LEMMA FeedbackFailsIInv == ASSUME IInv, NEW p \in Process, FeedbackFails(p) PROVE IInv'
BY DoneIInv DEF FeedbackFails

LEMMA CrashIInv == ASSUME IInv, NEW p \in Process, Crash(p) PROVE IInv'
<1>1. pc[p] = "appending" => job[p].note \in Note
    BY DEF IInv, JobOK, NoteIn
<1>2. archive \subseteq archive' /\ archive' \subseteq Note
    BY <1>1 DEF Crash, IInv, TypeOK
<1>3. QED
    BY <1>2, RolledBack DEF Crash

LEMMA CommitIInv == ASSUME IInv, NEW p \in Process, Commit(p) PROVE IInv'
<1> DEFINE j == job[p]
<1>1. /\ pc[p] = "committing" /\ db' = work /\ work' = work /\ fresh' = fresh \cap {p}
      /\ owner' = Nobody /\ UNCHANGED <<archive, next, seeded>>
      /\ reported' = IF j.op # "report" THEN reported
                     ELSE [reported EXCEPT ![j.target] = @ + 1]
    BY DEF Commit, Publish
<1>2. \/ /\ j.op = "add" /\ pc' = [pc EXCEPT ![p] = "scanning"] /\ job' = job
      \/ pc' = [pc EXCEPT ![p] = "idle"] /\ job' = [job EXCEPT ![p] = NoJob]
    BY DEF Commit, Goto, Done
<1>3. owner = p /\ Inside(p) /\ Draft(p) /\ \A q \in Process \ {p} : ~Inside(q)
    BY <1>1, OnlyOwner DEF Inside
<1>4. /\ pc'[p] \in {"idle", "scanning"}
      /\ pc'[p] = "scanning" => j.op = "add" /\ job'[p] = j
      /\ pc'[p] = "idle" => job'[p] = NoJob
      /\ \A q \in Process \ {p} : pc'[q] = pc[q] /\ job'[q] = job[q]
    BY <1>2 DEF IInv, TypeOK
<1>5. j.op = "report" => j.target \in Note
    BY DEF IInv, JobOK
<1>6. TypeOK'
    <2>1. pc' \in [Process -> {"idle", "probing", "comparing", "ready", "writing",
                 "appending", "feedback", "committing", "scanning", "marking",
                 "stamping", "relating", "linking"}] /\ job' \in [Process -> Job]
        BY <1>2, JobTypes DEF IInv, TypeOK
    <2>2. reported' \in [Note -> Nat]
        BY <1>1, <1>5 DEF IInv, TypeOK
    <2>3. QED
        BY <1>1, <2>1, <2>2 DEF IInv, TypeOK
<1>7. Locked'
    BY <1>1, <1>3, <1>4 DEF Locked, Inside
<1>8. Sound(db)' /\ Sound(work)'
    BY <1>1 DEF IInv, Sound
<1>9. Onward(db.notes, work.notes)'
    BY <1>1, SameRowsOnward
<1>10. Archived'
    <2>1. \A n : ~Unarchived(n)
        BY <1>1, <1>3 DEF Unarchived, Inside
    <2>2. QED
        BY <1>1, <2>1 DEF IInv, Archived
<1>11. ASSUME NEW q \in Process PROVE JobOK(q)'
    <2>1. CASE q # p
        BY <1>1, <1>3, <1>4, <2>1, OthersOK DEF IInv
    <2>2. CASE q = p /\ pc'[p] = "idle"
        BY <1>4, <2>2 DEF JobOK, NoJob, None
    <2>3. CASE q = p /\ pc'[p] = "scanning"
        <3>1. JobOK(p)
            BY DEF IInv
        <3>2. NoteIn(p, work.notes)
            BY <1>1, <1>4, <2>3, <3>1 DEF JobOK
        <3>3. NoteIn(p, db.notes)'
            BY <1>1, <1>4, <2>3, <3>2 DEF NoteIn
        <3>4. QED
            BY <1>4, <2>3, <3>1, <3>3 DEF JobOK
    <2>4. QED
        BY <1>4, <2>1, <2>2, <2>3
<1>12. ASSUME NEW q \in Process, owner' = q PROVE Draft(q)'
    BY <1>1, <1>12, NoteStoreAssumption
<1>13. OutcomesKept'
    <2>1. ASSUME NEW n \in Note
          PROVE  work.notes[n].counted = reported[n]
                    + (IF j.op = "report" /\ n = j.target THEN 1 ELSE 0)
        BY <1>1, <1>3 DEF IInv, OutcomesKept, Draft
    <2>2. \A n \in Note : reported[n] \in Nat
        BY DEF IInv, TypeOK
    <2>3. QED
        BY <1>1, <1>5, <2>1, <2>2 DEF IInv, TypeOK, OutcomesKept
<1>14. QED
    BY <1>6, <1>7, <1>8, <1>9, <1>10, <1>11, <1>12, <1>13 DEF IInv

----------------------------------------------------------------------------
\* After the COMMIT.
LEMMA ScanIInv == ASSUME IInv, NEW p \in Process, Scan(p) PROVE IInv'
<1> DEFINE todo == Contradicted(p, job[p].note, db.notes)
           j == [job[p] EXCEPT !.todo = todo]
           w == IF todo = {} THEN "linking" ELSE "marking"
<1>1. /\ pc[p] = "scanning" /\ fresh' = fresh \cup {p}
      /\ pc' = [pc EXCEPT ![p] = w] /\ job' = [job EXCEPT ![p] = j]
      /\ UNCHANGED <<db, work, owner, books>>
    BY DEF Scan, Goto, IInv, TypeOK
<1>2. todo \subseteq Note /\ \A o \in todo : Present(o) /\ o # job[p].note
    BY DEF Contradicted, Present
<1> HIDE DEF todo
<1>3. /\ j \in Job /\ j.op = job[p].op /\ j.task = job[p].task /\ j.target = job[p].target
      /\ j.old = job[p].old /\ j.note = job[p].note /\ j.todo = todo
    BY <1>2, JobTypes DEF Job
<1>4. JobOK(p)'
    <2>1. JobOK(p) /\ NoteIn(p, db.notes)
        BY <1>1 DEF IInv, JobOK
    <2>2. pc'[p] = w /\ job'[p] = j
        BY <1>1 DEF IInv, TypeOK
    <2>3. NoteIn(p, db.notes)'
        BY <1>1, <1>3, <2>1, <2>2 DEF NoteIn
    <2>4. \A o \in j.todo : Present(o)' /\ o # j.note
        BY <1>1, <1>2, <1>3 DEF Present
    <2>5. QED
        BY <1>3, <2>1, <2>2, <2>3, <2>4 DEF JobOK
<1>5. QED
    BY <1>1, <1>3, <1>4, Quiet DEF IInv, TypeOK

LEMMA MarkFailsIInv == ASSUME IInv, NEW p \in Process, MarkFails(p) PROVE IInv'
<1>1. /\ pc[p] \in {"marking", "stamping", "relating"} /\ pc' = [pc EXCEPT ![p] = "marking"]
      /\ UNCHANGED <<db, work, owner, fresh, books>>
    BY DEF MarkFails, Goto
<1>2. PICK S : S \subseteq job[p].todo /\ job' = [job EXCEPT ![p] = [@ EXCEPT !.todo = S]]
    <2>1. CASE UNCHANGED job
        <3>1. job[p] = [job[p] EXCEPT !.todo = job[p].todo]
            BY JobTypes DEF Job
        <3>2. QED
            BY <2>1, <3>1, SameJob
    <2>2. ASSUME NEW o \in job[p].todo, job' = [job EXCEPT ![p].todo = @ \ {o}]
          PROVE  \E S : S \subseteq job[p].todo /\ job' = [job EXCEPT ![p] = [@ EXCEPT !.todo = S]]
        <3>1. job' = [job EXCEPT ![p] = [@ EXCEPT !.todo = job[p].todo \ {o}]]
            BY <2>2 DEF IInv, TypeOK
        <3>2. QED
            BY <3>1
    <2>3. QED
        BY <2>1, <2>2 DEF MarkFails
<1> DEFINE j == [job[p] EXCEPT !.todo = S]
<1>3. /\ j \in Job /\ j.op = job[p].op /\ j.task = job[p].task /\ j.target = job[p].target
      /\ j.old = job[p].old /\ j.note = job[p].note /\ j.todo = S
    BY <1>2, JobTypes DEF Job
<1>4. JobOK(p)'
    <2>1. JobOK(p) /\ NoteIn(p, db.notes)
        BY <1>1 DEF IInv, JobOK
    <2>2. pc'[p] = "marking" /\ job'[p] = j
        BY <1>1, <1>2 DEF IInv, TypeOK
    <2>3. NoteIn(p, db.notes)'
        BY <1>1, <1>3, <2>1, <2>2 DEF NoteIn
    <2>4. \A o \in j.todo : Present(o)' /\ o # j.note
        BY <1>1, <1>2, <1>3, <2>1 DEF Present, JobOK
    <2>5. QED
        BY <1>3, <2>1, <2>2, <2>3, <2>4 DEF JobOK
<1>5. QED
    BY <1>1, <1>2, <1>3, <1>4, Quiet DEF IInv, TypeOK

LEMMA ScanEndsIInv == ASSUME IInv, NEW p \in Process, ScanEnds(p) PROVE IInv'
<1>1. /\ pc[p] = "marking" /\ fresh' = fresh \ {p} /\ pc' = [pc EXCEPT ![p] = "linking"]
      /\ job' = job /\ UNCHANGED <<db, work, owner, books>>
    BY DEF ScanEnds, Goto
<1>2. JobOK(p)'
    <2>1. JobOK(p) /\ NoteIn(p, db.notes)
        BY <1>1 DEF IInv, JobOK
    <2>2. pc'[p] = "linking" /\ NoteIn(p, db.notes)'
        BY <1>1, <2>1 DEF IInv, TypeOK, NoteIn
    <2>3. QED
        BY <1>1, <2>1, <2>2 DEF JobOK
<1>3. QED
    BY <1>1, <1>2, Quiet, SameJob, JobTypes DEF IInv, TypeOK

LEMMA PresentRow ==
    ASSUME IInv, NEW o, Present(o)
    PROVE  /\ o \in Note /\ o \in 0..MaxNote /\ db \in Image /\ db.notes \in [Note -> NoteRec]
           /\ db.notes[o] \in NoteRec /\ db.notes[o].counted \in Nat
<1>1. o \in Note /\ o \in 0..MaxNote
    BY NoteStoreAssumption DEF Present, Note
<1>2. db \in Image /\ db.notes \in [Note -> NoteRec]
    BY DEF IInv, TypeOK, Image
<1>3. db.notes[o] \in NoteRec
    BY <1>1, <1>2
<1>4. db.notes[o].counted \in Nat
    BY <1>3 DEF NoteRec
<1>5. QED
    BY <1>1, <1>2, <1>3, <1>4

LEMMA MarkIInv == ASSUME IInv, NEW p \in Process, Mark(p) PROVE IInv'
<1>1. PICK o \in job[p].todo :
        /\ pc[p] = "marking"
        /\ Autocommit(p, IF Hard(job[p].note, o)
                         THEN [db EXCEPT !.notes[o].active = FALSE,
                                         !.notes[o].state = "superseded"]
                         ELSE db)
        /\ job' = [job EXCEPT ![p].old = o, ![p].todo = @ \ {o},
                              ![p].read = db.notes[o].counted]
        /\ Goto(p, "stamping")
        /\ UNCHANGED <<owner, books>>
    BY DEF Mark
<1> DEFINE j == [job[p] EXCEPT !.old = o, !.todo = @ \ {o}, !.read = db.notes[o].counted]
           row == IF Hard(job[p].note, o)
                  THEN [db.notes[o] EXCEPT !.active = FALSE, !.state = "superseded"]
                  ELSE db.notes[o]
           rows == [db.notes EXCEPT ![o] = row]
           image == [db EXCEPT !.notes[o] = row]
<1>2. /\ JobOK(p) /\ Present(o) /\ o # job[p].note /\ NoteIn(p, db.notes)
      /\ \A m \in job[p].todo : Present(m) /\ m # job[p].note
    BY <1>1 DEF IInv, JobOK
<1>3. /\ o \in Note /\ o \in 0..MaxNote /\ db \in Image /\ db.notes \in [Note -> NoteRec]
      /\ db.notes[o] \in NoteRec /\ db.notes[o].counted \in Nat
    BY <1>2, PresentRow
<1>4. /\ j \in Job /\ j.op = job[p].op /\ j.task = job[p].task /\ j.target = job[p].target
      /\ j.old = o /\ j.note = job[p].note /\ j.todo = job[p].todo \ {o}
      /\ j.read = db.notes[o].counted
    BY <1>3, JobTypes DEF Job
<1>5. job' = [job EXCEPT ![p] = j] /\ pc' = [pc EXCEPT ![p] = "stamping"]
    BY <1>1 DEF IInv, TypeOK, Goto
<1>6. /\ row \in NoteRec
      /\ row.counted = db.notes[o].counted /\ row.by = db.notes[o].by
      /\ row.present = db.notes[o].present /\ row.project = db.notes[o].project
      /\ row.task = db.notes[o].task /\ row.text = db.notes[o].text
      /\ row.ref = db.notes[o].ref /\ (row.active => db.notes[o].active)
      /\ db.notes[o].state = "superseded" => row.state = "superseded"
      /\ Hard(job[p].note, o) => ~row.active /\ row.state = "superseded"
    BY <1>3 DEF NoteRec
<1>7. Autocommit(p, image)
    <2>1. CASE Hard(job[p].note, o)
        <3>1. [db EXCEPT !.notes[o].active = FALSE, !.notes[o].state = "superseded"] = image
            BY <1>3, <2>1 DEF Image
        <3>2. QED
            BY <1>1, <2>1, <3>1
    <2>2. CASE ~Hard(job[p].note, o)
        <3>1. db = image
            BY <1>3, <2>2 DEF Image
        <3>2. QED
            BY <1>1, <2>2, <3>1
    <2>3. QED
        BY <2>1, <2>2
<1> HIDE DEF row, j
<1>8. /\ image = [notes |-> rows, edges |-> db.edges] /\ image \in Image /\ Sound(image)
    <2>1. row.present \/ row.counted = 0
        BY <1>3, <1>6 DEF IInv, Sound
    <2>2. Sound(db)
        BY DEF IInv
    <2>3. LET new == [db.notes EXCEPT ![o] = row]
          IN  /\ [db EXCEPT !.notes[o] = row] = [notes |-> new, edges |-> db.edges]
              /\ [db EXCEPT !.notes[o] = row] \in Image
              /\ Sound([db EXCEPT !.notes[o] = row])
        BY <1>3, <1>6, <2>1, <2>2, RowStaysSound
    <2>4. QED
        BY <2>3
<1>9. rows[o] = row /\ \A m \in Note \ {o} : rows[m] = db.notes[m]
    BY <1>3
<1> HIDE DEF rows
<1>10. image.notes = rows
    BY <1>8
<1> HIDE DEF image
<1>11. Onward(db.notes, image.notes)
    BY <1>6, <1>9, <1>10 DEF Onward
<1>12. owner = Nobody /\ Publish(p, image) /\ work' = image /\ db' = image /\ p \in fresh
    BY <1>7 DEF Autocommit, Publish
<1>13. JobOK(p)'
    <2>1. pc'[p] = "stamping" /\ job'[p] = j
        BY <1>5 DEF IInv, TypeOK
    <2>2. \A m \in Note : Present(m) => Present(m)'
        BY <1>6, <1>9, <1>10, <1>12 DEF Present
    <2>3. NoteIn(p, db.notes)'
        BY <1>2, <1>4, <1>6, <1>9, <1>10, <1>12, <2>1 DEF NoteIn
    <2>4. \A m \in j.todo : Present(m)' /\ m # j.note
        BY <1>2, <1>4, <2>2 DEF Present
    <2>5. Present(o)' /\ j.read = db'.notes[o].counted
        BY <1>2, <1>3, <1>4, <1>6, <1>9, <1>10, <1>12, <2>2
    <2>6. Hard(job[p].note, job[p].old)' => Hard(job[p].note, o)
        <3>1. job'[p].note = job[p].note /\ job'[p].old = o /\ job[p].note \in Note
            BY <1>2, <1>4, <2>1 DEF NoteIn
        <3>2. \A n \in Note : db'.notes[n].text = db.notes[n].text
            BY <1>6, <1>9, <1>10, <1>12
        <3>3. QED
            BY <1>3, <3>1, <3>2 DEF Hard
    <2>7. Hard(job[p].note, job[p].old)' => Forgotten(o)'
        BY <1>3, <1>6, <1>9, <1>10, <1>12, <2>6 DEF Forgotten
    <2>8. QED
        BY <1>2, <1>4, <2>1, <2>3, <2>4, <2>5, <2>7 DEF JobOK
<1>14. \A n \in Note : /\ image.notes[n].present => db.notes[n].present
                       /\ db.notes[n].ref => image.notes[n].ref
                       /\ image.notes[n].counted = db.notes[n].counted
    BY <1>6, <1>9, <1>10
<1>15. UNCHANGED <<owner, books>>
    BY <1>1
<1>16. QED
    BY <1>4, <1>5, <1>8, <1>11, <1>12, <1>13, <1>14, <1>15, Autocommits

\* The count that is written back is the one that is there: the SELECT that
\* read it still sees the newest image.
LEMMA StampIInv == ASSUME IInv, NEW p \in Process, Stamp(p) PROVE IInv'
<1> DEFINE j == job[p]
           o == j.old
           row == [db.notes[o] EXCEPT !.by = j.note, !.counted = j.read]
           rows == [db.notes EXCEPT ![o] = row]
           image == [db EXCEPT !.notes[o] = row]
           w == IF Hard(j.note, o) THEN "relating" ELSE "marking"
<1>1. /\ pc[p] = "stamping" /\ pc' = [pc EXCEPT ![p] = w] /\ UNCHANGED <<owner, job, books>>
      /\ Autocommit(p, [db EXCEPT !.notes[o].by = j.note, !.notes[o].counted = j.read])
    BY DEF Stamp, Goto
<1>2. p \in fresh /\ owner = Nobody
    BY <1>1 DEF Autocommit
<1>3. /\ JobOK(p) /\ Present(o) /\ o # j.note /\ NoteIn(p, db.notes)
      /\ j.read = db.notes[o].counted
      /\ Hard(j.note, o) => Forgotten(o)
      /\ \A m \in j.todo : Present(m) /\ m # j.note
    BY <1>1, <1>2 DEF IInv, JobOK
<1>4. /\ o \in Note /\ db \in Image /\ db.notes \in [Note -> NoteRec]
      /\ db.notes[o] \in NoteRec /\ db.notes[o].counted \in Nat
    BY <1>3, PresentRow
<1>5. /\ j.note \in Note /\ j.note \in 0..MaxNote /\ db.notes[j.note].present
    BY <1>3, NoteStoreAssumption DEF NoteIn, Note
<1>6. /\ row \in NoteRec
      /\ row.counted = db.notes[o].counted /\ row.by = j.note
      /\ row.present = db.notes[o].present /\ row.project = db.notes[o].project
      /\ row.task = db.notes[o].task /\ row.text = db.notes[o].text
      /\ row.ref = db.notes[o].ref /\ row.active = db.notes[o].active
      /\ row.state = db.notes[o].state
    BY <1>3, <1>4, <1>5 DEF NoteRec
<1>7. Autocommit(p, image)
    <2>1. [db EXCEPT !.notes[o].by = j.note, !.notes[o].counted = j.read] = image
        BY <1>4 DEF Image
    <2>2. QED
        BY <1>1, <2>1
<1> HIDE DEF row
<1>8. /\ image = [notes |-> rows, edges |-> db.edges] /\ image \in Image /\ Sound(image)
    <2>1. /\ row.present
          /\ row.active => db.notes[o].active
          /\ db.notes[o].state = "superseded" => row.state = "superseded"
        BY <1>3, <1>6 DEF Present
    <2>2. Sound(db)
        BY DEF IInv
    <2>3. row.by \in Note /\ db.notes[row.by].present
        BY <1>5, <1>6
    <2>4. LET new == [db.notes EXCEPT ![o] = row]
          IN  /\ [db EXCEPT !.notes[o] = row] = [notes |-> new, edges |-> db.edges]
              /\ [db EXCEPT !.notes[o] = row] \in Image
              /\ Sound([db EXCEPT !.notes[o] = row])
        BY <1>4, <1>6, <2>1, <2>2, <2>3, RowStaysSound
    <2>5. QED
        BY <2>4
<1>9. rows[o] = row /\ \A m \in Note \ {o} : rows[m] = db.notes[m]
    BY <1>4
<1> HIDE DEF rows
<1>10. image.notes = rows
    BY <1>8
<1> HIDE DEF image
<1>11. Onward(db.notes, image.notes)
    BY <1>6, <1>9, <1>10 DEF Onward
<1>12. Publish(p, image) /\ work' = image /\ db' = image
    BY <1>7 DEF Autocommit, Publish
<1>13. JobOK(p)'
    <2>1. pc'[p] = w /\ job'[p] = j
        BY <1>1 DEF IInv, TypeOK
    <2>2. \A m \in Note : Present(m) => Present(m)'
        BY <1>6, <1>9, <1>10, <1>12 DEF Present
    <2>3. NoteIn(p, db.notes)'
        BY <1>3, <1>6, <1>9, <1>10, <1>12, <2>1 DEF NoteIn
    <2>4. \A m \in j.todo : Present(m)' /\ m # j.note
        BY <1>3, <2>2 DEF Present
    <2>5. Hard(j.note, o) => Forgotten(o)'
        BY <1>1, <1>3, <1>6, <1>9, <1>10, <1>12 DEF Forgotten
    <2>6. Present(o)'
        BY <1>1, <1>3, <1>4, <2>2
    <2>7. QED
        BY <1>3, <2>1, <2>3, <2>4, <2>5, <2>6 DEF JobOK
<1>14. \A n \in Note : /\ image.notes[n].present => db.notes[n].present
                       /\ db.notes[n].ref => image.notes[n].ref
                       /\ image.notes[n].counted = db.notes[n].counted
    BY <1>6, <1>9, <1>10
<1>15. QED
    BY <1>1, <1>2, <1>8, <1>11, <1>12, <1>13, <1>14, SameJob, JobTypes, Autocommits

\* More edges, each between rows that are there.
LEMMA EdgesIInv ==
    ASSUME IInv, NEW p \in Process, NEW E \in SUBSET Edge, NEW w, NEW j \in Job,
           \/ w = "marking" /\ pc[p] = "relating" /\ j = job[p]
           \/ w = "idle" /\ j = NoJob,
           pc' = [pc EXCEPT ![p] = w], job' = [job EXCEPT ![p] = j],
           owner = Nobody, UNCHANGED <<owner, books>>,
           Publish(p, [db EXCEPT !.edges = @ \cup E]), work' = [db EXCEPT !.edges = @ \cup E],
           \A e \in E :
              /\ db.notes[e.from].present /\ db.notes[e.to].present /\ e.from # e.to
              /\ e.kind = "forget_cascade" => Forgotten(e.to)
              /\ e.kind = "supports" => db.notes[e.from].project = db.notes[e.to].project
    PROVE  IInv'
<1> DEFINE image == [db EXCEPT !.edges = @ \cup E]
<1>1. db \in Image /\ image \in Image /\ image.notes = db.notes /\ image.edges = db.edges \cup E
    BY DEF IInv, TypeOK, Image
<1> HIDE DEF image
<1>2. Sound(image)
    BY <1>1 DEF IInv, Sound, Forgotten
<1>3. db' = image
    BY DEF Publish, image
<1>4. JobOK(p)'
    <2>1. CASE w = "idle"
        BY <2>1 DEF IInv, TypeOK, JobOK, NoJob, None
    <2>2. CASE w = "marking"
        <3>1. JobOK(p) /\ pc[p] = "relating" /\ pc'[p] = w /\ job'[p] = job[p]
            BY <2>2 DEF IInv, TypeOK
        <3>2. \A m : Present(m) => Present(m)'
            BY <1>1, <1>3 DEF Present
        <3>3. NoteIn(p, db.notes)'
            BY <1>1, <1>3, <3>1 DEF NoteIn, JobOK
        <3>4. QED
            BY <2>2, <3>1, <3>2, <3>3 DEF JobOK
    <2>3. QED
        BY <2>1, <2>2
<1>5. Publish(p, image) /\ work' = image
    BY DEF image
<1>6. Onward(db.notes, image.notes)
    BY <1>1, SameRowsOnward
<1>7. QED
    BY <1>1, <1>2, <1>4, <1>5, <1>6, Autocommits

LEMMA RelateIInv == ASSUME IInv, NEW p \in Process, Relate(p) PROVE IInv'
<1> DEFINE e == [from |-> job[p].note, to |-> job[p].old, kind |-> "forget_cascade"]
<1>1. /\ pc[p] = "relating" /\ pc' = [pc EXCEPT ![p] = "marking"]
      /\ UNCHANGED <<owner, job, books>> /\ owner = Nobody
      /\ Publish(p, [db EXCEPT !.edges = @ \cup {e}]) /\ work' = [db EXCEPT !.edges = @ \cup {e}]
    BY DEF Relate, Goto, Autocommit
<1>2. /\ Present(job[p].old) /\ NoteIn(p, db.notes) /\ Forgotten(job[p].old)
      /\ job[p].old # job[p].note
    BY <1>1 DEF IInv, JobOK
<1>3. {e} \in SUBSET Edge /\ db.notes[e.from].present /\ db.notes[e.to].present
    BY <1>2 DEF Edge, NoteIn, Present
<1>4. e.kind = "forget_cascade" /\ e.from # e.to /\ Forgotten(e.to)
    BY <1>2
<1> DEFINE E == {e}
<1>5. \A x \in E : /\ db.notes[x.from].present /\ db.notes[x.to].present /\ x.from # x.to
                   /\ x.kind = "forget_cascade" => Forgotten(x.to)
                   /\ x.kind = "supports" => db.notes[x.from].project = db.notes[x.to].project
    BY <1>3, <1>4
<1>6. job' = [job EXCEPT ![p] = job[p]] /\ job[p] \in Job
    BY <1>1, SameJob, JobTypes
<1>7. E \in SUBSET Edge /\ Publish(p, [db EXCEPT !.edges = @ \cup E])
      /\ work' = [db EXCEPT !.edges = @ \cup E]
    BY <1>1, <1>3
<1> HIDE DEF e, E
<1>8. QED
    BY <1>1, <1>5, <1>6, <1>7, EdgesIInv

LEMMA LinkIInv == ASSUME IInv, NEW p \in Process, Link(p) PROVE IInv'
<1> DEFINE n == job[p].note
           L(K) == {[from |-> n, to |-> o, kind |-> "supports"] : o \in K}
           image(K) == [db EXCEPT !.edges = @ \cup L(K)]
<1>1. PICK K \in SUBSET Linkable(p, n, db.notes) :
          /\ K # {} => owner = Nobody
          /\ IF image(K) = db THEN UNCHANGED <<db, work, fresh>>
             ELSE Publish(p, image(K)) /\ work' = image(K)
    BY DEF Link
<1>2. pc[p] = "linking" /\ Done(p) /\ UNCHANGED <<owner, books>>
    BY DEF Link
<1>3. CASE image(K) = db
    BY <1>1, <1>2, <1>3, DoneIInv
<1>4. CASE image(K) # db
    <2>1. db \in Image
        BY DEF IInv, TypeOK
    <2>2. K # {} /\ owner = Nobody
        BY <1>1, <1>4, <2>1 DEF Image
    <2>3. NoteIn(p, db.notes)
        BY <1>2 DEF IInv, JobOK
    <2>4. ASSUME NEW o \in K
          PROVE  /\ o \in Note /\ o # n /\ db.notes[o].present
                 /\ db.notes[o].project = ProjectOf[p]
        <3>1. db.notes \in [Note -> NoteRec]
            BY <2>1 DEF Image
        <3> DEFINE own == [m \in Note |-> [db.notes[m] EXCEPT !.active =
                     @ /\ db.notes[m].project = ProjectOf[p] /\ db.notes[m].state = "active"]]
        <3>2. o \in Candidates(own, db.notes[n].layer) /\ o # n
            BY <1>1 DEF Linkable
        <3>3. o \in Note /\ own[o].present /\ own[o].active
            BY <3>2 DEF Candidates
        <3>4. /\ own[o].present = db.notes[o].present
              /\ own[o].active = (db.notes[o].active /\ db.notes[o].project = ProjectOf[p]
                                    /\ db.notes[o].state = "active")
            BY <3>1, <3>3 DEF NoteRec
        <3>5. QED
            BY <3>2, <3>3, <3>4
    <2>5. L(K) \in SUBSET Edge
        BY <2>3, <2>4 DEF Edge, NoteIn
    <2>6. ASSUME NEW e \in L(K)
          PROVE  /\ db.notes[e.from].present /\ db.notes[e.to].present /\ e.from # e.to
                 /\ e.kind = "supports"
                 /\ db.notes[e.from].project = db.notes[e.to].project
        BY <2>3, <2>4 DEF NoteIn
    <2>7. /\ pc' = [pc EXCEPT ![p] = "idle"] /\ job' = [job EXCEPT ![p] = NoJob]
          /\ NoJob \in Job /\ Publish(p, image(K)) /\ work' = image(K)
        BY <1>1, <1>2, <1>4, JobTypes DEF Done, Goto
    <2> HIDE DEF L
    <2>8. QED
        BY <1>2, <2>2, <2>5, <2>6, <2>7, EdgesIInv
<1>5. QED
    BY <1>3, <1>4

----------------------------------------------------------------------------
LEMMA InitIInv == Init => IInv
<1> SUFFICES ASSUME Init PROVE IInv
    OBVIOUS
<1>1. PICK notes \in Seeds : db = [notes |-> notes, edges |-> {}]
    BY DEF Init
<1>2. /\ notes \in [Note -> NoteRec] /\ db.notes = notes /\ db.edges = {} /\ work = db
      /\ db \in Image
    BY <1>1, NoteStoreAssumption DEF Init, Image
<1>3. PICK k \in 0..MaxNote : \A n \in Note : notes[n].present <=> n <= k
    BY <1>1, SeedsAssumption
<1>4. next = k + 1
    <2>1. seeded = 1..k
        BY <1>2, <1>3, NoteStoreAssumption DEF Init, Note
    <2>2. Cardinality(1..k) = k
        BY <1>3, FS_Interval
    <2>3. QED
        BY <2>1, <2>2 DEF Init
<1>5. /\ \A n \in Note : notes[n].counted = 0 /\ (notes[n].by # None => notes[notes[n].by].present)
      /\ \A n, m \in Note :
            /\ notes[n].active /\ notes[m].active
            /\ notes[n].task = notes[m].task /\ notes[n].task # Nobody
            => n = m
    BY <1>1, SeedsAssumption
<1>6. TypeOK
    <2>1. NoJob \in Job
        <3>1. (CHOOSE t \in Text : TRUE) \in Text
            BY NoteStoreAssumption
        <3>2. QED
            BY <3>1, NoteStoreAssumption DEF NoJob, Job, None
    <2>2. seeded \subseteq Note /\ next \in 1..(MaxNote + 1)
        BY <1>3, <1>4, NoteStoreAssumption DEF Init
    <2>3. QED
        BY <1>2, <2>1, <2>2 DEF Init, TypeOK
<1>7. Sound(db) /\ Sound(work)
    <2>1. \A n \in Note : n >= next => ~notes[n].present
        BY <1>3, <1>4, NoteStoreAssumption DEF Note
    <2>2. QED
        BY <1>2, <1>5, <2>1 DEF Sound
<1>8. Locked /\ Onward(db.notes, work.notes) /\ Archived
    BY <1>2 DEF Init, Locked, Inside, Onward, Archived
<1>9. ASSUME NEW p \in Process PROVE JobOK(p)
    BY DEF Init, JobOK, NoJob, None
<1>10. ASSUME NEW p \in Process, owner = p PROVE Draft(p)
    BY <1>10, NoteStoreAssumption DEF Init
<1>11. OutcomesKept
    BY <1>2, <1>5 DEF Init, OutcomesKept
<1>12. QED
    BY <1>6, <1>7, <1>8, <1>9, <1>10, <1>11 DEF IInv

LEMMA StepIInv == ASSUME IInv, NEW p \in Process, Step(p) PROVE IInv'
<1>1. CASE FindExact(p) \/ Compare(p) \/ Begin(p) \/ BeginFails(p)
    BY <1>1, FindExactIInv, CompareIInv, BeginIInv, BeginFailsIInv
<1>2. CASE WriteNote(p) \/ WriteCheckpoint(p) \/ WriteOutcome(p) \/ WriteFails(p)
    BY <1>2, WriteNoteIInv, WriteCheckpointIInv, WriteOutcomeIInv, WriteFailsIInv
<1>3. CASE Append(p) \/ AppendFails(p) \/ Feedback(p) \/ FeedbackFails(p)
    BY <1>3, AppendIInv, AppendFailsIInv, FeedbackIInv, FeedbackFailsIInv
<1>4. CASE Commit(p) \/ CommitFails(p)
    BY <1>4, CommitIInv, CommitFailsIInv
<1>5. CASE Scan(p) \/ Mark(p) \/ Stamp(p) \/ Relate(p) \/ MarkFails(p) \/ ScanEnds(p) \/ Link(p)
    BY <1>5, ScanIInv, MarkIInv, StampIInv, RelateIInv, MarkFailsIInv, ScanEndsIInv, LinkIInv
<1>6. QED
    BY <1>1, <1>2, <1>3, <1>4, <1>5 DEF Step

LEMMA NextIInv == IInv /\ [Next]_vars => IInv'
<1> SUFFICES ASSUME IInv, [Next]_vars PROVE IInv'
    OBVIOUS
<1>1. ASSUME NEW p \in Process, NEW t \in Text, NEW l \in {"verified_fact", "event_log"},
             NEW v \in {"none", "new"}, AddMemory(p, t, l, v)
      PROVE  IInv'
    BY <1>1, AddMemoryIInv
<1>2. ASSUME NEW p \in Process, NEW k \in Task, NEW t \in Text, SaveCheckpoint(p, k, t)
      PROVE  IInv'
    BY <1>2, SaveCheckpointIInv
<1>3. ASSUME NEW p \in Process, NEW n \in Note, ReportOutcome(p, n) PROVE IInv'
    BY <1>3, ReportOutcomeIInv
<1>4. ASSUME NEW p \in Process, Step(p) \/ Crash(p) PROVE IInv'
    BY <1>4, StepIInv, CrashIInv
<1>5. CASE UNCHANGED vars
    BY <1>5 DEF vars, IInv, TypeOK, Locked, Inside, Sound, Onward, Archived, Unarchived,
                JobOK, NoteIn, Present, Forgotten, Hard, Draft, OutcomesKept
<1>6. QED
    BY <1>1, <1>2, <1>3, <1>4, <1>5 DEF Next

LEMMA Invariance == Spec => []IInv
BY InitIInv, NextIInv, PTL DEF Spec

----------------------------------------------------------------------------
\* Each image, call and counter of the write path keeps its type.
THEOREM TypeCorrect == Spec => []TypeOK
<1>1. IInv => TypeOK
    BY DEF IInv
<1>2. QED
    BY <1>1, Invariance, PTL

\* A note of the governed write path is never visible without its line in cold
\* storage and the reference to it, whichever process fails or dies in between.
THEOREM NothingVisibleUnarchived == Spec => []ArchivedWhenVisible
<1>1. IInv => ArchivedWhenVisible
    BY DEF IInv, Archived, ArchivedWhenVisible, Written
<1>2. QED
    BY <1>1, Invariance, PTL

\* The success counts are the outcomes that were answered Ok(true): a scan that
\* writes stale metadata back, a wedged connection or a crash loses none.
THEOREM NoOutcomeLost == Spec => []OutcomesKept
<1>1. IInv => OutcomesKept
    BY DEF IInv
<1>2. QED
    BY <1>1, Invariance, PTL

\* Any number of processes that save checkpoints of a task, in any projects,
\* leave one active checkpoint of it.
THEOREM AtMostOneCheckpoint == Spec => []OneCheckpoint
<1>1. IInv => OneCheckpoint
    BY DEF IInv, Sound, OneCheckpoint
<1>2. QED
    BY <1>1, Invariance, PTL

\* What superseded_by and the edges name is committed; what an edge calls
\* forgotten is superseded, and support stays inside a project.
THEOREM NoDanglingEdges == Spec => []EdgesAreReal
<1>1. IInv => EdgesAreReal
    BY DEF IInv, Sound, EdgesAreReal
<1>2. QED
    BY <1>1, Invariance, PTL
=============================================================================
