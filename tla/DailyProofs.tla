---------------------------- MODULE DailyProofs ----------------------------
(***************************************************************************)
(* Theorems of components that MCDaily sets side by side, each of its own     *)
(* specification and for every value of its constants.                      *)
(***************************************************************************)
EXTENDS ColdArchive, Experience, WorkQueues, FiniteSetTheorems, TLAPS

----------------------------------------------------------------------------
(* ColdArchive *)

Piece == Note \cup {Cut, Newline}

\* The newlines among the first pieces of a file.
Breaks(f, n) == {j \in 1..n : f[j] = Newline}

LEMMA BreaksCount ==
    ASSUME NEW f, NEW n \in Nat
    PROVE  IsFiniteSet(Breaks(f, n)) /\ Cardinality(Breaks(f, n)) \in Nat
<1>1. IsFiniteSet(1..n) /\ Breaks(f, n) \in SUBSET (1..n)
    BY FS_Interval DEF Breaks
<1>2. QED
    BY <1>1, FS_Subset, FS_CardinalityType

LEMMA AppendPieces ==
    ASSUME NEW f \in Seq(Piece), NEW x \in Piece
    PROVE  /\ Append(f, x) \in Seq(Piece) /\ Len(f) \in Nat
           /\ DOMAIN f = 1..Len(f) /\ DOMAIN Append(f, x) = 1..(Len(f) + 1)
           /\ Len(Append(f, x)) = Len(f) + 1
           /\ \A i \in 1..Len(f) : Append(f, x)[i] = f[i]
           /\ Append(f, x)[Len(f) + 1] = x
OBVIOUS

\* What is appended to a file moves no line of it.
LEMMA LinesStay ==
    ASSUME NEW f \in Seq(Piece), NEW x \in Piece, NEW k, NEW i \in Line(f, k)
    PROVE  i \in Line(Append(f, x), k) /\ Append(f, x)[i] = f[i]
<1> DEFINE g == Append(f, x)
<1>1. /\ Len(f) \in Nat /\ i \in 1..Len(f) /\ f[i] # Newline
      /\ 1 + Cardinality({j \in 1..(i - 1) : f[j] = Newline}) = k
    BY AppendPieces DEF Line, LineOf
<1>2. g[i] = f[i] /\ i \in DOMAIN g /\ \A j \in 1..(i - 1) : g[j] = f[j]
    BY <1>1, AppendPieces
<1>3. {j \in 1..(i - 1) : g[j] = Newline} = {j \in 1..(i - 1) : f[j] = Newline}
    BY <1>2
<1>4. QED
    BY <1>1, <1>2, <1>3 DEF Line, LineOf

\* A record and its newline at the end of a file are the file's last line.
LEMMA LastLine ==
    ASSUME NEW f \in Seq(Piece), Len(f) > 1, f[Len(f) - 1] # Newline, f[Len(f)] = Newline
    PROVE  /\ Len(f) - 1 \in Line(f, CountLines(f))
           /\ CountLines(f) \in Nat \ {0}
<1> DEFINE n == Len(f)
           before == Breaks(f, n - 2)
<1>1. n \in Nat /\ n - 2 \in Nat /\ DOMAIN f = 1..n
    OBVIOUS
<1>2. IsFiniteSet(before) /\ Cardinality(before) \in Nat
    BY <1>1, BreaksCount
<1>3. {i \in DOMAIN f : f[i] = Newline} = before \cup {n} /\ n \notin before
    BY <1>1 DEF Breaks
<1>4. Cardinality({i \in DOMAIN f : f[i] = Newline}) = Cardinality(before) + 1
    BY <1>2, <1>3, FS_AddElement
<1>5. CountLines(f) = Cardinality(before) + 1
    BY <1>1, <1>2, <1>4 DEF CountLines
<1>6. LineOf(f, n - 1) = 1 + Cardinality(before)
    <2>1. (n - 1) - 1 = n - 2
        BY <1>1
    <2>2. QED
        BY <2>1 DEF LineOf, Breaks
<1>7. QED
    BY <1>1, <1>2, <1>5, <1>6 DEF Line

\* A line is one of those that are counted.
LEMMA LineIsCounted ==
    ASSUME NEW f \in Seq(Piece), NEW k, NEW i \in Line(f, k)
    PROVE  k \in 1..CountLines(f)
<1> DEFINE n == Len(f)
           all == {j \in DOMAIN f : f[j] = Newline}
           before == Breaks(f, i - 1)
<1>1. n \in Nat /\ DOMAIN f = 1..n /\ i \in 1..n /\ f[i] # Newline /\ i - 1 \in Nat
    BY DEF Line
<1>2. k = 1 + Cardinality(before)
    BY DEF Line, LineOf, Breaks
<1>3. all = Breaks(f, n)
    BY <1>1 DEF Breaks
<1>4. /\ IsFiniteSet(all) /\ Cardinality(all) \in Nat
      /\ IsFiniteSet(before) /\ Cardinality(before) \in Nat
    BY <1>1, <1>3, BreaksCount
<1>5. CASE f[n] = Newline
    <2>1. n \notin before /\ before \cup {n} \in SUBSET all
        BY <1>1, <1>5 DEF Breaks
    <2>2. Cardinality(before) + 1 <= Cardinality(all)
        BY <1>4, <2>1, FS_AddElement, FS_Subset
    <2>3. CountLines(f) = Cardinality(all)
        BY <1>4, <1>5 DEF CountLines
    <2>4. QED
        BY <1>2, <1>4, <2>2, <2>3
<1>6. CASE f[n] # Newline
    <2>1. before \in SUBSET all
        BY <1>1 DEF Breaks
    <2>2. Cardinality(before) <= Cardinality(all)
        BY <1>4, <2>1, FS_Subset
    <2>3. CountLines(f) = Cardinality(all) + 1
        BY <1>1, <1>4, <1>6 DEF CountLines
    <2>4. QED
        BY <1>2, <1>4, <2>2, <2>3
<1>7. QED
    BY <1>5, <1>6

\* A line that holds a note's record.
IsRef(n, r) == r[1] \in Month /\ Held(n, r[1], r[2])

\* What a writer has done: from the record to the release it holds its file's
\* lock, and what it has written is at the end; its ref is a line of its note.
Wrote(p) ==
    LET j == job[p]
        f == files[j.file]
    IN  /\ pc[p] # "idle" => j.note \in Note
        /\ pc[p] \in {"writing", "ending", "counting", "unlocking"} => flock[j.file] = p
        /\ pc[p] = "ending" => Len(f) > 0 /\ f[Len(f)] = j.note
        /\ pc[p] = "counting" => Len(f) > 1 /\ f[Len(f) - 1] = j.note /\ f[Len(f)] = Newline
        /\ pc[p] \in {"unlocking", "committing"} => j.ref # NoRef /\ IsRef(j.note, j.ref)

\* What was answered is in the archive.
AckedHeld == \A n \in acked : \E m \in Month : \E k : Held(n, m, k)

\* What a recovery has read, and what it has done with it.
Recovering ==
    /\ recover.pc = "read" => live < MaxRecover
    /\ \A n \in Note : recover.seen[n] # NoRef => IsRef(n, recover.seen[n])
    /\ recover.pc # "idle" => \A n \in recover.owed : recover.seen[n] # NoRef
    /\ recover.pc = "done" => \A n \in Note : recover.seen[n] # NoRef => rows[live][n] # NoRef

ArchiveInv ==
    /\ TypeOK
    /\ \A p \in Process : Wrote(p)
    /\ AckedHeld /\ Recovering /\ RefsReachTheirRecord

\* A step that appends to p's file, under its lock, or to none.
Appends(p) ==
    \/ files' = files
    \/ /\ flock[job[p].file] = p
       /\ \E x \in Piece : files' = [files EXCEPT ![job[p].file] = Append(@, x)]

LEMMA AppendKeepsRefs ==
    ASSUME TypeOK, NEW p \in Process, Appends(p)
    PROVE  /\ files' \in [Month -> Seq(Piece)]
           /\ \A m \in Month : flock[m] # p => files'[m] = files[m]
           /\ \A n, k : \A m \in Month : Held(n, m, k) => Held(n, m, k)'
<1>1. files \in [Month -> Seq(Piece)] /\ job[p].file \in Month
    BY DEF TypeOK, Piece
<1>2. CASE files' = files
    BY <1>1, <1>2 DEF Held
<1>3. CASE files' # files
    <2>1. PICK x \in Piece : files' = [files EXCEPT ![job[p].file] = Append(@, x)]
        BY <1>3 DEF Appends
    <2>2. flock[job[p].file] = p
        BY <1>3 DEF Appends
    <2>3. Append(files[job[p].file], x) \in Seq(Piece)
        BY <1>1, AppendPieces
    <2>4. ASSUME NEW n, NEW k, NEW m \in Month, Held(n, m, k) PROVE Held(n, m, k)'
        <3>1. PICK i \in Line(files[m], k) : files[m][i] = n
            BY <2>4 DEF Held
        <3>2. CASE m = job[p].file
            <4>1. files'[m] = Append(files[m], x) /\ files[m] \in Seq(Piece)
                BY <1>1, <2>1, <3>2
            <4>2. i \in Line(files'[m], k) /\ files'[m][i] = n
                BY <3>1, <4>1, LinesStay
            <4>3. QED
                BY <4>2 DEF Held
        <3>3. CASE m # job[p].file
            BY <1>1, <2>1, <3>1, <3>3 DEF Held
        <3>4. QED
            BY <3>2, <3>3
    <2>5. QED
        BY <1>1, <2>1, <2>2, <2>3, <2>4
<1>4. QED
    BY <1>2, <1>3

\* The rows, the answers and the recovery rest on lines that stay.
LEMMA RefsStay ==
    ASSUME ArchiveInv, \A n, k : \A m \in Month : Held(n, m, k) => Held(n, m, k)',
           UNCHANGED <<rows, acked, recover, live>>
    PROVE  AckedHeld' /\ Recovering' /\ RefsReachTheirRecord'
<1>1. AckedHeld'
    BY DEF ArchiveInv, AckedHeld
<1>2. Recovering'
    <2>1. recover' = recover /\ live' = live /\ rows' = rows
        OBVIOUS
    <2>2. \A n \in Note : IsRef(n, recover.seen[n]) => IsRef(n, recover.seen[n])'
        BY <2>1 DEF IsRef
    <2>3. QED
        BY <2>1, <2>2 DEF ArchiveInv, Recovering
<1>3. RefsReachTheirRecord'
    <2>1. \A b \in Base, n \in Note : rows[b][n] \in Ref \cup {NoRef}
        BY DEF ArchiveInv, TypeOK
    <2>2. \A b \in Base, n \in Note : rows[b][n] # NoRef => rows[b][n][1] \in Month
        BY <2>1 DEF Ref
    <2>3. QED
        BY <2>2 DEF ArchiveInv, RefsReachTheirRecord
<1>4. QED
    BY <1>1, <1>2, <1>3

\* A step of a writer that commits nothing.
LEMMA WriterStep ==
    ASSUME ArchiveInv, NEW p \in Process, NEW w, Appends(p),
           NEW j \in [note : Note \cup {Nobody}, file : Month, ref : Ref \cup {NoRef}],
           w \in {"idle", "waiting", "writing", "ending", "counting", "unlocking", "committing"},
           pc' = [pc EXCEPT ![p] = w], job' = [job EXCEPT ![p] = j],
           flock' \in [Month -> Process \cup {Nobody}],
           \A m \in Month : flock[m] \in Process \ {p} => flock'[m] = flock[m],
           handle' \in [Process -> Base], UNCHANGED <<month, live, recover, storage>>,
           Wrote(p)'
    PROVE  ArchiveInv'
<1>1. /\ files' \in [Month -> Seq(Piece)]
      /\ \A m \in Month : flock[m] # p => files'[m] = files[m]
      /\ \A n, k : \A m \in Month : Held(n, m, k) => Held(n, m, k)'
    BY AppendKeepsRefs DEF ArchiveInv
<1>2. TypeOK'
    BY <1>1 DEF ArchiveInv, TypeOK, Piece, storage
<1>3. ASSUME NEW q \in Process PROVE Wrote(q)'
    <2>1. CASE q = p
        BY <2>1
    <2>2. CASE q # p
        <3>1. pc'[q] = pc[q] /\ job'[q] = job[q] /\ job[q].file \in Month
            BY <2>2 DEF ArchiveInv, TypeOK
        <3>2. Wrote(q)
            BY DEF ArchiveInv
        <3>3. flock[job[q].file] = q =>
                  flock'[job[q].file] = q /\ files'[job[q].file] = files[job[q].file]
            BY <1>1, <2>2, <3>1
        <3>4. IsRef(job[q].note, job[q].ref) => IsRef(job[q].note, job[q].ref)'
            BY <1>1, <3>1 DEF IsRef
        <3>5. QED
            BY <3>1, <3>2, <3>3, <3>4 DEF Wrote
    <2>3. QED
        BY <2>1, <2>2
<1>4. AckedHeld' /\ Recovering' /\ RefsReachTheirRecord'
    BY <1>1, RefsStay DEF storage
<1>5. QED
    BY <1>2, <1>3, <1>4 DEF ArchiveInv

LEMMA WriterTypes ==
    ASSUME ArchiveInv, NEW p \in Process
    PROVE  /\ job[p] \in [note : Note \cup {Nobody}, file : Month, ref : Ref \cup {NoRef}]
           /\ NoJob \in [note : Note \cup {Nobody}, file : Month, ref : Ref \cup {NoRef}]
           /\ job[p].file \in Month /\ files[job[p].file] \in Seq(Piece)
           /\ flock \in [Month -> Process \cup {Nobody}] /\ handle \in [Process -> Base]
           /\ job = [job EXCEPT ![p] = job[p]] /\ NoJob.ref = NoRef
BY ColdArchiveAssumption DEF ArchiveInv, TypeOK, Piece, NoJob, Month

LEMMA StartInv == ASSUME ArchiveInv, NEW p \in Process, NEW n \in Note, Start(p, n) PROVE ArchiveInv'
<1> DEFINE j == [note |-> n, file |-> month, ref |-> NoRef]
<1>1. j \in [note : Note \cup {Nobody}, file : Month, ref : Ref \cup {NoRef}]
    BY DEF ArchiveInv, TypeOK
<1>2. Wrote(p)'
    BY DEF Start, Goto, Wrote, ArchiveInv, TypeOK
<1>3. QED
    BY <1>1, <1>2, WriterStep, WriterTypes DEF Start, Goto, Appends, books, storage

LEMMA LockInv == ASSUME ArchiveInv, NEW p \in Process, Lock(p) PROVE ArchiveInv'
<1> DEFINE m == job[p].file
<1>1. /\ pc[p] = "waiting" /\ flock[m] = Nobody /\ flock' = [flock EXCEPT ![m] = p]
      /\ pc' = [pc EXCEPT ![p] = "writing"]
      /\ UNCHANGED <<files, job, storage, books>>
    BY DEF Lock, Goto
<1>2. flock' \in [Month -> Process \cup {Nobody}] /\ flock'[m] = p
    BY <1>1, WriterTypes
<1>3. \A l \in Month : flock[l] \in Process \ {p} => flock'[l] = flock[l]
    BY <1>1, WriterTypes, ColdArchiveAssumption
<1>4. Wrote(p)'
    BY <1>1, <1>2 DEF Wrote, ArchiveInv, TypeOK
<1>5. QED
    BY <1>1, <1>2, <1>3, <1>4, WriterStep, WriterTypes DEF Appends, books

LEMMA WriteRecordInv == ASSUME ArchiveInv, NEW p \in Process, WriteRecord(p) PROVE ArchiveInv'
<1> DEFINE m == job[p].file
           f == files[m]
<1>1. /\ pc[p] = "writing" /\ files' = [files EXCEPT ![m] = Append(@, job[p].note)]
      /\ pc' = [pc EXCEPT ![p] = "ending"] /\ UNCHANGED <<flock, job, storage, books>>
    BY DEF WriteRecord, Goto
<1>2. /\ flock[m] = p /\ job[p].note \in Note
    BY <1>1 DEF ArchiveInv, Wrote
<1>3. files'[m] = Append(f, job[p].note)
    BY <1>1, WriterTypes DEF ArchiveInv, TypeOK
<1>4. Len(files'[m]) > 0 /\ files'[m][Len(files'[m])] = job[p].note
    BY <1>2, <1>3, WriterTypes, AppendPieces DEF Piece
<1>5. pc'[p] = "ending" /\ job' = job
    BY <1>1 DEF ArchiveInv, TypeOK
<1>6. Wrote(p)'
    BY <1>1, <1>2, <1>4, <1>5 DEF Wrote
<1>7. Appends(p)
    BY <1>1, <1>2 DEF Appends, Piece
<1>8. QED
    BY <1>1, <1>6, <1>7, WriterStep, WriterTypes DEF books

LEMMA WriteNewlineInv == ASSUME ArchiveInv, NEW p \in Process, WriteNewline(p) PROVE ArchiveInv'
<1> DEFINE m == job[p].file
           f == files[m]
<1>1. /\ pc[p] = "ending" /\ files' = [files EXCEPT ![m] = Append(@, Newline)]
      /\ pc' = [pc EXCEPT ![p] = "counting"] /\ UNCHANGED <<flock, job, storage, books>>
    BY DEF WriteNewline, Goto
<1>2. /\ flock[m] = p /\ job[p].note \in Note /\ Len(f) > 0 /\ f[Len(f)] = job[p].note
    BY <1>1 DEF ArchiveInv, Wrote
<1>3. files'[m] = Append(f, Newline)
    BY <1>1, WriterTypes DEF ArchiveInv, TypeOK
<1>4. /\ Len(files'[m]) > 1 /\ files'[m][Len(files'[m]) - 1] = job[p].note
      /\ files'[m][Len(files'[m])] = Newline
    BY <1>2, <1>3, WriterTypes, AppendPieces DEF Piece
<1>5. pc'[p] = "counting" /\ job' = job
    BY <1>1 DEF ArchiveInv, TypeOK
<1>6. Wrote(p)'
    BY <1>1, <1>2, <1>4, <1>5 DEF Wrote
<1>7. Appends(p)
    BY <1>1, <1>2 DEF Appends, Piece
<1>8. QED
    BY <1>1, <1>6, <1>7, WriterStep, WriterTypes DEF books

\* The number of lines, counted under the lock, is the line just written.
LEMMA CountInv == ASSUME ArchiveInv, NEW p \in Process, Count(p) PROVE ArchiveInv'
<1> DEFINE m == job[p].file
           f == files[m]
           r == <<m, CountLines(f)>>
           j == [job[p] EXCEPT !.ref = r]
<1>1. /\ pc[p] = "counting" /\ job' = [job EXCEPT ![p] = j]
      /\ pc' = [pc EXCEPT ![p] = "unlocking"] /\ UNCHANGED <<files, flock, storage, books>>
    BY DEF Count, Goto, ArchiveInv, TypeOK
<1>2. /\ flock[m] = p /\ job[p].note \in Note
      /\ Len(f) > 1 /\ f[Len(f) - 1] = job[p].note /\ f[Len(f)] = Newline
    BY <1>1 DEF ArchiveInv, Wrote
<1>3. Len(f) - 1 \in Line(f, CountLines(f)) /\ CountLines(f) \in Nat \ {0}
    BY <1>2, WriterTypes, LastLine, ColdArchiveAssumption
<1>4. Held(job[p].note, m, CountLines(f))
    BY <1>2, <1>3 DEF Held
<1>5. r \in Ref /\ r # NoRef /\ r[1] = m /\ r[2] = CountLines(f)
    BY <1>3, WriterTypes DEF Ref, NoRef
<1> HIDE DEF r
<1>6. /\ j \in [note : Note \cup {Nobody}, file : Month, ref : Ref \cup {NoRef}]
      /\ j.note = job[p].note /\ j.file = m /\ j.ref = r
    BY <1>5, WriterTypes
<1>7. IsRef(j.note, j.ref)
    BY <1>4, <1>5, <1>6, WriterTypes DEF IsRef
<1>8. pc'[p] = "unlocking" /\ job'[p] = j
    BY <1>1 DEF ArchiveInv, TypeOK
<1>9. Wrote(p)'
    <2>1. IsRef(job[p].note, job[p].ref)'
        BY <1>1, <1>6, <1>7, <1>8 DEF IsRef, Held
    <2>2. QED
        BY <1>1, <1>2, <1>5, <1>6, <1>8, <2>1 DEF Wrote
<1>10. QED
    BY <1>1, <1>6, <1>9, WriterStep, WriterTypes DEF Appends, books

LEMMA UnlockedTypes ==
    ASSUME ArchiveInv, NEW p \in Process
    PROVE  /\ Unlocked(p) \in [Month -> Process \cup {Nobody}]
           /\ \A m \in Month : flock[m] \in Process \ {p} => Unlocked(p)[m] = flock[m]
BY DEF ArchiveInv, TypeOK, Unlocked

LEMMA UnlockInv == ASSUME ArchiveInv, NEW p \in Process, Unlock(p) PROVE ArchiveInv'
<1>1. /\ pc[p] = "unlocking" /\ flock' = Unlocked(p)
      /\ pc' = [pc EXCEPT ![p] = "committing"] /\ UNCHANGED <<files, job, storage, books>>
    BY DEF Unlock, Goto
<1>2. Wrote(p)'
    <2>1. job[p].note \in Note /\ job[p].ref # NoRef /\ IsRef(job[p].note, job[p].ref)
        BY <1>1 DEF ArchiveInv, Wrote
    <2>2. IsRef(job[p].note, job[p].ref)'
        BY <1>1, <2>1 DEF IsRef, Held
    <2>3. pc'[p] = "committing" /\ job' = job
        BY <1>1 DEF ArchiveInv, TypeOK
    <2>4. QED
        BY <2>1, <2>2, <2>3 DEF Wrote
<1>3. QED
    BY <1>1, <1>2, WriterStep, WriterTypes, UnlockedTypes DEF Appends, books

\* A failure leaves an idle writer, its lock released and perhaps a cut record.
LEMMA Abandoned ==
    ASSUME ArchiveInv, NEW p \in Process, files' \in Leavings(p), flock' = Unlocked(p),
           Goto(p, "idle"), job' = [job EXCEPT ![p] = NoJob],
           handle' \in [Process -> Base], UNCHANGED <<month, live, recover, storage>>
    PROVE  ArchiveInv'
<1>1. Appends(p)
    <2>1. CASE files' = files
        BY <2>1 DEF Appends
    <2>2. CASE files' # files
        <3>1. pc[p] = "writing" /\ files' = [files EXCEPT ![job[p].file] = Append(@, Cut)]
            BY <2>2 DEF Leavings
        <3>2. QED
            BY <3>1 DEF ArchiveInv, Wrote, Appends, Piece
    <2>3. QED
        BY <2>1, <2>2
<1>2. Wrote(p)'
    BY DEF Goto, ArchiveInv, TypeOK, Wrote
<1>3. QED
    BY <1>1, <1>2, WriterStep, WriterTypes, UnlockedTypes DEF Goto

LEMMA AppendFailsInv == ASSUME ArchiveInv, NEW p \in Process, AppendFails(p) PROVE ArchiveInv'
BY Abandoned, WriterTypes DEF AppendFails, books

LEMMA CommitFailsInv == ASSUME ArchiveInv, NEW p \in Process, CommitFails(p) PROVE ArchiveInv'
<1>1. Wrote(p)'
    BY DEF CommitFails, Goto, ArchiveInv, TypeOK, Wrote
<1>2. QED
    BY <1>1, WriterStep, WriterTypes DEF CommitFails, Goto, Appends, books

LEMMA CrashInv == ASSUME ArchiveInv, NEW p \in Process, Crash(p) PROVE ArchiveInv'
<1>1. handle' \in [Process -> Base]
    BY DEF Crash, ArchiveInv, TypeOK
<1>2. QED
    BY <1>1, Abandoned DEF Crash

\* The rows of a database, other than one note's, and the lines they name.
LEMMA CommitInv == ASSUME ArchiveInv, NEW p \in Process, Commit(p) PROVE ArchiveInv'
<1> DEFINE n == job[p].note
           r == job[p].ref
           h == handle[p]
<1>1. /\ pc[p] = "committing" /\ rows' = [rows EXCEPT ![h][n] = r]
      /\ acked' = acked \cup {n} /\ UNCHANGED <<files, flock, books>>
      /\ pc' = [pc EXCEPT ![p] = "idle"] /\ job' = [job EXCEPT ![p] = NoJob]
    BY DEF Commit, Goto
<1>2. n \in Note /\ r # NoRef /\ r \in Ref /\ IsRef(n, r) /\ h \in Base
    <2>1. r \in Ref \cup {NoRef} /\ h \in Base
        BY WriterTypes
    <2>2. QED
        BY <1>1, <2>1 DEF ArchiveInv, Wrote
<1>3. rows \in [Base -> [Note -> Ref \cup {NoRef}]]
    BY DEF ArchiveInv, TypeOK
<1>4. /\ rows' \in [Base -> [Note -> Ref \cup {NoRef}]]
      /\ \A b \in Base, m \in Note : rows'[b][m] = IF b = h /\ m = n THEN r ELSE rows[b][m]
    BY <1>1, <1>2, <1>3
<1>5. TypeOK'
    BY <1>1, <1>2, <1>4, WriterTypes DEF ArchiveInv, TypeOK, books
<1>6. ASSUME NEW q \in Process PROVE Wrote(q)'
    <2>1. CASE q = p
        BY <1>1, <2>1 DEF ArchiveInv, TypeOK, Wrote
    <2>2. CASE q # p
        <3>1. pc'[q] = pc[q] /\ job'[q] = job[q] /\ Wrote(q)
            BY <1>1, <2>2 DEF ArchiveInv, TypeOK
        <3>2. IsRef(job[q].note, job[q].ref) => IsRef(job[q].note, job[q].ref)'
            BY <1>1, <3>1 DEF IsRef, Held
        <3>3. QED
            BY <1>1, <3>1, <3>2 DEF Wrote
    <2>3. QED
        BY <2>1, <2>2
<1>7. \A m, k, l : Held(m, k, l)' = Held(m, k, l)
    BY <1>1 DEF Held
<1>8. AckedHeld'
    BY <1>1, <1>2, <1>7 DEF ArchiveInv, AckedHeld, IsRef
<1>9. Recovering'
    <2>1. recover' = recover /\ live' = live /\ live \in Base
        BY <1>1 DEF books, ArchiveInv, TypeOK
    <2>2. \A m \in Note : IsRef(m, recover.seen[m]) => IsRef(m, recover.seen[m])'
        BY <1>7, <2>1 DEF IsRef
    <2>3. \A m \in Note : rows[live][m] # NoRef => rows'[live][m] # NoRef
        BY <1>2, <1>4, <2>1
    <2>4. QED
        BY <2>1, <2>2, <2>3 DEF ArchiveInv, Recovering
<1>10. RefsReachTheirRecord'
    BY <1>2, <1>4, <1>7 DEF ArchiveInv, RefsReachTheirRecord, IsRef
<1>11. QED
    BY <1>5, <1>6, <1>8, <1>9, <1>10 DEF ArchiveInv

----------------------------------------------------------------------------
\* What the archive holds is found by reading it.
LEMMA RecordsFound ==
    ASSUME ArchiveInv, NEW n \in Note
    PROVE  /\ Records[n] \in Ref \cup {NoRef}
           /\ Records[n] # NoRef => IsRef(n, Records[n])
           /\ (\E m \in Month : \E k : Held(n, m, k)) => Records[n] # NoRef
<1> DEFINE all == UNION {{m} \X (1..CountLines(files[m])) : m \in Month}
           refs == {r \in all : \E i \in Line(files[r[1]], r[2]) : files[r[1]][i] = n}
<1>1. Records[n] = IF refs = {} THEN NoRef ELSE CHOOSE r \in refs : TRUE
    BY DEF Records
<1>2. files \in [Month -> Seq(Piece)]
    BY DEF ArchiveInv, TypeOK, Piece
<1>3. ASSUME NEW r \in all PROVE r[1] \in Month /\ r \in Ref /\ r # NoRef
    <2>1. PICK m \in Month : r \in {m} \X (1..CountLines(files[m]))
        OBVIOUS
    <2>2. \A k \in 1..CountLines(files[m]) : k \in Nat \ {0}
        OBVIOUS
    <2>3. m # 0
        BY DEF Month
    <2>4. QED
        BY <2>1, <2>2, <2>3 DEF Ref, NoRef
<1>4. ASSUME NEW m \in Month, NEW k, Held(n, m, k) PROVE <<m, k>> \in refs
    <2>1. k \in 1..CountLines(files[m])
        BY <1>2, <1>4, LineIsCounted DEF Held
    <2>2. <<m, k>> \in {m} \X (1..CountLines(files[m]))
        BY <2>1
    <2>3. <<m, k>> \in all
        BY <2>2
    <2>4. QED
        BY <1>4, <2>3 DEF Held
<1>5. ASSUME NEW r \in refs PROVE IsRef(n, r)
    BY <1>3 DEF IsRef, Held
<1> HIDE DEF all
<1>6. CASE refs = {}
    BY <1>1, <1>4, <1>6
<1>7. CASE refs # {}
    BY <1>1, <1>3, <1>5, <1>7
<1>8. QED
    BY <1>6, <1>7

\* A step of the recovery leaves the writers and the archive alone.
LEMMA RecoveryStep ==
    ASSUME ArchiveInv, UNCHANGED <<files, month, flock, pc, job, handle, acked>>,
           TypeOK', Recovering', RefsReachTheirRecord'
    PROVE  ArchiveInv'
<1>1. \A m, k, l : Held(m, k, l)' = Held(m, k, l)
    BY DEF Held
<1>2. \A p \in Process : IsRef(job[p].note, job[p].ref) => IsRef(job[p].note, job[p].ref)'
    BY <1>1 DEF IsRef
<1>3. \A p \in Process : Wrote(p)'
    BY <1>2 DEF ArchiveInv, Wrote
<1>4. AckedHeld'
    BY <1>1 DEF ArchiveInv, AckedHeld
<1>5. QED
    BY <1>3, <1>4 DEF ArchiveInv

LEMMA ReadInv == ASSUME ArchiveInv, Read PROVE ArchiveInv'
<1>1. /\ recover' = [pc |-> "read", seen |-> Records, owed |-> acked]
      /\ live < MaxRecover
      /\ UNCHANGED <<files, month, flock, pc, job, handle, rows, live, acked>>
    BY DEF Read
<1>2. Records \in [Note -> Ref \cup {NoRef}] /\ acked \subseteq Note
    <2>1. Records = [n \in Note |-> Records[n]]
        BY DEF Records
    <2>2. QED
        BY <2>1, RecordsFound DEF ArchiveInv, TypeOK
<1>3. /\ recover'.pc = "read" /\ recover'.owed = acked
      /\ \A n \in Note : recover'.seen[n] = Records[n]
    BY <1>1
<1>4. TypeOK'
    BY <1>1, <1>2 DEF ArchiveInv, TypeOK
<1>5. Recovering'
    <2>1. ASSUME NEW n \in Note, recover'.seen[n] # NoRef PROVE IsRef(n, recover.seen[n])'
        <3>1. IsRef(n, Records[n])
            BY <1>3, <2>1, RecordsFound
        <3>2. QED
            BY <1>1, <1>3, <3>1 DEF IsRef, Held
    <2>2. \A n \in acked : recover'.seen[n] # NoRef
        BY <1>2, <1>3, RecordsFound DEF ArchiveInv, AckedHeld
    <2>3. QED
        BY <1>1, <1>3, <2>1, <2>2 DEF Recovering
<1>6. RefsReachTheirRecord'
    BY <1>1 DEF ArchiveInv, RefsReachTheirRecord, Held
<1>7. QED
    BY <1>1, <1>4, <1>5, <1>6, RecoveryStep

LEMMA ReplaceInv == ASSUME ArchiveInv, Replace PROVE ArchiveInv'
<1>1. /\ recover.pc = "read" /\ live' = live + 1 /\ recover' = [recover EXCEPT !.pc = "bare"]
      /\ UNCHANGED <<files, month, flock, pc, job, handle, rows, acked>>
    BY DEF Replace
<1>2. live' \in Base
    BY <1>1, ColdArchiveAssumption DEF ArchiveInv, TypeOK, Recovering, Base
<1>3. /\ recover' \in [pc : {"idle", "read", "bare", "done"},
                       seen : [Note -> Ref \cup {NoRef}], owed : SUBSET Note]
      /\ recover'.pc = "bare" /\ recover'.seen = recover.seen /\ recover'.owed = recover.owed
    BY <1>1 DEF ArchiveInv, TypeOK
<1>4. TypeOK'
    BY <1>1, <1>2, <1>3 DEF ArchiveInv, TypeOK
<1>5. Recovering'
    <2>1. \A n \in Note : IsRef(n, recover.seen[n]) => IsRef(n, recover.seen[n])'
        BY <1>1, <1>3 DEF IsRef, Held
    <2>2. QED
        BY <1>1, <1>3, <2>1 DEF ArchiveInv, Recovering
<1>6. RefsReachTheirRecord'
    BY <1>1 DEF ArchiveInv, RefsReachTheirRecord, Held
<1>7. QED
    BY <1>1, <1>4, <1>5, <1>6, RecoveryStep

LEMMA RestoreInv == ASSUME ArchiveInv, Restore PROVE ArchiveInv'
<1> DEFINE new == [n \in Note |-> IF recover.seen[n] = NoRef THEN rows[live][n] ELSE recover.seen[n]]
<1>1. /\ recover.pc = "bare" /\ recover' = [recover EXCEPT !.pc = "done"]
      /\ UNCHANGED <<files, month, flock, pc, job, handle, live, acked>>
    BY DEF Restore
<1>2. /\ live \in Base /\ rows \in [Base -> [Note -> Ref \cup {NoRef}]]
      /\ recover.seen \in [Note -> Ref \cup {NoRef}]
    BY DEF ArchiveInv, TypeOK
<1>3. rows' = [rows EXCEPT ![live] = new]
    BY DEF Restore
<1>4. /\ recover' \in [pc : {"idle", "read", "bare", "done"},
                       seen : [Note -> Ref \cup {NoRef}], owed : SUBSET Note]
      /\ recover'.pc = "done" /\ recover'.seen = recover.seen /\ recover'.owed = recover.owed
    BY <1>1 DEF ArchiveInv, TypeOK
<1>5. new \in [Note -> Ref \cup {NoRef}]
    BY <1>2
<1>6. /\ rows' \in [Base -> [Note -> Ref \cup {NoRef}]]
      /\ \A n \in Note : rows'[live][n] = IF recover.seen[n] = NoRef THEN rows[live][n] ELSE recover.seen[n]
      /\ \A b \in Base \ {live} : rows'[b] = rows[b]
    BY <1>2, <1>3, <1>5
<1>7. TypeOK'
    BY <1>1, <1>4, <1>6 DEF ArchiveInv, TypeOK
<1>8. Recovering'
    <2>1. \A n \in Note : IsRef(n, recover.seen[n]) => IsRef(n, recover.seen[n])'
        BY <1>1, <1>4 DEF IsRef, Held
    <2>2. QED
        BY <1>1, <1>4, <1>6, <2>1 DEF ArchiveInv, Recovering
<1>9. RefsReachTheirRecord'
    <2>1. ASSUME NEW b \in Base, NEW n \in Note, rows'[b][n] # NoRef
          PROVE  Held(n, rows'[b][n][1], rows'[b][n][2])
        <3>1. CASE rows'[b][n] = rows[b][n]
            BY <2>1, <3>1 DEF ArchiveInv, RefsReachTheirRecord
        <3>2. CASE rows'[b][n] # rows[b][n]
            <4>1. b = live /\ recover.seen[n] # NoRef /\ rows'[b][n] = recover.seen[n]
                BY <1>6, <3>2
            <4>2. QED
                BY <4>1 DEF ArchiveInv, Recovering, IsRef
        <3>3. QED
            BY <3>1, <3>2
    <2>2. QED
        BY <1>1, <2>1 DEF RefsReachTheirRecord, Held
<1>10. QED
    BY <1>1, <1>7, <1>8, <1>9, RecoveryStep

LEMMA RecoverEndsInv == ASSUME ArchiveInv, RecoverEnds PROVE ArchiveInv'
<1>1. /\ recover' = [pc |-> "idle", seen |-> NoRows, owed |-> {}]
      /\ UNCHANGED <<files, month, flock, pc, job, handle, rows, live, acked>>
    BY DEF RecoverEnds
<1>2. TypeOK'
    BY <1>1 DEF ArchiveInv, TypeOK, NoRows
<1>3. Recovering'
    BY <1>1 DEF Recovering, NoRows
<1>4. RefsReachTheirRecord'
    BY <1>1 DEF ArchiveInv, RefsReachTheirRecord, Held
<1>5. QED
    BY <1>1, <1>2, <1>3, <1>4, RecoveryStep

LEMMA TurnInv == ASSUME ArchiveInv, Turn PROVE ArchiveInv'
<1>1. /\ month < LastMonth /\ month' = month + 1
      /\ UNCHANGED <<files, flock, pc, job, handle, live, recover, rows, acked>>
    BY DEF Turn, storage
<1>2. TypeOK'
    BY <1>1, ColdArchiveAssumption DEF ArchiveInv, TypeOK, Month
<1>3. \A m, k, l : Held(m, k, l)' = Held(m, k, l)
    BY <1>1 DEF Held
<1>4. \A p \in Process : IsRef(job[p].note, job[p].ref) => IsRef(job[p].note, job[p].ref)'
    BY <1>1, <1>3 DEF IsRef
<1>5. \A p \in Process : Wrote(p)'
    BY <1>1, <1>4 DEF ArchiveInv, Wrote
<1>6. AckedHeld' /\ Recovering' /\ RefsReachTheirRecord'
    BY <1>1, <1>3, RefsStay
<1>7. QED
    BY <1>2, <1>5, <1>6 DEF ArchiveInv

LEMMA ArchiveInitInv == Init => ArchiveInv
<1> SUFFICES ASSUME Init PROVE ArchiveInv
    OBVIOUS
<1>1. TypeOK
    BY ColdArchiveAssumption DEF Init, TypeOK, NoJob, NoRows, Month, Base
<1>2. \A p \in Process : Wrote(p)
    BY DEF Init, Wrote
<1>3. AckedHeld /\ Recovering /\ RefsReachTheirRecord
    BY DEF Init, AckedHeld, Recovering, RefsReachTheirRecord, NoRows, Base
<1>4. QED
    BY <1>1, <1>2, <1>3 DEF ArchiveInv

LEMMA ArchiveNextInv == ArchiveInv /\ [Next]_vars => ArchiveInv'
<1> SUFFICES ASSUME ArchiveInv, [Next]_vars PROVE ArchiveInv'
    OBVIOUS
<1>1. ASSUME NEW p \in Process, NEW n \in Note, Start(p, n) PROVE ArchiveInv'
    BY <1>1, StartInv
<1>2. ASSUME NEW p \in Process,
             Lock(p) \/ WriteRecord(p) \/ WriteNewline(p) \/ Count(p) \/ Unlock(p)
      PROVE  ArchiveInv'
    BY <1>2, LockInv, WriteRecordInv, WriteNewlineInv, CountInv, UnlockInv
<1>3. ASSUME NEW p \in Process, AppendFails(p) \/ Commit(p) \/ CommitFails(p) \/ Crash(p)
      PROVE  ArchiveInv'
    BY <1>3, AppendFailsInv, CommitInv, CommitFailsInv, CrashInv
<1>4. CASE Turn \/ Read \/ Replace \/ Restore \/ RecoverEnds
    BY <1>4, TurnInv, ReadInv, ReplaceInv, RestoreInv, RecoverEndsInv
<1>5. CASE UNCHANGED vars
    <2>1. UNCHANGED <<files, month, flock, pc, job, handle, rows, live, recover, acked>>
        BY <1>5 DEF vars
    <2>2. TypeOK' /\ Recovering' /\ RefsReachTheirRecord'
        BY <2>1 DEF ArchiveInv, TypeOK, Recovering, IsRef, RefsReachTheirRecord, Held
    <2>3. QED
        BY <2>1, <2>2, RecoveryStep
<1>6. QED
    BY <1>1, <1>2, <1>3, <1>4, <1>5 DEF Next

\* The number that an append answers with is the line of its record for ever,
\* however many writers, databases, cut records and recoveries there are, and
\* a recovery that ends has every note that was acknowledged before it read.
THEOREM ArchiveHoldsEverything == Spec => []ArchiveIsWhole
<1>1. ArchiveInv => ArchiveIsWhole
    BY DEF ArchiveInv, ArchiveIsWhole, RecoveryIsComplete, Recovering, TypeOK
<1>2. QED
    BY <1>1, ArchiveInitInv, ArchiveNextInv, PTL DEF Spec

----------------------------------------------------------------------------
(* Experience *)

\* What the statements of a refresh that nothing disturbed have brought up to date.
ProceduresAgree ==
    \A n \in Lesson : lessons[n].shown /\ n \in Procedure
                        => records[<<"procedure", n>>].status = ProcedureStatus(n)
ReviewsAgree ==
    \A n \in Lesson : lessons[n].shown /\ lessons[n].due
                        => records[<<"review", n>>].status = "review_required"
DegradedAgree ==
    \A n \in Lesson : lessons[n].shown /\ lessons[n].spoilt
                        => records[<<"degraded", n>>].status = "degraded"

RefreshSoFar ==
    settled =>
      /\ refresh \in {"review", "degrade", "judge", "settle"} => ProceduresAgree
      /\ refresh \in {"degrade", "judge", "settle"} => ReviewsAgree
      /\ refresh \in {"judge", "settle"} => DegradedAgree

ExperienceInv ==
    /\ ExperienceTypeOK /\ RefreshSoFar /\ StableIsEarned /\ FeedbackHasRun
    /\ artifacts \in Nat /\ reviewCalls \in Nat
    /\ unsaved \subseteq 1..artifacts /\ feedback \subseteq 0..artifacts

Status     == {"none", "candidate", "review_required", "stable", "degraded"}
Confidence == {0, 38, 50, 70, 80}
RecordType == [status : Status, confidence : Confidence, reviews : {0, Lenses},
               verdict : {"none", "adopt", "monitor"}]

\* What a record becomes when a statement of the refresh copies its note.
LEMMA UpsertedRecord ==
    ASSUME NEW r \in RecordType, NEW s \in Status, NEW c \in Confidence
    PROVE  /\ Upserted(r, s, c) \in RecordType
           /\ Upserted(r, s, c).status = s /\ Upserted(r, s, c).confidence = c
           /\ Upserted(r, s, c).reviews = r.reviews /\ Upserted(r, s, c).verdict = r.verdict
BY DEF Upserted, RecordType

LEMMA ReviewedRecord ==
    ASSUME NEW r \in RecordType
    PROVE  /\ Reviewed(r) \in RecordType
           /\ Reviewed(r).status = r.status /\ Reviewed(r).confidence = r.confidence
           /\ Reviewed(r).reviews = Lenses
BY DEF Reviewed, RecordType, Lenses

\* A statement that copies the notes of S into the records with a prefix.
Copies(prefix, S, st, cf) ==
    records' = [id \in Ids |-> IF id[1] = prefix /\ id[2] \in S
                               THEN Upserted(records[id], st[id[2]], cf[id[2]])
                               ELSE records[id]]

LEMMA Materialized ==
    ASSUME ExperienceInv, NEW prefix \in IdPrefixes, NEW S \in SUBSET Lesson,
           NEW st \in [Lesson -> Status \ {"none"}], NEW cf \in [Lesson -> Confidence],
           Copies(prefix, S, st, cf)
    PROVE  /\ records' \in [Ids -> RecordType]
           /\ \A id \in Ids : records'[id].status = "none" => records'[id].reviews = 0
           /\ \A id \in Ids : records'[id].verdict = records[id].verdict
           /\ \A id \in Ids : id[1] # prefix => records'[id] = records[id]
           /\ \A n \in S : records'[<<prefix, n>>].status = st[n]
           /\ \A n \in Lesson \ S : records'[<<prefix, n>>] = records[<<prefix, n>>]
<1>1. records \in [Ids -> RecordType]
    BY DEF ExperienceInv, ExperienceTypeOK, RecordType, Status, Confidence
<1>2. ASSUME NEW id \in Ids PROVE id[1] \in IdPrefixes /\ id[2] \in Lesson
    BY DEF Ids
<1> USE DEF Copies
<1>3. ASSUME NEW id \in Ids
      PROVE  /\ records'[id] \in RecordType
             /\ records'[id].status = "none" => records'[id].reviews = 0
             /\ records'[id].verdict = records[id].verdict
    <2>1. CASE id[1] = prefix /\ id[2] \in S
        <3>1. records'[id] = Upserted(records[id], st[id[2]], cf[id[2]])
            BY <2>1
        <3>2. records[id] \in RecordType /\ st[id[2]] \in Status /\ cf[id[2]] \in Confidence
            BY <1>1, <1>2
        <3>3. st[id[2]] # "none"
            BY <1>2
        <3>4. QED
            BY <3>1, <3>2, <3>3, UpsertedRecord
    <2>2. CASE ~(id[1] = prefix /\ id[2] \in S)
        BY <2>2, <1>1 DEF ExperienceInv, ExperienceTypeOK
    <2>3. QED
        BY <2>1, <2>2
<1>4. ASSUME NEW n \in Lesson
      PROVE  /\ <<prefix, n>> \in Ids /\ <<prefix, n>>[1] = prefix /\ <<prefix, n>>[2] = n
    BY DEF Ids
<1>5. ASSUME NEW n \in S PROVE records'[<<prefix, n>>].status = st[n]
    <2>1. records'[<<prefix, n>>] = Upserted(records[<<prefix, n>>], st[n], cf[n])
        BY <1>4
    <2>2. records[<<prefix, n>>] \in RecordType /\ st[n] \in Status /\ cf[n] \in Confidence
        BY <1>1, <1>4
    <2>3. QED
        BY <2>1, <2>2, UpsertedRecord
<1>6. QED
    BY <1>3, <1>4, <1>5

\* What VerdictsStay and RefreshCatchesUp say of one step.
VerdictStep ==
    \A id \in Ids :
       records[id].reviews > 0 /\ records'[id].verdict # records[id].verdict
         => reviewCalls' # reviewCalls

CatchUpStep ==
    refresh = "settle" /\ refresh' = "off" /\ settled /\ settled' =>
        \A n \in Shown :
          /\ n \in Procedure => records'[<<"procedure", n>>].status = ProcedureStatus(n)
          /\ lessons[n].spoilt => records'[<<"degraded", n>>].status = "degraded"
          /\ lessons[n].due =>
               records'[<<"review", n>>].status =
                 IF Ready(records'[<<"review", n>>]) THEN "stable" ELSE "review_required"

\* The rows of the loop besides the notes.
LEMMA IdsOf ==
    ASSUME NEW n \in Lesson, NEW prefix \in IdPrefixes
    PROVE  /\ <<prefix, n>> \in Ids /\ <<prefix, n>>[1] = prefix /\ <<prefix, n>>[2] = n
BY DEF Ids

LEMMA SeedProceduresInv ==
    ASSUME ExperienceInv, SeedProcedures PROVE ExperienceInv' /\ VerdictStep /\ CatchUpStep
<1> DEFINE S == Shown \cap Procedure
           st == [n \in Lesson |-> ProcedureStatus(n)]
           cf == [n \in Lesson |-> OwnConfidence(n)]
<1>1. /\ st \in [Lesson -> Status \ {"none"}] /\ cf \in [Lesson -> Confidence]
      /\ S \in SUBSET Lesson /\ "procedure" \in IdPrefixes
    BY DEF ProcedureStatus, OwnConfidence, Status, Confidence, ExperienceInv, ExperienceTypeOK,
           Shown, IdPrefixes
<1>2. Copies("procedure", S, st, cf)
    BY DEF Copies, SeedProcedures, Materialize, Shown
<1>3. /\ records' \in [Ids -> RecordType]
      /\ \A id \in Ids : records'[id].status = "none" => records'[id].reviews = 0
      /\ \A id \in Ids : records'[id].verdict = records[id].verdict
      /\ \A id \in Ids : id[1] # "procedure" => records'[id] = records[id]
      /\ \A n \in S : records'[<<"procedure", n>>].status = ProcedureStatus(n)
    <2> HIDE DEF S
    <2>1. \A n \in S : st[n] = ProcedureStatus(n)
        BY <1>1
    <2> HIDE DEF st, cf
    <2>2. QED
        BY <1>1, <1>2, <2>1, Materialized
<1>4. /\ refresh = "seed" /\ refresh' = "review"
      /\ UNCHANGED <<lessons, settled, artifacts, unsaved, feedback, reviewCalls>>
    BY DEF SeedProcedures, artifactVars
<1>5. ExperienceTypeOK'
    BY <1>3, <1>4 DEF ExperienceInv, ExperienceTypeOK, RecordType, Status, Confidence
<1>6. \A n \in Lesson : ProcedureStatus(n)' = ProcedureStatus(n)
    BY <1>4 DEF ProcedureStatus
<1>7. RefreshSoFar'
    BY <1>3, <1>4, <1>6 DEF RefreshSoFar, ProceduresAgree, Shown
<1>8. StableIsEarned'
    <2> HIDE DEF S, st, cf
    <2>1. \A n \in Lesson : records'[<<"review", n>>] = records[<<"review", n>>]
        <3>1. "review" \in IdPrefixes /\ "review" # "procedure"
            BY DEF IdPrefixes
        <3>2. TAKE n \in Lesson
        <3>3. <<"review", n>> \in Ids /\ <<"review", n>>[1] = "review"
            BY <3>1, IdsOf
        <3>4. QED
            BY <1>3, <3>1, <3>3
    <2>2. QED
        BY <2>1 DEF ExperienceInv, StableIsEarned
<1>9. QED
    BY <1>3, <1>4, <1>5, <1>7, <1>8 DEF ExperienceInv, FeedbackHasRun, VerdictStep, CatchUpStep

LEMMA MaterializeReviewInv ==
    ASSUME ExperienceInv, MaterializeReview PROVE ExperienceInv' /\ VerdictStep /\ CatchUpStep
<1> DEFINE S == {n \in Shown : lessons[n].due}
           st == [n \in Lesson |-> "review_required"]
           cf == [n \in Lesson |-> OwnConfidence(n)]
<1>1. /\ st \in [Lesson -> Status \ {"none"}] /\ cf \in [Lesson -> Confidence]
      /\ S \in SUBSET Lesson /\ "review" \in IdPrefixes
    BY DEF OwnConfidence, Status, Confidence, ExperienceInv, ExperienceTypeOK, Shown, IdPrefixes
<1>2. Copies("review", S, st, cf)
    BY DEF Copies, MaterializeReview, Materialize, Shown
<1>3. /\ records' \in [Ids -> RecordType]
      /\ \A id \in Ids : records'[id].status = "none" => records'[id].reviews = 0
      /\ \A id \in Ids : records'[id].verdict = records[id].verdict
      /\ \A id \in Ids : id[1] # "review" => records'[id] = records[id]
      /\ \A n \in S : records'[<<"review", n>>].status = "review_required"
      /\ \A n \in Lesson \ S : records'[<<"review", n>>] = records[<<"review", n>>]
    <2> HIDE DEF S
    <2>1. \A n \in S : st[n] = "review_required"
        BY <1>1
    <2> HIDE DEF st, cf
    <2>2. QED
        BY <1>1, <1>2, <2>1, Materialized
<1>4. /\ refresh = "review" /\ refresh' = "degrade"
      /\ UNCHANGED <<lessons, settled, artifacts, unsaved, feedback, reviewCalls>>
    BY DEF MaterializeReview, artifactVars
<1>5. ExperienceTypeOK'
    BY <1>3, <1>4 DEF ExperienceInv, ExperienceTypeOK, RecordType, Status, Confidence
<1>6. \A n \in Lesson : ProcedureStatus(n)' = ProcedureStatus(n)
    BY <1>4 DEF ProcedureStatus
<1>7. \A n \in Lesson : records'[<<"procedure", n>>] = records[<<"procedure", n>>]
    <2> HIDE DEF S, st, cf
    <2>1. "procedure" \in IdPrefixes /\ "procedure" # "review"
        BY DEF IdPrefixes
    <2>2. TAKE n \in Lesson
    <2>3. <<"procedure", n>> \in Ids /\ <<"procedure", n>>[1] = "procedure"
        BY <2>1, IdsOf
    <2>4. QED
        BY <1>3, <2>1, <2>3
<1>8. RefreshSoFar'
    BY <1>3, <1>4, <1>6, <1>7
    DEF ExperienceInv, RefreshSoFar, ProceduresAgree, ReviewsAgree, Shown
<1>9. StableIsEarned'
    BY <1>3 DEF ExperienceInv, StableIsEarned
<1>10. QED
    BY <1>3, <1>4, <1>5, <1>8, <1>9 DEF ExperienceInv, FeedbackHasRun, VerdictStep, CatchUpStep

LEMMA MaterializeDegradedInv ==
    ASSUME ExperienceInv, MaterializeDegraded PROVE ExperienceInv' /\ VerdictStep /\ CatchUpStep
<1> DEFINE S == {n \in Shown : lessons[n].spoilt}
           st == [n \in Lesson |-> "degraded"]
           cf == [n \in Lesson |-> 38]
<1>1. /\ st \in [Lesson -> Status \ {"none"}] /\ cf \in [Lesson -> Confidence]
      /\ S \in SUBSET Lesson /\ "degraded" \in IdPrefixes
    BY DEF Status, Confidence, Shown, IdPrefixes
<1>2. Copies("degraded", S, st, cf)
    BY DEF Copies, MaterializeDegraded, Materialize, Shown, Ids
<1>3. /\ records' \in [Ids -> RecordType]
      /\ \A id \in Ids : records'[id].status = "none" => records'[id].reviews = 0
      /\ \A id \in Ids : records'[id].verdict = records[id].verdict
      /\ \A id \in Ids : id[1] # "degraded" => records'[id] = records[id]
      /\ \A n \in S : records'[<<"degraded", n>>].status = "degraded"
    <2> HIDE DEF S
    <2>1. \A n \in S : st[n] = "degraded"
        BY <1>1
    <2> HIDE DEF st, cf
    <2>2. QED
        BY <1>1, <1>2, <2>1, Materialized
<1>4. /\ refresh = "degrade" /\ refresh' = "judge"
      /\ UNCHANGED <<lessons, settled, artifacts, unsaved, feedback, reviewCalls>>
    BY DEF MaterializeDegraded, artifactVars
<1>5. ExperienceTypeOK'
    BY <1>3, <1>4 DEF ExperienceInv, ExperienceTypeOK, RecordType, Status, Confidence
<1>6. \A n \in Lesson : ProcedureStatus(n)' = ProcedureStatus(n)
    BY <1>4 DEF ProcedureStatus
<1>7. \A n \in Lesson : /\ records'[<<"procedure", n>>] = records[<<"procedure", n>>]
                        /\ records'[<<"review", n>>] = records[<<"review", n>>]
    <2> HIDE DEF S, st, cf
    <2>1. {"procedure", "review"} \subseteq IdPrefixes \ {"degraded"}
        BY DEF IdPrefixes
    <2>2. TAKE n \in Lesson
    <2>3. /\ <<"procedure", n>> \in Ids /\ <<"procedure", n>>[1] = "procedure"
          /\ <<"review", n>> \in Ids /\ <<"review", n>>[1] = "review"
        BY <2>1, IdsOf
    <2>4. QED
        BY <1>3, <2>1, <2>3
<1>8. RefreshSoFar'
    BY <1>3, <1>4, <1>6, <1>7
    DEF ExperienceInv, RefreshSoFar, ProceduresAgree, ReviewsAgree, DegradedAgree, Shown
<1>9. StableIsEarned'
    BY <1>7 DEF ExperienceInv, StableIsEarned
<1>10. QED
    BY <1>3, <1>4, <1>5, <1>8, <1>9 DEF ExperienceInv, FeedbackHasRun, VerdictStep, CatchUpStep

\* Reviews change no status, and ReviewCandidates none that has a review.
LEMMA ReviewCandidatesInv ==
    ASSUME ExperienceInv, ReviewCandidates PROVE ExperienceInv' /\ VerdictStep /\ CatchUpStep
<1>1. records \in [Ids -> RecordType]
    BY DEF ExperienceInv, ExperienceTypeOK, RecordType, Status, Confidence
<1>2. records' = [id \in Ids |-> IF ToReview(id) THEN Reviewed(records[id]) ELSE records[id]]
    BY DEF ReviewCandidates
<1>3. ASSUME NEW id \in Ids
      PROVE  /\ records'[id] \in RecordType /\ records'[id].status = records[id].status
             /\ records'[id].confidence = records[id].confidence
             /\ records[id].reviews > 0 \/ records[id].status # "candidate"
                  => records'[id] = records[id]
    <2>1. CASE ToReview(id)
        BY <2>1, <1>1, <1>2, ReviewedRecord DEF ToReview
    <2>2. CASE ~ToReview(id)
        BY <2>2, <1>1, <1>2
    <2>3. QED
        BY <2>1, <2>2
<1>4. /\ refresh = "judge" /\ refresh' = "settle"
      /\ UNCHANGED <<lessons, settled, artifacts, unsaved, feedback, reviewCalls>>
    BY DEF ReviewCandidates, artifactVars
<1>5. ASSUME NEW id \in Ids, records'[id].status = "none" PROVE records'[id].reviews = 0
    BY <1>3, <1>5 DEF ExperienceInv, ExperienceTypeOK
<1>6. ExperienceTypeOK'
    BY <1>2, <1>3, <1>4, <1>5
    DEF ExperienceInv, ExperienceTypeOK, RecordType, Status, Confidence
<1>7. \A n \in Lesson : ProcedureStatus(n)' = ProcedureStatus(n)
    BY <1>4 DEF ProcedureStatus
<1>8. \A n \in Lesson, prefix \in IdPrefixes :
         records'[<<prefix, n>>].status = records[<<prefix, n>>].status
    BY <1>3, IdsOf
<1>9. RefreshSoFar'
    BY <1>4, <1>7, <1>8
    DEF ExperienceInv, RefreshSoFar, ProceduresAgree, ReviewsAgree, DegradedAgree, IdPrefixes
<1>10. ASSUME NEW n \in Lesson, records'[<<"review", n>>].status = "stable"
       PROVE  Ready(records'[<<"review", n>>])
    <2>1. <<"review", n>> \in Ids
        BY IdsOf DEF IdPrefixes
    <2>2. records[<<"review", n>>].status = "stable" /\ Ready(records[<<"review", n>>])
        BY <2>1, <1>3, <1>10 DEF ExperienceInv, StableIsEarned
    <2>3. QED
        BY <2>1, <2>2, <1>3 DEF Ready
<1>11. VerdictStep /\ CatchUpStep
    BY <1>3, <1>4 DEF VerdictStep, CatchUpStep
<1>12. QED
    BY <1>4, <1>6, <1>9, <1>10, <1>11 DEF ExperienceInv, FeedbackHasRun, StableIsEarned

\* The end of the refresh: what is ready is stable, and nothing else changes.
LEMMA RefreshStatusesInv ==
    ASSUME ExperienceInv, RefreshStatuses PROVE ExperienceInv' /\ VerdictStep /\ CatchUpStep
<1> DEFINE Settles(id) ==
             records[id].status \in {"candidate", "review_required"} /\ Ready(records[id])
<1>1. records \in [Ids -> RecordType]
    BY DEF ExperienceInv, ExperienceTypeOK, RecordType, Status, Confidence
<1>2. records' = [id \in Ids |-> IF Settles(id) THEN [records[id] EXCEPT !.status = "stable"]
                                 ELSE records[id]]
    BY DEF RefreshStatuses
<1>3. ASSUME NEW id \in Ids
      PROVE  /\ records'[id] \in RecordType
             /\ records'[id].confidence = records[id].confidence
             /\ records'[id].reviews = records[id].reviews
             /\ records'[id].verdict = records[id].verdict
             /\ records'[id].status = IF Settles(id) THEN "stable" ELSE records[id].status
    <2>1. CASE Settles(id)
        BY <2>1, <1>1, <1>2 DEF RecordType, Status
    <2>2. CASE ~Settles(id)
        BY <2>2, <1>1, <1>2
    <2>3. QED
        BY <2>1, <2>2
<1>4. \A id \in Ids : Ready(records'[id]) <=> Ready(records[id])
    BY <1>3 DEF Ready
<1>5. /\ refresh = "settle" /\ refresh' = "off"
      /\ UNCHANGED <<lessons, settled, artifacts, unsaved, feedback, reviewCalls>>
    BY DEF RefreshStatuses, artifactVars
<1>6. ASSUME NEW id \in Ids, records'[id].status = "none" PROVE records'[id].reviews = 0
    BY <1>3, <1>6 DEF ExperienceInv, ExperienceTypeOK
<1>7. ExperienceTypeOK'
    BY <1>2, <1>3, <1>5, <1>6
    DEF ExperienceInv, ExperienceTypeOK, RecordType, Status, Confidence
<1>8. RefreshSoFar'
    BY <1>5 DEF RefreshSoFar
<1>9. ASSUME NEW n \in Lesson, records'[<<"review", n>>].status = "stable"
      PROVE  Ready(records'[<<"review", n>>])
    <2>1. <<"review", n>> \in Ids
        BY IdsOf DEF IdPrefixes
    <2>2. QED
        BY <2>1, <1>3, <1>4, <1>9 DEF ExperienceInv, StableIsEarned
<1>10. VerdictStep
    BY <1>3 DEF VerdictStep
<1>11. CatchUpStep
    <2> SUFFICES ASSUME settled, NEW n \in Shown
                 PROVE  /\ n \in Procedure =>
                             records'[<<"procedure", n>>].status = ProcedureStatus(n)
                        /\ lessons[n].spoilt => records'[<<"degraded", n>>].status = "degraded"
                        /\ lessons[n].due =>
                             records'[<<"review", n>>].status =
                               IF Ready(records'[<<"review", n>>]) THEN "stable"
                               ELSE "review_required"
        BY DEF CatchUpStep
    <2>1. n \in Lesson /\ lessons[n].shown
        BY DEF Shown
    <2>2. /\ <<"procedure", n>> \in Ids /\ <<"degraded", n>> \in Ids /\ <<"review", n>> \in Ids
        BY <2>1, IdsOf DEF IdPrefixes
    <2>3. /\ n \in Procedure => records[<<"procedure", n>>].status = ProcedureStatus(n)
          /\ lessons[n].spoilt => records[<<"degraded", n>>].status = "degraded"
          /\ lessons[n].due => records[<<"review", n>>].status = "review_required"
        BY <2>1, <1>5
        DEF ExperienceInv, RefreshSoFar, ProceduresAgree, DegradedAgree, ReviewsAgree
    <2>4. n \in Procedure => records'[<<"procedure", n>>].status = ProcedureStatus(n)
        BY <2>2, <2>3, <1>3 DEF ProcedureStatus
    <2>5. lessons[n].spoilt => records'[<<"degraded", n>>].status = "degraded"
        BY <2>2, <2>3, <1>3
    <2>6. lessons[n].due => records'[<<"review", n>>].status =
                              IF Ready(records'[<<"review", n>>]) THEN "stable"
                              ELSE "review_required"
        BY <2>2, <2>3, <1>3, <1>4
    <2>7. QED
        BY <2>4, <2>5, <2>6
<1>12. QED
    BY <1>5, <1>7, <1>8, <1>9, <1>10, <1>11
    DEF ExperienceInv, FeedbackHasRun, StableIsEarned

\* A reviewer changes verdicts, and is counted.
LEMMA ReviewInv ==
    ASSUME ExperienceInv, NEW rid \in Ids, NEW force \in BOOLEAN, Review(rid, force)
    PROVE  ExperienceInv' /\ VerdictStep /\ CatchUpStep
<1>1. records \in [Ids -> RecordType]
    BY DEF ExperienceInv, ExperienceTypeOK, RecordType, Status, Confidence
<1>2. records' = [records EXCEPT ![rid] = Reviewed(@)] \/ records' = records
    BY DEF Review
<1>3. ASSUME NEW id \in Ids
      PROVE  /\ records'[id] \in RecordType /\ records'[id].status = records[id].status
             /\ records'[id].confidence = records[id].confidence
             /\ records'[id].reviews = records[id].reviews \/ records'[id].reviews = Lenses
             /\ records'[id].status = "none" => records'[id] = records[id]
    <2>1. records[id] \in RecordType
        BY <1>1
    <2>2. CASE id = rid /\ records' = [records EXCEPT ![rid] = Reviewed(@)]
        <3>1. records'[id] = Reviewed(records[id])
            BY <2>2, <1>1
        <3>2. records[id].status # "none"
            BY <2>2 DEF Review
        <3>3. QED
            BY <3>1, <3>2, <2>1, ReviewedRecord
    <2>3. CASE ~(id = rid /\ records' = [records EXCEPT ![rid] = Reviewed(@)])
        <3>1. records'[id] = records[id]
            BY <2>3, <1>1, <1>2
        <3>2. QED
            BY <3>1, <2>1
    <2>4. QED
        BY <2>2, <2>3
<1>4. /\ reviewCalls' = reviewCalls + 1 /\ settled' = FALSE
      /\ UNCHANGED <<lessons, refresh, artifacts, unsaved, feedback>>
    BY DEF Review, artifactVars
<1>5. records' \in [Ids -> RecordType]
    BY <1>1, <1>2, <1>3
<1>6. ASSUME NEW id \in Ids, records'[id].status = "none" PROVE records'[id].reviews = 0
    BY <1>3, <1>6 DEF ExperienceInv, ExperienceTypeOK
<1>7. ExperienceTypeOK'
    BY <1>4, <1>5, <1>6 DEF ExperienceInv, ExperienceTypeOK, RecordType, Status, Confidence
<1>8. ASSUME NEW n \in Lesson, records'[<<"review", n>>].status = "stable"
      PROVE  Ready(records'[<<"review", n>>])
    <2>1. <<"review", n>> \in Ids
        BY IdsOf DEF IdPrefixes
    <2>2. records[<<"review", n>>].status = "stable" /\ Ready(records[<<"review", n>>])
        BY <2>1, <1>3, <1>8 DEF ExperienceInv, StableIsEarned
    <2>3. QED
        BY <2>1, <2>2, <1>3 DEF Ready, Lenses, ReadyReviews
<1>9. reviewCalls' \in Nat /\ reviewCalls' # reviewCalls
    BY <1>4 DEF ExperienceInv
<1>10. QED
    BY <1>4, <1>7, <1>8, <1>9
    DEF ExperienceInv, RefreshSoFar, StableIsEarned, FeedbackHasRun, VerdictStep, CatchUpStep

LEMMA NoteChangesInv ==
    ASSUME ExperienceInv, NoteChanges PROVE ExperienceInv' /\ VerdictStep /\ CatchUpStep
<1>1. /\ settled' = FALSE
      /\ UNCHANGED <<records, refresh, artifacts, unsaved, feedback, reviewCalls>>
    BY DEF NoteChanges, artifactVars
<1> DEFINE LessonType == [shown : BOOLEAN, due : BOOLEAN, spoilt : BOOLEAN,
                          confidence : {50, 70, 80}]
<1>2. lessons \in [Lesson -> LessonType]
    BY DEF ExperienceInv, ExperienceTypeOK
<1>3. PICK n \in Shown :
         \E to \in {[lessons[n] EXCEPT !.spoilt = TRUE,
                                       !.confidence = IF @ = 80 THEN 70 ELSE 50],
                    [lessons[n] EXCEPT !.due = ~@],
                    [lessons[n] EXCEPT !.shown = FALSE]} :
            lessons' = [lessons EXCEPT ![n] = to]
    BY DEF NoteChanges
<1>4. n \in Lesson /\ lessons[n] \in LessonType
    BY <1>2 DEF Shown
<1>5. /\ [lessons[n] EXCEPT !.spoilt = TRUE, !.confidence = IF @ = 80 THEN 70 ELSE 50]
           \in LessonType
      /\ [lessons[n] EXCEPT !.due = ~@] \in LessonType
      /\ [lessons[n] EXCEPT !.shown = FALSE] \in LessonType
    BY <1>4
<1>6. lessons' \in [Lesson -> LessonType]
    <2>1. PICK to \in {[lessons[n] EXCEPT !.spoilt = TRUE,
                                          !.confidence = IF @ = 80 THEN 70 ELSE 50],
                       [lessons[n] EXCEPT !.due = ~@],
                       [lessons[n] EXCEPT !.shown = FALSE]} :
                  lessons' = [lessons EXCEPT ![n] = to]
        BY <1>3
    <2>2. to \in LessonType
        BY <1>5
    <2>3. QED
        BY <1>2, <2>1, <2>2
<1>7. ExperienceTypeOK'
    BY <1>1, <1>6 DEF ExperienceInv, ExperienceTypeOK
<1>8. QED
    BY <1>1, <1>7
    DEF ExperienceInv, RefreshSoFar, StableIsEarned, FeedbackHasRun, VerdictStep, CatchUpStep

\* Nothing of the records changes: the start of a refresh, one that fails, an
\* artifact, feedback, and a step of something else.
LEMMA RecordsStayInv ==
    ASSUME ExperienceInv,
           \/ StartRefresh \/ RefreshFails \/ BuildArtifact \/ ReportFeedback
           \/ UNCHANGED experienceVars
    PROVE  ExperienceInv' /\ VerdictStep /\ CatchUpStep
<1>1. lessons' = lessons /\ records' = records /\ reviewCalls' = reviewCalls
    BY DEF StartRefresh, RefreshFails, BuildArtifact, ReportFeedback, experienceVars
<1>2. /\ artifacts' \in Nat /\ unsaved' \subseteq 1..artifacts' /\ feedback' \subseteq 0..artifacts'
      /\ FeedbackHasRun'
    <2>1. CASE BuildArtifact
        BY <2>1 DEF ExperienceInv, FeedbackHasRun, BuildArtifact
    <2>2. CASE ReportFeedback
        BY <2>2 DEF ExperienceInv, FeedbackHasRun, ReportFeedback, FoundRun
    <2>3. CASE StartRefresh \/ RefreshFails \/ UNCHANGED experienceVars
        BY <2>3
        DEF ExperienceInv, FeedbackHasRun, StartRefresh, RefreshFails, experienceVars, artifactVars
    <2>4. QED
        BY <2>1, <2>2, <2>3
<1>3. \/ refresh' = "seed"
      \/ refresh' = "off" /\ settled' = FALSE
      \/ refresh' = refresh /\ settled' = settled
    BY DEF StartRefresh, RefreshFails, BuildArtifact, ReportFeedback, experienceVars
<1>4. ExperienceTypeOK'
    BY <1>1, <1>3 DEF ExperienceInv, ExperienceTypeOK
<1>5. \A n \in Lesson : ProcedureStatus(n)' = ProcedureStatus(n)
    BY <1>1 DEF ProcedureStatus
<1>6. RefreshSoFar'
    BY <1>1, <1>3, <1>5
    DEF ExperienceInv, RefreshSoFar, ProceduresAgree, ReviewsAgree, DegradedAgree
<1>7. VerdictStep /\ CatchUpStep
    BY <1>1, <1>3 DEF VerdictStep, CatchUpStep
<1>8. QED
    BY <1>1, <1>2, <1>4, <1>6, <1>7 DEF ExperienceInv, StableIsEarned

LEMMA ExperienceInitInv == ExperienceInit => ExperienceInv
<1> SUFFICES ASSUME ExperienceInit PROVE ExperienceInv
    OBVIOUS
<1>1. \A id \in Ids : \/ records[id] = Absent
                      \/ id[1] = "legacy" /\ records[id] = [Absent EXCEPT !.status = "candidate",
                                                                        !.confidence = 70]
    BY DEF ExperienceInit, Absent
<1>2. ExperienceTypeOK
    BY DEF ExperienceInit, ExperienceTypeOK, Absent
<1>3. \A n \in Lesson : records[<<"review", n>>] = Absent
    BY <1>1, IdsOf DEF IdPrefixes
<1>4. QED
    BY <1>2, <1>3
    DEF ExperienceInit, ExperienceInv, RefreshSoFar, StableIsEarned, FeedbackHasRun, Absent

LEMMA ExperienceNextInv ==
    ExperienceInv /\ [ExperienceNext]_experienceVars
      => ExperienceInv' /\ VerdictStep /\ CatchUpStep
<1> SUFFICES ASSUME ExperienceInv, [ExperienceNext]_experienceVars
             PROVE  ExperienceInv' /\ VerdictStep /\ CatchUpStep
    OBVIOUS
<1>1. ASSUME NEW id \in Ids, NEW force \in BOOLEAN, Review(id, force)
      PROVE  ExperienceInv' /\ VerdictStep /\ CatchUpStep
    BY <1>1, ReviewInv
<1>2. CASE SeedProcedures \/ MaterializeReview \/ MaterializeDegraded
    BY <1>2, SeedProceduresInv, MaterializeReviewInv, MaterializeDegradedInv
<1>3. CASE ReviewCandidates \/ RefreshStatuses \/ NoteChanges
    BY <1>3, ReviewCandidatesInv, RefreshStatusesInv, NoteChangesInv
<1>4. CASE StartRefresh \/ RefreshFails \/ BuildArtifact \/ ReportFeedback
           \/ UNCHANGED experienceVars
    BY <1>4, RecordsStayInv
<1>5. QED
    BY <1>1, <1>2, <1>3, <1>4 DEF ExperienceNext

\* Whatever the notes do while a refresh runs, and wherever it fails, a record
\* that came of a review is stable only when it earned it, a refresh nothing
\* disturbed ends in agreement with the notes, only a reviewer changes a
\* verdict, and feedback about an artifact has the run it is about.
THEOREM TheGateHolds == ExperienceSpec => GateHolds
<1>1. ExperienceInv' => ExperienceTypeOK' /\ StableIsEarned' /\ FeedbackHasRun'
    BY DEF ExperienceInv
<1>2. ExperienceSpec => []ExperienceInv
    BY ExperienceInitInv, ExperienceNextInv, PTL DEF ExperienceSpec
<1>3. ExperienceInv /\ [ExperienceNext]_experienceVars
        => /\ [CatchUpStep]_experienceVars /\ [VerdictStep]_experienceVars
           /\ [ExperienceTypeOK' /\ StableIsEarned' /\ FeedbackHasRun']_experienceVars
    BY <1>1, ExperienceNextInv
<1>4. GateHolds <=> /\ [][CatchUpStep]_experienceVars /\ [][VerdictStep]_experienceVars
                    /\ [][ExperienceTypeOK' /\ StableIsEarned' /\ FeedbackHasRun']_experienceVars
    BY DEF GateHolds, RefreshCatchesUp, VerdictsStay, CatchUpStep, VerdictStep
<1>5. QED
    BY <1>2, <1>3, <1>4, PTL DEF ExperienceSpec

----------------------------------------------------------------------------
(* WorkQueues *)

\* A state file that is whole, with what every copy of it keeps: the counts, the
\* anchor and the job are of the past, and a count was reset only by a success.
WholeWhen(c, n, h, m, ok) ==
    /\ c \in Contents /\ c.since <= c.total /\ c.total <= n
    /\ c.anchor <= h /\ c.job.id <= m
    /\ \/ c.job.id = 0 /\ c.job.status = "none"
       \/ c.job.id # 0 /\ c.job.status \in {"pending", "running"}
    /\ c.since < c.total => ok
Whole(c) == WholeWhen(c, calls, hour, made, succeeded)

Saving == {"register", "truncate", "write"}

QueueTypes ==
    /\ queue \in Kinds /\ hour \in 1..MaxHours /\ made \in 0..MaxJobs /\ calls \in 0..MaxSignals
    /\ qpc \in [Procs -> {"idle", "register", "truncate", "write", "run", "reload_ok",
                          "reload_failed"}]
    /\ base \in [Procs -> Contents] /\ out \in [Procs -> Contents]
    /\ runs \in [Procs -> 0..made]
    /\ orc \in [Jobs -> {"none", "pending", "running", "completed", "failed"}]
    /\ started \in [Jobs -> 0..2] /\ lastRun \in 0..hour
    /\ overlap \in BOOLEAN /\ succeeded \in BOOLEAN
    /\ \A j \in Jobs : j > made => started[j] = 0

\* Where a process is, and what it holds.
Stage(p) ==
    /\ qpc[p] \in {"idle", "register"} => runs[p] = 0
    /\ qpc[p] = "register" => queue = "dream"
    /\ qpc[p] = "reload_ok" => succeeded
    /\ qpc[p] = "run" => runs[p] # 0
    /\ qpc[p] \in Saving =>
         /\ base[p].anchor <= out[p].anchor
         /\ out[p].job.status = "pending" => runs[p] = 0
         /\ Launches(p) => base[p].job = [id |-> runs[p], status |-> "pending"]

\* The job a process has made and not yet written is nobody else's.
Makes(p) == qpc[p] \in Saving /\ out[p].job.status = "pending" /\ out[p].job # base[p].job
Fresh(p) ==
    Makes(p) =>
      /\ started[out[p].job.id] = 0 /\ file.job.id # out[p].job.id
      /\ \A q \in Procs \ {p} :
            out[p].job.id \notin {out[q].job.id, base[q].job.id, runs[q]}

Registered ==
    queue = "dream" =>
      /\ file.job.id # 0 => orc[file.job.id] # "none"
      /\ \A p \in Procs :
           /\ base[p].job.id # 0 => orc[base[p].job.id] # "none"
           /\ qpc[p] # "register" /\ out[p].job.id # 0 => orc[out[p].job.id] # "none"

\* While no writer has covered another: the one that writes is alone and found
\* what it had read, and what waits to be launched was never launched.
Alone ==
    ~overlap =>
      /\ file.job.status = "pending" => started[file.job.id] = 0
      /\ \A p \in Procs :
           qpc[p] = "write" =>
             /\ file = Torn /\ \A q \in Procs \ {p} : qpc[q] # "write"
             /\ out[p].job.status = "pending" => started[out[p].job.id] = 0
             /\ Launches(p) => started[runs[p]] = 0

\* The end of the last run is in the file, or on its way.
Ending(p) ==
    queue = "dream" /\ qpc[p] \in {"truncate", "write"} /\ runs[p] # 0 /\ lastRun <= out[p].anchor
Anchored ==
    ~overlap =>
      \/ \E p \in Procs : Ending(p)
      \/ /\ file # Torn => lastRun <= file.anchor
         /\ \A p \in Procs : qpc[p] = "write" => lastRun <= out[p].anchor

QueueInv ==
    /\ QueueTypes /\ (file = Torn \/ Whole(file))
    /\ \A p \in Procs : Whole(base[p]) /\ Whole(out[p]) /\ Stage(p) /\ Fresh(p)
    /\ Registered /\ Alone /\ Anchored /\ LaunchedOnce

LEMMA WholeStays ==
    ASSUME NEW c, NEW n \in Nat, NEW n2 \in Nat, n <= n2, NEW h \in Nat, NEW h2 \in Nat, h <= h2,
           NEW m \in Nat, NEW m2 \in Nat, m <= m2, NEW ok, NEW ok2, ok => ok2,
           WholeWhen(c, n, h, m, ok)
    PROVE  WholeWhen(c, n2, h2, m2, ok2)
BY QueueAssumption DEF WholeWhen, Contents

LEMMA EmptyIsWhole ==
    ASSUME NEW n \in Nat, NEW h \in Nat, NEW m \in Nat, NEW ok
    PROVE  /\ WholeWhen(Empty, n, h, m, ok) /\ Empty.job.id = 0 /\ Empty.job.status = "none"
           /\ Empty.anchor = 0
BY QueueAssumption DEF WholeWhen, Empty, NoQueueJob, Contents

LEMMA TornIsNotWhole ==
    /\ Torn.job.id = 0 /\ Torn.job.status = "torn" /\ Torn \in Contents
    /\ \A c, n, h, m, ok : WholeWhen(c, n, h, m, ok) => c # Torn
BY QueueAssumption DEF WholeWhen, Torn, Contents

LEMMA QueueNumbers ==
    ASSUME QueueInv
    PROVE  /\ hour \in Nat /\ made \in Nat /\ calls \in Nat /\ lastRun \in Nat
           /\ {MinCount, MaxSignals, MaxJobs, MaxHours} \subseteq Nat \ {0}
BY QueueAssumption DEF QueueInv, QueueTypes

\* What a command reads is whole, and names no job the file does not name.
LEMMA ReadIsWhole ==
    ASSUME QueueInv
    PROVE  /\ Whole(ReadState) /\ ReadState.job.id \in {0, file.job.id}
           /\ queue = "dream" /\ ReadState.job.id # 0 => orc[ReadState.job.id] # "none"
<1>1. CASE file = Torn
    BY <1>1, EmptyIsWhole, QueueNumbers DEF ReadState, Whole
<1>2. CASE file # Torn
    BY <1>2 DEF ReadState, QueueInv, Registered
<1>3. QED
    BY <1>1, <1>2

LEMMA CountedIsWhole ==
    ASSUME QueueInv, NEW c, Whole(c), calls < MaxSignals
    PROVE  /\ WholeWhen(Counted(c), calls + 1, hour, made, succeeded)
           /\ Counted(c).job = c.job /\ c.anchor <= Counted(c).anchor
<1> DEFINE a == IF queue = "dream" /\ c.anchor = 0 THEN hour ELSE c.anchor
<1>1. c \in Contents /\ hour \in 1..MaxHours /\ calls \in 0..MaxSignals
    BY DEF Whole, WholeWhen, QueueInv, QueueTypes
<1>2. /\ Counted(c).since = c.since + 1 /\ Counted(c).total = c.total + 1
      /\ Counted(c).anchor = a /\ Counted(c).job = c.job
      /\ Counted(c) = [since |-> c.since + 1, total |-> c.total + 1, anchor |-> a, job |-> c.job]
    <2>1. Counted(c) = [c EXCEPT !.since = @ + 1, !.total = @ + 1, !.anchor = a]
        BY DEF Counted
    <2> HIDE DEF a
    <2>2. c = [since |-> c.since, total |-> c.total, anchor |-> c.anchor, job |-> c.job]
        BY <1>1 DEF Contents
    <2>3. QED
        BY <2>1, <2>2
<1>3. c.since \in Nat /\ c.total \in Nat /\ c.anchor \in 0..MaxHours /\ c.job.id \in 0..MaxJobs
    BY <1>1 DEF Contents
<1>4. a \in 0..MaxHours /\ a <= hour /\ c.anchor <= a
    BY <1>1, <1>3, QueueNumbers DEF Whole, WholeWhen
<1>5. c.since + 1 \in 0..MaxSignals /\ c.total + 1 \in 0..MaxSignals
    BY <1>1, <1>3, QueueNumbers DEF Whole, WholeWhen
<1> HIDE DEF a
<1>6. Counted(c) \in Contents
    BY <1>1, <1>2, <1>4, <1>5 DEF Contents
<1>7. QED
    BY <1>1, <1>2, <1>3, <1>4, <1>6, QueueNumbers DEF Whole, WholeWhen

LEMMA ClaimedIsWhole ==
    ASSUME QueueInv, NEW c, Whole(c), c.job.status = "pending"
    PROVE  /\ Whole(Claimed(c)) /\ Claimed(c).job = [id |-> c.job.id, status |-> "running"]
           /\ c.anchor <= Claimed(c).anchor
<1> DEFINE a == IF queue = "research" THEN hour ELSE c.anchor
<1>1. c \in Contents /\ hour \in 1..MaxHours
    BY DEF Whole, WholeWhen, QueueInv, QueueTypes
<1>2. /\ Claimed(c).since = c.since /\ Claimed(c).total = c.total /\ Claimed(c).anchor = a
      /\ Claimed(c).job = [id |-> c.job.id, status |-> "running"]
      /\ Claimed(c) = [since |-> c.since, total |-> c.total, anchor |-> a,
                       job |-> [id |-> c.job.id, status |-> "running"]]
    <2>1. Claimed(c) = [c EXCEPT !.job.status = "running", !.anchor = a]
        BY DEF Claimed
    <2> HIDE DEF a
    <2>2. /\ c = [since |-> c.since, total |-> c.total, anchor |-> c.anchor, job |-> c.job]
          /\ c.job = [id |-> c.job.id, status |-> c.job.status]
        BY <1>1 DEF Contents
    <2>3. [c.job EXCEPT !.status = "running"] = [id |-> c.job.id, status |-> "running"]
        BY <2>2
    <2>4. Claimed(c) = [since |-> c.since, total |-> c.total, anchor |-> a,
                        job |-> [c.job EXCEPT !.status = "running"]]
        BY <2>1, <2>2
    <2>5. QED
        BY <2>3, <2>4
<1>3. a \in 0..MaxHours /\ a <= hour /\ c.anchor <= a
    BY <1>1, QueueNumbers DEF Whole, WholeWhen, Contents
<1> HIDE DEF a
<1>4. Claimed(c) \in Contents
    BY <1>1, <1>2, <1>3 DEF Contents
<1>5. QED
    BY <1>1, <1>2, <1>3, <1>4 DEF Whole, WholeWhen

LEMMA FinishedIsWhole ==
    ASSUME QueueInv, NEW c, Whole(c), NEW ok \in BOOLEAN
    PROVE  /\ WholeWhen(Finished(c, ok), calls, hour, made, succeeded \/ ok)
           /\ Finished(c, ok).job = NoQueueJob /\ c.anchor <= Finished(c, ok).anchor
           /\ queue = "dream" => Finished(c, ok).anchor = hour
<1> DEFINE a == IF queue = "dream" \/ ok THEN hour ELSE c.anchor
           k == IF ok THEN 0 ELSE c.since
<1>1. c \in Contents /\ hour \in 1..MaxHours
    BY DEF Whole, WholeWhen, QueueInv, QueueTypes
<1>2. Finished(c, ok) = [since |-> k, total |-> c.total, anchor |-> a, job |-> NoQueueJob]
    <2>1. Finished(c, ok) = [c EXCEPT !.job = NoQueueJob, !.anchor = a, !.since = k]
        BY DEF Finished
    <2> HIDE DEF a, k
    <2>2. c = [since |-> c.since, total |-> c.total, anchor |-> c.anchor, job |-> c.job]
        BY <1>1 DEF Contents
    <2>3. QED
        BY <2>1, <2>2
<1>3. a \in 0..MaxHours /\ a <= hour /\ c.anchor <= a /\ (queue = "dream" => a = hour)
    BY <1>1, QueueNumbers DEF Whole, WholeWhen, Contents
<1>4. /\ k \in 0..MaxSignals /\ k <= c.total /\ (k < c.total => succeeded \/ ok)
      /\ c.total \in 0..MaxSignals
    BY <1>1, QueueNumbers DEF Whole, WholeWhen, Contents
<1> HIDE DEF a, k
<1>5. Finished(c, ok) \in Contents
    BY <1>2, <1>3, <1>4, QueueNumbers DEF Contents, NoQueueJob
<1>6. QED
    BY <1>1, <1>2, <1>3, <1>4, <1>5, QueueNumbers DEF Whole, WholeWhen, NoQueueJob

LEMMA PlannedIsWhole ==
    ASSUME QueueInv, NEW c, NEW n \in Nat, WholeWhen(c, n, hour, made, succeeded),
           made < MaxJobs
    PROVE  LET o == [c EXCEPT !.job = [id |-> made + 1, status |-> "pending"]]
           IN  /\ WholeWhen(o, n, hour, made + 1, succeeded)
               /\ o.job = [id |-> made + 1, status |-> "pending"] /\ o.anchor = c.anchor
<1> DEFINE o == [c EXCEPT !.job = [id |-> made + 1, status |-> "pending"]]
<1>1. c \in Contents /\ made + 1 \in 0..MaxJobs /\ made + 1 # 0
    BY QueueNumbers DEF WholeWhen
<1>2. o = [since |-> c.since, total |-> c.total, anchor |-> c.anchor,
           job |-> [id |-> made + 1, status |-> "pending"]]
    BY <1>1 DEF Contents
<1> HIDE DEF o
<1>3. o \in Contents
    BY <1>1, <1>2 DEF Contents
<1>4. WholeWhen(o, n, hour, made + 1, succeeded)
    BY <1>1, <1>2, <1>3, QueueNumbers DEF WholeWhen
<1>5. o.job = [id |-> made + 1, status |-> "pending"] /\ o.anchor = c.anchor
    BY <1>2
<1>6. QED
    BY <1>4, <1>5 DEF o

\* A step of p that leaves the file alone: p goes to stage s with what it read
\* or wrote last, b, what it will write, o, and the job it runs, r.
PrivateStep(p, s, b, o, r) ==
    /\ UNCHANGED <<queue, file, hour, overlap, started>>
    /\ qpc' = [qpc EXCEPT ![p] = s] /\ runs' = [runs EXCEPT ![p] = r]
    /\ base' = [base EXCEPT ![p] = b] /\ out' = [out EXCEPT ![p] = o]
    /\ calls' \in calls..MaxSignals /\ made' \in made..MaxJobs
    /\ succeeded' \in BOOLEAN /\ (succeeded => succeeded')
    /\ orc' \in [Jobs -> {"none", "pending", "running", "completed", "failed"}]
    /\ \A j \in Jobs : orc[j] # "none" => orc'[j] # "none"

\* What p holds then is whole, of the file and of p or new, and in order.
PrivateHolds(p, s, b, o, r) ==
    /\ s \in {"idle", "register", "truncate", "run", "reload_ok", "reload_failed"}
    /\ WholeWhen(b, calls', hour, made', succeeded')
    /\ WholeWhen(o, calls', hour, made', succeeded')
    /\ r \in 0..made
    /\ s \in {"idle", "register"} => r = 0
    /\ s = "register" => queue = "dream"
    /\ s = "reload_ok" => succeeded'
    /\ s = "run" => r # 0
    /\ s \in Saving =>
         /\ b.anchor <= o.anchor
         /\ o.job.status = "pending" => r = 0
         /\ r # 0 /\ o.job.id = r => b.job = [id |-> r, status |-> "pending"]

PrivateKnows(p, s, b, o, r) ==
    /\ \A i \in {o.job.id, b.job.id, r} :
          i > made \/ i \in {0, file.job.id, out[p].job.id, base[p].job.id, runs[p]}
    /\ s \in Saving /\ o.job.status = "pending" /\ o.job # b.job =>
         o.job.id > made \/ (Makes(p) /\ o.job = out[p].job)
    /\ queue = "dream" =>
         /\ b.job.id # 0 => orc'[b.job.id] # "none"
         /\ s # "register" /\ o.job.id # 0 => orc'[o.job.id] # "none"
    /\ \/ lastRun' = lastRun /\ ~Ending(p)
       \/ lastRun' = 0
       \/ /\ lastRun' \in 0..hour /\ lastRun' <= o.anchor
          /\ queue = "dream" /\ s = "truncate" /\ r # 0

LEMMA PrivateInv ==
    ASSUME QueueInv, NEW p \in Procs, NEW s, NEW b, NEW o, NEW r,
           PrivateStep(p, s, b, o, r), PrivateHolds(p, s, b, o, r), PrivateKnows(p, s, b, o, r)
    PROVE  QueueInv'
<1>1. /\ UNCHANGED <<queue, file, hour, overlap, started>>
      /\ calls \in Nat /\ calls' \in Nat /\ calls <= calls' /\ made \in Nat /\ made' \in Nat
      /\ made <= made' /\ hour \in Nat /\ (succeeded => succeeded')
    BY QueueNumbers DEF PrivateStep
<1>2. /\ qpc'[p] = s /\ base'[p] = b /\ out'[p] = o /\ runs'[p] = r
      /\ \A q \in Procs : q # p => /\ qpc'[q] = qpc[q] /\ base'[q] = base[q]
                                   /\ out'[q] = out[q] /\ runs'[q] = runs[q]
    BY DEF PrivateStep, QueueInv, QueueTypes
<1>3. QueueTypes'
    <2>1. b \in Contents /\ o \in Contents /\ r \in 0..made'
        BY <1>1 DEF PrivateHolds, WholeWhen
    <2>2. lastRun' \in 0..hour
        BY QueueNumbers DEF PrivateKnows, QueueInv, QueueTypes
    <2>3. /\ qpc' \in [Procs -> {"idle", "register", "truncate", "write", "run", "reload_ok",
                               "reload_failed"}]
          /\ base' \in [Procs -> Contents] /\ out' \in [Procs -> Contents]
        BY <2>1 DEF PrivateStep, PrivateHolds, QueueInv, QueueTypes
    <2>4. runs' \in [Procs -> 0..made']
        BY <2>1, <1>1 DEF PrivateStep, QueueInv, QueueTypes
    <2>5. made' \in 0..MaxJobs /\ calls' \in 0..MaxSignals
        BY <1>1, QueueNumbers DEF PrivateStep
    <2>6. \A j \in Jobs : j > made' => started'[j] = 0
        <3>1. MaxJobs \in Nat /\ \A j \in Jobs : j > made => started[j] = 0
            BY QueueNumbers DEF QueueInv, QueueTypes
        <3>2. \A j \in Jobs : j \in Nat
            BY <3>1 DEF Jobs
        <3>3. QED
            BY <3>1, <3>2, <1>1
    <2>7. QED
        BY <1>1, <2>2, <2>3, <2>4, <2>5, <2>6 DEF PrivateStep, QueueInv, QueueTypes
<1>4. (file = Torn \/ Whole(file))'
    BY <1>1, WholeStays DEF QueueInv, Whole
<1>5. ASSUME NEW q \in Procs PROVE Whole(base[q])' /\ Whole(out[q])'
    <2>1. CASE q = p
        BY <2>1, <1>1, <1>2 DEF Whole, PrivateHolds
    <2>2. CASE q # p
        BY <2>2, <1>1, <1>2, WholeStays DEF QueueInv, Whole
    <2>3. QED
        BY <2>1, <2>2
<1>6. ASSUME NEW q \in Procs PROVE Stage(q)'
    <2>1. CASE q = p
        BY <2>1, <1>1, <1>2 DEF Stage, Launches, PrivateHolds
    <2>2. CASE q # p
        BY <2>2, <1>1, <1>2 DEF QueueInv, Stage, Launches
    <2>3. QED
        BY <2>1, <2>2
<1>7. ASSUME NEW q \in Procs
      PROVE  /\ out[q].job.id \in 0..made /\ base[q].job.id \in 0..made /\ runs[q] \in 0..made
             /\ out[q].job.status = "pending" => out[q].job.id # 0
             /\ made <= MaxJobs
    BY QueueNumbers DEF QueueInv, QueueTypes, Whole, WholeWhen, Contents
<1>8. file.job.id \in 0..made
    BY QueueNumbers, TornIsNotWhole DEF QueueInv, Whole, WholeWhen, Contents
<1>9. Fresh(p)'
    <2> SUFFICES ASSUME s \in Saving, o.job.status = "pending", o.job # b.job
                 PROVE  /\ started[o.job.id] = 0 /\ file.job.id # o.job.id
                        /\ \A q \in Procs \ {p} :
                              o.job.id \notin {out[q].job.id, base[q].job.id, runs[q]}
        BY <1>1, <1>2 DEF Fresh, Makes
    <2>1. o.job.id \in 1..MaxJobs
        BY QueueNumbers, <1>1 DEF PrivateHolds, WholeWhen, Contents
    <2>2. CASE o.job.id > made
        BY <2>1, <2>2, <1>7, <1>8, <1>1 DEF QueueInv, QueueTypes, Jobs
    <2>3. CASE Makes(p) /\ o.job = out[p].job
        BY <2>3 DEF QueueInv, Fresh
    <2>4. QED
        BY <2>2, <2>3 DEF PrivateKnows
<1>10. ASSUME NEW q \in Procs, q # p PROVE Fresh(q)'
    <2> SUFFICES ASSUME Makes(q), NEW k \in Procs \ {q}
                 PROVE  /\ started[out[q].job.id] = 0 /\ file.job.id # out[q].job.id
                        /\ out[q].job.id \notin {out'[k].job.id, base'[k].job.id, runs'[k]}
        BY <1>1, <1>2, <1>10 DEF Fresh, Makes
    <2>1. /\ started[out[q].job.id] = 0 /\ file.job.id # out[q].job.id
          /\ \A k2 \in Procs \ {q} :
                out[q].job.id \notin {out[k2].job.id, base[k2].job.id, runs[k2]}
        BY DEF QueueInv, Fresh
    <2>2. out[q].job.id \in 1..made
        BY <1>7 DEF Makes
    <2>3. CASE k = p
        <3>1. /\ ~(out[q].job.id > made)
              /\ out[q].job.id \notin {0, file.job.id, out[p].job.id, base[p].job.id, runs[p]}
            BY <2>1, <2>2, <2>3, <1>1
        <3>2. out[q].job.id \notin {o.job.id, b.job.id, r}
            BY <3>1 DEF PrivateKnows
        <3>3. QED
            BY <3>2, <2>1, <2>3, <1>2
    <2>4. CASE k # p
        BY <2>4, <2>1, <1>2
    <2>5. QED
        BY <2>3, <2>4
<1>11. Registered'
    <2>1. \A c \in Contents : c.job.id # 0 => c.job.id \in 0..MaxJobs
        BY DEF Contents
    <2>2. \A q \in Procs : base[q].job.id \in 0..MaxJobs /\ out[q].job.id \in 0..MaxJobs
        BY <1>1, <1>7, QueueNumbers
    <2>3. file.job.id \in 0..MaxJobs
        BY <1>1, <1>7, <1>8, QueueNumbers DEF QueueInv, QueueTypes
    <2>4. \A i \in 0..MaxJobs : i # 0 => i \in Jobs
        BY QueueNumbers DEF Jobs
    <2>5. \A j \in Jobs : orc[j] # "none" => orc'[j] # "none"
        BY DEF PrivateStep
    <2>6. QED
        BY <2>2, <2>3, <2>4, <2>5, <1>1, <1>2 DEF QueueInv, Registered, PrivateKnows
<1>12. Alone'
    <2>1. s # "write"
        BY DEF PrivateHolds
    <2>2. \A q \in Procs : qpc'[q] = "write" =>
              q # p /\ qpc[q] = "write" /\ out'[q] = out[q] /\ runs'[q] = runs[q]
        BY <2>1, <1>2
    <2>3. QED
        BY <2>1, <2>2, <1>1, <1>2 DEF QueueInv, Alone, Launches
<1>13. Anchored'
    <2>1. \A q \in Procs : q # p /\ Ending(q) /\ lastRun' = lastRun => Ending(q)'
        BY <1>1, <1>2 DEF Ending
    <2>2. s # "write"
        BY DEF PrivateHolds
    <2>3. \A q \in Procs : qpc'[q] = "write" => q # p /\ qpc[q] = "write" /\ out'[q] = out[q]
        BY <2>2, <1>2
    <2>4. CASE lastRun' = lastRun /\ ~Ending(p)
        BY <2>1, <2>3, <2>4, <1>1 DEF QueueInv, Anchored
    <2>5. CASE lastRun' = 0
        <3>1. file # Torn => 0 <= file.anchor
            BY QueueNumbers DEF QueueInv, Whole, WholeWhen, Contents
        <3>2. \A q \in Procs : 0 <= out[q].anchor
            BY QueueNumbers DEF QueueInv, Whole, WholeWhen, Contents
        <3>3. QED
            BY <3>1, <3>2, <2>3, <2>5, <1>1 DEF Anchored
    <2>6. CASE queue = "dream" /\ s = "truncate" /\ r # 0 /\ lastRun' <= o.anchor
        BY <2>6, <1>1, <1>2 DEF Anchored, Ending
    <2>7. QED
        BY <2>4, <2>5, <2>6 DEF PrivateKnows
<1>14. LaunchedOnce'
    BY <1>1 DEF QueueInv, LaunchedOnce
<1>15. QED
    BY <1>3, <1>4, <1>5, <1>6, <1>9, <1>10, <1>11, <1>12, <1>13, <1>14 DEF QueueInv

\* What holds of every process, with the ids as numbers.
LEMMA HeldByProcess ==
    ASSUME QueueInv, NEW p \in Procs
    PROVE  /\ Whole(base[p]) /\ Whole(out[p]) /\ Stage(p) /\ Fresh(p)
           /\ runs[p] \in 0..made
           /\ orc \in [Jobs -> {"none", "pending", "running", "completed", "failed"}]
           /\ calls \in calls..MaxSignals /\ made \in made..MaxJobs /\ lastRun \in 0..hour
           /\ succeeded \in BOOLEAN
BY QueueNumbers DEF QueueInv, QueueTypes

\* A command that counts, or finds nothing to schedule, or schedules a job.
LEMMA SignalInv == ASSUME QueueInv, NEW p \in Procs, Signal(p) PROVE QueueInv'
<1> DEFINE c == ReadState
           o == Counted(ReadState)
<1>1. /\ Whole(c) /\ c.job.id \in {0, file.job.id}
      /\ WholeWhen(o, calls + 1, hour, made, succeeded) /\ o.job = c.job /\ c.anchor <= o.anchor
    BY ReadIsWhole, CountedIsWhole DEF Signal
<1>2. /\ queue = "research" /\ qpc[p] = "idle" /\ calls < MaxSignals /\ calls' = calls + 1
      /\ base' = [base EXCEPT ![p] = c] /\ out' = [out EXCEPT ![p] = o]
      /\ qpc' = [qpc EXCEPT ![p] = "truncate"]
      /\ UNCHANGED <<queue, file, hour, runs, orc, made, overlap, started, succeeded, lastRun>>
    BY DEF Signal, Saves, Goes
<1> HIDE DEF c, o
<1>3. runs[p] = 0 /\ calls' \in calls..MaxSignals /\ calls' \in Nat /\ calls <= calls'
    <2>1. calls \in Nat /\ MaxSignals \in Nat /\ runs[p] = 0
        BY <1>2, QueueNumbers, HeldByProcess DEF Stage
    <2>2. QED
        BY <2>1, <1>2
<1>4. runs' = [runs EXCEPT ![p] = 0]
    BY <1>2, <1>3 DEF QueueInv, QueueTypes
<1>5. PrivateStep(p, "truncate", c, o, 0)
    BY <1>2, <1>3, <1>4, HeldByProcess DEF PrivateStep
<1>6. WholeWhen(c, calls', hour, made', succeeded')
    BY <1>1, <1>2, <1>3, QueueNumbers, WholeStays DEF Whole
<1>7. PrivateHolds(p, "truncate", c, o, 0)
    BY <1>1, <1>2, <1>6, QueueNumbers DEF PrivateHolds
<1>8. PrivateKnows(p, "truncate", c, o, 0)
    BY <1>1, <1>2 DEF PrivateKnows, Ending
<1>9. QED
    BY <1>5, <1>7, <1>8, PrivateInv

\* What a scheduler starts from.
LEMMA SchedulingIsWhole ==
    ASSUME QueueInv, CountsCall
    PROVE  /\ WholeWhen(Scheduling, calls', hour, made, succeeded)
           /\ WholeWhen(ReadState, calls', hour, made, succeeded)
           /\ Scheduling.job = ReadState.job /\ ReadState.anchor <= Scheduling.anchor
           /\ ReadState.job.id \in {0, file.job.id}
           /\ calls' \in calls..MaxSignals
           /\ queue = "dream" /\ ReadState.job.id # 0 => orc[ReadState.job.id] # "none"
<1>1. /\ Whole(ReadState) /\ ReadState.job.id \in {0, file.job.id}
      /\ queue = "dream" /\ ReadState.job.id # 0 => orc[ReadState.job.id] # "none"
    BY ReadIsWhole
<1>2. CASE queue = "dream"
    <2>1. calls < MaxSignals /\ calls' = calls + 1 /\ Scheduling = Counted(ReadState)
        BY <1>2 DEF CountsCall, Scheduling
    <2>2. calls' \in calls..MaxSignals /\ calls' \in Nat /\ calls <= calls'
        BY <2>1, QueueNumbers
    <2>3. /\ WholeWhen(Scheduling, calls', hour, made, succeeded)
          /\ Scheduling.job = ReadState.job /\ ReadState.anchor <= Scheduling.anchor
        BY <1>1, <2>1, CountedIsWhole
    <2>4. WholeWhen(ReadState, calls', hour, made, succeeded)
        BY <1>1, <2>2, QueueNumbers, WholeStays DEF Whole
    <2>5. QED
        BY <1>1, <2>2, <2>3, <2>4
<1>3. CASE queue # "dream"
    <2>1. calls' = calls /\ Scheduling = ReadState
        BY <1>3 DEF CountsCall, Scheduling
    <2>2. ReadState.anchor <= ReadState.anchor
        BY <1>1 DEF Whole, WholeWhen, Contents
    <2>3. QED
        BY <1>1, <2>1, <2>2, HeldByProcess, QueueNumbers DEF Whole, QueueInv, QueueTypes
<1>4. QED
    BY <1>2, <1>3

LEMMA ScheduleNothingInv ==
    ASSUME QueueInv, NEW p \in Procs, ScheduleNothing(p) PROVE QueueInv'
<1> DEFINE c == ReadState
           o == Scheduling
<1>1. /\ WholeWhen(o, calls', hour, made, succeeded) /\ WholeWhen(c, calls', hour, made, succeeded)
      /\ o.job = c.job /\ c.anchor <= o.anchor /\ c.job.id \in {0, file.job.id}
      /\ calls' \in calls..MaxSignals
      /\ queue = "dream" /\ c.job.id # 0 => orc[c.job.id] # "none"
    BY SchedulingIsWhole DEF ScheduleNothing
<1>2. /\ qpc[p] = "idle"
      /\ base' = [base EXCEPT ![p] = c] /\ out' = [out EXCEPT ![p] = o]
      /\ qpc' = [qpc EXCEPT ![p] = "truncate"]
      /\ UNCHANGED <<queue, file, hour, runs, orc, made, overlap, started, succeeded, lastRun>>
    BY DEF ScheduleNothing, Saves, Goes
<1> HIDE DEF c, o
<1>3. runs[p] = 0
    BY <1>2, HeldByProcess DEF Stage
<1>4. runs' = [runs EXCEPT ![p] = 0]
    BY <1>2, <1>3 DEF QueueInv, QueueTypes
<1>5. PrivateStep(p, "truncate", c, o, 0)
    BY <1>1, <1>2, <1>4, HeldByProcess DEF PrivateStep
<1>6. PrivateHolds(p, "truncate", c, o, 0)
    BY <1>1, <1>2, QueueNumbers DEF PrivateHolds
<1>7. PrivateKnows(p, "truncate", c, o, 0)
    BY <1>1, <1>2 DEF PrivateKnows, Ending
<1>8. QED
    BY <1>5, <1>6, <1>7, PrivateInv

LEMMA ScheduleJobInv ==
    ASSUME QueueInv, NEW p \in Procs, ScheduleJob(p) PROVE QueueInv'
<1> DEFINE c == ReadState
           o == [Scheduling EXCEPT !.job = [id |-> made + 1, status |-> "pending"]]
           s == AfterMaking
<1>1. /\ WholeWhen(Scheduling, calls', hour, made, succeeded)
      /\ WholeWhen(c, calls', hour, made, succeeded)
      /\ c.anchor <= Scheduling.anchor /\ c.job.id \in {0, file.job.id}
      /\ calls' \in calls..MaxSignals
      /\ queue = "dream" /\ c.job.id # 0 => orc[c.job.id] # "none"
    BY SchedulingIsWhole DEF ScheduleJob
<1>2. /\ qpc[p] = "idle" /\ made < MaxJobs /\ made' = made + 1
      /\ base' = [base EXCEPT ![p] = c] /\ out' = [out EXCEPT ![p] = o]
      /\ qpc' = [qpc EXCEPT ![p] = s]
      /\ UNCHANGED <<queue, file, hour, runs, orc, overlap, started, succeeded, lastRun>>
    BY DEF ScheduleJob, Saves, Goes
<1>3. calls' \in Nat /\ made' \in Nat /\ made <= made' /\ made' \in made..MaxJobs
    BY <1>1, <1>2, QueueNumbers
<1>4. /\ WholeWhen(o, calls', hour, made', succeeded)
      /\ o.job = [id |-> made + 1, status |-> "pending"] /\ o.anchor = Scheduling.anchor
    BY <1>1, <1>2, <1>3, PlannedIsWhole
<1>5. WholeWhen(c, calls', hour, made', succeeded)
    BY <1>1, <1>3, QueueNumbers, WholeStays
<1>6. s \in {"register", "truncate"} /\ (s = "register" <=> queue = "dream")
    BY DEF AfterMaking
<1> HIDE DEF c, o, s
<1>7. runs[p] = 0
    BY <1>2, HeldByProcess DEF Stage
<1>8. runs' = [runs EXCEPT ![p] = 0]
    BY <1>2, <1>7 DEF QueueInv, QueueTypes
<1>9. PrivateStep(p, s, c, o, 0)
    BY <1>1, <1>2, <1>3, <1>8, HeldByProcess DEF PrivateStep
<1>10. PrivateHolds(p, s, c, o, 0)
    BY <1>1, <1>2, <1>4, <1>5, <1>6, QueueNumbers DEF PrivateHolds
<1>11. PrivateKnows(p, s, c, o, 0)
    <2>1. o.job.id > made
        BY <1>4, QueueNumbers
    <2>2. QED
        BY <2>1, <1>1, <1>2, <1>6 DEF PrivateKnows, Ending
<1>12. QED
    BY <1>9, <1>10, <1>11, PrivateInv

LEMMA RegisterInv == ASSUME QueueInv, NEW p \in Procs, Register(p) PROVE QueueInv'
<1> DEFINE b == base[p]
           o == out[p]
<1>1. /\ qpc[p] = "register" /\ qpc' = [qpc EXCEPT ![p] = "truncate"]
      /\ orc' = [orc EXCEPT ![o.job.id] = "pending"]
      /\ UNCHANGED <<queue, file, hour, base, out, runs, made, calls, overlap, started,
                     succeeded, lastRun>>
    BY DEF Register, Goes
<1>2. /\ Whole(b) /\ Whole(o) /\ Stage(p) /\ runs[p] = 0
      /\ orc \in [Jobs -> {"none", "pending", "running", "completed", "failed"}]
    BY <1>1, HeldByProcess DEF Stage
<1>3. /\ base' = [base EXCEPT ![p] = b] /\ out' = [out EXCEPT ![p] = o]
      /\ runs' = [runs EXCEPT ![p] = 0]
    BY <1>1, <1>2 DEF QueueInv, QueueTypes
<1>4. PrivateStep(p, "truncate", b, o, 0)
    BY <1>1, <1>2, <1>3, HeldByProcess DEF PrivateStep
<1>5. PrivateHolds(p, "truncate", b, o, 0)
    BY <1>1, <1>2, QueueNumbers DEF PrivateHolds, Whole, Stage, Saving
<1>6. PrivateKnows(p, "truncate", b, o, 0)
    <2>1. queue = "dream" /\ o.job.id # 0 => orc'[o.job.id] # "none"
        <3>1. o.job.id # 0 => o.job.id \in Jobs
            BY <1>2, QueueNumbers DEF Whole, WholeWhen, Contents, Jobs
        <3>2. QED
            BY <3>1, <1>1, <1>2
    <2>2. queue = "dream" /\ b.job.id # 0 => orc'[b.job.id] # "none"
        <3>1. b.job.id # 0 => b.job.id \in Jobs
            BY <1>2, QueueNumbers DEF Whole, WholeWhen, Contents, Jobs
        <3>2. QED
            BY <3>1, <1>1, <1>2 DEF QueueInv, Registered
    <2>3. o.job.status = "pending" /\ o.job # b.job => Makes(p)
        BY <1>1 DEF Makes, Saving
    <2>4. QED
        BY <1>1, <2>1, <2>2, <2>3 DEF PrivateKnows, Ending
<1>7. QED
    BY <1>4, <1>5, <1>6, PrivateInv

LEMMA StartJobInv == ASSUME QueueInv, NEW p \in Procs, StartJob(p) PROVE QueueInv'
<1> DEFINE c == ReadState
           o == Claimed(ReadState)
           r == ReadState.job.id
<1>1. /\ qpc[p] = "idle" /\ c.job.status = "pending"
      /\ runs' = [runs EXCEPT ![p] = r]
      /\ base' = [base EXCEPT ![p] = c] /\ out' = [out EXCEPT ![p] = o]
      /\ qpc' = [qpc EXCEPT ![p] = "truncate"]
      /\ UNCHANGED <<queue, file, hour, overlap, orc, made, calls, started, succeeded, lastRun>>
    BY DEF StartJob, Saves, Goes, pastVars
<1>2. /\ Whole(c) /\ r \in {0, file.job.id}
      /\ queue = "dream" /\ r # 0 => orc[r] # "none"
    BY ReadIsWhole
<1>3. Whole(o) /\ o.job = [id |-> r, status |-> "running"] /\ c.anchor <= o.anchor
    BY <1>1, <1>2, ClaimedIsWhole
<1>4. r \in 0..made /\ c.job = [id |-> r, status |-> "pending"]
    BY <1>1, <1>2, QueueNumbers DEF Whole, WholeWhen, Contents
<1>5. c.job.id = r
    OBVIOUS
<1> HIDE DEF c, o, r
<1>6. PrivateStep(p, "truncate", c, o, r)
    BY <1>1, HeldByProcess DEF PrivateStep
<1>7. PrivateHolds(p, "truncate", c, o, r)
    BY <1>1, <1>2, <1>3, <1>4 DEF PrivateHolds, Whole
<1>8. PrivateKnows(p, "truncate", c, o, r)
    BY <1>1, <1>2, <1>3, <1>5 DEF PrivateKnows, Ending
<1>9. QED
    BY <1>6, <1>7, <1>8, PrivateInv

LEMMA ReloadInv == ASSUME QueueInv, NEW p \in Procs, Reload(p) PROVE QueueInv'
<1> DEFINE c == ReadState
           o == Finished(ReadState, qpc[p] = "reload_ok")
           r == runs[p]
<1>1. /\ qpc[p] \in {"reload_ok", "reload_failed"} /\ qpc' = [qpc EXCEPT ![p] = "truncate"]
      /\ base' = [base EXCEPT ![p] = c] /\ out' = [out EXCEPT ![p] = o]
      /\ UNCHANGED <<queue, file, hour, runs, overlap, orc, made, calls, started, succeeded,
                     lastRun>>
    BY DEF Reload, Saves, Goes, pastVars
<1>2. /\ Whole(c) /\ c.job.id \in {0, file.job.id}
      /\ queue = "dream" /\ c.job.id # 0 => orc[c.job.id] # "none"
    BY ReadIsWhole
<1>3. /\ WholeWhen(o, calls, hour, made, succeeded \/ qpc[p] = "reload_ok")
      /\ o.job = NoQueueJob /\ c.anchor <= o.anchor
    BY <1>2, FinishedIsWhole
<1>4. qpc[p] = "reload_ok" => succeeded
    BY HeldByProcess DEF Stage
<1> HIDE DEF c, o
<1>5. WholeWhen(o, calls, hour, made, succeeded)
    BY <1>3, <1>4 DEF WholeWhen
<1>6. r \in 0..made /\ runs' = [runs EXCEPT ![p] = r]
    BY <1>1, HeldByProcess DEF QueueInv, QueueTypes
<1>7. PrivateStep(p, "truncate", c, o, r)
    BY <1>1, <1>6, HeldByProcess DEF PrivateStep
<1>8. PrivateHolds(p, "truncate", c, o, r)
    BY <1>1, <1>2, <1>3, <1>5, <1>6 DEF PrivateHolds, Whole, NoQueueJob
<1>9. PrivateKnows(p, "truncate", c, o, r)
    BY <1>1, <1>2, <1>3 DEF PrivateKnows, Ending, NoQueueJob
<1>10. QED
    BY <1>7, <1>8, <1>9, PrivateInv

LEMMA QueueCommandEndsInv ==
    ASSUME QueueInv, NEW p \in Procs, NEW ok \in BOOLEAN, QueueCommandEnds(p, ok)
    PROVE  QueueInv'
<1> DEFINE b == base[p]
           r == runs[p]
           ok2 == (succeeded \/ ok)
<1>1. /\ qpc[p] = "run" /\ succeeded' = ok2
      /\ UNCHANGED <<queue, file, hour, base, runs, made, calls, overlap, started>>
    BY DEF QueueCommandEnds
<1>2. /\ Whole(b) /\ Whole(out[p]) /\ r \in 0..made /\ r # 0
      /\ orc \in [Jobs -> {"none", "pending", "running", "completed", "failed"}]
    BY <1>1, HeldByProcess DEF Stage
<1>3. base' = [base EXCEPT ![p] = b] /\ runs' = [runs EXCEPT ![p] = r]
    BY <1>1 DEF QueueInv, QueueTypes
<1>4. ok2 \in BOOLEAN /\ (succeeded => ok2)
    BY HeldByProcess
<1>5. /\ WholeWhen(b, calls, hour, made, ok2) /\ WholeWhen(out[p], calls, hour, made, ok2)
    BY <1>2, <1>4 DEF Whole, WholeWhen
<1>6. /\ b.job.id # 0 => b.job.id \in Jobs
      /\ queue = "dream" /\ b.job.id # 0 => orc[b.job.id] # "none"
    <2>1. b.job.id # 0 => b.job.id \in Jobs
        BY <1>2, QueueNumbers DEF Whole, WholeWhen, Contents, Jobs
    <2>2. QED
        BY <2>1 DEF QueueInv, Registered
<1>8. CASE queue = "dream"
    <2> DEFINE o == Finished(out[p], ok)
    <2>1. /\ WholeWhen(o, calls, hour, made, ok2) /\ o.job = NoQueueJob /\ o.anchor = hour
        BY <1>2, <1>8, FinishedIsWhole
    <2>2. /\ qpc' = [qpc EXCEPT ![p] = "truncate"] /\ out' = [out EXCEPT ![p] = o]
          /\ lastRun' = hour /\ orc' = [orc EXCEPT ![r] = IF ok THEN "completed" ELSE "failed"]
        BY <1>8 DEF QueueCommandEnds, Goes
    <2> HIDE DEF o, ok2
    <2>3. /\ orc' \in [Jobs -> {"none", "pending", "running", "completed", "failed"}]
          /\ \A j \in Jobs : orc[j] # "none" => orc'[j] # "none"
        BY <1>2, <2>2
    <2>4. PrivateStep(p, "truncate", b, o, r)
        BY <1>1, <1>3, <1>4, <2>2, <2>3, HeldByProcess DEF PrivateStep
    <2>5. b.anchor <= o.anchor
        BY <1>2, <2>1 DEF Whole, WholeWhen
    <2>6. PrivateHolds(p, "truncate", b, o, r)
        BY <1>1, <1>2, <1>5, <2>1, <2>5 DEF PrivateHolds, NoQueueJob
    <2>7. lastRun' \in 0..hour /\ lastRun' <= o.anchor
        BY <2>1, <2>2, QueueNumbers
    <2>8. PrivateKnows(p, "truncate", b, o, r)
        BY <1>2, <1>6, <1>8, <2>1, <2>3, <2>7 DEF PrivateKnows, NoQueueJob
    <2>9. QED
        BY <2>4, <2>6, <2>8, PrivateInv
<1>9. CASE queue # "dream"
    <2> DEFINE s == IF ok THEN "reload_ok" ELSE "reload_failed"
               o == out[p]
    <2>1. qpc' = [qpc EXCEPT ![p] = s] /\ UNCHANGED <<out, orc, lastRun>>
        BY <1>9 DEF QueueCommandEnds, Goes
    <2>2. out' = [out EXCEPT ![p] = o]
        BY <2>1 DEF QueueInv, QueueTypes
    <2>3. s \in {"reload_ok", "reload_failed"} /\ (s = "reload_ok" => ok2)
        OBVIOUS
    <2> HIDE DEF s, ok2
    <2>4. PrivateStep(p, s, b, o, r)
        BY <1>1, <1>3, <1>4, <2>1, <2>2, HeldByProcess DEF PrivateStep
    <2>5. PrivateHolds(p, s, b, o, r)
        BY <1>1, <1>2, <1>5, <2>3 DEF PrivateHolds, Saving
    <2>6. PrivateKnows(p, s, b, o, r)
        BY <1>1, <1>2, <1>9, <2>1, <2>3 DEF PrivateKnows, Ending, Saving
    <2>7. QED
        BY <2>4, <2>5, <2>6, PrivateInv
<1>10. QED
    BY <1>8, <1>9

\* A process that is over: an error, or its death.
LEMMA QuitsInv ==
    ASSUME QueueInv, NEW p \in Procs, DreamErrs(p) \/ Dies(p) PROVE QueueInv'
<1>1. /\ qpc' = [qpc EXCEPT ![p] = "idle"] /\ runs' = [runs EXCEPT ![p] = 0]
      /\ base' = [base EXCEPT ![p] = Empty] /\ out' = [out EXCEPT ![p] = Empty]
      /\ UNCHANGED <<file, hour, overlap, queue, orc, made, calls, started, succeeded>>
    BY DEF DreamErrs, Dies, Quits, Goes, Saves, pastVars
<1>2. (lastRun' = lastRun /\ ~Ending(p)) \/ lastRun' = 0
    <2>1. CASE DreamErrs(p)
        BY <2>1 DEF DreamErrs, pastVars, Ending
    <2>2. CASE Dies(p)
        BY <2>2 DEF Dies, Ending
    <2>3. QED
        BY <2>1, <2>2
<1>3. /\ WholeWhen(Empty, calls, hour, made, succeeded) /\ Empty.job.id = 0
    BY EmptyIsWhole, QueueNumbers
<1>4. PrivateStep(p, "idle", Empty, Empty, 0)
    BY <1>1, HeldByProcess DEF PrivateStep
<1>5. PrivateHolds(p, "idle", Empty, Empty, 0)
    BY <1>1, <1>3, QueueNumbers DEF PrivateHolds, Saving
<1>6. PrivateKnows(p, "idle", Empty, Empty, 0)
    BY <1>1, <1>2, <1>3 DEF PrivateKnows, Saving
<1>7. QED
    BY <1>4, <1>5, <1>6, PrivateInv

LEMMA TruncateInv == ASSUME QueueInv, NEW p \in Procs, Truncate(p) PROVE QueueInv'
<1>1. /\ qpc[p] = "truncate" /\ qpc' = [qpc EXCEPT ![p] = "write"] /\ file' = Torn
      /\ overlap' = (overlap \/ file # base[p])
      /\ UNCHANGED <<hour, base, out, runs, queue, orc, made, calls, started, succeeded, lastRun>>
    BY DEF Truncate, Goes, pastVars
<1>2. qpc'[p] = "write" /\ \A q \in Procs : q # p => qpc'[q] = qpc[q]
    BY <1>1 DEF QueueInv, QueueTypes
<1>3. QueueTypes'
    BY <1>1 DEF QueueInv, QueueTypes
<1>4. (file = Torn \/ Whole(file))' /\ LaunchedOnce'
    BY <1>1 DEF QueueInv, LaunchedOnce
<1>5. \A q \in Procs : Whole(base[q])' /\ Whole(out[q])'
    BY <1>1 DEF QueueInv, Whole
<1>6. ASSUME NEW q \in Procs PROVE Stage(q)' /\ (Makes(q)' => Makes(q))
    BY <1>1, <1>2 DEF QueueInv, Stage, Launches, Saving, Makes
<1>7. ASSUME NEW q \in Procs PROVE Fresh(q)'
    <2>1. out[q].job.status = "pending" => out[q].job.id # 0
        BY DEF QueueInv, Whole, WholeWhen
    <2>2. QED
        BY <1>1, <1>6, <2>1, TornIsNotWhole DEF QueueInv, Fresh, Makes
<1>8. Registered'
    BY <1>1, <1>2, TornIsNotWhole DEF QueueInv, Registered
<1>9. CASE overlap'
    BY <1>3, <1>4, <1>5, <1>6, <1>7, <1>8, <1>9 DEF QueueInv, Alone, Anchored
<1>10. CASE ~overlap'
    <2>1. ~overlap /\ file = base[p] /\ file # Torn /\ Whole(file)
        BY <1>1, <1>10, TornIsNotWhole DEF QueueInv, Whole
    <2>2. \A q \in Procs \ {p} : qpc[q] # "write"
        BY <2>1 DEF QueueInv, Alone
    <2>3. out[p].job.status = "pending" => started[out[p].job.id] = 0
        <3>1. out[p].job.status = "pending" /\ out[p].job = base[p].job => started[out[p].job.id] = 0
            BY <2>1 DEF QueueInv, Alone
        <3>2. out[p].job.status = "pending" /\ out[p].job # base[p].job => started[out[p].job.id] = 0
            BY <1>1 DEF QueueInv, Fresh, Makes, Saving
        <3>3. QED
            BY <3>1, <3>2
    <2>4. Launches(p) => started[runs[p]] = 0
        <3>1. Launches(p) => base[p].job = [id |-> runs[p], status |-> "pending"]
            BY <1>1 DEF QueueInv, Stage, Saving
        <3>2. Launches(p) => base[p].job.id = runs[p] /\ base[p].job.status = "pending"
            BY <3>1
        <3>3. QED
            BY <3>2, <2>1 DEF QueueInv, Alone
    <2>5. Launches(p)' = Launches(p)
        BY <1>1 DEF Launches
    <2>6. Alone'
        BY <1>1, <1>2, <2>2, <2>3, <2>4, <2>5, TornIsNotWhole DEF Alone
    <2>7. Anchored'
        <3>1. \A q \in Procs : Ending(q) => Ending(q)'
            BY <1>1, <1>2 DEF Ending
        <3>2. CASE \E q \in Procs : Ending(q)
            BY <3>1, <3>2 DEF Anchored
        <3>3. CASE ~\E q \in Procs : Ending(q)
            <4>1. lastRun <= base[p].anchor
                BY <2>1, <3>3 DEF QueueInv, Anchored
            <4>2. base[p].anchor <= out[p].anchor
                BY <1>1, HeldByProcess DEF Stage, Saving
            <4>3. lastRun \in Nat /\ base[p].anchor \in Nat /\ out[p].anchor \in Nat
                BY QueueNumbers DEF QueueInv, Whole, WholeWhen, Contents
            <4>4. lastRun <= out[p].anchor
                BY <4>1, <4>2, <4>3
            <4>5. QED
                BY <1>1, <1>2, <2>2, <4>4 DEF Anchored
        <3>4. QED
            BY <3>2, <3>3
    <2>8. QED
        BY <1>3, <1>4, <1>5, <1>6, <1>7, <1>8, <2>6, <2>7 DEF QueueInv
<1>11. QED
    BY <1>9, <1>10

\* What p wrote is in the file, and p goes on: it runs the job or is over.
LEMMA WriteStateInv == ASSUME QueueInv, NEW p \in Procs, WriteState(p) PROVE QueueInv'
<1>1. /\ qpc[p] = "write" /\ file' = out[p] /\ overlap' = (overlap \/ file # Torn)
      /\ UNCHANGED <<queue, hour, made, calls, succeeded>>
    BY DEF WriteState
<1> DEFINE s == IF Launches(p) THEN "run" ELSE "idle"
           b == IF Launches(p) THEN out[p] ELSE Empty
           o == IF Launches(p) THEN out[p] ELSE Empty
           r == IF Launches(p) THEN runs[p] ELSE 0
<1>2. /\ qpc' = [qpc EXCEPT ![p] = s] /\ base' = [base EXCEPT ![p] = b]
      /\ out' = [out EXCEPT ![p] = o] /\ runs' = [runs EXCEPT ![p] = r]
    <2>1. CASE Launches(p)
        BY <2>1 DEF WriteState, Goes, QueueInv, QueueTypes
    <2>2. CASE ~Launches(p)
        BY <2>2 DEF WriteState, Quits, Goes, Saves
    <2>3. QED
        BY <2>1, <2>2
<1>3. /\ started' \in [Jobs -> 0..2]
      /\ \A j \in Jobs : (Launches(p) /\ j = runs[p]) \/ started'[j] = started[j]
      /\ Launches(p) /\ runs[p] \in Jobs =>
           started'[runs[p]] = IF started[runs[p]] = 0 THEN 1 ELSE 2
    BY DEF WriteState, QueueInv, QueueTypes
<1>4. /\ orc' \in [Jobs -> {"none", "pending", "running", "completed", "failed"}]
      /\ \A j \in Jobs : orc[j] # "none" => orc'[j] # "none"
    BY DEF WriteState, QueueInv, QueueTypes
<1>5. \/ lastRun' = lastRun
      \/ queue = "research" /\ Launches(p) /\ lastRun' = out[p].anchor
    BY DEF WriteState
<1>6. /\ Whole(out[p]) /\ Stage(p) /\ runs[p] \in 0..made
      /\ \A q \in Procs : /\ Whole(base[q]) /\ Whole(out[q]) /\ Stage(q) /\ Fresh(q)
                          /\ runs[q] \in 0..made
    BY HeldByProcess
<1>7. Launches(p) => runs[p] # 0 /\ runs[p] \in Jobs /\ out[p].job.id = runs[p]
    BY <1>6, QueueNumbers DEF Launches, Jobs, QueueInv, QueueTypes
<1>8. /\ s \in {"run", "idle"} /\ (s = "run" <=> Launches(p)) /\ (s = "run" => r # 0)
      /\ (s = "idle" => r = 0) /\ r \in 0..made
      /\ Whole(b) /\ Whole(o) /\ {b.job.id, o.job.id, r} \subseteq {0, out[p].job.id, runs[p]}
    BY <1>6, <1>7, EmptyIsWhole, QueueNumbers DEF Whole
<1>9. \A i \in {b.job.id, o.job.id} : i # 0 => i = out[p].job.id
    BY EmptyIsWhole, QueueNumbers
<1> HIDE DEF s, b, o, r
<1>10. /\ qpc'[p] = s /\ base'[p] = b /\ out'[p] = o /\ runs'[p] = r
       /\ \A q \in Procs : q # p => /\ qpc'[q] = qpc[q] /\ base'[q] = base[q]
                                    /\ out'[q] = out[q] /\ runs'[q] = runs[q]
    BY <1>2 DEF QueueInv, QueueTypes
<1>11. lastRun' \in 0..hour
    <2>1. out[p].anchor \in 0..hour
        BY <1>6, QueueNumbers DEF Whole, WholeWhen, Contents
    <2>2. QED
        BY <2>1, <1>5, HeldByProcess
<1>12. QueueTypes'
    <2>1. \A j \in Jobs : j > made => started'[j] = 0
        BY <1>3, <1>6, QueueNumbers DEF QueueInv, QueueTypes, Jobs
    <2>2. b \in Contents /\ o \in Contents
        BY <1>8 DEF Whole, WholeWhen
    <2>3. QED
        BY <1>1, <1>2, <1>3, <1>4, <1>8, <1>11, <2>1, <2>2 DEF QueueInv, QueueTypes
<1>13. (file = Torn \/ Whole(file))'
    BY <1>1, <1>6 DEF Whole
<1>14. ASSUME NEW q \in Procs PROVE Whole(base[q])' /\ Whole(out[q])'
    BY <1>1, <1>6, <1>8, <1>10 DEF Whole
<1>15. ASSUME NEW q \in Procs PROVE Stage(q)'
    <2>1. CASE q = p
        BY <2>1, <1>8, <1>10 DEF Stage, Saving
    <2>2. CASE q # p
        BY <2>2, <1>1, <1>6, <1>10 DEF Stage, Launches
    <2>3. QED
        BY <2>1, <2>2
<1>16. ASSUME NEW q \in Procs PROVE Fresh(q)'
    <2>1. CASE q = p
        BY <2>1, <1>8, <1>10 DEF Fresh, Makes, Saving
    <2>2. CASE q # p
        <3> SUFFICES ASSUME Makes(q), NEW k \in Procs \ {q}
                     PROVE  /\ started'[out[q].job.id] = 0 /\ out[p].job.id # out[q].job.id
                            /\ out[q].job.id \notin {out'[k].job.id, base'[k].job.id, runs'[k]}
            BY <2>2, <1>1, <1>10 DEF Fresh, Makes
        <3>1. /\ started[out[q].job.id] = 0
              /\ \A k2 \in Procs \ {q} :
                    out[q].job.id \notin {out[k2].job.id, base[k2].job.id, runs[k2]}
            BY <1>6 DEF Fresh
        <3>2. out[q].job.id # 0 /\ out[q].job.id \in Jobs
            BY <1>6, QueueNumbers DEF Makes, Whole, WholeWhen, Contents, Jobs
        <3>3. out[q].job.id # out[p].job.id /\ out[q].job.id # runs[p]
            BY <2>2, <3>1
        <3>4. started'[out[q].job.id] = 0
            BY <3>1, <3>2, <3>3, <1>3
        <3>5. CASE k = p
            <4>1. out[q].job.id \notin {b.job.id, o.job.id, r}
                BY <3>2, <3>3, <1>8
            <4>2. QED
                BY <4>1, <3>3, <3>4, <3>5, <1>10
        <3>6. CASE k # p
            BY <3>1, <3>3, <3>4, <3>6, <1>10
        <3>7. QED
            BY <3>5, <3>6
    <2>3. QED
        BY <2>1, <2>2
<1>17. Registered'
    <2> SUFFICES ASSUME queue = "dream"
                 PROVE  /\ out[p].job.id # 0 => orc'[out[p].job.id] # "none"
                        /\ \A q \in Procs :
                             /\ base'[q].job.id # 0 => orc'[base'[q].job.id] # "none"
                             /\ qpc'[q] # "register" /\ out'[q].job.id # 0
                                  => orc'[out'[q].job.id] # "none"
        BY <1>1 DEF Registered
    <2>1. \A q \in Procs : /\ base[q].job.id # 0 => base[q].job.id \in Jobs
                           /\ out[q].job.id # 0 => out[q].job.id \in Jobs
        BY <1>6, QueueNumbers DEF Whole, WholeWhen, Contents, Jobs
    <2>2. out[p].job.id # 0 => orc'[out[p].job.id] # "none"
        BY <1>1, <1>4, <2>1 DEF QueueInv, Registered
    <2>3. ASSUME NEW q \in Procs
          PROVE  /\ base'[q].job.id # 0 => orc'[base'[q].job.id] # "none"
                 /\ qpc'[q] # "register" /\ out'[q].job.id # 0 => orc'[out'[q].job.id] # "none"
        <3>1. CASE q = p
            BY <3>1, <2>2, <1>9, <1>10
        <3>2. CASE q # p
            BY <3>2, <2>1, <1>4, <1>10 DEF QueueInv, Registered
        <3>3. QED
            BY <3>1, <3>2
    <2>4. QED
        BY <2>2, <2>3
<1>18. CASE overlap'
    BY <1>12, <1>13, <1>14, <1>15, <1>16, <1>17, <1>18
    DEF QueueInv, Alone, Anchored, LaunchedOnce
<1>19. CASE ~overlap'
    <2>1. ~overlap
        BY <1>1, <1>19
    <2>2. /\ \A q \in Procs \ {p} : qpc[q] # "write"
          /\ out[p].job.status = "pending" => started[out[p].job.id] = 0
          /\ Launches(p) => started[runs[p]] = 0
        BY <1>1, <2>1 DEF QueueInv, Alone
    <2>3. \A q \in Procs : qpc'[q] # "write"
        BY <2>2, <1>8, <1>10
    <2>4. out[p].job.status = "pending" => ~Launches(p)
        BY <1>1, <1>6 DEF Stage, Saving, Launches
    <2>5. out[p].job.status = "pending" => out[p].job.id \in Jobs
        BY <1>6, QueueNumbers DEF Whole, WholeWhen, Contents, Jobs
    <2>6. out[p].job.status = "pending" => started'[out[p].job.id] = 0
        BY <1>3, <2>2, <2>4, <2>5
    <2>7. Alone'
        BY <1>1, <2>3, <2>6 DEF Alone
    <2>8. LaunchedOnce'
        <3>1. \A j \in Jobs : started[j] \in 0..2 /\ ~(started[j] > 1)
            BY <2>1 DEF QueueInv, QueueTypes, LaunchedOnce
        <3>2. \A j \in Jobs : ~(started'[j] > 1)
            BY <3>1, <1>3, <2>2
        <3>3. QED
            BY <3>2 DEF LaunchedOnce
    <2>9. Anchored'
        <3>1. \A q \in Procs : q # p /\ Ending(q) => Ending(q)'
            BY <1>1, <1>5, <1>10 DEF Ending
        <3>2. CASE \E q \in Procs : q # p /\ Ending(q)
            BY <3>1, <3>2 DEF Anchored
        <3>3. CASE ~\E q \in Procs : q # p /\ Ending(q)
            <4>1. lastRun <= out[p].anchor
                BY <1>1, <2>1, <3>3 DEF QueueInv, Anchored, Ending
            <4>2. out[p].anchor <= out[p].anchor
                BY <1>6 DEF Whole, WholeWhen, Contents
            <4>3. lastRun' <= out[p].anchor
                BY <4>1, <4>2, <1>5
            <4>4. QED
                BY <1>1, <2>3, <4>3 DEF Anchored
        <3>4. QED
            BY <3>2, <3>3
    <2>10. QED
        BY <1>12, <1>13, <1>14, <1>15, <1>16, <1>17, <2>7, <2>8, <2>9 DEF QueueInv
<1>20. QED
    BY <1>18, <1>19

\* Time passes, or something else happens.
LEMMA HourPassesInv == ASSUME QueueInv, HourPasses \/ UNCHANGED queueVars PROVE QueueInv'
<1>1. /\ UNCHANGED <<file, qpc, base, out, runs, overlap, queue, orc, made, calls, started,
                     succeeded, lastRun>>
      /\ hour' \in 1..MaxHours /\ hour <= hour' /\ hour' \in Nat
    <2>1. CASE HourPasses
        BY <2>1, QueueNumbers DEF HourPasses, pastVars, QueueInv, QueueTypes
    <2>2. CASE UNCHANGED queueVars
        BY <2>2, QueueNumbers DEF queueVars, QueueInv, QueueTypes
    <2>3. QED
        BY <2>1, <2>2
<1>2. lastRun \in 0..hour'
    BY <1>1, QueueNumbers DEF QueueInv, QueueTypes
<1>3. QueueTypes'
    BY <1>1, <1>2 DEF QueueInv, QueueTypes
<1>4. \A c : WholeWhen(c, calls, hour, made, succeeded)
               => WholeWhen(c, calls, hour', made, succeeded)
    BY <1>1, QueueNumbers, WholeStays
<1>5. (file = Torn \/ Whole(file))' /\ \A p \in Procs : Whole(base[p])' /\ Whole(out[p])'
    BY <1>1, <1>4 DEF QueueInv, Whole
<1>6. \A p \in Procs : Stage(p)' /\ Fresh(p)'
    BY <1>1 DEF QueueInv, Stage, Launches, Fresh, Makes
<1>7. Registered' /\ LaunchedOnce'
    BY <1>1 DEF QueueInv, Registered, LaunchedOnce
<1>8. Alone' /\ Anchored'
    BY <1>1 DEF QueueInv, Alone, Anchored, Launches, Ending
<1>9. QED
    BY <1>3, <1>5, <1>6, <1>7, <1>8 DEF QueueInv

LEMMA QueueInitInv == QueueInit => QueueInv
<1> SUFFICES ASSUME QueueInit PROVE QueueInv
    OBVIOUS
<1>1. hour = 1 /\ 1 \in 1..MaxHours /\ Empty \in Contents
    BY QueueAssumption DEF QueueInit, Empty, NoQueueJob, Contents
<1>2. QueueTypes
    <2>1. 0 \in 0..MaxJobs /\ 0 \in 0..MaxSignals /\ 0 \in 0..0 /\ 0 \in 0..1 /\ 0 \in 0..2
        BY QueueAssumption
    <2>2. /\ base \in [Procs -> Contents] /\ out \in [Procs -> Contents]
          /\ runs \in [Procs -> 0..made] /\ started \in [Jobs -> 0..2]
        BY <1>1, <2>1 DEF QueueInit
    <2>3. QED
        BY <1>1, <2>1, <2>2 DEF QueueInit, QueueTypes
<1>3. Whole(Empty)
    BY EmptyIsWhole, <1>1 DEF QueueInit, Whole
<1>4. \A p \in Procs : Whole(base[p]) /\ Whole(out[p]) /\ Stage(p) /\ Fresh(p)
    BY <1>3 DEF QueueInit, Stage, Fresh, Makes, Saving
<1>5. Registered /\ Alone /\ LaunchedOnce
    BY EmptyIsWhole, <1>1 DEF QueueInit, Registered, Alone, LaunchedOnce
<1>6. Anchored
    BY DEF QueueInit, Anchored, Empty
<1>7. QED
    BY <1>2, <1>3, <1>4, <1>5, <1>6 DEF QueueInv, QueueInit

\* What Spaced says of one step.
SpacedStep ==
    made' # made /\ ~overlap /\ lastRun # 0 /\ file # Torn
      /\ (queue = "research" \/ \A p \in Procs : qpc[p] = "idle")
    => hour > lastRun

LEMMA ScheduleJobIsSpaced ==
    ASSUME QueueInv, NEW p \in Procs, ScheduleJob(p) PROVE SpacedStep
<1> SUFFICES ASSUME ~overlap, lastRun # 0, file # Torn,
                    queue = "research" \/ \A q \in Procs : qpc[q] = "idle"
             PROVE  hour > lastRun
    BY DEF SpacedStep
<1>1. ~\E q \in Procs : Ending(q)
    BY DEF Ending
<1>2. lastRun <= file.anchor /\ lastRun \in Nat /\ hour \in Nat /\ file.anchor \in Nat
    BY <1>1, QueueNumbers DEF QueueInv, Anchored, Whole, WholeWhen, Contents
<1>3. file.anchor # 0
    BY <1>2
<1>4. Due(Scheduling) /\ ReadState = file
    BY DEF ScheduleJob, ReadState
<1>5. Scheduling.anchor = file.anchor
    <2>1. file \in Contents
        BY DEF QueueInv, Whole, WholeWhen
    <2>2. CASE queue = "dream"
        BY <2>1, <2>2, <1>3, <1>4 DEF Scheduling, Counted, Contents
    <2>3. CASE queue # "dream"
        BY <2>3, <1>4 DEF Scheduling
    <2>4. QED
        BY <2>2, <2>3
<1>6. hour > file.anchor
    BY <1>3, <1>4, <1>5 DEF Due
<1>7. QED
    BY <1>2, <1>6

LEMMA QueueNextInv ==
    QueueInv /\ [QueueNext]_queueVars => QueueInv' /\ SpacedStep
<1> SUFFICES ASSUME QueueInv, [QueueNext]_queueVars PROVE QueueInv' /\ SpacedStep
    OBVIOUS
<1>1. ASSUME NEW p \in Procs, ScheduleJob(p) PROVE QueueInv' /\ SpacedStep
    BY <1>1, ScheduleJobInv, ScheduleJobIsSpaced
<1>2. ASSUME NEW p \in Procs, Signal(p) \/ ScheduleNothing(p) \/ Register(p) \/ StartJob(p)
      PROVE  QueueInv' /\ made' = made
    <2>1. QueueInv'
        BY <1>2, SignalInv, ScheduleNothingInv, RegisterInv, StartJobInv
    <2>2. QED
        BY <2>1, <1>2 DEF Signal, ScheduleNothing, Register, StartJob, pastVars
<1>3. ASSUME NEW p \in Procs, Truncate(p) \/ WriteState(p) \/ Reload(p)
      PROVE  QueueInv' /\ made' = made
    <2>1. QueueInv'
        BY <1>3, TruncateInv, WriteStateInv, ReloadInv
    <2>2. QED
        BY <2>1, <1>3 DEF Truncate, WriteState, Reload, pastVars
<1>4. ASSUME NEW p \in Procs, DreamErrs(p) \/ Dies(p) \/ \E ok \in BOOLEAN : QueueCommandEnds(p, ok)
      PROVE  QueueInv' /\ made' = made
    <2>1. QueueInv'
        BY <1>4, QuitsInv, QueueCommandEndsInv
    <2>2. QED
        BY <2>1, <1>4 DEF DreamErrs, Dies, QueueCommandEnds, pastVars
<1>5. CASE HourPasses \/ UNCHANGED queueVars
    <2>1. QueueInv'
        BY <1>5, HourPassesInv
    <2>2. QED
        BY <2>1, <1>5 DEF HourPasses, queueVars, pastVars, SpacedStep
<1>6. QED
    BY <1>1, <1>2, <1>3, <1>4, <1>5 DEF QueueNext, SpacedStep

LEMMA QueueInvImplies ==
    QueueInv => QueueTypeOK /\ LaunchedOnce /\ ResetIsEarned /\ RegisteredFirst
<1> SUFFICES ASSUME QueueInv
             PROVE  QueueTypeOK /\ LaunchedOnce /\ ResetIsEarned /\ RegisteredFirst
    OBVIOUS
<1>1. file = Torn \/ Whole(file)
    BY DEF QueueInv
<1>2. file \in Contents /\ file.since <= file.total /\ ResetIsEarned
    BY <1>1, QueueAssumption DEF Torn, Contents, Whole, WholeWhen, ResetIsEarned
<1>3. out \in [Procs -> Contents \ {Torn}]
    BY TornIsNotWhole DEF QueueInv, QueueTypes, Whole
<1>4. runs \in [Procs -> 0..MaxJobs]
    BY QueueNumbers DEF QueueInv, QueueTypes
<1>5. QueueTypeOK
    BY <1>2, <1>3, <1>4 DEF QueueInv, QueueTypes, QueueTypeOK
<1>6. LaunchedOnce /\ RegisteredFirst
    BY DEF QueueInv, Registered, RegisteredFirst
<1>7. QED
    BY <1>2, <1>5, <1>6

\* However many processes read, cover and tear the state file of a queue, and
\* wherever they die: a job is launched twice only if a writer covered another,
\* a count is reset only after a success, a dream the file names is registered,
\* and while no writer covered another a job is made an interval after the last
\* run.
THEOREM QueuesKeepTheirJobs == QueueSpec => QueueKeepsItsJobs
<1>1. QueueSpec => []QueueInv
    BY QueueInitInv, QueueNextInv, PTL DEF QueueSpec
<1>2. QueueInv /\ [QueueNext]_queueVars
        => /\ [SpacedStep]_queueVars
           /\ [QueueTypeOK' /\ LaunchedOnce' /\ ResetIsEarned' /\ RegisteredFirst']_queueVars
    <2>1. QueueInv' => QueueTypeOK' /\ LaunchedOnce' /\ ResetIsEarned' /\ RegisteredFirst'
        BY QueueInvImplies, PTL
    <2>2. QED
        BY <2>1, QueueNextInv
<1>3. QueueKeepsItsJobs <=>
        /\ [][SpacedStep]_queueVars
        /\ [][QueueTypeOK' /\ LaunchedOnce' /\ ResetIsEarned' /\ RegisteredFirst']_queueVars
    BY DEF QueueKeepsItsJobs, Spaced, SpacedStep
<1>4. QED
    BY <1>1, <1>2, <1>3, PTL DEF QueueSpec
=============================================================================
