---------------------------- MODULE ColdArchive ----------------------------
(***************************************************************************)
(* Cold storage: the append-only JSONL archive of a project                 *)
(* (memra-core/src/storage/cold_storage.rs) and the command that rebuilds a *)
(* database from it (recover_project of memra-server/src/cli/phase4.rs).    *)
(*                                                                         *)
(* An append writes the record and its newline with two write calls under   *)
(* an exclusive flock, counts the file's lines and answers with the number  *)
(* of the last one, which the caller stores as the note's cold_storage_ref  *)
(* and commits.  Appenders of one database are already ordered by its write *)
(* lock; the flock orders those of other databases with the same project.   *)
(* A writer may run out of space or die between any two calls.              *)
(*                                                                         *)
(* `recover' reads the archive without the flock, moves the database aside  *)
(* and fills a new one.  Servers that are running keep the old file open.   *)
(***************************************************************************)
EXTENDS Naturals, Sequences, FiniteSets

CONSTANTS
    Process, Note,
    LastMonth,   \* bound on the month, and on the archive's files
    MaxRecover,  \* bound on the databases `recover' starts
    MaxCut,      \* bound on the records cut short
    Cut,         \* a record whose write was cut short
    Newline, Nobody

Month == 1..LastMonth
Base  == 0..MaxRecover
Ref   == Month \X (Nat \ {0})
NoRef == <<0, 0>>

ASSUME ColdArchiveAssumption ==
    /\ LastMonth \in Nat \ {0} /\ MaxRecover \in Nat /\ MaxCut \in Nat
    /\ Cut # Newline /\ {Cut, Newline} \cap Note = {}
    /\ Nobody \notin Process \cup Note

VARIABLES
    files,   \* [Month -> the pieces written to the file, in order]
    month,   \* the current month
    flock,   \* [Month -> holder of the file's lock]
    pc, job, \* where a writer is; its note, its file and the ref it was given
    handle,  \* the database a writer has open
    rows,    \* [Base -> [Note -> cold_storage_ref of the committed row]]
    live,    \* the database at the project's path
    recover, \* the recover command: where it is and what it read
    acked    \* notes answered Saved

vars == <<files, month, flock, pc, job, handle, rows, live, recover, acked>>

TypeOK ==
    /\ files \in [Month -> Seq(Note \cup {Cut, Newline})]
    /\ month \in Month
    /\ flock \in [Month -> Process \cup {Nobody}]
    /\ pc \in [Process -> {"idle", "waiting", "writing", "ending", "counting",
                           "unlocking", "committing"}]
    /\ job \in [Process -> [note : Note \cup {Nobody}, file : Month,
                            ref : Ref \cup {NoRef}]]
    /\ handle \in [Process -> Base] /\ live \in Base
    /\ rows \in [Base -> [Note -> Ref \cup {NoRef}]]
    /\ recover \in [pc : {"idle", "read", "bare", "done"},
                   seen : [Note -> Ref \cup {NoRef}], owed : SUBSET Note]
    /\ acked \subseteq Note

NoJob == [note |-> Nobody, file |-> 1, ref |-> NoRef]
NoRows == [n \in Note |-> NoRef]

Init ==
    /\ files = [m \in Month |-> <<>>] /\ month = 1
    /\ flock = [m \in Month |-> Nobody]
    /\ pc = [p \in Process |-> "idle"] /\ job = [p \in Process |-> NoJob]
    /\ handle = [p \in Process |-> 0] /\ live = 0
    /\ rows = [b \in Base |-> NoRows]
    /\ recover = [pc |-> "idle", seen |-> NoRows, owed |-> {}]
    /\ acked = {}

----------------------------------------------------------------------------
\* Lines of a file.  `lines()' yields the last one even without a newline.
LineOf(f, i) == 1 + Cardinality({j \in 1..(i - 1) : f[j] = Newline})
Line(f, k)   == {i \in DOMAIN f : f[i] # Newline /\ LineOf(f, i) = k}

\* count_lines
CountLines(f) ==
    Cardinality({i \in DOMAIN f : f[i] = Newline})
      + (IF f # <<>> /\ f[Len(f)] # Newline THEN 1 ELSE 0)

\* Every line is empty or one whole record.
Parses(f) ==
    /\ Cut \notin {f[i] : i \in DOMAIN f}
    /\ \A k \in 1..CountLines(f) : Cardinality(Line(f, k)) <= 1

----------------------------------------------------------------------------
Goto(p, where) == pc' = [pc EXCEPT ![p] = where]
books   == <<month, handle, live, recover>>
storage == <<rows, acked>>

\* A writer begins with a note of its own, in the file of the current month.
Start(p, n) ==
    /\ pc[p] = "idle"
    /\ n \notin {job[q].note : q \in Process} \cup acked
    /\ \A m \in Month : n \notin {files[m][i] : i \in DOMAIN files[m]}
    /\ job' = [job EXCEPT ![p] = [note |-> n, file |-> month, ref |-> NoRef]]
    /\ Goto(p, "waiting")
    /\ UNCHANGED <<files, flock, storage, books>>

\* The next month begins.
Turn ==
    /\ month < LastMonth /\ month' = month + 1
    /\ UNCHANGED <<files, flock, pc, job, handle, live, recover, storage>>

\* Faulty variants, one per hazard, stand before the definition they vary.
Lock_None(p) ==
    /\ pc[p] = "waiting"
    /\ Goto(p, "writing")
    /\ UNCHANGED <<files, flock, job, storage, books>>

Lock(p) ==
    LET m == job[p].file
    IN  /\ pc[p] = "waiting" /\ flock[m] = Nobody
        /\ flock' = [flock EXCEPT ![m] = p]
        /\ Goto(p, "writing")
        /\ UNCHANGED <<files, job, storage, books>>

\* The first write call: the record.
WriteRecord(p) ==
    LET m == job[p].file
    IN  /\ pc[p] = "writing"
        /\ files' = [files EXCEPT ![m] = Append(@, job[p].note)]
        /\ Goto(p, "ending")
        /\ UNCHANGED <<flock, job, storage, books>>

\* The second: its newline; then flush and fsync.
WriteNewline(p) ==
    LET m == job[p].file
    IN  /\ pc[p] = "ending"
        /\ files' = [files EXCEPT ![m] = Append(@, Newline)]
        /\ Goto(p, "counting")
        /\ UNCHANGED <<flock, job, storage, books>>

Count(p) ==
    /\ pc[p] = "counting"
    /\ job' = [job EXCEPT ![p].ref =
                  <<job[p].file, CountLines(files[job[p].file])>>]
    /\ Goto(p, "unlocking")
    /\ UNCHANGED <<files, flock, storage, books>>

\* with_file_lock: the lock goes whatever the outcome.
Unlocked(p) ==
    [m \in Month |-> IF flock[m] = p THEN Nobody ELSE flock[m]]

Unlock(p) ==
    /\ pc[p] = "unlocking"
    /\ flock' = Unlocked(p)
    /\ Goto(p, "committing")
    /\ UNCHANGED <<files, job, storage, books>>

\* What a write that fails or a process that dies leaves in the file.
Cuts == {r \in UNION {{m} \X DOMAIN files[m] : m \in Month} : files[r[1]][r[2]] = Cut}
Leavings(p) ==
    IF pc[p] = "writing" /\ Cardinality(Cuts) < MaxCut
    THEN {files, [files EXCEPT ![job[p].file] = Append(@, Cut)]}
    ELSE {files}

\* A step of append fails: the lock is released, the caller rolls back.
AppendFails(p) ==
    /\ pc[p] \in {"waiting", "writing", "ending", "counting", "unlocking"}
    /\ files' \in Leavings(p)
    /\ flock' = Unlocked(p)
    /\ Goto(p, "idle")
    /\ job' = [job EXCEPT ![p] = NoJob]
    /\ UNCHANGED <<storage, books>>

\* The caller's UPDATE of cold_storage_ref and its COMMIT.
Commit(p) ==
    /\ pc[p] = "committing"
    /\ rows' = [rows EXCEPT ![handle[p]][job[p].note] = job[p].ref]
    /\ acked' = acked \cup {job[p].note}
    /\ Goto(p, "idle")
    /\ job' = [job EXCEPT ![p] = NoJob]
    /\ UNCHANGED <<files, flock, books>>

CommitFails(p) ==
    /\ pc[p] = "committing"
    /\ Goto(p, "idle")
    /\ job' = [job EXCEPT ![p] = NoJob]
    /\ UNCHANGED <<files, flock, storage, books>>

\* A process dies, and the kernel drops its flock; started again it opens the
\* database at the project's path.
Crash(p) ==
    /\ pc[p] # "idle" \/ handle[p] # live
    /\ files' \in Leavings(p)
    /\ flock' = Unlocked(p)
    /\ Goto(p, "idle")
    /\ job' = [job EXCEPT ![p] = NoJob]
    /\ handle' = [handle EXCEPT ![p] = live]
    /\ UNCHANGED <<month, live, recover, storage>>

----------------------------------------------------------------------------
\* read_cold_records: one line that does not parse fails the command.
Records ==
    [n \in Note |->
        LET refs == {r \in UNION {{m} \X (1..CountLines(files[m])) : m \in Month} :
                       \E i \in Line(files[r[1]], r[2]) : files[r[1]][i] = n}
        IN  IF refs = {} THEN NoRef ELSE CHOOSE r \in refs : TRUE]

\* The project has records, all of which parse.
Read ==
    /\ recover.pc = "idle" /\ live < MaxRecover
    /\ \A m \in Month : Parses(files[m])
    /\ Records # NoRows
    /\ recover' = [pc |-> "read", seen |-> Records, owed |-> acked]
    /\ UNCHANGED <<files, month, flock, pc, job, handle, rows, live, acked>>

\* The database is renamed, its side files removed, an empty one made.
Replace ==
    /\ recover.pc = "read"
    /\ live' = live + 1
    /\ recover' = [recover EXCEPT !.pc = "bare"]
    /\ UNCHANGED <<files, month, flock, pc, job, handle, rows, acked>>

\* One transaction: every record upserted, active, with the ref of its line.
Restore ==
    /\ recover.pc = "bare"
    /\ rows' = [rows EXCEPT ![live] =
          [n \in Note |-> IF recover.seen[n] = NoRef THEN @[n] ELSE recover.seen[n]]]
    /\ recover' = [recover EXCEPT !.pc = "done"]
    /\ UNCHANGED <<files, month, flock, pc, job, handle, live, acked>>

\* The command ends, fails or dies; it may be started again.
RecoverEnds ==
    /\ recover.pc # "idle"
    /\ recover' = [pc |-> "idle", seen |-> NoRows, owed |-> {}]
    /\ UNCHANGED <<files, month, flock, pc, job, handle, rows, live, acked>>

Next ==
    \/ Turn
    \/ \E p \in Process :
          \/ \E n \in Note : Start(p, n)
          \/ Lock(p) \/ WriteRecord(p) \/ WriteNewline(p) \/ Count(p) \/ Unlock(p)
          \/ AppendFails(p) \/ Commit(p) \/ CommitFails(p) \/ Crash(p)
    \/ Read \/ Replace \/ Restore \/ RecoverEnds

Spec == Init /\ [][Next]_vars
----------------------------------------------------------------------------
Held(n, m, k) == \E i \in Line(files[m], k) : files[m][i] = n

\* The line a cold_storage_ref names holds the note's record, in every
\* database, whatever was appended, cut or merged before and after it.
RefsReachTheirRecord ==
    \A b \in Base, n \in Note :
        rows[b][n] # NoRef => Held(n, rows[b][n][1], rows[b][n][2])

\* A recovery that finishes brings back every note acknowledged before it
\* read the archive.
RecoveryIsComplete ==
    recover.pc = "done" => \A n \in recover.owed : rows[live][n] # NoRef

\* Every record that is referred to can be read, and a recovery finds every record.
ArchiveIsWhole == RefsReachTheirRecord /\ RecoveryIsComplete

\* Rebuilds rely on the archive: whatever writers do, it can be read back.
AlwaysRecoverable == \A m \in Month : Parses(files[m])
=============================================================================
