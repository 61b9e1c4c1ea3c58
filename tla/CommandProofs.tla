---------------------------- MODULE CommandProofs ----------------------------
(***************************************************************************)
(* Theorems of the reports of research, of the curated playbooks and of what  *)
(* a session is told at its start, for every number of processes, rows,       *)
(* directions, playbooks, notes, episodes and tasks, and every limit.         *)
(***************************************************************************)
EXTENDS Research, Playbooks, Handover, SequenceTheorems, FiniteSetTheorems, TLAPS

----------------------------------------------------------------------------
\* Research. Whose records the file has, and which line lacks its end.

\* What an aggregate knows of a direction, and the row it has it from.
Workers == [score : Nat, guarded : BOOLEAN, found : BOOLEAN, foul : BOOLEAN]
WorkerSheets == [Directions -> Workers]
Fair(w, d) ==
    /\ ~w.foul
    /\ w.found => \E i \in DOMAIN sheets[d] :
                     /\ sheets[d][i].status = "keep" /\ sheets[d][i].score = w.score
                     /\ sheets[d][i].guarded = w.guarded
AllFair(ws) == \A d \in Directions : Fair(ws[d], d)

ResearchTypes ==
    /\ sheets \in [Directions -> Seq(Rows)] /\ rpc \in [Aggregators -> 1..EndsLine]
    /\ gathered \in [Aggregators -> WorkerSheets] /\ aggregate \in Seq(WorkerSheets \cup {LineEnd})
    /\ batch \in {"none", "running", "draining", "batch_completed", "batch_failed"} /\ output \in 0..PipeHolds
    /\ split \in BOOLEAN

WorkersAreFair ==
    /\ \A p \in Aggregators : AllFair(gathered[p])
    /\ \A i \in DOMAIN aggregate : aggregate[i] # LineEnd => AllFair(aggregate[i])

\* A line that lacks its end is that of the one process which is to end it.
Ending == {p \in Aggregators : rpc[p] = EndsLine}
LinesEnd ==
    ~split => /\ Legible(aggregate) /\ \A p, q \in Ending : p = q
              /\ Ending = {} => aggregate = <<>> \/ aggregate[Len(aggregate)] = LineEnd

ResearchInv == ResearchTypes /\ WorkersAreFair /\ LinesEnd /\ BatchTellsTruth

----------------------------------------------------------------------------
LEMMA WorkersApart ==
    /\ \A ws \in WorkerSheets : ws # LineEnd
    /\ NoWorkers \in WorkerSheets /\ (\A d \in Directions : ~NoWorkers[d].foul /\ ~NoWorkers[d].found)
<1>1. 1 \in Directions
    BY ResearchAssumption DEF Directions
<1>2. ASSUME NEW ws \in WorkerSheets PROVE ws # LineEnd
    <2>1. DOMAIN ws = Directions
        BY DEF WorkerSheets
    <2>2. DOMAIN LineEnd = {}
        BY DEF LineEnd
    <2>3. QED
        BY <1>1, <2>1, <2>2
<1>3. NoWorker \in Workers /\ ~NoWorker.foul /\ ~NoWorker.found
    BY DEF NoWorker, Workers
<1>4. QED
    BY <1>2, <1>3 DEF NoWorkers, WorkerSheets

\* Rows that are ranked by score, and then by place, have a best one.
LEMMA BestExists ==
    ASSUME NEW n \in Nat, NEW kept \in SUBSET (1..n), kept # {}, NEW score \in [1..n -> Nat]
    PROVE  \E i \in kept : \A j \in kept : score[i] > score[j] \/ (score[i] = score[j] /\ i >= j)
<1> DEFINE Above(i) == {j \in kept : score[j] > score[i] \/ (score[j] = score[i] /\ j > i)}
           T == {Above(i) : i \in kept}
           R == StrictSubsetOrdering(kept)
           F == FiniteSubsetsOf(kept)
<1>1. IsWellFoundedOn(R, F)
    BY FS_StrictSubsetOrderingWellFounded
<1>2. T \subseteq F /\ T # {}
    <2>1. IsFiniteSet(1..n)
        BY FS_Interval
    <2>2. IsFiniteSet(kept)
        BY <2>1, FS_Subset
    <2>3. ASSUME NEW i \in kept PROVE Above(i) \in F
        <3>1. Above(i) \subseteq kept
            OBVIOUS
        <3>2. IsFiniteSet(Above(i))
            BY <2>2, <3>1, FS_Subset
        <3>3. QED
            BY <3>1, <3>2 DEF FiniteSubsetsOf
    <2>4. QED
        BY <2>3
<1> HIDE DEF T, R, F
<1>3. \E t \in T : \A u \in T : ~(<<u, t>> \in R)
    BY <1>1, <1>2, WFMin
<1>4. PICK i \in kept : \A u \in T : ~(<<u, Above(i)>> \in R)
    BY <1>3 DEF T
<1>5. ASSUME NEW j \in kept PROVE score[i] > score[j] \/ (score[i] = score[j] /\ i >= j)
    <2>1. SUFFICES ASSUME ~(score[i] > score[j] \/ (score[i] = score[j] /\ i >= j)) PROVE FALSE
        OBVIOUS
    <2>2. i \in Nat /\ j \in Nat /\ score[i] \in Nat /\ score[j] \in Nat
        OBVIOUS
    <2>3. j \in Above(i) /\ j \notin Above(j)
        BY <2>1, <2>2
    <2>4. ASSUME NEW k \in Above(j) PROVE k \in Above(i)
        <3>1. k \in Nat /\ score[k] \in Nat /\ k \in kept
            OBVIOUS
        <3>2. QED
            BY <2>1, <2>2, <2>4, <3>1
    <2>5. Above(j) \in T /\ Above(j) \subseteq Above(i) /\ Above(j) # Above(i)
        BY <2>3, <2>4 DEF T
    <2>6. Above(j) \subseteq kept /\ Above(i) \subseteq kept
        OBVIOUS
    <2> HIDE DEF Above
    <2>7. <<Above(j), Above(i)>> \in R
        BY <2>5, <2>6 DEF R, StrictSubsetOrdering
    <2>8. QED
        BY <1>4, <2>5, <2>7
<1>6. QED
    BY <1>5

\* What is known of a direction is true of one of its rows.
LEMMA WorkerIsFair ==
    ASSUME ResearchTypes, NEW d \in Directions
    PROVE  Worker(d) \in Workers /\ Fair(Worker(d), d)
<1> DEFINE row(i) == sheets[d][i]
           n == Len(sheets[d])
           kept == {i \in Parsed(d) : row(i).status = "keep" /\ Valid(row(i))}
           score == [i \in 1..n |-> row(i).score]
           Best(i) == \A j \in kept : row(i).score > row(j).score \/ (row(i).score = row(j).score /\ i >= j)
           best == CHOOSE i \in kept : Best(i)
<1>1. sheets[d] \in Seq(Rows) /\ n \in Nat /\ DOMAIN sheets[d] = 1..n
    BY DEF ResearchTypes
<1>2. \A i \in 1..n : /\ row(i).score \in Nat /\ row(i).foul \in BOOLEAN
                      /\ row(i).shown \in BOOLEAN /\ row(i).guarded \in BOOLEAN
    BY <1>1, ResearchAssumption
<1>3. CASE kept = {}
    <2>1. Worker(d) = NoWorker
        BY <1>3 DEF Worker
    <2>2. QED
        BY <2>1 DEF NoWorker, Workers, Fair
<1>4. CASE kept # {}
    <2>1. kept \in SUBSET (1..n) /\ score \in [1..n -> Nat] /\ \A i \in 1..n : score[i] = row(i).score
        BY <1>1, <1>2 DEF Parsed
    <2> HIDE DEF score, n
    <2>2. \E i \in kept : \A j \in kept : score[i] > score[j] \/ (score[i] = score[j] /\ i >= j)
        <3> HIDE DEF kept
        <3>1. QED
            BY <1>1, <1>4, <2>1, BestExists
    <2>3. \E i \in kept : Best(i)
        BY <2>1, <2>2
    <2>4. best \in kept
        BY <2>3
    <2>5. best \in DOMAIN sheets[d] /\ row(best).status = "keep" /\ (row(best).shown => ~row(best).foul)
        BY <1>1, <2>1, <2>4 DEF Valid
    <2>6. Worker(d) = [score |-> row(best).score, guarded |-> row(best).guarded,
                       found |-> TRUE, foul |-> row(best).shown /\ row(best).foul]
        BY <1>4 DEF Worker
    <2>7. best \in 1..n
        BY <1>1, <2>5
    <2> HIDE DEF best
    <2>8. Worker(d) \in Workers
        BY <1>2, <2>6, <2>7 DEF Workers
    <2>9. Fair(Worker(d), d)
        <3>1. ~Worker(d).foul /\ Worker(d).score = row(best).score /\ Worker(d).guarded = row(best).guarded
            BY <1>2, <2>5, <2>6, <2>7
        <3>2. QED
            BY <2>5, <3>1 DEF Fair
    <2>10. QED
        BY <2>8, <2>9
<1>5. QED
    BY <1>3, <1>4

\* Rows are only added, so what was true of one stays true.
LEMMA FairStays ==
    ASSUME ResearchTypes, NEW e \in Directions, NEW r \in Rows, sheets' = [sheets EXCEPT ![e] = Append(@, r)],
           NEW ws, AllFair(ws)
    PROVE  \A d \in Directions : Fair(ws[d], d)'
<1> SUFFICES ASSUME NEW d \in Directions
             PROVE  \A i \in DOMAIN sheets[d] : i \in DOMAIN sheets'[d] /\ sheets'[d][i] = sheets[d][i]
    BY DEF AllFair, Fair
<1>1. sheets[d] \in Seq(Rows)
    BY DEF ResearchTypes
<1>2. sheets'[d] = sheets[d] \/ sheets'[d] = Append(sheets[d], r)
    BY DEF ResearchTypes
<1>3. QED
    BY <1>1, <1>2

LEMMA AgentKeeps ==
    ASSUME ResearchInv, NEW d \in Directions, AgentReports(d)
    PROVE  ResearchInv'
<1>1. PICK r \in Rows : sheets' = [sheets EXCEPT ![d] = Append(@, r)]
    BY DEF AgentReports
<1>2. UNCHANGED <<rpc, gathered, aggregate, split, batch, child, heir, output, experiments>>
    BY DEF AgentReports, batchVars
<1>3. ResearchTypes /\ WorkersAreFair /\ LinesEnd /\ BatchTellsTruth
    BY DEF ResearchInv
<1>4. ResearchTypes'
    <2>1. sheets[d] \in Seq(Rows)
        BY <1>3 DEF ResearchTypes
    <2>2. Append(sheets[d], r) \in Seq(Rows)
        BY <2>1
    <2>3. sheets' \in [Directions -> Seq(Rows)]
        BY <1>1, <1>3, <2>2 DEF ResearchTypes
    <2>4. QED
        BY <1>2, <1>3, <2>3 DEF ResearchTypes
<1>5. WorkersAreFair'
    <2>1. \A p \in Aggregators : AllFair(gathered[p])'
        <3> SUFFICES ASSUME NEW p \in Aggregators PROVE \A e \in Directions : Fair(gathered[p][e], e)'
            BY <1>2 DEF AllFair
        <3>1. AllFair(gathered[p])
            BY <1>3 DEF WorkersAreFair
        <3>2. QED
            BY <1>1, <1>2, <1>3, <3>1, FairStays
    <2>2. ASSUME NEW i \in DOMAIN aggregate, aggregate[i] # LineEnd PROVE AllFair(aggregate[i])'
        <3>1. AllFair(aggregate[i])
            BY <1>3, <2>2 DEF WorkersAreFair
        <3>2. \A e \in Directions : Fair(aggregate[i][e], e)'
            BY <1>1, <1>2, <1>3, <3>1, FairStays
        <3>3. QED
            BY <1>2, <3>2 DEF AllFair
    <2>3. QED
        BY <1>2, <2>1, <2>2 DEF WorkersAreFair, LineEnd
<1>6. LinesEnd' /\ BatchTellsTruth'
    BY <1>2, <1>3 DEF LinesEnd, Ending, BatchTellsTruth
<1>7. QED
    BY <1>4, <1>5, <1>6 DEF ResearchInv

LEMMA GathersKeeps ==
    ASSUME ResearchInv, NEW p \in Aggregators, Gathers(p)
    PROVE  ResearchInv'
<1> DEFINE d == rpc[p]
<1>1. ResearchTypes /\ WorkersAreFair /\ LinesEnd /\ BatchTellsTruth
    BY DEF ResearchInv
<1>2. /\ d \in Directions /\ rpc' = [rpc EXCEPT ![p] = @ + 1]
      /\ gathered' = [gathered EXCEPT ![p][d] = Worker(d)]
      /\ UNCHANGED <<sheets, aggregate, split, batch, child, heir, output, experiments>>
    BY DEF Gathers, batchVars
<1>3. Worker(d) \in Workers /\ Fair(Worker(d), d)
    BY <1>1, <1>2, WorkerIsFair
<1>4. gathered[p] \in [Directions -> Workers]
    BY <1>1 DEF ResearchTypes, WorkerSheets
<1>5. /\ gathered'[p] = [gathered[p] EXCEPT ![d] = Worker(d)]
      /\ \A q \in Aggregators : q # p => gathered'[q] = gathered[q]
      /\ DOMAIN gathered' = Aggregators /\ gathered' \in [Aggregators -> WorkerSheets]
    <2>1. [gathered[p] EXCEPT ![d] = Worker(d)] \in WorkerSheets
        BY <1>2, <1>3, <1>4 DEF WorkerSheets
    <2>2. gathered' = [gathered EXCEPT ![p] = [gathered[p] EXCEPT ![d] = Worker(d)]]
        BY <1>2
    <2> HIDE DEF d
    <2>3. QED
        BY <1>1, <2>1, <2>2 DEF ResearchTypes
<1>6. rpc' \in [Aggregators -> 1..EndsLine] /\ Ending' = Ending
    <2>1. LastDirection \in Nat /\ d \in 1..LastDirection
        BY <1>2, ResearchAssumption DEF Directions
    <2>2. rpc \in [Aggregators -> 1..EndsLine]
        BY <1>1 DEF ResearchTypes
    <2>3. d + 1 \in 1..EndsLine /\ d + 1 # EndsLine /\ d # EndsLine
        BY <2>1 DEF EndsLine
    <2>4. \A q \in Aggregators : rpc'[q] = (IF q = p THEN d + 1 ELSE rpc[q])
        BY <1>2, <2>2
    <2>5. QED
        BY <1>2, <2>2, <2>3, <2>4 DEF Ending
<1>7. ResearchTypes'
    BY <1>1, <1>2, <1>5, <1>6 DEF ResearchTypes
<1>8. WorkersAreFair'
    <2> USE DEF AllFair, Fair
    <2>1. AllFair(gathered'[p])
        <3>1. AllFair(gathered[p])
            BY <1>1 DEF WorkersAreFair
        <3>2. \A e \in Directions : gathered'[p][e] = IF e = d THEN Worker(d) ELSE gathered[p][e]
            BY <1>4, <1>5
        <3> HIDE DEF d, Fair
        <3>3. QED
            BY <1>3, <3>1, <3>2
    <2>2. \A q \in Aggregators : AllFair(gathered'[q])
        <3> HIDE DEF AllFair, d
        <3>1. QED
            BY <1>1, <1>5, <2>1 DEF WorkersAreFair
    <2>3. QED
        BY <1>1, <1>2, <2>2 DEF WorkersAreFair
<1>9. LinesEnd' /\ BatchTellsTruth'
    BY <1>1, <1>2, <1>6 DEF LinesEnd, BatchTellsTruth
<1>10. QED
    BY <1>7, <1>8, <1>9 DEF ResearchInv

\* A write at the end of the file. A record follows a line end, unless aggregates
\* crossed or one of them died before its own.
LEMMA AppendsKeep ==
    ASSUME ResearchInv, NEW x \in WorkerSheets \cup {LineEnd}, aggregate' = Append(aggregate, x),
           UNCHANGED sheets, x = LineEnd \/ AllFair(x)
    PROVE  /\ aggregate' \in Seq(WorkerSheets \cup {LineEnd})
           /\ aggregate' # <<>> /\ aggregate'[Len(aggregate')] = x
           /\ \A i \in DOMAIN aggregate' : aggregate'[i] # LineEnd => AllFair(aggregate'[i])
           /\ Legible(aggregate) /\ (x = LineEnd \/ aggregate = <<>> \/ aggregate[Len(aggregate)] = LineEnd)
                 => Legible(aggregate')
<1>1. aggregate \in Seq(WorkerSheets \cup {LineEnd})
    BY DEF ResearchInv, ResearchTypes
<1>2. \A i \in DOMAIN aggregate : aggregate[i] # LineEnd => AllFair(aggregate[i])
    BY DEF ResearchInv, WorkersAreFair
<1> DEFINE n == Len(aggregate)
<1>3. /\ aggregate' \in Seq(WorkerSheets \cup {LineEnd}) /\ aggregate' # <<>>
      /\ Len(aggregate') = n + 1 /\ n \in Nat /\ aggregate'[n + 1] = x
      /\ \A i \in 1..n : aggregate'[i] = aggregate[i]
      /\ DOMAIN aggregate' = 1..(n + 1) /\ DOMAIN aggregate = 1..n
    BY <1>1, AppendProperties
<1> HIDE DEF n
<1>4. ASSUME NEW i \in DOMAIN aggregate', aggregate'[i] # LineEnd PROVE AllFair(aggregate'[i])
    <2>1. i \in 1..n \/ i = n + 1
        BY <1>3
    <2>2. QED
        BY <1>2, <1>3, <1>4, <2>1
<1>5. ASSUME Legible(aggregate), x = LineEnd \/ aggregate = <<>> \/ aggregate[n] = LineEnd,
             NEW i \in 2..(n + 1)
      PROVE  aggregate'[i] = LineEnd \/ aggregate'[i - 1] = LineEnd
    <2>1. CASE i \in 2..n
        <3>1. i \in 1..n /\ i - 1 \in 1..n
            BY <2>1, <1>3
        <3>2. aggregate[i] = LineEnd \/ aggregate[i - 1] = LineEnd
            BY <1>5, <2>1 DEF Legible, n
        <3>3. QED
            BY <1>3, <3>1, <3>2
    <2>2. CASE i = n + 1
        <3>1. n \in 1..n /\ aggregate # <<>>
            BY <1>3, <1>5, <2>2 DEF n
        <3>2. QED
            BY <1>3, <1>5, <2>2, <3>1
    <2>3. QED
        BY <1>3, <2>1, <2>2
<1>6. QED
    BY <1>3, <1>4, <1>5 DEF Legible, n

LEMMA RecordKeeps ==
    ASSUME ResearchInv, NEW p \in Aggregators, AppendsRecord(p)
    PROVE  ResearchInv'
<1>1. ResearchTypes /\ WorkersAreFair /\ LinesEnd /\ BatchTellsTruth
    BY DEF ResearchInv
<1>2. /\ rpc[p] = Appends /\ rpc' = [rpc EXCEPT ![p] = EndsLine] /\ split' = (split \/ Amid(p))
      /\ aggregate' = Append(aggregate, gathered[p])
      /\ UNCHANGED <<sheets, gathered, batch, child, heir, output, experiments>>
    BY DEF AppendsRecord, batchVars
<1>3. gathered[p] \in WorkerSheets /\ AllFair(gathered[p])
    BY <1>1 DEF ResearchTypes, WorkersAreFair
<1>4. /\ aggregate' \in Seq(WorkerSheets \cup {LineEnd})
      /\ \A i \in DOMAIN aggregate' : aggregate'[i] # LineEnd => AllFair(aggregate'[i])
      /\ Legible(aggregate) /\ (aggregate = <<>> \/ aggregate[Len(aggregate)] = LineEnd) => Legible(aggregate')
    BY <1>2, <1>3, AppendsKeep
<1>5. rpc \in [Aggregators -> 1..EndsLine] /\ Appends # EndsLine /\ EndsLine \in 1..EndsLine
    BY <1>1, ResearchAssumption DEF ResearchTypes, Appends, EndsLine
<1>6. Ending' = Ending \cup {p} /\ p \notin Ending
    BY <1>2, <1>5 DEF Ending
<1>7. ResearchTypes'
    BY <1>1, <1>2, <1>4, <1>5 DEF ResearchTypes, Amid
<1>8. WorkersAreFair'
    <2>1. \A q \in Aggregators : AllFair(gathered'[q])
        BY <1>1, <1>2 DEF WorkersAreFair
    <2>2. QED
        BY <1>2, <1>4, <2>1 DEF WorkersAreFair, AllFair, Fair, LineEnd
<1>9. LinesEnd'
    <2>1. SUFFICES ASSUME ~split' PROVE Legible(aggregate') /\ Ending = {}
        BY <1>6 DEF LinesEnd, Legible, LineEnd
    <2>2. ~split /\ ~Amid(p)
        BY <1>2, <2>1
    <2>3. Ending = {}
        BY <1>6, <2>2 DEF Amid, Ending
    <2>4. QED
        BY <1>1, <1>4, <2>2, <2>3 DEF LinesEnd
<1>10. QED
    BY <1>1, <1>2, <1>7, <1>8, <1>9 DEF ResearchInv, BatchTellsTruth

LEMMA LineEndKeeps ==
    ASSUME ResearchInv, NEW p \in Aggregators, AppendsLineEnd(p)
    PROVE  ResearchInv'
<1>1. ResearchTypes /\ WorkersAreFair /\ LinesEnd /\ BatchTellsTruth
    BY DEF ResearchInv
<1>2. /\ rpc[p] = EndsLine /\ rpc' = [rpc EXCEPT ![p] = 1] /\ gathered' = [gathered EXCEPT ![p] = NoWorkers]
      /\ aggregate' = Append(aggregate, LineEnd)
      /\ UNCHANGED <<sheets, split, batch, child, heir, output, experiments>>
    BY DEF AppendsLineEnd, AggregateEnds, batchVars
<1>3. /\ aggregate' \in Seq(WorkerSheets \cup {LineEnd})
      /\ aggregate' # <<>> /\ aggregate'[Len(aggregate')] = LineEnd
      /\ \A i \in DOMAIN aggregate' : aggregate'[i] # LineEnd => AllFair(aggregate'[i])
      /\ Legible(aggregate) => Legible(aggregate')
    BY <1>2, AppendsKeep
<1>4. rpc \in [Aggregators -> 1..EndsLine] /\ 1 # EndsLine /\ 1 \in 1..EndsLine
    BY <1>1, ResearchAssumption DEF ResearchTypes, EndsLine
<1>5. Ending' = Ending \ {p}
    BY <1>2, <1>4 DEF Ending
<1>6. NoWorkers \in WorkerSheets /\ AllFair(NoWorkers)
    BY WorkersApart DEF AllFair, Fair
<1>7. ResearchTypes'
    BY <1>1, <1>2, <1>3, <1>4, <1>6 DEF ResearchTypes
<1>8. WorkersAreFair'
    <2>1. \A q \in Aggregators : AllFair(gathered'[q])
        BY <1>1, <1>2, <1>6 DEF WorkersAreFair, ResearchTypes
    <2>2. QED
        BY <1>2, <1>3, <2>1 DEF WorkersAreFair, AllFair, Fair, LineEnd
<1>9. LinesEnd'
    BY <1>1, <1>2, <1>3, <1>5 DEF LinesEnd, Legible, LineEnd
<1>10. QED
    BY <1>1, <1>2, <1>7, <1>8, <1>9 DEF ResearchInv, BatchTellsTruth

LEMMA DeathKeeps ==
    ASSUME ResearchInv, NEW p \in Aggregators, AggregatorDies(p)
    PROVE  ResearchInv'
<1>1. ResearchTypes /\ WorkersAreFair /\ LinesEnd /\ BatchTellsTruth
    BY DEF ResearchInv
<1>2. /\ split' = (split \/ rpc[p] = EndsLine)
      /\ rpc' = [rpc EXCEPT ![p] = 1] /\ gathered' = [gathered EXCEPT ![p] = NoWorkers]
      /\ UNCHANGED <<sheets, aggregate, batch, child, heir, output, experiments>>
    BY DEF AggregatorDies, AggregateEnds, batchVars
<1>3. rpc \in [Aggregators -> 1..EndsLine] /\ 1 # EndsLine /\ 1 \in 1..EndsLine
    BY <1>1, ResearchAssumption DEF ResearchTypes, EndsLine
<1>4. ~split' => Ending' = Ending
    BY <1>2, <1>3 DEF Ending
<1>5. NoWorkers \in WorkerSheets /\ AllFair(NoWorkers)
    BY WorkersApart DEF AllFair, Fair
<1>6. ResearchTypes'
    BY <1>1, <1>2, <1>3, <1>5 DEF ResearchTypes
<1>7. WorkersAreFair'
    <2>1. \A q \in Aggregators : AllFair(gathered'[q])
        BY <1>1, <1>2, <1>5 DEF WorkersAreFair, ResearchTypes
    <2>2. QED
        BY <1>1, <1>2, <2>1 DEF WorkersAreFair, AllFair, Fair, LineEnd
<1>8. LinesEnd'
    BY <1>1, <1>2, <1>4 DEF LinesEnd, Legible, LineEnd
<1>9. QED
    BY <1>1, <1>2, <1>6, <1>7, <1>8 DEF ResearchInv, BatchTellsTruth

\* The batch and its child share nothing with the aggregates.
LEMMA BatchKeeps ==
    ASSUME ResearchInv,
           \/ BatchStarts \/ ChildWrites \/ ChildExperiments \/ ChildSpawns \/ HeirExits
           \/ \E how \in {"ok", "error"} : ChildExits(how)
           \/ SeesExit \/ TimeIsUp \/ BatchEnds \/ RunnerIsKilled
    PROVE  ResearchInv'
<1>1. ResearchTypes /\ WorkersAreFair /\ LinesEnd /\ BatchTellsTruth
    BY DEF ResearchInv
<1>2. UNCHANGED <<sheets, rpc, gathered, aggregate, split>>
    BY DEF BatchStarts, ChildWrites, ChildExperiments, ChildSpawns, HeirExits, ChildExits,
           SeesExit, TimeIsUp, BatchEnds, RunnerIsKilled, sheetVars
<1>3. WorkersAreFair' /\ LinesEnd'
    BY <1>1, <1>2 DEF WorkersAreFair, LinesEnd, AllFair, Fair, Ending
<1>4. /\ batch' \in {"none", "running", "draining", "batch_completed", "batch_failed"}
      /\ output' \in 0..PipeHolds /\ BatchTellsTruth'
    <2>1. /\ batch \in {"none", "running", "draining", "batch_completed", "batch_failed"}
          /\ output \in 0..PipeHolds /\ PipeHolds \in Nat /\ 0 \in 0..PipeHolds /\ MinExperiments \in Nat
        BY <1>1, ResearchAssumption DEF ResearchTypes
    <2>2. CASE BatchStarts
        BY <2>1, <2>2 DEF BatchStarts, BatchTellsTruth
    <2>3. CASE ChildWrites
        BY <1>1, <2>1, <2>3 DEF ChildWrites, BatchTellsTruth
    <2>4. CASE ChildExperiments
        BY <1>1, <2>1, <2>4 DEF ChildExperiments, BatchTellsTruth
    <2>5. CASE ChildSpawns \/ HeirExits
        BY <1>1, <2>1, <2>5 DEF ChildSpawns, HeirExits, BatchTellsTruth
    <2>6. CASE \E how \in {"ok", "error"} : ChildExits(how)
        BY <1>1, <2>1, <2>6 DEF ChildExits, BatchTellsTruth
    <2>7. CASE SeesExit \/ TimeIsUp
        BY <1>1, <2>1, <2>7 DEF SeesExit, TimeIsUp, BatchTellsTruth
    <2>8. CASE BatchEnds
        BY <1>1, <2>1, <2>8 DEF BatchEnds, Judged, BatchTellsTruth
    <2>9. CASE RunnerIsKilled
        BY <2>1, <2>9 DEF RunnerIsKilled, BatchTellsTruth
    <2>10. QED
        BY <2>2, <2>3, <2>4, <2>5, <2>6, <2>7, <2>8, <2>9
<1>5. ResearchTypes'
    BY <1>1, <1>2, <1>4 DEF ResearchTypes
<1>6. QED
    BY <1>3, <1>4, <1>5 DEF ResearchInv

LEMMA ResearchInvHolds == ResearchSpec => []ResearchInv
<1>1. ResearchInit => ResearchInv
    <2> SUFFICES ASSUME ResearchInit PROVE ResearchInv
        OBVIOUS
    <2>1. /\ LastDirection \in Nat \ {0} /\ EndsLine \in Nat /\ 1 \in 1..EndsLine /\ 1 # EndsLine
          /\ PipeHolds \in Nat
        BY ResearchAssumption DEF EndsLine
    <2>2. NoWorkers \in WorkerSheets /\ AllFair(NoWorkers)
        BY WorkersApart DEF AllFair, Fair
    <2>3. ResearchTypes
        <3>1. sheets \in [Directions -> Seq(Rows)] /\ aggregate \in Seq(WorkerSheets \cup {LineEnd})
            BY DEF ResearchInit
        <3>2. rpc \in [Aggregators -> 1..EndsLine] /\ gathered \in [Aggregators -> WorkerSheets]
            BY <2>1, <2>2 DEF ResearchInit
        <3>3. output \in 0..PipeHolds
            BY <2>1 DEF ResearchInit
        <3>4. QED
            BY <3>1, <3>2, <3>3 DEF ResearchInit, ResearchTypes
    <2>4. WorkersAreFair
        BY <2>2 DEF ResearchInit, WorkersAreFair
    <2>5. LinesEnd /\ BatchTellsTruth
        BY <2>1 DEF ResearchInit, LinesEnd, Ending, Legible, BatchTellsTruth
    <2>6. QED
        BY <2>3, <2>4, <2>5 DEF ResearchInv
<1>2. ResearchInv /\ [ResearchNext]_researchVars => ResearchInv'
    <2> SUFFICES ASSUME ResearchInv, [ResearchNext]_researchVars PROVE ResearchInv'
        OBVIOUS
    <2>1. CASE UNCHANGED researchVars
        BY <2>1 DEF researchVars, sheetVars, batchVars, ResearchInv, ResearchTypes, WorkersAreFair, AllFair, Fair,
                    LinesEnd, Ending, BatchTellsTruth
    <2>2. CASE ResearchNext
        BY <2>2, AgentKeeps, GathersKeeps, RecordKeeps, LineEndKeeps, DeathKeeps, BatchKeeps DEF ResearchNext
    <2>3. QED
        BY <2>1, <2>2
<1>3. QED
    BY <1>1, <1>2, PTL DEF ResearchSpec

\* Of two scores that are near, the second keeps all but the threshold of the first;
\* and every score is near itself.
LEMMA NearScores ==
    ASSUME NEW x \in Nat, NEW y \in Nat
    PROVE  /\ Near(x, x)
           /\ Near(x, y) => y * 100 >= x * (100 - Threshold)
<1>1. Threshold \in Nat
    BY ResearchAssumption
<1>2. Threshold * x \in Nat /\ x * (100 - Threshold) = 100 * x - Threshold * x
    BY <1>1
<1> DEFINE z == Threshold * x
<1>3. z \in Nat /\ x * (100 - Threshold) = 100 * x - z
    BY <1>2
<1> HIDE DEF z
<1>4. Near(x, y) <=> IF x = 0 THEN y = 0 ELSE Distance(x, y) * 100 <= z
    BY DEF Near, z
<1>5. Near(x, x)
    BY <1>3 DEF Near, Distance, z
<1>6. Near(x, y) => y * 100 >= 100 * x - z
    BY <1>3, <1>4 DEF Distance
<1>7. QED
    BY <1>3, <1>5, <1>6

\* Legible files, fair records, sound diffs and true reports of batches, for every
\* number of aggregates, directions, rows and experiments: two aggregates that do
\* not cross leave whole lines; a best row was kept, and stays among the rows of its
\* sheet; the diff of two records passes only where no score fell by more than the
\* threshold; a batch is complete only if its child ended well and left its rows.
THEOREM ReportsAreHonest == ResearchSpec => []ResearchIsHonest
<1>1. ResearchInv => ResearchIsHonest
    <2> SUFFICES ASSUME ResearchInv PROVE ResearchIsHonest
        OBVIOUS
    <2>1. ResearchTypes /\ WorkersAreFair /\ LinesEnd /\ BatchTellsTruth
        BY DEF ResearchInv
    <2>2. ResearchTypeOK /\ FileIsLegible
        BY <2>1 DEF ResearchTypes, LinesEnd, ResearchTypeOK, FileIsLegible
    <2>3. BestIsFair
        <3> SUFFICES ASSUME NEW i \in DOMAIN aggregate, aggregate[i] # LineEnd, NEW d \in Directions
                     PROVE  /\ ~aggregate[i][d].foul
                            /\ aggregate[i][d].found => \E r \in {sheets[d][j] : j \in DOMAIN sheets[d]} :
                                 /\ r.status = "keep" /\ r.score = aggregate[i][d].score
                                 /\ r.guarded = aggregate[i][d].guarded
            BY DEF BestIsFair
        <3>1. Fair(aggregate[i][d], d)
            BY <2>1 DEF WorkersAreFair, AllFair
        <3>2. QED
            BY <3>1 DEF Fair
    <2>4. DiffIsSound
        <3> SUFFICES ASSUME NEW first \in Records(aggregate), NEW second \in Records(aggregate)
                     PROVE  /\ first = second => (DiffPasses(first, second) <=> \A d \in Directions : second[d].guarded)
                            /\ DiffPasses(first, second) =>
                                 \A d \in Directions : second[d].score * 100 >= first[d].score * (100 - Threshold)
            BY DEF DiffIsSound
        <3>1. first \in WorkerSheets /\ second \in WorkerSheets
            BY <2>1 DEF Records, ResearchTypes
        <3>2. \A d \in Directions : first[d].score \in Nat /\ second[d].score \in Nat
            BY <3>1 DEF WorkerSheets, Workers
        <3>3. first = second => \A d \in Directions : Near(first[d].score, second[d].score)
            BY <3>2, NearScores
        <3>4. ASSUME DiffPasses(first, second), NEW d \in Directions
              PROVE  second[d].score * 100 >= first[d].score * (100 - Threshold)
            BY <3>2, <3>4, NearScores DEF DiffPasses
        <3>5. QED
            BY <3>3, <3>4 DEF DiffPasses
    <2>5. QED
        BY <2>1, <2>2, <2>3, <2>4 DEF ResearchIsHonest
<1>2. QED
    BY <1>1, ResearchInvHolds, PTL

----------------------------------------------------------------------------
\* Playbooks. What a lineage has, and what a command has in hand.

\* What a playbook has in the store.
Editions(i) == {n \in DOMAIN book : book[n].topic = PlaybookTopic(i)}
Topics == {"legacy"} \cup {PlaybookTopic(i) : i \in DOMAIN Curated}
BookNotes == [topic : Topics, text : Nat, version : Nat, root : Nat, live : BOOLEAN, by : Nat, episodes : Nat]
Turns == [at : Nat, text : Nat, head : Nat, created : Nat, left : SUBSET Nat]
Stages == {"idle", "load", "save", "retire", "bundle", "page", "summary"}
Told == {"bundle", "page", "summary"}

BookTypes ==
    /\ book \in Seq(BookNotes) /\ related \in Seq(Nat) /\ Len(related) = Len(book)
    /\ edition \in Nat /\ fpc \in [Refreshers -> Stages] /\ turn \in [Refreshers -> Turns]
    /\ refreshRuns \in Nat /\ meddled \in BOOLEAN
    /\ evidence = [bundle |-> evidence.bundle, page |-> evidence.page, summary |-> evidence.summary]

\* The notes there were before are of no playbook, and the others of the one they name.
NotesAreOfTopics ==
    /\ \A n \in LegacyNotes : n \in DOMAIN book /\ book[n].topic = "legacy"
    /\ \A i \in DOMAIN Curated : \A n \in Editions(i) : book[n].episodes = Episodes(i)
RootsExist == \A n \in DOMAIN book : book[n].root # NoNote => book[n].root \in DOMAIN book

\* What a command has in hand is of the playbook it has come to, and all that it will
\* retire is older than the note it created.
TurnIsSound(p) ==
    /\ fpc[p] \in {"load", "save", "retire"} => turn[p].at \in DOMAIN Curated
    /\ fpc[p] \in {"save", "retire"} =>
          /\ Episodes(turn[p].at) >= 2
          /\ turn[p].head # NoNote => turn[p].head \in Editions(turn[p].at)
    /\ fpc[p] = "retire" =>
          /\ turn[p].created \in Editions(turn[p].at)
          /\ turn[p].left \subseteq (LegacyNotes \cup {turn[p].head}) \cap 1..(turn[p].created - 1)
TurnsAreSound == \A p \in Refreshers : TurnIsSound(p)

\* A playbook that no command has in hand is not there, or has one head, the newest,
\* and all its relations.
SettledAt(i, h) ==
    /\ Live(h) /\ \A n \in Curated[i].legacy : ~Live(n)
    /\ \A n \in Editions(i) : /\ n # h => ~Live(n) /\ book[n].version < book[h].version
                              /\ related[n] = book[n].episodes
Settled(i) == Editions(i) # {} => \E h \in Editions(i) : SettledAt(i, h)

\* The one that is in hand lacks what its command still has to do.
InHand(p) ==
    LET i == turn[p].at
        c == turn[p].created
    IN  /\ Live(c) /\ related[c] <= book[c].episodes
        /\ \A n \in Editions(i) \ {c} : /\ book[n].version < book[c].version /\ related[n] = book[n].episodes
                                        /\ Live(n) => n \in turn[p].left
        /\ \A n \in Curated[i].legacy : Live(n) => n \in turn[p].left

Done(i) ==
    \/ Idle /\ refreshRuns > 0
    \/ \E p \in Refreshers : fpc[p] \in Told \/ (fpc[p] # "idle" /\ i < turn[p].at)

\* None of which holds once commands crossed, or one of them stopped.
Alone ==
    ~meddled =>
        /\ \A p, q \in Refreshers : fpc[p] # "idle" /\ fpc[q] # "idle" => p = q
        /\ \A i \in DOMAIN Curated :
              /\ (\A p \in Refreshers : fpc[p] = "retire" => turn[p].at # i) => Settled(i)
              /\ Done(i) /\ Episodes(i) >= 2 => Editions(i) # {}
        /\ \A p \in Refreshers : /\ fpc[p] = "save" => turn[p].head = Head1(PlaybookTopic(turn[p].at))
                                 /\ fpc[p] = "retire" => InHand(p)
EvidenceFollows ==
    ~meddled =>
        /\ \A p \in Refreshers : /\ fpc[p] \in {"page", "summary"} => evidence.bundle = Bundle
                                 /\ fpc[p] = "summary" => evidence.page = evidence.bundle
        /\ Idle /\ refreshRuns > 0 =>
              evidence.bundle = Bundle /\ evidence.page = evidence.bundle /\ evidence.summary = evidence.bundle

BookIsSound == BookTypes /\ NotesAreOfTopics /\ RootsExist /\ SuccessorsLeadOn /\ RootsAreFirst /\ TurnsAreSound
PlaybookInv == BookIsSound /\ Alone /\ EvidenceFollows

----------------------------------------------------------------------------
\* The head of a topic is one of its live notes, however many there are.
LEMMA HeadIsLive ==
    ASSUME BookTypes, NEW topic
    PROVE  /\ Heads(topic) # {} => Head1(topic) \in Heads(topic)
           /\ Head1(topic) # NoNote => Head1(topic) \in Heads(topic)
<1>1. book \in Seq(BookNotes) /\ Len(book) \in Nat /\ DOMAIN book = 1..Len(book)
    BY DEF BookTypes
<1>2. Heads(topic) \in SUBSET (1..Len(book))
    BY <1>1 DEF Heads
<1> DEFINE n == Len(book)
           score == [m \in 1..n |-> book[m].version]
           H == Heads(topic)
<1>3. score \in [1..n -> Nat] /\ \A m \in 1..n : score[m] = book[m].version
    <2>1. \A m \in 1..n : book[m] \in BookNotes
        BY <1>1
    <2>2. \A m \in 1..n : book[m].version \in Nat
        BY <2>1 DEF BookNotes
    <2>3. QED
        BY <2>2
<1>4. CASE H # {}
    <2>1. n \in Nat /\ H \in SUBSET (1..n) /\ H # {}
        BY <1>1, <1>2, <1>4
    <2> HIDE DEF H, score, n
    <2>2. \E i \in H : \A j \in H : score[i] > score[j] \/ (score[i] = score[j] /\ i >= j)
        BY <1>3, <2>1, BestExists
    <2>3. PICK i \in H : \A j \in H : score[i] > score[j] \/ (score[i] = score[j] /\ i >= j)
        BY <2>2
    <2>4. ASSUME NEW m \in H \ {i} PROVE Newer(i, m)
        <3>1. i \in Nat /\ m \in Nat /\ i # m
            BY <2>1, <2>4
        <3>2. QED
            BY <1>3, <2>1, <2>3, <3>1 DEF Newer
    <2>5. \E k \in H : \A m \in H \ {k} : Newer(k, m)
        BY <2>4
    <2>6. Head1(topic) = CHOOSE k \in H : \A m \in H \ {k} : Newer(k, m)
        BY <1>4 DEF Head1, H
    <2>7. QED
        BY <2>5, <2>6 DEF H
<1>5. CASE H = {}
    BY <1>5 DEF Head1
<1>6. QED
    BY <1>4, <1>5

\* Steps that leave the store alone.
LEMMA StoreRests ==
    ASSUME BookIsSound, UNCHANGED book
    PROVE  NotesAreOfTopics' /\ RootsExist' /\ SuccessorsLeadOn' /\ RootsAreFirst'
BY DEF BookIsSound, NotesAreOfTopics, RootsExist, SuccessorsLeadOn, RootsAreFirst, Editions, Live

LEMMA SettledRests ==
    ASSUME UNCHANGED <<book, related>>, NEW i, Settled(i)
    PROVE  Settled(i)'
BY DEF Settled, SettledAt, Editions, Live

\* What a command has in hand, for the steps that do not touch it.
LEMMA TurnRests ==
    ASSUME UNCHANGED book, NEW p, TurnIsSound(p), fpc'[p] = fpc[p], turn'[p] = turn[p]
    PROVE  TurnIsSound(p)'
BY DEF TurnIsSound, Editions

LEMMA NextTurn ==
    ASSUME NEW i \in Nat, NEW e \in Nat
    PROVE  /\ [NoTurn EXCEPT !.at = i, !.text = e] \in Turns
           /\ [NoTurn EXCEPT !.at = i, !.text = e].at = i
<1> DEFINE a == [NoTurn EXCEPT !.at = i]
<1>1. NoTurn \in Turns
    BY DEF NoTurn, Turns, NoNote
<1>2. a \in Turns /\ a.at = i
    BY <1>1 DEF Turns
<1> HIDE DEF a
<1>3. [a EXCEPT !.text = e] \in Turns /\ [a EXCEPT !.text = e].at = i
    BY <1>2 DEF Turns
<1>4. [NoTurn EXCEPT !.at = i, !.text = e] = [a EXCEPT !.text = e]
    BY DEF a
<1>5. QED
    BY <1>3, <1>4

LEMMA StartsKeeps ==
    ASSUME PlaybookInv, NEW p \in Refreshers, RefreshStarts(p)
    PROVE  PlaybookInv'
<1> DEFINE t == [NoTurn EXCEPT !.at = 1, !.text = edition]
<1>1. BookIsSound /\ Alone /\ EvidenceFollows /\ BookTypes /\ TurnsAreSound
    BY DEF PlaybookInv, BookIsSound
<1>2. /\ fpc[p] = "idle" /\ refreshRuns' = refreshRuns + 1 /\ fpc' = [fpc EXCEPT ![p] = "load"]
      /\ turn' = [turn EXCEPT ![p] = t] /\ meddled' = Crossing(p)
      /\ UNCHANGED <<book, related, edition, evidence>>
    BY DEF RefreshStarts
<1>3. 1 \in DOMAIN Curated /\ \A i \in DOMAIN Curated : i \in Nat /\ ~(i < 1)
    BY PlaybookAssumption
<1>4. t \in Turns /\ t.at = 1 /\ "load" \in Stages /\ Crossing(p) \in BOOLEAN
    BY <1>1, NextTurn DEF BookTypes, Stages, Crossing
<1> HIDE DEF t
<1>5. BookTypes'
    BY <1>1, <1>2, <1>4 DEF BookTypes
<1>6. fpc'[p] = "load" /\ turn'[p] = t /\ \A q \in Refreshers : q # p => fpc'[q] = fpc[q] /\ turn'[q] = turn[q]
    BY <1>1, <1>2 DEF BookTypes
<1>7. TurnsAreSound'
    <2> SUFFICES ASSUME NEW q \in Refreshers PROVE TurnIsSound(q)'
        BY DEF TurnsAreSound
    <2>1. CASE q = p
        BY <2>1, <1>3, <1>4, <1>6 DEF TurnIsSound
    <2>2. CASE q # p
        BY <2>2, <1>1, <1>2, <1>6, TurnRests DEF TurnsAreSound
    <2>3. QED
        BY <2>1, <2>2
<1>8. BookIsSound'
    BY <1>1, <1>2, <1>5, <1>7, StoreRests DEF BookIsSound
<1>9. ASSUME ~meddled' PROVE ~meddled /\ \A q \in Refreshers : fpc[q] = "idle" /\ (q # p => fpc'[q] = "idle")
    BY <1>2, <1>6, <1>9 DEF Crossing
<1>10. Alone'
    <2> SUFFICES ASSUME ~meddled'
                 PROVE  /\ \A q, r \in Refreshers : fpc'[q] # "idle" /\ fpc'[r] # "idle" => q = r
                        /\ \A i \in DOMAIN Curated : Settled(i)' /\ ~Done(i)'
                        /\ \A q \in Refreshers : fpc'[q] # "save" /\ fpc'[q] # "retire"
        BY DEF Alone
    <2>1. /\ \A q, r \in Refreshers : fpc'[q] # "idle" /\ fpc'[r] # "idle" => q = r
          /\ \A q \in Refreshers : fpc'[q] # "save" /\ fpc'[q] # "retire"
        BY <1>6, <1>9
    <2>2. ASSUME NEW i \in DOMAIN Curated PROVE Settled(i)'
        <3>1. Settled(i)
            BY <1>1, <1>9 DEF Alone
        <3>2. QED
            BY <1>2, <3>1, SettledRests
    <2>3. ASSUME NEW i \in DOMAIN Curated PROVE ~Done(i)'
        <3>1. ~Idle'
            BY <1>6 DEF Idle
        <3>2. \A q \in Refreshers : ~(fpc'[q] \in Told \/ (fpc'[q] # "idle" /\ i < turn'[q].at))
            BY <1>3, <1>4, <1>6, <1>9 DEF Told
        <3>3. QED
            BY <3>1, <3>2 DEF Done
    <2>4. QED
        BY <2>1, <2>2, <2>3
<1>11. EvidenceFollows'
    <2>1. ~meddled' => \A q \in Refreshers : fpc'[q] # "page" /\ fpc'[q] # "summary"
        BY <1>6, <1>9
    <2>2. ~Idle'
        BY <1>6 DEF Idle
    <2>3. QED
        BY <2>1, <2>2 DEF EvidenceFollows
<1>12. QED
    BY <1>8, <1>10, <1>11 DEF PlaybookInv

\* On to the next playbook: the one that was in hand is settled.
LEMMA OnwardsKeeps ==
    ASSUME PlaybookInv, NEW p \in Refreshers, fpc[p] \in {"load", "save", "retire"}, Onwards(p),
           UNCHANGED <<book, related, edition, evidence, refreshRuns>>, meddled' \in {meddled, TRUE},
           ~meddled' => Settled(turn[p].at) /\ (Episodes(turn[p].at) >= 2 => Editions(turn[p].at) # {})
    PROVE  PlaybookInv'
<1> DEFINE at == turn[p].at
           last == at >= Len(Curated)
           t == IF last THEN NoTurn ELSE [NoTurn EXCEPT !.at = at + 1, !.text = turn[p].text]
           stage == IF last THEN "bundle" ELSE "load"
<1>1. BookIsSound /\ Alone /\ EvidenceFollows /\ BookTypes /\ TurnsAreSound
    BY DEF PlaybookInv, BookIsSound
<1>2. Len(Curated) \in Nat \ {0} /\ DOMAIN Curated = 1..Len(Curated) /\ at \in 1..Len(Curated)
    BY <1>1, PlaybookAssumption DEF TurnsAreSound, TurnIsSound
<1>3. /\ fpc' = [fpc EXCEPT ![p] = stage] /\ turn' = [turn EXCEPT ![p] = t]
      /\ UNCHANGED <<book, related, edition, evidence, refreshRuns>>
    BY <1>2 DEF Onwards
<1>4. /\ t \in Turns /\ stage \in Stages /\ stage \in {"load", "bundle"}
      /\ stage = "load" => t.at = at + 1 /\ at + 1 \in DOMAIN Curated
      /\ stage = "bundle" => at = Len(Curated)
    <2>1. turn[p] \in Turns
        BY <1>1 DEF BookTypes
    <2>2. turn[p].text \in Nat /\ at \in Nat
        BY <2>1 DEF Turns
    <2>3. NoTurn \in Turns
        BY DEF NoTurn, Turns, NoNote
    <2>4. CASE last
        BY <1>2, <2>3, <2>4 DEF Stages
    <2>5. CASE ~last
        <3>1. at + 1 \in Nat /\ at + 1 \in DOMAIN Curated
            BY <1>2, <2>5
        <3>2. QED
            BY <2>2, <2>5, <3>1, NextTurn DEF Stages
    <2>6. QED
        BY <2>4, <2>5
<1> HIDE DEF t, stage, last
<1>5. BookTypes'
    BY <1>1, <1>3, <1>4 DEF BookTypes
<1>6. fpc'[p] = stage /\ turn'[p] = t /\ \A q \in Refreshers : q # p => fpc'[q] = fpc[q] /\ turn'[q] = turn[q]
    BY <1>1, <1>3 DEF BookTypes
<1>7. TurnsAreSound'
    <2> SUFFICES ASSUME NEW q \in Refreshers PROVE TurnIsSound(q)'
        BY DEF TurnsAreSound
    <2>1. CASE q = p
        BY <2>1, <1>4, <1>6 DEF TurnIsSound
    <2>2. CASE q # p
        BY <2>2, <1>1, <1>3, <1>6, TurnRests DEF TurnsAreSound
    <2>3. QED
        BY <2>1, <2>2
<1>8. BookIsSound'
    BY <1>1, <1>3, <1>5, <1>7, StoreRests DEF BookIsSound
<1>9. ASSUME ~meddled' PROVE ~meddled /\ \A q \in Refreshers : q # p => fpc[q] = "idle" /\ fpc'[q] = "idle"
    <2>1. ~meddled
        BY <1>1, <1>9 DEF BookTypes
    <2>2. QED
        BY <1>1, <1>6, <2>1 DEF Alone
<1>10. ~Idle'
    BY <1>4, <1>6 DEF Idle
<1>11. Alone'
    <2> SUFFICES ASSUME ~meddled'
                 PROVE  /\ \A q, r \in Refreshers : fpc'[q] # "idle" /\ fpc'[r] # "idle" => q = r
                        /\ \A i \in DOMAIN Curated : /\ Settled(i)'
                                                     /\ Done(i)' /\ Episodes(i) >= 2 => Editions(i) # {}
                        /\ \A q \in Refreshers : fpc'[q] # "save" /\ fpc'[q] # "retire"
        BY <1>3 DEF Alone, Editions
    <2>1. /\ \A q, r \in Refreshers : fpc'[q] # "idle" /\ fpc'[r] # "idle" => q = r
          /\ \A q \in Refreshers : fpc'[q] # "save" /\ fpc'[q] # "retire"
        BY <1>4, <1>6, <1>9
    <2>2. ASSUME NEW i \in DOMAIN Curated PROVE Settled(i)'
        <3>1. Settled(i)
            <4>1. CASE i = at
                BY <4>1
            <4>2. CASE i # at
                BY <4>2, <1>1, <1>9 DEF Alone
            <4>3. QED
                BY <4>1, <4>2
        <3>2. QED
            BY <1>3, <3>1, SettledRests
    <2>3. ASSUME NEW i \in DOMAIN Curated, Done(i)', Episodes(i) >= 2 PROVE Editions(i) # {}
        <3>1. stage = "bundle" \/ i < at + 1
            BY <1>4, <1>6, <1>9, <1>10, <2>3 DEF Done, Told
        <3>2. i < at \/ i = at
            BY <1>2, <1>4, <3>1
        <3>3. CASE i < at
            BY <3>3, <1>1, <1>9, <2>3 DEF Alone, Done
        <3>4. CASE i = at
            BY <3>4, <2>3
        <3>5. QED
            BY <3>2, <3>3, <3>4
    <2>4. QED
        BY <2>1, <2>2, <2>3
<1>12. EvidenceFollows'
    <2>1. ~meddled' => \A q \in Refreshers : fpc'[q] # "page" /\ fpc'[q] # "summary"
        BY <1>4, <1>6, <1>9
    <2>2. QED
        BY <1>10, <2>1 DEF EvidenceFollows
<1>13. QED
    BY <1>8, <1>11, <1>12 DEF PlaybookInv

\* Alone, a command that loads or saves finds every playbook settled.
LEMMA NoneInRetire ==
    ASSUME PlaybookInv, ~meddled, NEW p \in Refreshers, fpc[p] \notin {"idle", "retire"}
    PROVE  /\ \A i \in DOMAIN Curated : Settled(i)
           /\ \A q \in Refreshers : q # p => fpc[q] = "idle"
BY DEF PlaybookInv, Alone

LEMMA LoadKeeps ==
    ASSUME PlaybookInv, NEW p \in Refreshers, LoadPlaybook(p)
    PROVE  PlaybookInv'
<1> DEFINE at == turn[p].at
           head == Head1(PlaybookTopic(at))
<1>1. BookIsSound /\ Alone /\ EvidenceFollows /\ BookTypes /\ TurnsAreSound
    BY DEF PlaybookInv, BookIsSound
<1>2. /\ fpc[p] = "load" /\ UNCHANGED <<book, related, edition, evidence, refreshRuns, meddled>>
      /\ \/ Episodes(at) < 2 /\ Onwards(p)
         \/ ~(Episodes(at) < 2) /\ fpc' = [fpc EXCEPT ![p] = "save"] /\ turn' = [turn EXCEPT ![p].head = head]
    BY DEF LoadPlaybook, RestIs
<1>3. at \in DOMAIN Curated /\ Episodes(at) \in Nat
    BY <1>1, <1>2, PlaybookAssumption DEF TurnsAreSound, TurnIsSound, Episodes
<1>4. CASE Episodes(at) < 2
    <2>1. ~(Episodes(at) >= 2)
        BY <1>3, <1>4
    <2>2. ~meddled' => Settled(at)
        BY <1>2, <1>3, NoneInRetire
    <2>3. QED
        BY <1>2, <1>4, <2>1, <2>2, OnwardsKeeps
<1>5. CASE ~(Episodes(at) < 2)
    <2>1. /\ fpc' = [fpc EXCEPT ![p] = "save"] /\ turn' = [turn EXCEPT ![p].head = head] /\ Episodes(at) >= 2
          /\ UNCHANGED <<book, related, edition, evidence, refreshRuns, meddled>>
        BY <1>2, <1>3, <1>5
    <2>2. head \in Nat /\ (head # NoNote => head \in Editions(at))
        <3>1. head # NoNote => head \in Heads(PlaybookTopic(at))
            BY <1>1, HeadIsLive
        <3>2. DOMAIN book = 1..Len(book) /\ Len(book) \in Nat
            BY <1>1 DEF BookTypes
        <3>3. QED
            BY <3>1, <3>2 DEF Heads, Editions, NoNote
    <2> HIDE DEF head
    <2>3. /\ turn'[p] \in Turns /\ turn'[p].at = at /\ turn'[p].head = head /\ turn' \in [Refreshers -> Turns]
          /\ \A q \in Refreshers : q # p => turn'[q] = turn[q]
        <3>1. turn \in [Refreshers -> Turns] /\ turn[p] \in Turns
            BY <1>1 DEF BookTypes
        <3>2. [turn[p] EXCEPT !.head = head] \in Turns
            BY <2>2, <3>1 DEF Turns
        <3>3. turn' = [turn EXCEPT ![p] = [turn[p] EXCEPT !.head = head]]
            BY <2>1
        <3>4. DOMAIN turn[p] = {"at", "text", "head", "created", "left"}
            BY <3>1 DEF Turns
        <3>5. [turn[p] EXCEPT !.head = head].at = at /\ [turn[p] EXCEPT !.head = head].head = head
            BY <3>4
        <3>6. QED
            BY <3>1, <3>2, <3>3, <3>5
    <2>4. fpc' \in [Refreshers -> Stages] /\ fpc'[p] = "save" /\ \A q \in Refreshers : q # p => fpc'[q] = fpc[q]
        BY <1>1, <2>1 DEF BookTypes, Stages
    <2>5. BookTypes'
        BY <1>1, <2>1, <2>3, <2>4 DEF BookTypes
    <2>6. TurnsAreSound'
        <3> SUFFICES ASSUME NEW q \in Refreshers PROVE TurnIsSound(q)'
            BY DEF TurnsAreSound
        <3>1. CASE q = p
            BY <3>1, <1>3, <2>1, <2>2, <2>3, <2>4 DEF TurnIsSound, Editions
        <3>2. CASE q # p
            BY <3>2, <1>1, <2>1, <2>3, <2>4, TurnRests DEF TurnsAreSound
        <3>3. QED
            BY <3>1, <3>2
    <2>7. BookIsSound'
        BY <1>1, <2>1, <2>5, <2>6, StoreRests DEF BookIsSound
    <2>8. ~Idle'
        BY <2>4 DEF Idle
    <2>9. ASSUME ~meddled' PROVE ~meddled /\ \A q \in Refreshers : q # p => fpc[q] = "idle" /\ fpc'[q] = "idle"
        BY <1>2, <2>1, <2>4, <2>9, NoneInRetire
    <2>10. Alone'
        <3> SUFFICES ASSUME ~meddled'
                     PROVE  /\ \A q, r \in Refreshers : fpc'[q] # "idle" /\ fpc'[r] # "idle" => q = r
                            /\ \A i \in DOMAIN Curated : /\ Settled(i)'
                                                         /\ Done(i)' => Done(i)
                            /\ \A q \in Refreshers : /\ fpc'[q] = "save" => q = p
                                                     /\ fpc'[q] # "retire"
            <4>1. (\A i \in DOMAIN Curated : Done(i) /\ Episodes(i) >= 2 => Editions(i) # {}) \/ meddled'
                BY <1>1, <2>9 DEF Alone
            <4>2. \A i : Editions(i)' = Editions(i)
                BY <2>1 DEF Editions
            <4>3. Head1(PlaybookTopic(at))' = head
                BY <2>1, <2>3 DEF Head1, Heads, Live, Newer, head
            <4>4. Head1(PlaybookTopic(turn[p].at))' = turn'[p].head
                BY <2>3, <4>3
            <4>5. QED
                BY <4>1, <4>2, <4>4 DEF Alone
        <3>1. /\ \A q, r \in Refreshers : fpc'[q] # "idle" /\ fpc'[r] # "idle" => q = r
              /\ \A q \in Refreshers : /\ fpc'[q] = "save" => q = p
                                       /\ fpc'[q] # "retire"
            BY <2>4, <2>9
        <3>2. ASSUME NEW i \in DOMAIN Curated PROVE Settled(i)'
            BY <1>2, <2>1, <2>9, SettledRests, NoneInRetire
        <3>3. ASSUME NEW i \in DOMAIN Curated PROVE Done(i)' => Done(i)
            BY <1>2, <2>3, <2>4, <2>8, <2>9 DEF Done, Told
        <3>4. QED
            BY <3>1, <3>2, <3>3
    <2>11. EvidenceFollows'
        <3>1. ~meddled' => \A q \in Refreshers : fpc'[q] # "page" /\ fpc'[q] # "summary"
            BY <2>4, <2>9
        <3>2. QED
            BY <2>8, <3>1 DEF EvidenceFollows
    <2>12. QED
        BY <2>7, <2>10, <2>11 DEF PlaybookInv
<1>6. QED
    BY <1>4, <1>5

LEMMA UpToDateKeeps ==
    ASSUME PlaybookInv, NEW p \in Refreshers, UpToDate(p) \/ CreateFails(p)
    PROVE  PlaybookInv'
<1> DEFINE at == turn[p].at
<1>1. /\ fpc[p] = "save" /\ Onwards(p) /\ UNCHANGED <<book, related, edition, evidence, refreshRuns>>
      /\ (meddled' = meddled /\ Same(PlaybookTopic(at), turn[p].text) # {}) \/ meddled' = TRUE
    BY DEF UpToDate, CreateFails
<1>2. at \in DOMAIN Curated
    BY <1>1 DEF PlaybookInv, BookIsSound, TurnsAreSound, TurnIsSound
<1>3. ~meddled' => Settled(at)
    BY <1>1, <1>2, NoneInRetire
<1>4. Same(PlaybookTopic(at), turn[p].text) # {} => Editions(at) # {}
    BY DEF Same, Heads, Editions
<1>5. ~meddled' => Settled(at) /\ (Episodes(at) >= 2 => Editions(at) # {})
    BY <1>1, <1>3, <1>4
<1>6. QED
    BY <1>1, <1>5, OnwardsKeeps

\* What the store has of a playbook that is settled has its head.
LEMMA SettledHasHead ==
    ASSUME NEW i, NEW h \in Editions(i), SettledAt(i, h)
    PROVE  Heads(PlaybookTopic(i)) = {h} /\ Head1(PlaybookTopic(i)) = h
<1>1. Heads(PlaybookTopic(i)) = {h}
    BY DEF SettledAt, Heads, Editions
<1>2. QED
    BY <1>1 DEF Head1

\* The new version, whose root is the first of its lineage.
LEMMA ProcedureTyped ==
    ASSUME BookIsSound, NEW p \in Refreshers, fpc[p] = "save"
    PROVE  LET i == turn[p].at
               new == Procedure(i, turn[p])
           IN  /\ new \in BookNotes /\ new.topic = PlaybookTopic(i) /\ new.live /\ new.episodes = Episodes(i)
               /\ turn[p].head # NoNote => new.version = book[turn[p].head].version + 1
               /\ new.root # NoNote => /\ new.root \in DOMAIN book /\ book[new.root].root = NoNote
                                       /\ book[new.root].topic = new.topic
<1> DEFINE i == turn[p].at
           h == turn[p].head
           new == Procedure(i, turn[p])
<1>1. BookTypes /\ RootsExist /\ RootsAreFirst /\ TurnIsSound(p)
    BY DEF BookIsSound, TurnsAreSound
<1>2. i \in DOMAIN Curated /\ Episodes(i) \in Nat /\ PlaybookTopic(i) \in Topics
    BY <1>1, PlaybookAssumption DEF TurnIsSound, Episodes, Topics
<1>3. turn[p].text \in Nat
    BY <1>1 DEF BookTypes, Turns
<1>4. h # NoNote => /\ h \in DOMAIN book /\ book[h].topic = PlaybookTopic(i) /\ book[h] \in BookNotes
                    /\ h \in Nat
    <2>1. h # NoNote => h \in DOMAIN book /\ book[h].topic = PlaybookTopic(i)
        BY <1>1 DEF TurnIsSound, Editions
    <2>2. book \in Seq(BookNotes)
        BY <1>1 DEF BookTypes
    <2>3. QED
        BY <2>1, <2>2
<1>5. h # NoNote => book[h].version \in Nat /\ book[h].root \in Nat
    BY <1>4 DEF BookNotes
<1>6. new = [topic |-> PlaybookTopic(i), text |-> turn[p].text, version |-> NextEdition(h), root |-> PlaybookRoot(h),
             live |-> TRUE, by |-> NoNote, episodes |-> Episodes(i)]
    BY DEF Procedure
<1>7. NextEdition(h) \in Nat /\ (h # NoNote => NextEdition(h) = book[h].version + 1)
    BY <1>5 DEF NextEdition
<1>8. /\ PlaybookRoot(h) \in Nat
      /\ PlaybookRoot(h) # NoNote => /\ PlaybookRoot(h) \in DOMAIN book /\ book[PlaybookRoot(h)].root = NoNote
                                     /\ book[PlaybookRoot(h)].topic = PlaybookTopic(i)
    <2>1. CASE h = NoNote
        BY <2>1 DEF PlaybookRoot, NoNote
    <2>2. CASE h # NoNote /\ book[h].root = NoNote
        BY <2>2, <1>4 DEF PlaybookRoot
    <2>3. CASE h # NoNote /\ book[h].root # NoNote
        BY <2>3, <1>1, <1>4, <1>5 DEF PlaybookRoot, RootsExist, RootsAreFirst
    <2>4. QED
        BY <2>1, <2>2, <2>3
<1> HIDE DEF new, i, h
<1>9. new \in BookNotes
    BY <1>2, <1>3, <1>6, <1>7, <1>8 DEF BookNotes, NoNote
<1>10. QED
    BY <1>6, <1>7, <1>8, <1>9 DEF new, i, h

LEMMA SaveKeeps ==
    ASSUME PlaybookInv, NEW p \in Refreshers, SavePlaybook(p)
    PROVE  PlaybookInv'
<1> DEFINE at == turn[p].at
           n == Len(book) + 1
           new == Procedure(at, turn[p])
           h == turn[p].head
           left == Curated[at].legacy \cup (IF h = NoNote THEN {} ELSE {h})
<1>1. BookIsSound /\ Alone /\ EvidenceFollows /\ BookTypes /\ TurnsAreSound /\ TurnIsSound(p)
    BY DEF PlaybookInv, BookIsSound, TurnsAreSound
<1>2. /\ fpc[p] = "save" /\ book' = Append(book, new) /\ related' = Append(related, 0)
      /\ fpc' = [fpc EXCEPT ![p] = "retire"]
      /\ turn' = [turn EXCEPT ![p].created = n, ![p].left = left]
      /\ UNCHANGED <<edition, evidence, refreshRuns, meddled>>
    BY DEF SavePlaybook, RestIs
<1>3. at \in DOMAIN Curated /\ (h # NoNote => h \in Editions(at)) /\ Episodes(at) >= 2 /\ Episodes(at) \in Nat
    BY <1>1, <1>2, PlaybookAssumption DEF TurnIsSound, Episodes
<1>4. /\ new \in BookNotes /\ new.topic = PlaybookTopic(at) /\ new.live /\ new.episodes = Episodes(at)
      /\ h # NoNote => new.version = book[h].version + 1
      /\ new.root # NoNote => /\ new.root \in DOMAIN book /\ book[new.root].root = NoNote
                              /\ book[new.root].topic = new.topic
    BY <1>1, <1>2, ProcedureTyped
<1>5. book \in Seq(BookNotes) /\ related \in Seq(Nat) /\ Len(related) = Len(book) /\ Len(book) \in Nat
    BY <1>1 DEF BookTypes
<1> HIDE DEF new
<1>6. /\ book' \in Seq(BookNotes) /\ related' \in Seq(Nat) /\ Len(related') = Len(book')
      /\ DOMAIN book = 1..(n - 1) /\ DOMAIN book' = 1..n /\ n \in Nat \ {0} /\ n \notin DOMAIN book
      /\ book'[n] = new /\ related'[n] = 0
      /\ \A m \in DOMAIN book : m \in DOMAIN book' /\ book'[m] = book[m] /\ related'[m] = related[m]
      /\ \A m \in DOMAIN book' : m \in DOMAIN book \/ m = n
    <2>1. book' \in Seq(BookNotes) /\ Len(book') = n /\ book'[n] = new /\ \A m \in 1..Len(book) : book'[m] = book[m]
        BY <1>2, <1>4, <1>5, AppendProperties
    <2>2. related' \in Seq(Nat) /\ Len(related') = n /\ related'[n] = 0 /\ \A m \in 1..Len(book) : related'[m] = related[m]
        <3>1. 0 \in Nat
            OBVIOUS
        <3>2. QED
            BY <1>2, <1>5, <3>1, AppendProperties
    <2>3. DOMAIN book = 1..Len(book) /\ DOMAIN book' = 1..n
        BY <1>5, <2>1
    <2>4. QED
        BY <1>5, <2>1, <2>2, <2>3
<1> HIDE DEF n
<1>7. \A i \in DOMAIN Curated : Editions(i)' = IF i = at THEN Editions(i) \cup {n} ELSE Editions(i)
    <2>1. \A i \in DOMAIN Curated : PlaybookTopic(i) = PlaybookTopic(at) => i = at
        BY <1>3, PlaybookAssumption DEF PlaybookTopic
    <2>2. QED
        BY <1>4, <1>6, <2>1 DEF Editions
<1>8. left \subseteq (LegacyNotes \cup {h}) \cap 1..(n - 1)
    <2>1. LegacyNotes \subseteq DOMAIN book
        BY <1>1 DEF BookIsSound, NotesAreOfTopics
    <2>2. Curated[at].legacy \subseteq LegacyNotes
        BY <1>3 DEF LegacyNotes
    <2>3. h # NoNote => h \in DOMAIN book
        BY <1>3 DEF Editions
    <2>4. QED
        BY <1>6, <2>1, <2>2, <2>3
<1> HIDE DEF left
<1>9. /\ turn' \in [Refreshers -> Turns] /\ \A q \in Refreshers : q # p => turn'[q] = turn[q]
      /\ turn'[p].at = at /\ turn'[p].head = h /\ turn'[p].created = n /\ turn'[p].left = left
    <2> DEFINE a == [turn[p] EXCEPT !.created = n]
               b == [a EXCEPT !.left = left]
    <2>1. turn \in [Refreshers -> Turns] /\ turn[p] \in Turns
        BY <1>1 DEF BookTypes
    <2>2. a \in Turns /\ a.created = n /\ a.at = at /\ a.head = h
        BY <1>6, <2>1 DEF Turns
    <2>3. left \in SUBSET Nat
        BY <1>8
    <2> HIDE DEF a
    <2>4. b \in Turns /\ b.created = n /\ b.at = at /\ b.head = h /\ b.left = left
        BY <2>2, <2>3 DEF Turns
    <2>5. turn' = [turn EXCEPT ![p] = b]
        BY <1>2, <2>1 DEF a
    <2> HIDE DEF b
    <2>6. turn' \in [Refreshers -> Turns] /\ turn'[p] = b /\ \A q \in Refreshers : q # p => turn'[q] = turn[q]
        BY <2>1, <2>4, <2>5
    <2>7. QED
        BY <2>4, <2>6
<1>10. fpc' \in [Refreshers -> Stages] /\ fpc'[p] = "retire" /\ \A q \in Refreshers : q # p => fpc'[q] = fpc[q]
    BY <1>1, <1>2 DEF BookTypes, Stages
<1>11. BookTypes'
    BY <1>1, <1>2, <1>6, <1>9, <1>10 DEF BookTypes
<1>12. NotesAreOfTopics' /\ RootsExist' /\ SuccessorsLeadOn' /\ RootsAreFirst'
    <2>0. NotesAreOfTopics /\ RootsExist /\ SuccessorsLeadOn /\ RootsAreFirst
        BY <1>1 DEF BookIsSound
    <2>1. NotesAreOfTopics'
        <3>1. \A m \in LegacyNotes : m \in DOMAIN book' /\ book'[m].topic = "legacy"
            BY <1>6, <2>0 DEF NotesAreOfTopics
        <3>2. ASSUME NEW i \in DOMAIN Curated, NEW m \in Editions(i)' PROVE book'[m].episodes = Episodes(i)
            <4>1. CASE m \in Editions(i)
                BY <4>1, <1>6, <2>0 DEF NotesAreOfTopics, Editions
            <4>2. CASE m \notin Editions(i)
                BY <4>2, <1>4, <1>6, <1>7, <3>2
            <4>3. QED
                BY <4>1, <4>2
        <3>3. QED
            BY <3>1, <3>2 DEF NotesAreOfTopics
    <2>2. RootsExist'
        BY <1>4, <1>6, <2>0 DEF RootsExist
    <2>3. SuccessorsLeadOn'
        BY <1>4, <1>6, <2>0 DEF SuccessorsLeadOn, Live
    <2>4. RootsAreFirst'
        BY <1>4, <1>6, <2>0 DEF RootsAreFirst, RootsExist
    <2>5. QED
        BY <2>1, <2>2, <2>3, <2>4
<1>13. TurnsAreSound'
    <2> SUFFICES ASSUME NEW q \in Refreshers PROVE TurnIsSound(q)'
        BY DEF TurnsAreSound
    <2>1. CASE q = p
        BY <2>1, <1>3, <1>7, <1>8, <1>9, <1>10 DEF TurnIsSound
    <2>2. CASE q # p
        <3>1. TurnIsSound(q) /\ fpc'[q] = fpc[q] /\ turn'[q] = turn[q]
            BY <2>2, <1>1, <1>9, <1>10 DEF TurnsAreSound
        <3>2. \A i \in DOMAIN Curated : Editions(i) \subseteq Editions(i)'
            BY <1>7
        <3>3. QED
            BY <3>1, <3>2 DEF TurnIsSound
    <2>3. QED
        BY <2>1, <2>2
<1>14. ~Idle'
    BY <1>10 DEF Idle
<1>15. ASSUME ~meddled'
       PROVE  /\ ~meddled /\ \A q \in Refreshers : q # p => fpc[q] = "idle" /\ fpc'[q] = "idle"
              /\ \A i \in DOMAIN Curated : Settled(i)
    BY <1>2, <1>10, <1>15, NoneInRetire
<1>16. ~meddled' => InHand(p)'
    <2> SUFFICES ASSUME ~meddled'
                 PROVE  /\ book'[n].live /\ related'[n] <= book'[n].episodes
                        /\ \A m \in Editions(at) : /\ book'[m].version < book'[n].version
                                                   /\ related'[m] = book'[m].episodes
                                                   /\ book'[m].live => m \in left
                        /\ \A m \in Curated[at].legacy : book'[m].live => m \in left
        BY <1>3, <1>7, <1>9 DEF InHand, Live
    <2>1. book'[n].live /\ related'[n] <= book'[n].episodes
        BY <1>3, <1>4, <1>6
    <2>2. ASSUME NEW m \in Editions(at)
          PROVE  book'[m].version < book'[n].version /\ related'[m] = book'[m].episodes /\ (book'[m].live => m \in left)
        <3>1. PICK k \in Editions(at) : SettledAt(at, k)
            BY <1>3, <1>15, <2>2 DEF Settled
        <3>2. h = k
            BY <1>1, <1>2, <3>1, SettledHasHead, <1>15 DEF Alone
        <3>3. /\ m # k => ~Live(m) /\ book[m].version < book[k].version
              /\ related[m] = book[m].episodes
            BY <3>1 DEF SettledAt
        <3>4. m \in DOMAIN book /\ k \in DOMAIN book /\ k # NoNote
            BY <1>6, <3>1 DEF Editions, NoNote
        <3>5. book[k].version \in Nat /\ book[m].version \in Nat
            <4>1. book[k] \in BookNotes /\ book[m] \in BookNotes
                BY <1>5, <3>4
            <4>2. QED
                BY <4>1 DEF BookNotes
        <3>6. new.version = book[k].version + 1 /\ k \in left
            BY <1>4, <3>2, <3>4 DEF left
        <3>7. QED
            BY <1>6, <3>3, <3>4, <3>5, <3>6 DEF Live
    <2>3. Curated[at].legacy \subseteq left
        BY DEF left
    <2>4. QED
        BY <2>1, <2>2, <2>3
<1>17. Alone'
    <2> SUFFICES ASSUME ~meddled'
                 PROVE  /\ \A q, r \in Refreshers : fpc'[q] # "idle" /\ fpc'[r] # "idle" => q = r
                        /\ \A i \in DOMAIN Curated : /\ i # at => Settled(i)'
                                                     /\ Done(i)' => Done(i)
                        /\ \A q \in Refreshers : /\ fpc'[q] # "save"
                                                 /\ fpc'[q] = "retire" => q = p
        <3>1. ~meddled' => \A i \in DOMAIN Curated : Done(i) /\ Episodes(i) >= 2 => Editions(i) # {}
            BY <1>1, <1>15 DEF Alone
        <3>2. \A i \in DOMAIN Curated : Editions(i) \subseteq Editions(i)'
            BY <1>7
        <3>3. fpc'[p] = "retire" /\ turn'[p].at = at
            BY <1>9, <1>10
        <3>4. QED
            BY <1>16, <3>1, <3>2, <3>3 DEF Alone
    <2>1. /\ \A q, r \in Refreshers : fpc'[q] # "idle" /\ fpc'[r] # "idle" => q = r
          /\ \A q \in Refreshers : fpc'[q] # "save" /\ (fpc'[q] = "retire" => q = p)
        BY <1>10, <1>15
    <2>2. ASSUME NEW i \in DOMAIN Curated, i # at PROVE Settled(i)'
        <3>1. Editions(i)' = Editions(i) /\ Settled(i) /\ Editions(i) \subseteq DOMAIN book
            BY <1>7, <1>15, <2>2 DEF Editions
        <3>2. \A m \in Curated[i].legacy : m \in DOMAIN book
            BY <1>1 DEF BookIsSound, NotesAreOfTopics, LegacyNotes
        <3>3. /\ \A m \in Editions(i) : book'[m] = book[m] /\ related'[m] = related[m]
              /\ \A m \in Curated[i].legacy : book'[m] = book[m]
            BY <1>6, <3>1, <3>2
        <3>4. QED
            BY <3>1, <3>3 DEF Settled, SettledAt, Live
    <2>3. ASSUME NEW i \in DOMAIN Curated PROVE Done(i)' => Done(i)
        BY <1>2, <1>9, <1>10, <1>14, <1>15 DEF Done, Told
    <2>4. QED
        BY <2>1, <2>2, <2>3
<1>18. EvidenceFollows'
    <2>1. ~meddled' => \A q \in Refreshers : fpc'[q] # "page" /\ fpc'[q] # "summary"
        BY <1>10, <1>15
    <2>2. QED
        BY <1>14, <2>1 DEF EvidenceFollows
<1>19. QED
    BY <1>1, <1>11, <1>12, <1>13, <1>17, <1>18 DEF PlaybookInv, BookIsSound

\* What a note becomes when it is retired for another.
LEMMA Retired ==
    ASSUME BookTypes, NEW n \in DOMAIN book, NEW c \in Nat,
           book' = [book EXCEPT ![n].live = FALSE, ![n].by = c]
    PROVE  /\ book' \in Seq(BookNotes) /\ Len(book') = Len(book) /\ DOMAIN book' = DOMAIN book
           /\ ~book'[n].live /\ book'[n].by = c
           /\ \A m \in DOMAIN book : /\ m # n => book'[m] = book[m]
                                     /\ book'[m].topic = book[m].topic /\ book'[m].version = book[m].version
                                     /\ book'[m].root = book[m].root /\ book'[m].episodes = book[m].episodes
<1> DEFINE a == [book[n] EXCEPT !.live = FALSE]
           b == [a EXCEPT !.by = c]
<1>1. book \in Seq(BookNotes) /\ book[n] \in BookNotes
    BY DEF BookTypes
<1>2. /\ a \in BookNotes /\ ~a.live /\ a.topic = book[n].topic /\ a.version = book[n].version
      /\ a.root = book[n].root /\ a.episodes = book[n].episodes
    BY <1>1 DEF BookNotes
<1> HIDE DEF a
<1>3. /\ b \in BookNotes /\ ~b.live /\ b.by = c /\ b.topic = a.topic /\ b.version = a.version
      /\ b.root = a.root /\ b.episodes = a.episodes
    BY <1>2 DEF BookNotes
<1>4. book' = [book EXCEPT ![n] = b]
    BY <1>1 DEF a
<1> HIDE DEF b
<1>5. /\ book' \in Seq(BookNotes) /\ Len(book') = Len(book) /\ DOMAIN book' = DOMAIN book
      /\ book'[n] = b /\ \A m \in DOMAIN book : m # n => book'[m] = book[m]
    <2>1. n \in 1..Len(book) /\ DOMAIN book = 1..Len(book)
        BY <1>1
    <2>2. [book EXCEPT ![n] = b] \in Seq(BookNotes) /\ Len([book EXCEPT ![n] = b]) = Len(book)
        BY <1>1, <1>3, <2>1, ExceptSeq
    <2>3. DOMAIN book' = 1..Len(book) /\ book'[n] = b /\ \A m \in DOMAIN book : m # n => book'[m] = book[m]
        BY <1>4, <2>1
    <2>4. QED
        BY <1>4, <2>1, <2>2, <2>3
<1>6. QED
    BY <1>2, <1>3, <1>5

LEMMA RetireKeeps ==
    ASSUME PlaybookInv, NEW p \in Refreshers, RetireNext(p)
    PROVE  PlaybookInv'
<1> DEFINE at == turn[p].at
           c == turn[p].created
           left == turn[p].left
<1>1. BookIsSound /\ Alone /\ EvidenceFollows /\ BookTypes /\ TurnsAreSound /\ TurnIsSound(p)
    BY DEF PlaybookInv, BookIsSound, TurnsAreSound
<1>2. PICK n \in left :
        /\ fpc[p] = "retire" /\ turn' = [turn EXCEPT ![p].left = @ \ {n}]
        /\ book' = IF Transitions(p, n) THEN [book EXCEPT ![n].live = FALSE, ![n].by = c] ELSE book
        /\ UNCHANGED <<related, edition, fpc, evidence, refreshRuns, meddled>>
    BY DEF RetireNext
<1>3. /\ at \in DOMAIN Curated /\ c \in Editions(at) /\ left \subseteq (LegacyNotes \cup {turn[p].head}) \cap 1..(c - 1)
      /\ Episodes(at) >= 2 /\ (turn[p].head # NoNote => turn[p].head \in Editions(at))
    BY <1>1, <1>2 DEF TurnIsSound
<1>4. /\ book \in Seq(BookNotes) /\ DOMAIN book = 1..Len(book) /\ Len(book) \in Nat /\ c \in 1..Len(book)
      /\ n \in 1..(c - 1) /\ n \in DOMAIN book /\ n # c /\ n < c
    BY <1>1, <1>3 DEF BookTypes, Editions
<1>5. /\ book' \in Seq(BookNotes) /\ Len(book') = Len(book) /\ DOMAIN book' = DOMAIN book
      /\ ~book'[n].live
      /\ book'[n].by = c \/ book'[n] = book[n]
      /\ \A m \in DOMAIN book : /\ m # n => book'[m] = book[m]
                                /\ book'[m].topic = book[m].topic /\ book'[m].version = book[m].version
                                /\ book'[m].root = book[m].root /\ book'[m].episodes = book[m].episodes
    <2>1. CASE Transitions(p, n)
        <3>1. c \in Nat
            BY <1>4
        <3>2. book' = [book EXCEPT ![n].live = FALSE, ![n].by = c]
            BY <1>2, <2>1
        <3> HIDE DEF c
        <3>3. QED
            BY <1>1, <1>4, <3>1, <3>2, Retired
    <2>2. CASE ~Transitions(p, n)
        BY <1>1, <1>2, <1>4, <2>2 DEF Transitions, Live
    <2>3. QED
        BY <2>1, <2>2
<1>6. \A i : Editions(i)' = Editions(i)
    BY <1>5 DEF Editions
<1>7. \A i \in DOMAIN Curated : i # at => n \notin Editions(i) /\ c \notin Editions(i)
    <2>1. \A i \in DOMAIN Curated : PlaybookTopic(i) # "legacy" /\ (PlaybookTopic(i) = PlaybookTopic(at) => i = at)
        BY <1>3, PlaybookAssumption DEF PlaybookTopic
    <2>2. n \in LegacyNotes \/ (n = turn[p].head /\ n # NoNote)
        BY <1>3, <1>4 DEF NoNote
    <2>3. n \in LegacyNotes => book[n].topic = "legacy"
        BY <1>1 DEF BookIsSound, NotesAreOfTopics
    <2>4. QED
        BY <1>3, <2>1, <2>2, <2>3 DEF Editions
<1>8. /\ turn' \in [Refreshers -> Turns] /\ \A q \in Refreshers : q # p => turn'[q] = turn[q]
      /\ turn'[p].at = at /\ turn'[p].head = turn[p].head /\ turn'[p].created = c /\ turn'[p].left = left \ {n}
    <2> DEFINE b == [turn[p] EXCEPT !.left = left \ {n}]
    <2>1. turn \in [Refreshers -> Turns] /\ turn[p] \in Turns
        BY <1>1 DEF BookTypes
    <2>2. b \in Turns /\ b.created = c /\ b.at = at /\ b.head = turn[p].head /\ b.left = left \ {n}
        BY <2>1 DEF Turns
    <2>3. turn' = [turn EXCEPT ![p] = b]
        BY <1>2, <2>1
    <2> HIDE DEF b
    <2>4. turn' \in [Refreshers -> Turns] /\ turn'[p] = b /\ \A q \in Refreshers : q # p => turn'[q] = turn[q]
        BY <2>1, <2>2, <2>3
    <2>5. QED
        BY <2>2, <2>4
<1>9. BookTypes'
    BY <1>1, <1>2, <1>5, <1>8 DEF BookTypes
<1>10. NotesAreOfTopics' /\ RootsExist' /\ SuccessorsLeadOn' /\ RootsAreFirst'
    <2>1. NotesAreOfTopics /\ RootsExist /\ SuccessorsLeadOn /\ RootsAreFirst
        BY <1>1 DEF BookIsSound
    <2>2. NotesAreOfTopics'
        BY <1>5, <1>6, <2>1 DEF NotesAreOfTopics, Editions
    <2>3. RootsExist' /\ RootsAreFirst'
        BY <1>5, <2>1 DEF RootsExist, RootsAreFirst
    <2>4. SuccessorsLeadOn'
        <3>1. book'[n].by > n
            BY <1>4, <1>5, <2>1 DEF SuccessorsLeadOn, Live
        <3>2. QED
            BY <1>5, <2>1, <3>1 DEF SuccessorsLeadOn, Live
    <2>5. QED
        BY <2>2, <2>3, <2>4
<1> HIDE DEF at, c, left
<1>11. TurnsAreSound'
    <2> SUFFICES ASSUME NEW q \in Refreshers PROVE TurnIsSound(q)'
        BY DEF TurnsAreSound
    <2>1. CASE q = p
        BY <2>1, <1>2, <1>3, <1>6, <1>8 DEF TurnIsSound
    <2>2. CASE q # p
        BY <2>2, <1>1, <1>2, <1>6, <1>8 DEF TurnIsSound, TurnsAreSound
    <2>3. QED
        BY <2>1, <2>2
<1>12. \A m \in DOMAIN book : book'[m].live => Live(m) /\ m # n
    BY <1>5 DEF Live
<1>13. ASSUME ~meddled'
       PROVE  /\ ~meddled /\ \A q \in Refreshers : q # p => fpc[q] = "idle"
              /\ \A i \in DOMAIN Curated : i # at => Settled(i)
              /\ InHand(p)
    BY <1>1, <1>2, <1>13 DEF Alone, at
<1>14. ~Idle'
    BY <1>2 DEF Idle
<1>15. ~meddled' => InHand(p)'
    <2> SUFFICES ASSUME ~meddled'
                 PROVE  /\ book'[c].live /\ related'[c] <= book'[c].episodes
                        /\ \A m \in Editions(at) \ {c} : /\ book'[m].version < book'[c].version
                                                         /\ related'[m] = book'[m].episodes
                                                         /\ book'[m].live => m \in left \ {n}
                        /\ \A m \in Curated[at].legacy : book'[m].live => m \in left \ {n}
        BY <1>6, <1>8 DEF InHand, Live
    <2>1. /\ Live(c) /\ related[c] <= book[c].episodes
          /\ \A m \in Editions(at) \ {c} : /\ book[m].version < book[c].version /\ related[m] = book[m].episodes
                                           /\ Live(m) => m \in left
          /\ \A m \in Curated[at].legacy : Live(m) => m \in left
        BY <1>13 DEF InHand, at, c, left
    <2>2. Curated[at].legacy \subseteq DOMAIN book /\ Editions(at) \subseteq DOMAIN book
        BY <1>1, <1>3 DEF BookIsSound, NotesAreOfTopics, LegacyNotes, Editions
    <2>3. QED
        BY <1>2, <1>4, <1>5, <1>12, <2>1, <2>2 DEF Live
<1>16. Alone'
    <2> SUFFICES ASSUME ~meddled'
                 PROVE  /\ \A q, r \in Refreshers : fpc'[q] # "idle" /\ fpc'[r] # "idle" => q = r
                        /\ \A i \in DOMAIN Curated : /\ i # at => Settled(i)'
                                                     /\ Done(i)' => Done(i)
                        /\ \A q \in Refreshers : /\ fpc'[q] # "save"
                                                 /\ fpc'[q] = "retire" => q = p
        <3>1. ~meddled' => \A i \in DOMAIN Curated : Done(i) /\ Episodes(i) >= 2 => Editions(i) # {}
            BY <1>1, <1>13 DEF Alone
        <3>2. fpc'[p] = "retire" /\ turn'[p].at = at
            BY <1>2, <1>8
        <3>3. QED
            BY <1>6, <1>15, <3>1, <3>2 DEF Alone
    <2>1. /\ \A q, r \in Refreshers : fpc'[q] # "idle" /\ fpc'[r] # "idle" => q = r
          /\ \A q \in Refreshers : fpc'[q] # "save" /\ (fpc'[q] = "retire" => q = p)
        BY <1>2, <1>13
    <2>2. ASSUME NEW i \in DOMAIN Curated, i # at PROVE Settled(i)'
        <3>1. Editions(i)' = Editions(i) /\ Settled(i) /\ Editions(i) \subseteq DOMAIN book /\ n \notin Editions(i)
            BY <1>6, <1>7, <1>13, <2>2 DEF Editions
        <3>2. \A m \in Curated[i].legacy : m \in DOMAIN book
            BY <1>1 DEF BookIsSound, NotesAreOfTopics, LegacyNotes
        <3>3. \A m \in Editions(i) : book'[m] = book[m]
            BY <1>5, <3>1
        <3>4. QED
            BY <1>2, <1>12, <3>1, <3>2, <3>3 DEF Settled, SettledAt, Live
    <2>3. ASSUME NEW i \in DOMAIN Curated PROVE Done(i)' => Done(i)
        BY <1>2, <1>8, <1>14 DEF Done, at
    <2>4. QED
        BY <2>1, <2>2, <2>3
<1>17. EvidenceFollows'
    <2>1. ~meddled' => \A q \in Refreshers : fpc'[q] # "page" /\ fpc'[q] # "summary"
        BY <1>2, <1>13
    <2>2. QED
        BY <1>14, <2>1 DEF EvidenceFollows
<1>18. QED
    BY <1>9, <1>10, <1>11, <1>16, <1>17 DEF PlaybookInv, BookIsSound

LEMMA RelateKeeps ==
    ASSUME PlaybookInv, NEW p \in Refreshers, Relate(p)
    PROVE  PlaybookInv'
<1> DEFINE at == turn[p].at
           c == turn[p].created
<1>1. BookIsSound /\ Alone /\ EvidenceFollows /\ BookTypes /\ TurnsAreSound /\ TurnIsSound(p)
    BY DEF PlaybookInv, BookIsSound, TurnsAreSound
<1>2. /\ fpc[p] = "retire" /\ turn[p].left = {} /\ UNCHANGED <<book, edition, evidence, refreshRuns, meddled>>
      /\ \/ related[c] < book[c].episodes /\ related' = [related EXCEPT ![c] = @ + 1] /\ UNCHANGED <<fpc, turn>>
         \/ ~(related[c] < book[c].episodes) /\ Onwards(p) /\ UNCHANGED related
    BY DEF Relate
<1>3. at \in DOMAIN Curated /\ c \in Editions(at)
    BY <1>1, <1>2 DEF TurnIsSound
<1>4. /\ c \in 1..Len(book) /\ related[c] \in Nat /\ book[c].episodes \in Nat /\ Len(book) \in Nat
      /\ book \in Seq(BookNotes) /\ related \in Seq(Nat) /\ Len(related) = Len(book)
    <2>1. c \in 1..Len(book) /\ book \in Seq(BookNotes) /\ related \in Seq(Nat) /\ Len(related) = Len(book)
          /\ Len(book) \in Nat
        BY <1>1, <1>3 DEF Editions, BookTypes
    <2>2. book[c] \in BookNotes
        BY <2>1
    <2>3. related[c] \in Nat
        BY <2>1
    <2>4. book[c].episodes \in Nat
        BY <2>2 DEF BookNotes
    <2>5. QED
        BY <2>1, <2>3, <2>4
<1>5. ~meddled => InHand(p)
    BY <1>1, <1>2 DEF Alone
<1>6. CASE ~(related[c] < book[c].episodes) /\ Onwards(p) /\ UNCHANGED related
    <2>1. ~meddled => SettledAt(at, c)
        <3> SUFFICES ASSUME ~meddled PROVE SettledAt(at, c)
            OBVIOUS
        <3>1. /\ Live(c) /\ related[c] <= book[c].episodes
              /\ \A n \in Editions(at) \ {c} : /\ book[n].version < book[c].version /\ related[n] = book[n].episodes
                                               /\ ~Live(n)
              /\ \A n \in Curated[at].legacy : ~Live(n)
            BY <1>2, <1>5 DEF InHand
        <3>2. related[c] = book[c].episodes
            BY <1>4, <1>6, <3>1
        <3> HIDE DEF at, c
        <3>3. QED
            BY <3>1, <3>2 DEF SettledAt
    <2>2. ~meddled' => Settled(at) /\ (Episodes(at) >= 2 => Editions(at) # {})
        BY <1>2, <1>3, <2>1 DEF Settled
    <2>3. QED
        BY <1>2, <1>6, <2>2, OnwardsKeeps
<1>7. CASE related[c] < book[c].episodes /\ related' = [related EXCEPT ![c] = @ + 1] /\ UNCHANGED <<fpc, turn>>
    <2>1. /\ related' \in Seq(Nat) /\ Len(related') = Len(book) /\ related'[c] = related[c] + 1
          /\ \A n \in DOMAIN book : n # c => related'[n] = related[n]
        <3>1. related[c] + 1 \in Nat /\ c \in 1..Len(related)
            BY <1>4
        <3> DEFINE x == related[c] + 1
        <3>2. related' = [related EXCEPT ![c] = x]
            BY <1>7
        <3> HIDE DEF x
        <3>3. related' \in Seq(Nat) /\ Len(related') = Len(related)
              /\ \A j \in 1..Len(related) : related'[j] = IF j = c THEN x ELSE related[j]
            BY <1>4, <3>1, <3>2, ExceptSeq DEF x
        <3>4. QED
            BY <1>4, <3>1, <3>3 DEF x
    <2>2. BookTypes' /\ TurnsAreSound'
        BY <1>1, <1>2, <1>7, <2>1, TurnRests DEF BookTypes, TurnsAreSound
    <2>3. BookIsSound'
        BY <1>1, <1>2, <2>2, StoreRests DEF BookIsSound
    <2>4. \A i : Editions(i)' = Editions(i) /\ Editions(i) \subseteq DOMAIN book
        BY <1>2 DEF Editions
    <2>5. \A i \in DOMAIN Curated : i # at => c \notin Editions(i)
        BY <1>3, PlaybookAssumption DEF PlaybookTopic, Editions
    <2>6. ~meddled' => InHand(p)'
        <3> SUFFICES ASSUME ~meddled
                     PROVE  /\ related'[c] <= book[c].episodes
                            /\ \A n \in Editions(at) \ {c} : related'[n] = related[n]
            BY <1>2, <1>5, <1>7, <2>4 DEF InHand, Live
        <3>1. QED
            BY <1>4, <1>7, <2>1, <2>4
    <2> HIDE DEF c
    <2>7. Alone'
        <3> SUFFICES ASSUME ~meddled' PROVE Alone'
            BY DEF Alone
        <3>1. ~meddled /\ \A q \in Refreshers : q # p => fpc[q] = "idle"
            BY <1>1, <1>2 DEF Alone
        <3>2. ASSUME NEW i \in DOMAIN Curated, i # at PROVE Settled(i)'
            <4>1. Settled(i)
                BY <1>1, <1>2, <3>1, <3>2 DEF Alone
            <4>2. \A n \in Editions(i) : related'[n] = related[n]
                BY <2>1, <2>4, <2>5, <3>2
            <4>3. QED
                BY <1>2, <2>4, <4>1, <4>2 DEF Settled, SettledAt, Live
        <3>3. \A i \in DOMAIN Curated : Done(i)' => Done(i)
            BY <1>2, <1>7 DEF Done, Idle
        <3>4. \A q, r \in Refreshers : fpc'[q] # "idle" /\ fpc'[r] # "idle" => q = r
            BY <1>7, <3>1
        <3>5. fpc'[p] = "retire" /\ turn'[p].at = at /\ \A q \in Refreshers : q # p => fpc'[q] = "idle"
            BY <1>2, <1>7, <3>1
        <3>6. \A i \in DOMAIN Curated : Done(i) /\ Episodes(i) >= 2 => Editions(i) # {}
            BY <1>1, <3>1 DEF Alone
        <3>7. QED
            BY <2>4, <2>6, <3>2, <3>3, <3>4, <3>5, <3>6 DEF Alone
    <2>8. EvidenceFollows'
        <3>1. ~meddled' => \A q \in Refreshers : fpc'[q] # "page" /\ fpc'[q] # "summary"
            BY <1>1, <1>2, <1>7 DEF Alone
        <3>2. ~Idle'
            BY <1>2, <1>7 DEF Idle
        <3>3. QED
            BY <3>1, <3>2 DEF EvidenceFollows
    <2>9. QED
        BY <2>3, <2>7, <2>8 DEF PlaybookInv
<1>8. QED
    BY <1>2, <1>6, <1>7

LEMMA StopsKeeps ==
    ASSUME PlaybookInv, NEW p \in Refreshers, RefreshStops(p)
    PROVE  PlaybookInv'
<1>1. BookIsSound /\ BookTypes /\ TurnsAreSound
    BY DEF PlaybookInv, BookIsSound
<1>2. /\ fpc' = [fpc EXCEPT ![p] = "idle"] /\ turn' = [turn EXCEPT ![p] = NoTurn] /\ meddled' = TRUE
      /\ UNCHANGED <<book, related, edition, evidence, refreshRuns>>
    BY DEF RefreshStops, RestIs
<1>3. NoTurn \in Turns /\ "idle" \in Stages
    BY DEF NoTurn, Turns, NoNote, Stages
<1>4. BookTypes'
    BY <1>1, <1>2, <1>3 DEF BookTypes
<1>5. fpc'[p] = "idle" /\ \A q \in Refreshers : q # p => fpc'[q] = fpc[q] /\ turn'[q] = turn[q]
    BY <1>1, <1>2 DEF BookTypes
<1>6. TurnsAreSound'
    <2> SUFFICES ASSUME NEW q \in Refreshers PROVE TurnIsSound(q)'
        BY DEF TurnsAreSound
    <2>1. CASE q = p
        BY <2>1, <1>5 DEF TurnIsSound
    <2>2. CASE q # p
        BY <2>2, <1>1, <1>2, <1>5, TurnRests DEF TurnsAreSound
    <2>3. QED
        BY <2>1, <2>2
<1>7. QED
    BY <1>1, <1>2, <1>4, <1>6, StoreRests DEF BookIsSound, PlaybookInv, Alone, EvidenceFollows

\* The three files are written of one bundle, while nothing else changes the store.
LEMMA EvidenceKeeps ==
    ASSUME PlaybookInv, NEW p \in Refreshers, WriteBundle(p) \/ WritePage(p) \/ WriteSummary(p)
    PROVE  PlaybookInv'
<1>1. BookIsSound /\ Alone /\ EvidenceFollows /\ BookTypes /\ TurnsAreSound
    BY DEF PlaybookInv, BookIsSound
<1>2. PICK stage \in {"page", "summary", "idle"} :
        /\ fpc[p] \in Told /\ fpc' = [fpc EXCEPT ![p] = stage]
        /\ UNCHANGED <<book, related, edition, turn, refreshRuns, meddled>>
    BY DEF WriteBundle, WritePage, WriteSummary, RestIs, Told
<1>3. evidence' = [bundle |-> evidence'.bundle, page |-> evidence'.page, summary |-> evidence'.summary]
    BY <1>1 DEF WriteBundle, WritePage, WriteSummary, BookTypes
<1>4. BookTypes'
    BY <1>1, <1>2, <1>3 DEF BookTypes, Stages
<1>5. fpc'[p] = stage /\ \A q \in Refreshers : q # p => fpc'[q] = fpc[q]
    BY <1>1, <1>2 DEF BookTypes
<1>6. TurnsAreSound'
    <2> SUFFICES ASSUME NEW q \in Refreshers PROVE TurnIsSound(q)'
        BY DEF TurnsAreSound
    <2>1. CASE q = p
        BY <2>1, <1>5 DEF TurnIsSound
    <2>2. CASE q # p
        BY <2>2, <1>1, <1>2, <1>5, TurnRests DEF TurnsAreSound
    <2>3. QED
        BY <2>1, <2>2
<1>7. BookIsSound'
    BY <1>1, <1>2, <1>4, <1>6, StoreRests DEF BookIsSound
<1>8. ASSUME ~meddled' PROVE ~meddled /\ \A q \in Refreshers : q # p => fpc[q] = "idle" /\ fpc'[q] = "idle"
    BY <1>2, <1>5, <1>8, NoneInRetire DEF Told
<1>9. Alone'
    <2> SUFFICES ASSUME ~meddled'
                 PROVE  /\ \A q, r \in Refreshers : fpc'[q] # "idle" /\ fpc'[r] # "idle" => q = r
                        /\ \A i \in DOMAIN Curated : Settled(i)' /\ (Episodes(i) >= 2 => Editions(i) # {})
                        /\ \A q \in Refreshers : fpc'[q] # "save" /\ fpc'[q] # "retire"
        BY <1>2 DEF Alone, Editions
    <2>1. /\ \A q, r \in Refreshers : fpc'[q] # "idle" /\ fpc'[r] # "idle" => q = r
          /\ \A q \in Refreshers : fpc'[q] # "save" /\ fpc'[q] # "retire"
        BY <1>2, <1>5, <1>8
    <2>2. ASSUME NEW i \in DOMAIN Curated PROVE Settled(i)' /\ (Episodes(i) >= 2 => Editions(i) # {})
        <3>1. Settled(i)
            BY <1>2, <1>8, NoneInRetire DEF Told
        <3>2. Done(i)
            BY <1>2 DEF Done
        <3>3. QED
            BY <1>1, <1>2, <1>8, <3>1, <3>2, SettledRests DEF Alone
    <2>3. QED
        BY <2>1, <2>2
<1>10. Bundle' = Bundle
    BY <1>2 DEF Bundle, SampledProcedures, Live, SampledFacts, Filled
<1>11. EvidenceFollows'
    <2> SUFFICES ASSUME ~meddled'
                 PROVE  /\ fpc'[p] \in {"page", "summary"} => evidence'.bundle = Bundle
                        /\ fpc'[p] = "summary" => evidence'.page = evidence'.bundle
                        /\ fpc'[p] = "idle" => /\ evidence'.bundle = Bundle /\ evidence'.page = evidence'.bundle
                                               /\ evidence'.summary = evidence'.bundle
        BY <1>8, <1>10 DEF EvidenceFollows, Idle
    <2>1. /\ fpc[p] \in {"page", "summary"} => evidence.bundle = Bundle
          /\ fpc[p] = "summary" => evidence.page = evidence.bundle
        BY <1>1, <1>8 DEF EvidenceFollows
    <2>2. CASE WriteBundle(p)
        <3>1. evidence' = [evidence EXCEPT !.bundle = Bundle] /\ fpc' = [fpc EXCEPT ![p] = "page"]
            BY <2>2 DEF WriteBundle, RestIs
        <3>2. evidence'.bundle = Bundle /\ fpc'[p] = "page"
            BY <1>1, <3>1 DEF BookTypes
        <3>3. QED
            BY <3>2
    <2>3. CASE WritePage(p)
        <3>1. fpc[p] = "page" /\ evidence' = [evidence EXCEPT !.page = evidence.bundle] /\ fpc' = [fpc EXCEPT ![p] = "summary"]
            BY <2>3 DEF WritePage, RestIs
        <3>2. evidence'.bundle = evidence.bundle /\ evidence'.page = evidence.bundle /\ fpc'[p] = "summary"
            BY <1>1, <3>1 DEF BookTypes
        <3>3. QED
            BY <2>1, <3>1, <3>2
    <2>4. CASE WriteSummary(p)
        <3>1. fpc[p] = "summary" /\ evidence' = [evidence EXCEPT !.summary = evidence.bundle] /\ fpc' = [fpc EXCEPT ![p] = "idle"]
            BY <2>4 DEF WriteSummary, RestIs
        <3>2. /\ evidence'.bundle = evidence.bundle /\ evidence'.page = evidence.page
              /\ evidence'.summary = evidence.bundle /\ fpc'[p] = "idle"
            BY <1>1, <3>1 DEF BookTypes
        <3>3. QED
            BY <2>1, <3>1, <3>2
    <2>5. QED
        BY <2>2, <2>3, <2>4
<1>12. QED
    BY <1>7, <1>9, <1>11 DEF PlaybookInv

\* Another binary changes only what the next command will save.
LEMMA InstallKeeps ==
    ASSUME PlaybookInv, UNCHANGED <<book, related, fpc, turn, evidence, refreshRuns, meddled>>, edition' \in Nat
    PROVE  PlaybookInv'
<1>1. BookIsSound /\ Alone /\ EvidenceFollows /\ BookTypes /\ TurnsAreSound
    BY DEF PlaybookInv, BookIsSound
<1>2. BookTypes'
    BY <1>1 DEF BookTypes
<1>3. TurnsAreSound'
    BY <1>1, TurnRests DEF TurnsAreSound
<1>4. \A i \in DOMAIN Curated : Editions(i)' = Editions(i) /\ (Settled(i) => Settled(i)') /\ (Done(i)' => Done(i))
    <2>1. ASSUME NEW i \in DOMAIN Curated PROVE Editions(i)' = Editions(i) /\ (Settled(i) => Settled(i)')
        BY SettledRests DEF Editions
    <2>2. ASSUME NEW i \in DOMAIN Curated PROVE Done(i)' => Done(i)
        BY DEF Done, Idle
    <2>3. QED
        BY <2>1, <2>2
<1>5. \A i : Head1(PlaybookTopic(i))' = Head1(PlaybookTopic(i))
    BY DEF Head1, Heads, Live, Newer
<1>6. \A q \in Refreshers : Head1(PlaybookTopic(turn[q].at))' = Head1(PlaybookTopic(turn[q].at))
    BY <1>5
<1>7. ASSUME NEW q \in Refreshers, InHand(q) PROVE InHand(q)'
    BY <1>7 DEF InHand, Editions, Live
<1>8. Bundle' = Bundle /\ Idle' = Idle
    BY DEF Bundle, SampledProcedures, Live, SampledFacts, Filled, Idle
<1>9. Alone'
    <2> SUFFICES ASSUME ~meddled PROVE Alone'
        BY DEF Alone
    <2>1. \A i \in DOMAIN Curated : /\ (\A q \in Refreshers : fpc[q] = "retire" => turn[q].at # i) => Settled(i)'
                                    /\ Done(i)' /\ Episodes(i) >= 2 => Editions(i)' # {}
        BY <1>1, <1>4 DEF Alone
    <2>2. \A q \in Refreshers : /\ fpc[q] = "save" => turn[q].head = Head1(PlaybookTopic(turn[q].at))'
                                /\ fpc[q] = "retire" => InHand(q)'
        BY <1>1, <1>6, <1>7 DEF Alone
    <2>3. QED
        BY <1>1, <2>1, <2>2 DEF Alone
<1>10. EvidenceFollows'
    BY <1>1, <1>8 DEF EvidenceFollows
<1>11. QED
    BY <1>1, <1>2, <1>3, <1>9, <1>10, StoreRests DEF BookIsSound, PlaybookInv

LEMMA PlaybookInvHolds == PlaybookSpec => []PlaybookInv
<1>1. PlaybookInit => PlaybookInv
    <2> SUFFICES ASSUME PlaybookInit PROVE PlaybookInv
        OBVIOUS
    <2> DEFINE k == Cardinality(LegacyNotes)
    <2>1. k \in Nat /\ LegacyNotes = 1..k
        BY LegacyAssumption, FS_CardinalityType
    <2> HIDE DEF k
    <2>2. Legacy \in BookNotes
        BY DEF Legacy, BookNotes, Topics, NoNote
    <2>3. book = [n \in 1..k |-> Legacy] /\ related = [n \in 1..k |-> 0]
        BY <2>1 DEF PlaybookInit
    <2>4. /\ book \in Seq(BookNotes) /\ related \in Seq(Nat) /\ Len(related) = Len(book)
          /\ DOMAIN book = LegacyNotes /\ \A n \in DOMAIN book : book[n] = Legacy
        <3>1. book \in Seq(BookNotes) /\ Len(book) = k /\ DOMAIN book = 1..k /\ \A n \in 1..k : book[n] = Legacy
            BY <2>1, <2>2, <2>3
        <3>2. related \in Seq(Nat) /\ Len(related) = k
            BY <2>1, <2>3
        <3>3. QED
            BY <2>1, <3>1, <3>2
    <2>5. BookTypes
        <3>1. NoTurn \in Turns /\ "idle" \in Stages
            BY DEF NoTurn, Turns, NoNote, Stages
        <3>2. QED
            BY <2>4, <3>1 DEF PlaybookInit, BookTypes
    <2>6. \A i \in DOMAIN Curated : Editions(i) = {}
        BY <2>4, PlaybookAssumption DEF Editions, Legacy, PlaybookTopic
    <2>7. BookIsSound
        BY <2>4, <2>5, <2>6 DEF BookIsSound, NotesAreOfTopics, RootsExist, SuccessorsLeadOn, RootsAreFirst, Live, Legacy,
                                TurnsAreSound, TurnIsSound, PlaybookInit
    <2>8. \A p \in Refreshers : fpc[p] = "idle"
        BY DEF PlaybookInit
    <2>9. Alone /\ EvidenceFollows
        BY <2>6, <2>8 DEF Alone, Settled, Done, Told, EvidenceFollows, PlaybookInit
    <2>10. QED
        BY <2>7, <2>9 DEF PlaybookInv
<1>2. PlaybookInv /\ [PlaybookNext]_playbookVars => PlaybookInv'
    <2> SUFFICES ASSUME PlaybookInv, [PlaybookNext]_playbookVars PROVE PlaybookInv'
        OBVIOUS
    <2>1. edition \in Nat /\ \A e \in 1..MaxEditions : e \in Nat
        BY PlaybookAssumption DEF PlaybookInv, BookIsSound, BookTypes
    <2>2. CASE UNCHANGED playbookVars \/ \E e \in 1..MaxEditions : Install(e)
        BY <2>1, <2>2, InstallKeeps DEF playbookVars, Install
    <2>3. CASE \E p \in Refreshers : \/ RefreshStarts(p) \/ LoadPlaybook(p) \/ SavePlaybook(p) \/ UpToDate(p)
                                     \/ CreateFails(p) \/ RetireNext(p) \/ Relate(p) \/ RefreshStops(p)
                                     \/ WriteBundle(p) \/ WritePage(p) \/ WriteSummary(p)
        BY <2>3, StartsKeeps, LoadKeeps, SaveKeeps, UpToDateKeeps, RetireKeeps, RelateKeeps, StopsKeeps, EvidenceKeeps
    <2>4. QED
        BY <2>2, <2>3 DEF PlaybookNext
<1>3. QED
    BY <1>1, <1>2, PTL DEF PlaybookSpec

\* Where fewer procedures are sampled than a sample holds, all are.
LEMMA AllAreSampled ==
    ASSUME BookTypes, Cardinality(SampledProcedures) < SampleSize
    PROVE  \A n \in DOMAIN book : Live(n) /\ book[n].episodes > 0 => n \in SampledProcedures
<1> DEFINE k == Len(book)
           procedures == {n \in DOMAIN book : Live(n) /\ book[n].episodes > 0}
           missed == procedures \ SampledProcedures
           score == [m \in 1..k |-> 0]
<1>0. k \in Nat
    BY DEF BookTypes
<1>1. k \in Nat /\ DOMAIN book = 1..k
    BY DEF BookTypes
<1> SUFFICES ASSUME missed # {} PROVE FALSE
    OBVIOUS
<1>2. missed # {}
    OBVIOUS
<1>3. missed \in SUBSET (1..k) /\ score \in [1..k -> Nat] /\ \A m \in 1..k : score[m] = 0
    BY <1>1
<1>4. PICK n \in missed : \A m \in missed : n >= m
    <2> HIDE DEF missed, score, k
    <2>0. missed \in SUBSET (1..k) /\ score \in [1..k -> Nat]
        BY <1>3
    <2>1. \E n \in missed : \A m \in missed : score[n] > score[m] \/ (score[n] = score[m] /\ n >= m)
        BY <1>0, <1>2, <2>0, BestExists
    <2>2. QED
        BY <1>1, <1>3, <2>1
<1> DEFINE above == {m \in procedures : m > n}
<1>5. above \subseteq SampledProcedures
    BY <1>1, <1>4
<1>6. SampledProcedures \subseteq 1..k /\ SampleSize \in Nat
    BY <1>1, PlaybookAssumption DEF SampledProcedures
<1>7. IsFiniteSet(SampledProcedures)
    <2>1. IsFiniteSet(1..k)
        <3> HIDE DEF k
        <3>1. QED
            BY <1>0, FS_Interval
    <2>2. QED
        BY <1>6, <2>1, FS_Subset
<1>8. Cardinality(above) <= Cardinality(SampledProcedures)
    BY <1>5, <1>7, FS_Subset
<1>9. Cardinality(above) \in Nat /\ Cardinality(SampledProcedures) \in Nat
    BY <1>5, <1>7, FS_Subset, FS_CardinalityType
<1>10. Cardinality(above) < SampleSize
    BY <1>6, <1>8, <1>9
<1>11. n \in SampledProcedures
    BY <1>4, <1>10 DEF SampledProcedures
<1>12. QED
    BY <1>4, <1>11

\* However commands cross, fail and die, and for every list of playbooks: a retired
\* note names a later one, and a lineage keeps its first note as its root. Commands that
\* run alone and to their end leave one head per playbook, the newest, with all its
\* relations and none of the notes it stands for, and three files that tell of it.
THEOREM LineagesAreSound == PlaybookSpec => []PlaybooksAreSound
<1>1. PlaybookInv => PlaybooksAreSound
    <2> SUFFICES ASSUME PlaybookInv PROVE PlaybooksAreSound
        OBVIOUS
    <2>1. BookIsSound /\ Alone /\ EvidenceFollows /\ BookTypes
        BY DEF PlaybookInv, BookIsSound
    <2>2. PlaybookTypeOK
        BY <2>1 DEF BookTypes, PlaybookTypeOK, Stages
    <2>3. SuccessorsLeadOn /\ RootsAreFirst
        BY <2>1 DEF BookIsSound
    <2>4. ASSUME Idle, ~meddled, refreshRuns > 0, NEW i \in DOMAIN Curated, Episodes(i) >= 2
          PROVE  \E h \in Editions(i) : SettledAt(i, h) /\ Heads(PlaybookTopic(i)) = {h} /\ Head1(PlaybookTopic(i)) = h
        <3>1. Settled(i) /\ Editions(i) # {}
            BY <2>1, <2>4 DEF Alone, Done, Idle
        <3>2. QED
            BY <3>1, SettledHasHead DEF Settled
    <2>5. OneHeadEach
        <3> SUFFICES ASSUME Idle, ~meddled, refreshRuns > 0, NEW i \in DOMAIN Curated, Episodes(i) >= 2
                     PROVE  /\ Cardinality(Heads(PlaybookTopic(i))) = 1
                            /\ \A n \in Editions(i) :
                                  /\ n # Head1(PlaybookTopic(i)) => book[n].version < book[Head1(PlaybookTopic(i))].version
                                  /\ related[n] = book[n].episodes
                            /\ \A n \in Curated[i].legacy : ~Live(n)
            BY DEF OneHeadEach, Episodes, Editions
        <3>1. PICK h \in Editions(i) : SettledAt(i, h) /\ Heads(PlaybookTopic(i)) = {h} /\ Head1(PlaybookTopic(i)) = h
            BY <2>4
        <3>2. Cardinality({h}) = 1
            BY FS_Singleton
        <3>3. QED
            BY <3>1, <3>2 DEF SettledAt
    <2>6. EvidenceIsOfOneStore
        <3> SUFFICES ASSUME Idle, ~meddled, refreshRuns > 0
                     PROVE  /\ evidence.page = evidence.bundle /\ evidence.summary = evidence.bundle
                            /\ evidence.bundle = Bundle
                            /\ \A i \in DOMAIN Curated :
                                  Curated[i].episodes >= 3 /\ Cardinality(SampledProcedures) < SampleSize =>
                                      Heads(PlaybookTopic(i)) \subseteq evidence.summary.supported
            BY DEF EvidenceIsOfOneStore
        <3>1. /\ evidence.page = evidence.bundle /\ evidence.summary = evidence.bundle
              /\ evidence.bundle = Bundle
            BY <2>1 DEF EvidenceFollows
        <3>2. ASSUME NEW i \in DOMAIN Curated, Curated[i].episodes >= 3, Cardinality(SampledProcedures) < SampleSize,
                     NEW n \in Heads(PlaybookTopic(i))
              PROVE  n \in Bundle.supported
            <4>1. n \in Editions(i) /\ n \in DOMAIN book /\ Live(n)
                BY <3>2 DEF Heads, Editions
            <4>2. book[n].episodes = Curated[i].episodes /\ Curated[i].episodes \in Nat
                BY <2>1, <4>1, PlaybookAssumption DEF BookIsSound, NotesAreOfTopics, Episodes
            <4>3. n \in SampledProcedures
                BY <2>1, <3>2, <4>1, <4>2, AllAreSampled
            <4>4. QED
                BY <3>2, <4>2, <4>3 DEF Bundle
        <3>3. QED
            BY <3>1, <3>2
    <2>7. QED
        BY <2>2, <2>3, <2>5, <2>6 DEF PlaybooksAreSound
<1>2. QED
    BY <1>1, PlaybookInvHolds, PTL

----------------------------------------------------------------------------
\* Handover. What a call has of the lists it read.

\* What a call has, whatever is written since: a row keeps its project, kind, task and
\* status; a task that was open all the time was among the open ones when they were read.
Opened == (OpenTasks \cup {"none"}) \X (Statuses \cup {"none"})
Calls ==
    [mode : Modes \cup {"none"}, next : Nat \ {0}, got : Seq(SUBSET Nat), quiet : BOOLEAN, still : SUBSET Opened]

HandoverTypes ==
    /\ table \in Seq(TableRows) /\ (\A i \in DOMAIN table : table[i].kind = "task" => table[i].status \in Statuses)
    /\ call \in Calls /\ call.next = Len(call.got) + 1 /\ (call.mode = "none" => call = NoCall)
    /\ call.mode \in Modes => Len(call.got) <= Len(ListsOf)
    /\ others \in Nat /\ asks \in Nat

Holds(list, S) ==
    /\ S \subseteq DOMAIN table /\ \A i \in S : table[i].project = Home
    /\ list = "open" => /\ \A i \in S : table[i].kind = "task" /\ table[i].status \in Unfinished
                        /\ Cardinality(S) = OpenLimit \/ call.still \subseteq Tasks(S)
    /\ list = "recent" => \A i \in S : ~Hidden(i)
    /\ list \in Unfinished => \A t \in call.still : t[2] = list => t \in Tasks(S)
    /\ call.quiet => S = Select(list)

HandoverInv ==
    /\ HandoverTypes /\ call.still \subseteq Tasks(OpenRows)
    /\ \A k \in DOMAIN call.got : Holds(ListsOf[k], call.got[k])

----------------------------------------------------------------------------

\* Sets of places have a first and a last one.
LEMMA Extremes ==
    ASSUME NEW m \in Nat, NEW S \in SUBSET (1..m), S # {}
    PROVE  (\E x \in S : \A y \in S : x >= y) /\ (\E x \in S : \A y \in S : x <= y)
<1>1. \E x \in S : \A y \in S : x >= y
    <2> DEFINE score == [i \in 1..m |-> 0]
    <2>1. score \in [1..m -> Nat]
        OBVIOUS
    <2>2. \A i \in 1..m : score[i] = 0
        OBVIOUS
    <2> HIDE DEF score
    <2>3. \E x \in S : \A y \in S : score[x] > score[y] \/ (score[x] = score[y] /\ x >= y)
        BY <2>1, BestExists
    <2>4. QED
        BY <2>2, <2>3
<1>2. \E x \in S : \A y \in S : x <= y
    <2> DEFINE score == [i \in 1..m |-> m - i]
    <2>1. score \in [1..m -> Nat]
        OBVIOUS
    <2>2. \A i \in 1..m : score[i] = m - i
        OBVIOUS
    <2> HIDE DEF score
    <2>3. \E x \in S : \A y \in S : score[x] > score[y] \/ (score[x] = score[y] /\ x >= y)
        BY <2>1, BestExists
    <2>4. QED
        BY <2>2, <2>3
<1>3. QED
    BY <1>1, <1>2

\* The n newest of a set are n, unless they are all of it; and with one of them all
\* that are newer.
LEMMA LatestOfPlaces ==
    ASSUME NEW m \in Nat, NEW S \in SUBSET (1..m), NEW n \in Nat
    PROVE  /\ Cardinality(Latest(n, S)) = n \/ Latest(n, S) = S
           /\ \A i \in Latest(n, S), j \in S : j > i => j \in Latest(n, S)
<1> DEFINE Above(i) == {j \in S : j > i}
           L == Latest(n, S)
<1>1. ASSUME NEW i PROVE i \in L <=> i \in S /\ Cardinality(Above(i)) < n
    <2>1. i \in Latest(n, S) <=> i \in S /\ Cardinality({j \in S : j > i}) < n
        BY DEF Latest, TopOf
    <2>2. QED
        BY <2>1
<1>2. IsFiniteSet(S) /\ L \subseteq S
    <2>1. IsFiniteSet(1..m)
        BY FS_Interval
    <2>2. QED
        BY <1>1, <2>1, FS_Subset
<1>3. \A i \in S : IsFiniteSet(Above(i)) /\ Cardinality(Above(i)) \in Nat
    <2> SUFFICES ASSUME NEW i \in S PROVE IsFiniteSet(Above(i)) /\ Cardinality(Above(i)) \in Nat
        OBVIOUS
    <2>1. Above(i) \subseteq S
        OBVIOUS
    <2> HIDE DEF Above
    <2>2. QED
        BY <1>2, <2>1, FS_Subset, FS_CardinalityType
<1>4. ASSUME NEW i \in L, NEW j \in S, j > i PROVE j \in L
    <2>1. i \in S /\ Cardinality(Above(i)) < n
        BY <1>1
    <2>2. Above(j) \subseteq Above(i)
        <3>1. i \in 1..m /\ \A k \in S : k \in 1..m
            BY <2>1
        <3>2. \A k \in S : k > j => k > i
            BY <1>4, <3>1
        <3>3. QED
            BY <3>2
    <2> HIDE DEF Above, L
    <2>3. Cardinality(Above(j)) <= Cardinality(Above(i))
        BY <1>3, <2>1, <2>2, FS_Subset
    <2>4. QED
        BY <1>1, <1>3, <1>4, <2>1, <2>3
<1>5. ASSUME L # S PROVE Cardinality(L) = n
    <2>1. S \ L \in SUBSET (1..m) /\ S \ L # {}
        BY <1>2, <1>5
    <2>2. PICK x \in S \ L : \A y \in S \ L : x >= y
        <3> DEFINE M == S \ L
        <3>1. M \in SUBSET (1..m) /\ M # {}
            BY <2>1
        <3> HIDE DEF M
        <3>2. \E x \in M : \A y \in M : x >= y
            BY <3>1, Extremes
        <3>3. QED
            BY <3>2 DEF M
    <2>3. Above(x) \subseteq L
        <3>1. \A y \in S : y \in 1..m
            OBVIOUS
        <3>2. \A y \in S : y > x => ~(x >= y)
            BY <3>1
        <3> HIDE DEF L
        <3>3. QED
            BY <2>2, <3>2
    <2> HIDE DEF L
    <2>4. IsFiniteSet(L) /\ Cardinality(L) \in Nat
        BY <1>2, FS_Subset, FS_CardinalityType
    <2>5. Cardinality(Above(x)) <= Cardinality(L) /\ Cardinality(Above(x)) \in Nat /\ ~(Cardinality(Above(x)) < n)
        <3>1. x \in S /\ x \notin L
            OBVIOUS
        <3> HIDE DEF Above
        <3>2. Cardinality(Above(x)) <= Cardinality(L)
            BY <2>3, <2>4, FS_Subset
        <3>3. QED
            BY <1>1, <1>3, <3>1, <3>2
    <2>6. Cardinality(L) <= n
        <3>1. CASE L = {}
            BY <3>1, FS_EmptySet
        <3>2. CASE L # {}
            <4>1. L \in SUBSET (1..m)
                BY <1>2
            <4>2. PICK y \in L : \A z \in L : y <= z
                BY <3>2, <4>1, Extremes
            <4>3. L \subseteq Above(y) \cup {y}
                BY <1>2, <4>1, <4>2
            <4>4. y \in S /\ Cardinality(Above(y)) < n
                BY <1>1, <1>2
            <4>5. y \notin Above(y)
                BY <4>1, <4>2
            <4> HIDE DEF Above
            <4>6. IsFiniteSet(Above(y) \cup {y}) /\ Cardinality(Above(y) \cup {y}) = Cardinality(Above(y)) + 1
                BY <1>3, <4>4, <4>5, FS_AddElement
            <4>7. Cardinality(L) <= Cardinality(Above(y) \cup {y})
                BY <4>3, <4>6, FS_Subset
            <4>8. QED
                BY <1>3, <2>4, <4>4, <4>6, <4>7
        <3>3. QED
            BY <3>1, <3>2
    <2>7. QED
        BY <2>4, <2>5, <2>6
<1>6. QED
    BY <1>4, <1>5

\* Every list is of rows of the project.
LEMMA ListsAreOfHome ==
    ASSUME NEW list
    PROVE  Select(list) \subseteq {i \in DOMAIN table : table[i].project = Home}
<1> DEFINE H == {i \in DOMAIN table : table[i].project = Home}
<1>1. \A n, S : Latest(n, S) \subseteq S /\ Oldest(n, S) \subseteq S /\ Breakpoint(S) \subseteq S
    BY DEF Latest, Oldest, Breakpoint, TopOf
<1>2. \A kinds : Here(kinds) \subseteq H /\ Alive(kinds) \subseteq H
    BY DEF Here, Alive
<1>3. OpenRows \subseteq H
    BY <1>2 DEF OpenRows
<1>4. \A kinds, told : ContextNotes(kinds, told) \subseteq H
    <2> SUFFICES ASSUME NEW kinds, NEW told PROVE ContextNotes(kinds, told) \subseteq Alive(kinds)
        BY <1>2
    <2>1. QED
        BY DEF ContextNotes, TopOf
<1>5. RecentMemories \subseteq H
    <2> DEFINE A == Alive(NoteKinds)
               B == {i \in Latest(3 * Limit, A) : ~Hidden(i)}
    <2>1. A \subseteq H /\ B \subseteq A /\ RecentMemories = Latest(Limit, B)
        BY <1>1, <1>2 DEF RecentMemories
    <2> HIDE DEF A, B
    <2>2. QED
        BY <1>1, <2>1
<1>6. FailedMemories \subseteq H
    <2> DEFINE A == Here(NoteKinds)
               B == {i \in Latest(3 * Limit, A) : Failed(i)}
    <2>1. A \subseteq H /\ B \subseteq A /\ FailedMemories = Latest(Limit, B)
        BY <1>1, <1>2 DEF FailedMemories
    <2> HIDE DEF A, B
    <2>2. QED
        BY <1>1, <2>1
<1>7. NeedsReview \subseteq H
    <2> DEFINE B == {i \in Alive(NoteKinds) : table[i].due}
    <2>1. B \subseteq H /\ NeedsReview = Oldest(Limit, B)
        BY <1>2 DEF NeedsReview
    <2> HIDE DEF B
    <2>2. QED
        BY <1>1, <2>1
<1>8. Workstreams \subseteq H
    <2>1. Workstreams \subseteq Here(NoteKinds)
        BY DEF Workstreams
    <2>2. QED
        BY <1>2, <2>1
<1>9. Promoted \subseteq H
    <2> DEFINE B == {i \in Here({"dream"}) : table[i].near}
    <2>1. B \subseteq H /\ Promoted = Latest(Limit, B)
        BY <1>2 DEF Promoted
    <2> HIDE DEF B
    <2>2. QED
        BY <1>1, <2>1
<1>10. Sessions \subseteq H /\ (\A kind : NearNotes(kind) \subseteq H) /\ \A status : OfStatus(status) \subseteq H
    BY <1>2, <1>3 DEF Sessions, NearNotes, OfStatus
<1>11. Decisions \subseteq H /\ Corrections \subseteq H /\ Suggested \subseteq H
    BY <1>1, <1>2 DEF Decisions, Corrections, Suggested
<1> HIDE DEF H
<1>12. /\ Latest(OpenLimit, OpenRows) \subseteq H
       /\ Breakpoint(Latest(5 * Limit, OpenRows)) \subseteq H
    BY <1>1, <1>3
<1>13. Select(list) \subseteq H
    BY <1>2, <1>4, <1>5, <1>6, <1>7, <1>8, <1>9, <1>10, <1>11, <1>12 DEF Select
<1>14. QED
    BY <1>13 DEF H

LEMMA SelectsAre ==
    /\ Select("open") = Latest(OpenLimit, OpenRows) /\ Select("recent") = RecentMemories
    /\ Select("failed") = FailedMemories
    /\ Select("entities") = ContextNotes({"identity", "fact"}, {"identity", "fact"})
    /\ Select("procedures") = ContextNotes({"rule"}, {"rule"})
    /\ Select("blocked") = OfStatus("blocked") /\ Select("in_progress") = OfStatus("in_progress")
    /\ Select("facts_near") = NearNotes("fact") /\ Select("decisions") = Decisions /\ Select("suggested") = Suggested
    /\ Select("resume") = Breakpoint(Latest(5 * Limit, OpenRows))
BY DEF Select, Unfinished

\* What a list has when it is read.
LEMMA SelectHolds ==
    ASSUME HandoverTypes, call.still \subseteq Tasks(OpenRows), NEW list
    PROVE  Holds(list, Select(list))
<1>1. /\ Select(list) \subseteq DOMAIN table /\ \A i \in Select(list) : table[i].project = Home
    BY ListsAreOfHome
<1>2. Len(table) \in Nat /\ DOMAIN table = 1..Len(table) /\ OpenLimit \in Nat /\ Limit \in Nat
    BY HandoverAssumption DEF HandoverTypes
<1>3. OpenRows \in SUBSET (1..Len(table)) /\ \A i \in OpenRows : table[i].kind = "task" /\ table[i].status \in Unfinished
    BY <1>2 DEF OpenRows, Here
<1>4. ASSUME list = "open"
      PROVE  /\ \A i \in Select(list) : table[i].kind = "task" /\ table[i].status \in Unfinished
             /\ Cardinality(Select(list)) = OpenLimit \/ call.still \subseteq Tasks(Select(list))
    <2> DEFINE O == OpenRows
    <2>1. Select(list) = Latest(OpenLimit, O)
        BY <1>4, SelectsAre
    <2>2. Latest(OpenLimit, O) \subseteq O
        BY DEF Latest, TopOf
    <2>3. O \in SUBSET (1..Len(table))
        BY <1>3
    <2> HIDE DEF O
    <2>4. Cardinality(Latest(OpenLimit, O)) = OpenLimit \/ Latest(OpenLimit, O) = O
        BY <1>2, <2>3, LatestOfPlaces
    <2>5. QED
        BY <1>3, <2>1, <2>2, <2>4 DEF O
<1>5. ASSUME list = "recent", NEW i \in Select(list) PROVE ~Hidden(i)
    <2> DEFINE B == {j \in Latest(3 * Limit, Alive(NoteKinds)) : ~Hidden(j)}
    <2>1. i \in Latest(Limit, B)
        BY <1>5, SelectsAre DEF RecentMemories
    <2>2. Latest(Limit, B) \subseteq B
        <3> HIDE DEF B
        <3>1. QED
            BY DEF Latest, TopOf
    <2>3. QED
        BY <2>1, <2>2
<1>6. ASSUME list \in Unfinished, NEW t \in call.still, t[2] = list PROVE t \in Tasks(Select(list))
    <2>1. PICK i \in OpenRows : t = <<table[i].task, table[i].status>>
        BY <1>6 DEF Tasks
    <2>2. Select(list) = OfStatus(list)
        BY <1>6, SelectsAre DEF Unfinished
    <2>3. i \in OfStatus(list)
        BY <1>6, <2>1 DEF OfStatus
    <2>4. QED
        BY <2>1, <2>2, <2>3 DEF Tasks
<1>7. QED
    BY <1>1, <1>4, <1>5, <1>6 DEF Holds

\* The lists of a mode, and what its calls may have of them.
LEMMA ListsOfModes ==
    \A mode \in Modes \cup {"none"} : Len(SelectsOf(mode)) \in Nat /\ DOMAIN SelectsOf(mode) = 1..Len(SelectsOf(mode))
<1> SUFFICES ASSUME NEW mode
             PROVE  Len(SelectsOf(mode)) \in Nat /\ DOMAIN SelectsOf(mode) = 1..Len(SelectsOf(mode))
    OBVIOUS
<1>1. CASE mode = "wake"
    <2>1. SelectsOf(mode) = <<"open", "recent", "streams", "dreams", "sessions">>
        BY <1>1 DEF SelectsOf
    <2>2. QED
        BY <2>1
<1>2. CASE mode = "full"
    <2>1. SelectsOf(mode) = <<"open", "entities", "events", "procedures", "recent", "review", "failed", "streams",
                              "dreams", "sessions">>
        BY <1>2 DEF SelectsOf
    <2>2. QED
        BY <2>1
<1>3. CASE mode = "packet"
    <2>1. SelectsOf(mode) = <<"facts_near", "tasks_near", "rules_near", "identity_near", "identity", "decisions", "blocked",
                              "in_progress", "corrections", "suggested">>
        BY <1>3 DEF SelectsOf
    <2>2. Len(SelectsOf(mode)) = 10
        BY <2>1
    <2>3. DOMAIN SelectsOf(mode) = 1..10
        BY <2>1
    <2>4. QED
        BY <2>2, <2>3
<1>4. CASE mode \notin {"wake", "full", "packet"}
    <2>1. SelectsOf(mode) = <<"resume">>
        BY <1>4 DEF SelectsOf
    <2>2. QED
        BY <2>1
<1>5. QED
    BY <1>1, <1>2, <1>3, <1>4

\* The tasks of open rows are pairs of names.
LEMMA TasksAreNames ==
    ASSUME HandoverTypes
    PROVE  Tasks(OpenRows) \in SUBSET Opened
<1>1. \A i \in OpenRows : table[i] \in TableRows
    BY DEF HandoverTypes, OpenRows, Here
<1>2. \A i \in OpenRows : table[i].task \in OpenTasks \cup {"none"} /\ table[i].status \in Statuses \cup {"none"}
    BY <1>1 DEF TableRows
<1>3. QED
    BY <1>2 DEF Tasks, Opened

LEMMA StartsHold ==
    ASSUME HandoverInv, NEW mode \in Modes, CallStarts(mode)
    PROVE  HandoverInv'
<1>1. /\ call' = [mode |-> mode, next |-> 1, got |-> <<>>, quiet |-> TRUE, still |-> Tasks(OpenRows)]
      /\ table' = table /\ others' = others /\ asks' = asks + 1
    BY DEF CallStarts, NoCall
<1>2. Tasks(OpenRows) \in SUBSET Opened
    BY TasksAreNames DEF HandoverInv
<1>3. call' \in Calls
    BY <1>1, <1>2 DEF Calls
<1>4. call'.mode = mode /\ call'.got = <<>> /\ call'.next = 1 /\ call'.still = Tasks(OpenRows) /\ mode # "none"
    BY <1>1 DEF Modes
<1>5. Len(SelectsOf(call'.mode)) \in Nat
    BY <1>4, ListsOfModes
<1>6. HandoverTypes'
    BY <1>1, <1>3, <1>4, <1>5 DEF HandoverInv, HandoverTypes, ListsOf
<1>7. OpenRows' = OpenRows
    BY <1>1 DEF OpenRows, Here
<1>8. Tasks(OpenRows)' = Tasks(OpenRows)
    BY <1>1, <1>7 DEF Tasks
<1>9. QED
    BY <1>4, <1>6, <1>8 DEF HandoverInv

\* What is selected depends on the table alone.
LEMMA SelectsStay ==
    ASSUME table' = table
    PROVE  /\ OpenRows' = OpenRows /\ (\A l : Select(l)' = Select(l)) /\ (\A i : Hidden(i)' <=> Hidden(i))
           /\ \A S : Tasks(S)' = Tasks(S)
<1>1. /\ \A kinds : Here(kinds)' = Here(kinds) /\ Alive(kinds)' = Alive(kinds)
      /\ \A i : (Hidden(i)' <=> Hidden(i)) /\ (Failed(i)' <=> Failed(i))
      /\ OpenRows' = OpenRows /\ \A S : Tasks(S)' = Tasks(S)
    BY DEF Here, Alive, Hidden, Failed, OpenRows, Tasks
<1>2. \A kinds, told : ContextNotes(kinds, told)' = ContextNotes(kinds, told)
    <2> SUFFICES ASSUME NEW kinds, NEW told PROVE ContextNotes(kinds, told)' = ContextNotes(kinds, told)
        OBVIOUS
    <2> DEFINE First(i, j) == \/ table[i].kind = "identity" /\ table[j].kind # "identity"
                              \/ (table[i].kind = "identity" <=> table[j].kind = "identity") /\ i > j
               A == TopOf(3 * Limit, Alive(kinds), First)
               B == {i \in A : table[i].kind \in told /\ ~Failed(i)}
    <2>1. ContextNotes(kinds, told) = TopOf(Limit, B, First)
        BY DEF ContextNotes
    <2>2. ContextNotes(kinds, told)' = TopOf(Limit, B, First)'
        BY DEF ContextNotes
    <2>3. A' = A
        BY <1>1 DEF TopOf
    <2>4. B' = B
        BY <1>1, <2>3
    <2>5. TopOf(Limit, B, First)' = TopOf(Limit, B, First)
        BY <2>4 DEF TopOf
    <2>6. QED
        BY <2>1, <2>2, <2>5
<1>3. RecentMemories' = RecentMemories
    BY <1>1 DEF RecentMemories, Latest, TopOf
<1>4. FailedMemories' = FailedMemories
    BY <1>1 DEF FailedMemories, Latest, TopOf
<1>5. NeedsReview' = NeedsReview
    BY <1>1 DEF NeedsReview, Oldest, TopOf
<1>6. Workstreams' = Workstreams
    BY <1>1 DEF Workstreams
<1>7. Promoted' = Promoted /\ Sessions' = Sessions /\ \A kind : NearNotes(kind)' = NearNotes(kind)
    BY <1>1 DEF Promoted, Sessions, NearNotes, Latest, TopOf
<1>8. \A status : OfStatus(status)' = OfStatus(status)
    BY <1>1 DEF OfStatus
<1>9. Decisions' = Decisions /\ Corrections' = Corrections /\ Suggested' = Suggested
    BY <1>1 DEF Decisions, Corrections, Suggested, Latest, TopOf
<1>10. \A S : Breakpoint(S)' = Breakpoint(S)
    BY <1>1 DEF Breakpoint, TopOf, ResumeOrder, Ranked
<1>11. \A l : Select(l)' = Select(l)
    <2> SUFFICES ASSUME NEW l PROVE Select(l)' = Select(l)
        OBVIOUS
    <2>1. Latest(OpenLimit, OpenRows)' = Latest(OpenLimit, OpenRows)
        BY <1>1 DEF Latest, TopOf
    <2>2. Latest(5 * Limit, OpenRows)' = Latest(5 * Limit, OpenRows)
        BY <1>1 DEF Latest, TopOf
    <2>3. Breakpoint(Latest(5 * Limit, OpenRows))' = Breakpoint(Latest(5 * Limit, OpenRows))
        BY <1>1 DEF Breakpoint, TopOf, ResumeOrder, Ranked, Latest
    <2>4. QED
        BY <1>1, <1>2, <1>3, <1>4, <1>5, <1>6, <1>7, <1>8, <1>9, <2>1, <2>3 DEF Select
<1>12. QED
    BY <1>1, <1>11

\* What was read stays what it was when a call reads on.
LEMMA ReadsHold ==
    ASSUME HandoverInv, CallReads
    PROVE  HandoverInv'
<1> DEFINE list == ListsOf[call.next]
           g == Append(call.got, Select(list))
<1>1. call \in Calls /\ call # NoCall /\ call.next <= Len(ListsOf) /\ table' = table /\ others' = others /\ asks' = asks
    BY DEF CallReads, HandoverInv, HandoverTypes
<1>2. call' = [call EXCEPT !.next = call.next + 1, !.got = g]
    BY DEF CallReads
<1>3. call.mode \in Modes /\ call.next = Len(call.got) + 1 /\ call.got \in Seq(SUBSET Nat)
    BY <1>1 DEF Calls, HandoverInv, HandoverTypes
<1>4. HandoverTypes /\ call.still \subseteq Tasks(OpenRows)
    BY DEF HandoverInv
<1>5. Holds(list, Select(list))
    BY <1>4, SelectHolds
<1>6. Select(list) \in SUBSET Nat
    BY <1>4, <1>5 DEF Holds, HandoverTypes
<1> HIDE DEF list
<1>7. /\ g \in Seq(SUBSET Nat) /\ Len(g) = Len(call.got) + 1 /\ g[call.next] = Select(list)
      /\ \A k \in DOMAIN g : (k \in DOMAIN call.got /\ g[k] = call.got[k]) \/ k = call.next
    BY <1>3, <1>6
<1> HIDE DEF g
<1>8. /\ call' \in Calls /\ call'.mode = call.mode /\ call'.next = call.next + 1 /\ call'.got = g
      /\ call'.quiet = call.quiet /\ call'.still = call.still
    <2> DEFINE c == [call EXCEPT !.next = call.next + 1]
    <2>1. call.next \in Nat
        BY <1>1 DEF Calls
    <2>2. c \in Calls /\ c.mode = call.mode /\ c.next = call.next + 1 /\ c.quiet = call.quiet /\ c.still = call.still
        <3> DEFINE n == call.next + 1
        <3>1. n \in Nat \ {0} /\ c = [call EXCEPT !.next = n]
            BY <2>1
        <3> HIDE DEF n, c
        <3>2. c \in Calls /\ c.mode = call.mode /\ c.next = n /\ c.quiet = call.quiet /\ c.still = call.still
            BY <1>1, <3>1 DEF Calls
        <3>3. QED
            BY <3>2 DEF n
    <2>3. call' = [c EXCEPT !.got = g]
        BY <1>1, <1>2 DEF Calls
    <2> HIDE DEF c
    <2>4. QED
        BY <1>7, <2>2, <2>3 DEF Calls
<1>9. ListsOf' = ListsOf
    BY <1>8 DEF ListsOf
<1>10. call'.mode # "none"
    BY <1>3, <1>8 DEF Modes
<1>11. Len(ListsOf) \in Nat /\ Len(call.got) \in Nat
    BY <1>3, ListsOfModes DEF ListsOf
<1>12. HandoverTypes'
    BY <1>1, <1>3, <1>4, <1>7, <1>8, <1>9, <1>10, <1>11 DEF HandoverTypes
<1>13. /\ OpenRows' = OpenRows /\ (\A l : Select(l)' = Select(l)) /\ (\A i : Hidden(i)' <=> Hidden(i))
       /\ \A S : Tasks(S)' = Tasks(S)
    <2>1. table' = table
        BY <1>1
    <2>2. QED
        BY <2>1, SelectsStay
<1>14. ASSUME NEW l, NEW S, Holds(l, S) PROVE Holds(l, S)'
    BY <1>1, <1>8, <1>13, <1>14 DEF Holds
<1>15. ASSUME NEW k \in DOMAIN g PROVE Holds(ListsOf[k], g[k])
    <2>1. CASE k = call.next
        BY <1>5, <1>7, <2>1 DEF list
    <2>2. CASE k # call.next
        BY <1>7, <2>2 DEF HandoverInv
    <2>3. QED
        BY <2>1, <2>2
<1>16. (\A k \in DOMAIN call.got : Holds(ListsOf[k], call.got[k]))'
    <2>1. \A k \in DOMAIN g : Holds(ListsOf[k], g[k])
        BY <1>15
    <2>2. ASSUME NEW k \in DOMAIN call'.got PROVE Holds(ListsOf[k], call.got[k])'
        <3>1. PICK l, S : l = ListsOf[k] /\ S = g[k]
            OBVIOUS
        <3>2. Holds(l, S)
            BY <1>8, <2>1, <2>2, <3>1
        <3>3. Holds(l, S)'
            BY <1>14, <3>2
        <3>4. l = ListsOf'[k] /\ S = call'.got[k]
            BY <1>8, <1>9, <3>1
        <3>5. QED
            BY <3>3, <3>4
    <2>3. QED
        BY <2>2
<1>17. (call.still \subseteq Tasks(OpenRows))'
    BY <1>4, <1>8, <1>13
<1>18. QED
    BY <1>12, <1>16, <1>17 DEF HandoverInv

\* Whatever the others write, rows stay where they are and what they are of.
Extends(rows) ==
    /\ rows \in Seq(TableRows) /\ DOMAIN table \subseteq DOMAIN rows
    /\ \A i \in DOMAIN rows : rows[i].kind = "task" => rows[i].status \in Statuses
    /\ \A i \in DOMAIN table : /\ rows[i].kind = table[i].kind /\ rows[i].project = table[i].project
                               /\ rows[i].task = table[i].task /\ rows[i].status = table[i].status

LEMMA WritesHold ==
    ASSUME HandoverInv, NEW rows, Extends(rows), Writes(rows)
    PROVE  HandoverInv'
<1>1. table' = rows /\ others' = others + 1 /\ asks' = asks
    BY DEF Writes
<1>2. /\ call \in Calls /\ call.next = Len(call.got) + 1 /\ (call.mode = "none" => call = NoCall)
      /\ (call.mode \in Modes => Len(call.got) <= Len(ListsOf)) /\ others' \in Nat /\ asks' \in Nat
    BY <1>1 DEF HandoverInv, HandoverTypes
<1>3. table' \in Seq(TableRows) /\ \A i \in DOMAIN table' : table'[i].kind = "task" => table'[i].status \in Statuses
    BY <1>1 DEF Extends
<1>4. CASE call = NoCall
    <2>1. call' = call
        BY <1>4 DEF Writes
    <2>2. call.got = <<>> /\ call.still = {}
        BY <1>4 DEF NoCall
    <2>3. ListsOf' = ListsOf
        BY <2>1 DEF ListsOf
    <2>4. HandoverTypes'
        BY <1>2, <1>3, <2>1, <2>3 DEF HandoverTypes
    <2>5. QED
        BY <2>1, <2>2, <2>4 DEF HandoverInv
<1>5. CASE call # NoCall
    <2> DEFINE still == call.still \cap Tasks(OpenRows)'
               c == [call EXCEPT !.quiet = FALSE]
    <2>1. call' = [call EXCEPT !.quiet = FALSE, !.still = still]
        BY <1>5 DEF Writes
    <2>2. still \subseteq call.still /\ call.still \in SUBSET Opened /\ still \subseteq Tasks(OpenRows)'
        BY <1>2 DEF Calls
    <2> HIDE DEF still
    <2>3. still \in SUBSET Opened
        BY <2>2
    <2>4. c \in Calls /\ c.mode = call.mode /\ c.next = call.next /\ c.got = call.got /\ c.quiet = FALSE
        BY <1>2 DEF Calls
    <2>5. call' = [c EXCEPT !.still = still]
        BY <1>2, <2>1 DEF Calls
    <2> HIDE DEF c
    <2>6. /\ call' \in Calls /\ call'.mode = call.mode /\ call'.next = call.next /\ call'.got = call.got
          /\ call'.quiet = FALSE /\ call'.still = still
        BY <2>3, <2>4, <2>5 DEF Calls
    <2>7. ListsOf' = ListsOf
        BY <2>6 DEF ListsOf
    <2>8. call.mode # "none"
        BY <1>2, <1>5
    <2>9. HandoverTypes'
        BY <1>2, <1>3, <2>6, <2>7, <2>8 DEF HandoverTypes
    <2>10. ASSUME NEW k \in DOMAIN call.got PROVE Holds(ListsOf[k], call.got[k])'
        <3> DEFINE S == call.got[k]
        <3>1. Holds(ListsOf[k], S)
            BY <2>10 DEF HandoverInv
        <3> HIDE DEF S
        <3>2. S \subseteq DOMAIN table /\ \A i \in S : table[i].project = Home
            BY <3>1 DEF Holds
        <3>3. \A i \in S : /\ i \in DOMAIN table' /\ table'[i].kind = table[i].kind /\ table'[i].project = table[i].project
                           /\ table'[i].task = table[i].task /\ table'[i].status = table[i].status
            BY <1>1, <3>2 DEF Extends
        <3>4. PICK T, l : T = S /\ l = ListsOf[k]
            OBVIOUS
        <3>5. Tasks(T)' = Tasks(T)
            BY <3>3, <3>4 DEF Tasks
        <3>6. \A i \in T : Hidden(i)' <=> Hidden(i)
            BY <3>3, <3>4 DEF Hidden
        <3>7. Holds(l, T)
            BY <3>1, <3>4
        <3>8. T \subseteq DOMAIN table' /\ \A i \in T : table'[i].project = Home
            BY <3>2, <3>3, <3>4
        <3>9. l = "open" => /\ \A i \in T : table'[i].kind = "task" /\ table'[i].status \in Unfinished
                            /\ Cardinality(T) = OpenLimit \/ call'.still \subseteq Tasks(T)'
            BY <2>2, <2>6, <3>3, <3>4, <3>5, <3>7 DEF Holds
        <3>10. l = "recent" => \A i \in T : ~Hidden(i)'
            BY <3>6, <3>7 DEF Holds
        <3>11. l \in Unfinished => \A t \in call'.still : t[2] = l => t \in Tasks(T)'
            BY <2>2, <2>6, <3>5, <3>7 DEF Holds
        <3>12. Holds(l, T)'
            BY <2>6, <3>8, <3>9, <3>10, <3>11 DEF Holds
        <3>13. T = call'.got[k] /\ l = ListsOf'[k]
            BY <2>6, <2>7, <3>4 DEF S
        <3>14. QED
            BY <3>12, <3>13
    <2>11. QED
        BY <2>2, <2>6, <2>9, <2>10 DEF HandoverInv
<1>6. QED
    BY <1>4, <1>5

\* Each of the writes of the others does.
LEMMA RowsAre ==
    ASSUME NEW kind \in NoteKinds \cup {"dream", "session"}, NEW project \in {Home, "other"}
    PROVE  /\ RowOf(kind, project) \in TableRows /\ RowOf(kind, project).kind = kind
           /\ RowOf(kind, project).status = "none" /\ RowOf(kind, project).project = project
BY DEF RowOf, TableRows

LEMMA AppendsExtend ==
    ASSUME HandoverInv, NEW rows \in Seq(TableRows), Extends(rows), NEW row \in TableRows,
           row.kind = "task" => row.status \in Statuses
    PROVE  Extends(Append(rows, row))
<1>1. /\ Append(rows, row) \in Seq(TableRows) /\ Len(rows) \in Nat /\ DOMAIN rows = 1..Len(rows)
      /\ DOMAIN Append(rows, row) = 1..(Len(rows) + 1) /\ Append(rows, row)[Len(rows) + 1] = row
      /\ \A i \in 1..Len(rows) : Append(rows, row)[i] = rows[i]
    OBVIOUS
<1>2. DOMAIN table \subseteq DOMAIN rows
    BY DEF Extends
<1>3. \A i \in DOMAIN table : i \in 1..Len(rows) /\ i \in 1..(Len(rows) + 1)
    BY <1>1, <1>2
<1>4. ASSUME NEW i \in DOMAIN Append(rows, row), Append(rows, row)[i].kind = "task"
      PROVE  Append(rows, row)[i].status \in Statuses
    <2>1. i = Len(rows) + 1 \/ i \in 1..Len(rows)
        BY <1>1
    <2>2. QED
        BY <1>1, <1>4, <2>1 DEF Extends
<1>5. QED
    BY <1>1, <1>3, <1>4 DEF Extends

LEMMA ItExtends ==
    ASSUME HandoverInv
    PROVE  Extends(table)
BY DEF HandoverInv, HandoverTypes, Extends

\* A row that only loses its life, its success or its state stays what it was.
LEMMA ChangesExtend ==
    ASSUME HandoverInv, NEW rows, DOMAIN rows = DOMAIN table,
           \A i \in DOMAIN table : /\ rows[i] \in TableRows /\ rows[i].kind = table[i].kind /\ rows[i].project = table[i].project
                                   /\ rows[i].task = table[i].task /\ rows[i].status = table[i].status,
           rows \in Seq(TableRows)
    PROVE  Extends(rows)
BY DEF HandoverInv, HandoverTypes, Extends

LEMMA ClosesExtends ==
    ASSUME HandoverInv, NEW task
    PROVE  Closes(task) \in Seq(TableRows) /\ Extends(Closes(task))
<1> DEFINE rows == Closes(task)
<1>1. table \in Seq(TableRows) /\ Len(table) \in Nat /\ DOMAIN table = 1..Len(table)
    BY DEF HandoverInv, HandoverTypes
<1>2. DOMAIN rows = DOMAIN table
    BY DEF Closes
<1>3. ASSUME NEW i \in DOMAIN table
      PROVE  /\ rows[i] \in TableRows /\ rows[i].kind = table[i].kind /\ rows[i].project = table[i].project
             /\ rows[i].task = table[i].task /\ rows[i].status = table[i].status
    <2>1. table[i] \in TableRows
        BY <1>1
    <2>2. rows[i] = table[i] \/ rows[i] = [table[i] EXCEPT !.live = FALSE]
        BY DEF Closes
    <2> HIDE DEF rows
    <2>3. QED
        BY <2>1, <2>2 DEF TableRows
<1> HIDE DEF rows
<1>4. rows \in Seq(TableRows)
    <2>1. rows \in [1..Len(table) -> TableRows]
        <3>1. rows = [i \in 1..Len(table) |-> rows[i]]
            BY <1>1 DEF rows, Closes
        <3>2. QED
            BY <1>1, <1>3, <3>1
    <2>2. QED
        BY <1>1, <2>1
<1>5. Extends(rows)
    BY <1>2, <1>3, <1>4, ChangesExtend
<1>6. QED
    BY <1>4, <1>5 DEF rows

LEMMA ActionsHold ==
    ASSUME HandoverInv, HandoverNext
    PROVE  HandoverInv'
<1>1. CASE \E mode \in Modes : CallStarts(mode)
    BY <1>1, StartsHold
<1>2. CASE CallReads
    BY <1>2, ReadsHold
<1>3. CASE CallEnds
    <2>1. call' = NoCall /\ table' = table /\ others' = others /\ asks' = asks
        BY <1>3 DEF CallEnds
    <2>2. NoCall \in Calls /\ NoCall.got = <<>> /\ NoCall.still = {} /\ NoCall.mode = "none" /\ NoCall.next = 1
        BY DEF NoCall, Calls
    <2>3. HandoverTypes'
        BY <2>1, <2>2 DEF HandoverInv, HandoverTypes, Modes
    <2>4. QED
        BY <2>1, <2>2, <2>3 DEF HandoverInv
<1>4. ASSUME NEW task \in OpenTasks, NEW status \in Statuses, NEW act \in BOOLEAN, SaveTask(Home, task, status, act)
      PROVE  HandoverInv'
    <2> DEFINE r0 == RowOf("task", Home)
               r1 == [r0 EXCEPT !.task = task]
               r2 == [r1 EXCEPT !.status = status]
               row == [r0 EXCEPT !.task = task, !.status = status, !.act = act]
    <2>1. Home \in {Home, "other"} /\ "task" \in NoteKinds \cup {"dream", "session"}
        BY DEF NoteKinds
    <2>2. r0 \in TableRows /\ r0.kind = "task"
        BY <2>1, RowsAre
    <2>3. Writes(Append(Closes(task), row))
        BY <1>4 DEF SaveTask
    <2> HIDE DEF r0
    <2>4. r1 \in TableRows /\ r1.kind = "task"
        BY <2>1, <2>2 DEF TableRows
    <2>5. row = [[r1 EXCEPT !.status = status] EXCEPT !.act = act]
        BY <2>2 DEF TableRows
    <2> HIDE DEF r1, row
    <2>6. r2 \in TableRows /\ r2.kind = "task" /\ r2.status = status
        BY <2>1, <2>4 DEF TableRows
    <2>7. row = [r2 EXCEPT !.act = act]
        BY <2>5
    <2> HIDE DEF r2
    <2>8. row \in TableRows /\ row.kind = "task" /\ row.status = status
        BY <2>6, <2>7 DEF TableRows
    <2>9. Closes(task) \in Seq(TableRows) /\ Extends(Closes(task))
        BY ClosesExtends
    <2>10. Extends(Append(Closes(task), row))
        BY <2>8, <2>9, AppendsExtend
    <2>11. QED
        BY <2>3, <2>10, WritesHold
<1>5. ASSUME NEW kind \in {"fact", "event", "session"}, NEW project \in {Home, "other"}, WriteRow(kind, project)
      PROVE  HandoverInv'
    <2>1. kind \in NoteKinds \cup {"dream", "session"} /\ kind # "task"
        BY DEF NoteKinds
    <2>2. RowOf(kind, project) \in TableRows /\ RowOf(kind, project).kind # "task"
        BY <2>1, RowsAre
    <2>3. table \in Seq(TableRows) /\ Extends(table)
        BY ItExtends DEF HandoverInv, HandoverTypes
    <2>4. Extends(Append(table, RowOf(kind, project)))
        BY <2>2, <2>3, AppendsExtend
    <2>5. QED
        BY <1>5, <2>4, WritesHold DEF WriteRow
<1>6. ASSUME NEW i \in DOMAIN table, Fails(i) \/ Retires(i) \/ Deprecates(i)
      PROVE  HandoverInv'
    <2>1. table \in Seq(TableRows) /\ table[i] \in TableRows
        BY DEF HandoverInv, HandoverTypes
    <2>2. PICK row : /\ row \in {[table[i] EXCEPT !.failed = TRUE], [table[i] EXCEPT !.live = FALSE],
                                 [table[i] EXCEPT !.state = "deprecated"]}
                     /\ Writes([table EXCEPT ![i] = row])
        BY <1>6 DEF Fails, Retires, Deprecates
    <2>3. /\ row \in TableRows /\ row.kind = table[i].kind /\ row.project = table[i].project
          /\ row.task = table[i].task /\ row.status = table[i].status
        BY <2>1, <2>2 DEF TableRows
    <2> DEFINE rows == [table EXCEPT ![i] = row]
    <2>4. rows \in Seq(TableRows) /\ DOMAIN rows = DOMAIN table
        BY <2>1, <2>3, ExceptSeq
    <2>5. \A j \in DOMAIN table : rows[j] = IF j = i THEN row ELSE table[j]
        OBVIOUS
    <2>6. \A j \in DOMAIN table : table[j] \in TableRows
        BY <2>1
    <2>7. Writes(rows)
        BY <2>2
    <2> HIDE DEF rows
    <2>8. \A j \in DOMAIN table :
              /\ rows[j] \in TableRows /\ rows[j].kind = table[j].kind /\ rows[j].project = table[j].project
              /\ rows[j].task = table[j].task /\ rows[j].status = table[j].status
        BY <2>3, <2>5, <2>6
    <2>9. Extends(rows)
        BY <2>4, <2>8, ChangesExtend
    <2>10. QED
        BY <2>7, <2>9, WritesHold
<1>7. QED
    BY <1>1, <1>2, <1>3, <1>4, <1>5, <1>6 DEF HandoverNext

LEMMA HandoverInvHolds == HandoverSpec => []HandoverInv
<1>1. HandoverInit => HandoverInv
    <2> SUFFICES ASSUME HandoverInit PROVE HandoverInv
        OBVIOUS
    <2>1. call = NoCall /\ NoCall \in Calls /\ NoCall.got = <<>> /\ NoCall.still = {} /\ NoCall.mode = "none" /\ NoCall.next = 1
        BY DEF HandoverInit, NoCall, Calls
    <2>2. table \in Seq(TableRows) /\ \A i \in DOMAIN table : table[i].kind = "task" => table[i].status \in Statuses
        BY TablesAssumption DEF HandoverInit
    <2>3. HandoverTypes
        BY <2>1, <2>2 DEF HandoverTypes, HandoverInit, Modes
    <2>4. QED
        BY <2>1, <2>3 DEF HandoverInv
<1>2. HandoverInv /\ [HandoverNext]_handoverVars => HandoverInv'
    <2> SUFFICES ASSUME HandoverInv, [HandoverNext]_handoverVars PROVE HandoverInv'
        OBVIOUS
    <2>1. CASE HandoverNext
        BY <2>1, ActionsHold
    <2>2. CASE UNCHANGED handoverVars
        <3>1. table' = table /\ call' = call /\ others' = others /\ asks' = asks
            BY <2>2 DEF handoverVars
        <3>2. HandoverTypes'
            BY <3>1 DEF HandoverInv, HandoverTypes, ListsOf
        <3>3. /\ OpenRows' = OpenRows /\ (\A l : Select(l)' = Select(l)) /\ (\A i : Hidden(i)' <=> Hidden(i))
              /\ \A S : Tasks(S)' = Tasks(S)
            BY <3>1, SelectsStay
        <3>4. \A l, S : Holds(l, S) => Holds(l, S)'
            BY <3>1, <3>3 DEF Holds
        <3>5. ListsOf' = ListsOf
            BY <3>1 DEF ListsOf
        <3>6. (\A k \in DOMAIN call.got : Holds(ListsOf[k], call.got[k]))'
            <4>1. ASSUME NEW k \in DOMAIN call'.got PROVE Holds(ListsOf[k], call.got[k])'
                <5>1. PICK l, S : l = ListsOf[k] /\ S = call.got[k]
                    OBVIOUS
                <5>2. Holds(l, S)
                    BY <3>1, <4>1, <5>1 DEF HandoverInv
                <5>3. Holds(l, S)'
                    BY <3>4, <5>2
                <5>4. l = ListsOf'[k] /\ S = call'.got[k]
                    BY <3>1, <3>5, <5>1
                <5>5. QED
                    BY <5>3, <5>4
            <4>2. QED
                BY <4>1
        <3>7. (call.still \subseteq Tasks(OpenRows))'
            BY <3>1, <3>3 DEF HandoverInv
        <3>8. QED
            BY <3>2, <3>6, <3>7 DEF HandoverInv
    <2>3. QED
        BY <2>1, <2>2
<1>3. QED
    BY <1>1, <1>2, PTL DEF HandoverSpec

\* Each mode asks for a list once, and for some after others.
LEMMA ListsComeOnce ==
    ASSUME NEW mode \in Modes
    PROVE  \A k \in DOMAIN SelectsOf(mode) :
               /\ \A j \in DOMAIN SelectsOf(mode) : SelectsOf(mode)[j] = SelectsOf(mode)[k] => j = k
               /\ SelectsOf(mode)[k] = "in_progress" => \E j \in 1..k : SelectsOf(mode)[j] = "blocked"
               /\ SelectsOf(mode)[k] = "recent" => \E j \in 1..k : SelectsOf(mode)[j] = "open"
               /\ SelectsOf(mode)[k] = "suggested" => \E j \in 1..k : SelectsOf(mode)[j] = "decisions"
               /\ SelectsOf(mode)[k] = "suggested" => \E j \in 1..k : SelectsOf(mode)[j] = "facts_near"
<1> DEFINE l == SelectsOf(mode)
<1>1. CASE mode = "wake"
    <2>1. l = <<"open", "recent", "streams", "dreams", "sessions">>
        BY <1>1 DEF SelectsOf
    <2>2. QED
        BY <2>1
<1>2. CASE mode = "full"
    <2>1. l = <<"open", "entities", "events", "procedures", "recent", "review", "failed", "streams", "dreams", "sessions">>
        BY <1>2 DEF SelectsOf
    <2>2. QED
        BY <2>1
<1>3. CASE mode = "packet"
    <2>1. l = <<"facts_near", "tasks_near", "rules_near", "identity_near", "identity", "decisions", "blocked",
                "in_progress", "corrections", "suggested">>
        BY <1>3 DEF SelectsOf
    <2>2. QED
        BY <2>1
<1>4. CASE mode = "resume"
    <2>1. l = <<"resume">>
        BY <1>4 DEF SelectsOf
    <2>2. QED
        BY <2>1
<1>5. QED
    BY <1>1, <1>2, <1>3, <1>4 DEF Modes

\* What a call got for a list is what it read at the list's place; nothing was written
\* during a quiet call, and the list still is that.
LEMMA GotIsRead ==
    ASSUME HandoverInv, NEW list
    PROVE  /\ \A i \in Got(list) : Holds(list, Got(list))
           /\ Has(list) => Holds(list, Got(list)) /\ call.mode \in Modes
           /\ ~Has(list) => Got(list) = {}
<1>1. ~Has(list) => Got(list) = {}
    BY DEF Has, Got
<1>2. ASSUME Has(list) PROVE Holds(list, Got(list)) /\ call.mode \in Modes
    <2>1. PICK k \in DOMAIN call.got : ListsOf[k] = list
        BY <1>2 DEF Has
    <2>2. call \in Calls /\ call.got # <<>>
        BY <2>1 DEF HandoverInv, HandoverTypes
    <2>3. call.mode \in Modes
        BY <2>2 DEF Calls, HandoverInv, HandoverTypes, NoCall
    <2>4. Len(call.got) <= Len(ListsOf) /\ Len(call.got) \in Nat /\ DOMAIN call.got = 1..Len(call.got)
        BY <2>2, <2>3 DEF Calls, HandoverInv, HandoverTypes
    <2>5. Len(ListsOf) \in Nat /\ DOMAIN ListsOf = 1..Len(ListsOf)
        BY <2>3, ListsOfModes DEF ListsOf
    <2>6. \A j \in DOMAIN call.got : j \in DOMAIN ListsOf
        BY <2>4, <2>5
    <2>7. \A j \in DOMAIN call.got : ListsOf[j] = list => j = k
        BY <2>1, <2>3, <2>6, ListsComeOnce DEF ListsOf
    <2>8. Got(list) = call.got[k]
        <3>1. {j \in DOMAIN call.got : ListsOf[j] = list} = {k}
            BY <2>1, <2>7
        <3>2. QED
            BY <3>1 DEF Got
    <2>9. Holds(list, call.got[k])
        BY <2>1 DEF HandoverInv
    <2>10. QED
        BY <2>3, <2>8, <2>9
<1>3. QED
    BY <1>1, <1>2

\* A list that is asked for before one that was read was read.
LEMMA ReadBefore ==
    ASSUME HandoverInv
    PROVE  /\ Has("in_progress") => Has("blocked")
           /\ Has("recent") => Has("open")
           /\ Has("suggested") => Has("decisions") /\ Has("facts_near")
<1>1. ASSUME NEW l, Has(l),
             NEW m, \A k \in DOMAIN ListsOf : ListsOf[k] = l => \E j \in 1..k : ListsOf[j] = m
      PROVE  Has(m)
    <2>1. call.mode \in Modes
        BY <1>1, GotIsRead
    <2>2. PICK k \in DOMAIN call.got : ListsOf[k] = l
        BY <1>1 DEF Has
    <2>3. Len(call.got) <= Len(ListsOf) /\ Len(call.got) \in Nat /\ DOMAIN call.got = 1..Len(call.got)
        BY <2>1 DEF Calls, HandoverInv, HandoverTypes
    <2>4. Len(ListsOf) \in Nat /\ DOMAIN ListsOf = 1..Len(ListsOf)
        BY <2>1, ListsOfModes DEF ListsOf
    <2>5. k \in DOMAIN ListsOf
        BY <2>3, <2>4
    <2>6. PICK j \in 1..k : ListsOf[j] = m
        BY <1>1, <2>2, <2>5
    <2>7. j \in DOMAIN call.got
        BY <2>3
    <2>8. QED
        BY <2>6, <2>7 DEF Has
<1>2. \A list : Has(list) => call.mode \in Modes
    BY GotIsRead
<1>3. call.mode \in Modes =>
        \A k \in DOMAIN ListsOf :
            /\ ListsOf[k] = "in_progress" => \E j \in 1..k : ListsOf[j] = "blocked"
            /\ ListsOf[k] = "recent" => \E j \in 1..k : ListsOf[j] = "open"
            /\ ListsOf[k] = "suggested" => \E j \in 1..k : ListsOf[j] = "decisions"
            /\ ListsOf[k] = "suggested" => \E j \in 1..k : ListsOf[j] = "facts_near"
    BY ListsComeOnce DEF ListsOf
<1>4. ASSUME call.mode \in Modes
      PROVE  /\ Has("in_progress") => Has("blocked")
             /\ Has("recent") => Has("open")
             /\ Has("suggested") => Has("decisions") /\ Has("facts_near")
    <2>1. Has("in_progress") => Has("blocked")
        BY <1>1, <1>3, <1>4
    <2>2. Has("recent") => Has("open")
        BY <1>1, <1>3, <1>4
    <2>3. Has("suggested") => Has("decisions")
        BY <1>1, <1>3, <1>4
    <2>4. Has("suggested") => Has("facts_near")
        BY <1>1, <1>3, <1>4
    <2>5. QED
        BY <2>1, <2>2, <2>3, <2>4
<1>5. QED
    BY <1>2, <1>4

LEMMA QuietListsAreSelected ==
    ASSUME HandoverInv, call.quiet, NEW list
    PROVE  (Has(list) => Got(list) = Select(list)) /\ Got(list) \subseteq Select(list)
BY GotIsRead DEF Holds

LEMMA OpenAreTold ==
    ASSUME HandoverInv
    PROVE  OpenTasksAreTold
<1> SUFFICES ASSUME NEW t \in call.still
             PROVE  /\ Has("open") => t \in Tasks(Got("open")) \/ Cardinality(Got("open")) = OpenLimit
                    /\ Has("in_progress") => t \in Tasks(Got("blocked") \cup Got("in_progress"))
    BY DEF OpenTasksAreTold
<1>1. Has("open") => t \in Tasks(Got("open")) \/ Cardinality(Got("open")) = OpenLimit
    <2>1. Has("open") => Holds("open", Got("open"))
        BY GotIsRead
    <2>2. QED
        BY <2>1 DEF Holds
<1>2. ASSUME Has("in_progress") PROVE t \in Tasks(Got("blocked") \cup Got("in_progress"))
    <2>1. Holds("blocked", Got("blocked")) /\ Holds("in_progress", Got("in_progress"))
        BY <1>2, ReadBefore, GotIsRead
    <2>2. t \in Tasks(OpenRows)
        BY DEF HandoverInv
    <2>3. t[2] \in Unfinished
        BY <2>2 DEF Tasks, OpenRows
    <2>4. t \in Tasks(Got("blocked")) \/ t \in Tasks(Got("in_progress"))
        <3>1. t[2] = "blocked" => t \in Tasks(Got("blocked"))
            BY <2>1, <2>3 DEF Holds, Unfinished
        <3>2. t[2] = "in_progress" => t \in Tasks(Got("in_progress"))
            BY <2>1, <2>3 DEF Holds, Unfinished
        <3>3. QED
            BY <2>3, <3>1, <3>2 DEF Unfinished
    <2>5. QED
        BY <2>4 DEF Tasks
<1>3. QED
    BY <1>1, <1>2

LEMMA NoneTwice ==
    ASSUME HandoverInv
    PROVE  NoRowTwice
<1> SUFFICES ASSUME NEW i \in Got("open"), i \in Got("recent") PROVE FALSE
    BY DEF NoRowTwice
<1>1. Holds("open", Got("open")) /\ Holds("recent", Got("recent"))
    BY GotIsRead
<1>2. table[i].kind = "task" /\ table[i].status \in Unfinished
    BY <1>1 DEF Holds
<1>3. ~Hidden(i)
    BY <1>1 DEF Holds
<1>4. QED
    BY <1>2, <1>3 DEF Hidden, Unfinished

\* The rows there are, and how many of some of them.
LEMMA RowsAreFew ==
    ASSUME HandoverTypes
    PROVE  /\ Len(table) \in Nat /\ DOMAIN table = 1..Len(table) /\ OpenLimit \in Nat /\ Limit \in Nat
           /\ 3 * Limit \in Nat /\ 5 * Limit \in Nat
           /\ \A S : S \subseteq 1..Len(table) => IsFiniteSet(S) /\ Cardinality(S) \in Nat
           /\ \A kinds : Here(kinds) \subseteq 1..Len(table) /\ Alive(kinds) \subseteq Here(kinds)
           /\ OpenRows \subseteq 1..Len(table)
<1>1. Len(table) \in Nat /\ DOMAIN table = 1..Len(table) /\ OpenLimit \in Nat /\ Limit \in Nat
    BY HandoverAssumption DEF HandoverTypes
<1>2. 3 * Limit \in Nat /\ 5 * Limit \in Nat
    BY <1>1
<1>3. IsFiniteSet(1..Len(table))
    BY <1>1, FS_Interval
<1>4. \A S : S \subseteq 1..Len(table) => IsFiniteSet(S) /\ Cardinality(S) \in Nat
    BY <1>3, FS_Subset, FS_CardinalityType
<1>5. \A kinds : Here(kinds) \subseteq 1..Len(table) /\ Alive(kinds) \subseteq Here(kinds)
    BY <1>1 DEF Here, Alive
<1>6. QED
    BY <1>1, <1>2, <1>4, <1>5 DEF OpenRows

\* The newest of a set are of it, and one that is not among them has n before it.
LEMMA LatestAre ==
    ASSUME NEW n, NEW S
    PROVE  /\ Latest(n, S) \subseteq S
           /\ \A i \in S : i \notin Latest(n, S) => ~(Cardinality({j \in S : j > i}) < n)
BY DEF Latest, TopOf

LEMMA RecentAreWhole ==
    ASSUME HandoverInv, call.quiet, Has("recent"), NEW i \in Got("recent"), NEW j \in Alive(NoteKinds), j > i
    PROVE  \/ j \in Got("recent") \cup Got("open") \/ (j \in OpenRows /\ Cardinality(Got("open")) = OpenLimit)
           \/ (table[j].kind = "task" /\ table[j].status = "abandoned")
<1> DEFINE A == Alive(NoteKinds)
           B == {k \in Latest(3 * Limit, A) : ~Hidden(k)}
           n == Len(table)
<1>1. HandoverTypes
    BY DEF HandoverInv
<1>2. n \in Nat /\ A \subseteq 1..n /\ Limit \in Nat /\ 3 * Limit \in Nat /\ OpenLimit \in Nat /\ OpenRows \in SUBSET (1..n)
    BY <1>1, RowsAreFew
<1>3. Got("recent") = Latest(Limit, B) /\ Got("open") = Latest(OpenLimit, OpenRows)
    <2>1. Has("open")
        BY ReadBefore
    <2>2. Got("recent") = Select("recent") /\ Got("open") = Select("open")
        BY <2>1, QuietListsAreSelected
    <2>3. QED
        BY <2>2, SelectsAre DEF RecentMemories
<1> HIDE DEF A, n
<1>4. i \in Latest(3 * Limit, A) /\ j \in A /\ B \in SUBSET (1..n) /\ A \in SUBSET (1..n)
    <2>1. Latest(3 * Limit, A) \subseteq A
        BY LatestAre
    <2>2. B \subseteq Latest(3 * Limit, A)
        OBVIOUS
    <2> HIDE DEF B
    <2>3. i \in B
        BY <1>3, LatestAre
    <2>4. j \in A
        BY DEF A
    <2>5. QED
        BY <1>2, <2>1, <2>2, <2>3, <2>4
<1>5. j \in Latest(3 * Limit, A)
    BY <1>2, <1>4, LatestOfPlaces
<1>6. CASE ~Hidden(j)
    <2>1. j \in B
        BY <1>5, <1>6
    <2> HIDE DEF B
    <2>2. j \in Latest(Limit, B)
        BY <1>2, <1>3, <1>4, <2>1, LatestOfPlaces
    <2>3. QED
        BY <1>3, <2>2
<1>7. CASE Hidden(j)
    <2>1. table[j].kind = "task" /\ table[j].status # "completed" /\ j \in Here(NoteKinds) /\ j \in DOMAIN table
        BY <1>4, <1>7 DEF Hidden, A, Alive, Here
    <2>2. table[j].status = "abandoned" \/ table[j].status \in Unfinished
        BY <1>1, <2>1 DEF HandoverTypes, Statuses
    <2>3. CASE table[j].status = "abandoned"
        BY <2>1, <2>3
    <2>4. CASE table[j].status \in Unfinished
        <3>1. j \in OpenRows
            BY <2>1, <2>4 DEF OpenRows, Here
        <3>2. Cardinality(Latest(OpenLimit, OpenRows)) = OpenLimit \/ Latest(OpenLimit, OpenRows) = OpenRows
            <4> DEFINE O == OpenRows
            <4>1. O \in SUBSET (1..n)
                BY <1>2
            <4> HIDE DEF O
            <4>2. Cardinality(Latest(OpenLimit, O)) = OpenLimit \/ Latest(OpenLimit, O) = O
                BY <1>2, <4>1, LatestOfPlaces
            <4>3. QED
                BY <4>2 DEF O
        <3>3. QED
            BY <1>3, <3>1, <3>2
    <2>5. QED
        BY <2>2, <2>3, <2>4
<1>8. QED
    BY <1>6, <1>7

\* What failed is told as such, but for the limits, and is no knowledge.
LEMMA FailedAreTold ==
    ASSUME HandoverInv, call.quiet, Has("failed")
    PROVE  /\ \A i \in Got("entities") \cup Got("procedures") : i \notin Got("failed") /\ ~Failed(i)
           /\ \A i \in Here(NoteKinds) : Failed(i) /\ i \notin Got("failed") =>
                \/ Cardinality({j \in Here(NoteKinds) : j > i}) >= 3 * Limit
                \/ Cardinality({j \in Here(NoteKinds) : j > i /\ Failed(j)}) >= Limit
<1> DEFINE A == Here(NoteKinds)
           B == {k \in Latest(3 * Limit, A) : Failed(k)}
           n == Len(table)
<1>1. HandoverTypes
    BY DEF HandoverInv
<1>2. n \in Nat /\ A \subseteq 1..n /\ Limit \in Nat /\ 3 * Limit \in Nat
    BY <1>1, RowsAreFew
<1>3. Got("failed") = Latest(Limit, B)
    <2>1. Got("failed") = Select("failed")
        BY QuietListsAreSelected
    <2>2. QED
        BY <2>1, SelectsAre DEF FailedMemories
<1>4. \A kinds, told : \A i \in ContextNotes(kinds, told) : ~Failed(i)
    BY DEF ContextNotes, TopOf
<1>5. ASSUME NEW i \in Got("entities") \cup Got("procedures") PROVE i \notin Got("failed") /\ ~Failed(i)
    <2>1. Got("entities") \subseteq Select("entities") /\ Got("procedures") \subseteq Select("procedures")
        BY QuietListsAreSelected
    <2>2. ~Failed(i)
        BY <1>4, <1>5, <2>1, SelectsAre
    <2>3. \A k \in B : Failed(k)
        OBVIOUS
    <2> HIDE DEF B
    <2>4. QED
        BY <1>3, <2>2, <2>3, LatestAre
<1>6. ASSUME NEW i \in A, Failed(i), i \notin Got("failed")
      PROVE  \/ Cardinality({j \in A : j > i}) >= 3 * Limit
             \/ Cardinality({j \in A : j > i /\ Failed(j)}) >= Limit
    <2> DEFINE N == {j \in A : j > i}
               F == {j \in A : j > i /\ Failed(j)}
               M == {j \in B : j > i}
    <2>1. N \subseteq 1..n /\ F \subseteq 1..n
        BY <1>2
    <2>2. /\ IsFiniteSet(N) /\ Cardinality(N) \in Nat
          /\ IsFiniteSet(F) /\ Cardinality(F) \in Nat
        <3> HIDE DEF A, N, F
        <3>1. QED
            BY <1>1, <2>1, RowsAreFew DEF n
    <2>3. CASE i \notin Latest(3 * Limit, A)
        <3> HIDE DEF A
        <3>1. ~(Cardinality(N) < 3 * Limit)
            BY <1>6, <2>3, LatestAre
        <3> HIDE DEF N
        <3>2. Cardinality(N) >= 3 * Limit
            BY <1>2, <2>2, <3>1
        <3>3. QED
            BY <3>2 DEF N
    <2>4. CASE i \in Latest(3 * Limit, A)
        <3>1. i \in B
            BY <1>6, <2>4
        <3>2. B \subseteq {k \in A : Failed(k)}
            <4> HIDE DEF A
            <4>1. QED
                BY LatestAre
        <3>3. M \subseteq F
            <4> HIDE DEF A, B
            <4>1. QED
                BY <3>2
        <3>4. ~(Cardinality(M) < Limit)
            <4> HIDE DEF A, B
            <4>1. QED
                BY <1>3, <1>6, <3>1, LatestAre
        <3> HIDE DEF A, B, M, F, N
        <3>5. Cardinality(M) <= Cardinality(F) /\ Cardinality(M) \in Nat
            BY <2>2, <3>3, FS_Subset, FS_CardinalityType
        <3>6. Cardinality(F) >= Limit
            BY <1>2, <2>2, <3>4, <3>5
        <3>7. QED
            BY <3>6 DEF F
    <2>5. QED
        BY <2>3, <2>4
<1>7. QED
    BY <1>5, <1>6

\* A packet suggests what it told.
LEMMA SuggestedAreTold ==
    ASSUME HandoverInv, call.quiet, Has("suggested")
    PROVE  /\ Got("suggested") \subseteq Got("decisions")
           /\ Got("suggested") # {} => Got("facts_near") # {}
<1> DEFINE F == Here({"fact"})
<1>1. HandoverTypes
    BY DEF HandoverInv
<1>2. Limit \in Nat /\ F \subseteq 1..Len(table)
    BY <1>1, RowsAreFew
<1>3. /\ Got("suggested") = {i \in Latest(Limit, F) : table[i].near} /\ Got("decisions") = Latest(3 * Limit, F)
      /\ Got("facts_near") = {i \in F : table[i].near}
    <2>1. Got("suggested") = Select("suggested") /\ Got("decisions") = Select("decisions")
          /\ Got("facts_near") = Select("facts_near")
        BY ReadBefore, QuietListsAreSelected
    <2>2. QED
        BY <2>1, SelectsAre DEF Suggested, Decisions, NearNotes
<1>4. Latest(Limit, F) \subseteq F
    <2> HIDE DEF F
    <2>1. QED
        BY LatestAre
<1>5. ASSUME NEW i \in Latest(Limit, F) PROVE i \in Latest(3 * Limit, F)
    <2> DEFINE N == {j \in F : j > i}
    <2>1. N \subseteq 1..Len(table)
        BY <1>2
    <2>2. i \in F /\ Cardinality(N) < Limit
        <3> HIDE DEF F
        <3>1. QED
            BY <1>5 DEF Latest, TopOf
    <2>3. Cardinality(N) \in Nat
        <3> HIDE DEF F, N
        <3>1. QED
            BY <1>1, <2>1, RowsAreFew
    <2>4. Cardinality(N) < 3 * Limit
        <3> HIDE DEF F, N
        <3>1. QED
            BY <1>2, <2>2, <2>3
    <2>5. QED
        <3> HIDE DEF F
        <3>1. QED
            BY <2>2, <2>4 DEF Latest, TopOf
<1> HIDE DEF F
<1>6. QED
    BY <1>3, <1>4, <1>5

LEMMA BestIsResumed ==
    ASSUME HandoverInv
    PROVE  ResumeIsBest
<1> DEFINE O == OpenRows
<1> SUFFICES ASSUME NEW i \in Got("resume"), NEW j \in O, call.quiet, j > i, Cardinality(O) <= 5 * Limit
             PROVE  \/ table[j].match < table[i].match \/ (table[i].act /\ ~table[j].act)
                    \/ (table[i].status = "blocked" /\ table[j].status # "blocked")
    BY DEF ResumeIsBest
<1>1. HandoverTypes
    BY DEF HandoverInv
<1>2. /\ Len(table) \in Nat /\ O \subseteq 1..Len(table) /\ DOMAIN table = 1..Len(table) /\ 5 * Limit \in Nat
      /\ IsFiniteSet(O) /\ Cardinality(O) \in Nat
    BY <1>1, RowsAreFew
<1>3. i \in Breakpoint(Latest(5 * Limit, O))
    <2>1. Got("resume") \subseteq Select("resume")
        BY QuietListsAreSelected
    <2>2. QED
        BY <2>1, SelectsAre
<1> HIDE DEF O
<1>4. Latest(5 * Limit, O) = O
    <2>1. ASSUME NEW x \in O PROVE x \in Latest(5 * Limit, O)
        <3> DEFINE N == {y \in O : y > x}
        <3>1. x \notin N /\ N \subseteq O
            BY <1>2
        <3>2. x \in Latest(5 * Limit, O) <=> Cardinality(N) < 5 * Limit
            BY DEF Latest, TopOf
        <3> HIDE DEF N
        <3>3. IsFiniteSet(N) /\ Cardinality(N) <= Cardinality(O) /\ Cardinality(N) \in Nat
              /\ (Cardinality(N) = Cardinality(O) => N = O)
            BY <1>2, <3>1, FS_Subset, FS_CardinalityType
        <3>4. Cardinality(N) # Cardinality(O)
            BY <2>1, <3>1, <3>3
        <3>5. QED
            BY <1>2, <3>2, <3>3, <3>4
    <2>2. QED
        BY <2>1, LatestAre
<1>5. i \in O /\ ~ResumeOrder(j, i)
    <2> DEFINE M == {y \in O : ResumeOrder(y, i)}
    <2>1. i \in O /\ Cardinality(M) < 1
        BY <1>3, <1>4 DEF Breakpoint, TopOf
    <2>2. M \subseteq O
        OBVIOUS
    <2>3. j \in M <=> ResumeOrder(j, i)
        OBVIOUS
    <2> HIDE DEF M
    <2>4. IsFiniteSet(M) /\ Cardinality(M) \in Nat
        BY <1>2, <2>2, FS_Subset, FS_CardinalityType
    <2>5. M = {}
        BY <2>1, <2>4, FS_EmptySet
    <2>6. QED
        BY <2>1, <2>3, <2>5
<1>6. table[i] \in TableRows /\ table[j] \in TableRows /\ i \in Nat /\ j \in Nat
    BY <1>1, <1>2, <1>5 DEF HandoverTypes
<1>7. /\ table[i].match \in Nat /\ table[j].match \in Nat
      /\ table[i].act \in BOOLEAN /\ table[j].act \in BOOLEAN
    BY <1>6 DEF TableRows
<1>8. Ranked(i) \in Nat /\ Ranked(j) \in Nat
    BY <1>7 DEF Ranked
<1>9. Ranked(j) < Ranked(i)
    BY <1>5, <1>6, <1>8 DEF ResumeOrder
<1>10. SUFFICES ASSUME table[j].match >= table[i].match, table[i].act => table[j].act,
                       table[i].status = "blocked" => table[j].status = "blocked"
                PROVE  FALSE
    BY <1>7
<1>11. Ranked(j) >= Ranked(i)
    BY <1>7, <1>10 DEF Ranked
<1>12. QED
    BY <1>8, <1>9, <1>11

\* What a session is told at its start, whatever the others write meanwhile, is of its
\* project, names every task that stayed open, but for the limit, and takes none
\* twice; without others it is whole, and the best checkpoint is taken up again.
THEOREM HandoversAreTrue == HandoverSpec => []HandoverIsTrue
<1>1. HandoverInv => HandoverIsTrue
    <2> SUFFICES ASSUME HandoverInv PROVE HandoverIsTrue
        OBVIOUS
    <2>1. HandoverTypeOK
        <3>1. call \in Calls /\ call.next = Len(call.got) + 1 /\ Len(call.got) \in Nat
            BY DEF HandoverInv, HandoverTypes, Calls
        <3>2. call.mode \in Modes \cup {"none"}
            BY <3>1 DEF Calls
        <3>3. Len(call.got) = call.next - 1
            BY <3>1
        <3>4. \A k \in DOMAIN call.got : call.got[k] \subseteq DOMAIN table
            BY DEF HandoverInv, Holds
        <3>5. QED
            BY <3>2, <3>3, <3>4 DEF HandoverTypeOK
    <2>2. NothingOfOthers
        BY DEF HandoverInv, Holds, NothingOfOthers
    <2>3. QuietCallsAreWhole
        <3>1. ASSUME call.quiet, Has("recent")
              PROVE  \A i \in Got("recent"), j \in Alive(NoteKinds) :
                         j > i => \/ j \in Got("recent") \cup Got("open")
                                  \/ (j \in OpenRows /\ Cardinality(Got("open")) = OpenLimit)
                                  \/ (table[j].kind = "task" /\ table[j].status = "abandoned")
            BY <3>1, RecentAreWhole
        <3>2. QED
            BY <3>1, FailedAreTold, SuggestedAreTold DEF QuietCallsAreWhole
    <2>4. QED
        BY <2>1, <2>2, <2>3, NoneTwice, OpenAreTold, BestIsResumed DEF HandoverIsTrue
<1>2. QED
    BY <1>1, HandoverInvHolds, PTL
===============================================================================
