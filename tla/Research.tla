------------------------------ MODULE Research ------------------------------
(***************************************************************************)
(* `ma research' beside its queue (memra-server/src/cli/phase4.rs): the      *)
(* batch, which runs an agent with a time limit and judges what it left; the *)
(* aggregate of the agents' result sheets, one line appended per command; and *)
(* the metric diff, which compares two of those lines.                      *)
(***************************************************************************)
EXTENDS Naturals, Sequences, FiniteSets

CONSTANTS
    Aggregators,    \* processes of `ma research aggregate'
    LastDirection,  \* directions of research are 1..LastDirection: a worktree, a sheet each
    Rows,           \* rows an agent writes
    MaxRows,        \* bound: rows of all sheets
    PipeHolds,      \* chunks of output a pipe takes before it blocks
    MinExperiments, \* --min-experiments
    Threshold       \* --threshold-percent

ASSUME ResearchAssumption ==
    /\ IsFiniteSet(Aggregators) /\ LastDirection \in Nat \ {0}
    /\ {MaxRows, PipeHolds, MinExperiments, Threshold} \subseteq Nat
    /\ Rows \subseteq [status : STRING, score : Nat, foul : BOOLEAN, shown : BOOLEAN, guarded : BOOLEAN, whole : BOOLEAN]

Directions == 1..LastDirection

VARIABLES
    sheets,     \* [Directions -> rows]
    rpc,        \* [Aggregators -> the direction it reads next, or what follows]
    gathered,   \* [Aggregators -> [Directions -> worker]], what it will append
    aggregate,  \* the output file: records and line ends, in the order of the writes
    split,      \* two aggregates crossed, or one died between its writes (history)
    batch,      \* "none", "running", "draining", or the status it printed
    child,      \* "none", "alive", "ok", "error" or "killed"
    heir,       \* a process the child started holds the pipe
    output,     \* chunks in the pipe
    experiments \* rows of the batch's own result sheet

batchVars == <<batch, child, heir, output, experiments>>
sheetVars == <<sheets, rpc, gathered, aggregate, split>>
researchVars == <<sheetVars, batchVars>>

Appends  == LastDirection + 1
EndsLine == LastDirection + 2
NoWorker == [score |-> 0, guarded |-> TRUE, found |-> FALSE, foul |-> FALSE]
NoWorkers == [d \in Directions |-> NoWorker]
LineEnd  == <<>>
----------------------------------------------------------------------------
\* A row: its status and score, whether the retrieval guardrail passed, whether
\* its commit touched the evaluator or a generated file, whether git can show that
\* commit, and whether the row is whole. The agent commits, then appends.
AgentReports(d) ==
    /\ Cardinality(UNION {{d2} \X DOMAIN sheets[d2] : d2 \in Directions}) < MaxRows
    /\ \E r \in Rows : sheets' = [sheets EXCEPT ![d] = Append(@, r)]
    /\ UNCHANGED <<rpc, gathered, aggregate, split, batchVars>>

\* parse_research_tsv_file skips a row with missing cells or bad numbers.
Parsed(d) == {i \in DOMAIN sheets[d] : sheets[d][i].whole}

\* enrich_research_record_with_guardrails: a commit that cannot be shown has
\* changed no file, so it is valid.
Valid(r) == r.shown => ~r.foul

\* research_aggregate_worker: of equal scores the last one is the best.
Worker(d) ==
    LET row(i) == sheets[d][i]
        kept == {i \in Parsed(d) : row(i).status = "keep" /\ Valid(row(i))}
        best == CHOOSE i \in kept : \A j \in kept : \/ row(i).score > row(j).score
                                                  \/ (row(i).score = row(j).score /\ i >= j)
    IN  IF kept = {} THEN NoWorker
        ELSE [score |-> row(best).score, guarded |-> row(best).guarded,
              found |-> TRUE, foul |-> row(best).shown /\ row(best).foul]

\* run_research_aggregate reads the sheets in the order of their directions, ...
Gathers(p) ==
    /\ rpc[p] \in Directions /\ rpc' = [rpc EXCEPT ![p] = @ + 1]
    /\ gathered' = [gathered EXCEPT ![p][rpc[p]] = Worker(rpc[p])]
    /\ UNCHANGED <<sheets, aggregate, split, batchVars>>

Amid(p) == \E q \in Aggregators \ {p} : rpc[q] = EndsLine
\* ... and appends a record and its line end, in two writes of writeln!.
AppendsRecord(p) ==
    /\ rpc[p] = Appends /\ rpc' = [rpc EXCEPT ![p] = EndsLine]
    /\ aggregate' = Append(aggregate, gathered[p]) /\ split' = (split \/ Amid(p))
    /\ UNCHANGED <<sheets, gathered, batchVars>>

AggregateEnds(p) ==
    /\ rpc' = [rpc EXCEPT ![p] = 1] /\ gathered' = [gathered EXCEPT ![p] = NoWorkers]
    /\ UNCHANGED <<sheets, batchVars>>

AppendsLineEnd(p) ==
    /\ rpc[p] = EndsLine /\ aggregate' = Append(aggregate, LineEnd)
    /\ AggregateEnds(p) /\ UNCHANGED split

AggregatorDies(p) ==
    /\ rpc[p] # 1 /\ split' = (split \/ rpc[p] = EndsLine)
    /\ AggregateEnds(p) /\ UNCHANGED aggregate
----------------------------------------------------------------------------
\* load_research_aggregate_record parses every line, and one that holds two
\* records stops it, whatever the tag it looks for.
Legible(file) == \A i \in 2..Len(file) : file[i] = LineEnd \/ file[i - 1] = LineEnd
Records(file) == {file[i] : i \in {j \in DOMAIN file : file[j] # LineEnd}}

\* research_percent_delta: any change from zero is infinite.
Distance(x, y) == IF x > y THEN x - y ELSE y - x
Near(x, y) == IF x = 0 THEN y = 0 ELSE Distance(x, y) * 100 <= Threshold * x

\* run_research_metric_diff: both records have all the directions.
DiffPasses(old, new) ==
    \A d \in Directions : new[d].guarded /\ Near(old[d].score, new[d].score)
----------------------------------------------------------------------------
\* research_gemini_cached_auth_failure and the preflight of run_research_batch.
AuthFailure(a) ==
    CASE ~a.personal -> "auth_mode"
      [] a.personal /\ ~a.active -> "active_account"
      [] a.personal /\ a.active /\ ~a.refresh -> "refresh_token"
      [] OTHER -> "none"
Preflight(a) == AuthFailure(a) = "none" /\ a.bin /\ a.program
Probes == [personal : BOOLEAN, active : BOOLEAN, refresh : BOOLEAN, bin : BOOLEAN, program : BOOLEAN]

\* The result sheet is kept if there is one: rows of an earlier batch count too.
BatchStarts ==
    /\ batch # "running" /\ batch # "draining" /\ \E a \in Probes : Preflight(a)
    /\ batch' = "running" /\ child' = "alive" /\ heir' = FALSE /\ output' = 0
    /\ UNCHANGED <<experiments, sheetVars>>

ChildWrites ==
    /\ child = "alive" /\ output < PipeHolds /\ output' = output + 1
    /\ UNCHANGED <<batch, child, heir, experiments, sheetVars>>

ChildExperiments ==
    /\ child = "alive" /\ experiments < MinExperiments /\ experiments' = experiments + 1
    /\ UNCHANGED <<batch, child, heir, output, sheetVars>>

ChildSpawns ==
    /\ child = "alive" /\ ~heir /\ heir' = TRUE
    /\ UNCHANGED <<batch, child, output, experiments, sheetVars>>

HeirExits == heir /\ heir' = FALSE /\ UNCHANGED <<batch, child, output, experiments, sheetVars>>

\* With the pipe full the child waits for a reader, and so never exits.
ChildExits(how) ==
    /\ child = "alive" /\ output < PipeHolds /\ child' = how
    /\ UNCHANGED <<batch, heir, output, experiments, sheetVars>>

\* execute_research_batch_command looks at the child every 100 milliseconds; only
\* after it has exited, or was killed, is its output read (execute_research_command,
\* which the queue runs, does the same).
SeesExit ==
    /\ batch = "running" /\ child # "alive" /\ batch' = "draining"
    /\ UNCHANGED <<child, heir, output, experiments, sheetVars>>

TimeIsUp ==
    /\ batch = "running" /\ child = "alive" /\ child' = "killed" /\ batch' = "draining"
    /\ UNCHANGED <<heir, output, experiments, sheetVars>>

Judged_ByExit == IF child = "ok" THEN "batch_completed" ELSE "batch_failed"
Judged == IF child = "ok" /\ experiments >= MinExperiments THEN "batch_completed" ELSE "batch_failed"
\* wait_with_output reads to the end of the pipe, so it waits for every holder.
BatchEnds ==
    /\ batch = "draining" /\ ~heir /\ batch' = Judged /\ output' = 0
    /\ UNCHANGED <<child, heir, experiments, sheetVars>>

RunnerIsKilled ==
    /\ batch \in {"running", "draining"} /\ batch' = "none" /\ child' = "none"
    /\ heir' = FALSE /\ output' = 0
    /\ UNCHANGED <<experiments, sheetVars>>
----------------------------------------------------------------------------
ResearchInit ==
    /\ sheets = [d \in Directions |-> <<>>]
    /\ rpc = [p \in Aggregators |-> 1] /\ gathered = [p \in Aggregators |-> NoWorkers]
    /\ aggregate = <<>> /\ split = FALSE
    /\ batch = "none" /\ child = "none" /\ heir = FALSE /\ output = 0 /\ experiments = 0

ResearchNext ==
    \/ \E d \in Directions : AgentReports(d)
    \/ \E p \in Aggregators : Gathers(p) \/ AppendsRecord(p) \/ AppendsLineEnd(p) \/ AggregatorDies(p)
    \/ BatchStarts \/ ChildWrites \/ ChildExperiments \/ ChildSpawns \/ HeirExits
    \/ \E how \in {"ok", "error"} : ChildExits(how)
    \/ SeesExit \/ TimeIsUp \/ BatchEnds \/ RunnerIsKilled

ResearchSpec == ResearchInit /\ [][ResearchNext]_researchVars
----------------------------------------------------------------------------
\* Aggregates that neither crossed nor died leave a file that can be read. (One
\* line with two records stops every later diff, even of another tag.)
FileIsLegible == ~split => Legible(aggregate)

\* The best row of a direction is one that its sheet has and that was kept, with that
\* row's score and guardrail, and never one whose commit is known to have touched the
\* evaluator.
BestIsFair ==
    \A i \in DOMAIN aggregate : aggregate[i] # LineEnd =>
        \A d \in Directions :
            LET w == aggregate[i][d]
            IN  /\ ~w.foul
                /\ w.found => \E r \in {sheets[d][j] : j \in DOMAIN sheets[d]} :
                                  r.status = "keep" /\ r.score = w.score /\ r.guarded = w.guarded

\* A record passes against itself unless a guardrail failed, and where the diff
\* passes no score fell by more than the threshold. (A rise beyond it, or a first
\* result, fails as well.)
DiffIsSound ==
    \A old, new \in Records(aggregate) :
        /\ old = new => (DiffPasses(old, new) <=> \A d \in Directions : new[d].guarded)
        /\ DiffPasses(old, new) =>
              \A d \in Directions : new[d].score * 100 >= old[d].score * (100 - Threshold)

\* A batch that is said to be complete ran to its own end, unblocked, and left its
\* experiments. A batch whose child was killed may wait for others that child left.
BatchTellsTruth ==
    /\ batch = "batch_completed" => child = "ok" /\ experiments >= MinExperiments
    /\ batch = "draining" => child # "alive"

ResearchTypeOK ==
    /\ \A p \in Aggregators : rpc[p] \in 1..EndsLine
    /\ batch \in {"none", "running", "draining", "batch_completed", "batch_failed"}
    /\ output \in 0..PipeHolds

\* What research reports can be relied on.
ResearchIsHonest ==
    ResearchTypeOK /\ FileIsLegible /\ BestIsFair /\ DiffIsSound /\ BatchTellsTruth
=============================================================================
