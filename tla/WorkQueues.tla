----------------------------- MODULE WorkQueues -----------------------------
(***************************************************************************)
(* The work queues of the background daemon (memra-server/src/cli/phase4.rs) *)
(* for autoDream and autoresearch. A queue is one JSON file with the counts   *)
(* that make a job due and at most one job. Every command (a session that     *)
(* ends, a signal, a schedule, a runner) reads the file, works, and writes    *)
(* all of it back: no lock, no rename.                                       *)
(*                                                                         *)
(* The two queues differ: autoDream counts a session as it schedules, writes *)
(* at the end of a run the copy it read at its start, keeps a record in the   *)
(* orchestrator and stops at a file it cannot parse; autoresearch reads the   *)
(* file again when a run ends and takes a broken file for an empty one.       *)
(***************************************************************************)
EXTENDS Naturals, FiniteSets

CONSTANTS
    Procs,         \* processes that run the commands
    MinCount,      \* --min-sessions, --min-signals
    MaxSignals, MaxJobs, MaxHours      \* bounds of the instance

Kinds == {"dream", "research"}
Jobs  == 1..MaxJobs

ASSUME QueueAssumption ==
    IsFiniteSet(Procs) /\ {MinCount, MaxSignals, MaxJobs, MaxHours} \subseteq Nat \ {0}

VARIABLES
    queue,      \* which of the two queues this is
    file,       \* its state file
    hour,       \* the clock, in intervals (--min-interval-hours)
    qpc,        \* [Procs -> stage]
    base,       \* [Procs -> content the process read or wrote last]
    out,        \* [Procs -> content it is about to write]
    runs,       \* [Procs -> job it runs, 0 for none]
    orc,        \* orchestrator: [Jobs -> status]
    made,       \* jobs made
    calls,      \* sessions and signals so far
    overlap,    \* a write has covered a write its author had not read (history)
    started,    \* [Jobs -> launches of its command: 0, 1, or 2 for more] (history)
    succeeded,  \* a command has succeeded (history)
    lastRun     \* hour of the last run: its end for a dream, else its start; 0
                \* when there was none, or a dream's end was not saved (history)

queueVars == <<queue, file, hour, qpc, base, out, runs, orc, made, calls, overlap,
               started, succeeded, lastRun>>
pastVars == <<queue, orc, made, calls, started, succeeded, lastRun>>

NoQueueJob == [id |-> 0, status |-> "none"]
Torn  == [since |-> 0, total |-> 0, anchor |-> 0, job |-> [id |-> 0, status |-> "torn"]]
\* No file, or the state a research command makes of a broken one.
Empty == [since |-> 0, total |-> 0, anchor |-> 0, job |-> NoQueueJob]

Contents == [since : 0..MaxSignals, total : 0..MaxSignals, anchor : 0..MaxHours,
             job : [id : 0..MaxJobs, status : {"none", "pending", "running", "torn"}]]

QueueTypeOK ==
    /\ queue \in Kinds /\ file \in Contents /\ hour \in 1..MaxHours
    /\ qpc \in [Procs -> {"idle", "register", "truncate", "write", "run",
                         "reload_ok", "reload_failed"}]
    /\ base \in [Procs -> Contents] /\ out \in [Procs -> Contents \ {Torn}]
    /\ runs \in [Procs -> 0..MaxJobs]
    /\ orc \in [Jobs -> {"none", "pending", "running", "completed", "failed"}]
    /\ file.since <= file.total
----------------------------------------------------------------------------
\* What a command takes the file to say. Only a research command goes on with a
\* broken one.
Readable == file # Torn \/ queue = "research"
ReadState == IF file = Torn THEN Empty ELSE file

\* One more session, or signal. The first session starts the dream's interval.
Counted(f) ==
    [f EXCEPT !.since = @ + 1, !.total = @ + 1,
              !.anchor = IF queue = "dream" /\ @ = 0 THEN hour ELSE @]

\* The job that keeps another from being scheduled: research waits for a job
\* that runs, a dream does not.
Blocks(job) == job.status = "pending" \/ (queue = "research" /\ job.status = "running")

\* auto_dream_should_trigger, research_should_trigger
Due(f) ==
    /\ f.since >= MinCount
    /\ IF f.anchor = 0 THEN queue = "research" ELSE hour > f.anchor

\* A process that writes c and then goes on.
Saves(p, read, c) ==
    base' = [base EXCEPT ![p] = read] /\ out' = [out EXCEPT ![p] = c]
Goes(p, stage) == qpc' = [qpc EXCEPT ![p] = stage]
\* The process is over, and what it held with it.
Quits(p) ==
    /\ Goes(p, "idle") /\ runs' = [runs EXCEPT ![p] = 0] /\ Saves(p, Empty, Empty)
----------------------------------------------------------------------------
\* run_research_signal: it only counts.
Signal(p) ==
    /\ queue = "research" /\ qpc[p] = "idle" /\ calls < MaxSignals
    /\ calls' = calls + 1
    /\ Saves(p, ReadState, Counted(ReadState)) /\ Goes(p, "truncate")
    /\ UNCHANGED <<queue, file, hour, runs, orc, made, overlap, started, succeeded, lastRun>>

\* The file the scheduler starts from: a dream's counts the session.
Scheduling == IF queue = "dream" THEN Counted(ReadState) ELSE ReadState

CountsCall ==
    IF queue = "dream" THEN calls < MaxSignals /\ calls' = calls + 1 ELSE UNCHANGED calls

\* Nothing to schedule: a job is there, or none is due. The counts are saved.
ScheduleNothing(p) ==
    /\ qpc[p] = "idle" /\ Readable
    /\ Blocks(Scheduling.job) \/ ~Due(Scheduling)
    /\ CountsCall
    /\ Saves(p, ReadState, Scheduling) /\ Goes(p, "truncate")
    /\ UNCHANGED <<queue, file, hour, runs, orc, made, overlap, started, succeeded, lastRun>>

\* A new job takes the place of the one in the file. A dream's is registered
\* with the orchestrator before the file names it.
AfterMaking == IF queue = "dream" THEN "register" ELSE "truncate"

ScheduleJob(p) ==
    /\ qpc[p] = "idle" /\ Readable
    /\ ~Blocks(Scheduling.job) /\ Due(Scheduling) /\ made < MaxJobs /\ made' = made + 1
    /\ CountsCall
    /\ Saves(p, ReadState, [Scheduling EXCEPT !.job = [id |-> made', status |-> "pending"]])
    /\ Goes(p, AfterMaking)
    /\ UNCHANGED <<queue, file, hour, runs, orc, overlap, started, succeeded, lastRun>>

\* register_auto_dream_orchestrator_job
Register(p) ==
    /\ qpc[p] = "register" /\ Goes(p, "truncate")
    /\ orc' = [orc EXCEPT ![out[p].job.id] = "pending"]
    /\ UNCHANGED <<queue, file, hour, base, out, runs, made, calls, overlap, started,
                   succeeded, lastRun>>
----------------------------------------------------------------------------
\* save_auto_dream_state_for, save_research_state_for: fs::write truncates the
\* file, then fills it.
Truncate(p) ==
    /\ qpc[p] = "truncate" /\ Goes(p, "write")
    /\ overlap' = (overlap \/ file # base[p]) /\ file' = Torn
    /\ UNCHANGED <<hour, base, out, runs, pastVars>>

Launches(p) == runs[p] # 0 /\ out[p].job.id = runs[p]

WriteState(p) ==
    /\ qpc[p] = "write" /\ file' = out[p]
    /\ overlap' = (overlap \/ file # Torn)
    /\ IF Launches(p)
       THEN /\ base' = [base EXCEPT ![p] = out[p]] /\ Goes(p, "run") /\ started' = [started EXCEPT ![runs[p]] = IF @ = 0 THEN 1 ELSE 2]
            /\ orc' = IF queue = "dream" THEN [orc EXCEPT ![runs[p]] = "running"] ELSE orc
            /\ lastRun' = IF queue = "research" THEN out[p].anchor ELSE lastRun
            /\ UNCHANGED <<runs, out>>
       ELSE /\ Quits(p)
            /\ UNCHANGED <<started, orc, lastRun>>
    /\ UNCHANGED <<queue, hour, made, calls, succeeded>>
----------------------------------------------------------------------------
\* The file says the job runs before the command is launched.
Claimed(f) ==
    [f EXCEPT !.job.status = "running",
              !.anchor = IF queue = "research" THEN hour ELSE @]

\* run_auto_dream_pending_in_rust, run_research_pending_in_rust
StartJob(p) ==
    /\ qpc[p] = "idle" /\ Readable /\ ReadState.job.status = "pending"
    /\ runs' = [runs EXCEPT ![p] = ReadState.job.id]
    /\ Saves(p, ReadState, Claimed(ReadState)) /\ Goes(p, "truncate")
    /\ UNCHANGED <<file, hour, overlap, pastVars>>

Finished_AlwaysResets(f, ok) == [f EXCEPT !.job = NoQueueJob, !.anchor = hour, !.since = 0]
\* The file after a run: a success clears the count; a dream's end, good or bad,
\* starts the interval anew, a research run's only when it is good.
Finished(f, ok) ==
    [f EXCEPT !.job = NoQueueJob,
              !.anchor = IF queue = "dream" \/ ok THEN hour ELSE @,
              !.since = IF ok THEN 0 ELSE @]

\* The command ends, fails or is killed at its time limit. A dream's runner goes
\* on from the content it wrote at its start.
QueueCommandEnds(p, ok) ==
    /\ qpc[p] = "run" /\ succeeded' = (succeeded \/ ok)
    /\ IF queue = "dream"
       THEN /\ Goes(p, "truncate") /\ out' = [out EXCEPT ![p] = Finished(out[p], ok)]
            /\ lastRun' = hour
            /\ orc' = [orc EXCEPT ![runs[p]] = IF ok THEN "completed" ELSE "failed"]
       ELSE /\ Goes(p, IF ok THEN "reload_ok" ELSE "reload_failed")
            /\ UNCHANGED <<out, orc, lastRun>>
    /\ UNCHANGED <<queue, file, hour, base, runs, made, calls, overlap, started>>

\* run_research_pending_in_rust reads the file again.
Reload(p) ==
    /\ qpc[p] \in {"reload_ok", "reload_failed"} /\ Goes(p, "truncate")
    /\ Saves(p, ReadState, Finished(ReadState, qpc[p] = "reload_ok"))
    /\ UNCHANGED <<file, hour, runs, overlap, pastVars>>

\* A dream's command cannot be launched, or its artifacts cannot be collected:
\* the error leaves the job running in the file.
DreamErrs(p) ==
    /\ queue = "dream" /\ qpc[p] = "run" /\ Quits(p)
    /\ UNCHANGED <<file, hour, overlap, pastVars>>

Dies(p) ==
    /\ qpc[p] # "idle" /\ Quits(p)
    /\ lastRun' = IF queue = "dream" /\ runs[p] # 0 THEN 0 ELSE lastRun
    /\ UNCHANGED <<file, hour, overlap, queue, orc, made, calls, started, succeeded>>

HourPasses ==
    /\ hour < MaxHours /\ hour' = hour + 1
    /\ UNCHANGED <<file, qpc, base, out, runs, overlap, pastVars>>
----------------------------------------------------------------------------
QueueInit ==
    /\ queue \in Kinds /\ file = Empty /\ hour = 1
    /\ qpc = [p \in Procs |-> "idle"] /\ runs = [p \in Procs |-> 0]
    /\ base = [p \in Procs |-> Empty] /\ out = [p \in Procs |-> Empty]
    /\ orc = [j \in Jobs |-> "none"] /\ started = [j \in Jobs |-> 0]
    /\ made = 0 /\ calls = 0 /\ overlap = FALSE /\ succeeded = FALSE /\ lastRun = 0

QueueNext ==
    \/ \E p \in Procs :
          \/ Signal(p) \/ ScheduleNothing(p) \/ ScheduleJob(p) \/ Register(p)
          \/ Truncate(p) \/ WriteState(p) \/ StartJob(p) \/ Reload(p) \/ DreamErrs(p) \/ Dies(p)
          \/ \E ok \in BOOLEAN : QueueCommandEnds(p, ok)
    \/ HourPasses

QueueSpec == QueueInit /\ [][QueueNext]_queueVars
----------------------------------------------------------------------------
\* A job is launched at most once, however its runner ends: the runner that dies
\* leaves it marked as running, and no later runner takes it. Only writers that
\* cover each other's content can bring a job back.
LaunchedOnce == \A j \in Jobs : started[j] > 1 => overlap

\* The sessions, or signals, that made a job due stay counted until a job has
\* succeeded: runs that fail, die or time out, and writers that cover each
\* other, never make the queue forget why it was due.
ResetIsEarned == file.since < file.total => succeeded

\* A dream the file names is known to the orchestrator, also when the scheduler
\* died between its two writes.
RegisteredFirst ==
    queue = "dream" /\ file.job.id # 0 => orc[file.job.id] # "none"

\* As long as no writer covered another, a job is made an interval after the
\* last run (its start for research, its end for a dream), if no dream is
\* running now.
Spaced ==
    [][made' # made /\ ~overlap /\ lastRun # 0 /\ file # Torn
         /\ (queue = "research" \/ \A p \in Procs : qpc[p] = "idle")
       => hour > lastRun]_queueVars

\* What the state file of a queue keeps although nothing locks it.
QueueKeepsItsJobs ==
    /\ Spaced
    /\ [][QueueTypeOK' /\ LaunchedOnce' /\ ResetIsEarned' /\ RegisteredFirst']_queueVars
=============================================================================
