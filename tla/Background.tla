----------------------------- MODULE Background -----------------------------
(***************************************************************************)
(* `ma background' (memra-server/src/cli/phase4.rs): the cycle that runs the *)
(* pending autoDream job and then the pending autoresearch job, and the      *)
(* state file of the daemon, which the cycle, ticks, webhooks, sleeps and     *)
(* wakes all read, change and write back without a lock or a rename.         *)
(*                                                                         *)
(* Of the two queues only the status of the job in the file is kept:        *)
(* WorkQueues has the rest.                                                 *)
(***************************************************************************)
EXTENDS Naturals, Sequences, FiniteSets

CONSTANTS
    Runners,      \* processes that run the commands
    SafeHours,    \* hours at which research may run: 2 to 6
    LastHour,     \* bound on the clock
    MaxCalls,     \* bound: ticks, webhooks and sleeps
    KeptEvents    \* recent_events are cut at 20

ASSUME BackgroundAssumption ==
    /\ IsFiniteSet(Runners) /\ SafeHours \subseteq Nat
    /\ {LastHour, MaxCalls} \subseteq Nat /\ KeptEvents \in Nat \ {0}

VARIABLES
    clock,        \* the hour
    always,       \* always-on.json
    dreamJob, researchJob,   \* status of the pending_job in the two queue files
    bpc,          \* [Runners -> stage]
    cycle,        \* [Runners -> [hour, dry, outside, dream, research]] of its cycle
    wrote,        \* [Runners -> what it is about to write]
    calls,        \* ticks, webhooks and sleeps so far
    known,        \* the last whole content of the file (history)
    disturbed,    \* commands crossed, or one died in the middle of its write (history)
    astray        \* research was started at an hour that is not safe, by a cycle
                  \* that neither allowed it nor ran a dream (history)

backgroundVars == <<clock, always, dreamJob, researchJob, bpc, cycle, wrote, calls, known,
                    disturbed, astray>>

Results == {"no_pending_job", "dry_run", "deferred", "completed", "failed"}
NoCycle == [hour |-> 0, dry |-> FALSE, outside |-> FALSE,
            dream |-> "no_pending_job", research |-> "no_pending_job"]
Event(kind, overall) == [kind |-> kind, overall |-> overall]

\* background_default_daemon_state
DefaultState == [status |-> "idle", ticks |-> 0, hooks |-> 0, until |-> 0, events |-> <<>>]
TornState == [DefaultState EXCEPT !.status = "torn"]
\* load_background_daemon_state_for takes a file it cannot parse for none.
Loaded == IF always = TornState THEN DefaultState ELSE always

\* background_append_event: only the newest are kept.
Logged(s, e) ==
    LET es == Append(s.events, e)
    IN  [s EXCEPT !.events = SubSeq(es, IF Len(es) > KeptEvents THEN 2 ELSE 1, Len(es))]

Awake_KeepsUntil(s) == [s EXCEPT !.status = "awake"]
Awake(s) == [s EXCEPT !.status = "awake", !.until = 0]

\* background_overall_status
Overall(d, r) ==
    CASE "failed" \in {d, r}      -> "failed"
      [] "completed" \in {d, r}   -> "completed"
      [] "deferred" \in {d, r}    -> "deferred"
      [] {d, r} = {"no_pending_job"} -> "idle"
      [] OTHER                    -> "dry_run"
----------------------------------------------------------------------------
Crosses(p) == disturbed \/ \E q \in Runners \ {p} : bpc[q] \in {"truncate", "write"}

\* A command has read the file and computed what it will write.
WillWrite(p, s) ==
    /\ wrote' = [wrote EXCEPT ![p] = s] /\ bpc' = [bpc EXCEPT ![p] = "truncate"]
    /\ disturbed' = Crosses(p)

Calls(p, s) ==
    /\ bpc[p] = "idle" /\ calls < MaxCalls /\ calls' = calls + 1 /\ WillWrite(p, s)
    /\ UNCHANGED <<clock, always, dreamJob, researchJob, cycle, known, astray>>

\* record_background_tick_for, record_background_webhook_for
BackgroundTick(p)    == Calls(p, Logged(Awake([Loaded EXCEPT !.ticks = @ + 1]), Event("tick", "")))
Webhook(p) == Calls(p, Logged(Awake([Loaded EXCEPT !.hooks = @ + 1]), Event("webhook", "")))

\* record_background_sleep_for: of no less than zero seconds.
Sleep(p, hours) ==
    Calls(p, Logged([Loaded EXCEPT !.status = "sleeping", !.until = clock + hours], Event("sleep", "")))

WakesAt(s) == s.until # 0 /\ clock >= s.until
\* wake_background_daemon_if_needed: no event is logged.
Wake(p) ==
    /\ bpc[p] = "idle" /\ WakesAt(Loaded) /\ WillWrite(p, Awake(Loaded))
    /\ UNCHANGED <<clock, always, dreamJob, researchJob, cycle, calls, known, astray>>
----------------------------------------------------------------------------
\* run_background_cycle reads the clock once.
StartCycle(p, dry, outside) ==
    /\ bpc[p] = "idle" /\ bpc' = [bpc EXCEPT ![p] = "dream"]
    /\ cycle' = [cycle EXCEPT ![p] = [NoCycle EXCEPT !.hour = clock, !.dry = dry, !.outside = outside]]
    /\ UNCHANGED <<clock, always, dreamJob, researchJob, wrote, calls, known, disturbed, astray>>

WorkerResult(p, worker, result, next) ==
    /\ cycle' = [cycle EXCEPT ![p][worker] = result] /\ bpc' = [bpc EXCEPT ![p] = next]
    /\ UNCHANGED <<clock, always, wrote, calls, known, disturbed>>

\* run_background_auto_dream
CycleDream(p) ==
    /\ bpc[p] = "dream"
    /\ CASE dreamJob # "pending" -> WorkerResult(p, "dream", "no_pending_job", "research") /\ UNCHANGED dreamJob
         [] dreamJob = "pending" /\ cycle[p].dry ->
                WorkerResult(p, "dream", "dry_run", "research") /\ UNCHANGED dreamJob
         [] OTHER -> WorkerResult(p, "dream", "no_pending_job", "dreaming") /\ dreamJob' = "running"
    /\ UNCHANGED <<researchJob, astray>>

DreamEnds(p, ok) ==
    /\ bpc[p] = "dreaming" /\ dreamJob' = "none"
    /\ WorkerResult(p, "dream", IF ok THEN "completed" ELSE "failed", "research")
    /\ UNCHANGED <<researchJob, astray>>

\* The window is judged by the hour at which the cycle began.
MayResearch(c) == c.hour \in SafeHours \/ c.outside

\* run_background_auto_research: a dry run is asked for before the window.
CycleResearch(p) ==
    LET c == cycle[p]
    IN  /\ bpc[p] = "research"
        /\ CASE researchJob # "pending" ->
                   WorkerResult(p, "research", "no_pending_job", "record") /\ UNCHANGED <<researchJob, astray>>
             [] researchJob = "pending" /\ c.dry ->
                   WorkerResult(p, "research", "dry_run", "record") /\ UNCHANGED <<researchJob, astray>>
             [] researchJob = "pending" /\ ~c.dry /\ ~MayResearch(c) ->
                   WorkerResult(p, "research", "deferred", "record") /\ UNCHANGED <<researchJob, astray>>
             [] OTHER -> /\ WorkerResult(p, "research", "no_pending_job", "researching")
                         /\ researchJob' = "running"
                         /\ astray' = (astray \/ (clock \notin SafeHours /\ ~c.outside
                                                  /\ c.dream \notin {"completed", "failed"}
                                                  /\ clock = c.hour))
        /\ UNCHANGED dreamJob

ResearchEnds(p, ok) ==
    /\ bpc[p] = "researching" /\ researchJob' = "none"
    /\ WorkerResult(p, "research", IF ok THEN "completed" ELSE "failed", "record")
    /\ UNCHANGED <<dreamJob, astray>>

\* An error of a worker (a state file that does not parse, a command that cannot
\* be launched) ends the cycle: no research, no record.
CycleErrs(p) ==
    /\ bpc[p] \in {"dream", "dreaming"}
    /\ bpc' = [bpc EXCEPT ![p] = "idle"] /\ cycle' = [cycle EXCEPT ![p] = NoCycle]
    /\ UNCHANGED <<clock, always, dreamJob, researchJob, wrote, calls, known, disturbed, astray>>

\* record_background_cycle_for, for a dry run too.
Record(p) ==
    /\ bpc[p] = "record"
    /\ WillWrite(p, Logged(Awake(Loaded),
                           Event("worker_cycle", Overall(cycle[p].dream, cycle[p].research))))
    /\ cycle' = [cycle EXCEPT ![p] = NoCycle]
    /\ UNCHANGED <<clock, always, dreamJob, researchJob, calls, known, astray>>
----------------------------------------------------------------------------
\* save_background_daemon_state_for: fs::write truncates, then fills.
Empties(p) ==
    /\ bpc[p] = "truncate" /\ bpc' = [bpc EXCEPT ![p] = "write"] /\ always' = TornState
    /\ UNCHANGED <<clock, dreamJob, researchJob, cycle, wrote, calls, known, disturbed, astray>>

Rests(p) ==
    /\ bpc' = [bpc EXCEPT ![p] = "idle"] /\ cycle' = [cycle EXCEPT ![p] = NoCycle]
    /\ wrote' = [wrote EXCEPT ![p] = DefaultState]

Fills(p) ==
    /\ bpc[p] = "write" /\ always' = wrote[p] /\ Rests(p)
    /\ known' = wrote[p]
    /\ UNCHANGED <<clock, dreamJob, researchJob, calls, disturbed, astray>>

RunnerDies(p) ==
    /\ bpc[p] # "idle" /\ Rests(p)
    /\ disturbed' = (disturbed \/ bpc[p] = "write")
    /\ UNCHANGED <<clock, always, dreamJob, researchJob, calls, known, astray>>

\* The schedulers of the queues.
Scheduled ==
    /\ \/ dreamJob # "pending" /\ dreamJob' = "pending" /\ UNCHANGED researchJob
       \/ researchJob = "none" /\ researchJob' = "pending" /\ UNCHANGED dreamJob
    /\ UNCHANGED <<clock, always, bpc, cycle, wrote, calls, known, disturbed, astray>>

ClockStrikes ==
    /\ clock < LastHour /\ clock' = clock + 1
    /\ UNCHANGED <<always, dreamJob, researchJob, bpc, cycle, wrote, calls, known, disturbed, astray>>
----------------------------------------------------------------------------
BackgroundInit ==
    /\ clock = 1 /\ always = DefaultState /\ dreamJob = "none" /\ researchJob = "none"
    /\ bpc = [p \in Runners |-> "idle"] /\ cycle = [p \in Runners |-> NoCycle]
    /\ wrote = [p \in Runners |-> DefaultState]
    /\ calls = 0 /\ known = DefaultState /\ disturbed = FALSE /\ astray = FALSE

BackgroundNext ==
    \/ \E p \in Runners :
          \/ BackgroundTick(p) \/ Webhook(p) \/ Wake(p) \/ \E h \in 0..1 : Sleep(p, h)
          \/ \E dry, outside \in BOOLEAN : StartCycle(p, dry, outside)
          \/ CycleDream(p) \/ CycleResearch(p) \/ CycleErrs(p) \/ Record(p)
          \/ \E ok \in BOOLEAN : DreamEnds(p, ok) \/ ResearchEnds(p, ok)
          \/ Empties(p) \/ Fills(p) \/ RunnerDies(p)
    \/ Scheduled \/ ClockStrikes

BackgroundSpec == BackgroundInit /\ [][BackgroundNext]_backgroundVars
----------------------------------------------------------------------------
BackgroundTypeOK ==
    /\ always.status \in {"idle", "awake", "sleeping", "torn"}
    /\ dreamJob \in {"none", "pending", "running"} /\ researchJob \in {"none", "pending", "running"}
    /\ \A p \in Runners :
          /\ bpc[p] \in {"idle", "dream", "dreaming", "research", "researching", "record", "truncate", "write"}
          /\ {cycle[p].dream, cycle[p].research} \subseteq Results

\* However commands cross and wherever one dies, a daemon that sleeps has an hour
\* to wake at, and one that does not sleep has none: `wake' finds every sleeper.
SleepHasAnEnd == always.status = "sleeping" <=> always.until # 0

\* A dry run starts no command.
DryRunsRunNothing ==
    \A p \in Runners : bpc[p] \in {"dreaming", "researching"} => ~cycle[p].dry

\* Research starts at a safe hour, unless the cycle was allowed to ignore the hour,
\* or its own clock has gone stale: the hour is read once, before the dream runs.
ResearchKeepsHours == ~astray

\* Commands that do not cross lose no tick, no webhook and no recent event.
BuildsOnWhatWasThere ==
    known' # known /\ ~disturbed' =>
        /\ known'.ticks >= known.ticks /\ known'.hooks >= known.hooks
        /\ \E new \in {<<>>} \cup {<<e>> : e \in {known'.events[i] : i \in DOMAIN known'.events}} :
              LET all == known.events \o new
              IN  \/ known'.events = all
                  \/ Len(all) > KeptEvents /\ known'.events = Tail(all)

\* What the daemon's file and its cycle keep.
BackgroundIsHonest ==
    [][/\ BackgroundTypeOK' /\ SleepHasAnEnd' /\ DryRunsRunNothing' /\ ResearchKeepsHours'
       /\ BuildsOnWhatWasThere]_backgroundVars
=============================================================================
