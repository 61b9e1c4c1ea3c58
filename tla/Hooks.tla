-------------------------------- MODULE Hooks --------------------------------
(***************************************************************************)
(* `ma hook' (memra-server/src/cli/phase4.rs), which an editor runs at the   *)
(* start of a session and before it compacts one. PreCompact writes the      *)
(* checkpoint in place and reports what the trackers logged; SessionStart    *)
(* reads that checkpoint, counts the warnings that failing jobs left and     *)
(* moves them to a directory of read ones. Hooks of several sessions share   *)
(* all these files.                                                        *)
(***************************************************************************)
EXTENDS Naturals, Sequences, FiniteSets

CONSTANTS
    Hookers,      \* processes that run a hook
    WarningNames, \* file names of warnings: the fatal one is written again and again
    MaxWarnings,  \* bound: warnings of a kind
    MaxLogged,    \* bound: lines of a tracker
    MaxHooks      \* bound: hooks run

ASSUME HooksAssumption == IsFiniteSet(Hookers) /\ {MaxWarnings, MaxLogged, MaxHooks} \subseteq Nat

WarningKinds == {"precompact", "backup"}    \* disk alerts are handled as backups are
Trackers     == {"edit", "fail"}

VARIABLES
    checkpoint,  \* the file: "none", "torn" or "whole"
    unread,      \* [WarningKinds -> [WarningNames -> warning or 0]]
    read,        \* the same, of the directory of read warnings
    raised,      \* [WarningKinds -> warnings raised so far]: their numbers
    old,         \* warnings last modified more than 30 days ago
    tracker,     \* [Trackers -> lines in the file]
    hpc,         \* [Hookers -> stage]
    hkind,       \* [Hookers -> kind or tracker it works on]
    listed,      \* [Hookers -> names it found, still to be moved]
    counted,     \* [Hookers -> warnings or lines it will report]
    hooksRun,
    reported,    \* warnings shown to a session (history)
    foundOnce,   \* warnings some session counted (history)
    replaced,    \* read warnings overwritten by a later one of that name (history)
    logged, signalled,  \* lines of each tracker: logged, and reported (history)
    hookDied, hooksCrossed  \* (history)

hookVars == <<checkpoint, unread, read, raised, old, tracker, hpc, hkind, listed, counted, hooksRun,
              reported, foundOnce, replaced, logged, signalled, hookDied, hooksCrossed>>
hookFiles == <<checkpoint, unread, read, raised, old, tracker>>
hookPast  == <<reported, foundOnce, replaced, logged, signalled, hookDied, hooksCrossed>>

WarningsIn(dir, k) == {dir[k][n] : n \in WarningNames} \ {0}
----------------------------------------------------------------------------
HookStarts(p, stage, k) ==
    /\ hpc[p] = "idle" /\ hooksRun < MaxHooks /\ hooksRun' = hooksRun + 1
    /\ hpc' = [hpc EXCEPT ![p] = stage] /\ hkind' = [hkind EXCEPT ![p] = k]
    /\ hooksCrossed' = (hooksCrossed \/ \E q \in Hookers : hpc[q] # "idle")
    /\ UNCHANGED <<listed, counted, reported, foundOnce, replaced, logged, signalled, hookDied>>

HookEnds(p) ==
    /\ hpc' = [hpc EXCEPT ![p] = "idle"] /\ hkind' = [hkind EXCEPT ![p] = ""]
    /\ listed' = [listed EXCEPT ![p] = {}] /\ counted' = [counted EXCEPT ![p] = {}]

\* render_sessionstart_hook: a checkpoint that does not parse fails the hook
\* before it has looked at a warning.
SessionStart(p) ==
    /\ checkpoint # "torn" /\ HookStarts(p, "list", "precompact")
    /\ UNCHANGED hookFiles

\* purge_old_files goes by the time of the file, which moving it does not change.
Expired(k) == {w \in WarningsIn(read, k) : <<k, w>> \in old}

Purged(dir, k) == [dir EXCEPT ![k] = [n \in WarningNames |-> IF @[n] \in Expired(k) THEN 0 ELSE @[n]]]

\* The backup warnings wait for a session that has a checkpoint.
Onward(p) ==
    IF hkind[p] = "precompact" /\ checkpoint # "none"
      THEN hpc' = [hpc EXCEPT ![p] = "list"] /\ hkind' = [hkind EXCEPT ![p] = "backup"]
      ELSE hpc' = [hpc EXCEPT ![p] = "print"] /\ UNCHANGED hkind

\* rotate_warning_files: what is there now is counted, ...
Lists(p) ==
    LET k     == hkind[p]
        found == {n \in WarningNames : unread[k][n] # 0}
        ids   == {<<k, w>> : w \in WarningsIn(unread, k)}
    IN  /\ hpc[p] = "list"
        /\ listed' = [listed EXCEPT ![p] = found]
        /\ counted' = [counted EXCEPT ![p] = @ \cup ids] /\ foundOnce' = foundOnce \cup ids
        /\ IF found = {} THEN read' = Purged(read, k) /\ Onward(p)
           ELSE hpc' = [hpc EXCEPT ![p] = "move"] /\ UNCHANGED <<read, hkind>>
        /\ UNCHANGED <<checkpoint, unread, raised, old, tracker, hooksRun,
                       reported, replaced, logged, signalled, hookDied, hooksCrossed>>

\* ... then moved file by file, by name. One that another session took is skipped.
Moves(p) ==
    LET k == hkind[p]
    IN  /\ hpc[p] = "move"
        /\ \E n \in listed[p] :
              /\ listed' = [listed EXCEPT ![p] = @ \ {n}]
              /\ IF unread[k][n] = 0 THEN UNCHANGED <<unread, read, replaced>>
                 ELSE /\ unread' = [unread EXCEPT ![k][n] = 0]
                      /\ read' = [read EXCEPT ![k][n] = unread[k][n]]
                      /\ replaced' = replaced \cup {<<k, read[k][n]>>}
        /\ UNCHANGED <<checkpoint, raised, old, tracker, hpc, hkind, counted, hooksRun,
                       reported, foundOnce, logged, signalled, hookDied, hooksCrossed>>

Purges(p) ==
    /\ hpc[p] = "move" /\ listed[p] = {}
    /\ read' = Purged(read, hkind[p]) /\ Onward(p)
    /\ UNCHANGED <<checkpoint, unread, raised, old, tracker, listed, counted, hooksRun, hookPast>>

HookPrints(p) ==
    /\ hpc[p] = "print" /\ reported' = reported \cup counted[p] /\ HookEnds(p)
    /\ UNCHANGED <<hookFiles, hooksRun, foundOnce, replaced, logged, signalled, hookDied, hooksCrossed>>
----------------------------------------------------------------------------
\* run_precompact_hook has looked at ports, git and todos, and writes over the
\* checkpoint: the file is emptied, then filled.
PreCompact(p) ==
    /\ HookStarts(p, "fill", "") /\ checkpoint' = "torn"
    /\ UNCHANGED <<unread, read, raised, old, tracker>>

FillsCheckpoint(p) ==
    /\ hpc[p] = "fill" /\ hpc' = [hpc EXCEPT ![p] = "count"] /\ hkind' = [hkind EXCEPT ![p] = "edit"]
    \* Over what another hook wrote since, the longer text shows behind the shorter.
    /\ checkpoint' \in IF checkpoint = "whole" THEN {"whole", "torn"} ELSE {"whole"}
    /\ UNCHANGED <<unread, read, raised, old, tracker, listed, counted, hooksRun, hookPast>>

\* A failed write ends the hook: no hint, no signal, and the trackers stay.
FillFails(p) ==
    /\ hpc[p] = "fill" /\ HookEnds(p) /\ hookDied' = TRUE
    /\ UNCHANGED <<hookFiles, hooksRun, reported, foundOnce, replaced, logged, signalled, hooksCrossed>>

Repeats(t) == IF t = "edit" THEN 3 ELSE 2
\* collect_edit_thrash_signal and collect_fail_thrash_signal read the tracker ...
Counts(p) ==
    /\ hpc[p] = "count" /\ hpc' = [hpc EXCEPT ![p] = "clear"]
    /\ counted' = [counted EXCEPT ![p] = 1..tracker[hkind[p]]]
    /\ UNCHANGED <<hookFiles, hkind, listed, hooksRun, hookPast>>

\* ... and empty it, whatever was logged in between.
Cleared(t) == [tracker EXCEPT ![t] = 0]

Clears(p) ==
    LET t == hkind[p]
        n == Cardinality(counted[p])
    IN  /\ hpc[p] = "clear" /\ tracker' = Cleared(t)
        /\ signalled' = [signalled EXCEPT ![t] = IF n >= Repeats(t) THEN @ + n ELSE @]
        /\ IF t = "edit"
             THEN /\ hpc' = [hpc EXCEPT ![p] = "count"] /\ hkind' = [hkind EXCEPT ![p] = "fail"]
                  /\ counted' = [counted EXCEPT ![p] = {}] /\ UNCHANGED listed
             ELSE HookEnds(p)
        /\ UNCHANGED <<checkpoint, unread, read, raised, old, hooksRun,
                       reported, foundOnce, replaced, logged, hookDied, hooksCrossed>>
----------------------------------------------------------------------------
\* What other programs leave: a nightly job or a hook that failed, and the
\* trackers of edits and failed commands.
Raises(k, n) ==
    /\ raised[k] < MaxWarnings /\ unread[k][n] = 0 /\ raised' = [raised EXCEPT ![k] = @ + 1]
    /\ unread' = [unread EXCEPT ![k][n] = raised'[k]]
    /\ UNCHANGED <<checkpoint, read, old, tracker, hpc, hkind, listed, counted, hooksRun, hookPast>>

Logs(t) ==
    /\ logged[t] < MaxLogged /\ logged' = [logged EXCEPT ![t] = @ + 1]
    /\ tracker' = [tracker EXCEPT ![t] = @ + 1]
    /\ UNCHANGED <<checkpoint, unread, read, raised, old, hpc, hkind, listed, counted, hooksRun,
                   reported, foundOnce, replaced, signalled, hookDied, hooksCrossed>>

MonthPasses ==
    /\ old' = {x \in WarningKinds \X (1..MaxWarnings) : x[2] <= raised[x[1]]} /\ old' # old
    /\ UNCHANGED <<checkpoint, unread, read, raised, tracker, hpc, hkind, listed, counted, hooksRun,
                   hookPast>>

HookDies(p) ==
    /\ hpc[p] # "idle" /\ HookEnds(p) /\ hookDied' = TRUE
    /\ UNCHANGED <<hookFiles, hooksRun, reported, foundOnce, replaced, logged, signalled, hooksCrossed>>
----------------------------------------------------------------------------
\* PendingNudge: of the files that wait, in the order of their names, at most
\* five are described. Of corrections the unreadable ones are left out first, of
\* captures afterwards.
Upto(readable, n) == Cardinality({i \in 1..n : readable[i]})
AtMostFive(n) == IF n > 5 THEN 5 ELSE n
Described(kind, readable) ==
    IF kind = "correction" THEN AtMostFive(Upto(readable, Len(readable)))
    ELSE Upto(readable, AtMostFive(Len(readable)))
AndMore(readable) == IF Len(readable) > 5 THEN Len(readable) - 5 ELSE 0

\* validate_add_rule_hook_payload, of a confidence in tenths, or NoConfidence, or one
\* that is no number; facts need more of it. Anything refused blocks the tool.
NoConfidence == 11
NotANumber == 12
Blocks(confidence, fact, knownCategory) ==
    \/ confidence = NotANumber \/ confidence < 7 \/ (fact /\ confidence < 9)
    \/ ~knownCategory
----------------------------------------------------------------------------
HookInit ==
    /\ checkpoint \in {"none", "whole"}
    /\ unread = [k \in WarningKinds |-> [n \in WarningNames |-> 0]] /\ read = unread
    /\ raised = [k \in WarningKinds |-> 0] /\ old = {} /\ tracker = [t \in Trackers |-> 0]
    /\ hpc = [p \in Hookers |-> "idle"] /\ hkind = [p \in Hookers |-> ""]
    /\ listed = [p \in Hookers |-> {}] /\ counted = listed /\ hooksRun = 0
    /\ reported = {} /\ foundOnce = {} /\ replaced = {} /\ logged = tracker /\ signalled = tracker
    /\ hookDied = FALSE /\ hooksCrossed = FALSE

HookNext ==
    \/ \E p \in Hookers :
          \/ SessionStart(p) \/ Lists(p) \/ Moves(p) \/ Purges(p) \/ HookPrints(p)
          \/ PreCompact(p) \/ FillsCheckpoint(p) \/ FillFails(p) \/ Counts(p) \/ Clears(p) \/ HookDies(p)
    \/ \E k \in WarningKinds, n \in WarningNames : Raises(k, n)
    \/ \E t \in Trackers : Logs(t)
    \/ MonthPasses

HookSpec == HookInit /\ [][HookNext]_hookVars
----------------------------------------------------------------------------
Warnings == {x \in WarningKinds \X (1..MaxWarnings) : x[2] <= raised[x[1]]}
In(dir) == {x \in Warnings : x[2] \in WarningsIn(dir, x[1])}

\* A warning leaves its directory only after a session counted it, if sessions do
\* not cross. (A name that is used again while two sessions move their files takes
\* a new warning away uncounted.)
NoneLeavesUncounted == ~hooksCrossed => Warnings \ In(unread) \subseteq foundOnce

\* What was counted was shown, unless a hook died on the way: a checkpoint that
\* cannot be read stops the hook before it has moved anything.
CountedIsShown ==
    ~hookDied /\ (\A p \in Hookers : hpc[p] = "idle") => foundOnce \subseteq reported

\* A warning that was moved can be looked up for a month, or until another of
\* its name is moved; sessions that cross lose none.
ReadIsKept == Warnings \ (In(unread) \cup old \cup replaced) \subseteq In(read)

\* A checkpoint stays unreadable only where a hook died or two crossed.
TornIsExplained ==
    checkpoint = "torn" =>
        hookDied \/ hooksCrossed \/ \E p \in Hookers : hpc[p] = "fill"

\* No edit and no failure is held against a session twice, unless hooks crossed.
SignalledOnce == ~hooksCrossed => \A t \in Trackers : signalled[t] + tracker[t] <= logged[t]

\* A readable file that waits is described or counted with the rest, and no more
\* is announced than waits, whichever files cannot be read.
NudgesAreWhole ==
    \A n \in 0..7 : \A readable \in [1..n -> BOOLEAN], kind \in {"correction", "capture"} :
        LET said == Described(kind, readable) + AndMore(readable)
        IN  Cardinality({i \in 1..n : readable[i]}) <= said /\ said <= n

\* More confidence never turns an accepted rule into a blocked one, and a rule
\* that gives none is not blocked for it.
MoreConfidenceIsSafe ==
    \A fact, category \in BOOLEAN : \A c \in 0..10 :
        /\ ~Blocks(c, fact, category) => \A d \in c..10 : ~Blocks(d, fact, category)
        /\ Blocks(NoConfidence, fact, category) => Blocks(c, fact, category)

HookTypeOK ==
    /\ checkpoint \in {"none", "torn", "whole"}
    /\ \A k \in WarningKinds, n \in WarningNames : {unread[k][n], read[k][n]} \subseteq 0..MaxWarnings
    /\ \A p \in Hookers : hpc[p] \in {"idle", "list", "move", "print", "fill", "count", "clear"}

\* What the hooks keep of warnings, checkpoints and trackers.
HooksLoseNothing ==
    /\ HookTypeOK /\ NoneLeavesUncounted /\ CountedIsShown /\ ReadIsKept
    /\ TornIsExplained /\ SignalledOnce /\ NudgesAreWhole /\ MoreConfidenceIsSafe
=============================================================================
