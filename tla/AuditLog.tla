------------------------------ MODULE AuditLog ------------------------------
(***************************************************************************)
(* The audit log (memra-server/src/audit/mod.rs). Every event opens the      *)
(* current file, appends its text and then a line end; rotate_current renames *)
(* the file after a date, and sweep_old_rotated_logs removes what is old.    *)
(* Servers and admin commands share the directory without a lock.            *)
(*                                                                         *)
(* Nothing in the program calls the rotation or the sweep: Rotate and Sweep   *)
(* stand for an operator's jobs that do, each with the date of the day.      *)
(***************************************************************************)
EXTENDS Naturals, Sequences, FiniteSets

CONSTANTS
    Loggers,       \* processes that append
    MaxEvents,     \* bound: events
    RetentionDays, \* AUDIT_RETENTION_DAYS
    LastDay,       \* bound: the last day
    MaxRotations   \* bound: rotations

ASSUME AuditAssumption ==
    IsFiniteSet(Loggers) /\ {MaxEvents, RetentionDays, LastDay, MaxRotations} \subseteq Nat

AuditFiles  == 1..(MaxRotations + 1)
AuditEvents == 1..MaxEvents
EndOfLine   == 0
CutShort    == MaxEvents + 1

VARIABLES
    current,    \* the file behind audit.jsonl, 0 for none
    rotated,    \* [0..LastDay -> the file behind audit-<date>.jsonl, 0 for none]
    written,    \* [AuditFiles -> events and line ends, in the order they were written]
    appends,    \* [Loggers -> [event, file, texted]], event 0 when idle
    sweep,      \* the sweep: the day it was asked with, and the dates it has yet to look at
    day, eventsMade, rotations,
    beganOn,    \* [AuditEvents -> the day its append began] (history)
    audited,    \* events whose append returned Ok (history)
    buried,     \* files that a rotation of the same date replaced (history)
    glued       \* two appends crossed, or one died or failed (history)

auditFilesVars == <<current, rotated, written>>
auditPast == <<beganOn, audited, buried, glued>>
auditVars == <<auditFilesVars, appends, sweep, day, eventsMade, rotations, auditPast>>

NoAppend == [event |-> 0, file |-> 0, texted |-> FALSE]
NoSweep  == [today |-> 0, dates |-> {}]
Appending == {l \in Loggers : appends[l] # NoAppend}
----------------------------------------------------------------------------
\* AuditLogger::append opens the file of the moment, which a rename does not take
\* away from it, ...
OpenAudit(l) ==
    LET file == IF current = 0 THEN rotations + 1 ELSE current
    IN  /\ appends[l] = NoAppend /\ eventsMade < MaxEvents
        /\ eventsMade' = eventsMade + 1 /\ current' = file
        /\ appends' = [appends EXCEPT ![l] = [event |-> eventsMade', file |-> file, texted |-> FALSE]]
        /\ beganOn' = [beganOn EXCEPT ![eventsMade'] = day]
        /\ glued' = (glued \/ Appending # {})
        /\ UNCHANGED <<rotated, written, sweep, day, rotations, audited, buried>>

\* ... writes the text of the event ...
WriteEvent(l) ==
    LET a == appends[l]
    IN  /\ a # NoAppend /\ ~a.texted
        /\ written' = [written EXCEPT ![a.file] = Append(@, a.event)]
        /\ appends' = [appends EXCEPT ![l].texted = TRUE]
        /\ UNCHANGED <<current, rotated, sweep, day, eventsMade, rotations, auditPast>>

\* ... and then the line end.
EndEvent(l) ==
    LET a == appends[l]
    IN  /\ a.texted
        /\ written' = [written EXCEPT ![a.file] = Append(@, EndOfLine)]
        /\ appends' = [appends EXCEPT ![l] = NoAppend] /\ audited' = audited \cup {a.event}
        /\ UNCHANGED <<current, rotated, sweep, day, eventsMade, rotations, beganOn, buried, glued>>

\* A write fails, which callers ignore or only report, or the process dies: the event
\* may be cut short, or lack its line end.
AppendBreaks(l) ==
    LET a == appends[l]
    IN  /\ a # NoAppend
        /\ \/ UNCHANGED written
           \/ ~a.texted /\ written' = [written EXCEPT ![a.file] = Append(@, CutShort)]
        /\ appends' = [appends EXCEPT ![l] = NoAppend] /\ glued' = TRUE
        /\ UNCHANGED <<current, rotated, sweep, day, eventsMade, rotations, beganOn, audited, buried>>

\* rotate_current: a second rotation of a date replaces what the first one put by.
Rotate ==
    /\ current # 0 /\ rotations < MaxRotations
    /\ rotated' = [rotated EXCEPT ![day] = current] /\ current' = 0
    /\ buried' = buried \cup ({rotated[day]} \ {0}) /\ rotations' = rotations + 1
    /\ UNCHANGED <<written, appends, sweep, day, eventsMade, beganOn, audited, glued>>

\* sweep_old_rotated_logs lists the directory once ...
StartSweep ==
    /\ sweep = NoSweep
    /\ sweep' = [today |-> day, dates |-> {d \in 0..LastDay : rotated[d] # 0}]
    /\ sweep' # NoSweep
    /\ UNCHANGED <<auditFilesVars, appends, day, eventsMade, rotations, auditPast>>

TooOld(today, date) == today > date + RetentionDays

\* ... and looks at one name after the other.
SweepOne ==
    \E d \in sweep.dates :
        /\ rotated' = [rotated EXCEPT ![d] = IF TooOld(sweep.today, d) THEN 0 ELSE @]
        /\ sweep' = IF sweep.dates = {d} THEN NoSweep ELSE [sweep EXCEPT !.dates = @ \ {d}]
        /\ UNCHANGED <<current, written, appends, day, eventsMade, rotations, auditPast>>

DayPasses ==
    /\ day < LastDay /\ day' = day + 1
    /\ UNCHANGED <<auditFilesVars, appends, sweep, eventsMade, rotations, auditPast>>

AuditInit ==
    /\ current = 0 /\ rotated = [d \in 0..LastDay |-> 0] /\ written = [f \in AuditFiles |-> <<>>]
    /\ appends = [l \in Loggers |-> NoAppend] /\ sweep = NoSweep
    /\ day = 0 /\ eventsMade = 0 /\ rotations = 0
    /\ beganOn = [e \in AuditEvents |-> 0] /\ audited = {} /\ buried = {} /\ glued = FALSE

AuditNext ==
    \/ \E l \in Loggers : OpenAudit(l) \/ WriteEvent(l) \/ EndEvent(l) \/ AppendBreaks(l)
    \/ Rotate \/ StartSweep \/ SweepOne \/ DayPasses

AuditSpec == AuditInit /\ [][AuditNext]_auditVars
----------------------------------------------------------------------------
AuditTypeOK ==
    /\ current \in AuditFiles \cup {0} /\ \A d \in 0..LastDay : rotated[d] \in AuditFiles \cup {0}
    /\ current # 0 => \A d \in 0..LastDay : rotated[d] # current

AtPath(f) == f = current \/ \E d \in 0..LastDay : rotated[d] = f
Holds(f, e) == \E i \in DOMAIN written[f] : written[f][i] = e

\* An event whose append returned Ok can be found for the days of retention, although
\* its file may be moved or swept between the writes, unless its file was rotated
\* away and another of the same day put in its place.
EventsAreRetained ==
    \A e \in audited :
        \E f \in AuditFiles :
            /\ Holds(f, e)
            /\ AtPath(f) \/ f \in buried \/ day > beganOn[e] + RetentionDays

\* Appends that neither crossed nor broke leave one event on every line, also where the
\* file was rotated between the text and its line end. (An append that breaks, or that
\* crosses another, glues two events to one line.)
LinesAreWhole ==
    ~glued => \A f \in AuditFiles : \A i \in DOMAIN written[f] :
                  (written[f][i] = EndOfLine) = (i % 2 = 0)

\* What the audit log keeps.
AuditIsKept == AuditTypeOK /\ EventsAreRetained /\ LinesAreWhole
=============================================================================
