----------------------------- MODULE Forwarding -----------------------------
(***************************************************************************)
(* `ma search' and the daemon it prefers (memra-server/src/cli/phase4.rs):   *)
(* a search looks for the socket of its project, asks the daemon behind it,   *)
(* and answers from the database itself when there is none or it does not    *)
(* answer. The daemon serves one connection at a time, from the database    *)
(* file it opened at its start; `ma recover' puts another file in its place. *)
(***************************************************************************)
EXTENDS Naturals, Sequences, FiniteSets

CONSTANTS
    Servers,      \* processes of `ma serve --transport daemon'
    Searchers,    \* processes of `ma search'
    Serves,       \* [Servers -> project]
    MaxVersions   \* bound: commits to the database

Projects == {1, 2}      \* 1 is the one whose socket and database this is

ASSUME ForwardingAssumption ==
    /\ IsFiniteSet(Servers) /\ Serves \in [Servers -> Projects] /\ MaxVersions \in Nat
    /\ IsFiniteSet(Searchers)

VARIABLES
    socket,     \* what the socket's path holds: "nothing", "file" or the daemon that bound it
    spc,        \* [Servers -> stage]
    opened,     \* [Servers -> the database file it has open]
    backlog,    \* [Servers -> searches that are connected, oldest first]
    fpc,        \* [Searchers -> stage]
    asked,      \* [Searchers -> [explicit, project, from, file]]: its flags, and what was
                \* committed, in which file, when it began
    reply,      \* [Searchers -> the daemon's answer]
    printed,    \* [Searchers -> what the user sees]
    database,   \* [file, version] of the project
    seen        \* [database file -> version committed in it]

forwardVars == <<socket, spc, opened, backlog, fpc, asked, reply, printed, database, seen>>

Files == 1..2
Answer(status, project, f, v) == [status |-> status, project |-> project, file |-> f, version |-> v]
NoReply == Answer("none", 0, 0, 0)
\* Of project 2 only the name is kept.
Found(project, f, v) == IF project = 1 THEN Answer("ok", 1, f, v) ELSE Answer("ok", 2, 0, 0)
NotAsked == [explicit |-> FALSE, project |-> 1, from |-> 0, file |-> 0]
----------------------------------------------------------------------------
\* serve_cli_daemon opens the database, and prepare_cli_daemon_socket removes a
\* socket that is in the way, dead or alive, but nothing else.
Serve(d) ==
    /\ spc[d] = "down" /\ opened' = [opened EXCEPT ![d] = database.file]
    /\ spc' = [spc EXCEPT ![d] = IF socket = "file" THEN "down" ELSE "bind"]
    /\ socket' = IF socket = "file" THEN socket ELSE "nothing"
    /\ UNCHANGED <<backlog, fpc, asked, reply, printed, database, seen>>

\* UnixListener::bind fails when another daemon was quicker.
Bind(d) ==
    /\ spc[d] = "bind"
    /\ IF socket = "nothing"
       THEN socket' = d /\ spc' = [spc EXCEPT ![d] = "free"]
       ELSE spc' = [spc EXCEPT ![d] = "down"] /\ UNCHANGED socket
    /\ UNCHANGED <<opened, backlog, fpc, asked, reply, printed, database, seen>>

Accept(d) ==
    /\ spc[d] = "free" /\ backlog[d] # <<>>
    /\ spc' = [spc EXCEPT ![d] = "busy"]
    /\ UNCHANGED <<socket, opened, backlog, fpc, asked, reply, printed, database, seen>>

\* handle_cli_daemon_request refuses what is meant for another project.
Refuses(d, c) == asked[c].project # Serves[d]

\* handle_cli_daemon_stream. What it writes to a search that has gone is lost.
Respond(d) ==
    /\ spc[d] = "busy"
    /\ LET c == Head(backlog[d])
       IN  reply' = IF fpc[c] # "waiting" THEN reply
                    ELSE [reply EXCEPT ![c] = IF Refuses(d, c) THEN Answer("error", 0, 0, 0)
                                              ELSE Found(Serves[d], opened[d], seen[opened[d]])]
    /\ backlog' = [backlog EXCEPT ![d] = Tail(@)] /\ spc' = [spc EXCEPT ![d] = "free"]
    /\ UNCHANGED <<socket, opened, fpc, asked, printed, database, seen>>

\* The socket file outlives its daemon; those connected read an end of file.
ServerDies(d) ==
    /\ spc[d] \in {"bind", "free", "busy"} /\ spc' = [spc EXCEPT ![d] = "down"]
    /\ backlog' = [backlog EXCEPT ![d] = <<>>]
    /\ UNCHANGED <<socket, opened, fpc, asked, reply, printed, database, seen>>
----------------------------------------------------------------------------
\* Without --forward-socket a search looks for the socket of its own project;
\* try_forward_search: --no-forward, --db and MA_CLI_FORWARD lead to "local".
Goes(c, stage) == fpc' = [fpc EXCEPT ![c] = stage]
Ask(c, explicit, forward, project) ==
    /\ fpc[c] = "new" /\ (explicit => forward) /\ (project # 1 => explicit)
    /\ asked' = [asked EXCEPT ![c] = [explicit |-> explicit, project |-> project,
                                      from |-> database.version, file |-> database.file]]
    /\ Goes(c, IF forward THEN "connect" ELSE "local")
    /\ UNCHANGED <<socket, spc, opened, backlog, reply, printed, database, seen>>

\* Without an explicit socket every failure leads to a local search.
Otherwise(c) == IF asked[c].explicit THEN "failed" ELSE "local"

Listening == socket \in Servers /\ spc[socket] \in {"free", "busy"}
Connect(c) ==
    /\ fpc[c] = "connect"
    /\ IF Listening
       THEN backlog' = [backlog EXCEPT ![socket] = Append(@, c)] /\ Goes(c, "waiting")
       ELSE Goes(c, Otherwise(c)) /\ UNCHANGED backlog
    /\ UNCHANGED <<socket, spc, opened, asked, reply, printed, database, seen>>

Prints(c, a) == printed' = [printed EXCEPT ![c] = a] /\ Goes(c, "done")
Reads(c) ==
    /\ fpc[c] = "waiting" /\ reply[c].status # "none"
    /\ IF reply[c].status = "ok" THEN Prints(c, reply[c])
       ELSE Goes(c, Otherwise(c)) /\ UNCHANGED printed
    /\ UNCHANGED <<socket, spc, opened, backlog, asked, reply, database, seen>>

\* No answer within 800 milliseconds.
TimesOut(c) ==
    /\ fpc[c] = "waiting" /\ reply[c].status = "none" /\ Goes(c, Otherwise(c))
    /\ UNCHANGED <<socket, spc, opened, backlog, asked, reply, printed, database, seen>>

\* The daemon has gone: an end of file is no failure, even of an explicit socket,
\* a connection that was reset is.
Hangup(c) ==
    /\ fpc[c] = "waiting" /\ reply[c].status = "none"
    /\ \A d \in Servers : \A i \in DOMAIN backlog[d] : backlog[d][i] # c
    /\ \E stage \in {"local", Otherwise(c)} : Goes(c, stage)
    /\ UNCHANGED <<socket, spc, opened, backlog, asked, reply, printed, database, seen>>

\* search_for_cli
Local(c) ==
    /\ fpc[c] = "local" /\ Prints(c, Found(asked[c].project, database.file, database.version))
    /\ UNCHANGED <<socket, spc, opened, backlog, asked, reply, database, seen>>
----------------------------------------------------------------------------
Commit ==
    /\ database.version < MaxVersions
    /\ database' = [database EXCEPT !.version = @ + 1]
    /\ seen' = [seen EXCEPT ![database.file] = database.version + 1]
    /\ UNCHANGED <<socket, spc, opened, backlog, fpc, asked, reply, printed>>

\* `ma recover' renames the database and writes a new file.
Recovers ==
    /\ database.file = 1 /\ database' = [database EXCEPT !.file = 2]
    /\ seen' = [seen EXCEPT ![2] = database.version]
    /\ UNCHANGED <<socket, spc, opened, backlog, fpc, asked, reply, printed>>

\* Somebody else's file is where the socket should be.
FileAppears ==
    /\ socket = "nothing" /\ socket' = "file"
    /\ UNCHANGED <<spc, opened, backlog, fpc, asked, reply, printed, database, seen>>
----------------------------------------------------------------------------
ForwardInit ==
    /\ socket = "nothing" /\ spc = [d \in Servers |-> "down"] /\ opened = [d \in Servers |-> 1]
    /\ backlog = [d \in Servers |-> <<>>] /\ fpc = [c \in Searchers |-> "new"]
    /\ asked = [c \in Searchers |-> NotAsked] /\ reply = [c \in Searchers |-> NoReply]
    /\ printed = [c \in Searchers |-> NoReply]
    /\ database = [file |-> 1, version |-> 0] /\ seen = [f \in Files |-> 0]

ForwardNext ==
    \/ \E d \in Servers : Serve(d) \/ Bind(d) \/ Accept(d) \/ Respond(d) \/ ServerDies(d)
    \/ \E c \in Searchers :
          \/ \E explicit, forward \in BOOLEAN, project \in Projects : Ask(c, explicit, forward, project)
          \/ Connect(c) \/ Reads(c) \/ TimesOut(c) \/ Hangup(c) \/ Local(c)
    \/ Commit \/ Recovers \/ FileAppears

ForwardSpec == ForwardInit /\ [][ForwardNext]_forwardVars
----------------------------------------------------------------------------
ForwardTypeOK ==
    /\ socket \in {"nothing", "file"} \cup Servers
    /\ spc \in [Servers -> {"down", "bind", "free", "busy"}]
    /\ fpc \in [Searchers -> {"new", "connect", "waiting", "local", "done", "failed"}]
    /\ \A c \in Searchers : printed[c] # NoReply <=> fpc[c] = "done"

\* What is printed comes from the project that was asked for, whichever daemon has
\* taken the socket.
AnswersItsProject == \A c \in Searchers : fpc[c] = "done" => printed[c].project = asked[c].project

\* Forwarding is only a shortcut: a search that does not insist on a socket is
\* answered whatever becomes of the daemons, and a note committed before it began
\* is not missing. (A daemon that outlives a recovery goes on with the file that
\* was moved away: its answers are older than the database.)
ShortcutOnly ==
    \A c \in Searchers :
        /\ fpc[c] = "failed" => asked[c].explicit
        /\ fpc[c] = "done" /\ asked[c].project = 1 /\ printed[c].file >= asked[c].file
              => printed[c].version >= asked[c].from

\* What forwarding promises.
ForwardingHolds == ForwardTypeOK /\ AnswersItsProject /\ ShortcutOnly
=============================================================================
