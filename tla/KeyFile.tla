------------------------------ MODULE KeyFile ------------------------------
(***************************************************************************)
(* The API keys (memra-server/src/cli/admin.rs, config.rs and                *)
(* transport/auth.rs). `ma admin add-key' and `revoke-key' read the YAML      *)
(* file, change one entry and write everything back through a temporary file *)
(* of a fixed name that is then renamed; nothing locks it. A server reads the *)
(* file once, at its start, and checks bearer tokens against that copy.       *)
(*                                                                         *)
(* Files are inodes, for a rename does not move the descriptor of another    *)
(* command: what that one writes next goes into the live file.              *)
(***************************************************************************)
EXTENDS Naturals, Sequences, FiniteSets

CONSTANTS
    Admins,      \* processes that run admin commands
    KeyNames,    \* names of keys
    MaxKeys,     \* bound: keys generated
    MaxCommands  \* bound: commands

Inodes   == 1..(2 + Cardinality(Admins))
Material == 1..MaxKeys            \* generate_key_material: 32 random bytes, never alike

ASSUME KeyFileAssumption == IsFiniteSet(Admins) /\ {MaxKeys, MaxCommands} \subseteq Nat

VARIABLES
    live, tmp,  \* inodes behind config.yaml and config.yaml.tmp, 0 for none
    content,    \* [Inodes -> entries]
    apc,        \* [Admins -> stage]
    draft,      \* [Admins -> [op, name, fd, entries]], what the command is about to write
    keysMade, commands,
    loaded,     \* the entries the server reads at its start, or NotUp
    told,       \* commands that were told they succeeded (history)
    toldAtStart,\* told, when the server started (history)
    crossed     \* a command has begun while another was under way (history)

keyVars == <<live, tmp, content, apc, draft, keysMade, commands, loaded, told, toldAtStart, crossed>>
keyPast == <<commands, loaded, told, toldAtStart, crossed>>

Entry == [name : KeyNames, key : Material, revoked : BOOLEAN]
\* Two commands wrote one inode, and the longer text shows behind the shorter.
Mixed == <<[name |-> "mixed", key |-> 0, revoked |-> FALSE]>>
NotUp == <<[name |-> "not up", key |-> 0, revoked |-> FALSE]>>
NoDraft == [op |-> "none", name |-> "", fd |-> 0, entries |-> <<>>]

\* The empty file a truncation leaves reads like a configuration without keys.
Config == IF live = 0 THEN <<>> ELSE content[live]
Named(es, n) == {i \in DOMAIN es : es[i].name = n}
----------------------------------------------------------------------------
\* add_key_with_material refuses a name that is taken.
Admit(es, n) == Named(es, n) = {}

Begins(p, op, n, es) ==
    /\ apc' = [apc EXCEPT ![p] = "open"]
    /\ draft' = [draft EXCEPT ![p] = [op |-> op, name |-> n, fd |-> 0, entries |-> es]]
    /\ commands' = commands + 1
    /\ crossed' = (crossed \/ \E q \in Admins : apc[q] # "idle")
    /\ UNCHANGED <<live, tmp, content, loaded, told, toldAtStart>>

AddKey(p, n) ==
    /\ apc[p] = "idle" /\ commands < MaxCommands /\ keysMade < MaxKeys
    /\ Config # Mixed /\ Admit(Config, n)
    /\ keysMade' = keysMade + 1
    /\ Begins(p, "add", n, Append(Config, [name |-> n, key |-> keysMade', revoked |-> FALSE]))

\* revoke_key_at_path: the first entry of that name.
RevokeKey(p, n) ==
    /\ apc[p] = "idle" /\ commands < MaxCommands
    /\ Config # Mixed /\ Named(Config, n) # {}
    /\ LET first == CHOOSE i \in Named(Config, n) : \A j \in Named(Config, n) : i <= j
       IN  Begins(p, "revoke", n, [Config EXCEPT ![first].revoked = TRUE])
    /\ UNCHANGED keysMade
----------------------------------------------------------------------------
\* write_config_value: fs::write opens the temporary file and truncates it, ...
FreshInode == CHOOSE i \in Inodes : i \notin {live, tmp} \cup {draft[p].fd : p \in Admins}
Target_Live == IF live = 0 THEN FreshInode ELSE live
Target == IF tmp = 0 THEN FreshInode ELSE tmp

OpenTmp(p) ==
    /\ apc[p] = "open" /\ apc' = [apc EXCEPT ![p] = "fill"]
    /\ content' = [content EXCEPT ![Target] = <<>>]
    /\ tmp' = Target /\ draft' = [draft EXCEPT ![p].fd = Target]
    /\ UNCHANGED <<live, keysMade, keyPast>>

\* ... then fills it from the start, over what another command wrote meanwhile.
Fill(p) ==
    /\ apc[p] = "fill" /\ apc' = [apc EXCEPT ![p] = "rename"]
    /\ \E c \in {draft[p].entries}
             \cup (IF content[draft[p].fd] \in {<<>>, draft[p].entries} THEN {} ELSE {Mixed}) :
          content' = [content EXCEPT ![draft[p].fd] = c]
    /\ UNCHANGED <<live, tmp, draft, keysMade, keyPast>>

Ends(p) ==
    /\ apc' = [apc EXCEPT ![p] = "idle"] /\ draft' = [draft EXCEPT ![p] = NoDraft]
    /\ UNCHANGED <<content, keysMade, commands, loaded, toldAtStart, crossed>>

\* The rename is what counts; it fails when another command took the file away.
Rename(p) ==
    /\ apc[p] = "rename"
    /\ IF tmp = 0 THEN UNCHANGED <<live, tmp, told>>
       ELSE live' = tmp /\ tmp' = 0 /\ told' = told \cup {<<draft[p].op, draft[p].name>>}
    /\ Ends(p)

AdminDies(p) == apc[p] # "idle" /\ UNCHANGED <<live, tmp, told>> /\ Ends(p)
----------------------------------------------------------------------------
\* main loads AppConfig before it serves; a file it cannot parse stops it.
ServerStarts ==
    /\ Config # Mixed /\ loaded' = Config /\ toldAtStart' = told
    /\ UNCHANGED <<live, tmp, content, apc, draft, keysMade, commands, told, crossed>>

Matches(es, k) == {i \in DOMAIN es : es[i].key = k}
\* authenticate_token: one entry has the hash, and it is not revoked.
Accepts(es, k) ==
    /\ Cardinality(Matches(es, k)) = 1
    /\ \A i \in Matches(es, k) : ~es[i].revoked
----------------------------------------------------------------------------
KeyInit ==
    /\ live = 0 /\ tmp = 0 /\ content = [i \in Inodes |-> <<>>]
    /\ apc = [p \in Admins |-> "idle"] /\ draft = [p \in Admins |-> NoDraft]
    /\ keysMade = 0 /\ commands = 0 /\ loaded = NotUp
    /\ told = {} /\ toldAtStart = {} /\ crossed = FALSE

KeyNext ==
    \/ \E p \in Admins :
          \/ \E n \in KeyNames : AddKey(p, n) \/ RevokeKey(p, n)
          \/ OpenTmp(p) \/ Fill(p) \/ Rename(p) \/ AdminDies(p)
    \/ ServerStarts

KeySpec == KeyInit /\ [][KeyNext]_keyVars
----------------------------------------------------------------------------
\* However commands cross, an entry that can be read is alone with its name and
\* with its key: revoke-key acts on the first of a name and a token that fits two
\* entries is refused, so either duplicate would be a key out of control.
KeysAreAlone ==
    \A f \in {live, tmp} \ {0} :
        content[f] # Mixed =>
            \A i, j \in DOMAIN content[f] :
                i # j => content[f][i].name # content[f][j].name /\ content[f][i].key # content[f][j].key

\* Commands that did not cross keep each other's work, wherever one of them died:
\* the keys that were given out are in the file and those revoked are revoked.
\* (Crossing commands lose one another's work, or leave a file without keys.)
ChangesStay ==
    ~crossed =>
        /\ Config # Mixed
        /\ \A t \in told :
              \E i \in Named(Config, t[2]) : t[1] = "revoke" => Config[i].revoked

\* A server refuses a key whose revocation had succeeded when it started. (One
\* that runs goes on accepting it: reload-auth only reads the file and prints.)
RevokedIsRefused ==
    ~crossed /\ loaded # NotUp =>
        \A i \in DOMAIN loaded :
            <<"revoke", loaded[i].name>> \in toldAtStart => ~Accepts(loaded, loaded[i].key)

KeyTypeOK ==
    /\ {live, tmp} \subseteq Inodes \cup {0} /\ (live = tmp => live = 0)
    /\ \A i \in Inodes : content[i] = Mixed \/ content[i] \in Seq(Entry)
    /\ \A p \in Admins : apc[p] \in {"idle", "open", "fill", "rename"}

\* What the key file keeps without a lock.
KeysAreKept == KeyTypeOK /\ KeysAreAlone /\ ChangesStay /\ RevokedIsRefused
=============================================================================
