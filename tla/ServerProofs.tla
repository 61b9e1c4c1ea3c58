----------------------------- MODULE ServerProofs -----------------------------
(***************************************************************************)
(* Theorems of what stands around the database: the key file, the audit log, *)
(* the hooks, the state file of the daemon and the searches forwarded to one,  *)
(* for every number of processes, keys, events, warnings, files and versions.  *)
(***************************************************************************)
EXTENDS KeyFile, AuditLog, Hooks, Background, Forwarding, SequenceTheorems, FiniteSetTheorems, TLAPS

----------------------------------------------------------------------------
\* KeyFile. Inodes that commands hold stay apart, entries stay alone.

\* Entries that share no name and no key, of keys that were made.
Alone(es) == \A i, j \in DOMAIN es : i # j => es[i].name # es[j].name /\ es[i].key # es[j].key
Made(es, n) == \A i \in DOMAIN es : es[i].key <= n
\* Entries that hold every change of T.
Covers(es, T) == \A t \in T : \E i \in Named(es, t[2]) : t[1] = "revoke" => es[i].revoked

Drafts == [op : {"none", "add", "revoke"}, name : KeyNames \cup {""}, fd : Inodes \cup {0}, entries : Seq(Entry)]
KeyTypes ==
    /\ live \in Inodes \cup {0} /\ tmp \in Inodes \cup {0} /\ (live = tmp => live = 0)
    /\ content \in [Inodes -> Seq(Entry) \cup {Mixed}]
    /\ apc \in [Admins -> {"idle", "open", "fill", "rename"}] /\ draft \in [Admins -> Drafts]
    /\ keysMade \in 0..MaxKeys /\ crossed \in BOOLEAN

\* However commands cross, entries are alone, in files and in what is about to be written.
AllAlone ==
    /\ \A i \in Inodes : content[i] = Mixed \/ (Alone(content[i]) /\ Made(content[i], keysMade))
    /\ \A p \in Admins : Alone(draft[p].entries) /\ Made(draft[p].entries, keysMade)
    /\ \A p \in Admins : apc[p] \in {"fill", "rename"} => draft[p].fd # 0

\* While no command has crossed another: the file holds what was told, the draft of the
\* one command under way holds that and its own change, and it alone has the temporary file.
Commanding == {p \in Admins : apc[p] # "idle"}
DraftHolds(p) ==
    /\ Covers(draft[p].entries, told \cup {<<draft[p].op, draft[p].name>>})
    /\ apc[p] \in {"fill", "rename"} => tmp # 0 /\ draft[p].fd = tmp
    /\ apc[p] = "fill" => content[tmp] = <<>>
    /\ apc[p] = "rename" => content[tmp] = draft[p].entries
Uncrossed ==
    ~crossed =>
        /\ \A p, q \in Commanding : p = q
        /\ Config # Mixed /\ Covers(Config, told)
        /\ \A p \in Commanding : DraftHolds(p)
        /\ loaded # NotUp => Alone(loaded) /\ Covers(loaded, toldAtStart)

KeyInv == KeyTypes /\ AllAlone /\ Uncrossed

\* A file that shows two texts is no list of entries.
LEMMA MixedIsNoList == Mixed \notin Seq(Entry)
<1> SUFFICES ASSUME Mixed \in Seq(Entry) PROVE FALSE
    OBVIOUS
<1>1. 1 \in DOMAIN Mixed /\ Mixed[1].key = 0
    BY DEF Mixed
<1>2. Mixed[1] \in Entry
    BY <1>1
<1>3. QED
    BY <1>1, <1>2 DEF Entry, Material

\* There are more inodes than the live file and the descriptors of the commands use, so a
\* command that creates the temporary file gets one of its own.
LEMMA TargetIsFresh ==
    ASSUME KeyTypes
    PROVE  Target \in Inodes /\ Target # live /\ (tmp # 0 => Target = tmp)
<1>1. CASE tmp # 0
    BY <1>1 DEF KeyTypes, Target
<1>2. CASE tmp = 0
    <2> DEFINE fds == {draft[p].fd : p \in Admins}
               used == fds \cup {live}
    <2>1. IsFiniteSet(Admins) /\ Cardinality(Admins) \in Nat
        BY KeyFileAssumption, FS_CardinalityType
    <2>2. IsFiniteSet(fds) /\ Cardinality(fds) <= Cardinality(Admins) /\ Cardinality(fds) \in Nat
        <3>1. [p \in Admins |-> draft[p].fd] \in Surjection(Admins, fds)
            BY DEF Surjection
        <3>2. IsFiniteSet(fds) /\ Cardinality(fds) <= Cardinality(Admins)
            BY <2>1, <3>1, FS_Surjection
        <3>3. QED
            BY <3>2, FS_CardinalityType
    <2>3. IsFiniteSet(used) /\ Cardinality(used) <= Cardinality(fds) + 1
        <3> HIDE DEF fds
        <3>1. IsFiniteSet(used) /\ Cardinality(used) = IF live \in fds THEN Cardinality(fds) ELSE Cardinality(fds) + 1
            BY <2>2, FS_AddElement
        <3>2. QED
            BY <2>2, <3>1
    <2>4. Cardinality(Inodes) = 2 + Cardinality(Admins)
        BY <2>1, FS_Interval DEF Inodes
    <2>5. ~(Inodes \subseteq used)
        <3>1. Cardinality(used) \in Nat
            BY <2>3, FS_CardinalityType
        <3>2. Inodes \subseteq used => Cardinality(Inodes) <= Cardinality(used)
            BY <2>3, FS_Subset
        <3> HIDE DEF used, fds
        <3>3. QED
            BY <2>1, <2>2, <2>3, <2>4, <3>1, <3>2
    <2>6. 0 \notin Inodes
        BY <2>1 DEF Inodes
    <2>7. \E i \in Inodes : i \notin {live, tmp} \cup {draft[p].fd : p \in Admins}
        BY <2>5, <2>6, <1>2
    <2>8. FreshInode \in Inodes /\ FreshInode \notin {live, tmp}
        BY <2>7 DEF FreshInode
    <2>9. QED
        BY <1>2, <2>8 DEF Target
<1>3. QED
    BY <1>1, <1>2

\* The configuration that a command, or the server, can read.
LEMMA ConfigTyped ==
    ASSUME KeyInv, Config # Mixed
    PROVE  Config \in Seq(Entry) /\ Alone(Config) /\ Made(Config, keysMade)
<1>1. CASE live = 0
    <2>1. Config = <<>>
        BY <1>1 DEF Config
    <2>2. <<>> \in Seq(Entry) /\ DOMAIN <<>> = {}
        OBVIOUS
    <2>3. QED
        BY <2>1, <2>2 DEF Alone, Made
<1>2. CASE live # 0
    <2>1. live \in Inodes /\ Config = content[live]
        BY <1>2 DEF Config, KeyInv, KeyTypes
    <2>2. QED
        BY <2>1 DEF KeyInv, KeyTypes, AllAlone
<1>3. QED
    BY <1>1, <1>2

\* What a command has in mind, when it has read the file.
LEMMA AddedEntry ==
    ASSUME KeyInv, NEW n \in KeyNames, Config # Mixed, Admit(Config, n), keysMade < MaxKeys,
           NEW es, es = Append(Config, [name |-> n, key |-> keysMade + 1, revoked |-> FALSE])
    PROVE  /\ es \in Seq(Entry) /\ Alone(es) /\ Made(es, keysMade + 1)
           /\ \A T : Covers(Config, T) => Covers(es, T \cup {<<"add", n>>})
<1> DEFINE e == [name |-> n, key |-> keysMade + 1, revoked |-> FALSE]
<1>1. Config \in Seq(Entry) /\ Alone(Config) /\ Made(Config, keysMade)
    BY ConfigTyped
<1>2. keysMade \in Nat /\ MaxKeys \in Nat
    BY KeyFileAssumption DEF KeyInv, KeyTypes
<1>3. e \in Entry
    BY <1>2 DEF Entry, Material
<1>4. /\ es \in Seq(Entry) /\ DOMAIN es = DOMAIN Config \cup {Len(Config) + 1}
      /\ es[Len(Config) + 1] = e /\ Len(Config) + 1 \notin DOMAIN Config
      /\ \A i \in DOMAIN Config : es[i] = Config[i]
    BY <1>1, <1>3
<1>5. \A i \in DOMAIN Config : Config[i].name # n /\ Config[i].key <= keysMade /\ Config[i].key \in Nat
    <2>1. \A i \in DOMAIN Config : Config[i].name # n
        BY DEF Admit, Named
    <2>2. \A i \in DOMAIN Config : Config[i] \in Entry
        BY <1>1
    <2>3. QED
        BY <1>1, <2>1, <2>2 DEF Made, Entry, Material
<1>6. e.name = n /\ e.key = keysMade + 1
    OBVIOUS
<1> HIDE DEF e
<1>7. Alone(es)
    <2> SUFFICES ASSUME NEW i \in DOMAIN es, NEW j \in DOMAIN es, i # j
                 PROVE  es[i].name # es[j].name /\ es[i].key # es[j].key
        BY DEF Alone
    <2>1. CASE i \in DOMAIN Config /\ j \in DOMAIN Config
        BY <1>1, <1>4, <2>1 DEF Alone
    <2>2. CASE i = Len(Config) + 1 \/ j = Len(Config) + 1
        BY <1>2, <1>4, <1>5, <1>6, <2>2
    <2>3. QED
        BY <1>4, <2>1, <2>2
<1>8. Made(es, keysMade + 1)
    BY <1>2, <1>4, <1>5, <1>6 DEF Made
<1>9. ASSUME NEW T, Covers(Config, T) PROVE Covers(es, T \cup {<<"add", n>>})
    <2> SUFFICES ASSUME NEW t \in T \cup {<<"add", n>>}
                 PROVE  \E i \in DOMAIN es : es[i].name = t[2] /\ (t[1] = "revoke" => es[i].revoked)
        BY DEF Covers, Named
    <2>1. CASE t \in T
        <3>1. PICK i \in DOMAIN Config : Config[i].name = t[2] /\ (t[1] = "revoke" => Config[i].revoked)
            BY <1>9, <2>1 DEF Covers, Named
        <3>2. QED
            BY <1>4, <3>1
    <2>2. CASE t = <<"add", n>>
        BY <1>4, <1>6, <2>2
    <2>3. QED
        BY <2>1, <2>2
<1>10. QED
    BY <1>4, <1>7, <1>8, <1>9

LEMMA RevokedEntry ==
    ASSUME KeyInv, NEW n \in KeyNames, Config # Mixed, NEW first \in Named(Config, n),
           NEW es, es = [Config EXCEPT ![first].revoked = TRUE]
    PROVE  /\ es \in Seq(Entry) /\ Alone(es) /\ Made(es, keysMade)
           /\ \A T : Covers(Config, T) => Covers(es, T \cup {<<"revoke", n>>})
<1>1. Config \in Seq(Entry) /\ Alone(Config) /\ Made(Config, keysMade)
    BY ConfigTyped
<1>2. first \in DOMAIN Config /\ Config[first].name = n
    BY DEF Named
<1>3. \A i \in DOMAIN Config : Config[i] \in Entry
    BY <1>1
<1>4. /\ es \in Seq(Entry) /\ DOMAIN es = DOMAIN Config
      /\ \A i \in DOMAIN Config : es[i].name = Config[i].name /\ es[i].key = Config[i].key
      /\ \A i \in DOMAIN Config : Config[i].revoked => es[i].revoked
      /\ es[first].revoked
    <2>1. \A i \in DOMAIN Config : es[i] = IF i = first THEN [Config[i] EXCEPT !.revoked = TRUE] ELSE Config[i]
        BY <1>2
    <2>2. [Config[first] EXCEPT !.revoked = TRUE] \in Entry
        BY <1>2, <1>3 DEF Entry
    <2>3. es \in Seq(Entry) /\ DOMAIN es = DOMAIN Config
        BY <1>1, <1>2, <2>2
    <2>4. \A i \in DOMAIN Config : es[i].name = Config[i].name /\ es[i].key = Config[i].key
        BY <1>3, <2>1 DEF Entry
    <2>5. es[first].revoked
        BY <1>2, <1>3, <2>1 DEF Entry
    <2>6. \A i \in DOMAIN Config : Config[i].revoked => es[i].revoked
        BY <2>1, <2>5
    <2>7. QED
        BY <2>3, <2>4, <2>5, <2>6
<1>5. Alone(es) /\ Made(es, keysMade)
    BY <1>1, <1>4 DEF Alone, Made
<1>6. ASSUME NEW T, Covers(Config, T) PROVE Covers(es, T \cup {<<"revoke", n>>})
    <2> SUFFICES ASSUME NEW t \in T \cup {<<"revoke", n>>}
                 PROVE  \E i \in DOMAIN es : es[i].name = t[2] /\ (t[1] = "revoke" => es[i].revoked)
        BY DEF Covers, Named
    <2>1. CASE t \in T
        <3>1. PICK i \in DOMAIN Config : Config[i].name = t[2] /\ (t[1] = "revoke" => Config[i].revoked)
            BY <1>6, <2>1 DEF Covers, Named
        <3>2. QED
            BY <1>4, <3>1
    <2>2. CASE t = <<"revoke", n>>
        BY <1>2, <1>4, <2>2
    <2>3. QED
        BY <2>1, <2>2
<1>7. QED
    BY <1>4, <1>5, <1>6

\* A command begins: what it will write holds all there is and its own change.
LEMMA BeginsKeeps ==
    ASSUME KeyInv, NEW p \in Admins, NEW op \in {"add", "revoke"}, NEW n \in KeyNames, NEW es \in Seq(Entry),
           apc[p] = "idle", Config # Mixed, Begins(p, op, n, es), keysMade' \in keysMade..MaxKeys,
           Alone(es), Made(es, keysMade'),
           \A T : Covers(Config, T) => Covers(es, T \cup {<<op, n>>})
    PROVE  KeyInv'
<1> DEFINE d == [op |-> op, name |-> n, fd |-> 0, entries |-> es]
<1>1. KeyTypes /\ AllAlone /\ Uncrossed /\ keysMade \in Nat /\ MaxKeys \in Nat
    BY KeyFileAssumption DEF KeyInv, KeyTypes
<1>2. /\ apc' = [apc EXCEPT ![p] = "open"] /\ draft' = [draft EXCEPT ![p] = d]
      /\ crossed' = (crossed \/ \E q \in Admins : apc[q] # "idle")
      /\ UNCHANGED <<live, tmp, content, loaded, told, toldAtStart>>
    BY DEF Begins
<1>3. d \in Drafts
    BY DEF Drafts
<1>4. /\ d.entries = es /\ d.op = op /\ d.name = n
    OBVIOUS
<1> HIDE DEF d
<1>5. /\ apc'[p] = "open" /\ draft'[p] = d
      /\ \A q \in Admins \ {p} : apc'[q] = apc[q] /\ draft'[q] = draft[q]
    BY <1>1, <1>2 DEF KeyTypes
<1>6. KeyTypes'
    <2>1. apc' \in [Admins -> {"idle", "open", "fill", "rename"}]
        BY <1>1, <1>2 DEF KeyTypes
    <2>2. draft' \in [Admins -> Drafts]
        BY <1>1, <1>2, <1>3 DEF KeyTypes
    <2>3. keysMade' \in 0..MaxKeys /\ crossed' \in BOOLEAN
        BY <1>1, <1>2
    <2>4. QED
        BY <1>1, <1>2, <2>1, <2>2, <2>3 DEF KeyTypes
<1>7. AllAlone'
    <2>0. \A es1 \in Seq(Entry) : Made(es1, keysMade) => Made(es1, keysMade')
        <3> SUFFICES ASSUME NEW es1 \in Seq(Entry), Made(es1, keysMade), NEW i \in DOMAIN es1
                     PROVE  es1[i].key <= keysMade'
            BY DEF Made
        <3>1. es1[i].key \in Nat /\ es1[i].key <= keysMade
            <4>1. es1[i] \in Entry
                OBVIOUS
            <4>2. QED
                BY <4>1 DEF Made, Entry, Material
        <3>2. QED
            BY <1>1, <3>1
    <2>1. ASSUME NEW i \in Inodes, content[i] # Mixed PROVE Alone(content[i]) /\ Made(content[i], keysMade')
        BY <1>1, <2>0, <2>1 DEF AllAlone, KeyTypes
    <2>2. ASSUME NEW q \in Admins PROVE Alone(draft'[q].entries) /\ Made(draft'[q].entries, keysMade')
        <3>1. CASE q = p
            BY <1>4, <1>5, <3>1
        <3>2. CASE q # p
            <4>1. draft[q].entries \in Seq(Entry)
                BY <1>1 DEF KeyTypes, Drafts
            <4>2. QED
                BY <1>1, <1>5, <2>0, <3>2, <4>1 DEF AllAlone
        <3>3. QED
            BY <3>1, <3>2
    <2>3. \A q \in Admins : apc'[q] \in {"fill", "rename"} => draft'[q].fd # 0
        BY <1>1, <1>5 DEF AllAlone
    <2>4. QED
        BY <1>2, <2>1, <2>2, <2>3 DEF AllAlone
<1>8. Uncrossed'
    <2> SUFFICES ASSUME ~crossed' PROVE /\ \A q, r \in Commanding' : q = r
                                        /\ Config' # Mixed /\ Covers(Config', told')
                                        /\ \A q \in Commanding' : DraftHolds(q)'
                                        /\ loaded' # NotUp => Alone(loaded') /\ Covers(loaded', toldAtStart')
        BY DEF Uncrossed
    <2>1. ~crossed /\ \A q \in Admins : apc[q] = "idle"
        BY <1>2
    <2>2. Commanding' = {p}
        BY <1>5, <2>1 DEF Commanding
    <2>3. Config' = Config /\ Covers(Config, told)
        BY <1>1, <1>2, <2>1 DEF Uncrossed, Config
    <2>4. DraftHolds(p)'
        <3>1. Covers(es, told \cup {<<op, n>>})
            BY <2>3
        <3>2. QED
            BY <1>2, <1>4, <1>5, <3>1 DEF DraftHolds
    <2>5. QED
        BY <1>1, <1>2, <2>1, <2>2, <2>3, <2>4 DEF Uncrossed
<1>9. QED
    BY <1>6, <1>7, <1>8 DEF KeyInv

LEMMA AddAndRevokeKeep ==
    ASSUME KeyInv, NEW p \in Admins, NEW n \in KeyNames, AddKey(p, n) \/ RevokeKey(p, n)
    PROVE  KeyInv'
<1>0. keysMade \in Nat /\ MaxKeys \in Nat /\ keysMade <= MaxKeys
    BY KeyFileAssumption DEF KeyInv, KeyTypes
<1>1. CASE AddKey(p, n)
    <2> DEFINE es == Append(Config, [name |-> n, key |-> keysMade + 1, revoked |-> FALSE])
    <2>1. /\ apc[p] = "idle" /\ keysMade < MaxKeys /\ Config # Mixed /\ Admit(Config, n)
          /\ keysMade' = keysMade + 1 /\ Begins(p, "add", n, es)
        BY <1>1 DEF AddKey
    <2> HIDE DEF es
    <2>2. /\ es \in Seq(Entry) /\ Alone(es) /\ Made(es, keysMade + 1)
          /\ \A T : Covers(Config, T) => Covers(es, T \cup {<<"add", n>>})
        BY <2>1, AddedEntry DEF es
    <2>3. keysMade' \in keysMade..MaxKeys /\ Made(es, keysMade')
        BY <1>0, <2>1, <2>2
    <2>4. QED
        BY <2>1, <2>2, <2>3, BeginsKeeps
<1>2. CASE RevokeKey(p, n)
    <2> DEFINE first == CHOOSE i \in Named(Config, n) : \A j \in Named(Config, n) : i <= j
               es == [Config EXCEPT ![first].revoked = TRUE]
    <2>1. /\ apc[p] = "idle" /\ Config # Mixed /\ Named(Config, n) # {} /\ keysMade' = keysMade
          /\ Begins(p, "revoke", n, es)
        BY <1>2 DEF RevokeKey
    <2>2. first \in Named(Config, n)
        <3>1. Config \in Seq(Entry) /\ Alone(Config)
            BY <2>1, ConfigTyped
        <3>2. PICK i \in Named(Config, n) : TRUE
            BY <2>1
        <3>3. \A j \in Named(Config, n) : j = i
            BY <3>1, <3>2 DEF Alone, Named
        <3>4. i \in Nat
            BY <3>1, <3>2 DEF Named
        <3>5. \A j \in Named(Config, n) : i <= j
            BY <3>3, <3>4
        <3>6. QED
            BY <3>5
    <2> HIDE DEF es, first
    <2>3. /\ es \in Seq(Entry) /\ Alone(es) /\ Made(es, keysMade)
          /\ \A T : Covers(Config, T) => Covers(es, T \cup {<<"revoke", n>>})
        BY <2>1, <2>2, RevokedEntry DEF es
    <2>4. keysMade' \in keysMade..MaxKeys /\ Made(es, keysMade')
        BY <1>0, <2>1, <2>3
    <2>5. QED
        BY <2>1, <2>3, <2>4, BeginsKeeps
<1>3. QED
    BY <1>1, <1>2

\* The temporary file, opened and emptied: never the one the server would read.
LEMMA OpenKeepsKeys ==
    ASSUME KeyInv, NEW p \in Admins, OpenTmp(p)
    PROVE  KeyInv'
<1>1. KeyTypes /\ AllAlone /\ Uncrossed
    BY DEF KeyInv
<1> DEFINE t == Target
<1>2. t \in Inodes /\ t # live /\ (tmp # 0 => t = tmp) /\ t # 0
    BY <1>1, TargetIsFresh, FS_CardinalityType, KeyFileAssumption DEF Inodes
<1>3. /\ apc[p] = "open" /\ apc' = [apc EXCEPT ![p] = "fill"]
      /\ content' = [content EXCEPT ![t] = <<>>] /\ tmp' = t /\ draft' = [draft EXCEPT ![p].fd = t]
      /\ UNCHANGED <<live, keysMade, commands, loaded, told, toldAtStart, crossed>>
    BY DEF OpenTmp, keyPast
<1> HIDE DEF t
<1>4. /\ apc'[p] = "fill" /\ \A q \in Admins \ {p} : apc'[q] = apc[q] /\ draft'[q] = draft[q]
      /\ content'[t] = <<>> /\ \A i \in Inodes \ {t} : content'[i] = content[i]
    BY <1>1, <1>2, <1>3 DEF KeyTypes
<1>5. /\ draft'[p] \in Drafts /\ draft'[p].entries = draft[p].entries /\ draft'[p].fd = t
      /\ draft'[p].op = draft[p].op /\ draft'[p].name = draft[p].name
    <2>1. draft[p] \in Drafts
        BY <1>1 DEF KeyTypes
    <2>2. draft'[p] = [draft[p] EXCEPT !.fd = t]
        BY <1>1, <1>3 DEF KeyTypes
    <2>3. QED
        BY <1>2, <2>1, <2>2 DEF Drafts
<1>6. KeyTypes'
    <2>1. draft' \in [Admins -> Drafts]
        <3>1. DOMAIN draft' = Admins /\ draft' = [q \in Admins |-> draft'[q]]
            BY <1>1, <1>3 DEF KeyTypes
        <3>2. \A q \in Admins : draft'[q] \in Drafts
            BY <1>1, <1>4, <1>5 DEF KeyTypes
        <3>3. QED
            BY <3>1, <3>2
    <2>2. content' \in [Inodes -> Seq(Entry) \cup {Mixed}]
        <3>1. <<>> \in Seq(Entry)
            OBVIOUS
        <3>2. QED
            BY <1>1, <1>2, <1>3, <3>1 DEF KeyTypes
    <2>3. apc' \in [Admins -> {"idle", "open", "fill", "rename"}]
        BY <1>1, <1>3 DEF KeyTypes
    <2>4. tmp' \in Inodes \cup {0} /\ live' \in Inodes \cup {0} /\ (live' = tmp' => live' = 0)
        BY <1>1, <1>2, <1>3 DEF KeyTypes
    <2>5. keysMade' \in 0..MaxKeys /\ crossed' \in BOOLEAN
        BY <1>1, <1>3 DEF KeyTypes
    <2>6. QED
        BY <2>1, <2>2, <2>3, <2>4, <2>5 DEF KeyTypes
<1>7. AllAlone'
    <2>1. Alone(<<>>) /\ Made(<<>>, keysMade)
        BY DEF Alone, Made
    <2>2. \A i \in Inodes : content'[i] # Mixed => Alone(content'[i]) /\ Made(content'[i], keysMade)
        <3> SUFFICES ASSUME NEW i \in Inodes, content'[i] # Mixed
                     PROVE  Alone(content'[i]) /\ Made(content'[i], keysMade)
            OBVIOUS
        <3>1. CASE i = t
            BY <1>4, <2>1, <3>1
        <3>2. CASE i # t
            BY <1>1, <1>4, <3>2 DEF AllAlone
        <3>3. QED
            BY <3>1, <3>2
    <2>3. \A q \in Admins : draft'[q].entries = draft[q].entries
        BY <1>4, <1>5
    <2>4. \A q \in Admins : apc'[q] \in {"fill", "rename"} => draft'[q].fd # 0
        BY <1>1, <1>2, <1>4, <1>5 DEF AllAlone
    <2>5. QED
        BY <1>1, <1>3, <2>2, <2>3, <2>4 DEF AllAlone
<1>8. Uncrossed'
    <2> SUFFICES ASSUME ~crossed PROVE /\ \A q, r \in Commanding' : q = r
                                       /\ Config' # Mixed /\ Covers(Config', told)
                                       /\ \A q \in Commanding' : DraftHolds(q)'
                                       /\ loaded # NotUp => Alone(loaded) /\ Covers(loaded, toldAtStart)
        BY <1>3 DEF Uncrossed
    <2>1. Commanding' = Commanding /\ p \in Commanding
        BY <1>3, <1>4 DEF Commanding
    <2>2. Commanding = {p}
        BY <1>1, <2>1 DEF Uncrossed
    <2>3. Config' = Config
        <3>1. CASE live = 0
            BY <1>3, <3>1 DEF Config
        <3>2. CASE live # 0
            <4>1. live \in Inodes \ {t}
                BY <1>1, <1>2, <3>2 DEF KeyTypes
            <4>2. QED
                BY <1>3, <1>4, <3>2, <4>1 DEF Config
        <3>3. QED
            BY <3>1, <3>2
    <2>4. Covers(draft[p].entries, told \cup {<<draft[p].op, draft[p].name>>})
        BY <1>1, <2>1 DEF Uncrossed, DraftHolds
    <2>5. DraftHolds(p)'
        BY <1>2, <1>3, <1>4, <1>5, <2>4 DEF DraftHolds
    <2>6. QED
        BY <1>1, <2>1, <2>2, <2>3, <2>5 DEF Uncrossed
<1>9. QED
    BY <1>6, <1>7, <1>8 DEF KeyInv

\* Its text, written: over what was written meanwhile only where commands crossed.
LEMMA FillKeeps ==
    ASSUME KeyInv, NEW p \in Admins, Fill(p)
    PROVE  KeyInv'
<1>1. KeyTypes /\ AllAlone /\ Uncrossed
    BY DEF KeyInv
<1> DEFINE f == draft[p].fd
<1>2. PICK c \in {draft[p].entries} \cup (IF content[f] \in {<<>>, draft[p].entries} THEN {} ELSE {Mixed}) :
          content' = [content EXCEPT ![f] = c]
    BY DEF Fill
<1>3. /\ apc[p] = "fill" /\ apc' = [apc EXCEPT ![p] = "rename"]
      /\ UNCHANGED <<live, tmp, draft, keysMade, commands, loaded, told, toldAtStart, crossed>>
    BY DEF Fill, keyPast
<1>4. draft[p] \in Drafts /\ f \in Inodes
    BY <1>1, <1>3 DEF KeyTypes, AllAlone, Drafts
<1>5. draft[p].entries \in Seq(Entry) /\ (c = draft[p].entries \/ c = Mixed)
    BY <1>4 DEF Drafts
<1> HIDE DEF f
<1>6. /\ apc'[p] = "rename" /\ \A q \in Admins \ {p} : apc'[q] = apc[q]
      /\ content'[f] = c /\ \A i \in Inodes \ {f} : content'[i] = content[i]
    BY <1>1, <1>2, <1>3, <1>4 DEF KeyTypes
<1>7. KeyTypes'
    <2>1. content' \in [Inodes -> Seq(Entry) \cup {Mixed}]
        BY <1>1, <1>2, <1>5 DEF KeyTypes
    <2>2. apc' \in [Admins -> {"idle", "open", "fill", "rename"}]
        BY <1>1, <1>3 DEF KeyTypes
    <2>3. QED
        BY <1>1, <1>3, <2>1, <2>2 DEF KeyTypes
<1>8. AllAlone'
    <2>1. \A i \in Inodes : content'[i] # Mixed => Alone(content'[i]) /\ Made(content'[i], keysMade)
        <3> SUFFICES ASSUME NEW i \in Inodes, content'[i] # Mixed
                     PROVE  Alone(content'[i]) /\ Made(content'[i], keysMade)
            OBVIOUS
        <3>1. CASE i = f
            BY <1>1, <1>5, <1>6, <3>1 DEF AllAlone
        <3>2. CASE i # f
            BY <1>1, <1>6, <3>2 DEF AllAlone
        <3>3. QED
            BY <3>1, <3>2
    <2>2. \A q \in Admins : apc'[q] \in {"fill", "rename"} => draft[q].fd # 0
        BY <1>1, <1>3, <1>6 DEF AllAlone
    <2>3. QED
        BY <1>1, <1>3, <2>1, <2>2 DEF AllAlone
<1>9. Uncrossed'
    <2> SUFFICES ASSUME ~crossed PROVE /\ \A q, r \in Commanding' : q = r
                                       /\ Config' # Mixed /\ Covers(Config', told)
                                       /\ \A q \in Commanding' : DraftHolds(q)'
                                       /\ loaded # NotUp => Alone(loaded) /\ Covers(loaded, toldAtStart)
        BY <1>3 DEF Uncrossed
    <2>1. Commanding' = Commanding /\ p \in Commanding
        BY <1>3, <1>6 DEF Commanding
    <2>2. Commanding = {p}
        BY <1>1, <2>1 DEF Uncrossed
    <2>3. /\ Covers(draft[p].entries, told \cup {<<draft[p].op, draft[p].name>>})
          /\ tmp # 0 /\ f = tmp /\ content[tmp] = <<>>
        BY <1>1, <1>3, <2>1 DEF Uncrossed, DraftHolds, f
    <2>4. c = draft[p].entries
        BY <2>3, <1>2
    <2>5. f # live
        BY <1>1, <2>3 DEF KeyTypes
    <2>6. Config' = Config
        <3>1. CASE live = 0
            BY <1>3, <3>1 DEF Config
        <3>2. CASE live # 0
            <4>1. live \in Inodes \ {f}
                BY <1>1, <2>5, <3>2 DEF KeyTypes
            <4>2. QED
                BY <1>3, <1>6, <3>2, <4>1 DEF Config
        <3>3. QED
            BY <3>1, <3>2
    <2>7. DraftHolds(p)'
        BY <1>3, <1>6, <2>3, <2>4 DEF DraftHolds, f
    <2>8. QED
        BY <1>1, <2>1, <2>2, <2>6, <2>7 DEF Uncrossed
<1>10. QED
    BY <1>7, <1>8, <1>9 DEF KeyInv

\* The rename, which tells the operator, and a command that dies.
LEMMA EndsKeeps ==
    ASSUME KeyInv, NEW p \in Admins, Rename(p) \/ AdminDies(p)
    PROVE  KeyInv'
<1>1. KeyTypes /\ AllAlone /\ Uncrossed
    BY DEF KeyInv
<1>2. /\ apc[p] # "idle" /\ apc' = [apc EXCEPT ![p] = "idle"] /\ draft' = [draft EXCEPT ![p] = NoDraft]
      /\ UNCHANGED <<content, keysMade, commands, loaded, toldAtStart, crossed>>
    BY DEF Rename, AdminDies, Ends
<1>3. \/ UNCHANGED <<live, tmp, told>> /\ (apc[p] = "rename" => tmp = 0 \/ AdminDies(p))
      \/ /\ apc[p] = "rename" /\ tmp # 0 /\ live' = tmp /\ tmp' = 0
         /\ told' = told \cup {<<draft[p].op, draft[p].name>>}
    BY DEF Rename, AdminDies
<1>4. NoDraft \in Drafts /\ NoDraft.entries = <<>>
    <2>1. <<>> \in Seq(Entry)
        OBVIOUS
    <2>2. QED
        BY <2>1 DEF NoDraft, Drafts
<1>5. /\ apc'[p] = "idle" /\ draft'[p] = NoDraft
      /\ \A q \in Admins \ {p} : apc'[q] = apc[q] /\ draft'[q] = draft[q]
    BY <1>1, <1>2 DEF KeyTypes
<1>6. KeyTypes'
    <2>1. draft' \in [Admins -> Drafts]
        BY <1>1, <1>2, <1>4 DEF KeyTypes
    <2>2. apc' \in [Admins -> {"idle", "open", "fill", "rename"}]
        BY <1>1, <1>2 DEF KeyTypes
    <2>3. live' \in Inodes \cup {0} /\ tmp' \in Inodes \cup {0} /\ (live' = tmp' => live' = 0)
        BY <1>1, <1>3 DEF KeyTypes
    <2>4. QED
        BY <1>1, <1>2, <2>1, <2>2, <2>3 DEF KeyTypes
<1>7. AllAlone'
    <2>1. Alone(<<>>) /\ Made(<<>>, keysMade)
        BY DEF Alone, Made
    <2>2. \A q \in Admins : Alone(draft'[q].entries) /\ Made(draft'[q].entries, keysMade)
        BY <1>1, <1>4, <1>5, <2>1 DEF AllAlone
    <2>3. \A q \in Admins : apc'[q] \in {"fill", "rename"} => draft'[q].fd # 0
        BY <1>1, <1>5 DEF AllAlone
    <2>4. QED
        BY <1>1, <1>2, <2>2, <2>3 DEF AllAlone
<1>8. Uncrossed'
    <2> SUFFICES ASSUME ~crossed PROVE /\ \A q, r \in Commanding' : q = r
                                       /\ Config' # Mixed /\ Covers(Config', told')
                                       /\ \A q \in Commanding' : DraftHolds(q)'
                                       /\ loaded # NotUp => Alone(loaded) /\ Covers(loaded, toldAtStart)
        BY <1>2 DEF Uncrossed
    <2>1. Commanding' = {} /\ p \in Commanding
        <3>1. p \in Commanding
            BY <1>2 DEF Commanding
        <3>2. \A q \in Admins \ {p} : apc[q] = "idle"
            BY <1>1, <3>1 DEF Uncrossed, Commanding
        <3>3. QED
            BY <3>1, <3>2, <1>5 DEF Commanding
    <2>2. Config' # Mixed /\ Covers(Config', told')
        <3>1. CASE UNCHANGED <<live, tmp, told>>
            <4>1. Config' = Config
                BY <1>2, <3>1 DEF Config
            <4>2. QED
                BY <1>1, <3>1, <4>1 DEF Uncrossed
        <3>2. CASE /\ apc[p] = "rename" /\ tmp # 0 /\ live' = tmp
                   /\ told' = told \cup {<<draft[p].op, draft[p].name>>}
            <4>1. /\ Covers(draft[p].entries, told \cup {<<draft[p].op, draft[p].name>>})
                  /\ content[tmp] = draft[p].entries
                BY <1>1, <2>1, <3>2 DEF Uncrossed, DraftHolds
            <4>2. Config' = draft[p].entries
                BY <1>2, <3>2, <4>1 DEF Config
            <4>3. draft[p].entries # Mixed
                BY <1>1, MixedIsNoList DEF KeyTypes, Drafts
            <4>4. QED
                BY <3>2, <4>1, <4>2, <4>3
        <3>3. QED
            BY <1>3, <3>1, <3>2
    <2>3. QED
        BY <1>1, <2>1, <2>2 DEF Uncrossed
<1>9. QED
    BY <1>6, <1>7, <1>8 DEF KeyInv

LEMMA KeyBegins == KeyInit => KeyInv
<1> SUFFICES ASSUME KeyInit PROVE KeyInv
    OBVIOUS
<1>0. <<>> \in Seq(Entry) /\ Alone(<<>>) /\ \A n : Made(<<>>, n)
    BY DEF Alone, Made
<1>1. KeyTypes
    <2>1. NoDraft \in Drafts
        BY <1>0 DEF NoDraft, Drafts
    <2>2. draft \in [Admins -> Drafts] /\ apc \in [Admins -> {"idle", "open", "fill", "rename"}]
        BY <2>1 DEF KeyInit
    <2>3. content \in [Inodes -> Seq(Entry) \cup {Mixed}]
        BY <1>0 DEF KeyInit
    <2>4. live \in Inodes \cup {0} /\ tmp \in Inodes \cup {0} /\ live = 0
        BY DEF KeyInit
    <2>5. keysMade \in 0..MaxKeys
        <3>1. MaxKeys \in Nat
            BY KeyFileAssumption
        <3>2. QED
            BY <3>1 DEF KeyInit
    <2>6. crossed \in BOOLEAN
        BY DEF KeyInit
    <2>7. QED
        BY <2>2, <2>3, <2>4, <2>5, <2>6 DEF KeyTypes
<1>2. AllAlone
    <2>1. \A q \in Admins : draft[q].entries = <<>> /\ apc[q] = "idle"
        BY DEF KeyInit, NoDraft
    <2>2. QED
        BY <1>0, <2>1 DEF KeyInit, AllAlone
<1>3. Uncrossed
    <2>1. Config = <<>> /\ told = {} /\ Commanding = {} /\ loaded = NotUp
        BY DEF KeyInit, Config, Commanding
    <2>2. Mixed # <<>>
        BY <1>0, MixedIsNoList
    <2>3. QED
        BY <2>1, <2>2 DEF Uncrossed, Covers
<1>4. QED
    BY <1>1, <1>2, <1>3 DEF KeyInv

LEMMA KeyInductive == KeyInv /\ [KeyNext]_keyVars => KeyInv'
<1> SUFFICES ASSUME KeyInv, [KeyNext]_keyVars PROVE KeyInv'
    OBVIOUS
<1>1. ASSUME NEW p \in Admins, NEW n \in KeyNames, AddKey(p, n) \/ RevokeKey(p, n) PROVE KeyInv'
    BY <1>1, AddAndRevokeKeep
<1>2. ASSUME NEW p \in Admins, OpenTmp(p) PROVE KeyInv'
    BY <1>2, OpenKeepsKeys
<1>3. ASSUME NEW p \in Admins, Fill(p) PROVE KeyInv'
    BY <1>3, FillKeeps
<1>4. ASSUME NEW p \in Admins, Rename(p) \/ AdminDies(p) PROVE KeyInv'
    BY <1>4, EndsKeeps
<1>5. CASE ServerStarts
    <2>1. /\ Config # Mixed /\ loaded' = Config /\ toldAtStart' = told
          /\ UNCHANGED <<live, tmp, content, apc, draft, keysMade, commands, told, crossed>>
        BY <1>5 DEF ServerStarts
    <2>2. KeyTypes' /\ AllAlone' /\ Config' = Config /\ Commanding' = Commanding
        BY <2>1 DEF KeyInv, KeyTypes, AllAlone, Config, Commanding
    <2>3. \A p \in Admins : DraftHolds(p) => DraftHolds(p)'
        BY <2>1 DEF DraftHolds
    <2>4. Alone(Config)
        BY <2>1, ConfigTyped
    <2>5. Uncrossed'
        BY <2>1, <2>2, <2>3, <2>4 DEF KeyInv, Uncrossed, Commanding
    <2>6. QED
        BY <2>2, <2>5 DEF KeyInv
<1>6. CASE UNCHANGED keyVars
    <2>1. UNCHANGED <<live, tmp, content, apc, draft, keysMade, loaded, told, toldAtStart, crossed>>
        BY <1>6 DEF keyVars
    <2>2. KeyTypes' /\ AllAlone' /\ Config' = Config /\ Commanding' = Commanding
        BY <2>1 DEF KeyInv, KeyTypes, AllAlone, Config, Commanding
    <2>3. \A p \in Admins : DraftHolds(p) => DraftHolds(p)'
        BY <2>1 DEF DraftHolds
    <2>4. Uncrossed'
        BY <2>1, <2>2, <2>3 DEF KeyInv, Uncrossed, Commanding
    <2>5. QED
        BY <2>2, <2>4 DEF KeyInv
<1>7. QED
    BY <1>1, <1>2, <1>3, <1>4, <1>5, <1>6 DEF KeyNext

\* Without a lock: names and keys stay alone however commands cross, commands that do not
\* cross keep each other's work, and a server refuses what had been revoked when it started.
THEOREM KeysStayInControl == KeySpec => []KeysAreKept
<1>1. KeyInv => KeysAreKept
    <2> SUFFICES ASSUME KeyInv PROVE KeysAreKept
        OBVIOUS
    <2>0. KeyTypes /\ AllAlone /\ Uncrossed
        BY DEF KeyInv
    <2>1. KeyTypeOK
        BY <2>0 DEF KeyTypes, KeyTypeOK
    <2>2. KeysAreAlone
        BY <2>0 DEF KeyTypes, AllAlone, Alone, KeysAreAlone
    <2>3. ChangesStay
        BY <2>0 DEF Uncrossed, Covers, ChangesStay
    <2>4. RevokedIsRefused
        <3> SUFFICES ASSUME ~crossed, loaded # NotUp, NEW i \in DOMAIN loaded,
                            <<"revoke", loaded[i].name>> \in toldAtStart
                     PROVE  ~Accepts(loaded, loaded[i].key)
            BY DEF RevokedIsRefused
        <3>1. Alone(loaded) /\ Covers(loaded, toldAtStart)
            BY <2>0 DEF Uncrossed
        <3>2. PICK j \in DOMAIN loaded : loaded[j].name = loaded[i].name /\ loaded[j].revoked
            BY <3>1 DEF Covers, Named
        <3>3. j = i
            BY <3>1, <3>2 DEF Alone
        <3>4. i \in Matches(loaded, loaded[i].key) /\ loaded[i].revoked
            BY <3>2, <3>3 DEF Matches
        <3>5. QED
            BY <3>4 DEF Accepts
    <2>5. QED
        BY <2>1, <2>2, <2>3, <2>4 DEF KeysAreKept
<1>2. QED
    BY <1>1, KeyBegins, KeyInductive, PTL DEF KeySpec

----------------------------------------------------------------------------
\* AuditLog. Where the text of an event is, or will be.

\* AppendRecords under way, and where the text of an event is or will be.
AppendRecords == [event : AuditEvents, file : AuditFiles, texted : BOOLEAN]
AuditTypes ==
    /\ day \in 0..LastDay /\ eventsMade \in 0..MaxEvents /\ rotations \in 0..MaxRotations
    /\ current \in {0, rotations + 1} /\ rotated \in [0..LastDay -> 0..rotations]
    /\ written \in [AuditFiles -> Seq(Nat)] /\ beganOn \in [AuditEvents -> 0..day]
    /\ appends \in [Loggers -> AppendRecords \cup {NoAppend}]
    /\ \A l \in Appending : appends[l].event <= eventsMade /\ appends[l].file <= rotations + 1
    /\ audited \subseteq 1..eventsMade /\ glued \in BOOLEAN
    /\ \A f \in AuditFiles : \A i \in DOMAIN written[f] : written[f][i] \in {EndOfLine, CutShort} \cup 1..eventsMade
    /\ sweep \in [today : 0..day, dates : SUBSET (0..LastDay)]

Texted(l) == appends[l].texted
Bound(f, e) == Holds(f, e) \/ \E l \in Appending : appends[l].file = f /\ appends[l].event = e

\* No event is of a later day than the date its file is put by.
NoneIsLater ==
    \A f \in AuditFiles, e \in 1..eventsMade, d \in 0..LastDay :
        Bound(f, e) /\ rotated[d] = f => beganOn[e] <= d

\* Where file f has gone, as far as it matters to event e.
Findable(f, e) == AtPath(f) \/ f \in buried \/ day > beganOn[e] + RetentionDays
Placed(a) == Findable(a.file, a.event) /\ (a.texted => Holds(a.file, a.event))
AppendsFindable == \A a \in AppendRecords : (\E l \in Loggers : appends[l] = a) => Placed(a)

\* A file has an odd number of pieces while its last event lacks the line end.
Halfway(f) == \E l \in Appending : Texted(l) /\ appends[l].file = f
OddWhileHalfway ==
    ~glued => /\ \A l, m \in Appending : l = m
              /\ \A f \in AuditFiles : Len(written[f]) % 2 = 1 <=> Halfway(f)

AuditInv == AuditTypes /\ NoneIsLater /\ AppendsFindable /\ EventsAreRetained /\ LinesAreWhole /\ OddWhileHalfway

LEMMA AuditFacts ==
    ASSUME AuditTypes
    PROVE  /\ MaxRotations \in Nat /\ MaxEvents \in Nat /\ LastDay \in Nat /\ RetentionDays \in Nat
           /\ day \in Nat /\ rotations \in Nat /\ eventsMade \in Nat
           /\ 0 \notin AuditFiles /\ rotations + 1 \in AuditFiles /\ AuditFiles \subseteq Nat
           /\ \A l \in Loggers : l \in Appending <=> appends[l] # NoAppend
           /\ \A l \in Appending : /\ appends[l] \in AppendRecords /\ appends[l].event \in 1..eventsMade
                                   /\ appends[l].file \in AuditFiles /\ appends[l].texted \in BOOLEAN
<1>1. /\ MaxRotations \in Nat /\ MaxEvents \in Nat /\ LastDay \in Nat /\ RetentionDays \in Nat
      /\ day \in Nat /\ rotations \in Nat /\ eventsMade \in Nat /\ rotations <= MaxRotations
    BY AuditAssumption DEF AuditTypes
<1>2. 0 \notin AuditFiles /\ rotations + 1 \in AuditFiles /\ AuditFiles \subseteq Nat
    BY <1>1 DEF AuditFiles
<1>3. \A l \in Loggers : l \in Appending <=> appends[l] # NoAppend
    BY DEF Appending
<1>4. \A l \in Appending : appends[l] \in AppendRecords /\ appends[l].event <= eventsMade
    BY <1>3 DEF AuditTypes, Appending
<1>5. \A l \in Appending : appends[l].event \in AuditEvents /\ appends[l].file \in AuditFiles /\ appends[l].texted \in BOOLEAN
    BY <1>4 DEF AppendRecords
<1>6. \A l \in Appending : appends[l].event \in 1..eventsMade
    BY <1>1, <1>4, <1>5 DEF AuditEvents
<1>7. QED
    BY <1>1, <1>2, <1>3, <1>4, <1>5, <1>6

\* One piece more in one file.
LEMMA OnePieceMore ==
    ASSUME AuditTypes, NEW f \in AuditFiles, NEW x \in Nat,
           written' = [written EXCEPT ![f] = Append(@, x)]
    PROVE  /\ written' \in [AuditFiles -> Seq(Nat)]
           /\ \A g \in AuditFiles, e \in Nat : Holds(g, e)' <=> Holds(g, e) \/ (g = f /\ e = x)
           /\ \A g \in AuditFiles \ {f} : written'[g] = written[g]
           /\ Len(written'[f]) = Len(written[f]) + 1 /\ Len(written[f]) \in Nat
           /\ DOMAIN written[f] = 1..Len(written[f]) /\ DOMAIN written'[f] = 1..(Len(written[f]) + 1)
           /\ \A i \in 1..Len(written[f]) : written'[f][i] = written[f][i]
           /\ written'[f][Len(written[f]) + 1] = x
<1>1. written \in [AuditFiles -> Seq(Nat)]
    BY DEF AuditTypes
<1> DEFINE s == written[f]
           t == Append(s, x)
<1>2. s \in Seq(Nat) /\ written'[f] = t
    BY <1>1
<1>3. \A g \in AuditFiles \ {f} : written'[g] = written[g]
    BY <1>1
<1>4. /\ t \in Seq(Nat) /\ Len(t) = Len(s) + 1 /\ Len(s) \in Nat
      /\ DOMAIN s = 1..Len(s) /\ DOMAIN t = 1..(Len(s) + 1)
      /\ t[Len(s) + 1] = x
    BY <1>2
<1>5. \A i \in 1..Len(s) : t[i] = s[i]
    BY <1>2
<1> HIDE DEF t
<1>6. written' \in [AuditFiles -> Seq(Nat)]
    BY <1>1, <1>2, <1>4
<1>7. \A e \in Nat : Holds(f, e)' <=> Holds(f, e) \/ e = x
    <2> SUFFICES ASSUME NEW e \in Nat
                 PROVE  (\E i \in DOMAIN t : t[i] = e) <=> (\E i \in DOMAIN s : s[i] = e) \/ e = x
        BY <1>2 DEF Holds
    <2>1. ASSUME NEW i \in DOMAIN t, t[i] = e PROVE (\E j \in DOMAIN s : s[j] = e) \/ e = x
        <3>1. CASE i \in 1..Len(s)
            BY <2>1, <3>1, <1>4, <1>5
        <3>2. CASE i \notin 1..Len(s)
            BY <2>1, <3>2, <1>4
        <3>3. QED
            BY <3>1, <3>2
    <2>2. ASSUME NEW i \in DOMAIN s, s[i] = e PROVE \E j \in DOMAIN t : t[j] = e
        BY <2>2, <1>4, <1>5
    <2>3. e = x => \E j \in DOMAIN t : t[j] = e
        BY <1>4
    <2>4. QED
        BY <2>1, <2>2, <2>3
<1>8. \A g \in AuditFiles \ {f}, e \in Nat : Holds(g, e)' <=> Holds(g, e)
    BY <1>3 DEF Holds
<1>9. QED
    BY <1>2, <1>3, <1>4, <1>5, <1>6, <1>7, <1>8

LEMMA Parity ==
    ASSUME NEW n \in Nat
    PROVE  /\ (n + 1) % 2 = 1 <=> n % 2 # 1
           /\ (n + 1) % 2 = 0 <=> n % 2 = 1
           /\ n % 2 = 0 <=> n % 2 # 1
OBVIOUS

\* What a step has to keep of texts and of the places of files for the audited events.
Stays == \A f \in AuditFiles, e \in 1..eventsMade :
            (Holds(f, e) => Holds(f, e)') /\ (Bound(f, e) /\ Findable(f, e) => Findable(f, e)')

LEMMA AuditedStay ==
    ASSUME AuditInv, Stays, audited' = audited
    PROVE  EventsAreRetained'
<1>1. audited \subseteq 1..eventsMade
    BY DEF AuditInv, AuditTypes
<1>2. ASSUME NEW e \in audited
      PROVE  \E f \in AuditFiles : Holds(f, e)' /\ Findable(f, e)'
    <2>1. PICK f \in AuditFiles : Holds(f, e) /\ Findable(f, e)
        BY DEF AuditInv, EventsAreRetained, Findable
    <2>2. Bound(f, e)
        BY <2>1 DEF Bound
    <2>3. QED
        BY <1>1, <2>1, <2>2 DEF Stays
<1>3. QED
    BY <1>2 DEF EventsAreRetained, Findable

LEMMA OpenKeeps ==
    ASSUME AuditInv, NEW l \in Loggers, OpenAudit(l)
    PROVE  AuditInv'
<1> DEFINE file == rotations + 1
           n == eventsMade + 1
<1>1. AuditTypes /\ NoneIsLater /\ AppendsFindable /\ EventsAreRetained /\ LinesAreWhole /\ OddWhileHalfway
    BY DEF AuditInv
<1>2. /\ MaxRotations \in Nat /\ MaxEvents \in Nat /\ LastDay \in Nat /\ RetentionDays \in Nat
      /\ day \in Nat /\ rotations \in Nat /\ eventsMade \in Nat
      /\ 0 \notin AuditFiles /\ file \in AuditFiles /\ AuditFiles \subseteq Nat
    BY <1>1, AuditFacts
<1>3. /\ \A m \in Loggers : m \in Appending <=> appends[m] # NoAppend
      /\ \A m \in Appending : /\ appends[m] \in AppendRecords /\ appends[m].event \in 1..eventsMade
                              /\ appends[m].file \in AuditFiles /\ appends[m].texted \in BOOLEAN
    BY <1>1, AuditFacts
<1>4. /\ appends[l] = NoAppend /\ eventsMade' = n /\ n <= MaxEvents /\ current' = file
      /\ appends' = [appends EXCEPT ![l] = [event |-> n, file |-> file, texted |-> FALSE]]
      /\ beganOn' = [beganOn EXCEPT ![n] = day] /\ glued' = (glued \/ Appending # {})
      /\ UNCHANGED <<rotated, written, sweep, day, rotations, audited, buried>>
    <2>1. eventsMade' = n /\ eventsMade < MaxEvents
        BY DEF OpenAudit
    <2>2. n <= MaxEvents
        BY <2>1, <1>2
    <2>3. (IF current = 0 THEN rotations + 1 ELSE current) = file
        BY <1>1 DEF AuditTypes
    <2>4. QED
        BY <2>1, <2>2, <2>3 DEF OpenAudit
<1>5. /\ n \in AuditEvents /\ \A e \in 1..eventsMade : e # n /\ beganOn'[e] = beganOn[e]
      /\ beganOn'[n] = day
    <2>1. n \in AuditEvents /\ \A e \in 1..eventsMade : e \in AuditEvents /\ e # n
        BY <1>2, <1>4 DEF AuditEvents
    <2>2. beganOn \in [AuditEvents -> 0..day]
        BY <1>1 DEF AuditTypes
    <2>3. QED
        BY <1>4, <2>1, <2>2
<1> DEFINE a == [event |-> n, file |-> file, texted |-> FALSE]
<1>6. a \in AppendRecords /\ a # NoAppend /\ a.event = n /\ a.file = file /\ a.texted = FALSE
    BY <1>2, <1>5 DEF AppendRecords, NoAppend
<1> HIDE DEF a
<1>7. /\ appends' \in [Loggers -> AppendRecords \cup {NoAppend}] /\ appends'[l] = a
      /\ Appending' = Appending \cup {l} /\ l \notin Appending
      /\ \A m \in Appending : appends'[m] = appends[m]
    <2>1. appends \in [Loggers -> AppendRecords \cup {NoAppend}]
        BY <1>1 DEF AuditTypes
    <2>2. appends' = [appends EXCEPT ![l] = a]
        BY <1>4 DEF a
    <2>3. QED
        BY <2>1, <2>2, <1>4, <1>6 DEF Appending
<1>8. AuditTypes'
    <2>1. eventsMade' \in 0..MaxEvents /\ rotations' \in 0..MaxRotations /\ day' \in 0..LastDay
        BY <1>1, <1>2, <1>4 DEF AuditTypes
    <2>2. current' \in {0, rotations' + 1} /\ rotated' \in [0..LastDay -> 0..rotations'] /\ written' \in [AuditFiles -> Seq(Nat)]
        BY <1>1, <1>4 DEF AuditTypes
    <2>3. beganOn' \in [AuditEvents -> 0..day']
        BY <1>1, <1>2, <1>4, <1>5 DEF AuditTypes
    <2>4. \A m \in Appending' : appends'[m].event <= eventsMade' /\ appends'[m].file <= rotations' + 1
        BY <1>1, <1>2, <1>3, <1>4, <1>6, <1>7 DEF AuditTypes
    <2>5. 1..eventsMade \subseteq 1..eventsMade'
        BY <1>2, <1>4
    <2>6. \A f \in AuditFiles : \A i \in DOMAIN written'[f] : written'[f][i] \in {EndOfLine, CutShort} \cup 1..eventsMade'
        BY <1>1, <1>4, <2>5 DEF AuditTypes
    <2>7. audited' \subseteq 1..eventsMade' /\ glued' \in BOOLEAN /\ sweep' \in [today : 0..day', dates : SUBSET (0..LastDay)]
        BY <1>1, <1>4, <2>5 DEF AuditTypes
    <2>8. QED
        BY <1>7, <2>1, <2>2, <2>3, <2>4, <2>6, <2>7 DEF AuditTypes
<1>9. \A f, e : Holds(f, e)' <=> Holds(f, e)
    BY <1>4 DEF Holds
<1>10. \A f \in AuditFiles : ~Holds(f, n)
    <2>1. n # EndOfLine /\ n # CutShort /\ n \notin 1..eventsMade
        BY <1>2, <1>4 DEF EndOfLine, CutShort
    <2>2. QED
        BY <1>1, <2>1 DEF Holds, AuditTypes
<1>11. NoneIsLater'
    <2> SUFFICES ASSUME NEW f \in AuditFiles, NEW e \in 1..n, NEW d \in 0..LastDay, Bound(f, e)', rotated[d] = f
                 PROVE  beganOn'[e] <= d
        BY <1>4 DEF NoneIsLater
    <2>1. f # file
        BY <1>1, <1>2 DEF AuditTypes
    <2>2. CASE e = n
        <3>1. \E m \in Appending' : appends'[m].file = f /\ appends'[m].event = n
            BY <1>9, <1>10, <2>2 DEF Bound
        <3>2. QED
            BY <3>1, <2>1, <1>2, <1>3, <1>6, <1>7
    <2>3. CASE e # n
        <3>1. e \in 1..eventsMade
            BY <2>3, <1>2
        <3>2. Bound(f, e)
            BY <1>6, <1>7, <1>9, <2>1 DEF Bound
        <3>3. QED
            BY <1>1, <1>5, <3>1, <3>2 DEF NoneIsLater
    <2>4. QED
        BY <2>2, <2>3
<1>12. \A f \in AuditFiles, e \in 1..eventsMade : Findable(f, e) => Findable(f, e)'
    <2>1. \A f \in AuditFiles : AtPath(f) => AtPath(f)'
        BY <1>1, <1>2, <1>4 DEF AtPath, AuditTypes
    <2>2. QED
        BY <2>1, <1>4, <1>5 DEF Findable
<1>13. AppendsFindable'
    <2> SUFFICES ASSUME NEW x \in AppendRecords, NEW m \in Loggers, appends'[m] = x
                 PROVE  Placed(x)'
        BY DEF AppendsFindable
    <2>1. CASE m = l
        <3>1. x.file = file /\ x.texted = FALSE
            BY <2>1, <1>6, <1>7
        <3>2. AtPath(x.file)'
            BY <3>1, <1>4 DEF AtPath
        <3>3. QED
            BY <3>1, <3>2 DEF Placed, Findable
    <2>2. CASE m # l
        <3>1. appends[m] = x
            BY <2>2, <1>1, <1>4 DEF AuditTypes
        <3>2. Placed(x) /\ x.file \in AuditFiles /\ x.event \in 1..eventsMade
            BY <3>1, <1>1, <1>3, x # NoAppend DEF AppendsFindable, AppendRecords, NoAppend, AuditEvents
        <3>3. QED
            BY <3>2, <1>9, <1>12 DEF Placed
    <2>3. QED
        BY <2>1, <2>2
<1>14. EventsAreRetained'
    BY <1>4, <1>9, <1>12, AuditedStay DEF Stays
<1>15. LinesAreWhole'
    BY <1>1, <1>4 DEF LinesAreWhole
<1>16. OddWhileHalfway'
    <2> SUFFICES ASSUME ~glued'
                 PROVE  /\ \A k, m \in Appending' : k = m
                        /\ \A f \in AuditFiles : Len(written'[f]) % 2 = 1 <=> Halfway(f)'
        BY DEF OddWhileHalfway
    <2>1. ~glued /\ Appending = {} /\ Appending' = {l}
        BY <1>4, <1>7
    <2>2. \A f \in AuditFiles : ~Halfway(f) /\ ~Halfway(f)'
        BY <2>1, <1>6, <1>7 DEF Halfway, Texted
    <2>3. QED
        BY <1>1, <1>4, <2>1, <2>2 DEF OddWhileHalfway
<1>17. QED
    BY <1>8, <1>11, <1>13, <1>14, <1>15, <1>16 DEF AuditInv

\* A step that leaves clock, paths and beginnings alone, and appends one piece or none.
LEMMA PlacesStay ==
    ASSUME AuditInv, UNCHANGED <<current, rotated, day, beganOn, buried, eventsMade>>,
           \A f \in AuditFiles, e \in Nat : Holds(f, e) => Holds(f, e)'
    PROVE  Stays /\ \A a \in AppendRecords : Findable(a.file, a.event) <=> Findable(a.file, a.event)'
<1>1. \A f, e : Findable(f, e) <=> Findable(f, e)'
    BY DEF Findable, AtPath
<1>2. 1..eventsMade \subseteq Nat
    BY AuditFacts DEF AuditInv
<1>3. QED
    BY <1>1, <1>2 DEF Stays

\* Which pieces a step may leave, for the types to hold.
LEMMA PiecesTyped ==
    ASSUME AuditTypes, NEW f \in AuditFiles, NEW x \in {EndOfLine, CutShort} \cup 1..eventsMade,
           written' = [written EXCEPT ![f] = Append(@, x)], eventsMade' = eventsMade
    PROVE  /\ x \in Nat /\ written' \in [AuditFiles -> Seq(Nat)]
           /\ \A g \in AuditFiles : \A i \in DOMAIN written'[g] :
                 written'[g][i] \in {EndOfLine, CutShort} \cup 1..eventsMade'
<1>1. x \in Nat
    BY AuditFacts DEF EndOfLine, CutShort
<1>2. /\ written' \in [AuditFiles -> Seq(Nat)] /\ \A g \in AuditFiles \ {f} : written'[g] = written[g]
      /\ Len(written[f]) \in Nat
      /\ DOMAIN written[f] = 1..Len(written[f]) /\ DOMAIN written'[f] = 1..(Len(written[f]) + 1)
      /\ \A i \in 1..Len(written[f]) : written'[f][i] = written[f][i]
      /\ written'[f][Len(written[f]) + 1] = x
    BY <1>1, OnePieceMore
<1>3. \A g \in AuditFiles : \A i \in DOMAIN written[g] : written[g][i] \in {EndOfLine, CutShort} \cup 1..eventsMade
    BY DEF AuditTypes
<1>4. ASSUME NEW i \in DOMAIN written'[f] PROVE written'[f][i] \in {EndOfLine, CutShort} \cup 1..eventsMade
    <2>1. i \in 1..Len(written[f]) \/ i = Len(written[f]) + 1
        BY <1>2, <1>4
    <2>2. QED
        BY <2>1, <1>2, <1>3
<1>5. QED
    BY <1>1, <1>2, <1>3, <1>4

LEMMA WriteKeeps ==
    ASSUME AuditInv, NEW l \in Loggers, WriteEvent(l)
    PROVE  AuditInv'
<1> DEFINE a == appends[l]
           b == [a EXCEPT !.texted = TRUE]
<1>1. AuditTypes /\ NoneIsLater /\ AppendsFindable /\ EventsAreRetained /\ LinesAreWhole /\ OddWhileHalfway
    BY DEF AuditInv
<1>2. /\ \A m \in Loggers : m \in Appending <=> appends[m] # NoAppend
      /\ \A m \in Appending : /\ appends[m] \in AppendRecords /\ appends[m].event \in 1..eventsMade
                              /\ appends[m].file \in AuditFiles /\ appends[m].texted \in BOOLEAN
      /\ eventsMade \in Nat
    BY <1>1, AuditFacts
<1>3. /\ a # NoAppend /\ ~a.texted /\ written' = [written EXCEPT ![a.file] = Append(@, a.event)]
      /\ appends' = [appends EXCEPT ![l].texted = TRUE]
      /\ UNCHANGED <<current, rotated, sweep, day, eventsMade, rotations, beganOn, audited, buried, glued>>
    BY DEF WriteEvent, auditPast
<1>4. /\ l \in Appending /\ a \in AppendRecords /\ a.event \in 1..eventsMade /\ a.file \in AuditFiles
      /\ a.event \in Nat /\ a.event # EndOfLine
    BY <1>2, <1>3 DEF EndOfLine
<1>5. b \in AppendRecords /\ b # NoAppend /\ b.event = a.event /\ b.file = a.file /\ b.texted = TRUE
    BY <1>4 DEF AppendRecords, NoAppend, AuditEvents
<1> HIDE DEF b
<1>6. /\ appends' \in [Loggers -> AppendRecords \cup {NoAppend}] /\ appends'[l] = b
      /\ Appending' = Appending /\ \A m \in Loggers \ {l} : appends'[m] = appends[m]
    <2>1. appends \in [Loggers -> AppendRecords \cup {NoAppend}]
        BY <1>1 DEF AuditTypes
    <2>2. appends' = [appends EXCEPT ![l] = b]
        BY <1>3, <2>1 DEF b
    <2>3. appends' \in [Loggers -> AppendRecords \cup {NoAppend}] /\ appends'[l] = b
          /\ \A m \in Loggers \ {l} : appends'[m] = appends[m]
        BY <2>1, <2>2, <1>5
    <2>4. QED
        BY <2>3, <1>4, <1>5 DEF Appending
<1>7. /\ \A g \in AuditFiles, e \in Nat : Holds(g, e)' <=> Holds(g, e) \/ (g = a.file /\ e = a.event)
      /\ \A g \in AuditFiles \ {a.file} : written'[g] = written[g]
      /\ Len(written'[a.file]) = Len(written[a.file]) + 1 /\ Len(written[a.file]) \in Nat
      /\ DOMAIN written[a.file] = 1..Len(written[a.file]) /\ DOMAIN written'[a.file] = 1..(Len(written[a.file]) + 1)
      /\ \A i \in 1..Len(written[a.file]) : written'[a.file][i] = written[a.file][i]
      /\ written'[a.file][Len(written[a.file]) + 1] = a.event
    <2>1. AuditTypes /\ a.file \in AuditFiles /\ a.event \in Nat
          /\ written' = [written EXCEPT ![a.file] = Append(@, a.event)]
        BY <1>1, <1>3, <1>4
    <2> HIDE DEF a
    <2>2. QED
        BY <2>1, OnePieceMore
<1>8. AuditTypes'
    <2>1. /\ written' \in [AuditFiles -> Seq(Nat)]
          /\ \A g \in AuditFiles : \A i \in DOMAIN written'[g] :
                 written'[g][i] \in {EndOfLine, CutShort} \cup 1..eventsMade'
        BY <1>1, <1>3, <1>4, PiecesTyped
    <2>2. \A m \in Appending' : appends'[m].event <= eventsMade' /\ appends'[m].file <= rotations' + 1
        BY <1>1, <1>3, <1>4, <1>5, <1>6 DEF AuditTypes
    <2>3. QED
        BY <1>1, <1>3, <1>6, <2>1, <2>2 DEF AuditTypes
<1>9. \A f \in AuditFiles, e \in 1..eventsMade : Bound(f, e)' => Bound(f, e)
    <2> SUFFICES ASSUME NEW f \in AuditFiles, NEW e \in 1..eventsMade, Bound(f, e)' PROVE Bound(f, e)
        OBVIOUS
    <2>1. e \in Nat
        BY <1>2
    <2>2. CASE Holds(f, e)'
        BY <2>1, <2>2, <1>4, <1>7 DEF Bound
    <2>3. CASE \E m \in Appending' : appends'[m].file = f /\ appends'[m].event = e
        <3>1. PICK m \in Appending' : appends'[m].file = f /\ appends'[m].event = e
            BY <2>3
        <3>2. m \in Appending /\ appends[m].file = f /\ appends[m].event = e
            BY <3>1, <1>5, <1>6 DEF Appending
        <3>3. QED
            BY <3>2 DEF Bound
    <2>4. QED
        BY <2>2, <2>3 DEF Bound
<1>10. NoneIsLater'
    BY <1>1, <1>3, <1>9 DEF NoneIsLater
<1>11. Stays /\ \A x \in AppendRecords : Findable(x.file, x.event) <=> Findable(x.file, x.event)'
    BY <1>3, <1>7, PlacesStay
<1>12. AppendsFindable'
    <2> SUFFICES ASSUME NEW x \in AppendRecords, NEW m \in Loggers, appends'[m] = x
                 PROVE  Placed(x)'
        BY DEF AppendsFindable
    <2>1. x.file \in AuditFiles /\ x.event \in Nat
        BY <1>2 DEF AppendRecords, AuditEvents
    <2>2. CASE m = l
        <3>1. x = b /\ Findable(a.file, a.event)
            BY <2>2, <1>1, <1>4, <1>6 DEF AppendsFindable, Placed
        <3>2. Findable(x.file, x.event)
            BY <3>1, <1>5
        <3>3. Holds(x.file, x.event)'
            BY <3>1, <1>5, <1>7, <2>1
        <3>4. QED
            BY <3>2, <3>3, <1>11 DEF Placed
    <2>3. CASE m # l
        <3>1. Placed(x)
            BY <2>3, <1>1, <1>6 DEF AppendsFindable
        <3>2. QED
            BY <3>1, <2>1, <1>7, <1>11 DEF Placed
    <2>4. QED
        BY <2>2, <2>3
<1>13. EventsAreRetained'
    BY <1>3, <1>11, AuditedStay
<1>14. ~glued => \A m \in Appending : m = l
    BY <1>1, <1>4 DEF OddWhileHalfway
<1>15. ~glued => ~Halfway(a.file) /\ Len(written[a.file]) % 2 # 1 /\ (Len(written[a.file]) + 1) % 2 = 1
    <2> SUFFICES ASSUME ~glued PROVE ~Halfway(a.file) /\ Len(written[a.file]) % 2 # 1 /\ (Len(written[a.file]) + 1) % 2 = 1
        OBVIOUS
    <2>1. ~Halfway(a.file)
        BY <1>3, <1>14 DEF Halfway, Texted
    <2>2. Len(written[a.file]) % 2 # 1
        BY <2>1, <1>1, <1>4 DEF OddWhileHalfway
    <2>3. QED
        BY <2>1, <2>2, <1>7, Parity
<1>16. LinesAreWhole'
    <2> SUFFICES ASSUME ~glued, NEW f \in AuditFiles, NEW i \in DOMAIN written'[f]
                 PROVE  (written'[f][i] = EndOfLine) = (i % 2 = 0)
        BY <1>3 DEF LinesAreWhole
    <2>1. CASE f # a.file
        BY <2>1, <1>1, <1>7 DEF LinesAreWhole
    <2>2. CASE f = a.file /\ i \in 1..Len(written[f])
        BY <2>2, <1>1, <1>7 DEF LinesAreWhole
    <2>3. CASE f = a.file /\ i = Len(written[f]) + 1
        <3>1. written'[f][i] # EndOfLine
            BY <2>3, <1>4, <1>7
        <3>2. i % 2 # 0
            BY <2>3, <1>7, <1>15, Parity
        <3>3. QED
            BY <3>1, <3>2
    <2>4. f = a.file => i \in 1..(Len(written[f]) + 1)
        BY <1>7
    <2>5. f = a.file => i \in 1..Len(written[f]) \/ i = Len(written[f]) + 1
        BY <1>7, <2>4
    <2>6. QED
        BY <2>1, <2>2, <2>3, <2>5
<1>17. OddWhileHalfway'
    <2> SUFFICES ASSUME ~glued
                 PROVE  /\ \A k, m \in Appending' : k = m
                        /\ \A f \in AuditFiles : Len(written'[f]) % 2 = 1 <=> Halfway(f)'
        BY <1>3 DEF OddWhileHalfway
    <2>1. \A k, m \in Appending' : k = m
        BY <1>14, <1>6
    <2>2. \A f \in AuditFiles \ {a.file} : ~Halfway(f) /\ ~Halfway(f)'
        BY <1>3, <1>4, <1>5, <1>6, <1>14 DEF Halfway, Texted
    <2>3. Len(written'[a.file]) % 2 = 1
        BY <1>7, <1>15
    <2>4. \A f \in AuditFiles \ {a.file} : Len(written'[f]) % 2 # 1
        BY <1>1, <1>7, <2>2 DEF OddWhileHalfway
    <2>5. ASSUME NEW f \in AuditFiles PROVE Len(written'[f]) % 2 = 1 <=> Halfway(f)'
        <3>1. CASE f = a.file
            <4>1. Halfway(f)'
                BY <3>1, <1>4, <1>5, <1>6 DEF Halfway, Texted
            <4>2. Len(written'[f]) % 2 = 1
                BY <3>1, <2>3
            <4>3. QED
                BY <4>1, <4>2
        <3>2. CASE f # a.file
            BY <3>2, <2>2, <2>4
        <3>3. QED
            BY <3>1, <3>2
    <2>6. QED
        BY <2>1, <2>5
<1>18. QED
    BY <1>8, <1>10, <1>12, <1>13, <1>16, <1>17 DEF AuditInv

LEMMA EndKeeps ==
    ASSUME AuditInv, NEW l \in Loggers, EndEvent(l)
    PROVE  AuditInv'
<1> DEFINE a == appends[l]
<1>1. AuditTypes /\ NoneIsLater /\ AppendsFindable /\ EventsAreRetained /\ LinesAreWhole /\ OddWhileHalfway
    BY DEF AuditInv
<1>2. /\ \A m \in Loggers : m \in Appending <=> appends[m] # NoAppend
      /\ \A m \in Appending : /\ appends[m] \in AppendRecords /\ appends[m].event \in 1..eventsMade
                              /\ appends[m].file \in AuditFiles /\ appends[m].texted \in BOOLEAN
      /\ eventsMade \in Nat
    BY <1>1, AuditFacts
<1>3. /\ a.texted /\ written' = [written EXCEPT ![a.file] = Append(@, EndOfLine)]
      /\ appends' = [appends EXCEPT ![l] = NoAppend] /\ audited' = audited \cup {a.event}
      /\ UNCHANGED <<current, rotated, sweep, day, eventsMade, rotations, beganOn, buried, glued>>
    BY DEF EndEvent
<1>4. /\ l \in Appending /\ a \in AppendRecords /\ a.event \in 1..eventsMade /\ a.file \in AuditFiles
      /\ a.event \in Nat /\ a.event # EndOfLine /\ EndOfLine \in Nat
    BY <1>2, <1>3 DEF EndOfLine, NoAppend
<1>6. /\ appends' \in [Loggers -> AppendRecords \cup {NoAppend}]
      /\ Appending' = Appending \ {l} /\ appends'[l] = NoAppend /\ \A m \in Loggers \ {l} : appends'[m] = appends[m]
    <2>1. appends \in [Loggers -> AppendRecords \cup {NoAppend}]
        BY <1>1 DEF AuditTypes
    <2>2. QED
        BY <2>1, <1>3 DEF Appending
<1>7. /\ \A g \in AuditFiles, e \in Nat : Holds(g, e)' <=> Holds(g, e) \/ (g = a.file /\ e = EndOfLine)
      /\ \A g \in AuditFiles \ {a.file} : written'[g] = written[g]
      /\ Len(written'[a.file]) = Len(written[a.file]) + 1 /\ Len(written[a.file]) \in Nat
      /\ DOMAIN written[a.file] = 1..Len(written[a.file]) /\ DOMAIN written'[a.file] = 1..(Len(written[a.file]) + 1)
      /\ \A i \in 1..Len(written[a.file]) : written'[a.file][i] = written[a.file][i]
      /\ written'[a.file][Len(written[a.file]) + 1] = EndOfLine
    <2>1. AuditTypes /\ a.file \in AuditFiles /\ EndOfLine \in Nat
          /\ written' = [written EXCEPT ![a.file] = Append(@, EndOfLine)]
        BY <1>1, <1>3, <1>4
    <2> HIDE DEF a
    <2>2. QED
        BY <2>1, OnePieceMore
<1>8. AuditTypes'
    <2>1. /\ written' \in [AuditFiles -> Seq(Nat)]
          /\ \A g \in AuditFiles : \A i \in DOMAIN written'[g] :
                 written'[g][i] \in {EndOfLine, CutShort} \cup 1..eventsMade'
        BY <1>1, <1>3, <1>4, PiecesTyped
    <2>2. \A m \in Appending' : appends'[m].event <= eventsMade' /\ appends'[m].file <= rotations' + 1
        BY <1>1, <1>3, <1>6 DEF AuditTypes, Appending
    <2>3. QED
        BY <1>1, <1>3, <1>4, <1>6, <2>1, <2>2 DEF AuditTypes
<1>9. ASSUME NEW f \in AuditFiles, NEW e \in 1..eventsMade, Bound(f, e)' PROVE Bound(f, e)
    <2>1. e \in Nat /\ e # EndOfLine
        BY <1>2 DEF EndOfLine
    <2>2. CASE Holds(f, e)'
        BY <2>1, <2>2, <1>7 DEF Bound
    <2>3. CASE \E m \in Appending' : appends'[m].file = f /\ appends'[m].event = e
        <3>1. PICK m \in Appending' : appends'[m].file = f /\ appends'[m].event = e
            BY <2>3
        <3>2. m \in Appending /\ appends[m].file = f /\ appends[m].event = e
            BY <3>1, <1>6 DEF Appending
        <3>3. QED
            BY <3>2 DEF Bound
    <2>4. QED
        BY <1>9, <2>2, <2>3 DEF Bound
<1>10. NoneIsLater'
    BY <1>1, <1>3, <1>9 DEF NoneIsLater
<1>11. Stays /\ \A x \in AppendRecords : Findable(x.file, x.event) <=> Findable(x.file, x.event)'
    BY <1>3, <1>7, PlacesStay
<1>12. AppendsFindable'
    <2> SUFFICES ASSUME NEW x \in AppendRecords, NEW m \in Loggers, appends'[m] = x
                 PROVE  Placed(x)'
        BY DEF AppendsFindable
    <2>1. x.file \in AuditFiles /\ x.event \in Nat
        BY <1>2 DEF AppendRecords, AuditEvents
    <2>2. x # NoAppend
        BY <2>1 DEF NoAppend, AppendRecords, AuditEvents
    <2>3. appends[m] = x
        BY <2>2, <1>6
    <2>4. Placed(x)
        BY <2>3, <1>1 DEF AppendsFindable
    <2>5. QED
        BY <2>1, <2>4, <1>7, <1>11 DEF Placed
<1>13. EventsAreRetained'
    <2>1. ASSUME NEW e \in audited PROVE \E f \in AuditFiles : Holds(f, e)' /\ Findable(f, e)'
        <3>1. PICK f \in AuditFiles : Holds(f, e) /\ Findable(f, e)
            BY <1>1 DEF EventsAreRetained, Findable
        <3>2. e \in 1..eventsMade /\ Bound(f, e)
            BY <3>1, <1>1 DEF Bound, AuditTypes
        <3>3. QED
            BY <3>1, <3>2, <1>11 DEF Stays
    <2>2. PICK f \in AuditFiles, e \in 1..eventsMade : f = a.file /\ e = a.event
        BY <1>4
    <2>3. Holds(f, e)' /\ Findable(f, e)'
        <3>1. Placed(a)
            BY <1>1, <1>4 DEF AppendsFindable
        <3>2. Holds(f, e) /\ Findable(f, e) /\ Bound(f, e)
            BY <3>1, <1>3, <2>2 DEF Placed, Bound
        <3>3. QED
            BY <3>2, <1>11 DEF Stays
    <2>4. \A x \in audited' : x \in audited \/ x = e
        BY <1>3, <2>2
    <2>5. QED
        BY <2>1, <2>3, <2>4 DEF EventsAreRetained, Findable
<1>14. ~glued => \A m \in Appending : m = l
    BY <1>1, <1>4 DEF OddWhileHalfway
<1>15. ~glued => Len(written[a.file]) % 2 = 1 /\ (Len(written[a.file]) + 1) % 2 # 1 /\ (Len(written[a.file]) + 1) % 2 = 0
    <2> SUFFICES ASSUME ~glued
                 PROVE  Len(written[a.file]) % 2 = 1 /\ (Len(written[a.file]) + 1) % 2 # 1
                        /\ (Len(written[a.file]) + 1) % 2 = 0
        OBVIOUS
    <2>1. Halfway(a.file)
        BY <1>3, <1>4 DEF Halfway, Texted
    <2>2. Len(written[a.file]) % 2 = 1
        BY <2>1, <1>1, <1>4 DEF OddWhileHalfway
    <2>3. QED
        BY <2>2, <1>7, Parity
<1>16. LinesAreWhole'
    <2> SUFFICES ASSUME ~glued, NEW f \in AuditFiles, NEW i \in DOMAIN written'[f]
                 PROVE  (written'[f][i] = EndOfLine) = (i % 2 = 0)
        BY <1>3 DEF LinesAreWhole
    <2>1. CASE f # a.file
        BY <2>1, <1>1, <1>7 DEF LinesAreWhole
    <2>2. CASE f = a.file /\ i \in 1..Len(written[f])
        BY <2>2, <1>1, <1>7 DEF LinesAreWhole
    <2>3. CASE f = a.file /\ i = Len(written[f]) + 1
        <3>1. written'[f][i] = EndOfLine
            BY <2>3, <1>7
        <3>2. i % 2 = 0
            BY <2>3, <1>15
        <3>3. QED
            BY <3>1, <3>2
    <2>4. f = a.file => i \in 1..(Len(written[f]) + 1)
        BY <1>7
    <2>5. f = a.file => i \in 1..Len(written[f]) \/ i = Len(written[f]) + 1
        BY <1>7, <2>4
    <2>6. QED
        BY <2>1, <2>2, <2>3, <2>5
<1>17. OddWhileHalfway'
    <2> SUFFICES ASSUME ~glued
                 PROVE  /\ \A k, m \in Appending' : k = m
                        /\ \A f \in AuditFiles : Len(written'[f]) % 2 = 1 <=> Halfway(f)'
        BY <1>3 DEF OddWhileHalfway
    <2>1. Appending' = {}
        BY <1>14, <1>6
    <2>2. \A f \in AuditFiles : ~Halfway(f)'
        BY <2>1 DEF Halfway
    <2>3. Len(written'[a.file]) % 2 # 1
        BY <1>7, <1>15
    <2>4. ASSUME NEW f \in AuditFiles \ {a.file} PROVE Len(written'[f]) % 2 # 1
        <3>1. ~Halfway(f)
            BY <1>14 DEF Halfway
        <3>2. QED
            BY <1>1, <1>7, <3>1 DEF OddWhileHalfway
    <2>5. \A f \in AuditFiles : Len(written'[f]) % 2 # 1
        BY <2>3, <2>4
    <2>6. QED
        BY <2>1, <2>2, <2>5
<1>18. QED
    BY <1>8, <1>10, <1>12, <1>13, <1>16, <1>17 DEF AuditInv

\* A text that stays away, or is cut short.
LEMMA BreakKeeps ==
    ASSUME AuditInv, NEW l \in Loggers, AppendBreaks(l)
    PROVE  AuditInv'
<1> DEFINE a == appends[l]
<1>1. AuditTypes /\ NoneIsLater /\ AppendsFindable /\ EventsAreRetained
    BY DEF AuditInv
<1>2. /\ \A m \in Loggers : m \in Appending <=> appends[m] # NoAppend
      /\ \A m \in Appending : /\ appends[m] \in AppendRecords /\ appends[m].event \in 1..eventsMade
                              /\ appends[m].file \in AuditFiles /\ appends[m].texted \in BOOLEAN
      /\ eventsMade \in Nat /\ MaxEvents \in Nat /\ eventsMade <= MaxEvents
    BY <1>1, AuditFacts DEF AuditTypes
<1>3. /\ a # NoAppend /\ appends' = [appends EXCEPT ![l] = NoAppend] /\ glued' = TRUE
      /\ written' = written \/ written' = [written EXCEPT ![a.file] = Append(@, CutShort)]
      /\ UNCHANGED <<current, rotated, sweep, day, eventsMade, rotations, beganOn, audited, buried>>
    BY DEF AppendBreaks
<1>4. /\ l \in Appending /\ a \in AppendRecords /\ a.file \in AuditFiles /\ CutShort \in Nat
      /\ CutShort \notin 1..eventsMade
    BY <1>2, <1>3 DEF CutShort
<1>6. /\ appends' \in [Loggers -> AppendRecords \cup {NoAppend}]
      /\ Appending' = Appending \ {l} /\ appends'[l] = NoAppend /\ \A m \in Loggers \ {l} : appends'[m] = appends[m]
    <2>1. appends \in [Loggers -> AppendRecords \cup {NoAppend}]
        BY <1>1 DEF AuditTypes
    <2>2. QED
        BY <2>1, <1>3 DEF Appending
<1>7. /\ written' \in [AuditFiles -> Seq(Nat)]
      /\ \A g \in AuditFiles, e \in Nat : Holds(g, e) => Holds(g, e)'
      /\ \A g \in AuditFiles, e \in 1..eventsMade : Holds(g, e)' => Holds(g, e)
      /\ \A g \in AuditFiles : \A i \in DOMAIN written'[g] :
             written'[g][i] \in {EndOfLine, CutShort} \cup 1..eventsMade'
    <2>1. CASE written' = written
        BY <2>1, <1>1, <1>3 DEF Holds, AuditTypes
    <2>2. CASE written' = [written EXCEPT ![a.file] = Append(@, CutShort)]
        <3>1. \A g \in AuditFiles, e \in Nat : Holds(g, e)' <=> Holds(g, e) \/ (g = a.file /\ e = CutShort)
            BY <2>2, <1>1, <1>4, OnePieceMore
        <3>2. /\ written' \in [AuditFiles -> Seq(Nat)]
              /\ \A g \in AuditFiles : \A i \in DOMAIN written'[g] :
                     written'[g][i] \in {EndOfLine, CutShort} \cup 1..eventsMade'
            BY <2>2, <1>1, <1>3, <1>4, PiecesTyped
        <3>3. \A e \in 1..eventsMade : e \in Nat /\ e # CutShort
            BY <1>2, <1>4
        <3>4. QED
            BY <3>1, <3>2, <3>3
    <2>3. QED
        BY <2>1, <2>2, <1>3
<1>8. AuditTypes'
    <2>1. \A m \in Appending' : appends'[m].event <= eventsMade' /\ appends'[m].file <= rotations' + 1
        BY <1>1, <1>3, <1>6 DEF AuditTypes, Appending
    <2>2. QED
        BY <1>1, <1>3, <1>6, <1>7, <2>1 DEF AuditTypes
<1>9. ASSUME NEW f \in AuditFiles, NEW e \in 1..eventsMade, Bound(f, e)' PROVE Bound(f, e)
    <2>1. CASE Holds(f, e)'
        BY <2>1, <1>7 DEF Bound
    <2>2. CASE \E m \in Appending' : appends'[m].file = f /\ appends'[m].event = e
        <3>1. PICK m \in Appending' : appends'[m].file = f /\ appends'[m].event = e
            BY <2>2
        <3>2. m \in Appending /\ appends[m].file = f /\ appends[m].event = e
            BY <3>1, <1>6 DEF Appending
        <3>3. QED
            BY <3>2 DEF Bound
    <2>3. QED
        BY <1>9, <2>1, <2>2 DEF Bound
<1>10. NoneIsLater'
    BY <1>1, <1>3, <1>9 DEF NoneIsLater
<1>11. Stays /\ \A x \in AppendRecords : Findable(x.file, x.event) <=> Findable(x.file, x.event)'
    BY <1>3, <1>7, PlacesStay
<1>12. AppendsFindable'
    <2> SUFFICES ASSUME NEW x \in AppendRecords, NEW m \in Loggers, appends'[m] = x
                 PROVE  Placed(x)'
        BY DEF AppendsFindable
    <2>1. x.file \in AuditFiles /\ x.event \in Nat
        BY <1>2 DEF AppendRecords, AuditEvents
    <2>2. x # NoAppend
        BY <2>1 DEF NoAppend, AppendRecords, AuditEvents
    <2>3. appends[m] = x
        BY <2>2, <1>6
    <2>4. Placed(x)
        BY <2>3, <1>1 DEF AppendsFindable
    <2>5. QED
        BY <2>1, <2>4, <1>7, <1>11 DEF Placed
<1>13. EventsAreRetained'
    BY <1>3, <1>11, AuditedStay
<1>14. LinesAreWhole' /\ OddWhileHalfway'
    BY <1>3 DEF LinesAreWhole, OddWhileHalfway
<1>15. QED
    BY <1>8, <1>10, <1>12, <1>13, <1>14 DEF AuditInv

\* Steps that write nothing and leave the appends alone: what they have to keep.
LEMMA QuietKeeps ==
    ASSUME AuditInv, UNCHANGED <<written, appends, eventsMade, beganOn, audited, glued>>,
           AuditTypes', NoneIsLater',
           \A f \in AuditFiles, e \in 1..eventsMade : Bound(f, e) /\ Findable(f, e) => Findable(f, e)'
    PROVE  AuditInv'
<1>1. AuditTypes /\ AppendsFindable /\ EventsAreRetained /\ LinesAreWhole /\ OddWhileHalfway
    BY DEF AuditInv
<1>2. \A f, e : Holds(f, e)' <=> Holds(f, e)
    BY DEF Holds
<1>3. Stays
    BY <1>2 DEF Stays
<1>4. AppendsFindable'
    <2> SUFFICES ASSUME NEW x \in AppendRecords, NEW m \in Loggers, appends[m] = x
                 PROVE  Placed(x)'
        BY DEF AppendsFindable
    <2>1. x # NoAppend /\ Placed(x)
        BY <1>1 DEF AppendsFindable, NoAppend, AppendRecords, AuditEvents
    <2>2. m \in Appending
        BY <2>1 DEF Appending
    <2>3. x.file \in AuditFiles /\ x.event \in 1..eventsMade /\ Bound(x.file, x.event)
        BY <1>1, <2>2, AuditFacts DEF Bound
    <2>4. QED
        BY <1>2, <2>1, <2>3 DEF Placed
<1>5. EventsAreRetained'
    BY <1>3, AuditedStay
<1>6. LinesAreWhole' /\ OddWhileHalfway'
    BY <1>1 DEF LinesAreWhole, OddWhileHalfway, Appending, Halfway, Texted
<1>7. QED
    BY <1>4, <1>5, <1>6 DEF AuditInv

LEMMA RotateKeeps ==
    ASSUME AuditInv, Rotate
    PROVE  AuditInv'
<1>1. AuditTypes /\ NoneIsLater /\ rotated \in [0..LastDay -> 0..rotations] /\ day \in 0..LastDay
      /\ current \in {0, rotations + 1} /\ beganOn \in [AuditEvents -> 0..day]
    BY DEF AuditInv, AuditTypes
<1>2. /\ current # 0 /\ rotations < MaxRotations /\ rotated' = [rotated EXCEPT ![day] = current]
      /\ current' = 0 /\ buried' = buried \cup ({rotated[day]} \ {0}) /\ rotations' = rotations + 1
      /\ UNCHANGED <<written, appends, sweep, day, eventsMade, beganOn, audited, glued>>
    BY DEF Rotate, auditVars, auditPast
<1>3. /\ MaxRotations \in Nat /\ MaxEvents \in Nat /\ LastDay \in Nat
      /\ day \in Nat /\ rotations \in Nat /\ eventsMade \in Nat /\ eventsMade <= MaxEvents
      /\ 0 \notin AuditFiles /\ AuditFiles \subseteq Nat
    BY <1>1, AuditFacts DEF AuditTypes
<1>4. current = rotations + 1
    BY <1>1, <1>2
<1>5. AuditTypes'
    <2>1. rotated' \in [0..LastDay -> 0..rotations'] /\ rotations' \in 0..MaxRotations /\ current' \in {0, rotations' + 1}
        BY <1>1, <1>2, <1>3, <1>4
    <2>2. \A l \in Appending' : appends'[l].event <= eventsMade' /\ appends'[l].file <= rotations' + 1
        <3>1. ASSUME NEW l \in Appending
              PROVE  appends[l].event <= eventsMade /\ appends[l].file <= rotations + 1 /\ appends[l].file \in Nat
            BY <1>1, <1>3, AuditFacts DEF AuditTypes
        <3>2. QED
            BY <1>2, <1>3, <3>1 DEF Appending
    <2>3. QED
        BY <1>1, <1>2, <2>1, <2>2 DEF AuditTypes
<1>6. NoneIsLater'
    <2> SUFFICES ASSUME NEW f \in AuditFiles, NEW e \in 1..eventsMade, NEW d \in 0..LastDay,
                        Bound(f, e)', rotated'[d] = f
                 PROVE  beganOn[e] <= d
        BY <1>2 DEF NoneIsLater
    <2>1. Bound(f, e)
        BY <1>2 DEF Bound, Holds, Appending
    <2>2. CASE d = day
        <3>1. e \in AuditEvents
            BY <1>3 DEF AuditEvents
        <3>2. beganOn[e] \in 0..day
            BY <1>1, <3>1
        <3>3. QED
            BY <2>2, <3>2, <1>3
    <2>3. CASE d # day
        <3>1. rotated[d] = f
            BY <2>3, <1>1, <1>2
        <3>2. QED
            BY <2>1, <3>1, <1>1 DEF NoneIsLater
    <2>4. QED
        BY <2>2, <2>3
<1>7. ASSUME NEW f \in AuditFiles, NEW e \in 1..eventsMade, Findable(f, e) PROVE Findable(f, e)'
    <2>1. CASE f = current
        <3>1. rotated'[day] = f /\ day \in 0..LastDay
            BY <2>1, <1>1, <1>2
        <3>2. QED
            BY <3>1 DEF Findable, AtPath
    <2>2. CASE \E d \in 0..LastDay : rotated[d] = f
        <3>1. PICK d \in 0..LastDay : rotated[d] = f
            BY <2>2
        <3>2. CASE d = day
            BY <3>1, <3>2, <1>2, <1>3 DEF Findable
        <3>3. CASE d # day
            <4>1. rotated'[d] = f
                BY <3>1, <3>3, <1>1, <1>2
            <4>2. QED
                BY <4>1 DEF Findable, AtPath
        <3>4. QED
            BY <3>2, <3>3
    <2>3. CASE f \in buried \/ day > beganOn[e] + RetentionDays
        BY <2>3, <1>2 DEF Findable
    <2>4. QED
        BY <1>7, <2>1, <2>2, <2>3 DEF Findable, AtPath
<1>8. QED
    BY <1>2, <1>5, <1>6, <1>7, QuietKeeps

LEMMA SweepKeeps ==
    ASSUME AuditInv, SweepOne
    PROVE  AuditInv'
<1>1. AuditTypes /\ NoneIsLater /\ rotated \in [0..LastDay -> 0..rotations] /\ day \in 0..LastDay
      /\ sweep \in [today : 0..day, dates : SUBSET (0..LastDay)] /\ beganOn \in [AuditEvents -> 0..day]
    BY DEF AuditInv, AuditTypes
<1>2. PICK d \in sweep.dates :
        /\ rotated' = [rotated EXCEPT ![d] = IF TooOld(sweep.today, d) THEN 0 ELSE @]
        /\ sweep' = IF sweep.dates = {d} THEN NoSweep ELSE [sweep EXCEPT !.dates = @ \ {d}]
        /\ UNCHANGED <<current, written, appends, day, eventsMade, rotations, beganOn, audited, buried, glued>>
    BY DEF SweepOne, auditPast
<1>3. /\ MaxEvents \in Nat /\ LastDay \in Nat /\ RetentionDays \in Nat
      /\ day \in Nat /\ rotations \in Nat /\ eventsMade \in Nat /\ eventsMade <= MaxEvents /\ 0 \notin AuditFiles
      /\ d \in 0..LastDay /\ sweep.today \in 0..day
    BY <1>1, <1>2, AuditFacts DEF AuditTypes
<1>4. \A c \in 0..LastDay : rotated'[c] = rotated[c] \/ (c = d /\ TooOld(sweep.today, d) /\ rotated'[c] = 0)
    BY <1>1, <1>2
<1>5. AuditTypes'
    <2>1. rotated' \in [0..LastDay -> 0..rotations']
        BY <1>1, <1>2, <1>3
    <2>2. sweep' \in [today : 0..day', dates : SUBSET (0..LastDay)]
        <3>1. CASE sweep.dates = {d}
            BY <3>1, <1>2, <1>3 DEF NoSweep
        <3>2. CASE sweep.dates # {d}
            BY <3>2, <1>1, <1>2
        <3>3. QED
            BY <3>1, <3>2
    <2>3. Appending' = Appending
        BY <1>2 DEF Appending
    <2>4. QED
        BY <1>1, <1>2, <2>1, <2>2, <2>3 DEF AuditTypes
<1>6. NoneIsLater'
    <2> SUFFICES ASSUME NEW f \in AuditFiles, NEW e \in 1..eventsMade, NEW c \in 0..LastDay,
                        Bound(f, e)', rotated'[c] = f
                 PROVE  beganOn[e] <= c
        BY <1>2 DEF NoneIsLater
    <2>1. Bound(f, e) /\ rotated[c] = f
        BY <1>2, <1>3, <1>4 DEF Bound, Holds, Appending
    <2>2. QED
        BY <1>1, <2>1 DEF NoneIsLater
<1>7. ASSUME NEW f \in AuditFiles, NEW e \in 1..eventsMade, Bound(f, e), Findable(f, e) PROVE Findable(f, e)'
    <2>1. CASE \E c \in 0..LastDay : rotated[c] = f
        <3>1. PICK c \in 0..LastDay : rotated[c] = f
            BY <2>1
        <3>2. CASE rotated'[c] = rotated[c]
            BY <3>1, <3>2 DEF Findable, AtPath
        <3>3. CASE c = d /\ TooOld(sweep.today, d)
            <4>1. beganOn[e] <= d /\ e \in AuditEvents
                BY <1>1, <1>3, <1>7, <3>1, <3>3 DEF NoneIsLater, AuditEvents
            <4>2. beganOn[e] \in 0..day
                BY <1>1, <4>1
            <4>3. sweep.today > d + RetentionDays
                BY <3>3 DEF TooOld
            <4>4. day > beganOn[e] + RetentionDays
                BY <4>1, <4>2, <4>3, <1>3
            <4>5. QED
                BY <4>4, <1>2 DEF Findable
        <3>4. QED
            BY <3>2, <3>3, <1>4
    <2>2. CASE f = current \/ f \in buried \/ day > beganOn[e] + RetentionDays
        BY <2>2, <1>2 DEF Findable, AtPath
    <2>3. QED
        BY <1>7, <2>1, <2>2 DEF Findable, AtPath
<1>8. QED
    BY <1>2, <1>5, <1>6, <1>7, QuietKeeps

LEMMA StartAndDayKeep ==
    ASSUME AuditInv, StartSweep \/ DayPasses \/ UNCHANGED auditVars
    PROVE  AuditInv'
<1>1. AuditTypes /\ NoneIsLater /\ day \in 0..LastDay /\ beganOn \in [AuditEvents -> 0..day]
      /\ sweep \in [today : 0..day, dates : SUBSET (0..LastDay)]
    BY DEF AuditInv, AuditTypes
<1>2. /\ UNCHANGED <<current, rotated, written, appends, eventsMade, rotations, beganOn, audited, buried, glued>>
      /\ (day' = day \/ (day < LastDay /\ day' = day + 1))
    BY DEF StartSweep, DayPasses, auditVars, auditFilesVars, auditPast
<1>3. LastDay \in Nat /\ RetentionDays \in Nat /\ day \in Nat /\ day' \in Nat /\ day' \in 0..LastDay
      /\ 0..day \subseteq 0..day' /\ day' >= day /\ MaxEvents \in Nat /\ eventsMade \in Nat
    BY <1>1, <1>2, AuditFacts
<1>4. AuditTypes'
    <2>1. sweep' \in [today : 0..day', dates : SUBSET (0..LastDay)]
        <3>1. CASE StartSweep
            <4> DEFINE ds == {d \in 0..LastDay : rotated[d] # 0}
            <4>1. ds \in SUBSET (0..LastDay) /\ sweep' = [today |-> day, dates |-> ds] /\ day' = day
                BY <3>1 DEF StartSweep
            <4> HIDE DEF ds
            <4>2. QED
                BY <4>1, <1>1
        <3>2. CASE sweep' = sweep
            BY <3>2, <1>1, <1>3
        <3>3. QED
            BY <3>1, <3>2 DEF StartSweep, DayPasses, auditVars
    <2>2. beganOn' \in [AuditEvents -> 0..day']
        BY <1>1, <1>2, <1>3
    <2>3. Appending' = Appending
        BY <1>2 DEF Appending
    <2>4. QED
        BY <1>1, <1>2, <1>3, <2>1, <2>2, <2>3 DEF AuditTypes
<1>5. NoneIsLater'
    BY <1>1, <1>2 DEF NoneIsLater, Bound, Holds, Appending
<1>6. ASSUME NEW f \in AuditFiles, NEW e \in 1..eventsMade, Findable(f, e) PROVE Findable(f, e)'
    <2>1. beganOn[e] \in Nat
        <3>1. e \in AuditEvents
            BY AuditFacts, <1>1, <1>3 DEF AuditEvents, AuditTypes
        <3>2. QED
            BY <3>1, <1>1
    <2>2. QED
        BY <2>1, <1>2, <1>3, <1>6 DEF Findable, AtPath
<1>7. QED
    BY <1>2, <1>4, <1>5, <1>6, QuietKeeps

LEMMA AuditBegins == ASSUME AuditInit PROVE AuditInv
<1>1. /\ {MaxEvents, LastDay, MaxRotations} \subseteq Nat /\ Appending = {}
    BY AuditAssumption DEF AuditInit, Appending
<1>2. written \in [AuditFiles -> Seq(Nat)] /\ \A f \in AuditFiles : written[f] = <<>>
    BY DEF AuditInit
<1>3. AuditTypes
    <2>1. rotated \in [0..LastDay -> 0..rotations] /\ beganOn \in [AuditEvents -> 0..day]
        BY DEF AuditInit
    <2>2. appends \in [Loggers -> AppendRecords \cup {NoAppend}]
        BY DEF AuditInit
    <2>3. sweep \in [today : 0..day, dates : SUBSET (0..LastDay)]
        BY DEF AuditInit, NoSweep
    <2>4. /\ day \in 0..LastDay /\ eventsMade \in 0..MaxEvents /\ rotations \in 0..MaxRotations
          /\ current \in {0, rotations + 1}
        BY <1>1 DEF AuditInit
    <2>7. audited \subseteq 1..eventsMade /\ glued \in BOOLEAN
        BY DEF AuditInit
    <2>5. \A f \in AuditFiles : \A i \in DOMAIN written[f] : written[f][i] \in {EndOfLine, CutShort} \cup 1..eventsMade
        BY <1>2
    <2>6. QED
        BY <1>1, <1>2, <2>1, <2>2, <2>3, <2>4, <2>5, <2>7 DEF AuditTypes
<1>4. NoneIsLater
    BY DEF NoneIsLater, AuditInit
<1>5. AppendsFindable
    BY DEF AuditInit, AppendsFindable, NoAppend, AppendRecords, AuditEvents
<1>6. EventsAreRetained
    BY DEF AuditInit, EventsAreRetained
<1>7. LinesAreWhole
    BY <1>2 DEF LinesAreWhole
<1>8. OddWhileHalfway
    <2>1. \A f \in AuditFiles : Len(written[f]) = 0
        BY <1>2
    <2>2. 0 % 2 # 1
        OBVIOUS
    <2>3. \A f \in AuditFiles : ~Halfway(f)
        BY <1>1 DEF Halfway
    <2>4. QED
        BY <1>1, <2>1, <2>2, <2>3 DEF OddWhileHalfway
<1>9. QED
    BY <1>3, <1>4, <1>5, <1>6, <1>7, <1>8 DEF AuditInv

LEMMA AuditInductive ==
    ASSUME AuditInv, [AuditNext]_auditVars
    PROVE  AuditInv'
BY OpenKeeps, WriteKeeps, EndKeeps, BreakKeeps, RotateKeeps, SweepKeeps, StartAndDayKeep DEF AuditNext

\* However appends, rotations and sweeps cross, and wherever an append breaks: an event
\* whose append returned Ok is found until its retention is over or its file is replaced
\* by one of the same date, and appends that did not cross leave whole lines.
THEOREM EventsAreFound == AuditSpec => []AuditIsKept
<1>1. ASSUME AuditInv PROVE AuditIsKept
    <2>1. AuditTypeOK
        <3>1. /\ rotations \in Nat /\ rotations <= MaxRotations /\ MaxRotations \in Nat /\ current \in {0, rotations + 1}
              /\ rotated \in [0..LastDay -> 0..rotations]
            BY <1>1, AuditFacts DEF AuditInv, AuditTypes
        <3>2. \A n \in 0..(rotations + 1) : n \in AuditFiles \cup {0}
            BY <3>1 DEF AuditFiles
        <3>3. \A d \in 0..LastDay : rotated[d] \in 0..rotations
            BY <3>1
        <3>4. current \in AuditFiles \cup {0} /\ \A d \in 0..LastDay : rotated[d] \in AuditFiles \cup {0}
            BY <3>1, <3>2, <3>3
        <3>5. current # 0 => \A d \in 0..LastDay : rotated[d] # current
            BY <3>1, <3>3
        <3>6. QED
            BY <3>4, <3>5 DEF AuditTypeOK
    <2>2. QED
        BY <1>1, <2>1 DEF AuditInv, AuditIsKept
<1>2. QED
    BY <1>1, AuditBegins, AuditInductive, PTL DEF AuditSpec

----------------------------------------------------------------------------
\* Hooks. What each stage of a hook still holds.

\* Hooks at work, and those that hold warnings they will show.
Hooking == {p \in Hookers : hpc[p] # "idle"}
Showing == {p \in Hookers : hpc[p] \in {"list", "move", "print"}}
Directories == [WarningKinds -> [WarningNames -> 0..MaxWarnings]]
HookTypes ==
    /\ checkpoint \in {"none", "torn", "whole"} /\ unread \in Directories /\ read \in Directories
    /\ raised \in [WarningKinds -> 0..MaxWarnings] /\ tracker \in [Trackers -> Nat]
    /\ logged \in [Trackers -> Nat]
    /\ hpc \in [Hookers -> {"idle", "list", "move", "print", "fill", "count", "clear"}]
    /\ hkind \in [Hookers -> WarningKinds \cup Trackers \cup {""}]
    /\ \A p \in Hookers : hpc[p] \in {"list", "move"} => hkind[p] \in WarningKinds
    /\ \A p \in Hookers : hpc[p] \in {"count", "clear"} => hkind[p] \in Trackers
    /\ listed \in [Hookers -> SUBSET WarningNames] /\ DOMAIN counted = Hookers
    /\ hookDied \in BOOLEAN /\ hooksCrossed \in BOOLEAN

\* What was counted was shown, or is held by a hook that will show it.
CountedIsHeld ==
    ~hookDied => \A x \in foundOnce : x \in reported \/ \E p \in Showing : x \in counted[p]

\* One hook at work, if none crossed: what it is to move it has counted and is there,
\* the checkpoint it fills is the one it emptied, and what it will signal is in the tracker.
OneAtWork(p) ==
    /\ hpc[p] = "move" => \A n \in listed[p] : /\ unread[hkind[p]][n] # 0
                                               /\ <<hkind[p], unread[hkind[p]][n]>> \in foundOnce
    /\ hpc[p] = "fill" => checkpoint = "torn"
    /\ hpc[p] = "clear" => \E m \in 0..tracker[hkind[p]] : counted[p] = 1..m
NoneCrossed == ~hooksCrossed => (\A p, q \in Hooking : p = q) /\ \A p \in Hooking : OneAtWork(p)

\* No line of a tracker is signalled that was not logged and is there no more.
SignalsCount ==
    ~hooksCrossed =>
        signalled \in [Trackers -> Nat] /\ \A t \in Trackers : signalled[t] + tracker[t] <= logged[t]

HookInv ==
    /\ HookTypes /\ NoneLeavesUncounted /\ CountedIsHeld /\ ReadIsKept
    /\ TornIsExplained /\ SignalsCount /\ NoneCrossed

\* Files of warnings nobody touches stay as the sessions left them.
LEMMA WarningsRest ==
    ASSUME HookInv, UNCHANGED <<unread, read, raised, old, replaced>>,
           foundOnce \subseteq foundOnce', hooksCrossed => hooksCrossed'
    PROVE  NoneLeavesUncounted' /\ ReadIsKept'
<1>1. Warnings' = Warnings
    BY DEF Warnings
<1>2. In(unread)' = In(unread) /\ In(read)' = In(read)
    BY <1>1 DEF In, WarningsIn
<1>3. QED
    BY <1>1, <1>2 DEF HookInv, NoneLeavesUncounted, ReadIsKept

\* What a session counted stays held while it is shown by nobody.
LEMMA CountsRest ==
    ASSUME HookInv, foundOnce' = foundOnce, reported \subseteq reported', hookDied => hookDied',
           Showing \subseteq Showing', \A p \in Showing : counted'[p] = counted[p]
    PROVE  CountedIsHeld'
BY DEF HookInv, CountedIsHeld

\* Trackers nobody touches.
LEMMA TrackersRest ==
    ASSUME HookInv, UNCHANGED <<tracker, logged, signalled>>, hooksCrossed => hooksCrossed'
    PROVE  SignalsCount'
BY DEF HookInv, SignalsCount

\* A hook that goes on alone.
LEMMA AloneGoesOn ==
    ASSUME HookInv, NEW p \in Hookers, hpc[p] # "idle", hpc'[p] # "idle" => OneAtWork(p)',
           \A q \in Hookers \ {p} : hpc'[q] = hpc[q], hooksCrossed' = hooksCrossed
    PROVE  NoneCrossed'
<1> SUFFICES ASSUME ~hooksCrossed PROVE (\A q, r \in Hooking' : q = r) /\ \A q \in Hooking' : OneAtWork(q)'
    BY DEF NoneCrossed
<1>1. Hooking \subseteq {p}
    BY DEF HookInv, NoneCrossed, Hooking
<1>2. Hooking' \subseteq {p}
    BY <1>1 DEF Hooking
<1>3. \A q \in Hooking' : q = p /\ hpc'[p] # "idle"
    BY <1>2 DEF Hooking
<1>4. QED
    BY <1>3

\* A hook starts.
LEMMA StartKeeps ==
    ASSUME HookInv, NEW p \in Hookers, NEW stage \in {"list", "fill"}, NEW k \in {"precompact", ""},
           HookStarts(p, stage, k), stage = "list" => k = "precompact" /\ checkpoint' = checkpoint,
           stage = "fill" => checkpoint' = "torn", UNCHANGED <<unread, read, raised, old, tracker>>
    PROVE  HookInv'
<1>1. HookTypes
    BY DEF HookInv
<1>2. /\ hpc[p] = "idle" /\ hpc' = [hpc EXCEPT ![p] = stage] /\ hkind' = [hkind EXCEPT ![p] = k]
      /\ hooksCrossed' = (hooksCrossed \/ \E q \in Hookers : hpc[q] # "idle")
      /\ UNCHANGED <<listed, counted, reported, foundOnce, replaced, logged, signalled, hookDied>>
    BY DEF HookStarts
<1>3. hpc'[p] = stage /\ \A q \in Hookers \ {p} : hpc'[q] = hpc[q] /\ hkind'[q] = hkind[q]
    BY <1>1, <1>2 DEF HookTypes
<1>4. HookTypes'
    <2>1. hpc' \in [Hookers -> {"idle", "list", "move", "print", "fill", "count", "clear"}]
        BY <1>1, <1>2 DEF HookTypes
    <2>2. hkind' \in [Hookers -> WarningKinds \cup Trackers \cup {""}] /\ hkind'[p] = k
        BY <1>1, <1>2 DEF HookTypes, WarningKinds
    <2>3. hooksCrossed' \in BOOLEAN
        BY <1>2
    <2>4. checkpoint' \in {"none", "torn", "whole"}
        BY <1>1 DEF HookTypes
    <2>5. \A q \in Hookers : hpc'[q] \in {"list", "move"} => hkind'[q] \in WarningKinds
        BY <1>1, <1>3, <2>2 DEF HookTypes, WarningKinds
    <2>6. \A q \in Hookers : hpc'[q] \in {"count", "clear"} => hkind'[q] \in Trackers
        BY <1>1, <1>3 DEF HookTypes
    <2>7. QED
        BY <1>1, <1>2, <2>1, <2>2, <2>3, <2>4, <2>5, <2>6 DEF HookTypes
<1>5. NoneLeavesUncounted' /\ ReadIsKept'
    BY <1>2, WarningsRest
<1>6. CountedIsHeld'
    <2>1. Showing \subseteq Showing'
        BY <1>2, <1>3 DEF Showing
    <2>2. QED
        BY <1>2, <2>1, CountsRest
<1>7. SignalsCount'
    BY <1>2, TrackersRest
<1>8. TornIsExplained'
    <2>1. CASE stage = "fill"
        BY <1>3, <2>1 DEF TornIsExplained
    <2>2. CASE stage = "list"
        <3> SUFFICES ASSUME checkpoint = "torn", ~hookDied, ~hooksCrossed PROVE \E q \in Hookers : hpc'[q] = "fill"
            BY <1>2, <2>2 DEF TornIsExplained
        <3>1. PICK q \in Hookers : hpc[q] = "fill"
            BY DEF HookInv, TornIsExplained
        <3>2. QED
            BY <1>2, <1>3, <3>1
    <2>3. QED
        BY <2>1, <2>2
<1>9. NoneCrossed'
    <2> SUFFICES ASSUME ~hooksCrossed' PROVE (\A q, r \in Hooking' : q = r) /\ \A q \in Hooking' : OneAtWork(q)'
        BY DEF NoneCrossed
    <2>1. \A q \in Hookers : hpc[q] = "idle"
        BY <1>2
    <2>2. Hooking' = {p}
        BY <1>3, <2>1 DEF Hooking
    <2>3. OneAtWork(p)'
        BY <1>3 DEF OneAtWork
    <2>4. QED
        BY <2>2, <2>3
<1>10. QED
    BY <1>4, <1>5, <1>6, <1>7, <1>8, <1>9 DEF HookInv

LEMMA SessionAndCompactKeep ==
    ASSUME HookInv, NEW p \in Hookers, SessionStart(p) \/ PreCompact(p)
    PROVE  HookInv'
<1>1. CASE SessionStart(p)
    BY <1>1, StartKeeps DEF SessionStart, hookFiles
<1>2. CASE PreCompact(p)
    BY <1>2, StartKeeps DEF PreCompact
<1>3. QED
    BY <1>1, <1>2

\* The purge of read warnings takes none that is younger than a month.
LEMMA PurgeKeeps ==
    ASSUME HookInv, NEW k \in WarningKinds, read' = Purged(read, k), UNCHANGED <<unread, raised, old, replaced>>
    PROVE  read' \in Directories /\ ReadIsKept'
<1>1. HookTypes /\ ReadIsKept /\ 0 \in 0..MaxWarnings
    BY HooksAssumption DEF HookInv
<1> DEFINE left == [n \in WarningNames |-> IF read[k][n] \in Expired(k) THEN 0 ELSE read[k][n]]
<1>2. read' = [read EXCEPT ![k] = left]
    BY <1>1 DEF Purged, HookTypes, Directories
<1>3. left \in [WarningNames -> 0..MaxWarnings] /\ read' \in Directories
    <2>1. \A n \in WarningNames : read[k][n] \in 0..MaxWarnings
        BY <1>1 DEF HookTypes, Directories
    <2>2. left \in [WarningNames -> 0..MaxWarnings]
        BY <1>1, <2>1
    <2> DEFINE dir == [WarningNames -> 0..MaxWarnings]
    <2>3. read \in [WarningKinds -> dir]
        BY <1>1 DEF HookTypes, Directories
    <2> HIDE DEF left
    <2>4. left \in dir
        BY <2>2
    <2> HIDE DEF dir
    <2>5. read' \in [WarningKinds -> dir]
        BY <1>2, <2>3, <2>4
    <2>6. QED
        BY <2>2, <2>5 DEF Directories, dir
<1>4. Warnings' = Warnings /\ In(unread)' = In(unread)
    BY DEF Warnings, In, WarningsIn
<1>5. ASSUME NEW x \in Warnings, x \in In(read), x \notin old PROVE x \in In(read)'
    <2>1. x[1] \in WarningKinds /\ x = <<x[1], x[2]>> /\ x[2] # 0
        BY HooksAssumption DEF Warnings
    <2>2. PICK n \in WarningNames : read[x[1]][n] = x[2]
        BY <1>5 DEF In, WarningsIn
    <2>3. read'[x[1]][n] = x[2]
        <3>1. CASE x[1] # k
            <4> HIDE DEF left
            <4>1. QED
                BY <1>1, <1>2, <2>1, <2>2, <3>1 DEF HookTypes, Directories
        <3>2. CASE x[1] = k
            <4>1. x[2] \notin Expired(k)
                BY <1>5, <2>1, <3>2 DEF Expired
            <4>2. left[n] = x[2]
                BY <2>2, <3>2, <4>1
            <4> HIDE DEF left
            <4>3. read'[k] = left
                BY <1>1, <1>2 DEF HookTypes, Directories
            <4>4. QED
                BY <3>2, <4>2, <4>3
        <3>3. QED
            BY <3>1, <3>2
    <2>4. x[2] \in WarningsIn(read', x[1])
        BY <2>1, <2>3 DEF WarningsIn
    <2>5. QED
        BY <1>4, <2>4 DEF In
<1>6. ReadIsKept'
    BY <1>1, <1>4, <1>5 DEF ReadIsKept
<1>7. QED
    BY <1>3, <1>6

\* On to the other kind of warning, or to print.
LEMMA OnwardGoes ==
    ASSUME HookTypes, NEW p \in Hookers, Onward(p)
    PROVE  /\ hpc' \in [Hookers -> {"idle", "list", "move", "print", "fill", "count", "clear"}]
           /\ hkind' \in [Hookers -> WarningKinds \cup Trackers \cup {""}]
           /\ hpc'[p] \in {"list", "print"} /\ (hpc'[p] = "list" => hkind'[p] \in WarningKinds)
           /\ \A q \in Hookers \ {p} : hpc'[q] = hpc[q] /\ hkind'[q] = hkind[q]
BY DEF HookTypes, Onward, WarningKinds

\* A torn checkpoint is none of a hook that does not fill it.
LEMMA TornRests ==
    ASSUME HookInv, NEW p \in Hookers, hpc[p] # "fill", \A q \in Hookers \ {p} : hpc'[q] = hpc[q],
           checkpoint' = checkpoint, hookDied => hookDied', hooksCrossed => hooksCrossed'
    PROVE  TornIsExplained'
<1> SUFFICES ASSUME checkpoint = "torn", ~hookDied, ~hooksCrossed PROVE \E q \in Hookers : hpc'[q] = "fill"
    BY DEF TornIsExplained
<1>1. PICK q \in Hookers : hpc[q] = "fill"
    BY DEF HookInv, TornIsExplained
<1>2. QED
    BY <1>1

LEMMA ListsKeeps ==
    ASSUME HookInv, NEW p \in Hookers, Lists(p)
    PROVE  HookInv'
<1> DEFINE k     == hkind[p]
           found == {n \in WarningNames : unread[k][n] # 0}
           ids   == {<<k, w>> : w \in WarningsIn(unread, k)}
<1>1. HookTypes
    BY DEF HookInv
<1>2. /\ hpc[p] = "list" /\ listed' = [listed EXCEPT ![p] = found]
      /\ counted' = [counted EXCEPT ![p] = counted[p] \cup ids] /\ foundOnce' = foundOnce \cup ids
      /\ UNCHANGED <<checkpoint, unread, raised, old, tracker, hooksRun,
                     reported, replaced, logged, signalled, hookDied, hooksCrossed>>
    BY <1>1 DEF Lists, HookTypes
<1>3. \/ found = {} /\ read' = Purged(read, k) /\ Onward(p)
      \/ hpc' = [hpc EXCEPT ![p] = "move"] /\ UNCHANGED <<read, hkind>>
    BY DEF Lists
<1>4. k \in WarningKinds
    BY <1>1, <1>2 DEF HookTypes
<1>5. /\ hpc' \in [Hookers -> {"idle", "list", "move", "print", "fill", "count", "clear"}]
      /\ hkind' \in [Hookers -> WarningKinds \cup Trackers \cup {""}]
      /\ hpc'[p] \in {"list", "move", "print"} /\ (hpc'[p] \in {"list", "move"} => hkind'[p] \in WarningKinds)
      /\ hpc'[p] = "move" => hkind'[p] = k
      /\ \A q \in Hookers \ {p} : hpc'[q] = hpc[q] /\ hkind'[q] = hkind[q]
    <2>1. CASE Onward(p)
        BY <1>1, <2>1, OnwardGoes
    <2>2. CASE hpc' = [hpc EXCEPT ![p] = "move"] /\ UNCHANGED hkind
        BY <1>1, <1>4, <2>2 DEF HookTypes
    <2>3. QED
        BY <1>3, <2>1, <2>2
<1>6. read' \in Directories /\ ReadIsKept'
    <2>1. CASE read' = Purged(read, k)
        BY <1>2, <1>4, <2>1, PurgeKeeps
    <2>2. CASE read' = read
        BY <1>1, <1>2, <2>2, WarningsRest DEF HookTypes
    <2>3. QED
        BY <1>3, <2>1, <2>2
<1>7. /\ listed' \in [Hookers -> SUBSET WarningNames] /\ DOMAIN counted' = Hookers
      /\ listed'[p] = found /\ counted'[p] = counted[p] \cup ids
      /\ \A q \in Hookers \ {p} : listed'[q] = listed[q] /\ counted'[q] = counted[q]
    BY <1>1, <1>2 DEF HookTypes
<1>8. HookTypes'
    <2>1. \A q \in Hookers : hpc'[q] \in {"list", "move"} => hkind'[q] \in WarningKinds
        BY <1>1, <1>5 DEF HookTypes
    <2>2. \A q \in Hookers : hpc'[q] \in {"count", "clear"} => hkind'[q] \in Trackers
        BY <1>1, <1>5 DEF HookTypes
    <2>3. QED
        BY <1>1, <1>2, <1>5, <1>6, <1>7, <2>1, <2>2 DEF HookTypes
<1>9. NoneLeavesUncounted'
    <2>1. Warnings' = Warnings /\ In(unread)' = In(unread)
        BY <1>2 DEF Warnings, In, WarningsIn
    <2>2. QED
        BY <1>2, <2>1 DEF HookInv, NoneLeavesUncounted
<1>10. CountedIsHeld'
    <2> SUFFICES ASSUME ~hookDied, NEW x \in foundOnce'
                 PROVE  x \in reported \/ \E q \in Showing' : x \in counted'[q]
        BY <1>2 DEF CountedIsHeld
    <2>1. p \in Showing'
        BY <1>5 DEF Showing
    <2>2. CASE x \in ids
        BY <1>7, <2>1, <2>2
    <2>3. CASE x \in foundOnce
        <3>1. CASE x \in reported
            BY <3>1
        <3>2. CASE \E q \in Showing : x \in counted[q]
            <4>1. PICK q \in Showing : x \in counted[q]
                BY <3>2
            <4>2. q \in Showing' /\ x \in counted'[q]
                BY <1>5, <1>7, <2>1, <4>1 DEF Showing
            <4>3. QED
                BY <4>2
        <3>3. QED
            BY <2>3, <3>1, <3>2 DEF HookInv, CountedIsHeld
    <2>4. QED
        BY <1>2, <2>2, <2>3
<1>11. SignalsCount' /\ TornIsExplained'
    BY <1>2, <1>5, TrackersRest, TornRests
<1>12. NoneCrossed'
    <2>1. OneAtWork(p)'
        <3>1. ASSUME NEW n \in WarningNames, unread[k][n] # 0 PROVE <<k, unread[k][n]>> \in foundOnce'
            BY <1>2, <3>1 DEF WarningsIn
        <3>2. hpc'[p] \notin {"fill", "clear"}
            BY <1>5
        <3>3. hpc'[p] = "move" => \A n \in listed'[p] : /\ unread'[hkind'[p]][n] # 0
                                                       /\ <<hkind'[p], unread'[hkind'[p]][n]>> \in foundOnce'
            BY <1>2, <1>5, <1>7, <3>1
        <3>4. QED
            BY <3>2, <3>3 DEF OneAtWork
    <2>2. QED
        BY <1>2, <1>5, <2>1, AloneGoesOn
<1>13. QED
    BY <1>6, <1>8, <1>9, <1>10, <1>11, <1>12 DEF HookInv

\* A directory with another number for one warning.
Put(d, k, n, w) == [d EXCEPT ![k][n] = w]
LEMMA OneWarningSet ==
    ASSUME NEW d \in Directories, NEW k \in WarningKinds, NEW n \in WarningNames, NEW w \in 0..MaxWarnings
    PROVE  /\ Put(d, k, n, w) \in Directories /\ Put(d, k, n, w)[k][n] = w
           /\ \A j \in WarningKinds, m \in WarningNames :
                 <<j, m>> # <<k, n>> => Put(d, k, n, w)[j][m] = d[j][m]
<1> DEFINE e == Put(d, k, n, w)
           dir == [WarningNames -> 0..MaxWarnings]
           f == [d[k] EXCEPT ![n] = w]
<1>1. d[k] \in dir /\ d \in [WarningKinds -> dir]
    BY DEF Directories
<1>2. f \in dir /\ f[n] = w /\ \A m \in WarningNames \ {n} : f[m] = d[k][m]
    BY <1>1
<1>3. e = [d EXCEPT ![k] = f]
    BY <1>1 DEF Put
<1> HIDE DEF dir, f, e
<1>4. e \in [WarningKinds -> dir] /\ e[k] = f /\ \A j \in WarningKinds \ {k} : e[j] = d[j]
    BY <1>1, <1>2, <1>3
<1>5. e[k][n] = w
    BY <1>2, <1>4
<1>6. ASSUME NEW j \in WarningKinds, NEW m \in WarningNames, <<j, m>> # <<k, n>> PROVE e[j][m] = d[j][m]
    <2>1. CASE j = k
        BY <1>2, <1>4, <1>6, <2>1
    <2>2. CASE j # k
        BY <1>4, <2>2
    <2>3. QED
        BY <2>1, <2>2
<1>7. QED
    BY <1>4, <1>5, <1>6 DEF dir, Directories, e

LEMMA InIs ==
    ASSUME NEW d, NEW x \in Warnings
    PROVE  /\ x[1] \in WarningKinds /\ x[2] \in 1..MaxWarnings /\ x[2] # 0 /\ x = <<x[1], x[2]>>
           /\ x \in In(d) <=> \E m \in WarningNames : d[x[1]][m] = x[2]
<1>1. x[1] \in WarningKinds /\ x[2] \in 1..MaxWarnings /\ x = <<x[1], x[2]>>
    BY DEF Warnings
<1>2. x[2] # 0
    BY <1>1, HooksAssumption
<1>3. QED
    BY <1>1, <1>2 DEF In, WarningsIn

\* A warning that is moved: of it the files keep track.
LEMMA MovedIsRead ==
    ASSUME HookInv, NEW k \in WarningKinds, NEW n \in WarningNames, unread[k][n] # 0,
           unread' = Put(unread, k, n, 0), read' = Put(read, k, n, unread[k][n]),
           replaced' = replaced \cup {<<k, read[k][n]>>}, UNCHANGED <<raised, old, foundOnce, hooksCrossed>>,
           ~hooksCrossed => <<k, unread[k][n]>> \in foundOnce
    PROVE  unread' \in Directories /\ read' \in Directories /\ NoneLeavesUncounted' /\ ReadIsKept'
<1>0. /\ unread \in Directories /\ read \in Directories /\ 0 \in 0..MaxWarnings /\ unread[k][n] \in 0..MaxWarnings
      /\ Warnings' = Warnings
    <2>1. unread \in Directories /\ read \in Directories /\ Warnings' = Warnings
        BY DEF HookInv, HookTypes, Warnings
    <2>2. 0 \in 0..MaxWarnings
        BY HooksAssumption
    <2>3. unread[k][n] \in 0..MaxWarnings
        BY <2>1 DEF Directories
    <2>4. QED
        BY <2>1, <2>2, <2>3
<1>1. /\ unread' \in Directories
      /\ \A j \in WarningKinds, m \in WarningNames : <<j, m>> # <<k, n>> => unread'[j][m] = unread[j][m]
    BY <1>0, OneWarningSet
<1>2. /\ read' \in Directories /\ read'[k][n] = unread[k][n]
      /\ \A j \in WarningKinds, m \in WarningNames : <<j, m>> # <<k, n>> => read'[j][m] = read[j][m]
    BY <1>0, OneWarningSet
<1>3. \A x \in Warnings : x \in In(unread)' <=> \E m \in WarningNames : unread'[x[1]][m] = x[2]
    <2>1. In(unread)' = {x \in Warnings : x[2] \in WarningsIn(unread', x[1])}
        BY <1>0 DEF In, WarningsIn
    <2>2. QED
        BY <2>1, InIs DEF WarningsIn
<1>4. \A x \in Warnings : x \in In(read)' <=> \E m \in WarningNames : read'[x[1]][m] = x[2]
    <2>1. In(read)' = {x \in Warnings : x[2] \in WarningsIn(read', x[1])}
        BY <1>0 DEF In, WarningsIn
    <2>2. QED
        BY <2>1, InIs DEF WarningsIn
<1>5. ASSUME NEW x \in Warnings, x \in In(unread), x \notin In(unread)' PROVE x = <<k, unread[k][n]>>
    <2>1. PICK m \in WarningNames : unread[x[1]][m] = x[2]
        BY <1>5, InIs
    <2>2. <<x[1], m>> = <<k, n>>
        BY <1>1, <1>3, <1>5, <2>1, InIs
    <2>3. x[1] = k /\ m = n
        BY <2>2
    <2>4. QED
        BY <2>1, <2>3, InIs
<1>6. NoneLeavesUncounted'
    <2> SUFFICES ASSUME ~hooksCrossed, NEW x \in Warnings, x \notin In(unread)' PROVE x \in foundOnce
        BY <1>0 DEF NoneLeavesUncounted
    <2>1. CASE x \in In(unread)
        BY <1>5, <2>1
    <2>2. CASE x \notin In(unread)
        BY <2>2 DEF HookInv, NoneLeavesUncounted
    <2>3. QED
        BY <2>1, <2>2
<1>7. ReadIsKept'
    <2> SUFFICES ASSUME NEW x \in Warnings, x \notin In(unread)', x \notin old, x \notin replaced' PROVE x \in In(read)'
        BY <1>0 DEF ReadIsKept
    <2>1. CASE x \in In(unread)
        <3>1. x = <<k, unread[k][n]>>
            BY <1>5, <2>1
        <3>2. x[1] = k /\ x[2] = read'[k][n]
            BY <3>1, <1>2
        <3>3. QED
            BY <1>4, <3>2
    <2>2. CASE x \notin In(unread)
        <3>1. x \in In(read)
            BY <2>2 DEF HookInv, ReadIsKept
        <3>2. PICK m \in WarningNames : read[x[1]][m] = x[2]
            BY <3>1, InIs
        <3>3. <<x[1], m>> # <<k, n>>
            <4> SUFFICES ASSUME x[1] = k, m = n PROVE FALSE
                OBVIOUS
            <4>1. x = <<k, read[k][n]>>
                BY <3>2, InIs
            <4>2. QED
                BY <4>1
        <3>4. QED
            BY <1>2, <1>4, <3>2, <3>3, InIs
    <2>3. QED
        BY <2>1, <2>2
<1>8. QED
    BY <1>1, <1>2, <1>6, <1>7

LEMMA MovesKeeps ==
    ASSUME HookInv, NEW p \in Hookers, Moves(p)
    PROVE  HookInv'
<1> DEFINE k == hkind[p]
<1>1. HookTypes
    BY DEF HookInv
<1>2. PICK n \in listed[p] :
          /\ listed' = [listed EXCEPT ![p] = listed[p] \ {n}]
          /\ IF unread[k][n] = 0 THEN UNCHANGED <<unread, read, replaced>>
             ELSE /\ unread' = [unread EXCEPT ![k][n] = 0]
                  /\ read' = [read EXCEPT ![k][n] = unread[k][n]]
                  /\ replaced' = replaced \cup {<<k, read[k][n]>>}
    BY <1>1 DEF Moves, HookTypes
<1>3. /\ hpc[p] = "move"
      /\ UNCHANGED <<checkpoint, raised, old, tracker, hpc, hkind, counted, hooksRun,
                     reported, foundOnce, logged, signalled, hookDied, hooksCrossed>>
    BY DEF Moves
<1>4. k \in WarningKinds /\ n \in WarningNames
    BY <1>1, <1>3 DEF HookTypes
<1>5. ~hooksCrossed => /\ \A m \in listed[p] : unread[k][m] # 0 /\ <<k, unread[k][m]>> \in foundOnce
                       /\ p \in Hooking
    BY <1>3 DEF HookInv, NoneCrossed, OneAtWork, Hooking
<1>6. /\ unread' \in Directories /\ read' \in Directories /\ NoneLeavesUncounted' /\ ReadIsKept'
      /\ \A m \in WarningNames \ {n} : unread'[k][m] = unread[k][m]
    <2>1. CASE unread[k][n] = 0
        <3>1. UNCHANGED <<unread, read, replaced>>
            BY <1>2, <2>1
        <3>2. QED
            BY <1>1, <1>3, <3>1, WarningsRest DEF HookTypes
    <2>2. CASE unread[k][n] # 0
        <3>1. /\ unread' = Put(unread, k, n, 0) /\ read' = Put(read, k, n, unread[k][n])
              /\ replaced' = replaced \cup {<<k, read[k][n]>>}
            BY <1>2, <2>2 DEF Put
        <3> HIDE DEF k
        <3>2. unread' \in Directories /\ read' \in Directories /\ NoneLeavesUncounted' /\ ReadIsKept'
            BY <1>3, <1>4, <1>5, <2>2, <3>1, MovedIsRead
        <3>3. \A m \in WarningNames \ {n} : unread'[k][m] = unread[k][m]
            <4>1. unread \in Directories /\ 0 \in 0..MaxWarnings
                <5>1. 0 \in 0..MaxWarnings
                    BY HooksAssumption
                <5>2. QED
                    BY <1>1, <5>1 DEF HookTypes
            <4>2. \A j \in WarningKinds, m \in WarningNames : <<j, m>> # <<k, n>> => unread'[j][m] = unread[j][m]
                BY <1>4, <3>1, <4>1, OneWarningSet
            <4>3. \A m \in WarningNames \ {n} : <<k, m>> # <<k, n>>
                OBVIOUS
            <4>4. QED
                BY <1>4, <4>2, <4>3
        <3>4. QED
            BY <3>2, <3>3
    <2>3. QED
        BY <2>1, <2>2
<1>7. listed' \in [Hookers -> SUBSET WarningNames] /\ listed'[p] = listed[p] \ {n}
    BY <1>1, <1>2 DEF HookTypes
<1>8. HookTypes'
    BY <1>1, <1>3, <1>6, <1>7 DEF HookTypes
<1>9. CountedIsHeld' /\ SignalsCount' /\ TornIsExplained'
    <2>1. Showing' = Showing
        BY <1>3 DEF Showing
    <2>2. QED
        BY <1>3, <2>1, CountsRest, TrackersRest, TornRests
<1>10. NoneCrossed'
    <2> SUFFICES ASSUME ~hooksCrossed PROVE (\A q, r \in Hooking' : q = r) /\ \A q \in Hooking' : OneAtWork(q)'
        BY <1>3 DEF NoneCrossed
    <2>1. Hooking' = Hooking /\ Hooking = {p}
        BY <1>3, <1>5 DEF HookInv, NoneCrossed, Hooking
    <2>2. \A m \in listed'[p] : m \in listed[p] /\ m \in WarningNames \ {n}
        BY <1>1, <1>7 DEF HookTypes
    <2>3. \A m \in listed'[p] : unread'[k][m] # 0 /\ <<k, unread'[k][m]>> \in foundOnce
        BY <1>5, <1>6, <2>2
    <2>4. OneAtWork(p)'
        BY <1>3, <2>3 DEF OneAtWork
    <2>5. QED
        BY <2>1, <2>4
<1>11. QED
    BY <1>6, <1>8, <1>9, <1>10 DEF HookInv

LEMMA PurgesKeeps ==
    ASSUME HookInv, NEW p \in Hookers, Purges(p)
    PROVE  HookInv'
<1>1. HookTypes
    BY DEF HookInv
<1>2. /\ hpc[p] = "move" /\ read' = Purged(read, hkind[p]) /\ Onward(p)
      /\ UNCHANGED <<checkpoint, unread, raised, old, tracker, listed, counted, hooksRun, reported, foundOnce,
                     replaced, logged, signalled, hookDied, hooksCrossed>>
    BY DEF Purges, hookPast
<1>3. /\ hpc' \in [Hookers -> {"idle", "list", "move", "print", "fill", "count", "clear"}]
      /\ hkind' \in [Hookers -> WarningKinds \cup Trackers \cup {""}]
      /\ hpc'[p] \in {"list", "print"} /\ (hpc'[p] = "list" => hkind'[p] \in WarningKinds)
      /\ \A q \in Hookers \ {p} : hpc'[q] = hpc[q] /\ hkind'[q] = hkind[q]
    BY <1>1, <1>2, OnwardGoes
<1>4. read' \in Directories /\ ReadIsKept'
    BY <1>1, <1>2, PurgeKeeps DEF HookTypes
<1>5. HookTypes'
    <2>1. \A q \in Hookers : hpc'[q] \in {"list", "move"} => hkind'[q] \in WarningKinds
        BY <1>1, <1>3 DEF HookTypes
    <2>2. \A q \in Hookers : hpc'[q] \in {"count", "clear"} => hkind'[q] \in Trackers
        BY <1>1, <1>3 DEF HookTypes
    <2>3. QED
        BY <1>1, <1>2, <1>3, <1>4, <2>1, <2>2 DEF HookTypes
<1>6. NoneLeavesUncounted'
    <2>1. Warnings' = Warnings /\ In(unread)' = In(unread)
        BY <1>2 DEF Warnings, In, WarningsIn
    <2>2. QED
        BY <1>2, <2>1 DEF HookInv, NoneLeavesUncounted
<1>7. CountedIsHeld' /\ SignalsCount' /\ TornIsExplained'
    <2>1. Showing \subseteq Showing'
        BY <1>3 DEF Showing
    <2>2. QED
        BY <1>2, <1>3, <2>1, CountsRest, TrackersRest, TornRests
<1>8. NoneCrossed'
    <2>1. OneAtWork(p)'
        BY <1>3 DEF OneAtWork
    <2>2. QED
        BY <1>2, <1>3, <2>1, AloneGoesOn
<1>9. QED
    BY <1>4, <1>5, <1>6, <1>7, <1>8 DEF HookInv

\* A hook is at its end, or is stopped there.
LEMMA EndedHook ==
    ASSUME HookInv, NEW p \in Hookers, hpc[p] # "idle", HookEnds(p),
           UNCHANGED <<checkpoint, unread, read, raised, old, hooksRun, foundOnce, replaced, logged, hooksCrossed>>,
           tracker' \in [Trackers -> Nat], hookDied' \in BOOLEAN
    PROVE  /\ HookTypes' /\ NoneLeavesUncounted' /\ ReadIsKept' /\ NoneCrossed'
           /\ hpc'[p] = "idle" /\ \A q \in Hookers \ {p} : hpc'[q] = hpc[q] /\ counted'[q] = counted[q]
<1>1. HookTypes
    BY DEF HookInv
<1>2. /\ hpc' = [hpc EXCEPT ![p] = "idle"] /\ hkind' = [hkind EXCEPT ![p] = ""]
      /\ listed' = [listed EXCEPT ![p] = {}] /\ counted' = [counted EXCEPT ![p] = {}]
    BY DEF HookEnds
<1>3. /\ hpc'[p] = "idle"
      /\ \A q \in Hookers \ {p} : hpc'[q] = hpc[q] /\ hkind'[q] = hkind[q] /\ counted'[q] = counted[q]
    BY <1>1, <1>2 DEF HookTypes
<1>4. HookTypes'
    <2>1. hpc' \in [Hookers -> {"idle", "list", "move", "print", "fill", "count", "clear"}]
        BY <1>1, <1>2 DEF HookTypes
    <2>2. hkind' \in [Hookers -> WarningKinds \cup Trackers \cup {""}]
        BY <1>1, <1>2 DEF HookTypes
    <2>3. listed' \in [Hookers -> SUBSET WarningNames] /\ DOMAIN counted' = Hookers
        BY <1>1, <1>2 DEF HookTypes
    <2>4. \A q \in Hookers : /\ hpc'[q] \in {"list", "move"} => hkind'[q] \in WarningKinds
                             /\ hpc'[q] \in {"count", "clear"} => hkind'[q] \in Trackers
        BY <1>1, <1>3 DEF HookTypes
    <2>5. QED
        BY <1>1, <2>1, <2>2, <2>3, <2>4 DEF HookTypes
<1>5. NoneLeavesUncounted' /\ ReadIsKept'
    BY WarningsRest
<1>6. NoneCrossed'
    BY <1>3, AloneGoesOn
<1>7. QED
    BY <1>3, <1>4, <1>5, <1>6

LEMMA PrintsAndDeathsKeep ==
    ASSUME HookInv, NEW p \in Hookers, HookPrints(p) \/ FillFails(p) \/ HookDies(p)
    PROVE  HookInv'
<1>1. HookTypes /\ hpc[p] # "idle" /\ HookEnds(p) /\ hookDied' \in BOOLEAN
    <2>1. HookTypes /\ hpc[p] # "idle" /\ HookEnds(p)
        BY DEF HookInv, HookPrints, FillFails, HookDies
    <2>2. hookDied' \in BOOLEAN
        BY <2>1 DEF HookTypes, HookPrints, FillFails, HookDies
    <2>3. QED
        BY <2>1, <2>2
<1>2. UNCHANGED <<checkpoint, unread, read, raised, old, tracker, hooksRun, foundOnce, replaced, logged, signalled,
                  hooksCrossed>>
    BY DEF HookPrints, FillFails, HookDies, hookFiles
<1>3. /\ HookTypes' /\ NoneLeavesUncounted' /\ ReadIsKept' /\ NoneCrossed'
      /\ hpc'[p] = "idle" /\ \A q \in Hookers \ {p} : hpc'[q] = hpc[q] /\ counted'[q] = counted[q]
    BY <1>1, <1>2, EndedHook DEF HookTypes
<1>4. SignalsCount'
    BY <1>2, TrackersRest
<1>5. CASE HookPrints(p)
    <2>1. hpc[p] = "print" /\ reported' = reported \cup counted[p] /\ UNCHANGED hookDied
        BY <1>5 DEF HookPrints
    <2>2. CountedIsHeld'
        <3> SUFFICES ASSUME ~hookDied, NEW x \in foundOnce
                     PROVE  x \in reported' \/ \E q \in Showing' : x \in counted'[q]
            BY <1>2, <2>1 DEF CountedIsHeld
        <3>1. CASE x \in reported
            BY <2>1, <3>1
        <3>2. CASE \E q \in Showing : x \in counted[q]
            <4>1. PICK q \in Showing : x \in counted[q]
                BY <3>2
            <4>2. CASE q = p
                BY <2>1, <4>1, <4>2
            <4>3. CASE q # p
                BY <1>3, <4>1, <4>3 DEF Showing
            <4>4. QED
                BY <4>2, <4>3
        <3>3. QED
            BY <3>1, <3>2 DEF HookInv, CountedIsHeld
    <2>3. TornIsExplained'
        BY <1>2, <1>3, <2>1, TornRests
    <2>4. QED
        BY <1>3, <1>4, <2>2, <2>3 DEF HookInv
<1>6. CASE FillFails(p) \/ HookDies(p)
    <2>1. hookDied' = TRUE
        BY <1>6 DEF FillFails, HookDies
    <2>2. CountedIsHeld' /\ TornIsExplained'
        BY <2>1 DEF CountedIsHeld, TornIsExplained
    <2>3. QED
        BY <1>3, <1>4, <2>2 DEF HookInv
<1>7. QED
    BY <1>5, <1>6

\* The checkpoint, filled; the hook turns to the trackers.
LEMMA FillsKeeps ==
    ASSUME HookInv, NEW p \in Hookers, FillsCheckpoint(p)
    PROVE  HookInv'
<1>1. HookTypes
    BY DEF HookInv
<1>2. /\ hpc[p] = "fill" /\ hpc' = [hpc EXCEPT ![p] = "count"] /\ hkind' = [hkind EXCEPT ![p] = "edit"]
      /\ checkpoint' \in IF checkpoint = "whole" THEN {"whole", "torn"} ELSE {"whole"}
      /\ UNCHANGED <<unread, read, raised, old, tracker, listed, counted, hooksRun, reported, foundOnce, replaced,
                     logged, signalled, hookDied, hooksCrossed>>
    BY DEF FillsCheckpoint, hookPast
<1>3. /\ hpc'[p] = "count" /\ hkind'[p] = "edit"
      /\ \A q \in Hookers \ {p} : hpc'[q] = hpc[q] /\ hkind'[q] = hkind[q]
    BY <1>1, <1>2 DEF HookTypes
<1>4. HookTypes'
    <2>1. hpc' \in [Hookers -> {"idle", "list", "move", "print", "fill", "count", "clear"}]
        BY <1>1, <1>2 DEF HookTypes
    <2>2. hkind' \in [Hookers -> WarningKinds \cup Trackers \cup {""}]
        BY <1>1, <1>2 DEF HookTypes, Trackers
    <2>3. \A q \in Hookers : /\ hpc'[q] \in {"list", "move"} => hkind'[q] \in WarningKinds
                             /\ hpc'[q] \in {"count", "clear"} => hkind'[q] \in Trackers
        BY <1>1, <1>3 DEF HookTypes, Trackers
    <2>4. checkpoint' \in {"none", "torn", "whole"}
        BY <1>2
    <2>5. QED
        BY <1>1, <1>2, <2>1, <2>2, <2>3, <2>4 DEF HookTypes
<1>5. NoneLeavesUncounted' /\ ReadIsKept' /\ SignalsCount'
    BY <1>2, WarningsRest, TrackersRest
<1>6. CountedIsHeld'
    <2>1. Showing \subseteq Showing'
        BY <1>2, <1>3 DEF Showing
    <2>2. QED
        BY <1>2, <2>1, CountsRest
<1>7. TornIsExplained'
    <2>1. ~hooksCrossed => checkpoint = "torn"
        BY <1>2 DEF HookInv, NoneCrossed, OneAtWork, Hooking
    <2>2. QED
        BY <1>2, <2>1 DEF TornIsExplained
<1>8. NoneCrossed'
    <2>1. OneAtWork(p)'
        BY <1>3 DEF OneAtWork
    <2>2. QED
        BY <1>2, <1>3, <2>1, AloneGoesOn
<1>9. QED
    BY <1>4, <1>5, <1>6, <1>7, <1>8 DEF HookInv

LEMMA CountsKeeps ==
    ASSUME HookInv, NEW p \in Hookers, Counts(p)
    PROVE  HookInv'
<1>1. HookTypes
    BY DEF HookInv
<1>2. /\ hpc[p] = "count" /\ hpc' = [hpc EXCEPT ![p] = "clear"]
      /\ counted' = [counted EXCEPT ![p] = 1..tracker[hkind[p]]]
      /\ UNCHANGED <<checkpoint, unread, read, raised, old, tracker, hkind, listed, hooksRun, reported, foundOnce,
                     replaced, logged, signalled, hookDied, hooksCrossed>>
    BY DEF Counts, hookPast, hookFiles
<1>3. /\ hpc'[p] = "clear" /\ counted'[p] = 1..tracker[hkind[p]] /\ hkind[p] \in Trackers
      /\ \A q \in Hookers \ {p} : hpc'[q] = hpc[q] /\ counted'[q] = counted[q]
    BY <1>1, <1>2 DEF HookTypes
<1>4. HookTypes'
    <2>1. hpc' \in [Hookers -> {"idle", "list", "move", "print", "fill", "count", "clear"}]
        BY <1>1, <1>2 DEF HookTypes
    <2>2. DOMAIN counted' = Hookers
        BY <1>1, <1>2 DEF HookTypes
    <2>3. \A q \in Hookers : /\ hpc'[q] \in {"list", "move"} => hkind[q] \in WarningKinds
                             /\ hpc'[q] \in {"count", "clear"} => hkind[q] \in Trackers
        BY <1>1, <1>3 DEF HookTypes
    <2>4. QED
        BY <1>1, <1>2, <2>1, <2>2, <2>3 DEF HookTypes
<1>5. NoneLeavesUncounted' /\ ReadIsKept' /\ SignalsCount'
    BY <1>2, WarningsRest, TrackersRest
<1>6. CountedIsHeld' /\ TornIsExplained'
    <2>1. Showing \subseteq Showing' /\ p \notin Showing
        BY <1>2, <1>3 DEF Showing
    <2>2. \A q \in Showing : counted'[q] = counted[q]
        BY <1>3, <2>1 DEF Showing
    <2>3. QED
        BY <1>2, <1>3, <2>1, <2>2, CountsRest, TornRests
<1>7. NoneCrossed'
    <2>1. tracker[hkind[p]] \in Nat
        BY <1>1, <1>3 DEF HookTypes
    <2>2. OneAtWork(p)'
        BY <1>2, <1>3, <2>1 DEF OneAtWork
    <2>3. QED
        BY <1>2, <1>3, <2>2, AloneGoesOn
<1>8. QED
    BY <1>4, <1>5, <1>6, <1>7 DEF HookInv

LEMMA ClearsKeeps ==
    ASSUME HookInv, NEW p \in Hookers, Clears(p)
    PROVE  HookInv'
<1> DEFINE t == hkind[p]
           n == Cardinality(counted[p])
<1>1. HookTypes
    BY DEF HookInv
<1>2. /\ hpc[p] = "clear" /\ tracker' = [tracker EXCEPT ![t] = 0]
      /\ signalled' = [signalled EXCEPT ![t] = IF n >= Repeats(t) THEN signalled[t] + n ELSE signalled[t]]
      /\ UNCHANGED <<checkpoint, unread, read, raised, old, hooksRun, reported, foundOnce, replaced, logged, hookDied,
                     hooksCrossed>>
    <2>1. signalled' = [signalled EXCEPT ![t] = IF n >= Repeats(t) THEN @ + n ELSE @]
        BY DEF Clears
    <2>2. [signalled EXCEPT ![t] = IF n >= Repeats(t) THEN @ + n ELSE @]
             = [signalled EXCEPT ![t] = IF n >= Repeats(t) THEN signalled[t] + n ELSE signalled[t]]
        OBVIOUS
    <2>3. QED
        BY <2>1, <2>2 DEF Clears, Cleared
<1>3. t \in Trackers /\ tracker' \in [Trackers -> Nat] /\ hookDied' \in BOOLEAN
    BY <1>1, <1>2 DEF HookTypes
<1>4. SignalsCount'
    <2> SUFFICES ASSUME ~hooksCrossed
                 PROVE  /\ signalled' \in [Trackers -> Nat]
                        /\ \A u \in Trackers : signalled'[u] + tracker'[u] <= logged[u]
        BY <1>2 DEF SignalsCount
    <2>1. /\ signalled \in [Trackers -> Nat] /\ tracker \in [Trackers -> Nat] /\ logged \in [Trackers -> Nat]
          /\ \A u \in Trackers : signalled[u] + tracker[u] <= logged[u]
        BY <1>1 DEF HookInv, HookTypes, SignalsCount
    <2>2. PICK m \in 0..tracker[t] : counted[p] = 1..m
        BY <1>2 DEF HookInv, NoneCrossed, OneAtWork, Hooking
    <2>3. n = m /\ m \in Nat /\ m <= tracker[t]
        <3>1. m \in Nat /\ m <= tracker[t]
            BY <1>3, <2>1
        <3>2. Cardinality(1..m) = IF 1 > m THEN 0 ELSE m - 1 + 1
            BY <3>1, FS_Interval
        <3>3. QED
            BY <2>2, <3>1, <3>2
    <2> HIDE DEF t, n
    <2>4. /\ signalled' \in [Trackers -> Nat] /\ signalled'[t] <= signalled[t] + m /\ tracker'[t] = 0
          /\ \A u \in Trackers \ {t} : signalled'[u] = signalled[u] /\ tracker'[u] = tracker[u]
        <3>1. (IF n >= Repeats(t) THEN signalled[t] + n ELSE signalled[t]) \in {signalled[t], signalled[t] + m}
            BY <2>3
        <3>2. signalled'[t] \in {signalled[t], signalled[t] + m}
            BY <1>2, <1>3, <2>1, <3>1
        <3>3. signalled[t] \in Nat
            BY <1>3, <2>1
        <3>4. signalled' \in [Trackers -> Nat]
            <4> DEFINE s == IF n >= Repeats(t) THEN signalled[t] + n ELSE signalled[t]
            <4>1. signalled' = [signalled EXCEPT ![t] = s]
                BY <1>2
            <4>2. s \in Nat
                BY <2>3, <3>1, <3>3
            <4> HIDE DEF s
            <4>3. QED
                BY <2>1, <4>1, <4>2
        <3>5. QED
            BY <1>2, <1>3, <2>1, <2>3, <3>2, <3>3, <3>4
    <2>5. signalled'[t] + tracker'[t] <= logged[t]
        <3>1. /\ signalled'[t] \in Nat /\ signalled[t] \in Nat /\ tracker[t] \in Nat /\ logged[t] \in Nat
              /\ signalled[t] + tracker[t] <= logged[t]
            BY <1>3, <2>1, <2>4
        <3>2. QED
            BY <2>3, <2>4, <3>1
    <2>6. QED
        BY <2>1, <2>4, <2>5
<1>5. CASE t = "edit"
    <2>1. /\ hpc' = [hpc EXCEPT ![p] = "count"] /\ hkind' = [hkind EXCEPT ![p] = "fail"]
          /\ counted' = [counted EXCEPT ![p] = {}] /\ UNCHANGED listed
        BY <1>5 DEF Clears
    <2>2. /\ hpc'[p] = "count" /\ hkind'[p] = "fail"
          /\ \A q \in Hookers \ {p} : hpc'[q] = hpc[q] /\ hkind'[q] = hkind[q] /\ counted'[q] = counted[q]
        BY <1>1, <2>1 DEF HookTypes
    <2>3. HookTypes'
        <3>1. hpc' \in [Hookers -> {"idle", "list", "move", "print", "fill", "count", "clear"}]
            BY <1>1, <2>1 DEF HookTypes
        <3>2. hkind' \in [Hookers -> WarningKinds \cup Trackers \cup {""}]
            BY <1>1, <2>1 DEF HookTypes, Trackers
        <3>3. DOMAIN counted' = Hookers
            BY <1>1, <2>1 DEF HookTypes
        <3>4. \A q \in Hookers : /\ hpc'[q] \in {"list", "move"} => hkind'[q] \in WarningKinds
                                 /\ hpc'[q] \in {"count", "clear"} => hkind'[q] \in Trackers
            BY <1>1, <2>2 DEF HookTypes, Trackers
        <3>5. QED
            BY <1>1, <1>2, <1>3, <2>1, <3>1, <3>2, <3>3, <3>4 DEF HookTypes
    <2>4. NoneLeavesUncounted' /\ ReadIsKept'
        BY <1>2, WarningsRest
    <2>5. CountedIsHeld' /\ TornIsExplained'
        <3>1. Showing \subseteq Showing' /\ p \notin Showing
            BY <1>2, <2>2 DEF Showing
        <3>2. \A q \in Showing : counted'[q] = counted[q]
            BY <2>2, <3>1 DEF Showing
        <3>3. QED
            BY <1>2, <2>2, <3>1, <3>2, CountsRest, TornRests
    <2>6. NoneCrossed'
        <3>1. OneAtWork(p)'
            BY <2>2 DEF OneAtWork
        <3>2. QED
            BY <1>2, <2>2, <3>1, AloneGoesOn
    <2>7. QED
        BY <1>4, <2>3, <2>4, <2>5, <2>6 DEF HookInv
<1>6. CASE t # "edit"
    <2>1. HookEnds(p)
        BY <1>6 DEF Clears
    <2>2. /\ HookTypes' /\ NoneLeavesUncounted' /\ ReadIsKept' /\ NoneCrossed'
          /\ hpc'[p] = "idle" /\ \A q \in Hookers \ {p} : hpc'[q] = hpc[q] /\ counted'[q] = counted[q]
        BY <1>2, <1>3, <2>1, EndedHook
    <2>3. CountedIsHeld' /\ TornIsExplained'
        <3>1. Showing \subseteq Showing' /\ p \notin Showing
            BY <1>2, <2>2 DEF Showing
        <3>2. \A q \in Showing : counted'[q] = counted[q]
            BY <2>2, <3>1 DEF Showing
        <3>3. QED
            BY <1>2, <2>2, <3>1, <3>2, CountsRest, TornRests
    <2>4. QED
        BY <1>4, <2>2, <2>3 DEF HookInv
<1>7. QED
    BY <1>5, <1>6

\* What others leave: a warning with a new number, a line of a tracker, a month.
LEMMA RaisesKeeps ==
    ASSUME HookInv, NEW k \in WarningKinds, NEW n \in WarningNames, Raises(k, n)
    PROVE  HookInv'
<1>1. HookTypes
    BY DEF HookInv
<1>2. /\ raised[k] < MaxWarnings /\ unread[k][n] = 0 /\ raised' = [raised EXCEPT ![k] = raised[k] + 1]
      /\ unread' = Put(unread, k, n, raised'[k])
      /\ UNCHANGED <<checkpoint, read, old, tracker, hpc, hkind, listed, counted, hooksRun, reported, foundOnce,
                     replaced, logged, signalled, hookDied, hooksCrossed>>
    BY <1>1 DEF Raises, HookTypes, hookPast, Put
<1> DEFINE w == raised'[k]
<1>3. /\ raised' \in [WarningKinds -> 0..MaxWarnings] /\ w = raised[k] + 1 /\ w \in 1..MaxWarnings
      /\ w \in 0..MaxWarnings /\ \A j \in WarningKinds \ {k} : raised'[j] = raised[j]
    <2>1. raised[k] \in 0..MaxWarnings /\ MaxWarnings \in Nat
        BY <1>1, HooksAssumption DEF HookTypes
    <2>2. raised[k] + 1 \in 0..MaxWarnings /\ raised[k] + 1 \in 1..MaxWarnings
        BY <1>2, <2>1
    <2>3. QED
        BY <1>1, <1>2, <2>2 DEF HookTypes
<1> HIDE DEF w
<1>4. /\ unread' \in Directories /\ unread'[k][n] = w
      /\ \A j \in WarningKinds, m \in WarningNames : <<j, m>> # <<k, n>> => unread'[j][m] = unread[j][m]
    <2>1. unread' = Put(unread, k, n, w)
        BY <1>2 DEF w
    <2>2. unread \in Directories
        BY <1>1 DEF HookTypes
    <2>3. QED
        BY <1>3, <2>1, <2>2, OneWarningSet
<1>5. HookTypes'
    BY <1>1, <1>2, <1>3, <1>4 DEF HookTypes
<1>6. \A x \in Warnings' : x \in Warnings \/ x = <<k, w>>
    <2> SUFFICES ASSUME NEW x \in WarningKinds \X (1..MaxWarnings), x[2] <= raised'[x[1]], ~(x[2] <= raised[x[1]])
                 PROVE  x = <<k, w>>
        BY DEF Warnings
    <2>1. x[1] = k
        BY <1>3
    <2>2. raised[k] \in Nat /\ x[2] \in Nat /\ x[2] <= w /\ ~(x[2] <= raised[k])
        <3>1. x[2] \in 1..MaxWarnings /\ MaxWarnings \in Nat /\ raised[k] \in 0..MaxWarnings
            BY <1>1, HooksAssumption DEF HookTypes
        <3>2. QED
            BY <2>1, <3>1 DEF w
    <2>3. x[2] = w
        BY <1>3, <2>2
    <2>4. QED
        BY <2>1, <2>3
<1>7. \A x \in Warnings' : x \in In(unread)' <=> \E m \in WarningNames : unread'[x[1]][m] = x[2]
    <2>1. In(unread)' = {x \in Warnings' : x[2] \in WarningsIn(unread', x[1])}
        BY DEF In, WarningsIn
    <2>2. \A x \in Warnings' : x[2] # 0
        BY HooksAssumption DEF Warnings
    <2>3. QED
        BY <2>1, <2>2 DEF WarningsIn
<1>8. \A x \in Warnings' : x \in In(unread)' \/ (x \in Warnings /\ x \notin In(unread))
    <2> SUFFICES ASSUME NEW x \in Warnings', x \notin In(unread)' PROVE x \in Warnings /\ x \notin In(unread)
        OBVIOUS
    <2>1. x # <<k, w>>
        BY <1>4, <1>7
    <2>2. x \in Warnings
        BY <1>6, <2>1
    <2>3. ASSUME x \in In(unread) PROVE FALSE
        <3>1. PICK m \in WarningNames : unread[x[1]][m] = x[2]
            BY <2>2, <2>3, InIs
        <3>2. <<x[1], m>> # <<k, n>>
            <4> SUFFICES ASSUME x[1] = k, m = n PROVE FALSE
                OBVIOUS
            <4>1. x[2] = 0
                BY <1>2, <3>1
            <4>2. QED
                BY <2>2, <4>1, InIs
        <3>3. unread'[x[1]][m] = x[2]
            BY <1>4, <2>2, <3>1, <3>2, InIs
        <3>4. QED
            BY <1>7, <3>3
    <2>4. QED
        BY <2>2, <2>3
<1>9. NoneLeavesUncounted'
    BY <1>2, <1>8 DEF HookInv, NoneLeavesUncounted
<1>10. ReadIsKept'
    <2> SUFFICES ASSUME NEW x \in Warnings', x \notin In(unread)', x \notin old, x \notin replaced PROVE x \in In(read)'
        BY <1>2 DEF ReadIsKept
    <2>1. x \in Warnings /\ x \in In(read)
        BY <1>8 DEF HookInv, ReadIsKept
    <2>2. In(read)' = {y \in Warnings' : y[2] \in WarningsIn(read, y[1])}
        BY <1>2 DEF In, WarningsIn
    <2>3. QED
        BY <2>1, <2>2 DEF In
<1>11. CountedIsHeld' /\ SignalsCount' /\ TornIsExplained'
    <2>1. Showing' = Showing
        BY <1>2 DEF Showing
    <2>2. CountedIsHeld' /\ SignalsCount'
        BY <1>2, <2>1, CountsRest, TrackersRest
    <2>3. TornIsExplained'
        BY <1>2 DEF HookInv, TornIsExplained
    <2>4. QED
        BY <2>2, <2>3
<1>12. NoneCrossed'
    <2> SUFFICES ASSUME ~hooksCrossed PROVE (\A p, q \in Hooking : p = q) /\ \A p \in Hooking : OneAtWork(p)'
        <3>1. Hooking' = Hooking
            BY <1>2 DEF Hooking
        <3>2. QED
            BY <1>2, <3>1 DEF NoneCrossed
    <2>1. (\A p, q \in Hooking : p = q) /\ \A p \in Hooking : OneAtWork(p)
        BY DEF HookInv, NoneCrossed
    <2>2. ASSUME NEW p \in Hooking PROVE OneAtWork(p)'
        <3>1. ASSUME hpc[p] = "move", NEW m \in listed[p]
              PROVE  unread'[hkind[p]][m] # 0 /\ <<hkind[p], unread'[hkind[p]][m]>> \in foundOnce
            <4>1. unread[hkind[p]][m] # 0 /\ <<hkind[p], unread[hkind[p]][m]>> \in foundOnce
                BY <2>1, <3>1 DEF OneAtWork
            <4>2. hkind[p] \in WarningKinds /\ m \in WarningNames
                BY <1>1, <3>1 DEF HookTypes, Hooking
            <4>3. <<hkind[p], m>> # <<k, n>>
                BY <1>2, <4>1
            <4>4. QED
                BY <1>4, <4>1, <4>2, <4>3
        <3>2. QED
            BY <1>2, <2>1, <3>1 DEF OneAtWork
    <2>3. QED
        BY <2>1, <2>2
<1>13. QED
    BY <1>5, <1>9, <1>10, <1>11, <1>12 DEF HookInv

LEMMA LogsKeeps ==
    ASSUME HookInv, NEW t \in Trackers, Logs(t)
    PROVE  HookInv'
<1>1. HookTypes
    BY DEF HookInv
<1>2. /\ logged' = [logged EXCEPT ![t] = logged[t] + 1] /\ tracker' = [tracker EXCEPT ![t] = tracker[t] + 1]
      /\ UNCHANGED <<checkpoint, unread, read, raised, old, hpc, hkind, listed, counted, hooksRun,
                     reported, foundOnce, replaced, signalled, hookDied, hooksCrossed>>
    BY <1>1 DEF Logs, HookTypes
<1>3. /\ logged' \in [Trackers -> Nat] /\ tracker' \in [Trackers -> Nat]
      /\ \A u \in Trackers : /\ logged[u] \in Nat /\ tracker[u] \in Nat
                             /\ tracker'[u] \in {tracker[u], tracker[u] + 1}
                             /\ tracker'[u] = tracker[u] + 1 => logged'[u] = logged[u] + 1
                             /\ tracker'[u] = tracker[u] => logged'[u] = logged[u]
    <2>1. logged \in [Trackers -> Nat] /\ tracker \in [Trackers -> Nat]
        BY <1>1 DEF HookTypes
    <2>2. QED
        BY <1>2, <2>1
<1>4. HookTypes'
    BY <1>1, <1>2, <1>3 DEF HookTypes
<1>5. NoneLeavesUncounted' /\ ReadIsKept'
    BY <1>2, WarningsRest
<1>6. CountedIsHeld' /\ TornIsExplained'
    <2>1. Showing' = Showing
        BY <1>2 DEF Showing
    <2>2. CountedIsHeld'
        BY <1>2, <2>1, CountsRest
    <2>3. TornIsExplained'
        BY <1>2 DEF HookInv, TornIsExplained
    <2>4. QED
        BY <2>2, <2>3
<1>7. SignalsCount'
    <2> SUFFICES ASSUME ~hooksCrossed
                 PROVE  /\ signalled \in [Trackers -> Nat]
                        /\ \A u \in Trackers : signalled[u] + tracker'[u] <= logged'[u]
        BY <1>2 DEF SignalsCount
    <2>1. signalled \in [Trackers -> Nat] /\ \A u \in Trackers : signalled[u] + tracker[u] <= logged[u]
        BY DEF HookInv, SignalsCount
    <2>2. ASSUME NEW u \in Trackers PROVE signalled[u] + tracker'[u] <= logged'[u]
        <3>1. signalled[u] \in Nat
            BY <2>1
        <3>2. QED
            BY <1>3, <2>1, <3>1
    <2>3. QED
        BY <2>1, <2>2
<1>8. NoneCrossed'
    <2> SUFFICES ASSUME ~hooksCrossed PROVE (\A p, q \in Hooking : p = q) /\ \A p \in Hooking : OneAtWork(p)'
        <3>1. Hooking' = Hooking
            BY <1>2 DEF Hooking
        <3>2. QED
            BY <1>2, <3>1 DEF NoneCrossed
    <2>1. (\A p, q \in Hooking : p = q) /\ \A p \in Hooking : OneAtWork(p)
        BY DEF HookInv, NoneCrossed
    <2>2. ASSUME NEW p \in Hooking PROVE OneAtWork(p)'
        <3>1. ASSUME hpc[p] = "clear" PROVE \E m \in 0..tracker'[hkind[p]] : counted[p] = 1..m
            <4>1. PICK m \in 0..tracker[hkind[p]] : counted[p] = 1..m
                BY <2>1, <3>1 DEF OneAtWork
            <4>2. hkind[p] \in Trackers
                BY <1>1, <3>1 DEF HookTypes, Hooking
            <4>3. m \in 0..tracker'[hkind[p]]
                BY <1>3, <4>2
            <4>4. QED
                BY <4>1, <4>3
        <3>2. QED
            BY <1>2, <2>1, <3>1 DEF OneAtWork
    <2>3. QED
        BY <2>1, <2>2
<1>9. QED
    BY <1>4, <1>5, <1>6, <1>7, <1>8 DEF HookInv

LEMMA MonthKeeps ==
    ASSUME HookInv, MonthPasses \/ UNCHANGED hookVars
    PROVE  HookInv'
<1>1. UNCHANGED <<checkpoint, unread, read, raised, tracker, hpc, hkind, listed, counted, hooksRun, reported,
                  foundOnce, replaced, logged, signalled, hookDied, hooksCrossed>>
    BY DEF MonthPasses, hookVars, hookPast
<1>2. HookTypes' /\ CountedIsHeld' /\ TornIsExplained' /\ SignalsCount'
    BY <1>1 DEF HookInv, HookTypes, CountedIsHeld, TornIsExplained, SignalsCount, Showing
<1>3. Warnings' = Warnings /\ In(unread)' = In(unread) /\ In(read)' = In(read)
    BY <1>1 DEF Warnings, In, WarningsIn
<1>4. NoneLeavesUncounted'
    BY <1>1, <1>3 DEF HookInv, NoneLeavesUncounted
<1>5. ReadIsKept'
    <2>1. CASE MonthPasses
        <3>1. old' = Warnings
            BY <2>1 DEF MonthPasses, Warnings
        <3>2. QED
            BY <1>3, <3>1 DEF ReadIsKept
    <2>2. CASE UNCHANGED hookVars
        <3>1. old' = old
            BY <2>2 DEF hookVars
        <3>2. QED
            BY <1>1, <1>3, <3>1 DEF HookInv, ReadIsKept
    <2>3. QED
        BY <2>1, <2>2
<1>6. NoneCrossed'
    <2>1. Hooking' = Hooking /\ \A p \in Hooking : OneAtWork(p) => OneAtWork(p)'
        BY <1>1 DEF Hooking, OneAtWork
    <2>2. QED
        BY <1>1, <2>1 DEF HookInv, NoneCrossed
<1>7. QED
    BY <1>2, <1>4, <1>5, <1>6 DEF HookInv

LEMMA HookBegins == HookInit => HookInv
<1> SUFFICES ASSUME HookInit PROVE HookInv
    OBVIOUS
<1>0. 0 \in 0..MaxWarnings
    BY HooksAssumption
<1>1. /\ unread = [k \in WarningKinds |-> [n \in WarningNames |-> 0]] /\ read = unread /\ old = {} /\ replaced = {}
      /\ raised = [k \in WarningKinds |-> 0] /\ checkpoint \in {"none", "whole"} /\ foundOnce = {}
      /\ hooksCrossed = FALSE /\ hookDied = FALSE
    BY DEF HookInit
<1>2. /\ tracker = [t \in Trackers |-> 0] /\ logged = tracker /\ signalled = tracker
      /\ hpc = [p \in Hookers |-> "idle"] /\ hkind = [p \in Hookers |-> ""]
      /\ listed = [p \in Hookers |-> {}] /\ counted = listed
    BY DEF HookInit
<1>3. unread \in Directories /\ read \in Directories
    <2>1. [n \in WarningNames |-> 0] \in [WarningNames -> 0..MaxWarnings]
        BY <1>0
    <2>2. QED
        BY <1>1, <2>1 DEF Directories
<1>4. HookTypes
    <2>1. raised \in [WarningKinds -> 0..MaxWarnings] /\ tracker \in [Trackers -> Nat] /\ logged \in [Trackers -> Nat]
        BY <1>0, <1>1, <1>2
    <2>2. /\ hpc \in [Hookers -> {"idle", "list", "move", "print", "fill", "count", "clear"}]
          /\ hkind \in [Hookers -> WarningKinds \cup Trackers \cup {""}]
          /\ \A p \in Hookers : hpc[p] = "idle"
        BY <1>2
    <2>3. listed \in [Hookers -> SUBSET WarningNames] /\ DOMAIN counted = Hookers
        BY <1>2
    <2>4. hookDied \in BOOLEAN /\ hooksCrossed \in BOOLEAN
        BY <1>1
    <2>5. QED
        BY <1>1, <1>3, <2>1, <2>2, <2>3, <2>4 DEF HookTypes
<1>5. Warnings = {}
    <2>1. ASSUME NEW x \in WarningKinds \X (1..MaxWarnings) PROVE ~(x[2] <= raised[x[1]])
        <3>1. raised[x[1]] = 0 /\ x[2] \in 1..MaxWarnings /\ MaxWarnings \in Nat
            BY <1>1, HooksAssumption
        <3>2. QED
            BY <3>1
    <2>2. QED
        BY <2>1 DEF Warnings
<1>6. NoneLeavesUncounted /\ ReadIsKept
    BY <1>5 DEF NoneLeavesUncounted, ReadIsKept
<1>7. CountedIsHeld /\ TornIsExplained
    BY <1>1 DEF CountedIsHeld, TornIsExplained
<1>8. SignalsCount
    <2>1. signalled \in [Trackers -> Nat] /\ \A t \in Trackers : signalled[t] = 0 /\ tracker[t] = 0 /\ logged[t] = 0
        BY <1>2
    <2>2. QED
        BY <2>1 DEF SignalsCount
<1>9. NoneCrossed
    <2>1. Hooking = {}
        BY <1>2 DEF Hooking
    <2>2. QED
        BY <2>1 DEF NoneCrossed
<1>10. QED
    BY <1>4, <1>6, <1>7, <1>8, <1>9 DEF HookInv

LEMMA HookInductive == HookInv /\ [HookNext]_hookVars => HookInv'
<1> SUFFICES ASSUME HookInv, [HookNext]_hookVars PROVE HookInv'
    OBVIOUS
<1>1. ASSUME NEW p \in Hookers, SessionStart(p) \/ PreCompact(p) PROVE HookInv'
    BY <1>1, SessionAndCompactKeep
<1>2. ASSUME NEW p \in Hookers, Lists(p) PROVE HookInv'
    BY <1>2, ListsKeeps
<1>3. ASSUME NEW p \in Hookers, Moves(p) PROVE HookInv'
    BY <1>3, MovesKeeps
<1>4. ASSUME NEW p \in Hookers, Purges(p) PROVE HookInv'
    BY <1>4, PurgesKeeps
<1>5. ASSUME NEW p \in Hookers, HookPrints(p) \/ FillFails(p) \/ HookDies(p) PROVE HookInv'
    BY <1>5, PrintsAndDeathsKeep
<1>6. ASSUME NEW p \in Hookers, FillsCheckpoint(p) PROVE HookInv'
    BY <1>6, FillsKeeps
<1>7. ASSUME NEW p \in Hookers, Counts(p) PROVE HookInv'
    BY <1>7, CountsKeeps
<1>8. ASSUME NEW p \in Hookers, Clears(p) PROVE HookInv'
    BY <1>8, ClearsKeeps
<1>9. ASSUME NEW k \in WarningKinds, NEW n \in WarningNames, Raises(k, n) PROVE HookInv'
    BY <1>9, RaisesKeeps
<1>10. ASSUME NEW t \in Trackers, Logs(t) PROVE HookInv'
    BY <1>10, LogsKeeps
<1>11. ASSUME MonthPasses \/ UNCHANGED hookVars PROVE HookInv'
    BY <1>11, MonthKeeps
<1>12. QED
    BY <1>1, <1>2, <1>3, <1>4, <1>5, <1>6, <1>7, <1>8, <1>9, <1>10, <1>11 DEF HookNext

LEMMA PartAbove ==
    ASSUME NEW m \in Nat, NEW n \in Nat, m <= n, NEW S \in SUBSET ((m + 1)..n)
    PROVE  IsFiniteSet(S) /\ Cardinality(S) \in Nat /\ Cardinality(S) <= n - m
<1>1. IsFiniteSet((m + 1)..n) /\ Cardinality((m + 1)..n) = IF m + 1 > n THEN 0 ELSE n - (m + 1) + 1
    BY FS_Interval
<1>2. Cardinality((m + 1)..n) = n - m
    BY <1>1
<1>3. IsFiniteSet(S) /\ Cardinality(S) <= Cardinality((m + 1)..n)
    BY <1>1, FS_Subset
<1>4. Cardinality(S) \in Nat
    BY <1>3, FS_CardinalityType
<1>5. QED
    BY <1>2, <1>3, <1>4

LEMMA PartOfInterval ==
    ASSUME NEW n \in Nat, NEW S \in SUBSET (1..n)
    PROVE  IsFiniteSet(S) /\ Cardinality(S) \in Nat /\ Cardinality(S) <= n
<1>1. 0 \in Nat /\ 0 <= n /\ S \in SUBSET ((0 + 1)..n)
    OBVIOUS
<1>2. IsFiniteSet(S) /\ Cardinality(S) \in Nat /\ Cardinality(S) <= n - 0
    BY <1>1, PartAbove
<1>3. QED
    BY <1>2

\* Of any number of waiting files: those described and those counted are at least the
\* readable ones and at most all.
LEMMA NudgesCount ==
    ASSUME NEW n \in Nat, NEW readable \in [1..n -> BOOLEAN], NEW kind \in {"correction", "capture"}
    PROVE  LET said == Described(kind, readable) + AndMore(readable)
           IN  Cardinality({i \in 1..n : readable[i]}) <= said /\ said <= n
<1> DEFINE all == {i \in 1..n : readable[i]}
           cut == AtMostFive(n)
           shown == {i \in 1..cut : readable[i]}
           rest == {i \in (cut + 1)..n : readable[i]}
<1>1. Len(readable) = n
    OBVIOUS
<1>2. cut \in 0..n /\ cut <= 5 /\ (n <= 5 => cut = n) /\ (n > 5 => cut = 5)
    BY DEF AtMostFive
<1>3. /\ IsFiniteSet(all) /\ Cardinality(all) \in Nat /\ Cardinality(all) <= n
      /\ IsFiniteSet(shown) /\ Cardinality(shown) \in Nat /\ Cardinality(shown) <= cut
      /\ IsFiniteSet(rest) /\ Cardinality(rest) \in Nat /\ Cardinality(rest) <= n - cut
    <2>2. cut \in Nat /\ cut + 1 \in Nat
        BY <1>2
    <2>3. all \in SUBSET (1..n) /\ shown \in SUBSET (1..cut) /\ rest \in SUBSET ((cut + 1)..n)
        OBVIOUS
    <2> HIDE DEF all, shown, rest, cut
    <2>4. IsFiniteSet(all) /\ Cardinality(all) \in Nat /\ Cardinality(all) <= n
        BY <2>3, PartOfInterval
    <2>5. IsFiniteSet(shown) /\ Cardinality(shown) \in Nat /\ Cardinality(shown) <= cut
        BY <2>2, <2>3, PartOfInterval
    <2>6. IsFiniteSet(rest) /\ Cardinality(rest) \in Nat /\ Cardinality(rest) <= n - cut
        <3>1. cut <= n
            BY <1>2
        <3>2. QED
            BY <2>2, <2>3, <3>1, PartAbove
    <2>7. QED
        BY <1>2, <2>2, <2>4, <2>5, <2>6
<1>4. Cardinality(all) <= Cardinality(shown) + Cardinality(rest)
    <2>1. all \subseteq shown \cup rest
        BY <1>2
    <2> HIDE DEF all, shown, rest, cut
    <2>2. IsFiniteSet(shown \cup rest) /\ Cardinality(all) <= Cardinality(shown \cup rest)
        BY <1>3, <2>1, FS_Union, FS_Subset
    <2>3. Cardinality(shown \cup rest) = Cardinality(shown) + Cardinality(rest) - Cardinality(shown \cap rest)
        BY <1>3, FS_Union
    <2>4. Cardinality(shown \cap rest) \in Nat /\ Cardinality(shown \cup rest) \in Nat
        BY <1>3, <2>2, FS_Intersection, FS_CardinalityType
    <2>5. QED
        BY <1>3, <2>2, <2>3, <2>4
<1>5. Upto(readable, n) = Cardinality(all) /\ Upto(readable, cut) = Cardinality(shown)
    BY DEF Upto
<1>6. AndMore(readable) = n - cut
    BY <1>1, <1>2 DEF AndMore
<1>7. CASE kind = "correction"
    <2>1. Described(kind, readable) = AtMostFive(Cardinality(all))
        BY <1>1, <1>5, <1>7 DEF Described
    <2> HIDE DEF all, shown, rest, cut
    <2>2. AtMostFive(Cardinality(all)) = IF Cardinality(all) > 5 THEN 5 ELSE Cardinality(all)
        BY DEF AtMostFive
    <2>3. Cardinality(all) <= AtMostFive(Cardinality(all)) + (n - cut) /\ AtMostFive(Cardinality(all)) + (n - cut) <= n
        BY <1>2, <1>3, <2>2
    <2>4. QED
        BY <1>6, <2>1, <2>3 DEF all
<1>8. CASE kind # "correction"
    <2>1. Described(kind, readable) = Cardinality(shown)
        BY <1>1, <1>5, <1>8 DEF Described
    <2> HIDE DEF all, shown, rest, cut
    <2>2. Cardinality(all) <= Cardinality(shown) + (n - cut) /\ Cardinality(shown) + (n - cut) <= n
        BY <1>2, <1>3, <1>4
    <2>3. QED
        BY <1>6, <2>1, <2>2 DEF all
<1>9. QED
    BY <1>7, <1>8

\* However hooks, failing jobs and edits interleave: what a session reports, and what the
\* checkpoint, the warnings and the trackers say afterwards, is accounted for.
THEOREM HooksAreCareful == HookSpec => []HooksLoseNothing
<1>1. HookInv => HooksLoseNothing
    <2> SUFFICES ASSUME HookInv PROVE HooksLoseNothing
        OBVIOUS
    <2>1. HookTypeOK
        <3>1. \A k \in WarningKinds, n \in WarningNames : unread[k][n] \in 0..MaxWarnings /\ read[k][n] \in 0..MaxWarnings
            BY DEF HookInv, HookTypes, Directories
        <3>2. QED
            BY <3>1 DEF HookInv, HookTypes, HookTypeOK
    <2>2. CountedIsShown
        <3> SUFFICES ASSUME ~hookDied, \A p \in Hookers : hpc[p] = "idle", NEW x \in foundOnce PROVE x \in reported
            BY DEF CountedIsShown
        <3>1. Showing = {}
            BY DEF Showing
        <3>2. QED
            BY <3>1 DEF HookInv, CountedIsHeld
    <2>3. SignalledOnce
        BY DEF HookInv, SignalsCount, SignalledOnce
    <2>4. NudgesAreWhole
        <3> SUFFICES ASSUME NEW n \in 0..7, NEW readable \in [1..n -> BOOLEAN], NEW kind \in {"correction", "capture"}
                     PROVE  LET said == Described(kind, readable) + AndMore(readable)
                            IN  Cardinality({i \in 1..n : readable[i]}) <= said /\ said <= n
            BY DEF NudgesAreWhole
        <3>1. n \in Nat
            OBVIOUS
        <3>2. QED
            BY <3>1, NudgesCount
    <2>5. MoreConfidenceIsSafe
        BY DEF MoreConfidenceIsSafe, Blocks, NoConfidence, NotANumber
    <2>6. QED
        BY <2>1, <2>2, <2>3, <2>4, <2>5 DEF HookInv, HooksLoseNothing
<1>2. QED
    BY <1>1, HookBegins, HookInductive, PTL DEF HookSpec

----------------------------------------------------------------------------
\* Background. What a command read, and what it will write.

\* What the state file of the daemon may hold, and what a cycle has learnt.
DaemonEvents == [kind : {"tick", "webhook", "sleep", "worker_cycle"},
                 overall : {"", "failed", "completed", "deferred", "idle", "dry_run"}]
DaemonStates == [status : {"idle", "awake", "sleeping", "torn"}, ticks : Nat, hooks : Nat, until : Nat,
                 events : Seq(DaemonEvents)]
Cycles == [hour : Nat, dry : BOOLEAN, outside : BOOLEAN, dream : Results, research : Results]
Stages == {"idle", "dream", "dreaming", "research", "researching", "record", "truncate", "write"}
Saving == {p \in Runners : bpc[p] \in {"truncate", "write"}}

BackgroundTypes ==
    /\ clock \in Nat \ {0} /\ calls \in Nat /\ disturbed \in BOOLEAN
    /\ always \in DaemonStates /\ known \in DaemonStates /\ wrote \in [Runners -> DaemonStates]
    /\ bpc \in [Runners -> Stages] /\ cycle \in [Runners -> Cycles]
    /\ dreamJob \in {"none", "pending", "running"} /\ researchJob \in {"none", "pending", "running"}

\* A sleeper, and nobody else, has an hour to wake at.
HasAnEnd(s) == s.status = "sleeping" <=> s.until # 0
SleepersEnd == HasAnEnd(always) /\ \A p \in Runners : HasAnEnd(wrote[p])

\* Content s lost nothing of content k.
Keeps(k, s) ==
    /\ s.ticks >= k.ticks /\ s.hooks >= k.hooks
    /\ \E new \in {<<>>} \cup {<<e>> : e \in {s.events[i] : i \in DOMAIN s.events}} :
          LET all == k.events \o new
          IN  \/ s.events = all
              \/ Len(all) > KeptEvents /\ s.events = Tail(all)

\* Of commands that did not cross one at most is saving, what it saves keeps the last
\* whole content, and that is in the file until it is emptied.
Undisturbed ==
    ~disturbed =>
        /\ \A p, q \in Saving : p = q
        /\ \A p \in Saving : Keeps(known, wrote[p])
        /\ (\A p \in Runners : bpc[p] # "write") => always = known
NeverTorn == known.status # "torn" /\ \A p \in Runners : wrote[p].status # "torn"

BackgroundInv ==
    /\ BackgroundTypes /\ SleepersEnd /\ NeverTorn /\ DryRunsRunNothing /\ ResearchKeepsHours
    /\ Undisturbed

\* What the events of a cycle report.
LEMMA OverallTyped ==
    ASSUME NEW d \in Results, NEW r \in Results
    PROVE  Event("worker_cycle", Overall(d, r)) \in DaemonEvents
<1>1. Overall(d, r) \in {"failed", "completed", "deferred", "idle", "dry_run"}
    BY DEF Overall
<1>2. QED
    BY <1>1 DEF Event, DaemonEvents

\* The state file, read as it is found.
LEMMA LoadedTyped ==
    ASSUME BackgroundInv
    PROVE  Loaded \in DaemonStates /\ HasAnEnd(Loaded)
<1>1. DefaultState \in DaemonStates /\ HasAnEnd(DefaultState)
    BY DEF DefaultState, DaemonStates, HasAnEnd
<1>2. always \in DaemonStates /\ HasAnEnd(always)
    BY DEF BackgroundInv, BackgroundTypes, SleepersEnd
<1>3. QED
    BY <1>1, <1>2 DEF Loaded

\* A state that nothing is logged to, or one event, keeps the events there were.
LEMMA NothingLogged ==
    ASSUME NEW k \in DaemonStates, NEW s \in DaemonStates, s.events = k.events,
           s.ticks >= k.ticks, s.hooks >= k.hooks
    PROVE  Keeps(k, s)
<1>1. k.events \in Seq(DaemonEvents)
    BY DEF DaemonStates
<1>2. s.events = k.events \o <<>>
    BY <1>1
<1>3. QED
    BY <1>2 DEF Keeps

LEMMA LoggedKeeps ==
    ASSUME NEW k \in DaemonStates, NEW s \in DaemonStates, s.events = k.events,
           s.ticks >= k.ticks, s.hooks >= k.hooks, NEW e \in DaemonEvents
    PROVE  /\ Logged(s, e) \in DaemonStates /\ Keeps(k, Logged(s, e))
           /\ Logged(s, e).status = s.status /\ Logged(s, e).until = s.until
<1> DEFINE es == Append(s.events, e)
           cut == SubSeq(es, IF Len(es) > KeptEvents THEN 2 ELSE 1, Len(es))
           l == Logged(s, e)
<1>0. KeptEvents \in Nat \ {0}
    BY BackgroundAssumption
<1>1. s.events \in Seq(DaemonEvents)
    BY DEF DaemonStates
<1>2. es \in Seq(DaemonEvents) /\ es = k.events \o <<e>> /\ Len(es) = Len(s.events) + 1 /\ es[Len(es)] = e
    BY <1>1
<1>3. cut = IF Len(es) > KeptEvents THEN Tail(es) ELSE es
    <2>1. SubSeq(es, 1, Len(es)) = es /\ SubSeq(es, 2, Len(es)) = Tail(es)
        BY <1>2, SubSeqFull, TailIsSubSeq, es # <<>>
    <2>2. QED
        BY <2>1
<1>4. cut \in Seq(DaemonEvents) /\ Len(cut) \in DOMAIN cut /\ cut[Len(cut)] = e
    <2>1. CASE Len(es) > KeptEvents
        <3>0. Len(es) \in Nat
            BY <1>2
        <3> HIDE DEF cut
        <3>1. cut = Tail(es) /\ Len(es) >= 2
            BY <2>1, <1>0, <1>3, <3>0
        <3>2. Tail(es) \in Seq(DaemonEvents) /\ Len(Tail(es)) = Len(es) - 1
            BY <3>1, <1>2
        <3>3. Tail(es)[Len(es) - 1] = es[Len(es)]
            BY <3>1, <1>2
        <3>4. QED
            BY <3>1, <3>2, <3>3, <1>2
    <2>2. CASE ~(Len(es) > KeptEvents)
        <3>1. cut = es
            BY <2>2, <1>3
        <3>2. Len(es) \in DOMAIN es
            BY <1>2, <1>1
        <3>3. QED
            BY <3>1, <3>2, <1>2
    <2>3. QED
        BY <2>1, <2>2
<1> HIDE DEF es, cut
<1>5. l = [s EXCEPT !.events = cut]
    BY DEF Logged, es, cut
<1>6. /\ l \in DaemonStates /\ l.events = cut /\ l.status = s.status /\ l.until = s.until
      /\ l.ticks = s.ticks /\ l.hooks = s.hooks
    BY <1>4, <1>5 DEF DaemonStates
<1>7. <<e>> \in {<<x>> : x \in {l.events[i] : i \in DOMAIN l.events}}
    BY <1>4, <1>6
<1>8. l.events = k.events \o <<e>> \/ (Len(k.events \o <<e>>) > KeptEvents /\ l.events = Tail(k.events \o <<e>>))
    BY <1>2, <1>3, <1>6
<1>9. l.ticks >= k.ticks /\ l.hooks >= k.hooks
    BY <1>6
<1> HIDE DEF l
<1>10. Keeps(k, l)
    BY <1>7, <1>8, <1>9 DEF Keeps
<1>11. QED
    BY <1>6, <1>10 DEF l

\* A command that has read the file, and is about to write what keeps all it read.
LEMMA WillWriteKeeps ==
    ASSUME BackgroundInv, NEW p \in Runners, p \notin Saving, NEW s \in DaemonStates, HasAnEnd(s),
           s.status # "torn", Keeps(Loaded, s), WillWrite(p, s), UNCHANGED <<always, known>>
    PROVE  /\ wrote' \in [Runners -> DaemonStates] /\ bpc' \in [Runners -> Stages] /\ disturbed' \in BOOLEAN
           /\ SleepersEnd' /\ NeverTorn' /\ Undisturbed'
<1>1. /\ wrote \in [Runners -> DaemonStates] /\ bpc \in [Runners -> Stages] /\ disturbed \in BOOLEAN
      /\ SleepersEnd /\ NeverTorn /\ Undisturbed
    BY DEF BackgroundInv, BackgroundTypes
<1>2. /\ wrote' = [wrote EXCEPT ![p] = s] /\ bpc' = [bpc EXCEPT ![p] = "truncate"]
      /\ disturbed' = Crosses(p) /\ always' = always /\ known' = known
    BY DEF WillWrite
<1>3. wrote' \in [Runners -> DaemonStates] /\ bpc' \in [Runners -> Stages] /\ disturbed' \in BOOLEAN
    BY <1>1, <1>2 DEF Stages, Crosses
<1>4. SleepersEnd' /\ NeverTorn'
    BY <1>1, <1>2 DEF SleepersEnd, NeverTorn
<1>5. Undisturbed'
    <2> SUFFICES ASSUME ~disturbed'
                 PROVE  /\ \A q, r \in Saving' : q = r
                        /\ \A q \in Saving' : Keeps(known', wrote'[q])
                        /\ (\A q \in Runners : bpc'[q] # "write") => always' = known'
        BY DEF Undisturbed
    <2>1. ~disturbed /\ \A q \in Runners \ {p} : bpc[q] \notin {"truncate", "write"}
        BY <1>2 DEF Crosses
    <2>2. Saving = {} /\ Saving' = {p}
        BY <2>1, <1>1, <1>2 DEF Saving
    <2>3. \A q \in Runners : bpc[q] # "write"
        BY <2>2 DEF Saving
    <2>4. always = known
        BY <2>1, <2>3, <1>1 DEF Undisturbed
    <2>5. Loaded = known
        <3>1. TornState.status = "torn"
            BY DEF TornState, DefaultState
        <3>2. QED
            BY <3>1, <2>4, <1>1 DEF Loaded, NeverTorn
    <2>6. Keeps(known', wrote'[p])
        BY <2>5, <1>1, <1>2
    <2>7. QED
        BY <2>2, <2>4, <2>6, <1>2
<1>6. QED
    BY <1>3, <1>4, <1>5

\* A step of a cycle leaves the file, and what others are about to write, as they were.
LEMMA WorkKeeps ==
    ASSUME BackgroundInv, NEW p \in Runners, p \notin Saving, NEW stage \in Stages \ {"truncate", "write"},
           bpc' = [bpc EXCEPT ![p] = stage], UNCHANGED <<always, wrote, known, disturbed>>
    PROVE  bpc' \in [Runners -> Stages] /\ SleepersEnd' /\ NeverTorn' /\ Undisturbed'
<1>1. bpc \in [Runners -> Stages] /\ SleepersEnd /\ NeverTorn /\ Undisturbed
    BY DEF BackgroundInv, BackgroundTypes
<1>2. bpc' \in [Runners -> Stages] /\ Saving' = Saving
    BY <1>1 DEF Saving
<1>3. SleepersEnd' /\ NeverTorn'
    BY <1>1 DEF SleepersEnd, NeverTorn
<1>4. (\A q \in Runners : bpc'[q] # "write") => \A q \in Runners : bpc[q] # "write"
    BY <1>1 DEF Saving
<1>5. Undisturbed'
    BY <1>1, <1>2, <1>4 DEF Undisturbed
<1>6. QED
    BY <1>2, <1>3, <1>5

\* What a worker reports.
LEMMA WorkerTyped ==
    ASSUME BackgroundInv, NEW p \in Runners, NEW worker \in {"dream", "research"}, NEW result \in Results,
           NEW next \in Stages, WorkerResult(p, worker, result, next)
    PROVE  /\ cycle' \in [Runners -> Cycles] /\ \A q \in Runners : cycle'[q].dry = cycle[q].dry
           /\ bpc' = [bpc EXCEPT ![p] = next] /\ clock' = clock /\ calls' = calls
           /\ UNCHANGED <<always, wrote, known, disturbed>>
<1>1. cycle \in [Runners -> Cycles]
    BY DEF BackgroundInv, BackgroundTypes
<1>2. cycle' = [cycle EXCEPT ![p][worker] = result]
    BY DEF WorkerResult
<1>3. CASE worker = "dream"
    <2>1. cycle' = [cycle EXCEPT ![p] = [cycle[p] EXCEPT !["dream"] = result]]
        BY <1>2, <1>3
    <2>2. [cycle[p] EXCEPT !["dream"] = result] \in Cycles
          /\ [cycle[p] EXCEPT !["dream"] = result].dry = cycle[p].dry
        BY <1>1 DEF Cycles
    <2>3. QED
        BY <1>1, <2>1, <2>2 DEF WorkerResult
<1>4. CASE worker = "research"
    <2>1. cycle' = [cycle EXCEPT ![p] = [cycle[p] EXCEPT !["research"] = result]]
        BY <1>2, <1>4
    <2>2. [cycle[p] EXCEPT !["research"] = result] \in Cycles
          /\ [cycle[p] EXCEPT !["research"] = result].dry = cycle[p].dry
        BY <1>1 DEF Cycles
    <2>3. QED
        BY <1>1, <2>1, <2>2 DEF WorkerResult
<1>5. QED
    BY <1>3, <1>4

\* The commands that change the file: ticks, webhooks, sleeps, wakes and the record
\* of a cycle.
LEMMA CallsKeep ==
    ASSUME BackgroundInv, NEW p \in Runners, NEW s \in DaemonStates, HasAnEnd(s), s.status # "torn",
           Keeps(Loaded, s), Calls(p, s)
    PROVE  BackgroundInv'
<1>1. BackgroundTypes /\ DryRunsRunNothing /\ ResearchKeepsHours
    BY DEF BackgroundInv
<1>2. p \notin Saving /\ UNCHANGED <<always, known>> /\ WillWrite(p, s)
    BY DEF Calls, Saving
<1>3. /\ wrote' \in [Runners -> DaemonStates] /\ bpc' \in [Runners -> Stages] /\ disturbed' \in BOOLEAN
      /\ SleepersEnd' /\ NeverTorn' /\ Undisturbed'
    BY <1>2, WillWriteKeeps
<1>4. BackgroundTypes'
    BY <1>1, <1>3 DEF Calls, BackgroundTypes
<1>5. DryRunsRunNothing'
    BY <1>1, <1>2 DEF Calls, WillWrite, DryRunsRunNothing, BackgroundTypes
<1>6. ResearchKeepsHours'
    BY <1>1 DEF Calls, ResearchKeepsHours
<1>7. QED
    BY <1>3, <1>4, <1>5, <1>6 DEF BackgroundInv

\* A state that is awake, or sleeps until an hour, and the fields it is made of.
LEMMA AwakeTyped ==
    ASSUME NEW s \in DaemonStates
    PROVE  /\ Awake(s) \in DaemonStates /\ HasAnEnd(Awake(s)) /\ Awake(s).status = "awake" /\ Awake(s).until = 0
           /\ Awake(s).events = s.events /\ Awake(s).ticks = s.ticks /\ Awake(s).hooks = s.hooks
BY DEF DaemonStates, Awake, HasAnEnd

LEMMA CountedKeeps ==
    ASSUME BackgroundInv, NEW s \in DaemonStates, s.events = Loaded.events,
           s.ticks >= Loaded.ticks, s.hooks >= Loaded.hooks, NEW e \in DaemonEvents
    PROVE  LET l == Logged(Awake(s), e)
           IN  l \in DaemonStates /\ HasAnEnd(l) /\ l.status # "torn" /\ Keeps(Loaded, l)
<1> DEFINE a == Awake(s)
<1>1. /\ a \in DaemonStates /\ HasAnEnd(a) /\ a.status = "awake" /\ a.until = 0
      /\ a.events = Loaded.events /\ a.ticks >= Loaded.ticks /\ a.hooks >= Loaded.hooks
    BY AwakeTyped
<1>2. Loaded \in DaemonStates
    BY LoadedTyped
<1> HIDE DEF a
<1>3. /\ Logged(a, e) \in DaemonStates /\ Keeps(Loaded, Logged(a, e))
      /\ Logged(a, e).status = a.status /\ Logged(a, e).until = a.until
    BY <1>1, <1>2, LoggedKeeps
<1>4. QED
    BY <1>1, <1>3 DEF HasAnEnd, a

LEMMA CallsOfAll ==
    ASSUME BackgroundInv, NEW p \in Runners, NEW h \in 0..1,
           BackgroundTick(p) \/ Webhook(p) \/ Sleep(p, h)
    PROVE  BackgroundInv'
<1>1. Loaded \in DaemonStates
    BY LoadedTyped
<1>2. clock \in Nat \ {0}
    BY DEF BackgroundInv, BackgroundTypes
<1>3. CASE BackgroundTick(p)
    <2> DEFINE s == [Loaded EXCEPT !.ticks = @ + 1]
               e == Event("tick", "")
    <2>1. s \in DaemonStates /\ s.events = Loaded.events /\ s.ticks >= Loaded.ticks /\ s.hooks >= Loaded.hooks
        BY <1>1 DEF DaemonStates
    <2>2. e \in DaemonEvents
        BY DEF Event, DaemonEvents
    <2>3. Calls(p, Logged(Awake(s), e))
        BY <1>3 DEF BackgroundTick
    <2> HIDE DEF s, e
    <2>4. QED
        BY <2>1, <2>2, <2>3, CountedKeeps, CallsKeep
<1>4. CASE Webhook(p)
    <2> DEFINE s == [Loaded EXCEPT !.hooks = @ + 1]
               e == Event("webhook", "")
    <2>1. s \in DaemonStates /\ s.events = Loaded.events /\ s.ticks >= Loaded.ticks /\ s.hooks >= Loaded.hooks
        BY <1>1 DEF DaemonStates
    <2>2. e \in DaemonEvents
        BY DEF Event, DaemonEvents
    <2>3. Calls(p, Logged(Awake(s), e))
        BY <1>4 DEF Webhook
    <2> HIDE DEF s, e
    <2>4. QED
        BY <2>1, <2>2, <2>3, CountedKeeps, CallsKeep
<1>5. CASE Sleep(p, h)
    <2> DEFINE s == [Loaded EXCEPT !.status = "sleeping", !.until = clock + h]
               e == Event("sleep", "")
               l == Logged(s, e)
    <2>0. clock + h \in Nat /\ clock + h # 0
        BY <1>2
    <2>1. /\ s \in DaemonStates /\ s.events = Loaded.events /\ s.ticks >= Loaded.ticks /\ s.hooks >= Loaded.hooks
          /\ s.status = "sleeping" /\ s.until # 0
        <3> DEFINE u == clock + h
        <3>1. u \in Nat /\ u # 0 /\ s = [Loaded EXCEPT !.status = "sleeping", !.until = u]
            BY <2>0
        <3> HIDE DEF u, s
        <3>2. /\ s \in DaemonStates /\ s.events = Loaded.events /\ s.status = "sleeping" /\ s.until = u
              /\ s.ticks = Loaded.ticks /\ s.hooks = Loaded.hooks
            BY <1>1, <3>1 DEF DaemonStates
        <3>3. Loaded.ticks >= Loaded.ticks /\ Loaded.hooks >= Loaded.hooks
            BY <1>1 DEF DaemonStates
        <3>4. QED
            BY <3>1, <3>2, <3>3
    <2>2. e \in DaemonEvents
        BY DEF Event, DaemonEvents
    <2>3. Calls(p, l)
        BY <1>5 DEF Sleep
    <2> HIDE DEF s, e
    <2>4. l \in DaemonStates /\ Keeps(Loaded, l) /\ l.status = s.status /\ l.until = s.until
        BY <2>1, <2>2, <1>1, LoggedKeeps
    <2> HIDE DEF l
    <2>5. HasAnEnd(l) /\ l.status # "torn"
        BY <2>1, <2>4 DEF HasAnEnd
    <2>6. QED
        BY <2>3, <2>4, <2>5, CallsKeep
<1>6. QED
    BY <1>3, <1>4, <1>5

\* A command that wakes the daemon, and the record of a cycle.
LEMMA WakeAndRecord ==
    ASSUME BackgroundInv, NEW p \in Runners, Wake(p) \/ Record(p)
    PROVE  BackgroundInv'
<1>1. BackgroundTypes /\ DryRunsRunNothing /\ ResearchKeepsHours
    BY DEF BackgroundInv
<1>2. Loaded \in DaemonStates
    BY LoadedTyped
<1>3. Loaded.ticks >= Loaded.ticks /\ Loaded.hooks >= Loaded.hooks
    BY <1>2 DEF DaemonStates
<1>4. CASE Wake(p)
    <2> DEFINE s == Awake(Loaded)
    <2>1. /\ s \in DaemonStates /\ HasAnEnd(s) /\ s.status # "torn"
          /\ s.events = Loaded.events /\ s.ticks >= Loaded.ticks /\ s.hooks >= Loaded.hooks
        BY <1>2, <1>3, AwakeTyped
    <2>2. p \notin Saving /\ WillWrite(p, s) /\ UNCHANGED <<always, known>>
        BY <1>4 DEF Wake, Saving
    <2> HIDE DEF s
    <2>3. Keeps(Loaded, s)
        BY <1>2, <2>1, NothingLogged
    <2>4. /\ wrote' \in [Runners -> DaemonStates] /\ bpc' \in [Runners -> Stages] /\ disturbed' \in BOOLEAN
          /\ SleepersEnd' /\ NeverTorn' /\ Undisturbed'
        BY <2>1, <2>2, <2>3, WillWriteKeeps
    <2>5. BackgroundTypes'
        BY <1>1, <1>4, <2>4 DEF Wake, BackgroundTypes
    <2>6. DryRunsRunNothing' /\ ResearchKeepsHours'
        BY <1>1, <1>4, <2>2 DEF Wake, WillWrite, DryRunsRunNothing, ResearchKeepsHours, BackgroundTypes
    <2>7. QED
        BY <2>4, <2>5, <2>6 DEF BackgroundInv
<1>5. CASE Record(p)
    <2> DEFINE e == Event("worker_cycle", Overall(cycle[p].dream, cycle[p].research))
               s == Logged(Awake(Loaded), e)
    <2>1. e \in DaemonEvents
        BY <1>1, OverallTyped DEF BackgroundTypes, Cycles
    <2>2. p \notin Saving /\ WillWrite(p, s) /\ UNCHANGED <<always, known>>
        BY <1>5 DEF Record, Saving
    <2> HIDE DEF e
    <2>3. s \in DaemonStates /\ HasAnEnd(s) /\ s.status # "torn" /\ Keeps(Loaded, s)
        BY <1>2, <1>3, <2>1, CountedKeeps
    <2> HIDE DEF s
    <2>4. /\ wrote' \in [Runners -> DaemonStates] /\ bpc' \in [Runners -> Stages] /\ disturbed' \in BOOLEAN
          /\ SleepersEnd' /\ NeverTorn' /\ Undisturbed'
        BY <2>2, <2>3, WillWriteKeeps
    <2>5. cycle' = [cycle EXCEPT ![p] = NoCycle] /\ NoCycle \in Cycles
        BY <1>5 DEF Record, NoCycle, Cycles, Results
    <2>6. BackgroundTypes'
        BY <1>1, <1>5, <2>4, <2>5 DEF Record, BackgroundTypes
    <2>7. DryRunsRunNothing' /\ ResearchKeepsHours'
        BY <1>1, <1>5, <2>2, <2>5 DEF Record, WillWrite, DryRunsRunNothing, ResearchKeepsHours, BackgroundTypes
    <2>8. QED
        BY <2>4, <2>6, <2>7 DEF BackgroundInv
<1>6. QED
    BY <1>4, <1>5

\* A worker of a cycle reports, or starts what is pending; only what is no dry run does.
LEMMA WorkersKeep ==
    ASSUME BackgroundInv, NEW p \in Runners, p \notin Saving, NEW worker \in {"dream", "research"},
           NEW result \in Results, NEW next \in Stages \ {"truncate", "write"},
           next \in {"dreaming", "researching"} => ~cycle[p].dry,
           WorkerResult(p, worker, result, next),
           dreamJob' \in {"none", "pending", "running"}, researchJob' \in {"none", "pending", "running"},
           ~astray'
    PROVE  BackgroundInv'
<1>1. BackgroundTypes /\ DryRunsRunNothing
    BY DEF BackgroundInv
<1>2. /\ cycle' \in [Runners -> Cycles] /\ \A q \in Runners : cycle'[q].dry = cycle[q].dry
      /\ bpc' = [bpc EXCEPT ![p] = next] /\ clock' = clock /\ calls' = calls
      /\ UNCHANGED <<always, wrote, known, disturbed>>
    BY WorkerTyped
<1>3. bpc' \in [Runners -> Stages] /\ SleepersEnd' /\ NeverTorn' /\ Undisturbed'
    BY <1>2, WorkKeeps
<1>4. BackgroundTypes'
    BY <1>1, <1>2, <1>3 DEF BackgroundTypes
<1>5. DryRunsRunNothing'
    BY <1>1, <1>2 DEF DryRunsRunNothing, BackgroundTypes
<1>6. QED
    BY <1>3, <1>4, <1>5 DEF BackgroundInv, ResearchKeepsHours

LEMMA CycleKeeps ==
    ASSUME BackgroundInv, NEW p \in Runners, NEW ok \in BOOLEAN,
           CycleDream(p) \/ DreamEnds(p, ok) \/ CycleResearch(p) \/ ResearchEnds(p, ok)
    PROVE  BackgroundInv'
<1>1. /\ dreamJob \in {"none", "pending", "running"} /\ researchJob \in {"none", "pending", "running"}
      /\ ~astray /\ cycle \in [Runners -> Cycles]
    BY DEF BackgroundInv, BackgroundTypes, ResearchKeepsHours
<1>2. \A r \in {"no_pending_job", "dry_run", "deferred", "completed", "failed"} : r \in Results
    BY DEF Results
<1>3. \A s \in {"dream", "dreaming", "research", "researching", "record"} : s \in Stages \ {"truncate", "write"}
    BY DEF Stages
<1>4. CASE CycleDream(p)
    <2>1. p \notin Saving /\ researchJob' = researchJob /\ astray' = astray
        BY <1>4 DEF CycleDream, Saving
    <2>2. \/ WorkerResult(p, "dream", "no_pending_job", "research") /\ dreamJob' = dreamJob
          \/ WorkerResult(p, "dream", "dry_run", "research") /\ dreamJob' = dreamJob
          \/ ~cycle[p].dry /\ WorkerResult(p, "dream", "no_pending_job", "dreaming") /\ dreamJob' = "running"
        BY <1>4 DEF CycleDream
    <2>3. QED
        BY <1>1, <1>2, <1>3, <2>1, <2>2, WorkersKeep
<1>5. CASE DreamEnds(p, ok)
    <2>1. /\ p \notin Saving /\ researchJob' = researchJob /\ astray' = astray /\ dreamJob' = "none"
          /\ \/ WorkerResult(p, "dream", "completed", "research")
             \/ WorkerResult(p, "dream", "failed", "research")
        BY <1>5 DEF DreamEnds, Saving
    <2>2. QED
        BY <1>1, <1>2, <1>3, <2>1, WorkersKeep
<1>6. CASE CycleResearch(p)
    <2>1. p \notin Saving /\ dreamJob' = dreamJob
        BY <1>6 DEF CycleResearch, Saving
    <2>2. \/ /\ \E r \in {"no_pending_job", "dry_run", "deferred"} : WorkerResult(p, "research", r, "record")
             /\ researchJob' = researchJob /\ astray' = astray
          \/ /\ ~cycle[p].dry /\ MayResearch(cycle[p])
             /\ WorkerResult(p, "research", "no_pending_job", "researching") /\ researchJob' = "running"
             /\ astray' = (astray \/ (clock \notin SafeHours /\ ~cycle[p].outside
                                      /\ cycle[p].dream \notin {"completed", "failed"}
                                      /\ clock = cycle[p].hour))
        <3>1. CASE researchJob # "pending" \/ cycle[p].dry \/ ~MayResearch(cycle[p])
            BY <1>6, <3>1 DEF CycleResearch
        <3>2. CASE ~(researchJob # "pending" \/ cycle[p].dry \/ ~MayResearch(cycle[p]))
            BY <1>6, <3>2 DEF CycleResearch
        <3>3. QED
            BY <3>1, <3>2
    <2>3. ~astray'
        BY <1>1, <2>2 DEF MayResearch
    <2>4. QED
        BY <1>1, <1>2, <1>3, <2>1, <2>2, <2>3, WorkersKeep
<1>7. CASE ResearchEnds(p, ok)
    <2>1. /\ p \notin Saving /\ dreamJob' = dreamJob /\ astray' = astray /\ researchJob' = "none"
          /\ \/ WorkerResult(p, "research", "completed", "record")
             \/ WorkerResult(p, "research", "failed", "record")
        BY <1>7 DEF ResearchEnds, Saving
    <2>2. QED
        BY <1>1, <1>2, <1>3, <2>1, WorkersKeep
<1>8. QED
    BY <1>4, <1>5, <1>6, <1>7

\* A cycle begins, or an error ends it.
LEMMA CycleEdges ==
    ASSUME BackgroundInv, NEW p \in Runners, NEW dry \in BOOLEAN, NEW outside \in BOOLEAN,
           StartCycle(p, dry, outside) \/ CycleErrs(p)
    PROVE  BackgroundInv'
<1>1. BackgroundTypes /\ DryRunsRunNothing /\ ResearchKeepsHours
    BY DEF BackgroundInv
<1>2. NoCycle \in Cycles
    BY DEF NoCycle, Cycles, Results
<1>3. \E c \in Cycles, stage \in {"idle", "dream"} :
          cycle' = [cycle EXCEPT ![p] = c] /\ bpc' = [bpc EXCEPT ![p] = stage]
    <2>1. CASE StartCycle(p, dry, outside)
        <3> DEFINE c == [NoCycle EXCEPT !.hour = clock, !.dry = dry, !.outside = outside]
        <3>1. c \in Cycles
            BY <1>1, <1>2 DEF Cycles, BackgroundTypes
        <3>2. QED
            BY <2>1, <3>1 DEF StartCycle
    <2>2. CASE CycleErrs(p)
        BY <1>2, <2>2 DEF CycleErrs
    <2>3. QED
        BY <2>1, <2>2
<1>4. PICK c \in Cycles, stage \in {"idle", "dream"} :
          cycle' = [cycle EXCEPT ![p] = c] /\ bpc' = [bpc EXCEPT ![p] = stage]
    BY <1>3
<1>5. /\ p \notin Saving /\ stage \in Stages \ {"truncate", "write"}
      /\ UNCHANGED <<clock, always, dreamJob, researchJob, wrote, calls, known, disturbed, astray>>
    BY DEF StartCycle, CycleErrs, Saving, Stages
<1>6. bpc' \in [Runners -> Stages] /\ SleepersEnd' /\ NeverTorn' /\ Undisturbed'
    BY <1>4, <1>5, WorkKeeps
<1>7. BackgroundTypes'
    BY <1>1, <1>4, <1>5, <1>6 DEF BackgroundTypes
<1>8. DryRunsRunNothing' /\ ResearchKeepsHours'
    BY <1>1, <1>4, <1>5 DEF DryRunsRunNothing, ResearchKeepsHours, BackgroundTypes
<1>9. QED
    BY <1>6, <1>7, <1>8 DEF BackgroundInv

\* The file is emptied, then filled; commands die; jobs are scheduled; time passes.
LEMMA FileKeeps ==
    ASSUME BackgroundInv, NEW p \in Runners, Empties(p) \/ Fills(p) \/ RunnerDies(p)
    PROVE  BackgroundInv'
<1>1. BackgroundTypes /\ SleepersEnd /\ NeverTorn /\ DryRunsRunNothing /\ ResearchKeepsHours /\ Undisturbed
    BY DEF BackgroundInv
<1>2. /\ bpc \in [Runners -> Stages] /\ wrote \in [Runners -> DaemonStates] /\ cycle \in [Runners -> Cycles]
      /\ always \in DaemonStates /\ known \in DaemonStates
    BY <1>1 DEF BackgroundTypes
<1>3. TornState \in DaemonStates /\ HasAnEnd(TornState)
    <2>1. TornState = [status |-> "torn", ticks |-> 0, hooks |-> 0, until |-> 0, events |-> <<>>]
        BY DEF TornState, DefaultState
    <2>2. QED
        BY <2>1 DEF DaemonStates, HasAnEnd
<1>4. DefaultState \in DaemonStates /\ HasAnEnd(DefaultState) /\ DefaultState.status # "torn"
    BY DEF DefaultState, DaemonStates, HasAnEnd
<1>5. NoCycle \in Cycles
    BY DEF NoCycle, Cycles, Results
<1>6. CASE Empties(p)
    <2>1. /\ bpc[p] = "truncate" /\ bpc' = [bpc EXCEPT ![p] = "write"] /\ always' = TornState
          /\ UNCHANGED <<clock, dreamJob, researchJob, cycle, wrote, calls, known, disturbed, astray>>
        BY <1>6 DEF Empties
    <2>2. BackgroundTypes'
        BY <1>1, <1>3, <2>1 DEF BackgroundTypes, Stages
    <2>3. SleepersEnd' /\ NeverTorn' /\ DryRunsRunNothing' /\ ResearchKeepsHours'
        BY <1>1, <1>2, <1>3, <2>1 DEF SleepersEnd, NeverTorn, DryRunsRunNothing, ResearchKeepsHours
    <2>4. Saving' = Saving /\ bpc'[p] = "write"
        BY <1>2, <2>1 DEF Saving
    <2>5. Undisturbed'
        BY <1>1, <2>1, <2>4 DEF Undisturbed
    <2>6. QED
        BY <2>2, <2>3, <2>5 DEF BackgroundInv
<1>7. CASE Fills(p)
    <2>1. /\ bpc[p] = "write" /\ bpc' = [bpc EXCEPT ![p] = "idle"] /\ always' = wrote[p] /\ known' = wrote[p]
          /\ wrote' = [wrote EXCEPT ![p] = DefaultState] /\ cycle' = [cycle EXCEPT ![p] = NoCycle]
          /\ UNCHANGED <<clock, dreamJob, researchJob, calls, disturbed, astray>>
        BY <1>7 DEF Fills, Rests
    <2>2. BackgroundTypes'
        BY <1>1, <1>2, <1>4, <1>5, <2>1 DEF BackgroundTypes, Stages
    <2>3. SleepersEnd' /\ NeverTorn'
        BY <1>1, <1>2, <1>4, <2>1 DEF SleepersEnd, NeverTorn
    <2>4. DryRunsRunNothing' /\ ResearchKeepsHours'
        BY <1>1, <1>2, <2>1 DEF DryRunsRunNothing, ResearchKeepsHours
    <2>5. Undisturbed'
        <3> SUFFICES ASSUME ~disturbed'
                     PROVE  Saving' = {} /\ always' = known'
            BY DEF Undisturbed
        <3>1. \A q \in Saving : q = p
            BY <1>1, <2>1 DEF Undisturbed, Saving
        <3>2. Saving' = {}
            BY <1>2, <2>1, <3>1 DEF Saving
        <3>3. QED
            BY <2>1, <3>2
    <2>6. QED
        BY <2>2, <2>3, <2>4, <2>5 DEF BackgroundInv
<1>8. CASE RunnerDies(p)
    <2>1. /\ bpc' = [bpc EXCEPT ![p] = "idle"] /\ disturbed' = (disturbed \/ bpc[p] = "write")
          /\ wrote' = [wrote EXCEPT ![p] = DefaultState] /\ cycle' = [cycle EXCEPT ![p] = NoCycle]
          /\ UNCHANGED <<clock, always, dreamJob, researchJob, calls, known, astray>>
        BY <1>8 DEF RunnerDies, Rests
    <2>2. BackgroundTypes'
        BY <1>1, <1>2, <1>4, <1>5, <2>1 DEF BackgroundTypes, Stages
    <2>3. SleepersEnd' /\ NeverTorn'
        BY <1>1, <1>2, <1>4, <2>1 DEF SleepersEnd, NeverTorn
    <2>4. DryRunsRunNothing' /\ ResearchKeepsHours'
        BY <1>1, <1>2, <2>1 DEF DryRunsRunNothing, ResearchKeepsHours
    <2>5. Undisturbed'
        <3> SUFFICES ASSUME ~disturbed'
                     PROVE  /\ \A q, r \in Saving' : q = r
                            /\ \A q \in Saving' : Keeps(known', wrote'[q])
                            /\ (\A q \in Runners : bpc'[q] # "write") => always' = known'
            BY DEF Undisturbed
        <3>1. ~disturbed /\ bpc[p] # "write"
            BY <2>1
        <3>2. Saving' = Saving \ {p}
            BY <1>2, <2>1 DEF Saving
        <3>3. \A q \in Saving' : wrote'[q] = wrote[q]
            BY <1>2, <2>1, <3>2 DEF Saving
        <3>4. (\A q \in Runners : bpc'[q] # "write") => \A q \in Runners : bpc[q] # "write"
            BY <1>2, <2>1, <3>1
        <3>5. QED
            BY <1>1, <2>1, <3>1, <3>2, <3>3, <3>4 DEF Undisturbed
    <2>6. QED
        BY <2>2, <2>3, <2>4, <2>5 DEF BackgroundInv
<1>9. QED
    BY <1>6, <1>7, <1>8

LEMMA OthersKeep ==
    ASSUME BackgroundInv, Scheduled \/ ClockStrikes \/ UNCHANGED backgroundVars
    PROVE  BackgroundInv'
<1>1. /\ UNCHANGED <<always, bpc, cycle, wrote, calls, known, disturbed, astray>>
      /\ clock' \in {clock, clock + 1} /\ dreamJob' \in {dreamJob, "pending"}
      /\ researchJob' \in {researchJob, "pending"}
    BY DEF Scheduled, ClockStrikes, backgroundVars
<1>2. BackgroundTypes'
    BY <1>1 DEF BackgroundInv, BackgroundTypes
<1>3. SleepersEnd' /\ NeverTorn' /\ DryRunsRunNothing' /\ ResearchKeepsHours'
    BY <1>1 DEF BackgroundInv, SleepersEnd, NeverTorn, DryRunsRunNothing, ResearchKeepsHours
<1>4. Saving' = Saving
    BY <1>1 DEF Saving
<1>5. Undisturbed'
    BY <1>1, <1>4 DEF BackgroundInv, Undisturbed
<1>6. QED
    BY <1>2, <1>3, <1>5 DEF BackgroundInv

\* The daemon begins idle, with nothing to save.
LEMMA BackgroundBegins == ASSUME BackgroundInit PROVE BackgroundInv
<1>1. DefaultState \in DaemonStates /\ HasAnEnd(DefaultState) /\ DefaultState.status # "torn"
    BY DEF DefaultState, DaemonStates, HasAnEnd
<1>2. NoCycle \in Cycles
    BY DEF NoCycle, Cycles, Results
<1>3. BackgroundTypes
    <2>1. /\ always \in DaemonStates /\ known \in DaemonStates /\ wrote \in [Runners -> DaemonStates]
          /\ cycle \in [Runners -> Cycles]
        BY <1>1, <1>2 DEF BackgroundInit
    <2>2. bpc \in [Runners -> Stages] /\ disturbed \in BOOLEAN
        BY Zenon DEF BackgroundInit, Stages
    <2>3. /\ clock \in Nat \ {0} /\ calls \in Nat
          /\ dreamJob \in {"none", "pending", "running"} /\ researchJob \in {"none", "pending", "running"}
        BY DEF BackgroundInit
    <2>4. QED
        BY <2>1, <2>2, <2>3 DEF BackgroundTypes
<1>4. SleepersEnd /\ NeverTorn /\ DryRunsRunNothing /\ ResearchKeepsHours
    BY <1>1 DEF BackgroundInit, SleepersEnd, NeverTorn, DryRunsRunNothing, ResearchKeepsHours
<1>5. Saving = {} /\ always = known
    BY DEF BackgroundInit, Saving
<1>6. Undisturbed
    BY <1>5 DEF Undisturbed
<1>7. QED
    BY <1>3, <1>4, <1>6 DEF BackgroundInv

LEMMA BackgroundInductive ==
    ASSUME BackgroundInv, [BackgroundNext]_backgroundVars
    PROVE  BackgroundInv'
<1>1. ASSUME NEW p \in Runners, BackgroundTick(p) \/ Webhook(p) \/ Wake(p) \/ \E h \in 0..1 : Sleep(p, h)
      PROVE  BackgroundInv'
    <2>1. 0 \in 0..1
        OBVIOUS
    <2>2. QED
        BY <1>1, <2>1, CallsOfAll, WakeAndRecord
<1>2. ASSUME NEW p \in Runners, \E dry, outside \in BOOLEAN : StartCycle(p, dry, outside)
      PROVE  BackgroundInv'
    BY <1>2, CycleEdges
<1>3. ASSUME NEW p \in Runners,
             CycleDream(p) \/ CycleResearch(p) \/ \E ok \in BOOLEAN : DreamEnds(p, ok) \/ ResearchEnds(p, ok)
      PROVE  BackgroundInv'
    <2>1. TRUE \in BOOLEAN
        OBVIOUS
    <2>2. QED
        BY <1>3, <2>1, CycleKeeps
<1>4. ASSUME NEW p \in Runners, CycleErrs(p) PROVE BackgroundInv'
    <2>1. TRUE \in BOOLEAN
        OBVIOUS
    <2>2. QED
        BY <1>4, <2>1, CycleEdges
<1>5. ASSUME NEW p \in Runners, Record(p) PROVE BackgroundInv'
    BY <1>5, WakeAndRecord
<1>6. ASSUME NEW p \in Runners, Empties(p) \/ Fills(p) \/ RunnerDies(p) PROVE BackgroundInv'
    BY <1>6, FileKeeps
<1>7. ASSUME Scheduled \/ ClockStrikes \/ UNCHANGED backgroundVars PROVE BackgroundInv'
    BY <1>7, OthersKeep
<1>8. QED
    BY <1>1, <1>2, <1>3, <1>4, <1>5, <1>6, <1>7 DEF BackgroundNext

\* What a command that crossed none saves keeps what was there: only Fills publishes.
LEMMA FillsBuild ==
    ASSUME BackgroundInv, [BackgroundNext]_backgroundVars
    PROVE  BuildsOnWhatWasThere
<1>1. CASE \E p \in Runners : Fills(p)
    <2>1. PICK p \in Runners : Fills(p)
        BY <1>1
    <2>2. known' = wrote[p] /\ p \in Saving /\ disturbed' = disturbed
        BY <2>1 DEF Fills, Saving
    <2>3. ~disturbed => Keeps(known, known')
        BY <2>2 DEF BackgroundInv, Undisturbed
    <2>4. QED
        BY <2>2, <2>3 DEF Keeps, BuildsOnWhatWasThere
<1>2. CASE ~\E p \in Runners : Fills(p)
    <2>1. known' = known
        BY <1>2 DEF BackgroundNext, BackgroundTick, Webhook, Wake, Sleep, Calls, StartCycle, CycleDream,
                    CycleResearch, CycleErrs, Record, DreamEnds, ResearchEnds, Empties, RunnerDies, Scheduled,
                    ClockStrikes, WorkerResult, backgroundVars
    <2>2. QED
        BY <2>1 DEF BuildsOnWhatWasThere
<1>3. QED
    BY <1>1, <1>2

\* Whatever commands cross and wherever one dies: a sleeping daemon has an hour to wake
\* at, a dry run starts nothing, research keeps its hours, and commands that do not cross
\* lose no tick, no webhook and no recent event of always-on.json.
THEOREM TheDaemonIsHonest == BackgroundSpec => BackgroundIsHonest
<1>1. ASSUME BackgroundInv
      PROVE  BackgroundTypeOK /\ SleepHasAnEnd /\ DryRunsRunNothing /\ ResearchKeepsHours
    <2>1. BackgroundTypeOK
        BY <1>1 DEF BackgroundInv, BackgroundTypes, BackgroundTypeOK, DaemonStates, Stages, Cycles
    <2>2. SleepHasAnEnd
        BY <1>1 DEF BackgroundInv, SleepersEnd, HasAnEnd, SleepHasAnEnd
    <2>3. QED
        BY <1>1, <2>1, <2>2 DEF BackgroundInv
<1>2. BackgroundInv /\ [BackgroundNext]_backgroundVars
          => /\ BackgroundTypeOK' /\ SleepHasAnEnd' /\ DryRunsRunNothing' /\ ResearchKeepsHours'
             /\ BuildsOnWhatWasThere
    BY <1>1, BackgroundInductive, FillsBuild, PTL
<1>3. QED
    BY <1>2, BackgroundBegins, BackgroundInductive, PTL DEF BackgroundSpec, BackgroundIsHonest

----------------------------------------------------------------------------
\* Forwarding. What daemons have open, and what they answer.

\* What a search asks for and what a daemon answers.
Asks == [explicit : BOOLEAN, project : Projects, from : Nat, file : 0..2]
Replies == [status : {"none", "ok", "error"}, project : Nat, file : Nat, version : Nat]
ForwardTypes ==
    /\ socket \in {"nothing", "file"} \cup Servers
    /\ spc \in [Servers -> {"down", "bind", "free", "busy"}]
    /\ fpc \in [Searchers -> {"new", "connect", "waiting", "local", "done", "failed"}]
    /\ opened \in [Servers -> Files] /\ backlog \in [Servers -> Seq(Searchers)]
    /\ asked \in [Searchers -> Asks] /\ reply \in [Searchers -> Replies] /\ printed \in [Searchers -> Replies]
    /\ database \in [file : Files, version : Nat] /\ seen \in [Files -> Nat]

\* A daemon has no later file than the database, whose version is what was committed.
FilesFollow ==
    /\ seen[database.file] = database.version
    /\ \A d \in Servers : opened[d] <= database.file
    /\ \A d \in Servers : spc[d] = "busy" => backlog[d] # <<>>

\* What was committed when a search began is in every file since.
CommittedStays ==
    \A c \in Searchers :
        /\ asked[c].file <= database.file
        /\ \A f \in Files : asked[c].file <= f /\ f <= database.file => asked[c].from <= seen[f]

\* An answer is of the project asked for, and of its own file holds what was committed.
Good(q, a) ==
    /\ a.project = q.project
    /\ q.project = 1 /\ a.file >= q.file => a.version >= q.from
AnswersAreGood ==
    \A c \in Searchers :
        /\ fpc[c] \in {"new", "connect"} => reply[c].status = "none"
        /\ reply[c].status = "ok" => Good(asked[c], reply[c])
        /\ printed[c] # NoReply <=> fpc[c] = "done"
        /\ fpc[c] = "done" => Good(asked[c], printed[c])
        /\ fpc[c] = "failed" => asked[c].explicit
        /\ fpc[c] = "new" => asked[c] = NotAsked

ForwardInv == ForwardTypes /\ FilesFollow /\ CommittedStays /\ AnswersAreGood

LEMMA AnswerTyped ==
    ASSUME NEW q \in Projects, NEW f \in Files, NEW v \in Nat
    PROVE  /\ Found(q, f, v) \in Replies /\ Found(q, f, v) # NoReply /\ Found(q, f, v).status = "ok"
           /\ Found(q, f, v).project = q
           /\ q = 1 => Found(q, f, v).file = f /\ Found(q, f, v).version = v
           /\ Answer("error", 0, 0, 0) \in Replies /\ Answer("error", 0, 0, 0).status = "error"
           /\ NoReply \in Replies /\ NoReply.status = "none"
<1>1. /\ Answer("error", 0, 0, 0) \in Replies /\ Answer("error", 0, 0, 0).status = "error"
      /\ NoReply \in Replies /\ NoReply.status = "none"
    BY DEF Answer, NoReply, Replies
<1>2. CASE q = 1
    <2>1. Found(q, f, v) = [status |-> "ok", project |-> 1, file |-> f, version |-> v] /\ f \in Nat
        BY <1>2 DEF Found, Answer, Files
    <2>2. QED
        BY <1>1, <1>2, <2>1 DEF Replies
<1>3. CASE q # 1
    <2>1. Found(q, f, v) = [status |-> "ok", project |-> 2, file |-> 0, version |-> 0] /\ q = 2
        BY <1>3 DEF Found, Answer, Projects
    <2>2. QED
        BY <1>1, <1>3, <2>1 DEF Replies
<1>4. QED
    BY <1>2, <1>3

\* An answer from a file that the database had or has holds what was committed.
LEMMA FoundIsGood ==
    ASSUME ForwardInv, NEW c \in Searchers, NEW f \in Files, f <= database.file
    PROVE  Good(asked[c], Found(asked[c].project, f, seen[f]))
<1>1. /\ asked[c].project \in Projects /\ seen[f] \in Nat
      /\ asked[c].file <= f => asked[c].from <= seen[f]
    BY DEF ForwardInv, ForwardTypes, CommittedStays, Asks
<1>2. asked[c].file \in Nat /\ asked[c].from \in Nat
    <2>1. asked[c] \in Asks
        BY DEF ForwardInv, ForwardTypes
    <2>2. asked[c].file \in 0..2 /\ asked[c].from \in Nat
        BY <2>1 DEF Asks
    <2>3. QED
        BY <2>2
<1> DEFINE a == Found(asked[c].project, f, seen[f])
<1>3. a.project = asked[c].project /\ (asked[c].project = 1 => a.file = f /\ a.version = seen[f])
    BY <1>1, AnswerTyped
<1> HIDE DEF a
<1>4. Good(asked[c], a)
    BY <1>1, <1>2, <1>3 DEF Good, Files
<1>5. QED
    BY <1>4 DEF a

\* Steps of daemons other than their answers, of files and of what others commit
\* leave searches alone.
LEMMA SearchesRest ==
    ASSUME AnswersAreGood, UNCHANGED <<fpc, asked, reply, printed>>
    PROVE  AnswersAreGood'
BY DEF AnswersAreGood

LEMMA DaemonsKeep ==
    ASSUME ForwardInv, NEW d \in Servers, Serve(d) \/ Bind(d) \/ Accept(d) \/ ServerDies(d)
    PROVE  ForwardInv'
<1>1. ForwardTypes /\ FilesFollow /\ CommittedStays /\ AnswersAreGood
    BY DEF ForwardInv
<1>2. UNCHANGED <<fpc, asked, reply, printed, database, seen>>
    BY DEF Serve, Bind, Accept, ServerDies
<1>3. CommittedStays' /\ AnswersAreGood'
    BY <1>1, <1>2, SearchesRest DEF CommittedStays
<1>4. CASE Serve(d)
    <2>1. database.file \in Files /\ database.file <= database.file
        BY <1>1 DEF ForwardTypes, Files
    <2>2. ForwardTypes'
        BY <1>1, <1>4, <2>1 DEF Serve, ForwardTypes
    <2>3. FilesFollow'
        BY <1>1, <1>4, <2>1 DEF Serve, FilesFollow, ForwardTypes
    <2>4. QED
        BY <1>3, <2>2, <2>3 DEF ForwardInv
<1>5. CASE Bind(d)
    <2>1. ForwardTypes'
        BY <1>1, <1>5 DEF Bind, ForwardTypes
    <2>2. FilesFollow'
        BY <1>1, <1>5 DEF Bind, FilesFollow, ForwardTypes
    <2>3. QED
        BY <1>3, <2>1, <2>2 DEF ForwardInv
<1>6. CASE Accept(d)
    <2>1. ForwardTypes'
        BY <1>1, <1>6 DEF Accept, ForwardTypes
    <2>2. FilesFollow'
        BY <1>1, <1>6 DEF Accept, FilesFollow, ForwardTypes
    <2>3. QED
        BY <1>3, <2>1, <2>2 DEF ForwardInv
<1>7. CASE ServerDies(d)
    <2>1. ForwardTypes'
        BY <1>1, <1>7 DEF ServerDies, ForwardTypes
    <2>2. FilesFollow'
        BY <1>1, <1>7 DEF ServerDies, FilesFollow, ForwardTypes
    <2>3. QED
        BY <1>3, <2>1, <2>2 DEF ForwardInv
<1>8. QED
    BY <1>4, <1>5, <1>6, <1>7

LEMMA RespondKeeps ==
    ASSUME ForwardInv, NEW d \in Servers, Respond(d)
    PROVE  ForwardInv'
<1> DEFINE c == Head(backlog[d])
           error == Answer("error", 0, 0, 0)
           found == Found(Serves[d], opened[d], seen[opened[d]])
<1>1. ForwardTypes /\ FilesFollow /\ CommittedStays /\ AnswersAreGood
    BY DEF ForwardInv
<1>2. /\ spc[d] = "busy"
      /\ reply' = IF fpc[c] # "waiting" THEN reply
                  ELSE [reply EXCEPT ![c] = IF Refuses(d, c) THEN error ELSE found]
      /\ backlog' = [backlog EXCEPT ![d] = Tail(@)] /\ spc' = [spc EXCEPT ![d] = "free"]
      /\ UNCHANGED <<socket, opened, fpc, asked, printed, database, seen>>
    BY DEF Respond
<1>3. backlog[d] \in Seq(Searchers) /\ backlog[d] # <<>>
    BY <1>1, <1>2 DEF ForwardTypes, FilesFollow
<1>4. c \in Searchers /\ Tail(backlog[d]) \in Seq(Searchers)
    BY <1>3
<1>5. /\ Serves[d] \in Projects /\ opened[d] \in Files /\ opened[d] <= database.file /\ seen[opened[d]] \in Nat
    BY <1>1, ForwardingAssumption DEF ForwardTypes, FilesFollow
<1>6. found \in Replies /\ error \in Replies /\ error.status = "error"
    BY <1>5, AnswerTyped
<1>7. ~Refuses(d, c) => Good(asked[c], found)
    <2>1. ~Refuses(d, c) => asked[c].project = Serves[d]
        BY DEF Refuses
    <2>2. QED
        BY <1>4, <1>5, <2>1, FoundIsGood
<1> HIDE DEF c, error, found
<1>8. ForwardTypes'
    BY <1>1, <1>2, <1>4, <1>6 DEF ForwardTypes
<1>9. FilesFollow' /\ CommittedStays'
    BY <1>1, <1>2 DEF FilesFollow, CommittedStays, ForwardTypes
<1>10. AnswersAreGood'
    <2> SUFFICES ASSUME NEW b \in Searchers
                 PROVE  /\ fpc[b] \in {"new", "connect"} => reply'[b].status = "none"
                        /\ reply'[b].status = "ok" => Good(asked[b], reply'[b])
        BY <1>1, <1>2 DEF AnswersAreGood
    <2>1. CASE reply'[b] = reply[b]
        BY <2>1, <1>1 DEF AnswersAreGood
    <2>2. CASE reply'[b] # reply[b]
        <3>1. b = c /\ fpc[c] = "waiting" /\ reply'[c] = IF Refuses(d, c) THEN error ELSE found
            BY <2>2, <1>1, <1>2, <1>4 DEF ForwardTypes
        <3>2. QED
            BY <3>1, <1>6, <1>7
    <2>3. QED
        BY <2>1, <2>2
<1>11. QED
    BY <1>8, <1>9, <1>10 DEF ForwardInv

LEMMA AskKeeps ==
    ASSUME ForwardInv, NEW c \in Searchers, NEW explicit \in BOOLEAN, NEW forward \in BOOLEAN,
           NEW project \in Projects, Ask(c, explicit, forward, project)
    PROVE  ForwardInv'
<1> DEFINE q == [explicit |-> explicit, project |-> project, from |-> database.version, file |-> database.file]
           stage == IF forward THEN "connect" ELSE "local"
<1>1. ForwardTypes /\ FilesFollow /\ CommittedStays /\ AnswersAreGood
    BY DEF ForwardInv
<1>2. /\ fpc[c] = "new" /\ asked' = [asked EXCEPT ![c] = q] /\ fpc' = [fpc EXCEPT ![c] = stage]
      /\ UNCHANGED <<socket, spc, opened, backlog, reply, printed, database, seen>>
    BY DEF Ask, Goes
<1>3. q \in Asks /\ q.from = database.version /\ q.file = database.file /\ database.file \in {1, 2}
    <2>1. database.file \in {1, 2} /\ database.version \in Nat
        BY <1>1 DEF ForwardTypes, Files
    <2>2. QED
        BY <2>1 DEF Asks
<1>4. stage \in {"connect", "local"}
    OBVIOUS
<1> HIDE DEF q, stage
<1>5. ForwardTypes'
    BY <1>1, <1>2, <1>3, <1>4 DEF ForwardTypes
<1>6. FilesFollow'
    BY <1>1, <1>2 DEF FilesFollow
<1>7. CommittedStays'
    <2> SUFFICES ASSUME NEW b \in Searchers
                 PROVE  /\ asked'[b].file <= database.file
                        /\ \A f \in Files : asked'[b].file <= f /\ f <= database.file => asked'[b].from <= seen[f]
        BY <1>2 DEF CommittedStays
    <2>1. CASE b = c
        <3>1. asked'[b] = q
            BY <2>1, <1>1, <1>2 DEF ForwardTypes
        <3>2. \A f \in Files : q.file <= f /\ f <= database.file => f = database.file
            BY <1>3 DEF Files
        <3>3. database.version \in Nat /\ seen[database.file] = database.version
            BY <1>1 DEF ForwardTypes, FilesFollow
        <3>4. QED
            BY <3>1, <3>2, <3>3, <1>3
    <2>2. CASE b # c
        <3>1. asked'[b] = asked[b]
            BY <2>2, <1>1, <1>2 DEF ForwardTypes
        <3>2. QED
            BY <3>1, <1>1 DEF CommittedStays
    <2>3. QED
        BY <2>1, <2>2
<1>8. AnswersAreGood'
    <2> SUFFICES ASSUME NEW b \in Searchers
                 PROVE  /\ fpc'[b] \in {"new", "connect"} => reply[b].status = "none"
                        /\ reply[b].status = "ok" => Good(asked'[b], reply[b])
                        /\ printed[b] # NoReply <=> fpc'[b] = "done"
                        /\ fpc'[b] = "done" => Good(asked'[b], printed[b])
                        /\ fpc'[b] = "failed" => asked'[b].explicit
                        /\ fpc'[b] = "new" => asked'[b] = NotAsked
        BY <1>2 DEF AnswersAreGood
    <2>1. CASE b = c
        <3>1. fpc'[b] = stage
            BY <2>1, <1>1, <1>2 DEF ForwardTypes
        <3>2. reply[b].status = "none" /\ printed[b] = NoReply
            BY <2>1, <1>1, <1>2 DEF AnswersAreGood
        <3>3. QED
            BY <3>1, <3>2, <1>4
    <2>2. CASE b # c
        <3>1. asked'[b] = asked[b] /\ fpc'[b] = fpc[b]
            BY <2>2, <1>1, <1>2 DEF ForwardTypes
        <3>2. QED
            BY <3>1, <1>1 DEF AnswersAreGood
    <2>3. QED
        BY <2>1, <2>2
<1>9. QED
    BY <1>5, <1>6, <1>7, <1>8 DEF ForwardInv

\* A search moves on without an answer.
LEMMA GoesKeeps ==
    ASSUME ForwardTypes, AnswersAreGood, NEW c \in Searchers,
           NEW stage \in {"waiting", "local", "failed"}, stage = "failed" => asked[c].explicit,
           fpc[c] \in {"connect", "waiting"}, Goes(c, stage), UNCHANGED <<asked, reply, printed>>
    PROVE  AnswersAreGood' /\ fpc' \in [Searchers -> {"new", "connect", "waiting", "local", "done", "failed"}]
<1>1. fpc' = [fpc EXCEPT ![c] = stage]
    BY DEF Goes
<1>2. fpc' \in [Searchers -> {"new", "connect", "waiting", "local", "done", "failed"}]
    BY <1>1 DEF ForwardTypes
<1>3. fpc'[c] = stage /\ \A b \in Searchers \ {c} : fpc'[b] = fpc[b]
    BY <1>1 DEF ForwardTypes
<1>4. printed[c] = NoReply /\ (reply[c].status = "ok" => Good(asked[c], reply[c]))
    BY DEF AnswersAreGood
<1>5. QED
    BY <1>2, <1>3, <1>4 DEF AnswersAreGood

\* A search prints an answer, and is done.
LEMMA PrintsKeeps ==
    ASSUME ForwardTypes, AnswersAreGood, NEW c \in Searchers, NEW a \in Replies, a # NoReply, Good(asked[c], a),
           Prints(c, a), UNCHANGED <<asked, reply>>
    PROVE  /\ AnswersAreGood' /\ printed' \in [Searchers -> Replies]
           /\ fpc' \in [Searchers -> {"new", "connect", "waiting", "local", "done", "failed"}]
<1>1. fpc' = [fpc EXCEPT ![c] = "done"] /\ printed' = [printed EXCEPT ![c] = a]
    BY DEF Prints, Goes
<1>2. /\ fpc' \in [Searchers -> {"new", "connect", "waiting", "local", "done", "failed"}]
      /\ printed' \in [Searchers -> Replies]
    BY <1>1 DEF ForwardTypes
<1>3. /\ fpc'[c] = "done" /\ printed'[c] = a
      /\ \A b \in Searchers \ {c} : fpc'[b] = fpc[b] /\ printed'[b] = printed[b]
    BY <1>1 DEF ForwardTypes
<1>4. reply[c].status = "ok" => Good(asked[c], reply[c])
    BY DEF AnswersAreGood
<1>5. QED
    BY <1>2, <1>3, <1>4 DEF AnswersAreGood

LEMMA SearchesKeep ==
    ASSUME ForwardInv, NEW c \in Searchers, Connect(c) \/ Reads(c) \/ TimesOut(c) \/ Hangup(c) \/ Local(c)
    PROVE  ForwardInv'
<1>1. ForwardTypes /\ FilesFollow /\ CommittedStays /\ AnswersAreGood
    BY DEF ForwardInv
<1>2. UNCHANGED <<socket, spc, opened, asked, reply, database, seen>>
    BY DEF Connect, Reads, TimesOut, Hangup, Local
<1>3. Otherwise(c) \in {"local", "failed"} /\ (Otherwise(c) = "failed" => asked[c].explicit)
    BY DEF Otherwise
<1>4. CommittedStays'
    BY <1>1, <1>2 DEF CommittedStays
<1>5. CASE backlog' = backlog /\ printed' = printed /\ fpc[c] \in {"connect", "waiting"}
           /\ (Goes(c, "local") \/ Goes(c, Otherwise(c)))
    <2>1. AnswersAreGood' /\ fpc' \in [Searchers -> {"new", "connect", "waiting", "local", "done", "failed"}]
        BY <1>1, <1>2, <1>3, <1>5, GoesKeeps
    <2>2. ForwardTypes' /\ FilesFollow'
        BY <1>1, <1>2, <1>5, <2>1 DEF ForwardTypes, FilesFollow
    <2>3. QED
        BY <1>4, <2>1, <2>2 DEF ForwardInv
<1>6. CASE Connect(c) /\ Listening
    <2>1. /\ backlog' = [backlog EXCEPT ![socket] = Append(@, c)] /\ Goes(c, "waiting") /\ printed' = printed
          /\ fpc[c] = "connect" /\ socket \in Servers
        BY <1>6 DEF Connect, Listening
    <2>2. AnswersAreGood' /\ fpc' \in [Searchers -> {"new", "connect", "waiting", "local", "done", "failed"}]
        BY <1>1, <1>2, <2>1, GoesKeeps
    <2>3. backlog[socket] \in Seq(Searchers)
        BY <1>1, <2>1 DEF ForwardTypes
    <2>4. Append(backlog[socket], c) \in Seq(Searchers) /\ Append(backlog[socket], c) # <<>>
        BY <2>3
    <2>5. backlog' \in [Servers -> Seq(Searchers)] /\ \A d \in Servers : backlog[d] # <<>> => backlog'[d] # <<>>
        BY <1>1, <2>1, <2>4 DEF ForwardTypes
    <2>6. ForwardTypes' /\ FilesFollow'
        BY <1>1, <1>2, <2>1, <2>2, <2>5 DEF ForwardTypes, FilesFollow
    <2>7. QED
        BY <1>4, <2>2, <2>6 DEF ForwardInv
<1>7. CASE backlog' = backlog /\ \E a \in Replies : a # NoReply /\ Good(asked[c], a) /\ Prints(c, a)
    <2>1. AnswersAreGood' /\ printed' \in [Searchers -> Replies]
          /\ fpc' \in [Searchers -> {"new", "connect", "waiting", "local", "done", "failed"}]
        BY <1>1, <1>2, <1>7, PrintsKeeps
    <2>2. ForwardTypes' /\ FilesFollow'
        BY <1>1, <1>2, <1>7, <2>1 DEF ForwardTypes, FilesFollow
    <2>3. QED
        BY <1>4, <2>1, <2>2 DEF ForwardInv
<1>8. CASE Connect(c)
    BY <1>5, <1>6, <1>8 DEF Connect
<1>9. CASE Reads(c)
    <2>1. CASE reply[c].status = "ok"
        <3>1. reply[c] \in Replies /\ reply[c] # NoReply /\ Good(asked[c], reply[c])
            BY <2>1, <1>1 DEF AnswersAreGood, ForwardTypes, NoReply, Answer
        <3>2. QED
            BY <3>1, <2>1, <1>7, <1>9 DEF Reads
    <2>2. CASE reply[c].status # "ok"
        BY <2>2, <1>5, <1>9 DEF Reads
    <2>3. QED
        BY <2>1, <2>2
<1>10. CASE TimesOut(c)
    BY <1>5, <1>10 DEF TimesOut
<1>11. CASE Hangup(c)
    BY <1>5, <1>11 DEF Hangup
<1>12. CASE Local(c)
    <2> DEFINE a == Found(asked[c].project, database.file, database.version)
    <2>1. database.file \in Files /\ database.version \in Nat /\ database.file <= database.file /\ asked[c].project \in Projects
        BY <1>1 DEF ForwardTypes, Files, Asks
    <2>2. a \in Replies /\ a # NoReply
        BY <2>1, AnswerTyped
    <2>3. Good(asked[c], a)
        BY <1>1, <2>1, FoundIsGood DEF FilesFollow
    <2>4. Prints(c, a) /\ backlog' = backlog
        BY <1>12 DEF Local
    <2> HIDE DEF a
    <2>5. QED
        BY <2>2, <2>3, <2>4, <1>7
<1>13. QED
    BY <1>8, <1>9, <1>10, <1>11, <1>12

\* The database grows, or is replaced by a recovered one.
LEMMA DatabaseKeeps ==
    ASSUME ForwardInv, Commit \/ Recovers \/ FileAppears \/ UNCHANGED forwardVars
    PROVE  ForwardInv'
<1>1. ForwardTypes /\ FilesFollow /\ CommittedStays /\ AnswersAreGood
    BY DEF ForwardInv
<1>2. UNCHANGED <<spc, opened, backlog, fpc, asked, reply, printed>>
    BY DEF Commit, Recovers, FileAppears, forwardVars
<1>3. AnswersAreGood'
    BY <1>1, <1>2, SearchesRest
<1>4. /\ database.file \in {1, 2} /\ database.version \in Nat /\ seen \in [Files -> Nat]
      /\ seen[database.file] = database.version
    BY <1>1 DEF ForwardTypes, Files, FilesFollow
<1>5. \A c \in Searchers : asked[c].file \in 0..2 /\ asked[c].from \in Nat
    BY <1>1 DEF ForwardTypes, Asks
<1>6. \A d \in Servers : opened[d] \in {1, 2}
    BY <1>1 DEF ForwardTypes, Files
<1>7. CASE Commit
    <2>1. /\ database' = [database EXCEPT !.version = @ + 1] /\ socket' = socket
          /\ seen' = [seen EXCEPT ![database.file] = database.version + 1]
        BY <1>7 DEF Commit
    <2>2. database'.file = database.file /\ database'.version = database.version + 1
          /\ database' \in [file : Files, version : Nat]
        <3>1. database \in [file : Files, version : Nat]
            BY <1>1 DEF ForwardTypes
        <3>2. QED
            BY <2>1, <3>1
    <2>3. seen' \in [Files -> Nat] /\ seen'[database.file] = database.version + 1
          /\ \A f \in Files : seen'[f] \in Nat /\ seen[f] \in Nat /\ seen'[f] >= seen[f]
        BY <1>4, <2>1 DEF Files
    <2>4. ForwardTypes' /\ FilesFollow'
        BY <1>1, <1>2, <2>1, <2>2, <2>3 DEF ForwardTypes, FilesFollow
    <2>5. CommittedStays'
        BY <1>1, <1>2, <1>5, <2>2, <2>3 DEF CommittedStays
    <2>6. QED
        BY <1>3, <2>4, <2>5 DEF ForwardInv
<1>8. CASE Recovers
    <2>1. /\ database.file = 1 /\ database' = [database EXCEPT !.file = 2] /\ socket' = socket
          /\ seen' = [seen EXCEPT ![2] = database.version]
        BY <1>8 DEF Recovers
    <2>2. database'.file = 2 /\ database'.version = database.version /\ database' \in [file : Files, version : Nat]
        <3>1. database \in [file : Files, version : Nat] /\ 2 \in Files
            BY <1>1 DEF ForwardTypes, Files
        <3>2. QED
            BY <2>1, <3>1
    <2>3. seen' \in [Files -> Nat] /\ seen'[2] = database.version /\ seen'[1] = seen[1] /\ seen[1] = database.version
        BY <1>4, <2>1 DEF Files
    <2>4. ForwardTypes'
        BY <1>1, <1>2, <2>1, <2>2, <2>3 DEF ForwardTypes
    <2>5. FilesFollow'
        BY <1>1, <1>2, <1>6, <2>2, <2>3 DEF FilesFollow
    <2>6. CommittedStays'
        <3> SUFFICES ASSUME NEW c \in Searchers
                     PROVE  asked[c].file <= 2 /\ \A f \in Files : asked[c].from <= seen'[f]
            BY <1>2, <2>2 DEF CommittedStays
        <3>1. asked[c].file <= 1 /\ asked[c].from <= seen[1]
            BY <1>1, <2>1 DEF CommittedStays, Files
        <3>2. \A f \in Files : f = 1 \/ f = 2
            BY DEF Files
        <3>3. QED
            BY <3>1, <3>2, <2>3, <1>5
    <2>7. QED
        BY <1>3, <2>4, <2>5, <2>6 DEF ForwardInv
<1>9. CASE FileAppears \/ UNCHANGED forwardVars
    <2>1. UNCHANGED <<database, seen>> /\ socket' \in {socket, "file"}
        BY <1>9 DEF FileAppears, forwardVars
    <2>2. ForwardTypes' /\ FilesFollow' /\ CommittedStays'
        BY <1>1, <1>2, <2>1 DEF ForwardTypes, FilesFollow, CommittedStays
    <2>3. QED
        BY <1>3, <2>2 DEF ForwardInv
<1>10. QED
    BY <1>7, <1>8, <1>9

LEMMA ForwardBegins == ASSUME ForwardInit PROVE ForwardInv
<1>1. NotAsked \in Asks /\ NotAsked.file = 0 /\ NotAsked.from = 0
    BY DEF NotAsked, Asks, Projects
<1>2. NoReply \in Replies /\ NoReply.status = "none"
    BY DEF NoReply, Answer, Replies
<1>3. database \in [file : Files, version : Nat] /\ database.file = 1 /\ database.version = 0
      /\ seen \in [Files -> Nat] /\ \A f \in Files : seen[f] = 0
    BY DEF ForwardInit, Files
<1>4. ForwardTypes
    <2>1. asked \in [Searchers -> Asks] /\ reply \in [Searchers -> Replies] /\ printed \in [Searchers -> Replies]
        BY <1>1, <1>2 DEF ForwardInit
    <2>2. /\ spc \in [Servers -> {"down", "bind", "free", "busy"}] /\ opened \in [Servers -> Files]
          /\ fpc \in [Searchers -> {"new", "connect", "waiting", "local", "done", "failed"}]
          /\ backlog \in [Servers -> Seq(Searchers)] /\ socket \in {"nothing", "file"} \cup Servers
        BY DEF ForwardInit, Files
    <2>3. QED
        BY <1>3, <2>1, <2>2 DEF ForwardTypes
<1>5. FilesFollow
    BY <1>3 DEF ForwardInit, FilesFollow, Files
<1>6. CommittedStays
    BY <1>1, <1>3 DEF ForwardInit, CommittedStays
<1>7. AnswersAreGood
    BY <1>2 DEF ForwardInit, AnswersAreGood
<1>8. QED
    BY <1>4, <1>5, <1>6, <1>7 DEF ForwardInv

LEMMA ForwardInductive ==
    ASSUME ForwardInv, [ForwardNext]_forwardVars
    PROVE  ForwardInv'
<1>1. ASSUME NEW d \in Servers, Serve(d) \/ Bind(d) \/ Accept(d) \/ Respond(d) \/ ServerDies(d)
      PROVE  ForwardInv'
    BY <1>1, DaemonsKeep, RespondKeeps
<1>2. ASSUME NEW c \in Searchers, \E explicit, forward \in BOOLEAN, project \in Projects : Ask(c, explicit, forward, project)
      PROVE  ForwardInv'
    BY <1>2, AskKeeps
<1>3. ASSUME NEW c \in Searchers, Connect(c) \/ Reads(c) \/ TimesOut(c) \/ Hangup(c) \/ Local(c)
      PROVE  ForwardInv'
    BY <1>3, SearchesKeep
<1>4. ASSUME Commit \/ Recovers \/ FileAppears \/ UNCHANGED forwardVars PROVE ForwardInv'
    BY <1>4, DatabaseKeeps
<1>5. QED
    BY <1>1, <1>2, <1>3, <1>4 DEF ForwardNext

\* Whichever daemons take the socket, die or outlive a recovery: what a search prints is of
\* the project it asked for and holds what its file had when the search began, and only
\* a search that insisted on a socket goes without an answer.
THEOREM AnswersAreOfTheProject == ForwardSpec => []ForwardingHolds
<1>1. ASSUME ForwardInv PROVE ForwardingHolds
    <2>1. ForwardTypeOK
        BY <1>1 DEF ForwardInv, ForwardTypes, AnswersAreGood, ForwardTypeOK
    <2>2. AnswersItsProject
        BY <1>1 DEF ForwardInv, AnswersAreGood, Good, AnswersItsProject
    <2>3. ShortcutOnly
        BY <1>1 DEF ForwardInv, AnswersAreGood, Good, ShortcutOnly
    <2>4. QED
        BY <2>1, <2>2, <2>3 DEF ForwardingHolds
<1>2. QED
    BY <1>1, ForwardBegins, ForwardInductive, PTL DEF ForwardSpec
===============================================================================
