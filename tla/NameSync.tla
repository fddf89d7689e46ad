------------------------------ MODULE NameSync ------------------------------
(***************************************************************************)
(* What the names do to the synchronisation: the server's tree tells names *)
(* apart by case and lists directories with an extension, the client's     *)
(* does neither; a path is a file here and a directory there; either side  *)
(* is pointed at another folder while the state file stays what it is.     *)
(*                                                                         *)
(* A session does its actions one by one and breaks off where a name is in *)
(* the way.  Users wait until it is over, and no message is lost: what     *)
(* happens in between is SyncSession's subject.  Checksums are on.         *)
(***************************************************************************)
EXTENDS NameRules, SyncDecision, SequencesExt

CONSTANTS
    SrvNames,       \* names the users of the server's folders give files
    CliNames,       \* names the users of the client's folders give files
    KeyOrder,       \* every protocol path, in the order of BTreeMap
    Reserved,       \* last components the client's scan leaves out
    Root,           \* folders either side can be pointed at
    MaxEdits,       \* bound: files written
    MaxSwitches     \* bound: changes of a folder

VARIABLES
    srv, cli,           \* for each folder: its files, directories, read-only files
    srvRoot, cliRoot,   \* the folders configured
    state,              \* sync state file
    next,               \* the session's next path in KeyOrder, 0 when none runs
    sm, cm,             \* its manifests, changed by its actions
    plan,               \* what it does with each path
    clock,              \* contents written so far; a larger one is newer
    switches,
    replaced,           \* history: contents of which a user has taken a copy away
    moves, broke        \* history, since the state file was written: how often a
                        \* folder was changed, whether a session has broken off

session == <<next, sm, cm, plan>>
history == <<replaced, moves, broke>>
vars == <<srv, cli, srvRoot, cliRoot, state, session, clock, switches, history>>

Key     == Range(KeyOrder)
Content == 1..MaxEdits

ASSUME NamesAssumption ==
    /\ MaxEdits \in Nat /\ MaxSwitches \in Nat
    /\ Root # {}
    /\ KeyOrder \in Seq(Seq(Seq(STRING))) /\ IsInjective(KeyOrder)
    /\ SrvNames \subseteq Seq(Seq(STRING))
    /\ CliNames \subseteq Key

-----------------------------------------------------------------------------
(* Trees.                                                                  *)

EmptyTree == [files |-> <<>>, dirs |-> {}, locked |-> {}]

Parents(n)   == {SubSeq(n, 1, i) : i \in 1..(Len(n) - 1)}
Within(d, n) == d \in Parents(n)

\* A file n can be created: its directories are none of the files, and it is
\* none of the directories.
Fits(t, n) == n \notin t.dirs /\ Parents(n) \cap DOMAIN t.files = {}

PutFile(t, n, c) ==
    [files  |-> [m \in DOMAIN t.files \union {n} |-> IF m = n THEN c ELSE t.files[m]],
     dirs   |-> t.dirs \union Parents(n),
     locked |-> t.locked \ {n}]
DropFiles(t, ns) ==
    [files |-> [n \in DOMAIN t.files \ ns |-> t.files[n]],
     dirs |-> t.dirs, locked |-> t.locked \ ns]
Protect(t, n) == [files |-> t.files, dirs |-> t.dirs, locked |-> t.locked \union {n}]

Holds(t, n, c) == n \in DOMAIN t.files /\ t.files[n] = c
Contents(t)    == {t.files[n] : n \in DOMAIN t.files}

ItemOf(c) == [size |-> 0, crc |-> c, known |-> TRUE, dos |-> 0]
Entry(c)  == [server |-> ItemOf(c), client |-> ItemOf(c)]

ASSUME NoneAssumption == \A c \in Content : None # ItemOf(c) /\ None # Entry(c)

-----------------------------------------------------------------------------
(* The two scans.                                                          *)

KeyOf(n) == [i \in DOMAIN n |-> Upper(n[i])]

SrvLists(n) == \A i \in DOMAIN n : is_valid_fat_component(n[i], i = Len(n))

CliLists(n) ==
    /\ \A i \in DOMAIN n : proto_is_valid_component(n[i], i = Len(n))
    /\ n[Len(n)] \notin Reserved

\* Directories are read in the order of their names' bytes, capitals first:
\* of two names of one path, the one with the first capital comes first.
ScannedBefore(m, n) ==
    \E i \in DOMAIN m : \E j \in DOMAIN m[i] :
        /\ m[i][j] # n[i][j] /\ n[i][j] \in DOMAIN Small
        /\ \A k \in 1..(i - 1) : m[k] = n[k]
        /\ \A l \in 1..(j - 1) : m[i][l] = n[i][l]

\* The names the server lists under each path, and those the client lists.
SrvListed == [k \in Key |-> {n \in SrvNames \union Key : KeyOf(n) = k /\ SrvLists(n)}]
CliListed == {k \in Key : CliLists(k)}

\* What the client lists must be told from what it does not: all names are
\* written in capitals, and the server's users use none that only the server
\* lists (a directory with an extension, a file of the client's own).
CommonNames ==
    /\ \A n \in SrvNames \union Key : KeyOf(n) = n
    /\ \A n \in SrvNames : SrvLists(n) => CliLists(n)

\* A later insert into the manifest replaces an earlier one.
Listed(t, k) == DOMAIN t.files \cap SrvListed[k]
Chosen(t, k) == CHOOSE n \in Listed(t, k) :
                  \A m \in Listed(t, k) \ {n} : ScannedBefore(m, n)

scan_server_tree(t) ==
    [k \in Key |-> IF Listed(t, k) = {} THEN None ELSE ItemOf(t.files[Chosen(t, k)])]

scan_directory(t) ==
    [k \in Key |-> IF k \in DOMAIN t.files \cap CliListed THEN ItemOf(t.files[k])
                                                          ELSE None]

-----------------------------------------------------------------------------
Nothing == [k \in Key |-> None]

Init ==
    /\ srv = [r \in Root |-> EmptyTree] /\ cli = [r \in Root |-> EmptyTree]
    /\ srvRoot \in Root /\ cliRoot = srvRoot
    /\ state = Nothing
    /\ next = 0 /\ sm = Nothing /\ cm = Nothing /\ plan = Nothing
    /\ clock = 0 /\ switches = 0
    /\ replaced = {} /\ moves = 0 /\ broke = FALSE

(* The session.                                                            *)

Plan == LET s == scan_server_tree(srv[srvRoot])
            c == scan_directory(cli[cliRoot])
        IN  [k \in Key |-> build_sync_action(state[k], s[k], c[k])]

\* The actions are those of the paths that are not left alone, in their order.
Turn(p, i) == Min({j \in i..Len(KeyOrder) + 1 :
                     j = Len(KeyOrder) + 1 \/ p[KeyOrder[j]].kind # "none"})

Begin ==
    /\ next = 0
    /\ next' = Turn(Plan, 1)
    /\ sm' = scan_server_tree(srv[srvRoot])
    /\ cm' = scan_directory(cli[cliRoot])
    /\ plan' = Plan
    /\ UNCHANGED <<srv, cli, srvRoot, cliRoot, state, clock, switches, history>>

Active(kind) == next \in DOMAIN KeyOrder /\ plan[KeyOrder[next]].kind = kind
At     == KeyOrder[next]
Item   == plan[At].item
Client == cli[cliRoot]
Server == srv[srvRoot]

Advance ==
    /\ next' = Turn(plan, next + 1)
    /\ UNCHANGED <<plan, srvRoot, cliRoot, state, clock, switches, history>>

\* The session ends without saving the state file.
Break ==
    /\ next' = 0 /\ sm' = Nothing /\ cm' = Nothing /\ plan' = Nothing
    /\ broke' = TRUE
    /\ UNCHANGED <<srv, cli, srvRoot, cliRoot, state, clock, switches, replaced, moves>>

\* Mistake: a read-only file is not made writable first.
CanRemovePlain(t, k) == k \notin t.dirs /\ k \notin t.locked

\* remove, in proto_delete_local_file, fails on a directory.
CanRemove(t, k) == k \notin t.dirs

\* Directories that cannot be made are noticed when the file is opened.
CanReceive(t, k) == Fits(t, k) /\ CanRemove(t, k)

receive_download ==
    /\ Active("download") /\ CanReceive(Client, At)
    /\ cli' = [cli EXCEPT ![cliRoot] = PutFile(@, At, Item.crc)]
    /\ cm' = [cm EXCEPT ![At] = Item]
    /\ Advance /\ UNCHANGED <<srv, sm>>

\* The file is stored under the path of the protocol, whatever the name was.
receive_upload ==
    /\ Active("upload") /\ Fits(Server, At)
    /\ srv' = [srv EXCEPT ![srvRoot] = PutFile(@, At, Item.crc)]
    /\ sm' = [sm EXCEPT ![At] = Item]
    /\ Advance /\ UNCHANGED <<cli, cm>>

\* Only the path of the protocol is deleted, whatever the name was.
delete_server_path ==
    /\ Active("delete_remote") /\ At \notin Server.dirs
    /\ srv' = [srv EXCEPT ![srvRoot] = DropFiles(@, {At})]
    /\ sm' = [sm EXCEPT ![At] = None] /\ cm' = [cm EXCEPT ![At] = None]
    /\ Advance /\ UNCHANGED cli

delete_local ==
    /\ Active("delete_local") /\ CanRemove(Client, At)
    /\ cli' = [cli EXCEPT ![cliRoot] = DropFiles(@, {At})]
    /\ cm' = [cm EXCEPT ![At] = None]
    /\ Advance /\ UNCHANGED <<srv, sm>>

Skip ==
    /\ Active("conflict")
    /\ Advance /\ UNCHANGED <<srv, cli, sm, cm>>

Fail ==
    /\ \/ Active("download") /\ ~CanReceive(Client, At)
       \/ Active("upload") /\ ~Fits(Server, At)
       \/ Active("delete_remote") /\ At \in Server.dirs
       \/ Active("delete_local") /\ ~CanRemove(Client, At)
    /\ Break

Finish ==
    /\ next = Len(KeyOrder) + 1
    /\ state' = [k \in Key |-> build_state_entry(sm[k], cm[k])]
    /\ next' = 0 /\ sm' = Nothing /\ cm' = Nothing /\ plan' = Nothing
    /\ moves' = 0 /\ broke' = FALSE
    /\ UNCHANGED <<srv, cli, srvRoot, cliRoot, clock, switches, replaced>>

Session ==
    \/ Begin \/ receive_download \/ receive_upload \/ delete_server_path
    \/ delete_local \/ Skip \/ Fail \/ Finish

-----------------------------------------------------------------------------
\* Users write, delete and protect files and delete directories, in the
\* folders in use and in those that are not.
Write(t, n) ==
    /\ next = 0
    /\ clock < MaxEdits
    /\ clock' = clock + 1
    /\ Fits(t, n) /\ n \notin t.locked
    /\ replaced' = replaced \union {c \in Content : Holds(t, n, c)}

Delete(t, ns) ==
    /\ next = 0
    /\ ns \cap t.locked = {}
    /\ replaced' = replaced \union {t.files[n] : n \in ns}
    /\ UNCHANGED clock

Below(t, d) == {n \in DOMAIN t.files : Within(d, n)}
DropDir(t, d) ==
    [files |-> DropFiles(t, Below(t, d)).files,
     dirs |-> {e \in t.dirs : e # d /\ ~Within(d, e)},
     locked |-> t.locked \ Below(t, d)]

SrvUser(r) ==
    /\ \/ \E n \in SrvNames : Write(srv[r], n) /\ srv' = [srv EXCEPT ![r] = PutFile(@, n, clock')]
       \/ \E n \in DOMAIN srv[r].files : Delete(srv[r], {n}) /\ srv' = [srv EXCEPT ![r] = DropFiles(@, {n})]
       \/ \E d \in srv[r].dirs : Delete(srv[r], Below(srv[r], d)) /\ srv' = [srv EXCEPT ![r] = DropDir(@, d)]
    /\ UNCHANGED <<cli, srvRoot, cliRoot, state, session, switches, moves, broke>>

CliUser(r) ==
    /\ \/ \E n \in CliNames : Write(cli[r], n) /\ cli' = [cli EXCEPT ![r] = PutFile(@, n, clock')]
       \/ \E n \in DOMAIN cli[r].files : Delete(cli[r], {n}) /\ cli' = [cli EXCEPT ![r] = DropFiles(@, {n})]
       \/ \E d \in cli[r].dirs : Delete(cli[r], Below(cli[r], d)) /\ cli' = [cli EXCEPT ![r] = DropDir(@, d)]
       \/ \E n \in DOMAIN cli[r].files :
            /\ next = 0
            /\ cli' = [cli EXCEPT ![r] = Protect(@, n)]
            /\ UNCHANGED <<clock, replaced>>
    /\ UNCHANGED <<srv, srvRoot, cliRoot, state, session, switches, moves, broke>>

\* The settings dialog, the web interface: root_dir changes, nothing else.
Switch ==
    /\ next = 0
    /\ switches < MaxSwitches /\ switches' = switches + 1 /\ moves' = moves + 1
    /\ \/ srvRoot' \in Root \ {srvRoot} /\ UNCHANGED cliRoot
       \/ cliRoot' \in Root \ {cliRoot} /\ UNCHANGED srvRoot
    /\ UNCHANGED <<srv, cli, state, session, clock, replaced, broke>>

Next ==
    \/ Session
    \/ \E r \in Root : SrvUser(r) \/ CliUser(r)
    \/ Switch

Spec == Init /\ [][Next]_vars /\ WF_vars(Session)

-----------------------------------------------------------------------------
(* Properties.                                                             *)

InSession == UNCHANGED <<clock, replaced, srvRoot, cliRoot>>

\* The files of a tree t that are gone, or hold another content, in u.
Gone(t, u) == {n \in DOMAIN t.files : ~Holds(u, n, t.files[n])}

\* A session takes a file away, or puts another in its place, only where a
\* user had done so with a copy of it (the three-way merge of main.rs never
\* acts on a change nobody made); a change of a folder is a change of all its
\* files, until a session has written the state file again.
OnlyUsersReplace ==
    [][InSession /\ moves = 0 => \A r \in Root :
        /\ \A n \in Gone(srv[r], srv'[r]) : srv[r].files[n] \in replaced
        /\ \A n \in Gone(cli[r], cli'[r]) : cli[r].files[n] \in replaced]_vars

Newer(t, u) == \A n \in Gone(t, u) \cap DOMAIN u.files : t.files[n] < u.files[n]

\* A session never puts an older content in the place of a newer one
\* ("Konflikterkennung statt stiller Ueberschreibung").
NoRollback ==
    [][InSession /\ moves = 0 => \A r \in Root :
        Newer(srv[r], srv'[r]) /\ Newer(cli[r], cli'[r])]_vars

Kept == UNION {Contents(srv[r]) \union Contents(cli[r]) : r \in Root}

\* A content disappears from every folder only if a user has taken away a
\* copy of it: folders may be changed between sessions, and a session may
\* break off where a name is in its way.  Both together can lose it: a session
\* deletes in the first folder what the second lacks and breaks off, the second
\* is changed back, and the next session deletes there what the first lacks.
LastCopy ==
    [][InSession /\ (moves <= 1 \/ ~broke) => Kept \ Kept' \subseteq replaced]_vars

Agreed(k) ==
    \/ scan_server_tree(Server)[k] = scan_directory(Client)[k]
    \/ Plan[k].kind = "conflict"

\* A path is a file here and a directory there: every session breaks off.
Clash == \/ {KeyOf(n) : n \in DOMAIN Server.files} \cap Client.dirs # {}
         \/ DOMAIN Client.files \cap Server.dirs # {}

\* When the users leave the files alone, the trees come to agree on every
\* path but those in conflict, unless a directory is in the way, and stay so:
\* also after folders have been changed, and with read-only files.
Settles == <>[](next = 0 => Clash \/ \A k \in Key : Agreed(k))
=============================================================================
