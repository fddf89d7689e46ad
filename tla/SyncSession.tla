---------------------------- MODULE SyncSession -----------------------------
(***************************************************************************)
(* One Win16 client and one server keeping two directory trees in step.    *)
(*                                                                         *)
(*   server   a sync thread (handle_sync_client, one at a time under       *)
(*            sync_guard), a scanner thread (run_server_scanner) and the   *)
(*            manifest cache they share (Shared::server_manifest);         *)
(*   client   proto_sync_directory with its CRC cache;                     *)
(*   channel  one TCP connection per session, two FIFO byte streams cut    *)
(*            into the lines and file bodies of the protocol;              *)
(*   users    who change files on either side at any moment.               *)
(*                                                                         *)
(* Server steps are named Srv..., client steps Cli..., scanner steps       *)
(* Scan..., user steps User....  A step reads at most one message and does *)
(* what the code does up to its next blocking read, except that a step     *)
(* also ends where a crash, an edit or another thread could observe the    *)
(* difference (target deleted but not yet replaced, state file truncated   *)
(* but not yet written, manifest computed but not yet published).          *)
(*                                                                         *)
(* File contents are versions: every edit by a user is a fresh version     *)
(* with a size, a checksum and a DOS stamp given by constants, so that a   *)
(* configuration decides which edits look alike to the code.               *)
(***************************************************************************)
EXTENDS SyncDecision, Sequences, FiniteSets

CONSTANTS
    Path,           \* protocol paths, numbered in BTreeMap order
    MaxVersion,     \* bound: edits and deletions the users make
    SizeOf,         \* size of a version, not empty (Mangled: what it was cut to)
    CrcOf,          \* CRC-32 of a content
    StampOf,        \* DOS time stamp of a version when its user saves it
    MaxFiles,       \* PROTO_MAX_FILES
    CrcDisabled,    \* the client's "CRC off" option
    RecheckEnabled, \* the client's "recheck cached CRCs" option
    ScanEnabled,    \* scan_interval_seconds > 0
    MaxFaults,      \* bound: lost connections, I/O errors and crashes
    Torn,           \* a state file that was truncated and not rewritten
    Idle            \* the scanner between two scans

Mangled == 0                    \* a body cut out of some longer file
Version == 1..MaxVersion
Content == Version \union {Mangled}

ASSUME ConstantsAssumption ==
    /\ Path \subseteq Nat /\ IsFiniteSet(Path)
    /\ MaxVersion \in Nat
    /\ MaxFaults \in Nat
    /\ MaxFiles \in Nat
    /\ SizeOf \in [Version -> Nat \ {0}]
    /\ CrcOf \in [Content -> Nat]
    /\ StampOf \in [Version -> Nat]
    /\ CrcDisabled \in BOOLEAN
    /\ RecheckEnabled \in BOOLEAN
    /\ ScanEnabled \in BOOLEAN

Item == [size : Nat, crc : Nat, known : BOOLEAN, dos : Nat]
File == [data : Content, size : Nat, dos : Nat]

ASSUME SentinelsAssumption ==
    /\ None \notin Item
    /\ None \notin File
    /\ None \notin Path
    /\ None \notin [server : Item, client : Item]
    /\ None \notin [Path -> Item \union {None}]
    /\ Idle \notin [Path -> Item \union {None}]
    /\ Torn \notin [Path -> [server : Item, client : Item] \union {None}]

VARIABLES
    sdisk,      \* the server's tree
    shared,     \* SharedInner.server_manifest
    scan,       \* the scanner's manifest before set_server_manifest, or Idle
    stateFile,  \* the state file: recorded entries, or Torn
    spc,        \* where the sync thread is
    sm, cm,     \* its server_manifest and client_manifest
    acts, todo, \* the planned actions and the paths still to be served
    cur,        \* the path being served
    cdisk,      \* the client's tree
    cache,      \* ProtoClient.cache_items
    cpc,        \* where proto_sync_directory is
    items,      \* its file list
    dl,         \* the download in progress: the ACTION it answers
    temp,       \* SYNC.$$$, complete and verified, before the rename
    link,       \* "up" until either side closes the connection ("down") or it
                \* is gone without a word ("silent")
    s2c, c2s,   \* the two streams
    nextVer,    \* the next version a user writes
    faults,     \* faults so far
    heldS, heldC, \* history: contents each side's tree has held, per path
    fresh       \* history: manifests exact when merged, no edit since

server == <<spc, sm, cm, acts, todo, cur>>
client == <<cpc, items, dl, temp>>
wire   == <<link, s2c, c2s>>
ghosts == <<heldS, heldC, fresh>>
vars   == <<sdisk, shared, scan, stateFile, server, cdisk, cache, client,
            wire, nextVer, faults, ghosts>>

-----------------------------------------------------------------------------
(* Manifests and what they say.                                            *)

NoManifest == [p \in Path |-> None]
NoActs     == [p \in Path |-> NoAct]
NoState    == [p \in Path |-> None]

\* The item a side computes for a file it reads itself.
ItemOf(f) == [size |-> f.size, crc |-> CrcOf[f.data], known |-> TRUE, dos |-> f.dos]

\* scan_server_tree
TreeManifest(disk) == [p \in Path |-> IF disk[p] = None THEN None ELSE ItemOf(disk[p])]

Present(disk) == {p \in Path : disk[p] # None}

\* The item names content x: its checksum is known and is that of x.
Lists(item, x) == item # None /\ item.known /\ item.crc = CrcOf[x]

\* What n bytes read from the stream of file f can be: f itself, or, if f is
\* longer, a prefix of it.  A file that grew by appending still begins with
\* its earlier version; any other prefix is Mangled.
Received(f, n) ==
    IF f.size = n THEN {f.data}
                  ELSE {Mangled} \union {v \in Version : SizeOf[v] = n}

-----------------------------------------------------------------------------
(* Messages.  JUNK is what is left in a stream when a body was longer than *)
(* announced; no reader accepts it as a line of the protocol.              *)

Plain(type)        == [type |-> type]
ActionMsg(p, act)  == [type |-> "ACTION", path |-> p, act |-> act]
FileMsg(f)         == [type |-> "FILE", file |-> f]
PutMsg(p, it, f)   == [type |-> "PUT", path |-> p, item |-> it, file |-> f]
ManifestMsg(m)     == [type |-> "MANIFEST", items |-> m]
DoneMsg(conflicts) == [type |-> "DONE", conflicts |-> conflicts]

\* The rest of a stream after n bytes of a body of file f have been read.
Leftover(f, n) == IF f.size > n THEN <<Plain("JUNK")>> ELSE <<>>

NoDl == [path |-> None, item |-> None]

-----------------------------------------------------------------------------
Init ==
    /\ sdisk = [p \in Path |-> None]
    /\ cdisk = [p \in Path |-> None]
    /\ shared = None
    /\ scan = Idle
    /\ stateFile = NoState
    /\ spc = "idle" /\ sm = NoManifest /\ cm = NoManifest
    /\ acts = NoActs /\ todo = {} /\ cur = None
    /\ cache = NoManifest
    /\ cpc = "idle" /\ items = NoManifest /\ dl = NoDl /\ temp = None
    /\ link = "down" /\ s2c = <<>> /\ c2s = <<>>
    /\ nextVer = 1
    /\ faults = 0
    /\ heldS = [p \in Path |-> {}]
    /\ heldC = [p \in Path |-> {}]
    /\ fresh = FALSE

\* The budget of misfortunes a configuration allows.
Fault == faults < MaxFaults /\ faults' = faults + 1

\* The sync thread returns; its locals go with it.
SrvReturn ==
    /\ spc' = "idle" /\ sm' = NoManifest /\ cm' = NoManifest
    /\ acts' = NoActs /\ todo' = {} /\ cur' = None

\* A side closes its socket: the other one is told, unless the line is dead.
LinkClosed == IF link = "silent" THEN "silent" ELSE "down"

\* A side or the line is gone: the other side is told, or waits for a word
\* that never comes (there is no keepalive).
LinkLost == IF spc = "idle" /\ cpc = "idle" THEN {link} ELSE {LinkClosed, "silent"}

\* The sync thread returns early (an Err through `?', sync_fail): the socket
\* is dropped; nothing is published and the state file is not written.
SrvQuit == SrvReturn /\ link' = LinkClosed

\* proto_sync_directory returns; items are freed.
CliReturn == cpc' = "idle" /\ items' = NoManifest /\ dl' = NoDl /\ temp' = None

\* ... early, after proto_client_disconnect.
CliQuit == CliReturn /\ link' = LinkClosed

-----------------------------------------------------------------------------
(* A session begins: the client's timer or button calls                    *)
(* proto_sync_directory, which connects; the accepted connection gets a    *)
(* thread, which takes sync_guard and greets.                              *)

\* Mistake: recv_buffer is not reset, an old session's lines are still in it.
ConnectKeepsBuffer ==
    /\ cpc = "idle" /\ spc = "idle"
    /\ link' = "up" /\ s2c' = Append(s2c, Plain("HELLO")) /\ c2s' = <<>>
    /\ cpc' = "hello" /\ spc' = "hello"
    /\ UNCHANGED <<sdisk, shared, scan, stateFile, sm, cm, acts, todo, cur, cdisk,
                   cache, items, dl, temp, nextVer, faults, ghosts>>

Connect ==
    /\ cpc = "idle" /\ spc = "idle"
    /\ link' = "up" /\ s2c' = <<Plain("HELLO")>> /\ c2s' = <<>>
    /\ cpc' = "hello" /\ spc' = "hello"
    /\ UNCHANGED <<sdisk, shared, scan, stateFile, sm, cm, acts, todo, cur, cdisk,
                   cache, items, dl, temp, nextVer, faults, ghosts>>

-----------------------------------------------------------------------------
(* The sync thread.                                                        *)

SrvGets(pc, type) == spc = pc /\ c2s # <<>> /\ Head(c2s).type = type

SrvHello ==
    /\ SrvGets("hello", "HELLO")
    /\ c2s' = Tail(c2s)
    /\ spc' = "check"
    /\ UNCHANGED <<sdisk, shared, scan, stateFile, sm, cm, acts, todo, cur, cdisk,
                   cache, client, link, s2c, nextVer, faults, ghosts>>

\* No newer client in the update slot; delivering one ends the session
\* without touching a synchronised file.
SrvUpdateCheck ==
    /\ SrvGets("check", "UPDATECHECK")
    /\ c2s' = Tail(c2s)
    /\ s2c' = Append(s2c, Plain("UPDATE"))
    /\ spc' = "manifest"
    /\ UNCHANGED <<sdisk, shared, scan, stateFile, sm, cm, acts, todo, cur, cdisk,
                   cache, client, link, nextVer, faults, ghosts>>

SrvManifest ==
    /\ SrvGets("manifest", "MANIFEST")
    /\ c2s' = Tail(c2s)
    /\ cm' = Head(c2s).items
    /\ spc' = "load"
    /\ UNCHANGED <<sdisk, shared, scan, stateFile, sm, acts, todo, cur, cdisk,
                   cache, client, link, s2c, nextVer, faults, ghosts>>

\* load_sync_state: a state file that does not parse counts as empty.
LoadedState == IF stateFile = Torn THEN NoState ELSE stateFile

\* build_sync_actions
Plan(srv) == [p \in Path |-> build_sync_action(LoadedState[p], srv[p], cm[p])]

\* load_sync_state, current_server_manifest and build_sync_actions.  With no
\* cached manifest the thread scans the tree itself and then publishes.
SrvLoad ==
    /\ spc = "load"
    /\ LET srv == IF shared # None THEN shared ELSE TreeManifest(sdisk)
       IN  /\ sm' = srv
           /\ acts' = Plan(srv)
           /\ todo' = {p \in Path : Plan(srv)[p].kind # "none"}
           /\ fresh' = (srv = TreeManifest(sdisk) /\ cm = TreeManifest(cdisk))
    /\ spc' = IF shared # None THEN "next" ELSE "publish"
    /\ UNCHANGED <<sdisk, shared, scan, stateFile, cm, cur, cdisk, cache, client,
                   wire, nextVer, faults, heldS, heldC>>

\* set_server_manifest in current_server_manifest
SrvPublish ==
    /\ spc = "publish"
    /\ shared' = sm
    /\ spc' = "next"
    /\ UNCHANGED <<sdisk, scan, stateFile, sm, cm, acts, todo, cur, cdisk, cache,
                   client, wire, nextVer, faults, ghosts>>

\* The actions are served in the order of the paths.
IsNext(p) == p \in todo /\ \A q \in todo : p <= q

\* Mistake: the OK of a conflict is not read.
AwaitsNotConflict(kind) == IF kind = "download" THEN "ready"
                           ELSE IF kind = "upload" THEN "put"
                           ELSE IF kind = "conflict" THEN "next" ELSE "ok"

\* What the thread waits for after announcing an action.
Awaits(kind) == IF kind = "download" THEN "ready"
                ELSE IF kind = "upload" THEN "put" ELSE "ok"

\* Announce a download, an upload, a local deletion or a conflict.
SrvAnnounce(p) ==
    /\ spc = "next" /\ IsNext(p)
    /\ acts[p].kind # "delete_remote"
    /\ s2c' = Append(s2c, ActionMsg(p, acts[p]))
    /\ spc' = Awaits(acts[p].kind)
    /\ cur' = p
    /\ todo' = todo \ {p}
    /\ UNCHANGED <<sdisk, shared, scan, stateFile, sm, cm, acts, cdisk, cache,
                   client, link, c2s, nextVer, faults, ghosts>>

\* delete_server_path comes first, the client is told afterwards.
SrvDeleteRemote(p) ==
    /\ spc = "next" /\ IsNext(p)
    /\ acts[p].kind = "delete_remote"
    /\ sdisk' = [sdisk EXCEPT ![p] = None]
    /\ sm' = [sm EXCEPT ![p] = None]
    /\ s2c' = Append(s2c, ActionMsg(p, acts[p]))
    /\ spc' = "ok"
    /\ cur' = p
    /\ todo' = todo \ {p}
    /\ UNCHANGED <<shared, scan, stateFile, cm, acts, cdisk, cache, client, link,
                   c2s, nextVer, faults, ghosts>>

\* send_action_download after READY: the file is opened only now.
SrvSendFile ==
    /\ SrvGets("ready", "READY")
    /\ sdisk[cur] # None
    /\ c2s' = Tail(c2s)
    /\ s2c' = Append(s2c, FileMsg(sdisk[cur]))
    /\ spc' = "ok"
    /\ UNCHANGED <<sdisk, shared, scan, stateFile, sm, cm, acts, todo, cur, cdisk,
                   cache, client, link, nextVer, faults, ghosts>>

\* ... and is gone: File::open fails, the client sees a header and then EOF.
SrvFileGone ==
    /\ SrvGets("ready", "READY")
    /\ sdisk[cur] = None
    /\ c2s' = Tail(c2s)
    /\ SrvQuit
    /\ UNCHANGED <<sdisk, shared, scan, stateFile, cdisk, cache, client, s2c,
                   nextVer, faults, ghosts>>

\* expect_simple_ok
SrvOk ==
    /\ SrvGets("ok", "OK")
    /\ c2s' = Tail(c2s)
    /\ spc' = "next"
    /\ UNCHANGED <<sdisk, shared, scan, stateFile, sm, cm, acts, todo, cur, cdisk,
                   cache, client, link, s2c, nextVer, faults, ghosts>>

\* The metadata of PUT repeat the requested item, and the body's checksum,
\* when the client knows it, is the announced one.
PutAccepted(put, req, x) ==
    /\ put.path = cur
    /\ put.item.size = req.size
    /\ put.item.known = req.known
    /\ req.known => put.item.crc = req.crc /\ CrcOf[x] = req.crc

\* receive_upload: the body is complete (a shorter one leaves copy_exact
\* waiting), is checked, replaces the file and is acknowledged.
SrvPut ==
    /\ SrvGets("put", "PUT")
    /\ LET put == Head(c2s)
           req == acts[cur].item
       IN  /\ put.file.size >= req.size
           /\ \E x \in Received(put.file, req.size) :
                LET stored == [data |-> x, size |-> req.size, dos |-> put.item.dos]
                IN  /\ PutAccepted(put, req, x)
                    /\ sdisk' = [sdisk EXCEPT ![cur] = stored]
                    /\ heldS' = [heldS EXCEPT ![cur] = @ \union {x}]
                    /\ sm' = [sm EXCEPT ![cur] = ItemOf(stored)]
           /\ c2s' = Leftover(put.file, req.size) \o Tail(c2s)
    /\ s2c' = Append(s2c, Plain("OK"))
    /\ spc' = "next"
    /\ UNCHANGED <<shared, scan, stateFile, cm, acts, todo, cur, cdisk, cache,
                   client, link, nextVer, faults, heldC, fresh>>

\* ... or is refused: the .part file is dropped, the session ends.
SrvPutRefused ==
    /\ SrvGets("put", "PUT")
    /\ LET put == Head(c2s)
           req == acts[cur].item
       IN  /\ put.file.size >= req.size
           /\ \E x \in Received(put.file, req.size) : ~PutAccepted(put, req, x)
    /\ c2s' = Tail(c2s)
    /\ SrvQuit
    /\ UNCHANGED <<sdisk, shared, scan, stateFile, cdisk, cache, client, s2c,
                   nextVer, faults, ghosts>>

\* Mistake: the session is closed before every action is done.
SrvReplaceEarly ==
    /\ spc = "next"
    /\ shared' = sm
    /\ spc' = "truncate"
    /\ UNCHANGED <<sdisk, scan, stateFile, sm, cm, acts, todo, cur, cdisk, cache,
                   client, wire, nextVer, faults, ghosts>>

\* replace_server_manifest, once every action is done
SrvReplace ==
    /\ spc = "next" /\ todo = {}
    /\ shared' = sm
    /\ spc' = "truncate"
    /\ UNCHANGED <<sdisk, scan, stateFile, sm, cm, acts, todo, cur, cdisk, cache,
                   client, wire, nextVer, faults, ghosts>>

\* fs::write opens the state file with truncation ...
SrvTruncate ==
    /\ spc = "truncate"
    /\ stateFile' = Torn
    /\ spc' = "save"
    /\ UNCHANGED <<sdisk, shared, scan, sm, cm, acts, todo, cur, cdisk, cache,
                   client, wire, nextVer, faults, ghosts>>

\* apply_actions_to_client_manifest and build_state_after_sync
StateAfterSync ==
    [p \in Path |-> build_state_entry(sm[p], apply_action(acts[p], cm[p]))]

Conflicts == {p \in Path : acts[p].kind = "conflict"}

\* ... and writes it; then DONE goes out and the thread returns.
SrvSave ==
    /\ spc = "save"
    /\ stateFile' = StateAfterSync
    /\ s2c' = Append(s2c, DoneMsg(Cardinality(Conflicts)))
    /\ SrvReturn
    /\ UNCHANGED <<sdisk, shared, scan, cdisk, cache, client, link, c2s, nextVer,
                   faults, ghosts>>

\* What the thread reads at each place where it blocks in a read.
SrvAwaited == [hello    |-> "HELLO", check |-> "UPDATECHECK",
               manifest |-> "MANIFEST", ready |-> "READY",
               put      |-> "PUT", ok |-> "OK"]

\* Any other line ends the session.
SrvUnexpected ==
    /\ spc \in DOMAIN SrvAwaited
    /\ c2s # <<>>
    /\ Head(c2s).type # SrvAwaited[spc]
    /\ SrvQuit
    /\ UNCHANGED <<sdisk, shared, scan, stateFile, cdisk, cache, client, s2c, c2s,
                   nextVer, faults, ghosts>>

\* Mistake: the end of the stream goes unnoticed in the body of an upload.
SrvHangupNotInPut ==
    /\ link # "up"
    /\ spc \in DOMAIN SrvAwaited \ {"put"}
    /\ SrvQuit
    /\ UNCHANGED <<sdisk, shared, scan, stateFile, cdisk, cache, client, s2c, c2s,
                   nextVer, faults, ghosts>>

\* The connection is closed: a read fails, at the latest once the stream is
\* drained, or the OK that ends receive_upload cannot be sent.  (An ACTION
\* that cannot be sent is one sent before the read that fails.)  On a silent
\* line only what was sent and never confirmed can bring this about.
SrvHangup ==
    /\ link # "up"
    /\ \/ spc \in DOMAIN SrvAwaited
       \/ spc = "next" /\ cur # None /\ acts[cur].kind = "upload"
    /\ SrvQuit
    /\ UNCHANGED <<sdisk, shared, scan, stateFile, cdisk, cache, client, s2c, c2s,
                   nextVer, faults, ghosts>>


\* An I/O error on the tree or on the state file ends the session.  If it
\* strikes while the state file is being written, the file stays torn.
SrvError ==
    /\ spc # "idle"
    /\ Fault
    /\ SrvQuit
    /\ UNCHANGED <<sdisk, shared, scan, stateFile, cdisk, cache, client, s2c, c2s,
                   nextVer, ghosts>>

\* The process dies and is restarted, or its machine: the trees and the state
\* file survive.
SrvCrash ==
    /\ Fault
    /\ SrvReturn /\ link' \in LinkLost
    /\ shared' = None
    /\ scan' = Idle
    /\ UNCHANGED <<sdisk, stateFile, cdisk, cache, client, s2c, c2s, nextVer, ghosts>>

-----------------------------------------------------------------------------
(* The scanner thread.  A scan takes its time: edits, uploads and whole    *)
(* sessions may happen between reading the tree and publishing.            *)

ScanTree ==
    /\ ScanEnabled /\ scan = Idle
    /\ scan' = TreeManifest(sdisk)
    /\ UNCHANGED <<sdisk, shared, stateFile, server, cdisk, cache, client, wire,
                   nextVer, faults, ghosts>>

\* Mistake: the first manifest stays for ever.
ScanPublishOnce ==
    /\ scan # Idle
    /\ shared' = IF shared = None THEN scan ELSE shared
    /\ scan' = Idle
    /\ UNCHANGED <<sdisk, stateFile, server, cdisk, cache, client, wire, nextVer,
                   faults, ghosts>>

\* set_server_manifest in refresh_server_manifest
ScanPublish ==
    /\ scan # Idle
    /\ shared' = scan
    /\ scan' = Idle
    /\ UNCHANGED <<sdisk, stateFile, server, cdisk, cache, client, wire, nextVer,
                   faults, ghosts>>

\* scan_server_tree fails: set_server_scan_error, the old manifest stays.
ScanError ==
    /\ scan # Idle
    /\ Fault
    /\ scan' = Idle
    /\ UNCHANGED <<sdisk, shared, stateFile, server, cdisk, cache, client, wire,
                   nextVer, ghosts>>

-----------------------------------------------------------------------------
(* The client.                                                             *)

CliGets(pc, type) == cpc = pc /\ s2c # <<>> /\ Head(s2c).type = type

CliHello ==
    /\ CliGets("hello", "HELLO")
    /\ s2c' = Tail(s2c)
    /\ c2s' = c2s \o <<Plain("HELLO"), Plain("UPDATECHECK")>>
    /\ cpc' = "update"
    /\ UNCHANGED <<sdisk, shared, scan, stateFile, server, cdisk, cache, items, dl,
                   temp, link, nextVer, faults, ghosts>>

\* proto_lookup_cached_crc finds a checksum for file f of path p.
CacheHit(p, f) ==
    cache[p] # None /\ cache[p].size = f.size /\ cache[p].dos = f.dos

\* proto_add_file_item: the item of file p, whose cached checksum is too old
\* to be trusted if p is in expired.
ScannedItem(p, expired) ==
    LET f == cdisk[p]
    IN  IF CrcDisabled
          THEN [size |-> f.size, crc |-> 0, known |-> FALSE, dos |-> f.dos]
          ELSE IF CacheHit(p, f) /\ p \notin expired
                 THEN cache[p]
                 ELSE ItemOf(f)

\* What looking at the files in seen leaves in the CRC cache.
CacheAfterScan(seen, expired) ==
    [p \in Path |->
        IF p \in seen
          THEN IF CrcDisabled THEN None ELSE ScannedItem(p, expired)
          ELSE cache[p]]

\* PROTO_CACHE_RECHECK_MS may have passed for any entries.
Expirations == IF RecheckEnabled THEN SUBSET Path ELSE {{}}

\* The client goes on after UPDATE: it scans its tree and sends the MANIFEST.
CliScan ==
    /\ CliGets("update", "UPDATE")
    /\ Cardinality(Present(cdisk)) <= MaxFiles
    /\ \E expired \in Expirations :
         LET found == [p \in Path |->
                         IF cdisk[p] = None THEN None ELSE ScannedItem(p, expired)]
         IN  /\ items' = found
             /\ cache' = CacheAfterScan(Present(cdisk), expired)
             /\ c2s' = Append(c2s, ManifestMsg(found))
    /\ s2c' = Tail(s2c)
    /\ cpc' = "loop"
    /\ UNCHANGED <<sdisk, shared, scan, stateFile, server, cdisk, dl, temp, link,
                   nextVer, faults, ghosts>>

\* Mistake: the function returns without proto_client_disconnect.
CliScanFailsConnected ==
    /\ CliGets("update", "UPDATE")
    /\ Cardinality(Present(cdisk)) > MaxFiles
    /\ s2c' = Tail(s2c)
    /\ CliReturn
    /\ UNCHANGED <<sdisk, shared, scan, stateFile, server, cdisk, cache, link, c2s,
                   nextVer, faults, ghosts>>

\* "Zu viele Dateien im Sync-Ordner", or a file that cannot be read: the
\* session ends, the files seen so far stay in the cache.
CliScanFails ==
    /\ CliGets("update", "UPDATE")
    /\ \E expired \in Expirations, seen \in SUBSET Present(cdisk) :
         /\ \/ /\ Cardinality(Present(cdisk)) > MaxFiles
               /\ Cardinality(seen) = MaxFiles
               /\ UNCHANGED faults
            \/ /\ Cardinality(seen) <= MaxFiles
               /\ seen # Present(cdisk)
               /\ Fault
         /\ cache' = CacheAfterScan(seen, expired)
    /\ s2c' = Tail(s2c)
    /\ CliQuit
    /\ UNCHANGED <<sdisk, shared, scan, stateFile, server, cdisk, c2s, nextVer, ghosts>>

CliAction(kind) == CliGets("loop", "ACTION") /\ Head(s2c).act.kind = kind

\* proto_receive_download up to its first read
CliDownload ==
    /\ CliAction("download")
    /\ s2c' = Tail(s2c)
    /\ dl' = [path |-> Head(s2c).path, item |-> Head(s2c).act.item]
    /\ c2s' = Append(c2s, Plain("READY"))
    /\ cpc' = "file"
    /\ UNCHANGED <<sdisk, shared, scan, stateFile, server, cdisk, cache, items, temp,
                   link, nextVer, faults, ghosts>>

\* Mistake: the checksum of the body is not verified.
CliFileUnchecked ==
    /\ CliGets("file", "FILE")
    /\ LET f == Head(s2c).file
       IN  /\ f.size >= dl.item.size
           /\ \E x \in Received(f, dl.item.size) :
                temp' = [data |-> x, size |-> dl.item.size, dos |-> dl.item.dos]
           /\ s2c' = Leftover(f, dl.item.size) \o Tail(s2c)
    /\ cdisk' = [cdisk EXCEPT ![dl.path] = None]
    /\ cpc' = "swap"
    /\ UNCHANGED <<sdisk, shared, scan, stateFile, server, cache, items, dl, link, c2s,
                   nextVer, faults, ghosts>>

\* The body is complete (a shorter one leaves proto_read_exact waiting) and
\* its checksum is right or not asked for: the target is deleted.
CliFile ==
    /\ CliGets("file", "FILE")
    /\ LET f == Head(s2c).file
       IN  /\ f.size >= dl.item.size
           /\ \E x \in Received(f, dl.item.size) :
                /\ CrcDisabled \/ CrcOf[x] = dl.item.crc
                /\ temp' = [data |-> x, size |-> dl.item.size, dos |-> dl.item.dos]
           /\ s2c' = Leftover(f, dl.item.size) \o Tail(s2c)
    /\ cdisk' = [cdisk EXCEPT ![dl.path] = None]
    /\ cpc' = "swap"
    /\ UNCHANGED <<sdisk, shared, scan, stateFile, server, cache, items, dl, link, c2s,
                   nextVer, faults, ghosts>>

\* "Download-CRC stimmt nicht"
CliFileRefused ==
    /\ CliGets("file", "FILE")
    /\ LET f == Head(s2c).file
       IN  /\ f.size >= dl.item.size
           /\ \E x \in Received(f, dl.item.size) : ~CrcDisabled /\ CrcOf[x] # dl.item.crc
    /\ s2c' = Tail(s2c)
    /\ CliQuit
    /\ UNCHANGED <<sdisk, shared, scan, stateFile, server, cdisk, cache, c2s, nextVer,
                   faults, ghosts>>

\* rename (or copy), time stamp, CRC cache, OK
CliSwap ==
    /\ cpc = "swap"
    /\ cdisk' = [cdisk EXCEPT ![dl.path] = temp]
    /\ heldC' = [heldC EXCEPT ![dl.path] = @ \union {temp.data}]
    /\ cache' = [cache EXCEPT ![dl.path] =
                    IF CrcDisabled THEN None ELSE dl.item]
    /\ c2s' = Append(c2s, Plain("OK"))
    /\ cpc' = "loop" /\ dl' = NoDl /\ temp' = None
    /\ UNCHANGED <<sdisk, shared, scan, stateFile, server, items, link, s2c, nextVer,
                   faults, heldS, fresh>>

\* The path is in the client's list (proto_find_item) and can be opened.
Uploadable(p) == items[p] # None /\ cdisk[p] # None

\* proto_send_upload: the file as it is now under the metadata of the scan
CliUpload ==
    /\ CliAction("upload")
    /\ LET p == Head(s2c).path
       IN  /\ Uploadable(p)
           /\ c2s' = Append(c2s, PutMsg(p, items[p], cdisk[p]))
    /\ s2c' = Tail(s2c)
    /\ cpc' = "upok"
    /\ UNCHANGED <<sdisk, shared, scan, stateFile, server, cdisk, cache, items, dl,
                   temp, link, nextVer, faults, ghosts>>

\* ... which is not in the list, or is gone since the scan
CliUploadGone ==
    /\ CliAction("upload")
    /\ ~Uploadable(Head(s2c).path)
    /\ s2c' = Tail(s2c)
    /\ CliQuit
    /\ UNCHANGED <<sdisk, shared, scan, stateFile, server, cdisk, cache, c2s, nextVer,
                   faults, ghosts>>

CliUploadOk ==
    /\ CliGets("upok", "OK")
    /\ s2c' = Tail(s2c)
    /\ cpc' = "loop"
    /\ UNCHANGED <<sdisk, shared, scan, stateFile, server, cdisk, cache, items, dl,
                   temp, link, c2s, nextVer, faults, ghosts>>

\* proto_delete_local_file, proto_forget_cached_crc, OK
CliDeleteLocal ==
    /\ CliAction("delete_local")
    /\ LET p == Head(s2c).path
       IN  /\ cdisk' = [cdisk EXCEPT ![p] = None]
           /\ cache' = [cache EXCEPT ![p] = None]
    /\ s2c' = Tail(s2c)
    /\ c2s' = Append(c2s, Plain("OK"))
    /\ UNCHANGED <<sdisk, shared, scan, stateFile, server, client, link, nextVer,
                   faults, ghosts>>

\* Remote deletions and conflicts are only logged and acknowledged.
CliNote ==
    /\ CliAction("delete_remote") \/ CliAction("conflict")
    /\ s2c' = Tail(s2c)
    /\ c2s' = Append(c2s, Plain("OK"))
    /\ UNCHANGED <<sdisk, shared, scan, stateFile, server, cdisk, cache, client, link,
                   nextVer, faults, ghosts>>

CliDone ==
    /\ CliGets("loop", "DONE")
    /\ s2c' = Tail(s2c)
    /\ CliQuit
    /\ UNCHANGED <<sdisk, shared, scan, stateFile, server, cdisk, cache, c2s, nextVer,
                   faults, ghosts>>

\* What the client reads at each place where it blocks in a read.
CliAwaited == [hello |-> {"HELLO"}, update |-> {"UPDATE"}, loop |-> {"ACTION", "DONE"},
               file  |-> {"FILE"}, upok |-> {"OK"}]

\* "Unerwartete Server-Antwort" and the like
CliUnexpected ==
    /\ cpc \in DOMAIN CliAwaited
    /\ s2c # <<>>
    /\ Head(s2c).type \notin CliAwaited[cpc]
    /\ CliQuit
    /\ UNCHANGED <<sdisk, shared, scan, stateFile, server, cdisk, cache, s2c, c2s,
                   nextVer, faults, ghosts>>

\* The server has closed the connection, or sending has failed.
CliHangup ==
    /\ link # "up"
    /\ cpc \in DOMAIN CliAwaited
    /\ CliQuit
    /\ UNCHANGED <<sdisk, shared, scan, stateFile, server, cdisk, cache, s2c, c2s,
                   nextVer, faults, ghosts>>

\* A file that cannot be written, deleted or renamed ends the session; in
\* "swap" the target is already deleted and the temporary file is removed.
CliError ==
    /\ cpc # "idle"
    /\ Fault
    /\ CliQuit
    /\ UNCHANGED <<sdisk, shared, scan, stateFile, server, cdisk, cache, s2c, c2s,
                   nextVer, ghosts>>

\* Windows ends with the client in it, or the PC is switched off: the CRC
\* cache is lost too.
CliCrash ==
    /\ Fault
    /\ CliReturn /\ link' \in LinkLost
    /\ cache' = NoManifest
    /\ UNCHANGED <<sdisk, shared, scan, stateFile, server, cdisk, s2c, c2s, nextVer,
                   ghosts>>

-----------------------------------------------------------------------------
(* The network and the users.                                              *)

ConnectionLost ==
    /\ Fault
    /\ link' \in LinkLost \ {link}
    /\ UNCHANGED <<sdisk, shared, scan, stateFile, server, cdisk, cache, client, s2c,
                   c2s, nextVer, ghosts>>

NewFile == [data |-> nextVer, size |-> SizeOf[nextVer], dos |-> StampOf[nextVer]]

\* A user saves or deletes a file; each edit spends one of MaxVersion.
UserEdit == nextVer <= MaxVersion /\ nextVer' = nextVer + 1 /\ fresh' = FALSE

UserWritesServer(p) ==
    /\ UserEdit
    /\ sdisk' = [sdisk EXCEPT ![p] = NewFile]
    /\ heldS' = [heldS EXCEPT ![p] = @ \union {nextVer}]
    /\ UNCHANGED <<shared, scan, stateFile, server, cdisk, cache, client, wire, faults,
                   heldC>>

UserDeletesServer(p) ==
    /\ UserEdit
    /\ sdisk[p] # None
    /\ sdisk' = [sdisk EXCEPT ![p] = None]
    /\ UNCHANGED <<shared, scan, stateFile, server, cdisk, cache, client, wire, faults,
                   heldS, heldC>>

UserWritesClient(p) ==
    /\ UserEdit
    /\ cdisk' = [cdisk EXCEPT ![p] = NewFile]
    /\ heldC' = [heldC EXCEPT ![p] = @ \union {nextVer}]
    /\ UNCHANGED <<sdisk, shared, scan, stateFile, server, cache, client, wire, faults,
                   heldS>>

UserDeletesClient(p) ==
    /\ UserEdit
    /\ cdisk[p] # None
    /\ cdisk' = [cdisk EXCEPT ![p] = None]
    /\ UNCHANGED <<sdisk, shared, scan, stateFile, server, cache, client, wire, faults,
                   heldS, heldC>>

-----------------------------------------------------------------------------
SrvStep ==
    \/ SrvHello \/ SrvUpdateCheck \/ SrvManifest \/ SrvLoad \/ SrvPublish
    \/ \E p \in Path : SrvAnnounce(p) \/ SrvDeleteRemote(p)
    \/ SrvSendFile \/ SrvFileGone \/ SrvOk \/ SrvPut \/ SrvPutRefused
    \/ SrvReplace \/ SrvTruncate \/ SrvSave
    \/ SrvUnexpected \/ SrvHangup

CliStep ==
    \/ CliHello \/ CliScan \/ CliScanFails \/ CliDownload \/ CliFile \/ CliFileRefused
    \/ CliSwap \/ CliUpload \/ CliUploadGone \/ CliUploadOk \/ CliDeleteLocal
    \/ CliNote \/ CliDone \/ CliUnexpected \/ CliHangup

FaultStep ==
    \/ SrvError \/ SrvCrash \/ ScanError \/ CliError \/ CliCrash \/ ConnectionLost

UserStep ==
    \E p \in Path : \/ UserWritesServer(p) \/ UserDeletesServer(p)
                    \/ UserWritesClient(p) \/ UserDeletesClient(p)

Next == Connect \/ SrvStep \/ ScanTree \/ ScanPublish \/ CliStep \/ FaultStep \/ UserStep

Spec == Init /\ [][Next]_vars


-----------------------------------------------------------------------------
(* Fairness.  Both processes run; the client's timer fires again and       *)
(* again; the scanner keeps scanning.  A manifest published between a      *)
(* session's read of the cache and its replace_server_manifest is          *)
(* overwritten.  The scanner sleeps a fixed time AFTER each scan and the   *)
(* client polls by a timer of its own, so the two periods drift: scans do  *)
(* not begin, nor end, inside that window every single time.               *)
(*                                                                         *)
(* No read has a timeout: on a silent line it need not return, not even    *)
(* with an error, and what is sent need not arrive.                        *)

InWindow == spc \notin {"idle", "hello", "check", "manifest", "load"}

SrvCutOff == link = "silent" /\ spc \in DOMAIN SrvAwaited
CliCutOff == link = "silent" /\ cpc \in DOMAIN CliAwaited

Fairness ==
    /\ WF_vars(Connect)
    /\ WF_vars(SrvStep /\ ~SrvCutOff)
    /\ WF_vars(CliStep /\ ~CliCutOff)
    /\ SF_vars(ScanTree /\ ~InWindow)
    /\ SF_vars(ScanPublish /\ ~InWindow)

FairSpec == Spec /\ Fairness

-----------------------------------------------------------------------------
(* Types.                                                                  *)

Manifest == [Path -> Item \union {None}]
Action   == [kind : {"download", "upload"}, item : Item]
              \union [kind : {"none", "delete_local", "delete_remote", "conflict"},
                      item : {None}]
Entry    == [server : Item, client : Item]
Message  ==
    [type : {"HELLO", "UPDATECHECK", "UPDATE", "READY", "OK", "JUNK"}]
      \union [type : {"ACTION"}, path : Path, act : Action]
      \union [type : {"FILE"}, file : File]
      \union [type : {"PUT"}, path : Path, item : Item, file : File]
      \union [type : {"MANIFEST"}, items : Manifest]
      \union [type : {"DONE"}, conflicts : Nat]

SrvPc == {"idle", "hello", "check", "manifest", "load", "publish", "next", "ready",
          "put", "ok", "truncate", "save"}
CliPc == {"idle", "hello", "update", "loop", "file", "swap", "upok"}

\* Every variable holds a value of its type, and the locals of the two
\* protocol machines exist where their code uses them.
TypeInv ==
    /\ sdisk \in [Path -> File \union {None}]
    /\ cdisk \in [Path -> File \union {None}]
    /\ shared \in Manifest \union {None}
    /\ scan \in Manifest \union {Idle}
    /\ stateFile \in [Path -> Entry \union {None}] \union {Torn}
    /\ spc \in SrvPc
    /\ sm \in Manifest /\ cm \in Manifest
    /\ acts \in [Path -> Action]
    /\ todo \in SUBSET Path
    /\ cur \in Path \union {None}
    /\ spc \in {"ready", "put", "ok"} => cur \in Path
    /\ spc = "put" => acts[cur].kind = "upload"
    /\ cache \in Manifest
    /\ cpc \in CliPc
    /\ items \in Manifest
    /\ dl \in [path : Path \union {None}, item : Item \union {None}]
    /\ temp \in File \union {None}
    /\ cpc \in {"file", "swap"} => dl.path \in Path /\ dl.item \in Item
    /\ cpc = "swap" => temp \in File
    /\ link \in {"up", "down", "silent"}
    /\ s2c \in Seq(Message) /\ c2s \in Seq(Message)
    /\ nextVer \in 1..(MaxVersion + 1)
    /\ faults \in 0..MaxFaults
    /\ heldS \in [Path -> SUBSET Content]
    /\ heldC \in [Path -> SUBSET Content]
    /\ fresh \in BOOLEAN

-----------------------------------------------------------------------------
(* Safety.                                                                 *)

Same(p) == \/ sdisk[p] = None /\ cdisk[p] = None
           \/ sdisk[p] # None /\ cdisk[p] # None /\ sdisk[p].data = cdisk[p].data

\* A recorded entry names only contents that have been on both sides: the
\* state file never claims as synchronised what one side has not had, even
\* across crashes, failed transfers and edits during the session.
StateAgreement ==
    stateFile # Torn =>
        \A p \in Path : stateFile[p] # None =>
            \A x \in Content :
                Lists(stateFile[p].server, x) \/ Lists(stateFile[p].client, x)
                    => x \in heldS[p] /\ x \in heldC[p]

\* A session never replaces or deletes a content that its own manifests list
\* unless the other side has had it: what the merge saw, it does not lose.
NoSeenContentLost ==
    [][nextVer' = nextVer =>
         \A p \in Path :
            /\ sdisk[p] # None /\ sdisk'[p] # sdisk[p] /\ Lists(sm[p], sdisk[p].data)
                 => sdisk[p].data \in heldC[p]
            /\ cdisk[p] # None /\ cdisk'[p] # cdisk[p] /\ Lists(items[p], cdisk[p].data)
                 => cdisk[p].data \in heldS[p]]_vars

\* When a session whose manifests were exact reports DONE, the trees differ
\* in exactly as many paths as it reports conflicts.
DoneMeansSynced ==
    \A i \in 1..Len(s2c) :
        s2c[i].type = "DONE" /\ fresh =>
            s2c[i].conflicts = Cardinality({p \in Path : ~Same(p)})

\* Neither side is ever sent a line it does not expect: the two machines
\* keep step through aborted sessions, crashes and reconnections.
NoSurprise ==
    /\ cpc \in DOMAIN CliAwaited /\ s2c # <<>> => Head(s2c).type \in CliAwaited[cpc]
    /\ spc \in DOMAIN SrvAwaited /\ c2s # <<>> => Head(c2s).type = SrvAwaited[spc]

\* Bidirectional sync "with conflict detection instead of silent overwriting"
\* (README): a session never replaces or deletes a file whose content the
\* other side has not had.
NoSilentOverwrite ==
    [][nextVer' = nextVer =>
         \A p \in Path :
            /\ sdisk[p] # None /\ sdisk'[p] # sdisk[p] => sdisk[p].data \in heldC[p]
            /\ cdisk[p] # None /\ cdisk'[p] # cdisk[p] => cdisk[p].data \in heldS[p]]_vars

-----------------------------------------------------------------------------
(* Liveness.                                                               *)

\* Every session of the server comes to an end, which frees sync_guard, but
\* for one that waits in a read on a line gone silent: this one wait without
\* a timeout is the only thing that can keep sync_guard.
SessionEnds == spc # "idle" ~> spc = "idle" \/ SrvCutOff

\* Once users and faults are done, the trees agree for good except in paths
\* where both hold a file, in conflict and without a state entry; unless one
\* side waits for ever on a silent line.
Settled(p) ==
    \/ Same(p)
    \/ sdisk[p] # None /\ cdisk[p] # None /\ LoadedState[p] = None

Convergence ==
    \/ <>[](\A p \in Path : Settled(p))
    \/ <>[](SrvCutOff \/ CliCutOff)

\* Once users and faults are done, sessions stop moving files: what was
\* transferred is recognised next time, with or without checksums.
Quiet == <>[](\A p \in Path : acts[p].kind \in {"none", "conflict"})

=============================================================================
