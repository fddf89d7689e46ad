# Win16Sync in TLA+

A verification project for Win16Sync, a bidirectional file sync between a Win16
client (`src/client`, C) and a Linux server (`src/server`, Rust). It contains TLA+
modules that model the program, TLC configurations that check them on small
instances, and proofs that TLAPS checks for all values of the constants.
`PROJECT.json` lists the runs, the mutants that every property is tested with,
the source lines behind every definition, the hazards and the theorems.

## 1. The system

| component | source | state | operations |
|---|---|---|---|
| three-way merge | `main.rs` 658-830, 1796-1850 | none (pure) | `build_sync_actions`, `apply_actions_to_client_manifest`, `build_state_after_sync`, `same_*` |
| sync thread | `main.rs` 344-368, 411-600, 606-656, 832-967 | its locals, `sync_guard`, the server's tree | greeting, update check, manifest, one exchange per action, save, DONE |
| scanner and manifest cache | `main.rs` 261-290, 370-409, 969-1048 | `server_manifest`, `server_manifest_root`, `runtime` | periodic scan, publish, lookup, replace |
| state file | `main.rs` 70-83, 1060-1071, 1110-1117 | one JSON file | load (a broken file counts as empty), save (truncate, then write) |
| client sync engine | `proto.c` 1104-1532, 1682-1971 | file list, temporary file, the client's tree | scan, manifest, download, upload, deletions, conflicts |
| client CRC cache | `proto.c` 989-1102 | at most 128 entries | lookup, remember, forget, expiry |
| transport | `proto.c` 553-761, `main.rs` 1413-1501 | socket, `recv_buffer` | lines and file bodies over one TCP connection |
| names and paths | `proto.c` 168-375, `main.rs` 1622-1713 | none | 8.3 rules, case folding, joining |
| DOS time, CRC-32, hex | `main.rs` 1503-1620, 1852-1903; `proto.c` 873-987 | none (pure) | conversions |
| self-update | `proto.c` 1534-1672, `main.c` 420-560, `main.rs` 1073-1108, 1451-1467 | update slot, W16NEW.EXE, W16UPD.INI | offer, transfer, helper process |
| client window and timer | `main.c` | `g_app`, `sync_running` | dialog, WM_TIMER, settings |
| web interface, configuration | `main.rs` 174-213, 1119-1411 | `config`, `runtime` | status page, saving the form |
| installer | `setup.c` | none that lasts | extract the client, register it with the program manager |

How they interact. The client's timer or its button calls `proto_sync_directory`,
which connects and blocks in reads until the session is over. The server starts
a thread per connection; `sync_guard` lets one of them work at a time. Client and
thread then alternate strictly: HELLO, UPDATECHECK, MANIFEST, and for each planned
action one exchange (download: READY, body, OK; upload: PUT with body, OK;
deletions and conflicts: OK), at last DONE. The thread plans from three inputs:
the state file (what the last *complete* session recorded), the client's manifest,
and the server's manifest, which is not read from the tree but taken from a cache
that a scanner thread refreshes every 60 seconds and that every finished session
overwrites. The CRC cache of the client plays the same role on its side, keyed by
size and time stamp. Users change files on both sides at any moment; either
program or the connection can die at any moment.

What is hard here:

- *Stale knowledge.* Every decision rests on a manifest that may be older than
  the tree: the server's cache, the client's cached checksums, a file opened long
  after it was listed.
- *Overlap* of the scanner with a session: a scan that began before the session
  may be published after it, and the other way round.
- *Partial sessions.* Actions change the trees one by one, the state file only at
  the end. A crash, an error or a lost connection falls between any two of them,
  also between deleting a download's target and renaming the new file, and between
  truncating the state file and writing it.
- *Two machines in lockstep* without sequence numbers: an answer too many or too
  few would be taken for the answer to another action.
- *Blocking* reads without timeouts under a global lock.
- *Names* mean different things on the two disks: case, extensions of
  directories, a file here where a directory is there, folders that are changed.
- *Bytes*: lines and bodies share one buffer and arrive cut at any place.
- *Re-entrancy*: blocking calls dispatch messages, so that the window's handlers
  run inside sessions; on the server, forms and scans run beside them.
- *A program that replaces itself* through a helper, two files and a restart.
- *Checksums are optional.* With "CRC off" a revision is known by size and stamp.

What makes each component right: the merge must not lose an edit it can see and
must plan an action that its own record will not undo; the session must carry out
what it planned on the file it planned it for, and record only what both sides
have; the scanner must eventually make every edit visible; sessions must end;
the trees must agree once everybody leaves them alone. The transport must deliver
whole messages however TCP cuts them; the caches must not hide an edit for longer
than they say; an update must leave a program that works; settings must take
effect in the next session and not in the running one; the two implementations
of every conversion must agree.

## 2. The modules

| module | what it is |
|---|---|
| `SyncDecision` | the merge, as operators on the three values of one path |
| `SyncSession` | client, sync thread, scanner, cache, state file, connection, users and faults; the core |
| `SyncSessionInvariants` | the inductive invariants behind its safety properties |
| `FileSync`, `SyncSessionRefinement` | what the users are promised, and the mapping under which `SyncSession` implements it |
| `Transport`, `MessageStream` | the client's end of a connection byte by byte, and the message stream it implements |
| `NameSync` | trees with names: case, directories, read-only files, changes of folders; it uses the merge of `SyncDecision` and the rules of `NameRules` |
| `SelfUpdate` | slot, download, helper process, restart |
| `AppShell` | window, timer, settings, WIN.INI |
| `ServerConfig` | web form, configuration file, scanner and sessions around `SharedInner` |
| `CrcCache` | the client's CRC cache with its order, limit and ages |
| `NameRules`, `ProtoText`, `Crc32`, `DosTime` | pure conversions of both sides |
| `MCSyncSession`, `MCTransport`, `MCNameSync`, `MCSelfUpdate`, `MCCrcCache`, `MCConversions` | instances for TLC |
| `MCSettings` | `AppShell` and `ServerConfig` side by side, for one run |
| `Conversions` | feeds the four with ever longer inputs and states what must hold of what they give |
| `SyncSessionProofs` | proofs about `SyncSession`, and that it implements `FileSync` |
| `NameSyncProofs`, `ConversionsProofs` | proofs about `NameSync` and `Conversions` |
| `TransportProofs`, `SelfUpdateProofs`, `CacheProofs` | proofs about `Transport`, `SelfUpdate` and `CrcCache` |
| `SettingsProofs` | proofs about `AppShell` and `ServerConfig` |
| `Iteration` | lemmas on loops: least numbers, induction up to a bound, the trace of a loop |

How they fit together. `SyncSession` builds on two streams of whole messages;
`Transport` shows that the bytes provide them. It builds on a CRC cache whose
entries may expire at any moment and that forgets only with the process;
`CrcCache` shows what the real one, bounded and aged, may return. It takes names
as values that both sides list; `NameSync` shows what happens when they do not,
with sessions that run without interruption. `SyncSession` implements `FileSync`.

Operators and actions carry the names of the functions they translate wherever
there is one function. Operators whose comment begins with "Mistake" are not
part of a model: they are wrong variants that show which property notices them.

**SyncDecision.** The functions of the code loop over the union of three key
sets and never look at two paths together; an operator takes the three values of
one path, `None` for a missing entry.

**SyncSession.** State and code:

| variable | code |
|---|---|
| `sdisk`, `cdisk` | the two trees: content, size and DOS stamp per path |
| `shared`, `scan` | `SharedInner.server_manifest`; the manifest a scan has computed and not yet published |
| `stateFile` | the state file; `Torn` between truncation and write |
| `spc`, `sm`, `cm`, `acts`, `todo`, `cur` | `handle_sync_client`: where it blocks, `server_manifest`, `client_manifest`, `actions`, the loop |
| `cpc`, `items`, `dl`, `temp` | `proto_sync_directory`: where it blocks, its list, the download in progress, SYNC.$$$ |
| `cache` | `ProtoClient.cache_items` |
| `link`, `s2c`, `c2s` | the connection and its two streams |
| `heldS`, `heldC`, `fresh` | history, read by properties only |

An action covers a handler from one blocking read to the next, with every change
it makes. It is split where another thread, a user or a crash could see the
difference: `SrvLoad`/`SrvPublish` (a scan by the thread itself), `ScanTree`/
`ScanPublish`, `CliFile`/`CliSwap` (target deleted, not yet replaced),
`SrvReplace`/`SrvTruncate`/`SrvSave`. Every early return ends in `SrvQuit` or
`CliQuit`. Contents are versions: each edit of a user is a new number, and the
constants `SizeOf`, `CrcOf` and `StampOf` say how it looks to the code, so that a
configuration chooses which edits are hard to tell apart. A body is sent as the
file that was read; `Received` says what a reader makes of the announced number
of bytes of it, and `JUNK` stands for what stays in the stream when the file was
longer. A file shorter than announced leaves the reader waiting, as in the code.

Faults are I/O errors and crashes on either side, a failed scan and a lost
connection. Each of them can strike in any state; `MaxFaults` bounds how many.
A side that crashes, or the line between the two, may be gone with a word to the
other side (`link` is `"down"`: its reads fail once the stream is empty) or without one
(`"silent"`: a machine switched off, a connection dropped on its way; a read goes on
waiting, an error of the socket may still come). What is sent on a silent line may
arrive or not.
`MaxVersion` bounds edits and deletions.

Abstractions: one client; one manifest line per file is one message; a scan reads
the tree at one instant; a connection is made when the previous thread has
released `sync_guard` (a client that connects earlier waits for HELLO until then);
an expired CRC entry is a nondeterministic choice; the body of an upload is
stored in the step that has read all of it. Files are never empty: for a file of
no bytes a header alone is a complete body, which the model does not represent.
When a download cannot be renamed, the copy that replaces the rename is taken
as one step.

**FileSync.** Two trees, what each has ever held, and what the running session
lists. A side receives a content only from the other one's past, and what is
listed is replaced or removed only if the other side has had it. The mapping
hides protocol, plan, state file, caches, temporary files and faults; the session's
listings are the server's `server_manifest` and the client's `items`.

**Transport.** A script is what one session makes the two sides say: lines and
bodies in order. `toClient`, `toServer` are the bytes under way, `buf` is
`recv_buffer`, `target` what `proto_read_exact` has copied, `put` what `send` has
taken of the current message. `recv` and `send` move any non-empty prefix.
`ReadLine`, `LineTooLong`, `RecvLine`, `BufferFull` are the four ways through the
loop of `proto_read_line`; `DrainBuffer`, `RecvBody`, `ReadExact` those through
`proto_read_exact`. The server's `BufReader` is modelled by what it returns.

**NameSync.** `srv` and `cli` hold, per folder, a tree: files by name, directories,
read-only files. `scan_server_tree` folds case, and of two names with one path takes
the later in the order of bytes, as the map of the code does; `scan_directory`
lists what `proto_is_valid_component` accepts. A session computes its plan in one
step and carries it out one path after the other (`receive_download`,
`receive_upload`, `delete_server_path`, `delete_local`; `Turn` passes the paths that
are left alone), breaking off where a directory is in the way; `Finish` writes the
state file. Users act between sessions. `Switch` changes the folder of a side and
leaves the state file as it is. `replaced`, `moves` and `broke` are history: what
users have taken away and, since the state file was written, how often a folder
was changed and whether a session has broken off.

**SelfUpdate.** Programs are version numbers; `label` and `slot` are VERSION.TXT and
the binary, which the operator replaces one after the other, each by a rename.
`pc` is where each client instance is, `helper` the process started from
W16NEW.EXE, `data` the program in its memory, `exe`/`new`/`ini` the files on the client's disk.
`share` says whether SHARE.EXE is loaded. Programs in `Big` are 64 KiB or longer,
so that a 16-bit size cuts them. Faults: a lost connection, a program that cannot
be started, a write that fails, a crash at any moment.

**AppShell.** `controls` is what the window shows, `app` the settings in `g_app`,
`ini`, `run`, `load` what is on the disk, `active` the activations of
`app_run_sync`, which can be more than none when a handler runs, because
Winsock's blocking calls dispatch messages. `Save` and `Exit` are possible inside
a session; `TimerSync` and `ManualSync` test `sync_running`. `SaveFails` returns
at the first key that cannot be written. An entry of a line of WIN.INI is a name with
its number of characters; `Size` counts as `strlen` does, so that
`GetProfileString` cuts what the buffer of `LineCapacity` bytes does not hold (the
entry at the cut is another entry then) and `app_append_token` leaves out what has
no room. It appends the space and the token in two steps; `Gap` is a space whose
token had no room any more.

**ServerConfig.** Forms, sessions and the scanner are threads; an action is one
critical section of the mutex, or one system call on the configuration file.
`guard` is `sync_guard`. A manifest is known only by its folder.

**CrcCache.** `cache_items` in its order; time is a counter modulo `Wrap`; a stamp
stands for size and DOS time together, and a hidden edit leaves it as it was.

**Conversions** is about one of its subjects in each behaviour: a name that grows
character by character, a path, two versions, the bytes of a file that may be
damaged on its way, and the calendar.

## 3. Properties

| property | run | says |
|---|---|---|
| `TypeInv` | safety | types of all variables, and that the locals of both machines exist where they are used |
| `StateAgreement` | safety | a recorded entry names only contents that have been on both sides |
| `NoSeenContentLost` | safety | no step of a session replaces or deletes a content its own manifests list unless the other side has had it |
| `DoneMeansSynced` | safety, twopaths | when a session that merged exact manifests reports DONE, the trees differ in exactly the conflicts it reports |
| `NoSurprise` | safety | neither side ever finds a line it does not expect at the head of its stream |
| `Lockstep`, `Agreement` | twopaths | two of the inductive invariants, section 6 |
| `KeepsPromise` | twopaths | `SyncSession` implements `FileSync` |
| `SessionEnds` | liveness, crcoff | every session of the server ends, which frees `sync_guard`, or waits on a silent line |
| `Convergence` | liveness | once users and faults are done, trees agree for good except in conflicts, or a side waits on a silent line for ever |
| `Quiet` | crcoff | once users and faults are done, sessions stop moving files |
| `TypeInv`, `Conserved` | transport | no buffer overruns; bytes read, buffered and under way are the bytes sent, in order |
| `DeliversMessages` | transport | `Transport` implements `MessageStream`: whole messages, in order, once |
| `BreaksForCause` | transport | a session breaks only for a lost connection or a line that is too long |
| `SessionEnds` | transport | no read waits for bytes that it holds or has no room for |
| `OnlyUsersReplace` | names | until a folder is changed, sessions replace or delete only where a user has replaced or deleted a copy |
| `NoRollback` | names | until a folder is changed, no session puts an older content in the place of a newer one |
| `LastCopy` | names | sessions alone never destroy the last copy of a content, also after changes of folders, unless one has broken off between two changes |
| `Settles` | names | trees come to agree unless a directory is in a file's way |
| `CopyLeft` | selfupdate | with one fault at most a whole program is left on the disk |
| `TornForCause` | selfupdate | no change of the slot during an update installs a torn program |
| `OneSyncs` | selfupdate | without faults at most one client synchronises |
| `SyncsAgain` | selfupdate | updates come to an end and sessions go on |
| `FolderStays` | settings | a session keeps the folder it began with unless the settings are saved |
| `KeptEverywhere`, `OthersKept` | settings | timer, INI file and WIN.INI follow the settings last saved, as far as there is room; foreign entries stay in lines that fit the buffer |
| `KeepsSyncing` | settings | an open window starts sessions again and again |
| `PlanFromOwnTree` | settings | a session merges a listing of its own folder only |
| `FileIsMemory` | settings | with one form at a time the file holds the configuration in use |
| `ScansTell`, `Warms` | crccache | a listed checksum is the file's, or out of date for a bounded time; an unchanged tree is read only a bounded number of times, without crc_recheck over any time |
| `NamesAgree`, `PlacesHold` | conversions | both sides' rules are 8.3; a path has one place, is refused when too long, and its temporary file is in its directory |
| `PathsTravel` | conversions | paths arrive whole or are refused, in both directions |
| `VersionsOrdered` | conversions | versions compare number by number, and antisymmetrically for any text |
| `TellsDamage` | conversions | both CRCs agree, and tell any damage of up to four consecutive bytes |
| `StampsTrue` | conversions | stamps survive the server's disk on every day DOS has; times become the stamp below |
| `NoSilentOverwrite` | overwrite | the README's promise; violated, see section 4 |

Each property of a passing run is tested with a mutant, a plausible mistake in
the code under which the same run finds a violation (`PROJECT.json`, "mutants").

## 4. Runs and bounds

| run | instance | distinct states |
|---|---|---|
| `safety` | 1 path, 4 edits, 1 fault; equal sizes, distinct stamps | 3 159 530 |
| `twopaths` | 2 paths, 3 edits; two sizes, one stamp, expiring cache entries | 274 692 |
| `liveness` | 1 path, 3 edits, 1 fault, fairness | 473 188 |
| `crcoff` | CRC off, 2 paths, 3 edits, room for 1 file, fairness | 278 236 |
| `transport` | 7 scripts, a buffer of 5 bytes, lines of 2, 2 bytes per `recv`, 3 sessions | 1 489 |
| `names` | 2 folders on each side, a path that is file or directory, a file in it, a name only the client's users use, 3 files written, 1 change of folder | 358 750 |
| `selfupdate` | 4 programs, 2 instances, 2 faults, fairness | 48 019 |
| `settings` | 2 folders, 3 edits, 3 intervals, 4 lines of WIN.INI for a buffer of 12 bytes; 1 form, 2 sessions | 160 720 |
| `crccache` | 3 names, room for 2, a counter that wraps at 3, 3 edits, 1 hidden edit | 2 255 298 up to symmetry |
| `conversions` | names and paths to 6 characters, versions of 5 numbers and dots, 5 bytes, days to 2108 | 978 066 |
| `overwrite` | 1 path, 3 edits, no fault; expected to fail | |
| `case` | a lower-case name on the server; expected to fail | |

Why the bounds are enough.

- *Sessions.* The code treats paths independently but for the order of the actions
  in one session, so one path shows the merge and two show a session that is
  overtaken or broken off between two actions. A lost update needs one edit that
  is synchronised, one edit on each side after it, and one deletion or further
  edit: four. One fault at every place of every session covers each half-done
  operation followed by a recovery. Equal sizes with distinct checksums are the
  hardest case for the merge with checksums; two sizes under one stamp are the
  hardest for the CRC cache and for bodies that differ from their header, and
  sessions then break in the middle without any fault. `crcoff` has more paths
  than the client can list, so that scans fail (`proto_add_file_item`) until a
  user deletes a file.
- *Transport.* The scripts contain a body that begins with a newline and one that
  contains a whole line, an empty line and body, a line that fits the buffer but
  not the caller and one that does not fit the buffer; with a buffer of 5 every
  cut of each happens. Each session starts with whatever the one before it has left.
- *Names.* One path that is a file on one side and a directory on the other, and
  one name that only one side lists, are the cases of the rules; three files give
  an old, a new and a conflicting content; two folders on each side are what a
  change of folder needs. A second change only adds what `LastCopy` excludes and
  what the proof covers.
- *SelfUpdate.* Versions 1 to 4 give an update during an update, and a last one of
  64 KiB; two instances are an old and a new client; the second fault strikes the
  recovery from the first.
- *Settings.* Three edits reach every setting and back; 70 seconds is an interval
  whose product with 1000 wraps. The lines of WIN.INI are empty, have the program
  between two switches, leave one byte of the buffer free, or are cut in the middle of
  their last entry. Two sessions are a broken one that the server
  has not noticed and its successor.
- *CrcCache.* One name more than there is room lets entries of files that are gone
  push out others; the counter wraps after three ticks and entries expire after one.
- *Conversions.* The limits are constants (8.3 is 2.1, a path has room for 13 and the
  wire for 3 bytes), so that inputs lie on both sides of every one. The calendar covers every day
  to the end of 2107 and every second of 1 January 1980; a byte can be any in the first
  position, and CRCs are linear, so that later bytes add nothing but positions.
  Damage begins at any byte, the first included.

Two runs bundle parts that share nothing, with a variable that selects the part
for each behaviour (`side` in `MCSettings`, `subject` in `Conversions`).

`CHECK_DEADLOCK FALSE` is set where a model stops because its bound is reached:
in `transport` after the last session, in `names` after the last edit, in
`selfupdate` when the program is destroyed for good, in `conversions` at the
longest input.

**What the two failing runs document.** `README.md:10` promises
"Konflikterkennung statt stiller Ueberschreibung".

- `overwrite`: a session merges with the manifest in the cache
  (`current_server_manifest`, `main.rs:398-409`). A server edit made after the last
  scan is not in it: if the client has changed the same file, the upload replaces
  the edit; if the client has deleted it, the server deletes the edit. No conflict
  is reported. `NoSeenContentLost` is what the code does guarantee: a content that
  is in one of its manifests is never lost that way.
- `case`: the server lists `d` as `D`. An upload of `D` creates a second file beside
  it; the next scan finds both, and the lower-case one, later in the order of
  bytes, replaces the entry (`main.rs:1042`). It looks like a change on the server,
  and a download overwrites the client's newer edit with the older content.

**Limits of the code met while modelling, which no run shows.**

- `main.c:566`: the interval times 1000 is cast to 16 bits. 70 seconds become a
  timer of 4464 ms (`AppShell!Period`).
- `main.rs:358`: an error returned with `?` passes `set_sync_finished` and
  `set_sync_error` by; the status page shows neither the end nor the error.
- `main.rs:373`, `main.rs:402`: with `scan_interval_seconds` 0 ("0 = aus",
  `main.rs:1236`) the first session's manifest is used until the server restarts, and
  later edits on the server never reach the client (`Convergence` fails with
  `ScanEnabled = FALSE`).
- `main.rs:1649` and `proto.c:339-342`: the server lists directories with an extension,
  the client does not; a file the client has there is overwritten by a download.
- With a lower-case and a capital name on the server at once, `LastCopy` fails too.
- `main.rs:71`: the state file does not say which folders it is about. Two changes of a
  folder with a broken session between them lose files that no user has touched.
  B is the same on both sides. The server is pointed at a folder that has a directory D
  with a file in it, while the client has a file D. The next session deletes B on
  the client, because it is gone on the server, and breaks off at D; the state file
  still has B. The server is pointed back; now B is gone on the client, and the
  session deletes it on the server. This is the case `LastCopy` leaves out.
- Neither side has a read timeout: a file that has shrunk since it was listed leaves
  both waiting, with `sync_guard` held, until the connection ends. `SessionEnds`
  is therefore checked with files of one size.
- Nor is there a keepalive (`main.rs:344-362`, `main.rs:1469-1501`): when the client's machine is
  switched off, or the connection is dropped on its way without a word, the thread waits
  in a read with `sync_guard` held. Unless TCP has something to send again in vain, it
  waits for ever, and no later client gets a session until the server is restarted. `SessionEnds` and `Convergence` name this wait as the one
  exception (`SrvCutOff`, `CliCutOff`).
- `main.c:343-382`: the lines `run=` and `load=` are read into 512 bytes and written back from
  there. From a line that does not fit, the entries behind the 511th character, those
  of other programs too, are gone after any save, and the one at the cut is cut off; if
  there is no room for the program itself it does not start with Windows. Neither is
  reported. `OthersKept` holds for lines that leave a byte free.

## 5. Fairness

*SyncSession.* `WF(Connect)`: the client's timer fires again and again.
`WF(SrvStep /\ ~SrvCutOff)`, `WF(CliStep /\ ~CliCutOff)`: both processes run; a read that can
return does, be it with the error of a line that is down. Nothing is assumed of a
read on a silent line: no socket of a session has a timeout or a keepalive, so it may
wait for ever. For the scanner
weak fairness is not enough: its result is overwritten by every session that
began before it was published. The scanner sleeps a fixed time after each scan
(`main.rs:383`) while the client polls by a timer of its own, so the two periods
drift against each other, and `SF(ScanTree /\ ~InWindow)` and
`SF(ScanPublish /\ ~InWindow)` say that scans do not begin, nor end, inside that window every
time. Users and faults have no fairness; their bounds make them stop.

*Transport.* Weak fairness of the client's and of the server's steps: both programs
run, and TCP delivers what it has. Losing the connection has none, but a lost
connection is noticed: `SessionEnds` is here about buffers, and about silent lines in
`SyncSession`.

*NameSync.* Weak fairness of `Session`: the client's timer, and sessions that go on.

*SelfUpdate.* Weak fairness of each client's steps and of the helper's (Windows
gives every program its turn), and of a user who starts the client when none runs.

*AppShell.* Weak fairness of `TimerSync` (WM_TIMER is delivered as long as the window
is open) and of `SyncReturns` (`SessionEnds` of `Transport`, on which it rests: it
presumes that no session waits on a silent line or for the rest of a shrunk file).

## 6. Proofs

TLAPS proves, for all values of the constants that satisfy the named assumptions
(types, and that the special values are no items):

| theorem | states | assumes besides |
|---|---|---|
| `TypeCorrect` | `Spec => []TypeInv` (SyncSession) | - |
| `LockstepInvariant` | `Spec => []Lockstep` | - |
| `ConversationInvariant` | `Spec => []Conversation` | - |
| `OnlyJunk` | `Spec => []OnlyJunkSurprises` | - |
| `KeepsStep` | `Spec => []NoSurprise` | `SameSizes` |
| `HeldInvariant` | `Spec => []Held` | checksums on, `CrcCollisionFree` |
| `AgreementInvariant` | `Spec => []Agreement` | checksums on, `CrcCollisionFree` |
| `StateAgreed` | `Spec => []StateAgreement` | checksums on, `CrcCollisionFree` |
| `SeenContentNotLost` | `Spec => NoSeenContentLost` | checksums on, `CrcCollisionFree` |
| `OfferedInvariant` | `Spec => []Offered` | checksums on, `CrcCollisionFree` |
| `PromiseKept` | `Spec => KeepsPromise` | checksums on, `CrcCollisionFree` |
| `DoneSynced` | `Spec => []DoneMeansSynced` | checksums on, `CrcCollisionFree` |
| `TransportTypes` | `Spec => []TypeInv` (Transport) | - |
| `TransportConserves` | `Spec => []Conserved` | - |
| `StreamsInStep` | `Spec => []StreamInvariant` | `LinesAssumption` |
| `Delivers` | `Spec => DeliversMessages` | `LinesAssumption` |
| `BreaksOnlyForCause` | `Spec => BreaksForCause` | `LinesAssumption` |
| `UpdateTypes` | `Spec => []TypeInv` (SelfUpdate) | - |
| `TornOnlyForCause` | `Spec => []TornForCause` | - |
| `OneClientSyncs` | `Spec => []OneSyncs` | - |
| `ProgramSurvives` | `Spec => []CopyLeft` | - |
| `OneSessionAtATime` | `Spec => []OneSession` | - |
| `FolderKept` | `Spec => []FolderStays` | - |
| `SettingsKept` | `Spec => []KeptEverywhere` | - |
| `OthersStay` | `Spec => OthersKept` | - |
| `MergesOwnTree` | `Web!Spec => []PlanFromOwnTree` | - |
| `FileFollowsMemory` | `Web!Spec => []FileIsMemory` | one form at a time |
| `NamesInvariant` | `Spec => []NamesInv` | `CommonNames` |
| `SessionsReplaceForCause` | `Spec => OnlyUsersReplace` | `CommonNames` |
| `NoSessionRollsBack` | `Spec => NoRollback` | `CommonNames` |
| `NoLastCopyLost` | `Spec => LastCopy` | `CommonNames` |
| `EveryNameJudged` | `Spec => []NamesAgree` (Conversions) | - |
| `FilesInTheirPlaces` | `Spec => []PlacesHold` | - |
| `PathsArriveWhole` | `Spec => []PathsTravel` | - |
| `UpdatesOneWay` | `Spec => []VersionsOrdered` | - |
| `ChecksumsTellDamage` | `Spec => []TellsDamage` | - |
| `StampsComeBack` | `Spec => []StampsTrue` | - |
| `ScansAreTrue` | `Spec => []ScansTell` | scans that list all files at most `Wrap - Recheck` ticks (49 days) apart |
| `CacheWarms` | `Spec => []Warms` | - |

So the safety of a session holds for any number of paths, edits and faults. The
two further assumptions are needed: the code compares checksums, so a collision
is a lost update; with "CRC off" a client manifest carries sizes and stamps only.
`SameSizes` is needed too: the rest of a body that was longer than announced is
taken for lines, and no receiver notices. Without it, `OnlyJunk` says that this
is the only way.

**The argument for SyncSession.** `StateAgreement` and `NoSeenContentLost` speak of
three places - the state file, a decision, a file about to be overwritten - that are
connected by messages and caches, so neither is inductive. What connects them:

- `Held`: a checksum that is listed anywhere (the server's cache, a scan not yet
  published, the client's CRC cache, a manifest in flight, the locals of a
  session) is that of a content its tree *has held*. That survives staleness: an
  old manifest still names contents that were there. It also says that a verified
  download is the announced content, whatever the server's file became meanwhile.
- `Lockstep`: at most one request or answer is between the two machines, and it
  belongs to the action the thread waits for. Without it an OK could confirm
  another action than the one carried out. It speaks only of a thread that is in
  a session: a client may go on reading what a dead session has left in its
  stream, and a new session does not begin before it has given up.
- `Agreement`: from the recorded entry (both sides have had what it names) the merge
  plans an overwrite of an unchanged file only, so the other side has had what is
  overwritten (`DecisionSafe`); the plan keeps that through announcement and
  execution (`OverwritesSafe`, `ClientSafe`); the thread believes a download done
  only after the OK, when the client has had the content (`Confirmed`); so what is
  recorded, both sides have had (`EntrySafe`, `RecordedHeld`).
- `Offered`: a download, as planned, as announced and as carried out, is of a
  content the server's tree has held. It is what the step that stores it must know
  to be a step of `FileSync`.
- `Conversation`: the two streams in full. `Dialogue` lists the fourteen pairs of
  places the two programs can be in together, with what is under way in each;
  `ClientSent` and `ServerSent` say what is left for one when the other has gone.
- `Derived`: all items anywhere were computed for a file that was anywhere, and all
  files were written by a user or announced by an item (`Closed` sets of both). If
  all versions have one size, so have all files and items, and no body leaves a
  rest (`NoJunk`): with `Conversation` that is `NoSurprise`.
- `Outcome`: as long as no user interferes, what is planned for a path determines
  what the trees hold there (`Planned`), and they are the same once the action has
  had its turn and its OK is on the way (`Served`, `Effective`); after DONE nothing
  changes a tree (`AfterDone`). That a path with no action is the same on both
  sides rests on what was recorded earlier being the same (`RecordedSame`).

`Held` is inductive with `TypeInv`, `Lockstep` and `Conversation` with `TypeInv`,
`Agreement` with `TypeInv`, `Held` and `Lockstep`, `Offered` with `TypeInv` and `Held`,
`Outcome` with all of them. `StateAgreement` follows from `RecordedHeld`, and
`NoSeenContentLost` from `OverwritesSafe` and `ClientSafe` at the five steps in which
a session changes a tree. `PromiseKept` takes these together: `Offered` says where
the moved content comes from, `NoSeenContentLost` that what it replaces is nobody's
loss, and every other step changes listings only. The runs check `Lockstep`,
`Agreement` and the refinement on a small instance (`twopaths`).

**Transport.** `TypeInv` is inductive. `Conserved` is, with it: each reader takes its
bytes from one end of the next place, so that the concatenation of what was
returned, copied, buffered and is under way never changes but by what is sent.

That the reads return *messages* needs the place of each side. `InStep`: each side is
at one message of the session, has got all that was for it before, and the bytes sent
to the client and returned to it are those of these messages. `HalfDone`: what
`proto_read_exact` has copied, or `send` has taken, is of the current message and no
more than it. `Upward`: what the server has read and what is under way to it is what
the client has sent, and the session's bytes go on there. Taking away what came
before (`Remainder`), what a reader has in front of it begins as its current message
does: the first newline is the end of the line (`LineNext`), as many bytes as a body
has are the body (`WholeFront`). So every read is a step `ToClient` or `ToServer` of
`MessageStream`, and every other step but a new session leaves it alone (`Delivers`).
A buffer that is full without a newline holds the beginning of a line too long for
`proto_read_line`, because a line that fits is shorter than the buffer: with
`LineTooLong` the one cause of a break besides the connection
(`BreaksOnlyForCause`). What a side has been told, and the bytes of a part of the
script, are recursive functions, whose traces exist by `Iterates`.

Two assumptions come from the code. `LineCapacity` is below `BufSize`
(`PROTO_LINE_CAPACITY` is 512, `recv_buffer` has 1024). `LinesAssumption`: no line
has a newline in it or a carriage return at its end; both programs format lines from
keywords, numbers and hexadecimal paths, and a version with white space in it is not
offered (`main.rs:1082`).

**SelfUpdate.** `TornForCause` alone is not inductive: a helper that has a torn
program in memory would break it. `Whole` says that what the helper will load, and
what it has loaded, is a program the slot has held, and that it starts nothing
that is not there; it is inductive together with the types. Without faults a client
that has handed over to a helper synchronises no more, and a helper runs only when
none does (`Untroubled`). With one fault the program is whole under its own name, or
under the other one with a helper that never found it replaced and no client that
could start another download over it (`Spare`).

**AppShell.** `FolderStays` needs that `sync_running` guards every activation
(`Guarded`), which is inductive and gives `OneSession`. `KeptEverywhere` needs that
settings once read are read back unchanged (`Parsed`: an interval in range is a
fixed point of `app_parse_interval_text`), and what the loop over a line of WIN.INI
does to a line of any length: it has no entry of the program left, gets one if it is to
have one, and if not it is `Full` (`OneLine`). `app_remove_autostart_entry` is a recursive function,
whose trace exists by `Iterates`; by induction along it (`UpTo`) no own entry is
copied (`Removed`), and what is copied up to each place is what belongs to others
there, in its order, while the flag says whether the program came last, and is no
longer than that part of the line, so that nothing is left out for want of room
(`CopyFaithful`, `EndsGrow`). This last point needs that the line leaves one byte of
the buffer free, which is what `OthersKept` assumes of a line, no more; then it is
read as it is (`ReadsLine`).

**ServerConfig.** The thread that is past `sync_guard` is one (`Holder`), the manifest
in the cache is tagged with the folder it was read from (`CacheHonest`), and from the
merge on a session's listing is of its own folder (`Owned`). `FileIsMemory` follows
the one form through its three steps (`Saving`).

**CrcCache.** That an entry found in the cache is right cannot be read off its
`checked_tick`, which is known modulo `Wrap` only. `Honest` says: an entry that agrees
with the file's stamp and not with its content was checked before the hidden edit,
and its true age is below `Wrap`, because every scan that lists all files renews what
has expired and scans are at most `MaxGap` apart. So the age modulo `Wrap` is the
true one, and an entry that is taken is younger than `Recheck`. `Warming` says why
reading ends although stale entries fill the cache and the oldest entry goes first:
after n scans without a change either every file is found, or the last n entries at
least are of files as they are now. The files fit, so that a full cache of
good entries has them all (a pigeonhole argument), after at most `MaxFiles`
scans. Time does not end this count unless crc_recheck is on. Both are proved along
`Listing`, the recursive function that is one scan.

**NameSync.** `CommonNames` is the one hypothesis: all names are written in capitals,
and the server's users give no name that only the server lists. It is needed: the
run `case` violates `NoRollback` with one lower-case name. The instance of `names`
satisfies it, which an `ASSUME` of `MCNameSync` has TLC check. That the server lists
what the client lists is proved from the two rules (`ListedByBoth`).

`NamesInv` says what connects a state file with folders it knows nothing of.
`Follows`: the manifests of a session are those of the trees it has changed so far,
and what is left of its plan is what the merge would plan now, so that every action
meets the trees it was planned for. `Records`: an entry is of a content and of
a name that both sides list. As long as no folder is changed, what is recorded is
still on both sides or has been taken away by a user, and nothing there is older
(`Recorded`), which gives `OnlyUsersReplace` and `NoRollback`. After one change the
folder that is no longer in use has it (`Aside`). After any number of changes
without a broken session some folder of each side has it, for every path that is
still to do (`Somewhere`): a deletion takes one of the two copies, and the state file
is written anew before the next session could take the other. The last two give
`LastCopy`, and say why it needs its exception. All actions of a session that change
a tree are one kind of step (`Alters`): the content at one path, on one side, is
replaced by what the other side has, or removed because it has none.

**Conversions.** The inputs are arbitrary: names over any alphabet, paths of any
bytes, versions of any numbers, files of any length. The parameters have the bounds
the code gives them (`NameRulesAssumption`: the longest 8.3 name fits the client's
buffer; `TextAssumption`, `InputsAssumption`: folders begin with a drive and have no
two separators in a row, the special values are no inputs).

- *Names.* Both rules cut a name at its first dot (`DotPlace`); a second dot, which the
  server counts, is for the client an illegal character of the extension; a name
  cut by `proto_copy_text` is longer than any 8.3 name.
- *Places.* What is appended is appended whole or makes the path `TooLong`, and stays
  so (`Joined`); separators of the place are those of root and path (`PlaceHasDir`).
- *Paths.* A line parameter that is cut is too long to be decoded into the client's
  buffer, whatever the cut leaves (`PathTravels`).
- *Versions.* The loop is a recursive function on pairs of places, and what it gives is
  proved by induction on the distance to the ends: that it is antisymmetric for any two
  texts, and that for releases it is the difference in the first part that differs.
- *Checksums.* A step of either CRC is linear and injective (`EightXor`), so that the
  difference of the two sums runs through the same steps as the sums and never comes
  to nothing while no further bytes arrive wrong. While they do, up to four bytes, it
  is what the steps make of the wrong bits put side by side, which fit into 32 bits
  (`BurstGrows`).
- *Calendar.* Both conversions count years from March. A year is so many centuries,
  groups of four and years (`YearParts`), in which the divisions of `days_from_civil` are
  plain; the four divisions by which `unix_to_ymdhms` finds the year differ from it by
  the long years that have passed (`YearBack`), the day of the year gives back the month
  by a table of twelve (`DayBack`). So `unix_to_ymdhms` undoes `days_from_civil` for
  every date from the year 1 on (`CivilBack`). The invariant `Calendar` says that the
  days counted one by one are those `days_from_civil` computes: the next day is the
  next one in the year that begins in March, or 1 March after a February of 28 or 29
  days (`NextMarch`).

Only model-checked: the liveness properties (`SessionEnds`, `Convergence`, `Quiet`,
`Settles`, `SyncsAgain`, `KeepsSyncing`), because liveness under fairness is out of the
prover's reach. Every other property of a passing run is a theorem. Recursion is
written as recursive functions throughout, whose values the proofs follow by
induction on natural numbers up to a bound (`UpTo`).

## 7. Not modelled

- *Installer* (`setup.c`): one sequential pass, mostly user interface and DDE with
  the Program Manager; it keeps no state that a synchronisation reads.
- *HTTP*: parsing of requests, rendering and escaping of pages, and the status
  fields of the page; they keep no state that a session reads.
- *Logs, progress lines, wording* of messages and results.
- *Settings* that are saved like others and have no effect on the models: host,
  port, bind addresses. A change of `state_file` through the web page.
- *Several clients at once*: `sync_guard` makes their sessions follow one another;
  they would share one state file, which the code does not separate.
- *An operator who copies* a new client into the update slot in place: the server
  would offer, and the client install, the part that is there, with a matching
  checksum. The model has it renamed.
- *Versions* of other characters at their head, where `strtoul` would skip blanks and
  take a sign, and numbers of 2^32 and more, which it cuts to the greatest one.
- *Entries of WIN.INI* longer than the 160 bytes of a token (`APP_PATH_CAPACITY`), which
  `app_remove_autostart_entry` takes for two; no path of DOS is as long.
- `NAME.part`, which an upload is written to: the server never lists it.
- *Two web forms at once*: they can leave a configuration file that differs from
  the memory. The instance has one form at a time.
- *Build files and packaging.* The systemd unit restarts the server, which is why
  a crash of the server is followed by a running one.
