---------------------------- MODULE ServerConfig -----------------------------
(***************************************************************************)
(* What the server's threads share besides the trees: the configuration in *)
(* memory and on disk, and the manifest cache.                              *)
(* Every web form, every session and the scanner is a thread; the mutex of *)
(* SharedInner is held for single reads and writes only, sync_guard for a  *)
(* whole session.                                                          *)
(*                                                                         *)
(* A manifest is known here only by the folder whose tree it lists.        *)
(***************************************************************************)
CONSTANTS
    Root, DefaultRoot,  \* folders; that of Config::default
    Form, Session,      \* threads of the web interface and of the sync port
    None,
    Torn                \* a configuration file that does not parse

Config  == [root : Root, scan : BOOLEAN]    \* scan: scan_interval_seconds > 0
Default == [root |-> DefaultRoot, scan |-> TRUE]

VARIABLES
    config, file,   \* SharedInner.config and the file behind it
    form, posted,   \* where each form is, and the configuration it saves
    scanning,       \* the folder the scanner reads
    cache,          \* server_manifest_root and the folder the manifest lists
    guard,          \* the session that holds sync_guard
    pc,             \* where each session is
    root, plan      \* its root_dir, and the folder its server_manifest lists

web     == <<form, posted>>
session == <<guard, pc, root, plan>>
vars    == <<config, file, web, scanning, cache, session>>

NoSession == /\ guard = None /\ pc = [s \in Session |-> "off"]
             /\ root = None /\ plan = None

Init ==
    /\ config = Default /\ file = Default
    /\ form = [f \in Form |-> "idle"] /\ posted = [f \in Form |-> Default]
    /\ scanning = None /\ cache = None
    /\ NoSession

-----------------------------------------------------------------------------
(* save_from_form: a form carries all fields.                              *)

Post(f) ==
    /\ form[f] = "idle"
    /\ form' = [form EXCEPT ![f] = "truncate"]
    /\ \E c \in Config : posted' = [posted EXCEPT ![f] = c]
    /\ UNCHANGED <<config, file, scanning, cache, session>>

\* fs::write in write_json_file, in two steps ...
Truncate(f) ==
    /\ form[f] = "truncate"
    /\ file' = Torn
    /\ form' = [form EXCEPT ![f] = "write"]
    /\ UNCHANGED <<config, posted, scanning, cache, session>>

Write(f) ==
    /\ form[f] = "write"
    /\ file' = posted[f]
    /\ form' = [form EXCEPT ![f] = "set"]
    /\ UNCHANGED <<config, posted, scanning, cache, session>>

\* Mistake: a file that cannot be written does not keep update_config from
\* going on.
SaveFailsUnnoticed(f) ==
    /\ form[f] \in {"truncate", "write"}
    /\ form' = [form EXCEPT ![f] = "set"]
    /\ UNCHANGED <<config, file, posted, scanning, cache, session>>

\* ... either of which can fail: update_config returns.
SaveFails(f) ==
    /\ form[f] \in {"truncate", "write"}
    /\ form' = [form EXCEPT ![f] = "idle"]
    /\ UNCHANGED <<config, file, posted, scanning, cache, session>>

SetConfig(f) ==
    /\ form[f] = "set"
    /\ config' = posted[f]
    /\ form' = [form EXCEPT ![f] = "idle"]
    /\ UNCHANGED <<file, posted, scanning, cache, session>>

-----------------------------------------------------------------------------
(* The scanner.                                                            *)

Manifest(tag, tree) == [root |-> tag, tree |-> tree]

\* run_server_scanner looks at the interval, refresh_server_manifest at the
\* folder.
ScanTree ==
    /\ scanning = None /\ config.scan
    /\ scanning' = config.root
    /\ UNCHANGED <<config, file, web, cache, session>>

ScanPublish ==
    /\ scanning # None
    /\ cache' = Manifest(scanning, scanning)
    /\ scanning' = None
    /\ UNCHANGED <<config, file, web, session>>

ScanError ==
    /\ scanning # None
    /\ scanning' = None
    /\ UNCHANGED <<config, file, web, cache, session>>

-----------------------------------------------------------------------------
(* The sessions.                                                           *)

Goto(s, where) == pc' = [pc EXCEPT ![s] = where]

Accept(s) ==
    /\ pc[s] = "off"
    /\ Goto(s, "wait")
    /\ UNCHANGED <<config, file, web, scanning, cache, guard, root, plan>>

\* sync_guard, and the folder for the whole session.
Lock(s) ==
    /\ pc[s] = "wait" /\ guard = None
    /\ guard' = s /\ root' = config.root
    /\ Goto(s, "greet")
    /\ UNCHANGED <<config, file, web, scanning, cache, plan>>

\* Mistake: the cached manifest is taken, whatever folder it lists.
server_manifest_any(dir) == IF cache = None THEN None ELSE cache.tree

\* Shared::server_manifest
server_manifest(dir) == IF cache # None /\ cache.root = dir THEN cache.tree ELSE None

\* current_server_manifest: from the cache, or by a scan of its own.
Merge(s) ==
    /\ pc[s] = "greet"
    /\ IF server_manifest(root) # None
         THEN plan' = server_manifest(root) /\ Goto(s, "work")
         ELSE plan' = root /\ Goto(s, "publish")
    /\ UNCHANGED <<config, file, web, scanning, cache, guard, root>>

Publish(s) ==
    /\ pc[s] = "publish"
    /\ cache' = Manifest(root, plan)
    /\ Goto(s, "work")
    /\ UNCHANGED <<config, file, web, scanning, guard, root, plan>>

\* replace_server_manifest, after the actions
Replace(s) ==
    /\ pc[s] = "work"
    /\ cache' = Manifest(root, plan)
    /\ Goto(s, "save")
    /\ UNCHANGED <<config, file, web, scanning, guard, root, plan>>

\* The session is over, well or with an error, wherever it is: sync_guard is
\* given back.
End(s) ==
    /\ guard = s
    /\ guard' = None /\ root' = None /\ plan' = None
    /\ Goto(s, "off")
    /\ UNCHANGED <<config, file, web, scanning, cache>>

\* The process ends and is started again: Shared::load.
Restart ==
    /\ config' = IF file = Torn THEN Default ELSE file
    /\ form' = [f \in Form |-> "idle"]
    /\ scanning' = None /\ cache' = None
    /\ guard' = None /\ pc' = [s \in Session |-> "off"] /\ root' = None /\ plan' = None
    /\ UNCHANGED <<file, posted>>

Next ==
    \/ \E f \in Form : Post(f) \/ Truncate(f) \/ Write(f) \/ SaveFails(f) \/ SetConfig(f)
    \/ ScanTree \/ ScanPublish \/ ScanError
    \/ \E s \in Session : \/ Accept(s) \/ Lock(s) \/ Merge(s) \/ Publish(s) \/ Replace(s)
                          \/ End(s)
    \/ Restart

Spec == Init /\ [][Next]_vars

-----------------------------------------------------------------------------
(* Properties.                                                             *)

\* A session merges, and later publishes, a listing of the folder in which it
\* deletes and stores files, whatever forms and scans do in between: else the
\* files of one folder would pass for deleted in another.
PlanFromOwnTree == plan # None => plan = root

\* With one form at a time, a restart brings back the configuration that was
\* in use, unless writing it has been interrupted.
FileIsMemory == (\A f \in Form : form[f] = "idle") /\ file # Torn => file = config

=============================================================================
