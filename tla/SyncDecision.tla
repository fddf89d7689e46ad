---------------------------- MODULE SyncDecision ----------------------------
(***************************************************************************)
(* The three-way merge of the sync server (server/src/main.rs): given what *)
(* the last successful session recorded for a path, what the server's      *)
(* manifest says and what the client's manifest says, which action does    *)
(* the session perform, and what does it record afterwards?                *)
(*                                                                         *)
(* Every function of the code works on one path at a time (its loops run   *)
(* over the union of the key sets and never look at two paths together),   *)
(* so the operators below take the three values of ONE path.  A missing    *)
(* map entry (Option::None) is the constant None.                          *)
(*                                                                         *)
(* A ManifestItem is [size, crc, known, dos]: the Fingerprint of the code  *)
(* (size, crc32, crc_known) and the DOS time stamp.  A SyncStateEntry is   *)
(* [server, client], each half being a fingerprint with its stamp.         *)
(***************************************************************************)
EXTENDS Naturals

CONSTANT None

-----------------------------------------------------------------------------
(* Equality of two revisions.  With both checksums known, the stamp does   *)
(* not count; with one unknown, size and stamp decide.                     *)

\* Mistake: without both checksums no two revisions are the same.
same_revision_needs_crc(left, right) ==
    left.size = right.size /\ left.known /\ right.known /\ left.crc = right.crc

same_revision(left, right) ==
    /\ left.size = right.size
    /\ IF left.known /\ right.known
         THEN left.crc = right.crc
         ELSE left.dos = right.dos

same_live_items(left, right) ==
    \/ left = None /\ right = None
    \/ left # None /\ right # None /\ same_revision(left, right)

same_state_item(current, previous) ==
    \/ current = None /\ previous = None
    \/ current # None /\ previous # None /\ same_revision(current, previous)

\* Mistake: equal sizes are enough although both checksums are known.
same_size_bootstrap(left, right) == left.size = right.size

\* Two items that have never been synchronised are taken for the same file
\* when a checksum is missing and only the sizes agree.
same_without_crc_bootstrap(left, right) ==
    /\ left.size = right.size
    /\ ~(left.known /\ right.known)

-----------------------------------------------------------------------------
(* SyncAction.  Download carries the server's item, Upload the client's.   *)

Act(kind, item) == [kind |-> kind, item |-> item]
NoAct           == Act("none", None)

\* The arm of build_sync_actions for a path without a state entry.
first_meeting(srv, cli) ==
    IF srv = None /\ cli = None THEN NoAct
    ELSE IF cli = None THEN Act("download", srv)
    ELSE IF srv = None THEN Act("upload", cli)
    ELSE IF same_live_items(srv, cli) \/ same_without_crc_bootstrap(srv, cli) THEN NoAct
    ELSE Act("conflict", None)

\* Mistake: when both sides have changed, the client's file wins.
three_way_client_wins(prev, srv, cli) ==
    LET server_changed == ~same_state_item(srv, prev.server)
        client_changed == ~same_state_item(cli, prev.client)
    IN  IF server_changed /\ client_changed
          THEN IF cli # None THEN Act("upload", cli) ELSE Act("delete_remote", None)
        ELSE IF server_changed
          THEN IF srv # None THEN Act("download", srv) ELSE Act("delete_local", None)
        ELSE IF client_changed
          THEN IF cli # None THEN Act("upload", cli) ELSE Act("delete_remote", None)
        ELSE NoAct

\* Mistake: a change on the client is always an upload, a deletion included.
three_way_uploads_missing(prev, srv, cli) ==
    LET server_changed == ~same_state_item(srv, prev.server)
        client_changed == ~same_state_item(cli, prev.client)
    IN  IF server_changed /\ client_changed
          THEN IF same_live_items(srv, cli) THEN NoAct ELSE Act("conflict", None)
        ELSE IF server_changed
          THEN IF srv # None THEN Act("download", srv) ELSE Act("delete_local", None)
        ELSE IF client_changed
          THEN Act("upload", cli)
        ELSE NoAct

\* The arm for a path the last session recorded.
three_way(prev, srv, cli) ==
    LET server_changed == ~same_state_item(srv, prev.server)
        client_changed == ~same_state_item(cli, prev.client)
    IN  IF server_changed /\ client_changed
          THEN IF same_live_items(srv, cli) THEN NoAct ELSE Act("conflict", None)
        ELSE IF server_changed
          THEN IF srv # None THEN Act("download", srv) ELSE Act("delete_local", None)
        ELSE IF client_changed
          THEN IF cli # None THEN Act("upload", cli) ELSE Act("delete_remote", None)
        ELSE NoAct

build_sync_action(prev, srv, cli) ==
    IF srv # None /\ cli # None /\ same_live_items(srv, cli)
      THEN NoAct
      ELSE IF prev = None THEN first_meeting(srv, cli)
                          ELSE three_way(prev, srv, cli)

-----------------------------------------------------------------------------
(* What the session believes the client holds once the action is done, and *)
(* what it records: an entry only where both sides hold the same revision. *)

apply_action(act, cli) ==
    IF act.kind \in {"download", "upload"} THEN act.item
    ELSE IF act.kind \in {"delete_local", "delete_remote"} THEN None
    ELSE cli

\* Mistake: whatever both sides hold after the session counts as synchronised.
build_state_entry_unchecked(srv, cli) ==
    IF srv # None /\ cli # None THEN [server |-> srv, client |-> cli] ELSE None

build_state_entry(srv, cli) ==
    IF /\ srv # None
       /\ cli # None
       /\ same_live_items(srv, cli) \/ same_without_crc_bootstrap(srv, cli)
      THEN [server |-> srv, client |-> cli]
      ELSE None

=============================================================================
