----------------------- MODULE SyncSessionRefinement ------------------------
(***************************************************************************)
(* SyncSession as an implementation of FileSync: what a tree holds is the  *)
(* data of its files, what a session lists is what the server's manifest   *)
(* and the client's item list name.                                        *)
(***************************************************************************)
EXTENDS SyncSession

Data(disk) == [p \in Path |-> IF disk[p] = None THEN None ELSE disk[p].data]

Listed(manifest) == [p \in Path |-> {x \in Content : Lists(manifest[p], x)}]

Promise == INSTANCE FileSync WITH
    server <- Data(sdisk), client <- Data(cdisk),
    serverHad <- heldS, clientHad <- heldC,
    serverListed <- Listed(sm), clientListed <- Listed(items),
    edits <- nextVer

\* The protocol, with its plan, its state file, its caches, its lost
\* connections and its crashes, keeps the promise of FileSync: contents move
\* whole, and no listed content is lost that the other side has not had.
KeepsPromise == Promise!Spec

=============================================================================
