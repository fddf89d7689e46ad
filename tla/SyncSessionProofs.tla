------------------------- MODULE SyncSessionProofs --------------------------
(***************************************************************************)
(* Proofs about SyncSession, in five parts.                                *)
(*                                                                         *)
(* Types: every variable keeps its type; whatever a manifest, the CRC      *)
(* cache or a message lists has been read from the tree it speaks of.      *)
(*                                                                         *)
(* Lockstep: client and sync thread never have more than one request or    *)
(* answer between them, and both mean the same action.  Conversation:      *)
(* where they are says what is in the two streams, so that neither is sent *)
(* a line it does not expect, but for the rest of a body that was longer   *)
(* than announced.                                                         *)
(*                                                                         *)
(* Agreement, which gives StateAgreement and NoSeenContentLost: what is    *)
(* recorded, and what is overwritten, both sides have had.                 *)
(*                                                                         *)
(* The promise of FileSync.  Only six kinds of step change a tree: SrvPut, *)
(* SrvDeleteRemote, CliFile, CliSwap, CliDeleteLocal and the users' edits. *)
(* Each maps to a step of FileSync, every other step to Looks.             *)
(*                                                                         *)
(* Outcome, of a session whose manifests were exact: what it has achieved  *)
(* so far; it leaves two equal trees, but for the conflicts it reports.    *)
(***************************************************************************)
EXTENDS SyncSessionRefinement, SyncSessionInvariants,
        FiniteSetTheorems, SequenceTheorems, TLAPS

-----------------------------------------------------------------------------
(* The merge, by type.                                                     *)

\* build_sync_actions plans well-formed actions: a transfer always has an item.
LEMMA PlanType ==
    ASSUME NEW prev \in Entry \union {None},
           NEW srv \in Item \union {None}, NEW cli \in Item \union {None}
    PROVE  build_sync_action(prev, srv, cli) \in Action
BY SentinelsAssumption
   DEF build_sync_action, first_meeting, three_way, Act, NoAct, Action, Entry

LEMMA AppliedType ==
    ASSUME NEW act \in Action, NEW cli \in Item \union {None}
    PROVE  apply_action(act, cli) \in Item \union {None}
BY DEF apply_action, Action

LEMMA EntryType ==
    ASSUME NEW srv \in Item \union {None}, NEW cli \in Item \union {None}
    PROVE  build_state_entry(srv, cli) \in Entry \union {None}
BY DEF build_state_entry, Entry

LEMMA ItemOfType ==
    ASSUME NEW f \in File
    PROVE  ItemOf(f) \in Item
BY ConstantsAssumption DEF ItemOf, File, Item

LEMMA TreeManifestType ==
    ASSUME NEW disk \in [Path -> File \union {None}]
    PROVE  TreeManifest(disk) \in Manifest
BY ItemOfType DEF TreeManifest, Manifest

-----------------------------------------------------------------------------
(* Messages and streams, by type.                                          *)

LEMMA MessageTypes ==
    /\ \A type \in {"HELLO", "UPDATECHECK", "UPDATE", "READY", "OK", "JUNK"} :
         Plain(type) \in Message
    /\ \A p \in Path, act \in Action : ActionMsg(p, act) \in Message
    /\ \A f \in File : FileMsg(f) \in Message
    /\ \A p \in Path, it \in Item, f \in File : PutMsg(p, it, f) \in Message
    /\ \A m \in Manifest : ManifestMsg(m) \in Message
    /\ \A n \in Nat : DoneMsg(n) \in Message
BY DEF Message, Plain, ActionMsg, FileMsg, PutMsg, ManifestMsg, DoneMsg

LEMMA MessageFields ==
    ASSUME NEW m \in Message
    PROVE  /\ m.type = "ACTION" => m.path \in Path /\ m.act \in Action
           /\ m.type = "FILE" => m.file \in File
           /\ m.type = "PUT" => m.path \in Path /\ m.item \in Item /\ m.file \in File
           /\ m.type = "MANIFEST" => m.items \in Manifest
           /\ m.type = "DONE" => m.conflicts \in Nat
BY DEF Message

\* What becomes of the line when a side closes its socket or is gone.
LEMMA LinkTypes ==
    ASSUME TypeInv
    PROVE  /\ LinkClosed \in {"up", "down", "silent"}
           /\ LinkLost \subseteq {"up", "down", "silent"}
BY DEF TypeInv, LinkClosed, LinkLost

LEMMA StreamTypes ==
    ASSUME NEW s \in Seq(Message)
    PROVE  /\ s # <<>> => Head(s) \in Message /\ Tail(s) \in Seq(Message)
           /\ \A m \in Message : Append(s, m) \in Seq(Message)
           /\ \A m \in Message : <<m>> \in Seq(Message)
           /\ \A u \in Seq(Message) : s \o u \in Seq(Message)
OBVIOUS

LEMMA LeftoverType ==
    ASSUME NEW f, NEW n
    PROVE  Leftover(f, n) \in Seq(Message)
BY MessageTypes DEF Leftover

LEMMA ReceivedType ==
    ASSUME NEW f \in File, NEW n \in Nat
    PROVE  Received(f, n) \subseteq Content
BY DEF Received, File, Content

LEMMA Defaults ==
    /\ NoManifest \in Manifest
    /\ NoActs \in [Path -> Action]
    /\ NoState \in [Path -> Entry \union {None}]
    /\ NoDl \in [path : Path \union {None}, item : Item \union {None}]
    /\ <<>> \in Seq(Message)
BY DEF NoManifest, Manifest, NoActs, NoAct, Act, Action, NoState, NoDl

LEMMA NewFileType ==
    ASSUME nextVer \in 1..(MaxVersion + 1), nextVer <= MaxVersion
    PROVE  /\ NewFile \in File
           /\ nextVer \in Content
           /\ nextVer + 1 \in 1..(MaxVersion + 1)
BY ConstantsAssumption DEF NewFile, File, Content, Version

LEMMA FaultType ==
    ASSUME faults \in 0..MaxFaults, Fault
    PROVE  faults' \in 0..MaxFaults
BY ConstantsAssumption DEF Fault

LEMMA ConflictsCount == Cardinality(Conflicts) \in Nat
<1>1. IsFiniteSet(Conflicts)
  BY ConstantsAssumption, FS_Subset DEF Conflicts
<1> QED
  BY <1>1, FS_CardinalityType

LEMMA ScannedItemType ==
    ASSUME TypeInv, NEW p \in Path, cdisk[p] # None, NEW expired
    PROVE  ScannedItem(p, expired) \in Item
<1>1. cdisk[p] \in File
  BY DEF TypeInv
<1>2. ItemOf(cdisk[p]) \in Item
  BY <1>1, ItemOfType
<1>3. CASE CrcDisabled
  BY <1>1, <1>3 DEF ScannedItem, File, Item
<1>4. CASE ~CrcDisabled
  BY <1>2, <1>4 DEF ScannedItem, CacheHit, TypeInv, Manifest
<1> QED
  BY <1>3, <1>4

LEMMA CacheAfterScanType ==
    ASSUME TypeInv, NEW seen \in SUBSET Present(cdisk), NEW expired
    PROVE  CacheAfterScan(seen, expired) \in Manifest
<1>1. ASSUME NEW p \in seen
      PROVE  p \in Path /\ ScannedItem(p, expired) \in Item
  BY ScannedItemType DEF Present
<1> QED
  BY <1>1 DEF CacheAfterScan, Manifest, TypeInv

-----------------------------------------------------------------------------
(* The type invariant.                                                     *)

\* Every variable keeps to its type in every behaviour, for all values of the
\* constants: no handler reads a path, an item or a body that is not there.
THEOREM TypeCorrect == Spec => []TypeInv
<1>1. Init => TypeInv
  <2> SUFFICES ASSUME Init PROVE TypeInv
    OBVIOUS
  <2>1. nextVer \in 1..(MaxVersion + 1) /\ faults \in 0..MaxFaults
    BY ConstantsAssumption DEF Init
  <2>2. sdisk \in [Path -> File \union {None}] /\ cdisk \in [Path -> File \union {None}]
    BY DEF Init
  <2>3. heldS \in [Path -> SUBSET Content] /\ heldC \in [Path -> SUBSET Content]
    BY DEF Init
  <2> QED
    BY <2>1, <2>2, <2>3, Defaults DEF Init, TypeInv, SrvPc, CliPc
<1>2. TypeInv /\ [Next]_vars => TypeInv'
  <2> SUFFICES ASSUME TypeInv, [Next]_vars PROVE TypeInv'
    OBVIOUS
  <2>1. CASE Connect
    BY <2>1, MessageTypes, Defaults
       DEF Connect, TypeInv, server, client, wire, ghosts, SrvPc, CliPc
  <2>2. CASE SrvHello
    BY <2>2, StreamTypes
       DEF SrvHello, SrvGets, TypeInv, server, client, wire, ghosts, SrvPc, CliPc
  <2>3. CASE SrvUpdateCheck
    BY <2>3, StreamTypes, MessageTypes
       DEF SrvUpdateCheck, SrvGets, TypeInv, server, client, wire, ghosts, SrvPc, CliPc
  <2>4. CASE SrvManifest
    BY <2>4, StreamTypes, MessageFields
       DEF SrvManifest, SrvGets, TypeInv, server, client, wire, ghosts, SrvPc, CliPc
  <2>5. CASE SrvLoad
    <3>1. LoadedState \in [Path -> Entry \union {None}]
      BY Defaults DEF TypeInv, LoadedState
    <3>2. ASSUME NEW srv \in Manifest
          PROVE  Plan(srv) \in [Path -> Action]
      BY <3>1, PlanType DEF TypeInv, Plan, Manifest
    <3>3. sm' \in Manifest /\ acts' = Plan(sm') /\ todo' \subseteq Path
      BY <2>5, TreeManifestType DEF SrvLoad, TypeInv
    <3> QED
      BY <2>5, <3>2, <3>3 DEF SrvLoad, TypeInv, client, wire, SrvPc
  <2>6. CASE SrvPublish
    BY <2>6
       DEF SrvPublish, TypeInv, server, client, wire, ghosts, SrvPc, CliPc
  <2>7. ASSUME NEW p \in Path, SrvAnnounce(p)
        PROVE  TypeInv'
    BY <2>7, StreamTypes, MessageTypes
       DEF SrvAnnounce, Awaits, IsNext, TypeInv, server, client, wire, ghosts, SrvPc, CliPc
  <2>8. ASSUME NEW p \in Path, SrvDeleteRemote(p)
        PROVE  TypeInv'
    BY <2>8, StreamTypes, MessageTypes
       DEF SrvDeleteRemote, IsNext, Manifest, TypeInv, server, client, wire, ghosts, SrvPc, CliPc
  <2>9. CASE SrvSendFile
    BY <2>9, StreamTypes, MessageTypes
       DEF SrvSendFile, SrvGets, TypeInv, server, client, wire, ghosts, SrvPc, CliPc
  <2>10. CASE SrvFileGone
    BY <2>10, StreamTypes, Defaults, LinkTypes
       DEF SrvFileGone, SrvGets, SrvQuit, SrvReturn, TypeInv, server, client, wire, ghosts, SrvPc, CliPc
  <2>11. CASE SrvOk
    BY <2>11, StreamTypes
       DEF SrvOk, SrvGets, TypeInv, server, client, wire, ghosts, SrvPc, CliPc
  <2>12. CASE SrvPut
    <3>1. Head(c2s).item \in Item /\ Head(c2s).file \in File /\ acts[cur].item \in Item
      BY <2>12, StreamTypes, MessageFields DEF SrvPut, SrvGets, TypeInv, Action
    <3>2. PICK x \in Received(Head(c2s).file, acts[cur].item.size) :
            LET stored == [data |-> x, size |-> acts[cur].item.size,
                           dos |-> Head(c2s).item.dos]
            IN  /\ sdisk' = [sdisk EXCEPT ![cur] = stored]
                /\ heldS' = [heldS EXCEPT ![cur] = @ \union {x}]
                /\ sm' = [sm EXCEPT ![cur] = ItemOf(stored)]
      BY <2>12 DEF SrvPut
    <3> DEFINE stored == [data |-> x, size |-> acts[cur].item.size,
                          dos |-> Head(c2s).item.dos]
    <3>3. x \in Content /\ stored \in File
      BY <3>1, <3>2, ReceivedType DEF Item, File
    <3>4. sdisk' \in [Path -> File \union {None}] /\ heldS' \in [Path -> SUBSET Content]
      BY <3>2, <3>3 DEF TypeInv
    <3>5. sm' \in Manifest
      BY <3>2, <3>3, ItemOfType DEF TypeInv, Manifest
    <3>6. c2s' \in Seq(Message) /\ s2c' \in Seq(Message)
      BY <2>12, StreamTypes, LeftoverType, MessageTypes DEF SrvPut, SrvGets, TypeInv
    <3> QED
      BY <2>12, <3>4, <3>5, <3>6 DEF SrvPut, TypeInv, client, SrvPc
  <2>13. CASE SrvPutRefused
    BY <2>13, StreamTypes, Defaults, LinkTypes
       DEF SrvPutRefused, SrvGets, SrvQuit, SrvReturn, TypeInv, server, client, wire, ghosts, SrvPc, CliPc
  <2>14. CASE SrvReplace
    BY <2>14
       DEF SrvReplace, TypeInv, server, client, wire, ghosts, SrvPc, CliPc
  <2>15. CASE SrvTruncate
    BY <2>15
       DEF SrvTruncate, TypeInv, server, client, wire, ghosts, SrvPc, CliPc
  <2>16. CASE SrvSave
    <3>1. StateAfterSync \in [Path -> Entry \union {None}]
      BY AppliedType, EntryType DEF StateAfterSync, TypeInv, Manifest
    <3> QED
      BY <2>16, <3>1, ConflictsCount, StreamTypes, MessageTypes, Defaults
         DEF SrvSave, SrvReturn, TypeInv, client, ghosts, SrvPc
  <2>17. CASE SrvUnexpected
    BY <2>17, Defaults, LinkTypes
       DEF SrvUnexpected, SrvQuit, SrvReturn, TypeInv, server, client, wire, ghosts, SrvPc, CliPc
  <2>18. CASE SrvHangup
    BY <2>18, Defaults, LinkTypes
       DEF SrvHangup, SrvQuit, SrvReturn, TypeInv, server, client, wire, ghosts, SrvPc, CliPc
  <2>19. CASE SrvError
    BY <2>19, Defaults, FaultType, LinkTypes
       DEF SrvError, SrvQuit, SrvReturn, TypeInv, server, client, wire, ghosts, SrvPc, CliPc
  <2>20. CASE SrvCrash
    BY <2>20, Defaults, FaultType, LinkTypes
       DEF SrvCrash, SrvQuit, SrvReturn, TypeInv, server, client, wire, ghosts, SrvPc, CliPc
  <2>21. CASE ScanTree
    BY <2>21, TreeManifestType
       DEF ScanTree, TypeInv, server, client, wire, ghosts, SrvPc, CliPc
  <2>22. CASE ScanPublish
    BY <2>22
       DEF ScanPublish, TypeInv, server, client, wire, ghosts, SrvPc, CliPc
  <2>23. CASE ScanError
    BY <2>23, FaultType
       DEF ScanError, TypeInv, server, client, wire, ghosts, SrvPc, CliPc
  <2>24. CASE CliHello
    <3>1. <<Plain("HELLO"), Plain("UPDATECHECK")>> \in Seq(Message)
      BY MessageTypes
    <3>2. c2s' \in Seq(Message) /\ s2c' \in Seq(Message)
      BY <2>24, <3>1, StreamTypes DEF CliHello, CliGets, TypeInv
    <3> QED
      BY <2>24, <3>2 DEF CliHello, TypeInv, server, ghosts, CliPc
  <2>25. CASE CliScan
    <3>1. PICK expired \in Expirations :
            LET found == [p \in Path |->
                            IF cdisk[p] = None THEN None ELSE ScannedItem(p, expired)]
            IN  /\ items' = found
                /\ cache' = CacheAfterScan(Present(cdisk), expired)
                /\ c2s' = Append(c2s, ManifestMsg(found))
      BY <2>25 DEF CliScan
    <3>2. items' \in Manifest
      BY <3>1, ScannedItemType DEF TypeInv, Manifest
    <3>3. cache' \in Manifest
      BY <3>1, CacheAfterScanType
    <3>4. c2s' \in Seq(Message) /\ s2c' \in Seq(Message)
      BY <2>25, <3>1, <3>2, StreamTypes, MessageTypes DEF CliScan, CliGets, TypeInv
    <3> QED
      BY <2>25, <3>2, <3>3, <3>4 DEF CliScan, TypeInv, server, ghosts, CliPc
  <2>26. CASE CliScanFails
    <3>1. cache' \in Manifest
      BY <2>26, CacheAfterScanType DEF CliScanFails
    <3>2. faults' \in 0..MaxFaults
      BY <2>26, FaultType DEF CliScanFails, TypeInv
    <3> QED
      BY <2>26, <3>1, <3>2, StreamTypes, Defaults, LinkTypes
         DEF CliScanFails, CliGets, CliQuit, CliReturn, TypeInv, server, ghosts, CliPc
  <2>27. CASE CliDownload
    <3>1. Head(s2c).path \in Path /\ Head(s2c).act.item \in Item
      BY <2>27, StreamTypes, MessageFields DEF CliDownload, CliAction, CliGets, TypeInv, Action
    <3>2. c2s' \in Seq(Message) /\ s2c' \in Seq(Message)
      BY <2>27, StreamTypes, MessageTypes DEF CliDownload, CliAction, CliGets, TypeInv
    <3> QED
      BY <2>27, <3>1, <3>2 DEF CliDownload, TypeInv, server, ghosts, CliPc
  <2>28. CASE CliFile
    <3>1. Head(s2c).file \in File
      BY <2>28, StreamTypes, MessageFields DEF CliFile, CliGets, TypeInv
    <3>2. dl.path \in Path /\ dl.item.size \in Nat /\ dl.item.dos \in Nat
      BY <2>28 DEF CliFile, CliGets, TypeInv, Item
    <3>3. temp' \in File
      BY <2>28, <3>1, <3>2, ReceivedType DEF CliFile, File
    <3>4. s2c' \in Seq(Message)
      BY <2>28, StreamTypes, LeftoverType DEF CliFile, CliGets, TypeInv
    <3>5. dl \in [path : Path \union {None}, item : Item \union {None}] /\ dl.item \in Item
      BY <2>28 DEF CliFile, CliGets, TypeInv
    <3> QED
      BY <2>28, <3>2, <3>3, <3>4, <3>5 DEF CliFile, TypeInv, server, ghosts, CliPc
  <2>29. CASE CliFileRefused
    BY <2>29, StreamTypes, Defaults, LinkTypes
       DEF CliFileRefused, CliGets, CliQuit, CliReturn, TypeInv, server, client, wire, ghosts, SrvPc, CliPc
  <2>30. CASE CliSwap
    <3>1. dl.path \in Path /\ dl.item \in Item /\ temp \in File /\ temp.data \in Content
      BY <2>30 DEF CliSwap, TypeInv, File
    <3>2. cdisk' \in [Path -> File \union {None}] /\ heldC' \in [Path -> SUBSET Content]
      BY <2>30, <3>1 DEF CliSwap, TypeInv
    <3>3. cache' \in Manifest
      BY <2>30, <3>1 DEF CliSwap, TypeInv, Manifest
    <3>4. c2s' \in Seq(Message)
      BY <2>30, StreamTypes, MessageTypes DEF CliSwap, TypeInv
    <3> QED
      BY <2>30, <3>2, <3>3, <3>4, Defaults DEF CliSwap, TypeInv, server, CliPc
  <2>31. CASE CliUpload
    <3>1. Head(s2c).path \in Path
      BY <2>31, StreamTypes, MessageFields DEF CliUpload, CliAction, CliGets, TypeInv
    <3>2. PutMsg(Head(s2c).path, items[Head(s2c).path], cdisk[Head(s2c).path]) \in Message
      BY <2>31, <3>1, MessageTypes DEF CliUpload, Uploadable, TypeInv, Manifest
    <3>3. c2s' \in Seq(Message) /\ s2c' \in Seq(Message)
      BY <2>31, <3>2, StreamTypes DEF CliUpload, CliAction, CliGets, TypeInv
    <3> QED
      BY <2>31, <3>3 DEF CliUpload, TypeInv, server, ghosts, CliPc
  <2>32. CASE CliUploadGone
    BY <2>32, StreamTypes, Defaults, LinkTypes
       DEF CliUploadGone, CliAction, CliGets, CliQuit, CliReturn, TypeInv, server, client, wire, ghosts, SrvPc, CliPc
  <2>33. CASE CliUploadOk
    BY <2>33, StreamTypes
       DEF CliUploadOk, CliGets, TypeInv, server, client, wire, ghosts, SrvPc, CliPc
  <2>34. CASE CliDeleteLocal
    <3>1. c2s' \in Seq(Message) /\ s2c' \in Seq(Message)
      BY <2>34, StreamTypes, MessageTypes DEF CliDeleteLocal, CliAction, CliGets, TypeInv
    <3>2. cdisk' \in [Path -> File \union {None}] /\ cache' \in Manifest
      BY <2>34 DEF CliDeleteLocal, TypeInv, Manifest
    <3> QED
      BY <2>34, <3>1, <3>2 DEF CliDeleteLocal, TypeInv, server, client, ghosts
  <2>35. CASE CliNote
    BY <2>35, StreamTypes, MessageTypes
       DEF CliNote, CliAction, CliGets, TypeInv, server, client, wire, ghosts, SrvPc, CliPc
  <2>36. CASE CliDone
    BY <2>36, StreamTypes, Defaults, LinkTypes
       DEF CliDone, CliGets, CliQuit, CliReturn, TypeInv, server, client, wire, ghosts, SrvPc, CliPc
  <2>37. CASE CliUnexpected
    BY <2>37, Defaults, LinkTypes
       DEF CliUnexpected, CliQuit, CliReturn, TypeInv, server, client, wire, ghosts, SrvPc, CliPc
  <2>38. CASE CliHangup
    BY <2>38, Defaults, LinkTypes
       DEF CliHangup, CliQuit, CliReturn, TypeInv, server, client, wire, ghosts, SrvPc, CliPc
  <2>39. CASE CliError
    BY <2>39, Defaults, FaultType, LinkTypes
       DEF CliError, CliQuit, CliReturn, TypeInv, server, client, wire, ghosts, SrvPc, CliPc
  <2>40. CASE CliCrash
    BY <2>40, Defaults, FaultType, LinkTypes
       DEF CliCrash, CliQuit, CliReturn, TypeInv, server, client, wire, ghosts, SrvPc, CliPc
  <2>41. CASE ConnectionLost
    BY <2>41, FaultType, LinkTypes
       DEF ConnectionLost, TypeInv, server, client, wire, ghosts, SrvPc, CliPc
  <2>42. ASSUME NEW p \in Path, UserWritesServer(p)
        PROVE  TypeInv'
    <3>1. NewFile \in File /\ nextVer \in Content /\ nextVer' \in 1..(MaxVersion + 1)
      BY <2>42, NewFileType DEF UserWritesServer, UserEdit, TypeInv
    <3>2. sdisk' \in [Path -> File \union {None}] /\ heldS' \in [Path -> SUBSET Content]
      BY <2>42, <3>1 DEF UserWritesServer, TypeInv
    <3>3. fresh' = FALSE /\ UNCHANGED <<shared, scan, stateFile, server, cdisk, cache, client, wire,
                     faults, heldC>>
      BY <2>42 DEF UserWritesServer, UserEdit
    <3> QED
      BY <3>1, <3>2, <3>3, ZenonT(60) DEF TypeInv, server, client, wire
  <2>43. ASSUME NEW p \in Path, UserDeletesServer(p)
        PROVE  TypeInv'
    <3>1. nextVer' \in 1..(MaxVersion + 1)
      BY <2>43, NewFileType DEF UserDeletesServer, UserEdit, TypeInv
    <3>2. sdisk' \in [Path -> File \union {None}]
      BY <2>43 DEF UserDeletesServer, TypeInv
    <3>3. fresh' = FALSE /\ UNCHANGED <<shared, scan, stateFile, server, cdisk, cache, client, wire,
                     faults, heldS, heldC>>
      BY <2>43 DEF UserDeletesServer, UserEdit
    <3> QED
      BY <3>1, <3>2, <3>3, ZenonT(60) DEF TypeInv, server, client, wire
  <2>44. ASSUME NEW p \in Path, UserWritesClient(p)
        PROVE  TypeInv'
    <3>1. NewFile \in File /\ nextVer \in Content /\ nextVer' \in 1..(MaxVersion + 1)
      BY <2>44, NewFileType DEF UserWritesClient, UserEdit, TypeInv
    <3>2. cdisk' \in [Path -> File \union {None}] /\ heldC' \in [Path -> SUBSET Content]
      BY <2>44, <3>1 DEF UserWritesClient, TypeInv
    <3>3. fresh' = FALSE /\ UNCHANGED <<sdisk, shared, scan, stateFile, server, cache, client, wire,
                     faults, heldS>>
      BY <2>44 DEF UserWritesClient, UserEdit
    <3> QED
      BY <3>1, <3>2, <3>3, ZenonT(60) DEF TypeInv, server, client, wire
  <2>45. ASSUME NEW p \in Path, UserDeletesClient(p)
        PROVE  TypeInv'
    <3>1. nextVer' \in 1..(MaxVersion + 1)
      BY <2>45, NewFileType DEF UserDeletesClient, UserEdit, TypeInv
    <3>2. cdisk' \in [Path -> File \union {None}]
      BY <2>45 DEF UserDeletesClient, TypeInv
    <3>3. fresh' = FALSE /\ UNCHANGED <<sdisk, shared, scan, stateFile, server, cache, client, wire,
                     faults, heldS, heldC>>
      BY <2>45 DEF UserDeletesClient, UserEdit
    <3> QED
      BY <3>1, <3>2, <3>3, ZenonT(60) DEF TypeInv, server, client, wire
  <2>46. CASE UNCHANGED vars
    BY <2>46 DEF vars, server, client, wire, ghosts, TypeInv
  <2> QED
    BY <2>1, <2>2, <2>3, <2>4, <2>5, <2>6, <2>7, <2>8, <2>9, <2>10, <2>11,
       <2>12, <2>13, <2>14, <2>15, <2>16, <2>17, <2>18, <2>19, <2>20, <2>21,
       <2>22, <2>23, <2>24, <2>25, <2>26, <2>27, <2>28, <2>29, <2>30, <2>31,
       <2>32, <2>33, <2>34, <2>35, <2>36, <2>37, <2>38, <2>39, <2>40, <2>41,
       <2>42, <2>43, <2>44, <2>45, <2>46 DEF Next, SrvStep, CliStep,
       FaultStep, UserStep
<1>3. QED
  BY <1>1, <1>2, PTL DEF Spec


-----------------------------------------------------------------------------
(* The messages of a stream.                                               *)

LEMMA ElemsOf ==
    ASSUME NEW s \in Seq(Message)
    PROVE  /\ Elems(<<>>) = {}
           /\ \A m \in Message : Elems(<<m>>) = {m}
           /\ \A m \in Message : Elems(Append(s, m)) = Elems(s) \union {m}
           /\ s # <<>> => Head(s) \in Elems(s) /\ Elems(Tail(s)) \subseteq Elems(s)
           /\ \A u \in Seq(Message) : Elems(s \o u) = Elems(s) \union Elems(u)
           /\ Elems(s) \subseteq Message
<1>1. Elems(<<>>) = {}
  BY DEF Elems
<1>2. \A m \in Message : Elems(<<m>>) = {m}
  BY DEF Elems
<1>3. ASSUME NEW m \in Message
      PROVE  Elems(Append(s, m)) = Elems(s) \union {m}
  <2>1. /\ Len(s) \in Nat
        /\ Len(Append(s, m)) = Len(s) + 1
        /\ \A i \in 1..Len(s) : Append(s, m)[i] = s[i]
        /\ Append(s, m)[Len(s) + 1] = m
    OBVIOUS
  <2>2. 1..(Len(s) + 1) = (1..Len(s)) \union {Len(s) + 1}
    BY <2>1
  <2> QED
    BY <2>1, <2>2 DEF Elems
<1>4. s # <<>> => Head(s) \in Elems(s) /\ Elems(Tail(s)) \subseteq Elems(s)
  <2> SUFFICES ASSUME s # <<>>
               PROVE  Head(s) \in Elems(s) /\ Elems(Tail(s)) \subseteq Elems(s)
    OBVIOUS
  <2>1. /\ Len(s) \in Nat \ {0}
        /\ Head(s) = s[1]
        /\ Len(Tail(s)) = Len(s) - 1
        /\ \A i \in 1..Len(Tail(s)) : Tail(s)[i] = s[i + 1] /\ i + 1 \in 1..Len(s)
    OBVIOUS
  <2> QED
    BY <2>1 DEF Elems
<1>5. ASSUME NEW u \in Seq(Message)
      PROVE  Elems(s \o u) = Elems(s) \union Elems(u)
  <2>1. /\ Len(s) \in Nat /\ Len(u) \in Nat
        /\ Len(s \o u) = Len(s) + Len(u)
        /\ \A i \in 1..Len(s) : (s \o u)[i] = s[i]
        /\ \A i \in 1..Len(u) : (s \o u)[Len(s) + i] = u[i]
    OBVIOUS
  <2>2. \A i \in 1..(Len(s) + Len(u)) :
           i \in 1..Len(s) \/ \E j \in 1..Len(u) : i = Len(s) + j
    <3> TAKE i \in 1..(Len(s) + Len(u))
    <3>1. CASE i <= Len(s)
      BY <2>1, <3>1
    <3>2. CASE i > Len(s)
      <4>1. i - Len(s) \in 1..Len(u) /\ i = Len(s) + (i - Len(s))
        BY <2>1, <3>2
      <4> QED
        BY <4>1
    <3> QED
      BY <2>1, <3>1, <3>2
  <2>3. Elems(s \o u) \subseteq Elems(s) \union Elems(u)
    BY <2>1, <2>2 DEF Elems
  <2>4. Elems(s) \union Elems(u) \subseteq Elems(s \o u)
    BY <2>1, SMTT(30) DEF Elems
  <2> QED
    BY <2>3, <2>4
<1>6. Elems(s) \subseteq Message
  BY DEF Elems
<1> QED
  BY <1>1, <1>2, <1>3, <1>4, <1>5, <1>6

LEMMA LeftoverElems ==
    ASSUME NEW f, NEW n
    PROVE  \A m \in Elems(Leftover(f, n)) : m.type = "JUNK"
<1>1. Plain("JUNK") \in Message
  BY MessageTypes
<1>2. Elems(<<>>) = {} /\ Elems(<<Plain("JUNK")>>) = {Plain("JUNK")}
  BY <1>1, ElemsOf
<1> QED
  BY <1>2 DEF Leftover, Plain

\* What follows a body that was longer than announced is junk.
LEMMA AfterBody ==
    ASSUME NEW s \in Seq(Message), s # <<>>, NEW f, NEW n
    PROVE  \A m \in Elems(Leftover(f, n) \o Tail(s)) : m \in Elems(s) \/ m.type = "JUNK"
<1>1. Tail(s) \in Seq(Message) /\ Leftover(f, n) \in Seq(Message)
  BY StreamTypes, LeftoverType
<1>2. Elems(Leftover(f, n) \o Tail(s)) = Elems(Leftover(f, n)) \union Elems(Tail(s))
  BY <1>1, ElemsOf
<1> QED
  BY <1>2, ElemsOf, LeftoverElems

LEMMA AfterGreeting ==
    ASSUME NEW s \in Seq(Message)
    PROVE  Elems(s \o <<Plain("HELLO"), Plain("UPDATECHECK")>>)
             = Elems(s) \union {Plain("HELLO"), Plain("UPDATECHECK")}
<1> DEFINE h == Plain("HELLO")
           u == Plain("UPDATECHECK")
<1>1. h \in Message /\ u \in Message
  BY MessageTypes
<1> HIDE DEF h, u
<1>2. <<h, u>> \in Seq(Message) /\ <<h>> \in Seq(Message) /\ <<h, u>> = Append(<<h>>, u)
  BY <1>1
<1>3. Elems(<<h, u>>) = {h, u}
  <2>1. Elems(<<h>>) = {h}
    BY <1>1, Defaults, ElemsOf
  <2>2. Elems(Append(<<h>>, u)) = Elems(<<h>>) \union {u}
    BY <1>1, <1>2, ElemsOf
  <2> QED
    BY <1>2, <2>1, <2>2
<1>4. Elems(s \o <<h, u>>) = Elems(s) \union Elems(<<h, u>>)
  BY <1>2, ElemsOf
<1> QED
  BY <1>3, <1>4 DEF h, u

\* What the constructors put into a message.
LEMMA MessageContents ==
    /\ \A type : Plain(type).type = type
    /\ \A p, act : LET m == ActionMsg(p, act)
                   IN  m.type = "ACTION" /\ m.path = p /\ m.act = act
    /\ \A f : FileMsg(f).type = "FILE" /\ FileMsg(f).file = f
    /\ \A p, it, f : PutMsg(p, it, f).type = "PUT"
    /\ \A m : ManifestMsg(m).type = "MANIFEST" /\ ManifestMsg(m).items = m
    /\ \A n : DoneMsg(n).type = "DONE"
BY DEF Plain, ActionMsg, FileMsg, PutMsg, ManifestMsg, DoneMsg

-----------------------------------------------------------------------------
(* Lists and the contents behind them.                                     *)

LEMMA AmongGrows ==
    ASSUME NEW item, NEW A, NEW B, Among(item, A), A \subseteq B
    PROVE  Among(item, B)
BY DEF Among

LEMMA AllAmongGrows ==
    ASSUME NEW manifest, NEW A, NEW B, AllAmong(manifest, A),
           \A p \in Path : A[p] \subseteq B[p]
    PROVE  AllAmong(manifest, B)
BY AmongGrows DEF AllAmong

LEMMA NothingPlanned == \A p \in Path : NoActs[p].kind = "none"
BY DEF NoActs, NoAct, Act

LEMMA NothingAmong == \A held : AllAmong(NoManifest, held)
BY DEF AllAmong, NoManifest, Among

\* A checksum computed from a file names the content of that file.
LEMMA ComputedAmong ==
    ASSUME CrcCollisionFree, NEW f \in File, NEW A, f.data \in A
    PROVE  Among(ItemOf(f), A)
BY DEF CrcCollisionFree, File, Among, ItemOf

LEMMA TreeAmong ==
    ASSUME CrcCollisionFree, TypeInv, DisksHeld
    PROVE  AllAmong(TreeManifest(sdisk), heldS)
<1> SUFFICES ASSUME NEW p \in Path
             PROVE  Among(TreeManifest(sdisk)[p], heldS[p])
  BY DEF AllAmong
<1>1. CASE sdisk[p] = None
  BY <1>1 DEF TreeManifest, Among
<1>2. CASE sdisk[p] # None
  BY <1>2, ComputedAmong DEF TreeManifest, TypeInv, DisksHeld
<1> QED
  BY <1>1, <1>2

LEMMA ScannedAmong ==
    ASSUME CrcCollisionFree, ~CrcDisabled, TypeInv, DisksHeld, ClientLists,
           NEW p \in Path, cdisk[p] # None, NEW expired
    PROVE  Among(ScannedItem(p, expired), heldC[p])
<1>1. cdisk[p] \in File /\ cdisk[p].data \in heldC[p]
  BY DEF TypeInv, DisksHeld
<1>2. Among(ItemOf(cdisk[p]), heldC[p])
  BY <1>1, ComputedAmong
<1>3. Among(cache[p], heldC[p])
  BY DEF ClientLists, AllAmong
<1> QED
  BY <1>2, <1>3 DEF ScannedItem

LEMMA CacheAmong ==
    ASSUME CrcCollisionFree, ~CrcDisabled, TypeInv, DisksHeld, ClientLists,
           NEW seen \in SUBSET Present(cdisk), NEW expired
    PROVE  AllAmong(CacheAfterScan(seen, expired), heldC)
<1> SUFFICES ASSUME NEW p \in Path
             PROVE  Among(CacheAfterScan(seen, expired)[p], heldC[p])
  BY DEF AllAmong
<1>1. CASE p \in seen
  BY <1>1, ScannedAmong DEF CacheAfterScan, Present
<1>2. CASE p \notin seen
  BY <1>2 DEF CacheAfterScan, ClientLists, AllAmong
<1> QED
  BY <1>1, <1>2

\* A planned download carries the item of the server's manifest.
LEMMA PlannedDownload ==
    ASSUME NEW prev, NEW srv, NEW cli, build_sync_action(prev, srv, cli).kind = "download"
    PROVE  srv # None /\ build_sync_action(prev, srv, cli).item = srv
BY DEF build_sync_action, first_meeting, three_way, Act, NoAct

-----------------------------------------------------------------------------
(* The invariant.                                                          *)

LEMMA HeldStep ==
    ASSUME ~CrcDisabled, CrcCollisionFree, TypeInv, Held, [Next]_vars
    PROVE  Held'
<1>1. CASE Connect
  BY <1>1, ElemsOf, MessageTypes, MessageContents
     DEF Connect, ghosts, Held, DisksHeld, ServerLists, ClientLists,
         Verified, TypeInv
<1>2. CASE SrvHello
  BY <1>2, ElemsOf
     DEF SrvHello, SrvGets, client, ghosts, Held, DisksHeld, ServerLists,
         ClientLists, Verified, TypeInv
<1>3. CASE SrvUpdateCheck
  BY <1>3, ElemsOf, MessageTypes, MessageContents
     DEF SrvUpdateCheck, SrvGets, client, ghosts, Held, DisksHeld,
         ServerLists, ClientLists, Verified, TypeInv
<1>4. CASE SrvManifest
  BY <1>4, ElemsOf
     DEF SrvManifest, SrvGets, client, ghosts, Held, DisksHeld, ServerLists,
         ClientLists, Verified, TypeInv
<1>5. CASE SrvLoad
  <2>1. AllAmong(sm', heldS)
    BY <1>5, TreeAmong DEF SrvLoad, Held, ServerLists
  <2>2. ASSUME NEW p \in Path, acts'[p].kind = "download"
        PROVE  acts'[p].item.known
    <3>1. acts'[p].item = sm'[p] /\ sm'[p] # None
      BY <1>5, <2>2, PlannedDownload DEF SrvLoad, Plan
    <3> QED
      BY <2>1, <3>1 DEF AllAmong, Among
  <2> QED
    BY <1>5, <2>1, <2>2
       DEF SrvLoad, client, wire, Held, DisksHeld, ServerLists, ClientLists, Verified
<1>6. CASE SrvPublish
  BY <1>6
     DEF SrvPublish, client, wire, ghosts, Held, DisksHeld, ServerLists,
         ClientLists, Verified
<1>7. ASSUME NEW p \in Path, SrvAnnounce(p)
      PROVE  Held'
  BY <1>7, ElemsOf, MessageTypes, MessageContents
     DEF SrvAnnounce, client, ghosts, Held, DisksHeld, ServerLists,
         ClientLists, Verified, TypeInv
<1>8. ASSUME NEW p \in Path, SrvDeleteRemote(p)
      PROVE  Held'
  BY <1>8, ElemsOf, MessageTypes, MessageContents
     DEF SrvDeleteRemote, client, ghosts, Held, DisksHeld, ServerLists,
         ClientLists, Verified, TypeInv, AllAmong, Among, Manifest
<1>9. CASE SrvSendFile
  BY <1>9, ElemsOf, MessageTypes, MessageContents
     DEF SrvSendFile, SrvGets, client, ghosts, Held, DisksHeld, ServerLists,
         ClientLists, Verified, TypeInv
<1>10. CASE SrvFileGone
  BY <1>10, ElemsOf, NothingAmong, NothingPlanned
     DEF SrvFileGone, SrvQuit, SrvReturn, SrvGets, client, ghosts, Held,
         DisksHeld, ServerLists, ClientLists, Verified, TypeInv
<1>11. CASE SrvOk
  BY <1>11, ElemsOf
     DEF SrvOk, SrvGets, client, ghosts, Held, DisksHeld, ServerLists,
         ClientLists, Verified, TypeInv
<1>12. CASE SrvPut
  <2>1. Head(c2s).item \in Item /\ Head(c2s).file \in File /\ acts[cur].item \in Item
    BY <1>12, StreamTypes, MessageFields DEF SrvPut, SrvGets, TypeInv, Action
  <2>2. PICK x \in Received(Head(c2s).file, acts[cur].item.size) :
          LET stored == [data |-> x, size |-> acts[cur].item.size,
                         dos |-> Head(c2s).item.dos]
          IN  /\ sdisk' = [sdisk EXCEPT ![cur] = stored]
              /\ heldS' = [heldS EXCEPT ![cur] = @ \union {x}]
              /\ sm' = [sm EXCEPT ![cur] = ItemOf(stored)]
    BY <1>12 DEF SrvPut
  <2> DEFINE stored == [data |-> x, size |-> acts[cur].item.size,
                        dos |-> Head(c2s).item.dos]
  <2>3. stored \in File /\ stored.data = x /\ cur \in Path
    BY <1>12, <2>1, <2>2, ReceivedType DEF Item, File, SrvPut, SrvGets, TypeInv
  <2>4. \A p \in Path : heldS[p] \subseteq heldS'[p]
    BY <2>2 DEF TypeInv
  <2>5. DisksHeld'
    BY <1>12, <2>2, <2>3, <2>4 DEF SrvPut, client, Held, DisksHeld, TypeInv
  <2>6. Among(ItemOf(stored), heldS'[cur])
    BY <2>2, <2>3, ComputedAmong DEF TypeInv
  <2>7. AllAmong(sm', heldS')
    <3>1. AllAmong(sm, heldS')
      BY <2>4, AllAmongGrows DEF Held, ServerLists
    <3> QED
      BY <2>2, <2>6, <3>1 DEF AllAmong, TypeInv, Manifest
  <2>8. ServerLists'
    BY <1>12, <2>4, <2>7, AllAmongGrows DEF SrvPut, Held, ServerLists
  <2>9. \A m \in Elems(c2s') : m.type = "MANIFEST" => m \in Elems(c2s)
    BY <1>12, AfterBody DEF SrvPut, SrvGets, TypeInv
  <2>10. ClientLists'
    BY <1>12, <2>9 DEF SrvPut, client, Held, ClientLists
  <2>11. \A m \in Elems(s2c') : m.type = "ACTION" => m \in Elems(s2c)
    BY <1>12, ElemsOf, MessageTypes, MessageContents DEF SrvPut, TypeInv
  <2>12. Verified'
    BY <1>12, <2>11 DEF SrvPut, client, Held, Verified
  <2> QED
    BY <2>5, <2>8, <2>10, <2>12 DEF Held
<1>13. CASE SrvPutRefused
  BY <1>13, ElemsOf, NothingAmong, NothingPlanned
     DEF SrvPutRefused, SrvQuit, SrvReturn, SrvGets, client, ghosts, Held,
         DisksHeld, ServerLists, ClientLists, Verified, TypeInv
<1>14. CASE SrvReplace
  BY <1>14
     DEF SrvReplace, client, wire, ghosts, Held, DisksHeld, ServerLists,
         ClientLists, Verified
<1>15. CASE SrvTruncate
  BY <1>15
     DEF SrvTruncate, client, wire, ghosts, Held, DisksHeld, ServerLists,
         ClientLists, Verified
<1>16. CASE SrvSave
  <2>1. \A m \in Elems(s2c') : m.type = "ACTION" => m \in Elems(s2c)
    BY <1>16, ConflictsCount, ElemsOf, MessageTypes, MessageContents DEF SrvSave, TypeInv
  <2> QED
    BY <1>16, <2>1, NothingAmong, NothingPlanned
       DEF SrvSave, SrvReturn, client, ghosts,
           Held, DisksHeld, ServerLists, ClientLists, Verified
<1>17. CASE SrvUnexpected
  BY <1>17, NothingAmong, NothingPlanned
     DEF SrvUnexpected, SrvQuit, SrvReturn, client, ghosts, Held, DisksHeld,
         ServerLists, ClientLists, Verified
<1>18. CASE SrvHangup
  BY <1>18, NothingAmong, NothingPlanned
     DEF SrvHangup, SrvQuit, SrvReturn, client, ghosts, Held, DisksHeld,
         ServerLists, ClientLists, Verified
<1>19. CASE SrvError
  BY <1>19, NothingAmong, NothingPlanned
     DEF SrvError, SrvQuit, SrvReturn, client, ghosts, Held, DisksHeld,
         ServerLists, ClientLists, Verified
<1>20. CASE SrvCrash
  BY <1>20, NothingAmong, NothingPlanned
     DEF SrvCrash, SrvQuit, SrvReturn, client, ghosts, Held, DisksHeld,
         ServerLists, ClientLists, Verified
<1>21. CASE ScanTree
  BY <1>21, TreeAmong
     DEF ScanTree, server, client, wire, ghosts, Held, DisksHeld,
         ServerLists, ClientLists, Verified
<1>22. CASE ScanPublish
  BY <1>22
     DEF ScanPublish, server, client, wire, ghosts, Held, DisksHeld,
         ServerLists, ClientLists, Verified
<1>23. CASE ScanError
  BY <1>23
     DEF ScanError, server, client, wire, ghosts, Held, DisksHeld,
         ServerLists, ClientLists, Verified
<1>24. CASE CliHello
  <2>1. \A m \in Elems(c2s') : m.type = "MANIFEST" => m \in Elems(c2s)
    <3>1. Elems(c2s') = Elems(c2s) \union {Plain("HELLO"), Plain("UPDATECHECK")}
      BY <1>24, AfterGreeting DEF CliHello, TypeInv
    <3> QED
      BY <3>1, MessageContents
  <2>2. Elems(s2c') \subseteq Elems(s2c)
    BY <1>24, ElemsOf DEF CliHello, CliGets, TypeInv
  <2> QED
    BY <1>24, <2>1, <2>2
       DEF CliHello, server, ghosts, Held, DisksHeld, ServerLists, ClientLists, Verified
<1>25. CASE CliScan
  <2>1. PICK expired \in Expirations :
          LET found == [p \in Path |->
                          IF cdisk[p] = None THEN None ELSE ScannedItem(p, expired)]
          IN  /\ items' = found
              /\ cache' = CacheAfterScan(Present(cdisk), expired)
              /\ c2s' = Append(c2s, ManifestMsg(found))
    BY <1>25 DEF CliScan
  <2>2. AllAmong(items', heldC)
    <3> SUFFICES ASSUME NEW p \in Path
                 PROVE  Among(items'[p], heldC[p])
      BY DEF AllAmong
    <3>1. CASE cdisk[p] = None
      BY <2>1, <3>1 DEF Among
    <3>2. CASE cdisk[p] # None
      BY <2>1, <3>2, ScannedAmong DEF Held
    <3> QED
      BY <3>1, <3>2
  <2>3. AllAmong(cache', heldC)
    BY <2>1, CacheAmong DEF Held
  <2>4. items' \in Manifest
    BY <2>1, ScannedItemType DEF Manifest
  <2>5. ManifestMsg(items') \in Message /\ Elems(c2s') = Elems(c2s) \union {ManifestMsg(items')}
    BY <2>1, <2>4, MessageTypes, ElemsOf DEF TypeInv
  <2>6. Elems(s2c') \subseteq Elems(s2c)
    BY <1>25, ElemsOf DEF CliScan, CliGets, TypeInv
  <2>7. ClientLists'
    BY <1>25, <2>2, <2>3, <2>5, MessageContents DEF CliScan, server, ghosts, Held, ClientLists
  <2> QED
    BY <1>25, <2>6, <2>7
       DEF CliScan, server, ghosts, Held, DisksHeld, ServerLists, Verified
<1>26. CASE CliScanFails
  <2>1. AllAmong(cache', heldC)
    BY <1>26, CacheAmong DEF CliScanFails, Held
  <2>2. Elems(s2c') \subseteq Elems(s2c)
    BY <1>26, ElemsOf DEF CliScanFails, CliGets, TypeInv
  <2> QED
    BY <1>26, <2>1, <2>2, NothingAmong
       DEF CliScanFails, CliQuit, CliReturn, server, ghosts,
           Held, DisksHeld, ServerLists, ClientLists, Verified
<1>27. CASE CliDownload
  BY <1>27, ElemsOf, MessageTypes, MessageContents
     DEF CliDownload, CliAction, CliGets, server, ghosts, Held, DisksHeld,
         ServerLists, ClientLists, Verified, TypeInv
<1>28. CASE CliFile
  <2>1. CrcOf[temp'.data] = dl.item.crc /\ UNCHANGED dl
    BY <1>28 DEF CliFile
  <2>2. \A m \in Elems(s2c') : m.type = "ACTION" => m \in Elems(s2c)
    BY <1>28, AfterBody DEF CliFile, CliGets, TypeInv
  <2>3. Verified'
    BY <1>28, <2>1, <2>2 DEF CliFile, CliGets, server, Held, Verified
  <2>4. DisksHeld'
    BY <1>28 DEF CliFile, ghosts, Held, DisksHeld, TypeInv
  <2> QED
    BY <1>28, <2>3, <2>4 DEF CliFile, server, ghosts, Held, ServerLists, ClientLists
<1>29. CASE CliFileRefused
  BY <1>29, ElemsOf, NothingAmong, NothingPlanned
     DEF CliFileRefused, CliQuit, CliReturn, CliGets, server, ghosts, Held,
         DisksHeld, ServerLists, ClientLists, Verified, TypeInv
<1>30. CASE CliSwap
  <2>1. dl.path \in Path /\ dl.item \in Item /\ temp \in File /\ temp.data \in Content
    BY <1>30 DEF CliSwap, TypeInv, File
  <2>2. \A p \in Path : heldC[p] \subseteq heldC'[p]
    BY <1>30 DEF CliSwap, TypeInv
  <2>3. DisksHeld'
    BY <1>30, <2>1, <2>2 DEF CliSwap, Held, DisksHeld, TypeInv
  <2>4. Among(dl.item, heldC'[dl.path])
    <3>1. dl.item.known /\ dl.item.crc = CrcOf[temp.data]
      BY <1>30 DEF CliSwap, Held, Verified
    <3>2. temp.data \in heldC'[dl.path]
      BY <1>30, <2>1 DEF CliSwap, TypeInv
    <3> QED
      BY <2>1, <3>1, <3>2 DEF CrcCollisionFree, Among
  <2>5. AllAmong(cache', heldC')
    <3>1. AllAmong(cache, heldC')
      BY <2>2, AllAmongGrows DEF Held, ClientLists
    <3> QED
      BY <1>30, <2>1, <2>4, <3>1 DEF CliSwap, AllAmong, TypeInv, Manifest
  <2>6. \A m \in Elems(c2s') : m.type = "MANIFEST" => m \in Elems(c2s)
    BY <1>30, ElemsOf, MessageTypes, MessageContents DEF CliSwap, TypeInv
  <2>7. ClientLists'
    BY <1>30, <2>2, <2>5, <2>6, AllAmongGrows
       DEF CliSwap, server, Held, ClientLists
  <2> QED
    BY <1>30, <2>3, <2>7 DEF CliSwap, server, Held, ServerLists, Verified
<1>31. CASE CliUpload
  <2>1. Head(s2c).path \in Path
    BY <1>31, StreamTypes, MessageFields DEF CliUpload, CliAction, CliGets, TypeInv
  <2>2. PutMsg(Head(s2c).path, items[Head(s2c).path], cdisk[Head(s2c).path]) \in Message
    BY <1>31, <2>1, MessageTypes DEF CliUpload, Uploadable, TypeInv, Manifest
  <2>3. \A m \in Elems(c2s') : m.type = "MANIFEST" => m \in Elems(c2s)
    BY <1>31, <2>2, ElemsOf, MessageContents DEF CliUpload, TypeInv
  <2>4. Elems(s2c') \subseteq Elems(s2c)
    BY <1>31, ElemsOf DEF CliUpload, CliAction, CliGets, TypeInv
  <2> QED
    BY <1>31, <2>3, <2>4
       DEF CliUpload, server, ghosts, Held, DisksHeld, ServerLists, ClientLists, Verified
<1>32. CASE CliUploadGone
  BY <1>32, ElemsOf, NothingAmong, NothingPlanned
     DEF CliUploadGone, CliQuit, CliReturn, CliAction, CliGets, server,
         ghosts, Held, DisksHeld, ServerLists, ClientLists, Verified,
         TypeInv
<1>33. CASE CliUploadOk
  BY <1>33, ElemsOf
     DEF CliUploadOk, CliGets, server, ghosts, Held, DisksHeld, ServerLists,
         ClientLists, Verified, TypeInv
<1>34. CASE CliDeleteLocal
  <2>1. \A m \in Elems(c2s') : m.type = "MANIFEST" => m \in Elems(c2s)
    BY <1>34, ElemsOf, MessageTypes, MessageContents DEF CliDeleteLocal, TypeInv
  <2>2. Elems(s2c') \subseteq Elems(s2c)
    BY <1>34, ElemsOf DEF CliDeleteLocal, CliAction, CliGets, TypeInv
  <2>3. AllAmong(cache', heldC)
    BY <1>34 DEF CliDeleteLocal, Held, ClientLists, AllAmong, Among, TypeInv, Manifest
  <2>4. DisksHeld'
    BY <1>34 DEF CliDeleteLocal, ghosts, Held, DisksHeld, TypeInv
  <2> QED
    BY <1>34, <2>1, <2>2, <2>3, <2>4
       DEF CliDeleteLocal, server, client, ghosts, Held, ServerLists, ClientLists, Verified
<1>35. CASE CliNote
  BY <1>35, ElemsOf, MessageTypes, MessageContents
     DEF CliNote, CliAction, CliGets, server, client, ghosts, Held,
         DisksHeld, ServerLists, ClientLists, Verified, TypeInv
<1>36. CASE CliDone
  BY <1>36, ElemsOf, NothingAmong, NothingPlanned
     DEF CliDone, CliQuit, CliReturn, CliGets, server, ghosts, Held,
         DisksHeld, ServerLists, ClientLists, Verified, TypeInv
<1>37. CASE CliUnexpected
  BY <1>37, NothingAmong, NothingPlanned
     DEF CliUnexpected, CliQuit, CliReturn, server, ghosts, Held, DisksHeld,
         ServerLists, ClientLists, Verified
<1>38. CASE CliHangup
  BY <1>38, NothingAmong, NothingPlanned
     DEF CliHangup, CliQuit, CliReturn, server, ghosts, Held, DisksHeld,
         ServerLists, ClientLists, Verified
<1>39. CASE CliError
  BY <1>39, NothingAmong, NothingPlanned
     DEF CliError, CliQuit, CliReturn, server, ghosts, Held, DisksHeld,
         ServerLists, ClientLists, Verified
<1>40. CASE CliCrash
  BY <1>40, NothingAmong, NothingPlanned
     DEF CliCrash, CliQuit, CliReturn, server, ghosts, Held, DisksHeld,
         ServerLists, ClientLists, Verified
<1>41. CASE ConnectionLost
  BY <1>41
     DEF ConnectionLost, server, client, ghosts, Held, DisksHeld,
         ServerLists, ClientLists, Verified
<1>42. ASSUME NEW p \in Path, UserWritesServer(p)
      PROVE  Held'
  <2>1. NewFile.data = nextVer
    BY DEF NewFile
  <2>2. \A q \in Path : heldS[q] \subseteq heldS'[q]
    BY <1>42 DEF UserWritesServer, TypeInv
  <2>3. DisksHeld'
    BY <1>42, <2>1, <2>2 DEF UserWritesServer, Held, DisksHeld, TypeInv
  <2>4. ServerLists'
    BY <1>42, <2>2, AllAmongGrows DEF UserWritesServer, server, Held, ServerLists
  <2> QED
    BY <1>42, <2>3, <2>4
       DEF UserWritesServer, server, client, wire, Held, ClientLists, Verified
<1>43. ASSUME NEW p \in Path, UserDeletesServer(p)
      PROVE  Held'
  BY <1>43
     DEF UserDeletesServer, UserEdit, server, client, wire, Held, DisksHeld,
         ServerLists, ClientLists, Verified, TypeInv
<1>44. ASSUME NEW p \in Path, UserWritesClient(p)
      PROVE  Held'
  <2>1. NewFile.data = nextVer
    BY DEF NewFile
  <2>2. \A q \in Path : heldC[q] \subseteq heldC'[q]
    BY <1>44 DEF UserWritesClient, TypeInv
  <2>3. DisksHeld'
    BY <1>44, <2>1, <2>2 DEF UserWritesClient, Held, DisksHeld, TypeInv
  <2>4. ClientLists'
    BY <1>44, <2>2, AllAmongGrows DEF UserWritesClient, server, client, wire, Held, ClientLists
  <2> QED
    BY <1>44, <2>3, <2>4
       DEF UserWritesClient, server, client, wire, Held, ServerLists, Verified
<1>45. ASSUME NEW p \in Path, UserDeletesClient(p)
      PROVE  Held'
  BY <1>45
     DEF UserDeletesClient, UserEdit, server, client, wire, Held, DisksHeld,
         ServerLists, ClientLists, Verified, TypeInv
<1>46. CASE UNCHANGED vars
  BY <1>46
     DEF vars, server, client, wire, ghosts, Held, DisksHeld, ServerLists,
         ClientLists, Verified
<1> QED
  BY <1>1, <1>2, <1>3, <1>4, <1>5, <1>6, <1>7, <1>8, <1>9, <1>10, <1>11,
     <1>12, <1>13, <1>14, <1>15, <1>16, <1>17, <1>18, <1>19, <1>20, <1>21,
     <1>22, <1>23, <1>24, <1>25, <1>26, <1>27, <1>28, <1>29, <1>30, <1>31,
     <1>32, <1>33, <1>34, <1>35, <1>36, <1>37, <1>38, <1>39, <1>40, <1>41,
     <1>42, <1>43, <1>44, <1>45, <1>46
     DEF Next, SrvStep, CliStep, FaultStep, UserStep

\* With checksums on, and if different contents have different checksums, every
\* manifest, cached or in flight, lists only contents its tree has held, and
\* what a download has verified is what it announced.
THEOREM HeldInvariant ==
    ASSUME ~CrcDisabled, CrcCollisionFree
    PROVE  Spec => []Held
<1>1. Init => Held
  <2> SUFFICES ASSUME Init PROVE Held
    OBVIOUS
  <2>1. Elems(s2c) = {} /\ Elems(c2s) = {}
    BY Defaults, ElemsOf DEF Init
  <2>2. AllAmong(sm, heldS) /\ AllAmong(cache, heldC) /\ AllAmong(items, heldC) /\ AllAmong(cm, heldC)
    BY NothingAmong DEF Init
  <2>3. DisksHeld
    BY DEF Init, DisksHeld
  <2>4. Verified
    BY <2>1, NothingPlanned DEF Init, Verified
  <2> QED
    BY <2>1, <2>2, <2>3, <2>4 DEF Init, Held, ServerLists, ClientLists
<1>2. TypeInv /\ Held /\ [Next]_vars => Held'
  BY HeldStep
<1> QED
  BY <1>1, <1>2, TypeCorrect, PTL DEF Spec

-----------------------------------------------------------------------------
(* What is derived from what: closed sets of files and items.              *)

LEMMA FilesStep ==
    ASSUME NEW F, NEW I, Closed(F, I), TypeInv, Derived(F, I), [Next]_vars
    PROVE  FilesIn(F)'
<1> USE DEF Derived
<1>1. CASE UNCHANGED <<sdisk, cdisk>> /\ temp' \in {temp, None}
  BY <1>1 DEF FilesIn
<1>2. CASE \/ Connect \/ SrvHello \/ SrvUpdateCheck \/ SrvManifest \/ SrvLoad \/ SrvPublish
           \/ \E p \in Path : SrvAnnounce(p)
           \/ SrvSendFile \/ SrvFileGone \/ SrvOk \/ SrvPutRefused \/ SrvReplace
           \/ SrvTruncate \/ SrvSave \/ SrvUnexpected \/ SrvHangup \/ ScanTree \/ ScanPublish
  BY <1>1, <1>2
     DEF Connect, SrvHello, SrvUpdateCheck, SrvManifest, SrvLoad, SrvPublish, SrvAnnounce,
         SrvSendFile, SrvFileGone, SrvOk, SrvPutRefused, SrvReplace, SrvTruncate, SrvSave,
         SrvUnexpected, SrvHangup, ScanTree, ScanPublish, client
<1>3. CASE \/ CliHello \/ CliScan \/ CliScanFails \/ CliDownload \/ CliFileRefused
           \/ CliUpload \/ CliUploadGone \/ CliUploadOk \/ CliNote \/ CliDone
           \/ CliUnexpected \/ CliHangup \/ UNCHANGED vars
  BY <1>1, <1>3
     DEF CliHello, CliScan, CliScanFails, CliDownload, CliFileRefused, CliUpload,
         CliUploadGone, CliUploadOk, CliNote, CliDone, CliUnexpected, CliHangup, CliQuit,
         CliReturn, client, vars
<1>4. CASE SrvError \/ SrvCrash \/ ScanError \/ CliError \/ CliCrash \/ ConnectionLost
  BY <1>1, <1>4
     DEF SrvError, SrvCrash, ScanError, CliError, CliCrash, ConnectionLost, CliQuit,
         CliReturn, client
<1>5. ASSUME NEW p \in Path, \/ SrvDeleteRemote(p) \/ UserDeletesServer(p) \/ UserDeletesClient(p)
      PROVE  FilesIn(F)'
  BY <1>5 DEF SrvDeleteRemote, UserDeletesServer, UserDeletesClient, client, FilesIn, TypeInv
<1>6. CASE CliDeleteLocal
  BY <1>6 DEF CliDeleteLocal, client, FilesIn, TypeInv
<1>7. ASSUME NEW p \in Path, UserWritesServer(p) \/ UserWritesClient(p)
      PROVE  FilesIn(F)'
  <2>1. nextVer \in Version
    BY <1>7, ConstantsAssumption
       DEF UserWritesServer, UserWritesClient, UserEdit, TypeInv, Version
  <2>2. NewFile \in F
    BY <2>1 DEF NewFile, Closed
  <2> QED
    BY <1>7, <2>2 DEF UserWritesServer, UserWritesClient, client, FilesIn, TypeInv
<1>8. CASE SrvPut
  <2> DEFINE put == Head(c2s)
             req == acts[cur].item
  <2>1. put \in Elems(c2s) /\ put.type = "PUT" /\ cur \in Path /\ req \in Item
    BY <1>8, ElemsOf DEF SrvPut, SrvGets, TypeInv, Action
  <2>2. req \in I /\ put.item \in I /\ put.file \in F
    BY <2>1, SentinelsAssumption DEF SentIn, ItemsIn
  <2>3. PICK x \in Received(put.file, req.size) :
          /\ PutAccepted(put, req, x)
          /\ sdisk' = [sdisk EXCEPT ![cur] =
                          [data |-> x, size |-> req.size, dos |-> put.item.dos]]
    BY <1>8 DEF SrvPut
  <2>4. [data |-> x, size |-> req.size, dos |-> put.item.dos] \in F
    <3>1. x \in Content /\ put.file.size >= req.size
      BY <1>8, <2>2, <2>3, ReceivedType DEF SrvPut, Closed, Item
    <3>2. ~req.known \/ CrcOf[x] = req.crc
      <4>1. req.known \in BOOLEAN
        BY <2>1 DEF Item
      <4> QED
        BY <2>3, <4>1 DEF PutAccepted
    <3> QED
      BY <2>2, <2>3, <3>1, <3>2 DEF Closed
  <2> QED
    BY <1>8, <2>1, <2>3, <2>4 DEF SrvPut, client, FilesIn, TypeInv
<1>9. CASE CliFile
  <2> DEFINE f == Head(s2c).file
  <2>1. Head(s2c) \in Elems(s2c) /\ Head(s2c).type = "FILE"
    BY <1>9, ElemsOf DEF CliFile, CliGets, TypeInv
  <2>2. f \in F /\ dl.item \in I /\ dl.path \in Path
    BY <1>9, <2>1, SentinelsAssumption DEF SentIn, ItemsIn, CliFile, CliGets, TypeInv
  <2>3. PICK x \in Received(f, dl.item.size) :
          /\ CrcDisabled \/ CrcOf[x] = dl.item.crc
          /\ temp' = [data |-> x, size |-> dl.item.size, dos |-> dl.item.dos]
    BY <1>9 DEF CliFile
  <2>4. x \in Content /\ f.size >= dl.item.size
    BY <1>9, <2>2, <2>3, ReceivedType DEF CliFile, Closed, Item
  <2>5. temp' \in F
    BY <2>2, <2>3, <2>4 DEF Closed
  <2> QED
    BY <1>9, <2>2, <2>5 DEF CliFile, FilesIn, TypeInv
<1>10. CASE CliSwap
  BY <1>10, SentinelsAssumption DEF CliSwap, FilesIn, TypeInv
<1> QED
  BY <1>2, <1>3, <1>4, <1>5, <1>6, <1>7, <1>8, <1>9, <1>10
     DEF Next, SrvStep, CliStep, FaultStep, UserStep

\* The items of a tree, and of a scan of the client.
LEMMA ComputedItems ==
    ASSUME NEW F, NEW I, Closed(F, I), TypeInv, Derived(F, I), NEW p \in Path
    PROVE  /\ TreeManifest(sdisk)[p] \in I \union {None}
           /\ \A expired : cdisk[p] # None => ScannedItem(p, expired) \in I \union {None}
           /\ \A seen \in SUBSET Present(cdisk) : \A expired :
                CacheAfterScan(seen, expired)[p] \in I \union {None}
<1>1. sdisk[p] \in F \union {None} /\ cdisk[p] \in F \union {None} /\ cache[p] \in I \union {None}
  BY DEF Derived, FilesIn, ItemsIn
<1>2. TreeManifest(sdisk)[p] \in I \union {None}
  BY <1>1 DEF TreeManifest, Closed
<1>3. ASSUME NEW expired, cdisk[p] # None
      PROVE  ScannedItem(p, expired) \in I \union {None}
  BY <1>1, <1>3 DEF ScannedItem, CacheHit, Closed
<1>4. ASSUME NEW seen \in SUBSET Present(cdisk), NEW expired
      PROVE  CacheAfterScan(seen, expired)[p] \in I \union {None}
  BY <1>1, <1>3 DEF CacheAfterScan, Present
<1> QED
  BY <1>2, <1>3, <1>4

\* An action carries an item of one of the two manifests.
LEMMA PlannedItem ==
    ASSUME NEW prev, NEW srv, NEW cli
    PROVE  build_sync_action(prev, srv, cli).item \in {srv, cli, None}
BY DEF build_sync_action, first_meeting, three_way, Act, NoAct

LEMMA ItemsStep ==
    ASSUME NEW F, NEW I, Closed(F, I), TypeInv, Derived(F, I), FilesIn(F)', [Next]_vars
    PROVE  ItemsIn(I)'
<1> USE DEF Derived
<1>1. CASE UNCHANGED <<sm, cm, cache, items, acts, shared, scan, dl>>
  BY <1>1 DEF ItemsIn
<1>2. CASE \/ Connect \/ SrvHello \/ SrvUpdateCheck \/ \E p \in Path : SrvAnnounce(p)
           \/ SrvSendFile \/ SrvOk \/ SrvTruncate \/ CliHello \/ CliUpload \/ CliUploadOk
           \/ CliFile \/ CliNote \/ ConnectionLost \/ UserStep \/ UNCHANGED vars
  BY <1>1, <1>2
     DEF Connect, SrvHello, SrvUpdateCheck, SrvAnnounce, SrvSendFile, SrvOk, SrvTruncate,
         CliHello, CliUpload, CliUploadOk, CliFile, CliNote, ConnectionLost, UserStep,
         UserWritesServer, UserDeletesServer, UserWritesClient, UserDeletesClient, server,
         client, vars
<1>3. /\ \A p \in Path : NoManifest[p] = None /\ NoActs[p].item = None
      /\ NoDl.item = None
  BY DEF NoManifest, NoActs, NoAct, Act, NoDl
<1>4. CASE \/ SrvFileGone \/ SrvPutRefused \/ SrvSave \/ SrvUnexpected \/ SrvHangup
           \/ SrvError \/ SrvCrash
  BY <1>3, <1>4
     DEF SrvFileGone, SrvPutRefused, SrvSave, SrvUnexpected, SrvHangup, SrvError, SrvCrash,
         SrvQuit, SrvReturn, client, ItemsIn
<1>5. CASE \/ CliFileRefused \/ CliUploadGone \/ CliDone \/ CliUnexpected \/ CliHangup
           \/ CliError \/ CliCrash
  BY <1>3, <1>5
     DEF CliFileRefused, CliUploadGone, CliDone, CliUnexpected, CliHangup, CliError,
         CliCrash, CliQuit, CliReturn, server, ItemsIn
<1>6. CASE SrvManifest
  <2>1. \A p \in Path : cm'[p] \in I \union {None}
    BY <1>6, ElemsOf DEF SrvManifest, SrvGets, SentIn, TypeInv
  <2> QED
    BY <1>6, <2>1 DEF SrvManifest, client, ItemsIn
<1>7. CASE SrvLoad
  <2>1. \A p \in Path : sm'[p] \in I \union {None}
    BY <1>7, ComputedItems DEF SrvLoad, ItemsIn
  <2>2. \A p \in Path : acts'[p].item \in {sm'[p], cm[p], None}
    BY <1>7, PlannedItem DEF SrvLoad, Plan
  <2> QED
    BY <1>7, <2>1, <2>2 DEF SrvLoad, client, ItemsIn
<1>8. CASE SrvPublish \/ SrvReplace
  BY <1>8 DEF SrvPublish, SrvReplace, client, ItemsIn
<1>9. ASSUME NEW p \in Path, SrvDeleteRemote(p) PROVE ItemsIn(I)'
  BY <1>9 DEF SrvDeleteRemote, client, ItemsIn, TypeInv, Manifest
<1>10. CASE SrvPut
  <2>1. cur \in Path /\ sm'[cur] = ItemOf(sdisk'[cur]) /\ sdisk'[cur] # None
    <3>1. acts[cur].item \in Item /\ Head(c2s).item \in Item /\ Head(c2s).file \in File
      BY <1>10, StreamTypes, MessageFields DEF SrvPut, SrvGets, TypeInv, Action
    <3>2. PICK x \in Received(Head(c2s).file, acts[cur].item.size) :
            LET stored == [data |-> x, size |-> acts[cur].item.size,
                           dos |-> Head(c2s).item.dos]
            IN  /\ sdisk' = [sdisk EXCEPT ![cur] = stored]
                /\ sm' = [sm EXCEPT ![cur] = ItemOf(stored)]
      BY <1>10 DEF SrvPut
    <3>3. [data |-> x, size |-> acts[cur].item.size, dos |-> Head(c2s).item.dos] \in File
      BY <3>1, <3>2, ReceivedType DEF Item, File
    <3>4. cur \in Path
      BY <1>10 DEF SrvPut, SrvGets, TypeInv
    <3> QED
      BY <3>2, <3>3, <3>4, SentinelsAssumption DEF TypeInv, Manifest
  <2>2. sm'[cur] \in I
    BY <2>1 DEF FilesIn, Closed
  <2> QED
    BY <1>10, <2>1, <2>2 DEF SrvPut, client, ItemsIn, TypeInv, Manifest
<1>11. CASE ScanTree \/ ScanPublish \/ ScanError
  BY <1>11, ComputedItems DEF ScanTree, ScanPublish, ScanError, server, client, ItemsIn
<1>12. CASE CliScan
  <2>1. PICK expired \in Expirations :
          /\ items' = [p \in Path |-> IF cdisk[p] = None THEN None ELSE ScannedItem(p, expired)]
          /\ cache' = CacheAfterScan(Present(cdisk), expired)
    BY <1>12 DEF CliScan
  <2>2. \A p \in Path : items'[p] \in I \union {None} /\ cache'[p] \in I \union {None}
    BY <2>1, ComputedItems
  <2> QED
    BY <1>12, <2>2 DEF CliScan, server, ItemsIn
<1>13. CASE CliScanFails
  <2>1. \A p \in Path : cache'[p] \in I \union {None}
    BY <1>13, ComputedItems DEF CliScanFails
  <2> QED
    BY <1>13, <2>1, <1>3 DEF CliScanFails, CliQuit, CliReturn, server, ItemsIn
<1>14. CASE CliDownload
  <2>1. dl'.item \in I \union {None}
    BY <1>14, ElemsOf DEF CliDownload, CliAction, CliGets, SentIn, TypeInv
  <2> QED
    BY <1>14, <2>1 DEF CliDownload, server, ItemsIn
<1>15. CASE CliSwap
  BY <1>3, <1>15 DEF CliSwap, server, ItemsIn, TypeInv, Manifest
<1>16. CASE CliDeleteLocal
  BY <1>16 DEF CliDeleteLocal, server, client, ItemsIn, TypeInv, Manifest
<1> QED
  BY <1>2, <1>4, <1>5, <1>6, <1>7, <1>8, <1>9, <1>10, <1>11, <1>12, <1>13, <1>14,
     <1>15, <1>16
     DEF Next, SrvStep, CliStep, FaultStep

LEMMA SentStep ==
    ASSUME NEW F, NEW I, Closed(F, I), TypeInv, TypeInv', Derived(F, I), ItemsIn(I)',
           [Next]_vars
    PROVE  SentIn(F, I)'
<1> USE DEF Derived
<1>1. s2c \in Seq(Message) /\ c2s \in Seq(Message)
  BY DEF TypeInv
<1>2. CASE Elems(s2c') \subseteq Elems(s2c) /\ Elems(c2s') \subseteq Elems(c2s)
  BY <1>2 DEF SentIn
\* Lines that carry neither file nor item.
<1>3. ASSUME /\ \A m \in Elems(s2c') : m \in Elems(s2c) \/ m.type \notin {"ACTION", "FILE"}
             /\ \A m \in Elems(c2s') : m \in Elems(c2s) \/ m.type \notin {"MANIFEST", "PUT"}
      PROVE  SentIn(F, I)'
  BY <1>3 DEF SentIn
<1>4. CASE \/ SrvHello \/ SrvManifest \/ SrvLoad \/ SrvPublish \/ SrvFileGone \/ SrvOk
           \/ SrvPutRefused \/ SrvReplace \/ SrvTruncate \/ SrvUnexpected \/ SrvHangup
           \/ ScanTree \/ ScanPublish \/ FaultStep \/ UserStep \/ UNCHANGED vars
  BY <1>1, <1>2, <1>4, ElemsOf
     DEF SrvHello, SrvManifest, SrvLoad, SrvPublish, SrvFileGone, SrvOk, SrvPutRefused,
         SrvReplace, SrvTruncate, SrvUnexpected, SrvHangup, ScanTree, ScanPublish,
         FaultStep, SrvError, SrvCrash, ScanError, CliError, CliCrash, ConnectionLost,
         UserStep, UserWritesServer, UserDeletesServer, UserWritesClient,
         UserDeletesClient, SrvGets, wire, vars
<1>5. CASE \/ CliScanFails \/ CliFileRefused \/ CliUploadGone \/ CliUploadOk \/ CliDone
           \/ CliUnexpected \/ CliHangup
  BY <1>1, <1>2, <1>5, ElemsOf
     DEF CliScanFails, CliFileRefused, CliUploadGone, CliUploadOk, CliDone, CliUnexpected,
         CliHangup, CliAction, CliGets
<1>6. CASE Connect
  <2>1. Elems(s2c') = {Plain("HELLO")} /\ Elems(c2s') = {}
    BY <1>6, ElemsOf, MessageTypes, Defaults DEF Connect
  <2> QED
    BY <1>3, <2>1, MessageContents
<1>7. CASE SrvUpdateCheck
  <2>1. /\ Elems(s2c') = Elems(s2c) \union {Plain("UPDATE")}
        /\ Elems(c2s') \subseteq Elems(c2s)
    BY <1>1, <1>7, ElemsOf, MessageTypes DEF SrvUpdateCheck, SrvGets
  <2> QED
    BY <1>3, <2>1, MessageContents
<1>8. ASSUME NEW p \in Path, SrvAnnounce(p) \/ SrvDeleteRemote(p)
      PROVE  SentIn(F, I)'
  <2> DEFINE m == ActionMsg(p, acts[p])
  <2>1. m \in Message /\ s2c' = Append(s2c, m) /\ c2s' = c2s
    BY <1>8, MessageTypes DEF SrvAnnounce, SrvDeleteRemote, TypeInv
  <2>2. Elems(s2c') = Elems(s2c) \union {m}
    BY <1>1, <2>1, ElemsOf
  <2>3. m.type = "ACTION" /\ m.act = acts[p] /\ acts[p].item \in I \union {None}
    BY MessageContents DEF ItemsIn
  <2> QED
    BY <2>1, <2>2, <2>3 DEF SentIn
<1>9. CASE SrvSendFile
  <2> DEFINE m == FileMsg(sdisk[cur])
  <2>1. sdisk[cur] \in File /\ sdisk[cur] \in F /\ s2c' = Append(s2c, m) /\ c2s' = Tail(c2s)
    BY <1>9 DEF SrvSendFile, SrvGets, TypeInv, FilesIn
  <2>2. Elems(s2c') = Elems(s2c) \union {m} /\ Elems(c2s') \subseteq Elems(c2s)
    BY <1>1, <1>9, <2>1, ElemsOf, MessageTypes DEF SrvSendFile, SrvGets
  <2>3. m.type = "FILE" /\ m.file = sdisk[cur]
    BY MessageContents
  <2> QED
    BY <2>1, <2>2, <2>3 DEF SentIn
<1>10. CASE SrvPut
  <2>1. \A m \in Elems(c2s') : m \in Elems(c2s) \/ m.type = "JUNK"
    BY <1>1, <1>10, AfterBody DEF SrvPut, SrvGets
  <2>2. Elems(s2c') = Elems(s2c) \union {Plain("OK")}
    BY <1>1, <1>10, ElemsOf, MessageTypes DEF SrvPut
  <2> QED
    BY <1>3, <2>1, <2>2, MessageContents
<1>11. CASE SrvSave
  <2>1. /\ Elems(s2c') = Elems(s2c) \union {DoneMsg(Cardinality(Conflicts))}
        /\ c2s' = c2s
    BY <1>1, <1>11, ElemsOf, MessageTypes, ConflictsCount DEF SrvSave
  <2> QED
    BY <1>3, <2>1, MessageContents
<1>12. CASE CliHello
  <2>1. /\ Elems(c2s') = Elems(c2s) \union {Plain("HELLO"), Plain("UPDATECHECK")}
        /\ Elems(s2c') \subseteq Elems(s2c)
    BY <1>1, <1>12, AfterGreeting, ElemsOf DEF CliHello, CliGets
  <2> QED
    BY <1>3, <2>1, MessageContents
<1>13. CASE CliScan
  <2>1. c2s' = Append(c2s, ManifestMsg(items')) /\ s2c' = Tail(s2c) /\ s2c # <<>>
    BY <1>13 DEF CliScan, CliGets
  <2>2. ManifestMsg(items') \in Message
    BY MessageTypes DEF TypeInv
  <2>3. /\ Elems(c2s') = Elems(c2s) \union {ManifestMsg(items')}
        /\ Elems(s2c') \subseteq Elems(s2c)
    BY <1>1, <2>1, <2>2, ElemsOf
  <2>4. \A p \in Path : items'[p] \in I \union {None}
    BY DEF ItemsIn
  <2> QED
    BY <2>3, <2>4, MessageContents DEF SentIn
<1>14. CASE CliDownload \/ CliNote \/ CliDeleteLocal
  <2>1. /\ s2c # <<>> /\ s2c' = Tail(s2c)
        /\ \E type \in {"READY", "OK"} : c2s' = Append(c2s, Plain(type))
    BY <1>14 DEF CliDownload, CliNote, CliDeleteLocal, CliAction, CliGets
  <2>2. /\ Elems(s2c') \subseteq Elems(s2c)
        /\ \E type \in {"READY", "OK"} : Elems(c2s') = Elems(c2s) \union {Plain(type)}
    BY <1>1, <2>1, ElemsOf, MessageTypes
  <2> QED
    BY <1>3, <2>2, MessageContents
<1>15. CASE CliFile
  <2>1. (\A m \in Elems(s2c') : m \in Elems(s2c) \/ m.type = "JUNK") /\ c2s' = c2s
    BY <1>1, <1>15, AfterBody DEF CliFile, CliGets
  <2> QED
    BY <1>3, <2>1
<1>16. CASE CliSwap
  <2>1. Elems(c2s') = Elems(c2s) \union {Plain("OK")} /\ s2c' = s2c
    BY <1>1, <1>16, ElemsOf, MessageTypes DEF CliSwap
  <2> QED
    BY <1>3, <2>1, MessageContents
<1>17. CASE CliUpload
  <2> DEFINE p == Head(s2c).path
             m == PutMsg(p, items[p], cdisk[p])
  <2>1. /\ s2c # <<>> /\ s2c' = Tail(s2c) /\ c2s' = Append(c2s, m)
        /\ items[p] # None /\ cdisk[p] # None /\ p \in Path
    BY <1>1, <1>17, StreamTypes, MessageFields DEF CliUpload, CliAction, CliGets, Uploadable
  <2>2. items[p] \in I /\ cdisk[p] \in F /\ items[p] \in Item /\ cdisk[p] \in File
    BY <2>1 DEF ItemsIn, FilesIn, TypeInv, Manifest
  <2>3. m \in Message /\ m.type = "PUT" /\ m.item = items[p] /\ m.file = cdisk[p]
    BY <2>1, <2>2, MessageTypes DEF PutMsg
  <2>4. Elems(c2s') = Elems(c2s) \union {m} /\ Elems(s2c') \subseteq Elems(s2c)
    BY <1>1, <2>1, <2>3, ElemsOf
  <2> QED
    BY <2>2, <2>3, <2>4 DEF SentIn
<1> QED
  BY <1>4, <1>5, <1>6, <1>7, <1>8, <1>9, <1>10, <1>11, <1>12, <1>13, <1>14, <1>15,
     <1>16, <1>17
     DEF Next, SrvStep, CliStep

\* Sets of files and items that are closed under what the code computes hold
\* all that is anywhere: in the trees, listed, cached, planned or in flight.
LEMMA DerivedInit ==
    ASSUME NEW F, NEW I, Init
    PROVE  Derived(F, I)
<1>1. Elems(s2c) = {} /\ Elems(c2s) = {}
  BY Defaults, ElemsOf DEF Init
<1>2. /\ \A p \in Path : NoManifest[p] = None /\ NoActs[p].item = None
      /\ NoDl.item = None
  BY DEF NoManifest, NoActs, NoAct, Act, NoDl
<1> QED
  BY <1>1, <1>2 DEF Init, Derived, FilesIn, ItemsIn, SentIn

LEMMA DerivedStep ==
    ASSUME NEW F, NEW I, Closed(F, I), TypeInv, TypeInv', Derived(F, I), [Next]_vars
    PROVE  Derived(F, I)'
<1>1. FilesIn(F)'
  BY FilesStep
<1>2. ItemsIn(I)'
  BY <1>1, ItemsStep
<1>3. SentIn(F, I)'
  BY <1>2, SentStep
<1> QED
  BY <1>1, <1>2, <1>3 DEF Derived

-----------------------------------------------------------------------------
(* Streams with at most one message of a kind.                             *)

LEMMA OnlyLastOf ==
    ASSUME NEW s \in Seq(Message), NEW types
    PROVE  /\ OnlyLast(<<>>, types)
           /\ Without(s, types) => OnlyLast(s, types)
           /\ \A m \in Message : Without(s, types) => OnlyLast(Append(s, m), types)
           /\ s # <<>> /\ OnlyLast(s, types) => OnlyLast(Tail(s), types)
           /\ s # <<>> /\ OnlyLast(s, types) /\ Head(s).type \in types => Tail(s) = <<>>
<1>1. OnlyLast(<<>>, types)
  BY DEF OnlyLast
<1>2. Without(s, types) => OnlyLast(s, types)
  BY DEF Without, OnlyLast, Elems
<1>3. ASSUME NEW m \in Message, Without(s, types)
      PROVE  OnlyLast(Append(s, m), types)
  <2>1. /\ Len(s) \in Nat
        /\ Len(Append(s, m)) = Len(s) + 1
        /\ \A i \in 1..Len(s) : Append(s, m)[i] = s[i]
    OBVIOUS
  <2>2. \A i \in 1..(Len(s) + 1) : i # Len(s) + 1 => i \in 1..Len(s)
    BY <2>1
  <2> QED
    BY <1>3, <2>1, <2>2 DEF Without, OnlyLast, Elems
<1>4. ASSUME s # <<>>, OnlyLast(s, types)
      PROVE  /\ OnlyLast(Tail(s), types)
             /\ Head(s).type \in types => Tail(s) = <<>>
  <2>1. Len(s) \in Nat \ {0} /\ Head(s) = s[1]
    BY <1>4, EmptySeq
  <2>2. /\ Tail(s) \in Seq(Message)
        /\ Len(Tail(s)) = Len(s) - 1
        /\ \A i \in 1..Len(Tail(s)) : Tail(s)[i] = s[i + 1]
    BY <1>4, HeadTailProperties
  <2> DEFINE n == Len(s)
             k == Len(Tail(s))
  <2>3. n \in Nat \ {0} /\ k = n - 1
    BY <2>1, <2>2
  <2>4. \A i \in 1..Len(Tail(s)) : i + 1 \in 1..Len(s)
    BY <2>1, <2>2
  <2>5. OnlyLast(Tail(s), types)
    <3> SUFFICES ASSUME NEW i \in 1..Len(Tail(s)), Tail(s)[i].type \in types
                 PROVE  i = Len(Tail(s))
      BY SMTT(30) DEF OnlyLast
    <3>1. i \in 1..k /\ i + 1 = n
      BY <1>4, <2>2, <2>4 DEF OnlyLast
    <3>2. i = k
      <4> HIDE DEF n, k
      <4> QED
        BY <2>3, <3>1
    <3> QED
      BY <3>2
  <2>6. ASSUME Head(s).type \in types
        PROVE  Tail(s) = <<>>
    <3>1. 1 \in 1..n
      <4> HIDE DEF n, k
      <4> QED
        BY <2>3
    <3>2. 1 = n
      BY <1>4, <2>1, <2>6, <3>1 DEF OnlyLast
    <3>3. k = 0
      <4> HIDE DEF n, k
      <4> QED
        BY <2>3, <3>2
    <3> QED
      BY <2>2, <3>3, EmptySeq
  <2> QED
    BY <2>5, <2>6
<1> QED
  BY <1>1, <1>2, <1>3, <1>4

LEMMA WithoutOf ==
    ASSUME NEW s \in Seq(Message), NEW types
    PROVE  /\ Without(<<>>, types)
           /\ \A m \in Message : m.type \notin types =>
                (Without(Append(s, m), types) <=> Without(s, types))
           /\ s # <<>> /\ Without(s, types) => Without(Tail(s), types)
           /\ s # <<>> /\ Head(s).type \in types => ~Without(s, types)
BY ElemsOf DEF Without

\* After the only message of a kind has been consumed, nothing of it is left
\* but junk.
LEMMA BodyConsumed ==
    ASSUME NEW s \in Seq(Message), NEW types, s # <<>>, OnlyLast(s, types),
           Head(s).type \in types, NEW f, NEW n, NEW others, "JUNK" \notin others
    PROVE  LET rest == Leftover(f, n) \o Tail(s)
           IN  Without(rest, others) /\ OnlyLast(rest, others)
<1>1. Tail(s) = <<>>
  BY OnlyLastOf
<1>2. Leftover(f, n) \in Seq(Message)
  BY LeftoverType
<1>3. Leftover(f, n) \o Tail(s) = Leftover(f, n)
  <2> DEFINE u == Leftover(f, n)
  <2> HIDE DEF u
  <2>1. u \o <<>> = u
    BY <1>2, ConcatEmptySeq DEF u
  <2> QED
    BY <1>1, <2>1 DEF u
<1>4. Without(Leftover(f, n), others)
  BY LeftoverElems DEF Without
<1> QED
  BY <1>2, <1>3, <1>4, OnlyLastOf

LEMMA GreetingSent ==
    ASSUME NEW s \in Seq(Message), NEW types, Without(s, types),
           "HELLO" \notin types, "UPDATECHECK" \notin types
    PROVE  LET sent == s \o <<Plain("HELLO"), Plain("UPDATECHECK")>>
           IN  Without(sent, types) /\ OnlyLast(sent, types)
<1> DEFINE sent == s \o <<Plain("HELLO"), Plain("UPDATECHECK")>>
<1>1. sent \in Seq(Message)
  BY MessageTypes
<1>2. Without(sent, types)
  BY AfterGreeting, MessageContents DEF Without
<1> QED
  BY <1>1, <1>2, OnlyLastOf

-----------------------------------------------------------------------------
(* How a step keeps the parts of Lockstep.                                 *)

\* With no request and no answer in the streams there is nothing to agree on.
LEMMA QuietStreams ==
    ASSUME s2c' \in Seq(Message), c2s' \in Seq(Message),
           Without(s2c', {"ACTION", "FILE"}), Without(c2s', Replies)
    PROVE  OneAction' /\ OneBody' /\ OneReply'
<1>1. OnlyLast(s2c', {"ACTION", "FILE"}) /\ OnlyLast(c2s', Replies)
  BY OnlyLastOf
<1>2. OneAction'
  BY <1>1 DEF OneAction, Without
<1>3. OneBody'
  BY DEF OneBody, Without
<1>4. OneReply'
  BY <1>1 DEF OneReply
<1> QED
  BY <1>2, <1>3, <1>4

\* The streams are quiet unless the thread waits for an answer, ...
LEMMA QuietUnlessWaiting ==
    ASSUME OneAction, OneBody, OneReply, spc \notin {"ready", "put", "ok"}
    PROVE  Without(s2c, {"ACTION", "FILE"}) /\ Without(c2s, Replies)
BY DEF OneAction, OneBody, OneReply, Without, Awaits

\* ... and from the server's side while an answer is on its way.
LEMMA QuietOnceAnswered ==
    ASSUME OneAction, OneBody, ~Without(c2s, Replies)
    PROVE  Without(s2c, {"ACTION", "FILE"})
BY DEF OneAction, OneBody, Without

LEMMA SameManifestKept ==
    ASSUME SameManifest, UNCHANGED <<items, cm>>, spc' \in Merging => spc \in Merging,
           \A m \in Elems(c2s') : m.type = "MANIFEST" => m \in Elems(c2s)
    PROVE  SameManifest'
BY DEF SameManifest

\* Announcing an action to a quiet client.
LEMMA Announced ==
    ASSUME TypeInv, Lockstep, NEW p \in Path, spc = "next",
           s2c' = Append(s2c, ActionMsg(p, acts[p])), c2s' = c2s,
           spc' = Awaits(acts[p].kind), cur' = p,
           UNCHANGED <<cm, acts, client>>
    PROVE  Lockstep'
<1> DEFINE m == ActionMsg(p, acts[p])
<1>1. s2c \in Seq(Message) /\ m \in Message
  BY MessageTypes DEF TypeInv
<1>2. m.type = "ACTION" /\ m.path = p /\ m.act = acts[p]
  BY MessageContents
<1>3. /\ OneAction /\ OneBody /\ OneReply /\ OneDownload
      /\ Without(s2c, {"ACTION", "FILE"}) /\ Without(c2s, Replies)
  BY QuietUnlessWaiting DEF Lockstep
<1>4. Elems(s2c') = Elems(s2c) \union {m} /\ Elems(c2s') = Elems(c2s)
  BY <1>1, ElemsOf
<1>5. OneAction'
  <2>1. OnlyLast(s2c', {"ACTION", "FILE"})
    BY <1>1, <1>3, OnlyLastOf
  <2> QED
    BY <2>1, <1>2, <1>3, <1>4 DEF OneAction, Without
<1>6. OneBody'
  BY <1>2, <1>3, <1>4 DEF OneBody, Without
<1>7. OneReply'
  BY <1>3, <1>4 DEF OneReply, Without
<1>8. OneDownload'
  <2>1. cpc \notin {"file", "swap"}
    BY <1>3 DEF OneDownload
  <2> QED
    BY <2>1 DEF OneDownload, client, Awaits
<1>9. Opening'
  BY DEF Lockstep, Opening, client
<1>10. SameManifest'
  BY SameManifestKept DEF Lockstep, Merging, client
<1> QED
  BY <1>5, <1>6, <1>7, <1>8, <1>9, <1>10 DEF Lockstep

\* Answering the announced action; nothing else is on its way.
LEMMA Answered ==
    ASSUME TypeInv, Lockstep, s2c # <<>>, Head(s2c).type = "ACTION",
           NEW m \in Message, m.type \in Replies,
           s2c' = Tail(s2c), c2s' = Append(c2s, m), UNCHANGED server
    PROVE  spc # "idle" =>
             /\ OneAction' /\ OneBody' /\ OneReply'
             /\ Elems(s2c') = {} /\ Elems(c2s') = Elems(c2s) \union {m}
             /\ Without(c2s, Replies)
             /\ Head(s2c).path = cur /\ Head(s2c).act = acts[cur]
             /\ spc = Awaits(acts[cur].kind)
<1> SUFFICES ASSUME spc # "idle"
             PROVE  /\ OneAction' /\ OneBody' /\ OneReply'
                    /\ Elems(s2c') = {} /\ Elems(c2s') = Elems(c2s) \union {m}
                    /\ Without(c2s, Replies)
                    /\ Head(s2c).path = cur /\ Head(s2c).act = acts[cur]
                    /\ spc = Awaits(acts[cur].kind)
  OBVIOUS
<1>1. s2c \in Seq(Message) /\ c2s \in Seq(Message) /\ Head(s2c) \in Elems(s2c)
  BY ElemsOf DEF TypeInv
<1>2. OneAction
  BY DEF Lockstep
<1>3. /\ Head(s2c).path = cur /\ Head(s2c).act = acts[cur]
      /\ spc = Awaits(acts[cur].kind)
      /\ Without(c2s, Replies)
  BY <1>1, <1>2 DEF OneAction
<1>4. s2c' = <<>>
  BY <1>1, <1>2, OnlyLastOf DEF OneAction
<1>5. Elems(s2c') = {} /\ Elems(c2s') = Elems(c2s) \union {m}
  BY <1>1, <1>4, ElemsOf
<1>6. OneAction'
  <2>1. OnlyLast(s2c', {"ACTION", "FILE"})
    BY <1>1, <1>4, OnlyLastOf
  <2> QED
    BY <2>1, <1>5 DEF OneAction
<1>7. OneBody'
  BY <1>5 DEF OneBody, Without
<1>8. OneReply'
  <2>1. OnlyLast(c2s', Replies)
    BY <1>1, <1>3, OnlyLastOf
  <2>2. spc' \in {"ready", "put", "ok"}
    BY <1>3 DEF Awaits, server
  <2> QED
    BY <2>1, <2>2 DEF OneReply
<1> QED
  BY <1>3, <1>5, <1>6, <1>7, <1>8

-----------------------------------------------------------------------------
(* The invariant.                                                          *)

LEMMA LockstepStep ==
    ASSUME TypeInv, TypeInv', Lockstep, [Next]_vars
    PROVE  Lockstep'
<1>1. CASE Connect
  <2>1. s2c' = <<Plain("HELLO")>> /\ c2s' = <<>> /\ cpc' = "hello" /\ spc' = "hello"
    BY <1>1 DEF Connect
  <2>2. Elems(c2s') = {} /\ Elems(s2c') = {Plain("HELLO")}
    BY <2>1, Defaults, ElemsOf, MessageTypes
  <2>3. \A m \in Elems(s2c') : m.type = "HELLO"
    BY <2>2, MessageContents
  <2>4. Without(s2c', {"ACTION", "FILE"}) /\ Without(s2c', {"ACTION"})
    BY <2>3 DEF Without
  <2>5. Without(c2s', Replies) /\ Without(c2s', {"MANIFEST"})
    BY <2>2 DEF Without
  <2>6. OneAction' /\ OneBody' /\ OneReply'
    BY <2>4, <2>5, QuietStreams DEF TypeInv
  <2>7. Opening' /\ SameManifest' /\ OneDownload'
    BY <2>1, <2>2, <2>4, <2>5 DEF Opening, SameManifest, OneDownload, Merging
  <2> QED
    BY <2>6, <2>7 DEF Lockstep
<1>2. CASE SrvHello
  BY <1>2, ElemsOf, WithoutOf, OnlyLastOf
     DEF SrvHello, SrvGets, client, ghosts, Lockstep, Opening, SameManifest,
         OneAction, OneBody, OneReply, OneDownload, Merging, Replies,
         TypeInv, Awaits
<1>3. CASE SrvUpdateCheck
  <2>1. /\ spc = "check" /\ spc' = "manifest" /\ c2s # <<>> /\ c2s' = Tail(c2s)
        /\ s2c' = Append(s2c, Plain("UPDATE"))
        /\ UNCHANGED <<cm, acts, cur, client>>
    BY <1>3 DEF SrvUpdateCheck, SrvGets
  <2>2. /\ Lockstep /\ OneAction /\ OneBody /\ OneReply /\ OneDownload
        /\ Without(s2c, {"ACTION", "FILE"}) /\ Without(c2s, Replies)
    BY <2>1, QuietUnlessWaiting DEF Lockstep
  <2>3. /\ Elems(s2c') = Elems(s2c) \union {Plain("UPDATE")}
        /\ Elems(c2s') \subseteq Elems(c2s)
    BY <2>1, ElemsOf, MessageTypes DEF TypeInv
  <2>4. Without(s2c', {"ACTION", "FILE"}) /\ Without(c2s', Replies)
    BY <2>2, <2>3, MessageContents DEF Without
  <2>5. OneAction' /\ OneBody' /\ OneReply'
    BY <2>4, QuietStreams DEF TypeInv
  <2>6. Opening'
    BY <2>1, <2>2, <2>3, <2>4 DEF Lockstep, Opening, Without, client
  <2>7. SameManifest'
    BY <2>1, <2>2, <2>3, SameManifestKept DEF Lockstep, Merging, client
  <2>8. OneDownload'
    BY <2>1, <2>2 DEF OneDownload, client
  <2> QED
    BY <2>5, <2>6, <2>7, <2>8 DEF Lockstep
<1>4. CASE SrvManifest
  BY <1>4, ElemsOf, WithoutOf, OnlyLastOf
     DEF SrvManifest, SrvGets, client, ghosts, Lockstep, Opening,
         SameManifest, OneAction, OneBody, OneReply, OneDownload, Merging,
         Replies, TypeInv, Awaits
<1>5. CASE SrvLoad
  BY <1>5
     DEF SrvLoad, client, wire, Lockstep, Opening, SameManifest, OneAction,
         OneBody, OneReply, OneDownload, Merging, Replies, Awaits
<1>6. CASE SrvPublish
  BY <1>6
     DEF SrvPublish, client, wire, ghosts, Lockstep, Opening, SameManifest,
         OneAction, OneBody, OneReply, OneDownload, Merging, Replies, Awaits
<1>7. ASSUME NEW p \in Path, SrvAnnounce(p)
      PROVE  Lockstep'
  <2>1. /\ spc = "next" /\ spc' = Awaits(acts[p].kind) /\ cur' = p
        /\ s2c' = Append(s2c, ActionMsg(p, acts[p])) /\ c2s' = c2s
        /\ UNCHANGED <<cm, acts, client>>
    BY <1>7 DEF SrvAnnounce
  <2> QED
    BY <2>1, Announced
<1>8. ASSUME NEW p \in Path, SrvDeleteRemote(p)
      PROVE  Lockstep'
  <2>1. /\ spc = "next" /\ spc' = Awaits(acts[p].kind) /\ cur' = p
        /\ s2c' = Append(s2c, ActionMsg(p, acts[p])) /\ c2s' = c2s
        /\ UNCHANGED <<cm, acts, client>>
    BY <1>8 DEF SrvDeleteRemote, Awaits
  <2> QED
    BY <2>1, Announced
<1>9. CASE SrvSendFile
  <2> DEFINE m == FileMsg(sdisk[cur])
  <2>1. /\ spc = "ready" /\ spc' = "ok" /\ c2s # <<>> /\ Head(c2s).type = "READY"
        /\ c2s' = Tail(c2s) /\ s2c' = Append(s2c, m)
        /\ UNCHANGED <<cm, acts, cur, client>>
    BY <1>9 DEF SrvSendFile, SrvGets
  <2>2. OneAction /\ OneBody /\ OneReply /\ OneDownload
    BY <2>1 DEF Lockstep
  <2>3. /\ m \in Message /\ m.type = "FILE" /\ s2c \in Seq(Message) /\ c2s \in Seq(Message)
    BY <1>9, <2>1, MessageTypes, MessageContents DEF SrvSendFile, TypeInv
  <2>4. ~Without(c2s, Replies) /\ c2s' = <<>> /\ Without(s2c, {"ACTION", "FILE"})
    <3>1. ~Without(c2s, Replies)
      BY <2>1, <2>3, WithoutOf DEF Replies
    <3>2. c2s' = <<>>
      BY <2>1, <2>2, <2>3, OnlyLastOf DEF OneReply, Replies
    <3> QED
      BY <2>2, <3>1, <3>2, QuietOnceAnswered
  <2>5. Elems(c2s') = {} /\ Elems(s2c') = Elems(s2c) \union {m}
    BY <2>1, <2>3, <2>4, ElemsOf
  <2>6. cpc # "swap"
    BY <2>2, <2>4 DEF OneDownload
  <2>7. OneAction'
    <3>1. OnlyLast(s2c', {"ACTION", "FILE"})
      BY <2>1, <2>3, <2>4, OnlyLastOf
    <3> QED
      BY <2>3, <2>4, <2>5, <3>1 DEF OneAction, Without
  <2>8. OneBody'
    BY <2>1, <2>2, <2>5, <2>6 DEF OneBody, OneDownload, Without, client
  <2>9. OneReply'
    BY <2>3, <2>4, <2>5, OnlyLastOf DEF OneReply, Without
  <2>10. OneDownload'
    BY <2>1, <2>2, <2>3, <2>4, <2>5, <2>6 DEF OneDownload, Without, client
  <2>11. Opening'
    BY <2>1 DEF Lockstep, Opening, client
  <2>12. SameManifest'
    BY <2>1, <2>5, SameManifestKept DEF Lockstep, Merging, client
  <2> QED
    BY <2>7, <2>8, <2>9, <2>10, <2>11, <2>12 DEF Lockstep
<1>10. CASE SrvFileGone
  BY <1>10, ElemsOf, WithoutOf, OnlyLastOf
     DEF SrvFileGone, SrvQuit, SrvReturn, SrvGets, client, ghosts, Lockstep,
         Opening, SameManifest, OneAction, OneBody, OneReply, OneDownload,
         Merging, Replies, TypeInv, Awaits
<1>11. CASE SrvOk
  <2>1. /\ spc = "ok" /\ spc' = "next" /\ c2s # <<>> /\ Head(c2s).type = "OK"
        /\ c2s' = Tail(c2s)
        /\ UNCHANGED <<cm, acts, cur, client, s2c>>
    BY <1>11 DEF SrvOk, SrvGets
  <2>2. OneAction /\ OneBody /\ OneReply /\ OneDownload
    BY <2>1 DEF Lockstep
  <2>3. ~Without(c2s, Replies) /\ ~Without(c2s, {"OK"}) /\ c2s' = <<>>
    <3>1. c2s \in Seq(Message) /\ OnlyLast(c2s, Replies) /\ Head(c2s).type \in Replies
      BY <2>1, <2>2 DEF OneReply, Replies, TypeInv
    <3>2. ~Without(c2s, Replies) /\ ~Without(c2s, {"OK"})
      BY <2>1, <3>1, WithoutOf
    <3> QED
      BY <2>1, <3>1, <3>2, OnlyLastOf
  <2>4. Without(s2c', {"ACTION", "FILE"}) /\ Elems(c2s') = {}
    BY <2>1, <2>2, <2>3, QuietOnceAnswered, Defaults, ElemsOf
  <2>5. OneAction' /\ OneBody' /\ OneReply'
    BY <2>4, QuietStreams DEF Without, TypeInv
  <2>6. OneDownload'
    BY <2>1, <2>2, <2>3 DEF OneDownload, client
  <2>7. Opening'
    BY <2>1 DEF Lockstep, Opening, client
  <2>8. SameManifest'
    BY <2>1, <2>4, SameManifestKept DEF Lockstep, Merging, client
  <2> QED
    BY <2>5, <2>6, <2>7, <2>8 DEF Lockstep
<1>12. CASE SrvPut
  <2>1. /\ spc = "put" /\ spc' = "next" /\ c2s # <<>> /\ Head(c2s).type = "PUT"
        /\ s2c' = Append(s2c, Plain("OK"))
        /\ UNCHANGED <<cm, acts, cur, client>>
    BY <1>12, SMTT(30) DEF SrvPut, SrvGets
  <2>2. PICK f, n : c2s' = Leftover(f, n) \o Tail(c2s)
    BY <1>12 DEF SrvPut
  <2>3. OneAction /\ OneBody /\ OneReply /\ OneDownload
    BY <2>1 DEF Lockstep
  <2>4. s2c \in Seq(Message) /\ c2s \in Seq(Message)
    BY DEF TypeInv
  <2>5. Without(c2s', Replies) /\ Without(c2s', {"MANIFEST"})
    <3>1. OnlyLast(c2s, Replies) /\ Head(c2s).type \in Replies
      BY <2>1, <2>3 DEF OneReply, Replies
    <3>2. "JUNK" \notin Replies /\ "JUNK" \notin {"MANIFEST"}
      BY DEF Replies
    <3>3. Without(Leftover(f, n) \o Tail(c2s), Replies)
      BY <2>1, <2>4, <3>1, <3>2, BodyConsumed
    <3>4. Without(Leftover(f, n) \o Tail(c2s), {"MANIFEST"})
      BY <2>1, <2>4, <3>1, <3>2, BodyConsumed
    <3> QED
      BY <2>2, <3>3, <3>4
  <2>6. Without(s2c', {"ACTION", "FILE"})
    <3>1. ~Without(c2s, Replies)
      BY <2>1, <2>4, WithoutOf DEF Replies
    <3>2. Without(s2c, {"ACTION", "FILE"})
      BY <2>3, <3>1, QuietOnceAnswered
    <3> QED
      BY <2>1, <2>4, <3>2, WithoutOf, MessageTypes, MessageContents
  <2>7. OneAction' /\ OneBody' /\ OneReply'
    BY <2>5, <2>6, QuietStreams DEF TypeInv
  <2>8. OneDownload'
    BY <2>1, <2>3 DEF OneDownload, client
  <2>9. Opening'
    BY <2>1 DEF Lockstep, Opening, client
  <2>10. SameManifest'
    BY <2>1, <2>5, SameManifestKept DEF Lockstep, Merging, Without, client
  <2> QED
    BY <2>7, <2>8, <2>9, <2>10 DEF Lockstep
<1>13. CASE SrvPutRefused
  BY <1>13, ElemsOf, WithoutOf, OnlyLastOf
     DEF SrvPutRefused, SrvQuit, SrvReturn, SrvGets, client, ghosts,
         Lockstep, Opening, SameManifest, OneAction, OneBody, OneReply,
         OneDownload, Merging, Replies, TypeInv, Awaits
<1>14. CASE SrvReplace
  BY <1>14
     DEF SrvReplace, client, wire, ghosts, Lockstep, Opening, SameManifest,
         OneAction, OneBody, OneReply, OneDownload, Merging, Replies, Awaits
<1>15. CASE SrvTruncate
  BY <1>15
     DEF SrvTruncate, client, wire, ghosts, Lockstep, Opening, SameManifest,
         OneAction, OneBody, OneReply, OneDownload, Merging, Replies, Awaits
<1>16. CASE SrvSave
  BY <1>16, ElemsOf, WithoutOf, OnlyLastOf, MessageTypes, MessageContents
     DEF SrvSave, SrvReturn, client, ghosts, Lockstep, Opening,
         SameManifest, OneAction, OneBody, OneReply, OneDownload, Merging,
         Replies, TypeInv, Awaits
<1>17. CASE SrvUnexpected
  BY <1>17
     DEF SrvUnexpected, SrvQuit, SrvReturn, client, ghosts, Lockstep,
         Opening, SameManifest, OneAction, OneBody, OneReply, OneDownload,
         Merging, Replies, Awaits
<1>18. CASE SrvHangup
  BY <1>18
     DEF SrvHangup, SrvQuit, SrvReturn, client, ghosts, Lockstep, Opening,
         SameManifest, OneAction, OneBody, OneReply, OneDownload, Merging,
         Replies, Awaits
<1>19. CASE SrvError
  BY <1>19
     DEF SrvError, SrvQuit, SrvReturn, client, ghosts, Lockstep, Opening,
         SameManifest, OneAction, OneBody, OneReply, OneDownload, Merging,
         Replies, Awaits
<1>20. CASE SrvCrash
  BY <1>20
     DEF SrvCrash, SrvQuit, SrvReturn, client, ghosts, Lockstep, Opening,
         SameManifest, OneAction, OneBody, OneReply, OneDownload, Merging,
         Replies, Awaits
<1>21. CASE ScanTree
  BY <1>21
     DEF ScanTree, server, client, wire, ghosts, Lockstep, Opening,
         SameManifest, OneAction, OneBody, OneReply, OneDownload, Merging,
         Replies, Awaits
<1>22. CASE ScanPublish
  BY <1>22
     DEF ScanPublish, server, client, wire, ghosts, Lockstep, Opening,
         SameManifest, OneAction, OneBody, OneReply, OneDownload, Merging,
         Replies, Awaits
<1>23. CASE ScanError
  BY <1>23
     DEF ScanError, server, client, wire, ghosts, Lockstep, Opening,
         SameManifest, OneAction, OneBody, OneReply, OneDownload, Merging,
         Replies, Awaits
<1>24. CASE CliHello
  <2>1. /\ cpc = "hello" /\ cpc' = "update" /\ s2c # <<>> /\ s2c' = Tail(s2c)
        /\ c2s' = c2s \o <<Plain("HELLO"), Plain("UPDATECHECK")>>
        /\ UNCHANGED <<server, items>>
    BY <1>24 DEF CliHello, CliGets
  <2>2. /\ spc \in {"idle", "hello", "check", "manifest"}
        /\ Without(s2c, {"ACTION"}) /\ Without(c2s, {"MANIFEST"})
    BY <2>1 DEF Lockstep, Opening
  <2>3. s2c \in Seq(Message) /\ c2s \in Seq(Message)
    BY DEF TypeInv
  <2>4. Without(s2c', {"ACTION"}) /\ Without(c2s', {"MANIFEST"})
    BY <2>1, <2>2, <2>3, WithoutOf, GreetingSent
  <2>5. Opening'
    BY <2>1, <2>2, <2>4 DEF Opening, server
  <2>6. SameManifest'
    BY <2>1, <2>2, <2>4 DEF SameManifest, Merging, Without, server
  <2>7. ASSUME spc # "idle"
        PROVE  OneAction' /\ OneBody' /\ OneReply' /\ OneDownload'
    <3>1. Without(s2c, {"ACTION", "FILE"}) /\ Without(c2s, Replies)
      BY <2>2, <2>7, QuietUnlessWaiting DEF Lockstep
    <3>2. Without(s2c', {"ACTION", "FILE"}) /\ Without(c2s', Replies)
      <4>1. "HELLO" \notin Replies /\ "UPDATECHECK" \notin Replies
        BY DEF Replies
      <4>2. Without(c2s', Replies)
        BY <2>1, <2>3, <3>1, <4>1, GreetingSent
      <4> QED
        BY <2>1, <2>3, <3>1, <4>2, WithoutOf
    <3>3. OneDownload'
      BY <2>1, <2>2 DEF OneDownload, server
    <3> QED
      BY <3>2, <3>3, QuietStreams DEF TypeInv
  <2> QED
    BY <2>1, <2>5, <2>6, <2>7 DEF Lockstep, server
<1>25. CASE CliScan
  <2>1. /\ cpc = "update" /\ cpc' = "loop" /\ s2c # <<>> /\ s2c' = Tail(s2c)
        /\ c2s' = Append(c2s, ManifestMsg(items'))
        /\ UNCHANGED server
    BY <1>25 DEF CliScan, CliGets
  <2>2. /\ spc \in {"idle", "hello", "check", "manifest"}
        /\ Without(c2s, {"MANIFEST"})
    BY <2>1 DEF Lockstep, Opening
  <2>3. /\ s2c \in Seq(Message) /\ c2s \in Seq(Message)
        /\ ManifestMsg(items') \in Message
    BY MessageTypes DEF TypeInv
  <2>4. Elems(c2s') = Elems(c2s) \union {ManifestMsg(items')}
    BY <2>1, <2>3, ElemsOf
  <2>5. Opening'
    BY <2>1 DEF Opening
  <2>6. SameManifest'
    BY <2>1, <2>2, <2>4, MessageContents DEF SameManifest, Merging, Without, server
  <2>7. ASSUME spc # "idle"
        PROVE  OneAction' /\ OneBody' /\ OneReply' /\ OneDownload'
    <3>1. Without(s2c, {"ACTION", "FILE"}) /\ Without(c2s, Replies)
      BY <2>2, <2>7, QuietUnlessWaiting DEF Lockstep
    <3>2. Without(s2c', {"ACTION", "FILE"})
      BY <2>1, <2>3, <3>1, WithoutOf
    <3>3. Without(c2s', Replies)
      BY <2>4, <3>1, MessageContents DEF Replies, Without
    <3>4. OneDownload'
      BY <2>1, <2>2 DEF OneDownload, server
    <3> QED
      BY <3>2, <3>3, <3>4, QuietStreams DEF TypeInv
  <2> QED
    BY <2>1, <2>5, <2>6, <2>7 DEF Lockstep, server
<1>26. CASE CliScanFails
  BY <1>26, ElemsOf, WithoutOf, OnlyLastOf
     DEF CliScanFails, CliQuit, CliReturn, CliGets, server, ghosts,
         Lockstep, Opening, SameManifest, OneAction, OneBody, OneReply,
         OneDownload, Merging, Replies, TypeInv, Awaits
<1>27. CASE CliDownload
  <2> DEFINE m == Plain("READY")
  <2>1. /\ cpc = "loop" /\ cpc' = "file" /\ s2c # <<>> /\ Head(s2c).type = "ACTION"
        /\ s2c' = Tail(s2c) /\ c2s' = Append(c2s, m)
        /\ UNCHANGED <<server, items>>
    BY <1>27 DEF CliDownload, CliAction, CliGets
  <2>2. m \in Message /\ m.type \in Replies /\ m.type # "MANIFEST"
    BY MessageTypes, MessageContents DEF Replies
  <2> HIDE DEF m
  <2>3. Elems(c2s') = Elems(c2s) \union {m}
    BY <2>1, <2>2, ElemsOf DEF TypeInv
  <2>4. spc # "idle" =>
          /\ OneAction' /\ OneBody' /\ OneReply'
          /\ Elems(s2c') = {} /\ Without(c2s, Replies)
          /\ Head(s2c).path = cur /\ Head(s2c).act = acts[cur]
          /\ spc = Awaits(acts[cur].kind)
    BY <2>1, <2>2, Answered
  <2>5. Opening'
    BY <2>1 DEF Opening
  <2>6. SameManifest'
    BY <2>1, <2>2, <2>3, SameManifestKept DEF Lockstep, Merging, server
  <2>7. ASSUME spc # "idle"
        PROVE  OneDownload'
    <3>1. /\ acts[cur].kind = "download" /\ spc = "ready"
          /\ dl'.path = cur /\ dl'.item = acts[cur].item
      BY <1>27, <2>4, <2>7 DEF CliDownload, CliAction, Awaits
    <3>2. Without(s2c', {"ACTION"}) /\ Without(c2s', {"OK"})
      BY <2>4, <2>7, <2>3, MessageContents DEF Without, Replies, m
    <3> QED
      BY <2>1, <3>1, <3>2 DEF OneDownload, server
  <2> QED
    BY <2>1, <2>4, <2>5, <2>6, <2>7 DEF Lockstep, server
<1>28. CASE CliFile
  <2>1. /\ cpc = "file" /\ cpc' = "swap" /\ s2c # <<>> /\ Head(s2c).type = "FILE"
        /\ UNCHANGED <<server, items, dl, c2s>>
    BY <1>28 DEF CliFile, CliGets
  <2>2. PICK f, n : s2c' = Leftover(f, n) \o Tail(s2c)
    BY <1>28 DEF CliFile
  <2>3. Opening'
    BY <2>1 DEF Opening
  <2>4. SameManifest'
    BY <2>1, SameManifestKept DEF Lockstep, Merging, server
  <2>5. ASSUME spc # "idle"
        PROVE  OneAction' /\ OneBody' /\ OneReply' /\ OneDownload'
    <3>1. OneAction /\ OneBody /\ OneDownload /\ s2c \in Seq(Message)
      BY <2>5 DEF Lockstep, TypeInv
    <3>2. Without(c2s, Replies)
      BY <2>1, <3>1, WithoutOf DEF OneBody
    <3>3. OnlyLast(s2c, {"ACTION", "FILE"})
      BY <3>1 DEF OneAction
    <3>4. Without(s2c', {"ACTION", "FILE"}) /\ Without(s2c', {"ACTION"})
      BY <2>1, <2>2, <3>1, <3>3, BodyConsumed
    <3>5. OneDownload'
      BY <2>1, <3>1, <3>2, <3>4 DEF OneDownload, server
    <3> QED
      BY <2>1, <3>2, <3>4, <3>5, QuietStreams DEF TypeInv
  <2> QED
    BY <2>1, <2>3, <2>4, <2>5 DEF Lockstep, server
<1>29. CASE CliFileRefused
  BY <1>29, ElemsOf, WithoutOf, OnlyLastOf
     DEF CliFileRefused, CliQuit, CliReturn, CliGets, server, ghosts,
         Lockstep, Opening, SameManifest, OneAction, OneBody, OneReply,
         OneDownload, Merging, Replies, TypeInv, Awaits
<1>30. CASE CliSwap
  <2>1. /\ cpc = "swap" /\ cpc' = "loop" /\ c2s' = Append(c2s, Plain("OK"))
        /\ UNCHANGED <<server, items, s2c>>
    BY <1>30 DEF CliSwap
  <2>2. /\ c2s \in Seq(Message) /\ Plain("OK") \in Message
        /\ Plain("OK").type = "OK"
    BY MessageTypes, MessageContents DEF TypeInv
  <2>3. Elems(c2s') = Elems(c2s) \union {Plain("OK")}
    BY <2>1, <2>2, ElemsOf
  <2>4. Opening'
    BY <2>1 DEF Opening
  <2>5. SameManifest'
    BY <2>1, <2>2, <2>3, SameManifestKept DEF Lockstep, Merging, server
  <2>6. ASSUME spc # "idle"
        PROVE  OneAction' /\ OneBody' /\ OneReply' /\ OneDownload'
    <3>1. OneAction /\ OneBody /\ OneDownload
      BY <2>6 DEF Lockstep
    <3>2. /\ spc \in {"ready", "ok"} /\ Without(s2c, {"ACTION"})
          /\ Without(c2s, Replies)
      BY <2>1, <3>1 DEF OneDownload
    <3>3. Without(s2c', {"FILE"}) /\ Without(s2c', {"ACTION"})
      BY <2>1, <3>1, <3>2 DEF OneBody
    <3>4. OneAction'
      BY <2>1, <3>1, <3>3 DEF OneAction, Without
    <3>5. OneBody'
      BY <3>3 DEF OneBody
    <3>6. OneReply'
      <4>1. OnlyLast(c2s', Replies)
        BY <2>1, <2>2, <3>2, OnlyLastOf
      <4> QED
        BY <2>1, <3>2, <4>1 DEF OneReply, server
    <3>7. OneDownload'
      BY <2>1, <3>1 DEF OneDownload, server
    <3> QED
      BY <3>4, <3>5, <3>6, <3>7
  <2> QED
    BY <2>1, <2>4, <2>5, <2>6 DEF Lockstep, server
<1>31. CASE CliUpload
  <2> DEFINE m == PutMsg(Head(s2c).path, items[Head(s2c).path], cdisk[Head(s2c).path])
  <2>1. /\ cpc = "loop" /\ cpc' = "upok" /\ s2c # <<>> /\ Head(s2c).type = "ACTION"
        /\ s2c' = Tail(s2c) /\ c2s' = Append(c2s, m)
        /\ UNCHANGED <<server, items>>
    BY <1>31 DEF CliUpload, CliAction, CliGets
  <2>2. m \in Message /\ m.type \in Replies /\ m.type # "MANIFEST"
    BY <1>31, MessageTypes, MessageContents, MessageFields, StreamTypes
       DEF CliUpload, Uploadable, TypeInv, Manifest, Replies, CliAction, CliGets
  <2> HIDE DEF m
  <2>3. Elems(c2s') = Elems(c2s) \union {m}
    BY <2>1, <2>2, ElemsOf DEF TypeInv
  <2>4. spc # "idle" =>
          /\ OneAction' /\ OneBody' /\ OneReply'
          /\ Elems(s2c') = {} /\ Without(c2s, Replies)
          /\ Head(s2c).path = cur /\ Head(s2c).act = acts[cur]
          /\ spc = Awaits(acts[cur].kind)
    BY <2>1, <2>2, Answered
  <2>5. Opening'
    BY <2>1 DEF Opening
  <2>6. SameManifest'
    BY <2>1, <2>2, <2>3, SameManifestKept DEF Lockstep, Merging, server
  <2>7. ASSUME spc # "idle"
        PROVE  OneDownload'
    BY <2>1, <2>7 DEF Lockstep, OneDownload, server
  <2> QED
    BY <2>1, <2>4, <2>5, <2>6, <2>7 DEF Lockstep, server
<1>32. CASE CliUploadGone
  BY <1>32, ElemsOf, WithoutOf, OnlyLastOf
     DEF CliUploadGone, CliQuit, CliReturn, CliAction, CliGets, server,
         ghosts, Lockstep, Opening, SameManifest, OneAction, OneBody,
         OneReply, OneDownload, Merging, Replies, TypeInv, Awaits
<1>33. CASE CliUploadOk
  BY <1>33, ElemsOf, WithoutOf, OnlyLastOf
     DEF CliUploadOk, CliGets, server, ghosts, Lockstep, Opening,
         SameManifest, OneAction, OneBody, OneReply, OneDownload, Merging,
         Replies, TypeInv, Awaits
<1>34. CASE CliDeleteLocal
  <2> DEFINE m == Plain("OK")
  <2>1. /\ cpc = "loop" /\ cpc' = "loop" /\ s2c # <<>> /\ Head(s2c).type = "ACTION"
        /\ s2c' = Tail(s2c) /\ c2s' = Append(c2s, m)
        /\ UNCHANGED <<server, items>>
    BY <1>34 DEF CliDeleteLocal, CliAction, CliGets, client
  <2>2. m \in Message /\ m.type \in Replies /\ m.type # "MANIFEST"
    BY MessageTypes, MessageContents DEF Replies
  <2> HIDE DEF m
  <2>3. Elems(c2s') = Elems(c2s) \union {m}
    BY <2>1, <2>2, ElemsOf DEF TypeInv
  <2>4. spc # "idle" =>
          /\ OneAction' /\ OneBody' /\ OneReply'
          /\ Elems(s2c') = {} /\ Without(c2s, Replies)
          /\ Head(s2c).path = cur /\ Head(s2c).act = acts[cur]
          /\ spc = Awaits(acts[cur].kind)
    BY <2>1, <2>2, Answered
  <2>5. Opening'
    BY <2>1 DEF Opening
  <2>6. SameManifest'
    BY <2>1, <2>2, <2>3, SameManifestKept DEF Lockstep, Merging, server
  <2>7. ASSUME spc # "idle"
        PROVE  OneDownload'
    BY <2>1, <2>7 DEF Lockstep, OneDownload, server
  <2> QED
    BY <2>1, <2>4, <2>5, <2>6, <2>7 DEF Lockstep, server
<1>35. CASE CliNote
  <2> DEFINE m == Plain("OK")
  <2>1. /\ cpc = "loop" /\ cpc' = "loop" /\ s2c # <<>> /\ Head(s2c).type = "ACTION"
        /\ s2c' = Tail(s2c) /\ c2s' = Append(c2s, m)
        /\ UNCHANGED <<server, items>>
    BY <1>35 DEF CliNote, CliAction, CliGets, client
  <2>2. m \in Message /\ m.type \in Replies /\ m.type # "MANIFEST"
    BY MessageTypes, MessageContents DEF Replies
  <2> HIDE DEF m
  <2>3. Elems(c2s') = Elems(c2s) \union {m}
    BY <2>1, <2>2, ElemsOf DEF TypeInv
  <2>4. spc # "idle" =>
          /\ OneAction' /\ OneBody' /\ OneReply'
          /\ Elems(s2c') = {} /\ Without(c2s, Replies)
          /\ Head(s2c).path = cur /\ Head(s2c).act = acts[cur]
          /\ spc = Awaits(acts[cur].kind)
    BY <2>1, <2>2, Answered
  <2>5. Opening'
    BY <2>1 DEF Opening
  <2>6. SameManifest'
    BY <2>1, <2>2, <2>3, SameManifestKept DEF Lockstep, Merging, server
  <2>7. ASSUME spc # "idle"
        PROVE  OneDownload'
    BY <2>1, <2>7 DEF Lockstep, OneDownload, server
  <2> QED
    BY <2>1, <2>4, <2>5, <2>6, <2>7 DEF Lockstep, server
<1>36. CASE CliDone
  BY <1>36, ElemsOf, WithoutOf, OnlyLastOf
     DEF CliDone, CliQuit, CliReturn, CliGets, server, ghosts, Lockstep,
         Opening, SameManifest, OneAction, OneBody, OneReply, OneDownload,
         Merging, Replies, TypeInv, Awaits
<1>37. CASE CliUnexpected
  BY <1>37
     DEF CliUnexpected, CliQuit, CliReturn, server, ghosts, Lockstep,
         Opening, SameManifest, OneAction, OneBody, OneReply, OneDownload,
         Merging, Replies, Awaits
<1>38. CASE CliHangup
  BY <1>38
     DEF CliHangup, CliQuit, CliReturn, server, ghosts, Lockstep, Opening,
         SameManifest, OneAction, OneBody, OneReply, OneDownload, Merging,
         Replies, Awaits
<1>39. CASE CliError
  BY <1>39
     DEF CliError, CliQuit, CliReturn, server, ghosts, Lockstep, Opening,
         SameManifest, OneAction, OneBody, OneReply, OneDownload, Merging,
         Replies, Awaits
<1>40. CASE CliCrash
  BY <1>40
     DEF CliCrash, CliQuit, CliReturn, server, ghosts, Lockstep, Opening,
         SameManifest, OneAction, OneBody, OneReply, OneDownload, Merging,
         Replies, Awaits
<1>41. CASE ConnectionLost
  BY <1>41
     DEF ConnectionLost, server, client, ghosts, Lockstep, Opening,
         SameManifest, OneAction, OneBody, OneReply, OneDownload, Merging,
         Replies, Awaits
<1>42. ASSUME NEW p \in Path, UserWritesServer(p)
      PROVE  Lockstep'
  BY <1>42
     DEF UserWritesServer, UserEdit, server, client, wire, Lockstep,
         Opening, SameManifest, OneAction, OneBody, OneReply, OneDownload,
         Merging, Replies, Awaits
<1>43. ASSUME NEW p \in Path, UserDeletesServer(p)
      PROVE  Lockstep'
  BY <1>43
     DEF UserDeletesServer, UserEdit, server, client, wire, Lockstep,
         Opening, SameManifest, OneAction, OneBody, OneReply, OneDownload,
         Merging, Replies, Awaits
<1>44. ASSUME NEW p \in Path, UserWritesClient(p)
      PROVE  Lockstep'
  BY <1>44
     DEF UserWritesClient, UserEdit, server, client, wire, Lockstep,
         Opening, SameManifest, OneAction, OneBody, OneReply, OneDownload,
         Merging, Replies, Awaits
<1>45. ASSUME NEW p \in Path, UserDeletesClient(p)
      PROVE  Lockstep'
  BY <1>45
     DEF UserDeletesClient, UserEdit, server, client, wire, Lockstep,
         Opening, SameManifest, OneAction, OneBody, OneReply, OneDownload,
         Merging, Replies, Awaits
<1>46. CASE UNCHANGED vars
  BY <1>46
     DEF vars, server, client, wire, ghosts, Lockstep, Opening,
         SameManifest, OneAction, OneBody, OneReply, OneDownload, Merging,
         Replies
<1> QED
  BY <1>1, <1>2, <1>3, <1>4, <1>5, <1>6, <1>7, <1>8, <1>9, <1>10, <1>11,
     <1>12, <1>13, <1>14, <1>15, <1>16, <1>17, <1>18, <1>19, <1>20, <1>21,
     <1>22, <1>23, <1>24, <1>25, <1>26, <1>27, <1>28, <1>29, <1>30, <1>31,
     <1>32, <1>33, <1>34, <1>35, <1>36, <1>37, <1>38, <1>39, <1>40, <1>41,
     <1>42, <1>43, <1>44, <1>45, <1>46
     DEF Next, SrvStep, CliStep, FaultStep, UserStep

\* Through crashes, lost connections and new sessions, request and answer
\* alternate, the answer is to the action the thread waits for, and both sides
\* work from the same client manifest.
THEOREM LockstepInvariant == Spec => []Lockstep
<1>1. Init => Lockstep
  BY Defaults, ElemsOf, OnlyLastOf
     DEF Init, Lockstep, Opening, SameManifest, Without, Merging
<1>2. TypeInv /\ TypeInv' /\ Lockstep /\ [Next]_vars => Lockstep'
  BY LockstepStep
<1> QED
  BY <1>1, <1>2, TypeCorrect, PTL DEF Spec

-----------------------------------------------------------------------------
(* Streams with one or two messages.                                       *)

\* The stream u is the stream s with a message of the type added to it.
Longer(s, u, type) == /\ Empty(s) => One(u, type)
                      /\ \A first : One(s, first) => Two(u, first, type)

LEMMA Sent ==
    ASSUME NEW s \in Seq(Message), NEW m \in Message, NEW u, u = Append(s, m)
    PROVE  /\ Empty(<<>>)
           /\ One(<<m>>, m.type)
           /\ Longer(s, u, m.type)
<1>1. Empty(<<>>) /\ One(<<m>>, m.type)
  BY DEF Empty, One
<1>2. /\ Append(s, m) # <<>>
      /\ s = <<>> => Append(s, m) = <<m>>
      /\ s # <<>> => Head(Append(s, m)) = Head(s) /\ Tail(Append(s, m)) = Append(Tail(s), m)
  <2>1. Append(<<>>, m) = <<m>>
    OBVIOUS
  <2> QED
    <3>1. Append(s, m) # <<>>
      BY AppendProperties
    <3>2. s # <<>> => Head(Append(s, m)) = Head(s)
      BY HeadTailAppend
    <3>3. s # <<>> => Tail(Append(s, m)) = Append(Tail(s), m)
      BY HeadTailAppend
    <3>4. s = <<>> => Append(s, m) = <<m>>
      BY <2>1, Zenon
    <3> QED
      BY <3>1, <3>2, <3>3, <3>4, Zenon
<1>3. Junk(s) => Junk(Append(s, m))
  BY <1>2 DEF Junk
<1>4. Empty(s) => One(Append(s, m), m.type)
  BY <1>1, <1>2, <1>3 DEF Empty, One
<1>5. ASSUME NEW type, One(s, type)
      PROVE  Two(Append(s, m), type, m.type)
  <2>1. Head(<<m>>) = m /\ Tail(<<m>>) = <<>> /\ Append(<<>>, m) = <<m>> /\ <<m>> # <<>>
    OBVIOUS
  <2> QED
    BY <1>2, <1>3, <1>5, <2>1 DEF One, Two
<1> QED
  BY <1>1, <1>4, <1>5 DEF Longer

LEMMA Read ==
    ASSUME NEW s \in Seq(Message), s # <<>>, Head(s).type # "JUNK"
    PROVE  /\ ~Empty(s)
           /\ \A type : One(s, type) =>
                /\ Head(s).type = type /\ Empty(Tail(s))
                /\ \A f, n : Empty(Leftover(f, n) \o Tail(s))
           /\ \A first, second : Two(s, first, second) =>
                Head(s).type = first /\ One(Tail(s), second)
<1>1. \A f, n : Empty(Leftover(f, n) \o <<>>)
  BY MessageContents DEF Leftover, Empty, Junk
<1> QED
  BY <1>1 DEF Junk, Empty, One, Two

-----------------------------------------------------------------------------
(* The dialogue.                                                           *)

\* Where both sides live, the dialogue says what each of them may be sent.
LEMMA BothSent ==
    ASSUME Dialogue
    PROVE  ClientSent /\ ServerSent
BY DEF Dialogue, Places, ClientSent, ServerSent, Computing, Waiting

LEMMA ConversationStep ==
    ASSUME TypeInv, TypeInv', Lockstep, Conversation, [Next]_vars
    PROVE  Conversation'
<1>0. s2c \in Seq(Message) /\ c2s \in Seq(Message) /\ spc \in SrvPc /\ cpc \in CliPc
  BY DEF TypeInv
<1>1. CASE Connect
  <2>1. Plain("HELLO") \in Message /\ Plain("HELLO").type = "HELLO"
    BY MessageTypes, MessageContents
  <2>2. One(s2c', "HELLO") /\ Empty(c2s')
    BY <1>0, <1>1, <2>1, Sent DEF Connect
  <2> QED
    BY <1>1, <2>2 DEF Connect, Conversation, Dialogue, Places, ClientSent, ServerSent
<1>2. CASE SrvHello
  BY <1>0, <1>2, Read
     DEF SrvHello, SrvGets, client, Conversation, ClientSent, ServerSent, Dialogue, Places,
         Computing, Waiting
<1>3. CASE SrvUpdateCheck
  <2>1. Plain("UPDATE") \in Message /\ Plain("UPDATE").type = "UPDATE"
    BY MessageTypes, MessageContents
  <2>2. Longer(s2c, s2c', "UPDATE")
    BY <1>0, <1>3, <2>1, Sent DEF SrvUpdateCheck
  <2> QED
    BY <1>0, <1>3, <2>2, Read
     DEF Longer, SrvUpdateCheck, SrvGets, client, Conversation, ClientSent, ServerSent, Dialogue, Places,
         Computing, Waiting
<1>4. CASE SrvManifest
  BY <1>0, <1>4, Read
     DEF SrvManifest, SrvGets, client, Conversation, ClientSent, ServerSent, Dialogue, Places,
         Computing, Waiting
<1>5. CASE SrvLoad \/ SrvPublish \/ SrvReplace \/ SrvTruncate
  BY <1>0, <1>5
     DEF SrvLoad, SrvPublish, SrvReplace, SrvTruncate, client, wire, Conversation, ClientSent,
         ServerSent, Dialogue, Places, Computing, Waiting
<1>6. ASSUME NEW p \in Path, SrvAnnounce(p) \/ SrvDeleteRemote(p)
      PROVE  Conversation'
  <2>1. /\ spc = "next" /\ spc' \in Waiting /\ c2s' = c2s /\ cpc' = cpc
        /\ s2c' = Append(s2c, ActionMsg(p, acts[p]))
    BY <1>6 DEF SrvAnnounce, SrvDeleteRemote, Awaits, Waiting, client
  <2>2. ActionMsg(p, acts[p]) \in Message /\ ActionMsg(p, acts[p]).type = "ACTION"
    BY MessageTypes, MessageContents DEF TypeInv
  <2>3. Longer(s2c, s2c', "ACTION")
    BY <1>0, <2>1, <2>2, Sent
  <2> QED
    BY <1>0, <2>1, <2>3
       DEF Longer, Conversation, ClientSent, ServerSent, Dialogue, Places, Computing, Waiting
<1>7. CASE SrvSendFile
  <2>1. /\ SrvGets("ready", "READY") /\ c2s' = Tail(c2s) /\ spc' = "ok" /\ cpc' = cpc
        /\ s2c' = Append(s2c, FileMsg(sdisk[cur]))
    BY <1>7 DEF SrvSendFile, client
  <2>2. FileMsg(sdisk[cur]) \in Message /\ FileMsg(sdisk[cur]).type = "FILE"
    BY <1>7, MessageTypes, MessageContents DEF TypeInv, SrvSendFile, SrvGets
  <2>3. Longer(s2c, s2c', "FILE")
    BY <1>0, <2>1, <2>2, Sent
  <2> QED
    BY <1>0, <2>1, <2>3, Read
       DEF Longer, SrvGets, Conversation, ClientSent, ServerSent, Dialogue, Places, Computing, Waiting
<1>8. CASE SrvOk
  BY <1>0, <1>8, Read
     DEF SrvOk, SrvGets, client, Conversation, ClientSent, ServerSent, Dialogue, Places,
         Computing, Waiting
<1>9. CASE SrvPut
  <2>1. PICK f, n : c2s' = Leftover(f, n) \o Tail(c2s)
    BY <1>9 DEF SrvPut
  <2>2. /\ SrvGets("put", "PUT") /\ spc' = "next" /\ cpc' = cpc
        /\ s2c' = Append(s2c, Plain("OK"))
    BY <1>9 DEF SrvPut, client
  <2>3. Empty(c2s')
    BY <1>0, <2>1, <2>2, Read DEF SrvGets, Conversation, ServerSent
  <2>4. Plain("OK") \in Message /\ Plain("OK").type = "OK"
    BY MessageTypes, MessageContents
  <2>5. Longer(s2c, s2c', "OK")
    BY <1>0, <2>2, <2>4, Sent
  <2> QED
    BY <1>0, <2>2, <2>3, <2>5, Read, SMTT(30)
       DEF Longer, SrvGets, Conversation, ClientSent, ServerSent, Dialogue, Places, Computing, Waiting
<1>10. CASE SrvSave
  <2> DEFINE m == DoneMsg(Cardinality(Conflicts))
  <2>1. m \in Message /\ m.type = "DONE"
    BY MessageTypes, MessageContents, ConflictsCount
  <2>2. s2c' = Append(s2c, m)
    BY <1>10 DEF SrvSave
  <2>3. Longer(s2c, s2c', "DONE")
    BY <1>0, <2>1, <2>2, Sent
  <2> QED
    BY <1>0, <1>10, <2>3
     DEF Longer, SrvSave, SrvReturn, client, Conversation, ClientSent, ServerSent, Dialogue, Places,
         Computing, Waiting
<1>11. CASE \/ SrvFileGone \/ SrvPutRefused \/ SrvUnexpected \/ SrvHangup \/ SrvError \/ SrvCrash
  <2>1. spc' = "idle" /\ s2c' = s2c /\ cpc' = cpc /\ spc \in SrvPc
    BY <1>0, <1>11
       DEF SrvFileGone, SrvPutRefused, SrvUnexpected, SrvHangup, SrvError, SrvCrash,
           SrvQuit, SrvReturn, client
  <2> QED
    BY <2>1, BothSent DEF Conversation, ClientSent
<1>12. CASE ScanTree \/ ScanPublish \/ ScanError \/ ConnectionLost
  BY <1>12
     DEF ScanTree, ScanPublish, ScanError, ConnectionLost, server, client, wire,
         Conversation, ClientSent, ServerSent, Dialogue, Places
<1>13. CASE CliHello
  <2>1. /\ cpc = "hello" /\ s2c # <<>> /\ Head(s2c).type = "HELLO" /\ s2c' = Tail(s2c)
        /\ cpc' = "update" /\ spc' = spc
        /\ c2s' = c2s \o <<Plain("HELLO"), Plain("UPDATECHECK")>>
    BY <1>13 DEF CliHello, CliGets, server
  <2>2. Empty(s2c')
    BY <1>0, <2>1, Read DEF Conversation, ClientSent
  <2>3. ASSUME Empty(c2s)
        PROVE  Two(c2s', "HELLO", "UPDATECHECK")
    <3> DEFINE h == Plain("HELLO")
               u == Plain("UPDATECHECK")
    <3>1. h \in Message /\ u \in Message /\ h.type = "HELLO" /\ u.type = "UPDATECHECK"
      BY MessageTypes, MessageContents
    <3> HIDE DEF h, u
    <3>2. c2s \o <<h, u>> = Append(Append(c2s, h), u)
      BY <1>0, <3>1
    <3>3. Append(c2s, h) \in Seq(Message)
      BY <1>0, <3>1
    <3>4. Longer(c2s, Append(c2s, h), "HELLO")
      BY <1>0, <3>1, Sent
    <3>5. Longer(Append(c2s, h), Append(Append(c2s, h), u), "UPDATECHECK")
      BY <3>1, <3>3, Sent
    <3>6. Two(Append(Append(c2s, h), u), "HELLO", "UPDATECHECK")
      BY <2>3, <3>4, <3>5 DEF Longer
    <3> QED
      BY <2>1, <3>2, <3>6 DEF h, u
  <2> QED
    BY <1>0, <2>1, <2>2, <2>3, Read
       DEF Conversation, ClientSent, ServerSent, Dialogue, Places, Computing, Waiting
<1>14. CASE CliScan
  <2>1. /\ cpc = "update" /\ s2c # <<>> /\ Head(s2c).type = "UPDATE" /\ s2c' = Tail(s2c)
        /\ cpc' = "loop" /\ spc' = spc /\ c2s' = Append(c2s, ManifestMsg(items'))
        /\ items' \in Manifest
    BY <1>14 DEF CliScan, CliGets, server, TypeInv
  <2>2. ManifestMsg(items') \in Message /\ ManifestMsg(items').type = "MANIFEST"
    BY <2>1, MessageTypes, MessageContents
  <2>3. Longer(c2s, c2s', "MANIFEST")
    BY <1>0, <2>1, <2>2, Sent
  <2> QED
    BY <1>0, <2>1, <2>3, Read
       DEF Longer, Conversation, ClientSent, ServerSent, Dialogue, Places, Computing, Waiting
<1>15. CASE CliDownload \/ CliDeleteLocal \/ CliNote \/ CliUpload
  <2>1. /\ cpc = "loop" /\ s2c # <<>> /\ Head(s2c).type = "ACTION" /\ s2c' = Tail(s2c)
        /\ spc' = spc
    BY <1>15 DEF CliDownload, CliDeleteLocal, CliNote, CliUpload, CliAction, CliGets, server
  <2>2. PICK m \in Message :
          /\ c2s' = Append(c2s, m)
          /\ \/ Head(s2c).act.kind = "download" /\ m.type = "READY" /\ cpc' = "file"
             \/ Head(s2c).act.kind = "upload" /\ m.type = "PUT" /\ cpc' = "upok"
             \/ /\ Head(s2c).act.kind \in {"delete_local", "delete_remote", "conflict"}
                /\ m.type = "OK" /\ cpc' = "loop"
    <3>1. CASE CliDownload
      BY <3>1, MessageTypes, MessageContents DEF CliDownload, CliAction
    <3>2. CASE CliDeleteLocal \/ CliNote
      BY <2>1, <3>2, MessageTypes, MessageContents DEF CliDeleteLocal, CliNote, CliAction, client
    <3>3. CASE CliUpload
      <4> DEFINE p == Head(s2c).path
      <4>1. p \in Path /\ items[p] \in Item /\ cdisk[p] \in File
        BY <2>1, <3>3, StreamTypes, MessageFields DEF CliUpload, Uploadable, TypeInv, Manifest
      <4>2. PutMsg(p, items[p], cdisk[p]) \in Message
        BY <4>1, MessageTypes
      <4>3. PutMsg(p, items[p], cdisk[p]).type = "PUT"
        BY MessageContents
      <4> QED
        BY <3>3, <4>2, <4>3 DEF CliUpload, CliAction
    <3> QED
      BY <1>15, <3>1, <3>2, <3>3
  <2>3. spc # "idle" => spc = Awaits(Head(s2c).act.kind)
    BY <1>0, <2>1, ElemsOf DEF Lockstep, OneAction
  <2>4. Empty(s2c')
    BY <1>0, <2>1, Read DEF Conversation, ClientSent
  <2>5. Longer(c2s, c2s', m.type)
    BY <1>0, <2>2, Sent
  <2> QED
    BY <1>0, <2>1, <2>2, <2>3, <2>4, <2>5, Read
       DEF Longer, ServerSent, Awaits, Conversation, ClientSent, Dialogue, Places, Computing, Waiting
<1>16. CASE CliFile
  <2>1. PICK f, n : s2c' = Leftover(f, n) \o Tail(s2c)
    BY <1>16 DEF CliFile
  <2>2. /\ cpc = "file" /\ s2c # <<>> /\ Head(s2c).type = "FILE"
        /\ cpc' = "swap" /\ spc' = spc /\ c2s' = c2s
    BY <1>16 DEF CliFile, CliGets, server
  <2>3. Empty(s2c')
    BY <1>0, <2>1, <2>2, Read DEF Conversation, ClientSent
  <2> QED
    BY <1>0, <2>2, <2>3, Read
       DEF Conversation, ClientSent, ServerSent, Dialogue, Places, Computing, Waiting
<1>17. CASE CliSwap
  <2>1. Plain("OK") \in Message /\ Plain("OK").type = "OK"
    BY MessageTypes, MessageContents
  <2>2. Longer(c2s, c2s', "OK")
    BY <1>0, <1>17, <2>1, Sent DEF CliSwap
  <2> QED
    BY <1>0, <1>17, <2>2
     DEF Longer, CliSwap, server, Conversation, ClientSent, ServerSent, Dialogue, Places, Computing, Waiting
<1>18. CASE CliUploadOk
  BY <1>0, <1>18, Read
     DEF CliUploadOk, CliGets, server, Conversation, ClientSent, ServerSent, Dialogue, Places,
         Computing, Waiting
<1>19. CASE \/ CliScanFails \/ CliFileRefused \/ CliUploadGone \/ CliDone \/ CliUnexpected
            \/ CliHangup \/ CliError \/ CliCrash
  <2>1. cpc' = "idle" /\ c2s' = c2s /\ spc' = spc
    BY <1>19
       DEF CliScanFails, CliFileRefused, CliUploadGone, CliDone, CliUnexpected, CliHangup,
           CliError, CliCrash, CliQuit, CliReturn, server
  <2> QED
    BY <2>1 DEF Conversation, ServerSent
<1>20. ASSUME NEW p \in Path, \/ UserWritesServer(p) \/ UserDeletesServer(p)
                              \/ UserWritesClient(p) \/ UserDeletesClient(p)
       PROVE  Conversation'
  BY <1>20
     DEF UserWritesServer, UserDeletesServer, UserWritesClient, UserDeletesClient,
         server, client, wire, Conversation, ClientSent, ServerSent, Dialogue, Places
<1>21. CASE UNCHANGED vars
  BY <1>21
     DEF vars, server, client, wire, Conversation, ClientSent, ServerSent, Dialogue, Places
<1> QED
  BY <1>1, <1>2, <1>3, <1>4, <1>5, <1>6, <1>7, <1>8, <1>9, <1>10, <1>11, <1>12, <1>13, <1>14,
     <1>15, <1>16, <1>17, <1>18, <1>19, <1>20, <1>21
     DEF Next, SrvStep, CliStep, FaultStep, UserStep

\* Where the two machines are says what is between them: who has sent what
\* and who has read it, in every place of a session, whether the other side
\* still lives or not.
THEOREM ConversationInvariant == Spec => []Conversation
<1>1. Init => Conversation
  BY DEF Init, Conversation
<1>2. TypeInv /\ TypeInv' /\ Lockstep /\ Conversation /\ [Next]_vars => Conversation'
  BY ConversationStep
<1> QED
  BY <1>1, <1>2, TypeCorrect, LockstepInvariant, PTL DEF Spec

\* Whatever files grow or shrink during a transfer, the only line that either
\* side does not expect is the rest of a body that was longer than announced.
THEOREM OnlyJunk == Spec => []OnlyJunkSurprises
<1>1. ASSUME NEW s
      PROVE  /\ Empty(s) /\ s # <<>> => Head(s).type = "JUNK"
             /\ \A type : One(s, type) /\ s # <<>> => Head(s).type \in {type, "JUNK"}
             /\ \A type, second : Two(s, type, second) /\ s # <<>> =>
                  Head(s).type \in {type, "JUNK"}
  BY DEF Empty, One, Two, Junk
<1>2. Conversation => OnlyJunkSurprises
  BY <1>1
     DEF Conversation, ClientSent, ServerSent, OnlyJunkSurprises, CliAwaited, SrvAwaited
<1> QED
  BY <1>2, ConversationInvariant, PTL

-----------------------------------------------------------------------------
(* Files of one size leave no junk.                                        *)

\* The files and items that have the size of a version.
SizedFiles == {f \in File : \E v \in Version : f.size = SizeOf[v]}
SizedItems == {it \in Item : \E v \in Version : it.size = SizeOf[v]}

LEMMA SizedClosed == Closed(SizedFiles, SizedItems)
<1>1. SizedFiles \subseteq File /\ SizedItems \subseteq Item
  BY DEF SizedFiles, SizedItems
<1>2. ASSUME NEW v \in Version
      PROVE  [data |-> v, size |-> SizeOf[v], dos |-> StampOf[v]] \in SizedFiles
  BY ConstantsAssumption DEF SizedFiles, File, Content
<1>3. ASSUME NEW f \in SizedFiles
      PROVE  /\ ItemOf(f) \in SizedItems
             /\ CrcDisabled => [size |-> f.size, crc |-> 0, known |-> FALSE, dos |-> f.dos]
                                 \in SizedItems
  <2>1. ItemOf(f) \in Item /\ ItemOf(f).size = f.size
    BY <1>1, ItemOfType DEF ItemOf
  <2>2. [size |-> f.size, crc |-> 0, known |-> FALSE, dos |-> f.dos] \in Item
    BY <1>1 DEF File, Item
  <2> QED
    BY <2>1, <2>2 DEF SizedFiles, SizedItems
<1>4. ASSUME NEW req \in SizedItems, NEW it \in SizedItems, NEW x \in Content
      PROVE  [data |-> x, size |-> req.size, dos |-> it.dos] \in SizedFiles
  BY DEF SizedFiles, SizedItems, File, Item
<1> QED
  BY <1>1, <1>2, <1>3, <1>4 DEF Closed

LEMMA NothingLeftOver ==
    ASSUME SameSizes, NEW f \in SizedFiles, NEW it \in SizedItems, NEW s \in Seq(Message)
    PROVE  Leftover(f, it.size) \o s = s
<1>1. f.size = it.size /\ f.size \in Nat
  BY DEF SameSizes, SizedFiles, SizedItems, File
<1>2. Leftover(f, it.size) = <<>>
  BY <1>1 DEF Leftover
<1> QED
  BY <1>2

LEMMA NoJunkStep ==
    ASSUME SameSizes, TypeInv, TypeInv', Derived(SizedFiles, SizedItems), NoJunk, [Next]_vars
    PROVE  NoJunk'
<1>0. s2c \in Seq(Message) /\ c2s \in Seq(Message)
  BY DEF TypeInv
<1>1. CASE Connect
  <2>1. Elems(s2c') = {Plain("HELLO")} /\ Elems(c2s') = {}
    BY <1>1, ElemsOf, MessageTypes, Defaults DEF Connect
  <2> QED
    BY <2>1, MessageContents DEF NoJunk, Without
<1>2. CASE SrvHello \/ SrvManifest \/ SrvOk \/ SrvFileGone \/ SrvPutRefused
  BY <1>0, <1>2, WithoutOf, ZenonT(60)
     DEF SrvHello, SrvManifest, SrvOk, SrvFileGone, SrvPutRefused, SrvGets, SrvQuit, NoJunk
<1>3. CASE SrvUpdateCheck
  <2>1. Plain("UPDATE") \in Message /\ Plain("UPDATE").type # "JUNK"
    BY MessageTypes, MessageContents
  <2> QED
    BY <1>0, <1>3, <2>1, WithoutOf DEF SrvUpdateCheck, SrvGets, NoJunk
<1>4. ASSUME NEW p \in Path, SrvAnnounce(p) \/ SrvDeleteRemote(p)
      PROVE  NoJunk'
  <2>1. s2c' = Append(s2c, ActionMsg(p, acts[p])) /\ c2s' = c2s
    BY <1>4 DEF SrvAnnounce, SrvDeleteRemote
  <2>2. ActionMsg(p, acts[p]) \in Message /\ ActionMsg(p, acts[p]).type = "ACTION"
    BY MessageTypes, MessageContents DEF TypeInv
  <2> QED
    BY <1>0, <2>1, <2>2, WithoutOf DEF NoJunk
<1>5. CASE SrvSendFile
  <2>1. FileMsg(sdisk[cur]) \in Message /\ FileMsg(sdisk[cur]).type = "FILE"
    BY <1>5, MessageTypes, MessageContents DEF TypeInv, SrvSendFile, SrvGets
  <2> QED
    BY <1>0, <1>5, <2>1, WithoutOf DEF SrvSendFile, SrvGets, NoJunk
<1>6. CASE SrvPut
  <2> DEFINE f == Head(c2s).file
             req == acts[cur].item
  <2>1. /\ c2s # <<>> /\ Head(c2s).type = "PUT" /\ cur \in Path /\ acts[cur].kind = "upload"
        /\ c2s' = Leftover(f, req.size) \o Tail(c2s) /\ s2c' = Append(s2c, Plain("OK"))
    BY <1>6 DEF SrvPut, SrvGets, TypeInv
  <2>2. f \in SizedFiles
    BY <1>0, <2>1, ElemsOf DEF Derived, SentIn
  <2>3. req \in SizedItems
    <3>1. req \in Item
      BY <2>1 DEF TypeInv, Action
    <3>2. req \in SizedItems \union {None}
      BY <2>1 DEF Derived, ItemsIn
    <3> QED
      BY <3>1, <3>2, SentinelsAssumption
  <2>4. c2s' = Tail(c2s)
    BY <1>0, <2>1, <2>2, <2>3, StreamTypes, NothingLeftOver
  <2>5. Plain("OK") \in Message /\ Plain("OK").type # "JUNK"
    BY MessageTypes, MessageContents
  <2>6. Without(s2c', {"JUNK"})
    BY <1>0, <2>1, <2>5, WithoutOf DEF NoJunk
  <2>7. Without(c2s', {"JUNK"})
    BY <1>0, <2>1, <2>4, WithoutOf, ZenonT(60) DEF NoJunk
  <2> QED
    BY <2>6, <2>7 DEF NoJunk
<1>7. CASE SrvSave
  <2> DEFINE m == DoneMsg(Cardinality(Conflicts))
  <2>1. m \in Message /\ m.type = "DONE"
    BY MessageTypes, MessageContents, ConflictsCount
  <2>2. s2c' = Append(s2c, m) /\ c2s' = c2s
    BY <1>7 DEF SrvSave
  <2> QED
    BY <1>0, <2>1, <2>2, WithoutOf DEF NoJunk
<1>8. CASE CliHello
  <2>1. s2c # <<>> /\ s2c' = Tail(s2c) /\ c2s' = c2s \o <<Plain("HELLO"), Plain("UPDATECHECK")>>
    BY <1>8 DEF CliHello, CliGets
  <2> QED
    BY <1>0, <2>1, WithoutOf, GreetingSent DEF NoJunk
<1>9. CASE CliScan
  <2>1. /\ s2c # <<>> /\ s2c' = Tail(s2c) /\ c2s' = Append(c2s, ManifestMsg(items'))
        /\ items' \in Manifest
    BY <1>9 DEF CliScan, CliGets, TypeInv
  <2>2. ManifestMsg(items') \in Message /\ ManifestMsg(items').type = "MANIFEST"
    BY <2>1, MessageTypes, MessageContents
  <2> QED
    BY <1>0, <2>1, <2>2, WithoutOf DEF NoJunk
<1>10. CASE CliDownload \/ CliDeleteLocal \/ CliNote
  <2>1. PICK type \in {"READY", "OK"} :
          s2c # <<>> /\ s2c' = Tail(s2c) /\ c2s' = Append(c2s, Plain(type))
    BY <1>10 DEF CliDownload, CliDeleteLocal, CliNote, CliAction, CliGets
  <2>2. Plain(type) \in Message /\ Plain(type).type # "JUNK"
    BY MessageTypes, MessageContents
  <2> QED
    BY <1>0, <2>1, <2>2, WithoutOf DEF NoJunk
<1>11. CASE CliUpload
  <2> DEFINE p == Head(s2c).path
             m == PutMsg(p, items[p], cdisk[p])
  <2>1. s2c # <<>> /\ s2c' = Tail(s2c) /\ c2s' = Append(c2s, m) /\ Head(s2c).type = "ACTION"
    BY <1>11 DEF CliUpload, CliAction, CliGets
  <2>2. p \in Path /\ items[p] \in Item /\ cdisk[p] \in File
    BY <1>0, <1>11, <2>1, StreamTypes, MessageFields DEF CliUpload, Uploadable, TypeInv, Manifest
  <2>3. m \in Message /\ m.type = "PUT"
    BY <2>2, MessageTypes, MessageContents
  <2> HIDE DEF m
  <2> QED
    BY <1>0, <2>1, <2>3, WithoutOf DEF NoJunk
<1>12. CASE CliFile
  <2> DEFINE f == Head(s2c).file
  <2>1. /\ s2c # <<>> /\ Head(s2c).type = "FILE" /\ cpc = "file"
        /\ s2c' = Leftover(f, dl.item.size) \o Tail(s2c) /\ c2s' = c2s
    BY <1>12 DEF CliFile, CliGets
  <2>2. f \in SizedFiles
    BY <1>0, <2>1, ElemsOf DEF Derived, SentIn
  <2>3. dl.item \in SizedItems
    <3>1. dl.item \in Item /\ dl.item \in SizedItems \union {None}
      BY <2>1 DEF TypeInv, Derived, ItemsIn
    <3> QED
      BY <3>1, SentinelsAssumption
  <2>4. s2c' = Tail(s2c)
    BY <1>0, <2>1, <2>2, <2>3, StreamTypes, NothingLeftOver, ZenonT(60)
  <2> QED
    BY <1>0, <2>1, <2>4, WithoutOf, ZenonT(60) DEF NoJunk
<1>13. CASE CliSwap
  BY <1>0, <1>13, WithoutOf, MessageTypes, MessageContents DEF CliSwap, NoJunk
<1>14. CASE CliScanFails \/ CliFileRefused \/ CliUploadGone \/ CliUploadOk \/ CliDone
  BY <1>0, <1>14, WithoutOf, ZenonT(60)
     DEF CliScanFails, CliFileRefused, CliUploadGone, CliUploadOk, CliDone, CliAction, CliGets,
         NoJunk
<1>15. CASE \/ SrvLoad \/ SrvPublish \/ SrvReplace \/ SrvTruncate \/ SrvUnexpected \/ SrvHangup
            \/ SrvError \/ SrvCrash \/ ScanTree \/ ScanPublish \/ ScanError
            \/ CliUnexpected \/ CliHangup \/ CliError \/ CliCrash \/ ConnectionLost
  BY <1>15
     DEF SrvLoad, SrvPublish, SrvReplace, SrvTruncate, SrvUnexpected, SrvHangup, SrvError,
         SrvCrash, ScanTree, ScanPublish, ScanError, CliUnexpected, CliHangup, CliError,
         CliCrash, ConnectionLost, wire, NoJunk, Without
<1>16. ASSUME NEW p \in Path, \/ UserWritesServer(p) \/ UserDeletesServer(p)
                              \/ UserWritesClient(p) \/ UserDeletesClient(p)
       PROVE  NoJunk'
  BY <1>16
     DEF UserWritesServer, UserDeletesServer, UserWritesClient, UserDeletesClient, wire,
         NoJunk, Without
<1>17. CASE UNCHANGED vars
  BY <1>17 DEF vars, wire, NoJunk, Without
<1> QED
  BY <1>1, <1>2, <1>3, <1>4, <1>5, <1>6, <1>7, <1>8, <1>9, <1>10, <1>11, <1>12, <1>13, <1>14,
     <1>15, <1>16, <1>17
     DEF Next, SrvStep, CliStep, FaultStep, UserStep

\* If no body can be longer than announced, because all versions have one
\* size, neither side is ever sent a line it does not expect.
THEOREM KeepsStep ==
    ASSUME SameSizes
    PROVE  Spec => []NoSurprise
<1> DEFINE Sized == Derived(SizedFiles, SizedItems)
<1>1. Init => Sized /\ NoJunk
  <2>1. Init => Sized
    BY DerivedInit
  <2>2. Init => NoJunk
    BY Defaults, ElemsOf DEF Init, NoJunk, Without
  <2> QED
    BY <2>1, <2>2
<1>2. TypeInv /\ TypeInv' /\ Sized /\ [Next]_vars => Sized'
  BY SizedClosed, DerivedStep
<1>3. TypeInv /\ TypeInv' /\ Sized /\ NoJunk /\ [Next]_vars => NoJunk'
  BY NoJunkStep
<1>4. TypeInv /\ OnlyJunkSurprises /\ NoJunk => NoSurprise
  <2> SUFFICES ASSUME TypeInv, OnlyJunkSurprises, NoJunk
               PROVE  NoSurprise
    OBVIOUS
  <2>1. /\ s2c # <<>> => Head(s2c).type # "JUNK"
        /\ c2s # <<>> => Head(c2s).type # "JUNK"
    BY ElemsOf DEF NoJunk, Without, TypeInv
  <2> QED
    BY <2>1 DEF OnlyJunkSurprises, NoSurprise
<1> QED
  BY <1>1, <1>2, <1>3, <1>4, TypeCorrect, OnlyJunk, PTL DEF Spec

-----------------------------------------------------------------------------
(* The merge.                                                              *)

\* A revision equal to one with a known checksum names the same contents.
LEMMA SameAmong ==
    ASSUME NEW a, NEW b, NEW A, a # None, b # None, a.known, b.known,
           same_revision(a, b) \/ same_revision(b, a), Among(b, A)
    PROVE  Among(a, A)
BY DEF same_revision, Among

\* build_sync_action overwrites on either side only what the other has had,
\* provided that the recorded entry names only what both have had.
LEMMA DecisionSafe ==
    ASSUME NEW prev \in Entry \union {None}, NEW srv, NEW cli, NEW hs, NEW hc,
           Among(srv, hs), Among(cli, hc),
           prev # None => Among(prev.server, hc) /\ Among(prev.client, hs)
    PROVE  LET act == build_sync_action(prev, srv, cli)
           IN  /\ act.kind \in {"upload", "delete_remote"} => Among(srv, hc)
               /\ act.kind \in {"download", "delete_local"} => Among(cli, hs)
               /\ act.kind = "upload" => cli # None /\ act.item = cli
<1> DEFINE act == build_sync_action(prev, srv, cli)
<1>1. act.kind = "upload" => cli # None /\ act.item = cli
  BY DEF build_sync_action, first_meeting, three_way, Act, NoAct
<1>2. CASE prev = None
  BY <1>1, <1>2 DEF build_sync_action, first_meeting, Act, NoAct, Among
<1>3. CASE prev # None
  <2>1. prev.server \in Item /\ prev.client \in Item
    BY <1>3 DEF Entry
  <2>2. prev.server # None /\ prev.client # None
    BY <2>1, SentinelsAssumption
  <2>3. ASSUME act.kind \in {"upload", "delete_remote"}
        PROVE  Among(srv, hc)
    <3>1. same_state_item(srv, prev.server)
      BY <1>3, <2>3 DEF build_sync_action, three_way, Act, NoAct
    <3>2. srv # None /\ same_revision(srv, prev.server)
      BY <2>2, <3>1 DEF same_state_item
    <3>3. srv.known /\ prev.server.known
      BY <1>3, <2>2, <3>2 DEF Among
    <3> QED
      BY <1>3, <2>2, <3>2, <3>3, SameAmong
  <2>4. ASSUME act.kind \in {"download", "delete_local"}
        PROVE  Among(cli, hs)
    <3>1. same_state_item(cli, prev.client)
      BY <1>3, <2>4 DEF build_sync_action, three_way, Act, NoAct
    <3>2. cli # None /\ same_revision(cli, prev.client)
      BY <2>2, <3>1 DEF same_state_item
    <3>3. cli.known /\ prev.client.known
      BY <1>3, <2>2, <3>2 DEF Among
    <3> QED
      BY <1>3, <2>2, <3>2, <3>3, SameAmong
  <2> QED
    BY <1>1, <2>3, <2>4
<1> QED
  BY <1>2, <1>3

\* What a session records names only what both sides have had.
LEMMA EntrySafe ==
    ASSUME NEW srv, NEW cli, NEW hs, NEW hc, Among(srv, hs), Among(cli, hc),
           build_state_entry(srv, cli) # None
    PROVE  LET e == build_state_entry(srv, cli)
           IN  /\ Among(e.server, hs) /\ Among(e.server, hc)
               /\ Among(e.client, hs) /\ Among(e.client, hc)
<1>1. /\ srv # None /\ cli # None
      /\ same_live_items(srv, cli) \/ same_without_crc_bootstrap(srv, cli)
      /\ build_state_entry(srv, cli) = [server |-> srv, client |-> cli]
  BY DEF build_state_entry
<1>2. srv.known /\ cli.known
  BY <1>1 DEF Among
<1>3. same_revision(srv, cli)
  BY <1>1, <1>2 DEF same_live_items, same_without_crc_bootstrap
<1>4. Among(srv, hc) /\ Among(cli, hs)
  BY <1>1, <1>2, <1>3, SameAmong
<1> QED
  BY <1>1, <1>4

-----------------------------------------------------------------------------
(* How a step keeps the parts of Agreement.                                *)

\* What a tree has held it has held for good.
TreesRemember ==
    \A p \in Path : heldS[p] \subseteq heldS'[p] /\ heldC[p] \subseteq heldC'[p]

LEMMA RecordedKept ==
    ASSUME TreesRemember, RecordedHeld, stateFile' = stateFile
    PROVE  RecordedHeld'
BY AmongGrows DEF RecordedHeld, TreesRemember

LEMMA OverwritesKept ==
    ASSUME TypeInv, TreesRemember, OverwritesSafe, todo' \subseteq todo,
           UNCHANGED <<sm, acts>>, spc' = "put" => spc = "put" /\ cur' = cur
    PROVE  OverwritesSafe'
<1>1. \A p \in todo' : p \in todo /\ p \in Path
  BY DEF TypeInv
<1>2. \A p \in todo' :
        acts'[p].kind \in {"upload", "delete_remote"} => Among(sm'[p], heldC'[p])
  BY <1>1, AmongGrows DEF OverwritesSafe, TreesRemember
<1>3. spc' = "put" => Among(sm'[cur'], heldC'[cur'])
  BY AmongGrows DEF OverwritesSafe, TreesRemember, TypeInv
<1> QED
  BY <1>2, <1>3 DEF OverwritesSafe

LEMMA ClientSafeKept ==
    ASSUME TypeInv', TreesRemember, ClientSafe, UNCHANGED <<items, dl>>,
           spc' \in InPlan => spc \in InPlan /\ UNCHANGED <<cm, acts>>,
           cpc' \in {"file", "swap"} => cpc \in {"file", "swap"},
           \A m \in Elems(s2c') : m.type = "ACTION" => m \in Elems(s2c)
    PROVE  ClientSafe'
<1>1. spc' \in InPlan =>
        \A p \in Path : acts'[p].kind \in Destructive => Among(cm'[p], heldS'[p])
  BY AmongGrows DEF ClientSafe, TreesRemember
<1>2. ASSUME NEW m \in Elems(s2c'), m.type = "ACTION", m.act.kind \in Destructive
      PROVE  Among(items'[m.path], heldS'[m.path])
  <2>1. m.path \in Path
    BY <1>2, ElemsOf, MessageFields DEF TypeInv
  <2> QED
    BY <1>2, <2>1, AmongGrows DEF ClientSafe, TreesRemember
<1>3. cpc' \in {"file", "swap"} => Among(items'[dl'.path], heldS'[dl'.path])
  BY AmongGrows DEF ClientSafe, TreesRemember, TypeInv
<1> QED
  BY <1>1, <1>2, <1>3 DEF ClientSafe

LEMMA ConfirmedKept ==
    ASSUME TypeInv', TreesRemember, Confirmed,
           spc' \in InPlan =>
             /\ spc \in InPlan /\ acts' = acts
             /\ \A p \in Path : Pending(p) => Pending(p)',
           spc' = "ok" => \/ Without(c2s', {"OK"})
                          \/ /\ spc = "ok" /\ cur' = cur
                             /\ Without(c2s, {"OK"}) => Without(c2s', {"OK"}),
           spc' \in {"truncate", "save"} => todo' = {}
    PROVE  Confirmed'
<1> SUFFICES ASSUME spc' \in InPlan
             PROVE  /\ \A p \in Path : acts'[p].kind = "upload" =>
                         Among(acts'[p].item, heldC'[p])
                    /\ \A p \in Path : acts'[p].kind = "download" /\ ~Pending(p)' =>
                         Among(acts'[p].item, heldC'[p])
                    /\ spc' = "ok" /\ acts'[cur'].kind = "download"
                         /\ ~Without(c2s', {"OK"}) =>
                         Among(acts'[cur'].item, heldC'[cur'])
                    /\ spc' \in {"truncate", "save"} => todo' = {}
  BY DEF Confirmed
<1>1. \A p \in Path : acts'[p].kind = "upload" => Among(acts'[p].item, heldC'[p])
  BY AmongGrows DEF Confirmed, TreesRemember
<1>2. \A p \in Path : acts'[p].kind = "download" /\ ~Pending(p)' =>
        Among(acts'[p].item, heldC'[p])
  BY AmongGrows DEF Confirmed, TreesRemember
<1>3. ASSUME spc' = "ok", acts'[cur'].kind = "download", ~Without(c2s', {"OK"})
      PROVE  Among(acts'[cur'].item, heldC'[cur'])
  <2>1. cur' \in Path
    BY <1>3 DEF TypeInv
  <2>2. Among(acts[cur].item, heldC[cur]) /\ cur' = cur /\ acts' = acts
    BY <1>3 DEF Confirmed
  <2> QED
    BY <2>1, <2>2, AmongGrows DEF TreesRemember
<1> QED
  BY <1>1, <1>2, <1>3

\* A step that concerns no action.
LEMMA AgreementKept ==
    ASSUME TypeInv, TypeInv', TreesRemember, Agreement,
           UNCHANGED <<stateFile, server, items, dl>>,
           cpc' \in {"file", "swap"} => cpc \in {"file", "swap"},
           \A m \in Elems(s2c') : m.type = "ACTION" => m \in Elems(s2c),
           spc = "ok" /\ Without(c2s, {"OK"}) => Without(c2s', {"OK"})
    PROVE  Agreement'
<1>1. OverwritesSafe'
  BY OverwritesKept DEF Agreement, server
<1>2. ClientSafe'
  BY ClientSafeKept DEF Agreement, server
<1>3. \A p \in Path : Pending(p) => Pending(p)'
  BY DEF Pending, server
<1>4. Confirmed'
  <2>1. spc' \in {"truncate", "save"} => todo' = {}
    BY DEF Agreement, Confirmed, InPlan, server
  <2> QED
    BY <1>3, <2>1, ConfirmedKept DEF Agreement, server
<1>5. RecordedHeld'
  BY RecordedKept DEF Agreement
<1> QED
  BY <1>1, <1>2, <1>4, <1>5 DEF Agreement

\* The sync thread gives up.
LEMMA ServerStops ==
    ASSUME TypeInv, TypeInv', TreesRemember, Agreement, SrvReturn,
           UNCHANGED <<stateFile, cpc, items, dl, s2c>>
    PROVE  Agreement'
<1>1. OverwritesSafe'
  BY DEF OverwritesSafe, SrvReturn
<1>2. ClientSafe'
  BY ClientSafeKept DEF Agreement, SrvReturn, InPlan
<1>3. Confirmed'
  BY DEF Confirmed, SrvReturn, InPlan
<1>4. RecordedHeld'
  BY RecordedKept DEF Agreement
<1> QED
  BY <1>1, <1>2, <1>3, <1>4 DEF Agreement

\* The client gives up.
LEMMA ClientStops ==
    ASSUME TypeInv, TypeInv', TreesRemember, Agreement, CliReturn,
           UNCHANGED <<stateFile, server, c2s>>
    PROVE  Agreement'
<1>1. OverwritesSafe'
  BY OverwritesKept DEF Agreement, server
<1>2. ClientSafe'
  <2>1. spc' \in InPlan =>
          \A p \in Path : acts'[p].kind \in Destructive => Among(cm'[p], heldS'[p])
    BY AmongGrows DEF Agreement, ClientSafe, TreesRemember, server
  <2>2. ASSUME NEW m \in Elems(s2c'), m.type = "ACTION"
        PROVE  Among(items'[m.path], heldS'[m.path])
    <3>1. m.path \in Path
      BY <2>2, ElemsOf, MessageFields DEF TypeInv
    <3> QED
      BY <3>1 DEF CliReturn, NoManifest, Among
  <2> QED
    BY <2>1, <2>2 DEF ClientSafe, CliReturn
<1>3. Confirmed'
  <2>1. spc' \in {"truncate", "save"} => todo' = {}
    BY DEF Agreement, Confirmed, InPlan, server
  <2>2. \A p \in Path : Pending(p) => Pending(p)'
    BY DEF Pending, server
  <2> QED
    BY <2>1, <2>2, ConfirmedKept DEF Agreement, server
<1>4. RecordedHeld'
  BY RecordedKept DEF Agreement
<1> QED
  BY <1>1, <1>2, <1>3, <1>4 DEF Agreement

-----------------------------------------------------------------------------
(* The invariant.                                                          *)

LEMMA AgreementStep ==
    ASSUME ~CrcDisabled, CrcCollisionFree, TypeInv, TypeInv', Held, Lockstep,
           Agreement, [Next]_vars
    PROVE  Agreement'
<1>0. OverwritesSafe /\ ClientSafe /\ Confirmed /\ RecordedHeld
  BY DEF Agreement
<1>1. CASE Connect
  <2>1. /\ s2c' = <<Plain("HELLO")>> /\ cpc' = "hello" /\ spc' = "hello"
        /\ UNCHANGED <<stateFile, sm, acts, todo, items, dl, heldS, heldC>>
    BY <1>1 DEF Connect, ghosts
  <2>2. \A m \in Elems(s2c') : m.type # "ACTION"
    <3>1. Elems(s2c') = {Plain("HELLO")}
      BY <2>1, Defaults, ElemsOf, MessageTypes
    <3> QED
      BY <3>1, MessageContents
  <2>3. OverwritesSafe'
    BY <1>0, <2>1, OverwritesKept DEF TreesRemember
  <2>4. ClientSafe'
    BY <1>0, <2>1, <2>2, ClientSafeKept DEF TreesRemember, InPlan
  <2>5. Confirmed'
    BY <2>1 DEF Confirmed, InPlan
  <2>6. RecordedHeld'
    BY <1>0, <2>1, RecordedKept DEF TreesRemember
  <2> QED
    BY <2>3, <2>4, <2>5, <2>6 DEF Agreement
<1>2. CASE SrvHello
  <2>1. /\ spc' = "check" /\ s2c' = s2c
        /\ UNCHANGED <<stateFile, sm, acts, todo, client, heldS, heldC>>
    BY <1>2 DEF SrvHello, SrvGets, ghosts
  <2>2. \A m \in Elems(s2c') : m.type = "ACTION" => m \in Elems(s2c)
    BY <2>1
  <2>3. OverwritesSafe'
    BY <1>0, <2>1, OverwritesKept DEF TreesRemember
  <2>4. ClientSafe'
    BY <1>0, <2>1, <2>2, ClientSafeKept DEF TreesRemember, InPlan, client
  <2>5. Confirmed'
    BY <2>1 DEF Confirmed, InPlan
  <2>6. RecordedHeld'
    BY <1>0, <2>1, RecordedKept DEF TreesRemember
  <2> QED
    BY <2>3, <2>4, <2>5, <2>6 DEF Agreement
<1>3. CASE SrvUpdateCheck
  <2>1. /\ spc' = "manifest" /\ s2c' = Append(s2c, Plain("UPDATE"))
        /\ UNCHANGED <<stateFile, sm, acts, todo, client, heldS, heldC>>
    BY <1>3 DEF SrvUpdateCheck, SrvGets, ghosts
  <2>2. \A m \in Elems(s2c') : m.type = "ACTION" => m \in Elems(s2c)
    BY <2>1, ElemsOf, MessageTypes, MessageContents DEF TypeInv
  <2>3. OverwritesSafe'
    BY <1>0, <2>1, OverwritesKept DEF TreesRemember
  <2>4. ClientSafe'
    BY <1>0, <2>1, <2>2, ClientSafeKept DEF TreesRemember, InPlan, client
  <2>5. Confirmed'
    BY <2>1 DEF Confirmed, InPlan
  <2>6. RecordedHeld'
    BY <1>0, <2>1, RecordedKept DEF TreesRemember
  <2> QED
    BY <2>3, <2>4, <2>5, <2>6 DEF Agreement
<1>4. CASE SrvManifest
  <2>1. /\ spc' = "load" /\ s2c' = s2c
        /\ UNCHANGED <<stateFile, sm, acts, todo, client, heldS, heldC>>
    BY <1>4 DEF SrvManifest, SrvGets, ghosts
  <2>2. \A m \in Elems(s2c') : m.type = "ACTION" => m \in Elems(s2c)
    BY <2>1
  <2>3. OverwritesSafe'
    BY <1>0, <2>1, OverwritesKept DEF TreesRemember
  <2>4. ClientSafe'
    BY <1>0, <2>1, <2>2, ClientSafeKept DEF TreesRemember, InPlan, client
  <2>5. Confirmed'
    BY <2>1 DEF Confirmed, InPlan
  <2>6. RecordedHeld'
    BY <1>0, <2>1, RecordedKept DEF TreesRemember
  <2> QED
    BY <2>3, <2>4, <2>5, <2>6 DEF Agreement
<1>5. CASE SrvLoad
  <2> DEFINE srv == IF shared # None THEN shared ELSE TreeManifest(sdisk)
  <2>1. /\ spc = "load" /\ sm' = srv /\ acts' = Plan(srv)
        /\ todo' = {p \in Path : Plan(srv)[p].kind # "none"}
        /\ spc' \in {"next", "publish"}
        /\ UNCHANGED <<stateFile, cm, client, wire, heldS, heldC>>
    BY <1>5 DEF SrvLoad
  <2>2. AllAmong(srv, heldS) /\ AllAmong(cm, heldC)
    BY TreeAmong DEF Held, ServerLists, ClientLists
  <2> HIDE DEF srv
  <2>3. ASSUME NEW p \in Path
        PROVE  /\ LoadedState[p] \in Entry \union {None}
               /\ LoadedState[p] # None =>
                    /\ Among(LoadedState[p].server, heldC[p])
                    /\ Among(LoadedState[p].client, heldS[p])
    BY <1>0, Defaults DEF LoadedState, RecordedHeld, NoState, TypeInv
  <2>4. ASSUME NEW p \in Path
        PROVE  /\ acts'[p].kind \in {"upload", "delete_remote"} => Among(srv[p], heldC[p])
               /\ acts'[p].kind \in Destructive => Among(cm[p], heldS[p])
               /\ acts'[p].kind = "upload" => Among(acts'[p].item, heldC[p])
               /\ acts'[p].kind # "none" => p \in todo'
    <3>1. /\ Among(srv[p], heldS[p]) /\ Among(cm[p], heldC[p])
          /\ acts'[p] = build_sync_action(LoadedState[p], srv[p], cm[p])
      BY <2>1, <2>2 DEF AllAmong, Plan
    <3>2. acts'[p].kind # "none" => p \in todo'
      BY <2>1
    <3> QED
      BY <2>3, <3>1, <3>2, DecisionSafe DEF Destructive
  <2>5. OverwritesSafe'
    BY <2>1, <2>4 DEF OverwritesSafe
  <2>6. ClientSafe'
    BY <1>0, <2>1, <2>4 DEF ClientSafe, InPlan, client, wire
  <2>7. Confirmed'
    BY <2>1, <2>4 DEF Confirmed, Pending
  <2>8. RecordedHeld'
    BY <1>0, <2>1, RecordedKept DEF TreesRemember
  <2> QED
    BY <2>5, <2>6, <2>7, <2>8 DEF Agreement
<1>6. CASE SrvPublish
  <2>1. /\ spc = "publish" /\ spc' = "next"
        /\ UNCHANGED <<stateFile, sm, cm, acts, todo, cur, client, wire, heldS, heldC>>
    BY <1>6 DEF SrvPublish, ghosts
  <2>2. OverwritesSafe'
    BY <1>0, <2>1, OverwritesKept DEF TreesRemember
  <2>3. ClientSafe'
    BY <1>0, <2>1, ClientSafeKept DEF TreesRemember, InPlan, client, wire
  <2>4. Confirmed'
    <3>1. \A p \in Path : Pending(p) => Pending(p)'
      BY <2>1 DEF Pending
    <3>2. spc' \in {"truncate", "save"} => todo' = {}
      BY <1>0, <2>1 DEF Confirmed, InPlan
    <3> QED
      BY <1>0, <2>1, <3>1, <3>2, ConfirmedKept DEF TreesRemember, InPlan
  <2>5. RecordedHeld'
    BY <1>0, <2>1, RecordedKept DEF TreesRemember
  <2> QED
    BY <2>2, <2>3, <2>4, <2>5 DEF Agreement
<1>7. ASSUME NEW p \in Path, SrvAnnounce(p)
      PROVE  Agreement'
  <2>1. /\ spc = "next" /\ p \in todo /\ acts[p].kind # "delete_remote"
        /\ spc' = Awaits(acts[p].kind) /\ cur' = p /\ todo' = todo \ {p}
        /\ s2c' = Append(s2c, ActionMsg(p, acts[p]))
        /\ UNCHANGED <<stateFile, sm, cm, acts, client, c2s, heldS, heldC>>
    BY <1>7 DEF SrvAnnounce, IsNext, ghosts
  <2>2. acts[p].kind = "download" <=> spc' = "ready"
    BY <2>1 DEF Awaits
  <2>3. OverwritesSafe'
    <3>1. spc' = "put" => acts[p].kind = "upload"
      BY <2>1 DEF Awaits
    <3> QED
      BY <1>0, <2>1, <3>1 DEF OverwritesSafe
  <2>4. ClientSafe'
    <3> DEFINE m == ActionMsg(p, acts[p])
    <3>1. m \in Message /\ m.path = p /\ m.act = acts[p]
      BY MessageTypes, MessageContents DEF TypeInv
    <3>2. Elems(s2c') = Elems(s2c) \union {m}
      BY <2>1, <3>1, ElemsOf DEF TypeInv
    <3>3. acts[p].kind \in Destructive => Among(items[p], heldS[p])
      <4>1. items \in {cm, NoManifest}
        BY <2>1 DEF Lockstep, SameManifest, Merging
      <4>2. acts[p].kind \in Destructive => Among(cm[p], heldS[p])
        BY <1>0, <2>1 DEF ClientSafe, InPlan
      <4>3. Among(NoManifest[p], heldS[p])
        BY NothingAmong DEF AllAmong
      <4> QED
        BY <4>1, <4>2, <4>3
    <3>4. \A q \in Path : acts'[q].kind \in Destructive => Among(cm'[q], heldS'[q])
      BY <1>0, <2>1 DEF ClientSafe, InPlan
    <3>5. cpc' \in {"file", "swap"} => Among(items'[dl'.path], heldS'[dl'.path])
      BY <1>0, <2>1 DEF ClientSafe, client
    <3>6. \A n \in Elems(s2c') : n.type = "ACTION" /\ n.act.kind \in Destructive =>
            Among(items'[n.path], heldS'[n.path])
      <4> HIDE DEF m
      <4> QED
        BY <1>0, <2>1, <3>1, <3>2, <3>3 DEF ClientSafe, client
    <3> QED
      BY <3>4, <3>5, <3>6 DEF ClientSafe
  <2>5. Confirmed'
    <3>1. spc' \in {"ready", "put", "ok"}
      BY <2>1 DEF Awaits
    <3>2. \A q \in Path : Pending(q) => Pending(q)' \/ q = p
      BY <2>1 DEF Pending
    <3>3. acts[p].kind = "download" => Pending(p)'
      BY <2>1, <2>2 DEF Pending
    <3> QED
      BY <1>0, <2>1, <2>2, <3>1, <3>2, <3>3 DEF Confirmed, InPlan
  <2>6. RecordedHeld'
    BY <1>0, <2>1, RecordedKept DEF TreesRemember
  <2> QED
    BY <2>3, <2>4, <2>5, <2>6 DEF Agreement
<1>8. ASSUME NEW p \in Path, SrvDeleteRemote(p)
      PROVE  Agreement'
  <2>1. /\ spc = "next" /\ p \in todo /\ acts[p].kind = "delete_remote"
        /\ spc' = "ok" /\ cur' = p /\ todo' = todo \ {p}
        /\ sm' = [sm EXCEPT ![p] = None]
        /\ s2c' = Append(s2c, ActionMsg(p, acts[p]))
        /\ UNCHANGED <<stateFile, cm, acts, client, c2s, heldS, heldC>>
    BY <1>8 DEF SrvDeleteRemote, IsNext, ghosts
  <2>2. OverwritesSafe'
    <3>1. \A q \in todo' : q # p /\ q \in todo /\ sm'[q] = sm[q]
      BY <2>1 DEF TypeInv, Manifest
    <3> QED
      BY <1>0, <2>1, <3>1 DEF OverwritesSafe
  <2>3. ClientSafe'
    <3> DEFINE m == ActionMsg(p, acts[p])
    <3>1. m \in Message /\ m.act.kind = "delete_remote"
      BY <2>1, MessageTypes, MessageContents DEF TypeInv
    <3>2. Elems(s2c') = Elems(s2c) \union {m}
      BY <2>1, <3>1, ElemsOf DEF TypeInv
    <3> HIDE DEF m
    <3> QED
      BY <1>0, <2>1, <3>1, <3>2 DEF ClientSafe, InPlan, Destructive, client
  <2>4. Confirmed'
    <3>1. \A q \in Path : Pending(q) => Pending(q)'
      BY <2>1 DEF Pending
    <3> QED
      BY <1>0, <2>1, <3>1 DEF Confirmed, InPlan
  <2>5. RecordedHeld'
    BY <1>0, <2>1, RecordedKept DEF TreesRemember
  <2> QED
    BY <2>2, <2>3, <2>4, <2>5 DEF Agreement
<1>9. CASE SrvSendFile
  <2> DEFINE m == FileMsg(sdisk[cur])
  <2>1. /\ spc = "ready" /\ spc' = "ok" /\ c2s # <<>> /\ Head(c2s).type = "READY"
        /\ c2s' = Tail(c2s) /\ s2c' = Append(s2c, m)
        /\ UNCHANGED <<stateFile, sm, cm, acts, todo, cur, client, heldS, heldC>>
    BY <1>9 DEF SrvSendFile, SrvGets, ghosts
  <2>2. m \in Message /\ m.type = "FILE" /\ s2c \in Seq(Message) /\ c2s \in Seq(Message)
    BY <1>9, <2>1, MessageTypes, MessageContents DEF SrvSendFile, TypeInv
  <2>3. c2s' = <<>> /\ Without(c2s', {"OK"})
    <3>1. OnlyLast(c2s, Replies) /\ Head(c2s).type \in Replies
      BY <2>1 DEF Lockstep, OneReply, Replies
    <3>2. c2s' = <<>>
      BY <2>1, <2>2, <3>1, OnlyLastOf
    <3> QED
      BY <2>2, <3>2, WithoutOf
  <2>4. Elems(s2c') = Elems(s2c) \union {m}
    BY <2>1, <2>2, ElemsOf
  <2> HIDE DEF m
  <2>5. OverwritesSafe'
    BY <1>0, <2>1, OverwritesKept DEF TreesRemember
  <2>6. ClientSafe'
    BY <1>0, <2>1, <2>2, <2>4, ClientSafeKept DEF TreesRemember, InPlan, client
  <2>7. Confirmed'
    <3>1. \A q \in Path : Pending(q) => Pending(q)'
      BY <2>1 DEF Pending
    <3> QED
      BY <1>0, <2>1, <2>3, <3>1, ConfirmedKept DEF TreesRemember, InPlan
  <2>8. RecordedHeld'
    BY <1>0, <2>1, RecordedKept DEF TreesRemember
  <2> QED
    BY <2>5, <2>6, <2>7, <2>8 DEF Agreement
<1>10. CASE SrvFileGone
  <2>1. SrvReturn /\ UNCHANGED <<stateFile, cpc, items, dl, s2c, heldS, heldC>>
    BY <1>10 DEF SrvFileGone, SrvQuit, client, ghosts
  <2> QED
    BY <2>1, ServerStops DEF TreesRemember
<1>11. CASE SrvOk
  <2>1. /\ spc = "ok" /\ spc' = "next" /\ c2s # <<>> /\ Head(c2s).type = "OK"
        /\ UNCHANGED <<stateFile, sm, cm, acts, todo, cur, client, s2c, heldS, heldC>>
    BY <1>11 DEF SrvOk, SrvGets, ghosts
  <2>2. ~Without(c2s, {"OK"})
    BY <2>1, WithoutOf DEF TypeInv
  <2>3. acts[cur].kind = "download" => Among(acts[cur].item, heldC[cur])
    BY <1>0, <2>1, <2>2 DEF Confirmed, InPlan
  <2>4. OverwritesSafe'
    BY <1>0, <2>1, OverwritesKept DEF TreesRemember
  <2>5. ClientSafe'
    BY <1>0, <2>1, ClientSafeKept DEF TreesRemember, InPlan, client
  <2>6. Confirmed'
    <3>1. \A q \in Path : Pending(q) => Pending(q)' \/ q = cur
      BY <2>1 DEF Pending
    <3> QED
      BY <1>0, <2>1, <2>3, <3>1 DEF Confirmed, InPlan
  <2>7. RecordedHeld'
    BY <1>0, <2>1, RecordedKept DEF TreesRemember
  <2> QED
    BY <2>4, <2>5, <2>6, <2>7 DEF Agreement
<1>12. CASE SrvPut
  <2> DEFINE put == Head(c2s)
             req == acts[cur].item
  <2>1. /\ spc = "put" /\ spc' = "next" /\ s2c' = Append(s2c, Plain("OK"))
        /\ UNCHANGED <<stateFile, cm, acts, todo, cur, client, heldC>>
    BY <1>12 DEF SrvPut, SrvGets
  <2>2. PICK x \in Received(put.file, req.size) :
          /\ PutAccepted(put, req, x)
          /\ heldS' = [heldS EXCEPT ![cur] = @ \union {x}]
          /\ sm' = [sm EXCEPT ![cur] = ItemOf([data |-> x, size |-> req.size,
                                                dos |-> put.item.dos])]
    BY <1>12 DEF SrvPut
  <2> HIDE DEF put
  <2>3. /\ cur \in Path /\ acts[cur].kind = "upload" /\ req # None
        /\ Among(req, heldC[cur])
    <3>1. cur \in Path /\ acts[cur].kind = "upload" /\ acts[cur] \in Action
      BY <2>1 DEF TypeInv
    <3>2. req \in Item
      BY <3>1 DEF Action
    <3>3. Among(req, heldC[cur])
      BY <1>0, <2>1, <3>1 DEF Confirmed, InPlan
    <3> QED
      BY <3>1, <3>2, <3>3, SentinelsAssumption
  <2>4. req.crc = CrcOf[x]
    BY <2>2, <2>3 DEF PutAccepted, Among
  <2>5. Among(sm'[cur], heldC[cur])
    BY <2>2, <2>3, <2>4 DEF Among, ItemOf, TypeInv, Manifest
  <2>6. TreesRemember
    BY <2>1, <2>2 DEF TreesRemember, TypeInv
  <2>7. OverwritesSafe'
    <3>1. \A q \in todo : q # cur => sm'[q] = sm[q]
      BY <2>2 DEF TypeInv, Manifest
    <3> QED
      BY <1>0, <2>1, <2>5, <3>1 DEF OverwritesSafe
  <2>8. ClientSafe'
    <3>1. \A m \in Elems(s2c') : m.type = "ACTION" => m \in Elems(s2c)
      BY <2>1, ElemsOf, MessageTypes, MessageContents DEF TypeInv
    <3> QED
      BY <1>0, <2>1, <2>6, <3>1, ClientSafeKept DEF InPlan, client
  <2>9. Confirmed'
    <3>1. \A q \in Path : Pending(q) => Pending(q)'
      BY <2>1 DEF Pending
    <3> QED
      BY <1>0, <2>1, <2>6, <3>1, ConfirmedKept DEF InPlan
  <2>10. RecordedHeld'
    BY <1>0, <2>1, <2>6, RecordedKept
  <2> QED
    BY <2>7, <2>8, <2>9, <2>10 DEF Agreement
<1>13. CASE SrvPutRefused
  <2>1. SrvReturn /\ UNCHANGED <<stateFile, cpc, items, dl, s2c, heldS, heldC>>
    BY <1>13 DEF SrvPutRefused, SrvQuit, client, ghosts
  <2> QED
    BY <2>1, ServerStops DEF TreesRemember
<1>14. CASE SrvReplace
  <2>1. /\ spc = "next" /\ spc' = "truncate" /\ todo = {}
        /\ UNCHANGED <<stateFile, sm, cm, acts, todo, cur, client, wire, heldS, heldC>>
    BY <1>14 DEF SrvReplace, ghosts
  <2>2. OverwritesSafe'
    BY <1>0, <2>1, OverwritesKept DEF TreesRemember
  <2>3. ClientSafe'
    BY <1>0, <2>1, ClientSafeKept DEF TreesRemember, InPlan, client, wire
  <2>4. Confirmed'
    <3>1. \A p \in Path : Pending(p) => Pending(p)'
      BY <2>1 DEF Pending
    <3>2. spc' \in {"truncate", "save"} => todo' = {}
      BY <1>0, <2>1 DEF Confirmed, InPlan
    <3> QED
      BY <1>0, <2>1, <3>1, <3>2, ConfirmedKept DEF TreesRemember, InPlan
  <2>5. RecordedHeld'
    BY <1>0, <2>1, RecordedKept DEF TreesRemember
  <2> QED
    BY <2>2, <2>3, <2>4, <2>5 DEF Agreement
<1>15. CASE SrvTruncate
  <2>1. /\ spc = "truncate" /\ spc' = "save" /\ stateFile' = Torn
        /\ UNCHANGED <<sm, cm, acts, todo, cur, client, wire, heldS, heldC>>
    BY <1>15 DEF SrvTruncate, ghosts
  <2>2. OverwritesSafe'
    BY <1>0, <2>1, OverwritesKept DEF TreesRemember
  <2>3. ClientSafe'
    BY <1>0, <2>1, ClientSafeKept DEF TreesRemember, InPlan, client, wire
  <2>4. Confirmed'
    <3>1. \A p \in Path : Pending(p) => Pending(p)'
      BY <2>1 DEF Pending
    <3>2. spc' \in {"truncate", "save"} => todo' = {}
      BY <1>0, <2>1 DEF Confirmed, InPlan
    <3> QED
      BY <1>0, <2>1, <3>1, <3>2, ConfirmedKept DEF TreesRemember, InPlan
  <2>5. RecordedHeld'
    BY <2>1 DEF RecordedHeld
  <2> QED
    BY <2>2, <2>3, <2>4, <2>5 DEF Agreement
<1>16. CASE SrvSave
  <2>1. /\ spc = "save" /\ stateFile' = StateAfterSync
        /\ s2c' = Append(s2c, DoneMsg(Cardinality(Conflicts))) /\ SrvReturn
        /\ UNCHANGED <<client, heldS, heldC>>
    BY <1>16 DEF SrvSave, ghosts
  <2>2. OverwritesSafe'
    BY <2>1 DEF OverwritesSafe, SrvReturn
  <2>3. ClientSafe'
    <3>1. \A m \in Elems(s2c') : m.type = "ACTION" => m \in Elems(s2c)
      BY <2>1, ElemsOf, MessageTypes, MessageContents, ConflictsCount DEF TypeInv
    <3> QED
      BY <1>0, <2>1, <3>1, ClientSafeKept DEF TreesRemember, InPlan, SrvReturn, client
  <2>4. Confirmed'
    BY <2>1 DEF Confirmed, InPlan, SrvReturn
  <2>5. ASSUME NEW p \in Path, stateFile'[p] # None
        PROVE  /\ Among(stateFile'[p].server, heldS[p])
               /\ Among(stateFile'[p].server, heldC[p])
               /\ Among(stateFile'[p].client, heldS[p])
               /\ Among(stateFile'[p].client, heldC[p])
    <3> DEFINE cli == apply_action(acts[p], cm[p])
    <3>1. stateFile'[p] = build_state_entry(sm[p], cli)
      BY <2>1 DEF StateAfterSync
    <3>2. Among(sm[p], heldS[p]) /\ Among(cm[p], heldC[p])
      BY DEF Held, ServerLists, ClientLists, AllAmong
    <3>3. Among(cli, heldC[p])
      <4>1. acts[p].kind = "upload" => Among(acts[p].item, heldC[p])
        BY <1>0, <2>1 DEF Confirmed, InPlan
      <4>2. acts[p].kind = "download" => Among(acts[p].item, heldC[p])
        BY <1>0, <2>1 DEF Confirmed, InPlan, Pending
      <4>3. Among(None, heldC[p])
        BY DEF Among
      <4> QED
        BY <3>2, <4>1, <4>2, <4>3 DEF apply_action
    <3> HIDE DEF cli
    <3> QED
      BY <2>5, <3>1, <3>2, <3>3, EntrySafe
  <2>6. RecordedHeld'
    BY <2>1, <2>5 DEF RecordedHeld
  <2> QED
    BY <2>2, <2>3, <2>4, <2>6 DEF Agreement
<1>17. CASE SrvUnexpected
  <2>1. SrvReturn /\ UNCHANGED <<stateFile, cpc, items, dl, s2c, heldS, heldC>>
    BY <1>17 DEF SrvUnexpected, SrvQuit, client, ghosts
  <2> QED
    BY <2>1, ServerStops DEF TreesRemember
<1>18. CASE SrvHangup
  <2>1. SrvReturn /\ UNCHANGED <<stateFile, cpc, items, dl, s2c, heldS, heldC>>
    BY <1>18 DEF SrvHangup, SrvQuit, client, ghosts
  <2> QED
    BY <2>1, ServerStops DEF TreesRemember
<1>19. CASE SrvError
  <2>1. SrvReturn /\ UNCHANGED <<stateFile, cpc, items, dl, s2c, heldS, heldC>>
    BY <1>19 DEF SrvError, SrvQuit, client, ghosts
  <2> QED
    BY <2>1, ServerStops DEF TreesRemember
<1>20. CASE SrvCrash
  <2>1. SrvReturn /\ UNCHANGED <<stateFile, cpc, items, dl, s2c, heldS, heldC>>
    BY <1>20 DEF SrvCrash, SrvQuit, client, ghosts
  <2> QED
    BY <2>1, ServerStops DEF TreesRemember
<1>21. CASE ScanTree
  <2>1. UNCHANGED <<stateFile, server, cpc, items, dl, s2c, c2s, heldS, heldC>>
    BY <1>21 DEF ScanTree, client, wire, ghosts
  <2> QED
    BY <2>1, AgreementKept DEF TreesRemember
<1>22. CASE ScanPublish
  <2>1. UNCHANGED <<stateFile, server, cpc, items, dl, s2c, c2s, heldS, heldC>>
    BY <1>22 DEF ScanPublish, client, wire, ghosts
  <2> QED
    BY <2>1, AgreementKept DEF TreesRemember
<1>23. CASE ScanError
  <2>1. UNCHANGED <<stateFile, server, cpc, items, dl, s2c, c2s, heldS, heldC>>
    BY <1>23 DEF ScanError, client, wire, ghosts
  <2> QED
    BY <2>1, AgreementKept DEF TreesRemember
<1>24. CASE CliHello
  <2>1. /\ cpc = "hello" /\ cpc' = "update" /\ s2c' = Tail(s2c) /\ s2c # <<>>
        /\ UNCHANGED <<stateFile, server, items, dl, heldS, heldC>>
    BY <1>24 DEF CliHello, CliGets, ghosts
  <2>2. spc # "ok"
    BY <2>1 DEF Lockstep, Opening
  <2>3. Elems(s2c') \subseteq Elems(s2c)
    BY <2>1, ElemsOf DEF TypeInv
  <2> QED
    BY <2>1, <2>2, <2>3, AgreementKept DEF TreesRemember
<1>25. CASE CliScan
  <2>1. /\ cpc = "update" /\ cpc' = "loop" /\ s2c' = Tail(s2c) /\ s2c # <<>>
        /\ UNCHANGED <<stateFile, server, heldS, heldC>>
    BY <1>25 DEF CliScan, CliGets, ghosts
  <2>2. spc \notin InPlan /\ Without(s2c, {"ACTION"})
    BY <2>1 DEF Lockstep, Opening, InPlan
  <2>3. \A m \in Elems(s2c') : m.type # "ACTION"
    BY <2>1, <2>2, ElemsOf DEF Without, TypeInv
  <2>4. OverwritesSafe'
    BY <1>0, <2>1, OverwritesKept DEF TreesRemember, server
  <2>5. ClientSafe'
    BY <2>1, <2>2, <2>3 DEF ClientSafe, server
  <2>6. Confirmed'
    BY <2>1, <2>2 DEF Confirmed, server
  <2>7. RecordedHeld'
    BY <1>0, <2>1, RecordedKept DEF TreesRemember
  <2> QED
    BY <2>4, <2>5, <2>6, <2>7 DEF Agreement
<1>26. CASE CliScanFails
  <2>1. CliReturn /\ UNCHANGED <<stateFile, server, c2s, heldS, heldC>>
    BY <1>26 DEF CliScanFails, CliQuit, ghosts
  <2> QED
    BY <2>1, ClientStops DEF TreesRemember
<1>27. CASE CliDownload
  <2>1. /\ s2c # <<>> /\ Head(s2c).type = "ACTION" /\ Head(s2c).act.kind = "download"
        /\ s2c' = Tail(s2c) /\ c2s' = Append(c2s, Plain("READY"))
        /\ dl'.path = Head(s2c).path
        /\ UNCHANGED <<stateFile, server, items, heldS, heldC>>
    BY <1>27 DEF CliDownload, CliAction, CliGets, ghosts
  <2>2. Elems(s2c') \subseteq Elems(s2c) /\ Head(s2c) \in Elems(s2c)
    BY <2>1, ElemsOf DEF TypeInv
  <2>3. Without(c2s, {"OK"}) => Without(c2s', {"OK"})
    BY <2>1, WithoutOf, MessageTypes, MessageContents DEF TypeInv
  <2>4. OverwritesSafe'
    BY <1>0, <2>1, OverwritesKept DEF TreesRemember, server
  <2>5. ClientSafe'
    <3>1. Among(items[dl'.path], heldS[dl'.path])
      BY <1>0, <2>1, <2>2 DEF ClientSafe, Destructive
    <3> QED
      BY <1>0, <2>1, <2>2, <3>1 DEF ClientSafe, server
  <2>6. Confirmed'
    <3>1. \A q \in Path : Pending(q) => Pending(q)'
      BY <2>1 DEF Pending, server
    <3>2. spc' \in {"truncate", "save"} => todo' = {}
      BY <1>0, <2>1 DEF Confirmed, InPlan, server
    <3> QED
      BY <1>0, <2>1, <2>3, <3>1, <3>2, ConfirmedKept DEF TreesRemember, server
  <2>7. RecordedHeld'
    BY <1>0, <2>1, RecordedKept DEF TreesRemember
  <2> QED
    BY <2>4, <2>5, <2>6, <2>7 DEF Agreement
<1>28. CASE CliFile
  <2>1. /\ cpc = "file" /\ cpc' = "swap" /\ s2c # <<>>
        /\ UNCHANGED <<stateFile, server, items, dl, c2s, heldS, heldC>>
    BY <1>28 DEF CliFile, CliGets, ghosts
  <2>2. PICK f, n : s2c' = Leftover(f, n) \o Tail(s2c)
    BY <1>28 DEF CliFile
  <2>3. \A m \in Elems(s2c') : m.type = "ACTION" => m \in Elems(s2c)
    BY <2>1, <2>2, AfterBody DEF TypeInv
  <2> QED
    BY <2>1, <2>3, AgreementKept DEF TreesRemember
<1>29. CASE CliFileRefused
  <2>1. CliReturn /\ UNCHANGED <<stateFile, server, c2s, heldS, heldC>>
    BY <1>29 DEF CliFileRefused, CliQuit, ghosts
  <2> QED
    BY <2>1, ClientStops DEF TreesRemember
<1>30. CASE CliSwap
  <2>1. /\ cpc = "swap" /\ cpc' = "loop" /\ c2s' = Append(c2s, Plain("OK"))
        /\ heldC' = [heldC EXCEPT ![dl.path] = @ \union {temp.data}]
        /\ UNCHANGED <<stateFile, server, items, s2c, heldS>>
    BY <1>30 DEF CliSwap
  <2>2. TreesRemember
    BY <2>1 DEF TreesRemember, TypeInv
  <2>3. /\ dl.path \in Path /\ dl.item \in Item /\ dl.item.known
        /\ temp.data \in Content /\ CrcOf[temp.data] = dl.item.crc
        /\ heldC'[dl.path] = heldC[dl.path] \union {temp.data}
    BY <2>1 DEF Held, Verified, TypeInv, File
  <2>4. Among(dl.item, heldC'[dl.path])
    BY <2>3 DEF Among, CrcCollisionFree
  <2>5. OverwritesSafe'
    BY <1>0, <2>1, <2>2, OverwritesKept DEF server
  <2>6. ClientSafe'
    BY <1>0, <2>1 DEF ClientSafe, server
  <2>7. Confirmed'
    <3> SUFFICES ASSUME spc \in InPlan
                 PROVE  Confirmed'
      BY <2>1 DEF Confirmed, server
    <3>1. \A q \in Path : acts[q].kind = "upload" => Among(acts[q].item, heldC'[q])
      BY <1>0, <2>2, AmongGrows DEF Confirmed, TreesRemember
    <3>2. \A q \in Path : acts[q].kind = "download" /\ ~Pending(q) =>
            Among(acts[q].item, heldC'[q])
      BY <1>0, <2>2, AmongGrows DEF Confirmed, TreesRemember
    <3>3. dl.path = cur /\ dl.item = acts[cur].item
      BY <2>1 DEF Lockstep, OneDownload, InPlan
    <3>4. Among(acts[cur].item, heldC'[cur])
      BY <2>4, <3>3
    <3>5. \A q \in Path : Pending(q)' <=> Pending(q)
      BY <2>1 DEF Pending, server
    <3>6. spc \in {"truncate", "save"} => todo = {}
      BY <1>0 DEF Confirmed, InPlan
    <3> QED
      BY <2>1, <3>1, <3>2, <3>4, <3>5, <3>6 DEF Confirmed, server
  <2>8. RecordedHeld'
    BY <1>0, <2>1, <2>2, RecordedKept
  <2> QED
    BY <2>5, <2>6, <2>7, <2>8 DEF Agreement
<1>31. CASE CliUpload
  <2> DEFINE m == PutMsg(Head(s2c).path, items[Head(s2c).path], cdisk[Head(s2c).path])
  <2>1. /\ cpc' = "upok" /\ s2c # <<>> /\ Head(s2c).type = "ACTION"
        /\ s2c' = Tail(s2c) /\ c2s' = Append(c2s, m)
        /\ UNCHANGED <<stateFile, server, items, dl, heldS, heldC>>
    BY <1>31 DEF CliUpload, CliAction, CliGets, ghosts
  <2>2. m \in Message /\ m.type = "PUT"
    BY <1>31, MessageTypes, MessageContents, MessageFields, StreamTypes
       DEF CliUpload, Uploadable, TypeInv, Manifest, CliAction, CliGets
  <2> HIDE DEF m
  <2>3. Elems(s2c') \subseteq Elems(s2c)
    BY <2>1, ElemsOf DEF TypeInv
  <2>4. Without(c2s, {"OK"}) => Without(c2s', {"OK"})
    BY <2>1, <2>2, WithoutOf DEF TypeInv
  <2> QED
    BY <2>1, <2>3, <2>4, AgreementKept DEF TreesRemember
<1>32. CASE CliUploadGone
  <2>1. CliReturn /\ UNCHANGED <<stateFile, server, c2s, heldS, heldC>>
    BY <1>32 DEF CliUploadGone, CliQuit, ghosts
  <2> QED
    BY <2>1, ClientStops DEF TreesRemember
<1>33. CASE CliUploadOk
  <2>1. /\ cpc' = "loop" /\ s2c # <<>> /\ s2c' = Tail(s2c)
        /\ UNCHANGED <<stateFile, server, items, dl, c2s, heldS, heldC>>
    BY <1>33 DEF CliUploadOk, CliGets, ghosts
  <2>2. Elems(s2c') \subseteq Elems(s2c)
    BY <2>1, ElemsOf DEF TypeInv
  <2> QED
    BY <2>1, <2>2, AgreementKept DEF TreesRemember
<1>34. CASE CliDeleteLocal
  <2>1. /\ s2c # <<>> /\ Head(s2c).type = "ACTION" /\ Head(s2c).act.kind # "download"
        /\ s2c' = Tail(s2c) /\ c2s' = Append(c2s, Plain("OK"))
        /\ UNCHANGED <<stateFile, server, client, heldS, heldC>>
    BY <1>34 DEF CliDeleteLocal, CliAction, CliGets, ghosts
  <2>2. spc = "ok" => acts[cur].kind # "download"
    BY <2>1, Answered, MessageTypes, MessageContents DEF Replies
  <2>3. Elems(s2c') \subseteq Elems(s2c)
    BY <2>1, ElemsOf DEF TypeInv
  <2>4. OverwritesSafe'
    BY <1>0, <2>1, OverwritesKept DEF TreesRemember, server
  <2>5. ClientSafe'
    BY <1>0, <2>1, <2>3, ClientSafeKept DEF TreesRemember, server, client
  <2>6. Confirmed'
    BY <1>0, <2>1, <2>2 DEF Confirmed, Pending, server
  <2>7. RecordedHeld'
    BY <1>0, <2>1, RecordedKept DEF TreesRemember
  <2> QED
    BY <2>4, <2>5, <2>6, <2>7 DEF Agreement
<1>35. CASE CliNote
  <2>1. /\ s2c # <<>> /\ Head(s2c).type = "ACTION" /\ Head(s2c).act.kind # "download"
        /\ s2c' = Tail(s2c) /\ c2s' = Append(c2s, Plain("OK"))
        /\ UNCHANGED <<stateFile, server, client, heldS, heldC>>
    BY <1>35 DEF CliNote, CliAction, CliGets, ghosts
  <2>2. spc = "ok" => acts[cur].kind # "download"
    BY <2>1, Answered, MessageTypes, MessageContents DEF Replies
  <2>3. Elems(s2c') \subseteq Elems(s2c)
    BY <2>1, ElemsOf DEF TypeInv
  <2>4. OverwritesSafe'
    BY <1>0, <2>1, OverwritesKept DEF TreesRemember, server
  <2>5. ClientSafe'
    BY <1>0, <2>1, <2>3, ClientSafeKept DEF TreesRemember, server, client
  <2>6. Confirmed'
    BY <1>0, <2>1, <2>2 DEF Confirmed, Pending, server
  <2>7. RecordedHeld'
    BY <1>0, <2>1, RecordedKept DEF TreesRemember
  <2> QED
    BY <2>4, <2>5, <2>6, <2>7 DEF Agreement
<1>36. CASE CliDone
  <2>1. CliReturn /\ UNCHANGED <<stateFile, server, c2s, heldS, heldC>>
    BY <1>36 DEF CliDone, CliQuit, ghosts
  <2> QED
    BY <2>1, ClientStops DEF TreesRemember
<1>37. CASE CliUnexpected
  <2>1. CliReturn /\ UNCHANGED <<stateFile, server, c2s, heldS, heldC>>
    BY <1>37 DEF CliUnexpected, CliQuit, ghosts
  <2> QED
    BY <2>1, ClientStops DEF TreesRemember
<1>38. CASE CliHangup
  <2>1. CliReturn /\ UNCHANGED <<stateFile, server, c2s, heldS, heldC>>
    BY <1>38 DEF CliHangup, CliQuit, ghosts
  <2> QED
    BY <2>1, ClientStops DEF TreesRemember
<1>39. CASE CliError
  <2>1. CliReturn /\ UNCHANGED <<stateFile, server, c2s, heldS, heldC>>
    BY <1>39 DEF CliError, CliQuit, ghosts
  <2> QED
    BY <2>1, ClientStops DEF TreesRemember
<1>40. CASE CliCrash
  <2>1. CliReturn /\ UNCHANGED <<stateFile, server, c2s, heldS, heldC>>
    BY <1>40 DEF CliCrash, CliQuit, ghosts
  <2> QED
    BY <2>1, ClientStops DEF TreesRemember
<1>41. CASE ConnectionLost
  <2>1. UNCHANGED <<stateFile, server, cpc, items, dl, s2c, c2s, heldS, heldC>>
    BY <1>41 DEF ConnectionLost, client, ghosts
  <2> QED
    BY <2>1, AgreementKept DEF TreesRemember
<1>42. ASSUME NEW p \in Path, UserWritesServer(p)
      PROVE  Agreement'
  <2>1. /\ UNCHANGED <<stateFile, server, cpc, items, dl, s2c, c2s, heldC>>
        /\ heldS' = [heldS EXCEPT ![p] = @ \union {nextVer}]
    BY <1>42 DEF UserWritesServer, UserEdit, client, wire
  <2>2. TreesRemember
    BY <2>1 DEF TreesRemember, TypeInv
  <2> QED
    BY <2>1, <2>2, AgreementKept
<1>43. ASSUME NEW p \in Path, UserDeletesServer(p)
      PROVE  Agreement'
  <2>1. UNCHANGED <<stateFile, server, cpc, items, dl, s2c, c2s, heldS, heldC>>
    BY <1>43 DEF UserDeletesServer, UserEdit, client, wire
  <2> QED
    BY <2>1, AgreementKept DEF TreesRemember
<1>44. ASSUME NEW p \in Path, UserWritesClient(p)
      PROVE  Agreement'
  <2>1. /\ UNCHANGED <<stateFile, server, cpc, items, dl, s2c, c2s, heldS>>
        /\ heldC' = [heldC EXCEPT ![p] = @ \union {nextVer}]
    BY <1>44 DEF UserWritesClient, UserEdit, client, wire
  <2>2. TreesRemember
    BY <2>1 DEF TreesRemember, TypeInv
  <2> QED
    BY <2>1, <2>2, AgreementKept
<1>45. ASSUME NEW p \in Path, UserDeletesClient(p)
      PROVE  Agreement'
  <2>1. UNCHANGED <<stateFile, server, cpc, items, dl, s2c, c2s, heldS, heldC>>
    BY <1>45 DEF UserDeletesClient, UserEdit, client, wire
  <2> QED
    BY <2>1, AgreementKept DEF TreesRemember
<1>46. CASE UNCHANGED vars
  <2>1. UNCHANGED <<stateFile, server, cpc, items, dl, s2c, c2s, heldS, heldC>>
    BY <1>46 DEF vars, client, wire, ghosts
  <2> QED
    BY <2>1, AgreementKept DEF TreesRemember
<1> QED
  BY <1>1, <1>2, <1>3, <1>4, <1>5, <1>6, <1>7, <1>8, <1>9, <1>10, <1>11,
     <1>12, <1>13, <1>14, <1>15, <1>16, <1>17, <1>18, <1>19, <1>20, <1>21,
     <1>22, <1>23, <1>24, <1>25, <1>26, <1>27, <1>28, <1>29, <1>30, <1>31,
     <1>32, <1>33, <1>34, <1>35, <1>36, <1>37, <1>38, <1>39, <1>40, <1>41,
     <1>42, <1>43, <1>44, <1>45, <1>46
     DEF Next, SrvStep, CliStep, FaultStep, UserStep

\* With checksums on, and if different contents have different checksums, an
\* action is planned, announced and carried out only if what it overwrites has
\* been on the other side, and recorded only when it has been carried out:
\* whatever crashes, is lost, or is edited in the meantime.
THEOREM AgreementInvariant ==
    ASSUME ~CrcDisabled, CrcCollisionFree
    PROVE  Spec => []Agreement
<1>1. Init => Agreement
  <2> SUFFICES ASSUME Init PROVE Agreement
    OBVIOUS
  <2>1. Elems(s2c) = {}
    BY Defaults, ElemsOf DEF Init
  <2> QED
    BY <2>1 DEF Init, Agreement, OverwritesSafe, ClientSafe, Confirmed,
                RecordedHeld, InPlan, NoState
<1>2. /\ TypeInv /\ TypeInv' /\ Held /\ Lockstep
      /\ Agreement /\ [Next]_vars
      => Agreement'
  BY AgreementStep
<1> QED
  BY <1>1, <1>2, TypeCorrect, HeldInvariant, LockstepInvariant, PTL DEF Spec

\* The state file never names as synchronised a content that one of the two
\* sides has not had.
THEOREM StateAgreed ==
    ASSUME ~CrcDisabled, CrcCollisionFree
    PROVE  Spec => []StateAgreement
<1>1. Agreement => StateAgreement
  BY DEF Agreement, RecordedHeld, StateAgreement, Among, Lists
<1> QED
  BY <1>1, AgreementInvariant, PTL

-----------------------------------------------------------------------------
(* What a step may not do.                                                 *)

SeenContentKept ==
    nextVer' = nextVer =>
      \A p \in Path :
        /\ sdisk[p] # None /\ sdisk'[p] # sdisk[p] /\ Lists(sm[p], sdisk[p].data)
             => sdisk[p].data \in heldC[p]
        /\ cdisk[p] # None /\ cdisk'[p] # cdisk[p] /\ Lists(items[p], cdisk[p].data)
             => cdisk[p].data \in heldS[p]

LEMMA ListedAmong ==
    ASSUME NEW item, NEW f \in File, NEW A, Among(item, A), Lists(item, f.data)
    PROVE  f.data \in A
BY DEF Among, Lists, File

LEMMA SeenContentStep ==
    ASSUME TypeInv, Agreement, [Next]_vars
    PROVE  SeenContentKept
<1>1. CASE Connect
  BY <1>1 DEF Connect, SeenContentKept
<1>2. CASE SrvHello
  BY <1>2 DEF SrvHello, SeenContentKept
<1>3. CASE SrvUpdateCheck
  BY <1>3 DEF SrvUpdateCheck, SeenContentKept
<1>4. CASE SrvManifest
  BY <1>4 DEF SrvManifest, SeenContentKept
<1>5. CASE SrvLoad
  BY <1>5 DEF SrvLoad, SeenContentKept
<1>6. CASE SrvPublish
  BY <1>6 DEF SrvPublish, SeenContentKept
<1>7. ASSUME NEW p \in Path, SrvAnnounce(p)
      PROVE  SeenContentKept
  BY <1>7 DEF SrvAnnounce, SeenContentKept
<1>8. ASSUME NEW p \in Path, SrvDeleteRemote(p)
      PROVE  SeenContentKept
  <2>1. p \in todo /\ acts[p].kind = "delete_remote"
    BY <1>8 DEF SrvDeleteRemote, IsNext
  <2>2. /\ cdisk' = cdisk
        /\ \A q \in Path : q # p => sdisk'[q] = sdisk[q]
    BY <1>8 DEF SrvDeleteRemote, TypeInv
  <2>3. Among(sm[p], heldC[p])
    BY <2>1 DEF Agreement, OverwritesSafe
  <2>4. sdisk[p] # None => sdisk[p] \in File
    BY DEF TypeInv
  <2> QED
    BY <2>2, <2>3, <2>4, ListedAmong DEF SeenContentKept
<1>9. CASE SrvSendFile
  BY <1>9 DEF SrvSendFile, SeenContentKept
<1>10. CASE SrvFileGone
  BY <1>10 DEF SrvFileGone, SeenContentKept
<1>11. CASE SrvOk
  BY <1>11 DEF SrvOk, SeenContentKept
<1>12. CASE SrvPut
  <2>1. spc = "put" /\ cdisk' = cdisk
    BY <1>12 DEF SrvPut, SrvGets
  <2>2. \A q \in Path : q # cur => sdisk'[q] = sdisk[q]
    BY <1>12 DEF SrvPut, TypeInv
  <2>3. Among(sm[cur], heldC[cur])
    BY <2>1 DEF Agreement, OverwritesSafe
  <2>4. sdisk[cur] # None /\ cur \in Path => sdisk[cur] \in File
    BY DEF TypeInv
  <2> QED
    BY <2>1, <2>2, <2>3, <2>4, ListedAmong DEF SeenContentKept
<1>13. CASE SrvPutRefused
  BY <1>13 DEF SrvPutRefused, SeenContentKept
<1>14. CASE SrvReplace
  BY <1>14 DEF SrvReplace, SeenContentKept
<1>15. CASE SrvTruncate
  BY <1>15 DEF SrvTruncate, SeenContentKept
<1>16. CASE SrvSave
  BY <1>16 DEF SrvSave, SeenContentKept
<1>17. CASE SrvUnexpected
  BY <1>17 DEF SrvUnexpected, SeenContentKept
<1>18. CASE SrvHangup
  BY <1>18 DEF SrvHangup, SeenContentKept
<1>19. CASE SrvError
  BY <1>19 DEF SrvError, SeenContentKept
<1>20. CASE SrvCrash
  BY <1>20 DEF SrvCrash, SeenContentKept
<1>21. CASE ScanTree
  BY <1>21 DEF ScanTree, SeenContentKept
<1>22. CASE ScanPublish
  BY <1>22 DEF ScanPublish, SeenContentKept
<1>23. CASE ScanError
  BY <1>23 DEF ScanError, SeenContentKept
<1>24. CASE CliHello
  BY <1>24 DEF CliHello, SeenContentKept
<1>25. CASE CliScan
  BY <1>25 DEF CliScan, SeenContentKept
<1>26. CASE CliScanFails
  BY <1>26 DEF CliScanFails, SeenContentKept
<1>27. CASE CliDownload
  BY <1>27 DEF CliDownload, SeenContentKept
<1>28. CASE CliFile
  <2>1. cpc \in {"file", "swap"} /\ sdisk' = sdisk
    BY <1>28 DEF CliFile, CliGets
  <2>2. \A q \in Path : q # dl.path => cdisk'[q] = cdisk[q]
    BY <1>28 DEF CliFile, TypeInv
  <2>3. Among(items[dl.path], heldS[dl.path])
    BY <2>1 DEF Agreement, ClientSafe
  <2>4. cdisk[dl.path] # None /\ dl.path \in Path => cdisk[dl.path] \in File
    BY DEF TypeInv
  <2> QED
    BY <2>1, <2>2, <2>3, <2>4, ListedAmong DEF SeenContentKept
<1>29. CASE CliFileRefused
  BY <1>29 DEF CliFileRefused, SeenContentKept
<1>30. CASE CliSwap
  <2>1. cpc \in {"file", "swap"} /\ sdisk' = sdisk
    BY <1>30 DEF CliSwap
  <2>2. \A q \in Path : q # dl.path => cdisk'[q] = cdisk[q]
    BY <1>30 DEF CliSwap, TypeInv
  <2>3. Among(items[dl.path], heldS[dl.path])
    BY <2>1 DEF Agreement, ClientSafe
  <2>4. cdisk[dl.path] # None /\ dl.path \in Path => cdisk[dl.path] \in File
    BY DEF TypeInv
  <2> QED
    BY <2>1, <2>2, <2>3, <2>4, ListedAmong DEF SeenContentKept
<1>31. CASE CliUpload
  BY <1>31 DEF CliUpload, SeenContentKept
<1>32. CASE CliUploadGone
  BY <1>32 DEF CliUploadGone, SeenContentKept
<1>33. CASE CliUploadOk
  BY <1>33 DEF CliUploadOk, SeenContentKept
<1>34. CASE CliDeleteLocal
  <2> DEFINE p == Head(s2c).path
  <2>1. /\ s2c # <<>> /\ Head(s2c).type = "ACTION"
        /\ Head(s2c).act.kind = "delete_local"
        /\ sdisk' = sdisk /\ cdisk' = [cdisk EXCEPT ![p] = None]
    BY <1>34 DEF CliDeleteLocal, CliAction, CliGets
  <2>2. \A q \in Path : q # p => cdisk'[q] = cdisk[q]
    BY <2>1 DEF TypeInv
  <2>3. Among(items[p], heldS[p])
    BY <2>1, ElemsOf DEF Agreement, ClientSafe, Destructive, TypeInv
  <2>4. cdisk[p] # None /\ p \in Path => cdisk[p] \in File
    BY DEF TypeInv
  <2> HIDE DEF p
  <2> QED
    BY <2>1, <2>2, <2>3, <2>4, ListedAmong DEF SeenContentKept
<1>35. CASE CliNote
  BY <1>35 DEF CliNote, SeenContentKept
<1>36. CASE CliDone
  BY <1>36 DEF CliDone, SeenContentKept
<1>37. CASE CliUnexpected
  BY <1>37 DEF CliUnexpected, SeenContentKept
<1>38. CASE CliHangup
  BY <1>38 DEF CliHangup, SeenContentKept
<1>39. CASE CliError
  BY <1>39 DEF CliError, SeenContentKept
<1>40. CASE CliCrash
  BY <1>40 DEF CliCrash, SeenContentKept
<1>41. CASE ConnectionLost
  BY <1>41 DEF ConnectionLost, SeenContentKept
<1>42. ASSUME NEW p \in Path, UserWritesServer(p)
      PROVE  SeenContentKept
  <2>1. nextVer' = nextVer + 1 /\ nextVer \in Nat
    BY <1>42, ConstantsAssumption DEF UserWritesServer, UserEdit, TypeInv
  <2> QED
    BY <2>1 DEF SeenContentKept
<1>43. ASSUME NEW p \in Path, UserDeletesServer(p)
      PROVE  SeenContentKept
  <2>1. nextVer' = nextVer + 1 /\ nextVer \in Nat
    BY <1>43, ConstantsAssumption DEF UserDeletesServer, UserEdit, TypeInv
  <2> QED
    BY <2>1 DEF SeenContentKept
<1>44. ASSUME NEW p \in Path, UserWritesClient(p)
      PROVE  SeenContentKept
  <2>1. nextVer' = nextVer + 1 /\ nextVer \in Nat
    BY <1>44, ConstantsAssumption DEF UserWritesClient, UserEdit, TypeInv
  <2> QED
    BY <2>1 DEF SeenContentKept
<1>45. ASSUME NEW p \in Path, UserDeletesClient(p)
      PROVE  SeenContentKept
  <2>1. nextVer' = nextVer + 1 /\ nextVer \in Nat
    BY <1>45, ConstantsAssumption DEF UserDeletesClient, UserEdit, TypeInv
  <2> QED
    BY <2>1 DEF SeenContentKept
<1>46. CASE UNCHANGED vars
  BY <1>46 DEF vars, SeenContentKept
<1> QED
  BY <1>1, <1>2, <1>3, <1>4, <1>5, <1>6, <1>7, <1>8, <1>9, <1>10, <1>11,
     <1>12, <1>13, <1>14, <1>15, <1>16, <1>17, <1>18, <1>19, <1>20, <1>21,
     <1>22, <1>23, <1>24, <1>25, <1>26, <1>27, <1>28, <1>29, <1>30, <1>31,
     <1>32, <1>33, <1>34, <1>35, <1>36, <1>37, <1>38, <1>39, <1>40, <1>41,
     <1>42, <1>43, <1>44, <1>45, <1>46
     DEF Next, SrvStep, CliStep, FaultStep, UserStep

\* A session never replaces or deletes a content its own manifests list unless
\* the other side has had it.
THEOREM SeenContentNotLost ==
    ASSUME ~CrcDisabled, CrcCollisionFree
    PROVE  Spec => NoSeenContentLost
<1>1. TypeInv /\ Agreement /\ [Next]_vars => SeenContentKept
  BY SeenContentStep
<1>2. TypeInv /\ Agreement /\ [Next]_vars => [SeenContentKept]_vars
  BY <1>1
<1>3. Spec => [][SeenContentKept]_vars
  BY <1>2, TypeCorrect, AgreementInvariant, PTL DEF Spec
<1> QED
  BY <1>3 DEF NoSeenContentLost, SeenContentKept


-----------------------------------------------------------------------------
(* Offered.                                                                *)

LEMMA OfferedKept ==
    ASSUME TypeInv', Offered,
           \A p \in Path : heldS[p] \subseteq heldS'[p],
           acts' \in {acts, NoActs},
           \A m \in Elems(s2c') : m.type = "ACTION" => m \in Elems(s2c),
           cpc' \in {"file", "swap"} => cpc \in {"file", "swap"} /\ dl' = dl
    PROVE  Offered'
<1>1. \A p \in Path : acts'[p].kind = "download" => Among(acts'[p].item, heldS'[p])
  BY NothingPlanned, AmongGrows DEF Offered
<1>2. \A m \in Elems(s2c') : m.type = "ACTION" => m.path \in Path
  BY ElemsOf, MessageFields DEF TypeInv
<1>3. \A m \in Elems(s2c') : m.type = "ACTION" /\ m.act.kind = "download" =>
        Among(m.act.item, heldS'[m.path])
  BY <1>2, AmongGrows DEF Offered
<1>4. cpc' \in {"file", "swap"} => dl'.path \in Path
  BY DEF TypeInv
<1>5. cpc' \in {"file", "swap"} => Among(dl'.item, heldS'[dl'.path])
  BY <1>4, AmongGrows DEF Offered
<1> QED
  BY <1>1, <1>3, <1>5 DEF Offered

\* What may follow in the server's stream without announcing an action.
LEMMA NothingAnnounced ==
    ASSUME NEW s \in Seq(Message)
    PROVE  /\ s # <<>> => \A m \in Elems(Tail(s)) : m.type = "ACTION" => m \in Elems(s)
           /\ \A u \in Message : u.type # "ACTION" =>
                \A m \in Elems(Append(s, u)) : m.type = "ACTION" => m \in Elems(s)
           /\ \A m \in Elems(<<Plain("HELLO")>>) : m.type # "ACTION"
           /\ \A f, n : s # <<>> =>
                \A m \in Elems(Leftover(f, n) \o Tail(s)) : m.type = "ACTION" => m \in Elems(s)
<1>1. Elems(<<Plain("HELLO")>>) = {Plain("HELLO")}
  BY Defaults, ElemsOf, MessageTypes
<1> QED
  BY <1>1, ElemsOf, AfterBody, MessageContents

LEMMA OfferedStep ==
    ASSUME ~CrcDisabled, CrcCollisionFree, TypeInv, TypeInv', Held, Offered, [Next]_vars
    PROVE  Offered'
<1>1. CASE Connect
  BY <1>1, OfferedKept, NothingAnnounced DEF Connect, ghosts, TypeInv
<1>2. CASE SrvHello
  BY <1>2, OfferedKept DEF SrvHello, client, ghosts
<1>3. CASE SrvUpdateCheck
  <2>1. Plain("UPDATE") \in Message /\ Plain("UPDATE").type # "ACTION"
    BY MessageTypes, MessageContents
  <2>2. \A m \in Elems(s2c') : m.type = "ACTION" => m \in Elems(s2c)
    BY <1>3, <2>1, NothingAnnounced DEF SrvUpdateCheck, TypeInv
  <2> QED
    BY <1>3, <2>2, OfferedKept DEF SrvUpdateCheck, client, ghosts
<1>4. CASE SrvManifest
  BY <1>4, OfferedKept DEF SrvManifest, client, ghosts
<1>5. CASE SrvLoad
  <2>1. AllAmong(sm', heldS)
    BY <1>5, TreeAmong DEF SrvLoad, Held, ServerLists
  <2>2. ASSUME NEW p \in Path, acts'[p].kind = "download"
        PROVE  Among(acts'[p].item, heldS[p])
    <3>1. acts'[p].item = sm'[p]
      BY <1>5, <2>2, PlannedDownload DEF SrvLoad, Plan
    <3> QED
      BY <2>1, <3>1 DEF AllAmong
  <2> QED
    BY <1>5, <2>2 DEF SrvLoad, client, wire, Offered
<1>6. CASE SrvPublish
  BY <1>6, OfferedKept DEF SrvPublish, client, wire, ghosts
<1>7. ASSUME NEW p \in Path, SrvAnnounce(p)
      PROVE  Offered'
  <2>1. /\ s2c' = Append(s2c, ActionMsg(p, acts[p]))
        /\ UNCHANGED <<acts, client, heldS>>
    BY <1>7 DEF SrvAnnounce, ghosts
  <2>2. \A m \in Elems(s2c') : m \in Elems(s2c) \/ m = ActionMsg(p, acts[p])
    BY <2>1, ElemsOf, MessageTypes DEF TypeInv
  <2> QED
    BY <2>1, <2>2, MessageContents DEF Offered, client
<1>8. ASSUME NEW p \in Path, SrvDeleteRemote(p)
      PROVE  Offered'
  <2>1. /\ s2c' = Append(s2c, ActionMsg(p, acts[p]))
        /\ UNCHANGED <<acts, client, heldS>>
    BY <1>8 DEF SrvDeleteRemote, ghosts
  <2>2. \A m \in Elems(s2c') : m \in Elems(s2c) \/ m = ActionMsg(p, acts[p])
    BY <2>1, ElemsOf, MessageTypes DEF TypeInv
  <2> QED
    BY <2>1, <2>2, MessageContents DEF Offered, client
<1>9. CASE SrvSendFile
  <2>1. sdisk[cur] \in File
    BY <1>9 DEF SrvSendFile, SrvGets, TypeInv
  <2> QED
    BY <1>9, <2>1, OfferedKept, NothingAnnounced, MessageTypes, MessageContents
       DEF SrvSendFile, client, ghosts, TypeInv
<1>10. CASE SrvFileGone
  BY <1>10, OfferedKept DEF SrvFileGone, SrvQuit, SrvReturn, client, ghosts
<1>11. CASE SrvOk
  BY <1>11, OfferedKept DEF SrvOk, client, ghosts
<1>12. CASE SrvPut
  <2>1. \A p \in Path : heldS[p] \subseteq heldS'[p]
    BY <1>12 DEF SrvPut, TypeInv
  <2>2. Plain("OK") \in Message /\ Plain("OK").type # "ACTION"
    BY MessageTypes, MessageContents
  <2>3. \A m \in Elems(s2c') : m.type = "ACTION" => m \in Elems(s2c)
    BY <1>12, <2>2, NothingAnnounced DEF SrvPut, TypeInv
  <2> QED
    BY <1>12, <2>1, <2>3, OfferedKept DEF SrvPut, client
<1>13. CASE SrvPutRefused
  BY <1>13, OfferedKept DEF SrvPutRefused, SrvQuit, SrvReturn, client, ghosts
<1>14. CASE SrvReplace
  BY <1>14, OfferedKept DEF SrvReplace, client, wire, ghosts
<1>15. CASE SrvTruncate
  BY <1>15, OfferedKept DEF SrvTruncate, client, wire, ghosts
<1>16. CASE SrvSave
  BY <1>16, OfferedKept, NothingAnnounced, MessageTypes, MessageContents, ConflictsCount
     DEF SrvSave, SrvReturn, client, ghosts, TypeInv
<1>17. CASE SrvUnexpected
  BY <1>17, OfferedKept DEF SrvUnexpected, SrvQuit, SrvReturn, client, ghosts
<1>18. CASE SrvHangup
  BY <1>18, OfferedKept DEF SrvHangup, SrvQuit, SrvReturn, client, ghosts
<1>19. CASE SrvError
  BY <1>19, OfferedKept DEF SrvError, SrvQuit, SrvReturn, client, ghosts
<1>20. CASE SrvCrash
  BY <1>20, OfferedKept DEF SrvCrash, SrvQuit, SrvReturn, client, ghosts
<1>21. CASE ScanTree
  BY <1>21, OfferedKept DEF ScanTree, server, client, wire, ghosts
<1>22. CASE ScanPublish
  BY <1>22, OfferedKept DEF ScanPublish, server, client, wire, ghosts
<1>23. CASE ScanError
  BY <1>23, OfferedKept DEF ScanError, server, client, wire, ghosts
<1>24. CASE CliHello
  BY <1>24, OfferedKept, NothingAnnounced DEF CliHello, CliGets, server, ghosts, TypeInv
<1>25. CASE CliScan
  BY <1>25, OfferedKept, NothingAnnounced DEF CliScan, CliGets, server, ghosts, TypeInv
<1>26. CASE CliScanFails
  BY <1>26, OfferedKept, NothingAnnounced
     DEF CliScanFails, CliGets, CliQuit, CliReturn, server, ghosts, TypeInv
<1>27. CASE CliDownload
  <2>1. /\ s2c # <<>> /\ Head(s2c).type = "ACTION" /\ Head(s2c).act.kind = "download"
        /\ s2c' = Tail(s2c) /\ cpc' = "file"
        /\ dl' = [path |-> Head(s2c).path, item |-> Head(s2c).act.item]
        /\ UNCHANGED <<server, heldS>>
    BY <1>27 DEF CliDownload, CliAction, CliGets, ghosts
  <2>2. Head(s2c) \in Elems(s2c)
    BY <2>1, ElemsOf DEF TypeInv
  <2>3. Among(dl'.item, heldS'[dl'.path])
    BY <2>1, <2>2 DEF Offered
  <2>4. \A m \in Elems(s2c') : m.type = "ACTION" => m \in Elems(s2c)
    BY <2>1, NothingAnnounced DEF TypeInv
  <2> QED
    BY <2>1, <2>3, <2>4 DEF Offered, server
<1>28. CASE CliFile
  <2>1. PICK f, n : s2c' = Leftover(f, n) \o Tail(s2c)
    BY <1>28 DEF CliFile
  <2> QED
    BY <1>28, <2>1, OfferedKept, NothingAnnounced DEF CliFile, CliGets, server, ghosts, TypeInv
<1>29. CASE CliFileRefused
  BY <1>29, OfferedKept, NothingAnnounced
     DEF CliFileRefused, CliGets, CliQuit, CliReturn, server, ghosts, TypeInv
<1>30. CASE CliSwap
  BY <1>30, OfferedKept DEF CliSwap, server, ghosts
<1>31. CASE CliUpload
  BY <1>31, OfferedKept, NothingAnnounced DEF CliUpload, CliAction, CliGets, server, ghosts, TypeInv
<1>32. CASE CliUploadGone
  BY <1>32, OfferedKept, NothingAnnounced
     DEF CliUploadGone, CliAction, CliGets, CliQuit, CliReturn, server, ghosts, TypeInv
<1>33. CASE CliUploadOk
  BY <1>33, OfferedKept, NothingAnnounced DEF CliUploadOk, CliGets, server, ghosts, TypeInv
<1>34. CASE CliDeleteLocal
  BY <1>34, OfferedKept, NothingAnnounced
     DEF CliDeleteLocal, CliAction, CliGets, server, client, ghosts, TypeInv
<1>35. CASE CliNote
  BY <1>35, OfferedKept, NothingAnnounced
     DEF CliNote, CliAction, CliGets, server, client, ghosts, TypeInv
<1>36. CASE CliDone
  BY <1>36, OfferedKept, NothingAnnounced
     DEF CliDone, CliGets, CliQuit, CliReturn, server, ghosts, TypeInv
<1>37. CASE CliUnexpected
  BY <1>37, OfferedKept DEF CliUnexpected, CliQuit, CliReturn, server, ghosts
<1>38. CASE CliHangup
  BY <1>38, OfferedKept DEF CliHangup, CliQuit, CliReturn, server, ghosts
<1>39. CASE CliError
  BY <1>39, OfferedKept DEF CliError, CliQuit, CliReturn, server, ghosts
<1>40. CASE CliCrash
  BY <1>40, OfferedKept DEF CliCrash, CliQuit, CliReturn, server, ghosts
<1>41. CASE ConnectionLost
  BY <1>41, OfferedKept DEF ConnectionLost, server, client, ghosts
<1>42. ASSUME NEW p \in Path, UserWritesServer(p)
      PROVE  Offered'
  <2>1. \A q \in Path : heldS[q] \subseteq heldS'[q]
    BY <1>42 DEF UserWritesServer, TypeInv
  <2> QED
    BY <1>42, <2>1, OfferedKept DEF UserWritesServer, server, client, wire
<1>43. ASSUME NEW p \in Path, UserDeletesServer(p)
      PROVE  Offered'
  BY <1>43, OfferedKept DEF UserDeletesServer, server, client, wire
<1>44. ASSUME NEW p \in Path, UserWritesClient(p)
      PROVE  Offered'
  BY <1>44, OfferedKept DEF UserWritesClient, server, client, wire
<1>45. ASSUME NEW p \in Path, UserDeletesClient(p)
      PROVE  Offered'
  BY <1>45, OfferedKept DEF UserDeletesClient, server, client, wire
<1>46. CASE UNCHANGED vars
  BY <1>46, OfferedKept DEF vars, server, client, wire, ghosts
<1> QED
  BY <1>1, <1>2, <1>3, <1>4, <1>5, <1>6, <1>7, <1>8, <1>9, <1>10, <1>11,
     <1>12, <1>13, <1>14, <1>15, <1>16, <1>17, <1>18, <1>19, <1>20, <1>21,
     <1>22, <1>23, <1>24, <1>25, <1>26, <1>27, <1>28, <1>29, <1>30, <1>31,
     <1>32, <1>33, <1>34, <1>35, <1>36, <1>37, <1>38, <1>39, <1>40, <1>41,
     <1>42, <1>43, <1>44, <1>45, <1>46
     DEF Next, SrvStep, CliStep, FaultStep, UserStep

\* With checksums on, and if different contents have different checksums, a
\* download offers a content the server's tree has held at that path: as
\* planned, as announced and as carried out, whatever crashes meanwhile.
THEOREM OfferedInvariant ==
    ASSUME ~CrcDisabled, CrcCollisionFree
    PROVE  Spec => []Offered
<1>1. Init => Offered
  <2> SUFFICES ASSUME Init PROVE Offered
    OBVIOUS
  <2>1. Elems(s2c) = {}
    BY Defaults, ElemsOf DEF Init
  <2> QED
    BY <2>1, NothingPlanned DEF Init, Offered
<1>2. TypeInv /\ TypeInv' /\ Held /\ Offered /\ [Next]_vars => Offered'
  BY OfferedStep
<1> QED
  BY <1>1, <1>2, TypeCorrect, HeldInvariant, PTL DEF Spec

-----------------------------------------------------------------------------
(* Steps of the protocol as steps of FileSync.                             *)

\* Nothing is listed that the tree has not held.
LEMMA ListingsHeld ==
    ASSUME Held'
    PROVE  Promise!ListsWhatWas
BY DEF Held, ServerLists, ClientLists, AllAmong, Among, Listed, Lists, Promise!ListsWhatWas

\* What is listed may be overwritten if the other side has had it.
LEMMA AmongExpendable ==
    ASSUME NEW p \in Path, NEW manifest, NEW A, Among(manifest[p], A)
    PROVE  Listed(manifest)[p] \subseteq A
BY DEF Among, Listed, Lists

\* A step that changes no tree.
LEMMA LooksStep ==
    ASSUME Held', UNCHANGED <<sdisk, cdisk, heldS, heldC, nextVer>>
    PROVE  Promise!Next
<1>1. Promise!Looks
  BY DEF Promise!Looks, Data
<1> QED
  BY <1>1, ListingsHeld DEF Promise!Next, Promise!Step

\* A step that removes a file of the server's tree.
LEMMA ServerRemovesStep ==
    ASSUME TypeInv, Held', NEW p \in Path, Among(sm[p], heldC[p]),
           sdisk' = [sdisk EXCEPT ![p] = None],
           UNCHANGED <<cdisk, heldS, heldC, nextVer>>
    PROVE  Promise!Next
<1>1. Data(sdisk)' = [Data(sdisk) EXCEPT ![p] = None] /\ Data(cdisk)' = Data(cdisk)
  BY DEF TypeInv, Data
<1>2. Promise!ServerRemoves(p)
  BY <1>1, AmongExpendable DEF Promise!ServerRemoves, Promise!Expendable
<1> QED
  BY <1>2, ListingsHeld DEF Promise!Next, Promise!Step

\* A step that removes a file of the client's tree.
LEMMA ClientRemovesStep ==
    ASSUME TypeInv, Held', NEW p \in Path, Among(items[p], heldS[p]),
           cdisk' = [cdisk EXCEPT ![p] = None],
           UNCHANGED <<sdisk, heldS, heldC, nextVer>>
    PROVE  Promise!Next
<1>1. Data(cdisk)' = [Data(cdisk) EXCEPT ![p] = None] /\ Data(sdisk)' = Data(sdisk)
  BY DEF TypeInv, Data
<1>2. Promise!ClientRemoves(p)
  BY <1>1, AmongExpendable DEF Promise!ClientRemoves, Promise!Expendable
<1> QED
  BY <1>2, ListingsHeld DEF Promise!Next, Promise!Step

\* A step that puts a file the client has had into the server's tree.
LEMMA ServerReceivesStep ==
    ASSUME TypeInv, Held', NEW p \in Path, NEW f \in File, Among(sm[p], heldC[p]),
           f.data \in heldC[p],
           sdisk' = [sdisk EXCEPT ![p] = f],
           heldS' = [heldS EXCEPT ![p] = @ \union {f.data}],
           UNCHANGED <<cdisk, heldC, nextVer>>
    PROVE  Promise!Next
<1>1. Data(sdisk)' = [Data(sdisk) EXCEPT ![p] = f.data] /\ Data(cdisk)' = Data(cdisk)
  BY SentinelsAssumption DEF TypeInv, Data
<1>2. Promise!ServerReceives(p)
  BY <1>1, AmongExpendable DEF Promise!ServerReceives, Promise!Expendable
<1> QED
  BY <1>2, ListingsHeld DEF Promise!Next, Promise!Step

\* A step that puts a file the server has had into the client's tree.
LEMMA ClientReceivesStep ==
    ASSUME TypeInv, Held', NEW p \in Path, NEW f \in File, Among(items[p], heldS[p]),
           f.data \in heldS[p],
           cdisk' = [cdisk EXCEPT ![p] = f],
           heldC' = [heldC EXCEPT ![p] = @ \union {f.data}],
           UNCHANGED <<sdisk, heldS, nextVer>>
    PROVE  Promise!Next
<1>1. Data(cdisk)' = [Data(cdisk) EXCEPT ![p] = f.data] /\ Data(sdisk)' = Data(sdisk)
  BY SentinelsAssumption DEF TypeInv, Data
<1>2. Promise!ClientReceives(p)
  BY <1>1, AmongExpendable DEF Promise!ClientReceives, Promise!Expendable
<1> QED
  BY <1>2, ListingsHeld DEF Promise!Next, Promise!Step

LEMMA PromiseStep ==
    ASSUME ~CrcDisabled, CrcCollisionFree, TypeInv, Held, Held', Lockstep,
           Agreement, Offered, [Next]_vars
    PROVE  Promise!Next
<1>1. CASE Connect
  BY <1>1, LooksStep DEF Connect, ghosts
<1>2. CASE SrvHello
  BY <1>2, LooksStep DEF SrvHello, ghosts
<1>3. CASE SrvUpdateCheck
  BY <1>3, LooksStep DEF SrvUpdateCheck, ghosts
<1>4. CASE SrvManifest
  BY <1>4, LooksStep DEF SrvManifest, ghosts
<1>5. CASE SrvLoad
  BY <1>5, LooksStep DEF SrvLoad
<1>6. CASE SrvPublish
  BY <1>6, LooksStep DEF SrvPublish, ghosts
<1>7. ASSUME NEW p \in Path, SrvAnnounce(p)
      PROVE  Promise!Next
  BY <1>7, LooksStep DEF SrvAnnounce, ghosts
<1>8. ASSUME NEW p \in Path, SrvDeleteRemote(p)
      PROVE  Promise!Next
  <2>1. p \in todo /\ acts[p].kind = "delete_remote"
    BY <1>8 DEF SrvDeleteRemote, IsNext
  <2>2. Among(sm[p], heldC[p])
    BY <2>1 DEF Agreement, OverwritesSafe
  <2> QED
    BY <1>8, <2>2, ServerRemovesStep DEF SrvDeleteRemote, ghosts
<1>9. CASE SrvSendFile
  BY <1>9, LooksStep DEF SrvSendFile, ghosts
<1>10. CASE SrvFileGone
  BY <1>10, LooksStep DEF SrvFileGone, ghosts
<1>11. CASE SrvOk
  BY <1>11, LooksStep DEF SrvOk, ghosts
<1>12. CASE SrvPut
  <2> DEFINE put == Head(c2s)
             req == acts[cur].item
  <2>1. spc = "put" /\ c2s # <<>> /\ put.type = "PUT"
    BY <1>12 DEF SrvPut, SrvGets
  <2>2. cur \in Path /\ acts[cur].kind = "upload" /\ req \in Item
    BY <2>1 DEF TypeInv, Action
  <2>3. put.item \in Item /\ put.file \in File
    BY <2>1, StreamTypes, MessageFields DEF TypeInv
  <2>4. PICK x \in Received(put.file, req.size) :
          /\ PutAccepted(put, req, x)
          /\ sdisk' = [sdisk EXCEPT ![cur] = [data |-> x, size |-> req.size,
                                              dos |-> put.item.dos]]
          /\ heldS' = [heldS EXCEPT ![cur] = @ \union {x}]
    BY <1>12 DEF SrvPut
  <2> DEFINE f == [data |-> x, size |-> req.size, dos |-> put.item.dos]
  <2>5. x \in Content /\ f \in File
    BY <2>2, <2>3, <2>4, ReceivedType DEF Item, File
  <2>6. Among(req, heldC[cur]) /\ Among(sm[cur], heldC[cur])
    BY <2>1, <2>2 DEF Agreement, Confirmed, OverwritesSafe, InPlan
  <2>7. x \in heldC[cur]
    <3>1. req.known
      BY <2>2, <2>6, SentinelsAssumption DEF Among
    <3>2. req.crc = CrcOf[x]
      BY <2>4, <3>1 DEF PutAccepted
    <3> QED
      BY <2>2, <2>5, <2>6, <3>2, SentinelsAssumption DEF Among
  <2>8. UNCHANGED <<cdisk, heldC, nextVer>>
    BY <1>12 DEF SrvPut
  <2>9. f.data = x /\ sdisk' = [sdisk EXCEPT ![cur] = f]
    BY <2>4
  <2> HIDE DEF f, put, req
  <2>10. heldS' = [heldS EXCEPT ![cur] = @ \union {f.data}]
    BY <2>4, <2>9
  <2> QED
    BY <2>2, <2>5, <2>6, <2>7, <2>8, <2>9, <2>10, ServerReceivesStep
<1>13. CASE SrvPutRefused
  BY <1>13, LooksStep DEF SrvPutRefused, ghosts
<1>14. CASE SrvReplace
  BY <1>14, LooksStep DEF SrvReplace, ghosts
<1>15. CASE SrvTruncate
  BY <1>15, LooksStep DEF SrvTruncate, ghosts
<1>16. CASE SrvSave
  BY <1>16, LooksStep DEF SrvSave, ghosts
<1>17. CASE SrvUnexpected
  BY <1>17, LooksStep DEF SrvUnexpected, ghosts
<1>18. CASE SrvHangup
  BY <1>18, LooksStep DEF SrvHangup, ghosts
<1>19. CASE SrvError
  BY <1>19, LooksStep DEF SrvError, ghosts
<1>20. CASE SrvCrash
  BY <1>20, LooksStep DEF SrvCrash, ghosts
<1>21. CASE ScanTree
  BY <1>21, LooksStep DEF ScanTree, ghosts
<1>22. CASE ScanPublish
  BY <1>22, LooksStep DEF ScanPublish, ghosts
<1>23. CASE ScanError
  BY <1>23, LooksStep DEF ScanError, ghosts
<1>24. CASE CliHello
  BY <1>24, LooksStep DEF CliHello, ghosts
<1>25. CASE CliScan
  BY <1>25, LooksStep DEF CliScan, ghosts
<1>26. CASE CliScanFails
  BY <1>26, LooksStep DEF CliScanFails, ghosts
<1>27. CASE CliDownload
  BY <1>27, LooksStep DEF CliDownload, ghosts
<1>28. CASE CliFile
  <2>1. cpc = "file" /\ cdisk' = [cdisk EXCEPT ![dl.path] = None]
    BY <1>28 DEF CliFile, CliGets
  <2>2. dl.path \in Path
    BY <2>1 DEF TypeInv
  <2>3. Among(items[dl.path], heldS[dl.path])
    BY <2>1 DEF Agreement, ClientSafe
  <2> QED
    BY <1>28, <2>1, <2>2, <2>3, ClientRemovesStep DEF CliFile, ghosts
<1>29. CASE CliFileRefused
  BY <1>29, LooksStep DEF CliFileRefused, ghosts
<1>30. CASE CliSwap
  <2>1. cpc = "swap" /\ cdisk' = [cdisk EXCEPT ![dl.path] = temp]
    BY <1>30 DEF CliSwap
  <2>2. dl.path \in Path /\ dl.item \in Item /\ temp \in File /\ temp.data \in Content
    BY <2>1 DEF TypeInv, File
  <2>3. Among(items[dl.path], heldS[dl.path])
    BY <2>1 DEF Agreement, ClientSafe
  <2>4. temp.data \in heldS[dl.path]
    <3>1. CrcOf[temp.data] = dl.item.crc
      BY <2>1 DEF Held, Verified
    <3>2. Among(dl.item, heldS[dl.path])
      BY <2>1 DEF Offered
    <3> QED
      BY <2>2, <3>1, <3>2, SentinelsAssumption DEF Among
  <2> QED
    BY <1>30, <2>1, <2>2, <2>3, <2>4, ClientReceivesStep DEF CliSwap
<1>31. CASE CliUpload
  BY <1>31, LooksStep DEF CliUpload, ghosts
<1>32. CASE CliUploadGone
  BY <1>32, LooksStep DEF CliUploadGone, ghosts
<1>33. CASE CliUploadOk
  BY <1>33, LooksStep DEF CliUploadOk, ghosts
<1>34. CASE CliDeleteLocal
  <2> DEFINE p == Head(s2c).path
  <2>1. /\ s2c # <<>> /\ Head(s2c).type = "ACTION"
        /\ Head(s2c).act.kind = "delete_local"
        /\ cdisk' = [cdisk EXCEPT ![p] = None]
        /\ UNCHANGED <<sdisk, heldS, heldC, nextVer>>
    BY <1>34 DEF CliDeleteLocal, CliAction, CliGets, ghosts
  <2>2. Head(s2c) \in Elems(s2c) /\ p \in Path
    BY <2>1, ElemsOf, MessageFields DEF TypeInv
  <2>3. Among(items[p], heldS[p])
    BY <2>1, <2>2 DEF Agreement, ClientSafe, Destructive
  <2> HIDE DEF p
  <2> QED
    BY <2>1, <2>2, <2>3, ClientRemovesStep
<1>35. CASE CliNote
  BY <1>35, LooksStep DEF CliNote, ghosts
<1>36. CASE CliDone
  BY <1>36, LooksStep DEF CliDone, ghosts
<1>37. CASE CliUnexpected
  BY <1>37, LooksStep DEF CliUnexpected, ghosts
<1>38. CASE CliHangup
  BY <1>38, LooksStep DEF CliHangup, ghosts
<1>39. CASE CliError
  BY <1>39, LooksStep DEF CliError, ghosts
<1>40. CASE CliCrash
  BY <1>40, LooksStep DEF CliCrash, ghosts
<1>41. CASE ConnectionLost
  BY <1>41, LooksStep DEF ConnectionLost, ghosts
<1>42. ASSUME NEW p \in Path, UserWritesServer(p)
      PROVE  Promise!Next
  <2>1. NewFile \in File /\ nextVer \in Content /\ NewFile.data = nextVer
    BY <1>42, NewFileType DEF UserWritesServer, UserEdit, TypeInv, NewFile
  <2>2. Data(sdisk)' = [Data(sdisk) EXCEPT ![p] = nextVer] /\ Data(cdisk)' = Data(cdisk)
    BY <1>42, <2>1, SentinelsAssumption DEF UserWritesServer, TypeInv, Data
  <2>3. Promise!ServerEdited(p)
    BY <1>42, <2>1, <2>2 DEF UserWritesServer, UserEdit, Promise!ServerEdited
  <2> QED
    BY <2>3, ListingsHeld DEF Promise!Next, Promise!Step
<1>43. ASSUME NEW p \in Path, UserDeletesServer(p)
      PROVE  Promise!Next
  <2>1. Data(sdisk)' = [Data(sdisk) EXCEPT ![p] = None] /\ Data(cdisk)' = Data(cdisk)
    BY <1>43 DEF UserDeletesServer, TypeInv, Data
  <2>2. Promise!ServerEdited(p)
    BY <1>43, <2>1 DEF UserDeletesServer, UserEdit, Promise!ServerEdited
  <2> QED
    BY <2>2, ListingsHeld DEF Promise!Next, Promise!Step
<1>44. ASSUME NEW p \in Path, UserWritesClient(p)
      PROVE  Promise!Next
  <2>1. NewFile \in File /\ nextVer \in Content /\ NewFile.data = nextVer
    BY <1>44, NewFileType DEF UserWritesClient, UserEdit, TypeInv, NewFile
  <2>2. Data(cdisk)' = [Data(cdisk) EXCEPT ![p] = nextVer] /\ Data(sdisk)' = Data(sdisk)
    BY <1>44, <2>1, SentinelsAssumption DEF UserWritesClient, TypeInv, Data
  <2>3. Promise!ClientEdited(p)
    BY <1>44, <2>1, <2>2 DEF UserWritesClient, UserEdit, Promise!ClientEdited
  <2> QED
    BY <2>3, ListingsHeld DEF Promise!Next, Promise!Step
<1>45. ASSUME NEW p \in Path, UserDeletesClient(p)
      PROVE  Promise!Next
  <2>1. Data(cdisk)' = [Data(cdisk) EXCEPT ![p] = None] /\ Data(sdisk)' = Data(sdisk)
    BY <1>45 DEF UserDeletesClient, TypeInv, Data
  <2>2. Promise!ClientEdited(p)
    BY <1>45, <2>1 DEF UserDeletesClient, UserEdit, Promise!ClientEdited
  <2> QED
    BY <2>2, ListingsHeld DEF Promise!Next, Promise!Step
<1>46. CASE UNCHANGED vars
  BY <1>46, LooksStep DEF vars, ghosts
<1> QED
  BY <1>1, <1>2, <1>3, <1>4, <1>5, <1>6, <1>7, <1>8, <1>9, <1>10, <1>11,
     <1>12, <1>13, <1>14, <1>15, <1>16, <1>17, <1>18, <1>19, <1>20, <1>21,
     <1>22, <1>23, <1>24, <1>25, <1>26, <1>27, <1>28, <1>29, <1>30, <1>31,
     <1>32, <1>33, <1>34, <1>35, <1>36, <1>37, <1>38, <1>39, <1>40, <1>41,
     <1>42, <1>43, <1>44, <1>45, <1>46
     DEF Next, SrvStep, CliStep, FaultStep, UserStep

\* With checksums on, and if different contents have different checksums, the
\* protocol implements FileSync: contents move whole from one side to the
\* other, and none that the session lists is lost unless the other side has
\* had it, through lost connections, I/O errors, crashes and edits at any time.
THEOREM PromiseKept ==
    ASSUME ~CrcDisabled, CrcCollisionFree
    PROVE  Spec => KeepsPromise
<1>1. Init => Promise!Init
  BY DEF Init, Promise!Init, Data, Listed, Lists, NoManifest
<1>2. /\ TypeInv /\ Held /\ Held' /\ Lockstep /\ Agreement /\ Offered /\ [Next]_vars
      => [Promise!Next]_Promise!vars
  BY PromiseStep
<1> QED
  BY <1>1, <1>2, TypeCorrect, HeldInvariant, LockstepInvariant, AgreementInvariant,
     OfferedInvariant, PTL DEF Spec, KeepsPromise, Promise!Spec

-----------------------------------------------------------------------------
(* Files that are whole versions.                                          *)

\* The files whose content is a version of the size it was saved with, and
\* the items that name one.
WholeFiles == {f \in File : f.data \in Version /\ f.size = SizeOf[f.data]}
WholeItems == {it \in Item : /\ it.known
                             /\ \E v \in Version : it.crc = CrcOf[v] /\ it.size = SizeOf[v]}

\* With checksums on, no prefix of a body that grew is ever taken for a file.
LEMMA WholeClosed ==
    ASSUME ~CrcDisabled, CrcCollisionFree
    PROVE  Closed(WholeFiles, WholeItems)
<1>1. WholeFiles \subseteq File /\ WholeItems \subseteq Item
  BY DEF WholeFiles, WholeItems
<1>2. ASSUME NEW v \in Version
      PROVE  [data |-> v, size |-> SizeOf[v], dos |-> StampOf[v]] \in WholeFiles
  BY ConstantsAssumption DEF WholeFiles, File, Content
<1>3. ASSUME NEW f \in WholeFiles
      PROVE  ItemOf(f) \in WholeItems
  <2>1. ItemOf(f) \in Item
    BY <1>1, ItemOfType
  <2> QED
    BY <2>1 DEF ItemOf, WholeFiles, WholeItems
<1>4. ASSUME NEW req \in WholeItems, NEW it \in WholeItems, NEW x \in Content,
             CrcOf[x] = req.crc
      PROVE  [data |-> x, size |-> req.size, dos |-> it.dos] \in WholeFiles
  <2>1. PICK v \in Version : req.crc = CrcOf[v] /\ req.size = SizeOf[v]
    BY DEF WholeItems
  <2>2. x = v
    BY <1>4, <2>1 DEF CrcCollisionFree, Content
  <2> QED
    BY <2>1, <2>2 DEF WholeFiles, WholeItems, File, Item
<1>5. \A req \in WholeItems : req.known
  BY DEF WholeItems
<1> QED
  BY <1>1, <1>2, <1>3, <1>4, <1>5 DEF Closed

\* The item a side lists for what it holds.
ListedItem(f) == IF f = None THEN None ELSE ItemOf(f)

\* For whole files, equal contents and equal revisions are the same.
LEMMA SameRevision ==
    ASSUME CrcCollisionFree, NEW f \in WholeFiles, NEW g \in WholeFiles
    PROVE  /\ ItemOf(f).known /\ ItemOf(f).crc = CrcOf[f.data] /\ ItemOf(f) \in Item
           /\ same_revision(ItemOf(f), ItemOf(g)) <=> f.data = g.data
<1>1. f \in File /\ f.data \in Content /\ f.size = SizeOf[f.data]
  BY DEF WholeFiles, Content
<1>2. g \in File /\ g.data \in Content /\ g.size = SizeOf[g.data]
  BY DEF WholeFiles, Content
<1>3. CrcOf[f.data] = CrcOf[g.data] => f.data = g.data
  BY <1>1, <1>2 DEF CrcCollisionFree
<1> QED
  BY <1>1, <1>2, <1>3, ItemOfType DEF ItemOf, same_revision

\* What build_sync_action plans when both manifests are exact.
LEMMA ExactPlan ==
    ASSUME CrcCollisionFree, NEW prev \in Entry \union {None},
           prev # None => /\ prev.server.known /\ prev.client.known
                          /\ prev.server.crc = prev.client.crc,
           NEW sd \in WholeFiles \union {None}, NEW cd \in WholeFiles \union {None}
    PROVE  LET act  == build_sync_action(prev, ListedItem(sd), ListedItem(cd))
               same == \/ sd = None /\ cd = None
                       \/ sd # None /\ cd # None /\ sd.data = cd.data
           IN  /\ act.kind = "none" => same
               /\ act.kind = "conflict" => ~same
               /\ act.kind = "download" => sd # None /\ Lists(act.item, sd.data)
               /\ act.kind = "upload" => cd # None /\ Lists(act.item, cd.data)
               /\ act.kind = "delete_local" => sd = None
               /\ act.kind = "delete_remote" => cd = None
<1> DEFINE srv == ListedItem(sd)
           cli == ListedItem(cd)
           act == build_sync_action(prev, srv, cli)
           same == \/ sd = None /\ cd = None
                   \/ sd # None /\ cd # None /\ sd.data = cd.data
<1> SUFFICES /\ act.kind = "none" => same
             /\ act.kind = "conflict" => ~same
             /\ act.kind = "download" => sd # None /\ Lists(act.item, sd.data)
             /\ act.kind = "upload" => cd # None /\ Lists(act.item, cd.data)
             /\ act.kind = "delete_local" => sd = None
             /\ act.kind = "delete_remote" => cd = None
  OBVIOUS
<1>0. None \notin Item
  BY SentinelsAssumption
<1>1. /\ sd = None <=> srv = None
      /\ sd # None => srv \in Item /\ srv.known /\ srv.crc = CrcOf[sd.data]
  BY <1>0, SameRevision DEF ListedItem
<1>2. /\ cd = None <=> cli = None
      /\ cd # None => cli \in Item /\ cli.known /\ cli.crc = CrcOf[cd.data]
  BY <1>0, SameRevision DEF ListedItem
<1>3. sd # None /\ cd # None => (same_revision(srv, cli) <=> sd.data = cd.data)
  BY SameRevision DEF ListedItem
<1>4. same_live_items(srv, cli) <=> same
  BY <1>1, <1>2, <1>3 DEF same_live_items
<1>5. sd # None => Lists(srv, sd.data)
  BY <1>1 DEF Lists
<1>6. cd # None => Lists(cli, cd.data)
  BY <1>2 DEF Lists
<1>7. same_without_crc_bootstrap(srv, cli) /\ sd # None /\ cd # None => FALSE
  BY <1>1, <1>2 DEF same_without_crc_bootstrap
<1>8. ASSUME prev # None, same_state_item(srv, prev.server), same_state_item(cli, prev.client)
      PROVE  same
  <2>1. prev.server # None /\ prev.client # None
    BY <1>0, <1>8 DEF Entry
  <2>2. sd # None /\ cd # None /\ same_revision(srv, prev.server) /\ same_revision(cli, prev.client)
    BY <1>1, <1>2, <1>8, <2>1 DEF same_state_item
  <2>3. srv.crc = prev.server.crc /\ cli.crc = prev.client.crc
    BY <1>1, <1>2, <1>8, <2>2 DEF same_revision
  <2>4. CrcOf[sd.data] = CrcOf[cd.data] /\ sd.data \in Content /\ cd.data \in Content
    BY <1>1, <1>2, <1>8, <2>2, <2>3 DEF WholeFiles, Content
  <2> QED
    BY <2>2, <2>4 DEF CrcCollisionFree
<1> HIDE DEF srv, cli, same, act
<1>9. CASE srv # None /\ cli # None /\ same_live_items(srv, cli)
  BY <1>4, <1>9 DEF build_sync_action, NoAct, Act, act
<1>10. CASE ~(srv # None /\ cli # None /\ same_live_items(srv, cli)) /\ prev = None
  <2>1. act = first_meeting(srv, cli)
    BY <1>10 DEF build_sync_action, act
  <2>2. srv = None /\ cli = None => same
    BY <1>4 DEF same_live_items
  <2>3. srv # None /\ cli # None => ~same /\ ~same_without_crc_bootstrap(srv, cli)
    BY <1>1, <1>2, <1>4, <1>7, <1>10
  <2> QED
    BY <1>1, <1>2, <1>5, <1>6, <2>1, <2>2, <2>3, <1>4, <1>10 DEF first_meeting, NoAct, Act
<1>11. CASE ~(srv # None /\ cli # None /\ same_live_items(srv, cli)) /\ prev # None
  <2>1. act = three_way(prev, srv, cli)
    BY <1>11 DEF build_sync_action, act
  <2> QED
    BY <1>1, <1>2, <1>4, <1>5, <1>6, <1>8, <1>11, <2>1 DEF three_way, NoAct, Act
<1> QED
  BY <1>9, <1>10, <1>11

-----------------------------------------------------------------------------
(* RecordedSame.                                                           *)

\* The parts of Derived that are needed here, as TLAPS finds them more easily.
LEMMA WholeFacts ==
    ASSUME TypeInv, Derived(WholeFiles, WholeItems)
    PROVE  \A p \in Path :
             /\ sdisk[p] \in WholeFiles \union {None} /\ cdisk[p] \in WholeFiles \union {None}
             /\ sm[p] # None => sm[p].known
             /\ cm[p] # None => cm[p].known
             /\ acts[p].item # None => acts[p].item.known
<1>1. \A it \in WholeItems : it.known
  BY DEF WholeItems
<1> QED
  BY <1>1 DEF Derived, FilesIn, ItemsIn

LEMMA RecordedSameStep ==
    ASSUME TypeInv, Derived(WholeFiles, WholeItems), RecordedSame,
           stateFile' \in {stateFile, Torn, StateAfterSync}
    PROVE  RecordedSame'
<1>1. ASSUME stateFile' = StateAfterSync, NEW p \in Path, stateFile'[p] # None
      PROVE  /\ stateFile'[p].server.known /\ stateFile'[p].client.known
             /\ stateFile'[p].server.crc = stateFile'[p].client.crc
  <2> DEFINE srv == sm[p]
             cli == apply_action(acts[p], cm[p])
  <2>1. stateFile'[p] = build_state_entry(srv, cli)
    BY <1>1 DEF StateAfterSync
  <2>2. /\ srv # None /\ cli # None
        /\ same_live_items(srv, cli) \/ same_without_crc_bootstrap(srv, cli)
        /\ stateFile'[p].server = srv /\ stateFile'[p].client = cli
    BY <1>1, <2>1 DEF build_state_entry
  <2>3. srv.known /\ cli.known
    BY <2>2, WholeFacts DEF apply_action
  <2> QED
    BY <2>2, <2>3 DEF same_live_items, same_revision, same_without_crc_bootstrap
<1> QED
  BY <1>1 DEF RecordedSame

-----------------------------------------------------------------------------
(* Effective.                                                              *)

LEMMA EffectiveKept ==
    ASSUME Effective,
           fresh' /\ spc' \in InPlan =>
             /\ fresh /\ spc \in InPlan /\ UNCHANGED <<sdisk, cdisk, acts>>
             /\ \A p \in Path : Served(p)' => Served(p)
    PROVE  Effective'
<1> SUFFICES ASSUME fresh', spc' \in InPlan, NEW p \in Path
             PROVE  Planned(p)' /\ (Served(p)' /\ acts'[p].kind # "conflict" => Same(p)')
  BY DEF Effective
<1>1. Planned(p) /\ (Served(p) /\ acts[p].kind # "conflict" => Same(p))
  BY DEF Effective
<1>2. (Planned(p)' <=> Planned(p)) /\ (Same(p)' <=> Same(p)) /\ acts' = acts
  BY DEF Planned, Same
<1> QED
  BY <1>1, <1>2

\* A step that changes the trees at one path only.
LEMMA EffectiveAt ==
    ASSUME Effective, NEW p \in Path,
           fresh' /\ spc' \in InPlan =>
             /\ fresh /\ spc \in InPlan /\ acts' = acts
             /\ \A q \in Path \ {p} : /\ sdisk'[q] = sdisk[q] /\ cdisk'[q] = cdisk[q]
                                      /\ Served(q)' => Served(q)
             /\ Planned(p)'
             /\ Served(p)' /\ acts[p].kind # "conflict" => Same(p)'
    PROVE  Effective'
<1> SUFFICES ASSUME fresh', spc' \in InPlan, NEW q \in Path, q # p
             PROVE  Planned(q)' /\ (Served(q)' /\ acts'[q].kind # "conflict" => Same(q)')
  BY DEF Effective
<1>1. Planned(q) /\ (Served(q) /\ acts[q].kind # "conflict" => Same(q))
  BY DEF Effective
<1>2. (Planned(q)' <=> Planned(q)) /\ (Same(q)' <=> Same(q)) /\ acts' = acts
  BY DEF Planned, Same
<1> QED
  BY <1>1, <1>2

LEMMA EffectiveStep ==
    ASSUME ~CrcDisabled, CrcCollisionFree, TypeInv, TypeInv', Held, Lockstep,
           Derived(WholeFiles, WholeItems), RecordedSame, Effective, [Next]_vars
    PROVE  Effective'
<1>0. s2c \in Seq(Message) /\ c2s \in Seq(Message)
  BY DEF TypeInv
<1>1. CASE \/ Connect \/ SrvHello \/ SrvUpdateCheck \/ SrvManifest
  BY <1>1 DEF Connect, SrvHello, SrvUpdateCheck, SrvManifest, InPlan, Effective
<1>2. CASE SrvLoad
  <2> SUFFICES ASSUME fresh', NEW p \in Path
               PROVE  Planned(p)' /\ (Served(p)' => Same(p)')
    BY DEF Effective
  <2>1. /\ sm' = TreeManifest(sdisk) /\ cm = TreeManifest(cdisk) /\ acts' = Plan(sm')
        /\ todo' = {q \in Path : acts'[q].kind # "none"}
        /\ sdisk' = sdisk /\ cdisk' = cdisk /\ spc' \in {"next", "publish"}
    BY <1>2 DEF SrvLoad, client, wire
  <2>2. acts'[p] = build_sync_action(LoadedState[p], ListedItem(sdisk[p]), ListedItem(cdisk[p]))
    BY <2>1 DEF Plan, TreeManifest, ListedItem
  <2>3. /\ LoadedState[p] \in Entry \union {None}
        /\ LoadedState[p] # None => /\ LoadedState[p].server.known /\ LoadedState[p].client.known
                                    /\ LoadedState[p].server.crc = LoadedState[p].client.crc
    BY DEF LoadedState, NoState, TypeInv, RecordedSame
  <2>4. Planned(p)'
    <3> DEFINE act == acts'[p]
    <3>1. /\ act.kind = "none" => Same(p)
          /\ act.kind = "conflict" => ~Same(p)
          /\ act.kind = "download" => sdisk[p] # None /\ Lists(act.item, sdisk[p].data)
          /\ act.kind = "upload" => cdisk[p] # None /\ Lists(act.item, cdisk[p].data)
          /\ act.kind = "delete_local" => sdisk[p] = None
          /\ act.kind = "delete_remote" => cdisk[p] = None
      <4>1. sdisk[p] \in WholeFiles \union {None} /\ cdisk[p] \in WholeFiles \union {None}
        BY WholeFacts
      <4> QED
        BY <2>2, <2>3, <4>1, ExactPlan DEF Same
    <3> QED
      BY <2>1, <3>1 DEF Planned, Same
  <2>5. Served(p)' => acts'[p].kind = "none"
    BY <2>1 DEF Served
  <2> QED
    BY <2>4, <2>5 DEF Planned
<1>3. CASE SrvPublish \/ SrvReplace \/ SrvTruncate
  BY <1>3, EffectiveKept
     DEF SrvPublish, SrvReplace, SrvTruncate, client, wire, ghosts, InPlan, Served, Waiting
<1>4. ASSUME NEW p \in Path, SrvAnnounce(p)
      PROVE  Effective'
  <2>1. Without(c2s, Replies)
    BY <1>4, QuietUnlessWaiting DEF SrvAnnounce, Lockstep
  <2>2. /\ spc = "next" /\ spc' = Awaits(acts[p].kind) /\ cur' = p /\ todo' = todo \ {p}
        /\ acts[p].kind # "delete_remote"
        /\ UNCHANGED <<sdisk, cdisk, acts, c2s, fresh>>
    BY <1>4 DEF SrvAnnounce, ghosts
  <2>3. ASSUME NEW q \in Path, Served(q)'
        PROVE  Served(q)
    BY <2>1, <2>2, <2>3 DEF Served, Without, Replies, Waiting, Awaits
  <2> QED
    BY <2>2, <2>3, EffectiveKept DEF InPlan
<1>5. ASSUME NEW p \in Path, SrvDeleteRemote(p)
      PROVE  Effective'
  <2>1. /\ spc = "next" /\ spc' = "ok" /\ cur' = p /\ todo' = todo \ {p}
        /\ acts[p].kind = "delete_remote" /\ sdisk' = [sdisk EXCEPT ![p] = None]
        /\ UNCHANGED <<cdisk, acts, c2s, fresh>>
    BY <1>5 DEF SrvDeleteRemote, ghosts
  <2>2. \A q \in Path \ {p} : /\ sdisk'[q] = sdisk[q] /\ cdisk'[q] = cdisk[q]
                              /\ Served(q)' => Served(q)
    BY <2>1 DEF TypeInv, Served, Waiting
  <2>3. sdisk'[p] = None
    BY <2>1 DEF TypeInv
  <2>4. fresh' => cdisk'[p] = None
    BY <2>1 DEF Effective, InPlan, Planned
  <2>5. fresh' => Planned(p)' /\ Same(p)'
    BY <2>1, <2>3, <2>4 DEF Planned, Same
  <2> QED
    BY <2>1, <2>2, <2>5, EffectiveAt DEF InPlan
<1>6. CASE SrvSendFile
  <2>1. /\ spc = "ready" /\ spc' = "ok" /\ c2s # <<>> /\ Head(c2s).type = "READY"
        /\ c2s' = Tail(c2s) /\ UNCHANGED <<sdisk, cdisk, acts, todo, cur, fresh>>
    BY <1>6 DEF SrvSendFile, SrvGets, ghosts
  <2>2. OnlyLast(c2s, Replies) /\ acts[cur].kind = "download"
    BY <2>1 DEF Lockstep, OneReply, OneDownload
  <2>3. Without(c2s', {"OK"})
    <3>1. Tail(c2s) = <<>>
      BY <1>0, <2>1, <2>2, OnlyLastOf DEF Replies
    <3> QED
      BY <1>0, <2>1, <3>1, WithoutOf
  <2>4. \A q \in Path : Served(q)' => Served(q)
    BY <2>1, <2>2, <2>3 DEF Served, Waiting
  <2> QED
    BY <2>1, <2>4, EffectiveKept DEF InPlan
<1>7. CASE SrvOk
  <2>1. /\ spc = "ok" /\ spc' = "next" /\ c2s # <<>> /\ Head(c2s).type = "OK"
        /\ UNCHANGED <<sdisk, cdisk, acts, todo, cur, fresh>>
    BY <1>7 DEF SrvOk, SrvGets, ghosts
  <2>2. ~Without(c2s, {"OK"})
    BY <1>0, <2>1, WithoutOf
  <2>3. \A q \in Path : Served(q)' => Served(q)
    BY <2>1, <2>2 DEF Served, Waiting
  <2> QED
    BY <2>1, <2>3, EffectiveKept DEF InPlan
<1>8. CASE SrvPut
  <2> DEFINE put == Head(c2s)
             req == acts[cur].item
  <2>1. /\ spc = "put" /\ spc' = "next" /\ cur \in Path /\ acts[cur].kind = "upload"
        /\ UNCHANGED <<cdisk, acts, todo, cur, fresh>>
    BY <1>8 DEF SrvPut, SrvGets, TypeInv
  <2>2. PICK x \in Received(put.file, req.size) :
          /\ PutAccepted(put, req, x)
          /\ sdisk' = [sdisk EXCEPT ![cur] = [data |-> x, size |-> req.size, dos |-> put.item.dos]]
    BY <1>8 DEF SrvPut
  <2>3. x \in Content
    BY <1>0, <1>8, StreamTypes, MessageFields, ReceivedType DEF SrvPut, SrvGets, TypeInv, Action, Item
  <2>4. \A q \in Path \ {cur} : /\ sdisk'[q] = sdisk[q] /\ cdisk'[q] = cdisk[q]
                                /\ Served(q)' => Served(q)
    BY <2>1, <2>2 DEF TypeInv, Served
  <2>5. sdisk'[cur] = [data |-> x, size |-> req.size, dos |-> put.item.dos]
    BY <2>1, <2>2 DEF TypeInv
  <2>6. sdisk'[cur] # None
    <3>1. sdisk'[cur] \in File
      <4>1. put.item \in Item /\ req \in Item
        BY <1>0, <1>8, <2>1, StreamTypes, MessageFields DEF SrvPut, SrvGets, TypeInv, Action
      <4> QED
        BY <2>3, <2>5, <4>1 DEF File, Item
    <3> QED
      BY <3>1, SentinelsAssumption
  <2>7. ASSUME fresh'
        PROVE  Planned(cur)' /\ Same(cur)'
    <3>1. cdisk[cur] # None /\ Lists(req, cdisk[cur].data)
      BY <2>1, <2>7 DEF Effective, InPlan, Planned
    <3>2. cdisk[cur].data \in Content
      BY <2>1, <3>1 DEF TypeInv, File
    <3>3. x = cdisk[cur].data
      BY <2>2, <2>3, <3>1, <3>2 DEF Lists, PutAccepted, CrcCollisionFree
    <3> QED
      BY <2>1, <2>5, <2>6, <3>1, <3>3 DEF Planned, Same
  <2> QED
    BY <2>1, <2>4, <2>7, EffectiveAt DEF InPlan
<1>9. CASE \/ SrvSave \/ SrvFileGone \/ SrvPutRefused \/ SrvUnexpected \/ SrvHangup
           \/ SrvError \/ SrvCrash
  BY <1>9
     DEF SrvSave, SrvFileGone, SrvPutRefused, SrvUnexpected, SrvHangup, SrvError, SrvCrash,
         SrvQuit, SrvReturn, InPlan, Effective
<1>10. CASE ScanTree \/ ScanPublish \/ ScanError \/ ConnectionLost
  BY <1>10, EffectiveKept
     DEF ScanTree, ScanPublish, ScanError, ConnectionLost, server, wire, ghosts, Served
<1>11. CASE CliHello
  <2>1. Elems(c2s') = Elems(c2s) \union {Plain("HELLO"), Plain("UPDATECHECK")}
    BY <1>0, <1>11, AfterGreeting DEF CliHello
  <2>2. Without(c2s, {"OK"}) => Without(c2s', {"OK"})
    BY <2>1, MessageContents DEF Without
  <2> QED
    BY <1>11, <2>2, EffectiveKept DEF CliHello, server, ghosts, Served
<1>12. CASE CliScan
  <2>1. ManifestMsg(items') \in Message /\ ManifestMsg(items').type = "MANIFEST"
    BY MessageTypes, MessageContents DEF TypeInv
  <2>2. c2s' = Append(c2s, ManifestMsg(items'))
    BY <1>12 DEF CliScan
  <2>3. Without(c2s, {"OK"}) => Without(c2s', {"OK"})
    BY <1>0, <2>1, <2>2, WithoutOf
  <2> QED
    BY <1>12, <2>3, EffectiveKept DEF CliScan, server, ghosts, Served
<1>13. CASE CliDownload
  <2>1. Plain("READY") \in Message /\ Plain("READY").type = "READY"
    BY MessageTypes, MessageContents
  <2>2. Without(c2s, {"OK"}) => Without(c2s', {"OK"})
    BY <1>0, <1>13, <2>1, WithoutOf DEF CliDownload
  <2> QED
    BY <1>13, <2>2, EffectiveKept DEF CliDownload, server, ghosts, Served
<1>14. CASE CliFile
  <2>0. PICK p \in Path : p = dl.path
    BY <1>14 DEF CliFile, CliGets, TypeInv
  <2>1. /\ cpc = "file" /\ p = dl.path /\ cdisk' = [cdisk EXCEPT ![p] = None]
        /\ UNCHANGED <<sdisk, spc, acts, todo, cur, c2s, fresh>>
    BY <1>14, <2>0 DEF CliFile, CliGets, server, ghosts
  <2>2. spc \in InPlan => /\ spc \in {"ready", "ok"} /\ acts[cur].kind = "download"
                          /\ p = cur /\ Without(c2s, {"OK"})
    BY <2>1 DEF Lockstep, OneDownload, InPlan
  <2>3. \A q \in Path \ {p} : /\ sdisk'[q] = sdisk[q] /\ cdisk'[q] = cdisk[q]
                                    /\ Served(q)' => Served(q)
    BY <2>1 DEF TypeInv, Served
  <2>4. spc \in InPlan => ~Served(p)'
    BY <2>1, <2>2 DEF Served, Waiting
  <2>5. fresh /\ spc \in InPlan => Planned(p)'
    BY <2>1, <2>2 DEF Effective, Planned
  <2> QED
    BY <2>1, <2>3, <2>4, <2>5, EffectiveAt
<1>15. CASE CliSwap
  <2>0. PICK p \in Path : p = dl.path
    BY <1>15 DEF CliSwap, TypeInv
  <2>1. /\ cpc = "swap" /\ p = dl.path /\ cdisk' = [cdisk EXCEPT ![p] = temp]
        /\ temp \in File /\ c2s' = Append(c2s, Plain("OK"))
        /\ UNCHANGED <<sdisk, spc, acts, todo, cur, fresh>>
    BY <1>15, <2>0 DEF CliSwap, TypeInv, server
  <2>2. spc \in InPlan => /\ spc \in {"ready", "ok"} /\ acts[cur].kind = "download"
                          /\ p = cur /\ dl.item = acts[cur].item
    BY <2>1 DEF Lockstep, OneDownload, InPlan
  <2>3. \A q \in Path \ {p} : sdisk'[q] = sdisk[q] /\ cdisk'[q] = cdisk[q]
    BY <2>1 DEF TypeInv
  <2>4. spc \in InPlan => \A q \in Path \ {p} : Served(q)' => Served(q)
    BY <2>1, <2>2 DEF Served
  <2>5. ASSUME fresh, spc \in InPlan
        PROVE  Planned(p)' /\ Same(p)'
    <3>1. sdisk[cur] # None /\ Lists(acts[cur].item, sdisk[cur].data)
      BY <2>1, <2>2, <2>5 DEF Effective, Planned
    <3>2. CrcOf[temp.data] = dl.item.crc
      BY <2>1 DEF Held, Verified
    <3>3. sdisk[cur].data \in Content /\ temp.data \in Content
      BY <2>1, <2>2, <2>5, <3>1 DEF TypeInv, File
    <3>4. temp.data = sdisk[cur].data
      BY <2>2, <2>5, <3>1, <3>2, <3>3 DEF Lists, CrcCollisionFree
    <3>5. cdisk'[cur] = temp /\ temp # None
      BY <2>1, <2>2, <2>5, SentinelsAssumption DEF TypeInv
    <3> QED
      BY <2>1, <2>2, <2>5, <3>1, <3>4, <3>5 DEF Planned, Same
  <2> QED
    BY <2>1, <2>3, <2>4, <2>5, EffectiveAt
<1>16. CASE CliUpload
  <2> DEFINE p == Head(s2c).path
             m == PutMsg(p, items[p], cdisk[p])
  <2>1. c2s' = Append(c2s, m)
    BY <1>16 DEF CliUpload
  <2>2. m \in Message /\ m.type = "PUT"
    BY <1>0, <1>16, MessageTypes, MessageContents, MessageFields, StreamTypes
       DEF CliUpload, Uploadable, TypeInv, Manifest, CliAction, CliGets
  <2> HIDE DEF m
  <2>3. Without(c2s, {"OK"}) => Without(c2s', {"OK"})
    BY <1>0, <2>1, <2>2, WithoutOf
  <2> QED
    BY <1>16, <2>3, EffectiveKept DEF CliUpload, server, ghosts, Served
<1>17. CASE CliDeleteLocal
  <2>0. PICK p \in Path : p = Head(s2c).path
    BY <1>0, <1>17, StreamTypes, MessageFields DEF CliDeleteLocal, CliAction, CliGets
  <2>1. /\ s2c # <<>> /\ Head(s2c).type = "ACTION" /\ Head(s2c).act.kind = "delete_local"
        /\ cdisk' = [cdisk EXCEPT ![p] = None]
        /\ UNCHANGED <<sdisk, spc, acts, todo, cur, fresh>>
    BY <1>17, <2>0 DEF CliDeleteLocal, CliAction, CliGets, server, ghosts
  <2>3. spc \in InPlan => spc = "ok" /\ acts[cur].kind = "delete_local" /\ p = cur
    BY <1>0, <2>1, <2>0, ElemsOf DEF Lockstep, OneAction, Awaits, InPlan
  <2>4. \A q \in Path \ {p} : sdisk'[q] = sdisk[q] /\ cdisk'[q] = cdisk[q]
    BY <2>1, <2>0 DEF TypeInv
  <2>5. spc \in InPlan => \A q \in Path \ {p} : Served(q)' => Served(q)
    BY <2>1, <2>3 DEF Served
  <2>6. ASSUME fresh, spc \in InPlan
        PROVE  Planned(p)' /\ Same(p)'
    <3>1. sdisk[p] = None
      BY <2>0, <2>3, <2>6 DEF Effective, Planned
    <3>2. cdisk'[p] = None
      BY <2>1, <2>0 DEF TypeInv
    <3> QED
      BY <2>1, <2>3, <2>6, <3>1, <3>2 DEF Planned, Same
  <2> QED
    BY <2>1, <2>0, <2>4, <2>5, <2>6, EffectiveAt
<1>18. CASE CliNote
  <2>0. PICK p \in Path : p = Head(s2c).path
    BY <1>0, <1>18, StreamTypes, MessageFields DEF CliNote, CliAction, CliGets
  <2>1. /\ s2c # <<>> /\ Head(s2c).type = "ACTION"
        /\ Head(s2c).act.kind \in {"delete_remote", "conflict"}
        /\ UNCHANGED <<sdisk, cdisk, spc, acts, todo, cur, fresh>>
    BY <1>18 DEF CliNote, CliAction, CliGets, server, ghosts
  <2>3. spc \in InPlan =>
          /\ spc = "ok" /\ acts[cur].kind \in {"delete_remote", "conflict"} /\ p = cur
    BY <1>0, <2>1, <2>0, ElemsOf DEF Lockstep, OneAction, Awaits, InPlan
  <2>4. spc \in InPlan => \A q \in Path \ {p} : Served(q)' => Served(q)
    BY <2>1, <2>3 DEF Served
  <2>5. ASSUME fresh, spc \in InPlan
        PROVE  Planned(p)' /\ (Served(p)' /\ acts[p].kind # "conflict" => Same(p)')
    <3>1. Planned(p) /\ (Served(p) /\ acts[p].kind # "conflict" => Same(p))
      BY <2>0, <2>5 DEF Effective
    <3>2. (Planned(p)' <=> Planned(p)) /\ (Same(p)' <=> Same(p))
      BY <2>1 DEF Planned, Same
    <3>3. Served(p)' /\ acts[p].kind # "conflict" => Served(p)
      BY <2>1, <2>3, <2>5 DEF Served
    <3> QED
      BY <3>1, <3>2, <3>3
  <2> QED
    BY <2>1, <2>0, <2>4, <2>5, EffectiveAt
<1>19. CASE \/ CliScanFails \/ CliFileRefused \/ CliUploadGone \/ CliUploadOk \/ CliDone
            \/ CliUnexpected \/ CliHangup \/ CliError \/ CliCrash
  BY <1>19, EffectiveKept
     DEF CliScanFails, CliFileRefused, CliUploadGone, CliUploadOk, CliDone, CliUnexpected,
         CliHangup, CliError, CliCrash, server, ghosts, Served
<1>20. ASSUME NEW p \in Path, \/ UserWritesServer(p) \/ UserDeletesServer(p)
                              \/ UserWritesClient(p) \/ UserDeletesClient(p)
       PROVE  Effective'
  BY <1>20
     DEF UserWritesServer, UserDeletesServer, UserWritesClient, UserDeletesClient, UserEdit,
         Effective
<1>21. CASE UNCHANGED vars
  BY <1>21, EffectiveKept DEF vars, server, wire, ghosts, Served
<1> QED
  BY <1>1, <1>2, <1>3, <1>4, <1>5, <1>6, <1>7, <1>8, <1>9, <1>10, <1>11, <1>12, <1>13, <1>14,
     <1>15, <1>16, <1>17, <1>18, <1>19, <1>20, <1>21
     DEF Next, SrvStep, CliStep, FaultStep, UserStep

-----------------------------------------------------------------------------
(* DONE.                                                                   *)

LEMMA DoneReported ==
    ASSUME s2c \in Seq(Message)
    PROVE  DoneMeansSynced <=>
             \A m \in Elems(s2c) :
               m.type = "DONE" /\ fresh => m.conflicts = Cardinality({p \in Path : ~Same(p)})
BY DEF DoneMeansSynced, Elems

\* Once every action has been carried out, the conflicts are what differs.
LEMMA ConflictsDiffer ==
    ASSUME Effective, fresh, spc = "save", todo = {}
    PROVE  {p \in Path : ~Same(p)} = Conflicts
<1>1. ASSUME NEW p \in Path
      PROVE  ~Same(p) <=> acts[p].kind = "conflict"
  <2>1. Planned(p) /\ (Served(p) /\ acts[p].kind # "conflict" => Same(p))
    BY DEF Effective, InPlan
  <2>2. Served(p)
    BY DEF Served, Waiting
  <2> QED
    BY <2>1, <2>2 DEF Planned
<1> QED
  BY <1>1 DEF Conflicts

\* A step that sends no DONE and changes no tree after one.
LEMMA DoneKept ==
    ASSUME TypeInv, TypeInv', AfterDone, DoneMeansSynced,
           \A m \in Elems(s2c') : m.type = "DONE" => m \in Elems(s2c),
           ~Without(s2c, {"DONE"}) =>
             /\ spc' = "idle" /\ cpc' \notin {"hello", "update", "file", "swap"}
             /\ Without(s2c', {"ACTION", "FILE"})
             /\ fresh' => fresh /\ UNCHANGED <<sdisk, cdisk>>
    PROVE  AfterDone' /\ DoneMeansSynced'
<1>1. ~Without(s2c', {"DONE"}) => ~Without(s2c, {"DONE"})
  BY DEF Without
<1>2. AfterDone'
  BY <1>1 DEF AfterDone
<1>3. ASSUME NEW m \in Elems(s2c'), m.type = "DONE", fresh'
      PROVE  m.conflicts = Cardinality({p \in Path : ~Same(p)'})
  <2>1. m \in Elems(s2c) /\ ~Without(s2c, {"DONE"})
    BY <1>3 DEF Without
  <2>2. fresh /\ UNCHANGED <<sdisk, cdisk>>
    BY <1>3, <2>1
  <2>3. m.conflicts = Cardinality({p \in Path : ~Same(p)})
    BY <1>3, <2>1, <2>2, DoneReported DEF TypeInv
  <2>4. \A p \in Path : Same(p)' <=> Same(p)
    BY <2>2 DEF Same
  <2>5. {p \in Path : ~Same(p)'} = {p \in Path : ~Same(p)}
    BY <2>4
  <2> QED
    BY <2>3, <2>5
<1>4. DoneMeansSynced'
  BY <1>3, DoneReported DEF TypeInv, DoneMeansSynced, Elems
<1> QED
  BY <1>2, <1>4

\* What may follow in the server's stream without reporting DONE.
LEMMA NothingReported ==
    ASSUME NEW s \in Seq(Message)
    PROVE  /\ s # <<>> => \A m \in Elems(Tail(s)) : m.type = "DONE" => m \in Elems(s)
           /\ \A u \in Message : u.type # "DONE" =>
                \A m \in Elems(Append(s, u)) : m.type = "DONE" => m \in Elems(s)
           /\ \A m \in Elems(<<Plain("HELLO")>>) : m.type # "DONE"
           /\ \A f, n : s # <<>> =>
                \A m \in Elems(Leftover(f, n) \o Tail(s)) : m.type = "DONE" => m \in Elems(s)
<1>1. Elems(<<Plain("HELLO")>>) = {Plain("HELLO")}
  BY Defaults, ElemsOf, MessageTypes
<1> QED
  BY <1>1, ElemsOf, AfterBody, MessageContents

LEMMA DoneStep ==
    ASSUME TypeInv, TypeInv', Lockstep, Agreement, Effective, AfterDone, DoneMeansSynced,
           [Next]_vars
    PROVE  AfterDone' /\ DoneMeansSynced'
<1>0. /\ s2c \in Seq(Message) /\ c2s \in Seq(Message)
      /\ ~Without(s2c, {"DONE"}) => /\ spc = "idle"
                                    /\ cpc \notin {"hello", "update", "file", "swap"}
                                    /\ Without(s2c, {"ACTION", "FILE"})
  BY DEF TypeInv, AfterDone
<1>1. CASE Connect
  <2>1. \A m \in Elems(s2c') : m.type # "DONE"
    BY <1>0, <1>1, NothingReported DEF Connect
  <2>2. s2c' \in Seq(Message)
    BY DEF TypeInv
  <2> QED
    BY <2>1, <2>2 DEF AfterDone, Without, DoneMeansSynced, Elems
<1>2. CASE SrvHello \/ SrvManifest \/ SrvLoad \/ SrvPublish \/ SrvOk \/ SrvReplace \/ SrvTruncate
  BY <1>0, <1>2, DoneKept
     DEF SrvHello, SrvManifest, SrvLoad, SrvPublish, SrvOk, SrvReplace, SrvTruncate, SrvGets, wire
<1>3. CASE SrvUpdateCheck
  <2>1. Plain("UPDATE") \in Message /\ Plain("UPDATE").type # "DONE"
    BY MessageTypes, MessageContents
  <2>2. \A m \in Elems(s2c') : m.type = "DONE" => m \in Elems(s2c)
    BY <1>0, <1>3, <2>1, NothingReported DEF SrvUpdateCheck
  <2> QED
    BY <1>0, <1>3, <2>2, DoneKept DEF SrvUpdateCheck, SrvGets
<1>4. ASSUME NEW p \in Path, SrvAnnounce(p) \/ SrvDeleteRemote(p)
      PROVE  AfterDone' /\ DoneMeansSynced'
  <2>1. s2c' = Append(s2c, ActionMsg(p, acts[p])) /\ spc = "next"
    BY <1>4 DEF SrvAnnounce, SrvDeleteRemote
  <2>2. ActionMsg(p, acts[p]) \in Message /\ ActionMsg(p, acts[p]).type # "DONE"
    BY MessageTypes, MessageContents DEF TypeInv
  <2>3. \A m \in Elems(s2c') : m.type = "DONE" => m \in Elems(s2c)
    BY <1>0, <2>1, <2>2, NothingReported
  <2> QED
    BY <1>0, <2>1, <2>3, DoneKept
<1>5. CASE SrvSendFile
  <2>1. FileMsg(sdisk[cur]) \in Message /\ FileMsg(sdisk[cur]).type # "DONE"
    BY <1>5, MessageTypes, MessageContents DEF TypeInv, SrvSendFile, SrvGets
  <2>2. \A m \in Elems(s2c') : m.type = "DONE" => m \in Elems(s2c)
    BY <1>0, <1>5, <2>1, NothingReported DEF SrvSendFile
  <2> QED
    BY <1>0, <1>5, <2>2, DoneKept DEF SrvSendFile, SrvGets
<1>6. CASE SrvPut
  <2>1. Plain("OK") \in Message /\ Plain("OK").type # "DONE"
    BY MessageTypes, MessageContents
  <2>2. \A m \in Elems(s2c') : m.type = "DONE" => m \in Elems(s2c)
    BY <1>0, <1>6, <2>1, NothingReported DEF SrvPut
  <2> QED
    BY <1>0, <1>6, <2>2, DoneKept DEF SrvPut, SrvGets
<1>7. CASE SrvSave
  <2> DEFINE done == DoneMsg(Cardinality(Conflicts))
  <2>1. /\ spc = "save" /\ spc' = "idle" /\ s2c' = Append(s2c, done)
        /\ UNCHANGED <<sdisk, cdisk, cpc, fresh>>
    BY <1>7 DEF SrvSave, SrvReturn, client, ghosts
  <2>2. done \in Message /\ done.type = "DONE" /\ done.conflicts = Cardinality(Conflicts)
    BY MessageTypes, MessageContents, ConflictsCount DEF DoneMsg
  <2> HIDE DEF done
  <2>3. Without(s2c, {"DONE"}) /\ Elems(s2c') = Elems(s2c) \union {done}
    BY <1>0, <2>1, <2>2, ElemsOf
  <2>4. AfterDone'
    <3>1. Without(s2c, {"ACTION", "FILE"})
      BY <2>1, QuietUnlessWaiting DEF Lockstep
    <3>2. Without(s2c', {"ACTION", "FILE"})
      BY <2>2, <2>3, <3>1 DEF Without
    <3>3. cpc \notin {"hello", "update", "file", "swap"}
      BY <2>1 DEF Lockstep, Opening, OneDownload
    <3> QED
      BY <2>1, <3>2, <3>3 DEF AfterDone
  <2>5. ASSUME fresh
        PROVE  done.conflicts = Cardinality({p \in Path : ~Same(p)'})
    <3>1. {p \in Path : ~Same(p)} = Conflicts
      BY <2>1, <2>5, ConflictsDiffer DEF Agreement, Confirmed, InPlan
    <3>2. \A p \in Path : Same(p)' <=> Same(p)
      BY <2>1 DEF Same
    <3>3. {p \in Path : ~Same(p)'} = {p \in Path : ~Same(p)}
      BY <3>2
    <3> QED
      BY <2>2, <3>1, <3>3
  <2>6. \A m \in Elems(s2c') : m.type = "DONE" => m = done
    BY <2>3 DEF Without
  <2>7. DoneMeansSynced'
    BY <2>1, <2>5, <2>6 DEF DoneMeansSynced, Elems
  <2> QED
    BY <2>4, <2>7
<1>8. CASE \/ SrvFileGone \/ SrvPutRefused \/ SrvUnexpected \/ SrvHangup \/ SrvError \/ SrvCrash
           \/ ScanTree \/ ScanPublish \/ ScanError \/ ConnectionLost
  BY <1>0, <1>8, DoneKept
     DEF SrvFileGone, SrvPutRefused, SrvUnexpected, SrvHangup, SrvError, SrvCrash, SrvQuit,
         SrvReturn, ScanTree, ScanPublish, ScanError, ConnectionLost, server, client, wire, ghosts
<1>9. CASE CliHello \/ CliScan
  BY <1>0, <1>9, NothingReported, DoneKept DEF CliHello, CliScan, CliGets
<1>10. CASE CliDownload \/ CliUpload \/ CliDeleteLocal \/ CliNote
  <2>1. s2c # <<>> /\ Head(s2c).type = "ACTION" /\ s2c' = Tail(s2c)
    BY <1>10 DEF CliDownload, CliUpload, CliDeleteLocal, CliNote, CliAction, CliGets
  <2>2. ~Without(s2c, {"ACTION", "FILE"})
    BY <1>0, <2>1, WithoutOf
  <2> QED
    BY <1>0, <2>1, <2>2, NothingReported, DoneKept
<1>11. CASE CliFile
  BY <1>0, <1>11, NothingReported, DoneKept DEF CliFile, CliGets
<1>12. CASE CliSwap
  BY <1>0, <1>12, DoneKept DEF CliSwap
<1>13. CASE CliScanFails \/ CliFileRefused \/ CliUploadGone \/ CliUploadOk \/ CliDone
  <2>1. /\ s2c # <<>> /\ s2c' = Tail(s2c) /\ cpc' \in {"idle", "loop"}
        /\ UNCHANGED <<spc, sdisk, cdisk, fresh>>
    BY <1>13
       DEF CliScanFails, CliFileRefused, CliUploadGone, CliUploadOk, CliDone, CliAction, CliGets,
           CliQuit, CliReturn, server, ghosts
  <2> QED
    BY <1>0, <2>1, NothingReported, WithoutOf, DoneKept
<1>14. CASE CliUnexpected \/ CliHangup \/ CliError \/ CliCrash
  BY <1>0, <1>14, DoneKept
     DEF CliUnexpected, CliHangup, CliError, CliCrash, CliQuit, CliReturn, server, ghosts
<1>15. ASSUME NEW p \in Path, \/ UserWritesServer(p) \/ UserDeletesServer(p)
                              \/ UserWritesClient(p) \/ UserDeletesClient(p)
       PROVE  AfterDone' /\ DoneMeansSynced'
  BY <1>0, <1>15, DoneKept
     DEF UserWritesServer, UserDeletesServer, UserWritesClient, UserDeletesClient, UserEdit,
         server, client, wire
<1>16. CASE UNCHANGED vars
  BY <1>0, <1>16, DoneKept DEF vars, server, client, wire, ghosts
<1> QED
  BY <1>1, <1>2, <1>3, <1>4, <1>5, <1>6, <1>7, <1>8, <1>9, <1>10, <1>11, <1>12, <1>13, <1>14,
     <1>15, <1>16
     DEF Next, SrvStep, CliStep, FaultStep, UserStep

\* With checksums on and no collisions: when a session that merged exact
\* manifests reports DONE, and no user has interfered, the two trees hold the
\* same contents at every path but the conflicts it reports.
THEOREM DoneSynced ==
    ASSUME ~CrcDisabled, CrcCollisionFree
    PROVE  Spec => []DoneMeansSynced
<1> DEFINE Whole == Derived(WholeFiles, WholeItems)
<1>1. Init => Whole /\ Outcome
  <2>1. Init => Whole
    BY DerivedInit
  <2>2. Init => Outcome
    BY Defaults, ElemsOf
       DEF Init, Outcome, RecordedSame, NoState, Effective, InPlan, AfterDone, Without,
           DoneMeansSynced
  <2> QED
    BY <2>1, <2>2
<1>2. TypeInv /\ TypeInv' /\ Whole /\ [Next]_vars => Whole'
  BY WholeClosed, DerivedStep
<1>3. /\ TypeInv /\ TypeInv' /\ Held /\ Lockstep /\ Agreement /\ Whole
      /\ Outcome /\ [Next]_vars
      => Outcome'
  <2> SUFFICES ASSUME TypeInv, TypeInv', Held, Lockstep, Agreement, Whole, Outcome, [Next]_vars
               PROVE  Outcome'
    OBVIOUS
  <2>1. RecordedSame'
    <3>1. stateFile' \in {stateFile, Torn, StateAfterSync}
      BY DEF Next, SrvStep, CliStep, FaultStep, UserStep, vars, Connect, SrvHello,
             SrvUpdateCheck, SrvManifest, SrvLoad, SrvPublish, SrvAnnounce, SrvDeleteRemote,
             SrvSendFile, SrvFileGone, SrvOk, SrvPut, SrvPutRefused, SrvReplace, SrvTruncate,
             SrvSave, SrvUnexpected, SrvHangup, SrvError, SrvCrash, ScanTree, ScanPublish,
             ScanError, CliHello, CliScan, CliScanFails, CliDownload, CliFile, CliFileRefused,
             CliSwap, CliUpload, CliUploadGone, CliUploadOk, CliDeleteLocal, CliNote, CliDone,
             CliUnexpected, CliHangup, CliError, CliCrash, ConnectionLost, UserWritesServer,
             UserDeletesServer, UserWritesClient, UserDeletesClient
    <3> QED
      BY <3>1, RecordedSameStep, SMTT(30) DEF Outcome
  <2>2. Effective'
    BY EffectiveStep DEF Outcome
  <2>3. AfterDone' /\ DoneMeansSynced'
    BY DoneStep DEF Outcome
  <2> QED
    BY <2>1, <2>2, <2>3 DEF Outcome
<1>4. Outcome => DoneMeansSynced
  BY DEF Outcome
<1> QED
  BY <1>1, <1>2, <1>3, <1>4, TypeCorrect, HeldInvariant, LockstepInvariant, AgreementInvariant,
     PTL DEF Spec

=============================================================================
