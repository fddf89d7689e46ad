----------------------- MODULE SyncSessionInvariants ------------------------
(***************************************************************************)
(* Inductive invariants of SyncSession for a client that computes          *)
(* checksums.  They say why StateAgreement and NoSeenContentLost hold:     *)
(*                                                                         *)
(*   Held       everything listed anywhere was read from a file once;      *)
(*   Lockstep   the two machines never have more than one request or       *)
(*              answer between them, and both mean the same action;        *)
(*   Agreement  an action is planned, sent and carried out only if what it *)
(*              overwrites has been on the other side, and recorded only   *)
(*              when it has been carried out;                              *)
(*   Offered    a download offers what the server's tree has held;         *)
(*   Dialogue   what each side may be sent, place by place;                *)
(*   Derived    every item was computed for a file, and every file was     *)
(*              written by a user or announced by an item;                 *)
(*   Outcome    what a session whose manifests were exact has done so far. *)
(*                                                                         *)
(* SyncSessionProofs, LockstepProofs and AgreementProofs prove them; TLC   *)
(* checks Lockstep and Agreement on two paths.                             *)
(***************************************************************************)
EXTENDS SyncSession

\* Different contents have different checksums.
CrcCollisionFree == \A x, y \in Content : CrcOf[x] = CrcOf[y] => x = y

\* The messages of a stream.
Elems(s) == {s[i] : i \in 1..Len(s)}

\* No message of these types is in the stream.
Without(s, types) == \A m \in Elems(s) : m.type \notin types

\* A message of these types can only be the last one of the stream.
OnlyLast(s, types) == \A i \in 1..Len(s) : s[i].type \in types => i = Len(s)

-----------------------------------------------------------------------------
(* Held.                                                                   *)

\* The item has a checksum, and the content it names has been among contents.
Among(item, contents) ==
    item # None => /\ item.known
                   /\ \A x \in Content : item.crc = CrcOf[x] => x \in contents

AllAmong(manifest, held) == \A p \in Path : Among(manifest[p], held[p])

DisksHeld ==
    \A p \in Path : /\ sdisk[p] # None => sdisk[p].data \in heldS[p]
                    /\ cdisk[p] # None => cdisk[p].data \in heldC[p]

\* Whatever the server lists, its tree has held; so for the client.
ServerLists == /\ shared # None => AllAmong(shared, heldS)
               /\ scan # Idle => AllAmong(scan, heldS)
               /\ AllAmong(sm, heldS)

ClientLists == /\ AllAmong(cache, heldC)
               /\ AllAmong(items, heldC)
               /\ AllAmong(cm, heldC)
               /\ \A m \in Elems(c2s) : m.type = "MANIFEST" => AllAmong(m.items, heldC)

\* A download announces a checksum, and what is verified has it.
Verified ==
    /\ \A p \in Path : acts[p].kind = "download" => acts[p].item.known
    /\ \A m \in Elems(s2c) :
         m.type = "ACTION" /\ m.act.kind = "download" => m.act.item.known
    /\ cpc \in {"file", "swap"} => dl.item.known
    /\ cpc = "swap" => CrcOf[temp.data] = dl.item.crc

\* The server's manifests list what its tree has held, the client's what its
\* own has held, wherever they are: in the cache, in flight, in a session.
Held == DisksHeld /\ ServerLists /\ ClientLists /\ Verified

-----------------------------------------------------------------------------
(* Lockstep.                                                               *)

Replies == {"READY", "PUT", "OK"}

\* The sync thread has the client's manifest.
Merging == {"load", "publish", "next", "ready", "put", "ok", "truncate", "save"}

\* Before it sends its manifest, the client has a server that waits for it.
Opening ==
    cpc \in {"hello", "update"} =>
        /\ spc \in {"idle", "hello", "check", "manifest"}
        /\ Without(s2c, {"ACTION"})
        /\ Without(c2s, {"MANIFEST"})

\* Both sides work from the same client manifest, while the client has one.
SameManifest ==
    /\ spc \in Merging => items \in {cm, NoManifest}
    /\ \A m \in Elems(c2s) : m.type = "MANIFEST" => items \in {m.items, NoManifest}

\* An announced action is the one the thread waits for, and unanswered.
OneAction ==
    /\ OnlyLast(s2c, {"ACTION", "FILE"})
    /\ \A m \in Elems(s2c) : m.type = "ACTION" =>
         /\ m.path = cur /\ m.act = acts[cur]
         /\ spc = Awaits(m.act.kind)
         /\ Without(c2s, Replies)

\* So is a body on its way to the client.
OneBody ==
    ~Without(s2c, {"FILE"}) =>
        /\ spc = "ok" /\ acts[cur].kind = "download"
        /\ Without(c2s, Replies)
        /\ cpc # "swap"

\* There is one answer at a time, and the thread waits for one.
OneReply ==
    /\ OnlyLast(c2s, Replies)
    /\ ~Without(c2s, Replies) => spc \in {"ready", "put", "ok"}

\* The download in progress is the one the thread waits for.
OneDownload ==
    /\ spc = "ready" => acts[cur].kind = "download"
    /\ cpc \in {"file", "swap"} =>
         /\ spc \in {"ready", "ok"} /\ acts[cur].kind = "download"
         /\ dl.path = cur /\ dl.item = acts[cur].item
         /\ Without(s2c, {"ACTION"})
         /\ Without(c2s, {"OK"})
    /\ cpc = "swap" => Without(c2s, Replies)

\* Request and answer alternate, and both sides mean the same action, as long
\* as the server's half of the session lives.
Lockstep ==
    /\ Opening
    /\ SameManifest
    /\ spc # "idle" => OneAction /\ OneBody /\ OneReply /\ OneDownload

-----------------------------------------------------------------------------
(* Agreement.                                                              *)

InPlan == {"publish", "next", "ready", "put", "ok", "truncate", "save"}

\* What a planned upload or remote deletion will overwrite on the server has
\* been on the client.
OverwritesSafe ==
    /\ \A p \in todo :
         acts[p].kind \in {"upload", "delete_remote"} => Among(sm[p], heldC[p])
    /\ spc = "put" => Among(sm[cur], heldC[cur])

\* What a download or local deletion overwrites on the client has been on the
\* server: as planned, as announced and as carried out.
Destructive == {"download", "delete_local"}

ClientSafe ==
    /\ spc \in InPlan =>
         \A p \in Path : acts[p].kind \in Destructive => Among(cm[p], heldS[p])
    /\ \A m \in Elems(s2c) : m.type = "ACTION" /\ m.act.kind \in Destructive =>
         Among(items[m.path], heldS[m.path])
    /\ cpc \in {"file", "swap"} => Among(items[dl.path], heldS[dl.path])

\* Where a download still has to be confirmed.
Pending(p) == p \in todo \/ (spc \in {"ready", "ok"} /\ p = cur)

\* What the thread takes the client to hold, the client has held; an OK that
\* is on its way confirms the download.
Confirmed ==
    spc \in InPlan =>
        /\ \A p \in Path : acts[p].kind = "upload" => Among(acts[p].item, heldC[p])
        /\ \A p \in Path : acts[p].kind = "download" /\ ~Pending(p) =>
             Among(acts[p].item, heldC[p])
        /\ spc = "ok" /\ acts[cur].kind = "download" /\ ~Without(c2s, {"OK"}) =>
             Among(acts[cur].item, heldC[cur])
        /\ spc \in {"truncate", "save"} => todo = {}

RecordedHeld ==
    stateFile # Torn =>
        \A p \in Path : stateFile[p] # None =>
            /\ Among(stateFile[p].server, heldS[p]) /\ Among(stateFile[p].server, heldC[p])
            /\ Among(stateFile[p].client, heldS[p]) /\ Among(stateFile[p].client, heldC[p])

\* Nothing is overwritten that the other side has not had, and nothing is
\* recorded as synchronised that one side has not had.
Agreement == OverwritesSafe /\ ClientSafe /\ Confirmed /\ RecordedHeld

-----------------------------------------------------------------------------
(* Offered.                                                                *)

\* A download offers a content the server's tree has held at that path: as
\* planned, as announced and as carried out, even when the server's half of
\* the session is gone.
Offered ==
    /\ \A p \in Path : acts[p].kind = "download" => Among(acts[p].item, heldS[p])
    /\ \A m \in Elems(s2c) : m.type = "ACTION" /\ m.act.kind = "download" =>
         Among(m.act.item, heldS[m.path])
    /\ cpc \in {"file", "swap"} => Among(dl.item, heldS[dl.path])

-----------------------------------------------------------------------------
(* Dialogue.  What is left of a body that was longer than announced stays  *)
(* at the head of its stream, and what follows it is not read.             *)

Junk(s) == s # <<>> /\ Head(s).type = "JUNK"

Empty(s)     == Junk(s) \/ s = <<>>
One(s, type) == Junk(s) \/ (s # <<>> /\ Head(s).type = type /\ Tail(s) = <<>>)
Two(s, first, second) ==
    \/ Junk(s)
    \/ /\ s # <<>> /\ Head(s).type = first
       /\ Tail(s) # <<>> /\ Head(Tail(s)).type = second
       /\ Tail(Tail(s)) = <<>>

Computing == {"load", "publish", "next", "truncate", "save"}
Waiting   == {"ready", "put", "ok"}

\* What a client may be sent where it is, whether the server lives or not.
ClientSent ==
    /\ cpc = "hello" => One(s2c, "HELLO")
    /\ cpc = "update" => Empty(s2c) \/ One(s2c, "UPDATE")
    /\ cpc = "loop" => Empty(s2c) \/ One(s2c, "ACTION") \/ One(s2c, "DONE")
    /\ cpc = "file" => Empty(s2c) \/ One(s2c, "FILE")
    /\ cpc = "swap" => Empty(s2c)
    /\ cpc = "upok" => \/ Empty(s2c) \/ One(s2c, "OK")
                       \/ Two(s2c, "OK", "ACTION") \/ Two(s2c, "OK", "DONE")

\* What the sync thread may be sent where it is.
ServerSent ==
    /\ spc = "hello" => Empty(c2s) \/ Two(c2s, "HELLO", "UPDATECHECK")
    /\ spc = "check" => One(c2s, "UPDATECHECK")
    /\ spc = "manifest" => Empty(c2s) \/ One(c2s, "MANIFEST")
    /\ spc \in Computing => Empty(c2s)
    /\ spc = "ready" => Empty(c2s) \/ One(c2s, "READY")
    /\ spc = "put" => Empty(c2s) \/ One(c2s, "PUT")
    /\ spc = "ok" => Empty(c2s) \/ One(c2s, "OK")

\* Where both are, and what is between them, while both live.
Places(srv, cli) == spc \in srv /\ cpc = cli

Dialogue ==
    \/ Places({"hello"}, "hello")    /\ One(s2c, "HELLO")  /\ Empty(c2s)
    \/ Places({"hello"}, "update")   /\ Empty(s2c)         /\ Two(c2s, "HELLO", "UPDATECHECK")
    \/ Places({"check"}, "update")   /\ Empty(s2c)         /\ One(c2s, "UPDATECHECK")
    \/ Places({"manifest"}, "update") /\ One(s2c, "UPDATE") /\ Empty(c2s)
    \/ Places({"manifest"}, "loop")  /\ Empty(s2c)         /\ One(c2s, "MANIFEST")
    \/ Places(Computing, "loop")     /\ Empty(s2c)         /\ Empty(c2s)
    \/ Places(Computing, "upok")     /\ One(s2c, "OK")     /\ Empty(c2s)
    \/ Places(Waiting, "loop")       /\ One(s2c, "ACTION") /\ Empty(c2s)
    \/ Places(Waiting, "upok")       /\ Two(s2c, "OK", "ACTION") /\ Empty(c2s)
    \/ Places({"ready"}, "file")     /\ Empty(s2c)         /\ One(c2s, "READY")
    \/ Places({"ok"}, "file")        /\ One(s2c, "FILE")   /\ Empty(c2s)
    \/ Places({"ok"}, "swap")        /\ Empty(s2c)         /\ Empty(c2s)
    \/ Places({"ok"}, "loop")        /\ Empty(s2c)         /\ One(c2s, "OK")
    \/ Places({"put"}, "upok")       /\ Empty(s2c)         /\ One(c2s, "PUT")

Conversation ==
    /\ cpc # "idle" => ClientSent
    /\ spc # "idle" => ServerSent
    /\ cpc # "idle" /\ spc # "idle" => Dialogue

\* Neither side is ever sent a line it does not expect, but for the rest of a
\* body that was longer than announced.
OnlyJunkSurprises ==
    /\ cpc \in DOMAIN CliAwaited /\ s2c # <<>> =>
         Head(s2c).type \in CliAwaited[cpc] \union {"JUNK"}
    /\ spc \in DOMAIN SrvAwaited /\ c2s # <<>> =>
         Head(c2s).type \in {SrvAwaited[spc], "JUNK"}

NoJunk == Without(s2c, {"JUNK"}) /\ Without(c2s, {"JUNK"})

-----------------------------------------------------------------------------
(* Derived.                                                                *)

FilesIn(F) == /\ \A p \in Path : {sdisk[p], cdisk[p]} \subseteq F \union {None}
              /\ temp \in F \union {None}

ItemsIn(I) ==
    /\ \A p \in Path :
         /\ {sm[p], cm[p], cache[p], items[p], acts[p].item} \subseteq I \union {None}
         /\ shared # None => shared[p] \in I \union {None}
         /\ scan # Idle => scan[p] \in I \union {None}
    /\ dl.item \in I \union {None}

SentIn(F, I) ==
    /\ \A m \in Elems(s2c) : /\ m.type = "ACTION" => m.act.item \in I \union {None}
                             /\ m.type = "FILE" => m.file \in F
    /\ \A m \in Elems(c2s) : /\ m.type = "MANIFEST" =>
                                  \A p \in Path : m.items[p] \in I \union {None}
                             /\ m.type = "PUT" => m.item \in I /\ m.file \in F

\* All files that are anywhere are in F, all items in I.
Derived(F, I) == FilesIn(F) /\ ItemsIn(I) /\ SentIn(F, I)

\* What users write and sessions store is in F if what is listed is in I, and
\* the items computed for files in F are in I.
Closed(F, I) ==
    /\ F \subseteq File /\ I \subseteq Item
    /\ \A v \in Version : [data |-> v, size |-> SizeOf[v], dos |-> StampOf[v]] \in F
    /\ \A f \in F :
         /\ ItemOf(f) \in I
         /\ CrcDisabled => [size |-> f.size, crc |-> 0, known |-> FALSE, dos |-> f.dos] \in I
    /\ \A f \in F, req, it \in I, x \in Content :
         /\ f.size >= req.size /\ x \in Received(f, req.size)
         /\ CrcDisabled \/ ~req.known \/ CrcOf[x] = req.crc
         => [data |-> x, size |-> req.size, dos |-> it.dos] \in F

\* All versions have the same size.
SameSizes == \A v, w \in Version : SizeOf[v] = SizeOf[w]

-----------------------------------------------------------------------------
(* Outcome.                                                                *)

\* A recorded entry is of one content on both sides.
RecordedSame ==
    stateFile # Torn =>
        \A p \in Path : stateFile[p] # None =>
            /\ stateFile[p].server.known /\ stateFile[p].client.known
            /\ stateFile[p].server.crc = stateFile[p].client.crc

\* What the trees hold at a path, as long as no user interferes, follows from
\* what is planned for it: the source of a transfer stays what it was.
Planned(p) ==
    /\ acts[p].kind = "none" => Same(p)
    /\ acts[p].kind = "conflict" => ~Same(p)
    /\ acts[p].kind = "download" => sdisk[p] # None /\ Lists(acts[p].item, sdisk[p].data)
    /\ acts[p].kind = "upload" => cdisk[p] # None /\ Lists(acts[p].item, cdisk[p].data)
    /\ acts[p].kind = "delete_local" => sdisk[p] = None
    /\ acts[p].kind = "delete_remote" => cdisk[p] = None

\* The action is carried out: its turn is over, or its OK on the way.
Served(p) ==
    /\ p \notin todo
    /\ p = cur /\ spc \in Waiting =>
         spc = "ok" /\ (acts[p].kind = "delete_remote" \/ ~Without(c2s, {"OK"}))

Effective ==
    fresh /\ spc \in InPlan =>
        \A p \in Path : /\ Planned(p)
                        /\ Served(p) /\ acts[p].kind # "conflict" => Same(p)

\* With DONE on its way nobody but users changes a tree.
AfterDone ==
    ~Without(s2c, {"DONE"}) =>
        /\ spc = "idle" /\ cpc \notin {"hello", "update", "file", "swap"}
        /\ Without(s2c, {"ACTION", "FILE"})

Outcome == RecordedSame /\ Effective /\ AfterDone /\ DoneMeansSynced

=============================================================================
