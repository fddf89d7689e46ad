------------------------------ MODULE CrcCache ------------------------------
(***************************************************************************)
(* The client's cache of checksums over many scans: its order, its limit,  *)
(* the age of its entries under the option crc_recheck and a tick counter  *)
(* that wraps.                                                             *)
(*                                                                         *)
(* A checksum is the content it is computed from.  A stamp stands for size *)
(* and DOS time together: an edit gives a new one, unless it is hidden     *)
(* (same size, within the two seconds of a DOS time).  Files are scanned   *)
(* in the fixed order of the directory, without yielding.                  *)
(***************************************************************************)
EXTENDS Naturals, Sequences, Functions

CONSTANTS
    Directory,      \* all names, in the order in which DOS lists them
    Data,           \* contents
    MaxFiles,       \* PROTO_MAX_FILES, limit of the scan and of the cache
    Recheck,        \* PROTO_CACHE_RECHECK_MS, in ticks
    Wrap,           \* the tick counter is modulo Wrap
    MaxGap,         \* bound: ticks between two scans that list all files
    MaxStamp,       \* bound: edits with a new stamp
    MaxHidden,      \* bound: hidden edits
    None

Path == Range(Directory)

ASSUME CacheAssumption ==
    /\ Directory \in Seq(Path) /\ IsInjective(Directory)
    /\ {MaxFiles, Recheck, Wrap} \subseteq Nat \ {0} /\ {MaxStamp, MaxHidden} \subseteq Nat
    /\ MaxGap \in 1..(Wrap - Recheck)
    /\ None \notin Data

VARIABLES
    disk,           \* [data, stamp] of every file, or None
    cache_items,
    crc_disabled, recheck,  \* the options; recheck never changes
    tick,           \* GetTickCount()
    listed,         \* checksums of the last scan, until something changes
    \* bounds and history:
    stamps, hidden, gap,
    since,          \* ticks since the last hidden edit of a file, up to Recheck,
                    \* or Never, if there is none under its stamp
    quiet,          \* scans since the last change, up to MaxFiles + 1
    misses          \* files read by the last scan

options == <<crc_disabled, recheck>>
bounds  == <<stamps, hidden>>
vars    == <<disk, cache_items, options, tick, listed, bounds, gap, since, quiet, misses>>

Never == Recheck + 1

Files == {p \in Path : disk[p] # None}

-----------------------------------------------------------------------------
(* The cache.                                                              *)

At(items, p) == {i \in DOMAIN items : items[i].path = p}

\* The entry that the loops over the cache find.
Find(items, p) == CHOOSE i \in At(items, p) : \A j \in At(items, p) : i <= j

\* memmove from the entry behind k to k.
Drop(items, k) == [i \in 1..Len(items) - 1 |-> IF i < k THEN items[i] ELSE items[i + 1]]

\* Mistake: ticks are compared as if they did not wrap.
Expired_plain(item) == recheck /\ tick >= item.checked_tick + Recheck

\* Mistake: entries expire although crc_recheck is off.
Expired_always(item) == (tick + Wrap - item.checked_tick) % Wrap >= Recheck

Expired(item) == recheck /\ (tick + Wrap - item.checked_tick) % Wrap >= Recheck

Hit(items, p) ==
    /\ At(items, p) # {}
    /\ LET item == items[Find(items, p)]
       IN  item.stamp = disk[p].stamp /\ ~Expired(item)

Entry(p, file) == [path |-> p, stamp |-> file.stamp, crc32 |-> file.data, checked_tick |-> tick]

\* Mistake: a full cache takes nothing more.
proto_remember_cached_crc_full(items, p, file) ==
    IF At(items, p) # {}
      THEN [items EXCEPT ![Find(items, p)] = Entry(p, file)]
    ELSE IF Len(items) >= MaxFiles THEN items ELSE Append(items, Entry(p, file))

\* An entry of the path is replaced where it is; else the oldest makes room.
proto_remember_cached_crc(items, p, file) ==
    IF At(items, p) # {}
      THEN [items EXCEPT ![Find(items, p)] = Entry(p, file)]
      ELSE Append(IF Len(items) >= MaxFiles THEN Drop(items, 1) ELSE items, Entry(p, file))

proto_forget_cached_crc(items, p) ==
    IF At(items, p) = {} THEN items ELSE Drop(items, Find(items, p))

\* proto_add_file_item, on the cache, the list and the number of files read.
proto_add_file_item(s, p) ==
    LET add(crc) == [s.listed EXCEPT ![p] = crc]
    IN  IF s.failed \/ s.count >= MaxFiles
          THEN [s EXCEPT !.failed = TRUE]
        ELSE IF crc_disabled
          THEN [s EXCEPT !.items = proto_forget_cached_crc(@, p), !.count = @ + 1]
        ELSE IF Hit(s.items, p)
          THEN [s EXCEPT !.listed = add(s.items[Find(s.items, p)].crc32), !.count = @ + 1]
        ELSE [s EXCEPT !.listed = add(disk[p].data), !.count = @ + 1, !.read = @ + 1,
                       !.items = proto_remember_cached_crc(@, p, disk[p])]

\* The cache, the list and the counts after the first n names of the directory.
Listing[n \in 0..Len(Directory)] ==
    IF n = 0
      THEN [items |-> cache_items, listed |-> [p \in Path |-> None],
            count |-> 0, read |-> 0, failed |-> FALSE]
    ELSE IF Directory[n] \in Files
      THEN proto_add_file_item(Listing[n - 1], Directory[n])
      ELSE Listing[n - 1]

-----------------------------------------------------------------------------
Init ==
    /\ disk = [p \in Path |-> None]
    /\ cache_items = <<>>
    /\ crc_disabled \in BOOLEAN /\ recheck \in BOOLEAN
    /\ tick \in 0..Wrap - 1 /\ gap = 0
    /\ listed = [p \in Path |-> None]
    /\ stamps = 0 /\ hidden = 0
    /\ since = [p \in Path |-> Never]
    /\ quiet = 0 /\ misses = 0

Changed == listed' = [p \in Path |-> None] /\ quiet' = 0 /\ misses' = 0

\* A scan, of proto_sync_directory.
proto_scan_directory ==
    LET result == Listing[Len(Directory)]
    IN  /\ cache_items' = result.items
        /\ listed' = result.listed
        /\ misses' = result.read
        /\ quiet' = IF result.failed \/ crc_disabled THEN 0
                    ELSE IF quiet > MaxFiles THEN quiet ELSE quiet + 1
        /\ gap' = IF result.failed THEN gap ELSE 0
        /\ UNCHANGED <<disk, options, tick, bounds, since>>

\* The user creates, edits or replaces a file, and time stamps tell.
Edit(p) ==
    /\ stamps < MaxStamp /\ stamps' = stamps + 1
    /\ \E x \in Data : disk' = [disk EXCEPT ![p] = [data |-> x, stamp |-> stamps']]
    /\ since' = [since EXCEPT ![p] = Never]
    /\ Changed
    /\ UNCHANGED <<cache_items, options, tick, hidden, gap>>

\* The user edits a file and time stamps do not tell.
EditHidden(p) ==
    /\ disk[p] # None
    /\ hidden < MaxHidden /\ hidden' = hidden + 1
    /\ \E x \in Data \ {disk[p].data} : disk' = [disk EXCEPT ![p].data = x]
    /\ since' = [since EXCEPT ![p] = 0]
    /\ Changed
    /\ UNCHANGED <<cache_items, options, tick, stamps, gap>>

\* The user deletes a file: its entry stays.
Delete(p) ==
    /\ disk[p] # None
    /\ disk' = [disk EXCEPT ![p] = None]
    /\ since' = [since EXCEPT ![p] = Never]
    /\ Changed
    /\ UNCHANGED <<cache_items, options, tick, bounds, gap>>

\* DELETE from the server.
proto_delete_local_file(p) ==
    /\ disk[p] # None
    /\ disk' = [disk EXCEPT ![p] = None]
    /\ cache_items' = proto_forget_cached_crc(cache_items, p)
    /\ since' = [since EXCEPT ![p] = Never]
    /\ Changed
    /\ UNCHANGED <<options, tick, bounds, gap>>

\* A download; its stamp is the server's, which may be the one the file had.
proto_receive_download(p) ==
    /\ stamps < MaxStamp /\ stamps' = stamps + 1
    /\ \E x \in Data, stamp \in {stamps'} \union {disk[q].stamp : q \in Files \intersect {p}} :
         LET file == [data |-> x, stamp |-> stamp]
         IN  /\ disk' = [disk EXCEPT ![p] = file]
             /\ cache_items' = IF crc_disabled THEN proto_forget_cached_crc(cache_items, p)
                               ELSE proto_remember_cached_crc(cache_items, p, file)
    /\ since' = [since EXCEPT ![p] = Never]
    /\ Changed
    /\ UNCHANGED <<options, tick, hidden, gap>>

\* The user changes the option.
SwitchCrc ==
    /\ crc_disabled' = ~crc_disabled
    /\ Changed
    /\ UNCHANGED <<disk, cache_items, recheck, tick, bounds, gap, since>>

\* Time passes, which changes something only if entries can expire.
Tick ==
    /\ gap < MaxGap /\ gap' = gap + 1
    /\ tick' = (tick + 1) % Wrap
    /\ since' = [p \in Path |-> IF since[p] < Recheck THEN since[p] + 1 ELSE since[p]]
    /\ IF recheck THEN Changed ELSE UNCHANGED <<listed, quiet, misses>>
    /\ UNCHANGED <<disk, cache_items, options, bounds>>

Next ==
    \/ proto_scan_directory \/ SwitchCrc \/ Tick
    \/ \E p \in Path : \/ Edit(p) \/ EditHidden(p) \/ Delete(p)
                       \/ proto_delete_local_file(p) \/ proto_receive_download(p)

Spec == Init /\ [][Next]_vars

-----------------------------------------------------------------------------
(* Properties.                                                             *)

\* A scan lists the checksum of what is on the disk, unless this very file has
\* had a hidden edit under the stamp it has; and with crc_recheck such an edit
\* escapes for Recheck ticks at most, over the wrap of the counter and although
\* a hit does not renew checked_tick.
ScansTell ==
    \A p \in Files : listed[p] \notin {None, disk[p].data} =>
        IF recheck THEN since[p] < Recheck ELSE since[p] <= Recheck

\* A tree of MaxFiles files at most that does not change is read from the disk
\* for MaxFiles scans at most, whatever is left in the cache of files that are
\* gone: without crc_recheck however long the scans are apart, with it as long
\* as the clock stands, since each tick may let entries expire.
Warms == quiet > MaxFiles => misses = 0
=============================================================================
