----------------------------- MODULE CacheProofs -----------------------------
(***************************************************************************)
(* Proofs about the client's cache of checksums, for every directory, size *)
(* of the cache, limit of age and width of the tick counter.               *)
(***************************************************************************)
EXTENDS CrcCache, Iteration, SequenceTheorems, FiniteSetTheorems

Item == [path : Path, stamp : Nat, crc32 : Data, checked_tick : 0..Wrap - 1]
File == [data : Data, stamp : Nat]

OnePerPath(items) ==
    \A i, j \in DOMAIN items : items[i].path = items[j].path => i = j

Cache(items) == items \in Seq(Item) /\ Len(items) <= MaxFiles /\ OnePerPath(items)

-----------------------------------------------------------------------------
(* The operations on the cache.                                            *)

LEMMA Elements ==
    ASSUME NEW items \in Seq(Item), NEW item
    PROVE  item \in Range(items) <=> \E i \in 1..Len(items) : item = items[i]
BY DEF Range

LEMMA FindFirst ==
    ASSUME NEW items \in Seq(Item), NEW p, At(items, p) # {}
    PROVE  /\ Find(items, p) \in 1..Len(items)
           /\ items[Find(items, p)].path = p
<1>1. At(items, p) \subseteq Nat
  BY DEF At
<1>2. PICK x \in At(items, p) : \A y \in At(items, p) : x <= y
  BY <1>1, Smallest
<1>3. Find(items, p) \in At(items, p)
  BY <1>2 DEF Find
<1> QED
  BY <1>3 DEF At

\* An entry goes, the others move up.
LEMMA Dropped ==
    ASSUME NEW items \in Seq(Item), NEW k \in 1..Len(items)
    PROVE  /\ Drop(items, k) \in Seq(Item)
           /\ Len(Drop(items, k)) = Len(items) - 1
           /\ DOMAIN Drop(items, k) = 1..Len(items) - 1
           /\ \A i \in 1..Len(items) - 1 :
                Drop(items, k)[i] = IF i < k THEN items[i] ELSE items[i + 1]
<1>1. \A i \in 1..Len(items) - 1 : items[i] \in Item /\ items[i + 1] \in Item
  OBVIOUS
<1>2. Len(items) - 1 \in Nat
  OBVIOUS
<1>3. Drop(items, k) \in [1..Len(items) - 1 -> Item]
  BY <1>1 DEF Drop
<1>4. Drop(items, k) \in Seq(Item)
  BY <1>2, <1>3
<1> QED
  BY <1>2, <1>3, <1>4 DEF Drop

LEMMA DroppedCache ==
    ASSUME NEW items, Cache(items), NEW k \in 1..Len(items)
    PROVE  /\ Cache(Drop(items, k))
           /\ \A item \in Range(Drop(items, k)) :
                item \in Range(items) /\ item.path # items[k].path
<1> DEFINE new == Drop(items, k)
           old(i) == IF i < k THEN i ELSE i + 1
<1>1. items \in Seq(Item) /\ Len(items) <= MaxFiles /\ OnePerPath(items)
  BY DEF Cache
<1>2. /\ new \in Seq(Item) /\ Len(new) = Len(items) - 1
      /\ \A i \in 1..Len(new) : new[i] = items[old(i)]
  BY <1>1, Dropped
<1>21. ASSUME NEW i \in 1..Len(new)
       PROVE  old(i) \in 1..Len(items) /\ old(i) # k
  BY <1>1, <1>2
<1>22. \A i, j \in 1..Len(new) : old(i) = old(j) => i = j
  BY <1>1, <1>2
<1> HIDE DEF new, old
<1>3. OnePerPath(new)
  <2>1. SUFFICES ASSUME NEW i \in 1..Len(new), NEW j \in 1..Len(new), new[i].path = new[j].path
                 PROVE  i = j
    BY <1>2 DEF OnePerPath
  <2>2. old(i) = old(j)
    <3>1. old(i) \in 1..Len(items) /\ old(j) \in 1..Len(items)
      BY <1>21
    <3>2. items[old(i)].path = items[old(j)].path
      BY <1>2, <2>1
    <3> QED
      BY <1>1, <3>1, <3>2 DEF OnePerPath
  <2> QED
    BY <1>22, <2>2
<1>4. ASSUME NEW item \in Range(new)
      PROVE  item \in Range(items) /\ item.path # items[k].path
  <2>1. PICK i \in 1..Len(new) : item = new[i]
    BY <1>2, Elements
  <2>2. old(i) \in 1..Len(items) /\ old(i) # k /\ item = items[old(i)]
    BY <1>2, <1>21, <2>1
  <2>3. item \in Range(items)
    BY <1>1, <2>2, Elements
  <2> QED
    BY <1>1, <2>2, <2>3 DEF OnePerPath
<1>5. Len(new) <= MaxFiles
  BY <1>1, <1>2, CacheAssumption
<1> QED
  BY <1>2, <1>3, <1>4, <1>5 DEF Cache, new

\* No entry of the path is left.
LEMMA Forgets ==
    ASSUME NEW items, Cache(items), NEW p
    PROVE  /\ Cache(proto_forget_cached_crc(items, p))
           /\ \A item \in Range(proto_forget_cached_crc(items, p)) :
                item \in Range(items) /\ item.path # p
<1>1. items \in Seq(Item)
  BY DEF Cache
<1>2. CASE At(items, p) = {}
  BY <1>1, <1>2 DEF proto_forget_cached_crc, At, Range
<1>3. CASE At(items, p) # {}
  BY <1>1, <1>3, FindFirst, DroppedCache DEF proto_forget_cached_crc
<1> QED
  BY <1>2, <1>3

\* The new entry is the only one of its path; the others were there.
LEMMA Remembers ==
    ASSUME NEW items, Cache(items), NEW p \in Path, NEW file \in File,
           tick \in 0..Wrap - 1
    PROVE  /\ Cache(proto_remember_cached_crc(items, p, file))
           /\ \A item \in Range(proto_remember_cached_crc(items, p, file)) :
                \/ item = Entry(p, file)
                \/ item \in Range(items) /\ item.path # p
<1> DEFINE e == Entry(p, file)
           new == proto_remember_cached_crc(items, p, file)
<1>1. items \in Seq(Item) /\ Len(items) <= MaxFiles /\ OnePerPath(items)
  BY DEF Cache
<1>2. e \in Item /\ e.path = p
  BY DEF Entry, Item, File
<1>3. CASE At(items, p) # {}
  <2> DEFINE k == Find(items, p)
  <2>1. k \in 1..Len(items) /\ items[k].path = p
    BY <1>1, <1>3, FindFirst
  <2>2. new = [items EXCEPT ![k] = e]
    BY <1>3 DEF proto_remember_cached_crc
  <2> HIDE DEF k, new, e
  <2>3. /\ new \in Seq(Item) /\ Len(new) = Len(items)
        /\ \A i \in 1..Len(items) : new[i] = IF i = k THEN e ELSE items[i]
    BY <1>1, <1>2, <2>1, <2>2
  <2>4. \A i \in 1..Len(items) : items[i].path = p => i = k
    BY <1>1, <2>1 DEF OnePerPath
  <2>5. OnePerPath(new)
    <3>1. \A i \in 1..Len(items) : new[i].path = items[i].path
      BY <1>2, <2>1, <2>3
    <3> QED
      BY <1>1, <2>3, <3>1 DEF OnePerPath
  <2>6. ASSUME NEW item \in Range(new)
        PROVE  item = e \/ (item \in Range(items) /\ item.path # p)
    <3>1. PICK i \in 1..Len(items) : item = new[i]
      BY <2>3, Elements
    <3>2. items[i] \in Range(items)
      BY <1>1, <3>1, Elements
    <3> QED
      BY <2>3, <2>4, <3>1, <3>2
  <2> QED
    BY <1>1, <2>3, <2>5, <2>6 DEF Cache, new, e
<1>4. CASE At(items, p) = {}
  <2>1. PICK rest : /\ new = Append(rest, e)
                    /\ Cache(rest) /\ Len(rest) < MaxFiles
                    /\ \A item \in Range(rest) : item \in Range(items)
    <3>1. CASE Len(items) >= MaxFiles
      <4>1. 1 \in 1..Len(items)
        BY <1>1, <3>1, CacheAssumption
      <4>2. Len(Drop(items, 1)) = Len(items) - 1
        BY <1>1, <4>1, Dropped
      <4>3. Len(Drop(items, 1)) < MaxFiles
        BY <1>1, <4>2, CacheAssumption
      <4>4. new = Append(Drop(items, 1), e)
        BY <1>4, <3>1 DEF proto_remember_cached_crc
      <4> HIDE DEF new, e
      <4> QED
        BY <4>1, <4>3, <4>4, DroppedCache
    <3>2. CASE ~ (Len(items) >= MaxFiles)
      <4>1. new = Append(items, e)
        BY <1>4, <3>2 DEF proto_remember_cached_crc
      <4>2. Len(items) < MaxFiles
        BY <1>1, <3>2, CacheAssumption
      <4> QED
        BY <4>1, <4>2
    <3> QED
      BY <3>1, <3>2
  <2> HIDE DEF new, e
  <2>2. \A item \in Range(items) : item.path # p
    BY <1>1, <1>4 DEF At, Range
  <2>3. rest \in Seq(Item) /\ OnePerPath(rest)
    BY <2>1 DEF Cache
  <2>4. /\ new \in Seq(Item) /\ Len(new) = Len(rest) + 1
        /\ \A i \in 1..Len(new) : new[i] = IF i = Len(rest) + 1 THEN e ELSE rest[i]
    BY <1>2, <2>1, <2>3
  <2>5. ASSUME NEW i \in 1..Len(rest) PROVE rest[i].path # p /\ rest[i] \in Range(items)
    <3>1. rest[i] \in Range(rest)
      BY <2>3, Elements
    <3> QED
      BY <2>1, <2>2, <3>1
  <2>6. OnePerPath(new)
    BY <1>2, <2>3, <2>4, <2>5 DEF OnePerPath
  <2>7. ASSUME NEW item \in Range(new)
        PROVE  item = e \/ (item \in Range(items) /\ item.path # p)
    <3>1. PICK i \in 1..Len(new) : item = new[i]
      BY <2>4, Elements
    <3>2. i \in 1..Len(rest) \/ i = Len(rest) + 1
      BY <2>3, <2>4
    <3> QED
      BY <2>3, <2>4, <2>5, <3>1, <3>2
  <2>8. Len(new) <= MaxFiles
    BY <2>1, <2>3, <2>4, CacheAssumption
  <2> QED
    BY <2>4, <2>6, <2>7, <2>8 DEF Cache, new, e
<1> QED
  BY <1>3, <1>4

-----------------------------------------------------------------------------
(* The inductive invariants.                                               *)

Types ==
    /\ disk \in [Path -> File \union {None}]
    /\ listed \in [Path -> Data \union {None}]
    /\ crc_disabled \in BOOLEAN /\ recheck \in BOOLEAN
    /\ tick \in 0..Wrap - 1 /\ gap \in 0..MaxGap
    /\ stamps \in Nat /\ hidden \in Nat /\ quiet \in Nat /\ misses \in Nat
    /\ since \in [Path -> 0..Never]
    /\ \A p \in Files : disk[p].stamp <= stamps

Age(item) == (tick + Wrap - item.checked_tick) % Wrap

\* The entry is found for the file that is there.
Current(item) == item.path \in Files /\ item.stamp = disk[item.path].stamp

Good(item) == Current(item) /\ ~Expired(item)

\* A checksum that is out of date was computed before the edit that made it so.
\* Such an edit leaves the time stamp, so that only entries that are found
\* matter, and every scan that lists all files renews those that have expired:
\* their true age stays below the width of the counter.
Sound(item) ==
    /\ item.stamp <= stamps
    /\ Current(item) /\ recheck => Age(item) < Recheck + gap
    /\ Current(item) /\ item.crc32 # disk[item.path].data =>
         IF recheck THEN since[item.path] <= Age(item) ELSE since[item.path] <= Recheck

Honest ==
    /\ Types
    /\ Cache(cache_items)
    /\ \A item \in Range(cache_items) : Sound(item)
    /\ ScansTell

Settled(items) == \A p \in Files : Hit(items, p)

\* The last m entries are found.
Fresh(items, m) == \A i \in DOMAIN items : i > Len(items) - m => Good(items[i])

\* While nothing changes, every scan either reads nothing or puts another
\* entry behind those that the scans before it have put there.
Warming ==
    quiet > 0 =>
      /\ ~crc_disabled
      /\ IsFiniteSet(Files) /\ Cardinality(Files) <= MaxFiles
      /\ \A item \in Range(cache_items) : item.path \in Files => Good(item)
      /\ \/ Settled(cache_items) /\ (quiet > 1 => misses = 0)
         \/ \E m \in quiet..Len(cache_items) : Fresh(cache_items, m)

-----------------------------------------------------------------------------
(* The tick counter.                                                       *)

LEMMA Modulo ==
    ASSUME NEW w \in Nat \ {0}, NEW a \in 0..2 * w - 1
    PROVE  a % w = IF a < w THEN a ELSE a - w
OBVIOUS

\* Age is the number of ticks since, as long as that is less than Wrap.
LEMMA AgeIs ==
    ASSUME Types, NEW item \in Item
    PROVE  /\ Age(item) \in 0..Wrap - 1
           /\ Age(item) = IF tick < item.checked_tick
                            THEN tick + Wrap - item.checked_tick
                            ELSE tick - item.checked_tick
<1> DEFINE a == tick + Wrap - item.checked_tick
<1>1. /\ Wrap \in Nat \ {0} /\ tick \in 0..Wrap - 1
      /\ item.checked_tick \in 0..Wrap - 1
  BY CacheAssumption DEF Types, Item
<1>2. a \in 0..2 * Wrap - 1
  BY <1>1
<1>3. a % Wrap = IF a < Wrap THEN a ELSE a - Wrap
  <2> HIDE DEF a
  <2> QED
    BY <1>1, <1>2, Modulo
<1> QED
  BY <1>1, <1>2, <1>3 DEF Age

\* A tick makes every entry a tick older, unless it is as old as can be told.
LEMMA AgeStep ==
    ASSUME Types, tick' = (tick + 1) % Wrap, NEW item \in Item, Age(item) < Wrap - 1
    PROVE  tick' \in 0..Wrap - 1 /\ Age(item)' = Age(item) + 1
<1>1. Wrap \in Nat \ {0} /\ tick \in 0..Wrap - 1 /\ item.checked_tick \in 0..Wrap - 1
  BY CacheAssumption DEF Types, Item
<1>2. tick + 1 \in 0..2 * Wrap - 1
  BY <1>1
<1>3. tick' = IF tick + 1 < Wrap THEN tick + 1 ELSE 0
  <2> DEFINE b == tick + 1
  <2>1. b % Wrap = IF b < Wrap THEN b ELSE b - Wrap
    <3>1. b \in 0..2 * Wrap - 1
      BY <1>2
    <3> HIDE DEF b
    <3> QED
      BY <1>1, <3>1, Modulo
  <2> QED
    BY <1>1, <2>1
<1>4. tick' \in 0..Wrap - 1
  BY <1>1, <1>3
<1> DEFINE a == tick' + Wrap - item.checked_tick
<1>5. a \in 0..2 * Wrap - 1
  BY <1>1, <1>4
<1>6. a % Wrap = IF a < Wrap THEN a ELSE a - Wrap
  <2> HIDE DEF a
  <2> QED
    BY <1>1, <1>5, Modulo
<1>7. Age(item)' = a % Wrap
  BY DEF Age
<1> HIDE DEF a
<1>8. Age(item)' = IF a < Wrap THEN a ELSE a - Wrap
  BY <1>6, <1>7
<1> QED
  BY <1>1, <1>3, <1>4, <1>8, AgeIs DEF a

\* What is found and has not expired is young.
LEMMA GoodIsYoung ==
    ASSUME Types, NEW item \in Item, Good(item), recheck
    PROVE  Age(item) < Recheck
<1>1. ~ (Age(item) >= Recheck)
  BY DEF Good, Expired, Age
<1>2. Age(item) \in Nat /\ Recheck \in Nat
  BY AgeIs, CacheAssumption
<1> QED
  BY <1>1, <1>2

LEMMA EntryIsGood ==
    ASSUME Types, NEW p \in Files
    PROVE  /\ Entry(p, disk[p]) \in Item /\ Entry(p, disk[p]).path = p
           /\ Age(Entry(p, disk[p])) = 0
           /\ Good(Entry(p, disk[p])) /\ Sound(Entry(p, disk[p]))
<1> DEFINE e == Entry(p, disk[p])
<1>1. p \in Path /\ disk[p] \in File /\ disk[p].stamp <= stamps
  BY DEF Files, Types
<1>2. /\ e \in Item /\ e.path = p /\ e.stamp = disk[p].stamp /\ e.crc32 = disk[p].data
      /\ e.checked_tick = tick
  BY <1>1 DEF Entry, Item, File, Types
<1> HIDE DEF e
<1>3. Age(e) = 0
  <2>1. tick \in Nat
    BY DEF Types
  <2> QED
    BY <1>2, <2>1, AgeIs
<1>4. Recheck \in Nat \ {0} /\ gap \in Nat
  BY CacheAssumption DEF Types
<1>5. Good(e)
  BY <1>2, <1>3, <1>4 DEF Good, Current, Expired, Age
<1>6. Sound(e)
  BY <1>1, <1>2, <1>3, <1>4 DEF Sound
<1> QED
  BY <1>2, <1>3, <1>5, <1>6 DEF e

\* With one entry per path, a file is hit exactly if its entry is good.
LEMMA HitIsGood ==
    ASSUME NEW items, Cache(items), NEW p \in Files, Hit(items, p)
    PROVE  /\ items[Find(items, p)] \in Range(items)
           /\ items[Find(items, p)].path = p
           /\ Good(items[Find(items, p)])
           /\ \A item \in Range(items) : item.path = p => Good(item)
<1>1. items \in Seq(Item) /\ OnePerPath(items) /\ At(items, p) # {}
  BY DEF Cache, Hit
<1>2. Find(items, p) \in 1..Len(items) /\ items[Find(items, p)].path = p
  BY <1>1, FindFirst
<1>3. Good(items[Find(items, p)])
  BY <1>2 DEF Hit, Good, Current
<1>4. ASSUME NEW item \in Range(items), item.path = p
      PROVE  Good(item)
  <2>1. PICK i \in 1..Len(items) : item = items[i]
    BY <1>1, Elements
  <2>2. i = Find(items, p)
    BY <1>1, <1>2, <1>4, <2>1 DEF OnePerPath
  <2> QED
    BY <1>3, <2>1, <2>2
<1>5. items[Find(items, p)] \in Range(items)
  BY <1>1, <1>2, Elements
<1> QED
  BY <1>2, <1>3, <1>4, <1>5

LEMMA GoodIsHit ==
    ASSUME NEW items, Cache(items), NEW p \in Files,
           NEW item \in Range(items), item.path = p, Good(item)
    PROVE  Hit(items, p)
<1>1. items \in Seq(Item) /\ OnePerPath(items)
  BY DEF Cache
<1>2. PICK i \in 1..Len(items) : item = items[i]
  BY <1>1, Elements
<1>3. At(items, p) # {}
  BY <1>1, <1>2 DEF At
<1>4. Find(items, p) \in 1..Len(items) /\ items[Find(items, p)].path = p
  BY <1>1, <1>3, FindFirst
<1>5. items[Find(items, p)] = item
  BY <1>1, <1>2, <1>4 DEF OnePerPath
<1> QED
  BY <1>3, <1>5 DEF Hit, Good, Current

-----------------------------------------------------------------------------
(* A scan, name by name.                                                   *)

Acc == [items : {c \in Seq(Item) : Cache(c)}, listed : [Path -> Data \union {None}],
        count : Nat, read : Nat, failed : BOOLEAN]

Start == [items |-> cache_items, listed |-> [p \in Path |-> None],
          count |-> 0, read |-> 0, failed |-> FALSE]

Visited(n) == {Directory[j] : j \in 1..n} \intersect Files

\* The three ways in which a file is listed, and the failure.
LEMMA AddCases ==
    ASSUME Types, NEW s \in Acc, NEW p \in Files, NEW t, t = proto_add_file_item(s, p)
    PROVE  /\ t \in Acc
           /\ t.failed <=> s.failed \/ s.count >= MaxFiles
           /\ t.failed => t.items = s.items /\ t.listed = s.listed
           /\ ~t.failed => t.count = s.count + 1
           /\ ~t.failed /\ crc_disabled =>
                /\ t.items = proto_forget_cached_crc(s.items, p)
                /\ t.listed = s.listed /\ t.read = s.read
           /\ ~t.failed /\ ~crc_disabled /\ Hit(s.items, p) =>
                /\ t.items = s.items /\ t.read = s.read
                /\ \A q \in Path : t.listed[q] = IF q = p THEN s.items[Find(s.items, p)].crc32
                                                  ELSE s.listed[q]
           /\ ~t.failed /\ ~crc_disabled /\ ~Hit(s.items, p) =>
                /\ t.items = proto_remember_cached_crc(s.items, p, disk[p])
                /\ t.read = s.read + 1
                /\ \A q \in Path : t.listed[q] = IF q = p THEN disk[p].data ELSE s.listed[q]
<1>1. p \in Path /\ disk[p] \in File /\ tick \in 0..Wrap - 1 /\ disk[p].data \in Data
  BY DEF Files, Types, File
<1>2. /\ Cache(s.items) /\ s.items \in Seq(Item) /\ s.listed \in [Path -> Data \union {None}]
      /\ s.count \in Nat /\ s.read \in Nat /\ s.failed \in BOOLEAN
      /\ s = [items |-> s.items, listed |-> s.listed, count |-> s.count, read |-> s.read,
              failed |-> s.failed]
  BY DEF Acc
<1>3. CASE s.failed \/ s.count >= MaxFiles
  <2>1. t = [s EXCEPT !.failed = TRUE]
    BY <1>3 DEF proto_add_file_item
  <2>2. t \in Acc /\ t.items = s.items /\ t.listed = s.listed /\ t.failed = TRUE
    BY <2>1 DEF Acc
  <2>3. t.failed
    BY <2>2, Zenon
  <2> QED
    BY <1>3, <2>2, <2>3
<1>4. CASE ~ (s.failed \/ s.count >= MaxFiles)
  <2>0. s.failed = FALSE
    BY <1>2, <1>4, Zenon
  <2>1. CASE crc_disabled
    <3> DEFINE new == proto_forget_cached_crc(s.items, p)
    <3>1. t = [s EXCEPT !.items = new, !.count = @ + 1]
      BY <1>4, <2>1 DEF proto_add_file_item
    <3>2. Cache(new) /\ new \in Seq(Item)
      BY <1>2, Forgets DEF Cache
    <3> HIDE DEF new
    <3>3. /\ t.items = new /\ t.listed = s.listed /\ t.read = s.read
          /\ t.count = s.count + 1 /\ t.failed = FALSE
      BY <1>2, <2>0, <3>1
    <3>4. ~t.failed
      BY <3>3, Zenon
    <3>5. t \in Acc
      <4>1. t = [items |-> new, listed |-> s.listed, count |-> s.count + 1,
                            read |-> s.read, failed |-> s.failed]
        BY <1>2, <3>1
      <4>2. new \in {c \in Seq(Item) : Cache(c)}
        BY <1>1, <1>2, <3>2
      <4> QED
        BY <1>2, <4>1, <4>2 DEF Acc
    <3> QED
      BY <1>4, <2>1, <3>3, <3>4, <3>5 DEF new
  <2>2. CASE ~crc_disabled /\ Hit(s.items, p)
    <3> DEFINE crc == s.items[Find(s.items, p)].crc32
    <3>1. t = [s EXCEPT !.listed = [s.listed EXCEPT ![p] = crc], !.count = @ + 1]
      BY <1>4, <2>2 DEF proto_add_file_item
    <3>2. crc \in Data
      <4>1. Find(s.items, p) \in 1..Len(s.items)
        BY <1>2, <2>2, FindFirst DEF Hit
      <4>2. s.items[Find(s.items, p)] \in Item
        BY <1>2, <4>1
      <4> QED
        BY <4>2 DEF Item
    <3> HIDE DEF crc
    <3>3. /\ t.items = s.items /\ t.listed = [s.listed EXCEPT ![p] = crc]
          /\ t.read = s.read /\ t.count = s.count + 1 /\ t.failed = FALSE
      BY <1>2, <2>0, <3>1
    <3>4. ~t.failed
      BY <3>3, Zenon
    <3>5. t \in Acc
      <4>1. t = [items |-> s.items, listed |-> [s.listed EXCEPT ![p] = crc],
                            count |-> s.count + 1, read |-> s.read, failed |-> s.failed]
        BY <1>2, <3>1
      <4>2. [s.listed EXCEPT ![p] = crc] \in [Path -> Data \union {None}]
        BY <1>1, <1>2, <3>2
      <4> QED
        BY <1>2, <4>1, <4>2 DEF Acc
    <3> QED
      <4>1. \A q \in Path : t.listed[q] = IF q = p THEN crc ELSE s.listed[q]
        BY <1>2, <3>3
      <4> QED
        BY <1>4, <2>2, <3>3, <3>4, <3>5, <4>1 DEF crc
  <2>3. CASE ~crc_disabled /\ ~Hit(s.items, p)
    <3> DEFINE new == proto_remember_cached_crc(s.items, p, disk[p])
    <3>1. t = [s EXCEPT !.listed = [s.listed EXCEPT ![p] = disk[p].data], !.count = @ + 1,
                        !.read = @ + 1, !.items = new]
      BY <1>4, <2>3 DEF proto_add_file_item
    <3>2. Cache(new) /\ new \in Seq(Item)
      BY <1>1, <1>2, Remembers DEF Cache
    <3> HIDE DEF new
    <3>3. /\ t.items = new /\ t.listed = [s.listed EXCEPT ![p] = disk[p].data]
          /\ t.read = s.read + 1 /\ t.count = s.count + 1 /\ t.failed = FALSE
      BY <1>2, <2>0, <3>1
    <3>4. ~t.failed
      BY <3>3, Zenon
    <3>5. t \in Acc
      <4>1. t = [items |-> new, listed |-> [s.listed EXCEPT ![p] = disk[p].data],
                            count |-> s.count + 1, read |-> s.read + 1, failed |-> s.failed]
        BY <1>2, <3>1
      <4>2. /\ new \in {c \in Seq(Item) : Cache(c)}
            /\ [s.listed EXCEPT ![p] = disk[p].data] \in [Path -> Data \union {None}]
        BY <1>1, <1>2, <3>2
      <4> QED
        BY <1>2, <4>1, <4>2 DEF Acc
    <3> QED
      <4>1. \A q \in Path : t.listed[q] = IF q = p THEN disk[p].data ELSE s.listed[q]
        BY <1>2, <3>3
      <4> QED
        BY <1>4, <2>3, <3>3, <3>4, <3>5, <4>1 DEF new
  <2> QED
    BY <2>1, <2>2, <2>3
<1> QED
  BY <1>3, <1>4

AddName(n, s) == IF Directory[n] \in Files THEN proto_add_file_item(s, Directory[n]) ELSE s

LEMMA StartType ==
    ASSUME Types, Cache(cache_items)
    PROVE  Start \in Acc
<1>1. [p \in Path |-> None] \in [Path -> Data \union {None}]
  OBVIOUS
<1>2. cache_items \in {c \in Seq(Item) : Cache(c)}
  BY DEF Cache
<1> QED
  BY <1>1, <1>2 DEF Start, Acc

LEMMA ListingTrace ==
    ASSUME Types, Cache(cache_items)
    PROVE  /\ Len(Directory) \in Nat
           /\ Listing[0] = Start
           /\ \A n \in 0..Len(Directory) : Listing[n] \in Acc
           /\ \A n \in 1..Len(Directory) : Listing[n] = AddName(n, Listing[n - 1])
<1> DEFINE N == Len(Directory)
           step == [n \in 1..N |-> [s \in Acc |-> AddName(n, s)]]
           Is(f) == f = [n \in 0..N |-> IF n = 0 THEN Start ELSE AddName(n, f[n - 1])]
<1>1. N \in Nat
  BY CacheAssumption
<1>2. \A n \in 1..N, s \in Acc : AddName(n, s) \in Acc
  BY AddCases DEF AddName
<1>3. step \in [1..N -> [Acc -> Acc]]
  BY <1>2
<1>4. \A n \in 1..N, s \in Acc : step[n][s] = AddName(n, s)
  OBVIOUS
<1> HIDE DEF step, N
<1>5. PICK f \in [0..N -> Acc] :
        f[0] = Start /\ \A n \in 1..N : f[n] = step[n][f[n - 1]]
  <2>1. \E f \in [0..N -> Acc] : IsTrace(f, N, Start, step)
    BY <1>1, <1>3, StartType, Iterates
  <2> QED
    BY <2>1 DEF IsTrace
<1>6. ASSUME NEW n \in 1..N PROVE f[n] = AddName(n, f[n - 1])
  <2>1. n - 1 \in 0..N
    BY <1>1
  <2>2. f[n - 1] \in Acc
    BY <2>1
  <2> QED
    BY <1>4, <1>5, <2>2
<1>7. Is(f)
  <2>1. \A n \in 0..N : f[n] = IF n = 0 THEN Start ELSE AddName(n, f[n - 1])
    BY <1>1, <1>5, <1>6
  <2> QED
    BY <2>1
<1>8. Listing = CHOOSE g : Is(g)
  BY DEF Listing, Start, AddName, N
<1> HIDE DEF Is
<1>9. Is(Listing)
  BY <1>7, <1>8
<1>10. Listing = [n \in 0..N |-> IF n = 0 THEN Start ELSE AddName(n, Listing[n - 1])]
  BY <1>9 DEF Is
<1>11. Listing[0] = Start /\ \A n \in 1..N : Listing[n] = AddName(n, Listing[n - 1])
  BY <1>1, <1>10
<1> DEFINE S == {n \in 0..N : Listing[n] \in Acc}
<1>12. 0 \in S
  BY <1>1, <1>11, StartType
<1>13. ASSUME NEW n \in 0..N, n \in S, n < N PROVE n + 1 \in S
  <2>1. n + 1 \in 1..N /\ (n + 1) - 1 = n
    BY <1>1, <1>13
  <2>2. Listing[n + 1] = AddName(n + 1, Listing[n])
    BY <1>11, <2>1
  <2> QED
    BY <1>2, <1>13, <2>1, <2>2
<1>14. 0..N \subseteq S
  <2> HIDE DEF S
  <2> QED
    BY <1>1, <1>12, <1>13, UpTo
<1> QED
  BY <1>1, <1>11, <1>14 DEF N

\* The next name: a file, or one that is not there.
LEMMA NextName ==
    ASSUME Types, Cache(cache_items), NEW n \in 0..Len(Directory), n < Len(Directory)
    PROVE  LET p == Directory[n + 1]
               s == Listing[n]
               t == Listing[n + 1]
           IN  /\ n + 1 \in 0..Len(Directory)
               /\ s \in Acc /\ t \in Acc
               /\ \/ p \in Files /\ t = proto_add_file_item(s, p)
                                 /\ Visited(n + 1) = Visited(n) \union {p}
                  \/ t = s /\ Visited(n + 1) = Visited(n)
<1>1. n + 1 \in 1..Len(Directory) /\ (n + 1) - 1 = n
  BY ListingTrace
<1>2. /\ Listing[n] \in Acc /\ Listing[n + 1] \in Acc
      /\ Listing[n + 1] = AddName(n + 1, Listing[n])
  BY <1>1, ListingTrace
<1>3. 1..n + 1 = (1..n) \union {n + 1}
  BY <1>1
<1>4. Visited(n + 1) = Visited(n) \union ({Directory[n + 1]} \intersect Files)
  BY <1>3 DEF Visited
<1>5. n + 1 \in 0..Len(Directory)
  BY <1>1
<1>6. CASE Directory[n + 1] \in Files
  <2>1. Visited(n + 1) = Visited(n) \union {Directory[n + 1]}
    BY <1>4, <1>6
  <2>2. Listing[n + 1] = proto_add_file_item(Listing[n], Directory[n + 1])
    BY <1>2, <1>6 DEF AddName
  <2> QED
    BY <1>2, <1>5, <1>6, <2>1, <2>2
<1>7. CASE Directory[n + 1] \notin Files
  <2>1. Visited(n + 1) = Visited(n)
    BY <1>4, <1>7
  <2>2. Listing[n + 1] = Listing[n]
    BY <1>2, <1>7 DEF AddName
  <2> QED
    BY <1>2, <1>5, <2>1, <2>2
<1> QED
  BY <1>6, <1>7

\* The files of the directory are all visited.
LEMMA AllVisited == Visited(Len(Directory)) = Files
<1>1. Directory \in Seq(Path) /\ Path = {Directory[i] : i \in DOMAIN Directory}
  BY CacheAssumption DEF Path, Range
<1>2. DOMAIN Directory = 1..Len(Directory)
  BY <1>1
<1> QED
  BY <1>1, <1>2 DEF Visited, Files

\* What has been listed so far is listed honestly, and what the cache holds of
\* it is found.
Told(n) ==
    LET s == Listing[n]
    IN  /\ \A item \in Range(s.items) : Sound(item)
        /\ \A p \in Files : s.listed[p] \notin {None, disk[p].data} =>
             IF recheck THEN since[p] < Recheck ELSE since[p] <= Recheck
        /\ ~s.failed => \A item \in Range(s.items) : item.path \in Visited(n) => Good(item)

LEMMA ToldStep ==
    ASSUME Honest, NEW n \in 0..Len(Directory), n < Len(Directory), Told(n)
    PROVE  Told(n + 1)
<1> DEFINE p == Directory[n + 1]
           s == Listing[n]
           t == Listing[n + 1]
<1>1. /\ Types /\ Cache(cache_items)
  BY DEF Honest
<1>2. /\ s \in Acc /\ t \in Acc
      /\ \/ p \in Files /\ t = proto_add_file_item(s, p) /\ Visited(n + 1) = Visited(n) \union {p}
         \/ t = s /\ Visited(n + 1) = Visited(n)
  BY <1>1, NextName
<1>3. /\ Cache(s.items) /\ s.items \in Seq(Item) /\ s.listed \in [Path -> Data \union {None}]
  BY <1>2 DEF Acc
<1>4. /\ \A item \in Range(s.items) : Sound(item)
      /\ \A q \in Files : s.listed[q] \notin {None, disk[q].data} =>
           IF recheck THEN since[q] < Recheck ELSE since[q] <= Recheck
      /\ ~s.failed => \A item \in Range(s.items) : item.path \in Visited(n) => Good(item)
  BY DEF Told
<1>5. CASE t = s /\ Visited(n + 1) = Visited(n)
  BY <1>4, <1>5 DEF Told
<1> DEFINE Add == p \in Files /\ t = proto_add_file_item(s, p)
                  /\ Visited(n + 1) = Visited(n) \union {p}
<1>6. CASE Add /\ t.failed
  <2> HIDE DEF s, t, p
  <2>1. t.items = s.items /\ t.listed = s.listed
    BY <1>1, <1>2, <1>6, AddCases
  <2> QED
    BY <1>4, <1>6, <2>1 DEF Told, s, t
<1>7. CASE Add /\ ~t.failed /\ crc_disabled
  <2> HIDE DEF s, t, p
  <2>1. t.items = proto_forget_cached_crc(s.items, p) /\ t.listed = s.listed /\ ~s.failed
    BY <1>1, <1>2, <1>7, AddCases
  <2>2. \A item \in Range(t.items) : item \in Range(s.items) /\ item.path # p
    BY <1>3, <2>1, Forgets
  <2> QED
    BY <1>4, <1>7, <2>1, <2>2 DEF Told, s, t
<1>8. CASE Add /\ ~t.failed /\ ~crc_disabled /\ Hit(s.items, p)
  <2> HIDE DEF s, t, p
  <2> DEFINE item == s.items[Find(s.items, p)]
  <2>1. /\ t.items = s.items /\ ~s.failed
        /\ \A q \in Path : t.listed[q] = IF q = p THEN item.crc32 ELSE s.listed[q]
    <3>1. s \in Acc /\ p \in Files /\ t = proto_add_file_item(s, p)
      BY <1>2, <1>8
    <3>2. ~t.failed /\ ~crc_disabled /\ Hit(s.items, p)
      BY <1>8
    <3> QED
      BY <1>1, <3>1, <3>2, AddCases
  <2>2. /\ item \in Range(s.items) /\ item.path = p /\ Good(item)
        /\ \A other \in Range(s.items) : other.path = p => Good(other)
    BY <1>3, <1>8, HitIsGood
  <2>3. item \in Item
    BY <1>3, <2>2, Elements
  <2> HIDE DEF item
  <2>4. Current(item) /\ Sound(item)
    BY <1>4, <2>2 DEF Good
  <2>5. item.crc32 # disk[p].data => IF recheck THEN since[p] < Recheck ELSE since[p] <= Recheck
    <3>1. SUFFICES ASSUME item.crc32 # disk[p].data, recheck PROVE since[p] < Recheck
      BY <2>2, <2>4 DEF Sound
    <3>2. since[p] <= Age(item)
      BY <2>2, <2>4, <3>1 DEF Sound
    <3>3. Age(item) < Recheck
      BY <1>1, <2>2, <2>3, <3>1, GoodIsYoung
    <3>4. since[p] \in Nat /\ Age(item) \in Nat /\ Recheck \in Nat
      BY <1>1, <1>8, <2>3, AgeIs, CacheAssumption DEF Types, Files
    <3> QED
      BY <3>2, <3>3, <3>4
  <2>6. \A q \in Files : t.listed[q] = IF q = p THEN item.crc32 ELSE s.listed[q]
    BY <1>3, <2>1 DEF Files
  <2>7. \A other \in Range(t.items) : other.path \in Visited(n + 1) => Good(other)
    BY <1>4, <1>8, <2>1, <2>2
  <2>8. \A q \in Files : t.listed[q] \notin {None, disk[q].data} =>
          IF recheck THEN since[q] < Recheck ELSE since[q] <= Recheck
    BY <1>4, <2>5, <2>6
  <2> QED
    BY <1>4, <2>1, <2>7, <2>8 DEF Told, s, t
<1>9. CASE Add /\ ~t.failed /\ ~crc_disabled /\ ~Hit(s.items, p)
  <2> HIDE DEF s, t, p
  <2> DEFINE e == Entry(p, disk[p])
  <2>1. /\ t.items = proto_remember_cached_crc(s.items, p, disk[p])
        /\ \A q \in Path : t.listed[q] = IF q = p THEN disk[p].data ELSE s.listed[q]
        /\ ~s.failed
    <3>1. s \in Acc /\ p \in Files /\ t = proto_add_file_item(s, p)
      BY <1>2, <1>9
    <3>2. ~t.failed /\ ~crc_disabled /\ ~Hit(s.items, p)
      BY <1>9
    <3> QED
      BY <1>1, <3>1, <3>2, AddCases
  <2>2. p \in Path /\ disk[p] \in File /\ tick \in 0..Wrap - 1
    BY <1>1, <1>9 DEF Types, Files
  <2>3. \A item \in Range(t.items) : item = e \/ (item \in Range(s.items) /\ item.path # p)
    BY <1>3, <2>1, <2>2, Remembers
  <2>4. e.path = p /\ Good(e) /\ Sound(e)
    BY <1>1, <1>9, EntryIsGood
  <2> HIDE DEF e
  <2>5. \A q \in Files : t.listed[q] = IF q = p THEN disk[p].data ELSE s.listed[q]
    BY <1>3, <2>1 DEF Files
  <2>6. \A item \in Range(t.items) : item.path \in Visited(n + 1) => Good(item)
    BY <1>4, <1>9, <2>1, <2>3, <2>4
  <2>7. \A item \in Range(t.items) : Sound(item)
    BY <1>4, <2>3, <2>4
  <2>8. \A q \in Files : t.listed[q] \notin {None, disk[q].data} =>
          IF recheck THEN since[q] < Recheck ELSE since[q] <= Recheck
    BY <1>4, <2>5
  <2> QED
    BY <2>6, <2>7, <2>8 DEF Told, s, t
<1> QED
  BY <1>2, <1>5, <1>6, <1>7, <1>8, <1>9

LEMMA ToldAll == ASSUME Honest PROVE Told(Len(Directory))
<1> DEFINE S == {n \in 0..Len(Directory) : Told(n)}
<1>1. Types /\ Cache(cache_items) /\ \A item \in Range(cache_items) : Sound(item)
  BY DEF Honest
<1>2. Len(Directory) \in Nat /\ Listing[0] = Start
  BY <1>1, ListingTrace
<1>3. Told(0)
  <2>1. Visited(0) = {}
    BY DEF Visited
  <2>2. \A p \in Files : Start.listed[p] = None
    BY DEF Start, Files
  <2>3. Start.items = cache_items
    BY DEF Start
  <2> QED
    BY <1>1, <1>2, <2>1, <2>2, <2>3 DEF Told
<1>4. 0 \in S
  BY <1>2, <1>3
<1>5. ASSUME NEW n \in 0..Len(Directory), n \in S, n < Len(Directory)
      PROVE  n + 1 \in S
  <2>1. n + 1 \in 0..Len(Directory)
    BY <1>2, <1>5
  <2> QED
    BY <1>5, <2>1, ToldStep
<1>6. 0..Len(Directory) \subseteq S
  <2> HIDE DEF S
  <2> QED
    BY <1>2, <1>4, <1>5, UpTo
<1> QED
  BY <1>2, <1>6

-----------------------------------------------------------------------------
(* Scans of an unchanged tree.                                             *)

\* A scan that does not fail has found MaxFiles files at most.
Counted(n) ==
    LET s == Listing[n]
    IN  ~s.failed => /\ IsFiniteSet(Visited(n))
                     /\ Cardinality(Visited(n)) <= s.count /\ s.count <= MaxFiles

LEMMA CountedStep ==
    ASSUME Types, Cache(cache_items),
           NEW n \in 0..Len(Directory), n < Len(Directory), Counted(n)
    PROVE  Counted(n + 1)
<1> DEFINE p == Directory[n + 1]
           s == Listing[n]
           t == Listing[n + 1]
<1>1. /\ s \in Acc /\ t \in Acc
      /\ \/ p \in Files /\ t = proto_add_file_item(s, p) /\ Visited(n + 1) = Visited(n) \union {p}
         \/ t = s /\ Visited(n + 1) = Visited(n)
  BY NextName
<1>2. ~s.failed => /\ IsFiniteSet(Visited(n))
                   /\ Cardinality(Visited(n)) <= s.count /\ s.count <= MaxFiles
  BY DEF Counted
<1> SUFFICES ASSUME ~t.failed
             PROVE  /\ IsFiniteSet(Visited(n + 1))
                    /\ Cardinality(Visited(n + 1)) <= t.count /\ t.count <= MaxFiles
  BY DEF Counted
<1> HIDE DEF s, t, p
<1>3. CASE t = s /\ Visited(n + 1) = Visited(n)
  BY <1>2, <1>3
<1>4. CASE p \in Files /\ t = proto_add_file_item(s, p) /\ Visited(n + 1) = Visited(n) \union {p}
  <2>1. t.count = s.count + 1 /\ ~ (s.failed \/ s.count >= MaxFiles)
    BY <1>1, <1>4, AddCases
  <2>2. /\ IsFiniteSet(Visited(n)) /\ Cardinality(Visited(n)) \in Nat
        /\ Cardinality(Visited(n)) <= s.count
    BY <1>2, <2>1, FS_CardinalityType
  <2>3. /\ IsFiniteSet(Visited(n + 1))
        /\ Cardinality(Visited(n + 1)) <= Cardinality(Visited(n)) + 1
        /\ Cardinality(Visited(n + 1)) \in Nat
    <3> DEFINE V == Visited(n)
    <3>1. IsFiniteSet(V \union {p}) /\ Cardinality(V \union {p}) =
            IF p \in V THEN Cardinality(V) ELSE Cardinality(V) + 1
      <4> HIDE DEF V
      <4> QED
        BY <2>2, FS_AddElement DEF V
    <3>2. Visited(n + 1) = V \union {p}
      BY <1>4
    <3>3. Cardinality(V) \in Nat
      BY <2>2
    <3> HIDE DEF V
    <3>4. /\ IsFiniteSet(Visited(n + 1))
          /\ Cardinality(Visited(n + 1)) = IF p \in V THEN Cardinality(V) ELSE Cardinality(V) + 1
      BY <3>1, <3>2, Zenon
    <3> QED
      BY <3>3, <3>4 DEF V
  <2>4. s.count \in Nat /\ MaxFiles \in Nat
    BY <1>1, CacheAssumption DEF Acc
  <2> QED
    BY <2>1, <2>2, <2>3, <2>4
<1> QED
  BY <1>1, <1>3, <1>4

LEMMA FewFiles ==
    ASSUME Types, Cache(cache_items), ~Listing[Len(Directory)].failed
    PROVE  IsFiniteSet(Files) /\ Cardinality(Files) <= MaxFiles
<1> DEFINE S == {n \in 0..Len(Directory) : Counted(n)}
<1>1. Len(Directory) \in Nat /\ Listing[0] = Start
  BY ListingTrace
<1>2. Counted(0)
  <2>1. Visited(0) = {}
    BY DEF Visited
  <2>2. Start.count = 0
    BY DEF Start
  <2> QED
    <3>1. Cardinality({}) = 0 /\ IsFiniteSet({}) /\ MaxFiles \in Nat
      BY FS_EmptySet, CacheAssumption
    <3>2. Cardinality({}) <= 0 /\ 0 <= MaxFiles
      BY <3>1
    <3> QED
      BY <1>1, <2>1, <2>2, <3>1, <3>2 DEF Counted
<1>3. 0 \in S
  BY <1>1, <1>2
<1>4. ASSUME NEW n \in 0..Len(Directory), n \in S, n < Len(Directory)
      PROVE  n + 1 \in S
  <2>1. n + 1 \in 0..Len(Directory)
    BY <1>1, <1>4
  <2> QED
    BY <1>4, <2>1, CountedStep
<1>5. 0..Len(Directory) \subseteq S
  <2> HIDE DEF S
  <2> QED
    BY <1>1, <1>3, <1>4, UpTo
<1>6. Counted(Len(Directory))
  BY <1>1, <1>5
<1>7. /\ IsFiniteSet(Files) /\ Cardinality(Files) <= Listing[Len(Directory)].count
      /\ Listing[Len(Directory)].count <= MaxFiles
  BY <1>6, AllVisited DEF Counted
<1>8. /\ Listing[Len(Directory)].count \in Nat /\ Cardinality(Files) \in Nat
  BY <1>1, <1>7, ListingTrace, FS_CardinalityType DEF Acc
<1> QED
  BY <1>7, <1>8, CacheAssumption

\* With every file in the cache a scan reads nothing and changes nothing.
Still(n) ==
    LET s == Listing[n]
    IN  s.failed \/ (s.items = cache_items /\ s.read = 0)

LEMMA StillStep ==
    ASSUME Types, Cache(cache_items), Settled(cache_items), ~crc_disabled,
           NEW n \in 0..Len(Directory), n < Len(Directory), Still(n)
    PROVE  Still(n + 1)
<1> DEFINE p == Directory[n + 1]
           s == Listing[n]
           t == Listing[n + 1]
<1>1. /\ s \in Acc /\ t \in Acc
      /\ \/ p \in Files /\ t = proto_add_file_item(s, p)
         \/ t = s
  BY NextName
<1>2. s.failed \/ (s.items = cache_items /\ s.read = 0)
  BY DEF Still
<1> SUFFICES ASSUME ~t.failed PROVE t.items = cache_items /\ t.read = 0
  BY DEF Still
<1> HIDE DEF s, t, p
<1>3. CASE t = s
  BY <1>2, <1>3
<1>4. CASE p \in Files /\ t = proto_add_file_item(s, p)
  <2>1. ~s.failed
    BY <1>1, <1>4, AddCases
  <2>2. Hit(s.items, p)
    BY <1>2, <1>4, <2>1 DEF Settled
  <2>3. t.items = s.items /\ t.read = s.read
    BY <1>1, <1>4, <2>2, AddCases
  <2> QED
    BY <1>2, <2>1, <2>3
<1> QED
  BY <1>1, <1>3, <1>4

LEMMA StillAll ==
    ASSUME Types, Cache(cache_items), Settled(cache_items), ~crc_disabled
    PROVE  Still(Len(Directory))
<1> DEFINE S == {n \in 0..Len(Directory) : Still(n)}
<1>1. Len(Directory) \in Nat /\ Listing[0] = Start
  BY ListingTrace
<1>2. Still(0)
  <2>1. Start.items = cache_items /\ Start.read = 0
    BY DEF Start
  <2> QED
    BY <1>1, <2>1 DEF Still
<1>3. 0 \in S
  BY <1>1, <1>2
<1>4. ASSUME NEW n \in 0..Len(Directory), n \in S, n < Len(Directory)
      PROVE  n + 1 \in S
  <2>1. n + 1 \in 0..Len(Directory)
    BY <1>1, <1>4
  <2> QED
    BY <1>4, <2>1, StillStep
<1>5. 0..Len(Directory) \subseteq S
  <2> HIDE DEF S
  <2> QED
    BY <1>1, <1>3, <1>4, UpTo
<1> QED
  BY <1>1, <1>5

LEMMA Replaces ==
    ASSUME NEW items, Cache(items), NEW p, At(items, p) # {}, NEW file,
           Entry(p, file) \in Item, NEW new, new = proto_remember_cached_crc(items, p, file)
    PROVE  /\ new \in Seq(Item) /\ Len(new) = Len(items)
           /\ \A i \in 1..Len(items) :
                new[i] = IF items[i].path = p THEN Entry(p, file) ELSE items[i]
<1>1. items \in Seq(Item) /\ OnePerPath(items)
  BY DEF Cache
<1>2. new = [items EXCEPT ![Find(items, p)] = Entry(p, file)]
  BY DEF proto_remember_cached_crc
<1>3. Find(items, p) \in 1..Len(items) /\ items[Find(items, p)].path = p
  BY <1>1, FindFirst
<1>4. \A i \in 1..Len(items) : items[i].path = p <=> i = Find(items, p)
  BY <1>1, <1>3 DEF OnePerPath
<1> QED
  BY <1>1, <1>2, <1>3, <1>4

\* An entry at the end, the first one gone if there was no room.
Appended(items, new, e) ==
    /\ new \in Seq(Item) /\ Len(new) >= 1 /\ new[Len(new)] = e
    /\ \/ /\ Len(items) < MaxFiles /\ Len(new) = Len(items) + 1
          /\ \A i \in 1..Len(new) - 1 : new[i] = items[i]
       \/ /\ Len(items) >= MaxFiles /\ Len(new) = Len(items)
          /\ \A i \in 1..Len(new) - 1 : new[i] = items[i + 1]

LEMMA Appends ==
    ASSUME NEW items, Cache(items), NEW p, At(items, p) = {}, NEW file,
           Entry(p, file) \in Item, NEW new, new = proto_remember_cached_crc(items, p, file)
    PROVE  Appended(items, new, Entry(p, file))
<1> DEFINE e == Entry(p, file)
<1>1. items \in Seq(Item) /\ Len(items) \in Nat /\ MaxFiles \in Nat \ {0}
  BY CacheAssumption DEF Cache
<1>2. CASE Len(items) >= MaxFiles
  <2> DEFINE rest == Drop(items, 1)
  <2>1. new = Append(rest, e)
    BY <1>2 DEF proto_remember_cached_crc
  <2>2. 1 \in 1..Len(items)
    BY <1>1, <1>2
  <2>3. /\ rest \in Seq(Item) /\ Len(rest) = Len(items) - 1
        /\ \A i \in 1..Len(items) - 1 : rest[i] = IF i < 1 THEN items[i] ELSE items[i + 1]
    BY <1>1, <2>2, Dropped
  <2> HIDE DEF rest, e
  <2>4. \A i \in 1..Len(items) - 1 : rest[i] = items[i + 1]
    BY <2>3
  <2>5. /\ new \in Seq(Item) /\ Len(new) = Len(items) /\ new[Len(new)] = e
        /\ \A i \in 1..Len(new) - 1 : new[i] = rest[i]
    BY <1>1, <2>1, <2>2, <2>3 DEF e
  <2> QED
    BY <1>1, <1>2, <2>4, <2>5 DEF e, Appended
<1>3. CASE ~ (Len(items) >= MaxFiles)
  <2>1. new = Append(items, e)
    BY <1>3 DEF proto_remember_cached_crc
  <2> QED
    BY <1>1, <1>3, <2>1 DEF Appended
<1> QED
  BY <1>2, <1>3

\* A full cache still holds entries from before when a file is not in it: the
\* files are too few to fill it and be missed.
LEMMA Room ==
    ASSUME NEW items, Cache(items), IsFiniteSet(Files), Cardinality(Files) <= MaxFiles,
           NEW p \in Files, At(items, p) = {}, Len(items) >= MaxFiles,
           NEW m \in 0..Len(items), Fresh(items, m)
    PROVE  m < Len(items)
<1> SUFFICES ASSUME m = Len(items) PROVE FALSE
  BY DEF Cache
<1>1. /\ items \in Seq(Item) /\ Len(items) \in Nat /\ OnePerPath(items)
      /\ Len(items) = MaxFiles
  BY CacheAssumption DEF Cache
<1> DEFINE S == 1..Len(items)
           T == Files \ {p}
           f == [i \in S |-> items[i].path]
<1>2. \A i \in S : items[i].path \in T
  <2> SUFFICES ASSUME NEW i \in S PROVE items[i].path \in T
    OBVIOUS
  <2>1. i > Len(items) - m
    BY <1>1
  <2>2. Good(items[i])
    BY <1>1, <2>1 DEF Fresh
  <2>3. items[i].path # p
    BY <1>1 DEF At
  <2> QED
    BY <2>2, <2>3 DEF Good, Current
<1>3. f \in [S -> T]
  BY <1>2
<1>4. IsFiniteSet(S) /\ Cardinality(S) = MaxFiles
  <2>1. 1 \in Int /\ Len(items) \in Int /\ ~ (1 > Len(items))
    BY <1>1, CacheAssumption
  <2>2. IsFiniteSet(1..Len(items)) /\ Cardinality(1..Len(items)) = Len(items) - 1 + 1
    BY <2>1, FS_Interval
  <2> QED
    BY <1>1, <2>2
<1>5. IsFiniteSet(T) /\ Cardinality(T) = Cardinality(Files) - 1
  BY FS_RemoveElement
<1>6. Cardinality(T) < Cardinality(S)
  <2>1. Cardinality(Files) \in Nat /\ MaxFiles \in Nat
    BY FS_CardinalityType, CacheAssumption
  <2> QED
    BY <1>4, <1>5, <2>1
<1>7. PICK i, j \in S : i # j /\ f[i] = f[j]
  <2> HIDE DEF S, T, f
  <2> QED
    BY <1>3, <1>4, <1>5, <1>6, FS_PigeonHole
<1> QED
  BY <1>1, <1>7 DEF OnePerPath

\* Of the entries that were fresh before the scan, m0, all stay, and each miss
\* of a file that has no entry adds one.
Grown(n, m0) ==
    LET s == Listing[n]
    IN  \/ s.failed
        \/ /\ quiet > 0 => \A item \in Range(s.items) : item.path \in Files => Good(item)
           /\ \E m \in m0..Len(s.items) :
                /\ Fresh(s.items, m)
                /\ m = m0 => /\ \A q \in Visited(n) : Hit(s.items, q)
                             /\ quiet > 0 => s.read = 0

LEMMA GrownStep ==
    ASSUME Types, Cache(cache_items), ~crc_disabled,
           IsFiniteSet(Files), Cardinality(Files) <= MaxFiles,
           NEW m0 \in Nat,
           NEW n \in 0..Len(Directory), n < Len(Directory), Grown(n, m0)
    PROVE  Grown(n + 1, m0)
<1> DEFINE p == Directory[n + 1]
           s == Listing[n]
           t == Listing[n + 1]
           e == Entry(p, disk[p])
<1>1. /\ s \in Acc /\ t \in Acc
      /\ \/ p \in Files /\ t = proto_add_file_item(s, p) /\ Visited(n + 1) = Visited(n) \union {p}
         \/ t = s /\ Visited(n + 1) = Visited(n)
  BY NextName
<1>2. CASE t = s /\ Visited(n + 1) = Visited(n)
  BY <1>2 DEF Grown
<1>3. ASSUME p \in Files, t = proto_add_file_item(s, p), Visited(n + 1) = Visited(n) \union {p},
             ~t.failed
      PROVE  Grown(n + 1, m0)
  <2>1. ~s.failed
    <3> HIDE DEF s, t, p
    <3> QED
      BY <1>1, <1>3, AddCases
  <2>2. quiet > 0 => \A item \in Range(s.items) : item.path \in Files => Good(item)
    BY <2>1 DEF Grown
  <2>3. PICK m \in m0..Len(s.items) :
          /\ Fresh(s.items, m)
          /\ m = m0 => /\ \A q \in Visited(n) : Hit(s.items, q)
                       /\ quiet > 0 => s.read = 0
    BY <2>1 DEF Grown
  <2> HIDE DEF s, t, p, e
  <2>4. Cache(s.items) /\ s.items \in Seq(Item) /\ Len(s.items) \in Nat /\ s.read \in Nat
    BY <1>1 DEF Acc
  <2>5. CASE Hit(s.items, p)
    <3>1. t.items = s.items /\ t.read = s.read
      BY <1>1, <1>3, <2>5, AddCases
    <3>2. m = m0 => \A q \in Visited(n + 1) : Hit(t.items, q)
      BY <1>3, <2>3, <2>5, <3>1
    <3>3. Fresh(t.items, m) /\ m \in m0..Len(t.items) /\ (m = m0 /\ quiet > 0 => t.read = 0)
      BY <2>3, <3>1
    <3>4. quiet > 0 => \A item \in Range(t.items) : item.path \in Files => Good(item)
      BY <2>2, <3>1
    <3> QED
      BY <3>2, <3>3, <3>4 DEF Grown, t
  <2>6. ASSUME ~Hit(s.items, p) PROVE Grown(n + 1, m0)
    <3>1. t.items = proto_remember_cached_crc(s.items, p, disk[p])
      BY <1>1, <1>3, <2>6, AddCases
    <3>2. e \in Item /\ e.path = p /\ Good(e)
      BY <1>3, EntryIsGood DEF e
    <3>3. p \in Path /\ disk[p] \in File /\ tick \in 0..Wrap - 1
      BY <1>3 DEF Types, Files
    <3>4. /\ Cache(t.items)
          /\ \A item \in Range(t.items) : item = e \/ (item \in Range(s.items) /\ item.path # p)
      BY <2>4, <3>1, <3>3, Remembers DEF e
    <3>5. quiet > 0 => \A item \in Range(t.items) : item.path \in Files => Good(item)
      BY <2>2, <3>2, <3>4
    <3>6. CASE At(s.items, p) # {}
      <4>1. /\ t.items \in Seq(Item) /\ Len(t.items) = Len(s.items)
            /\ \A i \in 1..Len(s.items) :
                 t.items[i] = IF s.items[i].path = p THEN e ELSE s.items[i]
        BY <2>4, <3>1, <3>2, <3>6, Replaces DEF e
      <4>2. Fresh(t.items, m)
        <5>1. SUFFICES ASSUME NEW i \in 1..Len(s.items), i > Len(s.items) - m
                       PROVE  Good(t.items[i])
          BY <4>1, SMTT(30) DEF Fresh
        <5>2. Good(s.items[i])
          BY <2>3, <2>4, <5>1 DEF Fresh
        <5> QED
          BY <3>2, <4>1, <5>2
      <4>3. ASSUME m = m0, NEW q \in Visited(n + 1) PROVE Hit(t.items, q)
        <5>1. q \in Files
          BY <4>3 DEF Visited
        <5>2. PICK i \in 1..Len(s.items) : s.items[i].path = q /\ (q # p => Good(s.items[i]))
          <6>1. CASE q = p
            BY <2>4, <3>6, <6>1 DEF At
          <6>2. CASE q # p
            <7>1. Hit(s.items, q)
              BY <1>3, <2>3, <4>3, <6>2
            <7>2. Find(s.items, q) \in 1..Len(s.items)
              BY <2>4, <7>1, FindFirst DEF Hit
            <7> QED
              BY <2>4, <5>1, <7>1, <7>2, HitIsGood
          <6> QED
            BY <6>1, <6>2
        <5>3. PICK j \in 1..Len(t.items) : t.items[j].path = q /\ Good(t.items[j])
          BY <3>2, <4>1, <5>2
        <5>4. t.items[j] \in Range(t.items)
          BY <4>1, Elements
        <5> QED
          BY <3>4, <5>1, <5>3, <5>4, GoodIsHit
      <4>4. ~ (quiet > 0)
        <5>1. SUFFICES ASSUME quiet > 0 PROVE FALSE
          OBVIOUS
        <5>2. PICK i \in 1..Len(s.items) : s.items[i].path = p
          BY <2>4, <3>6 DEF At
        <5>3. s.items[i] \in Range(s.items)
          BY <2>4, Elements
        <5>4. Good(s.items[i])
          BY <1>3, <2>2, <5>1, <5>2, <5>3
        <5> QED
          BY <1>3, <2>4, <2>6, <5>2, <5>3, <5>4, GoodIsHit
      <4>5. m \in m0..Len(t.items)
        BY <2>3, <4>1
      <4> QED
        BY <4>2, <4>3, <4>4, <4>5 DEF Grown, t
    <3>7. CASE At(s.items, p) = {}
      <4>1. /\ t.items \in Seq(Item) /\ Len(t.items) >= 1 /\ t.items[Len(t.items)] = e
            /\ \/ /\ Len(s.items) < MaxFiles /\ Len(t.items) = Len(s.items) + 1
                  /\ \A i \in 1..Len(t.items) - 1 : t.items[i] = s.items[i]
               \/ /\ Len(s.items) >= MaxFiles /\ Len(t.items) = Len(s.items)
                  /\ \A i \in 1..Len(t.items) - 1 : t.items[i] = s.items[i + 1]
        <5>1. e = Entry(p, disk[p])
          BY DEF e
        <5>2. Appended(s.items, t.items, Entry(p, disk[p]))
          BY <2>4, <3>1, <3>2, <3>7, <5>1, Appends
        <5> QED
          BY <5>1, <5>2 DEF Appended
      <4>2. Len(s.items) >= MaxFiles => m < Len(s.items)
        <5>1. m \in 0..Len(s.items)
          BY <2>3
        <5> QED
          BY <1>3, <2>3, <2>4, <3>7, <5>1, Room
      <4>3. m + 1 \in m0..Len(t.items) /\ m + 1 # m0
        BY <2>3, <2>4, <4>1, <4>2, CacheAssumption, SMTT(30)
      <4>4. Fresh(t.items, m + 1)
        <5>1. SUFFICES ASSUME NEW i \in 1..Len(t.items), i > Len(t.items) - (m + 1)
                       PROVE  Good(t.items[i])
          BY <4>1 DEF Fresh
        <5>2. CASE i = Len(t.items)
          BY <3>2, <4>1, <5>2
        <5>3. CASE i # Len(t.items)
          <6>1. i \in 1..Len(t.items) - 1
            BY <4>1, <5>3
          <6>2. CASE Len(t.items) = Len(s.items) + 1 /\ t.items[i] = s.items[i]
            <7>1. i \in 1..Len(s.items) /\ i > Len(s.items) - m
              BY <2>4, <5>1, <6>1, <6>2
            <7> QED
              BY <2>3, <2>4, <6>2, <7>1 DEF Fresh
          <6>3. CASE Len(t.items) = Len(s.items) /\ t.items[i] = s.items[i + 1]
            <7>1. i + 1 \in 1..Len(s.items) /\ i + 1 > Len(s.items) - m
              BY <2>4, <5>1, <6>1, <6>3, SMTT(30)
            <7> QED
              BY <2>3, <2>4, <6>3, <7>1 DEF Fresh
          <6> QED
            BY <4>1, <6>1, <6>2, <6>3
        <5> QED
          BY <5>2, <5>3
      <4> QED
        BY <3>5, <4>3, <4>4 DEF Grown, t
    <3> QED
      BY <3>6, <3>7
  <2> QED
    BY <2>5, <2>6
<1> QED
  BY <1>1, <1>2, <1>3 DEF Grown

LEMMA GrownAll ==
    ASSUME Types, Cache(cache_items), ~crc_disabled,
           IsFiniteSet(Files), Cardinality(Files) <= MaxFiles,
           quiet > 0 => \A item \in Range(cache_items) : item.path \in Files => Good(item),
           NEW m0 \in 0..Len(cache_items), Fresh(cache_items, m0)
    PROVE  Grown(Len(Directory), m0)
<1> DEFINE S == {n \in 0..Len(Directory) : Grown(n, m0)}
<1>1. Len(Directory) \in Nat /\ Listing[0] = Start /\ Len(cache_items) \in Nat
  BY ListingTrace DEF Cache
<1>2. Grown(0, m0)
  <2>1. Visited(0) = {}
    BY DEF Visited
  <2>2. Start.items = cache_items /\ Start.read = 0
    BY DEF Start
  <2>3. m0 \in m0..Len(cache_items)
    BY <1>1
  <2> QED
    BY <1>1, <2>1, <2>2, <2>3 DEF Grown
<1>3. 0 \in S
  BY <1>1, <1>2
<1>4. ASSUME NEW n \in 0..Len(Directory), n \in S, n < Len(Directory)
      PROVE  n + 1 \in S
  <2>1. n + 1 \in 0..Len(Directory) /\ m0 \in Nat
    BY <1>1, <1>4
  <2> QED
    BY <1>4, <2>1, GrownStep
<1>5. 0..Len(Directory) \subseteq S
  <2> HIDE DEF S
  <2> QED
    BY <1>1, <1>3, <1>4, UpTo
<1> QED
  BY <1>1, <1>5

-----------------------------------------------------------------------------
(* The invariants.                                                         *)

\* An entry stays sound when its file is left alone.
LEMMA SoundStep ==
    ASSUME Types, NEW item \in Item, Sound(item),
           stamps' \in Nat, stamps' >= stamps, hidden' = hidden, recheck' = recheck,
           tick' = tick, gap' = gap,
           Current(item)' => /\ Current(item)
                             /\ disk'[item.path].data = disk[item.path].data
                             /\ since'[item.path] = since[item.path]
    PROVE  Sound(item)'
<1>1. Age(item)' = Age(item)
  BY DEF Age
<1>2. item.stamp <= stamps'
  BY DEF Sound, Types, Item
<1> QED
  BY <1>1, <1>2 DEF Sound

LEMMA NothingListed == Changed => ScansTell'
<1> SUFFICES ASSUME Changed, NEW p \in Files' PROVE listed'[p] = None
  BY DEF ScansTell
<1>1. p \in Path
  BY DEF Files
<1> QED
  BY <1>1 DEF Changed

LEMMA HonestInit == Init => Honest
<1> SUFFICES ASSUME Init PROVE Honest
  OBVIOUS
<1>1. Files = {}
  BY DEF Init, Files
<1>2. Types
  <2>1. disk \in [Path -> File \union {None}] /\ listed \in [Path -> Data \union {None}]
        /\ since \in [Path -> 0..Never]
    BY CacheAssumption DEF Init, Never
  <2> QED
    BY <1>1, <2>1, CacheAssumption DEF Init, Types
<1>3. Cache(cache_items) /\ Range(cache_items) = {}
  <2>1. cache_items = <<>>
    BY DEF Init
  <2>2. OnePerPath(<<>>) /\ Range(<<>>) = {}
    BY DEF OnePerPath, Range
  <2> QED
    BY <2>1, <2>2, CacheAssumption DEF Cache
<1> QED
  BY <1>1, <1>2, <1>3 DEF Honest, ScansTell

LEMMA HonestStep == Honest /\ [Next]_vars => Honest'
<1> SUFFICES ASSUME Honest, [Next]_vars PROVE Honest'
  OBVIOUS
<1> DEFINE Shrinks == Cache(cache_items') /\ Range(cache_items') \subseteq Range(cache_items)
<1>1. /\ Types /\ Cache(cache_items) /\ cache_items \in Seq(Item)
      /\ \A item \in Range(cache_items) : Sound(item)
      /\ ScansTell
  BY DEF Honest, Cache
<1>2. \A item \in Range(cache_items) : item \in Item
  BY <1>1, Elements
<1>3. /\ {MaxFiles, Recheck, Wrap} \subseteq Nat \ {0} /\ MaxGap \in 1..(Wrap - Recheck)
  BY CacheAssumption
<1>4. ASSUME NEW p \in Path, Edit(p) PROVE Honest'
  <2>1. PICK x \in Data : /\ stamps' = stamps + 1
                          /\ disk' = [disk EXCEPT ![p] = [data |-> x, stamp |-> stamps']]
    BY <1>4 DEF Edit
  <2>2. stamps' \in Nat /\ stamps' > stamps
    BY <1>1, <2>1 DEF Types
  <2>3. /\ disk' \in [Path -> File \union {None}]
        /\ disk'[p] = [data |-> x, stamp |-> stamps']
        /\ \A q \in Path : q # p => disk'[q] = disk[q]
    BY <1>1, <2>1, <2>2 DEF Types, File
  <2>4. Types'
    <3>1. \A q \in Files' : disk'[q].stamp <= stamps'
      BY <1>1, <2>2, <2>3 DEF Types, Files, File
    <3>2. listed' \in [Path -> Data \union {None}] /\ since' \in [Path -> 0..Never]
          /\ quiet' \in Nat /\ misses' \in Nat
      BY <1>1, <1>3, <1>4 DEF Types, Edit, Changed, Never
    <3> QED
      BY <1>1, <1>4, <2>2, <2>3, <3>1, <3>2 DEF Types, Edit, options
  <2>5. ASSUME NEW item \in Range(cache_items) PROVE Sound(item)'
    <3>1. item \in Item /\ Sound(item) /\ item.stamp \in Nat /\ item.stamp <= stamps
      BY <1>1, <1>2 DEF Sound, Item
    <3>2. Current(item)' => /\ Current(item) /\ item.path # p
                            /\ disk'[item.path].data = disk[item.path].data
      BY <1>1, <2>2, <2>3, <3>1 DEF Current, Files, Types
    <3>3. item.path # p => since'[item.path] = since[item.path]
      BY <1>1, <1>4, <3>1 DEF Edit, Types, Item
    <3> QED
      BY <1>1, <1>4, <2>2, <3>1, <3>2, <3>3, SoundStep DEF Edit, options, Types
  <2>6. cache_items' = cache_items /\ ScansTell'
    BY <1>4, NothingListed DEF Edit
  <2> QED
    BY <1>1, <2>4, <2>5, <2>6 DEF Honest
<1>5. ASSUME NEW p \in Path, EditHidden(p) PROVE Honest'
  <2>1. PICK x \in Data : disk' = [disk EXCEPT ![p].data = x]
    BY <1>5 DEF EditHidden
  <2>2. disk[p] # None /\ disk[p] \in File /\ disk[p].stamp <= stamps
    BY <1>1, <1>5 DEF EditHidden, Types, Files
  <2>3. /\ disk' \in [Path -> File \union {None}]
        /\ disk'[p] = [data |-> x, stamp |-> disk[p].stamp]
        /\ \A q \in Path : q # p => disk'[q] = disk[q]
    <3>1. [disk[p] EXCEPT !.data = x] = [data |-> x, stamp |-> disk[p].stamp]
      BY <2>2 DEF File
    <3>2. [data |-> x, stamp |-> disk[p].stamp] \in File
      BY <2>2 DEF File
    <3>3. disk' = [disk EXCEPT ![p] = [data |-> x, stamp |-> disk[p].stamp]]
      BY <2>1, <3>1
    <3> QED
      BY <1>1, <3>2, <3>3 DEF Types
  <2>4. hidden \in Nat /\ hidden' = hidden + 1 /\ since' = [since EXCEPT ![p] = 0]
    BY <1>1, <1>5 DEF EditHidden, Types
  <2>5. Types'
    <3>1. \A q \in Files' : disk'[q].stamp <= stamps'
      BY <1>1, <1>5, <2>2, <2>3 DEF Types, Files, EditHidden
    <3>2. listed' \in [Path -> Data \union {None}] /\ since' \in [Path -> 0..Never]
          /\ quiet' \in Nat /\ misses' \in Nat
      BY <1>1, <1>3, <1>5, SMTT(30) DEF Types, EditHidden, Changed, Never
    <3> QED
      BY <1>1, <1>5, <2>3, <2>4, <3>1, <3>2 DEF Types, EditHidden, options
  <2>6. ASSUME NEW item \in Range(cache_items) PROVE Sound(item)'
    <3>1. item \in Item /\ Sound(item)
      BY <1>1, <1>2
    <3>2. Age(item)' = Age(item) /\ Age(item) \in Nat
      BY <1>1, <1>5, <3>1, AgeIs DEF Age, EditHidden
    <3>3. CASE item.path = p
      <4>1. since'[item.path] <= Age(item)' /\ since'[item.path] <= Recheck
        BY <1>1, <1>3, <2>4, <3>2, <3>3 DEF Types
      <4>2. Current(item)' => Current(item)
        BY <2>2, <2>3, <3>1, <3>3 DEF Current, Files, Item
      <4> QED
        BY <1>5, <3>1, <3>2, <4>1, <4>2 DEF Sound, EditHidden, options
    <3>4. CASE item.path # p
      <4>1. Current(item)' => /\ Current(item)
                              /\ disk'[item.path].data = disk[item.path].data
        BY <2>3, <3>1, <3>4 DEF Current, Files, Item
      <4>2. since'[item.path] = since[item.path]
        BY <1>1, <2>4, <3>1, <3>4 DEF Types, Item
      <4> QED
        BY <1>5, <2>4, <3>1, <3>2, <4>1, <4>2 DEF Sound, EditHidden, options
    <3> QED
      BY <3>3, <3>4
  <2>7. cache_items' = cache_items /\ ScansTell'
    BY <1>5, NothingListed DEF EditHidden
  <2> QED
    BY <1>1, <2>5, <2>6, <2>7 DEF Honest
<1>6. ASSUME NEW p \in Path, disk' = [disk EXCEPT ![p] = None],
             since' = [since EXCEPT ![p] = Never], Changed,
             UNCHANGED <<options, tick, bounds, gap>>, Shrinks
      PROVE  Honest'
  <2>1. /\ disk' \in [Path -> File \union {None}] /\ disk'[p] = None
        /\ \A q \in Path : q # p => disk'[q] = disk[q]
    BY <1>1, <1>6 DEF Types
  <2>2. Types'
    <3>1. \A q \in Files' : disk'[q].stamp <= stamps'
      BY <1>1, <1>6, <2>1 DEF Types, Files, bounds
    <3>2. listed' \in [Path -> Data \union {None}] /\ since' \in [Path -> 0..Never]
          /\ quiet' \in Nat /\ misses' \in Nat
      BY <1>1, <1>3, <1>6 DEF Types, Changed, Never
    <3> QED
      BY <1>1, <1>6, <2>1, <3>1, <3>2 DEF Types, options, bounds
  <2>3. ASSUME NEW item \in Range(cache_items) PROVE Sound(item)'
    <3>1. item \in Item /\ Sound(item)
      BY <1>1, <1>2
    <3>2. Current(item)' => /\ Current(item) /\ item.path # p
                            /\ disk'[item.path].data = disk[item.path].data
      BY <2>1, <3>1 DEF Current, Files, Item
    <3>3. item.path # p => since'[item.path] = since[item.path]
      BY <1>1, <1>6, <3>1 DEF Types, Item
    <3> QED
      BY <1>1, <1>6, <3>1, <3>2, <3>3, SoundStep DEF Types, options, bounds
  <2>4. ScansTell'
    BY <1>6, NothingListed
  <2> QED
    BY <1>6, <2>2, <2>3, <2>4 DEF Honest
<1>7. ASSUME NEW p \in Path, Delete(p) PROVE Honest'
  <2>1. Shrinks
    BY <1>1, <1>7 DEF Delete
  <2> HIDE DEF Shrinks
  <2> QED
    BY <1>6, <1>7, <2>1 DEF Delete
<1>8. ASSUME NEW p \in Path, proto_delete_local_file(p) PROVE Honest'
  <2>1. cache_items' = proto_forget_cached_crc(cache_items, p)
    BY <1>8 DEF proto_delete_local_file
  <2>2. Shrinks
    BY <1>1, <2>1, Forgets
  <2> HIDE DEF Shrinks
  <2> QED
    BY <1>6, <1>8, <2>2 DEF proto_delete_local_file
<1>9. ASSUME NEW p \in Path, proto_receive_download(p) PROVE Honest'
  <2>0. 0 < Recheck + gap'
    <3>1. gap' = gap /\ gap \in Nat /\ Recheck \in Nat /\ Recheck # 0
      BY <1>1, <1>3, <1>9 DEF Types, proto_receive_download
    <3> QED
      BY <3>1
  <2>1. PICK x \in Data, stamp \in {stamps'} \union {disk[q].stamp : q \in Files \intersect {p}} :
          /\ disk' = [disk EXCEPT ![p] = [data |-> x, stamp |-> stamp]]
          /\ cache_items' = IF crc_disabled THEN proto_forget_cached_crc(cache_items, p)
               ELSE proto_remember_cached_crc(cache_items, p, [data |-> x, stamp |-> stamp])
    BY <1>9 DEF proto_receive_download
  <2> DEFINE file == [data |-> x, stamp |-> stamp]
  <2>2. stamps' = stamps + 1 /\ stamps \in Nat /\ tick \in 0..Wrap - 1
    BY <1>1, <1>9 DEF Types, proto_receive_download
  <2>3. stamp \in Nat /\ stamp <= stamps' /\ file \in File
    BY <1>1, <2>2 DEF Types, Files, File
  <2>31. PICK e : e = Entry(p, file)
    OBVIOUS
  <2> HIDE DEF file
  <2>4. /\ disk' \in [Path -> File \union {None}]
        /\ disk'[p] = file
        /\ \A q \in Path : q # p => disk'[q] = disk[q]
    BY <1>1, <2>1, <2>3 DEF Types, file
  <2>5. Types'
    <3>1. \A q \in Files' : disk'[q].stamp <= stamps'
      BY <1>1, <2>2, <2>3, <2>4 DEF Types, Files, File, file
    <3>2. listed' \in [Path -> Data \union {None}] /\ since' \in [Path -> 0..Never]
          /\ quiet' \in Nat /\ misses' \in Nat
      BY <1>1, <1>3, <1>9 DEF Types, Changed, proto_receive_download, Never
    <3> QED
      BY <1>1, <1>9, <2>2, <2>4, <3>1, <3>2, SMTT(30) DEF Types, options, proto_receive_download
  <2>6. /\ Cache(cache_items')
        /\ \A item \in Range(cache_items') :
             item = e \/ (item \in Range(cache_items) /\ item.path # p)
    <3>1. CASE crc_disabled
      BY <1>1, <2>1, <3>1, Forgets
    <3>2. CASE ~crc_disabled
      BY <1>1, <2>1, <2>2, <2>3, <2>31, <3>2, Remembers DEF file
    <3> QED
      BY <3>1, <3>2
  <2>7. Sound(e)'
    <3>1. /\ e \in Item /\ e.path = p /\ e.stamp = stamp /\ e.crc32 = file.data
          /\ e.checked_tick = tick
      BY <2>2, <2>3, <2>31 DEF Entry, Item, File, file
    <3>2. tick' = tick
      BY <1>9 DEF proto_receive_download
    <3>3. Age(e) = 0 /\ Age(e)' = Age(e)
      BY <1>1, <2>2, <3>1, <3>2, AgeIs DEF Age
    <3> QED
      <4>1. e.stamp <= stamps'
        BY <2>3, <3>1
      <4>2. Age(e)' < Recheck + gap'
        <5>1. Age(e)' = 0
          BY <3>3
        <5> QED
          BY <2>0, <5>1
      <4>3. e.crc32 = disk'[e.path].data
        BY <2>4, <3>1
      <4> QED
        BY <4>1, <4>2, <4>3 DEF Sound
  <2>8. ASSUME NEW item \in Range(cache_items), item.path # p PROVE Sound(item)'
    <3>1. item \in Item /\ Sound(item)
      BY <1>1, <1>2
    <3>2. Current(item)' => /\ Current(item)
                            /\ disk'[item.path].data = disk[item.path].data
      BY <2>4, <2>8, <3>1 DEF Current, Files, Item
    <3>3. since'[item.path] = since[item.path]
      BY <1>1, <1>9, <2>8, <3>1 DEF Types, Item, proto_receive_download
    <3> QED
      BY <1>1, <1>9, <2>2, <3>1, <3>2, <3>3, SoundStep DEF options, proto_receive_download
  <2>9. ScansTell'
    BY <1>9, NothingListed DEF proto_receive_download
  <2> QED
    BY <2>5, <2>6, <2>7, <2>8, <2>9 DEF Honest
<1>10. CASE SwitchCrc
  <2>1. Types'
    BY <1>1, <1>10 DEF Types, SwitchCrc, Changed, Files, bounds
  <2>2. \A item \in Range(cache_items) : Sound(item)'
    BY <1>1, <1>10 DEF Sound, Current, Age, Files, SwitchCrc, bounds
  <2>3. cache_items' = cache_items /\ ScansTell'
    BY <1>10, NothingListed DEF SwitchCrc
  <2> QED
    BY <1>1, <2>1, <2>2, <2>3 DEF Honest
<1>11. CASE Tick
  <2>1. gap \in Nat /\ gap < MaxGap /\ gap' = gap + 1 /\ tick' = (tick + 1) % Wrap
    BY <1>1, <1>3, <1>11 DEF Types, Tick
  <2>2. /\ \A p \in Path : /\ since'[p] \in 0..Never /\ since'[p] <= since[p] + 1
                           /\ since[p] <= Recheck => since'[p] <= Recheck
        /\ since' \in [Path -> 0..Never]
    BY <1>1, <1>3, <1>11, SMTT(30) DEF Types, Tick, Never
  <2>3. tick' \in 0..Wrap - 1
    <3>1. Wrap \in Nat \ {0} /\ tick \in 0..Wrap - 1
      BY <1>1, <1>3 DEF Types
    <3> DEFINE b == tick + 1
    <3>2. b % Wrap = IF b < Wrap THEN b ELSE b - Wrap
      <4>1. b \in 0..2 * Wrap - 1
        BY <3>1
      <4> HIDE DEF b
      <4> QED
        BY <3>1, <4>1, Modulo
    <3> QED
      BY <2>1, <3>1, <3>2
  <2>4. Types'
    BY <1>1, <1>3, <1>11, <2>1, <2>2, <2>3, SMTT(30)
       DEF Types, Tick, Changed, Files, options, bounds
  <2>5. ASSUME NEW item \in Range(cache_items) PROVE Sound(item)'
    <3>1. item \in Item /\ Sound(item) /\ item.path \in Path
      BY <1>1, <1>2 DEF Item
    <3>2. Current(item)' <=> Current(item)
      BY <1>11 DEF Current, Files, Tick
    <3>3. CASE recheck /\ Current(item)
      <4>1. Age(item) < Recheck + gap /\ Age(item) \in Nat
        BY <1>1, <3>1, <3>3, AgeIs DEF Sound
      <4>2. Age(item) < Wrap - 1
        BY <1>3, <2>1, <4>1
      <4>3. Age(item)' = Age(item) + 1
        BY <1>1, <2>1, <3>1, <4>2, AgeStep
      <4>4. item.crc32 # disk[item.path].data => since[item.path] <= Age(item)
        BY <3>1, <3>3 DEF Sound
      <4>5. since[item.path] \in Nat /\ since'[item.path] \in Nat
        BY <1>1, <2>2, <3>1 DEF Types
      <4>6. Age(item)' < Recheck + gap'
        BY <1>3, <2>1, <4>1, <4>3
      <4>7. item.crc32 # disk[item.path].data => since'[item.path] <= Age(item)'
        BY <2>2, <3>1, <4>1, <4>3, <4>4, <4>5
      <4> QED
        BY <1>11, <3>1, <3>3, <4>6, <4>7 DEF Sound, Tick, options, bounds
    <3>4. CASE ~ (recheck /\ Current(item))
      BY <1>11, <2>2, <3>1, <3>2, <3>4 DEF Sound, Tick, options, bounds
    <3> QED
      BY <3>3, <3>4
  <2>6. cache_items' = cache_items /\ ScansTell'
    <3>1. CASE recheck
      BY <1>11, <3>1, NothingListed DEF Tick
    <3>2. CASE ~recheck
      <4>1. listed' = listed /\ disk' = disk /\ recheck' = recheck /\ Files' = Files
        BY <1>11, <3>2 DEF Tick, options, Files
      <4>2. \A p \in Files : since[p] <= Recheck => since'[p] <= Recheck
        BY <2>2 DEF Files
      <4> QED
        BY <1>1, <1>11, <3>2, <4>1, <4>2 DEF Tick, Honest, ScansTell
    <3> QED
      BY <3>1, <3>2
  <2> QED
    BY <1>1, <2>4, <2>5, <2>6 DEF Honest
<1>12. CASE proto_scan_directory
  <2> DEFINE s == Listing[Len(Directory)]
  <2>1. s \in Acc
    BY <1>1, ListingTrace
  <2>2. /\ Cache(s.items) /\ s.items \in Seq(Item)
        /\ s.listed \in [Path -> Data \union {None}] /\ s.read \in Nat
    BY <2>1 DEF Acc
  <2>3. /\ \A item \in Range(s.items) : Sound(item)
        /\ \A p \in Files : s.listed[p] \notin {None, disk[p].data} =>
             IF recheck THEN since[p] < Recheck ELSE since[p] <= Recheck
        /\ ~s.failed => \A item \in Range(s.items) : item.path \in Files => Good(item)
    BY ToldAll, AllVisited DEF Told
  <2>4. /\ cache_items' = s.items /\ listed' = s.listed /\ misses' = s.read
        /\ quiet' = IF s.failed \/ crc_disabled THEN 0
                    ELSE IF quiet > MaxFiles THEN quiet ELSE quiet + 1
        /\ gap' = IF s.failed THEN gap ELSE 0
        /\ UNCHANGED <<disk, options, tick, bounds, since>>
    BY <1>12 DEF proto_scan_directory
  <2> HIDE DEF s
  <2>5. gap' \in 0..MaxGap /\ quiet' \in Nat
    BY <1>1, <1>3, <2>4 DEF Types
  <2>6. Types'
    BY <1>1, <2>2, <2>4, <2>5 DEF Types, Files, options, bounds
  <2>7. ASSUME NEW item \in Range(s.items) PROVE Sound(item)'
    <3>1. item \in Item /\ Sound(item)
      BY <2>2, <2>3, Elements
    <3>2. Age(item)' = Age(item) /\ (Current(item)' <=> Current(item))
      BY <2>4 DEF Age, Current, Files
    <3>3. Current(item) /\ recheck => Age(item) < Recheck + gap'
      <4>1. CASE s.failed
        BY <2>4, <3>1, <4>1 DEF Sound
      <4>2. CASE ~s.failed
        <5>1. Current(item) /\ recheck => Age(item) < Recheck
          BY <1>1, <2>3, <3>1, <4>2, GoodIsYoung DEF Current
        <5>2. gap' = 0
          BY <2>4, <4>2
        <5> QED
          BY <1>3, <5>1, <5>2
      <4> QED
        BY <4>1, <4>2
    <3> QED
      BY <2>4, <3>1, <3>2, <3>3 DEF Sound, options, bounds
  <2>8. ScansTell'
    BY <2>3, <2>4 DEF ScansTell, Files, options, bounds
  <2> QED
    BY <2>2, <2>4, <2>6, <2>7, <2>8 DEF Honest
<1>13. CASE UNCHANGED vars
  BY <1>1, <1>13 DEF Honest, vars, options, bounds, Types, Files, Sound, Current, Age, ScansTell
<1> QED
  BY <1>4, <1>5, <1>7, <1>8, <1>9, <1>10, <1>11, <1>12, <1>13 DEF Next

LEMMA HonestInvariant == Spec => []Honest
BY HonestInit, HonestStep, PTL DEF Spec

\* A scan lists no checksum that is out of date but for a hidden edit, and with
\* the option crc_recheck for no longer than it says, whatever the counter of
\* ticks does.
THEOREM ScansAreTrue == Spec => []ScansTell
<1>1. Honest => ScansTell
  BY DEF Honest
<1> QED
  BY <1>1, HonestInvariant, PTL

\* A scan that lists all files leaves the cache warmer, or warm.
LEMMA ScanWarms ==
    ASSUME Honest, Warming, proto_scan_directory
    PROVE  Warming'
<1> DEFINE s == Listing[Len(Directory)]
<1>1. /\ Types /\ Cache(cache_items) /\ cache_items \in Seq(Item)
      /\ quiet \in Nat /\ Len(cache_items) \in Nat /\ Len(cache_items) <= MaxFiles
      /\ MaxFiles \in Nat \ {0}
  BY CacheAssumption DEF Honest, Types, Cache
<1>2. s \in Acc
  BY <1>1, ListingTrace
<1>3. /\ Cache(s.items) /\ s.items \in Seq(Item) /\ s.read \in Nat
  BY <1>2 DEF Acc
<1>4. /\ cache_items' = s.items /\ misses' = s.read
      /\ quiet' = IF s.failed \/ crc_disabled THEN 0
                  ELSE IF quiet > MaxFiles THEN quiet ELSE quiet + 1
      /\ UNCHANGED <<disk, crc_disabled, recheck, tick>>
  BY DEF proto_scan_directory, options
<1> SUFFICES ASSUME quiet' > 0 PROVE Warming'
  BY DEF Warming
<1>5. ~s.failed /\ ~crc_disabled
  BY <1>4
<1>6. IsFiniteSet(Files) /\ Cardinality(Files) <= MaxFiles
  BY <1>1, <1>5, FewFiles
<1>7. \A item \in Range(s.items) : item.path \in Files => Good(item)
  BY <1>5, ToldAll, AllVisited DEF Told
<1>8. Files' = Files
  BY <1>4 DEF Files
<1>9. \A item : Good(item)' <=> Good(item)
  BY <1>4 DEF Good, Current, Expired, Files
<1>10. ASSUME NEW p \in Files PROVE Hit(cache_items, p)' <=> Hit(s.items, p)
  BY <1>4 DEF Hit, At, Find, Expired
<1>11. /\ ~crc_disabled'
       /\ IsFiniteSet(Files') /\ Cardinality(Files') <= MaxFiles
       /\ \A item \in Range(cache_items') : (item.path \in Files => Good(item))'
  BY <1>4, <1>5, <1>6, <1>7, <1>8, <1>9
<1>12. \/ Settled(s.items) /\ (quiet' > 1 => s.read = 0)
       \/ \E m \in quiet'..Len(s.items) : Fresh(s.items, m)
  <2>1. CASE quiet > 0 /\ Settled(cache_items)
    <3>1. s.items = cache_items /\ s.read = 0
      BY <1>1, <1>5, <2>1, StillAll DEF Still
    <3> QED
      BY <2>1, <3>1
  <2>2. CASE ~ (quiet > 0 /\ Settled(cache_items))
    <3>1. PICK m0 \in 0..Len(cache_items) : Fresh(cache_items, m0) /\ m0 >= quiet
      <4>1. CASE quiet > 0
        <5>1. PICK m \in quiet..Len(cache_items) : Fresh(cache_items, m)
          BY <2>2, <4>1 DEF Warming
        <5>2. m \in 0..Len(cache_items) /\ m >= quiet
          BY <1>1, <5>1
        <5> QED
          BY <5>1, <5>2
      <4>2. CASE quiet = 0
        <5>1. Fresh(cache_items, 0)
          BY <1>1 DEF Fresh
        <5> QED
          BY <1>1, <4>2, <5>1
      <4> QED
        BY <1>1, <4>1, <4>2
    <3>2. quiet > 0 => \A item \in Range(cache_items) : item.path \in Files => Good(item)
      BY DEF Warming
    <3>3. Grown(Len(Directory), m0)
      BY <1>1, <1>5, <1>6, <3>1, <3>2, GrownAll
    <3>4. PICK m \in m0..Len(s.items) :
            /\ Fresh(s.items, m)
            /\ m = m0 => /\ \A q \in Files : Hit(s.items, q)
                         /\ quiet > 0 => s.read = 0
      BY <1>5, <3>3, AllVisited DEF Grown
    <3> HIDE DEF s
    <3>5. quiet' = quiet + 1
      BY <1>1, <1>4, <1>5, <3>1
    <3>6. CASE m = m0
      BY <1>1, <3>4, <3>5, <3>6 DEF Settled
    <3>7. CASE m # m0
      <4>1. m \in quiet'..Len(s.items)
        BY <1>1, <1>3, <3>1, <3>4, <3>5, <3>7
      <4> QED
        BY <3>4, <4>1
    <3> QED
      BY <3>6, <3>7
  <2> QED
    BY <2>1, <2>2
<1> HIDE DEF s
<1>13. \/ Settled(cache_items)' /\ (quiet' > 1 => misses' = 0)
       \/ \E m \in quiet'..Len(cache_items') : Fresh(cache_items, m)'
  <2>1. CASE Settled(s.items) /\ (quiet' > 1 => s.read = 0)
    BY <1>4, <1>8, <1>10, <2>1 DEF Settled
  <2>2. CASE \E m \in quiet'..Len(s.items) : Fresh(s.items, m)
    <3>1. PICK m \in quiet'..Len(s.items) : Fresh(s.items, m)
      BY <2>2
    <3>2. Fresh(cache_items, m)'
      BY <1>4, <1>9, <3>1 DEF Fresh
    <3> QED
      BY <1>4, <3>1, <3>2
  <2> QED
    BY <1>12, <2>1, <2>2
<1> QED
  BY <1>11, <1>13 DEF Warming

LEMMA WarmingStep == Honest /\ Warming /\ [Next]_vars => Warming'
<1> SUFFICES ASSUME Honest, Warming, [Next]_vars PROVE Warming'
  OBVIOUS
<1>1. CASE proto_scan_directory
  BY <1>1, ScanWarms
<1>2. CASE UNCHANGED vars
  BY <1>2 DEF Warming, vars, options, bounds, Files, Good, Current, Expired, Settled, Hit, At,
              Find, Fresh
<1>3. CASE quiet' = 0
  BY <1>3 DEF Warming
<1>4. CASE Tick /\ ~recheck
  <2>1. /\ UNCHANGED <<quiet, misses, cache_items, disk, recheck, crc_disabled>>
        /\ ~recheck
    BY <1>4 DEF Tick, options
  <2> QED
    BY <2>1 DEF Warming, Files, Good, Current, Expired, Settled, Hit, At, Find, Fresh
<1>5. proto_scan_directory \/ UNCHANGED vars \/ quiet' = 0 \/ (Tick /\ ~recheck)
  BY DEF Next, Edit, EditHidden, Delete, proto_delete_local_file, proto_receive_download,
         SwitchCrc, Tick, Changed
<1> QED
  BY <1>1, <1>2, <1>3, <1>4, <1>5

LEMMA WarmingInvariant == Spec => []Warming
<1>1. Init => Warming
  BY DEF Init, Warming
<1> QED
  BY <1>1, WarmingStep, HonestInvariant, PTL DEF Spec

\* A tree that fits the cache and does not change is read for MaxFiles scans at
\* most, whatever the cache has held before and, without crc_recheck, however
\* much time passes between the scans.
THEOREM CacheWarms == Spec => []Warms
<1>1. Honest /\ Warming => Warms
  <2> SUFFICES ASSUME Honest, Warming, quiet > MaxFiles PROVE misses = 0
    BY DEF Warms
  <2>1. /\ quiet \in Nat /\ MaxFiles \in Nat \ {0}
        /\ Len(cache_items) \in Nat /\ Len(cache_items) <= MaxFiles
    BY CacheAssumption DEF Honest, Types, Cache
  <2>2. quiet > 0 /\ quiet > 1
    BY <2>1
  <2>3. ~ \E m \in quiet..Len(cache_items) : Fresh(cache_items, m)
    BY <2>1
  <2> QED
    BY <2>2, <2>3 DEF Warming
<1> QED
  BY <1>1, HonestInvariant, WarmingInvariant, PTL
=============================================================================
