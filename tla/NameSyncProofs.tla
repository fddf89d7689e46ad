--------------------------- MODULE NameSyncProofs ---------------------------
(***************************************************************************)
(* Proofs about NameSync: for all trees of names, all sequences of edits   *)
(* and all changes of folders.  Where both sides list the same names, a    *)
(* session replaces nothing but what a user has replaced, brings no older  *)
(* content back and loses no last copy.                                    *)
(***************************************************************************)
EXTENDS NameSync, Iteration, SequenceTheorems, FiniteSetTheorems, TLAPS

-----------------------------------------------------------------------------
(* The two rules for names.                                                *)

IsText(s) == \E S : s \in Seq(S)

LEMMA TextOf ==
    ASSUME NEW s, IsText(s)
    PROVE  /\ Len(s) \in Nat /\ DOMAIN s = 1..Len(s)
           /\ \A n \in Nat : n <= Len(s) =>
                /\ IsText(SubSeq(s, 1, n)) /\ Len(SubSeq(s, 1, n)) = n
                /\ \A i \in 1..n : SubSeq(s, 1, n)[i] = s[i]
<1>1. PICK S : s \in Seq(S)
  BY DEF IsText
<1>2. ASSUME NEW n \in Nat, n <= Len(s)
      PROVE  /\ IsText(SubSeq(s, 1, n)) /\ Len(SubSeq(s, 1, n)) = n
             /\ \A i \in 1..n : SubSeq(s, 1, n)[i] = s[i]
  <2>1. \A i \in 1..n : s[i] \in S
    BY <1>1, <1>2
  <2>2. /\ SubSeq(s, 1, n) \in Seq(S)
        /\ Len(SubSeq(s, 1, n)) = IF 1 <= n THEN n - 1 + 1 ELSE 0
        /\ \A i \in 1..(n - 1 + 1) : SubSeq(s, 1, n)[i] = s[1 + i - 1]
    BY <2>1, SubSeqProperties
  <2>3. Len(SubSeq(s, 1, n)) = n /\ \A i \in 1..n : SubSeq(s, 1, n)[i] = s[i]
    BY <2>2
  <2>4. IsText(SubSeq(s, 1, n))
    BY <2>2 DEF IsText
  <2> QED
    BY <2>3, <2>4
<1> QED
  BY <1>1, <1>2

LEMMA UpperText ==
    ASSUME NEW s, IsText(s)
    PROVE  IsText(Upper(s)) /\ Len(Upper(s)) = Len(s)
<1> DEFINE S == {ToUpper(s[i]) : i \in 1..Len(s)}
<1>1. Len(s) \in Nat /\ DOMAIN s = 1..Len(s)
  BY TextOf
<1>2. Upper(s) \in [1..Len(s) -> S]
  BY <1>1 DEF Upper
<1> HIDE DEF S
<1>3. Upper(s) \in Seq(S)
  BY <1>1, <1>2, SeqDef
<1> QED
  BY <1>1, <1>2, <1>3 DEF IsText

\* What stands before the first dot, and after it.
LEMMA DotPlace ==
    ASSUME NEW s, IsText(s)
    PROVE  /\ BeforeDot(s) \in 0..Len(s)
           /\ \A i \in 1..BeforeDot(s) : s[i] # Dot
           /\ BeforeDot(s) = Len(s) \/ s[BeforeDot(s) + 1] = Dot
<1> DEFINE T == {n \in 0..Len(s) : n = Len(s) \/ s[n + 1] = Dot}
<1>1. Len(s) \in Nat
  BY TextOf
<1>2. T \subseteq Nat /\ Len(s) \in T
  BY <1>1
<1>3. PICK n \in T : \A m \in T : n <= m
  BY <1>2, Smallest
<1>4. ASSUME NEW i \in 1..n PROVE s[i] # Dot
  <2>1. i - 1 \in 0..Len(s) /\ ~(n <= i - 1) /\ (i - 1) + 1 = i
    BY <1>1
  <2>2. i - 1 \notin T
    BY <1>3, <2>1
  <2> QED
    BY <2>1, <2>2
<1>5. \E m \in 0..Len(s) : (\A i \in 1..m : s[i] # Dot) /\ (m = Len(s) \/ s[m + 1] = Dot)
  BY <1>4
<1> QED
  BY <1>5 DEF BeforeDot

LEMMA AfterDotText ==
    ASSUME NEW s, IsText(s), BeforeDot(s) < Len(s)
    PROVE  /\ Len(AfterDot(s)) = Len(s) - BeforeDot(s) - 1
           /\ DOMAIN AfterDot(s) = 1..(Len(s) - BeforeDot(s) - 1)
           /\ \A i \in 1..(Len(s) - BeforeDot(s) - 1) :
                AfterDot(s)[i] = s[BeforeDot(s) + 1 + i]
<1> DEFINE b == BeforeDot(s)
<1>1. PICK S : s \in Seq(S)
  BY DEF IsText
<1>2. Len(s) \in Nat /\ b \in 0..Len(s) /\ DOMAIN s = 1..Len(s)
  BY DotPlace, TextOf
<1> HIDE DEF b
<1>3. \A i \in (b + 2)..Len(s) : s[i] \in S
  BY <1>1, <1>2
<1>4. b + 2 \in Int /\ Len(s) \in Int
  BY <1>2
<1>5. /\ SubSeq(s, b + 2, Len(s)) \in Seq(S)
      /\ Len(SubSeq(s, b + 2, Len(s))) = IF b + 2 <= Len(s) THEN Len(s) - (b + 2) + 1 ELSE 0
      /\ \A i \in 1..(Len(s) - (b + 2) + 1) : SubSeq(s, b + 2, Len(s))[i] = s[b + 2 + i - 1]
  BY <1>3, <1>4, SubSeqProperties
<1>6. b < Len(s) /\ AfterDot(s) = SubSeq(s, b + 2, Len(s))
  BY DEF AfterDot, b
<1>7. Len(AfterDot(s)) = Len(s) - b - 1
  <2> DEFINE l == Len(s)
  <2>1. b \in Nat /\ l \in Nat /\ b < l
    BY <1>2, <1>6
  <2>2. Len(AfterDot(s)) = IF b + 2 <= l THEN l - (b + 2) + 1 ELSE 0
    BY <1>5, <1>6
  <2> HIDE DEF l
  <2>3. Len(AfterDot(s)) = l - b - 1
    BY <2>1, <2>2
  <2> QED
    BY <2>3 DEF l
<1>8. \A i \in 1..(Len(s) - b - 1) : AfterDot(s)[i] = s[b + 1 + i]
  BY <1>2, <1>5, <1>6
<1> QED
  BY <1>5, <1>6, <1>7, <1>8, LenProperties DEF b

\* A name the client takes is short, so that its copy is the whole name.
LEMMA TakenWhole ==
    ASSUME NEW s, IsText(s), NEW f \in BOOLEAN, proto_is_valid_component(s, f)
    PROVE  Beginning(s, NameRoom - 1) = s
<1> DEFINE n == IF Len(s) <= NameRoom - 1 THEN Len(s) ELSE NameRoom - 1
           t == SubSeq(s, 1, n)
           u == Upper(t)
           b == BeforeDot(u)
<1>1. Len(s) \in Nat /\ NameRoom \in Nat /\ BaseMax \in Nat /\ ExtMax \in Nat
      /\ BaseMax + ExtMax + 2 < NameRoom
  BY TextOf, NameRulesAssumption
<1>2. n \in Nat /\ n <= Len(s)
  BY <1>1
<1>3. Beginning(s, NameRoom - 1) = t
  BY DEF Beginning
<1> HIDE DEF n
<1>4. IsText(t) /\ Len(t) = n
  BY <1>2, TextOf
<1> HIDE DEF t
<1>5. IsText(u) /\ Len(u) = n
  BY <1>4, UpperText
<1>6. /\ Len(SubSeq(u, 1, b)) \in 1..BaseMax
      /\ Dots(u) # {} => Len(AfterDot(u)) \in 1..ExtMax
  BY <1>3, Zenon DEF proto_is_valid_component
<1> HIDE DEF u
<1>7. /\ b \in 0..n /\ (b = n \/ u[b + 1] = Dot)
      /\ DOMAIN u = 1..n
  BY <1>5, DotPlace, TextOf
<1> HIDE DEF b
<1>8. b <= BaseMax
  BY <1>2, <1>5, <1>6, <1>7, TextOf
<1>9. n <= BaseMax + ExtMax + 1
  <2>1. CASE b = n
    BY <1>1, <1>2, <1>8, <2>1
  <2>2. CASE b < n
    <3>1. b + 1 \in Dots(u)
      BY <1>2, <1>7, <2>2 DEF Dots
    <3>2. Len(AfterDot(u)) = n - b - 1
      BY <1>5, <2>2, AfterDotText DEF b
    <3> QED
      BY <1>1, <1>2, <1>6, <1>7, <1>8, <3>1, <3>2
  <2> QED
    BY <1>2, <1>7, <2>1, <2>2
<1>10. n = Len(s)
  BY <1>1, <1>2, <1>9 DEF n
<1> QED
  <2>1. PICK S : s \in Seq(S)
    BY DEF IsText
  <2> QED
    BY <1>3, <1>10, <2>1, SubSeqFull DEF t

\* What the client takes, the server takes (proto.c, main.rs).
LEMMA ClientTakesLess ==
    ASSUME NEW s, IsText(s), NEW f \in BOOLEAN, proto_is_valid_component(s, f)
    PROVE  is_valid_fat_component(s, f)
<1> DEFINE u == Upper(s)
           b == BeforeDot(u)
           e == AfterDot(u)
<1>1. /\ s # <<>> /\ s \notin DotNames
      /\ IF f THEN Dots(e) = {} ELSE Dots(u) = {}
      /\ Len(SubSeq(u, 1, b)) \in 1..BaseMax /\ AllLegal(SubSeq(u, 1, b))
      /\ Dots(u) # {} => Len(e) \in 1..ExtMax /\ AllLegal(e)
  BY TakenWhole, Zenon DEF proto_is_valid_component
<1>2. IsText(u)
  BY UpperText
<1> HIDE DEF u
<1>3. Len(u) \in Nat /\ DOMAIN u = 1..Len(u) /\ b \in 0..Len(u)
      /\ (\A i \in 1..b : u[i] # Dot)
  BY <1>2, TextOf, DotPlace
<1>4. Dots(u) \subseteq {b + 1}
  <2>1. CASE Dots(u) = {}
    BY <2>1
  <2>2. CASE Dots(u) # {}
    <3>1. b < Len(u)
      BY <1>3, <2>2 DEF Dots
    <3>2. DOMAIN e = 1..(Len(u) - b - 1)
          /\ \A i \in 1..(Len(u) - b - 1) : e[i] = u[b + 1 + i]
      BY <1>2, <3>1, AfterDotText
    <3>3. Dots(e) = {}
      BY <1>1, <2>2
    <3> HIDE DEF b, e
    <3> SUFFICES ASSUME NEW j \in 1..Len(u), u[j] = Dot, j # b + 1 PROVE FALSE
      BY <1>3 DEF Dots
    <3>4. j - b - 1 \in 1..(Len(u) - b - 1) /\ b + 1 + (j - b - 1) = j
      BY <1>3
    <3>5. e[j - b - 1] = Dot
      BY <3>2, <3>4
    <3> QED
      BY <3>2, <3>3, <3>4, <3>5 DEF Dots
  <2> QED
    BY <2>1, <2>2
<1>5. Cardinality(Dots(u)) <= 1
  <2>1. Dots(u) = {} \/ Dots(u) = {b + 1}
    BY <1>4
  <2>2. Cardinality({}) = 0 /\ Cardinality({b + 1}) = 1
    BY FS_EmptySet, FS_Singleton
  <2> QED
    BY <2>1, <2>2
<1>6. IF Dots(u) # {} THEN Len(e) \in 1..ExtMax /\ AllLegal(e)
                      ELSE f \/ Dots(u) = {}
  BY <1>1
<1> QED
  BY <1>1, <1>5, <1>6, Zenon DEF is_valid_fat_component, u

LEMMA ListedByBoth ==
    ASSUME NEW k \in Key, CliLists(k)
    PROVE  SrvLists(k)
<1>1. k \in Seq(Seq(STRING))
  BY NamesAssumption DEF Key, Range
<1>2. ASSUME NEW i \in DOMAIN k PROVE IsText(k[i])
  BY <1>1, <1>2 DEF IsText
<1>3. ASSUME NEW i \in DOMAIN k PROVE is_valid_fat_component(k[i], i = Len(k))
  BY <1>2, <1>3, ClientTakesLess DEF CliLists
<1> QED
  BY <1>3 DEF SrvLists

-----------------------------------------------------------------------------
(* The inductive invariant.                                                *)

\* A folder holds contents written so far under names of the instance; what
\* the server would list in it has a name the client lists too.
Shape(t) ==
    /\ t = [files |-> t.files, dirs |-> t.dirs, locked |-> t.locked]
    /\ t.files = [n \in DOMAIN t.files |-> t.files[n]]

IsTree(t, newest) == Shape(t) /\ \A n \in DOMAIN t.files : t.files[n] \in 1..newest

IsSrvTree(t) ==
    /\ DOMAIN t.files \subseteq SrvNames \union Key
    /\ \A n \in DOMAIN t.files : SrvLists(n) => CliLists(n)

Trees ==
    /\ clock \in 0..MaxEdits /\ switches \in Nat /\ moves \in Nat
    /\ srvRoot \in Root /\ cliRoot \in Root
    /\ srv = [r \in Root |-> srv[r]] /\ cli = [r \in Root |-> cli[r]]
    /\ \A r \in Root : IsTree(srv[r], clock) /\ IsSrvTree(srv[r])
                       /\ IsTree(cli[r], clock) /\ DOMAIN cli[r].files \subseteq Key

\* What the state file records, both sides have had under a name both list.
Records ==
    \A k \in Key :
        \/ state[k] = None
        \/ CliLists(k) /\ \E c \in 1..clock : state[k] = Entry(c)

\* The manifests of a session follow what it does, and its plan for what is
\* left to do is the one it would make now.
Follows ==
    \/ next = 0
    \/ /\ next \in 1..(Len(KeyOrder) + 1)
       /\ sm = scan_server_tree(Server) /\ cm = scan_directory(Client)
       /\ \A i \in next..Len(KeyOrder) :
            plan[KeyOrder[i]] = build_sync_action(state[KeyOrder[i]], sm[KeyOrder[i]],
                                                  cm[KeyOrder[i]])

\* Until a folder is changed: what is recorded is still there on both sides, or
\* a user has taken a copy away; what is there is not older.
Present(k, c) == Holds(Server, k, c) /\ Holds(Client, k, c)

Recorded ==
    moves = 0 => \A k \in Key, c \in Content : state[k] = Entry(c) =>
        /\ c \in replaced \/ Present(k, c)
        /\ \A d \in Content : Holds(Server, k, d) \/ Holds(Client, k, d) => c <= d

\* After one change: the folder that is no longer in use has what is recorded.
PutAside(k, c) ==
    \/ \E r \in Root \ {srvRoot} : Holds(srv[r], k, c)
    \/ \E r \in Root \ {cliRoot} : Holds(cli[r], k, c)

Aside ==
    moves = 1 => \A k \in Key, c \in Content :
        state[k] = Entry(c) => c \in replaced \/ PutAside(k, c)

\* However often folders have been changed: unless a session has broken off,
\* some folder of either side has what is recorded of the paths still to do.
OnBothSides(k, c) ==
    /\ \E r \in Root : Holds(srv[r], k, c)
    /\ \E r \in Root : Holds(cli[r], k, c)

ToDo == IF next = 0 THEN Key ELSE {KeyOrder[i] : i \in next..Len(KeyOrder)}

Somewhere ==
    ~broke => \A k \in ToDo, c \in Content :
        state[k] = Entry(c) => c \in replaced \/ OnBothSides(k, c)

NamesInv == Trees /\ Records /\ Follows /\ Recorded /\ Aside /\ Somewhere

-----------------------------------------------------------------------------
(* Trees and what is listed in them.                                       *)

LEMMA PutFileHolds ==
    ASSUME NEW t, NEW n, NEW c
    PROVE  /\ Shape(PutFile(t, n, c))
           /\ DOMAIN PutFile(t, n, c).files = DOMAIN t.files \union {n}
           /\ \A m \in DOMAIN t.files \union {n} :
                PutFile(t, n, c).files[m] = IF m = n THEN c ELSE t.files[m]
BY DEF PutFile, Shape

LEMMA DropFilesHolds ==
    ASSUME NEW t, NEW ns
    PROVE  /\ Shape(DropFiles(t, ns))
           /\ DOMAIN DropFiles(t, ns).files = DOMAIN t.files \ ns
           /\ \A m \in DOMAIN t.files \ ns : DropFiles(t, ns).files[m] = t.files[m]
BY DEF DropFiles, Shape

LEMMA DropDirHolds ==
    ASSUME NEW t, NEW d
    PROVE  Shape(DropDir(t, d)) /\ DropDir(t, d).files = DropFiles(t, Below(t, d)).files
BY DEF DropDir, DropFiles, Shape

\* With common names both scans list the same of a folder of the server.
LEMMA SameScans ==
    ASSUME CommonNames, NEW t, IsSrvTree(t)
    PROVE  scan_server_tree(t) = scan_directory(t)
<1> SUFFICES ASSUME NEW k \in Key
             PROVE  scan_server_tree(t)[k] = scan_directory(t)[k]
  BY DEF scan_server_tree, scan_directory
<1>1. Listed(t, k) = {n \in DOMAIN t.files : n = k /\ SrvLists(k)}
  <2>1. \A n \in SrvNames \union Key : KeyOf(n) = n
    BY DEF CommonNames
  <2>2. SrvListed[k] = {n \in SrvNames \union Key : KeyOf(n) = k /\ SrvLists(n)}
    BY DEF SrvListed
  <2>3. SrvListed[k] = {n \in {k} : SrvLists(k)}
    BY <2>1, <2>2
  <2> QED
    BY <2>3 DEF Listed
<1>2. CASE k \in DOMAIN t.files /\ SrvLists(k)
  <2>1. Listed(t, k) = {k}
    BY <1>1, <1>2
  <2>2. Chosen(t, k) = k
    BY <2>1, Zenon DEF Chosen
  <2>3. CliLists(k)
    BY <1>2 DEF IsSrvTree
  <2> QED
    BY <1>2, <2>1, <2>2, <2>3 DEF scan_server_tree, scan_directory, CliListed
<1>3. CASE ~(k \in DOMAIN t.files /\ SrvLists(k))
  <2>1. Listed(t, k) = {}
    BY <1>1, <1>3
  <2>2. ~(k \in DOMAIN t.files /\ k \in CliListed)
    BY <1>3, ListedByBoth DEF CliListed
  <2> QED
    BY <2>1, <2>2 DEF scan_server_tree, scan_directory
<1> QED
  BY <1>2, <1>3

LEMMA SameItems ==
    ASSUME NEW c, NEW d
    PROVE  /\ ItemOf(c) = ItemOf(d) <=> c = d
           /\ Entry(c) = Entry(d) <=> c = d
           /\ same_revision(ItemOf(c), ItemOf(d)) <=> c = d
           /\ Entry(c).server = ItemOf(c) /\ Entry(c).client = ItemOf(c)
           /\ ItemOf(c).crc = c
BY DEF ItemOf, Entry, same_revision

ItemOrNone == {None} \union {ItemOf(c) : c \in Content}

LEMMA Listing ==
    ASSUME NEW t, NEW k \in Key, \A n \in DOMAIN t.files : t.files[n] \in Content
    PROVE  /\ scan_directory(t)[k] \in ItemOrNone
           /\ scan_directory(t)[k] = None <=> ~(k \in DOMAIN t.files /\ CliLists(k))
           /\ \A c \in Content : scan_directory(t)[k] = ItemOf(c)
                                  <=> Holds(t, k, c) /\ CliLists(k)
<1>1. scan_directory(t)[k] = IF k \in DOMAIN t.files /\ CliLists(k)
                               THEN ItemOf(t.files[k]) ELSE None
  BY DEF scan_directory, CliListed
<1>2. \A c \in Content : ItemOf(c) # None
  BY NoneAssumption
<1> QED
  BY <1>1, <1>2, SameItems DEF ItemOrNone, Holds

-----------------------------------------------------------------------------
(* The merge, of items that are told apart by their checksums.             *)

\* The side that is given as old is replaced by the other: it holds nothing,
\* and never did, or it holds what was recorded and the other does not.
Outdated(prev, old, new) ==
    /\ old # new
    /\ \/ prev = None /\ old = None
       \/ \E c \in Content : prev = Entry(c) /\ old = ItemOf(c)

LEMMA Decided ==
    ASSUME NEW prev, prev = None \/ \E c \in Content : prev = Entry(c),
           NEW s \in ItemOrNone, NEW c \in ItemOrNone
    PROVE  LET a == build_sync_action(prev, s, c)
           IN  /\ a.kind = "download"      => a.item = s /\ s # None /\ Outdated(prev, c, s)
               /\ a.kind = "upload"        => a.item = c /\ c # None /\ Outdated(prev, s, c)
               /\ a.kind = "delete_local"  => s = None /\ c # None /\ Outdated(prev, c, s)
               /\ a.kind = "delete_remote" => c = None /\ s # None /\ Outdated(prev, s, c)
<1> DEFINE a == build_sync_action(prev, s, c)
<1>1. \A x \in Content : ItemOf(x) # None /\ Entry(x) # None
  BY NoneAssumption
<1>2. /\ s # None => \E x \in Content : s = ItemOf(x)
      /\ c # None => \E x \in Content : c = ItemOf(x)
  BY DEF ItemOrNone
<1>3. s # None /\ c # None => (same_revision(s, c) <=> s = c)
  BY <1>2, SameItems
<1>4. CASE prev = None
  <2>1. a = IF s # None /\ c # None /\ same_live_items(s, c) THEN NoAct
            ELSE first_meeting(s, c)
    BY <1>4 DEF build_sync_action
  <2>2. \/ a.kind = "none" \/ a.kind = "conflict"
        \/ c = None /\ s # None /\ a = Act("download", s)
        \/ s = None /\ c # None /\ a = Act("upload", c)
    BY <2>1 DEF first_meeting, NoAct, Act
  <2> QED
    BY <1>4, <2>2 DEF Act, Outdated
<1>5. CASE prev # None
  <2>1. PICK x \in Content : prev = Entry(x)
    BY <1>5
  <2> DEFINE p == same_state_item(s, ItemOf(x))
             q == same_state_item(c, ItemOf(x))
  <2>2. (p <=> s = ItemOf(x)) /\ (q <=> c = ItemOf(x))
    BY <1>1, <1>2, SameItems DEF same_state_item
  <2>3. a = IF s # None /\ c # None /\ same_live_items(s, c) THEN NoAct
            ELSE three_way(prev, s, c)
    BY <1>5 DEF build_sync_action
  <2>4. prev.server = ItemOf(x) /\ prev.client = ItemOf(x)
    BY <2>1, SameItems
  <2>5. \/ a.kind = "none" \/ a.kind = "conflict"
        \/ ~p /\ q /\ s # None /\ a = Act("download", s)
        \/ ~p /\ q /\ s = None /\ a = Act("delete_local", None)
        \/ p /\ ~q /\ c # None /\ a = Act("upload", c)
        \/ p /\ ~q /\ c = None /\ a = Act("delete_remote", None)
    <3> HIDE DEF p, q
    <3>1. three_way(prev, s, c) =
            IF ~p /\ ~q
              THEN IF same_live_items(s, c) THEN NoAct ELSE Act("conflict", None)
            ELSE IF ~p
              THEN IF s # None THEN Act("download", s) ELSE Act("delete_local", None)
            ELSE IF ~q
              THEN IF c # None THEN Act("upload", c) ELSE Act("delete_remote", None)
            ELSE NoAct
      BY <2>4 DEF three_way, p, q
    <3> QED
      BY <2>3, <3>1 DEF NoAct, Act
  <2> HIDE DEF p, q, a
  <2>6. \A y : prev = Entry(y) <=> y = x
    BY <2>1, SameItems
  <2> QED
    BY <1>1, <2>1, <2>2, <2>5 DEF Act, Outdated, a
<1> QED
  BY <1>4, <1>5 DEF a

\* What is recorded, both sides hold.
LEMMA RecordedByBoth ==
    ASSUME NEW s \in ItemOrNone, NEW c \in ItemOrNone
    PROVE  \/ build_state_entry(s, c) = None
           \/ \E x \in Content : /\ s = ItemOf(x) /\ c = ItemOf(x)
                                 /\ build_state_entry(s, c) = Entry(x)
<1>1. CASE s = None \/ c = None
  BY <1>1 DEF build_state_entry
<1>2. CASE s # None /\ c # None
  <2>1. PICK x \in Content, y \in Content : s = ItemOf(x) /\ c = ItemOf(y)
    BY <1>2 DEF ItemOrNone
  <2>2. ItemOf(x).known /\ ItemOf(y).known
    BY DEF ItemOf
  <2>3. same_live_items(s, c) \/ same_without_crc_bootstrap(s, c) => x = y
    BY <1>2, <2>1, <2>2, SameItems DEF same_live_items, same_without_crc_bootstrap
  <2> QED
    BY <1>2, <2>1, <2>3 DEF build_state_entry, Entry
<1> QED
  BY <1>1, <1>2

LEMMA TurnOf ==
    ASSUME NEW p, NEW i \in 1..(Len(KeyOrder) + 1)
    PROVE  Turn(p, i) \in i..(Len(KeyOrder) + 1)
<1> DEFINE T == {j \in i..(Len(KeyOrder) + 1) :
                   j = Len(KeyOrder) + 1 \/ p[KeyOrder[j]].kind # "none"}
<1>1. Len(KeyOrder) \in Nat
  BY NamesAssumption
<1>2. T \subseteq Nat /\ Len(KeyOrder) + 1 \in T
  BY <1>1
<1>3. PICK x \in T : \A y \in T : x <= y
  BY <1>2, Smallest
<1>4. Min(T) \in T
  <2> HIDE DEF T
  <2> QED
    BY <1>3 DEF Min
<1> QED
  BY <1>4 DEF Turn

LEMMA KeyAt ==
    ASSUME NEW i \in 1..Len(KeyOrder)
    PROVE  /\ KeyOrder[i] \in Key
           /\ \A j \in 1..Len(KeyOrder) : j # i => KeyOrder[j] # KeyOrder[i]
<1>1. DOMAIN KeyOrder = 1..Len(KeyOrder)
  BY NamesAssumption
<1> QED
  BY <1>1, NamesAssumption DEF Key, Range, IsInjective

-----------------------------------------------------------------------------
(* What an action of a session does to the two folders in use.             *)

\* Of folder t it makes u, which differs at n: a content recorded there and
\* no longer on the other side, v, makes room for what v holds, if anything.
Alters(t, u, v, n) ==
    /\ Shape(u)
    /\ DOMAIN u.files \ {n} = DOMAIN t.files \ {n}
    /\ \A m \in DOMAIN t.files \ {n} : u.files[m] = t.files[m]
    /\ n \in DOMAIN t.files =>
         \E c \in Content : state[n] = Entry(c) /\ t.files[n] = c /\ ~Holds(v, n, c)
    /\ n \in DOMAIN u.files => Holds(v, n, u.files[n])

AltersClient(n) ==
    /\ UNCHANGED srv
    /\ cli' = [cli EXCEPT ![cliRoot] = cli'[cliRoot]]
    /\ Alters(Client, cli'[cliRoot], Server, n)

AltersServer(n) ==
    /\ UNCHANGED cli
    /\ srv' = [srv EXCEPT ![srvRoot] = srv'[srvRoot]]
    /\ Alters(Server, srv'[srvRoot], Client, n)

Ready == NamesInv /\ next \in DOMAIN KeyOrder

LEMMA ReadyFor ==
    ASSUME CommonNames, Ready
    PROVE  /\ At \in Key /\ next \in 1..Len(KeyOrder)
           /\ IsTree(Server, clock) /\ IsSrvTree(Server)
           /\ IsTree(Client, clock) /\ DOMAIN Client.files \subseteq Key
           /\ \A n \in DOMAIN Server.files : Server.files[n] \in Content
           /\ \A n \in DOMAIN Client.files : Client.files[n] \in Content
           /\ sm = scan_directory(Server) /\ cm = scan_directory(Client)
           /\ sm[At] \in ItemOrNone /\ cm[At] \in ItemOrNone
           /\ state[At] = None \/ \E c \in Content : state[At] = Entry(c)
           /\ plan[At] = build_sync_action(state[At], sm[At], cm[At])
<1>1. next \in 1..Len(KeyOrder) /\ Len(KeyOrder) \in Nat
  BY NamesAssumption DEF Ready
<1>2. At \in Key
  BY <1>1, KeyAt DEF At
<1>3. /\ IsTree(Server, clock) /\ IsSrvTree(Server)
      /\ IsTree(Client, clock) /\ DOMAIN Client.files \subseteq Key
  BY DEF Ready, NamesInv, Trees, Server, Client
<1>4. 1..clock \subseteq Content
  BY NamesAssumption DEF Ready, NamesInv, Trees, Content
<1>5. /\ \A n \in DOMAIN Server.files : Server.files[n] \in Content
      /\ \A n \in DOMAIN Client.files : Client.files[n] \in Content
  BY <1>3, <1>4 DEF IsTree
<1>6. /\ sm = scan_server_tree(Server) /\ cm = scan_directory(Client)
      /\ plan[At] = build_sync_action(state[At], sm[At], cm[At])
  BY <1>1 DEF Ready, NamesInv, Follows, At
<1>7. sm = scan_directory(Server)
  BY <1>3, <1>6, SameScans
<1>8. sm[At] \in ItemOrNone /\ cm[At] \in ItemOrNone
  BY <1>2, <1>5, <1>6, <1>7, Listing
<1>9. state[At] = None \/ \E c \in Content : state[At] = Entry(c)
  BY <1>2, <1>4 DEF Ready, NamesInv, Records
<1> QED
  BY <1>1, <1>2, <1>3, <1>5, <1>6, <1>7, <1>8, <1>9

LEMMA PlannedAt ==
    ASSUME CommonNames, Ready
    PROVE  /\ Active("download") => /\ Item = sm[At] /\ sm[At] # None
                                    /\ Outdated(state[At], cm[At], sm[At])
           /\ Active("upload") => /\ Item = cm[At] /\ cm[At] # None
                                  /\ Outdated(state[At], sm[At], cm[At])
           /\ Active("delete_local") => /\ sm[At] = None /\ cm[At] # None
                                        /\ Outdated(state[At], cm[At], sm[At])
           /\ Active("delete_remote") => /\ cm[At] = None /\ sm[At] # None
                                         /\ Outdated(state[At], sm[At], cm[At])
<1> DEFINE s == sm[At]
           c == cm[At]
           e == state[At]
<1>1. /\ s \in ItemOrNone /\ c \in ItemOrNone
      /\ e = None \/ \E x \in Content : e = Entry(x)
      /\ plan[At] = build_sync_action(e, s, c)
  BY ReadyFor
<1> HIDE DEF s, c, e
<1>2. /\ plan[At].kind = "download" => plan[At].item = s /\ s # None /\ Outdated(e, c, s)
      /\ plan[At].kind = "upload" => plan[At].item = c /\ c # None /\ Outdated(e, s, c)
      /\ plan[At].kind = "delete_local" => s = None /\ c # None /\ Outdated(e, c, s)
      /\ plan[At].kind = "delete_remote" => c = None /\ s # None /\ Outdated(e, s, c)
  BY <1>1, Decided
<1> QED
  BY <1>2 DEF Active, At, Item, s, c, e

\* Where a side is outdated it holds nothing, or what was recorded.
LEMMA OutdatedSide ==
    ASSUME NEW t, NEW v, NEW k \in Key,
           \A n \in DOMAIN t.files : t.files[n] \in Content,
           \A n \in DOMAIN v.files : v.files[n] \in Content,
           Outdated(state[k], scan_directory(t)[k], scan_directory(v)[k]), CliLists(k)
    PROVE  k \in DOMAIN t.files =>
             \E c \in Content : state[k] = Entry(c) /\ t.files[k] = c /\ ~Holds(v, k, c)
<1> SUFFICES ASSUME k \in DOMAIN t.files
             PROVE  \E c \in Content : state[k] = Entry(c) /\ t.files[k] = c /\ ~Holds(v, k, c)
  OBVIOUS
<1>1. scan_directory(t)[k] # None
  BY Listing
<1>2. PICK c \in Content : state[k] = Entry(c) /\ scan_directory(t)[k] = ItemOf(c)
  BY <1>1 DEF Outdated
<1>3. scan_directory(v)[k] # ItemOf(c)
  BY <1>2 DEF Outdated
<1>4. Holds(t, k, c) /\ ~Holds(v, k, c)
  BY <1>2, <1>3, Listing
<1> QED
  BY <1>2, <1>4 DEF Holds

\* A path with an item is listed.
LEMMA ListedItem ==
    ASSUME NEW t, NEW k \in Key, \A n \in DOMAIN t.files : t.files[n] \in Content,
           scan_directory(t)[k] # None
    PROVE  /\ CliLists(k) /\ k \in DOMAIN t.files
           /\ Holds(t, k, scan_directory(t)[k].crc)
<1>1. CliLists(k) /\ k \in DOMAIN t.files
  BY Listing
<1>2. PICK c \in Content : scan_directory(t)[k] = ItemOf(c)
  BY Listing DEF ItemOrNone
<1> QED
  BY <1>1, <1>2, Listing, SameItems

\* Once its item is known, a transfer alters the side it goes to; a deletion
\* alters the side where the file is.
LEMMA TransferAlters ==
    ASSUME NEW t, NEW v, NEW k \in Key,
           \A n \in DOMAIN t.files : t.files[n] \in Content,
           \A n \in DOMAIN v.files : v.files[n] \in Content,
           NEW item, item = scan_directory(v)[k], item # None,
           Outdated(state[k], scan_directory(t)[k], item)
    PROVE  /\ CliLists(k) /\ item.crc \in Content /\ item = ItemOf(item.crc)
           /\ Alters(t, PutFile(t, k, item.crc), v, k)
<1>1. CliLists(k) /\ Holds(v, k, item.crc)
  BY ListedItem
<1>2. item.crc \in Content /\ item = ItemOf(item.crc)
  <2>1. item \in ItemOrNone
    BY Listing
  <2> QED
    BY <2>1, SameItems DEF ItemOrNone
<1>3. k \in DOMAIN t.files =>
        \E c \in Content : state[k] = Entry(c) /\ t.files[k] = c /\ ~Holds(v, k, c)
  BY <1>1, OutdatedSide
<1> QED
  BY <1>1, <1>2, <1>3, PutFileHolds DEF Alters

LEMMA DeletionAlters ==
    ASSUME NEW t, NEW v, NEW k \in Key,
           \A n \in DOMAIN t.files : t.files[n] \in Content,
           \A n \in DOMAIN v.files : v.files[n] \in Content,
           scan_directory(t)[k] # None,
           Outdated(state[k], scan_directory(t)[k], scan_directory(v)[k])
    PROVE  CliLists(k) /\ Alters(t, DropFiles(t, {k}), v, k)
<1>1. CliLists(k)
  BY ListedItem
<1>2. k \in DOMAIN t.files =>
        \E c \in Content : state[k] = Entry(c) /\ t.files[k] = c /\ ~Holds(v, k, c)
  BY <1>1, OutdatedSide
<1> QED
  BY <1>1, <1>2, DropFilesHolds DEF Alters

Alteration ==
    /\ Ready /\ CliLists(At)
    /\ AltersClient(At) \/ AltersServer(At)
    /\ Advance

\* The manifests follow: the server's, and the client's.
Follow ==
    /\ sm' = scan_directory(srv'[srvRoot])
    /\ cm' = scan_directory(cli'[cliRoot])

\* Of what is listed only the path that was altered may change.
LEMMA ListedAfter ==
    ASSUME NEW t, NEW u, NEW v, NEW k \in Key, CliLists(k), Alters(t, u, v, k),
           NEW m, m = scan_directory(t)
    PROVE  /\ \A c : Holds(u, k, c) => scan_directory(u) = [m EXCEPT ![k] = ItemOf(c)]
           /\ k \notin DOMAIN u.files => scan_directory(u) = [m EXCEPT ![k] = None]
<1>1. \A j \in Key \ {k} : scan_directory(u)[j] = scan_directory(t)[j]
  BY DEF Alters, scan_directory
<1>2. /\ \A c : Holds(u, k, c) => scan_directory(u)[k] = ItemOf(c)
      /\ k \notin DOMAIN u.files => scan_directory(u)[k] = None
  BY DEF scan_directory, CliListed, Holds
<1>3. /\ m = [j \in Key |-> m[j]]
      /\ scan_directory(u) = [j \in Key |-> scan_directory(u)[j]]
  BY DEF scan_directory
<1> QED
  BY <1>1, <1>2, <1>3

LEMMA DownloadAlters ==
    ASSUME CommonNames, NamesInv, receive_download
    PROVE  Alteration /\ Follow
<1>1. Ready /\ Active("download")
  BY DEF receive_download, Active, Ready
<1>2. /\ Item = sm[At] /\ sm[At] # None /\ Outdated(state[At], cm[At], sm[At])
  BY <1>1, PlannedAt
<1>3. /\ cli'[cliRoot] = PutFile(Client, At, Item.crc)
      /\ cli' = [cli EXCEPT ![cliRoot] = cli'[cliRoot]]
      /\ UNCHANGED <<srv, sm>> /\ Advance /\ cm' = [cm EXCEPT ![At] = Item]
  BY DEF receive_download, NamesInv, Trees, Client
<1>4. /\ CliLists(At) /\ Item = ItemOf(Item.crc)
      /\ Alters(Client, cli'[cliRoot], Server, At)
  <2>1. /\ At \in Key
        /\ \A n \in DOMAIN Client.files : Client.files[n] \in Content
        /\ \A n \in DOMAIN Server.files : Server.files[n] \in Content
        /\ Item = scan_directory(Server)[At] /\ Item # None
        /\ Outdated(state[At], scan_directory(Client)[At], Item)
    BY <1>1, <1>2, ReadyFor
  <2>2. /\ CliLists(At) /\ Item = ItemOf(Item.crc)
        /\ Alters(Client, PutFile(Client, At, Item.crc), Server, At)
    BY <2>1, TransferAlters
  <2> QED
    BY <1>3, <2>2
<1>5. Alteration
  BY <1>1, <1>3, <1>4 DEF Alteration, AltersClient
<1>6. Holds(cli'[cliRoot], At, Item.crc)
  BY <1>3, PutFileHolds DEF Holds
<1>7. sm' = scan_directory(srv'[srvRoot])
  BY <1>1, <1>3, ReadyFor DEF Server
<1>8. cm' = scan_directory(cli'[cliRoot])
  <2>1. At \in Key /\ cm = scan_directory(Client)
    BY <1>1, ReadyFor
  <2>2. scan_directory(cli'[cliRoot]) = [cm EXCEPT ![At] = ItemOf(Item.crc)]
    BY <1>4, <1>6, <2>1, ListedAfter
  <2> QED
    BY <1>3, <1>4, <2>2
<1> QED
  BY <1>5, <1>7, <1>8 DEF Follow

LEMMA UploadAlters ==
    ASSUME CommonNames, NamesInv, receive_upload
    PROVE  Alteration /\ Follow
<1>1. Ready /\ Active("upload")
  BY DEF receive_upload, Active, Ready
<1>2. /\ Item = cm[At] /\ cm[At] # None /\ Outdated(state[At], sm[At], cm[At])
  BY <1>1, PlannedAt
<1>3. /\ srv'[srvRoot] = PutFile(Server, At, Item.crc)
      /\ srv' = [srv EXCEPT ![srvRoot] = srv'[srvRoot]]
      /\ UNCHANGED <<cli, cm>> /\ Advance /\ sm' = [sm EXCEPT ![At] = Item]
  BY DEF receive_upload, NamesInv, Trees, Server
<1>4. /\ CliLists(At) /\ Item = ItemOf(Item.crc)
      /\ Alters(Server, srv'[srvRoot], Client, At)
  <2>1. /\ At \in Key
        /\ \A n \in DOMAIN Server.files : Server.files[n] \in Content
        /\ \A n \in DOMAIN Client.files : Client.files[n] \in Content
        /\ Item = scan_directory(Client)[At] /\ Item # None
        /\ Outdated(state[At], scan_directory(Server)[At], Item)
    BY <1>1, <1>2, ReadyFor
  <2>2. /\ CliLists(At) /\ Item = ItemOf(Item.crc)
        /\ Alters(Server, PutFile(Server, At, Item.crc), Client, At)
    BY <2>1, TransferAlters
  <2> QED
    BY <1>3, <2>2
<1>5. Alteration
  BY <1>1, <1>3, <1>4 DEF Alteration, AltersServer
<1>6. Holds(srv'[srvRoot], At, Item.crc)
  BY <1>3, PutFileHolds DEF Holds
<1>7. cm' = scan_directory(cli'[cliRoot])
  BY <1>1, <1>3, ReadyFor DEF Client
<1>8. sm' = scan_directory(srv'[srvRoot])
  <2>1. At \in Key /\ sm = scan_directory(Server)
    BY <1>1, ReadyFor
  <2>2. scan_directory(srv'[srvRoot]) = [sm EXCEPT ![At] = ItemOf(Item.crc)]
    BY <1>4, <1>6, <2>1, ListedAfter
  <2> QED
    BY <1>3, <1>4, <2>2
<1> QED
  BY <1>5, <1>7, <1>8 DEF Follow

LEMMA DeleteRemoteAlters ==
    ASSUME CommonNames, NamesInv, delete_server_path
    PROVE  Alteration /\ Follow
<1>1. Ready /\ Active("delete_remote")
  BY DEF delete_server_path, Active, Ready
<1>2. /\ cm[At] = None /\ sm[At] # None /\ Outdated(state[At], sm[At], cm[At])
  BY <1>1, PlannedAt
<1>3. /\ srv'[srvRoot] = DropFiles(Server, {At})
      /\ srv' = [srv EXCEPT ![srvRoot] = srv'[srvRoot]]
      /\ UNCHANGED cli /\ Advance
      /\ sm' = [sm EXCEPT ![At] = None] /\ cm' = [cm EXCEPT ![At] = None]
  BY DEF delete_server_path, NamesInv, Trees, Server
<1>4. CliLists(At) /\ Alters(Server, srv'[srvRoot], Client, At)
  <2>1. /\ At \in Key
        /\ \A n \in DOMAIN Server.files : Server.files[n] \in Content
        /\ \A n \in DOMAIN Client.files : Client.files[n] \in Content
        /\ scan_directory(Server)[At] # None
        /\ Outdated(state[At], scan_directory(Server)[At], scan_directory(Client)[At])
    BY <1>1, <1>2, ReadyFor
  <2>2. CliLists(At) /\ Alters(Server, DropFiles(Server, {At}), Client, At)
    BY <2>1, DeletionAlters
  <2> QED
    BY <1>3, <2>2
<1>5. Alteration
  BY <1>1, <1>3, <1>4 DEF Alteration, AltersServer
<1>6. At \notin DOMAIN srv'[srvRoot].files
  BY <1>3, DropFilesHolds
<1>7. cm' = scan_directory(cli'[cliRoot])
  <2>1. cm = scan_directory(Client) /\ At \in Key
    BY <1>1, ReadyFor
  <2>2. [cm EXCEPT ![At] = None] = cm
    BY <1>2, <2>1 DEF scan_directory
  <2> QED
    BY <1>3, <2>1, <2>2 DEF Client, Advance
<1>8. sm' = scan_directory(srv'[srvRoot])
  <2>1. At \in Key /\ sm = scan_directory(Server)
    BY <1>1, ReadyFor
  <2>2. scan_directory(srv'[srvRoot]) = [sm EXCEPT ![At] = None]
    BY <1>4, <1>6, <2>1, ListedAfter
  <2> QED
    BY <1>3, <2>2
<1> QED
  BY <1>5, <1>7, <1>8 DEF Follow

LEMMA DeleteLocalAlters ==
    ASSUME CommonNames, NamesInv, delete_local
    PROVE  Alteration /\ Follow
<1>1. Ready /\ Active("delete_local")
  BY DEF delete_local, Active, Ready
<1>2. /\ sm[At] = None /\ cm[At] # None /\ Outdated(state[At], cm[At], sm[At])
  BY <1>1, PlannedAt
<1>3. /\ cli'[cliRoot] = DropFiles(Client, {At})
      /\ cli' = [cli EXCEPT ![cliRoot] = cli'[cliRoot]]
      /\ UNCHANGED <<srv, sm>> /\ Advance /\ cm' = [cm EXCEPT ![At] = None]
  BY DEF delete_local, NamesInv, Trees, Client
<1>4. CliLists(At) /\ Alters(Client, cli'[cliRoot], Server, At)
  <2>1. /\ At \in Key
        /\ \A n \in DOMAIN Client.files : Client.files[n] \in Content
        /\ \A n \in DOMAIN Server.files : Server.files[n] \in Content
        /\ scan_directory(Client)[At] # None
        /\ Outdated(state[At], scan_directory(Client)[At], scan_directory(Server)[At])
    BY <1>1, <1>2, ReadyFor
  <2>2. CliLists(At) /\ Alters(Client, DropFiles(Client, {At}), Server, At)
    BY <2>1, DeletionAlters
  <2> QED
    BY <1>3, <2>2
<1>5. Alteration
  BY <1>1, <1>3, <1>4 DEF Alteration, AltersClient
<1>6. At \notin DOMAIN cli'[cliRoot].files
  BY <1>3, DropFilesHolds
<1>7. sm' = scan_directory(srv'[srvRoot])
  BY <1>1, <1>3, ReadyFor DEF Server
<1>8. cm' = scan_directory(cli'[cliRoot])
  <2>1. At \in Key /\ cm = scan_directory(Client)
    BY <1>1, ReadyFor
  <2>2. scan_directory(cli'[cliRoot]) = [cm EXCEPT ![At] = None]
    BY <1>4, <1>6, <2>1, ListedAfter
  <2> QED
    BY <1>3, <2>2
<1> QED
  BY <1>5, <1>7, <1>8 DEF Follow

-----------------------------------------------------------------------------
(* The invariant is inductive: an alteration.                              *)

LEMMA AltersHolds ==
    ASSUME NEW t, NEW u, NEW v, NEW n, Alters(t, u, v, n), NEW m, NEW c
    PROVE  /\ m # n => (Holds(u, m, c) <=> Holds(t, m, c))
           /\ Holds(t, n, c) => state[n] = Entry(c) /\ ~Holds(v, n, c)
           /\ Holds(u, n, c) => Holds(v, n, c)
BY DEF Alters, Holds

LEMMA ContentOfTree ==
    ASSUME NamesInv, NEW r \in Root, NEW n, NEW c
    PROVE  /\ Holds(srv[r], n, c) => n \in SrvNames \union Key /\ c \in Content /\ c \in 1..clock
           /\ Holds(cli[r], n, c) => n \in Key /\ c \in Content /\ c \in 1..clock
<1>1. 1..clock \subseteq Content
  BY NamesAssumption DEF NamesInv, Trees, Content
<1>2. /\ \A m \in DOMAIN srv[r].files : srv[r].files[m] \in 1..clock
      /\ \A m \in DOMAIN cli[r].files : cli[r].files[m] \in 1..clock
      /\ DOMAIN srv[r].files \subseteq SrvNames \union Key
      /\ DOMAIN cli[r].files \subseteq Key
  BY DEF NamesInv, Trees, IsTree, IsSrvTree
<1> QED
  BY <1>1, <1>2 DEF Holds

\* The same for both sides: a folder that is altered stays a folder.
LEMMA AlteredTree ==
    ASSUME NEW t, NEW u, NEW v, NEW n, Alters(t, u, v, n), IsTree(t, clock), IsTree(v, clock)
    PROVE  /\ Shape(u) /\ DOMAIN u.files \subseteq DOMAIN t.files \union {n}
           /\ \A m \in DOMAIN u.files : u.files[m] \in 1..clock
BY DEF Alters, IsTree, Holds

LEMMA AlterationTrees ==
    ASSUME NamesInv, Alteration
    PROVE  Trees'
<1>1. /\ next \in 1..Len(KeyOrder) /\ At \in Key /\ CliLists(At)
      /\ UNCHANGED <<srvRoot, cliRoot, clock, switches, moves>>
  BY NamesAssumption, KeyAt DEF Alteration, Ready, Advance, history, At
<1>2. /\ srvRoot \in Root /\ cliRoot \in Root
      /\ IsTree(Server, clock) /\ IsTree(Client, clock)
  BY DEF NamesInv, Trees, Server, Client
<1>3. CASE AltersClient(At)
  <2>1. \A r \in Root \ {cliRoot} : cli'[r] = cli[r]
    BY <1>3 DEF AltersClient, NamesInv, Trees
  <2>2. IsTree(cli'[cliRoot], clock) /\ DOMAIN cli'[cliRoot].files \subseteq Key
    <3>1. Alters(Client, cli'[cliRoot], Server, At)
      BY <1>3 DEF AltersClient
    <3>2. DOMAIN Client.files \subseteq Key
      BY DEF NamesInv, Trees, Client
    <3> QED
      BY <1>1, <1>2, <3>1, <3>2, AlteredTree DEF IsTree
  <2>3. cli' = [r \in Root |-> cli'[r]]
    BY <1>3 DEF AltersClient, NamesInv, Trees
  <2> QED
    BY <1>1, <1>3, <2>1, <2>2, <2>3 DEF AltersClient, NamesInv, Trees
<1>4. CASE AltersServer(At)
  <2>1. \A r \in Root \ {srvRoot} : srv'[r] = srv[r]
    BY <1>4 DEF AltersServer, NamesInv, Trees
  <2>2. IsTree(srv'[srvRoot], clock) /\ IsSrvTree(srv'[srvRoot])
    <3>1. Alters(Server, srv'[srvRoot], Client, At)
      BY <1>4 DEF AltersServer
    <3>2. IsSrvTree(Server)
      BY DEF NamesInv, Trees, Server
    <3> QED
      BY <1>1, <1>2, <3>1, <3>2, AlteredTree DEF IsTree, IsSrvTree
  <2>3. srv' = [r \in Root |-> srv'[r]]
    BY <1>4 DEF AltersServer, NamesInv, Trees
  <2> QED
    BY <1>1, <1>4, <2>1, <2>2, <2>3 DEF AltersServer, NamesInv, Trees
<1> QED
  BY <1>3, <1>4 DEF Alteration

LEMMA NextTurn ==
    ASSUME next \in 1..Len(KeyOrder), Advance
    PROVE  /\ next' \in (next + 1)..(Len(KeyOrder) + 1) /\ next' # 0
           /\ \A i \in next'..Len(KeyOrder) :
                i \in next..Len(KeyOrder) /\ i \in 1..Len(KeyOrder) /\ KeyOrder[i] # At
<1>1. Len(KeyOrder) \in Nat /\ next + 1 \in 1..(Len(KeyOrder) + 1)
  BY NamesAssumption
<1>2. next' \in (next + 1)..(Len(KeyOrder) + 1)
  BY <1>1, TurnOf DEF Advance
<1>3. ASSUME NEW i \in next'..Len(KeyOrder)
      PROVE  i \in next..Len(KeyOrder) /\ i \in 1..Len(KeyOrder) /\ i # next
  BY <1>1, <1>2
<1> QED
  BY <1>1, <1>2, <1>3, KeyAt DEF At

\* What is left to do was planned for what the manifests say now.
LEMMA FollowsOn ==
    ASSUME CommonNames, Ready, Advance, Follow, Trees',
           \A k \in Key \ {At} : sm'[k] = sm[k] /\ cm'[k] = cm[k]
    PROVE  Follows'
<1>1. next \in 1..Len(KeyOrder)
  BY NamesAssumption DEF Ready
<1>2. UNCHANGED <<srvRoot, cliRoot, plan, state>>
  BY DEF Advance
<1>3. IsSrvTree(srv'[srvRoot])
  BY <1>2 DEF Trees, IsSrvTree
<1>4. sm' = scan_server_tree(srv'[srvRoot])
  BY <1>3, SameScans DEF Follow
<1>5. ASSUME NEW i \in next'..Len(KeyOrder)
      PROVE  plan'[KeyOrder[i]] = build_sync_action(state'[KeyOrder[i]], sm'[KeyOrder[i]],
                                                    cm'[KeyOrder[i]])
  <2>1. i \in next..Len(KeyOrder) /\ KeyOrder[i] \in Key \ {At}
    BY <1>1, <1>5, NextTurn, KeyAt
  <2>2. plan[KeyOrder[i]] = build_sync_action(state[KeyOrder[i]], sm[KeyOrder[i]],
                                              cm[KeyOrder[i]])
    BY <1>1, <2>1 DEF Ready, NamesInv, Follows
  <2> QED
    BY <1>2, <2>1, <2>2
<1>6. next' \in 1..(Len(KeyOrder) + 1)
  BY <1>1, NextTurn, NamesAssumption
<1>7. Server' = srv'[srvRoot] /\ Client' = cli'[cliRoot]
  BY <1>2 DEF Server, Client
<1> QED
  BY <1>4, <1>5, <1>6, <1>7 DEF Follows, Follow, scan_server_tree, scan_directory

\* Elsewhere the folders hold what they held; and no folder in use holds what
\* neither of the two did.
LEMMA HoldsAfter ==
    ASSUME NamesInv, Alteration, NEW k, NEW c
    PROVE  /\ \A r \in Root : r # srvRoot \/ k # At => (Holds(srv'[r], k, c) <=> Holds(srv[r], k, c))
           /\ \A r \in Root : r # cliRoot \/ k # At => (Holds(cli'[r], k, c) <=> Holds(cli[r], k, c))
           /\ Holds(srv'[srvRoot], k, c) \/ Holds(cli'[cliRoot], k, c)
                => Holds(Server, k, c) \/ Holds(Client, k, c)
           /\ Present(k, c) /\ k = At => FALSE
<1>1. srvRoot \in Root /\ cliRoot \in Root
  BY DEF NamesInv, Trees
<1>2. CASE AltersClient(At)
  <2>1. \A r \in Root \ {cliRoot} : cli'[r] = cli[r]
    BY <1>2 DEF AltersClient, NamesInv, Trees
  <2>2. /\ k # At => (Holds(cli'[cliRoot], k, c) <=> Holds(Client, k, c))
        /\ k = At /\ Holds(Client, k, c) => ~Holds(Server, k, c)
        /\ k = At /\ Holds(cli'[cliRoot], k, c) => Holds(Server, k, c)
    BY <1>2, AltersHolds DEF AltersClient
  <2> QED
    BY <1>1, <1>2, <2>1, <2>2 DEF AltersClient, Client, Server, Present
<1>3. CASE AltersServer(At)
  <2>1. \A r \in Root \ {srvRoot} : srv'[r] = srv[r]
    BY <1>3 DEF AltersServer, NamesInv, Trees
  <2>2. /\ k # At => (Holds(srv'[srvRoot], k, c) <=> Holds(Server, k, c))
        /\ k = At /\ Holds(Server, k, c) => ~Holds(Client, k, c)
        /\ k = At /\ Holds(srv'[srvRoot], k, c) => Holds(Client, k, c)
    BY <1>3, AltersHolds DEF AltersServer
  <2> QED
    BY <1>1, <1>3, <2>1, <2>2 DEF AltersServer, Client, Server, Present
<1> QED
  BY <1>2, <1>3 DEF Alteration

LEMMA AlterationKeeps ==
    ASSUME CommonNames, NamesInv, Alteration, Follow
    PROVE  NamesInv'
<1>1. /\ Ready /\ next \in 1..Len(KeyOrder) /\ Advance
      /\ UNCHANGED <<srvRoot, cliRoot, state, plan, clock, replaced, moves, broke>>
  BY NamesAssumption DEF Alteration, Ready, Advance, history
<1>2. Trees'
  BY AlterationTrees
<1>3. Records'
  BY <1>1 DEF NamesInv, Records
<1>4. Follows'
  <2>1. ASSUME NEW k \in Key \ {At} PROVE sm'[k] = sm[k] /\ cm'[k] = cm[k]
    <3>1. sm = scan_directory(Server) /\ cm = scan_directory(Client)
      BY <1>1, ReadyFor
    <3>2. /\ scan_directory(srv'[srvRoot])[k] = scan_directory(Server)[k]
          /\ scan_directory(cli'[cliRoot])[k] = scan_directory(Client)[k]
      <4>1. \A t, u, v : Alters(t, u, v, At) => scan_directory(u)[k] = scan_directory(t)[k]
        BY <2>1 DEF Alters, scan_directory
      <4> QED
        BY <4>1 DEF Alteration, AltersClient, AltersServer, Server, Client
    <3> QED
      BY <3>1, <3>2 DEF Follow
  <2> QED
    BY <1>1, <1>2, <2>1, FollowsOn
<1>5. Recorded'
  <2> SUFFICES ASSUME moves = 0, NEW k \in Key, NEW c \in Content, state[k] = Entry(c)
               PROVE  /\ c \in replaced \/ Present(k, c)'
                      /\ \A d \in Content :
                           Holds(srv'[srvRoot], k, d) \/ Holds(cli'[cliRoot], k, d) => c <= d
    BY <1>1 DEF Recorded, Server, Client
  <2>1. /\ c \in replaced \/ Present(k, c)
        /\ \A d \in Content : Holds(Server, k, d) \/ Holds(Client, k, d) => c <= d
    BY DEF NamesInv, Recorded
  <2>2. Present(k, c) => Present(k, c)'
    BY <1>1, HoldsAfter DEF Present, Server, Client, NamesInv, Trees
  <2>3. \A d \in Content : Holds(srv'[srvRoot], k, d) \/ Holds(cli'[cliRoot], k, d) => c <= d
    BY <2>1, HoldsAfter
  <2> QED
    BY <2>1, <2>2, <2>3
<1>6. Aside'
  <2> SUFFICES ASSUME moves = 1, NEW k \in Key, NEW c \in Content, state[k] = Entry(c)
               PROVE  c \in replaced \/ PutAside(k, c)'
    BY <1>1 DEF Aside
  <2>1. c \in replaced \/ PutAside(k, c)
    BY DEF NamesInv, Aside
  <2> QED
    BY <1>1, <2>1, HoldsAfter DEF PutAside
<1>7. Somewhere'
  <2> SUFFICES ASSUME ~broke, NEW k \in ToDo', NEW c \in Content, state[k] = Entry(c)
               PROVE  c \in replaced \/ OnBothSides(k, c)'
    BY <1>1 DEF Somewhere
  <2>1. k \in ToDo /\ k # At
    BY <1>1, NextTurn DEF ToDo
  <2>2. c \in replaced \/ OnBothSides(k, c)
    BY <2>1 DEF NamesInv, Somewhere
  <2> QED
    BY <2>1, <2>2, HoldsAfter DEF OnBothSides
<1> QED
  BY <1>2, <1>3, <1>4, <1>5, <1>6, <1>7 DEF NamesInv

-----------------------------------------------------------------------------
(* The invariant is inductive: the other steps of a session.               *)

LEMMA InitInv ==
    ASSUME Init
    PROVE  NamesInv
<1>1. MaxEdits \in Nat
  BY NamesAssumption
<1>2. \A r \in Root : srv[r] = EmptyTree /\ cli[r] = EmptyTree
  BY DEF Init
<1>3. /\ Shape(EmptyTree) /\ DOMAIN EmptyTree.files = {}
  BY DEF EmptyTree, Shape
<1>4. Trees
  BY <1>1, <1>2, <1>3 DEF Init, Trees, IsTree, IsSrvTree
<1>5. \A k \in Key : state[k] = None
  BY DEF Init, Nothing
<1>6. \A c \in Content : None # Entry(c)
  BY NoneAssumption
<1>7. Records /\ Recorded /\ Aside /\ Somewhere
  BY <1>5, <1>6 DEF Init, Records, Recorded, Aside, Somewhere, ToDo
<1>8. Follows
  BY DEF Init, Follows
<1> QED
  BY <1>4, <1>7, <1>8 DEF NamesInv

\* Where neither folders nor what is recorded changes, all but what is said of
\* the session stays.
Still == UNCHANGED <<srv, cli, srvRoot, cliRoot, state, clock, switches, replaced, moves>>

LEMMA StillKeeps ==
    ASSUME NamesInv, Still
    PROVE  Trees' /\ Records' /\ Recorded' /\ Aside'
<1>1. Trees'
  BY DEF NamesInv, Trees, Still
<1>2. Records'
  BY DEF NamesInv, Records, Still
<1>3. Recorded'
  BY DEF NamesInv, Recorded, Present, Server, Client, Still
<1>4. Aside'
  BY DEF NamesInv, Aside, PutAside, Still
<1> QED
  BY <1>1, <1>2, <1>3, <1>4

LEMMA LessToDo ==
    ASSUME NamesInv, Still, broke' \/ (broke' = broke /\ ToDo' \subseteq ToDo)
    PROVE  Somewhere'
<1>1. CASE broke'
  BY <1>1 DEF Somewhere
<1>2. CASE broke' = broke /\ ToDo' \subseteq ToDo
  BY <1>2 DEF NamesInv, Somewhere, OnBothSides, Still
<1> QED
  BY <1>1, <1>2

LEMMA SkipKeeps ==
    ASSUME CommonNames, NamesInv, Skip
    PROVE  NamesInv'
<1>1. /\ Ready /\ next \in 1..Len(KeyOrder) /\ Advance
      /\ UNCHANGED <<srv, cli, sm, cm>>
  BY NamesAssumption DEF Skip, Active, Ready
<1>2. Still /\ UNCHANGED broke
  BY <1>1 DEF Still, Advance, history
<1>3. Follow
  BY <1>1, <1>2, ReadyFor DEF Follow, Still, Server, Client
<1>4. Follows'
  BY <1>1, <1>2, <1>3, FollowsOn, StillKeeps
<1>5. ToDo' \subseteq ToDo
  BY <1>1, NextTurn DEF ToDo
<1> QED
  BY <1>2, <1>4, <1>5, StillKeeps, LessToDo DEF NamesInv

LEMMA BeginKeeps ==
    ASSUME NamesInv, Begin
    PROVE  NamesInv'
<1>1. Still /\ UNCHANGED broke /\ next = 0
  BY DEF Still, Begin, history
<1>2. 1 \in 1..(Len(KeyOrder) + 1) /\ Len(KeyOrder) \in Nat
  BY NamesAssumption
<1>3. next' \in 1..(Len(KeyOrder) + 1)
  BY <1>2, TurnOf DEF Begin
<1>4. \A i \in next'..Len(KeyOrder) : i \in 1..Len(KeyOrder)
  BY <1>2, <1>3
<1>5. Follows'
  <2>1. ASSUME NEW i \in next'..Len(KeyOrder)
        PROVE  plan'[KeyOrder[i]] = build_sync_action(state'[KeyOrder[i]], sm'[KeyOrder[i]],
                                                      cm'[KeyOrder[i]])
    <3>1. KeyOrder[i] \in Key
      BY <1>4, KeyAt
    <3> QED
      BY <1>1, <3>1 DEF Begin, Plan, Still
  <2>2. sm' = scan_server_tree(Server') /\ cm' = scan_directory(Client')
    BY <1>1 DEF Begin, Still, Server, Client
  <2> QED
    BY <1>3, <2>1, <2>2 DEF Follows, scan_server_tree, scan_directory
<1>6. ToDo' \subseteq ToDo
  BY <1>1, <1>2, <1>3, <1>4, KeyAt DEF ToDo
<1> QED
  BY <1>1, <1>5, <1>6, StillKeeps, LessToDo DEF NamesInv

LEMMA FailKeeps ==
    ASSUME NamesInv, Fail
    PROVE  NamesInv'
<1>1. Still /\ broke' /\ next' = 0
  BY DEF Fail, Break, Still
<1> QED
  BY <1>1, StillKeeps, LessToDo DEF NamesInv, Follows

\* What a session records both sides have then, and nothing else.
LEMMA FinishKeeps ==
    ASSUME CommonNames, NamesInv, Finish
    PROVE  NamesInv'
<1>1. /\ UNCHANGED <<srv, cli, srvRoot, cliRoot, clock, switches, replaced>>
      /\ next' = 0 /\ moves' = 0 /\ broke' = FALSE
      /\ next # 0
  BY NamesAssumption DEF Finish
<1>2. /\ srvRoot \in Root /\ cliRoot \in Root
      /\ IsSrvTree(Server) /\ 1..clock \subseteq Content
      /\ \A n \in DOMAIN Server.files : Server.files[n] \in 1..clock
      /\ \A n \in DOMAIN Client.files : Client.files[n] \in 1..clock
  BY NamesAssumption DEF NamesInv, Trees, IsTree, Server, Client, Content
<1>3. sm = scan_directory(Server) /\ cm = scan_directory(Client)
  <2>1. sm = scan_server_tree(Server) /\ cm = scan_directory(Client)
    BY <1>1 DEF NamesInv, Follows
  <2> QED
    BY <1>2, <2>1, SameScans
<1>4. ASSUME NEW k \in Key
      PROVE  \/ state'[k] = None
             \/ \E x \in 1..clock : /\ state'[k] = Entry(x) /\ CliLists(k)
                                    /\ Holds(Server, k, x) /\ Holds(Client, k, x)
  <2>1. sm[k] \in ItemOrNone /\ cm[k] \in ItemOrNone
    BY <1>2, <1>3, Listing
  <2>2. state'[k] = build_state_entry(sm[k], cm[k])
    BY DEF Finish
  <2>3. CASE state'[k] # None
    <3>1. PICK x \in Content : /\ sm[k] = ItemOf(x) /\ cm[k] = ItemOf(x)
                               /\ state'[k] = Entry(x)
      BY <2>1, <2>2, <2>3, RecordedByBoth
    <3>2. Holds(Server, k, x) /\ Holds(Client, k, x) /\ CliLists(k)
      BY <1>2, <1>3, <3>1, Listing
    <3> QED
      BY <1>2, <3>1, <3>2 DEF Holds
  <2> QED
    BY <2>3
<1>5. \A c \in Content : Entry(c) # None
  BY NoneAssumption
<1>6. ASSUME NEW k \in Key, NEW c \in Content, state'[k] = Entry(c)
      PROVE  Holds(Server, k, c) /\ Holds(Client, k, c)
  BY <1>4, <1>5, <1>6, SameItems
<1>7. Server' = Server /\ Client' = Client
  BY <1>1 DEF Server, Client
<1>8. Trees'
  BY <1>1 DEF NamesInv, Trees
<1>9. Records'
  BY <1>1, <1>4 DEF Records
<1>10. Recorded'
  <2> SUFFICES ASSUME NEW k \in Key, NEW c \in Content, state'[k] = Entry(c)
               PROVE  /\ Present(k, c)'
                      /\ \A d \in Content : Holds(Server, k, d) \/ Holds(Client, k, d) => c <= d
    BY <1>1, <1>7 DEF Recorded
  <2>1. Holds(Server, k, c) /\ Holds(Client, k, c)
    BY <1>6
  <2> QED
    BY <1>7, <2>1 DEF Present, Holds, Content
<1>11. Aside'
  BY <1>1 DEF Aside
<1>12. Somewhere'
  <2>1. ToDo' = Key
    BY <1>1 DEF ToDo
  <2> QED
    BY <1>1, <1>2, <1>6, <2>1 DEF Somewhere, OnBothSides, Server, Client
<1>13. Follows'
  BY <1>1 DEF Follows
<1> QED
  BY <1>8, <1>9, <1>10, <1>11, <1>12, <1>13 DEF NamesInv

-----------------------------------------------------------------------------
(* The invariant is inductive: the users.                                  *)

\* What a user leaves of folder t: a content that is gone counts as replaced,
\* and the only one that is new is newer than all before.
Edited(t, u, names) ==
    /\ Shape(u)
    /\ \A n \in DOMAIN t.files : Holds(u, n, t.files[n]) \/ t.files[n] \in replaced'
    /\ \A n \in DOMAIN u.files :
         \/ Holds(t, n, u.files[n])
         \/ n \in names /\ u.files[n] = clock' /\ clock' = clock + 1

Edits ==
    /\ next = 0
    /\ UNCHANGED <<srvRoot, cliRoot, state, session, switches, moves, broke>>
    /\ clock' \in {clock, clock + 1} /\ clock' \in 0..MaxEdits
    /\ replaced \subseteq replaced'
    /\ srv' = [r \in Root |-> srv'[r]] /\ cli' = [r \in Root |-> cli'[r]]
    /\ \A r \in Root : /\ Edited(srv[r], srv'[r], SrvNames)
                       /\ Edited(cli[r], cli'[r], CliNames)

LEMMA UnEdited ==
    ASSUME NEW t, Shape(t), NEW names
    PROVE  Edited(t, t, names)
BY DEF Edited, Holds

LEMMA WriteEdits ==
    ASSUME NamesInv, NEW t, IsTree(t, clock), NEW n, NEW names, n \in names, Write(t, n)
    PROVE  /\ Edited(t, PutFile(t, n, clock'), names)
           /\ clock' = clock + 1 /\ clock' \in 0..MaxEdits /\ replaced \subseteq replaced'
<1>1. clock \in 0..MaxEdits /\ 1..clock \subseteq Content
  BY NamesAssumption DEF NamesInv, Trees, Content
<1>2. /\ clock' = clock + 1 /\ clock < MaxEdits
      /\ replaced' = replaced \union {c \in Content : Holds(t, n, c)}
  BY DEF Write
<1>3. clock' \in 0..MaxEdits
  BY <1>1, <1>2, NamesAssumption
<1>4. ASSUME NEW m \in DOMAIN t.files
      PROVE  Holds(PutFile(t, n, clock'), m, t.files[m]) \/ t.files[m] \in replaced'
  <2>1. t.files[m] \in Content
    BY <1>1 DEF IsTree
  <2>2. CASE m = n
    BY <1>2, <2>1, <2>2 DEF Holds
  <2>3. CASE m # n
    BY <2>3, PutFileHolds DEF Holds
  <2> QED
    BY <2>2, <2>3
<1>5. Edited(t, PutFile(t, n, clock'), names)
  BY <1>2, <1>4, PutFileHolds DEF Edited, Holds
<1> QED
  BY <1>2, <1>3, <1>5

LEMMA DeleteEdits ==
    ASSUME NEW t, NEW u, NEW ns, NEW names, Delete(t, ns), Shape(u),
           u.files = DropFiles(t, ns).files
    PROVE  Edited(t, u, names) /\ replaced \subseteq replaced' /\ UNCHANGED clock
<1>1. replaced' = replaced \union {t.files[n] : n \in ns} /\ UNCHANGED clock
  BY DEF Delete
<1> QED
  BY <1>1, DropFilesHolds DEF Edited, Holds

LEMMA SrvUserEdits ==
    ASSUME NamesInv, NEW r \in Root, SrvUser(r)
    PROVE  Edits
<1> DEFINE t == srv[r]
<1>1. /\ UNCHANGED <<cli, srvRoot, cliRoot, state, session, switches, moves, broke>>
      /\ next = 0
  BY DEF SrvUser, Write, Delete
<1>2. /\ IsTree(t, clock) /\ clock \in 0..MaxEdits /\ srv = [q \in Root |-> srv[q]]
      /\ cli = [q \in Root |-> cli[q]]
      /\ \A q \in Root : Shape(srv[q]) /\ Shape(cli[q])
  BY DEF NamesInv, Trees, IsTree
<1>3. \E u : /\ srv' = [srv EXCEPT ![r] = u] /\ Edited(t, u, SrvNames)
             /\ clock' \in {clock, clock + 1} /\ clock' \in 0..MaxEdits
             /\ replaced \subseteq replaced'
  <2>1. ASSUME NEW n \in SrvNames, Write(t, n), srv' = [srv EXCEPT ![r] = PutFile(@, n, clock')]
        PROVE  <1>3!:
    BY <1>2, <2>1, WriteEdits
  <2>2. ASSUME NEW n \in DOMAIN t.files, Delete(t, {n}),
               srv' = [srv EXCEPT ![r] = DropFiles(@, {n})]
        PROVE  <1>3!:
    BY <1>2, <2>2, DeleteEdits, DropFilesHolds
  <2>3. ASSUME NEW d \in t.dirs, Delete(t, Below(t, d)), srv' = [srv EXCEPT ![r] = DropDir(@, d)]
        PROVE  <1>3!:
    BY <1>2, <2>3, DeleteEdits, DropDirHolds
  <2> QED
    BY <2>1, <2>2, <2>3 DEF SrvUser
<1>4. PICK u : /\ srv' = [srv EXCEPT ![r] = u] /\ Edited(t, u, SrvNames)
               /\ clock' \in {clock, clock + 1} /\ clock' \in 0..MaxEdits
               /\ replaced \subseteq replaced'
  BY <1>3
<1>5. \A q \in Root : Edited(srv[q], srv'[q], SrvNames) /\ Edited(cli[q], cli'[q], CliNames)
  BY <1>1, <1>2, <1>4, UnEdited
<1>6. srv' = [q \in Root |-> srv'[q]] /\ cli' = [q \in Root |-> cli'[q]]
  BY <1>1, <1>2, <1>4
<1> QED
  BY <1>1, <1>4, <1>5, <1>6 DEF Edits

LEMMA CliUserEdits ==
    ASSUME NamesInv, NEW r \in Root, CliUser(r)
    PROVE  Edits
<1> DEFINE t == cli[r]
<1>1. /\ UNCHANGED <<srv, srvRoot, cliRoot, state, session, switches, moves, broke>>
      /\ next = 0
  BY DEF CliUser, Write, Delete
<1>2. /\ IsTree(t, clock) /\ clock \in 0..MaxEdits /\ srv = [q \in Root |-> srv[q]]
      /\ cli = [q \in Root |-> cli[q]]
      /\ \A q \in Root : Shape(srv[q]) /\ Shape(cli[q])
  BY DEF NamesInv, Trees, IsTree
<1>3. \E u : /\ cli' = [cli EXCEPT ![r] = u] /\ Edited(t, u, CliNames)
             /\ clock' \in {clock, clock + 1} /\ clock' \in 0..MaxEdits
             /\ replaced \subseteq replaced'
  <2>1. ASSUME NEW n \in CliNames, Write(t, n), cli' = [cli EXCEPT ![r] = PutFile(@, n, clock')]
        PROVE  <1>3!:
    BY <1>2, <2>1, WriteEdits
  <2>2. ASSUME NEW n \in DOMAIN t.files, Delete(t, {n}),
               cli' = [cli EXCEPT ![r] = DropFiles(@, {n})]
        PROVE  <1>3!:
    BY <1>2, <2>2, DeleteEdits, DropFilesHolds
  <2>3. ASSUME NEW d \in t.dirs, Delete(t, Below(t, d)), cli' = [cli EXCEPT ![r] = DropDir(@, d)]
        PROVE  <1>3!:
    BY <1>2, <2>3, DeleteEdits, DropDirHolds
  <2>4. ASSUME NEW n \in DOMAIN t.files, cli' = [cli EXCEPT ![r] = Protect(@, n)],
               UNCHANGED <<clock, replaced>>
        PROVE  <1>3!:
    <3>1. Edited(t, Protect(t, n), CliNames)
      BY <1>2 DEF Edited, Protect, Shape, Holds
    <3> QED
      BY <1>2, <2>4, <3>1
  <2> QED
    BY <2>1, <2>2, <2>3, <2>4 DEF CliUser
<1>4. PICK u : /\ cli' = [cli EXCEPT ![r] = u] /\ Edited(t, u, CliNames)
               /\ clock' \in {clock, clock + 1} /\ clock' \in 0..MaxEdits
               /\ replaced \subseteq replaced'
  BY <1>3
<1>5. \A q \in Root : Edited(srv[q], srv'[q], SrvNames) /\ Edited(cli[q], cli'[q], CliNames)
  BY <1>1, <1>2, <1>4, UnEdited
<1>6. srv' = [q \in Root |-> srv'[q]] /\ cli' = [q \in Root |-> cli'[q]]
  BY <1>1, <1>2, <1>4
<1> QED
  BY <1>1, <1>4, <1>5, <1>6 DEF Edits

LEMMA EditedHolds ==
    ASSUME NEW t, NEW u, NEW names, Edited(t, u, names), NEW n, NEW c
    PROVE  /\ Holds(t, n, c) => Holds(u, n, c) \/ c \in replaced'
           /\ Holds(u, n, c) => \/ Holds(t, n, c)
                                \/ n \in names /\ c = clock' /\ clock' = clock + 1
BY DEF Edited, Holds

LEMMA EditsKeep ==
    ASSUME CommonNames, NamesInv, Edits
    PROVE  NamesInv'
<1>1. /\ next = 0 /\ replaced \subseteq replaced'
      /\ UNCHANGED <<srvRoot, cliRoot, state, next, switches, moves, broke>>
  BY DEF Edits, session
<1>2. /\ clock \in 0..MaxEdits /\ clock' \in 0..MaxEdits /\ clock' \in {clock, clock + 1}
      /\ srvRoot \in Root /\ cliRoot \in Root /\ MaxEdits \in Nat
  BY NamesAssumption DEF Edits, NamesInv, Trees
<1>3. 1..clock \subseteq 1..clock' /\ (clock' = clock + 1 => clock' \in 1..clock')
  BY <1>2
<1>4. ASSUME NEW r \in Root
      PROVE  /\ IsTree(srv'[r], clock') /\ IsSrvTree(srv'[r])
             /\ IsTree(cli'[r], clock') /\ DOMAIN cli'[r].files \subseteq Key
  <2>1. /\ IsTree(srv[r], clock) /\ IsSrvTree(srv[r]) /\ Edited(srv[r], srv'[r], SrvNames)
        /\ IsTree(cli[r], clock) /\ DOMAIN cli[r].files \subseteq Key
        /\ Edited(cli[r], cli'[r], CliNames)
    BY DEF Edits, NamesInv, Trees
  <2>2. \A t, u, names : IsTree(t, clock) /\ Edited(t, u, names) => IsTree(u, clock')
    BY <1>3 DEF IsTree, Edited, Holds
  <2>3. IsSrvTree(srv'[r])
    BY <2>1 DEF IsSrvTree, Edited, Holds, CommonNames
  <2>4. DOMAIN cli'[r].files \subseteq Key
    BY <2>1, NamesAssumption DEF Edited, Holds
  <2> QED
    BY <2>1, <2>2, <2>3, <2>4
<1>5. Trees'
  BY <1>1, <1>2, <1>4 DEF Edits, NamesInv, Trees
<1>6. Records'
  BY <1>1, <1>3 DEF NamesInv, Records
<1>7. Follows'
  BY <1>1 DEF Follows
<1>8. ASSUME NEW r \in Root, NEW k, NEW c
      PROVE  /\ Holds(srv[r], k, c) => Holds(srv'[r], k, c) \/ c \in replaced'
             /\ Holds(cli[r], k, c) => Holds(cli'[r], k, c) \/ c \in replaced'
             /\ Holds(srv'[r], k, c) => Holds(srv[r], k, c) \/ (c = clock' /\ clock' = clock + 1)
             /\ Holds(cli'[r], k, c) => Holds(cli[r], k, c) \/ (c = clock' /\ clock' = clock + 1)
  <2>1. Edited(srv[r], srv'[r], SrvNames) /\ Edited(cli[r], cli'[r], CliNames)
    BY DEF Edits
  <2> QED
    BY <2>1, EditedHolds
<1>9. Recorded'
  <2> SUFFICES ASSUME moves = 0, NEW k \in Key, NEW c \in Content, state[k] = Entry(c)
               PROVE  /\ c \in replaced' \/ Present(k, c)'
                      /\ \A d \in Content :
                           Holds(srv'[srvRoot], k, d) \/ Holds(cli'[cliRoot], k, d) => c <= d
    BY <1>1 DEF Recorded, Server, Client
  <2>1. /\ c \in replaced \/ Present(k, c)
        /\ \A d \in Content : Holds(Server, k, d) \/ Holds(Client, k, d) => c <= d
    BY DEF NamesInv, Recorded
  <2>2. c \in replaced' \/ Present(k, c)'
    BY <1>1, <1>2, <1>8, <2>1 DEF Present, Server, Client
  <2>3. c <= clock
    <3>1. PICK d \in 1..clock : state[k] = Entry(d)
      BY NoneAssumption DEF NamesInv, Records
    <3>2. d = c
      BY <3>1, SameItems
    <3> QED
      BY <3>1, <3>2
  <2>4. ASSUME NEW d \in Content, Holds(srv'[srvRoot], k, d) \/ Holds(cli'[cliRoot], k, d)
        PROVE  c <= d
    <3>1. CASE Holds(Server, k, d) \/ Holds(Client, k, d)
      BY <2>1, <3>1
    <3>2. CASE d = clock' /\ clock' = clock + 1
      BY <1>2, <2>3, <3>2 DEF Content
    <3> QED
      BY <1>2, <1>8, <2>4, <3>1, <3>2 DEF Server, Client
  <2> QED
    BY <2>2, <2>4
<1>10. Aside'
  <2> SUFFICES ASSUME moves = 1, NEW k \in Key, NEW c \in Content, state[k] = Entry(c)
               PROVE  c \in replaced' \/ PutAside(k, c)'
    BY <1>1 DEF Aside
  <2>1. c \in replaced \/ PutAside(k, c)
    BY DEF NamesInv, Aside
  <2> QED
    BY <1>1, <1>8, <2>1 DEF PutAside
<1>11. Somewhere'
  <2> SUFFICES ASSUME ~broke, NEW k \in ToDo, NEW c \in Content, state[k] = Entry(c)
               PROVE  c \in replaced' \/ OnBothSides(k, c)'
    BY <1>1 DEF Somewhere, ToDo
  <2>1. c \in replaced \/ OnBothSides(k, c)
    BY DEF NamesInv, Somewhere
  <2> QED
    BY <1>1, <1>8, <2>1 DEF OnBothSides
<1> QED
  BY <1>5, <1>6, <1>7, <1>9, <1>10, <1>11 DEF NamesInv

LEMMA SwitchKeeps ==
    ASSUME NamesInv, Switch
    PROVE  NamesInv'
<1>1. /\ next = 0 /\ moves' = moves + 1 /\ switches' = switches + 1
      /\ UNCHANGED <<srv, cli, state, next, clock, replaced, broke>>
      /\ \/ srvRoot' \in Root \ {srvRoot} /\ UNCHANGED cliRoot
         \/ cliRoot' \in Root \ {cliRoot} /\ UNCHANGED srvRoot
  BY DEF Switch, session
<1>2. moves \in Nat /\ switches \in Nat /\ srvRoot \in Root /\ cliRoot \in Root
  BY DEF NamesInv, Trees
<1>3. Trees'
  BY <1>1, <1>2 DEF NamesInv, Trees
<1>4. Records' /\ Follows' /\ Somewhere'
  BY <1>1 DEF NamesInv, Records, Follows, Somewhere, OnBothSides, ToDo
<1>5. Recorded'
  BY <1>1, <1>2 DEF Recorded
<1>6. Aside'
  <2> SUFFICES ASSUME moves = 0, NEW k \in Key, NEW c \in Content, state[k] = Entry(c)
               PROVE  c \in replaced \/ PutAside(k, c)'
    BY <1>1, <1>2 DEF Aside
  <2>1. c \in replaced \/ (Holds(srv[srvRoot], k, c) /\ Holds(cli[cliRoot], k, c))
    BY DEF NamesInv, Recorded, Present, Server, Client
  <2> QED
    BY <1>1, <1>2, <2>1 DEF PutAside
<1> QED
  BY <1>3, <1>4, <1>5, <1>6 DEF NamesInv

LEMMA SessionKinds ==
    ASSUME CommonNames, NamesInv, Session
    PROVE  \/ Alteration /\ Follow
           \/ Begin \/ Skip \/ Fail \/ Finish
BY DownloadAlters, UploadAlters, DeleteRemoteAlters, DeleteLocalAlters DEF Session

\* What is recorded has an origin on both sides, and a session acts on the
\* folders as they are.
THEOREM NamesInvariant ==
    ASSUME CommonNames
    PROVE  Spec => []NamesInv
<1>1. Init => NamesInv
  BY InitInv
<1>2. ASSUME NamesInv, [Next]_vars PROVE NamesInv'
  <2>1. CASE Session
    BY <1>2, <2>1, SessionKinds, AlterationKeeps, BeginKeeps, SkipKeeps, FailKeeps, FinishKeeps
  <2>2. CASE \E r \in Root : SrvUser(r) \/ CliUser(r)
    BY <1>2, <2>2, SrvUserEdits, CliUserEdits, EditsKeep
  <2>3. CASE Switch
    BY <1>2, <2>3, SwitchKeeps
  <2>4. CASE UNCHANGED vars
    <3>1. Still /\ UNCHANGED <<next, sm, cm, plan, broke>>
      BY <2>4 DEF vars, session, history, Still
    <3>2. Follows'
      BY <1>2, <3>1 DEF NamesInv, Follows, Still, Server, Client, scan_server_tree, scan_directory
    <3>3. Somewhere'
      BY <1>2, <3>1, LessToDo DEF ToDo
    <3> QED
      BY <1>2, <3>1, <3>2, <3>3, StillKeeps DEF NamesInv
  <2> QED
    BY <1>2, <2>1, <2>2, <2>3, <2>4 DEF Next
<1> QED
  BY <1>1, <1>2, PTL DEF Spec

-----------------------------------------------------------------------------
(* What a step of a session takes away.                                    *)

\* A step that leaves users and settings alone alters one path of one folder,
\* or takes nothing from a folder, or only what had a copy taken away before.
LEMMA QuietStep ==
    ASSUME CommonNames, NamesInv, [Next]_vars, InSession
    PROVE  \/ Alteration
           \/ \A r \in Root : \A n, c :
                /\ Holds(srv[r], n, c) => Holds(srv'[r], n, c) \/ c \in replaced
                /\ Holds(cli[r], n, c) => Holds(cli'[r], n, c) \/ c \in replaced
                /\ Holds(srv'[r], n, c) => Holds(srv[r], n, c)
                /\ Holds(cli'[r], n, c) => Holds(cli[r], n, c)
<1> USE DEF InSession
<1>1. CASE UNCHANGED <<srv, cli>>
  BY <1>1
<1>2. CASE Session
  <2>1. Begin \/ Skip \/ Fail \/ Finish => UNCHANGED <<srv, cli>>
    BY DEF Begin, Skip, Fail, Break, Finish
  <2> QED
    BY <1>1, <1>2, <2>1, SessionKinds
<1>3. CASE \E r \in Root : SrvUser(r) \/ CliUser(r)
  <2>1. Edits
    BY <1>3, SrvUserEdits, CliUserEdits
  <2>2. clock' # clock + 1
    BY DEF NamesInv, Trees
  <2>3. ASSUME NEW r \in Root
        PROVE  Edited(srv[r], srv'[r], SrvNames) /\ Edited(cli[r], cli'[r], CliNames)
    BY <2>1 DEF Edits
  <2> QED
    BY <2>2, <2>3, EditedHolds
<1>4. CASE Switch
  BY <1>1, <1>4 DEF Switch
<1>5. CASE UNCHANGED vars
  BY <1>1, <1>5 DEF vars
<1> QED
  BY <1>2, <1>3, <1>4, <1>5 DEF Next

\* What an alteration takes away was recorded, and the other side of the
\* session has lost it; what it puts in its place is there.
LEMMA TakenAway ==
    ASSUME NamesInv, Alteration, NEW r \in Root, NEW n, NEW c,
           \/ Holds(srv[r], n, c) /\ ~Holds(srv'[r], n, c)
           \/ Holds(cli[r], n, c) /\ ~Holds(cli'[r], n, c)
    PROVE  /\ n = At /\ n \in Key /\ n \in ToDo /\ c \in Content /\ state[n] = Entry(c)
           /\ ~Present(n, c)
<1>1. /\ next \in 1..Len(KeyOrder) /\ Len(KeyOrder) \in Nat
  BY NamesAssumption DEF Alteration, Ready
<1>2. At \in Key /\ At \in ToDo
  BY <1>1, KeyAt DEF At, ToDo
<1>3. n = At /\ c \in Content
  BY HoldsAfter, ContentOfTree
<1>4. state[At] = Entry(c)
  <2>1. CASE AltersClient(At)
    <3>1. r = cliRoot /\ Holds(Client, At, c)
      BY <1>3, <2>1, HoldsAfter DEF AltersClient, Client
    <3> QED
      BY <2>1, <3>1, AltersHolds DEF AltersClient
  <2>2. CASE AltersServer(At)
    <3>1. r = srvRoot /\ Holds(Server, At, c)
      BY <1>3, <2>2, HoldsAfter DEF AltersServer, Server
    <3> QED
      BY <2>2, <3>1, AltersHolds DEF AltersServer
  <2> QED
    BY <2>1, <2>2 DEF Alteration
<1>5. ~Present(n, c)
  BY <1>3, HoldsAfter
<1> QED
  BY <1>2, <1>3, <1>4, <1>5

\* A session replaces only what a user has replaced: for every number of
\* folders, paths, edits and changes of a folder.
THEOREM SessionsReplaceForCause ==
    ASSUME CommonNames
    PROVE  Spec => OnlyUsersReplace
<1>1. ASSUME NamesInv, [Next]_vars, InSession, moves = 0, NEW r \in Root
      PROVE  /\ \A n \in Gone(srv[r], srv'[r]) : srv[r].files[n] \in replaced
             /\ \A n \in Gone(cli[r], cli'[r]) : cli[r].files[n] \in replaced
  <2>1. ASSUME NEW n, NEW c, \/ Holds(srv[r], n, c) /\ ~Holds(srv'[r], n, c)
                             \/ Holds(cli[r], n, c) /\ ~Holds(cli'[r], n, c)
        PROVE  c \in replaced
    <3>1. CASE Alteration
      <4>1. n \in Key /\ c \in Content /\ state[n] = Entry(c) /\ ~Present(n, c)
        BY <1>1, <2>1, <3>1, TakenAway
      <4> QED
        BY <1>1, <4>1 DEF NamesInv, Recorded
    <3>2. CASE ~Alteration
      BY <1>1, <2>1, <3>2, QuietStep
    <3> QED
      BY <3>1, <3>2
  <2> QED
    BY <2>1 DEF Gone, Holds
<1>2. NamesInv /\ [Next]_vars =>
        [InSession /\ moves = 0 => \A r \in Root :
          /\ \A n \in Gone(srv[r], srv'[r]) : srv[r].files[n] \in replaced
          /\ \A n \in Gone(cli[r], cli'[r]) : cli[r].files[n] \in replaced]_vars
  BY <1>1
<1> QED
  BY <1>2, NamesInvariant, PTL DEF Spec, OnlyUsersReplace

\* A session puts no older content in the place of a newer one.
THEOREM NoSessionRollsBack ==
    ASSUME CommonNames
    PROVE  Spec => NoRollback
<1>1. ASSUME NamesInv, [Next]_vars, InSession, moves = 0, NEW r \in Root
      PROVE  Newer(srv[r], srv'[r]) /\ Newer(cli[r], cli'[r])
  <2>1. ASSUME NEW n, NEW c, NEW d, c # d,
               \/ Holds(srv[r], n, c) /\ Holds(srv'[r], n, d)
               \/ Holds(cli[r], n, c) /\ Holds(cli'[r], n, d)
        PROVE  c < d
    <3>1. \/ Holds(srv[r], n, c) /\ ~Holds(srv'[r], n, c)
          \/ Holds(cli[r], n, c) /\ ~Holds(cli'[r], n, c)
      BY <2>1 DEF Holds
    <3>2. CASE Alteration
      <4>1. n = At /\ n \in Key /\ c \in Content /\ state[n] = Entry(c)
        BY <1>1, <3>1, <3>2, TakenAway
      <4>2. Holds(Server, n, d) \/ Holds(Client, n, d)
        <5>1. Holds(srv'[r], n, d) /\ ~(r = srvRoot) => Holds(srv[r], n, d)
          BY <1>1, <3>2, HoldsAfter
        <5>2. Holds(cli'[r], n, d) /\ ~(r = cliRoot) => Holds(cli[r], n, d)
          BY <1>1, <3>2, HoldsAfter
        <5>3. Holds(srv'[srvRoot], n, d) \/ Holds(cli'[cliRoot], n, d)
                => Holds(Server, n, d) \/ Holds(Client, n, d)
          BY <1>1, <3>2, HoldsAfter
        <5>4. ASSUME Holds(srv[r], n, c), Holds(srv'[r], n, d)
              PROVE  Holds(Server, n, d) \/ Holds(Client, n, d)
          <6>1. ~Holds(srv[r], n, d)
            BY <2>1, <5>4 DEF Holds
          <6> QED
            BY <5>1, <5>3, <5>4, <6>1
        <5>5. ASSUME Holds(cli[r], n, c), Holds(cli'[r], n, d)
              PROVE  Holds(Server, n, d) \/ Holds(Client, n, d)
          <6>1. ~Holds(cli[r], n, d)
            BY <2>1, <5>5 DEF Holds
          <6> QED
            BY <5>2, <5>3, <5>5, <6>1
        <5> QED
          BY <2>1, <5>4, <5>5
      <4>3. d \in Content
        BY <1>1, <4>2, ContentOfTree DEF NamesInv, Trees, Server, Client
      <4>4. c <= d
        BY <1>1, <4>1, <4>2, <4>3 DEF NamesInv, Recorded
      <4> QED
        BY <2>1, <4>1, <4>3, <4>4 DEF Content
    <3>3. CASE ~Alteration
      <4>1. Holds(srv'[r], n, d) => Holds(srv[r], n, d)
        BY <1>1, <3>3, QuietStep
      <4>2. Holds(cli'[r], n, d) => Holds(cli[r], n, d)
        BY <1>1, <3>3, QuietStep
      <4> QED
        BY <2>1, <4>1, <4>2 DEF Holds
    <3> QED
      BY <3>2, <3>3
  <2> QED
    BY <2>1 DEF Newer, Gone, Holds
<1>2. NamesInv /\ [Next]_vars =>
        [InSession /\ moves = 0 => \A r \in Root :
          Newer(srv[r], srv'[r]) /\ Newer(cli[r], cli'[r])]_vars
  BY <1>1
<1> QED
  BY <1>2, NamesInvariant, PTL DEF Spec, NoRollback

LEMMA KeptHolds ==
    ASSUME NEW c
    PROVE  /\ c \in Kept <=> \E r \in Root : \E n : Holds(srv[r], n, c) \/ Holds(cli[r], n, c)
           /\ c \in Kept' <=> \E r \in Root : \E n : Holds(srv'[r], n, c) \/ Holds(cli'[r], n, c)
BY DEF Kept, Contents, Holds

\* A session takes the last copy of a content only if a user has taken a copy
\* away, unless folders have been changed twice and a session has broken off
\* since the state file was written.
THEOREM NoLastCopyLost ==
    ASSUME CommonNames
    PROVE  Spec => LastCopy
<1>1. ASSUME NamesInv, [Next]_vars, InSession, moves <= 1 \/ ~broke,
             NEW c \in Kept, c \notin Kept'
      PROVE  c \in replaced
  <2>1. PICK r \in Root : \E n : Holds(srv[r], n, c) \/ Holds(cli[r], n, c)
    BY <1>1, KeptHolds
  <2> PICK n : Holds(srv[r], n, c) \/ Holds(cli[r], n, c)
    BY <2>1
  <2>2. \A q \in Root : \A m : ~Holds(srv'[q], m, c) /\ ~Holds(cli'[q], m, c)
    BY <1>1, KeptHolds
  <2>3. CASE Alteration
    <3>1. /\ n = At /\ n \in Key /\ n \in ToDo /\ c \in Content /\ state[n] = Entry(c)
          /\ ~Present(n, c)
      BY <1>1, <2>2, <2>3, TakenAway
    <3>2. CASE moves = 0
      BY <1>1, <3>1, <3>2 DEF NamesInv, Recorded
    <3>3. CASE moves = 1
      <4>1. ~PutAside(n, c)
        BY <1>1, <2>2, <2>3, HoldsAfter DEF PutAside
      <4> QED
        BY <1>1, <3>1, <3>3, <4>1 DEF NamesInv, Aside
    <3>4. CASE ~broke
      <4>1. ~OnBothSides(n, c)
        <5>1. CASE AltersClient(At)
          BY <2>2, <5>1 DEF AltersClient, OnBothSides
        <5>2. CASE AltersServer(At)
          BY <2>2, <5>2 DEF AltersServer, OnBothSides
        <5> QED
          BY <2>3, <5>1, <5>2 DEF Alteration
      <4> QED
        BY <1>1, <3>1, <3>4, <4>1 DEF NamesInv, Somewhere
    <3> QED
      BY <1>1, <3>2, <3>3, <3>4 DEF NamesInv, Trees
  <2>4. CASE ~Alteration
    BY <1>1, <2>1, <2>2, <2>4, QuietStep
  <2> QED
    BY <2>3, <2>4
<1>2. NamesInv /\ [Next]_vars =>
        [InSession /\ (moves <= 1 \/ ~broke) => Kept \ Kept' \subseteq replaced]_vars
  BY <1>1
<1> QED
  BY <1>2, NamesInvariant, PTL DEF Spec, LastCopy

=============================================================================
