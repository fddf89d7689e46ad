---------------------------- MODULE Conversions -----------------------------
(* What the conversions of both sides do to names, texts, files and times.   *)
(* A behaviour is about one of them; it feeds the operators of the four      *)
(* modules with ever longer inputs, which the properties compare with a      *)
(* definition of their own.                                                  *)
EXTENDS NameRules, ProtoText, Crc32, DosTime

CONSTANTS
    Letters,        \* characters a name is typed with
    Roots,          \* folders of the client
    PathBytes,      \* bytes a path is made of
    Numbers,        \* numbers in a version
    FileBytes,      \* bytes of a file, behind the first: sets of bits
    BitErrors,      \* bits of a byte that arrive wrong
    LongDays,       \* days gone through second by second
    MaxName,        \* bound: characters of a name
    MaxPath,        \* bound: bytes of a path
    MaxVersion,     \* bound: numbers, dots and others of a version
    MaxBytes,       \* bound: bytes of a file
    LastYear        \* bound: of the calendar

VARIABLES
    subject,
    name, root,                         \* a name, at the end of a path below root
    path, left, right,                  \* a path, and two versions
    client, server, length, damaged,    \* the checksums of a file so far
    year, month, day,                   \* a day in the calendar
    days, seconds                       \* days since 1970, seconds of the day

names == <<name, root>>
texts == <<path, left, right>>
sums  == <<client, server, length, damaged>>
times == <<year, month, day, days, seconds>>
vars  == <<subject, names, texts, sums, times>>

\* What names, and the paths that are made of them, consist of.
Characters == STRING \union {Slash, Back, "A", "$"}

\* Folders are absolute, and end in one backslash at most.
ASSUME InputsAssumption ==
    /\ Letters \subseteq Characters /\ TooLong \notin Seq(Characters)
    /\ \A r \in Roots :
         /\ r \in Seq(Characters) /\ Len(r) >= 3 /\ r[3] = Back
         /\ \A i \in 2..Len(r) : r[i] # Slash /\ ~(IsSep(r[i - 1]) /\ IsSep(r[i]))
    /\ PathBytes \subseteq 0..255
    /\ Numbers \subseteq Nat /\ Point \notin Numbers /\ Other \notin Numbers
    /\ MaxVersion \in Nat
    /\ FileBytes \subseteq SUBSET (0..7) /\ BitErrors \subseteq SUBSET (0..7)
    /\ None \notin [days : Int, seconds : Int]

-----------------------------------------------------------------------------
(* A name typed character by character, as a file or a directory name.       *)

TypeName ==
    /\ subject = "names"
    /\ Len(name) < MaxName
    /\ \E c \in Letters : name' = Append(name, c)
    /\ UNCHANGED <<subject, root, texts, sums, times>>

\* The rule of 8.3 itself: a base of legal characters, and perhaps a dot and
\* an extension of legal characters.
Is83(s) ==
    \E b \in 1..BaseMax :
        /\ b <= Len(s) /\ AllLegal(SubSeq(s, 1, b))
        /\ \/ b = Len(s)
           \/ /\ s[b + 1] = Dot
              /\ Len(s) - b - 1 \in 1..ExtMax
              /\ AllLegal(SubSeq(s, b + 2, Len(s)))

\* For files, both sides' rules are 8.3 ("Namen ausserhalb 8.3 werden
\* ignoriert"), in whatever case the name is written and however long it is;
\* and the server accepts every path the client can list, judging directories
\* as files (normalize_protocol_path ends the session for any other).
NamesAgree ==
    subject = "names" =>
    /\ is_valid_fat_component(name, TRUE) <=> Is83(Upper(name))
    /\ proto_is_valid_component(name, TRUE) <=> Is83(Upper(name))
    /\ proto_is_valid_component(name, FALSE) => is_valid_fat_component(Upper(name), TRUE)

PathTo   == <<"A", "/">> \o name
LocalOf  == protocol_to_local(root, PathTo)
\* A path has one place on the disk, below the folder, at any spelling of
\* the folder, and is refused, never cut, when it does not fit.
PlaceIsBelow ==
    LET bare == IF EndsOpen(root) THEN root ELSE SubSeq(root, 1, Len(root) - 1)
        place == bare \o <<Back>> \o Local(PathTo)
    IN  /\ LocalOf = TooLong \/ LocalOf = place
        /\ Len(place) + 1 <= PathRoom => LocalOf = place

\* A download is written and renamed within one directory, all of whose
\* parents have been made: the rename of proto_receive_download can work.
RenamesInPlace ==
    LocalOf # TooLong /\ build_temp_path(LocalOf) # TooLong =>
        LET temp == build_temp_path(LocalOf)
            dir  == SubSeq(LocalOf, 1, LastSep(LocalOf) - 1)
        IN  /\ SubSeq(temp, 1, LastSep(temp) - 1) = dir
            /\ dir \in ensure_parent_dirs(LocalOf)
            /\ \A d \in ensure_parent_dirs(LocalOf) :
                  LastSep(d) > 3 => SubSeq(d, 1, LastSep(d) - 1) \in ensure_parent_dirs(LocalOf)

\* A file that is received lies at the place of its path, and nowhere else.
PlacesHold == subject = "names" => PlaceIsBelow /\ RenamesInPlace

-----------------------------------------------------------------------------
(* A path and a line that carries it, and two versions.                      *)

Token == Numbers \union {Point, Other}

\* Two numbers without anything between them would be one.
Appends(text) ==
    {Append(text, t) : t \in {u \in Token : text # <<>> /\ IsNumber(Last(text)) => ~IsNumber(u)}}

TypePath ==
    /\ subject = "paths"
    /\ Len(path) < MaxPath
    /\ \E b \in PathBytes : path' = Append(path, b)
    /\ UNCHANGED <<subject, left, right, names, sums, times>>

TypeVersion ==
    /\ subject = "versions"
    /\ \/ Len(left) < MaxVersion /\ right = <<>> /\ left' \in Appends(left) /\ UNCHANGED right
       \/ Len(right) < MaxVersion /\ right' \in Appends(right) /\ UNCHANGED left
    /\ UNCHANGED <<subject, path, names, sums, times>>

ActionLine(text) ==
    <<[key |-> "kind", value |-> <<1, 2>>], [key |-> "path", value |-> text],
      [key |-> "size", value |-> <<3>>]>>

\* A path the server sends arrives whole or is refused, whatever its length:
\* never is another, shorter path read, downloaded or deleted.  A path the
\* client can hold, and only such a path, fits into its lines; the server reads
\* it as it is, and the client can be asked for it.
PathsTravel ==
    subject = "paths" =>
    LET hex == proto_encode_hex(path, 2 * PathCapacity)
    IN  /\ ActionPath(ActionLine(encode_hex(path))) \in {path, Fail}
        /\ (hex # Fail) = (Len(path) < PathCapacity)
        /\ hex # Fail =>
             /\ parse_line(ActionLine(hex), "path") = hex /\ decode_hex(hex) = path
             /\ path # <<>> => ActionPath(ActionLine(hex)) = path

\* The reference: numbers separated by single dots, missing ones are 0.
IsRelease(text) ==
    /\ text # <<>> /\ IsNumber(Last(text))
    /\ \A i \in DOMAIN text : IF i % 2 = 1 THEN IsNumber(text[i]) ELSE text[i] = Point
Part(text, i) == IF 2 * i - 1 \in DOMAIN text THEN text[2 * i - 1] ELSE 0
Compared(l, r) ==
    LET differs == {i \in 1..MaxVersion : Part(l, i) # Part(r, i)}
    IN  IF differs = {} THEN 0 ELSE IF Part(l, Min(differs)) < Part(r, Min(differs)) THEN -1 ELSE 1

\* Release numbers are ordered part by part, as numbers; and whatever stands
\* in VERSION.TXT, no two texts are each newer than the other: two programs
\* cannot replace each other for ever.
VersionsOrdered ==
    subject = "versions" =>
    /\ IsRelease(left) /\ IsRelease(right) =>
         proto_compare_versions(left, right) = Compared(left, right)
    /\ proto_compare_versions(left, right) = -proto_compare_versions(right, left)

-----------------------------------------------------------------------------
(* A file travels byte by byte; up to four consecutive bytes arrive with     *)
(* other bits, from the first one on.  A first byte that arrives well is any *)
(* byte.                                                                     *)

\* damaged: bytes since the first wrong one, that one included.
Travel(byte, error) ==
    /\ subject = "sums"
    /\ length < MaxBytes /\ length' = length + 1
    /\ client' = proto_crc32_step(client, byte)
    /\ server' = crc32_update(server, Xor(byte, error))
    /\ damaged' = IF damaged > 0 THEN damaged + 1 ELSE IF error # {} THEN 1 ELSE 0
    /\ UNCHANGED <<subject, names, texts, times>>

FirstByte == length = 0 /\ \E byte \in SUBSET (0..7) : Travel(byte, {})
FileByte  == \E byte \in FileBytes, error \in BitErrors :
                (error # {} => damaged < 4) /\ Travel(byte, error)

\* Both sides have the same checksum for the same file, and different ones
\* when up to four consecutive bytes differ.
TellsDamage == subject = "sums" => (Not(client) = Not(server)) = (damaged = 0)

-----------------------------------------------------------------------------
(* The calendar, day by day, and some days second by second.                 *)

IsLeap(y) == y % 4 = 0 /\ (y % 100 # 0 \/ y % 400 = 0)
DaysOf(y, m) == CASE m \in {4, 6, 9, 11} -> 30
                  [] m = 2 -> IF IsLeap(y) THEN 29 ELSE 28
                  [] OTHER -> 31

NextDay ==
    /\ subject = "times"
    /\ seconds = 0 /\ year <= LastYear
    /\ days' = days + 1
    /\ UNCHANGED <<subject, seconds, names, texts, sums>>
    /\ IF day < DaysOf(year, month)
         THEN day' = day + 1 /\ UNCHANGED <<year, month>>
       ELSE /\ day' = 1
            /\ month' = (month % 12) + 1
            /\ year' = IF month = 12 THEN year + 1 ELSE year

NextSecond ==
    /\ subject = "times"
    /\ days \in LongDays /\ seconds < 86399
    /\ seconds' = seconds + 1
    /\ UNCHANGED <<subject, year, month, day, days, names, texts, sums>>

Now   == [days |-> days, seconds |-> seconds]
Stamp == [year |-> year - 1980, month |-> month, day |-> day, hour |-> seconds \div 3600,
          minute |-> (seconds \div 60) % 60, second |-> (seconds % 60) \div 2]

\* A client's time stamp comes back from the server's disk as it was, on every
\* day DOS has: without checksums, a stamp that changed by itself would be an
\* edit.  Every time on the server has the stamp of its calendar day and its
\* even second, which is never later; before 1980 it has none.
StampsTrue ==
    subject = "times" =>
    /\ year \in 1980..2107 => system_time_to_dos(set_file_dos_time(None, Stamp)) = Stamp
    /\ year <= 2107 => system_time_to_dos(Now) = IF year < 1980 THEN Zero ELSE Stamp

-----------------------------------------------------------------------------
Init ==
    /\ subject \in {"names", "paths", "versions", "sums", "times"}
    /\ name = <<>> /\ root \in Roots /\ (subject # "names" => Len(root) = 3)
    /\ path = <<>> /\ left = <<>> /\ right = <<>>
    /\ client = Start /\ server = Start /\ length = 0 /\ damaged = 0
    /\ year = 1970 /\ month = 1 /\ day = 1 /\ days = 0 /\ seconds = 0

Next == TypeName \/ TypePath \/ TypeVersion \/ FirstByte \/ FileByte \/ NextDay \/ NextSecond
Spec == Init /\ [][Next]_vars
=============================================================================
