----------------------------- MODULE NameRules ------------------------------
(***************************************************************************)
(* Which names the two sides take part in a synchronisation, and where a   *)
(* path of the protocol lies on the client's disk.  A name is a sequence   *)
(* of characters; the limits of 8.3 are constants, so that a small         *)
(* instance has names on both sides of every limit.                        *)
(***************************************************************************)
EXTENDS Integers, Sequences, FiniteSets

CONSTANTS
    Legal,          \* the characters is_valid_fat_char takes
    Small,          \* function: a lower-case letter to its capital
    BaseMax,        \* 8
    ExtMax,         \* 3
    NameRoom,       \* bytes of the client's copy of a name, 16
    PathRoom,       \* PROTO_LOCAL_PATH_CAPACITY
    TooLong         \* a path does not fit: the function returns 0

Dot     == "."
Slash   == "/"
Back    == "\\"

\* The client's copy of a name holds more than a legal name: 16, 8 and 3.
ASSUME NameRulesAssumption ==
    /\ BaseMax \in Nat /\ ExtMax \in Nat /\ NameRoom \in Nat /\ PathRoom \in Nat
    /\ BaseMax + ExtMax + 2 < NameRoom
    /\ Dot \notin Legal
    /\ DOMAIN Small \subseteq STRING /\ Dot \notin DOMAIN Small
    /\ \A c \in DOMAIN Small : Small[c] \in STRING \ DOMAIN Small

ToUpper(c) == IF c \in DOMAIN Small THEN Small[c] ELSE c
Upper(s)   == [i \in DOMAIN s |-> ToUpper(s[i])]

AllLegal(s) == \A i \in DOMAIN s : s[i] \in Legal
Dots(s)     == {i \in DOMAIN s : s[i] = Dot}
BeforeDot(s) == CHOOSE n \in 0..Len(s) :
                  /\ \A i \in 1..n : s[i] # Dot
                  /\ n = Len(s) \/ s[n + 1] = Dot
AfterDot(s) == SubSeq(s, BeforeDot(s) + 2, Len(s))

\* What proto_copy_text leaves of a text when there is room for n characters.
Beginning(s, n) == SubSeq(s, 1, IF Len(s) <= n THEN Len(s) ELSE n)

DotNames == {<<Dot>>, <<Dot, Dot>>}

-----------------------------------------------------------------------------
(* The server's rule and the client's.                                     *)

\* The condition on directories stands in a branch that only names without a
\* dot reach, and says that they have none.
is_valid_fat_component(name, is_file) ==
    LET upper == Upper(name)
        base  == SubSeq(upper, 1, BeforeDot(upper))
        ext   == AfterDot(upper)
    IN  /\ name # <<>> /\ name \notin DotNames
        /\ Cardinality(Dots(upper)) <= 1
        /\ Len(base) \in 1..BaseMax /\ AllLegal(base)
        /\ IF Dots(upper) # {} THEN Len(ext) \in 1..ExtMax /\ AllLegal(ext)
                               ELSE is_file \/ Dots(upper) = {}

\* Mistake: the copy of the name has room for a legal name and no more, so
\* that a longer one is judged by its beginning.
proto_is_valid_component_cut(name, is_file) ==
    LET upper == Upper(Beginning(name, BaseMax + 1 + ExtMax))
        base  == SubSeq(upper, 1, BeforeDot(upper))
        ext   == AfterDot(upper)
    IN  /\ name # <<>> /\ name \notin DotNames
        /\ IF is_file THEN Dots(ext) = {} ELSE Dots(upper) = {}
        /\ Len(base) \in 1..BaseMax /\ AllLegal(base)
        /\ Dots(upper) # {} => Len(ext) \in 1..ExtMax /\ AllLegal(ext)

proto_is_valid_component(name, is_file) ==
    LET upper == Upper(Beginning(name, NameRoom - 1))
        base  == SubSeq(upper, 1, BeforeDot(upper))
        ext   == AfterDot(upper)
    IN  /\ name # <<>> /\ name \notin DotNames
        /\ IF is_file THEN Dots(ext) = {} ELSE Dots(upper) = {}
        /\ Len(base) \in 1..BaseMax /\ AllLegal(base)
        /\ Dots(upper) # {} => Len(ext) \in 1..ExtMax /\ AllLegal(ext)

-----------------------------------------------------------------------------
(* Paths on the client.                                                    *)

TempName == <<"$">>                     \* PROTO_TEMP_NAME

IsSep(c)  == c \in {Back, Slash}
EndsOpen(s) == s # <<>> /\ ~IsSep(s[Len(s)])    \* a separator is missing

\* Mistake: what does not fit is cut off.
append_text_cuts(s, t) == Beginning(s \o t, PathRoom - 1)

append_text(s, t) ==
    IF s = TooLong \/ Len(s) + Len(t) >= PathRoom THEN TooLong ELSE s \o t

local_join(left, right) ==
    append_text(IF EndsOpen(left) THEN append_text(left, <<Back>>) ELSE left, right)

Local(path) == [i \in DOMAIN path |-> IF path[i] = Slash THEN Back ELSE path[i]]

\* The trailing backslash local_join leaves is taken off and put back.
protocol_to_local(root_dir, path) ==
    LET joined == local_join(root_dir, <<>>)
        root   == IF joined # <<>> /\ joined[Len(joined)] = Back
                    THEN SubSeq(joined, 1, Len(joined) - 1) ELSE joined
    IN  IF joined = TooLong THEN TooLong
        ELSE IF path = <<>> THEN root
        ELSE append_text(IF EndsOpen(root) THEN append_text(root, <<Back>>) ELSE root,
                         Local(path))

LastSep(s) == CHOOSE n \in 0..Len(s) :
                /\ n = 0 \/ IsSep(s[n])
                /\ \A i \in (n + 1)..Len(s) : ~IsSep(s[i])

build_temp_path(local_path) ==
    append_text(SubSeq(local_path, 1, LastSep(local_path)), TempName)

\* The directories proto_ensure_parent_dirs creates, the drive left out.
\* Indices of the code start at 0.
ensure_parent_dirs(path) ==
    {SubSeq(path, 1, i - 1) : i \in {j \in DOMAIN path : IsSep(path[j]) /\ j - 1 > 2}}

=============================================================================
