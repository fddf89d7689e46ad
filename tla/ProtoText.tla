------------------------------ MODULE ProtoText ------------------------------
(***************************************************************************)
(* How values travel in lines: hexadecimal paths, the parameters of a line *)
(* and the client's fixed buffers for them, and version numbers.           *)
(*                                                                         *)
(* A text is a sequence; a line is a sequence of parameters [key, value]   *)
(* behind its first word.  Capacities count the final NUL of the C code.   *)
(***************************************************************************)
EXTENDS Integers, Sequences, SequencesExt

CONSTANTS
    PathCapacity,   \* PROTO_PATH_CAPACITY
    Fail,           \* a function returns 0
    Point, Other      \* in versions: "." and what is no digit

ASSUME TextAssumption == PathCapacity \in Nat \ {0} /\ Fail \notin Seq(Int)

-----------------------------------------------------------------------------
(* Hexadecimal text: digits are 0..15.                                     *)

\* Both sides' encoding of bytes, without limits: encode_hex of the server.
encode_hex(data) ==
    [i \in 1..(2 * Len(data)) |-> IF i % 2 = 1 THEN data[(i + 1) \div 2] \div 16
                                              ELSE data[i \div 2] % 16]

proto_encode_hex(source, capacity) ==
    IF source # <<>> /\ 2 * Len(source) + 1 >= capacity THEN Fail ELSE encode_hex(source)

\* decode_hex of the server.
decode_hex(text) ==
    IF Len(text) % 2 # 0 THEN Fail
    ELSE [i \in 1..Len(text) \div 2 |-> 16 * text[2 * i - 1] + text[2 * i]]

\* Mistake: an odd digit at the end is dropped.
proto_decode_hex_even(source, capacity) ==
    LET bytes == decode_hex(SubSeq(source, 1, 2 * (Len(source) \div 2)))
    IN  IF Len(bytes) >= capacity THEN Fail ELSE bytes

proto_decode_hex(source, capacity) ==
    LET bytes == decode_hex(source)
    IN  IF bytes = Fail \/ (bytes # <<>> /\ Len(bytes) >= capacity) THEN Fail ELSE bytes

-----------------------------------------------------------------------------
(* Parameters.                                                             *)

Cut(value, capacity) == IF Len(value) < capacity THEN value ELSE SubSeq(value, 1, capacity - 1)

\* The first parameter of the name; a value that does not fit is cut.
proto_extract_param(line, key, capacity) ==
    LET at == {i \in DOMAIN line : line[i].key = key}
    IN  IF at = {} \/ line[Min(at)].value = <<>> THEN Fail
        ELSE Cut(line[Min(at)].value, capacity)

\* parse_line of the server: the last one wins.
parse_line(line, key) ==
    LET at == {i \in DOMAIN line : line[i].key = key}
    IN  IF at = {} THEN Fail ELSE line[Max(at)].value

\* What proto_sync_directory makes of the path of an ACTION.
ActionPath(line) ==
    LET path_hex == proto_extract_param(line, "path", 2 * PathCapacity)
    IN  IF path_hex = Fail THEN Fail ELSE proto_decode_hex(path_hex, PathCapacity)

-----------------------------------------------------------------------------
(* Versions: sequences of numbers, dots and other characters.              *)

IsNumber(token) == token \notin {Point, Other}

\* strtoul at position i: the number and what is behind it.
AtNumber(text, i) == i <= Len(text) /\ IsNumber(text[i])

Number(text, i)  == IF AtNumber(text, i) THEN text[i] ELSE 0
Behind(text, i)  == IF AtNumber(text, i) THEN i + 1 ELSE i
PastDot(text, i) == IF i <= Len(text) /\ text[i] = Point THEN i + 1 ELSE i
Stops(text, i)   == i <= Len(text) /\ ~IsNumber(text[i])

\* Where the loop goes on behind a number, and where it may stand.
NextSpot(text, i)  == PastDot(text, Behind(text, i))
Spots(left, right) == (1..(Len(left) + 1)) \X (1..(Len(right) + 1))

\* Mistake: the comparison ends with the shorter text.
proto_compare_versions_short(left, right) ==
    LET compare[at \in Spots(left, right)] ==
          LET i == at[1]
              j == at[2]
              l == NextSpot(left, i)
              r == NextSpot(right, j)
          IN  IF i > Len(left) \/ j > Len(right) THEN 0
              ELSE IF Number(left, i) < Number(right, j) THEN -1
              ELSE IF Number(left, i) > Number(right, j) THEN 1
              ELSE IF Stops(left, l) \/ Stops(right, r) THEN 0 ELSE compare[<<l, r>>]
    IN  compare[<<1, 1>>]

proto_compare_versions(left, right) ==
    LET compare[at \in Spots(left, right)] ==
          LET i == at[1]
              j == at[2]
              l == NextSpot(left, i)
              r == NextSpot(right, j)
          IN  IF i > Len(left) /\ j > Len(right) THEN 0
              ELSE IF Number(left, i) < Number(right, j) THEN -1
              ELSE IF Number(left, i) > Number(right, j) THEN 1
              ELSE IF Stops(left, l) \/ Stops(right, r) THEN 0 ELSE compare[<<l, r>>]
    IN  compare[<<1, 1>>]
=============================================================================
