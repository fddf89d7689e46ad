----------------------------- MODULE MCNameSync -----------------------------
(* Small folders of a file or directory D, with a file F in it.              *)
EXTENDS NameSync

F == <<"F">>
D == <<"D">>

MCLegal == {"D", "F", "$"}
MCSmall == "d" :> "D"

\* D is a file or a directory, and the client has a file of its own, which it
\* does not list.
Own        == <<"$">>
MCReserved == {Own}
MCSrvNames == {<<D>>, <<D, F>>}
MCCliNames == MCSrvNames \union {<<Own>>}
MCKeyOrder == <<<<Own>>, <<D>>, <<D, F>>>>

ASSUME CommonNamesHere == SrvNames = MCSrvNames => CommonNames

\* The server's file has a lower-case name, as is usual there.
SmallName   == {<<<<"d">>>>}
CapitalName == {<<D>>}
OneOrder    == <<<<D>>>>
=============================================================================
