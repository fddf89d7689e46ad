--------------------------- MODULE MCConversions ----------------------------
(* Few characters, of every kind the rules for names know; folders with and   *)
(* without a backslash at the end; damage of one bit and of all eight.        *)
EXTENDS Conversions

MCLegal == {"A", "B"}
MCSmall == "a" :> "A"
MCLetters == {"A", "a", "B", ".", "+"}
MCRoots == {<<"C", ":", "\\">>, <<"C", ":", "\\", "A">>, <<"C", ":", "\\", "A", "\\">>,
            <<"C", ":", "\\", "A", "\\", "B">>}

MCPathBytes == {65, 95, 47}
MCNumbers   == {0, 1}

MCFileBytes == {{}, {0, 6}}
MCBitErrors == {{}, {0}, 0..7}
=============================================================================
