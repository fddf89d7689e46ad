---------------------------- MODULE MCTransport -----------------------------
(* Sessions of a line and a body each way, a body that looks like a line, an  *)
(* empty body, two lines in a row, and a line too long for the caller or for  *)
(* the buffer.                                                                *)
EXTENDS Transport

Line(to, d) == [kind |-> "line", to |-> to, data |-> d]
Body(to, d) == [kind |-> "body", to |-> to, data |-> d]

MCByte == {"a", "b", "cr", "lf"}
MCScripts == {
    <<Line("client", <<"a", "b">>), Body("client", <<"lf", "a", "cr">>), Line("server", <<"b">>)>>,
    <<Line("server", <<"a", "b">>), Body("server", <<"lf", "a">>), Line("client", <<"b", "a">>)>>,
    <<Line("client", <<>>), Body("client", <<>>), Line("client", <<"a">>)>>,
    <<Line("client", <<"b">>), Body("client", <<"a", "cr", "lf", "b", "a">>), Line("client", <<"b", "b">>)>>,
    <<Line("client", <<"a">>), Line("client", <<"b">>), Body("server", <<"b", "lf">>),
      Line("client", <<"a", "b">>), Body("client", <<"b", "a">>), Line("server", <<>>)>>,
    <<Line("client", <<"a", "b", "a">>)>>,
    <<Line("client", <<"a", "b", "a", "b", "a", "b">>), Line("client", <<"b">>)>> }
=============================================================================
