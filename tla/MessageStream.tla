--------------------------- MODULE MessageStream ----------------------------
(***************************************************************************)
(* What the two programs expect of a connection: every line and every body *)
(* arrives whole, unchanged, in order and once, until the connection ends. *)
(* The session model is built on streams like these; Transport shows that  *)
(* the byte-level code provides them.                                      *)
(***************************************************************************)
EXTENDS Sequences

CONSTANTS Conversations     \* pairs of what each side will send: [down, up]

VARIABLES
    down, up,               \* messages still to be delivered to client, server
    clientGot, serverGot,   \* messages delivered
    alive                   \* a session is running

vars == <<down, up, clientGot, serverGot, alive>>

Init ==
    /\ down = <<>> /\ up = <<>>
    /\ clientGot = <<>> /\ serverGot = <<>>
    /\ alive = FALSE

Open ==
    /\ ~alive
    /\ alive' = TRUE
    /\ \E c \in Conversations : down' = c.down /\ up' = c.up
    /\ clientGot' = <<>> /\ serverGot' = <<>>

ToClient ==
    /\ alive /\ down # <<>>
    /\ clientGot' = Append(clientGot, Head(down))
    /\ down' = Tail(down)
    /\ UNCHANGED <<up, serverGot, alive>>

\* The server may still read what arrived before the client hung up.
ToServer ==
    /\ up # <<>>
    /\ serverGot' = Append(serverGot, Head(up))
    /\ up' = Tail(up)
    /\ UNCHANGED <<down, clientGot, alive>>

Close ==
    /\ alive
    /\ alive' = FALSE
    /\ UNCHANGED <<down, up, clientGot, serverGot>>

Next == Open \/ ToClient \/ ToServer \/ Close

Spec == Init /\ [][Next]_vars
=============================================================================
