------------------------------ MODULE FileSync -------------------------------
(***************************************************************************)
(* What win16sync promises its users: two trees, edited on both sides, are *)
(* kept in step by copying whole contents from one to the other.           *)
(*                                                                         *)
(*   - a content appears on a side because a user saved it there or because *)
(*     the other side has had it: it is never cut, mixed or invented;      *)
(*   - a content the running session lists is replaced or removed only if   *)
(*     the other side has had it, so that nobody's work is lost unseen.    *)
(*                                                                         *)
(* An edit made after the session listed the tree is not protected: that   *)
(* is why the listing is part of the promise.  There are no messages, no   *)
(* state file, no plan, no checksums and no crashes here.                  *)
(***************************************************************************)
EXTENDS Naturals

CONSTANTS Path, Content, None

VARIABLES
    server, client,             \* what each side holds, per path
    serverHad, clientHad,       \* every content it has held
    serverListed, clientListed, \* the contents the running session lists there
    edits                       \* how often users have saved or deleted a file

vars == <<server, client, serverHad, clientHad, serverListed, clientListed, edits>>

Init ==
    /\ server = [p \in Path |-> None] /\ client = [p \in Path |-> None]
    /\ serverHad = [p \in Path |-> {}] /\ clientHad = [p \in Path |-> {}]
    /\ serverListed = [p \in Path |-> {}] /\ clientListed = [p \in Path |-> {}]
    /\ edits = 1

\* A session may list, at any time, what a side has had, and forget it.
ListsWhatWas ==
    \A p \in Path : /\ serverListed'[p] \subseteq serverHad'[p]
                    /\ clientListed'[p] \subseteq clientHad'[p]

\* The content of p is nobody's loss.
Expendable(tree, p, listed, otherHad) ==
    tree[p] \in listed[p] => tree[p] \in otherHad[p]

ServerReceives(p) ==
    /\ Expendable(server, p, serverListed, clientHad)
    /\ \E x \in clientHad[p] :
         /\ server' = [server EXCEPT ![p] = x]
         /\ serverHad' = [serverHad EXCEPT ![p] = @ \union {x}]
    /\ UNCHANGED <<client, clientHad, edits>>

ServerRemoves(p) ==
    /\ Expendable(server, p, serverListed, clientHad)
    /\ server' = [server EXCEPT ![p] = None]
    /\ UNCHANGED <<client, serverHad, clientHad, edits>>

ClientReceives(p) ==
    /\ Expendable(client, p, clientListed, serverHad)
    /\ \E x \in serverHad[p] :
         /\ client' = [client EXCEPT ![p] = x]
         /\ clientHad' = [clientHad EXCEPT ![p] = @ \union {x}]
    /\ UNCHANGED <<server, serverHad, edits>>

ClientRemoves(p) ==
    /\ Expendable(client, p, clientListed, serverHad)
    /\ client' = [client EXCEPT ![p] = None]
    /\ UNCHANGED <<server, serverHad, clientHad, edits>>

\* A user saves a content, or deletes the file.
ServerEdited(p) ==
    /\ edits' = edits + 1
    /\ \/ \E x \in Content : /\ server' = [server EXCEPT ![p] = x]
                             /\ serverHad' = [serverHad EXCEPT ![p] = @ \union {x}]
       \/ server' = [server EXCEPT ![p] = None] /\ UNCHANGED serverHad
    /\ UNCHANGED <<client, clientHad>>

ClientEdited(p) ==
    /\ edits' = edits + 1
    /\ \/ \E x \in Content : /\ client' = [client EXCEPT ![p] = x]
                             /\ clientHad' = [clientHad EXCEPT ![p] = @ \union {x}]
       \/ client' = [client EXCEPT ![p] = None] /\ UNCHANGED clientHad
    /\ UNCHANGED <<server, serverHad>>

\* Only the listings change.
Looks == UNCHANGED <<server, client, serverHad, clientHad, edits>>

Step == \/ Looks
        \/ \E p \in Path : \/ ServerReceives(p) \/ ServerRemoves(p) \/ ServerEdited(p)
                           \/ ClientReceives(p) \/ ClientRemoves(p) \/ ClientEdited(p)

Next == ListsWhatWas /\ Step

Spec == Init /\ [][Next]_vars

=============================================================================
