----------------------------- MODULE MCSettings ------------------------------
(* The two interfaces through which settings change: the client's window and *)
(* the server's web page.  They share nothing, so that one of them moves in  *)
(* a behaviour.                                                              *)
(*                                                                           *)
(* Two folders, an interval field with 0, the default and a value the period *)
(* has no room for; lines of WIN.INI that are empty, have the program among  *)
(* others, just fit the buffer, or are cut in the middle of an entry; one    *)
(* form at a time, and two sessions: a broken one that the server has not    *)
(* noticed and its successor.                                                *)
EXTENDS AppShell

CONSTANTS exe, min, editor, clock,    \* what entries of WIN.INI say
          Form, Session, None, Torn

VARIABLES config, file, form, posted, scanning, cache, guard, pc, root, plan,
          side                  \* the interface that is used

MCExe       == [name |-> exe, width |-> 2]
MCMinSwitch == [name |-> min, width |-> 1]
Editor      == [name |-> editor, width |-> 3]
Clock       == [name |-> clock, width |-> 2]

Own   == <<Editor, MCMinSwitch, MCExe, MCMinSwitch>>
Fits  == <<Editor, Editor, Clock>>
Long  == <<Editor, Editor, MCMinSwitch, Editor>>

MCLine == {<<>>, Own, Fits, Long}

webvars == <<config, file, form, posted, scanning, cache, guard, pc, root, plan>>

Web == INSTANCE ServerConfig

ASSUME ConfigAssumption ==
    DefaultRoot \in Root /\ None \notin Root \union Session /\ Torn \notin Web!Config

BothInit ==
    /\ side \in {"window", "web"}
    /\ Init /\ Web!Init
    /\ load \in {<<>>, Own}
    /\ side = "web" => run = <<>> /\ load = <<>>

BothNext ==
    /\ UNCHANGED side
    /\ \/ side = "window" /\ Next /\ UNCHANGED webvars
       \/ side = "web" /\ Web!Next /\ UNCHANGED vars

Both == /\ BothInit /\ [][BothNext]_<<vars, webvars, side>>
        /\ WF_vars(TimerSync) /\ WF_vars(SyncReturns)

\* The properties of ServerConfig.
PlanFromOwnTree == Web!PlanFromOwnTree
FileIsMemory    == Web!FileIsMemory
=============================================================================
