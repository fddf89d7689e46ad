-------------------------- MODULE SelfUpdateProofs ---------------------------
(***************************************************************************)
(* Proofs about the update, for every number of clients and versions and   *)
(* every number of faults: the helper installs nothing but a program the   *)
(* slot has held; until something goes wrong one client synchronises; and  *)
(* one thing that goes wrong leaves a whole program on the disk.           *)
(***************************************************************************)
EXTENDS SelfUpdate, FiniteSetTheorems, TLAPS

Places == {"off", "idle", "ask", "body", "ok", "sync"}

Types ==
    /\ label \in Program /\ slot \in Program
    /\ pc \in [Client -> Places]
    /\ ver \in [Client -> Program]
    /\ offer \in [Client -> Program \union {Absent}]
    /\ exe \in File /\ new \in File /\ ini \in BOOLEAN
    /\ helper \in {"none", "load", "first", "try", "done"} /\ data \in File
    /\ share \in BOOLEAN /\ faults \in 0..MaxFaults

\* A program the slot has held: it takes versions upwards only.
HeldBySlot(p) == p \in Program /\ p <= slot

\* What the helper will load, and what it has loaded, is such a program; so
\* what it leaves is a file.
Whole ==
    /\ helper = "load" /\ ini = TRUE /\ new # Absent => HeldBySlot(new)
    /\ helper \in {"first", "try"} => HeldBySlot(data)
    /\ helper = "done" => exe # Absent

Safe == Types /\ Whole /\ TornForCause

LEMMA Started ==
    ASSUME Types, NEW c \in Client, StartsAs(c)
    PROVE  /\ pc' \in [Client -> Places] /\ ver' \in [Client -> Program]
           /\ new' \in File /\ ini' = FALSE
BY DEF Types, StartsAs, Places, File

LEMMA TypesStep ==
    ASSUME UpdateAssumption, Types, [Next]_vars
    PROVE  Types'
<1> USE UpdateAssumption
<1>1. CASE SetProgram
  BY <1>1 DEF SetProgram, Types, Program
<1>2. CASE SetLabel
  BY <1>2 DEF SetLabel, Types
<1>3. ASSUME NEW c \in Client, Ask(c) PROVE Types'
  BY <1>3, ZenonT(60) DEF Ask, Goto, Types, Places, File
<1>4. ASSUME NEW c \in Client, Synced(c) PROVE Types'
  BY <1>4 DEF Synced, Goto, Types, Places
<1>5. ASSUME NEW c \in Client, Fetch(c) PROVE Types'
  BY <1>5 DEF Fetch, Goto, Types, Places, File
<1>6. ASSUME NEW c \in Client, Store(c) PROVE Types'
  BY <1>6 DEF Store, Goto, Received, Types, Places, File
<1>7. ASSUME NEW c \in Client, Refuse(c) PROVE Types'
  BY <1>7 DEF Refuse, Goto, Types, Places, File
<1>8. ASSUME NEW c \in Client, Leave(c) PROVE Types'
  BY <1>8 DEF Leave, Goto, Types, Places
<1>9. ASSUME NEW c \in Client, NotStarted(c) PROVE Types'
  <2>1. faults' \in 0..MaxFaults
    <3>1. faults \in 0..MaxFaults /\ (Fault \/ UNCHANGED faults)
      BY <1>9 DEF NotStarted, Types
    <3> QED
      BY <3>1 DEF Fault
  <2>2. /\ pc' = [pc EXCEPT ![c] = "idle"] /\ new' = slot /\ ini' = FALSE
        /\ UNCHANGED <<label, slot, ver, offer, exe, helper, data, share>>
    BY <1>9 DEF NotStarted, Goto
  <2> QED
    BY <2>1, <2>2 DEF Types, Places, File
<1>10. ASSUME NEW c \in Client, ConnectionLost(c) PROVE Types'
  BY <1>10 DEF ConnectionLost, Fault, Goto, Types, Places, File
<1>11. ASSUME NEW c \in Client, Stay(c) PROVE Types'
  BY <1>11 DEF Stay, Fault, Goto, Types, Places
<1>12. ASSUME NEW c \in Client, UserStarts(c) PROVE Types'
  BY <1>12, Started DEF UserStarts, Types
<1>13. CASE Load
  BY <1>13 DEF Load, Types
<1>14. CASE Wait
  BY <1>14 DEF Wait, Types
<1>15. CASE Install
  BY <1>15 DEF Install, Written, Types, File
<1>16. CASE GiveUp
  BY <1>16 DEF GiveUp, Types, File
<1>17. CASE Done
  <2>1. CASE \E c \in Client \ Running : StartsAs(c)
    BY <1>17, <2>1, Started DEF Done, Types, File
  <2>2. CASE ini' = FALSE /\ UNCHANGED <<pc, ver, new>>
    BY <1>17, <2>2 DEF Done, Types, File
  <2> QED
    BY <1>17, <2>1, <2>2 DEF Done
<1>18. CASE InstallFails
  BY <1>18 DEF InstallFails, Fault, Types, File
<1>19. CASE Crash
  BY <1>19 DEF Crash, Fault, Types, Places, File
<1>20. CASE UNCHANGED vars
  BY <1>20 DEF vars, Types
<1> QED
  BY <1>1, <1>2, <1>3, <1>4, <1>5, <1>6, <1>7, <1>8, <1>9, <1>10, <1>11,
     <1>12, <1>13, <1>14, <1>15, <1>16, <1>17, <1>18, <1>19, <1>20
     DEF Next, CliStep, CliFault, HelperStep

\* A step that leaves the slot, the helper and the program alone: what the
\* helper will load may be taken away, but not exchanged.
LEMMA WholeKept ==
    ASSUME Types, Whole, UNCHANGED <<slot, exe, helper, data>>,
           helper = "load" => new' = Absent \/ ini' = FALSE \/ UNCHANGED <<new, ini>>
    PROVE  Whole'
BY DEF Whole, HeldBySlot

LEMMA WholeStep ==
    ASSUME UpdateAssumption, Types, Types', Whole, [Next]_vars
    PROVE  Whole'
<1> USE UpdateAssumption
<1>1. CASE SetProgram
  <2>1. slot' \in Program /\ slot \in Program /\ slot' > slot
    BY <1>1 DEF SetProgram, Types, Program
  <2>2. \A p : HeldBySlot(p) => HeldBySlot(p)'
    BY <2>1 DEF HeldBySlot, Program
  <2> QED
    BY <1>1, <2>2 DEF SetProgram, Whole
<1>2. CASE SetLabel
  BY <1>2, WholeKept DEF SetLabel
<1>3. ASSUME NEW c \in Client, Ask(c) PROVE Whole'
  BY <1>3, WholeKept DEF Ask, Loaded
<1>4. ASSUME NEW c \in Client, Synced(c) PROVE Whole'
  BY <1>4, WholeKept DEF Synced
<1>5. ASSUME NEW c \in Client, Fetch(c) PROVE Whole'
  BY <1>5, WholeKept DEF Fetch, Loaded
<1>6. ASSUME NEW c \in Client, Store(c) PROVE Whole'
  BY <1>6 DEF Store, Verified, Received, Types, Whole, HeldBySlot, Program
<1>7. ASSUME NEW c \in Client, Refuse(c) PROVE Whole'
  BY <1>7, WholeKept DEF Refuse
<1>8. ASSUME NEW c \in Client, Leave(c) PROVE Whole'
  BY <1>8, WholeKept DEF Leave
<1>9. ASSUME NEW c \in Client, NotStarted(c) PROVE Whole'
  BY <1>9, WholeKept DEF NotStarted
<1>10. ASSUME NEW c \in Client, ConnectionLost(c) PROVE Whole'
  BY <1>10, WholeKept DEF ConnectionLost
<1>11. ASSUME NEW c \in Client, Stay(c) PROVE Whole'
  BY <1>11, WholeKept DEF Stay
<1>12. ASSUME NEW c \in Client, UserStarts(c) PROVE Whole'
  BY <1>12, WholeKept DEF UserStarts
<1>13. CASE Load
  <2>1. CASE ini /\ new # Absent
    <3>1. ini = TRUE
      BY <2>1, Zenon DEF Types
    <3> QED
      BY <1>13, <2>1, <3>1 DEF Load, Whole, HeldBySlot
  <2>2. CASE ~(ini /\ new # Absent)
    BY <1>13, <2>2 DEF Load, Whole
  <2> QED
    BY <2>1, <2>2
<1>14. CASE Wait
  BY <1>14 DEF Wait, Whole, HeldBySlot
<1>15. CASE Install
  BY <1>15 DEF Install, Written, Whole, HeldBySlot
<1>16. CASE GiveUp
  BY <1>16 DEF GiveUp, Whole
<1>17. CASE Done
  BY <1>17 DEF Done, Whole
<1>18. CASE InstallFails
  BY <1>18 DEF InstallFails, Whole, HeldBySlot
<1>19. CASE Crash
  BY <1>19 DEF Crash, Whole
<1>20. CASE UNCHANGED vars
  BY <1>20, WholeKept DEF vars
<1> QED
  BY <1>1, <1>2, <1>3, <1>4, <1>5, <1>6, <1>7, <1>8, <1>9, <1>10, <1>11,
     <1>12, <1>13, <1>14, <1>15, <1>16, <1>17, <1>18, <1>19, <1>20
     DEF Next, CliStep, CliFault, HelperStep

LEMMA TornStep ==
    ASSUME UpdateAssumption, Types, Types', Whole, TornForCause, [Next]_vars
    PROVE  TornForCause'
<1> USE UpdateAssumption
<1>1. slot' >= slot /\ slot \in Int /\ slot' \in Int
  <2>1. slot \in Int /\ slot' \in Int
    BY DEF Types, Program
  <2>2. CASE SetProgram
    BY <2>1, <2>2 DEF SetProgram
  <2>3. CASE ~SetProgram
    <3>1. slot' = slot
      BY <2>3 DEF Next, CliStep, CliFault, HelperStep, vars, SetLabel, Ask, Synced,
                  Fetch, Store, Refuse, Leave, NotStarted, ConnectionLost, Stay,
                  UserStarts, Load, Wait, Install, GiveUp, Done, InstallFails, Crash
    <3> QED
      BY <2>1, <3>1
  <2> QED
    BY <2>2, <2>3
<1>2. ~AllSmall => ~AllSmall'
  BY <1>1 DEF AllSmall, Program
<1>3. faults \in Nat /\ faults' \in Nat
  BY DEF Types
<1>4. CASE exe' = exe /\ faults' >= faults
  BY <1>2, <1>3, <1>4 DEF TornForCause
<1>5. CASE Install
  \* Only a program of 64 KiB or more is cut, and the slot has held it.
  <2>1. HeldBySlot(data) /\ exe' = Written(data) /\ slot' = slot
    BY <1>5 DEF Install, Whole
  <2>2. exe' = Torn => data \in Big
    BY <2>1 DEF Written, HeldBySlot
  <2>3. data \in Big => ~AllSmall'
    <3>1. data \in Int /\ ~(data > slot')
      BY <1>1, <2>1 DEF HeldBySlot, Program
    <3> QED
      BY <3>1 DEF AllSmall
  <2> QED
    BY <2>2, <2>3 DEF TornForCause
<1>6. CASE InstallFails
  BY <1>6 DEF InstallFails, TornForCause
<1>7. CASE Crash
  BY <1>3, <1>7 DEF Crash, Fault, TornForCause
<1>8. CASE exe' = exe /\ Fault
  BY <1>3, <1>4, <1>8 DEF Fault
<1>9. \/ exe' = exe /\ (faults' = faults \/ Fault)
      \/ Install \/ InstallFails \/ Crash
  BY DEF Next, CliStep, CliFault, HelperStep, vars, SetProgram, SetLabel, Ask, Synced,
         Fetch, Store, Refuse, Leave, NotStarted, ConnectionLost, Stay,
         UserStarts, Load, Wait, GiveUp, Done
<1> QED
  BY <1>3, <1>4, <1>5, <1>6, <1>7, <1>8, <1>9

LEMMA SafeInvariant == ASSUME UpdateAssumption PROVE Spec => []Safe
<1>1. Init => Safe
  <2> SUFFICES ASSUME Init PROVE Safe
    OBVIOUS
  <2>1. 1 \in Program /\ 1 # Torn
    BY UpdateAssumption DEF Program
  <2>2. Types
    <3>1. /\ pc \in [Client -> Places] /\ ver \in [Client -> Program]
          /\ offer \in [Client -> Program \union {Absent}]
      BY <2>1 DEF Init, Places
    <3>2. faults \in 0..MaxFaults /\ label \in Program /\ slot \in Program
      BY <2>1, UpdateAssumption DEF Init
    <3>3. exe \in File /\ new \in File /\ data \in File
      BY <2>1 DEF Init, File
    <3>4. ini \in BOOLEAN /\ share \in BOOLEAN
      BY Zenon DEF Init
    <3>5. helper = "none"
      BY DEF Init
    <3> QED
      BY <3>1, <3>2, <3>3, <3>4, <3>5 DEF Types
  <2> QED
    BY <2>1, <2>2 DEF Init, Safe, Whole, TornForCause
<1>2. Safe /\ [Next]_vars => Safe'
  BY UpdateAssumption, TypesStep, WholeStep, TornStep DEF Safe
<1> QED
  BY <1>1, <1>2, PTL DEF Spec

\* Every variable keeps its type, and the helper starts nothing but a file it
\* has written.
THEOREM UpdateTypes == ASSUME UpdateAssumption PROVE Spec => []TypeInv
<1>1. Safe => TypeInv
  BY DEF Safe, Types, Whole, TypeInv, Places
<1> QED
  BY <1>1, SafeInvariant, PTL

\* However many clients update at once, whatever the operator exchanges between
\* offer, metadata and body, and whatever fails: unless there was a fault, the
\* installed program is torn only if the slot has held one of 64 KiB or more.
THEOREM TornOnlyForCause == ASSUME UpdateAssumption PROVE Spec => []TornForCause
<1>1. Safe => TornForCause
  BY DEF Safe
<1> QED
  BY <1>1, SafeInvariant, PTL

-----------------------------------------------------------------------------
(* One client synchronises.                                                *)

Syncing(c) == pc[c] \in {"idle", "ask", "body", "sync"}

\* As long as nothing has gone wrong, one client takes part in sessions, and
\* none while the helper is at work: the one that has started it has sent OK
\* and leaves.
Untroubled ==
    faults = 0 =>
        /\ \A c, d \in Client : Syncing(c) /\ Syncing(d) => c = d
        /\ helper # "none" => \A c \in Client : ~Syncing(c)

\* Faults are never undone.
LEMMA FaultsGrow ==
    ASSUME Types, [Next]_vars
    PROVE  faults' >= faults
BY DEF Next, CliStep, CliFault, HelperStep, vars, SetProgram, SetLabel, Ask, Synced,
       Fetch, Store, Refuse, Leave, NotStarted, ConnectionLost, Stay, UserStarts, Load,
       Wait, Install, GiveUp, Done, InstallFails, Crash, Fault, Types

\* A client that goes from one place of a session to another.
LEMMA SamePlaces ==
    ASSUME Types, Untroubled, faults = 0, helper' \in {helper, "none"},
           \A c \in Client : Syncing(c)' => Syncing(c)
    PROVE  Untroubled'
BY DEF Untroubled

LEMMA UntroubledStep ==
    ASSUME Types, Types', Untroubled, [Next]_vars
    PROVE  Untroubled'
<1> SUFFICES ASSUME faults' = 0 PROVE Untroubled'
  BY DEF Untroubled
<1>1. faults = 0 /\ ~Fault
  BY FaultsGrow DEF Types, Fault
<1> USE <1>1
<1>2. CASE SetProgram \/ SetLabel \/ UNCHANGED vars
  BY <1>2, SamePlaces DEF SetProgram, SetLabel, vars, Syncing
<1>3. ASSUME NEW c \in Client, Ask(c) \/ Synced(c) \/ Fetch(c) \/ Refuse(c)
      PROVE  Untroubled'
  BY <1>3, SamePlaces DEF Ask, Synced, Fetch, Refuse, Goto, Syncing, Types
<1>4. ASSUME NEW c \in Client, Store(c) PROVE Untroubled'
  \* The client that starts the helper was the only one.
  <2>1. \A d \in Client : Syncing(d)' => Syncing(d) /\ d # c
    BY <1>4 DEF Store, Goto, Syncing, Types
  <2>2. Syncing(c)
    BY <1>4 DEF Store, Syncing
  <2> QED
    BY <2>1, <2>2 DEF Untroubled
<1>5. ASSUME NEW c \in Client, Leave(c) PROVE Untroubled'
  BY <1>5, SamePlaces DEF Leave, Goto, Syncing, Types
<1>6. ASSUME NEW c \in Client, NotStarted(c) PROVE Untroubled'
  BY <1>6, SamePlaces DEF NotStarted, Goto, Syncing, Types
<1>7. ASSUME NEW c \in Client, UserStarts(c) PROVE Untroubled'
  <2>1. \A d \in Client : Syncing(d)' => d = c
    BY <1>7 DEF UserStarts, StartsAs, Running, Syncing, Types
  <2> QED
    BY <1>7, <2>1 DEF UserStarts, Untroubled
<1>8. CASE Load
  BY <1>8 DEF Load, Untroubled, Syncing
<1>9. CASE Wait \/ Install
  BY <1>9 DEF Wait, Install, Untroubled, Syncing
<1>10. CASE GiveUp
  BY <1>10, SamePlaces DEF GiveUp, Syncing
<1>11. CASE Done
  <2>1. ASSUME NEW c \in Client \ Running, StartsAs(c) PROVE Untroubled'
    <3>1. \A d \in Client : Syncing(d)' => d = c
      BY <1>11, <2>1 DEF Done, StartsAs, Untroubled, Syncing, Types
    <3> QED
      BY <1>11, <3>1 DEF Done, Untroubled
  <2>2. CASE UNCHANGED pc
    BY <1>11, <2>2, SamePlaces DEF Done, Syncing
  <2> QED
    BY <1>11, <2>1, <2>2 DEF Done
<1> QED
  BY <1>2, <1>3, <1>4, <1>5, <1>6, <1>7, <1>8, <1>9, <1>10, <1>11
     DEF Next, CliStep, CliFault, HelperStep, ConnectionLost, Stay, InstallFails, Crash

-----------------------------------------------------------------------------
(* One fault leaves a whole program.                                       *)

\* The first fault can destroy W16SYNC.EXE only while W16NEW.EXE is whole, and
\* then no client runs that would delete it.
Spare ==
    faults <= 1 /\ AllSmall =>
        /\ \/ exe \in Program
           \/ /\ new \in Program /\ helper \in {"none", "try"}
              /\ \A c \in Client : ~Syncing(c)
        /\ faults = 0 => /\ exe \in Program
                         /\ helper \in {"load", "first", "try"} => new \in Program

\* The slot takes higher versions only.
LEMMA SmallStays ==
    ASSUME Types, Types', [Next]_vars, AllSmall'
    PROVE  AllSmall
<1>1. slot' >= slot /\ slot \in Int /\ slot' \in Int
  BY DEF Next, CliStep, CliFault, HelperStep, vars, SetProgram, SetLabel, Ask, Synced,
         Fetch, Store, Refuse, Leave, NotStarted, ConnectionLost, Stay, UserStarts, Load,
         Wait, Install, GiveUp, Done, InstallFails, Crash, Types, Program
<1> QED
  BY <1>1, UpdateAssumption DEF AllSmall, Program

LEMMA SmallWritten ==
    ASSUME Types, AllSmall, NEW p, HeldBySlot(p)
    PROVE  Written(p) \in Program
<1>1. p \in Int /\ slot \in Int /\ ~(p > slot)
  BY DEF Types, HeldBySlot, Program
<1>2. p \notin Big
  BY <1>1 DEF AllSmall
<1> QED
  BY <1>2 DEF Written, HeldBySlot

LEMMA SpareStep ==
    ASSUME Types, Types', Whole, Untroubled, Spare, [Next]_vars
    PROVE  Spare'
<1> SUFFICES ASSUME faults' <= 1, AllSmall' PROVE Spare'
  BY DEF Spare
<1>1. faults \in Nat /\ faults' \in Nat /\ faults' >= faults
  BY FaultsGrow DEF Types
<1>2. AllSmall /\ faults <= 1
  BY <1>1, SmallStays
<1>3. Fault => faults = 0 /\ faults' = 1
  BY <1>1 DEF Fault
<1>4. CASE faults = 0 /\ helper = "none" /\ UNCHANGED <<exe, helper, faults>>
  \* Nothing has gone wrong and the helper is not there.
  BY <1>2, <1>4 DEF Spare
<1>5. CASE exe \in Program /\ exe' = exe /\ faults' = 1
  BY <1>5 DEF Spare
<1>6. CASE exe \notin Program
  <2>1. /\ faults = 1 /\ new \in Program /\ helper \in {"none", "try"}
        /\ \A c \in Client : ~Syncing(c)
    BY <1>1, <1>2, <1>6 DEF Spare
  <2>2. CASE \/ SetProgram \/ SetLabel \/ GiveUp \/ UNCHANGED vars
             \/ \E c \in Client : Leave(c)
    <3>1. /\ UNCHANGED <<new, faults>> /\ helper' \in {"none", "try"}
          /\ \A c \in Client : ~Syncing(c)'
      BY <2>1, <2>2 DEF SetProgram, SetLabel, GiveUp, vars, Leave, Goto, Syncing, Types
    <3> QED
      BY <2>1, <3>1 DEF Spare
  <2>3. CASE Install
    <3>1. exe' = Written(data) /\ HeldBySlot(data) /\ faults' = 1
      BY <2>1, <2>3 DEF Install, Whole
    <3>2. exe' \in Program
      BY <1>2, <3>1, SmallWritten
    <3> QED
      BY <3>1, <3>2 DEF Spare
  <2> QED
    BY <1>3, <1>6, <2>1, <2>2, <2>3
       DEF Next, CliStep, CliFault, HelperStep, Ask, Synced, Fetch, Store, Refuse,
           NotStarted, ConnectionLost, Stay, UserStarts, StartsAs, Load, Wait, Done,
           InstallFails, Crash, Syncing
<1>7. CASE exe \in Program /\ faults' = 0
  <2>1. /\ faults = 0 /\ ~Fault
        /\ helper \in {"load", "first", "try"} => new \in Program
        /\ helper # "none" => \A c \in Client : ~Syncing(c)
    BY <1>1, <1>2, <1>3, <1>7 DEF Spare, Untroubled
  <2>2. CASE SetProgram \/ SetLabel \/ UNCHANGED vars \/ \E c \in Client : Leave(c)
    BY <1>7, <2>1, <2>2 DEF SetProgram, SetLabel, vars, Leave, Spare
  <2>3. ASSUME NEW c \in Client,
               Ask(c) \/ Synced(c) \/ Fetch(c) \/ Refuse(c) \/ NotStarted(c) \/ UserStarts(c)
        PROVE  Spare'
    <3>1. helper = "none"
      BY <2>1, <2>3 DEF Ask, Synced, Fetch, Refuse, NotStarted, UserStarts, Syncing
    <3> QED
      BY <1>4, <2>1, <2>3, <3>1 DEF Ask, Synced, Fetch, Refuse, NotStarted, UserStarts
  <2>4. ASSUME NEW c \in Client, Store(c) PROVE Spare'
    BY <1>7, <2>4 DEF Store, Verified, Received, Types, Spare
  <2>5. CASE Load \/ Wait
    BY <1>7, <2>1, <2>5 DEF Load, Wait, Spare
  <2>6. CASE Install
    <3>1. exe' = Written(data) /\ HeldBySlot(data) /\ helper' = "done"
      BY <2>6 DEF Install, Whole
    <3>2. exe' \in Program
      BY <1>2, <3>1, SmallWritten
    <3> QED
      BY <3>1, <3>2 DEF Spare
  <2>7. CASE GiveUp \/ Done
    BY <1>7, <2>7 DEF GiveUp, Done, Spare
  <2> QED
    BY <2>1, <2>2, <2>3, <2>4, <2>5, <2>6, <2>7
       DEF Next, CliStep, CliFault, HelperStep, ConnectionLost, Stay, InstallFails, Crash
<1>8. CASE exe \in Program /\ faults' = 1 /\ exe' # exe
  <2>1. CASE Install
    <3>1. exe' = Written(data) /\ HeldBySlot(data)
      BY <2>1 DEF Install, Whole
    <3>2. exe' \in Program
      BY <1>2, <3>1, SmallWritten
    <3> QED
      BY <1>8, <3>2 DEF Spare
  <2>2. CASE InstallFails \/ Crash
    <3>1. /\ faults = 0 /\ helper \in {"first", "try"} /\ new' = new
          /\ helper' \in {"none", "try"}
      BY <1>3, <1>8, <2>2 DEF InstallFails, Crash
    <3>2. new \in Program /\ \A c \in Client : ~Syncing(c)
      BY <1>2, <3>1 DEF Spare, Untroubled
    <3>3. \A c \in Client : ~Syncing(c)'
      BY <2>2, <3>2 DEF InstallFails, Crash, Syncing
    <3> QED
      BY <1>8, <3>1, <3>2, <3>3 DEF Spare
  <2> QED
    BY <1>8, <2>1, <2>2
       DEF Next, CliStep, CliFault, HelperStep, vars, SetProgram, SetLabel, Ask, Synced,
           Fetch, Store, Refuse, Leave, NotStarted, ConnectionLost, Stay, UserStarts,
           Load, Wait, GiveUp, Done
<1>9. faults' \in {0, 1}
  BY <1>1
<1> QED
  BY <1>5, <1>6, <1>7, <1>8, <1>9

LEMMA SpareInvariant == ASSUME UpdateAssumption PROVE Spec => [](Untroubled /\ Spare)
<1>1. Init => Untroubled /\ Spare
  <2>1. 1 \in Program
    BY UpdateAssumption DEF Program
  <2> QED
    BY <2>1 DEF Init, Untroubled, Spare, Syncing
<1>2. Safe /\ Safe' /\ Untroubled /\ Spare /\ [Next]_vars => Untroubled' /\ Spare'
  BY UntroubledStep, SpareStep DEF Safe
<1> QED
  BY <1>1, <1>2, SafeInvariant, PTL DEF Spec

\* The old client and the new one are never in a session at once unless
\* something has gone wrong, however many instances there are.
THEOREM OneClientSyncs == ASSUME UpdateAssumption PROVE Spec => []OneSyncs
<1>1. Untroubled => OneSyncs
  <2> SUFFICES ASSUME Untroubled, faults = 0 PROVE OneSyncs
    BY DEF OneSyncs
  <2> DEFINE S == {c \in Client : pc[c] \in {"idle", "ask", "body", "sync"}}
  <2>1. \A c, d \in S : c = d
    BY DEF Untroubled, Syncing
  <2>2. S = {} \/ \E c : S = {c}
    BY <2>1
  <2>3. Cardinality(S) <= 1
    <3> HIDE DEF S
    <3>1. CASE S = {}
      BY <3>1, FS_EmptySet
    <3>2. ASSUME NEW c, S = {c} PROVE Cardinality(S) <= 1
      <4>1. Cardinality({c}) = 1
        BY FS_Singleton
      <4> QED
        BY <3>2, <4>1
    <3> QED
      BY <2>2, <3>1, <3>2
  <2> QED
    BY <2>3 DEF OneSyncs
<1> QED
  BY <1>1, SpareInvariant, PTL

\* Whatever single thing goes wrong, at whatever moment of whatever update: a
\* whole program is left under one of its two names.
THEOREM ProgramSurvives == ASSUME UpdateAssumption PROVE Spec => []CopyLeft
<1>1. Spare => CopyLeft
  BY DEF Spare, CopyLeft
<1> QED
  BY <1>1, SpareInvariant, PTL

=============================================================================
