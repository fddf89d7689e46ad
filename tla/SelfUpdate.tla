----------------------------- MODULE SelfUpdate -----------------------------
(***************************************************************************)
(* How the client replaces itself: the offer of the server's update slot,  *)
(* the download of W16NEW.EXE, the helper that is started from it, waits   *)
(* until it can overwrite the program, and starts the new client.          *)
(*                                                                         *)
(* A program is its version number.  A file is a program, Torn (incomplete)*)
(* or Absent.  The operator puts a new binary into the slot and then its   *)
(* version text, each by a rename.                                         *)
(***************************************************************************)
EXTENDS Integers, FiniteSets

CONSTANTS
    MaxVersion,     \* bound: programs are 1..MaxVersion
    Big,            \* programs of 64 KiB and more
    Client,         \* instances of the client that fit into memory
    MaxFaults,      \* bound: lost connections, failed starts and writes, crashes
    Torn, Absent

Program == 1..MaxVersion
File    == Program \union {Torn, Absent}

ASSUME UpdateAssumption ==
    /\ MaxVersion \in Nat \ {0} /\ MaxFaults \in Nat
    /\ Big \subseteq Program
    /\ Torn \notin Program /\ Absent \notin Program /\ Torn # Absent

VARIABLES
    label, slot,    \* VERSION.TXT and the binary in the server's slot
    pc, ver, offer, \* the clients: where they are, their version, what they were offered
    exe, new, ini,  \* W16SYNC.EXE, W16NEW.EXE, W16UPD.INI is there
    helper,         \* the helper: "none", or where it is
    data,           \* the program it has in memory
    share,          \* SHARE.EXE guards running programs against writes
    faults

vars == <<label, slot, pc, ver, offer, exe, new, ini, helper, data, share, faults>>

Init ==
    /\ label = 1 /\ slot = 1
    /\ pc = [c \in Client |-> "off"] /\ ver = [c \in Client |-> 1]
    /\ offer = [c \in Client |-> Absent]
    /\ exe = 1 /\ new = Absent /\ ini = FALSE
    /\ helper = "none" /\ data = Absent
    /\ share \in BOOLEAN
    /\ faults = 0

\* Windows is cooperative: the helper loads its program and tries for the
\* first time before it yields.
Yielded == helper # "first"

\* And WinExec has started it long before another client gets an answer.
Loaded == helper \notin {"load", "first"}

Running == {c \in Client : pc[c] # "off"}
Fault   == faults < MaxFaults /\ faults' = faults + 1
Goto(c, where) == pc' = [pc EXCEPT ![c] = where]

-----------------------------------------------------------------------------
(* The slot.                                                               *)

SetProgram ==
    /\ slot < MaxVersion
    /\ slot' \in (slot + 1)..MaxVersion
    /\ UNCHANGED <<label, pc, ver, offer, exe, new, ini, helper, data, share, faults>>

SetLabel ==
    /\ label # slot
    /\ label' = slot
    /\ UNCHANGED <<slot, pc, ver, offer, exe, new, ini, helper, data, share, faults>>

-----------------------------------------------------------------------------
(* The client.                                                             *)

\* Mistake: an offer of the client's own version is taken.
OffersNewerOrSame(c) == label >= ver[c]

\* compare_result > 0 in proto_sync_directory.
OffersNewer(c) == label > ver[c]

\* UPDATECHECK.  proto_receive_update deletes what an earlier update has left.
Ask(c) ==
    /\ pc[c] = "idle" /\ Loaded
    /\ IF OffersNewer(c)
         THEN /\ Goto(c, "ask")
              /\ offer' = [offer EXCEPT ![c] = slot]
              /\ new' = Absent /\ ini' = FALSE
         ELSE /\ Goto(c, "sync")
              /\ UNCHANGED <<offer, new, ini>>
    /\ UNCHANGED <<label, slot, ver, exe, helper, data, share, faults>>

\* The session goes on to the manifests.
Synced(c) ==
    /\ pc[c] = "sync"
    /\ Goto(c, "idle")
    /\ UNCHANGED <<label, slot, ver, offer, exe, new, ini, helper, data, share, faults>>

\* GETUPDATE reads the slot again; other metadata than were offered end the
\* session.
Fetch(c) ==
    /\ pc[c] = "ask" /\ Loaded
    /\ IF slot = offer[c] THEN Goto(c, "body") /\ new' = Torn
                          ELSE Goto(c, "idle") /\ UNCHANGED new
    /\ UNCHANGED <<label, slot, ver, offer, exe, ini, helper, data, share, faults>>

\* Mistake: the checksum of what was received is not compared.
VerifiedAnything(c) == TRUE

\* The file is opened after its metadata were sent; its size and checksum
\* tell it from the one that was offered.
Verified(c) == slot = offer[c]

Received(c) == IF slot = offer[c] THEN slot ELSE Torn

\* The body, its checksum, the INI file and the start of the helper.
Store(c) ==
    /\ pc[c] = "body" /\ Verified(c) /\ helper = "none"
    /\ new' = Received(c) /\ ini' = TRUE
    /\ helper' = "load"
    /\ Goto(c, "ok")
    /\ UNCHANGED <<label, slot, ver, offer, exe, data, share, faults>>

Refuse(c) ==
    /\ pc[c] = "body" /\ ~Verified(c)
    /\ new' = Absent
    /\ Goto(c, "idle")
    /\ UNCHANGED <<label, slot, ver, offer, exe, ini, helper, data, share, faults>>

\* WinExec fails: W16NEW.EXE stays.
NotStarted(c) ==
    /\ pc[c] = "body" /\ Verified(c)
    /\ IF helper = "none" THEN Fault ELSE UNCHANGED faults
    /\ new' = slot /\ ini' = FALSE
    /\ Goto(c, "idle")
    /\ UNCHANGED <<label, slot, ver, offer, exe, helper, data, share>>

ConnectionLost(c) ==
    /\ Fault
    /\ \/ pc[c] \in {"ask", "sync"} /\ UNCHANGED new
       \/ pc[c] = "body" /\ new' = Absent
    /\ Goto(c, "idle")
    /\ UNCHANGED <<label, slot, ver, offer, exe, ini, helper, data, share>>

\* Mistake: the old client goes on after it has sent OK.
LeaveNot(c) ==
    /\ pc[c] = "ok"
    /\ Goto(c, "idle")
    /\ UNCHANGED <<label, slot, ver, offer, exe, new, ini, helper, data, share, faults>>

\* OK is sent and the dialog ended (PROTO_SYNC_RESULT_UPDATE in app_run_sync).
Leave(c) ==
    /\ pc[c] = "ok"
    /\ Goto(c, "off")
    /\ UNCHANGED <<label, slot, ver, offer, exe, new, ini, helper, data, share, faults>>

\* OK cannot be sent: an error like any other, the old client stays.
Stay(c) ==
    /\ pc[c] = "ok" /\ Fault
    /\ Goto(c, "idle")
    /\ UNCHANGED <<label, slot, ver, offer, exe, new, ini, helper, data, share>>

\* WinMain, for a program that is whole; app_cleanup_update_artifacts cannot
\* delete the file of a running helper that SHARE guards.
StartsAs(c) ==
    /\ exe \in Program
    /\ pc' = [pc EXCEPT ![c] = "idle"] /\ ver' = [ver EXCEPT ![c] = exe]
    /\ ini' = FALSE
    /\ new' \in IF share /\ helper = "done" THEN {new, Absent} ELSE {Absent}

\* Users start the client when neither it nor the helper runs.
UserStarts(c) ==
    /\ Running = {} /\ helper = "none"
    /\ StartsAs(c)
    /\ UNCHANGED <<label, slot, offer, exe, helper, data, share, faults>>

-----------------------------------------------------------------------------
(* The helper, app_run_update_mode.                                        *)

\* Mistake: the program is moved, not copied.
LoadMoves ==
    /\ helper = "load"
    /\ helper' = "first" /\ data' = new /\ new' = Absent
    /\ UNCHANGED <<label, slot, pc, ver, offer, exe, ini, share, faults>>

\* Target and program are read into memory, or the helper gives up.
Load ==
    /\ helper = "load"
    /\ IF ini /\ new # Absent THEN helper' = "first" /\ data' = new
                              ELSE helper' = "none" /\ UNCHANGED data
    /\ UNCHANGED <<label, slot, pc, ver, offer, exe, new, ini, share, faults>>

\* SHARE lets nobody write to a program that runs.
Guarded == share /\ Running # {}

\* Sizes are cast to 16 bits for malloc, fread and fwrite.
Written(p) == IF p \in Big THEN Torn ELSE p

\* Delete and write; nothing else runs in between.
Install ==
    /\ helper \in {"first", "try"} /\ ~Guarded
    /\ exe' = Written(data)
    /\ helper' = "done"
    /\ UNCHANGED <<label, slot, pc, ver, offer, new, ini, data, share, faults>>

\* A write that fails removes the target: the helper tries again.
InstallFails ==
    /\ helper \in {"first", "try"} /\ ~Guarded /\ Fault
    /\ exe' = Absent
    /\ helper' = "try"
    /\ UNCHANGED <<label, slot, pc, ver, offer, new, ini, data, share>>

\* The program still runs and is guarded.
Wait ==
    /\ helper = "first" /\ Guarded
    /\ helper' = "try"
    /\ UNCHANGED <<label, slot, pc, ver, offer, exe, new, ini, data, share, faults>>

\* After 30 seconds without success, longer than the old client takes to leave.
GiveUp ==
    /\ helper = "try" /\ (Guarded \/ exe = Absent)
    /\ \A c \in Client : pc[c] # "ok"
    /\ helper' = "none" /\ data' = Absent
    /\ UNCHANGED <<label, slot, pc, ver, offer, exe, new, ini, share, faults>>

\* The INI file is deleted and the new client started, if it can be.
Done ==
    /\ helper = "done"
    /\ helper' = "none" /\ data' = Absent
    /\ \/ \E c \in Client \ Running : StartsAs(c)
       \/ /\ exe \notin Program \/ Running = Client
          /\ ini' = FALSE /\ UNCHANGED <<pc, ver, new>>
    /\ UNCHANGED <<label, slot, offer, exe, share, faults>>

-----------------------------------------------------------------------------
\* A crash or a reboot, at worst while the helper writes.
Crash ==
    /\ Fault
    /\ pc' = [c \in Client |-> "off"]
    /\ helper' = "none" /\ data' = Absent
    /\ exe' \in IF helper \in {"first", "try"} /\ ~Guarded THEN {exe, Absent, Torn} ELSE {exe}
    /\ UNCHANGED <<label, slot, ver, offer, new, ini, share>>

CliStep(c) ==
    /\ Yielded
    /\ \/ Ask(c) \/ Synced(c) \/ Fetch(c) \/ Store(c) \/ Refuse(c) \/ Leave(c)
       \/ helper # "none" /\ NotStarted(c)

CliFault(c) == Yielded /\ (NotStarted(c) \/ ConnectionLost(c) \/ Stay(c))

HelperStep == Load \/ Wait \/ Install \/ GiveUp \/ Done

Next ==
    \/ SetProgram \/ SetLabel
    \/ \E c \in Client : CliStep(c) \/ CliFault(c) \/ UserStarts(c)
    \/ HelperStep \/ InstallFails \/ Crash

\* Timer and helper go on; a user starts the client when it does not run.
Spec ==
    /\ Init /\ [][Next]_vars
    /\ \A c \in Client : WF_vars(CliStep(c))
    /\ WF_vars(HelperStep)
    /\ WF_vars(\E c \in Client : UserStarts(c))

-----------------------------------------------------------------------------
(* Properties.                                                             *)

\* Types; and the helper starts nothing but what it has written.
TypeInv ==
    /\ label \in Program /\ slot \in Program
    /\ \A c \in Client : /\ pc[c] \in {"off", "idle", "ask", "body", "ok", "sync"}
                         /\ ver[c] \in Program /\ offer[c] \in Program \union {Absent}
    /\ exe \in File /\ new \in File /\ ini \in BOOLEAN
    /\ helper \in {"none", "load", "first", "try", "done"} /\ data \in File
    /\ share \in BOOLEAN /\ faults \in 0..MaxFaults
    /\ helper = "done" => exe # Absent

\* The slot has held small programs only.
AllSmall == \A p \in Big : p > slot

\* With one thing going wrong at most, a whole program is left on the
\* client's disk at every moment, under one of its two names.
CopyLeft == faults <= 1 /\ AllSmall => exe \in Program \/ new \in Program

\* The program is torn only by a crash or by its own size: whatever the
\* operator changes between offer, metadata and body, nothing that was not
\* the slot's program as offered is installed.
TornForCause == exe = Torn => ~AllSmall \/ faults > 0

\* Without a fault at most one client takes part in sessions, although the
\* helper starts the new one while the old one may still be there.
OneSyncs == faults = 0 => Cardinality({c \in Client : pc[c] \in {"idle", "ask", "body", "sync"}}) <= 1

\* As long as the program on the disk is whole, there is always another
\* session that synchronises: updates come to an end.
SyncsAgain == []<>(\E c \in Client : pc[c] = "sync") \/ <>[](exe \notin Program)
=============================================================================
