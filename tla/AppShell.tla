------------------------------ MODULE AppShell ------------------------------
(***************************************************************************)
(* The client's window: its controls, the settings in memory (g_app), in   *)
(* W16SYNC.INI and in the autostart lines of WIN.INI, the timer, and the   *)
(* sessions they start.                                                    *)
(*                                                                         *)
(* There is one task.  A session blocks in Winsock, which dispatches       *)
(* window messages: every handler can run inside a session.                *)
(***************************************************************************)
EXTENDS Naturals, Sequences

CONSTANTS
    Root,           \* folders a user chooses
    DefaultRoot,
    Number,         \* values of the interval field
    Name,           \* what the entries of the lines of WIN.INI say
    Exe, MinSwitch, \* entries: the path of W16SYNC.EXE and the switch /MIN
    Line,           \* lines that WIN.INI holds at first
    LineCapacity,   \* bytes of the buffers for a line
    Absent,         \* a key that is not in the INI file
    MaxEdits        \* bound: fields that a user changes

Boot == [root |-> DefaultRoot, interval |-> 15, autostart |-> FALSE, min |-> FALSE]

\* An entry of a line has so many characters (fewer than the buffer of a token
\* holds, as every path of DOS).  A Gap stands for a space behind a space.
Token == [name : Name \union {Absent}, width : Nat]
Gap   == [name |-> Absent, width |-> 0]

\* The keys in the order in which app_save_config writes them.
Keys == <<"root", "interval", "autostart", "min">>

ASSUME ShellAssumption ==
    /\ DefaultRoot \in Root
    /\ MaxEdits \in Nat /\ Number \subseteq Nat /\ 15 \in Number
    /\ {Exe, MinSwitch} \subseteq Token \ {Gap} /\ Exe # MinSwitch
    /\ LineCapacity \in Nat
    /\ Line \subseteq Seq(Token)
    /\ Absent \notin Root /\ Absent \notin Number /\ Absent \notin BOOLEAN

VARIABLES
    controls, edits,    \* what the window shows; fields changed so far
    app,                \* root_dir, sync_interval_seconds, autostart, start_minimized
    ini,                \* W16SYNC.INI
    run, load,          \* the lines run= and load= of WIN.INI
    timer,              \* the period of the timer in milliseconds, 0 without one
    open,               \* the dialog has not been ended
    active,             \* activations of app_run_sync that have not returned
    sync_running,
    \* history:
    folder,             \* the folder with which the session has begun
    touched,            \* the settings were saved since then
    kept,               \* the settings last saved or loaded as a whole
    stale               \* since then, or since ever, saving has failed

winini  == <<run, load>>
session == <<active, sync_running, folder, touched>>
vars    == <<controls, edits, app, ini, winini, timer, open, session, kept, stale>>

-----------------------------------------------------------------------------
(* The settings.                                                           *)

app_parse_interval_text(n) == IF n \in 1..3600 THEN n ELSE 15

\* The product is an unsigned int of 16 bits.
Period(s) == (s.interval * 1000) % 2^16

app_read_controls == [controls EXCEPT !.interval = app_parse_interval_text(@)]

app_load_config ==
    LET s == [k \in DOMAIN Boot |-> IF ini[k] = Absent THEN Boot[k] ELSE ini[k]]
    IN  [s EXCEPT !.interval = app_parse_interval_text(@)]

\* Characters up to the end of each entry, with the space or NUL behind it.
Ends(line) ==
    LET ends[n \in 0..Len(line)] ==
          IF n = 0 THEN 0 ELSE ends[n - 1] + line[n].width + 1
    IN  ends

\* The bytes of a line that is not empty.
Size(line) == Ends(line)[Len(line)]

\* What is read into the buffer: an entry may be cut, and behind it is nothing.
GetProfileString(line) ==
    LET ends == Ends(line)
    IN  [n \in 1..Len(line) |->
           IF ends[n] <= LineCapacity THEN line[n]
           ELSE IF ends[n - 1] + 1 < LineCapacity
             THEN [line[n] EXCEPT !.width = LineCapacity - 1 - ends[n - 1]]
           ELSE Gap]

\* Without room for the token its space may be there already.
app_append_token(line, token) ==
    IF Size(line) + token.width + 1 < LineCapacity THEN Append(line, token)
    ELSE IF line # <<>> /\ Size(line) + 1 < LineCapacity THEN Append(line, Gap)
    ELSE line

\* Mistake: the switch goes wherever it is.
app_remove_autostart_entry_all(line) ==
    SelectSeq(line, LAMBDA token : token \notin {Exe, MinSwitch})

\* What is copied of the first n entries, and whether the program came last.
Copied(line) ==
    LET copied[n \in 0..Len(line)] ==
          IF n = 0 THEN [line |-> <<>>, skip |-> FALSE]
          ELSE IF line[n] = Gap THEN copied[n - 1]
          ELSE IF line[n] = Exe THEN [copied[n - 1] EXCEPT !.skip = TRUE]
          ELSE IF line[n] = MinSwitch /\ copied[n - 1].skip
            THEN [copied[n - 1] EXCEPT !.skip = FALSE]
          ELSE [line |-> app_append_token(copied[n - 1].line, line[n]), skip |-> FALSE]
    IN  copied

\* The program goes, and /MIN right behind it.
app_remove_autostart_entry(line) == Copied(line)[Len(line)].line

\* Mistake: only the line that gets the program is cleaned.
app_apply_autostart_one_line(s) ==
    LET Updated(line, here) ==
          IF here THEN app_append_token(app_remove_autostart_entry(GetProfileString(line)), Exe)
                  ELSE GetProfileString(line)
    IN  /\ run'  = Updated(run, s.autostart /\ ~s.min)
        /\ load' = Updated(load, s.autostart /\ s.min)

app_apply_autostart(s) ==
    LET Updated(line, here) ==
          LET cleaned == app_remove_autostart_entry(GetProfileString(line))
          IN  IF here THEN app_append_token(cleaned, Exe) ELSE cleaned
    IN  /\ run'  = Updated(run, s.autostart /\ ~s.min)
        /\ load' = Updated(load, s.autostart /\ s.min)

\* app_save_config, without the timer that it sets anew.
SaveWorks(s) ==
    /\ ini' = s
    /\ app_apply_autostart(s)
    /\ kept' = s /\ stale' = FALSE

\* It returns at the first key that cannot be written.
SaveFails(s) ==
    /\ \E n \in 0..Len(Keys) - 1 :
         ini' = [k \in DOMAIN ini |-> IF k \in {Keys[i] : i \in 1..n} THEN s[k] ELSE ini[k]]
    /\ stale' = TRUE
    /\ UNCHANGED <<winini, kept>>

-----------------------------------------------------------------------------
(* Sessions.                                                               *)

Begins(s) ==
    /\ active' = active + 1 /\ sync_running' = TRUE
    /\ folder' = s.root /\ touched' = FALSE

\* Mistake: the controls are read before the running session is noticed.
TimerSyncReads ==
    /\ open /\ timer # 0
    /\ app' = app_read_controls
    /\ IF sync_running THEN UNCHANGED session ELSE Begins(app')
    /\ UNCHANGED <<controls, edits, ini, winini, timer, open, kept, stale>>

\* WM_TIMER, app_run_sync(0): unsaved settings are used.
TimerSync ==
    /\ open /\ timer # 0
    /\ ~sync_running
    /\ app' = app_read_controls
    /\ Begins(app')
    /\ UNCHANGED <<controls, edits, ini, winini, timer, open, kept, stale>>

\* IDC_SYNCNOW, app_run_sync(1): no session with settings that cannot be saved.
ManualSync ==
    /\ open
    /\ ~sync_running
    /\ app' = app_read_controls
    /\ \/ SaveWorks(app') /\ timer' = Period(app') /\ Begins(app')
       \/ SaveFails(app') /\ UNCHANGED <<timer, session>>
    /\ UNCHANGED <<controls, edits, open>>

Returns == active' = active - 1 /\ folder' = DefaultRoot /\ touched' = FALSE

\* Mistake: a session that fails does not give sync_running back.
SyncReturnsBusy ==
    /\ active > 0
    /\ Returns
    /\ sync_running' \in BOOLEAN
    /\ UNCHANGED <<controls, edits, app, ini, winini, timer, open, kept, stale>>

\* proto_sync_directory returns, well or with an error.
SyncReturns ==
    /\ active > 0
    /\ Returns /\ sync_running' = FALSE
    /\ UNCHANGED <<controls, edits, app, ini, winini, timer, open, kept, stale>>

\* With PROTO_SYNC_RESULT_UPDATE the program ends.
SyncUpdates ==
    /\ active > 0
    /\ Returns /\ sync_running' = FALSE
    /\ timer' = 0 /\ open' = FALSE
    /\ UNCHANGED <<controls, edits, app, ini, winini, kept, stale>>

-----------------------------------------------------------------------------
(* The window.                                                             *)

\* WinMain and WM_INITDIALOG.
Start ==
    /\ ~open /\ active = 0
    /\ app' = app_load_config
    /\ controls' = app' /\ timer' = Period(app') /\ kept' = app'
    /\ open' = TRUE /\ sync_running' = FALSE
    /\ UNCHANGED <<edits, ini, winini, active, folder, touched, stale>>

\* The user changes one field.
Edit ==
    /\ open
    /\ controls' \in {[controls EXCEPT !.root = r] : r \in Root}
                \union {[controls EXCEPT !.interval = n] : n \in Number}
                \union {[controls EXCEPT !.autostart = b] : b \in BOOLEAN}
                \union {[controls EXCEPT !.min = b] : b \in BOOLEAN}
    /\ controls' # controls
    /\ edits < MaxEdits /\ edits' = edits + 1
    /\ UNCHANGED <<app, ini, winini, timer, open, session, kept, stale>>

\* IDC_SAVE, inside a session too.
Save ==
    /\ open
    /\ app' = app_read_controls
    /\ \/ SaveWorks(app') /\ timer' = Period(app')
       \/ SaveFails(app') /\ UNCHANGED timer
    /\ touched' = (active > 0)
    /\ UNCHANGED <<controls, edits, open, active, sync_running, folder>>

\* IDC_EXIT: the result of saving is ignored; a session runs to its end.
Exit ==
    /\ open
    /\ app' = app_read_controls
    /\ SaveWorks(app') \/ SaveFails(app')
    /\ timer' = 0 /\ open' = FALSE
    /\ touched' = (active > 0)
    /\ UNCHANGED <<controls, edits, active, sync_running, folder>>

\* The machine is switched off.
PowerOff ==
    /\ open \/ active > 0
    /\ open' = FALSE /\ timer' = 0 /\ active' = 0 /\ sync_running' = FALSE
    /\ controls' = Boot /\ app' = Boot /\ folder' = DefaultRoot /\ touched' = FALSE
    /\ UNCHANGED <<edits, ini, winini, kept, stale>>

-----------------------------------------------------------------------------
Init ==
    /\ controls = Boot /\ edits = 0 /\ app = Boot
    /\ ini = [k \in DOMAIN Boot |-> Absent]
    /\ run \in Line /\ load \in Line
    /\ timer = 0 /\ open = FALSE
    /\ active = 0 /\ sync_running = FALSE /\ folder = DefaultRoot /\ touched = FALSE
    /\ kept = Boot /\ stale = TRUE

Next ==
    \/ TimerSync \/ ManualSync \/ SyncReturns \/ SyncUpdates
    \/ Start \/ Edit \/ Save \/ Exit \/ PowerOff

\* The timer's messages arrive, and every session returns (see Transport).
Spec == Init /\ [][Next]_vars /\ WF_vars(TimerSync) /\ WF_vars(SyncReturns)

-----------------------------------------------------------------------------
(* Properties.                                                             *)

\* Messages that arrive inside a session do not start another one.
OneSession == active <= 1

\* A session works in the folder with which it began, whatever the user types
\* and the timer does, unless the settings are saved meanwhile (it reads
\* g_app.root_dir in place).
FolderStays == active > 0 /\ ~touched => app.root = folder

\* A line without room for the program.
Full(line) == Size(line) + Exe.width + 1 >= LineCapacity

\* The timer, the INI file and the autostart lines follow the settings last
\* saved as a whole, not the fields that are being edited nor the settings of
\* a timer's session: an entry in the right line, if it has room for one, and
\* none elsewhere.
KeptEverywhere ==
    LET Entries(line) == {i \in DOMAIN line : line[i] = Exe}
        Follows(line, here) == /\ Entries(line) # {} => here
                               /\ here => Entries(line) # {} \/ Full(line)
    IN  /\ open => timer = Period(kept)
        /\ ~stale => /\ app_load_config = kept
                     /\ Follows(run, kept.autostart /\ ~kept.min)
                     /\ Follows(load, kept.autostart /\ kept.min)

\* The last entry before place i is the program.
BehindExe(line, i) ==
    \E j \in DOMAIN line : /\ j < i /\ line[j] = Exe
                          /\ \A k \in j + 1..i - 1 : line[k] = Gap

\* Where a line has entries of other programs: neither W16SYNC.EXE nor a /MIN
\* right behind it.
Others(line) ==
    {i \in DOMAIN line :
        line[i] \notin {Gap, Exe} /\ ~(line[i] = MinSwitch /\ BehindExe(line, i))}

\* The entries of other programs in new are those in line, in their order.
SameOthers(line, new) ==
    \E from \in [Others(new) -> Others(line)] :
        /\ \A i, j \in Others(new) : i < j => from[i] < from[j]
        /\ \A k \in Others(line) : \E i \in Others(new) : from[i] = k
        /\ \A i \in Others(new) : new[i] = line[from[i]]

\* What other programs have in a line of WIN.INI stays, in its order and with
\* its switches, if the line leaves one byte of the buffer free.  (Of a longer
\* line the code writes back the beginning, without an error.)
OthersKept ==
    [][/\ Size(run) < LineCapacity => SameOthers(run, run')
       /\ Size(load) < LineCapacity => SameOthers(load, load')]_vars

\* While the window is open, there is another session again and again, also
\* after one that has failed.
KeepsSyncing == <>[]open => []<>(active > 0) /\ []<>(active = 0)
=============================================================================
