--------------------------- MODULE SettingsProofs ----------------------------
(***************************************************************************)
(* Proofs about the two interfaces through which settings change: the      *)
(* client's window (AppShell) and the server's threads that share a        *)
(* configuration and a manifest cache (ServerConfig), for every set of     *)
(* folders, intervals, lines of WIN.INI and sessions.                      *)
(***************************************************************************)
EXTENDS MCSettings, Iteration, TLAPS

-----------------------------------------------------------------------------
(* The window: its sessions.                                               *)

\* sync_running tells whether an activation of app_run_sync is on the stack:
\* the handlers look at nothing else.
Guarded ==
    /\ active \in {0, 1}
    /\ sync_running => active = 1
    /\ ~sync_running => active = 0

Sessions == Guarded /\ FolderStays

\* A session that starts is the only one.
LEMMA OneBegins ==
    ASSUME Guarded, ~sync_running, Begins(app')
    PROVE  Sessions'
<1>1. active' = 1 /\ folder' = app'.root
  BY DEF Guarded, Begins
<1>2. sync_running'
  BY Zenon DEF Begins
<1> QED
  BY <1>1, <1>2 DEF Sessions, Guarded, FolderStays

\* Without a session there is nothing to keep.
LEMMA NoneLeft ==
    ASSUME active' = 0, sync_running' = FALSE
    PROVE  Sessions'
<1>1. ~sync_running'
  BY Zenon
<1>2. active' = 0
  OBVIOUS
<1> QED
  BY <1>1, <1>2 DEF Sessions, Guarded, FolderStays

LEMMA SessionsStep ==
    ASSUME Sessions, [Next]_vars
    PROVE  Sessions'
<1>1. CASE TimerSync
  BY <1>1, OneBegins DEF TimerSync, Sessions
<1>2. CASE ManualSync
  <2>1. CASE Begins(app')
    BY <1>2, <2>1, OneBegins DEF ManualSync, Sessions
  <2>2. CASE UNCHANGED session
    \* No session is running here.
    BY <1>2, <2>2 DEF ManualSync, session, Sessions, Guarded, FolderStays
  <2> QED
    BY <1>2, <2>1, <2>2 DEF ManualSync
<1>3. CASE SyncReturns
  <2>1. active' = 0
    BY <1>3 DEF SyncReturns, Returns, Sessions, Guarded
  <2> QED
    BY <1>3, <2>1, NoneLeft, Zenon DEF SyncReturns
<1>4. CASE SyncUpdates
  <2>1. active' = 0
    BY <1>4 DEF SyncUpdates, Returns, Sessions, Guarded
  <2> QED
    BY <1>4, <2>1, NoneLeft, Zenon DEF SyncUpdates
<1>5. CASE Start
  BY <1>5, NoneLeft, Zenon DEF Start
<1>6. CASE Edit
  BY <1>6 DEF Edit, session, Sessions, Guarded, FolderStays
<1>7. CASE Save
  \* What a running session works in may change: touched says so.
  BY <1>7 DEF Save, Sessions, Guarded, FolderStays
<1>8. CASE Exit
  BY <1>8 DEF Exit, Sessions, Guarded, FolderStays
<1>9. CASE PowerOff
  BY <1>9, NoneLeft, Zenon DEF PowerOff
<1>10. CASE UNCHANGED vars
  BY <1>10 DEF vars, session, Sessions, Guarded, FolderStays
<1> QED
  BY <1>1, <1>2, <1>3, <1>4, <1>5, <1>6, <1>7, <1>8, <1>9, <1>10 DEF Next

LEMMA SessionsInvariant == Spec => []Sessions
<1>1. Init => Sessions
  <2> SUFFICES ASSUME Init PROVE Sessions
    OBVIOUS
  <2>1. ~sync_running
    BY Zenon DEF Init
  <2>2. active = 0
    BY DEF Init
  <2> QED
    BY <2>1, <2>2 DEF Sessions, Guarded, FolderStays
<1>2. Sessions /\ [Next]_vars => Sessions'
  BY SessionsStep
<1> QED
  BY <1>1, <1>2, PTL DEF Spec

\* Timer and buttons never start a session inside a running one, although
\* Winsock dispatches their messages there.
THEOREM OneSessionAtATime == Spec => []OneSession
<1>1. Sessions => OneSession
  BY DEF Sessions, Guarded, OneSession
<1> QED
  BY <1>1, SessionsInvariant, PTL

\* A running session keeps the folder with which it began unless the settings
\* are saved meanwhile.
THEOREM FolderKept == Spec => []FolderStays
<1>1. Sessions => FolderStays
  BY DEF Sessions
<1> QED
  BY <1>1, SessionsInvariant, PTL

-----------------------------------------------------------------------------
(* The window: where the settings are.                                     *)

\* The lines that do not start the program.
Stripped == Seq(Token \ {Exe})

Has(line) == \E i \in DOMAIN line : line[i] = Exe

\* The lengths of a line, entry by entry.
LEMMA EndsTrace ==
    ASSUME NEW l \in Seq(Token)
    PROVE  /\ Len(l) \in Nat
           /\ Ends(l)[0] = 0
           /\ \A n \in 1..Len(l) : Ends(l)[n] = Ends(l)[n - 1] + l[n].width + 1
           /\ \A n \in 0..Len(l) : Ends(l)[n] \in Nat
<1> DEFINE N == Len(l)
           step == [n \in 1..N |-> [e \in Nat |-> e + l[n].width + 1]]
           Is(f) == f = [n \in 0..N |-> IF n = 0 THEN 0 ELSE f[n - 1] + l[n].width + 1]
<1>1. N \in Nat /\ \A n \in 1..N : l[n].width \in Nat
  <2>1. N \in Nat /\ \A n \in 1..N : l[n] \in Token
    OBVIOUS
  <2> QED
    BY <2>1 DEF Token
<1> HIDE DEF N
<1>2. step \in [1..N -> [Nat -> Nat]]
  BY <1>1
<1>3. \A n \in 1..N, e \in Nat : step[n][e] = e + l[n].width + 1
  OBVIOUS
<1> HIDE DEF step
<1>4. PICK f \in [0..N -> Nat] : f[0] = 0 /\ \A n \in 1..N : f[n] = step[n][f[n - 1]]
  <2>1. \E f \in [0..N -> Nat] : IsTrace(f, N, 0, step)
    BY <1>1, <1>2, Iterates
  <2> QED
    BY <2>1 DEF IsTrace
<1>5. \A n \in 1..N : n - 1 \in 0..N /\ f[n] = f[n - 1] + l[n].width + 1
  <2>1. ASSUME NEW n \in 1..N PROVE n - 1 \in 0..N /\ f[n] = f[n - 1] + l[n].width + 1
    <3>1. n - 1 \in 0..N
      BY <1>1
    <3>2. f[n - 1] \in Nat
      BY <3>1
    <3> QED
      BY <1>3, <1>4, <3>1, <3>2
  <2> QED
    BY <2>1
<1>6. Is(f)
  <2>1. \A n \in 0..N : f[n] = IF n = 0 THEN 0 ELSE f[n - 1] + l[n].width + 1
    BY <1>1, <1>4, <1>5
  <2> QED
    BY <2>1
<1>7. Ends(l) = CHOOSE g : Is(g)
  BY DEF Ends, N
<1> HIDE DEF Is
<1>8. Is(Ends(l))
  BY <1>6, <1>7
<1> DEFINE e == Ends(l)
<1>9. e = [n \in 0..N |-> IF n = 0 THEN 0 ELSE e[n - 1] + l[n].width + 1]
  BY <1>8 DEF Is
<1> HIDE DEF e
<1>10. e[0] = 0 /\ \A n \in 1..N : e[n] = e[n - 1] + l[n].width + 1
  BY <1>1, <1>9
<1> DEFINE S == {n \in 0..N : e[n] \in Nat}
<1>11. 0 \in S
  BY <1>1, <1>10
<1>12. ASSUME NEW n \in 0..N, n \in S, n < N PROVE n + 1 \in S
  <2>1. n + 1 \in 1..N /\ (n + 1) - 1 = n
    BY <1>1, <1>12
  <2>2. e[n + 1] = e[n] + l[n + 1].width + 1
    BY <1>10, <2>1
  <2> QED
    BY <1>1, <1>12, <2>1, <2>2, SMTT(30)
<1>13. 0..N \subseteq S
  <2> HIDE DEF S
  <2> QED
    BY <1>1, <1>11, <1>12, UpTo
<1> QED
  BY <1>1, <1>10, <1>13 DEF N, e

\* One entry more.
LEMMA SizeAppend ==
    ASSUME NEW l \in Seq(Token), NEW t \in Token
    PROVE  Size(l) \in Nat /\ Size(Append(l, t)) = Size(l) + t.width + 1
<1> DEFINE m == Append(l, t)
           N == Len(l)
           S == {n \in 0..N : Ends(m)[n] = Ends(l)[n]}
<1>1. /\ m \in Seq(Token) /\ Len(m) = N + 1 /\ m[N + 1] = t /\ N \in Nat
      /\ \A n \in 1..N : m[n] = l[n]
  OBVIOUS
<1> HIDE DEF m
<1>2. /\ Ends(l)[0] = 0 /\ \A n \in 1..N : Ends(l)[n] = Ends(l)[n - 1] + l[n].width + 1
      /\ \A n \in 0..N : Ends(l)[n] \in Nat
  BY EndsTrace
<1>3. /\ Ends(m)[0] = 0
      /\ \A n \in 1..N + 1 : Ends(m)[n] = Ends(m)[n - 1] + m[n].width + 1
  BY <1>1, EndsTrace
<1> HIDE DEF N
<1>4. 0 \in S
  BY <1>1, <1>2, <1>3
<1>5. ASSUME NEW n \in 0..N, n \in S, n < N PROVE n + 1 \in S
  <2>1. n + 1 \in 1..N /\ n + 1 \in 1..N + 1 /\ (n + 1) - 1 = n
    BY <1>1, <1>5
  <2>2. Ends(m)[n + 1] = Ends(m)[n] + m[n + 1].width + 1
    BY <1>3, <2>1
  <2>3. Ends(l)[n + 1] = Ends(l)[n] + l[n + 1].width + 1
    BY <1>2, <2>1
  <2> QED
    BY <1>1, <1>5, <2>1, <2>2, <2>3
<1>6. N \in S
  <2> HIDE DEF S
  <2>1. 0..N \subseteq S
    BY <1>1, <1>4, <1>5, UpTo
  <2> QED
    BY <1>1, <2>1
<1>7. Ends(m)[N + 1] = Ends(l)[N] + t.width + 1
  <2>1. N + 1 \in 1..N + 1 /\ (N + 1) - 1 = N
    BY <1>1
  <2>2. Ends(m)[N + 1] = Ends(m)[N] + m[N + 1].width + 1
    BY <1>3, <2>1
  <2> QED
    BY <1>1, <1>6, <2>2
<1> QED
  BY <1>1, <1>2, <1>7 DEF Size, m, N

LEMMA SizeEmpty == Size(<<>>) = 0
<1>1. <<>> \in Seq(Token) /\ Len(<<>>) = 0
  OBVIOUS
<1> QED
  BY <1>1, EndsTrace DEF Size

\* Entries end in their order.
LEMMA EndsGrow ==
    ASSUME NEW l \in Seq(Token), NEW n \in 0..Len(l)
    PROVE  Ends(l)[n] <= Size(l)
<1> DEFINE N == Len(l)
           e == Ends(l)
           S == {k \in 0..N : \A i \in 0..k : e[i] <= e[k]}
<1>1. /\ N \in Nat /\ \A k \in 0..N : e[k] \in Nat
      /\ \A k \in 1..N : e[k] = e[k - 1] + l[k].width + 1 /\ l[k].width \in Nat
  <2>1. \A k \in 1..N : l[k] \in Token
    OBVIOUS
  <2>2. \A k \in 1..N : l[k].width \in Nat
    BY <2>1 DEF Token
  <2> QED
    BY <2>2, EndsTrace
<1> HIDE DEF N, e
<1>2. 0 \in S
  BY <1>1
<1>3. ASSUME NEW k \in 0..N, k \in S, k < N PROVE k + 1 \in S
  <2>1. k + 1 \in 1..N /\ (k + 1) - 1 = k
    BY <1>1, <1>3
  <2>2. e[k + 1] = e[k] + l[k + 1].width + 1 /\ l[k + 1].width \in Nat
    BY <1>1, <2>1
  <2>3. ASSUME NEW i \in 0..k + 1 PROVE e[i] <= e[k + 1]
    <3>1. CASE i = k + 1
      BY <1>1, <2>1, <3>1
    <3>2. CASE i \in 0..k
      <4>1. e[i] <= e[k] /\ e[i] \in Nat /\ e[k] \in Nat
        BY <1>1, <1>3, <3>2
      <4> QED
        BY <2>2, <4>1
    <3> QED
      BY <1>1, <3>1, <3>2
  <2> QED
    BY <1>1, <2>1, <2>3
<1>4. N \in S
  <2> HIDE DEF S
  <2>1. 0..N \subseteq S
    BY <1>1, <1>2, <1>3, UpTo
  <2> QED
    BY <1>1, <2>1
<1> QED
  BY <1>1, <1>4 DEF Size, N, e

\* What is read is a line, and a line that fits is read as it is.
LEMMA ReadsLine ==
    ASSUME ShellAssumption, NEW l \in Seq(Token)
    PROVE  /\ GetProfileString(l) \in Seq(Token)
           /\ Size(l) < LineCapacity => GetProfileString(l) = l
<1> DEFINE e == Ends(l)
           cut(n) == [l[n] EXCEPT !.width = LineCapacity - 1 - e[n - 1]]
           read(n) == IF e[n] <= LineCapacity THEN l[n]
                      ELSE IF e[n - 1] + 1 < LineCapacity THEN cut(n) ELSE Gap
<1>1. Len(l) \in Nat /\ LineCapacity \in Nat /\ \A n \in 0..Len(l) : e[n] \in Nat
  BY EndsTrace DEF ShellAssumption
<1>2. GetProfileString(l) = [n \in 1..Len(l) |-> read(n)]
  BY DEF GetProfileString
<1> HIDE DEF e
<1>3. ASSUME NEW n \in 1..Len(l) PROVE read(n) \in Token
  <2>1. l[n] \in Token
    OBVIOUS
  <2>3. Gap \in Token
    BY DEF Token, Gap
  <2>2. ASSUME e[n - 1] + 1 < LineCapacity PROVE cut(n) \in Token
    <3>1. LineCapacity - 1 - e[n - 1] \in Nat
      <4>1. n - 1 \in 0..Len(l)
        BY <1>1
      <4>2. e[n - 1] \in Nat
        BY <1>1, <4>1
      <4> QED
        BY <1>1, <2>2, <4>2
    <3> QED
      BY <2>1, <3>1 DEF Token
  <2> QED
    BY <2>1, <2>2, <2>3
<1>4. ASSUME Size(l) < LineCapacity PROVE \A n \in 1..Len(l) : read(n) = l[n]
  <2>1. ASSUME NEW n \in 1..Len(l) PROVE e[n] <= LineCapacity
    <3>1. e[n] <= Size(l) /\ Size(l) \in Nat /\ e[n] \in Nat
      BY <1>1, EndsGrow DEF e, Size
    <3> QED
      BY <1>1, <1>4, <3>1
  <2> QED
    BY <2>1
<1> HIDE DEF read
<1>5. GetProfileString(l) \in Seq(Token)
  BY <1>1, <1>2, <1>3
<1>6. ASSUME Size(l) < LineCapacity PROVE GetProfileString(l) = l
  BY <1>1, <1>2, <1>4, <1>6
<1> QED
  BY <1>5, <1>6

\* What app_append_token makes of a line is the line with at most one entry
\* more: the token, if there is room for it.
LEMMA AppendsToken ==
    ASSUME ShellAssumption, NEW l \in Seq(Token), NEW t \in Token
    PROVE  /\ app_append_token(l, t) \in {l, Append(l, t), Append(l, Gap)}
           /\ Size(l) + t.width + 1 < LineCapacity => app_append_token(l, t) = Append(l, t)
           /\ \/ app_append_token(l, t) = Append(l, t)
              \/ Size(app_append_token(l, t)) + t.width + 1 >= LineCapacity
<1>1. Size(l) \in Nat /\ Gap \in Token /\ Gap.width = 0 /\ t.width \in Nat
  BY SizeAppend DEF Token, Gap
<1>2. Size(Append(l, Gap)) = Size(l) + Gap.width + 1
  BY <1>1, SizeAppend
<1> QED
  BY <1>1, <1>2 DEF app_append_token, ShellAssumption

\* One entry more of a line: what app_remove_autostart_entry does with it.
CopyEntry(token, s) ==
    IF token = Gap THEN s
    ELSE IF token = Exe THEN [s EXCEPT !.skip = TRUE]
    ELSE IF token = MinSwitch /\ s.skip THEN [s EXCEPT !.skip = FALSE]
    ELSE [line |-> app_append_token(s.line, token), skip |-> FALSE]

LEMMA CopyEntryType ==
    ASSUME ShellAssumption, NEW token \in Token, NEW s \in [line : Stripped, skip : BOOLEAN]
    PROVE  CopyEntry(token, s) \in [line : Stripped, skip : BOOLEAN]
<1>1. s.line \in Seq(Token \ {Exe}) /\ s.line \in Seq(Token)
  <2>1. s.line \in Seq(Token \ {Exe})
    BY DEF Stripped
  <2> QED
    BY <2>1
<1>2. CASE token \in {Gap, Exe}
  BY <1>2 DEF CopyEntry
<1>3. CASE token \notin {Gap, Exe}
  <2>1. Gap \in Token \ {Exe}
    BY DEF Token, Gap, ShellAssumption
  <2>2. /\ Append(s.line, token) \in Seq(Token \ {Exe})
        /\ Append(s.line, Gap) \in Seq(Token \ {Exe})
    BY <1>1, <1>3, <2>1
  <2>3. app_append_token(s.line, token) \in Seq(Token \ {Exe})
    BY <1>1, <2>2, AppendsToken
  <2> HIDE DEF Stripped
  <2>4. app_append_token(s.line, token) \in Stripped
    BY <2>3 DEF Stripped
  <2> QED
    BY <1>3, <2>4 DEF CopyEntry
<1> QED
  BY <1>2, <1>3

\* The loop, entry by entry.
LEMMA CopiedTrace ==
    ASSUME ShellAssumption, NEW l \in Seq(Token)
    PROVE  /\ Len(l) \in Nat
           /\ Copied(l)[0] = [line |-> <<>>, skip |-> FALSE]
           /\ \A n \in 1..Len(l) : Copied(l)[n] = CopyEntry(l[n], Copied(l)[n - 1])
           /\ \A n \in 0..Len(l) : Copied(l)[n] \in [line : Stripped, skip : BOOLEAN]
<1> DEFINE N == Len(l)
           A == [line : Stripped, skip : BOOLEAN]
           None0 == [line |-> <<>>, skip |-> FALSE]
           step == [n \in 1..N |-> [s \in A |-> CopyEntry(l[n], s)]]
           Is(f) == f = [n \in 0..N |-> IF n = 0 THEN None0 ELSE CopyEntry(l[n], f[n - 1])]
<1>1. N \in Nat /\ \A n \in 1..N : l[n] \in Token
  OBVIOUS
<1>2. None0 \in A
  BY DEF Stripped
<1>3. \A n \in 1..N, s \in A : CopyEntry(l[n], s) \in A
  BY <1>1, CopyEntryType
<1> HIDE DEF N, A, None0
<1>4. step \in [1..N -> [A -> A]]
  BY <1>3
<1>5. \A n \in 1..N, s \in A : step[n][s] = CopyEntry(l[n], s)
  OBVIOUS
<1> HIDE DEF step
<1>6. PICK f \in [0..N -> A] : f[0] = None0 /\ \A n \in 1..N : f[n] = step[n][f[n - 1]]
  <2>1. \E f \in [0..N -> A] : IsTrace(f, N, None0, step)
    BY <1>1, <1>2, <1>4, Iterates
  <2> QED
    BY <2>1 DEF IsTrace
<1>7. ASSUME NEW n \in 1..N PROVE f[n] = CopyEntry(l[n], f[n - 1])
  <2>1. n - 1 \in 0..N
    BY <1>1
  <2>2. f[n - 1] \in A
    BY <2>1
  <2> QED
    BY <1>5, <1>6, <2>2
<1>8. Is(f)
  <2>1. \A n \in 0..N : f[n] = IF n = 0 THEN None0 ELSE CopyEntry(l[n], f[n - 1])
    BY <1>1, <1>6, <1>7
  <2> QED
    BY <2>1
<1>9. Copied(l) = CHOOSE g : Is(g)
  BY DEF Copied, CopyEntry, N, None0
<1> HIDE DEF Is
<1>10. Is(Copied(l))
  BY <1>8, <1>9
<1> DEFINE c == Copied(l)
<1>11. c = [n \in 0..N |-> IF n = 0 THEN None0 ELSE CopyEntry(l[n], c[n - 1])]
  BY <1>10 DEF Is
<1> HIDE DEF c
<1>12. c[0] = None0 /\ \A n \in 1..N : c[n] = CopyEntry(l[n], c[n - 1])
  BY <1>1, <1>11
<1> DEFINE S == {n \in 0..N : c[n] \in A}
<1>13. 0 \in S
  BY <1>1, <1>2, <1>12
<1>14. ASSUME NEW n \in 0..N, n \in S, n < N PROVE n + 1 \in S
  <2>1. n + 1 \in 1..N /\ (n + 1) - 1 = n
    BY <1>1, <1>14
  <2>2. c[n + 1] = CopyEntry(l[n + 1], c[n])
    BY <1>12, <2>1
  <2> QED
    BY <1>3, <1>14, <2>1, <2>2
<1>15. 0..N \subseteq S
  <2> HIDE DEF S
  <2> QED
    BY <1>1, <1>13, <1>14, UpTo
<1>16. \A n \in 0..N : c[n] \in A
  BY <1>1, <1>15
<1> QED
  BY <1>1, <1>12, <1>16 DEF A, N, None0, c

\* However often the program is in a line, it goes.
LEMMA Removed ==
    ASSUME ShellAssumption, NEW l \in Seq(Token)
    PROVE  app_remove_autostart_entry(l) \in Stripped
<1>1. Copied(l)[Len(l)] \in [line : Stripped, skip : BOOLEAN]
  BY CopiedTrace
<1> QED
  BY <1>1 DEF app_remove_autostart_entry

\* The line has the program if and only if it is to have it, or has no room.
Follows(line, here) == (Has(line) => here) /\ (here => Has(line) \/ Full(line))

\* What is written back to one line.
NewLine(l, here) ==
    LET cleaned == app_remove_autostart_entry(GetProfileString(l))
    IN  IF here THEN app_append_token(cleaned, Exe) ELSE cleaned

LEMMA OneLine ==
    ASSUME ShellAssumption, NEW l \in Seq(Token), NEW here \in BOOLEAN
    PROVE  NewLine(l, here) \in Seq(Token) /\ Follows(NewLine(l, here), here)
<1> DEFINE r == app_remove_autostart_entry(GetProfileString(l))
           m == app_append_token(r, Exe)
<1>1. r \in Seq(Token \ {Exe})
  BY ReadsLine, Removed DEF Stripped
<1>2. Exe \in Token /\ Gap \in Token
  BY DEF ShellAssumption, Token, Gap
<1> HIDE DEF r
<1>3. r \in Seq(Token) /\ ~Has(r)
  BY <1>1 DEF Has
<1>4. Has(Append(r, Exe))
  <2>1. Len(r) + 1 \in DOMAIN Append(r, Exe) /\ Append(r, Exe)[Len(r) + 1] = Exe
    BY <1>2, <1>3
  <2> QED
    BY <2>1 DEF Has
<1>5. /\ m \in {r, Append(r, Exe), Append(r, Gap)}
      /\ m = Append(r, Exe) \/ Size(m) + Exe.width + 1 >= LineCapacity
  BY <1>2, <1>3, AppendsToken
<1>6. m \in Seq(Token)
  <2>1. Append(r, Exe) \in Seq(Token) /\ Append(r, Gap) \in Seq(Token)
    BY <1>2, <1>3
  <2> HIDE DEF m
  <2> QED
    BY <1>3, <1>5, <2>1
<1>7. CASE here
  BY <1>4, <1>5, <1>6, <1>7 DEF NewLine, Follows, Full, r
<1>8. CASE ~here
  BY <1>3, <1>8 DEF NewLine, Follows, r
<1> QED
  BY <1>7, <1>8

\* What is written back to both.
NewLines(s) == run' = NewLine(run, s.autostart /\ ~s.min) /\ load' = NewLine(load, s.autostart /\ s.min)

LEMMA Applies == ASSUME NEW s, app_apply_autostart(s) PROVE NewLines(s)
BY Zenon DEF app_apply_autostart, NewLines, NewLine

\* Each line is a line again, and has the program if it is to have it.
LEMMA Applied ==
    ASSUME ShellAssumption, NEW s, run \in Seq(Token), load \in Seq(Token),
           app_apply_autostart(s)
    PROVE  /\ run' \in Seq(Token) /\ load' \in Seq(Token)
           /\ Follows(run', s.autostart /\ ~s.min)
           /\ Follows(load', s.autostart /\ s.min)
<1>1. NewLines(s)
  BY Applies
<1>2. (s.autostart /\ ~s.min) \in BOOLEAN /\ (s.autostart /\ s.min) \in BOOLEAN
  OBVIOUS
<1> QED
  BY <1>1, <1>2, OneLine, Zenon DEF NewLines

Settings(Intervals) == [root : Root, interval : Intervals, autostart : BOOLEAN, min : BOOLEAN]

\* The intervals that the program accepts, and settings that it has read.
Allowed == Number \intersect 1..3600

Parsed == Settings(Allowed)

SettingsTypes ==
    /\ controls \in Settings(Number)
    /\ app \in Parsed /\ kept \in Parsed
    /\ ini \in [DOMAIN Boot -> Root \union Number \union BOOLEAN \union {Absent}]
    /\ ini.root \in Root \union {Absent}
    /\ ini.interval \in Allowed \union {Absent}
    /\ ini.autostart \in BOOLEAN \union {Absent} /\ ini.min \in BOOLEAN \union {Absent}
    /\ run \in Seq(Token) /\ load \in Seq(Token)

\* The copies: the timer's, the file's and the two lines'.
Copies ==
    /\ open => timer = Period(kept)
    /\ ~stale => /\ ini = kept
                 /\ Follows(run, kept.autostart /\ ~kept.min)
                 /\ Follows(load, kept.autostart /\ kept.min)

KeptInvariant == SettingsTypes /\ Copies

LEMMA SetInterval ==
    ASSUME NEW I, NEW s \in Settings(I), NEW J, NEW n \in J
    PROVE  [s EXCEPT !.interval = n] \in Settings(J)
BY DEF Settings

Fields(s, I) == /\ s.root \in Root /\ s.interval \in I
                /\ s.autostart \in BOOLEAN /\ s.min \in BOOLEAN

LEMMA FromFields ==
    ASSUME NEW V, NEW s \in [DOMAIN Boot -> V], NEW I, Fields(s, I)
    PROVE  s \in Settings(I)
<1>1. DOMAIN Boot = {"root", "interval", "autostart", "min"}
  BY DEF Boot
<1> QED
  BY <1>1 DEF Settings, Fields

LEMMA ToFields ==
    ASSUME NEW I, NEW s \in Settings(I)
    PROVE  /\ Fields(s, I)
           /\ \A k \in DOMAIN Boot : s[k] \in Root \union I \union BOOLEAN
BY DEF Settings, Fields, Boot

LEMMA ReadsParsed ==
    ASSUME ShellAssumption, controls \in Settings(Number)
    PROVE  app_read_controls \in Parsed
<1>1. app_parse_interval_text(controls.interval) \in Allowed
  BY DEF app_parse_interval_text, ShellAssumption, Settings, Allowed
<1> DEFINE n == app_parse_interval_text(controls.interval)
<1>2. app_read_controls = [controls EXCEPT !.interval = n]
  BY DEF app_read_controls
<1> HIDE DEF n
<1>3. [controls EXCEPT !.interval = n] \in Settings(Allowed)
  BY <1>1, SetInterval, Zenon DEF n
<1> QED
  BY <1>2, <1>3 DEF Parsed

\* The file is read as it was written, however little of it there is.
LEMMA LoadsParsed ==
    ASSUME ShellAssumption, SettingsTypes
    PROVE  app_load_config \in Parsed /\ (ini \in Parsed => app_load_config = ini)
<1> DEFINE s == [k \in DOMAIN Boot |-> IF ini[k] = Absent THEN Boot[k] ELSE ini[k]]
           V == Root \union Number \union BOOLEAN \union {Absent}
<1>0. DOMAIN Boot = {"root", "interval", "autostart", "min"} /\ Boot \in Parsed
  BY DEF Boot, Parsed, Settings, ShellAssumption, Allowed
<1>1. s \in Parsed
  <2>1. \A k \in DOMAIN Boot : ini[k] \in V /\ Boot[k] \in V
    BY <1>0, ToFields DEF SettingsTypes, Parsed, Allowed
  <2>2. s \in [DOMAIN Boot -> V]
    <3> HIDE DEF V
    <3> QED
      BY <2>1
  <2>3. /\ s.root = IF ini.root = Absent THEN Boot.root ELSE ini.root
        /\ s.interval = IF ini.interval = Absent THEN Boot.interval ELSE ini.interval
        /\ s.autostart = IF ini.autostart = Absent THEN Boot.autostart ELSE ini.autostart
        /\ s.min = IF ini.min = Absent THEN Boot.min ELSE ini.min
    BY <1>0
  <2> HIDE DEF s, V
  <2>4. Fields(Boot, Allowed)
    BY <1>0, ToFields DEF Parsed
  <2>5. Fields(s, Allowed)
    BY <2>3, <2>4 DEF SettingsTypes, Fields
  <2> QED
    BY <2>2, <2>5, FromFields DEF Parsed
<1>2. ini \in Parsed => s = ini
  BY DEF Boot, Settings, Parsed, ShellAssumption, Allowed
<1> HIDE DEF s
<1>3. app_parse_interval_text(s.interval) = s.interval
  BY <1>1 DEF app_parse_interval_text, Parsed, Settings, Allowed
<1>4. app_load_config = [s EXCEPT !.interval = app_parse_interval_text(@)]
  BY DEF app_load_config, s
<1>5. app_load_config = s
  BY <1>1, <1>3, <1>4 DEF Parsed, Settings
<1> QED
  BY <1>1, <1>2, <1>5

LEMMA SavesAll ==
    ASSUME ShellAssumption, KeptInvariant, controls' \in Settings(Number),
           app' \in Parsed, SaveWorks(app'), open' => timer' = Period(app')
    PROVE  KeptInvariant'
<1>1. ini' = app' /\ kept' = app' /\ ~stale'
  BY Zenon DEF SaveWorks
<1>2. /\ run' \in Seq(Token) /\ load' \in Seq(Token)
      /\ Follows(run', app'.autostart /\ ~app'.min)
      /\ Follows(load', app'.autostart /\ app'.min)
  <2>1. run \in Seq(Token) /\ load \in Seq(Token) /\ app_apply_autostart(app')
    BY ZenonT(60) DEF SaveWorks, KeptInvariant, SettingsTypes
  <2> QED
    BY <2>1, Applied
<1>3. SettingsTypes'
  BY <1>1, <1>2 DEF SettingsTypes, Boot, Parsed, Settings, Allowed
<1>4. Copies'
  BY <1>1, <1>2 DEF Copies
<1> QED
  BY <1>3, <1>4 DEF KeptInvariant

LEMMA SavesSome ==
    ASSUME ShellAssumption, KeptInvariant, controls' \in Settings(Number),
           app' \in Parsed, SaveFails(app'), open' => open /\ timer' = timer
    PROVE  KeptInvariant'
<1>1. UNCHANGED <<run, load, kept>> /\ stale'
  BY Zenon DEF SaveFails, winini
<1>2. PICK n \in 0..Len(Keys) - 1 :
        ini' = [k \in DOMAIN ini |-> IF k \in {Keys[i] : i \in 1..n} THEN app'[k] ELSE ini[k]]
  BY DEF SaveFails
<1> DEFINE some == {Keys[i] : i \in 1..n}
<1>3. ini' = [k \in DOMAIN ini |-> IF k \in some THEN app'[k] ELSE ini[k]]
  BY <1>2
<1> HIDE DEF some
<1>4. SettingsTypes'
  <2> DEFINE V == Root \union Number \union BOOLEAN \union {Absent}
  <2>1. DOMAIN ini = DOMAIN Boot /\ DOMAIN Boot = {"root", "interval", "autostart", "min"}
    BY DEF KeptInvariant, SettingsTypes, Boot
  <2>2. \A k \in DOMAIN Boot : ini[k] \in V /\ app'[k] \in V
    BY ToFields DEF KeptInvariant, SettingsTypes, Parsed, Allowed
  <2>3. ini' \in [DOMAIN Boot -> V]
    <3> HIDE DEF V
    <3> QED
      BY <1>3, <2>1, <2>2
  <2>4. \A k \in DOMAIN Boot : ini'[k] \in {ini[k], app'[k]}
    BY <1>3, <2>1
  <2>5. /\ ini'.root \in {ini.root, app'.root}
        /\ ini'.interval \in {ini.interval, app'.interval}
        /\ ini'.autostart \in {ini.autostart, app'.autostart}
        /\ ini'.min \in {ini.min, app'.min}
    BY <2>1, <2>4
  <2>6. Fields(app', Allowed)
    BY ToFields DEF Parsed
  <2> HIDE DEF V
  <2>7. /\ ini'.root \in Root \union {Absent}
        /\ ini'.interval \in Allowed \union {Absent}
        /\ ini'.autostart \in BOOLEAN \union {Absent} /\ ini'.min \in BOOLEAN \union {Absent}
    <3>1. \A S, a, b, c : a \in S \union {Absent} /\ b \in S /\ c \in {a, b} => c \in S \union {Absent}
      OBVIOUS
    <3>2. ini'.root \in Root \union {Absent}
      BY <2>5, <2>6, <3>1 DEF KeptInvariant, SettingsTypes, Fields
    <3>3. ini'.interval \in Allowed \union {Absent}
      BY <2>5, <2>6, <3>1 DEF KeptInvariant, SettingsTypes, Fields
    <3>4. ini'.autostart \in BOOLEAN \union {Absent}
      BY <2>5, <2>6, <3>1 DEF KeptInvariant, SettingsTypes, Fields
    <3>5. ini'.min \in BOOLEAN \union {Absent}
      BY <2>5, <2>6, <3>1 DEF KeptInvariant, SettingsTypes, Fields
    <3> QED
      BY <3>2, <3>3, <3>4, <3>5
  <2> QED
    BY <1>1, <2>3, <2>7 DEF KeptInvariant, SettingsTypes, V
<1>5. Copies'
  BY <1>1 DEF Copies, KeptInvariant, Period
<1> QED
  BY <1>4, <1>5 DEF KeptInvariant

LEMMA KeptStep ==
    ASSUME ShellAssumption, KeptInvariant, [Next]_vars
    PROVE  KeptInvariant'
<1>1. controls \in Settings(Number) /\ app \in Parsed /\ app_read_controls \in Parsed
  BY ReadsParsed DEF KeptInvariant, SettingsTypes
\* Nothing is saved or loaded.
<1>2. ASSUME UNCHANGED <<ini, run, load, kept, stale>>, app' \in Parsed,
             controls' \in Settings(Number), open' => open /\ timer' = timer
      PROVE  KeptInvariant'
  BY <1>2 DEF KeptInvariant, SettingsTypes, Copies, Period, Has
<1>3. CASE TimerSync
  BY <1>1, <1>2, <1>3 DEF TimerSync, winini
<1>4. CASE ManualSync
  <2>1. app' \in Parsed /\ controls' \in Settings(Number)
    BY <1>1, <1>4 DEF ManualSync
  <2>2. CASE SaveWorks(app') /\ timer' = Period(app')
    BY <2>1, <2>2, SavesAll
  <2>3. CASE SaveFails(app') /\ UNCHANGED timer
    BY <1>4, <2>1, <2>3, SavesSome DEF ManualSync
  <2> QED
    BY <1>4, <2>2, <2>3 DEF ManualSync
<1>5. CASE SyncReturns
  BY <1>1, <1>2, <1>5 DEF SyncReturns, winini
<1>6. CASE SyncUpdates
  BY <1>1, <1>2, <1>6 DEF SyncUpdates, winini
<1>7. CASE Start
  <2>1. app_load_config \in Parsed /\ (ini \in Parsed => app_load_config = ini)
    BY LoadsParsed DEF KeptInvariant
  <2>2. /\ UNCHANGED <<ini, run, load, stale>>
        /\ app' = app_load_config /\ kept' = app' /\ controls' = app'
        /\ timer' = Period(app')
    BY <1>7 DEF Start, winini
  <2>3. SettingsTypes'
    <3>1. app' \in Parsed /\ kept' \in Parsed
      BY <2>1, <2>2
    <3>2. controls' \in Settings(Number)
      <4>1. \A s : s \in Parsed => s \in Settings(Number)
        BY DEF Parsed, Settings, Allowed
      <4> QED
        BY <2>1, <2>2, <4>1
    <3> QED
      BY <2>2, <3>1, <3>2 DEF KeptInvariant, SettingsTypes
  \* A file that was written as a whole holds what was kept.
  <2>4. ~stale => kept' = kept
    BY <2>1, <2>2 DEF KeptInvariant, SettingsTypes, Copies
  <2>5. Copies'
    BY <2>2, <2>4 DEF KeptInvariant, Copies, Has, Period
  <2> QED
    BY <2>3, <2>5 DEF KeptInvariant
<1>8. CASE Edit
  <2>1. controls' \in Settings(Number)
    BY <1>1, <1>8 DEF Edit, Settings
  <2> QED
    BY <1>1, <1>2, <1>8, <2>1 DEF Edit, winini
<1>9. CASE Save
  <2>1. app' \in Parsed /\ controls' \in Settings(Number)
    BY <1>1, <1>9 DEF Save
  <2>2. CASE SaveWorks(app') /\ timer' = Period(app')
    BY <2>1, <2>2, SavesAll
  <2>3. CASE SaveFails(app') /\ UNCHANGED timer
    BY <1>9, <2>1, <2>3, SavesSome DEF Save
  <2> QED
    BY <1>9, <2>2, <2>3 DEF Save
<1>10. CASE Exit
  <2>1. app' \in Parsed /\ controls' \in Settings(Number) /\ ~open'
    BY <1>1, <1>10, Zenon DEF Exit
  <2> QED
    BY <1>10, <2>1, SavesAll, SavesSome DEF Exit
<1>11. CASE PowerOff
  <2>1. Boot \in Parsed /\ Boot \in Settings(Number)
    BY DEF Boot, Parsed, Settings, ShellAssumption, Allowed
  <2>2. ~open'
    BY <1>11, Zenon DEF PowerOff
  <2> QED
    BY <1>2, <1>11, <2>1, <2>2 DEF PowerOff, winini
<1>12. CASE UNCHANGED vars
  BY <1>1, <1>2, <1>12 DEF vars, winini
<1> QED
  BY <1>3, <1>4, <1>5, <1>6, <1>7, <1>8, <1>9, <1>10, <1>11, <1>12 DEF Next

LEMMA KeptAlways == Spec => []KeptInvariant
<1>1. Init => KeptInvariant
  <2> SUFFICES ASSUME Init PROVE KeptInvariant
    OBVIOUS
  <2>1. ~open /\ stale
    BY Zenon DEF Init
  <2>2. Copies
    BY <2>1 DEF Copies
  <2>3. SettingsTypes
    BY ShellAssumption DEF Init, Boot, SettingsTypes, Parsed, Settings, ShellAssumption, Allowed
  <2> QED
    BY <2>2, <2>3 DEF KeptInvariant
<1>2. KeptInvariant /\ [Next]_vars => KeptInvariant'
  BY ShellAssumption, KeptStep
<1> QED
  BY <1>1, <1>2, PTL DEF Spec

\* After any number of edits, failed saves, sessions and restarts the timer,
\* the file and the autostart lines agree on the settings last kept, whatever
\* other programs have in those lines and however long they are: a line that
\* does not start the program although it should is full.
THEOREM SettingsKept == Spec => []KeptEverywhere
<1>1. KeptInvariant => KeptEverywhere
  <2> SUFFICES ASSUME KeptInvariant PROVE KeptEverywhere
    OBVIOUS
  <2>1. ~stale => app_load_config = kept
    BY ShellAssumption, LoadsParsed DEF KeptInvariant, SettingsTypes, Copies
  <2>2. \A line : ({i \in DOMAIN line : line[i] = Exe} # {}) <=> Has(line)
    BY DEF Has
  <2>4. ~stale =>
          /\ Follows(run, kept.autostart /\ ~kept.min)
          /\ Follows(load, kept.autostart /\ kept.min)
    BY Zenon DEF KeptInvariant, Copies
  <2> QED
    BY <2>1, <2>2, <2>4, Zenon DEF KeptInvariant, Copies, KeptEverywhere, Follows
<1> QED
  BY <1>1, KeptAlways, PTL

-----------------------------------------------------------------------------
(* The window: what other programs have in WIN.INI.                        *)

\* The first m entries of new are those at the places T of the line l.
CopiedFrom(l, T, new, m) ==
    \E from \in [1..m -> T] :
        /\ \A i, j \in 1..m : i < j => from[i] < from[j]
        /\ \A k \in T : \E i \in 1..m : from[i] = k
        /\ \A i \in 1..m : new[i] = l[from[i]]

\* new holds the entries of other programs up to n, and nothing else.
CopiedUpTo(l, n, new) == CopiedFrom(l, {i \in Others(l) : i <= n}, new, Len(new))

\* An entry that is not copied is none of theirs.
LEMMA EntryDropped ==
    ASSUME NEW l \in Seq(Token), NEW n \in 0..Len(l) - 1, NEW new, CopiedUpTo(l, n, new),
           n + 1 \notin Others(l)
    PROVE  CopiedUpTo(l, n + 1, new)
<1>1. \A i \in Others(l) : i <= n + 1 <=> i <= n
  <2>1. ASSUME NEW i \in Others(l) PROVE i <= n + 1 <=> i <= n
    <3>1. i \in Nat /\ i # n + 1
      BY DEF Others
    <3> QED
      BY <3>1
  <2> QED
    BY <2>1
<1>2. {i \in Others(l) : i <= n + 1} = {i \in Others(l) : i <= n}
  BY <1>1
<1> QED
  BY <1>1, <1>2 DEF CopiedUpTo

LEMMA EntryCopied ==
    ASSUME NEW l \in Seq(Token), NEW n \in 0..Len(l) - 1, NEW new \in Seq(Token),
           CopiedUpTo(l, n, new), n + 1 \in Others(l)
    PROVE  CopiedUpTo(l, n + 1, Append(new, l[n + 1]))
<1> DEFINE N == Len(new)
           longer == Append(new, l[n + 1])
<1>1. PICK from \in [1..N -> {i \in Others(l) : i <= n}] :
        /\ \A i, j \in 1..N : i < j => from[i] < from[j]
        /\ \A k \in Others(l) : k <= n => \E i \in 1..N : from[i] = k
        /\ \A i \in 1..N : new[i] = l[from[i]]
  BY DEF CopiedUpTo, CopiedFrom
<1>2. /\ N \in Nat /\ Len(longer) = N + 1 /\ longer[N + 1] = l[n + 1]
      /\ \A i \in 1..N : longer[i] = new[i]
  OBVIOUS
<1>3. \A i \in 1..N : from[i] \in Others(l) /\ from[i] \in Nat /\ from[i] <= n
  BY <1>1 DEF Others
<1> DEFINE to == [i \in 1..N + 1 |-> IF i = N + 1 THEN n + 1 ELSE from[i]]
<1> HIDE DEF N, longer
<1>4. to \in [1..N + 1 -> {i \in Others(l) : i <= n + 1}]
  BY <1>2, <1>3
<1>5. to[N + 1] = n + 1 /\ \A i \in 1..N : to[i] = from[i]
  BY <1>2
<1>6. \A i \in 1..N + 1 : i = N + 1 \/ i \in 1..N
  BY <1>2
<1> HIDE DEF to
<1>7. ASSUME NEW i \in 1..N + 1, NEW j \in 1..N + 1, i < j PROVE to[i] < to[j]
  <2>1. i \in 1..N
    BY <1>2, <1>7
  <2>2. CASE j \in 1..N
    BY <1>1, <1>5, <1>7, <2>1, <2>2
  <2>3. CASE j = N + 1
    <3>1. to[i] = from[i] /\ to[j] = n + 1
      BY <1>5, <2>1, <2>3
    <3>2. from[i] <= n /\ from[i] \in Nat /\ n \in Nat
      BY <1>3, <2>1
    <3> QED
      BY <3>1, <3>2
  <2> QED
    BY <1>6, <2>2, <2>3
<1>8. ASSUME NEW k \in Others(l), k <= n + 1 PROVE \E i \in 1..N + 1 : to[i] = k
  <2>1. k \in Nat
    BY DEF Others
  <2>2. CASE k = n + 1
    BY <1>2, <1>5, <2>2
  <2>3. CASE k <= n
    BY <1>1, <1>2, <1>5, <2>3
  <2> QED
    BY <1>8, <2>1, <2>2, <2>3
<1>9. \A i \in 1..N + 1 : longer[i] = l[to[i]]
  BY <1>1, <1>2, <1>5, <1>6
<1>10. CopiedFrom(l, {i \in Others(l) : i <= n + 1}, longer, N + 1)
  <2> DEFINE T == {i \in Others(l) : i <= n + 1}
  <2>1. \A k \in T : \E i \in 1..N + 1 : to[i] = k
    BY <1>8
  <2> HIDE DEF T
  <2>2. to \in [1..N + 1 -> T]
    BY <1>4 DEF T
  <2>3. CopiedFrom(l, T, longer, N + 1)
    BY <1>7, <1>9, <2>1, <2>2, Zenon DEF CopiedFrom
  <2> QED
    BY <2>3 DEF T
<1> QED
  BY <1>2, <1>10 DEF CopiedUpTo, longer

\* An entry more tells whether the program came last.
LEMMA BehindStep ==
    ASSUME ShellAssumption, NEW l \in Seq(Token), NEW n \in 0..Len(l) - 1
    PROVE  /\ l[n + 1] = Gap => (BehindExe(l, n + 2) <=> BehindExe(l, n + 1))
           /\ l[n + 1] = Exe => BehindExe(l, n + 2)
           /\ l[n + 1] \notin {Gap, Exe} => ~BehindExe(l, n + 2)
<1>1. n + 1 \in DOMAIN l /\ n \in Nat /\ DOMAIN l \subseteq Nat /\ Exe # Gap
  BY DEF ShellAssumption
<1>2. ASSUME l[n + 1] = Gap, BehindExe(l, n + 2) PROVE BehindExe(l, n + 1)
  <2>1. PICK j \in DOMAIN l : /\ j < n + 2 /\ l[j] = Exe
                              /\ \A k \in j + 1..(n + 2) - 1 : l[k] = Gap
    BY <1>2 DEF BehindExe
  <2>2. j # n + 1 /\ j \in Nat
    BY <1>1, <1>2, <2>1
  <2>3. j < n + 1 /\ j + 1..(n + 1) - 1 \subseteq j + 1..(n + 2) - 1
    BY <1>1, <2>1, <2>2
  <2> QED
    BY <2>1, <2>3 DEF BehindExe
<1>3. ASSUME l[n + 1] = Gap, BehindExe(l, n + 1) PROVE BehindExe(l, n + 2)
  <2>1. PICK j \in DOMAIN l : /\ j < n + 1 /\ l[j] = Exe
                              /\ \A k \in j + 1..(n + 1) - 1 : l[k] = Gap
    BY <1>3 DEF BehindExe
  <2>2. j < n + 2 /\ \A k \in j + 1..(n + 2) - 1 : k = n + 1 \/ k \in j + 1..(n + 1) - 1
    BY <1>1, <2>1
  <2>3. \A k \in j + 1..(n + 2) - 1 : l[k] = Gap
    BY <1>3, <2>1, <2>2
  <2> QED
    BY <2>1, <2>2, <2>3 DEF BehindExe
<1>4. ASSUME l[n + 1] = Exe PROVE BehindExe(l, n + 2)
  <2>1. n + 1 < n + 2 /\ (n + 1) + 1..(n + 2) - 1 = {}
    BY <1>1
  <2> QED
    BY <1>1, <1>4, <2>1 DEF BehindExe
<1>5. ASSUME l[n + 1] \notin {Gap, Exe}, BehindExe(l, n + 2) PROVE FALSE
  <2>1. PICK j \in DOMAIN l : /\ j < n + 2 /\ l[j] = Exe
                              /\ \A k \in j + 1..(n + 2) - 1 : l[k] = Gap
    BY <1>5 DEF BehindExe
  <2>2. j # n + 1 /\ j \in Nat
    BY <1>1, <1>5, <2>1
  <2>3. n + 1 \in j + 1..(n + 2) - 1
    BY <1>1, <2>1, <2>2
  <2> QED
    BY <1>5, <2>1, <2>3
<1> QED
  BY <1>2, <1>3, <1>4, <1>5

\* What has been copied of the first n entries, if all of them fit.
Faithful(l, n, s) ==
    /\ CopiedUpTo(l, n, s.line)
    /\ s.skip <=> BehindExe(l, n + 1)
    /\ s.line \in Seq(Token \ {Exe, Gap})
    /\ Size(s.line) <= Ends(l)[n]

\* The loop skips its own entries alone: the flag tells that the program came
\* last, and there is room for what is not skipped.
LEMMA CopyFaithful ==
    ASSUME ShellAssumption, NEW l \in Seq(Token), Size(l) < LineCapacity,
           NEW n \in 0..Len(l) - 1, NEW s \in [line : Stripped, skip : BOOLEAN],
           Faithful(l, n, s)
    PROVE  Faithful(l, n + 1, CopyEntry(l[n + 1], s))
<1> DEFINE t == l[n + 1]
           new == CopyEntry(t, s)
<1>1. /\ n \in Nat /\ n + 1 \in 1..Len(l) /\ (n + 1) - 1 = n /\ (n + 1) + 1 = n + 2
      /\ n \in 0..Len(l) /\ n + 1 \in 0..Len(l) /\ t \in Token
  OBVIOUS
<1>2. s.line \in Seq(Token \ {Exe, Gap}) /\ s.line \in Seq(Token)
  <2>1. s.line \in Seq(Token \ {Exe, Gap})
    BY DEF Faithful
  <2> QED
    BY <2>1
<1>3. /\ Ends(l)[n + 1] = Ends(l)[n] + t.width + 1
      /\ Ends(l)[n] \in Nat /\ Size(s.line) \in Nat /\ t.width \in Nat
  <2>1. Ends(l)[n + 1] = Ends(l)[n] + t.width + 1
    BY <1>1, EndsTrace
  <2>2. Size(s.line) \in Nat
    BY <1>1, <1>2, SizeAppend
  <2>3. t.width \in Nat
    BY <1>1 DEF Token
  <2> QED
    BY <1>1, <2>1, <2>2, <2>3, EndsTrace
<1>4. n + 1 \in Others(l) <=> t \notin {Gap, Exe} /\ ~(t = MinSwitch /\ s.skip)
  BY <1>1 DEF Others, Faithful
<1>5. /\ t = Gap => (BehindExe(l, n + 2) <=> BehindExe(l, n + 1))
      /\ t = Exe => BehindExe(l, n + 2)
      /\ t \notin {Gap, Exe} => ~BehindExe(l, n + 2)
  BY BehindStep
<1>6. Exe # Gap
  BY DEF ShellAssumption
<1> HIDE DEF t
<1>7. CASE n + 1 \notin Others(l)
  <2>1. new.line = s.line
    BY <1>4, <1>7 DEF CopyEntry
  <2>2. new.skip <=> BehindExe(l, n + 2)
    <3>1. CASE t = Gap
      BY <1>5, <3>1 DEF CopyEntry, Faithful
    <3>2. CASE t = Exe
      BY <1>5, <1>6, <3>2 DEF CopyEntry
    <3>3. CASE t \notin {Gap, Exe}
      BY <1>4, <1>5, <1>7, <3>3 DEF CopyEntry
    <3> QED
      BY <3>1, <3>2, <3>3
  <2>3. CopiedUpTo(l, n + 1, s.line)
    BY <1>7, EntryDropped DEF Faithful
  <2>4. Size(s.line) <= Ends(l)[n + 1]
    BY <1>3 DEF Faithful
  <2> HIDE DEF new
  <2>5. Faithful(l, n + 1, new)
    BY <1>1, <1>2, <2>1, <2>2, <2>3, <2>4 DEF Faithful
  <2> QED
    BY <2>5 DEF new, t
<1>8. CASE n + 1 \in Others(l)
  <2>1. Size(s.line) <= Ends(l)[n]
    BY DEF Faithful
  <2>2. Size(s.line) + t.width + 1 < LineCapacity
    <3>1. Ends(l)[n + 1] <= Size(l)
      BY <1>1, EndsGrow
    <3>2. Size(l) \in Nat /\ LineCapacity \in Nat
      BY <1>1, SizeAppend DEF ShellAssumption
    <3> QED
      BY <1>3, <2>1, <3>1, <3>2
  <2>3. app_append_token(s.line, t) = Append(s.line, t)
    BY <1>1, <1>2, <2>2, AppendsToken DEF t
  <2>4. new.line = Append(s.line, t) /\ ~new.skip
    BY <1>4, <1>8, <2>3 DEF CopyEntry
  <2>5. ~BehindExe(l, n + 2)
    BY <1>4, <1>5, <1>8
  <2>6. CopiedUpTo(l, n + 1, Append(s.line, t))
    BY <1>2, <1>8, EntryCopied DEF Faithful, t
  <2>7. Append(s.line, t) \in Seq(Token \ {Exe, Gap})
    <3>1. t \in Token \ {Exe, Gap}
      BY <1>1, <1>4, <1>8
    <3> QED
      BY <1>2, <3>1
  <2>8. Size(Append(s.line, t)) <= Ends(l)[n + 1]
    <3>1. Size(Append(s.line, t)) = Size(s.line) + t.width + 1
      BY <1>1, <1>2, SizeAppend DEF t
    <3> QED
      BY <1>3, <2>1, <3>1
  <2> HIDE DEF new
  <2>9. Faithful(l, n + 1, new)
    BY <1>1, <2>4, <2>5, <2>6, <2>7, <2>8 DEF Faithful
  <2> QED
    BY <2>9 DEF new, t
<1> QED
  BY <1>7, <1>8

LEMMA CopiesOthers ==
    ASSUME ShellAssumption, NEW l \in Seq(Token), Size(l) < LineCapacity
    PROVE  /\ CopiedUpTo(l, Len(l), app_remove_autostart_entry(l))
           /\ app_remove_autostart_entry(l) \in Seq(Token \ {Exe, Gap})
<1> DEFINE N == Len(l)
           c == Copied(l)
           S == {n \in 0..N : Faithful(l, n, c[n])}
<1>1. /\ N \in Nat /\ c[0] = [line |-> <<>>, skip |-> FALSE]
      /\ \A n \in 1..N : c[n] = CopyEntry(l[n], c[n - 1])
      /\ \A n \in 0..N : c[n] \in [line : Stripped, skip : BOOLEAN]
  BY CopiedTrace
<1> HIDE DEF c
<1>2. 0 \in S
  <2>1. CopiedUpTo(l, 0, <<>>)
    <3>1. \A i \in Others(l) : ~ (i <= 0)
      BY DEF Others
    <3>2. 1..Len(<<>>) = {}
      OBVIOUS
    <3>3. \E from : from \in [{} -> {i \in Others(l) : i <= 0}]
      <4>1. [i \in {} |-> i] \in [{} -> {i \in Others(l) : i <= 0}]
        OBVIOUS
      <4> QED
        BY <4>1
    <3> QED
      BY <3>1, <3>2, <3>3 DEF CopiedUpTo, CopiedFrom
  <2>2. ~BehindExe(l, 0 + 1)
    BY DEF BehindExe
  <2>3. <<>> \in Seq(Token \ {Exe, Gap})
    OBVIOUS
  <2>4. Size(<<>>) <= Ends(l)[0]
    BY SizeEmpty, EndsTrace
  <2>5. c[0].line = <<>> /\ ~c[0].skip
    BY <1>1
  <2>6. Faithful(l, 0, c[0])
    BY <2>1, <2>2, <2>3, <2>4, <2>5, Zenon DEF Faithful
  <2> QED
    BY <1>1, <2>6
<1>3. ASSUME NEW n \in 0..N, n \in S, n < N PROVE n + 1 \in S
  <2>1. n \in 0..N - 1 /\ n + 1 \in 1..N /\ (n + 1) - 1 = n /\ n + 1 \in 0..N
    BY <1>1, <1>3
  <2>2. Faithful(l, n, c[n])
    BY <1>3
  <2>3. c[n + 1] = CopyEntry(l[n + 1], c[n]) /\ c[n] \in [line : Stripped, skip : BOOLEAN]
    BY <1>1, <2>1
  <2>4. Faithful(l, n + 1, CopyEntry(l[n + 1], c[n]))
    BY <2>1, <2>2, <2>3, CopyFaithful
  <2> QED
    BY <2>1, <2>3, <2>4
<1>4. Faithful(l, N, c[N])
  <2> HIDE DEF S
  <2>1. 0..N \subseteq S
    BY <1>1, <1>2, <1>3, UpTo
  <2> QED
    BY <1>1, <2>1 DEF S
<1> QED
  BY <1>4 DEF Faithful, c, app_remove_autostart_entry

\* The program's own entry at the end of a line is nobody else's, nor is a
\* space for which there was just room.
LEMMA LineKeepsOthers ==
    ASSUME ShellAssumption, NEW l \in Seq(Token), Size(l) < LineCapacity,
           NEW here
    PROVE  SameOthers(l, NewLine(l, here))
<1> DEFINE r == app_remove_autostart_entry(l)
           m == NewLine(l, here)
<1>1. r \in Seq(Token \ {Exe, Gap}) /\ CopiedUpTo(l, Len(l), r)
  BY CopiesOthers
<1>2. {i \in Others(l) : i <= Len(l)} = Others(l) /\ \A k \in Others(l) : k <= Len(l)
  BY DEF Others
<1>3. m = IF here THEN app_append_token(r, Exe) ELSE r
  BY ReadsLine DEF NewLine
<1> HIDE DEF r, m
<1>4. /\ r \in Seq(Token) /\ Len(r) \in Nat
      /\ \A i \in 1..Len(r) : r[i] \notin {Exe, Gap}
  BY <1>1
<1>5. m \in {r, Append(r, Exe), Append(r, Gap)}
  <2>1. Exe \in Token
    BY DEF ShellAssumption
  <2> QED
    BY <1>3, <1>4, <2>1, AppendsToken
<1>6. Others(m) = 1..Len(r) /\ \A i \in 1..Len(r) : m[i] = r[i]
  <2>1. CASE m = r
    <3>1. DOMAIN m = 1..Len(r)
      BY <1>4, <2>1
    <3>2. \A i \in 1..Len(r) : m[i] \notin {Exe, Gap}
      BY <1>4, <2>1
    <3>3. \A i : ~BehindExe(m, i)
      BY <3>1, <3>2 DEF BehindExe
    <3> QED
      BY <2>1, <3>1, <3>2, <3>3 DEF Others
  <2>2. ASSUME NEW t \in {Exe, Gap}, m = Append(r, t) 
               PROVE  Others(m) = 1..Len(r) /\ \A i \in 1..Len(r) : m[i] = r[i]
    <3>1. /\ DOMAIN m = 1..Len(r) + 1 /\ m[Len(r) + 1] = t
          /\ \A i \in 1..Len(r) : m[i] = r[i]
      BY <1>4, <2>2
    <3>2. \A i \in 1..Len(r) : m[i] \notin {Exe, Gap}
      BY <1>4, <3>1
    <3>3. \A i \in 1..Len(r) : ~BehindExe(m, i)
      <4>1. ASSUME NEW i \in 1..Len(r), NEW j \in 1..Len(r) + 1, j < i PROVE m[j] # Exe
        <5>1. j \in 1..Len(r)
          BY <1>4, <4>1
        <5> QED
          BY <3>2, <5>1
      <4> QED
        BY <3>1, <4>1 DEF BehindExe
    <3>4. \A i \in 1..Len(r) + 1 : i \in 1..Len(r) \/ m[i] \in {Exe, Gap}
      BY <1>4, <2>2, <3>1
    <3>5. Others(m) = 1..Len(r)
      <4>1. 1..Len(r) \subseteq 1..Len(r) + 1
        BY <1>4
      <4> QED
        BY <3>1, <3>2, <3>3, <3>4, <4>1 DEF Others
    <3> QED
      BY <3>1, <3>5
  <2> QED
    BY <1>5, <2>1, <2>2
<1>7. PICK from \in [1..Len(r) -> {i \in Others(l) : i <= Len(l)}] :
        /\ \A i, j \in 1..Len(r) : i < j => from[i] < from[j]
        /\ \A k \in Others(l) : k <= Len(l) => \E i \in 1..Len(r) : from[i] = k
        /\ \A i \in 1..Len(r) : r[i] = l[from[i]]
  BY <1>1 DEF CopiedUpTo, CopiedFrom
<1>8. from \in [Others(m) -> Others(l)]
  BY <1>2, <1>6, <1>7
<1>9. /\ \A i, j \in Others(m) : i < j => from[i] < from[j]
      /\ \A k \in Others(l) : \E i \in Others(m) : from[i] = k
      /\ \A i \in Others(m) : m[i] = l[from[i]]
  BY <1>2, <1>6, <1>7
<1>10. SameOthers(l, m)
  BY <1>8, <1>9, Zenon DEF SameOthers
<1> QED
  BY <1>10 DEF m

LEMMA Untouched == ASSUME NEW l \in Seq(Token) PROVE SameOthers(l, l)
<1> DEFINE from == [i \in Others(l) |-> i]
<1>1. from \in [Others(l) -> Others(l)] /\ \A i \in Others(l) : from[i] = i
  OBVIOUS
<1> HIDE DEF from
<1> QED
  BY <1>1 DEF SameOthers

\* A step keeps what other programs have in a line that leaves a byte free.
KeepsOthers == /\ Size(run) < LineCapacity => SameOthers(run, run')
               /\ Size(load) < LineCapacity => SameOthers(load, load')

\* Saving the settings, in whatever order and however often, takes nothing
\* that other programs have put there from a line run= or load= that leaves
\* one byte of the buffer free, and changes neither its order nor its
\* switches: whatever the buffer's size, and with the program in it or not.
THEOREM OthersStay == Spec => OthersKept
<1>1. ASSUME ShellAssumption, KeptInvariant, [Next]_vars
      PROVE  KeepsOthers
  <2>1. run \in Seq(Token) /\ load \in Seq(Token)
    BY <1>1 DEF KeptInvariant, SettingsTypes
  <2>2. CASE UNCHANGED winini
    BY <2>1, <2>2, Untouched DEF winini, KeepsOthers
  <2>3. ASSUME NEW s, app_apply_autostart(s) PROVE KeepsOthers
    <3>1. NewLines(s)
      BY <2>3, Applies
    <3> QED
      BY <1>1, <2>1, <3>1, LineKeepsOthers, Zenon DEF NewLines, KeepsOthers
  <2>4. UNCHANGED winini \/ \E s : app_apply_autostart(s)
    BY <1>1, Zenon
       DEF Next, TimerSync, ManualSync, SyncReturns, SyncUpdates, Start, Edit, Save, Exit,
           PowerOff, SaveWorks, SaveFails, vars
  <2> QED
    BY <2>2, <2>3, <2>4
<1>2. KeptInvariant /\ [Next]_vars => [KeepsOthers]_vars
  BY ShellAssumption, <1>1
<1> QED
  BY <1>2, KeptAlways, PTL DEF Spec, OthersKept, KeepsOthers

-----------------------------------------------------------------------------
(* The server: which thread holds what.                                    *)

FormPlaces    == {"idle", "truncate", "write", "set"}
SessionPlaces == {"off", "wait", "greet", "publish", "work", "save"}

WebTypes ==
    /\ config \in Web!Config /\ file \in Web!Config \union {Torn}
    /\ form \in [Form -> FormPlaces] /\ posted \in [Form -> Web!Config]
    /\ scanning \in Root \union {None}
    /\ cache \in [root : Root, tree : Root] \union {None}
    /\ guard \in Session \union {None}
    /\ pc \in [Session -> SessionPlaces]
    /\ root \in Root \union {None} /\ plan \in Root \union {None}

\* sync_guard is held by the one session that is past it.
Holder == \A s \in Session : pc[s] \in {"off", "wait"} <=> guard # s

\* The manifest cache is tagged with the folder that was read for it.
CacheHonest == cache # None => cache.tree = cache.root

\* A session has a folder from sync_guard on, and a listing of it from the
\* merge on.
Owned ==
    /\ guard = None => root = None /\ plan = None
    /\ guard # None => root # None
    /\ \A s \in Session : pc[s] = "greet" => plan = None
    /\ \A s \in Session : pc[s] \in {"publish", "work", "save"} => plan = root

WebSafe == WebTypes /\ Holder /\ CacheHonest /\ Owned

LEMMA WebSafeStep ==
    ASSUME ConfigAssumption, WebSafe, [Web!Next]_(Web!vars)
    PROVE  WebSafe'
<1> USE ConfigAssumption DEF WebSafe, FormPlaces, SessionPlaces
<1>1. CASE UNCHANGED <<scanning, cache, guard, pc, root, plan>> /\ WebTypes'
  BY <1>1 DEF Holder, CacheHonest, Owned
<1>2. ASSUME NEW f \in Form, Web!Post(f) PROVE WebSafe'
  BY <1>1, <1>2 DEF Web!Post, Web!session, WebTypes
<1>3. ASSUME NEW f \in Form, Web!Truncate(f) PROVE WebSafe'
  BY <1>1, <1>3 DEF Web!Truncate, Web!session, WebTypes
<1>4. ASSUME NEW f \in Form, Web!Write(f) PROVE WebSafe'
  BY <1>1, <1>4 DEF Web!Write, Web!session, WebTypes
<1>5. ASSUME NEW f \in Form, Web!SaveFails(f) PROVE WebSafe'
  BY <1>1, <1>5 DEF Web!SaveFails, Web!session, WebTypes
<1>6. ASSUME NEW f \in Form, Web!SetConfig(f) PROVE WebSafe'
  BY <1>1, <1>6 DEF Web!SetConfig, Web!session, WebTypes
<1>7. CASE Web!ScanTree
  BY <1>7 DEF Web!ScanTree, Web!web, Web!session, Web!Config, WebTypes, Holder,
              CacheHonest, Owned
<1>8. CASE Web!ScanPublish
  BY <1>8 DEF Web!ScanPublish, Web!Manifest, Web!web, Web!session, WebTypes, Holder,
              CacheHonest, Owned
<1>9. CASE Web!ScanError
  BY <1>9 DEF Web!ScanError, Web!web, Web!session, WebTypes, Holder, CacheHonest, Owned
<1>10. ASSUME NEW s \in Session, Web!Accept(s) PROVE WebSafe'
  BY <1>10 DEF Web!Accept, Web!Goto, Web!web, WebTypes, Holder, CacheHonest, Owned
<1>11. ASSUME NEW s \in Session, Web!Lock(s) PROVE WebSafe'
  BY <1>11 DEF Web!Lock, Web!Goto, Web!web, Web!Config, WebTypes, Holder, CacheHonest, Owned
<1>12. ASSUME NEW s \in Session, Web!Merge(s) PROVE WebSafe'
  BY <1>12 DEF Web!Merge, Web!server_manifest, Web!Goto, Web!web, WebTypes, Holder,
               CacheHonest, Owned
<1>13. ASSUME NEW s \in Session, Web!Publish(s) PROVE WebSafe'
  BY <1>13 DEF Web!Publish, Web!Manifest, Web!Goto, Web!web, WebTypes, Holder,
               CacheHonest, Owned
<1>14. ASSUME NEW s \in Session, Web!Replace(s) PROVE WebSafe'
  BY <1>14 DEF Web!Replace, Web!Manifest, Web!Goto, Web!web, WebTypes, Holder,
               CacheHonest, Owned
<1>15. ASSUME NEW s \in Session, Web!End(s) PROVE WebSafe'
  BY <1>15 DEF Web!End, Web!Goto, Web!web, WebTypes, Holder, CacheHonest, Owned
<1>16. CASE Web!Restart
  BY <1>16 DEF Web!Restart, Web!Default, Web!Config, WebTypes, Holder, CacheHonest, Owned
<1>17. CASE UNCHANGED Web!vars
  BY <1>1, <1>17 DEF Web!vars, Web!web, Web!session, WebTypes
<1> QED
  BY <1>2, <1>3, <1>4, <1>5, <1>6, <1>7, <1>8, <1>9, <1>10, <1>11, <1>12, <1>13,
     <1>14, <1>15, <1>16, <1>17
     DEF Web!Next

LEMMA WebSafeInvariant == ASSUME ConfigAssumption PROVE Web!Spec => []WebSafe
<1>1. Web!Init => WebSafe
  BY ConfigAssumption
     DEF Web!Init, Web!NoSession, Web!Default, Web!Config, WebSafe, WebTypes, Holder,
         CacheHonest, Owned, FormPlaces, SessionPlaces
<1>2. WebSafe /\ [Web!Next]_(Web!vars) => WebSafe'
  BY ConfigAssumption, WebSafeStep
<1> QED
  BY <1>1, <1>2, PTL DEF Web!Spec

\* However many sessions wait for their turn, and whatever forms and scans do
\* meanwhile: a session merges and publishes a listing of its own folder.
THEOREM MergesOwnTree ==
    ASSUME ConfigAssumption PROVE Web!Spec => []PlanFromOwnTree
<1>1. WebSafe => PlanFromOwnTree
  BY ConfigAssumption
     DEF WebSafe, WebTypes, Holder, Owned, SessionPlaces, PlanFromOwnTree,
         Web!PlanFromOwnTree
<1> QED
  BY <1>1, WebSafeInvariant, PTL

-----------------------------------------------------------------------------
(* The server: the configuration in memory and on the disk.                *)

\* Forms are posted one at a time.
OneForm == \A f, g \in Form : f = g

\* Where the file is when a form is half done: as it was, empty, or new.
Saving ==
    /\ (\A f \in Form : form[f] = "idle") => file \in {Torn, config}
    /\ \A f \in Form : /\ form[f] = "truncate" => file \in {Torn, config}
                       /\ form[f] = "write" => file = Torn
                       /\ form[f] = "set" => file = posted[f]

LEMMA SavingStep ==
    ASSUME OneForm, WebSafe, Saving, [Web!Next]_(Web!vars)
    PROVE  Saving'
<1> USE DEF WebSafe, WebTypes, FormPlaces
<1>1. CASE UNCHANGED <<config, file, form, posted>>
  BY <1>1 DEF Saving
<1>2. ASSUME NEW f \in Form, Web!Post(f) PROVE Saving'
  BY <1>2 DEF Web!Post, OneForm, Saving
<1>3. ASSUME NEW f \in Form, Web!Truncate(f) PROVE Saving'
  BY <1>3 DEF Web!Truncate, OneForm, Saving
<1>4. ASSUME NEW f \in Form, Web!Write(f) PROVE Saving'
  BY <1>4 DEF Web!Write, OneForm, Saving
<1>5. ASSUME NEW f \in Form, Web!SaveFails(f) PROVE Saving'
  BY <1>5 DEF Web!SaveFails, OneForm, Saving
<1>6. ASSUME NEW f \in Form, Web!SetConfig(f) PROVE Saving'
  BY <1>6 DEF Web!SetConfig, OneForm, Saving
<1>7. CASE Web!Restart
  BY <1>7 DEF Web!Restart, Saving
<1>8. CASE \/ Web!ScanTree \/ Web!ScanPublish \/ Web!ScanError \/ UNCHANGED Web!vars
           \/ \E s \in Session : \/ Web!Accept(s) \/ Web!Lock(s) \/ Web!Merge(s)
                                 \/ Web!Publish(s) \/ Web!Replace(s) \/ Web!End(s)
  BY <1>1, <1>8
     DEF Web!ScanTree, Web!ScanPublish, Web!ScanError, Web!Accept, Web!Lock, Web!Merge,
         Web!Publish, Web!Replace, Web!End, Web!vars, Web!web
<1> QED
  BY <1>2, <1>3, <1>4, <1>5, <1>6, <1>7, <1>8 DEF Web!Next

\* After any number of forms, failed writes and restarts the file holds the
\* configuration in use unless writing it has been interrupted.
THEOREM FileFollowsMemory ==
    ASSUME ConfigAssumption, OneForm PROVE Web!Spec => []FileIsMemory
<1>1. Web!Init => Saving
  BY DEF Web!Init, Saving
<1>2. WebSafe /\ Saving /\ [Web!Next]_(Web!vars) => Saving'
  BY OneForm, SavingStep
<1>3. Saving => FileIsMemory
  BY DEF Saving, FileIsMemory, Web!FileIsMemory
<1> QED
  BY <1>1, <1>2, <1>3, WebSafeInvariant, PTL DEF Web!Spec

=============================================================================
