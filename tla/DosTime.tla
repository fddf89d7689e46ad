------------------------------- MODULE DosTime -------------------------------
(***************************************************************************)
(* The time stamps of files: a DOS date and time on the client and on the  *)
(* wire, seconds since 1970 on the server's disk.                          *)
(*                                                                         *)
(* A time is [days, seconds] since 1970, days of 86400 seconds; a stamp is *)
(* the record of the fields of its 32 bits, Zero where all are 0.          *)
(***************************************************************************)
EXTENDS Integers

CONSTANT None

Zero == [year |-> 0, month |-> 0, day |-> 0, hour |-> 0, minute |-> 0, second |-> 0]

\* Mistake: the year is not moved for January and February.
days_from_civil_plain(year, month, day) ==
    LET era == year \div 400
        yoe == year - era * 400
        doy == (153 * (month + IF month > 2 THEN -3 ELSE 9) + 2) \div 5 + day - 1
    IN  era * 146097 + (yoe * 365 + yoe \div 4 - yoe \div 100 + doy) - 719468

days_from_civil(year, month, day) ==
    LET adjusted == year - IF month <= 2 THEN 1 ELSE 0
        era == adjusted \div 400
        yoe == adjusted - era * 400
        doy == (153 * (month + IF month > 2 THEN -3 ELSE 9) + 2) \div 5 + day - 1
    IN  era * 146097 + (yoe * 365 + yoe \div 4 - yoe \div 100 + doy) - 719468

unix_to_ymdhms(time) ==
    LET z     == time.days + 719468
        era   == z \div 146097
        doe   == z - era * 146097
        yoe   == (doe - doe \div 1460 + doe \div 36524 - doe \div 146096) \div 365
        doy   == doe - (365 * yoe + yoe \div 4 - yoe \div 100)
        mp    == (5 * doy + 2) \div 153
        month == mp + IF mp < 10 THEN 3 ELSE -9
    IN  [year   |-> yoe + era * 400 + IF month <= 2 THEN 1 ELSE 0,
         month  |-> month,
         day    |-> doy - (153 * mp + 2) \div 5 + 1,
         hour   |-> time.seconds \div 3600,
         minute |-> (time.seconds % 3600) \div 60,
         second |-> time.seconds % 60]

\* Seven bits of the year are left, without a word.
system_time_to_dos(time) ==
    LET t == unix_to_ymdhms(time)
    IN  IF t.year < 1980 THEN Zero
        ELSE [t EXCEPT !.year = (@ - 1980) % 128, !.second = @ \div 2]

dos_time_to_unix(stamp) ==
    IF \/ stamp.month \notin 1..12 \/ stamp.day \notin 1..31
       \/ stamp.hour > 23 \/ stamp.minute > 59 \/ stamp.second > 29
    THEN None
    ELSE [days    |-> days_from_civil(stamp.year + 1980, stamp.month, stamp.day),
          seconds |-> stamp.hour * 3600 + stamp.minute * 60 + stamp.second * 2]

\* The time of a file on the server's disk after an upload; without a stamp
\* that means a time the file keeps the time at which it was written.
set_file_dos_time(written, stamp) ==
    IF stamp = Zero \/ dos_time_to_unix(stamp) = None THEN written ELSE dos_time_to_unix(stamp)
=============================================================================
