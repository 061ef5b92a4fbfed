------------------------------- MODULE Clock -------------------------------
(***************************************************************************)
(* The wall clock driver, kernel/src/drivers/rtc.rs: one call of init().   *)
(*                                                                         *)
(* The chip (external) shows a civil time in seven registers and moves it  *)
(* on by itself; the driver reads them one port access at a time, so an    *)
(* update may fall between any two of its reads.  A register read during   *)
(* an update shows the old or the new value.  The driver's defence is a    *)
(* wait for the update flag to clear and a second reading that must agree  *)
(* with the first.                                                         *)
(***************************************************************************)
EXTENDS Integers, Sequences

CONSTANTS StartTimes,   \* the times the chip may show when init is called
          ClockModes,   \* [binary, day24]: the encodings status B may announce
          MaxUpdates,   \* updates that may fall into one call; each takes a second
          ReadRetries   \* the bound of now()'s loop, 10 in the code

\* Times whose two digits of the year mean what read_raw takes them for.
CivilTimes == [year : 1970..2069, month : 1..12, day : 1..31,
               hour : 0..23, minute : 0..59, second : 0..59]

\* An update comes once a second, so a call of a few hundred port accesses sees
\* a minute's worth of them at most, and too few to spoil all its readings: one
\* update spoils a reading's comparison with the one before and the one after.
ASSUME ClockAssumption ==
    /\ StartTimes \subseteq CivilTimes
    /\ ClockModes \subseteq [binary : BOOLEAN, day24 : BOOLEAN]
    /\ MaxUpdates \in 0..59 /\ ReadRetries \in Nat /\ 2 * MaxUpdates < ReadRetries

VARIABLES chip,   \* the hardware: time shown, update flag, updates so far
          rtc     \* the driver: where it is in init and what it has read

clockVars == <<chip, rtc>>

Fields == <<"second", "minute", "hour", "day", "month", "year">>
NoTime == [year |-> 0, month |-> 0, day |-> 0, hour |-> 0, minute |-> 0, second |-> 0]

-----------------------------------------------------------------------------
(* The chip. *)

Leap(y) == (y % 4 = 0 /\ y % 100 # 0) \/ y % 400 = 0
MonthDays(y, m) == IF m = 2 THEN IF Leap(y) THEN 29 ELSE 28
                   ELSE IF m \in {4, 6, 9, 11} THEN 30 ELSE 31

\* The civil time one second after t.
Later(t) ==
    IF t.second < 59 THEN [t EXCEPT !.second = @ + 1]
    ELSE IF t.minute < 59 THEN [t EXCEPT !.second = 0, !.minute = @ + 1]
    ELSE IF t.hour < 23 THEN [t EXCEPT !.second = 0, !.minute = 0, !.hour = @ + 1]
    ELSE IF t.day < MonthDays(t.year, t.month)
    THEN [t EXCEPT !.second = 0, !.minute = 0, !.hour = 0, !.day = @ + 1]
    ELSE IF t.month < 12
    THEN [t EXCEPT !.second = 0, !.minute = 0, !.hour = 0, !.day = 1, !.month = @ + 1]
    ELSE [NoTime EXCEPT !.year = t.year + 1, !.month = 1, !.day = 1]

\* The byte a register holds: two digits of the year, twelve-hour hours with
\* the afternoon in bit 7, and BCD unless status B says binary.
Encoded(mode, v) == IF mode.binary THEN v ELSE (v \div 10) * 16 + (v % 10)
RegisterOf(mode, t, field) ==
    CASE field = "year" -> Encoded(mode, t.year % 100)
      [] field = "hour" /\ ~mode.day24 ->
            Encoded(mode, IF t.hour % 12 = 0 THEN 12 ELSE t.hour % 12)
              + (IF t.hour >= 12 THEN 128 ELSE 0)
      [] OTHER -> Encoded(mode, t[field])

UpdateBegins ==
    /\ rtc.pc \in {"wait", "read"} /\ ~chip.busy /\ chip.updates < MaxUpdates
    /\ chip' = [chip EXCEPT !.busy = TRUE]
    /\ UNCHANGED rtc

UpdateEnds ==
    /\ chip.busy
    /\ chip' = [chip EXCEPT !.busy = FALSE, !.time = Later(@), !.updates = @ + 1]
    /\ rtc' = [rtc EXCEPT !.seen = @ \union {Later(chip.time)}]

-----------------------------------------------------------------------------
(* The driver. *)

from_bcd(v) == (v % 16) + (v \div 16) * 10

\* The conversions of read_raw, after the six registers and status B are read.
Converted(mode, regs) ==
    LET convert(v) == IF mode.binary THEN v ELSE from_bcd(v)
        pm   == ~mode.day24 /\ regs[3] >= 128
        hour == convert(regs[3] % 128)
        year == convert(regs[6])
    IN [year   |-> IF year < 70 THEN 2000 + year ELSE 1900 + year,
        month  |-> convert(regs[5]),
        day    |-> convert(regs[4]),
        hour   |-> IF pm /\ hour # 12 THEN hour + 12
                   ELSE IF ~mode.day24 /\ ~pm /\ hour = 12 THEN 0 ELSE hour,
        minute |-> convert(regs[2]),
        second |-> convert(regs[1])]

is_plausible(t) ==
    /\ t.year \in 2000..2199 /\ t.month \in 1..12 /\ t.day \in 1..31
    /\ t.hour < 24 /\ t.minute < 60 /\ t.second <= 60

\* to_unix_seconds, as days and seconds of the day: their combination passes
\* 2^31 in 2038 and is a 64-bit sum in the code.
UnixTime(t) ==
    LET y    == IF t.month <= 2 THEN t.year - 1 ELSE t.year
        era  == y \div 400
        yoe  == y - era * 400
        m    == IF t.month > 2 THEN t.month - 3 ELSE t.month + 9
        doy  == (153 * m + 2) \div 5 + t.day - 1
        doe  == yoe * 365 + yoe \div 4 - yoe \div 100 + doy
    IN <<era * 146097 + doe - 719468, t.hour * 3600 + t.minute * 60 + t.second>>

ClockInit ==
    /\ \E t \in StartTimes, mode \in ClockModes :
          chip = [time |-> t, mode |-> mode, busy |-> FALSE, updates |-> 0]
    /\ rtc = [pc |-> "off", regs |-> <<>>, previous |-> NoTime, tries |-> 0,
              result |-> NoTime, seen |-> {}]

\* init calls now, which calls read_raw.
StartReading ==
    /\ rtc.pc = "off"
    /\ rtc' = [rtc EXCEPT !.pc = "wait", !.seen = {chip.time}]
    /\ UNCHANGED chip

\* read_raw spins until no update is in progress.
UpdateFlagClear ==
    /\ rtc.pc = "wait" /\ ~chip.busy
    /\ rtc' = [rtc EXCEPT !.pc = "read", !.regs = <<>>]
    /\ UNCHANGED chip

\* One register; the chip is free to start or end an update before the next.
ReadRegister ==
    /\ rtc.pc = "read" /\ Len(rtc.regs) < Len(Fields)
    /\ \E t \in {chip.time} \union (IF chip.busy THEN {Later(chip.time)} ELSE {}) :
          rtc' = [rtc EXCEPT !.regs =
                    Append(@, RegisterOf(chip.mode, t, Fields[Len(@) + 1]))]
    /\ UNCHANGED chip

\* Mutant of Now: the first reading is returned.
NowAtOnce(reading) ==
    [rtc EXCEPT !.pc = "done", !.regs = <<>>, !.previous = NoTime,
                !.result = IF is_plausible(reading) THEN reading ELSE NoTime]

\* Mutant of Now: every reading is compared with the first, without end.
NowWithFirst(reading) ==
    IF rtc.tries > 0 /\ reading = rtc.previous THEN NowAtOnce(reading)
    ELSE [rtc EXCEPT !.pc = "wait", !.regs = <<>>, !.tries = 1,
                     !.previous = IF rtc.tries = 0 THEN reading ELSE @]

\* What now() does with a finished reading: return it if it agrees with the
\* one before or the retries are used up, else keep it and read again.
Now(reading) ==
    IF rtc.tries > 0 /\ (reading = rtc.previous \/ rtc.tries = ReadRetries)
    THEN [rtc EXCEPT !.pc = "done", !.regs = <<>>, !.previous = NoTime,
                     !.result = IF is_plausible(reading) THEN reading ELSE NoTime]
    ELSE [rtc EXCEPT !.pc = "wait", !.regs = <<>>, !.previous = reading, !.tries = @ + 1]

ReadingDone ==
    /\ rtc.pc = "read" /\ Len(rtc.regs) = Len(Fields)
    /\ rtc' = Now(Converted(chip.mode, rtc.regs))
    /\ UNCHANGED chip

ReadClock == UpdateFlagClear \/ ReadRegister \/ ReadingDone

ClockNext == StartReading \/ ReadClock \/ UpdateBegins \/ UpdateEnds

-----------------------------------------------------------------------------
(* The count of days by the calendar itself: whole years, whole months, days. *)
YearStart[y \in 1970..2200] == IF y = 1970 THEN 0
                               ELSE YearStart[y - 1] + (IF Leap(y - 1) THEN 366 ELSE 365)
MonthStart(y, m) == LET before[k \in 1..12] ==
                            IF k = 1 THEN 0 ELSE before[k - 1] + MonthDays(y, k - 1)
                    IN before[m]

\* What init() returns is a time the chip showed while the call ran, never a
\* mixture of two, with its exact count of days; and it gives up only if the
\* chip showed a year its two digits cannot carry.  This is the update race of
\* rtc.rs, and the BCD, twelve-hour, century and calendar conversions.
TimeWasShown ==
    rtc.pc = "done" =>
        \/ /\ rtc.result \in rtc.seen
           /\ UnixTime(rtc.result) =
                LET t == rtc.result
                IN <<YearStart[t.year] + MonthStart(t.year, t.month) + t.day - 1,
                     (t.hour * 60 + t.minute) * 60 + t.second>>
        \/ rtc.result = NoTime /\ \E t \in rtc.seen : t.year \notin 2000..2069
=============================================================================
