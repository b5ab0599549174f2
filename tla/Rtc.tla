-------------------------------- MODULE Rtc --------------------------------
(***************************************************************************)
(* src/kernal/drivers/rtc.c and watchdog.c, which share the CMOS clock: a  *)
(* task selects a register and reads it, and IRQ 8 may come between and    *)
(* select another.  Seconds and minutes stand for the seven fields.        *)
(***************************************************************************)
EXTENDS Integers

CONSTANTS
  SECS, MINS,       \* the clock counts SECS seconds to the minute
  TICKS,            \* the ticks are counted modulo it: 2^32 in the code
  wdt_timeout_ticks

ASSUME RtcAssumption ==
  /\ SECS \in Nat \ {0, 1} /\ MINS \in Nat \ {0, 1}
  /\ TICKS \in Nat \ {0} /\ wdt_timeout_ticks \in 1 .. TICKS - 1

VARIABLES
  time, update,       \* the clock; "none", "soon" (UIP is set), "now"
  index,              \* the register that is selected
  at, selected,       \* where rtc_read is, and whether outb has been done
  sec, min,           \* what it has read
  torn,               \* ghost: a value was read in an update or after IRQ 8
  since,              \* ghost: the times since it began
  wdt_ticks, wdt_pet_ticks,
  petting,            \* what watchdog_pet has loaded, or -1
  fired,
  age, quiet,         \* ghosts: ticks since that load, since that of the last pet
  date                \* a month, an hour of it, and the days from 1970 to its first

rtcVars == <<time, update, index, at, selected, sec, min, torn, since,
             wdt_ticks, wdt_pet_ticks, petting, fired, age, quiet>>
readVars  == <<at, selected, sec, min, torn>>
watchVars == <<wdt_ticks, wdt_pet_ticks, petting, fired, age, quiet>>

Times == 0 .. SECS * MINS - 1
Ticks == 0 .. TICKS - 1
Later(t) == (t + 1) % (SECS * MINS)

(* the order of the reads, and the register of each                        *)
After  == [idle |-> "wait", wait |-> "sec", sec |-> "min", min |-> "hold", hold |-> "again"]
RegOf  == [wait |-> "A", sec |-> "sec", min |-> "min", hold |-> "A", again |-> "sec"]

RtcTypeOK ==
  /\ time \in Times /\ update \in {"none", "soon", "now"}
  /\ index \in {"A", "C", "sec", "min"} /\ at \in DOMAIN After \cup {"again", "done"}
  /\ selected \in BOOLEAN /\ sec \in 0 .. SECS - 1 /\ min \in 0 .. MINS - 1
  /\ torn \in BOOLEAN /\ since \subseteq Times
  /\ wdt_ticks \in Ticks /\ wdt_pet_ticks \in Ticks /\ petting \in Ticks \cup {-1}
  /\ fired \in BOOLEAN /\ age \in 0 .. wdt_timeout_ticks /\ quiet \in 0 .. wdt_timeout_ticks

RtcInit ==
  /\ time \in Times /\ update = "none" /\ index = "A"
  /\ at = "idle" /\ selected = FALSE /\ sec = 0 /\ min = 0 /\ torn = FALSE /\ since = {}
  /\ wdt_ticks \in Ticks /\ wdt_pet_ticks = wdt_ticks /\ petting = -1 /\ fired = FALSE
  /\ age = 0 /\ quiet = 0

-----------------------------------------------------------------------------
(* the clock goes on by itself                                             *)
Clock ==
  /\ CASE update = "none" -> update' = "soon" /\ UNCHANGED <<time, since>>
       [] update = "soon" -> update' = "now" /\ UNCHANGED <<time, since>>
       [] update = "now"  -> /\ update' = "none" /\ time' = Later(time)
                             /\ since' = since \cup {Later(time)}
  /\ UNCHANGED <<index, readVars, watchVars>>

(* in an update each register reads as it was or as it will be             *)
SecValues == {t % SECS : t \in {time} \cup (IF update = "now" THEN {Later(time)} ELSE {})}
MinValues == {t \div SECS : t \in {time} \cup (IF update = "now" THEN {Later(time)} ELSE {})}
Reads ==
  CASE index = "sec" -> SecValues
    [] index = "min" -> MinValues
    [] index = "A"   -> {IF update = "none" THEN 0 ELSE 1}
    [] index = "C"   -> {0}

Begin ==
  /\ at \in {"idle", "done"} /\ at' = "wait" /\ torn' = FALSE /\ since' = {time}
  /\ UNCHANGED <<time, update, index, selected, sec, min, watchVars>>

(* cmos_read: outb, then inb                                               *)
Select ==
  /\ at \in DOMAIN RegOf /\ ~selected /\ selected' = TRUE
  /\ index' = RegOf[at]
  /\ UNCHANGED <<time, update, at, sec, min, torn, since, watchVars>>

(* rtc_read: wait out an update; begin again when the seconds have moved   *)
Decide(v) ==
  CASE at \in {"wait", "hold"} /\ v = 1 -> at
    [] at = "again" -> IF v = sec THEN "done" ELSE "sec"
    [] OTHER -> After[at]

Value ==
  /\ selected /\ selected' = FALSE
  /\ \E v \in Reads :
       /\ at'  = Decide(v)
       /\ sec' = IF at = "sec" THEN v ELSE sec
       /\ min' = IF at = "min" THEN v ELSE min
  /\ torn' = (torn \/ index # RegOf[at] \/ (update = "now" /\ index # "A"))
  /\ UNCHANGED <<time, update, index, since, watchVars>>

-----------------------------------------------------------------------------
Elapsed(ticks) == (ticks - wdt_pet_ticks) % TICKS

(* rtc_wdt_handler: register C is read to clear the interrupt              *)
RtcIrq ==
  /\ ~fired
  /\ index' = "C"
  /\ wdt_ticks' = (wdt_ticks + 1) % TICKS
  /\ fired' = (Elapsed(wdt_ticks') >= wdt_timeout_ticks)
  /\ quiet' = quiet + 1 /\ age' = IF petting = -1 THEN 0 ELSE age + 1
  /\ UNCHANGED <<time, update, readVars, since, wdt_pet_ticks, petting>>

(* watchdog_pet: the load, and then the store                              *)
PetLoad ==
  /\ ~fired /\ petting = -1
  /\ petting' = wdt_ticks /\ age' = 0
  /\ UNCHANGED <<time, update, index, readVars, since, wdt_ticks, wdt_pet_ticks, fired, quiet>>

PetStore ==
  /\ ~fired /\ petting # -1
  /\ wdt_pet_ticks' = petting /\ petting' = -1
  /\ quiet' = age /\ age' = 0
  /\ UNCHANGED <<time, update, index, readVars, since, wdt_ticks, fired>>

RtcNext == Clock \/ Begin \/ Select \/ Value \/ RtcIrq \/ PetLoad \/ PetStore

-----------------------------------------------------------------------------
(* What rtc_read and rtc_to_unix make of the registers, for a field or a   *)
(* date each.  The functions keep no state; date goes through the months.  *)

BcdToBin(bcd) == (bcd \div 16) * 10 + (bcd % 16)

(* the hour, from the register and the two bits of status B: binary, 24 h  *)
HourOf(raw, binary, full) ==
  LET hour == IF binary THEN raw ELSE BcdToBin(raw)
  IN IF ~full /\ hour >= 128 THEN ((hour % 128) + 12) % 24 ELSE hour

LeapYear(y) == (y % 4 = 0 /\ y % 100 # 0) \/ y % 400 = 0
DaysInMonth == <<0, 31, 59, 90, 120, 151, 181, 212, 243, 273, 304, 334>>

(* the days of rtc_to_unix since the beginning of 1970                     *)
UnixDays(y, m, d) ==
  (y - 1970) * 365 + (y - 1970 + 2) \div 4 + DaysInMonth[m]
    + (IF m > 2 /\ LeapYear(y) THEN 1 ELSE 0) + d - 1

(* The registers of an hour and the months of the calendar, as they are.   *)
ToBcd(n) == (n \div 10) * 16 + (n % 10)
HourRegister(h, binary, full) ==
  LET shown == IF full THEN h ELSE IF h % 12 = 0 THEN 12 ELSE h % 12
  IN (IF binary THEN shown ELSE ToBcd(shown)) + (IF ~full /\ h >= 12 THEN 128 ELSE 0)

Length(y, m) == CASE m \in {4, 6, 9, 11} -> 30 [] m = 2 -> (IF LeapYear(y) THEN 29 ELSE 28) [] OTHER -> 31

LastYear == 2099   \* of the clock's two digits
DateInit == date = [year |-> 1970, month |-> 1, hour |-> 0, days |-> 0]
NextMonth ==
  /\ date.year < LastYear \/ date.month < 12
  /\ date' = [year  |-> date.year + (date.month \div 12), month |-> (date.month % 12) + 1,
              hour  |-> (date.hour + 1) % 24, days |-> date.days + Length(date.year, date.month)]

(* A clock that counts to 24 is read right.  One that counts to 12 is not: *)
(* with BCD the afternoon's bit is lost in the conversion, with binary     *)
(* numbers the hours 0 and 12 are taken for each other.  The days of a     *)
(* date are the calendar's in a common year and one more in a leap year,   *)
(* whose last day has the same number as the day after it.                 *)
ConversionsTrue ==
  LET h == date.hour
  IN /\ \A binary \in BOOLEAN :
          /\ HourOf(HourRegister(h, binary, TRUE), binary, TRUE) = h
          /\ h \notin {0, 12} /\ (binary \/ h < 12) => HourOf(HourRegister(h, binary, FALSE), binary, FALSE) = h
     /\ UnixDays(date.year, date.month, 1) = date.days + (IF LeapYear(date.year) THEN 1 ELSE 0)

-----------------------------------------------------------------------------
(* The time that was read is one that the clock had since rtc_read began,  *)
(* however many seconds passed between its reads, unless one of them fell  *)
(* into an update or was disturbed by IRQ 8; and the watchdog fires when   *)
(* the last pet was loaded a timeout ago, not before and not later, across *)
(* the wrap of its counter.                                                *)
ClockTrue ==
  /\ at = "done" /\ ~torn => min * SECS + sec \in since
  /\ fired <=> quiet = wdt_timeout_ticks

=============================================================================
