------------------------------ MODULE TickClock ------------------------------
(***************************************************************************)
(* The pause in LPTInit, and get_ticks, which it is made of.  The BIOS     *)
(* counts the ticks (18.2 a second) since midnight in two words of 16      *)
(* bits.  get_ticks means to return both; but it shifts the upper word, of *)
(* 16 bits, by 16 bits, and so has the lower one alone.  That the lower    *)
(* word begins anew, every hour and at midnight, it takes for the end of   *)
(* the day, and adds the ticks of a day.                                   *)
(*                                                                         *)
(* LptLink takes the pause to be longer than every timeout of the target   *)
(* (HostInitDone): that is what the properties are about.                  *)
(***************************************************************************)
EXTENDS Integers

CONSTANTS Word,          \* values of a word: 2^16
          DayHi, DayLo,  \* the ticks of a day: 0x18, 0xB0
          Pause,         \* ticks to wait: 36
          Lag            \* at most so many ticks between two calls of get_ticks

Day == DayHi * Word + DayLo  \* 0x1800B0

ASSUME ClockAssumption == /\ Word \in Nat /\ DayHi \in Nat \ {0} /\ DayLo \in 1 .. Word - 1
                          /\ Pause \in Nat \ {0}
                          /\ Day >= Word + Pause
                          /\ Lag \in 1 .. DayLo - 1

VARIABLES hi, lo,     \* what INT 1Ah returns in CX and DX
          timebase, lastticks,
          timeNow,    \* LPTInit: time_now
          pc,         \* LPTInit: "call", "poll" or "done"
          lag,        \* ticks since the last call of get_ticks
          elapsed,    \* ticks since the pause began, as far as they matter
          turned      \* has lo begun anew since?

clock == <<hi, lo>>
vars == <<clock, timebase, lastticks, timeNow, pc, lag, elapsed, turned>>

Init == /\ hi \in 0 .. DayHi
        /\ lo \in IF hi < DayHi THEN 0 .. Word - 1 ELSE 0 .. DayLo - 1
        /\ timebase = 0 /\ lastticks = 0 /\ timeNow = 0
        /\ pc = "call" /\ lag = 0
        /\ elapsed = 0 /\ turned = FALSE
-----------------------------------------------------------------------------
Longest == Pause + Lag  \* elapsed is counted up to this

\* The timer interrupt.  While LPTInit polls, it does not stay behind.
Tick == /\ pc = "poll" => lag < Lag
        /\ \/ /\ hi = DayHi /\ lo = DayLo - 1      \* midnight
              /\ hi' = 0 /\ lo' = 0
           \/ /\ lo = Word - 1
              /\ hi' = hi + 1 /\ lo' = 0
           \/ /\ lo # Word - 1 /\ ~(hi = DayHi /\ lo = DayLo - 1)
              /\ lo' = lo + 1 /\ UNCHANGED hi
        /\ IF pc = "poll"
           THEN /\ lag' = lag + 1
                /\ elapsed' = IF elapsed < Longest THEN elapsed + 1 ELSE elapsed
                /\ turned' = (turned \/ lo' = 0)
           ELSE UNCHANGED <<lag, elapsed, turned>>
        /\ UNCHANGED <<timebase, lastticks, timeNow, pc>>

\* get_ticks: _CX << 16 is 0
Ticks == timebase + lo

\* Variants of Turned: also without a tick; never.
TurnedOrSame == Ticks <= lastticks
TurnedNever == FALSE

Turned == Ticks < lastticks

\* Variant of Read: the result is remembered, not what it was made from.
ReadResult == /\ timebase' = IF Turned THEN timebase + Day ELSE timebase
              /\ lastticks' = timebase' + Ticks
              /\ lag' = 0

Read == /\ timebase' = IF Turned THEN timebase + Day ELSE timebase
        /\ lastticks' = Ticks
        /\ lag' = 0

Result == timebase' + Ticks

\* time_now = get_ticks()
LPTInit == /\ pc = "call" /\ pc' = "poll"
           /\ Read
           /\ timeNow' = Result
           /\ UNCHANGED <<clock, elapsed, turned>>

\* while (get_ticks() < (time_now + 36))
Poll == /\ pc = "poll"
        /\ Read
        /\ pc' = IF Result < timeNow + Pause THEN "poll" ELSE "done"
        /\ UNCHANGED <<clock, timeNow, elapsed, turned>>

Next == Tick \/ LPTInit \/ Poll

Spec == Init /\ [][Next]_vars
-----------------------------------------------------------------------------
TypeOK == /\ hi \in 0 .. DayHi /\ lo \in 0 .. Word - 1
          /\ timebase \in {0, Day} /\ lastticks \in 0 .. Word - 1 /\ timeNow \in 0 .. Word - 1
          /\ pc \in {"call", "poll", "done"}
          /\ lag \in 0 .. Lag /\ elapsed \in 0 .. Longest
          /\ turned \in BOOLEAN

\* The pause is as long as it should be, unless the lower word of the clock begins
\* anew in the meantime.  (It then ends at once: the ticks of a day are added.)
PauseIsLong == pc = "done" => elapsed >= Pause \/ turned

\* It ends, and is longer than that by less than the time between two polls, whenever
\* it begins: neither the carry into the upper word, which get_ticks does not see, nor
\* midnight holds it up.
PauseIsBounded == elapsed < Longest
=============================================================================
