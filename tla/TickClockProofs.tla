--------------------------- MODULE TickClockProofs ---------------------------
(***************************************************************************)
(* The pause of LPTInit is long enough unless the lower word of the clock  *)
(* begins anew, and never too long.                                        *)
(*                                                                         *)
(* PauseIsLong speaks of the end of the pause alone.  While it lasts, the  *)
(* clock is where the last call of get_ticks saw it and as many ticks      *)
(* further as have passed since, or has begun anew once, and then stands   *)
(* lower than get_ticks remembers: the next call must notice.              *)
(***************************************************************************)
EXTENDS TickClock, TLAPS

Polling ==
    /\ timebase = 0
    /\ timeNow <= lastticks /\ lastticks < timeNow + Pause
    /\ elapsed = lastticks - timeNow + lag
    /\ ~turned => lo = lastticks + lag
    /\ turned => \/ lo = lastticks + lag - Word
                 \/ lo = lastticks + lag - DayLo /\ lastticks < DayLo

IInv == /\ TypeOK
        /\ hi = DayHi => lo < DayLo
        /\ pc = "call" => timebase = 0 /\ lastticks = 0 /\ lag = 0 /\ elapsed = 0 /\ ~turned
        /\ pc = "poll" => Polling
        /\ pc = "done" => elapsed >= Pause \/ turned
        /\ elapsed < Longest

\* The ticks of a day, as far as their number matters
LEMMA DayIsLong == Day \in Nat /\ Day >= Word + Pause
<1>1. DayHi * Word \in Nat
  BY ClockAssumption
<1> QED
  BY <1>1, ClockAssumption DEF Day

LEMMA InitInv == Init => IInv
<1> SUFFICES ASSUME Init PROVE IInv
  OBVIOUS
<1>1. lo \in 0 .. Word - 1 /\ (hi = DayHi => lo < DayLo)
  <2>1. CASE hi < DayHi
    BY <2>1, ClockAssumption DEF Init
  <2>2. CASE ~(hi < DayHi)
    BY <2>2, ClockAssumption DEF Init
  <2> QED
    BY <2>1, <2>2
<1>2. Longest \in Nat /\ 0 < Longest
  BY ClockAssumption DEF Longest
<1>3. turned \in BOOLEAN /\ ~turned
  BY Zenon DEF Init
<1>4. TypeOK
  BY <1>1, <1>2, <1>3, ClockAssumption DEF Init, TypeOK
<1> QED
  BY <1>1, <1>2, <1>3, <1>4 DEF Init, IInv

LEMMA TickInv == IInv /\ Tick => IInv'
<1> SUFFICES ASSUME IInv, Tick PROVE IInv'
  OBVIOUS
<1> USE ClockAssumption
<1>1. hi' \in 0 .. DayHi /\ lo' \in 0 .. Word - 1 /\ (hi' = DayHi => lo' < DayLo)
  BY DEF IInv, TypeOK, Tick
<1>2. CASE pc = "poll"
  <2>1. lag' = lag + 1 /\ lag' <= Lag /\ elapsed' = elapsed + 1 /\ elapsed' < Longest
    BY <1>2 DEF Tick, IInv, TypeOK, Polling, Longest
  <2>2. CASE lo' = 0
    <3>1. (lo = DayLo - 1 /\ hi = DayHi) \/ lo = Word - 1
      BY <2>2 DEF Tick, IInv, TypeOK
    <3>2. turned'
      BY <1>2, <2>2, Zenon DEF Tick
    <3>3. ~turned
      BY <1>2, <2>1, <3>1 DEF IInv, Polling, TypeOK
    <3>4. Polling'
      BY <1>1, <1>2, <2>1, <2>2, <3>1, <3>2, <3>3 DEF IInv, TypeOK, Polling, Tick
    <3>5. TypeOK'
      BY <1>1, <1>2, <2>1, <3>2 DEF IInv, TypeOK, Tick, Longest
    <3> QED
      BY <1>1, <1>2, <2>1, <3>4, <3>5 DEF IInv, Tick
  <2>3. CASE lo' # 0
    <3>1. lo' = lo + 1 /\ turned' = turned
      BY <1>2, <2>3 DEF Tick, IInv, TypeOK
    <3>2. Polling'
      BY <1>1, <1>2, <2>1, <2>3, <3>1 DEF IInv, TypeOK, Polling, Tick
    <3>3. TypeOK'
      BY <1>1, <1>2, <2>1, <3>1 DEF IInv, TypeOK, Tick, Longest
    <3> QED
      BY <1>1, <1>2, <2>1, <3>2, <3>3 DEF IInv, Tick
  <2> QED
    BY <2>2, <2>3
<1>3. CASE pc # "poll"
  BY <1>1, <1>3 DEF IInv, TypeOK, Tick
<1> QED
  BY <1>2, <1>3

LEMMA LPTInitInv == IInv /\ LPTInit => IInv'
BY ClockAssumption, DayIsLong
   DEF IInv, TypeOK, Polling, LPTInit, Read, Result, Turned, Ticks, clock, Longest

LEMMA PollInv == IInv /\ Poll => IInv'
<1> SUFFICES ASSUME IInv, Poll PROVE IInv'
  OBVIOUS
<1> USE ClockAssumption, DayIsLong
<1>1. pc = "poll" /\ Polling /\ TypeOK
  BY DEF IInv, Poll
<1>2. lastticks' = lo /\ lag' = 0
  BY <1>1 DEF Poll, Read, Ticks, Polling, TypeOK
<1>3. CASE turned
  <2>1. Turned
    BY <1>1, <1>3 DEF Turned, Ticks, Polling, TypeOK
  <2>2. timebase' = Day /\ pc' = "done"
    BY <1>1, <2>1 DEF Poll, Read, Result, Ticks, Polling, TypeOK
  <2> QED
    BY <1>1, <1>2, <1>3, <2>2 DEF IInv, Poll, TypeOK, clock
<1>4. CASE ~turned
  <2>1. ~Turned /\ Result = lo /\ timebase' = 0
    BY <1>1, <1>4 DEF Turned, Ticks, Result, Poll, Read, Polling, TypeOK
  <2> QED
    BY <1>1, <1>2, <1>4, <2>1 DEF IInv, Poll, Polling, TypeOK, clock
<1> QED
  BY <1>3, <1>4

LEMMA Inductive == Spec => []IInv
<1>1. IInv /\ [Next]_vars => IInv'
  <2>1. IInv /\ UNCHANGED vars => IInv'
    BY DEF IInv, TypeOK, Polling, vars, clock
  <2> QED
    BY <2>1, TickInv, LPTInitInv, PollInv DEF Next
<1> QED
  BY <1>1, InitInv, PTL DEF Spec

\* The tables of get_ticks and the clock keep their types: above all, timebase is
\* advanced by one day at most.
THEOREM TypesKept == Spec => []TypeOK
<1>1. IInv => TypeOK
  BY DEF IInv
<1> QED
  BY <1>1, Inductive, PTL

\* The pause of LPTInit lasts Pause ticks, whatever the time is when it begins and
\* however the calls of get_ticks lie between the ticks, unless the lower word of
\* the clock begins anew.
THEOREM LongEnough == Spec => []PauseIsLong
<1>1. IInv => PauseIsLong
  BY DEF IInv, PauseIsLong
<1> QED
  BY <1>1, Inductive, PTL

\* The pause never lasts Lag ticks more than it should, whenever it begins.
THEOREM NotTooLong == Spec => []PauseIsBounded
<1>1. IInv => PauseIsBounded
  BY DEF IInv, PauseIsBounded
<1> QED
  BY <1>1, Inductive, PTL
=============================================================================
