-------------------------------- MODULE Rate --------------------------------
(***************************************************************************)
(* Time, Duration and Rate (time/): unsigned and signed counts of          *)
(* nanoseconds, and the loop timer that sleeps to the end of each cycle.   *)
(* A thread works for a while and calls Rate::Sleep, again and again; the  *)
(* system clock is read with Time::Now and may be set back or forward.     *)
(* One tick stands for any number of nanoseconds; Word is 2^64.            *)
(***************************************************************************)
EXTENDS Integers

CONSTANTS
  Word,           \* the number of values of a uint64_t
  Cycles,         \* the expected cycle times, in ticks
  MaxNow,         \* bound: the clock
  MaxJumps        \* bound: how often the clock is set

VARIABLES
  now,            \* the system clock
  start_, expected_cycle_time_, actual_cycle_time_,
  sleeping,       \* the thread is in SleepUntil
  until,          \* ... to this time
  asleep,         \* history: ticks of this sleep
  jumps,
  jumped          \* history: the clock was set back since Sleep began to wait

rateVars == <<now, start_, expected_cycle_time_, actual_cycle_time_, sleeping, until, asleep, jumps, jumped>>

-----------------------------------------------------------------------------
(* uint64_t and int64_t arithmetic. *)

Unsigned(n) == n % Word
Signed(n) == IF n % Word < Word \div 2 THEN n % Word ELSE (n % Word) - Word

TimePlus(time, duration) == Unsigned(time + duration)
TimeDifference(time, earlier) == Signed(time - earlier)

-----------------------------------------------------------------------------
RateInit ==
  /\ now \in 1 .. 2 /\ start_ = now
  /\ expected_cycle_time_ \in Cycles /\ actual_cycle_time_ = 0
  /\ sleeping = FALSE /\ until = 0 /\ asleep = 0 /\ jumps = 0 /\ jumped = FALSE

Tick ==
  /\ now < MaxNow
  /\ now' = now + 1
  /\ asleep' = IF sleeping THEN asleep + 1 ELSE asleep
  /\ UNCHANGED <<start_, expected_cycle_time_, actual_cycle_time_, sleeping, until, jumps, jumped>>

(* The clock is set; a sleeper waits for the new time. *)
SetClock ==
  /\ jumps < MaxJumps
  /\ \E t \in 1 .. MaxNow : now' = t
  /\ jumps' = jumps + 1
  /\ jumped' = (jumped \/ (sleeping /\ now' < now))
  /\ UNCHANGED <<start_, expected_cycle_time_, actual_cycle_time_, sleeping, until, asleep>>

(* More than a cycle late: the next cycle starts now. *)
StartAfterDelay(end) == IF now > TimePlus(end, expected_cycle_time_) THEN now ELSE end

(* Fault: a clock that was set back is not noticed. *)
ExpectedEndBlind == TimePlus(start_, expected_cycle_time_)

(* The clock was set back since the cycle started: the cycle starts over. *)
ExpectedEnd == TimePlus(IF now < start_ THEN now ELSE start_, expected_cycle_time_)

Sleep ==
  /\ ~ sleeping
  /\ actual_cycle_time_' = TimeDifference(now, start_)
  /\ IF TimeDifference(ExpectedEnd, now) < 0
     THEN start_' = StartAfterDelay(ExpectedEnd) /\ UNCHANGED <<sleeping, until>>
     ELSE start_' = ExpectedEnd /\ sleeping' = TRUE /\ until' = ExpectedEnd
  /\ asleep' = 0 /\ jumped' = FALSE
  /\ UNCHANGED <<now, expected_cycle_time_, jumps>>

(* sleep_until returns. *)
Wake ==
  /\ sleeping /\ now >= until
  /\ sleeping' = FALSE
  /\ UNCHANGED <<now, start_, expected_cycle_time_, actual_cycle_time_, until, asleep, jumps, jumped>>

Reset ==
  /\ ~ sleeping
  /\ start_' = now
  /\ UNCHANGED <<now, expected_cycle_time_, actual_cycle_time_, sleeping, until, asleep, jumps, jumped>>

RateNext == Tick \/ SetClock \/ Sleep \/ Wake \/ Reset

RateSpec == RateInit /\ [][RateNext]_rateVars

-----------------------------------------------------------------------------
(* One call of Rate::Sleep never waits for more than one cycle, whatever   *)
(* the delay of the work before it and however the clock was set, unless   *)
(* the clock is set back while it waits.                                   *)
SleepsAtMostACycle ==
  sleeping /\ ~ jumped => until - now <= expected_cycle_time_ /\ until <= now + expected_cycle_time_ - asleep

(* No step breaks that; and a call that finds itself late leaves at most   *)
(* one cycle to be made up for: a thread that was held up does not run its *)
(* cycles without a pause.                                                 *)
KeepsThePace ==
  [][/\ SleepsAtMostACycle'
     /\ Sleep /\ ~ sleeping' => now - start_' <= expected_cycle_time_]_rateVars
=============================================================================
