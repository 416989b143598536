------------------------------- MODULE Sleep --------------------------------
(***************************************************************************)
(* SLEEP and the tick counter.  system_ticks is four bytes that the timer  *)
(* interrupt increments; the 8-bit processor reads them one by one, the    *)
(* low one first, and a read is much shorter than a tick, so at most one   *)
(* tick comes between two bytes of it (src/src/HAL.cpp, Kernel.cpp).       *)
(***************************************************************************)
EXTENDS Integers

CONSTANTS
  Sleepers,      \* the tasks that may sleep
  M,             \* the values of an unsigned long (2^32)
  Units,         \* those of its low byte, its low two and its low three
  Times,         \* the times programs sleep: signed numbers
  MaxSlept       \* bound on the time that is counted

ASSUME SleepAssumption ==
  /\ M \in Nat \ {0}
  /\ \A unit \in Units : unit \in 2 .. M - 1 /\ M % unit = 0
  /\ \A ms \in Times : ms \in Int /\ -M < ms /\ ms < M
  /\ MaxSlept \in Nat \ {0} /\ \A ms \in Times : ms < MaxSlept

VARIABLES
  system_ticks,
  wake_up_time,  \* 0 if the task does not sleep
  asked,         \* history: the time the last SLEEP asked for
  slept,         \* history: the ticks since, up to MaxSlept
  torn,          \* history: its read of the counter was torn
  wrapped        \* history: the counter or the sum passed M since

clock == <<system_ticks, slept, wrapped>>
vars == <<clock, wake_up_time, asked, torn>>

Init ==
  /\ system_ticks = 0
  /\ wake_up_time = [t \in Sleepers |-> 0]
  /\ asked = [t \in Sleepers |-> 0] /\ slept = [t \in Sleepers |-> 0]
  /\ torn = [t \in Sleepers |-> FALSE] /\ wrapped = [t \in Sleepers |-> FALSE]

-----------------------------------------------------------------------------
(* The counter.                                                            *)

Next1(n) == (n + 1) % M

Older(n) == IF n < MaxSlept THEN n + 1 ELSE MaxSlept

\* The interrupt.
Ticks ==
  /\ system_ticks' = Next1(system_ticks)
  /\ slept' = [t \in Sleepers |-> Older(slept[t])]
  /\ wrapped' = [t \in Sleepers |-> wrapped[t] \/ system_ticks' = 0]

Tick == Ticks /\ UNCHANGED <<wake_up_time, asked, torn>>

\* What a read returns if the tick comes after the bytes that count to unit:
\* those of the old value and the others of the new one.  A tick before the
\* first byte or after the last is no part of the read.
ReadAround(unit) ==
  (Next1(system_ticks) \div unit) * unit + (system_ticks % unit)

\* The carry goes from the bytes already read to the others.
Tears(unit) == (system_ticks + 1) % unit = 0

-----------------------------------------------------------------------------
\* Mutants: the time alone; a mark one tick too late.
Kernel_yieldAlone(now, ms) == ms % M

SleepsLonger(t, now) == now <= wake_up_time[t]

\* Kernel_yield, an unsigned sum; 0 is no sleep at all.
Kernel_yield(now, ms) == (now + ms) % M

\* SLEEP ms with now as the value read.
Falls(t, ms, now) ==
  /\ wake_up_time[t] = 0
  /\ wake_up_time' = [wake_up_time EXCEPT ![t] = Kernel_yield(now, ms)]
  /\ asked' = [asked EXCEPT ![t] = ms]

SumWraps(now, ms) == now + ms \notin 1 .. M - 1

FallAsleep(t, ms) ==
  /\ Falls(t, ms, system_ticks)
  /\ slept' = [slept EXCEPT ![t] = 0]
  /\ torn' = [torn EXCEPT ![t] = FALSE]
  /\ wrapped' = [wrapped EXCEPT ![t] = SumWraps(system_ticks, ms)]
  /\ UNCHANGED system_ticks

\* The tick during the read is the first of the sleep.
FallAsleepTicking(t, ms, unit) ==
  /\ Falls(t, ms, ReadAround(unit))
  /\ system_ticks' = Next1(system_ticks)
  /\ slept' = [s \in Sleepers |-> IF s = t THEN 1 ELSE Older(slept[s])]
  /\ torn' = [torn EXCEPT ![t] = Tears(unit)]
  /\ wrapped' = [s \in Sleepers |->
       system_ticks' = 0 \/ IF s = t THEN SumWraps(ReadAround(unit), ms) ELSE wrapped[s]]

\* The scheduler's check: the task sleeps on, or its mark goes and it runs.
SleepsOn(t, now) == now < wake_up_time[t]

Asleep(t) == wake_up_time[t] > 0

Wakes(t, now) ==
  /\ Asleep(t) /\ ~SleepsOn(t, now)
  /\ wake_up_time' = [wake_up_time EXCEPT ![t] = 0]
  /\ UNCHANGED <<asked, torn>>

Wake(t) == Wakes(t, system_ticks) /\ UNCHANGED clock

WakeTicking(t, unit) == Wakes(t, ReadAround(unit)) /\ Ticks

Next ==
  \/ Tick
  \/ \E t \in Sleepers, ms \in Times :
       FallAsleep(t, ms) \/ \E unit \in Units : FallAsleepTicking(t, ms, unit)
  \/ \E t \in Sleepers :
       Wake(t) \/ \E unit \in Units : WakeTicking(t, unit)

Spec == Init /\ [][Next]_vars

-----------------------------------------------------------------------------
(* Properties.                                                             *)

\* Types: ticks and wake-up times are 32-bit numbers.
TypeOK ==
  /\ system_ticks \in 0 .. M - 1
  /\ wake_up_time \in [Sleepers -> 0 .. M - 1]
  /\ asked \in [Sleepers -> Times \cup {0}]
  /\ slept \in [Sleepers -> 0 .. MaxSlept]
  /\ torn \in [Sleepers -> BOOLEAN] /\ wrapped \in [Sleepers -> BOOLEAN]

\* Nobody wakes before the time asked for (Kernel_yield against the check of
\* Kernel_runScheduler), unless the counter or the sum wrapped, or a carry
\* came in the middle of the read that wakes: that reads the counter too high.
NotEarly ==
  [][\A t \in Sleepers :
       Asleep(t) /\ wake_up_time'[t] = 0 /\ slept[t] < asked[t]
       => wrapped[t] \/ (slept'[t] > slept[t] /\ \E unit \in Units : Tears(unit))]_vars

\* And every check after that time finds the task due, unless the read
\* of SLEEP was torn, the counter or the sum wrapped, or the time was negative.
NotLate ==
  \A t \in Sleepers :
     Asleep(t) /\ slept[t] >= asked[t] /\ asked[t] >= 0 /\ ~torn[t] /\ ~wrapped[t]
     => /\ ~SleepsOn(t, system_ticks)
        /\ \A unit \in Units : Next1(system_ticks) = 0 \/ ~SleepsOn(t, ReadAround(unit))
=============================================================================
