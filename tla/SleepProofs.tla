----------------------------- MODULE SleepProofs ----------------------------
(***************************************************************************)
(* Proofs about Sleep.tla: for any width of the counter, any sleep times   *)
(* and any number of tasks, when a sleep ends too early or too late.       *)
(***************************************************************************)
EXTENDS Sleep, TLAPS

\* Counted from its SLEEP a task wakes no earlier than it asked for, and no
\* later if its read was not torn.  Beyond MaxSlept nothing is counted.
Marked(t) ==
  Asleep(t) /\ ~wrapped[t] =>
    /\ slept[t] < MaxSlept => wake_up_time[t] >= system_ticks - slept[t] + asked[t]
    /\ ~torn[t] => wake_up_time[t] <= system_ticks - slept[t] + asked[t]

SleepInv == TypeOK /\ \A t \in Sleepers : Marked(t)

-----------------------------------------------------------------------------
(* Reading the counter.                                                    *)

\* The next number: its low part grows by one, or starts again with a carry.
LEMMA Carry ==
  ASSUME NEW n \in Nat, NEW u \in Nat, u > 0
  PROVE  IF (n + 1) % u = 0 THEN ((n + 1) \div u) * u + (n % u) = n + u
         ELSE ((n + 1) \div u) * u + (n % u) = n
<1>1. PICK q \in Nat, r \in 0 .. u - 1 : q = n \div u /\ r = n % u /\ n = q * u + r
  OBVIOUS
<1>2. CASE r = u - 1
  <2>1. n + 1 = (q + 1) * u
    BY <1>1, <1>2
  <2>2. (n + 1) % u = 0 /\ (n + 1) \div u = q + 1
    BY <2>1
  <2> QED BY <1>1, <1>2, <2>1, <2>2
<1>3. CASE r # u - 1
  <2>1. n + 1 = q * u + (r + 1) /\ r + 1 \in 1 .. u - 1
    BY <1>1, <1>3
  <2>2. (n + 1) % u = r + 1 /\ (n + 1) \div u = q
    BY <2>1
  <2> QED BY <1>1, <2>1, <2>2
<1> QED BY <1>2, <1>3

\* A multiple of u that is n + 1.
LEMMA WrapCarries ==
  ASSUME NEW m \in Nat, NEW u \in Nat, u > 0, m % u = 0
  PROVE  \A n \in 0 .. m - 1 : (n + 1) % m = 0 => (n + 1) % u = 0
<1> SUFFICES ASSUME NEW n \in 0 .. m - 1, (n + 1) % m = 0 PROVE (n + 1) % u = 0
  OBVIOUS
<1>1. n + 1 = m
  <2>1. n + 1 < m => (n + 1) % m = n + 1
    OBVIOUS
  <2> QED BY <2>1
<1> QED BY <1>1

\* What a read around a tick returns: the old value, or one that is too high
\* by a whole unit.  The tick that wraps the counter always tears.
LEMMA ReadValue ==
  ASSUME TypeOK, NEW unit \in Units
  PROVE  /\ unit \in Nat /\ unit > 0
         /\ Next1(system_ticks) # 0 => Next1(system_ticks) = system_ticks + 1
         /\ Next1(system_ticks) # 0 =>
              ReadAround(unit) = IF Tears(unit) THEN system_ticks + unit ELSE system_ticks
         /\ Next1(system_ticks) = 0 => Tears(unit)
<1>1. system_ticks \in 0 .. M - 1 /\ M \in Nat /\ M > 0 /\ unit \in 2 .. M - 1 /\ M % unit = 0
  BY SleepAssumption DEF TypeOK
<1>2. unit \in Nat /\ unit > 0 /\ system_ticks \in Nat
  BY ONLY <1>1
<1>3. Next1(system_ticks) # 0 => Next1(system_ticks) = system_ticks + 1
  BY ONLY <1>1 DEF Next1
<1>4. Next1(system_ticks) = 0 => Tears(unit)
  BY ONLY <1>1, <1>2, WrapCarries DEF Next1, Tears
<1>5. ASSUME Next1(system_ticks) # 0
      PROVE  ReadAround(unit) = IF Tears(unit) THEN system_ticks + unit ELSE system_ticks
  <2>1. ReadAround(unit) = ((system_ticks + 1) \div unit) * unit + (system_ticks % unit)
    BY <1>3, <1>5 DEF ReadAround
  <2> QED BY ONLY <1>2, <2>1, Carry DEF Tears
<1> QED BY ONLY <1>2, <1>3, <1>4, <1>5

-----------------------------------------------------------------------------
(* The invariant.                                                          *)

LEMMA Constants ==
  /\ M \in Nat /\ M > 0 /\ MaxSlept \in Nat /\ MaxSlept > 0
  /\ \A ms \in Times \cup {0} : ms \in Int /\ ms < MaxSlept
BY SleepAssumption

LEMMA InitInv == Init => SleepInv
<1> SUFFICES ASSUME Init PROVE SleepInv
  OBVIOUS
<1>1. TypeOK
  BY Constants DEF Init, TypeOK
<1>2. ASSUME NEW t \in Sleepers PROVE ~Asleep(t)
  <2>1. wake_up_time[t] = 0
    BY DEF Init
  <2> QED BY <2>1 DEF Asleep
<1> QED BY <1>1, <1>2 DEF SleepInv, Marked

\* A sleeper's share of the state, in numbers.
LEMMA Typed ==
  ASSUME TypeOK, NEW t \in Sleepers
  PROVE  /\ system_ticks \in Nat /\ system_ticks < M
         /\ wake_up_time[t] \in Nat /\ asked[t] \in Int /\ asked[t] < MaxSlept
         /\ slept[t] \in 0 .. MaxSlept
         /\ torn[t] \in BOOLEAN /\ wrapped[t] \in BOOLEAN
<1>1. system_ticks \in 0 .. M - 1
  BY DEF TypeOK
<1>2. wake_up_time[t] \in 0 .. M - 1 /\ asked[t] \in Times \cup {0}
      /\ slept[t] \in 0 .. MaxSlept /\ torn[t] \in BOOLEAN /\ wrapped[t] \in BOOLEAN
  BY DEF TypeOK
<1> QED BY <1>1, <1>2, Constants

\* The interrupt, for a task that is not doing anything.
LEMMA TickMarked ==
  ASSUME SleepInv, NEW t \in Sleepers,
         system_ticks' = Next1(system_ticks),
         slept'[t] = Older(slept[t]), wrapped'[t] = (wrapped[t] \/ system_ticks' = 0),
         wake_up_time'[t] = wake_up_time[t] \/ wake_up_time'[t] = 0,
         asked'[t] = asked[t], torn'[t] = torn[t]
  PROVE  Marked(t)'
<1>0. TypeOK /\ Marked(t)
  BY DEF SleepInv
<1>1. CASE wrapped[t] \/ system_ticks' = 0 \/ wake_up_time'[t] = 0
  <2>1. CASE wake_up_time'[t] = 0
    BY <2>1 DEF Marked, Asleep
  <2>2. CASE wrapped[t] \/ system_ticks' = 0
    <3>1. wrapped'[t]
      BY <2>2, Zenon
    <3> QED BY <3>1 DEF Marked
  <2> QED BY <1>1, <2>1, <2>2
<1>2. CASE ~wrapped[t] /\ system_ticks' # 0 /\ wake_up_time'[t] # 0
  <2>1. /\ system_ticks \in Nat /\ system_ticks < M
        /\ wake_up_time[t] \in Nat /\ asked[t] \in Int
        /\ slept[t] \in 0 .. MaxSlept /\ MaxSlept \in Nat /\ M \in Nat
    BY <1>0, Typed, Constants
  <2>2. system_ticks' = system_ticks + 1
    BY ONLY <1>2, <2>1, system_ticks' = Next1(system_ticks) DEF Next1
  <2>3. wake_up_time'[t] = wake_up_time[t] /\ Asleep(t)
    BY <1>2, <2>1 DEF Asleep
  <2>4. slept'[t] = IF slept[t] < MaxSlept THEN slept[t] + 1 ELSE MaxSlept
    BY DEF Older
  <2>5. /\ slept[t] < MaxSlept => wake_up_time[t] >= system_ticks - slept[t] + asked[t]
        /\ ~torn[t] => wake_up_time[t] <= system_ticks - slept[t] + asked[t]
    BY <1>0, <1>2, <2>3 DEF Marked
  <2>6. /\ slept'[t] < MaxSlept => wake_up_time'[t] >= system_ticks' - slept'[t] + asked'[t]
        /\ ~torn'[t] => wake_up_time'[t] <= system_ticks' - slept'[t] + asked'[t]
    BY <2>1, <2>2, <2>3, <2>4, <2>5
  <2> QED BY <2>6 DEF Marked
<1> QED BY <1>1, <1>2

\* A task that falls asleep with now as the value read, which is the time since
\* which slept counts unless the read was torn.
LEMMA FallMarked ==
  ASSUME TypeOK, NEW t \in Sleepers, NEW ms \in Times, NEW now \in Int, NEW since \in Int,
         wake_up_time'[t] = Kernel_yield(now, ms), asked'[t] = ms,
         slept'[t] \in 0 .. MaxSlept, since = system_ticks' - slept'[t],
         wrapped'[t] \/ ~SumWraps(now, ms), wrapped'[t] \/ now >= since,
         wrapped'[t] \/ torn'[t] \/ now = since, system_ticks' \in Int
  PROVE  Marked(t)'
<1>1. CASE wrapped'[t]
  BY <1>1 DEF Marked
<1>2. CASE ~wrapped'[t]
  <2>1. now + ms \in 1 .. M - 1 /\ ms \in Int
    BY <1>2, Constants DEF SumWraps
  <2>2. wake_up_time'[t] = now + ms
    BY <2>1, Constants DEF Kernel_yield
  <2>3. /\ wake_up_time'[t] >= system_ticks' - slept'[t] + asked'[t]
        /\ ~torn'[t] => wake_up_time'[t] <= system_ticks' - slept'[t] + asked'[t]
    BY <1>2, <2>1, <2>2, Constants
  <2> QED BY <2>3 DEF Marked
<1> QED BY <1>1, <1>2

-----------------------------------------------------------------------------
(* Every action.                                                           *)

LEMMA NextType ==
  ASSUME TypeOK, [Next]_vars
  PROVE  TypeOK'
<1>0. M \in Nat /\ M > 0 /\ MaxSlept \in Nat /\ MaxSlept > 0
  BY Constants
<1>1. \A n \in Int : n % M \in 0 .. M - 1
  BY <1>0
<1>2. \A n \in 0 .. M - 1 : Next1(n) \in 0 .. M - 1
  BY <1>0, <1>1 DEF Next1
<1>3. \A n \in 0 .. MaxSlept : Older(n) \in 0 .. MaxSlept
  BY <1>0 DEF Older
<1>4. \A unit \in Units : ReadAround(unit) \in Int
  BY ReadValue, <1>2 DEF ReadAround, TypeOK
<1>5. \A ms \in Times, now \in Int : Kernel_yield(now, ms) \in 0 .. M - 1
  BY <1>1, Constants DEF Kernel_yield
<1>6. 0 \in 0 .. M - 1 /\ 0 \in 0 .. MaxSlept /\ 1 \in 0 .. MaxSlept
  BY <1>0
<1>7. CASE Tick
  BY <1>2, <1>3, <1>7 DEF Tick, Ticks, TypeOK
<1>8. ASSUME NEW t \in Sleepers, NEW ms \in Times, FallAsleep(t, ms) PROVE TypeOK'
  <2>1. Kernel_yield(system_ticks, ms) \in 0 .. M - 1
    BY <1>5 DEF TypeOK
  <2> QED BY <1>6, <1>8, <2>1 DEF FallAsleep, Falls, SumWraps, TypeOK
<1>9. ASSUME NEW t \in Sleepers, NEW ms \in Times, NEW unit \in Units, FallAsleepTicking(t, ms, unit)
      PROVE  TypeOK'
  <2>1. Kernel_yield(ReadAround(unit), ms) \in 0 .. M - 1
    BY <1>4, <1>5
  <2>2. system_ticks' \in 0 .. M - 1
    BY <1>2, <1>9 DEF FallAsleepTicking, TypeOK
  <2>3. wake_up_time' \in [Sleepers -> 0 .. M - 1] /\ asked' \in [Sleepers -> Times \cup {0}]
    BY <1>9, <2>1 DEF FallAsleepTicking, Falls, TypeOK
  <2>4. slept' \in [Sleepers -> 0 .. MaxSlept]
    BY <1>3, <1>6, <1>9 DEF FallAsleepTicking, TypeOK
  <2>5. torn' \in [Sleepers -> BOOLEAN]
    BY <1>9 DEF FallAsleepTicking, Tears, TypeOK
  <2>6. wrapped' \in [Sleepers -> BOOLEAN]
    BY <1>9, Zenon DEF FallAsleepTicking, SumWraps, TypeOK
  <2> QED BY <2>2, <2>3, <2>4, <2>5, <2>6 DEF TypeOK
<1>10. ASSUME NEW t \in Sleepers, Wake(t) PROVE TypeOK'
  BY <1>6, <1>10 DEF Wake, Wakes, clock, TypeOK
<1>11. ASSUME NEW t \in Sleepers, NEW unit \in Units, WakeTicking(t, unit) PROVE TypeOK'
  BY <1>2, <1>3, <1>6, <1>11 DEF WakeTicking, Wakes, Ticks, TypeOK
<1>12. CASE UNCHANGED vars
  BY <1>12 DEF vars, clock, TypeOK
<1> QED BY <1>7, <1>8, <1>9, <1>10, <1>11, <1>12 DEF Next

\* The others of a step that makes one task run or sleep.
LEMMA NextMarked ==
  ASSUME SleepInv, [Next]_vars
  PROVE  \A s \in Sleepers : Marked(s)'
<1> SUFFICES ASSUME NEW s \in Sleepers PROVE Marked(s)'
  OBVIOUS
<1>0. /\ TypeOK /\ Marked(s)
      /\ TypeOK'
  BY NextType DEF SleepInv
<1>1. /\ system_ticks \in Nat /\ system_ticks' \in Nat
      /\ slept'[s] \in 0 .. MaxSlept
      /\ wake_up_time \in [Sleepers -> 0 .. M - 1] /\ asked \in [Sleepers -> Times \cup {0}]
      /\ slept \in [Sleepers -> 0 .. MaxSlept]
      /\ torn \in [Sleepers -> BOOLEAN] /\ wrapped \in [Sleepers -> BOOLEAN]
  BY <1>0, Typed DEF TypeOK
<1>2. CASE Tick
  <2>1. /\ system_ticks' = Next1(system_ticks) /\ slept'[s] = Older(slept[s])
        /\ wrapped'[s] = (wrapped[s] \/ system_ticks' = 0)
        /\ wake_up_time'[s] = wake_up_time[s]
        /\ asked'[s] = asked[s] /\ torn'[s] = torn[s]
    BY <1>2 DEF Tick, Ticks
  <2> QED BY <2>1, TickMarked
<1>3. ASSUME NEW t \in Sleepers, NEW ms \in Times, FallAsleep(t, ms) PROVE Marked(s)'
  <2>1. CASE s = t
    <3>1. /\ wake_up_time'[s] = Kernel_yield(system_ticks, ms) /\ asked'[s] = ms
          /\ slept'[s] = 0 /\ torn'[s] = FALSE
          /\ wrapped'[s] = SumWraps(system_ticks, ms)
          /\ system_ticks' = system_ticks
      BY <1>1, <1>3, <2>1 DEF FallAsleep, Falls, SumWraps
    <3>2. system_ticks = system_ticks' - slept'[s] /\ system_ticks \in Int
      BY <1>1, <3>1
    <3> QED BY <1>0, <1>1, <3>1, <3>2, FallMarked
  <2>2. CASE s # t
    <3>1. /\ wake_up_time'[s] = wake_up_time[s] /\ asked'[s] = asked[s]
          /\ slept'[s] = slept[s] /\ torn'[s] = torn[s] /\ wrapped'[s] = wrapped[s]
          /\ system_ticks' = system_ticks
      BY <1>1, <1>3, <2>2 DEF FallAsleep, Falls
    <3> QED BY <1>0, <3>1 DEF Marked, Asleep
  <2> QED BY <2>1, <2>2
<1>4. ASSUME NEW t \in Sleepers, NEW ms \in Times, NEW unit \in Units, FallAsleepTicking(t, ms, unit)
      PROVE  Marked(s)'
  <2>0. system_ticks' = Next1(system_ticks)
    BY <1>4 DEF FallAsleepTicking
  <2>1. CASE s = t
    <3> DEFINE now == ReadAround(unit)
    <3>1. /\ wake_up_time'[s] = Kernel_yield(now, ms) /\ asked'[s] = ms
          /\ slept'[s] = 1 /\ torn'[s] = Tears(unit)
          /\ wrapped'[s] = (system_ticks' = 0 \/ SumWraps(now, ms))
      BY <1>1, <1>4, <2>1 DEF FallAsleepTicking, Falls, SumWraps, Tears
    <3>2. CASE system_ticks' = 0
      <4>1. wrapped'[s]
        BY <3>1, <3>2, Zenon
      <4> QED BY <4>1 DEF Marked
    <3>3. CASE system_ticks' # 0
      <4>1. /\ system_ticks' = system_ticks + 1 /\ unit \in Nat
            /\ now = IF Tears(unit) THEN system_ticks + unit ELSE system_ticks
        BY <1>0, <2>0, <3>3, ReadValue
      <4>2. /\ now \in Int /\ system_ticks \in Int
            /\ now >= system_ticks /\ system_ticks = system_ticks' - slept'[s]
            /\ torn'[s] \/ now = system_ticks
        BY <1>1, <3>1, <4>1
      <4>3. wrapped'[s] \/ ~SumWraps(now, ms)
        BY <3>1, Zenon
      <4>4. wake_up_time'[s] = Kernel_yield(now, ms) /\ asked'[s] = ms
        BY <3>1
      <4> HIDE DEF now
      <4>5. /\ wrapped'[s] \/ now >= system_ticks
            /\ wrapped'[s] \/ torn'[s] \/ now = system_ticks
        BY <4>2
      <4>6. now \in Int /\ system_ticks \in Int /\ system_ticks = system_ticks' - slept'[s]
        BY <4>2
      <4>7. TypeOK /\ slept'[s] \in 0 .. MaxSlept /\ system_ticks' \in Int
        BY <1>0, <1>1
      <4> QED BY ONLY <4>3, <4>4, <4>5, <4>6, <4>7, FallMarked
    <3> QED BY <3>2, <3>3
  <2>2. CASE s # t
    <3>1. /\ slept'[s] = Older(slept[s]) /\ wake_up_time'[s] = wake_up_time[s]
          /\ asked'[s] = asked[s] /\ torn'[s] = torn[s]
      BY <1>1, <1>4, <2>2 DEF FallAsleepTicking, Falls
    <3>2. wrapped'[s] = (wrapped[s] \/ system_ticks' = 0)
      BY <1>4, <2>2, Zenon DEF FallAsleepTicking
    <3> QED BY <2>0, <3>1, <3>2, TickMarked
  <2> QED BY <2>1, <2>2
<1>5. ASSUME NEW t \in Sleepers, Wake(t) PROVE Marked(s)'
  <2>1. /\ wake_up_time'[s] = wake_up_time[s] \/ wake_up_time'[s] = 0
        /\ UNCHANGED <<asked, torn, slept, wrapped, system_ticks>>
    BY <1>1, <1>5 DEF Wake, Wakes, clock
  <2> QED BY <1>0, <2>1 DEF Marked, Asleep
<1>6. ASSUME NEW t \in Sleepers, NEW unit \in Units, WakeTicking(t, unit) PROVE Marked(s)'
  <2>1. /\ system_ticks' = Next1(system_ticks) /\ slept'[s] = Older(slept[s])
        /\ wrapped'[s] = (wrapped[s] \/ system_ticks' = 0)
        /\ asked'[s] = asked[s] /\ torn'[s] = torn[s]
    BY <1>6 DEF WakeTicking, Wakes, Ticks
  <2>2. wake_up_time'[s] = wake_up_time[s] \/ wake_up_time'[s] = 0
    BY <1>1, <1>6 DEF WakeTicking, Wakes
  <2> QED BY <2>1, <2>2, TickMarked
<1>7. CASE UNCHANGED vars
  BY <1>0, <1>7 DEF vars, clock, Marked, Asleep
<1> QED BY <1>2, <1>3, <1>4, <1>5, <1>6, <1>7 DEF Next

LEMMA NextInv == SleepInv /\ [Next]_vars => SleepInv'
BY NextType, NextMarked DEF SleepInv

-----------------------------------------------------------------------------
(* The theorems.                                                           *)

LEMMA Invariant == Spec => []SleepInv
BY InitInv, NextInv, PTL DEF Spec

\* Ticks and wake-up times stay 32-bit numbers, whatever the programs ask for
\* and wherever a tick falls into a read (HAL_GetTicks, Kernel_yield).
THEOREM SleepTyped == Spec => []TypeOK
<1>1. SleepInv => TypeOK
  BY DEF SleepInv
<1> QED BY Invariant, <1>1, PTL

\* A sleep that has lasted as long as it was to is over for the next check of
\* Kernel_runScheduler, the check during which a tick comes included, unless
\* the read of SLEEP was torn or the counter or the sum wrapped.
THEOREM NeverLate == Spec => []NotLate
<1>1. SleepInv => NotLate
  <2> SUFFICES ASSUME SleepInv, NEW t \in Sleepers,
                      Asleep(t), slept[t] >= asked[t], asked[t] >= 0, ~torn[t], ~wrapped[t]
               PROVE  /\ ~SleepsOn(t, system_ticks)
                      /\ \A unit \in Units :
                           Next1(system_ticks) = 0 \/ ~SleepsOn(t, ReadAround(unit))
    BY DEF NotLate
  <2>1. TypeOK /\ Marked(t)
    BY DEF SleepInv
  <2>2. /\ system_ticks \in Nat /\ wake_up_time[t] \in Nat /\ asked[t] \in Int /\ slept[t] \in Int
        /\ wake_up_time[t] <= system_ticks - slept[t] + asked[t]
    BY <2>1, Typed, Constants DEF Marked
  <2>3. wake_up_time[t] <= system_ticks
    BY <2>2
  <2>4. ASSUME NEW unit \in Units, Next1(system_ticks) # 0
        PROVE  ReadAround(unit) \in Nat /\ ReadAround(unit) >= system_ticks
    BY <2>1, <2>2, <2>4, ReadValue
  <2> QED BY <2>2, <2>3, <2>4 DEF SleepsOn
<1> QED BY Invariant, <1>1, PTL

\* Nobody wakes before the time it asked for, unless the counter or the sum
\* wrapped or the read that wakes it is torn.
THEOREM NeverEarly == Spec => NotEarly
<1>1. ASSUME SleepInv, [Next]_vars, NEW t \in Sleepers,
             Asleep(t), wake_up_time'[t] = 0, slept[t] < asked[t], ~wrapped[t]
      PROVE  slept'[t] > slept[t] /\ \E unit \in Units : Tears(unit)
  <2>1. TypeOK /\ Marked(t) /\ TypeOK'
    BY <1>1, NextType DEF SleepInv
  <2>2. /\ system_ticks \in Nat /\ wake_up_time[t] \in Nat
        /\ asked[t] \in Int /\ slept[t] \in 0 .. MaxSlept /\ asked[t] < MaxSlept
        /\ MaxSlept \in Nat
    BY <2>1, Typed, Constants
  <2>3. wake_up_time[t] > system_ticks
    BY <1>1, <2>1, <2>2 DEF Marked
  <2>4. /\ wake_up_time[t] # 0
        /\ wake_up_time \in [Sleepers -> 0 .. M - 1] /\ slept \in [Sleepers -> 0 .. MaxSlept]
    BY <2>1, <2>2, <2>3 DEF TypeOK
  <2>5. ~Tick /\ ~UNCHANGED vars
    BY <1>1, <2>4 DEF Tick, vars
  <2>6. ASSUME NEW s \in Sleepers, NEW ms \in Times,
               FallAsleep(s, ms) \/ \E unit \in Units : FallAsleepTicking(s, ms, unit)
        PROVE  FALSE
    <3>1. wake_up_time[s] = 0 /\ \E v : wake_up_time' = [wake_up_time EXCEPT ![s] = v]
      BY <2>6 DEF FallAsleep, FallAsleepTicking, Falls
    <3> QED BY <1>1, <2>4, <3>1
  <2>7. ASSUME NEW s \in Sleepers, Wake(s) PROVE FALSE
    BY <1>1, <2>2, <2>3, <2>4, <2>7 DEF Wake, Wakes, SleepsOn
  <2>8. ASSUME NEW s \in Sleepers, NEW unit \in Units, WakeTicking(s, unit)
        PROVE  slept'[t] > slept[t] /\ Tears(unit)
    <3>1. s = t /\ ~(ReadAround(unit) < wake_up_time[t]) /\ slept'[t] = Older(slept[t])
      BY <1>1, <2>4, <2>8 DEF WakeTicking, Wakes, Ticks, SleepsOn
    <3>2. slept'[t] = slept[t] + 1
      BY <1>1, <2>2, <3>1 DEF Older
    <3>3. Tears(unit)
      BY <2>1, <2>2, <2>3, <3>1, ReadValue
    <3> QED BY <2>2, <3>2, <3>3
  <2> QED BY <1>1, <2>5, <2>6, <2>7, <2>8 DEF Next
<1>2. SleepInv /\ [Next]_vars =>
        [\A t \in Sleepers :
           Asleep(t) /\ wake_up_time'[t] = 0 /\ slept[t] < asked[t]
           => wrapped[t] \/ (slept'[t] > slept[t] /\ \E unit \in Units : Tears(unit))]_vars
  BY <1>1
<1> QED BY Invariant, <1>2, PTL DEF Spec, NotEarly
=============================================================================
