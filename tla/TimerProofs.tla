------------------------------ MODULE TimerProofs ------------------------------
(***************************************************************************)
(* Theorems about Timer, for every width, period, reload value and         *)
(* deadline.  First those about TIMA and its interrupt, as long as a guest *)
(* leaves no slow period's count behind when it selects a faster rate      *)
(* (RateChange is FALSE); then what holds in every game: DIV is exact, and *)
(* the registers keep their width.                                         *)
(***************************************************************************)
EXTENDS Timer, Quotients, TLAPS

-----------------------------------------------------------------------------
(* The inductive invariant.                                                *)

\* The reference r, whose interrupt is due or not, is the timer d cycles after its
\* last timer_tick.
Agrees(r, d) ==
  /\ r.divPhase = (divAcc + d) % DivPeriod
  /\ r.div = (div + ((divAcc + d) \div DivPeriod)) % ByteMod
  /\ r.timaPhase = IF tac = Off THEN timaAcc ELSE (timaAcc + d) % Periods[tac]
  /\ r.tima = Bumped(Increments(d))
  /\ r.due = (irq \/ Overflows(d))

\* Nothing a whole period long is left uncounted.
Counted == tac # Off => timaAcc < Periods[tac]

\* Where the loop is, what the processor does and how far the deadline is.
LoopOK ==
  /\ pc = "exec" => since <= MaxBlock /\ late = 0 /\ ~halted
  /\ pc = "halt" => halted /\ ~irq /\ ahead > 0 /\ since + ahead <= LongestDeadline

\* Oversleeping began after the last timer_tick, and the deadline is still ahead.
LateOK == late # 0 => ref.due /\ late < since /\ since + ahead <= LongestDeadline

Inv == TypeOK /\ Agrees(ref, since) /\ Counted /\ LoopOK /\ LateOK

\* The domain of Periods is the rates, 0 is none of them.
LEMMA RateFacts ==
  ASSUME tac \in Rates \union {Off}, tac # Off
  PROVE  Periods[tac] \in Nat \ {0}
  BY TimerAssumption

\* What the counts leave in TIMA is a byte, before an overflow and after.
LEMMA BumpedByte ==
  ASSUME TypeOK, NEW k \in Nat
  PROVE  Bumped(k) \in 0..(ByteMod - 1)
<1>1. /\ ByteMod \in Nat \ {0} /\ tima \in 0..(ByteMod - 1) /\ tma \in 0..(ByteMod - 1)
  BY TimerAssumption DEF TypeOK
<1> DEFINE past == tima + k - ByteMod
<1>2. CASE past < 0
  BY <1>1, <1>2 DEF Bumped
<1>3. CASE ~(past < 0)
  <2>1. past \in Nat /\ ByteMod - tma \in Nat \ {0}
    BY <1>1, <1>3
  <2>2. past % (ByteMod - tma) \in 0..((ByteMod - tma) - 1)
    BY <2>1, Division
  <2>3. Bumped(k) = tma + (past % (ByteMod - tma))
    BY <1>3 DEF Bumped
  <2> HIDE DEF past
  <2> QED
    BY <1>1, <2>2, <2>3
<1> QED
  BY <1>2, <1>3

\* One more increment is what RefCycle does to TIMA.
LEMMA BumpedStep ==
  ASSUME TypeOK, NEW k \in Nat
  PROVE  /\ Bumped(k + 1) = IF Bumped(k) = ByteMod - 1 THEN tma ELSE Bumped(k) + 1
         /\ tima + k + 1 >= ByteMod <=> tima + k >= ByteMod \/ Bumped(k) = ByteMod - 1
<1>1. /\ ByteMod \in Nat \ {0} /\ tima \in 0..(ByteMod - 1) /\ tma \in 0..(ByteMod - 1)
  BY TimerAssumption DEF TypeOK
<1> DEFINE past == tima + k - ByteMod
           m == ByteMod - tma
<1>2. m \in Nat \ {0}
  BY <1>1
<1>3. CASE tima + k + 1 < ByteMod
  <2>1. Bumped(k) = tima + k /\ Bumped(k + 1) = tima + k + 1
    BY <1>1, <1>3 DEF Bumped
  <2> QED
    BY <1>1, <1>3, <2>1
<1>4. CASE tima + k + 1 = ByteMod
  <2>1. Bumped(k) = tima + k
    BY <1>1, <1>4 DEF Bumped
  <2>2. 0 % m = 0
    BY <1>2, DivisionSmall
  <2>3. tima + (k + 1) - ByteMod = 0
    BY <1>1, <1>4
  <2>4. Bumped(k + 1) = tma + (0 % m)
    BY <2>3 DEF Bumped
  <2> QED
    BY <1>1, <1>4, <2>1, <2>2, <2>4
<1>5. CASE tima + k >= ByteMod
  <2>1. past \in Nat /\ tima + (k + 1) - ByteMod = past + 1 /\ ~(past < 0) /\ ~(past + 1 < 0)
    BY <1>1, <1>5
  <2>2. Bumped(k) = tma + (past % m) /\ Bumped(k + 1) = tma + ((past + 1) % m)
    BY <2>1 DEF Bumped
  <2>3. past % m \in 0..(m - 1)
    BY <1>2, <2>1, Division
  <2>4. IF (past % m) + 1 = m THEN (past + 1) % m = 0 ELSE (past + 1) % m = (past % m) + 1
    BY <1>2, <2>1, DivisionStep
  <2> DEFINE x == past % m
             y == (past + 1) % m
  <2>5. Bumped(k) = tma + x /\ Bumped(k + 1) = tma + y /\ x \in 0..(m - 1)
        /\ IF x + 1 = m THEN y = 0 ELSE y = x + 1
    BY <2>2, <2>3, <2>4
  <2> HIDE DEF x, y, past
  <2> QED
    BY <1>1, <1>5, <2>5
<1> QED
  BY <1>1, <1>3, <1>4, <1>5

\* The types the arithmetic needs.
LEMMA TypeFacts ==
  ASSUME TypeOK
  PROVE  /\ ByteMod \in Nat \ {0} /\ DivPeriod \in Nat \ {0}
         /\ div \in 0..(ByteMod - 1) /\ divAcc \in 0..(DivPeriod - 1)
         /\ tima \in 0..(ByteMod - 1) /\ tma \in 0..(ByteMod - 1)
         /\ timaAcc \in Nat /\ since \in Nat
         /\ tac # Off => Periods[tac] \in Nat \ {0}
         /\ LongestDeadline \in Nat \ {0} /\ MaxBlock \in Nat
  BY TimerAssumption DEF TypeOK

\* TIMA is incremented a natural number of times.
LEMMA IncrementsNat ==
  ASSUME TypeOK, NEW d \in Nat
  PROVE  Increments(d) \in Nat
<1>1. CASE tac = Off
  BY <1>1 DEF Increments
<1>2. CASE tac # Off
  <2>1. timaAcc + d \in Nat /\ Periods[tac] \in Nat \ {0}
    BY <1>2, TypeFacts
  <2>2. (timaAcc + d) \div Periods[tac] \in Nat
    BY <2>1, Division
  <2> QED
    BY <1>2, <2>2 DEF Increments
<1> QED
  BY <1>1, <1>2

\* A cycle moves the reference to where a timer_tick a cycle later would be.
LEMMA CycleAgrees ==
  ASSUME TypeOK, Counted, NEW d \in Nat, Agrees(ref, d)
  PROVE  /\ Agrees(RefCycle(ref), d + 1)
         /\ RefCycle(ref) \in [div : 0..(ByteMod - 1), divPhase : 0..(DivPeriod - 1),
                               tima : 0..(ByteMod - 1), timaPhase : Nat, due : BOOLEAN]
<1> DEFINE n == divAcc + d
           r == RefCycle(ref)
<1>1. n \in Nat /\ divAcc + (d + 1) = n + 1
  BY TypeFacts
<1>2. ref.divPhase = n % DivPeriod /\ ref.div = (div + (n \div DivPeriod)) % ByteMod
  BY DEF Agrees
<1>3. n \div DivPeriod \in Nat /\ n % DivPeriod \in 0..(DivPeriod - 1)
  BY <1>1, TypeFacts, Division
<1>4. IF (n % DivPeriod) + 1 = DivPeriod
      THEN (n + 1) % DivPeriod = 0 /\ (n + 1) \div DivPeriod = (n \div DivPeriod) + 1
      ELSE (n + 1) % DivPeriod = (n % DivPeriod) + 1 /\ (n + 1) \div DivPeriod = n \div DivPeriod
  BY <1>1, TypeFacts, DivisionStep
<1>5. /\ r.divPhase = IF ref.divPhase + 1 = DivPeriod THEN 0 ELSE ref.divPhase + 1
      /\ r.div = IF ref.divPhase + 1 = DivPeriod THEN (ref.div + 1) % ByteMod ELSE ref.div
  BY DEF RefCycle
<1>6. r.divPhase = (n + 1) % DivPeriod /\ r.div = (div + ((n + 1) \div DivPeriod)) % ByteMod
  <2>1. div + (n \div DivPeriod) \in Nat
    BY <1>3, TypeFacts
  <2>2. (ref.div + 1) % ByteMod = (div + (n \div DivPeriod) + 1) % ByteMod
    BY <2>1, <1>2, TypeFacts, WrapStep
  <2>3. CASE (n % DivPeriod) + 1 = DivPeriod
    <3>1. div + (n \div DivPeriod) + 1 = div + ((n + 1) \div DivPeriod)
      BY <2>3, <1>3, <1>4, TypeFacts
    <3> QED
      BY <3>1, <2>2, <2>3, <1>2, <1>4, <1>5
  <2>4. CASE (n % DivPeriod) + 1 # DivPeriod
    BY <2>4, <1>2, <1>4, <1>5
  <2> QED
    BY <2>3, <2>4
<1>7. r.divPhase \in 0..(DivPeriod - 1) /\ r.div \in 0..(ByteMod - 1)
  <2>1. n + 1 \in Nat
    BY <1>1
  <2>2. (n + 1) % DivPeriod \in 0..(DivPeriod - 1) /\ (n + 1) \div DivPeriod \in Nat
    BY <2>1, TypeFacts, Division
  <2>3. div + ((n + 1) \div DivPeriod) \in Nat
    BY <2>2, TypeFacts
  <2> QED
    BY <2>2, <2>3, <1>6, TypeFacts, Division
<1> HIDE DEF r
<1>8. /\ r.timaPhase = IF tac = Off THEN timaAcc ELSE (timaAcc + (d + 1)) % Periods[tac]
      /\ r.tima = Bumped(Increments(d + 1))
      /\ r.due = (irq \/ Overflows(d + 1))
      /\ r.timaPhase \in Nat
  <2>1. CASE tac = Off
    <3>1. Increments(d) = 0 /\ Increments(d + 1) = 0
      BY <2>1 DEF Increments
    <3>2. Overflows(d) = Overflows(d + 1)
      BY <3>1 DEF Overflows
    <3>3. r.timaPhase = ref.timaPhase /\ r.tima = ref.tima
      BY <2>1 DEF r, RefCycle
    <3>4. r.due = (ref.due \/ FALSE)
      BY <2>1, Zenon DEF r, RefCycle
    <3>5. ref.due = (irq \/ Overflows(d)) /\ ref.due \in BOOLEAN
      BY DEF Agrees, TypeOK
    <3>6. r.due = (irq \/ Overflows(d + 1))
      BY <3>2, <3>4, <3>5, Zenon
    <3> QED
      BY <2>1, <3>1, <3>3, <3>6, TypeFacts DEF Agrees
  <2>2. CASE tac # Off
    <3> DEFINE m == timaAcc + d
               p == Periods[tac]
               k == m \div p
    <3>1. m \in Nat /\ p \in Nat \ {0} /\ timaAcc + (d + 1) = m + 1 /\ m + 1 \in Nat
      BY <2>2, TypeFacts
    <3>2. k \in Nat /\ m % p \in 0..(p - 1)
      BY <3>1, Division
    <3>3. IF (m % p) + 1 = p
          THEN (m + 1) % p = 0 /\ (m + 1) \div p = k + 1
          ELSE (m + 1) % p = (m % p) + 1 /\ (m + 1) \div p = k
      BY <3>1, DivisionStep
    <3>4. Increments(d) = k /\ Increments(d + 1) = (m + 1) \div p
      <4>1. d = 0 => m \in 0..(p - 1)
        BY <2>2, <3>1, TypeFacts DEF Counted
      <4>2. d = 0 => k = 0
        BY <3>1, <4>1, DivisionSmall
      <4>3. d + 1 # 0
        OBVIOUS
      <4> QED
        BY <2>2, <3>1, <4>2, <4>3 DEF Increments
    <3>5. /\ ref.timaPhase = m % p /\ ref.tima = Bumped(k)
          /\ ref.due = (irq \/ tima + k >= ByteMod)
      BY <2>2, <3>4 DEF Agrees, Overflows
    <3>6. (m % p) + 1 >= p <=> (m % p) + 1 = p
      BY <3>1, <3>2
    <3>7. /\ Bumped(k + 1) = IF Bumped(k) = ByteMod - 1 THEN tma ELSE Bumped(k) + 1
          /\ tima + k + 1 >= ByteMod <=> tima + k >= ByteMod \/ Bumped(k) = ByteMod - 1
      BY <3>2, BumpedStep
    <3>8. /\ r.timaPhase = IF ref.timaPhase + 1 >= p THEN 0 ELSE ref.timaPhase + 1
          /\ r.tima = IF ref.timaPhase + 1 >= p /\ ref.tima = ByteMod - 1 THEN tma
                      ELSE IF ref.timaPhase + 1 >= p THEN ref.tima + 1 ELSE ref.tima
          /\ r.due = (ref.due \/ (ref.timaPhase + 1 >= p /\ ref.tima = ByteMod - 1))
      BY <2>2, Zenon DEF r, RefCycle
    <3> HIDE DEF m, p, k
    <3>9. r.timaPhase = (m + 1) % p /\ r.tima = Bumped((m + 1) \div p)
      BY <3>3, <3>5, <3>6, <3>7, <3>8
    <3>10. r.due = (irq \/ tima + ((m + 1) \div p) >= ByteMod)
      <4>1. CASE (m % p) + 1 = p
        <5>1. tima + ((m + 1) \div p) >= ByteMod <=> tima + k >= ByteMod \/ Bumped(k) = ByteMod - 1
          BY <4>1, <3>2, <3>3, <3>7, TypeFacts
        <5>2. r.due = (irq \/ tima + k >= ByteMod \/ Bumped(k) = ByteMod - 1)
          BY <4>1, <3>5, <3>6, <3>8
        <5> QED
          BY <5>1, <5>2
      <4>2. CASE (m % p) + 1 # p
        BY <4>2, <3>3, <3>5, <3>6, <3>8
      <4> QED
        BY <4>1, <4>2
    <3>11. (m + 1) % p \in Nat
      BY <3>1, Division
    <3> QED
      BY <2>2, <3>1, <3>4, <3>9, <3>10, <3>11 DEF p, m, Overflows
  <2> QED
    BY <2>1, <2>2
<1>9. r.tima \in 0..(ByteMod - 1)
  BY <1>8, IncrementsNat, BumpedByte
<1>10. r = [div |-> r.div, divPhase |-> r.divPhase, tima |-> r.tima,
            timaPhase |-> r.timaPhase, due |-> r.due] /\ r.due \in BOOLEAN
  BY <1>8 DEF r, RefCycle
<1>11. Agrees(r, d + 1)
  BY <1>1, <1>6, <1>8 DEF Agrees
<1> QED
  BY <1>7, <1>8, <1>9, <1>10, <1>11 DEF r
\* Just after a timer_tick the reference and the timer hold the same.
LEMMA Settled ==
  ASSUME TypeOK, Counted, Agrees(ref, 0)
  PROVE  /\ ref.div = div /\ ref.divPhase = divAcc
         /\ ref.tima = tima /\ ref.timaPhase = timaAcc
         /\ ref.due = irq
<1>1. /\ (divAcc + 0) % DivPeriod = divAcc /\ (divAcc + 0) \div DivPeriod = 0
      /\ (div + 0) % ByteMod = div
  BY TypeFacts, DivisionSmall
<1>2. tac # Off => (timaAcc + 0) % Periods[tac] = timaAcc /\ (timaAcc + 0) \div Periods[tac] = 0
  <2> SUFFICES ASSUME tac # Off
               PROVE  (timaAcc + 0) % Periods[tac] = timaAcc
                      /\ (timaAcc + 0) \div Periods[tac] = 0
    OBVIOUS
  <2>1. timaAcc + 0 \in 0..(Periods[tac] - 1) /\ timaAcc + 0 = timaAcc
    BY TypeFacts DEF Counted
  <2> QED
    BY <2>1, TypeFacts, DivisionSmall
<1>3. Increments(0) = 0
  BY <1>2 DEF Increments
<1>4. Bumped(0) = tima /\ ~Overflows(0)
  BY <1>3, TypeFacts DEF Bumped, Overflows
<1>5. ref.due = (irq \/ Overflows(0))
  BY DEF Agrees
<1>6. ref.due = irq
  <2>1. irq \in BOOLEAN
    BY DEF TypeOK
  <2>2. CASE irq
    BY <2>2, <1>4, <1>5, Zenon
  <2>3. CASE ~irq
    <3>1. irq = FALSE
      BY <2>1, <2>3, Zenon
    <3> QED
      BY <3>1, <1>4, <1>5, Zenon
  <2> QED
    BY <2>2, <2>3
<1> QED
  BY <1>1, <1>2, <1>3, <1>4, <1>6 DEF Agrees

\* No cycles add nothing to a count below its period.
LEMMA NoCycles ==
  ASSUME NEW p \in Nat \ {0}, NEW n \in Nat, n < p
  PROVE  (n + 0) \div p = 0 /\ (n + 0) % p = n
<1>1. n + 0 \in 0..(p - 1) /\ n + 0 = n
  OBVIOUS
<1> QED
  BY <1>1, DivisionSmall

\* No increments leave a byte as it is.
LEMMA NoIncrements ==
  ASSUME NEW n \in 0..(ByteMod - 1)
  PROVE  n \in Nat /\ n < ByteMod /\ n + 0 = n /\ (n + 0 - ByteMod < 0) /\ ~(n + 0 >= ByteMod)
  BY TimerAssumption

\* The converse of Settled, for the state a step leaves: the counters,
LEMMA SettledCounts ==
  ASSUME TypeOK', Counted', since' = 0,
         ref'.div = div', ref'.divPhase = divAcc',
         ref'.tima = tima', ref'.timaPhase = timaAcc'
  PROVE  /\ ref'.divPhase = (divAcc' + since') % DivPeriod
         /\ ref'.div = (div' + ((divAcc' + since') \div DivPeriod)) % ByteMod
         /\ ref'.timaPhase = IF tac' = Off THEN timaAcc'
                             ELSE (timaAcc' + since') % Periods[tac']
         /\ ref'.tima = Bumped(Increments(since))'
         /\ ~Overflows(since)'
<1>0. /\ ByteMod \in Nat \ {0} /\ DivPeriod \in Nat \ {0}
      /\ div' \in 0..(ByteMod - 1) /\ divAcc' \in 0..(DivPeriod - 1)
      /\ tima' \in 0..(ByteMod - 1) /\ timaAcc' \in Nat
      /\ tac' # Off => Periods[tac'] \in Nat \ {0}
  BY TimerAssumption DEF TypeOK
<1>1. ASSUME NEW a \in 0..(DivPeriod - 1), NEW b \in 0..(ByteMod - 1)
      PROVE  (a + 0) % DivPeriod = a /\ (b + ((a + 0) \div DivPeriod)) % ByteMod = b
  <2>1. (a + 0) % DivPeriod = a /\ (a + 0) \div DivPeriod = 0
    BY <1>0, <1>1, NoCycles
  <2>2. (b + 0) % ByteMod = b
    BY <1>0, <1>1, NoCycles
  <2> QED
    BY <2>1, <2>2
<1>2. /\ (divAcc' + since') % DivPeriod = divAcc'
      /\ (div' + ((divAcc' + since') \div DivPeriod)) % ByteMod = div'
  BY <1>0, <1>1, Zenon
<1>3. tac' # Off => (timaAcc' + since') % Periods[tac'] = timaAcc'
                    /\ (timaAcc' + since') \div Periods[tac'] = 0
  <2>1. tac' # Off => timaAcc' < Periods[tac']
    BY Zenon DEF Counted
  <2> QED
    BY <1>0, <2>1, NoCycles, Zenon
<1>4. Increments(since)' = 0
  BY <1>3, Zenon DEF Increments
<1>5. Bumped(Increments(since))' = tima' /\ ~Overflows(since)'
  <2>1. tima' + 0 = tima' /\ (tima' + 0 - ByteMod < 0) /\ ~(tima' + 0 >= ByteMod)
    BY <1>0, NoIncrements, Zenon
  <2> QED
    BY <1>4, <2>1, Zenon DEF Bumped, Overflows
<1> QED
  BY <1>2, <1>3, <1>5, Zenon

\* and the interrupt.
LEMMA SettledNext ==
  ASSUME TypeOK', Counted', since' = 0, irq' \in BOOLEAN,
         ref'.div = div', ref'.divPhase = divAcc',
         ref'.tima = tima', ref'.timaPhase = timaAcc',
         ref'.due = irq'
  PROVE  Agrees(ref, since)'
<1>1. ~Overflows(since)'
  BY SettledCounts, Zenon
<1>2. ref'.due = (irq' \/ Overflows(since)')
  BY <1>1, Zenon
<1> QED
  BY <1>2, SettledCounts, Zenon DEF Agrees

\* timer_tick moves the timer to where the reference is, whose interrupt the
\* service then takes, or not.
LEMMA TickAgrees ==
  ASSUME TypeOK, Counted, NEW d \in Nat, NEW r, Agrees(r, d),
         r \in [div : 0..(ByteMod - 1), divPhase : 0..(DivPeriod - 1),
                tima : 0..(ByteMod - 1), timaPhase : Nat, due : BOOLEAN],
         TimerTick(d), Take(irq \/ Overflows(d), r), UNCHANGED regVars
  PROVE  /\ since' = 0 /\ irq' \in BOOLEAN /\ halted' \in BOOLEAN /\ ime' \in BOOLEAN
         /\ div' \in 0..(ByteMod - 1) /\ divAcc' \in 0..(DivPeriod - 1)
         /\ tima' \in 0..(ByteMod - 1) /\ timaAcc' \in Nat
         /\ ref' \in [div : 0..(ByteMod - 1), divPhase : 0..(DivPeriod - 1),
                      tima : 0..(ByteMod - 1), timaPhase : Nat, due : BOOLEAN]
         /\ ref'.div = div' /\ ref'.divPhase = divAcc'
         /\ ref'.tima = tima' /\ ref'.timaPhase = timaAcc'
         /\ ref'.due = irq'
         /\ Counted'
<1>1. r.due = (irq \/ Overflows(d))
  BY DEF Agrees
<1>2. /\ irq' = (r.due /\ ~(r.due /\ ime)) /\ halted' = (halted /\ ~r.due)
      /\ ime' = (ime /\ ~(r.due /\ ime))
      /\ ref' = [r EXCEPT !.due = r.due /\ ~(r.due /\ ime)]
  BY <1>1, Zenon DEF Take
<1>3. /\ ref'.div = r.div /\ ref'.divPhase = r.divPhase /\ ref'.tima = r.tima
      /\ ref'.timaPhase = r.timaPhase /\ ref'.due = irq'
  BY <1>2
<1>4. irq' \in BOOLEAN /\ halted' \in BOOLEAN /\ ime' \in BOOLEAN
  BY <1>2 DEF TypeOK
<1>5. div' = r.div /\ divAcc' = r.divPhase /\ tima' = r.tima /\ since' = 0
  BY DEF TimerTick, Agrees
<1>6. timaAcc' = r.timaPhase /\ Counted'
  <2>1. CASE tac = Off
    BY <2>1 DEF TimerTick, Agrees, Counted, regVars
  <2>2. CASE tac # Off
    <3>1. timaAcc + d \in Nat /\ Periods[tac] \in Nat \ {0} /\ timaAcc \in 0..(Periods[tac] - 1)
      BY <2>2, TypeFacts DEF Counted
    <3>2. (timaAcc + d) % Periods[tac] \in 0..(Periods[tac] - 1)
      BY <3>1, Division
    <3>3. d = 0 => (timaAcc + d) % Periods[tac] = timaAcc
      <4>1. timaAcc % Periods[tac] = timaAcc /\ timaAcc + 0 = timaAcc
        BY <3>1, DivisionSmall
      <4> QED
        BY <4>1
    <3>4. timaAcc' = (timaAcc + d) % Periods[tac] /\ tac' = tac
      BY <2>2, <3>3 DEF TimerTick, regVars
    <3>5. r.timaPhase = (timaAcc + d) % Periods[tac]
      BY <2>2 DEF Agrees
    <3>6. timaAcc' < Periods[tac]
      BY <3>1, <3>2, <3>4
    <3> QED
      BY <3>4, <3>5, <3>6 DEF Counted
  <2> QED
    BY <2>1, <2>2
<1>7. ref' \in [div : 0..(ByteMod - 1), divPhase : 0..(DivPeriod - 1),
                tima : 0..(ByteMod - 1), timaPhase : Nat, due : BOOLEAN]
  BY <1>2, <1>4
<1> QED
  BY <1>3, <1>4, <1>5, <1>6, <1>7
\* A deadline ppu_tick leaves is ahead, and no further than the longest.
LEMMA DeadlineAhead ==
  ASSUME NEW n \in 0..LongestDeadline, NEW d, PpuTick(d, n)
  PROVE  ahead' \in 0..LongestDeadline /\ ahead' > 0 /\ 0 + ahead' <= LongestDeadline
<1>1. \A x \in Deadlines : x \in 0..LongestDeadline /\ x > 0 /\ 0 + x <= LongestDeadline
  BY TimerAssumption
<1>2. n # 0 => n > 0 /\ 0 + n <= LongestDeadline
  BY TimerAssumption
<1> QED
  BY <1>1, <1>2, Zenon DEF PpuTick

\* The invariant starts out true.
LEMMA InvInit ==
  ASSUME Init
  PROVE  Inv
<1>1. TypeOK
  <2>1. /\ 0 \in 0..(ByteMod - 1) /\ 0 \in 0..(DivPeriod - 1) /\ 0 \in Nat
        /\ 0 \in 0..(MaxBlock + LongestDeadline) /\ 0 \in 0..LongestDeadline
        /\ 0 \in 0..LateBound
    BY TimerAssumption DEF LateBound
  <2>2. ref \in [div : 0..(ByteMod - 1), divPhase : 0..(DivPeriod - 1),
                tima : 0..(ByteMod - 1), timaPhase : Nat, due : BOOLEAN]
    BY <2>1 DEF Init
  <2> QED
    BY <2>1, <2>2, Zenon DEF Init, TypeOK
<1>2. Counted
  BY DEF Init, Counted
<1>3. (0 + 0) % DivPeriod = 0 /\ (0 + ((0 + 0) \div DivPeriod)) % ByteMod = 0
  BY TimerAssumption, NoCycles
<1>4. Increments(0) = 0
  BY DEF Init, Increments
<1>5. Bumped(0) = 0 /\ ~Overflows(0)
  BY <1>4, TimerAssumption DEF Init, Bumped, Overflows
<1>6. Agrees(ref, since)
  BY <1>3, <1>4, <1>5 DEF Init, Agrees
<1>7. LoopOK /\ LateOK
  BY DEF Init, LoopOK, LateOK
<1> QED
  BY <1>1, <1>2, <1>6, <1>7 DEF Inv

\* A service catches the timer up, and starts a block or the halt loop afresh.
LEMMA ServiceStep ==
  ASSUME Inv, Service
  PROVE  Inv'
<1> DEFINE i == irq \/ Overflows(since)
<1>1. /\ TypeOK /\ Counted /\ Agrees(ref, since) /\ LateOK /\ since \in Nat
      /\ ref \in [div : 0..(ByteMod - 1), divPhase : 0..(DivPeriod - 1),
                  tima : 0..(ByteMod - 1), timaPhase : Nat, due : BOOLEAN]
      /\ ahead \in 0..LongestDeadline
  BY TypeFacts DEF Inv, TypeOK
<1>2. /\ TimerTick(since) /\ Take(i, ref) /\ UNCHANGED regVars /\ PpuTick(since, ahead)
  BY DEF Service, PpuTick
<1>3. /\ since' = 0 /\ irq' \in BOOLEAN /\ halted' \in BOOLEAN /\ ime' \in BOOLEAN
      /\ div' \in 0..(ByteMod - 1) /\ divAcc' \in 0..(DivPeriod - 1)
      /\ tima' \in 0..(ByteMod - 1) /\ timaAcc' \in Nat
      /\ ref' \in [div : 0..(ByteMod - 1), divPhase : 0..(DivPeriod - 1),
                   tima : 0..(ByteMod - 1), timaPhase : Nat, due : BOOLEAN]
      /\ ref'.div = div' /\ ref'.divPhase = divAcc'
      /\ ref'.tima = tima' /\ ref'.timaPhase = timaAcc'
      /\ ref'.due = irq'
      /\ Counted'
  BY <1>1, <1>2, TickAgrees
<1>4. ahead' \in 0..LongestDeadline /\ ahead' > 0 /\ 0 + ahead' <= LongestDeadline
  BY <1>1, <1>2, DeadlineAhead
<1>5. halted' => ~i /\ ~irq'
  BY <1>2, Zenon DEF Take
<1>6. ~i => late = 0
  <2>1. ref.due = i
    BY <1>1 DEF Agrees
  <2> QED
    BY <1>1, <2>1 DEF LateOK
<1>7. late' = 0
  BY <1>5, <1>6 DEF Service
<1>8. pc' = IF halted' THEN "halt" ELSE "exec"
  BY DEF Service
<1>9. TypeOK'
  <2>1. tma' \in 0..(ByteMod - 1) /\ tac' \in Rates \union {Off}
    BY <1>1, <1>2 DEF TypeOK, regVars
  <2>2. 0 \in 0..(MaxBlock + LongestDeadline) /\ 0 \in 0..LateBound
    BY TimerAssumption DEF LateBound
  <2>3. pc' \in {"service", "exec", "halt"}
    BY <1>8, Zenon
  <2> QED
    BY <1>3, <1>4, <1>7, <2>1, <2>2, <2>3, Zenon DEF TypeOK
<1>10. Agrees(ref, since)'
  BY <1>3, <1>9, SettledNext
<1>11. LoopOK'
  <2>1. 0 <= MaxBlock
    BY TimerAssumption
  <2> QED
    BY <1>3, <1>4, <1>5, <1>7, <1>8, <2>1, Zenon DEF LoopOK
<1>12. LateOK'
  BY <1>7, Zenon DEF LateOK
<1> QED
  BY <1>3, <1>9, <1>10, <1>11, <1>12, Zenon DEF Inv

\* A pass of the halt loop: either nothing is caught up and the deadline is nearer,
\* or ppu_tick is called and finds what the reference holds.
LEMMA HaltCycle ==
  ASSUME Inv, HaltStep
  PROVE  Inv'
<1> DEFINE d == since + 1
           ticks == Nearer = 0 \/ irq
           i == irq \/ (ticks /\ Overflows(d))
           r == RefCycle(ref)
<1>1. /\ TypeOK /\ Counted /\ Agrees(ref, since) /\ LateOK /\ since \in Nat /\ d \in Nat
      /\ pc = "halt" /\ halted /\ irq = FALSE /\ ahead \in 0..LongestDeadline
      /\ ahead > 0 /\ since + ahead <= LongestDeadline /\ halted \in BOOLEAN /\ ime \in BOOLEAN
  BY TypeFacts DEF Inv, TypeOK, LoopOK, HaltStep
<1>2. Agrees(r, d) /\ r \in [div : 0..(ByteMod - 1), divPhase : 0..(DivPeriod - 1),
                             tima : 0..(ByteMod - 1), timaPhase : Nat, due : BOOLEAN]
  BY <1>1, CycleAgrees
<1>3. r.due = (irq \/ Overflows(d)) /\ (ref.due => r.due)
  BY <1>2 DEF Agrees, RefCycle
<1>4. Nearer = ahead - 1 /\ Nearer \in 0..LongestDeadline
  BY <1>1, TimerAssumption DEF Nearer
<1>5. /\ IF ticks THEN PpuTick(d, Nearer)
         ELSE since' = d /\ ahead' = Nearer /\ UNCHANGED <<div, tima, divAcc, timaAcc>>
      /\ Take(i, r)
      /\ late' = IF i THEN 0 ELSE IF ref.due /\ late < LateBound THEN late + 1 ELSE late
      /\ pc' \in IF i THEN {"service"} ELSE {"halt", "service"}
      /\ UNCHANGED regVars
  BY Zenon DEF HaltStep
<1>6. tma' \in 0..(ByteMod - 1) /\ tac' \in Rates \union {Off}
  BY <1>1, <1>5 DEF TypeOK, regVars
<1>7. pc' \in {"service", "halt"} /\ (pc' = "halt" => ~i)
  BY <1>5, Zenon
<1>8. ~i => /\ irq' = FALSE /\ halted' = TRUE /\ ime' = ime
            /\ ref' = [r EXCEPT !.due = @ /\ TRUE]
  BY <1>1, <1>5 DEF Take
<1> HIDE DEF d, r
<1>9. CASE ticks
  <2>1. i <=> irq \/ Overflows(d)
    BY <1>9, Zenon
  <2>2. TimerTick(d) /\ PpuTick(d, Nearer)
    BY <1>5, <1>9, Zenon DEF PpuTick
  <2>3. Take(irq \/ Overflows(d), r)
    BY <1>5, <1>9, Zenon
  <2>4. /\ since' = 0 /\ irq' \in BOOLEAN /\ halted' \in BOOLEAN /\ ime' \in BOOLEAN
        /\ div' \in 0..(ByteMod - 1) /\ divAcc' \in 0..(DivPeriod - 1)
        /\ tima' \in 0..(ByteMod - 1) /\ timaAcc' \in Nat
        /\ ref' \in [div : 0..(ByteMod - 1), divPhase : 0..(DivPeriod - 1),
                     tima : 0..(ByteMod - 1), timaPhase : Nat, due : BOOLEAN]
        /\ ref'.div = div' /\ ref'.divPhase = divAcc'
        /\ ref'.tima = tima' /\ ref'.timaPhase = timaAcc'
        /\ ref'.due = irq'
        /\ Counted'
    BY <1>1, <1>2, <1>5, <2>2, <2>3, TickAgrees
  <2>5. ahead' \in 0..LongestDeadline /\ ahead' > 0 /\ 0 + ahead' <= LongestDeadline
    BY <1>4, <2>2, DeadlineAhead
  <2>6. late' = 0
    <3>1. ~i => ~ref.due
      BY <1>3, <2>1
    <3>2. ~ref.due => late = 0
      BY <1>1 DEF LateOK
    <3> QED
      BY <1>5, <3>1, <3>2, Zenon
  <2>7. TypeOK'
    <3>1. 0 \in 0..(MaxBlock + LongestDeadline) /\ 0 \in 0..LateBound
      BY TimerAssumption DEF LateBound
    <3> QED
      BY <1>6, <1>7, <2>4, <2>5, <2>6, <3>1, Zenon DEF TypeOK
  <2>8. Agrees(ref, since)'
    BY <2>4, <2>7, SettledNext
  <2>9. LoopOK'
    BY <1>7, <1>8, <2>4, <2>5, Zenon DEF LoopOK
  <2>10. LateOK'
    BY <2>6, Zenon DEF LateOK
  <2> QED
    BY <2>4, <2>7, <2>8, <2>9, <2>10, Zenon DEF Inv
<1>10. CASE ~ticks
  <2>1. ~i
    BY <1>1, <1>10, Zenon
  <2>2. /\ since' = d /\ ahead' = Nearer
        /\ div' = div /\ tima' = tima /\ divAcc' = divAcc /\ timaAcc' = timaAcc
        /\ tma' = tma /\ tac' = tac
        /\ irq' = irq /\ halted' = TRUE /\ ime' = ime
    BY <1>1, <1>5, <1>8, <1>10, <2>1 DEF regVars
  <2>3. ref' = r
    BY <1>2, <1>8, <2>1
  <2>4. late' = IF ref.due /\ late < LateBound THEN late + 1 ELSE late
    BY <1>5, <2>1, Zenon
  <2>5. late \in Nat /\ (late # 0 => ref.due /\ late < since) /\ late \in 0..LateBound
    BY <1>1 DEF LateOK, TypeOK, LateBound
  <2>5a. ref.due => since > 0
    <3>1. CASE since = 0
      <4>1. ref.due = irq
        BY <1>1, <3>1, Settled
      <4> QED
        BY <1>1, <4>1, Zenon
    <3> QED
      BY <1>1, <3>1
  <2>6. late' \in 0..LateBound /\ (late' # 0 => r.due /\ late' < d)
    BY <1>1, <1>3, <2>4, <2>5, <2>5a, TimerAssumption DEF d, LateBound
  <2>7. /\ d \in 0..(MaxBlock + LongestDeadline) /\ Nearer > 0
        /\ d + Nearer <= LongestDeadline
    BY <1>1, <1>4, <1>10, TimerAssumption DEF d
  <2>8. TypeOK'
    BY <1>1, <1>2, <1>4, <1>7, <2>2, <2>3, <2>6, <2>7, Zenon DEF TypeOK
  <2>9. Agrees(ref, since)'
    BY <1>2, <2>2, <2>3 DEF Agrees, Bumped, Increments, Overflows
  <2>10. Counted'
    BY <1>1, <2>2 DEF Counted
  <2>11. LoopOK'
    BY <1>1, <1>7, <2>2, <2>7, Zenon DEF LoopOK
  <2>12. LateOK'
    BY <2>2, <2>3, <2>6, <2>7, Zenon DEF LateOK
  <2> QED
    BY <2>8, <2>9, <2>10, <2>11, <2>12, Zenon DEF Inv
<1> QED
  BY <1>9, <1>10
\* A cycle of a block.
LEMMA BlockCycle ==
  ASSUME Inv, Cycle
  PROVE  Inv'
<1>1. /\ TypeOK /\ Counted /\ Agrees(ref, since) /\ since \in Nat /\ since < MaxBlock
      /\ pc = "exec" /\ late = 0 /\ ~halted /\ ahead \in 0..LongestDeadline
  BY TypeFacts DEF Inv, TypeOK, LoopOK, Cycle
<1>2. /\ since' = since + 1 /\ ahead' = Nearer /\ ref' = RefCycle(ref)
      /\ pc' = pc /\ div' = div /\ tima' = tima /\ divAcc' = divAcc /\ timaAcc' = timaAcc
      /\ tma' = tma /\ tac' = tac /\ irq' = irq /\ halted' = halted /\ ime' = ime
      /\ late' = late
  BY DEF Cycle, regVars, cpuVars
<1>3. /\ Agrees(RefCycle(ref), since + 1)
      /\ RefCycle(ref) \in [div : 0..(ByteMod - 1), divPhase : 0..(DivPeriod - 1),
                            tima : 0..(ByteMod - 1), timaPhase : Nat, due : BOOLEAN]
  BY <1>1, CycleAgrees
<1>4. /\ since + 1 \in 0..(MaxBlock + LongestDeadline) /\ since + 1 <= MaxBlock
      /\ Nearer \in 0..LongestDeadline
  BY <1>1, TimerAssumption DEF Nearer
<1>5. TypeOK'
  BY <1>1, <1>2, <1>3, <1>4, Zenon DEF TypeOK
<1>6. Agrees(ref, since)'
  BY <1>2, <1>3 DEF Agrees, Bumped, Increments, Overflows
<1>7. Counted'
  BY <1>1, <1>2 DEF Counted
<1>8. LoopOK' /\ LateOK'
  BY <1>1, <1>2, <1>4, Zenon DEF LoopOK, LateOK
<1> QED
  BY <1>5, <1>6, <1>7, <1>8, Zenon DEF Inv

\* The end of a block moves neither the timer nor the reference.
LEMMA BlockEnds ==
  ASSUME Inv, EndBlock
  PROVE  Inv'
<1>1. /\ TypeOK /\ Counted /\ Agrees(ref, since) /\ pc = "exec" /\ late = 0
      /\ halted \in BOOLEAN /\ ime \in BOOLEAN
  BY DEF Inv, LoopOK, EndBlock, TypeOK
<1>2. /\ pc' = "service" /\ div' = div /\ tima' = tima /\ divAcc' = divAcc
      /\ timaAcc' = timaAcc /\ since' = since /\ tma' = tma /\ tac' = tac
      /\ irq' = irq /\ ahead' = ahead /\ ref' = ref /\ late' = late
  BY DEF EndBlock, timerVars, regVars
<1>3. halted' \in BOOLEAN /\ ime' \in BOOLEAN
  BY <1>1 DEF EndBlock
<1>4. TypeOK'
  BY <1>1, <1>2, <1>3 DEF TypeOK
<1>5. Agrees(ref, since)'
  BY <1>1, <1>2 DEF Agrees, Bumped, Increments, Overflows
<1>6. Counted' /\ LoopOK' /\ LateOK'
  BY <1>1, <1>2 DEF Counted, LoopOK, LateOK
<1> QED
  BY <1>4, <1>5, <1>6 DEF Inv

\* What holds before a store to the timer's registers: nothing is uncounted.
LEMMA WritingFacts ==
  ASSUME Inv, Writing
  PROVE  /\ TypeOK /\ Counted /\ pc = "exec" /\ since = 0 /\ late = 0 /\ ~halted
         /\ ref.div = div /\ ref.divPhase = divAcc
         /\ ref.tima = tima /\ ref.timaPhase = timaAcc
         /\ ref.due = irq /\ irq \in BOOLEAN
         /\ ref \in [div : 0..(ByteMod - 1), divPhase : 0..(DivPeriod - 1),
                     tima : 0..(ByteMod - 1), timaPhase : Nat, due : BOOLEAN]
<1>1. TypeOK /\ Counted /\ Agrees(ref, 0) /\ pc = "exec" /\ since = 0
  BY DEF Inv, Writing
<1>2. late = 0 /\ ~halted
  BY <1>1 DEF Inv, LoopOK
<1>3. /\ ref.div = div /\ ref.divPhase = divAcc
      /\ ref.tima = tima /\ ref.timaPhase = timaAcc
      /\ ref.due = irq
  BY <1>1, Settled
<1> QED
  BY <1>1, <1>2, <1>3 DEF TypeOK

\* A store to a timer's register leaves the loop where it is.
LEMMA StoreKeepsLoop ==
  ASSUME Inv, Writing, pc' = pc, since' = since, late' = late, halted' = halted
  PROVE  LoopOK' /\ LateOK'
<1>1. pc = "exec" /\ since = 0 /\ late = 0 /\ ~halted /\ 0 <= MaxBlock
  BY WritingFacts, TimerAssumption
<1> QED
  BY <1>1, Zenon DEF LoopOK, LateOK

\* The store to DIV.
LEMMA DivStored ==
  ASSUME Inv, WriteDiv
  PROVE  Inv'
<1>0. Writing
  BY DEF WriteDiv
<1>1. /\ TypeOK /\ Counted /\ since = 0 /\ irq \in BOOLEAN
      /\ ref.tima = tima /\ ref.timaPhase = timaAcc /\ ref.due = irq
      /\ ref \in [div : 0..(ByteMod - 1), divPhase : 0..(DivPeriod - 1),
                  tima : 0..(ByteMod - 1), timaPhase : Nat, due : BOOLEAN]
  BY <1>0, WritingFacts
<1>2. /\ div' = 0 /\ divAcc' = 0 /\ ref' = [ref EXCEPT !.div = 0, !.divPhase = 0]
      /\ pc' = pc /\ tima' = tima /\ timaAcc' = timaAcc /\ since' = since
      /\ tma' = tma /\ tac' = tac /\ irq' = irq /\ ahead' = ahead
      /\ halted' = halted /\ ime' = ime /\ late' = late
  BY DEF WriteDiv, regVars, cpuVars
<1>3. 0 \in 0..(ByteMod - 1) /\ 0 \in 0..(DivPeriod - 1)
  BY TimerAssumption
<1>4. /\ ref'.div = div' /\ ref'.divPhase = divAcc' /\ ref'.tima = tima'
      /\ ref'.timaPhase = timaAcc' /\ ref'.due = irq'
      /\ ref' \in [div : 0..(ByteMod - 1), divPhase : 0..(DivPeriod - 1),
                   tima : 0..(ByteMod - 1), timaPhase : Nat, due : BOOLEAN]
  BY <1>1, <1>2, <1>3
<1>5. TypeOK'
  BY <1>1, <1>2, <1>3, <1>4, Zenon DEF TypeOK
<1>6. Counted'
  BY <1>1, <1>2 DEF Counted
<1>7. since' = 0 /\ irq' \in BOOLEAN
  BY <1>1, <1>2
<1>8. Agrees(ref, since)'
  BY <1>4, <1>5, <1>6, <1>7, SettledNext
<1> QED
  BY <1>0, <1>2, <1>5, <1>6, <1>8, StoreKeepsLoop, Zenon DEF Inv

\* The store to TIMA.
LEMMA TimaStored ==
  ASSUME Inv, NEW v \in TmaValues, WriteTima(v)
  PROVE  Inv'
<1>0. Writing
  BY DEF WriteTima
<1>1. /\ TypeOK /\ since = 0 /\ irq \in BOOLEAN
      /\ ref.div = div /\ ref.divPhase = divAcc /\ ref.due = irq
      /\ ref \in [div : 0..(ByteMod - 1), divPhase : 0..(DivPeriod - 1),
                  tima : 0..(ByteMod - 1), timaPhase : Nat, due : BOOLEAN]
  BY <1>0, WritingFacts
<1>2. /\ tima' = v /\ timaAcc' = 0 /\ ref' = [ref EXCEPT !.tima = v, !.timaPhase = 0]
      /\ pc' = pc /\ div' = div /\ divAcc' = divAcc /\ since' = since
      /\ tma' = tma /\ tac' = tac /\ irq' = irq /\ ahead' = ahead
      /\ halted' = halted /\ ime' = ime /\ late' = late
  BY DEF WriteTima, regVars, cpuVars
<1>3. v \in 0..(ByteMod - 1) /\ 0 \in Nat
  BY TimerAssumption
<1>4. /\ ref'.div = div' /\ ref'.divPhase = divAcc' /\ ref'.tima = tima'
      /\ ref'.timaPhase = timaAcc' /\ ref'.due = irq'
      /\ ref' \in [div : 0..(ByteMod - 1), divPhase : 0..(DivPeriod - 1),
                   tima : 0..(ByteMod - 1), timaPhase : Nat, due : BOOLEAN]
  BY <1>1, <1>2, <1>3
<1>5. TypeOK'
  BY <1>1, <1>2, <1>3, <1>4, Zenon DEF TypeOK
<1>6. Counted'
  <2>1. tac # Off => 0 < Periods[tac]
    BY <1>1, TypeFacts
  <2> QED
    BY <2>1, <1>2, Zenon DEF Counted
<1>7. since' = 0 /\ irq' \in BOOLEAN
  BY <1>1, <1>2
<1>8. Agrees(ref, since)'
  BY <1>4, <1>5, <1>6, <1>7, SettledNext
<1> QED
  BY <1>0, <1>2, <1>5, <1>6, <1>8, StoreKeepsLoop, Zenon DEF Inv

\* The store to TMA, which TIMA has no use for before it overflows.
LEMMA TmaStored ==
  ASSUME Inv, NEW v \in TmaValues, WriteTma(v)
  PROVE  Inv'
<1>0. Writing
  BY DEF WriteTma
<1>1. /\ TypeOK /\ Counted /\ since = 0 /\ irq \in BOOLEAN
      /\ ref.div = div /\ ref.divPhase = divAcc
      /\ ref.tima = tima /\ ref.timaPhase = timaAcc /\ ref.due = irq
  BY <1>0, WritingFacts
<1>2. /\ tma' = v /\ pc' = pc /\ div' = div /\ tima' = tima /\ divAcc' = divAcc
      /\ timaAcc' = timaAcc /\ since' = since /\ tac' = tac /\ irq' = irq
      /\ ahead' = ahead /\ halted' = halted /\ ime' = ime /\ ref' = ref /\ late' = late
  BY DEF WriteTma, timerVars, cpuVars
<1>3. v \in 0..(ByteMod - 1)
  BY TimerAssumption
<1>5. TypeOK'
  BY <1>1, <1>2, <1>3, Zenon DEF TypeOK
<1>6. Counted'
  BY <1>1, <1>2 DEF Counted
<1>7. /\ since' = 0 /\ irq' \in BOOLEAN
      /\ ref'.div = div' /\ ref'.divPhase = divAcc' /\ ref'.tima = tima'
      /\ ref'.timaPhase = timaAcc' /\ ref'.due = irq'
  BY <1>1, <1>2
<1>8. Agrees(ref, since)'
  BY <1>5, <1>6, <1>7, SettledNext
<1> QED
  BY <1>0, <1>2, <1>5, <1>6, <1>8, StoreKeepsLoop, Zenon DEF Inv

\* The store to TAC: the count kept across it is below the new period.
LEMMA TacStored ==
  ASSUME ~RateChange, Inv, NEW r \in Rates \union {Off}, WriteTac(r)
  PROVE  Inv'
<1>0. Writing
  BY DEF WriteTac
<1>1. /\ TypeOK /\ since = 0 /\ irq \in BOOLEAN
      /\ ref.div = div /\ ref.divPhase = divAcc
      /\ ref.tima = tima /\ ref.timaPhase = timaAcc /\ ref.due = irq
  BY <1>0, WritingFacts
<1>2. /\ tac' = r /\ pc' = pc /\ div' = div /\ tima' = tima /\ divAcc' = divAcc
      /\ timaAcc' = timaAcc /\ since' = since /\ tma' = tma /\ irq' = irq
      /\ ahead' = ahead /\ halted' = halted /\ ime' = ime /\ ref' = ref /\ late' = late
  BY DEF WriteTac, timerVars, cpuVars
<1>5. TypeOK'
  BY <1>1, <1>2, Zenon DEF TypeOK
<1>6. Counted'
  <2>1. r # Off => timaAcc < Periods[r]
    BY DEF WriteTac
  <2> QED
    BY <1>2, <2>1, Zenon DEF Counted
<1>7. /\ since' = 0 /\ irq' \in BOOLEAN
      /\ ref'.div = div' /\ ref'.divPhase = divAcc' /\ ref'.tima = tima'
      /\ ref'.timaPhase = timaAcc' /\ ref'.due = irq'
  BY <1>1, <1>2
<1>8. Agrees(ref, since)'
  BY <1>5, <1>6, <1>7, SettledNext
<1> QED
  BY <1>0, <1>2, <1>5, <1>6, <1>8, StoreKeepsLoop, Zenon DEF Inv

\* Every step preserves the invariant.
LEMMA InvNext ==
  ASSUME ~RateChange, Inv, [Next]_vars
  PROVE  Inv'
<1>1. CASE Service
  BY <1>1, ServiceStep
<1>2. CASE HaltStep
  BY <1>2, HaltCycle
<1>3. CASE Cycle
  BY <1>3, BlockCycle
<1>4. CASE EndBlock
  BY <1>4, BlockEnds
<1>5. CASE WriteDiv
  BY <1>5, DivStored
<1>6. ASSUME NEW v \in TmaValues, WriteTima(v) \/ WriteTma(v)
      PROVE  Inv'
  BY <1>6, TimaStored, TmaStored
<1>7. ASSUME NEW r \in Rates \union {Off}, WriteTac(r)
      PROVE  Inv'
  BY <1>7, TacStored
<1>8. CASE UNCHANGED vars
  BY <1>8 DEF vars, timerVars, regVars, cpuVars, Inv, TypeOK, Agrees, Bumped, Increments,
              Overflows, Counted, LoopOK, LateOK
<1> QED
  BY <1>1, <1>2, <1>3, <1>4, <1>5, <1>6, <1>7, <1>8, Zenon DEF Next

-----------------------------------------------------------------------------
(* The theorems, for a guest that changes no rate with a count too long.   *)

\* The inductive invariant holds throughout.
THEOREM InvAlways ==
  ASSUME ~RateChange
  PROVE  Spec => []Inv
<1>1. Init => Inv
  BY InvInit
<1>2. Inv /\ [Next]_vars => Inv'
  BY InvNext
<1> QED
  BY <1>1, <1>2, PTL DEF Spec

\* Whatever the width, the periods and the reload values: what a guest finds in
\* DIV, TIMA and IF after timer_tick caught up any number of cycles is what
\* counting them one by one gives.
THEOREM TimerExact ==
  ASSUME ~RateChange
  PROVE  Spec => []TimerOnTime
<1>1. Inv => TimerOnTime
  <2> SUFFICES ASSUME Inv, pc = "exec", since = 0
               PROVE  div = ref.div /\ tima = ref.tima /\ irq = ref.due
    BY DEF TimerOnTime
  <2> QED
    BY Settled DEF Inv
<1> QED
  BY <1>1, InvAlways, PTL

\* A processor halted past its timer interrupt sleeps for less than the longest
\* of the LCD's deadlines, whatever the deadlines are.
THEOREM SleepBounded ==
  ASSUME ~RateChange
  PROVE  Spec => []SleepBound
<1>1. Inv => SleepBound
  <2> SUFFICES ASSUME Inv
               PROVE  late < LongestDeadline
    BY DEF SleepBound
  <2>1. late \in Nat /\ since \in Nat /\ ahead \in Nat /\ LongestDeadline \in Nat \ {0}
    BY TypeFacts DEF Inv, TypeOK
  <2> QED
    BY <2>1 DEF Inv, LateOK
<1> QED
  BY <1>1, InvAlways, PTL

-----------------------------------------------------------------------------
(* DIV, whatever rates TIMA is given and when.                             *)

\* The reference's DIV is the timer's, d cycles after its last timer_tick.
DivAgrees(r, d) ==
  /\ r.divPhase = (divAcc + d) % DivPeriod
  /\ r.div = (div + ((divAcc + d) \div DivPeriod)) % ByteMod

\* What the reference's record is made of.
Fields(r) ==
  r = [div |-> r.div, divPhase |-> r.divPhase, tima |-> r.tima, timaPhase |-> r.timaPhase,
       due |-> r.due]

DivOK ==
  /\ div \in 0..(ByteMod - 1) /\ divAcc \in 0..(DivPeriod - 1) /\ since \in Nat
  /\ Fields(ref) /\ DivAgrees(ref, since)

\* Of the reference only its interrupt is dropped when it is taken.
LEMMA TakeDiv ==
  ASSUME NEW i, NEW r, Fields(r), Take(i, r)
  PROVE  Fields(ref)' /\ ref'.div = r.div /\ ref'.divPhase = r.divPhase
<1>1. PICK x : ref' = [r EXCEPT !.due = x]
  BY Zenon DEF Take
<1>2. ref' = [div |-> r.div, divPhase |-> r.divPhase, tima |-> r.tima,
              timaPhase |-> r.timaPhase, due |-> x]
  BY <1>1 DEF Fields
<1> QED
  BY <1>2 DEF Fields

\* Just after a timer_tick the two hold the same.
LEMMA SettledDiv ==
  ASSUME div' \in 0..(ByteMod - 1), divAcc' \in 0..(DivPeriod - 1), since' = 0,
         ref'.div = div', ref'.divPhase = divAcc'
  PROVE  DivAgrees(ref, since)'
<1>0. ByteMod \in Nat \ {0} /\ DivPeriod \in Nat \ {0}
  BY TimerAssumption
<1>1. ASSUME NEW a \in 0..(DivPeriod - 1), NEW b \in 0..(ByteMod - 1)
      PROVE  (a + 0) % DivPeriod = a /\ (b + ((a + 0) \div DivPeriod)) % ByteMod = b
  <2>1. (a + 0) % DivPeriod = a /\ (a + 0) \div DivPeriod = 0 /\ (b + 0) % ByteMod = b
    BY <1>0, <1>1, NoCycles
  <2> QED
    BY <2>1
<1>2. /\ (divAcc' + since') % DivPeriod = divAcc'
      /\ (div' + ((divAcc' + since') \div DivPeriod)) % ByteMod = div'
  BY <1>1, Zenon
<1> QED
  BY <1>2, Zenon DEF DivAgrees

\* timer_tick moves DIV to where the reference is.
LEMMA TickDiv ==
  ASSUME DivOK, NEW d \in Nat, TimerTick(d), ref'.div = (div + ((divAcc + d) \div DivPeriod)) % ByteMod,
         ref'.divPhase = (divAcc + d) % DivPeriod, Fields(ref)'
  PROVE  DivOK'
<1>0. ByteMod \in Nat \ {0} /\ DivPeriod \in Nat \ {0} /\ divAcc + d \in Nat
  BY TimerAssumption DEF DivOK
<1>1. /\ (divAcc + d) \div DivPeriod \in Nat
      /\ (divAcc + d) % DivPeriod \in 0..(DivPeriod - 1)
  BY <1>0, Division
<1>2. div + ((divAcc + d) \div DivPeriod) \in Nat
  BY <1>1 DEF DivOK
<1>3. /\ div' \in 0..(ByteMod - 1) /\ divAcc' \in 0..(DivPeriod - 1) /\ since' = 0
      /\ ref'.div = div' /\ ref'.divPhase = divAcc'
  BY <1>0, <1>1, <1>2, Division DEF TimerTick
<1> QED
  BY <1>3, SettledDiv DEF DivOK

\* A cycle of the reference.
LEMMA CycleDiv ==
  ASSUME DivOK, NEW d \in Nat, DivAgrees(ref, d)
  PROVE  Fields(RefCycle(ref)) /\ DivAgrees(RefCycle(ref), d + 1)
<1> DEFINE n == divAcc + d
           r == RefCycle(ref)
<1>0. ByteMod \in Nat \ {0} /\ DivPeriod \in Nat \ {0}
  BY TimerAssumption
<1>1. n \in Nat /\ divAcc + (d + 1) = n + 1
  BY <1>0 DEF DivOK
<1>2. ref.divPhase = n % DivPeriod /\ ref.div = (div + (n \div DivPeriod)) % ByteMod
  BY DEF DivAgrees
<1>3. n \div DivPeriod \in Nat /\ n % DivPeriod \in 0..(DivPeriod - 1)
  BY <1>0, <1>1, Division
<1>4. IF (n % DivPeriod) + 1 = DivPeriod
      THEN (n + 1) % DivPeriod = 0 /\ (n + 1) \div DivPeriod = (n \div DivPeriod) + 1
      ELSE (n + 1) % DivPeriod = (n % DivPeriod) + 1 /\ (n + 1) \div DivPeriod = n \div DivPeriod
  BY <1>0, <1>1, DivisionStep
<1>5. /\ r.divPhase = IF ref.divPhase + 1 = DivPeriod THEN 0 ELSE ref.divPhase + 1
      /\ r.div = IF ref.divPhase + 1 = DivPeriod THEN (ref.div + 1) % ByteMod ELSE ref.div
  BY DEF RefCycle
<1>6. div + (n \div DivPeriod) \in Nat
  BY <1>0, <1>3 DEF DivOK
<1>7. (ref.div + 1) % ByteMod = (div + (n \div DivPeriod) + 1) % ByteMod
  BY <1>0, <1>2, <1>6, WrapStep
<1>8. r.divPhase = (n + 1) % DivPeriod /\ r.div = (div + ((n + 1) \div DivPeriod)) % ByteMod
  <2>1. CASE (n % DivPeriod) + 1 = DivPeriod
    <3>1. div + (n \div DivPeriod) + 1 = div + ((n + 1) \div DivPeriod)
      BY <2>1, <1>0, <1>3, <1>4 DEF DivOK
    <3> QED
      BY <3>1, <2>1, <1>2, <1>4, <1>5, <1>7
  <2>2. CASE (n % DivPeriod) + 1 # DivPeriod
    BY <2>2, <1>2, <1>4, <1>5
  <2> QED
    BY <2>1, <2>2
<1>9. Fields(r)
  BY Zenon DEF Fields, RefCycle
<1> HIDE DEF r, n
<1> QED
  BY <1>1, <1>8, <1>9 DEF DivAgrees, r

\* Every step.
LEMMA NextDiv ==
  ASSUME DivOK, [Next]_vars
  PROVE  DivOK'
<1>0. ByteMod \in Nat \ {0} /\ DivPeriod \in Nat \ {0} /\ since \in Nat /\ since + 1 \in Nat
  BY TimerAssumption DEF DivOK
<1>1. CASE Service
  <2>1. TimerTick(since) /\ Take(irq \/ Overflows(since), ref)
    BY <1>1 DEF Service, PpuTick
  <2>2. Fields(ref)' /\ ref'.div = ref.div /\ ref'.divPhase = ref.divPhase
    BY <2>1, TakeDiv DEF DivOK
  <2> QED
    BY <1>0, <2>1, <2>2, TickDiv DEF DivOK, DivAgrees
<1>2. CASE HaltStep
  <2> DEFINE d == since + 1
             ticks == Nearer = 0 \/ irq
             i == irq \/ (ticks /\ Overflows(d))
             r == RefCycle(ref)
  <2>1. Take(i, r)
    BY <1>2 DEF HaltStep
  <2>2. Fields(r) /\ DivAgrees(r, d)
    BY <1>0, CycleDiv DEF DivOK
  <2>3. Fields(ref)' /\ ref'.div = r.div /\ ref'.divPhase = r.divPhase
    BY <2>1, <2>2, TakeDiv
  <2>4. CASE ticks
    <3>1. TimerTick(d)
      BY <1>2, <2>4 DEF HaltStep, PpuTick
    <3> HIDE DEF r
    <3> QED
      BY <1>0, <2>2, <2>3, <3>1, TickDiv DEF DivAgrees
  <2>5. CASE ~ticks
    <3>1. since' = d /\ UNCHANGED <<div, divAcc>>
      BY <1>2, <2>5 DEF HaltStep
    <3> HIDE DEF r
    <3> QED
      BY <1>0, <2>2, <2>3, <3>1 DEF DivOK, DivAgrees
  <2> QED
    BY <2>4, <2>5
<1>3. CASE Cycle
  <2> DEFINE r == RefCycle(ref)
  <2>1. ref' = r /\ since' = since + 1 /\ UNCHANGED <<div, divAcc>>
    BY <1>3 DEF Cycle
  <2>2. Fields(r) /\ DivAgrees(r, since + 1)
    BY <1>0, CycleDiv DEF DivOK
  <2> HIDE DEF r
  <2> QED
    BY <1>0, <2>1, <2>2 DEF DivOK, DivAgrees, Fields
<1>4. CASE WriteDiv
  <2>1. /\ div' = 0 /\ divAcc' = 0 /\ since' = 0
        /\ ref' = [ref EXCEPT !.div = 0, !.divPhase = 0]
    BY <1>4 DEF WriteDiv, Writing
  <2>2. ref' = [div |-> 0, divPhase |-> 0, tima |-> ref.tima,
                timaPhase |-> ref.timaPhase, due |-> ref.due]
    BY <2>1 DEF DivOK, Fields
  <2>3. Fields(ref)' /\ ref'.div = div' /\ ref'.divPhase = divAcc'
    BY <2>1, <2>2 DEF Fields
  <2>4. div' \in 0..(ByteMod - 1) /\ divAcc' \in 0..(DivPeriod - 1)
    BY <1>0, <2>1
  <2> QED
    BY <2>1, <2>3, <2>4, SettledDiv DEF DivOK
<1>5. ASSUME NEW v \in TmaValues, WriteTima(v)
      PROVE  DivOK'
  <2>1. ref' = [ref EXCEPT !.tima = v, !.timaPhase = 0] /\ UNCHANGED <<div, divAcc, since>>
    BY <1>5 DEF WriteTima
  <2>2. ref' = [div |-> ref.div, divPhase |-> ref.divPhase, tima |-> v,
                timaPhase |-> 0, due |-> ref.due]
    BY <2>1 DEF DivOK, Fields
  <2>3. Fields(ref)' /\ ref'.div = ref.div /\ ref'.divPhase = ref.divPhase
    BY <2>2 DEF Fields
  <2> QED
    BY <2>1, <2>3 DEF DivOK, DivAgrees
<1>6. ASSUME UNCHANGED <<div, divAcc, since, ref>>
      PROVE  DivOK'
  BY <1>6 DEF DivOK, DivAgrees, Fields
<1>7. CASE EndBlock
  BY <1>6, <1>7 DEF EndBlock, timerVars
<1>8. ASSUME NEW v \in TmaValues, WriteTma(v)
      PROVE  DivOK'
  BY <1>6, <1>8 DEF WriteTma, timerVars
<1>9. ASSUME NEW r \in Rates \union {Off}, WriteTac(r)
      PROVE  DivOK'
  BY <1>6, <1>9 DEF WriteTac, timerVars
<1>10. CASE UNCHANGED vars
  BY <1>6, <1>10 DEF vars, timerVars
<1> QED
  BY <1>1, <1>2, <1>3, <1>4, <1>5, <1>7, <1>8, <1>9, <1>10 DEF Next

\* What a guest finds in DIV is what a DIV moved by every cycle holds, in every
\* game: no rate TIMA is given, and no write to its registers, disturbs the count.
THEOREM DivExact == Spec => [](pc = "exec" /\ since = 0 => div = ref.div)
<1>1. Init => DivOK
  <2> SUFFICES ASSUME Init PROVE DivOK
    OBVIOUS
  <2>0. ByteMod \in Nat \ {0} /\ DivPeriod \in Nat \ {0}
    BY TimerAssumption
  <2>1. /\ div = 0 /\ divAcc = 0 /\ since = 0 /\ Fields(ref)
        /\ ref.div = 0 /\ ref.divPhase = 0
    BY DEF Init, Fields
  <2>2. (0 + 0) \div DivPeriod = 0 /\ (0 + 0) % DivPeriod = 0 /\ (0 + 0) % ByteMod = 0
    BY <2>0, NoCycles
  <2> QED
    BY <2>0, <2>1, <2>2 DEF DivOK, DivAgrees
<1>2. DivOK /\ [Next]_vars => DivOK'
  BY NextDiv
<1>3. DivOK => (pc = "exec" /\ since = 0 => div = ref.div)
  <2> SUFFICES ASSUME DivOK, since = 0 PROVE div = ref.div
    OBVIOUS
  <2>0. ByteMod \in Nat \ {0} /\ DivPeriod \in Nat \ {0}
    BY TimerAssumption
  <2>1. (divAcc + 0) \div DivPeriod = 0 /\ (div + 0) % ByteMod = div
    BY <2>0, NoCycles DEF DivOK
  <2> QED
    BY <2>1 DEF DivOK, DivAgrees
<1> QED
  BY <1>1, <1>2, <1>3, PTL DEF Spec

-----------------------------------------------------------------------------
(* The types, in every game.                                               *)

\* The loop's phases bound the distances to the last timer_tick and the deadline.
Paced ==
  /\ pc = "exec" => since <= MaxBlock
  /\ pc = "halt" => ahead > 0 /\ since + ahead <= LongestDeadline

\* Where the reference's registers lie.
Readings == [div : 0..(ByteMod - 1), divPhase : 0..(DivPeriod - 1),
             tima : 0..(ByteMod - 1), timaPhase : Nat, due : BOOLEAN]

\* A cycle leaves the reference's registers in range.
LEMMA CycleReadings ==
  ASSUME TypeOK
  PROVE  RefCycle(ref) \in Readings
<1> DEFINE r == RefCycle(ref)
<1>0. /\ ByteMod \in Nat \ {0} /\ DivPeriod \in Nat \ {0} /\ tma \in 0..(ByteMod - 1)
      /\ ref.div \in 0..(ByteMod - 1) /\ ref.divPhase \in 0..(DivPeriod - 1)
      /\ ref.tima \in 0..(ByteMod - 1) /\ ref.timaPhase \in Nat /\ ref.due \in BOOLEAN
  BY TimerAssumption DEF TypeOK
<1>1. /\ r.div = IF ref.divPhase + 1 = DivPeriod THEN (ref.div + 1) % ByteMod ELSE ref.div
      /\ r.divPhase = IF ref.divPhase + 1 = DivPeriod THEN 0 ELSE ref.divPhase + 1
  BY DEF RefCycle
<1>2. (ref.div + 1) % ByteMod \in 0..(ByteMod - 1)
  <2>1. ref.div + 1 \in Nat
    BY <1>0
  <2> QED
    BY <1>0, <2>1, Division
<1>3. r.div \in 0..(ByteMod - 1)
  BY <1>0, <1>1, <1>2
<1>4. r.divPhase \in 0..(DivPeriod - 1)
  BY <1>0, <1>1
<1>5. \/ r.tima = tma
      \/ ref.tima # ByteMod - 1 /\ r.tima = ref.tima + 1
      \/ r.tima = ref.tima
  BY Zenon DEF RefCycle
<1>6. r.tima \in 0..(ByteMod - 1)
  BY <1>0, <1>5
<1>7. r.timaPhase \in {0, ref.timaPhase + 1, ref.timaPhase} /\ r.due \in BOOLEAN
  BY Zenon DEF RefCycle
<1>8. r = [div |-> r.div, divPhase |-> r.divPhase, tima |-> r.tima,
           timaPhase |-> r.timaPhase, due |-> r.due]
  BY Zenon DEF RefCycle
<1> HIDE DEF r
<1>9. r.timaPhase \in Nat
  BY <1>0, <1>7
<1>10. r \in Readings
  BY <1>3, <1>4, <1>6, <1>7, <1>8, <1>9 DEF Readings
<1> QED
  BY <1>10 DEF r

\* Taking an interrupt keeps the types.
LEMMA TakeTypes ==
  ASSUME TypeOK, NEW i \in BOOLEAN, NEW r \in Readings, Take(i, r)
  PROVE  irq' \in BOOLEAN /\ halted' \in BOOLEAN /\ ime' \in BOOLEAN /\ ref' \in Readings
<1>1. halted \in BOOLEAN /\ ime \in BOOLEAN /\ r.due \in BOOLEAN
  BY DEF TypeOK, Readings
<1>2. irq' \in BOOLEAN /\ halted' \in BOOLEAN /\ ime' \in BOOLEAN
  BY <1>1 DEF Take
<1>3. PICK x \in BOOLEAN : ref' = [r EXCEPT !.due = x]
  BY <1>1 DEF Take
<1>4. ref' \in Readings
  BY <1>3 DEF Readings
<1> QED
  BY <1>2, <1>4

\* So does catching the timer up.
LEMMA TickTypes ==
  ASSUME TypeOK, NEW d \in Nat, TimerTick(d)
  PROVE  /\ div' \in 0..(ByteMod - 1) /\ divAcc' \in 0..(DivPeriod - 1)
         /\ tima' \in 0..(ByteMod - 1) /\ timaAcc' \in Nat /\ since' = 0
<1>1. /\ ByteMod \in Nat \ {0} /\ DivPeriod \in Nat \ {0} /\ div \in Nat /\ divAcc + d \in Nat
      /\ timaAcc + d \in Nat /\ timaAcc \in Nat
      /\ tac # Off => Periods[tac] \in Nat \ {0}
  BY TypeFacts
<1>2. (divAcc + d) \div DivPeriod \in Nat /\ (divAcc + d) % DivPeriod \in 0..(DivPeriod - 1)
  BY <1>1, Division
<1>3. div + ((divAcc + d) \div DivPeriod) \in Nat
  BY <1>1, <1>2
<1>4. (div + ((divAcc + d) \div DivPeriod)) % ByteMod \in 0..(ByteMod - 1)
  BY <1>1, <1>3, Division
<1>5. Bumped(Increments(d)) \in 0..(ByteMod - 1)
  BY IncrementsNat, BumpedByte
<1>6. tac # Off => (timaAcc + d) % Periods[tac] \in Nat
  BY <1>1, Division
<1>7. timaAcc' \in Nat
  BY <1>1, <1>6 DEF TimerTick
<1> QED
  BY <1>2, <1>4, <1>5, <1>7, Zenon DEF TimerTick

\* Every step.
LEMMA NextTypes ==
  ASSUME TypeOK, Paced, [Next]_vars
  PROVE  TypeOK' /\ Paced'
<1>0. /\ since \in Nat /\ since + 1 \in Nat /\ ref \in Readings /\ irq \in BOOLEAN
      /\ ahead \in 0..LongestDeadline /\ LongestDeadline \in Nat \ {0} /\ MaxBlock \in Nat
      /\ late \in 0..LateBound /\ LateBound \in Nat
      /\ 0 \in 0..LateBound /\ 0 \in 0..(MaxBlock + LongestDeadline) /\ 0 <= MaxBlock
  BY TypeFacts DEF TypeOK, Readings, LateBound
<1>1. CASE Service
  <2> DEFINE i == irq \/ Overflows(since)
  <2>1. /\ TimerTick(since) /\ PpuTick(since, ahead) /\ Take(i, ref)
        /\ late' = IF halted' THEN late ELSE 0
        /\ pc' = IF halted' THEN "halt" ELSE "exec"
        /\ tma' = tma /\ tac' = tac
    BY <1>1 DEF Service, PpuTick, regVars
  <2>2. irq' \in BOOLEAN /\ halted' \in BOOLEAN /\ ime' \in BOOLEAN /\ ref' \in Readings
    <3>1. i \in BOOLEAN
      OBVIOUS
    <3> HIDE DEF i
    <3> QED
      BY <1>0, <2>1, <3>1, TakeTypes
  <2>3. /\ div' \in 0..(ByteMod - 1) /\ divAcc' \in 0..(DivPeriod - 1)
        /\ tima' \in 0..(ByteMod - 1) /\ timaAcc' \in Nat /\ since' = 0
    BY <1>0, <2>1, TickTypes
  <2>4. ahead' \in 0..LongestDeadline /\ ahead' > 0 /\ 0 + ahead' <= LongestDeadline
    BY <1>0, <2>1, DeadlineAhead
  <2>5. late' \in 0..LateBound /\ pc' \in {"service", "exec", "halt"}
    BY <1>0, <2>1, Zenon
  <2>6. tma' \in 0..(ByteMod - 1) /\ tac' \in Rates \union {Off}
    BY <2>1 DEF TypeOK
  <2>7. TypeOK'
    BY <1>0, <2>2, <2>3, <2>4, <2>5, <2>6, Zenon DEF TypeOK, Readings
  <2>8. Paced'
    BY <1>0, <2>3, <2>4, Zenon DEF Paced
  <2> QED
    BY <2>7, <2>8
<1>2. CASE HaltStep
  <2> DEFINE d == since + 1
             ticks == Nearer = 0 \/ irq
             i == irq \/ (ticks /\ Overflows(d))
             r == RefCycle(ref)
  <2>1. /\ IF ticks THEN TimerTick(d) /\ PpuTick(d, Nearer)
           ELSE since' = d /\ ahead' = Nearer /\ div' = div /\ tima' = tima
                /\ divAcc' = divAcc /\ timaAcc' = timaAcc
        /\ Take(i, r)
        /\ late' = IF i THEN 0 ELSE IF ref.due /\ late < LateBound THEN late + 1 ELSE late
        /\ pc' \in IF i THEN {"service"} ELSE {"halt", "service"}
        /\ tma' = tma /\ tac' = tac
    BY <1>2 DEF HaltStep, PpuTick, regVars
  <2>2. irq' \in BOOLEAN /\ halted' \in BOOLEAN /\ ime' \in BOOLEAN /\ ref' \in Readings
    <3>1. i \in BOOLEAN
      BY <1>0
    <3>2. r \in Readings
      BY CycleReadings
    <3> HIDE DEF i, r
    <3> QED
      BY <2>1, <3>1, <3>2, TakeTypes
  <2>3. late' \in 0..LateBound
    <3>1. late < LateBound => late + 1 \in 0..LateBound
      BY <1>0
    <3> QED
      BY <1>0, <2>1, <3>1, Zenon
  <2>4. pc' \in {"service", "exec", "halt"} /\ pc' # "exec"
    BY <2>1
  <2>5. tma' \in 0..(ByteMod - 1) /\ tac' \in Rates \union {Off}
    BY <2>1 DEF TypeOK
  <2>6. pc = "halt" /\ ahead > 0 /\ since + ahead <= LongestDeadline /\ Nearer = ahead - 1
        /\ Nearer \in 0..LongestDeadline
    BY <1>0, <1>2 DEF HaltStep, Paced, Nearer
  <2>7. CASE ticks
    <3>1. /\ div' \in 0..(ByteMod - 1) /\ divAcc' \in 0..(DivPeriod - 1)
          /\ tima' \in 0..(ByteMod - 1) /\ timaAcc' \in Nat /\ since' = 0
      BY <1>0, <2>1, <2>7, TickTypes
    <3>2. ahead' \in 0..LongestDeadline /\ ahead' > 0 /\ 0 + ahead' <= LongestDeadline
      BY <2>1, <2>6, <2>7, DeadlineAhead
    <3>3. TypeOK'
      BY <1>0, <2>2, <2>3, <2>4, <2>5, <3>1, <3>2, Zenon DEF TypeOK, Readings
    <3>4. Paced'
      BY <2>4, <3>1, <3>2, Zenon DEF Paced
    <3> QED
      BY <3>3, <3>4
  <2>8. CASE ~ticks
    <3>1. /\ since' = d /\ ahead' = Nearer /\ div' = div /\ tima' = tima
          /\ divAcc' = divAcc /\ timaAcc' = timaAcc
      BY <2>1, <2>8
    <3>2. /\ d \in 0..(MaxBlock + LongestDeadline) /\ Nearer > 0
          /\ d + Nearer <= LongestDeadline
      BY <1>0, <2>6, <2>8
    <3> HIDE DEF d
    <3>3. TypeOK'
      BY <2>2, <2>3, <2>4, <2>5, <2>6, <3>1, <3>2, Zenon DEF TypeOK, Readings
    <3>4. Paced'
      BY <2>4, <3>1, <3>2, Zenon DEF Paced
    <3> QED
      BY <3>3, <3>4
  <2> QED
    BY <2>7, <2>8
<1>3. CASE Cycle
  <2>1. /\ pc = "exec" /\ since < MaxBlock /\ since' = since + 1 /\ ahead' = Nearer
        /\ ref' = RefCycle(ref)
        /\ pc' = pc /\ div' = div /\ tima' = tima /\ divAcc' = divAcc /\ timaAcc' = timaAcc
        /\ tma' = tma /\ tac' = tac /\ irq' = irq /\ halted' = halted /\ ime' = ime
        /\ late' = late
    BY <1>3 DEF Cycle, regVars, cpuVars
  <2>2. ref' \in Readings
    BY <2>1, CycleReadings
  <2>3. /\ since + 1 \in 0..(MaxBlock + LongestDeadline) /\ since + 1 <= MaxBlock
        /\ Nearer \in 0..LongestDeadline
    BY <1>0, <2>1 DEF Nearer
  <2>4. TypeOK'
    BY <2>1, <2>2, <2>3, Zenon DEF TypeOK, Readings
  <2>5. Paced'
    BY <2>1, <2>3, Zenon DEF Paced
  <2> QED
    BY <2>4, <2>5
<1>4. CASE EndBlock
  <2>1. /\ pc' = "service" /\ div' = div /\ tima' = tima /\ divAcc' = divAcc
        /\ timaAcc' = timaAcc /\ since' = since /\ tma' = tma /\ tac' = tac
        /\ irq' = irq /\ ahead' = ahead /\ ref' = ref /\ late' = late
    BY <1>4 DEF EndBlock, timerVars, regVars
  <2>2. halted' \in BOOLEAN /\ ime' \in BOOLEAN
    BY <1>4 DEF EndBlock, TypeOK
  <2> QED
    BY <2>1, <2>2 DEF TypeOK, Paced
<1>5. CASE WriteDiv
  <2>1. /\ div' = 0 /\ divAcc' = 0 /\ ref' = [ref EXCEPT !.div = 0, !.divPhase = 0]
        /\ pc' = pc /\ tima' = tima /\ timaAcc' = timaAcc /\ since' = since
        /\ tma' = tma /\ tac' = tac /\ irq' = irq /\ ahead' = ahead
        /\ halted' = halted /\ ime' = ime /\ late' = late
    BY <1>5 DEF WriteDiv, regVars, cpuVars
  <2>2. 0 \in 0..(ByteMod - 1) /\ 0 \in 0..(DivPeriod - 1)
    BY TimerAssumption
  <2>3. ref' \in Readings
    BY <1>0, <2>1, <2>2 DEF Readings
  <2>4. TypeOK'
    BY <2>1, <2>2, <2>3, Zenon DEF TypeOK, Readings
  <2>5. Paced'
    BY <2>1, Zenon DEF Paced
  <2> QED
    BY <2>4, <2>5
<1>6. ASSUME NEW v \in TmaValues, WriteTima(v)
      PROVE  TypeOK' /\ Paced'
  <2>1. /\ tima' = v /\ timaAcc' = 0 /\ ref' = [ref EXCEPT !.tima = v, !.timaPhase = 0]
        /\ pc' = pc /\ div' = div /\ divAcc' = divAcc /\ since' = since
        /\ tma' = tma /\ tac' = tac /\ irq' = irq /\ ahead' = ahead
        /\ halted' = halted /\ ime' = ime /\ late' = late
    BY <1>6 DEF WriteTima, regVars, cpuVars
  <2>2. v \in 0..(ByteMod - 1) /\ 0 \in Nat
    BY TimerAssumption
  <2>3. ref' \in Readings
    BY <1>0, <2>1, <2>2 DEF Readings
  <2>4. TypeOK'
    BY <2>1, <2>2, <2>3, Zenon DEF TypeOK, Readings
  <2>5. Paced'
    BY <2>1, Zenon DEF Paced
  <2> QED
    BY <2>4, <2>5
<1>7. ASSUME NEW v \in TmaValues, WriteTma(v)
      PROVE  TypeOK' /\ Paced'
  <2>1. v \in 0..(ByteMod - 1)
    BY TimerAssumption
  <2> QED
    BY <1>7, <2>1 DEF WriteTma, timerVars, cpuVars, TypeOK, Paced
<1>8. ASSUME NEW r \in Rates \union {Off}, WriteTac(r)
      PROVE  TypeOK' /\ Paced'
  BY <1>8 DEF WriteTac, timerVars, cpuVars, TypeOK, Paced
<1>9. CASE UNCHANGED vars
  BY <1>9 DEF vars, timerVars, regVars, cpuVars, TypeOK, Paced
<1> QED
  BY <1>1, <1>2, <1>3, <1>4, <1>5, <1>6, <1>7, <1>8, <1>9, Zenon DEF Next

\* The timer's registers keep their width, and `since` and `ahead`, by which the
\* dispatcher decides when to call ppu_tick, their bounds, whatever the guest stores.
THEOREM TimerTypes == Spec => []TypeOK
<1>1. Init => TypeOK /\ Paced
  <2> SUFFICES ASSUME Init PROVE TypeOK /\ Paced
    OBVIOUS
  <2>1. TypeOK
    BY InvInit DEF Inv
  <2> QED
    BY <2>1 DEF Init, Paced
<1>2. TypeOK /\ Paced /\ [Next]_vars => TypeOK' /\ Paced'
  BY NextTypes
<1> QED
  BY <1>1, <1>2, PTL DEF Spec
===============================================================================
