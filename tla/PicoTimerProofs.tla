--------------------------- MODULE PicoTimerProofs ---------------------------
(***************************************************************************)
(* Proofs about the timer of the RP2040, for a counter of any width, any   *)
(* periods, delays and latencies that PicoAssumption admits: the kernel    *)
(* counts every turn once, no arrival and no timer event is left to an     *)
(* alarm already passed, and no alarm fires while PLL_SYS stands still.    *)
(***************************************************************************)
EXTENDS PicoTimer, SequenceTheorems, FiniteSetTheorems, TLAPS

(***************************************************************************)
(* Arithmetic of a counter that wraps.                                     *)
(***************************************************************************)

LEMMA DivMod ==
  ASSUME NEW a \in Int, NEW n \in Nat \ {0}
  PROVE  a % n \in 0 .. n - 1 /\ a \div n \in Int /\ a = n * (a \div n) + (a % n)
  OBVIOUS

(* The remainder is the only one.                                          *)
LEMMA ModUnique ==
  ASSUME NEW a \in Int, NEW n \in Nat \ {0}, NEW q \in Int, NEW r \in 0 .. n - 1,
         a = n * q + r
  PROVE  a % n = r
  <1>1. a = n * (a \div n) + (a % n) /\ a % n \in 0 .. n - 1 /\ a \div n \in Int
    BY DivMod
  <1> DEFINE m == a % n
             d == a \div n
  <1>2. n * (q - d) = m - r
    BY <1>1
  <1>3. q = d
    <2>1. CASE q - d >= 1
      <3>1. n * (q - d) >= n
        BY <2>1, <1>1
      <3> QED
        BY <3>1, <1>2, <1>1
    <2>2. CASE q - d <= -1
      <3>1. n * (q - d) <= -n
        BY <2>2, <1>1
      <3> QED
        BY <3>1, <1>2, <1>1
    <2> QED
      BY <2>1, <2>2, <1>1
  <1> QED
    BY <1>3, <1>1

(* Whole turns do not count, a remainder may stand for its number, and     *)
(* the remainder by a divisor of the modulus does not see the modulus.     *)
LEMMA ModTurns ==
  ASSUME NEW a \in Int, NEW n \in Nat \ {0}, NEW k \in Int
  PROVE  (a + n * k) % n = a % n
  <1>1. a = n * (a \div n) + (a % n) /\ a % n \in 0 .. n - 1 /\ a \div n \in Int
    BY DivMod
  <1> DEFINE q == (a \div n) + k
  <1>2. a + n * k = n * q + (a % n) /\ q \in Int /\ a + n * k \in Int
    BY <1>1
  <1> QED
    BY <1>1, <1>2, ModUnique

LEMMA ModPlus ==
  ASSUME NEW a \in Int, NEW b \in Int, NEW n \in Nat \ {0}
  PROVE  /\ ((a % n) + b) % n = (a + b) % n
         /\ ((a % n) - b) % n = (a - b) % n
         /\ (b - (a % n)) % n = (b - a) % n
  <1> DEFINE k == a \div n
             r == a % n
  <1>1. a = n * k + r /\ r \in Int /\ k \in Int /\ -k \in Int
    BY DivMod
  <1>2. \A x, y \in Int : y = x + n * k => y % n = x % n
    <2> HIDE DEF k
    <2> TAKE x, y \in Int
    <2>1. (x + n * k) % n = x % n
      BY <1>1, ModTurns
    <2> QED
      BY <2>1
  <1> HIDE DEF k, r
  <1>3. /\ r + b \in Int /\ a + b \in Int /\ r - b \in Int /\ a - b \in Int
        /\ b - a \in Int /\ b - r \in Int
        /\ a + b = (r + b) + n * k /\ a - b = (r - b) + n * k /\ b - r = (b - a) + n * k
    BY <1>1
  <1>4. (a + b) % n = (r + b) % n /\ (a - b) % n = (r - b) % n
    BY <1>2, <1>3
  <1>5. (b - r) % n = (b - a) % n
    BY <1>2, <1>3
  <1> QED
    BY <1>4, <1>5 DEF r

LEMMA ModDivisor ==
  ASSUME NEW a \in Int, NEW n \in Nat \ {0}, NEW k \in Nat \ {0}
  PROVE  (a % (k * n)) % n = a % n
  <1> DEFINE m == k * n
             d == a \div m
             r == a % m
  <1>1. m \in Nat \ {0}
    <2>1. k * n \in Nat
      OBVIOUS
    <2>2. k * n # 0
      OBVIOUS
    <2> QED
      BY <2>1, <2>2
  <1>2. a = m * d + r /\ r \in Int /\ d \in Int
    <2> HIDE DEF m
    <2> QED
      BY <1>1, DivMod
  <1>3. a = r + n * (k * d) /\ k * d \in Int
    <2> HIDE DEF d, r
    <2> QED
      BY <1>2
  <1>4. (r + n * (k * d)) % n = r % n
    BY <1>2, <1>3, ModTurns
  <1> QED
    BY <1>3, <1>4

(* One less, and the range of small numbers.                               *)
LEMMA ModSmall ==
  ASSUME NEW n \in Nat \ {0}, NEW a \in Int
  PROVE  /\ a \in 0 .. n - 1 => a % n = a
         /\ a \in -n .. -1 => a % n = a + n
         /\ a \in n .. 2 * n - 1 => a % n = a - n
  <1>1. a \in 0 .. n - 1 => a % n = a
    <2> HAVE a \in 0 .. n - 1
    <2> QED
      BY ModUnique, a = n * 0 + a, 0 \in Int
  <1>2. a \in -n .. -1 => a % n = a + n
    <2> HAVE a \in -n .. -1
    <2> QED
      BY ModUnique, a = n * (-1) + (a + n), -1 \in Int
  <1>3. a \in n .. 2 * n - 1 => a % n = a - n
    <2> HAVE a \in n .. 2 * n - 1
    <2> QED
      BY ModUnique, a = n * 1 + (a - n), 1 \in Int
  <1> QED
    BY <1>1, <1>2, <1>3

LEMMA ModStep ==
  ASSUME NEW a \in Int, NEW n \in Nat \ {0}
  PROVE  /\ (a - 1) % n = IF a % n = 0 THEN n - 1 ELSE (a % n) - 1
         /\ (a + 1) % n = IF a % n = n - 1 THEN 0 ELSE (a % n) + 1
  <1> DEFINE r == a % n
  <1>1. r \in 0 .. n - 1
    BY DivMod
  <1>2. (r + (-1)) % n = (a + (-1)) % n /\ (r + 1) % n = (a + 1) % n
    <2>1. \A b \in Int : (r + b) % n = (a + b) % n
      BY ModPlus
    <2> HIDE DEF r
    <2> QED
      BY <2>1
  <1> HIDE DEF r
  <1>3. (r + (-1)) % n = IF r = 0 THEN n - 1 ELSE r - 1
    <2>1. CASE r = 0
      BY <2>1, <1>1, ModSmall, r + (-1) \in -n .. -1
    <2>2. CASE r # 0
      <3>1. r + (-1) \in 0 .. n - 1 /\ r + (-1) = r - 1 /\ r + (-1) \in Int
        BY <2>2, <1>1
      <3> QED
        BY <2>2, <3>1, ModSmall
    <2> QED
      BY <2>1, <2>2
  <1>4. (r + 1) % n = IF r = n - 1 THEN 0 ELSE r + 1
    <2>1. CASE r = n - 1
      BY <2>1, <1>1, ModSmall, r + 1 \in n .. 2 * n - 1
    <2>2. CASE r # n - 1
      BY <2>2, <1>1, ModSmall, r + 1 \in 0 .. n - 1
    <2> QED
      BY <2>1, <2>2
  <1>5. a - 1 = a + (-1)
    OBVIOUS
  <1> QED
    BY <1>2, <1>3, <1>4, <1>5 DEF r

LEMMA Sizes ==
  /\ Turn \in Nat \ {0} /\ Raw \in Nat \ {0} /\ Raw >= 4 * Turn
  /\ \E k \in Nat \ {0} : Raw = k * Turn
  /\ Raw \div 2 \in Nat /\ 2 * (Raw \div 2) <= Raw /\ Raw <= 2 * (Raw \div 2) + 1
  /\ Raw \div 2 >= 2 * Turn
  /\ MaxLatency \in Nat /\ LockUs \in Nat /\ WakeUs \in Nat /\ LockUs + MaxLatency < WakeUs
  /\ 3 * MaxLatency + LockUs < Turn
  <1>1. PICK k \in 4 .. 8 : Raw = k * Turn
    BY PicoAssumption
  <1>2. /\ Turn \in Nat \ {0} /\ MaxLatency \in Nat /\ LockUs \in Nat /\ WakeUs \in Nat
        /\ LockUs + MaxLatency < WakeUs /\ 3 * MaxLatency + LockUs < Turn
    BY PicoAssumption
  <1>3. Raw \in Nat \ {0} /\ Raw >= 4 * Turn
    <2>1. \/ Raw = 4 * Turn \/ Raw = 5 * Turn \/ Raw = 6 * Turn \/ Raw = 7 * Turn
          \/ Raw = 8 * Turn
      BY <1>1
    <2> QED
      BY <1>2, <2>1
  <1>4. Raw \div 2 \in Nat /\ 2 * (Raw \div 2) <= Raw /\ Raw <= 2 * (Raw \div 2) + 1
    BY <1>3
  <1>5. Raw \div 2 >= 2 * Turn
    BY <1>2, <1>3, <1>4
  <1>6. \E q \in Nat \ {0} : Raw = q * Turn
    BY <1>1
  <1> QED
    BY <1>2, <1>3, <1>4, <1>5, <1>6

LEMMA Remainders ==
  ASSUME NEW n \in {Raw, Turn}
  PROVE  \A a, b \in Int : /\ ((a % n) + b) % n = (a + b) % n
                          /\ ((a % n) - b) % n = (a - b) % n
                          /\ (b - (a % n)) % n = (b - a) % n
                          /\ a % n \in 0 .. n - 1
  <1>1. n \in Nat \ {0}
    BY Sizes
  <1> QED
    BY <1>1, ModPlus, DivMod

LEMMA Small ==
  ASSUME NEW a \in Int
  PROVE  /\ a \in 0 .. Raw - 1 => a % Raw = a
         /\ a \in -Raw .. -1 => a % Raw = a + Raw
  <1>1. Raw \in Nat \ {0}
    BY Sizes
  <1> QED
    BY <1>1, ModSmall

(* A tick brings every value nearer by one, and the end of the turn.       *)
LEMMA DistStep ==
  ASSUME NEW r \in 0 .. Raw - 1, NEW x \in Int
  PROVE  /\ (x - r) % Raw \in 0 .. Raw - 1
         /\ (x - ((r + 1) % Raw)) % Raw =
              IF (x - r) % Raw = 0 THEN Raw - 1 ELSE ((x - r) % Raw) - 1
  <1>1. (x - ((r + 1) % Raw)) % Raw = (x - (r + 1)) % Raw
    BY Remainders, r + 1 \in Int
  <1>2. (x - (r + 1)) % Raw = ((x - r) - 1) % Raw
    BY Sizes
  <1>3. ((x - r) - 1) % Raw = IF (x - r) % Raw = 0 THEN Raw - 1 ELSE ((x - r) % Raw) - 1
    <2> DEFINE a == x - r
    <2>1. a \in Int
      OBVIOUS
    <2> HIDE DEF a
    <2>2. (a - 1) % Raw = IF a % Raw = 0 THEN Raw - 1 ELSE (a % Raw) - 1
      BY <2>1, Sizes, ModStep
    <2> QED
      BY <2>2 DEF a
  <1>4. (x - r) % Raw \in 0 .. Raw - 1
    BY Sizes, DivMod
  <1> QED
    BY <1>1, <1>2, <1>3, <1>4

LEMMA TurnStep ==
  ASSUME NEW r \in 0 .. Raw - 1, NEW o \in 0 .. Raw - 1
  PROVE  /\ (r - o) % Turn \in 0 .. Turn - 1
         /\ (((r + 1) % Raw) - o) % Turn =
              IF (r - o) % Turn = Turn - 1 THEN 0 ELSE ((r - o) % Turn) + 1
  <1>1. PICK k \in Nat \ {0} : Raw = k * Turn
    BY Sizes
  <1> DEFINE m == (r + 1) % Raw
             a == r - o
  <1>2. m % Turn = (r + 1) % Turn
    <2>1. Turn \in Nat \ {0} /\ r + 1 \in Int
      BY Sizes
    <2> QED
      BY <1>1, <2>1, ModDivisor
  <1>3. m \in Int /\ a \in Int /\ r + 1 \in Int /\ o \in Int
    BY Sizes, Remainders
  <1> HIDE DEF m
  <1>4. (m - o) % Turn = ((m % Turn) - o) % Turn
    BY <1>3, Remainders
  <1>5. (((r + 1) % Turn) - o) % Turn = ((r + 1) - o) % Turn
    BY <1>3, Remainders
  <1>6. (r + 1) - o = a + 1
    OBVIOUS
  <1> HIDE DEF a
  <1>7. (a + 1) % Turn = IF a % Turn = Turn - 1 THEN 0 ELSE (a % Turn) + 1
    BY <1>3, Sizes, ModStep
  <1>8. a % Turn \in 0 .. Turn - 1
    BY <1>3, Sizes, DivMod
  <1> QED
    BY <1>2, <1>4, <1>5, <1>6, <1>7, <1>8 DEF m, a

(* An alarm fires at a distance of one.                                    *)
LEMMA FireDist ==
  ASSUME NEW r \in 0 .. Raw - 1, NEW x \in 0 .. Raw - 1
  PROVE  x = (r + 1) % Raw <=> (x - r) % Raw = 1
  <1>1. Raw >= 4
    BY Sizes
  <1>2. (r + 1) % Raw = IF r = Raw - 1 THEN 0 ELSE r + 1
    <2>1. r % Raw = r /\ r \in Int /\ Raw \in Nat \ {0}
      BY Sizes, Small
    <2>2. (r + 1) % Raw = IF r % Raw = Raw - 1 THEN 0 ELSE (r % Raw) + 1
      BY <2>1, ModStep
    <2> QED
      BY <2>1, <2>2
  <1>3. (x - r) % Raw = IF x >= r THEN x - r ELSE (x - r) + Raw
    <2>1. CASE x >= r
      BY <2>1, Sizes, Small, x - r \in 0 .. Raw - 1, x - r \in Int
    <2>2. CASE x < r
      BY <2>2, Sizes, Small, x - r \in -Raw .. -1, x - r \in Int
    <2> QED
      BY <2>1, <2>2
  <1> QED
    BY <1>1, <1>2, <1>3, Sizes

(* A value written r and some ticks is so far from r.                      *)
LEMMA DistOf ==
  ASSUME NEW r \in 0 .. Raw - 1, NEW d \in Int
  PROVE  /\ (r + d) % Raw \in 0 .. Raw - 1
         /\ (((r + d) % Raw) - r) % Raw = d % Raw
         /\ d \in 0 .. Raw - 1 => d % Raw = d
  <1>1. r + d \in Int /\ r \in Int /\ (r + d) - r = d
    OBVIOUS
  <1>2. (r + d) % Raw \in 0 .. Raw - 1 /\ (((r + d) % Raw) - r) % Raw = ((r + d) - r) % Raw
    BY <1>1, Remainders
  <1> QED
    BY <1>1, <1>2, Small

(* The alarm of ArmOverflowAlarm ends the turn.                            *)
LEMMA TurnEnd ==
  ASSUME NEW r \in 0 .. Raw - 1, NEW o \in 0 .. Raw - 1
  PROVE  /\ OverflowAlarm(r, o) \in 0 .. Raw - 1
         /\ (OverflowAlarm(r, o) - r) % Raw = Turn - ((r - o) % Turn)
  <1> DEFINE e == (r - o) % Turn
             d == Turn - e
  <1>1. e \in 0 .. Turn - 1
    BY TurnStep
  <1>2. OverflowAlarm(r, o) = (r + d) % Raw
    <2>1. (r + Turn - ((r - o) % Turn)) = r + d
      BY <1>1, Sizes
    <2> QED
      BY <2>1 DEF OverflowAlarm
  <1> HIDE DEF e
  <1>3. d \in 0 .. Raw - 1
    BY <1>1, Sizes
  <1> QED
    BY <1>2, <1>3, DistOf, d \in Int DEF e

(***************************************************************************)
(* (INT32)(a - b).                                                         *)
(***************************************************************************)

LEMMA SignedOf ==
  ASSUME NEW x \in Int, NEW r \in Int
  PROVE  /\ Signed(x, r) \in Int
         /\ Signed(x, r) >= Raw \div 2 - Raw /\ Signed(x, r) < Raw \div 2
         /\ Signed(x, r) > 0 => (x - r) % Raw = Signed(x, r)
         /\ (x - r) % Raw = Signed(x, r) % Raw
  <1> DEFINE d == (x - r) % Raw
  <1>1. d \in 0 .. Raw - 1
    BY Sizes, DivMod
  <1>2. Signed(x, r) = IF d >= Raw \div 2 THEN d - Raw ELSE d
    BY DEF Signed
  <1> HIDE DEF d
  <1>3. d >= Raw \div 2 => d - Raw \in -Raw .. -1 /\ (d - Raw) % Raw = d
    <2> HAVE d >= Raw \div 2
    <2>1. d - Raw \in -Raw .. -1 /\ (d - Raw) + Raw = d
      BY <1>1, Sizes
    <2> QED
      BY <2>1, Sizes, ModSmall
  <1>4. d % Raw = d
    BY <1>1, Sizes, ModSmall
  <1> QED
    BY <1>1, <1>2, <1>3, <1>4, Sizes DEF d

LEMMA SignedIs ==
  ASSUME NEW x \in Int, NEW r \in Int, NEW s \in Int,
         s >= Raw \div 2 - Raw, s < Raw \div 2, (x - r) % Raw = s % Raw
  PROVE  Signed(x, r) = s
  <1> DEFINE d == (x - r) % Raw
  <1>1. d = IF s >= 0 THEN s ELSE s + Raw
    <2>1. CASE s >= 0
      BY <2>1, Sizes, Small, s \in 0 .. Raw - 1
    <2>2. CASE s < 0
      BY <2>2, Sizes, Small, s \in -Raw .. -1
    <2> QED
      BY <2>1, <2>2
  <1>2. Signed(x, r) = IF d >= Raw \div 2 THEN d - Raw ELSE d
    BY DEF Signed
  <1> HIDE DEF d
  <1> QED
    BY <1>1, <1>2, Sizes

LEMMA SignedStep ==
  ASSUME NEW x \in Int, NEW r \in 0 .. Raw - 1, Signed(x, r) > Raw \div 2 - Raw
  PROVE  Signed(x, (r + 1) % Raw) = Signed(x, r) - 1
  <1> DEFINE s == Signed(x, r)
             d == (x - r) % Raw
             e == (x - ((r + 1) % Raw)) % Raw
  <1>1. s = IF d >= Raw \div 2 THEN d - Raw ELSE d
    BY DEF Signed
  <1>2. Signed(x, (r + 1) % Raw) = IF e >= Raw \div 2 THEN e - Raw ELSE e
    BY DEF Signed
  <1>3. d \in 0 .. Raw - 1 /\ e = IF d = 0 THEN Raw - 1 ELSE d - 1
    BY DistStep
  <1>4. s > Raw \div 2 - Raw
    OBVIOUS
  <1> HIDE DEF s, d, e
  <1>5. (IF e >= Raw \div 2 THEN e - Raw ELSE e) = s - 1
    BY <1>1, <1>3, <1>4, Sizes
  <1> QED
    BY <1>2, <1>5 DEF s

(* Two times are as far apart as their distances from a third are.         *)
LEMMA SignedBetween ==
  ASSUME NEW x \in Int, NEW y \in Int, NEW r \in Int,
         Signed(x, r) - Signed(y, r) >= Raw \div 2 - Raw,
         Signed(x, r) - Signed(y, r) < Raw \div 2
  PROVE  Signed(x, y) = Signed(x, r) - Signed(y, r)
  <1> DEFINE s == Signed(x, r)
             t == Signed(y, r)
  <1>1. s \in Int /\ t \in Int /\ (x - r) % Raw = s % Raw /\ (y - r) % Raw = t % Raw
    BY SignedOf
  <1>2. (x - y) % Raw = (s - t) % Raw
    <2> DEFINE u == x - r
               v == y - r
    <2>3. u \in Int /\ v \in Int /\ u - v = x - y
      OBVIOUS
    <2> HIDE DEF s, t, u, v
    <2>4. u % Raw = s % Raw /\ v % Raw = t % Raw
      BY <1>1 DEF u, v
    <2>5. (u - v) % Raw = (u - (t % Raw)) % Raw
      BY <2>3, <2>4, Remainders
    <2>6. (u - (t % Raw)) % Raw = (u - t) % Raw
      BY <2>3, <1>1, Remainders
    <2>7. (u - t) % Raw = ((s % Raw) - t) % Raw
      BY <2>3, <2>4, <1>1, Remainders
    <2>8. ((s % Raw) - t) % Raw = (s - t) % Raw
      BY <1>1, Remainders
    <2> QED
      BY <2>3, <2>5, <2>6, <2>7, <2>8
  <1>3. s - t \in Int
    BY <1>1
  <1> QED
    BY <1>2, <1>3, SignedIs

(***************************************************************************)
(* The invariant.                                                          *)
(***************************************************************************)

(* Ticks until the counter has value x, and since the turn began.          *)
Ahead(x) == (x - raw) % Raw
Elapsed == ActualTime(raw)

Steps ==
  /\ kpc \in {"out", "overflow", "time", "serve", "set", "arm", "check", "disarm", "clear",
              "flags"}
  /\ epc \in {"out", "test", "arm", "check"}
  /\ tpc \in {"boot", "origin", "idle", "arm", "check", "plan", "short", "stop", "raise",
              "rest"}

(* Thread level goes on only when nothing above it runs, and masks the     *)
(* interrupts from then on; nothing is announced that nobody will take.    *)
Levels ==
  /\ tpc # "idle" => epc = "out" /\ kpc = "out" /\ ~softPending
  /\ Booting => armed = {} /\ nvic = {}
  /\ overflow \/ comparator => softPending \/ kpc # "out"
  /\ pll = (tpc \notin {"stop", "raise"})
  /\ busyFor <= (IF tpc = "raise" THEN LockUs ELSE MaxLatency)
  /\ ArmsAt("arm") \/ ArmsAt("check") => queue # <<>>

TypeInv == TypeOK /\ Steps /\ Levels

(* What is due has been waiting no longer than this: for its handler, for  *)
(* PLL_SYS to lock, and for the rest of a sleep to end.                    *)
WaitBefore ==
  IF tpc \in {"plan", "stop"} THEN 0
  ELSE IF tpc = "raise" THEN MaxLatency
  ELSE IF tpc \in {"short", "rest"} THEN MaxLatency + LockUs
  ELSE 2 * MaxLatency + LockUs

Waited == busyFor + WaitBefore

(* Alarm 1 is at the end of the turn, or has fired and the turn it ended   *)
(* is the only one not yet counted.                                        *)
ClockInv ==
  /\ ~Booting => 1 \in armed \cup nvic
  /\ 1 \in armed => 1 \notin nvic /\ alarm[1] = alarmTime[1] /\ Ahead(alarm[1]) = Turn - Elapsed
  /\ 1 \in nvic => ~overflow
  /\ overflow \/ 1 \in nvic => Elapsed <= Waited
  /\ TurnsCounted

(* Where alarm 0 is, or is to be, when the kernel has the turns right.     *)
Meets(time) == Ahead(time) = togo % Raw

Announced == overflow \/ comparator \/ nvic \cap {0, 1} # {}

ArrivalInv ==
  /\ target <= Raw \div 2 - 2
  /\ target >= IF kpc \in {"time", "serve"} THEN -Turn ELSE 0
  /\ 0 \in armed => alarm[0] = alarmTime[0]
  /\ kpc = "arm" => overflow \/ Meets(kraw + (target - ActualTime(kraw)))
  /\ kpc = "check" => overflow \/ (Meets(alarmTime[0]) /\ (togo > 0 => 0 \in armed))
  /\ kpc \in {"clear", "flags", "out"} /\ ~Booting /\ ~Announced =>
       togo > 0 /\ (target >= Turn \/ (0 \in armed /\ Meets(alarm[0])))

(* Ticks until an event is due.                                            *)
Left(i) == Signed(queue[i].time, raw)

EventInv ==
  /\ \A i, j \in DOMAIN queue : i <= j => Left(i) <= Left(j)
  /\ \A i \in DOMAIN queue : Left(i) < Raw \div 2 - MaxLatency /\ -Left(i) <= Waited
  /\ 2 \in armed => alarm[2] = alarmTime[2]
  /\ ArmsAt("check") => /\ alarmTime[2] = queue[1].time
                        /\ Left(1) > 0 => 2 \in armed
  /\ EventCovered

(* While PLL_SYS stands still, alarm 3 comes early enough for it to lock   *)
(* before any other.                                                       *)
SleepInv ==
  /\ tpc = "plan" => (raw - snow) % Raw <= busyFor
  /\ tpc = "stop" => 3 \in armed \cup nvic
  /\ tpc = "stop" /\ 3 \in armed => Ahead(alarm[3]) >= 1
  /\ \A n \in armed \cap {0, 1, 2} :
       /\ tpc = "stop" /\ 3 \in armed => Ahead(alarm[n]) >= Ahead(alarm[3]) + WakeUs
       /\ tpc = "stop" /\ 3 \notin armed => Ahead(alarm[n]) >= WakeUs - busyFor
       /\ tpc = "raise" => Ahead(alarm[n]) >= WakeUs - (MaxLatency + busyFor)

PicoInv == TypeInv /\ ClockInv /\ ArrivalInv /\ EventInv /\ SleepInv
(***************************************************************************)
(* The queue of the timer events, and the first alarm.                     *)
(***************************************************************************)

(* Two sequences one behind the other.                                     *)
Chain(c, s, t, S) ==
  /\ c \in Seq(S) /\ Len(c) = Len(s) + Len(t)
  /\ \A i \in 1 .. Len(s) : c[i] = s[i]
  /\ \A i \in 1 .. Len(t) : c[Len(s) + i] = t[i]

LEMMA Chained ==
  ASSUME NEW S, NEW s \in Seq(S), NEW t \in Seq(S)
  PROVE  Chain(s \o t, s, t, S)
  <1> DEFINE c == s \o t
             m == Len(s)
             n == Len(t)
  <1>1. /\ c \in Seq(S) /\ Len(c) = m + n
        /\ \A i \in 1 .. m + n : c[i] = IF i <= m THEN s[i] ELSE t[i - m]
    BY ConcatProperties
  <1>2. m \in Nat /\ n \in Nat
    OBVIOUS
  <1> HIDE DEF c, m, n
  <1>3. \A i \in 1 .. m : c[i] = s[i]
    BY <1>1, <1>2
  <1>4. ASSUME NEW i \in 1 .. n
        PROVE  c[m + i] = t[i]
    <2>1. m + i \in 1 .. m + n /\ ~(m + i <= m) /\ (m + i) - m = i
      BY <1>2
    <2> QED
      BY <2>1, <1>1
  <1> QED
    BY <1>1, <1>3, <1>4 DEF c, m, n, Chain

(* A sequence with an element put in behind the first n.                   *)
InsertedAt(r, q, n, x, S) ==
  /\ r \in Seq(S) /\ Len(r) = Len(q) + 1
  /\ \A i \in 1 .. n : r[i] = q[i]
  /\ r[n + 1] = x
  /\ \A i \in n + 1 .. Len(q) : r[i + 1] = q[i]

LEMMA InsertAt ==
  ASSUME NEW S, NEW q \in Seq(S), NEW x \in S, NEW n \in 0 .. Len(q)
  PROVE  InsertedAt(SubSeq(q, 1, n) \o <<x>> \o SubSeq(q, n + 1, Len(q)), q, n, x, S)
  <1> DEFINE a == SubSeq(q, 1, n)
             b == <<x>>
             c == SubSeq(q, n + 1, Len(q))
             ab == a \o b
             r == ab \o c
  <1>0. Len(q) \in Nat /\ n \in Nat /\ n + 1 \in Nat /\ Len(q) - n \in Nat /\ n <= Len(q)
    OBVIOUS
  <1>1. a \in Seq(S) /\ Len(a) = n /\ \A i \in 1 .. n : a[i] = q[i]
    BY <1>0, SubSeqProperties
  <1>2. /\ c \in Seq(S) /\ Len(c) = Len(q) - n
        /\ \A i \in 1 .. Len(q) - n : c[i] = q[n + i]
    OBVIOUS
  <1>3. b \in Seq(S) /\ Len(b) = 1 /\ b[1] = x
    OBVIOUS
  <1> HIDE DEF a, b, c
  <1>4. /\ ab \in Seq(S) /\ Len(ab) = n + 1
        /\ \A i \in 1 .. n : ab[i] = a[i]
        /\ \A i \in 1 .. 1 : ab[n + i] = b[i]
    <2>1. Chain(ab, a, b, S)
      BY <1>1, <1>3, Chained
    <2> HIDE DEF ab
    <2> QED
      BY <2>1, <1>1, <1>3 DEF Chain
  <1> HIDE DEF ab
  <1>5. /\ r \in Seq(S) /\ Len(r) = (n + 1) + (Len(q) - n)
        /\ \A i \in 1 .. n + 1 : r[i] = ab[i]
        /\ \A i \in 1 .. Len(q) - n : r[(n + 1) + i] = c[i]
    <2>1. Chain(r, ab, c, S)
      BY <1>2, <1>4, Chained
    <2> HIDE DEF r
    <2> QED
      BY <2>1, <1>2, <1>4 DEF Chain
  <1> HIDE DEF r
  <1>6. ASSUME NEW i \in n + 1 .. Len(q)
        PROVE  r[i + 1] = q[i]
    <2>1. i - n \in 1 .. Len(q) - n /\ (n + 1) + (i - n) = i + 1 /\ n + (i - n) = i
      BY <1>0
    <2>2. r[(n + 1) + (i - n)] = c[i - n]
      BY <2>1, <1>5
    <2>3. c[i - n] = q[n + (i - n)]
      BY <2>1, <1>2
    <2> QED
      BY <2>1, <2>2, <2>3
  <1>7. r[n + 1] = x /\ Len(r) = Len(q) + 1
    BY <1>0, <1>3, <1>4, <1>5
  <1>8. \A i \in 1 .. n : r[i] = q[i]
    BY <1>0, <1>1, <1>4, <1>5
  <1> QED
    BY <1>5, <1>6, <1>7, <1>8 DEF r, ab, a, b, c, InsertedAt

(* A sequence without its element i.                                       *)
RemovedAt(r, q, i, S) ==
  /\ r \in Seq(S) /\ Len(r) = Len(q) - 1
  /\ \A j \in 1 .. i - 1 : r[j] = q[j]
  /\ \A j \in i .. Len(q) - 1 : r[j] = q[j + 1]

LEMMA RemoveAt ==
  ASSUME NEW S, NEW q \in Seq(S), NEW i \in 1 .. Len(q)
  PROVE  RemovedAt(SubSeq(q, 1, i - 1) \o SubSeq(q, i + 1, Len(q)), q, i, S)
  <1> DEFINE a == SubSeq(q, 1, i - 1)
             c == SubSeq(q, i + 1, Len(q))
             r == a \o c
  <1>0. Len(q) \in Nat /\ i \in Nat /\ i - 1 \in Nat /\ Len(q) - i \in Nat /\ i <= Len(q)
    OBVIOUS
  <1>1. a \in Seq(S) /\ Len(a) = i - 1 /\ \A j \in 1 .. i - 1 : a[j] = q[j]
    OBVIOUS
  <1>2. c \in Seq(S) /\ Len(c) = Len(q) - i /\ \A j \in 1 .. Len(q) - i : c[j] = q[i + j]
    OBVIOUS
  <1> HIDE DEF a, c
  <1>3. /\ r \in Seq(S) /\ Len(r) = (i - 1) + (Len(q) - i)
        /\ \A j \in 1 .. i - 1 : r[j] = a[j]
        /\ \A j \in 1 .. Len(q) - i : r[(i - 1) + j] = c[j]
    <2>1. Chain(r, a, c, S)
      BY <1>1, <1>2, Chained
    <2> HIDE DEF r
    <2> QED
      BY <2>1, <1>1, <1>2 DEF Chain
  <1> HIDE DEF r
  <1>4. ASSUME NEW j \in i .. Len(q) - 1
        PROVE  r[j] = q[j + 1]
    <2>1. /\ j - (i - 1) \in 1 .. Len(q) - i /\ (i - 1) + (j - (i - 1)) = j
          /\ i + (j - (i - 1)) = j + 1
      BY <1>0
    <2>2. r[(i - 1) + (j - (i - 1))] = c[j - (i - 1)]
      BY <2>1, <1>3
    <2>3. c[j - (i - 1)] = q[i + (j - (i - 1))]
      BY <2>1, <1>2
    <2> QED
      BY <2>1, <2>2, <2>3
  <1>5. Len(r) = Len(q) - 1 /\ \A j \in 1 .. i - 1 : r[j] = q[j]
    BY <1>0, <1>1, <1>3
  <1> QED
    BY <1>3, <1>4, <1>5 DEF r, a, c, RemovedAt

(* Behind how many places an event due at time t is put.                   *)
Behind(i, t) ==
  /\ i = Len(queue) \/ Signed(queue[i + 1].time, t) > 0
  /\ \A j \in 1 .. i : Signed(queue[j].time, t) <= 0

(* The members of T in 1 .. n are k + 1, the first, and others behind it.   *)
LEMMA FirstPlace ==
  ASSUME NEW n \in Nat, NEW T, T \subseteq 1 .. n
  PROVE  \E k \in 0 .. n : /\ k = n \/ k + 1 \in T
                           /\ \A j \in 1 .. k : j \notin T
  <1> DEFINE Before == {i \in 1 .. n : \A j \in 1 .. i : j \notin T}
             k == Cardinality(Before)
  <1>1. IsFiniteSet(1 .. n) /\ Cardinality(1 .. n) = n
    BY FS_Interval
  <1>2. IsFiniteSet(Before) /\ k \in Nat /\ k <= n
    BY <1>1, FS_Subset, FS_CardinalityType
  <1>3. ASSUME NEW i \in Before
        PROVE  i <= k
    <2>1. 1 .. i \subseteq Before
      OBVIOUS
    <2>2. Cardinality(1 .. i) = i
      BY FS_Interval
    <2> QED
      BY <2>1, <2>2, <1>2, FS_Subset
  <1>4. ASSUME NEW i \in 1 .. n, i \notin Before
        PROVE  k < i
    <2>1. Before \subseteq 1 .. i - 1
      BY <1>4
    <2>2. IsFiniteSet(1 .. i - 1) /\ Cardinality(1 .. i - 1) = i - 1
      BY FS_Interval
    <2>3. k <= i - 1
      BY <2>1, <2>2, FS_Subset
    <2> QED
      BY <2>3, <1>2
  <1>5. \A j \in 1 .. k : j \notin T
    BY <1>2, <1>4
  <1>6. k = n \/ k + 1 \in T
    <2> SUFFICES ASSUME k < n
                 PROVE  k + 1 \in T
      BY <1>2
    <2>1. k + 1 \in 1 .. n /\ k + 1 \notin Before
      BY <1>2, <1>3
    <2>2. PICK j \in 1 .. k + 1 : j \in T
      BY <2>1
    <2> QED
      BY <2>2, <1>5, <1>2
  <1> HIDE DEF k
  <1> QED
    BY <1>2, <1>5, <1>6

LEMMA QueueIs ==
  ASSUME TypeOK
  PROVE  /\ queue \in Seq([event : Event, time : 0 .. Raw - 1])
         /\ Len(queue) \in Nat /\ Len(queue) <= NbNode
         /\ DOMAIN queue = 1 .. Len(queue) /\ (queue = <<>> <=> Len(queue) = 0)
         /\ \A i \in 1 .. Len(queue) : queue[i].time \in 0 .. Raw - 1
  <1> DEFINE Node == [event : Event, time : 0 .. Raw - 1]
  <1>1. queue \in Seq(Node) /\ Len(queue) <= NbNode
    BY DEF TypeOK
  <1>2. \A x \in Node : x.time \in 0 .. Raw - 1
    OBVIOUS
  <1> HIDE DEF Node
  <1>3. /\ Len(queue) \in Nat /\ DOMAIN queue = 1 .. Len(queue)
        /\ \A i \in 1 .. Len(queue) : queue[i] \in Node
        /\ queue = <<>> <=> Len(queue) = 0
    BY <1>1
  <1> QED
    BY <1>1, <1>2, <1>3 DEF Node

(* There is such a place: in front of the first event due after t.         *)
LEMMA PlaceExists ==
  ASSUME TypeOK, NEW t \in Int
  PROVE  \E i \in 0 .. Len(queue) : Behind(i, t)
  <1> DEFINE s(i) == Signed(queue[i].time, t)
             T == {i \in 1 .. Len(queue) : s(i) > 0}
  <1>1. Len(queue) \in Nat
    BY QueueIs
  <1>2. \A i \in 1 .. Len(queue) : s(i) \in Int
    <2>1. \A i \in 1 .. Len(queue) : queue[i].time \in Int
      BY QueueIs
    <2> QED
      BY <2>1, SignedOf
  <1> HIDE DEF s
  <1>3. T \subseteq 1 .. Len(queue)
    OBVIOUS
  <1>4. PICK i \in 0 .. Len(queue) : /\ i = Len(queue) \/ i + 1 \in T
                                    /\ \A j \in 1 .. i : j \notin T
    <2> HIDE DEF T
    <2> QED
      BY <1>1, <1>3, FirstPlace
  <1>5. /\ i = Len(queue) \/ s(i + 1) > 0
        /\ \A j \in 1 .. i : s(j) <= 0
    BY <1>1, <1>2, <1>4
  <1> QED
    BY <1>5 DEF Behind, s

(* FirstAlarm comes no later than any alarm that is armed.                 *)
LEMMA FirstAlarmIs ==
  ASSUME TypeOK
  PROVE  /\ FirstAlarm \in Int
         /\ FirstAlarm < Raw \div 2
         /\ \A n \in armed \cap {0, 1, 2} : FirstAlarm <= Signed(alarmTime[n], snow)
  <1> DEFINE last == Raw \div 2 - 1
             f(n) == Signed(alarmTime[n], snow)
             left == {f(n) : n \in armed \cap {0, 1, 2}}
             m(n) == IF n \in armed THEN f(n) ELSE last
  <1>1. last \in Int /\ \A n \in 0 .. 2 : f(n) \in Int /\ f(n) <= last
    <2>0. snow \in Int /\ \A n \in 0 .. 2 : alarmTime[n] \in Int
      BY DEF TypeOK
    <2>1. \A n \in 0 .. 2 : Signed(alarmTime[n], snow) \in Int
                            /\ Signed(alarmTime[n], snow) < Raw \div 2
      BY <2>0, SignedOf
    <2> QED
      BY <2>1, Sizes
  <1>2. FirstAlarm = CHOOSE x \in left \cup {last} : \A y \in left : x <= y
    BY DEF FirstAlarm
  <1> HIDE DEF last, f
  <1>3. \E x \in left \cup {last} : \A y \in left : x <= y
    <2>1. \A n \in 0 .. 2 : m(n) \in left \cup {last} /\ m(n) \in Int
      BY <1>1
    <2>2. \A y \in left : y = m(0) \/ y = m(1) \/ y = m(2)
      OBVIOUS
    <2>3. 0 \in 0 .. 2 /\ 1 \in 0 .. 2 /\ 2 \in 0 .. 2
      OBVIOUS
    <2> HIDE DEF m, left
    <2>4. CASE m(0) <= m(1) /\ m(0) <= m(2)
      BY <2>1, <2>2, <2>3, <2>4
    <2>5. CASE m(1) <= m(0) /\ m(1) <= m(2)
      BY <2>1, <2>2, <2>3, <2>5
    <2>6. CASE m(2) <= m(0) /\ m(2) <= m(1)
      BY <2>1, <2>2, <2>3, <2>6
    <2> QED
      BY <2>1, <2>3, <2>4, <2>5, <2>6
  <1> DEFINE a == CHOOSE x \in left \cup {last} : \A y \in left : x <= y
  <1>4. a \in left \cup {last} /\ \A y \in left : a <= y
    <2> HIDE DEF left
    <2> QED
      BY <1>3
  <1>5. FirstAlarm = a
    BY <1>2
  <1> HIDE DEF a
  <1>6. a \in Int /\ a <= last /\ \A n \in armed \cap {0, 1, 2} : a <= f(n)
    BY <1>1, <1>4
  <1> QED
    BY <1>5, <1>6, Sizes DEF last, f

(* What a scheduling leaves alone, whatever place it finds.                *)
ScheduleKept ==
  /\ tpc = "idle" /\ ThreadRuns /\ Len(queue) < NbNode /\ tpc' \in {"arm", "idle"}
  /\ raw' = raw /\ alarm' = alarm /\ armed' = armed /\ nvic' = nvic
  /\ origin' = origin /\ alarmTime' = alarmTime /\ overflow' = overflow
  /\ comparator' = comparator /\ softPending' = softPending /\ kpc' = kpc
  /\ kraw' = kraw /\ ktime' = ktime /\ target' = target /\ togo' = togo
  /\ epc' = epc /\ snow' = snow /\ pll' = pll /\ busyFor' = busyFor

LEMMA ScheduleKeeps ==
  ASSUME NEW e \in Event, NEW d \in Delays, ScheduleTimerEvent(e, d)
  PROVE  ScheduleKept
  <1>1. tpc' = "arm" \/ tpc' = "idle"
    BY Zenon DEF ScheduleTimerEvent
  <1>2. UNCHANGED <<raw, hardware, origin, alarmTime, flags, kernel, epc, snow, pll, busyFor>>
    BY Zenon DEF ScheduleTimerEvent
  <1>3. tpc = "idle" /\ ThreadRuns /\ Len(queue) < NbNode
    BY Zenon DEF ScheduleTimerEvent
  <1> QED
    BY <1>1, <1>2, <1>3 DEF ScheduleKept, hardware, flags, kernel

LEMMA PlaceIs ==
  ASSUME TypeOK, NEW e \in Event, NEW d \in Delays, ScheduleTimerEvent(e, d)
  PROVE  LET node == [event |-> e, time |-> (raw + d) % Raw]
         IN  \E n \in 0 .. Len(queue) :
               /\ Behind(n, node.time)
               /\ queue' = SubSeq(queue, 1, n) \o <<node>> \o SubSeq(queue, n + 1, Len(queue))
               /\ tpc' = IF n = 0 THEN "arm" ELSE "idle"
  <1> DEFINE node == [event |-> e, time |-> (raw + d) % Raw]
             Here(i) == /\ i = Len(queue) \/ Signed(queue[i + 1].time, node.time) > 0
                        /\ \A j \in 1 .. i : Signed(queue[j].time, node.time) <= 0
             n == CHOOSE i \in 0 .. Len(queue) : Here(i)
  <1>1. /\ queue' = SubSeq(queue, 1, n) \o <<node>> \o SubSeq(queue, n + 1, Len(queue))
        /\ tpc' = IF n = 0 THEN "arm" ELSE "idle"
    BY DEF ScheduleTimerEvent
  <1>2. \A i : Here(i) = Behind(i, node.time)
    BY DEF Behind
  <1>3. node.time \in Int
    <2>1. raw + d \in Int
      BY PicoAssumption, Sizes DEF TypeOK
    <2> QED
      BY <2>1, Remainders
  <1> HIDE DEF node
  <1>4. \E i \in 0 .. Len(queue) : Here(i)
    BY <1>2, <1>3, PlaceExists
  <1> HIDE DEF Here
  <1>5. n \in 0 .. Len(queue) /\ Here(n)
    BY <1>4
  <1> HIDE DEF n
  <1>6. Behind(n, node.time)
    BY <1>2, <1>5
  <1> QED
    BY <1>1, <1>5, <1>6 DEF node

(***************************************************************************)
(* Types, and the levels.                                                  *)
(***************************************************************************)

USE DEF hardware, flags, kernel, events, thread

LEMMA InitType == Init => TypeInv
  <1> SUFFICES ASSUME Init
               PROVE  TypeInv
    OBVIOUS
  <1> USE DEF Init
  <1>1. /\ raw \in 0 .. Raw - 1 /\ origin \in 0 .. Raw - 1 /\ kraw \in 0 .. Raw - 1
        /\ snow \in 0 .. Raw - 1 /\ ktime \in 0 .. Turn - 1
        /\ alarm \in [0 .. 3 -> 0 .. Raw - 1] /\ alarmTime \in [0 .. 2 -> 0 .. Raw - 1]
    BY Sizes
  <1>2. /\ armed \subseteq 0 .. 3 /\ nvic \subseteq 0 .. 3 /\ pll \in BOOLEAN
        /\ overflow \in BOOLEAN /\ comparator \in BOOLEAN /\ softPending \in BOOLEAN
    OBVIOUS
  <1>3. target \in Int /\ togo \in Int /\ busyFor \in Nat
    BY PicoAssumption, Sizes
  <1>4. queue \in Seq([event : Event, time : 0 .. Raw - 1]) /\ Len(queue) <= NbNode
    BY PicoAssumption
  <1>5. Steps
    BY DEF Steps
  <1>6. Levels
    <2>1. pll = (tpc \notin {"stop", "raise"})
      OBVIOUS
    <2> QED
      BY <2>1, Sizes DEF Levels, Booting, ArmsAt
  <1> QED
    BY <1>1, <1>2, <1>3, <1>4, <1>5, <1>6 DEF TypeInv, TypeOK

(* Every step keeps the types.                                             *)
LEMMA TypeOKStep ==
  ASSUME TypeInv, [Next]_picoVars
  PROVE  TypeOK'
  <1>a. /\ alarm \in [0 .. 3 -> 0 .. Raw - 1] /\ alarmTime \in [0 .. 2 -> 0 .. Raw - 1]
        /\ armed \subseteq 0 .. 3 /\ nvic \subseteq 0 .. 3
    BY DEF TypeInv, TypeOK
  <1>b. target \in Int /\ togo \in Int
    BY DEF TypeInv, TypeOK
  <1>c. snow \in Int
    BY Sizes DEF TypeInv, TypeOK
  <1> USE DEF TypeInv
  <1>1. CASE Tick
    <2>1. raw' \in 0 .. Raw - 1
      BY <1>1, Sizes, Remainders DEF Tick, TypeOK
    <2>2. armed' \subseteq 0 .. 3 /\ nvic' \subseteq 0 .. 3
      BY <1>1 DEF Tick, TypeOK, Fires
    <2>3. busyFor' \in Nat /\ togo' \in Int
      BY <1>1 DEF Tick, TypeOK
    <2> QED
      BY <1>1, <2>1, <2>2, <2>3 DEF Tick, TypeOK
  <1>2. CASE StartTimer
    BY <1>2 DEF StartTimer, TypeOK
  <1>3. CASE StartAlarms
    <2>1. OverflowAlarm(raw, origin) \in 0 .. Raw - 1
      BY TurnEnd DEF TypeOK
    <2>2. ActualTime(raw) \in 0 .. Turn - 1
      BY TurnStep DEF TypeOK, ActualTime
    <2>3. togo' \in Int
      BY <1>3, <1>b, <2>2, Sizes DEF StartAlarms
    <2>4. /\ alarm' \in [0 .. 3 -> 0 .. Raw - 1] /\ alarmTime' \in [0 .. 2 -> 0 .. Raw - 1]
          /\ armed' \subseteq 0 .. 3 /\ nvic' \subseteq 0 .. 3
      BY <1>3, <1>a, <2>1 DEF StartAlarms, ArmOverflowAlarm
    <2> QED
      BY <1>3, <2>3, <2>4 DEF StartAlarms, TypeOK
  <1>4. CASE Alarm0Handler
    BY <1>4 DEF Alarm0Handler, TypeOK
  <1>5. CASE Alarm1Handler
    <2>1. OverflowAlarm(raw, origin) \in 0 .. Raw - 1
      BY TurnEnd DEF TypeOK
    <2>2. /\ alarm' \in [0 .. 3 -> 0 .. Raw - 1] /\ alarmTime' \in [0 .. 2 -> 0 .. Raw - 1]
          /\ armed' \subseteq 0 .. 3 /\ nvic' \subseteq 0 .. 3
      BY <1>5, <1>a, <2>1 DEF Alarm1Handler, ArmOverflowAlarm
    <2> QED
      BY <1>5, <2>2 DEF Alarm1Handler, TypeOK
  <1>6. CASE EnterScheduler
    BY <1>6 DEF EnterScheduler, TypeOK
  <1>7. CASE TimerIsOverflow
    <2>1. target' \in Int
      BY <1>7, Sizes DEF TimerIsOverflow, TypeOK
    <2> QED
      BY <1>7, <2>1 DEF TimerIsOverflow, TypeOK
  <1>8. CASE GetActualTime
    <2>1. ActualTime(raw) \in 0 .. Turn - 1
      BY TurnStep DEF TypeOK, ActualTime
    <2> QED
      BY <1>8, <2>1 DEF GetActualTime, TypeOK
  <1>9. ASSUME NEW p \in Periods, ServeArrival(p)
         PROVE  TypeOK'
    <2>1. p \in Int
      BY PicoAssumption, Sizes
    <2>2. target' \in Int /\ togo' \in Int
      BY <1>9, <1>b, <2>1 DEF ServeArrival
    <2> QED
      BY <1>9, <2>2 DEF ServeArrival, TypeOK
  <1>10. CASE NextArrival
    BY <1>10 DEF NextArrival, TypeOK
  <1>11. CASE ReadCounter
    BY <1>11 DEF ReadCounter, TypeOK
  <1>12. CASE ArmAlarm0
    <2>1. ActualTime(kraw) \in 0 .. Turn - 1
      BY TurnStep DEF TypeOK, ActualTime
    <2> DEFINE a == kraw + target - ActualTime(kraw)
    <2>2. a \in Int
      BY <2>1, Sizes DEF TypeOK
    <2>3. a % Raw \in 0 .. Raw - 1
      <3> HIDE DEF a
      <3> QED
        BY <2>2, Remainders
    <2>4. /\ alarm' \in [0 .. 3 -> 0 .. Raw - 1] /\ alarmTime' \in [0 .. 2 -> 0 .. Raw - 1]
          /\ armed' \subseteq 0 .. 3
      BY <1>12, <1>a, <2>3 DEF ArmAlarm0
    <2> QED
      BY <1>12, <2>4 DEF ArmAlarm0, TypeOK
  <1>13. CASE CheckAlarm0
    BY <1>13 DEF CheckAlarm0, TypeOK
  <1>14. CASE DisarmAlarm0
    BY <1>14 DEF DisarmAlarm0, TypeOK
  <1>15. CASE ClearSoftTimer
    BY <1>15 DEF ClearSoftTimer, TypeOK
  <1>16. CASE TestFlags
    BY <1>16 DEF TestFlags, TypeOK
  <1>17. ASSUME NEW e \in Event, UnScheduleTimerEvent(e)
         PROVE  TypeOK'
    <2> DEFINE Node == [event : Event, time : 0 .. Raw - 1]
    <2>1. PICK i \in DOMAIN queue :
            queue' = SubSeq(queue, 1, i - 1) \o SubSeq(queue, i + 1, Len(queue))
      BY <1>17 DEF UnScheduleTimerEvent
    <2>2. queue \in Seq(Node) /\ Len(queue) <= NbNode /\ i \in 1 .. Len(queue)
      BY QueueIs
    <2> HIDE DEF Node
    <2>3. RemovedAt(queue', queue, i, Node)
      BY <2>1, <2>2, RemoveAt
    <2>4. Len(queue') <= NbNode
      BY <2>2, <2>3, QueueIs, PicoAssumption DEF RemovedAt
    <2> QED
      BY <1>17, <2>3, <2>4 DEF UnScheduleTimerEvent, TypeOK, Node, RemovedAt
  <1>18. ASSUME NEW e \in Event, NEW d \in Delays, ScheduleTimerEvent(e, d)
         PROVE  TypeOK'
    <2> DEFINE node == [event |-> e, time |-> (raw + d) % Raw]
               Node == [event : Event, time : 0 .. Raw - 1]
    <2>1. PICK n \in 0 .. Len(queue) :
            queue' = SubSeq(queue, 1, n) \o <<node>> \o SubSeq(queue, n + 1, Len(queue))
      BY <1>18, PlaceIs DEF node
    <2>2. queue \in Seq(Node) /\ node \in Node
      <3>1. (raw + d) % Raw \in 0 .. Raw - 1
        BY Remainders, PicoAssumption, raw + d \in Int DEF TypeOK
      <3> QED
        BY <3>1 DEF TypeOK
    <2>3. Len(queue) + 1 <= NbNode
      <3>1. Len(queue) < NbNode
        BY <1>18, ScheduleKeeps DEF ScheduleKept
      <3> QED
        BY <3>1, QueueIs, PicoAssumption
    <2> HIDE DEF node, Node
    <2>4. InsertedAt(queue', queue, n, node, Node)
      BY <2>1, <2>2, InsertAt
    <2>5. queue' \in Seq(Node) /\ Len(queue') <= NbNode
      BY <2>3, <2>4 DEF InsertedAt
    <2> QED
      <3>1. ScheduleKept
        BY <1>18, ScheduleKeeps
      <3> QED
        BY <2>5, <3>1 DEF ScheduleKept, TypeOK, Node
  <1>19. CASE ArmHead
    <2>1. queue # <<>>
      BY <1>19, Zenon DEF ArmHead, Levels
    <2>2. queue[1].time \in 0 .. Raw - 1
      BY <2>1, QueueIs
    <2>3. /\ alarm' \in [0 .. 3 -> 0 .. Raw - 1] /\ alarmTime' \in [0 .. 2 -> 0 .. Raw - 1]
          /\ armed' \subseteq 0 .. 3
      BY <1>19, <1>a, <2>2 DEF ArmHead
    <2> QED
      BY <1>19, <2>3 DEF ArmHead, TypeOK, ArmsNext
  <1>20. CASE CheckHead
    <2>1. armed' \subseteq 0 .. 3 /\ nvic' \subseteq 0 .. 3
      <3>0. armed \subseteq 0 .. 3 /\ nvic \subseteq 0 .. 3
        BY DEF TypeOK
      <3>1. CASE Due(queue[1])
        <4>1. armed' = armed \ {2} /\ nvic' = nvic \cup {2}
          BY <1>20, <3>1, Zenon DEF CheckHead, ForceIfDue
        <4> QED
          BY <3>0, <4>1
      <3>2. CASE ~Due(queue[1])
        BY <1>20, <3>2 DEF CheckHead, ForceIfDue, TypeOK
      <3> QED
        BY <3>1, <3>2
    <2> QED
      BY <1>20, <2>1 DEF CheckHead, TypeOK
  <1>21. CASE TimerIntHandler
    BY <1>21 DEF TimerIntHandler, TypeOK
  <1>22. CASE TestHead
    <2>1. CASE queue # <<>> /\ Due(queue[1])
      <3>1. /\ Tail(queue) \in Seq([event : Event, time : 0 .. Raw - 1])
            /\ Len(Tail(queue)) <= NbNode
        BY <2>1, QueueIs, HeadTailProperties, PicoAssumption
      <3> QED
        BY <1>22, <2>1, <3>1 DEF TestHead, TypeOK
    <2>2. CASE ~(queue # <<>> /\ Due(queue[1]))
      BY <1>22, <2>2 DEF TestHead, TypeOK
    <2> QED
      BY <2>1, <2>2
  <1>23. CASE GatedSleep
    BY <1>23 DEF GatedSleep, TypeOK
  <1>24. CASE PlanSleep
    <2>1. CASE FirstAlarm < STOP_MIN_US
      BY <1>24, <2>1 DEF PlanSleep, TypeOK
    <2>2. CASE ~(FirstAlarm < STOP_MIN_US)
      <3>1. (snow + FirstAlarm - WakeUs) % Raw \in 0 .. Raw - 1
        <4> DEFINE a == snow + FirstAlarm - WakeUs
        <4>1. a \in Int
          BY <1>c, FirstAlarmIs, Sizes
        <4> HIDE DEF a
        <4>2. a % Raw \in 0 .. Raw - 1
          BY <4>1, Remainders
        <4> QED
          BY <4>2 DEF a
      <3>2. alarm' \in [0 .. 3 -> 0 .. Raw - 1]
        BY <1>24, <2>2, <3>1 DEF PlanSleep, TypeOK
      <3> QED
        <4>0. armed \subseteq 0 .. 3 /\ nvic \subseteq 0 .. 3
          BY DEF TypeOK
        <4>1. armed' = armed \cup {3} /\ nvic' = nvic \ {3} /\ pll' = FALSE
          BY <1>24, <2>2 DEF PlanSleep
        <4>2. armed' \subseteq 0 .. 3
          BY <4>0, <4>1
        <4>3. nvic' \subseteq 0 .. 3 /\ pll' \in BOOLEAN
          BY <4>0, <4>1
        <4> QED
          BY <1>24, <2>2, <3>2, <4>2, <4>3 DEF PlanSleep, TypeOK
    <2> QED
      BY <2>1, <2>2
  <1>25. CASE WakeUp
    BY <1>25 DEF WakeUp, TypeOK
  <1>26. CASE RaiseSystemClock
    BY <1>26 DEF RaiseSystemClock, TypeOK
  <1>27. CASE UNCHANGED picoVars
    BY <1>27 DEF picoVars, TypeOK
  <1> QED
    BY <1>1, <1>2, <1>3, <1>4, <1>5, <1>6, <1>7, <1>8, <1>9, <1>10, <1>11, <1>12, <1>13,
       <1>14, <1>15, <1>16, <1>17, <1>18, <1>19, <1>20, <1>21, <1>22, <1>23, <1>24, <1>25,
       <1>26, <1>27 DEF Next

(* Where the kernel, the handler and thread level can be.                  *)
LEMMA StepsStep ==
  ASSUME TypeInv, [Next]_picoVars
  PROVE  Steps'
  <1> USE DEF TypeInv
  <1>1. CASE Tick
    BY <1>1 DEF Tick, Steps
  <1>2. CASE StartTimer
    BY <1>2 DEF StartTimer, Steps
  <1>3. CASE StartAlarms
    BY <1>3 DEF StartAlarms, Steps
  <1>4. CASE Alarm0Handler
    BY <1>4 DEF Alarm0Handler, Steps
  <1>5. CASE Alarm1Handler
    BY <1>5 DEF Alarm1Handler, Steps
  <1>6. CASE EnterScheduler
    BY <1>6 DEF EnterScheduler, Steps
  <1>7. CASE TimerIsOverflow
    BY <1>7 DEF TimerIsOverflow, Steps
  <1>8. CASE GetActualTime
    BY <1>8 DEF GetActualTime, Steps
  <1>9. ASSUME NEW p \in Periods, ServeArrival(p)
         PROVE  Steps'
    BY <1>9 DEF ServeArrival, Steps
  <1>10. CASE NextArrival
    BY <1>10 DEF NextArrival, Steps
  <1>11. CASE ReadCounter
    BY <1>11 DEF ReadCounter, Steps
  <1>12. CASE ArmAlarm0
    BY <1>12 DEF ArmAlarm0, Steps
  <1>13. CASE CheckAlarm0
    BY <1>13 DEF CheckAlarm0, Steps
  <1>14. CASE DisarmAlarm0
    BY <1>14 DEF DisarmAlarm0, Steps
  <1>15. CASE ClearSoftTimer
    BY <1>15 DEF ClearSoftTimer, Steps
  <1>16. CASE TestFlags
    BY <1>16 DEF TestFlags, Steps
  <1>17. ASSUME NEW e \in Event, UnScheduleTimerEvent(e)
         PROVE  Steps'
    BY <1>17 DEF UnScheduleTimerEvent, Steps
  <1>18. ASSUME NEW e \in Event, NEW d \in Delays, ScheduleTimerEvent(e, d)
         PROVE  Steps'
    <2>1. ScheduleKept
      BY <1>18, ScheduleKeeps
    <2> QED
      BY <2>1 DEF ScheduleKept, Steps
  <1>19. CASE ArmHead
    BY <1>19 DEF ArmHead, Steps, ArmsAt, ArmsNext
  <1>20. CASE CheckHead
    BY <1>20 DEF CheckHead, Steps, ArmsAt
  <1>21. CASE TimerIntHandler
    BY <1>21 DEF TimerIntHandler, Steps
  <1>22. CASE TestHead
    BY <1>22 DEF TestHead, Steps
  <1>23. CASE GatedSleep
    BY <1>23 DEF GatedSleep, Steps
  <1>24. CASE PlanSleep
    BY <1>24 DEF PlanSleep, Steps
  <1>25. CASE WakeUp
    BY <1>25 DEF WakeUp, Steps
  <1>26. CASE RaiseSystemClock
    BY <1>26 DEF RaiseSystemClock, Steps
  <1>27. CASE UNCHANGED picoVars
    BY <1>27 DEF picoVars, Steps
  <1> QED
    BY <1>1, <1>2, <1>3, <1>4, <1>5, <1>6, <1>7, <1>8, <1>9, <1>10, <1>11, <1>12, <1>13,
       <1>14, <1>15, <1>16, <1>17, <1>18, <1>19, <1>20, <1>21, <1>22, <1>23, <1>24, <1>25,
       <1>26, <1>27 DEF Next

(* What each level leaves to the others.                                   *)
LEMMA LevelsStep ==
  ASSUME TypeInv, [Next]_picoVars
  PROVE  Levels'
  <1> USE DEF TypeInv
  <1>1. CASE Tick
    <2>1. busyFor' <= IF tpc = "raise" THEN LockUs ELSE MaxLatency
      BY <1>1, Sizes DEF Tick, TypeOK, Levels
    <2>2. armed = {} /\ nvic = {} => armed' = {} /\ nvic' = {}
      BY <1>1 DEF Tick, Fires
    <2> QED
      BY <1>1, <2>1, <2>2, Zenon DEF Tick, Levels, Booting, ArmsAt
  <1>2. CASE StartTimer
    BY <1>2 DEF StartTimer, TypeOK, Steps, Levels, Booting, ArmsAt, Kernel, KernelRuns,
       ThreadRuns, Masked, Requested
  <1>3. CASE StartAlarms
    BY <1>3 DEF StartAlarms, TypeOK, Steps, Levels, Booting, ArmsAt, Kernel, KernelRuns,
       ThreadRuns, Masked, Requested
  <1>4. CASE Alarm0Handler
    BY <1>4 DEF Alarm0Handler, TypeOK, Steps, Levels, Booting, ArmsAt, Kernel,
       KernelRuns, ThreadRuns, Masked, Requested
  <1>5. CASE Alarm1Handler
    BY <1>5 DEF Alarm1Handler, TypeOK, Steps, Levels, Booting, ArmsAt, Kernel,
       KernelRuns, ThreadRuns, Masked, Requested
  <1>6. CASE EnterScheduler
    BY <1>6 DEF EnterScheduler, TypeOK, Steps, Levels, Booting, ArmsAt, Kernel,
       KernelRuns, ThreadRuns, Masked, Requested
  <1>7. CASE TimerIsOverflow
    BY <1>7 DEF TimerIsOverflow, TypeOK, Steps, Levels, Booting, ArmsAt, Kernel,
       KernelRuns, ThreadRuns, Masked, Requested
  <1>8. CASE GetActualTime
    BY <1>8 DEF GetActualTime, TypeOK, Steps, Levels, Booting, ArmsAt, Kernel,
       KernelRuns, ThreadRuns, Masked, Requested
  <1>9. ASSUME NEW p \in Periods, ServeArrival(p)
         PROVE  Levels'
    BY <1>9 DEF ServeArrival, TypeOK, Steps, Levels, Booting, ArmsAt, Kernel,
       KernelRuns, ThreadRuns, Masked, Requested
  <1>10. CASE NextArrival
    BY <1>10 DEF NextArrival, TypeOK, Steps, Levels, Booting, ArmsAt, Kernel,
       KernelRuns, ThreadRuns, Masked, Requested
  <1>11. CASE ReadCounter
    BY <1>11 DEF ReadCounter, TypeOK, Steps, Levels, Booting, ArmsAt, Kernel,
       KernelRuns, ThreadRuns, Masked, Requested
  <1>12. CASE ArmAlarm0
    BY <1>12 DEF ArmAlarm0, TypeOK, Steps, Levels, Booting, ArmsAt, Kernel, KernelRuns,
       ThreadRuns, Masked, Requested
  <1>13. CASE CheckAlarm0
    BY <1>13 DEF CheckAlarm0, TypeOK, Steps, Levels, Booting, ArmsAt, Kernel,
       KernelRuns, ThreadRuns, Masked, Requested
  <1>14. CASE DisarmAlarm0
    BY <1>14 DEF DisarmAlarm0, TypeOK, Steps, Levels, Booting, ArmsAt, Kernel,
       KernelRuns, ThreadRuns, Masked, Requested
  <1>15. CASE ClearSoftTimer
    BY <1>15 DEF ClearSoftTimer, TypeOK, Steps, Levels, Booting, ArmsAt, Kernel,
       KernelRuns, ThreadRuns, Masked, Requested
  <1>16. CASE TestFlags
    BY <1>16 DEF TestFlags, TypeOK, Steps, Levels, Booting, ArmsAt, Kernel, KernelRuns,
       ThreadRuns, Masked, Requested
  <1>17. ASSUME NEW e \in Event, UnScheduleTimerEvent(e)
         PROVE  Levels'
    BY <1>17 DEF UnScheduleTimerEvent, TypeOK, Steps, Levels, Booting, ArmsAt, Kernel,
       KernelRuns, ThreadRuns, Masked, Requested
  <1>18. ASSUME NEW e \in Event, NEW d \in Delays, ScheduleTimerEvent(e, d)
         PROVE  Levels'
    <2>1. ScheduleKept
      BY <1>18, ScheduleKeeps
    <2>2. queue' # <<>>
      <3> DEFINE node == [event |-> e, time |-> (raw + d) % Raw]
                 Node == [event : Event, time : 0 .. Raw - 1]
      <3>1. PICK n \in 0 .. Len(queue) :
              queue' = SubSeq(queue, 1, n) \o <<node>> \o SubSeq(queue, n + 1, Len(queue))
        BY <1>18, PlaceIs DEF node
      <3>2. queue \in Seq(Node) /\ node \in Node /\ Len(queue) \in Nat
        <4>1. (raw + d) % Raw \in 0 .. Raw - 1
          BY Remainders, PicoAssumption, raw + d \in Int DEF TypeOK
        <4> QED
          BY <4>1 DEF TypeOK
      <3> HIDE DEF node, Node
      <3>3. InsertedAt(queue', queue, n, node, Node)
        BY <3>1, <3>2, InsertAt
      <3> QED
        BY <3>2, <3>3 DEF InsertedAt
    <2> QED
      BY <2>1, <2>2 DEF ScheduleKept, Levels, Booting, ArmsAt, ThreadRuns
  <1>19. CASE ArmHead
    BY <1>19, Sizes DEF ArmHead, TypeOK, Steps, Levels, Booting, ArmsAt, Kernel,
       KernelRuns, ThreadRuns, Masked, Requested, ArmsNext
  <1>20. CASE CheckHead
    BY <1>20 DEF CheckHead, TypeOK, Steps, Levels, Booting, ArmsAt, Kernel, KernelRuns,
       ThreadRuns, Masked, Requested
  <1>21. CASE TimerIntHandler
    BY <1>21 DEF TimerIntHandler, TypeOK, Steps, Levels, Booting, ArmsAt, Kernel,
       KernelRuns, ThreadRuns, Masked, Requested
  <1>22. CASE TestHead
    BY <1>22 DEF TestHead, TypeOK, Steps, Levels, Booting, ArmsAt, Kernel, KernelRuns,
       ThreadRuns, Masked, Requested
  <1>23. CASE GatedSleep
    BY <1>23 DEF GatedSleep, TypeOK, Steps, Levels, Booting, ArmsAt, Kernel, KernelRuns,
       ThreadRuns, Masked, Requested
  <1>24. CASE PlanSleep
    BY <1>24 DEF PlanSleep, TypeOK, Steps, Levels, Booting, ArmsAt, Kernel, KernelRuns,
       ThreadRuns, Masked, Requested
  <1>25. CASE WakeUp
    BY <1>25, Sizes DEF WakeUp, TypeOK, Steps, Levels, Booting, ArmsAt, Kernel,
       KernelRuns, ThreadRuns, Masked, Requested
  <1>26. CASE RaiseSystemClock
    <2>1. busyFor' <= IF tpc' = "raise" THEN LockUs ELSE MaxLatency
      BY <1>26, Sizes DEF RaiseSystemClock
    <2> QED
      BY <1>26, <2>1 DEF RaiseSystemClock, Levels, Booting, ArmsAt
  <1>27. CASE UNCHANGED picoVars
    BY <1>27 DEF picoVars, TypeOK, Steps, Levels, Booting, ArmsAt, Kernel, KernelRuns,
       ThreadRuns, Masked, Requested
  <1> QED
    BY <1>1, <1>2, <1>3, <1>4, <1>5, <1>6, <1>7, <1>8, <1>9, <1>10, <1>11, <1>12, <1>13,
       <1>14, <1>15, <1>16, <1>17, <1>18, <1>19, <1>20, <1>21, <1>22, <1>23, <1>24, <1>25,
       <1>26, <1>27 DEF Next

(***************************************************************************)
(* The clock.                                                              *)
(***************************************************************************)

(* A turn has ended that the scheduler has not taken.                      *)
Pending == overflow \/ 1 \in nvic

(* What a step leaves alone that is not a tick and has no part in alarm 1. *)
ClockKept ==
  /\ raw' = raw /\ origin' = origin
  /\ alarm'[1] = alarm[1] /\ alarmTime'[1] = alarmTime[1]
  /\ (1 \in armed') = (1 \in armed) /\ (1 \in nvic') = (1 \in nvic)
  /\ Booting' = Booting

LEMMA ClockKeptOr ==
  ASSUME TypeInv, [Next]_picoVars
  PROVE  Tick \/ StartTimer \/ StartAlarms \/ Alarm1Handler \/ ClockKept
  <1>a. alarm \in [0 .. 3 -> 0 .. Raw - 1] /\ alarmTime \in [0 .. 2 -> 0 .. Raw - 1]
    BY DEF TypeInv, TypeOK
  <1> USE DEF ArmsAt, ArmsNext
  <1>1. CASE Tick
    BY <1>1
  <1>2. CASE StartTimer
    BY <1>2
  <1>3. CASE StartAlarms
    BY <1>3
  <1>4. CASE Alarm0Handler
    BY <1>4, <1>a DEF Alarm0Handler, ClockKept, Booting
  <1>5. CASE Alarm1Handler
    BY <1>5
  <1>6. CASE EnterScheduler
    BY <1>6, <1>a DEF EnterScheduler, ClockKept, Booting
  <1>7. CASE TimerIsOverflow
    BY <1>7, <1>a DEF TimerIsOverflow, ClockKept, Booting
  <1>8. CASE GetActualTime
    BY <1>8, <1>a DEF GetActualTime, ClockKept, Booting
  <1>9. ASSUME NEW p \in Periods, ServeArrival(p)
         PROVE  Tick \/ StartTimer \/ StartAlarms \/ Alarm1Handler \/ ClockKept
    BY <1>9, <1>a DEF ServeArrival, ClockKept, Booting
  <1>10. CASE NextArrival
    BY <1>10, <1>a DEF NextArrival, ClockKept, Booting
  <1>11. CASE ReadCounter
    BY <1>11, <1>a DEF ReadCounter, ClockKept, Booting
  <1>12. CASE ArmAlarm0
    BY <1>12, <1>a DEF ArmAlarm0, ClockKept, Booting
  <1>13. CASE CheckAlarm0
    BY <1>13, <1>a DEF CheckAlarm0, ClockKept, Booting
  <1>14. CASE DisarmAlarm0
    BY <1>14, <1>a DEF DisarmAlarm0, ClockKept, Booting
  <1>15. CASE ClearSoftTimer
    BY <1>15, <1>a DEF ClearSoftTimer, ClockKept, Booting
  <1>16. CASE TestFlags
    BY <1>16, <1>a DEF TestFlags, ClockKept, Booting
  <1>17. ASSUME NEW e \in Event, UnScheduleTimerEvent(e)
         PROVE  Tick \/ StartTimer \/ StartAlarms \/ Alarm1Handler \/ ClockKept
    BY <1>17, <1>a DEF UnScheduleTimerEvent, ClockKept, Booting
  <1>18. ASSUME NEW e \in Event, NEW d \in Delays, ScheduleTimerEvent(e, d)
         PROVE  Tick \/ StartTimer \/ StartAlarms \/ Alarm1Handler \/ ClockKept
    <2>1. ScheduleKept
      BY <1>18, ScheduleKeeps
    <2> QED
      BY <1>a, <2>1 DEF ScheduleKept, ClockKept, Booting
  <1>19. CASE ArmHead
    BY <1>19, <1>a DEF ArmHead, ClockKept, Booting
  <1>20. CASE CheckHead
    <2>1. CASE Due(queue[1])
      <3>1. nvic' = nvic \cup {2} /\ armed' = armed \ {2}
        BY <1>20, <2>1, Zenon DEF CheckHead, ForceIfDue
      <3>2. (1 \in armed') = (1 \in armed) /\ (1 \in nvic') = (1 \in nvic)
        BY <3>1
      <3> QED
        BY <1>20, <3>2 DEF CheckHead, ClockKept, Booting
    <2>2. CASE ~Due(queue[1])
      <3>1. nvic' = nvic /\ armed' = armed
        BY <1>20, <2>2, Zenon DEF CheckHead, ForceIfDue
      <3> QED
        BY <1>20, <3>1 DEF CheckHead, ClockKept, Booting
    <2> QED
      BY <2>1, <2>2
  <1>21. CASE TimerIntHandler
    BY <1>21, <1>a DEF TimerIntHandler, ClockKept, Booting
  <1>22. CASE TestHead
    BY <1>22, <1>a DEF TestHead, ClockKept, Booting
  <1>23. CASE GatedSleep
    BY <1>23, <1>a DEF GatedSleep, ClockKept, Booting
  <1>24. CASE PlanSleep
    BY <1>24, <1>a DEF PlanSleep, ClockKept, Booting
  <1>25. CASE WakeUp
    BY <1>25, <1>a DEF WakeUp, ClockKept, Booting
  <1>26. CASE RaiseSystemClock
    BY <1>26, <1>a DEF RaiseSystemClock, ClockKept, Booting
  <1>27. CASE UNCHANGED picoVars
    BY <1>27, <1>a DEF picoVars, ClockKept, Booting
  <1> QED
    BY <1>1, <1>2, <1>3, <1>4, <1>5, <1>6, <1>7, <1>8, <1>9, <1>10, <1>11, <1>12, <1>13,
       <1>14, <1>15, <1>16, <1>17, <1>18, <1>19, <1>20, <1>21, <1>22, <1>23, <1>24, <1>25,
       <1>26, <1>27 DEF Next

(* Nor does it lose a turn.                                                *)
Uncounted == IF Pending THEN Turn ELSE 0

TurnsKept ==
  /\ overflow' => overflow
  /\ ~Booting => (togo - target) + Uncounted = (togo' - target') + Uncounted'

LEMMA WaitedIs ==
  ASSUME TypeInv
  PROVE  Waited \in Int /\ Waited >= 0 /\ Waited < Turn
  BY Sizes DEF TypeInv, TypeOK, Levels, Waited, WaitBefore

(* Only a sleep that begins shortens what one may have waited.             *)
LEMMA WaitGrows ==
  ASSUME TypeInv, [Next]_picoVars
  PROVE  Tick \/ GatedSleep \/ Waited' >= Waited
  <1> USE DEF TypeInv
  <1>1. CASE Tick
    BY <1>1
  <1>2. CASE StartTimer
    BY <1>2, Sizes DEF StartTimer, Waited, WaitBefore, TypeOK, Levels
  <1>3. CASE StartAlarms
    BY <1>3, Sizes DEF StartAlarms, Waited, WaitBefore, TypeOK, Levels
  <1>4. CASE Alarm0Handler
    BY <1>4, Sizes DEF Alarm0Handler, Waited, WaitBefore, TypeOK, Levels
  <1>5. CASE Alarm1Handler
    BY <1>5, Sizes DEF Alarm1Handler, Waited, WaitBefore, TypeOK, Levels
  <1>6. CASE EnterScheduler
    BY <1>6, Sizes DEF EnterScheduler, Waited, WaitBefore, TypeOK, Levels
  <1>7. CASE TimerIsOverflow
    BY <1>7, Sizes DEF TimerIsOverflow, Waited, WaitBefore, TypeOK, Levels
  <1>8. CASE GetActualTime
    BY <1>8, Sizes DEF GetActualTime, Waited, WaitBefore, TypeOK, Levels
  <1>9. ASSUME NEW p \in Periods, ServeArrival(p)
         PROVE  Tick \/ GatedSleep \/ Waited' >= Waited
    BY <1>9, Sizes DEF ServeArrival, Waited, WaitBefore, TypeOK, Levels
  <1>10. CASE NextArrival
    BY <1>10, Sizes DEF NextArrival, Waited, WaitBefore, TypeOK, Levels
  <1>11. CASE ReadCounter
    BY <1>11, Sizes DEF ReadCounter, Waited, WaitBefore, TypeOK, Levels
  <1>12. CASE ArmAlarm0
    BY <1>12, Sizes DEF ArmAlarm0, Waited, WaitBefore, TypeOK, Levels
  <1>13. CASE CheckAlarm0
    BY <1>13, Sizes DEF CheckAlarm0, Waited, WaitBefore, TypeOK, Levels
  <1>14. CASE DisarmAlarm0
    BY <1>14, Sizes DEF DisarmAlarm0, Waited, WaitBefore, TypeOK, Levels
  <1>15. CASE ClearSoftTimer
    BY <1>15, Sizes DEF ClearSoftTimer, Waited, WaitBefore, TypeOK, Levels
  <1>16. CASE TestFlags
    BY <1>16, Sizes DEF TestFlags, Waited, WaitBefore, TypeOK, Levels
  <1>17. ASSUME NEW e \in Event, UnScheduleTimerEvent(e)
         PROVE  Tick \/ GatedSleep \/ Waited' >= Waited
    BY <1>17, Sizes DEF UnScheduleTimerEvent, Waited, WaitBefore, TypeOK, Levels
  <1>18. ASSUME NEW e \in Event, NEW d \in Delays, ScheduleTimerEvent(e, d)
         PROVE  Tick \/ GatedSleep \/ Waited' >= Waited
    <2>1. ScheduleKept
      BY <1>18, ScheduleKeeps
    <2> QED
      BY Sizes, <2>1 DEF ScheduleKept, Waited, WaitBefore, TypeOK, Levels
  <1>19. CASE ArmHead
    <2>1. Waited' = Waited
      BY <1>19, Sizes DEF ArmHead, Waited, WaitBefore, Steps, ArmsAt, ArmsNext
    <2> QED
      BY <2>1, WaitedIs
  <1>20. CASE CheckHead
    <2>1. Waited' = Waited
      BY <1>20, Sizes DEF CheckHead, Waited, WaitBefore, Steps, Levels, ArmsAt
    <2> QED
      BY <2>1, WaitedIs
  <1>21. CASE TimerIntHandler
    BY <1>21, Sizes DEF TimerIntHandler, Waited, WaitBefore, TypeOK, Levels
  <1>22. CASE TestHead
    BY <1>22, Sizes DEF TestHead, Waited, WaitBefore, TypeOK, Levels
  <1>23. CASE GatedSleep
    BY <1>23
  <1>24. CASE PlanSleep
    BY <1>24, Sizes DEF PlanSleep, Waited, WaitBefore, TypeOK, Levels
  <1>25. CASE WakeUp
    BY <1>25, Sizes DEF WakeUp, Waited, WaitBefore, TypeOK, Levels
  <1>26. CASE RaiseSystemClock
    BY <1>26, Sizes DEF RaiseSystemClock, Waited, WaitBefore, TypeOK, Levels
  <1>27. CASE UNCHANGED picoVars
    BY <1>27, Sizes DEF picoVars, Waited, WaitBefore, TypeOK, Levels
  <1> QED
    BY <1>1, <1>2, <1>3, <1>4, <1>5, <1>6, <1>7, <1>8, <1>9, <1>10, <1>11, <1>12, <1>13,
       <1>14, <1>15, <1>16, <1>17, <1>18, <1>19, <1>20, <1>21, <1>22, <1>23, <1>24, <1>25,
       <1>26, <1>27 DEF Next

LEMMA TurnsKeptOr ==
  ASSUME TypeInv, ClockKept, [Next]_picoVars
  PROVE  Tick \/ StartTimer \/ StartAlarms \/ Alarm1Handler \/ TurnsKept
  <1> USE DEF TypeInv
  <1>1. CASE Tick
    BY <1>1
  <1>2. CASE StartTimer
    BY <1>2
  <1>3. CASE StartAlarms
    BY <1>3
  <1>4. CASE Alarm0Handler
    BY <1>4, Sizes DEF Alarm0Handler, TurnsKept, Pending, Uncounted, TypeOK, Levels,
       Booting, Kernel, KernelRuns, Requested
  <1>5. CASE Alarm1Handler
    BY <1>5
  <1>6. CASE EnterScheduler
    BY <1>6, Sizes DEF EnterScheduler, TurnsKept, Pending, Uncounted, TypeOK, Levels,
       Booting, Kernel, KernelRuns, Requested
  <1>7. CASE TimerIsOverflow
    BY <1>7, Sizes DEF TimerIsOverflow, TurnsKept, Pending, Uncounted, TypeOK, Levels,
       Booting, Kernel, KernelRuns, Requested
  <1>8. CASE GetActualTime
    BY <1>8, Sizes DEF GetActualTime, TurnsKept, Pending, Uncounted, TypeOK, Levels,
       Booting, Kernel, KernelRuns, Requested
  <1>9. ASSUME NEW p \in Periods, ServeArrival(p)
         PROVE  Tick \/ StartTimer \/ StartAlarms \/ Alarm1Handler \/ TurnsKept
    <2>1. p \in Int
      BY PicoAssumption, Sizes
    <2>2. (togo + p) - (target + p) = togo - target
      BY <2>1 DEF TypeOK
    <2>3. Uncounted' = Uncounted
      BY <1>9 DEF ServeArrival, Pending, Uncounted
    <2> QED
      BY <1>9, <2>2, <2>3 DEF ServeArrival, TurnsKept
  <1>10. CASE NextArrival
    BY <1>10, Sizes DEF NextArrival, TurnsKept, Pending, Uncounted, TypeOK, Levels,
       Booting, Kernel, KernelRuns, Requested
  <1>11. CASE ReadCounter
    BY <1>11, Sizes DEF ReadCounter, TurnsKept, Pending, Uncounted, TypeOK, Levels,
       Booting, Kernel, KernelRuns, Requested
  <1>12. CASE ArmAlarm0
    BY <1>12, Sizes DEF ArmAlarm0, TurnsKept, Pending, Uncounted, TypeOK, Levels,
       Booting, Kernel, KernelRuns, Requested
  <1>13. CASE CheckAlarm0
    BY <1>13, Sizes DEF CheckAlarm0, TurnsKept, Pending, Uncounted, TypeOK, Levels,
       Booting, Kernel, KernelRuns, Requested
  <1>14. CASE DisarmAlarm0
    BY <1>14, Sizes DEF DisarmAlarm0, TurnsKept, Pending, Uncounted, TypeOK, Levels,
       Booting, Kernel, KernelRuns, Requested
  <1>15. CASE ClearSoftTimer
    BY <1>15, Sizes DEF ClearSoftTimer, TurnsKept, Pending, Uncounted, TypeOK, Levels,
       Booting, Kernel, KernelRuns, Requested
  <1>16. CASE TestFlags
    BY <1>16, Sizes DEF TestFlags, TurnsKept, Pending, Uncounted, TypeOK, Levels,
       Booting, Kernel, KernelRuns, Requested
  <1>17. ASSUME NEW e \in Event, UnScheduleTimerEvent(e)
         PROVE  Tick \/ StartTimer \/ StartAlarms \/ Alarm1Handler \/ TurnsKept
    BY <1>17, Sizes DEF UnScheduleTimerEvent, TurnsKept, Pending, Uncounted, TypeOK,
       Levels, Booting, Kernel, KernelRuns, Requested
  <1>18. ASSUME NEW e \in Event, NEW d \in Delays, ScheduleTimerEvent(e, d)
         PROVE  Tick \/ StartTimer \/ StartAlarms \/ Alarm1Handler \/ TurnsKept
    <2>1. ScheduleKept
      BY <1>18, ScheduleKeeps
    <2> QED
      BY Sizes, <2>1 DEF ScheduleKept, TurnsKept, Pending, Uncounted, TypeOK, Levels,
         Booting, Kernel, KernelRuns, Requested
  <1>19. CASE ArmHead
    BY <1>19, Sizes DEF ArmHead, TurnsKept, Pending, Uncounted, TypeOK, Levels, Booting,
       Kernel, KernelRuns, Requested
  <1>20. CASE CheckHead
    <2>1. Pending' = Pending /\ Uncounted' = Uncounted
      BY <1>20, Zenon DEF CheckHead, ClockKept, Pending, Uncounted
    <2> QED
      BY <1>20, <2>1 DEF CheckHead, TurnsKept
  <1>21. CASE TimerIntHandler
    BY <1>21, Sizes DEF TimerIntHandler, TurnsKept, Pending, Uncounted, TypeOK, Levels,
       Booting, Kernel, KernelRuns, Requested
  <1>22. CASE TestHead
    BY <1>22, Sizes DEF TestHead, TurnsKept, Pending, Uncounted, TypeOK, Levels,
       Booting, Kernel, KernelRuns, Requested
  <1>23. CASE GatedSleep
    BY <1>23, Sizes DEF GatedSleep, TurnsKept, Pending, Uncounted, TypeOK, Levels,
       Booting, Kernel, KernelRuns, Requested
  <1>24. CASE PlanSleep
    BY <1>24, Sizes DEF PlanSleep, TurnsKept, Pending, Uncounted, TypeOK, Levels,
       Booting, Kernel, KernelRuns, Requested
  <1>25. CASE WakeUp
    BY <1>25, Sizes DEF WakeUp, TurnsKept, Pending, Uncounted, TypeOK, Levels, Booting,
       Kernel, KernelRuns, Requested
  <1>26. CASE RaiseSystemClock
    BY <1>26, Sizes DEF RaiseSystemClock, TurnsKept, Pending, Uncounted, TypeOK, Levels,
       Booting, Kernel, KernelRuns, Requested
  <1>27. CASE UNCHANGED picoVars
    BY <1>27, Sizes DEF picoVars, TurnsKept, Pending, Uncounted, TypeOK, Levels,
       Booting, Kernel, KernelRuns, Requested
  <1> QED
    BY <1>1, <1>2, <1>3, <1>4, <1>5, <1>6, <1>7, <1>8, <1>9, <1>10, <1>11, <1>12, <1>13,
       <1>14, <1>15, <1>16, <1>17, <1>18, <1>19, <1>20, <1>21, <1>22, <1>23, <1>24, <1>25,
       <1>26, <1>27 DEF Next

LEMMA WaitedNext ==
  ASSUME TypeInv'
  PROVE  Waited' \in Int /\ Waited' >= 0
  <1>1. busyFor' \in Nat
    BY DEF TypeInv, TypeOK
  <1>2. WaitBefore' \in Nat
    BY Sizes DEF WaitBefore
  <1>3. \A x, y \in Nat : x + y \in Int /\ x + y >= 0
    OBVIOUS
  <1>4. Waited' = busyFor' + WaitBefore'
    BY DEF Waited
  <1> QED
    BY <1>1, <1>2, <1>3, <1>4

LEMMA ElapsedIs ==
  ASSUME TypeInv
  PROVE  Elapsed \in 0 .. Turn - 1 /\ Elapsed \in Int
  <1>1. raw \in 0 .. Raw - 1 /\ origin \in 0 .. Raw - 1
    BY DEF TypeInv, TypeOK
  <1>2. Elapsed \in 0 .. Turn - 1
    BY <1>1, TurnStep DEF Elapsed, ActualTime
  <1> QED
    BY <1>2, Sizes

LEMMA ClockInit == Init => ClockInv
  <1> SUFFICES ASSUME Init
               PROVE  ClockInv
    OBVIOUS
  <1>1. Booting /\ armed = {} /\ nvic = {} /\ ~overflow
    BY DEF Init, Booting
  <1> QED
    BY <1>1 DEF ClockInv, TurnsCounted

LEMMA ClockKeptStep ==
  ASSUME TypeInv, TypeInv', ClockInv, ClockKept, TurnsKept, Waited' >= Waited \/ GatedSleep
  PROVE  ClockInv'
  <1>1. Elapsed' = Elapsed /\ Ahead(alarm[1])' = Ahead(alarm[1])
    BY DEF ClockKept, Elapsed, ActualTime, Ahead
  <1>2. ActualTime(raw)' = ActualTime(raw)
    BY DEF ClockKept, ActualTime
  <1>3. (~Booting => 1 \in armed \cup nvic)'
    BY DEF ClockInv, ClockKept
  <1>4. (1 \in armed => 1 \notin nvic /\ alarm[1] = alarmTime[1] /\ Ahead(alarm[1]) = Turn - Elapsed)'
    BY <1>1 DEF ClockInv, ClockKept
  <1>5. (1 \in nvic => ~overflow)'
    BY DEF ClockInv, ClockKept, TurnsKept
  <1>6. (overflow \/ 1 \in nvic => Elapsed <= Waited)'
    <2>1. Elapsed \in Int /\ Waited \in Int
      BY WaitedIs, ElapsedIs
    <2>2. Waited' \in Int
      BY WaitedNext
    <2>3. GatedSleep => ~overflow /\ 1 \notin nvic
      BY DEF GatedSleep, ThreadRuns, Requested, TypeInv, Levels
    <2> QED
      BY <1>1, <2>1, <2>2, <2>3 DEF ClockInv, ClockKept, TurnsKept
  <1>7. TurnsCounted'
    <2>1. TurnsCounted <=> Booting \/ togo = target - ActualTime(raw) - Uncounted
      BY DEF TurnsCounted, Uncounted, Pending
    <2>2. TurnsCounted' <=> Booting' \/ togo' = target' - ActualTime(raw)' - Uncounted'
      BY DEF TurnsCounted, Uncounted, Pending
    <2>3. Booting \/ togo = target - ActualTime(raw) - Uncounted
      BY <2>1 DEF ClockInv
    <2>4. CASE Booting
      BY <2>2, <2>4 DEF ClockKept
    <2>5. CASE ~Booting
      <3>1. togo = target - ActualTime(raw) - Uncounted
        BY <2>3, <2>5
      <3>2. (togo - target) + Uncounted = (togo' - target') + Uncounted'
        BY <2>5 DEF TurnsKept
      <3>3. /\ togo \in Int /\ target \in Int /\ togo' \in Int /\ target' \in Int
            /\ Uncounted \in Int /\ Uncounted' \in Int /\ ActualTime(raw) \in Int
        <4>1. ActualTime(raw) \in Int
          BY ElapsedIs DEF Elapsed
        <4>2. Uncounted \in Int /\ Uncounted' \in Int
          BY Sizes DEF Uncounted
        <4>3. togo \in Int /\ target \in Int /\ togo' \in Int /\ target' \in Int
          BY DEF TypeInv, TypeOK
        <4> QED
          BY <4>1, <4>2, <4>3
      <3>4. togo' = target' - ActualTime(raw) - Uncounted'
        <4>1. (togo - target) + Uncounted = 0 - ActualTime(raw)
          BY <3>1, <3>3
        <4>2. (togo' - target') + Uncounted' = 0 - ActualTime(raw)
          BY <3>2, <4>1
        <4> QED
          BY <3>3, <4>2
      <3> QED
        BY <1>2, <2>2, <3>4
    <2> QED
      BY <2>4, <2>5
  <1> QED
    BY <1>3, <1>4, <1>5, <1>6, <1>7 DEF ClockInv

(* A tick brings every alarm nearer by one, and the end of the turn; those *)
(* at a distance of one fire.                                              *)
LEMMA TickMoves ==
  ASSUME TypeInv, Tick
  PROVE  /\ Elapsed \in 0 .. Turn - 1
         /\ Elapsed' = IF Elapsed = Turn - 1 THEN 0 ELSE Elapsed + 1
         /\ \A n \in 0 .. 3 :
              /\ Ahead(alarm[n]) \in 0 .. Raw - 1
              /\ n \in Fires <=> n \in armed /\ Ahead(alarm[n]) = 1
              /\ Ahead(alarm[n])' = IF Ahead(alarm[n]) = 0 THEN Raw - 1
                                   ELSE Ahead(alarm[n]) - 1
  <1>1. /\ raw \in 0 .. Raw - 1 /\ origin \in 0 .. Raw - 1 /\ raw' = (raw + 1) % Raw
        /\ origin' = origin /\ alarm' = alarm
    BY DEF Tick, TypeInv, TypeOK
  <1>2. /\ Elapsed \in 0 .. Turn - 1
        /\ Elapsed' = IF Elapsed = Turn - 1 THEN 0 ELSE Elapsed + 1
    BY <1>1, TurnStep DEF Elapsed, ActualTime
  <1>3. ASSUME NEW n \in 0 .. 3
        PROVE  /\ Ahead(alarm[n]) \in 0 .. Raw - 1
               /\ n \in Fires <=> n \in armed /\ Ahead(alarm[n]) = 1
               /\ Ahead(alarm[n])' = IF Ahead(alarm[n]) = 0 THEN Raw - 1
                                    ELSE Ahead(alarm[n]) - 1
    <2>1. alarm[n] \in 0 .. Raw - 1 /\ alarm[n] \in Int
      BY Sizes DEF TypeInv, TypeOK
    <2>2. alarm[n] = (raw + 1) % Raw <=> Ahead(alarm[n]) = 1
      BY <1>1, <2>1, FireDist DEF Ahead
    <2>3. /\ Ahead(alarm[n]) \in 0 .. Raw - 1
          /\ Ahead(alarm[n])' = IF Ahead(alarm[n]) = 0 THEN Raw - 1
                               ELSE Ahead(alarm[n]) - 1
      BY <1>1, <2>1, DistStep DEF Ahead
    <2> QED
      BY <2>2, <2>3 DEF Fires
  <1> QED
    BY <1>2, <1>3

LEMMA ClockTick ==
  ASSUME TypeInv, TypeInv', ClockInv, Tick
  PROVE  ClockInv'
  <1> DEFINE e == Elapsed
             w == Waited
             a == Ahead(alarm[1])
  <1>1. /\ e \in 0 .. Turn - 1 /\ e' = IF e = Turn - 1 THEN 0 ELSE e + 1
        /\ a \in 0 .. Raw - 1 /\ a' = IF a = 0 THEN Raw - 1 ELSE a - 1
        /\ 1 \in Fires <=> 1 \in armed /\ a = 1
    BY TickMoves
  <1>2. /\ alarm' = alarm /\ alarmTime' = alarmTime /\ overflow' = overflow
        /\ target' = target /\ (Booting <=> Booting')
        /\ armed' = armed \ Fires /\ nvic' = nvic \cup Fires
    BY DEF Tick, Booting
  <1>3. Pending => w' = w + 1 /\ w < Turn - 1
    <2>2. Pending => Busy
      BY DEF TypeInv, Levels, Pending, Busy
    <2>3. Busy => busyFor' = busyFor + 1 /\ busyFor < IF tpc = "raise" THEN LockUs ELSE MaxLatency
      BY DEF Tick
    <2>4. tpc' = tpc /\ busyFor \in Nat
      BY DEF Tick, TypeInv, TypeOK
    <2> QED
      BY <2>2, <2>3, <2>4, Sizes DEF Waited, WaitBefore
  <1>4. w \in Int /\ w >= 0 /\ w' \in Int /\ w' >= 0
    BY WaitedIs, WaitedNext
  <1>5. /\ ~Booting => 1 \in armed \cup nvic
        /\ 1 \in armed => 1 \notin nvic /\ alarm[1] = alarmTime[1] /\ a = Turn - e
        /\ 1 \in nvic => ~overflow
        /\ Pending => e <= w
    BY DEF ClockInv, Pending
  <1>6. Booting \/ togo = target - e - Uncounted
    BY DEF ClockInv, TurnsCounted, Uncounted, Pending, Elapsed
  <1>7. Booting => armed = {} /\ nvic = {}
    BY DEF TypeInv, Levels
  <1>8. /\ Uncounted = (IF Pending THEN Turn ELSE 0)
        /\ Uncounted' = (IF Pending' THEN Turn ELSE 0)
        /\ Pending <=> overflow \/ 1 \in nvic
        /\ Pending' <=> overflow' \/ 1 \in nvic'
    BY DEF Uncounted, Pending
  <1>9. ~Booting => togo' = togo - 1
    BY DEF Tick
  <1>10. /\ togo \in Int /\ target \in Int /\ Turn \in Nat /\ Raw \in Nat
         /\ overflow \in BOOLEAN
    BY Sizes DEF TypeInv, TypeOK
  <1>11. ClockInv' <=> /\ ~Booting' => 1 \in armed' \cup nvic'
                       /\ 1 \in armed' => /\ 1 \notin nvic' /\ alarm'[1] = alarmTime'[1]
                                         /\ a' = Turn - e'
                       /\ 1 \in nvic' => ~overflow'
                       /\ Pending' => e' <= w'
                       /\ Booting' \/ togo' = target' - e' - Uncounted'
    BY Zenon DEF ClockInv, TurnsCounted, Uncounted, Pending, Elapsed
  <1> HIDE DEF e, w, a, Pending, Uncounted, Booting, ClockInv
  <1>12. Pending /\ 1 \in armed => ~(1 \in Fires)
    BY <1>1, <1>3, <1>4, <1>5, <1>10
  <1>13. /\ ~Booting' => 1 \in armed' \cup nvic'
         /\ 1 \in armed' => /\ 1 \notin nvic' /\ alarm'[1] = alarmTime'[1]
                           /\ a' = Turn - e'
    BY <1>1, <1>2, <1>3, <1>4, <1>5, <1>10
  <1>14. 1 \in nvic' => ~overflow'
    <2>1. CASE 1 \in nvic
      BY <2>1, <1>2, <1>5
    <2>2. CASE 1 \in Fires
      BY <2>2, <1>1, <1>2, <1>8, <1>12
    <2> QED
      BY <2>1, <2>2, <1>2
  <1>15. Pending' => e' <= w'
    BY <1>1, <1>2, <1>3, <1>4, <1>5, <1>8, <1>10
  <1>16. Booting' \/ togo' = target' - e' - Uncounted'
    <2> SUFFICES ASSUME ~Booting
                 PROVE  togo' = target' - e' - Uncounted'
      BY <1>2
    <2>0. togo = target - e - Uncounted /\ togo' = togo - 1 /\ target' = target
      BY <1>2, <1>6, <1>9
    <2>1. CASE 1 \in Fires
      <3>1. ~Pending /\ Pending' /\ e = Turn - 1 /\ e' = 0
        <4>1. 1 \in armed /\ a = 1 /\ 1 \in nvic'
          BY <2>1, <1>1, <1>2
        <4>2. ~Pending
          BY <2>1, <4>1, <1>12
        <4>3. Pending'
          BY <4>1, <1>8
        <4> QED
          BY <4>1, <4>2, <4>3, <1>1, <1>5, <1>10
      <3>2. Uncounted = 0 /\ Uncounted' = Turn
        BY <3>1, <1>8
      <3> QED
        BY <2>0, <3>1, <3>2, <1>10
    <2>2. CASE 1 \notin Fires
      <3>1. Pending' <=> Pending
        BY <2>2, <1>2, <1>8
      <3>2. Uncounted' = Uncounted /\ Uncounted \in Int
        BY <3>1, <1>8, <1>10
      <3>3. e' = e + 1
        <4>1. CASE Pending
          BY <4>1, <1>1, <1>3, <1>4, <1>5, <1>10
        <4>2. CASE ~Pending
          <5>1. 1 \in armed /\ a = Turn - e /\ a # 1
            BY <4>2, <2>2, <1>1, <1>5, <1>8
          <5> QED
            BY <5>1, <1>1, <1>10
        <4> QED
          BY <4>1, <4>2
      <3> QED
        BY <2>0, <3>2, <3>3, <1>1, <1>10
    <2> QED
      BY <2>1, <2>2
  <1> QED
    BY <1>11, <1>13, <1>14, <1>15, <1>16, Zenon

LEMMA ClockStarts ==
  ASSUME TypeInv, TypeInv', ClockInv, StartAlarms
  PROVE  ClockInv'
  <1>1. /\ raw \in 0 .. Raw - 1 /\ origin \in 0 .. Raw - 1
        /\ alarm \in [0 .. 3 -> 0 .. Raw - 1] /\ alarmTime \in [0 .. 2 -> 0 .. Raw - 1]
        /\ nvic' = nvic \cup {0} /\ armed' = armed \cup {1}
    BY DEF TypeInv, TypeOK, StartAlarms
  <1>2. ~Pending' /\ 1 \notin nvic'
    <2>1. Booting /\ tpc # "idle"
      BY DEF StartAlarms, Booting
    <2>2. nvic = {} /\ ~overflow
      BY <2>1 DEF TypeInv, Levels
    <2> QED
      BY <1>1, <2>2 DEF Pending, StartAlarms
  <1>3. alarm'[1] = OverflowAlarm(raw, origin) /\ alarmTime'[1] = OverflowAlarm(raw, origin)
    BY <1>1 DEF StartAlarms, ArmOverflowAlarm
  <1>4. Ahead(alarm[1])' = Turn - Elapsed'
    BY <1>1, <1>3, TurnEnd DEF Ahead, Elapsed, ActualTime, StartAlarms
  <1>5. TurnsCounted'
    <2>1. togo' = target' - ActualTime(raw)' /\ togo' \in Int /\ target' \in Int
      BY DEF StartAlarms, ActualTime, TypeInv, TypeOK
    <2>2. ActualTime(raw)' \in Int
      BY <1>1, TurnStep, Sizes DEF ActualTime, StartAlarms
    <2>3. ~(overflow' \/ 1 \in nvic')
      BY <1>2 DEF Pending
    <2>4. togo' = target' - ActualTime(raw)' - 0
      BY <2>1, <2>2
    <2> QED
      BY <2>3, <2>4 DEF TurnsCounted
  <1> QED
    BY <1>1, <1>2, <1>3, <1>4, <1>5 DEF ClockInv, Pending

LEMMA ClockTurns ==
  ASSUME TypeInv, TypeInv', ClockInv, Alarm1Handler
  PROVE  ClockInv'
  <1>1. /\ raw \in 0 .. Raw - 1 /\ origin \in 0 .. Raw - 1 /\ raw' = raw /\ origin' = origin
        /\ alarm \in [0 .. 3 -> 0 .. Raw - 1] /\ alarmTime \in [0 .. 2 -> 0 .. Raw - 1]
        /\ 1 \in nvic /\ nvic' = nvic \ {1} /\ armed' = armed \cup {1} /\ overflow'
    BY DEF TypeInv, TypeOK, Alarm1Handler
  <1>2. Elapsed' = Elapsed /\ Waited' = Waited /\ Elapsed <= Waited
    BY <1>1 DEF Elapsed, ActualTime, Waited, WaitBefore, Alarm1Handler, ClockInv
  <1>3. alarm'[1] = OverflowAlarm(raw, origin) /\ alarmTime'[1] = OverflowAlarm(raw, origin)
    BY <1>1 DEF Alarm1Handler, ArmOverflowAlarm
  <1>4. Ahead(alarm[1])' = Turn - Elapsed'
    BY <1>1, <1>3, TurnEnd DEF Ahead, Elapsed, ActualTime
  <1>5. TurnsCounted'
    BY <1>1 DEF ClockInv, TurnsCounted, Booting, Alarm1Handler, ActualTime
  <1> QED
    BY <1>1, <1>2, <1>3, <1>4, <1>5 DEF ClockInv

LEMMA ClockStep ==
  ASSUME TypeInv, TypeInv', ClockInv, [Next]_picoVars
  PROVE  ClockInv'
  <1>1. CASE StartTimer
    <2>1. Booting /\ Booting' /\ armed' = {} /\ nvic' = {} /\ ~overflow'
      <3>1. Booting /\ Booting' /\ tpc # "idle"
        BY <1>1 DEF StartTimer, Booting
      <3> QED
        BY <1>1, <3>1 DEF StartTimer, TypeInv, Levels
    <2> QED
      BY <2>1 DEF ClockInv, TurnsCounted
  <1> QED
    BY <1>1, ClockKeptOr, TurnsKeptOr, WaitGrows, ClockKeptStep, ClockTick,
       ClockStarts, ClockTurns

(***************************************************************************)
(* The next arrival.                                                       *)
(***************************************************************************)

(* While the kernel runs the arrival is less than two turns late and less  *)
(* than half of the counter ahead.                                         *)
LEMMA TogoIs ==
  ASSUME TypeInv, ClockInv, ArrivalInv, ~Booting
  PROVE  /\ togo = target - Elapsed - Uncounted
         /\ togo < Raw \div 2 - 1 /\ togo > -3 * Turn
         /\ kpc \notin {"time", "serve"} => togo > -Turn - Turn
         /\ kpc \notin {"time", "serve"} /\ ~overflow /\ 1 \notin nvic => togo > -Turn
  <1>1. togo = target - Elapsed - Uncounted
    BY DEF ClockInv, TurnsCounted, Uncounted, Pending, Elapsed
  <1>2. Elapsed \in 0 .. Turn - 1 /\ Elapsed \in Int
    BY ElapsedIs
  <1>3. /\ Uncounted \in Int /\ Uncounted >= 0 /\ Uncounted <= Turn
        /\ ~overflow /\ 1 \notin nvic => Uncounted = 0
    BY Sizes DEF Uncounted, Pending
  <1>4. /\ target \in Int /\ target <= Raw \div 2 - 2
        /\ target >= -Turn /\ (kpc \notin {"time", "serve"} => target >= 0)
    BY Sizes DEF ArrivalInv, TypeInv, TypeOK
  <1> QED
    BY <1>1, <1>2, <1>3, <1>4, Sizes

(* What a step leaves alone that has no part in the next arrival.          *)
ArrivalKept ==
  /\ raw' = raw /\ origin' = origin /\ togo' = togo /\ target' = target
  /\ alarm'[0] = alarm[0] /\ alarmTime'[0] = alarmTime[0]
  /\ (0 \in armed') = (0 \in armed)
  /\ nvic' \cap {0, 1} = nvic \cap {0, 1}
  /\ kpc' = kpc /\ kraw' = kraw /\ overflow' = overflow /\ comparator' = comparator
  /\ Booting' = Booting

ArrivalSteps ==
  \/ Tick \/ StartTimer \/ StartAlarms \/ Alarm0Handler \/ Alarm1Handler
  \/ EnterScheduler \/ TimerIsOverflow \/ GetActualTime
  \/ \E p \in Periods : ServeArrival(p)
  \/ NextArrival \/ ReadCounter \/ ArmAlarm0 \/ CheckAlarm0 \/ DisarmAlarm0
  \/ ClearSoftTimer \/ TestFlags

LEMMA ArrivalKeptOr ==
  ASSUME TypeInv, [Next]_picoVars
  PROVE  ArrivalSteps \/ ArrivalKept
  <1>a. alarm \in [0 .. 3 -> 0 .. Raw - 1] /\ alarmTime \in [0 .. 2 -> 0 .. Raw - 1]
    BY DEF TypeInv, TypeOK
  <1> USE DEF ArmsAt, ArmsNext
  <1>1. CASE Tick
    BY <1>1 DEF ArrivalSteps
  <1>2. CASE StartTimer
    BY <1>2 DEF ArrivalSteps
  <1>3. CASE StartAlarms
    BY <1>3 DEF ArrivalSteps
  <1>4. CASE Alarm0Handler
    BY <1>4 DEF ArrivalSteps
  <1>5. CASE Alarm1Handler
    BY <1>5 DEF ArrivalSteps
  <1>6. CASE EnterScheduler
    BY <1>6 DEF ArrivalSteps
  <1>7. CASE TimerIsOverflow
    BY <1>7 DEF ArrivalSteps
  <1>8. CASE GetActualTime
    BY <1>8 DEF ArrivalSteps
  <1>9. ASSUME NEW p \in Periods, ServeArrival(p)
         PROVE  ArrivalSteps \/ ArrivalKept
    BY <1>9 DEF ArrivalSteps
  <1>10. CASE NextArrival
    BY <1>10 DEF ArrivalSteps
  <1>11. CASE ReadCounter
    BY <1>11 DEF ArrivalSteps
  <1>12. CASE ArmAlarm0
    BY <1>12 DEF ArrivalSteps
  <1>13. CASE CheckAlarm0
    BY <1>13 DEF ArrivalSteps
  <1>14. CASE DisarmAlarm0
    BY <1>14 DEF ArrivalSteps
  <1>15. CASE ClearSoftTimer
    BY <1>15 DEF ArrivalSteps
  <1>16. CASE TestFlags
    BY <1>16 DEF ArrivalSteps
  <1>17. ASSUME NEW e \in Event, UnScheduleTimerEvent(e)
         PROVE  ArrivalSteps \/ ArrivalKept
    BY <1>17, <1>a DEF UnScheduleTimerEvent, ArrivalKept, Booting
  <1>18. ASSUME NEW e \in Event, NEW d \in Delays, ScheduleTimerEvent(e, d)
         PROVE  ArrivalSteps \/ ArrivalKept
    <2>1. ScheduleKept
      BY <1>18, ScheduleKeeps
    <2> QED
      BY <1>a, <2>1 DEF ScheduleKept, ArrivalKept, Booting
  <1>19. CASE ArmHead
    <2>1. /\ alarm'[0] = alarm[0] /\ alarmTime'[0] = alarmTime[0]
          /\ (0 \in armed') = (0 \in armed) /\ nvic' = nvic
      BY <1>19, <1>a DEF ArmHead
    <2> QED
      BY <1>19, <2>1 DEF ArmHead, ArrivalKept, Booting
  <1>20. CASE CheckHead
    <2>1. CASE Due(queue[1])
      <3>1. nvic' = nvic \cup {2} /\ armed' = armed \ {2}
        BY <1>20, <2>1, Zenon DEF CheckHead, ForceIfDue
      <3>2. (0 \in armed') = (0 \in armed) /\ nvic' \cap {0, 1} = nvic \cap {0, 1}
        BY <3>1
      <3> QED
        BY <1>20, <3>2 DEF CheckHead, ArrivalKept, Booting
    <2>2. CASE ~Due(queue[1])
      <3>1. nvic' = nvic /\ armed' = armed
        BY <1>20, <2>2, Zenon DEF CheckHead, ForceIfDue
      <3> QED
        BY <1>20, <3>1 DEF CheckHead, ArrivalKept, Booting
    <2> QED
      BY <2>1, <2>2
  <1>21. CASE TimerIntHandler
    BY <1>21, <1>a DEF TimerIntHandler, ArrivalKept, Booting
  <1>22. CASE TestHead
    BY <1>22, <1>a DEF TestHead, ArrivalKept, Booting
  <1>23. CASE GatedSleep
    BY <1>23, <1>a DEF GatedSleep, ArrivalKept, Booting
  <1>24. CASE PlanSleep
    BY <1>24, <1>a DEF PlanSleep, ArrivalKept, Booting
  <1>25. CASE WakeUp
    BY <1>25, <1>a DEF WakeUp, ArrivalKept, Booting
  <1>26. CASE RaiseSystemClock
    BY <1>26, <1>a DEF RaiseSystemClock, ArrivalKept, Booting
  <1>27. CASE UNCHANGED picoVars
    BY <1>27, <1>a DEF picoVars, ArrivalKept, Booting
  <1> QED
    BY <1>1, <1>2, <1>3, <1>4, <1>5, <1>6, <1>7, <1>8, <1>9, <1>10, <1>11, <1>12, <1>13,
       <1>14, <1>15, <1>16, <1>17, <1>18, <1>19, <1>20, <1>21, <1>22, <1>23, <1>24, <1>25,
       <1>26, <1>27 DEF Next

LEMMA ArrivalInit == Init => ArrivalInv
  <1> SUFFICES ASSUME Init
               PROVE  ArrivalInv
    OBVIOUS
  <1>1. target \in Int /\ target >= 0 /\ target <= Raw \div 2 - 2
    BY PicoAssumption, Sizes DEF Init
  <1> QED
    BY <1>1 DEF Init, ArrivalInv, Booting

LEMMA ArrivalKeptStep ==
  ASSUME ArrivalInv, ArrivalKept
  PROVE  ArrivalInv'
  BY DEF ArrivalInv, ArrivalKept, Announced, Meets, Ahead, ActualTime

(* What holds where the kernel decides that it has armed enough.           *)
Sure == togo > 0 /\ (target >= Turn \/ (0 \in armed /\ Meets(alarm[0])))

LEMMA SureTicks ==
  ASSUME TypeInv, ClockInv, ArrivalInv, Tick, ~Booting, ~Announced, ~Announced', Sure,
         kpc \in {"clear", "flags", "out"}
  PROVE  Sure'
  <1>1. /\ togo' = togo - 1 /\ target' = target /\ alarm' = alarm
        /\ nvic' = nvic \cup Fires /\ armed' = armed \ Fires
    BY DEF Tick
  <1>2. ~overflow /\ nvic \cap {0, 1} = {} /\ 0 \notin Fires /\ 1 \notin Fires
    BY <1>1 DEF Announced
  <1>3. /\ togo = target - Elapsed /\ togo \in Int /\ target \in Int
        /\ togo < Raw \div 2 - 1 /\ togo > 0
    <2>1. togo = target - Elapsed - Uncounted /\ Uncounted = 0 /\ togo < Raw \div 2 - 1
      BY <1>2, TogoIs DEF Uncounted, Pending
    <2>2. togo \in Int /\ target \in Int /\ Elapsed \in Int
      BY ElapsedIs DEF TypeInv, TypeOK
    <2> QED
      BY <2>1, <2>2 DEF Sure
  <1>4. CASE target >= Turn
    <2>1. 1 \in armed /\ Ahead(alarm[1]) = Turn - Elapsed
      BY <1>2 DEF ClockInv
    <2>2. Elapsed \in 0 .. Turn - 1 /\ Ahead(alarm[1]) # 1
      BY <1>2, <2>1, TickMoves
    <2>3. togo - 1 > 0
      BY <1>3, <1>4, <2>1, <2>2, Sizes
    <2> QED
      BY <1>1, <1>4, <2>3 DEF Sure
  <1>5. CASE 0 \in armed /\ Meets(alarm[0])
    <2> DEFINE a == Ahead(alarm[0])
    <2>1. togo % Raw = togo
      BY <1>3, Small, Sizes
    <2>2. a = togo /\ a # 1 /\ a' = (IF a = 0 THEN Raw - 1 ELSE a - 1)
      BY <1>2, <1>5, <2>1, TickMoves DEF Meets
    <2>3. togo - 1 > 0 /\ a' = togo - 1
      BY <1>3, <2>2
    <2>4. (togo - 1) % Raw = togo - 1
      BY <1>3, <2>3, Small, Sizes
    <2>5. Meets(alarm[0])'
      BY <1>1, <2>3, <2>4 DEF Meets
    <2> QED
      BY <1>1, <1>2, <1>5, <2>3, <2>5 DEF Sure
  <1> QED
    BY <1>4, <1>5 DEF Sure

(* A tick brings the arrival nearer and every value.                       *)
LEMMA MeetsTicks ==
  ASSUME TypeInv, Tick, ~Booting, NEW x \in Int, Meets(x)
  PROVE  (x - raw') % Raw = togo' % Raw
  <1>1. /\ raw \in 0 .. Raw - 1 /\ raw' = (raw + 1) % Raw /\ togo \in Int /\ togo' = togo - 1
    BY DEF Tick, TypeInv, TypeOK
  <1>2. (x - raw') % Raw = IF (x - raw) % Raw = 0 THEN Raw - 1 ELSE ((x - raw) % Raw) - 1
    BY <1>1, DistStep
  <1>3. (togo - 1) % Raw = IF togo % Raw = 0 THEN Raw - 1 ELSE (togo % Raw) - 1
    BY <1>1, Sizes, ModStep
  <1> QED
    BY <1>1, <1>2, <1>3 DEF Meets, Ahead

LEMMA ArrivalTick ==
  ASSUME TypeInv, ClockInv, ArrivalInv, Tick
  PROVE  ArrivalInv'
  <1>1. /\ alarm' = alarm /\ alarmTime' = alarmTime /\ overflow' = overflow
        /\ comparator' = comparator /\ target' = target /\ kpc' = kpc /\ kraw' = kraw
        /\ origin' = origin /\ (Booting' <=> Booting)
        /\ armed' = armed \ Fires /\ nvic' = nvic \cup Fires
    BY DEF Tick, Booting
  <1>2. kpc # "out" => ~Booting
    BY DEF TypeInv, Levels, Booting
  <1>3. (0 \in armed => alarm[0] = alarmTime[0])'
    BY <1>1 DEF ArrivalInv
  <1>4. (kpc = "arm" => overflow \/ Meets(kraw + (target - ActualTime(kraw))))'
    <2> SUFFICES ASSUME kpc = "arm", ~overflow
                 PROVE  Meets(kraw + (target - ActualTime(kraw)))'
      BY <1>1
    <2> DEFINE x == kraw + (target - ActualTime(kraw))
    <2>1. x \in Int /\ Meets(x)
      BY TurnStep, Sizes DEF ArrivalInv, TypeInv, TypeOK, ActualTime
    <2>2. x' = x
      BY <1>1 DEF ActualTime
    <2> HIDE DEF x
    <2>3. (x - raw') % Raw = togo' % Raw
      BY <1>2, <2>1, MeetsTicks
    <2>4. Meets(x)'
      BY <2>2, <2>3 DEF Meets, Ahead
    <2> QED
      BY <2>4 DEF x
  <1>5. (kpc = "check" => overflow \/ (Meets(alarmTime[0]) /\ (togo > 0 => 0 \in armed)))'
    <2> SUFFICES ASSUME kpc = "check", ~overflow
                 PROVE  (Meets(alarmTime[0]) /\ (togo > 0 => 0 \in armed))'
      BY <1>1
    <2>1. Meets(alarmTime[0]) /\ (togo > 0 => 0 \in armed) /\ alarmTime[0] \in Int
      BY Sizes DEF ArrivalInv, TypeInv, TypeOK
    <2>2. Meets(alarmTime[0])'
      BY <1>1, <1>2, <2>1, MeetsTicks DEF Meets, Ahead
    <2>3. ASSUME togo' > 0
          PROVE  0 \in armed'
      <3>1. togo' = togo - 1 /\ togo \in Int /\ togo < Raw \div 2 - 1
        BY <1>2, TogoIs DEF Tick, TypeInv, TypeOK
      <3>2. togo % Raw = togo /\ togo > 1
        BY <2>3, <3>1, Small, Sizes
      <3>3. 0 \in armed /\ Ahead(alarm[0]) = togo
        BY <2>1, <3>1, <3>2 DEF ArrivalInv, Meets
      <3>4. 0 \notin Fires
        BY <3>2, <3>3, TickMoves
      <3> QED
        BY <1>1, <3>3, <3>4
    <2> QED
      BY <2>2, <2>3
  <1>6. (kpc \in {"clear", "flags", "out"} /\ ~Booting /\ ~Announced => Sure)'
    <2> SUFFICES ASSUME kpc \in {"clear", "flags", "out"}, ~Booting, ~Announced'
                 PROVE  Sure'
      BY <1>1
    <2>1. ~Announced
      BY <1>1 DEF Announced
    <2>2. Sure
      BY <2>1 DEF ArrivalInv, Sure
    <2> QED
      BY <2>1, <2>2, SureTicks
  <1>7. (target <= Raw \div 2 - 2 /\ target >= IF kpc \in {"time", "serve"} THEN -Turn ELSE 0)'
    BY <1>1 DEF ArrivalInv
  <1> QED
    BY <1>3, <1>4, <1>5, <1>6, <1>7 DEF ArrivalInv, Sure

(* Reading the counter and arming alarm 0 from what was read.              *)
LEMMA ArrivalArms ==
  ASSUME TypeInv, TypeInv', ClockInv, ArrivalInv, ReadCounter \/ ArmAlarm0
  PROVE  ArrivalInv'
  <1>1. ~Booting /\ 1 \notin nvic
    BY DEF ReadCounter, ArmAlarm0, Kernel, KernelRuns, Requested, TypeInv, Levels, Booting
  <1>2. /\ raw \in 0 .. Raw - 1 /\ kraw \in 0 .. Raw - 1 /\ origin \in 0 .. Raw - 1
        /\ togo \in Int /\ target \in Int
        /\ alarm \in [0 .. 3 -> 0 .. Raw - 1] /\ alarmTime \in [0 .. 2 -> 0 .. Raw - 1]
    BY DEF TypeInv, TypeOK
  <1>3. CASE ReadCounter
    <2>1. ASSUME ~overflow
          PROVE  Meets(raw + (target - ActualTime(raw)))
      <3>1. togo = target - Elapsed - Uncounted /\ Uncounted = 0 /\ Elapsed \in Int
        BY <1>1, <2>1, TogoIs, ElapsedIs DEF Uncounted, Pending
      <3>2. target - ActualTime(raw) = togo
        BY <1>2, <3>1 DEF Elapsed
      <3>3. (raw + togo) - raw = togo
        BY <1>2
      <3> QED
        BY <3>2, <3>3 DEF Meets, Ahead
    <2>2. /\ kpc' \in {"arm", "disarm"} /\ kraw' = raw /\ raw' = raw /\ target' = target
          /\ togo' = togo /\ overflow' = overflow /\ origin' = origin /\ armed' = armed
          /\ alarm' = alarm /\ alarmTime' = alarmTime /\ kpc = "set"
      BY <1>3 DEF ReadCounter, Kernel
    <2>3. (kpc = "arm" => overflow \/ Meets(kraw + (target - ActualTime(kraw))))'
      BY <2>1, <2>2 DEF Meets, Ahead, ActualTime
    <2> QED
      BY <2>2, <2>3 DEF ArrivalInv
  <1>4. CASE ArmAlarm0
    <2> DEFINE x == kraw + target - ActualTime(kraw)
    <2>1. x \in Int /\ x = kraw + (target - ActualTime(kraw))
      BY <1>2, TurnStep, Sizes DEF ActualTime
    <2>2. /\ alarmTime'[0] = x % Raw /\ alarm'[0] = x % Raw /\ 0 \in armed' /\ kpc' = "check"
          /\ raw' = raw /\ target' = target /\ togo' = togo /\ overflow' = overflow /\ kpc = "arm"
      BY <1>2, <1>4 DEF ArmAlarm0, Kernel
    <2>3. overflow \/ Meets(x)
      BY <2>1, <2>2 DEF ArrivalInv
    <2> HIDE DEF x
    <2>4. ((x % Raw) - raw) % Raw = (x - raw) % Raw
      BY <1>2, <2>1, Remainders
    <2>5. overflow' \/ Meets(alarmTime[0])'
      BY <2>2, <2>3, <2>4 DEF Meets, Ahead
    <2> QED
      BY <2>2, <2>5 DEF ArrivalInv
  <1> QED
    BY <1>3, <1>4

(* Looking once more whether the alarm is ahead, and being content.        *)
LEMMA ArrivalContent ==
  ASSUME TypeInv, ClockInv, ArrivalInv, CheckAlarm0 \/ NextArrival
  PROVE  ArrivalInv'
  <1>1. ~Booting /\ 1 \notin nvic
    BY DEF CheckAlarm0, NextArrival, Kernel, KernelRuns, Requested, TypeInv, Levels, Booting
  <1>2. /\ raw \in 0 .. Raw - 1 /\ togo \in Int /\ target \in Int /\ ktime \in 0 .. Turn - 1
        /\ alarmTime \in [0 .. 2 -> 0 .. Raw - 1]
    BY DEF TypeInv, TypeOK
  <1>3. ~overflow => togo = target - Elapsed /\ togo > -3 * Turn /\ togo < Raw \div 2 - 1
    <2> HAVE ~overflow
    <2>1. /\ togo = target - Elapsed - Uncounted /\ Uncounted = 0 /\ Elapsed \in Int
          /\ togo > -3 * Turn /\ togo < Raw \div 2 - 1
      BY <1>1, TogoIs, ElapsedIs DEF Uncounted, Pending
    <2> QED
      BY <1>2, <2>1
  <1>4. /\ raw' = raw /\ origin' = origin /\ target' = target /\ togo' = togo /\ alarm' = alarm
        /\ alarmTime' = alarmTime /\ overflow' = overflow /\ comparator' = comparator
        /\ armed' = armed /\ nvic' = nvic
    BY DEF CheckAlarm0, NextArrival
  <1>5. CASE CheckAlarm0
    <2>1. kpc = "check" /\ kpc' \in {"clear", "disarm"} /\ (kpc' = "clear" => StillAhead)
      BY <1>5 DEF CheckAlarm0, Kernel
    <2>2. ASSUME kpc' = "clear", ~overflow
          PROVE  Sure
      <3>1. Meets(alarmTime[0]) /\ (togo > 0 => 0 \in armed)
        BY <2>1, <2>2 DEF ArrivalInv
      <3>2. togo > -Turn /\ togo < Raw \div 2 - 1
        BY <1>1, <2>1, <2>2, TogoIs
      <3>3. alarmTime[0] \in Int /\ raw \in Int /\ (alarmTime[0] - raw) % Raw = togo % Raw
        BY <1>2, <3>1, Sizes DEF Meets, Ahead
      <3>4. Signed(alarmTime[0], raw) = togo
        <4>1. togo >= Raw \div 2 - Raw /\ togo < Raw \div 2
          BY <1>2, <3>2, Sizes
        <4> QED
          BY <1>2, <3>3, <4>1, SignedIs
      <3>5. togo > 0
        BY <2>1, <2>2, <3>4 DEF StillAhead
      <3> QED
        BY <3>1, <3>5 DEF Sure, ArrivalInv
    <2>3. (kpc \in {"clear", "flags", "out"} /\ ~Booting /\ ~Announced => Sure)'
      BY <1>4, <2>1, <2>2 DEF Announced, Sure, Meets, Ahead
    <2> QED
      BY <1>4, <2>1, <2>3 DEF ArrivalInv, Sure
  <1>6. CASE NextArrival
    <2>1. /\ kpc = "serve" /\ kpc' \in {"set", "clear"} /\ target > ktime
          /\ kpc' = "clear" => target >= Turn
      BY <1>6 DEF NextArrival, Kernel
    <2>2. ASSUME kpc' = "clear", ~overflow
          PROVE  Sure
      <3>1. togo > 0
        BY <1>2, <1>3, <2>1, <2>2, ElapsedIs, Sizes
      <3> QED
        BY <2>1, <2>2, <3>1 DEF Sure
    <2>3. (kpc \in {"clear", "flags", "out"} /\ ~Booting /\ ~Announced => Sure)'
      BY <1>4, <2>1, <2>2 DEF Announced, Sure, Meets, Ahead
    <2>4. target >= 0
      BY <1>2, <2>1, Sizes
    <2> QED
      BY <1>4, <2>1, <2>3, <2>4 DEF ArrivalInv, Sure
  <1> QED
    BY <1>5, <1>6

LEMMA ArrivalStep ==
  ASSUME TypeInv, TypeInv', ClockInv, ArrivalInv, [Next]_picoVars
  PROVE  ArrivalInv'
  <1> USE DEF Kernel
  <1>1. CASE StartTimer
    BY <1>1 DEF StartTimer, ArrivalInv, TypeInv, Levels, Booting
  <1>2. CASE StartAlarms
    <2>1. 0 \in nvic' /\ 0 \notin armed' /\ kpc = "out"
      BY <1>2 DEF StartAlarms, TypeInv, Levels, Booting
    <2> QED
      BY <1>2, <2>1 DEF StartAlarms, ArrivalInv, Announced
  <1>3. CASE Alarm0Handler
    BY <1>3 DEF Alarm0Handler, ArrivalInv, Announced, Meets, Ahead, ActualTime
  <1>4. CASE Alarm1Handler
    <2>1. /\ alarm'[0] = alarm[0] /\ alarmTime'[0] = alarmTime[0] /\ overflow'
          /\ (0 \in armed' <=> 0 \in armed)
      BY <1>4 DEF Alarm1Handler, ArmOverflowAlarm, TypeInv, TypeOK
    <2> QED
      BY <1>4, <2>1 DEF Alarm1Handler, ArrivalInv, Announced
  <1>5. CASE EnterScheduler
    BY <1>5 DEF EnterScheduler, ArrivalInv
  <1>6. CASE TimerIsOverflow
    <2>1. target' <= Raw \div 2 - 2 /\ target' >= -Turn
      BY <1>6, Sizes DEF TimerIsOverflow, ArrivalInv, TypeInv, TypeOK
    <2> QED
      BY <1>6, <2>1 DEF TimerIsOverflow, ArrivalInv
  <1>7. CASE GetActualTime
    BY <1>7 DEF GetActualTime, ArrivalInv
  <1>8. ASSUME NEW p \in Periods, ServeArrival(p)
        PROVE  ArrivalInv'
    <2>1. p \in Int /\ p >= 1 /\ p <= Raw \div 2 - Turn - 1
      BY PicoAssumption, Sizes
    <2>2. target' = target + p /\ target <= ktime /\ ktime <= Turn - 1 /\ target >= -Turn
      BY <1>8 DEF ServeArrival, ArrivalInv, TypeInv, TypeOK
    <2>3. target' <= Raw \div 2 - 2 /\ target' >= -Turn
      <3>1. ktime \in Int /\ target \in Int
        BY Sizes DEF TypeInv, TypeOK
      <3> QED
        BY <2>1, <2>2, <3>1, Sizes
    <2> QED
      BY <1>8, <2>3 DEF ServeArrival, ArrivalInv
  <1>9. CASE DisarmAlarm0
    BY <1>9, Sizes DEF DisarmAlarm0, ArrivalInv, TypeInv, TypeOK
  <1>10. CASE ClearSoftTimer
    BY <1>10 DEF ClearSoftTimer, ArrivalInv, Announced, Meets, Ahead, Booting
  <1>11. CASE TestFlags
    BY <1>11 DEF TestFlags, ArrivalInv, Announced, Meets, Ahead, Booting
  <1> QED
    BY <1>1, <1>2, <1>3, <1>4, <1>5, <1>6, <1>7, <1>8, <1>9, <1>10, <1>11, ArrivalKeptOr,
       ArrivalKeptStep, ArrivalTick, ArrivalArms, ArrivalContent DEF ArrivalSteps

LEMMA ArrivalIsSeen ==
  ASSUME TypeInv, ArrivalInv
  PROVE  ArrivalSeen
  BY DEF ArrivalSeen, ArrivalInv, Announced, TypeInv, Levels, TypeOK

(***************************************************************************)
(* The timer events.                                                       *)
(***************************************************************************)

(* The time of each event, and where alarm 2 is.                           *)
LEMMA LeftIs ==
  ASSUME TypeInv, EventInv
  PROVE  /\ Len(queue) \in Nat /\ DOMAIN queue = 1 .. Len(queue)
         /\ queue = <<>> <=> Len(queue) = 0
         /\ \A i \in 1 .. Len(queue) :
              /\ queue[i].time \in Int /\ Left(i) \in Int
              /\ Left(i) < Raw \div 2 - MaxLatency /\ -Left(i) <= Waited
              /\ Left(i) > -Turn /\ Left(1) <= Left(i)
  <1>1. /\ Len(queue) \in Nat /\ DOMAIN queue = 1 .. Len(queue)
        /\ queue = <<>> <=> Len(queue) = 0
        /\ \A i \in 1 .. Len(queue) : queue[i].time \in 0 .. Raw - 1
    BY QueueIs DEF TypeInv
  <1>2. raw \in Int
    BY Sizes DEF TypeInv, TypeOK
  <1>3. ASSUME NEW i \in 1 .. Len(queue)
        PROVE  /\ queue[i].time \in Int /\ Left(i) \in Int
               /\ Left(i) < Raw \div 2 - MaxLatency /\ -Left(i) <= Waited
               /\ Left(i) > -Turn /\ Left(1) <= Left(i)
    <2>1. queue[i].time \in Int
      BY <1>1, Sizes
    <2>2. Left(i) \in Int
      BY <1>2, <2>1, SignedOf DEF Left
    <2>3. Left(i) < Raw \div 2 - MaxLatency /\ -Left(i) <= Waited
      BY <1>1 DEF EventInv
    <2>4. 1 \in DOMAIN queue /\ i \in DOMAIN queue /\ 1 <= i
      BY <1>1
    <2>5. Left(1) <= Left(i)
      BY <2>4 DEF EventInv
    <2>6. Left(i) > -Turn
      BY <2>2, <2>3, WaitedIs, Sizes
    <2> QED
      BY <2>1, <2>2, <2>3, <2>5, <2>6
  <1> QED
    BY <1>1, <1>3

(* Where nothing is under way, no event is due.                            *)
LEMMA NoneDue ==
  ASSUME TypeInv, EventInv, epc = "out", tpc \notin {"arm", "check"}, 2 \notin nvic
  PROVE  \A i \in 1 .. Len(queue) : Left(i) > 0
  <1>1. \A i \in 1 .. Len(queue) : Left(i) \in Int /\ Left(1) <= Left(i) /\ Left(1) \in Int
    BY LeftIs
  <1>2. queue # <<>> => Signed(alarm[2], raw) > 0 /\ Signed(alarm[2], raw) <= Left(1)
    BY DEF EventInv, EventCovered, Left
  <1>3. Signed(alarm[2], raw) \in Int
    <2>1. alarm[2] \in Int /\ raw \in Int
      BY Sizes DEF TypeInv, TypeOK
    <2> QED
      BY <2>1, SignedOf
  <1> QED
    BY <1>1, <1>2, <1>3, LeftIs

(* What a step leaves alone that has no part in the timer events.          *)
EventKept ==
  /\ raw' = raw /\ queue' = queue
  /\ alarm'[2] = alarm[2] /\ alarmTime'[2] = alarmTime[2]
  /\ (2 \in armed') = (2 \in armed) /\ (2 \in nvic') = (2 \in nvic)
  /\ ArmsAt("check")' = ArmsAt("check")
  /\ (epc' = "out" /\ tpc' \notin {"arm", "check"}) = (epc = "out" /\ tpc \notin {"arm", "check"})

EventSteps ==
  \/ Tick
  \/ \E e \in Event : UnScheduleTimerEvent(e)
                      \/ \E d \in Delays : ScheduleTimerEvent(e, d)
  \/ ArmHead \/ CheckHead \/ TimerIntHandler \/ TestHead

LEMMA EventKeptOr ==
  ASSUME TypeInv, [Next]_picoVars
  PROVE  EventSteps \/ EventKept
  <1> USE DEF TypeInv, ArmsAt
  <1>1. CASE Tick
    BY <1>1 DEF EventSteps
  <1>2. CASE StartTimer
    BY <1>2 DEF StartTimer, EventKept, ArmOverflowAlarm, TypeOK
  <1>3. CASE StartAlarms
    BY <1>3 DEF StartAlarms, EventKept, ArmOverflowAlarm, TypeOK
  <1>4. CASE Alarm0Handler
    BY <1>4 DEF Alarm0Handler, EventKept, ArmOverflowAlarm, TypeOK
  <1>5. CASE Alarm1Handler
    BY <1>5 DEF Alarm1Handler, EventKept, ArmOverflowAlarm, TypeOK
  <1>6. CASE EnterScheduler
    BY <1>6 DEF EnterScheduler, EventKept, ArmOverflowAlarm, TypeOK
  <1>7. CASE TimerIsOverflow
    BY <1>7 DEF TimerIsOverflow, EventKept, ArmOverflowAlarm, TypeOK
  <1>8. CASE GetActualTime
    BY <1>8 DEF GetActualTime, EventKept, ArmOverflowAlarm, TypeOK
  <1>9. ASSUME NEW p \in Periods, ServeArrival(p)
         PROVE  EventSteps \/ EventKept
    BY <1>9 DEF ServeArrival, EventKept, ArmOverflowAlarm, TypeOK
  <1>10. CASE NextArrival
    BY <1>10 DEF NextArrival, EventKept, ArmOverflowAlarm, TypeOK
  <1>11. CASE ReadCounter
    BY <1>11 DEF ReadCounter, EventKept, ArmOverflowAlarm, TypeOK
  <1>12. CASE ArmAlarm0
    BY <1>12 DEF ArmAlarm0, EventKept, ArmOverflowAlarm, TypeOK
  <1>13. CASE CheckAlarm0
    BY <1>13 DEF CheckAlarm0, EventKept, ArmOverflowAlarm, TypeOK
  <1>14. CASE DisarmAlarm0
    BY <1>14 DEF DisarmAlarm0, EventKept, ArmOverflowAlarm, TypeOK
  <1>15. CASE ClearSoftTimer
    BY <1>15 DEF ClearSoftTimer, EventKept, ArmOverflowAlarm, TypeOK
  <1>16. CASE TestFlags
    BY <1>16 DEF TestFlags, EventKept, ArmOverflowAlarm, TypeOK
  <1>17. ASSUME NEW e \in Event, UnScheduleTimerEvent(e)
         PROVE  EventSteps \/ EventKept
    BY <1>17 DEF EventSteps
  <1>18. ASSUME NEW e \in Event, NEW d \in Delays, ScheduleTimerEvent(e, d)
         PROVE  EventSteps \/ EventKept
    BY <1>18 DEF EventSteps
  <1>19. CASE ArmHead
    BY <1>19 DEF EventSteps
  <1>20. CASE CheckHead
    BY <1>20 DEF EventSteps
  <1>21. CASE TimerIntHandler
    BY <1>21 DEF EventSteps
  <1>22. CASE TestHead
    BY <1>22 DEF EventSteps
  <1>23. CASE GatedSleep
    BY <1>23 DEF GatedSleep, EventKept, ArmOverflowAlarm, TypeOK
  <1>24. CASE PlanSleep
    BY <1>24 DEF PlanSleep, EventKept, ArmOverflowAlarm, TypeOK
  <1>25. CASE WakeUp
    BY <1>25 DEF WakeUp, EventKept, ArmOverflowAlarm, TypeOK
  <1>26. CASE RaiseSystemClock
    BY <1>26 DEF RaiseSystemClock, EventKept, ArmOverflowAlarm, TypeOK
  <1>27. CASE UNCHANGED picoVars
    BY <1>27 DEF picoVars, EventKept, ArmOverflowAlarm, TypeOK
  <1> QED
    BY <1>1, <1>2, <1>3, <1>4, <1>5, <1>6, <1>7, <1>8, <1>9, <1>10, <1>11, <1>12, <1>13,
       <1>14, <1>15, <1>16, <1>17, <1>18, <1>19, <1>20, <1>21, <1>22, <1>23, <1>24, <1>25,
       <1>26, <1>27 DEF Next

LEMMA EventKeptStep ==
  ASSUME TypeInv, TypeInv', EventInv, EventKept, Waited' >= Waited \/ GatedSleep
  PROVE  EventInv'
  <1>1. \A i : Left(i)' = Left(i)
    BY DEF EventKept, Left
  <1>2. (\A i, j \in DOMAIN queue : i <= j => Left(i) <= Left(j))'
    BY <1>1 DEF EventKept, EventInv
  <1>3. (\A i \in DOMAIN queue : Left(i) < Raw \div 2 - MaxLatency /\ -Left(i) <= Waited)'
    <2> SUFFICES ASSUME NEW i \in 1 .. Len(queue)
                 PROVE  Left(i) < Raw \div 2 - MaxLatency /\ -Left(i) <= Waited'
      BY <1>1, LeftIs DEF EventKept
    <2>1. /\ Left(i) \in Int /\ Left(i) < Raw \div 2 - MaxLatency /\ -Left(i) <= Waited
          /\ Waited \in Int
      BY LeftIs, WaitedIs
    <2>2. Waited' \in Int /\ Waited' >= 0
      BY WaitedNext
    <2>3. GatedSleep => Left(i) > 0
      BY NoneDue DEF GatedSleep, ThreadRuns, Requested
    <2> QED
      BY <2>1, <2>2, <2>3
  <1>4. (2 \in armed => alarm[2] = alarmTime[2])'
    BY DEF EventKept, EventInv
  <1>5. (ArmsAt("check") => alarmTime[2] = queue[1].time /\ (Left(1) > 0 => 2 \in armed))'
    BY <1>1 DEF EventKept, EventInv
  <1>6. EventCovered'
    BY DEF EventKept, EventInv, EventCovered
  <1> QED
    BY <1>2, <1>3, <1>4, <1>5, <1>6 DEF EventInv

LEMMA EventInit == Init => EventInv
  <1> SUFFICES ASSUME Init
               PROVE  EventInv
    OBVIOUS
  <1>1. queue = <<>> /\ armed = {} /\ epc = "out" /\ tpc = "boot"
    BY DEF Init
  <1> QED
    BY <1>1 DEF EventInv, EventCovered, ArmsAt

(* A tick brings each event nearer, and one that is due has someone at it. *)
LEMMA EventTick ==
  ASSUME TypeInv, TypeInv', EventInv, Tick
  PROVE  EventInv'
  <1>1. /\ raw \in 0 .. Raw - 1 /\ raw' = (raw + 1) % Raw /\ queue' = queue /\ alarm' = alarm
        /\ alarmTime' = alarmTime /\ epc' = epc /\ tpc' = tpc
        /\ armed' = armed \ Fires /\ nvic' = nvic \cup Fires
        /\ raw \in Int /\ alarm[2] \in 0 .. Raw - 1 /\ alarm[2] \in Int
    BY Sizes DEF Tick, TypeInv, TypeOK
  <1>2. ASSUME NEW i \in 1 .. Len(queue)
        PROVE  Left(i)' = Left(i) - 1
    <2>1. queue[i].time \in Int /\ Left(i) \in Int /\ Left(i) > -Turn
      BY LeftIs
    <2>2. Signed(queue[i].time, raw) > Raw \div 2 - Raw
      BY <2>1, Sizes DEF Left
    <2>3. Signed(queue[i].time, (raw + 1) % Raw) = Signed(queue[i].time, raw) - 1
      BY <1>1, <2>1, <2>2, SignedStep
    <2> QED
      BY <1>1, <2>3 DEF Left
  <1>3. (\A i, j \in DOMAIN queue : i <= j => Left(i) <= Left(j))'
    <2>1. \A i, j \in 1 .. Len(queue) : i <= j => Left(i) <= Left(j)
      BY LeftIs DEF EventInv
    <2>2. ASSUME NEW i \in 1 .. Len(queue), NEW j \in 1 .. Len(queue), i <= j
          PROVE  Left(i)' <= Left(j)'
      <3>1. Left(i)' = Left(i) - 1 /\ Left(j)' = Left(j) - 1 /\ Left(i) <= Left(j)
        BY <1>2, <2>1, <2>2
      <3>2. Left(i) \in Int /\ Left(j) \in Int
        BY LeftIs
      <3> QED
        BY <3>1, <3>2
    <2> QED
      BY <1>1, <2>2, LeftIs
  <1>4. (\A i \in DOMAIN queue : Left(i) < Raw \div 2 - MaxLatency /\ -Left(i) <= Waited)'
    <2> SUFFICES ASSUME NEW i \in 1 .. Len(queue)
                 PROVE  Left(i)' < Raw \div 2 - MaxLatency /\ -Left(i)' <= Waited'
      BY <1>1, LeftIs
    <2>1. /\ Left(i) \in Int /\ Left(i) < Raw \div 2 - MaxLatency /\ -Left(i) <= Waited
          /\ Waited \in Int /\ Waited' \in Int /\ Waited' >= 0 /\ Left(i)' = Left(i) - 1
      BY <1>2, LeftIs, WaitedIs, WaitedNext
    <2>2. CASE Busy
      <3>1. busyFor' = busyFor + 1 /\ WaitBefore' = WaitBefore
        BY <2>2 DEF Tick, WaitBefore
      <3>2. busyFor \in Nat /\ WaitBefore \in Nat
        BY Sizes DEF TypeInv, TypeOK, WaitBefore
      <3>3. Waited' = (busyFor + 1) + WaitBefore /\ Waited = busyFor + WaitBefore
        BY <3>1 DEF Waited
      <3>4. Waited' = Waited + 1
        BY <3>2, <3>3
      <3> QED
        BY <2>1, <3>4, Sizes
    <2>3. CASE ~Busy
      <3>1. epc = "out" /\ tpc \notin {"arm", "check"} /\ 2 \notin nvic
        BY <2>3 DEF Busy, Asleep
      <3>2. Left(i) > 0
        BY <3>1, NoneDue
      <3> QED
        BY <2>1, <3>2, Sizes
    <2> QED
      BY <2>2, <2>3
  <1>5. (2 \in armed => alarm[2] = alarmTime[2])'
    BY <1>1 DEF EventInv
  <1>6. (ArmsAt("check") => alarmTime[2] = queue[1].time /\ (Left(1) > 0 => 2 \in armed))'
    <2> SUFFICES ASSUME ArmsAt("check")
                 PROVE  alarmTime[2] = queue[1].time /\ (Left(1)' > 0 => 2 \in armed')
      BY <1>1 DEF ArmsAt
    <2>1. alarmTime[2] = queue[1].time /\ (Left(1) > 0 => 2 \in armed) /\ queue # <<>>
      BY DEF EventInv, TypeInv, Levels
    <2>2. 1 \in 1 .. Len(queue)
      BY <2>1, LeftIs
    <2>3. Left(1)' = Left(1) - 1 /\ Left(1) \in Int
      BY <1>2, <2>2, LeftIs
    <2>4. ASSUME Left(1)' > 0
          PROVE  2 \in armed'
      <3>1. Left(1) > 1 /\ 2 \in armed
        BY <2>1, <2>3, <2>4
      <3>2. Ahead(alarm[2]) = Left(1)
        <4>1. alarm[2] = queue[1].time
          BY <2>1, <3>1 DEF EventInv
        <4>2. Signed(alarm[2], raw) > 0 => (alarm[2] - raw) % Raw = Signed(alarm[2], raw)
          BY <1>1, SignedOf
        <4> QED
          BY <2>3, <3>1, <4>1, <4>2 DEF Ahead, Left
      <3>3. 2 \notin Fires
        BY <3>1, <3>2, TickMoves
      <3> QED
        BY <1>1, <3>1, <3>3
    <2> QED
      BY <2>1, <2>4
  <1>7. EventCovered'
    <2> SUFFICES ASSUME queue # <<>>, epc = "out", tpc \notin {"arm", "check"}, 2 \notin nvic'
                 PROVE  /\ 2 \in armed' /\ Signed(alarm[2], raw') > 0
                        /\ Signed(alarm[2], raw') <= Left(1)'
      BY <1>1 DEF EventCovered, Left
    <2> DEFINE s == Signed(alarm[2], raw)
    <2>1. 2 \notin nvic /\ 2 \notin Fires
      BY <1>1
    <2>2. 2 \in armed /\ s > 0 /\ s <= Left(1)
      BY <2>1 DEF EventInv, EventCovered, Left
    <2>3. s \in Int /\ (alarm[2] - raw) % Raw = s
      BY <1>1, <2>2, SignedOf
    <2>4. s # 1
      BY <2>1, <2>2, <2>3, TickMoves DEF Ahead
    <2>5. Signed(alarm[2], raw') = s - 1
      <3>1. Signed(alarm[2], raw) > Raw \div 2 - Raw
        BY <2>2, <2>3, Sizes
      <3> QED
        BY <1>1, <3>1, SignedStep
    <2>6. Left(1)' = Left(1) - 1 /\ Left(1) \in Int
      BY <1>2, LeftIs
    <2> HIDE DEF s
    <2> QED
      BY <1>1, <2>1, <2>2, <2>3, <2>4, <2>5, <2>6
  <1> QED
    BY <1>3, <1>4, <1>5, <1>6, <1>7 DEF EventInv

(* The alarm is set to the first event, and looked at once more.           *)
LEMMA EventArm ==
  ASSUME TypeInv, TypeInv', EventInv, ArmHead \/ CheckHead
  PROVE  EventInv'
  <1>1. /\ raw' = raw /\ queue' = queue /\ queue # <<>>
        /\ alarm \in [0 .. 3 -> 0 .. Raw - 1] /\ alarmTime \in [0 .. 2 -> 0 .. Raw - 1]
    BY DEF ArmHead, CheckHead, TypeInv, TypeOK, Levels
  <1>2. \A i : Left(i)' = Left(i)
    BY <1>1 DEF Left
  <1>3. /\ (\A i, j \in DOMAIN queue : i <= j => Left(i) <= Left(j))'
        /\ (\A i \in DOMAIN queue : Left(i) < Raw \div 2 - MaxLatency /\ -Left(i) <= Waited)'
    <2>1. Waited' = Waited
      BY DEF ArmHead, CheckHead, ArmsAt, ArmsNext, Waited, WaitBefore, TypeInv, Steps, Levels
    <2> QED
      BY <1>1, <1>2, <2>1 DEF EventInv
  <1>4. CASE ArmHead
    <2>1. /\ alarm'[2] = queue[1].time /\ alarmTime'[2] = queue[1].time /\ 2 \in armed'
          /\ epc' = "check" \/ tpc' = "check"
      BY <1>1, <1>4 DEF ArmHead, ArmsNext
    <2> QED
      BY <1>1, <1>3, <2>1 DEF EventInv, EventCovered
  <1>5. CASE CheckHead
    <2>1. ~ArmsAt("check")' /\ alarm' = alarm /\ alarmTime' = alarmTime
      BY <1>5 DEF CheckHead, ArmsAt, TypeInv, Levels
    <2>2. ArmsAt("check")
      BY <1>5 DEF CheckHead
    <2>3. alarmTime[2] = queue[1].time /\ (Left(1) > 0 => 2 \in armed)
      BY <2>2 DEF EventInv
    <2>4. Left(1) \in Int
      BY <1>1, LeftIs
    <2>5. CASE Due(queue[1])
      <3>1. 2 \in nvic' /\ 2 \notin armed'
        BY <1>5, <2>5 DEF CheckHead, ForceIfDue
      <3> QED
        BY <1>3, <2>1, <3>1 DEF EventInv, EventCovered
    <2>6. CASE ~Due(queue[1])
      <3>1. armed' = armed /\ nvic' = nvic
        BY <1>5, <2>6, Zenon DEF CheckHead, ForceIfDue
      <3>2. Left(1) > 0
        BY <2>4, <2>6 DEF Due, Left
      <3>3. 2 \in armed /\ alarm[2] = queue[1].time
        BY <2>3, <3>2 DEF EventInv
      <3>4. EventCovered'
        BY <1>1, <1>2, <2>1, <2>4, <3>1, <3>2, <3>3 DEF EventCovered, Left
      <3> QED
        BY <1>3, <2>1, <3>1, <3>4 DEF EventInv
    <2> QED
      BY <2>5, <2>6
  <1> QED
    BY <1>4, <1>5

(* The handler takes the events that are due.                              *)
LEMMA EventHandle ==
  ASSUME TypeInv, TypeInv', EventInv, TimerIntHandler \/ TestHead
  PROVE  EventInv'
  <1>1. /\ raw' = raw /\ alarm' = alarm /\ alarmTime' = alarmTime /\ armed' = armed
        /\ Waited' = Waited /\ ~ArmsAt("check")'
        /\ tpc = "idle"
    BY DEF TimerIntHandler, TestHead, Waited, WaitBefore, ArmsAt, Masked, TypeInv, Levels
  <1>2. CASE TimerIntHandler
    <2>1. queue' = queue /\ epc' = "test"
      BY <1>2 DEF TimerIntHandler
    <2>2. \A i : Left(i)' = Left(i)
      BY <1>1, <2>1 DEF Left
    <2> QED
      BY <1>1, <2>1, <2>2 DEF EventInv, EventCovered
  <1>3. CASE TestHead
    <2>1. CASE queue # <<>> /\ Due(queue[1])
      <3>1. queue' = Tail(queue) /\ epc' # "out"
        BY <1>3, <2>1 DEF TestHead
      <3>2. /\ Len(queue) \in Nat /\ Len(queue') = Len(queue) - 1
            /\ DOMAIN queue' = 1 .. Len(queue) - 1
            /\ \A i \in 1 .. Len(queue) - 1 : queue'[i] = queue[i + 1]
        <4> DEFINE Node == [event : Event, time : 0 .. Raw - 1]
        <4>1. queue \in Seq(Node)
          BY QueueIs DEF TypeInv
        <4> HIDE DEF Node
        <4>2. /\ Tail(queue) \in Seq(Node) /\ Len(Tail(queue)) = Len(queue) - 1
              /\ \A i \in 1 .. Len(Tail(queue)) : Tail(queue)[i] = queue[i + 1]
          BY <2>1, <4>1, HeadTailProperties
        <4>3. DOMAIN Tail(queue) = 1 .. Len(Tail(queue)) /\ Len(queue) \in Nat
          BY <4>1, <4>2, LenProperties
        <4> QED
          BY <3>1, <4>2, <4>3
      <3>3. \A i \in 1 .. Len(queue) - 1 : Left(i)' = Left(i + 1)
        BY <1>1, <3>2 DEF Left
      <3>4. (\A i, j \in DOMAIN queue : i <= j => Left(i) <= Left(j))'
        <4>1. \A i, j \in 1 .. Len(queue) : i <= j => Left(i) <= Left(j)
          BY LeftIs DEF EventInv
        <4> SUFFICES ASSUME NEW i \in 1 .. Len(queue) - 1, NEW j \in 1 .. Len(queue) - 1, i <= j
                     PROVE  Left(i)' <= Left(j)'
          BY <3>2
        <4>2. i + 1 \in 1 .. Len(queue) /\ j + 1 \in 1 .. Len(queue) /\ i + 1 <= j + 1
          BY <3>2
        <4> QED
          BY <3>3, <4>1, <4>2
      <3>5. (\A i \in DOMAIN queue : Left(i) < Raw \div 2 - MaxLatency /\ -Left(i) <= Waited)'
        <4> SUFFICES ASSUME NEW i \in 1 .. Len(queue) - 1
                     PROVE  Left(i)' < Raw \div 2 - MaxLatency /\ -Left(i)' <= Waited'
          BY <3>2
        <4>1. i + 1 \in 1 .. Len(queue) /\ Left(i)' = Left(i + 1)
          BY <3>2, <3>3
        <4> QED
          BY <1>1, <4>1, LeftIs
      <3> QED
        BY <1>1, <3>1, <3>4, <3>5 DEF EventInv, EventCovered
    <2>2. CASE ~(queue # <<>> /\ Due(queue[1]))
      <3>1. queue' = queue /\ (epc' = "out" => queue = <<>>)
        BY <1>3, <2>2 DEF TestHead
      <3>2. \A i : Left(i)' = Left(i)
        BY <1>1, <3>1 DEF Left
      <3> QED
        BY <1>1, <3>1, <3>2 DEF EventInv, EventCovered
    <2> QED
      BY <2>1, <2>2
  <1> QED
    BY <1>2, <1>3

(* Where thread level runs and is not in the middle of a call, every event *)
(* is ahead; taking one out leaves the rest in order.                      *)
LEMMA EventRemove ==
  ASSUME TypeInv, TypeInv', EventInv, NEW e \in Event, UnScheduleTimerEvent(e)
  PROVE  EventInv'
  <1> DEFINE Node == [event : Event, time : 0 .. Raw - 1]
  <1>1. PICK k \in DOMAIN queue :
          queue' = SubSeq(queue, 1, k - 1) \o SubSeq(queue, k + 1, Len(queue))
    BY DEF UnScheduleTimerEvent
  <1>2. /\ raw' = raw /\ alarm' = alarm /\ alarmTime' = alarmTime /\ armed' = armed
        /\ nvic' = nvic /\ tpc' = tpc /\ epc' = epc /\ Waited' = Waited
        /\ tpc = "idle" /\ epc = "out" /\ 2 \notin nvic
    BY DEF UnScheduleTimerEvent, ThreadRuns, Requested, Waited, WaitBefore
  <1>3. queue \in Seq(Node) /\ k \in 1 .. Len(queue) /\ Len(queue) \in Nat
    BY QueueIs DEF TypeInv
  <1> HIDE DEF Node
  <1>4. RemovedAt(queue', queue, k, Node)
    BY <1>1, <1>3, RemoveAt
  <1>5. DOMAIN queue' = 1 .. Len(queue) - 1 /\ Len(queue') = Len(queue) - 1
    BY <1>4 DEF RemovedAt
  <1> DEFINE g(i) == IF i < k THEN i ELSE i + 1
  <1>6. ASSUME NEW i \in 1 .. Len(queue) - 1
        PROVE  g(i) \in 1 .. Len(queue) /\ queue'[i] = queue[g(i)] /\ Left(i)' = Left(g(i))
    <2>1. g(i) \in 1 .. Len(queue)
      BY <1>3
    <2>2. queue'[i] = queue[g(i)]
      BY <1>3, <1>4 DEF RemovedAt
    <2> QED
      BY <1>2, <2>1, <2>2 DEF Left
  <1>7. (\A i, j \in DOMAIN queue : i <= j => Left(i) <= Left(j))'
    <2> SUFFICES ASSUME NEW i \in 1 .. Len(queue) - 1, NEW j \in 1 .. Len(queue) - 1, i <= j
                 PROVE  Left(i)' <= Left(j)'
      BY <1>5
    <2>1. g(i) <= g(j)
      BY <1>3
    <2>2. \A x, y \in 1 .. Len(queue) : x <= y => Left(x) <= Left(y)
      BY LeftIs DEF EventInv
    <2> HIDE DEF g
    <2> QED
      BY <1>6, <2>1, <2>2
  <1>8. (\A i \in DOMAIN queue : Left(i) < Raw \div 2 - MaxLatency /\ -Left(i) <= Waited)'
    <2> HIDE DEF g
    <2> SUFFICES ASSUME NEW i \in 1 .. Len(queue) - 1
                 PROVE  Left(i)' < Raw \div 2 - MaxLatency /\ -Left(i)' <= Waited'
      BY <1>5
    <2> QED
      BY <1>2, <1>6, LeftIs
  <1>9. EventCovered'
    <2> SUFFICES ASSUME queue' # <<>>
                 PROVE  /\ 2 \in armed /\ Signed(alarm[2], raw) > 0
                        /\ Signed(alarm[2], raw) <= Left(1)'
      BY <1>2 DEF EventCovered, Left
    <2>1. 1 \in 1 .. Len(queue) - 1
      <3>1. queue' \in Seq(Node)
        BY <1>4 DEF RemovedAt
      <3>2. Len(queue') # 0
        BY <3>1
      <3> QED
        BY <1>3, <1>5, <3>2
    <2>2. /\ 2 \in armed /\ Signed(alarm[2], raw) > 0 /\ Signed(alarm[2], raw) <= Left(1)
      BY <1>2, <1>3, <2>1, LeftIs DEF EventInv, EventCovered, Left
    <2>3. Left(1) <= Left(g(1)) /\ Left(1)' = Left(g(1)) /\ Left(1) \in Int /\ Left(g(1)) \in Int
      <3> HIDE DEF g
      <3>1. g(1) \in 1 .. Len(queue) /\ Left(1)' = Left(g(1)) /\ 1 \in 1 .. Len(queue)
        BY <1>3, <1>6, <2>1
      <3> QED
        BY <3>1, LeftIs
    <2>4. Signed(alarm[2], raw) \in Int
      <3>1. alarm[2] \in Int /\ raw \in Int
        BY Sizes DEF TypeInv, TypeOK
      <3> QED
        BY <3>1, SignedOf
    <2> HIDE DEF g
    <2> QED
      BY <2>2, <2>3, <2>4
  <1> QED
    BY <1>2, <1>7, <1>8, <1>9 DEF EventInv, ArmsAt

(* A new event is put behind those due no later.                           *)
LEMMA EventInsert ==
  ASSUME TypeInv, TypeInv', EventInv, NEW e \in Event, NEW d \in Delays,
         ScheduleTimerEvent(e, d)
  PROVE  EventInv'
  <1> DEFINE node == [event |-> e, time |-> (raw + d) % Raw]
             Node == [event : Event, time : 0 .. Raw - 1]
  <1>1. PICK n \in 0 .. Len(queue) :
          /\ Behind(n, node.time)
          /\ queue' = SubSeq(queue, 1, n) \o <<node>> \o SubSeq(queue, n + 1, Len(queue))
          /\ tpc' = IF n = 0 THEN "arm" ELSE "idle"
    BY PlaceIs DEF TypeInv
  <1>2. /\ raw' = raw /\ alarm' = alarm /\ alarmTime' = alarmTime /\ armed' = armed
        /\ nvic' = nvic /\ epc' = epc
        /\ tpc = "idle" /\ epc = "out" /\ 2 \notin nvic
    BY DEF ScheduleTimerEvent, ThreadRuns, Requested
  <1>3. /\ raw \in 0 .. Raw - 1 /\ raw \in Int
        /\ d \in Int /\ d >= 0 /\ d < Raw \div 2 - MaxLatency
    BY PicoAssumption, Sizes DEF TypeInv, TypeOK
  <1>4. /\ node.time \in 0 .. Raw - 1 /\ node.time \in Int
        /\ Signed(node.time, raw) = d
    <2> DEFINE t == (raw + d) % Raw
    <2>1. t \in 0 .. Raw - 1 /\ (t - raw) % Raw = d % Raw
      BY <1>3, DistOf
    <2> HIDE DEF t
    <2>2. t \in Int /\ d >= Raw \div 2 - Raw /\ d < Raw \div 2
      BY <1>3, <2>1, Sizes
    <2>3. Signed(t, raw) = d
      BY <1>3, <2>1, <2>2, SignedIs
    <2>4. node.time = t
      BY DEF t
    <2> QED
      BY <2>1, <2>2, <2>3, <2>4
  <1>5. queue \in Seq(Node) /\ node \in Node /\ Len(queue) \in Nat /\ n \in Nat /\ n <= Len(queue)
    <2>1. queue \in Seq(Node) /\ Len(queue) \in Nat
      BY QueueIs DEF TypeInv
    <2>2. node \in Node
      BY <1>4
    <2> QED
      BY <2>1, <2>2
  <1> HIDE DEF Node, node
  <1>6. InsertedAt(queue', queue, n, node, Node)
    BY <1>1, <1>5, InsertAt
  <1>7. /\ DOMAIN queue' = 1 .. Len(queue) + 1
        /\ \A i \in 1 .. n : queue'[i] = queue[i]
        /\ queue'[n + 1] = node
        /\ \A i \in n + 1 .. Len(queue) : queue'[i + 1] = queue[i]
    <2>1. DOMAIN queue' = 1 .. Len(queue')
      BY <1>6, LenProperties DEF InsertedAt
    <2> QED
      BY <1>6, <2>1 DEF InsertedAt
  <1>8. /\ \A i \in 1 .. n : Left(i)' = Left(i)
        /\ Left(n + 1)' = d
        /\ \A i \in n + 1 .. Len(queue) : Left(i + 1)' = Left(i)
    BY <1>2, <1>4, <1>7 DEF Left
  <1>9. ASSUME NEW i \in 1 .. Len(queue)
        PROVE  /\ Signed(queue[i].time, node.time) = Left(i) - d
               /\ Left(i) \in Int /\ Left(i) < Raw \div 2 - MaxLatency /\ Left(i) > 0
               /\ -Left(i) <= Waited
    <2>1. /\ Left(i) \in Int /\ Left(i) < Raw \div 2 - MaxLatency /\ queue[i].time \in Int
          /\ -Left(i) <= Waited
      BY LeftIs
    <2>2. Left(i) > 0
      BY <1>2, NoneDue
    <2>3. Left(i) - d >= Raw \div 2 - Raw /\ Left(i) - d < Raw \div 2
      <3>1. \A x \in Int : x > 0 /\ x < Raw \div 2 - MaxLatency =>
                             x - d >= Raw \div 2 - Raw /\ x - d < Raw \div 2
        BY <1>3, Sizes
      <3> QED
        BY <2>1, <2>2, <3>1
    <2>4. Signed(queue[i].time, raw) = Left(i)
      BY DEF Left
    <2>5. Signed(queue[i].time, node.time) = Signed(queue[i].time, raw) - Signed(node.time, raw)
      BY <1>3, <1>4, <2>1, <2>3, <2>4, SignedBetween
    <2> QED
      BY <1>4, <2>1, <2>2, <2>4, <2>5
  <1>10. /\ \A i \in 1 .. n : Left(i) <= d
         /\ \A i \in n + 1 .. Len(queue) : d <= Left(i)
    <2>1. /\ n = Len(queue) \/ Signed(queue[n + 1].time, node.time) > 0
          /\ \A j \in 1 .. n : Signed(queue[j].time, node.time) <= 0
      BY <1>1 DEF Behind
    <2>2. ASSUME NEW i \in 1 .. n
          PROVE  Left(i) <= d
      <3>1. i \in 1 .. Len(queue)
        BY <1>5
      <3> QED
        BY <1>3, <1>9, <2>1, <3>1
    <2>3. ASSUME NEW i \in n + 1 .. Len(queue)
          PROVE  d <= Left(i)
      <3>1. i \in 1 .. Len(queue) /\ n + 1 \in 1 .. Len(queue) /\ n + 1 <= i /\ n # Len(queue)
        BY <1>5
      <3>2. Left(n + 1) - d > 0 /\ Left(n + 1) \in Int /\ Left(i) \in Int
        BY <1>9, <2>1, <3>1
      <3>3. Left(n + 1) <= Left(i)
        BY <3>1, LeftIs DEF EventInv
      <3> QED
        BY <1>3, <3>2, <3>3
    <2> QED
      BY <2>2, <2>3
  <1>11. \A i \in 1 .. Len(queue) + 1 :
           \/ i \in 1 .. n /\ Left(i)' = Left(i) /\ Left(i) <= d
           \/ i = n + 1 /\ Left(i)' = d
           \/ i \in n + 2 .. Len(queue) + 1 /\ Left(i)' = Left(i - 1) /\ d <= Left(i - 1)
    <2> SUFFICES ASSUME NEW i \in 1 .. Len(queue) + 1, i \notin 1 .. n, i # n + 1
                 PROVE  /\ i \in n + 2 .. Len(queue) + 1
                        /\ Left(i)' = Left(i - 1) /\ d <= Left(i - 1)
      BY <1>8, <1>10
    <2>1. i - 1 \in n + 1 .. Len(queue) /\ (i - 1) + 1 = i /\ i \in n + 2 .. Len(queue) + 1
      BY <1>5
    <2>2. Left((i - 1) + 1)' = Left(i - 1) /\ d <= Left(i - 1)
      BY <1>8, <1>10, <2>1
    <2>3. Left((i - 1) + 1)' = Left(i)'
      BY <2>1
    <2> QED
      BY <2>1, <2>2, <2>3
  <1>12. (\A i, j \in DOMAIN queue : i <= j => Left(i) <= Left(j))'
    <2> SUFFICES ASSUME NEW i \in 1 .. Len(queue) + 1, NEW j \in 1 .. Len(queue) + 1, i <= j
                 PROVE  Left(i)' <= Left(j)'
      BY <1>7
    <2>1. \A x, y \in 1 .. Len(queue) : x <= y => Left(x) <= Left(y)
      BY LeftIs DEF EventInv
    <2>2. \A x \in 1 .. Len(queue) : Left(x) \in Int
      BY LeftIs
    <2>3. CASE j \in 1 .. n
      <3>1. i \in 1 .. n /\ i \in 1 .. Len(queue) /\ j \in 1 .. Len(queue)
        BY <1>5, <2>3
      <3> QED
        BY <1>8, <2>1, <2>3, <3>1
    <2>4. CASE j = n + 1
      BY <1>3, <1>5, <1>11, <2>4
    <2>5. CASE j \in n + 2 .. Len(queue) + 1
      <3>1. j - 1 \in 1 .. Len(queue) /\ Left(j)' = Left(j - 1) /\ d <= Left(j - 1)
        BY <1>5, <1>11, <2>5
      <3>2. CASE i \in n + 2 .. Len(queue) + 1
        <4>1. i - 1 \in 1 .. Len(queue) /\ Left(i)' = Left(i - 1) /\ i - 1 <= j - 1
          BY <1>5, <1>11, <3>2
        <4> QED
          BY <2>1, <3>1, <4>1
      <3>3. CASE i \in 1 .. n
        <4>1. Left(i)' = Left(i) /\ Left(i) <= d /\ i \in 1 .. Len(queue)
          BY <1>5, <1>11, <3>3
        <4>2. Left(i) \in Int /\ Left(j - 1) \in Int
          BY <2>2, <3>1, <4>1
        <4> QED
          BY <1>3, <3>1, <4>1, <4>2
      <3>4. CASE i = n + 1
        BY <1>8, <3>1, <3>4
      <3> QED
        BY <1>5, <3>2, <3>3, <3>4
    <2> QED
      BY <1>5, <2>3, <2>4, <2>5
  <1>13. (\A i \in DOMAIN queue : Left(i) < Raw \div 2 - MaxLatency /\ -Left(i) <= Waited)'
    <2> SUFFICES ASSUME NEW i \in 1 .. Len(queue) + 1
                 PROVE  Left(i)' < Raw \div 2 - MaxLatency /\ -Left(i)' <= Waited'
      BY <1>7
    <2>1. \E x \in Int : Left(i)' = x /\ x >= 0 /\ x < Raw \div 2 - MaxLatency
      <3>1. CASE i \in 1 .. n
        <4>1. i \in 1 .. Len(queue) /\ Left(i)' = Left(i)
          BY <1>5, <1>8, <3>1
        <4> QED
          BY <1>9, <4>1
      <3>2. CASE i = n + 1
        BY <1>3, <1>8, <3>2
      <3>3. CASE i \in n + 2 .. Len(queue) + 1
        <4>1. i - 1 \in 1 .. Len(queue) /\ Left(i)' = Left(i - 1)
          BY <1>5, <1>11, <3>3
        <4>2. /\ Left(i - 1) \in Int /\ Left(i - 1) > 0
              /\ Left(i - 1) < Raw \div 2 - MaxLatency
          BY <1>9, <4>1
        <4> QED
          BY <4>1, <4>2
      <3> QED
        BY <1>5, <3>1, <3>2, <3>3
    <2> QED
      BY <2>1, WaitedNext
  <1>14. EventCovered'
    <2> SUFFICES ASSUME tpc' # "arm"
                 PROVE  /\ 2 \in armed /\ Signed(alarm[2], raw) > 0
                        /\ Signed(alarm[2], raw) <= Left(1)'
      BY <1>2 DEF EventCovered, Left
    <2>1. n # 0
      BY <1>1
    <2>2. 1 \in 1 .. n /\ queue # <<>>
      BY <1>5, <2>1
    <2>3. Left(1)' = Left(1)
      BY <1>8, <2>2
    <2> QED
      BY <1>2, <2>2, <2>3 DEF EventInv, EventCovered, Left
  <1>15. tpc' \in {"arm", "idle"}
    BY <1>1
  <1> QED
    BY <1>2, <1>12, <1>13, <1>14, <1>15 DEF EventInv, ArmsAt

LEMMA EventStep ==
  ASSUME TypeInv, TypeInv', EventInv, [Next]_picoVars
  PROVE  EventInv'
  <1>1. CASE Tick \/ ArmHead \/ CheckHead \/ TimerIntHandler \/ TestHead
    BY <1>1, EventTick, EventArm, EventHandle
  <1>2. CASE EventKept /\ ~Tick
    BY <1>2, WaitGrows, EventKeptStep
  <1> QED
    BY <1>1, <1>2, EventKeptOr, EventRemove, EventInsert DEF EventSteps

(***************************************************************************)
(* The idle task's sleep.                                                  *)
(***************************************************************************)

(* Once the idle task plans a sleep nothing else runs until it is over.    *)
SleepSteps == Tick \/ GatedSleep \/ PlanSleep \/ WakeUp \/ RaiseSystemClock \/ UNCHANGED picoVars

AwakeKept == tpc' \notin {"plan", "stop", "raise"}

LEMMA SleepKeptOr ==
  ASSUME TypeInv, [Next]_picoVars
  PROVE  SleepSteps \/ AwakeKept
  <1> USE DEF TypeInv
  <1>1. CASE Tick
    BY <1>1 DEF SleepSteps
  <1>2. CASE StartTimer
    BY <1>2 DEF StartTimer, AwakeKept, Levels, ArmsAt, ArmsNext, Kernel, KernelRuns,
       ThreadRuns, Masked
  <1>3. CASE StartAlarms
    BY <1>3 DEF StartAlarms, AwakeKept, Levels, ArmsAt, ArmsNext, Kernel, KernelRuns,
       ThreadRuns, Masked
  <1>4. CASE Alarm0Handler
    BY <1>4 DEF Alarm0Handler, AwakeKept, Levels, ArmsAt, ArmsNext, Kernel, KernelRuns,
       ThreadRuns, Masked
  <1>5. CASE Alarm1Handler
    BY <1>5 DEF Alarm1Handler, AwakeKept, Levels, ArmsAt, ArmsNext, Kernel, KernelRuns,
       ThreadRuns, Masked
  <1>6. CASE EnterScheduler
    BY <1>6 DEF EnterScheduler, AwakeKept, Levels, ArmsAt, ArmsNext, Kernel, KernelRuns,
       ThreadRuns, Masked
  <1>7. CASE TimerIsOverflow
    BY <1>7 DEF TimerIsOverflow, AwakeKept, Levels, ArmsAt, ArmsNext, Kernel,
       KernelRuns, ThreadRuns, Masked
  <1>8. CASE GetActualTime
    BY <1>8 DEF GetActualTime, AwakeKept, Levels, ArmsAt, ArmsNext, Kernel, KernelRuns,
       ThreadRuns, Masked
  <1>9. ASSUME NEW p \in Periods, ServeArrival(p)
         PROVE  SleepSteps \/ AwakeKept
    BY <1>9 DEF ServeArrival, AwakeKept, Levels, ArmsAt, ArmsNext, Kernel, KernelRuns,
       ThreadRuns, Masked
  <1>10. CASE NextArrival
    BY <1>10 DEF NextArrival, AwakeKept, Levels, ArmsAt, ArmsNext, Kernel, KernelRuns,
       ThreadRuns, Masked
  <1>11. CASE ReadCounter
    BY <1>11 DEF ReadCounter, AwakeKept, Levels, ArmsAt, ArmsNext, Kernel, KernelRuns,
       ThreadRuns, Masked
  <1>12. CASE ArmAlarm0
    BY <1>12 DEF ArmAlarm0, AwakeKept, Levels, ArmsAt, ArmsNext, Kernel, KernelRuns,
       ThreadRuns, Masked
  <1>13. CASE CheckAlarm0
    BY <1>13 DEF CheckAlarm0, AwakeKept, Levels, ArmsAt, ArmsNext, Kernel, KernelRuns,
       ThreadRuns, Masked
  <1>14. CASE DisarmAlarm0
    BY <1>14 DEF DisarmAlarm0, AwakeKept, Levels, ArmsAt, ArmsNext, Kernel, KernelRuns,
       ThreadRuns, Masked
  <1>15. CASE ClearSoftTimer
    BY <1>15 DEF ClearSoftTimer, AwakeKept, Levels, ArmsAt, ArmsNext, Kernel,
       KernelRuns, ThreadRuns, Masked
  <1>16. CASE TestFlags
    BY <1>16 DEF TestFlags, AwakeKept, Levels, ArmsAt, ArmsNext, Kernel, KernelRuns,
       ThreadRuns, Masked
  <1>17. ASSUME NEW e \in Event, UnScheduleTimerEvent(e)
         PROVE  SleepSteps \/ AwakeKept
    BY <1>17 DEF UnScheduleTimerEvent, AwakeKept, Levels, ArmsAt, ArmsNext, Kernel,
       KernelRuns, ThreadRuns, Masked
  <1>18. ASSUME NEW e \in Event, NEW d \in Delays, ScheduleTimerEvent(e, d)
         PROVE  SleepSteps \/ AwakeKept
    <2>1. ScheduleKept
      BY <1>18, ScheduleKeeps
    <2> QED
      BY <2>1 DEF ScheduleKept, AwakeKept, Levels, ArmsAt, ArmsNext, Kernel, KernelRuns,
         ThreadRuns, Masked
  <1>19. CASE ArmHead
    BY <1>19 DEF ArmHead, AwakeKept, Levels, ArmsAt, ArmsNext, Kernel, KernelRuns,
       ThreadRuns, Masked
  <1>20. CASE CheckHead
    BY <1>20 DEF CheckHead, AwakeKept, Levels, ArmsAt, ArmsNext, Kernel, KernelRuns,
       ThreadRuns, Masked
  <1>21. CASE TimerIntHandler
    BY <1>21 DEF TimerIntHandler, AwakeKept, Levels, ArmsAt, ArmsNext, Kernel,
       KernelRuns, ThreadRuns, Masked
  <1>22. CASE TestHead
    BY <1>22 DEF TestHead, AwakeKept, Levels, ArmsAt, ArmsNext, Kernel, KernelRuns,
       ThreadRuns, Masked
  <1>23. CASE GatedSleep
    BY <1>23 DEF SleepSteps
  <1>24. CASE PlanSleep
    BY <1>24 DEF SleepSteps
  <1>25. CASE WakeUp
    BY <1>25 DEF SleepSteps
  <1>26. CASE RaiseSystemClock
    BY <1>26 DEF SleepSteps
  <1>27. CASE UNCHANGED picoVars
    BY <1>27 DEF SleepSteps
  <1> QED
    BY <1>1, <1>2, <1>3, <1>4, <1>5, <1>6, <1>7, <1>8, <1>9, <1>10, <1>11, <1>12, <1>13,
       <1>14, <1>15, <1>16, <1>17, <1>18, <1>19, <1>20, <1>21, <1>22, <1>23, <1>24, <1>25,
       <1>26, <1>27 DEF Next

LEMMA SleepInit == Init => SleepInv
  BY DEF Init, SleepInv

(* How far the alarms are, as long as PLL_SYS stands still.                *)
LEMMA StillFar ==
  ASSUME TypeInv, SleepInv, Tick, tpc \in {"stop", "raise"}, NEW n \in armed \cap {0, 1, 2}
  PROVE  Ahead(alarm[n]) \in Int /\ Ahead(alarm[n]) >= 2
  <1>1. /\ n \in 0 .. 3 /\ 3 \in 0 .. 3 /\ busyFor \in Nat
        /\ MaxLatency \in Nat /\ LockUs \in Nat /\ WakeUs \in Nat /\ LockUs + MaxLatency < WakeUs
    BY Sizes DEF TypeInv, TypeOK
  <1>2. Ahead(alarm[n]) \in Int /\ Ahead(alarm[3]) \in Int
    BY <1>1, Sizes, TickMoves
  <1>3. CASE tpc = "stop" /\ 3 \in armed
    <2>1. Ahead(alarm[3]) >= 1 /\ Ahead(alarm[n]) >= Ahead(alarm[3]) + WakeUs
      BY <1>3 DEF SleepInv
    <2> QED
      BY <1>1, <1>2, <2>1
  <1>4. CASE tpc = "stop" /\ 3 \notin armed
    <2>1. 3 \in nvic /\ Ahead(alarm[n]) >= WakeUs - busyFor
      BY <1>4 DEF SleepInv
    <2>2. busyFor < MaxLatency
      BY <1>4, <2>1 DEF Tick, Busy
    <2> QED
      BY <1>1, <1>2, <2>1, <2>2
  <1>5. CASE tpc = "raise"
    <2>1. Ahead(alarm[n]) >= WakeUs - (MaxLatency + busyFor)
      BY <1>5 DEF SleepInv
    <2>2. busyFor < LockUs
      BY <1>5 DEF Tick, Busy, Asleep
    <2> QED
      BY <1>1, <1>2, <2>1, <2>2
  <1> QED
    BY <1>3, <1>4, <1>5

LEMMA SleepTick ==
  ASSUME TypeInv, TypeInv', SleepInv, Tick
  PROVE  SleepInv'
  <1>1. /\ raw \in 0 .. Raw - 1 /\ snow \in 0 .. Raw - 1 /\ raw' = (raw + 1) % Raw
        /\ snow' = snow /\ alarm' = alarm /\ tpc' = tpc /\ armed' = armed \ Fires
        /\ nvic' = nvic \cup Fires /\ busyFor \in Nat /\ busyFor' \in Nat
        /\ Busy => busyFor' = busyFor + 1
    BY DEF Tick, TypeInv, TypeOK
  <1>2. /\ MaxLatency \in Nat /\ LockUs \in Nat /\ WakeUs \in Nat /\ Raw \in Nat
        /\ LockUs + MaxLatency < WakeUs
    BY Sizes
  <1>3. (tpc = "plan" => (raw - snow) % Raw <= busyFor)'
    <2> SUFFICES ASSUME tpc = "plan"
                 PROVE  (raw' - snow) % Raw <= busyFor'
      BY <1>1
    <2>1. (raw - snow) % Raw <= busyFor
      BY DEF SleepInv
    <2>2. busyFor' = busyFor + 1
      BY <1>1 DEF Busy, Asleep
    <2> DEFINE k == raw - snow
    <2>3. (raw' - snow) % Raw = (k + 1) % Raw
      <3>1. (((raw + 1) % Raw) - snow) % Raw = ((raw + 1) - snow) % Raw
        BY <1>1, Remainders, raw + 1 \in Int, snow \in Int
      <3>2. (raw + 1) - snow = k + 1
        BY <1>1
      <3> QED
        BY <1>1, <3>1, <3>2
    <2>4. k \in Int
      BY <1>1
    <2> HIDE DEF k
    <2>5. (k + 1) % Raw = IF k % Raw = Raw - 1 THEN 0 ELSE (k % Raw) + 1
      BY <2>4, Sizes, ModStep
    <2>6. k % Raw \in 0 .. Raw - 1 /\ k % Raw <= busyFor
      BY <2>1, <2>4, Sizes, DivMod DEF k
    <2> QED
      BY <1>1, <2>2, <2>3, <2>5, <2>6
  <1>4. (tpc = "stop" => 3 \in armed \cup nvic)'
    BY <1>1 DEF SleepInv
  <1>5. /\ Ahead(alarm[3]) \in 0 .. Raw - 1
        /\ 3 \in Fires <=> 3 \in armed /\ Ahead(alarm[3]) = 1
        /\ Ahead(alarm[3])' = IF Ahead(alarm[3]) = 0 THEN Raw - 1 ELSE Ahead(alarm[3]) - 1
    BY TickMoves
  <1>6. (tpc = "stop" /\ 3 \in armed => Ahead(alarm[3]) >= 1)'
    BY <1>1, <1>2, <1>5 DEF SleepInv
  <1>7. ASSUME NEW n \in armed' \cap {0, 1, 2}, tpc \in {"stop", "raise"}
        PROVE  /\ tpc = "stop" /\ 3 \in armed' => Ahead(alarm[n])' >= Ahead(alarm[3])' + WakeUs
               /\ tpc = "stop" /\ 3 \notin armed' => Ahead(alarm[n])' >= WakeUs - busyFor'
               /\ tpc = "raise" => Ahead(alarm[n])' >= WakeUs - (MaxLatency + busyFor')
    <2>1. n \in armed \cap {0, 1, 2}
      BY <1>1
    <2>2. /\ Ahead(alarm[n]) \in Int /\ Ahead(alarm[n]) >= 2
          /\ Ahead(alarm[n])' = Ahead(alarm[n]) - 1
      BY <1>7, <2>1, StillFar, TickMoves
    <2>3. CASE tpc = "stop" /\ 3 \in armed
      <3>1. Ahead(alarm[3]) >= 1 /\ Ahead(alarm[n]) >= Ahead(alarm[3]) + WakeUs
        BY <2>1, <2>3 DEF SleepInv
      <3> QED
        BY <1>1, <1>2, <1>5, <2>2, <2>3, <3>1
    <2>4. CASE tpc = "stop" /\ 3 \notin armed
      <3>1. 3 \in nvic /\ Ahead(alarm[n]) >= WakeUs - busyFor
        BY <2>1, <2>4 DEF SleepInv
      <3>2. busyFor' = busyFor + 1 /\ 3 \notin armed'
        BY <1>1, <2>4, <3>1 DEF Busy
      <3> QED
        BY <1>1, <1>2, <2>2, <2>4, <3>1, <3>2
    <2>5. CASE tpc = "raise"
      <3>1. Ahead(alarm[n]) >= WakeUs - (MaxLatency + busyFor)
        BY <2>1, <2>5 DEF SleepInv
      <3>2. busyFor' = busyFor + 1
        BY <1>1, <2>5 DEF Busy, Asleep
      <3> QED
        BY <1>1, <1>2, <2>2, <2>5, <3>1, <3>2
    <2> QED
      BY <1>7, <2>3, <2>4, <2>5
  <1> QED
    BY <1>1, <1>3, <1>4, <1>6, <1>7 DEF SleepInv

(* The sleep is planned from a reading of the counter that is MaxLatency   *)
(* old at most.                                                            *)
LEMMA SleepPlan ==
  ASSUME TypeInv, TypeInv', ClockInv, ArrivalInv, EventInv, SleepInv, PlanSleep
  PROVE  SleepInv'
  <1>1. CASE FirstAlarm < STOP_MIN_US
    BY <1>1 DEF PlanSleep, SleepInv
  <1>2. CASE ~(FirstAlarm < STOP_MIN_US)
    <2> DEFINE f == FirstAlarm
               k == (raw - snow) % Raw
               x == f - WakeUs
    <2>1. /\ raw' = raw /\ tpc' = "stop" /\ alarm'[3] = (snow + f - WakeUs) % Raw
          /\ \A n \in 0 .. 2 : alarm'[n] = alarm[n]
          /\ armed' = armed \cup {3} /\ tpc = "plan"
      BY <1>2 DEF PlanSleep, TypeInv, TypeOK
    <2>2. /\ f \in Int /\ f < Raw \div 2
          /\ \A n \in armed \cap {0, 1, 2} : f <= Signed(alarmTime[n], snow)
      BY FirstAlarmIs DEF TypeInv
    <2>3. /\ raw \in 0 .. Raw - 1 /\ snow \in 0 .. Raw - 1 /\ raw \in Int /\ snow \in Int
          /\ busyFor \in Nat /\ busyFor <= MaxLatency
          /\ \A n \in 0 .. 2 : alarmTime[n] \in Int
      BY <2>1, Sizes DEF TypeInv, TypeOK, Levels
    <2>4. k \in 0 .. Raw - 1 /\ k <= busyFor
      <3>1. raw - snow \in Int
        BY <2>3
      <3> QED
        BY <2>1, <3>1, Sizes, DivMod DEF SleepInv
    <2>5. f >= 2 * WakeUs
      BY <1>2, <2>2, Sizes DEF STOP_MIN_US
    <2> HIDE DEF f
    <2>6. \A y \in Int : ((snow + y) - raw) % Raw = (y - k) % Raw
      <3> TAKE y \in Int
      <3>1. (y - ((raw - snow) % Raw)) % Raw = (y - (raw - snow)) % Raw
        BY <2>3, Remainders, raw - snow \in Int
      <3>2. y - (raw - snow) = (snow + y) - raw
        BY <2>3
      <3> QED
        BY <3>1, <3>2
    <2> HIDE DEF k
    <2>7. Ahead(alarm[3])' = x - k /\ x - k >= 1
      <3>1. x \in Int /\ snow + f - WakeUs = snow + x /\ snow + x \in Int
        BY <2>2, <2>3, Sizes
      <3>2. x - k >= 1 /\ x - k \in 0 .. Raw - 1
        BY <2>2, <2>3, <2>4, <2>5, Sizes
      <3> HIDE DEF x
      <3>3. (((snow + x) % Raw) - raw) % Raw = ((snow + x) - raw) % Raw
        BY <2>3, <3>1, Remainders
      <3>4. ((snow + x) - raw) % Raw = (x - k) % Raw
        BY <2>6, <3>1
      <3>5. (x - k) % Raw = x - k
        BY <2>4, <3>1, <3>2, Small
      <3> QED
        BY <2>1, <3>1, <3>2, <3>3, <3>4, <3>5 DEF Ahead
    <2>8. ASSUME NEW n \in armed \cap {0, 1, 2}
          PROVE  Ahead(alarm[n])' >= (x - k) + WakeUs
      <3> DEFINE s == Signed(alarmTime[n], snow)
      <3>1. n \in 0 .. 2 /\ alarm[n] = alarmTime[n] /\ alarmTime[n] \in Int
        BY <2>3 DEF ClockInv, ArrivalInv, EventInv
      <3>2. /\ s \in Int /\ s < Raw \div 2 /\ f <= s
            /\ s > 0 => (alarmTime[n] - snow) % Raw = s
        BY <2>2, <2>3, <3>1, SignedOf
      <3> HIDE DEF s
      <3>3. s > 0 /\ s - k \in 0 .. Raw - 1 /\ s - k \in Int
        BY <2>2, <2>3, <2>4, <2>5, <3>2, Sizes
      <3>4. (s - k) % Raw = s - k
        BY <3>3, Small
      <3>5. (alarmTime[n] - raw) % Raw = (s - k) % Raw
        <4> DEFINE a == alarmTime[n] - snow
        <4>1. a \in Int /\ snow + a = alarmTime[n]
          BY <2>3, <3>1
        <4>2. a % Raw = s
          BY <3>2, <3>3
        <4> HIDE DEF a
        <4>3. ((snow + a) - raw) % Raw = (a - k) % Raw
          BY <2>6, <4>1
        <4>4. ((a % Raw) - k) % Raw = (a - k) % Raw
          BY <2>4, <4>1, Remainders, k \in Int
        <4> QED
          BY <4>1, <4>2, <4>3, <4>4
      <3>6. Ahead(alarm[n])' = s - k
        BY <2>1, <3>1, <3>4, <3>5 DEF Ahead
      <3>7. s - k >= (x - k) + WakeUs
        BY <2>2, <2>4, <3>2, Sizes
      <3> QED
        BY <3>6, <3>7
    <2>9. armed' \cap {0, 1, 2} = armed \cap {0, 1, 2}
      BY <2>1
    <2> HIDE DEF x
    <2> QED
      BY <2>1, <2>7, <2>8, <2>9 DEF SleepInv
  <1> QED
    BY <1>1, <1>2

LEMMA SleepEnds ==
  ASSUME TypeInv, TypeInv', SleepInv, WakeUp \/ GatedSleep \/ RaiseSystemClock
  PROVE  SleepInv'
  <1>1. CASE GatedSleep
    <2>1. (raw' - snow') % Raw = 0
      <3>1. raw' - snow' = 0
        BY <1>1, Sizes DEF GatedSleep, TypeInv, TypeOK
      <3> QED
        BY <3>1, Small, Sizes, 0 \in 0 .. Raw - 1
    <2>2. busyFor' >= 0 /\ tpc' = "plan"
      BY <1>1 DEF GatedSleep, TypeInv, TypeOK
    <2> QED
      BY <2>1, <2>2 DEF SleepInv
  <1>2. CASE RaiseSystemClock
    BY <1>2 DEF RaiseSystemClock, SleepInv
  <1>3. CASE WakeUp
    <2>1. /\ raw' = raw /\ alarm' = alarm /\ armed' = armed /\ busyFor' = 0
          /\ tpc' \in {"idle", "raise"} /\ (tpc' = "raise" => tpc = "stop")
      BY <1>3 DEF WakeUp
    <2>2. ASSUME NEW n \in armed \cap {0, 1, 2}, tpc = "stop"
          PROVE  Ahead(alarm[n])' >= WakeUs - (MaxLatency + busyFor')
      <3>1. /\ raw \in Int /\ alarm[n] \in Int /\ alarm[3] \in Int
            /\ busyFor \in Nat /\ busyFor <= MaxLatency
        <4>1. n \in 0 .. 3 /\ 3 \in 0 .. 3
          BY <2>2
        <4>2. raw \in Int /\ \A m \in 0 .. 3 : alarm[m] \in Int
          BY Sizes DEF TypeInv, TypeOK
        <4>3. busyFor \in Nat /\ busyFor <= MaxLatency
          BY <2>2 DEF TypeInv, TypeOK, Levels
        <4> QED
          BY <4>1, <4>2, <4>3
      <3>2. Ahead(alarm[n]) \in Int /\ Ahead(alarm[3]) \in Int
        <4>1. \A y \in Int : (y - raw) % Raw \in Int
          BY <3>1, Sizes
        <4> QED
          BY <3>1, <4>1 DEF Ahead
      <3>3. Ahead(alarm[n])' = Ahead(alarm[n])
        BY <2>1 DEF Ahead
      <3>4. \/ Ahead(alarm[3]) >= 1 /\ Ahead(alarm[n]) >= Ahead(alarm[3]) + WakeUs
            \/ Ahead(alarm[n]) >= WakeUs - busyFor
        BY <2>2 DEF SleepInv
      <3>5. Ahead(alarm[n]) >= WakeUs - (MaxLatency + 0)
        BY <3>1, <3>2, <3>4, Sizes
      <3> QED
        BY <2>1, <3>3, <3>5
    <2> QED
      BY <2>1, <2>2 DEF SleepInv
  <1> QED
    BY <1>1, <1>2, <1>3

LEMMA SleepStep ==
  ASSUME TypeInv, TypeInv', ClockInv, ArrivalInv, EventInv, SleepInv, [Next]_picoVars
  PROVE  SleepInv'
  <1>1. CASE AwakeKept
    BY <1>1 DEF AwakeKept, SleepInv
  <1>2. CASE UNCHANGED picoVars
    BY <1>2 DEF picoVars, SleepInv, Ahead
  <1> QED
    BY <1>1, <1>2, SleepKeptOr, SleepTick, SleepPlan, SleepEnds DEF SleepSteps

(* Nothing else makes an interrupt pending.                                *)
LEMMA ForcedBy ==
  ASSUME [Next]_picoVars
  PROVE  Tick \/ StartAlarms \/ CheckHead \/ nvic' \subseteq nvic
  <1>1. CASE Tick
    BY <1>1
  <1>2. CASE StartTimer
    BY <1>2 DEF StartTimer
  <1>3. CASE StartAlarms
    BY <1>3
  <1>4. CASE Alarm0Handler
    BY <1>4 DEF Alarm0Handler
  <1>5. CASE Alarm1Handler
    BY <1>5 DEF Alarm1Handler
  <1>6. CASE EnterScheduler
    BY <1>6 DEF EnterScheduler
  <1>7. CASE TimerIsOverflow
    BY <1>7 DEF TimerIsOverflow
  <1>8. CASE GetActualTime
    BY <1>8 DEF GetActualTime
  <1>9. ASSUME NEW p \in Periods, ServeArrival(p)
         PROVE  Tick \/ StartAlarms \/ CheckHead \/ nvic' \subseteq nvic
    BY <1>9 DEF ServeArrival
  <1>10. CASE NextArrival
    BY <1>10 DEF NextArrival
  <1>11. CASE ReadCounter
    BY <1>11 DEF ReadCounter
  <1>12. CASE ArmAlarm0
    BY <1>12 DEF ArmAlarm0
  <1>13. CASE CheckAlarm0
    BY <1>13 DEF CheckAlarm0
  <1>14. CASE DisarmAlarm0
    BY <1>14 DEF DisarmAlarm0
  <1>15. CASE ClearSoftTimer
    BY <1>15 DEF ClearSoftTimer
  <1>16. CASE TestFlags
    BY <1>16 DEF TestFlags
  <1>17. ASSUME NEW e \in Event, UnScheduleTimerEvent(e)
         PROVE  Tick \/ StartAlarms \/ CheckHead \/ nvic' \subseteq nvic
    BY <1>17 DEF UnScheduleTimerEvent
  <1>18. ASSUME NEW e \in Event, NEW d \in Delays, ScheduleTimerEvent(e, d)
         PROVE  Tick \/ StartAlarms \/ CheckHead \/ nvic' \subseteq nvic
    <2>1. ScheduleKept
      BY <1>18, ScheduleKeeps
    <2> QED
      BY <2>1 DEF ScheduleKept
  <1>19. CASE ArmHead
    BY <1>19 DEF ArmHead
  <1>20. CASE CheckHead
    BY <1>20
  <1>21. CASE TimerIntHandler
    BY <1>21 DEF TimerIntHandler
  <1>22. CASE TestHead
    BY <1>22 DEF TestHead
  <1>23. CASE GatedSleep
    BY <1>23 DEF GatedSleep
  <1>24. CASE PlanSleep
    BY <1>24 DEF PlanSleep
  <1>25. CASE WakeUp
    BY <1>25 DEF WakeUp
  <1>26. CASE RaiseSystemClock
    BY <1>26 DEF RaiseSystemClock
  <1>27. CASE UNCHANGED picoVars
    BY <1>27 DEF picoVars
  <1> QED
    BY <1>1, <1>2, <1>3, <1>4, <1>5, <1>6, <1>7, <1>8, <1>9, <1>10, <1>11, <1>12, <1>13,
       <1>14, <1>15, <1>16, <1>17, <1>18, <1>19, <1>20, <1>21, <1>22, <1>23, <1>24, <1>25,
       <1>26, <1>27 DEF Next

(***************************************************************************)
(* The theorems.                                                           *)
(***************************************************************************)

LEMMA PicoStep == PicoInv /\ [Next]_picoVars => PicoInv'
  <1> SUFFICES ASSUME PicoInv, [Next]_picoVars
               PROVE  PicoInv'
    OBVIOUS
  <1>1. TypeInv'
    BY TypeOKStep, StepsStep, LevelsStep DEF PicoInv, TypeInv
  <1>2. ClockInv'
    BY <1>1, ClockStep DEF PicoInv
  <1>3. ArrivalInv'
    BY <1>1, ArrivalStep DEF PicoInv
  <1>4. EventInv'
    BY <1>1, EventStep DEF PicoInv
  <1>5. SleepInv'
    BY <1>1, SleepStep DEF PicoInv
  <1> QED
    BY <1>1, <1>2, <1>3, <1>4, <1>5 DEF PicoInv

LEMMA PicoAlways == Spec => []PicoInv
  <1>1. Init => PicoInv
    BY InitType, ClockInit, ArrivalInit, EventInit, SleepInit DEF PicoInv
  <1> QED
    BY <1>1, PicoStep, PTL DEF Spec

(* The kernel of the RP2040 counts each turn of its 30 bits once: the time *)
(* it keeps for the next arrival is the true one, but for a turn that      *)
(* alarm 1 has announced and the scheduler is still to take                *)
(* (_OSTimerIsOverflow, ArmOverflowAlarm).                                 *)
THEOREM TurnsAreCounted == Spec => []ClockCounts
  <1>1. PicoInv => ClockCounts
    BY DEF PicoInv, TypeInv, ClockInv, ClockCounts
  <1> QED
    BY <1>1, PicoAlways, PTL

(* An arrival that is due has the scheduler at it, or on its way: _OSSetTimer *)
(* arms alarm 0 in time or says that it could not.                         *)
THEOREM ArrivalsAreSeen == Spec => []ArrivalSeen
  <1>1. PicoInv => ArrivalSeen
    BY ArrivalIsSeen DEF PicoInv
  <1> QED
    BY <1>1, PicoAlways, PTL

(* Timer events never wait for an alarm that the counter has passed:       *)
(* ArmAlarm looks at the counter again behind the write of ALARM2.         *)
THEOREM EventsAreCovered == Spec => []EventCovered
  <1>1. PicoInv => EventCovered
    BY DEF PicoInv, EventInv
  <1> QED
    BY <1>1, PicoAlways, PTL

(* No alarm of the kernel or of the timer events fires while PLL_SYS is    *)
(* stopped for the idle task's sleep, or locking (GatedSleep).             *)
THEOREM AlarmsAreClocked == Spec => AlarmsMeetRunningClock
  <1>1. ASSUME PicoInv, Next
        PROVE  (nvic' \ nvic) \cap {0, 1, 2} # {} => pll
    <2>1. pll = (tpc \notin {"stop", "raise"})
      BY <1>1 DEF PicoInv, TypeInv, Levels
    <2>2. CASE Tick
      <3> SUFFICES ASSUME tpc \in {"stop", "raise"}
                   PROVE  (nvic' \ nvic) \cap {0, 1, 2} = {}
        BY <2>1
      <3>1. \A n \in armed \cap {0, 1, 2} : Ahead(alarm[n]) >= 2 /\ Ahead(alarm[n]) \in Int
        BY <1>1, <2>2, StillFar DEF PicoInv
      <3>2. \A n \in 0 .. 3 : n \in Fires => n \in armed /\ Ahead(alarm[n]) = 1
        BY <1>1, <2>2, TickMoves DEF PicoInv
      <3>3. nvic' = nvic \cup Fires
        BY <2>2 DEF Tick
      <3> QED
        BY <3>1, <3>2, <3>3
    <2>3. CASE StartAlarms
      BY <2>1, <2>3 DEF StartAlarms
    <2>4. CASE CheckHead
      <3>1. ArmsAt("check")
        BY <2>4 DEF CheckHead
      <3> QED
        BY <1>1, <2>1, <3>1 DEF ArmsAt, PicoInv, TypeInv, Levels
    <2>5. CASE ~Tick /\ ~StartAlarms /\ ~CheckHead
      BY <1>1, <2>5, ForcedBy
    <2> QED
      BY <2>2, <2>3, <2>4, <2>5
  <1>2. PicoInv /\ [Next]_picoVars => [(nvic' \ nvic) \cap {0, 1, 2} # {} => pll]_picoVars
    BY <1>1
  <1> QED
    BY <1>2, PicoAlways, PTL DEF Spec, AlarmsMeetRunningClock

====
