-------------------------------- MODULE Stop2 --------------------------------
(***************************************************************************)
(* The idle task of an STM32U5 in Stop 2.  TIM2, the kernel's clock, and   *)
(* TIM5, that of the timer events, stop for the sleep; LPTIM1 counts on,   *)
(* wakes the chip ahead of the next event and says by how much to move the *)
(* two clocks on.  A window after a byte on LPUART1 is slept out in Sleep, *)
(* ended by the same compare of LPTIM1.                                    *)
(*                                                                         *)
(* A unit of time is one count of TIM2; a tick of LPTIM1 lasts TickUs of   *)
(* them, exactly: the fraction of a microsecond is left out.  A step is    *)
(* the masked code between two accesses that time can tell apart.          *)
(***************************************************************************)
EXTENDS Integers

CONSTANTS
  Wrap,         \* TIM2 wraps here, 2^30
  LPWrap,       \* LPTIM1 wraps here, 2^16
  TickUs,       \* 15625 / 512
  MIN_US, RAISE_US,   \* OS_STOP2_MIN_US, OS_STOP2_RAISE_US
  WakeUs,       \* OS_STOP2_WAKE_US, or as OSSetStop2Wake left it
  MAX_TICKS, WINDOW_TICKS, WINDOW_MIN_TICKS,
  WriteTicks,   \* what a compare may take to reach LPTIM1
  WakeTicks,    \* what the HSE or the clock's raise may take
  Arrivals,     \* times the kernel may arm, beyond the wrap too
  EventTimes    \* the kernel's times at which a timer event may be due

Stop2Assumption ==
  /\ TickUs \in Nat \ {0} /\ Wrap \in Nat \ {0} /\ LPWrap \in Nat \ {0}
  /\ MAX_TICKS < LPWrap /\ 2 * WINDOW_TICKS < LPWrap
  /\ WakeUs < MIN_US /\ MIN_US <= Wrap
  /\ WriteTicks \subseteq Nat \ {0} /\ WakeTicks \subseteq Nat /\ Arrivals \subseteq Nat /\ EventTimes \subseteq Nat

None == -1

VARIABLES
  \* TIM2: counter, CEN, compare (0 when disarmed) and its two flags.
  cnt, cen, ccr, comparator, overflow,
  \* TIM5: what is left to the next event, or None, and its flag.
  event, eventFlag,
  \* LPTIM1: counter, units since its edge, compare, CC1IF.
  lp, phase, lpCompare, lpFlag,
  received,     \* a byte on LPUART1 not yet seen by _OSUARTReceived
  \* The idle task and the kernel above it.
  pc, next,     \* where, and the arrival being armed
  now, limit, target, start, alarm, until, woken, whole,
  windowOpen, windowEnd, windowArmed,
  wait,         \* ticks left of a write or of the wake-up
  seen,         \* NextTick's first reading
  spent,        \* units since the last step
  \* History: units that TIM2 stood still, and what was lost of them; whether
  \* the window is slept for with a compare that its write came too late for.
  still, lost, missed

tim2 == <<cnt, cen, ccr, comparator, overflow>>
tim5 == <<event, eventFlag>>
lptim == <<lp, phase, lpCompare, lpFlag>>
sleep == <<now, limit, target, start, alarm, until, woken, whole>>
window == <<windowOpen, windowEnd, windowArmed, missed>>
stop2Vars == <<tim2, tim5, lptim, received, pc, next, sleep, window, wait, seen, spent,
               still, lost>>

Away(a, b) == (a - b) % LPWrap
Ticks(us) == us \div TickUs

Init ==
  /\ cnt = 0 /\ cen = TRUE /\ ccr = 0 /\ comparator = TRUE /\ overflow = FALSE
  /\ event = None /\ eventFlag = FALSE
  /\ lp = 0 /\ phase = 0 /\ lpCompare = 0 /\ lpFlag = FALSE /\ received = FALSE
  /\ pc = "idle" /\ next = 0
  /\ now = 0 /\ limit = 0 /\ target = 0 /\ start = 0 /\ alarm = 0 /\ until = 0
  /\ woken = FALSE /\ whole = FALSE
  /\ windowOpen = FALSE /\ windowEnd = 0 /\ windowArmed = FALSE
  /\ wait = 0 /\ seen = 0 /\ spent = 0 /\ still = 0 /\ lost = 0
  /\ missed = FALSE

(***************************************************************************)
(* Time.  Code takes at most one unit a step; a loop on LPTIM1 ends with   *)
(* what it waits for, and a WFI with the interrupt that comes.             *)
(***************************************************************************)
Interrupted == comparator \/ overflow \/ eventFlag
Writing == pc \in {"writeWindow", "writeAlarm", "writeSlow"}
Waiting == pc \in {"hse", "raise"}
Sleeping == pc \in {"sleep", "window", "slow", "stop"}
Edge == pc \in {"stopEdge", "startEdge"}

MayPass ==
  CASE Writing \/ Waiting -> wait > 0
    [] Edge -> lp = seen
    [] Sleeping -> ~Interrupted /\ ~received /\ (pc # "sleep" => ~lpFlag)
    [] OTHER -> spent = 0

Pass ==
  LET edge == phase = TickUs - 1
      counts == pc # "stop" /\ cen
  IN  /\ MayPass
      /\ phase' = (phase + 1) % TickUs
      /\ lp' = IF edge THEN (lp + 1) % LPWrap ELSE lp
      /\ lpFlag' = (lpFlag \/ (edge /\ lp' = lpCompare))
      /\ wait' = IF edge /\ (Writing \/ Waiting) THEN wait - 1 ELSE wait
      /\ spent' = 1
      /\ cnt' = IF counts THEN (cnt + 1) % Wrap ELSE cnt
      /\ comparator' = (comparator \/ (counts /\ cnt' = ccr))
      /\ overflow' = (overflow \/ (counts /\ cnt' = 0))
      /\ event' = IF counts /\ event > 0 THEN event - 1 ELSE event
      /\ eventFlag' = (eventFlag \/ (counts /\ event = 1))
      /\ still' = IF counts THEN still ELSE still + 1
      /\ UNCHANGED <<cen, ccr, lpCompare, received, pc, next, sleep, window, seen, lost>>

ByteReceived ==
  /\ pc \in {"sleep", "window", "stop"} /\ ~received
  /\ received' = TRUE
  /\ UNCHANGED <<tim2, tim5, lptim, pc, next, sleep, window, wait, seen, spent, still, lost>>

(***************************************************************************)
(* The kernel, once interrupts are unmasked.                               *)
(***************************************************************************)

\* TimerHandler, then the scheduler finds the next arrival.  That of an
\* event-driven task may lie beyond the wrap.
TimerHandler ==
  /\ pc = "idle" /\ (comparator \/ overflow)
  /\ ccr' = IF comparator THEN 0 ELSE ccr
  /\ comparator' = FALSE /\ overflow' = FALSE
  /\ next' \in Arrivals
  /\ pc' = "arm" /\ spent' = 0
  /\ UNCHANGED <<cnt, cen, tim5, lptim, received, sleep, window, wait, seen, still, lost>>

\* _OSSetTimer
SetTimer ==
  /\ pc = "arm"
  /\ ccr' = next /\ pc' = "armed" /\ spent' = 0
  /\ UNCHANGED <<cnt, cen, comparator, overflow, tim5, lptim, received, next, sleep, window,
                 wait, seen, still, lost>>

\* FALSE returned, the arrival is served and another one set.
CheckTimer ==
  /\ pc = "armed"
  /\ IF ccr > cnt \/ next = 0
     THEN pc' = "idle" /\ UNCHANGED <<ccr, next>>
     ELSE /\ ccr' = 0 /\ pc' = "arm"
          /\ next' \in Arrivals
  /\ spent' = 0
  /\ UNCHANGED <<cnt, cen, comparator, overflow, tim5, lptim, received, sleep, window, wait,
                 seen, still, lost>>

\* A timer event is scheduled, or served and another one scheduled.
TimerEvent ==
  /\ pc = "idle" /\ (event = None \/ eventFlag)
  /\ event' \in {t - cnt : t \in {u \in EventTimes : u > cnt}}
                 \cup (IF eventFlag THEN {None} ELSE {})
  /\ eventFlag' = FALSE /\ spent' = 0
  /\ UNCHANGED <<tim2, lptim, received, pc, next, sleep, window, wait, seen, still, lost>>

(***************************************************************************)
(* Stop2Idle.                                                              *)
(***************************************************************************)

\* The window as WindowHolds leaves it.
HeldEnd == IF received THEN (lp + WINDOW_TICKS) % LPWrap ELSE windowEnd
WindowHolds ==
  /\ received \/ windowOpen
  /\ Away(HeldEnd, lp) \in WINDOW_MIN_TICKS .. WINDOW_TICKS

NextLimit == IF ccr > cnt /\ ccr < Wrap THEN ccr ELSE Wrap

NextTarget == IF event # None /\ event < NextLimit - cnt THEN cnt + event ELSE NextLimit

\* What the length of the sleep comes to, from the target in ticks.
SleepTicks(t, n) ==
  IF Ticks(t - n - WakeUs) <= MAX_TICKS THEN Ticks(t - n - WakeUs) ELSE MAX_TICKS

Stop2Idle ==
  /\ pc = "idle"
  /\ received' = FALSE
  /\ windowOpen' = WindowHolds
  /\ windowEnd' = HeldEnd
  /\ windowArmed' = (windowArmed /\ (WindowHolds \/ ~windowOpen))
  /\ now' = cnt /\ limit' = NextLimit /\ target' = NextTarget
  /\ pc' \in {"sleep"} \cup   \* not allowed, or a UART that sends
       IF NextTarget - cnt < MIN_US THEN {}
       ELSE IF ~WindowHolds THEN {"alarm"}
       ELSE IF windowArmed THEN {"window"} ELSE {"writeWindow"}
  /\ wait' \in IF pc' = "writeWindow" THEN WriteTicks ELSE {0}
  /\ lpFlag' = (lpFlag /\ pc' # "writeWindow") /\ spent' = 0
  /\ UNCHANGED <<tim2, tim5, lp, phase, lpCompare, next, start, alarm, until, woken, whole,
                 seen, still, lost, missed>>

\* OSSetLPTimerCompare, once CMP1OK says that the compare has reached LPTIM1.
\* It never matches a count already passed.  At 0xFFFF it is set one tick
\* sooner: a choice here, so that no count is told from another.
CompareWritten(count) ==
  /\ lpCompare' \in {count, (count + LPWrap - 1) % LPWrap}
  /\ lpFlag' \in {lpFlag} \cup {f \in {TRUE} : lp = lpCompare'}

\* A sleep in Sleep ends with any interrupt, or a byte.
WakeFromSleep ==
  /\ pc = "sleep" /\ (Interrupted \/ received)
  /\ pc' = "idle" /\ spent' = 0
  /\ UNCHANGED <<tim2, tim5, lptim, received, next, sleep, window, wait, seen, still, lost>>

\* Mutant of EndPassed: the end is not read again once the compare is written.
EndNotRead == FALSE

EndPassed == Away(windowEnd, lp) = 0 \/ Away(windowEnd, lp) > WINDOW_TICKS

WindowCompare ==
  /\ pc = "writeWindow" /\ wait = 0
  /\ CompareWritten(windowEnd)
  /\ windowArmed' = TRUE /\ missed' = FALSE /\ pc' = "checkWindow" /\ spent' = 0
  /\ UNCHANGED <<tim2, tim5, lp, phase, received, next, sleep, windowOpen, windowEnd, wait,
                 seen, still, lost>>

CheckWindow ==
  /\ pc = "checkWindow"
  /\ IF EndPassed
     THEN windowOpen' = FALSE /\ windowArmed' = FALSE /\ pc' = "idle"
     ELSE UNCHANGED <<windowOpen, windowArmed>> /\ pc' = "window"
  /\ missed' = (pc' = "window" /\ lpCompare = lp /\ Away(windowEnd, lp) = 1 /\ ~lpFlag)
  /\ spent' = 0
  /\ UNCHANGED <<tim2, tim5, lptim, received, next, sleep, windowEnd, wait, seen, still, lost>>

WakeInWindow ==
  /\ pc = "window" /\ (lpFlag \/ Interrupted \/ received)
  /\ windowArmed' = (windowArmed /\ ~lpFlag) /\ lpFlag' = FALSE
  /\ pc' = "idle" /\ spent' = 0
  /\ UNCHANGED <<tim2, tim5, lp, phase, lpCompare, received, next, sleep, windowOpen,
                 windowEnd, missed, wait, seen, still, lost>>

\* The alarm, WakeUs ahead of the target or as far as LPTIM1 counts.
SetAlarm ==
  /\ pc = "alarm"
  /\ whole' = (Ticks(target - now - WakeUs) <= MAX_TICKS)
  /\ start' = lp /\ alarm' = (lp + SleepTicks(target, now)) % LPWrap
  /\ lpFlag' = FALSE /\ wait' \in WriteTicks
  /\ pc' = "writeAlarm" /\ spent' = 0
  /\ UNCHANGED <<tim2, tim5, lp, phase, lpCompare, received, next, now, limit, target, until,
                 woken, window, seen, still, lost>>

AlarmWritten ==
  /\ pc = "writeAlarm" /\ wait = 0
  /\ CompareWritten(alarm)
  /\ seen' = lp /\ pc' = "stopEdge" /\ spent' = 0
  /\ UNCHANGED <<tim2, tim5, lp, phase, received, next, sleep, window, wait, still, lost>>

\* NextTick, TIM2 and TIM5 stopped, LPTIM1's flag cleared, and WFI.
StopTimers ==
  /\ pc = "stopEdge" /\ lp # seen
  /\ start' = lp /\ cen' = FALSE /\ now' = cnt /\ lpFlag' = FALSE
  /\ still' = 0 /\ pc' = "stop" /\ spent' = 0
  /\ UNCHANGED <<cnt, ccr, comparator, overflow, tim5, lp, phase, lpCompare, received, next,
                 limit, target, alarm, until, woken, whole, window, wait, seen, lost>>

\* An interrupt already pending leaves the WFI at once.
WakeFromStop ==
  /\ pc = "stop" /\ (lpFlag \/ Interrupted \/ received)
  /\ woken' = ~lpFlag /\ lpFlag' = FALSE
  /\ IF Interrupted
     THEN pc' = "restart" /\ seen' = lp /\ UNCHANGED wait
     ELSE pc' = "hse" /\ wait' \in WakeTicks /\ UNCHANGED seen
  /\ spent' = 0
  /\ UNCHANGED <<tim2, tim5, lp, phase, lpCompare, received, next, now, limit, target, start,
                 alarm, until, whole, window, still, lost>>

\* _OSStartHSE is done; SlowSleep, unless a byte or an alarm cut short.
Raises == pc' = "raise" /\ wait' \in WakeTicks

StartedHSE ==
  /\ pc = "hse" /\ wait = 0
  /\ until' = (alarm + IF WakeUs > RAISE_US THEN Ticks(WakeUs - RAISE_US) ELSE 0) % LPWrap
  /\ IF woken \/ ~whole \/ Away(until', lp) \notin 4 .. MAX_TICKS
     THEN Raises /\ UNCHANGED lpFlag
     ELSE pc' = "writeSlow" /\ wait' \in WriteTicks /\ lpFlag' = FALSE
  /\ spent' = 0
  /\ UNCHANGED <<tim2, tim5, lp, phase, lpCompare, received, next, now, limit, target, start,
                 alarm, woken, whole, window, seen, still, lost>>

SlowCompare ==
  /\ pc = "writeSlow" /\ wait = 0
  /\ CompareWritten(until)
  /\ pc' = "checkSlow" /\ spent' = 0
  /\ UNCHANGED <<tim2, tim5, lp, phase, received, next, sleep, window, wait, seen, still, lost>>

TooLate == Away(until, lp) < 2 \/ Away(until, lp) > MAX_TICKS

CheckSlow ==
  /\ pc = "checkSlow"
  /\ IF TooLate THEN Raises ELSE pc' = "slow" /\ UNCHANGED wait
  /\ spent' = 0
  /\ UNCHANGED <<tim2, tim5, lptim, received, next, sleep, window, seen, still, lost>>

WakeFromSlow ==
  /\ pc = "slow" /\ (lpFlag \/ received)
  /\ lpFlag' = FALSE /\ Raises /\ spent' = 0
  /\ UNCHANGED <<tim2, tim5, lp, phase, lpCompare, received, next, sleep, window, seen, still,
                 lost>>

\* The clock is up; a byte woke the chip and opens the window.
Raised ==
  /\ pc = "raise" /\ wait = 0
  /\ windowOpen' = (windowOpen \/ woken)
  /\ windowEnd' = IF woken THEN (lp + WINDOW_TICKS) % LPWrap ELSE windowEnd
  /\ pc' = "restart" /\ spent' = 0 /\ seen' = lp
  /\ UNCHANGED <<tim2, tim5, lptim, received, next, sleep, windowArmed, missed, wait, still,
                 lost>>

\* NextTick reads the count, then waits for its edge.
ReadTick ==
  /\ pc = "restart"
  /\ seen' = lp /\ pc' = "startEdge" /\ spent' = 0
  /\ UNCHANGED <<tim2, tim5, lptim, received, next, sleep, window, wait, still, lost>>

\* Mutant of MovedOn: the timers may be set on past the limit, up to the target.
MovedToTarget(micros) == IF now + micros >= target THEN target - 1 ELSE now + micros

MovedOn(micros) == IF now + micros >= limit THEN limit - 1 ELSE now + micros

\* TIM2 and TIM5 are moved on and started; an event that fell due is given at once.
StartTimers ==
  LET micros == TickUs * Away(lp, start) IN
  /\ pc = "startEdge" /\ lp # seen
  /\ cnt' = MovedOn(micros) /\ cen' = TRUE
  /\ event' = IF event = None THEN None ELSE IF event > micros THEN event - micros ELSE 0
  /\ eventFlag' = (eventFlag \/ event' = 0)
  /\ lost' = still - (cnt' - now) /\ still' = 0
  /\ pc' = "idle" /\ spent' = 0
  /\ UNCHANGED <<ccr, comparator, overflow, lptim, received, next, sleep, window, wait, seen>>

Next ==
  \/ Pass \/ ByteReceived \/ TimerHandler \/ SetTimer \/ CheckTimer \/ TimerEvent
  \/ Stop2Idle \/ WakeFromSleep
  \/ WindowCompare \/ CheckWindow \/ WakeInWindow
  \/ SetAlarm \/ AlarmWritten \/ StopTimers \/ WakeFromStop \/ StartedHSE
  \/ SlowCompare \/ CheckSlow \/ WakeFromSlow \/ Raised \/ ReadTick \/ StartTimers

Spec == Init /\ [][Next]_stop2Vars
-----------------------------------------------------------------------------
\* Every variable has its type.
TypeOK ==
  /\ cnt \in 0 .. Wrap - 1 /\ ccr \in Nat /\ event \in {None} \cup Nat
  /\ {cen, comparator, overflow, eventFlag, lpFlag, received, woken, whole, windowOpen,
      windowArmed} \subseteq BOOLEAN
  /\ {lp, lpCompare, start, alarm, until, windowEnd, seen} \subseteq 0 .. LPWrap - 1
  /\ phase \in 0 .. TickUs - 1 /\ wait \in Nat /\ spent \in 0 .. 1
  /\ limit \in Nat /\ target \in Nat /\ still \in Nat

(* A sleep moves TIM2 neither past the compare the kernel armed nor past   *)
(* its wrap: an arrival in this turn is ahead of the counter, or its       *)
(* interrupt is raised, or the kernel is at it; and so is the wrap.        *)
ArrivalAhead ==
  /\ cnt < Wrap
  /\ ccr \in 1 .. Wrap - 1 /\ pc # "armed" => cnt < ccr \/ comparator \/ overflow
  /\ event = 0 => eventFlag

(* The kernel's clock keeps the time that LPTIM1 counted, to the unit,     *)
(* whatever woke the chip: some is lost only when the wake-up came past    *)
(* the compare or the wrap, and TIM2 is then set just before it.           *)
ClockKept ==
  [][cen' /\ ~cen => lost' = 0 \/ (cnt' = limit - 1 /\ now + still >= limit)]_stop2Vars

(* A window is slept for with its compare ahead, by no more than the       *)
(* window: had the end passed while the compare was written, "it would    *)
(* match only 2 s on, the idle task in Sleep meanwhile. The window closes  *)
(* instead" (WindowSleep).                                                 *)
WindowSleepEnds == pc = "window" => lpFlag \/ Away(lpCompare, lp) <= WINDOW_TICKS

(* A sleep that LPTIM1 is to end is slept with its compare still ahead, by *)
(* no more than was asked for: the chip does not sleep on until LPTIM1 has *)
(* gone round.  Excepted is a window that ends at 0xFFFF, its compare set  *)
(* one tick sooner and its write come just too late for that: one tick is  *)
(* left, which WindowSleep does not take for passed (WindowSleepEnds).     *)
CompareAhead ==
  /\ pc \in {"stop", "slow"} => lpFlag \/ Away(lpCompare, lp) <= MAX_TICKS
  /\ ~missed => WindowSleepEnds

(* "How long before the next event LPTIM1 wakes the chip" (OSSetStop2Wake, *)
(* Escapement_Stop2.h): a sleep as long as wanted ends before its event,   *)
(* with any margin under OS_STOP2_MIN_US.                                  *)
WokenBeforeEvent ==
  pc = "stop" /\ whole /\ ~lpFlag =>
    now + still + TickUs * Away(lpCompare, lp) <= target + phase
=============================================================================
