------------------------------- MODULE Alarm -------------------------------
(* The rules by which an alarm of the Time Manager decides, after a step of   *)
(* its clock, whether it rings: ESMCI::Alarm::checkRingTime and what it calls *)
(* (src/Infrastructure/TimeMgr/src/ESMCI_Alarm.C).  Each operator takes an    *)
(* alarm record a and a clock record c and gives the alarm as the code leaves *)
(* it.  Times and intervals are integers counted from the clock's startTime.  *)
EXTENDS Integers

CONSTANT
    Never         \* the value of an ESMCI::Time that was never set

ASSUME NeverAssumption == Never \in Int

Magnitude(i) == IF i >= 0 THEN i ELSE -i

\* TimeInterval's / and %, which truncate towards zero.
Quotient(i, d) ==
    LET q == Magnitude(i) \div Magnitude(d)
    IN  IF (i >= 0) = (d >= 0) THEN q ELSE -q
Remainder(i, d) == i - d * Quotient(i, d)

\* "positive" is the sign of the step the clock took last: with a negative
\* step, time runs backwards and every comparison turns round.
Positive(c) == c.currAdvanceTimeStep >= 0
AtOrPast(positive, t, r) == IF positive THEN t >= r ELSE t <= r
Past(positive, t, r) == IF positive THEN t > r ELSE t < r
OppositeSigns(i, j) == (i > 0 /\ j < 0) \/ (i < 0 /\ j > 0)

\* Mutants of the operators below.
OneShotToo(a, c) == a.sticky /\ c.advanceCount # 0
NotAdjusted(a, c) == a
NotCarried(a) == a
LeavesRingTime(a) == [a EXCEPT !.prevRingTime = a.ringTime]

\* An alarm as ESMCI_alarmCreate makes it from p, at clock time now.
NewAlarm(p, now) ==
    LET first == IF p.ringTime # Never THEN p.ringTime
                 ELSE now + p.ringInterval
    IN  [ringTime |-> first, firstRingTime |-> first, prevRingTime |-> first,
         ringInterval |-> p.ringInterval, ringDuration |-> p.ringDuration,
         ringTimeStepCount |-> p.ringTimeStepCount,
         timeStepRingingCount |-> 0, stopTime |-> p.stopTime,
         ringBegin |-> Never, ringEnd |-> Never, sticky |-> p.sticky,
         ringing |-> FALSE, ringingOnCurrTimeStep |-> FALSE,
         ringingOnPrevTimeStep |-> FALSE, enabled |-> TRUE,
         userChangedRingTime |-> FALSE]

-----------------------------------------------------------------------------
\* The ring times move on by ringInterval.
NextRing(a) == [a EXCEPT !.prevRingTime = a.ringTime,
                         !.ringTime = @ + a.ringInterval]

\* The loop of checkRingTime that moves the ring time past t, unless the next
\* ring would come after the alarm's stopTime: the numbers of rounds after
\* which it can end.  A loop that does not end in these rounds is endless: ring
\* times at least 1 apart pass t by then, or never do.
RoundsPast(a, positive, t) ==
    {n \in 0 .. Magnitude(t - a.ringTime) + 1 :
        LET r == a.ringTime + n * a.ringInterval
        IN  \/ ~ AtOrPast(positive, t, r)
            \/ /\ a.stopTime # Never
               /\ AtOrPast(positive, r, a.stopTime - a.ringInterval)}

MovePast(a, positive, t) ==
    LET rounds == RoundsPast(a, positive, t)
        n == CHOOSE m \in rounds : \A k \in rounds : m <= k
    IN  IF rounds = {} \/ n = 0 THEN a
        ELSE [a EXCEPT !.prevRingTime = a.ringTime + (n - 1) * a.ringInterval,
                       !.ringTime = @ + n * a.ringInterval]

\* Has the clock's last step crossed the ring time?  A clock that was never
\* advanced has no previous time.
Crossed(a, c, positive) ==
    /\ AtOrPast(positive, c.currTime, a.ringTime)
    /\ c.advanceCount # 0 => ~ AtOrPast(positive, c.prevTime, a.ringTime)

CheckTurnOn(a, c, positive) ==
    LET on == [a EXCEPT !.ringing = TRUE, !.ringingOnCurrTimeStep = TRUE,
                        !.ringBegin = c.currTime]
        more == a.stopTime # Never =>
                  ~ AtOrPast(positive, c.currTime, a.stopTime - a.ringInterval)
    IN  CASE ~ Crossed(a, c, positive) ->
                 [a EXCEPT !.ringingOnCurrTimeStep = FALSE]
          [] Crossed(a, c, positive) /\ more -> NextRing(on)
          [] OTHER -> on

ByDuration(a) == a.ringTimeStepCount = 1 /\ a.ringDuration # 0
Silenced(a) == [a EXCEPT !.ringing = FALSE, !.ringingOnCurrTimeStep = FALSE,
                         !.timeStepRingingCount = 0]

\* Has a ringing alarm rung as long as it should, elapsed after it began?
RungEnough(a, elapsed) ==
    IF ByDuration(a) THEN Magnitude(elapsed) >= Magnitude(a.ringDuration)
    ELSE /\ a.ringTimeStepCount >= 1
         /\ a.timeStepRingingCount >= a.ringTimeStepCount

-----------------------------------------------------------------------------
\* checkRingTime with the clock going forward.

Carried(a) == [a EXCEPT !.ringingOnPrevTimeStep = a.ringingOnCurrTimeStep]

\* The pre-check of a ring time that the user set: it must be ahead.
OutOfRange(a, c) ==
    /\ a.enabled
    /\ a.userChangedRingTime
    /\ Past(Positive(c), c.currTime, a.ringTime)

SignChanged(c) == OppositeSigns(c.currAdvanceTimeStep, c.prevAdvanceTimeStep)
Pulled(a, c) == /\ SignChanged(c) \/ c.userChangedDirection
                /\ ~ a.userChangedRingTime
WithSign(a, c) ==
    IF SignChanged(c) THEN [a EXCEPT !.ringInterval = -@, !.ringDuration = -@]
    ELSE a

PreChecked(a, c) ==
    IF ~ a.enabled THEN a
    ELSE LET s == WithSign(a, c)
             p == IF Pulled(a, c) THEN MovePast(s, Positive(c), c.prevTime)
                  ELSE s
         IN  [p EXCEPT !.userChangedRingTime = FALSE]

TurnOnOrOff(a, c) ==
    LET positive == Positive(c)
        checked == CheckTurnOn(a, c, positive)
    IN  CASE ~ a.enabled \/ (a.ringing /\ a.sticky) -> a
          [] a.enabled /\ ~ a.ringing -> checked
          [] OTHER -> IF /\ ~ Crossed(a, c, positive)
                         /\ RungEnough(a, c.currTime - a.ringBegin)
                      THEN Silenced(checked) ELSE checked

Counted(a) ==
    IF a.ringing THEN [a EXCEPT !.timeStepRingingCount = @ + 1] ELSE a

KeptAhead(a, c) == a.sticky /\ a.ringInterval # 0 /\ c.advanceCount # 0

CheckForward(a, c) ==
    IF OutOfRange(a, c) THEN Carried(a)
    ELSE LET b == Counted(TurnOnOrOff(PreChecked(Carried(a), c), c))
         IN  IF KeptAhead(b, c) THEN MovePast(b, Positive(c), c.currTime)
             ELSE b

\* One of the two loops of the forward check never ends.
ForwardEndless(a, c) ==
    /\ ~ OutOfRange(a, c)
    /\ \/ /\ a.enabled /\ Pulled(a, c)
          /\ RoundsPast(WithSign(a, c), Positive(c), c.prevTime) = {}
       \/ LET b == Counted(TurnOnOrOff(PreChecked(Carried(a), c), c))
          IN  KeptAhead(b, c) /\ RoundsPast(b, Positive(c), c.currTime) = {}

-----------------------------------------------------------------------------
\* checkRingTime with the clock in reverse.

\* resetRingBegin: the first step, counted from startTime, at or past ringTime.
ResetRingBegin(a, c) ==
    LET rest == Remainder(a.ringTime, c.timeStep)
        rem == IF Positive(c) THEN rest ELSE -rest
    IN  [a EXCEPT !.ringBegin = IF rest = 0 THEN a.ringTime
                                ELSE a.ringTime - rem + c.timeStep]

StepBack(a) == [a EXCEPT !.ringTime = a.prevRingTime,
                         !.prevRingTime = @ - a.ringInterval]

NotReversible(a) == a.sticky /\ a.ringEnd = Never

\* A sticky alarm steps back past every ringerOff() that is still ahead, in no
\* more rounds than it takes to be back at the first ring time and here ...
StickyRounds(a, c) ==
    {n \in 0 .. Magnitude(a.ringEnd - c.currTime)
                  + Magnitude(a.prevRingTime - a.firstRingTime) + 1 :
        \/ ~ Past(Positive(c), a.ringEnd - n * a.ringInterval, c.currTime)
        \/ a.firstRingTime = IF n = 0 THEN a.ringTime
                             ELSE a.prevRingTime - (n - 1) * a.ringInterval}
StickyBack(a, c) ==
    LET n == CHOOSE m \in StickyRounds(a, c) :
                 \A k \in StickyRounds(a, c) : m <= k
    IN  IF StickyRounds(a, c) = {} \/ n = 0 THEN a
        ELSE [a EXCEPT !.ringEnd = @ - n * a.ringInterval,
                       !.ringTime = a.prevRingTime - (n - 1) * a.ringInterval,
                       !.prevRingTime = @ - n * a.ringInterval]

\* ... any other steps back once, when the direction was just changed.
Adjusted(a, c) ==
    CASE a.sticky -> StickyBack(a, c)
      [] /\ ~ a.sticky /\ c.userChangedDirection
         /\ Past(Positive(c), a.ringTime, c.currTime + c.timeStep)
         /\ a.ringTime # a.firstRingTime -> ResetRingBegin(StepBack(a), c)
      [] OTHER -> a

\* The time at which the alarm stopped ringing in forward mode.
RingTimeEnd(a, c) ==
    CASE a.sticky -> a.ringEnd
      [] ~ a.sticky /\ ByDuration(a) -> a.ringBegin + a.ringDuration
      [] OTHER -> (IF a.ringBegin = Never THEN 0 ELSE a.ringBegin)
                    + a.ringTimeStepCount * c.timeStep

\* ringBegin, when it was never set, becomes the clock's startTime.
WithBegin(a) ==
    IF /\ a.enabled /\ ~ a.sticky /\ ~ ByDuration(a)
       /\ a.ringTimeStepCount >= 1 /\ a.ringBegin = Never
    THEN [a EXCEPT !.ringBegin = 0] ELSE a

BackOn(a, c, end) ==
    IF a.sticky THEN c.currTime = end
    ELSE /\ Past(Positive(c), end, c.currTime)
         /\ AtOrPast(Positive(c), c.currTime + c.timeStep, end)

TurnOnOrOffReverse(a, c, end) ==
    CASE a.enabled /\ ~ a.ringing ->
             [a EXCEPT !.ringing = BackOn(a, c, end),
                       !.ringingOnCurrTimeStep = BackOn(a, c, end),
                       !.timeStepRingingCount =
                           IF BackOn(a, c, end)
                           THEN Quotient(c.currTime - a.ringBegin, c.timeStep) + 1
                           ELSE @]
      [] a.enabled /\ a.ringing /\ ~ a.sticky /\ a.timeStepRingingCount <= 1 ->
             LET off == Silenced(a)
             IN  ResetRingBegin(IF a.ringTime # a.firstRingTime THEN StepBack(off)
                                ELSE [off EXCEPT !.prevRingTime = a.ringTime], c)
      [] a.enabled /\ a.ringing /\ ~ a.sticky /\ a.timeStepRingingCount > 1 ->
             [a EXCEPT !.timeStepRingingCount = @ - 1]
      [] OTHER -> a

\* The end of the ringing that the previous time of the clock is compared with:
\* a non-sticky alarm that has just gone off looks at the event before.
LastEnd(before, after, c, end) ==
    IF /\ before.enabled /\ before.ringing /\ ~ before.sticky
       /\ before.timeStepRingingCount <= 1
       /\ before.ringTime # before.firstRingTime
    THEN after.ringTime + (IF ByDuration(after) THEN after.ringDuration
                           ELSE after.ringTimeStepCount * c.timeStep)
    ELSE end

CheckReverse(a, c) ==
    IF NotReversible(a) THEN a
    ELSE LET b == WithBegin(Adjusted(a, c))
             end == RingTimeEnd(b, c)
             d == TurnOnOrOffReverse(b, c, end)
         IN  IF ~ a.enabled THEN d
             ELSE [d EXCEPT !.ringingOnPrevTimeStep =
                     /\ AtOrPast(Positive(c), c.prevTime, d.ringTime)
                     /\ Past(Positive(c), LastEnd(b, d, c, end), c.prevTime)]

ReverseEndless(a, c) ==
    /\ ~ NotReversible(a)
    /\ a.sticky
    /\ StickyRounds(a, c) = {}

-----------------------------------------------------------------------------
\* checkRingTime on a clock that repeats every c.repeatDuration.

\* Does the step from prev to curr, which may go round, pass time r?
Passes(c, prev, curr, r) ==
    CASE curr > prev -> prev < r /\ r <= curr
      [] curr < prev -> \/ prev < r /\ r < c.repeatDuration
                        \/ 0 <= r /\ r <= curr
      [] OTHER -> r = curr

\* The loop of checkRingingDueToRepeatClockTimeStep adds the interval in each of
\* its rounds and takes off one period if that is past the end: the periods it
\* has taken off after n rounds, and the ring time that it then looks at.
Wraps(a, c, n) ==
    LET i == a.ringInterval
        due == IF i > 0 THEN (a.ringTime + n * i) \div c.repeatDuration
               ELSE a.ringTime \div (c.repeatDuration - i)
    IN  IF due < 0 THEN 0 ELSE IF n < due THEN n ELSE due

RingAfter(a, c, n) ==
    (a.ringTime + n * a.ringInterval) - Wraps(a, c, n) * c.repeatDuration

\* After these rounds the loop has seen all that it will ever see: it is within
\* the period, or below it for good, and round it once.
Rounds(a, c) == 0 .. Magnitude(a.ringTime) + 2 * c.repeatDuration

\* The rounds at whose start the loop ends without a ring.
RepeatStops(a, c) ==
    {n \in Rounds(a, c) :
        \/ Wraps(a, c, n) > 0 /\ RingAfter(a, c, n) > a.ringTime
        \/ /\ a.stopTime # Never
           /\ a.stopTime >= a.ringTime \/ Wraps(a, c, n) > 0
           /\ RingAfter(a, c, n) >= a.stopTime}
RepeatHits(a, c, prev, curr) ==
    {n \in Rounds(a, c) : Passes(c, prev, curr, RingAfter(a, c, n))}

RingsDueToStep(a, c, prev, curr, step) ==
    \/ step >= c.repeatDuration
    \/ IF a.ringInterval = 0 THEN Passes(c, prev, curr, a.ringTime)
       ELSE \E n \in RepeatHits(a, c, prev, curr) :
                \A k \in RepeatStops(a, c) : n < k

RepeatEndless(a, c, prev, curr, step) ==
    /\ step < c.repeatDuration
    /\ a.ringInterval # 0
    /\ RepeatHits(a, c, prev, curr) = {}
    /\ RepeatStops(a, c) = {}

\* The step that brought the clock here; a clock never advanced is at its start.
LastStep(a, c) ==
    RingsDueToStep(a, c, IF c.advanceCount = 0 THEN 0 ELSE c.prevTime,
                   c.currTime, c.currAdvanceTimeStep)

RingingFor(a, c) ==
    CASE c.currTime > a.ringBegin -> c.currTime - a.ringBegin
      [] c.currTime < a.ringBegin -> c.repeatDuration - a.ringBegin + c.currTime
      [] OTHER -> IF c.currAdvanceTimeStep # 0 THEN c.repeatDuration ELSE 0

KeepsRinging(a) == [a EXCEPT !.ringing = TRUE, !.ringingOnCurrTimeStep = TRUE,
                             !.timeStepRingingCount = @ + 1]

CheckRepeat(a, c) ==
    LET b == Carried(a)
    IN  CASE ~ a.enabled -> b
          [] a.enabled /\ LastStep(a, c) ->
                 KeepsRinging(IF a.ringing THEN b
                              ELSE [b EXCEPT !.ringBegin = c.currTime])
          [] /\ a.enabled /\ ~ LastStep(a, c)
             /\ ~ a.sticky /\ a.ringing ->
                 IF RungEnough(a, RingingFor(a, c)) THEN Silenced(b)
                 ELSE KeepsRinging(b)
          [] OTHER -> b

-----------------------------------------------------------------------------
\* Alarm::checkRingTime, called for each alarm by Clock::advance and addAlarm.
CheckRingTime(a, c) ==
    CASE c.repeatDuration # 0 -> CheckRepeat(a, c)
      [] c.repeatDuration = 0 /\ c.direction = "forward" -> CheckForward(a, c)
      [] OTHER -> CheckReverse(a, c)

\* The clock's flag of a changed direction, which that call may reset.
ResetsChangedDirection(a, c) ==
    CASE c.repeatDuration # 0 -> FALSE
      [] c.repeatDuration = 0 /\ c.direction = "forward" ->
             a.enabled /\ ~ OutOfRange(a, c)
      [] OTHER -> ~ NotReversible(a)

\* That call does not return.
Endless(a, c) ==
    CASE c.repeatDuration # 0 ->
             a.enabled /\ RepeatEndless(a, c,
                 IF c.advanceCount = 0 THEN 0 ELSE c.prevTime,
                 c.currTime, c.currAdvanceTimeStep)
      [] c.repeatDuration = 0 /\ c.direction = "forward" -> ForwardEndless(a, c)
      [] OTHER -> ReverseEndless(a, c)

\* Alarm::willRingNext, with the time that Clock::getNextTime foretells.
WillRingNext(a, c, nextTime, step) ==
    IF c.repeatDuration # 0
    THEN RingsDueToStep(a, c, c.currTime, nextTime, step)
    ELSE /\ a.enabled
         /\ AtOrPast(step >= 0, nextTime, a.ringTime)
         /\ ~ AtOrPast(step >= 0, c.currTime, a.ringTime)

\* Alarm::ringerOff: forward, the time is noted for the way back; in reverse a
\* sticky alarm steps back to the event before.
RingerOff(a, c) ==
    LET off == [a EXCEPT !.ringing = FALSE, !.timeStepRingingCount = 0]
        back == [off EXCEPT !.ringTime = @ - a.ringInterval,
                            !.prevRingTime = @ - a.ringInterval]
    IN  CASE c.direction = "forward" -> [off EXCEPT !.ringEnd = c.currTime]
          [] /\ c.direction = "reverse"
             /\ a.sticky /\ a.ringTime # a.firstRingTime ->
                 IF Past(Positive(c), a.ringEnd, back.ringTime)
                 THEN [back EXCEPT !.ringEnd = IF @ = Never THEN @
                                              ELSE @ - a.ringInterval]
                 ELSE back
          [] OTHER -> off
=============================================================================
