----------------------------- MODULE ClockAlarm -----------------------------
(* A clock of the Time Manager and the alarms on it, driven by the calls of a *)
(* time loop: ESMCI::Clock (ESMCI_Clock.C) and ESMCI::Alarm (ESMCI_Alarm.C).  *)
(* The alarms of a clock share its flag userChangedDirection; they are        *)
(* checked one after the other, in the order of the clock's alarmList.        *)
EXTENDS Alarm, SequencesExt

CONSTANTS
    Alarms,       \* the alarms the program may create
    Programs,     \* what it may give ESMF_ClockCreate (timeStep, stopTime,
                  \*   repeatDuration), ESMF_ClockAdvance (steps) and, per
                  \*   alarm, ESMF_AlarmCreate (kinds)
    RingTimes,    \* the ring times an ESMF_AlarmSet may be given
    MaxAdvances,  \* bound on the clock's advanceCount, either way
    MaxTurns,     \* bound on the calls that set the clock's direction or
                  \*   change an alarm by hand
    MaxCalls      \* bound on those of them that change an alarm

\* What ESMCI_ClockCreate, Clock::advance, ESMCI_alarmCreate and Alarm::set are
\* given: times, intervals and, for the clock's own, a time step that is not zero
\* (Clock::validate refuses it with a stop time; resetRingBegin divides by it).
ASSUME ProgramsAssumption ==
    /\ RingTimes \subseteq Int
    /\ \A p \in Programs :
          /\ p.timeStep \in Int \ {0} /\ p.stopTime \in Int
          /\ p.repeatDuration \in Nat
          /\ p.steps \subseteq Int
          /\ \A k \in p.kinds :
                /\ DOMAIN k \subseteq Alarms
                /\ \A a \in DOMAIN k :
                      k[a] \in [ringTime : Int, ringInterval : Int,
                                ringDuration : Int, ringTimeStepCount : Int,
                                stopTime : Int, sticky : BOOLEAN]

VARIABLES
    clock,      \* the ESMCI::Clock
    alarmList,  \* its alarms, in the order they were added
    alarm,      \* the ESMCI::Alarm of each alarm, from its creation on
    program,    \* what each alarm is created with (kind), and the time steps
                \*   other than its own that the clock may be advanced by (steps)
    returned,   \* FALSE: a call is in a loop that never ends
    turns,      \* calls that set the direction so far
    calls,      \* other calls that changed an alarm so far
    rang,       \* history: per time, the alarms that rang when the clock,
                \*   going forward, last came to it
    touched     \* history: the alarms whose schedule the program changed, that
                \*   were not told of a change of direction, or that went
                \*   through steps of both signs or back by steps that vary

vars ==
    <<clock, alarmList, alarm, program, returned, turns, calls, rang, touched>>

Directions == {"forward", "reverse"}
OnClock == {alarmList[i] : i \in 1 .. Len(alarmList)}
Created == DOMAIN alarm
kind == program.kind
Repeating == clock.repeatDuration # 0

\* ESMCI_ClockCreate.
NewClock(k) ==
    [timeStep |-> k.timeStep, stopTime |-> k.stopTime,
     repeatDuration |-> k.repeatDuration, repeatCount |-> 0,
     currAdvanceTimeStep |-> k.timeStep, prevAdvanceTimeStep |-> k.timeStep,
     currTime |-> 0, prevTime |-> 0, advanceCount |-> 0,
     direction |-> "forward", userChangedDirection |-> FALSE]

Init ==
    /\ \E p \in Programs :
          /\ clock = NewClock(p)
          /\ program \in [kind : p.kinds, steps : {p.steps}]
    /\ alarmList = << >>
    /\ alarm = << >>
    /\ returned = TRUE
    /\ turns = 0
    /\ calls = 0
    /\ rang = << >>
    /\ touched = {}

\* Clock::isDone: past the stop time going forward, back at the start time in
\* reverse.  Without a stop time the code compares, in reverse, with one that was
\* never set; here the clock is then never done, so that it may also go on.
IsDone(c) ==
    LET end == IF c.direction = "forward" THEN c.stopTime ELSE 0
        ahead == (c.direction = "forward") = (c.stopTime > 0)
    IN  CASE c.stopTime = Never -> FALSE
          [] c.stopTime = 0 -> c.currTime = end
          [] OTHER -> IF ahead THEN c.currTime >= end ELSE c.currTime <= end

-----------------------------------------------------------------------------
\* Mutant of the operator below.
WrapsOnce(c, step) ==
    LET t == c.currTime + step
    IN  [c EXCEPT !.prevTime = c.currTime, !.advanceCount = @ + 1,
                  !.prevAdvanceTimeStep = c.currAdvanceTimeStep,
                  !.currAdvanceTimeStep = step,
                  !.currTime = IF c.repeatDuration # 0 /\ t >= c.repeatDuration
                               THEN t - c.repeatDuration ELSE t]

\* The clock after a step forward; a repeating clock goes round as often as the
\* step reaches the end of its period.
SteppedForward(c, step) ==
    LET m == [c EXCEPT !.prevTime = c.currTime,
                       !.prevAdvanceTimeStep = c.currAdvanceTimeStep,
                       !.currAdvanceTimeStep = step]
        t == c.currTime + step
    IN  IF c.repeatDuration = 0
        THEN [m EXCEPT !.currTime = t, !.advanceCount = @ + 1]
        ELSE IF step <= 0 THEN m
        ELSE [m EXCEPT !.currTime = t % c.repeatDuration,
                       !.repeatCount = @ + t \div c.repeatDuration,
                       !.advanceCount = @ + 1]

SteppedBack(c, step) ==
    [c EXCEPT !.currTime = @ - step, !.prevTime = @ - c.timeStep,
              !.advanceCount = @ - 1]

\* The advance is refused: a repeating clock neither stands nor goes back.
Refused(c, step) == c.repeatDuration # 0 /\ (c.direction = "reverse" \/ step <= 0)

Stepped(c, step) ==
    CASE c.direction = "forward" -> SteppedForward(c, step)
      [] c.direction = "reverse" /\ c.repeatDuration = 0 -> SteppedBack(c, step)
      [] OTHER -> c

\* The alarms that are checked before alarm a.
Before(a) == {alarmList[i] : i \in {k \in 1 .. Len(alarmList) :
                 \E j \in k + 1 .. Len(alarmList) : alarmList[j] = a}}

\* The alarms that see the clock's flag of a changed direction after one before
\* them has reset it for all.
Untold(c) ==
    {a \in OnClock : /\ c.userChangedDirection
                     /\ \E b \in Before(a) : ResetsChangedDirection(alarm[b], c)}

\* The alarms in the order of the list, each checked with the flag as the ones
\* before left it, up to one whose check never ends.
Seen(c, a) == [c EXCEPT !.userChangedDirection = @ /\ a \notin Untold(c)]
Stuck(c) == {a \in OnClock : Endless(alarm[a], Seen(c, a))}
Checked(c) == {a \in OnClock \ Stuck(c) : Before(a) \cap Stuck(c) = {}}

CheckAll(c) ==
    [clock |-> [c EXCEPT !.userChangedDirection =
                   @ /\ \A a \in Checked(c) : ~ ResetsChangedDirection(alarm[a], c)],
     alarm |-> [a \in Created |-> IF a \in Checked(c)
                                  THEN CheckRingTime(alarm[a], Seen(c, a))
                                  ELSE alarm[a]],
     endless |-> Stuck(c) # {}]

\* The clock, going forward, comes to time t and the alarms in ringing ring.
Visit(t, ringing) ==
    [u \in DOMAIN rang \cup {t} |-> IF u = t THEN ringing ELSE rang[u]]
RingingNow(alarms) == {a \in OnClock : alarms[a].ringing /\ alarms[a].enabled}

\* Clock::advance, with the clock's own time step or one that is passed in,
\* called from a loop that ends when the clock is done.
Advance(step) ==
    LET c == Stepped(clock, step)
        checked == CheckAll(c)
    IN  /\ returned
        /\ ~ IsDone(clock)
        /\ -MaxAdvances < clock.advanceCount /\ clock.advanceCount < MaxAdvances
        /\ IF Refused(clock, step)
           THEN clock' = c /\ UNCHANGED <<alarm, returned, rang>>
           ELSE /\ clock' = checked.clock
                /\ alarm' = checked.alarm
                /\ returned' = ~ checked.endless
                /\ rang' = IF c.direction = "reverse" THEN rang
                           ELSE Visit(c.currTime, RingingNow(checked.alarm))
        /\ touched' = touched \cup Untold(c)
                        \cup {a \in Alarms :
                                \/ OppositeSigns(step, clock.timeStep)
                                \/ /\ clock.direction = "reverse"
                                   /\ program.steps # {}}
                        \cup {a \in OnClock : /\ clock.direction = "reverse"
                                              /\ alarm[a].sticky}
        /\ UNCHANGED <<alarmList, program, turns, calls>>

MayCall == calls < MaxCalls /\ turns + calls < MaxTurns

\* Clock::set with a direction.  A repeating clock refuses to go back, but only
\* after it has taken the new direction.
SetDirection(d) ==
    /\ returned
    /\ turns + calls < MaxTurns
    /\ turns' = turns + 1
    /\ clock' = [clock EXCEPT !.direction = d, !.userChangedDirection = TRUE]
    /\ UNCHANGED <<alarmList, alarm, program, returned, calls, rang, touched>>

\* Clock::getNextTime, which willRingNext calls too: the time is only
\* foretold, but the rounds of a repeating clock are counted all the same.
NextTime(c, step) ==
    IF c.repeatDuration = 0 THEN c.currTime + step
    ELSE (c.currTime + step) % c.repeatDuration

GetNextTime ==
    /\ returned
    /\ Repeating
    /\ MayCall
    /\ calls' = calls + 1
    /\ clock' = [clock EXCEPT !.repeatCount =
                    @ + (clock.currTime + clock.timeStep) \div clock.repeatDuration]
    /\ UNCHANGED <<alarmList, alarm, program, returned, turns, rang, touched>>

-----------------------------------------------------------------------------
\* ESMCI_alarmCreate: a repeating clock wants an interval that divides its
\* period; the new alarm joins the list and is checked at once.
AlarmCreate(a) ==
    LET p == kind[a]
        new == NewAlarm(p, clock.currTime)
    IN  /\ returned
        /\ a \in DOMAIN kind \ Created
        /\ Repeating =>
             /\ p.ringInterval < clock.repeatDuration
             /\ p.ringInterval # 0 =>
                  Remainder(clock.repeatDuration, p.ringInterval) = 0
             /\ p.ringDuration < clock.repeatDuration
        /\ alarmList' = Append(alarmList, a)
        /\ alarm' = [b \in Created \cup {a} |->
                        IF b = a THEN CheckRingTime(new, clock) ELSE alarm[b]]
        /\ clock' = [clock EXCEPT !.userChangedDirection =
                        @ /\ ~ ResetsChangedDirection(new, clock)]
        /\ returned' = ~ Endless(new, clock)
        /\ touched' = touched
              \cup {b \in OnClock : /\ clock.userChangedDirection
                                    /\ ResetsChangedDirection(new, clock)}
              \cup {b \in {a} :
                      \/ AtOrPast(clock.timeStep > 0, clock.currTime, new.ringTime)
                      \/ clock.direction = "reverse"}
        /\ rang' = IF clock.direction = "reverse" THEN rang
                   ELSE Visit(clock.currTime,
                          (IF clock.currTime \in DOMAIN rang
                           THEN rang[clock.currTime] ELSE {})
                          \cup {b \in {a} : alarm'[b].ringing})
        /\ UNCHANGED <<program, turns, calls>>

\* ESMCI_alarmDestroy, through Clock::removeAlarm, which looks for the alarm and
\* moves the rest of the list to the left.
Position(a) == CHOOSE i \in 1 .. Len(alarmList) : alarmList[i] = a

AlarmDestroy(a) ==
    /\ returned
    /\ a \in OnClock
    /\ MayCall
    /\ calls' = calls + 1
    /\ alarmList' = RemoveAt(alarmList, Position(a))
    /\ touched' = touched \cup {a}
    /\ UNCHANGED <<clock, alarm, program, returned, turns, rang>>

\* Alarm::ringerOff, called as the program handles a ringing alarm.
TurnRingerOff(a) ==
    /\ returned
    /\ a \in RingingNow(alarm)
    /\ alarm' = [alarm EXCEPT ![a] = RingerOff(@, clock)]
    /\ touched' = IF clock.direction = "reverse" \/ ~ alarm[a].sticky
                  THEN touched \cup {a} ELSE touched
    /\ UNCHANGED <<clock, alarmList, program, returned, turns, calls, rang>>

\* The calls that change the alarm's schedule or state by hand.
Change(a, new) ==
    /\ returned
    /\ a \in OnClock
    /\ MayCall
    /\ calls' = calls + 1
    /\ alarm' = [alarm EXCEPT ![a] = new]
    /\ touched' = touched \cup {a}
    /\ UNCHANGED <<clock, alarmList, program, returned, turns, rang>>

\* Alarm::ringerOn.
TurnRingerOn(a) ==
    alarm[a].enabled /\ Change(a, [alarm[a] EXCEPT !.ringing = TRUE])
\* Alarm::enable.
Enable(a) == Change(a, [alarm[a] EXCEPT !.enabled = TRUE])
\* Alarm::disable.
Disable(a) ==
    Change(a, [alarm[a] EXCEPT !.enabled = FALSE, !.ringing = FALSE])
\* Alarm::set with a ring time.
SetRingTime(a, t) ==
    /\ t # alarm[a].ringTime
    /\ Change(a, [alarm[a] EXCEPT !.ringTime = t, !.prevRingTime = t,
                                  !.userChangedRingTime = TRUE])
\* Alarm::setToSticky and Alarm::notSticky.
SetSticky(a, s) == Change(a, [alarm[a] EXCEPT !.sticky = s])

Next ==
    \/ \E step \in program.steps \cup {clock.timeStep} : Advance(step)
    \/ \E d \in Directions : SetDirection(d)
    \/ GetNextTime
    \/ \E a \in Alarms : AlarmCreate(a)
    \/ \E a \in Created :
          \/ AlarmDestroy(a)
          \/ TurnRingerOff(a)
          \/ TurnRingerOn(a)
          \/ Enable(a)
          \/ Disable(a)
          \/ \E t \in RingTimes : SetRingTime(a, t)
          \/ \E s \in BOOLEAN : SetSticky(a, s)

Spec == Init /\ [][Next]_vars

-----------------------------------------------------------------------------
AlarmRecord ==
    [ringTime : Int, firstRingTime : Int, prevRingTime : Int,
     ringInterval : Int, ringDuration : Int, ringTimeStepCount : Int,
     timeStepRingingCount : Int, stopTime : Int, ringBegin : Int, ringEnd : Int,
     sticky : BOOLEAN, ringing : BOOLEAN, ringingOnCurrTimeStep : BOOLEAN,
     ringingOnPrevTimeStep : BOOLEAN, enabled : BOOLEAN,
     userChangedRingTime : BOOLEAN]

\* The types; an alarm that is disabled does not ring (Alarm::validate calls
\* such an alarm invalid), and a repeating clock stays within its period.
TypeOK ==
    /\ Created \subseteq Alarms
    /\ \A a \in Created : /\ alarm[a] \in AlarmRecord
                          /\ alarm[a].ringing => alarm[a].enabled
    /\ OnClock \subseteq Created
    /\ Repeating => clock.currTime \in 0 .. clock.repeatDuration - 1
    /\ clock.direction \in Directions
    /\ returned \in BOOLEAN

\* The alarms whose schedule is the one they were created with.
Scheduled == OnClock \ touched

Steps == {Magnitude(s) : s \in program.steps \cup {clock.timeStep}}

\* How long an alarm that is not sticky rings, with steps of length s.
RingLength(a, s) ==
    IF kind[a].ringTimeStepCount = 1 /\ kind[a].ringDuration # 0
    THEN Magnitude(kind[a].ringDuration)
    ELSE kind[a].ringTimeStepCount * s

\* Its events do not run into one another: there is a step of the clock in
\* between at which it is silent.
Spaced(a) ==
    \/ kind[a].ringInterval = 0
    \/ /\ kind[a].ringTimeStepCount >= 1
       /\ \A s \in Steps :
             Magnitude(kind[a].ringInterval) >= RingLength(a, s) + s

\* A step forward that is not refused, leaving out the one at which the count of
\* a clock that went back past its start comes to 0 again: checkTurnOn takes
\* that clock for one never advanced.
StepForward ==
    /\ \E step \in program.steps \cup {clock.timeStep} :
          Advance(step) /\ ~ Refused(clock, step)
    /\ clock.direction = "forward"
    /\ returned'
    /\ clock'.advanceCount # 0

\* The n for which r is the alarm's ring time n intervals after its first.
Ordinals(a, r) ==
    LET first == alarm[a].firstRingTime
    IN  {n \in 0 .. Magnitude(r - first) : r = first + n * kind[a].ringInterval}

\* The times that the step reaches or crosses.
CrossedTimes ==
    LET s == clock.currTime
        t == clock'.currTime
    IN  IF clock.timeStep > 0 THEN s + 1 .. t ELSE t .. s - 1

\* The step crosses one of the alarm's ring times: the first, or one that
\* follows at ringInterval and before the alarm's stopTime.
Due(a) ==
    LET first == alarm[a].firstRingTime
        i == kind[a].ringInterval
    IN  IF Repeating
        THEN \E d \in 1 .. clock'.currAdvanceTimeStep :
                LET t == (clock.currTime + d) % clock.repeatDuration
                IN  IF i > 0 THEN (t - first) % i = 0 ELSE Ordinals(a, t) # {}
        ELSE \E r \in CrossedTimes : \E n \in Ordinals(a, r) :
                n > 0 /\ kind[a].stopTime # Never =>
                  Past(clock.timeStep > 0, kind[a].stopTime, r)

\* The alarm rings at a step at which it is due, unless its stopTime forbids it,
\* and begins to ring at no other.
Punctual(a) ==
    kind[a].sticky \/ Spaced(a) =>
      /\ Due(a) /\ kind[a].stopTime = Never => alarm'[a].ringing
      /\ ~ alarm[a].ringing /\ alarm'[a].ringing => Due(a)

\* The clock rings an alarm at the step that reaches or crosses a ring time,
\* and starts no ring at any other: checkRingTime keeps one ring time per alarm
\* and moves it by hand, in three places and both directions of the clock.
RingsWhenDue ==
    [][StepForward => \A a \in Scheduled \ touched' : Punctual(a)]_vars

\* Going back, an alarm rings exactly at the times at which it rang going
\* forward: "alarms ring in reverse, i.e., they begin ringing when they
\* originally ended, and end ringing when they originally began".  For the
\* alarm that is checked first, once it has rung, and not a sticky one, which
\* the program turns off.
RetracesInReverse ==
    /\ clock.direction = "reverse"
    /\ ~ Repeating
    /\ program.steps = {}
    /\ ~ clock.userChangedDirection
    /\ clock.advanceCount # 0
    /\ alarmList # << >>
    => LET a == alarmList[1]
       IN  /\ a \in Scheduled /\ ~ kind[a].sticky /\ Spaced(a)
           /\ kind[a].stopTime = Never
           /\ alarm[a].ringBegin > 0
           /\ clock.currTime \in DOMAIN rang
           => (alarm[a].ringing <=> a \in rang[clock.currTime])

\* willRingNext foretells what advance then does.
Foretold(a) ==
    LET step == clock'.currAdvanceTimeStep
        will == WillRingNext(alarm[a], clock, NextTime(clock, step), step)
    IN  /\ will => alarm'[a].ringing
        /\ ~ alarm[a].ringing /\ alarm'[a].ringing => will

\* wasPrevRinging says whether the alarm rang right after the step before.
Remembered(a) ==
    ~ Repeating =>
        (alarm'[a].ringingOnPrevTimeStep <=> a \in rang[clock.currTime])

\* An alarm that is not sticky and rings for one step of the clock, of any length.
OneStep(a) ==
    /\ kind[a].ringTimeStepCount = 1
    /\ \A s \in Steps : Magnitude(kind[a].ringDuration) <= s

\* What an alarm is asked about the step ahead and the step behind is true.
QueriesAreTrue ==
    [][StepForward /\ ~ clock.userChangedDirection =>
         \A a \in {b \in Scheduled \ touched' : alarm[b].enabled} :
            /\ Foretold(a)
            /\ kind[a].sticky \/ OneStep(a) => Remembered(a)]_vars

\* The time steps that the program takes, and that they are not all of one sign.
ProgramSteps == program.steps \cup {clock.timeStep}
BothSigns == \E s, t \in ProgramSteps : OppositeSigns(s, t)

\* Every call on a clock returns.
Returns == returned

\* The loops cannot move a ring time past a time: of an alarm that rings once,
\* after a change of direction or of sign, of one whose interval goes against a
\* step that the program may take (checkRingTime takes a step of zero for one
\* forward in time), or, on a repeating clock, of one whose interval is negative
\* or whose next ring is past the end of the period.
CannotPass(ringInterval, ringTime) ==
    CASE Repeating ->
           ringInterval < 0 \/ ringTime + ringInterval >= clock.repeatDuration
      [] ~ Repeating /\ ringInterval = 0 -> turns > 0 \/ BothSigns
      [] OTHER -> \E s \in ProgramSteps : (s >= 0) # (ringInterval > 0)

\* A call does not return only because of such an alarm: every other returns.
EndlessLoops ==
    ~ returned =>
        \E a \in Created : CannotPass(kind[a].ringInterval, alarm[a].ringTime)

-----------------------------------------------------------------------------
(* The inductive invariant. *)

ClockRecord ==
    [timeStep : Int \ {0}, stopTime : Int, repeatDuration : Nat,
     repeatCount : Int, currAdvanceTimeStep : Int, prevAdvanceTimeStep : Int,
     currTime : Int, prevTime : Int, advanceCount : Int,
     direction : Directions, userChangedDirection : BOOLEAN]

KindRecord ==
    [ringTime : Int, ringInterval : Int, ringDuration : Int,
     ringTimeStepCount : Int, stopTime : Int, sticky : BOOLEAN]

Typed ==
    /\ clock \in ClockRecord
    /\ alarmList \in Seq(Alarms)
    /\ program.steps \subseteq Int
    /\ \A a \in DOMAIN kind : a \in Alarms /\ kind[a] \in KindRecord
    /\ Created \subseteq DOMAIN kind
    /\ \A t \in DOMAIN rang : rang[t] \subseteq Created

\* While one alarm is untouched, the clock's steps all go one way.
OneWay ==
    Alarms \ touched # {} =>
        /\ ~ OppositeSigns(clock.currAdvanceTimeStep, clock.timeStep)
        /\ ~ OppositeSigns(clock.prevAdvanceTimeStep, clock.timeStep)

\* A scheduled alarm is the one that was created, and its ring time its own.
AsCreated ==
    \A a \in Scheduled :
        /\ alarm[a].enabled /\ ~ alarm[a].userChangedRingTime
        /\ alarm[a].sticky = kind[a].sticky
        /\ alarm[a].ringTimeStepCount = kind[a].ringTimeStepCount
        /\ alarm[a].ringDuration = kind[a].ringDuration

\* An alarm that is not sticky and rings for one step of the clock.
OneCount(a) ==
    /\ ~ kind[a].sticky
    /\ kind[a].ringTimeStepCount = 1 /\ kind[a].ringDuration = 0

\* A ringing alarm rang at the last step forward, if it is sticky, and has
\* counted that step, if it rings for one.
Steady ==
    \A a \in Scheduled : ~ Repeating =>
        /\ kind[a].sticky /\ alarm[a].ringing => alarm[a].ringingOnCurrTimeStep
        /\ OneCount(a) =>
              /\ alarm[a].timeStepRingingCount >= 0
              /\ alarm[a].ringing => alarm[a].timeStepRingingCount >= 1

\* ringingOnCurrTimeStep is the history of the step that brought the clock here.
Recorded ==
    /\ returned
    /\ ~ Repeating /\ clock.direction = "forward" /\ ~ clock.userChangedDirection
    => \A a \in Scheduled :
          /\ clock.currTime \in DOMAIN rang
          /\ kind[a].sticky \/ OneCount(a) =>
               (alarm[a].ringingOnCurrTimeStep <=> a \in rang[clock.currTime])

\* The clock was never turned: it goes forward and knows of no turn.
Forth ==
    /\ turns \in Nat
    /\ turns = 0 =>
         /\ clock.direction = "forward" /\ ~ clock.userChangedDirection
         /\ ~ Repeating => clock.advanceCount >= 0

\* The ring time that checkRingTime keeps is n intervals after the first, before
\* the stopTime and, without one, the next that the clock will reach.
AtRound(b, now, spaced, n) ==
    /\ b.ringTime = b.firstRingTime + n * b.ringInterval
    /\ n > 0 /\ b.stopTime # Never => b.ringTime < b.stopTime
    /\ b.ringInterval > 0 /\ b.stopTime = Never /\ (b.sticky \/ spaced)
       => now < b.ringTime /\ (n > 0 => b.ringTime - b.ringInterval <= now)

OnSchedule(a) ==
    /\ alarm[a].ringInterval = kind[a].ringInterval
    /\ alarm[a].stopTime = kind[a].stopTime
    /\ \E n \in Ordinals(a, alarm[a].ringTime) :
          AtRound(alarm[a], clock.currTime, Spaced(a), n)

\* ... on a clock that was never turned, as long as its calls return.
Straight == turns = 0 /\ ~ Repeating /\ clock.timeStep > 0

Timely ==
    Straight /\ returned =>
        \A a \in Scheduled : kind[a].ringInterval >= 0 => OnSchedule(a)

ClockInv ==
    /\ TypeOK /\ Typed /\ OneWay /\ AsCreated /\ Steady /\ Recorded
    /\ Forth /\ Timely

\* The clock has taken the program's steps, and an alarm, also one that was
\* changed, has the interval it was created with, unless a change of sign turned
\* it round; on a repeating clock the interval divides the period.
Paced ==
    /\ clock.currAdvanceTimeStep \in ProgramSteps
    /\ clock.prevAdvanceTimeStep \in ProgramSteps
    /\ \A a \in Created :
          LET i == kind[a].ringInterval
          IN  /\ alarm[a].ringInterval \in {i, -i}
              /\ alarm[a].ringInterval = i \/ (BothSigns /\ ~ Repeating)
              /\ Repeating /\ i # 0 => Remainder(clock.repeatDuration, i) = 0
=============================================================================
