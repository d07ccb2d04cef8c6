---------------------------- MODULE MCClockAlarm ----------------------------
(* Small clocks and alarms for ClockAlarm.                                     *)
EXTENDS ClockAlarm
CONSTANTS a1, a2

MCNever == -1000

Sticky(first, interval) ==
    [ringTime |-> first, ringInterval |-> interval, ringDuration |-> 0,
     ringTimeStepCount |-> 1, stopTime |-> MCNever, sticky |-> TRUE]
ForSteps(first, interval, n) ==
    [Sticky(first, interval) EXCEPT !.sticky = FALSE, !.ringTimeStepCount = n]
ForTime(first, interval, d) ==
    [ForSteps(first, interval, 1) EXCEPT !.ringDuration = d]
Until(k, t) == [k EXCEPT !.stopTime = t]

Program(step, steps, stop, repeat, kinds) ==
    [timeStep |-> step, steps |-> steps, stopTime |-> stop,
     repeatDuration |-> repeat, kinds |-> kinds]

One(kinds) == {a1 :> k : k \in kinds}
Two(first, second) == {a1 :> k @@ a2 :> l : k \in first, l \in second}
OneShot == {Sticky(2, 0), ForSteps(2, 0, 1)}

\* A clock from 0 to 6 by steps of 1, the same by steps of 2 that do not meet
\* the ring times, by steps that vary or change sign, and one that runs
\* backwards; clocks of period 4.
MCPrograms ==
    {Program(1, {}, 6, 0,
        One(OneShot \cup {Sticky(MCNever, 2), ForSteps(1, 3, 1),
              ForSteps(2, 4, 2), ForTime(1, 4, 2),
              Until(ForSteps(1, 2, 1), 4), Until(Sticky(1, 1), 4)})),
     Program(2, {}, 6, 0, One({Sticky(1, 3), ForSteps(1, 4, 1), ForTime(1, 6, 3)})
                        \cup Two({ForSteps(1, 4, 1)}, {Sticky(2, 2)})),
     Program(1, {2}, 4, 0, One({ForSteps(1, 4, 1), ForTime(1, 4, 2), Sticky(3, 0)})),
     Program(1, {}, MCNever, 0, One({Sticky(-1, 0), ForSteps(-1, 2, 1)})),
     Program(2, {-1}, 3, 0, One({Sticky(3, 2)})),
     Program(-1, {}, -6, 0, One({Sticky(-1, -2), ForSteps(-2, -3, 1)})),
     Program(-1, {0}, -2, 0, One({Sticky(-1, -1)})),
     Program(1, {}, MCNever, 4,
             One({ForSteps(2, 0, 1), Sticky(1, 2), ForSteps(0, 2, 1),
                  ForSteps(MCNever, 2, 2), ForTime(1, 2, 3),
                  Until(ForSteps(1, 2, 1), 3)})),
     Program(3, {2}, MCNever, 4,
             One({ForSteps(2, 0, 1), Sticky(1, 2), ForSteps(0, 2, 1),
                  Sticky(2, -2)})),
     Program(5, {0}, MCNever, 4, One({ForSteps(0, 2, 1), Sticky(1, 2)}))}

\* One alarm that rings at the start and in the middle of each period of 4, and
\* whose ring time is the one in the middle.
MCRepeatingPrograms == {Program(1, {}, MCNever, 4, One({Sticky(2, 2)}))}
MCRingTimes == {4}
=============================================================================
