------------------------------ MODULE ClockProofs ------------------------------
(***************************************************************************)
(* Proofs about ClockAlarm for every clock and all programs of its calls:  *)
(* the type invariant, what the members of an alarm say of the steps of    *)
(* its clock (the inductive invariant ClockInv), and that willRingNext and *)
(* wasPrevRinging answer what Clock::advance does.                         *)
(***************************************************************************)
EXTENDS ClockAlarm, WellFoundedInduction, TLAPS

\* The members of an alarm that are numbers, and those that are flags.
Numbers == {"ringTime", "firstRingTime", "prevRingTime", "ringInterval", "ringDuration",
            "ringTimeStepCount", "timeStepRingingCount", "stopTime", "ringBegin", "ringEnd"}
Flags == {"sticky", "ringing", "ringingOnCurrTimeStep", "ringingOnPrevTimeStep", "enabled",
          "userChangedRingTime"}

(* Setting a number of an alarm leaves an alarm. *)
LEMMA SetNumber ==
  \A a \in AlarmRecord : \A f \in Numbers : \A v \in Int : [a EXCEPT ![f] = v] \in AlarmRecord
<1> TAKE a \in AlarmRecord
<1> TAKE f \in Numbers
<1> TAKE v \in Int
<1>1. CASE f = "ringTime"
  BY <1>1 DEF AlarmRecord
<1>2. CASE f = "firstRingTime"
  BY <1>2 DEF AlarmRecord
<1>3. CASE f = "prevRingTime"
  BY <1>3 DEF AlarmRecord
<1>4. CASE f = "ringInterval"
  BY <1>4 DEF AlarmRecord
<1>5. CASE f = "ringDuration"
  BY <1>5 DEF AlarmRecord
<1>6. CASE f = "ringTimeStepCount"
  BY <1>6 DEF AlarmRecord
<1>7. CASE f = "timeStepRingingCount"
  BY <1>7 DEF AlarmRecord
<1>8. CASE f = "stopTime"
  BY <1>8 DEF AlarmRecord
<1>9. CASE f = "ringBegin"
  BY <1>9 DEF AlarmRecord
<1>10. CASE f = "ringEnd"
  BY <1>10 DEF AlarmRecord
<1> QED
  BY <1>1, <1>2, <1>3, <1>4, <1>5, <1>6, <1>7, <1>8, <1>9, <1>10 DEF Numbers

(* ... and so does setting it to zero, as Alarm::ringerOff does. *)
LEMMA ResetNumber == \A a \in AlarmRecord : \A f \in Numbers : [a EXCEPT ![f] = 0] \in AlarmRecord
BY SetNumber

(* Setting a flag of an alarm leaves an alarm. *)
LEMMA SetFlag ==
  \A a \in AlarmRecord : \A f \in Flags : \A v \in BOOLEAN : [a EXCEPT ![f] = v] \in AlarmRecord
<1> TAKE a \in AlarmRecord
<1> TAKE f \in Flags
<1> TAKE v \in BOOLEAN
<1>1. CASE f = "sticky"
  BY <1>1 DEF AlarmRecord
<1>2. CASE f = "ringing"
  BY <1>2 DEF AlarmRecord
<1>3. CASE f = "ringingOnCurrTimeStep"
  BY <1>3 DEF AlarmRecord
<1>4. CASE f = "ringingOnPrevTimeStep"
  BY <1>4 DEF AlarmRecord
<1>5. CASE f = "enabled"
  BY <1>5 DEF AlarmRecord
<1>6. CASE f = "userChangedRingTime"
  BY <1>6 DEF AlarmRecord
<1> QED
  BY <1>1, <1>2, <1>3, <1>4, <1>5, <1>6 DEF Flags

(* The loops over ring times stop at the first round after which they can. *)
LEMMA LeastExists ==
  ASSUME NEW S \in SUBSET Nat, S # {}
  PROVE  \E n \in S : \A m \in S : n <= m
<1> DEFINE R == OpToRel(<, Nat)
<1>1. \A m, n \in Nat : m < n => <<m, n>> \in R
  BY DEF OpToRel
<1>2. IsWellFoundedOn(R, Nat)
  BY NatLessThanWellFounded
<1> HIDE DEF R
<1>3. PICK n \in S : \A m \in S : ~ (<<m, n>> \in R)
  BY <1>2, WFMin
<1>4. \A m \in S : ~ (m < n)
  BY <1>1, <1>3
<1> QED
  BY <1>4

-----------------------------------------------------------------------------
\* What no check of an alarm changes.
Lasting(b, a) ==
  /\ b.enabled = a.enabled /\ b.sticky = a.sticky
  /\ b.ringTimeStepCount = a.ringTimeStepCount

\* Only ring times, and the interval between them, differ.
OnlyMoved(b, a) ==
  /\ Lasting(b, a) /\ b.ringDuration = a.ringDuration
  /\ b.ringing = a.ringing /\ b.timeStepRingingCount = a.timeStepRingingCount
  /\ b.ringingOnCurrTimeStep = a.ringingOnCurrTimeStep
  /\ b.ringingOnPrevTimeStep = a.ringingOnPrevTimeStep
  /\ b.userChangedRingTime = a.userChangedRingTime

(* The loop of checkRingTime that moves the ring time past a time of the clock *)
(* changes ring times and nothing else.                                        *)
LEMMA MovePastMoves ==
  ASSUME NEW a \in AlarmRecord, NEW positive \in BOOLEAN, NEW t \in Int
  PROVE  MovePast(a, positive, t) \in AlarmRecord /\ OnlyMoved(MovePast(a, positive, t), a)
<1> DEFINE rounds == RoundsPast(a, positive, t)
           n == CHOOSE m \in rounds : \A k \in rounds : m <= k
<1>1. CASE rounds = {} \/ n = 0
  BY <1>1 DEF MovePast, OnlyMoved, Lasting
<1>2. CASE ~ (rounds = {} \/ n = 0)
  <2>1. rounds \subseteq Nat
    BY DEF RoundsPast, Magnitude, AlarmRecord
  <2>2. n \in Int
    <3> HIDE DEF rounds
    <3>1. \E m \in rounds : \A k \in rounds : m <= k
      BY <1>2, <2>1, LeastExists
    <3>2. n \in rounds
      BY <3>1
    <3> HIDE DEF n
    <3> QED
      BY <2>1, <3>2
  <2> HIDE DEF n
  <2>3. PICK x \in Int, y \in Int : /\ x = a.ringTime + (n - 1) * a.ringInterval
                                    /\ y = a.ringTime + n * a.ringInterval
    BY <2>2 DEF AlarmRecord
  <2>4. PICK b : b = [a EXCEPT !.prevRingTime = x, !.ringTime = y]
    OBVIOUS
  <2>5. MovePast(a, positive, t) = b
    BY <1>2, <2>3, <2>4 DEF MovePast, n
  <2>6. b \in AlarmRecord
    BY <2>4, SetNumber DEF Numbers
  <2>7. OnlyMoved(b, a)
    BY <2>4 DEF OnlyMoved, Lasting, AlarmRecord
  <2> QED
    BY <2>5, <2>6, <2>7
<1> QED
  BY <1>1, <1>2

(* checkRingTime first notes that the alarm rang at the step before. *)
LEMMA CarriedFacts ==
  ASSUME NEW a \in AlarmRecord, NEW b, b = Carried(a)
  PROVE  /\ b \in AlarmRecord /\ Lasting(b, a) /\ b.ringDuration = a.ringDuration
         /\ b.ringing = a.ringing /\ b.timeStepRingingCount = a.timeStepRingingCount
         /\ b.ringingOnCurrTimeStep = a.ringingOnCurrTimeStep
         /\ b.ringingOnPrevTimeStep = a.ringingOnCurrTimeStep
         /\ b.userChangedRingTime = a.userChangedRingTime
         /\ b.ringTime = a.ringTime
BY SetFlag DEF Carried, Flags, AlarmRecord, Lasting

-----------------------------------------------------------------------------
(* The pre-check changes ring times, after a change of sign also the interval  *)
(* and the duration, and takes back that the user changed the ring time.       *)
LEMMA PreCheckedFacts ==
  ASSUME NEW a \in AlarmRecord, NEW c, c.prevTime \in Int, NEW b, b = PreChecked(a, c)
  PROVE  /\ b \in AlarmRecord /\ Lasting(b, a)
         /\ b.ringing = a.ringing /\ b.timeStepRingingCount = a.timeStepRingingCount
         /\ b.ringingOnCurrTimeStep = a.ringingOnCurrTimeStep
         /\ b.ringingOnPrevTimeStep = a.ringingOnPrevTimeStep
         /\ a.enabled \/ ~ a.userChangedRingTime => ~ b.userChangedRingTime
         /\ ~ SignChanged(c) => b.ringDuration = a.ringDuration
         /\ ~ Pulled(a, c) /\ ~ SignChanged(c) => b.ringTime = a.ringTime
<1>1. CASE ~ a.enabled
  BY <1>1 DEF PreChecked, Lasting
<1>2. CASE a.enabled
  <2>1. PICK s : s = WithSign(a, c)
    OBVIOUS
  <2>2. PICK p : p = IF Pulled(a, c) THEN MovePast(s, Positive(c), c.prevTime) ELSE s
    OBVIOUS
  <2>3. /\ s \in AlarmRecord /\ Lasting(s, a)
        /\ s.ringing = a.ringing /\ s.timeStepRingingCount = a.timeStepRingingCount
        /\ s.ringingOnCurrTimeStep = a.ringingOnCurrTimeStep
        /\ s.ringingOnPrevTimeStep = a.ringingOnPrevTimeStep
        /\ s.userChangedRingTime = a.userChangedRingTime
        /\ s.ringTime = a.ringTime
        /\ ~ SignChanged(c) => s.ringDuration = a.ringDuration
    <3>1. CASE SignChanged(c)
      <4>1. PICK i \in Int, d \in Int : i = -a.ringInterval /\ d = -a.ringDuration
        BY DEF AlarmRecord
      <4>2. s = [a EXCEPT !.ringInterval = i, !.ringDuration = d]
        BY <2>1, <3>1, <4>1 DEF WithSign
      <4>3. s \in AlarmRecord
        BY <4>2, SetNumber DEF Numbers
      <4> QED
        BY <3>1, <4>2, <4>3 DEF AlarmRecord, Lasting
    <3>2. CASE ~ SignChanged(c)
      BY <2>1, <3>2 DEF WithSign, Lasting
    <3> QED
      BY <3>1, <3>2
  <2>4. p \in AlarmRecord /\ OnlyMoved(p, s) /\ (~ Pulled(a, c) => p = s)
    <3>1. Positive(c) \in BOOLEAN
      BY DEF Positive
    <3>2. CASE Pulled(a, c)
      BY <2>2, <2>3, <3>1, <3>2, MovePastMoves
    <3>3. CASE ~ Pulled(a, c)
      BY <2>2, <2>3, <3>3 DEF OnlyMoved, Lasting
    <3> QED
      BY <3>2, <3>3
  <2>5. b = [p EXCEPT !.userChangedRingTime = FALSE]
    BY <1>2, <2>1, <2>2 DEF PreChecked
  <2>6. b \in AlarmRecord
    BY <2>4, <2>5, SetFlag DEF Flags
  <2>7. /\ Lasting(b, p) /\ b.ringDuration = p.ringDuration
        /\ b.ringing = p.ringing /\ b.timeStepRingingCount = p.timeStepRingingCount
        /\ b.ringingOnCurrTimeStep = p.ringingOnCurrTimeStep
        /\ b.ringingOnPrevTimeStep = p.ringingOnPrevTimeStep
        /\ ~ b.userChangedRingTime /\ b.ringTime = p.ringTime
    BY <2>4, <2>5 DEF AlarmRecord, Lasting
  <2> QED
    BY <2>3, <2>4, <2>6, <2>7 DEF OnlyMoved, Lasting
<1> QED
  BY <1>1, <1>2

(* checkTurnOn: the alarm rings when the step crossed its ring time, and       *)
(* ringingOnCurrTimeStep says just that.                                       *)
LEMMA CheckTurnOnFacts ==
  ASSUME NEW a \in AlarmRecord, NEW c, c.currTime \in Int, NEW positive \in BOOLEAN,
         NEW b, b = CheckTurnOn(a, c, positive)
  PROVE  /\ b \in AlarmRecord /\ Lasting(b, a) /\ b.ringDuration = a.ringDuration
         /\ b.timeStepRingingCount = a.timeStepRingingCount
         /\ b.ringingOnPrevTimeStep = a.ringingOnPrevTimeStep
         /\ b.userChangedRingTime = a.userChangedRingTime
         /\ Crossed(a, c, positive) => b.ringing /\ b.ringingOnCurrTimeStep
         /\ ~ Crossed(a, c, positive) => b.ringing = a.ringing /\ ~ b.ringingOnCurrTimeStep
<1>1. PICK on : on = [a EXCEPT !.ringing = TRUE, !.ringingOnCurrTimeStep = TRUE, !.ringBegin = c.currTime]
  OBVIOUS
<1>2. on \in AlarmRecord
  BY <1>1, SetNumber, SetFlag DEF Numbers, Flags
<1>3. /\ Lasting(on, a) /\ on.ringDuration = a.ringDuration
      /\ on.timeStepRingingCount = a.timeStepRingingCount
      /\ on.ringingOnPrevTimeStep = a.ringingOnPrevTimeStep
      /\ on.userChangedRingTime = a.userChangedRingTime
      /\ on.ringing /\ on.ringingOnCurrTimeStep
  BY <1>1 DEF AlarmRecord, Lasting
<1>4. PICK next : next = NextRing(on)
  OBVIOUS
<1>5. next \in AlarmRecord
  <2>1. PICK x \in Int, y \in Int : x = on.ringTime /\ y = on.ringTime + on.ringInterval
    BY <1>2 DEF AlarmRecord
  <2>2. next = [on EXCEPT !.prevRingTime = x, !.ringTime = y]
    BY <1>4, <2>1 DEF NextRing
  <2> QED
    BY <1>2, <2>2, SetNumber DEF Numbers
<1>6. /\ Lasting(next, on) /\ next.ringDuration = on.ringDuration
      /\ next.timeStepRingingCount = on.timeStepRingingCount
      /\ next.ringingOnPrevTimeStep = on.ringingOnPrevTimeStep
      /\ next.userChangedRingTime = on.userChangedRingTime
      /\ next.ringing = on.ringing /\ next.ringingOnCurrTimeStep = on.ringingOnCurrTimeStep
  BY <1>2, <1>4 DEF NextRing, AlarmRecord, Lasting
<1>7. CASE ~ Crossed(a, c, positive)
  <2>1. b = [a EXCEPT !.ringingOnCurrTimeStep = FALSE]
    BY <1>7 DEF CheckTurnOn
  <2>2. b \in AlarmRecord
    BY <2>1, SetFlag DEF Flags
  <2> QED
    BY <1>7, <2>1, <2>2 DEF AlarmRecord, Lasting
<1>8. CASE Crossed(a, c, positive)
  <2>1. b = on \/ b = next
    BY <1>1, <1>4, <1>8 DEF CheckTurnOn
  <2> QED
    BY <1>2, <1>3, <1>5, <1>6, <1>8, <2>1 DEF Lasting
<1> QED
  BY <1>7, <1>8

(* A silenced alarm does not ring and counts from zero again. *)
LEMMA SilencedFacts ==
  ASSUME NEW a \in AlarmRecord, NEW b, b = Silenced(a)
  PROVE  /\ b \in AlarmRecord /\ Lasting(b, a) /\ b.ringDuration = a.ringDuration
         /\ b.ringingOnPrevTimeStep = a.ringingOnPrevTimeStep
         /\ b.userChangedRingTime = a.userChangedRingTime
         /\ b.ringTime = a.ringTime /\ b.prevRingTime = a.prevRingTime
         /\ b.firstRingTime = a.firstRingTime
         /\ ~ b.ringing /\ ~ b.ringingOnCurrTimeStep /\ b.timeStepRingingCount = 0
<1>1. b \in AlarmRecord
  BY ResetNumber, SetFlag DEF Silenced, Flags, Numbers
<1> QED
  BY <1>1 DEF Silenced, AlarmRecord, Lasting

(* Turning on or off: what crosses rings, nothing else begins to, and an alarm *)
(* that is not left ringing has ringing and ringingOnCurrTimeStep alike.       *)
LEMMA TurnOnOrOffFacts ==
  ASSUME NEW a \in AlarmRecord, NEW c, c.currTime \in Int, NEW b, b = TurnOnOrOff(a, c)
  PROVE  /\ b \in AlarmRecord /\ Lasting(b, a) /\ b.ringDuration = a.ringDuration
         /\ b.ringingOnPrevTimeStep = a.ringingOnPrevTimeStep
         /\ b.userChangedRingTime = a.userChangedRingTime
         /\ b.timeStepRingingCount = a.timeStepRingingCount \/ b.timeStepRingingCount = 0
         /\ ~ a.enabled \/ (a.ringing /\ a.sticky) => b = a
         /\ a.enabled /\ Crossed(a, c, Positive(c)) => b.ringing
         /\ a.enabled /\ ~ Crossed(a, c, Positive(c)) /\ ~ a.ringing => ~ b.ringing
         /\ a.enabled /\ (~ a.ringing \/ ~ a.sticky) =>
              \/ b.ringing <=> b.ringingOnCurrTimeStep
              \/ a.ringing /\ ~ RungEnough(a, c.currTime - a.ringBegin)
<1>1. PICK checked : checked = CheckTurnOn(a, c, Positive(c))
  OBVIOUS
<1>2. PICK off : off = Silenced(checked)
  OBVIOUS
<1>3. Positive(c) \in BOOLEAN
  BY DEF Positive
<1>4. /\ checked \in AlarmRecord /\ Lasting(checked, a) /\ checked.ringDuration = a.ringDuration
      /\ checked.timeStepRingingCount = a.timeStepRingingCount
      /\ checked.ringingOnPrevTimeStep = a.ringingOnPrevTimeStep
      /\ checked.userChangedRingTime = a.userChangedRingTime
      /\ Crossed(a, c, Positive(c)) => checked.ringing /\ checked.ringingOnCurrTimeStep
      /\ ~ Crossed(a, c, Positive(c)) => checked.ringing = a.ringing /\ ~ checked.ringingOnCurrTimeStep
  BY <1>1, <1>3, CheckTurnOnFacts
<1>5. /\ off \in AlarmRecord /\ Lasting(off, checked) /\ off.ringDuration = checked.ringDuration
      /\ off.ringingOnPrevTimeStep = checked.ringingOnPrevTimeStep
      /\ off.userChangedRingTime = checked.userChangedRingTime
      /\ ~ off.ringing /\ ~ off.ringingOnCurrTimeStep /\ off.timeStepRingingCount = 0
  BY <1>2, <1>4, SilencedFacts
<1>6. CASE ~ a.enabled \/ (a.ringing /\ a.sticky)
  BY <1>6 DEF TurnOnOrOff, Lasting
<1>7. CASE a.enabled /\ ~ a.ringing
  <2>1. b = checked
    BY <1>1, <1>7 DEF TurnOnOrOff
  <2> QED
    BY <1>4, <1>7, <2>1
<1>8. CASE a.enabled /\ a.ringing /\ ~ a.sticky
  <2>1. b = IF ~ Crossed(a, c, Positive(c)) /\ RungEnough(a, c.currTime - a.ringBegin)
            THEN off ELSE checked
    BY <1>1, <1>2, <1>8 DEF TurnOnOrOff
  <2> QED
    BY <1>4, <1>5, <1>8, <2>1 DEF Lasting
<1> QED
  <2>1. a.enabled \in BOOLEAN /\ a.ringing \in BOOLEAN /\ a.sticky \in BOOLEAN
    BY DEF AlarmRecord
  <2> QED
    BY <1>6, <1>7, <1>8, <2>1

(* timeStepRingingCount counts the steps at which the alarm rings. *)
LEMMA CountedFacts ==
  ASSUME NEW a \in AlarmRecord, NEW b, b = Counted(a)
  PROVE  /\ b \in AlarmRecord /\ Lasting(b, a) /\ b.ringDuration = a.ringDuration
         /\ b.ringing = a.ringing
         /\ b.ringingOnCurrTimeStep = a.ringingOnCurrTimeStep
         /\ b.ringingOnPrevTimeStep = a.ringingOnPrevTimeStep
         /\ b.userChangedRingTime = a.userChangedRingTime
         /\ b.timeStepRingingCount = IF a.ringing THEN a.timeStepRingingCount + 1
                                                  ELSE a.timeStepRingingCount
<1>1. CASE a.ringing
  <2>1. PICK n \in Int : n = a.timeStepRingingCount + 1
    BY DEF AlarmRecord
  <2>2. b = [a EXCEPT !.timeStepRingingCount = n]
    BY <1>1, <2>1 DEF Counted
  <2>3. b \in AlarmRecord
    BY <2>2, SetNumber DEF Numbers
  <2> QED
    BY <1>1, <2>1, <2>2, <2>3 DEF AlarmRecord, Lasting
<1>2. CASE ~ a.ringing
  BY <1>2 DEF Counted, Lasting
<1> QED
  BY <1>1, <1>2

(* checkRingTime with the clock going forward: the alarm stays what it is, the *)
(* flag of the step before is the one of this step, a sticky alarm and one that*)
(* rings for one step ring exactly when ringingOnCurrTimeStep says so, and, with*)
(* no turn in between, only the crossing of the ring time starts a ring.       *)
LEMMA CheckForwardFacts ==
  ASSUME NEW a \in AlarmRecord, NEW c \in ClockRecord, NEW b, b = CheckForward(a, c)
  PROVE  /\ b \in AlarmRecord /\ Lasting(b, a)
         /\ (a.ringing => a.enabled) => (b.ringing => b.enabled)
         /\ b.ringingOnPrevTimeStep = a.ringingOnCurrTimeStep
         /\ ~ a.userChangedRingTime => ~ b.userChangedRingTime
         /\ ~ SignChanged(c) => b.ringDuration = a.ringDuration
         /\ a.enabled /\ ~ a.userChangedRingTime =>
              /\ a.sticky /\ (a.ringing => a.ringingOnCurrTimeStep) =>
                   (b.ringing <=> b.ringingOnCurrTimeStep)
              /\ ~ a.sticky /\ a.ringTimeStepCount = 1 /\ a.ringDuration = 0 /\ ~ SignChanged(c)
                 /\ a.timeStepRingingCount >= 0 /\ (a.ringing => a.timeStepRingingCount >= 1) =>
                   /\ b.ringing <=> b.ringingOnCurrTimeStep
                   /\ b.timeStepRingingCount >= 0
                   /\ b.ringing => b.timeStepRingingCount >= 1
         /\ a.enabled /\ ~ a.userChangedRingTime /\ ~ SignChanged(c) /\ ~ c.userChangedDirection =>
              /\ Crossed(a, c, Positive(c)) => b.ringing
              /\ ~ a.ringing /\ b.ringing => Crossed(a, c, Positive(c))
<1>0. /\ c.currTime \in Int /\ c.prevTime \in Int
      /\ Positive(c) \in BOOLEAN
  BY DEF ClockRecord, Positive
<1>1. PICK k : k = Carried(a)
  OBVIOUS
<1>2. PICK p : p = PreChecked(k, c)
  OBVIOUS
<1>3. PICK d : d = TurnOnOrOff(p, c)
  OBVIOUS
<1>4. PICK e : e = Counted(d)
  OBVIOUS
<1>5. /\ k \in AlarmRecord /\ Lasting(k, a) /\ k.ringDuration = a.ringDuration
      /\ k.ringing = a.ringing /\ k.timeStepRingingCount = a.timeStepRingingCount
      /\ k.ringingOnCurrTimeStep = a.ringingOnCurrTimeStep
      /\ k.ringingOnPrevTimeStep = a.ringingOnCurrTimeStep
      /\ k.userChangedRingTime = a.userChangedRingTime
      /\ k.ringTime = a.ringTime
  BY <1>1, CarriedFacts
<1>6. CASE OutOfRange(a, c)
  <2>1. b = k /\ a.userChangedRingTime
    BY <1>1, <1>6 DEF CheckForward, OutOfRange
  <2> QED
    BY <1>5, <2>1 DEF Lasting
<1>7. CASE ~ OutOfRange(a, c)
  <2>1. /\ p \in AlarmRecord /\ Lasting(p, k)
        /\ p.ringing = k.ringing /\ p.timeStepRingingCount = k.timeStepRingingCount
        /\ p.ringingOnCurrTimeStep = k.ringingOnCurrTimeStep
        /\ p.ringingOnPrevTimeStep = k.ringingOnPrevTimeStep
        /\ k.enabled \/ ~ k.userChangedRingTime => ~ p.userChangedRingTime
        /\ ~ SignChanged(c) => p.ringDuration = k.ringDuration
        /\ ~ Pulled(k, c) /\ ~ SignChanged(c) => p.ringTime = k.ringTime
    BY <1>0, <1>2, <1>5, PreCheckedFacts
  <2>2. /\ d \in AlarmRecord /\ Lasting(d, p) /\ d.ringDuration = p.ringDuration
        /\ d.ringingOnPrevTimeStep = p.ringingOnPrevTimeStep
        /\ d.userChangedRingTime = p.userChangedRingTime
        /\ d.timeStepRingingCount = p.timeStepRingingCount \/ d.timeStepRingingCount = 0
        /\ ~ p.enabled \/ (p.ringing /\ p.sticky) => d = p
        /\ p.enabled /\ Crossed(p, c, Positive(c)) => d.ringing
        /\ p.enabled /\ ~ Crossed(p, c, Positive(c)) /\ ~ p.ringing => ~ d.ringing
        /\ p.enabled /\ (~ p.ringing \/ ~ p.sticky) =>
              \/ d.ringing <=> d.ringingOnCurrTimeStep
              \/ p.ringing /\ ~ RungEnough(p, c.currTime - p.ringBegin)
    BY <1>0, <1>3, <2>1, TurnOnOrOffFacts
  <2>3. /\ e \in AlarmRecord /\ Lasting(e, d) /\ e.ringDuration = d.ringDuration
        /\ e.ringing = d.ringing
        /\ e.ringingOnCurrTimeStep = d.ringingOnCurrTimeStep
        /\ e.ringingOnPrevTimeStep = d.ringingOnPrevTimeStep
        /\ e.userChangedRingTime = d.userChangedRingTime
        /\ e.timeStepRingingCount = IF d.ringing THEN d.timeStepRingingCount + 1
                                                 ELSE d.timeStepRingingCount
    BY <1>4, <2>2, CountedFacts
  <2>4. b \in AlarmRecord /\ OnlyMoved(b, e)
    <3>1. b = IF KeptAhead(e, c) THEN MovePast(e, Positive(c), c.currTime) ELSE e
      BY <1>1, <1>2, <1>3, <1>4, <1>7 DEF CheckForward
    <3>2. OnlyMoved(e, e)
      BY DEF OnlyMoved, Lasting
    <3> QED
      BY <1>0, <2>3, <3>1, <3>2, MovePastMoves
  <2>5. /\ b \in AlarmRecord /\ Lasting(b, a)
        /\ (a.ringing => a.enabled) => (b.ringing => b.enabled)
        /\ b.ringingOnPrevTimeStep = a.ringingOnCurrTimeStep
        /\ ~ a.userChangedRingTime => ~ b.userChangedRingTime
        /\ ~ SignChanged(c) => b.ringDuration = a.ringDuration
    BY <1>5, <2>1, <2>2, <2>3, <2>4 DEF OnlyMoved, Lasting
  <2>6. ASSUME a.enabled, a.sticky, a.ringing => a.ringingOnCurrTimeStep
        PROVE  b.ringing <=> b.ringingOnCurrTimeStep
    <3>1. CASE a.ringing
      <4>1. d = p
        BY <1>5, <2>1, <2>2, <2>6, <3>1 DEF Lasting
      <4> QED
        BY <1>5, <2>1, <2>3, <2>4, <2>6, <3>1, <4>1 DEF OnlyMoved
    <3>2. CASE ~ a.ringing
      BY <1>5, <2>1, <2>2, <2>3, <2>4, <2>6, <3>2 DEF OnlyMoved, Lasting
    <3> QED
      BY <3>1, <3>2
  <2>7. ASSUME a.enabled, ~ a.sticky, a.ringTimeStepCount = 1, a.ringDuration = 0, ~ SignChanged(c),
               a.timeStepRingingCount >= 0, a.ringing => a.timeStepRingingCount >= 1
        PROVE  /\ b.ringing <=> b.ringingOnCurrTimeStep
               /\ b.timeStepRingingCount >= 0
               /\ b.ringing => b.timeStepRingingCount >= 1
    <3>1. p.ringing => RungEnough(p, c.currTime - p.ringBegin)
      <4>1. /\ p.ringTimeStepCount = 1 /\ p.ringDuration = 0
            /\ p.ringing => p.timeStepRingingCount >= 1
        BY <1>5, <2>1, <2>7 DEF Lasting
      <4> QED
        BY <4>1 DEF RungEnough, ByDuration
    <3>2. d.ringing <=> d.ringingOnCurrTimeStep
      BY <1>5, <2>1, <2>2, <2>7, <3>1 DEF Lasting
    <3>3. d.timeStepRingingCount \in Nat
      BY <1>5, <2>1, <2>2, <2>7 DEF AlarmRecord
    <3> QED
      BY <2>3, <2>4, <3>2, <3>3 DEF OnlyMoved
  <2>8. ASSUME a.enabled, ~ a.userChangedRingTime, ~ SignChanged(c), ~ c.userChangedDirection
        PROVE  /\ Crossed(a, c, Positive(c)) => b.ringing
               /\ ~ a.ringing /\ b.ringing => Crossed(a, c, Positive(c))
    <3>1. p.ringTime = a.ringTime
      BY <1>5, <2>1, <2>8 DEF Pulled
    <3>2. Crossed(p, c, Positive(c)) <=> Crossed(a, c, Positive(c))
      BY <3>1 DEF Crossed
    <3> QED
      BY <1>5, <2>1, <2>2, <2>3, <2>4, <2>8, <3>2 DEF OnlyMoved, Lasting
  <2> QED
    BY <2>5, <2>6, <2>7, <2>8
<1> QED
  BY <1>6, <1>7

-----------------------------------------------------------------------------
(* The truncated quotient of numbers that are not of opposite signs. *)
LEMMA Division ==
  ASSUME NEW i \in Int, NEW d \in Int \ {0}
  PROVE  /\ Quotient(i, d) \in Int /\ Remainder(i, d) \in Int
         /\ (i >= 0 /\ d > 0) \/ (i <= 0 /\ d < 0) => Quotient(i, d) >= 0
BY DEF Quotient, Remainder, Magnitude

(* resetRingBegin changes ringBegin alone. *)
LEMMA ResetRingBeginFacts ==
  ASSUME NEW a \in AlarmRecord, NEW c \in ClockRecord, NEW b, b = ResetRingBegin(a, c)
  PROVE  b \in AlarmRecord /\ OnlyMoved(b, a)
<1>1. Remainder(a.ringTime, c.timeStep) \in Int /\ c.timeStep \in Int /\ a.ringTime \in Int
  BY Division DEF AlarmRecord, ClockRecord
<1>2. PICK x \in Int : b = [a EXCEPT !.ringBegin = x]
  BY <1>1 DEF ResetRingBegin
<1>3. b \in AlarmRecord
  BY <1>2, SetNumber DEF Numbers
<1> QED
  BY <1>2, <1>3 DEF OnlyMoved, Lasting, AlarmRecord

(* An alarm that steps back to the event before moves its ring times alone. *)
LEMMA StepBackFacts ==
  ASSUME NEW a \in AlarmRecord, NEW b, b = StepBack(a)
  PROVE  b \in AlarmRecord /\ OnlyMoved(b, a)
<1>1. PICK x \in Int, y \in Int : x = a.prevRingTime /\ y = a.prevRingTime - a.ringInterval
  BY DEF AlarmRecord
<1>2. PICK k : k = [a EXCEPT !.ringTime = x]
  OBVIOUS
<1>3. k \in AlarmRecord /\ OnlyMoved(k, a)
  BY <1>2, SetNumber DEF Numbers, OnlyMoved, Lasting, AlarmRecord
<1>4. b = [k EXCEPT !.prevRingTime = y]
  BY <1>1, <1>2 DEF StepBack
<1>5. b \in AlarmRecord
  BY <1>3, <1>4, SetNumber DEF Numbers
<1> QED
  BY <1>3, <1>4, <1>5 DEF OnlyMoved, Lasting, AlarmRecord

(* So does the loop that steps a sticky alarm back past its ringerOff calls. *)
LEMMA StickyBackFacts ==
  ASSUME NEW a \in AlarmRecord, NEW c \in ClockRecord, NEW b, b = StickyBack(a, c)
  PROVE  b \in AlarmRecord /\ OnlyMoved(b, a)
<1> DEFINE rounds == StickyRounds(a, c)
           n == CHOOSE m \in rounds : \A k \in rounds : m <= k
<1>1. CASE rounds = {} \/ n = 0
  BY <1>1 DEF StickyBack, OnlyMoved, Lasting
<1>2. CASE ~ (rounds = {} \/ n = 0)
  <2>1. rounds \subseteq Nat
    BY DEF StickyRounds, Magnitude, AlarmRecord, ClockRecord
  <2>2. n \in Int
    <3> HIDE DEF rounds
    <3>1. \E m \in rounds : \A k \in rounds : m <= k
      BY <1>2, <2>1, LeastExists
    <3>2. n \in rounds
      BY <3>1
    <3> HIDE DEF n
    <3> QED
      BY <2>1, <3>2
  <2> HIDE DEF n
  <2>3. PICK x \in Int, y \in Int, z \in Int :
          /\ x = a.ringEnd - n * a.ringInterval
          /\ y = a.prevRingTime - (n - 1) * a.ringInterval
          /\ z = a.prevRingTime - n * a.ringInterval
    BY <2>2 DEF AlarmRecord
  <2>4. PICK k : k = [a EXCEPT !.ringEnd = x]
    OBVIOUS
  <2>5. k \in AlarmRecord /\ OnlyMoved(k, a)
    BY <2>4, SetNumber DEF Numbers, OnlyMoved, Lasting, AlarmRecord
  <2>6. PICK l : l = [k EXCEPT !.ringTime = y]
    OBVIOUS
  <2>7. l \in AlarmRecord /\ OnlyMoved(l, k)
    BY <2>5, <2>6, SetNumber DEF Numbers, OnlyMoved, Lasting, AlarmRecord
  <2>8. b = [l EXCEPT !.prevRingTime = z]
    BY <1>2, <2>3, <2>4, <2>6 DEF StickyBack, n
  <2>9. b \in AlarmRecord
    BY <2>7, <2>8, SetNumber DEF Numbers
  <2> QED
    BY <2>5, <2>7, <2>8, <2>9 DEF OnlyMoved, Lasting, AlarmRecord
<1> QED
  BY <1>1, <1>2

(* The adjustment at a change of direction moves ring times alone. *)
LEMMA AdjustedFacts ==
  ASSUME NEW a \in AlarmRecord, NEW c \in ClockRecord, NEW b, b = Adjusted(a, c)
  PROVE  b \in AlarmRecord /\ OnlyMoved(b, a)
<1>1. PICK s : s = StickyBack(a, c)
  OBVIOUS
<1>2. PICK k : k = StepBack(a)
  OBVIOUS
<1>3. PICK r : r = ResetRingBegin(k, c)
  OBVIOUS
<1>4. s \in AlarmRecord /\ OnlyMoved(s, a)
  BY <1>1, StickyBackFacts
<1>5. k \in AlarmRecord /\ OnlyMoved(k, a)
  BY <1>2, StepBackFacts
<1>6. r \in AlarmRecord /\ OnlyMoved(r, k)
  BY <1>3, <1>5, ResetRingBeginFacts
<1>7. b = s \/ b = r \/ b = a
  BY <1>1, <1>2, <1>3 DEF Adjusted
<1> QED
  BY <1>4, <1>5, <1>6, <1>7 DEF OnlyMoved, Lasting

(* ringBegin becomes the clock's startTime if it was never set. *)
LEMMA WithBeginFacts ==
  ASSUME NEW a \in AlarmRecord, NEW b, b = WithBegin(a)
  PROVE  b \in AlarmRecord /\ OnlyMoved(b, a)
         /\ (a.enabled /\ ~ a.sticky /\ a.ringTimeStepCount = 1 /\ a.ringDuration = 0 =>
               b.ringBegin = IF a.ringBegin = Never THEN 0 ELSE a.ringBegin)
<1>1. CASE b = [a EXCEPT !.ringBegin = 0]
  <2>1. b \in AlarmRecord
    BY <1>1, ResetNumber DEF Numbers
  <2> QED
    BY <1>1, <2>1 DEF WithBegin, OnlyMoved, Lasting, AlarmRecord, ByDuration
<1>2. CASE b = a
  BY <1>2 DEF WithBegin, OnlyMoved, Lasting, ByDuration
<1> QED
  BY <1>1, <1>2 DEF WithBegin

(* An alarm that rings again in reverse counts at least one step: at the time  *)
(* it rings again the clock has not come back to ringBegin.                    *)
LEMMA BackOnCounts ==
  ASSUME NEW a \in AlarmRecord, NEW c \in ClockRecord,
         ~ OppositeSigns(c.currAdvanceTimeStep, c.timeStep),
         ~ a.sticky, a.ringTimeStepCount = 1, a.ringDuration = 0,
         NEW end, end = a.ringBegin + c.timeStep,
         BackOn(a, c, end)
  PROVE  Quotient(c.currTime - a.ringBegin, c.timeStep) >= 0
<1>1. /\ a.ringBegin \in Int /\ c.timeStep \in Int \ {0} /\ c.currTime \in Int
      /\ c.currAdvanceTimeStep \in Int
  BY DEF AlarmRecord, ClockRecord
<1>2. /\ Past(Positive(c), end, c.currTime)
      /\ AtOrPast(Positive(c), c.currTime + c.timeStep, end)
  BY DEF BackOn
<1>3. \/ c.timeStep > 0 /\ c.currTime - a.ringBegin >= 0
      \/ c.timeStep < 0 /\ c.currTime - a.ringBegin <= 0
  BY <1>1, <1>2 DEF OppositeSigns, Past, AtOrPast, Positive
<1>4. PICK i \in Int : i = c.currTime - a.ringBegin
  BY <1>1
<1> QED
  BY <1>1, <1>3, <1>4, Division

(* Turning on or off in reverse: the count of ringing steps goes down, and the *)
(* alarm goes off at one.                                                      *)
LEMMA TurnOnOrOffReverseFacts ==
  ASSUME NEW a \in AlarmRecord, NEW c \in ClockRecord, NEW end,
         NEW b, b = TurnOnOrOffReverse(a, c, end)
  PROVE  /\ b \in AlarmRecord /\ Lasting(b, a) /\ b.ringDuration = a.ringDuration
         /\ b.userChangedRingTime = a.userChangedRingTime
         /\ ~ a.enabled => b.ringing = a.ringing
         /\ b.ringing =>
              \/ a.ringing
              \/ a.enabled /\ BackOn(a, c, end)
         /\ ~ a.sticky /\ a.ringTimeStepCount = 1 /\ a.ringDuration = 0
            /\ ~ OppositeSigns(c.currAdvanceTimeStep, c.timeStep)
            /\ end = a.ringBegin + c.timeStep /\ a.enabled
            /\ a.timeStepRingingCount >= 0 /\ (a.ringing => a.timeStepRingingCount >= 1) =>
              /\ b.timeStepRingingCount >= 0
              /\ b.ringing => b.timeStepRingingCount >= 1
<1>0. /\ a.enabled \in BOOLEAN /\ a.ringing \in BOOLEAN /\ a.sticky \in BOOLEAN
      /\ a.timeStepRingingCount \in Int /\ a.prevRingTime \in Int /\ a.ringTime \in Int
  BY DEF AlarmRecord
<1>1. CASE a.enabled /\ ~ a.ringing
  <2>1. PICK on \in BOOLEAN : on = BackOn(a, c, end)
    BY DEF BackOn, Past, AtOrPast
  <2>2. PICK n \in Int : n = IF on THEN Quotient(c.currTime - a.ringBegin, c.timeStep) + 1
                                   ELSE a.timeStepRingingCount
    <3>1. PICK i \in Int : i = c.currTime - a.ringBegin
      BY DEF AlarmRecord, ClockRecord
    <3>2. Quotient(i, c.timeStep) \in Int
      BY <3>1, Division DEF ClockRecord
    <3> QED
      BY <1>0, <3>1, <3>2
  <2>3. PICK k : k = [a EXCEPT !.ringing = on, !.ringingOnCurrTimeStep = on]
    OBVIOUS
  <2>4. k \in AlarmRecord
    BY <2>3, SetFlag DEF Flags
  <2>5. b = [k EXCEPT !.timeStepRingingCount = n]
    BY <1>1, <2>1, <2>2, <2>3 DEF TurnOnOrOffReverse
  <2>6. b \in AlarmRecord
    BY <2>4, <2>5, SetNumber DEF Numbers
  <2>7. /\ Lasting(b, a) /\ b.ringDuration = a.ringDuration
        /\ b.userChangedRingTime = a.userChangedRingTime
        /\ b.ringing = on /\ b.timeStepRingingCount = n
    BY <2>3, <2>4, <2>5 DEF AlarmRecord, Lasting
  <2>8. ASSUME ~ a.sticky, a.ringTimeStepCount = 1, a.ringDuration = 0, on,
               ~ OppositeSigns(c.currAdvanceTimeStep, c.timeStep),
               end = a.ringBegin + c.timeStep
        PROVE  n >= 1
    <3>1. PICK i \in Int : i = c.currTime - a.ringBegin
      BY DEF AlarmRecord, ClockRecord
    <3>2. Quotient(i, c.timeStep) \in Int
      BY <3>1, Division DEF ClockRecord
    <3>3. Quotient(i, c.timeStep) >= 0
      BY <2>1, <2>8, <3>1, BackOnCounts
    <3> QED
      BY <2>2, <2>8, <3>1, <3>2, <3>3
  <2> QED
    BY <1>1, <2>1, <2>2, <2>6, <2>7, <2>8
<1>2. CASE a.enabled /\ a.ringing /\ ~ a.sticky /\ a.timeStepRingingCount <= 1
  <2>1. PICK off : off = Silenced(a)
    OBVIOUS
  <2>2. PICK k : k = IF a.ringTime # a.firstRingTime THEN StepBack(off)
                     ELSE [off EXCEPT !.prevRingTime = a.ringTime]
    OBVIOUS
  <2>3. /\ off \in AlarmRecord /\ Lasting(off, a) /\ off.ringDuration = a.ringDuration
        /\ off.userChangedRingTime = a.userChangedRingTime
        /\ ~ off.ringing /\ off.timeStepRingingCount = 0
    BY <2>1, SilencedFacts
  <2>4. k \in AlarmRecord /\ OnlyMoved(k, off)
    <3>1. CASE a.ringTime # a.firstRingTime
      BY <2>2, <2>3, <3>1, StepBackFacts
    <3>2. CASE a.ringTime = a.firstRingTime
      BY <1>0, <2>2, <2>3, <3>2, SetNumber DEF Numbers, OnlyMoved, Lasting, AlarmRecord
    <3> QED
      BY <3>1, <3>2
  <2>5. b = ResetRingBegin(k, c)
    <3>1. ~ (a.timeStepRingingCount > 1)
      BY <1>0, <1>2
    <3>2. b = ResetRingBegin(IF a.ringTime # a.firstRingTime THEN StepBack(off)
                             ELSE [off EXCEPT !.prevRingTime = a.ringTime], c)
      BY <1>2, <2>1, <3>1, Zenon DEF TurnOnOrOffReverse
    <3> QED
      BY <2>2, <3>2
  <2>6. b \in AlarmRecord /\ OnlyMoved(b, k)
    BY <2>4, <2>5, ResetRingBeginFacts
  <2> QED
    BY <1>2, <2>3, <2>4, <2>6 DEF OnlyMoved, Lasting
<1>3. CASE a.enabled /\ a.ringing /\ ~ a.sticky /\ a.timeStepRingingCount > 1
  <2>1. PICK n \in Int : n = a.timeStepRingingCount - 1
    BY <1>0
  <2>2. b = [a EXCEPT !.timeStepRingingCount = n]
    BY <1>0, <1>3, <2>1 DEF TurnOnOrOffReverse
  <2>3. b \in AlarmRecord
    BY <2>2, SetNumber DEF Numbers
  <2>4. n >= 1
    BY <1>0, <1>3, <2>1
  <2>5. /\ Lasting(b, a) /\ b.ringDuration = a.ringDuration
        /\ b.userChangedRingTime = a.userChangedRingTime
        /\ b.ringing = a.ringing /\ b.timeStepRingingCount = n
    BY <2>2 DEF AlarmRecord, Lasting
  <2> QED
    BY <1>3, <2>3, <2>4, <2>5
<1>4. CASE ~ a.enabled \/ (a.ringing /\ a.sticky)
  <2>1. b = a
    BY <1>4 DEF TurnOnOrOffReverse
  <2> QED
    BY <1>4, <2>1 DEF Lasting
<1> QED
  BY <1>0, <1>1, <1>2, <1>3, <1>4

(* checkRingTime with the clock in reverse leaves the alarm what it is, and a  *)
(* ringing alarm that rings for one step has counted one.                      *)
LEMMA CheckReverseFacts ==
  ASSUME NEW a \in AlarmRecord, NEW c \in ClockRecord, NEW b, b = CheckReverse(a, c)
  PROVE  /\ b \in AlarmRecord /\ Lasting(b, a) /\ b.ringDuration = a.ringDuration
         /\ (a.ringing => a.enabled) => (b.ringing => b.enabled)
         /\ b.userChangedRingTime = a.userChangedRingTime
         /\ ~ a.sticky /\ a.ringTimeStepCount = 1 /\ a.ringDuration = 0 /\ a.enabled
            /\ ~ OppositeSigns(c.currAdvanceTimeStep, c.timeStep)
            /\ a.timeStepRingingCount >= 0 /\ (a.ringing => a.timeStepRingingCount >= 1) =>
              /\ b.timeStepRingingCount >= 0
              /\ b.ringing => b.timeStepRingingCount >= 1
<1>1. CASE NotReversible(a)
  BY <1>1 DEF CheckReverse, Lasting
<1>2. CASE ~ NotReversible(a)
  <2>1. PICK g : g = Adjusted(a, c)
    OBVIOUS
  <2>2. PICK w : w = WithBegin(g)
    OBVIOUS
  <2>3. PICK end : end = RingTimeEnd(w, c)
    OBVIOUS
  <2>4. PICK d : d = TurnOnOrOffReverse(w, c, end)
    OBVIOUS
  <2>5. g \in AlarmRecord /\ OnlyMoved(g, a)
    BY <2>1, AdjustedFacts
  <2>6. /\ w \in AlarmRecord /\ OnlyMoved(w, g)
        /\ (g.enabled /\ ~ g.sticky /\ g.ringTimeStepCount = 1 /\ g.ringDuration = 0 =>
              w.ringBegin = IF g.ringBegin = Never THEN 0 ELSE g.ringBegin)
    BY <2>2, <2>5, WithBeginFacts
  <2>7. /\ d \in AlarmRecord /\ Lasting(d, w) /\ d.ringDuration = w.ringDuration
        /\ d.userChangedRingTime = w.userChangedRingTime
        /\ ~ w.enabled => d.ringing = w.ringing
        /\ d.ringing =>
             \/ w.ringing
             \/ w.enabled /\ BackOn(w, c, end)
        /\ ~ w.sticky /\ w.ringTimeStepCount = 1 /\ w.ringDuration = 0
           /\ ~ OppositeSigns(c.currAdvanceTimeStep, c.timeStep)
           /\ end = w.ringBegin + c.timeStep /\ w.enabled
           /\ w.timeStepRingingCount >= 0 /\ (w.ringing => w.timeStepRingingCount >= 1) =>
             /\ d.timeStepRingingCount >= 0
             /\ d.ringing => d.timeStepRingingCount >= 1
    BY <2>4, <2>6, TurnOnOrOffReverseFacts
  <2>8. /\ b \in AlarmRecord /\ Lasting(b, d) /\ b.ringDuration = d.ringDuration
        /\ b.ringing = d.ringing /\ b.timeStepRingingCount = d.timeStepRingingCount
        /\ b.userChangedRingTime = d.userChangedRingTime
    <3>1. CASE ~ a.enabled
      <4>1. b = d
        BY <1>2, <2>1, <2>2, <2>3, <2>4, <3>1 DEF CheckReverse
      <4> QED
        BY <2>7, <4>1 DEF Lasting
    <3>2. CASE a.enabled
      <4>1. PICK v \in BOOLEAN : v = (/\ AtOrPast(Positive(c), c.prevTime, d.ringTime)
                                      /\ Past(Positive(c), LastEnd(w, d, c, end), c.prevTime))
        BY DEF AtOrPast, Past
      <4>2. b = [d EXCEPT !.ringingOnPrevTimeStep = v]
        BY <1>2, <2>1, <2>2, <2>3, <2>4, <3>2, <4>1 DEF CheckReverse
      <4>3. b \in AlarmRecord
        BY <2>7, <4>2, SetFlag DEF Flags
      <4> QED
        BY <2>7, <4>2, <4>3 DEF AlarmRecord, Lasting
    <3> QED
      BY <3>1, <3>2
  <2>9. /\ b \in AlarmRecord /\ Lasting(b, a) /\ b.ringDuration = a.ringDuration
        /\ b.userChangedRingTime = a.userChangedRingTime
    BY <2>5, <2>6, <2>7, <2>8 DEF OnlyMoved, Lasting
  <2>10. (a.ringing => a.enabled) => (b.ringing => b.enabled)
    BY <2>5, <2>6, <2>7, <2>8 DEF OnlyMoved, Lasting
  <2>11. ASSUME ~ a.sticky, a.ringTimeStepCount = 1, a.ringDuration = 0, a.enabled,
                ~ OppositeSigns(c.currAdvanceTimeStep, c.timeStep),
                a.timeStepRingingCount >= 0, a.ringing => a.timeStepRingingCount >= 1
         PROVE  /\ b.timeStepRingingCount >= 0
                /\ b.ringing => b.timeStepRingingCount >= 1
    <3>1. /\ w.enabled /\ ~ w.sticky /\ w.ringTimeStepCount = 1 /\ w.ringDuration = 0
          /\ w.timeStepRingingCount >= 0 /\ (w.ringing => w.timeStepRingingCount >= 1)
          /\ w.ringBegin = IF g.ringBegin = Never THEN 0 ELSE g.ringBegin
      BY <2>5, <2>6, <2>11 DEF OnlyMoved, Lasting
    <3>2. end = w.ringBegin + c.timeStep
      BY <2>3, <2>6, <3>1, NeverAssumption DEF RingTimeEnd, ByDuration, AlarmRecord, ClockRecord
    <3> QED
      BY <2>7, <2>8, <2>11, <3>1, <3>2
  <2> QED
    BY <2>9, <2>10, <2>11
<1> QED
  BY <1>1, <1>2

-----------------------------------------------------------------------------
(* An alarm that keeps ringing on a repeating clock counts the step. *)
LEMMA KeepsRingingFacts ==
  ASSUME NEW a \in AlarmRecord, NEW b, b = KeepsRinging(a)
  PROVE  /\ b \in AlarmRecord /\ Lasting(b, a) /\ b.ringDuration = a.ringDuration
         /\ b.userChangedRingTime = a.userChangedRingTime /\ b.ringing
<1>1. PICK n \in Int : n = a.timeStepRingingCount + 1
  BY DEF AlarmRecord
<1>2. PICK k : k = [a EXCEPT !.ringing = TRUE, !.ringingOnCurrTimeStep = TRUE]
  OBVIOUS
<1>3. k \in AlarmRecord
  BY <1>2, SetFlag DEF Flags
<1>4. b = [k EXCEPT !.timeStepRingingCount = n]
  BY <1>1, <1>2 DEF KeepsRinging
<1>5. b \in AlarmRecord
  BY <1>3, <1>4, SetNumber DEF Numbers
<1> QED
  BY <1>2, <1>3, <1>4, <1>5 DEF AlarmRecord, Lasting

(* checkRingTime on a repeating clock: the alarm rings when the step passes one*)
(* of its ring times, and begins to ring at no other step.                     *)
LEMMA CheckRepeatFacts ==
  ASSUME NEW a \in AlarmRecord, NEW c \in ClockRecord, NEW b, b = CheckRepeat(a, c)
  PROVE  /\ b \in AlarmRecord /\ Lasting(b, a) /\ b.ringDuration = a.ringDuration
         /\ (a.ringing => a.enabled) => (b.ringing => b.enabled)
         /\ b.userChangedRingTime = a.userChangedRingTime
         /\ a.enabled /\ LastStep(a, c) => b.ringing
         /\ a.enabled /\ ~ LastStep(a, c) /\ ~ a.ringing => ~ b.ringing
<1>1. PICK k : k = Carried(a)
  OBVIOUS
<1>2. /\ k \in AlarmRecord /\ Lasting(k, a) /\ k.ringDuration = a.ringDuration
      /\ k.ringing = a.ringing
      /\ k.userChangedRingTime = a.userChangedRingTime
  BY <1>1, CarriedFacts
<1>3. CASE a.enabled /\ LastStep(a, c)
  <2>1. PICK d : d = IF a.ringing THEN k ELSE [k EXCEPT !.ringBegin = c.currTime]
    OBVIOUS
  <2>2. /\ d \in AlarmRecord /\ Lasting(d, k) /\ d.ringDuration = k.ringDuration
        /\ d.userChangedRingTime = k.userChangedRingTime
    <3>1. c.currTime \in Int
      BY DEF ClockRecord
    <3> QED
      BY <1>2, <2>1, <3>1, SetNumber DEF Numbers, AlarmRecord, Lasting
  <2>3. b = KeepsRinging(d)
    BY <1>1, <1>3, <2>1 DEF CheckRepeat
  <2> QED
    BY <1>2, <1>3, <2>2, <2>3, KeepsRingingFacts DEF Lasting
<1>4. CASE a.enabled /\ ~ LastStep(a, c) /\ ~ a.sticky /\ a.ringing
  <2>1. b = Silenced(k) \/ b = KeepsRinging(k)
    BY <1>1, <1>4 DEF CheckRepeat
  <2> QED
    <3>1. CASE b = Silenced(k)
      BY <1>2, <1>4, <3>1, SilencedFacts DEF Lasting
    <3>2. CASE b = KeepsRinging(k)
      BY <1>2, <1>4, <3>2, KeepsRingingFacts DEF Lasting
    <3> QED
      BY <2>1, <3>1, <3>2
<1>5. CASE ~ a.enabled \/ (~ LastStep(a, c) /\ (a.sticky \/ ~ a.ringing))
  <2>1. b = k
    BY <1>1, <1>5 DEF CheckRepeat
  <2> QED
    BY <1>2, <1>5, <2>1 DEF Lasting
<1> QED
  BY <1>3, <1>4, <1>5

-----------------------------------------------------------------------------
(* ESMCI_alarmCreate makes an alarm that is enabled and does not ring. *)
LEMMA NewAlarmFacts ==
  ASSUME NEW p \in KindRecord, NEW now \in Int, NEW b, b = NewAlarm(p, now)
  PROVE  /\ b \in AlarmRecord /\ b.enabled /\ ~ b.ringing /\ ~ b.ringingOnCurrTimeStep
         /\ ~ b.userChangedRingTime /\ b.timeStepRingingCount = 0
         /\ b.sticky = p.sticky /\ b.ringTimeStepCount = p.ringTimeStepCount
         /\ b.ringDuration = p.ringDuration
         /\ b.ringInterval = p.ringInterval /\ b.stopTime = p.stopTime
         /\ b.ringTime = b.firstRingTime
<1>1. PICK first \in Int : first = IF p.ringTime # Never THEN p.ringTime ELSE now + p.ringInterval
  BY DEF KindRecord
<1> QED
  BY <1>1, NeverAssumption DEF NewAlarm, KindRecord, AlarmRecord

(* Alarm::ringerOff, in either direction, silences the alarm and moves its times. *)
LEMMA RingerOffFacts ==
  ASSUME NEW a \in AlarmRecord, NEW c \in ClockRecord, NEW b, b = RingerOff(a, c)
  PROVE  /\ b \in AlarmRecord /\ Lasting(b, a) /\ b.ringDuration = a.ringDuration
         /\ ~ b.ringing /\ b.timeStepRingingCount = 0
         /\ b.userChangedRingTime = a.userChangedRingTime
         /\ b.ringingOnCurrTimeStep = a.ringingOnCurrTimeStep
<1> DEFINE Off(r) == /\ r \in AlarmRecord /\ Lasting(r, a) /\ r.ringDuration = a.ringDuration
                     /\ ~ r.ringing /\ r.timeStepRingingCount = 0
                     /\ r.userChangedRingTime = a.userChangedRingTime
                     /\ r.ringingOnCurrTimeStep = a.ringingOnCurrTimeStep
<1>1. PICK off : off = [a EXCEPT !.ringing = FALSE, !.timeStepRingingCount = 0]
  OBVIOUS
<1>2. Off(off)
  <2>1. off \in AlarmRecord
    BY <1>1, SetFlag, ResetNumber DEF Flags, Numbers
  <2> QED
    BY <1>1, <2>1 DEF AlarmRecord, Lasting
<1>3. PICK x \in Int, y \in Int : x = off.ringTime - a.ringInterval /\ y = off.prevRingTime - a.ringInterval
  BY <1>2 DEF AlarmRecord
<1>4. PICK half : half = [off EXCEPT !.ringTime = x]
  OBVIOUS
<1>5. Off(half) /\ half.prevRingTime = off.prevRingTime
  BY <1>2, <1>4, SetNumber DEF Numbers, AlarmRecord, Lasting
<1>6. PICK back : back = [half EXCEPT !.prevRingTime = y]
  OBVIOUS
<1>7. Off(back)
  BY <1>5, <1>6, SetNumber DEF Numbers, AlarmRecord, Lasting
<1>8. \A v \in Int : Off([off EXCEPT !.ringEnd = v]) /\ Off([back EXCEPT !.ringEnd = v])
  BY <1>2, <1>7, SetNumber DEF Numbers, AlarmRecord, Lasting
<1>9. \/ b = [off EXCEPT !.ringEnd = c.currTime]
      \/ b = off \/ b = back
      \/ \E v \in Int : b = [back EXCEPT !.ringEnd = v]
  <2>1. back = [off EXCEPT !.ringTime = @ - a.ringInterval, !.prevRingTime = @ - a.ringInterval]
    BY <1>3, <1>4, <1>6
  <2>2. PICK v \in Int : v = IF back.ringEnd = Never THEN back.ringEnd ELSE back.ringEnd - a.ringInterval
    BY <1>7 DEF AlarmRecord
  <2> QED
    BY <1>1, <2>1, <2>2 DEF RingerOff
<1> QED
  <2>1. c.currTime \in Int
    BY DEF ClockRecord
  <2> QED
    BY <1>2, <1>7, <1>8, <1>9, <2>1

-----------------------------------------------------------------------------
(* Ring times are sums of a ring time and whole intervals. *)
LEMMA Products ==
  /\ \A n, m \in Nat : \A i \in Int : (n + m) * i = n * i + m * i
  /\ \A n, i \in Nat : n * i \in Nat
  /\ \A n, i \in Nat : i > 0 => n <= n * i
  /\ \A n, m, i \in Nat : n <= m => n * i <= m * i
<1>1. \A n, m \in Nat : \A i \in Int : (n + m) * i = n * i + m * i
  OBVIOUS
<1>2. \A n, i \in Nat : n * i \in Nat
  OBVIOUS
<1>3. \A n, i \in Nat : i > 0 => n <= n * i
  <2> TAKE n, i \in Nat
  <2> HAVE i > 0
  <2>1. PICK j \in Nat : i = 1 + j
    <3>1. i - 1 \in Nat /\ i = 1 + (i - 1)
      OBVIOUS
    <3> QED
      BY <3>1
  <2>2. n * (1 + j) = n + n * j
    OBVIOUS
  <2>3. n * j \in Nat
    BY <1>2
  <2> QED
    BY <2>1, <2>2, <2>3
<1>4. \A n, m, i \in Nat : n <= m => n * i <= m * i
  <2> TAKE n, m, i \in Nat
  <2> HAVE n <= m
  <2>1. PICK j \in Nat : m = n + j
    <3>1. m - n \in Nat /\ m = n + (m - n)
      OBVIOUS
    <3> QED
      BY <3>1
  <2>2. (n + j) * i = n * i + j * i
    BY <1>1
  <2>3. j * i \in Nat /\ n * i \in Nat
    BY <1>2
  <2> QED
    BY <2>1, <2>2, <2>3
<1> QED
  BY <1>1, <1>2, <1>3, <1>4

(* The loop that moves the ring time past a time t of a clock that goes forward *)
(* in time: by whole intervals, each from a ring time at or before t and not    *)
(* within an interval of the stopTime; without a stopTime, past t.              *)
LEMMA MovePastTimes ==
  ASSUME NEW a \in AlarmRecord, NEW t \in Int, NEW positive \in BOOLEAN, positive,
         NEW b, b = MovePast(a, positive, t)
  PROVE  /\ b.firstRingTime = a.firstRingTime /\ b.ringInterval = a.ringInterval
         /\ b.stopTime = a.stopTime
         /\ \E n \in Nat :
              /\ b.ringTime = a.ringTime + n * a.ringInterval
              /\ n > 0 => /\ b.ringTime - a.ringInterval <= t
                          /\ a.stopTime # Never => b.ringTime < a.stopTime
         /\ a.stopTime = Never /\ RoundsPast(a, positive, t) # {} => t < b.ringTime
<1> DEFINE rounds == RoundsPast(a, positive, t)
           n == CHOOSE m \in rounds : \A k \in rounds : m <= k
           x == a.ringTime + (n - 1) * a.ringInterval
           y == a.ringTime + n * a.ringInterval
           last == Magnitude(t - a.ringTime) + 1
<1>1. rounds \subseteq 0 .. last
  BY DEF RoundsPast
<1>2. \A m \in 0 .. last :
         m \in rounds <=> \/ ~ (t >= a.ringTime + m * a.ringInterval)
                         \/ /\ a.stopTime # Never
                            /\ a.ringTime + m * a.ringInterval >= a.stopTime - a.ringInterval
  BY DEF RoundsPast, AtOrPast
<1>3. /\ a.ringTime \in Int /\ a.ringInterval \in Int /\ a.stopTime \in Int
      /\ last \in Nat
  BY DEF AlarmRecord, Magnitude
<1> HIDE DEF last
<1>4. 0 * a.ringInterval = 0 /\ a.ringTime + 0 * a.ringInterval = a.ringTime
  BY <1>3
<1>5. CASE rounds = {}
  <2>1. b = a
    BY <1>5 DEF MovePast
  <2>2. /\ b.ringTime = a.ringTime + 0 * a.ringInterval
        /\ 0 > 0 => /\ b.ringTime - a.ringInterval <= t
                    /\ a.stopTime # Never => b.ringTime < a.stopTime
    <3> HIDE DEF rounds
    <3>1. b.ringTime = a.ringTime + 0 * a.ringInterval
      BY <1>4, <2>1
    <3>2. ~ (0 > 0)
      OBVIOUS
    <3> QED
      BY <3>1, <3>2, Zenon
  <2> HIDE DEF rounds
  <2> QED
    BY <1>5, <2>1, <2>2 DEF rounds
<1>6. CASE rounds # {}
  <2>1. n \in rounds /\ (\A k \in rounds : n <= k)
    <3> HIDE DEF rounds
    <3>1. rounds \subseteq Nat
      BY <1>1, <1>3
    <3>2. \E m \in rounds : \A k \in rounds : m <= k
      BY <1>6, <3>1, LeastExists
    <3> QED
      BY <3>2
  <2>2. b = IF n = 0 THEN a ELSE [a EXCEPT !.prevRingTime = x, !.ringTime = y]
    <3>1. CASE n = 0
      BY <1>6, <3>1 DEF MovePast
    <3>2. CASE n # 0
      <4>1. PICK x0, y0 : x0 = x /\ y0 = y
        OBVIOUS
      <4>2. b = [a EXCEPT !.prevRingTime = x0, !.ringTime = y0]
        BY <1>6, <3>2, <4>1 DEF MovePast
      <4> QED
        BY <3>2, <4>1, <4>2
    <3> QED
      BY <3>1, <3>2
  <2> HIDE DEF rounds, n
  <2>3. n \in 0 .. last /\ n \in Nat
    BY <1>1, <1>3, <2>1
  <2>4. x \in Int /\ y \in Int /\ x = y - a.ringInterval
    <3>1. PICK m \in Int : m = n - 1 /\ n = m + 1
      BY <2>3
    <3>2. (m + 1) * a.ringInterval = m * a.ringInterval + a.ringInterval
      <4>1. \A i \in Int : (m + 1) * i = m * i + i
        BY <3>1
      <4> QED
        BY <1>3, <4>1
    <3>3. m * a.ringInterval \in Int
      BY <1>3, <3>1
    <3> QED
      BY <1>3, <3>1, <3>2, <3>3
  <2>5. \/ ~ (t >= y)
        \/ a.stopTime # Never /\ y >= a.stopTime - a.ringInterval
    BY <1>2, <2>1, <2>3
  <2>6. n > 0 => x <= t /\ (a.stopTime # Never => x < a.stopTime - a.ringInterval)
    <3> SUFFICES ASSUME n > 0
                 PROVE  x <= t /\ (a.stopTime # Never => x < a.stopTime - a.ringInterval)
      OBVIOUS
    <3>1. n - 1 \in 0 .. last /\ ~ (n <= n - 1)
      BY <1>3, <2>3
    <3>2. n - 1 \notin rounds
      BY <2>1, <3>1
    <3> QED
      BY <1>2, <1>3, <2>4, <3>1, <3>2
  <2> HIDE DEF x
  <2>7. b.ringTime = y /\ b.firstRingTime = a.firstRingTime
        /\ b.ringInterval = a.ringInterval /\ b.stopTime = a.stopTime
    <3>1. CASE n = 0
      BY <1>4, <2>2, <3>1
    <3>2. CASE n # 0
      BY <2>2, <3>2 DEF AlarmRecord
    <3> QED
      BY <3>1, <3>2
  <2>8. n > 0 => /\ y - a.ringInterval <= t
                 /\ a.stopTime # Never => y < a.stopTime
    <3> HIDE DEF y
    <3> QED
      BY <1>3, <2>4, <2>6
  <2>9. a.stopTime = Never => t < y
    <3> HIDE DEF y
    <3> QED
      BY <2>4, <2>5
  <2> QED
    BY <2>3, <2>7, <2>8, <2>9
<1> QED
  BY <1>5, <1>6

\* What the schedule of an alarm is made of, and where in it the alarm is.
SameSchedule(b, a) ==
  /\ b.firstRingTime = a.firstRingTime /\ b.ringInterval = a.ringInterval
  /\ b.stopTime = a.stopTime
SameTimes(b, a) == SameSchedule(b, a) /\ b.ringTime = a.ringTime

(* Noting the last ring, counting the step and falling silent, the pre-check   *)
(* with no change of sign or direction, and ringerOff on the way forward leave *)
(* the times of the alarm alone.                                               *)
LEMMA TimesStay ==
  ASSUME NEW a \in AlarmRecord, NEW c
  PROVE  /\ SameTimes(Carried(a), a)
         /\ SameTimes(Silenced(a), a)
         /\ SameTimes(Counted(a), a)
         /\ ~ SignChanged(c) /\ ~ c.userChangedDirection => SameTimes(PreChecked(a, c), a)
         /\ c.direction = "forward" => SameTimes(RingerOff(a, c), a)
<1>1. SameTimes(Carried(a), a)
  BY DEF Carried, SameTimes, SameSchedule, AlarmRecord
<1>2. SameTimes(Silenced(a), a)
  BY DEF Silenced, SameTimes, SameSchedule, AlarmRecord
<1>3. SameTimes(Counted(a), a)
  BY DEF Counted, SameTimes, SameSchedule, AlarmRecord
<1>4. ASSUME ~ SignChanged(c), ~ c.userChangedDirection
      PROVE  SameTimes(PreChecked(a, c), a)
  <2>1. PreChecked(a, c) = a \/ PreChecked(a, c) = [a EXCEPT !.userChangedRingTime = FALSE]
    BY <1>4 DEF PreChecked, Pulled, WithSign
  <2> QED
    BY <2>1 DEF SameTimes, SameSchedule, AlarmRecord
<1>5. ASSUME c.direction = "forward"
      PROVE  SameTimes(RingerOff(a, c), a)
  <2>1. PICK now : now = c.currTime
    OBVIOUS
  <2>2. RingerOff(a, c) = [a EXCEPT !.ringing = FALSE, !.timeStepRingingCount = 0, !.ringEnd = now]
    BY <1>5, <2>1 DEF RingerOff
  <2> QED
    BY <2>2 DEF SameTimes, SameSchedule, AlarmRecord
<1> QED
  BY <1>1, <1>2, <1>3, <1>4, <1>5

(* checkTurnOn moves the ring time by one interval when the step crosses it,   *)
(* unless that is too close to the alarm's stopTime.                           *)
LEMMA CheckTurnOnTimes ==
  ASSUME NEW a \in AlarmRecord, NEW c \in ClockRecord, NEW positive \in BOOLEAN, positive,
         NEW b, b = CheckTurnOn(a, c, positive)
  PROVE  /\ SameSchedule(b, a)
         /\ \/ b.ringTime = a.ringTime
            \/ /\ Crossed(a, c, positive) /\ b.ringTime = a.ringTime + a.ringInterval
               /\ a.ringTime <= c.currTime
               /\ a.stopTime # Never => b.ringTime < a.stopTime
         /\ ~ Crossed(a, c, positive) => b.ringTime = a.ringTime
         /\ Crossed(a, c, positive) /\ a.stopTime = Never =>
              b.ringTime = a.ringTime + a.ringInterval
<1>1. /\ a.ringTime \in Int /\ a.ringInterval \in Int /\ a.stopTime \in Int /\ c.currTime \in Int
  BY DEF AlarmRecord, ClockRecord
<1>2. PICK on : on = [a EXCEPT !.ringing = TRUE, !.ringingOnCurrTimeStep = TRUE, !.ringBegin = c.currTime]
  OBVIOUS
<1>3. SameTimes(on, a) /\ on \in AlarmRecord
  <2>1. on \in AlarmRecord
    BY <1>1, <1>2, SetNumber, SetFlag DEF Numbers, Flags
  <2> QED
    BY <1>2, <2>1 DEF SameTimes, SameSchedule, AlarmRecord
<1>4. PICK next : next = NextRing(on)
  OBVIOUS
<1>5. SameSchedule(next, a) /\ next.ringTime = a.ringTime + a.ringInterval
  BY <1>3, <1>4 DEF NextRing, SameTimes, SameSchedule, AlarmRecord
<1>6. CASE ~ Crossed(a, c, positive)
  <2>1. b = [a EXCEPT !.ringingOnCurrTimeStep = FALSE]
    BY <1>6 DEF CheckTurnOn
  <2> QED
    BY <1>6, <2>1 DEF SameSchedule, AlarmRecord
<1>7. CASE Crossed(a, c, positive)
  <2>1. a.ringTime <= c.currTime
    BY <1>1, <1>7 DEF Crossed, AtOrPast
  <2>2. CASE a.stopTime # Never /\ c.currTime >= a.stopTime - a.ringInterval
    <3>1. b = on
      BY <1>2, <1>7, <2>2 DEF CheckTurnOn, AtOrPast
    <3> QED
      BY <1>3, <2>2, <3>1 DEF SameTimes
  <2>3. CASE ~ (a.stopTime # Never /\ c.currTime >= a.stopTime - a.ringInterval)
    <3>1. b = next
      BY <1>2, <1>4, <1>7, <2>3 DEF CheckTurnOn, AtOrPast
    <3>2. a.stopTime # Never => a.ringTime + a.ringInterval < a.stopTime
      BY <1>1, <2>1, <2>3
    <3> QED
      BY <1>5, <1>7, <2>1, <3>1, <3>2
  <2> QED
    BY <2>2, <2>3
<1> QED
  BY <1>6, <1>7

(* So does turning on or off; an alarm that is left ringing stays as it is.    *)
LEMMA TurnOnOrOffTimes ==
  ASSUME NEW a \in AlarmRecord, a.enabled, NEW c \in ClockRecord, Positive(c),
         NEW b, b = TurnOnOrOff(a, c)
  PROVE  /\ SameSchedule(b, a)
         /\ \/ b.ringTime = a.ringTime
            \/ /\ Crossed(a, c, Positive(c)) /\ b.ringTime = a.ringTime + a.ringInterval
               /\ a.ringTime <= c.currTime
               /\ a.stopTime # Never => b.ringTime < a.stopTime
         /\ ~ Crossed(a, c, Positive(c)) => b.ringTime = a.ringTime
         /\ ~ a.sticky /\ Crossed(a, c, Positive(c)) /\ a.stopTime = Never =>
              b.ringTime = a.ringTime + a.ringInterval
<1>1. PICK checked : checked = CheckTurnOn(a, c, Positive(c))
  OBVIOUS
<1>2. PICK positive \in BOOLEAN : positive = Positive(c)
  BY DEF Positive
<1>3. /\ SameSchedule(checked, a)
      /\ \/ checked.ringTime = a.ringTime
         \/ /\ Crossed(a, c, positive) /\ checked.ringTime = a.ringTime + a.ringInterval
            /\ a.ringTime <= c.currTime
            /\ a.stopTime # Never => checked.ringTime < a.stopTime
      /\ ~ Crossed(a, c, positive) => checked.ringTime = a.ringTime
      /\ Crossed(a, c, positive) /\ a.stopTime = Never =>
           checked.ringTime = a.ringTime + a.ringInterval
  BY <1>1, <1>2, CheckTurnOnTimes
<1>4. checked \in AlarmRecord
  <2>1. c.currTime \in Int
    BY DEF ClockRecord
  <2> QED
    BY <1>1, <1>2, <2>1, CheckTurnOnFacts
<1>5. PICK off : off = Silenced(checked)
  OBVIOUS
<1>6. SameTimes(off, checked)
  BY <1>4, <1>5, TimesStay
<1>7. CASE a.ringing /\ a.sticky
  <2>1. b = a
    BY <1>7 DEF TurnOnOrOff
  <2> QED
    BY <1>7, <2>1 DEF SameSchedule
<1>8. CASE ~ a.ringing
  <2>1. b = checked
    BY <1>1, <1>8 DEF TurnOnOrOff
  <2> QED
    BY <1>2, <1>3, <2>1
<1>9. CASE a.ringing /\ ~ a.sticky
  <2>1. b = off \/ b = checked
    BY <1>1, <1>5, <1>9 DEF TurnOnOrOff
  <2> QED
    BY <1>2, <1>3, <1>6, <2>1 DEF SameTimes, SameSchedule
<1> QED
  BY <1>7, <1>8, <1>9

(* checkRingTime with the clock going forward, in time and in direction: the   *)
(* ring time moves by whole intervals, none of them beyond the one that takes  *)
(* it past the clock or to the stopTime; a sticky alarm gets ahead of the clock*)
(* and any other moves by one interval, when the step crosses its ring time.   *)
LEMMA CheckForwardTimes ==
  ASSUME NEW a \in AlarmRecord, a.enabled, ~ a.userChangedRingTime,
         NEW c \in ClockRecord, Positive(c), ~ SignChanged(c), ~ c.userChangedDirection,
         NEW b, b = CheckForward(a, c)
  PROVE  /\ SameSchedule(b, a)
         /\ \E n \in Nat :
              /\ b.ringTime = a.ringTime + n * a.ringInterval
              /\ n > 0 => /\ b.ringTime - a.ringInterval <= c.currTime
                          /\ a.stopTime # Never => b.ringTime < a.stopTime
         /\ a.stopTime = Never =>
              /\ a.sticky /\ a.ringInterval # 0 /\ c.advanceCount # 0 /\ ~ ForwardEndless(a, c) =>
                   c.currTime < b.ringTime
              /\ ~ a.sticky =>
                   b.ringTime = IF Crossed(a, c, Positive(c)) THEN a.ringTime + a.ringInterval
                                ELSE a.ringTime
<1>0. /\ c.currTime \in Int /\ c.prevTime \in Int
      /\ a.ringTime \in Int /\ a.ringInterval \in Int /\ a.stopTime \in Int
  BY DEF ClockRecord, AlarmRecord
<1>1. PICK k : k = Carried(a)
  OBVIOUS
<1>2. PICK p : p = PreChecked(k, c)
  OBVIOUS
<1>3. PICK d : d = TurnOnOrOff(p, c)
  OBVIOUS
<1>4. PICK e : e = Counted(d)
  OBVIOUS
<1>5. ~ OutOfRange(a, c)
  BY DEF OutOfRange
<1>6. /\ k \in AlarmRecord /\ Lasting(k, a) /\ SameTimes(k, a)
      /\ k.userChangedRingTime = a.userChangedRingTime
  BY <1>1, CarriedFacts, TimesStay
<1>7. p \in AlarmRecord /\ Lasting(p, k) /\ SameTimes(p, k)
  BY <1>0, <1>2, <1>6, PreCheckedFacts, TimesStay
<1>8. p.enabled /\ SameTimes(p, a) /\ p.sticky = a.sticky
  BY <1>6, <1>7 DEF Lasting, SameTimes, SameSchedule
<1>9. Crossed(p, c, Positive(c)) <=> Crossed(a, c, Positive(c))
  BY <1>8 DEF Crossed, SameTimes
<1>10. /\ d \in AlarmRecord /\ Lasting(d, p) /\ SameSchedule(d, p)
       /\ \/ d.ringTime = p.ringTime
          \/ /\ d.ringTime = p.ringTime + p.ringInterval
             /\ p.ringTime <= c.currTime
             /\ p.stopTime # Never => d.ringTime < p.stopTime
       /\ ~ Crossed(p, c, Positive(c)) => d.ringTime = p.ringTime
       /\ ~ p.sticky /\ Crossed(p, c, Positive(c)) /\ p.stopTime = Never =>
            d.ringTime = p.ringTime + p.ringInterval
  <2>1. d \in AlarmRecord /\ Lasting(d, p)
    BY <1>0, <1>3, <1>7, TurnOnOrOffFacts
  <2> QED
    BY <1>0, <1>3, <1>7, <1>8, <2>1, TurnOnOrOffTimes
<1>11. e \in AlarmRecord /\ Lasting(e, d) /\ SameTimes(e, d)
  BY <1>4, <1>10, CountedFacts, TimesStay
<1>12. /\ SameSchedule(e, a) /\ e.sticky = a.sticky
       /\ \/ e.ringTime = a.ringTime
          \/ /\ e.ringTime = a.ringTime + a.ringInterval
             /\ a.ringTime <= c.currTime
             /\ a.stopTime # Never => e.ringTime < a.stopTime
       /\ ~ a.sticky /\ a.stopTime = Never =>
            e.ringTime = IF Crossed(a, c, Positive(c)) THEN a.ringTime + a.ringInterval
                         ELSE a.ringTime
  BY <1>8, <1>9, <1>10, <1>11 DEF Lasting, SameTimes, SameSchedule
<1>13. KeptAhead(e, c) <=> a.sticky /\ a.ringInterval # 0 /\ c.advanceCount # 0
  BY <1>12 DEF KeptAhead, SameSchedule
<1>14. b = IF KeptAhead(e, c) THEN MovePast(e, Positive(c), c.currTime) ELSE e
  BY <1>1, <1>2, <1>3, <1>4, <1>5 DEF CheckForward
<1>15. PICK positive \in BOOLEAN : positive = Positive(c) /\ positive
  BY DEF Positive
<1>16. /\ SameSchedule(b, e)
       /\ \E n \in Nat :
            /\ b.ringTime = e.ringTime + n * e.ringInterval
            /\ n > 0 => /\ b.ringTime - e.ringInterval <= c.currTime
                        /\ e.stopTime # Never => b.ringTime < e.stopTime
       /\ ~ KeptAhead(e, c) => b.ringTime = e.ringTime
       /\ KeptAhead(e, c) /\ e.stopTime = Never /\ RoundsPast(e, positive, c.currTime) # {} =>
            c.currTime < b.ringTime
  <2>1. CASE KeptAhead(e, c)
    <3>1. b = MovePast(e, positive, c.currTime)
      BY <1>14, <1>15, <2>1
    <3>2. c.currTime \in Int /\ e \in AlarmRecord /\ positive
      BY <1>0, <1>11, <1>15
    <3>3. /\ b.firstRingTime = e.firstRingTime /\ b.ringInterval = e.ringInterval
          /\ b.stopTime = e.stopTime
          /\ \E n \in Nat :
               /\ b.ringTime = e.ringTime + n * e.ringInterval
               /\ n > 0 => /\ b.ringTime - e.ringInterval <= c.currTime
                           /\ e.stopTime # Never => b.ringTime < e.stopTime
          /\ e.stopTime = Never /\ RoundsPast(e, positive, c.currTime) # {} => c.currTime < b.ringTime
      BY <3>1, <3>2, MovePastTimes
    <3> QED
      BY <2>1, <3>3 DEF SameSchedule
  <2>2. CASE ~ KeptAhead(e, c)
    <3>1. b = e
      BY <1>14, <2>2
    <3>2. e.ringTime \in Int /\ e.ringInterval \in Int
      BY <1>11 DEF AlarmRecord
    <3>3. e.ringTime = e.ringTime + 0 * e.ringInterval
      BY <3>2
    <3>4. ~ (0 > 0) /\ 0 \in Nat
      OBVIOUS
    <3>5. \E n \in Nat :
            /\ b.ringTime = e.ringTime + n * e.ringInterval
            /\ n > 0 => /\ b.ringTime - e.ringInterval <= c.currTime
                        /\ e.stopTime # Never => b.ringTime < e.stopTime
      BY <3>1, <3>3, <3>4, Zenon
    <3> QED
      BY <2>2, <3>1, <3>5 DEF SameSchedule
  <2> QED
    BY <2>1, <2>2
<1>17. KeptAhead(e, c) /\ ~ ForwardEndless(a, c) => RoundsPast(e, positive, c.currTime) # {}
  BY <1>1, <1>2, <1>3, <1>4, <1>5, <1>15 DEF ForwardEndless
<1>18. SameSchedule(b, a)
  BY <1>12, <1>16 DEF SameSchedule
<1>19. \E n \in Nat :
         /\ b.ringTime = a.ringTime + n * a.ringInterval
         /\ n > 0 => /\ b.ringTime - a.ringInterval <= c.currTime
                     /\ a.stopTime # Never => b.ringTime < a.stopTime
  <2>1. PICK n \in Nat :
            /\ b.ringTime = e.ringTime + n * a.ringInterval
            /\ n > 0 => /\ b.ringTime - a.ringInterval <= c.currTime
                        /\ a.stopTime # Never => b.ringTime < a.stopTime
    BY <1>12, <1>16 DEF SameSchedule
  <2>2. CASE e.ringTime = a.ringTime
    BY <2>1, <2>2
  <2>3. CASE /\ e.ringTime = a.ringTime + a.ringInterval
             /\ a.ringTime <= c.currTime
             /\ a.stopTime # Never => e.ringTime < a.stopTime
    <3>1. PICK i \in Int : i = a.ringInterval
      BY <1>0
    <3>2. n * i \in Int /\ (n + 1) * i = n * i + i /\ n + 1 \in Nat
      BY <3>1
    <3>3. b.ringTime = a.ringTime + (n + 1) * a.ringInterval
      BY <1>0, <2>1, <2>3, <3>1, <3>2
    <3>4. /\ b.ringTime - a.ringInterval <= c.currTime
          /\ a.stopTime # Never => b.ringTime < a.stopTime
      <4>1. CASE n > 0
        BY <2>1, <4>1
      <4>2. CASE n = 0
        <5>1. n * i = 0
          BY <3>1, <4>2
        <5>2. b.ringTime = e.ringTime
          BY <1>0, <2>1, <2>3, <3>1, <5>1
        <5> QED
          BY <1>0, <2>3, <5>2
      <4> QED
        BY <4>1, <4>2
    <3> QED
      BY <3>2, <3>3, <3>4
  <2> QED
    BY <1>12, <2>2, <2>3
<1>20. a.stopTime = Never =>
         /\ a.sticky /\ a.ringInterval # 0 /\ c.advanceCount # 0 /\ ~ ForwardEndless(a, c) =>
              c.currTime < b.ringTime
         /\ ~ a.sticky =>
              b.ringTime = IF Crossed(a, c, Positive(c)) THEN a.ringTime + a.ringInterval
                           ELSE a.ringTime
  BY <1>12, <1>13, <1>16, <1>17 DEF SameSchedule
<1> QED
  BY <1>18, <1>19, <1>20

(* An alarm that is at one of its ring times is, after checkRingTime, at that  *)
(* or a later one, which the clock has not reached.                            *)
LEMMA NextRound ==
  ASSUME NEW a \in AlarmRecord, a.enabled, ~ a.userChangedRingTime, a.ringInterval >= 0,
         NEW c \in ClockRecord, Positive(c), ~ SignChanged(c), ~ c.userChangedDirection,
         c.advanceCount # 0, ~ ForwardEndless(a, c),
         NEW spaced \in BOOLEAN, c.prevTime <= c.currTime,
         a.ringInterval > 0 /\ spaced => c.currTime - c.prevTime <= a.ringInterval,
         NEW n \in Nat, AtRound(a, c.prevTime, spaced, n),
         NEW b, b = CheckForward(a, c)
  PROVE  SameSchedule(b, a) /\ \E m \in Nat : AtRound(b, c.currTime, spaced, m)
<1>0. /\ c.currTime \in Int /\ c.prevTime \in Int /\ a.firstRingTime \in Int
      /\ a.ringTime \in Int /\ a.ringInterval \in Int /\ a.stopTime \in Int
      /\ b \in AlarmRecord /\ b.sticky = a.sticky /\ b.ringTime \in Int
  <2>1. b \in AlarmRecord /\ Lasting(b, a)
    BY CheckForwardFacts
  <2> QED
    BY <2>1 DEF ClockRecord, AlarmRecord, Lasting
<1>1. PICK i \in Nat : i = a.ringInterval
  BY <1>0
<1>2. /\ SameSchedule(b, a)
      /\ \E k \in Nat :
           /\ b.ringTime = a.ringTime + k * a.ringInterval
           /\ k > 0 => /\ b.ringTime - a.ringInterval <= c.currTime
                       /\ a.stopTime # Never => b.ringTime < a.stopTime
      /\ a.stopTime = Never =>
           /\ a.sticky /\ a.ringInterval # 0 /\ c.advanceCount # 0 /\ ~ ForwardEndless(a, c) =>
                c.currTime < b.ringTime
           /\ ~ a.sticky =>
                b.ringTime = IF Crossed(a, c, Positive(c)) THEN a.ringTime + a.ringInterval
                             ELSE a.ringTime
  BY CheckForwardTimes
<1>3. PICK k \in Nat :
        /\ b.ringTime = a.ringTime + k * i
        /\ k > 0 => /\ b.ringTime - i <= c.currTime
                    /\ a.stopTime # Never => b.ringTime < a.stopTime
  BY <1>1, <1>2
<1>4. /\ a.ringTime = a.firstRingTime + n * i
      /\ n > 0 /\ a.stopTime # Never => a.ringTime < a.stopTime
      /\ i > 0 /\ a.stopTime = Never /\ (a.sticky \/ spaced)
         => c.prevTime < a.ringTime /\ (n > 0 => a.ringTime - i <= c.prevTime)
  BY <1>1 DEF AtRound
<1>5. k * i \in Nat /\ n * i \in Nat /\ (n + k) * i = n * i + k * i
  BY Products
<1>6. k = 0 => b.ringTime = a.ringTime
  <2>1. 0 * i = 0
    BY <1>1
  <2> QED
    BY <1>0, <1>3, <2>1
<1>7. b.ringTime = a.firstRingTime + (n + k) * i
  BY <1>0, <1>3, <1>4, <1>5
<1>8. n + k > 0 /\ a.stopTime # Never => b.ringTime < a.stopTime
  BY <1>3, <1>4, <1>6
<1>9. ASSUME i > 0, a.stopTime = Never, a.sticky \/ spaced
      PROVE  c.currTime < b.ringTime /\ (n + k > 0 => b.ringTime - i <= c.currTime)
  <2>1. c.prevTime < a.ringTime /\ (n > 0 => a.ringTime - i <= c.prevTime)
    BY <1>4, <1>9
  <2>2. n + k > 0 => b.ringTime - i <= c.currTime
    BY <1>0, <1>3, <1>6, <2>1
  <2>3. CASE a.sticky
    BY <1>1, <1>2, <1>9, <2>2, <2>3
  <2>4. CASE ~ a.sticky /\ spaced
    <3>1. b.ringTime = IF Crossed(a, c, Positive(c)) THEN a.ringTime + i ELSE a.ringTime
      BY <1>1, <1>2, <1>9, <2>4
    <3>2. c.currTime - c.prevTime <= i
      BY <1>1, <1>9, <2>4
    <3>3. CASE Crossed(a, c, Positive(c))
      BY <1>0, <2>1, <2>2, <3>1, <3>2, <3>3
    <3>4. CASE ~ Crossed(a, c, Positive(c))
      <4>1. c.currTime < a.ringTime
        BY <1>0, <2>1, <3>4 DEF Crossed, AtOrPast
      <4> QED
        BY <2>2, <3>1, <3>4, <4>1
    <3> QED
      BY <3>3, <3>4
  <2> QED
    BY <1>9, <2>3, <2>4
<1>10. AtRound(b, c.currTime, spaced, n + k)
  BY <1>0, <1>1, <1>2, <1>7, <1>8, <1>9 DEF AtRound, SameSchedule
<1>11. n + k \in Nat
  OBVIOUS
<1> QED
  BY <1>2, <1>10, <1>11

(* A new alarm, whose first ring is ahead of the clock, is at its first ring    *)
(* time after it has been checked.                                             *)
LEMMA FirstRound ==
  ASSUME NEW a \in AlarmRecord, a.enabled, ~ a.userChangedRingTime, a.ringInterval >= 0,
         a.ringTime = a.firstRingTime,
         NEW c \in ClockRecord, Positive(c), ~ SignChanged(c), ~ c.userChangedDirection,
         c.currTime < a.ringTime, NEW spaced \in BOOLEAN,
         NEW b, b = CheckForward(a, c)
  PROVE  SameSchedule(b, a) /\ AtRound(b, c.currTime, spaced, 0)
<1>0. /\ c.currTime \in Int /\ a.ringTime \in Int /\ a.ringInterval \in Nat
      /\ b \in AlarmRecord /\ b.ringTime \in Int
  <2>1. b \in AlarmRecord
    BY CheckForwardFacts
  <2> QED
    BY <2>1 DEF ClockRecord, AlarmRecord
<1>1. PICK i \in Nat : i = a.ringInterval
  BY <1>0
<1>2. SameSchedule(b, a) /\ \E k \in Nat :
           /\ b.ringTime = a.ringTime + k * a.ringInterval
           /\ k > 0 => b.ringTime - a.ringInterval <= c.currTime
  BY CheckForwardTimes
<1>3. PICK k \in Nat : /\ b.ringTime = a.ringTime + k * i
                       /\ k > 0 => b.ringTime - i <= c.currTime
  BY <1>1, <1>2
<1>4. k = 0
  <2> SUFFICES ASSUME k > 0
               PROVE  FALSE
    OBVIOUS
  <2>1. PICK j \in Nat : k = j + 1
    <3>1. k - 1 \in Nat /\ k = (k - 1) + 1
      OBVIOUS
    <3> QED
      BY <3>1
  <2>2. (j + 1) * i = j * i + 1 * i /\ j * i \in Nat /\ 1 * i = i
    BY Products
  <2> QED
    BY <1>0, <1>3, <2>1, <2>2
<1>5. 0 * i = 0
  OBVIOUS
<1>6. b.ringTime = a.ringTime /\ b.ringTime = b.firstRingTime + 0 * b.ringInterval
  BY <1>0, <1>1, <1>2, <1>3, <1>4, <1>5 DEF SameSchedule
<1> QED
  BY <1>2, <1>6 DEF AtRound

(* The ordinals of a ring time are all that there are. *)
LEMMA OrdinalsComplete ==
  ASSUME NEW first \in Int, NEW r \in Int, NEW i \in Nat, NEW n \in Nat, r = first + n * i
  PROVE  \E m \in 0 .. Magnitude(r - first) : r = first + m * i /\ m <= n
<1>1. CASE i = 0
  <2>1. n * i = 0 /\ 0 * i = 0
    BY <1>1
  <2>2. r = first + 0 * i /\ 0 <= n /\ 0 \in 0 .. Magnitude(r - first)
    BY <2>1 DEF Magnitude
  <2> QED
    BY <2>2
<1>2. CASE i > 0
  <2>1. n <= n * i /\ n * i \in Nat
    BY <1>2, Products
  <2>2. r - first = n * i
    BY <2>1
  <2>3. n \in 0 .. Magnitude(r - first)
    BY <2>1, <2>2 DEF Magnitude
  <2> QED
    BY <2>3
<1> QED
  BY <1>1, <1>2

-----------------------------------------------------------------------------
(* checkRingTime on any clock: what the three checks have in common. *)
LEMMA CheckRingTimeFacts ==
  ASSUME NEW a \in AlarmRecord, NEW c \in ClockRecord, NEW b, b = CheckRingTime(a, c)
  PROVE  /\ b \in AlarmRecord /\ Lasting(b, a)
         /\ (a.ringing => a.enabled) => (b.ringing => b.enabled)
         /\ ~ a.userChangedRingTime => ~ b.userChangedRingTime
         /\ ~ SignChanged(c) => b.ringDuration = a.ringDuration
         /\ c.repeatDuration = 0 /\ ~ a.sticky /\ a.ringTimeStepCount = 1 /\ a.ringDuration = 0
            /\ a.enabled /\ ~ a.userChangedRingTime
            /\ ~ OppositeSigns(c.currAdvanceTimeStep, c.timeStep) /\ ~ SignChanged(c)
            /\ a.timeStepRingingCount >= 0 /\ (a.ringing => a.timeStepRingingCount >= 1) =>
              /\ b.timeStepRingingCount >= 0
              /\ b.ringing => b.timeStepRingingCount >= 1
<1>1. CASE c.repeatDuration # 0
  <2>1. b = CheckRepeat(a, c)
    BY <1>1 DEF CheckRingTime
  <2> QED
    BY <1>1, <2>1, CheckRepeatFacts
<1>2. CASE c.repeatDuration = 0 /\ c.direction = "forward"
  <2>1. b = CheckForward(a, c)
    BY <1>2 DEF CheckRingTime
  <2> QED
    BY <2>1, CheckForwardFacts
<1>3. CASE c.repeatDuration = 0 /\ c.direction = "reverse"
  <2>1. b = CheckReverse(a, c)
    BY <1>3 DEF CheckRingTime
  <2> QED
    BY <2>1, CheckReverseFacts
<1> QED
  BY <1>1, <1>2, <1>3 DEF ClockRecord, Directions

-----------------------------------------------------------------------------
(* Setting a member of a clock leaves a clock. *)
LEMMA SetClock ==
  /\ \A c \in ClockRecord : \A v \in Int : [c EXCEPT !.repeatCount = v] \in ClockRecord
  /\ \A c \in ClockRecord : \A v \in Int : [c EXCEPT !.currAdvanceTimeStep = v] \in ClockRecord
  /\ \A c \in ClockRecord : \A v \in Int : [c EXCEPT !.prevAdvanceTimeStep = v] \in ClockRecord
  /\ \A c \in ClockRecord : \A v \in Int : [c EXCEPT !.currTime = v] \in ClockRecord
  /\ \A c \in ClockRecord : \A v \in Int : [c EXCEPT !.prevTime = v] \in ClockRecord
  /\ \A c \in ClockRecord : \A v \in Int : [c EXCEPT !.advanceCount = v] \in ClockRecord
  /\ \A c \in ClockRecord : \A v \in Directions : [c EXCEPT !.direction = v] \in ClockRecord
  /\ \A c \in ClockRecord : \A v \in BOOLEAN : [c EXCEPT !.userChangedDirection = v] \in ClockRecord
<1>1. \A c \in ClockRecord : \A v \in Int : [c EXCEPT !.repeatCount = v] \in ClockRecord
  BY DEF ClockRecord
<1>2. \A c \in ClockRecord : \A v \in Int : [c EXCEPT !.currAdvanceTimeStep = v] \in ClockRecord
  BY DEF ClockRecord
<1>3. \A c \in ClockRecord : \A v \in Int : [c EXCEPT !.prevAdvanceTimeStep = v] \in ClockRecord
  BY DEF ClockRecord
<1>4. \A c \in ClockRecord : \A v \in Int : [c EXCEPT !.currTime = v] \in ClockRecord
  BY DEF ClockRecord
<1>5. \A c \in ClockRecord : \A v \in Int : [c EXCEPT !.prevTime = v] \in ClockRecord
  BY DEF ClockRecord
<1>6. \A c \in ClockRecord : \A v \in Int : [c EXCEPT !.advanceCount = v] \in ClockRecord
  BY DEF ClockRecord
<1>7. \A c \in ClockRecord : \A v \in Directions : [c EXCEPT !.direction = v] \in ClockRecord
  BY DEF ClockRecord
<1>8. \A c \in ClockRecord : \A v \in BOOLEAN : [c EXCEPT !.userChangedDirection = v] \in ClockRecord
  BY DEF ClockRecord
<1> QED
  BY <1>1, <1>2, <1>3, <1>4, <1>5, <1>6, <1>7, <1>8

(* The clock after a step of Clock::advance: forward it is at the next time and*)
(* remembers this step and the one before, and a repeating clock stays within  *)
(* its period.                                                                 *)
LEMMA SteppedFacts ==
  ASSUME NEW c \in ClockRecord, NEW step \in Int, NEW d, d = Stepped(c, step)
  PROVE  /\ d \in ClockRecord
         /\ d.timeStep = c.timeStep /\ d.repeatDuration = c.repeatDuration
         /\ d.direction = c.direction /\ d.userChangedDirection = c.userChangedDirection
         /\ c.repeatDuration # 0 /\ c.currTime \in 0 .. c.repeatDuration - 1 =>
              d.currTime \in 0 .. c.repeatDuration - 1
         /\ c.direction = "forward" =>
              d.currAdvanceTimeStep = step /\ d.prevAdvanceTimeStep = c.currAdvanceTimeStep
         /\ c.direction = "reverse" =>
              /\ d.currAdvanceTimeStep = c.currAdvanceTimeStep
              /\ d.prevAdvanceTimeStep = c.prevAdvanceTimeStep
         /\ c.direction = "forward" /\ ~ Refused(c, step) =>
              d.prevTime = c.currTime /\ d.currTime = NextTime(c, step)
         /\ c.direction = "forward" /\ c.repeatDuration = 0 =>
              d.advanceCount = c.advanceCount + 1
<1>0. /\ c.currTime \in Int /\ c.prevTime \in Int /\ c.advanceCount \in Int /\ c.timeStep \in Int
      /\ c.currAdvanceTimeStep \in Int /\ c.repeatDuration \in Nat /\ c.repeatCount \in Int
      /\ c.direction \in {"forward", "reverse"}
  BY DEF ClockRecord, Directions
<1>1. CASE c.direction = "reverse" /\ c.repeatDuration # 0
  BY <1>1 DEF Stepped
<1>2. CASE c.direction = "reverse" /\ c.repeatDuration = 0
  <2>1. PICK t \in Int, p \in Int, n \in Int :
          t = c.currTime - step /\ p = c.prevTime - c.timeStep /\ n = c.advanceCount - 1
    BY <1>0
  <2>2. PICK k : k = [c EXCEPT !.currTime = t]
    OBVIOUS
  <2>3. k \in ClockRecord
    BY <2>2, SetClock
  <2>4. PICK l : l = [k EXCEPT !.prevTime = p]
    OBVIOUS
  <2>5. l \in ClockRecord
    BY <2>3, <2>4, SetClock
  <2>6. d = [l EXCEPT !.advanceCount = n]
    BY <1>2, <2>1, <2>2, <2>4 DEF Stepped, SteppedBack
  <2>7. d \in ClockRecord
    BY <2>5, <2>6, SetClock
  <2> QED
    BY <1>2, <2>2, <2>4, <2>6, <2>7 DEF ClockRecord
<1>3. CASE c.direction = "forward"
  <2>1. PICK k : k = [c EXCEPT !.prevTime = c.currTime]
    OBVIOUS
  <2>2. k \in ClockRecord
    BY <1>0, <2>1, SetClock
  <2>3. PICK l : l = [k EXCEPT !.prevAdvanceTimeStep = c.currAdvanceTimeStep]
    OBVIOUS
  <2>4. l \in ClockRecord
    BY <1>0, <2>2, <2>3, SetClock
  <2>5. PICK m : m = [l EXCEPT !.currAdvanceTimeStep = step]
    OBVIOUS
  <2>6. m \in ClockRecord
    BY <2>4, <2>5, SetClock
  <2>7. /\ m.timeStep = c.timeStep /\ m.repeatDuration = c.repeatDuration
        /\ m.direction = c.direction /\ m.userChangedDirection = c.userChangedDirection
        /\ m.currAdvanceTimeStep = step /\ m.prevAdvanceTimeStep = c.currAdvanceTimeStep
        /\ m.prevTime = c.currTime /\ m.currTime = c.currTime
        /\ m.advanceCount = c.advanceCount /\ m.repeatCount = c.repeatCount
    BY <2>1, <2>3, <2>5 DEF ClockRecord
  <2>8. m = [c EXCEPT !.prevTime = c.currTime, !.prevAdvanceTimeStep = c.currAdvanceTimeStep,
                      !.currAdvanceTimeStep = step]
    BY <2>1, <2>3, <2>5
  <2>9. PICK n \in Int : n = c.advanceCount + 1
    BY <1>0
  <2>10. CASE c.repeatDuration = 0
    <3>1. PICK t \in Int : t = c.currTime + step
      BY <1>0
    <3>2. PICK o : o = [m EXCEPT !.currTime = t]
      OBVIOUS
    <3>3. o \in ClockRecord
      BY <2>6, <3>2, SetClock
    <3>4. d = [o EXCEPT !.advanceCount = n]
      BY <1>3, <2>7, <2>8, <2>9, <2>10, <3>1, <3>2 DEF Stepped, SteppedForward
    <3>5. d \in ClockRecord
      BY <3>3, <3>4, SetClock
    <3>6. /\ d.timeStep = m.timeStep /\ d.repeatDuration = m.repeatDuration
          /\ d.direction = m.direction /\ d.userChangedDirection = m.userChangedDirection
          /\ d.currAdvanceTimeStep = m.currAdvanceTimeStep
          /\ d.prevAdvanceTimeStep = m.prevAdvanceTimeStep
          /\ d.prevTime = m.prevTime /\ d.currTime = t /\ d.advanceCount = n
      BY <2>6, <3>2, <3>3, <3>4 DEF ClockRecord
    <3> QED
      BY <1>3, <2>7, <2>9, <2>10, <3>1, <3>5, <3>6 DEF NextTime
  <2>11. CASE c.repeatDuration # 0 /\ step <= 0
    <3>1. d = m
      BY <1>3, <2>8, <2>11 DEF Stepped, SteppedForward
    <3> QED
      BY <1>3, <2>6, <2>7, <2>11, <3>1 DEF Refused
  <2>12. CASE c.repeatDuration # 0 /\ ~ (step <= 0)
    <3>1. PICK t \in Int, r \in Int : /\ t = (c.currTime + step) % c.repeatDuration
                                      /\ r = c.repeatCount + (c.currTime + step) \div c.repeatDuration
                                      /\ t \in 0 .. c.repeatDuration - 1
      BY <1>0, <2>12
    <3>2. PICK o : o = [m EXCEPT !.currTime = t]
      OBVIOUS
    <3>3. o \in ClockRecord
      BY <2>6, <3>2, SetClock
    <3>4. PICK q : q = [o EXCEPT !.repeatCount = r]
      OBVIOUS
    <3>5. q \in ClockRecord
      BY <3>3, <3>4, SetClock
    <3>6. d = [q EXCEPT !.advanceCount = n]
      BY <1>3, <2>7, <2>8, <2>9, <2>12, <3>1, <3>2, <3>4 DEF Stepped, SteppedForward
    <3>7. d \in ClockRecord
      BY <3>5, <3>6, SetClock
    <3>8. /\ d.timeStep = m.timeStep /\ d.repeatDuration = m.repeatDuration
          /\ d.direction = m.direction /\ d.userChangedDirection = m.userChangedDirection
          /\ d.currAdvanceTimeStep = m.currAdvanceTimeStep
          /\ d.prevAdvanceTimeStep = m.prevAdvanceTimeStep
          /\ d.prevTime = m.prevTime /\ d.currTime = t
      BY <2>6, <3>2, <3>4, <3>6 DEF ClockRecord
    <3> QED
      BY <1>3, <2>7, <2>12, <3>1, <3>7, <3>8 DEF NextTime
  <2> QED
    BY <2>10, <2>11, <2>12
<1> QED
  BY <1>0, <1>1, <1>2, <1>3

(* The clock as an alarm sees it differs in userChangedDirection alone. *)
LEMMA SeenFacts ==
  ASSUME NEW c \in ClockRecord, NEW a, NEW d, d = Seen(c, a)
  PROVE  /\ d \in ClockRecord
         /\ d.timeStep = c.timeStep /\ d.repeatDuration = c.repeatDuration
         /\ d.direction = c.direction /\ d.advanceCount = c.advanceCount
         /\ d.currTime = c.currTime /\ d.prevTime = c.prevTime
         /\ d.currAdvanceTimeStep = c.currAdvanceTimeStep
         /\ d.prevAdvanceTimeStep = c.prevAdvanceTimeStep
         /\ ~ c.userChangedDirection => ~ d.userChangedDirection
<1>1. PICK u \in BOOLEAN : u = (c.userChangedDirection /\ a \notin Untold(c))
  BY DEF ClockRecord
<1>2. d = [c EXCEPT !.userChangedDirection = u]
  BY <1>1 DEF Seen
<1>3. d \in ClockRecord
  BY <1>2, SetClock
<1> QED
  BY <1>1, <1>2, <1>3 DEF ClockRecord

(* Steps that do not go against the clock's own do not change sign. *)
LEMMA SignStays ==
  ASSUME NEW c \in ClockRecord, ~ OppositeSigns(c.currAdvanceTimeStep, c.timeStep),
         ~ OppositeSigns(c.prevAdvanceTimeStep, c.timeStep)
  PROVE  ~ SignChanged(c)
BY DEF ClockRecord, OppositeSigns, SignChanged

(* Clock::advance checks every alarm of its list, unless the check of one does *)
(* not end.                                                                    *)
AllChecked(all, c) ==
  /\ \E u \in BOOLEAN : /\ all.clock = [c EXCEPT !.userChangedDirection = u]
                        /\ u => c.userChangedDirection
  /\ all.alarm = [a \in Created |-> IF a \in Checked(c) THEN CheckRingTime(alarm[a], Seen(c, a))
                                                        ELSE alarm[a]]
  /\ all.endless \in BOOLEAN
  /\ ~ all.endless => /\ Checked(c) = OnClock
                      /\ \A a \in OnClock : ~ Endless(alarm[a], Seen(c, a))

LEMMA CheckAllFacts ==
  ASSUME NEW c \in ClockRecord, NEW all, all = CheckAll(c)
  PROVE  AllChecked(all, c)
<1>1. PICK u \in BOOLEAN : u = (/\ c.userChangedDirection
                                /\ \A a \in Checked(c) : ~ ResetsChangedDirection(alarm[a], c))
  BY DEF ClockRecord
<1>2. all.clock = [c EXCEPT !.userChangedDirection = u]
  BY <1>1 DEF CheckAll
<1>3. ~ all.endless => /\ Checked(c) = OnClock
                       /\ \A a \in OnClock : ~ Endless(alarm[a], Seen(c, a))
  <2>1. ~ all.endless => Stuck(c) = {}
    BY DEF CheckAll
  <2> QED
    BY <2>1 DEF Checked, Stuck
<1> QED
  BY <1>1, <1>2, <1>3 DEF CheckAll, AllChecked

(* What checkRingTime sees at a step forward: the time willRingNext foretold,  *)
(* no change of direction or sign, and a loop over ring times that ends.       *)
LEMMA CheckedForward ==
  ASSUME ClockInv, StepForward, ~ clock.userChangedDirection, NEW a \in Scheduled \ touched'
  PROVE  \E s \in ClockRecord :
           /\ alarm'[a] = CheckRingTime(alarm[a], s) /\ ~ Endless(alarm[a], s)
           /\ s.currAdvanceTimeStep \in program.steps \cup {clock.timeStep}
           /\ s.currAdvanceTimeStep = clock'.currAdvanceTimeStep
           /\ ~ OppositeSigns(s.currAdvanceTimeStep, clock.timeStep)
           /\ s.prevTime = clock.currTime /\ s.currTime = clock'.currTime
           /\ s.currTime = NextTime(clock, clock'.currAdvanceTimeStep)
           /\ s.repeatDuration = clock.repeatDuration
           /\ s.direction = "forward" /\ ~ s.userChangedDirection
           /\ s.advanceCount # 0 /\ ~ SignChanged(s)
<1>1. PICK step \in program.steps \cup {clock.timeStep} : Advance(step) /\ ~ Refused(clock, step)
  BY DEF StepForward
<1>2. PICK c : c = Stepped(clock, step)
  OBVIOUS
<1>3. PICK all : all = CheckAll(c)
  OBVIOUS
<1>4. /\ clock \in ClockRecord /\ step \in Int /\ clock.direction = "forward"
      /\ a \in OnClock /\ a \in Created /\ a \in Alarms /\ a \notin touched
  BY <1>1 DEF ClockInv, Typed, TypeOK, StepForward, Scheduled, ClockRecord
<1>5. /\ c \in ClockRecord
      /\ c.timeStep = clock.timeStep /\ c.repeatDuration = clock.repeatDuration
      /\ c.direction = "forward" /\ ~ c.userChangedDirection
      /\ c.currAdvanceTimeStep = step /\ c.prevAdvanceTimeStep = clock.currAdvanceTimeStep
      /\ c.prevTime = clock.currTime /\ c.currTime = NextTime(clock, step)
  BY <1>1, <1>2, <1>4, SteppedFacts
<1>6. /\ clock' = all.clock /\ alarm' = all.alarm /\ returned' = ~ all.endless
      /\ OppositeSigns(step, clock.timeStep) => a \in touched'
  BY <1>1, <1>2, <1>3, <1>4 DEF Advance
<1>7. /\ \E u \in BOOLEAN : all.clock = [c EXCEPT !.userChangedDirection = u]
      /\ all.alarm = [b \in Created |-> IF b \in Checked(c) THEN CheckRingTime(alarm[b], Seen(c, b))
                                                            ELSE alarm[b]]
      /\ ~ all.endless => /\ Checked(c) = OnClock
                          /\ \A b \in OnClock : ~ Endless(alarm[b], Seen(c, b))
  <2>1. AllChecked(all, c)
    BY <1>3, <1>5, CheckAllFacts
  <2> QED
    BY <2>1 DEF AllChecked
<1>8. alarm'[a] = CheckRingTime(alarm[a], Seen(c, a)) /\ ~ Endless(alarm[a], Seen(c, a))
  BY <1>4, <1>6, <1>7 DEF StepForward
<1>9. clock'.currAdvanceTimeStep = step /\ c.advanceCount # 0 /\ clock'.currTime = c.currTime
  BY <1>5, <1>6, <1>7 DEF ClockRecord, StepForward
<1>10. ~ OppositeSigns(c.currAdvanceTimeStep, c.timeStep) /\ ~ OppositeSigns(c.prevAdvanceTimeStep, c.timeStep)
  BY <1>4, <1>5, <1>6 DEF ClockInv, OneWay
<1>11. PICK s : s = Seen(c, a)
  OBVIOUS
<1>12. /\ s \in ClockRecord /\ s.timeStep = c.timeStep /\ s.repeatDuration = c.repeatDuration
       /\ s.direction = c.direction /\ s.advanceCount = c.advanceCount
       /\ s.currTime = c.currTime /\ s.prevTime = c.prevTime
       /\ s.currAdvanceTimeStep = c.currAdvanceTimeStep
       /\ s.prevAdvanceTimeStep = c.prevAdvanceTimeStep /\ ~ s.userChangedDirection
  BY <1>5, <1>11, SeenFacts
<1>13. ~ SignChanged(s)
  BY <1>10, <1>12, SignStays
<1> QED
  BY <1>1, <1>5, <1>8, <1>9, <1>10, <1>11, <1>12, <1>13

(* A spaced alarm does not ring twice within one step of its clock. *)
LEMMA SpacedSteps ==
  ASSUME Typed, NEW a \in DOMAIN kind, kind[a].ringInterval > 0, Spaced(a),
         NEW step \in program.steps \cup {clock.timeStep}, step >= 0
  PROVE  step <= kind[a].ringInterval
<1>1. /\ kind[a].ringInterval \in Nat /\ kind[a].ringTimeStepCount \in Int
      /\ kind[a].ringDuration \in Int /\ step \in Nat
  BY DEF Typed, KindRecord, ClockRecord
<1>2. Magnitude(step) = step /\ Magnitude(kind[a].ringInterval) = kind[a].ringInterval
  BY <1>1 DEF Magnitude
<1>3. kind[a].ringTimeStepCount >= 1 /\ kind[a].ringInterval >= RingLength(a, step) + step
  BY <1>1, <1>2 DEF Spaced, Steps
<1>4. RingLength(a, step) \in Nat
  <2>1. kind[a].ringTimeStepCount \in Nat
    BY <1>1, <1>3
  <2>2. kind[a].ringTimeStepCount * step \in Nat
    BY <1>1, <2>1, Products
  <2>3. Magnitude(kind[a].ringDuration) \in Nat
    BY <1>1 DEF Magnitude
  <2> QED
    BY <2>2, <2>3 DEF RingLength
<1> QED
  BY <1>1, <1>3, <1>4

(* An alarm that is at any of its ring times is on its schedule. *)
LEMMA AnyRound ==
  ASSUME NEW b \in AlarmRecord, b.ringInterval >= 0, NEW now, NEW spaced \in BOOLEAN,
         NEW n \in Nat, AtRound(b, now, spaced, n)
  PROVE  \E m \in 0 .. Magnitude(b.ringTime - b.firstRingTime) :
            /\ b.ringTime = b.firstRingTime + m * b.ringInterval
            /\ AtRound(b, now, spaced, m)
<1>1. /\ b.firstRingTime \in Int /\ b.ringTime \in Int /\ b.ringInterval \in Nat
      /\ b.ringTime = b.firstRingTime + n * b.ringInterval
  BY DEF AlarmRecord, AtRound
<1>2. PICK m \in 0 .. Magnitude(b.ringTime - b.firstRingTime) :
        b.ringTime = b.firstRingTime + m * b.ringInterval /\ m <= n
  BY <1>1, OrdinalsComplete
<1>3. m > 0 => n > 0
  BY <1>1, <1>2 DEF Magnitude
<1>4. AtRound(b, now, spaced, m)
  BY <1>2, <1>3 DEF AtRound
<1> QED
  BY <1>2, <1>4

(* ... and stays on it at a step after which it is at one of them. *)
LEMMA StillOnSchedule ==
  ASSUME UNCHANGED program, clock'.timeStep = clock.timeStep, NEW a,
         alarm'[a] \in AlarmRecord, kind[a].ringInterval >= 0,
         alarm'[a].ringInterval = kind[a].ringInterval, alarm'[a].stopTime = kind[a].stopTime,
         NEW n \in Nat, AtRound(alarm'[a], clock'.currTime, Spaced(a), n)
  PROVE  OnSchedule(a)'
<1>1. kind' = kind /\ (Spaced(a))' = Spaced(a)
  BY DEF kind, Spaced, RingLength, Steps
<1>2. PICK spaced \in BOOLEAN : spaced = Spaced(a)
  BY DEF Spaced
<1>3. PICK b : b = alarm'[a]
  OBVIOUS
<1>4. PICK m \in 0 .. Magnitude(b.ringTime - b.firstRingTime) :
        /\ b.ringTime = b.firstRingTime + m * b.ringInterval
        /\ AtRound(b, clock'.currTime, spaced, m)
  BY <1>2, <1>3, AnyRound
<1>5. m \in Ordinals(a, b.ringTime)'
  BY <1>1, <1>3, <1>4 DEF Ordinals
<1> QED
  BY <1>1, <1>2, <1>3, <1>4, <1>5 DEF OnSchedule

(* Clock::advance on a clock that was never turned leaves each alarm that no-  *)
(* body touched on its schedule.                                               *)
LEMMA StepOnSchedule ==
  ASSUME ClockInv, StepForward, Straight, NEW a \in Scheduled \ touched',
         kind[a].ringInterval >= 0
  PROVE  /\ alarm'[a].ringInterval = kind[a].ringInterval
         /\ alarm'[a].stopTime = kind[a].stopTime
         /\ alarm'[a].firstRingTime = alarm[a].firstRingTime
         /\ \E n \in Nat : AtRound(alarm'[a], clock'.currTime, Spaced(a), n)
<1>0. /\ alarm[a] \in AlarmRecord /\ kind[a] \in KindRecord /\ a \in DOMAIN kind
      /\ alarm[a].enabled /\ ~ alarm[a].userChangedRingTime
      /\ ~ clock.userChangedDirection /\ clock \in ClockRecord /\ clock.repeatDuration = 0
      /\ clock.timeStep > 0
  BY DEF ClockInv, TypeOK, Typed, AsCreated, Scheduled, Forth, Straight, Repeating
<1>1. PICK s \in ClockRecord :
         /\ alarm'[a] = CheckRingTime(alarm[a], s) /\ ~ Endless(alarm[a], s)
         /\ s.currAdvanceTimeStep \in program.steps \cup {clock.timeStep}
         /\ s.currAdvanceTimeStep = clock'.currAdvanceTimeStep
         /\ ~ OppositeSigns(s.currAdvanceTimeStep, clock.timeStep)
         /\ s.prevTime = clock.currTime /\ s.currTime = clock'.currTime
         /\ s.currTime = NextTime(clock, clock'.currAdvanceTimeStep)
         /\ s.repeatDuration = clock.repeatDuration
         /\ s.direction = "forward" /\ ~ s.userChangedDirection
         /\ s.advanceCount # 0 /\ ~ SignChanged(s)
  BY <1>0, CheckedForward
<1>2. PICK step \in Int : step = s.currAdvanceTimeStep
  BY DEF ClockRecord
<1>3. /\ step >= 0 /\ Positive(s) /\ s.currTime = s.prevTime + step
      /\ s.prevTime \in Int /\ s.currTime \in Int
  BY <1>0, <1>1, <1>2 DEF OppositeSigns, Positive, NextTime, ClockRecord
<1>4. /\ alarm'[a] = CheckForward(alarm[a], s) /\ ~ ForwardEndless(alarm[a], s)
  BY <1>0, <1>1 DEF CheckRingTime, Endless
<1>5. returned
  BY DEF StepForward, Advance
<1>6. /\ alarm[a].ringInterval = kind[a].ringInterval /\ alarm[a].stopTime = kind[a].stopTime
      /\ \E n \in Ordinals(a, alarm[a].ringTime) : AtRound(alarm[a], s.prevTime, Spaced(a), n)
  BY <1>1, <1>5 DEF ClockInv, Timely, OnSchedule, Scheduled
<1>7. PICK spaced \in BOOLEAN : spaced = Spaced(a)
  BY DEF Spaced
<1>8. PICK n \in Nat : AtRound(alarm[a], s.prevTime, spaced, n)
  BY <1>6, <1>7 DEF Ordinals
<1>9. alarm[a].ringInterval > 0 /\ spaced => s.currTime - s.prevTime <= alarm[a].ringInterval
  <2> SUFFICES ASSUME alarm[a].ringInterval > 0, spaced
               PROVE  s.currTime - s.prevTime <= alarm[a].ringInterval
    OBVIOUS
  <2>1. Typed /\ kind[a].ringInterval > 0 /\ Spaced(a)
    BY <1>6, <1>7 DEF ClockInv
  <2>2. step <= kind[a].ringInterval
    BY <1>0, <1>1, <1>2, <1>3, <2>1, SpacedSteps
  <2>3. kind[a].ringInterval \in Int
    BY <1>0 DEF KindRecord
  <2> QED
    BY <1>3, <1>6, <2>2, <2>3
<1>10. SameSchedule(alarm'[a], alarm[a]) /\ \E m \in Nat : AtRound(alarm'[a], s.currTime, spaced, m)
  BY <1>0, <1>1, <1>3, <1>4, <1>6, <1>8, <1>9, NextRound
<1> QED
  BY <1>1, <1>6, <1>7, <1>10 DEF SameSchedule

(* Clock::advance. *)
LEMMA AdvanceKeeps ==
  ASSUME ClockInv, NEW step \in program.steps \cup {clock.timeStep}, Advance(step)
  PROVE  ClockInv'
<1>1. PICK c : c = Stepped(clock, step)
  OBVIOUS
<1>2. PICK all : all = CheckAll(c)
  OBVIOUS
<1>0. /\ clock \in ClockRecord /\ step \in Int
      /\ UNCHANGED <<alarmList, program, turns, calls>>
      /\ OnClock' = OnClock /\ kind' = kind
  BY DEF ClockInv, Typed, ClockRecord, Advance, OnClock, kind
<1>3. /\ c \in ClockRecord
      /\ c.timeStep = clock.timeStep /\ c.repeatDuration = clock.repeatDuration
      /\ c.direction = clock.direction /\ c.userChangedDirection = clock.userChangedDirection
      /\ Repeating /\ clock.currTime \in 0 .. clock.repeatDuration - 1 =>
           c.currTime \in 0 .. clock.repeatDuration - 1
      /\ clock.direction = "forward" =>
           c.currAdvanceTimeStep = step /\ c.prevAdvanceTimeStep = clock.currAdvanceTimeStep
      /\ clock.direction = "reverse" =>
           /\ c.currAdvanceTimeStep = clock.currAdvanceTimeStep
           /\ c.prevAdvanceTimeStep = clock.prevAdvanceTimeStep
      /\ clock.direction = "forward" /\ clock.repeatDuration = 0 =>
           c.advanceCount = clock.advanceCount + 1
  <2>1. Repeating => clock.repeatDuration # 0
    BY DEF Repeating
  <2>. QED
    BY <1>0, <1>1, <2>1, SteppedFacts
<1>4. /\ \E u \in BOOLEAN : /\ all.clock = [c EXCEPT !.userChangedDirection = u]
                            /\ u => c.userChangedDirection
      /\ all.alarm = [a \in Created |-> IF a \in Checked(c) THEN CheckRingTime(alarm[a], Seen(c, a))
                                                            ELSE alarm[a]]
      /\ all.endless \in BOOLEAN
      /\ ~ all.endless => /\ Checked(c) = OnClock
                          /\ \A a \in OnClock : ~ Endless(alarm[a], Seen(c, a))
  <2>1. AllChecked(all, c)
    BY <1>2, <1>3, CheckAllFacts
  <2> QED
    BY <2>1 DEF AllChecked
<1>5. IF Refused(clock, step) THEN clock' = c /\ UNCHANGED <<alarm, returned, rang>>
      ELSE /\ clock' = all.clock /\ alarm' = all.alarm /\ returned' = ~ all.endless
           /\ rang' = IF c.direction = "reverse" THEN rang
                      ELSE Visit(c.currTime, RingingNow(all.alarm))
  BY <1>1, <1>2 DEF Advance
<1>6. /\ touched \subseteq touched'
      /\ OppositeSigns(step, clock.timeStep) => Alarms \subseteq touched'
      /\ \A a \in OnClock : clock.direction = "reverse" /\ alarm[a].sticky => a \in touched'
  BY DEF Advance
<1>7. /\ clock' \in ClockRecord
      /\ clock'.timeStep = clock.timeStep /\ clock'.repeatDuration = clock.repeatDuration
      /\ clock'.direction = clock.direction /\ clock'.currTime = c.currTime
      /\ clock'.currAdvanceTimeStep = c.currAdvanceTimeStep
      /\ clock'.prevAdvanceTimeStep = c.prevAdvanceTimeStep
      /\ clock'.advanceCount = c.advanceCount
      /\ clock'.userChangedDirection => clock.userChangedDirection
      /\ (Repeating)' = Repeating
  <2>1. PICK u \in BOOLEAN : \/ /\ clock' = [c EXCEPT !.userChangedDirection = u]
                                /\ u => c.userChangedDirection
                             \/ clock' = c
    BY <1>4, <1>5
  <2>2. clock' \in ClockRecord
    BY <1>3, <2>1, SetClock
  <2> QED
    BY <1>3, <2>1, <2>2 DEF ClockRecord, Repeating
<1>8. /\ Created' = Created
      /\ \A a \in Created : alarm'[a] = alarm[a] \/ alarm'[a] = CheckRingTime(alarm[a], Seen(c, a))
      /\ returned' \in BOOLEAN
  BY <1>4, <1>5 DEF Created, ClockInv, TypeOK
<1>9. Scheduled' \subseteq Scheduled
  BY <1>0, <1>6 DEF Scheduled
<1>10. \A a \in Created :
         /\ Seen(c, a) \in ClockRecord
         /\ alarm'[a] \in AlarmRecord /\ (alarm'[a].ringing => alarm'[a].enabled)
         /\ Lasting(alarm'[a], alarm[a])
         /\ ~ alarm[a].userChangedRingTime => ~ alarm'[a].userChangedRingTime
  <2> SUFFICES ASSUME NEW a \in Created
               PROVE  /\ Seen(c, a) \in ClockRecord
                      /\ alarm'[a] \in AlarmRecord /\ (alarm'[a].ringing => alarm'[a].enabled)
                      /\ Lasting(alarm'[a], alarm[a])
                      /\ ~ alarm[a].userChangedRingTime => ~ alarm'[a].userChangedRingTime
    OBVIOUS
  <2>1. alarm[a] \in AlarmRecord /\ (alarm[a].ringing => alarm[a].enabled)
    BY DEF ClockInv, TypeOK
  <2>2. Seen(c, a) \in ClockRecord
    BY <1>3, SeenFacts
  <2>3. CASE alarm'[a] = alarm[a]
    BY <2>1, <2>2, <2>3 DEF Lasting
  <2>4. CASE alarm'[a] = CheckRingTime(alarm[a], Seen(c, a))
    BY <2>1, <2>2, <2>4, CheckRingTimeFacts DEF Lasting
  <2> QED
    BY <1>8, <2>3, <2>4
<1>11. OneWay' /\ (\A a \in Alarms \ touched' : \A b : ~ SignChanged(Seen(c, b))
                                                      /\ ~ OppositeSigns(Seen(c, b).currAdvanceTimeStep, Seen(c, b).timeStep))
  <2> SUFFICES ASSUME Alarms \ touched' # {}
               PROVE  /\ ~ OppositeSigns(c.currAdvanceTimeStep, c.timeStep)
                      /\ ~ OppositeSigns(c.prevAdvanceTimeStep, c.timeStep)
    BY <1>3, <1>7, SeenFacts, SignStays DEF OneWay
  <2>1. /\ ~ OppositeSigns(step, clock.timeStep)
        /\ ~ OppositeSigns(clock.currAdvanceTimeStep, clock.timeStep)
        /\ ~ OppositeSigns(clock.prevAdvanceTimeStep, clock.timeStep)
    BY <1>6 DEF ClockInv, OneWay
  <2> QED
    BY <1>0, <1>3, <2>1 DEF ClockRecord, Directions
<1>12. TypeOK'
  <2>1. Repeating' => clock'.currTime \in 0 .. clock'.repeatDuration - 1
    BY <1>3, <1>7 DEF ClockInv, TypeOK
  <2> QED
    BY <1>0, <1>7, <1>8, <1>10, <2>1 DEF ClockInv, TypeOK
<1>13. Typed'
  <2>1. \A t \in DOMAIN rang' : rang'[t] \subseteq Created
    <3>1. CASE rang' = rang
      BY <3>1 DEF ClockInv, Typed
    <3>2. CASE rang' = Visit(c.currTime, RingingNow(all.alarm))
      <4>1. RingingNow(all.alarm) \subseteq Created
        BY DEF RingingNow, ClockInv, TypeOK
      <4> QED
        BY <3>2, <4>1 DEF Visit, ClockInv, Typed
    <3> QED
      BY <1>5, <3>1, <3>2
  <2> QED
    BY <1>0, <1>7, <1>8, <2>1 DEF ClockInv, Typed, kind
<1>14. AsCreated'
  <2> SUFFICES ASSUME NEW a \in Scheduled'
               PROVE  /\ alarm'[a].enabled /\ ~ alarm'[a].userChangedRingTime
                      /\ alarm'[a].sticky = kind[a].sticky
                      /\ alarm'[a].ringTimeStepCount = kind[a].ringTimeStepCount
                      /\ alarm'[a].ringDuration = kind[a].ringDuration
    BY <1>0 DEF AsCreated
  <2>1. a \in Scheduled /\ a \in Created /\ a \in Alarms \ touched'
    BY <1>9 DEF Scheduled, ClockInv, TypeOK
  <2>2. alarm'[a].ringDuration = alarm[a].ringDuration
    BY <1>8, <1>10, <1>11, <2>1, CheckRingTimeFacts DEF ClockInv, TypeOK
  <2> QED
    BY <1>10, <2>1, <2>2 DEF ClockInv, AsCreated, Lasting
<1>15. \A a \in Scheduled' :
         /\ a \in Created /\ a \in Scheduled
         /\ alarm[a] \in AlarmRecord /\ Seen(c, a) \in ClockRecord /\ ~ SignChanged(Seen(c, a))
         /\ ~ OppositeSigns(Seen(c, a).currAdvanceTimeStep, Seen(c, a).timeStep)
         /\ Seen(c, a).repeatDuration = clock.repeatDuration
         /\ Seen(c, a).direction = clock.direction
         /\ alarm[a].enabled /\ ~ alarm[a].userChangedRingTime
         /\ alarm[a].sticky = kind[a].sticky
         /\ alarm[a].ringTimeStepCount = kind[a].ringTimeStepCount
         /\ alarm[a].ringDuration = kind[a].ringDuration
         /\ ~ Repeating =>
              /\ kind[a].sticky /\ alarm[a].ringing => alarm[a].ringingOnCurrTimeStep
              /\ OneCount(a) =>
                    /\ alarm[a].timeStepRingingCount >= 0
                    /\ alarm[a].ringing => alarm[a].timeStepRingingCount >= 1
  <2> TAKE a \in Scheduled'
  <2>1. a \in Scheduled /\ a \in Created /\ a \in Alarms \ touched'
    BY <1>9 DEF Scheduled, ClockInv, TypeOK
  <2>2. /\ alarm[a] \in AlarmRecord /\ Seen(c, a) \in ClockRecord
        /\ Seen(c, a).repeatDuration = clock.repeatDuration
        /\ Seen(c, a).direction = clock.direction
    BY <1>3, <2>1, SeenFacts DEF ClockInv, TypeOK
  <2> QED
    BY <1>11, <2>1, <2>2 DEF ClockInv, AsCreated, Steady
<1>16. \A a \in Scheduled' : ~ Repeating /\ clock.direction = "forward"
            /\ alarm'[a] = CheckRingTime(alarm[a], Seen(c, a)) /\ (kind[a].sticky \/ OneCount(a)) =>
              (alarm'[a].ringing <=> alarm'[a].ringingOnCurrTimeStep)
  <2> SUFFICES ASSUME NEW a \in Scheduled', ~ Repeating, clock.direction = "forward",
                      alarm'[a] = CheckRingTime(alarm[a], Seen(c, a)), kind[a].sticky \/ OneCount(a)
               PROVE  alarm'[a].ringing <=> alarm'[a].ringingOnCurrTimeStep
    OBVIOUS
  <2>1. alarm'[a] = CheckForward(alarm[a], Seen(c, a))
    BY <1>15 DEF CheckRingTime, Repeating
  <2>2. PICK b : b = alarm'[a]
    OBVIOUS
  <2>3. CASE kind[a].sticky
    BY <1>15, <2>1, <2>3, CheckForwardFacts
  <2>4. CASE OneCount(a)
    BY <1>15, <2>1, <2>4, CheckForwardFacts DEF OneCount
  <2> QED
    BY <2>3, <2>4
<1>17. Steady'
  <2> SUFFICES ASSUME NEW a \in Scheduled', ~ Repeating
               PROVE  /\ kind[a].sticky /\ alarm'[a].ringing => alarm'[a].ringingOnCurrTimeStep
                      /\ OneCount(a) =>
                            /\ alarm'[a].timeStepRingingCount >= 0
                            /\ alarm'[a].ringing => alarm'[a].timeStepRingingCount >= 1
    BY <1>0, <1>7 DEF Steady, OneCount
  <2>1. CASE alarm'[a] = alarm[a]
    BY <1>15, <2>1
  <2>2. CASE alarm'[a] = CheckRingTime(alarm[a], Seen(c, a))
    <3>1. kind[a].sticky /\ alarm'[a].ringing => alarm'[a].ringingOnCurrTimeStep
      <4>1. kind[a].sticky => clock.direction = "forward"
        BY <1>0, <1>6, <1>15 DEF Scheduled, ClockRecord, Directions
      <4> QED
        BY <1>16, <2>2, <4>1
    <3>2. OneCount(a) =>
            /\ alarm'[a].timeStepRingingCount >= 0
            /\ alarm'[a].ringing => alarm'[a].timeStepRingingCount >= 1
      BY <1>15, <2>2, CheckRingTimeFacts DEF OneCount, Repeating
    <3> QED
      BY <3>1, <3>2
  <2> QED
    BY <1>8, <1>15, <2>1, <2>2
<1>18. Recorded'
  <2> SUFFICES ASSUME returned', ~ Repeating, clock.direction = "forward", NEW a \in Scheduled'
               PROVE  /\ clock'.currTime \in DOMAIN rang'
                      /\ kind[a].sticky \/ OneCount(a) =>
                           (alarm'[a].ringingOnCurrTimeStep <=> a \in rang'[clock'.currTime])
    BY <1>0, <1>7 DEF Recorded, OneCount
  <2>1. ~ Refused(clock, step)
    BY DEF Refused, Repeating
  <2>2. /\ alarm' = all.alarm /\ Checked(c) = OnClock
        /\ rang' = Visit(c.currTime, RingingNow(alarm'))
    BY <1>3, <1>4, <1>5, <2>1
  <2>3. alarm'[a] = CheckRingTime(alarm[a], Seen(c, a))
    BY <1>4, <1>15, <2>2 DEF Scheduled
  <2>4. alarm'[a].enabled /\ a \in OnClock
    BY <1>10, <1>15 DEF Lasting, Scheduled
  <2>5. clock'.currTime \in DOMAIN rang' /\ rang'[clock'.currTime] = RingingNow(alarm')
    BY <1>7, <2>2 DEF Visit
  <2> QED
    BY <1>16, <2>3, <2>4, <2>5 DEF RingingNow
<1>19. Forth'
  <2>1. turns' \in Nat /\ turns' = turns
    BY <1>0 DEF ClockInv, Forth
  <2>2. turns' = 0 => /\ clock'.direction = "forward" /\ ~ clock'.userChangedDirection
                      /\ ~ Repeating' => clock'.advanceCount >= 0
    BY <1>0, <1>3, <1>7, <2>1 DEF ClockInv, Forth, Repeating, ClockRecord
  <2> QED
    BY <2>1, <2>2 DEF Forth
<1>20. Timely'
  <2> SUFFICES ASSUME Straight', returned', NEW a \in Scheduled', kind[a].ringInterval >= 0
               PROVE  OnSchedule(a)'
    BY <1>0 DEF Timely
  <2>1. Straight
    BY <1>0, <1>7 DEF Straight
  <2>2. clock.direction = "forward" /\ clock.repeatDuration = 0 /\ clock.advanceCount >= 0
    BY <2>1 DEF ClockInv, Forth, Straight, Repeating
  <2>3. clock'.advanceCount # 0
    BY <1>0, <1>3, <1>7, <2>2 DEF ClockRecord
  <2>4. StepForward
    BY <2>2, <2>3 DEF StepForward, Refused
  <2>5. a \in Scheduled \ touched' /\ alarm'[a] \in AlarmRecord
    BY <1>9, <1>10, <1>15 DEF Scheduled
  <2>6. /\ alarm'[a].ringInterval = kind[a].ringInterval
        /\ alarm'[a].stopTime = kind[a].stopTime
        /\ \E n \in Nat : AtRound(alarm'[a], clock'.currTime, Spaced(a), n)
    BY <2>1, <2>4, <2>5, StepOnSchedule
  <2> QED
    BY <1>0, <1>7, <2>5, <2>6, StillOnSchedule
<1> QED
  BY <1>11, <1>12, <1>13, <1>14, <1>17, <1>18, <1>19, <1>20 DEF ClockInv

(* A call that touches nothing but alarms, after which each of them is as it   *)
(* was, is silent, or is no longer scheduled.                                  *)
LEMMA StandingKeeps ==
  ASSUME ClockInv, UNCHANGED <<clock, program, returned, rang, turns>>,
         alarmList' \in Seq(Alarms), OnClock' \subseteq OnClock, Created' = Created,
         touched \subseteq touched',
         \A a \in Created : alarm'[a] \in AlarmRecord /\ (alarm'[a].ringing => alarm'[a].enabled),
         \A a \in Scheduled' :
            /\ Lasting(alarm'[a], alarm[a]) /\ alarm'[a].ringDuration = alarm[a].ringDuration
            /\ alarm'[a].userChangedRingTime = alarm[a].userChangedRingTime
            /\ alarm'[a].ringingOnCurrTimeStep = alarm[a].ringingOnCurrTimeStep
            /\ \/ alarm'[a] = alarm[a]
               \/ ~ alarm'[a].ringing /\ alarm'[a].timeStepRingingCount = 0
            /\ clock.direction = "forward" => SameTimes(alarm'[a], alarm[a])
  PROVE  ClockInv'
<1>1. Scheduled' \subseteq Scheduled /\ kind' = kind /\ (Repeating)' = Repeating
  BY DEF Scheduled, kind, Repeating
<1>2. TypeOK'
  BY <1>1 DEF ClockInv, TypeOK
<1>3. Typed'
  BY <1>1 DEF ClockInv, Typed
<1>4. OneWay'
  BY DEF ClockInv, OneWay
<1>5. AsCreated'
  BY <1>1 DEF ClockInv, AsCreated, Lasting
<1>6. Steady'
  BY <1>1 DEF ClockInv, Steady, OneCount
<1>7. Recorded'
  BY <1>1 DEF ClockInv, Recorded, OneCount
<1>8. Forth'
  BY <1>1 DEF ClockInv, Forth
<1>9. Timely'
  <2> SUFFICES ASSUME Straight, returned, NEW a \in Scheduled', kind[a].ringInterval >= 0
               PROVE  OnSchedule(a)'
    BY <1>1 DEF Timely, Straight
  <2>1. a \in Scheduled /\ OnSchedule(a)
    BY <1>1 DEF ClockInv, Timely
  <2>2. SameTimes(alarm'[a], alarm[a]) /\ alarm'[a].sticky = alarm[a].sticky
    BY DEF ClockInv, Forth, Straight, Lasting
  <2>3. (Spaced(a))' = Spaced(a)
    BY <1>1 DEF Spaced, RingLength, Steps
  <2>4. PICK r : r = alarm[a].ringTime
    OBVIOUS
  <2>5. Ordinals(a, r)' = Ordinals(a, r) /\ alarm'[a].ringTime = r
    BY <1>1, <2>2, <2>4 DEF Ordinals, SameTimes, SameSchedule
  <2> QED
    BY <1>1, <2>1, <2>2, <2>3, <2>4, <2>5 DEF OnSchedule, AtRound, SameTimes, SameSchedule
<1> QED
  BY <1>2, <1>3, <1>4, <1>5, <1>6, <1>7, <1>8, <1>9 DEF ClockInv

(* A call that changes an alarm takes it off its schedule. *)
LEMMA ChangeKeeps ==
  ASSUME ClockInv, NEW a \in Created, NEW new, Change(a, new),
         new \in AlarmRecord, new.ringing => new.enabled
  PROVE  ClockInv'
<1>1. /\ UNCHANGED <<clock, program, returned, rang, alarmList, turns>>
      /\ touched' = touched \cup {a} /\ alarm' = [alarm EXCEPT ![a] = new]
  BY DEF Change
<1>2. OnClock' = OnClock /\ Created' = Created
  BY <1>1 DEF OnClock, Created
<1>3. \A b \in Created : alarm'[b] = IF b = a THEN new ELSE alarm[b]
  BY <1>1 DEF Created
<1>4. \A b \in Created : alarm'[b] \in AlarmRecord /\ (alarm'[b].ringing => alarm'[b].enabled)
  BY <1>3 DEF ClockInv, TypeOK
<1>5. \A b \in Scheduled' : alarm'[b] = alarm[b]
  BY <1>1, <1>2, <1>3 DEF Scheduled, ClockInv, TypeOK
<1>6. alarmList' \in Seq(Alarms)
  BY <1>1 DEF ClockInv, Typed
<1> QED
  BY <1>1, <1>2, <1>4, <1>5, <1>6, StandingKeeps DEF Lasting, SameTimes, SameSchedule

(* Alarm::ringerOn, enable, disable, set with a ring time, setToSticky, notSticky. *)
LEMMA ByHandKeeps ==
  ASSUME ClockInv, NEW a \in Created,
         \/ TurnRingerOn(a) \/ Enable(a) \/ Disable(a)
         \/ \E t \in RingTimes : SetRingTime(a, t)
         \/ \E s \in BOOLEAN : SetSticky(a, s)
  PROVE  ClockInv'
<1>1. alarm[a] \in AlarmRecord /\ (alarm[a].ringing => alarm[a].enabled)
  BY DEF ClockInv, TypeOK
<1>2. CASE TurnRingerOn(a)
  <2>1. PICK new : new = [alarm[a] EXCEPT !.ringing = TRUE]
    OBVIOUS
  <2>2. new \in AlarmRecord /\ new.enabled = alarm[a].enabled
    BY <1>1, <2>1 DEF AlarmRecord
  <2> QED
    BY <1>2, <2>1, <2>2, ChangeKeeps DEF TurnRingerOn
<1>3. CASE Enable(a)
  <2>1. PICK new : new = [alarm[a] EXCEPT !.enabled = TRUE]
    OBVIOUS
  <2>2. new \in AlarmRecord /\ new.enabled
    BY <1>1, <2>1 DEF AlarmRecord
  <2> QED
    BY <1>3, <2>1, <2>2, ChangeKeeps DEF Enable
<1>4. CASE Disable(a)
  <2>1. PICK new : new = [alarm[a] EXCEPT !.enabled = FALSE, !.ringing = FALSE]
    OBVIOUS
  <2>2. new \in AlarmRecord /\ ~ new.ringing
    BY <1>1, <2>1 DEF AlarmRecord
  <2> QED
    BY <1>4, <2>1, <2>2, ChangeKeeps DEF Disable
<1>5. ASSUME NEW t \in RingTimes, SetRingTime(a, t)
      PROVE  ClockInv'
  <2>1. PICK new : new = [alarm[a] EXCEPT !.ringTime = t, !.prevRingTime = t,
                                          !.userChangedRingTime = TRUE]
    OBVIOUS
  <2>2. t \in Int
    BY ProgramsAssumption
  <2>3. new \in AlarmRecord /\ new.ringing = alarm[a].ringing /\ new.enabled = alarm[a].enabled
    BY <1>1, <2>1, <2>2 DEF AlarmRecord
  <2> QED
    BY <1>1, <1>5, <2>1, <2>3, ChangeKeeps DEF SetRingTime
<1>6. ASSUME NEW s \in BOOLEAN, SetSticky(a, s)
      PROVE  ClockInv'
  <2>1. PICK new : new = [alarm[a] EXCEPT !.sticky = s]
    OBVIOUS
  <2>2. new \in AlarmRecord /\ new.ringing = alarm[a].ringing /\ new.enabled = alarm[a].enabled
    BY <1>1, <2>1 DEF AlarmRecord
  <2> QED
    BY <1>1, <1>6, <2>1, <2>2, ChangeKeeps DEF SetSticky
<1> QED
  BY <1>2, <1>3, <1>4, <1>5, <1>6

(* Alarm::ringerOff silences an alarm, which may stay on its schedule. *)
LEMMA TurnRingerOffKeeps ==
  ASSUME ClockInv, NEW a \in Created, TurnRingerOff(a)
  PROVE  ClockInv'
<1>1. PICK off : off = RingerOff(alarm[a], clock)
  OBVIOUS
<1>2. /\ UNCHANGED <<clock, program, returned, rang, alarmList, turns>>
      /\ touched \subseteq touched' /\ alarm' = [alarm EXCEPT ![a] = off]
  BY <1>1 DEF TurnRingerOff
<1>3. /\ off \in AlarmRecord /\ Lasting(off, alarm[a])
      /\ off.ringDuration = alarm[a].ringDuration
      /\ ~ off.ringing /\ off.timeStepRingingCount = 0
      /\ off.userChangedRingTime = alarm[a].userChangedRingTime
      /\ off.ringingOnCurrTimeStep = alarm[a].ringingOnCurrTimeStep
      /\ clock.direction = "forward" => SameTimes(off, alarm[a])
  BY <1>1, RingerOffFacts, TimesStay DEF ClockInv, TypeOK, Typed
<1>4. OnClock' = OnClock /\ Created' = Created
  BY <1>2 DEF OnClock, Created
<1>5. \A b \in Created : alarm'[b] = IF b = a THEN off ELSE alarm[b]
  BY <1>2 DEF Created
<1>6. \A b \in Created : alarm'[b] \in AlarmRecord /\ (alarm'[b].ringing => alarm'[b].enabled)
  BY <1>3, <1>5 DEF ClockInv, TypeOK
<1>7. alarmList' \in Seq(Alarms)
  BY <1>2 DEF ClockInv, Typed
<1>8. Scheduled' \subseteq Created
  BY <1>4 DEF Scheduled, ClockInv, TypeOK
<1> QED
  BY <1>2, <1>3, <1>4, <1>5, <1>6, <1>7, <1>8, StandingKeeps DEF Lasting, SameTimes, SameSchedule

(* Clock::removeAlarm moves the rest of the list to the left. *)
LEMMA AlarmDestroyKeeps ==
  ASSUME ClockInv, NEW a \in Created, AlarmDestroy(a)
  PROVE  ClockInv'
<1>1. /\ UNCHANGED <<clock, program, returned, rang, alarm, turns>>
      /\ touched \subseteq touched' /\ alarmList' = RemoveAt(alarmList, Position(a))
      /\ a \in OnClock
  BY DEF AlarmDestroy
<1>2. PICK i \in 1 .. Len(alarmList) : i = Position(a)
  BY <1>1 DEF Position, OnClock
<1>3. PICK l, r : l = SubSeq(alarmList, 1, i - 1) /\ r = SubSeq(alarmList, i + 1, Len(alarmList))
  OBVIOUS
<1>4. alarmList \in Seq(Alarms)
  BY DEF ClockInv, Typed
<1>5. /\ l \in Seq(Alarms) /\ \A k \in 1 .. Len(l) : l[k] \in OnClock
      /\ r \in Seq(Alarms) /\ \A k \in 1 .. Len(r) : r[k] \in OnClock
  BY <1>3, <1>4 DEF OnClock
<1>6. alarmList' = l \o r
  BY <1>1, <1>2, <1>3 DEF RemoveAt
<1>7. alarmList' \in Seq(Alarms) /\ \A k \in 1 .. Len(alarmList') : alarmList'[k] \in OnClock
  BY <1>5, <1>6
<1>8. OnClock' \subseteq OnClock /\ Created' = Created
  BY <1>1, <1>7 DEF OnClock, Created
<1> QED
  BY <1>1, <1>7, <1>8, StandingKeeps DEF Lasting, SameTimes, SameSchedule, ClockInv, TypeOK

(* Clock::set with a direction leaves a change of direction pending. *)
LEMMA SetDirectionKeeps ==
  ASSUME ClockInv, NEW d \in Directions, SetDirection(d)
  PROVE  ClockInv'
<1>1. PICK half : half = [clock EXCEPT !.direction = d]
  OBVIOUS
<1>2. clock \in ClockRecord
  BY DEF ClockInv, Typed
<1>3. half \in ClockRecord
  BY <1>1, <1>2, SetClock
<1>4. clock' = [half EXCEPT !.userChangedDirection = TRUE]
  BY <1>1 DEF SetDirection
<1>5. clock' \in ClockRecord
  BY <1>3, <1>4, SetClock
<1>6. /\ clock'.userChangedDirection /\ clock'.direction \in Directions
      /\ clock'.currTime = clock.currTime /\ clock'.timeStep = clock.timeStep
      /\ clock'.repeatDuration = clock.repeatDuration
      /\ clock'.currAdvanceTimeStep = clock.currAdvanceTimeStep
      /\ clock'.prevAdvanceTimeStep = clock.prevAdvanceTimeStep
  BY <1>1, <1>2, <1>4, <1>5 DEF ClockRecord
<1>7. /\ UNCHANGED <<alarmList, alarm, program, returned, rang, touched>>
      /\ Created' = Created /\ OnClock' = OnClock /\ kind' = kind
      /\ Scheduled' = Scheduled /\ (Repeating)' = Repeating
  BY <1>6 DEF SetDirection, Created, OnClock, kind, Scheduled, Repeating
<1>8. TypeOK'
  BY <1>6, <1>7 DEF ClockInv, TypeOK
<1>9. Typed'
  BY <1>5, <1>7 DEF ClockInv, Typed
<1>10. OneWay'
  BY <1>6, <1>7 DEF ClockInv, OneWay
<1>11. AsCreated' /\ Steady'
  BY <1>7 DEF ClockInv, AsCreated, Steady, OneCount
<1>12. Recorded'
  BY <1>6 DEF Recorded
<1>13. Forth' /\ Timely'
  <2>1. turns' \in Nat /\ turns' # 0
    BY DEF SetDirection, ClockInv, Forth
  <2> QED
    BY <2>1 DEF Forth, Timely, Straight
<1> QED
  BY <1>8, <1>9, <1>10, <1>11, <1>12, <1>13 DEF ClockInv

(* Clock::getNextTime counts rounds and changes nothing else. *)
LEMMA GetNextTimeKeeps ==
  ASSUME ClockInv, GetNextTime
  PROVE  ClockInv'
<1>1. clock \in ClockRecord
  BY DEF ClockInv, Typed
<1>2. PICK n \in Int :
         n = clock.repeatCount + (clock.currTime + clock.timeStep) \div clock.repeatDuration
  BY <1>1 DEF ClockRecord, GetNextTime, Repeating
<1>3. clock' = [clock EXCEPT !.repeatCount = n]
  BY <1>2 DEF GetNextTime
<1>4. clock' \in ClockRecord
  BY <1>1, <1>3, SetClock
<1>5. /\ clock'.direction = clock.direction
      /\ clock'.currTime = clock.currTime /\ clock'.timeStep = clock.timeStep
      /\ clock'.repeatDuration = clock.repeatDuration
      /\ clock'.currAdvanceTimeStep = clock.currAdvanceTimeStep
      /\ clock'.prevAdvanceTimeStep = clock.prevAdvanceTimeStep
  BY <1>1, <1>3 DEF ClockRecord
<1>6. /\ UNCHANGED <<alarmList, alarm, program, returned, rang, touched>>
      /\ Created' = Created /\ OnClock' = OnClock /\ kind' = kind
      /\ Scheduled' = Scheduled /\ (Repeating)' = Repeating /\ Repeating
  BY <1>5 DEF GetNextTime, Created, OnClock, kind, Scheduled, Repeating
<1>7. TypeOK'
  BY <1>5, <1>6 DEF ClockInv, TypeOK
<1>8. Typed'
  BY <1>4, <1>6 DEF ClockInv, Typed
<1>9. OneWay'
  BY <1>5, <1>6 DEF ClockInv, OneWay
<1>10. AsCreated' /\ Steady' /\ Recorded'
  BY <1>6 DEF ClockInv, AsCreated, Steady, Recorded
<1>11. Forth' /\ Timely'
  <2>1. turns' = turns /\ clock'.userChangedDirection = clock.userChangedDirection
    BY <1>1, <1>3 DEF GetNextTime, ClockRecord
  <2> QED
    BY <1>5, <1>6, <2>1 DEF ClockInv, Forth, Timely, Straight
<1> QED
  BY <1>7, <1>8, <1>9, <1>10, <1>11 DEF ClockInv

(* ESMCI_alarmCreate: the new alarm is checked at once, with the clock where it is. *)
LEMMA AlarmCreateKeeps ==
  ASSUME ClockInv, NEW a \in Alarms, AlarmCreate(a)
  PROVE  ClockInv'
<1>1. PICK new : new = NewAlarm(kind[a], clock.currTime)
  OBVIOUS
<1>2. PICK b : b = CheckRingTime(new, clock)
  OBVIOUS
<1>3. /\ UNCHANGED <<program, turns>> /\ a \in DOMAIN kind /\ a \notin Created
      /\ alarmList' = Append(alarmList, a)
      /\ alarm' = [e \in Created \cup {a} |-> IF e = a THEN b ELSE alarm[e]]
      /\ clock' = [clock EXCEPT !.userChangedDirection =
                       @ /\ ~ ResetsChangedDirection(new, clock)]
      /\ touched \subseteq touched'
      /\ clock.userChangedDirection /\ ResetsChangedDirection(new, clock) => OnClock \subseteq touched'
      /\ clock.direction = "reverse" => a \in touched'
      /\ AtOrPast(clock.timeStep > 0, clock.currTime, new.ringTime) => a \in touched'
      /\ returned
  BY <1>1, <1>2 DEF AlarmCreate
<1>4. rang' = IF clock.direction = "reverse" THEN rang
              ELSE Visit(clock.currTime,
                     (IF clock.currTime \in DOMAIN rang THEN rang[clock.currTime] ELSE {})
                     \cup {e \in {a} : alarm'[e].ringing})
  BY DEF AlarmCreate
<1>5. /\ clock \in ClockRecord /\ kind[a] \in KindRecord /\ alarmList \in Seq(Alarms)
      /\ OnClock \subseteq Created
  BY <1>3 DEF ClockInv, Typed, TypeOK
<1>6. /\ new \in AlarmRecord /\ new.enabled /\ ~ new.ringing /\ ~ new.ringingOnCurrTimeStep
      /\ ~ new.userChangedRingTime /\ new.timeStepRingingCount = 0
      /\ new.sticky = kind[a].sticky /\ new.ringTimeStepCount = kind[a].ringTimeStepCount
      /\ new.ringDuration = kind[a].ringDuration
      /\ new.ringInterval = kind[a].ringInterval /\ new.stopTime = kind[a].stopTime
      /\ new.ringTime = new.firstRingTime
  <2>1. clock.currTime \in Int
    BY <1>5 DEF ClockRecord
  <2> QED
    BY <1>1, <1>5, <2>1, NewAlarmFacts
<1>7. PICK u \in BOOLEAN : /\ clock' = [clock EXCEPT !.userChangedDirection = u]
                           /\ u = (/\ clock.userChangedDirection
                                   /\ ~ ResetsChangedDirection(new, clock))
  BY <1>3, <1>5 DEF ClockRecord
<1>8. clock' \in ClockRecord
  BY <1>5, <1>7, SetClock
<1>9. /\ clock'.direction = clock.direction /\ clock'.userChangedDirection = u
      /\ clock'.currTime = clock.currTime /\ clock'.timeStep = clock.timeStep
      /\ clock'.repeatDuration = clock.repeatDuration
      /\ clock'.currAdvanceTimeStep = clock.currAdvanceTimeStep
      /\ clock'.prevAdvanceTimeStep = clock.prevAdvanceTimeStep
      /\ (Repeating)' = Repeating /\ clock'.advanceCount = clock.advanceCount
  BY <1>5, <1>7 DEF ClockRecord, Repeating
<1>10. /\ Created' = Created \cup {a} /\ kind' = kind
       /\ \A e \in Created : alarm'[e] = alarm[e]
       /\ alarm'[a] = b
  BY <1>3 DEF Created, kind
<1>11. alarmList' \in Seq(Alarms) /\ OnClock' = OnClock \cup {a}
  <2>1. alarmList' \in Seq(Alarms)
    BY <1>3, <1>5
  <2>2. /\ Len(alarmList') = Len(alarmList) + 1 /\ alarmList'[Len(alarmList) + 1] = a
        /\ \A i \in 1 .. Len(alarmList) : alarmList'[i] = alarmList[i]
        /\ Len(alarmList) \in Nat
    BY <1>3, <1>5
  <2>3. 1 .. Len(alarmList') = 1 .. Len(alarmList) \cup {Len(alarmList) + 1}
    BY <2>2
  <2> QED
    BY <2>1, <2>2, <2>3 DEF OnClock
<1>12. Scheduled' \subseteq Scheduled \cup {a} /\ a \notin Scheduled /\ Scheduled \subseteq Created
  BY <1>3, <1>5, <1>11 DEF Scheduled
<1>13. /\ b \in AlarmRecord /\ Lasting(b, new) /\ (b.ringing => b.enabled)
       /\ ~ b.userChangedRingTime
       /\ ~ SignChanged(clock) => b.ringDuration = new.ringDuration
  BY <1>2, <1>5, <1>6, CheckRingTimeFacts
<1>14. a \notin touched' => /\ ~ SignChanged(clock) /\ clock.direction = "forward"
                           /\ ~ OppositeSigns(clock.currAdvanceTimeStep, clock.timeStep)
  BY <1>3, <1>5, SignStays DEF ClockInv, OneWay, ClockRecord, Directions
<1>15. TypeOK'
  <2>1. \A e \in Created' : alarm'[e] \in AlarmRecord /\ (alarm'[e].ringing => alarm'[e].enabled)
    BY <1>10, <1>13 DEF ClockInv, TypeOK
  <2>2. returned' \in BOOLEAN
    BY DEF AlarmCreate
  <2> QED
    BY <1>9, <1>10, <1>11, <2>1, <2>2 DEF ClockInv, TypeOK
<1>16. Typed'
  <2>1. \A t \in DOMAIN rang' : rang'[t] \subseteq Created'
    BY <1>4, <1>10 DEF ClockInv, Typed, Visit
  <2> QED
    BY <1>3, <1>8, <1>10, <1>11, <2>1 DEF ClockInv, Typed
<1>17. OneWay'
  BY <1>3, <1>9 DEF ClockInv, OneWay
<1>18. AsCreated'
  <2> SUFFICES ASSUME NEW e \in Scheduled'
               PROVE  /\ alarm'[e].enabled /\ ~ alarm'[e].userChangedRingTime
                      /\ alarm'[e].sticky = kind[e].sticky
                      /\ alarm'[e].ringTimeStepCount = kind[e].ringTimeStepCount
                      /\ alarm'[e].ringDuration = kind[e].ringDuration
    BY <1>10 DEF AsCreated
  <2>1. CASE e = a
    <3>1. ~ SignChanged(clock)
      BY <1>14, <2>1 DEF Scheduled
    <3> QED
      BY <1>6, <1>10, <1>13, <2>1, <3>1 DEF Lasting
  <2>2. CASE e # a
    <3>1. e \in Scheduled /\ alarm'[e] = alarm[e]
      BY <1>10, <1>12, <2>2
    <3> QED
      BY <3>1 DEF ClockInv, AsCreated
  <2> QED
    BY <2>1, <2>2
<1>19. a \notin touched' /\ ~ Repeating =>
          /\ kind[a].sticky \/ OneCount(a) => (b.ringing <=> b.ringingOnCurrTimeStep)
          /\ OneCount(a) =>
               /\ b.timeStepRingingCount >= 0
               /\ b.ringing => b.timeStepRingingCount >= 1
  <2> SUFFICES ASSUME a \notin touched', ~ Repeating
               PROVE  /\ kind[a].sticky \/ OneCount(a) => (b.ringing <=> b.ringingOnCurrTimeStep)
                      /\ OneCount(a) =>
                           /\ b.timeStepRingingCount >= 0
                           /\ b.ringing => b.timeStepRingingCount >= 1
    OBVIOUS
  <2>1. b = CheckForward(new, clock)
    BY <1>2, <1>14 DEF CheckRingTime, Repeating
  <2> QED
    BY <1>5, <1>6, <1>14, <2>1, CheckForwardFacts DEF OneCount
<1>20. Steady'
  BY <1>9, <1>10, <1>12, <1>19 DEF ClockInv, Steady, OneCount, Scheduled
<1>21. Recorded'
  <2> SUFFICES ASSUME ~ Repeating, clock.direction = "forward", ~ u, NEW e \in Scheduled'
               PROVE  /\ clock.currTime \in DOMAIN rang'
                      /\ kind[e].sticky \/ OneCount(e) =>
                           (alarm'[e].ringingOnCurrTimeStep <=> e \in rang'[clock.currTime])
    BY <1>9, <1>10 DEF Recorded, OneCount
  <2>1. /\ clock.currTime \in DOMAIN rang'
        /\ rang'[clock.currTime] =
             (IF clock.currTime \in DOMAIN rang THEN rang[clock.currTime] ELSE {})
             \cup {x \in {a} : alarm'[x].ringing}
    BY <1>4 DEF Visit
  <2>2. CASE e = a
    <3>1. a \notin touched'
      BY <2>2 DEF Scheduled
    <3>2. a \in rang'[clock.currTime] <=> b.ringing
      BY <1>3, <1>10, <2>1 DEF ClockInv, Typed
    <3> QED
      BY <1>10, <1>19, <2>1, <2>2, <3>1, <3>2
  <2>3. CASE e # a
    <3>1. e \in Scheduled /\ e \notin touched' /\ e \in OnClock
      BY <1>12, <2>3 DEF Scheduled
    <3>2. ~ clock.userChangedDirection
      BY <1>3, <1>7, <3>1
    <3>3. returned
      BY DEF AlarmCreate
    <3>4. /\ clock.currTime \in DOMAIN rang
          /\ kind[e].sticky \/ OneCount(e) =>
               (alarm[e].ringingOnCurrTimeStep <=> e \in rang[clock.currTime])
      BY <3>1, <3>2, <3>3 DEF ClockInv, Recorded
    <3>5. alarm'[e] = alarm[e]
      BY <1>10, <1>12, <3>1
    <3> QED
      BY <2>1, <2>3, <3>4, <3>5
  <2> QED
    BY <2>2, <2>3
<1>22. Forth'
  BY <1>3, <1>7, <1>9 DEF ClockInv, Forth
<1>23. Timely'
  <2> SUFFICES ASSUME Straight', NEW e \in Scheduled', kind[e].ringInterval >= 0
               PROVE  OnSchedule(e)'
    BY <1>10 DEF Timely
  <2>1. Straight /\ (Spaced(e))' = Spaced(e)
    BY <1>3, <1>9, <1>10 DEF Straight, Spaced, RingLength, Steps
  <2>2. CASE e = a
    <3>1. a \notin touched' /\ clock.timeStep > 0 /\ clock.repeatDuration = 0
          /\ ~ clock.userChangedDirection
      BY <2>1, <2>2 DEF Scheduled, Straight, Repeating, ClockInv, Forth
    <3>2. /\ ~ SignChanged(clock) /\ clock.direction = "forward" /\ Positive(clock)
          /\ clock.currTime < new.ringTime
      <4>1. ~ AtOrPast(TRUE, clock.currTime, new.ringTime)
        BY <1>3, <3>1
      <4>2. clock.currTime \in Int /\ new.ringTime \in Int /\ clock.timeStep \in Int
            /\ clock.currAdvanceTimeStep \in Int
        BY <1>5, <1>6 DEF ClockRecord, AlarmRecord
      <4>3. clock.currTime < new.ringTime
        BY <4>1, <4>2 DEF AtOrPast
      <4>4. /\ ~ SignChanged(clock) /\ clock.direction = "forward"
            /\ ~ OppositeSigns(clock.currAdvanceTimeStep, clock.timeStep)
        BY <1>14, <3>1
      <4> QED
        BY <3>1, <4>2, <4>3, <4>4 DEF OppositeSigns, Positive
    <3>3. b = CheckForward(new, clock)
      BY <1>2, <3>1, <3>2 DEF CheckRingTime
    <3>4. PICK spaced \in BOOLEAN : spaced = Spaced(a)
      BY DEF Spaced
    <3>5. SameSchedule(b, new) /\ AtRound(b, clock.currTime, spaced, 0)
      BY <1>5, <1>6, <2>2, <3>1, <3>2, <3>3, <3>4, FirstRound
    <3>6. /\ alarm'[a] \in AlarmRecord /\ kind[a].ringInterval >= 0
          /\ alarm'[a].ringInterval = kind[a].ringInterval /\ alarm'[a].stopTime = kind[a].stopTime
          /\ AtRound(alarm'[a], clock'.currTime, Spaced(a), 0)
      BY <1>6, <1>9, <1>10, <1>13, <2>2, <3>4, <3>5 DEF SameSchedule
    <3> QED
      BY <1>3, <1>9, <2>2, <3>6, StillOnSchedule
  <2>3. CASE e # a
    <3>1. e \in Scheduled /\ alarm'[e] = alarm[e]
      BY <1>10, <1>12, <2>3
    <3>2. OnSchedule(e)
      BY <1>3, <2>1, <3>1 DEF ClockInv, Timely
    <3>3. PICK r : r = alarm[e].ringTime
      OBVIOUS
    <3>4. Ordinals(e, r)' = Ordinals(e, r)
      BY <1>10, <3>1 DEF Ordinals
    <3> QED
      BY <1>9, <1>10, <2>1, <3>1, <3>2, <3>3, <3>4 DEF OnSchedule
  <2> QED
    BY <2>2, <2>3
<1> QED
  BY <1>15, <1>16, <1>17, <1>18, <1>20, <1>21, <1>22, <1>23 DEF ClockInv

(* The invariant holds of the new clock, which has no alarms. *)
LEMMA InitKeeps == Init => ClockInv
<1> SUFFICES ASSUME Init
             PROVE  ClockInv
  OBVIOUS
<1>1. PICK p \in Programs : /\ clock = NewClock(p)
                            /\ program \in [kind : p.kinds, steps : {p.steps}]
  BY DEF Init
<1>2. /\ alarmList = << >> /\ alarm = << >> /\ rang = << >>
      /\ returned = TRUE /\ touched = {}
  BY DEF Init
<1>3. DOMAIN alarm = {} /\ DOMAIN rang = {} /\ Len(alarmList) = 0 /\ alarmList \in Seq(Alarms)
  BY <1>2
<1>4. Created = {} /\ OnClock = {} /\ Scheduled = {}
  BY <1>3 DEF Created, OnClock, Scheduled
<1>5. /\ p.timeStep \in Int \ {0} /\ p.stopTime \in Int
      /\ p.repeatDuration \in Nat /\ p.steps \subseteq Int
      /\ \A k \in p.kinds :
            /\ DOMAIN k \subseteq Alarms
            /\ \A a \in DOMAIN k : k[a] \in KindRecord
  BY ProgramsAssumption DEF KindRecord
<1>6. clock \in ClockRecord
  BY <1>1, <1>5 DEF NewClock, ClockRecord, Directions
<1>7. kind \in p.kinds /\ program.steps = p.steps
  BY <1>1 DEF kind
<1>8. /\ clock.currTime = 0 /\ clock.direction = "forward"
      /\ clock.currAdvanceTimeStep = clock.timeStep /\ clock.prevAdvanceTimeStep = clock.timeStep
  BY <1>1 DEF NewClock
<1>9. TypeOK
  BY <1>2, <1>4, <1>6, <1>8 DEF TypeOK, ClockRecord, Repeating, Directions
<1>10. Typed
  BY <1>3, <1>4, <1>5, <1>6, <1>7 DEF Typed
<1>11. OneWay
  BY <1>6, <1>8 DEF OneWay, OppositeSigns, ClockRecord
<1>12. AsCreated /\ Steady /\ Recorded /\ Timely
  BY <1>4 DEF AsCreated, Steady, Recorded, Timely
<1>13. Forth
  BY <1>1 DEF Init, Forth, NewClock
<1> QED
  BY <1>9, <1>10, <1>11, <1>12, <1>13 DEF ClockInv

(* Every call on the clock and its alarms preserves the invariant: the alarms  *)
(* nobody touched are as they were created and have rung as the history says.  *)
THEOREM ClockInductive == ClockInv /\ [Next]_vars => ClockInv'
<1> SUFFICES ASSUME ClockInv, [Next]_vars
             PROVE  ClockInv'
  OBVIOUS
<1>1. ASSUME NEW step \in program.steps \cup {clock.timeStep}, Advance(step)
      PROVE  ClockInv'
  BY <1>1, AdvanceKeeps
<1>2. ASSUME NEW d \in Directions, SetDirection(d)
      PROVE  ClockInv'
  BY <1>2, SetDirectionKeeps
<1>3. CASE GetNextTime
  BY <1>3, GetNextTimeKeeps
<1>4. ASSUME NEW a \in Alarms, AlarmCreate(a)
      PROVE  ClockInv'
  BY <1>4, AlarmCreateKeeps
<1>5. ASSUME NEW a \in Created, AlarmDestroy(a)
      PROVE  ClockInv'
  BY <1>5, AlarmDestroyKeeps
<1>6. ASSUME NEW a \in Created, TurnRingerOff(a)
      PROVE  ClockInv'
  BY <1>6, TurnRingerOffKeeps
<1>7. ASSUME NEW a \in Created,
             \/ TurnRingerOn(a) \/ Enable(a) \/ Disable(a)
             \/ \E t \in RingTimes : SetRingTime(a, t)
             \/ \E s \in BOOLEAN : SetSticky(a, s)
      PROVE  ClockInv'
  BY <1>7, ByHandKeeps
<1>8. CASE UNCHANGED vars
  <2>1. OnClock' = OnClock /\ Created' = Created /\ Scheduled' = Scheduled /\ kind' = kind
        /\ (Repeating)' = Repeating /\ UNCHANGED <<clock, program, alarm, touched, turns, returned>>
    BY <1>8 DEF vars, Created, OnClock, Scheduled, kind, Repeating
  <2>2. (TypeOK /\ Typed /\ OneWay /\ AsCreated /\ Steady /\ Recorded /\ Forth)'
    BY <1>8, <2>1 DEF vars, ClockInv, TypeOK, Typed, OneWay, AsCreated, Steady, Recorded, OneCount, Forth
  <2>3. \A a : (OnSchedule(a))' = OnSchedule(a)
    BY <2>1 DEF OnSchedule, Ordinals, Spaced, RingLength, Steps
  <2>4. Timely'
    BY <2>1, <2>3 DEF ClockInv, Timely, Straight
  <2> QED
    BY <2>2, <2>4 DEF ClockInv
<1> QED
  BY <1>1, <1>2, <1>3, <1>4, <1>5, <1>6, <1>7, <1>8 DEF Next

(* The inductive invariant of Clock::advance, Clock::set and the calls on      *)
(* alarms holds throughout, for every program.                                 *)
THEOREM ClockInvariance == Spec => []ClockInv
BY InitKeeps, ClockInductive, PTL DEF Spec

(* Clock and alarms keep their types; an alarm that is disabled does not ring, *)
(* and a repeating clock stays within its period, whatever its steps.          *)
THEOREM ClockTypeCorrect == Spec => []TypeOK
<1>1. ClockInv => TypeOK
  BY DEF ClockInv
<1> QED
  BY <1>1, ClockInvariance, PTL

-----------------------------------------------------------------------------
(* willRingNext and checkRingTime ask the same question of a repeating clock:  *)
(* only the length of its period matters.                                      *)
LEMMA SameRings ==
  ASSUME NEW a, NEW c, NEW d, NEW prev, NEW curr, NEW step, c.repeatDuration = d.repeatDuration
  PROVE  RingsDueToStep(a, c, prev, curr, step) <=> RingsDueToStep(a, d, prev, curr, step)
<1>1. \A r : Passes(c, prev, curr, r) <=> Passes(d, prev, curr, r)
  BY DEF Passes
<1>2. \A n : RingAfter(a, c, n) = RingAfter(a, d, n) /\ Wraps(a, c, n) = Wraps(a, d, n)
  BY DEF RingAfter, Wraps
<1>3. RepeatHits(a, c, prev, curr) = RepeatHits(a, d, prev, curr)
  BY <1>1, <1>2 DEF RepeatHits, Rounds
<1>4. RepeatStops(a, c) = RepeatStops(a, d)
  BY <1>2 DEF RepeatStops, Rounds
<1> QED
  BY <1>1, <1>3, <1>4 DEF RingsDueToStep

(* Alarm::willRingNext is true of the step that Clock::advance then makes: what*)
(* it foretells rings, and what begins to ring was foretold.                   *)
LEMMA ForetoldTruly ==
  ASSUME ClockInv, StepForward, ~ clock.userChangedDirection, NEW a \in Scheduled \ touched'
  PROVE  Foretold(a)
<1>1. PICK s \in ClockRecord :
         /\ alarm'[a] = CheckRingTime(alarm[a], s)
         /\ s.currAdvanceTimeStep = clock'.currAdvanceTimeStep
         /\ s.prevTime = clock.currTime
         /\ s.currTime = NextTime(clock, clock'.currAdvanceTimeStep)
         /\ s.repeatDuration = clock.repeatDuration
         /\ s.direction = "forward" /\ ~ s.userChangedDirection
         /\ s.advanceCount # 0 /\ ~ SignChanged(s)
  BY CheckedForward
<1>2. /\ alarm[a] \in AlarmRecord /\ alarm[a].enabled /\ ~ alarm[a].userChangedRingTime
  BY DEF ClockInv, TypeOK, AsCreated, Scheduled
<1>3. PICK will \in BOOLEAN :
        will = WillRingNext(alarm[a], clock, s.currTime, s.currAdvanceTimeStep)
  BY <1>2 DEF WillRingNext, RingsDueToStep, Passes, AtOrPast, AlarmRecord
<1>4. CASE clock.repeatDuration = 0
  <2>1. alarm'[a] = CheckForward(alarm[a], s)
    BY <1>1, <1>4 DEF CheckRingTime
  <2>2. Crossed(alarm[a], s, Positive(s)) <=> will
    BY <1>1, <1>2, <1>3, <1>4 DEF Crossed, WillRingNext, Positive
  <2>3. /\ will => alarm'[a].ringing
        /\ ~ alarm[a].ringing /\ alarm'[a].ringing => will
    BY <1>1, <1>2, <2>1, <2>2, CheckForwardFacts
  <2> QED
    BY <1>1, <1>3, <2>3 DEF Foretold
<1>5. CASE clock.repeatDuration # 0
  <2>1. alarm'[a] = CheckRepeat(alarm[a], s)
    BY <1>1, <1>5 DEF CheckRingTime
  <2>2. LastStep(alarm[a], s) <=> will
    BY <1>1, <1>3, <1>5, SameRings DEF LastStep, WillRingNext
  <2>3. /\ will => alarm'[a].ringing
        /\ ~ alarm[a].ringing /\ alarm'[a].ringing => will
    BY <1>1, <1>2, <2>1, <2>2, CheckRepeatFacts
  <2> QED
    BY <1>1, <1>3, <2>3 DEF Foretold
<1> QED
  BY <1>4, <1>5

(* Alarm::wasPrevRinging is true of the step before, for an alarm that is sticky*)
(* or rings for one step of the clock.                                         *)
LEMMA RememberedTruly ==
  ASSUME ClockInv, StepForward, ~ clock.userChangedDirection, NEW a \in Scheduled \ touched',
         kind[a].sticky \/ OneCount(a)
  PROVE  Remembered(a)
<1> SUFFICES ASSUME ~ Repeating
             PROVE  alarm'[a].ringingOnPrevTimeStep <=> a \in rang[clock.currTime]
  BY DEF Remembered
<1>1. PICK s \in ClockRecord : /\ alarm'[a] = CheckRingTime(alarm[a], s)
                               /\ s.repeatDuration = clock.repeatDuration
                               /\ s.direction = "forward"
  BY CheckedForward
<1>2. alarm[a] \in AlarmRecord
  BY DEF ClockInv, TypeOK, Scheduled
<1>3. alarm'[a] = CheckForward(alarm[a], s)
  BY <1>1 DEF CheckRingTime, Repeating
<1>4. alarm'[a].ringingOnPrevTimeStep = alarm[a].ringingOnCurrTimeStep
  BY <1>2, <1>3, CheckForwardFacts
<1>5. returned /\ clock.direction = "forward"
  BY DEF StepForward, Advance
<1>6. alarm[a].ringingOnCurrTimeStep <=> a \in rang[clock.currTime]
  BY <1>5 DEF ClockInv, Recorded
<1> QED
  BY <1>4, <1>6

(* At every step forward with no change of direction pending, willRingNext had *)
(* foretold whether an alarm that nobody touched begins to ring, and           *)
(* wasPrevRinging says whether one that is sticky, or rings for one step, rang *)
(* after the step before.                                                      *)
THEOREM QueriesHold ==
  Spec => [][StepForward /\ ~ clock.userChangedDirection =>
               \A a \in Scheduled \ touched' :
                  /\ Foretold(a)
                  /\ kind[a].sticky \/ OneCount(a) => Remembered(a)]_vars
<1> DEFINE True == StepForward /\ ~ clock.userChangedDirection =>
                     \A a \in Scheduled \ touched' :
                        /\ Foretold(a)
                        /\ kind[a].sticky \/ OneCount(a) => Remembered(a)
<1>1. ClockInv => True
  BY ForetoldTruly, RememberedTruly
<1> QED
  BY <1>1, ClockInvariance, PTL

(* On a clock that was never turned, an alarm rings at each step that crosses  *)
(* one of its ring times and begins to ring at no other: the ring time that    *)
(* checkRingTime keeps is the next one that the clock will reach.              *)
LEMMA DueTruly ==
  ASSUME ClockInv, StepForward, Straight, NEW a \in Scheduled \ touched',
         kind[a].ringInterval >= 0
  PROVE  Punctual(a)
<1>0. /\ alarm[a] \in AlarmRecord /\ kind[a] \in KindRecord /\ a \in DOMAIN kind
      /\ alarm[a].enabled /\ ~ alarm[a].userChangedRingTime
      /\ alarm[a].sticky = kind[a].sticky
      /\ ~ clock.userChangedDirection /\ clock \in ClockRecord /\ clock.repeatDuration = 0
      /\ clock.timeStep > 0
  BY DEF ClockInv, TypeOK, Typed, AsCreated, Scheduled, Forth, Straight, Repeating
<1>1. PICK s \in ClockRecord :
         /\ alarm'[a] = CheckRingTime(alarm[a], s)
         /\ s.currAdvanceTimeStep = clock'.currAdvanceTimeStep
         /\ ~ OppositeSigns(s.currAdvanceTimeStep, clock.timeStep)
         /\ s.prevTime = clock.currTime /\ s.currTime = clock'.currTime
         /\ s.repeatDuration = clock.repeatDuration
         /\ s.direction = "forward" /\ ~ s.userChangedDirection
         /\ s.advanceCount # 0 /\ ~ SignChanged(s)
  BY <1>0, CheckedForward
<1>2. PICK p \in Int, t \in Int, r \in Int, first \in Int, i \in Nat :
        /\ p = clock.currTime /\ t = clock'.currTime /\ r = alarm[a].ringTime
        /\ first = alarm[a].firstRingTime /\ i = kind[a].ringInterval
  BY <1>0, <1>1 DEF ClockRecord, AlarmRecord, KindRecord
<1>3. alarm'[a] = CheckForward(alarm[a], s) /\ Positive(s)
  BY <1>0, <1>1 DEF CheckRingTime, OppositeSigns, Positive, ClockRecord
<1>4. /\ Crossed(alarm[a], s, Positive(s)) => alarm'[a].ringing
      /\ ~ alarm[a].ringing /\ alarm'[a].ringing => Crossed(alarm[a], s, Positive(s))
  BY <1>0, <1>1, <1>3, CheckForwardFacts
<1>5. Crossed(alarm[a], s, Positive(s)) <=> p < r /\ r <= t
  BY <1>1, <1>2, <1>3 DEF Crossed, AtOrPast
<1>6. CrossedTimes = p + 1 .. t
  BY <1>0, <1>2 DEF CrossedTimes
<1>7. ~ Repeating /\ returned
  BY DEF Straight, StepForward, Advance
<1>8. Due(a) <=> \E q \in p + 1 .. t : \E n \in Ordinals(a, q) :
                    n > 0 /\ kind[a].stopTime # Never => q < kind[a].stopTime
  <2>1. \A q \in Int : Past(clock.timeStep > 0, kind[a].stopTime, q) <=> q < kind[a].stopTime
    BY <1>0 DEF Past, KindRecord
  <2> QED
    BY <1>2, <1>6, <1>7, <2>1 DEF Due
<1>9. OnSchedule(a)
  BY <1>2, <1>7 DEF ClockInv, Timely, Scheduled
<1>10. PICK n \in Ordinals(a, r) : AtRound(alarm[a], p, Spaced(a), n)
  BY <1>2, <1>9 DEF OnSchedule
<1>11. /\ n \in Nat /\ r = first + n * i
       /\ n > 0 /\ kind[a].stopTime # Never => r < kind[a].stopTime
       /\ i > 0 /\ kind[a].stopTime = Never /\ (kind[a].sticky \/ Spaced(a))
          => p < r /\ (n > 0 => r - i <= p)
  BY <1>0, <1>2, <1>9, <1>10 DEF AtRound, OnSchedule, Ordinals
<1>12. ASSUME ~ alarm[a].ringing, alarm'[a].ringing
       PROVE  Due(a)
  <2>1. r \in p + 1 .. t
    BY <1>2, <1>4, <1>5, <1>12
  <2> QED
    BY <1>8, <1>10, <1>11, <2>1
<1>13. ASSUME Due(a), kind[a].stopTime = Never, kind[a].sticky \/ Spaced(a)
       PROVE  alarm'[a].ringing
  <2>1. PICK q \in p + 1 .. t : \E m \in Ordinals(a, q) : TRUE
    BY <1>8, <1>13
  <2>2. PICK m \in Nat : q = first + m * i
    BY <1>2, <2>1 DEF Ordinals
  <2>3. CASE i = 0
    <3>1. n * i = 0 /\ m * i = 0
      BY <2>3, <1>11
    <3> QED
      BY <1>2, <1>4, <1>5, <1>11, <2>1, <2>2, <3>1
  <2>4. CASE i > 0
    <3>1. p < r /\ (n > 0 => r - i <= p)
      BY <1>11, <1>13, <2>4
    <3>2. n <= m
      <4> SUFFICES ASSUME m < n
                   PROVE  FALSE
        BY <1>11
      <4>1. PICK j \in Nat : n = j + 1 /\ m <= j
        <5>1. n - 1 \in Nat /\ n = (n - 1) + 1 /\ m <= n - 1
          BY <1>11
        <5> QED
          BY <5>1
      <4>2. (j + 1) * i = j * i + 1 * i /\ 1 * i = i /\ m * i <= j * i
            /\ j * i \in Nat /\ m * i \in Nat
        BY <4>1, Products
      <4>3. r - i = first + j * i
        BY <1>2, <1>11, <4>1, <4>2
      <4> QED
        BY <1>2, <2>1, <2>2, <3>1, <4>1, <4>2, <4>3
    <3>3. n * i <= m * i /\ n * i \in Nat /\ m * i \in Nat
      BY <1>11, <3>2, Products
    <3>4. r <= q
      BY <1>2, <1>11, <2>2, <3>3
    <3> QED
      BY <1>2, <1>4, <1>5, <2>1, <3>1, <3>4
  <2> QED
    BY <2>3, <2>4
<1> QED
  BY <1>12, <1>13 DEF Punctual

(* Clock::advance, on a clock that was never turned back and does not repeat,  *)
(* rings each alarm that nobody touched at every step that reaches or crosses  *)
(* one of its ring times, however long the steps are, and at no other.         *)
THEOREM RingsUnlessTurned ==
  Spec => [][StepForward /\ Straight =>
               \A a \in Scheduled \ touched' : kind[a].ringInterval >= 0 => Punctual(a)]_vars
<1> DEFINE True == StepForward /\ Straight =>
                     \A a \in Scheduled \ touched' : kind[a].ringInterval >= 0 => Punctual(a)
<1>1. ClockInv => True
  BY DueTruly
<1> QED
  BY <1>1, ClockInvariance, PTL

\* All of the property that alarms ring when they are due, for the programs that
\* leave the clock's direction alone, of clocks that go forward in time without
\* repeating and alarms whose intervals do too.
THEOREM RingsWhenDueUnturned ==
  ASSUME MaxTurns = 0,
         \A p \in Programs : /\ p.timeStep > 0 /\ p.repeatDuration = 0
                             /\ \A k \in p.kinds : \A a \in DOMAIN k : k[a].ringInterval >= 0
  PROVE  Spec => RingsWhenDue
<1> DEFINE Plain == /\ clock.timeStep > 0 /\ clock.repeatDuration = 0
                    /\ turns = 0 /\ calls = 0
                    /\ \A a \in DOMAIN kind : kind[a].ringInterval >= 0
           True == StepForward /\ Straight =>
                     \A a \in Scheduled \ touched' : kind[a].ringInterval >= 0 => Punctual(a)
           Due1 == StepForward => \A a \in Scheduled \ touched' : Punctual(a)
<1>1. Init => Plain
  BY DEF Init, NewClock, kind
<1>2. Plain /\ ClockInv /\ [Next]_vars => Plain'
  <2> SUFFICES ASSUME Plain, ClockInv, [Next]_vars
               PROVE  Plain'
    OBVIOUS
  <2>1. clock \in ClockRecord
    BY DEF ClockInv, Typed
  <2>2. ~ (turns + calls < MaxTurns)
    OBVIOUS
  <2>3. CASE UNCHANGED vars
    BY <2>3 DEF vars, kind
  <2>4. ASSUME NEW step \in program.steps \cup {clock.timeStep}, Advance(step)
        PROVE  Plain'
    <3>1. /\ Stepped(clock, step).timeStep = clock.timeStep
          /\ Stepped(clock, step).repeatDuration = clock.repeatDuration
      BY <2>1 DEF ClockRecord, Stepped, SteppedForward, SteppedBack
    <3>2. clock'.timeStep = clock.timeStep /\ clock'.repeatDuration = clock.repeatDuration
      BY <2>4, <3>1, <2>1 DEF Advance, CheckAll, ClockRecord, Stepped, SteppedForward, SteppedBack
    <3> QED
      BY <2>4, <3>2 DEF Advance, kind
  <2>5. ASSUME NEW a \in Alarms, AlarmCreate(a)
        PROVE  Plain'
    BY <2>5, <2>1 DEF AlarmCreate, ClockRecord, kind
  <2>6. ASSUME NEW a \in Created, TurnRingerOff(a)
        PROVE  Plain'
    BY <2>6 DEF TurnRingerOff, kind
  <2> QED
    BY <2>2, <2>3, <2>4, <2>5, <2>6
       DEF Next, SetDirection, GetNextTime, MayCall, AlarmDestroy, TurnRingerOn, Enable, Disable,
           SetRingTime, SetSticky, Change
<1>3. Plain /\ ClockInv /\ True => Due1
  <2> SUFFICES ASSUME Plain, ClockInv, True, StepForward, NEW a \in Scheduled \ touched'
               PROVE  Punctual(a)
    OBVIOUS
  <2>1. Straight
    BY DEF Straight, Repeating
  <2>2. a \in DOMAIN kind
    BY DEF Scheduled, ClockInv, Typed, TypeOK
  <2> QED
    BY <2>1, <2>2
<1>4. Spec => []Plain
  BY <1>1, <1>2, ClockInvariance, PTL DEF Spec
<1>5. Spec => [][Due1]_vars
  BY <1>3, <1>4, ClockInvariance, RingsUnlessTurned, PTL
<1> QED
  BY <1>5, PTL DEF RingsWhenDue

(* All of QueriesAreTrue, for programs in which only sticky alarms, which the  *)
(* program turns off, are given a ringDuration.                                *)
THEOREM QueriesWithoutDurations ==
  ASSUME \A p \in Programs : \A k \in p.kinds : \A a \in DOMAIN k :
            k[a].sticky \/ k[a].ringDuration = 0
  PROVE  Spec => QueriesAreTrue
<1> DEFINE Plain == \A a \in DOMAIN kind : kind[a].sticky \/ kind[a].ringDuration = 0
           True == StepForward /\ ~ clock.userChangedDirection =>
                     \A a \in {b \in Scheduled \ touched' : alarm[b].enabled} :
                        /\ Foretold(a)
                        /\ kind[a].sticky \/ OneStep(a) => Remembered(a)
<1>1. Init => Plain
  BY DEF Init, kind
<1>2. Plain /\ [Next]_vars => Plain'
  <2>1. [Next]_vars => UNCHANGED program
    BY DEF Next, vars, Advance, SetDirection, GetNextTime, AlarmCreate, AlarmDestroy, TurnRingerOff,
           TurnRingerOn, Enable, Disable, SetRingTime, SetSticky, Change
  <2> QED
    BY <2>1 DEF kind
<1>3. Plain /\ ClockInv => True
  <2> SUFFICES ASSUME Plain, ClockInv, StepForward, ~ clock.userChangedDirection,
                      NEW a \in Scheduled \ touched'
               PROVE  Foretold(a) /\ (kind[a].sticky \/ OneStep(a) => Remembered(a))
    OBVIOUS
  <2>1. a \in DOMAIN kind /\ kind[a] \in KindRecord
    BY DEF ClockInv, Typed, TypeOK, Scheduled
  <2>2. OneStep(a) => kind[a].sticky \/ OneCount(a)
    BY <2>1 DEF OneStep, OneCount, KindRecord
  <2> QED
    BY <2>2, ForetoldTruly, RememberedTruly
<1>4. Spec => []Plain
  BY <1>1, <1>2, PTL DEF Spec
<1>5. Spec => [][True]_vars
  BY <1>3, <1>4, ClockInvariance, PTL
<1> QED
  BY <1>5, PTL DEF QueriesAreTrue

-----------------------------------------------------------------------------
(* A loop over ring times ends when its interval goes the way of the clock. *)
LEMMA PastReached ==
  ASSUME NEW a \in AlarmRecord, NEW t \in Int, NEW positive \in BOOLEAN,
         a.ringInterval # 0, positive <=> a.ringInterval > 0
  PROVE  RoundsPast(a, positive, t) # {}
<1> DEFINE n == Magnitude(t - a.ringTime) + 1
           r == a.ringTime
<1>1. /\ r \in Int /\ a.ringInterval \in Int /\ n \in Nat
      /\ r + n > t /\ r - n < t
  BY DEF AlarmRecord, Magnitude
<1>2. n \in 0 .. Magnitude(t - a.ringTime) + 1
  BY <1>1
<1> HIDE DEF n, r
<1>3. ~ AtOrPast(positive, t, r + n * a.ringInterval)
  <2>1. CASE a.ringInterval > 0
    <3>1. n <= n * a.ringInterval /\ n * a.ringInterval \in Int
      BY <1>1, <2>1, Products
    <3> QED
      BY <1>1, <2>1, <3>1 DEF AtOrPast
  <2>2. CASE a.ringInterval < 0
    <3>1. PICK i \in Nat : a.ringInterval = -i /\ i > 0
      <4>1. -a.ringInterval \in Nat /\ a.ringInterval = -(-a.ringInterval)
        BY <1>1, <2>2
      <4> QED
        BY <2>2, <4>1
    <3>2. n * (-i) = -(n * i) /\ n * i \in Int
      BY <1>1, <3>1
    <3>3. n <= n * i
      BY <1>1, <3>1, Products
    <3> QED
      BY <1>1, <2>2, <3>2, <3>3 DEF AtOrPast
  <2> QED
    BY <1>1, <2>1, <2>2
<1> QED
  BY <1>2, <1>3 DEF RoundsPast, r

LEMMA StickyReached ==
  ASSUME NEW a \in AlarmRecord, NEW c \in ClockRecord,
         a.ringInterval # 0, Positive(c) <=> a.ringInterval > 0
  PROVE  StickyRounds(a, c) # {}
<1> DEFINE n == Magnitude(a.ringEnd - c.currTime) + Magnitude(a.prevRingTime - a.firstRingTime) + 1
<1>1. /\ a.ringEnd \in Int /\ c.currTime \in Int /\ a.ringInterval \in Int /\ n \in Nat
      /\ a.ringEnd - n < c.currTime /\ a.ringEnd + n > c.currTime
  BY DEF AlarmRecord, ClockRecord, Magnitude
<1>2. n \in 0 .. Magnitude(a.ringEnd - c.currTime) + Magnitude(a.prevRingTime - a.firstRingTime) + 1
  BY <1>1
<1> HIDE DEF n
<1>3. ~ Past(Positive(c), a.ringEnd - n * a.ringInterval, c.currTime)
  <2>1. CASE a.ringInterval > 0
    <3>1. n <= n * a.ringInterval /\ n * a.ringInterval \in Int
      BY <1>1, <2>1, Products
    <3> QED
      BY <1>1, <2>1, <3>1 DEF Past
  <2>2. CASE a.ringInterval < 0
    <3>1. PICK i \in Nat : a.ringInterval = -i /\ i > 0
      <4>1. -a.ringInterval \in Nat /\ a.ringInterval = -(-a.ringInterval)
        BY <1>1, <2>2
      <4> QED
        BY <2>2, <4>1
    <3>2. n * (-i) = -(n * i) /\ n * i \in Int
      BY <1>1, <3>1
    <3>3. n <= n * i
      BY <1>1, <3>1, Products
    <3> QED
      BY <1>1, <2>2, <3>2, <3>3 DEF Past
  <2> QED
    BY <1>1, <2>1, <2>2
<1> QED
  BY <1>2, <1>3 DEF StickyRounds

(* The loop of a repeating clock ends when the interval is positive, divides   *)
(* the period and leaves the ring after the ring time within it: after one     *)
(* period the loop is at that ring, past the one that it began with.           *)
LEMMA RepeatReached ==
  ASSUME NEW a \in AlarmRecord, NEW c \in ClockRecord, c.repeatDuration # 0,
         a.ringInterval > 0, Remainder(c.repeatDuration, a.ringInterval) = 0,
         a.ringTime + a.ringInterval < c.repeatDuration
  PROVE  RepeatStops(a, c) # {}
<1> DEFINE p == c.repeatDuration
           i == a.ringInterval
           r == a.ringTime
<1>1. p \in Nat /\ p > 0 /\ i \in Nat /\ i > 0 /\ r \in Int /\ r + i < p
  BY DEF AlarmRecord, ClockRecord
<1>2. \A n \in Rounds(a, c) : Wraps(a, c, n) > 0 /\ RingAfter(a, c, n) > r => n \in RepeatStops(a, c)
  BY DEF RepeatStops
<1>3. CASE r >= 0
  <2>1. PICK q \in Nat : p = i * q
    <3>1. PICK q : q = p \div i
      OBVIOUS
    <3>2. q \in Nat
      BY <1>1, <3>1
    <3>3. Remainder(p, i) = p - i * q
      BY <1>1, <3>1 DEF Remainder, Quotient, Magnitude
    <3>4. i * q \in Int
      BY <1>1, <3>2
    <3> HIDE DEF p, i
    <3> QED
      BY <1>1, <3>2, <3>3, <3>4 DEF p, i
  <2> HIDE DEF p, i, r
  <2>2. q <= p /\ q * i = p /\ (q + 1) * i = p + i
    <3>1. q * i = i * q /\ (q + 1) * i = q * i + i
      BY <1>1
    <3>2. q <= q * i
      BY <1>1, Products
    <3> QED
      BY <2>1, <3>1, <3>2
  <2>3. (r + (p + i)) \div p = 1
    <3>1. PICK u \in Nat : u = r + i /\ u < p
      BY <1>1, <1>3
    <3>2. (p + u) \div p = 1
      BY <1>1, <3>1
    <3> QED
      BY <1>1, <3>1, <3>2
  <2>4. Wraps(a, c, q + 1) = 1
    BY <1>1, <2>2, <2>3 DEF Wraps, p, i, r
  <2>5. RingAfter(a, c, q + 1) = r + i
    BY <1>1, <2>2, <2>4 DEF RingAfter, p, i, r
  <2>6. q + 1 \in Rounds(a, c)
    BY <1>1, <1>3, <2>2 DEF Rounds, Magnitude, p, r
  <2> QED
    BY <1>1, <1>2, <2>4, <2>5, <2>6
<1>4. CASE r < 0
  <2>1. PICK n \in Nat : n = p - r
    BY <1>1, <1>4
  <2> HIDE DEF p, i, r
  <2>2. PICK x \in Nat : x = r + n * i /\ x >= p
    <3>1. n <= n * i /\ n * i \in Nat
      BY <1>1, Products
    <3> QED
      BY <1>1, <2>1, <3>1
  <2>3. PICK w \in Nat : w = x \div p /\ w > 0 /\ w * p <= x
    <3>1. x \div p \in Nat /\ x \div p > 0
      BY <1>1, <2>2
    <3>2. (x \div p) * p <= x
      BY <1>1, <2>2
    <3> QED
      BY <3>1, <3>2
  <2>4. PICK v \in Nat : v = Wraps(a, c, n) /\ v > 0 /\ v <= w
    <3>1. Wraps(a, c, n) = IF n < w THEN n ELSE w
      BY <1>1, <2>2, <2>3 DEF Wraps, p, i, r
    <3> QED
      BY <1>1, <1>4, <2>1, <2>3, <3>1
  <2>5. v * p <= w * p /\ v * p \in Nat /\ w * p \in Nat
    BY <1>1, <2>4, Products
  <2>6. RingAfter(a, c, n) = x - v * p
    <3>1. RingAfter(a, c, n) = (r + n * i) - Wraps(a, c, n) * p
      BY DEF RingAfter, p, i, r
    <3>2. r + n * i = x
      BY <2>2
    <3>3. Wraps(a, c, n) = v
      BY <2>4
    <3> QED
      BY <3>1, <3>2, <3>3
  <2>7. n \in Rounds(a, c)
    BY <1>1, <1>4, <2>1 DEF Rounds, Magnitude, p, r
  <2> QED
    BY <1>1, <1>2, <1>4, <2>3, <2>4, <2>5, <2>6, <2>7
<1> QED
  BY <1>1, <1>3, <1>4

-----------------------------------------------------------------------------
(* No check of an alarm changes the interval between its rings, except that a  *)
(* change of sign turns it round, on a clock that does not repeat.             *)
SameInterval(b, a) == b.ringInterval = a.ringInterval
Turned(b, a, c) ==
  \/ SameInterval(b, a)
  \/ SignChanged(c) /\ c.repeatDuration = 0 /\ b.ringInterval = -a.ringInterval

LEMMA IntervalStays ==
  ASSUME NEW a \in AlarmRecord, NEW c \in ClockRecord
  PROVE  /\ \A positive \in BOOLEAN : \A t \in Int : SameInterval(MovePast(a, positive, t), a)
         /\ SameInterval(CheckTurnOn(a, c, Positive(c)), a)
         /\ SameInterval(Silenced(a), a) /\ SameInterval(Carried(a), a)
         /\ SameInterval(Counted(a), a) /\ SameInterval(TurnOnOrOff(a, c), a)
         /\ SameInterval(ResetRingBegin(a, c), a) /\ SameInterval(StepBack(a), a)
         /\ SameInterval(StickyBack(a, c), a) /\ SameInterval(WithBegin(a), a)
         /\ SameInterval(KeepsRinging(a), a) /\ SameInterval(RingerOff(a, c), a)
<1>1. \A positive \in BOOLEAN : \A t \in Int : SameInterval(MovePast(a, positive, t), a)
  BY DEF MovePast, SameInterval, AlarmRecord
<1>2. SameInterval(CheckTurnOn(a, c, Positive(c)), a)
  BY DEF CheckTurnOn, NextRing, SameInterval, AlarmRecord
<1>3. /\ SameInterval(Silenced(a), a) /\ SameInterval(Carried(a), a)
      /\ SameInterval(Counted(a), a)
  BY DEF Silenced, Carried, Counted, SameInterval, AlarmRecord
<1>4. SameInterval(TurnOnOrOff(a, c), a)
  <2>1. PICK k : k = CheckTurnOn(a, c, Positive(c))
    OBVIOUS
  <2>2. k \in AlarmRecord
    <3>1. c.currTime \in Int /\ Positive(c) \in BOOLEAN
      BY DEF ClockRecord, Positive
    <3> QED
      BY <2>1, <3>1, CheckTurnOnFacts
  <2>3. SameInterval(Silenced(k), k)
    BY <2>2 DEF Silenced, SameInterval, AlarmRecord
  <2> QED
    BY <1>2, <2>1, <2>3 DEF TurnOnOrOff, SameInterval
<1>5. SameInterval(ResetRingBegin(a, c), a) /\ SameInterval(StepBack(a), a)
  BY DEF ResetRingBegin, StepBack, SameInterval, AlarmRecord
<1>6. SameInterval(StickyBack(a, c), a) /\ SameInterval(WithBegin(a), a)
  BY DEF StickyBack, WithBegin, SameInterval, AlarmRecord
<1>7. SameInterval(KeepsRinging(a), a) /\ SameInterval(RingerOff(a, c), a)
  BY DEF KeepsRinging, RingerOff, SameInterval, AlarmRecord
<1> QED
  BY <1>1, <1>2, <1>3, <1>4, <1>5, <1>6, <1>7

(* The pre-check turns the interval round after a change of sign. *)
LEMMA PreCheckedTurns ==
  ASSUME NEW a \in AlarmRecord, NEW c \in ClockRecord, NEW b, b = PreChecked(a, c)
  PROVE  /\ WithSign(a, c) \in AlarmRecord
         /\ ~ SignChanged(c) => WithSign(a, c) = a
         /\ SameInterval(b, a) \/ (SignChanged(c) /\ b.ringInterval = -a.ringInterval)
<1>1. c.prevTime \in Int /\ Positive(c) \in BOOLEAN
  BY DEF ClockRecord, Positive
<1>2. PICK s : s = WithSign(a, c)
  OBVIOUS
<1>3. /\ s \in AlarmRecord
      /\ s = a \/ (SignChanged(c) /\ s.ringInterval = -a.ringInterval)
      /\ ~ SignChanged(c) => s = a
  <2>1. PICK i \in Int, d \in Int : i = -a.ringInterval /\ d = -a.ringDuration
    BY DEF AlarmRecord
  <2>2. CASE SignChanged(c)
    <3>1. s = [a EXCEPT !.ringInterval = i, !.ringDuration = d]
      BY <1>2, <2>1, <2>2 DEF WithSign
    <3> QED
      BY <2>1, <2>2, <3>1 DEF AlarmRecord
  <2>3. CASE ~ SignChanged(c)
    BY <1>2, <2>3 DEF WithSign
  <2> QED
    BY <2>2, <2>3
<1>4. PICK p : p = IF Pulled(a, c) THEN MovePast(s, Positive(c), c.prevTime) ELSE s
  OBVIOUS
<1>5. p \in AlarmRecord /\ SameInterval(p, s)
  BY <1>1, <1>3, <1>4, MovePastMoves, IntervalStays DEF SameInterval
<1>6. b = IF ~ a.enabled THEN a ELSE [p EXCEPT !.userChangedRingTime = FALSE]
  BY <1>2, <1>4 DEF PreChecked
<1>7. [p EXCEPT !.userChangedRingTime = FALSE].ringInterval = p.ringInterval
  BY <1>5 DEF AlarmRecord
<1> QED
  BY <1>2, <1>3, <1>5, <1>6, <1>7 DEF SameInterval

(* The alarm that the forward check has before it moves the ring time ahead. *)
LEMMA ForwardTurns ==
  ASSUME NEW a \in AlarmRecord, NEW c \in ClockRecord,
         NEW b, b = Counted(TurnOnOrOff(PreChecked(Carried(a), c), c))
  PROVE  /\ b \in AlarmRecord
         /\ SameInterval(b, a) \/ (SignChanged(c) /\ b.ringInterval = -a.ringInterval)
<1>1. c.prevTime \in Int /\ c.currTime \in Int
  BY DEF ClockRecord
<1>2. PICK d : d = Carried(a)
  OBVIOUS
<1>3. d \in AlarmRecord /\ SameInterval(d, a)
  BY <1>2, CarriedFacts, IntervalStays
<1>4. PICK p : p = PreChecked(d, c)
  OBVIOUS
<1>5. p \in AlarmRecord /\ (SameInterval(p, d) \/ (SignChanged(c) /\ p.ringInterval = -d.ringInterval))
  BY <1>1, <1>3, <1>4, PreCheckedFacts, PreCheckedTurns
<1>6. PICK t : t = TurnOnOrOff(p, c)
  OBVIOUS
<1>7. t \in AlarmRecord /\ SameInterval(t, p)
  BY <1>1, <1>5, <1>6, TurnOnOrOffFacts, IntervalStays
<1>8. b = Counted(t)
  BY <1>2, <1>4, <1>6
<1>9. b \in AlarmRecord /\ SameInterval(b, t)
  BY <1>7, <1>8, CountedFacts, IntervalStays
<1> QED
  BY <1>3, <1>5, <1>7, <1>9 DEF SameInterval

LEMMA CheckTurns ==
  ASSUME NEW a \in AlarmRecord, NEW c \in ClockRecord, NEW b, b = CheckRingTime(a, c)
  PROVE  Turned(b, a, c) /\ (c.repeatDuration # 0 => b.ringTime = a.ringTime)
<1>1. CASE c.repeatDuration # 0
  <2>1. b = CheckRepeat(a, c)
    BY <1>1 DEF CheckRingTime
  <2>2. SameInterval(b, a) /\ b.ringTime = a.ringTime
    BY <2>1 DEF CheckRepeat, Carried, KeepsRinging, Silenced, SameInterval, AlarmRecord
  <2> QED
    BY <2>2 DEF Turned
<1>2. CASE c.repeatDuration = 0 /\ c.direction = "forward"
  <2>1. PICK e : e = Counted(TurnOnOrOff(PreChecked(Carried(a), c), c))
    OBVIOUS
  <2>2. /\ e \in AlarmRecord
        /\ SameInterval(e, a) \/ (SignChanged(c) /\ e.ringInterval = -a.ringInterval)
    BY <2>1, ForwardTurns
  <2>3. SameInterval(MovePast(e, Positive(c), c.currTime), e)
    <3>1. c.currTime \in Int /\ Positive(c) \in BOOLEAN
      BY DEF ClockRecord, Positive
    <3> QED
      BY <2>2, <3>1, IntervalStays
  <2>4. b = IF OutOfRange(a, c) THEN Carried(a)
            ELSE IF KeptAhead(e, c) THEN MovePast(e, Positive(c), c.currTime) ELSE e
    BY <1>2, <2>1 DEF CheckRingTime, CheckForward
  <2> QED
    BY <1>2, <2>2, <2>3, <2>4, IntervalStays DEF Turned, SameInterval
<1>3. CASE c.repeatDuration = 0 /\ c.direction = "reverse"
  <2>1. PICK d : d = Adjusted(a, c)
    OBVIOUS
  <2>2. d \in AlarmRecord /\ SameInterval(d, a)
    <3>1. PICK k : k = StepBack(a)
      OBVIOUS
    <3>2. k \in AlarmRecord /\ SameInterval(k, a)
      BY <3>1, StepBackFacts, IntervalStays
    <3>3. SameInterval(ResetRingBegin(k, c), k) /\ SameInterval(StickyBack(a, c), a)
      BY <3>2, IntervalStays
    <3> QED
      BY <2>1, <3>1, <3>2, <3>3, AdjustedFacts DEF Adjusted, SameInterval
  <2>3. PICK e : e = WithBegin(d)
    OBVIOUS
  <2>4. e \in AlarmRecord /\ SameInterval(e, d)
    BY <2>2, <2>3, WithBeginFacts, IntervalStays
  <2>5. PICK f, end : end = RingTimeEnd(e, c) /\ f = TurnOnOrOffReverse(e, c, end)
    OBVIOUS
  <2>6. f \in AlarmRecord /\ SameInterval(f, e)
    <3>1. PICK off : off = Silenced(e)
      OBVIOUS
    <3>2. off \in AlarmRecord /\ SameInterval(off, e)
      BY <2>4, <3>1, SilencedFacts, IntervalStays
    <3>3. PICK k, l : k = StepBack(off) /\ l = [off EXCEPT !.prevRingTime = e.ringTime]
      OBVIOUS
    <3>4. /\ k \in AlarmRecord /\ SameInterval(k, off)
          /\ l \in AlarmRecord /\ SameInterval(l, off)
      BY <2>4, <3>2, <3>3, StepBackFacts, IntervalStays DEF SameInterval, AlarmRecord
    <3>5. SameInterval(ResetRingBegin(k, c), k) /\ SameInterval(ResetRingBegin(l, c), l)
      BY <3>4, IntervalStays
    <3>6. SameInterval(ResetRingBegin(IF e.ringTime # e.firstRingTime THEN k ELSE l, c), e)
      BY <3>2, <3>4, <3>5 DEF SameInterval
    <3>7. SameInterval(f, e)
      BY <2>4, <2>5, <3>1, <3>3, <3>6 DEF TurnOnOrOffReverse, SameInterval, AlarmRecord
    <3> QED
      BY <2>4, <2>5, <3>7, TurnOnOrOffReverseFacts
  <2>7. b = a \/ SameInterval(b, f)
    BY <1>3, <2>1, <2>3, <2>5, <2>6 DEF CheckRingTime, CheckReverse, SameInterval, AlarmRecord
  <2> QED
    BY <1>3, <2>2, <2>4, <2>6, <2>7 DEF Turned, SameInterval
<1> QED
  BY <1>1, <1>2, <1>3 DEF ClockRecord, Directions

(* Why the check of an alarm does not end. *)
LEMMA EndlessWhy ==
  ASSUME NEW a \in AlarmRecord, NEW c \in ClockRecord, Endless(a, c)
  PROVE  /\ c.repeatDuration # 0 =>
              /\ a.ringInterval # 0
              /\ a.ringInterval > 0 /\ Remainder(c.repeatDuration, a.ringInterval) = 0 =>
                   a.ringTime + a.ringInterval >= c.repeatDuration
         /\ c.repeatDuration = 0 /\ a.ringInterval = 0 =>
              SignChanged(c) \/ c.userChangedDirection \/ c.direction = "reverse"
         /\ c.repeatDuration = 0 /\ a.ringInterval # 0 =>
              SignChanged(c) \/ ~ (Positive(c) <=> a.ringInterval > 0)
<1>1. /\ c.prevTime \in Int /\ c.currTime \in Int /\ Positive(c) \in BOOLEAN
      /\ a.ringInterval \in Int /\ a.ringTime \in Int /\ c.repeatDuration \in Nat
  BY DEF ClockRecord, Positive, AlarmRecord
<1>2. CASE c.repeatDuration # 0
  <2>1. a.ringInterval # 0 /\ RepeatStops(a, c) = {}
    BY <1>2 DEF Endless, RepeatEndless
  <2> QED
    BY <1>1, <1>2, <2>1, RepeatReached
<1>3. CASE c.repeatDuration = 0 /\ c.direction = "forward"
  <2> SUFFICES ASSUME ~ SignChanged(c)
               PROVE  /\ a.ringInterval = 0 => c.userChangedDirection
                      /\ a.ringInterval # 0 => ~ (Positive(c) <=> a.ringInterval > 0)
    BY <1>3
  <2>1. PICK e : e = Counted(TurnOnOrOff(PreChecked(Carried(a), c), c))
    OBVIOUS
  <2>2. e \in AlarmRecord /\ SameInterval(e, a)
    BY <2>1, ForwardTurns
  <2>3. WithSign(a, c) = a
    BY PreCheckedTurns
  <2>4. \/ c.userChangedDirection /\ RoundsPast(a, Positive(c), c.prevTime) = {}
        \/ a.ringInterval # 0 /\ RoundsPast(e, Positive(c), c.currTime) = {}
    BY <1>3, <2>1, <2>2, <2>3
       DEF Endless, ForwardEndless, Pulled, KeptAhead, SameInterval
  <2> QED
    BY <1>1, <2>2, <2>4, PastReached DEF SameInterval
<1>4. CASE c.repeatDuration = 0 /\ c.direction = "reverse"
  <2>1. StickyRounds(a, c) = {}
    BY <1>4 DEF Endless, ReverseEndless
  <2> QED
    BY <1>4, <2>1, StickyReached
<1> QED
  BY <1>2, <1>3, <1>4 DEF ClockRecord, Directions

-----------------------------------------------------------------------------
\* The last two steps of the clock are steps of the program.
OfProgram(c) ==
  c.currAdvanceTimeStep \in ProgramSteps /\ c.prevAdvanceTimeStep \in ProgramSteps

(* Before any alarm is checked the clock has one of the program's steps, and   *)
(* an alarm turns its interval only after two steps of different signs.        *)
LEMMA StaysPaced ==
  ASSUME ClockInv, Paced, NEW c \in ClockRecord, NEW a \in Created,
         OfProgram(c),
         c.repeatDuration = clock.repeatDuration, NEW b, Turned(b, alarm[a], c)
  PROVE  /\ b.ringInterval \in {kind[a].ringInterval, -kind[a].ringInterval}
         /\ b.ringInterval = kind[a].ringInterval \/ (BothSigns /\ ~ Repeating)
<1>1. alarm[a].ringInterval \in Int /\ kind[a].ringInterval \in Int
  BY DEF ClockInv, TypeOK, Typed, AlarmRecord, KindRecord
<1>2. SignChanged(c) => BothSigns
  BY DEF SignChanged, BothSigns, OfProgram
<1> QED
  BY <1>1, <1>2 DEF Paced, Turned, SameInterval, Repeating

(* If the check of an alarm with the interval it was created with does not     *)
(* end, it is one of those that EndlessLoops tells of.                         *)
LEMMA EndlessTold ==
  ASSUME ClockInv, NEW c \in ClockRecord, NEW a, NEW k \in KindRecord, NEW b \in AlarmRecord,
         OfProgram(c),
         c.repeatDuration = clock.repeatDuration,
         turns = 0 => ~ c.userChangedDirection /\ c.direction = "forward",
         b.ringInterval \in {k.ringInterval, -k.ringInterval},
         b.ringInterval = k.ringInterval \/ (BothSigns /\ ~ Repeating),
         Repeating /\ k.ringInterval # 0 => Remainder(clock.repeatDuration, k.ringInterval) = 0,
         Endless(b, c)
  PROVE  CannotPass(k.ringInterval, b.ringTime)
<1>1. /\ k.ringInterval \in Int /\ b.ringInterval \in Int /\ ProgramSteps \subseteq Int
      /\ turns \in Nat
  BY DEF KindRecord, AlarmRecord, ClockInv, Typed, Forth, ProgramSteps, ClockRecord
<1>2. SignChanged(c) => BothSigns
  BY DEF SignChanged, BothSigns, OfProgram
<1>3. CASE Repeating
  <2>1. c.repeatDuration # 0 /\ b.ringInterval = k.ringInterval
    BY <1>3 DEF Repeating
  <2>2. /\ b.ringInterval # 0
        /\ b.ringInterval > 0 /\ Remainder(c.repeatDuration, b.ringInterval) = 0 =>
             b.ringTime + b.ringInterval >= c.repeatDuration
    BY <2>1, EndlessWhy
  <2> QED
    BY <1>1, <1>3, <2>1, <2>2 DEF CannotPass
<1>4. CASE ~ Repeating /\ k.ringInterval = 0
  <2>1. c.repeatDuration = 0 /\ b.ringInterval = 0
    BY <1>1, <1>4 DEF Repeating
  <2>2. SignChanged(c) \/ c.userChangedDirection \/ c.direction = "reverse"
    BY <2>1, EndlessWhy
  <2> QED
    BY <1>1, <1>2, <1>4, <2>2 DEF CannotPass
<1>5. CASE ~ Repeating /\ k.ringInterval # 0
  <2>1. CASE BothSigns
    <3>1. PICK s \in ProgramSteps, t \in ProgramSteps : OppositeSigns(s, t)
      BY <2>1 DEF BothSigns
    <3>2. (s >= 0) # (t >= 0)
      BY <1>1, <3>1 DEF OppositeSigns
    <3> QED
      BY <1>5, <3>2 DEF CannotPass
  <2>2. CASE ~ BothSigns
    <3>1. c.repeatDuration = 0 /\ b.ringInterval = k.ringInterval
      BY <1>5, <2>2 DEF Repeating
    <3>2. ~ (Positive(c) <=> b.ringInterval > 0)
      BY <1>2, <1>5, <2>2, <3>1, EndlessWhy
    <3>3. (c.currAdvanceTimeStep >= 0) # (k.ringInterval > 0)
      BY <3>1, <3>2 DEF Positive
    <3> QED
      BY <1>5, <3>3 DEF CannotPass, OfProgram
  <2> QED
    BY <2>1, <2>2
<1> QED
  BY <1>3, <1>4, <1>5

LEMMA AdvancePaced ==
  ASSUME ClockInv, Paced, NEW step \in ProgramSteps, Advance(step)
  PROVE  Paced' /\ EndlessLoops'
<1>1. /\ clock \in ClockRecord /\ step \in Int
      /\ \A a \in Created : alarm[a] \in AlarmRecord /\ kind[a] \in KindRecord
      /\ OnClock \subseteq Created
  BY DEF ClockInv, Typed, TypeOK, ProgramSteps, ClockRecord
<1>2. PICK c : c = Stepped(clock, step)
  OBVIOUS
<1>3. /\ c \in ClockRecord
      /\ c.timeStep = clock.timeStep /\ c.repeatDuration = clock.repeatDuration
      /\ c.direction = clock.direction /\ c.userChangedDirection = clock.userChangedDirection
      /\ OfProgram(c)
  <2>1. OfProgram(clock) /\ clock.direction \in {"forward", "reverse"}
    BY <1>1 DEF Paced, OfProgram, ClockRecord, Directions
  <2>2. OfProgram(c)
    BY <1>1, <1>2, <2>1, SteppedFacts DEF OfProgram
  <2> QED
    BY <1>1, <1>2, <2>2, SteppedFacts
<1>4. PICK all : all = CheckAll(c)
  OBVIOUS
<1>5. /\ \E u \in BOOLEAN : all.clock = [c EXCEPT !.userChangedDirection = u]
      /\ all.alarm = [a \in Created |-> IF a \in Checked(c) THEN CheckRingTime(alarm[a], Seen(c, a))
                                                            ELSE alarm[a]]
      /\ all.endless <=> Stuck(c) # {}
  <2>1. AllChecked(all, c)
    BY <1>3, <1>4, CheckAllFacts
  <2>2. all.endless <=> Stuck(c) # {}
    BY <1>4 DEF CheckAll
  <2> QED
    BY <2>1, <2>2 DEF AllChecked
<1>6. /\ all.clock.timeStep = c.timeStep /\ all.clock.repeatDuration = c.repeatDuration
      /\ all.clock.currAdvanceTimeStep = c.currAdvanceTimeStep
      /\ all.clock.prevAdvanceTimeStep = c.prevAdvanceTimeStep
  BY <1>3, <1>5 DEF ClockRecord
<1>7. /\ returned /\ program' = program /\ turns' = turns
      /\ \/ clock' = c /\ alarm' = alarm /\ returned'
         \/ clock' = all.clock /\ alarm' = all.alarm /\ returned' = ~ all.endless
  BY <1>2, <1>4 DEF Advance
<1>8. /\ ProgramSteps' = ProgramSteps /\ kind' = kind /\ (Repeating)' = Repeating
      /\ clock'.repeatDuration = clock.repeatDuration
      /\ clock'.currAdvanceTimeStep = c.currAdvanceTimeStep
      /\ clock'.prevAdvanceTimeStep = c.prevAdvanceTimeStep
  BY <1>3, <1>6, <1>7 DEF ProgramSteps, kind, Repeating
<1>9. (BothSigns)' = BothSigns
  BY <1>8 DEF BothSigns
<1>10. Created' = Created
  BY <1>5, <1>7 DEF Created
<1>11. ASSUME NEW a, NEW d, d = Seen(c, a)
       PROVE  /\ d \in ClockRecord /\ d.repeatDuration = clock.repeatDuration
              /\ OfProgram(d) /\ d.direction = clock.direction
              /\ ~ clock.userChangedDirection => ~ d.userChangedDirection
  BY <1>3, <1>11, SeenFacts DEF OfProgram
<1>12. \A a \in Created : alarm'[a] = alarm[a] \/ alarm'[a] = CheckRingTime(alarm[a], Seen(c, a))
  BY <1>5, <1>7
<1>13. ASSUME NEW a \in Created
       PROVE  /\ alarm'[a].ringInterval \in {kind[a].ringInterval, -kind[a].ringInterval}
              /\ alarm'[a].ringInterval = kind[a].ringInterval \/ (BothSigns /\ ~ Repeating)
  <2>1. PICK d : d = Seen(c, a)
    OBVIOUS
  <2>2. d \in ClockRecord /\ d.repeatDuration = clock.repeatDuration /\ OfProgram(d)
    BY <1>11, <2>1
  <2>3. Turned(alarm'[a], alarm[a], d)
    <3>1. Turned(CheckRingTime(alarm[a], d), alarm[a], d)
      BY <1>1, <2>2, CheckTurns
    <3>2. Turned(alarm[a], alarm[a], d)
      BY DEF Turned, SameInterval
    <3> QED
      BY <1>12, <2>1, <3>1, <3>2
  <2> QED
    BY <2>2, <2>3, StaysPaced
<1>14. Paced'
  <2>1. OfProgram(clock')
    BY <1>3, <1>8 DEF OfProgram
  <2> QED
    BY <1>8, <1>9, <1>10, <1>13, <2>1 DEF Paced, OfProgram
<1>15. EndlessLoops'
  <2> SUFFICES ASSUME ~ returned'
               PROVE  EndlessLoops'
    BY DEF EndlessLoops
  <2>1. PICK a : a \in Stuck(c)
    BY <1>5, <1>7
  <2>2. a \in Created /\ Endless(alarm[a], Seen(c, a)) /\ alarm'[a] = alarm[a]
    BY <1>1, <1>5, <1>7, <2>1 DEF Stuck, Checked
  <2>3. PICK d : d = Seen(c, a)
    OBVIOUS
  <2>4. /\ d \in ClockRecord /\ d.repeatDuration = clock.repeatDuration /\ OfProgram(d)
        /\ turns = 0 => ~ d.userChangedDirection /\ d.direction = "forward"
        /\ Endless(alarm[a], d)
    BY <1>11, <2>2, <2>3 DEF ClockInv, Forth
  <2>5. /\ alarm[a].ringInterval \in {kind[a].ringInterval, -kind[a].ringInterval}
        /\ alarm[a].ringInterval = kind[a].ringInterval \/ (BothSigns /\ ~ Repeating)
        /\ Repeating /\ kind[a].ringInterval # 0 =>
             Remainder(clock.repeatDuration, kind[a].ringInterval) = 0
    BY <2>2 DEF Paced
  <2>6. CannotPass(kind[a].ringInterval, alarm[a].ringTime)
    BY <1>1, <2>2, <2>4, <2>5, EndlessTold
  <2> QED
    BY <1>7, <1>8, <1>9, <1>10, <2>2, <2>6 DEF EndlessLoops, CannotPass
<1> QED
  BY <1>14, <1>15

LEMMA AlarmCreatePaced ==
  ASSUME ClockInv, Paced, NEW a \in Alarms, AlarmCreate(a)
  PROVE  Paced' /\ EndlessLoops'
<1>1. /\ clock \in ClockRecord /\ a \in DOMAIN kind \ Created
      /\ kind[a] \in KindRecord
      /\ \A e \in Created : alarm[e] \in AlarmRecord
      /\ turns = 0 => ~ clock.userChangedDirection /\ clock.direction = "forward"
      /\ OfProgram(clock)
  BY DEF ClockInv, Typed, TypeOK, AlarmCreate, Forth, Paced, OfProgram
<1>2. PICK new : new = NewAlarm(kind[a], clock.currTime)
  OBVIOUS
<1>3. new \in AlarmRecord /\ new.ringInterval = kind[a].ringInterval
  BY <1>1, <1>2, NewAlarmFacts DEF ClockRecord, SameSchedule
<1>4. PICK b : b = CheckRingTime(new, clock)
  OBVIOUS
<1>5. Turned(b, new, clock) /\ (Repeating => b.ringTime = new.ringTime)
  BY <1>1, <1>3, <1>4, CheckTurns DEF Repeating
<1>6. /\ alarm' = [e \in Created \cup {a} |-> IF e = a THEN b ELSE alarm[e]]
      /\ \E u \in BOOLEAN : clock' = [clock EXCEPT !.userChangedDirection = u]
      /\ program' = program /\ turns' = turns /\ returned' = ~ Endless(new, clock)
      /\ Repeating /\ kind[a].ringInterval # 0 =>
           Remainder(clock.repeatDuration, kind[a].ringInterval) = 0
  BY <1>1, <1>2, <1>4 DEF AlarmCreate, ClockRecord
<1>7. /\ ProgramSteps' = ProgramSteps /\ kind' = kind /\ (Repeating)' = Repeating
      /\ clock'.repeatDuration = clock.repeatDuration
      /\ clock'.currAdvanceTimeStep = clock.currAdvanceTimeStep
      /\ clock'.prevAdvanceTimeStep = clock.prevAdvanceTimeStep
      /\ Created' = Created \cup {a}
  BY <1>1, <1>6 DEF ProgramSteps, kind, Repeating, Created, ClockRecord
<1>8. (BothSigns)' = BothSigns
  BY <1>7 DEF BothSigns
<1>9. /\ b.ringInterval \in {kind[a].ringInterval, -kind[a].ringInterval}
      /\ b.ringInterval = kind[a].ringInterval \/ (BothSigns /\ ~ Repeating)
  <2>1. SignChanged(clock) => BothSigns
    BY <1>1 DEF SignChanged, BothSigns, OfProgram
  <2> QED
    BY <1>3, <1>5, <2>1 DEF Turned, SameInterval, Repeating
<1>10. Paced'
  <2>1. OfProgram(clock')
    BY <1>1, <1>7 DEF OfProgram
  <2>2. \A e \in Created : alarm'[e] = alarm[e]
    BY <1>1, <1>6
  <2>3. alarm'[a] = b
    BY <1>6
  <2> QED
    BY <1>6, <1>7, <1>8, <1>9, <2>1, <2>2, <2>3 DEF Paced, OfProgram
<1>11. EndlessLoops'
  <2> SUFFICES ASSUME ~ returned'
               PROVE  EndlessLoops'
    BY DEF EndlessLoops
  <2>1. Endless(new, clock)
    BY <1>6
  <2>2. new.ringInterval \in {kind[a].ringInterval, -kind[a].ringInterval}
    BY <1>3
  <2>3. CannotPass(kind[a].ringInterval, new.ringTime)
    BY <1>1, <1>3, <1>6, <2>1, <2>2, EndlessTold
  <2>4. a \in Created' /\ alarm'[a] = b
    BY <1>6, <1>7
  <2> QED
    BY <1>5, <1>6, <1>7, <1>8, <2>3, <2>4 DEF EndlessLoops, CannotPass
<1> QED
  BY <1>10, <1>11

(* Nothing else takes a step of the clock or touches an interval. *)
LEMMA OthersPaced ==
  ASSUME ClockInv, Paced, returned', program' = program, Created' = Created,
         clock'.timeStep = clock.timeStep, clock'.repeatDuration = clock.repeatDuration,
         clock'.currAdvanceTimeStep = clock.currAdvanceTimeStep,
         clock'.prevAdvanceTimeStep = clock.prevAdvanceTimeStep,
         \A a \in Created : SameInterval(alarm'[a], alarm[a])
  PROVE  Paced' /\ EndlessLoops'
<1>1. ProgramSteps' = ProgramSteps /\ kind' = kind /\ (Repeating)' = Repeating
  BY DEF ProgramSteps, kind, Repeating
<1>2. (BothSigns)' = BothSigns
  BY <1>1 DEF BothSigns
<1> QED
  BY <1>1, <1>2 DEF Paced, EndlessLoops, SameInterval

(* A call that does not return is in the loop of an alarm whose ring time      *)
(* cannot pass a time: every other call on the clock returns.                  *)
THEOREM OnlyTheseAreEndless == Spec => []EndlessLoops
<1>1. Init => Paced /\ EndlessLoops
  <2> SUFFICES ASSUME Init
               PROVE  Paced /\ EndlessLoops
    OBVIOUS
  <2>1. Created = {} /\ returned
    BY DEF Init, Created
  <2>2. clock.currAdvanceTimeStep = clock.timeStep /\ clock.prevAdvanceTimeStep = clock.timeStep
    BY DEF Init, NewClock
  <2> QED
    BY <2>1, <2>2 DEF Paced, EndlessLoops, ProgramSteps
<1>2. ClockInv /\ Paced /\ EndlessLoops /\ [Next]_vars => (Paced /\ EndlessLoops)'
  <2> SUFFICES ASSUME ClockInv, Paced, EndlessLoops, [Next]_vars
               PROVE  (Paced /\ EndlessLoops)'
    OBVIOUS
  <2>1. clock \in ClockRecord /\ \A a \in Created : alarm[a] \in AlarmRecord
    BY DEF ClockInv, Typed, TypeOK
  <2>2. ASSUME NEW step \in program.steps \cup {clock.timeStep}, Advance(step)
        PROVE  (Paced /\ EndlessLoops)'
    BY <2>2, AdvancePaced DEF ProgramSteps
  <2>3. ASSUME NEW a \in Alarms, AlarmCreate(a)
        PROVE  (Paced /\ EndlessLoops)'
    BY <2>3, AlarmCreatePaced
  <2>4. ASSUME NEW d \in Directions, SetDirection(d)
        PROVE  (Paced /\ EndlessLoops)'
    BY <2>1, <2>4, OthersPaced DEF SetDirection, SameInterval, Created, ClockRecord
  <2>5. CASE GetNextTime
    BY <2>1, <2>5, OthersPaced DEF GetNextTime, SameInterval, Created, ClockRecord
  <2>6. ASSUME NEW a \in Created, AlarmDestroy(a)
        PROVE  (Paced /\ EndlessLoops)'
    BY <2>6, OthersPaced DEF AlarmDestroy, SameInterval, Created
  <2>7. ASSUME NEW a \in Created, NEW new, SameInterval(new, alarm[a]),
               alarm' = [alarm EXCEPT ![a] = new], UNCHANGED <<clock, program>>, returned'
        PROVE  (Paced /\ EndlessLoops)'
    <3>1. Created' = Created /\ \A b \in Created : SameInterval(alarm'[b], alarm[b])
      BY <2>7 DEF Created, SameInterval
    <3> QED
      BY <2>7, <3>1, OthersPaced
  <2>8. ASSUME NEW a \in Created, TurnRingerOff(a)
        PROVE  (Paced /\ EndlessLoops)'
    <3>1. SameInterval(RingerOff(alarm[a], clock), alarm[a])
      BY <2>1, IntervalStays
    <3> QED
      BY <2>7, <2>8, <3>1 DEF TurnRingerOff
  <2>9. ASSUME NEW a \in Created, NEW new, SameInterval(new, alarm[a]), Change(a, new)
        PROVE  (Paced /\ EndlessLoops)'
    BY <2>7, <2>9 DEF Change
  <2>10. ASSUME NEW a \in Created, TurnRingerOn(a) \/ Enable(a) \/ Disable(a)
         PROVE  (Paced /\ EndlessLoops)'
    <3>1. /\ SameInterval([alarm[a] EXCEPT !.ringing = TRUE], alarm[a])
          /\ SameInterval([alarm[a] EXCEPT !.enabled = TRUE], alarm[a])
          /\ SameInterval([alarm[a] EXCEPT !.enabled = FALSE, !.ringing = FALSE], alarm[a])
      BY <2>1 DEF SameInterval, AlarmRecord
    <3> QED
      BY <2>9, <2>10, <3>1 DEF TurnRingerOn, Enable, Disable
  <2>11. ASSUME NEW a \in Created, NEW t \in RingTimes, SetRingTime(a, t)
         PROVE  (Paced /\ EndlessLoops)'
    <3>1. SameInterval([alarm[a] EXCEPT !.ringTime = t, !.prevRingTime = t,
                                        !.userChangedRingTime = TRUE], alarm[a])
      BY <2>1 DEF SameInterval, AlarmRecord
    <3> QED
      BY <2>9, <2>11, <3>1 DEF SetRingTime
  <2>12. ASSUME NEW a \in Created, NEW s \in BOOLEAN, SetSticky(a, s)
         PROVE  (Paced /\ EndlessLoops)'
    <3>1. SameInterval([alarm[a] EXCEPT !.sticky = s], alarm[a])
      BY <2>1 DEF SameInterval, AlarmRecord
    <3> QED
      BY <2>9, <2>12, <3>1 DEF SetSticky
  <2>13. CASE UNCHANGED vars
    <3>1. /\ ProgramSteps' = ProgramSteps /\ kind' = kind /\ (Repeating)' = Repeating
          /\ Created' = Created /\ UNCHANGED <<clock, alarm, returned, turns>>
      BY <2>13 DEF vars, ProgramSteps, kind, Repeating, Created
    <3>2. (BothSigns)' = BothSigns
      BY <3>1 DEF BothSigns
    <3> QED
      BY <3>1, <3>2 DEF Paced, EndlessLoops, CannotPass
  <2> QED
    BY <2>2, <2>3, <2>4, <2>5, <2>6, <2>8, <2>10, <2>11, <2>12, <2>13 DEF Next
<1> QED
  BY <1>1, <1>2, ClockInvariance, PTL DEF Spec
================================================================================
