--------------------------- MODULE BirthdayProofs ---------------------------
(***************************************************************************)
(* Proofs about the birthday alerts.  Calendar: one celebration a year.    *)
(* Schedule: with it at most one congratulation per member and birthday,   *)
(* of the right members, and nobody forgotten while processes run.         *)
(* Digest, of which a run of Schedule is one step: one outbox job per      *)
(* notification, and no recipient left out.                                *)
(***************************************************************************)
EXTENDS Schedule, Digest, TLAPS

-----------------------------------------------------------------------------
(* The calendar *)

LEMMA MonthLengths ==
  \A month \in 1..12 :
    /\ DAYS_IN_MONTH[month] \in 29..31
    /\ month # 2 => DAYS_IN_MONTH[month] >= 30
    /\ month = 2 => DAYS_IN_MONTH[month] = 29
BY DEF DAYS_IN_MONTH

LEMMA LastDayLength ==
  ASSUME NEW year \in Nat, NEW month \in 1..12
  PROVE  /\ LastDay(year, month) \in 28..31
         /\ month # 2 => LastDay(year, month) = DAYS_IN_MONTH[month]
         /\ month = 2 => LastDay(year, month) = IF isLeapYear(year) THEN 29 ELSE 28
BY MonthLengths DEF LastDay, isLeapYear

\* addDays returns a date of the calendar.
LEMMA AddDaysReal ==
  ASSUME NEW from, isRealDate(from), NEW amount \in 0..28
  PROVE  isRealDate(addDays(from, amount))
<1> DEFINE day == from.day + amount
           last == LastDay(from.year, from.month)
<1>1. /\ from \in [year : Nat, month : 1..12, day : 1..31]
      /\ from.day <= last /\ last \in 28..31
  BY LastDayLength DEF isRealDate
<1>2. \A year \in Nat, month \in 1..12 : LastDay(year, month) \in 28..31
  BY LastDayLength
<1>3. CASE day <= last
  <2>1. addDays(from, amount) = [from EXCEPT !.day = day]
    BY <1>3 DEF addDays
  <2>2. day \in 1..31
    BY <1>1, <1>3
  <2> QED BY <1>1, <1>3, <2>1, <2>2 DEF isRealDate
<1>4. CASE ~(day <= last) /\ from.month < 12
  <2>1. addDays(from, amount) = [from EXCEPT !.month = @ + 1, !.day = day - last]
    BY <1>4 DEF addDays
  <2>2. day - last \in 1..28 /\ from.month + 1 \in 1..12
    BY <1>1, <1>4
  <2> DEFINE result == addDays(from, amount)
  <2>3. result = [year |-> from.year, month |-> from.month + 1, day |-> day - last]
    BY <1>1, <2>1
  <2>4. result \in [year : Nat, month : 1..12, day : 1..31] /\ result.day <= 28
    BY <1>1, <2>2, <2>3
  <2>5. result.day <= LastDay(result.year, result.month)
    BY <1>2, <2>4
  <2> QED BY <2>4, <2>5 DEF isRealDate
<1>5. CASE ~(day <= last) /\ ~(from.month < 12)
  <2>1. addDays(from, amount) = [year |-> from.year + 1, month |-> 1, day |-> day - last]
    BY <1>5 DEF addDays
  <2>2. day - last \in 1..28
    BY <1>1, <1>5
  <2> QED BY <1>1, <1>2, <2>1, <2>2 DEF isRealDate
<1> QED BY <1>3, <1>4, <1>5

\* birthdayMatchesDate picks one day in every year, the one the policy
\* promises, for every birthday, leap year and policy.
THEOREM OneCelebrationAYear ==
  ASSUME NEW member \in Birthdays, NEW from, isRealDate(from), NEW policy \in Policies
  PROVE  birthdayMatchesDate(member, from, policy) <=> from = Celebration(member, from.year, policy)
<1> DEFINE celebration == Celebration(member, from.year, policy)
<1>1. /\ from \in [year : Nat, month : 1..12, day : 1..31]
      /\ from.day <= LastDay(from.year, from.month)
  BY DEF isRealDate
<1>2. /\ member.month \in 1..12 /\ member.day \in 1..31
      /\ member.day <= DAYS_IN_MONTH[member.month]
  BY MonthLengths DEF Birthdays, isValidMonthDay
<1>3. celebration \in [year : Nat, month : 1..12, day : 1..31] /\ celebration.year = from.year
  BY <1>1, <1>2 DEF Celebration
<1>4. from = celebration <=> from.month = celebration.month /\ from.day = celebration.day
  BY <1>1, <1>3
<1>5. CASE ~(member.month = 2 /\ member.day = 29)
  <2>1. member.day <= LastDay(from.year, member.month)
    BY <1>1, <1>2, <1>5, LastDayLength, MonthLengths
  <2>2. celebration.month = member.month /\ celebration.day = member.day
    BY <2>1 DEF Celebration
  <2> QED BY <1>4, <1>5, <2>2 DEF birthdayMatchesDate
<1>6. CASE member.month = 2 /\ member.day = 29 /\ isLeapYear(from.year)
  <2>1. LastDay(from.year, 2) = 29
    BY <1>1, <1>6, LastDayLength
  <2>2. celebration.month = 2 /\ celebration.day = 29
    BY <1>6, <2>1 DEF Celebration
  <2> QED BY <1>4, <1>6, <2>2 DEF birthdayMatchesDate
<1>7. CASE member.month = 2 /\ member.day = 29 /\ ~isLeapYear(from.year)
  <2>1. LastDay(from.year, 2) = 28
    BY <1>1, <1>7, LastDayLength
  <2>2. celebration = IF policy = "mar1" THEN [year |-> from.year, month |-> 3, day |-> 1]
                      ELSE [year |-> from.year, month |-> 2, day |-> 28]
    BY <1>7, <2>1 DEF Celebration
  <2>3. ~(from.month = 2 /\ from.day = 29)
    BY <1>1, <2>1
  <2> QED BY <1>4, <1>7, <2>2, <2>3 DEF birthdayMatchesDate
<1> QED BY <1>5, <1>6, <1>7
-----------------------------------------------------------------------------
(* Types *)

LEMMA TicksAreTicks ==
  ASSUME TypeOK, NEW initial \in BOOLEAN
  PROVE  Tick(initial) \in Ticks
BY DEF TypeOK, Tick, Ticks, isRealDate, Dates

LEMMA TypeInit == Init => TypeOK
<1> SUFFICES ASSUME Init PROVE TypeOK
  OBVIOUS
<1>1. isRealDate(first) /\ isRealDate(today)
  BY CalendarAssumption DEF Init
<1>2. NoMinute \in [day : Dates, minute : Minutes] /\ 0 \in Minutes
  BY CalendarAssumption DEF NoMinute, Dates, Minutes
<1> QED BY <1>1, <1>2, BoundsAssumption, ChangesAssumption DEF Init, TypeOK

LEMMA TypeStep == TypeOK /\ [Next]_vars => TypeOK'
<1> SUFFICES ASSUME TypeOK, [Next]_vars PROVE TypeOK'
  OBVIOUS
<1> USE BoundsAssumption, ChangesAssumption
<1>1. ASSUME NEW p \in Processes, cron(p) PROVE TypeOK'
  <2>1. Tick(FALSE) \in Ticks
    BY TicksAreTicks
  <2> QED BY <1>1, <2>1 DEF TypeOK, cron, timeVars, boundVars
<1>2. ASSUME NEW p \in Processes, NEW t \in ticks[p], readRule(p, t) PROVE TypeOK'
  <2>1. /\ t \in Ticks /\ [t EXCEPT !.step = "run"] \in Ticks /\ [t EXCEPT !.step = "drain"] \in Ticks
        /\ [day |-> t.day, minute |-> t.minute] \in [day : Dates, minute : Minutes]
    BY DEF TypeOK, Ticks
  <2> QED BY <1>2, <2>1 DEF TypeOK, readRule, GoOn, timeVars, boundVars
<1>3. ASSUME NEW p \in Processes, NEW t \in ticks[p], runBirthdayNotifications(p, t) PROVE TypeOK'
  <2> DEFINE birthday == addDays(today, rule.lead)
             digest == [birthday |-> birthday, lead |-> rule.lead, delivery |-> today,
                        members |-> Eligible(birthday)]
             Digests == [birthday : Dates, lead : 0..14, delivery : Dates, members : SUBSET Members]
  <2>1. t \in Ticks /\ [t EXCEPT !.step = "drain"] \in Ticks
    BY DEF TypeOK, Ticks
  <2>2. rule.lead \in 0..14 /\ rule.lead \in 0..28
    BY RulesAssumption DEF TypeOK
  <2>3. isRealDate(birthday)
    BY <2>2, AddDaysReal DEF TypeOK
  <2>4. digest \in Digests
    BY <2>2, <2>3 DEF TypeOK, Eligible, isRealDate, Dates
  <2>5. digests' \subseteq Digests
    BY <1>3, <2>4 DEF TypeOK, runBirthdayNotifications
  <2>6. ticks' \in [Processes -> SUBSET Ticks]
    BY <1>3, <2>1 DEF TypeOK, runBirthdayNotifications, GoOn
  <2> QED BY <1>3, <2>5, <2>6 DEF TypeOK, runBirthdayNotifications, timeVars, boundVars
<1>4. ASSUME NEW p \in Processes, NEW t \in ticks[p], finishTick(p, t) PROVE TypeOK'
  BY <1>4 DEF TypeOK, finishTick, timeVars, boundVars
<1>5. ASSUME NEW p \in Processes, NEW t \in ticks[p], failTick(p, t) PROVE TypeOK'
  BY <1>5 DEF TypeOK, failTick, timeVars
<1>6. ASSUME NEW p \in Processes, FallAsleep(p) PROVE TypeOK'
  <2>1. NoMinute \in [day : Dates, minute : Minutes]
    BY CalendarAssumption DEF NoMinute, Dates, Minutes
  <2> QED BY <1>6, <2>1 DEF TypeOK, FallAsleep, timeVars
<1>7. ASSUME NEW p \in Processes, WakeUp(p) PROVE TypeOK'
  <2>1. Tick(TRUE) \in Ticks
    BY TicksAreTicks
  <2> QED BY <1>7, <2>1 DEF TypeOK, WakeUp, timeVars, boundVars
<1>8. CASE NextMinute
  <2>1. isRealDate(today') /\ elapsed' \in 0..Horizon /\ minute' \in Minutes
    <3>1. CASE minute < MinutesPerDay - 1 /\ minute' = minute + 1 /\ UNCHANGED <<today, elapsed>>
      BY <3>1, CalendarAssumption DEF TypeOK, Minutes
    <3>2. CASE elapsed < Horizon /\ minute' = 0 /\ today' = addDays(today, 1) /\ elapsed' = elapsed + 1
      <4>1. isRealDate(today')
        BY <3>2, AddDaysReal DEF TypeOK
      <4> QED BY <3>2, <4>1, CalendarAssumption DEF TypeOK, Minutes
    <3> QED BY <1>8, <3>1, <3>2 DEF NextMinute
  <2>2. delays' \in 0..MaxDelays
    BY <1>8 DEF TypeOK, NextMinute
  <2> QED BY <1>8, <2>1, <2>2 DEF TypeOK, NextMinute
<1>9. ASSUME NEW r \in Rules, ChangeRule(r) PROVE TypeOK'
  BY <1>9 DEF TypeOK, ChangeRule, updateNotificationRule, timeVars
<1>10. CASE UNCHANGED vars
  BY <1>10 DEF TypeOK, vars, timeVars, boundVars
<1> QED BY <1>1, <1>2, <1>3, <1>4, <1>5, <1>6, <1>7, <1>8, <1>9, <1>10 DEF Next

\* Type correctness: in particular the days that go by and the birthdays the
\* digests announce are dates of the calendar.
THEOREM TypeCorrect == Spec => []TypeOK
BY TypeInit, TypeStep, PTL DEF Spec

-----------------------------------------------------------------------------
(* The digests *)

\* What a run knew when it wrote a digest, under the one rule there has been.
Ruled ==
  changes = 0 =>
    \A k \in digests :
      /\ k.lead = rule.lead
      /\ k.members = Eligible(k.birthday)
      /\ k.birthday = addDays(k.delivery, rule.lead)
\* The UNIQUE key of a notification, without recipient and channel.
Keyed == \A j, k \in digests : j.birthday = k.birthday /\ j.lead = k.lead => j = k
RealBirthdays == \A k \in digests : isRealDate(k.birthday)

DigestsInv == Ruled /\ Keyed /\ RealBirthdays

LEMMA DigestsInit == Init => DigestsInv
BY DEF Init, DigestsInv, Ruled, Keyed, RealBirthdays

LEMMA DigestsStep == TypeOK /\ DigestsInv /\ [Next]_vars => DigestsInv'
<1> SUFFICES ASSUME TypeOK, DigestsInv, [Next]_vars PROVE DigestsInv'
  OBVIOUS
<1>1. ASSUME UNCHANGED <<digests, rule, changes>> PROVE DigestsInv'
  BY <1>1 DEF DigestsInv, Ruled, Keyed, RealBirthdays, Eligible
<1>2. ASSUME NEW p \in Processes, NEW t \in ticks[p], runBirthdayNotifications(p, t) PROVE DigestsInv'
  <2> DEFINE birthday == addDays(today, rule.lead)
             digest == [birthday |-> birthday, lead |-> rule.lead, delivery |-> today,
                        members |-> Eligible(birthday)]
  <2>1. UNCHANGED <<rule, changes>>
    BY <1>2 DEF runBirthdayNotifications, boundVars
  <2>2. CASE UNCHANGED digests
    BY <1>1, <2>1, <2>2
  <2>3. CASE /\ \A k \in digests : k.birthday = birthday => k.lead # rule.lead
             /\ digests' = digests \cup {digest}
    <3>1. isRealDate(birthday)
      BY AddDaysReal, RulesAssumption DEF TypeOK
    <3>2. Ruled'
      BY <2>1, <2>3 DEF DigestsInv, Ruled, Eligible
    <3>3. Keyed'
      BY <2>3 DEF DigestsInv, Keyed
    <3>4. RealBirthdays'
      BY <2>3, <3>1 DEF DigestsInv, RealBirthdays
    <3> QED BY <3>2, <3>3, <3>4 DEF DigestsInv
  <2> QED BY <1>2, <2>2, <2>3 DEF runBirthdayNotifications
<1>3. ASSUME NEW r \in Rules, ChangeRule(r) PROVE DigestsInv'
  <2>1. changes' # 0 /\ digests' = digests
    BY <1>3 DEF ChangeRule, updateNotificationRule, TypeOK
  <2> QED BY <2>1 DEF DigestsInv, Ruled, Keyed, RealBirthdays
<1>4. ASSUME NEW p \in Processes,
             \/ cron(p) \/ FallAsleep(p) \/ WakeUp(p)
             \/ \E t \in ticks[p] : readRule(p, t) \/ finishTick(p, t) \/ failTick(p, t)
      PROVE  UNCHANGED <<digests, rule, changes>>
  BY <1>4 DEF cron, FallAsleep, WakeUp, readRule, finishTick, failTick, boundVars
<1>5. CASE NextMinute
  BY <1>1, <1>5 DEF NextMinute
<1>6. CASE UNCHANGED vars
  BY <1>1, <1>6 DEF vars, boundVars
<1> QED BY <1>1, <1>2, <1>3, <1>4, <1>5, <1>6 DEF Next

LEMMA Known == TypeOK /\ DigestsInv => CelebratedOnce /\ DigestIsExact
<1> SUFFICES ASSUME TypeOK, DigestsInv PROVE CelebratedOnce /\ DigestIsExact
  OBVIOUS
<1>1. rule.policy \in Policies
  BY TimesAssumption DEF TypeOK
<1>2. ASSUME NEW k \in digests, changes = 0
      PROVE  k.members = {m \in Members : Celebration(m, k.birthday.year, rule.policy) = k.birthday}
  <2>1. isRealDate(k.birthday) /\ k.members = Eligible(k.birthday)
    BY <1>2 DEF DigestsInv, Ruled, RealBirthdays
  <2>2. \A m \in Members : birthdayMatchesDate(m, k.birthday, rule.policy)
                           <=> k.birthday = Celebration(m, k.birthday.year, rule.policy)
    BY <1>1, <2>1, OneCelebrationAYear, CalendarAssumption
  <2> QED BY <2>1, <2>2 DEF Eligible
<1>3. DigestIsExact
  BY <1>2 DEF DigestIsExact, DigestsInv, Ruled
<1>4. CelebratedOnce
  <2> SUFFICES ASSUME NEW j \in digests, NEW k \in digests, changes = 0,
                      NEW m \in j.members \cap k.members, j.birthday.year = k.birthday.year
               PROVE  j = k
    BY DEF CelebratedOnce
  <2>1. j.birthday = k.birthday
    BY <1>2
  <2>2. j.lead = k.lead
    BY DEF DigestsInv, Ruled
  <2> QED BY <2>1, <2>2 DEF DigestsInv, Keyed
<1> QED BY <1>3, <1>4

\* Nobody is congratulated twice on one birthday, for any processes, members,
\* rule and days: late, failed and repeated ticks and restarts included.
THEOREM Once == Spec => []CelebratedOnce
<1>1. Init => DigestsInv
  BY DigestsInit
<1>2. TypeOK /\ DigestsInv /\ [Next]_vars => DigestsInv'
  BY DigestsStep
<1>3. TypeOK /\ DigestsInv => CelebratedOnce
  BY Known
<1> QED BY <1>1, <1>2, <1>3, TypeCorrect, PTL DEF Spec

\* A digest counts who celebrates on the day it announces, and only them, and
\* announces it the rule's lead days ahead.
THEOREM Exact == Spec => []DigestIsExact
<1>1. Init => DigestsInv
  BY DigestsInit
<1>2. TypeOK /\ DigestsInv /\ [Next]_vars => DigestsInv'
  BY DigestsStep
<1>3. TypeOK /\ DigestsInv => DigestIsExact
  BY Known
<1> QED BY <1>1, <1>2, <1>3, TypeCorrect, PTL DEF Spec

-----------------------------------------------------------------------------
(* Days that differ by less than a month                                     *)

\* The three forms a date so many days later takes.
LEMMA AddDaysForms ==
  ASSUME NEW from, isRealDate(from), NEW amount \in 0..28
  PROVE  /\ from.day + amount <= LastDay(from.year, from.month)
            => addDays(from, amount) = [year |-> from.year, month |-> from.month, day |-> from.day + amount]
         /\ from.day + amount > LastDay(from.year, from.month) /\ from.month < 12
            => addDays(from, amount) = [year |-> from.year, month |-> from.month + 1,
                                        day |-> from.day + amount - LastDay(from.year, from.month)]
         /\ from.day + amount > LastDay(from.year, from.month) /\ from.month = 12
            => addDays(from, amount) = [year |-> from.year + 1, month |-> 1,
                                        day |-> from.day + amount - LastDay(from.year, from.month)]
         /\ LastDay(from.year, from.month) \in 28..31
         /\ from.day \in 1..LastDay(from.year, from.month)
<1>1. /\ from \in [year : Nat, month : 1..12, day : 1..31]
      /\ from.day <= LastDay(from.year, from.month)
      /\ LastDay(from.year, from.month) \in 28..31
  BY LastDayLength DEF isRealDate
<1>2. from = [year |-> from.year, month |-> from.month, day |-> from.day]
  BY <1>1
<1> HIDE DEF LastDay
<1>3. from.day + amount <= LastDay(from.year, from.month)
      => addDays(from, amount) = [year |-> from.year, month |-> from.month, day |-> from.day + amount]
  BY <1>1, <1>2 DEF addDays
<1> DEFINE day == from.day + amount
           last == LastDay(from.year, from.month)
<1>4. ASSUME ~(day <= last) /\ from.month < 12
      PROVE  addDays(from, amount) = [year |-> from.year, month |-> from.month + 1, day |-> day - last]
  <2>1. addDays(from, amount) = [from EXCEPT !.month = @ + 1, !.day = day - last]
    BY <1>4 DEF addDays
  <2> QED BY <1>1, <2>1
<1>5. from.day + amount > LastDay(from.year, from.month) /\ from.month = 12
      => addDays(from, amount) = [year |-> from.year + 1, month |-> 1,
                                  day |-> from.day + amount - LastDay(from.year, from.month)]
  BY <1>1, <1>2 DEF addDays
<1> QED BY <1>1, <1>3, <1>4, <1>5

\* A day later is a day more.
LEMMA AddOneDay ==
  ASSUME NEW from, isRealDate(from), NEW amount \in 0..27
  PROVE  addDays(addDays(from, amount), 1) = addDays(from, amount + 1)
<1> DEFINE last == LastDay(from.year, from.month)
           then == addDays(from, amount)
<1>1. /\ from \in [year : Nat, month : 1..12, day : 1..31]
      /\ amount \in 0..28 /\ amount + 1 \in 0..28 /\ 1 \in 0..28
  BY DEF isRealDate
<1>2. isRealDate(then)
  BY <1>1, AddDaysReal
<1>3. last \in 28..31 /\ from.day \in 1..last
  BY <1>1, AddDaysForms
<1>4. CASE from.day + amount <= last
  <2>1. then = [year |-> from.year, month |-> from.month, day |-> from.day + amount]
    BY <1>1, <1>4, AddDaysForms
  <2>2. LastDay(then.year, then.month) = last
    BY <2>1
  <2>3. CASE from.day + amount + 1 <= last
    <3>1. addDays(then, 1) = [year |-> from.year, month |-> from.month, day |-> from.day + amount + 1]
      BY <1>1, <1>2, <2>1, <2>2, <2>3, AddDaysForms
    <3>2. addDays(from, amount + 1) = [year |-> from.year, month |-> from.month, day |-> from.day + (amount + 1)]
      BY <1>1, <1>3, <2>3, AddDaysForms
    <3> QED BY <1>1, <3>1, <3>2
  <2>4. CASE from.day + amount = last /\ from.month < 12
    <3>1. addDays(then, 1) = [year |-> from.year, month |-> from.month + 1, day |-> 1]
      BY <1>1, <1>2, <1>3, <2>1, <2>2, <2>4, AddDaysForms
    <3>2. addDays(from, amount + 1) = [year |-> from.year, month |-> from.month + 1, day |-> 1]
      BY <1>1, <1>3, <2>4, AddDaysForms
    <3> QED BY <3>1, <3>2
  <2>5. CASE from.day + amount = last /\ from.month = 12
    <3>1. addDays(then, 1) = [year |-> from.year + 1, month |-> 1, day |-> 1]
      BY <1>1, <1>2, <1>3, <2>1, <2>2, <2>5, AddDaysForms
    <3>2. addDays(from, amount + 1) = [year |-> from.year + 1, month |-> 1, day |-> 1]
      BY <1>1, <1>3, <2>5, AddDaysForms
    <3> QED BY <3>1, <3>2
  <2> QED BY <1>1, <1>3, <1>4, <2>3, <2>4, <2>5
<1>5. CASE from.day + amount > last
  <2>1. from.day + (amount + 1) > last
    BY <1>1, <1>3, <1>5
  <2>2. LastDay(then.year, then.month) \in 28..31
    BY <1>1, <1>2, AddDaysForms
  <2>3. CASE from.month < 12
    <3>1. then = [year |-> from.year, month |-> from.month + 1, day |-> from.day + amount - last]
      BY <1>1, <1>5, <2>3, AddDaysForms
    <3>2. then.day + 1 <= LastDay(then.year, then.month)
      BY <1>1, <1>3, <2>2, <3>1
    <3>3. addDays(then, 1) = [year |-> from.year, month |-> from.month + 1, day |-> from.day + amount - last + 1]
      BY <1>1, <1>2, <3>1, <3>2, AddDaysForms
    <3>4. addDays(from, amount + 1) = [year |-> from.year, month |-> from.month + 1,
                                       day |-> from.day + (amount + 1) - last]
      BY <1>1, <2>1, <2>3, AddDaysForms
    <3> QED BY <1>1, <1>3, <3>3, <3>4
  <2>4. CASE from.month = 12
    <3>1. then = [year |-> from.year + 1, month |-> 1, day |-> from.day + amount - last]
      BY <1>1, <1>5, <2>4, AddDaysForms
    <3>2. then.day + 1 <= LastDay(then.year, then.month)
      BY <1>1, <1>3, <2>2, <3>1
    <3>3. addDays(then, 1) = [year |-> from.year + 1, month |-> 1, day |-> from.day + amount - last + 1]
      BY <1>1, <1>2, <3>1, <3>2, AddDaysForms
    <3>4. addDays(from, amount + 1) = [year |-> from.year + 1, month |-> 1,
                                       day |-> from.day + (amount + 1) - last]
      BY <1>1, <2>1, <2>4, AddDaysForms
    <3> QED BY <1>1, <1>3, <3>3, <3>4
  <2> QED BY <1>1, <2>3, <2>4
<1> QED BY <1>1, <1>3, <1>4, <1>5

\* A day within the month, or one of the next month that is no later than the amount.
LEMMA AddDaysParts ==
  ASSUME NEW from, isRealDate(from), NEW amount \in 0..28
  PROVE  LET then == addDays(from, amount)
             last == LastDay(from.year, from.month)
         IN  /\ last \in 28..31 /\ from.day \in 1..last
             /\ \/ /\ from.day + amount <= last
                   /\ then.year = from.year /\ then.month = from.month /\ then.day = from.day + amount
                \/ /\ from.day + amount > last /\ then.day = from.day + amount - last
                   /\ \/ from.month < 12 /\ then.year = from.year /\ then.month = from.month + 1
                      \/ from.month = 12 /\ then.year = from.year + 1 /\ then.month = 1
<1> DEFINE last == LastDay(from.year, from.month)
<1>1. from \in [year : Nat, month : 1..12, day : 1..31]
  BY DEF isRealDate
<1>2. last \in 28..31 /\ from.day \in 1..last
  BY AddDaysForms
<1>3. CASE from.day + amount <= last
  BY <1>2, <1>3, AddDaysForms
<1>4. CASE from.day + amount > last /\ from.month < 12
  BY <1>2, <1>4, AddDaysForms
<1>5. CASE from.day + amount > last /\ from.month = 12
  BY <1>2, <1>5, AddDaysForms
<1> QED BY <1>1, <1>2, <1>3, <1>4, <1>5

\* Different amounts lead to different days, and no day lies before its year.
LEMMA AmountsDiffer ==
  ASSUME NEW from, isRealDate(from), NEW a \in 0..28, NEW b \in 0..28,
         addDays(from, a) = addDays(from, b)
  PROVE  a = b
<1> DEFINE last == LastDay(from.year, from.month)
           then == addDays(from, a)
<1>1. from \in [year : Nat, month : 1..12, day : 1..31]
  BY DEF isRealDate
<1>2. last \in 28..31 /\ from.day \in 1..last
  BY AddDaysForms
<1>3. \/ from.day + a <= last /\ then.month = from.month /\ then.day = from.day + a
      \/ /\ from.day + a > last /\ then.day = from.day + a - last
         /\ \/ from.month < 12 /\ then.month = from.month + 1
            \/ from.month = 12 /\ then.month = 1
  BY AddDaysParts
<1>4. \/ from.day + b <= last /\ then.month = from.month /\ then.day = from.day + b
      \/ /\ from.day + b > last /\ then.day = from.day + b - last
         /\ \/ from.month < 12 /\ then.month = from.month + 1
            \/ from.month = 12 /\ then.month = 1
  BY AddDaysParts
<1> HIDE DEF last, then
<1> QED BY <1>1, <1>2, <1>3, <1>4

LEMMA YearsGrow ==
  ASSUME NEW from, isRealDate(from), NEW amount \in 0..28
  PROVE  addDays(from, amount).year >= from.year
<1>1. from \in [year : Nat, month : 1..12, day : 1..31]
  BY DEF isRealDate
<1>2. CASE from.day + amount <= LastDay(from.year, from.month)
  BY <1>1, <1>2, AddDaysForms
<1>3. CASE from.day + amount > LastDay(from.year, from.month) /\ from.month < 12
  BY <1>1, <1>3, AddDaysForms
<1>4. CASE from.day + amount > LastDay(from.year, from.month) /\ from.month = 12
  BY <1>1, <1>4, AddDaysForms
<1>5. LastDay(from.year, from.month) \in 28..31
  BY AddDaysForms
<1> QED BY <1>1, <1>2, <1>3, <1>4, <1>5

\* One birthday is announced on one day: no two days lie the same amount before it.
LEMMA DaysDiffer ==
  ASSUME NEW c, isRealDate(c), NEW d, isRealDate(d), NEW amount \in 0..28,
         addDays(c, amount) = addDays(d, amount)
  PROVE  c = d
<1>1. /\ c \in [year : Nat, month : 1..12, day : 1..31]
      /\ d \in [year : Nat, month : 1..12, day : 1..31]
  BY DEF isRealDate
<1>2. /\ LastDay(c.year, c.month) \in 28..31 /\ c.day \in 1..LastDay(c.year, c.month)
      /\ LastDay(d.year, d.month) \in 28..31 /\ d.day \in 1..LastDay(d.year, d.month)
  BY AddDaysForms
<1> DEFINE then == addDays(c, amount)
           Steps(from) ==
             LET last == LastDay(from.year, from.month)
             IN  \/ /\ from.day + amount <= last
                    /\ then.year = from.year /\ then.month = from.month /\ then.day = from.day + amount
                 \/ /\ from.day + amount > last /\ then.day = from.day + amount - last
                    /\ \/ from.month < 12 /\ then.year = from.year /\ then.month = from.month + 1
                       \/ from.month = 12 /\ then.year = from.year + 1 /\ then.month = 1
<1>3. Steps(c) /\ Steps(d)
  BY AddDaysParts
<1> HIDE DEF then
<1>4. c.year = d.year /\ c.month = d.month
  BY <1>1, <1>2, <1>3
<1>5. LastDay(c.year, c.month) = LastDay(d.year, d.month)
  BY <1>4
<1>6. c.day = d.day
  BY <1>1, <1>2, <1>3, <1>5
<1> QED BY <1>1, <1>4, <1>6

-----------------------------------------------------------------------------
(* Nobody is forgotten                                                       *)

\* Every process runs, no tick failed or outlasted its minute, and the rule is
\* switched on and was never changed.
Quiet == naps + failures + changes + delays = 0 /\ rule.enabled

DayAfter(i) == addDays(first, i)

\* Everybody who celebrates rule.lead days after day i is in a digest of day i.
Served(i) ==
  \A m \in Members :
    LET birthday == addDays(DayAfter(i), rule.lead)
    IN  birthday = Celebration(m, birthday.year, rule.policy)
        => \E k \in digests : k.delivery = DayAfter(i) /\ m \in k.members

\* On quiet days the ticks are those of the minute, and none is a first one.
Prompt ==
  \A p \in Processes :
    /\ awake[p]
    /\ \A t \in ticks[p] : ~t.initial /\ t.day = today /\ t.minute = minute

\* What a process remembers is a minute that has come.
Remembered ==
  \A p \in Processes :
    \/ lastRunMinute[p] = NoMinute
    \/ \E i \in 0..elapsed : /\ lastRunMinute[p].day = DayAfter(i)
                             /\ i = elapsed => lastRunMinute[p].minute <= minute

\* A process whose cron fired in the alert minute, or which remembers this minute,
\* is at it or everybody is served.
AtWork ==
  \A p \in Processes :
    /\ fired[p] /\ minute = rule.alertTime
         => (\E t \in ticks[p] : t.step \in {"read", "run"}) \/ Served(elapsed)
    /\ lastRunMinute[p] = [day |-> today, minute |-> minute]
         => (\E t \in ticks[p] : t.step = "run") \/ Served(elapsed)

ServedSoFar ==
  \A i \in 0..elapsed : i < elapsed \/ minute > rule.alertTime => Served(i)

QuietInv == Quiet => Prompt /\ Remembered /\ AtWork /\ ServedSoFar
Dated == today = DayAfter(elapsed) /\ first.year > 0

LEMMA DatedStep == TypeOK /\ Dated /\ [Next]_vars => Dated'
<1> SUFFICES ASSUME TypeOK, Dated, [Next]_vars PROVE Dated'
  OBVIOUS
<1>1. CASE UNCHANGED timeVars
  BY <1>1 DEF Dated, DayAfter, timeVars
<1>2. CASE NextMinute
  <2>1. CASE UNCHANGED <<today, elapsed>>
    BY <1>2, <2>1 DEF NextMinute, Dated, DayAfter
  <2>2. CASE elapsed < Horizon /\ today' = addDays(today, 1) /\ elapsed' = elapsed + 1
    <3>1. isRealDate(first) /\ elapsed \in 0..27
      BY <2>2, BoundsAssumption DEF TypeOK
    <3> QED BY <1>2, <2>2, <3>1, AddOneDay DEF NextMinute, Dated, DayAfter
  <2> QED BY <1>2, <2>1, <2>2 DEF NextMinute
<1>3. CASE UNCHANGED vars
  BY <1>1, <1>3 DEF vars
<1> QED
  BY <1>1, <1>2, <1>3 DEF Next, cron, FallAsleep, WakeUp, readRule, runBirthdayNotifications,
     finishTick, failTick, ChangeRule, updateNotificationRule

\* Whoever celebrates is served once the run of the day is over: the digest it
\* wrote, or the one it found under the key, which can only be that of today.
LEMMA RunServes ==
  ASSUME TypeOK, DigestsInv, DigestsInv', Dated, changes = 0, rule.enabled,
         \A k \in digests : isRealDate(k.delivery),
         NEW p \in Processes, NEW t \in ticks[p], runBirthdayNotifications(p, t)
  PROVE  Served(elapsed)'
<1> DEFINE birthday == addDays(today, rule.lead)
<1>1. UNCHANGED <<timeVars, rule, changes>> /\ today = DayAfter(elapsed)
  BY DEF runBirthdayNotifications, boundVars, Dated
<1> SUFFICES ASSUME NEW m \in Members, birthday = Celebration(m, birthday.year, rule.policy)
             PROVE  \E k \in digests' : k.delivery = today /\ m \in k.members
  BY <1>1 DEF Served, DayAfter, timeVars
<1>2. rule.lead \in 0..28 /\ rule.policy \in Policies /\ isRealDate(today) /\ isRealDate(birthday)
  BY RulesAssumption, TimesAssumption, AddDaysReal DEF TypeOK
<1>3. m \in Eligible(birthday)
  BY <1>2, OneCelebrationAYear, CalendarAssumption DEF Eligible
<1>4. CASE \A k \in digests : k.birthday = birthday => k.lead # rule.lead
  BY <1>3, <1>4 DEF runBirthdayNotifications
<1>5. ASSUME NEW k \in digests, k.birthday = birthday, k.lead = rule.lead
      PROVE  k \in digests' /\ k.delivery = today /\ m \in k.members
  <2>1. k \in digests'
    BY DEF runBirthdayNotifications
  <2>2. k.members = Eligible(birthday) /\ birthday = addDays(k.delivery, rule.lead)
    BY <1>5 DEF DigestsInv, Ruled
  <2> QED BY <1>2, <1>3, <2>1, <2>2, DaysDiffer
<1> QED BY <1>4, <1>5

RealDeliveries == \A k \in digests : isRealDate(k.delivery)

LEMMA DeliveriesStep == TypeOK /\ RealDeliveries /\ [Next]_vars => RealDeliveries'
<1> SUFFICES ASSUME TypeOK, RealDeliveries, [Next]_vars PROVE RealDeliveries'
  OBVIOUS
<1>1. CASE UNCHANGED digests
  BY <1>1 DEF RealDeliveries
<1>2. ASSUME NEW p \in Processes, NEW t \in ticks[p], runBirthdayNotifications(p, t) PROVE RealDeliveries'
  BY <1>2 DEF runBirthdayNotifications, RealDeliveries, TypeOK
<1>3. CASE UNCHANGED vars
  BY <1>1, <1>3 DEF vars
<1> QED
  BY <1>1, <1>2, <1>3 DEF Next, cron, FallAsleep, WakeUp, readRule, NextMinute,
     finishTick, failTick, ChangeRule, updateNotificationRule

\* Quiet days were quiet all along, under the rule of now.
LEMMA QuietBefore ==
  ASSUME TypeOK, [Next]_vars, Quiet'
  PROVE  Quiet /\ changes = 0 /\ rule' = rule /\ UNCHANGED boundVars
<1> USE DEF Quiet, TypeOK
<1>1. /\ naps \in Nat /\ failures \in Nat /\ changes \in Nat /\ delays \in Nat
  BY BoundsAssumption, ChangesAssumption
<1>2. CASE UNCHANGED <<rule, boundVars>>
  BY <1>1, <1>2 DEF boundVars
<1>3. CASE NextMinute
  BY <1>1, <1>3 DEF NextMinute, boundVars
<1>4. ASSUME NEW p \in Processes,
             FallAsleep(p) \/ \E t \in ticks[p] : failTick(p, t)
      PROVE  FALSE
  BY <1>1, <1>4 DEF FallAsleep, failTick, boundVars
<1>5. ASSUME NEW r \in Rules, ChangeRule(r) PROVE FALSE
  BY <1>1, <1>5 DEF ChangeRule, updateNotificationRule
<1>6. CASE UNCHANGED vars
  BY <1>2, <1>6 DEF vars
<1> QED
  BY <1>2, <1>3, <1>4, <1>5, <1>6 DEF Next, cron, WakeUp, readRule, runBirthdayNotifications, finishTick

\* Serving goes on serving: steps of one minute write digests and remove none.
LEMMA ServedStays ==
  ASSUME NEW i, Served(i), digests \subseteq digests', first' = first, rule' = rule
  PROVE  Served(i)'
BY DEF Served, DayAfter

LEMMA QuietStep ==
  ASSUME Processes # {}
  PROVE  TypeOK /\ DigestsInv /\ DigestsInv' /\ Dated /\ RealDeliveries /\ QuietInv /\ [Next]_vars => QuietInv'
<1> SUFFICES ASSUME TypeOK, DigestsInv, DigestsInv', Dated, RealDeliveries, QuietInv, [Next]_vars, Quiet'
             PROVE  Prompt' /\ Remembered' /\ AtWork' /\ ServedSoFar'
  BY DEF QuietInv
<1>1. Quiet /\ changes = 0 /\ rule' = rule /\ rule.enabled /\ UNCHANGED boundVars
  BY QuietBefore DEF Quiet
<1>2. Prompt /\ Remembered /\ AtWork /\ ServedSoFar
  BY <1>1 DEF QuietInv
<1>3. elapsed \in 0..28 /\ minute \in Nat /\ rule.alertTime \in 0..(MinutesPerDay - 1) /\ isRealDate(first)
      /\ minute \in 0..(MinutesPerDay - 1) /\ MinutesPerDay \in Nat \ {0}
  BY BoundsAssumption, TimesAssumption, CalendarAssumption DEF TypeOK, Minutes
<1>4. ASSUME NEW p \in Processes, cron(p) PROVE Prompt' /\ Remembered' /\ AtWork' /\ ServedSoFar'
  <2>1. /\ UNCHANGED <<timeVars, awake, lastRunMinute, digests>>
        /\ fired' = [fired EXCEPT ![p] = TRUE] /\ ticks' = [ticks EXCEPT ![p] = @ \cup {Tick(FALSE)}]
    BY <1>4 DEF cron
  <2>2. /\ \A q \in Processes : ticks[q] \subseteq ticks'[q]
        /\ \A q \in Processes : q # p => ticks'[q] = ticks[q] /\ fired'[q] = fired[q]
        /\ ticks'[p] = ticks[p] \cup {Tick(FALSE)}
    BY <2>1 DEF TypeOK
  <2>3. Served(elapsed) => Served(elapsed)'
    BY <1>1, <2>1 DEF Served, DayAfter, timeVars
  <2>4. Prompt'
    BY <1>2, <2>1, <2>2 DEF Prompt, Tick, timeVars
  <2>5. Remembered' /\ ServedSoFar'
    BY <1>1, <1>2, <2>1 DEF Remembered, ServedSoFar, Served, DayAfter, timeVars
  <2>6. Tick(FALSE) \in ticks'[p] /\ Tick(FALSE).step = "read"
    BY <2>2 DEF Tick
  <2>7. AtWork'
    <3> SUFFICES ASSUME NEW q \in Processes
                 PROVE  /\ fired'[q] /\ minute = rule.alertTime
                             => (\E v \in ticks'[q] : v.step \in {"read", "run"}) \/ Served(elapsed)'
                        /\ lastRunMinute[q] = [day |-> today, minute |-> minute]
                             => (\E v \in ticks'[q] : v.step = "run") \/ Served(elapsed)'
      BY <1>1, <2>1 DEF AtWork, timeVars
    <3>1. CASE q = p
      BY <1>2, <2>2, <2>3, <2>6, <3>1 DEF AtWork
    <3>2. CASE q # p
      BY <1>2, <2>2, <2>3, <3>2 DEF AtWork
    <3> QED BY <3>1, <3>2
  <2> QED BY <2>4, <2>5, <2>7
<1>5. ASSUME NEW p \in Processes, NEW t \in ticks[p], readRule(p, t)
      PROVE  Prompt' /\ Remembered' /\ AtWork' /\ ServedSoFar'
  <2>1. UNCHANGED <<timeVars, awake, fired, digests>> /\ t.step = "read"
    BY <1>5 DEF readRule
  <2>2. t \in Ticks /\ t.day = today /\ t.minute = minute /\ ~t.initial /\ today = DayAfter(elapsed)
    BY <1>2 DEF Prompt, TypeOK, Dated
  <2>3. PICK step \in {"run", "drain"} :
          /\ ticks' = [ticks EXCEPT ![p] = (@ \ {t}) \cup {[t EXCEPT !.step = step]}]
          /\ step = "run" => /\ Due(p, t)
                             /\ lastRunMinute' = [lastRunMinute EXCEPT ![p] = [day |-> today, minute |-> minute]]
          /\ step = "drain" => ~Due(p, t) /\ lastRunMinute' = lastRunMinute
    BY <1>5, <2>2 DEF readRule, GoOn
  <2> DEFINE u == [t EXCEPT !.step = step]
  <2>4. u.step = step /\ u.day = today /\ u.minute = minute /\ ~u.initial
    BY <2>2 DEF Ticks
  <2>5. /\ ticks'[p] = (ticks[p] \ {t}) \cup {u}
        /\ \A q \in Processes : q # p => ticks'[q] = ticks[q] /\ lastRunMinute'[q] = lastRunMinute[q]
        /\ lastRunMinute'[p] = IF step = "run" THEN [day |-> today, minute |-> minute] ELSE lastRunMinute[p]
    BY <2>3 DEF TypeOK
  <2> HIDE DEF u
  <2>6. Prompt'
    BY <1>2, <2>1, <2>4, <2>5 DEF Prompt, timeVars
  <2>7. Remembered'
    BY <1>2, <1>3, <2>1, <2>2, <2>5 DEF Remembered, DayAfter, timeVars
  <2>8. ServedSoFar' /\ (Served(elapsed) => Served(elapsed)')
    BY <1>1, <1>2, <2>1 DEF ServedSoFar, Served, DayAfter, timeVars
  <2>9. AtWork'
    <3> SUFFICES ASSUME NEW q \in Processes
                 PROVE  /\ fired'[q] /\ minute' = rule'.alertTime
                             => (\E v \in ticks'[q] : v.step \in {"read", "run"}) \/ Served(elapsed)'
                        /\ lastRunMinute'[q] = [day |-> today', minute |-> minute']
                             => (\E v \in ticks'[q] : v.step = "run") \/ Served(elapsed)'
      BY DEF AtWork
    <3>1. CASE q # p
      BY <1>1, <1>2, <2>1, <2>5, <2>8, <3>1 DEF AtWork, timeVars
    <3>2. CASE q = p /\ step = "run"
      BY <2>4, <2>5, <3>2
    <3>3. CASE q = p /\ step = "drain"
      <4>1. lastRunMinute[p] = [day |-> today, minute |-> minute]
            => (\E v \in ticks'[p] : v.step = "run") \/ Served(elapsed)'
        BY <1>2, <2>1, <2>5, <2>8 DEF AtWork
      <4>2. minute = rule.alertTime => lastRunMinute[p] = [day |-> today, minute |-> minute]
        BY <1>1, <2>2, <2>3, <3>3 DEF Due
      <4> QED BY <1>1, <2>1, <2>5, <3>3, <4>1, <4>2 DEF timeVars
    <3> QED BY <3>1, <3>2, <3>3
  <2> QED BY <2>6, <2>7, <2>8, <2>9
<1>6. ASSUME NEW p \in Processes, NEW t \in ticks[p],
             runBirthdayNotifications(p, t) \/ finishTick(p, t)
      PROVE  Prompt' /\ Remembered' /\ AtWork' /\ ServedSoFar'
  <2>1. UNCHANGED <<timeVars, awake, fired, lastRunMinute>> /\ digests \subseteq digests'
    BY <1>6 DEF runBirthdayNotifications, finishTick
  <2>2. \A i : Served(i) => Served(i)'
    BY <1>1, <2>1, ServedStays DEF timeVars
  <2>3. t \in Ticks /\ t.day = today /\ t.minute = minute /\ ~t.initial
    BY <1>2 DEF Prompt, TypeOK
  <2>4. \A q \in Processes : \A v \in ticks'[q] :
          v \in ticks[q] \/ (v.day = today /\ v.minute = minute /\ ~v.initial)
    BY <1>6, <2>3 DEF runBirthdayNotifications, finishTick, GoOn, TypeOK, Ticks
  <2>5. Prompt' /\ Remembered' /\ ServedSoFar'
    BY <1>1, <1>2, <2>1, <2>2, <2>4 DEF Prompt, Remembered, ServedSoFar, DayAfter, timeVars
  <2>6. CASE runBirthdayNotifications(p, t)
    <3>1. Served(elapsed)'
      BY <1>1, <2>6, RunServes DEF RealDeliveries
    <3> QED BY <2>5, <3>1 DEF AtWork
  <2>7. CASE finishTick(p, t)
    <3>1. \A q \in Processes : \A v \in ticks[q] : v.step \in {"read", "run"} => v \in ticks'[q]
      BY <2>7 DEF finishTick, TypeOK
    <3>2. Served(elapsed) => Served(elapsed)'
      BY <2>1, <2>2 DEF timeVars
    <3>3. AtWork'
      BY <1>1, <1>2, <2>1, <3>1, <3>2 DEF AtWork, timeVars
    <3> QED BY <2>5, <3>3
  <2> QED BY <1>6, <2>6, <2>7
<1>7. CASE NextMinute
  <2>1. /\ \A p \in Processes : ticks[p] = {}
        /\ UNCHANGED <<first, awake, lastRunMinute, ticks, digests>>
        /\ \A p \in Processes : awake[p] /\ fired[p] /\ ~fired'[p]
    <3>1. \A p \in Processes : ticks[p] = {}
      BY <1>1, <1>7, BoundsAssumption, ChangesAssumption DEF NextMinute, boundVars, TypeOK
    <3>2. \A p \in Processes : awake[p] /\ (awake[p] => fired[p] \/ Starting(p))
      BY <1>2, <1>7 DEF NextMinute, Prompt
    <3> QED BY <1>7, <3>1, <3>2 DEF NextMinute, Starting
  <2>2. \/ minute < MinutesPerDay - 1 /\ minute' = minute + 1 /\ UNCHANGED <<today, elapsed>>
        \/ /\ minute = MinutesPerDay - 1 /\ elapsed < Horizon
           /\ minute' = 0 /\ today' = addDays(today, 1) /\ elapsed' = elapsed + 1
    BY <1>7 DEF NextMinute
  <2>3. minute >= rule.alertTime => Served(elapsed)
    <3>1. minute = rule.alertTime => Served(elapsed)
      BY <1>2, <2>1 DEF AtWork
    <3>2. minute > rule.alertTime => Served(elapsed)
      BY <1>2, <1>3 DEF ServedSoFar
    <3> QED BY <1>3, <3>1, <3>2
  <2>4. \A i : Served(i) => Served(i)'
    BY <1>1, <2>1, ServedStays
  <2>5. ServedSoFar'
    BY <1>1, <1>2, <1>3, <2>2, <2>3, <2>4 DEF ServedSoFar
  <2>6. Remembered'
    <3> SUFFICES ASSUME NEW p \in Processes, NEW i \in 0..elapsed, lastRunMinute[p].day = DayAfter(i),
                        i = elapsed => lastRunMinute[p].minute <= minute
                 PROVE  /\ i \in 0..elapsed' /\ lastRunMinute'[p].day = DayAfter(i)'
                        /\ i = elapsed' => lastRunMinute'[p].minute <= minute'
      BY <1>2, <2>1 DEF Remembered
    <3>1. lastRunMinute[p].minute \in Nat
      BY <1>3 DEF TypeOK, Minutes
    <3> QED BY <1>3, <2>1, <2>2, <3>1 DEF DayAfter
  <2>7. ASSUME NEW p \in Processes PROVE lastRunMinute'[p] # [day |-> today', minute |-> minute']
    <3>1. today' = DayAfter(elapsed') /\ elapsed' \in 0..28 /\ first' = first /\ first.year > 0
          /\ first.year \in Nat
      <4>1. Dated'
        BY DatedStep
      <4> QED BY <1>3, <2>1, <2>2, <4>1, BoundsAssumption DEF Dated, DayAfter, TypeOK, isRealDate
    <3>2. today'.year > 0 /\ today'.year \in Nat
      <4>1. isRealDate(today')
        BY TypeStep DEF TypeOK
      <4>2. today'.year >= first.year
        BY <1>3, <3>1, YearsGrow DEF DayAfter
      <4> QED BY <3>1, <4>1, <4>2 DEF isRealDate
    <3>3. CASE lastRunMinute[p] = NoMinute
      BY <2>1, <3>2, <3>3 DEF NoMinute
    <3>4. ASSUME NEW i \in 0..elapsed, lastRunMinute[p].day = DayAfter(i),
                 i = elapsed => lastRunMinute[p].minute <= minute
          PROVE  lastRunMinute[p] # [day |-> today', minute |-> minute']
      <4>1. SUFFICES ASSUME lastRunMinute[p] = [day |-> today', minute |-> minute'] PROVE FALSE
        OBVIOUS
      <4>2. addDays(first, i) = addDays(first, elapsed')
        BY <3>1, <3>4, <4>1 DEF DayAfter
      <4>3. i = elapsed'
        BY <1>3, <3>1, <4>2, AmountsDiffer
      <4>4. i = elapsed /\ minute' = minute + 1
        BY <1>3, <2>2, <4>3
      <4> QED BY <1>3, <3>4, <4>1, <4>4
    <3> QED BY <1>2, <2>1, <3>3, <3>4 DEF Remembered
  <2>8. AtWork'
    BY <2>1, <2>7 DEF AtWork
  <2>9. Prompt'
    BY <1>2, <2>1 DEF Prompt
  <2> QED BY <2>5, <2>6, <2>8, <2>9
<1>8. ASSUME NEW p \in Processes, WakeUp(p) PROVE FALSE
  BY <1>2, <1>8 DEF WakeUp, Prompt
<1>9. ASSUME NEW p \in Processes, FallAsleep(p) \/ \E t \in ticks[p] : failTick(p, t) PROVE FALSE
  BY <1>1, <1>9, BoundsAssumption, ChangesAssumption DEF FallAsleep, failTick, boundVars, TypeOK
<1>10. ASSUME NEW r \in Rules, ChangeRule(r) PROVE FALSE
  BY <1>1, <1>10 DEF ChangeRule, updateNotificationRule
<1>11. CASE UNCHANGED vars
  BY <1>2, <1>11 DEF vars, timeVars, Prompt, Remembered, AtWork, ServedSoFar, Served, DayAfter
<1> QED BY <1>4, <1>5, <1>6, <1>7, <1>8, <1>9, <1>10, <1>11 DEF Next

\* The alert time is met every day by a process that runs (index.ts, worker.ts,
\* scheduler.ts): when ticks neither fail nor outlast their minute, no process
\* stops and the rule stays, everybody who celebrates is in a digest of the day
\* rule.lead days ahead.  The null that lastRunMinute starts from stands in the
\* year 0, which is none of the calendar's.
THEOREM NoneForgotten ==
  ASSUME Processes # {}, \A from \in FirstDays : from.year > 0
  PROVE  Spec => []NobodyForgotten
<1>1. Init => Dated /\ RealDeliveries /\ QuietInv /\ DigestsInv
  <2> SUFFICES ASSUME Init PROVE Dated /\ RealDeliveries /\ QuietInv
    BY DigestsInit
  <2>1. isRealDate(first) /\ elapsed = 0 /\ today = first /\ first.year > 0
    BY CalendarAssumption DEF Init
  <2>2. addDays(first, 0) = first
    <3>1. first \in [year : Nat, month : 1..12, day : 1..31]
      BY <2>1 DEF isRealDate
    <3> QED BY <2>1, <3>1, AddDaysForms
  <2>3. Dated /\ RealDeliveries
    BY <2>1, <2>2 DEF Dated, DayAfter, RealDeliveries, Init
  <2>4. Prompt /\ Remembered
    BY DEF Init, Prompt, Remembered
  <2>5. AtWork
    <3>1. first # NoMinute.day
      BY <2>1 DEF NoMinute
    <3> QED BY <3>1 DEF Init, AtWork, NoMinute
  <2>6. ServedSoFar
    <3>1. \A r \in Rules : ~(0 > r.alertTime)
      BY TimesAssumption, CalendarAssumption
    <3> QED BY <3>1 DEF Init, ServedSoFar
  <2> QED BY <2>3, <2>4, <2>5, <2>6 DEF QuietInv
<1>2. TypeOK /\ DigestsInv /\ [Next]_vars => DigestsInv'
  BY DigestsStep
<1>3. TypeOK /\ Dated /\ [Next]_vars => Dated'
  BY DatedStep
<1>4. TypeOK /\ RealDeliveries /\ [Next]_vars => RealDeliveries'
  BY DeliveriesStep
<1>5. TypeOK /\ DigestsInv /\ DigestsInv' /\ Dated /\ RealDeliveries /\ QuietInv /\ [Next]_vars => QuietInv'
  BY QuietStep
<1>6. TypeOK /\ QuietInv => NobodyForgotten
  <2> SUFFICES ASSUME TypeOK, QuietInv, NEW i \in 0..(elapsed - 1), NEW m \in Members,
                      rule.enabled, naps + failures + changes + delays = 0
               PROVE  LET birthday == addDays(DayAfter(i), rule.lead)
                      IN  birthday = Celebration(m, birthday.year, rule.policy)
                          => \E k \in digests : k.delivery = DayAfter(i) /\ m \in k.members
    BY DEF NobodyForgotten, DayAfter
  <2>1. Served(i)
    BY BoundsAssumption DEF QuietInv, Quiet, ServedSoFar, TypeOK
  <2> QED BY <2>1 DEF Served
<1> QED BY <1>1, <1>2, <1>3, <1>4, <1>5, <1>6, TypeCorrect, PTL DEF Spec

-----------------------------------------------------------------------------
(* A run and its steps.  What is one step of Schedule, in one process at a    *)
(* time, is in Digest a run of many steps beside others, for many users: the  *)
(* rest of this module is about Digest, for any number of runs, users, days   *)
(* and rules.                                                                 *)

\* The key a run computes for a user who is reachable is a key of the table.
LEMMA KeyForType ==
  ASSUME NEW r \in Runners, NEW u \in Users,
         usable[u] \subseteq Channels, usable[u] # {},
         seen[r] \in Rules, date[r] \in Days
  PROVE  KeyFor(r, u) \in Keys
<1>1. selectEndpoint(seen[r].channel, usable[u]) \in Channels
  <2>1. (CHOOSE c \in usable[u] : TRUE) \in usable[u]
    OBVIOUS
  <2> QED BY <2>1 DEF selectEndpoint
<1>2. KeyFor(r, u) \in [birthday : {d + seen[r].lead : d \in Days}, lead : {seen[r].lead},
                          user : Users, channel : Channels]
  BY <1>1 DEF KeyFor, Birthday
<1> QED BY <1>2 DEF Keys

\* A run past its start has a day and an enabled rule; what it is about to
\* insert or queue is a key.
RunStarted ==
  \A r \in Runners :
    /\ pc[r] # "idle" => date[r] \in Days /\ seen[r] \in Rules
    /\ pc[r] \in {"insert", "queue"} => target[r] \in Keys

RunInv == DigestTypeOK /\ RunStarted

LEMMA RunInit == DigestInit => RunInv
BY RunsAssumption, ChangesAssumption DEF DigestInit, RunInv, DigestTypeOK, RunStarted

LEMMA RunStep == RunInv /\ [DigestNext]_digestVars => RunInv'
<1> SUFFICES ASSUME RunInv, [DigestNext]_digestVars PROVE RunInv'
  OBVIOUS
<1> USE RunsAssumption, ChangesAssumption DEF RunInv, DigestTypeOK, RunStarted
<1>1. CASE UNCHANGED digestVars
  BY <1>1 DEF digestVars, runnerVars
<1>2. ASSUME NEW r \in Runners, NEW d \in Days, Start(r, d) PROVE RunInv'
  BY <1>2 DEF Start
<1>3. ASSUME NEW r \in Runners, getRecipientUsers(r) PROVE RunInv'
  BY <1>3 DEF getRecipientUsers, Recipients
<1>4. ASSUME NEW r \in Runners, NEW u \in Users, SelectUser(r, u) PROVE RunInv'
  <2>1. usable[u] # {} => KeyFor(r, u) \in Keys
    BY <1>4, KeyForType DEF SelectUser
  <2>2. target' \in [Runners -> Keys \cup {NoKey}]
    BY <1>4, <2>1 DEF SelectUser
  <2>3. RunStarted'
    BY <1>4, <2>1 DEF SelectUser
  <2> QED BY <1>4, <2>2, <2>3 DEF SelectUser
<1>5. ASSUME NEW r \in Runners, insertNotification(r) PROVE RunInv'
  BY <1>5 DEF insertNotification
<1>6. ASSUME NEW r \in Runners, queueOutboxJob(r) PROVE RunInv'
  BY <1>6 DEF queueOutboxJob
<1>7. ASSUME NEW r \in Runners, Finish(r) \/ Die(r) PROVE RunInv'
  BY <1>7 DEF Finish, Die, Forget
<1>8. ASSUME NEW q \in Rules, DigestChangeRule(q) PROVE RunInv'
  BY <1>8 DEF DigestChangeRule, updateNotificationRule, runnerVars
<1>9. ASSUME NEW u \in Users, NEW c \in SUBSET Channels, ChangeEndpoints(u, c) PROVE RunInv'
  BY <1>9 DEF ChangeEndpoints, runnerVars
<1> QED
  BY <1>1, <1>2, <1>3, <1>4, <1>5, <1>6, <1>7, <1>8, <1>9 DEF DigestNext, RunnerStep

LEMMA RunInvariance == DigestSpec => []RunInv
BY RunInit, RunStep, PTL DEF DigestSpec

\* Every reachable state has the types of the tables and of the run's local
\* variables; in particular every target is a well-formed notification_key.
THEOREM DigestTypes == DigestSpec => []DigestTypeOK
BY RunInvariance, PTL DEF RunInv

-----------------------------------------------------------------------------
\* The run that inserted a notification is the only one to queue its job, and
\* has not done so yet.
Reserved ==
  \A r \in Runners : pc[r] = "queue" =>
    /\ target[r] \in notifs /\ jobs[target[r]] = 0
    /\ \A q \in Runners : pc[q] = "queue" /\ target[q] = target[r] => q = r

JobInv == OneJobPerNotification /\ Reserved

LEMMA JobStep == RunInv /\ JobInv /\ [DigestNext]_digestVars => JobInv'
<1> SUFFICES ASSUME RunInv, JobInv, [DigestNext]_digestVars PROVE JobInv'
  OBVIOUS
<1> USE DEF JobInv, OneJobPerNotification, Reserved, RunInv, DigestTypeOK, RunStarted
<1>1. CASE UNCHANGED digestVars
  BY <1>1 DEF digestVars, runnerVars
<1>2. ASSUME NEW r \in Runners, NEW d \in Days, Start(r, d) PROVE JobInv'
  BY <1>2 DEF Start
<1>3. ASSUME NEW r \in Runners, getRecipientUsers(r) PROVE JobInv'
  BY <1>3 DEF getRecipientUsers
<1>4. ASSUME NEW r \in Runners, NEW u \in Users, SelectUser(r, u) PROVE JobInv'
  BY <1>4 DEF SelectUser
<1>5. ASSUME NEW r \in Runners, insertNotification(r) PROVE JobInv'
  <2>1. CASE Fresh(r)
    <3>1. /\ notifs' = notifs \cup {target[r]} /\ target' = target /\ jobs' = jobs
          /\ pc' = [pc EXCEPT ![r] = "queue"] /\ target[r] \notin notifs /\ target[r] \in Keys
      BY <1>5, <2>1 DEF insertNotification, Fresh
    <3>2. jobs[target[r]] = 0
      BY <3>1
    <3>3. \A q \in Runners : pc[q] = "queue" => target[q] # target[r]
      BY <3>1
    <3> QED BY <3>1, <3>2, <3>3
  <2>2. CASE ~Fresh(r)
    BY <1>5, <2>2 DEF insertNotification, Fresh
  <2> QED BY <2>1, <2>2
<1>6. ASSUME NEW r \in Runners, queueOutboxJob(r) PROVE JobInv'
  <2>1. /\ target[r] \in Keys /\ target[r] \in notifs /\ jobs[target[r]] = 0
        /\ \A q \in Runners : pc[q] = "queue" /\ q # r => target[q] # target[r]
    BY <1>6 DEF queueOutboxJob
  <2>2. /\ jobs' = [jobs EXCEPT ![target[r]] = 1] /\ notifs' = notifs
        /\ pc' = [pc EXCEPT ![r] = "user"]
        /\ \A q \in Runners : q # r => target'[q] = target[q]
    BY <1>6, <2>1 DEF queueOutboxJob
  <2>3. OneJobPerNotification'
    BY <2>1, <2>2
  <2>4. Reserved'
    BY <2>1, <2>2
  <2> QED BY <2>3, <2>4
<1>7. ASSUME NEW r \in Runners, Finish(r) \/ Die(r) PROVE JobInv'
  BY <1>7 DEF Finish, Die, Forget
<1>8. ASSUME NEW q \in Rules, DigestChangeRule(q) PROVE JobInv'
  BY <1>8 DEF DigestChangeRule, updateNotificationRule, runnerVars
<1>9. ASSUME NEW u \in Users, NEW c \in SUBSET Channels, ChangeEndpoints(u, c) PROVE JobInv'
  BY <1>9 DEF ChangeEndpoints, runnerVars
<1> QED
  BY <1>1, <1>2, <1>3, <1>4, <1>5, <1>6, <1>7, <1>8, <1>9 DEF DigestNext, RunnerStep

\* However many runs race, repeat each other or die between the insert and the
\* queueing, and however the rule and the endpoints change meanwhile, a
\* notification gets at most one outbox job, and no job lacks its notification.
THEOREM OneJob == DigestSpec => []OneJobPerNotification
<1>1. DigestInit => JobInv
  BY DEF DigestInit, JobInv, OneJobPerNotification, Reserved
<1>2. JobInv => OneJobPerNotification
  BY DEF JobInv
<1> QED BY <1>1, <1>2, JobStep, RunInvariance, PTL DEF DigestSpec

-----------------------------------------------------------------------------
(* A run leaves nobody out.                                                  *)

\* k is a digest for u about the day and lead the run of r is about.
For(k, r, u) == k.user = u /\ k.birthday = Birthday(r) /\ k.lead = seen[r].lead
Covered(r, u) == \E k \in notifs : For(k, r, u)
Owed(r, u) == Celebrants(u, Birthday(r)) /\ usable[u] # {}

\* Under one rule and unchanging endpoints, whoever is due a digest is still on
\* the list of the run, is the one it is about to insert, or has the digest.
CoverInv ==
  \A r \in Runners, u \in Users :
    changes = 0 /\ pc[r] \in {"user", "insert", "queue"} /\ Owed(r, u)
      => u \in todo[r] \/ Covered(r, u) \/ (pc[r] = "insert" /\ For(target[r], r, u))

\* Steps of which the run of r sees no more than notifications that were added.
LEMMA CoverByUnchanged ==
  ASSUME RunInv, CoverInv, NEW r \in Runners, NEW u \in Users,
         changes' = 0 => changes = 0 /\ usable' = usable, notifs \subseteq notifs',
         pc'[r] = pc[r], date'[r] = date[r], seen'[r] = seen[r],
         todo'[r] = todo[r], target'[r] = target[r],
         changes' = 0, pc'[r] \in {"user", "insert", "queue"}, Owed(r, u)'
  PROVE  u \in todo'[r] \/ Covered(r, u)' \/ (pc'[r] = "insert" /\ For(target[r], r, u)')
<1>1. Owed(r, u)
  BY DEF Owed, Birthday
<1> QED BY <1>1 DEF CoverInv, Covered, For, Birthday

LEMMA CoverStep == RunInv /\ RunInv' /\ CoverInv /\ [DigestNext]_digestVars => CoverInv'
<1> SUFFICES ASSUME RunInv, RunInv', CoverInv, [DigestNext]_digestVars, NEW r \in Runners, NEW u \in Users,
                    changes' = 0, pc'[r] \in {"user", "insert", "queue"}, Owed(r, u)'
             PROVE  u \in todo'[r] \/ Covered(r, u)' \/ (pc'[r] = "insert" /\ For(target[r], r, u)')
  BY DEF CoverInv
<1> DEFINE Goal == u \in todo'[r] \/ Covered(r, u)' \/ (pc'[r] = "insert" /\ For(target[r], r, u)')
<1> USE DEF RunInv, DigestTypeOK
<1>1. CASE UNCHANGED digestVars
  BY <1>1, CoverByUnchanged DEF digestVars, runnerVars
<1>2. ASSUME NEW q \in Runners, q # r,
             \/ \E d \in Days : Start(q, d)
             \/ getRecipientUsers(q) \/ \E v \in Users : SelectUser(q, v)
             \/ insertNotification(q) \/ queueOutboxJob(q) \/ Finish(q) \/ Die(q)
      PROVE  Goal
  <2>1. usable' = usable /\ changes' = changes /\ notifs \subseteq notifs'
    BY <1>2 DEF Start, getRecipientUsers, SelectUser, insertNotification, queueOutboxJob, Finish, Die
  <2>2. pc'[r] = pc[r] /\ date'[r] = date[r] /\ seen'[r] = seen[r]
        /\ todo'[r] = todo[r] /\ target'[r] = target[r]
    BY <1>2 DEF Start, getRecipientUsers, SelectUser, insertNotification, queueOutboxJob, Finish, Die, Forget
  <2> QED BY <2>1, <2>2, CoverByUnchanged
<1>3. ASSUME NEW d \in Days, Start(r, d) PROVE Goal
  BY <1>3 DEF Start
<1>4. ASSUME getRecipientUsers(r) PROVE Goal
  <2>1. u \in Recipients
    BY <1>4 DEF getRecipientUsers, Recipients, Owed
  <2> QED BY <1>4, <2>1 DEF getRecipientUsers
<1>5. ASSUME NEW v \in Users, SelectUser(r, v) PROVE Goal
  <2>1. /\ notifs' = notifs /\ usable' = usable /\ changes' = changes /\ date' = date /\ seen' = seen
        /\ todo'[r] = todo[r] \ {v} /\ pc[r] = "user"
    BY <1>5 DEF SelectUser
  <2>2. Owed(r, u)
    BY <2>1 DEF Owed, Birthday
  <2>3. u \in todo[r] \/ Covered(r, u)
    BY <2>1, <2>2 DEF CoverInv
  <2>4. CASE u = v
    <3>1. target'[r] = KeyFor(r, u) /\ pc'[r] = "insert"
      BY <1>5, <2>2, <2>4 DEF SelectUser, Owed
    <3> QED BY <2>1, <3>1 DEF For, KeyFor, Birthday
  <2>5. CASE u # v
    BY <2>1, <2>3, <2>5 DEF Covered, For, Birthday
  <2> QED BY <2>4, <2>5
<1>6. ASSUME insertNotification(r) PROVE Goal
  <2>1. /\ notifs' = notifs \cup {target[r]} /\ usable' = usable /\ changes' = changes
        /\ date' = date /\ seen' = seen /\ todo' = todo /\ pc[r] = "insert"
    BY <1>6 DEF insertNotification
  <2>2. Owed(r, u)
    BY <2>1 DEF Owed, Birthday
  <2>3. u \in todo[r] \/ Covered(r, u) \/ For(target[r], r, u)
    BY <2>1, <2>2 DEF CoverInv
  <2> QED BY <2>1, <2>3 DEF Covered, For, Birthday
<1>7. ASSUME queueOutboxJob(r) PROVE Goal
  <2>1. /\ notifs' = notifs /\ usable' = usable /\ changes' = changes
        /\ date' = date /\ seen' = seen /\ todo' = todo /\ pc[r] = "queue"
    BY <1>7 DEF queueOutboxJob
  <2>2. Owed(r, u)
    BY <2>1 DEF Owed, Birthday
  <2> QED BY <2>1, <2>2 DEF CoverInv, Covered, For, Birthday
<1>8. ASSUME Finish(r) \/ Die(r) PROVE Goal
  BY <1>8 DEF Finish, Die, Forget
<1>9. ASSUME NEW q \in Rules, DigestChangeRule(q) PROVE Goal
  BY <1>9 DEF DigestChangeRule, updateNotificationRule
<1>10. ASSUME NEW v \in Users, NEW c \in SUBSET Channels, ChangeEndpoints(v, c) PROVE Goal
  BY <1>10 DEF ChangeEndpoints
<1> QED
  BY <1>1, <1>2, <1>3, <1>4, <1>5, <1>6, <1>7, <1>8, <1>9, <1>10 DEF DigestNext, RunnerStep

\* The run of a day that reached its end has left nobody out, whatever became of
\* earlier and parallel runs (runBirthdayNotifications): under one rule and
\* unchanging endpoints, who can receive and has somebody to congratulate has a
\* notification for this birthday and lead.
THEOREM RunsCover == DigestSpec => []RunCovers
<1>1. DigestInit => CoverInv
  BY DEF DigestInit, CoverInv
<1>2. CoverInv => RunCovers
  BY DEF CoverInv, RunCovers, Owed, Covered, For
<1> QED BY <1>1, <1>2, CoverStep, RunInvariance, PTL DEF DigestSpec
-----------------------------------------------------------------------------
(* What is in the table was due, and gets its job.                           *)

\* The key a run is about to insert is of a user with somebody to congratulate.
DueInv == Warranted /\ \A r \in Runners : pc[r] = "insert" => Celebrants(target[r].user, target[r].birthday)

LEMMA DueStep == RunInv /\ DueInv /\ [DigestNext]_digestVars => DueInv'
<1> SUFFICES ASSUME RunInv, DueInv, [DigestNext]_digestVars PROVE DueInv'
  OBVIOUS
<1> USE DEF DueInv, Warranted, RunInv, DigestTypeOK
<1>1. CASE UNCHANGED digestVars
  BY <1>1 DEF digestVars, runnerVars
<1>2. ASSUME NEW r \in Runners, (\E d \in Days : Start(r, d)) \/ getRecipientUsers(r) \/ Finish(r) \/ Die(r)
      PROVE  DueInv'
  BY <1>2 DEF Start, getRecipientUsers, Finish, Die, Forget
<1>3. ASSUME NEW r \in Runners, NEW u \in Users, SelectUser(r, u) PROVE DueInv'
  <2>1. KeyFor(r, u).user = u /\ KeyFor(r, u).birthday = Birthday(r)
    BY DEF KeyFor
  <2> QED BY <1>3, <2>1 DEF SelectUser
<1>4. ASSUME NEW r \in Runners, insertNotification(r) PROVE DueInv'
  BY <1>4 DEF insertNotification
<1>5. ASSUME NEW r \in Runners, queueOutboxJob(r) PROVE DueInv'
  BY <1>5 DEF queueOutboxJob
<1>6. ASSUME NEW q \in Rules, DigestChangeRule(q) PROVE DueInv'
  BY <1>6 DEF DigestChangeRule, runnerVars
<1>7. ASSUME NEW u \in Users, NEW c \in SUBSET Channels, ChangeEndpoints(u, c) PROVE DueInv'
  BY <1>7 DEF ChangeEndpoints, runnerVars
<1> QED
  BY <1>1, <1>2, <1>3, <1>4, <1>5, <1>6, <1>7 DEF DigestNext, RunnerStep

\* No digest goes to somebody without a person to congratulate on its day whom he
\* may see, whatever happens to rule and endpoints between the run's statements.
THEOREM AllWarranted == DigestSpec => []Warranted
<1>1. DigestInit => DueInv
  BY DEF DigestInit, DueInv, Warranted
<1>2. DueInv => Warranted
  BY DEF DueInv
<1> QED BY <1>1, <1>2, DueStep, RunInvariance, PTL DEF DigestSpec

LEMMA NoneLostStep == RunInv /\ JobInv /\ NoneLost /\ [DigestNext]_digestVars => NoneLost'
<1> SUFFICES ASSUME RunInv, JobInv, NoneLost, [DigestNext]_digestVars, faults' = 0,
                    NEW k \in notifs'
             PROVE  jobs'[k] = 1 \/ \E r \in Runners : pc'[r] = "queue" /\ target'[r] = k
  BY DEF NoneLost
<1> DEFINE Goal == jobs'[k] = 1 \/ \E r \in Runners : pc'[r] = "queue" /\ target'[r] = k
<1> USE DEF RunInv, DigestTypeOK
<1>1. CASE UNCHANGED digestVars
  BY <1>1 DEF digestVars, runnerVars, NoneLost
<1>2. ASSUME NEW r \in Runners,
             \/ \E d \in Days : Start(r, d)
             \/ getRecipientUsers(r) \/ (\E u \in Users : SelectUser(r, u)) \/ Finish(r)
      PROVE  Goal
  <2>1. /\ notifs' = notifs /\ jobs' = jobs /\ faults' = faults /\ pc[r] # "queue"
        /\ \A q \in Runners \ {r} : pc'[q] = pc[q] /\ target'[q] = target[q]
    BY <1>2 DEF Start, getRecipientUsers, SelectUser, Finish, Forget
  <2> QED BY <2>1 DEF NoneLost
<1>3. ASSUME NEW r \in Runners, Die(r) PROVE FALSE
  BY <1>3, RunsAssumption DEF Die
<1>4. ASSUME NEW r \in Runners, insertNotification(r) PROVE Goal
  <2>1. /\ notifs' = notifs \cup {target[r]} /\ jobs' = jobs /\ faults' = faults /\ pc[r] # "queue"
        /\ \A q \in Runners \ {r} : pc'[q] = pc[q] /\ target'[q] = target[q]
        /\ target[r] \notin notifs => pc'[r] = "queue" /\ target'[r] = target[r]
    BY <1>4 DEF insertNotification, Fresh
  <2> QED BY <2>1 DEF NoneLost
<1>5. ASSUME NEW r \in Runners, queueOutboxJob(r) PROVE Goal
  <2>1. jobs[target[r]] = 0 /\ target[r] \in Keys
    BY <1>5 DEF queueOutboxJob, JobInv, Reserved, RunStarted
  <2>2. /\ notifs' = notifs /\ faults' = faults /\ jobs' = [jobs EXCEPT ![target[r]] = 1]
        /\ \A q \in Runners \ {r} : pc'[q] = pc[q] /\ target'[q] = target[q]
    BY <1>5, <2>1 DEF queueOutboxJob
  <2> QED BY <2>1, <2>2 DEF NoneLost
<1>6. ASSUME NEW q \in Rules, DigestChangeRule(q) PROVE Goal
  BY <1>6 DEF DigestChangeRule, runnerVars, NoneLost
<1>7. ASSUME NEW u \in Users, NEW c \in SUBSET Channels, ChangeEndpoints(u, c) PROVE Goal
  BY <1>7 DEF ChangeEndpoints, runnerVars, NoneLost
<1> QED
  BY <1>1, <1>2, <1>3, <1>4, <1>5, <1>6, <1>7 DEF DigestNext, RunnerStep

\* What QueuedUnlessKilled says must happen is never out of reach: as long as no
\* run was killed, a notification without a job is in the hands of its run.
THEOREM NothingLost == DigestSpec => []NoneLost
<1>1. DigestInit => JobInv /\ NoneLost
  BY DEF DigestInit, JobInv, OneJobPerNotification, Reserved, NoneLost
<1> QED BY <1>1, JobStep, NoneLostStep, RunInvariance, PTL DEF DigestSpec
=============================================================================
