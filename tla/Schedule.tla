------------------------------ MODULE Schedule ------------------------------
(***************************************************************************)
(* The birthday schedule: scheduledTick (server/scheduler.ts), called by   *)
(* the cron of every process (server/worker.ts, server/index.ts), as the   *)
(* days of the calendar go by.                                             *)
(*                                                                         *)
(* A day has MinutesPerDay minutes.  A tick reads the rule, may evaluate   *)
(* it, and drains the outbox; a run of the digest is one step here (module *)
(* Digest has its steps) for one recipient who sees every member.          *)
(***************************************************************************)
EXTENDS Calendar, AlertRule, FiniteSets

CONSTANTS
  Processes,     \* web services with SCHEDULER_ENABLED, and workers
  Workers,       \* those that run a first tick when they start
  MinutesPerDay, \* 1440
  FirstDays,     \* the day the behaviour starts on
  Horizon,       \* bound: days that go by
  Members,       \* birthdays of the eligible members
  MaxDelays,     \* bound: minutes that begin before every tick is done
  MaxNaps,       \* bound: times a process stops
  MaxFailures    \* bound: ticks that fail

ASSUME ProcessesAssumption == Workers \subseteq Processes
ASSUME CalendarAssumption ==
  /\ MinutesPerDay \in Nat \ {0}
  /\ FirstDays # {} /\ \A date \in FirstDays : isRealDate(date)
  /\ Members \subseteq Birthdays
ASSUME TimesAssumption ==
  \A r \in Rules : r.alertTime \in 0..(MinutesPerDay - 1) /\ r.policy \in Policies
ASSUME BoundsAssumption ==
  /\ Horizon \in 0..28 /\ MaxDelays \in Nat
  /\ MaxNaps \in Nat /\ MaxFailures \in Nat

VARIABLES
  first, elapsed, today, minute, \* the first day, days since, the day and its minute
  awake,         \* is the process running?
  lastRunMinute, \* per process, in memory: the minute evaluated last
  fired,         \* has the cron of the process fired in this minute?
  ticks,         \* per process: the ticks in progress
  digests,       \* notifications: [birthday, lead, delivery, members]
  naps, failures, delays

timeVars == <<first, elapsed, today, minute>>
boundVars == <<naps, failures, changes, delays>>
vars == <<timeVars, rule, awake, lastRunMinute, fired, ticks, digests, boundVars>>

Minutes == 0..(MinutesPerDay - 1)
Dates == [year : Nat, month : 1..12, day : 1..31]
NoMinute == [day |-> [year |-> 0, month |-> 1, day |-> 1], minute |-> 0]
Ticks == [day : Dates, minute : Minutes, initial : BOOLEAN, step : {"read", "run", "drain"}]

TypeOK ==
  /\ isRealDate(first) /\ isRealDate(today)
  /\ elapsed \in 0..Horizon
  /\ minute \in Minutes
  /\ rule \in Rules
  /\ awake \in [Processes -> BOOLEAN]
  /\ lastRunMinute \in [Processes -> [day : Dates, minute : Minutes]]
  /\ fired \in [Processes -> BOOLEAN]
  /\ ticks \in [Processes -> SUBSET Ticks]
  /\ digests \subseteq [birthday : Dates, lead : 0..14, delivery : Dates, members : SUBSET Members]
  /\ naps \in 0..MaxNaps /\ failures \in 0..MaxFailures /\ changes \in 0..MaxChanges
  /\ delays \in 0..MaxDelays

Init ==
  /\ first \in FirstDays /\ today = first
  /\ elapsed = 0 /\ minute = 0
  /\ rule \in Rules
  /\ awake = [p \in Processes |-> TRUE]
  /\ lastRunMinute = [p \in Processes |-> NoMinute]
  /\ fired = [p \in Processes |-> FALSE]
  /\ ticks = [p \in Processes |-> {}]
  /\ digests = {}
  /\ naps = 0 /\ failures = 0 /\ changes = 0 /\ delays = 0

-----------------------------------------------------------------------------
(* scheduledTick *)

\* Slip: midnight on a 24-hour clock (hourCycle h24).
TickAt24(initial) ==
  [day |-> today, minute |-> IF minute = 0 THEN MinutesPerDay ELSE minute, initial |-> initial,
   step |-> "read"]

\* lagosDateParts and lagosClock of the moment it starts.
Tick(initial) == [day |-> today, minute |-> minute, initial |-> initial, step |-> "read"]

\* A worker registers its cron when its first tick is done.
Starting(p) == \E t \in ticks[p] : t.initial

cron(p) ==
  /\ awake[p] /\ ~fired[p] /\ ~Starting(p)
  /\ fired' = [fired EXCEPT ![p] = TRUE]
  /\ ticks' = [ticks EXCEPT ![p] = @ \cup {Tick(FALSE)}]
  /\ UNCHANGED <<timeVars, rule, awake, lastRunMinute, digests, boundVars>>

GoOn(p, t, step) == ticks' = [ticks EXCEPT ![p] = (@ \ {t}) \cup {[t EXCEPT !.step = step]}]

\* Slip: the last run is remembered without its day.
DueOncePerProcess(p, t) ==
  /\ rule.enabled
  /\ rule.alertTime = t.minute
  /\ lastRunMinute[p].minute # t.minute

\* clock and minuteKey are those of the start of the tick.
Due(p, t) ==
  /\ rule.enabled
  /\ rule.alertTime = t.minute
  /\ lastRunMinute[p] # [day |-> t.day, minute |-> t.minute]

readRule(p, t) ==
  /\ t \in ticks[p] /\ t.step = "read"
  /\ \/ /\ Due(p, t)
        /\ lastRunMinute' = [lastRunMinute EXCEPT ![p] = [day |-> t.day, minute |-> t.minute]]
        /\ GoOn(p, t, "run")
     \/ /\ ~Due(p, t)
        /\ GoOn(p, t, "drain")
        /\ UNCHANGED lastRunMinute
  /\ UNCHANGED <<timeVars, rule, awake, fired, digests, boundVars>>

Eligible(birthday) == {m \in Members : birthdayMatchesDate(m, birthday, rule.policy)}

\* The run reads rule and date anew.  Without a member to congratulate there is
\* no digest, and an existing key is not written again.
runBirthdayNotifications(p, t) ==
  /\ t \in ticks[p] /\ t.step = "run"
  /\ LET birthday == addDays(today, rule.lead)
         digest == [birthday |-> birthday, lead |-> rule.lead, delivery |-> today,
                    members |-> Eligible(birthday)]
     IN  \/ /\ rule.enabled /\ digest.members # {}
            /\ \A k \in digests : k.birthday = birthday => k.lead # rule.lead
            /\ digests' = digests \cup {digest}
         \/ /\ \/ ~rule.enabled \/ digest.members = {}
               \/ \E k \in digests : k.birthday = birthday /\ k.lead = rule.lead
            /\ UNCHANGED digests
  /\ GoOn(p, t, "drain")
  /\ UNCHANGED <<timeVars, rule, awake, lastRunMinute, fired, boundVars>>

\* processOutboxJobs is module Delivery.
finishTick(p, t) ==
  /\ t \in ticks[p] /\ t.step = "drain"
  /\ ticks' = [ticks EXCEPT ![p] = @ \ {t}]
  /\ UNCHANGED <<timeVars, rule, awake, lastRunMinute, fired, digests, boundVars>>

\* A statement throws: logged, and the tick is over.
failTick(p, t) ==
  /\ t \in ticks[p] /\ failures < MaxFailures
  /\ failures' = failures + 1
  /\ ticks' = [ticks EXCEPT ![p] = @ \ {t}]
  /\ UNCHANGED <<timeVars, rule, awake, lastRunMinute, fired, digests, naps, changes, delays>>

-----------------------------------------------------------------------------
(* Processes, time, the owner *)

\* The free instance is spun down, or the process is restarted.
FallAsleep(p) ==
  /\ awake[p] /\ naps < MaxNaps
  /\ naps' = naps + 1
  /\ awake' = [awake EXCEPT ![p] = FALSE]
  /\ lastRunMinute' = [lastRunMinute EXCEPT ![p] = NoMinute]
  /\ ticks' = [ticks EXCEPT ![p] = {}]
  /\ UNCHANGED <<timeVars, rule, fired, digests, failures, changes, delays>>

\* A process starts within a minute: its cron fires at the next one.
WakeUp(p) ==
  /\ ~awake[p]
  /\ awake' = [awake EXCEPT ![p] = TRUE]
  /\ fired' = [fired EXCEPT ![p] = TRUE]
  /\ ticks' = [ticks EXCEPT ![p] = IF p \in Workers THEN {Tick(TRUE)} ELSE {}]
  /\ UNCHANGED <<timeVars, rule, lastRunMinute, digests, boundVars>>

NextMinute ==
  /\ \A p \in Processes : awake[p] => fired[p] \/ Starting(p)
  /\ \/ /\ \A p \in Processes : ticks[p] = {}
        /\ UNCHANGED delays
     \/ /\ \E p \in Processes : ticks[p] # {}
        /\ delays < MaxDelays
        /\ delays' = delays + 1
  /\ \/ /\ minute < MinutesPerDay - 1
        /\ minute' = minute + 1
        /\ UNCHANGED <<today, elapsed>>
     \/ /\ minute = MinutesPerDay - 1 /\ elapsed < Horizon
        /\ minute' = 0
        /\ today' = addDays(today, 1)
        /\ elapsed' = elapsed + 1
  /\ fired' = [p \in Processes |-> FALSE]
  /\ UNCHANGED <<first, rule, awake, lastRunMinute, ticks, digests, naps, failures, changes>>

ChangeRule(r) ==
  /\ updateNotificationRule(r)
  /\ UNCHANGED <<timeVars, awake, lastRunMinute, fired, ticks, digests, naps, failures, delays>>

Next ==
  \/ \E p \in Processes :
       \/ cron(p) \/ FallAsleep(p) \/ WakeUp(p)
       \/ \E t \in ticks[p] :
            readRule(p, t) \/ runBirthdayNotifications(p, t) \/ finishTick(p, t) \/ failTick(p, t)
  \/ NextMinute
  \/ \E r \in Rules : ChangeRule(r)

Spec == Init /\ [][Next]_vars

-----------------------------------------------------------------------------
\* Under one rule nobody is congratulated twice on one birthday, whatever ticks
\* are late, fail or are repeated after a restart, 29 February included.
CelebratedOnce ==
  \A j, k \in digests :
    changes = 0 /\ j.members \cap k.members # {} /\ j.birthday.year = k.birthday.year => j = k

\* Nobody is forgotten while processes run and ticks neither fail nor outlast
\* their minute: when a day is over, everybody who celebrates rule.lead days
\* later is in a digest of that day.
NobodyForgotten ==
  \A i \in 0..(elapsed - 1), m \in Members :
    LET day == addDays(first, i)
        birthday == addDays(day, rule.lead)
    IN  /\ rule.enabled /\ naps + failures + changes + delays = 0
        /\ birthday = Celebration(m, birthday.year, rule.policy)
        => \E k \in digests : k.delivery = day /\ m \in k.members

\* A digest counts who celebrates on the day it announces, and only them, and it
\* is sent the rule's lead days ahead, also when the tick that wrote it is late.
\* (Under one rule.)
DigestIsExact ==
  changes = 0 =>
    \A k \in digests :
      /\ k.members = {m \in Members : Celebration(m, k.birthday.year, rule.policy) = k.birthday}
      /\ k.birthday = addDays(k.delivery, rule.lead)

\* "While the instance is asleep nothing runs, so the digest is sent at the first
\* tick after wake-up" (docs/HOSTING.md).
SentAfterWakeUp ==
  \A p \in Processes : \A t \in ticks[p] :
    /\ t.step = "drain" /\ t.day = today /\ t.minute >= rule.alertTime
    /\ rule.enabled /\ Eligible(addDays(today, rule.lead)) # {}
    => \E k \in digests : k.delivery = today
=============================================================================
