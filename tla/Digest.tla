------------------------------- MODULE Digest -------------------------------
(***************************************************************************)
(* The daily birthday digest: runBirthdayNotifications in                  *)
(* server/notification-pg.ts, run concurrently by cron ticks of several    *)
(* processes and by owners who press "run now" for a date of their choice, *)
(* while the rule and the endpoints change under it.                       *)
(*                                                                         *)
(* A run reads the rule once, the recipients once, and then, user by user, *)
(* selects an endpoint, inserts the notification under its unique key and  *)
(* queues the outbox job: three statements, no transaction around them.    *)
(* Days are numbers; the calendar itself is module Calendar.               *)
(***************************************************************************)
EXTENDS AlertRule, FiniteSets

CONSTANTS
  Runners,     \* concurrent calls of runBirthdayNotifications
  Users,       \* staff with a role that receives digests
  Days,        \* delivery dates a run may be asked for
  Celebrants(_, _), \* is there an eligible member, visible to the user, with that birthday?
  MaxRuns,     \* bound: runs started
  MaxFaults    \* bound: runs that die between two statements

Channels == {"whatsapp", "sms"}

ASSUME DaysAssumption == Days \subseteq Nat
ASSUME ChannelsAssumption == \A r \in Rules : r.channel \in Channels
ASSUME RunsAssumption == MaxRuns \in Nat /\ MaxFaults \in Nat

\* notification_key: birthday-digest:<birthday>:lead-<days>:<user>:<channel>
Keys ==
  UNION {[birthday : {d + r.lead : d \in Days}, lead : {r.lead}, user : Users, channel : Channels]
           : r \in Rules}
NoKey == [birthday |-> 0, lead |-> 0, user |-> "none", channel |-> "none"]
NoRule == [enabled |-> FALSE, lead |-> 0, channel |-> "whatsapp"]

DeliveryDay(k) == k.birthday - k.lead

VARIABLES
  usable,   \* the channels on which a user has a usable endpoint
  notifs,   \* keys present in notifications
  jobs,     \* how many outbox jobs refer to the notification of a key
  pc, date, seen, todo, target,  \* per runner: step, day, rule read, users left, key
  runs, faults

runnerVars == <<pc, date, seen, todo, target>>
digestVars == <<rule, usable, notifs, jobs, runnerVars, runs, changes, faults>>

DigestTypeOK ==
  /\ rule \in Rules
  /\ usable \in [Users -> SUBSET Channels]
  /\ notifs \subseteq Keys
  /\ jobs \in [Keys -> Nat]
  /\ pc \in [Runners -> {"idle", "recipients", "user", "insert", "queue"}]
  /\ date \in [Runners -> Days \cup {0}]
  /\ seen \in [Runners -> Rules \cup {NoRule}]
  /\ todo \in [Runners -> SUBSET Users]
  /\ target \in [Runners -> Keys \cup {NoKey}]
  /\ runs \in 0..MaxRuns /\ changes \in 0..MaxChanges /\ faults \in 0..MaxFaults

DigestInit ==
  /\ rule \in Rules
  /\ usable \in [Users -> SUBSET Channels]
  /\ notifs = {}
  /\ jobs = [k \in Keys |-> 0]
  /\ pc = [r \in Runners |-> "idle"]
  /\ date = [r \in Runners |-> 0]
  /\ seen = [r \in Runners |-> NoRule]
  /\ todo = [r \in Runners |-> {}]
  /\ target = [r \in Runners |-> NoKey]
  /\ runs = 0 /\ changes = 0 /\ faults = 0

-----------------------------------------------------------------------------
\* The date is fixed and the rule read; a disabled rule ends the run at once.
Start(r, d) ==
  /\ pc[r] = "idle" /\ runs < MaxRuns
  /\ rule.enabled
  /\ runs' = runs + 1
  /\ date' = [date EXCEPT ![r] = d]
  /\ seen' = [seen EXCEPT ![r] = rule]
  /\ pc' = [pc EXCEPT ![r] = "recipients"]
  /\ UNCHANGED <<rule, usable, notifs, jobs, todo, target, changes, faults>>

\* Slip: only users with the primary channel.
RecipientsOnWhatsApp == {u \in Users : "whatsapp" \in usable[u]}

Recipients == {u \in Users : usable[u] # {}}

\* getRecipientUsers: whoever has a usable endpoint at this moment.
getRecipientUsers(r) ==
  /\ pc[r] = "recipients"
  /\ todo' = [todo EXCEPT ![r] = Recipients]
  /\ pc' = [pc EXCEPT ![r] = "user"]
  /\ UNCHANGED <<rule, usable, notifs, jobs, date, seen, target, runs, changes, faults>>

\* Slip: no endpoint but the primary one.
selectPrimaryOnly(primary, channels) == IF primary \in channels THEN primary ELSE "none"

\* selectEndpoint without an excluded channel: the primary channel if the user
\* has it, else whatever there is, whether sms_fallback is set or not.
selectEndpoint(primary, channels) ==
  IF primary \in channels THEN primary ELSE CHOOSE c \in channels : TRUE

Birthday(r) == date[r] + seen[r].lead

KeyFor(r, u) ==
  [birthday |-> Birthday(r), lead |-> seen[r].lead, user |-> u,
   channel |-> selectEndpoint(seen[r].channel, usable[u])]

SelectUser(r, u) ==
  /\ pc[r] = "user" /\ u \in todo[r]
  /\ todo' = [todo EXCEPT ![r] = @ \ {u}]
  /\ \/ /\ Celebrants(u, Birthday(r)) /\ usable[u] # {}
        /\ target' = [target EXCEPT ![r] = KeyFor(r, u)]
        /\ pc' = [pc EXCEPT ![r] = "insert"]
     \/ /\ ~(Celebrants(u, Birthday(r)) /\ usable[u] # {})
        /\ UNCHANGED <<target, pc>>
  /\ UNCHANGED <<rule, usable, notifs, jobs, date, seen, runs, changes, faults>>

\* Slip: the null that stands for a duplicate is not looked at.
FreshAlways(r) == target[r] \in Keys

Fresh(r) == target[r] \notin notifs

\* ON CONFLICT(notification_key) DO NOTHING: a duplicate is counted as skipped.
insertNotification(r) ==
  /\ pc[r] = "insert"
  /\ notifs' = notifs \cup {target[r]}
  /\ \/ /\ Fresh(r)
        /\ pc' = [pc EXCEPT ![r] = "queue"]
        /\ UNCHANGED target
     \/ /\ ~Fresh(r)
        /\ pc' = [pc EXCEPT ![r] = "user"]
        /\ target' = [target EXCEPT ![r] = NoKey]
  /\ UNCHANGED <<rule, usable, jobs, date, seen, todo, runs, changes, faults>>

\* Slip: only notifications on the primary channel get a job.
queuePrimaryOnly(r) ==
  /\ pc[r] = "queue"
  /\ jobs' = [jobs EXCEPT ![target[r]] =
                IF target[r].channel = seen[r].channel THEN @ + 1 ELSE @]
  /\ pc' = [pc EXCEPT ![r] = "user"]
  /\ target' = [target EXCEPT ![r] = NoKey]
  /\ UNCHANGED <<rule, usable, notifs, date, seen, todo, runs, changes, faults>>

queueOutboxJob(r) ==
  /\ pc[r] = "queue"
  /\ jobs' = [jobs EXCEPT ![target[r]] = @ + 1]
  /\ pc' = [pc EXCEPT ![r] = "user"]
  /\ target' = [target EXCEPT ![r] = NoKey]
  /\ UNCHANGED <<rule, usable, notifs, date, seen, todo, runs, changes, faults>>

Forget(r) ==
  /\ pc' = [pc EXCEPT ![r] = "idle"]
  /\ date' = [date EXCEPT ![r] = 0]
  /\ seen' = [seen EXCEPT ![r] = NoRule]
  /\ todo' = [todo EXCEPT ![r] = {}]
  /\ target' = [target EXCEPT ![r] = NoKey]

Finish(r) ==
  /\ pc[r] = "user" /\ todo[r] = {}
  /\ Forget(r)
  /\ UNCHANGED <<rule, usable, notifs, jobs, runs, changes, faults>>

\* The process dies, or a statement throws out of the run: the users that are
\* left get nothing from this run.
Die(r) ==
  /\ pc[r] # "idle" /\ faults < MaxFaults
  /\ faults' = faults + 1
  /\ Forget(r)
  /\ UNCHANGED <<rule, usable, notifs, jobs, runs, changes>>

\* An endpoint is verified, enabled or disabled.
ChangeEndpoints(u, channels) ==
  /\ usable[u] # channels /\ changes < MaxChanges
  /\ usable' = [usable EXCEPT ![u] = channels]
  /\ changes' = changes + 1
  /\ UNCHANGED <<rule, notifs, jobs, runnerVars, runs, faults>>

DigestChangeRule(q) ==
  /\ updateNotificationRule(q)
  /\ UNCHANGED <<usable, notifs, jobs, runnerVars, runs, faults>>

RunnerStep(r) ==
  \/ getRecipientUsers(r)
  \/ \E u \in Users : SelectUser(r, u)
  \/ insertNotification(r) \/ queueOutboxJob(r)
  \/ Finish(r)

DigestNext ==
  \/ \E r \in Runners : RunnerStep(r) \/ Die(r) \/ \E d \in Days : Start(r, d)
  \/ \E q \in Rules : DigestChangeRule(q)
  \/ \E u \in Users, c \in SUBSET Channels : ChangeEndpoints(u, c)

DigestSpec == DigestInit /\ [][DigestNext]_digestVars

\* A run that is not killed runs its next statement.
DigestFairSpec == DigestSpec /\ \A r \in Runners : WF_digestVars(RunnerStep(r))

-----------------------------------------------------------------------------
\* However many runs race, are repeated or die, a notification gets at most one
\* outbox job, and no job is queued without its notification.
OneJobPerNotification ==
  \A k \in Keys : jobs[k] <= 1 /\ (jobs[k] = 1 => k \in notifs)

\* The run of r reached its end with nobody left out, whatever became of earlier
\* and parallel runs: who can receive and has somebody to congratulate has a
\* notification for this birthday and lead.  (Under one rule and unchanging
\* endpoints.)
RunCovers ==
  \A r \in Runners, u \in Users :
    /\ changes = 0
    /\ pc[r] = "user" /\ todo[r] = {} /\ Celebrants(u, Birthday(r)) /\ usable[u] # {}
    => \E k \in notifs : k.user = u /\ k.birthday = Birthday(r) /\ k.lead = seen[r].lead

\* A notification has its job, or the run that inserted it is about to queue it,
\* unless a run was killed: no other statement of a run, no duplicate and no change
\* of the rule comes between the two (runBirthdayNotifications).
NoneLost ==
  faults = 0 =>
    \A k \in notifs : jobs[k] = 1 \/ \E r \in Runners : pc[r] = "queue" /\ target[r] = k

\* Every notification is of a user who has somebody to congratulate, whom he may
\* see, on the day it announces (isMemberVisibleToUser).
Warranted == \A k \in notifs : Celebrants(k.user, k.birthday)

\* A notification gets its job, unless a run was killed.
QueuedUnlessKilled == \A k \in Keys : k \in notifs ~> jobs[k] = 1 \/ faults > 0

\* "At most one digest per person per rule per day" (docs/ARCHITECTURE.md).
OneDigestPerDay ==
  \A k, q \in notifs : k.user = q.user /\ DeliveryDay(k) = DeliveryDay(q) => k = q

\* "A notification is written together with an outbox job" (docs/ARCHITECTURE.md):
\* no notification stays without one.
EveryDigestQueued == \A k \in Keys : k \in notifs ~> jobs[k] = 1
=============================================================================
