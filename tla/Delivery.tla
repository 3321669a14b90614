------------------------------ MODULE Delivery ------------------------------
(***************************************************************************)
(* Delivery of queued notifications (server/notification-pg.ts).           *)
(*                                                                         *)
(* Workers are concurrent runs of processOutboxJobs: one per API replica   *)
(* or worker process, and one more for every cron tick that overlaps the   *)
(* previous one.  Handlers are requests that carry provider callbacks      *)
(* (applyProviderStatus).  Both may end by queueing an SMS fallback.       *)
(*                                                                         *)
(* One step is one database statement, one transaction, or one call of the *)
(* provider.  A notification and the one job that refers to it share a     *)
(* name, a member of Notifs.  A provider message is named by its           *)
(* notification and by the order of acceptance: message i of n exists when *)
(* i <= sends[n].                                                          *)
(***************************************************************************)
EXTENDS Naturals, FiniteSets

CONSTANTS
  Workers,          \* concurrent runs of processOutboxJobs
  Handlers,         \* concurrent webhook requests
  Notifs,           \* notification keys
  WhatsAppDigests,  \* the birthday digests addressed to a WhatsApp endpoint
  TextDigests,      \* the birthday digests addressed to an SMS endpoint
  Rules,            \* values the notification rule takes: [lead, sms]
  FallbackKey(_, _),\* key of the SMS fallback of a digest under a lead time
  MaxJobAttempts,   \* MAX_JOB_ATTEMPTS, 5 in the code
  BatchLimit,       \* LIMIT of the claim query, 25 in the code
  SlowBatches,      \* may a live worker hold a job longer than ten minutes?
  Unsteady,         \* notifications whose endpoint is switched on and off
  MaxFaults,        \* bound: crashes and failing statements
  Reports,          \* the statuses the provider's callbacks carry
  MaxEvents         \* bound: provider callbacks that are recorded

Digests == WhatsAppDigests \cup TextDigests
Actors == Workers \cup Handlers
NoNotif == "none"

\* Plausible slips, for the mutation runs: "queued" counts as delivered; a
\* message that is only accepted does not.
QueuedIsDelivered == {"queued", "provider_accepted", "sent", "delivered", "read"}
AcceptedIsPending == {"sent", "delivered", "read"}

DELIVERED_STATES == {"provider_accepted", "sent", "delivered", "read"}
NotificationStatus == {"absent", "queued", "failed"} \cup DELIVERED_STATES
ReportedStatus == DELIVERED_STATES \cup {"failed"}
JobStatus == {"absent", "pending", "processing", "failed", "completed", "dead_letter"}

ASSUME WorkersAssumption == IsFiniteSet(Workers) /\ Workers \cap Handlers = {}
ASSUME NotifsAssumption ==
  /\ IsFiniteSet(Notifs) /\ NoNotif \notin Notifs
  /\ Digests \cup Unsteady \subseteq Notifs /\ WhatsAppDigests \cap TextDigests = {}
ASSUME RulesAssumption ==
  /\ Rules # {}
  /\ \A r \in Rules : r.sms \in BOOLEAN
  /\ \A n \in WhatsAppDigests, r \in Rules : FallbackKey(n, r.lead) \in Notifs \ Digests
ASSUME BoundsAssumption ==
  /\ MaxJobAttempts \in Nat \ {0}
  /\ BatchLimit \in Nat \ {0}
  /\ SlowBatches \in BOOLEAN
  /\ MaxFaults \in Nat
  /\ Reports \subseteq ReportedStatus
  /\ MaxEvents \in Nat

VARIABLES
  jobStatus,    \* outbox_jobs.status
  jobAttempts,  \* outbox_jobs.attempts
  ripe,         \* due_at <= now, or updated_at <= now - 10 min for a processing job
  notifStatus,  \* notifications.status
  messageId,    \* notifications.provider_message_id, 0 for NULL
  usable,       \* is the endpoint enabled, verified, opted in and not opted out?
  rule,         \* the notification rule
  events,       \* provider_events.event_hash
  sends,        \* how many messages the provider accepted for a notification
  pc,           \* the next statement of an actor
  batch,        \* rows a worker claimed: the attempt each claim is, 0 for none
  cur,          \* the notification an actor is working on
  answer,       \* the message id a worker got from the provider, 0 for null
  fallback,     \* key of the fallback an actor is inserting
  faults        \* how many faults happened

jobVars == <<jobStatus, jobAttempts, ripe>>
notifVars == <<notifStatus, messageId>>
envVars == <<usable, rule, events>>
actorVars == <<pc, batch, cur, answer, fallback>>
vars == <<jobVars, notifVars, envVars, sends, actorVars, faults>>

NoClaims == [n \in Notifs |-> 0]

TypeOK ==
  /\ jobStatus \in [Notifs -> JobStatus]
  /\ jobAttempts \in [Notifs -> 0..MaxJobAttempts]
  /\ ripe \in [Notifs -> BOOLEAN]
  /\ notifStatus \in [Notifs -> NotificationStatus]
  /\ messageId \in [Notifs -> Nat]
  /\ usable \in [Notifs -> BOOLEAN]
  /\ rule \in Rules
  /\ events \subseteq Notifs \X Nat \X Reports
  /\ sends \in [Notifs -> Nat]
  /\ pc \in [Actors -> {"ready", "endpoint", "begin", "send", "record", "refused",
                        "unavailable", "complete", "decide", "insert", "queue", "fail"}]
  /\ batch \in [Workers -> [Notifs -> 0..MaxJobAttempts]]
  /\ cur \in [Actors -> Notifs \cup {NoNotif}]
  /\ answer \in [Workers -> Nat]
  /\ fallback \in [Actors -> Notifs \cup {NoNotif}]
  /\ faults \in 0..MaxFaults

\* A birthday run has just queued every digest (module Digest models the run).
Init ==
  /\ jobStatus = [n \in Notifs |-> IF n \in Digests THEN "pending" ELSE "absent"]
  /\ jobAttempts = [n \in Notifs |-> 0]
  /\ ripe = [n \in Notifs |-> n \in Digests]
  /\ notifStatus = [n \in Notifs |-> IF n \in Digests THEN "queued" ELSE "absent"]
  /\ messageId = [n \in Notifs |-> 0]
  /\ usable = [n \in Notifs |-> TRUE]
  /\ rule \in Rules
  /\ events = {}
  /\ sends = [n \in Notifs |-> 0]
  /\ pc = [a \in Actors |-> "ready"]
  /\ batch = [w \in Workers |-> NoClaims]
  /\ cur = [a \in Actors |-> NoNotif]
  /\ answer = [w \in Workers |-> 0]
  /\ fallback = [a \in Actors |-> NoNotif]
  /\ faults = 0

-----------------------------------------------------------------------------
(* processOutboxJobs *)

Holds(w, n) == batch[w][n] > 0

\* Slips: the staleness test is forgotten, the limit is off by one, abandoned
\* jobs are not taken over.
ClaimableAtOnce(n) ==
  /\ \/ jobStatus[n] = "processing"
     \/ jobStatus[n] \in {"pending", "failed"} /\ ripe[n]
  /\ jobAttempts[n] < MaxJobAttempts
ClaimableOnceMore(n) ==
  jobStatus[n] \in {"pending", "failed", "processing"} /\ ripe[n] /\ jobAttempts[n] <= MaxJobAttempts
ClaimableUnlessAbandoned(n) ==
  jobStatus[n] \in {"pending", "failed"} /\ ripe[n] /\ jobAttempts[n] < MaxJobAttempts

Claimable(n) ==
  /\ jobStatus[n] \in {"pending", "failed", "processing"}
  /\ ripe[n]
  /\ jobAttempts[n] < MaxJobAttempts

(* The claim transaction.  SKIP LOCKED leaves out rows another transaction *)
(* holds and the jobId filter all rows but one, so any set of claimable    *)
(* jobs within the limit may be taken.  The rows returned carry the count  *)
(* of attempts as it was before the UPDATE.                                *)
Claim(w) ==
  /\ pc[w] = "ready" /\ batch[w] = NoClaims
  /\ \E S \in SUBSET {n \in Notifs : Claimable(n)} :
       /\ S # {} /\ Cardinality(S) <= BatchLimit
       /\ jobStatus' = [n \in Notifs |-> IF n \in S THEN "processing" ELSE jobStatus[n]]
       /\ jobAttempts' = [n \in Notifs |-> IF n \in S THEN jobAttempts[n] + 1 ELSE jobAttempts[n]]
       /\ ripe' = [n \in Notifs |-> ripe[n] /\ n \notin S]
       /\ batch' = [batch EXCEPT ![w] =
                      [n \in Notifs |-> IF n \in S THEN jobAttempts[n] + 1 ELSE 0]]
  /\ UNCHANGED <<notifVars, envVars, sends, pc, cur, answer, fallback, faults>>

\* Take the next job of the batch and read its notification.
LoadNotification(w, n) ==
  /\ pc[w] = "ready" /\ Holds(w, n)
  /\ cur' = [cur EXCEPT ![w] = n]
  /\ pc' = [pc EXCEPT ![w] =
              IF notifStatus[n] \in DELIVERED_STATES THEN "complete" ELSE "endpoint"]
  /\ UNCHANGED <<jobVars, notifVars, envVars, sends, batch, answer, fallback, faults>>

LoadEndpoint(w) ==
  /\ pc[w] = "endpoint"
  /\ pc' = [pc EXCEPT ![w] = IF usable[cur[w]] THEN "begin" ELSE "unavailable"]
  /\ UNCHANGED <<jobVars, notifVars, envVars, sends, batch, cur, answer, fallback, faults>>

MarkUnavailable(w) ==
  /\ pc[w] = "unavailable"
  /\ notifStatus' = [notifStatus EXCEPT ![cur[w]] = "failed"]
  /\ pc' = [pc EXCEPT ![w] = "complete"]
  /\ UNCHANGED <<jobVars, messageId, envVars, sends, batch, cur, answer, fallback, faults>>

\* attemptNotification, first statement.
BeginAttempt(w) ==
  /\ pc[w] = "begin"
  /\ notifStatus' = [notifStatus EXCEPT ![cur[w]] = "queued"]
  /\ pc' = [pc EXCEPT ![w] = "send"]
  /\ UNCHANGED <<jobVars, messageId, envVars, sends, batch, cur, answer, fallback, faults>>

\* sendMessage: the provider accepts and answers, accepts with an answer that
\* lacks the message id or breaks off after its headers (providerMessageId is
\* null), accepts and the answer is lost (timeout, connection reset), or refuses.
SendAccepted(w) ==
  /\ pc[w] = "send"
  /\ sends' = [sends EXCEPT ![cur[w]] = @ + 1]
  /\ \/ /\ pc' = [pc EXCEPT ![w] = "record"]
        /\ answer' \in {[answer EXCEPT ![w] = i] : i \in {0, sends[cur[w]] + 1}}
     \/ /\ pc' = [pc EXCEPT ![w] = "refused"]
        /\ UNCHANGED answer
  /\ UNCHANGED <<jobVars, notifVars, envVars, batch, cur, fallback, faults>>

\* Slip: response.ok is not looked at.
SendRefusedUnnoticed(w) ==
  /\ pc[w] = "send"
  /\ pc' = [pc EXCEPT ![w] = "record"]
  /\ UNCHANGED <<jobVars, notifVars, envVars, sends, batch, cur, answer, fallback, faults>>

SendRefused(w) ==
  /\ pc[w] = "send"
  /\ pc' = [pc EXCEPT ![w] = "refused"]
  /\ UNCHANGED <<jobVars, notifVars, envVars, sends, batch, cur, answer, fallback, faults>>

RecordAccepted(w) ==
  /\ pc[w] = "record"
  /\ \E s \in {"provider_accepted", "delivered"} :
       notifStatus' = [notifStatus EXCEPT ![cur[w]] = s]
  /\ messageId' = [messageId EXCEPT ![cur[w]] = answer[w]]
  /\ answer' = [answer EXCEPT ![w] = 0]
  /\ pc' = [pc EXCEPT ![w] = "complete"]
  /\ UNCHANGED <<jobVars, envVars, sends, batch, cur, fallback, faults>>

RecordFailure(w) ==
  /\ pc[w] = "refused"
  /\ notifStatus' = [notifStatus EXCEPT ![cur[w]] = "failed"]
  /\ pc' = [pc EXCEPT ![w] = "decide"]
  /\ UNCHANGED <<jobVars, messageId, envVars, sends, batch, cur, answer, fallback, faults>>

Release(w) ==
  /\ batch' = [batch EXCEPT ![w][cur[w]] = 0]
  /\ cur' = [cur EXCEPT ![w] = NoNotif]
  /\ pc' = [pc EXCEPT ![w] = "ready"]

completeOutboxJob(w) ==
  /\ pc[w] = "complete"
  /\ jobStatus' = [jobStatus EXCEPT ![cur[w]] = "completed"]
  /\ Release(w)
  /\ UNCHANGED <<jobAttempts, ripe, notifVars, envVars, sends, answer, fallback, faults>>

\* Slips: the increment of the claim is forgotten, or counted twice.
ExhaustedLate(w, n) == batch[w][n] > MaxJobAttempts
ExhaustedEarly(w, n) == batch[w][n] + 1 >= MaxJobAttempts

\* attempts = job.attempts + 1 of the claimed row, not of the table's.
Exhausted(w, n) == batch[w][n] >= MaxJobAttempts

failOutboxJob(w) ==
  /\ pc[w] = "fail"
  /\ LET n == cur[w] IN
       /\ jobStatus' = [jobStatus EXCEPT ![n] =
                          IF Exhausted(w, n) THEN "dead_letter" ELSE "failed"]
       /\ ripe' = [ripe EXCEPT ![n] = FALSE]
  /\ Release(w)
  /\ UNCHANGED <<jobAttempts, notifVars, envVars, sends, answer, fallback, faults>>

-----------------------------------------------------------------------------
(* queueSmsFallbackForFailedWhatsApp, called by workers and by handlers *)

\* A worker goes on to failOutboxJob, a handler answers its request.
LeaveFallback(a) ==
  /\ pc' = [pc EXCEPT ![a] = IF a \in Workers THEN "fail" ELSE "ready"]
  /\ cur' = [cur EXCEPT ![a] = IF a \in Workers THEN @ ELSE NoNotif]
  /\ fallback' = [fallback EXCEPT ![a] = NoNotif]

\* usable[key] stands for all the fallback needs of its recipient: an active
\* user with a usable SMS endpoint.
WantsFallback(n) ==
  /\ n \in WhatsAppDigests
  /\ rule.sms
  /\ usable[FallbackKey(n, rule.lead)]

\* Slip: only callbacks lead to a fallback.
DecideOnCallbackOnly(a) ==
  /\ pc[a] = "decide"
  /\ IF a \in Handlers /\ WantsFallback(cur[a])
       THEN /\ fallback' = [fallback EXCEPT ![a] = FallbackKey(cur[a], rule.lead)]
            /\ pc' = [pc EXCEPT ![a] = "insert"]
            /\ UNCHANGED cur
       ELSE LeaveFallback(a)
  /\ UNCHANGED <<jobVars, notifVars, envVars, sends, batch, answer, faults>>

DecideFallback(a) ==
  /\ pc[a] = "decide"
  /\ \/ /\ WantsFallback(cur[a])
        /\ fallback' = [fallback EXCEPT ![a] = FallbackKey(cur[a], rule.lead)]
        /\ pc' = [pc EXCEPT ![a] = "insert"]
        /\ UNCHANGED cur
     \/ /\ ~WantsFallback(cur[a])
        /\ LeaveFallback(a)
  /\ UNCHANGED <<jobVars, notifVars, envVars, sends, batch, answer, faults>>

\* insertNotification: ON CONFLICT(notification_key) DO NOTHING.
InsertFallback(a) ==
  /\ pc[a] = "insert"
  /\ \/ /\ notifStatus[fallback[a]] = "absent"
        /\ notifStatus' = [notifStatus EXCEPT ![fallback[a]] = "queued"]
        /\ pc' = [pc EXCEPT ![a] = "queue"]
        /\ UNCHANGED <<cur, fallback>>
     \/ /\ notifStatus[fallback[a]] # "absent"
        /\ LeaveFallback(a)
        /\ UNCHANGED notifStatus
  /\ UNCHANGED <<jobVars, messageId, envVars, sends, batch, answer, faults>>

queueOutboxJob(a) ==
  /\ pc[a] = "queue"
  /\ jobStatus' = [jobStatus EXCEPT ![fallback[a]] = "pending"]
  /\ ripe' = [ripe EXCEPT ![fallback[a]] = TRUE]
  /\ LeaveFallback(a)
  /\ UNCHANGED <<jobAttempts, notifVars, envVars, sends, batch, answer, faults>>

-----------------------------------------------------------------------------
\* SELECT ... WHERE provider_message_id = ?
Matches(n, i) == messageId[n] = i

(* applyProviderStatus: one transaction, then perhaps the fallback.  The    *)
(* provider reports on messages it accepted, in any order, and repeats      *)
(* itself; a repeated event changes nothing, an event whose message no row  *)
(* carries is recorded and otherwise ignored.                               *)
applyProviderStatus(h, n, i, s) ==
  /\ pc[h] = "ready"
  /\ <<n, i, s>> \notin events
  /\ Cardinality(events) < MaxEvents
  /\ events' = events \cup {<<n, i, s>>}
  /\ \/ /\ Matches(n, i)
        /\ notifStatus' = [notifStatus EXCEPT ![n] = s]
        /\ pc' = [pc EXCEPT ![h] = IF s = "failed" THEN "decide" ELSE "ready"]
        /\ cur' = [cur EXCEPT ![h] = IF s = "failed" THEN n ELSE NoNotif]
     \/ /\ ~Matches(n, i)
        /\ UNCHANGED <<notifStatus, pc, cur>>
  /\ UNCHANGED <<jobVars, messageId, usable, rule, sends, batch, answer, fallback, faults>>

-----------------------------------------------------------------------------
(* Faults, the clock and the administrators *)

\* The process dies, or an error leaves the handler: what it held is forgotten.
Abandon(a) ==
  /\ pc' = [pc EXCEPT ![a] = "ready"]
  /\ cur' = [cur EXCEPT ![a] = NoNotif]
  /\ fallback' = [fallback EXCEPT ![a] = NoNotif]
  /\ batch' = [w \in Workers |-> IF w = a THEN NoClaims ELSE batch[w]]
  /\ answer' = [w \in Workers |-> IF w = a THEN 0 ELSE answer[w]]

Crash(a) ==
  /\ faults < MaxFaults
  /\ faults' = faults + 1
  /\ pc[a] # "ready" \/ (a \in Workers /\ batch[a] # NoClaims)
  /\ Abandon(a)
  /\ UNCHANGED <<jobVars, notifVars, envVars, sends>>

\* The statement a worker is about to run fails.  The success UPDATE is inside
\* the try block of attemptNotification, so its failure is handled as a refusal;
\* every other error is caught by the loop, which fails the job.
StatementFails(w) ==
  /\ faults < MaxFaults
  /\ faults' = faults + 1
  /\ \/ /\ pc[w] = "ready"
        /\ \E n \in Notifs : Holds(w, n) /\ cur' = [cur EXCEPT ![w] = n]
        /\ pc' = [pc EXCEPT ![w] = "fail"]
     \/ /\ pc[w] = "record"
        /\ pc' = [pc EXCEPT ![w] = "refused"]
        /\ UNCHANGED cur
     \/ /\ pc[w] \in {"endpoint", "begin", "refused", "unavailable", "complete",
                      "decide", "insert", "queue"}
        /\ pc' = [pc EXCEPT ![w] = "fail"]
        /\ UNCHANGED cur
  /\ answer' = [answer EXCEPT ![w] = 0]
  /\ fallback' = [fallback EXCEPT ![w] = NoNotif]
  /\ UNCHANGED <<jobVars, notifVars, envVars, sends, batch>>

\* The backoff of a failed job, or the ten minutes of a processing one, run out.
\* Without SlowBatches, ten minutes are more than any live worker needs.
Ripen(n) ==
  /\ jobStatus[n] \in {"failed", "processing"}
  /\ ~ripe[n]
  /\ jobStatus[n] = "processing" => SlowBatches \/ \A w \in Workers : ~Holds(w, n)
  /\ ripe' = [ripe EXCEPT ![n] = TRUE]
  /\ UNCHANGED <<jobStatus, jobAttempts, notifVars, envVars, sends, actorVars, faults>>

\* updateEndpoint by the owner of the endpoint.
ToggleEndpoint(n) ==
  /\ usable' = [usable EXCEPT ![n] = ~@]
  /\ UNCHANGED <<jobVars, notifVars, rule, events, sends, actorVars, faults>>

updateNotificationRule(r) ==
  /\ r # rule
  /\ rule' = r
  /\ UNCHANGED <<jobVars, notifVars, usable, events, sends, actorVars, faults>>

-----------------------------------------------------------------------------
FallbackStep(a) == DecideFallback(a) \/ InsertFallback(a) \/ queueOutboxJob(a)

WorkerStep(w) ==
  \/ \E n \in Notifs : LoadNotification(w, n)
  \/ LoadEndpoint(w) \/ MarkUnavailable(w)
  \/ BeginAttempt(w) \/ SendAccepted(w) \/ SendRefused(w)
  \/ RecordAccepted(w) \/ RecordFailure(w)
  \/ completeOutboxJob(w) \/ failOutboxJob(w)
  \/ FallbackStep(w)

Next ==
  \/ \E w \in Workers : Claim(w) \/ WorkerStep(w) \/ StatementFails(w)
  \/ \E h \in Handlers : FallbackStep(h)
  \/ \E h \in Handlers, n \in Notifs, s \in Reports :
       \E i \in 1..sends[n] : applyProviderStatus(h, n, i, s)
  \/ \E a \in Actors : Crash(a)
  \/ \E n \in Notifs : Ripen(n)
  \/ \E n \in Unsteady : ToggleEndpoint(n)
  \/ \E r \in Rules : updateNotificationRule(r)

Spec == Init /\ [][Next]_vars

(* What the scheduling justifies: cron calls processOutboxJobs every minute, *)
(* a worker or handler that is not killed runs its next statement, and time  *)
(* passes.                                                                   *)
Fairness ==
  /\ \A w \in Workers : WF_vars(Claim(w)) /\ WF_vars(WorkerStep(w))
  /\ \A h \in Handlers : WF_vars(FallbackStep(h))
  /\ \A n \in Notifs : WF_vars(Ripen(n))

FairSpec == Spec /\ Fairness

-----------------------------------------------------------------------------
(* Safety, whatever the timing *)

\* However workers crash, time out or overtake each other, the provider accepts
\* at most MAX_JOB_ATTEMPTS messages for one notification: every send is paid
\* for by an attempt counted in the claim transaction of processOutboxJobs.
SendsWithinBudget == \A n \in Notifs : sends[n] <= MaxJobAttempts

\* failOutboxJob computes the attempts from the row as read before the claim's
\* increment; all the same, a job is parked only when the table's own count is
\* used up.
DeadLetterIsExhausted ==
  \A n \in Notifs : jobStatus[n] = "dead_letter" => jobAttempts[n] = MaxJobAttempts

\* A notification shown as accepted, sent, delivered or read was accepted by the
\* provider at least once, and the message id it carries, if any, is of a message
\* the provider accepted, whichever worker or callback wrote last.
DeliveredWasAccepted ==
  \A n \in Notifs :
    /\ notifStatus[n] \in DELIVERED_STATES => sends[n] > 0
    /\ messageId[n] <= sends[n]

(* Safety, when no live worker needs more than ten minutes (~SlowBatches) *)

\* SKIP LOCKED and the processing status keep two workers off the same job.
Exclusive ==
  \A w, v \in Workers, n \in Notifs : Holds(w, n) /\ Holds(v, n) => w = v

\* A completed job was not lost: the provider accepted a message for it or its
\* notification is marked failed because the endpoint was gone.
CompletedIsHonest ==
  \A n \in Notifs : jobStatus[n] = "completed" /\ sends[n] = 0 => notifStatus[n] = "failed"

\* Once the acceptance of a message is stored, its notification is sent again
\* only after the provider reported that message failed.
ResendNeedsReport ==
  [][\A n \in Notifs : sends'[n] > sends[n] /\ messageId[n] # 0
        => <<n, messageId[n], "failed">> \in events]_vars

\* A job that is queued or to be retried has an attempt left.
Retryable ==
  \A n \in Notifs :
    jobStatus[n] \in {"absent", "pending", "failed"} => jobAttempts[n] < MaxJobAttempts

\* The outbox keeps the promises of JobLifecycle.
Lifecycle == INSTANCE JobLifecycle
               WITH Jobs <- Notifs, status <- jobStatus, attempts <- jobAttempts
ImplementsLifecycle == Lifecycle!Spec

(* Liveness, under Fairness *)

\* A queued job is completed or parked, unless its attempts are used up.
JobsSettle ==
  \A n \in Notifs :
    jobStatus[n] = "pending"
      ~> jobStatus[n] \in {"completed", "dead_letter"} \/ jobAttempts[n] = MaxJobAttempts

\* No SMS fallback is written and then forgotten: one whose job is not queued yet
\* is in the hands of whoever inserted it, unless somebody died.
FallbackQueued ==
  \A n \in Notifs :
    notifStatus[n] # "absent" /\ jobStatus[n] = "absent" /\ faults = 0 =>
      \E a \in Actors : pc[a] = "queue" /\ fallback[a] = n

Failing(n) == \E a \in Actors : pc[a] = "decide" /\ cur[a] = n

\* A WhatsApp digest that fails is followed by a queued SMS, unless the rule
\* or the recipient's SMS endpoint rules it out or somebody dies on the way.
FallbackFollows ==
  \A n \in WhatsAppDigests :
    Failing(n) ~> \/ \E r \in Rules : jobStatus[FallbackKey(n, r.lead)] # "absent"
                  \/ ~WantsFallback(n)
                  \/ faults > 0

(* Statements of the documentation that the code does not keep *)

\* docs/ARCHITECTURE.md: a restart or two processes cannot double-send.
NoDoubleSend == \A n \in Notifs : sends[n] <= 1

\* docs/ARCHITECTURE.md: dead_letter after five attempts.
ExhaustedIsParked ==
  \A n \in Notifs :
    jobAttempts[n] = MaxJobAttempts ~> jobStatus[n] \in {"completed", "dead_letter"}
=============================================================================
