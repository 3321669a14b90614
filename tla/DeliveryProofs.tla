--------------------------- MODULE DeliveryProofs ---------------------------
(***************************************************************************)
(* Proofs about Delivery, for any number of workers, handlers and          *)
(* notifications and any MaxJobAttempts: type correctness, the safety      *)
(* properties that hold whatever the timing, and those that need a worker  *)
(* not to outlive its claim (~SlowBatches).                                *)
(***************************************************************************)
EXTENDS Delivery, FiniteSetTheorems, TLAPS

\* The disjuncts of Next, one per action of the code.
LEMMA NextCases ==
  ASSUME Next
  PROVE  \/ \E w \in Workers :
              \/ Claim(w) \/ \E n \in Notifs : LoadNotification(w, n)
              \/ LoadEndpoint(w) \/ MarkUnavailable(w)
              \/ BeginAttempt(w) \/ SendAccepted(w) \/ SendRefused(w)
              \/ RecordAccepted(w) \/ RecordFailure(w)
              \/ completeOutboxJob(w) \/ failOutboxJob(w) \/ StatementFails(w)
         \/ \E a \in Actors :
              DecideFallback(a) \/ InsertFallback(a) \/ queueOutboxJob(a) \/ Crash(a)
         \/ \E h \in Handlers, n \in Notifs, s \in Reports :
              \E i \in 1..sends[n] : applyProviderStatus(h, n, i, s)
         \/ \E n \in Notifs : Ripen(n) \/ ToggleEndpoint(n)
         \/ \E r \in Rules : updateNotificationRule(r)
BY NotifsAssumption DEF Next, WorkerStep, FallbackStep, Actors

-----------------------------------------------------------------------------
(* Type correctness *)

\* A worker that is past taking a job from its batch works on one it holds.
Placed == \A w \in Workers : pc[w] # "ready" => cur[w] \in Notifs /\ Holds(w, cur[w])

Inv == TypeOK /\ Placed

LEMMA TypeInit == Init => TypeOK
BY NotifsAssumption, BoundsAssumption
   DEF Init, TypeOK, JobStatus, NotificationStatus, NoClaims, Actors

LEMMA ReleaseType ==
  ASSUME TypeOK, NEW w \in Workers, Release(w)
  PROVE  batch' \in [Workers -> [Notifs -> 0..MaxJobAttempts]]
<1>a. 0 \in 0..MaxJobAttempts
  BY BoundsAssumption
<1>b. batch[w] \in [Notifs -> 0..MaxJobAttempts]
  BY DEF TypeOK
<1>1. [batch[w] EXCEPT ![cur[w]] = 0] \in [Notifs -> 0..MaxJobAttempts]
  BY <1>a, <1>b
<1>2. batch' = [batch EXCEPT ![w] = [batch[w] EXCEPT ![cur[w]] = 0]]
  BY DEF Release, TypeOK
<1> QED BY <1>1, <1>2 DEF TypeOK

LEMMA TypeStep == Inv /\ [Next]_vars => TypeOK'
<1> SUFFICES ASSUME TypeOK, Placed, [Next]_vars PROVE TypeOK'
  BY DEF Inv
<1> USE DEF TypeOK
<1>1. CASE UNCHANGED vars
  BY <1>1 DEF vars, jobVars, notifVars, envVars, actorVars
<1>2. CASE Next
  <2> USE DEF jobVars, notifVars, envVars, actorVars, Actors, Release, LeaveFallback
  <2>1. ASSUME NEW w \in Workers, Claim(w) PROVE TypeOK'
    <3> PICK S \in SUBSET {n \in Notifs : Claimable(n)} :
          /\ jobStatus' = [n \in Notifs |-> IF n \in S THEN "processing" ELSE jobStatus[n]]
          /\ jobAttempts' = [n \in Notifs |-> IF n \in S THEN jobAttempts[n] + 1 ELSE jobAttempts[n]]
          /\ ripe' = [n \in Notifs |-> ripe[n] /\ n \notin S]
          /\ batch' = [batch EXCEPT ![w] =
                         [n \in Notifs |-> IF n \in S THEN jobAttempts[n] + 1 ELSE 0]]
      BY <2>1 DEF Claim
    <3>1. \A n \in S : jobAttempts[n] + 1 \in 0..MaxJobAttempts
      BY BoundsAssumption DEF Claimable
    <3>2. jobStatus' \in [Notifs -> JobStatus] /\ ripe' \in [Notifs -> BOOLEAN]
      BY DEF JobStatus
    <3>3. jobAttempts' \in [Notifs -> 0..MaxJobAttempts]
      BY <3>1
    <3>4. [n \in Notifs |-> IF n \in S THEN jobAttempts[n] + 1 ELSE 0] \in [Notifs -> 0..MaxJobAttempts]
      BY <3>1, BoundsAssumption
    <3>5. batch' \in [Workers -> [Notifs -> 0..MaxJobAttempts]]
      BY <3>4
    <3> QED BY <2>1, <3>2, <3>3, <3>5 DEF Claim
  <2>2. ASSUME NEW w \in Workers, NEW n \in Notifs, LoadNotification(w, n) PROVE TypeOK'
    BY <2>2 DEF LoadNotification
  <2>3. ASSUME NEW w \in Workers, LoadEndpoint(w) PROVE TypeOK'
    BY <2>3 DEF LoadEndpoint
  <2>4. ASSUME NEW w \in Workers, MarkUnavailable(w) PROVE TypeOK'
    BY <2>4 DEF MarkUnavailable, NotificationStatus
  <2>5. ASSUME NEW w \in Workers, BeginAttempt(w) PROVE TypeOK'
    BY <2>5 DEF BeginAttempt, NotificationStatus
  <2>6. ASSUME NEW w \in Workers, SendAccepted(w) PROVE TypeOK'
    <3>1. cur[w] \in Notifs /\ sends[cur[w]] + 1 \in Nat
      BY <2>6 DEF SendAccepted, Placed
    <3>2. sends' \in [Notifs -> Nat] /\ answer' \in [Workers -> Nat]
      BY <2>6, <3>1 DEF SendAccepted
    <3> QED BY <2>6, <3>2 DEF SendAccepted
  <2>7. ASSUME NEW w \in Workers, SendRefused(w) PROVE TypeOK'
    BY <2>7 DEF SendRefused
  <2>8. ASSUME NEW w \in Workers, RecordAccepted(w) PROVE TypeOK'
    BY <2>8 DEF RecordAccepted, NotificationStatus, DELIVERED_STATES
  <2>9. ASSUME NEW w \in Workers, RecordFailure(w) PROVE TypeOK'
    BY <2>9 DEF RecordFailure, NotificationStatus
  <2>10. ASSUME NEW w \in Workers, completeOutboxJob(w) PROVE TypeOK'
    <3>1. batch' \in [Workers -> [Notifs -> 0..MaxJobAttempts]]
      BY <2>10, BoundsAssumption, ReleaseType DEF completeOutboxJob
    <3> QED BY <2>10, <3>1 DEF completeOutboxJob, JobStatus
  <2>11. ASSUME NEW w \in Workers, failOutboxJob(w) PROVE TypeOK'
    <3>1. batch' \in [Workers -> [Notifs -> 0..MaxJobAttempts]]
      BY <2>11, BoundsAssumption, ReleaseType DEF failOutboxJob
    <3> QED BY <2>11, <3>1 DEF failOutboxJob, JobStatus
  <2>12. ASSUME NEW w \in Workers, StatementFails(w) PROVE TypeOK'
    BY <2>12, BoundsAssumption DEF StatementFails
  <2>13. ASSUME NEW a \in Actors, DecideFallback(a) PROVE TypeOK'
    BY <2>13, RulesAssumption DEF DecideFallback, WantsFallback
  <2>14. ASSUME NEW a \in Actors, InsertFallback(a) PROVE TypeOK'
    BY <2>14 DEF InsertFallback, NotificationStatus
  <2>15. ASSUME NEW a \in Actors, queueOutboxJob(a) PROVE TypeOK'
    BY <2>15 DEF queueOutboxJob, JobStatus
  <2>16. ASSUME NEW a \in Actors, Crash(a) PROVE TypeOK'
    <3>1. NoClaims \in [Notifs -> 0..MaxJobAttempts]
      BY BoundsAssumption DEF NoClaims
    <3> QED BY <2>16, <3>1, BoundsAssumption DEF Crash, Abandon
  <2>17. ASSUME NEW h \in Handlers, NEW n \in Notifs, NEW s \in Reports,
                NEW i \in 1..sends[n], applyProviderStatus(h, n, i, s)
         PROVE  TypeOK'
    <3>1. <<n, i, s>> \in Notifs \X Nat \X Reports
      OBVIOUS
    <3>2. s \in NotificationStatus
      BY BoundsAssumption DEF NotificationStatus, ReportedStatus
    <3>3. events' \subseteq Notifs \X Nat \X Reports
      BY <2>17, <3>1 DEF applyProviderStatus
    <3>4. notifStatus' \in [Notifs -> NotificationStatus]
      BY <2>17, <3>2 DEF applyProviderStatus
    <3>5. pc' \in [Actors -> {"ready", "endpoint", "begin", "send", "record", "refused",
                             "unavailable", "complete", "decide", "insert", "queue", "fail"}]
      BY <2>17 DEF applyProviderStatus
    <3>6. cur' \in [Actors -> Notifs \cup {NoNotif}]
      BY <2>17 DEF applyProviderStatus
    <3> QED BY <2>17, <3>3, <3>4, <3>5, <3>6 DEF applyProviderStatus
  <2>18. ASSUME NEW n \in Notifs, Ripen(n) PROVE TypeOK'
    BY <2>18 DEF Ripen
  <2>19. ASSUME NEW n \in Notifs, ToggleEndpoint(n) PROVE TypeOK'
    BY <2>19 DEF ToggleEndpoint
  <2>20. ASSUME NEW r \in Rules, updateNotificationRule(r) PROVE TypeOK'
    BY <2>20 DEF updateNotificationRule
  <2> QED
    BY <1>2, NextCases, <2>1, <2>2, <2>3, <2>4, <2>5, <2>6, <2>7, <2>8, <2>9, <2>10, <2>11,
       <2>12, <2>13, <2>14, <2>15, <2>16, <2>17, <2>18, <2>19, <2>20
<1> QED BY <1>1, <1>2

LEMMA PlacedStep == Inv /\ [Next]_vars => Placed'
<1> SUFFICES ASSUME Inv, [Next]_vars, NEW v \in Workers, pc'[v] # "ready"
             PROVE  cur'[v] \in Notifs /\ batch'[v][cur'[v]] > 0
  BY DEF Placed, Holds
<1> USE DEF Inv, TypeOK, Placed, Holds
<1>1. CASE UNCHANGED vars
  BY <1>1 DEF vars, actorVars
<1>2. CASE Next
  <2> USE DEF actorVars, Actors, Release, LeaveFallback
  <2>1. ASSUME NEW w \in Workers, Claim(w) PROVE cur'[v] \in Notifs /\ batch'[v][cur'[v]] > 0
    <3>1. pc' = pc /\ cur' = cur /\ pc[w] = "ready"
      BY <2>1 DEF Claim
    <3>2. v # w
      BY <3>1
    <3>3. batch'[v] = batch[v]
      BY <2>1, <3>2 DEF Claim
    <3> QED BY <3>1, <3>3
  <2>2. ASSUME NEW w \in Workers, NEW n \in Notifs, LoadNotification(w, n)
        PROVE  cur'[v] \in Notifs /\ batch'[v][cur'[v]] > 0
    BY <2>2 DEF LoadNotification
  <2>3. ASSUME NEW w \in Workers,
               \/ LoadEndpoint(w) \/ MarkUnavailable(w) \/ BeginAttempt(w) \/ SendAccepted(w)
               \/ SendRefused(w) \/ RecordAccepted(w) \/ RecordFailure(w)
        PROVE  cur'[v] \in Notifs /\ batch'[v][cur'[v]] > 0
    BY <2>3 DEF LoadEndpoint, MarkUnavailable, BeginAttempt, SendAccepted, SendRefused,
                RecordAccepted, RecordFailure
  <2>4. ASSUME NEW w \in Workers, completeOutboxJob(w) \/ failOutboxJob(w)
        PROVE  cur'[v] \in Notifs /\ batch'[v][cur'[v]] > 0
    BY <2>4 DEF completeOutboxJob, failOutboxJob
  <2>5. ASSUME NEW w \in Workers, StatementFails(w)
        PROVE  cur'[v] \in Notifs /\ batch'[v][cur'[v]] > 0
    BY <2>5 DEF StatementFails
  <2>6. ASSUME NEW a \in Actors, DecideFallback(a) \/ InsertFallback(a) \/ queueOutboxJob(a)
        PROVE  cur'[v] \in Notifs /\ batch'[v][cur'[v]] > 0
    BY <2>6 DEF DecideFallback, InsertFallback, queueOutboxJob
  <2>7. ASSUME NEW a \in Actors, Crash(a) PROVE cur'[v] \in Notifs /\ batch'[v][cur'[v]] > 0
    BY <2>7 DEF Crash, Abandon
  <2>8. ASSUME NEW h \in Handlers, NEW n \in Notifs, NEW s \in Reports,
               NEW i \in 1..sends[n], applyProviderStatus(h, n, i, s)
        PROVE  cur'[v] \in Notifs /\ batch'[v][cur'[v]] > 0
    BY <2>8, WorkersAssumption DEF applyProviderStatus
  <2>9. ASSUME NEW n \in Notifs, Ripen(n) \/ ToggleEndpoint(n)
        PROVE  cur'[v] \in Notifs /\ batch'[v][cur'[v]] > 0
    BY <2>9 DEF Ripen, ToggleEndpoint
  <2>10. ASSUME NEW r \in Rules, updateNotificationRule(r)
         PROVE  cur'[v] \in Notifs /\ batch'[v][cur'[v]] > 0
    BY <2>10 DEF updateNotificationRule
  <2> QED BY <1>2, NextCases, <2>1, <2>2, <2>3, <2>4, <2>5, <2>6, <2>7, <2>8, <2>9, <2>10
<1> QED BY <1>1, <1>2

LEMMA Invariance == Spec => []Inv
<1>1. Init => Inv
  BY TypeInit DEF Inv, Placed, Init, Actors
<1>2. Inv /\ [Next]_vars => Inv'
  BY TypeStep, PlacedStep DEF Inv
<1> QED BY <1>1, <1>2, PTL DEF Spec

\* Every reachable state has the types the tables and the workers' local
\* variables have in the code; the attempts column never exceeds its limit.
THEOREM TypeCorrect == Spec => []TypeOK
BY Invariance, PTL DEF Inv

-----------------------------------------------------------------------------
(* At most MaxJobAttempts messages per notification.  Every claim counted in *)
(* jobAttempts pays for one send: what has been sent, and the claims that    *)
(* may still lead to a send, never exceed the count.                         *)

Unsent(n) ==
  {w \in Workers : Holds(w, n) /\ (cur[w] = n => pc[w] \in {"ready", "endpoint", "begin", "send"})}

Budget == \A n \in Notifs : sends[n] + Cardinality(Unsent(n)) <= jobAttempts[n]

\* A step that neither claims nor sends takes no worker's claim back to before
\* its send.
LEMMA UnsentShrinks ==
  ASSUME Inv, Next, sends' = sends, jobAttempts' = jobAttempts, NEW n \in Notifs
  PROVE  Unsent(n)' \subseteq Unsent(n)
<1> SUFFICES ASSUME NEW v \in Unsent(n)' PROVE v \in Unsent(n)
  OBVIOUS
<1> USE DEF Inv, TypeOK, Placed, Holds, Unsent
<1>0. v \in Workers /\ batch'[v][n] > 0
      /\ (cur'[v] = n => pc'[v] \in {"ready", "endpoint", "begin", "send"})
  OBVIOUS
<1> SUFFICES batch[v][n] > 0 /\ (cur[v] = n => pc[v] \in {"ready", "endpoint", "begin", "send"})
  BY <1>0
<1> HIDE DEF Unsent
<1> USE DEF actorVars, Actors, Release, LeaveFallback
<1> DEFINE Goal == batch[v][n] > 0 /\ (cur[v] = n => pc[v] \in {"ready", "endpoint", "begin", "send"})
<1>1. ASSUME NEW w \in Workers, Claim(w) PROVE Goal
  <2>1. PICK S \in SUBSET {m \in Notifs : Claimable(m)} :
          /\ S # {}
          /\ jobAttempts' = [m \in Notifs |-> IF m \in S THEN jobAttempts[m] + 1 ELSE jobAttempts[m]]
    BY <1>1 DEF Claim
  <2>2. PICK m \in S : m \in Notifs
    BY <2>1
  <2>3. jobAttempts[m] \in Nat /\ jobAttempts'[m] = jobAttempts[m] + 1
    BY <2>1, <2>2, BoundsAssumption
  <2> QED BY <2>3
<1>2. ASSUME NEW w \in Workers, NEW m \in Notifs, LoadNotification(w, m) PROVE Goal
  BY <1>0, <1>2 DEF LoadNotification
<1>3. ASSUME NEW w \in Workers,
             \/ LoadEndpoint(w) \/ MarkUnavailable(w) \/ BeginAttempt(w)
             \/ SendRefused(w) \/ RecordAccepted(w) \/ RecordFailure(w)
      PROVE  Goal
  BY <1>0, <1>3 DEF LoadEndpoint, MarkUnavailable, BeginAttempt, SendRefused,
              RecordAccepted, RecordFailure
<1>4. ASSUME NEW w \in Workers, SendAccepted(w) PROVE Goal
  <2>1. cur[w] \in Notifs /\ sends[cur[w]] \in Nat
    BY <1>4 DEF SendAccepted
  <2> QED BY <1>4, <2>1 DEF SendAccepted
<1>5. ASSUME NEW w \in Workers, completeOutboxJob(w) \/ failOutboxJob(w) PROVE Goal
  BY <1>0, <1>5 DEF completeOutboxJob, failOutboxJob
<1>6. ASSUME NEW w \in Workers, StatementFails(w) PROVE Goal
  BY <1>0, <1>6 DEF StatementFails
<1>7. ASSUME NEW a \in Actors, DecideFallback(a) \/ InsertFallback(a) \/ queueOutboxJob(a)
      PROVE  Goal
  BY <1>0, <1>7, NotifsAssumption DEF DecideFallback, InsertFallback, queueOutboxJob
<1>8. ASSUME NEW a \in Actors, Crash(a) PROVE Goal
  BY <1>0, <1>8 DEF Crash, Abandon, NoClaims
<1>9. ASSUME NEW h \in Handlers, NEW m \in Notifs, NEW s \in Reports,
             NEW i \in 1..sends[m], applyProviderStatus(h, m, i, s)
      PROVE  Goal
  BY <1>0, <1>9, WorkersAssumption DEF applyProviderStatus
<1>10. ASSUME NEW m \in Notifs, Ripen(m) \/ ToggleEndpoint(m) PROVE Goal
  BY <1>0, <1>10 DEF Ripen, ToggleEndpoint
<1>11. ASSUME NEW r \in Rules, updateNotificationRule(r) PROVE Goal
  BY <1>0, <1>11 DEF updateNotificationRule
<1> QED BY NextCases, <1>1, <1>2, <1>3, <1>4, <1>5, <1>6, <1>7, <1>8, <1>9, <1>10, <1>11

LEMMA UnsentFinite ==
  ASSUME NEW n
  PROVE  IsFiniteSet(Unsent(n)) /\ Cardinality(Unsent(n)) \in Nat
<1>1. Unsent(n) \subseteq Workers
  BY DEF Unsent
<1> QED BY <1>1, WorkersAssumption, FS_Subset, FS_CardinalityType

LEMMA BudgetStep == Inv /\ Inv' /\ Budget /\ [Next]_vars => Budget'
<1> SUFFICES ASSUME Inv, Inv', Budget, [Next]_vars, NEW n \in Notifs
             PROVE  sends'[n] + Cardinality(Unsent(n)') <= jobAttempts'[n]
  BY DEF Budget
<1> DEFINE U == Unsent(n)  V == Unsent(n)'
<1>1. /\ sends[n] \in Nat /\ sends'[n] \in Nat
      /\ jobAttempts[n] \in Nat /\ jobAttempts'[n] \in Nat
  BY BoundsAssumption DEF Inv, TypeOK
<1>2. IsFiniteSet(U) /\ Cardinality(U) \in Nat
  BY UnsentFinite
<1>3. sends[n] + Cardinality(U) <= jobAttempts[n]
  BY DEF Budget
<1>4. CASE UNCHANGED vars
  <2>1. V = U
    BY <1>4 DEF Unsent, Holds, vars, actorVars
  <2> QED BY <1>3, <1>4, <2>1 DEF vars, jobVars
<1>5. CASE Next /\ sends' = sends /\ jobAttempts' = jobAttempts
  <2>1. V \subseteq U
    BY <1>5, UnsentShrinks
  <2>2. Cardinality(V) <= Cardinality(U) /\ Cardinality(V) \in Nat
    BY <1>2, <2>1, FS_Subset, FS_CardinalityType
  <2> QED BY <1>1, <1>2, <1>3, <1>5, <2>2
<1>6. ASSUME NEW w \in Workers, Claim(w) PROVE sends'[n] + Cardinality(V) <= jobAttempts'[n]
  <2>1. PICK S \in SUBSET {m \in Notifs : Claimable(m)} :
          /\ jobAttempts' = [m \in Notifs |-> IF m \in S THEN jobAttempts[m] + 1 ELSE jobAttempts[m]]
          /\ batch' = [batch EXCEPT ![w] =
                         [m \in Notifs |-> IF m \in S THEN jobAttempts[m] + 1 ELSE 0]]
    BY <1>6 DEF Claim
  <2>2. pc' = pc /\ cur' = cur /\ sends' = sends
    BY <1>6 DEF Claim
  <2>3. CASE n \in S
    <3>1. V \subseteq U \cup {w}
      <4> SUFFICES ASSUME NEW v \in V, v # w PROVE v \in U
        OBVIOUS
      <4>1. v \in Workers /\ batch'[v] = batch[v]
        BY <2>1 DEF Unsent, Inv, TypeOK
      <4> QED BY <2>2, <4>1 DEF Unsent, Holds
    <3>2. Cardinality(V) <= Cardinality(U) + 1 /\ Cardinality(V) \in Nat
      <4> HIDE DEF U, V
      <4>0. /\ IsFiniteSet(U \cup {w})
            /\ Cardinality(U \cup {w}) =
                 IF w \in U THEN Cardinality(U) ELSE Cardinality(U) + 1
        BY <1>2, FS_AddElement
      <4>1. /\ IsFiniteSet(U \cup {w}) /\ Cardinality(U \cup {w}) \in Nat
            /\ Cardinality(U \cup {w}) <= Cardinality(U) + 1
        BY <1>2, <4>0
      <4>2. Cardinality(V) <= Cardinality(U \cup {w}) /\ Cardinality(V) \in Nat
        BY <3>1, <4>1, FS_Subset, FS_CardinalityType
      <4> QED BY <1>2, <4>1, <4>2
    <3>3. jobAttempts'[n] = jobAttempts[n] + 1
      BY <2>1, <2>3
    <3> QED BY <1>1, <1>2, <1>3, <2>2, <3>2, <3>3
  <2>4. CASE n \notin S
    <3>1. V \subseteq U
      BY <2>1, <2>2, <2>4 DEF Unsent, Holds, Inv, TypeOK
    <3>2. Cardinality(V) <= Cardinality(U) /\ Cardinality(V) \in Nat
      BY <1>2, <3>1, FS_Subset, FS_CardinalityType
    <3> QED BY <1>1, <1>2, <1>3, <2>1, <2>2, <2>4, <3>2
  <2> QED BY <2>3, <2>4
<1>7. ASSUME NEW w \in Workers, SendAccepted(w)
      PROVE  sends'[n] + Cardinality(V) <= jobAttempts'[n]
  <2>1. cur[w] \in Notifs /\ Holds(w, cur[w]) /\ pc[w] = "send"
    BY <1>7 DEF SendAccepted, Inv, Placed
  <2>2. /\ sends' = [sends EXCEPT ![cur[w]] = @ + 1]
        /\ jobAttempts' = jobAttempts /\ cur' = cur /\ batch' = batch
        /\ \/ pc' = [pc EXCEPT ![w] = "record"]
           \/ pc' = [pc EXCEPT ![w] = "refused"]
    BY <1>7 DEF SendAccepted, jobVars
  <2>3. CASE cur[w] = n
    <3>1. w \in U
      BY <2>1, <2>3 DEF Unsent
    <3>2. V \subseteq U \ {w}
      BY <2>2, <2>3 DEF Unsent, Holds, Inv, TypeOK, Actors
    <3>3. Cardinality(V) <= Cardinality(U) - 1 /\ Cardinality(V) \in Nat
      <4>1. IsFiniteSet(U \ {w}) /\ Cardinality(U \ {w}) = Cardinality(U) - 1
        BY <1>2, <3>1, FS_RemoveElement
      <4> QED BY <3>2, <4>1, FS_Subset, FS_CardinalityType
    <3>4. sends'[n] = sends[n] + 1
      BY <2>2, <2>3 DEF Inv, TypeOK
    <3> QED BY <1>1, <1>2, <1>3, <2>2, <3>3, <3>4
  <2>4. CASE cur[w] # n
    <3>1. V \subseteq U
      BY <2>2, <2>4 DEF Unsent, Holds, Inv, TypeOK, Actors
    <3>2. Cardinality(V) <= Cardinality(U) /\ Cardinality(V) \in Nat
      BY <1>2, <3>1, FS_Subset, FS_CardinalityType
    <3>3. sends'[n] = sends[n]
      BY <2>2, <2>4 DEF Inv, TypeOK
    <3> QED BY <1>1, <1>2, <1>3, <2>2, <3>2, <3>3
  <2> QED BY <2>3, <2>4
<1>8. CASE Next
  <2>1. \/ sends' = sends /\ jobAttempts' = jobAttempts
        \/ \E w \in Workers : Claim(w) \/ SendAccepted(w)
    BY <1>8, NextCases
       DEF LoadNotification, LoadEndpoint, MarkUnavailable, BeginAttempt, SendRefused,
           RecordAccepted, RecordFailure, completeOutboxJob, failOutboxJob, StatementFails,
           DecideFallback, InsertFallback, queueOutboxJob, Crash, applyProviderStatus,
           Ripen, ToggleEndpoint, updateNotificationRule, jobVars
  <2> QED BY <1>5, <1>6, <1>7, <1>8, <2>1
<1> QED BY <1>4, <1>8

LEMMA BudgetInvariance == Spec => []Budget
<1>1. Init => Budget
  <2> SUFFICES ASSUME Init, NEW n \in Notifs
               PROVE  sends[n] + Cardinality(Unsent(n)) <= jobAttempts[n]
    BY DEF Budget
  <2>1. Unsent(n) = {}
    BY DEF Init, Unsent, Holds, NoClaims
  <2> QED BY <2>1, FS_EmptySet DEF Init
<1>2. Inv /\ Inv' /\ Budget /\ [Next]_vars => Budget'
  BY BudgetStep
<1> QED BY <1>1, <1>2, Invariance, PTL DEF Spec

\* The provider accepts at most MaxJobAttempts messages for one notification,
\* for any number of workers, however they crash or overtake each other:
\* processOutboxJobs counts the attempt before anything is sent.
THEOREM AtMostMaxSends == Spec => []SendsWithinBudget
<1>1. Inv /\ Budget => SendsWithinBudget
  <2> SUFFICES ASSUME Inv, Budget, NEW n \in Notifs PROVE sends[n] <= MaxJobAttempts
    BY DEF SendsWithinBudget
  <2>1. Cardinality(Unsent(n)) \in Nat
    BY UnsentFinite
  <2>2. sends[n] \in Nat /\ jobAttempts[n] \in 0..MaxJobAttempts
    BY DEF Inv, TypeOK
  <2>3. sends[n] + Cardinality(Unsent(n)) <= jobAttempts[n]
    BY DEF Budget
  <2> QED BY <2>1, <2>2, <2>3, BoundsAssumption
<1> QED BY <1>1, Invariance, BudgetInvariance, PTL

-----------------------------------------------------------------------------
(* What the tables say is backed by what happened: a claim is at most as     *)
(* recent as the count of attempts, and an answer names an accepted message. *)

Counted == \A w \in Workers, n \in Notifs : batch[w][n] <= jobAttempts[n]
Answered == \A w \in Workers : pc[w] = "record" => sends[cur[w]] > 0 /\ answer[w] <= sends[cur[w]]

Backed == Counted /\ Answered /\ DeadLetterIsExhausted /\ DeliveredWasAccepted

\* Steps that leave the jobs, the batches and the count of sends alone.
LEMMA BackedByUnchanged ==
  ASSUME Inv, Backed, jobVars' = jobVars, batch' = batch, sends' = sends,
         \A w \in Workers : pc'[w] = "record" =>
            pc[w] = "record" /\ answer'[w] = answer[w] /\ cur'[w] = cur[w],
         \A n \in Notifs :
            /\ notifStatus'[n] \in DELIVERED_STATES => notifStatus[n] \in DELIVERED_STATES \/ sends[n] > 0
            /\ messageId'[n] = messageId[n] \/ messageId'[n] <= sends[n]
  PROVE  Backed'
BY DEF Backed, Counted, Answered, DeadLetterIsExhausted, DeliveredWasAccepted, jobVars

LEMMA BackedStep == Inv /\ Inv' /\ Backed /\ [Next]_vars => Backed'
<1> SUFFICES ASSUME Inv, Inv', Backed, [Next]_vars PROVE Backed'
  OBVIOUS
<1> USE DEF actorVars, notifVars, Actors
<1> DEFINE StillAnswering ==
             \A w \in Workers : pc'[w] = "record" =>
               pc[w] = "record" /\ answer'[w] = answer[w] /\ cur'[w] = cur[w]
           StillReceipted ==
             \A n \in Notifs :
               /\ notifStatus'[n] \in DELIVERED_STATES => notifStatus[n] \in DELIVERED_STATES \/ sends[n] > 0
               /\ messageId'[n] = messageId[n] \/ messageId'[n] <= sends[n]
<1>1. CASE UNCHANGED vars
  BY <1>1, BackedByUnchanged DEF vars
<1>2. ASSUME NEW w \in Workers, Claim(w) PROVE Backed'
  <2>1. PICK S \in SUBSET {m \in Notifs : Claimable(m)} :
          /\ jobStatus' = [m \in Notifs |-> IF m \in S THEN "processing" ELSE jobStatus[m]]
          /\ jobAttempts' = [m \in Notifs |-> IF m \in S THEN jobAttempts[m] + 1 ELSE jobAttempts[m]]
          /\ batch' = [batch EXCEPT ![w] =
                         [m \in Notifs |-> IF m \in S THEN jobAttempts[m] + 1 ELSE 0]]
    BY <1>2 DEF Claim
  <2>2. pc' = pc /\ cur' = cur /\ answer' = answer /\ sends' = sends
        /\ notifStatus' = notifStatus /\ messageId' = messageId
    BY <1>2 DEF Claim
  <2>3. ASSUME NEW v \in Workers, NEW n \in Notifs PROVE batch'[v][n] <= jobAttempts'[n]
    <3>1. batch[v][n] \in 0..MaxJobAttempts /\ jobAttempts[n] \in 0..MaxJobAttempts
          /\ batch[v][n] <= jobAttempts[n]
      BY DEF Inv, TypeOK, Backed, Counted
    <3>2. jobAttempts'[n] = IF n \in S THEN jobAttempts[n] + 1 ELSE jobAttempts[n]
      BY <2>1
    <3>3. CASE v = w
      <4>1. batch'[v][n] = IF n \in S THEN jobAttempts[n] + 1 ELSE 0
        BY <2>1, <3>3 DEF Inv, TypeOK
      <4> QED BY <3>1, <3>2, <4>1, BoundsAssumption
    <3>4. CASE v # w
      <4>1. batch'[v][n] = batch[v][n]
        BY <2>1, <3>4 DEF Inv, TypeOK
      <4> QED BY <3>1, <3>2, <4>1, BoundsAssumption
    <3> QED BY <3>3, <3>4
  <2>4. DeadLetterIsExhausted'
    BY <2>1 DEF Backed, DeadLetterIsExhausted
  <2> QED BY <2>2, <2>3, <2>4 DEF Backed, Counted, Answered, DeliveredWasAccepted
<1>3. ASSUME NEW w \in Workers, SendAccepted(w) PROVE Backed'
  <2>1. cur[w] \in Notifs /\ pc[w] = "send"
    BY <1>3 DEF SendAccepted, Inv, Placed
  <2>2. /\ sends' = [sends EXCEPT ![cur[w]] = @ + 1]
        /\ jobVars' = jobVars /\ cur' = cur /\ batch' = batch /\ notifVars' = notifVars
        /\ \/ pc' = [pc EXCEPT ![w] = "record"]
              /\ \E i \in {0, sends[cur[w]] + 1} : answer' = [answer EXCEPT ![w] = i]
           \/ pc' = [pc EXCEPT ![w] = "refused"] /\ answer' = answer
    BY <1>3 DEF SendAccepted
  <2>3. \A n \in Notifs : sends[n] \in Nat /\ sends'[n] \in Nat /\ sends[n] <= sends'[n]
    BY <2>1, <2>2 DEF Inv, TypeOK
  <2>4. Answered'
    <3> SUFFICES ASSUME NEW v \in Workers, pc'[v] = "record"
                 PROVE  sends'[cur'[v]] > 0 /\ answer'[v] <= sends'[cur'[v]]
      BY DEF Answered
    <3>1. CASE v = w
      <4>1. answer'[w] \in {0, sends[cur[w]] + 1} /\ sends'[cur[w]] = sends[cur[w]] + 1
        BY <2>1, <2>2, <3>1 DEF Inv, TypeOK
      <4> QED BY <2>1, <2>2, <2>3, <3>1, <4>1
    <3>2. CASE v # w
      <4>1. pc[v] = "record" /\ answer'[v] = answer[v]
        BY <2>2, <3>2 DEF Inv, TypeOK
      <4>2. cur[v] \in Notifs /\ sends[cur[v]] > 0 /\ answer[v] <= sends[cur[v]] /\ answer[v] \in Nat
        BY <4>1 DEF Backed, Answered, Inv, Placed, TypeOK
      <4> QED BY <2>2, <2>3, <4>1, <4>2
    <3> QED BY <3>1, <3>2
  <2>5. DeliveredWasAccepted'
    <3>1. \A n \in Notifs : messageId[n] \in Nat /\ messageId[n] <= sends[n]
      BY DEF Backed, DeliveredWasAccepted, Inv, TypeOK
    <3> QED BY <2>2, <2>3, <3>1 DEF Backed, DeliveredWasAccepted
  <2> QED BY <2>2, <2>4, <2>5 DEF Backed, Counted, DeadLetterIsExhausted, jobVars
<1>4. ASSUME NEW w \in Workers, completeOutboxJob(w) \/ failOutboxJob(w) PROVE Backed'
  <2>1. cur[w] \in Notifs
    BY <1>4 DEF completeOutboxJob, failOutboxJob, Inv, Placed
  <2>2. Counted'
    <3>1. jobAttempts' = jobAttempts
      BY <1>4 DEF completeOutboxJob, failOutboxJob
    <3>2. ASSUME NEW v \in Workers, NEW n \in Notifs PROVE batch'[v][n] <= jobAttempts[n]
      <4>1. batch'[v][n] = batch[v][n] \/ batch'[v][n] = 0
        BY <1>4, <2>1 DEF completeOutboxJob, failOutboxJob, Release, Inv, TypeOK
      <4>2. batch[v][n] <= jobAttempts[n] /\ jobAttempts[n] \in Nat
        BY BoundsAssumption DEF Backed, Counted, Inv, TypeOK
      <4> QED BY <4>1, <4>2
    <3> QED BY <3>1, <3>2 DEF Counted
  <2>3. DeadLetterIsExhausted'
    <3> SUFFICES ASSUME NEW n \in Notifs, jobStatus'[n] = "dead_letter"
                 PROVE  jobAttempts'[n] = MaxJobAttempts
      BY DEF DeadLetterIsExhausted
    <3>1. jobAttempts' = jobAttempts
      BY <1>4 DEF completeOutboxJob, failOutboxJob
    <3>2. jobStatus[n] = "dead_letter" \/ (n = cur[w] /\ batch[w][n] >= MaxJobAttempts)
      BY <1>4, <2>1 DEF completeOutboxJob, failOutboxJob, Exhausted, Inv, TypeOK
    <3>3. CASE jobStatus[n] = "dead_letter"
      BY <3>1, <3>3 DEF Backed, DeadLetterIsExhausted
    <3>4. CASE batch[w][n] >= MaxJobAttempts
      <4>1. /\ batch[w][n] <= jobAttempts[n]
            /\ jobAttempts[n] \in 0..MaxJobAttempts /\ batch[w][n] \in 0..MaxJobAttempts
        BY DEF Backed, Counted, Inv, TypeOK
      <4> QED BY <3>1, <3>4, <4>1, BoundsAssumption
    <3> QED BY <3>2, <3>3, <3>4
  <2>4. Answered' /\ DeliveredWasAccepted'
    BY <1>4 DEF completeOutboxJob, failOutboxJob, Release, Backed, Answered,
                DeliveredWasAccepted, Inv, TypeOK
  <2> QED BY <2>2, <2>3, <2>4 DEF Backed
<1>5. ASSUME NEW a \in Actors, queueOutboxJob(a) PROVE Backed'
  <2>1. jobAttempts' = jobAttempts /\ batch' = batch /\ sends' = sends /\ notifVars' = notifVars
        /\ answer' = answer
    BY <1>5 DEF queueOutboxJob
  <2>2. \A n \in Notifs : jobStatus'[n] = "dead_letter" => jobStatus[n] = "dead_letter"
    BY <1>5 DEF queueOutboxJob, Inv, TypeOK
  <2>3. \A w \in Workers : pc'[w] = "record" => pc[w] = "record" /\ cur'[w] = cur[w]
    BY <1>5 DEF queueOutboxJob, LeaveFallback, Inv, TypeOK
  <2> QED BY <2>1, <2>2, <2>3 DEF Backed, Counted, Answered, DeadLetterIsExhausted, DeliveredWasAccepted
<1>6. ASSUME NEW a \in Actors, Crash(a) PROVE Backed'
  <2>1. Counted'
    <3> SUFFICES ASSUME NEW v \in Workers, NEW n \in Notifs PROVE batch'[v][n] <= jobAttempts'[n]
      BY DEF Counted
    <3>1. jobAttempts' = jobAttempts /\ (batch'[v][n] = batch[v][n] \/ batch'[v][n] = 0)
      BY <1>6 DEF Crash, Abandon, NoClaims, jobVars
    <3>2. batch[v][n] <= jobAttempts[n] /\ jobAttempts[n] \in Nat
      BY BoundsAssumption DEF Backed, Counted, Inv, TypeOK
    <3> QED BY <3>1, <3>2
  <2>2. Answered'
    BY <1>6 DEF Crash, Abandon, Backed, Answered, Inv, TypeOK
  <2> QED BY <1>6, <2>1, <2>2 DEF Crash, Backed, DeadLetterIsExhausted, DeliveredWasAccepted, jobVars
<1>7. ASSUME NEW w \in Workers, RecordAccepted(w) PROVE Backed'
  <2>1. cur[w] \in Notifs /\ sends[cur[w]] > 0 /\ answer[w] <= sends[cur[w]]
    BY <1>7 DEF RecordAccepted, Backed, Answered, Inv, Placed
  <2>2. StillReceipted
    BY <1>7, <2>1 DEF RecordAccepted, Inv, TypeOK
  <2>3. StillAnswering
    BY <1>7 DEF RecordAccepted, Inv, TypeOK
  <2> QED BY <1>7, <2>2, <2>3, BackedByUnchanged DEF RecordAccepted
<1>8. ASSUME NEW w \in Workers,
             \/ \E n \in Notifs : LoadNotification(w, n)
             \/ LoadEndpoint(w) \/ MarkUnavailable(w) \/ BeginAttempt(w)
             \/ SendRefused(w) \/ RecordFailure(w) \/ StatementFails(w)
      PROVE  Backed'
  <2>1. StillReceipted
    BY <1>8 DEF LoadNotification, LoadEndpoint, MarkUnavailable, BeginAttempt, SendRefused,
                RecordFailure, StatementFails, DELIVERED_STATES, Inv, TypeOK
  <2>2. StillAnswering
    BY <1>8 DEF LoadNotification, LoadEndpoint, MarkUnavailable, BeginAttempt, SendRefused,
                RecordFailure, StatementFails, Inv, TypeOK
  <2>3. jobVars' = jobVars /\ batch' = batch /\ sends' = sends
    BY <1>8 DEF LoadNotification, LoadEndpoint, MarkUnavailable, BeginAttempt, SendRefused,
                RecordFailure, StatementFails
  <2> QED BY <2>1, <2>2, <2>3, BackedByUnchanged
<1>9. ASSUME NEW a \in Actors, DecideFallback(a) \/ InsertFallback(a) PROVE Backed'
  <2>1. StillReceipted
    BY <1>9 DEF DecideFallback, InsertFallback, DELIVERED_STATES, Inv, TypeOK
  <2>2. StillAnswering
    BY <1>9 DEF DecideFallback, InsertFallback, LeaveFallback, Inv, TypeOK
  <2>3. jobVars' = jobVars /\ batch' = batch /\ sends' = sends
    BY <1>9 DEF DecideFallback, InsertFallback
  <2> QED BY <2>1, <2>2, <2>3, BackedByUnchanged
<1>10. ASSUME NEW h \in Handlers, NEW n \in Notifs, NEW s \in Reports,
              NEW i \in 1..sends[n], applyProviderStatus(h, n, i, s)
       PROVE  Backed'
  <2>1. StillReceipted
    BY <1>10 DEF applyProviderStatus, Matches, Inv, TypeOK
  <2>2. StillAnswering
    BY <1>10, WorkersAssumption DEF applyProviderStatus, Inv, TypeOK
  <2> QED BY <1>10, <2>1, <2>2, BackedByUnchanged DEF applyProviderStatus
<1>11. ASSUME NEW n \in Notifs, Ripen(n) PROVE Backed'
  BY <1>11 DEF Ripen, Backed, Counted, Answered, DeadLetterIsExhausted, DeliveredWasAccepted
<1>12. ASSUME NEW n \in Notifs, ToggleEndpoint(n) PROVE Backed'
  BY <1>12, BackedByUnchanged DEF ToggleEndpoint
<1>13. ASSUME NEW r \in Rules, updateNotificationRule(r) PROVE Backed'
  BY <1>13, BackedByUnchanged DEF updateNotificationRule
<1> QED
  BY NextCases, <1>1, <1>2, <1>3, <1>4, <1>5, <1>6, <1>7, <1>8, <1>9, <1>10, <1>11, <1>12, <1>13

LEMMA BackedInvariance == Spec => []Backed
<1>1. Init => Backed
  BY BoundsAssumption DEF Init, Backed, Counted, Answered, DeadLetterIsExhausted,
     DeliveredWasAccepted, NoClaims, DELIVERED_STATES, Actors
<1>2. Inv /\ Inv' /\ Backed /\ [Next]_vars => Backed'
  BY BackedStep
<1> QED BY <1>1, <1>2, Invariance, PTL DEF Spec

\* failOutboxJob parks a job only when the table's own count of attempts is used
\* up, although it decides from a row read before the claim's increment.
THEOREM DeadLetterExhausted == Spec => []DeadLetterIsExhausted
BY BackedInvariance, PTL DEF Backed

\* A notification in a delivered state was accepted by the provider, and an id it
\* carries is that of an accepted message, whichever of the workers and callbacks
\* wrote last.
THEOREM DeliveredAccepted == Spec => []DeliveredWasAccepted
BY BackedInvariance, PTL DEF Backed

-----------------------------------------------------------------------------
(* When no live worker outlives its claim (~SlowBatches): one worker per job, *)
(* and the promises of JobLifecycle.                                          *)

\* A job that is held is being processed, is not up for reclaim, and its claim
\* is the last one counted.
Leased ==
  \A w \in Workers, n \in Notifs :
    Holds(w, n) => /\ jobStatus[n] = "processing" /\ ~ripe[n]
                   /\ batch[w][n] = jobAttempts[n]

\* A job comes into being once, for a notification that exists.
Written ==
  \A n \in Notifs : notifStatus[n] = "absent" => jobStatus[n] = "absent" /\ messageId[n] = 0
Targeted == \A a \in Actors : pc[a] \in {"insert", "queue"} => fallback[a] \in Notifs
Queueing ==
  \A a \in Actors : pc[a] = "queue" =>
    notifStatus[fallback[a]] # "absent" /\ jobStatus[fallback[a]] = "absent"
OneQueues ==
  \A a, b \in Actors : pc[a] = "queue" /\ pc[b] = "queue" /\ fallback[a] = fallback[b] => a = b

LeaseInv == Leased /\ Exclusive /\ Written /\ Targeted /\ Queueing /\ OneQueues

\* Steps that touch neither the jobs nor the batches, and let no actor begin to
\* insert or queue.
LEMMA LeaseByUnchanged ==
  ASSUME Inv, LeaseInv, jobVars' = jobVars, batch' = batch,
         \A a \in Actors : pc'[a] \in {"insert", "queue"} => pc'[a] = pc[a] /\ fallback'[a] = fallback[a],
         \A n \in Notifs : notifStatus'[n] = "absent" <=> notifStatus[n] = "absent",
         \A n \in Notifs : notifStatus[n] = "absent" => messageId'[n] = messageId[n]
  PROVE  LeaseInv'
<1> USE DEF LeaseInv, jobVars
<1>1. Leased' /\ Exclusive'
  BY DEF Leased, Exclusive, Holds
<1>2. Written'
  BY DEF Written
<1>3. Targeted' /\ OneQueues'
  BY DEF Targeted, OneQueues
<1>4. Queueing'
  BY DEF Queueing, Targeted
<1> QED BY <1>1, <1>2, <1>3, <1>4

\* What an unreleased job of a worker says about notifStatus.
LEMMA HeldExists ==
  ASSUME Inv, LeaseInv, NEW w \in Workers, pc[w] # "ready"
  PROVE  /\ cur[w] \in Notifs /\ Holds(w, cur[w])
         /\ jobStatus[cur[w]] = "processing" /\ notifStatus[cur[w]] # "absent"
BY DEF Inv, Placed, LeaseInv, Leased, Written

LEMMA LeaseStep ==
  ASSUME ~SlowBatches
  PROVE  Inv /\ Inv' /\ Backed /\ LeaseInv /\ [Next]_vars => LeaseInv'
<1> SUFFICES ASSUME Inv, Inv', Backed, LeaseInv, [Next]_vars PROVE LeaseInv'
  OBVIOUS
<1> USE DEF actorVars, notifVars, Actors
<1>1. CASE UNCHANGED vars
  BY <1>1, LeaseByUnchanged DEF vars
<1>2. ASSUME NEW w \in Workers, Claim(w) PROVE LeaseInv'
  <2>1. PICK S \in SUBSET {m \in Notifs : Claimable(m)} :
          /\ jobStatus' = [m \in Notifs |-> IF m \in S THEN "processing" ELSE jobStatus[m]]
          /\ jobAttempts' = [m \in Notifs |-> IF m \in S THEN jobAttempts[m] + 1 ELSE jobAttempts[m]]
          /\ ripe' = [m \in Notifs |-> ripe[m] /\ m \notin S]
          /\ batch' = [batch EXCEPT ![w] =
                         [m \in Notifs |-> IF m \in S THEN jobAttempts[m] + 1 ELSE 0]]
    BY <1>2 DEF Claim
  <2>2. pc' = pc /\ fallback' = fallback /\ notifStatus' = notifStatus /\ messageId' = messageId
    BY <1>2 DEF Claim
  <2>3. \A v \in Workers, n \in S : ~Holds(v, n)
    BY DEF LeaseInv, Leased, Claimable
  <2>4. \A v \in Workers, n \in Notifs : v # w => batch'[v][n] = batch[v][n]
    BY <2>1 DEF Inv, TypeOK
  <2>5. \A n \in Notifs : batch'[w][n] = IF n \in S THEN jobAttempts[n] + 1 ELSE 0
    BY <2>1 DEF Inv, TypeOK
  <2>6. Leased'
    <3> SUFFICES ASSUME NEW v \in Workers, NEW n \in Notifs, batch'[v][n] > 0
                 PROVE  jobStatus'[n] = "processing" /\ ~ripe'[n] /\ batch'[v][n] = jobAttempts'[n]
      BY DEF Leased, Holds
    <3>1. CASE n \in S
      <4>1. v = w
        BY <2>3, <2>4, <3>1 DEF Holds
      <4> QED BY <2>1, <2>5, <3>1, <4>1
    <3>2. CASE n \notin S
      <4>1. v # w /\ Holds(v, n)
        BY <2>4, <2>5, <3>2 DEF Holds
      <4>2. jobStatus[n] = "processing" /\ ~ripe[n] /\ batch[v][n] = jobAttempts[n]
        BY <4>1 DEF LeaseInv, Leased
      <4> QED BY <2>1, <2>4, <3>2, <4>1, <4>2
    <3> QED BY <3>1, <3>2
  <2>7. Exclusive'
    BY <2>3, <2>4, <2>5 DEF LeaseInv, Exclusive, Holds
  <2>8. \A n \in S : jobStatus[n] # "absent" /\ notifStatus[n] # "absent"
    BY DEF Claimable, LeaseInv, Written
  <2>9. Written' /\ Targeted' /\ OneQueues'
    BY <2>1, <2>2, <2>8 DEF LeaseInv, Written, Targeted, OneQueues
  <2>10. Queueing'
    <3> SUFFICES ASSUME NEW a \in Actors, pc[a] = "queue"
                 PROVE  notifStatus[fallback[a]] # "absent" /\ jobStatus'[fallback[a]] = "absent"
      BY <2>2 DEF Queueing
    <3>1. fallback[a] \in Notifs /\ notifStatus[fallback[a]] # "absent" /\ jobStatus[fallback[a]] = "absent"
      BY DEF LeaseInv, Queueing, Targeted
    <3>2. fallback[a] \notin S
      BY <2>8, <3>1
    <3> QED BY <2>1, <3>1, <3>2
  <2> QED BY <2>6, <2>7, <2>9, <2>10 DEF LeaseInv
<1>3. ASSUME NEW w \in Workers, completeOutboxJob(w) \/ failOutboxJob(w) PROVE LeaseInv'
  <2>1. /\ cur[w] \in Notifs /\ Holds(w, cur[w])
        /\ jobStatus[cur[w]] = "processing" /\ notifStatus[cur[w]] # "absent"
    BY <1>3, HeldExists DEF completeOutboxJob, failOutboxJob
  <2>2. /\ jobAttempts' = jobAttempts /\ notifVars' = notifVars /\ fallback' = fallback
        /\ \A n \in Notifs : n # cur[w] => jobStatus'[n] = jobStatus[n] /\ ripe'[n] = ripe[n]
    BY <1>3, <2>1 DEF completeOutboxJob, failOutboxJob, Inv, TypeOK
  <2>3. \A v \in Workers, n \in Notifs :
          batch'[v][n] = IF v = w /\ n = cur[w] THEN 0 ELSE batch[v][n]
    BY <1>3, <2>1 DEF completeOutboxJob, failOutboxJob, Release, Inv, TypeOK
  <2>4. \A a \in Actors : pc'[a] \in {"insert", "queue"} => pc'[a] = pc[a]
    BY <1>3 DEF completeOutboxJob, failOutboxJob, Release, Inv, TypeOK
  <2>5. \A v \in Workers, n \in Notifs : batch'[v][n] > 0 => Holds(v, n) /\ n # cur[w]
    BY <2>1, <2>3 DEF Holds, LeaseInv, Exclusive
  <2>6. Leased' /\ Exclusive'
    BY <2>2, <2>3, <2>5 DEF Leased, Exclusive, Holds, LeaseInv
  <2>7. Written' /\ Targeted' /\ OneQueues'
    BY <2>1, <2>2, <2>4 DEF LeaseInv, Written, Targeted, OneQueues
  <2>8. Queueing'
    <3> SUFFICES ASSUME NEW a \in Actors, pc'[a] = "queue"
                 PROVE  notifStatus'[fallback'[a]] # "absent" /\ jobStatus'[fallback'[a]] = "absent"
      BY DEF Queueing
    <3>1. /\ fallback[a] \in Notifs /\ notifStatus[fallback[a]] # "absent"
          /\ jobStatus[fallback[a]] = "absent"
      BY <2>4 DEF LeaseInv, Queueing, Targeted
    <3>2. fallback[a] # cur[w]
      BY <2>1, <3>1
    <3> QED BY <2>2, <3>1, <3>2
  <2> QED BY <2>6, <2>7, <2>8 DEF LeaseInv
<1>4. ASSUME NEW a \in Actors, queueOutboxJob(a) PROVE LeaseInv'
  <2>1. /\ fallback[a] \in Notifs /\ notifStatus[fallback[a]] # "absent"
        /\ jobStatus[fallback[a]] = "absent" /\ pc[a] = "queue"
    BY <1>4 DEF queueOutboxJob, LeaseInv, Queueing, Targeted
  <2>2. /\ jobAttempts' = jobAttempts /\ batch' = batch /\ notifVars' = notifVars
        /\ \A n \in Notifs : n # fallback[a] => jobStatus'[n] = jobStatus[n] /\ ripe'[n] = ripe[n]
    BY <1>4, <2>1 DEF queueOutboxJob, Inv, TypeOK
  <2>3. \A b \in Actors : pc'[b] \in {"insert", "queue"} =>
                            b # a /\ pc'[b] = pc[b] /\ fallback'[b] = fallback[b]
    BY <1>4 DEF queueOutboxJob, LeaveFallback, Inv, TypeOK
  <2>4. \A v \in Workers, n \in Notifs : Holds(v, n) => n # fallback[a]
    BY <2>1 DEF LeaseInv, Leased
  <2>5. Leased' /\ Exclusive'
    BY <2>2, <2>4 DEF Leased, Exclusive, Holds, LeaseInv
  <2>6. Written' /\ Targeted' /\ OneQueues'
    BY <2>1, <2>2, <2>3 DEF LeaseInv, Written, Targeted, OneQueues
  <2>7. Queueing'
    <3> SUFFICES ASSUME NEW b \in Actors, pc'[b] = "queue"
                 PROVE  notifStatus'[fallback'[b]] # "absent" /\ jobStatus'[fallback'[b]] = "absent"
      BY DEF Queueing
    <3>1. /\ pc[b] = "queue" /\ fallback'[b] = fallback[b] /\ b # a
          /\ fallback[b] \in Notifs /\ notifStatus[fallback[b]] # "absent"
          /\ jobStatus[fallback[b]] = "absent"
      BY <2>3 DEF LeaseInv, Queueing, Targeted
    <3>2. fallback[b] # fallback[a]
      BY <2>1, <3>1 DEF LeaseInv, OneQueues
    <3> QED BY <2>2, <3>1, <3>2
  <2> QED BY <2>5, <2>6, <2>7 DEF LeaseInv
<1>5. ASSUME NEW a \in Actors, DecideFallback(a) PROVE LeaseInv'
  <2>1. /\ jobVars' = jobVars /\ batch' = batch /\ notifVars' = notifVars
    BY <1>5 DEF DecideFallback
  <2>2. \A b \in Actors : pc'[b] = "queue" => pc[b] = "queue" /\ fallback'[b] = fallback[b]
    BY <1>5 DEF DecideFallback, LeaveFallback, Inv, TypeOK
  <2>3. Targeted'
    <3>1. WantsFallback(cur[a]) => FallbackKey(cur[a], rule.lead) \in Notifs
      BY RulesAssumption DEF WantsFallback, Inv, TypeOK
    <3> QED BY <1>5, <3>1 DEF DecideFallback, LeaveFallback, Targeted, LeaseInv, Inv, TypeOK
  <2>4. Leased' /\ Exclusive' /\ Written'
    BY <2>1 DEF LeaseInv, Leased, Exclusive, Written, Holds, jobVars
  <2>5. Queueing' /\ OneQueues'
    BY <2>1, <2>2 DEF LeaseInv, Queueing, OneQueues, jobVars
  <2> QED BY <2>3, <2>4, <2>5 DEF LeaseInv
<1>6. ASSUME NEW a \in Actors, InsertFallback(a) PROVE LeaseInv'
  <2>1. jobVars' = jobVars /\ batch' = batch
    BY <1>6 DEF InsertFallback
  <2>2. fallback[a] \in Notifs
    BY <1>6 DEF InsertFallback, LeaseInv, Targeted
  <2>3. CASE notifStatus[fallback[a]] # "absent"
    <3>1. notifVars' = notifVars
      BY <1>6, <2>3 DEF InsertFallback
    <3>2. \A b \in Actors : pc'[b] \in {"insert", "queue"} => pc'[b] = pc[b] /\ fallback'[b] = fallback[b]
      BY <1>6, <2>3 DEF InsertFallback, LeaveFallback, Inv, TypeOK
    <3> QED BY <2>1, <3>1, <3>2, LeaseByUnchanged
  <2>4. CASE notifStatus[fallback[a]] = "absent"
    <3>1. /\ notifStatus' = [notifStatus EXCEPT ![fallback[a]] = "queued"]
          /\ pc' = [pc EXCEPT ![a] = "queue"] /\ fallback' = fallback /\ messageId' = messageId
      BY <1>6, <2>4 DEF InsertFallback
    <3>2. jobStatus[fallback[a]] = "absent"
      BY <2>2, <2>4 DEF LeaseInv, Written
    <3>3. Leased' /\ Exclusive'
      BY <2>1 DEF LeaseInv, Leased, Exclusive, Holds, jobVars
    <3>4. Written'
      BY <2>1, <3>1 DEF LeaseInv, Written, Inv, TypeOK, jobVars
    <3>5. Targeted'
      BY <2>2, <3>1 DEF LeaseInv, Targeted, Inv, TypeOK
    <3>6. \A b \in Actors : pc[b] = "queue" => fallback[b] # fallback[a]
      BY <2>4 DEF LeaseInv, Queueing
    <3>7. \A b \in Actors : pc'[b] = "queue" => b = a \/ pc[b] = "queue"
      BY <3>1 DEF Inv, TypeOK
    <3>8. OneQueues'
      BY <3>1, <3>6, <3>7 DEF LeaseInv, OneQueues
    <3>9. Queueing'
      <4> SUFFICES ASSUME NEW b \in Actors, pc'[b] = "queue"
                   PROVE  notifStatus'[fallback[b]] # "absent" /\ jobStatus[fallback[b]] = "absent"
        BY <2>1, <3>1 DEF Queueing, jobVars
      <4>1. CASE b = a
        BY <2>2, <3>1, <3>2, <4>1 DEF Inv, TypeOK
      <4>2. CASE b # a
        <5>1. pc[b] = "queue"
          BY <3>7, <4>2
        <5>2. /\ fallback[b] \in Notifs /\ notifStatus[fallback[b]] # "absent"
              /\ jobStatus[fallback[b]] = "absent" /\ fallback[b] # fallback[a]
          BY <3>6, <5>1 DEF LeaseInv, Queueing, Targeted
        <5> QED BY <3>1, <5>2 DEF Inv, TypeOK
      <4> QED BY <4>1, <4>2
    <3> QED BY <3>3, <3>4, <3>5, <3>8, <3>9 DEF LeaseInv
  <2> QED BY <2>3, <2>4
<1>7. ASSUME NEW a \in Actors, Crash(a) PROVE LeaseInv'
  <2>1. \A v \in Workers, n \in Notifs : batch'[v][n] > 0 => batch'[v][n] = batch[v][n]
    BY <1>7 DEF Crash, Abandon, NoClaims
  <2>2. \A b \in Actors : pc'[b] \in {"insert", "queue"} => pc'[b] = pc[b] /\ fallback'[b] = fallback[b]
    BY <1>7 DEF Crash, Abandon, Inv, TypeOK
  <2>3. jobVars' = jobVars /\ notifVars' = notifVars
    BY <1>7 DEF Crash
  <2>4. Leased' /\ Exclusive'
    BY <2>1, <2>3 DEF LeaseInv, Leased, Exclusive, Holds, jobVars
  <2>5. Written' /\ Targeted' /\ Queueing' /\ OneQueues'
    BY <2>2, <2>3 DEF LeaseInv, Written, Targeted, Queueing, OneQueues, jobVars
  <2> QED BY <2>4, <2>5 DEF LeaseInv
<1>8. ASSUME NEW w \in Workers,
             \/ \E n \in Notifs : LoadNotification(w, n)
             \/ LoadEndpoint(w) \/ MarkUnavailable(w) \/ BeginAttempt(w)
             \/ SendAccepted(w) \/ SendRefused(w)
             \/ RecordAccepted(w) \/ RecordFailure(w) \/ StatementFails(w)
      PROVE  LeaseInv'
  <2>1. jobVars' = jobVars /\ batch' = batch
    BY <1>8 DEF LoadNotification, LoadEndpoint, MarkUnavailable, BeginAttempt, SendAccepted,
                SendRefused, RecordAccepted, RecordFailure, StatementFails
  <2>2. \A b \in Actors : pc'[b] \in {"insert", "queue"} => pc'[b] = pc[b] /\ fallback'[b] = fallback[b]
    BY <1>8 DEF LoadNotification, LoadEndpoint, MarkUnavailable, BeginAttempt, SendAccepted,
                SendRefused, RecordAccepted, RecordFailure, StatementFails, Inv, TypeOK
  <2>3. \A n \in Notifs :
          /\ notifStatus'[n] = "absent" <=> notifStatus[n] = "absent"
          /\ notifStatus[n] = "absent" => messageId'[n] = messageId[n]
    <3>1. CASE notifVars' = notifVars
      BY <3>1
    <3>2. CASE MarkUnavailable(w) \/ BeginAttempt(w) \/ RecordAccepted(w) \/ RecordFailure(w)
      <4>1. cur[w] \in Notifs /\ notifStatus[cur[w]] # "absent"
        BY <3>2, HeldExists DEF MarkUnavailable, BeginAttempt, RecordAccepted, RecordFailure
      <4> QED BY <3>2, <4>1 DEF MarkUnavailable, BeginAttempt, RecordAccepted, RecordFailure, Inv, TypeOK
    <3> QED BY <1>8, <3>1, <3>2 DEF LoadNotification, LoadEndpoint, SendAccepted, SendRefused, StatementFails
  <2> QED BY <2>1, <2>2, <2>3, LeaseByUnchanged
<1>9. ASSUME NEW h \in Handlers, NEW n \in Notifs, NEW s \in Reports,
             NEW i \in 1..sends[n], applyProviderStatus(h, n, i, s)
      PROVE  LeaseInv'
  <2>1. \A b \in Actors : pc'[b] \in {"insert", "queue"} => pc'[b] = pc[b] /\ fallback'[b] = fallback[b]
    BY <1>9 DEF applyProviderStatus, Inv, TypeOK
  <2>2. \A m \in Notifs : notifStatus'[m] = "absent" <=> notifStatus[m] = "absent"
    <3>1. s # "absent"
      BY BoundsAssumption DEF ReportedStatus, DELIVERED_STATES
    <3>2. CASE Matches(n, i)
      <4>1. notifStatus[n] # "absent"
        BY <3>2 DEF Matches, Backed, DeliveredWasAccepted, LeaseInv, Written, Inv, TypeOK
      <4> QED BY <1>9, <3>1, <4>1 DEF applyProviderStatus, Inv, TypeOK
    <3> QED BY <1>9, <3>2 DEF applyProviderStatus
  <2> QED BY <1>9, <2>1, <2>2, LeaseByUnchanged DEF applyProviderStatus
<1>10. ASSUME NEW n \in Notifs, Ripen(n) PROVE LeaseInv'
  <2>1. \A w \in Workers : ~Holds(w, n)
    BY <1>10 DEF Ripen, LeaseInv, Leased
  <2>2. \A m \in Notifs : m # n => ripe'[m] = ripe[m]
    BY <1>10 DEF Ripen, Inv, TypeOK
  <2> QED BY <1>10, <2>1, <2>2 DEF Ripen, LeaseInv, Leased, Exclusive, Written, Targeted,
             Queueing, OneQueues, Holds
<1>11. ASSUME NEW n \in Notifs, ToggleEndpoint(n) PROVE LeaseInv'
  BY <1>11, LeaseByUnchanged DEF ToggleEndpoint
<1>12. ASSUME NEW r \in Rules, updateNotificationRule(r) PROVE LeaseInv'
  BY <1>12, LeaseByUnchanged DEF updateNotificationRule
<1> QED
  BY NextCases, <1>1, <1>2, <1>3, <1>4, <1>5, <1>6, <1>7, <1>8, <1>9, <1>10, <1>11, <1>12

LEMMA LeaseInvariance ==
  ASSUME ~SlowBatches
  PROVE  Spec => []LeaseInv
<1>1. Init => LeaseInv
  BY NotifsAssumption DEF Init, LeaseInv, Leased, Exclusive, Written, Targeted, Queueing,
     OneQueues, Holds, NoClaims, Actors
<1>2. Inv /\ Inv' /\ Backed /\ LeaseInv /\ [Next]_vars => LeaseInv'
  BY LeaseStep
<1> QED BY <1>1, <1>2, Invariance, BackedInvariance, PTL DEF Spec

\* While every live worker gets through its batch within ten minutes, the
\* processing status keeps two runs of processOutboxJobs off the same job.
THEOREM ExclusiveClaims ==
  ASSUME ~SlowBatches
  PROVE  Spec => []Exclusive
<1>1. LeaseInv => Exclusive
  BY DEF LeaseInv
<1> QED BY <1>1, LeaseInvariance, PTL

-----------------------------------------------------------------------------
(* Delivery implements JobLifecycle *)

LEMMA LifecycleInit == Init => Lifecycle!Init
BY DEF Init, Lifecycle!Init

LEMMA LifecycleStep ==
  Inv /\ LeaseInv /\ [Next]_vars => [Lifecycle!Next]_<<jobStatus, jobAttempts>>
<1> SUFFICES ASSUME Inv, LeaseInv, [Next]_vars, ~UNCHANGED <<jobStatus, jobAttempts>>
             PROVE  Lifecycle!Next
  OBVIOUS
<1>1. Next
  BY DEF vars, jobVars
<1>2. ASSUME NEW w \in Workers, Claim(w) PROVE Lifecycle!Next
  <2>1. PICK S \in SUBSET {n \in Notifs : Claimable(n)} :
          /\ jobStatus' = [n \in Notifs |-> IF n \in S THEN "processing" ELSE jobStatus[n]]
          /\ jobAttempts' = [n \in Notifs |-> IF n \in S THEN jobAttempts[n] + 1 ELSE jobAttempts[n]]
    BY <1>2 DEF Claim
  <2>2. \A n \in S : jobStatus[n] \in {"pending", "failed", "processing"}
                    /\ jobAttempts[n] < MaxJobAttempts
    BY DEF Claimable
  <2>3. Lifecycle!Claim(S)
    BY <2>1, <2>2 DEF Lifecycle!Claim
  <2> QED BY <2>3 DEF Lifecycle!Next
<1>3. ASSUME NEW w \in Workers, completeOutboxJob(w) PROVE Lifecycle!Next
  <2>1. cur[w] \in Notifs /\ jobStatus[cur[w]] = "processing"
    BY <1>3, HeldExists DEF completeOutboxJob
  <2>2. Lifecycle!Complete(cur[w])
    BY <1>3, <2>1 DEF completeOutboxJob, Lifecycle!Complete
  <2> QED BY <2>1, <2>2 DEF Lifecycle!Next
<1>4. ASSUME NEW w \in Workers, failOutboxJob(w) PROVE Lifecycle!Next
  <2>1. cur[w] \in Notifs /\ Holds(w, cur[w]) /\ jobStatus[cur[w]] = "processing"
    BY <1>4, HeldExists DEF failOutboxJob
  <2>2. batch[w][cur[w]] = jobAttempts[cur[w]] /\ jobAttempts[cur[w]] \in 0..MaxJobAttempts
    BY <2>1 DEF LeaseInv, Leased, Inv, TypeOK
  <2>3. Exhausted(w, cur[w]) <=> jobAttempts[cur[w]] = MaxJobAttempts
    BY <2>2, BoundsAssumption DEF Exhausted
  <2>4. Lifecycle!Fail(cur[w])
    BY <1>4, <2>1, <2>3 DEF failOutboxJob, Lifecycle!Fail
  <2> QED BY <2>1, <2>4 DEF Lifecycle!Next
<1>5. ASSUME NEW a \in Actors, queueOutboxJob(a) PROVE Lifecycle!Next
  <2>1. fallback[a] \in Notifs /\ jobStatus[fallback[a]] = "absent"
    BY <1>5 DEF queueOutboxJob, LeaseInv, Queueing, Targeted
  <2>2. Lifecycle!Queue(fallback[a])
    BY <1>5, <2>1 DEF queueOutboxJob, Lifecycle!Queue
  <2> QED BY <2>1, <2>2 DEF Lifecycle!Next
<1>6. \/ \E w \in Workers : Claim(w) \/ completeOutboxJob(w) \/ failOutboxJob(w)
      \/ \E a \in Actors : queueOutboxJob(a)
  BY <1>1, NextCases
     DEF LoadNotification, LoadEndpoint, MarkUnavailable, BeginAttempt, SendAccepted, SendRefused,
         RecordAccepted, RecordFailure, StatementFails, DecideFallback, InsertFallback, Crash,
         applyProviderStatus, Ripen, ToggleEndpoint, updateNotificationRule, jobVars
<1> QED BY <1>2, <1>3, <1>4, <1>5, <1>6

\* Under the same condition the outbox keeps the promises of JobLifecycle: queued
\* once, at most MaxJobAttempts claims, finished only by the attempt the table
\* counts, and final when completed or parked.
THEOREM LifecycleImplemented ==
  ASSUME ~SlowBatches
  PROVE  Spec => ImplementsLifecycle
<1>1. Init => Lifecycle!Init
  BY LifecycleInit
<1>2. Inv /\ LeaseInv /\ [Next]_vars => [Lifecycle!Next]_<<jobStatus, jobAttempts>>
  BY LifecycleStep
<1> QED BY <1>1, <1>2, Invariance, LeaseInvariance, PTL DEF Spec, ImplementsLifecycle, Lifecycle!Spec

-----------------------------------------------------------------------------
(* Under the same condition, what is completed was sent or given up, and a   *)
(* message is sent again only when the provider reported the last one failed. *)

Reported(n) == messageId[n] # 0 => <<n, messageId[n], "failed">> \in events

\* A worker that may yet send, or record that it did not, is not overtaking a
\* message whose acceptance is stored.
Trying == {"endpoint", "begin", "send", "record", "refused", "unavailable"}
Justified == \A w \in Workers : pc[w] \in Trying => Reported(cur[w])
Stored == \A n \in Notifs : notifStatus[n] \in DELIVERED_STATES \/ Reported(n)

Settled(n) == sends[n] > 0 \/ notifStatus[n] = "failed"
Completing == \A w \in Workers : pc[w] = "complete" => Settled(cur[w])
Completed == \A n \in Notifs : jobStatus[n] = "completed" => Settled(n)

HonestInv == Justified /\ Stored /\ Completing /\ Completed

\* Steps that write no notification, complete no job, and take no worker to
\* where it may send or complete.
LEMMA HonestByUnchanged ==
  ASSUME Inv, Inv', HonestInv, notifVars' = notifVars, events \subseteq events',
         \A n \in Notifs : sends[n] > 0 => sends'[n] > 0,
         \A n \in Notifs : jobStatus'[n] = "completed" => jobStatus[n] = "completed",
         \A w \in Workers : pc'[w] \in Trying => pc[w] \in Trying /\ cur'[w] = cur[w],
         \A w \in Workers : pc'[w] = "complete" => pc[w] = "complete" /\ cur'[w] = cur[w]
  PROVE  HonestInv'
<1> USE DEF HonestInv, notifVars
<1>1. Justified' /\ Stored'
  BY DEF Justified, Stored, Reported
<1>2. Completing' /\ Completed'
  BY DEF Completing, Completed, Settled, Inv, Placed
<1> QED BY <1>1, <1>2

LEMMA HonestStep ==
  Inv /\ Inv' /\ Backed /\ LeaseInv /\ HonestInv /\ [Next]_vars => HonestInv'
<1> SUFFICES ASSUME Inv, Inv', Backed, LeaseInv, HonestInv, [Next]_vars PROVE HonestInv'
  OBVIOUS
<1> USE DEF actorVars, notifVars, envVars, Actors, Trying
<1>1. CASE UNCHANGED vars
  BY <1>1, HonestByUnchanged DEF vars, jobVars
<1>2. ASSUME NEW w \in Workers, Claim(w) PROVE HonestInv'
  BY <1>2, HonestByUnchanged DEF Claim, Inv, TypeOK
<1>3. ASSUME NEW w \in Workers,
             LoadEndpoint(w) \/ SendRefused(w) \/ failOutboxJob(w) \/ StatementFails(w)
      PROVE  HonestInv'
  <2>1. notifVars' = notifVars /\ events' = events /\ sends' = sends
    BY <1>3 DEF LoadEndpoint, SendRefused, failOutboxJob, StatementFails
  <2>2. \A n \in Notifs : jobStatus'[n] = "completed" => jobStatus[n] = "completed"
    BY <1>3 DEF LoadEndpoint, SendRefused, failOutboxJob, StatementFails, jobVars, Inv, TypeOK
  <2>3. \A v \in Workers : /\ pc'[v] \in Trying => pc[v] \in Trying /\ cur'[v] = cur[v]
                           /\ pc'[v] = "complete" => pc[v] = "complete" /\ cur'[v] = cur[v]
    BY <1>3 DEF LoadEndpoint, SendRefused, failOutboxJob, StatementFails, Release, Inv, TypeOK
  <2> QED BY <2>1, <2>2, <2>3, HonestByUnchanged
<1>4. ASSUME NEW w \in Workers, SendAccepted(w) PROVE HonestInv'
  <2>1. \A n \in Notifs : sends[n] > 0 => sends'[n] > 0
    BY <1>4 DEF SendAccepted, Inv, TypeOK, Placed
  <2>2. \A v \in Workers : /\ pc'[v] \in Trying => pc[v] \in Trying /\ cur'[v] = cur[v]
                           /\ pc'[v] = "complete" => pc[v] = "complete" /\ cur'[v] = cur[v]
    BY <1>4 DEF SendAccepted, Inv, TypeOK
  <2> QED BY <1>4, <2>1, <2>2, HonestByUnchanged DEF SendAccepted, jobVars
<1>5. ASSUME NEW a \in Actors, DecideFallback(a) \/ queueOutboxJob(a) \/ Crash(a) PROVE HonestInv'
  <2>1. notifVars' = notifVars /\ events' = events /\ sends' = sends
    BY <1>5 DEF DecideFallback, queueOutboxJob, Crash
  <2>2. \A n \in Notifs : jobStatus'[n] = "completed" => jobStatus[n] = "completed"
    BY <1>5 DEF DecideFallback, queueOutboxJob, Crash, jobVars, Inv, TypeOK
  <2>3. \A v \in Workers : /\ pc'[v] \in Trying => pc[v] \in Trying /\ cur'[v] = cur[v]
                           /\ pc'[v] = "complete" => pc[v] = "complete" /\ cur'[v] = cur[v]
    BY <1>5 DEF DecideFallback, queueOutboxJob, Crash, Abandon, LeaveFallback, Inv, TypeOK
  <2> QED BY <2>1, <2>2, <2>3, HonestByUnchanged
<1>6. ASSUME NEW n \in Notifs, Ripen(n) \/ ToggleEndpoint(n) PROVE HonestInv'
  BY <1>6, HonestByUnchanged DEF Ripen, ToggleEndpoint, jobVars
<1>7. ASSUME NEW r \in Rules, updateNotificationRule(r) PROVE HonestInv'
  BY <1>7, HonestByUnchanged DEF updateNotificationRule, jobVars
<1>8. ASSUME NEW w \in Workers, NEW n \in Notifs, LoadNotification(w, n) PROVE HonestInv'
  <2>1. /\ jobStatus' = jobStatus /\ notifVars' = notifVars /\ events' = events /\ sends' = sends
        /\ cur' = [cur EXCEPT ![w] = n]
        /\ pc' = [pc EXCEPT ![w] = IF notifStatus[n] \in DELIVERED_STATES THEN "complete" ELSE "endpoint"]
    BY <1>8 DEF LoadNotification, jobVars
  <2>2. notifStatus[n] \in DELIVERED_STATES => Settled(n)
    BY DEF Backed, DeliveredWasAccepted, Settled
  <2>3. notifStatus[n] \notin DELIVERED_STATES => Reported(n)
    BY DEF HonestInv, Stored
  <2>4. \A v \in Workers : v # w => pc'[v] = pc[v] /\ cur'[v] = cur[v]
    BY <2>1 DEF Inv, TypeOK
  <2>5. cur'[w] = n /\ pc'[w] = IF notifStatus[n] \in DELIVERED_STATES THEN "complete" ELSE "endpoint"
    BY <2>1 DEF Inv, TypeOK
  <2>6. Justified' /\ Completing'
    BY <2>1, <2>2, <2>3, <2>4, <2>5 DEF HonestInv, Justified, Completing, Reported, Settled
  <2> QED BY <2>1, <2>6 DEF HonestInv, Stored, Completed, Reported, Settled
<1>9. ASSUME NEW w \in Workers,
             MarkUnavailable(w) \/ BeginAttempt(w) \/ RecordAccepted(w) \/ RecordFailure(w)
      PROVE  HonestInv'
  <2> DEFINE n == cur[w]
  <2>1. n \in Notifs /\ Holds(w, n) /\ jobStatus[n] = "processing" /\ pc[w] \in Trying
    BY <1>9, HeldExists DEF MarkUnavailable, BeginAttempt, RecordAccepted, RecordFailure
  <2>2. /\ jobStatus' = jobStatus /\ events' = events /\ sends' = sends /\ cur' = cur
        /\ \A m \in Notifs : m # n => notifStatus'[m] = notifStatus[m] /\ messageId'[m] = messageId[m]
        /\ \A v \in Workers : v # w => pc'[v] = pc[v]
    BY <1>9, <2>1 DEF MarkUnavailable, BeginAttempt, RecordAccepted, RecordFailure, jobVars, Inv, TypeOK
  <2>3. /\ notifStatus'[n] \in DELIVERED_STATES \/ messageId'[n] = messageId[n]
        /\ pc'[w] \in Trying => messageId'[n] = messageId[n]
        /\ pc'[w] = "complete" => notifStatus'[n] = "failed" \/ pc[w] = "record"
    BY <1>9, <2>1 DEF MarkUnavailable, BeginAttempt, RecordAccepted, RecordFailure, DELIVERED_STATES,
       Inv, TypeOK
  <2>4. \A v \in Workers : v # w /\ pc[v] # "ready" => cur[v] \in Notifs /\ cur[v] # n
    BY <2>1 DEF Inv, Placed, LeaseInv, Exclusive
  <2>5. Reported(n)
    BY <2>1 DEF HonestInv, Justified
  <2>6. Justified'
    <3> SUFFICES ASSUME NEW v \in Workers, pc'[v] \in Trying PROVE Reported(cur[v])'
      BY DEF Justified
    <3>1. CASE v = w
      BY <2>2, <2>3, <2>5, <3>1 DEF Reported
    <3>2. CASE v # w
      <4>1. pc[v] \in Trying /\ cur[v] \in Notifs /\ cur[v] # n
        BY <2>2, <2>4, <3>2
      <4> QED BY <2>2, <4>1 DEF Reported, HonestInv, Justified
    <3> QED BY <3>1, <3>2
  <2>7. Stored'
    BY <2>2, <2>3, <2>5 DEF HonestInv, Stored, Reported
  <2>8. Completing'
    <3> SUFFICES ASSUME NEW v \in Workers, pc'[v] = "complete" PROVE Settled(cur[v])'
      BY DEF Completing
    <3>1. CASE v = w
      <4>1. pc[w] = "record" => sends[n] > 0
        BY DEF Backed, Answered
      <4> QED BY <2>2, <2>3, <3>1, <4>1 DEF Settled
    <3>2. CASE v # w
      <4>1. pc[v] = "complete" /\ cur[v] \in Notifs /\ cur[v] # n
        BY <2>2, <2>4, <3>2
      <4> QED BY <2>2, <4>1 DEF Settled, HonestInv, Completing
    <3> QED BY <3>1, <3>2
  <2>9. Completed'
    BY <2>1, <2>2 DEF HonestInv, Completed, Settled
  <2> QED BY <2>6, <2>7, <2>8, <2>9 DEF HonestInv
<1>10. ASSUME NEW w \in Workers, completeOutboxJob(w) PROVE HonestInv'
  <2>1. /\ notifVars' = notifVars /\ events' = events /\ sends' = sends
        /\ jobStatus' = [jobStatus EXCEPT ![cur[w]] = "completed"] /\ pc[w] = "complete"
        /\ \A v \in Workers : pc'[v] # "ready" => pc'[v] = pc[v] /\ cur'[v] = cur[v]
    BY <1>10 DEF completeOutboxJob, Release, Inv, TypeOK
  <2>2. Settled(cur[w])
    BY <2>1 DEF HonestInv, Completing
  <2>3. Justified' /\ Stored' /\ Completing'
    BY <2>1 DEF HonestInv, Justified, Stored, Completing, Reported, Settled
  <2>4. Completed'
    BY <2>1, <2>2 DEF HonestInv, Completed, Settled, Inv, TypeOK
  <2> QED BY <2>3, <2>4 DEF HonestInv
<1>11. ASSUME NEW a \in Actors, InsertFallback(a) PROVE HonestInv'
  <2>1. /\ jobStatus' = jobStatus /\ messageId' = messageId /\ events' = events /\ sends' = sends
        /\ \A v \in Workers : /\ pc'[v] \in Trying => pc'[v] = pc[v] /\ cur'[v] = cur[v]
                              /\ pc'[v] = "complete" => pc'[v] = pc[v] /\ cur'[v] = cur[v]
    BY <1>11 DEF InsertFallback, LeaveFallback, jobVars, Inv, TypeOK
  <2>2. \A m \in Notifs : notifStatus'[m] = notifStatus[m] \/ notifStatus[m] = "absent"
    BY <1>11 DEF InsertFallback, Inv, TypeOK
  <2>3. \A m \in Notifs : notifStatus[m] = "absent" => messageId[m] = 0 /\ jobStatus[m] = "absent"
    BY DEF LeaseInv, Written
  <2>4. \A v \in Workers : pc[v] = "complete" => cur[v] \in Notifs /\ notifStatus[cur[v]] # "absent"
    BY HeldExists
  <2>5. Justified' /\ Stored'
    BY <2>1, <2>2, <2>3 DEF HonestInv, Justified, Stored, Reported
  <2>6. Completing' /\ Completed'
    BY <2>1, <2>2, <2>3, <2>4 DEF HonestInv, Completing, Completed, Settled
  <2> QED BY <2>5, <2>6 DEF HonestInv
<1>12. ASSUME NEW h \in Handlers, NEW n \in Notifs, NEW s \in Reports,
              NEW i \in 1..sends[n], applyProviderStatus(h, n, i, s)
       PROVE  HonestInv'
  <2>1. /\ jobStatus' = jobStatus /\ messageId' = messageId /\ sends' = sends
        /\ events' = events \cup {<<n, i, s>>} /\ sends[n] > 0
        /\ \A m \in Notifs : m # n => notifStatus'[m] = notifStatus[m]
        /\ \A v \in Workers : pc'[v] = pc[v] /\ cur'[v] = cur[v]
    BY <1>12, WorkersAssumption DEF applyProviderStatus, jobVars, Inv, TypeOK
  <2>2. notifStatus'[n] = notifStatus[n] \/ notifStatus'[n] \in DELIVERED_STATES \/ Reported(n)'
    <3>1. CASE Matches(n, i)
      <4>1. notifStatus'[n] = s /\ messageId[n] = i
        BY <1>12, <3>1 DEF applyProviderStatus, Matches, Inv, TypeOK
      <4>2. s \in DELIVERED_STATES \/ s = "failed"
        BY BoundsAssumption DEF ReportedStatus
      <4> QED BY <2>1, <4>1, <4>2 DEF Reported
    <3> QED BY <1>12, <3>1 DEF applyProviderStatus
  <2>3. Justified' /\ Stored'
    BY <2>1, <2>2 DEF HonestInv, Justified, Stored, Reported
  <2>4. Completing' /\ Completed'
    BY <2>1, HeldExists DEF HonestInv, Completing, Completed, Settled
  <2> QED BY <2>3, <2>4 DEF HonestInv
<1> QED
  BY NextCases, <1>1, <1>2, <1>3, <1>4, <1>5, <1>6, <1>7, <1>8, <1>9, <1>10, <1>11, <1>12

LEMMA HonestInvariance ==
  ASSUME ~SlowBatches
  PROVE  Spec => []HonestInv
<1>1. Init => HonestInv
  BY DEF Init, HonestInv, Justified, Stored, Completing, Completed, Reported, Trying, Actors
<1>2. Inv /\ Inv' /\ Backed /\ LeaseInv /\ HonestInv /\ [Next]_vars => HonestInv'
  BY HonestStep
<1> QED BY <1>1, <1>2, Invariance, BackedInvariance, LeaseInvariance, PTL DEF Spec

\* completeOutboxJob is reached with a notification that was delivered already,
\* accepted just now, or failed for want of an endpoint, and nobody takes that
\* back: a completed job was sent or is marked failed.
THEOREM CompletedHonestly ==
  ASSUME ~SlowBatches
  PROVE  Spec => []CompletedIsHonest
<1>1. Inv /\ HonestInv => CompletedIsHonest
  BY DEF HonestInv, Completed, Settled, CompletedIsHonest, Inv, TypeOK
<1> QED BY <1>1, Invariance, HonestInvariance, PTL

\* sendMessage is called for a notification with a stored message id only after
\* applyProviderStatus recorded that this very message failed.
THEOREM ResentOnReport ==
  ASSUME ~SlowBatches
  PROVE  Spec => ResendNeedsReport
<1> DEFINE Resend == \A n \in Notifs : sends'[n] > sends[n] /\ messageId[n] # 0
                        => <<n, messageId[n], "failed">> \in events
<1>1. Inv /\ HonestInv /\ [Next]_vars => [Resend]_vars
  <2> SUFFICES ASSUME Inv, HonestInv, Next, NEW n \in Notifs, sends'[n] > sends[n], messageId[n] # 0
               PROVE  <<n, messageId[n], "failed">> \in events
    OBVIOUS
  <2>1. sends' # sends
    BY DEF Inv, TypeOK
  <2>2. PICK w \in Workers : SendAccepted(w)
    BY <2>1, NextCases
       DEF Claim, LoadNotification, LoadEndpoint, MarkUnavailable, BeginAttempt, SendRefused,
           RecordAccepted, RecordFailure, completeOutboxJob, failOutboxJob, StatementFails,
           DecideFallback, InsertFallback, queueOutboxJob, Crash, applyProviderStatus, Ripen,
           ToggleEndpoint, updateNotificationRule
  <2>3. cur[w] = n
    BY <2>2 DEF SendAccepted, Inv, TypeOK
  <2>4. Reported(n)
    BY <2>2, <2>3 DEF SendAccepted, HonestInv, Justified, Trying
  <2> QED BY <2>4 DEF Reported
<1> QED BY <1>1, Invariance, HonestInvariance, PTL DEF Spec, ResendNeedsReport
-----------------------------------------------------------------------------
(* An SMS fallback is not forgotten, whatever the timing *)

\* Jobs that are held exist, and exist for a notification; so do the ones that
\* are about to be queued.
Existing ==
  /\ \A w \in Workers, n \in Notifs : Holds(w, n) => jobStatus[n] # "absent"
  /\ Written /\ Targeted
  /\ \A a \in Actors : pc[a] = "queue" => notifStatus[fallback[a]] # "absent"

FallbackInv == Existing /\ FallbackQueued

\* What every step respects: nothing that exists goes, a job comes into being for
\* a notification that exists, a notification with somebody to queue its job, and
\* while nobody dies whoever is to queue a job stays or has queued it.
Kept ==
  /\ \A n \in Notifs :
       /\ jobStatus[n] # "absent" => jobStatus'[n] # "absent"
       /\ jobStatus'[n] # "absent" => jobStatus[n] # "absent" \/ notifStatus[n] # "absent"
       /\ notifStatus[n] # "absent" => notifStatus'[n] # "absent"
       /\ messageId'[n] # messageId[n] => notifStatus'[n] # "absent"
       /\ jobStatus'[n] = "absent" /\ notifStatus'[n] # "absent" =>
            \/ notifStatus[n] # "absent"
            \/ \E a \in Actors : pc'[a] = "queue" /\ fallback'[a] = n
  /\ \A w \in Workers, n \in Notifs : batch'[w][n] > 0 => Holds(w, n) \/ jobStatus'[n] # "absent"
  /\ \A a \in Actors : pc'[a] \in {"insert", "queue"} =>
       /\ fallback'[a] \in Notifs
       /\ pc'[a] = "queue" => notifStatus'[fallback'[a]] # "absent"
  /\ faults' = 0 =>
       /\ faults = 0
       /\ \A a \in Actors : pc[a] = "queue" =>
            \/ pc'[a] = "queue" /\ fallback'[a] = fallback[a]
            \/ jobStatus'[fallback[a]] # "absent"

LEMMA FallbackKept == ASSUME FallbackInv, Kept PROVE FallbackInv'
<1>1. (\A w \in Workers, n \in Notifs : Holds(w, n) => jobStatus[n] # "absent")'
  BY DEF FallbackInv, Existing, Holds, Kept
<1>2. Written'
  BY DEF FallbackInv, Existing, Written, Kept
<1>3. Targeted' /\ (\A a \in Actors : pc[a] = "queue" => notifStatus[fallback[a]] # "absent")'
  BY DEF Targeted, Kept
<1>4. FallbackQueued'
  <2> SUFFICES ASSUME NEW n \in Notifs, notifStatus'[n] # "absent", jobStatus'[n] = "absent", faults' = 0
               PROVE  \E a \in Actors : pc'[a] = "queue" /\ fallback'[a] = n
    BY DEF FallbackQueued
  <2>1. CASE notifStatus[n] # "absent"
    <3>1. jobStatus[n] = "absent" /\ faults = 0
      BY DEF Kept
    <3>2. PICK a \in Actors : pc[a] = "queue" /\ fallback[a] = n
      BY <2>1, <3>1 DEF FallbackInv, FallbackQueued
    <3> QED BY <3>2 DEF Kept
  <2>2. CASE notifStatus[n] = "absent"
    BY <2>2 DEF Kept
  <2> QED BY <2>1, <2>2
<1> QED BY <1>1, <1>2, <1>3, <1>4 DEF FallbackInv, Existing

\* Steps that leave the jobs, the batches and the inserting actors alone.
LEMMA KeptByOthers ==
  ASSUME FallbackInv, jobStatus' = jobStatus,
         \A w \in Workers, n \in Notifs : batch'[w][n] > 0 => Holds(w, n),
         \A a \in Actors : pc'[a] \in {"insert", "queue"} => pc'[a] = pc[a] /\ fallback'[a] = fallback[a],
         \A a \in Actors : faults' = 0 /\ pc[a] = "queue" => pc'[a] = "queue" /\ fallback'[a] = fallback[a],
         faults' = 0 => faults = 0,
         \A n \in Notifs : /\ notifStatus'[n] = "absent" <=> notifStatus[n] = "absent"
                           /\ messageId'[n] # messageId[n] => notifStatus'[n] # "absent"
  PROVE  Kept
<1>1. \A a \in Actors : pc'[a] \in {"insert", "queue"} =>
         fallback'[a] \in Notifs /\ (pc'[a] = "queue" => notifStatus'[fallback'[a]] # "absent")
  BY DEF FallbackInv, Existing, Targeted
<1> QED BY <1>1 DEF Kept

\* A worker at work has a job and a notification to work on.
LEMMA WorkedExists ==
  ASSUME Inv, FallbackInv, NEW w \in Workers, pc[w] # "ready"
  PROVE  /\ cur[w] \in Notifs /\ jobStatus[cur[w]] # "absent" /\ notifStatus[cur[w]] # "absent"
BY DEF Inv, Placed, FallbackInv, Existing, Written

LEMMA FallbackStepKept == Inv /\ FallbackInv /\ [Next]_vars => Kept
<1> SUFFICES ASSUME Inv, FallbackInv, [Next]_vars PROVE Kept
  OBVIOUS
<1> USE DEF actorVars, notifVars, jobVars, Actors
<1>0. faults \in Nat
  BY BoundsAssumption DEF Inv, TypeOK
<1>1. CASE UNCHANGED vars
  BY <1>1, KeptByOthers DEF vars, Holds
<1>2. ASSUME NEW w \in Workers, Claim(w) PROVE Kept
  <2>1. PICK S \in SUBSET {m \in Notifs : Claimable(m)} :
          /\ jobStatus' = [m \in Notifs |-> IF m \in S THEN "processing" ELSE jobStatus[m]]
          /\ batch' = [batch EXCEPT ![w] =
                         [m \in Notifs |-> IF m \in S THEN jobAttempts[m] + 1 ELSE 0]]
    BY <1>2 DEF Claim
  <2>2. /\ pc' = pc /\ fallback' = fallback /\ notifStatus' = notifStatus /\ messageId' = messageId
        /\ faults' = faults
    BY <1>2 DEF Claim
  <2>3. \A n \in S : jobStatus[n] # "absent"
    BY DEF Claimable
  <2>4. \A v \in Workers, n \in Notifs : batch'[v][n] > 0 => Holds(v, n) \/ n \in S
    BY <2>1 DEF Holds, Inv, TypeOK
  <2>5. \A n \in Notifs : jobStatus'[n] = IF n \in S THEN "processing" ELSE jobStatus[n]
    BY <2>1
  <2>6. \A a \in Actors : pc[a] \in {"insert", "queue"} =>
           fallback[a] \in Notifs /\ (pc[a] = "queue" => notifStatus[fallback[a]] # "absent")
    BY DEF FallbackInv, Existing, Targeted
  <2> QED BY <2>2, <2>3, <2>4, <2>5, <2>6 DEF Kept
<1>3. ASSUME NEW w \in Workers, completeOutboxJob(w) \/ failOutboxJob(w) PROVE Kept
  <2>1. cur[w] \in Notifs /\ jobStatus[cur[w]] # "absent" /\ notifStatus[cur[w]] # "absent"
    BY <1>3, WorkedExists DEF completeOutboxJob, failOutboxJob
  <2>2. /\ notifVars' = notifVars /\ fallback' = fallback /\ faults' = faults
        /\ \A n \in Notifs : jobStatus'[n] = "absent" <=> jobStatus[n] = "absent"
    BY <1>3, <2>1 DEF completeOutboxJob, failOutboxJob, Inv, TypeOK
  <2>3. \A v \in Workers, n \in Notifs :
          batch'[v][n] = IF v = w /\ n = cur[w] THEN 0 ELSE batch[v][n]
    BY <1>3, <2>1 DEF completeOutboxJob, failOutboxJob, Release, Inv, TypeOK
  <2>4. \A a \in Actors : pc'[a] = pc[a] \/ (pc'[a] = "ready" /\ pc[a] \in {"complete", "fail"})
    BY <1>3 DEF completeOutboxJob, failOutboxJob, Release, Inv, TypeOK
  <2>5. \A a \in Actors : pc[a] \in {"insert", "queue"} =>
           fallback[a] \in Notifs /\ (pc[a] = "queue" => notifStatus[fallback[a]] # "absent")
    BY DEF FallbackInv, Existing, Targeted
  <2> QED BY <2>2, <2>3, <2>4, <2>5 DEF Kept, Holds
<1>4. ASSUME NEW a \in Actors, queueOutboxJob(a) PROVE Kept
  <2>1. fallback[a] \in Notifs /\ notifStatus[fallback[a]] # "absent" /\ pc[a] = "queue"
    BY <1>4 DEF queueOutboxJob, FallbackInv, Existing, Targeted
  <2>2. /\ batch' = batch /\ notifVars' = notifVars /\ faults' = faults
        /\ jobStatus'[fallback[a]] = "pending"
        /\ \A n \in Notifs : n # fallback[a] => jobStatus'[n] = jobStatus[n]
    BY <1>4, <2>1 DEF queueOutboxJob, Inv, TypeOK
  <2>3. \A b \in Actors : /\ b # a => pc'[b] = pc[b] /\ fallback'[b] = fallback[b]
                          /\ pc'[a] \in {"fail", "ready"}
    BY <1>4 DEF queueOutboxJob, LeaveFallback, Inv, TypeOK
  <2>4. \A b \in Actors : pc[b] \in {"insert", "queue"} =>
           fallback[b] \in Notifs /\ (pc[b] = "queue" => notifStatus[fallback[b]] # "absent")
    BY DEF FallbackInv, Existing, Targeted
  <2>5. \A n \in Notifs :
          /\ jobStatus[n] # "absent" => jobStatus'[n] # "absent"
          /\ jobStatus'[n] # "absent" => jobStatus[n] # "absent" \/ notifStatus[n] # "absent"
    BY <2>1, <2>2
  <2>6. \A b \in Actors : pc[b] = "queue" =>
            \/ pc'[b] = "queue" /\ fallback'[b] = fallback[b]
            \/ jobStatus'[fallback[b]] # "absent"
    BY <2>2, <2>3
  <2>7. \A b \in Actors : pc'[b] \in {"insert", "queue"} =>
           fallback'[b] \in Notifs /\ (pc'[b] = "queue" => notifStatus'[fallback'[b]] # "absent")
    BY <2>2, <2>3, <2>4
  <2> QED BY <2>2, <2>5, <2>6, <2>7 DEF Kept, Holds
<1>5. ASSUME NEW a \in Actors, DecideFallback(a) PROVE Kept
  <2>1. jobVars' = jobVars /\ batch' = batch /\ notifVars' = notifVars /\ faults' = faults
    BY <1>5 DEF DecideFallback
  <2>2. WantsFallback(cur[a]) => FallbackKey(cur[a], rule.lead) \in Notifs
    BY RulesAssumption DEF WantsFallback, Inv, TypeOK
  <2>3. \A b \in Actors :
          \/ pc'[b] = pc[b] /\ fallback'[b] = fallback[b]
          \/ pc[b] = "decide" /\ pc'[b] = "insert" /\ fallback'[b] \in Notifs
          \/ pc[b] = "decide" /\ pc'[b] \in {"fail", "ready"}
    BY <1>5, <2>2 DEF DecideFallback, LeaveFallback, Inv, TypeOK
  <2>4. \A b \in Actors : pc[b] \in {"insert", "queue"} =>
           fallback[b] \in Notifs /\ (pc[b] = "queue" => notifStatus[fallback[b]] # "absent")
    BY DEF FallbackInv, Existing, Targeted
  <2> QED BY <2>1, <2>3, <2>4 DEF Kept, Holds
<1>6. ASSUME NEW a \in Actors, InsertFallback(a) PROVE Kept
  <2>1. jobVars' = jobVars /\ batch' = batch /\ faults' = faults /\ messageId' = messageId
    BY <1>6 DEF InsertFallback
  <2>2. fallback[a] \in Notifs /\ pc[a] = "insert"
    BY <1>6 DEF InsertFallback, FallbackInv, Existing, Targeted
  <2>3. \A b \in Actors : pc[b] \in {"insert", "queue"} =>
           fallback[b] \in Notifs /\ (pc[b] = "queue" => notifStatus[fallback[b]] # "absent")
    BY DEF FallbackInv, Existing, Targeted
  <2>4. CASE notifStatus[fallback[a]] # "absent"
    <3>1. notifStatus' = notifStatus
      BY <1>6, <2>4 DEF InsertFallback
    <3>2. \A b \in Actors : /\ b # a => pc'[b] = pc[b] /\ fallback'[b] = fallback[b]
                            /\ pc'[a] \in {"fail", "ready"}
      BY <1>6, <2>4 DEF InsertFallback, LeaveFallback, Inv, TypeOK
    <3> QED BY <2>1, <2>2, <2>3, <3>1, <3>2 DEF Kept, Holds
  <2>5. CASE notifStatus[fallback[a]] = "absent"
    <3>1. /\ notifStatus' = [notifStatus EXCEPT ![fallback[a]] = "queued"]
          /\ pc' = [pc EXCEPT ![a] = "queue"] /\ fallback' = fallback
      BY <1>6, <2>5 DEF InsertFallback
    <3>2. /\ \A n \in Notifs : notifStatus'[n] = IF n = fallback[a] THEN "queued" ELSE notifStatus[n]
          /\ \A b \in Actors : pc'[b] = IF b = a THEN "queue" ELSE pc[b]
      BY <3>1 DEF Inv, TypeOK
    <3> QED BY <2>1, <2>2, <2>3, <3>1, <3>2 DEF Kept, Holds
  <2> QED BY <2>4, <2>5
<1>7. ASSUME NEW a \in Actors, Crash(a) PROVE Kept
  <2>1. \A v \in Workers, n \in Notifs : batch'[v][n] > 0 => Holds(v, n)
    BY <1>7 DEF Crash, Abandon, NoClaims, Holds
  <2>2. \A b \in Actors : pc'[b] \in {"insert", "queue"} => pc'[b] = pc[b] /\ fallback'[b] = fallback[b]
    BY <1>7 DEF Crash, Abandon, Inv, TypeOK
  <2>3. jobStatus' = jobStatus /\ notifVars' = notifVars /\ faults' # 0
    BY <1>0, <1>7 DEF Crash
  <2> QED BY <2>1, <2>2, <2>3, KeptByOthers
<1>8. ASSUME NEW w \in Workers,
             \/ \E n \in Notifs : LoadNotification(w, n)
             \/ LoadEndpoint(w) \/ MarkUnavailable(w) \/ BeginAttempt(w)
             \/ SendAccepted(w) \/ SendRefused(w)
             \/ RecordAccepted(w) \/ RecordFailure(w)
      PROVE  Kept
  <2>1. jobStatus' = jobStatus /\ batch' = batch /\ faults' = faults
    BY <1>8 DEF LoadNotification, LoadEndpoint, MarkUnavailable, BeginAttempt, SendAccepted,
                SendRefused, RecordAccepted, RecordFailure
  <2>2. \A b \in Actors :
          /\ fallback'[b] = fallback[b]
          /\ \/ pc'[b] = pc[b]
             \/ pc'[b] \notin {"insert", "queue"} /\ pc[b] \notin {"insert", "queue"}
    BY <1>8 DEF LoadNotification, LoadEndpoint, MarkUnavailable, BeginAttempt, SendAccepted,
                SendRefused, RecordAccepted, RecordFailure, Inv, TypeOK
  <2>3. \A n \in Notifs :
          /\ notifStatus'[n] = "absent" <=> notifStatus[n] = "absent"
          /\ messageId'[n] # messageId[n] => notifStatus'[n] # "absent"
    <3>1. CASE notifVars' = notifVars
      BY <3>1
    <3>2. CASE MarkUnavailable(w) \/ BeginAttempt(w) \/ RecordAccepted(w) \/ RecordFailure(w)
      <4>1. cur[w] \in Notifs /\ notifStatus[cur[w]] # "absent"
        BY <3>2, WorkedExists DEF MarkUnavailable, BeginAttempt, RecordAccepted, RecordFailure
      <4> QED BY <3>2, <4>1 DEF MarkUnavailable, BeginAttempt, RecordAccepted, RecordFailure, Inv, TypeOK
    <3> QED BY <1>8, <3>1, <3>2 DEF LoadNotification, LoadEndpoint, SendAccepted, SendRefused
  <2> QED BY <2>1, <2>2, <2>3, KeptByOthers DEF Holds
<1>9. ASSUME NEW w \in Workers, StatementFails(w) PROVE Kept
  <2>1. jobStatus' = jobStatus /\ batch' = batch /\ notifVars' = notifVars /\ faults' # 0
    BY <1>0, <1>9 DEF StatementFails
  <2>2. \A b \in Actors : pc'[b] \in {"insert", "queue"} => pc'[b] = pc[b] /\ fallback'[b] = fallback[b]
    BY <1>9 DEF StatementFails, Inv, TypeOK
  <2> QED BY <2>1, <2>2, KeptByOthers DEF Holds
<1>10. ASSUME NEW h \in Handlers, NEW n \in Notifs, NEW s \in Reports,
              NEW i \in 1..sends[n], applyProviderStatus(h, n, i, s)
       PROVE  Kept
  <2>1. \A b \in Actors :
          /\ fallback'[b] = fallback[b]
          /\ \/ pc'[b] = pc[b]
             \/ pc'[b] \notin {"insert", "queue"} /\ pc[b] \notin {"insert", "queue"}
    BY <1>10 DEF applyProviderStatus, Inv, TypeOK
  <2>2. \A m \in Notifs : notifStatus'[m] = "absent" <=> notifStatus[m] = "absent"
    <3>1. s # "absent"
      BY BoundsAssumption DEF ReportedStatus, DELIVERED_STATES
    <3>2. CASE Matches(n, i)
      <4>1. notifStatus[n] # "absent"
        BY <3>2 DEF Matches, FallbackInv, Existing, Written, Inv, TypeOK
      <4> QED BY <1>10, <3>1, <4>1 DEF applyProviderStatus, Inv, TypeOK
    <3> QED BY <1>10, <3>2 DEF applyProviderStatus
  <2>3. jobStatus' = jobStatus /\ batch' = batch /\ faults' = faults /\ messageId' = messageId
    BY <1>10 DEF applyProviderStatus
  <2> QED BY <2>1, <2>2, <2>3, KeptByOthers DEF Holds
<1>11. ASSUME NEW n \in Notifs, Ripen(n) \/ ToggleEndpoint(n) PROVE Kept
  BY <1>11, KeptByOthers DEF Ripen, ToggleEndpoint, Holds
<1>12. ASSUME NEW r \in Rules, updateNotificationRule(r) PROVE Kept
  BY <1>12, KeptByOthers DEF updateNotificationRule, Holds
<1> QED
  BY NextCases, <1>1, <1>2, <1>3, <1>4, <1>5, <1>6, <1>7, <1>8, <1>9, <1>10, <1>11, <1>12

\* Whatever the timing and whoever notices the failure first, an SMS fallback that
\* insertNotification has written is about to be queued by the one who wrote it or
\* has its job, as long as nobody dies: the safety half of FallbackFollows.
THEOREM FallbackHasJob == Spec => []FallbackQueued
<1>1. Init => FallbackInv
  BY NotifsAssumption DEF Init, FallbackInv, FallbackQueued, Existing, Written, Targeted, Holds,
     NoClaims, Actors
<1>2. Inv /\ FallbackInv /\ [Next]_vars => FallbackInv'
  BY FallbackStepKept, FallbackKept
<1>3. FallbackInv => FallbackQueued
  BY DEF FallbackInv
<1> QED BY <1>1, <1>2, <1>3, Invariance, PTL DEF Spec
-----------------------------------------------------------------------------
(* A job that waits can be claimed *)

\* Under the condition of JobLifecycle, a job that is queued or to be retried has
\* an attempt left, so that the claim query takes it once it is due: the safety
\* half of JobsSettle.
THEOREM WaitingIsClaimable ==
  ASSUME ~SlowBatches
  PROVE  Spec => []Retryable
<1>1. Init => Retryable
  BY BoundsAssumption DEF Init, Retryable
<1>2. ASSUME Inv, Retryable, [Lifecycle!Next]_<<jobStatus, jobAttempts>> PROVE Retryable'
  <2> USE DEF Inv, TypeOK, Retryable
  <2>1. CASE UNCHANGED <<jobStatus, jobAttempts>>
    BY <1>2, <2>1
  <2>2. ASSUME NEW n \in Notifs, Lifecycle!Queue(n) \/ Lifecycle!Complete(n) PROVE Retryable'
    BY <1>2, <2>2 DEF Lifecycle!Queue, Lifecycle!Complete
  <2>3. ASSUME NEW n \in Notifs, Lifecycle!Fail(n) PROVE Retryable'
    <3>1. /\ jobAttempts' = jobAttempts
          /\ \A m \in Notifs : jobStatus'[m] =
               IF m = n THEN (IF jobAttempts[n] = MaxJobAttempts THEN "dead_letter" ELSE "failed")
               ELSE jobStatus[m]
      BY <1>2, <2>3 DEF Lifecycle!Fail
    <3>2. jobAttempts[n] \in 0..MaxJobAttempts
      BY <1>2
    <3>3. jobAttempts[n] # MaxJobAttempts => jobAttempts[n] < MaxJobAttempts
      BY <3>2, BoundsAssumption
    <3> QED BY <1>2, <3>1, <3>3
  <2>4. ASSUME NEW S \in SUBSET Notifs, Lifecycle!Claim(S) PROVE Retryable'
    BY <1>2, <2>4 DEF Lifecycle!Claim
  <2> QED BY <1>2, <2>1, <2>2, <2>3, <2>4 DEF Lifecycle!Next
<1>3. Inv /\ LeaseInv /\ Retryable /\ [Next]_vars => Retryable'
  BY <1>2, LifecycleStep
<1> QED BY <1>1, <1>3, Invariance, LeaseInvariance, PTL DEF Spec
=============================================================================
