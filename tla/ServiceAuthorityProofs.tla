----------------------- MODULE ServiceAuthorityProofs -----------------------
(***************************************************************************)
(* Theorems about ServiceAuthority, for every value of its constants.      *)
(***************************************************************************)
EXTENDS ServiceAuthority, TLAPS

\* A retry delay is positive and never above the configured maximum.
LEMMA RetryDelayBounds ==
    ASSUME NEW k \in Nat \ {0}
    PROVE  RetryDelay(k) \in Nat /\ 0 < RetryDelay(k) /\ RetryDelay(k) <= RetryMax
<1>1. /\ RetryBase \in Nat \ {0}
      /\ RetryMax \in Nat
      /\ RetryMax >= RetryBase
  BY OptionsAssumption DEF NormalizedOptions
<1>2. RetryBase * k \in Nat /\ RetryBase * k > 0
  BY <1>1
<1> DEFINE delay == RetryBase * k * RetryMultiplier
<1>3. delay \in Nat /\ delay > 0
  BY <1>2 DEF RetryMultiplier
<1>4. RetryDelay(k) = IF delay > RetryMax THEN RetryMax ELSE delay
  BY DEF RetryDelay
<1> HIDE DEF delay
<1>5. QED
  BY <1>1, <1>3, <1>4

\* The delay before the next refresh is positive, so no loop spins.
LEMMA NextRefreshDelayPositive ==
    ASSUME expiresIn \in Nat
    PROVE  NextRefreshDelay \in Nat /\ NextRefreshDelay > 0
BY OptionsAssumption DEF NextRefreshDelay, NormalizedOptions

LEMMA NextRetryCountType ==
    ASSUME TypeOK, NEW l \in Loops
    PROVE  NextRetryCount(l) \in (0..MaxRetryCount) \ {0}
BY BoundsAssumption DEF NextRetryCount, TypeOK

-----------------------------------------------------------------------------
(* Type correctness.                                                       *)

LEMMA InitType == Init => TypeOK
<1> SUFFICES ASSUME Init PROVE TypeOK
  OBVIOUS
<1>1. /\ lifecycleID \in 0..MaxLifecycleID
      /\ retryCount \in [Loops -> 0..MaxRetryCount]
      /\ timer \in [Loops -> Int]
      /\ \A l \in Loops : timer[l] >= -MaxDelay
      /\ reply \in [Loops -> Nat]
      /\ expiresIn \in Nat
  BY BoundsAssumption DEF Init
<1>2. /\ pc \in [Loops -> LoopStates]
      /\ parent \in [Loops -> Parents \cup {NoContext}]
      /\ wanted \in Parents \cup {NoContext}
  BY DEF Init, LoopStates
<1>3. QED
  BY <1>1, <1>2 DEF Init, TypeOK

\* The steps of a loop keep the types.
LEMMA LoopStepType ==
    ASSUME TypeOK, NEW l \in Loops, FetchReturns(l) \/ LoopProceeds(l)
    PROVE  TypeOK'
<1> USE DEF TypeOK, lifecycleVars, contextVars, cacheVars, LoopStates
<1>1. ASSUME NEW ttl \in TTLs, FetchSucceeds(l, ttl) PROVE TypeOK'
  BY <1>1, OptionsAssumption DEF FetchSucceeds
<1>2. CASE FetchFails(l)
  BY <1>2 DEF FetchFails
<1>3. CASE StoreToken(l)
  BY <1>3 DEF StoreToken
<1>4. CASE RecordRefreshError(l)
  BY <1>4 DEF RecordRefreshError
<1>5. CASE LeaveAfterRefresh(l) \/ LeaveSleep(l) \/ Wake(l)
  BY <1>5 DEF LeaveAfterRefresh, LeaveSleep, Wake
<1>6. CASE SleepUntilRefresh(l)
  <2>1. NextRefreshDelay \in Nat
    BY NextRefreshDelayPositive
  <2>2. QED
    BY <1>6, <2>1, BoundsAssumption DEF SleepUntilRefresh
<1>7. CASE SleepUntilRetry(l)
  <2>1. NextRetryCount(l) \in (0..MaxRetryCount) \ {0}
    BY NextRetryCountType
  <2>2. RetryDelay(NextRetryCount(l)) \in Nat
    BY <2>1, RetryDelayBounds, BoundsAssumption
  <2>3. QED
    BY <1>7, <2>1, <2>2, BoundsAssumption DEF SleepUntilRetry
<1>8. CASE ClearLifecycle(l)
  BY <1>8 DEF ClearLifecycle
<1>9. QED
  BY <1>1, <1>2, <1>3, <1>4, <1>5, <1>6, <1>7, <1>8
  DEF FetchReturns, LoopProceeds

LEMMA TickType == ASSUME TypeOK, Tick PROVE TypeOK'
BY BoundsAssumption DEF TypeOK, Tick, lifecycleVars, contextVars

\* The owner's calls keep the types.
LEMMA OwnerStepType == ASSUME TypeOK, OwnerStep PROVE TypeOK'
<1> USE DEF TypeOK, lifecycleVars, contextVars, cacheVars
<1>1. ASSUME NEW c \in Parents, Start(c) PROVE TypeOK'
  <2>1. CASE StartLaunches(c)
    <3>1. lifecycleID + 1 \in Loops /\ lifecycleID + 1 \in 0..MaxLifecycleID
      BY <2>1, BoundsAssumption DEF StartLaunches, Loops
    <3>2. QED
      BY <2>1, <3>1 DEF StartLaunches, LoopStates
  <2>2. CASE StartReturnsEarly(c)
    <3>1. wanted' \in {wanted, c}
      BY <2>2 DEF StartReturnsEarly
    <3>2. QED
      BY <2>2, <3>1 DEF StartReturnsEarly
  <2>3. QED
    BY <1>1, <2>1, <2>2 DEF Start
<1>2. CASE Stop
  <2>1. lifecycleID + 1 \in 0..MaxLifecycleID
    BY <1>2, BoundsAssumption DEF Stop
  <2>2. QED
    BY <1>2, <2>1 DEF Stop
<1>3. ASSUME NEW l \in Loops, StopCancels(l) PROVE TypeOK'
  BY <1>3 DEF StopCancels
<1>4. ASSUME NEW c \in Contexts, CancelParent(c) PROVE TypeOK'
  BY <1>4 DEF CancelParent
<1>5. QED
  BY <1>1, <1>2, <1>3, <1>4 DEF OwnerStep

LEMMA NextType == TypeOK /\ [Next]_vars => TypeOK'
<1> SUFFICES ASSUME TypeOK, [Next]_vars PROVE TypeOK'
  OBVIOUS
<1>1. CASE UNCHANGED vars
  BY <1>1 DEF vars, TypeOK
<1>2. CASE Next
  BY <1>2, OwnerStepType, LoopStepType, TickType DEF Next
<1>3. QED
  BY <1>1, <1>2

\* Every variable keeps its type in every behaviour of the provider.
THEOREM TypeCorrect == Spec => []TypeOK
BY InitType, NextType, PTL DEF Spec

-----------------------------------------------------------------------------
(* The lifecycle: no loop escapes, no dead loop blocks Start.              *)

LifecycleInv == NoOrphanLoop /\ CancelBelongsToRunningLoop

\* The owner's calls.  Start needs an empty lifecycleCancel, so every loop that is
\* active before it is in the hands of a Stop call; Stop moves the kept one there.
LEMMA OwnerStepLifecycle ==
    ASSUME TypeOK, LifecycleInv, OwnerStep
    PROVE  LifecycleInv'
<1> USE DEF TypeOK, LifecycleInv, NoOrphanLoop, CancelBelongsToRunningLoop,
            Active, Running, Done
<1>1. ASSUME NEW c \in Parents, StartLaunches(c) PROVE LifecycleInv'
  <2>1. lifecycleID + 1 \in Loops /\ lifecycleID + 1 # NoLoop
    BY <1>1, BoundsAssumption DEF StartLaunches, Loops, NoLoop
  <2>2. \A l \in Loops \ {lifecycleID + 1} : Active(l)' => l \in stopping'
    BY <1>1, <2>1 DEF StartLaunches, NoLoop, Loops
  <2>3. QED
    BY <1>1, <2>1, <2>2 DEF StartLaunches
<1>2. ASSUME NEW c \in Parents, StartReturnsEarly(c) PROVE LifecycleInv'
  BY <1>2 DEF StartReturnsEarly, contextVars
<1>3. CASE Stop
  BY <1>3 DEF Stop, contextVars, NoLoop, Loops
<1>4. ASSUME NEW l \in Loops, StopCancels(l) PROVE LifecycleInv'
  BY <1>4 DEF StopCancels
<1>5. ASSUME NEW c \in Contexts, CancelParent(c) PROVE LifecycleInv'
  BY <1>5 DEF CancelParent, lifecycleVars
<1>6. QED
  BY <1>1, <1>2, <1>3, <1>4, <1>5 DEF OwnerStep, Start

\* The loops' own steps.  Only ClearLifecycle writes lifecycleCancel, and it does so
\* for the current generation only, which the kept cancel function belongs to.
LEMMA LoopStepLifecycle ==
    ASSUME TypeOK, LifecycleInv, NEW l \in Loops,
           FetchReturns(l) \/ LoopProceeds(l)
    PROVE  LifecycleInv'
<1> USE DEF TypeOK, LifecycleInv, NoOrphanLoop, CancelBelongsToRunningLoop,
            Active, Running, Done
<1>1. CASE ClearLifecycle(l)
  BY <1>1 DEF ClearLifecycle, contextVars, NoLoop, Loops
<1>2. CASE ~ClearLifecycle(l)
  <2>1. UNCHANGED <<lifecycleVars, contextVars>>
    BY <1>2 DEF FetchReturns, LoopProceeds, FetchSucceeds, FetchFails,
                StoreToken, RecordRefreshError, LeaveAfterRefresh,
                SleepUntilRefresh, SleepUntilRetry, Wake, LeaveSleep
  <2>2. \E s \in LoopStates \ {"none", "done"} : pc' = [pc EXCEPT ![l] = s]
    BY <1>2 DEF FetchReturns, LoopProceeds, FetchSucceeds, FetchFails,
                StoreToken, RecordRefreshError, LeaveAfterRefresh,
                SleepUntilRefresh, SleepUntilRetry, Wake, LeaveSleep, LoopStates
  <2>3. pc[l] \notin {"none", "done"}
    BY <1>2 DEF FetchReturns, LoopProceeds, FetchSucceeds, FetchFails,
                StoreToken, RecordRefreshError, LeaveAfterRefresh,
                SleepUntilRefresh, SleepUntilRetry, Wake, LeaveSleep
  <2>4. QED
    BY <2>1, <2>2, <2>3 DEF lifecycleVars, contextVars
<1>3. QED
  BY <1>1, <1>2

LEMMA NextLifecycle == TypeOK /\ LifecycleInv /\ [Next]_vars => LifecycleInv'
<1> SUFFICES ASSUME TypeOK, LifecycleInv, [Next]_vars PROVE LifecycleInv'
  OBVIOUS
<1>1. CASE Tick \/ UNCHANGED vars
  BY <1>1 DEF Tick, vars, lifecycleVars, contextVars, LifecycleInv,
              NoOrphanLoop, CancelBelongsToRunningLoop, Active, Running, Done
<1>2. CASE OwnerStep
  BY <1>2, OwnerStepLifecycle
<1>3. CASE \E l \in Loops : FetchReturns(l) \/ LoopProceeds(l)
  BY <1>3, LoopStepLifecycle
<1>4. QED
  BY <1>1, <1>2, <1>3 DEF Next

LEMMA InitLifecycle == Init => LifecycleInv
BY DEF Init, LifecycleInv, NoOrphanLoop, CancelBelongsToRunningLoop, Active,
       Running

LEMMA LifecycleInvariant == Spec => []LifecycleInv
BY InitLifecycle, NextLifecycle, TypeCorrect, PTL DEF Spec

\* No loop with a live context is out of the owner's reach, however Start, Stop,
\* cancellation and late clean-ups interleave.
THEOREM NoOrphan == Spec => []NoOrphanLoop
BY LifecycleInvariant, PTL DEF LifecycleInv

\* The kept cancel function is that of the current generation's unfinished loop.
THEOREM CancelIsCurrent == Spec => []CancelBelongsToRunningLoop
BY LifecycleInvariant, PTL DEF LifecycleInv

-----------------------------------------------------------------------------
(* No gap: how far ahead of its expiry the loop's own token keeps it.      *)

Reserve == MaxFailures * FailureCost

\* What the failures a loop may still suffer can cost.
Slack(k) == (MaxFailures - k) * FailureCost

\* A token that has just been fetched in a punctual round has this much left,
\* counted from the planned start of the round.
FreshMargin == MinWait + 2 * MaxDelay + Reserve

Ahead(l) ==
    /\ retryCount[l] <= MaxFailures
    /\ pc[l] \in {"record", "failed"} => retryCount[l] < MaxFailures
    /\ pc[l] # "sleep" => timer[l] <= 0
    /\ pc[l] = "store" => reply[l] > timer[l] + FreshMargin
    /\ token = l /\ pc[l] = "refreshed" => expiresIn > timer[l] + FreshMargin
    /\ token = l /\ pc[l] # "refreshed" =>
         expiresIn > timer[l] + MaxDelay + Slack(retryCount[l])

Unborn(l) == retryCount[l] = 0 /\ timer[l] = 0 /\ token # l

AheadInv ==
    /\ \A l \in Loops : Active(l) => Ahead(l)
    /\ \A l \in Loops : l > lifecycleID => pc[l] = "none"
    /\ \A l \in Loops : pc[l] = "none" => Unborn(l)

\* The retry delay does not shrink as failures add up.
LEMMA RetryDelayMonotone ==
    ASSUME NEW j \in Nat, NEW k \in Nat, j <= k
    PROVE  RetryDelay(j) <= RetryDelay(k)
<1>1. RetryBase \in Nat /\ RetryMax \in Nat
  BY OptionsAssumption DEF NormalizedOptions
<1>2. PICK d \in Nat : k = j + d
  <2>1. k - j \in Nat /\ k = j + (k - j)
    OBVIOUS
  <2>2. QED
    BY <2>1
<1> DEFINE a == RetryBase * j
           b == RetryBase * d
<1>3. a \in Nat /\ b \in Nat /\ RetryBase * k = a + b
  BY <1>1, <1>2
<1>4. /\ RetryDelay(j) = IF a * 10 > RetryMax THEN RetryMax ELSE a * 10
      /\ RetryDelay(k) = IF (a + b) * 10 > RetryMax
                         THEN RetryMax ELSE (a + b) * 10
  BY <1>3 DEF RetryDelay, RetryMultiplier
<1> HIDE DEF a, b
<1>5. QED
  BY <1>1, <1>3, <1>4

LEMMA FailureCostType == FailureCost \in Nat
<1>1. RetryDelay(MaxFailures) \in Nat
  <2>1. CASE MaxFailures = 0
    BY <2>1, OptionsAssumption
    DEF RetryDelay, RetryMultiplier, NormalizedOptions
  <2>2. CASE MaxFailures # 0
    BY <2>2, RetryDelayBounds, BoundsAssumption
  <2>3. QED
    BY <2>1, <2>2
<1>2. QED
  BY <1>1, BoundsAssumption DEF FailureCost

\* One more failure consumes one FailureCost of the slack, which pays for the wait.
LEMMA SlackStep ==
    ASSUME NEW k \in Nat, k < MaxFailures
    PROVE  /\ Slack(k + 1) \in Nat
           /\ Slack(k) >= Slack(k + 1) + RetryDelay(k + 1) + MaxDelay
<1>1. MaxFailures \in Nat /\ MaxDelay \in Nat
  BY BoundsAssumption
<1>2. PICK d \in Nat : MaxFailures = k + 1 + d
  <2>1. MaxFailures - (k + 1) \in Nat
    BY <1>1
  <2>2. MaxFailures = k + 1 + (MaxFailures - (k + 1))
    BY <1>1
  <2>3. QED
    BY <2>1, <2>2
<1>3. MaxFailures - k = d + 1 /\ MaxFailures - (k + 1) = d
  BY <1>2
<1>4. Slack(k) = d * FailureCost + FailureCost /\ Slack(k + 1) = d * FailureCost
  <2>1. \A f \in Nat : (d + 1) * f = d * f + f
    OBVIOUS
  <2>2. Slack(k) = (d + 1) * FailureCost /\ Slack(k + 1) = d * FailureCost
    BY <1>3 DEF Slack
  <2>3. QED
    BY <2>1, <2>2, FailureCostType
<1>5. d * FailureCost \in Nat
  BY FailureCostType
<1>6. RetryDelay(k + 1) <= RetryDelay(MaxFailures)
  BY <1>1, RetryDelayMonotone
<1>7. RetryDelay(k + 1) \in Nat
  BY RetryDelayBounds
<1>8. /\ FailureCost = RetryDelay(MaxFailures) + MaxDelay
      /\ RetryDelay(MaxFailures) \in Nat
  <2>1. RetryDelay(MaxFailures) \in Nat
    BY <1>1, RetryDelayBounds
  <2>2. QED
    BY <2>1 DEF FailureCost
<1>9. QED
  BY <1>1, <1>4, <1>5, <1>6, <1>7, <1>8

LEMMA SlackBounds ==
    ASSUME NEW k \in Nat, k <= MaxFailures
    PROVE  Slack(k) \in Nat /\ Slack(k) <= Reserve
<1>1. PICK d \in Nat : MaxFailures = k + d
  <2>1. MaxFailures - k \in Nat /\ MaxFailures = k + (MaxFailures - k)
    BY BoundsAssumption
  <2>2. QED
    BY <2>1
<1>2. Slack(k) = d * FailureCost
  <2>1. MaxFailures - k = d
    BY <1>1
  <2>2. QED
    BY <2>1 DEF Slack
<1>3. Reserve = k * FailureCost + d * FailureCost
  BY <1>1, FailureCostType DEF Reserve
<1>4. k * FailureCost \in Nat /\ d * FailureCost \in Nat
  BY FailureCostType
<1>5. QED
  BY <1>2, <1>3, <1>4

-----------------------------------------------------------------------------
(* The steps of a timely run keep AheadInv.                                *)

LEMMA MarginTypes ==
    /\ MinWait \in Nat \ {0}
    /\ MaxDelay \in Nat
    /\ MaxFailures \in Nat
    /\ Reserve \in Nat
BY OptionsAssumption, BoundsAssumption, FailureCostType DEF Reserve

LEMMA OwnerStepAhead ==
    ASSUME TypeOK, AheadInv, OwnerStep
    PROVE  AheadInv'
<1> USE DEF TypeOK, AheadInv, Ahead, Unborn, Active, Running, Done
<1>1. ASSUME NEW c \in Parents, StartLaunches(c) PROVE AheadInv'
  <2>1. PICK new \in Loops :
             new = lifecycleID + 1 /\ pc[new] = "none" /\ Unborn(new)
    <3>1. lifecycleID + 1 \in Loops /\ lifecycleID + 1 > lifecycleID
      BY <1>1, BoundsAssumption DEF StartLaunches, Loops
    <3>2. QED
      BY <3>1
  <2>2. /\ \A m \in Loops \ {new} : pc'[m] = pc[m] /\ parent'[m] = parent[m]
        /\ pc'[new] = "fetch"
        /\ lifecycleID' = new
        /\ UNCHANGED <<contextDone, cancelled, retryCount, timer, reply, token,
                       expiresIn>>
    BY <1>1, <2>1 DEF StartLaunches, cacheVars
  <2>3. Ahead(new)'
    BY <2>1, <2>2, MarginTypes
  <2>4. \A m \in Loops \ {new} : Active(m)' => Ahead(m)'
    BY <2>2 DEF Slack
  <2>5. QED
    BY <2>1, <2>2, <2>3, <2>4
<1>2. CASE ~\E c \in Parents : StartLaunches(c)
  <2>1. /\ UNCHANGED <<pc, parent, retryCount, timer, reply, token, expiresIn>>
        /\ contextDone \subseteq contextDone'
        /\ cancelled \subseteq cancelled'
        /\ lifecycleID' >= lifecycleID /\ lifecycleID' \in Nat
    BY <1>2, BoundsAssumption DEF OwnerStep, Start, StartReturnsEarly, Stop,
       StopCancels, CancelParent, cacheVars, contextVars, lifecycleVars
  <2>2. \A m \in Loops : Active(m)' => Ahead(m)'
    BY <2>1 DEF Slack
  <2>3. QED
    BY <2>1, <2>2, BoundsAssumption DEF Loops
<1>3. QED
  BY <1>1, <1>2

LEMMA TickAhead ==
    ASSUME TypeOK, AheadInv, Punctual, Tick
    PROVE  AheadInv'
<1> USE DEF TypeOK, Active, Running, Done
<1>1. UNCHANGED <<pc, parent, contextDone, cancelled, retryCount, token,
                  lifecycleID>>
  BY DEF Tick, lifecycleVars, contextVars
<1>2. ASSUME NEW l \in Loops, Active(l)' PROVE Ahead(l)'
  <2>1. Active(l) /\ Ahead(l)
    BY <1>1, <1>2 DEF AheadInv
  <2>2. timer[l] > -MaxDelay /\ timer'[l] = timer[l] - 1
    BY <2>1 DEF Punctual, Tick
  <2>3. reply'[l] = IF reply[l] > 0 THEN reply[l] - 1 ELSE 0
    BY DEF Tick
  <2>4. expiresIn' = IF expiresIn > 0 THEN expiresIn - 1 ELSE 0
    BY DEF Tick
  <2>5. Slack(retryCount[l]) \in Nat /\ retryCount[l] <= MaxFailures
    BY <2>1, SlackBounds DEF Ahead
  <2>6. Slack(retryCount[l])' = Slack(retryCount[l])
    BY <1>1 DEF Slack
  <2>7. FreshMargin \in Nat /\ FreshMargin > MaxDelay /\ FreshMargin' = FreshMargin
    BY MarginTypes DEF FreshMargin
  <2>8. pc[l] = "store" => reply'[l] > timer'[l] + FreshMargin
    BY <2>1, <2>2, <2>3, <2>7, MarginTypes DEF Ahead
  <2>9. token = l /\ pc[l] = "refreshed" => expiresIn' > timer'[l] + FreshMargin
    BY <2>1, <2>2, <2>4, <2>7, MarginTypes DEF Ahead
  <2>10. token = l /\ pc[l] # "refreshed" =>
           expiresIn' > timer'[l] + MaxDelay + Slack(retryCount[l])
    BY <2>1, <2>2, <2>4, <2>5, MarginTypes DEF Ahead
  <2>11. pc[l] # "sleep" => timer'[l] <= 0
    BY <2>1, <2>2 DEF Ahead
  <2>12. QED
    BY <1>1, <2>1, <2>5, <2>6, <2>7, <2>8, <2>9, <2>10, <2>11 DEF Ahead
<1>3. \A l \in Loops : pc'[l] = "none" => Unborn(l)'
  BY <1>1 DEF AheadInv, Unborn, Tick
<1>4. QED
  BY <1>1, <1>2, <1>3 DEF AheadInv

\* A loop step touches one loop, the cache, and never makes a loop active.
LEMMA LoopStepFrame ==
    ASSUME TypeOK, NEW l \in Loops, FetchReturns(l) \/ LoopProceeds(l)
    PROVE  /\ UNCHANGED <<lifecycleID, contextDone, cancelled, parent>>
           /\ \A m \in Loops \ {l} : UNCHANGED <<pc[m], retryCount[m], timer[m],
                                                  reply[m]>>
           /\ pc[l] \notin {"none", "done"} /\ pc'[l] # "none"
           /\ \A m \in Loops : Active(m)' => Active(m)
<1>1. UNCHANGED <<lifecycleID, contextDone, cancelled, parent>>
  BY DEF FetchReturns, LoopProceeds, FetchSucceeds, FetchFails,
     StoreToken, RecordRefreshError, LeaveAfterRefresh, SleepUntilRefresh,
     SleepUntilRetry, Wake, LeaveSleep, ClearLifecycle, lifecycleVars,
     contextVars
<1>2. \A m \in Loops \ {l} : UNCHANGED <<pc[m], retryCount[m], timer[m],
                                          reply[m]>>
  BY DEF FetchReturns, LoopProceeds, FetchSucceeds, FetchFails,
     StoreToken, RecordRefreshError, LeaveAfterRefresh, SleepUntilRefresh,
     SleepUntilRetry, Wake, LeaveSleep, ClearLifecycle, TypeOK
<1>3. pc[l] \notin {"none", "done"} /\ pc'[l] # "none"
  BY DEF FetchReturns, LoopProceeds, FetchSucceeds, FetchFails,
     StoreToken, RecordRefreshError, LeaveAfterRefresh, SleepUntilRefresh,
     SleepUntilRetry, Wake, LeaveSleep, ClearLifecycle, TypeOK
<1>4. QED
  BY <1>1, <1>2, <1>3 DEF Active, Running, Done

\* A step that changes neither the cache nor a loop's count, timer and reply keeps
\* what Ahead says of every other loop; storing a token only moves the others out of
\* its reach.
LEMMA OthersStayAhead ==
    ASSUME TypeOK, AheadInv, NEW l \in Loops, FetchReturns(l) \/ LoopProceeds(l),
           NEW m \in Loops \ {l}, Active(m)'
    PROVE  Ahead(m)'
<1>1. Ahead(m) /\ UNCHANGED <<pc[m], retryCount[m], timer[m], reply[m]>>
  BY LoopStepFrame DEF AheadInv
<1>2. token' = l \/ UNCHANGED <<token, expiresIn>>
  BY DEF FetchReturns, LoopProceeds, FetchSucceeds, FetchFails,
     StoreToken, RecordRefreshError, LeaveAfterRefresh, SleepUntilRefresh,
     SleepUntilRetry, Wake, LeaveSleep, ClearLifecycle, cacheVars
<1>3. Slack(retryCount[m])' = Slack(retryCount[m]) /\ FreshMargin' = FreshMargin
  BY <1>1 DEF Slack
<1>4. QED
  BY <1>1, <1>2, <1>3 DEF Ahead

\* What a timely step of loop l allows, as the next-state relation states it.
TimelyLoopStep(l) ==
    \/ \E ttl \in TTLs : FetchSucceeds(l, ttl)
    \/ (Done(l) \/ retryCount[l] < MaxFailures) /\ FetchFails(l)
    \/ LoopProceeds(l)

\* The loop that moves stays ahead itself.
LEMMA MoverStaysAhead ==
    ASSUME TimingMargin, TypeOK, NEW l \in Loops, TimelyLoopStep(l),
           Active(l), Active(l)', Ahead(l)
    PROVE  Ahead(l)'
<1> USE MarginTypes DEF TypeOK, Ahead, cacheVars, LoopStates
<1>1. ASSUME NEW ttl \in TTLs, FetchSucceeds(l, ttl) PROVE Ahead(l)'
  <2>1. ttl > FreshMargin /\ ttl \in Nat /\ FreshMargin \in Nat
    BY OptionsAssumption DEF TimingMargin, FreshMargin, Reserve
  <2>2. QED
    BY <1>1, <2>1 DEF FetchSucceeds, Slack
<1>2. CASE FetchFails(l) /\ retryCount[l] < MaxFailures
  BY <1>2 DEF FetchFails, Slack
<1>3. CASE StoreToken(l)
  BY <1>3 DEF StoreToken
<1>4. CASE RecordRefreshError(l)
  BY <1>4 DEF RecordRefreshError, Slack
<1>5. CASE SleepUntilRefresh(l)
  <2>1. /\ retryCount'[l] = 0 /\ timer'[l] = NextRefreshDelay
        /\ pc'[l] = "sleep" /\ token' = token /\ expiresIn' = expiresIn
        /\ pc[l] = "refreshed"
    BY <1>5 DEF SleepUntilRefresh
  <2>2. Slack(retryCount[l])' = Reserve
    BY <2>1 DEF Slack, Reserve
  <2>3. ASSUME token = l
        PROVE  expiresIn > NextRefreshDelay + MaxDelay + Reserve
    <3>1. expiresIn > timer[l] + MinWait + 2 * MaxDelay + Reserve
      BY <2>1, <2>3 DEF FreshMargin
    <3>2. RefreshBefore \in Nat /\ RefreshBefore > MaxDelay + Reserve
      BY OptionsAssumption DEF TimingMargin, Reserve, NormalizedOptions
    <3>3. CASE NextRefreshDelay = expiresIn - RefreshBefore
      BY <3>2, <3>3
    <3>4. CASE NextRefreshDelay = MinWait
      BY <3>1, <3>4
    <3>5. QED
      BY <3>3, <3>4 DEF NextRefreshDelay
  <2>4. QED
    BY <2>1, <2>2, <2>3
<1>6. CASE SleepUntilRetry(l)
  <2>1. /\ pc[l] = "failed" /\ retryCount[l] < MaxFailures
        /\ retryCount[l] \in Nat
    BY <1>6, BoundsAssumption DEF SleepUntilRetry
  <2>2. NextRetryCount(l) = retryCount[l] + 1
    BY <2>1, BoundsAssumption DEF NextRetryCount
  <2>3. /\ retryCount'[l] = retryCount[l] + 1
        /\ timer'[l] = RetryDelay(retryCount[l] + 1)
        /\ pc'[l] = "sleep" /\ token' = token /\ expiresIn' = expiresIn
    BY <1>6, <2>2 DEF SleepUntilRetry
  <2>4. /\ Slack(retryCount[l] + 1) \in Nat
        /\ Slack(retryCount[l]) >= Slack(retryCount[l] + 1)
                                   + RetryDelay(retryCount[l] + 1) + MaxDelay
    BY <2>1, SlackStep
  <2>5. RetryDelay(retryCount[l] + 1) \in Nat
    BY <2>1, RetryDelayBounds
  <2>6. Slack(retryCount[l])' = Slack(retryCount[l] + 1)
    BY <2>3 DEF Slack
  <2>7. Slack(retryCount[l]) \in Nat /\ timer[l] \in Int /\ timer[l] >= -MaxDelay
    BY <2>1, SlackBounds
  <2>8. token = l => expiresIn > timer'[l] + MaxDelay + Slack(retryCount[l] + 1)
    BY <2>1, <2>3, <2>4, <2>5, <2>7
  <2>9. QED
    BY <2>1, <2>3, <2>6, <2>8
<1>7. CASE Wake(l)
  BY <1>7 DEF Wake, Slack
<1>8. CASE LeaveAfterRefresh(l) \/ LeaveSleep(l) \/ ClearLifecycle(l)
  BY <1>8 DEF LeaveAfterRefresh, LeaveSleep, ClearLifecycle, Active, Running
<1>9. QED
  BY <1>1, <1>2, <1>3, <1>4, <1>5, <1>6, <1>7, <1>8
  DEF TimelyLoopStep, LoopProceeds, Active

LEMMA TimelyStepAhead ==
    ASSUME TimingMargin, TypeOK, AheadInv, [TimelyNext]_vars
    PROVE  AheadInv'
<1>1. CASE UNCHANGED vars
  BY <1>1 DEF vars, AheadInv, Ahead, Unborn, Active, Running, Done, Slack,
              FreshMargin, Reserve
<1>2. CASE OwnerStep
  BY <1>2, OwnerStepAhead
<1>3. CASE Punctual /\ Tick
  BY <1>3, TickAhead
<1>4. ASSUME NEW l \in Loops, TimelyLoopStep(l) PROVE AheadInv'
  <2>1. FetchReturns(l) \/ LoopProceeds(l)
    BY <1>4 DEF TimelyLoopStep, FetchReturns
  <2>2. \A m \in Loops : Active(m)' => Ahead(m)'
    <3>1. ASSUME Active(l)' PROVE Ahead(l)'
      BY <1>4, <2>1, <3>1, LoopStepFrame, MoverStaysAhead DEF AheadInv
    <3>2. QED
      BY <2>1, <3>1, OthersStayAhead
  <2>3. \A m \in Loops : m > lifecycleID' => pc'[m] = "none"
    BY <2>1, LoopStepFrame DEF AheadInv
  <2>4. \A m \in Loops : pc'[m] = "none" => Unborn(m)'
    <3>1. token' = l \/ token' = token
      BY <2>1 DEF FetchReturns, LoopProceeds, FetchSucceeds, FetchFails,
         StoreToken, RecordRefreshError, LeaveAfterRefresh, SleepUntilRefresh,
         SleepUntilRetry, Wake, LeaveSleep, ClearLifecycle, cacheVars
    <3>2. QED
      BY <2>1, <3>1, LoopStepFrame DEF AheadInv, Unborn
  <2>5. QED
    BY <2>2, <2>3, <2>4 DEF AheadInv
<1>5. QED
  BY <1>1, <1>2, <1>3, <1>4 DEF TimelyNext, TimelyLoopStep

LEMMA InitAhead == Init => AheadInv
BY DEF Init, AheadInv, Unborn, Active, Running, Loops, NoLoop

\* TimelySpec restricts Spec, so the types carry over.
LEMMA TimelyType == TypeOK /\ [TimelyNext]_vars => TypeOK'
<1>1. TimelyNext => Next
  BY DEF TimelyNext, Next, FetchReturns
<1>2. QED
  BY <1>1, NextType

LEMMA AheadImpliesNoGap == TypeOK /\ AheadInv => NoGap
<1> SUFFICES ASSUME TypeOK, AheadInv, NEW l \in Loops, Active(l), token = l
             PROVE  expiresIn > 0
  BY DEF NoGap
<1>1. Ahead(l) /\ timer[l] \in Int /\ timer[l] >= -MaxDelay
  BY DEF AheadInv, TypeOK
<1>2. Slack(retryCount[l]) \in Nat
  BY <1>1, SlackBounds, BoundsAssumption DEF TypeOK, Ahead
<1>3. QED
  BY <1>1, <1>2, MarginTypes DEF Ahead, FreshMargin, TypeOK

\* With the margins of TimingMargin, rounds no later than MaxDelay and at most
\* MaxFailures failures in a row, the token an active loop put into the cache never
\* expires there before the loop replaces it, restarts included.
THEOREM NoGapTheorem == TimingMargin /\ TimelySpec => []NoGap
<1> DEFINE IInv == TimingMargin /\ TypeOK /\ AheadInv
<1>1. TimingMargin /\ Init => IInv
  BY InitType, InitAhead
<1>2. IInv /\ [TimelyNext]_vars => IInv'
  <2>1. TimingMargin => TimingMargin'
    BY DEF TimingMargin
  <2>2. QED
    BY <2>1, TimelyType, TimelyStepAhead
<1>3. IInv => NoGap
  BY AheadImpliesNoGap
<1> HIDE DEF IInv
<1>4. QED
  BY <1>1, <1>2, <1>3, PTL DEF TimelySpec

-----------------------------------------------------------------------------
(* The cache survives failures, cancellation and restarts.                 *)

\* Only a store writes the cached token, and only a store or a tick its expiry.
LEMMA StepWritesCache ==
    ASSUME TypeOK, [Next]_vars, Loaded
    PROVE  \/ token' = token /\ expiresIn' \in {expiresIn, expiresIn - 1}
           \/ \E l \in Loops : StoreToken(l)
<1> SUFFICES ASSUME ~\E l \in Loops : StoreToken(l)
             PROVE  token' = token /\ expiresIn' \in {expiresIn, expiresIn - 1}
  OBVIOUS
<1>1. CASE Tick
  BY <1>1 DEF Tick, Loaded
<1>2. CASE ~Tick
  BY <1>2 DEF Next, OwnerStep, Start, StartLaunches, StartReturnsEarly, Stop,
     StopCancels, CancelParent, FetchReturns, FetchSucceeds, FetchFails,
     LoopProceeds, RecordRefreshError, LeaveAfterRefresh, SleepUntilRefresh,
     SleepUntilRetry, Wake, LeaveSleep, ClearLifecycle, vars, cacheVars
<1>3. QED
  BY <1>1, <1>2

\* What an active loop is about to store has not expired on its way.
LEMMA StoredByActive ==
    ASSUME TypeOK, AheadInv, NEW l \in Loops, StoreToken(l)
    PROVE  /\ pc[l] = "store" /\ pc'[l] = "refreshed" /\ token' = l
           /\ Active(l) => Loaded'
<1>1. /\ pc[l] = "store" /\ pc'[l] = "refreshed"
      /\ token' = l /\ expiresIn' = reply[l]
  BY DEF StoreToken, TypeOK
<1>2. ASSUME Active(l) PROVE Loaded'
  <2>1. reply[l] > timer[l] + FreshMargin /\ timer[l] >= -MaxDelay
    BY <1>1, <1>2 DEF AheadInv, Ahead, TypeOK
  <2>2. timer[l] \in Int /\ reply[l] \in Nat
    BY DEF TypeOK
  <2>3. reply[l] > 0
    BY <2>1, <2>2, MarginTypes DEF FreshMargin
  <2>4. QED
    BY <1>1, <2>3 DEF Loaded, Loops, NoLoop
<1>3. QED
  BY <1>1, <1>2

\* No failed refresh, cancellation or restart touches a valid token; where rounds are
\* punctual, what an active loop puts in its place is valid too.
THEOREM ValidTokenKept == TimingMargin /\ TimelySpec => KeepsValidToken
<1> DEFINE IInv == TimingMargin /\ TypeOK /\ AheadInv
           Kept == Loaded =>
                     \/ token' = token /\ expiresIn' \in {expiresIn, expiresIn - 1}
                     \/ \E l \in Loops :
                          /\ pc[l] = "store" /\ pc'[l] = "refreshed"
                          /\ token' = l
                          /\ Active(l) => Loaded'
<1>1. TimingMargin /\ Init => IInv
  BY InitType, InitAhead
<1>2. IInv /\ [TimelyNext]_vars => IInv'
  <2>1. TimingMargin => TimingMargin'
    BY DEF TimingMargin
  <2>2. QED
    BY <2>1, TimelyType, TimelyStepAhead
<1>3. IInv /\ [TimelyNext]_vars => [Kept]_vars
  <2>1. TimelyNext => Next
    BY DEF TimelyNext, Next, FetchReturns
  <2>2. SUFFICES ASSUME TypeOK, AheadInv, [Next]_vars, Loaded PROVE Kept
    BY <2>1
  <2>3. QED
    BY <2>2, StepWritesCache, StoredByActive
<1>4. ([][Kept]_vars) => KeepsValidToken
  BY DEF KeepsValidToken
<1> HIDE DEF IInv, Kept
<1>5. QED
  BY <1>1, <1>2, <1>3, <1>4, PTL DEF TimelySpec

-----------------------------------------------------------------------------
(* What the defaults leave of that.                                        *)

\* With the default proportions, a refresh window no longer than the base of the retry
\* formula and a maximum that leaves its factor room, a refresh that fails inside the
\* window is not tried again before the cached token has expired: such a configuration
\* is outside TimingMargin as soon as one failure is to be survived.
THEOREM DefaultRetryComesTooLate ==
    ASSUME TypeOK, RefreshBefore <= RetryBase,
           RetryMax >= RetryBase * RetryMultiplier
    PROVE  /\ \A l \in Loops :
                SleepUntilRetry(l) /\ Loaded /\ expiresIn <= RefreshBefore =>
                    timer'[l] > expiresIn'
           /\ MaxFailures > 0 => ~TimingMargin
<1>1. /\ RefreshBefore \in Nat \ {0}
      /\ RetryBase \in Nat \ {0}
      /\ RetryMax \in Nat
  BY OptionsAssumption DEF NormalizedOptions
<1>2. RetryDelay(1) = RetryBase * 10 /\ RetryDelay(1) > RefreshBefore
  BY <1>1 DEF RetryDelay, RetryMultiplier
<1>3. ASSUME NEW k \in Nat \ {0} PROVE RetryDelay(k) > RefreshBefore
  <2>1. RetryDelay(1) <= RetryDelay(k)
    BY RetryDelayMonotone
  <2>2. RetryDelay(k) \in Nat /\ RetryDelay(1) \in Nat
    BY RetryDelayBounds
  <2>3. QED
    BY <1>1, <1>2, <2>1, <2>2
<1>4. ASSUME NEW l \in Loops, SleepUntilRetry(l), expiresIn <= RefreshBefore
      PROVE  timer'[l] > expiresIn'
  <2>1. NextRetryCount(l) \in Nat \ {0}
    BY NextRetryCountType, BoundsAssumption
  <2>2. timer'[l] = RetryDelay(NextRetryCount(l)) /\ expiresIn' = expiresIn
    BY <1>4 DEF SleepUntilRetry, TypeOK, cacheVars
  <2>3. RetryDelay(NextRetryCount(l)) > RefreshBefore
    BY <1>3, <2>1
  <2>4. RetryDelay(NextRetryCount(l)) \in Nat /\ expiresIn \in Nat
    BY <2>1, RetryDelayBounds DEF TypeOK
  <2>5. QED
    BY <1>1, <1>4, <2>2, <2>3, <2>4
<1>5. ASSUME MaxFailures > 0, TimingMargin PROVE FALSE
  <2>1. MaxFailures \in Nat \ {0} /\ MaxDelay \in Nat
    BY <1>5, BoundsAssumption
  <2>2. RetryDelay(MaxFailures) \in Nat /\ RetryDelay(MaxFailures) > RefreshBefore
    BY <1>3, <2>1, RetryDelayBounds
  <2>3. PICK d \in Nat : MaxFailures = d + 1
    <3>1. MaxFailures - 1 \in Nat /\ MaxFailures = (MaxFailures - 1) + 1
      BY <2>1
    <3>2. QED
      BY <3>1
  <2>4. /\ FailureCost \in Nat /\ FailureCost >= RetryDelay(MaxFailures)
        /\ d * FailureCost \in Nat
        /\ MaxFailures * FailureCost = d * FailureCost + FailureCost
    <3>1. \A f \in Nat : d * f \in Nat /\ (d + 1) * f = d * f + f
      OBVIOUS
    <3>2. FailureCost \in Nat /\ FailureCost >= RetryDelay(MaxFailures)
      BY <2>1, <2>2 DEF FailureCost
    <3>3. QED
      BY <2>3, <3>1, <3>2
  <2>5. RefreshBefore > MaxDelay + MaxFailures * FailureCost
    BY <1>5 DEF TimingMargin
  <2>6. QED
    BY <1>1, <2>1, <2>2, <2>4, <2>5
<1>6. QED
  BY <1>4, <1>5

-----------------------------------------------------------------------------
(* Waking ahead of the expiry of a loop's own token.                       *)

\* A sleep that follows a success was planned from the cached token.  Neither the
\* kept cancel function nor a live context matters for that, and leaving them out
\* is what makes the statement inductive.
WakesInTime(l) == timer[l] <= MinWait \/ timer[l] <= expiresIn - RefreshBefore

PlansFromOwn ==
    \A l \in Loops :
        token = l /\ pc[l] = "sleep" /\ retryCount[l] = 0 => WakesInTime(l)

\* Sleep and expiry run down together; what is saturated is below the floor already.
LEMMA TickPlans == ASSUME TypeOK, PlansFromOwn, Tick PROVE PlansFromOwn'
<1> SUFFICES ASSUME NEW l \in Loops, token = l, pc[l] = "sleep",
                    retryCount[l] = 0
             PROVE  WakesInTime(l)'
  BY DEF PlansFromOwn, Tick, lifecycleVars, contextVars
<1>1. timer[l] \in Int /\ expiresIn \in Nat /\ WakesInTime(l)
  BY DEF TypeOK, PlansFromOwn
<1>2. /\ MaxDelay \in Nat /\ MinWait \in Nat \ {0}
      /\ RefreshBefore \in Nat \ {0}
  BY OptionsAssumption, BoundsAssumption DEF NormalizedOptions
<1>3. /\ timer'[l] = IF timer[l] > -MaxDelay THEN timer[l] - 1 ELSE timer[l]
      /\ expiresIn' = IF expiresIn > 0 THEN expiresIn - 1 ELSE 0
  BY DEF Tick, Running
<1>4. QED
  BY <1>1, <1>2, <1>3 DEF WakesInTime

\* A loop plans when it falls asleep after a success; a failed round counts at least
\* one failure; a token stored by another loop is not its own.
LEMMA LoopStepPlans ==
    ASSUME TypeOK, PlansFromOwn, NEW l \in Loops,
           FetchReturns(l) \/ LoopProceeds(l)
    PROVE  PlansFromOwn'
<1> USE DEF TypeOK, PlansFromOwn, WakesInTime
<1>1. CASE SleepUntilRefresh(l)
  <2>1. timer'[l] = NextRefreshDelay /\ expiresIn' = expiresIn
    BY <1>1 DEF SleepUntilRefresh, cacheVars
  <2>2. WakesInTime(l)'
    BY <2>1, OptionsAssumption DEF NextRefreshDelay, NormalizedOptions
  <2>3. \A m \in Loops \ {l} : /\ pc'[m] = pc[m] /\ timer'[m] = timer[m]
                               /\ retryCount'[m] = retryCount[m]
    BY <1>1 DEF SleepUntilRefresh
  <2>4. token' = token
    BY <1>1 DEF SleepUntilRefresh, cacheVars
  <2>5. QED
    BY <2>1, <2>2, <2>3, <2>4
<1>2. CASE SleepUntilRetry(l)
  <2>1. retryCount'[l] # 0
    BY <1>2, NextRetryCountType DEF SleepUntilRetry
  <2>2. QED
    BY <1>2, <2>1 DEF SleepUntilRetry, cacheVars
<1>3. CASE StoreToken(l)
  BY <1>3 DEF StoreToken
<1>4. CASE ~(SleepUntilRefresh(l) \/ SleepUntilRetry(l) \/ StoreToken(l))
  <2>1. /\ UNCHANGED <<retryCount, timer, token, expiresIn>>
        /\ \E s \in LoopStates \ {"sleep"} : pc' = [pc EXCEPT ![l] = s]
    BY <1>4 DEF FetchReturns, LoopProceeds, FetchSucceeds, FetchFails,
                RecordRefreshError, LeaveAfterRefresh, Wake, LeaveSleep,
                ClearLifecycle, LoopStates, cacheVars
  <2>2. QED
    BY <2>1
<1>5. QED
  BY <1>1, <1>2, <1>3, <1>4

LEMMA OwnerStepPlans ==
    ASSUME TypeOK, PlansFromOwn, OwnerStep PROVE PlansFromOwn'
<1>1. UNCHANGED <<retryCount, timer, token, expiresIn>>
  BY DEF OwnerStep, Start, StartLaunches, StartReturnsEarly, Stop, StopCancels,
         CancelParent, cacheVars
<1>2. \A l \in Loops : pc'[l] = pc[l] \/ pc'[l] = "fetch"
  BY DEF OwnerStep, Start, StartLaunches, StartReturnsEarly, Stop, StopCancels,
         CancelParent, TypeOK
<1>3. QED
  BY <1>1, <1>2 DEF PlansFromOwn, WakesInTime

LEMMA NextPlans == TypeOK /\ PlansFromOwn /\ [Next]_vars => PlansFromOwn'
<1> SUFFICES ASSUME TypeOK, PlansFromOwn, [Next]_vars PROVE PlansFromOwn'
  OBVIOUS
<1>1. CASE UNCHANGED vars
  BY <1>1 DEF vars, PlansFromOwn, WakesInTime
<1>2. CASE Next
  BY <1>2, OwnerStepPlans, LoopStepPlans, TickPlans DEF Next
<1>3. QED
  BY <1>1, <1>2

\* A loop that sleeps after a success wakes RefreshBefore ahead of the expiry of the
\* token it stored, or after the floor, whatever else happens meanwhile.
THEOREM OwnTokenRefreshedAhead == Spec => []RefreshesAheadOfOwn
<1>1. Init => PlansFromOwn
  BY DEF Init, PlansFromOwn
<1>2. PlansFromOwn => RefreshesAheadOfOwn
  BY DEF PlansFromOwn, WakesInTime, RefreshesAheadOfOwn
<1>3. QED
  BY <1>1, <1>2, NextPlans, TypeCorrect, PTL DEF Spec

=============================================================================
