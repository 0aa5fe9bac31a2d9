-------------------------- MODULE ServiceAuthority --------------------------
(***************************************************************************)
(* The cached service-token provider of authz/authority.go: one in-memory  *)
(* token, refreshed by a background goroutine that Start launches and Stop *)
(* or the parent context ends.  A lifecycle id tells one generation of the *)
(* goroutine from the next, because an old one may still be inside its     *)
(* fetch while a new one already runs.                                     *)
(*                                                                         *)
(* Time is discrete and relative: expiresIn is what is left of the cached  *)
(* token, timer[l] is what is left of loop l's sleep and turns negative    *)
(* when the loop is late.  Nothing is lost, since the code only compares   *)
(* and subtracts instants.                                                 *)
(***************************************************************************)
EXTENDS Integers

CONSTANTS
    Contexts,          \* cancellable contexts a caller may pass to Start
    Background,        \* context.Background(), which nil stands for
    TTLs,              \* lifetimes the auth service grants
    RefreshBefore,     \* options.RefreshBefore, after normalisation
    RetryBase,         \* options.RetryBaseInterval, after normalisation
    RetryMax,          \* options.RetryMaxInterval, after normalisation
    MinWait,           \* the one-second floor of nextRefreshDelay
    MaxLifecycleID,    \* bound on Start and Stop calls
    MaxRetryCount,     \* retryCount saturates here, where RetryDelay is flat
    MaxDelay,          \* lateness of a refresh round the timer can record
    MaxFailures        \* consecutive failed refreshes a timely run may have

Parents == Contexts \cup {Background}
NoContext == "no context"
Loops == 1..MaxLifecycleID
NoLoop == 0

\* The fixed factor of the retry formula.
RetryMultiplier == 10

\* What NewCachedServiceAuthorityProvider leaves in its fields.
NormalizedOptions ==
    /\ RefreshBefore \in Nat \ {0}
    /\ RetryBase \in Nat \ {0}
    /\ RetryMax \in Nat /\ RetryMax >= RetryBase

ASSUME OptionsAssumption ==
    /\ NormalizedOptions
    /\ MinWait \in Nat \ {0}
    /\ TTLs \subseteq Nat \ {0}

ASSUME BoundsAssumption ==
    /\ MaxLifecycleID \in Nat
    /\ MaxDelay \in Nat
    /\ MaxFailures \in Nat
    /\ MaxRetryCount \in Nat \ {0}
    /\ MaxFailures <= MaxRetryCount
    /\ RetryBase * MaxRetryCount * RetryMultiplier >= RetryMax

ASSUME ContextAssumption ==
    /\ Background \notin Contexts
    /\ NoContext \notin Parents

VARIABLES
    lifecycleID,       \* generation counter
    lifecycleCancel,   \* the loop whose cancel function is kept, or NoLoop
    stopping,          \* loops whose cancel function a Stop call took out and has yet to call
    contextDone,       \* caller contexts that are cancelled
    cancelled,         \* loops whose own cancel function was called
    pc,                \* where each loop stands
    parent,            \* the context each loop was derived from
    retryCount,        \* consecutive failures of each loop
    timer,             \* time left until the loop's planned wake-up
    reply,             \* time left of the token a loop has fetched but not stored
    token,             \* the loop that stored the cached token, or NoLoop
    expiresIn,         \* time left of the cached token
    lastRefreshErr,    \* whether the last refresh left an error
    wanted             \* the caller's view: context of the last Start that did not meet a
                       \* live loop, with no Stop since

lifecycleVars == <<lifecycleID, lifecycleCancel, stopping, wanted>>
contextVars == <<contextDone, cancelled, parent>>
cacheVars == <<token, expiresIn, lastRefreshErr>>
vars == <<lifecycleID, lifecycleCancel, stopping, contextDone, cancelled, pc,
          parent, retryCount, timer, reply, token, expiresIn, lastRefreshErr,
          wanted>>

LoopStates == {"none", "fetch", "store", "record", "refreshed", "failed",
               "sleep", "exit", "done"}

TypeOK ==
    /\ lifecycleID \in 0..MaxLifecycleID
    /\ lifecycleCancel \in Loops \cup {NoLoop}
    /\ stopping \subseteq Loops
    /\ contextDone \subseteq Contexts
    /\ cancelled \subseteq Loops
    /\ pc \in [Loops -> LoopStates]
    /\ parent \in [Loops -> Parents \cup {NoContext}]
    /\ retryCount \in [Loops -> 0..MaxRetryCount]
    /\ timer \in [Loops -> Int]
    /\ \A l \in Loops : timer[l] >= -MaxDelay
    /\ reply \in [Loops -> Nat]
    /\ token \in Loops \cup {NoLoop}
    /\ expiresIn \in Nat
    /\ lastRefreshErr \in BOOLEAN
    /\ wanted \in Parents \cup {NoContext}

Init ==
    /\ lifecycleID = 0
    /\ lifecycleCancel = NoLoop
    /\ stopping = {}
    /\ contextDone = {}
    /\ cancelled = {}
    /\ pc = [l \in Loops |-> "none"]
    /\ parent = [l \in Loops |-> NoContext]
    /\ retryCount = [l \in Loops |-> 0]
    /\ timer = [l \in Loops |-> 0]
    /\ reply = [l \in Loops |-> 0]
    /\ token = NoLoop
    /\ expiresIn = 0
    /\ lastRefreshErr = FALSE
    /\ wanted = NoContext

-----------------------------------------------------------------------------
(* State predicates.                                                       *)

\* runCtx.Err() != nil for the loop.
Done(l) == l \in cancelled \/ parent[l] \in contextDone

Running(l) == pc[l] \notin {"none", "done"}

Active(l) == Running(l) /\ ~Done(l)

\* ServiceAuthorityStatus.Started
Started == lifecycleCancel # NoLoop

\* currentToken hands a token out; ServiceAuthorityStatus.Loaded
Loaded == token # NoLoop /\ expiresIn > 0

\* Mutant: the floor for a token inside its refresh window is missing.
NextRefreshDelayNoFloor == expiresIn - RefreshBefore

\* Mutant: the refresh window is not subtracted.
NextRefreshDelayAtExpiry == IF expiresIn > 0 THEN expiresIn ELSE MinWait

NextRefreshDelay ==
    IF token # NoLoop /\ expiresIn > RefreshBefore
    THEN expiresIn - RefreshBefore
    ELSE MinWait

\* Mutant: the comparison with the maximum is the wrong way round.
RetryDelayAtLeastMax(k) ==
    LET delay == RetryBase * k * RetryMultiplier
    IN  IF delay > RetryMax THEN delay ELSE RetryMax

RetryDelay(k) ==
    LET delay == RetryBase * k * RetryMultiplier
    IN  IF delay > RetryMax THEN RetryMax ELSE delay

NextRetryCount(l) ==
    IF retryCount[l] < MaxRetryCount THEN retryCount[l] + 1 ELSE MaxRetryCount

-----------------------------------------------------------------------------
(* Calls of the owner.                                                     *)

\* Start with a nil or a live or an already cancelled context.
StartLaunches(c) ==
    /\ lifecycleCancel = NoLoop
    /\ lifecycleID < MaxLifecycleID
    /\ LET l == lifecycleID + 1 IN
         /\ lifecycleID' = l
         /\ lifecycleCancel' = l
         /\ pc' = [pc EXCEPT ![l] = "fetch"]
         /\ parent' = [parent EXCEPT ![l] = c]
    /\ wanted' = c
    /\ UNCHANGED <<stopping, contextDone, cancelled, retryCount, timer, reply,
                   cacheVars>>

\* Start finds a cancel function and returns nil at once.  Where the loop it meets is
\* live, the caller has asked for nothing new.
StartReturnsEarly(c) ==
    /\ lifecycleCancel # NoLoop
    /\ wanted' = IF Active(lifecycleCancel) THEN wanted ELSE c
    /\ UNCHANGED <<lifecycleID, lifecycleCancel, stopping, contextVars, pc,
                   retryCount, timer, reply, cacheVars>>

Start(c) == StartLaunches(c) \/ StartReturnsEarly(c)

\* Mutant: Stop takes the cancel function but never calls it.
StopForgetsCancel ==
    /\ lifecycleID < MaxLifecycleID
    /\ lifecycleID' = lifecycleID + 1
    /\ lifecycleCancel' = NoLoop
    /\ wanted' = NoContext
    /\ UNCHANGED <<stopping, contextVars, pc, retryCount, timer, reply, cacheVars>>

\* Mutant: Stop calls the cancel function but leaves it in place.
StopKeepsCancel ==
    /\ lifecycleID < MaxLifecycleID
    /\ lifecycleID' = lifecycleID + 1
    /\ stopping' = stopping \cup ({lifecycleCancel} \ {NoLoop})
    /\ wanted' = NoContext
    /\ UNCHANGED <<lifecycleCancel, contextVars, pc, retryCount, timer, reply,
                   cacheVars>>

\* The locked part of Stop: it takes the cancel function and ends the generation.
Stop ==
    /\ lifecycleID < MaxLifecycleID
    /\ lifecycleID' = lifecycleID + 1
    /\ lifecycleCancel' = NoLoop
    /\ stopping' = stopping \cup ({lifecycleCancel} \ {NoLoop})
    /\ wanted' = NoContext
    /\ UNCHANGED <<contextVars, pc, retryCount, timer, reply, cacheVars>>

\* The cancel call that Stop makes after it has released lifecycleMu.
StopCancels(l) ==
    /\ l \in stopping
    /\ stopping' = stopping \ {l}
    /\ cancelled' = cancelled \cup {l}
    /\ UNCHANGED <<lifecycleID, lifecycleCancel, contextDone, pc, parent,
                   retryCount, timer, reply, cacheVars, wanted>>

\* The caller cancels a context it had passed to Start.
CancelParent(c) ==
    /\ c \notin contextDone
    /\ contextDone' = contextDone \cup {c}
    /\ UNCHANGED <<lifecycleVars, cancelled, pc, parent, retryCount, timer,
                   reply, cacheVars>>

-----------------------------------------------------------------------------
(* Steps of a refresh loop.                                                *)

\* fetch returns a token that validateServiceAuthorityToken accepts.
FetchSucceeds(l, ttl) ==
    /\ pc[l] = "fetch"
    /\ pc' = [pc EXCEPT ![l] = "store"]
    /\ reply' = [reply EXCEPT ![l] = ttl]
    /\ UNCHANGED <<lifecycleVars, contextVars, retryCount, timer, cacheVars>>

\* fetch returns an error, or a token that is missing, empty or expired.
FetchFails(l) ==
    /\ pc[l] = "fetch"
    /\ pc' = [pc EXCEPT ![l] = "record"]
    /\ UNCHANGED <<lifecycleVars, contextVars, retryCount, timer, reply,
                   cacheVars>>

\* refreshOnce replaces the cached token under mu.
StoreToken(l) ==
    /\ pc[l] = "store"
    /\ pc' = [pc EXCEPT ![l] = "refreshed"]
    /\ token' = l
    /\ expiresIn' = reply[l]
    /\ lastRefreshErr' = FALSE
    /\ reply' = [reply EXCEPT ![l] = 0]
    /\ UNCHANGED <<lifecycleVars, contextVars, retryCount, timer>>

\* Mutant: a failed refresh drops the cached token.
RecordErrorDropsToken(l) ==
    /\ pc[l] = "record"
    /\ pc' = [pc EXCEPT ![l] = "failed"]
    /\ lastRefreshErr' = TRUE
    /\ token' = NoLoop
    /\ expiresIn' = 0
    /\ UNCHANGED <<lifecycleVars, contextVars, retryCount, timer, reply>>

\* recordRefreshError: the cached token stays.
RecordRefreshError(l) ==
    /\ pc[l] = "record"
    /\ pc' = [pc EXCEPT ![l] = "failed"]
    /\ lastRefreshErr' = TRUE
    /\ UNCHANGED <<lifecycleVars, contextVars, retryCount, timer, reply, token,
                   expiresIn>>

\* Mutant: the loop returns after a refresh without looking at ctx.Err().
LeaveUnconditionally(l) ==
    /\ pc[l] \in {"refreshed", "failed"}
    /\ pc' = [pc EXCEPT ![l] = "exit"]
    /\ UNCHANGED <<lifecycleVars, contextVars, retryCount, timer, reply,
                   cacheVars>>

\* ctx.Err() after a refresh: the loop returns.
LeaveAfterRefresh(l) ==
    /\ pc[l] \in {"refreshed", "failed"}
    /\ Done(l)
    /\ pc' = [pc EXCEPT ![l] = "exit"]
    /\ UNCHANGED <<lifecycleVars, contextVars, retryCount, timer, reply,
                   cacheVars>>

\* A success resets the count and plans the next refresh from the cache as it is now.
SleepUntilRefresh(l) ==
    /\ pc[l] = "refreshed"
    /\ ~Done(l)
    /\ pc' = [pc EXCEPT ![l] = "sleep"]
    /\ retryCount' = [retryCount EXCEPT ![l] = 0]
    /\ timer' = [timer EXCEPT ![l] = NextRefreshDelay]
    /\ UNCHANGED <<lifecycleVars, contextVars, reply, cacheVars>>

\* Mutant: the loop gives up after a failure.
GiveUpAfterFailure(l) ==
    /\ pc[l] = "failed"
    /\ ~Done(l)
    /\ pc' = [pc EXCEPT ![l] = "exit"]
    /\ UNCHANGED <<lifecycleVars, contextVars, retryCount, timer, reply,
                   cacheVars>>

\* A failure counts and backs off.
SleepUntilRetry(l) ==
    /\ pc[l] = "failed"
    /\ ~Done(l)
    /\ pc' = [pc EXCEPT ![l] = "sleep"]
    /\ retryCount' = [retryCount EXCEPT ![l] = NextRetryCount(l)]
    /\ timer' = [timer EXCEPT ![l] = RetryDelay(NextRetryCount(l))]
    /\ UNCHANGED <<lifecycleVars, contextVars, reply, cacheVars>>

\* The timer case of the select.  When ctx is done too, either case may be taken.
Wake(l) ==
    /\ pc[l] = "sleep"
    /\ timer[l] <= 0
    /\ pc' = [pc EXCEPT ![l] = "fetch"]
    /\ UNCHANGED <<lifecycleVars, contextVars, retryCount, timer, reply,
                   cacheVars>>

\* The ctx.Done() case of the select.
LeaveSleep(l) ==
    /\ pc[l] = "sleep"
    /\ Done(l)
    /\ pc' = [pc EXCEPT ![l] = "exit"]
    /\ UNCHANGED <<lifecycleVars, contextVars, retryCount, timer, reply,
                   cacheVars>>

\* Mutant: the clean-up does not compare generations.
ClearAnyLifecycle(l) ==
    /\ pc[l] = "exit"
    /\ pc' = [pc EXCEPT ![l] = "done"]
    /\ lifecycleCancel' = NoLoop
    /\ UNCHANGED <<lifecycleID, stopping, contextVars, retryCount, timer, reply,
                   cacheVars, wanted>>

\* Mutant: the loop ends without cleaning up.
ClearNothing(l) ==
    /\ pc[l] = "exit"
    /\ pc' = [pc EXCEPT ![l] = "done"]
    /\ UNCHANGED <<lifecycleVars, contextVars, retryCount, timer, reply,
                   cacheVars>>

\* The deferred clearLifecycle: only the current generation clears its state.
ClearLifecycle(l) ==
    /\ pc[l] = "exit"
    /\ pc' = [pc EXCEPT ![l] = "done"]
    /\ lifecycleCancel' = IF lifecycleID = l THEN NoLoop ELSE lifecycleCancel
    /\ UNCHANGED <<lifecycleID, stopping, contextVars, retryCount, timer, reply,
                   cacheVars, wanted>>

FetchReturns(l) == (\E ttl \in TTLs : FetchSucceeds(l, ttl)) \/ FetchFails(l)

\* What a loop does by itself once its fetch has returned.
LoopProceeds(l) ==
    \/ StoreToken(l)
    \/ RecordRefreshError(l)
    \/ LeaveAfterRefresh(l)
    \/ SleepUntilRefresh(l)
    \/ SleepUntilRetry(l)
    \/ Wake(l)
    \/ LeaveSleep(l)
    \/ ClearLifecycle(l)

-----------------------------------------------------------------------------
(* Time.                                                                   *)

Tick ==
    /\ expiresIn' = IF expiresIn > 0 THEN expiresIn - 1 ELSE 0
    /\ timer' = [l \in Loops |->
                   IF Running(l) /\ timer[l] > -MaxDelay
                   THEN timer[l] - 1 ELSE timer[l]]
    /\ reply' = [l \in Loops |-> IF reply[l] > 0 THEN reply[l] - 1 ELSE 0]
    /\ UNCHANGED <<lifecycleVars, contextVars, pc, retryCount, token,
                   lastRefreshErr>>

-----------------------------------------------------------------------------
(* Specifications.                                                         *)

OwnerStep ==
    \/ \E c \in Parents : Start(c)
    \/ Stop
    \/ \E l \in Loops : StopCancels(l)
    \/ \E c \in Contexts : CancelParent(c)

Next ==
    \/ OwnerStep
    \/ \E l \in Loops : FetchReturns(l) \/ LoopProceeds(l)
    \/ Tick

Spec == Init /\ [][Next]_vars

\* Goroutines are scheduled, a Stop call that has begun goes on to cancel, and
\* time passes.  fetch is called without a timeout: that it returns at all is an
\* assumption on the function the service supplies.
Fairness ==
    /\ WF_vars(Tick)
    /\ \A l \in Loops :
         /\ WF_vars(StopCancels(l))
         /\ WF_vars(FetchReturns(l))
         /\ WF_vars(LoopProceeds(l))

FairSpec == Spec /\ Fairness

\* A loop that is not cancelled completes each round within MaxDelay of its
\* planned wake-up.
Punctual == \A l \in Loops : Active(l) => timer[l] > -MaxDelay

\* A run in which rounds are punctual and a loop sees at most MaxFailures
\* consecutive failures.
TimelyNext ==
    \/ OwnerStep
    \/ \E l \in Loops :
         \/ \E ttl \in TTLs : FetchSucceeds(l, ttl)
         \/ (Done(l) \/ retryCount[l] < MaxFailures) /\ FetchFails(l)
         \/ LoopProceeds(l)
    \/ Punctual /\ Tick

TimelySpec == Init /\ [][TimelyNext]_vars

\* What the last of the failures allowed in a row costs, and the configuration under
\* which the cached token outlives all of them.
FailureCost == RetryDelay(MaxFailures) + MaxDelay

TimingMargin ==
    /\ RefreshBefore > MaxDelay + MaxFailures * FailureCost
    /\ \A ttl \in TTLs :
         ttl > MinWait + 2 * MaxDelay + MaxFailures * FailureCost

-----------------------------------------------------------------------------
(* Properties.                                                             *)

\* A loop that runs with a live context can be stopped: its cancel function is
\* the one the provider keeps, or a Stop call already holds it.  A clean-up by an
\* older generation must not drop it (Start, Stop, clearLifecycle).
NoOrphanLoop ==
    \A l \in Loops : Active(l) => l = lifecycleCancel \/ l \in stopping

\* The kept cancel function belongs to the current generation, and to a loop that
\* has not finished: otherwise every later Start would return early for ever
\* (Start's early return against clearLifecycle).
CancelBelongsToRunningLoop ==
    lifecycleCancel # NoLoop =>
        lifecycleCancel = lifecycleID /\ Running(lifecycleCancel)

\* Only the passing of time and the store of another token touch a valid cached token:
\* no failed refresh, cancellation or restart does.  Where rounds are punctual, what an
\* active loop stores in its place is itself valid; a cancelled loop's late reply need
\* not be (refreshOnce, recordRefreshError, Stop).
KeepsValidToken ==
    [][Loaded =>
         \/ token' = token /\ expiresIn' \in {expiresIn, expiresIn - 1}
         \/ \E l \in Loops :
              /\ pc[l] = "store" /\ pc'[l] = "refreshed"
              /\ token' = l
              /\ Active(l) => Loaded']_vars

\* While a loop is active and the cached token is the one it stored itself, that
\* token has not expired: the refresh window leaves room for the failures and
\* the lateness that TimelySpec allows (nextRefreshDelay, retryDelay).
NoGap == \A l \in Loops : Active(l) /\ token = l => expiresIn > 0

\* When the loop the provider keeps sleeps after a success, it wakes RefreshBefore
\* ahead of the expiry of the cached token, or after the one-second floor
\* (RefreshBefore's documentation, nextRefreshDelay).
RefreshesAhead ==
    \A l \in Loops :
        /\ l = lifecycleCancel
        /\ Active(l)
        /\ pc[l] = "sleep"
        /\ retryCount[l] = 0
        => timer[l] <= MinWait \/ timer[l] <= expiresIn - RefreshBefore

\* The same while the cached token is the one that loop stored: this is all that the
\* code ensures, since a stopped loop may still store a token of its own.
RefreshesAheadOfOwn ==
    \A l \in Loops :
        /\ l = lifecycleCancel
        /\ token = l
        /\ Active(l)
        /\ pc[l] = "sleep"
        /\ retryCount[l] = 0
        => timer[l] <= MinWait \/ timer[l] <= expiresIn - RefreshBefore

\* A loop that its provider no longer keeps, because of Stop or of a newer
\* generation, ends (Stop, the select of sleepServiceAuthorityRefresh).
AbandonedLoopEnds ==
    \A l \in Loops : (Running(l) /\ lifecycleCancel # l) ~> pc[l] = "done"

\* A loop that stays active never stops trying, failures or not (runRefreshLoop).
KeepsFetching == \A l \in Loops : Active(l) ~> (pc[l] = "fetch" \/ Done(l))

\* The auth service answers some of the requests that the loop makes again and again.
AuthRecovers(l) == SF_vars(\E ttl \in TTLs : FetchSucceeds(l, ttl))

\* If it does, a loop that stays active gets a new token into the cache again and again,
\* however many failures came before (runRefreshLoop retries without end).
Recovers ==
    \A l \in Loops :
        AuthRecovers(l) => (Active(l) ~> (pc[l] = "refreshed" \/ Done(l)))

\* After a Start that returned nil, and that met no live loop, a loop runs with a live
\* context, unless the owner stops the provider, starts it again, or cancels the context
\* that this Start was given (Start's documentation).
StartTakesEffect ==
    \A c \in Parents :
        wanted = c ~> \/ \E l \in Loops : Active(l)
                      \/ wanted # c
                      \/ c \in contextDone

\* The same as long as no context has been cancelled, also for a Start that follows a
\* Stop while the old loop is still on its way out.
StartTakesEffectUncancelled ==
    \A c \in Parents :
        wanted = c ~> \/ \E l \in Loops : Active(l)
                      \/ wanted # c
                      \/ contextDone # {}

=============================================================================
