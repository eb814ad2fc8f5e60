----------------------------- MODULE PowerHint -----------------------------
(***************************************************************************)
(* HWCSession::PowerHalHintWorker (hwc_session.cpp 80-362): the dedicated  *)
(* thread that forwards refresh-rate hints ("REFRESH_<r>FPS") and the      *)
(* display-idle hint ("DISPLAY_IDLE") to the Power HAL extension. Two      *)
(* callers set the fields the worker reads under its lock and wake it:     *)
(* SetPowerMode through updateRefreshRateHint (3018-3025) and              *)
(* PresentDisplay through signalIdle.                                      *)
(*                                                                         *)
(* The worker's Routine is split at its Lock/Unlock points and at every    *)
(* Power HAL call, so signals, a HAL crash or restart, and the passing of  *)
(* the idle deadline interleave with it. Time is abstracted to deadline    *)
(* generations: signalIdle sets generation `deadline`, and `elapsed` is    *)
(* the newest generation whose deadline is now in the past.                *)
(***************************************************************************)
EXTENDS Naturals, FiniteSets

CONSTANTS
  Periods,        \* vsync periods (ns) GetVsyncPeriod may report; 0 is "unknown"
  Modes,          \* HWC2 power modes the primary may be set to
  RateSupported,  \* rates whose REFRESH_<r>FPS mode the HAL supports
  IdleSupported,  \* whether the HAL supports DISPLAY_IDLE
  MaxSignals,     \* bound on signalRefreshRate/signalIdle calls
  MaxFaults,      \* bound on HAL calls failing with a service error (-EINVAL)
  MaxCrashes      \* bound on Power HAL crashes

\* mVsyncPeriod's initial value in the constructor (line 93).
InitPeriod == 16666666

ASSUME PowerAssumption ==
  /\ Periods \subseteq Nat
  /\ InitPeriod \in Periods
  /\ "On" \in Modes
  /\ IdleSupported \in BOOLEAN
  /\ MaxSignals \in Nat /\ MaxFaults \in Nat /\ MaxCrashes \in Nat

VARIABLES
  \* fields read and written under the worker's lock
  needUpdate,       \* mNeedUpdateRefreshRateHint
  powerMode,        \* mPowerModeState
  vsyncPeriod,      \* mVsyncPeriod
  deadline,         \* mIdleHintDeadlineTime, as a generation number
  idleChecked,      \* mIdleHintSupportIsChecked
  idleSupported,    \* mIdleHintIsSupported
  \* fields only the worker thread touches
  prevRate,         \* mPrevRefreshRate (0: none)
  pendingPrevRate,  \* mPendingPrevRefreshRate (0: none)
  supportMap,       \* mRefreshRateHintSupportMap: rate -> unknown | yes | no
  idleEnabled,      \* mIdleHintIsEnabled
  handle,           \* mPowerHalExtAidl: none | live | stale (server died)
  \* the worker's control: its place, Routine's locals, the pending rc
  pc, snap, rc,
  \* the environment: time, the Power HAL service
  elapsed, halUp, halRates, halIdle,
  \* counters bounding the environment
  signals, faults, crashes

lockedVars == <<needUpdate, powerMode, vsyncPeriod, deadline, idleChecked, idleSupported>>
workerVars == <<prevRate, pendingPrevRate, supportMap, idleEnabled, handle, pc, snap, rc>>
envVars    == <<elapsed, halUp, halRates, halIdle, signals, faults, crashes>>
vars == <<lockedVars, workerVars, envVars>>

\* updateRefreshRateHintInternal line 220:
\*   round(nsecsPerSec / vsyncPeriod * 0.1f) * 10, i.e. to the nearest 10 Hz.
RefreshRate(p) == ((2 * 100000000 + p) \div (2 * p)) * 10

Rates == {RefreshRate(p) : p \in Periods \ {0}}

Labels == {"Top", "Sleep", "TimedSleep", "Woken", "IdleCheck", "IdleSend",
           "Pending", "Mode", "Enable", "DisablePrev", "Retry"}
Results == {"OK", "EINVAL", "ENOTCONN", "EOPNOTSUPP"}

TypeOK ==
  /\ needUpdate \in BOOLEAN
  /\ powerMode \in Modes \cup {"Off"}
  /\ vsyncPeriod \in Periods \ {0}
  /\ deadline \in Nat /\ elapsed \in 0..deadline
  /\ idleChecked \in BOOLEAN /\ idleSupported \in BOOLEAN
  /\ prevRate \in Rates \cup {0} /\ pendingPrevRate \in Rates \cup {0}
  /\ supportMap \in [Rates -> {"unknown", "yes", "no"}]
  /\ idleEnabled \in BOOLEAN
  /\ handle \in {"none", "live", "stale"}
  /\ pc \in Labels
  /\ snap \in [need : BOOLEAN, gen : Nat, mode : Modes \cup {"Off"},
               period : Periods \ {0}]
  /\ rc \in Results
  /\ halUp \in BOOLEAN /\ halRates \subseteq Rates /\ halIdle \in BOOLEAN
  /\ signals \in 0..MaxSignals /\ faults \in 0..MaxFaults
  /\ crashes \in 0..MaxCrashes

\* The constructor (80-95): the HAL is up and has no hint of ours.
Init ==
  /\ needUpdate = FALSE /\ powerMode = "Off" /\ vsyncPeriod = InitPeriod
  /\ deadline = 0 /\ elapsed = 0
  /\ idleChecked = FALSE /\ idleSupported = FALSE
  /\ prevRate = 0 /\ pendingPrevRate = 0
  /\ supportMap = [r \in Rates |-> "unknown"]
  /\ idleEnabled = FALSE /\ handle = "none"
  /\ pc = "Top"
  /\ snap = [need |-> FALSE, gen |-> 0, mode |-> "Off", period |-> InitPeriod]
  /\ rc = "OK"
  /\ halUp = TRUE /\ halRates = {} /\ halIdle = FALSE
  /\ signals = 0 /\ faults = 0 /\ crashes = 0

-----------------------------------------------------------------------------
(* One Power HAL call: connectPowerHalExt then one binder transaction      *)
(* (checkPowerHalExtHintSupport 114-139, sendPowerHalExtHint 141-162).     *)
(* A dead server fails the transaction (EX_TRANSACTION_FAILED -> ENOTCONN, *)
(* handle dropped); with no handle and the service down the connect fails  *)
(* (-EINVAL); a live service answers, or fails the call with a service     *)
(* error (-EINVAL).                                                        *)
CallResults ==
  IF handle = "stale" THEN {"ENOTCONN"}
  ELSE IF ~halUp THEN {"EINVAL"}
  ELSE {"OK"} \cup (IF faults < MaxFaults THEN {"EINVAL"} ELSE {})

HalCall(r) ==
  /\ handle' = IF handle = "stale" \/ ~halUp THEN "none" ELSE "live"
  /\ faults' = IF r = "EINVAL" /\ handle # "stale" /\ halUp
                 THEN faults + 1 ELSE faults

\* isModeSupported's answer as checkPowerHalExtHintSupport returns it.
Answer(r, supported) ==
  IF r = "OK" /\ ~supported THEN "EOPNOTSUPP" ELSE r

\* Routine's wake-up (321-330) wakes a waiting worker; a Signal() while the
\* worker is not waiting is lost (Worker::Signal notifies the condition).
Wake == pc' = IF pc \in {"Sleep", "TimedSleep"} THEN "Woken" ELSE pc

\* Mutant: Routine treats every failure like -EOPNOTSUPP and never retries.
FinishNoRetry(r) ==
  /\ rc' = r
  /\ pc' = "Top"

\* The end of updateRefreshRateHintInternal: rc goes back to Routine, which
\* retries (353-360) unless it is OK or -EOPNOTSUPP.
Finish(r) ==
  /\ rc' = r
  /\ pc' = IF r \in {"OK", "EOPNOTSUPP"} THEN "Top" ELSE "Retry"

\* sendRefreshRateHint (186-195): a binder failure resets the bookkeeping.
ResetOnNotConn(r, prev, pending) ==
  /\ prevRate' = IF r = "ENOTCONN" THEN 0 ELSE prev
  /\ pendingPrevRate' = IF r = "ENOTCONN" THEN 0 ELSE pending

\* Where Routine goes after updateIdleHint (350-351): into
\* updateRefreshRateHintInternal when the snapshot asked for it, whose first
\* branch disables a pending hint (201-208).
RateEntry ==
  IF ~snap.need THEN "Top"
  ELSE IF pendingPrevRate # 0 THEN "Pending" ELSE "Mode"

-----------------------------------------------------------------------------
(* The worker thread: Routine (320-362).                                   *)

\* The wait condition of Routine (323-330): without a rate update the worker
\* waits with no timeout when idle is unsupported or already enabled.
WaitsForever == ~idleSupported \/ idleEnabled

\* Routine 336-348: snapshot the locked fields, clear the flag, unlock.
TakeSnapshot ==
  /\ snap' = [need |-> needUpdate, gen |-> deadline, mode |-> powerMode,
              period |-> vsyncPeriod]
  /\ needUpdate' = FALSE
  /\ pc' = "IdleCheck"

\* Routine 321-330: lock; wait, or go on at once.
Top ==
  /\ pc = "Top"
  /\ \/ /\ ~needUpdate /\ WaitsForever
        /\ pc' = "Sleep"
        /\ UNCHANGED <<needUpdate, snap>>
     \/ /\ ~needUpdate /\ ~WaitsForever /\ elapsed < deadline
        /\ pc' = "TimedSleep"
        /\ UNCHANGED <<needUpdate, snap>>
     \/ /\ needUpdate \/ (~WaitsForever /\ elapsed = deadline)
        /\ TakeSnapshot
  /\ UNCHANGED <<powerMode, vsyncPeriod, deadline, idleChecked, idleSupported,
                 prevRate, pendingPrevRate, supportMap, idleEnabled, handle,
                 rc, envVars>>

\* WaitForSignalOrExitLocked returns on a Signal() or, for the timed wait,
\* once the deadline has passed; Routine then takes the snapshot.
Resume ==
  /\ \/ pc = "Woken"
     \/ pc = "TimedSleep" /\ elapsed = deadline
  /\ TakeSnapshot
  /\ UNCHANGED <<powerMode, vsyncPeriod, deadline, idleChecked, idleSupported,
                 prevRate, pendingPrevRate, supportMap, idleEnabled, handle,
                 rc, envVars>>

\* updateIdleHint (282-297) begins with checkIdleHintSupport (257-280): the
\* cached answer under the lock, or one isModeSupported("DISPLAY_IDLE") call
\* whose OK / -EOPNOTSUPP answer is cached; any other result leaves the
\* support unchecked and skips the idle hint.
IdleCheck ==
  /\ pc = "IdleCheck"
  /\ \/ /\ idleChecked
        /\ pc' = IF idleSupported THEN "IdleSend" ELSE RateEntry
        /\ UNCHANGED <<idleChecked, idleSupported, handle, faults>>
     \/ /\ ~idleChecked
        /\ \E r \in CallResults :
             LET res == Answer(r, IdleSupported) IN
             /\ HalCall(r)
             /\ idleSupported' = (res = "OK")
             /\ idleChecked' = (res \in {"OK", "EOPNOTSUPP"})
             /\ pc' = IF res = "OK" THEN "IdleSend" ELSE RateEntry
  /\ UNCHANGED <<needUpdate, powerMode, vsyncPeriod, deadline, prevRate,
                 pendingPrevRate, supportMap, idleEnabled, snap, rc,
                 elapsed, halUp, halRates, halIdle, signals, crashes>>

\* Mutant: mIdleHintIsEnabled follows the request even when the call fails.
IdleSendAssumeOk ==
  /\ pc = "IdleSend"
  /\ LET enable == snap.gen <= elapsed IN
     \/ /\ idleEnabled = enable
        /\ UNCHANGED <<idleEnabled, halIdle, handle, faults>>
     \/ /\ idleEnabled # enable
        /\ \E r \in CallResults :
             /\ HalCall(r)
             /\ halIdle' = IF r = "OK" THEN enable ELSE halIdle
             /\ idleEnabled' = enable
  /\ pc' = RateEntry
  /\ UNCHANGED <<lockedVars, prevRate, pendingPrevRate, supportMap, snap, rc,
                 elapsed, halUp, halRates, signals, crashes>>

\* updateIdleHint 286-296: enable = (snapshot deadline < now), evaluated at
\* the call; DISPLAY_IDLE is sent only when that differs from
\* mIdleHintIsEnabled, which follows it only on success.
IdleSend ==
  /\ pc = "IdleSend"
  /\ LET enable == snap.gen <= elapsed IN
     \/ /\ idleEnabled = enable
        /\ UNCHANGED <<idleEnabled, halIdle, handle, faults>>
     \/ /\ idleEnabled # enable
        /\ \E r \in CallResults :
             /\ HalCall(r)
             /\ halIdle' = IF r = "OK" THEN enable ELSE halIdle
             /\ idleEnabled' = IF r = "OK" THEN enable ELSE idleEnabled
  /\ pc' = RateEntry
  /\ UNCHANGED <<lockedVars, prevRate, pendingPrevRate, supportMap, snap, rc,
                 elapsed, halUp, halRates, signals, crashes>>

\* updateRefreshRateHintInternal 201-208: disable the pending hint first;
\* on failure return at once.
Pending ==
  /\ pc = "Pending"
  /\ \E r \in CallResults :
       /\ HalCall(r)
       /\ halRates' = IF r = "OK" THEN halRates \ {pendingPrevRate} ELSE halRates
       /\ IF r = "OK"
            THEN /\ pendingPrevRate' = 0 /\ prevRate' = prevRate
                 /\ pc' = "Mode" /\ rc' = rc
            ELSE /\ ResetOnNotConn(r, prevRate, pendingPrevRate)
                 /\ Finish(r)
  /\ UNCHANGED <<lockedVars, supportMap, idleEnabled, snap,
                 elapsed, halUp, halIdle, signals, crashes>>

\* checkRefreshRateHintSupport (164-184) with updateRefreshRateHintInternal
\* returning on its failure (223-226): the cached answer, or one
\* isModeSupported call whose OK / -EOPNOTSUPP answer is cached; the worker
\* goes on to enable the hint only on OK.
CheckRefreshRateHintSupport(rate) ==
  \/ /\ supportMap[rate] # "unknown"
     /\ IF supportMap[rate] = "yes"
          THEN pc' = "Enable" /\ UNCHANGED rc
          ELSE Finish("EOPNOTSUPP")
     /\ UNCHANGED <<supportMap, handle, faults>>
  \/ /\ supportMap[rate] = "unknown"
     /\ \E r \in CallResults :
          LET res == Answer(r, rate \in RateSupported) IN
          /\ HalCall(r)
          /\ supportMap' = IF res \in {"OK", "EOPNOTSUPP"}
                             THEN [supportMap EXCEPT ![rate] =
                                     IF res = "OK" THEN "yes" ELSE "no"]
                             ELSE supportMap
          /\ IF res = "OK" THEN pc' = "Enable" /\ UNCHANGED rc
                           ELSE Finish(res)

\* Mutant: updateRefreshRateHintInternal loses its same-rate early return.
ModeNoSameRate ==
  /\ pc = "Mode"
  /\ LET rate == RefreshRate(snap.period) IN
     \/ /\ snap.mode # "On" /\ prevRate = 0
        /\ Finish("OK")
        /\ UNCHANGED <<prevRate, pendingPrevRate, supportMap, halRates, handle, faults>>
     \/ /\ snap.mode # "On" /\ prevRate # 0
        /\ \E r \in CallResults :
             /\ HalCall(r)
             /\ halRates' = IF r = "OK" THEN halRates \ {prevRate} ELSE halRates
             /\ ResetOnNotConn(r, IF r = "OK" THEN 0 ELSE prevRate, pendingPrevRate)
             /\ Finish(r)
        /\ UNCHANGED supportMap
     \/ /\ snap.mode = "On"
        /\ CheckRefreshRateHintSupport(rate)
        /\ UNCHANGED <<prevRate, pendingPrevRate, halRates>>
  /\ UNCHANGED <<lockedVars, idleEnabled, snap, elapsed, halUp, halIdle,
                 signals, crashes>>

\* updateRefreshRateHintInternal 209-222: not On: disable the previous hint
\* (forgotten only on success) and return; On: stop if the rate is the
\* previous one, else check that its hint is supported.
Mode ==
  /\ pc = "Mode"
  /\ LET rate == RefreshRate(snap.period) IN
     \/ /\ snap.mode # "On" /\ prevRate = 0
        /\ Finish("OK")
        /\ UNCHANGED <<prevRate, pendingPrevRate, supportMap, halRates, handle, faults>>
     \/ /\ snap.mode # "On" /\ prevRate # 0
        /\ \E r \in CallResults :
             /\ HalCall(r)
             /\ halRates' = IF r = "OK" THEN halRates \ {prevRate} ELSE halRates
             /\ ResetOnNotConn(r, IF r = "OK" THEN 0 ELSE prevRate, pendingPrevRate)
             /\ Finish(r)
        /\ UNCHANGED supportMap
     \/ /\ snap.mode = "On" /\ prevRate = rate
        /\ Finish("OK")
        /\ UNCHANGED <<prevRate, pendingPrevRate, supportMap, halRates, handle, faults>>
     \/ /\ snap.mode = "On" /\ prevRate # rate
        /\ CheckRefreshRateHintSupport(rate)
        /\ UNCHANGED <<prevRate, pendingPrevRate, halRates>>
  /\ UNCHANGED <<lockedVars, idleEnabled, snap, elapsed, halUp, halIdle,
                 signals, crashes>>

\* updateRefreshRateHintInternal 232-241: enable the new hint before the
\* previous one is disabled; with no previous hint the new one becomes it.
Enable ==
  /\ pc = "Enable"
  /\ LET rate == RefreshRate(snap.period) IN
     \E r \in CallResults :
       /\ HalCall(r)
       /\ halRates' = IF r = "OK" THEN halRates \cup {rate} ELSE halRates
       /\ IF r = "OK" /\ prevRate # 0
            THEN pc' = "DisablePrev" /\ UNCHANGED <<prevRate, pendingPrevRate, rc>>
            ELSE /\ ResetOnNotConn(r, IF r = "OK" THEN rate ELSE prevRate,
                                   pendingPrevRate)
                 /\ Finish(r)
  /\ UNCHANGED <<lockedVars, supportMap, idleEnabled, snap, elapsed, halUp,
                 halIdle, signals, crashes>>

\* Mutant: a failed disable of the previous hint is not kept as pending.
DisablePrevNoPending ==
  /\ pc = "DisablePrev"
  /\ LET rate == RefreshRate(snap.period) IN
     \E r \in CallResults :
       /\ HalCall(r)
       /\ halRates' = IF r = "OK" THEN halRates \ {prevRate} ELSE halRates
       /\ ResetOnNotConn(r, rate, pendingPrevRate)
       /\ Finish(r)
  /\ UNCHANGED <<lockedVars, supportMap, idleEnabled, snap, elapsed, halUp,
                 halIdle, signals, crashes>>

\* updateRefreshRateHintInternal 242-254: disable the previous hint; on a
\* failure other than -ENOTCONN it becomes the pending hint.
DisablePrev ==
  /\ pc = "DisablePrev"
  /\ LET rate == RefreshRate(snap.period) IN
     \E r \in CallResults :
       /\ HalCall(r)
       /\ halRates' = IF r = "OK" THEN halRates \ {prevRate} ELSE halRates
       /\ ResetOnNotConn(r, rate, IF r = "EINVAL" THEN prevRate ELSE pendingPrevRate)
       /\ Finish(r)
  /\ UNCHANGED <<lockedVars, supportMap, idleEnabled, snap, elapsed, halUp,
                 halIdle, signals, crashes>>

\* Mutant: Routine does not ask for another round after a failure.
RetryNever ==
  /\ pc = "Retry"
  /\ pc' = "Top"
  /\ UNCHANGED <<lockedVars, prevRate, pendingPrevRate, supportMap,
                 idleEnabled, handle, snap, rc, envVars>>

\* Routine 353-360: after a failure other than -EOPNOTSUPP, lock and ask for
\* another round only if the display is still On.
Retry ==
  /\ pc = "Retry"
  /\ needUpdate' = (needUpdate \/ powerMode = "On")
  /\ pc' = "Top"
  /\ UNCHANGED <<powerMode, vsyncPeriod, deadline, idleChecked, idleSupported,
                 prevRate, pendingPrevRate, supportMap, idleEnabled, handle,
                 snap, rc, envVars>>

-----------------------------------------------------------------------------
(* The callers and the environment.                                         *)

\* signalRefreshRate (299-307): under the lock record the mode and period
\* and raise the flag, then wake the worker.
SignalRefreshRate(m, p) ==
  /\ needUpdate' = TRUE /\ powerMode' = m /\ vsyncPeriod' = p
  /\ Wake

\* SetPowerMode (1209) -> updateRefreshRateHint (3018-3025): the primary's
\* last power mode and vsync period are signalled when the period is known.
SetPowerMode(m, p) ==
  /\ signals < MaxSignals
  /\ signals' = signals + 1
  /\ IF p # 0
       THEN SignalRefreshRate(m, p)
       ELSE UNCHANGED <<needUpdate, powerMode, vsyncPeriod, pc>>
  /\ UNCHANGED <<deadline, idleChecked, idleSupported, prevRate,
                 pendingPrevRate, supportMap, idleEnabled, handle, snap, rc,
                 elapsed, halUp, halRates, halIdle, faults, crashes>>

\* PresentDisplay (902) -> signalIdle (309-318): unless idle is known to be
\* unsupported, push the deadline to now + 100 ms and wake the worker.
SignalIdle ==
  /\ signals < MaxSignals
  /\ signals' = signals + 1
  /\ IF idleChecked /\ ~idleSupported
       THEN UNCHANGED <<deadline, pc>>
       ELSE deadline' = deadline + 1 /\ Wake
  /\ UNCHANGED <<needUpdate, powerMode, vsyncPeriod, idleChecked,
                 idleSupported, prevRate, pendingPrevRate, supportMap,
                 idleEnabled, handle, snap, rc, elapsed, halUp, halRates,
                 halIdle, faults, crashes>>

\* Time passes the next idle deadline.
Tick ==
  /\ elapsed < deadline
  /\ elapsed' = elapsed + 1
  /\ UNCHANGED <<lockedVars, workerVars, halUp, halRates, halIdle, signals,
                 faults, crashes>>

\* The Power HAL process dies: its modes are gone and our binder handle,
\* if any, now refers to a dead server.
HalCrash ==
  /\ halUp /\ crashes < MaxCrashes
  /\ halUp' = FALSE /\ halRates' = {} /\ halIdle' = FALSE
  /\ handle' = IF handle = "live" THEN "stale" ELSE handle
  /\ crashes' = crashes + 1
  /\ UNCHANGED <<lockedVars, prevRate, pendingPrevRate, supportMap,
                 idleEnabled, pc, snap, rc, elapsed, signals, faults>>

\* The service manager restarts the Power HAL.
HalRestart ==
  /\ ~halUp
  /\ halUp' = TRUE
  /\ UNCHANGED <<lockedVars, workerVars, elapsed, halRates, halIdle, signals,
                 faults, crashes>>

Worker == Top \/ Resume \/ IdleCheck \/ IdleSend \/ Pending \/ Mode
          \/ Enable \/ DisablePrev \/ Retry

Next ==
  \/ Worker
  \/ \E m \in Modes, p \in Periods : SetPowerMode(m, p)
  \/ SignalIdle \/ Tick \/ HalCrash \/ HalRestart

\* The worker is a dedicated thread, time passes, and the service manager
\* restarts a dead HAL; callers, faults and crashes are not forced.
Fairness == WF_vars(Worker) /\ WF_vars(Tick) /\ WF_vars(HalRestart)

Spec == Init /\ [][Next]_vars /\ Fairness

-----------------------------------------------------------------------------
(* Properties.                                                              *)

\* The rate hints the worker's bookkeeping accounts for: mPrevRefreshRate,
\* mPendingPrevRefreshRate, and between the enable and the disable of a
\* switch (232-243) the new rate not yet recorded.
Believed ==
  ({prevRate, pendingPrevRate}
     \cup (IF pc = "DisablePrev" THEN {RefreshRate(snap.period)} ELSE {}))
  \ {0}

\* The worker sleeps in Routine's wait (323-330).
AtRest == pc \in {"Sleep", "TimedSleep"}

\* No leaked hint: every REFRESH_<r>FPS mode enabled in the Power HAL is one
\* the worker's bookkeeping will disable later (prev or pending), whatever
\* the HAL calls of updateRefreshRateHintInternal return, so a failed
\* disable is never forgotten.
LeakFree == halRates \subseteq Believed

\* While the display is On, two refresh-rate hints are enabled together
\* only while a switch or its retry is in flight: when the worker sleeps,
\* the pending hint has been disabled (201-208, retried by 353-360).
NoTwoHintsWhileOn ==
  (AtRest /\ powerMode = "On") => Cardinality(halRates) <= 1

\* The worker's calls change the HAL's hints only as RateHints allows, with
\* the display meant to be on when the worker's snapshot says On: an
\* enable happens only when the pending hint is gone (enable-before-
\* disable never leaves three hints), and while On a disable never leaves
\* the HAL without a rate hint (232-254 enable the next hint first).
Abstract == INSTANCE RateHints
              WITH Rates <- Rates, hints <- halRates, displayOn <- (snap.mode = "On"),
                   halAlive <- halUp
RefinesRateHints == Abstract!Spec

\* Once the callers stop, the HAL ends up with exactly the hint of the
\* primary's current rate while it is On and that rate is supported: the
\* retry of Routine (353-360) outlasts every transient failure.
HintMatchesRate ==
  LET rate == RefreshRate(vsyncPeriod) IN
  (powerMode = "On" /\ rate \in RateSupported) => halRates = {rate}
RateHintConverges == <>[]HintMatchesRate

\* Once idle support is known and the last idle deadline has passed, the
\* DISPLAY_IDLE hint ends up enabled: updateIdleHint's failed enable is
\* retried without a wait (Routine 325-329 does not wait after the deadline).
IdleHintConverges ==
  (<>[](elapsed = deadline /\ idleChecked /\ idleSupported)) => <>[]halIdle

\* spec 8: a signalIdle arriving before the deadline disables an enabled
\* idle hint; so the worker never sleeps without a timeout with the idle
\* hint enabled while the current deadline is still ahead.
IdleHintWithdrawn == (pc = "Sleep" /\ idleEnabled) => elapsed = deadline
====
