------------------------ MODULE PowerRefinementProofs ------------------------
(***************************************************************************)
(* Proofs that PowerHalHintWorker's calls implement RateHints, the        *)
(* promise of the rate hinting seen from the Power HAL, and that two rate  *)
(* hints are never left enabled together while the worker rests with the  *)
(* display On. Both rest on LeakInv (PowerHintProofs) strengthened by how  *)
(* the snapshot, the pending hint and a switch in flight relate.           *)
(***************************************************************************)
EXTENDS PowerHintProofs, FiniteSetTheorems

USE PowerAssumption
USE DEF Labels, Results, Wake, HalCall, CallResults, Answer, Finish,
        lockedVars, workerVars, envVars

\* Without a new request, the locked power mode is the one the last
\* snapshot took (Routine 336-348 copies it and clears mNeedUpdateRefreshRateHint).
SnapCurrent == ~needUpdate => powerMode = snap.mode

\* A pending hint left by a switch while On is disabled before the worker
\* rests: Routine re-arms the update after the failure (353-360) and the
\* next round starts by disabling it (201-208).
PendingRetried ==
  (snap.mode = "On" /\ pendingPrevRate # 0) =>
    \/ needUpdate
    \/ pc = "Retry"
    \/ pc \in {"IdleCheck", "IdleSend", "Pending"} /\ snap.need

\* The worker waits only with no update requested (323-330).
RestIdle == AtRest => ~needUpdate

\* A switch (232-254) runs with the snapshot On and to a new rate.
SwitchOn ==
  pc \in {"Enable", "DisablePrev"} =>
    snap.mode = "On" /\ prevRate # RefreshRate(snap.period)

\* Between the enable of the next hint and the disable of the previous one,
\* the HAL holds the next hint, unless it crashed and took every hint.
EnabledNext ==
  pc = "DisablePrev" =>
    /\ prevRate # 0
    /\ \/ handle = "stale" /\ halRates = {}
       \/ handle = "live" /\ RefreshRate(snap.period) \in halRates

\* A pending hint still held by the HAL has the worker's current hint
\* beside it (it became pending when that one was enabled, 242-250).
PendingBacked ==
  pendingPrevRate \in halRates =>
    prevRate \in halRates /\ prevRate # pendingPrevRate

RefInv ==
  /\ LeakInv /\ SnapCurrent /\ PendingRetried /\ RestIdle
  /\ SwitchOn /\ EnabledNext /\ PendingBacked

LEMMA InitRefInv == Init => RefInv
<1> SUFFICES ASSUME Init PROVE RefInv
  OBVIOUS
<1>0. LeakInv
  BY InitLeakInv
<1>1. SnapCurrent /\ PendingRetried /\ RestIdle /\ SwitchOn /\ EnabledNext
  BY DEF Init, SnapCurrent, PendingRetried, RestIdle, AtRest, SwitchOn, EnabledNext
<1>2. PendingBacked
  BY DEF Init, PendingBacked
<1> QED
  BY <1>0, <1>1, <1>2 DEF RefInv

LEMMA TopRefInv == ASSUME RatesNonZero, RefInv, Top PROVE RefInv'
<1>0. LeakInv'
  BY TopLeakInv DEF RefInv
<1>cur. SnapCurrent'
  BY TypeGroups DEF RefInv, LeakInv, TypeData, TypeSnap, SnapCurrent, Top, TakeSnapshot, WaitsForever
<1>retry. PendingRetried'
  BY TypeGroups DEF RefInv, LeakInv, TypeData, TypeSnap, PendingRetried, SnapCurrent, Top, TakeSnapshot, WaitsForever
<1>rest. RestIdle'
  BY TypeGroups DEF RefInv, LeakInv, TypeData, TypeSnap, RestIdle, AtRest, Top, TakeSnapshot, WaitsForever
<1>sw. SwitchOn'
  BY TypeGroups DEF RefInv, LeakInv, TypeData, TypeSnap, SwitchOn, Top, TakeSnapshot, WaitsForever
<1>next. EnabledNext'
  BY TypeGroups DEF RefInv, LeakInv, TypeData, TypeSnap, EnabledNext, SwitchOn, StaleEmpty, Top, TakeSnapshot, WaitsForever
<1>backed. PendingBacked'
  BY TypeGroups DEF RefInv, LeakInv, TypeData, TypeSnap, PendingBacked, EnabledNext, SwitchOn, StaleEmpty, NoPendingInSwitch, LeakFree, Believed, Top, TakeSnapshot, WaitsForever
<1> QED
  BY <1>0, <1>cur, <1>retry, <1>rest, <1>sw, <1>next, <1>backed DEF RefInv

LEMMA ResumeRefInv == ASSUME RatesNonZero, RefInv, Resume PROVE RefInv'
<1>0. LeakInv'
  BY ResumeLeakInv DEF RefInv
<1>cur. SnapCurrent'
  BY TypeGroups DEF RefInv, LeakInv, TypeData, TypeSnap, SnapCurrent, Resume, TakeSnapshot
<1>retry. PendingRetried'
  BY TypeGroups DEF RefInv, LeakInv, TypeData, TypeSnap, PendingRetried, SnapCurrent, Resume, TakeSnapshot
<1>rest. RestIdle'
  BY TypeGroups DEF RefInv, LeakInv, TypeData, TypeSnap, RestIdle, AtRest, Resume, TakeSnapshot
<1>sw. SwitchOn'
  BY TypeGroups DEF RefInv, LeakInv, TypeData, TypeSnap, SwitchOn, Resume, TakeSnapshot
<1>next. EnabledNext'
  BY TypeGroups DEF RefInv, LeakInv, TypeData, TypeSnap, EnabledNext, SwitchOn, StaleEmpty, Resume, TakeSnapshot
<1>backed. PendingBacked'
  BY TypeGroups DEF RefInv, LeakInv, TypeData, TypeSnap, PendingBacked, EnabledNext, SwitchOn, StaleEmpty, NoPendingInSwitch, LeakFree, Believed, Resume, TakeSnapshot
<1> QED
  BY <1>0, <1>cur, <1>retry, <1>rest, <1>sw, <1>next, <1>backed DEF RefInv

LEMMA RetryRefInv == ASSUME RatesNonZero, RefInv, Retry PROVE RefInv'
<1>0. LeakInv'
  BY RetryLeakInv DEF RefInv
<1>cur. SnapCurrent'
  BY TypeGroups DEF RefInv, LeakInv, TypeData, TypeSnap, SnapCurrent, Retry
<1>retry. PendingRetried'
  BY TypeGroups DEF RefInv, LeakInv, TypeData, TypeSnap, PendingRetried, SnapCurrent, Retry
<1>rest. RestIdle'
  BY TypeGroups DEF RefInv, LeakInv, TypeData, TypeSnap, RestIdle, AtRest, Retry
<1>sw. SwitchOn'
  BY TypeGroups DEF RefInv, LeakInv, TypeData, TypeSnap, SwitchOn, Retry
<1>next. EnabledNext'
  BY TypeGroups DEF RefInv, LeakInv, TypeData, TypeSnap, EnabledNext, SwitchOn, StaleEmpty, Retry
<1>backed. PendingBacked'
  BY TypeGroups DEF RefInv, LeakInv, TypeData, TypeSnap, PendingBacked, EnabledNext, SwitchOn, StaleEmpty, NoPendingInSwitch, LeakFree, Believed, Retry
<1> QED
  BY <1>0, <1>cur, <1>retry, <1>rest, <1>sw, <1>next, <1>backed DEF RefInv

LEMMA SetPowerModeRefInv ==
  ASSUME RatesNonZero, RefInv, NEW m \in Modes, NEW p \in Periods,
         SetPowerMode(m, p)
  PROVE  RefInv'
<1>0. LeakInv'
  BY SetPowerModeLeakInv DEF RefInv
<1>cur. SnapCurrent'
  BY TypeGroups DEF RefInv, LeakInv, TypeData, TypeSnap, SnapCurrent, SetPowerMode, SignalRefreshRate
<1>retry. PendingRetried'
  BY TypeGroups DEF RefInv, LeakInv, TypeData, TypeSnap, PendingRetried, SnapCurrent, SetPowerMode, SignalRefreshRate
<1>rest. RestIdle'
  BY TypeGroups DEF RefInv, LeakInv, TypeData, TypeSnap, RestIdle, AtRest, SetPowerMode, SignalRefreshRate
<1>sw. SwitchOn'
  BY TypeGroups DEF RefInv, LeakInv, TypeData, TypeSnap, SwitchOn, SetPowerMode, SignalRefreshRate
<1>next. EnabledNext'
  BY TypeGroups DEF RefInv, LeakInv, TypeData, TypeSnap, EnabledNext, SwitchOn, StaleEmpty, SetPowerMode, SignalRefreshRate
<1>backed. PendingBacked'
  BY TypeGroups DEF RefInv, LeakInv, TypeData, TypeSnap, PendingBacked, EnabledNext, SwitchOn, StaleEmpty, NoPendingInSwitch, LeakFree, Believed, SetPowerMode, SignalRefreshRate
<1> QED
  BY <1>0, <1>cur, <1>retry, <1>rest, <1>sw, <1>next, <1>backed DEF RefInv

LEMMA SignalIdleRefInv == ASSUME RatesNonZero, RefInv, SignalIdle PROVE RefInv'
<1>0. LeakInv'
  BY SignalIdleLeakInv DEF RefInv
<1>cur. SnapCurrent'
  BY TypeGroups DEF RefInv, LeakInv, TypeData, TypeSnap, SnapCurrent, SignalIdle
<1>retry. PendingRetried'
  BY TypeGroups DEF RefInv, LeakInv, TypeData, TypeSnap, PendingRetried, SnapCurrent, SignalIdle
<1>rest. RestIdle'
  BY TypeGroups DEF RefInv, LeakInv, TypeData, TypeSnap, RestIdle, AtRest, SignalIdle
<1>sw. SwitchOn'
  BY TypeGroups DEF RefInv, LeakInv, TypeData, TypeSnap, SwitchOn, SignalIdle
<1>next. EnabledNext'
  BY TypeGroups DEF RefInv, LeakInv, TypeData, TypeSnap, EnabledNext, SwitchOn, StaleEmpty, SignalIdle
<1>backed. PendingBacked'
  BY TypeGroups DEF RefInv, LeakInv, TypeData, TypeSnap, PendingBacked, EnabledNext, SwitchOn, StaleEmpty, NoPendingInSwitch, LeakFree, Believed, SignalIdle
<1> QED
  BY <1>0, <1>cur, <1>retry, <1>rest, <1>sw, <1>next, <1>backed DEF RefInv

LEMMA EnvRefInv ==
  ASSUME RatesNonZero, RefInv, Tick \/ HalCrash \/ HalRestart PROVE RefInv'
<1>0. LeakInv'
  BY EnvLeakInv DEF RefInv
<1>1. CASE Tick
  <2>cur. SnapCurrent'
    BY <1>1, TypeGroups DEF RefInv, LeakInv, TypeData, TypeSnap, SnapCurrent, Tick
  <2>retry. PendingRetried'
    BY <1>1, TypeGroups DEF RefInv, LeakInv, TypeData, TypeSnap, PendingRetried, SnapCurrent, Tick
  <2>rest. RestIdle'
    BY <1>1, TypeGroups DEF RefInv, LeakInv, TypeData, TypeSnap, RestIdle, AtRest, Tick
  <2>sw. SwitchOn'
    BY <1>1, TypeGroups DEF RefInv, LeakInv, TypeData, TypeSnap, SwitchOn, Tick
  <2>next. EnabledNext'
    BY <1>1, TypeGroups DEF RefInv, LeakInv, TypeData, TypeSnap, EnabledNext, SwitchOn, StaleEmpty, Tick
  <2>backed. PendingBacked'
    BY <1>1, TypeGroups DEF RefInv, LeakInv, TypeData, TypeSnap, PendingBacked, EnabledNext, SwitchOn, StaleEmpty, NoPendingInSwitch, LeakFree, Believed, Tick
  <2> QED
    BY <1>0, <2>cur, <2>retry, <2>rest, <2>sw, <2>next, <2>backed DEF RefInv
<1>2. CASE HalCrash
  <2>cur. SnapCurrent'
    BY <1>2, TypeGroups DEF RefInv, LeakInv, TypeData, TypeSnap, SnapCurrent, HalCrash
  <2>retry. PendingRetried'
    BY <1>2, TypeGroups DEF RefInv, LeakInv, TypeData, TypeSnap, PendingRetried, SnapCurrent, HalCrash
  <2>rest. RestIdle'
    BY <1>2, TypeGroups DEF RefInv, LeakInv, TypeData, TypeSnap, RestIdle, AtRest, HalCrash
  <2>sw. SwitchOn'
    BY <1>2, TypeGroups DEF RefInv, LeakInv, TypeData, TypeSnap, SwitchOn, HalCrash
  <2>next. EnabledNext'
    BY <1>2, TypeGroups DEF RefInv, LeakInv, TypeData, TypeSnap, EnabledNext, SwitchOn, StaleEmpty, HalCrash
  <2>backed. PendingBacked'
    BY <1>2, TypeGroups DEF RefInv, LeakInv, TypeData, TypeSnap, PendingBacked, EnabledNext, SwitchOn, StaleEmpty, NoPendingInSwitch, LeakFree, Believed, HalCrash
  <2> QED
    BY <1>0, <2>cur, <2>retry, <2>rest, <2>sw, <2>next, <2>backed DEF RefInv
<1>3. CASE HalRestart
  <2>cur. SnapCurrent'
    BY <1>3, TypeGroups DEF RefInv, LeakInv, TypeData, TypeSnap, SnapCurrent, HalRestart
  <2>retry. PendingRetried'
    BY <1>3, TypeGroups DEF RefInv, LeakInv, TypeData, TypeSnap, PendingRetried, SnapCurrent, HalRestart
  <2>rest. RestIdle'
    BY <1>3, TypeGroups DEF RefInv, LeakInv, TypeData, TypeSnap, RestIdle, AtRest, HalRestart
  <2>sw. SwitchOn'
    BY <1>3, TypeGroups DEF RefInv, LeakInv, TypeData, TypeSnap, SwitchOn, HalRestart
  <2>next. EnabledNext'
    BY <1>3, TypeGroups DEF RefInv, LeakInv, TypeData, TypeSnap, EnabledNext, SwitchOn, StaleEmpty, HalRestart
  <2>backed. PendingBacked'
    BY <1>3, TypeGroups DEF RefInv, LeakInv, TypeData, TypeSnap, PendingBacked, EnabledNext, SwitchOn, StaleEmpty, NoPendingInSwitch, LeakFree, Believed, HalRestart
  <2> QED
    BY <1>0, <2>cur, <2>retry, <2>rest, <2>sw, <2>next, <2>backed DEF RefInv
<1> QED
  BY <1>1, <1>2, <1>3

LEMMA StutterRefInv == ASSUME RatesNonZero, RefInv, UNCHANGED vars PROVE RefInv'
<1>0. LeakInv'
  BY StutterLeakInv DEF RefInv
<1>cur. SnapCurrent'
  BY TypeGroups DEF RefInv, LeakInv, TypeData, TypeSnap, SnapCurrent, vars, lockedVars, workerVars, envVars
<1>retry. PendingRetried'
  BY TypeGroups DEF RefInv, LeakInv, TypeData, TypeSnap, PendingRetried, SnapCurrent, vars, lockedVars, workerVars, envVars
<1>rest. RestIdle'
  BY TypeGroups DEF RefInv, LeakInv, TypeData, TypeSnap, RestIdle, AtRest, vars, lockedVars, workerVars, envVars
<1>sw. SwitchOn'
  BY TypeGroups DEF RefInv, LeakInv, TypeData, TypeSnap, SwitchOn, vars, lockedVars, workerVars, envVars
<1>next. EnabledNext'
  BY TypeGroups DEF RefInv, LeakInv, TypeData, TypeSnap, EnabledNext, SwitchOn, StaleEmpty, vars, lockedVars, workerVars, envVars
<1>backed. PendingBacked'
  BY TypeGroups DEF RefInv, LeakInv, TypeData, TypeSnap, PendingBacked, EnabledNext, SwitchOn, StaleEmpty, NoPendingInSwitch, LeakFree, Believed, vars, lockedVars, workerVars, envVars
<1> QED
  BY <1>0, <1>cur, <1>retry, <1>rest, <1>sw, <1>next, <1>backed DEF RefInv

\* checkIdleHintSupport and its cached answer touch no rate hint.
LEMMA IdleCheckRefInv == ASSUME RatesNonZero, RefInv, IdleCheck PROVE RefInv'
<1>0. LeakInv'
  BY IdleCheckLeakInv DEF RefInv
<1>1. CASE idleChecked
  <2>cur. SnapCurrent'
    BY <1>1, TypeGroups DEF RefInv, LeakInv, TypeData, TypeSnap, SnapCurrent, IdleCheck, RateEntry
  <2>retry. PendingRetried'
    BY <1>1, TypeGroups DEF RefInv, LeakInv, TypeData, TypeSnap, PendingRetried, SnapCurrent, IdleCheck, RateEntry
  <2>rest. RestIdle'
    BY <1>1, TypeGroups DEF RefInv, LeakInv, TypeData, TypeSnap, RestIdle, AtRest, IdleCheck, RateEntry
  <2>sw. SwitchOn'
    BY <1>1, TypeGroups DEF RefInv, LeakInv, TypeData, TypeSnap, SwitchOn, IdleCheck, RateEntry
  <2>next. EnabledNext'
    BY <1>1, TypeGroups DEF RefInv, LeakInv, TypeData, TypeSnap, EnabledNext, SwitchOn, StaleEmpty, IdleCheck, RateEntry
  <2>backed. PendingBacked'
    BY <1>1, TypeGroups DEF RefInv, LeakInv, TypeData, TypeSnap, PendingBacked, EnabledNext, SwitchOn, StaleEmpty, NoPendingInSwitch, LeakFree, Believed, IdleCheck, RateEntry
  <2> QED
    BY <1>0, <2>cur, <2>retry, <2>rest, <2>sw, <2>next, <2>backed DEF RefInv
<1>2. CASE ~idleChecked
  <2>1. PICK r \in CallResults :
          /\ HalCall(r)
          /\ idleSupported' = (Answer(r, IdleSupported) = "OK")
          /\ idleChecked' = (Answer(r, IdleSupported) \in {"OK", "EOPNOTSUPP"})
          /\ pc' = IF Answer(r, IdleSupported) = "OK" THEN "IdleSend" ELSE RateEntry
    BY <1>2 DEF IdleCheck
  <2>cur. SnapCurrent'
    BY <1>2, <2>1, TypeGroups DEF RefInv, LeakInv, TypeData, TypeSnap, SnapCurrent, IdleCheck, RateEntry
  <2>retry. PendingRetried'
    BY <1>2, <2>1, TypeGroups DEF RefInv, LeakInv, TypeData, TypeSnap, PendingRetried, SnapCurrent, IdleCheck, RateEntry
  <2>rest. RestIdle'
    BY <1>2, <2>1, TypeGroups DEF RefInv, LeakInv, TypeData, TypeSnap, RestIdle, AtRest, IdleCheck, RateEntry
  <2>sw. SwitchOn'
    BY <1>2, <2>1, TypeGroups DEF RefInv, LeakInv, TypeData, TypeSnap, SwitchOn, IdleCheck, RateEntry
  <2>next. EnabledNext'
    BY <1>2, <2>1, TypeGroups DEF RefInv, LeakInv, TypeData, TypeSnap, EnabledNext, SwitchOn, StaleEmpty, IdleCheck, RateEntry
  <2>backed. PendingBacked'
    BY <1>2, <2>1, TypeGroups DEF RefInv, LeakInv, TypeData, TypeSnap, PendingBacked, EnabledNext, SwitchOn, StaleEmpty, NoPendingInSwitch, LeakFree, Believed, IdleCheck, RateEntry
  <2> QED
    BY <1>0, <2>cur, <2>retry, <2>rest, <2>sw, <2>next, <2>backed DEF RefInv
<1> QED
  BY <1>1, <1>2

\* updateIdleHint's DISPLAY_IDLE call touches no rate hint.
LEMMA IdleSendRefInv == ASSUME RatesNonZero, RefInv, IdleSend PROVE RefInv'
<1>0. LeakInv'
  BY IdleSendLeakInv DEF RefInv
<1>1. CASE idleEnabled = (snap.gen <= elapsed)
  <2>cur. SnapCurrent'
    BY <1>1, TypeGroups DEF RefInv, LeakInv, TypeData, TypeSnap, SnapCurrent, IdleSend, RateEntry
  <2>retry. PendingRetried'
    BY <1>1, TypeGroups DEF RefInv, LeakInv, TypeData, TypeSnap, PendingRetried, SnapCurrent, IdleSend, RateEntry
  <2>rest. RestIdle'
    BY <1>1, TypeGroups DEF RefInv, LeakInv, TypeData, TypeSnap, RestIdle, AtRest, IdleSend, RateEntry
  <2>sw. SwitchOn'
    BY <1>1, TypeGroups DEF RefInv, LeakInv, TypeData, TypeSnap, SwitchOn, IdleSend, RateEntry
  <2>next. EnabledNext'
    BY <1>1, TypeGroups DEF RefInv, LeakInv, TypeData, TypeSnap, EnabledNext, SwitchOn, StaleEmpty, IdleSend, RateEntry
  <2>backed. PendingBacked'
    BY <1>1, TypeGroups DEF RefInv, LeakInv, TypeData, TypeSnap, PendingBacked, EnabledNext, SwitchOn, StaleEmpty, NoPendingInSwitch, LeakFree, Believed, IdleSend, RateEntry
  <2> QED
    BY <1>0, <2>cur, <2>retry, <2>rest, <2>sw, <2>next, <2>backed DEF RefInv
<1>2. CASE idleEnabled # (snap.gen <= elapsed)
  <2>1. PICK r \in CallResults :
          /\ HalCall(r)
          /\ halIdle' = IF r = "OK" THEN (snap.gen <= elapsed) ELSE halIdle
          /\ idleEnabled' = IF r = "OK" THEN (snap.gen <= elapsed) ELSE idleEnabled
    BY <1>2 DEF IdleSend
  <2>2. (snap.gen <= elapsed) \in BOOLEAN
    OBVIOUS
  <2>3. halIdle' \in BOOLEAN /\ idleEnabled' \in BOOLEAN
    BY <2>1, <2>2, Zenon DEF RefInv, LeakInv, TypeOK
  <2>cur. SnapCurrent'
    BY <1>2, <2>1, <2>3, TypeGroups DEF RefInv, LeakInv, TypeData, TypeSnap, SnapCurrent, IdleSend, RateEntry
  <2>retry. PendingRetried'
    BY <1>2, <2>1, <2>3, TypeGroups DEF RefInv, LeakInv, TypeData, TypeSnap, PendingRetried, SnapCurrent, IdleSend, RateEntry
  <2>rest. RestIdle'
    BY <1>2, <2>1, <2>3, TypeGroups DEF RefInv, LeakInv, TypeData, TypeSnap, RestIdle, AtRest, IdleSend, RateEntry
  <2>sw. SwitchOn'
    BY <1>2, <2>1, <2>3, TypeGroups DEF RefInv, LeakInv, TypeData, TypeSnap, SwitchOn, IdleSend, RateEntry
  <2>next. EnabledNext'
    BY <1>2, <2>1, <2>3, TypeGroups DEF RefInv, LeakInv, TypeData, TypeSnap, EnabledNext, SwitchOn, StaleEmpty, IdleSend, RateEntry
  <2>backed. PendingBacked'
    BY <1>2, <2>1, <2>3, TypeGroups DEF RefInv, LeakInv, TypeData, TypeSnap, PendingBacked, EnabledNext, SwitchOn, StaleEmpty, NoPendingInSwitch, LeakFree, Believed, IdleSend, RateEntry
  <2> QED
    BY <1>0, <2>cur, <2>retry, <2>rest, <2>sw, <2>next, <2>backed DEF RefInv
<1> QED
  BY <1>1, <1>2

\* The disable of the pending hint (201-208): on success the pending hint
\* is gone from the HAL, on -ENOTCONN the HAL holds nothing.
LEMMA PendingRefInv == ASSUME RatesNonZero, RefInv, Pending PROVE RefInv'
<1>0. LeakInv'
  BY PendingLeakInv DEF RefInv
<1>1. PICK r \in CallResults :
        /\ HalCall(r)
        /\ halRates' = IF r = "OK" THEN halRates \ {pendingPrevRate} ELSE halRates
        /\ IF r = "OK"
             THEN /\ pendingPrevRate' = 0 /\ prevRate' = prevRate
                  /\ pc' = "Mode" /\ rc' = rc
             ELSE /\ ResetOnNotConn(r, prevRate, pendingPrevRate)
                  /\ Finish(r)
  BY DEF Pending
<1>2. CASE r = "OK"
  <2>1. /\ halRates' = halRates \ {pendingPrevRate}
        /\ pendingPrevRate' = 0 /\ prevRate' = prevRate /\ pc' = "Mode" /\ rc' = rc
    BY <1>1, <1>2
  <2>cur. SnapCurrent'
    BY <1>1, <1>2, <2>1, TypeGroups DEF RefInv, LeakInv, TypeData, TypeSnap, SnapCurrent, Pending
  <2>retry. PendingRetried'
    BY <1>1, <1>2, <2>1, TypeGroups DEF RefInv, LeakInv, TypeData, TypeSnap, PendingRetried, SnapCurrent, Pending
  <2>rest. RestIdle'
    BY <1>1, <1>2, <2>1, TypeGroups DEF RefInv, LeakInv, TypeData, TypeSnap, RestIdle, AtRest, Pending
  <2>sw. SwitchOn'
    BY <1>1, <1>2, <2>1, TypeGroups DEF RefInv, LeakInv, TypeData, TypeSnap, SwitchOn, Pending
  <2>next. EnabledNext'
    BY <1>1, <1>2, <2>1, TypeGroups DEF RefInv, LeakInv, TypeData, TypeSnap, EnabledNext, SwitchOn, StaleEmpty, Pending
  <2>backed. PendingBacked'
    BY <1>1, <1>2, <2>1, TypeGroups DEF RefInv, LeakInv, TypeData, TypeSnap, PendingBacked, EnabledNext, SwitchOn, StaleEmpty, NoPendingInSwitch, LeakFree, Believed, Pending
  <2> QED
    BY <1>0, <2>cur, <2>retry, <2>rest, <2>sw, <2>next, <2>backed DEF RefInv
<1>3. CASE r # "OK"
  <2>1. /\ halRates' = halRates
        /\ prevRate' = IF r = "ENOTCONN" THEN 0 ELSE prevRate
        /\ pendingPrevRate' = IF r = "ENOTCONN" THEN 0 ELSE pendingPrevRate
        /\ rc' = r /\ pc' = "Retry"
    BY <1>1, <1>3 DEF ResetOnNotConn
  <2>cur. SnapCurrent'
    BY <1>1, <1>3, <2>1, TypeGroups DEF RefInv, LeakInv, TypeData, TypeSnap, SnapCurrent, Pending
  <2>retry. PendingRetried'
    BY <1>1, <1>3, <2>1, TypeGroups DEF RefInv, LeakInv, TypeData, TypeSnap, PendingRetried, SnapCurrent, Pending
  <2>rest. RestIdle'
    BY <1>1, <1>3, <2>1, TypeGroups DEF RefInv, LeakInv, TypeData, TypeSnap, RestIdle, AtRest, Pending
  <2>sw. SwitchOn'
    BY <1>1, <1>3, <2>1, TypeGroups DEF RefInv, LeakInv, TypeData, TypeSnap, SwitchOn, Pending
  <2>next. EnabledNext'
    BY <1>1, <1>3, <2>1, TypeGroups DEF RefInv, LeakInv, TypeData, TypeSnap, EnabledNext, SwitchOn, StaleEmpty, Pending
  <2>backed. PendingBacked'
    BY <1>1, <1>3, <2>1, TypeGroups DEF RefInv, LeakInv, TypeData, TypeSnap, PendingBacked, EnabledNext, SwitchOn, StaleEmpty, NoPendingInSwitch, LeakFree, Believed, Pending
  <2> QED
    BY <1>0, <2>cur, <2>retry, <2>rest, <2>sw, <2>next, <2>backed DEF RefInv
<1> QED
  BY <1>2, <1>3

\* updateRefreshRateHintInternal up to the support check (209-231).
LEMMA ModeRefInv == ASSUME RatesNonZero, RefInv, Mode PROVE RefInv'
<1>0. LeakInv'
  BY ModeLeakInv DEF RefInv
<1> DEFINE rate == RefreshRate(snap.period)
<1>r. rate \in Rates
  BY RateInRates DEF RefInv, LeakInv, TypeOK, TypeSnap
<1>1. CASE snap.mode # "On" /\ prevRate = 0
  <2>1. /\ Finish("OK")
        /\ UNCHANGED <<prevRate, pendingPrevRate, supportMap, halRates, handle, faults>>
    BY <1>1 DEF Mode
  <2>cur. SnapCurrent'
    BY <1>1, <2>1, TypeGroups DEF RefInv, LeakInv, TypeData, TypeSnap, SnapCurrent, Mode
  <2>retry. PendingRetried'
    BY <1>1, <2>1, TypeGroups DEF RefInv, LeakInv, TypeData, TypeSnap, PendingRetried, SnapCurrent, Mode
  <2>rest. RestIdle'
    BY <1>1, <2>1, TypeGroups DEF RefInv, LeakInv, TypeData, TypeSnap, RestIdle, AtRest, Mode
  <2>sw. SwitchOn'
    BY <1>1, <2>1, TypeGroups DEF RefInv, LeakInv, TypeData, TypeSnap, SwitchOn, Mode
  <2>next. EnabledNext'
    BY <1>1, <2>1, TypeGroups DEF RefInv, LeakInv, TypeData, TypeSnap, EnabledNext, SwitchOn, StaleEmpty, Mode
  <2>backed. PendingBacked'
    BY <1>1, <2>1, TypeGroups DEF RefInv, LeakInv, TypeData, TypeSnap, PendingBacked, EnabledNext, SwitchOn, StaleEmpty, NoPendingInSwitch, LeakFree, Believed, Mode
  <2> QED
    BY <1>0, <2>cur, <2>retry, <2>rest, <2>sw, <2>next, <2>backed DEF RefInv
<1>2. CASE snap.mode # "On" /\ prevRate # 0
  <2>1. PICK r \in CallResults :
          /\ HalCall(r)
          /\ halRates' = IF r = "OK" THEN halRates \ {prevRate} ELSE halRates
          /\ ResetOnNotConn(r, IF r = "OK" THEN 0 ELSE prevRate, pendingPrevRate)
          /\ Finish(r)
          /\ UNCHANGED supportMap
    BY <1>2 DEF Mode
  <2>cur. SnapCurrent'
    BY <1>2, <2>1, TypeGroups DEF RefInv, LeakInv, TypeData, TypeSnap, SnapCurrent, Mode, ResetOnNotConn
  <2>retry. PendingRetried'
    BY <1>2, <2>1, TypeGroups DEF RefInv, LeakInv, TypeData, TypeSnap, PendingRetried, SnapCurrent, Mode, ResetOnNotConn
  <2>rest. RestIdle'
    BY <1>2, <2>1, TypeGroups DEF RefInv, LeakInv, TypeData, TypeSnap, RestIdle, AtRest, Mode, ResetOnNotConn
  <2>sw. SwitchOn'
    BY <1>2, <2>1, TypeGroups DEF RefInv, LeakInv, TypeData, TypeSnap, SwitchOn, Mode, ResetOnNotConn
  <2>next. EnabledNext'
    BY <1>2, <2>1, TypeGroups DEF RefInv, LeakInv, TypeData, TypeSnap, EnabledNext, SwitchOn, StaleEmpty, Mode, ResetOnNotConn
  <2>backed. PendingBacked'
    BY <1>2, <2>1, TypeGroups DEF RefInv, LeakInv, TypeData, TypeSnap, PendingBacked, EnabledNext, SwitchOn, StaleEmpty, NoPendingInSwitch, LeakFree, Believed, Mode, ResetOnNotConn
  <2> QED
    BY <1>0, <2>cur, <2>retry, <2>rest, <2>sw, <2>next, <2>backed DEF RefInv
<1>3. CASE snap.mode = "On" /\ prevRate = rate
  <2>1. /\ Finish("OK")
        /\ UNCHANGED <<prevRate, pendingPrevRate, supportMap, halRates, handle, faults>>
    BY <1>3 DEF Mode
  <2>cur. SnapCurrent'
    BY <1>3, <2>1, TypeGroups DEF RefInv, LeakInv, TypeData, TypeSnap, SnapCurrent, Mode
  <2>retry. PendingRetried'
    BY <1>3, <2>1, TypeGroups DEF RefInv, LeakInv, TypeData, TypeSnap, PendingRetried, SnapCurrent, Mode
  <2>rest. RestIdle'
    BY <1>3, <2>1, TypeGroups DEF RefInv, LeakInv, TypeData, TypeSnap, RestIdle, AtRest, Mode
  <2>sw. SwitchOn'
    BY <1>3, <2>1, TypeGroups DEF RefInv, LeakInv, TypeData, TypeSnap, SwitchOn, Mode
  <2>next. EnabledNext'
    BY <1>3, <2>1, TypeGroups DEF RefInv, LeakInv, TypeData, TypeSnap, EnabledNext, SwitchOn, StaleEmpty, Mode
  <2>backed. PendingBacked'
    BY <1>3, <2>1, TypeGroups DEF RefInv, LeakInv, TypeData, TypeSnap, PendingBacked, EnabledNext, SwitchOn, StaleEmpty, NoPendingInSwitch, LeakFree, Believed, Mode
  <2> QED
    BY <1>0, <2>cur, <2>retry, <2>rest, <2>sw, <2>next, <2>backed DEF RefInv
<1>4. CASE snap.mode = "On" /\ prevRate # rate
  <2>0. UNCHANGED <<prevRate, pendingPrevRate, halRates>>
    BY <1>4 DEF Mode
  <2>1. CASE supportMap[rate] = "yes"
    <3>1. pc' = "Enable" /\ UNCHANGED <<rc, supportMap, handle, faults>>
      BY <1>4, <2>1 DEF Mode, CheckRefreshRateHintSupport
    <3>cur. SnapCurrent'
      BY <1>r, <2>0, <3>1, TypeGroups DEF RefInv, LeakInv, TypeData, TypeSnap, SnapCurrent, Mode
    <3>retry. PendingRetried'
      BY <1>r, <2>0, <3>1, TypeGroups DEF RefInv, LeakInv, TypeData, TypeSnap, PendingRetried, SnapCurrent, Mode
    <3>rest. RestIdle'
      BY <1>r, <2>0, <3>1, TypeGroups DEF RefInv, LeakInv, TypeData, TypeSnap, RestIdle, AtRest, Mode
    <3>sw. SwitchOn'
      BY <1>r, <2>0, <3>1, TypeGroups DEF RefInv, LeakInv, TypeData, TypeSnap, SwitchOn, Mode
    <3>next. EnabledNext'
      BY <1>r, <2>0, <3>1, TypeGroups DEF RefInv, LeakInv, TypeData, TypeSnap, EnabledNext, SwitchOn, StaleEmpty, Mode
    <3>backed. PendingBacked'
      BY <1>r, <2>0, <3>1, TypeGroups DEF RefInv, LeakInv, TypeData, TypeSnap, PendingBacked, EnabledNext, SwitchOn, StaleEmpty, NoPendingInSwitch, LeakFree, Believed, Mode
    <3> QED
      BY <1>0, <3>cur, <3>retry, <3>rest, <3>sw, <3>next, <3>backed DEF RefInv
  <2>2. CASE supportMap[rate] = "no"
    <3>1. Finish("EOPNOTSUPP") /\ UNCHANGED <<supportMap, handle, faults>>
      BY <1>4, <2>2 DEF Mode, CheckRefreshRateHintSupport
    <3>cur. SnapCurrent'
      BY <1>r, <2>0, <3>1, TypeGroups DEF RefInv, LeakInv, TypeData, TypeSnap, SnapCurrent, Mode
    <3>retry. PendingRetried'
      BY <1>r, <2>0, <3>1, TypeGroups DEF RefInv, LeakInv, TypeData, TypeSnap, PendingRetried, SnapCurrent, Mode
    <3>rest. RestIdle'
      BY <1>r, <2>0, <3>1, TypeGroups DEF RefInv, LeakInv, TypeData, TypeSnap, RestIdle, AtRest, Mode
    <3>sw. SwitchOn'
      BY <1>r, <2>0, <3>1, TypeGroups DEF RefInv, LeakInv, TypeData, TypeSnap, SwitchOn, Mode
    <3>next. EnabledNext'
      BY <1>r, <2>0, <3>1, TypeGroups DEF RefInv, LeakInv, TypeData, TypeSnap, EnabledNext, SwitchOn, StaleEmpty, Mode
    <3>backed. PendingBacked'
      BY <1>r, <2>0, <3>1, TypeGroups DEF RefInv, LeakInv, TypeData, TypeSnap, PendingBacked, EnabledNext, SwitchOn, StaleEmpty, NoPendingInSwitch, LeakFree, Believed, Mode
    <3> QED
      BY <1>0, <3>cur, <3>retry, <3>rest, <3>sw, <3>next, <3>backed DEF RefInv
  <2>3. CASE supportMap[rate] = "unknown"
    <3>1. PICK r \in CallResults :
            /\ HalCall(r)
            /\ supportMap' = IF Answer(r, rate \in RateSupported) \in {"OK", "EOPNOTSUPP"}
                               THEN [supportMap EXCEPT ![rate] =
                                       IF Answer(r, rate \in RateSupported) = "OK"
                                         THEN "yes" ELSE "no"]
                               ELSE supportMap
            /\ IF Answer(r, rate \in RateSupported) = "OK"
                 THEN pc' = "Enable" /\ UNCHANGED rc
                 ELSE Finish(Answer(r, rate \in RateSupported))
      BY <1>4, <2>3 DEF Mode, CheckRefreshRateHintSupport
    <3>cur. SnapCurrent'
      BY <1>r, <2>0, <3>1, TypeGroups DEF RefInv, LeakInv, TypeData, TypeSnap, SnapCurrent, Mode
    <3>retry. PendingRetried'
      BY <1>r, <2>0, <3>1, TypeGroups DEF RefInv, LeakInv, TypeData, TypeSnap, PendingRetried, SnapCurrent, Mode
    <3>rest. RestIdle'
      BY <1>r, <2>0, <3>1, TypeGroups DEF RefInv, LeakInv, TypeData, TypeSnap, RestIdle, AtRest, Mode
    <3>sw. SwitchOn'
      BY <1>r, <2>0, <3>1, TypeGroups DEF RefInv, LeakInv, TypeData, TypeSnap, SwitchOn, Mode
    <3>next. EnabledNext'
      BY <1>r, <2>0, <3>1, TypeGroups DEF RefInv, LeakInv, TypeData, TypeSnap, EnabledNext, SwitchOn, StaleEmpty, Mode
    <3>backed. PendingBacked'
      BY <1>r, <2>0, <3>1, TypeGroups DEF RefInv, LeakInv, TypeData, TypeSnap, PendingBacked, EnabledNext, SwitchOn, StaleEmpty, NoPendingInSwitch, LeakFree, Believed, Mode
    <3> QED
      BY <1>0, <3>cur, <3>retry, <3>rest, <3>sw, <3>next, <3>backed DEF RefInv
  <2> QED
    BY <1>r, <2>1, <2>2, <2>3, TypeGroups DEF RefInv, LeakInv, TypeData
<1> QED
  BY <1>1, <1>2, <1>3, <1>4

\* Enabling the new hint (232-241): on success it is believed, as the rate
\* to switch to while the previous one is still to be disabled, or as the
\* previous rate itself; both need the rounded rate to be a real one.
LEMMA EnableRefInv ==
  ASSUME RatesNonZero, RefInv, Enable
  PROVE  RefInv'
<1>0. LeakInv'
  BY EnableLeakInv DEF RefInv
<1> DEFINE rate == RefreshRate(snap.period)
<1>r. rate \in Rates /\ rate # 0
  BY RateOfPeriod DEF RefInv, LeakInv, TypeOK, TypeSnap
<1>1. PICK r \in CallResults :
        /\ HalCall(r)
        /\ halRates' = IF r = "OK" THEN halRates \cup {rate} ELSE halRates
        /\ IF r = "OK" /\ prevRate # 0
             THEN pc' = "DisablePrev" /\ UNCHANGED <<prevRate, pendingPrevRate, rc>>
             ELSE /\ ResetOnNotConn(r, IF r = "OK" THEN rate ELSE prevRate,
                                    pendingPrevRate)
                  /\ Finish(r)
  BY DEF Enable
<1>2. CASE r = "OK" /\ prevRate # 0
  <2>1. /\ halRates' = halRates \cup {rate}
        /\ pc' = "DisablePrev" /\ UNCHANGED <<prevRate, pendingPrevRate, rc>>
    BY <1>1, <1>2
  <2>cur. SnapCurrent'
    BY <1>r, <1>1, <1>2, <2>1, TypeGroups DEF RefInv, LeakInv, TypeData, TypeSnap, SnapCurrent, Enable
  <2>retry. PendingRetried'
    BY <1>r, <1>1, <1>2, <2>1, TypeGroups DEF RefInv, LeakInv, TypeData, TypeSnap, PendingRetried, SnapCurrent, Enable
  <2>rest. RestIdle'
    BY <1>r, <1>1, <1>2, <2>1, TypeGroups DEF RefInv, LeakInv, TypeData, TypeSnap, RestIdle, AtRest, Enable
  <2>sw. SwitchOn'
    BY <1>r, <1>1, <1>2, <2>1, TypeGroups DEF RefInv, LeakInv, TypeData, TypeSnap, SwitchOn, Enable
  <2>next. EnabledNext'
    BY <1>r, <1>1, <1>2, <2>1, TypeGroups DEF RefInv, LeakInv, TypeData, TypeSnap, EnabledNext, SwitchOn, StaleEmpty, Enable
  <2>backed. PendingBacked'
    BY <1>r, <1>1, <1>2, <2>1, TypeGroups DEF RefInv, LeakInv, TypeData, TypeSnap, PendingBacked, EnabledNext, SwitchOn, StaleEmpty, NoPendingInSwitch, LeakFree, Believed, Enable
  <2> QED
    BY <1>0, <2>cur, <2>retry, <2>rest, <2>sw, <2>next, <2>backed DEF RefInv
<1>3. CASE r = "OK" /\ prevRate = 0
  <2>1. /\ halRates' = halRates \cup {rate}
        /\ prevRate' = rate /\ pendingPrevRate' = pendingPrevRate
        /\ rc' = "OK" /\ pc' = "Top"
    BY <1>1, <1>3 DEF ResetOnNotConn
  <2>cur. SnapCurrent'
    BY <1>r, <1>1, <1>3, <2>1, TypeGroups DEF RefInv, LeakInv, TypeData, TypeSnap, SnapCurrent, Enable
  <2>retry. PendingRetried'
    BY <1>r, <1>1, <1>3, <2>1, TypeGroups DEF RefInv, LeakInv, TypeData, TypeSnap, PendingRetried, SnapCurrent, Enable
  <2>rest. RestIdle'
    BY <1>r, <1>1, <1>3, <2>1, TypeGroups DEF RefInv, LeakInv, TypeData, TypeSnap, RestIdle, AtRest, Enable
  <2>sw. SwitchOn'
    BY <1>r, <1>1, <1>3, <2>1, TypeGroups DEF RefInv, LeakInv, TypeData, TypeSnap, SwitchOn, Enable
  <2>next. EnabledNext'
    BY <1>r, <1>1, <1>3, <2>1, TypeGroups DEF RefInv, LeakInv, TypeData, TypeSnap, EnabledNext, SwitchOn, StaleEmpty, Enable
  <2>backed. PendingBacked'
    BY <1>r, <1>1, <1>3, <2>1, TypeGroups DEF RefInv, LeakInv, TypeData, TypeSnap, PendingBacked, EnabledNext, SwitchOn, StaleEmpty, NoPendingInSwitch, LeakFree, Believed, Enable
  <2> QED
    BY <1>0, <2>cur, <2>retry, <2>rest, <2>sw, <2>next, <2>backed DEF RefInv
<1>4. CASE r # "OK"
  <2>1. /\ halRates' = halRates
        /\ prevRate' = IF r = "ENOTCONN" THEN 0 ELSE prevRate
        /\ pendingPrevRate' = IF r = "ENOTCONN" THEN 0 ELSE pendingPrevRate
        /\ rc' = r /\ pc' = "Retry"
    BY <1>1, <1>4 DEF ResetOnNotConn
  <2>cur. SnapCurrent'
    BY <1>r, <1>1, <1>4, <2>1, TypeGroups DEF RefInv, LeakInv, TypeData, TypeSnap, SnapCurrent, Enable
  <2>retry. PendingRetried'
    BY <1>r, <1>1, <1>4, <2>1, TypeGroups DEF RefInv, LeakInv, TypeData, TypeSnap, PendingRetried, SnapCurrent, Enable
  <2>rest. RestIdle'
    BY <1>r, <1>1, <1>4, <2>1, TypeGroups DEF RefInv, LeakInv, TypeData, TypeSnap, RestIdle, AtRest, Enable
  <2>sw. SwitchOn'
    BY <1>r, <1>1, <1>4, <2>1, TypeGroups DEF RefInv, LeakInv, TypeData, TypeSnap, SwitchOn, Enable
  <2>next. EnabledNext'
    BY <1>r, <1>1, <1>4, <2>1, TypeGroups DEF RefInv, LeakInv, TypeData, TypeSnap, EnabledNext, SwitchOn, StaleEmpty, Enable
  <2>backed. PendingBacked'
    BY <1>r, <1>1, <1>4, <2>1, TypeGroups DEF RefInv, LeakInv, TypeData, TypeSnap, PendingBacked, EnabledNext, SwitchOn, StaleEmpty, NoPendingInSwitch, LeakFree, Believed, Enable
  <2> QED
    BY <1>0, <2>cur, <2>retry, <2>rest, <2>sw, <2>next, <2>backed DEF RefInv
<1> QED
  BY <1>2, <1>3, <1>4

\* Disabling the previous hint (242-254): on success it is forgotten, on
\* -EINVAL it is kept as the pending hint, on -ENOTCONN the HAL holds none.
LEMMA DisablePrevRefInv ==
  ASSUME RatesNonZero, RefInv, DisablePrev
  PROVE  RefInv'
<1>0. LeakInv'
  BY DisablePrevLeakInv DEF RefInv
<1> DEFINE rate == RefreshRate(snap.period)
<1>r. rate \in Rates /\ rate # 0
  BY RateOfPeriod DEF RefInv, LeakInv, TypeOK, TypeSnap
<1>1. PICK r \in CallResults :
        /\ HalCall(r)
        /\ halRates' = IF r = "OK" THEN halRates \ {prevRate} ELSE halRates
        /\ ResetOnNotConn(r, rate, IF r = "EINVAL" THEN prevRate ELSE pendingPrevRate)
        /\ Finish(r)
  BY DEF DisablePrev
<1>2. CASE r = "OK"
  <2>1. /\ halRates' = halRates \ {prevRate}
        /\ prevRate' = rate /\ pendingPrevRate' = pendingPrevRate
        /\ rc' = "OK" /\ pc' = "Top"
    BY <1>1, <1>2 DEF ResetOnNotConn
  <2>cur. SnapCurrent'
    BY <1>r, <1>1, <1>2, <2>1, TypeGroups DEF RefInv, LeakInv, TypeData, TypeSnap, SnapCurrent, DisablePrev
  <2>retry. PendingRetried'
    BY <1>r, <1>1, <1>2, <2>1, TypeGroups DEF RefInv, LeakInv, TypeData, TypeSnap, PendingRetried, SnapCurrent, DisablePrev
  <2>rest. RestIdle'
    BY <1>r, <1>1, <1>2, <2>1, TypeGroups DEF RefInv, LeakInv, TypeData, TypeSnap, RestIdle, AtRest, DisablePrev
  <2>sw. SwitchOn'
    BY <1>r, <1>1, <1>2, <2>1, TypeGroups DEF RefInv, LeakInv, TypeData, TypeSnap, SwitchOn, DisablePrev
  <2>next. EnabledNext'
    BY <1>r, <1>1, <1>2, <2>1, TypeGroups DEF RefInv, LeakInv, TypeData, TypeSnap, EnabledNext, SwitchOn, StaleEmpty, DisablePrev
  <2>backed. PendingBacked'
    BY <1>r, <1>1, <1>2, <2>1, TypeGroups DEF RefInv, LeakInv, TypeData, TypeSnap, PendingBacked, EnabledNext, SwitchOn, StaleEmpty, NoPendingInSwitch, LeakFree, Believed, DisablePrev
  <2> QED
    BY <1>0, <2>cur, <2>retry, <2>rest, <2>sw, <2>next, <2>backed DEF RefInv
<1>3. CASE r = "EINVAL"
  <2>1. /\ halRates' = halRates
        /\ prevRate' = rate /\ pendingPrevRate' = prevRate
        /\ rc' = "EINVAL" /\ pc' = "Retry"
    BY <1>1, <1>3 DEF ResetOnNotConn
  <2>cur. SnapCurrent'
    BY <1>r, <1>1, <1>3, <2>1, TypeGroups DEF RefInv, LeakInv, TypeData, TypeSnap, SnapCurrent, DisablePrev
  <2>retry. PendingRetried'
    BY <1>r, <1>1, <1>3, <2>1, TypeGroups DEF RefInv, LeakInv, TypeData, TypeSnap, PendingRetried, SnapCurrent, DisablePrev
  <2>rest. RestIdle'
    BY <1>r, <1>1, <1>3, <2>1, TypeGroups DEF RefInv, LeakInv, TypeData, TypeSnap, RestIdle, AtRest, DisablePrev
  <2>sw. SwitchOn'
    BY <1>r, <1>1, <1>3, <2>1, TypeGroups DEF RefInv, LeakInv, TypeData, TypeSnap, SwitchOn, DisablePrev
  <2>next. EnabledNext'
    BY <1>r, <1>1, <1>3, <2>1, TypeGroups DEF RefInv, LeakInv, TypeData, TypeSnap, EnabledNext, SwitchOn, StaleEmpty, DisablePrev
  <2>backed. PendingBacked'
    BY <1>r, <1>1, <1>3, <2>1, TypeGroups DEF RefInv, LeakInv, TypeData, TypeSnap, PendingBacked, EnabledNext, SwitchOn, StaleEmpty, NoPendingInSwitch, LeakFree, Believed, DisablePrev
  <2> QED
    BY <1>0, <2>cur, <2>retry, <2>rest, <2>sw, <2>next, <2>backed DEF RefInv
<1>4. CASE r = "ENOTCONN"
  <2>1. /\ halRates' = halRates
        /\ prevRate' = 0 /\ pendingPrevRate' = 0
        /\ rc' = "ENOTCONN" /\ pc' = "Retry"
    BY <1>1, <1>4 DEF ResetOnNotConn
  <2>cur. SnapCurrent'
    BY <1>r, <1>1, <1>4, <2>1, TypeGroups DEF RefInv, LeakInv, TypeData, TypeSnap, SnapCurrent, DisablePrev
  <2>retry. PendingRetried'
    BY <1>r, <1>1, <1>4, <2>1, TypeGroups DEF RefInv, LeakInv, TypeData, TypeSnap, PendingRetried, SnapCurrent, DisablePrev
  <2>rest. RestIdle'
    BY <1>r, <1>1, <1>4, <2>1, TypeGroups DEF RefInv, LeakInv, TypeData, TypeSnap, RestIdle, AtRest, DisablePrev
  <2>sw. SwitchOn'
    BY <1>r, <1>1, <1>4, <2>1, TypeGroups DEF RefInv, LeakInv, TypeData, TypeSnap, SwitchOn, DisablePrev
  <2>next. EnabledNext'
    BY <1>r, <1>1, <1>4, <2>1, TypeGroups DEF RefInv, LeakInv, TypeData, TypeSnap, EnabledNext, SwitchOn, StaleEmpty, DisablePrev
  <2>backed. PendingBacked'
    BY <1>r, <1>1, <1>4, <2>1, TypeGroups DEF RefInv, LeakInv, TypeData, TypeSnap, PendingBacked, EnabledNext, SwitchOn, StaleEmpty, NoPendingInSwitch, LeakFree, Believed, DisablePrev
  <2> QED
    BY <1>0, <2>cur, <2>retry, <2>rest, <2>sw, <2>next, <2>backed DEF RefInv
<1> QED
  BY <1>1, <1>2, <1>3, <1>4


\* Every step of the worker, the callers and the environment keeps RefInv.
LEMMA NextRefInv ==
  ASSUME RatesNonZero, RefInv, [Next]_vars
  PROVE  RefInv'
<1>1. CASE Worker
  BY <1>1, TopRefInv, ResumeRefInv, IdleCheckRefInv, IdleSendRefInv,
     PendingRefInv, ModeRefInv, EnableRefInv, DisablePrevRefInv,
     RetryRefInv DEF Worker
<1>2. CASE \E m \in Modes, p \in Periods : SetPowerMode(m, p)
  BY <1>2, SetPowerModeRefInv
<1>3. CASE SignalIdle
  BY <1>3, SignalIdleRefInv
<1>4. CASE Tick \/ HalCrash \/ HalRestart
  BY <1>4, EnvRefInv
<1>5. CASE UNCHANGED vars
  BY <1>5, StutterRefInv
<1> QED
  BY <1>1, <1>2, <1>3, <1>4, <1>5 DEF Next

LEMMA RefInvAlways == ASSUME RatesNonZero PROVE Spec => []RefInv
<1>1. Init => RefInv
  BY InitRefInv
<1>2. RefInv /\ [Next]_vars => RefInv'
  BY NextRefInv
<1> QED
  BY <1>1, <1>2, PTL DEF Spec

\* A subset of a singleton holds at most one element.
LEMMA AtMostOne ==
  ASSUME NEW S, NEW x, S \subseteq {x}
  PROVE  Cardinality(S) <= 1
<1>1. IsFiniteSet({x}) /\ Cardinality({x}) = 1
  BY FS_Singleton
<1> QED
  BY <1>1, FS_Subset

\* While the worker waits, no update is requested, so the snapshot is the
\* locked power mode; if that is On no pending hint is left, and the HAL
\* holds at most the worker's current hint.
LEMMA RefInvNoTwo == RefInv => NoTwoHintsWhileOn
<1> SUFFICES ASSUME RefInv, AtRest, powerMode = "On"
             PROVE  Cardinality(halRates) <= 1
  BY DEF NoTwoHintsWhileOn
<1>1. ~needUpdate /\ snap.mode = "On"
  BY DEF RefInv, RestIdle, SnapCurrent
<1>2. pendingPrevRate = 0
  BY <1>1 DEF RefInv, PendingRetried, AtRest
<1>3. halRates \subseteq {prevRate}
  BY <1>2 DEF RefInv, LeakInv, LeakFree, Believed, AtRest
<1> QED
  BY <1>3, AtMostOne

\* NoTwoHints: with the display On, the worker never waits while the Power
\* HAL holds two REFRESH_<r>FPS modes: a pending hint left by a failed
\* disable (242-250) is retried (353-360, 201-208) before Routine waits
\* again (323-330), whatever the HAL calls return and however the callers
\* and HAL crashes interleave.
THEOREM NoTwoHints ==
  ASSUME RatesNonZero
  PROVE  Spec => []NoTwoHintsWhileOn
<1>1. RefInv => NoTwoHintsWhileOn
  BY RefInvNoTwo
<1> QED
  BY <1>1, RefInvAlways, PTL

-----------------------------------------------------------------------------
(* The refinement: each step of PowerHint is a step of RateHints under     *)
(* hints <- halRates, displayOn <- (snap.mode = "On"), halAlive <- halUp,   *)
(* or leaves the three unchanged.                                          *)

\* Steps that touch neither the HAL's rate modes, nor its liveness, nor the
\* snapshot's mode.
LEMMA QuietSteps ==
  ASSUME Retry \/ IdleCheck \/ IdleSend \/ SignalIdle \/ Tick
           \/ (\E m \in Modes, p \in Periods : SetPowerMode(m, p))
           \/ UNCHANGED vars
  PROVE  UNCHANGED Abstract!vars
<1>1. CASE Retry \/ SignalIdle \/ Tick
  BY <1>1 DEF Retry, SignalIdle, Tick, Abstract!vars
<1>2. CASE IdleCheck \/ IdleSend
  BY <1>2 DEF IdleCheck, IdleSend, Abstract!vars
<1>3. CASE \E m \in Modes, p \in Periods : SetPowerMode(m, p)
  BY <1>3 DEF SetPowerMode, Abstract!vars
<1>4. CASE UNCHANGED vars
  BY <1>4 DEF vars, Abstract!vars
<1> QED
  BY <1>1, <1>2, <1>3, <1>4

\* The snapshot (336-348) is RateHints' request for the display's state.
LEMMA SnapshotStep ==
  ASSUME Top \/ Resume
  PROVE  [Abstract!Next]_Abstract!vars
<1>1. UNCHANGED <<halRates, halUp>>
  BY DEF Top, Resume
<1>2. (snap'.mode = "On") \in BOOLEAN
  OBVIOUS
<1>3. Abstract!Request(snap'.mode = "On")
  BY <1>1 DEF Abstract!Request
<1> QED
  BY <1>2, <1>3 DEF Abstract!Next

\* The HAL's crash forgets every hint; its restart brings it back empty.
LEMMA HalSteps ==
  ASSUME HalCrash \/ HalRestart
  PROVE  [Abstract!Next]_Abstract!vars
<1>1. CASE HalCrash
  <2>1. Abstract!Forget
    BY <1>1 DEF HalCrash, Abstract!Forget
  <2> QED
    BY <2>1 DEF Abstract!Next
<1>2. CASE HalRestart
  <2>1. Abstract!Restart
    BY <1>2 DEF HalRestart, Abstract!Restart
  <2> QED
    BY <2>1 DEF Abstract!Next
<1> QED
  BY <1>1, <1>2

\* A successful call reached a live Power HAL.
LEMMA OkMeansUp ==
  ASSUME NEW r \in CallResults, r = "OK"
  PROVE  halUp /\ handle # "stale"
OBVIOUS

\* The disable of the pending hint (201-208) disables a hint beside which
\* the current one stays enabled.
LEMMA PendingStep ==
  ASSUME RatesNonZero, RefInv, Pending
  PROVE  [Abstract!Next]_Abstract!vars
<1>1. PICK r \in CallResults :
        /\ halRates' = IF r = "OK" THEN halRates \ {pendingPrevRate} ELSE halRates
        /\ UNCHANGED <<snap, halUp>>
  BY DEF Pending
<1>2. CASE r = "OK" /\ pendingPrevRate \in halRates
  <2>1. halUp /\ prevRate \in halRates /\ prevRate # pendingPrevRate
    BY <1>1, <1>2, OkMeansUp DEF RefInv, PendingBacked
  <2>2. Abstract!DisableHint(pendingPrevRate)
    BY <1>1, <1>2, <2>1 DEF Abstract!DisableHint
  <2>3. pendingPrevRate \in Rates
    BY <1>2 DEF RefInv, LeakInv, TypeOK
  <2> QED
    BY <2>2, <2>3 DEF Abstract!Next
<1>3. CASE ~(r = "OK" /\ pendingPrevRate \in halRates)
  BY <1>1, <1>3 DEF Abstract!vars
<1> QED
  BY <1>2, <1>3

\* updateRefreshRateHintInternal's disable while not On (209-216).
LEMMA ModeStep ==
  ASSUME RatesNonZero, RefInv, Mode
  PROVE  [Abstract!Next]_Abstract!vars
<1>0. UNCHANGED <<snap, halUp>>
  BY DEF Mode
<1>1. CASE snap.mode # "On" /\ prevRate # 0
  <2>1. PICK r \in CallResults :
          halRates' = IF r = "OK" THEN halRates \ {prevRate} ELSE halRates
    BY <1>1 DEF Mode
  <2>2. CASE r = "OK" /\ prevRate \in halRates
    <3>1. halUp
      BY <2>1, <2>2, OkMeansUp
    <3>2. Abstract!DisableHint(prevRate)
      BY <1>0, <1>1, <2>1, <2>2, <3>1 DEF Abstract!DisableHint
    <3>3. prevRate \in Rates
      BY <2>2 DEF RefInv, LeakInv, TypeOK
    <3> QED
      BY <3>2, <3>3 DEF Abstract!Next
  <2>3. CASE ~(r = "OK" /\ prevRate \in halRates)
    BY <1>0, <2>1, <2>3 DEF Abstract!vars
  <2> QED
    BY <2>2, <2>3
<1>2. CASE ~(snap.mode # "On" /\ prevRate # 0)
  <2>1. UNCHANGED halRates
    BY <1>2 DEF Mode, CheckRefreshRateHintSupport
  <2> QED
    BY <1>0, <2>1 DEF Abstract!vars
<1> QED
  BY <1>1, <1>2

\* The enable of the next hint (232-241) happens with at most the current
\* hint enabled: the pending one was disabled before the switch began.
LEMMA EnableStep ==
  ASSUME RatesNonZero, RefInv, Enable
  PROVE  [Abstract!Next]_Abstract!vars
<1> DEFINE rate == RefreshRate(snap.period)
<1>0. rate \in Rates
  BY RateInRates DEF RefInv, LeakInv, TypeOK, TypeSnap
<1>1. PICK r \in CallResults :
        /\ halRates' = IF r = "OK" THEN halRates \cup {rate} ELSE halRates
        /\ UNCHANGED <<snap, halUp>>
  BY DEF Enable
<1>2. CASE r = "OK" /\ rate \notin halRates
  <2>1. halRates \subseteq {prevRate}
    BY DEF RefInv, LeakInv, LeakFree, Believed, NoPendingInSwitch, Enable
  <2>2. Cardinality(halRates) <= 1
    BY <2>1, AtMostOne
  <2>3. halUp
    BY <1>1, <1>2, OkMeansUp
  <2>4. Abstract!Cardinality(halRates) <= 1
    BY <2>2 DEF Abstract!Cardinality, Cardinality
  <2>5. Abstract!EnableHint(rate)
    BY <1>1, <1>2, <2>3, <2>4 DEF Abstract!EnableHint
  <2> QED
    BY <1>0, <2>5 DEF Abstract!Next
<1>3. CASE ~(r = "OK" /\ rate \notin halRates)
  BY <1>1, <1>3 DEF Abstract!vars
<1> QED
  BY <1>2, <1>3

\* The disable of the previous hint (242-254) leaves the next one enabled.
LEMMA DisablePrevStep ==
  ASSUME RatesNonZero, RefInv, DisablePrev
  PROVE  [Abstract!Next]_Abstract!vars
<1> DEFINE rate == RefreshRate(snap.period)
<1>1. PICK r \in CallResults :
        /\ halRates' = IF r = "OK" THEN halRates \ {prevRate} ELSE halRates
        /\ UNCHANGED <<snap, halUp>>
  BY DEF DisablePrev
<1>2. CASE r = "OK" /\ prevRate \in halRates
  <2>1. halUp /\ handle # "stale"
    BY <1>1, <1>2, OkMeansUp
  <2>2. rate \in halRates /\ rate # prevRate
    BY <2>1 DEF RefInv, EnabledNext, SwitchOn, DisablePrev
  <2>3. Abstract!DisableHint(prevRate)
    BY <1>1, <1>2, <2>1, <2>2 DEF Abstract!DisableHint
  <2>4. prevRate \in Rates
    BY <1>2 DEF RefInv, LeakInv, TypeOK
  <2> QED
    BY <2>3, <2>4 DEF Abstract!Next
<1>3. CASE ~(r = "OK" /\ prevRate \in halRates)
  BY <1>1, <1>3 DEF Abstract!vars
<1> QED
  BY <1>2, <1>3

\* Every step of PowerHint under RefInv is a step of RateHints or leaves
\* the mapped state unchanged.
LEMMA NextRefines ==
  ASSUME RatesNonZero, RefInv, [Next]_vars
  PROVE  [Abstract!Next]_Abstract!vars
<1>1. CASE Top \/ Resume
  BY <1>1, SnapshotStep
<1>2. CASE HalCrash \/ HalRestart
  BY <1>2, HalSteps
<1>3. CASE Pending
  BY <1>3, PendingStep
<1>4. CASE Mode
  BY <1>4, ModeStep
<1>5. CASE Enable
  BY <1>5, EnableStep
<1>6. CASE DisablePrev
  BY <1>6, DisablePrevStep
<1>7. CASE Retry \/ IdleCheck \/ IdleSend \/ SignalIdle \/ Tick
             \/ (\E m \in Modes, p \in Periods : SetPowerMode(m, p))
             \/ UNCHANGED vars
  BY <1>7, QuietSteps
<1> QED
  BY <1>1, <1>2, <1>3, <1>4, <1>5, <1>6, <1>7 DEF Next, Worker

\* PowerRefinesRateHints: PowerHalHintWorker's Power HAL calls
\* (updateRefreshRateHintInternal 198-257, sendRefreshRateHint 186-195),
\* with every result they can return, HAL crashes and restarts and the
\* callers' signals, implement RateHints: a hint is enabled only beside at
\* most one other, and while the snapshot is On a disable always leaves
\* another hint enabled.
THEOREM PowerRefinesRateHints ==
  ASSUME RatesNonZero
  PROVE  Spec => RefinesRateHints
<1>1. Init => Abstract!Init
  BY DEF Init, Abstract!Init
<1>2. RefInv /\ [Next]_vars => [Abstract!Next]_Abstract!vars
  BY NextRefines
<1> QED
  BY <1>1, <1>2, RefInvAlways, PTL DEF Spec, RefinesRateHints, Abstract!Spec
====
