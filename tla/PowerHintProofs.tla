-------------------------- MODULE PowerHintProofs --------------------------
(***************************************************************************)
(* Proofs about PowerHalHintWorker: the worker's bookkeeping never loses  *)
(* track of a refresh-rate hint the Power HAL holds, for every set of     *)
(* periods and rates and every bound on signals, faults and crashes.      *)
(***************************************************************************)
EXTENDS PowerHint, TLAPS

USE PowerAssumption

\* updateRefreshRateHintInternal's rounding (line 220) never gives a known
\* period the rate 0 that mPrevRefreshRate uses for "no hint"; this holds
\* when GetVsyncPeriod reports at most 200 ms.
RatesNonZero == 0 \notin Rates

\* TypeOK in groups by kind: the flags (for Zenon), the counters (for
\* SMT's arithmetic), the worker's data, and its snapshot.
TypeFlags ==
  /\ needUpdate \in BOOLEAN /\ idleChecked \in BOOLEAN /\ idleSupported \in BOOLEAN
  /\ idleEnabled \in BOOLEAN /\ halUp \in BOOLEAN /\ halIdle \in BOOLEAN

TypeCounters ==
  /\ deadline \in Nat /\ elapsed \in 0..deadline
  /\ signals \in 0..MaxSignals /\ faults \in 0..MaxFaults
  /\ crashes \in 0..MaxCrashes

TypeData ==
  /\ powerMode \in Modes \cup {"Off"}
  /\ vsyncPeriod \in Periods \ {0}
  /\ prevRate \in Rates \cup {0} /\ pendingPrevRate \in Rates \cup {0}
  /\ supportMap \in [Rates -> {"unknown", "yes", "no"}]
  /\ handle \in {"none", "live", "stale"}
  /\ pc \in Labels /\ rc \in Results
  /\ halRates \subseteq Rates

TypeSnap ==
  snap \in [need : BOOLEAN, gen : Nat, mode : Modes \cup {"Off"},
            period : Periods \ {0}]

LEMMA TypeGroups == TypeOK <=> TypeFlags /\ TypeCounters /\ TypeData /\ TypeSnap
BY DEF TypeOK, TypeFlags, TypeCounters, TypeData, TypeSnap

(***************************************************************************)
(* Why LeakFree is inductive. A binder handle to a dead server exists only *)
(* after a crash, which took every mode with it. Between the pending-hint  *)
(* disable and the end of a switch there is no pending hint, so the        *)
(* failed disable of 242-254 that makes the previous hint pending          *)
(* overwrites nothing.                                                    *)
(***************************************************************************)
StaleEmpty == handle = "stale" => halRates = {}

NoPendingInSwitch == pc \in {"Mode", "Enable", "DisablePrev"} => pendingPrevRate = 0

LeakInv == TypeOK /\ StaleEmpty /\ NoPendingInSwitch /\ LeakFree

-----------------------------------------------------------------------------
\* The rate of a snapshot's period is one of Rates.
LEMMA RateInRates ==
  ASSUME NEW p \in Periods \ {0}
  PROVE  RefreshRate(p) \in Rates
BY DEF Rates

\* The rounding of line 220 maps a known period to a nonzero rate of Rates.
LEMMA RateOfPeriod ==
  ASSUME RatesNonZero, NEW p \in Periods \ {0}
  PROVE  RefreshRate(p) \in Rates /\ RefreshRate(p) # 0
<1>1. RefreshRate(p) \in Rates
  BY RateInRates
<1> QED
  BY <1>1 DEF RatesNonZero

\* The constructor: no hint, no handle.
LEMMA InitLeakInv == Init => LeakInv
<1> SUFFICES ASSUME Init PROVE LeakInv
  OBVIOUS
<1>1. InitPeriod \in Periods \ {0}
  BY SMT DEF InitPeriod
<1>2. TypeFlags
  BY DEF Init, TypeFlags
<1>3. TypeCounters
  BY DEF Init, TypeCounters
<1>5. TypeData
  BY <1>1 DEF Init, TypeData, Labels, Results
<1>6. TypeSnap
  BY <1>1 DEF Init, TypeSnap
<1>4. StaleEmpty /\ NoPendingInSwitch /\ LeakFree
  BY DEF Init, StaleEmpty, NoPendingInSwitch, LeakFree
<1> QED
  BY <1>2, <1>3, <1>4, <1>5, <1>6 DEF LeakInv, TypeOK, TypeFlags, TypeCounters, TypeData, TypeSnap

USE DEF Labels, Results, Wake, HalCall, CallResults, Answer, Finish,
        lockedVars, workerVars, envVars

\* Routine's lock, wait decision and snapshot.
LEMMA TopLeakInv == LeakInv /\ Top => LeakInv'
<1> SUFFICES ASSUME LeakInv, Top PROVE LeakInv'
  OBVIOUS
<1>flags. TypeFlags'
  BY TypeGroups DEF LeakInv, TypeFlags, Top, TakeSnapshot, WaitsForever
<1>counters. TypeCounters'
  BY TypeGroups DEF LeakInv, TypeCounters, Top, TakeSnapshot, WaitsForever
<1>data. TypeData'
  BY TypeGroups DEF LeakInv, TypeData, Top, TakeSnapshot, WaitsForever
<1>snap. TypeSnap'
  BY TypeGroups DEF LeakInv, TypeFlags, TypeCounters, TypeData, TypeSnap, Top, TakeSnapshot, WaitsForever
<1>stale. StaleEmpty'
  BY TypeGroups DEF LeakInv, StaleEmpty, Top, TakeSnapshot, WaitsForever
<1>sw. NoPendingInSwitch'
  BY TypeGroups DEF LeakInv, NoPendingInSwitch, Top, TakeSnapshot, WaitsForever
<1>leak. LeakFree'
  BY TypeGroups DEF LeakInv, TypeData, TypeSnap, LeakFree, Believed, StaleEmpty, NoPendingInSwitch, Top, TakeSnapshot, WaitsForever
<1> QED
  BY <1>flags, <1>counters, <1>data, <1>snap, <1>stale, <1>sw, <1>leak DEF LeakInv, TypeOK, TypeFlags, TypeCounters, TypeData, TypeSnap

LEMMA ResumeLeakInv == LeakInv /\ Resume => LeakInv'
<1> SUFFICES ASSUME LeakInv, Resume PROVE LeakInv'
  OBVIOUS
<1>flags. TypeFlags'
  BY TypeGroups DEF LeakInv, TypeFlags, Resume, TakeSnapshot
<1>counters. TypeCounters'
  BY TypeGroups DEF LeakInv, TypeCounters, Resume, TakeSnapshot
<1>data. TypeData'
  BY TypeGroups DEF LeakInv, TypeData, Resume, TakeSnapshot
<1>snap. TypeSnap'
  BY TypeGroups DEF LeakInv, TypeFlags, TypeCounters, TypeData, TypeSnap, Resume, TakeSnapshot
<1>stale. StaleEmpty'
  BY TypeGroups DEF LeakInv, StaleEmpty, Resume, TakeSnapshot
<1>sw. NoPendingInSwitch'
  BY TypeGroups DEF LeakInv, NoPendingInSwitch, Resume, TakeSnapshot
<1>leak. LeakFree'
  BY TypeGroups DEF LeakInv, TypeData, TypeSnap, LeakFree, Believed, StaleEmpty, NoPendingInSwitch, Resume, TakeSnapshot
<1> QED
  BY <1>flags, <1>counters, <1>data, <1>snap, <1>stale, <1>sw, <1>leak DEF LeakInv, TypeOK, TypeFlags, TypeCounters, TypeData, TypeSnap

LEMMA RetryLeakInv == LeakInv /\ Retry => LeakInv'
<1> SUFFICES ASSUME LeakInv, Retry PROVE LeakInv'
  OBVIOUS
<1>flags. TypeFlags'
  BY TypeGroups DEF LeakInv, TypeFlags, Retry
<1>counters. TypeCounters'
  BY TypeGroups DEF LeakInv, TypeCounters, Retry
<1>data. TypeData'
  BY TypeGroups DEF LeakInv, TypeData, Retry
<1>snap. TypeSnap'
  BY TypeGroups DEF LeakInv, TypeFlags, TypeCounters, TypeData, TypeSnap, Retry
<1>stale. StaleEmpty'
  BY TypeGroups DEF LeakInv, StaleEmpty, Retry
<1>sw. NoPendingInSwitch'
  BY TypeGroups DEF LeakInv, NoPendingInSwitch, Retry
<1>leak. LeakFree'
  BY TypeGroups DEF LeakInv, TypeData, TypeSnap, LeakFree, Believed, StaleEmpty, NoPendingInSwitch, Retry
<1> QED
  BY <1>flags, <1>counters, <1>data, <1>snap, <1>stale, <1>sw, <1>leak DEF LeakInv, TypeOK, TypeFlags, TypeCounters, TypeData, TypeSnap

\* The callers: signalRefreshRate and signalIdle touch no hint.
LEMMA SetPowerModeLeakInv ==
  ASSUME LeakInv, NEW m \in Modes, NEW p \in Periods, SetPowerMode(m, p) PROVE LeakInv'
<1>flags. TypeFlags'
  BY TypeGroups DEF LeakInv, TypeFlags, SetPowerMode, SignalRefreshRate
<1>counters. TypeCounters'
  BY TypeGroups DEF LeakInv, TypeCounters, SetPowerMode, SignalRefreshRate
<1>data. TypeData'
  BY TypeGroups DEF LeakInv, TypeData, SetPowerMode, SignalRefreshRate
<1>snap. TypeSnap'
  BY TypeGroups DEF LeakInv, TypeFlags, TypeCounters, TypeData, TypeSnap, SetPowerMode, SignalRefreshRate
<1>stale. StaleEmpty'
  BY TypeGroups DEF LeakInv, StaleEmpty, SetPowerMode, SignalRefreshRate
<1>sw. NoPendingInSwitch'
  BY TypeGroups DEF LeakInv, NoPendingInSwitch, SetPowerMode, SignalRefreshRate
<1>leak. LeakFree'
  BY TypeGroups DEF LeakInv, TypeData, TypeSnap, LeakFree, Believed, StaleEmpty, NoPendingInSwitch, SetPowerMode, SignalRefreshRate
<1> QED
  BY <1>flags, <1>counters, <1>data, <1>snap, <1>stale, <1>sw, <1>leak DEF LeakInv, TypeOK, TypeFlags, TypeCounters, TypeData, TypeSnap

LEMMA SignalIdleLeakInv == LeakInv /\ SignalIdle => LeakInv'
<1> SUFFICES ASSUME LeakInv, SignalIdle PROVE LeakInv'
  OBVIOUS
<1>flags. TypeFlags'
  BY TypeGroups DEF LeakInv, TypeFlags, SignalIdle
<1>counters. TypeCounters'
  BY TypeGroups DEF LeakInv, TypeCounters, SignalIdle
<1>data. TypeData'
  BY TypeGroups DEF LeakInv, TypeData, SignalIdle
<1>snap. TypeSnap'
  BY TypeGroups DEF LeakInv, TypeFlags, TypeCounters, TypeData, TypeSnap, SignalIdle
<1>stale. StaleEmpty'
  BY TypeGroups DEF LeakInv, StaleEmpty, SignalIdle
<1>sw. NoPendingInSwitch'
  BY TypeGroups DEF LeakInv, NoPendingInSwitch, SignalIdle
<1>leak. LeakFree'
  BY TypeGroups DEF LeakInv, TypeData, TypeSnap, LeakFree, Believed, StaleEmpty, NoPendingInSwitch, SignalIdle
<1> QED
  BY <1>flags, <1>counters, <1>data, <1>snap, <1>stale, <1>sw, <1>leak DEF LeakInv, TypeOK, TypeFlags, TypeCounters, TypeData, TypeSnap

\* Time, and the HAL's crash and restart.
LEMMA EnvLeakInv == LeakInv /\ (Tick \/ HalCrash \/ HalRestart) => LeakInv'
<1> SUFFICES ASSUME LeakInv, Tick \/ HalCrash \/ HalRestart PROVE LeakInv'
  OBVIOUS
<1>1. CASE Tick
  <2>flags. TypeFlags'
    BY <1>1, TypeGroups DEF LeakInv, TypeFlags, Tick
  <2>counters. TypeCounters'
    BY <1>1, TypeGroups DEF LeakInv, TypeCounters, Tick
  <2>data. TypeData'
    BY <1>1, TypeGroups DEF LeakInv, TypeData, Tick
  <2>snap. TypeSnap'
    BY <1>1, TypeGroups DEF LeakInv, TypeFlags, TypeCounters, TypeData, TypeSnap, Tick
  <2>stale. StaleEmpty'
    BY <1>1, TypeGroups DEF LeakInv, StaleEmpty, Tick
  <2>sw. NoPendingInSwitch'
    BY <1>1, TypeGroups DEF LeakInv, NoPendingInSwitch, Tick
  <2>leak. LeakFree'
    BY <1>1, TypeGroups DEF LeakInv, TypeData, TypeSnap, LeakFree, Believed, StaleEmpty, NoPendingInSwitch, Tick
  <2> QED
    BY <2>flags, <2>counters, <2>data, <2>snap, <2>stale, <2>sw, <2>leak DEF LeakInv, TypeOK, TypeFlags, TypeCounters, TypeData, TypeSnap
<1>2. CASE HalCrash
  <2>flags. TypeFlags'
    BY <1>2, TypeGroups DEF LeakInv, TypeFlags, HalCrash
  <2>counters. TypeCounters'
    BY <1>2, TypeGroups DEF LeakInv, TypeCounters, HalCrash
  <2>data. TypeData'
    BY <1>2, TypeGroups DEF LeakInv, TypeData, HalCrash
  <2>snap. TypeSnap'
    BY <1>2, TypeGroups DEF LeakInv, TypeFlags, TypeCounters, TypeData, TypeSnap, HalCrash
  <2>stale. StaleEmpty'
    BY <1>2, TypeGroups DEF LeakInv, StaleEmpty, HalCrash
  <2>sw. NoPendingInSwitch'
    BY <1>2, TypeGroups DEF LeakInv, NoPendingInSwitch, HalCrash
  <2>leak. LeakFree'
    BY <1>2, TypeGroups DEF LeakInv, TypeData, TypeSnap, LeakFree, Believed, StaleEmpty, NoPendingInSwitch, HalCrash
  <2> QED
    BY <2>flags, <2>counters, <2>data, <2>snap, <2>stale, <2>sw, <2>leak DEF LeakInv, TypeOK, TypeFlags, TypeCounters, TypeData, TypeSnap
<1>3. CASE HalRestart
  <2>flags. TypeFlags'
    BY <1>3, TypeGroups DEF LeakInv, TypeFlags, HalRestart
  <2>counters. TypeCounters'
    BY <1>3, TypeGroups DEF LeakInv, TypeCounters, HalRestart
  <2>data. TypeData'
    BY <1>3, TypeGroups DEF LeakInv, TypeData, HalRestart
  <2>snap. TypeSnap'
    BY <1>3, TypeGroups DEF LeakInv, TypeFlags, TypeCounters, TypeData, TypeSnap, HalRestart
  <2>stale. StaleEmpty'
    BY <1>3, TypeGroups DEF LeakInv, StaleEmpty, HalRestart
  <2>sw. NoPendingInSwitch'
    BY <1>3, TypeGroups DEF LeakInv, NoPendingInSwitch, HalRestart
  <2>leak. LeakFree'
    BY <1>3, TypeGroups DEF LeakInv, TypeData, TypeSnap, LeakFree, Believed, StaleEmpty, NoPendingInSwitch, HalRestart
  <2> QED
    BY <2>flags, <2>counters, <2>data, <2>snap, <2>stale, <2>sw, <2>leak DEF LeakInv, TypeOK, TypeFlags, TypeCounters, TypeData, TypeSnap
<1> QED
  BY <1>1, <1>2, <1>3

LEMMA StutterLeakInv == LeakInv /\ UNCHANGED vars => LeakInv'
<1> SUFFICES ASSUME LeakInv, UNCHANGED vars PROVE LeakInv'
  OBVIOUS
<1>flags. TypeFlags'
  BY TypeGroups DEF LeakInv, TypeFlags, vars, lockedVars, workerVars, envVars
<1>counters. TypeCounters'
  BY TypeGroups DEF LeakInv, TypeCounters, vars, lockedVars, workerVars, envVars
<1>data. TypeData'
  BY TypeGroups DEF LeakInv, TypeData, vars, lockedVars, workerVars, envVars
<1>snap. TypeSnap'
  BY TypeGroups DEF LeakInv, TypeFlags, TypeCounters, TypeData, TypeSnap, vars, lockedVars, workerVars, envVars
<1>stale. StaleEmpty'
  BY TypeGroups DEF LeakInv, StaleEmpty, vars, lockedVars, workerVars, envVars
<1>sw. NoPendingInSwitch'
  BY TypeGroups DEF LeakInv, NoPendingInSwitch, vars, lockedVars, workerVars, envVars
<1>leak. LeakFree'
  BY TypeGroups DEF LeakInv, TypeData, TypeSnap, LeakFree, Believed, StaleEmpty, NoPendingInSwitch, vars, lockedVars, workerVars, envVars
<1> QED
  BY <1>flags, <1>counters, <1>data, <1>snap, <1>stale, <1>sw, <1>leak DEF LeakInv, TypeOK, TypeFlags, TypeCounters, TypeData, TypeSnap

\* checkIdleHintSupport and its cached answer touch no rate hint.
LEMMA IdleCheckLeakInv == LeakInv /\ IdleCheck => LeakInv'
<1> SUFFICES ASSUME LeakInv, IdleCheck PROVE LeakInv'
  OBVIOUS
<1>1. CASE idleChecked
  <2>flags. TypeFlags'
    BY <1>1, TypeGroups DEF LeakInv, TypeFlags, IdleCheck, RateEntry
  <2>counters. TypeCounters'
    BY <1>1, TypeGroups DEF LeakInv, TypeCounters, IdleCheck, RateEntry
  <2>data. TypeData'
    BY <1>1, TypeGroups DEF LeakInv, TypeData, IdleCheck, RateEntry
  <2>snap. TypeSnap'
    BY <1>1, TypeGroups DEF LeakInv, TypeFlags, TypeCounters, TypeData, TypeSnap, IdleCheck, RateEntry
  <2>stale. StaleEmpty'
    BY <1>1, TypeGroups DEF LeakInv, StaleEmpty, IdleCheck, RateEntry
  <2>sw. NoPendingInSwitch'
    BY <1>1, TypeGroups DEF LeakInv, NoPendingInSwitch, IdleCheck, RateEntry
  <2>leak. LeakFree'
    BY <1>1, TypeGroups DEF LeakInv, TypeData, TypeSnap, LeakFree, Believed, StaleEmpty, NoPendingInSwitch, IdleCheck, RateEntry
  <2> QED
    BY <2>flags, <2>counters, <2>data, <2>snap, <2>stale, <2>sw, <2>leak DEF LeakInv, TypeOK, TypeFlags, TypeCounters, TypeData, TypeSnap
<1>2. CASE ~idleChecked
  <2>1. PICK r \in CallResults :
          /\ HalCall(r)
          /\ idleSupported' = (Answer(r, IdleSupported) = "OK")
          /\ idleChecked' = (Answer(r, IdleSupported) \in {"OK", "EOPNOTSUPP"})
          /\ pc' = IF Answer(r, IdleSupported) = "OK" THEN "IdleSend" ELSE RateEntry
    BY <1>2 DEF IdleCheck
  <2>flags. TypeFlags'
    BY <1>2, <2>1, TypeGroups DEF LeakInv, TypeFlags, IdleCheck, RateEntry
  <2>counters. TypeCounters'
    BY <1>2, <2>1, TypeGroups DEF LeakInv, TypeCounters, IdleCheck, RateEntry
  <2>data. TypeData'
    BY <1>2, <2>1, TypeGroups DEF LeakInv, TypeData, IdleCheck, RateEntry
  <2>snap. TypeSnap'
    BY <1>2, <2>1, TypeGroups DEF LeakInv, TypeFlags, TypeCounters, TypeData, TypeSnap, IdleCheck, RateEntry
  <2>stale. StaleEmpty'
    BY <1>2, <2>1, TypeGroups DEF LeakInv, StaleEmpty, IdleCheck, RateEntry
  <2>sw. NoPendingInSwitch'
    BY <1>2, <2>1, TypeGroups DEF LeakInv, NoPendingInSwitch, IdleCheck, RateEntry
  <2>leak. LeakFree'
    BY <1>2, <2>1, TypeGroups DEF LeakInv, TypeData, TypeSnap, LeakFree, Believed, StaleEmpty, NoPendingInSwitch, IdleCheck, RateEntry
  <2> QED
    BY <2>flags, <2>counters, <2>data, <2>snap, <2>stale, <2>sw, <2>leak DEF LeakInv, TypeOK, TypeFlags, TypeCounters, TypeData, TypeSnap
<1> QED
  BY <1>1, <1>2

\* updateIdleHint's DISPLAY_IDLE call touches no rate hint.
LEMMA IdleSendLeakInv == LeakInv /\ IdleSend => LeakInv'
<1> SUFFICES ASSUME LeakInv, IdleSend PROVE LeakInv'
  OBVIOUS
<1>1. CASE idleEnabled = (snap.gen <= elapsed)
  <2>flags. TypeFlags'
    BY <1>1, TypeGroups DEF LeakInv, TypeFlags, IdleSend, RateEntry
  <2>counters. TypeCounters'
    BY <1>1, TypeGroups DEF LeakInv, TypeCounters, IdleSend, RateEntry
  <2>data. TypeData'
    BY <1>1, TypeGroups DEF LeakInv, TypeData, IdleSend, RateEntry
  <2>snap. TypeSnap'
    BY <1>1, TypeGroups DEF LeakInv, TypeFlags, TypeCounters, TypeData, TypeSnap, IdleSend, RateEntry
  <2>stale. StaleEmpty'
    BY <1>1, TypeGroups DEF LeakInv, StaleEmpty, IdleSend, RateEntry
  <2>sw. NoPendingInSwitch'
    BY <1>1, TypeGroups DEF LeakInv, NoPendingInSwitch, IdleSend, RateEntry
  <2>leak. LeakFree'
    BY <1>1, TypeGroups DEF LeakInv, TypeData, TypeSnap, LeakFree, Believed, StaleEmpty, NoPendingInSwitch, IdleSend, RateEntry
  <2> QED
    BY <2>flags, <2>counters, <2>data, <2>snap, <2>stale, <2>sw, <2>leak DEF LeakInv, TypeOK, TypeFlags, TypeCounters, TypeData, TypeSnap
<1>2. CASE idleEnabled # (snap.gen <= elapsed)
  <2>1. PICK r \in CallResults :
          /\ HalCall(r)
          /\ halIdle' = IF r = "OK" THEN (snap.gen <= elapsed) ELSE halIdle
          /\ idleEnabled' = IF r = "OK" THEN (snap.gen <= elapsed) ELSE idleEnabled
    BY <1>2 DEF IdleSend
  <2>2. (snap.gen <= elapsed) \in BOOLEAN
    OBVIOUS
  <2>3. halIdle' \in BOOLEAN /\ idleEnabled' \in BOOLEAN
    BY <2>1, <2>2, Zenon DEF LeakInv, TypeOK
  <2>flags. TypeFlags'
    BY <1>2, <2>1, <2>3, TypeGroups DEF LeakInv, TypeFlags, IdleSend, RateEntry
  <2>counters. TypeCounters'
    BY <1>2, <2>1, <2>3, TypeGroups DEF LeakInv, TypeCounters, IdleSend, RateEntry
  <2>data. TypeData'
    BY <1>2, <2>1, <2>3, TypeGroups DEF LeakInv, TypeData, IdleSend, RateEntry
  <2>snap. TypeSnap'
    BY <1>2, <2>1, <2>3, TypeGroups DEF LeakInv, TypeFlags, TypeCounters, TypeData, TypeSnap, IdleSend, RateEntry
  <2>stale. StaleEmpty'
    BY <1>2, <2>1, <2>3, TypeGroups DEF LeakInv, StaleEmpty, IdleSend, RateEntry
  <2>sw. NoPendingInSwitch'
    BY <1>2, <2>1, <2>3, TypeGroups DEF LeakInv, NoPendingInSwitch, IdleSend, RateEntry
  <2>leak. LeakFree'
    BY <1>2, <2>1, <2>3, TypeGroups DEF LeakInv, TypeData, TypeSnap, LeakFree, Believed, StaleEmpty, NoPendingInSwitch, IdleSend, RateEntry
  <2> QED
    BY <2>flags, <2>counters, <2>data, <2>snap, <2>stale, <2>sw, <2>leak DEF LeakInv, TypeOK, TypeFlags, TypeCounters, TypeData, TypeSnap
<1> QED
  BY <1>1, <1>2

\* The disable of the pending hint (201-208): on success the pending hint
\* is gone from the HAL, on -ENOTCONN the HAL holds nothing.
LEMMA PendingLeakInv == LeakInv /\ Pending => LeakInv'
<1> SUFFICES ASSUME LeakInv, Pending PROVE LeakInv'
  OBVIOUS
<1>1. PICK r \in CallResults :
        /\ HalCall(r)
        /\ halRates' = IF r = "OK" THEN halRates \ {pendingPrevRate} ELSE halRates
        /\ IF r = "OK"
             THEN /\ pendingPrevRate' = 0 /\ prevRate' = prevRate
                  /\ pc' = "Mode" /\ rc' = rc
             ELSE /\ ResetOnNotConn(r, prevRate, pendingPrevRate)
                  /\ Finish(r)
  BY DEF Pending
<1>2. CASE r = "OK"
  <2>1. /\ halRates' = halRates \ {pendingPrevRate}
        /\ pendingPrevRate' = 0 /\ prevRate' = prevRate /\ pc' = "Mode" /\ rc' = rc
    BY <1>1, <1>2
  <2>flags. TypeFlags'
    BY <1>1, <1>2, <2>1, TypeGroups DEF LeakInv, TypeFlags, Pending
  <2>counters. TypeCounters'
    BY <1>1, <1>2, <2>1, TypeGroups DEF LeakInv, TypeCounters, Pending
  <2>data. TypeData'
    BY <1>1, <1>2, <2>1, TypeGroups DEF LeakInv, TypeData, Pending
  <2>snap. TypeSnap'
    BY <1>1, <1>2, <2>1, TypeGroups DEF LeakInv, TypeFlags, TypeCounters, TypeData, TypeSnap, Pending
  <2>stale. StaleEmpty'
    BY <1>1, <1>2, <2>1, TypeGroups DEF LeakInv, StaleEmpty, Pending
  <2>sw. NoPendingInSwitch'
    BY <1>1, <1>2, <2>1, TypeGroups DEF LeakInv, NoPendingInSwitch, Pending
  <2>leak. LeakFree'
    BY <1>1, <1>2, <2>1, TypeGroups DEF LeakInv, TypeData, TypeSnap, LeakFree, Believed, StaleEmpty, NoPendingInSwitch, Pending
  <2> QED
    BY <2>flags, <2>counters, <2>data, <2>snap, <2>stale, <2>sw, <2>leak DEF LeakInv, TypeOK, TypeFlags, TypeCounters, TypeData, TypeSnap
<1>3. CASE r # "OK"
  <2>1. /\ halRates' = halRates
        /\ prevRate' = IF r = "ENOTCONN" THEN 0 ELSE prevRate
        /\ pendingPrevRate' = IF r = "ENOTCONN" THEN 0 ELSE pendingPrevRate
        /\ rc' = r /\ pc' = "Retry"
    BY <1>1, <1>3 DEF ResetOnNotConn
  <2>flags. TypeFlags'
    BY <1>1, <1>3, <2>1, TypeGroups DEF LeakInv, TypeFlags, Pending
  <2>counters. TypeCounters'
    BY <1>1, <1>3, <2>1, TypeGroups DEF LeakInv, TypeCounters, Pending
  <2>data. TypeData'
    BY <1>1, <1>3, <2>1, TypeGroups DEF LeakInv, TypeData, Pending
  <2>snap. TypeSnap'
    BY <1>1, <1>3, <2>1, TypeGroups DEF LeakInv, TypeFlags, TypeCounters, TypeData, TypeSnap, Pending
  <2>stale. StaleEmpty'
    BY <1>1, <1>3, <2>1, TypeGroups DEF LeakInv, StaleEmpty, Pending
  <2>sw. NoPendingInSwitch'
    BY <1>1, <1>3, <2>1, TypeGroups DEF LeakInv, NoPendingInSwitch, Pending
  <2>leak. LeakFree'
    BY <1>1, <1>3, <2>1, TypeGroups DEF LeakInv, TypeData, TypeSnap, LeakFree, Believed, StaleEmpty, NoPendingInSwitch, Pending
  <2> QED
    BY <2>flags, <2>counters, <2>data, <2>snap, <2>stale, <2>sw, <2>leak DEF LeakInv, TypeOK, TypeFlags, TypeCounters, TypeData, TypeSnap
<1> QED
  BY <1>2, <1>3

\* updateRefreshRateHintInternal up to the support check (209-231).
LEMMA ModeLeakInv == LeakInv /\ Mode => LeakInv'
<1> SUFFICES ASSUME LeakInv, Mode PROVE LeakInv'
  OBVIOUS
<1> DEFINE rate == RefreshRate(snap.period)
<1>0. rate \in Rates
  BY RateInRates DEF LeakInv, TypeOK, TypeSnap
<1>1. CASE snap.mode # "On" /\ prevRate = 0
  <2>1. /\ Finish("OK")
        /\ UNCHANGED <<prevRate, pendingPrevRate, supportMap, halRates, handle, faults>>
    BY <1>1 DEF Mode
  <2>flags. TypeFlags'
    BY <1>1, <2>1, TypeGroups DEF LeakInv, TypeFlags, Mode
  <2>counters. TypeCounters'
    BY <1>1, <2>1, TypeGroups DEF LeakInv, TypeCounters, Mode
  <2>data. TypeData'
    BY <1>1, <2>1, TypeGroups DEF LeakInv, TypeData, Mode
  <2>snap. TypeSnap'
    BY <1>1, <2>1, TypeGroups DEF LeakInv, TypeFlags, TypeCounters, TypeData, TypeSnap, Mode
  <2>stale. StaleEmpty'
    BY <1>1, <2>1, TypeGroups DEF LeakInv, StaleEmpty, Mode
  <2>sw. NoPendingInSwitch'
    BY <1>1, <2>1, TypeGroups DEF LeakInv, NoPendingInSwitch, Mode
  <2>leak. LeakFree'
    BY <1>1, <2>1, TypeGroups DEF LeakInv, TypeData, TypeSnap, LeakFree, Believed, StaleEmpty, NoPendingInSwitch, Mode
  <2> QED
    BY <2>flags, <2>counters, <2>data, <2>snap, <2>stale, <2>sw, <2>leak DEF LeakInv, TypeOK, TypeFlags, TypeCounters, TypeData, TypeSnap
<1>2. CASE snap.mode # "On" /\ prevRate # 0
  <2>1. PICK r \in CallResults :
          /\ HalCall(r)
          /\ halRates' = IF r = "OK" THEN halRates \ {prevRate} ELSE halRates
          /\ ResetOnNotConn(r, IF r = "OK" THEN 0 ELSE prevRate, pendingPrevRate)
          /\ Finish(r)
          /\ UNCHANGED supportMap
    BY <1>2 DEF Mode
  <2>flags. TypeFlags'
    BY <1>2, <2>1, TypeGroups DEF LeakInv, TypeFlags, Mode, ResetOnNotConn
  <2>counters. TypeCounters'
    BY <1>2, <2>1, TypeGroups DEF LeakInv, TypeCounters, Mode, ResetOnNotConn
  <2>data. TypeData'
    BY <1>2, <2>1, TypeGroups DEF LeakInv, TypeData, Mode, ResetOnNotConn
  <2>snap. TypeSnap'
    BY <1>2, <2>1, TypeGroups DEF LeakInv, TypeFlags, TypeCounters, TypeData, TypeSnap, Mode, ResetOnNotConn
  <2>stale. StaleEmpty'
    BY <1>2, <2>1, TypeGroups DEF LeakInv, StaleEmpty, Mode, ResetOnNotConn
  <2>sw. NoPendingInSwitch'
    BY <1>2, <2>1, TypeGroups DEF LeakInv, NoPendingInSwitch, Mode, ResetOnNotConn
  <2>leak. LeakFree'
    BY <1>2, <2>1, TypeGroups DEF LeakInv, TypeData, TypeSnap, LeakFree, Believed, StaleEmpty, NoPendingInSwitch, Mode, ResetOnNotConn
  <2> QED
    BY <2>flags, <2>counters, <2>data, <2>snap, <2>stale, <2>sw, <2>leak DEF LeakInv, TypeOK, TypeFlags, TypeCounters, TypeData, TypeSnap
<1>3. CASE snap.mode = "On" /\ prevRate = rate
  <2>1. /\ Finish("OK")
        /\ UNCHANGED <<prevRate, pendingPrevRate, supportMap, halRates, handle, faults>>
    BY <1>3 DEF Mode
  <2>flags. TypeFlags'
    BY <1>3, <2>1, TypeGroups DEF LeakInv, TypeFlags, Mode
  <2>counters. TypeCounters'
    BY <1>3, <2>1, TypeGroups DEF LeakInv, TypeCounters, Mode
  <2>data. TypeData'
    BY <1>3, <2>1, TypeGroups DEF LeakInv, TypeData, Mode
  <2>snap. TypeSnap'
    BY <1>3, <2>1, TypeGroups DEF LeakInv, TypeFlags, TypeCounters, TypeData, TypeSnap, Mode
  <2>stale. StaleEmpty'
    BY <1>3, <2>1, TypeGroups DEF LeakInv, StaleEmpty, Mode
  <2>sw. NoPendingInSwitch'
    BY <1>3, <2>1, TypeGroups DEF LeakInv, NoPendingInSwitch, Mode
  <2>leak. LeakFree'
    BY <1>3, <2>1, TypeGroups DEF LeakInv, TypeData, TypeSnap, LeakFree, Believed, StaleEmpty, NoPendingInSwitch, Mode
  <2> QED
    BY <2>flags, <2>counters, <2>data, <2>snap, <2>stale, <2>sw, <2>leak DEF LeakInv, TypeOK, TypeFlags, TypeCounters, TypeData, TypeSnap
<1>4. CASE snap.mode = "On" /\ prevRate # rate
  <2>0. UNCHANGED <<prevRate, pendingPrevRate, halRates>>
    BY <1>4 DEF Mode
  <2>1. CASE supportMap[rate] = "yes"
    <3>1. pc' = "Enable" /\ UNCHANGED <<rc, supportMap, handle, faults>>
      BY <1>4, <2>1 DEF Mode, CheckRefreshRateHintSupport
    <3>flags. TypeFlags'
      BY <1>0, <2>0, <3>1, TypeGroups DEF LeakInv, TypeFlags, Mode
    <3>counters. TypeCounters'
      BY <1>0, <2>0, <3>1, TypeGroups DEF LeakInv, TypeCounters, Mode
    <3>data. TypeData'
      BY <1>0, <2>0, <3>1, TypeGroups DEF LeakInv, TypeData, Mode
    <3>snap. TypeSnap'
      BY <1>0, <2>0, <3>1, TypeGroups DEF LeakInv, TypeFlags, TypeCounters, TypeData, TypeSnap, Mode
    <3>stale. StaleEmpty'
      BY <1>0, <2>0, <3>1, TypeGroups DEF LeakInv, StaleEmpty, Mode
    <3>sw. NoPendingInSwitch'
      BY <1>0, <2>0, <3>1, TypeGroups DEF LeakInv, NoPendingInSwitch, Mode
    <3>leak. LeakFree'
      BY <1>0, <2>0, <3>1, TypeGroups DEF LeakInv, TypeData, TypeSnap, LeakFree, Believed, StaleEmpty, NoPendingInSwitch, Mode
    <3> QED
      BY <3>flags, <3>counters, <3>data, <3>snap, <3>stale, <3>sw, <3>leak DEF LeakInv, TypeOK, TypeFlags, TypeCounters, TypeData, TypeSnap
  <2>2. CASE supportMap[rate] = "no"
    <3>1. Finish("EOPNOTSUPP") /\ UNCHANGED <<supportMap, handle, faults>>
      BY <1>4, <2>2 DEF Mode, CheckRefreshRateHintSupport
    <3>flags. TypeFlags'
      BY <1>0, <2>0, <3>1, TypeGroups DEF LeakInv, TypeFlags, Mode
    <3>counters. TypeCounters'
      BY <1>0, <2>0, <3>1, TypeGroups DEF LeakInv, TypeCounters, Mode
    <3>data. TypeData'
      BY <1>0, <2>0, <3>1, TypeGroups DEF LeakInv, TypeData, Mode
    <3>snap. TypeSnap'
      BY <1>0, <2>0, <3>1, TypeGroups DEF LeakInv, TypeFlags, TypeCounters, TypeData, TypeSnap, Mode
    <3>stale. StaleEmpty'
      BY <1>0, <2>0, <3>1, TypeGroups DEF LeakInv, StaleEmpty, Mode
    <3>sw. NoPendingInSwitch'
      BY <1>0, <2>0, <3>1, TypeGroups DEF LeakInv, NoPendingInSwitch, Mode
    <3>leak. LeakFree'
      BY <1>0, <2>0, <3>1, TypeGroups DEF LeakInv, TypeData, TypeSnap, LeakFree, Believed, StaleEmpty, NoPendingInSwitch, Mode
    <3> QED
      BY <3>flags, <3>counters, <3>data, <3>snap, <3>stale, <3>sw, <3>leak DEF LeakInv, TypeOK, TypeFlags, TypeCounters, TypeData, TypeSnap
  <2>3. CASE supportMap[rate] = "unknown"
    <3>1. PICK r \in CallResults :
            /\ HalCall(r)
            /\ supportMap' = IF Answer(r, rate \in RateSupported) \in {"OK", "EOPNOTSUPP"}
                               THEN [supportMap EXCEPT ![rate] =
                                       IF Answer(r, rate \in RateSupported) = "OK"
                                         THEN "yes" ELSE "no"]
                               ELSE supportMap
            /\ IF Answer(r, rate \in RateSupported) = "OK"
                 THEN pc' = "Enable" /\ UNCHANGED rc
                 ELSE Finish(Answer(r, rate \in RateSupported))
      BY <1>4, <2>3 DEF Mode, CheckRefreshRateHintSupport
    <3>flags. TypeFlags'
      BY <1>0, <2>0, <3>1, TypeGroups DEF LeakInv, TypeFlags, Mode
    <3>counters. TypeCounters'
      BY <1>0, <2>0, <3>1, TypeGroups DEF LeakInv, TypeCounters, Mode
    <3>data. TypeData'
      BY <1>0, <2>0, <3>1, TypeGroups DEF LeakInv, TypeData, Mode
    <3>snap. TypeSnap'
      BY <1>0, <2>0, <3>1, TypeGroups DEF LeakInv, TypeFlags, TypeCounters, TypeData, TypeSnap, Mode
    <3>stale. StaleEmpty'
      BY <1>0, <2>0, <3>1, TypeGroups DEF LeakInv, StaleEmpty, Mode
    <3>sw. NoPendingInSwitch'
      BY <1>0, <2>0, <3>1, TypeGroups DEF LeakInv, NoPendingInSwitch, Mode
    <3>leak. LeakFree'
      BY <1>0, <2>0, <3>1, TypeGroups DEF LeakInv, TypeData, TypeSnap, LeakFree, Believed, StaleEmpty, NoPendingInSwitch, Mode
    <3> QED
      BY <3>flags, <3>counters, <3>data, <3>snap, <3>stale, <3>sw, <3>leak DEF LeakInv, TypeOK, TypeFlags, TypeCounters, TypeData, TypeSnap
  <2> QED
    BY <1>0, <2>1, <2>2, <2>3, TypeGroups DEF LeakInv, TypeData
<1> QED
  BY <1>1, <1>2, <1>3, <1>4

\* Enabling the new hint (232-241): on success it is believed, as the rate
\* to switch to while the previous one is still to be disabled, or as the
\* previous rate itself; both need the rounded rate to be a real one.
LEMMA EnableLeakInv ==
  ASSUME RatesNonZero, LeakInv, Enable
  PROVE  LeakInv'
<1> DEFINE rate == RefreshRate(snap.period)
<1>0. rate \in Rates /\ rate # 0
  BY RateOfPeriod DEF LeakInv, TypeOK, TypeSnap
<1>1. PICK r \in CallResults :
        /\ HalCall(r)
        /\ halRates' = IF r = "OK" THEN halRates \cup {rate} ELSE halRates
        /\ IF r = "OK" /\ prevRate # 0
             THEN pc' = "DisablePrev" /\ UNCHANGED <<prevRate, pendingPrevRate, rc>>
             ELSE /\ ResetOnNotConn(r, IF r = "OK" THEN rate ELSE prevRate,
                                    pendingPrevRate)
                  /\ Finish(r)
  BY DEF Enable
<1>2. CASE r = "OK" /\ prevRate # 0
  <2>1. /\ halRates' = halRates \cup {rate}
        /\ pc' = "DisablePrev" /\ UNCHANGED <<prevRate, pendingPrevRate, rc>>
    BY <1>1, <1>2
  <2>flags. TypeFlags'
    BY <1>0, <1>1, <1>2, <2>1, TypeGroups DEF LeakInv, TypeFlags, Enable
  <2>counters. TypeCounters'
    BY <1>0, <1>1, <1>2, <2>1, TypeGroups DEF LeakInv, TypeCounters, Enable
  <2>data. TypeData'
    BY <1>0, <1>1, <1>2, <2>1, TypeGroups DEF LeakInv, TypeData, Enable
  <2>snap. TypeSnap'
    BY <1>0, <1>1, <1>2, <2>1, TypeGroups DEF LeakInv, TypeFlags, TypeCounters, TypeData, TypeSnap, Enable
  <2>stale. StaleEmpty'
    BY <1>0, <1>1, <1>2, <2>1, TypeGroups DEF LeakInv, StaleEmpty, Enable
  <2>sw. NoPendingInSwitch'
    BY <1>0, <1>1, <1>2, <2>1, TypeGroups DEF LeakInv, NoPendingInSwitch, Enable
  <2>leak. LeakFree'
    BY <1>0, <1>1, <1>2, <2>1, TypeGroups DEF LeakInv, TypeData, TypeSnap, LeakFree, Believed, StaleEmpty, NoPendingInSwitch, Enable
  <2> QED
    BY <2>flags, <2>counters, <2>data, <2>snap, <2>stale, <2>sw, <2>leak DEF LeakInv, TypeOK, TypeFlags, TypeCounters, TypeData, TypeSnap
<1>3. CASE r = "OK" /\ prevRate = 0
  <2>1. /\ halRates' = halRates \cup {rate}
        /\ prevRate' = rate /\ pendingPrevRate' = pendingPrevRate
        /\ rc' = "OK" /\ pc' = "Top"
    BY <1>1, <1>3 DEF ResetOnNotConn
  <2>flags. TypeFlags'
    BY <1>0, <1>1, <1>3, <2>1, TypeGroups DEF LeakInv, TypeFlags, Enable
  <2>counters. TypeCounters'
    BY <1>0, <1>1, <1>3, <2>1, TypeGroups DEF LeakInv, TypeCounters, Enable
  <2>data. TypeData'
    BY <1>0, <1>1, <1>3, <2>1, TypeGroups DEF LeakInv, TypeData, Enable
  <2>snap. TypeSnap'
    BY <1>0, <1>1, <1>3, <2>1, TypeGroups DEF LeakInv, TypeFlags, TypeCounters, TypeData, TypeSnap, Enable
  <2>stale. StaleEmpty'
    BY <1>0, <1>1, <1>3, <2>1, TypeGroups DEF LeakInv, StaleEmpty, Enable
  <2>sw. NoPendingInSwitch'
    BY <1>0, <1>1, <1>3, <2>1, TypeGroups DEF LeakInv, NoPendingInSwitch, Enable
  <2>leak. LeakFree'
    BY <1>0, <1>1, <1>3, <2>1, TypeGroups DEF LeakInv, TypeData, TypeSnap, LeakFree, Believed, StaleEmpty, NoPendingInSwitch, Enable
  <2> QED
    BY <2>flags, <2>counters, <2>data, <2>snap, <2>stale, <2>sw, <2>leak DEF LeakInv, TypeOK, TypeFlags, TypeCounters, TypeData, TypeSnap
<1>4. CASE r # "OK"
  <2>1. /\ halRates' = halRates
        /\ prevRate' = IF r = "ENOTCONN" THEN 0 ELSE prevRate
        /\ pendingPrevRate' = IF r = "ENOTCONN" THEN 0 ELSE pendingPrevRate
        /\ rc' = r /\ pc' = "Retry"
    BY <1>1, <1>4 DEF ResetOnNotConn
  <2>flags. TypeFlags'
    BY <1>0, <1>1, <1>4, <2>1, TypeGroups DEF LeakInv, TypeFlags, Enable
  <2>counters. TypeCounters'
    BY <1>0, <1>1, <1>4, <2>1, TypeGroups DEF LeakInv, TypeCounters, Enable
  <2>data. TypeData'
    BY <1>0, <1>1, <1>4, <2>1, TypeGroups DEF LeakInv, TypeData, Enable
  <2>snap. TypeSnap'
    BY <1>0, <1>1, <1>4, <2>1, TypeGroups DEF LeakInv, TypeFlags, TypeCounters, TypeData, TypeSnap, Enable
  <2>stale. StaleEmpty'
    BY <1>0, <1>1, <1>4, <2>1, TypeGroups DEF LeakInv, StaleEmpty, Enable
  <2>sw. NoPendingInSwitch'
    BY <1>0, <1>1, <1>4, <2>1, TypeGroups DEF LeakInv, NoPendingInSwitch, Enable
  <2>leak. LeakFree'
    BY <1>0, <1>1, <1>4, <2>1, TypeGroups DEF LeakInv, TypeData, TypeSnap, LeakFree, Believed, StaleEmpty, NoPendingInSwitch, Enable
  <2> QED
    BY <2>flags, <2>counters, <2>data, <2>snap, <2>stale, <2>sw, <2>leak DEF LeakInv, TypeOK, TypeFlags, TypeCounters, TypeData, TypeSnap
<1> QED
  BY <1>2, <1>3, <1>4

\* Disabling the previous hint (242-254): on success it is forgotten, on
\* -EINVAL it is kept as the pending hint, on -ENOTCONN the HAL holds none.
LEMMA DisablePrevLeakInv ==
  ASSUME RatesNonZero, LeakInv, DisablePrev
  PROVE  LeakInv'
<1> DEFINE rate == RefreshRate(snap.period)
<1>0. rate \in Rates /\ rate # 0
  BY RateOfPeriod DEF LeakInv, TypeOK, TypeSnap
<1>1. PICK r \in CallResults :
        /\ HalCall(r)
        /\ halRates' = IF r = "OK" THEN halRates \ {prevRate} ELSE halRates
        /\ ResetOnNotConn(r, rate, IF r = "EINVAL" THEN prevRate ELSE pendingPrevRate)
        /\ Finish(r)
  BY DEF DisablePrev
<1>2. CASE r = "OK"
  <2>1. /\ halRates' = halRates \ {prevRate}
        /\ prevRate' = rate /\ pendingPrevRate' = pendingPrevRate
        /\ rc' = "OK" /\ pc' = "Top"
    BY <1>1, <1>2 DEF ResetOnNotConn
  <2>flags. TypeFlags'
    BY <1>0, <1>1, <1>2, <2>1, TypeGroups DEF LeakInv, TypeFlags, DisablePrev
  <2>counters. TypeCounters'
    BY <1>0, <1>1, <1>2, <2>1, TypeGroups DEF LeakInv, TypeCounters, DisablePrev
  <2>data. TypeData'
    BY <1>0, <1>1, <1>2, <2>1, TypeGroups DEF LeakInv, TypeData, DisablePrev
  <2>snap. TypeSnap'
    BY <1>0, <1>1, <1>2, <2>1, TypeGroups DEF LeakInv, TypeFlags, TypeCounters, TypeData, TypeSnap, DisablePrev
  <2>stale. StaleEmpty'
    BY <1>0, <1>1, <1>2, <2>1, TypeGroups DEF LeakInv, StaleEmpty, DisablePrev
  <2>sw. NoPendingInSwitch'
    BY <1>0, <1>1, <1>2, <2>1, TypeGroups DEF LeakInv, NoPendingInSwitch, DisablePrev
  <2>leak. LeakFree'
    BY <1>0, <1>1, <1>2, <2>1, TypeGroups DEF LeakInv, TypeData, TypeSnap, LeakFree, Believed, StaleEmpty, NoPendingInSwitch, DisablePrev
  <2> QED
    BY <2>flags, <2>counters, <2>data, <2>snap, <2>stale, <2>sw, <2>leak DEF LeakInv, TypeOK, TypeFlags, TypeCounters, TypeData, TypeSnap
<1>3. CASE r = "EINVAL"
  <2>1. /\ halRates' = halRates
        /\ prevRate' = rate /\ pendingPrevRate' = prevRate
        /\ rc' = "EINVAL" /\ pc' = "Retry"
    BY <1>1, <1>3 DEF ResetOnNotConn
  <2>flags. TypeFlags'
    BY <1>0, <1>1, <1>3, <2>1, TypeGroups DEF LeakInv, TypeFlags, DisablePrev
  <2>counters. TypeCounters'
    BY <1>0, <1>1, <1>3, <2>1, TypeGroups DEF LeakInv, TypeCounters, DisablePrev
  <2>data. TypeData'
    BY <1>0, <1>1, <1>3, <2>1, TypeGroups DEF LeakInv, TypeData, DisablePrev
  <2>snap. TypeSnap'
    BY <1>0, <1>1, <1>3, <2>1, TypeGroups DEF LeakInv, TypeFlags, TypeCounters, TypeData, TypeSnap, DisablePrev
  <2>stale. StaleEmpty'
    BY <1>0, <1>1, <1>3, <2>1, TypeGroups DEF LeakInv, StaleEmpty, DisablePrev
  <2>sw. NoPendingInSwitch'
    BY <1>0, <1>1, <1>3, <2>1, TypeGroups DEF LeakInv, NoPendingInSwitch, DisablePrev
  <2>leak. LeakFree'
    BY <1>0, <1>1, <1>3, <2>1, TypeGroups DEF LeakInv, TypeData, TypeSnap, LeakFree, Believed, StaleEmpty, NoPendingInSwitch, DisablePrev
  <2> QED
    BY <2>flags, <2>counters, <2>data, <2>snap, <2>stale, <2>sw, <2>leak DEF LeakInv, TypeOK, TypeFlags, TypeCounters, TypeData, TypeSnap
<1>4. CASE r = "ENOTCONN"
  <2>1. /\ halRates' = halRates
        /\ prevRate' = 0 /\ pendingPrevRate' = 0
        /\ rc' = "ENOTCONN" /\ pc' = "Retry"
    BY <1>1, <1>4 DEF ResetOnNotConn
  <2>flags. TypeFlags'
    BY <1>0, <1>1, <1>4, <2>1, TypeGroups DEF LeakInv, TypeFlags, DisablePrev
  <2>counters. TypeCounters'
    BY <1>0, <1>1, <1>4, <2>1, TypeGroups DEF LeakInv, TypeCounters, DisablePrev
  <2>data. TypeData'
    BY <1>0, <1>1, <1>4, <2>1, TypeGroups DEF LeakInv, TypeData, DisablePrev
  <2>snap. TypeSnap'
    BY <1>0, <1>1, <1>4, <2>1, TypeGroups DEF LeakInv, TypeFlags, TypeCounters, TypeData, TypeSnap, DisablePrev
  <2>stale. StaleEmpty'
    BY <1>0, <1>1, <1>4, <2>1, TypeGroups DEF LeakInv, StaleEmpty, DisablePrev
  <2>sw. NoPendingInSwitch'
    BY <1>0, <1>1, <1>4, <2>1, TypeGroups DEF LeakInv, NoPendingInSwitch, DisablePrev
  <2>leak. LeakFree'
    BY <1>0, <1>1, <1>4, <2>1, TypeGroups DEF LeakInv, TypeData, TypeSnap, LeakFree, Believed, StaleEmpty, NoPendingInSwitch, DisablePrev
  <2> QED
    BY <2>flags, <2>counters, <2>data, <2>snap, <2>stale, <2>sw, <2>leak DEF LeakInv, TypeOK, TypeFlags, TypeCounters, TypeData, TypeSnap
<1> QED
  BY <1>1, <1>2, <1>3, <1>4

\* Every step of the worker, the callers and the environment keeps LeakInv.
LEMMA NextLeakInv ==
  ASSUME RatesNonZero, LeakInv, [Next]_vars
  PROVE  LeakInv'
<1>1. CASE Worker
  BY <1>1, TopLeakInv, ResumeLeakInv, IdleCheckLeakInv, IdleSendLeakInv,
     PendingLeakInv, ModeLeakInv, EnableLeakInv, DisablePrevLeakInv,
     RetryLeakInv DEF Worker
<1>2. CASE \E m \in Modes, p \in Periods : SetPowerMode(m, p)
  BY <1>2, SetPowerModeLeakInv
<1>3. CASE SignalIdle
  BY <1>3, SignalIdleLeakInv
<1>4. CASE Tick \/ HalCrash \/ HalRestart
  BY <1>4, EnvLeakInv
<1>5. CASE UNCHANGED vars
  BY <1>5, StutterLeakInv
<1> QED
  BY <1>1, <1>2, <1>3, <1>4, <1>5 DEF Next

\* NoLeakedHint: whatever the HAL calls return, however often the HAL
\* crashes and restarts and callers signal, every REFRESH_<r>FPS mode the
\* Power HAL holds is one PowerHalHintWorker still tracks in mPrevRefreshRate,
\* mPendingPrevRefreshRate or the rate it is switching to
\* (updateRefreshRateHintInternal, 198-257), provided the rounding of line
\* 220 never yields rate 0.
THEOREM NoLeakedHint ==
  ASSUME RatesNonZero
  PROVE  Spec => []LeakFree
<1>1. Init => LeakInv
  BY InitLeakInv
<1>2. LeakInv /\ [Next]_vars => LeakInv'
  BY NextLeakInv
<1>3. LeakInv => LeakFree
  BY DEF LeakInv
<1> QED
  BY <1>1, <1>2, <1>3, PTL DEF Spec

\* PowerTypeCorrect: the worker's state and the HAL's keep their types
\* along every behaviour, under the same rounding hypothesis.
THEOREM PowerTypeCorrect ==
  ASSUME RatesNonZero
  PROVE  Spec => []TypeOK
<1>1. Init => LeakInv
  BY InitLeakInv
<1>2. LeakInv /\ [Next]_vars => LeakInv'
  BY NextLeakInv
<1>3. LeakInv => TypeOK
  BY DEF LeakInv
<1> QED
  BY <1>1, <1>2, <1>3, PTL DEF Spec
====
