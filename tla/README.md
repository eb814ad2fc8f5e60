# Verification of HWCSession (hwc2 display HAL session)

This directory holds TLA+ models of `HWCSession`. It is the hwc2 composer HAL
session of `src/sdm/libs/hwc2/hwc_session.{h,cpp}`. Alongside the models are
the TLC configurations that check them and the TLAPS proofs about them.

## The system

`HWCSession` owns a table of display slots (`hwc_display_[]`, client ids).
Each slot also has a `DisplayMapInfo` (`sdm_id`, `disp_type`). The parts are:

| Part | Code | What it does |
|---|---|---|
| Display slot registry | `InitSupportedDisplaySlots` (499-579), `GetDisplayIndex` (581-603), `HandleBuiltInDisplays` (949-977), `CreateVirtualDisplayObj` (1398-1451), `DestroyVirtualDisplay` (716-733), `DestroyDisplay` and its two routines (2754-2826) | Lays out the slot ids as primary 0, then the pluggable, builtin and virtual pools. Fills and empties the slots. |
| Hotplug handling | `UEventHandler` (2377-2398), `CreatePluggableDisplays` / `HandleDisconnectedDisplays` / `HandleConnectedDisplays` (2580-2802) | Reconciles the pluggable slots with the panels that `GetDisplaysStatus` reports. Sends `Hotplug` callbacks to the client. |
| Concurrency arbiter | `HandleConcurrency` (1474-1514), `NonBuiltinConcurrency` (1516-1541), `ActivateDisplay` (2871-2877) | Allows at most a builtin pair, or one external (pluggable) display, or one virtual display. |
| Client entry points | `RegisterCallback` (980-1014), `PresentDisplay` (first frame → `primary_ready_`), `SetPowerMode` (1172-1197), `CreateVirtualDisplay` | Calls from SurfaceFlinger. |
| Validate/present pipeline, sequence locks | `ValidateDisplay` (1251-1279), `PresentDisplay` (866-921), `ValidateDisplayInternal` / `PresentDisplayInternal` (2956-2998), `HandlePendingRefresh` (923-936), the `SEQUENCE_*_SCOPE_LOCK` macros and `Locker` (`hwc_session.h`), `ResetPanel` (2400-2422), `Refresh` (2464-2471) | Runs one frame of a display under its slot lock. A qService command that takes `SEQUENCE_WAIT` must wait until the frame's validate/present sequence is closed. |
| FB0 panel-dead uevent | `UEventHandler` FB0 branch (2365-2374) | Asks for a frame of the primary and sets `reset_panel_`, so that the next primary validate resets the panel. |
| Power HAL hint worker | `PowerHalHintWorker` (80-362), `updateRefreshRateHint` (3018-3025), `signalIdle` | A thread that forwards refresh-rate hints and the display-idle hint to the Power HAL. |
| Per-display forwarding, control commands | `CallDisplayFunction`, the `qService` commands | Not modelled. These are pure forwarding with no slot-table state, or are outside the hotplug protocol. |

The slot registry and the hotplug scan interact across two threads.
- **The client thread** registers the callback. It then presents the primary's first frame, which sets `primary_ready_` and runs a pluggable scan. It also changes power modes, which runs `HandleConcurrency`, and creates and destroys virtual displays.
- **The uevent thread** runs a pluggable scan for every hotplug uevent once `primary_ready_` is set.

A scan takes and drops the slot lock several times. Between those regions,
`DestroyPluggableDisplay` sleeps, and `HandleConnectedDisplays` writes the map
after the lock has been released. The two threads' scans and the client's
calls therefore interleave.

The pipeline involves three threads.
- **The client thread** runs `ValidateDisplay` and `PresentDisplay` for one slot at a time, plus `SetPowerMode`.
- **A qService binder thread** runs control commands such as `SetDisplayMode`, which take `SEQUENCE_WAIT_SCOPE_LOCK`.
- **The uevent thread** runs the FB0 handler.

The per-slot `Locker` is a mutex plus the word `sequence_wait_`:
- `SEQUENCE_ENTRY` (in `ValidateDisplay`) sets the word to 1.
- `SEQUENCE_EXIT` (in `PresentDisplay`) sets it to 0, and `SEQUENCE_CANCEL` (after a failed validate or present) sets it to -1. Both broadcast on unlock.
- `SEQUENCE_WAIT` waits on the condition variable while the word is 1. So a command never runs in the middle of a frame.

The hint worker has its own lock. `SetPowerMode` and `PresentDisplay` write
its fields under that lock and signal it. The worker calls the Power HAL
outside the lock.

## Modules

- **`HwcSession.tla`** models the slot registry, the hotplug scan and the arbiter.
  - **State:**
    - `disp`, `mapSdm` and `mapType` model `hwc_display_[]` and `DisplayMapInfo`.
    - `power` and `active` are the display objects' power mode and activation.
    - `announced` is the client's view: the connected Hotplugs minus the disconnected ones.
    - `hwConn` and `ueventPending` model the panels and the uevent queue.
    - `primaryReady` and `clientConnected` model `primary_ready_` and `client_connected_`.
  - **Each thread** has a program counter `pc[t]` (`op`, slot, panel). It also has `snap[t]`, the `GetDisplaysStatus` snapshot, and `pending[t]`, the `pending_hotplugs` of its scan.
  - **Scan steps.** A scan is the sequence of steps
    `Disc` → `DiscLocked` → `Conn` → `MapSet` → `ConnConc` → `Finish` → `Notify`. There is one step per locked region, and one per unlocked write or unlocked `HandleConcurrency` call.
  - **Per-action guards.** Each action carries the guards and early returns of its handler. `Conn` may fail in `Create` when `CreateMayFail`, and then returns without notifying, as the code does.
  - **Helpers.**
    - `HandleConcurrency` and `NonBuiltinConcurrency` are pure operators over the table.
    - `FirstFree` is the slot search of `HandleConnectedDisplays`.
    - `BuiltinTable` is the `HandleBuiltInDisplays` loop, including its double increment of `client_id`.
  - **History variable.** `misfreed` is set when `DestroyDisplay` destroys an object with the routine of another kind.
  - **Abstractions.**
    - The primary is always a builtin.
    - The hotplug panel toggle (`HwToggle`) is modelled from the driver's behaviour, which is not under `src/`.
- **`MC_HwcSession.tla`** is the model-checking root (`EXTENDS HwcSession`). The constants are set in the `.cfg` files.
- **`HwcSessionProofs.tla`** holds the type-correctness proof. **`HwcSerialProofs.tla`** holds the proof that serial scans never misfree a display. **`HwcConcurrencyProofs.tla`** holds the proof of `BuiltinConcurrency` for the pool sizes the arbiter covers. **`HwcActivationProofs.tla`** holds the proof of `ActivationRestored` for every value of the constants.
- **`Pipeline.tla`** models the validate/present pipeline with its sequence locks, the doze refresh bookkeeping and the FB0 handler.
  - **State:**
    - `holder[d]` is the owner of `locker_[d]`'s mutex (`"sf"`, `"qs"` or `"none"`), and `seqWait[d]` is `sequence_wait_`.
    - `connected`, `vstate`, `resetPanel`, `pendingRefresh` and `registered` model `hwc_display_[d] != nullptr`, the display object's validation state, `reset_panel_`, `pending_refresh_` and the registered refresh callback.
    - `open` is the set of slots whose validate succeeded and whose present has not run. It is the sequence as SurfaceFlinger sees it.
    - `refreshReq` is the set of `Refresh(d)` requests the client has not answered.
    - `panelAlive` is the state of the primary panel.
  - **Threads.** Each thread has a program counter:
    - `sf` for the client, a record of the operation, the slot, the caller and the result so far;
    - `qs` for the qService thread;
    - `ue` for the uevent thread.
  - **Client actions.** Each client action models a whole locked region:
    - `StartValidate` is `ValidateDisplay`: `SEQUENCE_ENTRY`, then the internal validate, up to the end of the call or up to `ResetPanel`.
    - `StartPresent` is `PresentDisplay`: `SEQUENCE_EXIT`, then the present. In the skip-validate state it validates first when validation cannot be skipped (lines 2988-2995).
    - The remaining client actions are `ResetPower`, `ResetVsync`, `PresentRest`, `Cancel` (`SEQUENCE_CANCEL`) and `HandlePendingRefresh`.
    - `SetPowerMode` is the doze-refresh part of `SetPowerMode`.
  - **qService actions.** `QsStart`, `QsWoken` and `QsBody` are `SEQUENCE_WAIT_SCOPE_LOCK`: lock, then wait while the word is 1, then the command body, then unlock.
  - **Environment.** `PanelDies`, `FB0Refresh` and `FB0Flag` are the FB0 handler. `Register` and `Plug` model the callback registration and hotplugs.
  - **Abstractions.** The display object (`HWCDisplay`, not under `src/`) is reduced to its validation state, with nondeterministic results. `LowestPending` is the first-set-bit loop of `HandlePendingRefresh`.
- **`MC_Pipeline.tla`** is its model-checking root. **`PipelineProofs.tla`** holds the proofs about it.
- **`PowerHint.tla`** models `PowerHalHintWorker`.
  - **The worker's `Routine`** is split at its `Lock`/`Unlock` points and at every Power HAL call:
    - `Top`, `Resume`, `IdleCheck` and `IdleSend` are the wait and the idle hint;
    - `Pending`, `Mode`, `Enable`, `DisablePrev` and `Retry` are `updateRefreshRateHintInternal` and the retry of failed hints.
  - **The callers** are `SetPowerMode` (`updateRefreshRateHint`) and `SignalIdle`.
  - **The environment:**
    - `Tick` moves time past the idle deadline. Time is abstracted to deadline generations.
    - `HalCrash` and `HalRestart` kill and restart the Power HAL service, and its modes die with it.
    - `HalCall` lets any call fail transiently with `-EINVAL`, up to `MaxFaults` times.
  - **State.** `halRates` and `halIdle` are the modes the HAL holds. `Believed` is the set of rate hints the worker's bookkeeping will disable later.
- **`RateHints.tla`** is the abstract promise of the rate hinting, seen from the HAL:
  - a hint is enabled only while at most one other is;
  - while the display is meant to be on, a hint is disabled only while another stays enabled;
  - only a crash forgets hints.

  `PowerHint` implements it under the refinement mapping `hints <- halRates, displayOn <- (snap.mode = "On"), halAlive <- halUp` (`RefinesRateHints`).
- **`MC_PowerHint.tla`** is its model-checking root. **`PowerHintProofs.tla`** holds the proofs about `PowerHint`. **`PowerRefinementProofs.tla`** proves `NoTwoHintsWhileOn` and that `PowerHint` implements `RateHints`.

## Runs

The `HwcSession` runs use `KNumBuiltIn = KNumPluggable = 4` and
`KNumVirtual = 1`, the values in `hwc_callbacks.h`, together with the hardware
maxima given below.

Two further defects were seen while modelling but are not kept as runs:
- `HandleConcurrency` is skipped before `primary_ready_` and never replayed (line 1475).
- Only the first pluggable slot takes part in the policy (line 1481).

They are listed as hazards in `PROJECT.json`.

| Run | Config | Expect | What it shows |
|---|---|---|---|
| hwc_serial | `HwcSession_serial.cfg` | pass | Setup: one slot per pool, two pluggable panels, one second builtin, scans kept apart, up to 3 hardware events. At every quiescent state the following hold: `BuiltinConcurrency`, `ActivationRestored`, `HotplugConsistent` and `ClientViewConsistent`. `NoMisfree` holds in every state. 484,504 distinct states. |
| hwc_ext_virt | `HwcSession_extvirt.cfg` | violation | `ExtVirtExclusive` fails. `HandleConcurrency` for the builtin index activates the pluggable display while the virtual display is active (line 1502). |
| hwc_redrive | `HwcSession_redrive.cfg` | violation | `NoDoubleDrive` fails. A rescan creates a second object for a panel that is already driven (line 2623). |
| hwc_overlap | `HwcSession_overlap.cfg` | violation | `NoMisfree` fails when scans overlap. The map is written after the unlock (line 2660), so the other scan destroys a pluggable display with the non-pluggable routine. |
| hwc_builtins | `HwcSession_builtins.cfg` | violation | `BuiltinsMapped` fails. `HandleBuiltInDisplays` advances `client_id` twice (lines 971 and 976). |
| hwc_create_fail | `HwcSession_createfail.cfg` | violation | `ClientViewConsistent` fails. A failed `Create` returns before the `Hotplug(Connected)` loop (lines 2650-2653). |
| power_safety | `PowerHint_safety.cfg` | pass | Signals, two transient HAL errors, and one HAL crash and restart. `LeakFree`: every rate hint the HAL holds is one the worker will disable later. `NoTwoHintsWhileOn`: at rest while On, the HAL holds at most one rate hint. `RefinesRateHints`: every step implements `RateHints`. |
| power_live | `PowerHint_live.cfg` | pass | Under weak fairness of the worker, of time and of the HAL restart, with two transient errors. `RateHintConverges`: the HAL ends up with exactly the current rate's hint. `IdleHintConverges`: DISPLAY_IDLE ends up enabled after the last deadline. |
| power_crash | `PowerHint_crash.cfg` | violation | `RateHintConverges` fails after a HAL crash and restart. The rate hint is gone, and with the rate unchanged nothing sends it again (line 190). |
| power_lostwake | `PowerHint_lostwake.cfg` | violation | `IdleHintWithdrawn` fails. A `signalIdle` that moves the deadline while the worker is outside its wait wakes nobody. The worker then sleeps without a timeout, with DISPLAY_IDLE enabled (line 324). |
| pipeline_seq | `Pipeline_safety.cfg` | pass | Two slots, two panel-dead uevents, two qService commands, two hotplugs, and modes On/Off/Doze. `SequenceExclusion`: a `SEQUENCE_WAIT` command never runs between a successful validate and its present. `WaitersReleased`: a blocked command is always released. 314,471 distinct states. |
| pipeline_panel | `Pipeline_panel.cfg` | violation | `PanelRecovers` fails. The frame that answers the FB0 handler's `Refresh(0)` can be a skip-validate present that may skip validation; it goes straight to `Present` and never reads `reset_panel_` (line 2988). |

Each violation is recorded as a finding in `PROJECT.json`. Every property of
every passing run has a mutant in `PROJECT.json`: a plausible bug in a mapped
definition, under which TLC finds that property violated.

**Bounds.** One slot per pool is enough to reach every branch of the arbiter.
- The second builtin can be powered on or off.
- The first pluggable and the first virtual slot can be filled, emptied, active or inactive.

Two pluggable panels against one pluggable slot make the "all slots taken" and
the slot-reuse paths happen. Three hardware events allow connect, disconnect
and reconnect with scans of both threads in between. The larger pools appear
only in the violation runs, where they show the first-slot-only and
double-increment defects.

**Pipeline and power bounds.**
- **Pipeline.** Two slots, the primary and one pluggable, are enough for a command to block on one slot while the other's frame runs. Two commands let a second command arrive while the first is blocked. Two panel events let the panel die again during the reset. Two hotplugs let a slot be emptied and refilled.
- **Power hint.** Four periods cover unknown, two supported rates and one unsupported rate. Two faults are enough for a failed enable and a failed disable. One crash is enough for a crash and restart.

**Fairness.**
- **Slot registry.** No fairness is assumed. Its properties are safety properties, stated at quiescent states. A uevent is handled only if the uevent thread is scheduled, and `Create` may fail forever.
- **Hint worker.** `WF_vars(Worker)`: the worker is a dedicated thread that runs whenever it can. `WF_vars(Tick)`: time passes. `WF_vars(HalRestart)`: the service manager restarts a dead HAL. Callers, faults and crashes are not forced.
- **Pipeline.** Fairness comes from the HWC2 client contract and from the threads being scheduled:
  - weak fairness of the client's locked steps (`SfStep`) and of the command body, since each thread finishes a call it has started;
  - strong fairness of presenting an open slot, since the client presents after a validate that succeeded;
  - weak fairness of answering a `Refresh` request with a frame;
  - weak fairness of the uevent handler's steps and of the registration;
  - strong fairness of a woken waiter retaking the lock when no sequence is open. The client sleeps until the next vsync between a present and the next validate, so the waiter is not starved forever.

## Proofs (`HwcSessionProofs.tla`)

`TypeCorrect`: `Spec => []TypeOK`, for all values of the constants that
satisfy `MaxAssumption` and `HwAssumption`.
- **Inductive invariant.** `TypeOK` is not inductive by itself. The scan steps index the slot table with `pc[t].s`, and `MapSet` enqueues that slot, so the proof also needs `PcOK`.
  - `PcOK` says that a thread in `Disc`, `DiscLocked`, `MapSet` or `ConnConc` holds a pluggable slot.
  - In `MapSet` or `ConnConc`, it also holds a pluggable panel.
  - The inductive invariant is `IInv == TypeOK /\ PcOK`.
- **Proof structure.** `NextIInv` proves `IInv /\ [Next]_vars => IInv'` with one lemma per action. Each lemma has one step per primed variable.
- **`FirstFree`.** `FirstFreeIsFree` proves that `FirstFree`'s `CHOOSE` finds a free slot of the pool. It uses the well-foundedness of `<` on `Nat` (`WFMin` and `NatLessThanWellFounded`).
- **Arbiter lemmas.** `HandleConcurrencyType` and `ActivateType` show that the arbiter only yields a boolean activation table.

## Proof of `SerialNoMisfree` (`HwcSerialProofs.tla`)

`SerialNoMisfree` states `ASSUME SerialScans PROVE Spec => []NoMisfree`. When
scans are serialised, `DestroyDisplay` never destroys a display with the
routine of another kind. This holds for every size of the pools and every
number of panels. The `hwc_serial` run checks the same property on a small
instance. The `hwc_overlap` run shows it fails without `SerialScans`.

The inductive invariant is `IInv /\ SerialInv`. `SerialInv` has these
conjuncts:
- `OneScanner`: at most one thread is inside a scan. This follows from the `SerialScans` guards of `PresentPrimaryFirst` and `UEvent`.
- `KindsMatch`: a set `disp_type` names the kind of the object in the slot.
- `PoolKinds`: pluggable objects live only in pluggable slots.
- `UnmappedBeingSet`: an occupied slot with no `disp_type` is one that a thread is about to map. This covers the window between `Create` under the lock and the map write after it (line 2660).
- `DiscLockedPluggable`: a slot between the unlocked Disconnected notification and the locked destroy is still typed pluggable.
- `MapSetPluggable`: the slot about to be mapped holds the pluggable object just created.
- `NoMisfree` itself.

Why the invariant implies the property:
- While one thread scans, `OneScanner` keeps the other out of both windows.
- So every occupied slot is typed when `Disc` and `DiscLocked` choose the destroy routine (`TypedWhileScanning`).
- `DestroyVirtualDisplay` only touches virtual slots. Those hold no pluggable object (`PoolKinds`) and no half-made one (`PcOK`).

TLC checked `SerialInv` as an invariant on all serial configurations before the
proof. There is one lemma per action. `SerialFrame` and `GotoSerial` discharge
the steps that leave the slot table alone.

## Proof of `SequenceLockSafe` (`PipelineProofs.tla`)

`SequenceLockSafe` states `Spec => []SequenceExclusion`, for every set of slot
ids (natural numbers, the primary among them), every set of modes and every
bound, under `PipelineAssumption`. The `pipeline_seq` run checks the same
property on two slots. `PipelineTypeCorrect` states `Spec => []TypeOK`.

`SequenceExclusion` is not inductive by itself. A woken waiter that retakes a
free lock with `sequence_wait_ != 1` may run, and nothing in
`SequenceExclusion` says that the slot then has no open sequence. The
strengthening `LockInv` has these conjuncts:
- `QsOwner` and `SfOwner`: a slot's mutex is held by a thread exactly while that thread's program counter is in the slot's locked region.
- `OpenWaits`: an open sequence has `sequence_wait_ = 1`, or the client still holds the slot's lock.
- `ResetInSequence`: a `ResetPanel` inside `ValidateDisplay` runs after `SEQUENCE_ENTRY`.
- `CancelClosed`: a pending `SEQUENCE_CANCEL` or `HandlePendingRefresh` follows a sequence that is closed.

With these, the waiter that finds the lock free and the word not 1 cannot be
on an open slot (`QsWokenIInv`).

**Proof structure.**
- TLC checked `IInv == TypeOK /\ LockInv /\ SequenceExclusion` as an invariant of the `pipeline_seq` instance before the proof.
- `InitIInv` and `NextIInv` prove it inductive, with one lemma per action.
- Each lemma splits on the branches of the handler: connected or not, the three ways out of `ValidateDisplayInternal`, and the result of the validate.
- Each lemma proves `TypeOK` in four groups, and then each conjunct of `LockInv` and `SequenceExclusion`, as separate steps.
- `LowestPendingIn` shows that `HandlePendingRefresh`'s slot is a pending one. It uses `WFMin` on `<` over `Nat`.

## Proof of `NoLeakedHint` (`PowerHintProofs.tla`)

`NoLeakedHint` states `Spec => []LeakFree` for every set of vsync periods,
modes and rate-support answers, and every bound on signals, HAL faults and
crashes (`PowerAssumption`). The `power_safety` run checks the same property
on a small instance. `PowerTypeCorrect` states `Spec => []TypeOK`.

Both theorems take one hypothesis, `RatesNonZero == 0 \notin Rates`. The
rounding of `updateRefreshRateHintInternal` (line 220) gives rate 0 to a
period above 200 ms, and 0 is the value `mPrevRefreshRate` uses for "no hint".
A hint enabled at rate 0 would be dropped from the bookkeeping. This edge is
listed as a hazard, and the hypothesis names it exactly.

`LeakFree` is not inductive by itself. The strengthening
`LeakInv == TypeOK /\ StaleEmpty /\ NoPendingInSwitch /\ LeakFree` adds two facts:
- `StaleEmpty`: while the binder handle is stale, the HAL holds no hint. A handle goes stale only in `HalCrash`, which empties `halRates`. This conjunct makes the `-ENOTCONN` branches, which clear both rates, safe.
- `NoPendingInSwitch`: between the pending disable and the end of a switch, `mPendingPrevRefreshRate` is 0. This makes the `-EINVAL` branch of the disable of the previous hint safe: it may overwrite the pending rate only because none is held.

TLC checked `LeakInv` as an invariant of the `power_safety` instance before the
proof (2,153,967 states). `InitLeakInv` and `NextLeakInv` prove it inductive,
with one lemma per action. Each HAL-calling lemma picks the call's result and
splits on it: `OK`, `-EINVAL` or `-ENOTCONN`, and for the support query also
`-EOPNOTSUPP`. Each lemma proves `TypeOK` in four groups, and each other
conjunct as its own step. `RateOfPeriod` gives the enabled rate's membership
in `Rates` and, under the hypothesis, that it is nonzero.

Only model-checked, with no proof:
- `HotplugConsistent` and `ClientViewConsistent`. They hold only on some instances: `hwc_create_fail` shows `ClientViewConsistent` failing when `Create` fails, TLC finds it violated too when the scans overlap, and it finds `HotplugConsistent` violated with two pluggable slots, with overlapping scans and with Create failures. A theorem would need hypotheses that rule out those cases, and strengthenings that relate every scan position to the hardware snapshot.

Out of reach of TLAPS, and only model-checked:
- `WaitersReleased`, `RateHintConverges`, `IdleHintConverges` and every other liveness property;
- anything about `ENABLED`;
- facts about recursive definitions for every input.

## Proof of `BuiltinConcurrencySmallPools` (`HwcConcurrencyProofs.tla`)

`BuiltinConcurrencySmallPools` states `ASSUME SmallPools PROVE Spec => []BuiltinConcurrency`.
The run `hwc_serial` checks the same property on one instance.

`SmallPools` has four conjuncts:
- at most one pluggable slot (`NP <= 1`);
- at most one virtual slot (`NV <= 1`);
- at most one second builtin display placed (`NumHwBuiltin2 <= 1 \/ NB <= 2`);
- no virtual display before the first frame (`~VirtualEarly`).

The hypotheses are what the code's arbiter covers, not a weakening. `HandleConcurrency` only ever deactivates `ExtIdx` (the first pluggable slot) and `VirIdx`. It takes the powered builtin from `GetNextBuiltinIndex`, which returns the first one. It returns at once while `primary_ready_` is false, and nothing replays it later. Beyond each bound, TLC finds `BuiltinConcurrency` violated by what the code does:
- two pluggable slots;
- two virtual slots;
- two placed second builtins (`MaxBuiltin = 4`, `NumHwBuiltin2 = 2`);
- `VirtualEarly`.

These are the hazards at lines 1475 and 1481. The theorem puts no bound on:
- Create failures (`CreateMayFail`);
- the overlap of the two threads' scans (`SerialScans`);
- the number of hotplug events or panels.

The inductive invariant is `CInv == IInv /\ EarlyEmpty /\ OnlyB(disp) /\ FixPending`:
- `FixPending`: an active pluggable or virtual display beside a powered second builtin (`Bad(s)`) exists only while a fixer is pending. A fixer is a `HandleConcurrency` call still to run that will deactivate it. That is either:
  - the client's `Conc` step for that display or for the builtin slot `B`; or
  - the rest of the scan that has just created the display (`MapSet`, then `ConnConc`).
- `EarlyEmpty`: before the first frame there is no pluggable or virtual display and no scan. This is where `primaryReady` holds whenever a fixer runs.
- `OnlyB`: only the slot `B = BuiltinSlotOf(1)` ever holds a second builtin. So `GetNextBuiltinIndex` is `B` or none (`OnlyBNext`), and `SecondBuiltinOn` says exactly that a builtin is powered.

`ConcurrencyWhenOn` states what `HandleConcurrency` does while the second builtin is on:
- it activates nothing;
- called for the builtin, it deactivates `ExtIdx` and `VirIdx`;
- called for `ExtIdx` or `VirIdx`, it deactivates that display.

There is one lemma per action. Two frames carry most of them:
- `Shrink` is for steps that only remove display objects.
- `Arbitrate` is for steps that end in a `HandleConcurrency` call (`Conc`, `ConnConc`, `Notify`, `DiscLocked`).

Every step that can create a bad display leaves a fixer for it:
- `SetPowerMode` powering `B` leaves the client at `Conc(B)`;
- `CreateVirtualDisplay` leaves `Conc(s)`;
- `Conn` leaves `MapSet(s)`.

A quiescent state has no fixer, so it has no bad display (`CInvConcurrency`).
TLC checked the invariant before the proof on:
- the `hwc_serial` instance;
- overlapping scans with Create failures;
- `MaxBuiltin = 3`;
- the instances with an empty pluggable or virtual pool.

## Proof of `ActivationRestoredAlways` (`HwcActivationProofs.tla`)

The theorem holds for every value of the constants allowed by `MaxAssumption` and `HwAssumption`, with no further hypothesis:
- any pool sizes;
- any number of panels;
- with or without Create failures;
- with or without overlapping scans;
- with or without virtual displays before the first frame.

`ActivationRestoredAlways` proves `Spec => []ActivationRestored`. The invariant is `AInv == IInv /\ ActiveOutside /\ ReadyConnected /\ EarlyActive /\ PlugTyped /\ BeingMapped /\ RestorePending`:
- `RestorePending`: a display `s` is *stuck* when it is present and inactive while the second builtin is off and its concurrent display `Cocu(s)` is absent. A stuck display has a restorer pending: the client's `Conc` for `GetNextBuiltinIndex` or for `Cocu(s)`, or a scan at `MapSet`/`ConnConc` for `Cocu(s)`. `HCRestores` shows that each of these calls reactivates `s` when it runs.
- `ActiveOutside`: slots other than `ExtIdx` and `VirIdx` are always active, because `HandleConcurrency` writes no other flag (`HCFrame`).
- `EarlyActive` and `ReadyConnected`: before the first frame every display is active, and `RegisterCallback` happens only then. So a stuck display implies `primary_ready_`, which the restorer needs in order to act.
- `BeingMapped` and `PlugTyped`: an occupied pluggable slot whose `disp_type` is not yet pluggable has its creating scan at `MapSet`. This is where the restorer comes from when `HandleDisconnectedDisplays` destroys such a slot through `DestroyNonPluggable`, which runs no `HandleConcurrency`.

Each step that ends a display's reason to be inactive leaves a restorer:
- `SetPowerMode` powering off the next builtin leaves `Conc` of that builtin;
- `DestroyVirtualDisplay` leaves `Conc` of the destroyed slot;
- `DestroyPluggableDisplay` runs its call itself, under the lock (`DiscLockedAInv`);
- destroying an unmapped slot leaves the creating scan's `MapSet`, then `ConnConc`.

Creation sets the new display active (`CreateKeepsRestore`). `RestorerKept` and `MappedKept` carry restorers across the steps of other threads. `NextBuiltinFirst` and `NextBuiltinFrame` show that `GetNextBuiltinIndex` returns an occupied builtin slot, and depends only on which builtin slots are occupied. They use the well-foundedness of `<` on `Nat`, as `FirstFreeIsFree` does. In a quiescent state no call is pending, so nothing is stuck. `OffMeansOff` turns `~BuiltinOn` into `~SecondBuiltinOn`, and a lonely display's `Cocu` is absent (`AInvRestored`).

TLC checked `AInv` as an invariant before the proof, on these instances:
- the `hwc_serial` instance;
- overlapping scans with Create failures, early virtual displays and two hardware events (2.3M states);
- two pluggable slots with overlap and failures (8.4M states);
- two virtual slots;
- two placed second builtins;
- an empty pluggable pool;
- an empty virtual pool with a single builtin.

## Proofs of `NoTwoHints` and `PowerRefinesRateHints` (`PowerRefinementProofs.tla`)

Both theorems take the hypothesis `RatesNonZero`. Both rest on `RefInv`, which is `LeakInv` from `PowerHintProofs` plus six conjuncts:
- `SnapCurrent`: without a new request, the locked power mode is the one the last snapshot took.
- `PendingRetried`: a pending hint left by a switch while On is retried before the worker rests. Either an update is requested, or the worker is in `Retry`, or it is on its way to `Pending` with the snapshot's update flag set.
- `RestIdle`: the worker waits only with no update requested.
- `SwitchOn`: a switch (`Enable`, `DisablePrev`) runs with the snapshot On and towards a new rate.
- `EnabledNext`: between the enable of the next hint and the disable of the previous one, the HAL holds the next hint, unless it crashed and took every hint.
- `PendingBacked`: a pending hint still held by the HAL has the worker's current hint beside it, and the two differ.

`NoTwoHints` proves `Spec => []NoTwoHintsWhileOn`:
- At rest while On, `RestIdle` and `SnapCurrent` make the snapshot On.
- `PendingRetried` then leaves no pending hint.
- `LeakFree` leaves at most the current hint in the HAL (`RefInvNoTwo`, with `AtMostOne` from `FiniteSetTheorems`).

`PowerRefinesRateHints` proves `Spec => RefinesRateHints`:
- `Init` maps to `RateHints!Init`.
- `NextRefines` maps each step to a `RateHints` step or a stutter:
  - `QuietSteps` are stutters;
  - a snapshot is `Request`;
  - a crash and a restart are `Forget` and `Restart`;
  - `PendingStep`, `ModeStep` and `DisablePrevStep` are `DisableHint` steps;
  - `EnableStep` is an `EnableHint` step.
- `RateHints` lets a hint be disabled while On only if another stays enabled:
  - `PendingStep` takes the other hint from `PendingBacked`;
  - `DisablePrevStep` takes it from `EnabledNext` and `SwitchOn`;
  - `ModeStep` disables only while the snapshot is not On.
- `EnableStep` needs the HAL to hold at most one other hint. `LeakFree` and `NoPendingInSwitch` put every held hint in `{prevRate}`, and `AtMostOne` bounds the count. The abstract module's `Cardinality` is a distinct symbol from this module's, so the proof bridges the two.

## Not modelled

- **The pluggable-primary and dummy-display paths** of the hotplug handling.
- **The callbacks' `NeedsRefresh`/`ResetRefresh` bookkeeping and `SetPendingRefresh`.** They belong to `HWCDisplay` and `HWCCallbacks`, which are not under `src/`.
- **`need_invalidate_`.** It is never set true in this file.
- **The color-manager call.**
- **The display object's own state machine.** It is reduced to nondeterministic results.
- **Per-display forwarding (`CallDisplayFunction` beyond its lock) and the qService control commands other than one `SEQUENCE_WAIT` command.** They change no state this project reasons about.
