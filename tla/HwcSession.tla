----------------------------- MODULE HwcSession -----------------------------
(***************************************************************************)
(* The display-slot registry and the hotplug & concurrency arbiter of     *)
(* HWCSession (src/sdm/libs/hwc2/hwc_session.cpp).                         *)
(*                                                                         *)
(* Two threads touch the slot table: the client thread (SurfaceFlinger's  *)
(* calls: RegisterCallback, the first PresentDisplay on the primary,       *)
(* SetPowerMode, Create/DestroyVirtualDisplay) and the uevent thread       *)
(* (UEventHandler -> CreatePluggableDisplays).  Every region the code runs *)
(* under one slot lock is one atomic step; HandleConcurrency, which the    *)
(* code runs without any lock of the slots it reads, is one step of its    *)
(* own.  A pluggable scan (CreatePluggableDisplays) is a sequence of steps *)
(* driven by the thread's pc, so that the two threads' scans, power-mode   *)
(* changes and virtual-display calls interleave as they do in the code.   *)
(*                                                                         *)
(* The primary display is a builtin display (the pluggable-primary and    *)
(* dummy-display paths are not part of this module).                       *)
(***************************************************************************)
EXTENDS Integers, FiniteSets, Sequences

CONSTANTS
  MaxBuiltin,      \* GetMaxDisplaysSupported(kBuiltIn), the primary included
  MaxPluggable,    \* GetMaxDisplaysSupported(kPluggable)
  MaxVirtual,      \* GetMaxDisplaysSupported(kVirtual)
  KNumBuiltIn,     \* HWCCallbacks::kNumBuiltIn
  KNumPluggable,   \* HWCCallbacks::kNumPluggable
  KNumVirtual,     \* HWCCallbacks::kNumVirtual
  NumHwPluggable,  \* pluggable hardware displays (sdm ids 1..NumHwPluggable)
  NumHwBuiltin2,   \* connected non-primary builtin hardware displays
  CreateMayFail,   \* a display factory Create may fail for lack of resources
  SerialScans,     \* a uevent scan never starts while the client thread scans
  VirtualEarly,    \* the client may create a virtual display before its first frame
  MaxHwEvents      \* bound on hardware connect/disconnect events

ASSUME MaxAssumption ==
  /\ MaxBuiltin \in Nat \ {0}
  /\ MaxPluggable \in Nat
  /\ MaxVirtual \in Nat
  /\ {KNumBuiltIn, KNumPluggable, KNumVirtual} \subseteq Nat
ASSUME HwAssumption ==
  /\ NumHwPluggable \in Nat
  /\ NumHwBuiltin2 \in Nat
  /\ CreateMayFail \in BOOLEAN
  /\ SerialScans \in BOOLEAN
  /\ VirtualEarly \in BOOLEAN
  /\ MaxHwEvents \in Nat

-----------------------------------------------------------------------------
(***************************************************************************)
(* InitSupportedDisplaySlots: slot (client id) layout.  The primary is     *)
(* builtin, so max_builtin is decremented; each pool is min(hardware max,  *)
(* implementation max); ids are contiguous: primary 0, then pluggable,     *)
(* then builtin, then virtual.                                             *)
(***************************************************************************)
MinOf(a, b) == IF a < b THEN a ELSE b
NP == MinOf(MaxPluggable, KNumPluggable)
NB == MinOf(MaxBuiltin - 1, KNumBuiltIn)
NV == MinOf(MaxVirtual, KNumVirtual)

Primary == 0
PlugSlots == 1 .. NP
BuiltinSlots == NP + 1 .. NP + NB
VirtSlots == NP + NB + 1 .. NP + NB + NV
Slots == {Primary} \cup PlugSlots \cup BuiltinSlots \cup VirtSlots
NoSlot == -1

\* sdm (hardware) ids: primary 0, pluggables 1..NumHwPluggable, then the
\* second builtins, then the one virtual entry of the hardware list.
HwPlug == 1 .. NumHwPluggable
HwBuiltin2 == NumHwPluggable + 1 .. NumHwPluggable + NumHwBuiltin2
HwVirtual == NumHwPluggable + NumHwBuiltin2 + 1
HwIds == {0} \cup HwPlug \cup HwBuiltin2 \cup {HwVirtual}
Unset == -1

\* GetDisplayIndex(DISPLAY_EXTERNAL / DISPLAY_VIRTUAL): the first slot of the
\* pool, or -1 (out of range of the slot table) when the pool is empty.
ExtIdx == IF NP > 0 THEN 1 ELSE NoSlot
VirIdx == IF NV > 0 THEN NP + NB + 1 ELSE NoSlot

Kinds == {"Builtin", "Pluggable", "Virtual"}
NoDisplay == [kind |-> "None", hw |-> Unset]
Displays == [kind : Kinds, hw : HwIds] \cup {NoDisplay}
Modes == {"Off", "On"}
Threads == {"client", "uevent"}

Ops == {"Idle", "Disc", "DiscLocked", "Conn", "MapSet", "ConnConc",
        "Finish", "Notify", "Conc"}
Items == [op : Ops, s : Slots \cup {NoSlot}, h : Nat]
Item(o, s, h) == [op |-> o, s |-> s, h |-> h]
IdleItem == Item("Idle", NoSlot, 0)

VARIABLES
  disp,          \* hwc_display_[]: the display object in each slot
  mapSdm,        \* DisplayMapInfo.sdm_id of each slot
  mapType,       \* DisplayMapInfo.disp_type of each slot
  power,         \* last power mode of the slot's display object
  active,        \* activation state (ActivateDisplay) of the display object
  announced,     \* the client's view: Hotplug(Connected) minus Disconnected
  hwConn,        \* connection state of each pluggable hardware display
  hwEvents,      \* number of hardware events so far (bounded)
  ueventPending, \* a hotplug uevent waits for the uevent thread
  primaryReady,  \* primary_ready_
  clientConnected, \* client_connected_
  pc,            \* per thread: the step of the operation it is in
  snap,          \* per thread: GetDisplaysStatus snapshot of its scan
  pending,       \* per thread: pending_hotplugs of HandleConnectedDisplays
  misfreed       \* history: a display was destroyed as another kind

vars == << disp, mapSdm, mapType, power, active, announced,
           hwConn, hwEvents, ueventPending, primaryReady, clientConnected,
           pc, snap, pending, misfreed >>

-----------------------------------------------------------------------------
Present(dsp, s) == s \in Slots /\ dsp[s] # NoDisplay

\* GetNextBuiltinIndex: the first occupied builtin slot, 0 if none.
NextBuiltin(dsp) ==
  IF \E s \in BuiltinSlots : Present(dsp, s)
  THEN CHOOSE s \in BuiltinSlots :
         Present(dsp, s) /\ \A r \in BuiltinSlots : r < s => ~Present(dsp, r)
  ELSE 0

\* GetSecondBuiltinStatus
SecondBuiltinOn(dsp, pw) ==
  NextBuiltin(dsp) # 0 /\ pw[NextBuiltin(dsp)] # "Off"

\* ActivateDisplay(d, e): a no-op on an empty slot.
Activate(dsp, act, d, e) ==
  IF Present(dsp, d) THEN [act EXCEPT ![d] = e] ELSE act

\* Mutant: the "Activate pending Virtual Display" branch is lost.
NonBuiltinConcurrencyNoPending(dsp, act, d, on) ==
  IF d \notin {ExtIdx, VirIdx} THEN act
  ELSE LET cocu == IF d = ExtIdx THEN VirIdx ELSE ExtIdx
       IN  IF Present(dsp, d) /\ (on \/ Present(dsp, cocu))
           THEN Activate(dsp, act, d, FALSE) ELSE act

\* NonBuiltinConcurrency(d, builtin_active)
NonBuiltinConcurrency(dsp, act, d, on) ==
  IF d \notin {ExtIdx, VirIdx} THEN act
  ELSE LET cocu == IF d = ExtIdx THEN VirIdx ELSE ExtIdx
       IN  IF Present(dsp, d)
           THEN IF on \/ Present(dsp, cocu) THEN Activate(dsp, act, d, FALSE) ELSE act
           ELSE IF ~on /\ Present(dsp, cocu) THEN Activate(dsp, act, cocu, TRUE) ELSE act

\* Mutant: a powered second builtin deactivates the pluggable display only.
HandleConcurrencyKeepVirtual(dsp, pw, act, d) ==
  IF ~primaryReady THEN act
  ELSE IF d = NextBuiltin(dsp)
  THEN IF SecondBuiltinOn(dsp, pw)
       THEN Activate(dsp, act, ExtIdx, FALSE)
       ELSE IF Present(dsp, ExtIdx) THEN Activate(dsp, act, ExtIdx, TRUE)
       ELSE IF Present(dsp, VirIdx) THEN Activate(dsp, act, VirIdx, TRUE)
       ELSE act
  ELSE NonBuiltinConcurrency(dsp, act, d, SecondBuiltinOn(dsp, pw))

\* HandleConcurrency(d): the activation states it leaves behind, computed
\* from the slot table dsp and power modes pw it reads.
HandleConcurrency(dsp, pw, act, d) ==
  IF ~primaryReady THEN act
  ELSE IF d = NextBuiltin(dsp)
  THEN IF SecondBuiltinOn(dsp, pw)
       THEN Activate(dsp, Activate(dsp, act, ExtIdx, FALSE), VirIdx, FALSE)
       ELSE IF Present(dsp, ExtIdx) THEN Activate(dsp, act, ExtIdx, TRUE)
       ELSE IF Present(dsp, VirIdx) THEN Activate(dsp, act, VirIdx, TRUE)
       ELSE act
  ELSE NonBuiltinConcurrency(dsp, act, d, SecondBuiltinOn(dsp, pw))

\* A new display object: power Off, active (not display_inactive_).
NewDisplay(k, h) == [kind |-> k, hw |-> h]

\* Outcomes of a display factory Create for hardware display h: it may fail
\* when resources lack, and its outcome is unknown when h already drives a
\* display object.
Driven(h) == \E s \in Slots : disp[s].hw = h
CreateOutcomes(h) ==
  IF CreateMayFail \/ Driven(h) THEN {TRUE, FALSE} ELSE {TRUE}

FirstFree(S) == CHOOSE s \in S : ~Present(disp, s) /\ \A r \in S : r < s => Present(disp, r)

Goto(t, it) == pc' = [pc EXCEPT ![t] = it]

-----------------------------------------------------------------------------
(***************************************************************************)
(* Init: HWCSession::Init -> InitSupportedDisplaySlots, CreatePrimaryDisplay *)
(***************************************************************************)
Init ==
  /\ disp = [s \in Slots |-> IF s = Primary THEN NewDisplay("Builtin", 0)
                                            ELSE NoDisplay]
  /\ mapSdm = [s \in Slots |-> IF s = Primary THEN 0 ELSE Unset]
  /\ mapType = [s \in Slots |-> IF s = Primary THEN "Builtin" ELSE "None"]
  /\ power = [s \in Slots |-> "Off"]
  /\ active = [s \in Slots |-> TRUE]
  /\ announced = [s \in Slots |-> FALSE]
  /\ hwConn \in [HwPlug -> BOOLEAN]
  /\ hwEvents = 0
  /\ ueventPending = FALSE
  /\ primaryReady = FALSE
  /\ clientConnected = FALSE
  /\ pc = [t \in Threads |-> IdleItem]
  /\ snap = [t \in Threads |-> {}]
  /\ pending = [t \in Threads |-> << >>]
  /\ misfreed = FALSE

-----------------------------------------------------------------------------
ScanOps == Ops \ {"Idle", "Conc"}
Scanning(t) == pc[t].op \in ScanOps
Idle(t) == pc[t].op = "Idle"

\* The first step of a scan: CreatePluggableDisplays past its primary_ready_
\* guard takes the GetDisplaysStatus snapshot.
StartScan(t) ==
  /\ snap' = [snap EXCEPT ![t] = {h \in HwPlug : hwConn[h]}]
  /\ pending' = [pending EXCEPT ![t] = << >>]
  /\ Goto(t, IF NP > 0 THEN Item("Disc", 1, 0) ELSE Item("Conn", NoSlot, 1))

AfterDisc(s) == IF s < NP THEN Item("Disc", s + 1, 0) ELSE Item("Conn", NoSlot, 1)

MapReset(s) ==
  /\ mapSdm' = [mapSdm EXCEPT ![s] = Unset]
  /\ mapType' = [mapType EXCEPT ![s] = "None"]

(***************************************************************************)
(* Client thread.                                                          *)
(***************************************************************************)
\* RegisterCallback(HOTPLUG), the client's one registration: it runs
\* HandleBuiltInDisplays (the client is not connected yet), then it sends
\* Hotplug(Connected) for every occupied slot.  HandleBuiltInDisplays advances its slot index twice per
\* created display; it stops at the first slot index past the pool and at
\* the first failed Create.
BuiltinSlotOf(k) == NP + 1 + 2 * (k - 1)
BuiltinPlaced == {k \in 1 .. NumHwBuiltin2 : 2 * (k - 1) < NB}
BuiltinsMade ==
  IF CreateMayFail THEN {{k \in BuiltinPlaced : k <= n} : n \in 0 .. NumHwBuiltin2}
  ELSE {BuiltinPlaced}
BuiltinOfSlot(s) == (s - NP + 1) \div 2
BuiltinTable(made) ==
  [s \in Slots |-> IF s \in {BuiltinSlotOf(k) : k \in made}
                   THEN NewDisplay("Builtin", NumHwPluggable + BuiltinOfSlot(s))
                   ELSE disp[s]]
RegisterCallback ==
  /\ Idle("client")
  /\ ~clientConnected
  /\ \E made \in BuiltinsMade :
       LET new == {BuiltinSlotOf(k) : k \in made} IN
       /\ disp' = BuiltinTable(made)
       /\ mapSdm' = [s \in Slots |-> IF s \in new THEN disp'[s].hw ELSE mapSdm[s]]
       /\ mapType' = [s \in Slots |-> IF s \in new THEN "Builtin" ELSE mapType[s]]
       /\ power' = [s \in Slots |-> IF s \in new THEN "Off" ELSE power[s]]
       /\ active' = [s \in Slots |-> IF s \in new THEN TRUE ELSE active[s]]
       /\ announced' = [s \in Slots |-> announced[s] \/ Present(disp', s)]
  /\ clientConnected' = TRUE
  /\ UNCHANGED << hwConn, hwEvents, ueventPending, primaryReady, pc, snap,
                  pending, misfreed >>

\* PresentDisplay(primary) while primary_ready_ is unset: it sets it and,
\* the primary not being pluggable, runs CreatePluggableDisplays(false).
PresentPrimaryFirst ==
  /\ Idle("client")
  /\ clientConnected /\ ~primaryReady
  /\ SerialScans => ~Scanning("uevent")
  /\ primaryReady' = TRUE
  /\ StartScan("client")
  /\ UNCHANGED << disp, mapSdm, mapType, power, active, announced, hwConn,
                  hwEvents, ueventPending, clientConnected, misfreed >>

\* SetPowerMode(s, m): the display's SetPowerMode under its lock; on success
\* HandleConcurrency(s) follows, outside the lock.
SetPowerMode(s, m) ==
  /\ Idle("client")
  /\ clientConnected
  /\ Present(disp, s)
  /\ power' = [power EXCEPT ![s] = m]
  /\ Goto("client", Item("Conc", s, 0))
  /\ UNCHANGED << disp, mapSdm, mapType, active, announced, hwConn, hwEvents,
                  ueventPending, primaryReady, clientConnected, snap, pending,
                  misfreed >>

\* CreateVirtualDisplay -> CreateVirtualDisplayObj: the first free virtual
\* slot gets a virtual display under its lock.  With no free slot, or a
\* failed Create, *out_display_id is never written, and HandleConcurrency
\* runs on whatever id the caller's variable held.
CreateVirtualDisplay ==
  /\ Idle("client")
  /\ clientConnected
  /\ VirtualEarly \/ primaryReady
  /\ IF \E s \in VirtSlots : ~Present(disp, s)
     THEN LET s == FirstFree(VirtSlots) IN
          \E ok \in CreateOutcomes(HwVirtual) :
            IF ok
            THEN /\ disp' = [disp EXCEPT ![s] = NewDisplay("Virtual", HwVirtual)]
                 /\ mapSdm' = [mapSdm EXCEPT ![s] = HwVirtual]
                 /\ mapType' = [mapType EXCEPT ![s] = "Virtual"]
                 /\ power' = [power EXCEPT ![s] = "Off"]
                 /\ active' = [active EXCEPT ![s] = TRUE]
                 /\ Goto("client", Item("Conc", s, 0))
            ELSE /\ UNCHANGED << disp, mapSdm, mapType, power, active >>
                 /\ \E d \in Slots \cup {NoSlot} : Goto("client", Item("Conc", d, 0))
     ELSE /\ UNCHANGED << disp, mapSdm, mapType, power, active >>
          /\ \E d \in Slots \cup {NoSlot} : Goto("client", Item("Conc", d, 0))
  /\ UNCHANGED << announced, hwConn, hwEvents, ueventPending, primaryReady,
                  clientConnected, snap, pending, misfreed >>

\* DestroyVirtualDisplay(d): DestroyDisplay -> DestroyNonPluggableDisplay
\* under the slot lock, then HandleConcurrency(d).
DestroyNonPluggable(s) ==
  IF Present(disp, s)
  THEN /\ disp' = [disp EXCEPT ![s] = NoDisplay]
       /\ MapReset(s)
       /\ misfreed' = (misfreed \/
                        disp[s].kind # IF mapType[s] = "Builtin" THEN "Builtin"
                                                                 ELSE "Virtual")
  ELSE UNCHANGED << disp, mapSdm, mapType, misfreed >>

DestroyVirtualDisplay(d) ==
  /\ Idle("client")
  /\ clientConnected
  /\ d \in VirtSlots
  /\ DestroyNonPluggable(d)
  /\ Goto("client", Item("Conc", d, 0))
  /\ UNCHANGED << power, active, announced, hwConn, hwEvents, ueventPending,
                  primaryReady, clientConnected, snap, pending >>

\* The HandleConcurrency call that ends SetPowerMode and the virtual-display
\* calls.
Conc(t) ==
  /\ pc[t].op = "Conc"
  /\ active' = HandleConcurrency(disp, power, active, pc[t].s)
  /\ Goto(t, IdleItem)
  /\ UNCHANGED << disp, mapSdm, mapType, power, announced, hwConn, hwEvents,
                  ueventPending, primaryReady, clientConnected, snap, pending,
                  misfreed >>

(***************************************************************************)
(* Hardware and the uevent thread.                                        *)
(***************************************************************************)
\* A pluggable display is plugged or unplugged; the kernel sends a uevent.
HwToggle(h) ==
  /\ hwEvents < MaxHwEvents
  /\ hwConn' = [hwConn EXCEPT ![h] = ~@]
  /\ hwEvents' = hwEvents + 1
  /\ ueventPending' = TRUE
  /\ UNCHANGED << disp, mapSdm, mapType, power, active, announced,
                  primaryReady, clientConnected, pc, snap, pending, misfreed >>

\* UEventHandler for a DRM hotplug uevent: CreatePluggableDisplays(true),
\* which returns at once while the primary is not ready.
UEvent ==
  /\ Idle("uevent")
  /\ ueventPending
  /\ SerialScans => ~Scanning("client")
  /\ ueventPending' = FALSE
  /\ IF primaryReady THEN StartScan("uevent")
                     ELSE UNCHANGED << pc, snap, pending >>
  /\ UNCHANGED << disp, mapSdm, mapType, power, active, announced, hwConn,
                  hwEvents, primaryReady, clientConnected, misfreed >>

(***************************************************************************)
(* The steps of a scan (CreatePluggableDisplays), on either thread.        *)
(***************************************************************************)
\* Mutant: a slot counts as connected when its sdm id is listed at all
\* (the is_connected test is lost).
ListedIn(t, s) == mapSdm[s] \in HwPlug

\* HandleDisconnectedDisplays: the slot's sdm id is connected in the
\* thread's snapshot.
ConnectedIn(t, s) == mapSdm[s] \in snap[t]

\* Mutant: the Disconnected notification is skipped.
NotifySkipped(s) == announced' = announced

\* DestroyPluggableDisplay: callbacks_.Hotplug(client_id, Disconnected).
NotifyDisconnected(s) == announced' = [announced EXCEPT ![s] = FALSE]

\* Mutant: DestroyDisplay loses its kPluggable case.
DestroysAsPluggableNever(s) == FALSE

\* DestroyDisplay: the kPluggable case of its switch on disp_type.
DestroysAsPluggable(s) == mapType[s] = "Pluggable"

\* HandleDisconnectedDisplays, slot s: a slot whose sdm id is not connected
\* in the snapshot is destroyed by DestroyDisplay, chosen by its disp_type.
\* DestroyPluggableDisplay first notifies the client (and sleeps) without
\* any lock.
Disc(t) ==
  LET s == pc[t].s IN
  /\ pc[t].op = "Disc"
  /\ IF ConnectedIn(t, s)
     THEN /\ Goto(t, AfterDisc(s))
          /\ UNCHANGED << disp, mapSdm, mapType, announced, misfreed >>
     ELSE IF DestroysAsPluggable(s)
     THEN /\ NotifyDisconnected(s)
          /\ Goto(t, Item("DiscLocked", s, 0))
          /\ UNCHANGED << disp, mapSdm, mapType, misfreed >>
     ELSE /\ DestroyNonPluggable(s)
          /\ Goto(t, AfterDisc(s))
          /\ UNCHANGED announced
  /\ UNCHANGED << power, active, hwConn, hwEvents, ueventPending, primaryReady,
                  clientConnected, snap, pending >>

\* DestroyPluggableDisplay under the slot lock: destroy, reset the map,
\* then HandleConcurrency(s) with the lock still held.
DiscLocked(t) ==
  LET s == pc[t].s
      disp2 == [disp EXCEPT ![s] = NoDisplay]
  IN
  /\ pc[t].op = "DiscLocked"
  /\ IF Present(disp, s)
     THEN /\ disp' = disp2
          /\ MapReset(s)
          /\ misfreed' = (misfreed \/ disp[s].kind # "Pluggable")
          /\ active' = HandleConcurrency(disp2, power, active, s)
     ELSE UNCHANGED << disp, mapSdm, mapType, misfreed, active >>
  /\ Goto(t, AfterDisc(s))
  /\ UNCHANGED << power, announced, hwConn, hwEvents, ueventPending,
                  primaryReady, clientConnected, snap, pending >>

\* HandleConnectedDisplays, hardware display h: when it is connected in the
\* snapshot, the first free pluggable slot gets a display object under its
\* lock; a failed Create ends the scan with an error.
Conn(t) ==
  LET h == pc[t].h IN
  /\ pc[t].op = "Conn"
  /\ IF h > NumHwPluggable
     THEN /\ Goto(t, Item("Finish", NoSlot, 0))
          /\ UNCHANGED << disp, power, active >>
     ELSE IF h \notin snap[t] \/ \A s \in PlugSlots : Present(disp, s)
     THEN /\ Goto(t, Item("Conn", NoSlot, h + 1))
          /\ UNCHANGED << disp, power, active >>
     ELSE LET s == FirstFree(PlugSlots) IN
          \E ok \in CreateOutcomes(h) :
            IF ok
            THEN /\ disp' = [disp EXCEPT ![s] = NewDisplay("Pluggable", h)]
                 /\ power' = [power EXCEPT ![s] = "Off"]
                 /\ active' = [active EXCEPT ![s] = TRUE]
                 /\ Goto(t, Item("MapSet", s, h))
            ELSE /\ Goto(t, IdleItem)
                 /\ UNCHANGED << disp, power, active >>
  /\ UNCHANGED << mapSdm, mapType, announced, hwConn, hwEvents, ueventPending,
                  primaryReady, clientConnected, snap, pending, misfreed >>

\* Mutant: the sdm id, not the client id, is queued for notification.
QueueHotplugSdm(t, s, h) == pending' = [pending EXCEPT ![t] = Append(@, h)]

\* pending_hotplugs.push_back(client_id)
QueueHotplug(t, s, h) == pending' = [pending EXCEPT ![t] = Append(@, s)]

\* After the lock: disp_type and sdm_id are written, the slot is queued for
\* the hotplug notification.
MapSet(t) ==
  LET s == pc[t].s IN
  /\ pc[t].op = "MapSet"
  /\ mapSdm' = [mapSdm EXCEPT ![s] = pc[t].h]
  /\ mapType' = [mapType EXCEPT ![s] = "Pluggable"]
  /\ QueueHotplug(t, s, pc[t].h)
  /\ Goto(t, Item("ConnConc", s, pc[t].h))
  /\ UNCHANGED << disp, power, active, announced, hwConn, hwEvents,
                  ueventPending, primaryReady, clientConnected, snap, misfreed >>

\* HandleConcurrency(client_id) for the new display, then the next
\* hardware display.
ConnConc(t) ==
  /\ pc[t].op = "ConnConc"
  /\ active' = HandleConcurrency(disp, power, active, pc[t].s)
  /\ Goto(t, Item("Conn", NoSlot, pc[t].h + 1))
  /\ UNCHANGED << disp, mapSdm, mapType, power, announced, hwConn, hwEvents,
                  ueventPending, primaryReady, clientConnected, snap, pending,
                  misfreed >>

\* End of HandleConnectedDisplays: with nothing created it returns; else
\* (after revalidating the primary, a refresh and the settling delay) it
\* notifies each created display.
Finish(t) ==
  /\ pc[t].op = "Finish"
  /\ Goto(t, IF pending[t] = << >> THEN IdleItem ELSE Item("Notify", NoSlot, 1))
  /\ UNCHANGED << disp, mapSdm, mapType, power, active, announced, hwConn,
                  hwEvents, ueventPending, primaryReady, clientConnected, snap,
                  pending, misfreed >>

\* callbacks_.Hotplug(client_id, Connected), then HandleConcurrency(client_id).
Notify(t) ==
  LET k == pc[t].h
      s == pending[t][k]
  IN
  /\ pc[t].op = "Notify"
  /\ announced' = [announced EXCEPT ![s] = TRUE]
  /\ active' = HandleConcurrency(disp, power, active, s)
  /\ Goto(t, IF k < Len(pending[t]) THEN Item("Notify", NoSlot, k + 1) ELSE IdleItem)
  /\ UNCHANGED << disp, mapSdm, mapType, power, hwConn, hwEvents, ueventPending,
                  primaryReady, clientConnected, snap, pending, misfreed >>

-----------------------------------------------------------------------------
Next ==
  \/ RegisterCallback
  \/ PresentPrimaryFirst
  \/ \E s \in Slots, m \in Modes : SetPowerMode(s, m)
  \/ CreateVirtualDisplay
  \/ \E d \in VirtSlots : DestroyVirtualDisplay(d)
  \/ \E h \in HwPlug : HwToggle(h)
  \/ UEvent
  \/ \E t \in Threads :
       \/ Conc(t) \/ Disc(t) \/ DiscLocked(t) \/ Conn(t) \/ MapSet(t)
       \/ ConnConc(t) \/ Finish(t) \/ Notify(t)

Spec == Init /\ [][Next]_vars

-----------------------------------------------------------------------------
(***************************************************************************)
(* Properties.                                                             *)
(***************************************************************************)
TypeOK ==
  /\ disp \in [Slots -> Displays]
  /\ mapSdm \in [Slots -> HwIds \cup {Unset}]
  /\ mapType \in [Slots -> Kinds \cup {"None"}]
  /\ power \in [Slots -> Modes]
  /\ active \in [Slots -> BOOLEAN]
  /\ announced \in [Slots -> BOOLEAN]
  /\ hwConn \in [HwPlug -> BOOLEAN]
  /\ hwEvents \in 0 .. MaxHwEvents
  /\ ueventPending \in BOOLEAN
  /\ primaryReady \in BOOLEAN
  /\ clientConnected \in BOOLEAN
  /\ pc \in [Threads -> Items]
  /\ snap \in [Threads -> SUBSET HwPlug]
  /\ pending \in [Threads -> Seq(PlugSlots)]
  /\ misfreed \in BOOLEAN

\* No thread is inside an operation and no uevent waits.
Quiescent == \A t \in Threads : Idle(t) /\ ~ueventPending

PlugActive == \E s \in PlugSlots : Present(disp, s) /\ active[s]
VirtActive == \E s \in VirtSlots : Present(disp, s) /\ active[s]
BuiltinOn == \E s \in BuiltinSlots : Present(disp, s) /\ power[s] # "Off"

\* The builtin half of the concurrency policy (HandleConcurrency: "For two
\* builtins --> Builtin + Builtin"): once every thread is idle, a powered
\* second builtin display never coexists with an active pluggable or
\* virtual display.
BuiltinConcurrency ==
  Quiescent => ~(BuiltinOn /\ (PlugActive \/ VirtActive))

\* The other half (HandleConcurrency: "Activate One of the two connected
\* displays", NonBuiltinConcurrency: "Activate pending Virtual Display"):
\* once every thread is idle and no second builtin display is powered, a
\* pluggable or virtual display that is alone in its half of the policy is
\* active, however often it was deactivated on the way.
ActivationRestored ==
  Quiescent /\ primaryReady /\ ~BuiltinOn =>
    \A s \in PlugSlots \cup VirtSlots :
      /\ Present(disp, s)
      /\ \A r \in (PlugSlots \cup VirtSlots) \ {s} : ~Present(disp, r)
      => active[s]

\* NonBuiltinConcurrency: "Virtual and External cant be active at the same
\* time": once every thread is idle, a pluggable and a virtual display are
\* never both active.
ExtVirtExclusive ==
  Quiescent => ~(PlugActive /\ VirtActive)

\* Hotplug handling (CreatePluggableDisplays): once the uevent thread has
\* caught up, every pluggable slot drives a connected hardware display and
\* its map names it, and every connected pluggable display has a slot
\* unless all slots are taken.
HotplugConsistent ==
  Quiescent /\ primaryReady =>
    /\ \A s \in PlugSlots :
         Present(disp, s) => hwConn[disp[s].hw] /\ mapSdm[s] = disp[s].hw
    /\ \A h \in HwPlug :
         hwConn[h] => Driven(h) \/ \A s \in PlugSlots : Present(disp, s)

\* The client's view (Hotplug callbacks of DestroyPluggableDisplay and
\* HandleConnectedDisplays) agrees with the slot table once the threads
\* are idle.
ClientViewConsistent ==
  Quiescent /\ primaryReady =>
    \A s \in PlugSlots : announced[s] = Present(disp, s)

\* No hardware display drives two display objects (HandleConnectedDisplays
\* picks a free slot for every connected display of the snapshot).
NoDoubleDrive ==
  \A s, r \in Slots :
    s # r /\ Present(disp, s) /\ Present(disp, r) => disp[s].hw # disp[r].hw

\* HandleBuiltInDisplays ("Map Builtin displays that got created during
\* init"): once the client is connected, every connected second builtin
\* display that the builtin pool has room for drives a slot.
BuiltinsMapped ==
  clientConnected /\ ~CreateMayFail =>
    \A k \in 1 .. MinOf(NumHwBuiltin2, NB) : Driven(NumHwPluggable + k)

\* DestroyDisplay never destroys a display object with the routine of
\* another kind (it chooses by the slot's disp_type).
NoMisfree == ~misfreed
====
