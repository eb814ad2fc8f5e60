------------------------- MODULE HwcActivationProofs -------------------------
(***************************************************************************)
(* ActivationRestored, proved for every value of the constants: once both *)
(* threads are idle and no second builtin display is powered, a pluggable  *)
(* or virtual display that is alone in its half of the policy is active.   *)
(* HandleConcurrency deactivates ExtIdx or VirIdx only while the builtin  *)
(* is on or the other of the two is present; every step that ends one of  *)
(* these reasons leaves a HandleConcurrency call pending that reactivates  *)
(* the display: the client's call for the next builtin or for the other   *)
(* display (SetPowerMode, DestroyVirtualDisplay), or the rest of the scan  *)
(* that created the other display (a slot destroyed in its unmapped       *)
(* window), while DestroyPluggableDisplay runs its call under the lock.   *)
(***************************************************************************)
EXTENDS HwcSessionProofs

USE MaxAssumption, HwAssumption

\* NonBuiltinConcurrency's concurrent display of ExtIdx and VirIdx.
Cocu(s) == IF s = ExtIdx THEN VirIdx ELSE ExtIdx

(***************************************************************************)
(* The inductive invariant.                                               *)
(***************************************************************************)
\* HandleConcurrency writes only the activation of ExtIdx and VirIdx.
ActiveOutside == \A s \in Slots \ {ExtIdx, VirIdx} : active[s]
\* The first frame comes after RegisterCallback, and nothing is
\* deactivated before it (HandleConcurrency returns at once).
ReadyConnected == primaryReady => clientConnected
EarlyActive == ~primaryReady => \A s \in Slots : active[s]
\* A pluggable slot's disp_type is set only by HandleConnectedDisplays.
PlugTyped == \A s \in PlugSlots : mapType[s] \in {"Pluggable", "None"}
\* An occupied pluggable slot not yet typed pluggable is in the unlocked
\* window between its Create and the map write of the scan that made it.
BeingMapped ==
  \A s \in PlugSlots :
    Present(disp, s) /\ mapType[s] # "Pluggable" =>
      \E u \in Threads : pc[u].op = "MapSet" /\ pc[u].s = s
\* An inactive display that no longer has a reason to be inactive ...
Stuck(s) ==
  /\ Present(disp, s) /\ ~active[s]
  /\ ~SecondBuiltinOn(disp, power) /\ ~Present(disp, Cocu(s))
\* ... has a HandleConcurrency call pending that reactivates it.
Restorer(s) ==
  \E u \in Threads :
    \/ pc[u].op = "Conc" /\ pc[u].s \in {NextBuiltin(disp), Cocu(s)}
    \/ pc[u].op \in {"MapSet", "ConnConc"} /\ pc[u].s = Cocu(s)
RestorePending == \A s \in {ExtIdx, VirIdx} \cap Slots : Stuck(s) => Restorer(s)

AInv ==
  /\ IInv /\ ActiveOutside /\ ReadyConnected /\ EarlyActive
  /\ PlugTyped /\ BeingMapped /\ RestorePending

-----------------------------------------------------------------------------
(***************************************************************************)
(* The slot layout: ExtIdx and VirIdx are neither builtin slots nor the    *)
(* primary, and a slot and its concurrent display differ when one of them  *)
(* is occupied and the other is not.                                      *)
(***************************************************************************)
LEMMA EVApart ==
  /\ {ExtIdx, VirIdx} \cap (BuiltinSlots \cup {0}) = {}
  /\ \A s \in {ExtIdx, VirIdx} : Cocu(s) \in {ExtIdx, VirIdx}
  /\ ExtIdx \in Slots => ExtIdx \in PlugSlots
  /\ VirIdx \in Slots => VirIdx \in VirtSlots
BY PoolSizes DEF ExtIdx, VirIdx, NoSlot, Cocu, PlugSlots, BuiltinSlots, VirtSlots, Slots, Primary

(***************************************************************************)
(* GetNextBuiltinIndex returns an occupied builtin slot, or 0 when there  *)
(* is none; it depends only on which builtin slots are occupied.         *)
(***************************************************************************)
LEMMA NextBuiltinFirst ==
  ASSUME NEW dsp
  PROVE  \/ NextBuiltin(dsp) = 0
         \/ NextBuiltin(dsp) \in BuiltinSlots /\ Present(dsp, NextBuiltin(dsp))
<1>1. CASE \E s \in BuiltinSlots : Present(dsp, s)
  <2> DEFINE T == {s \in BuiltinSlots : Present(dsp, s)}
  <2>1. T \subseteq Nat /\ T # {}
    BY <1>1, SlotsNat
  <2>2. PICK x \in T : \A y \in T : ~(<<y, x>> \in OpToRel(<, Nat))
    BY <2>1, NatLessThanWellFounded, WFMin
  <2>3. \A y \in T : ~(y < x)
    BY <2>1, <2>2 DEF OpToRel
  <2>4. x \in BuiltinSlots /\ Present(dsp, x)
        /\ \A r \in BuiltinSlots : r < x => ~Present(dsp, r)
    BY <2>3
  <2> QED
    BY <1>1, <2>4 DEF NextBuiltin
<1>2. CASE ~\E s \in BuiltinSlots : Present(dsp, s)
  BY <1>2 DEF NextBuiltin
<1> QED
  BY <1>1, <1>2

LEMMA NextBuiltinFrame ==
  ASSUME NEW d1, NEW d2, \A r \in BuiltinSlots : Present(d1, r) <=> Present(d2, r)
  PROVE  NextBuiltin(d1) = NextBuiltin(d2)
<1> DEFINE First(dsp, s) ==
             Present(dsp, s) /\ \A r \in BuiltinSlots : r < s => ~Present(dsp, r)
<1>1. (\E s \in BuiltinSlots : Present(d1, s)) <=> (\E s \in BuiltinSlots : Present(d2, s))
  OBVIOUS
<1>2. \A s \in BuiltinSlots : First(d1, s) <=> First(d2, s)
  OBVIOUS
<1>3. (CHOOSE s \in BuiltinSlots : First(d1, s)) = (CHOOSE s \in BuiltinSlots : First(d2, s))
  BY <1>2, Zenon
<1>4. CASE \E s \in BuiltinSlots : Present(d1, s)
  <2>1. NextBuiltin(d1) = CHOOSE s \in BuiltinSlots : First(d1, s)
    BY <1>4 DEF NextBuiltin
  <2>2. NextBuiltin(d2) = CHOOSE s \in BuiltinSlots : First(d2, s)
    BY <1>1, <1>4 DEF NextBuiltin
  <2> QED
    BY <2>1, <2>2, <1>3
<1>5. CASE ~\E s \in BuiltinSlots : Present(d1, s)
  BY <1>1, <1>5 DEF NextBuiltin
<1> QED
  BY <1>4, <1>5

\* GetSecondBuiltinStatus reads only the builtin slots.
LEMMA BuiltinApart == (PlugSlots \cup VirtSlots) \cap BuiltinSlots = {}
BY PoolSizes DEF PlugSlots, VirtSlots, BuiltinSlots

LEMMA SecondBuiltinFrame ==
  ASSUME NEW d1, NEW d2, NEW p1, NEW p2,
         \A r \in BuiltinSlots : (Present(d1, r) <=> Present(d2, r)) /\ p1[r] = p2[r]
  PROVE  /\ NextBuiltin(d1) = NextBuiltin(d2)
         /\ SecondBuiltinOn(d1, p1) <=> SecondBuiltinOn(d2, p2)
<1>1. NextBuiltin(d1) = NextBuiltin(d2)
  BY NextBuiltinFrame
<1> QED
  BY <1>1, NextBuiltinFirst DEF SecondBuiltinOn

\* No powered builtin display means no powered next builtin.
LEMMA OffMeansOff ==
  ASSUME NEW dsp, NEW pw,
         ~\E s \in BuiltinSlots : Present(dsp, s) /\ pw[s] # "Off"
  PROVE  ~SecondBuiltinOn(dsp, pw)
BY NextBuiltinFirst DEF SecondBuiltinOn
(***************************************************************************)
(* What HandleConcurrency does to the activation of the displays.         *)
(***************************************************************************)
\* It writes only ExtIdx and VirIdx ...
LEMMA HCFrame ==
  ASSUME NEW dsp, NEW pw, NEW act \in [Slots -> BOOLEAN], NEW d,
         NEW r \in Slots \ {ExtIdx, VirIdx}
  PROVE  HandleConcurrency(dsp, pw, act, d)[r] = act[r]
BY DEF HandleConcurrency, NonBuiltinConcurrency, Activate, Present

\* ... nothing before the first frame ...
LEMMA HCEarly ==
  ASSUME NEW dsp, NEW pw, NEW act, NEW d, ~primaryReady
  PROVE  HandleConcurrency(dsp, pw, act, d) = act
BY DEF HandleConcurrency

\* ... and, while the next builtin is off, it deactivates a display only
\* when its concurrent display is present.
LEMMA HCDeactivates ==
  ASSUME NEW dsp, NEW pw, NEW act \in [Slots -> BOOLEAN], NEW d, NEW s \in Slots,
         act[s], ~HandleConcurrency(dsp, pw, act, d)[s], ~SecondBuiltinOn(dsp, pw)
  PROVE  Present(dsp, Cocu(s))
<1> DEFINE hc == HandleConcurrency(dsp, pw, act, d)
<1>1. CASE ~primaryReady
  BY <1>1 DEF HandleConcurrency
<1>2. CASE primaryReady /\ d = NextBuiltin(dsp)
  BY <1>2 DEF HandleConcurrency, Activate, Present
<1>3. CASE primaryReady /\ d # NextBuiltin(dsp)
  <2>0. SecondBuiltinOn(dsp, pw) = FALSE
    OBVIOUS
  <2>1. hc = NonBuiltinConcurrency(dsp, act, d, FALSE)
    BY <1>3, <2>0, Zenon DEF HandleConcurrency
  <2> QED
    BY <2>1 DEF NonBuiltinConcurrency, Activate, Present, Cocu
<1> QED
  BY <1>1, <1>2, <1>3

\* A pending call for the next builtin, or for the concurrent display,
\* reactivates a display that is alone while the next builtin is off.
LEMMA HCRestores ==
  ASSUME NEW dsp, NEW pw, NEW act \in [Slots -> BOOLEAN],
         NEW s \in {ExtIdx, VirIdx} \cap Slots,
         NEW d \in {NextBuiltin(dsp), Cocu(s)},
         primaryReady, ~SecondBuiltinOn(dsp, pw),
         Present(dsp, s), ~Present(dsp, Cocu(s))
  PROVE  HandleConcurrency(dsp, pw, act, d)[s]
<1>1. Cocu(s) # s /\ Cocu(s) \in {ExtIdx, VirIdx}
  BY EVApart
<1>2. CASE d = NextBuiltin(dsp)
  BY <1>1, <1>2 DEF HandleConcurrency, Activate, Present, Cocu
<1>3. CASE d = Cocu(s) /\ d # NextBuiltin(dsp)
  <2>0. SecondBuiltinOn(dsp, pw) = FALSE
    OBVIOUS
  <2>1. HandleConcurrency(dsp, pw, act, d) = NonBuiltinConcurrency(dsp, act, d, FALSE)
    BY <1>3, <2>0, Zenon DEF HandleConcurrency
  <2>2. (IF d = ExtIdx THEN VirIdx ELSE ExtIdx) = s
    BY <1>1, <1>3 DEF Cocu
  <2> QED
    BY <1>1, <1>3, <2>1, <2>2 DEF NonBuiltinConcurrency, Activate, Present
<1> QED
  BY <1>2, <1>3
-----------------------------------------------------------------------------
(***************************************************************************)
(* A step of a thread that is not itself a restorer, and leaves the        *)
(* builtin slots alone, keeps every pending restorer and every pending    *)
(* map write of the other thread.                                         *)
(***************************************************************************)
LEMMA RestorerKept ==
  ASSUME pc \in [Threads -> Items], NEW t \in Threads, NEW it, Goto(t, it),
         pc[t].op \notin {"Conc", "MapSet", "ConnConc"},
         NextBuiltin(disp') = NextBuiltin(disp), NEW s, Restorer(s)
  PROVE  Restorer(s)'
<1>1. PICK u \in Threads :
        \/ pc[u].op = "Conc" /\ pc[u].s \in {NextBuiltin(disp), Cocu(s)}
        \/ pc[u].op \in {"MapSet", "ConnConc"} /\ pc[u].s = Cocu(s)
  BY DEF Restorer
<1>2. u # t /\ pc'[u] = pc[u]
  BY <1>1 DEF Goto
<1> QED
  BY <1>1, <1>2 DEF Restorer

LEMMA MappedKept ==
  ASSUME pc \in [Threads -> Items], NEW t \in Threads, NEW it, Goto(t, it),
         pc[t].op # "MapSet", NEW s,
         \E u \in Threads : pc[u].op = "MapSet" /\ pc[u].s = s
  PROVE  \E u \in Threads : pc'[u].op = "MapSet" /\ pc'[u].s = s
BY DEF Goto

\* A step that moves one such thread and changes nothing the invariant
\* reads keeps it.
LEMMA PcOnlyAInv ==
  ASSUME AInv, IInv', NEW t \in Threads, NEW it, Goto(t, it),
         pc[t].op \notin {"Conc", "MapSet", "ConnConc"},
         UNCHANGED << disp, mapType, power, active, primaryReady, clientConnected >>
  PROVE  AInv'
<1>1. pc \in [Threads -> Items]
  BY DEF AInv, IInv, TypeOK
<1>2. BeingMapped'
  BY <1>1, MappedKept DEF AInv, BeingMapped
<1>3. RestorePending'
  <2> SUFFICES ASSUME NEW s \in {ExtIdx, VirIdx} \cap Slots, Stuck(s)'
               PROVE  Restorer(s)'
    BY DEF RestorePending
  <2>1. Restorer(s)
    BY DEF AInv, RestorePending, Stuck
  <2> QED
    BY <1>1, <2>1, RestorerKept
<1> QED
  BY <1>2, <1>3 DEF AInv, ActiveOutside, ReadyConnected, EarlyActive, PlugTyped
LEMMA UnchangedAInv ==
  ASSUME AInv, IInv',
         UNCHANGED << disp, mapType, power, active, primaryReady, clientConnected, pc >>
  PROVE  AInv'
BY DEF AInv, ActiveOutside, ReadyConnected, EarlyActive, PlugTyped, BeingMapped,
       RestorePending, Stuck, Restorer

-----------------------------------------------------------------------------
(***************************************************************************)
(* The steps before the first frame, and the steps that move only a       *)
(* thread.                                                                 *)
(***************************************************************************)
LEMMA InitAInv == Init => AInv
<1> SUFFICES ASSUME Init PROVE AInv
  OBVIOUS
<1>1. \A s \in PlugSlots : ~Present(disp, s) /\ mapType[s] = "None"
  BY PoolSizes DEF Init, Present, PlugSlots, Slots, Primary
<1>2. \A s \in Slots : active[s]
  BY DEF Init
<1>3. BeingMapped /\ PlugTyped
  BY <1>1 DEF BeingMapped, PlugTyped
<1>4. RestorePending
  BY <1>2 DEF RestorePending, Stuck
<1> QED
  BY <1>2, <1>3, <1>4, InitIInv DEF Init, AInv, ActiveOutside, ReadyConnected, EarlyActive

\* HandleBuiltInDisplays places its displays in builtin slots only.
LEMMA RegisterCallbackAInv ==
  ASSUME AInv, RegisterCallback
  PROVE  AInv'
<1>1. PICK made \in BuiltinsMade :
        LET new == {BuiltinSlotOf(k) : k \in made} IN
        /\ disp' = BuiltinTable(made)
        /\ mapType' = [s \in Slots |-> IF s \in new THEN "Builtin" ELSE mapType[s]]
        /\ active' = [s \in Slots |-> IF s \in new THEN TRUE ELSE active[s]]
  BY DEF RegisterCallback
<1>2. {BuiltinSlotOf(k) : k \in made} \subseteq BuiltinSlots
  BY PoolSizes DEF BuiltinsMade, BuiltinPlaced, BuiltinSlotOf, BuiltinSlots
<1>3. \A s \in PlugSlots : disp'[s] = disp[s] /\ mapType'[s] = mapType[s]
  BY <1>1, <1>2, BuiltinApart, SlotsNat DEF BuiltinTable
<1>4. ~primaryReady /\ \A s \in Slots : active'[s]
  BY <1>1 DEF RegisterCallback, AInv, ReadyConnected, EarlyActive
<1>5. IInv'
  BY RegisterCallbackIInv DEF AInv
<1>6. UNCHANGED << pc, primaryReady >> /\ clientConnected'
  BY DEF RegisterCallback
<1>7. BeingMapped'
  BY <1>3, <1>6, SlotsNat DEF AInv, BeingMapped, Present
<1>8. PlugTyped'
  BY <1>3 DEF AInv, PlugTyped
<1> QED
  BY <1>4, <1>5, <1>6, <1>7, <1>8 DEF AInv, ActiveOutside, ReadyConnected, EarlyActive,
     RestorePending, Stuck

\* The first frame: nothing is inactive yet.
LEMMA PresentPrimaryFirstAInv ==
  ASSUME AInv, PresentPrimaryFirst
  PROVE  AInv'
<1>1. \A s \in Slots : active'[s]
  BY DEF PresentPrimaryFirst, AInv, EarlyActive
<1>2. IInv'
  BY PresentPrimaryFirstIInv DEF AInv
<1>3. pc \in [Threads -> Items] /\ pc["client"].op = "Idle" /\ "client" \in Threads
  BY DEF AInv, IInv, TypeOK, PresentPrimaryFirst, Idle, Threads
<1>4. BeingMapped'
  BY <1>3, MappedKept DEF PresentPrimaryFirst, StartScan, AInv, BeingMapped
<1> QED
  BY <1>1, <1>2, <1>4 DEF PresentPrimaryFirst, AInv, ActiveOutside, ReadyConnected,
     EarlyActive, PlugTyped, RestorePending, Stuck

LEMMA UEventAInv ==
  ASSUME AInv, UEvent
  PROVE  AInv'
<1>1. IInv'
  BY UEventIInv DEF AInv
<1>2. CASE primaryReady
  <2>1. "uevent" \in Threads /\ pc["uevent"].op = "Idle"
    BY DEF UEvent, Idle, Threads
  <2> QED
    BY <1>1, <1>2, <2>1, PcOnlyAInv DEF UEvent, StartScan
<1>3. CASE ~primaryReady
  BY <1>1, <1>3, UnchangedAInv DEF UEvent
<1> QED
  BY <1>2, <1>3

LEMMA HwToggleAInv ==
  ASSUME AInv, NEW h \in HwPlug, HwToggle(h)
  PROVE  AInv'
BY HwToggleIInv, UnchangedAInv DEF AInv, HwToggle

LEMMA FinishAInv ==
  ASSUME AInv, NEW t \in Threads, Finish(t)
  PROVE  AInv'
BY FinishIInv, PcOnlyAInv DEF AInv, Finish
-----------------------------------------------------------------------------
(***************************************************************************)
(* The client's calls.                                                    *)
(***************************************************************************)
\* Powering off the next builtin ends the reason for its deactivations;
\* the client's HandleConcurrency for that builtin is then pending.
LEMMA SetPowerModeAInv ==
  ASSUME AInv, NEW s0 \in Slots, NEW m \in Modes, SetPowerMode(s0, m)
  PROVE  AInv'
<1>1. IInv'
  BY SetPowerModeIInv DEF AInv
<1>2. pc \in [Threads -> Items] /\ pc["client"].op = "Idle" /\ "client" \in Threads
  BY DEF AInv, IInv, TypeOK, SetPowerMode, Idle, Threads
<1>3. Goto("client", Item("Conc", s0, 0))
  BY DEF SetPowerMode
<1>4. BeingMapped'
  BY <1>2, <1>3, MappedKept DEF SetPowerMode, AInv, BeingMapped
<1>5. RestorePending'
  <2> SUFFICES ASSUME NEW r \in {ExtIdx, VirIdx} \cap Slots, Stuck(r)'
               PROVE  Restorer(r)'
    BY DEF RestorePending
  <2>1. /\ Present(disp, r) /\ ~active[r] /\ ~Present(disp, Cocu(r))
        /\ ~SecondBuiltinOn(disp, power')
    BY DEF Stuck, SetPowerMode
  <2>2. CASE SecondBuiltinOn(disp, power)
    <3> DEFINE nb == NextBuiltin(disp)
    <3>1. nb \in BuiltinSlots /\ power[nb] # "Off" /\ power'[nb] = "Off"
      BY <2>1, <2>2, NextBuiltinFirst DEF SecondBuiltinOn
    <3>2. nb = s0
      BY <3>1, SlotsNat DEF SetPowerMode, AInv, IInv, TypeOK
    <3>3. pc'["client"] = Item("Conc", s0, 0)
      BY <1>2, <1>3 DEF Goto
    <3> QED
      BY <1>2, <3>2, <3>3 DEF Restorer, Item, SetPowerMode
  <2>3. CASE ~SecondBuiltinOn(disp, power)
    <3>1. Restorer(r)
      BY <2>1, <2>3 DEF AInv, RestorePending, Stuck
    <3> QED
      BY <1>2, <1>3, <3>1, RestorerKept DEF SetPowerMode
  <2> QED
    BY <2>2, <2>3
<1> QED
  BY <1>1, <1>4, <1>5 DEF SetPowerMode, AInv, ActiveOutside, ReadyConnected, EarlyActive,
     PlugTyped
\* A display created, active, in a pluggable or virtual slot can only end
\* the loneliness of the other display of the pair.
LEMMA CreateKeepsRestore ==
  ASSUME AInv, NEW s \in PlugSlots \cup VirtSlots, NEW dd, dd # NoDisplay,
         disp' = [disp EXCEPT ![s] = dd],
         power' = [power EXCEPT ![s] = "Off"],
         active' = [active EXCEPT ![s] = TRUE],
         NEW t \in Threads, NEW it, Goto(t, it),
         pc[t].op \notin {"Conc", "MapSet", "ConnConc"}
  PROVE  RestorePending'
<1> SUFFICES ASSUME NEW r \in {ExtIdx, VirIdx} \cap Slots, Stuck(r)'
             PROVE  Restorer(r)'
  BY DEF RestorePending
<1>1. s \in Slots /\ s \notin BuiltinSlots
  BY SlotsNat, BuiltinApart
<1>2. \A b \in BuiltinSlots : (Present(disp', b) <=> Present(disp, b)) /\ power'[b] = power[b]
  BY <1>1, SlotsNat DEF Present
<1>3. NextBuiltin(disp') = NextBuiltin(disp)
      /\ (SecondBuiltinOn(disp', power') <=> SecondBuiltinOn(disp, power))
  BY <1>2, SecondBuiltinFrame
<1>4. r # s /\ Cocu(r) # s
  BY <1>1 DEF Stuck, Present, AInv, IInv, TypeOK
<1>5. Stuck(r)
  <2>1. Cocu(r) \in {ExtIdx, VirIdx}
    BY EVApart
  <2> QED
    BY <1>3, <1>4, <2>1 DEF Stuck, Present, AInv, IInv, TypeOK
<1>6. pc \in [Threads -> Items]
  BY DEF AInv, IInv, TypeOK
<1> QED
  BY <1>3, <1>5, <1>6, RestorerKept DEF AInv, RestorePending

\* CreateVirtualDisplay: the created display is active, and a failed or
\* impossible creation changes nothing but the pending call.
LEMMA CreateVirtualDisplayAInv ==
  ASSUME AInv, CreateVirtualDisplay
  PROVE  AInv'
<1>1. IInv'
  BY CreateVirtualDisplayIInv DEF AInv
<1>2. pc \in [Threads -> Items] /\ pc["client"].op = "Idle" /\ "client" \in Threads
  BY DEF AInv, IInv, TypeOK, CreateVirtualDisplay, Idle, Threads
<1>3. CASE \E s \in VirtSlots : ~Present(disp, s)
  <2> DEFINE s == FirstFree(VirtSlots)
  <2>1. s \in VirtSlots
    BY <1>3, SlotsNat, FirstFreeIsFree
  <2>2. CASE /\ disp' = [disp EXCEPT ![s] = NewDisplay("Virtual", HwVirtual)]
             /\ mapType' = [mapType EXCEPT ![s] = "Virtual"]
             /\ power' = [power EXCEPT ![s] = "Off"]
             /\ active' = [active EXCEPT ![s] = TRUE]
             /\ Goto("client", Item("Conc", s, 0))
    <3>1. s \notin PlugSlots /\ s \in Slots
      BY <2>1, PoolSizes, SlotsNat DEF PlugSlots, VirtSlots
    <3>2. \A p \in PlugSlots : disp'[p] = disp[p] /\ mapType'[p] = mapType[p]
      BY <2>2, <3>1, SlotsNat DEF AInv, IInv, TypeOK
    <3>3. BeingMapped'
      <4>1. \A p \in PlugSlots : Present(disp', p) <=> Present(disp, p)
        BY <3>2 DEF Present
      <4> QED
        BY <1>2, <2>2, <3>2, <4>1, MappedKept DEF AInv, BeingMapped
    <3>4. RestorePending'
      BY <1>2, <2>1, <2>2, CreateKeepsRestore DEF NewDisplay, NoDisplay
    <3>5. ActiveOutside' /\ EarlyActive' /\ PlugTyped'
      BY <2>2, <3>2 DEF CreateVirtualDisplay, AInv, ActiveOutside, EarlyActive, PlugTyped,
         IInv, TypeOK
    <3> QED
      BY <1>1, <3>3, <3>4, <3>5 DEF CreateVirtualDisplay, AInv, ReadyConnected
  <2>3. CASE /\ UNCHANGED << disp, mapSdm, mapType, power, active >>
             /\ \E d \in Slots \cup {NoSlot} : Goto("client", Item("Conc", d, 0))
    BY <1>1, <1>2, <2>3, PcOnlyAInv DEF CreateVirtualDisplay
  <2> QED
    BY <1>3, <2>2, <2>3 DEF CreateVirtualDisplay
<1>4. CASE ~\E s \in VirtSlots : ~Present(disp, s)
  BY <1>1, <1>2, <1>4, PcOnlyAInv DEF CreateVirtualDisplay
<1> QED
  BY <1>3, <1>4
\* DestroyVirtualDisplay: the destroyed display's pair partner is left to
\* the client's HandleConcurrency for the destroyed id.
LEMMA DestroyVirtualDisplayAInv ==
  ASSUME AInv, NEW d \in VirtSlots, DestroyVirtualDisplay(d)
  PROVE  AInv'
<1>1. IInv'
  BY DestroyVirtualDisplayIInv DEF AInv
<1>2. pc \in [Threads -> Items] /\ pc["client"].op = "Idle" /\ "client" \in Threads
  BY DEF AInv, IInv, TypeOK, DestroyVirtualDisplay, Idle, Threads
<1>3. d \in Slots /\ d \notin PlugSlots /\ d \notin BuiltinSlots
  BY PoolSizes, SlotsNat, BuiltinApart DEF PlugSlots, VirtSlots
<1>4. /\ \A x \in Slots \ {d} : disp'[x] = disp[x] /\ mapType'[x] = mapType[x]
      /\ Present(disp', d) => Present(disp, d)
  BY <1>3 DEF DestroyVirtualDisplay, DestroyNonPluggable, MapReset, Present, AInv, IInv,
     TypeOK
<1>5. Goto("client", Item("Conc", d, 0)) /\ UNCHANGED << power, active >>
  BY DEF DestroyVirtualDisplay
<1>6. BeingMapped' /\ PlugTyped'
  BY <1>2, <1>3, <1>4, <1>5, SlotsNat, MappedKept DEF AInv, BeingMapped, PlugTyped, Present
<1>7. RestorePending'
  <2> SUFFICES ASSUME NEW r \in {ExtIdx, VirIdx} \cap Slots, Stuck(r)'
               PROVE  Restorer(r)'
    BY DEF RestorePending
  <2>1. CASE Cocu(r) = d
    BY <1>2, <1>5, <2>1 DEF Goto, Restorer, Item
  <2>2. CASE Cocu(r) # d
    <3>1. \A b \in BuiltinSlots : (Present(disp', b) <=> Present(disp, b)) /\ power'[b] = power[b]
      BY <1>3, <1>4, <1>5, SlotsNat DEF Present
    <3>2. NextBuiltin(disp') = NextBuiltin(disp)
          /\ (SecondBuiltinOn(disp', power') <=> SecondBuiltinOn(disp, power))
      BY <3>1, SecondBuiltinFrame
    <3>3. Cocu(r) \in {ExtIdx, VirIdx}
      BY EVApart
    <3>4. Present(disp, r) /\ ~Present(disp, Cocu(r))
      BY <1>4, <2>2, <3>3 DEF Stuck, Present
    <3>5. Stuck(r)
      BY <1>5, <3>2, <3>4 DEF Stuck
    <3> QED
      BY <1>2, <1>5, <3>2, <3>5, RestorerKept DEF AInv, RestorePending
  <2> QED
    BY <2>1, <2>2
<1> QED
  BY <1>1, <1>5, <1>6, <1>7 DEF DestroyVirtualDisplay, AInv, ActiveOutside, ReadyConnected,
     EarlyActive
-----------------------------------------------------------------------------
(***************************************************************************)
(* The HandleConcurrency calls on the current slot table (after a client  *)
(* call, after a created pluggable display, after a notification): a     *)
(* deactivation needs the concurrent display present, and a pending call  *)
(* that reactivates a lonely display does so when it runs.               *)
(***************************************************************************)
LEMMA HCStepAInv ==
  ASSUME AInv, IInv', NEW t \in Threads, NEW d, NEW it, Goto(t, it),
         active' = HandleConcurrency(disp, power, active, d),
         pc[t].op \in {"Conc", "ConnConc", "Notify"},
         pc[t].op \in {"Conc", "ConnConc"} => d = pc[t].s,
         UNCHANGED << disp, mapType, power, primaryReady, clientConnected >>
  PROVE  AInv'
<1>1. pc \in [Threads -> Items] /\ active \in [Slots -> BOOLEAN]
  BY DEF AInv, IInv, TypeOK
<1>2. ActiveOutside'
  BY <1>1, HCFrame DEF AInv, ActiveOutside
<1>3. EarlyActive'
  BY <1>1, HCEarly DEF AInv, EarlyActive
<1>4. BeingMapped'
  BY <1>1, MappedKept DEF AInv, BeingMapped
<1>5. RestorePending'
  <2> SUFFICES ASSUME NEW r \in {ExtIdx, VirIdx} \cap Slots, Stuck(r)'
               PROVE  Restorer(r)'
    BY DEF RestorePending
  <2>1. /\ Present(disp, r) /\ ~HandleConcurrency(disp, power, active, d)[r]
        /\ ~SecondBuiltinOn(disp, power) /\ ~Present(disp, Cocu(r))
    BY DEF Stuck
  <2>2. ~active[r]
    BY <1>1, <2>1, HCDeactivates
  <2>3. primaryReady
    BY <2>2 DEF AInv, EarlyActive
  <2>4. PICK u \in Threads :
          \/ pc[u].op = "Conc" /\ pc[u].s \in {NextBuiltin(disp), Cocu(r)}
          \/ pc[u].op \in {"MapSet", "ConnConc"} /\ pc[u].s = Cocu(r)
    BY <2>1, <2>2 DEF AInv, RestorePending, Stuck, Restorer
  <2>5. u # t
    <3> SUFFICES ASSUME u = t PROVE FALSE
      OBVIOUS
    <3>1. d \in {NextBuiltin(disp), Cocu(r)}
      BY <2>4
    <3>2. HandleConcurrency(disp, power, active, d)[r]
      BY <1>1, <2>1, <2>3, <3>1, HCRestores
    <3> QED
      BY <2>1, <3>2
  <2> QED
    BY <2>4, <2>5 DEF Goto, Restorer
<1> QED
  BY <1>2, <1>3, <1>4, <1>5 DEF AInv, ReadyConnected, PlugTyped

LEMMA ConcAInv ==
  ASSUME AInv, NEW t \in Threads, Conc(t)
  PROVE  AInv'
BY ConcIInv, HCStepAInv DEF AInv, Conc

LEMMA ConnConcAInv ==
  ASSUME AInv, NEW t \in Threads, ConnConc(t)
  PROVE  AInv'
BY ConnConcIInv, HCStepAInv DEF AInv, ConnConc

LEMMA NotifyAInv ==
  ASSUME AInv, NEW t \in Threads, Notify(t)
  PROVE  AInv'
BY NotifyIInv, HCStepAInv DEF AInv, Notify
-----------------------------------------------------------------------------
(***************************************************************************)
(* The steps of a scan that change the table or the map.                  *)
(***************************************************************************)
\* The map write ends the unmapped window of its slot and passes the
\* restorer role to the HandleConcurrency that follows it.
LEMMA MapSetAInv ==
  ASSUME AInv, NEW t \in Threads, MapSet(t)
  PROVE  AInv'
<1> DEFINE s == pc[t].s
<1>1. IInv'
  BY MapSetIInv DEF AInv
<1>2. s \in PlugSlots /\ pc[t].op = "MapSet" /\ pc \in [Threads -> Items]
  BY DEF MapSet, AInv, IInv, PcOK, TypeOK
<1>3. pc'[t] = Item("ConnConc", s, pc[t].h) /\ \A u \in Threads \ {t} : pc'[u] = pc[u]
  BY <1>2 DEF MapSet, Goto
<1>4. mapType' = [mapType EXCEPT ![s] = "Pluggable"] /\ UNCHANGED << disp, power, active >>
  BY DEF MapSet
<1>5. PlugTyped'
  BY <1>2, <1>4, SlotsNat DEF AInv, PlugTyped, IInv, TypeOK
<1>6. BeingMapped'
  <2> SUFFICES ASSUME NEW p \in PlugSlots, Present(disp, p), mapType'[p] # "Pluggable"
               PROVE  \E u \in Threads : pc'[u].op = "MapSet" /\ pc'[u].s = p
    BY <1>4 DEF BeingMapped, Present
  <2>1. p # s /\ mapType[p] # "Pluggable"
    BY <1>2, <1>4, SlotsNat DEF AInv, IInv, TypeOK
  <2>2. PICK u \in Threads : pc[u].op = "MapSet" /\ pc[u].s = p
    BY <2>1 DEF AInv, BeingMapped
  <2> QED
    BY <1>3, <2>1, <2>2
<1>7. RestorePending'
  <2> SUFFICES ASSUME NEW r \in {ExtIdx, VirIdx} \cap Slots, Stuck(r)'
               PROVE  Restorer(r)'
    BY DEF RestorePending
  <2>1. PICK u \in Threads :
          \/ pc[u].op = "Conc" /\ pc[u].s \in {NextBuiltin(disp), Cocu(r)}
          \/ pc[u].op \in {"MapSet", "ConnConc"} /\ pc[u].s = Cocu(r)
    BY <1>4 DEF AInv, RestorePending, Stuck, Restorer
  <2>2. CASE u = t
    BY <1>2, <1>3, <1>4, <2>1, <2>2 DEF Restorer, Item
  <2>3. CASE u # t
    BY <1>3, <1>4, <2>1, <2>3 DEF Restorer
  <2> QED
    BY <2>2, <2>3
<1> QED
  BY <1>1, <1>4, <1>5, <1>6, <1>7 DEF MapSet, AInv, ActiveOutside, ReadyConnected,
     EarlyActive
\* HandleConnectedDisplays' Create: the new display is active, and its slot
\* is unmapped until this thread's map write.
LEMMA ConnAInv ==
  ASSUME AInv, NEW t \in Threads, Conn(t)
  PROVE  AInv'
<1> DEFINE hh == pc[t].h
<1>1. IInv' /\ pc[t].op = "Conn" /\ pc \in [Threads -> Items] /\ hh \in Nat
  BY ConnIInv DEF AInv, Conn, IInv, TypeOK, Items
<1>2. UNCHANGED << mapType, primaryReady, clientConnected >>
  BY DEF Conn
<1>3. CASE hh > NumHwPluggable
  BY <1>1, <1>2, <1>3, PcOnlyAInv DEF Conn
<1>4. CASE hh <= NumHwPluggable /\ (hh \notin snap[t] \/ \A s \in PlugSlots : Present(disp, s))
  BY <1>1, <1>2, <1>4, PcOnlyAInv DEF Conn
<1>5. CASE hh <= NumHwPluggable /\ hh \in snap[t] /\ \E s \in PlugSlots : ~Present(disp, s)
  <2> DEFINE ff == FirstFree(PlugSlots)
  <2>1. ff \in PlugSlots
    BY <1>5, FirstFreeIsFree, SlotsNat
  <2>2. PICK ok \in CreateOutcomes(hh) :
          IF ok
          THEN /\ disp' = [disp EXCEPT ![ff] = NewDisplay("Pluggable", hh)]
               /\ power' = [power EXCEPT ![ff] = "Off"]
               /\ active' = [active EXCEPT ![ff] = TRUE]
               /\ Goto(t, Item("MapSet", ff, hh))
          ELSE /\ Goto(t, IdleItem)
               /\ UNCHANGED << disp, power, active >>
    BY <1>1, <1>5 DEF Conn
  <2>3. CASE ok
    <3>1. /\ disp' = [disp EXCEPT ![ff] = NewDisplay("Pluggable", hh)]
          /\ power' = [power EXCEPT ![ff] = "Off"]
          /\ active' = [active EXCEPT ![ff] = TRUE]
          /\ Goto(t, Item("MapSet", ff, hh))
      BY <2>2, <2>3
    <3>2. RestorePending'
      BY <1>1, <2>1, <3>1, CreateKeepsRestore DEF NewDisplay, NoDisplay
    <3>3. BeingMapped'
      <4> SUFFICES ASSUME NEW p \in PlugSlots, Present(disp', p), mapType'[p] # "Pluggable"
                   PROVE  \E u \in Threads : pc'[u].op = "MapSet" /\ pc'[u].s = p
        BY DEF BeingMapped
      <4>1. CASE p = ff
        BY <1>1, <3>1, <4>1 DEF Goto, Item
      <4>2. CASE p # ff
        <5>1. Present(disp, p) /\ mapType[p] # "Pluggable"
          BY <1>2, <3>1, <4>2, SlotsNat DEF Present
        <5>2. PICK u \in Threads : pc[u].op = "MapSet" /\ pc[u].s = p
          BY <5>1 DEF AInv, BeingMapped
        <5> QED
          BY <1>1, <3>1, <5>2 DEF Goto
      <4> QED
        BY <4>1, <4>2
    <3>4. ActiveOutside' /\ EarlyActive'
      BY <1>2, <3>1 DEF AInv, ActiveOutside, EarlyActive, IInv, TypeOK
    <3> QED
      BY <1>1, <1>2, <3>2, <3>3, <3>4 DEF AInv, ReadyConnected, PlugTyped
  <2>4. CASE ~ok
    BY <1>1, <1>2, <2>2, <2>4, PcOnlyAInv
  <2> QED
    BY <2>3, <2>4
<1> QED
  BY <1>1, <1>3, <1>4, <1>5
\* HandleDisconnectedDisplays on a slot still unmapped (its creating scan
\* has not written disp_type yet) takes the DestroyNonPluggable path; the
\* creating scan's HandleConcurrency for that slot is still to come.
LEMMA DiscAInv ==
  ASSUME AInv, NEW t \in Threads, Disc(t)
  PROVE  AInv'
<1> DEFINE s == pc[t].s
<1>1. /\ IInv' /\ pc[t].op = "Disc" /\ pc \in [Threads -> Items] /\ s \in PlugSlots
      /\ UNCHANGED << power, active, primaryReady, clientConnected >>
  BY DiscIInv DEF AInv, Disc, IInv, TypeOK, PcOK
<1>2. CASE ConnectedIn(t, s)
  BY <1>1, <1>2, PcOnlyAInv DEF Disc
<1>3. CASE ~ConnectedIn(t, s) /\ mapType[s] = "Pluggable"
  BY <1>1, <1>3, PcOnlyAInv DEF Disc, DestroysAsPluggable
<1>4. CASE ~ConnectedIn(t, s) /\ mapType[s] # "Pluggable" /\ ~Present(disp, s)
  BY <1>1, <1>4, PcOnlyAInv DEF Disc, DestroysAsPluggable, DestroyNonPluggable
<1>5. CASE ~ConnectedIn(t, s) /\ mapType[s] # "Pluggable" /\ Present(disp, s)
  <2>1. /\ disp' = [disp EXCEPT ![s] = NoDisplay]
        /\ mapType' = [mapType EXCEPT ![s] = "None"]
        /\ Goto(t, AfterDisc(s))
    BY <1>5 DEF Disc, DestroysAsPluggable, DestroyNonPluggable, MapReset
  <2>2. s \in Slots /\ s \notin BuiltinSlots
    BY <1>1, SlotsNat, BuiltinApart
  <2>3. \A x \in Slots \ {s} : disp'[x] = disp[x] /\ mapType'[x] = mapType[x]
    BY <2>1 DEF AInv, IInv, TypeOK
  <2>4. PICK w \in Threads : pc[w].op = "MapSet" /\ pc[w].s = s
    BY <1>1, <1>5 DEF AInv, BeingMapped
  <2>5. w # t /\ pc'[w] = pc[w]
    BY <1>1, <2>1, <2>4 DEF Goto
  <2>6. PlugTyped'
    BY <1>1, <2>1, <2>2 DEF AInv, PlugTyped, IInv, TypeOK
  <2>7. BeingMapped'
    <3> SUFFICES ASSUME NEW p \in PlugSlots, Present(disp', p), mapType'[p] # "Pluggable"
                 PROVE  \E u \in Threads : pc'[u].op = "MapSet" /\ pc'[u].s = p
      BY DEF BeingMapped
    <3>1. p # s /\ Present(disp, p) /\ mapType[p] # "Pluggable"
      BY <2>1, <2>2, <2>3, SlotsNat DEF Present, AInv, IInv, TypeOK
    <3> QED
      BY <1>1, <2>1, <3>1, MappedKept DEF AInv, BeingMapped
  <2>8. RestorePending'
    <3> SUFFICES ASSUME NEW r \in {ExtIdx, VirIdx} \cap Slots, Stuck(r)'
                 PROVE  Restorer(r)'
      BY DEF RestorePending
    <3>1. CASE Cocu(r) = s
      BY <2>4, <2>5, <3>1 DEF Restorer
    <3>2. CASE Cocu(r) # s
      <4>1. \A b \in BuiltinSlots : (Present(disp', b) <=> Present(disp, b)) /\ power'[b] = power[b]
        BY <1>1, <2>2, <2>3, SlotsNat DEF Present
      <4>2. NextBuiltin(disp') = NextBuiltin(disp)
            /\ (SecondBuiltinOn(disp', power') <=> SecondBuiltinOn(disp, power))
        BY <4>1, SecondBuiltinFrame
      <4>3. Cocu(r) \in {ExtIdx, VirIdx}
        BY EVApart
      <4>4. Present(disp, r) /\ ~Present(disp, Cocu(r))
        BY <2>1, <2>3, <3>2, <4>3 DEF Stuck, Present, NoDisplay
      <4>5. Stuck(r)
        BY <1>1, <4>2, <4>4 DEF Stuck
      <4> QED
        BY <1>1, <2>1, <4>2, <4>5, AfterDiscType, RestorerKept DEF AInv, RestorePending
    <3> QED
      BY <3>1, <3>2
  <2> QED
    BY <1>1, <2>6, <2>7, <2>8 DEF AInv, ActiveOutside, ReadyConnected, EarlyActive
<1> QED
  BY <1>2, <1>3, <1>4, <1>5
\* DestroyPluggableDisplay under the lock: the HandleConcurrency for the
\* destroyed slot, run on the table without it, reactivates its partner.
LEMMA DiscLockedAInv ==
  ASSUME AInv, NEW t \in Threads, DiscLocked(t)
  PROVE  AInv'
<1> DEFINE s == pc[t].s
           disp2 == [disp EXCEPT ![s] = NoDisplay]
<1>1. /\ IInv' /\ pc[t].op = "DiscLocked" /\ pc \in [Threads -> Items] /\ s \in PlugSlots
      /\ active \in [Slots -> BOOLEAN] /\ Goto(t, AfterDisc(s))
      /\ UNCHANGED << power, primaryReady, clientConnected >>
  BY DiscLockedIInv DEF AInv, DiscLocked, IInv, TypeOK, PcOK
<1>2. CASE ~Present(disp, s)
  BY <1>1, <1>2, PcOnlyAInv DEF DiscLocked
<1>3. CASE Present(disp, s)
  <2>1. /\ disp' = disp2
        /\ mapType' = [mapType EXCEPT ![s] = "None"]
        /\ active' = HandleConcurrency(disp2, power, active, s)
    BY <1>3 DEF DiscLocked, MapReset
  <2>2. s \in Slots /\ s \notin BuiltinSlots
    BY <1>1, SlotsNat, BuiltinApart
  <2>3. \A x \in Slots \ {s} : disp'[x] = disp[x] /\ mapType'[x] = mapType[x]
    BY <2>1 DEF AInv, IInv, TypeOK
  <2>4. ~Present(disp', s)
    BY <2>1, <2>2 DEF Present, AInv, IInv, TypeOK
  <2>5. PlugTyped'
    BY <1>1, <2>1, <2>2 DEF AInv, PlugTyped, IInv, TypeOK
  <2>6. BeingMapped'
    <3> SUFFICES ASSUME NEW p \in PlugSlots, Present(disp', p), mapType'[p] # "Pluggable"
                 PROVE  \E u \in Threads : pc'[u].op = "MapSet" /\ pc'[u].s = p
      BY DEF BeingMapped
    <3>1. p # s /\ Present(disp, p) /\ mapType[p] # "Pluggable"
      BY <2>3, <2>4, SlotsNat DEF Present
    <3> QED
      BY <1>1, <3>1, MappedKept DEF AInv, BeingMapped
  <2>7. ActiveOutside' /\ EarlyActive'
    BY <1>1, <2>1, HCFrame, HCEarly DEF AInv, ActiveOutside, EarlyActive
  <2>8. RestorePending'
    <3> SUFFICES ASSUME NEW r \in {ExtIdx, VirIdx} \cap Slots, Stuck(r)'
                 PROVE  Restorer(r)'
      BY DEF RestorePending
    <3>1. /\ Present(disp2, r) /\ ~HandleConcurrency(disp2, power, active, s)[r]
          /\ ~SecondBuiltinOn(disp2, power) /\ ~Present(disp2, Cocu(r))
      BY <1>1, <2>1 DEF Stuck
    <3>2. ~active[r]
      BY <1>1, <3>1, HCDeactivates
    <3>3. primaryReady
      BY <3>2 DEF AInv, EarlyActive
    <3>4. Cocu(r) # s
      BY <1>1, <3>1, <3>3, HCRestores
    <3>5. \A b \in BuiltinSlots : (Present(disp', b) <=> Present(disp, b)) /\ power'[b] = power[b]
      BY <1>1, <2>2, <2>3, SlotsNat DEF Present
    <3>6. NextBuiltin(disp') = NextBuiltin(disp)
          /\ (SecondBuiltinOn(disp', power') <=> SecondBuiltinOn(disp, power))
      BY <3>5, SecondBuiltinFrame
    <3>7. Cocu(r) \in {ExtIdx, VirIdx}
      BY EVApart
    <3>8. Present(disp, r) /\ ~Present(disp, Cocu(r))
      BY <2>1, <2>3, <2>4, <3>1, <3>4, <3>7 DEF Present
    <3>9. Stuck(r)
      BY <1>1, <2>1, <3>1, <3>2, <3>6, <3>8 DEF Stuck
    <3> QED
      BY <1>1, <3>6, <3>9, RestorerKept DEF AInv, RestorePending
  <2> QED
    BY <1>1, <2>5, <2>6, <2>7, <2>8 DEF AInv, ReadyConnected
<1> QED
  BY <1>2, <1>3
-----------------------------------------------------------------------------
LEMMA NextAInv == AInv /\ [Next]_vars => AInv'
<1> SUFFICES ASSUME AInv, [Next]_vars PROVE AInv'
  OBVIOUS
<1>1. CASE RegisterCallback
  BY <1>1, RegisterCallbackAInv
<1>2. CASE PresentPrimaryFirst
  BY <1>2, PresentPrimaryFirstAInv
<1>3. CASE \E s \in Slots, m \in Modes : SetPowerMode(s, m)
  BY <1>3, SetPowerModeAInv
<1>4. CASE CreateVirtualDisplay
  BY <1>4, CreateVirtualDisplayAInv
<1>5. CASE \E d \in VirtSlots : DestroyVirtualDisplay(d)
  BY <1>5, DestroyVirtualDisplayAInv
<1>6. CASE \E h \in HwPlug : HwToggle(h)
  BY <1>6, HwToggleAInv
<1>7. CASE UEvent
  BY <1>7, UEventAInv
<1>8. ASSUME NEW t \in Threads,
             \/ Conc(t) \/ Disc(t) \/ DiscLocked(t) \/ Conn(t) \/ MapSet(t)
             \/ ConnConc(t) \/ Finish(t) \/ Notify(t)
      PROVE  AInv'
  BY <1>8, ConcAInv, DiscAInv, DiscLockedAInv, ConnAInv, MapSetAInv, ConnConcAInv,
     FinishAInv, NotifyAInv
<1>9. CASE UNCHANGED vars
  <2>1. IInv'
    BY <1>9, NextIInv DEF AInv
  <2> QED
    BY <1>9, <2>1, UnchangedAInv DEF vars
<1> QED
  BY <1>1, <1>2, <1>3, <1>4, <1>5, <1>6, <1>7, <1>8, <1>9 DEF Next

\* In a quiescent state no call is pending, so no display is stuck.
LEMMA AInvRestored == AInv => ActivationRestored
<1> SUFFICES ASSUME AInv, Quiescent, primaryReady, ~BuiltinOn,
                    NEW s \in PlugSlots \cup VirtSlots, Present(disp, s),
                    \A r \in (PlugSlots \cup VirtSlots) \ {s} : ~Present(disp, r)
             PROVE  active[s]
  BY DEF ActivationRestored
<1>1. s \in Slots
  BY SlotsNat
<1>2. CASE s \notin {ExtIdx, VirIdx}
  BY <1>1, <1>2 DEF AInv, ActiveOutside
<1>3. CASE s \in {ExtIdx, VirIdx}
  <2>1. ~SecondBuiltinOn(disp, power)
    BY OffMeansOff DEF BuiltinOn
  <2>2. Cocu(s) # s /\ (Cocu(s) \in PlugSlots \cup VirtSlots \/ Cocu(s) \notin Slots)
    BY <1>1, <1>3, PoolSizes, SlotsNat
       DEF Cocu, ExtIdx, VirIdx, NoSlot, PlugSlots, VirtSlots, BuiltinSlots, Slots, Primary
  <2>3. ~Present(disp, Cocu(s))
    BY <2>2 DEF Present
  <2>4. ~Restorer(s)
    BY DEF Quiescent, Idle, Restorer
  <2> QED
    BY <1>1, <1>3, <2>1, <2>3, <2>4 DEF AInv, RestorePending, Stuck
<1> QED
  BY <1>2, <1>3

\* ActivationRestored for every size of the pools and every number of
\* panels: once both threads are idle and no builtin display is powered, a
\* pluggable or virtual display alone in its half of the policy is active,
\* whatever SetPowerMode, the virtual-display calls and the interleaved
\* hotplug scans deactivated on the way.
THEOREM ActivationRestoredAlways == Spec => []ActivationRestored
<1>1. Init => AInv
  BY InitAInv
<1>2. AInv /\ [Next]_vars => AInv'
  BY NextAInv
<1>3. AInv => ActivationRestored
  BY AInvRestored
<1> QED
  BY <1>1, <1>2, <1>3, PTL DEF Spec
====
