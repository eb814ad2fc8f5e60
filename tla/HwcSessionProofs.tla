-------------------------- MODULE HwcSessionProofs --------------------------
(***************************************************************************)
(* Proofs about the slot registry and hotplug arbiter of HwcSession, for   *)
(* every value of its constants.                                          *)
(***************************************************************************)
EXTENDS HwcSession, WellFoundedInduction, TLAPS

USE MaxAssumption, HwAssumption

-----------------------------------------------------------------------------
(***************************************************************************)
(* The slot pools are sets of natural numbers.                            *)
(***************************************************************************)
LEMMA PoolSizes == NP \in Nat /\ NB \in Nat /\ NV \in Nat
BY DEF NP, NB, NV, MinOf

LEMMA SlotsNat ==
  /\ Slots \subseteq Nat
  /\ PlugSlots \subseteq Slots /\ BuiltinSlots \subseteq Slots
  /\ VirtSlots \subseteq Slots /\ Primary \in Slots
  /\ NoSlot \notin Slots
BY PoolSizes DEF Slots, PlugSlots, BuiltinSlots, VirtSlots, Primary, NoSlot

\* The hardware ids the scan walks (1 .. NumHwPluggable + 1) are all ids.
LEMMA HwIdsCover == 0 .. NumHwPluggable + 1 \subseteq HwIds
BY DEF HwIds, HwPlug, HwBuiltin2, HwVirtual

(***************************************************************************)
(* FirstFree: HandleConnectedDisplays and CreateVirtualDisplayObj take the *)
(* first empty slot of a pool; when the pool has an empty slot, FirstFree  *)
(* is one.  The least element comes from the well-foundedness of < on Nat. *)
(***************************************************************************)
LEMMA FirstFreeIsFree ==
  ASSUME NEW S \in SUBSET Nat, \E s \in S : ~Present(disp, s)
  PROVE  FirstFree(S) \in S /\ ~Present(disp, FirstFree(S))
<1> DEFINE T == {s \in S : ~Present(disp, s)}
<1>1. T \subseteq Nat /\ T # {}
  OBVIOUS
<1>2. PICK x \in T : \A y \in T : ~(<<y, x>> \in OpToRel(<, Nat))
  BY <1>1, NatLessThanWellFounded, WFMin
<1>3. \A y \in T : ~(y < x)
  BY <1>1, <1>2 DEF OpToRel
<1>4. x \in S /\ ~Present(disp, x) /\ \A r \in S : r < x => Present(disp, r)
  BY <1>3
<1> QED
  BY <1>4 DEF FirstFree

(***************************************************************************)
(* The activation states that HandleConcurrency leaves are activation      *)
(* states of the slots.                                                    *)
(***************************************************************************)
LEMMA ActivateType ==
  ASSUME NEW dsp, NEW act \in [Slots -> BOOLEAN], NEW d, NEW e \in BOOLEAN
  PROVE  Activate(dsp, act, d, e) \in [Slots -> BOOLEAN]
BY DEF Activate, Present

LEMMA HandleConcurrencyType ==
  ASSUME NEW dsp, NEW pw, NEW act \in [Slots -> BOOLEAN], NEW d
  PROVE  HandleConcurrency(dsp, pw, act, d) \in [Slots -> BOOLEAN]
<1>1. NonBuiltinConcurrency(dsp, act, d, SecondBuiltinOn(dsp, pw)) \in [Slots -> BOOLEAN]
  BY ActivateType DEF NonBuiltinConcurrency
<1>2. Activate(dsp, Activate(dsp, act, ExtIdx, FALSE), VirIdx, FALSE) \in [Slots -> BOOLEAN]
  BY ActivateType
<1> QED
  BY <1>1, <1>2, ActivateType DEF HandleConcurrency

-----------------------------------------------------------------------------
(***************************************************************************)
(* The inductive invariant: TypeOK, and the facts about the per-thread    *)
(* step records that the scan steps need (a disconnect step is at a        *)
(* pluggable slot; a step after a Create knows its slot and its panel).   *)
(***************************************************************************)
PcOK ==
  \A t \in Threads :
    /\ pc[t].op \in {"Disc", "DiscLocked", "MapSet", "ConnConc"} => pc[t].s \in PlugSlots
    /\ pc[t].op \in {"MapSet", "ConnConc"} => pc[t].h \in HwPlug

IInv == TypeOK /\ PcOK

LEMMA InitIInv == Init => IInv
<1> SUFFICES ASSUME Init PROVE IInv
  OBVIOUS
<1>1. 0 \in HwIds /\ NoSlot \in Slots \cup {NoSlot}
  BY DEF HwIds
<1>2. disp \in [Slots -> Displays]
  BY <1>1 DEF Init, Displays, NewDisplay, Kinds
<1>3. pc \in [Threads -> Items]
  BY <1>1 DEF Init, Items, IdleItem, Item, Ops
<1>4. /\ mapSdm \in [Slots -> HwIds \cup {Unset}]
      /\ mapType \in [Slots -> Kinds \cup {"None"}]
      /\ power \in [Slots -> Modes]
      /\ pending \in [Threads -> Seq(PlugSlots)]
      /\ snap \in [Threads -> SUBSET HwPlug]
  BY <1>1 DEF Init, Kinds, Modes
<1>5. PcOK
  BY DEF Init, PcOK, IdleItem, Item
<1>6. /\ active \in [Slots -> BOOLEAN] /\ announced \in [Slots -> BOOLEAN]
      /\ hwConn \in [HwPlug -> BOOLEAN]
      /\ ueventPending \in BOOLEAN /\ primaryReady \in BOOLEAN
      /\ clientConnected \in BOOLEAN /\ misfreed \in BOOLEAN
  BY DEF Init
<1>7. hwEvents \in 0 .. MaxHwEvents
  BY DEF Init
<1> QED
  BY <1>2, <1>3, <1>4, <1>5, <1>6, <1>7 DEF IInv, TypeOK

\* Steps of the client thread.
LEMMA RegisterCallbackIInv == IInv /\ RegisterCallback => IInv'
<1> SUFFICES ASSUME IInv, RegisterCallback PROVE IInv'
  OBVIOUS
<1>1. PICK made \in BuiltinsMade :
        LET new == {BuiltinSlotOf(k) : k \in made} IN
        /\ disp' = BuiltinTable(made)
        /\ mapSdm' = [s \in Slots |-> IF s \in new THEN disp'[s].hw ELSE mapSdm[s]]
        /\ mapType' = [s \in Slots |-> IF s \in new THEN "Builtin" ELSE mapType[s]]
        /\ power' = [s \in Slots |-> IF s \in new THEN "Off" ELSE power[s]]
        /\ active' = [s \in Slots |-> IF s \in new THEN TRUE ELSE active[s]]
        /\ announced' = [s \in Slots |-> announced[s] \/ Present(disp', s)]
  BY DEF RegisterCallback
<1>2. made \subseteq 1 .. NumHwBuiltin2
  BY DEF BuiltinsMade, BuiltinPlaced
<1>3. \A k \in made : NumHwPluggable + BuiltinOfSlot(BuiltinSlotOf(k)) \in HwIds
  BY <1>2, PoolSizes DEF BuiltinOfSlot, BuiltinSlotOf, HwIds, HwBuiltin2
<1>4. disp' \in [Slots -> Displays]
  BY <1>1, <1>3 DEF IInv, TypeOK, BuiltinTable, Displays, NewDisplay, Kinds
<1>5. mapSdm' \in [Slots -> HwIds \cup {Unset}]
  BY <1>1, <1>4 DEF IInv, TypeOK, Displays, NoDisplay
<1>6. TypeOK'
  BY <1>1, <1>4, <1>5 DEF IInv, TypeOK, RegisterCallback, Modes, Kinds
<1>7. PcOK'
  BY DEF IInv, PcOK, RegisterCallback
<1> QED
  BY <1>6, <1>7 DEF IInv

\* Facts about the step records every scan step relies on.
LEMMA ItemType ==
  ASSUME NEW o \in Ops, NEW sl \in Slots \cup {NoSlot}, NEW n \in Nat
  PROVE  Item(o, sl, n) \in Items
BY DEF Item, Items

LEMMA GotoType ==
  ASSUME IInv, NEW t \in Threads, NEW it \in Items, Goto(t, it)
  PROVE  pc' \in [Threads -> Items]
BY DEF IInv, TypeOK, Goto

LEMMA AfterDiscType ==
  ASSUME NEW s \in PlugSlots
  PROVE  /\ AfterDisc(s) \in Items
         /\ AfterDisc(s).op = "Disc" => AfterDisc(s).s \in PlugSlots
         /\ AfterDisc(s).op # "DiscLocked" /\ AfterDisc(s).op \notin {"MapSet", "ConnConc"}
BY PoolSizes, SlotsNat DEF AfterDisc, Items, Item, Ops, PlugSlots, NoSlot

LEMMA PresentPrimaryFirstIInv == IInv /\ PresentPrimaryFirst => IInv'
<1> SUFFICES ASSUME IInv, PresentPrimaryFirst PROVE IInv'
  OBVIOUS
<1>1. /\ NP > 0 => Item("Disc", 1, 0) \in Items
      /\ Item("Conn", NoSlot, 1) \in Items
  BY SlotsNat, PoolSizes DEF Items, Item, Ops, PlugSlots, Slots
<1>2. TypeOK'
  <2>1. pc' \in [Threads -> Items]
    BY <1>1 DEF PresentPrimaryFirst, StartScan, Goto, Threads, IInv, TypeOK
  <2>2. snap' \in [Threads -> SUBSET HwPlug] /\ pending' \in [Threads -> Seq(PlugSlots)]
    BY DEF PresentPrimaryFirst, StartScan, IInv, TypeOK, Threads
  <2> QED
    BY <2>1, <2>2 DEF PresentPrimaryFirst, IInv, TypeOK
<1>3. PcOK'
  BY PoolSizes DEF PresentPrimaryFirst, StartScan, Goto, Threads, IInv, PcOK, Item, PlugSlots
<1> QED
  BY <1>2, <1>3 DEF IInv

LEMMA SetPowerModeIInv ==
  ASSUME IInv, NEW s \in Slots, NEW m \in Modes, SetPowerMode(s, m)
  PROVE  IInv'
<1>1. Item("Conc", s, 0) \in Items
  BY DEF Items, Item, Ops
<1>2. TypeOK'
  BY <1>1 DEF SetPowerMode, Goto, Threads, IInv, TypeOK
<1>3. PcOK'
  BY DEF SetPowerMode, Goto, Threads, IInv, PcOK, Item
<1> QED
  BY <1>2, <1>3 DEF IInv

LEMMA CreateVirtualDisplayIInv == IInv /\ CreateVirtualDisplay => IInv'
<1> SUFFICES ASSUME IInv, CreateVirtualDisplay PROVE IInv'
  OBVIOUS
<1>1. \A d \in Slots \cup {NoSlot} : Item("Conc", d, 0) \in Items
  BY DEF Items, Item, Ops
<1>2. CASE \E s \in VirtSlots : ~Present(disp, s)
  <2> DEFINE s == FirstFree(VirtSlots)
  <2>1. s \in VirtSlots
    BY <1>2, FirstFreeIsFree, SlotsNat
  <2>2. NewDisplay("Virtual", HwVirtual) \in Displays
    BY DEF NewDisplay, Displays, Kinds, HwIds
  <2>3. PICK ok \in CreateOutcomes(HwVirtual) :
          IF ok
          THEN /\ disp' = [disp EXCEPT ![s] = NewDisplay("Virtual", HwVirtual)]
               /\ mapSdm' = [mapSdm EXCEPT ![s] = HwVirtual]
               /\ mapType' = [mapType EXCEPT ![s] = "Virtual"]
               /\ power' = [power EXCEPT ![s] = "Off"]
               /\ active' = [active EXCEPT ![s] = TRUE]
               /\ Goto("client", Item("Conc", s, 0))
          ELSE /\ UNCHANGED << disp, mapSdm, mapType, power, active >>
               /\ \E d \in Slots \cup {NoSlot} : Goto("client", Item("Conc", d, 0))
    BY <1>2 DEF CreateVirtualDisplay
  <2>4. CASE ok
    <3>1. /\ disp' = [disp EXCEPT ![s] = NewDisplay("Virtual", HwVirtual)]
          /\ mapSdm' = [mapSdm EXCEPT ![s] = HwVirtual]
          /\ mapType' = [mapType EXCEPT ![s] = "Virtual"]
          /\ power' = [power EXCEPT ![s] = "Off"]
          /\ active' = [active EXCEPT ![s] = TRUE]
          /\ pc' = [pc EXCEPT !["client"] = Item("Conc", s, 0)]
      BY <2>3, <2>4 DEF Goto
    <3>2. Item("Conc", s, 0) \in Items
      BY <2>1, SlotsNat DEF Items, Item, Ops
    <3>3. TypeOK'
      BY <2>1, <2>2, <3>1, <3>2, SlotsNat DEF CreateVirtualDisplay, Threads, IInv,
         TypeOK, Kinds, Modes, HwIds
    <3>4. PcOK'
      BY <3>1 DEF CreateVirtualDisplay, Threads, IInv, PcOK, Item
    <3> QED
      BY <3>3, <3>4 DEF IInv
  <2>5. CASE ~ok
    <3>1. /\ UNCHANGED << disp, mapSdm, mapType, power, active >>
          /\ \E d \in Slots \cup {NoSlot} : Goto("client", Item("Conc", d, 0))
      BY <2>3, <2>5
    <3>2. TypeOK'
      BY <1>1, <3>1 DEF CreateVirtualDisplay, Goto, Threads, IInv, TypeOK
    <3>3. PcOK'
      BY <3>1 DEF CreateVirtualDisplay, Goto, Threads, IInv, PcOK, Item
    <3> QED
      BY <3>2, <3>3 DEF IInv
  <2> QED
    BY <2>4, <2>5
<1>3. CASE ~\E s \in VirtSlots : ~Present(disp, s)
  <2>1. /\ UNCHANGED << disp, mapSdm, mapType, power, active >>
        /\ \E d \in Slots \cup {NoSlot} : Goto("client", Item("Conc", d, 0))
    BY <1>3 DEF CreateVirtualDisplay
  <2>2. TypeOK'
    BY <1>1, <2>1 DEF CreateVirtualDisplay, Goto, Threads, IInv, TypeOK
  <2>3. PcOK'
    BY <2>1 DEF CreateVirtualDisplay, Goto, Threads, IInv, PcOK, Item
  <2> QED
    BY <2>2, <2>3 DEF IInv
<1> QED
  BY <1>2, <1>3

LEMMA DestroyNonPluggableType ==
  ASSUME IInv, NEW s, DestroyNonPluggable(s)
  PROVE  /\ disp' \in [Slots -> Displays]
         /\ mapSdm' \in [Slots -> HwIds \cup {Unset}]
         /\ mapType' \in [Slots -> Kinds \cup {"None"}]
         /\ misfreed' \in BOOLEAN
BY DEF DestroyNonPluggable, MapReset, IInv, TypeOK, Displays

LEMMA DestroyVirtualDisplayIInv ==
  ASSUME IInv, NEW d \in VirtSlots, DestroyVirtualDisplay(d)
  PROVE  IInv'
<1>1. Item("Conc", d, 0) \in Items
  BY SlotsNat DEF Items, Item, Ops
<1>2. TypeOK'
  BY <1>1, DestroyNonPluggableType DEF DestroyVirtualDisplay, Goto, Threads, IInv, TypeOK
<1>3. PcOK'
  BY DEF DestroyVirtualDisplay, Goto, Threads, IInv, PcOK, Item
<1> QED
  BY <1>2, <1>3 DEF IInv

LEMMA ConcIInv ==
  ASSUME IInv, NEW t \in Threads, Conc(t)
  PROVE  IInv'
<1>1. IdleItem \in Items
  BY DEF Items, IdleItem, Item, Ops
<1>2. active' \in [Slots -> BOOLEAN]
  BY HandleConcurrencyType DEF Conc, IInv, TypeOK
<1>3. TypeOK'
  BY <1>1, <1>2 DEF Conc, Goto, Threads, IInv, TypeOK
<1>4. PcOK'
  BY DEF Conc, Goto, Threads, IInv, PcOK, IdleItem, Item
<1> QED
  BY <1>3, <1>4 DEF IInv

\* Hardware and the uevent thread.
LEMMA HwToggleIInv ==
  ASSUME IInv, NEW h \in HwPlug, HwToggle(h)
  PROVE  IInv'
BY DEF HwToggle, IInv, TypeOK, PcOK

LEMMA UEventIInv == IInv /\ UEvent => IInv'
<1> SUFFICES ASSUME IInv, UEvent PROVE IInv'
  OBVIOUS
<1>1. /\ NP > 0 => Item("Disc", 1, 0) \in Items
      /\ Item("Conn", NoSlot, 1) \in Items
  BY SlotsNat, PoolSizes DEF Items, Item, Ops, PlugSlots, Slots
<1>2. CASE primaryReady
  <2>0. StartScan("uevent")
    BY <1>2 DEF UEvent
  <2>1. pc' \in [Threads -> Items]
    BY <1>1, <2>0 DEF StartScan, Goto, Threads, IInv, TypeOK
  <2>2. snap' \in [Threads -> SUBSET HwPlug] /\ pending' \in [Threads -> Seq(PlugSlots)]
    BY <2>0 DEF StartScan, IInv, TypeOK, Threads
  <2>3. PcOK'
    BY <2>0, PoolSizes DEF StartScan, Goto, Threads, IInv, PcOK, Item, PlugSlots
  <2> QED
    BY <2>1, <2>2, <2>3 DEF UEvent, IInv, TypeOK
<1>3. CASE ~primaryReady
  BY <1>3 DEF UEvent, IInv, TypeOK, PcOK
<1> QED
  BY <1>2, <1>3

\* The steps of a scan.
LEMMA DiscIInv ==
  ASSUME IInv, NEW t \in Threads, Disc(t)
  PROVE  IInv'
<1> DEFINE s == pc[t].s
<1>1. s \in PlugSlots /\ AfterDisc(s) \in Items
  BY AfterDiscType DEF Disc, IInv, PcOK
<1>2. Item("DiscLocked", s, 0) \in Items
  BY <1>1, SlotsNat DEF Items, Item, Ops
<1>3. CASE ConnectedIn(t, s)
  <2>1. Goto(t, AfterDisc(s)) /\ UNCHANGED << disp, mapSdm, mapType, announced, misfreed >>
    BY <1>3 DEF Disc
  <2> QED
    BY <1>1, <2>1, AfterDiscType DEF Disc, Goto, IInv, TypeOK, PcOK
<1>4. CASE ~ConnectedIn(t, s) /\ mapType[s] = "Pluggable"
  <2>1. /\ NotifyDisconnected(s) /\ Goto(t, Item("DiscLocked", s, 0))
        /\ UNCHANGED << disp, mapSdm, mapType, misfreed >>
    BY <1>4 DEF Disc, DestroysAsPluggable
  <2> QED
    BY <1>1, <1>2, <2>1 DEF Disc, Goto, NotifyDisconnected, IInv, TypeOK, PcOK, Item
<1>5. CASE ~ConnectedIn(t, s) /\ mapType[s] # "Pluggable"
  <2>1. DestroyNonPluggable(s) /\ Goto(t, AfterDisc(s)) /\ UNCHANGED announced
    BY <1>5 DEF Disc, DestroysAsPluggable
  <2> QED
    BY <1>1, <2>1, AfterDiscType, DestroyNonPluggableType DEF Disc, Goto, IInv, TypeOK, PcOK
<1> QED
  BY <1>3, <1>4, <1>5

LEMMA DiscLockedIInv ==
  ASSUME IInv, NEW t \in Threads, DiscLocked(t)
  PROVE  IInv'
<1> DEFINE s == pc[t].s
           disp2 == [disp EXCEPT ![s] = NoDisplay]
<1>1. s \in PlugSlots /\ AfterDisc(s) \in Items
  BY AfterDiscType DEF DiscLocked, IInv, PcOK
<1>2. CASE Present(disp, s)
  <2>1. /\ disp' = disp2 /\ MapReset(s)
        /\ misfreed' = (misfreed \/ disp[s].kind # "Pluggable")
        /\ active' = HandleConcurrency(disp2, power, active, s)
    BY <1>2 DEF DiscLocked
  <2>2. active' \in [Slots -> BOOLEAN]
    BY <2>1, HandleConcurrencyType DEF IInv, TypeOK
  <2> QED
    BY <1>1, <2>1, <2>2, AfterDiscType DEF DiscLocked, MapReset, Goto, IInv, TypeOK,
       PcOK, Displays
<1>3. CASE ~Present(disp, s)
  BY <1>1, <1>3, AfterDiscType DEF DiscLocked, Goto, IInv, TypeOK, PcOK
<1> QED
  BY <1>2, <1>3

LEMMA ConnIInv ==
  ASSUME IInv, NEW t \in Threads, Conn(t)
  PROVE  IInv'
<1> DEFINE hh == pc[t].h
<1>1. hh \in Nat
  BY DEF IInv, TypeOK, Items
<1>2. CASE hh > NumHwPluggable
  <2>1. Goto(t, Item("Finish", NoSlot, 0)) /\ UNCHANGED << disp, power, active >>
    BY <1>2 DEF Conn
  <2>2. Item("Finish", NoSlot, 0) \in Items
    BY DEF Items, Item, Ops
  <2> QED
    BY <2>1, <2>2 DEF Conn, Goto, IInv, TypeOK, PcOK, Item
<1>3. CASE hh <= NumHwPluggable /\ (hh \notin snap[t] \/ \A s \in PlugSlots : Present(disp, s))
  <2>1. Goto(t, Item("Conn", NoSlot, hh + 1)) /\ UNCHANGED << disp, power, active >>
    BY <1>1, <1>3 DEF Conn
  <2>2. Item("Conn", NoSlot, hh + 1) \in Items
    BY <1>1 DEF Items, Item, Ops
  <2> QED
    BY <2>1, <2>2 DEF Conn, Goto, IInv, TypeOK, PcOK, Item
<1>4. CASE hh <= NumHwPluggable /\ hh \in snap[t] /\ \E s \in PlugSlots : ~Present(disp, s)
  <2> DEFINE ff == FirstFree(PlugSlots)
  <2>1. ff \in PlugSlots /\ hh \in HwPlug
    BY <1>4, FirstFreeIsFree, SlotsNat DEF IInv, TypeOK
  <2>2. PICK ok \in CreateOutcomes(hh) :
          IF ok
          THEN /\ disp' = [disp EXCEPT ![ff] = NewDisplay("Pluggable", hh)]
               /\ power' = [power EXCEPT ![ff] = "Off"]
               /\ active' = [active EXCEPT ![ff] = TRUE]
               /\ Goto(t, Item("MapSet", ff, hh))
          ELSE /\ Goto(t, IdleItem)
               /\ UNCHANGED << disp, power, active >>
    BY <1>1, <1>4 DEF Conn
  <2>3. CASE ok
    <3>1. /\ disp' = [disp EXCEPT ![ff] = NewDisplay("Pluggable", hh)]
          /\ power' = [power EXCEPT ![ff] = "Off"]
          /\ active' = [active EXCEPT ![ff] = TRUE]
          /\ pc' = [pc EXCEPT ![t] = Item("MapSet", ff, hh)]
      BY <2>2, <2>3 DEF Goto
    <3>2. Item("MapSet", ff, hh) \in Items
      <4>1. ff \in Slots \cup {NoSlot} /\ "MapSet" \in Ops
        BY <2>1, SlotsNat DEF Ops
      <4> QED
        BY <1>1, <4>1, ItemType
    <3>3. NewDisplay("Pluggable", hh) \in Displays
      BY <2>1 DEF HwPlug, NewDisplay, Displays, Kinds, HwIds
    <3>4. TypeOK'
      BY <2>1, <3>1, <3>2, <3>3, SlotsNat DEF Conn, IInv, TypeOK, Modes
    <3>5. PcOK'
      BY <2>1, <3>1 DEF Conn, IInv, PcOK, Item
    <3> QED
      BY <3>4, <3>5 DEF IInv
  <2>4. CASE ~ok
    <3>1. IdleItem \in Items
      BY DEF Items, IdleItem, Item, Ops
    <3>2. pc' = [pc EXCEPT ![t] = IdleItem] /\ UNCHANGED << disp, power, active >>
      BY <2>2, <2>4 DEF Goto
    <3> QED
      BY <3>1, <3>2 DEF Conn, IInv, TypeOK, PcOK, IdleItem, Item
  <2> QED
    BY <2>3, <2>4
<1> QED
  BY <1>1, <1>2, <1>3, <1>4

LEMMA MapSetIInv ==
  ASSUME IInv, NEW t \in Threads, MapSet(t)
  PROVE  IInv'
<1>0. pc[t].op = "MapSet"
  BY DEF MapSet
<1>1. pc[t].s \in PlugSlots /\ pc[t].h \in HwPlug
  BY <1>0 DEF IInv, PcOK
<1>2. Item("ConnConc", pc[t].s, pc[t].h) \in Items
  <2>1. pc[t].s \in Slots \cup {NoSlot}
    BY <1>1, SlotsNat
  <2>2. pc[t].h \in Nat
    BY <1>1 DEF HwPlug
  <2>3. "ConnConc" \in Ops
    BY DEF Ops
  <2> QED
    BY <2>1, <2>2, <2>3, ItemType
<1>3. pending' \in [Threads -> Seq(PlugSlots)]
  BY <1>1 DEF MapSet, QueueHotplug, IInv, TypeOK
<1>4. mapSdm' \in [Slots -> HwIds \cup {Unset}] /\ mapType' \in [Slots -> Kinds \cup {"None"}]
  BY <1>1 DEF MapSet, IInv, TypeOK, HwIds, Kinds
<1> QED
  BY <1>1, <1>2, <1>3, <1>4 DEF MapSet, Goto, IInv, TypeOK, PcOK, Item

LEMMA ConnConcIInv ==
  ASSUME IInv, NEW t \in Threads, ConnConc(t)
  PROVE  IInv'
<1>1. Item("Conn", NoSlot, pc[t].h + 1) \in Items
  BY DEF ConnConc, IInv, PcOK, HwPlug, Items, Item, Ops
<1>2. active' \in [Slots -> BOOLEAN]
  BY HandleConcurrencyType DEF ConnConc, IInv, TypeOK
<1> QED
  BY <1>1, <1>2 DEF ConnConc, Goto, IInv, TypeOK, PcOK, Item

LEMMA FinishIInv ==
  ASSUME IInv, NEW t \in Threads, Finish(t)
  PROVE  IInv'
<1>1. IdleItem \in Items /\ Item("Notify", NoSlot, 1) \in Items
  BY DEF Items, IdleItem, Item, Ops
<1> QED
  BY <1>1 DEF Finish, Goto, IInv, TypeOK, PcOK, IdleItem, Item

LEMMA NotifyIInv ==
  ASSUME IInv, NEW t \in Threads, Notify(t)
  PROVE  IInv'
<1>1. IdleItem \in Items /\ Item("Notify", NoSlot, pc[t].h + 1) \in Items
  BY DEF Notify, IInv, TypeOK, Items, IdleItem, Item, Ops
<1>2. active' \in [Slots -> BOOLEAN]
  BY HandleConcurrencyType DEF Notify, IInv, TypeOK
<1> QED
  BY <1>1, <1>2 DEF Notify, Goto, IInv, TypeOK, PcOK, IdleItem, Item

-----------------------------------------------------------------------------
LEMMA NextIInv == IInv /\ [Next]_vars => IInv'
<1> SUFFICES ASSUME IInv, [Next]_vars PROVE IInv'
  OBVIOUS
<1>1. CASE RegisterCallback
  BY <1>1, RegisterCallbackIInv
<1>2. CASE PresentPrimaryFirst
  BY <1>2, PresentPrimaryFirstIInv
<1>3. CASE \E s \in Slots, m \in Modes : SetPowerMode(s, m)
  BY <1>3, SetPowerModeIInv
<1>4. CASE CreateVirtualDisplay
  BY <1>4, CreateVirtualDisplayIInv
<1>5. CASE \E d \in VirtSlots : DestroyVirtualDisplay(d)
  BY <1>5, DestroyVirtualDisplayIInv
<1>6. CASE \E h \in HwPlug : HwToggle(h)
  BY <1>6, HwToggleIInv
<1>7. CASE UEvent
  BY <1>7, UEventIInv
<1>8. ASSUME NEW t \in Threads,
             \/ Conc(t) \/ Disc(t) \/ DiscLocked(t) \/ Conn(t) \/ MapSet(t)
             \/ ConnConc(t) \/ Finish(t) \/ Notify(t)
      PROVE  IInv'
  BY <1>8, ConcIInv, DiscIInv, DiscLockedIInv, ConnIInv, MapSetIInv, ConnConcIInv,
     FinishIInv, NotifyIInv
<1>9. CASE UNCHANGED vars
  BY <1>9 DEF vars, IInv, TypeOK, PcOK
<1> QED
  BY <1>1, <1>2, <1>3, <1>4, <1>5, <1>6, <1>7, <1>8, <1>9 DEF Next

\* Type correctness of the slot table, the map, the per-thread step
\* records and pending_hotplugs, in every reachable state, whatever the
\* sizes of the pools and the numbers of panels.
THEOREM TypeCorrect == Spec => []TypeOK
<1>1. Init => IInv
  BY InitIInv
<1>2. IInv /\ [Next]_vars => IInv'
  BY NextIInv
<1>3. IInv => TypeOK
  BY DEF IInv
<1> QED
  BY <1>1, <1>2, <1>3, PTL DEF Spec

====
