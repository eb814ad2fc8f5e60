------------------------ MODULE HwcConcurrencyProofs ------------------------
(***************************************************************************)
(* The builtin half of the concurrency policy (BuiltinConcurrency), proved *)
(* for every size of the pools that HandleConcurrency can arbitrate: at    *)
(* most one pluggable slot (it only deactivates ExtIdx, the first one), at *)
(* most one virtual slot (VirIdx), at most one second builtin display      *)
(* placed (GetNextBuiltinIndex picks the first), and no virtual display    *)
(* before the first frame (HandleConcurrency returns at once while the     *)
(* primary is not ready).  Beyond each of these bounds TLC finds the       *)
(* property violated by what the code does (hazards at hwc_session.cpp     *)
(* lines 1475 and 1481); the bounds do not limit Create failures, the      *)
(* overlap of the two threads' scans or the number of hotplug events.      *)
(***************************************************************************)
EXTENDS HwcSessionProofs

USE MaxAssumption, HwAssumption

\* The pools that HandleConcurrency's fixed indices cover.
SmallPools ==
  /\ NP <= 1
  /\ NV <= 1
  /\ NumHwBuiltin2 <= 1 \/ NB <= 2
  /\ ~VirtualEarly

\* The one slot a second builtin display is ever created in.
B == BuiltinSlotOf(1)

OnlyB(dsp) == \A s \in BuiltinSlots : Present(dsp, s) => s = B
BOn(dsp, pw) == \E s \in BuiltinSlots : Present(dsp, s) /\ pw[s] # "Off"

(***************************************************************************)
(* The inductive invariant.  An active pluggable or virtual display beside *)
(* a powered second builtin is "bad"; a bad display is only ever seen      *)
(* while a HandleConcurrency call that will deactivate it is still to run: *)
(* the client's Conc step for the builtin or for that display, or the rest *)
(* of a scan that has just created it (MapSet, then ConnConc).  Before the *)
(* first frame there are no pluggable or virtual displays and no scans,    *)
(* and only the slot B ever holds a second builtin display.               *)
(***************************************************************************)
Bad(s) == Present(disp, s) /\ active[s] /\ BOn(disp, power)
Fixer(s) ==
  \E t \in Threads :
    \/ pc[t].op = "Conc" /\ pc[t].s \in {s, B}
    \/ pc[t].op \in {"MapSet", "ConnConc"} /\ pc[t].s = s
FixPending == \A s \in PlugSlots \cup VirtSlots : Bad(s) => Fixer(s)
EarlyEmpty ==
  ~primaryReady =>
    /\ \A s \in PlugSlots \cup VirtSlots : ~Present(disp, s)
    /\ \A t \in Threads : ~Scanning(t)
CInv == IInv /\ EarlyEmpty /\ OnlyB(disp) /\ FixPending

-----------------------------------------------------------------------------
(***************************************************************************)
(* Facts about the slot layout.                                           *)
(***************************************************************************)
LEMMA SmallSlots ==
  ASSUME SmallPools
  PROVE  PlugSlots \cup VirtSlots \subseteq {ExtIdx, VirIdx}
BY PoolSizes DEF SmallPools, PlugSlots, VirtSlots, ExtIdx, VirIdx, NoSlot

LEMMA PoolsApart ==
  /\ (PlugSlots \cup VirtSlots) \cap (BuiltinSlots \cup {0}) = {}
  /\ 0 \notin BuiltinSlots /\ B # 0
BY PoolSizes DEF PlugSlots, VirtSlots, BuiltinSlots, B, BuiltinSlotOf

(***************************************************************************)
(* GetNextBuiltinIndex: with only B occupied among the builtin slots, the  *)
(* next builtin is B or none, and SecondBuiltinOn says that a builtin      *)
(* display is powered.                                                    *)
(***************************************************************************)
LEMMA OnlyBNext ==
  ASSUME NEW dsp, NEW pw, OnlyB(dsp)
  PROVE  /\ NextBuiltin(dsp) \in {0} \cup (BuiltinSlots \cap {B})
         /\ SecondBuiltinOn(dsp, pw) <=> BOn(dsp, pw)
<1>1. CASE \E s \in BuiltinSlots : Present(dsp, s)
  <2>1. B \in BuiltinSlots /\ Present(dsp, B)
    BY <1>1 DEF OnlyB
  <2>2. \A r \in BuiltinSlots : r < B => ~Present(dsp, r)
    BY PoolSizes DEF OnlyB, BuiltinSlots
  <2>3. NextBuiltin(dsp) = B
    <3>1. \E s \in BuiltinSlots :
            Present(dsp, s) /\ \A r \in BuiltinSlots : r < s => ~Present(dsp, r)
      BY <2>1, <2>2
    <3> QED
      BY <1>1, <3>1 DEF NextBuiltin, OnlyB
  <2> QED
    BY <2>1, <2>3, PoolsApart DEF SecondBuiltinOn, BOn, OnlyB
<1>2. CASE ~\E s \in BuiltinSlots : Present(dsp, s)
  BY <1>2 DEF NextBuiltin, SecondBuiltinOn, BOn
<1> QED
  BY <1>1, <1>2

(***************************************************************************)
(* HandleConcurrency while the second builtin is on: it activates nothing; *)
(* called for the builtin it deactivates ExtIdx and VirIdx, called for     *)
(* ExtIdx or VirIdx it deactivates that display.                           *)
(***************************************************************************)
LEMMA ConcurrencyWhenOn ==
  ASSUME NEW dsp, NEW pw, NEW act \in [Slots -> BOOLEAN], NEW d, NEW s \in Slots,
         SecondBuiltinOn(dsp, pw)
  PROVE  /\ HandleConcurrency(dsp, pw, act, d)[s] => act[s]
         /\ primaryReady /\ Present(dsp, s) /\ s \in {ExtIdx, VirIdx}
            /\ (d = NextBuiltin(dsp) \/ (d = s /\ s # NextBuiltin(dsp)))
            => ~HandleConcurrency(dsp, pw, act, d)[s]
<1>1. CASE ~primaryReady
  BY <1>1 DEF HandleConcurrency
<1>2. CASE primaryReady /\ d = NextBuiltin(dsp)
  <2> DEFINE a1 == Activate(dsp, act, ExtIdx, FALSE)
  <2>1. a1 \in [Slots -> BOOLEAN]
    BY ActivateType
  <2>2. HandleConcurrency(dsp, pw, act, d) = Activate(dsp, a1, VirIdx, FALSE)
    BY <1>2 DEF HandleConcurrency
  <2>3. a1[s] = IF Present(dsp, ExtIdx) /\ s = ExtIdx THEN FALSE ELSE act[s]
    BY DEF Activate, Present
  <2>4. Activate(dsp, a1, VirIdx, FALSE)[s] =
          IF Present(dsp, VirIdx) /\ s = VirIdx THEN FALSE ELSE a1[s]
    BY <2>1 DEF Activate, Present
  <2> QED
    BY <1>2, <2>2, <2>3, <2>4
<1>3. CASE primaryReady /\ d # NextBuiltin(dsp)
  <2>1. HandleConcurrency(dsp, pw, act, d) = NonBuiltinConcurrency(dsp, act, d, TRUE)
    BY <1>3 DEF HandleConcurrency
  <2>2. Activate(dsp, act, d, FALSE)[s] = IF Present(dsp, d) /\ s = d THEN FALSE ELSE act[s]
    BY DEF Activate, Present
  <2>3. NonBuiltinConcurrency(dsp, act, d, TRUE) =
          IF d \in {ExtIdx, VirIdx} /\ Present(dsp, d) THEN Activate(dsp, act, d, FALSE) ELSE act
    BY DEF NonBuiltinConcurrency
  <2> QED
    BY <1>3, <2>1, <2>2, <2>3
<1> QED
  BY <1>1, <1>2, <1>3
-----------------------------------------------------------------------------
(***************************************************************************)
(* Two frames that most steps fit.  Shrink: a step that only removes      *)
(* display objects and moves one thread to a step that deactivates        *)
(* nothing.  Arbitrate: a step that removes at most the display objects    *)
(* dsp2 leaves out and then runs HandleConcurrency on them; a thread that  *)
(* was the pending fixer of a bad display runs exactly that fix.          *)
(***************************************************************************)
NotFixerOp(op) == op \notin {"Conc", "MapSet", "ConnConc"}

LEMMA Shrink ==
  ASSUME CInv, NEW t \in Threads, NEW it \in Items, Goto(t, it),
         NotFixerOp(pc[t].op), NotFixerOp(it.op) \/ it.op = "Conc",
         primaryReady \/ ~Scanning(t)',
         \A s \in Slots : Present(disp', s) => Present(disp, s),
         power' = power, active' = active, primaryReady' = primaryReady
  PROVE  EarlyEmpty' /\ OnlyB(disp') /\ FixPending'
<1>1. \A u \in Threads \ {t} : pc'[u] = pc[u]
  BY DEF Goto, CInv, IInv, TypeOK
<1>2. BOn(disp', power') => BOn(disp, power)
  BY DEF BOn, BuiltinSlots, Slots
<1>3. EarlyEmpty'
  BY <1>1, SlotsNat DEF EarlyEmpty, CInv, Scanning
<1>4. OnlyB(disp')
  BY SlotsNat DEF OnlyB, CInv
<1>5. ASSUME NEW r \in PlugSlots \cup VirtSlots, Bad(r)' PROVE Fixer(r)'
  <2>1. Bad(r)
    BY <1>2, <1>5, SlotsNat DEF Bad
  <2>2. PICK u \in Threads :
          \/ pc[u].op = "Conc" /\ pc[u].s \in {r, B}
          \/ pc[u].op \in {"MapSet", "ConnConc"} /\ pc[u].s = r
    BY <2>1 DEF CInv, FixPending, Fixer
  <2>3. u # t
    BY <2>2 DEF NotFixerOp
  <2> QED
    BY <1>1, <2>2, <2>3 DEF Fixer
<1> QED
  BY <1>3, <1>4, <1>5 DEF FixPending

LEMMA Arbitrate ==
  ASSUME SmallPools, CInv, NEW t \in Threads, NEW it \in Items, Goto(t, it),
         NotFixerOp(it.op), primaryReady \/ ~Scanning(t)',
         NEW dsp2, NEW d,
         \A s \in Slots : Present(dsp2, s) => Present(disp, s),
         ~NotFixerOp(pc[t].op) => dsp2 = disp /\ d = pc[t].s /\ pc[t].op # "MapSet",
         disp' = dsp2, power' = power, primaryReady' = primaryReady,
         active' = HandleConcurrency(dsp2, power, active, d)
  PROVE  EarlyEmpty' /\ OnlyB(disp') /\ FixPending'
<1>1. \A u \in Threads \ {t} : pc'[u] = pc[u]
  BY DEF Goto, CInv, IInv, TypeOK
<1>2. BOn(dsp2, power) => BOn(disp, power)
  BY DEF BOn, BuiltinSlots, Slots
<1>3. EarlyEmpty'
  BY <1>1, SlotsNat DEF EarlyEmpty, CInv, Scanning
<1>4. OnlyB(dsp2)
  BY SlotsNat DEF OnlyB, CInv
<1>5. ASSUME NEW r \in PlugSlots \cup VirtSlots, Bad(r)' PROVE Fixer(r)'
  <2>1. r \in Slots /\ Present(dsp2, r) /\ active'[r] /\ BOn(dsp2, power)
    BY <1>5, SlotsNat DEF Bad
  <2>2. SecondBuiltinOn(dsp2, power)
    BY <2>1, <1>4, OnlyBNext
  <2>3. active[r]
    BY <2>1, <2>2, ConcurrencyWhenOn DEF CInv, IInv, TypeOK
  <2>4. Bad(r)
    BY <1>2, <2>1, <2>3 DEF Bad
  <2>5. PICK u \in Threads :
          \/ pc[u].op = "Conc" /\ pc[u].s \in {r, B}
          \/ pc[u].op \in {"MapSet", "ConnConc"} /\ pc[u].s = r
    BY <2>4 DEF CInv, FixPending, Fixer
  <2>6. CASE u # t
    BY <1>1, <2>5, <2>6 DEF Fixer
  <2>7. CASE u = t
    <3>1. dsp2 = disp /\ d = pc[t].s /\ pc[t].op # "MapSet"
      BY <2>5, <2>7 DEF NotFixerOp
    <3>2. d = r \/ d = B
      BY <2>5, <2>7, <3>1
    <3>3. primaryReady
      BY <2>1, <2>4 DEF CInv, EarlyEmpty, Bad
    <3>4. r \in {ExtIdx, VirIdx} /\ r # NextBuiltin(disp)
      BY <1>4, <3>1, SmallSlots, OnlyBNext, PoolsApart
    <3>5. d = B => d = NextBuiltin(disp)
      BY <2>2, <1>4, <3>1, OnlyBNext DEF SecondBuiltinOn
    <3>6. ~active'[r]
      BY <2>1, <2>2, <3>1, <3>2, <3>3, <3>4, <3>5, ConcurrencyWhenOn DEF CInv, IInv, TypeOK
    <3> QED
      BY <2>1, <3>6
  <2> QED
    BY <2>6, <2>7
<1> QED
  BY <1>3, <1>4, <1>5 DEF FixPending
-----------------------------------------------------------------------------
(***************************************************************************)
(* The steps of the client thread and of the hardware.                     *)
(***************************************************************************)
LEMMA InitCInv == Init => CInv
<1> SUFFICES ASSUME Init PROVE CInv
  OBVIOUS
<1>1. \A s \in PlugSlots \cup VirtSlots \cup BuiltinSlots : ~Present(disp, s)
  BY PoolSizes DEF Init, Present, PlugSlots, VirtSlots, BuiltinSlots, Primary
<1>2. \A t \in Threads : pc[t].op = "Idle"
  BY DEF Init, IdleItem, Item
<1> QED
  BY <1>1, <1>2, InitIInv DEF CInv, EarlyEmpty, OnlyB, FixPending, Bad, Scanning, ScanOps

LEMMA RegisterCallbackCInv ==
  ASSUME SmallPools, CInv, RegisterCallback
  PROVE  CInv'
<1>1. IInv'
  BY RegisterCallbackIInv DEF CInv
<1>2. PICK made \in BuiltinsMade :
        LET new == {BuiltinSlotOf(k) : k \in made} IN
        /\ disp' = BuiltinTable(made)
        /\ power' = [s \in Slots |-> IF s \in new THEN "Off" ELSE power[s]]
        /\ active' = [s \in Slots |-> IF s \in new THEN TRUE ELSE active[s]]
  BY DEF RegisterCallback
<1> DEFINE new == {BuiltinSlotOf(k) : k \in made}
<1>3. new \subseteq BuiltinSlots \cap {B}
  <2>1. made \subseteq BuiltinPlaced
    BY DEF BuiltinsMade
  <2>2. \A k \in BuiltinPlaced : k = 1 /\ B \in BuiltinSlots
    BY PoolSizes DEF SmallPools, BuiltinPlaced, B, BuiltinSlotOf, BuiltinSlots
  <2> QED
    BY <2>1, <2>2 DEF B
<1>4. \A s \in Slots \ new :
        disp'[s] = disp[s] /\ power'[s] = power[s] /\ active'[s] = active[s]
  BY <1>2 DEF BuiltinTable
<1>5. \A s \in new : power'[s] = "Off"
  BY <1>2, <1>3, SlotsNat
<1>6. BOn(disp', power') => BOn(disp, power)
  BY <1>3, <1>4, <1>5, SlotsNat DEF BOn, Present
<1>7. OnlyB(disp')
  BY <1>3, <1>4, SlotsNat DEF OnlyB, Present, CInv
<1>8. \A s \in PlugSlots \cup VirtSlots : s \notin new
  BY <1>3, PoolsApart
<1>9. EarlyEmpty'
  BY <1>4, <1>8, SlotsNat DEF EarlyEmpty, RegisterCallback, Present, CInv, Scanning
<1>10. FixPending'
  BY <1>4, <1>6, <1>8, SlotsNat DEF FixPending, Bad, Fixer, Present, RegisterCallback, CInv
<1> QED
  BY <1>1, <1>7, <1>9, <1>10 DEF CInv

LEMMA PresentPrimaryFirstCInv ==
  ASSUME CInv, PresentPrimaryFirst
  PROVE  CInv'
<1>1. IInv'
  BY PresentPrimaryFirstIInv DEF CInv
<1>2. /\ Goto("client", IF NP > 0 THEN Item("Disc", 1, 0) ELSE Item("Conn", NoSlot, 1))
      /\ pc["client"].op = "Idle"
  BY DEF PresentPrimaryFirst, StartScan, Idle
<1>3. \A u \in Threads \ {"client"} : pc'[u] = pc[u]
  BY <1>2 DEF Goto, CInv, IInv, TypeOK
<1>4. FixPending'
  BY <1>2, <1>3 DEF FixPending, Bad, Fixer, PresentPrimaryFirst, CInv, Threads
<1> QED
  BY <1>1, <1>4 DEF CInv, EarlyEmpty, OnlyB, PresentPrimaryFirst

LEMMA SetPowerModeCInv ==
  ASSUME CInv, NEW s0 \in Slots, NEW m \in Modes, SetPowerMode(s0, m)
  PROVE  CInv'
<1>1. IInv'
  BY SetPowerModeIInv DEF CInv
<1>2. /\ pc'["client"] = Item("Conc", s0, 0)
      /\ \A u \in Threads \ {"client"} : pc'[u] = pc[u]
      /\ pc["client"].op = "Idle"
  BY DEF SetPowerMode, Goto, Idle, CInv, IInv, TypeOK, Threads
<1>3. EarlyEmpty'
  BY <1>2 DEF EarlyEmpty, SetPowerMode, CInv, Scanning, ScanOps, Item, Threads
<1>4. ASSUME NEW r \in PlugSlots \cup VirtSlots, Bad(r)' PROVE Fixer(r)'
  <2>1. CASE BOn(disp, power)
    <3>1. PICK u \in Threads :
            \/ pc[u].op = "Conc" /\ pc[u].s \in {r, B}
            \/ pc[u].op \in {"MapSet", "ConnConc"} /\ pc[u].s = r
      BY <1>4, <2>1 DEF Bad, SetPowerMode, CInv, FixPending, Fixer
    <3> QED
      BY <1>2, <3>1 DEF Fixer
  <2>3. CASE ~BOn(disp, power)
    <3>1. PICK b \in BuiltinSlots : Present(disp, b) /\ power'[b] # "Off"
      BY <1>4 DEF Bad, BOn, SetPowerMode
    <3>2. b = s0
      BY <2>3, <3>1, SlotsNat DEF SetPowerMode, BOn, CInv, IInv, TypeOK
    <3>3. s0 = B
      BY <3>1, <3>2 DEF CInv, OnlyB
    <3> QED
      BY <1>2, <3>3 DEF Fixer, Item, Threads
  <2> QED
    BY <2>1, <2>3
<1> QED
  BY <1>1, <1>3, <1>4 DEF CInv, FixPending, OnlyB, SetPowerMode

LEMMA CreateVirtualDisplayCInv ==
  ASSUME SmallPools, CInv, CreateVirtualDisplay
  PROVE  CInv'
<1>1. IInv'
  BY CreateVirtualDisplayIInv DEF CInv
<1>2. primaryReady /\ primaryReady' /\ Idle("client")
  BY DEF SmallPools, CreateVirtualDisplay
<1>3. EarlyEmpty'
  BY <1>2 DEF EarlyEmpty
<1> DEFINE s == FirstFree(VirtSlots)
<1>4. CASE /\ \E r \in VirtSlots : ~Present(disp, r)
           /\ disp' = [disp EXCEPT ![s] = NewDisplay("Virtual", HwVirtual)]
           /\ power' = [power EXCEPT ![s] = "Off"]
           /\ active' = [active EXCEPT ![s] = TRUE]
           /\ Goto("client", Item("Conc", s, 0))
  <2>1. s \in VirtSlots /\ s \notin BuiltinSlots
    BY <1>4, FirstFreeIsFree, SlotsNat, PoolsApart
  <2>2. \A r \in Slots \ {s} :
          disp'[r] = disp[r] /\ power'[r] = power[r] /\ active'[r] = active[r]
    BY <1>4 DEF CInv, IInv, TypeOK
  <2>3. BOn(disp', power') = BOn(disp, power) /\ OnlyB(disp')
    BY <2>1, <2>2, SlotsNat DEF BOn, OnlyB, Present, CInv
  <2>4. /\ pc'["client"] = Item("Conc", s, 0)
        /\ \A u \in Threads \ {"client"} : pc'[u] = pc[u]
    BY <1>4 DEF Goto, CInv, IInv, TypeOK, Threads
  <2>5. ASSUME NEW r \in PlugSlots \cup VirtSlots, Bad(r)' PROVE Fixer(r)'
    <3>1. CASE r = s
      BY <2>4, <3>1 DEF Fixer, Item, Threads
    <3>2. CASE r # s
      <4>1. PICK u \in Threads :
              \/ pc[u].op = "Conc" /\ pc[u].s \in {r, B}
              \/ pc[u].op \in {"MapSet", "ConnConc"} /\ pc[u].s = r
        BY <2>2, <2>3, <2>5, <3>2, SlotsNat DEF Bad, Present, CInv, FixPending, Fixer
      <4> QED
        BY <1>2, <2>4, <4>1 DEF Fixer, Idle
    <3> QED
      BY <3>1, <3>2
  <2> QED
    BY <1>1, <1>3, <2>3, <2>5 DEF CInv, FixPending
<1>5. CASE /\ UNCHANGED << disp, power, active >>
           /\ \E d \in Slots \cup {NoSlot} : Goto("client", Item("Conc", d, 0))
  <2>1. PICK d \in Slots \cup {NoSlot} : Goto("client", Item("Conc", d, 0))
    BY <1>5
  <2>2. Item("Conc", d, 0) \in Items
    BY DEF Item, Items, Ops
  <2>3. /\ NotFixerOp(pc["client"].op)
        /\ Item("Conc", d, 0).op = "Conc"
        /\ \A r \in Slots : Present(disp', r) => Present(disp, r)
        /\ power' = power /\ active' = active /\ primaryReady' = primaryReady
    BY <1>2, <1>5 DEF NotFixerOp, Idle, Item, CreateVirtualDisplay
  <2>4. EarlyEmpty' /\ OnlyB(disp') /\ FixPending'
    BY <1>2, <2>1, <2>2, <2>3, Shrink DEF Threads
  <2> QED
    BY <1>1, <2>4 DEF CInv
<1> QED
  BY <1>4, <1>5 DEF CreateVirtualDisplay

LEMMA DestroyVirtualDisplayCInv ==
  ASSUME CInv, NEW d \in VirtSlots, DestroyVirtualDisplay(d)
  PROVE  CInv'
<1>1. IInv'
  BY DestroyVirtualDisplayIInv DEF CInv
<1>2. \A s \in Slots : Present(disp', s) => Present(disp, s)
  BY DEF DestroyVirtualDisplay, DestroyNonPluggable, Present, CInv, IInv, TypeOK
<1>3. /\ Item("Conc", d, 0) \in Items /\ Item("Conc", d, 0).op = "Conc"
      /\ Goto("client", Item("Conc", d, 0))
      /\ NotFixerOp(pc["client"].op)
      /\ power' = power /\ active' = active /\ primaryReady' = primaryReady
  BY SlotsNat DEF Item, Items, Ops, DestroyVirtualDisplay, NotFixerOp, Idle
<1>4. ~Scanning("client")'
  BY <1>3 DEF Goto, Scanning, ScanOps, Item, CInv, IInv, TypeOK, Threads
<1>5. EarlyEmpty' /\ OnlyB(disp') /\ FixPending'
  BY <1>2, <1>3, <1>4, Shrink DEF Threads
<1> QED
  BY <1>1, <1>5 DEF CInv

LEMMA HwToggleCInv ==
  ASSUME CInv, NEW h \in HwPlug, HwToggle(h)
  PROVE  CInv'
BY HwToggleIInv DEF CInv, HwToggle, EarlyEmpty, OnlyB, FixPending, Bad, BOn, Fixer, Scanning

LEMMA UEventCInv ==
  ASSUME CInv, UEvent
  PROVE  CInv'
<1>1. IInv'
  BY UEventIInv DEF CInv
<1>2. CASE primaryReady
  <2>1. /\ Goto("uevent", IF NP > 0 THEN Item("Disc", 1, 0) ELSE Item("Conn", NoSlot, 1))
        /\ (IF NP > 0 THEN Item("Disc", 1, 0) ELSE Item("Conn", NoSlot, 1)) \in Items
    BY <1>2, SlotsNat, PoolSizes DEF UEvent, StartScan, Item, Items, Ops, PlugSlots, Slots
  <2>2. /\ NotFixerOp(pc["uevent"].op)
        /\ NotFixerOp((IF NP > 0 THEN Item("Disc", 1, 0) ELSE Item("Conn", NoSlot, 1)).op)
        /\ \A r \in Slots : Present(disp', r) => Present(disp, r)
        /\ power' = power /\ active' = active /\ primaryReady' = primaryReady
    BY DEF NotFixerOp, UEvent, Idle, Item
  <2>3. EarlyEmpty' /\ OnlyB(disp') /\ FixPending'
    BY <1>2, <2>1, <2>2, Shrink DEF Threads
  <2> QED
    BY <1>1, <2>3 DEF CInv
<1>3. CASE ~primaryReady
  BY <1>1, <1>3 DEF UEvent, CInv, EarlyEmpty, OnlyB, FixPending, Bad, BOn, Fixer, Scanning
<1> QED
  BY <1>2, <1>3
-----------------------------------------------------------------------------
(***************************************************************************)
(* The steps of a scan and the client's HandleConcurrency call.  A scan    *)
(* only runs after the first frame.                                       *)
(***************************************************************************)
LEMMA ScanReady ==
  ASSUME CInv, NEW t \in Threads, Scanning(t)
  PROVE  primaryReady
BY DEF CInv, EarlyEmpty

LEMMA ConcCInv ==
  ASSUME SmallPools, CInv, NEW t \in Threads, Conc(t)
  PROVE  CInv'
<1>1. IInv'
  BY ConcIInv DEF CInv
<1>2. /\ IdleItem \in Items /\ NotFixerOp(IdleItem.op)
      /\ ~Scanning(t)'
  BY DEF IdleItem, Item, Items, Ops, NotFixerOp, Conc, Goto, Scanning, ScanOps, CInv, IInv, TypeOK
<1>3. EarlyEmpty' /\ OnlyB(disp') /\ FixPending'
  <2>1. /\ Goto(t, IdleItem)
        /\ \A r \in Slots : Present(disp, r) => Present(disp, r)
        /\ ~NotFixerOp(pc[t].op) => disp = disp /\ pc[t].s = pc[t].s /\ pc[t].op # "MapSet"
        /\ disp' = disp /\ power' = power /\ primaryReady' = primaryReady
        /\ active' = HandleConcurrency(disp, power, active, pc[t].s)
    BY DEF Conc
  <2> QED
    BY <1>2, <2>1, Arbitrate
<1> QED
  BY <1>1, <1>3 DEF CInv

LEMMA ConnConcCInv ==
  ASSUME SmallPools, CInv, NEW t \in Threads, ConnConc(t)
  PROVE  CInv'
<1>1. IInv'
  BY ConnConcIInv DEF CInv
<1>2. primaryReady
  BY ScanReady DEF ConnConc, Scanning, ScanOps, Ops
<1> DEFINE it == Item("Conn", NoSlot, pc[t].h + 1)
<1>3. it \in Items /\ NotFixerOp(it.op)
  BY SlotsNat DEF Item, Items, Ops, NotFixerOp, CInv, IInv, TypeOK
<1>4. EarlyEmpty' /\ OnlyB(disp') /\ FixPending'
  <2>1. /\ Goto(t, it)
        /\ \A r \in Slots : Present(disp, r) => Present(disp, r)
        /\ ~NotFixerOp(pc[t].op) => disp = disp /\ pc[t].s = pc[t].s /\ pc[t].op # "MapSet"
        /\ disp' = disp /\ power' = power /\ primaryReady' = primaryReady
        /\ active' = HandleConcurrency(disp, power, active, pc[t].s)
    BY DEF ConnConc
  <2> QED
    BY <1>2, <1>3, <2>1, Arbitrate
<1> QED
  BY <1>1, <1>4 DEF CInv

LEMMA NotifyCInv ==
  ASSUME SmallPools, CInv, NEW t \in Threads, Notify(t)
  PROVE  CInv'
<1>1. IInv'
  BY NotifyIInv DEF CInv
<1>2. primaryReady
  BY ScanReady DEF Notify, Scanning, ScanOps, Ops
<1> DEFINE k == pc[t].h
           it == IF k < Len(pending[t]) THEN Item("Notify", NoSlot, k + 1) ELSE IdleItem
<1>3. it \in Items /\ NotFixerOp(it.op) /\ NotFixerOp(pc[t].op)
  BY SlotsNat DEF Item, Items, Ops, IdleItem, NotFixerOp, Notify, CInv, IInv, TypeOK
<1>4. EarlyEmpty' /\ OnlyB(disp') /\ FixPending'
  <2>1. /\ Goto(t, it)
        /\ \A r \in Slots : Present(disp, r) => Present(disp, r)
        /\ disp' = disp /\ power' = power /\ primaryReady' = primaryReady
        /\ active' = HandleConcurrency(disp, power, active, pending[t][k])
    BY DEF Notify
  <2> QED
    BY <1>2, <1>3, <2>1, Arbitrate
<1> QED
  BY <1>1, <1>4 DEF CInv

LEMMA DiscLockedCInv ==
  ASSUME SmallPools, CInv, NEW t \in Threads, DiscLocked(t)
  PROVE  CInv'
<1> DEFINE s == pc[t].s
           disp2 == [disp EXCEPT ![s] = NoDisplay]
<1>1. IInv'
  BY DiscLockedIInv DEF CInv
<1>2. /\ primaryReady
      /\ s \in PlugSlots
      /\ NotFixerOp(pc[t].op)
  BY ScanReady DEF DiscLocked, Scanning, ScanOps, Ops, NotFixerOp, CInv, IInv, PcOK
<1>3. /\ AfterDisc(s) \in Items /\ NotFixerOp(AfterDisc(s).op)
      /\ Goto(t, AfterDisc(s))
      /\ power' = power /\ primaryReady' = primaryReady
  BY <1>2, AfterDiscType DEF NotFixerOp, DiscLocked, AfterDisc, Item
<1>4. CASE Present(disp, s)
  <2>1. /\ \A r \in Slots : Present(disp2, r) => Present(disp, r)
        /\ disp' = disp2
        /\ active' = HandleConcurrency(disp2, power, active, s)
    BY <1>4 DEF DiscLocked, Present, CInv, IInv, TypeOK
  <2>2. EarlyEmpty' /\ OnlyB(disp') /\ FixPending'
    BY <1>2, <1>3, <2>1, Arbitrate
  <2> QED
    BY <1>1, <2>2 DEF CInv
<1>5. CASE ~Present(disp, s)
  <2>1. disp' = disp /\ active' = active
    BY <1>5 DEF DiscLocked
  <2>2. EarlyEmpty' /\ OnlyB(disp') /\ FixPending'
    BY <1>2, <1>3, <2>1, Shrink
  <2> QED
    BY <1>1, <2>2 DEF CInv
<1> QED
  BY <1>4, <1>5

LEMMA DiscCInv ==
  ASSUME CInv, NEW t \in Threads, Disc(t)
  PROVE  CInv'
<1> DEFINE s == pc[t].s
<1>1. IInv'
  BY DiscIInv DEF CInv
<1>2. /\ primaryReady
      /\ s \in PlugSlots
      /\ NotFixerOp(pc[t].op)
  BY ScanReady DEF Disc, Scanning, ScanOps, Ops, NotFixerOp, CInv, IInv, PcOK
<1>3. /\ AfterDisc(s) \in Items /\ NotFixerOp(AfterDisc(s).op)
      /\ Item("DiscLocked", s, 0) \in Items /\ NotFixerOp(Item("DiscLocked", s, 0).op)
  BY <1>2, AfterDiscType, SlotsNat DEF NotFixerOp, AfterDisc, Item, Items, Ops
<1>4. /\ \A r \in Slots : Present(disp', r) => Present(disp, r)
      /\ power' = power /\ active' = active /\ primaryReady' = primaryReady
      /\ Goto(t, AfterDisc(s)) \/ Goto(t, Item("DiscLocked", s, 0))
  BY DEF Disc, DestroyNonPluggable, Present, CInv, IInv, TypeOK
<1>5. EarlyEmpty' /\ OnlyB(disp') /\ FixPending'
  BY <1>2, <1>3, <1>4, Shrink
<1> QED
  BY <1>1, <1>5 DEF CInv

LEMMA FinishCInv ==
  ASSUME CInv, NEW t \in Threads, Finish(t)
  PROVE  CInv'
<1> DEFINE it == IF pending[t] = << >> THEN IdleItem ELSE Item("Notify", NoSlot, 1)
<1>1. IInv'
  BY FinishIInv DEF CInv
<1>2. /\ primaryReady
      /\ NotFixerOp(pc[t].op)
      /\ it \in Items /\ NotFixerOp(it.op)
  BY ScanReady, SlotsNat DEF Finish, Scanning, ScanOps, Ops, NotFixerOp, IdleItem, Item, Items
<1>3. /\ Goto(t, it)
      /\ \A r \in Slots : Present(disp', r) => Present(disp, r)
      /\ power' = power /\ active' = active /\ primaryReady' = primaryReady
  BY DEF Finish
<1>4. EarlyEmpty' /\ OnlyB(disp') /\ FixPending'
  BY <1>2, <1>3, Shrink
<1> QED
  BY <1>1, <1>4 DEF CInv

LEMMA MapSetCInv ==
  ASSUME CInv, NEW t \in Threads, MapSet(t)
  PROVE  CInv'
<1>1. IInv'
  BY MapSetIInv DEF CInv
<1>2. primaryReady
  BY ScanReady DEF MapSet, Scanning, ScanOps, Ops
<1>3. /\ pc'[t] = Item("ConnConc", pc[t].s, pc[t].h)
      /\ \A u \in Threads \ {t} : pc'[u] = pc[u]
  BY DEF MapSet, Goto, CInv, IInv, TypeOK
<1>4. ASSUME NEW r \in PlugSlots \cup VirtSlots, Bad(r)' PROVE Fixer(r)'
  <2>1. PICK u \in Threads :
          \/ pc[u].op = "Conc" /\ pc[u].s \in {r, B}
          \/ pc[u].op \in {"MapSet", "ConnConc"} /\ pc[u].s = r
    BY <1>4 DEF Bad, BOn, MapSet, CInv, FixPending, Fixer
  <2>2. CASE u = t
    <3>1. pc[t].op = "MapSet" /\ pc[t].s = r
      BY <2>1, <2>2 DEF MapSet
    <3>2. pc'[t].op = "ConnConc" /\ pc'[t].s = r
      BY <1>3, <3>1 DEF Item
    <3> QED
      BY <3>2 DEF Fixer
  <2>3. CASE u # t
    BY <1>3, <2>1, <2>3 DEF Fixer
  <2> QED
    BY <2>2, <2>3
<1> QED
  BY <1>1, <1>2, <1>4 DEF CInv, EarlyEmpty, OnlyB, FixPending, MapSet

LEMMA ConnCInv ==
  ASSUME CInv, NEW t \in Threads, Conn(t)
  PROVE  CInv'
<1> DEFINE h == pc[t].h
           s == FirstFree(PlugSlots)
<1>1. IInv'
  BY ConnIInv DEF CInv
<1>2. /\ primaryReady /\ primaryReady' = primaryReady
      /\ NotFixerOp(pc[t].op)
      /\ h \in Nat
  BY ScanReady DEF Conn, Scanning, ScanOps, Ops, NotFixerOp, CInv, IInv, TypeOK, Items
<1>3. CASE /\ disp' = disp /\ power' = power /\ active' = active
           /\ \/ Goto(t, Item("Finish", NoSlot, 0))
              \/ Goto(t, Item("Conn", NoSlot, h + 1))
              \/ Goto(t, IdleItem)
  <2>a. /\ Item("Finish", NoSlot, 0) \in Items /\ Item("Conn", NoSlot, h + 1) \in Items
        /\ IdleItem \in Items
    BY <1>2, SlotsNat DEF Item, Items, Ops, IdleItem
  <2>b. NotFixerOp("Finish") /\ NotFixerOp("Conn") /\ NotFixerOp("Idle")
    BY DEF NotFixerOp
  <2>c. \A r \in Slots : Present(disp', r) => Present(disp, r)
    BY <1>3 DEF Present
  <2>1. /\ Item("Finish", NoSlot, 0) \in Items /\ NotFixerOp("Finish")
        /\ Item("Conn", NoSlot, h + 1) \in Items /\ NotFixerOp("Conn")
        /\ IdleItem \in Items /\ NotFixerOp("Idle")
        /\ \A r \in Slots : Present(disp', r) => Present(disp, r)
    BY <2>a, <2>b, <2>c
  <2>2. EarlyEmpty' /\ OnlyB(disp') /\ FixPending'
    BY <1>2, <1>3, <2>1, Shrink DEF Item, IdleItem
  <2> QED
    BY <1>1, <2>2 DEF CInv
<1>4. CASE /\ \E r \in PlugSlots : ~Present(disp, r)
           /\ disp' = [disp EXCEPT ![s] = NewDisplay("Pluggable", h)]
           /\ power' = [power EXCEPT ![s] = "Off"]
           /\ active' = [active EXCEPT ![s] = TRUE]
           /\ Goto(t, Item("MapSet", s, h))
  <2>1. s \in PlugSlots /\ s \notin BuiltinSlots
    BY <1>4, FirstFreeIsFree, SlotsNat, PoolsApart
  <2>2. \A r \in Slots \ {s} :
          disp'[r] = disp[r] /\ power'[r] = power[r] /\ active'[r] = active[r]
    BY <1>4 DEF CInv, IInv, TypeOK
  <2>3. BOn(disp', power') = BOn(disp, power) /\ OnlyB(disp')
    BY <2>1, <2>2, SlotsNat DEF BOn, OnlyB, Present, CInv
  <2>4. /\ pc'[t] = Item("MapSet", s, h)
        /\ \A u \in Threads \ {t} : pc'[u] = pc[u]
    BY <1>4 DEF Goto, CInv, IInv, TypeOK
  <2>5. ASSUME NEW r \in PlugSlots \cup VirtSlots, Bad(r)' PROVE Fixer(r)'
    <3>1. CASE r = s
      BY <2>4, <3>1 DEF Fixer, Item
    <3>2. CASE r # s
      <4>1. PICK u \in Threads :
              \/ pc[u].op = "Conc" /\ pc[u].s \in {r, B}
              \/ pc[u].op \in {"MapSet", "ConnConc"} /\ pc[u].s = r
        BY <2>2, <2>3, <2>5, <3>2, SlotsNat DEF Bad, Present, CInv, FixPending, Fixer
      <4>2. u # t
        BY <1>2, <4>1 DEF NotFixerOp
      <4> QED
        BY <2>4, <4>1, <4>2 DEF Fixer
    <3> QED
      BY <3>1, <3>2
  <2>6. EarlyEmpty'
    BY <1>2 DEF EarlyEmpty
  <2> QED
    BY <1>1, <2>3, <2>5, <2>6 DEF CInv, FixPending
<1> QED
  BY <1>3, <1>4 DEF Conn
-----------------------------------------------------------------------------
LEMMA NextCInv ==
  ASSUME SmallPools, CInv, [Next]_vars
  PROVE  CInv'
<1>1. CASE RegisterCallback
  BY <1>1, RegisterCallbackCInv
<1>2. CASE PresentPrimaryFirst
  BY <1>2, PresentPrimaryFirstCInv
<1>3. CASE \E s \in Slots, m \in Modes : SetPowerMode(s, m)
  BY <1>3, SetPowerModeCInv
<1>4. CASE CreateVirtualDisplay
  BY <1>4, CreateVirtualDisplayCInv
<1>5. CASE \E d \in VirtSlots : DestroyVirtualDisplay(d)
  BY <1>5, DestroyVirtualDisplayCInv
<1>6. CASE \E h \in HwPlug : HwToggle(h)
  BY <1>6, HwToggleCInv
<1>7. CASE UEvent
  BY <1>7, UEventCInv
<1>8. ASSUME NEW t \in Threads,
             \/ Conc(t) \/ Disc(t) \/ DiscLocked(t) \/ Conn(t) \/ MapSet(t)
             \/ ConnConc(t) \/ Finish(t) \/ Notify(t)
      PROVE  CInv'
  BY <1>8, ConcCInv, DiscCInv, DiscLockedCInv, ConnCInv, MapSetCInv, ConnConcCInv,
     FinishCInv, NotifyCInv
<1>9. CASE UNCHANGED vars
  BY <1>9, NextIInv DEF vars, CInv, EarlyEmpty, OnlyB, FixPending, Bad, BOn, Fixer, Scanning
<1> QED
  BY <1>1, <1>2, <1>3, <1>4, <1>5, <1>6, <1>7, <1>8, <1>9 DEF Next

\* Once every thread is idle there is no pending HandleConcurrency call, so
\* no display is bad.
LEMMA CInvConcurrency ==
  ASSUME CInv PROVE BuiltinConcurrency
<1> SUFFICES ASSUME Quiescent, BuiltinOn, PlugActive \/ VirtActive PROVE FALSE
  BY DEF BuiltinConcurrency
<1>1. PICK r \in PlugSlots \cup VirtSlots : Present(disp, r) /\ active[r]
  BY DEF PlugActive, VirtActive
<1>2. Fixer(r)
  BY <1>1 DEF CInv, FixPending, Bad, BOn, BuiltinOn
<1> QED
  BY <1>2 DEF Fixer, Quiescent, Idle

(***************************************************************************)
(* BuiltinConcurrency for all pools HandleConcurrency's fixed ExtIdx and   *)
(* VirIdx cover: once the client and uevent threads are idle, a powered    *)
(* second builtin display never coexists with an active pluggable or       *)
(* virtual display, however SetPowerMode, Create/DestroyVirtualDisplay and *)
(* the two threads' hotplug scans (CreatePluggableDisplays) interleave,   *)
(* whether Create fails or not, and whether the scans overlap or not.     *)
(***************************************************************************)
THEOREM BuiltinConcurrencySmallPools ==
  ASSUME SmallPools
  PROVE  Spec => []BuiltinConcurrency
<1>1. Init => CInv
  BY InitCInv
<1>2. CInv /\ [Next]_vars => CInv'
  BY NextCInv
<1>3. CInv => BuiltinConcurrency
  BY CInvConcurrency
<1> QED
  BY <1>1, <1>2, <1>3, PTL DEF Spec
====
