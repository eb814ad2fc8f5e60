--------------------------- MODULE HwcSerialProofs ---------------------------
(***************************************************************************)
(* DestroyDisplay chooses the destroy routine by the slot's disp_type      *)
(* (hwc_session.cpp 2754-2763).  When a pluggable scan never starts while *)
(* the other thread scans, disp_type always names the kind of the slot's  *)
(* display object, except in the window between HandleConnectedDisplays'  *)
(* Create (under the lock) and its write of disp_type (after the lock),    *)
(* and no other scan can look at the slot in that window.  Hence no       *)
(* display is ever destroyed with the routine of another kind.            *)
(***************************************************************************)
EXTENDS HwcSessionProofs

USE MaxAssumption, HwAssumption

\* At most one thread is inside a pluggable scan.
OneScanner == ~(Scanning("client") /\ Scanning("uevent"))

\* A slot's disp_type, when set, names the kind of the object in the slot.
KindsMatch ==
  \A s \in Slots : mapType[s] # "None" => Present(disp, s) /\ disp[s].kind = mapType[s]

\* An occupied slot with no disp_type is one whose map a scan is about to
\* write (MapSet).
UnmappedBeingSet ==
  \A s \in Slots : Present(disp, s) /\ mapType[s] = "None" =>
    \E t \in Threads : pc[t].op = "MapSet" /\ pc[t].s = s

\* Between the unlocked Disconnected notification and the locked destroy,
\* the slot is still typed pluggable.
DiscLockedPluggable ==
  \A t \in Threads : pc[t].op = "DiscLocked" => mapType[pc[t].s] = "Pluggable"

\* The slot a scan is about to map holds the pluggable object it created.
MapSetPluggable ==
  \A t \in Threads : pc[t].op = "MapSet" =>
    Present(disp, pc[t].s) /\ disp[pc[t].s].kind = "Pluggable"

\* Pluggable display objects live only in pluggable slots.
PoolKinds ==
  \A s \in Slots : Present(disp, s) /\ disp[s].kind = "Pluggable" => s \in PlugSlots

SerialInv ==
  /\ NoMisfree
  /\ PoolKinds
  /\ OneScanner
  /\ KindsMatch
  /\ UnmappedBeingSet
  /\ DiscLockedPluggable
  /\ MapSetPluggable

LEMMA InitSerial == Init => SerialInv
<1> SUFFICES ASSUME Init PROVE SerialInv
  OBVIOUS
<1>1. NoMisfree /\ OneScanner /\ DiscLockedPluggable /\ MapSetPluggable
  BY DEF Init, NoMisfree, OneScanner, DiscLockedPluggable, MapSetPluggable,
         Scanning, ScanOps, IdleItem, Item, Threads
<1>2. \A s \in Slots : mapType[s] # "None" => s = Primary
  BY DEF Init
<1>3. Present(disp, Primary) /\ disp[Primary].kind = mapType[Primary]
  BY SlotsNat DEF Init, Present, NewDisplay, NoDisplay
<1>4. KindsMatch
  BY <1>2, <1>3 DEF KindsMatch
<1>5. \A s \in Slots : Present(disp, s) => s = Primary
  BY DEF Init, Present
<1>6. mapType[Primary] = "Builtin"
  BY SlotsNat DEF Init
<1>7. UnmappedBeingSet
  BY <1>5, <1>6 DEF UnmappedBeingSet
<1>8. PoolKinds
  BY <1>5, SlotsNat DEF Init, PoolKinds, NewDisplay
<1> QED
  BY <1>1, <1>4, <1>7, <1>8 DEF SerialInv

\* A step that leaves the slot table and its types alone, and moves no
\* thread into or out of the two windows, or into a scan, keeps SerialInv.
LEMMA SerialFrame ==
  ASSUME SerialInv,
         disp' = disp, mapType' = mapType, misfreed' = misfreed,
         \A t \in Threads : pc'[t].op \in {"DiscLocked", "MapSet"} => pc'[t] = pc[t],
         \A t \in Threads : pc[t].op \in {"DiscLocked", "MapSet"} => pc'[t] = pc[t],
         OneScanner'
  PROVE  SerialInv'
<1>2. UnmappedBeingSet'
  BY DEF SerialInv, UnmappedBeingSet, Present
<1>3. DiscLockedPluggable' /\ MapSetPluggable'
  BY DEF SerialInv, DiscLockedPluggable, MapSetPluggable, Present
<1> QED
  BY <1>2, <1>3 DEF SerialInv, NoMisfree, KindsMatch, PoolKinds, Present

\* The same for a step of one thread t that jumps to item it.
LEMMA GotoSerial ==
  ASSUME IInv, SerialInv, NEW t \in Threads, NEW it, Goto(t, it),
         disp' = disp, mapType' = mapType, misfreed' = misfreed,
         it.op \notin {"DiscLocked", "MapSet"},
         pc[t].op \notin {"DiscLocked", "MapSet"},
         it.op \in ScanOps => pc[t].op \in ScanOps
  PROVE  SerialInv'
<1>1. \A r \in Threads : pc'[r] = IF r = t THEN it ELSE pc[r]
  BY DEF Goto, IInv, TypeOK
<1>2. OneScanner'
  BY <1>1 DEF SerialInv, OneScanner, Scanning, Threads
<1> QED
  BY <1>1, <1>2, SerialFrame

\* A thread starts a scan (StartScan) while the other does not scan.
LEMMA StartSerial ==
  ASSUME IInv, SerialInv, NEW t \in Threads, Idle(t),
         \A r \in Threads \ {t} : ~Scanning(r),
         NEW it, Goto(t, it), it.op \notin {"DiscLocked", "MapSet"},
         disp' = disp, mapType' = mapType, misfreed' = misfreed
  PROVE  SerialInv'
<1>1. \A r \in Threads : pc'[r] = IF r = t THEN it ELSE pc[r]
  BY DEF Goto, IInv, TypeOK
<1>2. OneScanner'
  BY <1>1 DEF OneScanner, Scanning, Threads
<1> QED
  BY <1>1, <1>2, SerialFrame DEF Idle

\* The pluggable pool is disjoint from the others.
LEMMA PoolsDisjoint ==
  /\ Primary \notin PlugSlots
  /\ PlugSlots \cap BuiltinSlots = {}
  /\ PlugSlots \cap VirtSlots = {}
BY PoolSizes DEF Primary, PlugSlots, BuiltinSlots, VirtSlots

LEMMA HwToggleSerial ==
  ASSUME SerialInv, NEW h \in HwPlug, HwToggle(h)
  PROVE  SerialInv'
BY SerialFrame DEF HwToggle, SerialInv, OneScanner, Scanning

LEMMA PresentPrimaryFirstSerial ==
  ASSUME IInv, SerialInv, SerialScans, PresentPrimaryFirst
  PROVE  SerialInv'
<1>1. \A r \in Threads \ {"client"} : ~Scanning(r)
  BY DEF PresentPrimaryFirst, Threads
<1>2. /\ Goto("client", IF NP > 0 THEN Item("Disc", 1, 0) ELSE Item("Conn", NoSlot, 1))
      /\ (IF NP > 0 THEN Item("Disc", 1, 0) ELSE Item("Conn", NoSlot, 1)).op
            \notin {"DiscLocked", "MapSet"}
  BY DEF PresentPrimaryFirst, StartScan, Item
<1> QED
  BY <1>1, <1>2, StartSerial DEF PresentPrimaryFirst, Threads

LEMMA UEventSerial ==
  ASSUME IInv, SerialInv, SerialScans, UEvent
  PROVE  SerialInv'
<1>1. CASE primaryReady
  <2>1. \A r \in Threads \ {"uevent"} : ~Scanning(r)
    BY DEF UEvent, Threads
  <2>2. /\ Goto("uevent", IF NP > 0 THEN Item("Disc", 1, 0) ELSE Item("Conn", NoSlot, 1))
        /\ (IF NP > 0 THEN Item("Disc", 1, 0) ELSE Item("Conn", NoSlot, 1)).op
              \notin {"DiscLocked", "MapSet"}
    BY <1>1 DEF UEvent, StartScan, Item
  <2> QED
    BY <2>1, <2>2, StartSerial DEF UEvent, Threads
<1>2. CASE ~primaryReady
  BY <1>2, SerialFrame DEF UEvent, SerialInv, OneScanner, Scanning
<1> QED
  BY <1>1, <1>2

LEMMA RegisterCallbackSerial ==
  ASSUME IInv, SerialInv, RegisterCallback
  PROVE  SerialInv'
<1>1. PICK made \in BuiltinsMade :
        LET new == {BuiltinSlotOf(k) : k \in made} IN
        /\ disp' = BuiltinTable(made)
        /\ mapType' = [s \in Slots |-> IF s \in new THEN "Builtin" ELSE mapType[s]]
  BY DEF RegisterCallback
<1> DEFINE new == {BuiltinSlotOf(k) : k \in made}
<1>2. new \subseteq BuiltinSlots
  BY PoolSizes DEF BuiltinsMade, BuiltinPlaced, BuiltinSlotOf, BuiltinSlots
<1>3. \A s \in Slots : s \notin new => disp'[s] = disp[s] /\ mapType'[s] = mapType[s]
  BY <1>1 DEF BuiltinTable
<1>4. \A s \in new : Present(disp', s) /\ disp'[s].kind = "Builtin" /\ mapType'[s] = "Builtin"
  BY <1>1, <1>2, SlotsNat DEF BuiltinTable, NewDisplay, Present, NoDisplay
<1>5. \A t \in Threads : pc[t].op \in {"DiscLocked", "MapSet"} => pc[t].s \notin new
  BY <1>2, PoolsDisjoint DEF IInv, PcOK
<1>6. UNCHANGED << pc, misfreed >>
  BY DEF RegisterCallback
<1>7. KindsMatch' /\ UnmappedBeingSet' /\ PoolKinds'
  BY <1>3, <1>4, <1>6 DEF SerialInv, KindsMatch, UnmappedBeingSet, PoolKinds, Present
<1>8. DiscLockedPluggable' /\ MapSetPluggable'
  BY <1>3, <1>5, <1>6, SlotsNat DEF SerialInv, DiscLockedPluggable, MapSetPluggable,
     Present, IInv, PcOK
<1> QED
  BY <1>6, <1>7, <1>8 DEF SerialInv, NoMisfree, OneScanner, Scanning

LEMMA SetPowerModeSerial ==
  ASSUME IInv, SerialInv, NEW s \in Slots, NEW m \in Modes, SetPowerMode(s, m)
  PROVE  SerialInv'
<1>1. pc["client"].op = "Idle"
  BY DEF SetPowerMode, Idle
<1> QED
  BY <1>1, GotoSerial DEF SetPowerMode, Item, Threads, ScanOps

LEMMA ConcSerial ==
  ASSUME IInv, SerialInv, NEW t \in Threads, Conc(t)
  PROVE  SerialInv'
BY GotoSerial DEF Conc, IdleItem, Item, ScanOps

LEMMA ConnConcSerial ==
  ASSUME IInv, SerialInv, NEW t \in Threads, ConnConc(t)
  PROVE  SerialInv'
BY GotoSerial DEF ConnConc, Item, ScanOps, Ops

LEMMA FinishSerial ==
  ASSUME IInv, SerialInv, NEW t \in Threads, Finish(t)
  PROVE  SerialInv'
<1>1. pc[t].op = "Finish"
  BY DEF Finish
<1>2. CASE pending[t] = << >>
  BY <1>1, <1>2, GotoSerial DEF Finish, IdleItem, Item, ScanOps, Ops
<1>3. CASE pending[t] # << >>
  BY <1>1, <1>3, GotoSerial DEF Finish, Item, ScanOps, Ops
<1> QED
  BY <1>2, <1>3

LEMMA NotifySerial ==
  ASSUME IInv, SerialInv, NEW t \in Threads, Notify(t)
  PROVE  SerialInv'
BY GotoSerial DEF Notify, IdleItem, Item, ScanOps, Ops

\* A client call that leaves the slot table alone and only moves the client
\* from Idle to the HandleConcurrency step.
LEMMA ClientToConc ==
  ASSUME IInv, SerialInv, Idle("client"), NEW d,
         Goto("client", Item("Conc", d, 0)),
         disp' = disp, mapType' = mapType, misfreed' = misfreed
  PROVE  SerialInv'
BY GotoSerial DEF Idle, Item, ScanOps, Threads

\* A step that writes only slot c outside the pluggable pool, and moves one
\* thread outside the two windows, keeps the window conjuncts.
LEMMA OtherSlotWindows ==
  ASSUME IInv, SerialInv, NEW c \in Slots \ PlugSlots, NEW t0 \in Threads, NEW it,
         it.op \notin {"DiscLocked", "MapSet"},
         pc[t0].op \notin {"DiscLocked", "MapSet"},
         \A t \in Threads : pc'[t] = IF t = t0 THEN it ELSE pc[t],
         \A r \in Slots \ {c} : disp'[r] = disp[r] /\ mapType'[r] = mapType[r]
  PROVE  DiscLockedPluggable' /\ MapSetPluggable'
<1> SUFFICES ASSUME NEW t \in Threads, pc'[t].op \in {"DiscLocked", "MapSet"}
             PROVE  /\ pc'[t].op = "DiscLocked" => mapType'[pc'[t].s] = "Pluggable"
                    /\ pc'[t].op = "MapSet" =>
                         Present(disp', pc'[t].s) /\ disp'[pc'[t].s].kind = "Pluggable"
  BY DEF DiscLockedPluggable, MapSetPluggable
<1>1. t # t0 /\ pc'[t] = pc[t]
  OBVIOUS
<1>2. pc[t].s \in Slots \ {c}
  BY <1>1, SlotsNat DEF IInv, PcOK
<1> QED
  BY <1>1, <1>2 DEF SerialInv, DiscLockedPluggable, MapSetPluggable, Present

LEMMA CreateVirtualDisplaySerial ==
  ASSUME IInv, SerialInv, CreateVirtualDisplay
  PROVE  SerialInv'
<1>0. Idle("client")
  BY DEF CreateVirtualDisplay
<1>1. CASE \E s \in VirtSlots : ~Present(disp, s)
  <2> DEFINE s == FirstFree(VirtSlots)
  <2>1. s \in VirtSlots /\ ~Present(disp, s)
    BY <1>1, FirstFreeIsFree, SlotsNat
  <2>2. PICK ok \in CreateOutcomes(HwVirtual) :
          IF ok
          THEN /\ disp' = [disp EXCEPT ![s] = NewDisplay("Virtual", HwVirtual)]
               /\ mapType' = [mapType EXCEPT ![s] = "Virtual"]
               /\ Goto("client", Item("Conc", s, 0))
          ELSE /\ UNCHANGED << disp, mapType >>
               /\ \E d \in Slots \cup {NoSlot} : Goto("client", Item("Conc", d, 0))
    BY <1>1 DEF CreateVirtualDisplay
  <2>3. CASE ok
    <3>1. /\ disp' = [disp EXCEPT ![s] = NewDisplay("Virtual", HwVirtual)]
          /\ mapType' = [mapType EXCEPT ![s] = "Virtual"]
          /\ pc' = [pc EXCEPT !["client"] = Item("Conc", s, 0)]
          /\ misfreed' = misfreed
      BY <2>2, <2>3 DEF Goto, CreateVirtualDisplay
    <3>2. s \in Slots /\ s \notin PlugSlots
      BY <2>1, SlotsNat, PoolsDisjoint
    <3>3. \A t \in Threads : pc'[t] = IF t = "client" THEN Item("Conc", s, 0) ELSE pc[t]
      BY <3>1 DEF IInv, TypeOK
    <3>4. \A t \in Threads : pc[t].op \in {"DiscLocked", "MapSet"} => pc[t].s # s
      BY <3>2 DEF IInv, PcOK
    <3>5. Present(disp', s) /\ disp'[s].kind = "Virtual" /\ mapType'[s] = "Virtual"
      BY <3>1, <3>2 DEF IInv, TypeOK, Present, NewDisplay, NoDisplay
    <3>6. \A r \in Slots \ {s} : disp'[r] = disp[r] /\ mapType'[r] = mapType[r]
      BY <3>1
    <3>7. PoolKinds' /\ KindsMatch' /\ UnmappedBeingSet'
      BY <3>2, <3>3, <3>5, <3>6, <1>0 DEF SerialInv, PoolKinds, KindsMatch,
         UnmappedBeingSet, Present, Idle, Item
    <3>8. DiscLockedPluggable' /\ MapSetPluggable'
      BY <3>2, <3>3, <3>6, <1>0, OtherSlotWindows DEF Idle, Item, Threads
    <3>9. NoMisfree' /\ OneScanner'
      BY <3>1, <3>3 DEF SerialInv, NoMisfree, OneScanner, Scanning, Item, ScanOps, Threads
    <3> QED
      BY <3>7, <3>8, <3>9 DEF SerialInv
  <2>4. CASE ~ok
    BY <2>2, <2>4, <1>0, ClientToConc DEF CreateVirtualDisplay
  <2> QED
    BY <2>3, <2>4
<1>2. CASE ~\E s \in VirtSlots : ~Present(disp, s)
  BY <1>2, <1>0, ClientToConc DEF CreateVirtualDisplay
<1> QED
  BY <1>1, <1>2

LEMMA DestroyVirtualDisplaySerial ==
  ASSUME IInv, SerialInv, NEW d \in VirtSlots, DestroyVirtualDisplay(d)
  PROVE  SerialInv'
<1>0. Idle("client") /\ Goto("client", Item("Conc", d, 0))
  BY DEF DestroyVirtualDisplay
<1>1. d \in Slots /\ d \notin PlugSlots
  BY SlotsNat, PoolsDisjoint
<1>2. CASE Present(disp, d)
  <2>1. /\ disp' = [disp EXCEPT ![d] = NoDisplay]
        /\ mapType' = [mapType EXCEPT ![d] = "None"]
        /\ misfreed' = (misfreed \/ disp[d].kind # IF mapType[d] = "Builtin"
                                                   THEN "Builtin" ELSE "Virtual")
    BY <1>2 DEF DestroyVirtualDisplay, DestroyNonPluggable, MapReset
  <2>2. \A t \in Threads : pc[t].op \in {"DiscLocked", "MapSet"} => pc[t].s # d
    BY <1>1 DEF IInv, PcOK
  <2>3. mapType[d] \in {"Builtin", "Virtual"} /\ disp[d].kind = mapType[d]
    <3>1. mapType[d] # "None"
      BY <1>1, <1>2, <2>2 DEF SerialInv, UnmappedBeingSet
    <3>2. disp[d].kind = mapType[d] /\ mapType[d] # "Pluggable"
      BY <3>1, <1>1 DEF SerialInv, KindsMatch, PoolKinds
    <3> QED
      BY <3>1, <3>2, <1>1 DEF IInv, TypeOK, Kinds
  <2>4. NoMisfree'
    BY <2>1, <2>3 DEF SerialInv, NoMisfree
  <2>5. \A t \in Threads : pc'[t] = IF t = "client" THEN Item("Conc", d, 0) ELSE pc[t]
    BY <1>0 DEF Goto, IInv, TypeOK
  <2>6. \A r \in Slots \ {d} : disp'[r] = disp[r] /\ mapType'[r] = mapType[r]
    BY <2>1
  <2>7. ~Present(disp', d) /\ mapType'[d] = "None"
    BY <2>1, <1>1 DEF IInv, TypeOK, Present
  <2>8. PoolKinds' /\ KindsMatch'
    BY <1>1, <2>6, <2>7 DEF SerialInv, PoolKinds, KindsMatch, Present
  <2>11. UnmappedBeingSet'
    BY <1>0, <1>1, <2>5, <2>6, <2>7 DEF SerialInv, UnmappedBeingSet, Present,
       Idle, Item
  <2>9. DiscLockedPluggable' /\ MapSetPluggable'
    BY <1>0, <1>1, <2>5, <2>6, OtherSlotWindows DEF Idle, Item, Threads
  <2>10. OneScanner'
    BY <2>5 DEF SerialInv, OneScanner, Scanning, Item, ScanOps, Threads
  <2> QED
    BY <2>4, <2>8, <2>9, <2>10, <2>11 DEF SerialInv
<1>3. CASE ~Present(disp, d)
  <2>1. UNCHANGED << disp, mapType, misfreed >>
    BY <1>3 DEF DestroyVirtualDisplay, DestroyNonPluggable
  <2> QED
    BY <2>1, <1>0, ClientToConc
<1> QED
  BY <1>2, <1>3

\* While one thread scans, the other is in no step of a scan.
LEMMA ScanExclusive ==
  ASSUME SerialInv, NEW t \in Threads, Scanning(t)
  PROVE  \A o \in Threads \ {t} : pc[o].op \notin {"DiscLocked", "MapSet"}
BY DEF SerialInv, OneScanner, Scanning, ScanOps, Ops, Threads

\* While a thread scans and is not about to map a slot, every occupied slot
\* is typed.
LEMMA TypedWhileScanning ==
  ASSUME SerialInv, NEW t \in Threads, Scanning(t), pc[t].op # "MapSet"
  PROVE  \A r \in Slots : Present(disp, r) => mapType[r] # "None"
BY ScanExclusive DEF SerialInv, UnmappedBeingSet

\* A step of thread t that leaves no thread in either window.
LEMMA NoWindowAfter ==
  ASSUME NEW t \in Threads, pc'[t].op \notin {"DiscLocked", "MapSet"},
         \A o \in Threads \ {t} : pc'[o] = pc[o] /\ pc[o].op \notin {"DiscLocked", "MapSet"}
  PROVE  DiscLockedPluggable' /\ MapSetPluggable'
BY DEF DiscLockedPluggable, MapSetPluggable

\* The scan's step of thread t moves only t.
LEMMA GotoOthers ==
  ASSUME IInv, NEW t \in Threads, NEW it, Goto(t, it)
  PROVE  /\ pc'[t] = it
         /\ \A o \in Threads \ {t} : pc'[o] = pc[o]
BY DEF Goto, IInv, TypeOK

LEMMA DiscSerial ==
  ASSUME IInv, SerialInv, NEW t \in Threads, Disc(t)
  PROVE  SerialInv'
<1> DEFINE s == pc[t].s
<1>1. pc[t].op = "Disc" /\ Scanning(t) /\ s \in PlugSlots /\ s \in Slots
  BY SlotsNat DEF Disc, Scanning, ScanOps, Ops, IInv, PcOK
<1>2. \A o \in Threads \ {t} : pc[o].op \notin {"DiscLocked", "MapSet"}
  BY <1>1, ScanExclusive
<1>3. \A r \in Slots : Present(disp, r) => mapType[r] # "None"
  BY <1>1, TypedWhileScanning
<1>4. AfterDisc(s).op \in {"Disc", "Conn"}
  BY DEF AfterDisc, Item
<1>5. CASE ConnectedIn(t, s)
  BY <1>1, <1>4, <1>5, GotoSerial DEF Disc, ScanOps, Ops
<1>6. CASE ~ConnectedIn(t, s) /\ DestroysAsPluggable(s)
  <2>1. /\ Goto(t, Item("DiscLocked", s, 0))
        /\ UNCHANGED << disp, mapType, misfreed >>
    BY <1>6 DEF Disc
  <2>2. pc'[t] = Item("DiscLocked", s, 0) /\ \A o \in Threads \ {t} : pc'[o] = pc[o]
    BY <2>1, GotoOthers
  <2>3. DiscLockedPluggable' /\ MapSetPluggable'
    BY <1>2, <1>6, <2>1, <2>2 DEF DiscLockedPluggable, MapSetPluggable, Item,
       DestroysAsPluggable
  <2>4. UnmappedBeingSet'
    BY <1>3, <2>1 DEF UnmappedBeingSet, Present
  <2>5. OneScanner'
    BY <2>2, <1>1, <1>2 DEF SerialInv, OneScanner, Scanning, Item, ScanOps, Ops, Threads
  <2> QED
    BY <2>1, <2>3, <2>4, <2>5 DEF SerialInv, NoMisfree, PoolKinds, KindsMatch, Present
<1>7. CASE ~ConnectedIn(t, s) /\ ~DestroysAsPluggable(s)
  <2>1. DestroyNonPluggable(s) /\ Goto(t, AfterDisc(s))
    BY <1>7 DEF Disc
  <2>2. pc'[t] = AfterDisc(s) /\ \A o \in Threads \ {t} : pc'[o] = pc[o]
    BY <2>1, GotoOthers
  <2>3. DiscLockedPluggable' /\ MapSetPluggable'
    BY <1>2, <1>4, <2>2, NoWindowAfter
  <2>4. OneScanner'
    BY <2>2, <1>1, <1>2, <1>4 DEF SerialInv, OneScanner, Scanning, ScanOps, Ops, Threads
  <2>5. CASE Present(disp, s)
    <3>1. /\ disp' = [disp EXCEPT ![s] = NoDisplay]
          /\ mapType' = [mapType EXCEPT ![s] = "None"]
          /\ misfreed' = (misfreed \/ disp[s].kind # IF mapType[s] = "Builtin"
                                                     THEN "Builtin" ELSE "Virtual")
      BY <2>1, <2>5 DEF DestroyNonPluggable, MapReset
    <3>2. mapType[s] \in {"Builtin", "Virtual"} /\ disp[s].kind = mapType[s]
      <4>1. mapType[s] # "None" /\ mapType[s] # "Pluggable"
        BY <1>1, <1>3, <1>7, <2>5 DEF DestroysAsPluggable
      <4>2. disp[s].kind = mapType[s]
        BY <4>1, <1>1 DEF SerialInv, KindsMatch
      <4> QED
        BY <4>1, <4>2, <1>1 DEF IInv, TypeOK, Kinds
    <3>3. NoMisfree'
      BY <3>1, <3>2 DEF SerialInv, NoMisfree
    <3>4. ~Present(disp', s) /\ mapType'[s] = "None"
      BY <3>1, <1>1 DEF IInv, TypeOK, Present
    <3>5. \A r \in Slots \ {s} : disp'[r] = disp[r] /\ mapType'[r] = mapType[r]
      BY <3>1
    <3>6. PoolKinds' /\ KindsMatch' /\ UnmappedBeingSet'
      BY <1>3, <3>4, <3>5 DEF SerialInv, PoolKinds, KindsMatch, UnmappedBeingSet, Present
    <3> QED
      BY <2>3, <2>4, <3>3, <3>6 DEF SerialInv
  <2>6. CASE ~Present(disp, s)
    <3>1. UNCHANGED << disp, mapType, misfreed >>
      BY <2>1, <2>6 DEF DestroyNonPluggable
    <3> QED
      BY <3>1, <1>3, <2>3, <2>4 DEF SerialInv, NoMisfree, PoolKinds, KindsMatch,
         UnmappedBeingSet, Present
  <2> QED
    BY <2>5, <2>6
<1> QED
  BY <1>5, <1>6, <1>7

LEMMA DiscLockedSerial ==
  ASSUME IInv, SerialInv, NEW t \in Threads, DiscLocked(t)
  PROVE  SerialInv'
<1> DEFINE s == pc[t].s
<1>1. pc[t].op = "DiscLocked" /\ Scanning(t) /\ s \in PlugSlots /\ s \in Slots
  BY SlotsNat DEF DiscLocked, Scanning, ScanOps, Ops, IInv, PcOK
<1>2. \A o \in Threads \ {t} : pc[o].op \notin {"DiscLocked", "MapSet"}
  BY <1>1, ScanExclusive
<1>3. \A r \in Slots : Present(disp, r) => mapType[r] # "None"
  BY <1>1, TypedWhileScanning
<1>4. Present(disp, s) /\ disp[s].kind = "Pluggable"
  BY <1>1 DEF SerialInv, DiscLockedPluggable, KindsMatch
<1>5. /\ disp' = [disp EXCEPT ![s] = NoDisplay]
      /\ mapType' = [mapType EXCEPT ![s] = "None"]
      /\ misfreed' = (misfreed \/ disp[s].kind # "Pluggable")
      /\ Goto(t, AfterDisc(s))
  BY <1>4 DEF DiscLocked, MapReset
<1>6. pc'[t] = AfterDisc(s) /\ \A o \in Threads \ {t} : pc'[o] = pc[o]
  BY <1>5, GotoOthers
<1>7. AfterDisc(s).op \in {"Disc", "Conn"}
  BY DEF AfterDisc, Item
<1>8. DiscLockedPluggable' /\ MapSetPluggable'
  BY <1>2, <1>6, <1>7, NoWindowAfter
<1>9. OneScanner'
  BY <1>1, <1>2, <1>6, <1>7 DEF SerialInv, OneScanner, Scanning, ScanOps, Ops, Threads
<1>10. NoMisfree'
  BY <1>4, <1>5 DEF SerialInv, NoMisfree
<1>11. ~Present(disp', s) /\ mapType'[s] = "None"
  BY <1>1, <1>5 DEF IInv, TypeOK, Present
<1>12. \A r \in Slots \ {s} : disp'[r] = disp[r] /\ mapType'[r] = mapType[r]
  BY <1>5
<1>13. PoolKinds' /\ KindsMatch' /\ UnmappedBeingSet'
  BY <1>3, <1>11, <1>12 DEF SerialInv, PoolKinds, KindsMatch, UnmappedBeingSet, Present
<1> QED
  BY <1>8, <1>9, <1>10, <1>13 DEF SerialInv

LEMMA MapSetSerial ==
  ASSUME IInv, SerialInv, NEW t \in Threads, MapSet(t)
  PROVE  SerialInv'
<1> DEFINE s == pc[t].s
<1>1. pc[t].op = "MapSet" /\ Scanning(t) /\ s \in PlugSlots /\ s \in Slots
  BY SlotsNat DEF MapSet, Scanning, ScanOps, Ops, IInv, PcOK
<1>2. \A o \in Threads \ {t} : pc[o].op \notin {"DiscLocked", "MapSet"}
  BY <1>1, ScanExclusive
<1>3. Present(disp, s) /\ disp[s].kind = "Pluggable"
  BY <1>1 DEF SerialInv, MapSetPluggable
<1>4. \A r \in Slots \ {s} : Present(disp, r) => mapType[r] # "None"
  BY <1>2 DEF SerialInv, UnmappedBeingSet
<1>5. /\ mapType' = [mapType EXCEPT ![s] = "Pluggable"]
      /\ UNCHANGED << disp, misfreed >>
      /\ Goto(t, Item("ConnConc", s, pc[t].h))
  BY DEF MapSet
<1>6. pc'[t] = Item("ConnConc", s, pc[t].h) /\ \A o \in Threads \ {t} : pc'[o] = pc[o]
  BY <1>5, GotoOthers
<1>7. DiscLockedPluggable' /\ MapSetPluggable'
  BY <1>2, <1>6, NoWindowAfter DEF Item
<1>8. OneScanner'
  BY <1>1, <1>2, <1>6 DEF SerialInv, OneScanner, Scanning, ScanOps, Ops, Threads, Item
<1>9. mapType'[s] = "Pluggable" /\ \A r \in Slots \ {s} : mapType'[r] = mapType[r]
  BY <1>1, <1>5 DEF IInv, TypeOK
<1>10. PoolKinds' /\ KindsMatch' /\ UnmappedBeingSet'
  BY <1>3, <1>4, <1>5, <1>9 DEF SerialInv, PoolKinds, KindsMatch, UnmappedBeingSet, Present
<1> QED
  BY <1>5, <1>7, <1>8, <1>10 DEF SerialInv, NoMisfree

LEMMA ConnSerial ==
  ASSUME IInv, SerialInv, NEW t \in Threads, Conn(t)
  PROVE  SerialInv'
<1> DEFINE hh == pc[t].h
<1>0. pc[t].op = "Conn" /\ Scanning(t) /\ hh \in Nat
  BY DEF Conn, Scanning, ScanOps, Ops, IInv, TypeOK, Items
<1>1. \A o \in Threads \ {t} : pc[o].op \notin {"DiscLocked", "MapSet"}
  BY <1>0, ScanExclusive
<1>2. CASE hh > NumHwPluggable
  <2>1. Goto(t, Item("Finish", NoSlot, 0)) /\ UNCHANGED << disp, mapType, misfreed >>
    BY <1>2 DEF Conn
  <2> QED
    BY <1>0, <2>1, GotoSerial DEF Item, ScanOps, Ops
<1>3. CASE hh <= NumHwPluggable /\ (hh \notin snap[t] \/ \A s \in PlugSlots : Present(disp, s))
  <2>1. Goto(t, Item("Conn", NoSlot, hh + 1)) /\ UNCHANGED << disp, mapType, misfreed >>
    BY <1>0, <1>3 DEF Conn
  <2> QED
    BY <1>0, <2>1, GotoSerial DEF Item, ScanOps, Ops
<1>4. CASE hh <= NumHwPluggable /\ hh \in snap[t] /\ \E s \in PlugSlots : ~Present(disp, s)
  <2> DEFINE ff == FirstFree(PlugSlots)
  <2>1. ff \in PlugSlots /\ ff \in Slots /\ ~Present(disp, ff)
    BY <1>4, FirstFreeIsFree, SlotsNat
  <2>0. /\ ~(hh > NumHwPluggable)
        /\ ~(hh \notin snap[t] \/ \A s \in PlugSlots : Present(disp, s))
    BY <1>0, <1>4
  <2>2. PICK ok \in CreateOutcomes(hh) :
          IF ok
          THEN /\ disp' = [disp EXCEPT ![ff] = NewDisplay("Pluggable", hh)]
               /\ power' = [power EXCEPT ![ff] = "Off"]
               /\ active' = [active EXCEPT ![ff] = TRUE]
               /\ Goto(t, Item("MapSet", ff, hh))
          ELSE /\ Goto(t, IdleItem)
               /\ UNCHANGED << disp, power, active >>
    BY <2>0, <1>0 DEF Conn
  <2>3. UNCHANGED << mapType, misfreed >>
    BY DEF Conn
  <2>4. CASE ok
    <3>1. disp' = [disp EXCEPT ![ff] = NewDisplay("Pluggable", hh)]
      BY <2>2, <2>4
    <3>2. pc'[t] = Item("MapSet", ff, hh) /\ \A o \in Threads \ {t} : pc'[o] = pc[o]
      BY <2>2, <2>4, GotoOthers
    <3>3. Present(disp', ff) /\ disp'[ff].kind = "Pluggable"
      BY <2>1, <3>1 DEF IInv, TypeOK, Present, NewDisplay, NoDisplay
    <3>4. \A r \in Slots \ {ff} : disp'[r] = disp[r]
      BY <3>1
    <3>5. mapType[ff] = "None"
      BY <2>1 DEF SerialInv, KindsMatch
    <3>6. \A r \in Slots : Present(disp, r) => mapType[r] # "None"
      BY <1>0, TypedWhileScanning
    <3>7. KindsMatch' /\ PoolKinds'
      BY <2>1, <2>3, <3>3, <3>4, <3>5 DEF SerialInv, KindsMatch, PoolKinds, Present
    <3>8. UnmappedBeingSet'
      BY <2>1, <2>3, <3>2, <3>4, <3>6 DEF UnmappedBeingSet, Present, Item
    <3>9. DiscLockedPluggable' /\ MapSetPluggable'
      BY <1>1, <3>2, <3>3 DEF DiscLockedPluggable, MapSetPluggable, Item
    <3>10. OneScanner'
      BY <1>0, <1>1, <3>2 DEF SerialInv, OneScanner, Scanning, ScanOps, Ops, Threads, Item
    <3> QED
      BY <2>3, <3>7, <3>8, <3>9, <3>10 DEF SerialInv, NoMisfree
  <2>5. CASE ~ok
    <3>1. Goto(t, IdleItem) /\ UNCHANGED disp
      BY <2>2, <2>5
    <3> QED
      BY <1>0, <2>3, <3>1, GotoSerial DEF IdleItem, Item, ScanOps
  <2> QED
    BY <2>4, <2>5
<1> QED
  BY <1>0, <1>2, <1>3, <1>4

LEMMA NextSerial ==
  ASSUME SerialScans, IInv, SerialInv, [Next]_vars
  PROVE  SerialInv'
<1>1. CASE RegisterCallback
  BY <1>1, RegisterCallbackSerial
<1>2. CASE PresentPrimaryFirst
  BY <1>2, PresentPrimaryFirstSerial
<1>3. CASE \E s \in Slots, m \in Modes : SetPowerMode(s, m)
  BY <1>3, SetPowerModeSerial
<1>4. CASE CreateVirtualDisplay
  BY <1>4, CreateVirtualDisplaySerial
<1>5. CASE \E d \in VirtSlots : DestroyVirtualDisplay(d)
  BY <1>5, DestroyVirtualDisplaySerial
<1>6. CASE \E h \in HwPlug : HwToggle(h)
  BY <1>6, HwToggleSerial
<1>7. CASE UEvent
  BY <1>7, UEventSerial
<1>8. CASE \E t \in Threads :
             \/ Conc(t) \/ Disc(t) \/ DiscLocked(t) \/ Conn(t) \/ MapSet(t)
             \/ ConnConc(t) \/ Finish(t) \/ Notify(t)
  BY <1>8, ConcSerial, DiscSerial, DiscLockedSerial, ConnSerial, MapSetSerial,
     ConnConcSerial, FinishSerial, NotifySerial
<1>9. CASE UNCHANGED vars
  BY <1>9 DEF vars, SerialInv, NoMisfree, PoolKinds, OneScanner, KindsMatch,
     UnmappedBeingSet, DiscLockedPluggable, MapSetPluggable, Scanning, Present
<1> QED
  BY <1>1, <1>2, <1>3, <1>4, <1>5, <1>6, <1>7, <1>8, <1>9 DEF Next

(***************************************************************************)
(* When a uevent scan never starts while the client thread scans, and the *)
(* client's first-present scan never starts while the uevent thread scans *)
(* (SerialScans), DestroyDisplay never destroys a display object with the *)
(* routine of another kind: NoMisfree holds in every reachable state, for  *)
(* every size of the slot pools and every number of panels.  The          *)
(* hwc_overlap run shows that without SerialScans it fails.               *)
(***************************************************************************)
THEOREM SerialNoMisfree ==
  ASSUME SerialScans
  PROVE  Spec => []NoMisfree
<1>1. Init => IInv /\ SerialInv
  BY InitIInv, InitSerial
<1>2. IInv /\ SerialInv /\ [Next]_vars => (IInv /\ SerialInv)'
  BY NextIInv, NextSerial
<1>3. IInv /\ SerialInv => NoMisfree
  BY DEF SerialInv
<1> QED
  BY <1>1, <1>2, <1>3, PTL DEF Spec
====
