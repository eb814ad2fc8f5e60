--------------------------- MODULE PipelineProofs ---------------------------
(***************************************************************************)
(* Proofs about the validate/present pipeline and its sequence locks, for  *)
(* every set of slots and every bound on events and commands.              *)
(***************************************************************************)
EXTENDS Pipeline, WellFoundedInduction, TLAPS

USE PipelineAssumption

-----------------------------------------------------------------------------
(***************************************************************************)
(* The invariant behind the sequence lock. The owner of a slot's mutex is  *)
(* the thread whose program counter is inside that slot's locked region.   *)
(* A sequence the client has opened (validated, not yet presented) has     *)
(* sequence_wait_ = 1 unless the client still holds the slot's lock; a     *)
(* validate still running under the lock (ResetPanel) has already set it  *)
(* to 1, and a pending SEQUENCE_CANCEL is for a slot whose sequence was    *)
(* closed.                                                                 *)
(***************************************************************************)
SfLocked == {"ResetPower", "ResetVsync", "PresentRest"}

\* The mutex of a slot is held by a thread exactly while that thread is
\* inside the slot's locked region.
QsOwner == \A d \in Displays : holder[d] = "qs" <=> (qs.op = "Body" /\ qs.d = d)
SfOwner == \A d \in Displays : holder[d] = "sf" <=> (sf.op \in SfLocked /\ sf.d = d)

\* An open sequence has sequence_wait_ = 1, or its validate still runs.
OpenWaits == \A d \in open : seqWait[d] = 1 \/ holder[d] = "sf"

\* ResetPanel inside ValidateDisplay runs after SEQUENCE_ENTRY.
ResetInSequence ==
  sf.op \in {"ResetPower", "ResetVsync"} /\ sf.from = "Validate" => seqWait[sf.d] = 1

\* A pending cancel or HandlePendingRefresh follows a closed sequence.
CancelClosed == sf.op \in {"Cancel", "Handle"} => sf.d \notin open

LockInv == QsOwner /\ SfOwner /\ OpenWaits /\ ResetInSequence /\ CancelClosed

IInv == TypeOK /\ LockInv /\ SequenceExclusion

\* TypeOK in four groups, so that each step's type obligation stays small.
TypeLocks ==
  /\ seqWait \in [Displays -> {-1, 0, 1}]
  /\ holder \in [Displays -> Threads \cup {"none"}]
  /\ connected \in [Displays -> BOOLEAN]
  /\ vstate \in [Displays -> VStates]

TypeFlags ==
  /\ resetPanel \in BOOLEAN /\ panelAlive \in BOOLEAN /\ registered \in BOOLEAN
  /\ pendingRefresh \subseteq Displays /\ refreshReq \subseteq Displays
  /\ open \subseteq Displays

TypeThreads ==
  /\ sf \in [op : SfOps, d : Displays, from : {"Validate", "Present"}, r : Status]
  /\ qs \in [op : QsOps, d : Displays]
  /\ ue \in {"Idle", "Refresh", "Flag"}

TypeBounds ==
  /\ panelEvents \in 0..MaxPanelEvents /\ commands \in 0..MaxCommands
  /\ plugs \in 0..MaxPlugs

-----------------------------------------------------------------------------
(***************************************************************************)
(* HandlePendingRefresh refreshes a slot that is pending: a nonempty set   *)
(* of slot ids has a least element.                                        *)
(***************************************************************************)
LEMMA LowestPendingIn ==
  ASSUME NEW S \in SUBSET Nat, S # {}
  PROVE  LowestPending(S) \in S
<1>1. PICK x \in S : \A y \in S : ~(<<y, x>> \in OpToRel(<, Nat))
  BY NatLessThanWellFounded, WFMin
<1>2. \A y \in S : ~(y < x)
  BY <1>1 DEF OpToRel
<1>3. \A y \in S : x <= y
  BY <1>2
<1> QED
  BY <1>3 DEF LowestPending

USE DEF SfLocked, Free, Hold, Release, Primary, SfGo, Broadcast, Answer,
        SfOps, QsOps, VStates, Status, Threads

\* The initial state: no lock is held, no sequence is open.
LEMMA InitIInv == Init => IInv
<1> SUFFICES ASSUME Init PROVE IInv
  OBVIOUS
<1>1. TypeLocks /\ TypeFlags
  BY DEF Init, TypeLocks, TypeFlags
<1>2. TypeThreads /\ TypeBounds
  BY PipelineAssumption DEF Init, TypeThreads, TypeBounds
<1>3. LockInv /\ SequenceExclusion
  BY DEF Init, LockInv, QsOwner, SfOwner, OpenWaits, ResetInSequence,
         CancelClosed, SequenceExclusion
<1> QED
  BY <1>1, <1>2, <1>3 DEF IInv, TypeOK, TypeLocks, TypeFlags, TypeThreads, TypeBounds

\* ValidateDisplay: SEQUENCE_ENTRY under the lock, then (unless the slot is
\* empty) the internal validate, which either ends the call or keeps the
\* lock for ResetPanel.
LEMMA StartValidateIInv ==
  ASSUME IInv, NEW d \in Displays, StartValidate(d) PROVE IInv'
<1>1. CASE ~connected[d]
  <2>1. SfGo("Cancel", d, "Validate", "BadDisplay") /\ open' = open \ {d}
    BY <1>1 DEF StartValidate, ValidateEnd
  <2>locks. TypeLocks'
    BY <1>1, <2>1 DEF IInv, TypeOK, TypeLocks, StartValidate, SequenceEntry
  <2>flags. TypeFlags'
    BY <1>1, <2>1 DEF IInv, TypeOK, TypeFlags, StartValidate, SequenceEntry
  <2>threads. TypeThreads'
    BY <1>1, <2>1 DEF IInv, TypeOK, TypeThreads, StartValidate, SequenceEntry
  <2>bounds. TypeBounds'
    BY <1>1, <2>1 DEF IInv, TypeOK, TypeBounds, StartValidate, SequenceEntry
  <2>qo. QsOwner'
    BY <1>1, <2>1 DEF IInv, TypeOK, LockInv, QsOwner, SfOwner, OpenWaits, ResetInSequence, CancelClosed, QsOwner, StartValidate, SequenceEntry
  <2>so. SfOwner'
    BY <1>1, <2>1 DEF IInv, TypeOK, LockInv, QsOwner, SfOwner, OpenWaits, ResetInSequence, CancelClosed, SfOwner, StartValidate, SequenceEntry
  <2>ow. OpenWaits'
    BY <1>1, <2>1 DEF IInv, TypeOK, LockInv, QsOwner, SfOwner, OpenWaits, ResetInSequence, CancelClosed, OpenWaits, StartValidate, SequenceEntry
  <2>rs. ResetInSequence'
    BY <1>1, <2>1 DEF IInv, TypeOK, LockInv, QsOwner, SfOwner, OpenWaits, ResetInSequence, CancelClosed, ResetInSequence, StartValidate, SequenceEntry
  <2>cc. CancelClosed'
    BY <1>1, <2>1 DEF IInv, TypeOK, LockInv, QsOwner, SfOwner, OpenWaits, ResetInSequence, CancelClosed, CancelClosed, StartValidate, SequenceEntry
  <2>excl. SequenceExclusion'
    BY <1>1, <2>1 DEF IInv, TypeOK, LockInv, QsOwner, SfOwner, OpenWaits, ResetInSequence, CancelClosed, SequenceExclusion, StartValidate, SequenceEntry
  <2> QED
    BY <2>locks, <2>flags, <2>threads, <2>bounds, <2>qo, <2>so, <2>ow, <2>rs, <2>cc, <2>excl DEF IInv, TypeOK, LockInv, TypeLocks, TypeFlags, TypeThreads, TypeBounds
<1>2. CASE connected[d] /\ vstate[d] = "Internal"
  <2>1. ValidateDisplayInternal(d, "Validate")
    BY <1>2 DEF StartValidate
  <2>2. PICK r \in {"None", "HasChanges"} :
          /\ vstate' = [vstate EXCEPT ![d] = "Normal"]
          /\ Release(d) /\ ValidateEnd(d, r) /\ UNCHANGED qs
          /\ UNCHANGED resetPanel
    BY <1>2, <2>1 DEF ValidateDisplayInternal
  <2>3. SfGo("Idle", d, "Validate", r) /\ open' = open \cup {d}
    BY <2>2 DEF ValidateEnd
  <2>locks. TypeLocks'
    BY <1>2, <2>2, <2>3 DEF IInv, TypeOK, TypeLocks, StartValidate, SequenceEntry
  <2>flags. TypeFlags'
    BY <1>2, <2>2, <2>3 DEF IInv, TypeOK, TypeFlags, StartValidate, SequenceEntry
  <2>threads. TypeThreads'
    BY <1>2, <2>2, <2>3 DEF IInv, TypeOK, TypeThreads, StartValidate, SequenceEntry
  <2>bounds. TypeBounds'
    BY <1>2, <2>2, <2>3 DEF IInv, TypeOK, TypeBounds, StartValidate, SequenceEntry
  <2>qo. QsOwner'
    BY <1>2, <2>2, <2>3 DEF IInv, TypeOK, LockInv, QsOwner, SfOwner, OpenWaits, ResetInSequence, CancelClosed, QsOwner, StartValidate, SequenceEntry
  <2>so. SfOwner'
    BY <1>2, <2>2, <2>3 DEF IInv, TypeOK, LockInv, QsOwner, SfOwner, OpenWaits, ResetInSequence, CancelClosed, SfOwner, StartValidate, SequenceEntry
  <2>ow. OpenWaits'
    BY <1>2, <2>2, <2>3 DEF IInv, TypeOK, LockInv, QsOwner, SfOwner, OpenWaits, ResetInSequence, CancelClosed, OpenWaits, StartValidate, SequenceEntry
  <2>rs. ResetInSequence'
    BY <1>2, <2>2, <2>3 DEF IInv, TypeOK, LockInv, QsOwner, SfOwner, OpenWaits, ResetInSequence, CancelClosed, ResetInSequence, StartValidate, SequenceEntry
  <2>cc. CancelClosed'
    BY <1>2, <2>2, <2>3 DEF IInv, TypeOK, LockInv, QsOwner, SfOwner, OpenWaits, ResetInSequence, CancelClosed, CancelClosed, StartValidate, SequenceEntry
  <2>excl. SequenceExclusion'
    BY <1>2, <2>2, <2>3 DEF IInv, TypeOK, LockInv, QsOwner, SfOwner, OpenWaits, ResetInSequence, CancelClosed, SequenceExclusion, StartValidate, SequenceEntry
  <2> QED
    BY <2>locks, <2>flags, <2>threads, <2>bounds, <2>qo, <2>so, <2>ow, <2>rs, <2>cc, <2>excl DEF IInv, TypeOK, LockInv, TypeLocks, TypeFlags, TypeThreads, TypeBounds
<1>3. CASE connected[d] /\ vstate[d] # "Internal" /\ d = Primary /\ resetPanel
  <2>1. ValidateDisplayInternal(d, "Validate")
    BY <1>3 DEF StartValidate
  <2>2. SfGo("ResetPower", d, "Validate", "None") /\ Hold(d, "sf")
        /\ UNCHANGED <<vstate, qs, resetPanel, open>>
    BY <1>3, <2>1 DEF ValidateDisplayInternal
  <2>locks. TypeLocks'
    BY <1>3, <2>2 DEF IInv, TypeOK, TypeLocks, StartValidate, SequenceEntry
  <2>flags. TypeFlags'
    BY <1>3, <2>2 DEF IInv, TypeOK, TypeFlags, StartValidate, SequenceEntry
  <2>threads. TypeThreads'
    BY <1>3, <2>2 DEF IInv, TypeOK, TypeThreads, StartValidate, SequenceEntry
  <2>bounds. TypeBounds'
    BY <1>3, <2>2 DEF IInv, TypeOK, TypeBounds, StartValidate, SequenceEntry
  <2>qo. QsOwner'
    BY <1>3, <2>2 DEF IInv, TypeOK, LockInv, QsOwner, SfOwner, OpenWaits, ResetInSequence, CancelClosed, QsOwner, StartValidate, SequenceEntry
  <2>so. SfOwner'
    BY <1>3, <2>2 DEF IInv, TypeOK, LockInv, QsOwner, SfOwner, OpenWaits, ResetInSequence, CancelClosed, SfOwner, StartValidate, SequenceEntry
  <2>ow. OpenWaits'
    BY <1>3, <2>2 DEF IInv, TypeOK, LockInv, QsOwner, SfOwner, OpenWaits, ResetInSequence, CancelClosed, OpenWaits, StartValidate, SequenceEntry
  <2>rs. ResetInSequence'
    BY <1>3, <2>2 DEF IInv, TypeOK, LockInv, QsOwner, SfOwner, OpenWaits, ResetInSequence, CancelClosed, ResetInSequence, StartValidate, SequenceEntry
  <2>cc. CancelClosed'
    BY <1>3, <2>2 DEF IInv, TypeOK, LockInv, QsOwner, SfOwner, OpenWaits, ResetInSequence, CancelClosed, CancelClosed, StartValidate, SequenceEntry
  <2>excl. SequenceExclusion'
    BY <1>3, <2>2 DEF IInv, TypeOK, LockInv, QsOwner, SfOwner, OpenWaits, ResetInSequence, CancelClosed, SequenceExclusion, StartValidate, SequenceEntry
  <2> QED
    BY <2>locks, <2>flags, <2>threads, <2>bounds, <2>qo, <2>so, <2>ow, <2>rs, <2>cc, <2>excl DEF IInv, TypeOK, LockInv, TypeLocks, TypeFlags, TypeThreads, TypeBounds
<1>4. CASE connected[d] /\ vstate[d] # "Internal" /\ ~(d = Primary /\ resetPanel)
  <2>1. DisplayValidate(d, "Validate") /\ UNCHANGED resetPanel
    BY <1>4 DEF StartValidate, ValidateDisplayInternal
  <2>2. PICK r \in {"None", "HasChanges", "Error"} :
          /\ vstate' = [vstate EXCEPT ![d] = "Normal"]
          /\ Release(d) /\ ValidateEnd(d, r) /\ UNCHANGED qs
    BY <2>1 DEF DisplayValidate
  <2>3. CASE r \in {"None", "HasChanges"}
    <3>1. SfGo("Idle", d, "Validate", r) /\ open' = open \cup {d}
      BY <2>2, <2>3 DEF ValidateEnd
    <3>locks. TypeLocks'
      BY <1>4, <2>1, <2>2, <3>1 DEF IInv, TypeOK, TypeLocks, StartValidate, SequenceEntry
    <3>flags. TypeFlags'
      BY <1>4, <2>1, <2>2, <3>1 DEF IInv, TypeOK, TypeFlags, StartValidate, SequenceEntry
    <3>threads. TypeThreads'
      BY <1>4, <2>1, <2>2, <3>1 DEF IInv, TypeOK, TypeThreads, StartValidate, SequenceEntry
    <3>bounds. TypeBounds'
      BY <1>4, <2>1, <2>2, <3>1 DEF IInv, TypeOK, TypeBounds, StartValidate, SequenceEntry
    <3>qo. QsOwner'
      BY <1>4, <2>1, <2>2, <3>1 DEF IInv, TypeOK, LockInv, QsOwner, SfOwner, OpenWaits, ResetInSequence, CancelClosed, QsOwner, StartValidate, SequenceEntry
    <3>so. SfOwner'
      BY <1>4, <2>1, <2>2, <3>1 DEF IInv, TypeOK, LockInv, QsOwner, SfOwner, OpenWaits, ResetInSequence, CancelClosed, SfOwner, StartValidate, SequenceEntry
    <3>ow. OpenWaits'
      BY <1>4, <2>1, <2>2, <3>1 DEF IInv, TypeOK, LockInv, QsOwner, SfOwner, OpenWaits, ResetInSequence, CancelClosed, OpenWaits, StartValidate, SequenceEntry
    <3>rs. ResetInSequence'
      BY <1>4, <2>1, <2>2, <3>1 DEF IInv, TypeOK, LockInv, QsOwner, SfOwner, OpenWaits, ResetInSequence, CancelClosed, ResetInSequence, StartValidate, SequenceEntry
    <3>cc. CancelClosed'
      BY <1>4, <2>1, <2>2, <3>1 DEF IInv, TypeOK, LockInv, QsOwner, SfOwner, OpenWaits, ResetInSequence, CancelClosed, CancelClosed, StartValidate, SequenceEntry
    <3>excl. SequenceExclusion'
      BY <1>4, <2>1, <2>2, <3>1 DEF IInv, TypeOK, LockInv, QsOwner, SfOwner, OpenWaits, ResetInSequence, CancelClosed, SequenceExclusion, StartValidate, SequenceEntry
    <3> QED
      BY <3>locks, <3>flags, <3>threads, <3>bounds, <3>qo, <3>so, <3>ow, <3>rs, <3>cc, <3>excl DEF IInv, TypeOK, LockInv, TypeLocks, TypeFlags, TypeThreads, TypeBounds
  <2>4. CASE r = "Error"
    <3>1. SfGo("Cancel", d, "Validate", r) /\ open' = open \ {d}
      BY <2>2, <2>4 DEF ValidateEnd
    <3>locks. TypeLocks'
      BY <1>4, <2>1, <2>2, <3>1 DEF IInv, TypeOK, TypeLocks, StartValidate, SequenceEntry
    <3>flags. TypeFlags'
      BY <1>4, <2>1, <2>2, <3>1 DEF IInv, TypeOK, TypeFlags, StartValidate, SequenceEntry
    <3>threads. TypeThreads'
      BY <1>4, <2>1, <2>2, <3>1 DEF IInv, TypeOK, TypeThreads, StartValidate, SequenceEntry
    <3>bounds. TypeBounds'
      BY <1>4, <2>1, <2>2, <3>1 DEF IInv, TypeOK, TypeBounds, StartValidate, SequenceEntry
    <3>qo. QsOwner'
      BY <1>4, <2>1, <2>2, <3>1 DEF IInv, TypeOK, LockInv, QsOwner, SfOwner, OpenWaits, ResetInSequence, CancelClosed, QsOwner, StartValidate, SequenceEntry
    <3>so. SfOwner'
      BY <1>4, <2>1, <2>2, <3>1 DEF IInv, TypeOK, LockInv, QsOwner, SfOwner, OpenWaits, ResetInSequence, CancelClosed, SfOwner, StartValidate, SequenceEntry
    <3>ow. OpenWaits'
      BY <1>4, <2>1, <2>2, <3>1 DEF IInv, TypeOK, LockInv, QsOwner, SfOwner, OpenWaits, ResetInSequence, CancelClosed, OpenWaits, StartValidate, SequenceEntry
    <3>rs. ResetInSequence'
      BY <1>4, <2>1, <2>2, <3>1 DEF IInv, TypeOK, LockInv, QsOwner, SfOwner, OpenWaits, ResetInSequence, CancelClosed, ResetInSequence, StartValidate, SequenceEntry
    <3>cc. CancelClosed'
      BY <1>4, <2>1, <2>2, <3>1 DEF IInv, TypeOK, LockInv, QsOwner, SfOwner, OpenWaits, ResetInSequence, CancelClosed, CancelClosed, StartValidate, SequenceEntry
    <3>excl. SequenceExclusion'
      BY <1>4, <2>1, <2>2, <3>1 DEF IInv, TypeOK, LockInv, QsOwner, SfOwner, OpenWaits, ResetInSequence, CancelClosed, SequenceExclusion, StartValidate, SequenceEntry
    <3> QED
      BY <3>locks, <3>flags, <3>threads, <3>bounds, <3>qo, <3>so, <3>ow, <3>rs, <3>cc, <3>excl DEF IInv, TypeOK, LockInv, TypeLocks, TypeFlags, TypeThreads, TypeBounds
  <2> QED
    BY <2>3, <2>4
<1> QED
  BY <1>1, <1>2, <1>3, <1>4

\* PresentDisplay: SEQUENCE_EXIT under the lock; the present either ends
\* the call or, in the skip-validate state, validates first under the lock.
LEMMA StartPresentIInv ==
  ASSUME IInv, NEW d \in Displays, StartPresent(d) PROVE IInv'
<1>1. CASE ~connected[d] /\ PresentEnd(d, "BadDisplay") /\ UNCHANGED <<vstate, resetPanel>>
  <2>locks. TypeLocks'
    BY <1>1 DEF IInv, TypeOK, TypeLocks, StartPresent, PresentEnd
  <2>flags. TypeFlags'
    BY <1>1 DEF IInv, TypeOK, TypeFlags, StartPresent, PresentEnd
  <2>threads. TypeThreads'
    BY <1>1 DEF IInv, TypeOK, TypeThreads, StartPresent, PresentEnd
  <2>bounds. TypeBounds'
    BY <1>1 DEF IInv, TypeOK, TypeBounds, StartPresent, PresentEnd
  <2>qo. QsOwner'
    BY <1>1 DEF IInv, TypeOK, LockInv, QsOwner, SfOwner, OpenWaits, ResetInSequence, CancelClosed, QsOwner, StartPresent, PresentEnd
  <2>so. SfOwner'
    BY <1>1 DEF IInv, TypeOK, LockInv, QsOwner, SfOwner, OpenWaits, ResetInSequence, CancelClosed, SfOwner, StartPresent, PresentEnd
  <2>ow. OpenWaits'
    BY <1>1 DEF IInv, TypeOK, LockInv, QsOwner, SfOwner, OpenWaits, ResetInSequence, CancelClosed, OpenWaits, StartPresent, PresentEnd
  <2>rs. ResetInSequence'
    BY <1>1 DEF IInv, TypeOK, LockInv, QsOwner, SfOwner, OpenWaits, ResetInSequence, CancelClosed, ResetInSequence, StartPresent, PresentEnd
  <2>cc. CancelClosed'
    BY <1>1 DEF IInv, TypeOK, LockInv, QsOwner, SfOwner, OpenWaits, ResetInSequence, CancelClosed, CancelClosed, StartPresent, PresentEnd
  <2>excl. SequenceExclusion'
    BY <1>1 DEF IInv, TypeOK, LockInv, QsOwner, SfOwner, OpenWaits, ResetInSequence, CancelClosed, SequenceExclusion, StartPresent, PresentEnd
  <2> QED
    BY <2>locks, <2>flags, <2>threads, <2>bounds, <2>qo, <2>so, <2>ow, <2>rs, <2>cc, <2>excl DEF IInv, TypeOK, LockInv, TypeLocks, TypeFlags, TypeThreads, TypeBounds
<1>2. CASE connected[d] /\ vstate[d] = "Skip" /\ ValidateDisplayInternal(d, "Present")
  <2>1. CASE d = Primary /\ resetPanel
    <3>1. SfGo("ResetPower", d, "Present", "None") /\ Hold(d, "sf")
          /\ UNCHANGED <<vstate, qs, resetPanel, open>>
      BY <1>2, <2>1 DEF ValidateDisplayInternal
    <3>locks. TypeLocks'
      BY <1>2, <3>1 DEF IInv, TypeOK, TypeLocks, StartPresent
    <3>flags. TypeFlags'
      BY <1>2, <3>1 DEF IInv, TypeOK, TypeFlags, StartPresent
    <3>threads. TypeThreads'
      BY <1>2, <3>1 DEF IInv, TypeOK, TypeThreads, StartPresent
    <3>bounds. TypeBounds'
      BY <1>2, <3>1 DEF IInv, TypeOK, TypeBounds, StartPresent
    <3>qo. QsOwner'
      BY <1>2, <3>1 DEF IInv, TypeOK, LockInv, QsOwner, SfOwner, OpenWaits, ResetInSequence, CancelClosed, QsOwner, StartPresent
    <3>so. SfOwner'
      BY <1>2, <3>1 DEF IInv, TypeOK, LockInv, QsOwner, SfOwner, OpenWaits, ResetInSequence, CancelClosed, SfOwner, StartPresent
    <3>ow. OpenWaits'
      BY <1>2, <3>1 DEF IInv, TypeOK, LockInv, QsOwner, SfOwner, OpenWaits, ResetInSequence, CancelClosed, OpenWaits, StartPresent
    <3>rs. ResetInSequence'
      BY <1>2, <3>1 DEF IInv, TypeOK, LockInv, QsOwner, SfOwner, OpenWaits, ResetInSequence, CancelClosed, ResetInSequence, StartPresent
    <3>cc. CancelClosed'
      BY <1>2, <3>1 DEF IInv, TypeOK, LockInv, QsOwner, SfOwner, OpenWaits, ResetInSequence, CancelClosed, CancelClosed, StartPresent
    <3>excl. SequenceExclusion'
      BY <1>2, <3>1 DEF IInv, TypeOK, LockInv, QsOwner, SfOwner, OpenWaits, ResetInSequence, CancelClosed, SequenceExclusion, StartPresent
    <3> QED
      BY <3>locks, <3>flags, <3>threads, <3>bounds, <3>qo, <3>so, <3>ow, <3>rs, <3>cc, <3>excl DEF IInv, TypeOK, LockInv, TypeLocks, TypeFlags, TypeThreads, TypeBounds
  <2>2. CASE ~(d = Primary /\ resetPanel)
    <3>1. DisplayValidate(d, "Present") /\ UNCHANGED resetPanel
      BY <1>2, <2>2 DEF ValidateDisplayInternal
    <3>2. PICK r \in {"None", "HasChanges", "Error"} :
            /\ vstate' = [vstate EXCEPT ![d] = "Normal"]
            /\ SfGo("PresentRest", d, "Present", r) /\ Hold(d, "sf")
            /\ UNCHANGED <<qs, open>>
      BY <3>1 DEF DisplayValidate
    <3>locks. TypeLocks'
      BY <1>2, <3>1, <3>2 DEF IInv, TypeOK, TypeLocks, StartPresent
    <3>flags. TypeFlags'
      BY <1>2, <3>1, <3>2 DEF IInv, TypeOK, TypeFlags, StartPresent
    <3>threads. TypeThreads'
      BY <1>2, <3>1, <3>2 DEF IInv, TypeOK, TypeThreads, StartPresent
    <3>bounds. TypeBounds'
      BY <1>2, <3>1, <3>2 DEF IInv, TypeOK, TypeBounds, StartPresent
    <3>qo. QsOwner'
      BY <1>2, <3>1, <3>2 DEF IInv, TypeOK, LockInv, QsOwner, SfOwner, OpenWaits, ResetInSequence, CancelClosed, QsOwner, StartPresent
    <3>so. SfOwner'
      BY <1>2, <3>1, <3>2 DEF IInv, TypeOK, LockInv, QsOwner, SfOwner, OpenWaits, ResetInSequence, CancelClosed, SfOwner, StartPresent
    <3>ow. OpenWaits'
      BY <1>2, <3>1, <3>2 DEF IInv, TypeOK, LockInv, QsOwner, SfOwner, OpenWaits, ResetInSequence, CancelClosed, OpenWaits, StartPresent
    <3>rs. ResetInSequence'
      BY <1>2, <3>1, <3>2 DEF IInv, TypeOK, LockInv, QsOwner, SfOwner, OpenWaits, ResetInSequence, CancelClosed, ResetInSequence, StartPresent
    <3>cc. CancelClosed'
      BY <1>2, <3>1, <3>2 DEF IInv, TypeOK, LockInv, QsOwner, SfOwner, OpenWaits, ResetInSequence, CancelClosed, CancelClosed, StartPresent
    <3>excl. SequenceExclusion'
      BY <1>2, <3>1, <3>2 DEF IInv, TypeOK, LockInv, QsOwner, SfOwner, OpenWaits, ResetInSequence, CancelClosed, SequenceExclusion, StartPresent
    <3> QED
      BY <3>locks, <3>flags, <3>threads, <3>bounds, <3>qo, <3>so, <3>ow, <3>rs, <3>cc, <3>excl DEF IInv, TypeOK, LockInv, TypeLocks, TypeFlags, TypeThreads, TypeBounds
  <2> QED
    BY <2>1, <2>2
<1>3. CASE connected[d] /\ DisplayPresent(d) /\ UNCHANGED resetPanel
  <2>1. PICK r \in {"None", "Error"}, v \in {"Normal", "Skip"} :
          vstate' = [vstate EXCEPT ![d] = v] /\ PresentEnd(d, r)
    BY <1>3 DEF DisplayPresent
  <2>locks. TypeLocks'
    BY <1>3, <2>1 DEF IInv, TypeOK, TypeLocks, StartPresent, PresentEnd
  <2>flags. TypeFlags'
    BY <1>3, <2>1 DEF IInv, TypeOK, TypeFlags, StartPresent, PresentEnd
  <2>threads. TypeThreads'
    BY <1>3, <2>1 DEF IInv, TypeOK, TypeThreads, StartPresent, PresentEnd
  <2>bounds. TypeBounds'
    BY <1>3, <2>1 DEF IInv, TypeOK, TypeBounds, StartPresent, PresentEnd
  <2>qo. QsOwner'
    BY <1>3, <2>1 DEF IInv, TypeOK, LockInv, QsOwner, SfOwner, OpenWaits, ResetInSequence, CancelClosed, QsOwner, StartPresent, PresentEnd
  <2>so. SfOwner'
    BY <1>3, <2>1 DEF IInv, TypeOK, LockInv, QsOwner, SfOwner, OpenWaits, ResetInSequence, CancelClosed, SfOwner, StartPresent, PresentEnd
  <2>ow. OpenWaits'
    BY <1>3, <2>1 DEF IInv, TypeOK, LockInv, QsOwner, SfOwner, OpenWaits, ResetInSequence, CancelClosed, OpenWaits, StartPresent, PresentEnd
  <2>rs. ResetInSequence'
    BY <1>3, <2>1 DEF IInv, TypeOK, LockInv, QsOwner, SfOwner, OpenWaits, ResetInSequence, CancelClosed, ResetInSequence, StartPresent, PresentEnd
  <2>cc. CancelClosed'
    BY <1>3, <2>1 DEF IInv, TypeOK, LockInv, QsOwner, SfOwner, OpenWaits, ResetInSequence, CancelClosed, CancelClosed, StartPresent, PresentEnd
  <2>excl. SequenceExclusion'
    BY <1>3, <2>1 DEF IInv, TypeOK, LockInv, QsOwner, SfOwner, OpenWaits, ResetInSequence, CancelClosed, SequenceExclusion, StartPresent, PresentEnd
  <2> QED
    BY <2>locks, <2>flags, <2>threads, <2>bounds, <2>qo, <2>so, <2>ow, <2>rs, <2>cc, <2>excl DEF IInv, TypeOK, LockInv, TypeLocks, TypeFlags, TypeThreads, TypeBounds
<1> QED
  BY <1>1, <1>2, <1>3 DEF StartPresent

\* The rest of PresentDisplayInternal: present, or leave NotValidated.
LEMMA PresentRestIInv == IInv /\ PresentRest => IInv'
<1> SUFFICES ASSUME IInv, PresentRest PROVE IInv'
  OBVIOUS
<1>1. CASE vstate' = [vstate EXCEPT ![sf.d] = "Internal"] /\ PresentEnd(sf.d, "NotValidated")
  <2>locks. TypeLocks'
    BY <1>1 DEF IInv, TypeOK, TypeLocks, PresentRest, PresentEnd
  <2>flags. TypeFlags'
    BY <1>1 DEF IInv, TypeOK, TypeFlags, PresentRest, PresentEnd
  <2>threads. TypeThreads'
    BY <1>1 DEF IInv, TypeOK, TypeThreads, PresentRest, PresentEnd
  <2>bounds. TypeBounds'
    BY <1>1 DEF IInv, TypeOK, TypeBounds, PresentRest, PresentEnd
  <2>qo. QsOwner'
    BY <1>1 DEF IInv, TypeOK, LockInv, QsOwner, SfOwner, OpenWaits, ResetInSequence, CancelClosed, QsOwner, PresentRest, PresentEnd
  <2>so. SfOwner'
    BY <1>1 DEF IInv, TypeOK, LockInv, QsOwner, SfOwner, OpenWaits, ResetInSequence, CancelClosed, SfOwner, PresentRest, PresentEnd
  <2>ow. OpenWaits'
    BY <1>1 DEF IInv, TypeOK, LockInv, QsOwner, SfOwner, OpenWaits, ResetInSequence, CancelClosed, OpenWaits, PresentRest, PresentEnd
  <2>rs. ResetInSequence'
    BY <1>1 DEF IInv, TypeOK, LockInv, QsOwner, SfOwner, OpenWaits, ResetInSequence, CancelClosed, ResetInSequence, PresentRest, PresentEnd
  <2>cc. CancelClosed'
    BY <1>1 DEF IInv, TypeOK, LockInv, QsOwner, SfOwner, OpenWaits, ResetInSequence, CancelClosed, CancelClosed, PresentRest, PresentEnd
  <2>excl. SequenceExclusion'
    BY <1>1 DEF IInv, TypeOK, LockInv, QsOwner, SfOwner, OpenWaits, ResetInSequence, CancelClosed, SequenceExclusion, PresentRest, PresentEnd
  <2> QED
    BY <2>locks, <2>flags, <2>threads, <2>bounds, <2>qo, <2>so, <2>ow, <2>rs, <2>cc, <2>excl DEF IInv, TypeOK, LockInv, TypeLocks, TypeFlags, TypeThreads, TypeBounds
<1>2. CASE sf.r = "None" /\ DisplayPresent(sf.d)
  <2>1. PICK r \in {"None", "Error"}, v \in {"Normal", "Skip"} :
          vstate' = [vstate EXCEPT ![sf.d] = v] /\ PresentEnd(sf.d, r)
    BY <1>2 DEF DisplayPresent
  <2>locks. TypeLocks'
    BY <1>2, <2>1 DEF IInv, TypeOK, TypeLocks, PresentRest, PresentEnd
  <2>flags. TypeFlags'
    BY <1>2, <2>1 DEF IInv, TypeOK, TypeFlags, PresentRest, PresentEnd
  <2>threads. TypeThreads'
    BY <1>2, <2>1 DEF IInv, TypeOK, TypeThreads, PresentRest, PresentEnd
  <2>bounds. TypeBounds'
    BY <1>2, <2>1 DEF IInv, TypeOK, TypeBounds, PresentRest, PresentEnd
  <2>qo. QsOwner'
    BY <1>2, <2>1 DEF IInv, TypeOK, LockInv, QsOwner, SfOwner, OpenWaits, ResetInSequence, CancelClosed, QsOwner, PresentRest, PresentEnd
  <2>so. SfOwner'
    BY <1>2, <2>1 DEF IInv, TypeOK, LockInv, QsOwner, SfOwner, OpenWaits, ResetInSequence, CancelClosed, SfOwner, PresentRest, PresentEnd
  <2>ow. OpenWaits'
    BY <1>2, <2>1 DEF IInv, TypeOK, LockInv, QsOwner, SfOwner, OpenWaits, ResetInSequence, CancelClosed, OpenWaits, PresentRest, PresentEnd
  <2>rs. ResetInSequence'
    BY <1>2, <2>1 DEF IInv, TypeOK, LockInv, QsOwner, SfOwner, OpenWaits, ResetInSequence, CancelClosed, ResetInSequence, PresentRest, PresentEnd
  <2>cc. CancelClosed'
    BY <1>2, <2>1 DEF IInv, TypeOK, LockInv, QsOwner, SfOwner, OpenWaits, ResetInSequence, CancelClosed, CancelClosed, PresentRest, PresentEnd
  <2>excl. SequenceExclusion'
    BY <1>2, <2>1 DEF IInv, TypeOK, LockInv, QsOwner, SfOwner, OpenWaits, ResetInSequence, CancelClosed, SequenceExclusion, PresentRest, PresentEnd
  <2> QED
    BY <2>locks, <2>flags, <2>threads, <2>bounds, <2>qo, <2>so, <2>ow, <2>rs, <2>cc, <2>excl DEF IInv, TypeOK, LockInv, TypeLocks, TypeFlags, TypeThreads, TypeBounds
<1> QED
  BY <1>1, <1>2 DEF PresentRest

\* ResetPanel powers the panel back on, still under the lock.
LEMMA ResetPowerIInv == IInv /\ ResetPower => IInv'
<1> SUFFICES ASSUME IInv, ResetPower PROVE IInv'
  OBVIOUS
<1>locks. TypeLocks'
  BY DEF IInv, TypeOK, TypeLocks, ResetPower
<1>flags. TypeFlags'
  BY DEF IInv, TypeOK, TypeFlags, ResetPower
<1>threads. TypeThreads'
  BY DEF IInv, TypeOK, TypeThreads, ResetPower
<1>bounds. TypeBounds'
  BY DEF IInv, TypeOK, TypeBounds, ResetPower
<1>qo. QsOwner'
  BY DEF IInv, TypeOK, LockInv, QsOwner, SfOwner, OpenWaits, ResetInSequence, CancelClosed, QsOwner, ResetPower
<1>so. SfOwner'
  BY DEF IInv, TypeOK, LockInv, QsOwner, SfOwner, OpenWaits, ResetInSequence, CancelClosed, SfOwner, ResetPower
<1>ow. OpenWaits'
  BY DEF IInv, TypeOK, LockInv, QsOwner, SfOwner, OpenWaits, ResetInSequence, CancelClosed, OpenWaits, ResetPower
<1>rs. ResetInSequence'
  BY DEF IInv, TypeOK, LockInv, QsOwner, SfOwner, OpenWaits, ResetInSequence, CancelClosed, ResetInSequence, ResetPower
<1>cc. CancelClosed'
  BY DEF IInv, TypeOK, LockInv, QsOwner, SfOwner, OpenWaits, ResetInSequence, CancelClosed, CancelClosed, ResetPower
<1>excl. SequenceExclusion'
  BY DEF IInv, TypeOK, LockInv, QsOwner, SfOwner, OpenWaits, ResetInSequence, CancelClosed, SequenceExclusion, ResetPower
<1> QED
  BY <1>locks, <1>flags, <1>threads, <1>bounds, <1>qo, <1>so, <1>ow, <1>rs, <1>cc, <1>excl DEF IInv, TypeOK, LockInv, TypeLocks, TypeFlags, TypeThreads, TypeBounds

\* ResetPanel's end and the display's Validate.
LEMMA ResetVsyncIInv == IInv /\ ResetVsync => IInv'
<1> SUFFICES ASSUME IInv, ResetVsync PROVE IInv'
  OBVIOUS
<1>1. PICK r \in {"None", "HasChanges", "Error"} :
        /\ vstate' = [vstate EXCEPT ![sf.d] = "Normal"]
        /\ IF sf.from = "Validate"
             THEN Release(sf.d) /\ ValidateEnd(sf.d, r) /\ UNCHANGED qs
             ELSE SfGo("PresentRest", sf.d, sf.from, r) /\ Hold(sf.d, "sf")
                  /\ UNCHANGED <<qs, open>>
  BY DEF ResetVsync, DisplayValidate
<1>2. CASE sf.from = "Validate"
  <2>1. Release(sf.d) /\ ValidateEnd(sf.d, r) /\ UNCHANGED qs
    BY <1>1, <1>2
  <2>2. CASE r \in {"None", "HasChanges"}
    <3>1. SfGo("Idle", sf.d, "Validate", r) /\ open' = open \cup {sf.d}
      BY <2>1, <2>2 DEF ValidateEnd
    <3>locks. TypeLocks'
      BY <1>1, <1>2, <2>1, <3>1 DEF IInv, TypeOK, TypeLocks, ResetVsync
    <3>flags. TypeFlags'
      BY <1>1, <1>2, <2>1, <3>1 DEF IInv, TypeOK, TypeFlags, ResetVsync
    <3>threads. TypeThreads'
      BY <1>1, <1>2, <2>1, <3>1 DEF IInv, TypeOK, TypeThreads, ResetVsync
    <3>bounds. TypeBounds'
      BY <1>1, <1>2, <2>1, <3>1 DEF IInv, TypeOK, TypeBounds, ResetVsync
    <3>qo. QsOwner'
      BY <1>1, <1>2, <2>1, <3>1 DEF IInv, TypeOK, LockInv, QsOwner, SfOwner, OpenWaits, ResetInSequence, CancelClosed, QsOwner, ResetVsync
    <3>so. SfOwner'
      BY <1>1, <1>2, <2>1, <3>1 DEF IInv, TypeOK, LockInv, QsOwner, SfOwner, OpenWaits, ResetInSequence, CancelClosed, SfOwner, ResetVsync
    <3>ow. OpenWaits'
      BY <1>1, <1>2, <2>1, <3>1 DEF IInv, TypeOK, LockInv, QsOwner, SfOwner, OpenWaits, ResetInSequence, CancelClosed, OpenWaits, ResetVsync
    <3>rs. ResetInSequence'
      BY <1>1, <1>2, <2>1, <3>1 DEF IInv, TypeOK, LockInv, QsOwner, SfOwner, OpenWaits, ResetInSequence, CancelClosed, ResetInSequence, ResetVsync
    <3>cc. CancelClosed'
      BY <1>1, <1>2, <2>1, <3>1 DEF IInv, TypeOK, LockInv, QsOwner, SfOwner, OpenWaits, ResetInSequence, CancelClosed, CancelClosed, ResetVsync
    <3>excl. SequenceExclusion'
      BY <1>1, <1>2, <2>1, <3>1 DEF IInv, TypeOK, LockInv, QsOwner, SfOwner, OpenWaits, ResetInSequence, CancelClosed, SequenceExclusion, ResetVsync
    <3> QED
      BY <3>locks, <3>flags, <3>threads, <3>bounds, <3>qo, <3>so, <3>ow, <3>rs, <3>cc, <3>excl DEF IInv, TypeOK, LockInv, TypeLocks, TypeFlags, TypeThreads, TypeBounds
  <2>3. CASE r = "Error"
    <3>1. SfGo("Cancel", sf.d, "Validate", r) /\ open' = open \ {sf.d}
      BY <2>1, <2>3 DEF ValidateEnd
    <3>locks. TypeLocks'
      BY <1>1, <1>2, <2>1, <3>1 DEF IInv, TypeOK, TypeLocks, ResetVsync
    <3>flags. TypeFlags'
      BY <1>1, <1>2, <2>1, <3>1 DEF IInv, TypeOK, TypeFlags, ResetVsync
    <3>threads. TypeThreads'
      BY <1>1, <1>2, <2>1, <3>1 DEF IInv, TypeOK, TypeThreads, ResetVsync
    <3>bounds. TypeBounds'
      BY <1>1, <1>2, <2>1, <3>1 DEF IInv, TypeOK, TypeBounds, ResetVsync
    <3>qo. QsOwner'
      BY <1>1, <1>2, <2>1, <3>1 DEF IInv, TypeOK, LockInv, QsOwner, SfOwner, OpenWaits, ResetInSequence, CancelClosed, QsOwner, ResetVsync
    <3>so. SfOwner'
      BY <1>1, <1>2, <2>1, <3>1 DEF IInv, TypeOK, LockInv, QsOwner, SfOwner, OpenWaits, ResetInSequence, CancelClosed, SfOwner, ResetVsync
    <3>ow. OpenWaits'
      BY <1>1, <1>2, <2>1, <3>1 DEF IInv, TypeOK, LockInv, QsOwner, SfOwner, OpenWaits, ResetInSequence, CancelClosed, OpenWaits, ResetVsync
    <3>rs. ResetInSequence'
      BY <1>1, <1>2, <2>1, <3>1 DEF IInv, TypeOK, LockInv, QsOwner, SfOwner, OpenWaits, ResetInSequence, CancelClosed, ResetInSequence, ResetVsync
    <3>cc. CancelClosed'
      BY <1>1, <1>2, <2>1, <3>1 DEF IInv, TypeOK, LockInv, QsOwner, SfOwner, OpenWaits, ResetInSequence, CancelClosed, CancelClosed, ResetVsync
    <3>excl. SequenceExclusion'
      BY <1>1, <1>2, <2>1, <3>1 DEF IInv, TypeOK, LockInv, QsOwner, SfOwner, OpenWaits, ResetInSequence, CancelClosed, SequenceExclusion, ResetVsync
    <3> QED
      BY <3>locks, <3>flags, <3>threads, <3>bounds, <3>qo, <3>so, <3>ow, <3>rs, <3>cc, <3>excl DEF IInv, TypeOK, LockInv, TypeLocks, TypeFlags, TypeThreads, TypeBounds
  <2> QED
    BY <1>1, <2>2, <2>3
<1>3. CASE sf.from # "Validate"
  <2>1. SfGo("PresentRest", sf.d, sf.from, r) /\ Hold(sf.d, "sf") /\ UNCHANGED <<qs, open>>
    BY <1>1, <1>3
  <2>locks. TypeLocks'
    BY <1>1, <1>3, <2>1 DEF IInv, TypeOK, TypeLocks, ResetVsync
  <2>flags. TypeFlags'
    BY <1>1, <1>3, <2>1 DEF IInv, TypeOK, TypeFlags, ResetVsync
  <2>threads. TypeThreads'
    BY <1>1, <1>3, <2>1 DEF IInv, TypeOK, TypeThreads, ResetVsync
  <2>bounds. TypeBounds'
    BY <1>1, <1>3, <2>1 DEF IInv, TypeOK, TypeBounds, ResetVsync
  <2>qo. QsOwner'
    BY <1>1, <1>3, <2>1 DEF IInv, TypeOK, LockInv, QsOwner, SfOwner, OpenWaits, ResetInSequence, CancelClosed, QsOwner, ResetVsync
  <2>so. SfOwner'
    BY <1>1, <1>3, <2>1 DEF IInv, TypeOK, LockInv, QsOwner, SfOwner, OpenWaits, ResetInSequence, CancelClosed, SfOwner, ResetVsync
  <2>ow. OpenWaits'
    BY <1>1, <1>3, <2>1 DEF IInv, TypeOK, LockInv, QsOwner, SfOwner, OpenWaits, ResetInSequence, CancelClosed, OpenWaits, ResetVsync
  <2>rs. ResetInSequence'
    BY <1>1, <1>3, <2>1 DEF IInv, TypeOK, LockInv, QsOwner, SfOwner, OpenWaits, ResetInSequence, CancelClosed, ResetInSequence, ResetVsync
  <2>cc. CancelClosed'
    BY <1>1, <1>3, <2>1 DEF IInv, TypeOK, LockInv, QsOwner, SfOwner, OpenWaits, ResetInSequence, CancelClosed, CancelClosed, ResetVsync
  <2>excl. SequenceExclusion'
    BY <1>1, <1>3, <2>1 DEF IInv, TypeOK, LockInv, QsOwner, SfOwner, OpenWaits, ResetInSequence, CancelClosed, SequenceExclusion, ResetVsync
  <2> QED
    BY <2>locks, <2>flags, <2>threads, <2>bounds, <2>qo, <2>so, <2>ow, <2>rs, <2>cc, <2>excl DEF IInv, TypeOK, LockInv, TypeLocks, TypeFlags, TypeThreads, TypeBounds
<1> QED
  BY <1>2, <1>3

\* SEQUENCE_CANCEL: the sequence was closed before the cancel.
LEMMA CancelIInv == IInv /\ Cancel => IInv'
<1> SUFFICES ASSUME IInv, Cancel PROVE IInv'
  OBVIOUS
<1>locks. TypeLocks'
  BY DEF IInv, TypeOK, TypeLocks, Cancel
<1>flags. TypeFlags'
  BY DEF IInv, TypeOK, TypeFlags, Cancel
<1>threads. TypeThreads'
  BY DEF IInv, TypeOK, TypeThreads, Cancel
<1>bounds. TypeBounds'
  BY DEF IInv, TypeOK, TypeBounds, Cancel
<1>qo. QsOwner'
  BY DEF IInv, TypeOK, LockInv, QsOwner, SfOwner, OpenWaits, ResetInSequence, CancelClosed, QsOwner, Cancel
<1>so. SfOwner'
  BY DEF IInv, TypeOK, LockInv, QsOwner, SfOwner, OpenWaits, ResetInSequence, CancelClosed, SfOwner, Cancel
<1>ow. OpenWaits'
  BY DEF IInv, TypeOK, LockInv, QsOwner, SfOwner, OpenWaits, ResetInSequence, CancelClosed, OpenWaits, Cancel
<1>rs. ResetInSequence'
  BY DEF IInv, TypeOK, LockInv, QsOwner, SfOwner, OpenWaits, ResetInSequence, CancelClosed, ResetInSequence, Cancel
<1>cc. CancelClosed'
  BY DEF IInv, TypeOK, LockInv, QsOwner, SfOwner, OpenWaits, ResetInSequence, CancelClosed, CancelClosed, Cancel
<1>excl. SequenceExclusion'
  BY DEF IInv, TypeOK, LockInv, QsOwner, SfOwner, OpenWaits, ResetInSequence, CancelClosed, SequenceExclusion, Cancel
<1> QED
  BY <1>locks, <1>flags, <1>threads, <1>bounds, <1>qo, <1>so, <1>ow, <1>rs, <1>cc, <1>excl DEF IInv, TypeOK, LockInv, TypeLocks, TypeFlags, TypeThreads, TypeBounds

\* HandlePendingRefresh asks for a refresh of a pending slot.
LEMMA HandleIInv == IInv /\ HandlePendingRefresh => IInv'
<1> SUFFICES ASSUME IInv, HandlePendingRefresh PROVE IInv'
  OBVIOUS
<1>1. pendingRefresh # {} => LowestPending(pendingRefresh) \in Displays
  BY LowestPendingIn, PipelineAssumption DEF IInv, TypeOK
<1>locks. TypeLocks'
  BY <1>1 DEF IInv, TypeOK, TypeLocks, HandlePendingRefresh
<1>flags. TypeFlags'
  BY <1>1 DEF IInv, TypeOK, TypeFlags, HandlePendingRefresh
<1>threads. TypeThreads'
  BY <1>1 DEF IInv, TypeOK, TypeThreads, HandlePendingRefresh
<1>bounds. TypeBounds'
  BY <1>1 DEF IInv, TypeOK, TypeBounds, HandlePendingRefresh
<1>qo. QsOwner'
  BY <1>1 DEF IInv, TypeOK, LockInv, QsOwner, SfOwner, OpenWaits, ResetInSequence, CancelClosed, QsOwner, HandlePendingRefresh
<1>so. SfOwner'
  BY <1>1 DEF IInv, TypeOK, LockInv, QsOwner, SfOwner, OpenWaits, ResetInSequence, CancelClosed, SfOwner, HandlePendingRefresh
<1>ow. OpenWaits'
  BY <1>1 DEF IInv, TypeOK, LockInv, QsOwner, SfOwner, OpenWaits, ResetInSequence, CancelClosed, OpenWaits, HandlePendingRefresh
<1>rs. ResetInSequence'
  BY <1>1 DEF IInv, TypeOK, LockInv, QsOwner, SfOwner, OpenWaits, ResetInSequence, CancelClosed, ResetInSequence, HandlePendingRefresh
<1>cc. CancelClosed'
  BY <1>1 DEF IInv, TypeOK, LockInv, QsOwner, SfOwner, OpenWaits, ResetInSequence, CancelClosed, CancelClosed, HandlePendingRefresh
<1>excl. SequenceExclusion'
  BY <1>1 DEF IInv, TypeOK, LockInv, QsOwner, SfOwner, OpenWaits, ResetInSequence, CancelClosed, SequenceExclusion, HandlePendingRefresh
<1> QED
  BY <1>locks, <1>flags, <1>threads, <1>bounds, <1>qo, <1>so, <1>ow, <1>rs, <1>cc, <1>excl DEF IInv, TypeOK, LockInv, TypeLocks, TypeFlags, TypeThreads, TypeBounds

\* SetPowerMode changes only the refresh bookkeeping.
LEMMA SetPowerModeIInv ==
  ASSUME IInv, NEW d \in Displays, NEW m \in Modes, SetPowerMode(d, m) PROVE IInv'
<1>1. CASE m = "Doze"
  <2>1. refreshReq' = refreshReq \cup {d} /\ pendingRefresh' = pendingRefresh \cup {d}
    BY <1>1 DEF SetPowerMode
  <2>locks. TypeLocks'
    BY <1>1, <2>1 DEF IInv, TypeOK, TypeLocks, SetPowerMode
  <2>flags. TypeFlags'
    BY <1>1, <2>1 DEF IInv, TypeOK, TypeFlags, SetPowerMode
  <2>threads. TypeThreads'
    BY <1>1, <2>1 DEF IInv, TypeOK, TypeThreads, SetPowerMode
  <2>bounds. TypeBounds'
    BY <1>1, <2>1 DEF IInv, TypeOK, TypeBounds, SetPowerMode
  <2>qo. QsOwner'
    BY <1>1, <2>1 DEF IInv, TypeOK, LockInv, QsOwner, SfOwner, OpenWaits, ResetInSequence, CancelClosed, QsOwner, SetPowerMode
  <2>so. SfOwner'
    BY <1>1, <2>1 DEF IInv, TypeOK, LockInv, QsOwner, SfOwner, OpenWaits, ResetInSequence, CancelClosed, SfOwner, SetPowerMode
  <2>ow. OpenWaits'
    BY <1>1, <2>1 DEF IInv, TypeOK, LockInv, QsOwner, SfOwner, OpenWaits, ResetInSequence, CancelClosed, OpenWaits, SetPowerMode
  <2>rs. ResetInSequence'
    BY <1>1, <2>1 DEF IInv, TypeOK, LockInv, QsOwner, SfOwner, OpenWaits, ResetInSequence, CancelClosed, ResetInSequence, SetPowerMode
  <2>cc. CancelClosed'
    BY <1>1, <2>1 DEF IInv, TypeOK, LockInv, QsOwner, SfOwner, OpenWaits, ResetInSequence, CancelClosed, CancelClosed, SetPowerMode
  <2>excl. SequenceExclusion'
    BY <1>1, <2>1 DEF IInv, TypeOK, LockInv, QsOwner, SfOwner, OpenWaits, ResetInSequence, CancelClosed, SequenceExclusion, SetPowerMode
  <2> QED
    BY <2>locks, <2>flags, <2>threads, <2>bounds, <2>qo, <2>so, <2>ow, <2>rs, <2>cc, <2>excl DEF IInv, TypeOK, LockInv, TypeLocks, TypeFlags, TypeThreads, TypeBounds
<1>2. CASE m # "Doze"
  <2>1. refreshReq' = refreshReq /\ pendingRefresh' = pendingRefresh \ {d}
    BY <1>2 DEF SetPowerMode
  <2>locks. TypeLocks'
    BY <1>2, <2>1 DEF IInv, TypeOK, TypeLocks, SetPowerMode
  <2>flags. TypeFlags'
    BY <1>2, <2>1 DEF IInv, TypeOK, TypeFlags, SetPowerMode
  <2>threads. TypeThreads'
    BY <1>2, <2>1 DEF IInv, TypeOK, TypeThreads, SetPowerMode
  <2>bounds. TypeBounds'
    BY <1>2, <2>1 DEF IInv, TypeOK, TypeBounds, SetPowerMode
  <2>qo. QsOwner'
    BY <1>2, <2>1 DEF IInv, TypeOK, LockInv, QsOwner, SfOwner, OpenWaits, ResetInSequence, CancelClosed, QsOwner, SetPowerMode
  <2>so. SfOwner'
    BY <1>2, <2>1 DEF IInv, TypeOK, LockInv, QsOwner, SfOwner, OpenWaits, ResetInSequence, CancelClosed, SfOwner, SetPowerMode
  <2>ow. OpenWaits'
    BY <1>2, <2>1 DEF IInv, TypeOK, LockInv, QsOwner, SfOwner, OpenWaits, ResetInSequence, CancelClosed, OpenWaits, SetPowerMode
  <2>rs. ResetInSequence'
    BY <1>2, <2>1 DEF IInv, TypeOK, LockInv, QsOwner, SfOwner, OpenWaits, ResetInSequence, CancelClosed, ResetInSequence, SetPowerMode
  <2>cc. CancelClosed'
    BY <1>2, <2>1 DEF IInv, TypeOK, LockInv, QsOwner, SfOwner, OpenWaits, ResetInSequence, CancelClosed, CancelClosed, SetPowerMode
  <2>excl. SequenceExclusion'
    BY <1>2, <2>1 DEF IInv, TypeOK, LockInv, QsOwner, SfOwner, OpenWaits, ResetInSequence, CancelClosed, SequenceExclusion, SetPowerMode
  <2> QED
    BY <2>locks, <2>flags, <2>threads, <2>bounds, <2>qo, <2>so, <2>ow, <2>rs, <2>cc, <2>excl DEF IInv, TypeOK, LockInv, TypeLocks, TypeFlags, TypeThreads, TypeBounds
<1> QED
  BY <1>1, <1>2

\* SEQUENCE_WAIT: a new command locks the slot, then waits or runs.
LEMMA QsStartIInv ==
  ASSUME IInv, NEW d \in Displays, QsStart(d) PROVE IInv'
<1>locks. TypeLocks'
  BY DEF IInv, TypeOK, TypeLocks, QsStart, QsLock
<1>flags. TypeFlags'
  BY DEF IInv, TypeOK, TypeFlags, QsStart, QsLock
<1>threads. TypeThreads'
  BY DEF IInv, TypeOK, TypeThreads, QsStart, QsLock
<1>bounds. TypeBounds'
  BY DEF IInv, TypeOK, TypeBounds, QsStart, QsLock
<1>qo. QsOwner'
  BY DEF IInv, TypeOK, LockInv, QsOwner, SfOwner, OpenWaits, ResetInSequence, CancelClosed, QsOwner, QsStart, QsLock
<1>so. SfOwner'
  BY DEF IInv, TypeOK, LockInv, QsOwner, SfOwner, OpenWaits, ResetInSequence, CancelClosed, SfOwner, QsStart, QsLock
<1>ow. OpenWaits'
  BY DEF IInv, TypeOK, LockInv, QsOwner, SfOwner, OpenWaits, ResetInSequence, CancelClosed, OpenWaits, QsStart, QsLock
<1>rs. ResetInSequence'
  BY DEF IInv, TypeOK, LockInv, QsOwner, SfOwner, OpenWaits, ResetInSequence, CancelClosed, ResetInSequence, QsStart, QsLock
<1>cc. CancelClosed'
  BY DEF IInv, TypeOK, LockInv, QsOwner, SfOwner, OpenWaits, ResetInSequence, CancelClosed, CancelClosed, QsStart, QsLock
<1>excl. SequenceExclusion'
  BY DEF IInv, TypeOK, LockInv, QsOwner, SfOwner, OpenWaits, ResetInSequence, CancelClosed, SequenceExclusion, QsStart, QsLock
<1> QED
  BY <1>locks, <1>flags, <1>threads, <1>bounds, <1>qo, <1>so, <1>ow, <1>rs, <1>cc, <1>excl DEF IInv, TypeOK, LockInv, TypeLocks, TypeFlags, TypeThreads, TypeBounds

\* A woken waiter retakes the lock: it runs only if no sequence is open,
\* since an open sequence has sequence_wait_ = 1 or a held lock.
LEMMA QsWokenIInv == IInv /\ QsWoken => IInv'
<1> SUFFICES ASSUME IInv, QsWoken PROVE IInv'
  OBVIOUS
<1>1. CASE seqWait[qs.d] = 1
  <2>locks. TypeLocks'
    BY <1>1 DEF IInv, TypeOK, TypeLocks, QsWoken, QsLock
  <2>flags. TypeFlags'
    BY <1>1 DEF IInv, TypeOK, TypeFlags, QsWoken, QsLock
  <2>threads. TypeThreads'
    BY <1>1 DEF IInv, TypeOK, TypeThreads, QsWoken, QsLock
  <2>bounds. TypeBounds'
    BY <1>1 DEF IInv, TypeOK, TypeBounds, QsWoken, QsLock
  <2>qo. QsOwner'
    BY <1>1 DEF IInv, TypeOK, LockInv, QsOwner, SfOwner, OpenWaits, ResetInSequence, CancelClosed, QsOwner, QsWoken, QsLock
  <2>so. SfOwner'
    BY <1>1 DEF IInv, TypeOK, LockInv, QsOwner, SfOwner, OpenWaits, ResetInSequence, CancelClosed, SfOwner, QsWoken, QsLock
  <2>ow. OpenWaits'
    BY <1>1 DEF IInv, TypeOK, LockInv, QsOwner, SfOwner, OpenWaits, ResetInSequence, CancelClosed, OpenWaits, QsWoken, QsLock
  <2>rs. ResetInSequence'
    BY <1>1 DEF IInv, TypeOK, LockInv, QsOwner, SfOwner, OpenWaits, ResetInSequence, CancelClosed, ResetInSequence, QsWoken, QsLock
  <2>cc. CancelClosed'
    BY <1>1 DEF IInv, TypeOK, LockInv, QsOwner, SfOwner, OpenWaits, ResetInSequence, CancelClosed, CancelClosed, QsWoken, QsLock
  <2>excl. SequenceExclusion'
    BY <1>1 DEF IInv, TypeOK, LockInv, QsOwner, SfOwner, OpenWaits, ResetInSequence, CancelClosed, SequenceExclusion, QsWoken, QsLock
  <2> QED
    BY <2>locks, <2>flags, <2>threads, <2>bounds, <2>qo, <2>so, <2>ow, <2>rs, <2>cc, <2>excl DEF IInv, TypeOK, LockInv, TypeLocks, TypeFlags, TypeThreads, TypeBounds
<1>2. CASE seqWait[qs.d] # 1
  <2>1. qs.d \notin open
    BY <1>2 DEF IInv, TypeOK, LockInv, OpenWaits, QsWoken, QsLock
  <2>locks. TypeLocks'
    BY <1>2, <2>1 DEF IInv, TypeOK, TypeLocks, QsWoken, QsLock
  <2>flags. TypeFlags'
    BY <1>2, <2>1 DEF IInv, TypeOK, TypeFlags, QsWoken, QsLock
  <2>threads. TypeThreads'
    BY <1>2, <2>1 DEF IInv, TypeOK, TypeThreads, QsWoken, QsLock
  <2>bounds. TypeBounds'
    BY <1>2, <2>1 DEF IInv, TypeOK, TypeBounds, QsWoken, QsLock
  <2>qo. QsOwner'
    BY <1>2, <2>1 DEF IInv, TypeOK, LockInv, QsOwner, SfOwner, OpenWaits, ResetInSequence, CancelClosed, QsOwner, QsWoken, QsLock
  <2>so. SfOwner'
    BY <1>2, <2>1 DEF IInv, TypeOK, LockInv, QsOwner, SfOwner, OpenWaits, ResetInSequence, CancelClosed, SfOwner, QsWoken, QsLock
  <2>ow. OpenWaits'
    BY <1>2, <2>1 DEF IInv, TypeOK, LockInv, QsOwner, SfOwner, OpenWaits, ResetInSequence, CancelClosed, OpenWaits, QsWoken, QsLock
  <2>rs. ResetInSequence'
    BY <1>2, <2>1 DEF IInv, TypeOK, LockInv, QsOwner, SfOwner, OpenWaits, ResetInSequence, CancelClosed, ResetInSequence, QsWoken, QsLock
  <2>cc. CancelClosed'
    BY <1>2, <2>1 DEF IInv, TypeOK, LockInv, QsOwner, SfOwner, OpenWaits, ResetInSequence, CancelClosed, CancelClosed, QsWoken, QsLock
  <2>excl. SequenceExclusion'
    BY <1>2, <2>1 DEF IInv, TypeOK, LockInv, QsOwner, SfOwner, OpenWaits, ResetInSequence, CancelClosed, SequenceExclusion, QsWoken, QsLock
  <2> QED
    BY <2>locks, <2>flags, <2>threads, <2>bounds, <2>qo, <2>so, <2>ow, <2>rs, <2>cc, <2>excl DEF IInv, TypeOK, LockInv, TypeLocks, TypeFlags, TypeThreads, TypeBounds
<1> QED
  BY <1>1, <1>2

\* The command body ends and the scope unlocks.
LEMMA QsBodyIInv == IInv /\ QsBody => IInv'
<1> SUFFICES ASSUME IInv, QsBody PROVE IInv'
  OBVIOUS
<1>locks. TypeLocks'
  BY DEF IInv, TypeOK, TypeLocks, QsBody
<1>flags. TypeFlags'
  BY DEF IInv, TypeOK, TypeFlags, QsBody
<1>threads. TypeThreads'
  BY DEF IInv, TypeOK, TypeThreads, QsBody
<1>bounds. TypeBounds'
  BY DEF IInv, TypeOK, TypeBounds, QsBody
<1>qo. QsOwner'
  BY DEF IInv, TypeOK, LockInv, QsOwner, SfOwner, OpenWaits, ResetInSequence, CancelClosed, QsOwner, QsBody
<1>so. SfOwner'
  BY DEF IInv, TypeOK, LockInv, QsOwner, SfOwner, OpenWaits, ResetInSequence, CancelClosed, SfOwner, QsBody
<1>ow. OpenWaits'
  BY DEF IInv, TypeOK, LockInv, QsOwner, SfOwner, OpenWaits, ResetInSequence, CancelClosed, OpenWaits, QsBody
<1>rs. ResetInSequence'
  BY DEF IInv, TypeOK, LockInv, QsOwner, SfOwner, OpenWaits, ResetInSequence, CancelClosed, ResetInSequence, QsBody
<1>cc. CancelClosed'
  BY DEF IInv, TypeOK, LockInv, QsOwner, SfOwner, OpenWaits, ResetInSequence, CancelClosed, CancelClosed, QsBody
<1>excl. SequenceExclusion'
  BY DEF IInv, TypeOK, LockInv, QsOwner, SfOwner, OpenWaits, ResetInSequence, CancelClosed, SequenceExclusion, QsBody
<1> QED
  BY <1>locks, <1>flags, <1>threads, <1>bounds, <1>qo, <1>so, <1>ow, <1>rs, <1>cc, <1>excl DEF IInv, TypeOK, LockInv, TypeLocks, TypeFlags, TypeThreads, TypeBounds

\* The uevent thread touches no lock and no sequence.
LEMMA UeventIInv == IInv /\ (PanelDies \/ FB0Refresh \/ FB0Flag \/ Register) => IInv'
<1> SUFFICES ASSUME IInv, PanelDies \/ FB0Refresh \/ FB0Flag \/ Register PROVE IInv'
  OBVIOUS
<1>1. CASE PanelDies
  <2>locks. TypeLocks'
    BY <1>1 DEF IInv, TypeOK, TypeLocks, PanelDies
  <2>flags. TypeFlags'
    BY <1>1 DEF IInv, TypeOK, TypeFlags, PanelDies
  <2>threads. TypeThreads'
    BY <1>1 DEF IInv, TypeOK, TypeThreads, PanelDies
  <2>bounds. TypeBounds'
    BY <1>1 DEF IInv, TypeOK, TypeBounds, PanelDies
  <2>qo. QsOwner'
    BY <1>1 DEF IInv, TypeOK, LockInv, QsOwner, SfOwner, OpenWaits, ResetInSequence, CancelClosed, QsOwner, PanelDies
  <2>so. SfOwner'
    BY <1>1 DEF IInv, TypeOK, LockInv, QsOwner, SfOwner, OpenWaits, ResetInSequence, CancelClosed, SfOwner, PanelDies
  <2>ow. OpenWaits'
    BY <1>1 DEF IInv, TypeOK, LockInv, QsOwner, SfOwner, OpenWaits, ResetInSequence, CancelClosed, OpenWaits, PanelDies
  <2>rs. ResetInSequence'
    BY <1>1 DEF IInv, TypeOK, LockInv, QsOwner, SfOwner, OpenWaits, ResetInSequence, CancelClosed, ResetInSequence, PanelDies
  <2>cc. CancelClosed'
    BY <1>1 DEF IInv, TypeOK, LockInv, QsOwner, SfOwner, OpenWaits, ResetInSequence, CancelClosed, CancelClosed, PanelDies
  <2>excl. SequenceExclusion'
    BY <1>1 DEF IInv, TypeOK, LockInv, QsOwner, SfOwner, OpenWaits, ResetInSequence, CancelClosed, SequenceExclusion, PanelDies
  <2> QED
    BY <2>locks, <2>flags, <2>threads, <2>bounds, <2>qo, <2>so, <2>ow, <2>rs, <2>cc, <2>excl DEF IInv, TypeOK, LockInv, TypeLocks, TypeFlags, TypeThreads, TypeBounds
<1>2. CASE FB0Refresh
  <2>locks. TypeLocks'
    BY <1>2 DEF IInv, TypeOK, TypeLocks, FB0Refresh
  <2>flags. TypeFlags'
    BY <1>2 DEF IInv, TypeOK, TypeFlags, FB0Refresh
  <2>threads. TypeThreads'
    BY <1>2 DEF IInv, TypeOK, TypeThreads, FB0Refresh
  <2>bounds. TypeBounds'
    BY <1>2 DEF IInv, TypeOK, TypeBounds, FB0Refresh
  <2>qo. QsOwner'
    BY <1>2 DEF IInv, TypeOK, LockInv, QsOwner, SfOwner, OpenWaits, ResetInSequence, CancelClosed, QsOwner, FB0Refresh
  <2>so. SfOwner'
    BY <1>2 DEF IInv, TypeOK, LockInv, QsOwner, SfOwner, OpenWaits, ResetInSequence, CancelClosed, SfOwner, FB0Refresh
  <2>ow. OpenWaits'
    BY <1>2 DEF IInv, TypeOK, LockInv, QsOwner, SfOwner, OpenWaits, ResetInSequence, CancelClosed, OpenWaits, FB0Refresh
  <2>rs. ResetInSequence'
    BY <1>2 DEF IInv, TypeOK, LockInv, QsOwner, SfOwner, OpenWaits, ResetInSequence, CancelClosed, ResetInSequence, FB0Refresh
  <2>cc. CancelClosed'
    BY <1>2 DEF IInv, TypeOK, LockInv, QsOwner, SfOwner, OpenWaits, ResetInSequence, CancelClosed, CancelClosed, FB0Refresh
  <2>excl. SequenceExclusion'
    BY <1>2 DEF IInv, TypeOK, LockInv, QsOwner, SfOwner, OpenWaits, ResetInSequence, CancelClosed, SequenceExclusion, FB0Refresh
  <2> QED
    BY <2>locks, <2>flags, <2>threads, <2>bounds, <2>qo, <2>so, <2>ow, <2>rs, <2>cc, <2>excl DEF IInv, TypeOK, LockInv, TypeLocks, TypeFlags, TypeThreads, TypeBounds
<1>3. CASE FB0Flag
  <2>locks. TypeLocks'
    BY <1>3 DEF IInv, TypeOK, TypeLocks, FB0Flag
  <2>flags. TypeFlags'
    BY <1>3 DEF IInv, TypeOK, TypeFlags, FB0Flag
  <2>threads. TypeThreads'
    BY <1>3 DEF IInv, TypeOK, TypeThreads, FB0Flag
  <2>bounds. TypeBounds'
    BY <1>3 DEF IInv, TypeOK, TypeBounds, FB0Flag
  <2>qo. QsOwner'
    BY <1>3 DEF IInv, TypeOK, LockInv, QsOwner, SfOwner, OpenWaits, ResetInSequence, CancelClosed, QsOwner, FB0Flag
  <2>so. SfOwner'
    BY <1>3 DEF IInv, TypeOK, LockInv, QsOwner, SfOwner, OpenWaits, ResetInSequence, CancelClosed, SfOwner, FB0Flag
  <2>ow. OpenWaits'
    BY <1>3 DEF IInv, TypeOK, LockInv, QsOwner, SfOwner, OpenWaits, ResetInSequence, CancelClosed, OpenWaits, FB0Flag
  <2>rs. ResetInSequence'
    BY <1>3 DEF IInv, TypeOK, LockInv, QsOwner, SfOwner, OpenWaits, ResetInSequence, CancelClosed, ResetInSequence, FB0Flag
  <2>cc. CancelClosed'
    BY <1>3 DEF IInv, TypeOK, LockInv, QsOwner, SfOwner, OpenWaits, ResetInSequence, CancelClosed, CancelClosed, FB0Flag
  <2>excl. SequenceExclusion'
    BY <1>3 DEF IInv, TypeOK, LockInv, QsOwner, SfOwner, OpenWaits, ResetInSequence, CancelClosed, SequenceExclusion, FB0Flag
  <2> QED
    BY <2>locks, <2>flags, <2>threads, <2>bounds, <2>qo, <2>so, <2>ow, <2>rs, <2>cc, <2>excl DEF IInv, TypeOK, LockInv, TypeLocks, TypeFlags, TypeThreads, TypeBounds
<1>4. CASE Register
  <2>locks. TypeLocks'
    BY <1>4 DEF IInv, TypeOK, TypeLocks, Register
  <2>flags. TypeFlags'
    BY <1>4 DEF IInv, TypeOK, TypeFlags, Register
  <2>threads. TypeThreads'
    BY <1>4 DEF IInv, TypeOK, TypeThreads, Register
  <2>bounds. TypeBounds'
    BY <1>4 DEF IInv, TypeOK, TypeBounds, Register
  <2>qo. QsOwner'
    BY <1>4 DEF IInv, TypeOK, LockInv, QsOwner, SfOwner, OpenWaits, ResetInSequence, CancelClosed, QsOwner, Register
  <2>so. SfOwner'
    BY <1>4 DEF IInv, TypeOK, LockInv, QsOwner, SfOwner, OpenWaits, ResetInSequence, CancelClosed, SfOwner, Register
  <2>ow. OpenWaits'
    BY <1>4 DEF IInv, TypeOK, LockInv, QsOwner, SfOwner, OpenWaits, ResetInSequence, CancelClosed, OpenWaits, Register
  <2>rs. ResetInSequence'
    BY <1>4 DEF IInv, TypeOK, LockInv, QsOwner, SfOwner, OpenWaits, ResetInSequence, CancelClosed, ResetInSequence, Register
  <2>cc. CancelClosed'
    BY <1>4 DEF IInv, TypeOK, LockInv, QsOwner, SfOwner, OpenWaits, ResetInSequence, CancelClosed, CancelClosed, Register
  <2>excl. SequenceExclusion'
    BY <1>4 DEF IInv, TypeOK, LockInv, QsOwner, SfOwner, OpenWaits, ResetInSequence, CancelClosed, SequenceExclusion, Register
  <2> QED
    BY <2>locks, <2>flags, <2>threads, <2>bounds, <2>qo, <2>so, <2>ow, <2>rs, <2>cc, <2>excl DEF IInv, TypeOK, LockInv, TypeLocks, TypeFlags, TypeThreads, TypeBounds
<1> QED
  BY <1>1, <1>2, <1>3, <1>4

\* A hotplug takes a free slot lock.
LEMMA PlugIInv ==
  ASSUME IInv, NEW d \in Displays, Plug(d) PROVE IInv'
<1>locks. TypeLocks'
  BY DEF IInv, TypeOK, TypeLocks, Plug
<1>flags. TypeFlags'
  BY DEF IInv, TypeOK, TypeFlags, Plug
<1>threads. TypeThreads'
  BY DEF IInv, TypeOK, TypeThreads, Plug
<1>bounds. TypeBounds'
  BY DEF IInv, TypeOK, TypeBounds, Plug
<1>qo. QsOwner'
  BY DEF IInv, TypeOK, LockInv, QsOwner, SfOwner, OpenWaits, ResetInSequence, CancelClosed, QsOwner, Plug
<1>so. SfOwner'
  BY DEF IInv, TypeOK, LockInv, QsOwner, SfOwner, OpenWaits, ResetInSequence, CancelClosed, SfOwner, Plug
<1>ow. OpenWaits'
  BY DEF IInv, TypeOK, LockInv, QsOwner, SfOwner, OpenWaits, ResetInSequence, CancelClosed, OpenWaits, Plug
<1>rs. ResetInSequence'
  BY DEF IInv, TypeOK, LockInv, QsOwner, SfOwner, OpenWaits, ResetInSequence, CancelClosed, ResetInSequence, Plug
<1>cc. CancelClosed'
  BY DEF IInv, TypeOK, LockInv, QsOwner, SfOwner, OpenWaits, ResetInSequence, CancelClosed, CancelClosed, Plug
<1>excl. SequenceExclusion'
  BY DEF IInv, TypeOK, LockInv, QsOwner, SfOwner, OpenWaits, ResetInSequence, CancelClosed, SequenceExclusion, Plug
<1> QED
  BY <1>locks, <1>flags, <1>threads, <1>bounds, <1>qo, <1>so, <1>ow, <1>rs, <1>cc, <1>excl DEF IInv, TypeOK, LockInv, TypeLocks, TypeFlags, TypeThreads, TypeBounds

LEMMA StutterIInv == IInv /\ UNCHANGED vars => IInv'
<1> SUFFICES ASSUME IInv, UNCHANGED vars PROVE IInv'
  OBVIOUS
<1>locks. TypeLocks'
  BY DEF IInv, TypeOK, TypeLocks, vars
<1>flags. TypeFlags'
  BY DEF IInv, TypeOK, TypeFlags, vars
<1>threads. TypeThreads'
  BY DEF IInv, TypeOK, TypeThreads, vars
<1>bounds. TypeBounds'
  BY DEF IInv, TypeOK, TypeBounds, vars
<1>qo. QsOwner'
  BY DEF IInv, TypeOK, LockInv, QsOwner, SfOwner, OpenWaits, ResetInSequence, CancelClosed, QsOwner, vars
<1>so. SfOwner'
  BY DEF IInv, TypeOK, LockInv, QsOwner, SfOwner, OpenWaits, ResetInSequence, CancelClosed, SfOwner, vars
<1>ow. OpenWaits'
  BY DEF IInv, TypeOK, LockInv, QsOwner, SfOwner, OpenWaits, ResetInSequence, CancelClosed, OpenWaits, vars
<1>rs. ResetInSequence'
  BY DEF IInv, TypeOK, LockInv, QsOwner, SfOwner, OpenWaits, ResetInSequence, CancelClosed, ResetInSequence, vars
<1>cc. CancelClosed'
  BY DEF IInv, TypeOK, LockInv, QsOwner, SfOwner, OpenWaits, ResetInSequence, CancelClosed, CancelClosed, vars
<1>excl. SequenceExclusion'
  BY DEF IInv, TypeOK, LockInv, QsOwner, SfOwner, OpenWaits, ResetInSequence, CancelClosed, SequenceExclusion, vars
<1> QED
  BY <1>locks, <1>flags, <1>threads, <1>bounds, <1>qo, <1>so, <1>ow, <1>rs, <1>cc, <1>excl DEF IInv, TypeOK, LockInv, TypeLocks, TypeFlags, TypeThreads, TypeBounds

\* Every step of the three threads preserves the invariant.
LEMMA NextIInv == IInv /\ [Next]_vars => IInv'
<1> SUFFICES ASSUME IInv, [Next]_vars PROVE IInv'
  OBVIOUS
<1>1. CASE \E d \in Displays : StartValidate(d) \/ StartPresent(d) \/ QsStart(d) \/ Plug(d)
  BY <1>1, StartValidateIInv, StartPresentIInv, QsStartIInv, PlugIInv
<1>2. CASE \E d \in Displays, m \in Modes : SetPowerMode(d, m)
  BY <1>2, SetPowerModeIInv
<1>3. CASE SfStep
  BY <1>3, PresentRestIInv, ResetPowerIInv, ResetVsyncIInv, CancelIInv, HandleIInv
  DEF SfStep
<1>4. CASE QsWoken \/ QsBody
  BY <1>4, QsWokenIInv, QsBodyIInv
<1>5. CASE PanelDies \/ FB0Refresh \/ FB0Flag \/ Register
  BY <1>5, UeventIInv
<1>6. CASE UNCHANGED vars
  BY <1>6, StutterIInv
<1> QED
  BY <1>1, <1>2, <1>3, <1>4, <1>5, <1>6 DEF Next

-----------------------------------------------------------------------------
(***************************************************************************)
(* The sequence lock keeps a SEQUENCE_WAIT command (SetDisplayMode) out of *)
(* every validate/present sequence of the same slot: for every set of     *)
(* slots and every bound, no command body runs on a slot whose validate    *)
(* succeeded and whose present has not yet run.                           *)
(***************************************************************************)
THEOREM SequenceLockSafe == Spec => []SequenceExclusion
<1>1. Init => IInv
  BY InitIInv
<1>2. IInv /\ [Next]_vars => IInv'
  BY NextIInv
<1>3. IInv => SequenceExclusion
  BY DEF IInv
<1> QED
  BY <1>1, <1>2, <1>3, PTL DEF Spec

(***************************************************************************)
(* Every thread's program counter, the slot locks and the bounded event   *)
(* counters keep their types in every run.                                *)
(***************************************************************************)
THEOREM PipelineTypeCorrect == Spec => []TypeOK
<1>1. IInv => TypeOK
  BY DEF IInv
<1> QED
  BY <1>1, InitIInv, NextIInv, PTL DEF Spec
====
