----------------------------- MODULE Pipeline ------------------------------
(***************************************************************************)
(* The validate/present pipeline of HWCSession and its sequence locks      *)
(* (hwc_session.cpp): ValidateDisplay (1251-1279), PresentDisplay          *)
(* (866-921), their Internal helpers (2956-2998), HandlePendingRefresh     *)
(* (923-936), the doze refresh bits of SetPowerMode (1184-1207), the FB0   *)
(* panel-dead uevent (2365-2373) with ResetPanel (2400-2422), Refresh      *)
(* (2464-2471), and a qService command that takes SEQUENCE_WAIT            *)
(* (SetDisplayMode, 1899-1909).                                            *)
(*                                                                         *)
(* Three threads: the client (SurfaceFlinger) making HWC2 calls, a         *)
(* qService binder thread, and the uevent thread. The per-slot Locker is   *)
(* a mutex `holder` with the sequence word `seqWait` (sequence_wait_):     *)
(* SEQUENCE_ENTRY sets it to 1, SEQUENCE_EXIT to 0, SEQUENCE_CANCEL to -1, *)
(* the last two broadcast on unlock, and SEQUENCE_WAIT waits while it is   *)
(* 1. The display object (HWCDisplay, not in this file) is reduced to its  *)
(* validation state and nondeterministic results.                          *)
(***************************************************************************)
EXTENDS Integers, FiniteSets

CONSTANTS
  Displays,        \* slot ids; 0 is the primary, the others pluggable
  Modes,           \* HWC2 power modes SetPowerMode is called with
  MaxPanelEvents,  \* bound on PANEL_ALIVE=0 uevents
  MaxCommands,     \* bound on qService commands
  MaxPlugs         \* bound on pluggable connects/disconnects

Primary == 0

ASSUME PipelineAssumption ==
  /\ Primary \in Displays /\ Displays \subseteq Nat
  /\ Modes \subseteq {"Off", "On", "Doze", "DozeSuspend"}
  /\ MaxPanelEvents \in Nat /\ MaxCommands \in Nat /\ MaxPlugs \in Nat

Threads == {"sf", "qs"}
VStates == {"Normal", "Skip", "Internal"}   \* HWCDisplay validation state
Status  == {"None", "HasChanges", "NotValidated", "BadDisplay", "Error"}

VARIABLES
  seqWait,        \* locker_[d].sequence_wait_
  holder,         \* owner of locker_[d]'s mutex
  connected,      \* hwc_display_[d] # nullptr
  vstate,         \* validation state of the display object
  resetPanel,     \* reset_panel_
  panelAlive,     \* the primary panel is working
  pendingRefresh, \* pending_refresh_ (bitset as a set of slots)
  refreshReq,     \* Refresh(d) requests SurfaceFlinger has not answered
  registered,     \* the client's refresh callback is registered
  open,           \* slots validated by SurfaceFlinger and not yet presented
  sf,             \* client thread: [op, d, from, r]
  qs,             \* qService thread: [op, d]
  ue,             \* uevent thread inside the FB0 handler
  panelEvents, commands, plugs

vars == <<seqWait, holder, connected, vstate, resetPanel, panelAlive,
          pendingRefresh, refreshReq, registered, open, sf, qs, ue,
          panelEvents, commands, plugs>>

SfOps == {"Idle", "ResetPower", "ResetVsync", "PresentRest",
          "Cancel", "Handle"}
QsOps == {"Idle", "Blocked", "Woken", "Body"}

TypeOK ==
  /\ seqWait \in [Displays -> {-1, 0, 1}]
  /\ holder \in [Displays -> Threads \cup {"none"}]
  /\ connected \in [Displays -> BOOLEAN]
  /\ vstate \in [Displays -> VStates]
  /\ resetPanel \in BOOLEAN /\ panelAlive \in BOOLEAN /\ registered \in BOOLEAN
  /\ pendingRefresh \subseteq Displays /\ refreshReq \subseteq Displays
  /\ open \subseteq Displays
  /\ sf \in [op : SfOps, d : Displays, from : {"Validate", "Present"}, r : Status]
  /\ qs \in [op : QsOps, d : Displays]
  /\ ue \in {"Idle", "Refresh", "Flag"}
  /\ panelEvents \in 0..MaxPanelEvents /\ commands \in 0..MaxCommands
  /\ plugs \in 0..MaxPlugs

Init ==
  /\ seqWait = [d \in Displays |-> 0]
  /\ holder = [d \in Displays |-> "none"]
  /\ connected = [d \in Displays |-> d = Primary]
  /\ vstate = [d \in Displays |-> "Normal"]
  /\ resetPanel = FALSE /\ panelAlive = TRUE /\ registered = FALSE
  /\ pendingRefresh = {} /\ refreshReq = {} /\ open = {}
  /\ sf = [op |-> "Idle", d |-> Primary, from |-> "Validate", r |-> "None"]
  /\ qs = [op |-> "Idle", d |-> Primary]
  /\ ue = "Idle"
  /\ panelEvents = 0 /\ commands = 0 /\ plugs = 0

-----------------------------------------------------------------------------
(* Locker helpers.                                                         *)

\* A step that takes the lock checks it is free; the step that ends the
\* locked region (the same one or a later one) sets the owner back.
Free(d)       == holder[d] = "none"
Hold(d, t)    == holder' = [holder EXCEPT ![d] = t]
Release(d)    == Hold(d, "none")

\* The Broadcast in ~SequenceExitScopeLock / ~SequenceCancelScopeLock
\* wakes a qService thread waiting on the same slot.
Broadcast(d) ==
  qs' = IF qs.op = "Blocked" /\ qs.d = d THEN [qs EXCEPT !.op = "Woken"] ELSE qs

\* GetDozeSupport: only the primary and the next builtin (none here) dozes.
DozeSupport(d) == d = Primary

SfGo(op, d, from, r) == sf' = [op |-> op, d |-> d, from |-> from, r |-> r]

-----------------------------------------------------------------------------
(* The client thread.                                                      *)

\* The end of ValidateDisplay after its locked region: cancel the sequence
\* on any result but None and HasChanges (1273-1276).
ValidateEndNoCancel(d, r) ==
  /\ SfGo("Idle", d, "Validate", r)
  /\ open' = IF r \in {"None", "HasChanges"} THEN open \cup {d} ELSE open \ {d}

ValidateEnd(d, r) ==
  IF r \in {"None", "HasChanges"}
    THEN SfGo("Idle", d, "Validate", r) /\ open' = open \cup {d}
    ELSE SfGo("Cancel", d, "Validate", r) /\ open' = open \ {d}

\* The end of PresentDisplay's locked region: EXIT unlocks and broadcasts;
\* cancel unless None or NotValidated (906-908), then HandlePendingRefresh.
PresentEnd(d, r) ==
  /\ Release(d) /\ Broadcast(d) /\ open' = open \ {d}
  /\ IF r \in {"None", "NotValidated"} THEN SfGo("Handle", d, "Present", r)
                                       ELSE SfGo("Cancel", d, "Present", r)

\* hwc_display->Validate(): the display leaves any skip/internal state.
DisplayValidate(d, from) ==
  \E r \in {"None", "HasChanges", "Error"} :
    /\ vstate' = [vstate EXCEPT ![d] = "Normal"]
    /\ IF from = "Validate" THEN Release(d) /\ ValidateEnd(d, r) /\ UNCHANGED qs
                            ELSE SfGo("PresentRest", d, from, r) /\ Hold(d, "sf") /\ UNCHANGED <<qs, open>>

\* ValidateDisplayInternal (2956-2982), up to ResetPanel or the display's
\* Validate; an earlier internal validation is served from its output.
ValidateDisplayInternal(d, from) ==
  \/ /\ vstate[d] = "Internal"
     /\ \E r \in {"None", "HasChanges"} :
          /\ vstate' = [vstate EXCEPT ![d] = "Normal"]
          /\ IF from = "Validate" THEN Release(d) /\ ValidateEnd(d, r) /\ UNCHANGED qs
                                  ELSE SfGo("PresentRest", d, from, r) /\ Hold(d, "sf") /\ UNCHANGED <<qs, open>>
     /\ UNCHANGED resetPanel
  \/ /\ vstate[d] # "Internal" /\ d = Primary /\ resetPanel
     /\ SfGo("ResetPower", d, from, "None")
     /\ Hold(d, "sf") /\ UNCHANGED <<vstate, qs, resetPanel, open>>
  \/ /\ vstate[d] # "Internal" /\ ~(d = Primary /\ resetPanel)
     /\ DisplayValidate(d, from)
     /\ UNCHANGED resetPanel

\* SEQUENCE_ENTRY_SCOPE_LOCK (1267): the sequence is open until EXIT/CANCEL.
SequenceEntryPlain(d) == UNCHANGED seqWait

SequenceEntry(d) == seqWait' = [seqWait EXCEPT ![d] = 1]

\* A frame SurfaceFlinger starts answers its refresh request for d.
Answer(d) == refreshReq' = refreshReq \ {d}

\* ValidateDisplay (1251-1271): SEQUENCE_ENTRY, then the internal validate.
StartValidate(d) ==
  /\ sf.op = "Idle" /\ registered
  /\ Free(d)
  /\ SequenceEntry(d)
  /\ Answer(d)
  /\ IF connected[d]
       THEN ValidateDisplayInternal(d, "Validate")
       ELSE /\ Release(d) /\ ValidateEnd(d, "BadDisplay")
            /\ UNCHANGED <<vstate, resetPanel, qs>>
  /\ UNCHANGED <<connected, panelAlive, pendingRefresh, registered, ue,
                 panelEvents, commands, plugs>>

\* hwc_display->Present(): the display may enter the skip-validate state.
DisplayPresent(d) ==
  \E r \in {"None", "Error"}, v \in {"Normal", "Skip"} :
    vstate' = [vstate EXCEPT ![d] = v] /\ PresentEnd(d, r)

\* PresentDisplay (866-904) with PresentDisplayInternal (2984-2998):
\* SEQUENCE_EXIT; a skip-validate frame that cannot skip is validated first.
StartPresent(d) ==
  /\ sf.op = "Idle" /\ registered
  /\ Free(d)
  /\ seqWait' = [seqWait EXCEPT ![d] = 0]
  /\ Answer(d)
  /\ \/ ~connected[d] /\ PresentEnd(d, "BadDisplay") /\ UNCHANGED <<vstate, resetPanel>>
     \/ connected[d] /\ vstate[d] = "Skip"
        /\ ValidateDisplayInternal(d, "Present")       \* !CanSkipValidate()
     \/ connected[d] /\ DisplayPresent(d) /\ UNCHANGED resetPanel
  /\ UNCHANGED <<connected, panelAlive, pendingRefresh, registered, ue,
                 panelEvents, commands, plugs>>

\* PresentDisplayInternal after its internal validate (2989-2997): an error
\* or client composition leaves kInternalValidate and NotValidated.
PresentRest ==
  /\ sf.op = "PresentRest"
  /\ LET d == sf.d IN
       \/ /\ vstate' = [vstate EXCEPT ![d] = "Internal"]  \* error or HasClientComposition()
          /\ PresentEnd(d, "NotValidated")
       \/ sf.r = "None" /\ DisplayPresent(d)
  /\ UNCHANGED <<seqWait, connected, resetPanel, panelAlive, pendingRefresh,
                 refreshReq, registered, ue, panelEvents, commands, plugs>>

\* ResetPanel (2400-2414): power the primary off and restore its last mode.
ResetPower ==
  /\ sf.op = "ResetPower"
  /\ panelAlive' = TRUE
  /\ SfGo("ResetVsync", sf.d, sf.from, sf.r)
  /\ UNCHANGED <<open, seqWait, holder, connected, vstate, resetPanel, pendingRefresh,
                 refreshReq, registered, qs, ue, panelEvents, commands, plugs>>

\* ResetPanel (2416-2421) enables vsync and clears reset_panel_; the rest of
\* ValidateDisplayInternal (2966-2981) then runs the display's Validate.
ResetVsync ==
  /\ sf.op = "ResetVsync"
  /\ resetPanel' = FALSE
  /\ DisplayValidate(sf.d, sf.from)
  /\ UNCHANGED <<seqWait, connected, panelAlive, pendingRefresh, refreshReq,
                 registered, ue, panelEvents, commands, plugs>>

\* SEQUENCE_CANCEL_SCOPE_LOCK (907, 1275): lock, set -1, broadcast, unlock.
Cancel ==
  /\ sf.op = "Cancel"
  /\ Free(sf.d)
  /\ seqWait' = [seqWait EXCEPT ![sf.d] = -1]
  /\ Broadcast(sf.d)
  /\ IF sf.from = "Validate" THEN SfGo("Idle", sf.d, sf.from, sf.r)
                             ELSE SfGo("Handle", sf.d, sf.from, sf.r)
  /\ UNCHANGED <<open, holder, connected, vstate, resetPanel, panelAlive, pendingRefresh,
                 refreshReq, registered, ue, panelEvents, commands, plugs>>

\* The first set bit of pending_refresh_ (the loop of 928-932).
LowestPending(S) == CHOOSE i \in S : \A j \in S : i <= j

\* HandlePendingRefresh (923-936): refresh the lowest pending slot, clear all.
HandlePendingRefresh ==
  /\ sf.op = "Handle"
  /\ refreshReq' = IF pendingRefresh = {} THEN refreshReq
                   ELSE refreshReq \cup {LowestPending(pendingRefresh)}
  /\ pendingRefresh' = {}
  /\ SfGo("Idle", sf.d, sf.from, sf.r)
  /\ UNCHANGED <<open, seqWait, holder, connected, vstate, resetPanel, panelAlive,
                 registered, qs, ue, panelEvents, commands, plugs>>

\* SetPowerMode (1184-1207): doze needs GetDozeSupport; the display call
\* takes the slot lock; Doze refreshes now and once more after a present.
SetPowerMode(d, m) ==
  /\ sf.op = "Idle" /\ registered
  /\ ~DozeSupport(d) => m \notin {"Doze", "DozeSuspend"}
  /\ Free(d) /\ connected[d]          \* CallDisplayFunction
  /\ IF m = "Doze"
       THEN refreshReq' = refreshReq \cup {d} /\ pendingRefresh' = pendingRefresh \cup {d}
       ELSE pendingRefresh' = pendingRefresh \ {d} /\ UNCHANGED refreshReq
  /\ UNCHANGED <<open, seqWait, holder, connected, vstate, resetPanel, panelAlive,
                 registered, sf, qs, ue, panelEvents, commands, plugs>>

-----------------------------------------------------------------------------
(* The qService thread: SEQUENCE_WAIT_SCOPE_LOCK, then the command body.  *)

\* Lock, then wait while a validate/present sequence is open.
QsLock(d) ==
  /\ Free(d)
  /\ IF seqWait[d] = 1
       THEN qs' = [op |-> "Blocked", d |-> d] /\ UNCHANGED holder  \* Wait() unlocks
       ELSE qs' = [op |-> "Body", d |-> d] /\ Hold(d, "qs")

QsStart(d) ==
  /\ qs.op = "Idle" /\ commands < MaxCommands
  /\ QsLock(d)
  /\ commands' = commands + 1
  /\ UNCHANGED <<open, seqWait, connected, vstate, resetPanel, panelAlive, pendingRefresh,
                 refreshReq, registered, sf, ue, panelEvents, plugs>>

QsWoken ==
  /\ qs.op = "Woken"
  /\ QsLock(qs.d)
  /\ UNCHANGED <<open, seqWait, connected, vstate, resetPanel, panelAlive, pendingRefresh,
                 refreshReq, registered, sf, ue, panelEvents, commands, plugs>>

\* SetDisplayMode (1899-1909): -ENODEV or Perform, then the scope unlocks.
QsBody ==
  /\ qs.op = "Body"
  /\ Release(qs.d)
  /\ qs' = [qs EXCEPT !.op = "Idle"]
  /\ UNCHANGED <<open, seqWait, connected, vstate, resetPanel, panelAlive, pendingRefresh,
                 refreshReq, registered, sf, ue, panelEvents, commands, plugs>>

-----------------------------------------------------------------------------
(* The uevent thread and the environment.                                  *)

\* The panel dies and the kernel sends FB0 with PANEL_ALIVE=0 (2365-2368).
PanelDies ==
  /\ ue = "Idle" /\ panelEvents < MaxPanelEvents
  /\ panelAlive' = FALSE /\ ue' = "Refresh"
  /\ panelEvents' = panelEvents + 1
  /\ UNCHANGED <<open, seqWait, holder, connected, vstate, resetPanel, pendingRefresh,
                 refreshReq, registered, sf, qs, commands, plugs>>

\* Refresh(0) (2370, 2464-2471) waits until callbacks_.Refresh succeeds,
\* i.e. until the client has registered its refresh callback.
FB0Refresh ==
  /\ ue = "Refresh" /\ registered
  /\ refreshReq' = refreshReq \cup {Primary}
  /\ ue' = "Flag"
  /\ UNCHANGED <<open, seqWait, holder, connected, vstate, resetPanel, panelAlive,
                 pendingRefresh, registered, sf, qs, panelEvents, commands, plugs>>

\* reset_panel_ = true (2371), written without any lock.
FB0Flag ==
  /\ ue = "Flag"
  /\ resetPanel' = TRUE /\ ue' = "Idle"
  /\ UNCHANGED <<open, seqWait, holder, connected, vstate, panelAlive, pendingRefresh,
                 refreshReq, registered, sf, qs, panelEvents, commands, plugs>>

\* The client registers its callbacks (RegisterCallback).
Register ==
  /\ ~registered /\ registered' = TRUE
  /\ UNCHANGED <<open, seqWait, holder, connected, vstate, resetPanel, panelAlive,
                 pendingRefresh, refreshReq, sf, qs, ue, panelEvents, commands, plugs>>

\* A hotplug scan creates or destroys a pluggable display under its lock.
Plug(d) ==
  /\ d # Primary /\ plugs < MaxPlugs /\ Free(d)
  /\ connected' = [connected EXCEPT ![d] = ~@]
  /\ vstate' = [vstate EXCEPT ![d] = "Normal"]
  /\ plugs' = plugs + 1
  /\ UNCHANGED <<open, seqWait, holder, resetPanel, panelAlive, pendingRefresh,
                 refreshReq, registered, sf, qs, ue, panelEvents, commands>>

-----------------------------------------------------------------------------
SfStep == PresentRest \/ ResetPower \/ ResetVsync \/ Cancel \/ HandlePendingRefresh

Next ==
  \/ \E d \in Displays : StartValidate(d) \/ StartPresent(d) \/ QsStart(d) \/ Plug(d)
  \/ \E d \in Displays, m \in Modes : SetPowerMode(d, m)
  \/ SfStep \/ QsWoken \/ QsBody
  \/ PanelDies \/ FB0Refresh \/ FB0Flag \/ Register

\* A HWC2 client presents after a validate that succeeded (the sequence is
\* then closed), and answers a Refresh with a frame. Each thread finishes
\* a call it has started. A woken waiter eventually wins the slot lock at
\* a moment no sequence is open: the client sleeps until the next vsync
\* between a present and the next validate.
Fairness ==
  /\ WF_vars(SfStep) /\ WF_vars(QsBody)
  /\ \A d \in Displays :
       /\ SF_vars(d \in open /\ StartPresent(d))
       /\ WF_vars(d \in refreshReq /\ (StartValidate(d) \/ StartPresent(d)))
  /\ SF_vars(QsWoken /\ seqWait[qs.d] # 1)
  /\ WF_vars(FB0Refresh \/ FB0Flag) /\ WF_vars(Register)

Spec == Init /\ [][Next]_vars /\ Fairness

-----------------------------------------------------------------------------
(* Properties.                                                             *)

\* The sequence lock's promise: a SEQUENCE_WAIT command (SetDisplayMode)
\* never runs between a validate that succeeded and the present that
\* closes it on the same slot.
SequenceExclusion ==
  qs.op = "Body" => qs.d \notin open

\* A qService command blocked in SEQUENCE_WAIT is eventually released: a
\* present exits the sequence, a failed validate or present cancels it.
WaitersReleased == qs.op # "Idle" ~> qs.op = "Idle"

\* A panel reported dead by PANEL_ALIVE=0 is eventually reset by the next
\* primary validate (reset_panel_ -> ResetPanel).
PanelRecovers == ~panelAlive ~> panelAlive
====
