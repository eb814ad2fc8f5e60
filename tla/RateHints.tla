----------------------------- MODULE RateHints -----------------------------
(***************************************************************************)
(* What the refresh-rate hinting of PowerHalHintWorker promises the Power  *)
(* HAL, seen from the HAL: the set of REFRESH_<r>FPS modes enabled, and    *)
(* whether the display is meant to be on. A hint is enabled only while at  *)
(* most one other is: the next rate is enabled, then the previous one is   *)
(* disabled. While the display is meant to be on, a hint is disabled only  *)
(* when another stays enabled, so the HAL is never left without a rate    *)
(* hint by a switch. Only a HAL crash forgets every hint.                 *)
(***************************************************************************)
EXTENDS Naturals, FiniteSets

CONSTANT Rates
VARIABLES hints, displayOn, halAlive

vars == <<hints, displayOn, halAlive>>

Init == hints = {} /\ displayOn = FALSE /\ halAlive = TRUE

EnableHint(r) ==
  /\ r \notin hints
  /\ Cardinality(hints) <= 1
  /\ halAlive
  /\ hints' = hints \cup {r}
  /\ UNCHANGED <<displayOn, halAlive>>

DisableHint(r) ==
  /\ r \in hints
  /\ ~displayOn \/ hints \ {r} # {}
  /\ halAlive
  /\ hints' = hints \ {r}
  /\ UNCHANGED <<displayOn, halAlive>>

\* The display is asked to be on or off.
Request(b) ==
  /\ displayOn' = b
  /\ UNCHANGED <<hints, halAlive>>

\* The HAL process dies and its modes with it; it is restarted later.
Forget ==
  /\ halAlive /\ ~halAlive'
  /\ hints' = {}
  /\ UNCHANGED displayOn

Restart ==
  /\ ~halAlive /\ halAlive'
  /\ UNCHANGED <<hints, displayOn>>

Next ==
  \/ \E r \in Rates : EnableHint(r) \/ DisableHint(r)
  \/ \E b \in BOOLEAN : Request(b)
  \/ Forget \/ Restart

Spec == Init /\ [][Next]_vars
====
