--------------------------- MODULE MC_HwcSession ---------------------------
(* Model-checking instance of HwcSession: one slot in each pool, two      *)
(* pluggable hardware displays and one second builtin panel.              *)
EXTENDS HwcSession
====
