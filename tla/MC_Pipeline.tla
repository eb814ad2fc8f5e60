---------------------------- MODULE MC_Pipeline -----------------------------
(* Model-checking root for the validate/present pipeline.                  *)
EXTENDS Pipeline
====
