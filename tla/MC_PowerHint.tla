---------------------------- MODULE MC_PowerHint ----------------------------
EXTENDS PowerHint
====
