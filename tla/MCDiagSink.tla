----------------------------- MODULE MCDiagSink -----------------------------
(* Instances of DiagSink for TLC.                                           *)
EXTENDS DiagSink

CONSTANTS t1, t2, s1, s2, warning, error

TwoThreads == {t1, t2}
TwoSinks == {s1, s2}
TwoClasses == {warning, error}
=============================================================================
