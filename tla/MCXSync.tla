------------------------------ MODULE MCXSync ------------------------------
(* Values of the constants of XSync for TLC.                               *)
EXTENDS XSync

\* Every mode; "OTHER" is a flag that the X target does not have.
EveryMode == {{}, {"ASYNC"}, {"TIDY", "OTHER"}, {"ASYNC", "TIDY"}}

SyncAndTidy == {{}, {"TIDY"}}

=============================================================================
