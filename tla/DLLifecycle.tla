---------------------------- MODULE DLLifecycle ----------------------------
(***************************************************************************)
(* The life of a sub-library of LibGGI (include/ggi/internal/dltypes.h:    *)
(* open, exit, close).  It is loaded and opened; its exit function is      *)
(* called, once or more often, while it is loaded; only after that is it   *)
(* closed and unloaded, once for each time it was opened.                  *)
(***************************************************************************)
CONSTANT Handle
VARIABLE life   \* of each handle: "none", "open" or "exited"

Init == life = [h \in Handle |-> "none"]

Open(h) ==
  /\ life[h] = "none"
  /\ life' = [life EXCEPT ![h] = "open"]

Exit(S) ==
  /\ \A h \in S : life[h] # "none"
  /\ life' = [h \in Handle |-> IF h \in S THEN "exited" ELSE life[h]]

Close(S) ==
  /\ \A h \in S : life[h] = "exited"
  /\ life' = [h \in Handle |-> IF h \in S THEN "none" ELSE life[h]]

Next ==
  \/ \E h \in Handle : Open(h)
  \/ \E S \in SUBSET Handle : Exit(S)
  \/ \E S \in SUBSET Handle : Close(S)

Spec == Init /\ [][Next]_life

=============================================================================
