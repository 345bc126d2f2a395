----------------------------- MODULE MCLoggers -----------------------------
(***************************************************************************)
(* A listener of each version, and one that cannot be taken into use.      *)
(***************************************************************************)
EXTENDS Loggers

MCListeners == <<"old", "broken", "new">>
MCVersion == [old |-> 1, broken |-> 2, new |-> 2]
=============================================================================
