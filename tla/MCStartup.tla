----------------------------- MODULE MCStartup -----------------------------
EXTENDS Startup, TLC

Symmetry == Permutations(Processes)

(* Two groups, of which the second has two counters.                       *)
TwoGroups == <<"INIT_GROUP", "STATUS_GROUP">>
TwoEvents == <<[group |-> 2, name |-> "EV_STATUS"], [group |-> 2, name |-> "EV_WATCHDOG"]>>
=============================================================================
