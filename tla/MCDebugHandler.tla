--------------------------- MODULE MCDebugHandler ---------------------------
EXTENDS DebugHandler

Symmetry == Permutations(Adders)

(* A monitor reads the logs of all groups, and calls RT_debug_get_grp_log. *)
AllLogs ==
  [kinds |-> {"log"}, masks |-> {Groups}, grp_log |-> TRUE, entries |-> 3,
   starts |-> 0, extracts |-> 1, restarts |-> 1]

(* A monitor reads those of all groups or of one.                          *)
SomeLogs ==
  [kinds |-> {"log"}, masks |-> {Groups, {0}}, grp_log |-> FALSE, entries |-> 3,
   starts |-> 0, extracts |-> 1, restarts |-> 0]

(* The collection of traces is stopped and started again.                  *)
Traces ==
  [kinds |-> {"trace"}, masks |-> {}, grp_log |-> FALSE, entries |-> 3,
   starts |-> 1, extracts |-> 1, restarts |-> 1]

LogsOrTraces == {AllLogs, SomeLogs, Traces}

(* One process extracts twice.                                             *)
Twice ==
  {[kinds |-> {"log", "trace"}, masks |-> {Groups}, grp_log |-> TRUE, entries |-> 1,
    starts |-> 1, extracts |-> 2, restarts |-> 0]}
=============================================================================
