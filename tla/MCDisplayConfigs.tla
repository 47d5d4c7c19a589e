---------------------------- MODULE MCDisplayConfigs ----------------------------
(* Instance of DisplayConfigs: a primary and an external display, and monitors   *)
(* that show what the filters of Update are for: neighbouring rates, both scan   *)
(* types in one group, a preferred interlaced mode, none preferred.              *)
EXTENDS DisplayConfigs

Mode(res, hz, kind, pref) == [res |-> res, hz |-> hz, kind |-> kind, preferred |-> pref]
P(res, hz) == Mode(res, hz, "progressive", FALSE)
I(res, hz) == Mode(res, hz, "interlaced", FALSE)

Monitors ==
  {<<Mode("A", 600, "progressive", TRUE), P("A", 599), P("B", 500)>>,
   <<Mode("B", 600, "interlaced", TRUE), P("B", 500), I("B", 594)>>,
   <<P("A", 594), I("A", 600)>>}

(* No property set, the limit, and a third mode asked for where there is one.    *)
AllSettings ==
  {[limit |-> FALSE, index |-> 0], [limit |-> TRUE, index |-> 0], [limit |-> FALSE, index |-> 3]}
===============================================================================
