---------------------------- MODULE MCDashboards ----------------------------
(***************************************************************************)
(* One reader of any report while three runs commit and two operators     *)
(* update incidents.                                                       *)
(***************************************************************************)
EXTENDS Dashboards, TLC

CONSTANTS r1, o1, o2

Colleagues == Permutations({o1, o2})

(* A region's detail is also of the indicator nobody asked for.             *)
MCContracts == <<"poverty", "unemployment">>
MCIndicators == <<"poverty">>

(* The second gold version spans two reference periods, the third has no   *)
(* observation of the year.                                                *)
MCPeriodsOf(c, n) == <<1, 2, 0>>[n]

(* What a score or an export selects are the first statements of a compare *)
(* and of an analytics report.                                             *)
MCLoads == [{r1} -> Reports \ {"score", "export"}]

(* Behaviours are followed until the response is complete: what the writers *)
(* can do alone is explored before anybody asks.                            *)
SomebodyReads == \E r \in Readers : outcome[r] \in {"asking", "reading"}

(* Beside a report are only followed the writes it can see: those of the    *)
(* other indicator beside a report on both, the passing of time beside a    *)
(* summary, updates of incidents beside one they count for, warnings and    *)
(* batches that come again beside the summary of silver.                    *)
SeenByReport ==
  /\ report[r1] \in {"silver", "gold", "indicator"} => runs["unemployment"] = <<>>
  /\ now > 0 => report[r1] \in {"silver", "gold"}
  /\ updates > 0 => report[r1] \in {"silver", "indicator"}
  /\ \A c \in Codes : \A n \in DOMAIN runs[c] :
       LET run == runs[c][n]
       IN  run.version # n \/ run.failures # (run.verdict = "rejected") => report[r1] = "silver"
=============================================================================
