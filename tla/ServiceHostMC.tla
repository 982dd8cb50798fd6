---------------------------- MODULE ServiceHostMC -------------------------
(* Small instances of ServiceHost: a job in a project, one whose project is *)
(* gone, one whose project cannot be entered.  What the process meets is    *)
(* one of three: clients only, the cron table only, or both with one job.   *)
EXTENDS ServiceHost

CONSTANTS j1, j2, j3, home, proj, gone, shut

MCProjectOf == [j \in Jobs |-> CASE j = j1 -> proj [] j = j2 -> gone [] j = j3 -> shut]

ClientsOnly == rows = {} /\ listening /\ maint.at = "off"
CronOnly == rows = Jobs /\ ~listening
Both == rows = {j1} /\ listening /\ maint.at = "off"

MCInit == Init /\ (ClientsOnly \/ CronOnly \/ Both)
MCSpec == MCInit /\ [][Next]_vars /\ Fairness
=============================================================================
