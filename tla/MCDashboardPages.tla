-------------------------- MODULE MCDashboardPages --------------------------
(* Small instances of DashboardPages: a few of the things that operator and    *)
(* world may do at a time.                                                     *)
EXTENDS DashboardPages, UsagePanel

Spends == {"login", "page", "filter", "view", "pause", "hide", "delete", "refresh",
           "traffic", "models", "restart", "lost", "refused"}
Allow(v, b) == [view |-> v, may |-> [s \in Spends |-> IF s \in DOMAIN b THEN b[s] ELSE 0]]

Paging    == Allow("requests", [login |-> 1, page |-> 3, lost |-> 1, traffic |-> 1])
Failing   == Allow("requests", [login |-> 1, page |-> 2, filter |-> 1, lost |-> 2])
Filtering == Allow("requests", [login |-> 1, page |-> 1, filter |-> 2, lost |-> 1])
Moving    == Allow("overview", [login |-> 1, page |-> 1, view |-> 3])
Resting   == Allow("requests", [login |-> 1, page |-> 1, hide |-> 2, pause |-> 1, traffic |-> 1])
Deleting  == Allow("requests", [login |-> 1, filter |-> 1, delete |-> 1, lost |-> 1])
Reloading == Allow("requests", [login |-> 1, page |-> 2, refresh |-> 2, traffic |-> 1])
Learning  == Allow("settings", [login |-> 1, models |-> 2, refresh |-> 1])
Missing   == Allow("settings", [login |-> 1, models |-> 2, hide |-> 1, lost |-> 1])
Restarted == Allow("settings", [login |-> 1, models |-> 2, restart |-> 1])
Relogin   == Allow("settings", [login |-> 2, models |-> 1, refresh |-> 1, refused |-> 1,
                                lost |-> 1])

Asleep    == Allow("settings", [login |-> 0])

MCScenarios == {Paging, Failing, Filtering, Moving, Resting, Deleting, Reloading, Learning,
                Missing, Restarted, Relogin, Asleep}

Allowances == {"tab", "select", "custom", "page", "refresh", "clear", "lost"}
Permit(b) == [a \in Allowances |-> IF a \in DOMAIN b THEN b[a] ELSE 0]

Browsing  == Permit([tab |-> 2, select |-> 2, page |-> 1, lost |-> 1])
Customs   == Permit([tab |-> 2, select |-> 1, custom |-> 1, page |-> 1, refresh |-> 1])
Clearing  == Permit([tab |-> 3, page |-> 1, clear |-> 1, lost |-> 1])
TwoClears == Permit([tab |-> 1, refresh |-> 1, clear |-> 2])

UsageAsleep == Permit([tab |-> 0])

MCUsageScenarios == {UsageAsleep, Browsing, Customs, Clearing, TwoClears}

(* The two pages share no state, so they are explored one at a time: when one  *)
(* may do something, the other stays as it was opened.                         *)
OneAtATime ==
  (\A s \in DOMAIN budget : budget[s] = 0) \/ (\A a \in DOMAIN allowance : allowance[a] = 0)

ConsoleInit == Init /\ UsageInit /\ OneAtATime
ConsoleNext == (Next /\ UNCHANGED usageVars) \/ (UsageNext /\ UNCHANGED vars)
Console == ConsoleInit /\ [][ConsoleNext]_<<vars, usageVars>> /\ Fairness /\ UsageFairness
=============================================================================
