--------------------------- MODULE MCAdminSession ---------------------------
(* Two accounts, one of which must change its password at its first login; *)
(* three tabs: one that loads once, one that refreshes itself and one that *)
(* loads nothing.                                                          *)
EXTENDS AdminSession, TLC

CONSTANTS root, dev

MCUsers == {root, dev}
MCForced == {dev}
MCRightsOf == (root :> {"all"}) @@ (dev :> {})
MCTabs == {"monitor", "pull-records", "password"}
MCNeeds == [t \in MCTabs |-> IF t = "password" THEN "all" ELSE "none"]
=============================================================================
