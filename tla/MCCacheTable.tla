---------------------------- MODULE MCCacheTable ----------------------------
(* The three users of ci_cache, each on a small instance: the lease lock   *)
(* of the timers, the bootstrap under its lease, the credentials a change  *)
(* of password revokes.  Their rows have different keys, so none reads     *)
(* what another writes: a behaviour stays with the one it begins with,     *)
(* focus, and the run covers each without the product of their states.     *)
EXTENDS LeaseLock, Bootstrap, OAuthCodes, TLC

CONSTANTS Focusable, b1, b2, view, edit, admin

VARIABLE focus

(* Instances of one version; the database is empty, of an older version or *)
(* of a newer one (a rollback).                                            *)
MCCode == [p \in Starts |-> 2]
MCDefaults == (0 :> {}) @@ (1 :> {view}) @@ (2 :> {view, edit})
                 @@ (3 :> {view, edit, admin})

(* Two instances of a rolling upgrade, of different versions               *)
MCRolling == (b1 :> 2) @@ (b2 :> 3)

cacheTableVars == <<focus, vars, bootVars, oauthVars>>

(* The initial values of what nobody looks at are not varied.              *)
CacheTableInit ==
    /\ focus \in Focusable
    /\ Init /\ BootInit /\ OAuthInit
    /\ focus # "bootstrap" => recorded = 1

CacheTableNext ==
    /\ focus' = focus
    /\ \/ focus = "timers" /\ Next /\ UNCHANGED <<bootVars, oauthVars>>
       \/ focus = "bootstrap" /\ BootNext /\ UNCHANGED <<vars, oauthVars>>
       \/ focus = "oauth" /\ OAuthNext /\ UNCHANGED <<vars, bootVars>>

(* The fairness of BootFairness, while the bootstrap has the focus.        *)
CacheTableFairness ==
    /\ \A p \in Starts : WF_bootVars(/\ focus = "bootstrap"
                                     /\ Start(p) \/ Waits(p) \/ Migrates(p))
    /\ WF_bootVars(focus = "bootstrap" /\ Wait)

CacheTableSpec ==
    CacheTableInit /\ [][CacheTableNext]_cacheTableVars /\ CacheTableFairness
-----------------------------------------------------------------------------
(* The variables of the three modules keep their types, and ci_cache has   *)
(* one row at most of a lock (the primary key).                            *)
CacheTableTypeOK == TypeOK /\ BootTypeOK /\ OAuthTypeOK
=============================================================================
