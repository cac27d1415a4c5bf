----------------------------- MODULE OneTimeCode -----------------------------
(***************************************************************************)
(* What an authorization code promises, being "one-time" and expiring (the *)
(* comment of Service/OAuthService.php): it is offered once, one exchange  *)
(* at most takes it, and only the one that took it gets a token for it.    *)
(***************************************************************************)
CONSTANTS
    Code,
    Exchange    \* the requests that may present a code

VARIABLES
    offered,    \* the codes handed out so far
    live,       \* those that can still be exchanged
    taken,      \* <<code, exchange>>: taken, the token to come
    tokens      \* <<code, exchange>>: the tokens issued

Init == offered = {} /\ live = {} /\ taken = {} /\ tokens = {}

Offer(c) ==
    /\ c \notin offered
    /\ offered' = offered \cup {c} /\ live' = live \cup {c}
    /\ UNCHANGED <<taken, tokens>>

Take(c, e) ==
    /\ c \in live
    /\ live' = live \ {c} /\ taken' = taken \cup {<<c, e>>}
    /\ UNCHANGED <<offered, tokens>>

Mint(c, e) ==
    /\ <<c, e>> \in taken
    /\ taken' = taken \ {<<c, e>>} /\ tokens' = tokens \cup {<<c, e>>}
    /\ UNCHANGED <<offered, live>>

(* An exchange that ends before its token is issued: the code is lost.     *)
Abandon(c, e) ==
    /\ <<c, e>> \in taken
    /\ taken' = taken \ {<<c, e>>}
    /\ UNCHANGED <<offered, live, tokens>>

(* Codes expire, or are revoked together.                                  *)
Withdraw(S) ==
    /\ live' = live \ S
    /\ UNCHANGED <<offered, taken, tokens>>

Next ==
    \/ \E c \in Code : Offer(c)
    \/ \E c \in Code, e \in Exchange : Take(c, e) \/ Mint(c, e) \/ Abandon(c, e)
    \/ \E S \in SUBSET live : Withdraw(S)

Spec == Init /\ [][Next]_<<offered, live, taken, tokens>>
=============================================================================
