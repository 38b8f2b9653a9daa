--------------------------- MODULE OAuthTokensInv ---------------------------
(***************************************************************************)
(* Inductive invariants of OAuthTokens: the properties, and what has to be *)
(* known of workers in the middle of a refresh or a login for the          *)
(* properties to be preserved by every step.  OAuthTokensProofs proves     *)
(* them.                                                                   *)
(***************************************************************************)
EXTENDS OAuthTokens

Work == [pc : PCs, access : 0..MaxPairs, refresh : 0..MaxPairs,
         fresh : BOOLEAN, attempt : 1..MaxAttempts]

TypeInv == TypeOK /\ work \in [Workers -> Work]

\* What the record s of a worker knows when i pairs have been issued and their
\* access tokens are as old as a says: a token is known only if it was issued,
\* one that is known to be fresh has not expired.
Aged(s, i, a) ==
    /\ s.access <= i /\ s.refresh <= i
    /\ s.fresh => s.access # 0 /\ a[s.access] < 2
    /\ s.pc \in Saving => s.fresh
    /\ s.pc \notin Saving \cup {"use"} => ~s.fresh
    /\ s.pc \in {"refresh", "expiry", "use"} => s.access # 0

\* Access tokens grow old in the order they were issued.
AgeInv ==
    /\ \A row \in Rows : stored[row] <= issued
    /\ \A n \in Pairs : n > issued => age[n] = 0
    /\ \A m, n \in Pairs : m < n => age[m] >= age[n]
    /\ \A w \in Workers : Aged(work[w], issued, age)

\* Worker w has a pair whose refresh token is not stored yet.
Holds(w) == work[w].pc \in {"save access", "save refresh"}

\* A pair that a worker has to save is nobody else's, and its refresh token is
\* not yet in the row, nor read: it cannot be spent before it is saved.
Held ==
    /\ \A v, w \in Workers :
           Holds(v) /\ Holds(w) /\ work[v].access = work[w].access => v = w
    /\ \A w \in Workers :
           Holds(w) =>
               /\ work[w].access \in usable
               /\ stored["refresh"] # work[w].access
               /\ \A v \in Workers : work[v].refresh # work[w].access

HoldInv ==
    /\ Held
    /\ deleting # {} => "disconnect" \in events
    /\ Connected /\ Without({"crash", "write", "lost", "hang", "disconnect"}) =>
           stored["refresh"] \in usable \/ \E w \in Workers : Holds(w)

\* Only a login connects the app, and there is one login at a time.
LoginInv ==
    /\ deleting = {}
    /\ ~Connected =>
           /\ stored["refresh"] = 0 /\ stored["expiry"] = 0
           /\ \A w \in Clients : work[w].pc \in {"idle", "access"}
    /\ \A b, c \in Browsers : Running(b) /\ Running(c) => b = c
    /\ \A b \in Browsers :
           /\ work[b].pc \in {"exchange", "save access"} => ~Connected
           /\ work[b].pc \in {"save refresh", "save expiry"} => Connected

\* The refresh token that Fortnox takes is stored or in the hands of one
\* worker, and the rows are written in the order the pairs were issued.
PairInv ==
    /\ \A v, w \in Workers : Holds(v) /\ Holds(w) => v = w
    /\ \A w \in Workers :
           /\ work[w].refresh \in usable => work[w].refresh = stored["refresh"]
           /\ Holds(w) =>
                  /\ work[w].access \in usable
                  /\ stored["refresh"] \notin usable
                  /\ \A v \in Workers : work[v].refresh \notin usable
           /\ work[w].pc = "save access" => stored["access"] < work[w].access
           /\ work[w].pc = "save refresh" => stored["access"] = work[w].access
           /\ work[w].pc # "save access" => work[w].access <= stored["access"]
           /\ work[w].pc = "use" /\ work[w].access = stored["access"] => work[w].fresh
    /\ stored["expiry"] <= stored["access"]
    /\ Without({"crash", "write"}) =>
           \/ stored["access"] = stored["refresh"]
           \/ \E w \in Workers : work[w].pc = "save refresh"

\* Nobody has disconnected, and no login ran beside other workers.
Clean == Without({"disconnect"}) /\ ~relogged

\* The inductive invariant behind Recoverable, PairsMatch and TokenAccepted.
TokensInv ==
    /\ AgeInv
    /\ HoldInv
    /\ Clean => LoginInv /\ PairInv

\* Behind DisconnectHolds: with no access token stored and only calls at work
\* that have yet to read one, only the next login can store one.
NotAgain(k) ==
    \/ codes > k
    \/ /\ codes = k /\ ~Connected
       /\ \A w \in Workers : work[w].pc \in {"idle", "hung", "access"}
       /\ \A b \in Browsers : work[b].pc # "access"
=============================================================================
