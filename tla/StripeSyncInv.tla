---------------------------- MODULE StripeSyncInv ---------------------------
(***************************************************************************)
(* Inductive invariants of StripeSync: the properties, and what has to be  *)
(* known of syncs in the middle of a list for the properties to be         *)
(* preserved by every step.  StripeSyncProofs proves them.                 *)
(***************************************************************************)
EXTENDS StripeSync

Pages == UNION {[S -> 1..3] : S \in SUBSET Records}

Sync == [pc : PCs, entity : Entities, since : Nat, page : Pages,
         last : Records \cup {NoRecord}, more : BOOLEAN]

\* What is in hand are records of the entity, while they are stored.
PageInv ==
    \A w \in Workers :
        /\ DOMAIN sync[w].page \subseteq Of(sync[w].entity)
        /\ sync[w].pc # "upsert" => DOMAIN sync[w].page = {}
        /\ sync[w].pc \notin {"fetch", "upsert"} => sync[w].since = 0

TypeInv == TypeOK /\ sync \in [Workers -> Sync] /\ PageInv

\* The inductive invariant behind Mirrors: no page and no row is ahead of
\* Stripe.  Stripe has shown finitely many records at any time.
BehindStripe ==
    /\ \A r \in Records : copy[r] <= stage[r]
    /\ \A w \in Workers : \A r \in DOMAIN sync[w].page :
           sync[w].page[r] <= stage[r]
    /\ IsFiniteSet(Visible)

\* A sync does not start later than the overlap before a record Stripe has
\* shown.
SinceInv ==
    \A w \in Workers :
        \/ sync[w].since <= From
        \/ \E v \in Visible : sync[w].since + Overlap <= CreatedAt[v]

\* Record v is stored, or is about to be.
Seen(v) == copy[v] > 0 \/ \E w \in Workers : v \in DOMAIN sync[w].page

\* Record r is behind the cursor: that of the next sync, or of one that runs.
Passed(r) ==
    \/ \E v \in Of(EntityOf[r]) : Seen(v) /\ CreatedAt[v] > CreatedAt[r] + Overlap
    \/ \E w \in Workers :
           sync[w].entity = EntityOf[r] /\ CreatedAt[r] < sync[w].since

\* The inductive invariant behind NothingForgotten: what is behind the cursor
\* is still ahead of some sync.
AheadInv ==
    faults = {} =>
        /\ SinceInv
        /\ \A r \in Records :
               Missing(r) /\ Passed(r) => \E w \in Workers : Coming(w, r)
=============================================================================
