-------------------------- MODULE StripeSyncProofs --------------------------
(***************************************************************************)
(* Proofs about StripeSync, for any records, pages, workers and faults: it *)
(* implements Mirror, a paid payout's balance transactions are not left    *)
(* out, and no record falls behind the cursor unseen.                      *)
(***************************************************************************)
EXTENDS StripeSyncInv, TLAPS, FiniteSetTheorems, WellFoundedInduction

-----------------------------------------------------------------------------
(* Types *)

LEMMA EmptyPage == <<>> \in Pages /\ DOMAIN <<>> = {}
  <1>1. <<>> \in [{} -> 1..3] /\ DOMAIN <<>> = {}
    OBVIOUS
  <1> QED BY <1>1 DEF Pages

LEMMA SmallerPage ==
    ASSUME NEW page \in Pages, NEW S \in SUBSET DOMAIN page
    PROVE  /\ [s \in S |-> page[s]] \in Pages
           /\ DOMAIN [s \in S |-> page[s]] = S
           /\ \A s \in S : [x \in S |-> page[x]][s] = page[s]
  <1>1. PICK T \in SUBSET Records : page \in [T -> 1..3]
    BY DEF Pages
  <1>2. [s \in S |-> page[s]] \in [S -> 1..3] /\ S \in SUBSET Records
    BY <1>1
  <1> QED BY <1>2 DEF Pages

\* How the record of a worker changes in a step, and that of the others.
Others(w) == sync' = [sync EXCEPT ![w] = sync'[w]]

LEMMA OthersSame ==
    ASSUME TypeInv, NEW w \in Workers, Others(w)
    PROVE  \A v \in Workers : v # w => sync'[v] = sync[v]
  BY DEF Others, TypeInv

LEMMA SyncType ==
    ASSUME TypeInv, NEW w \in Workers
    PROVE  /\ sync[w] \in Sync
           /\ sync[w].pc \in PCs /\ sync[w].entity \in Entities
           /\ sync[w].since \in Nat /\ sync[w].page \in Pages
           /\ sync[w].last \in Records \cup {NoRecord} /\ sync[w].more \in BOOLEAN
           /\ DOMAIN sync[w].page \subseteq Of(sync[w].entity)
           /\ sync[w].pc # "upsert" => DOMAIN sync[w].page = {}
           /\ sync[w].pc \notin {"fetch", "upsert"} => sync[w].since = 0
           /\ \A r \in DOMAIN sync[w].page : sync[w].page[r] \in 1..3
  BY DEF TypeInv, TypeOK, Sync, PageInv

LEMMA BecomesMoves ==
    ASSUME TypeInv, NEW w \in Workers, NEW s, Becomes(w, s)
    PROVE  sync'[w] = s /\ Others(w)
  <1>1. sync' = [sync EXCEPT ![w] = s]
    BY DEF Becomes
  <1>2. sync'[w] = s
    BY <1>1 DEF TypeInv
  <1> QED BY <1>1, <1>2 DEF Others

\* A worker whose list plays no part any more.
Blank(s) ==
    /\ s \in Sync
    /\ s.pc \notin {"fetch", "upsert"} /\ s.since = 0 /\ DOMAIN s.page = {}

LEMMA OffFields ==
    \E page \in Pages :
        /\ DOMAIN page = {}
        /\ Off = [pc |-> "off", entity |-> "customers", since |-> 0,
                  page |-> page, last |-> NoRecord, more |-> FALSE]
  <1>1. PICK page : page = <<>>
    OBVIOUS
  <1> QED BY <1>1, EmptyPage DEF Off

LEMMA OffBlank == Blank(Off)
  <1>1. PICK page \in Pages :
            /\ DOMAIN page = {}
            /\ Off = [pc |-> "off", entity |-> "customers", since |-> 0,
                      page |-> page, last |-> NoRecord, more |-> FALSE]
    BY OffFields
  <1> QED BY <1>1 DEF Blank, Sync, PCs, Entities

LEMMA OffWith ==
    ASSUME NEW pc \in PCs \ {"fetch", "upsert"}, NEW e \in Entities
    PROVE  /\ Blank([Off EXCEPT !.pc = pc, !.entity = e])
           /\ [Off EXCEPT !.pc = pc, !.entity = e].pc = pc
  <1>1. PICK page \in Pages :
            /\ DOMAIN page = {}
            /\ Off = [pc |-> "off", entity |-> "customers", since |-> 0,
                      page |-> page, last |-> NoRecord, more |-> FALSE]
    BY OffFields
  <1> QED BY <1>1 DEF Blank, Sync

LEMMA GotoMoves ==
    ASSUME TypeInv, NEW w \in Workers, NEW pc \in PCs \ {"fetch", "upsert"}, Goto(w, pc)
    PROVE  Blank(sync'[w]) /\ Others(w) /\ sync'[w].pc = pc
  <1>1. PICK e, s : /\ e \in Entities
                    /\ s = [Off EXCEPT !.pc = pc, !.entity = e]
                    /\ Becomes(w, s)
    BY SyncType DEF Goto
  <1>2. Blank(s) /\ s.pc = pc
    BY <1>1, OffWith
  <1> QED BY <1>1, <1>2, BecomesMoves

LEMMA NextEntityMoves ==
    ASSUME TypeInv, NEW w \in Workers, NextEntity(w)
    PROVE  Blank(sync'[w]) /\ Others(w)
  <1>1. PICK s : /\ Becomes(w, s)
                 /\ s = CASE sync[w].entity = "customers" ->
                               [Off EXCEPT !.pc = "begin", !.entity = "charges"]
                          [] sync[w].entity = "charges" ->
                               [Off EXCEPT !.pc = "begin", !.entity = "payouts"]
                          [] OTHER -> Off
    BY DEF NextEntity
  <1>2. \/ s = [Off EXCEPT !.pc = "begin", !.entity = "charges"]
        \/ s = [Off EXCEPT !.pc = "begin", !.entity = "payouts"]
        \/ s = Off
    BY <1>1
  <1>3. /\ "begin" \in PCs \ {"fetch", "upsert"}
        /\ "charges" \in Entities /\ "payouts" \in Entities
    BY DEF PCs, Entities
  <1>4. Blank(s)
    BY <1>2, <1>3, OffWith, OffBlank
  <1> QED BY <1>1, <1>4, BecomesMoves

LEMMA CursorMoves ==
    ASSUME TypeInv, NEW w \in Workers, sync[w].pc = "cursor", NEW since \in Nat,
           Becomes(w, [sync[w] EXCEPT !.pc = "fetch", !.since = since])
    PROVE  /\ sync'[w] \in Sync /\ Others(w)
           /\ sync'[w].pc = "fetch" /\ sync'[w].entity = sync[w].entity
           /\ sync'[w].since = since /\ DOMAIN sync'[w].page = {}
  <1>1. sync'[w] = [sync[w] EXCEPT !.pc = "fetch", !.since = since] /\ Others(w)
    BY BecomesMoves
  <1>2. sync[w] \in Sync /\ DOMAIN sync[w].page = {}
    BY SyncType
  <1> QED BY <1>1, <1>2 DEF Sync, PCs

LEMMA FetchMoves ==
    ASSUME TypeInv, NEW w \in Workers, NEW page \in Pages, NEW more \in BOOLEAN,
           Becomes(w, [sync[w] EXCEPT !.pc = "upsert", !.page = page, !.more = more])
    PROVE  /\ sync'[w] \in Sync /\ Others(w)
           /\ sync'[w].pc = "upsert" /\ sync'[w].entity = sync[w].entity
           /\ sync'[w].since = sync[w].since /\ sync'[w].page = page
           /\ sync'[w].last = sync[w].last /\ sync'[w].more = more
  <1>1. /\ sync'[w] = [sync[w] EXCEPT !.pc = "upsert", !.page = page, !.more = more]
        /\ Others(w)
    BY BecomesMoves
  <1> QED BY <1>1, SyncType DEF Sync, PCs

\* A worker that is done with record r of its page.
LEMMA ConsumeMoves ==
    ASSUME TypeInv, NEW w \in Workers, sync[w].pc = "upsert",
           NEW r \in DOMAIN sync[w].page, Consume(w, r)
    PROVE  /\ sync'[w] \in Sync /\ Others(w)
           /\ \/ /\ DOMAIN sync[w].page = {r} /\ ~sync[w].more
                 /\ Blank(sync'[w])
              \/ /\ sync'[w].entity = sync[w].entity
                 /\ sync'[w].since = sync[w].since
                 /\ sync'[w].more = sync[w].more
                 /\ sync'[w].last = r
                 /\ DOMAIN sync'[w].page = DOMAIN sync[w].page \ {r}
                 /\ \A s \in DOMAIN sync'[w].page : sync'[w].page[s] = sync[w].page[s]
                 /\ \/ sync'[w].pc = "upsert" /\ DOMAIN sync'[w].page # {}
                    \/ sync'[w].pc = "fetch" /\ DOMAIN sync'[w].page = {}
  <1> DEFINE rest == DOMAIN sync[w].page \ {r}
             page == [s \in rest |-> sync[w].page[s]]
  <1>1. CASE rest = {} /\ ~sync[w].more
    <2>1. Goto(w, "finish")
      BY <1>1 DEF Consume
    <2> QED BY <1>1, <2>1, GotoMoves DEF PCs, Blank
  <1>2. CASE ~(rest = {} /\ ~sync[w].more)
    <2>1. PICK pc \in {"fetch", "upsert"} :
            /\ pc = IF rest = {} THEN "fetch" ELSE "upsert"
            /\ Becomes(w, [sync[w] EXCEPT !.pc = pc, !.page = page, !.last = r])
      BY <1>2 DEF Consume
    <2>2. /\ page \in Pages /\ DOMAIN page = rest
          /\ \A s \in rest : page[s] = sync[w].page[s]
      BY SmallerPage, SyncType
    <2>3. r \in Records
      BY SyncType DEF Of
    <2> HIDE DEF rest, page
    <2>4. sync'[w] = [sync[w] EXCEPT !.pc = pc, !.page = page, !.last = r] /\ Others(w)
      BY <2>1, BecomesMoves
    <2>5. /\ sync'[w] \in Sync
          /\ sync'[w].pc = pc /\ sync'[w].entity = sync[w].entity
          /\ sync'[w].since = sync[w].since /\ sync'[w].page = page
          /\ sync'[w].last = r /\ sync'[w].more = sync[w].more
      BY <2>2, <2>3, <2>4, SyncType DEF Sync, PCs
    <2> QED BY <2>1, <2>2, <2>4, <2>5 DEF rest
  <1> QED BY <1>1, <1>2

-----------------------------------------------------------------------------
(* The newest of finitely many records, and the first page of a list *)

LEMMA LeastNumber ==
    ASSUME NEW N \in SUBSET Nat, N # {}
    PROVE  \E n \in N : \A m \in N : n <= m
  <1>1. PICK R : R = OpToRel(<, Nat)
    OBVIOUS
  <1>2. \A m, n \in Nat : m < n => <<m, n>> \in R
    BY <1>1 DEF OpToRel
  <1>3. IsWellFoundedOn(R, Nat)
    BY <1>1, NatLessThanWellFounded
  <1>4. PICK n \in N : \A m \in N : ~ (<<m, n>> \in R)
    BY <1>3, WFMin
  <1>5. \A m \in N : ~ (m < n)
    BY <1>2, <1>4
  <1> QED BY <1>5

LEMMA CreatedAtNat == \A r \in Records : CreatedAt[r] \in Nat
  BY RecordsAssumption

Newer(S, r) == {s \in S : CreatedAt[s] > CreatedAt[r]}

LEMMA NewerFinite ==
    ASSUME NEW S \in SUBSET Records, IsFiniteSet(S), NEW r
    PROVE  Newer(S, r) \subseteq S /\ Cardinality(Newer(S, r)) \in Nat
  <1>1. Newer(S, r) \in SUBSET S
    BY DEF Newer
  <1> QED BY <1>1, FS_Subset, FS_CardinalityType

LEMMA NewerShrinks ==
    ASSUME NEW S \in SUBSET Records, IsFiniteSet(S), NEW r \in S, NEW s \in S,
           CreatedAt[r] < CreatedAt[s]
    PROVE  Cardinality(Newer(S, s)) < Cardinality(Newer(S, r))
  <1>1. Newer(S, s) \subseteq Newer(S, r) /\ s \in Newer(S, r) /\ s \notin Newer(S, s)
    BY CreatedAtNat DEF Newer
  <1>2. IsFiniteSet(Newer(S, r))
    BY FS_Subset DEF Newer
  <1>3. /\ Cardinality(Newer(S, s)) <= Cardinality(Newer(S, r))
        /\ Cardinality(Newer(S, s)) # Cardinality(Newer(S, r))
    BY <1>1, <1>2, FS_Subset
  <1> QED BY <1>3, NewerFinite

LEMMA HasNewest ==
    ASSUME NEW S \in SUBSET Records, IsFiniteSet(S), S # {}
    PROVE  \E r \in S : \A s \in S : CreatedAt[s] <= CreatedAt[r]
  <1> DEFINE N == {Cardinality(Newer(S, r)) : r \in S}
  <1>1. N \in SUBSET Nat /\ N # {}
    BY NewerFinite
  <1>2. PICK r \in S : \A s \in S : Cardinality(Newer(S, r)) <= Cardinality(Newer(S, s))
    <2> HIDE DEF N
    <2>1. PICK n \in N : \A m \in N : n <= m
      BY <1>1, LeastNumber
    <2> QED BY <2>1 DEF N
  <1>3. ASSUME NEW s \in S, CreatedAt[r] < CreatedAt[s] PROVE FALSE
    <2>1. Cardinality(Newer(S, s)) < Cardinality(Newer(S, r))
      BY <1>3, NewerShrinks
    <2> QED BY <1>2, <2>1, NewerFinite
  <1> QED BY <1>3, CreatedAtNat

\* The first page of a list is not empty unless the list is, and everything
\* on it is newer than what is left out.
LEMMA FirstPageFacts ==
    ASSUME NEW S \in SUBSET Records, IsFiniteSet(S)
    PROVE  /\ FirstPage(S) \subseteq S
           /\ S # {} => FirstPage(S) # {}
           /\ \A r \in S, s \in FirstPage(S) :
                  r \notin FirstPage(S) => CreatedAt[r] < CreatedAt[s]
  <1>1. FirstPage(S) = {r \in S : Cardinality(Newer(S, r)) < PageSize}
    BY DEF FirstPage, Newer
  <1>2. ASSUME S # {} PROVE FirstPage(S) # {}
    <2>1. PICK r \in S : \A s \in S : CreatedAt[s] <= CreatedAt[r]
      BY <1>2, HasNewest
    <2>2. Newer(S, r) = {}
      BY <2>1, CreatedAtNat DEF Newer
    <2>3. Cardinality(Newer(S, r)) = 0
      BY <2>2, FS_EmptySet
    <2> QED BY <1>1, <2>3, BoundsAssumption
  <1>3. ASSUME NEW r \in S, NEW s \in FirstPage(S), r \notin FirstPage(S),
               CreatedAt[s] <= CreatedAt[r]
        PROVE  FALSE
    <2>1. Newer(S, r) \subseteq Newer(S, s)
      BY <1>1, <1>3, CreatedAtNat DEF Newer
    <2>2. IsFiniteSet(Newer(S, s))
      BY FS_Subset DEF Newer
    <2>3. Cardinality(Newer(S, r)) <= Cardinality(Newer(S, s))
      BY <2>1, <2>2, FS_Subset
    <2> QED BY <1>1, <1>3, <2>3, NewerFinite, BoundsAssumption
  <1> QED BY <1>1, <1>2, <1>3, CreatedAtNat

\* What the cursor of a pull is.
LEMMA SinceFacts ==
    ASSUME TypeInv, BehindStripe, NEW e \in Entities
    PROVE  /\ Since(e) \in Nat
           /\ \/ Since(e) <= From
              \/ \E v \in Stored(e) : Since(e) + Overlap <= CreatedAt[v]
  <1>1. CASE Stored(e) = {}
    BY <1>1, BoundsAssumption DEF Since
  <1>2. CASE Stored(e) # {}
    <2>1. Stored(e) \subseteq Visible /\ Stored(e) \subseteq Records
      BY DEF Stored, Of, Visible, BehindStripe, TypeInv, TypeOK
    <2>2. IsFiniteSet(Stored(e))
      BY <2>1, FS_Subset DEF BehindStripe
    <2>3. Newest(Stored(e)) # {}
      BY <1>2, <2>1, <2>2, HasNewest DEF Newest
    <2>4. PICK v : v = CHOOSE r \in Newest(Stored(e)) : TRUE
      OBVIOUS
    <2>5. v \in Stored(e) /\ CreatedAt[v] \in Nat
      BY <2>1, <2>3, <2>4, CreatedAtNat DEF Newest
    <2>6. Since(e) = IF CreatedAt[v] > Overlap THEN CreatedAt[v] - Overlap ELSE 0
      BY <1>2, <2>4 DEF Since
    <2> QED BY <2>5, <2>6, BoundsAssumption
  <1> QED BY <1>1, <1>2

-----------------------------------------------------------------------------
(* Types, and that nothing is ahead of Stripe *)

LEMMA ListedFacts ==
    ASSUME TypeInv, BehindStripe, NEW w \in Workers
    PROVE  /\ Listed(w) \in SUBSET Records /\ IsFiniteSet(Listed(w))
           /\ Listed(w) \subseteq Of(sync[w].entity) \cap Visible
  <1>1. Listed(w) \subseteq Of(sync[w].entity) \cap Visible
    BY DEF Listed
  <1>2. IsFiniteSet(Visible) /\ Visible \subseteq Records
    BY DEF BehindStripe, Visible
  <1>3. Listed(w) \in SUBSET Visible
    BY <1>1
  <1> QED BY <1>1, <1>2, <1>3, FS_Subset

\* A page shows records as they are.
LEMMA FetchedPage ==
    ASSUME TypeInv, BehindStripe, NEW S \in SUBSET Visible
    PROVE  /\ [r \in S |-> stage[r]] \in Pages
           /\ DOMAIN [r \in S |-> stage[r]] = S
           /\ \A r \in S : /\ [s \in S |-> stage[s]][r] = stage[r]
                           /\ stage[r] \in 1..3
  <1>1. \A r \in S : stage[r] \in 1..3
    BY DEF Visible, TypeInv, TypeOK
  <1>2. S \in SUBSET Records
    BY DEF Visible
  <1>3. [r \in S |-> stage[r]] \in [S -> 1..3]
    BY <1>1
  <1> QED BY <1>1, <1>2, <1>3 DEF Pages

\* The steps of a worker, as far as its record goes.
FetchesPage(w, page) ==
    /\ sync[w].pc = "fetch"
    /\ page = FirstPage(Listed(w)) /\ page # {}
    /\ page \subseteq Listed(w)
    /\ sync'[w].pc = "upsert" /\ sync'[w].entity = sync[w].entity
    /\ sync'[w].since = sync[w].since
    /\ DOMAIN sync'[w].page = page
    /\ \A r \in page : sync'[w].page[r] = stage[r]
    /\ sync'[w].last = sync[w].last
    /\ sync'[w].more <=> page # Listed(w)

LEMMA FetchStep ==
    ASSUME TypeInv, BehindStripe, NEW w \in Workers, Fetch(w)
    PROVE  /\ sync'[w] \in Sync /\ Others(w)
           /\ UNCHANGED <<stage, copy, txns, pulls, status, refused>>
           /\ \/ Blank(sync'[w]) /\ FirstPage(Listed(w)) = {} /\ NoFault
              \/ Blank(sync'[w]) /\ Fault("stripe")
              \/ NoFault /\ FetchesPage(w, FirstPage(Listed(w)))
  <1>1. PICK page : page = FirstPage(Listed(w))
    OBVIOUS
  <1>2. page \subseteq Listed(w) /\ page \in SUBSET Visible
    BY <1>1, ListedFacts, FirstPageFacts
  <1>3. /\ [r \in page |-> stage[r]] \in Pages
        /\ DOMAIN [r \in page |-> stage[r]] = page
        /\ \A r \in page : [s \in page |-> stage[s]][r] = stage[r]
    BY <1>2, FetchedPage
  <1>4. CASE page = {} /\ Goto(w, "finish") /\ NoFault
    <2>1. Blank(sync'[w]) /\ Others(w)
      BY <1>4, GotoMoves DEF PCs
    <2> QED BY <1>1, <1>4, <2>1 DEF Fetch, Blank
  <1>6. CASE Goto(w, "error") /\ Fault("stripe")
    <2>1. Blank(sync'[w]) /\ Others(w)
      BY <1>6, GotoMoves DEF PCs
    <2> QED BY <1>6, <2>1 DEF Fetch, Blank
  <1>5. CASE /\ page # {} /\ NoFault
             /\ Becomes(w, [sync[w] EXCEPT !.pc = "upsert",
                                          !.page = [r \in page |-> stage[r]],
                                          !.more = page # Listed(w)])
    <2>1. PICK pg \in Pages, more \in BOOLEAN :
              /\ pg = [r \in page |-> stage[r]]
              /\ more <=> page # Listed(w)
              /\ Becomes(w, [sync[w] EXCEPT !.pc = "upsert", !.page = pg, !.more = more])
      BY <1>3, <1>5
    <2>2. /\ sync'[w] \in Sync /\ Others(w)
          /\ sync'[w].pc = "upsert" /\ sync'[w].entity = sync[w].entity
          /\ sync'[w].since = sync[w].since /\ sync'[w].page = pg
          /\ sync'[w].last = sync[w].last /\ sync'[w].more = more
      BY <2>1, FetchMoves
    <2> QED BY <1>1, <1>2, <1>3, <1>5, <2>1, <2>2 DEF Fetch, FetchesPage
  <1> QED BY <1>1, <1>4, <1>5, <1>6 DEF Fetch

LEMMA CursorStep ==
    ASSUME TypeInv, BehindStripe, NEW w \in Workers, ReadCursor(w)
    PROVE  /\ sync'[w] \in Sync /\ Others(w)
           /\ UNCHANGED <<stage, copy, txns, pulls, status, refused>>
           /\ sync'[w].pc = "fetch" /\ sync'[w].entity = sync[w].entity
           /\ DOMAIN sync'[w].page = {}
           /\ \/ NoFault /\ sync'[w].since = Since(sync[w].entity)
              \/ Fault("db")
  <1>1. PICK since : since \in {Since(sync[w].entity), From, StartOfYear} /\
            /\ Becomes(w, [sync[w] EXCEPT !.pc = "fetch", !.since = since])
            /\ \/ since = Since(sync[w].entity) /\ NoFault
               \/ Fault("db")
    BY DEF ReadCursor
  <1>2. since \in Nat
    BY <1>1, SyncType, SinceFacts, BoundsAssumption
  <1> QED BY <1>1, <1>2, CursorMoves DEF ReadCursor

\* The record of the page that is stored.
LEMMA StoreStep ==
    ASSUME TypeInv, NEW w \in Workers, Store(w)
    PROVE  \E r \in DOMAIN sync[w].page :
             /\ sync[w].pc = "upsert" /\ Consume(w, r)
             /\ r \in Records /\ EntityOf[r] = sync[w].entity
             /\ sync[w].page[r] \in 1..3
             /\ \A s \in DOMAIN sync[w].page : CreatedAt[s] <= CreatedAt[r]
             /\ UNCHANGED <<stage, txns, status>>
             /\ \/ /\ copy' = [copy EXCEPT ![r] = sync[w].page[r]]
                   /\ pulls' = IF Pulled(r, sync[w].page[r])
                               THEN [pulls EXCEPT ![r] = TxnsOf[r]]
                               ELSE pulls
                   /\ UNCHANGED refused /\ NoFault
                \/ UNCHANGED <<copy, pulls>> /\ refused' = refused \cup {r} /\ NoFault
                \/ UNCHANGED <<copy, pulls, refused>> /\ Fault("db")
  <1>1. PICK r \in Newest(DOMAIN sync[w].page) :
            /\ Consume(w, r)
            /\ \/ /\ copy' = [copy EXCEPT ![r] = sync[w].page[r]]
                  /\ pulls' = IF Pulled(r, sync[w].page[r])
                              THEN [pulls EXCEPT ![r] = TxnsOf[r]]
                              ELSE pulls
                  /\ UNCHANGED refused /\ NoFault
               \/ UNCHANGED <<copy, pulls>> /\ refused' = refused \cup {r} /\ NoFault
               \/ UNCHANGED <<copy, pulls, refused>> /\ Fault("db")
    BY DEF Store, Upsert
  <1> QED BY <1>1, SyncType DEF Store, Newest, Of

LEMMA FaultType ==
    ASSUME TypeInv, NoFault \/ \E kind \in FaultKinds : Fault(kind)
    PROVE  faults' \subseteq Faults /\ (faults' = {} => faults = {} /\ NoFault)
  BY DEF TypeInv, TypeOK, NoFault, Fault

\* A worker's step that leaves it with a good record keeps the types of all.
LEMMA SyncKept ==
    ASSUME TypeInv, NEW w \in Workers, Others(w), sync'[w] \in Sync,
           DOMAIN sync'[w].page \subseteq Of(sync'[w].entity),
           sync'[w].pc # "upsert" => DOMAIN sync'[w].page = {},
           sync'[w].pc \notin {"fetch", "upsert"} => sync'[w].since = 0
    PROVE  sync' \in [Workers -> Sync] /\ PageInv'
  <1>1. sync' \in [Workers -> Sync]
    BY DEF Others, TypeInv
  <1> QED BY <1>1, OthersSame DEF PageInv, TypeInv

LEMMA BlankKept ==
    ASSUME TypeInv, NEW w \in Workers, Others(w), Blank(sync'[w])
    PROVE  sync' \in [Workers -> Sync] /\ PageInv'
  BY SyncKept DEF Blank

\* What the records of the workers are in TypeOK follows.
LEMMA TypeOKKept ==
    ASSUME sync' \in [Workers -> Sync], PageInv',
           stage' \in [Records -> 0..3], copy' \in [Records -> 0..3],
           txns' \in [Payouts -> SUBSET Txns], pulls' \in [Payouts -> SUBSET Txns],
           status' \in [Entities -> {"idle", "running", "error"}],
           refused' \subseteq Records, faults' \subseteq Faults
    PROVE  TypeInv'
  <1>1. ASSUME NEW w \in Workers
        PROVE  \A r \in DOMAIN sync'[w].page : sync'[w].page[r] \in 1..3
    <2>1. sync'[w].page \in Pages
      BY DEF Sync
    <2> QED BY <2>1 DEF Pages
  <1>2. ASSUME NEW w \in Workers
        PROVE  /\ sync'[w].pc \in PCs /\ sync'[w].entity \in Entities
               /\ sync'[w].since \in Nat
               /\ sync'[w].last \in Records \cup {NoRecord}
               /\ sync'[w].more \in BOOLEAN
    BY DEF Sync
  <1> QED BY <1>1, <1>2 DEF TypeInv, TypeOK, PageInv

LEMMA TypeInvInit == Init => TypeInv
  <1> SUFFICES ASSUME Init PROVE TypeInv
    OBVIOUS
  <1>1. Off \in Sync /\ Off.pc \notin {"fetch", "upsert"} /\ Off.since = 0
        /\ DOMAIN Off.page = {}
    BY OffBlank DEF Blank
  <1>2. sync \in [Workers -> Sync] /\ PageInv
    BY <1>1 DEF Init, PageInv
  <1>3. ASSUME NEW w \in Workers
        PROVE  /\ sync[w].pc \in PCs /\ sync[w].entity \in Entities
               /\ sync[w].since \in Nat
               /\ sync[w].last \in Records \cup {NoRecord}
               /\ sync[w].more \in BOOLEAN
               /\ DOMAIN sync[w].page = {}
    BY <1>1, <1>2 DEF Init, Sync
  <1> QED BY <1>2, <1>3 DEF Init, TypeInv, TypeOK

LEMMA StatusType ==
    ASSUME TypeInv, NEW w \in Workers, NEW s \in {"idle", "running", "error"},
           SetStatus(w, s)
    PROVE  status' \in [Entities -> {"idle", "running", "error"}]
  BY DEF TypeInv, TypeOK, SetStatus

LEMMA TypeInvNext == TypeInv /\ BehindStripe /\ [Next]_vars => TypeInv'
  <1> SUFFICES ASSUME TypeInv, BehindStripe, [Next]_vars PROVE TypeInv'
    OBVIOUS
  <1> USE DEF FaultKinds, stripeVars
  <1>0. TypeOK /\ sync \in [Workers -> Sync] /\ PageInv
    BY DEF TypeInv
  <1>1. ASSUME NEW w \in Workers, StartSync(w) PROVE TypeInv'
    <2>1. Blank(sync'[w]) /\ Others(w)
      BY <1>1, GotoMoves DEF StartSync, PCs
    <2> QED BY <1>0, <1>1, <2>1, BlankKept, FaultType, TypeOKKept DEF StartSync, TypeOK
  <1>2. ASSUME NEW w \in Workers, Begin(w) PROVE TypeInv'
    <2>1. Blank(sync'[w]) /\ Others(w)
      BY <1>2, GotoMoves, NextEntityMoves DEF Begin, PCs
    <2>2. /\ status' \in [Entities -> {"idle", "running", "error"}]
          /\ faults' \subseteq Faults
      BY <1>0, <1>2, StatusType, FaultType DEF Begin, TypeOK
    <2> QED BY <1>0, <1>2, <2>1, <2>2, BlankKept, TypeOKKept DEF Begin, TypeOK
  <1>3. ASSUME NEW w \in Workers, ReadCursor(w) PROVE TypeInv'
    <2>1. sync' \in [Workers -> Sync] /\ PageInv'
      BY <1>3, CursorStep, SyncKept
    <2>2. faults' \subseteq Faults
      BY <1>3, CursorStep, FaultType
    <2> QED BY <1>0, <1>3, <2>1, <2>2, TypeOKKept DEF ReadCursor, TypeOK
  <1>4. ASSUME NEW w \in Workers, Fetch(w) PROVE TypeInv'
    <2>1. sync' \in [Workers -> Sync] /\ PageInv'
      <3>1. CASE Blank(sync'[w])
        BY <1>4, <3>1, FetchStep, BlankKept
      <3>2. CASE FetchesPage(w, FirstPage(Listed(w)))
        BY <1>4, <3>2, FetchStep, SyncKept, ListedFacts DEF FetchesPage
      <3> QED BY <1>4, <3>1, <3>2, FetchStep
    <2>2. faults' \subseteq Faults
      BY <1>4, FetchStep, FaultType
    <2> QED BY <1>0, <1>4, <2>1, <2>2, TypeOKKept DEF Fetch, TypeOK
  <1>5. ASSUME NEW w \in Workers, Store(w) PROVE TypeInv'
    <2>1. PICK r \in DOMAIN sync[w].page :
             /\ sync[w].pc = "upsert" /\ Consume(w, r)
             /\ r \in Records /\ EntityOf[r] = sync[w].entity
             /\ sync[w].page[r] \in 1..3
             /\ UNCHANGED <<stage, txns, status>>
             /\ \/ /\ copy' = [copy EXCEPT ![r] = sync[w].page[r]]
                   /\ pulls' = IF Pulled(r, sync[w].page[r])
                               THEN [pulls EXCEPT ![r] = TxnsOf[r]]
                               ELSE pulls
                   /\ UNCHANGED refused /\ NoFault
                \/ UNCHANGED <<copy, pulls>> /\ refused' = refused \cup {r} /\ NoFault
                \/ UNCHANGED <<copy, pulls, refused>> /\ Fault("db")
      BY <1>5, StoreStep
    <2>2. sync' \in [Workers -> Sync] /\ PageInv'
      <3>1. sync'[w] \in Sync /\ Others(w)
        BY <2>1, ConsumeMoves
      <3>2. CASE Blank(sync'[w])
        BY <3>1, <3>2, BlankKept
      <3>3. CASE ~Blank(sync'[w])
        <4>1. /\ sync'[w].entity = sync[w].entity
              /\ DOMAIN sync'[w].page = DOMAIN sync[w].page \ {r}
              /\ \/ sync'[w].pc = "upsert"
                 \/ sync'[w].pc = "fetch" /\ DOMAIN sync'[w].page = {}
          BY <2>1, <3>3, ConsumeMoves
        <4> QED BY <3>1, <4>1, SyncType, SyncKept
      <3> QED BY <3>2, <3>3
    <2>3. faults' \subseteq Faults
      BY <2>1, FaultType
    <2>4. copy' \in [Records -> 0..3] /\ refused' \subseteq Records
      BY <1>0, <2>1 DEF TypeOK
    <2>5. pulls' \in [Payouts -> SUBSET Txns]
      BY <1>0, <2>1, TxnsAssumption DEF TypeOK, Pulled
    <2> QED BY <1>0, <2>1, <2>2, <2>3, <2>4, <2>5, TypeOKKept DEF TypeOK
  <1>6. ASSUME NEW w \in Workers, ReportError(w) \/ Finish(w) PROVE TypeInv'
    <2>1. Blank(sync'[w]) /\ Others(w)
      BY <1>6, GotoMoves, NextEntityMoves DEF ReportError, Finish, PCs
    <2>2. /\ status' \in [Entities -> {"idle", "running", "error"}]
          /\ faults' \subseteq Faults
      BY <1>0, <1>6, StatusType, FaultType DEF ReportError, Finish, FinalStatus, TypeOK
    <2> QED BY <1>0, <1>6, <2>1, <2>2, BlankKept, TypeOKKept
            DEF ReportError, Finish, TypeOK
  <1>7. ASSUME NEW p \in Payouts, Pull(p) PROVE TypeInv'
    <2>1. faults' \subseteq Faults
      BY <1>7, FaultType DEF Pull
    <2>2. pulls' \in [Payouts -> SUBSET Txns] /\ txns' \in [Payouts -> SUBSET Txns]
      BY <1>0, <1>7 DEF Pull, TypeOK
    <2> QED BY <1>0, <1>7, <2>1, <2>2, TypeOKKept DEF Pull, TypeOK, PageInv
  <1>8. ASSUME NEW r \in Records, Advance(r) PROVE TypeInv'
    <2>1. stage' \in [Records -> 0..3]
      <3>1. stage \in [Records -> 0..3] /\ LastStage[r] \in 1..3
        BY <1>0, RecordsAssumption DEF TypeOK
      <3>2. stage[r] < LastStage[r] /\ stage' = [stage EXCEPT ![r] = @ + 1]
        BY <1>8 DEF Advance
      <3>3. stage[r] + 1 \in 0..3
        BY <3>1, <3>2
      <3> QED BY <3>1, <3>2, <3>3
    <2> QED BY <1>0, <1>8, <2>1, TypeOKKept DEF Advance, NoFault, TypeOK, PageInv
  <1>9. CASE Crash
    <2>1. /\ \A w \in Workers : sync'[w] = Off
          /\ sync' \in [Workers -> Sync]
      BY <1>9, OffBlank DEF Crash, Blank
    <2>2. PageInv'
      BY <2>1, OffBlank DEF Blank, PageInv
    <2>3. faults' \subseteq Faults /\ pulls' \in [Payouts -> SUBSET Txns]
      BY <1>9, FaultType DEF Crash
    <2> QED BY <1>0, <1>9, <2>1, <2>2, <2>3, TypeOKKept DEF Crash, TypeOK
  <1>10. CASE UNCHANGED vars
    <2>1. sync' \in [Workers -> Sync] /\ PageInv'
      BY <1>0, <1>10 DEF vars, PageInv
    <2> QED BY <1>0, <1>10, <2>1, TypeOKKept DEF vars, TypeOK
  <1> QED BY <1>1, <1>2, <1>3, <1>4, <1>5, <1>6, <1>7, <1>8, <1>9, <1>10
          DEF Next, Continue

LEMMA BehindInit == Init => BehindStripe
  <1> SUFFICES ASSUME Init PROVE BehindStripe
    OBVIOUS
  <1>1. Visible = {}
    BY DEF Init, Visible
  <1>2. IsFiniteSet(Visible)
    BY <1>1, FS_EmptySet
  <1>3. \A w \in Workers : DOMAIN sync[w].page = {}
    BY OffBlank DEF Init, Blank
  <1> QED BY <1>2, <1>3 DEF Init, BehindStripe

\* Stripe alone moves; what is in hand and what is stored stays behind it.
LEMMA BehindNext == TypeInv /\ BehindStripe /\ [Next]_vars => BehindStripe'
  <1> SUFFICES ASSUME TypeInv, BehindStripe, [Next]_vars PROVE BehindStripe'
    OBVIOUS
  <1>0. /\ \A r \in Records : copy[r] \in 0..3 /\ stage[r] \in 0..3
        /\ \A r \in Records : copy[r] <= stage[r]
        /\ \A w \in Workers : \A r \in DOMAIN sync[w].page :
               r \in Records /\ sync[w].page[r] <= stage[r]
        /\ IsFiniteSet(Visible)
    BY SyncType DEF BehindStripe, TypeInv, TypeOK, Of
  <1>a. ASSUME NEW w \in Workers, Others(w), UNCHANGED stage,
               \A r \in Records : copy'[r] <= stage[r],
               \A r \in DOMAIN sync'[w].page : sync'[w].page[r] <= stage[r]
        PROVE  BehindStripe'
    <2>1. \A v \in Workers : \A r \in DOMAIN sync'[v].page : sync'[v].page[r] <= stage[r]
      BY <1>0, <1>a, OthersSame
    <2> QED BY <1>0, <1>a, <2>1 DEF BehindStripe, Visible
  <1>1. ASSUME NEW w \in Workers,
               StartSync(w) \/ Begin(w) \/ ReportError(w) \/ Finish(w)
        PROVE  BehindStripe'
    <2>1. Blank(sync'[w]) /\ Others(w)
      BY <1>1, GotoMoves, NextEntityMoves
         DEF StartSync, Begin, ReportError, Finish, PCs
    <2>2. UNCHANGED <<stage, copy>>
      BY <1>1 DEF StartSync, Begin, ReportError, Finish
    <2> QED BY <1>0, <1>a, <2>1, <2>2 DEF Blank
  <1>2. ASSUME NEW w \in Workers, ReadCursor(w) PROVE BehindStripe'
    BY <1>0, <1>2, <1>a, CursorStep
  <1>3. ASSUME NEW w \in Workers, Fetch(w) PROVE BehindStripe'
    <2>1. \A r \in DOMAIN sync'[w].page : r \in Records /\ sync'[w].page[r] <= stage[r]
      BY <1>0, <1>3, FetchStep, ListedFacts DEF FetchesPage, Blank
    <2> QED BY <1>0, <1>3, <1>a, <2>1, FetchStep
  <1>4. ASSUME NEW w \in Workers, Store(w) PROVE BehindStripe'
    <2>1. PICK r \in DOMAIN sync[w].page :
             /\ sync[w].pc = "upsert" /\ Consume(w, r) /\ r \in Records
             /\ UNCHANGED stage
             /\ copy' = [copy EXCEPT ![r] = sync[w].page[r]] \/ UNCHANGED copy
      BY <1>4, StoreStep
    <2>2. \A s \in Records : copy'[s] <= stage[s]
      BY <1>0, <2>1 DEF TypeInv, TypeOK
    <2>3. /\ Others(w)
          /\ \A s \in DOMAIN sync'[w].page : sync'[w].page[s] <= stage[s]
      BY <1>0, <2>1, ConsumeMoves DEF Blank
    <2> QED BY <1>a, <2>1, <2>2, <2>3
  <1>5. ASSUME NEW r \in Records, Advance(r) PROVE BehindStripe'
    <2>1. /\ UNCHANGED <<copy, sync>>
          /\ \A s \in Records : s # r => stage'[s] = stage[s]
          /\ stage'[r] = stage[r] + 1
      BY <1>0, <1>5 DEF Advance, stripeVars, TypeInv, TypeOK
    <2>2. Visible' \in SUBSET (Visible \cup {r})
      BY <2>1 DEF Visible
    <2>3. IsFiniteSet(Visible')
      BY <1>0, <2>2, FS_AddElement, FS_Subset
    <2>4. \A s \in Records : stage[s] <= stage'[s] /\ stage'[s] \in Nat
      BY <1>0, <2>1
    <2>5. \A s \in Records : copy'[s] <= stage'[s]
      BY <1>0, <2>1, <2>4
    <2>6. \A w \in Workers : \A s \in DOMAIN sync'[w].page : sync'[w].page[s] <= stage'[s]
      <3> SUFFICES ASSUME NEW w \in Workers, NEW s \in DOMAIN sync[w].page
                   PROVE  sync[w].page[s] <= stage'[s]
        BY <2>1
      <3>1. sync[w].page[s] \in 1..3 /\ s \in Records /\ sync[w].page[s] <= stage[s]
        BY <1>0, SyncType
      <3> QED BY <1>0, <2>4, <3>1
    <2> QED BY <2>3, <2>5, <2>6 DEF BehindStripe
  <1>6. CASE Crash
    <2>1. /\ \A w \in Workers : DOMAIN sync'[w].page = {}
          /\ UNCHANGED <<stage, copy>>
      BY <1>6, OffBlank DEF Crash, Blank
    <2> QED BY <1>0, <2>1 DEF BehindStripe, Visible
  <1>7. CASE (\E p \in Payouts : Pull(p)) \/ UNCHANGED vars
    <2>1. UNCHANGED <<stage, copy, sync>>
      BY <1>7 DEF Pull, vars
    <2> QED BY <1>0, <2>1 DEF BehindStripe, Visible
  <1> QED BY <1>1, <1>2, <1>3, <1>4, <1>5, <1>6, <1>7 DEF Next, Continue

LEMMA TypeInvariant == Spec => [](TypeInv /\ BehindStripe)
  BY TypeInvInit, BehindInit, TypeInvNext, BehindNext, PTL DEF Spec

\* Every behaviour is type-correct: a page holds records of the entity that
\* is synced, each in a stage it has been in (sync.go:91-103).
THEOREM TypeCorrect == Spec => []TypeOK
  BY TypeInvariant, PTL DEF TypeInv

-----------------------------------------------------------------------------
(* The copy *)

\* The tables implement the abstract mirror: every step is one of its steps
\* or changes neither Stripe nor the copy, for any records, page size,
\* goroutines and faults (the upserts of queries.sql.go, README.md:30).
THEOREM StripeIsMirrored == Spec => Mirrors
  <1>1. Init => Source!Init
    BY DEF Init, Source!Init
  <1>2. TypeInv /\ BehindStripe /\ [Next]_vars => [Source!Next]_(Source!vars)
    <2> SUFFICES ASSUME TypeInv, BehindStripe, [Next]_vars
                 PROVE  Source!Next \/ UNCHANGED <<stage, copy>>
      BY DEF Source!vars
    <2>1. ASSUME NEW w \in Workers, Store(w)
          PROVE  Source!Next \/ UNCHANGED <<stage, copy>>
      <3>1. PICK r \in DOMAIN sync[w].page :
               /\ r \in Records /\ UNCHANGED stage
               /\ sync[w].page[r] \in 1..3
               /\ copy' = [copy EXCEPT ![r] = sync[w].page[r]] \/ UNCHANGED copy
        BY <2>1, StoreStep
      <3>2. sync[w].page[r] \in 1..stage[r]
        BY <3>1 DEF BehindStripe, TypeInv, TypeOK
      <3> QED BY <3>1, <3>2 DEF Source!Next, Source!CopyRecord
    <2>2. ASSUME NEW r \in Records, Advance(r) PROVE Source!Next
      BY <2>2 DEF Advance, stripeVars, Source!Next, Source!Advance
    <2>3. ASSUME NEW w \in Workers, StartSync(w) \/ Continue(w), ~Store(w)
          PROVE  UNCHANGED <<stage, copy>>
      BY <2>3 DEF Continue, StartSync, Begin, ReadCursor, Fetch, ReportError, Finish
    <2>4. CASE Crash \/ (\E p \in Payouts : Pull(p)) \/ UNCHANGED vars
      BY <2>4 DEF Crash, Pull, vars
    <2> QED BY <2>1, <2>2, <2>3, <2>4 DEF Next, Continue
  <1> QED BY <1>1, <1>2, TypeInvariant, PTL DEF Spec, Mirrors, Source!Spec

-----------------------------------------------------------------------------
(* The balance transactions of a paid payout *)

LEMMA PulledNext ==
    TypeInv /\ BehindStripe /\ PaidIsPulled /\ [Next]_vars => PaidIsPulled'
  <1> SUFFICES ASSUME TypeInv, BehindStripe, PaidIsPulled, [Next]_vars,
                      faults' = {}, NEW p \in Payouts, copy'[p] = Paid
               PROVE  TxnsOf[p] \subseteq txns'[p] \cup pulls'[p]
    BY DEF PaidIsPulled
  <1>0. /\ txns \in [Payouts -> SUBSET Txns] /\ pulls \in [Payouts -> SUBSET Txns]
        /\ copy \in [Records -> 0..3] /\ p \in Records
        /\ faults = {} /\ copy[p] = Paid => TxnsOf[p] \subseteq txns[p] \cup pulls[p]
    BY DEF TypeInv, TypeOK, PaidIsPulled, Payouts, Of
  <1>1. ASSUME NEW w \in Workers, Store(w) PROVE TxnsOf[p] \subseteq txns'[p] \cup pulls'[p]
    <2>1. PICK r \in DOMAIN sync[w].page :
             /\ r \in Records /\ UNCHANGED txns
             /\ \/ /\ copy' = [copy EXCEPT ![r] = sync[w].page[r]]
                   /\ pulls' = IF Pulled(r, sync[w].page[r])
                               THEN [pulls EXCEPT ![r] = TxnsOf[r]]
                               ELSE pulls
                   /\ NoFault
                \/ UNCHANGED <<copy, pulls>> /\ NoFault
      BY <1>1, StoreStep DEF Fault
    <2>2. CASE r = p /\ copy'[p] # copy[p]
      BY <1>0, <2>1, <2>2 DEF Pulled
    <2>3. CASE copy'[p] = copy[p]
      <3>1. pulls'[p] = pulls[p] \/ pulls'[p] = TxnsOf[p]
        BY <1>0, <2>1
      <3> QED BY <1>0, <2>1, <2>3, <3>1 DEF NoFault
    <2>4. r # p => copy'[p] = copy[p]
      BY <1>0, <2>1
    <2> QED BY <2>2, <2>3, <2>4
  <1>2. ASSUME NEW q \in Payouts, Pull(q)
        PROVE  TxnsOf[p] \subseteq txns'[p] \cup pulls'[p]
    <2>1. /\ UNCHANGED copy
          /\ \E t \in pulls[q] : /\ pulls' = [pulls EXCEPT ![q] = @ \ {t}]
                                 /\ txns' = [txns EXCEPT ![q] = @ \cup {t}]
                                 /\ NoFault
      BY <1>2 DEF Pull, Fault
    <2>2. txns[p] \cup pulls[p] \subseteq txns'[p] \cup pulls'[p]
      BY <1>0, <2>1
    <2> QED BY <1>0, <2>1, <2>2 DEF NoFault
  <1>3. ASSUME NEW w \in Workers, StartSync(w) \/ Continue(w), ~Store(w)
        PROVE  TxnsOf[p] \subseteq txns'[p] \cup pulls'[p]
    <2>1. UNCHANGED <<copy, txns, pulls>>
      BY <1>3 DEF Continue, StartSync, Begin, ReadCursor, Fetch, ReportError, Finish
    <2>2. faults = {}
      BY <1>3 DEF Continue, StartSync, Begin, ReadCursor, Fetch, ReportError, Finish,
                  Fault, NoFault
    <2> QED BY <1>0, <2>1, <2>2
  <1>4. CASE Crash
    BY <1>4 DEF Crash, Fault
  <1>5. CASE (\E r \in Records : Advance(r)) \/ UNCHANGED vars
    <2>1. UNCHANGED <<copy, txns, pulls, faults>>
      BY <1>5 DEF Advance, stripeVars, NoFault, vars
    <2> QED BY <1>0, <2>1
  <1> QED BY <1>1, <1>2, <1>3, <1>4, <1>5 DEF Next, Continue

\* While nothing fails, the balance transactions of every payout stored as
\* paid are stored or some goroutine has them to store, for any records and
\* goroutines (sync.go:182-188).
THEOREM PaidPayoutIsPulled == Spec => []PaidIsPulled
  <1>1. Init => PaidIsPulled
    BY DEF Init, PaidIsPulled, Paid, Payouts, Of
  <1> QED BY <1>1, PulledNext, TypeInvariant, PTL DEF Spec

-----------------------------------------------------------------------------
(* Records behind the cursor *)

\* What a step without a fault leaves as it is.
LEMMA NoFaultStep ==
    ASSUME TypeInv, [Next]_vars, faults' = {}
    PROVE  /\ faults = {} /\ NoFault /\ ~Crash
           /\ \A r \in Records : r \in Visible => r \in Visible'
  <1>1. faults = {} /\ NoFault /\ ~Crash
    BY DEF Next, Continue, StartSync, Begin, ReadCursor, Fetch, Store, ReportError, Finish,
           Pull, Advance, Crash, vars, Fault, NoFault
  <1>2. \/ UNCHANGED stage
        \/ \E r \in Records : stage' = [stage EXCEPT ![r] = @ + 1]
    BY DEF Next, Continue, StartSync, Begin, ReadCursor, Fetch, Store, ReportError, Finish,
           Pull, Advance, Crash, vars
  <1>3. \A r \in Records : r \in Visible => r \in Visible'
    BY <1>2 DEF Visible, TypeInv, TypeOK
  <1> QED BY <1>1, <1>3

LEMMA ComingFacts ==
    ASSUME TypeInv, NEW w \in Workers, NEW r \in Records, Coming(w, r)
    PROVE  /\ sync[w].pc \in {"fetch", "upsert"} /\ sync[w].entity = EntityOf[r]
           /\ \/ r \in DOMAIN sync[w].page
              \/ sync[w].pc = "fetch" /\ r \in Listed(w)
              \/ /\ sync[w].pc = "upsert" /\ sync[w].more
                 /\ CreatedAt[r] >= sync[w].since
                 /\ \A s \in DOMAIN sync[w].page : CreatedAt[r] < CreatedAt[s]
  BY SyncType DEF Coming

LEMMA ComingStays ==
    ASSUME TypeInv, NEW w \in Workers, NEW r \in Records, Coming(w, r),
           sync'[w] = sync[w], r \in Visible => r \in Visible'
    PROVE  Coming(w, r)'
  BY DEF Coming, Listed

LEMMA ComingFetched ==
    ASSUME TypeInv, BehindStripe, NEW w \in Workers, NEW r \in Listed(w),
           FetchesPage(w, FirstPage(Listed(w))), r \in Visible => r \in Visible'
    PROVE  Coming(w, r)'
  <1>1. PICK page : page = FirstPage(Listed(w))
    OBVIOUS
  <1>2. /\ sync'[w].pc = "upsert" /\ sync'[w].entity = sync[w].entity
        /\ sync'[w].since = sync[w].since /\ DOMAIN sync'[w].page = page
        /\ sync'[w].more <=> page # Listed(w)
    BY <1>1 DEF FetchesPage
  <1>3. /\ EntityOf[r] = sync[w].entity /\ r \in Records
        /\ CreatedAt[r] >= sync[w].since
    BY DEF Listed, Of
  <1>4. CASE r \in page
    BY <1>2, <1>3, <1>4 DEF Coming
  <1>5. CASE r \notin page
    <2>1. \A s \in page : CreatedAt[r] < CreatedAt[s]
      BY <1>1, <1>5, ListedFacts, FirstPageFacts
    <2>2. page # Listed(w)
      BY <1>5
    <2> QED BY <1>2, <1>3, <2>1, <2>2 DEF Coming
  <1> QED BY <1>4, <1>5

\* What a sync has ahead of it, it has ahead of it until the record is stored
\* or refused.
LEMMA ComingPersists ==
    ASSUME TypeInv, BehindStripe, [Next]_vars, faults' = {},
           NEW w \in Workers, NEW r \in Records, Coming(w, r), Missing(r)'
    PROVE  Coming(w, r)'
  <1>0. /\ sync[w].pc \in {"fetch", "upsert"} /\ sync[w].entity = EntityOf[r]
        /\ NoFault /\ ~Crash /\ faults = {}
        /\ r \in Visible => r \in Visible'
    BY ComingFacts, NoFaultStep
  <1>1. CASE Fetch(w)
    <2>1. r \in Listed(w)
      BY <1>1, ComingFacts, SyncType DEF Fetch
    <2>2. FirstPage(Listed(w)) # {}
      BY <2>1, ListedFacts, FirstPageFacts
    <2>3. FetchesPage(w, FirstPage(Listed(w)))
      BY <1>0, <1>1, <2>2, FetchStep DEF Fault, NoFault
    <2> QED BY <1>0, <2>1, <2>3, ComingFetched
  <1>2. CASE Store(w)
    <2>1. PICK s \in DOMAIN sync[w].page :
             /\ sync[w].pc = "upsert" /\ Consume(w, s)
             /\ s \in Records /\ EntityOf[s] = sync[w].entity
             /\ sync[w].page[s] \in 1..3
             /\ \/ copy' = [copy EXCEPT ![s] = sync[w].page[s]]
                \/ refused' = refused \cup {s}
      BY <1>0, <1>2, StoreStep DEF Fault, NoFault
    <2>2. r # s
      BY <2>1 DEF Missing, TypeInv, TypeOK
    <2>3. \/ r \in DOMAIN sync[w].page
          \/ /\ sync[w].more /\ CreatedAt[r] >= sync[w].since
             /\ \A q \in DOMAIN sync[w].page : CreatedAt[r] < CreatedAt[q]
      BY <2>1, ComingFacts
    <2>4. /\ sync'[w].entity = sync[w].entity
          /\ sync'[w].since = sync[w].since
          /\ sync'[w].more = sync[w].more
          /\ sync'[w].last = s
          /\ DOMAIN sync'[w].page = DOMAIN sync[w].page \ {s}
          /\ \/ sync'[w].pc = "upsert" /\ DOMAIN sync'[w].page # {}
             \/ sync'[w].pc = "fetch" /\ DOMAIN sync'[w].page = {}
      BY <2>1, <2>2, <2>3, ConsumeMoves
    <2>5. CASE r \in DOMAIN sync[w].page
      BY <1>0, <2>2, <2>4, <2>5 DEF Coming
    <2>6. CASE r \notin DOMAIN sync[w].page /\ sync'[w].pc = "upsert"
      BY <1>0, <2>3, <2>4, <2>6 DEF Coming
    <2>7. CASE r \notin DOMAIN sync[w].page /\ sync'[w].pc = "fetch"
      <3>1. r \in Visible'
        BY DEF Missing
      <3>2. r \in Listed(w)'
        BY <1>0, <2>1, <2>3, <2>4, <2>7, <3>1 DEF Listed, Of
      <3> QED BY <1>0, <2>4, <2>7, <3>2 DEF Coming
    <2> QED BY <2>4, <2>5, <2>6, <2>7
  <1>3. CASE sync'[w] = sync[w]
    BY <1>0, <1>3, ComingStays
  <1>4. ASSUME ~Fetch(w), ~Store(w) PROVE sync'[w] = sync[w]
    <2>1. ~StartSync(w) /\ ~Continue(w)
      BY <1>0, <1>4, OffBlank
         DEF StartSync, Continue, Begin, ReadCursor, ReportError, Finish, Blank
    <2>2. ASSUME NEW v \in Workers, StartSync(v) \/ Continue(v)
          PROVE  Others(v)
      <3>1. CASE StartSync(v) \/ Begin(v) \/ ReportError(v) \/ Finish(v)
        BY <3>1, GotoMoves, NextEntityMoves
           DEF StartSync, Begin, ReportError, Finish, PCs
      <3>2. CASE ReadCursor(v) \/ Fetch(v)
        BY <3>2, CursorStep, FetchStep
      <3>3. CASE Store(v)
        BY <3>3, StoreStep, ConsumeMoves
      <3> QED BY <2>2, <3>1, <3>2, <3>3 DEF Continue
    <2>3. CASE \E v \in Workers : StartSync(v) \/ Continue(v)
      BY <2>1, <2>2, <2>3, OthersSame
    <2>4. CASE (\E p \in Payouts : Pull(p)) \/ (\E q \in Records : Advance(q))
               \/ UNCHANGED vars
      BY <2>4 DEF Pull, Advance, stripeVars, vars
    <2> QED BY <1>0, <2>3, <2>4 DEF Next
  <1> QED BY <1>1, <1>2, <1>3, <1>4

\* A record Stripe shows now is not behind any cursor: Stripe shows it at most
\* the overlap later than one created after it.
LEMMA NewIsNotPassed ==
    ASSUME TypeInv, BehindStripe, SinceInv, Lag <= Overlap,
           NEW r \in Records, CreatedAt[r] >= From, Appears(r)
    PROVE  ~Passed(r)
  <1>0. /\ CreatedAt[r] \in Nat /\ From \in Nat /\ Lag \in Nat /\ Overlap \in Nat
        /\ \A v \in Visible : CreatedAt[v] \in Nat /\ CreatedAt[v] <= CreatedAt[r] + Lag
    BY CreatedAtNat, BoundsAssumption DEF Appears, Visible
  <1>1. ASSUME NEW v \in Of(EntityOf[r]), Seen(v), CreatedAt[v] > CreatedAt[r] + Overlap
        PROVE  FALSE
    <2>1. v \in Visible
      <3>1. v \in Records /\ copy[v] \in 0..3 /\ stage[v] \in 0..3
        BY DEF Of, TypeInv, TypeOK
      <3>2. CASE copy[v] > 0
        BY <3>1, <3>2 DEF BehindStripe, Visible
      <3>3. ASSUME NEW w \in Workers, v \in DOMAIN sync[w].page PROVE v \in Visible
        <4>1. sync[w].page[v] \in 1..3 /\ sync[w].page[v] <= stage[v]
          BY <3>3, SyncType DEF BehindStripe
        <4> QED BY <3>1, <4>1 DEF Visible
      <3> QED BY <1>1, <3>2, <3>3 DEF Seen
    <2> QED BY <1>0, <1>1, <2>1
  <1>2. ASSUME NEW w \in Workers, CreatedAt[r] < sync[w].since PROVE FALSE
    <2>1. sync[w].since \in Nat /\ ~(sync[w].since <= From)
      BY <1>0, <1>2, SyncType
    <2>2. PICK v \in Visible : sync[w].since + Overlap <= CreatedAt[v]
      BY <2>1 DEF SinceInv
    <2> QED BY <1>0, <1>2, <2>1, <2>2
  <1> QED BY <1>1, <1>2 DEF Passed

\* A step of a worker puts no record behind the cursor that it has not ahead
\* of itself.
LEMMA PassedBefore ==
    ASSUME TypeInv, BehindStripe, NEW w \in Workers, StartSync(w) \/ Continue(w),
           faults = {}, NoFault, NEW r \in Records, Missing(r), Passed(r)'
    PROVE  Passed(r) \/ Coming(w, r)'
  <1>0. /\ CreatedAt[r] \in Nat /\ From \in Nat /\ Overlap \in Nat
        /\ From <= CreatedAt[r] /\ r \in Visible
        /\ copy \in [Records -> 0..3]
    BY CreatedAtNat, BoundsAssumption DEF Missing, TypeInv, TypeOK
  <1>a. ASSUME Others(w), UNCHANGED copy,
               DOMAIN sync'[w].page \subseteq DOMAIN sync[w].page,
               \/ sync'[w].since = 0
               \/ /\ sync'[w].since = sync[w].since
                  /\ sync'[w].entity = sync[w].entity
        PROVE  Passed(r)
    <2>1. \A v : Seen(v)' => Seen(v)
      BY <1>a, OthersSame DEF Seen
    <2>2. \A v \in Workers : sync'[v].entity = EntityOf[r] /\ CreatedAt[r] < sync'[v].since
                             => sync[v].entity = EntityOf[r] /\ CreatedAt[r] < sync[v].since
      BY <1>0, <1>a, OthersSame
    <2> QED BY <2>1, <2>2 DEF Passed
  <1>1. CASE StartSync(w) \/ Begin(w) \/ ReportError(w) \/ Finish(w)
    <2>1. Blank(sync'[w]) /\ Others(w) /\ UNCHANGED copy
      BY <1>1, GotoMoves, NextEntityMoves
         DEF StartSync, Begin, ReportError, Finish, PCs
    <2> QED BY <1>a, <2>1 DEF Blank
  <1>2. CASE ReadCursor(w)
    <2>1. /\ Others(w) /\ UNCHANGED copy
          /\ DOMAIN sync'[w].page = {} /\ sync'[w].entity = sync[w].entity
          /\ sync'[w].since = Since(sync[w].entity)
          /\ sync[w].entity \in Entities
      BY <1>2, CursorStep, SyncType DEF Fault, NoFault
    <2>2. \A v : Seen(v)' => Seen(v)
      BY <2>1, OthersSame DEF Seen
    <2>3. CASE sync[w].entity = EntityOf[r] /\ CreatedAt[r] < Since(sync[w].entity)
      <3>1. PICK v \in Stored(EntityOf[r]) : Since(EntityOf[r]) + Overlap <= CreatedAt[v]
        BY <1>0, <2>1, <2>3, SinceFacts
      <3>2. Since(EntityOf[r]) \in Nat /\ CreatedAt[v] \in Nat
        BY <2>1, <2>3, SinceFacts, CreatedAtNat DEF Stored, Of
      <3>3. CreatedAt[v] > CreatedAt[r] + Overlap
        BY <1>0, <2>3, <3>1, <3>2
      <3> QED BY <3>1, <3>3 DEF Passed, Seen, Stored
    <2>4. CASE ~(sync[w].entity = EntityOf[r] /\ CreatedAt[r] < Since(sync[w].entity))
      <3>1. \A v \in Workers : sync'[v].entity = EntityOf[r] /\ CreatedAt[r] < sync'[v].since
                => sync[v].entity = EntityOf[r] /\ CreatedAt[r] < sync[v].since
        BY <2>1, <2>4, OthersSame
      <3> QED BY <2>2, <3>1 DEF Passed
    <2> QED BY <2>3, <2>4
  <1>3. CASE Fetch(w)
    <2>1. Others(w) /\ UNCHANGED <<copy, stage>>
      BY <1>3, FetchStep
    <2>2. CASE Blank(sync'[w])
      BY <1>a, <2>1, <2>2 DEF Blank
    <2>3. CASE FetchesPage(w, FirstPage(Listed(w)))
      <3>1. PICK page : page = FirstPage(Listed(w))
        OBVIOUS
      <3>2. /\ page \subseteq Listed(w) /\ DOMAIN sync'[w].page = page
            /\ sync'[w].since = sync[w].since
            /\ sync'[w].entity = sync[w].entity
        BY <2>3, <3>1 DEF FetchesPage
      <3>3. ASSUME ~Passed(r) PROVE r \in Listed(w)
        <4>1. \A v \in Workers : sync'[v].entity = EntityOf[r] /\ CreatedAt[r] < sync'[v].since
                => sync[v].entity = EntityOf[r] /\ CreatedAt[r] < sync[v].since
          BY <2>1, <3>2, OthersSame
        <4>2. PICK v \in Of(EntityOf[r]) : Seen(v)' /\ CreatedAt[v] > CreatedAt[r] + Overlap
          BY <3>3, <4>1 DEF Passed
        <4>3. v \in page
          BY <2>1, <3>2, <3>3, <4>2, OthersSame DEF Passed, Seen
        <4>4. /\ v \in Listed(w) /\ CreatedAt[v] \in Nat /\ EntityOf[v] = EntityOf[r]
              /\ EntityOf[v] = sync[w].entity
              /\ sync[w].since \in Nat
          BY <3>2, <4>2, <4>3, SyncType, CreatedAtNat DEF Listed, Of
        <4>5. CreatedAt[r] < CreatedAt[v]
          BY <1>0, <4>2, <4>4
        <4>6. CreatedAt[r] >= sync[w].since
          BY <1>0, <3>3, <4>4 DEF Passed
        <4>7. sync[w].last # NoRecord => CreatedAt[r] < CreatedAt[sync[w].last]
          <5> SUFFICES ASSUME sync[w].last # NoRecord
                       PROVE  CreatedAt[r] < CreatedAt[sync[w].last]
            OBVIOUS
          <5>1. CreatedAt[sync[w].last] \in Nat
            BY SyncType, CreatedAtNat
          <5>2. CreatedAt[v] < CreatedAt[sync[w].last]
            BY <4>4 DEF Listed
          <5> QED BY <1>0, <4>4, <4>5, <5>1, <5>2
        <4> QED BY <1>0, <4>4, <4>6, <4>7 DEF Listed, Of
      <3>4. r \in Visible'
        BY <1>0, <2>1 DEF Visible
      <3> QED BY <2>3, <3>3, <3>4, ComingFetched
    <2> QED BY <1>3, <2>2, <2>3, FetchStep
  <1>4. CASE Store(w)
    <2>1. PICK s \in DOMAIN sync[w].page :
             /\ sync[w].pc = "upsert" /\ Consume(w, s) /\ s \in Records
             /\ copy' = [copy EXCEPT ![s] = sync[w].page[s]] \/ UNCHANGED copy
      BY <1>4, StoreStep
    <2>2. /\ Others(w) /\ DOMAIN sync'[w].page \subseteq DOMAIN sync[w].page
          /\ \/ sync'[w].since = 0
             \/ /\ sync'[w].since = sync[w].since
                /\ sync'[w].entity = sync[w].entity
      BY <2>1, ConsumeMoves DEF Blank
    <2>3. \A v \in Records : copy'[v] > 0 => copy[v] > 0 \/ v = s
      BY <1>0, <2>1
    <2>4. \A v \in Records : Seen(v)' => Seen(v)
      BY <2>1, <2>2, <2>3, OthersSame DEF Seen
    <2>5. \A v \in Workers : sync'[v].entity = EntityOf[r] /\ CreatedAt[r] < sync'[v].since
                             => sync[v].entity = EntityOf[r] /\ CreatedAt[r] < sync[v].since
      BY <1>0, <2>2, OthersSame
    <2> QED BY <2>4, <2>5 DEF Passed, Of
  <1> QED BY <1>1, <1>2, <1>3, <1>4 DEF Continue

LEMMA SinceInvNext ==
    ASSUME TypeInv, BehindStripe, SinceInv, [Next]_vars, faults' = {}
    PROVE  SinceInv'
  <1>0. NoFault /\ ~Crash /\ faults = {} /\ Visible \subseteq Visible'
    BY NoFaultStep DEF Visible
  <1>1. ASSUME NEW v \in Workers
        PROVE  \/ sync'[v].since = 0 \/ sync'[v].since = sync[v].since
               \/ \E e \in Entities : sync'[v].since = Since(e)
    <2>1. ASSUME NEW w \in Workers, StartSync(w) \/ Continue(w)
          PROVE  /\ Others(w)
                 /\ \/ sync'[w].since = 0 \/ sync'[w].since = sync[w].since
                    \/ \E e \in Entities : sync'[w].since = Since(e)
      <3>1. CASE StartSync(w) \/ Begin(w) \/ ReportError(w) \/ Finish(w)
        BY <3>1, GotoMoves, NextEntityMoves
           DEF StartSync, Begin, ReportError, Finish, PCs, Blank
      <3>2. CASE ReadCursor(w)
        BY <1>0, <3>2, CursorStep, SyncType DEF Fault, NoFault
      <3>3. CASE Fetch(w)
        BY <3>3, FetchStep DEF Blank, FetchesPage
      <3>4. CASE Store(w)
        BY <3>4, StoreStep, ConsumeMoves DEF Blank
      <3> QED BY <2>1, <3>1, <3>2, <3>3, <3>4 DEF Continue
    <2>2. CASE \E w \in Workers : StartSync(w) \/ Continue(w)
      BY <2>1, <2>2, OthersSame
    <2>3. CASE (\E p \in Payouts : Pull(p)) \/ (\E q \in Records : Advance(q))
               \/ UNCHANGED vars
      BY <2>3 DEF Pull, Advance, stripeVars, vars
    <2> QED BY <1>0, <2>2, <2>3 DEF Next
  <1>2. ASSUME NEW e \in Entities
        PROVE  \/ Since(e) <= From
               \/ \E v \in Visible : Since(e) + Overlap <= CreatedAt[v]
    <2>1. Stored(e) \subseteq Visible
      BY DEF Stored, Of, Visible, BehindStripe, TypeInv, TypeOK
    <2> QED BY <2>1, SinceFacts
  <1>3. 0 <= From
    BY BoundsAssumption
  <1> QED BY <1>0, <1>1, <1>2, <1>3 DEF SinceInv

LEMMA AheadInvNext ==
    ASSUME Lag <= Overlap, TypeInv, BehindStripe, AheadInv, [Next]_vars
    PROVE  AheadInv'
  <1> SUFFICES ASSUME faults' = {}
               PROVE  /\ SinceInv'
                      /\ \A r \in Records : Missing(r)' /\ Passed(r)'
                             => \E w \in Workers : Coming(w, r)'
    BY DEF AheadInv
  <1>0. /\ NoFault /\ ~Crash /\ faults = {} /\ SinceInv
        /\ \A r \in Records :
               Missing(r) /\ Passed(r) => \E w \in Workers : Coming(w, r)
    BY NoFaultStep DEF AheadInv
  <1>1. SinceInv'
    BY <1>0, SinceInvNext
  <1>2. ASSUME NEW r \in Records, Missing(r)', Passed(r)'
        PROVE  \E w \in Workers : Coming(w, r)'
    <2>1. CASE Missing(r) /\ Passed(r)
      BY <1>0, <1>2, <2>1, ComingPersists
    <2>2. CASE \E w \in Workers : StartSync(w) \/ Continue(w)
      <3>1. PICK w \in Workers : StartSync(w) \/ Continue(w)
        BY <2>2
      <3>2. UNCHANGED stage /\ refused \subseteq refused' /\ (copy'[r] = 0 => copy[r] = 0)
        <4>1. CASE Store(w)
          BY <4>1, StoreStep DEF TypeInv, TypeOK
        <4>2. CASE ~Store(w)
          BY <3>1, <4>2 DEF StartSync, Continue, Begin, ReadCursor, Fetch, ReportError,
                            Finish
        <4> QED BY <4>1, <4>2
      <3>3. Missing(r)
        BY <1>2, <3>2 DEF Missing, Visible
      <3>4. Passed(r) \/ Coming(w, r)'
        BY <1>0, <1>2, <3>1, <3>3, PassedBefore
      <3> QED BY <2>1, <3>3, <3>4
    <2>3. CASE \E q \in Records : Advance(q)
      <3>1. PICK q \in Records : Advance(q)
        BY <2>3
      <3>2. /\ UNCHANGED <<copy, sync, refused>>
            /\ stage' = [stage EXCEPT ![q] = @ + 1]
            /\ stage[q] = 0 => Appears(q)
        BY <3>1 DEF Advance, stripeVars
      <3>3. Passed(r)
        BY <1>2, <3>2 DEF Passed, Seen
      <3>4. CASE r \in Visible
        BY <1>2, <2>1, <3>2, <3>3, <3>4 DEF Missing
      <3>5. CASE r \notin Visible
        <4>1. r = q /\ stage[r] = 0
          BY <1>2, <3>2, <3>5 DEF Missing, Visible, TypeInv, TypeOK
        <4> QED BY <1>0, <1>2, <3>2, <3>3, <4>1, NewIsNotPassed DEF Missing
      <3> QED BY <3>4, <3>5
    <2>4. CASE (\E p \in Payouts : Pull(p)) \/ UNCHANGED vars
      <3>1. UNCHANGED <<stage, copy, sync, refused>>
        BY <2>4 DEF Pull, vars
      <3> QED BY <1>2, <2>1, <3>1 DEF Missing, Visible, Passed, Seen
    <2> QED BY <1>0, <2>2, <2>3, <2>4 DEF Next
  <1> QED BY <1>1, <1>2

\* Where the pulls overlap by as much as Stripe may be late, no record is
\* forgotten while nothing fails: one of the period that is not stored, and
\* not refused, is ahead of a sync or younger than the cursor of the next
\* one, for any records, page size and number of goroutines (sync.go:78-86).
THEOREM NothingIsForgotten ==
    ASSUME Lag <= Overlap
    PROVE  Spec => []NothingForgotten
  <1>1. Init => AheadInv
    <2> SUFFICES ASSUME Init PROVE AheadInv
      OBVIOUS
    <2>1. \A w \in Workers : sync[w].since = 0
      BY OffBlank DEF Init, Blank
    <2>2. \A r \in Records : ~Missing(r)
      BY DEF Init, Missing, Visible
    <2> QED BY <2>1, <2>2, BoundsAssumption DEF AheadInv, SinceInv
  <1>2. TypeInv /\ BehindStripe /\ AheadInv => NothingForgotten
    <2> SUFFICES ASSUME TypeInv, BehindStripe, AheadInv, faults = {},
                        NEW r \in Records, Missing(r), ~(CreatedAt[r] >= Since(EntityOf[r]))
                 PROVE  \E w \in Workers : Coming(w, r)
      BY DEF NothingForgotten
    <2>1. /\ CreatedAt[r] \in Nat /\ From <= CreatedAt[r]
          /\ EntityOf[r] \in Entities /\ From \in Nat /\ Overlap \in Nat
      BY CreatedAtNat, RecordsAssumption, BoundsAssumption DEF Missing
    <2>2. Since(EntityOf[r]) \in Nat /\ CreatedAt[r] < Since(EntityOf[r])
      BY <2>1, SinceFacts
    <2>3. PICK v \in Stored(EntityOf[r]) : Since(EntityOf[r]) + Overlap <= CreatedAt[v]
      BY <2>1, <2>2, SinceFacts
    <2>4. CreatedAt[v] > CreatedAt[r] + Overlap
      BY <2>1, <2>2, <2>3, CreatedAtNat DEF Stored, Of
    <2>5. Passed(r)
      BY <2>3, <2>4 DEF Passed, Seen, Stored
    <2> QED BY <2>5 DEF AheadInv
  <1> QED BY <1>1, <1>2, AheadInvNext, TypeInvariant, PTL DEF Spec
=============================================================================
