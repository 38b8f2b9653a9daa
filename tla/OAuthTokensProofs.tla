-------------------------- MODULE OAuthTokensProofs --------------------------
(***************************************************************************)
(* Proofs about OAuthTokens, for any callers, logins, events and bounds:   *)
(* however refreshes, logins and the passing of time interleave, the       *)
(* stored refresh token can be used; the rows hold one pair and a token in *)
(* use has not expired, unless somebody logs in again; and a disconnect    *)
(* holds.                                                                  *)
(***************************************************************************)
EXTENDS OAuthTokensInv, TLAPS

-----------------------------------------------------------------------------
(* How the record of a worker changes *)

Others(w) == work' = [work EXCEPT ![w] = work'[w]]

LEMMA OthersSame ==
    ASSUME TypeInv, NEW w \in Workers, Others(w)
    PROVE  \A v \in Workers : v # w => work'[v] = work[v]
  BY DEF Others, TypeInv

LEMMA WorkType ==
    ASSUME TypeInv, NEW w \in Workers
    PROVE  /\ work[w] \in Work
           /\ work[w].pc \in PCs
           /\ work[w].access \in 0..MaxPairs /\ work[w].refresh \in 0..MaxPairs
           /\ work[w].fresh \in BOOLEAN /\ work[w].attempt \in 1..MaxAttempts
  BY DEF TypeInv, Work

LEMMA TypeFacts ==
    ASSUME TypeInv
    PROVE  /\ stored \in [Rows -> 0..MaxPairs] /\ age \in [Pairs -> 0..2]
           /\ \A row \in Rows : stored[row] \in 0..MaxPairs
           /\ "access" \in Rows /\ "refresh" \in Rows /\ "expiry" \in Rows
           /\ issued \in 0..MaxPairs /\ codes \in 0..MaxCodes
           /\ usable \subseteq 1..issued /\ events \subseteq Events
           /\ relogged \in BOOLEAN
           /\ MaxPairs \in Nat \ {0} /\ MaxCodes \in Nat \ {0}
  BY TokensAssumption DEF TypeInv, TypeOK, Rows

LEMMA BecomesMoves ==
    ASSUME TypeInv, NEW w \in Workers, NEW s, Becomes(w, s)
    PROVE  work'[w] = s /\ Others(w)
  <1>1. work' = [work EXCEPT ![w] = s]
    BY DEF Becomes
  <1>2. work'[w] = s
    BY <1>1 DEF TypeInv
  <1> QED BY <1>1, <1>2 DEF Others

\* A worker that has read nothing.
Blank(s) == s \in Work /\ s.access = 0 /\ s.refresh = 0 /\ ~s.fresh

LEMMA IdleBlank == Blank(Idle) /\ Idle.pc = "idle"
  <1>1. /\ "idle" \in PCs /\ 0 \in 0..MaxPairs /\ 1 \in 1..MaxAttempts
        /\ FALSE \in BOOLEAN
    BY TokensAssumption DEF PCs
  <1>2. /\ Idle.pc = "idle" /\ Idle.access = 0 /\ Idle.refresh = 0
        /\ Idle.attempt = 1
    BY DEF Idle
  <1>3. ~Idle.fresh
    BY DEF Idle
  <1>4. Idle \in Work
    BY <1>1 DEF Idle, Work
  <1> QED BY <1>2, <1>3, <1>4 DEF Blank

LEMMA IdleWith ==
    ASSUME NEW pc \in PCs, NEW n \in 1..MaxAttempts
    PROVE  /\ Blank([Idle EXCEPT !.pc = pc, !.attempt = n])
           /\ [Idle EXCEPT !.pc = pc, !.attempt = n].pc = pc
           /\ Blank([Idle EXCEPT !.pc = pc]) /\ [Idle EXCEPT !.pc = pc].pc = pc
  BY IdleBlank DEF Blank, Work

LEMMA EndsMoves ==
    ASSUME TypeInv, NEW w \in Workers, Ends(w)
    PROVE  Blank(work'[w]) /\ work'[w].pc = "idle" /\ Others(w)
  BY BecomesMoves, IdleBlank, IdleWith DEF Ends

LEMMA HangsMoves ==
    ASSUME TypeInv, NEW w \in Workers, Hangs(w)
    PROVE  Blank(work'[w]) /\ work'[w].pc = "hung" /\ Others(w)
  <1>1. "hung" \in PCs /\ 1 \in 1..MaxAttempts
    BY TokensAssumption DEF PCs
  <1>2. work'[w] = [Idle EXCEPT !.pc = "hung"] /\ Others(w)
    BY BecomesMoves DEF Hangs
  <1> QED BY <1>1, <1>2, IdleWith

LEMMA GotoMoves ==
    ASSUME TypeInv, NEW w \in Workers, NEW pc \in PCs, Goto(w, pc)
    PROVE  /\ work'[w] \in Work /\ Others(w) /\ work'[w].pc = pc
           /\ work'[w].access = work[w].access /\ work'[w].refresh = work[w].refresh
           /\ work'[w].fresh = work[w].fresh
  <1>1. work'[w] = [work[w] EXCEPT !.pc = pc] /\ Others(w)
    BY BecomesMoves DEF Goto
  <1> QED BY <1>1, WorkType DEF Work

\* What a worker is whose token is returned to it.
LEMMA ReturnedMoves ==
    ASSUME TypeInv, NEW w \in Workers, NEW fresh \in BOOLEAN,
           Becomes(w, Returned(w, fresh))
    PROVE  /\ work'[w] \in Work /\ Others(w) /\ work'[w].refresh = 0
           /\ \/ Blank(work'[w]) /\ work'[w].pc = "idle"
              \/ /\ work'[w].pc = "use" /\ work'[w].access = work[w].access
                 /\ work'[w].fresh = fresh
  <1>1. CASE w = Refresher
    <2>1. Becomes(w, Idle)
      BY <1>1 DEF Returned
    <2> QED BY <2>1, BecomesMoves, IdleBlank, IdleWith DEF Blank
  <1>2. CASE w # Refresher
    <2>1. /\ work'[w] = [work[w] EXCEPT !.pc = "use", !.refresh = 0, !.fresh = fresh]
          /\ Others(w)
      BY <1>2, BecomesMoves DEF Returned
    <2>2. "use" \in PCs /\ 0 \in 0..MaxPairs
      BY TokensAssumption DEF PCs
    <2>3. work'[w] \in Work
      BY <2>1, <2>2, WorkType DEF Work
    <2>4. /\ work'[w].pc = "use" /\ work'[w].refresh = 0
          /\ work'[w].access = work[w].access /\ work'[w].fresh = fresh
      BY <2>1, WorkType DEF Work
    <2> QED BY <2>1, <2>3, <2>4
  <1> QED BY <1>1, <1>2

LEMMA ReceivesMoves ==
    ASSUME TypeInv, NEW w \in Workers, issued < MaxPairs, Receives(w)
    PROVE  /\ work'[w] \in Work /\ Others(w) /\ work'[w].pc = "save access"
           /\ work'[w].access = issued + 1 /\ work'[w].refresh = 0 /\ work'[w].fresh
  <1> PICK t \in BOOLEAN : t = TRUE
    OBVIOUS
  <1>1. /\ work'[w] = [work[w] EXCEPT !.pc = "save access", !.access = issued + 1,
                                      !.refresh = 0, !.fresh = t]
        /\ Others(w)
    BY BecomesMoves DEF Receives
  <1>2. /\ issued + 1 \in 0..MaxPairs /\ 0 \in 0..MaxPairs
        /\ "save access" \in PCs
    BY TypeFacts DEF PCs
  <1>3. work'[w] \in Work
    BY <1>1, <1>2, WorkType DEF Work
  <1>4. /\ work'[w].pc = "save access" /\ work'[w].access = issued + 1
        /\ work'[w].refresh = 0
    BY <1>1, WorkType DEF Work
  <1>5. work'[w].fresh = t
    BY <1>1, WorkType DEF Work
  <1> QED BY <1>1, <1>3, <1>4, <1>5

LEMMA StartMoves ==
    ASSUME TypeInv, NEW w \in Workers, NEW pc \in PCs, work[w] = Idle, Goto(w, pc)
    PROVE  Blank(work'[w]) /\ work'[w].pc = pc /\ Others(w)
  <1>1. 1 \in 1..MaxAttempts
    BY TokensAssumption
  <1>2. work'[w] = [Idle EXCEPT !.pc = pc] /\ Others(w)
    BY BecomesMoves DEF Goto
  <1> QED BY <1>1, <1>2, IdleWith

-----------------------------------------------------------------------------
(* The kinds of step a worker takes *)

Keeps == UNCHANGED <<waiting, deleting, codes, relogged>>

\* Worker w goes without what it had; a pair it has not saved is lost only if
\* a statement fails.
Drops(w) ==
    /\ Others(w) /\ Blank(work'[w])
    /\ \/ work'[w].pc \in {"idle", "hung"}
       \/ work'[w].pc = "access" /\ w \in Clients
    /\ work'[w].pc = "hung" => work[w].pc \in {"request", "exchange"}
    /\ Holds(w) => "write" \in events'
    /\ Keeps /\ UNCHANGED <<stored, usable, age, issued>>

GetsAccess(w) ==
    /\ Others(w) /\ work'[w] \in Work
    /\ work[w].pc = "access" /\ work'[w].pc = "refresh"
    /\ stored["access"] # 0 /\ work'[w].access = stored["access"]
    /\ work'[w].refresh = work[w].refresh /\ work'[w].fresh = work[w].fresh
    /\ Keeps /\ UNCHANGED <<stored, usable, age, issued>>

GetsRefresh(w) ==
    /\ Others(w) /\ work'[w] \in Work
    /\ work[w].pc = "refresh" /\ work'[w].pc = "expiry"
    /\ work'[w].refresh = stored["refresh"]
    /\ work'[w].access = work[w].access /\ work'[w].fresh = work[w].fresh
    /\ Keeps /\ UNCHANGED <<stored, usable, age, issued>>

\* The token was found valid.
Accepts(w) ==
    /\ Others(w) /\ work'[w] \in Work
    /\ work[w].pc = "expiry" /\ work'[w].pc = "use"
    /\ Fresh(stored["expiry"])
    /\ work'[w].fresh = Fresh(work[w].access)
    /\ work'[w].access = work[w].access /\ work'[w].refresh = 0
    /\ Keeps /\ UNCHANGED <<stored, usable, age, issued>>

Asks(w) ==
    /\ Others(w) /\ work'[w] \in Work
    /\ work[w].pc = "expiry" /\ work'[w].pc = "request"
    /\ work'[w].access = 0
    /\ work'[w].refresh = work[w].refresh /\ work'[w].fresh = work[w].fresh
    /\ Keeps /\ UNCHANGED <<stored, usable, age, issued>>

\* A pair is issued to w, which receives it unless the answer is lost.
Issues(w) ==
    /\ Others(w) /\ work'[w] \in Work
    /\ \/ /\ w \in Clients /\ work[w].pc = "request"
          /\ work[w].refresh \in usable
          /\ usable' = (usable \ {work[w].refresh}) \cup {issued + 1}
       \/ /\ w \in Browsers /\ work[w].pc = "exchange"
          /\ usable' = usable \cup {issued + 1}
    /\ issued < MaxPairs /\ issued' = issued + 1
    /\ \/ /\ work'[w].pc = "save access" /\ work'[w].access = issued + 1
          /\ work'[w].refresh = 0 /\ work'[w].fresh
       \/ /\ Blank(work'[w]) /\ work'[w].pc \in {"idle", "hung"}
          /\ events' \cap {"lost", "hang"} # {}
    /\ Keeps /\ UNCHANGED <<stored, age>>

\* The three statements of SaveTokens.
SavesAccess(w) ==
    /\ Others(w) /\ work'[w] \in Work
    /\ work[w].pc = "save access" /\ work'[w].pc = "save refresh"
    /\ work'[w].access = work[w].access /\ work'[w].refresh = work[w].refresh
    /\ work'[w].fresh = work[w].fresh
    /\ Upsert("access", work[w].access)
    /\ Keeps /\ UNCHANGED <<usable, age, issued>>

SavesRefresh(w) ==
    /\ Others(w) /\ work'[w] \in Work
    /\ work[w].pc = "save refresh" /\ work'[w].pc = "save expiry"
    /\ work'[w].access = work[w].access /\ work'[w].refresh = work[w].refresh
    /\ work'[w].fresh = work[w].fresh
    /\ Upsert("refresh", work[w].access)
    /\ Keeps /\ UNCHANGED <<usable, age, issued>>

SavesExpiry(w) ==
    /\ Others(w) /\ work'[w] \in Work
    /\ work[w].pc = "save expiry" /\ work'[w].refresh = 0
    /\ \/ Blank(work'[w]) /\ work'[w].pc = "idle"
       \/ /\ work'[w].pc = "use" /\ work'[w].access = work[w].access
          /\ work'[w].fresh
    /\ Upsert("expiry", work[w].access)
    /\ Keeps /\ UNCHANGED <<usable, age, issued>>

Saves(w) == SavesAccess(w) \/ SavesRefresh(w) \/ SavesExpiry(w)

Moves(w) ==
    \/ Drops(w) \/ GetsAccess(w) \/ GetsRefresh(w) \/ Accepts(w) \/ Asks(w)
    \/ Issues(w) \/ Saves(w)

LEMMA WorkerSets ==
    /\ \A b \in Browsers : b \in Workers /\ b \notin Clients
    /\ \A w \in Workers : w \in Clients \/ w \in Browsers
    /\ \A w \in Clients : w \in Workers
  BY TokensAssumption DEF Workers

LEMMA StartCallKind ==
    ASSUME TypeInv, NEW w \in Clients, StartCall(w)
    PROVE  Drops(w)
  <1>1. w \in Workers /\ "access" \in PCs
    BY WorkerSets DEF PCs
  <1>2. work[w].pc = "idle"
    BY IdleBlank DEF StartCall
  <1>3. Blank(work'[w]) /\ work'[w].pc = "access" /\ Others(w)
    BY <1>1, StartMoves DEF StartCall
  <1> QED BY <1>2, <1>3 DEF Drops, Holds, Keeps, StartCall, fortnoxVars

LEMMA ReadAccessKind ==
    ASSUME TypeInv, NEW w \in Clients, ReadAccess(w)
    PROVE  Drops(w) \/ GetsAccess(w)
  <1> w \in Workers
    BY WorkerSets
  <1>1. /\ Keeps /\ UNCHANGED <<stored, usable, age, issued>>
        /\ work[w].pc = "access"
    BY DEF ReadAccess, Keeps, fortnoxVars
  <1>2. CASE Ends(w)
    BY <1>1, <1>2, EndsMoves DEF Drops, Holds
  <1>3. CASE /\ TokenRead("access")
             /\ Becomes(w, [work[w] EXCEPT !.pc = "refresh", !.access = stored["access"]])
    <2>1. PICK n \in 0..MaxPairs : n = stored["access"] /\ n # 0
      BY <1>3, TypeFacts DEF TokenRead
    <2>2. work'[w] = [work[w] EXCEPT !.pc = "refresh", !.access = n] /\ Others(w)
      BY <1>3, <2>1, BecomesMoves
    <2>3. /\ work'[w] \in Work
          /\ work'[w].pc = "refresh" /\ work'[w].access = n
          /\ work'[w].refresh = work[w].refresh /\ work'[w].fresh = work[w].fresh
      BY <2>1, <2>2, WorkType DEF Work, PCs
    <2> QED BY <1>1, <2>1, <2>2, <2>3 DEF GetsAccess
  <1> QED BY <1>2, <1>3 DEF ReadAccess

LEMMA ReadRefreshKind ==
    ASSUME TypeInv, NEW w \in Clients, ReadRefresh(w)
    PROVE  Drops(w) \/ GetsRefresh(w)
  <1> w \in Workers
    BY WorkerSets
  <1>1. /\ Keeps /\ UNCHANGED <<stored, usable, age, issued>>
        /\ work[w].pc = "refresh"
    BY DEF ReadRefresh, Keeps, fortnoxVars
  <1>2. CASE Ends(w)
    BY <1>1, <1>2, EndsMoves DEF Drops, Holds
  <1>3. CASE Becomes(w, [work[w] EXCEPT !.pc = "expiry", !.refresh = stored["refresh"]])
    <2>1. PICK n \in 0..MaxPairs : n = stored["refresh"]
      BY TypeFacts
    <2>2. work'[w] = [work[w] EXCEPT !.pc = "expiry", !.refresh = n] /\ Others(w)
      BY <1>3, <2>1, BecomesMoves
    <2>3. /\ work'[w] \in Work
          /\ work'[w].pc = "expiry" /\ work'[w].refresh = n
          /\ work'[w].access = work[w].access /\ work'[w].fresh = work[w].fresh
      BY <2>1, <2>2, WorkType DEF Work, PCs
    <2> QED BY <1>1, <2>1, <2>2, <2>3 DEF GetsRefresh
  <1> QED BY <1>2, <1>3 DEF ReadRefresh

LEMMA ReadExpiryKind ==
    ASSUME TypeInv, NEW w \in Clients, ReadExpiry(w)
    PROVE  Drops(w) \/ Accepts(w) \/ Asks(w)
  <1> w \in Workers
    BY WorkerSets
  <1>1. /\ Keeps /\ UNCHANGED <<stored, usable, age, issued>>
        /\ work[w].pc = "expiry"
    BY DEF ReadExpiry, Keeps, fortnoxVars
  <1>2. CASE /\ StillValid(stored["expiry"])
             /\ Becomes(w, Returned(w, Fresh(work[w].access)))
    <2>1. PICK t \in BOOLEAN : t = Fresh(work[w].access)
      BY DEF Fresh
    <2>2. Becomes(w, Returned(w, t))
      BY <1>2, <2>1
    <2>3. /\ work'[w] \in Work /\ Others(w) /\ work'[w].refresh = 0
          /\ \/ Blank(work'[w]) /\ work'[w].pc = "idle"
             \/ /\ work'[w].pc = "use" /\ work'[w].access = work[w].access
                /\ work'[w].fresh = t
      BY <2>2, ReturnedMoves
    <2>4. CASE Blank(work'[w]) /\ work'[w].pc = "idle"
      BY <1>1, <2>3, <2>4 DEF Drops, Holds
    <2>5. CASE work'[w].pc = "use" /\ work'[w].access = work[w].access /\ work'[w].fresh = t
      <3>1. Fresh(stored["expiry"])
        BY <1>2 DEF StillValid
      <3>2. work'[w].fresh = Fresh(work[w].access)
        BY <2>1, <2>5
      <3> QED BY <1>1, <2>3, <2>5, <3>1, <3>2 DEF Accepts
    <2> QED BY <2>3, <2>4, <2>5
  <1>3. CASE Becomes(w, [work[w] EXCEPT !.pc = "request", !.access = 0])
    <2>1. work'[w] = [work[w] EXCEPT !.pc = "request", !.access = 0] /\ Others(w)
      BY <1>3, BecomesMoves
    <2>2. "request" \in PCs /\ 0 \in 0..MaxPairs
      BY TokensAssumption DEF PCs
    <2>3. /\ work'[w] \in Work
          /\ work'[w].pc = "request" /\ work'[w].access = 0
          /\ work'[w].refresh = work[w].refresh /\ work'[w].fresh = work[w].fresh
      BY <2>1, <2>2, WorkType DEF Work
    <2> QED BY <1>1, <2>1, <2>3 DEF Asks
  <1> QED BY <1>2, <1>3 DEF ReadExpiry

LEMMA PostTokenKind ==
    ASSUME TypeInv, NEW w \in Clients, PostToken(w)
    PROVE  Drops(w) \/ Issues(w)
  <1> w \in Workers
    BY WorkerSets
  <1>1. /\ Keeps /\ UNCHANGED <<stored, age>>
        /\ work[w].pc = "request"
    BY DEF PostToken, Keeps
  <1>2. CASE (Ends(w) \/ Hangs(w)) /\ UNCHANGED <<usable, issued>>
    BY <1>1, <1>2, EndsMoves, HangsMoves DEF Drops, Holds
  <1>3. CASE /\ work[w].refresh \in usable /\ issued < MaxPairs
             /\ Rotate(w) /\ issued' = issued + 1
             /\ \/ Receives(w)
                \/ Ends(w) /\ Happens("lost")
                \/ Hangs(w) /\ Happens("hang")
    <2>1. usable' = (usable \ {work[w].refresh}) \cup {issued + 1}
      BY <1>3 DEF Rotate
    <2>2. CASE Receives(w)
      BY <1>1, <1>3, <2>1, <2>2, ReceivesMoves DEF Issues
    <2>3. CASE Ends(w) /\ Happens("lost")
      <3>1. events' \cap {"lost", "hang"} # {}
        BY <2>3 DEF Happens
      <3>2. Blank(work'[w]) /\ work'[w].pc \in {"idle", "hung"} /\ Others(w)
        BY <2>3, EndsMoves
      <3> QED BY <1>1, <1>3, <2>1, <3>1, <3>2 DEF Issues, Blank
    <2>4. CASE Hangs(w) /\ Happens("hang")
      <3>1. events' \cap {"lost", "hang"} # {}
        BY <2>4 DEF Happens
      <3>2. Blank(work'[w]) /\ work'[w].pc \in {"idle", "hung"} /\ Others(w)
        BY <2>4, HangsMoves
      <3> QED BY <1>1, <1>3, <2>1, <3>1, <3>2 DEF Issues, Blank
    <2> QED BY <1>3, <2>2, <2>3, <2>4
  <1> QED BY <1>2, <1>3 DEF PostToken

LEMMA ExchangeKind ==
    ASSUME TypeInv, NEW b \in Browsers, Exchange(b)
    PROVE  Drops(b) \/ Issues(b)
  <1> b \in Workers
    BY WorkerSets
  <1>1. /\ Keeps /\ UNCHANGED <<stored, age>>
        /\ work[b].pc = "exchange"
    BY DEF Exchange, Keeps
  <1>2. CASE (Ends(b) \/ Hangs(b)) /\ UNCHANGED <<usable, issued>>
    BY <1>1, <1>2, EndsMoves, HangsMoves DEF Drops, Holds
  <1>3. CASE /\ issued < MaxPairs /\ usable' = usable \cup {issued + 1}
             /\ issued' = issued + 1
             /\ Receives(b) \/ (Ends(b) /\ Happens("lost"))
    <2>1. CASE Receives(b)
      BY <1>1, <1>3, <2>1, ReceivesMoves DEF Issues
    <2>2. CASE Ends(b) /\ Happens("lost")
      <3>1. events' \cap {"lost", "hang"} # {}
        BY <2>2 DEF Happens
      <3>2. /\ Blank(work'[b]) /\ work'[b].pc \in {"idle", "hung"}
            /\ Others(b)
        BY <2>2, EndsMoves
      <3> QED BY <1>1, <1>3, <3>1, <3>2 DEF Issues, Blank
    <2> QED BY <1>3, <2>1, <2>2
  <1> QED BY <1>2, <1>3 DEF Exchange

LEMMA SaveKind ==
    ASSUME TypeInv, NEW w \in Workers, Save(w)
    PROVE  Drops(w) \/ Saves(w)
  <1>1. /\ Keeps /\ UNCHANGED <<usable, age, issued>>
        /\ work[w].pc \in Saving
    BY DEF Save, Keeps, fortnoxVars
  <1>2. /\ "save refresh" \in PCs /\ "save expiry" \in PCs
        /\ RowOf["save access"] = "access" /\ RowOf["save refresh"] = "refresh"
        /\ RowOf["save expiry"] = "expiry"
    BY DEF PCs, RowOf, Saving
  <1>3. CASE UNCHANGED stored /\ Ends(w) /\ Happens("write")
    BY <1>1, <1>3, EndsMoves DEF Drops, Happens
  <1>4. CASE /\ Upsert(RowOf[work[w].pc], work[w].access)
             /\ \/ work[w].pc = "save access" /\ Goto(w, "save refresh")
                \/ work[w].pc = "save refresh" /\ Goto(w, "save expiry")
                \/ /\ work[w].pc = "save expiry"
                   /\ IF w \in Browsers THEN Ends(w)
                      ELSE Becomes(w, Returned(w, TRUE))
    <2>1. CASE work[w].pc = "save access"
      <3>1. Goto(w, "save refresh")
        BY <1>4, <2>1
      <3>2. Upsert("access", work[w].access)
        BY <1>2, <1>4, <2>1
      <3> QED BY <1>1, <1>2, <2>1, <3>1, <3>2, GotoMoves DEF Saves, SavesAccess
    <2>2. CASE work[w].pc = "save refresh"
      <3>1. Goto(w, "save expiry")
        BY <1>4, <2>2
      <3>2. Upsert("refresh", work[w].access)
        BY <1>2, <1>4, <2>2
      <3> QED BY <1>1, <1>2, <2>2, <3>1, <3>2, GotoMoves DEF Saves, SavesRefresh
    <2>3. CASE work[w].pc = "save expiry"
      <3>1. Upsert("expiry", work[w].access)
        BY <1>2, <1>4, <2>3
      <3>2. CASE w \in Browsers
        <4>1. Ends(w)
          BY <1>4, <2>3, <3>2
        <4> QED BY <1>1, <2>3, <3>1, <4>1, EndsMoves DEF Saves, SavesExpiry, Blank
      <3>3. CASE w \notin Browsers
        <4>1. PICK t \in BOOLEAN : t = TRUE
          OBVIOUS
        <4>2. Becomes(w, Returned(w, t))
          BY <1>4, <2>3, <3>3, <4>1
        <4>3. /\ work'[w] \in Work /\ Others(w) /\ work'[w].refresh = 0
              /\ \/ Blank(work'[w]) /\ work'[w].pc = "idle"
                 \/ /\ work'[w].pc = "use" /\ work'[w].access = work[w].access
                    /\ work'[w].fresh = t
          BY <4>2, ReturnedMoves
        <4> QED BY <1>1, <2>3, <3>1, <4>1, <4>3 DEF Saves, SavesExpiry
      <3> QED BY <3>2, <3>3
    <2> QED BY <1>1, <2>1, <2>2, <2>3 DEF Saving
  <1> QED BY <1>3, <1>4 DEF Save

LEMMA UseKind ==
    ASSUME TypeInv, NEW w \in Clients, Use(w)
    PROVE  Drops(w)
  <1> w \in Workers
    BY WorkerSets
  <1>1. /\ Keeps /\ UNCHANGED <<stored, usable, age, issued>>
        /\ work[w].pc = "use"
    BY DEF Use, Keeps, fortnoxVars
  <1>2. CASE Ends(w)
    BY <1>1, <1>2, EndsMoves DEF Drops, Holds
  <1>3. CASE /\ TriesAgain(w)
             /\ Becomes(w, [Idle EXCEPT !.pc = "access", !.attempt = work[w].attempt + 1])
    <2>1. PICK n \in 1..MaxAttempts : n = work[w].attempt + 1
      BY <1>3, WorkType, TokensAssumption DEF TriesAgain
    <2>2. work'[w] = [Idle EXCEPT !.pc = "access", !.attempt = n] /\ Others(w)
      BY <1>3, <2>1, BecomesMoves
    <2>3. "access" \in PCs
      BY DEF PCs
    <2>4. Blank(work'[w]) /\ work'[w].pc = "access"
      BY <2>2, <2>3, IdleWith
    <2> QED BY <1>1, <2>2, <2>4 DEF Drops, Holds
  <1> QED BY <1>2, <1>3 DEF Use

LEMMA ContinueKind ==
    ASSUME TypeInv, NEW w \in Clients, Continue(w)
    PROVE  Moves(w)
  <1> w \in Workers
    BY WorkerSets
  <1>1. CASE ReadAccess(w)
    BY <1>1, ReadAccessKind DEF Moves
  <1>2. CASE ReadRefresh(w)
    BY <1>2, ReadRefreshKind DEF Moves
  <1>3. CASE ReadExpiry(w)
    BY <1>3, ReadExpiryKind DEF Moves
  <1>4. CASE Request(w)
    BY <1>4, PostTokenKind DEF Moves, Request
  <1>5. CASE Save(w)
    BY <1>5, SaveKind DEF Moves
  <1>6. CASE Use(w)
    BY <1>6, UseKind DEF Moves
  <1> QED BY <1>1, <1>2, <1>3, <1>4, <1>5, <1>6 DEF Continue

\* Every step is one of a worker, or of the settings page, the time, or a crash.
LEMMA NextKinds ==
    ASSUME TypeInv, Next
    PROVE  \/ \E w \in Workers : Moves(w)
           \/ Authorize \/ Disconnect
           \/ \E b \in Browsers : Callback(b)
           \/ \E row \in Rows : DeleteRow(row)
           \/ \E n \in Pairs : Age(n)
           \/ Crash
  <1>1. CASE \E w \in Clients : StartCall(w) \/ Continue(w)
    BY <1>1, WorkerSets, StartCallKind, ContinueKind DEF Moves
  <1>2. CASE \E b \in Browsers : Exchange(b) \/ Save(b)
    BY <1>2, WorkerSets, ExchangeKind, SaveKind DEF Moves
  <1> QED BY <1>1, <1>2 DEF Next

LEMMA EventsGrow ==
    ASSUME TypeInv, Next
    PROVE  events \subseteq events' /\ events' \subseteq Events
  <1>1. events' = events \/ \E kind \in Events : Happens(kind)
    BY DEF Next, StartCall, Continue, ReadAccess, ReadRefresh, ReadExpiry, Request,
           PostToken, Save, Use, Authorize, Callback, Exchange, Disconnect, DeleteRow,
           Age, Crash, Nothing, Happens
  <1> QED BY <1>1, TypeFacts DEF Happens

-----------------------------------------------------------------------------
(* Types *)

\* What is the same for every kind of step of a worker.
LEMMA MovesFacts ==
    ASSUME TypeInv, NEW w \in Workers, Moves(w)
    PROVE  /\ Others(w) /\ work'[w] \in Work
           /\ Keeps /\ UNCHANGED age
           /\ \/ UNCHANGED <<usable, issued>>
              \/ issued < MaxPairs /\ issued' = issued + 1 /\ usable' \subseteq usable \cup {issued + 1}
           /\ \/ UNCHANGED stored
              \/ \E row \in Rows : Upsert(row, work[w].access)
  <1> DEFINE Known == /\ Others(w) /\ work'[w] \in Work /\ Keeps /\ UNCHANGED age
  <1>1. CASE Drops(w) \/ GetsAccess(w) \/ GetsRefresh(w) \/ Accepts(w) \/ Asks(w)
    BY <1>1 DEF Drops, GetsAccess, GetsRefresh, Accepts, Asks, Blank
  <1>2. CASE Issues(w)
    BY <1>2 DEF Issues
  <1>3. CASE Saves(w)
    BY <1>3, TypeFacts DEF Saves, SavesAccess, SavesRefresh, SavesExpiry
  <1> QED BY <1>1, <1>2, <1>3 DEF Moves

LEMMA WorkKept ==
    ASSUME TypeInv, NEW w \in Workers, Others(w), work'[w] \in Work
    PROVE  /\ work' \in [Workers -> Work]
           /\ \A v \in Workers :
                 /\ work'[v].pc \in PCs
                 /\ work'[v].access \in 0..MaxPairs /\ work'[v].refresh \in 0..MaxPairs
                 /\ work'[v].fresh \in BOOLEAN /\ work'[v].attempt \in 1..MaxAttempts
  <1>1. work' \in [Workers -> Work]
    BY DEF Others, TypeInv
  <1>2. ASSUME NEW v \in Workers PROVE work'[v] \in Work
    BY <1>1
  <1> QED BY <1>1, <1>2 DEF Work

LEMMA UpsertType ==
    ASSUME TypeInv, NEW row \in Rows, NEW n \in 0..MaxPairs, Upsert(row, n)
    PROVE  /\ stored' \in [Rows -> 0..MaxPairs] /\ stored'[row] = n
           /\ \A other \in Rows : other # row => stored'[other] = stored[other]
  BY TypeFacts DEF Upsert

LEMMA TypeInvInit == Init => TypeInv
  <1> SUFFICES ASSUME Init PROVE TypeInv
    OBVIOUS
  <1>1. work \in [Workers -> Work]
    BY IdleBlank DEF Init, Blank
  <1>2. ASSUME NEW v \in Workers
        PROVE  /\ work[v].pc \in PCs
               /\ work[v].access \in 0..MaxPairs /\ work[v].refresh \in 0..MaxPairs
               /\ work[v].fresh \in BOOLEAN /\ work[v].attempt \in 1..MaxAttempts
    <2>1. work[v] \in Work
      BY <1>1
    <2> QED BY <2>1 DEF Work
  <1>3. /\ stored \in [Rows -> 0..MaxPairs] /\ age \in [Pairs -> 0..2]
        /\ issued \in 0..MaxPairs /\ codes \in 0..MaxCodes
        /\ usable \subseteq 1..issued /\ events \subseteq Events
        /\ deleting \subseteq Rows
    BY TokensAssumption DEF Init
  <1>4. waiting \in BOOLEAN /\ relogged \in BOOLEAN
    BY DEF Init
  <1> QED BY <1>1, <1>2, <1>3, <1>4 DEF TypeInv, TypeOK

LEMMA CallbackMoves ==
    ASSUME TypeInv, NEW b \in Browsers, Callback(b)
    PROVE  /\ waiting /\ ~waiting' /\ work[b].pc = "idle"
           /\ UNCHANGED <<stored, deleting, usable, age, issued>>
           /\ Others(b) /\ work'[b] \in Work
           /\ work'[b].access = work[b].access
           /\ work'[b].refresh = work[b].refresh
           /\ work'[b].fresh = work[b].fresh
           /\ \/ UNCHANGED <<work, codes, relogged>>
              \/ /\ work'[b].pc = "exchange"
                 /\ relogged' = (relogged \/ Beside)
                 /\ codes < MaxCodes /\ codes' = codes + 1
  <1> b \in Workers
    BY WorkerSets
  <1>1. work[b].pc = "idle"
    BY IdleBlank DEF Callback
  <1>2. /\ waiting /\ ~waiting'
        /\ UNCHANGED <<stored, deleting, usable, age, issued>>
    BY DEF Callback
  <1>3. CASE /\ codes < MaxCodes /\ codes' = codes + 1 /\ Goto(b, "exchange")
             /\ relogged' = (relogged \/ Beside)
    <2>1. "exchange" \in PCs
      BY DEF PCs
    <2>2. /\ work'[b] \in Work /\ Others(b) /\ work'[b].pc = "exchange"
          /\ work'[b].access = work[b].access /\ work'[b].refresh = work[b].refresh
          /\ work'[b].fresh = work[b].fresh
      BY <1>3, <2>1, GotoMoves
    <2> QED BY <1>1, <1>2, <1>3, <2>2, Zenon
  <1>4. CASE UNCHANGED <<work, codes, relogged>>
    <2>1. work' = work
      BY <1>4
    <2>2. work'[b] = work[b] /\ work \in [Workers -> Work]
      BY <2>1 DEF TypeInv
    <2>3. Others(b)
      BY <2>1, <2>2 DEF Others
    <2> QED BY <1>1, <1>2, <1>4, <2>2, <2>3, WorkType
  <1> QED BY <1>3, <1>4 DEF Callback

LEMMA CrashMoves ==
    ASSUME TypeInv, Crash
    PROVE  /\ work' \in [Workers -> Work]
           /\ \A w \in Workers : Blank(work'[w]) /\ work'[w].pc = "idle"
           /\ ~waiting' /\ deleting' = {} /\ "crash" \in events'
           /\ UNCHANGED <<stored, usable, age, issued, codes, relogged>>
  <1>1. /\ work' = [w \in Workers |-> Idle]
        /\ ~waiting' /\ deleting' = {} /\ "crash" \in events'
        /\ UNCHANGED <<stored, usable, age, issued, codes, relogged>>
    BY DEF Crash, Happens, fortnoxVars
  <1> QED BY <1>1, IdleBlank DEF Blank

LEMMA AgeMoves ==
    ASSUME TypeInv, NEW n \in Pairs, Age(n)
    PROVE  /\ n <= issued /\ age[n] < 2
           /\ \A m \in Pairs : m < n => age[m] > age[n]
           /\ age[n] = 1 => ~\E w \in Workers : work[w].access = n /\ work[w].fresh
           /\ age' \in [Pairs -> 0..2] /\ age'[n] = age[n] + 1
           /\ \A m \in Pairs : m # n => age'[m] = age[m]
           /\ UNCHANGED <<stored, work, waiting, deleting, usable, issued, codes, relogged,
                          events>>
  <1>1. \A m \in Pairs : m < n => m \in 1..n - 1
    BY TypeFacts DEF Pairs
  <1>2. age' = [age EXCEPT ![n] = age[n] + 1] /\ age[n] \in 0..2 /\ age[n] < 2
    BY TypeFacts DEF Age
  <1> QED BY <1>1, <1>2, TypeFacts DEF Age, Nothing

LEMMA TypeInvNext == TypeInv /\ [Next]_vars => TypeInv'
  <1> SUFFICES ASSUME TypeInv, [Next]_vars PROVE TypeInv'
    OBVIOUS
  <1>0. TypeOK
    BY DEF TypeInv
  <1> USE TypeFacts
  <1>1. CASE \E w \in Workers : Moves(w) /\ Next
    <2>1. PICK w \in Workers : Moves(w)
      BY <1>1
    <2>2. /\ Others(w) /\ work'[w] \in Work /\ Keeps /\ UNCHANGED age
          /\ \/ UNCHANGED <<usable, issued>>
             \/ issued < MaxPairs /\ issued' = issued + 1 /\ usable' \subseteq usable \cup {issued + 1}
          /\ \/ UNCHANGED stored
             \/ \E row \in Rows : Upsert(row, work[w].access)
      BY <2>1, MovesFacts
    <2>3. stored' \in [Rows -> 0..MaxPairs]
      BY <2>2, WorkType, UpsertType
    <2>4. usable' \subseteq 1..issued' /\ issued' \in 0..MaxPairs
      BY <2>2
    <2>5. events' \subseteq Events
      BY <1>1, EventsGrow
    <2> QED BY <1>0, <2>2, <2>3, <2>4, <2>5, WorkKept DEF TypeInv, TypeOK, Keeps
  <1>2. CASE Authorize
    BY <1>0, <1>2 DEF TypeInv, TypeOK, Authorize, fortnoxVars, Nothing
  <1>3. CASE \E b \in Browsers : Callback(b)
    <2> PICK b \in Browsers : Callback(b)
      BY <1>3
    <2>1. events' \subseteq Events
      BY DEF Callback, Nothing
    <2>2. waiting' \in BOOLEAN /\ relogged' \in BOOLEAN
      BY DEF Callback
    <2>3. /\ UNCHANGED <<stored, deleting, usable, age, issued>>
          /\ Others(b) /\ work'[b] \in Work
          /\ codes' \in 0..MaxCodes
      BY CallbackMoves
    <2> QED BY <1>0, <2>1, <2>2, <2>3, WorkKept, WorkerSets DEF TypeInv, TypeOK
  <1>4. CASE Disconnect
    BY <1>0, <1>4 DEF TypeInv, TypeOK, Disconnect, fortnoxVars, Happens
  <1>5. CASE \E row \in Rows : DeleteRow(row)
    <2>1. stored' \in [Rows -> 0..MaxPairs]
      BY <1>5, UpsertType DEF DeleteRow
    <2>2. /\ deleting' \subseteq Rows
          /\ UNCHANGED <<work, waiting, usable, age, issued, codes, relogged, events>>
      BY <1>0, <1>5 DEF DeleteRow, Nothing, fortnoxVars, TypeOK
    <2> QED BY <1>0, <2>1, <2>2 DEF TypeInv, TypeOK
  <1>6. CASE \E n \in Pairs : Age(n)
    <2>1. /\ age' \in [Pairs -> 0..2]
          /\ UNCHANGED <<stored, work, waiting, deleting, usable, issued, codes, relogged,
                         events>>
      BY <1>6, AgeMoves
    <2> QED BY <1>0, <2>1 DEF TypeInv, TypeOK
  <1>7. CASE Crash
    <2>1. events' \subseteq Events /\ waiting' \in BOOLEAN
      BY <1>7 DEF Crash, Happens
    <2>2. \A w \in Workers : work'[w] \in Work
      BY <1>7, CrashMoves
    <2>3. \A v \in Workers :
             /\ work'[v].pc \in PCs
             /\ work'[v].access \in 0..MaxPairs /\ work'[v].refresh \in 0..MaxPairs
             /\ work'[v].fresh \in BOOLEAN /\ work'[v].attempt \in 1..MaxAttempts
      BY <2>2 DEF Work
    <2> QED BY <1>0, <1>7, <2>1, <2>3, CrashMoves DEF TypeInv, TypeOK
  <1>8. CASE UNCHANGED vars
    BY <1>0, <1>8 DEF TypeInv, TypeOK, vars
  <1> QED BY <1>1, <1>2, <1>3, <1>4, <1>5, <1>6, <1>7, <1>8, NextKinds

\* Every variable stays in its type.
THEOREM TypeCorrect == Spec => []TypeOK
  <1>1. TypeInv => TypeOK
    BY DEF TypeInv
  <1> QED BY <1>1, TypeInvInit, TypeInvNext, PTL DEF Spec

-----------------------------------------------------------------------------
(* Tokens grow old in their order *)

LEMMA AgedUnless ==
    ASSUME NEW s, NEW i \in Nat, NEW a, s.access <= i, s.refresh <= i, ~s.fresh,
           s.pc \notin Saving,
           s.pc \in {"refresh", "expiry", "use"} => s.access # 0
    PROVE  Aged(s, i, a)
  <1>1. s.fresh => s.access # 0 /\ a[s.access] < 2
    OBVIOUS
  <1>2. s.pc \in Saving => s.fresh
    OBVIOUS
  <1>3. s.pc \notin Saving \cup {"use"} => ~s.fresh
    OBVIOUS
  <1> QED BY <1>1, <1>2, <1>3, Zenon DEF Aged

LEMMA AgedFresh ==
    ASSUME NEW s, NEW i \in Nat, NEW a, s.access <= i, s.refresh <= i, s.fresh,
           s.access # 0, a[s.access] < 2, s.pc \in Saving \cup {"use"}
    PROVE  Aged(s, i, a)
  <1>1. s.fresh => s.access # 0 /\ a[s.access] < 2
    OBVIOUS
  <1>2. s.pc \in Saving => s.fresh
    OBVIOUS
  <1>3. s.pc \notin Saving \cup {"use"} => ~s.fresh
    OBVIOUS
  <1> QED BY <1>1, <1>2, <1>3, Zenon DEF Aged

LEMMA AgedFacts ==
    ASSUME NEW s, NEW i, NEW a, Aged(s, i, a)
    PROVE  /\ s.access <= i /\ s.refresh <= i
           /\ s.pc \in {"refresh", "expiry", "use"} => s.access # 0
  BY DEF Aged

LEMMA AgedBlank ==
    ASSUME NEW s, NEW i \in Nat, NEW a, Blank(s), s.pc \in {"idle", "hung", "access"}
    PROVE  Aged(s, i, a)
  <1>1. s.access = 0 /\ s.refresh = 0
    BY DEF Blank
  <1>2. s.access <= i /\ s.refresh <= i
    BY <1>1
  <1>3. s.pc \notin Saving
    BY DEF Saving
  <1>4. ~s.fresh
    BY DEF Blank
  <1> QED BY <1>1, <1>2, <1>3, <1>4, AgedUnless

LEMMA AgedSaving ==
    ASSUME NEW s, NEW i, NEW a, Aged(s, i, a), s.pc \in Saving
    PROVE  s.fresh /\ s.access # 0 /\ a[s.access] < 2
  BY DEF Aged

LEMMA AgedReading ==
    ASSUME NEW s, NEW i, NEW a, Aged(s, i, a), s.pc \notin Saving, s.pc # "use"
    PROVE  ~s.fresh
  BY DEF Aged

LEMMA AgedLater ==
    ASSUME NEW s \in Work, NEW i \in Nat, NEW j \in Nat, NEW a, i <= j, Aged(s, i, a)
    PROVE  Aged(s, j, a)
  <1>1. s.access \in Nat /\ s.refresh \in Nat
    BY TokensAssumption DEF Work
  <1>2. s.access <= j /\ s.refresh <= j
    BY <1>1, AgedFacts
  <1> QED BY <1>2, Zenon DEF Aged

LEMMA AgeInvInit == Init => AgeInv
  <1> SUFFICES ASSUME Init PROVE AgeInv
    OBVIOUS
  <1>1. issued = 0 /\ age = [n \in Pairs |-> 0] /\ stored = [row \in Rows |-> 0]
    BY DEF Init
  <1>2. \A w \in Workers : work[w] = Idle
    BY DEF Init
  <1>3. \A w \in Workers : Aged(work[w], issued, age)
    BY <1>1, <1>2, IdleBlank, AgedBlank
  <1>4. \A row \in Rows : stored[row] <= issued
    BY <1>1
  <1>5. \A n \in Pairs : age[n] = 0
    BY <1>1
  <1>6. \A m, n \in Pairs : m < n => age[m] >= age[n]
    BY <1>5
  <1> QED BY <1>3, <1>4, <1>5, <1>6 DEF AgeInv

LEMMA AgedMoved ==
    ASSUME TypeInv, AgeInv, NEW w \in Workers, Moves(w)
    PROVE  Aged(work'[w], issued', age)
  <1>1. PICK old \in Work : old = work[w]
    BY WorkType
  <1>2. PICK s : s = work'[w]
    OBVIOUS
  <1>3. Aged(old, issued, age) /\ issued \in Nat /\ 0 <= issued
    BY <1>1, TypeFacts DEF AgeInv
  <1>4. stored["access"] <= issued /\ stored["refresh"] <= issued
    BY TypeFacts DEF AgeInv
  <1>5. old.access <= issued /\ old.refresh <= issued
    BY <1>3, AgedFacts
  <1>6. CASE Drops(w)
    <2>1. Blank(s) /\ s.pc \in {"idle", "hung", "access"} /\ issued' = issued
      BY <1>2, <1>6 DEF Drops
    <2> QED BY <1>2, <1>3, <2>1, AgedBlank
  <1>7. CASE GetsAccess(w) \/ GetsRefresh(w) \/ Asks(w)
    <2>1. old.pc \in {"access", "refresh", "expiry"}
      BY <1>1, <1>7 DEF GetsAccess, GetsRefresh, Asks
    <2>2. ~old.fresh
      BY <1>3, <2>1, AgedReading DEF Saving
    <2>3. ~s.fresh
      BY <1>1, <1>2, <1>7, <2>2 DEF GetsAccess, GetsRefresh, Asks
    <2>4. issued' = issued
      BY <1>7 DEF GetsAccess, GetsRefresh, Asks
    <2>5. CASE GetsAccess(w)
      <3>1. /\ s.pc = "refresh" /\ s.access = stored["access"] /\ s.access # 0
            /\ s.refresh = old.refresh
        BY <1>1, <1>2, <2>5 DEF GetsAccess
      <3>2. s.pc \notin Saving /\ s.access <= issued /\ s.refresh <= issued
        BY <1>4, <1>5, <3>1 DEF Saving
      <3> QED BY <1>2, <1>3, <2>3, <2>4, <3>1, <3>2, AgedUnless
    <2>6. CASE GetsRefresh(w)
      <3>1. /\ s.pc = "expiry" /\ s.access = old.access /\ old.pc = "refresh"
            /\ s.refresh = stored["refresh"]
        BY <1>1, <1>2, <2>6 DEF GetsRefresh
      <3>2. s.access # 0
        BY <1>3, <3>1, AgedFacts
      <3>3. s.pc \notin Saving /\ s.access <= issued /\ s.refresh <= issued
        BY <1>4, <1>5, <3>1 DEF Saving
      <3> QED BY <1>2, <1>3, <2>3, <2>4, <3>2, <3>3, AgedUnless
    <2>7. CASE Asks(w)
      <3>1. s.pc = "request" /\ s.access = 0 /\ s.refresh = old.refresh
        BY <1>1, <1>2, <2>7 DEF Asks
      <3>2. s.pc \notin Saving /\ s.access <= issued /\ s.refresh <= issued
        BY <1>3, <1>5, <3>1 DEF Saving
      <3> QED BY <1>2, <1>3, <2>3, <2>4, <3>1, <3>2, AgedUnless
    <2> QED BY <1>7, <2>5, <2>6, <2>7
  <1>8. CASE Accepts(w)
    <2>1. /\ s.pc = "use" /\ s.access = old.access /\ s.refresh = 0
          /\ old.pc = "expiry" /\ issued' = issued
      BY <1>1, <1>2, <1>8 DEF Accepts
    <2>2. s.access # 0 /\ s.access <= issued /\ s.refresh <= issued
      BY <1>3, <1>5, <2>1, AgedFacts
    <2>3. s.fresh = Fresh(old.access)
      BY <1>1, <1>2, <1>8 DEF Accepts
    <2>4. CASE Fresh(old.access)
      <3>1. s.fresh /\ age[s.access] = 0
        BY <2>1, <2>3, <2>4 DEF Fresh
      <3>2. age[s.access] < 2 /\ s.pc \in Saving \cup {"use"}
        BY <2>1, <3>1
      <3> QED BY <1>2, <1>3, <2>1, <2>2, <3>1, <3>2, AgedFresh
    <2>5. CASE ~Fresh(old.access)
      <3>1. ~s.fresh /\ s.pc \notin Saving
        BY <2>1, <2>3, <2>5 DEF Saving
      <3> QED BY <1>2, <1>3, <2>1, <2>2, <3>1, AgedUnless
    <2> QED BY <2>4, <2>5
  <1>9. CASE Issues(w)
    <2>1. issued < MaxPairs /\ issued' = issued + 1
      BY <1>9 DEF Issues
    <2>2. PICK n \in Nat : n = issued + 1 /\ n # 0 /\ 0 <= n /\ age[n] = 0
      <3>1. issued + 1 \in Pairs /\ issued + 1 \in Nat
        BY <1>3, <2>1, TypeFacts DEF Pairs
      <3>2. age[issued + 1] = 0
        BY <1>3, <3>1 DEF AgeInv
      <3> QED BY <1>3, <3>1, <3>2
    <2>3. CASE /\ s.pc = "save access" /\ s.access = issued + 1
               /\ s.refresh = 0 /\ s.fresh
      <3>0. s.access = n /\ s.refresh = 0
        BY <2>2, <2>3, Zenon
      <3>1. s.pc \in Saving \cup {"use"}
        BY <2>3 DEF Saving
      <3>2. s.access <= n /\ s.refresh <= n
        BY <2>2, <3>0
      <3>3. s.access # 0 /\ age[s.access] < 2
        BY <2>2, <3>0
      <3> QED BY <1>2, <2>1, <2>2, <2>3, <3>1, <3>2, <3>3, AgedFresh
    <2>4. CASE Blank(s) /\ s.pc \in {"idle", "hung"}
      BY <1>2, <2>1, <2>2, <2>4, AgedBlank
    <2> QED BY <1>2, <1>9, <2>3, <2>4 DEF Issues
  <1>10. CASE Saves(w)
    <2>1. issued' = issued /\ old.pc \in Saving
      BY <1>1, <1>10 DEF Saves, SavesAccess, SavesRefresh, SavesExpiry, Saving
    <2>2. old.fresh /\ old.access # 0 /\ age[old.access] < 2
      BY <1>3, <2>1, AgedSaving
    <2>3. CASE SavesAccess(w) \/ SavesRefresh(w)
      <3>1. /\ s.pc \in Saving \cup {"use"}
            /\ s.access = old.access /\ s.refresh = old.refresh
        BY <1>1, <1>2, <2>3 DEF SavesAccess, SavesRefresh, Saving
      <3>2. s.fresh
        BY <1>1, <1>2, <2>2, <2>3 DEF SavesAccess, SavesRefresh
      <3>3. /\ s.access <= issued /\ s.refresh <= issued
            /\ s.access # 0 /\ age[s.access] < 2
        BY <1>5, <2>2, <3>1
      <3> QED BY <1>2, <1>3, <2>1, <3>1, <3>2, <3>3, AgedFresh
    <2>4. CASE SavesExpiry(w)
      <3>1. CASE Blank(s) /\ s.pc = "idle"
        BY <1>2, <1>3, <2>1, <3>1, AgedBlank
      <3>2. CASE s.pc = "use" /\ s.access = old.access /\ s.fresh
        <4>1. s.refresh = 0
          BY <1>2, <2>4 DEF SavesExpiry
        <4>2. /\ s.access <= issued /\ s.refresh <= issued
              /\ s.access # 0 /\ age[s.access] < 2 /\ s.pc \in Saving \cup {"use"}
          BY <1>3, <1>5, <2>2, <3>2, <4>1
        <4> QED BY <1>2, <1>3, <2>1, <3>2, <4>2, AgedFresh
      <3> QED BY <1>1, <1>2, <2>4, <3>1, <3>2 DEF SavesExpiry
    <2> QED BY <1>10, <2>3, <2>4 DEF Saves
  <1> QED BY <1>6, <1>7, <1>8, <1>9, <1>10 DEF Moves

\* AgeInv when the ages stay.
LEMMA AgeInvKept ==
    ASSUME TypeInv, AgeInv, UNCHANGED age, issued' \in Nat, issued <= issued',
           \A row \in Rows : stored'[row] <= issued',
           \A v \in Workers : Aged(work'[v], issued', age)
    PROVE  AgeInv'
  <1>1. \A n \in Pairs : n > issued' => age'[n] = 0
    BY TypeFacts DEF AgeInv, Pairs
  <1>2. \A m, n \in Pairs : m < n => age'[m] >= age'[n]
    BY DEF AgeInv
  <1>3. \A v \in Workers : Aged(work'[v], issued', age')
    OBVIOUS
  <1> QED BY <1>1, <1>2, <1>3 DEF AgeInv

LEMMA AgeInvMoves ==
    ASSUME TypeInv, AgeInv, NEW w \in Workers, Moves(w)
    PROVE  AgeInv'
  <1>1. /\ Others(w) /\ work'[w] \in Work /\ UNCHANGED age
        /\ UNCHANGED issued \/ issued' = issued + 1
        /\ \/ UNCHANGED stored
           \/ \E row \in Rows : Upsert(row, work[w].access)
    BY MovesFacts
  <1>2. issued \in Nat /\ issued' \in Nat /\ issued <= issued'
    BY <1>1, TypeFacts
  <1>3. \A row \in Rows : stored'[row] <= issued'
    <2>1. work[w].access <= issued /\ work[w].access \in 0..MaxPairs
      BY AgedFacts, WorkType DEF AgeInv
    <2>2. \A row \in Rows : stored[row] <= issued /\ stored[row] \in Nat
      BY TypeFacts DEF AgeInv
    <2>3. CASE UNCHANGED stored
      BY <1>2, <2>2, <2>3
    <2>4. CASE \E row \in Rows : Upsert(row, work[w].access)
      BY <1>2, <2>1, <2>2, <2>4, UpsertType
    <2> QED BY <1>1, <2>3, <2>4
  <1>4. ASSUME NEW v \in Workers
        PROVE  Aged(work'[v], issued', age)
    <2>1. CASE v = w
      BY <2>1, AgedMoved
    <2>2. CASE v # w
      <3>1. work'[v] = work[v] /\ work[v] \in Work /\ Aged(work[v], issued, age)
        BY <1>1, <2>2, OthersSame, WorkType DEF AgeInv
      <3> QED BY <1>2, <3>1, AgedLater
    <2> QED BY <2>1, <2>2
  <1> QED BY <1>1, <1>2, <1>3, <1>4, AgeInvKept

\* Time passes.
LEMMA AgeInvAges ==
    ASSUME TypeInv, AgeInv, NEW k \in Pairs, Age(k)
    PROVE  AgeInv'
  <1>1. /\ k <= issued /\ age[k] < 2
        /\ \A m \in Pairs : m < k => age[m] > age[k]
        /\ age[k] = 1 => ~\E w \in Workers : work[w].access = k /\ work[w].fresh
        /\ age' \in [Pairs -> 0..2] /\ age'[k] = age[k] + 1
        /\ \A m \in Pairs : m # k => age'[m] = age[m]
        /\ UNCHANGED <<stored, work, issued>>
    BY AgeMoves
  <1>2. issued \in Nat /\ \A n \in Pairs : age[n] \in 0..2 /\ n \in Nat
    BY TypeFacts DEF Pairs
  <1>3. \A n \in Pairs : n > issued => age'[n] = 0
    BY <1>1, <1>2 DEF AgeInv
  <1>4. \A m, n \in Pairs : m < n => age'[m] >= age'[n]
    BY <1>1, <1>2 DEF AgeInv
  <1>5. ASSUME NEW w \in Workers
        PROVE  Aged(work[w], issued, age')
    <2>1. PICK s \in Work : s = work[w]
      BY WorkType
    <2>2. Aged(s, issued, age) /\ s.access \in 0..MaxPairs
      BY <2>1, WorkType DEF AgeInv
    <2>3. s.fresh => s.access # 0 /\ age'[s.access] < 2
      <3>1. HAVE s.fresh
      <3>2. s.access # 0 /\ age[s.access] < 2
        BY <2>2, <3>1 DEF Aged
      <3>3. s.access \in Pairs
        BY <2>2, <3>2 DEF Pairs
      <3>4. s.access = k => age[k] # 1
        BY <1>1, <2>1, <3>1
      <3> QED BY <1>1, <1>2, <3>2, <3>3, <3>4
    <2>4. Aged(s, issued, age')
      BY <2>2, <2>3, Zenon DEF Aged
    <2> QED BY <2>1, <2>4
  <1>6. \A row \in Rows : stored'[row] <= issued'
    BY <1>1 DEF AgeInv
  <1>7. \A w \in Workers : Aged(work'[w], issued', age')
    BY <1>1, <1>5
  <1> QED BY <1>1, <1>3, <1>4, <1>6, <1>7 DEF AgeInv

LEMMA AgeInvNext ==
    ASSUME TypeInv, AgeInv, Next
    PROVE  AgeInv'
  <1>0. issued \in Nat
    BY TypeFacts
  <1>1. CASE \E w \in Workers : Moves(w)
    BY <1>1, AgeInvMoves
  <1>2. CASE Authorize \/ Disconnect
    <2>1. UNCHANGED <<stored, work, age, issued>>
      BY <1>2 DEF Authorize, Disconnect, fortnoxVars
    <2> QED BY <2>1 DEF AgeInv
  <1>3. CASE \E b \in Browsers : Callback(b)
    <2> PICK b \in Browsers : Callback(b)
      BY <1>3
    <2>1. b \in Workers
      BY WorkerSets
    <2>2. /\ UNCHANGED <<stored, age, issued>> /\ Others(b)
          /\ work[b].pc = "idle"
          /\ work'[b].access = work[b].access
          /\ work'[b].refresh = work[b].refresh
          /\ work'[b].fresh = work[b].fresh
          /\ UNCHANGED work \/ work'[b].pc = "exchange"
      BY CallbackMoves
    <2>3. ASSUME NEW v \in Workers
          PROVE  Aged(work'[v], issued, age)
      <3>1. PICK old, s : old = work[v] /\ s = work'[v]
        OBVIOUS
      <3>2. Aged(old, issued, age)
        BY <3>1 DEF AgeInv
      <3>3. CASE s = old
        BY <3>1, <3>2, <3>3
      <3>4. CASE v = b /\ s.pc = "exchange"
        <4>1. old.pc = "idle"
          BY <2>2, <3>1, <3>4
        <4>2. ~old.fresh /\ old.access <= issued /\ old.refresh <= issued
          BY <3>2, <4>1, AgedReading, AgedFacts DEF Saving
        <4>3. s.access = old.access /\ s.refresh = old.refresh /\ s.pc \notin Saving
          BY <2>2, <3>1, <3>4 DEF Saving
        <4>4. ~s.fresh
          BY <2>2, <3>1, <3>4, <4>2
        <4> QED BY <1>0, <3>1, <3>4, <4>2, <4>3, <4>4, AgedUnless
      <3> QED BY <2>1, <2>2, <3>1, <3>3, <3>4, OthersSame
    <2>4. issued' \in Nat /\ issued <= issued' /\ \A row \in Rows : stored'[row] <= issued'
      BY <1>0, <2>2 DEF AgeInv
    <2>5. \A v \in Workers : Aged(work'[v], issued', age)
      BY <2>2, <2>3
    <2> QED BY <2>2, <2>4, <2>5, AgeInvKept
  <1>4. CASE \E row \in Rows : DeleteRow(row)
    <2>1. UNCHANGED <<work, age, issued>>
      BY <1>4 DEF DeleteRow, fortnoxVars
    <2>2. 0 \in 0..MaxPairs
      BY TokensAssumption
    <2>3. \A row \in Rows : stored'[row] = 0 \/ stored'[row] = stored[row]
      BY <1>4, <2>2, UpsertType DEF DeleteRow
    <2>4. \A row \in Rows : stored'[row] <= issued'
      BY <1>0, <2>1, <2>3 DEF AgeInv
    <2> QED BY <2>1, <2>4 DEF AgeInv
  <1>5. CASE \E n \in Pairs : Age(n)
    BY <1>5, AgeInvAges
  <1>6. CASE Crash
    <2>1. UNCHANGED <<stored, age, issued>>
      BY <1>6, CrashMoves
    <2>2. \A v \in Workers : Blank(work'[v]) /\ work'[v].pc = "idle"
      BY <1>6, CrashMoves
    <2>3. issued' \in Nat /\ issued <= issued' /\ \A row \in Rows : stored'[row] <= issued'
      BY <1>0, <2>1 DEF AgeInv
    <2>4. \A v \in Workers : Aged(work'[v], issued', age)
      BY <2>2, <2>3, AgedBlank
    <2> QED BY <2>1, <2>3, <2>4, AgeInvKept
  <1> QED BY <1>1, <1>2, <1>3, <1>4, <1>5, <1>6, NextKinds

-----------------------------------------------------------------------------
(* As long as nobody disconnects or logs in again, only a login connects *)

LEMMA CleanBefore ==
    ASSUME TypeInv, Next, Clean'
    PROVE  Clean /\ (Clean /\ LoginInv => ~Disconnect /\ \A row \in Rows : ~DeleteRow(row))
  <1>1. Clean
    <2>1. relogged => relogged'
      <3>1. CASE \E w \in Workers : Moves(w)
        BY <3>1, MovesFacts DEF Keeps
      <3>2. CASE \E b \in Browsers : Callback(b)
        BY <3>2, CallbackMoves
      <3>3. CASE Crash
        BY <3>3, CrashMoves
      <3>4. CASE Authorize \/ Disconnect \/ (\E row \in Rows : DeleteRow(row))
                 \/ \E n \in Pairs : Age(n)
        BY <3>4 DEF Authorize, Disconnect, DeleteRow, Age, fortnoxVars
      <3> QED BY <3>1, <3>2, <3>3, <3>4, NextKinds
    <2> QED BY <2>1, EventsGrow DEF Clean, Without
  <1>2. ~Disconnect
    BY DEF Disconnect, Happens, Clean, Without
  <1>3. LoginInv => \A row \in Rows : ~DeleteRow(row)
    BY DEF LoginInv, DeleteRow
  <1> QED BY <1>1, <1>2, <1>3

LEMMA LoginFacts ==
    ASSUME LoginInv, NEW w \in Workers
    PROVE  /\ deleting = {}
           /\ ~Connected => stored["refresh"] = 0 /\ stored["expiry"] = 0
           /\ w \in Clients /\ ~Connected => work[w].pc \in {"idle", "access"}
           /\ w \in Browsers =>
                  /\ work[w].pc \in {"exchange", "save access"} => ~Connected
                  /\ work[w].pc \in {"save refresh", "save expiry"} => Connected
                  /\ \A c \in Browsers : Running(w) /\ Running(c) => c = w
  BY DEF LoginInv

\* A step of w that does not begin a login.
LEMMA LoginKept ==
    ASSUME TypeInv, LoginInv, NEW w \in Workers, Others(w), Keeps,
           Connected => Connected',
           ~Connected' => UNCHANGED stored,
           w \in Clients /\ ~Connected' => work'[w].pc \in {"idle", "access"},
           w \in Browsers =>
               /\ Running(w)' => Running(w)
               /\ work'[w].pc \in {"exchange", "save access"} => ~Connected'
               /\ work'[w].pc \in {"save refresh", "save expiry"} => Connected',
           Connected' => Connected \/ (w \in Browsers /\ Running(w))
    PROVE  LoginInv'
  <1>1. \A v \in Workers : v # w => work'[v] = work[v]
    BY OthersSame
  <1>2. deleting' = {}
    BY LoginFacts DEF Keeps
  <1>3. ASSUME ~Connected'
        PROVE  /\ stored'["refresh"] = 0 /\ stored'["expiry"] = 0
               /\ \A v \in Clients : work'[v].pc \in {"idle", "access"}
    BY <1>1, <1>3, LoginFacts, WorkerSets
  <1>4. \A b \in Browsers : Running(b)' => Running(b)
    BY <1>1, WorkerSets DEF Running
  <1>5. \A b, c \in Browsers : Running(b)' /\ Running(c)' => b = c
    BY <1>4 DEF LoginInv
  <1>6. ASSUME NEW b \in Browsers
        PROVE  /\ work'[b].pc \in {"exchange", "save access"} => ~Connected'
               /\ work'[b].pc \in {"save refresh", "save expiry"} => Connected'
    <2>1. CASE b = w
      BY <2>1
    <2>2. CASE b # w
      <3>1. b \in Workers /\ work'[b] = work[b]
        BY <1>1, <2>2, WorkerSets
      <3>2. work[b].pc \in {"exchange", "save access"} => Running(b) /\ ~Connected
        BY <3>1, LoginFacts DEF Running
      <3>3. ~(Running(b) /\ w \in Browsers /\ Running(w))
        BY <2>2 DEF LoginInv
      <3> QED BY <3>1, <3>2, <3>3, LoginFacts
    <2> QED BY <2>1, <2>2
  <1> QED BY <1>2, <1>3, <1>5, <1>6, Zenon DEF LoginInv

LEMMA LoginMoves ==
    ASSUME TypeInv, AgeInv, LoginInv, NEW w \in Workers, Moves(w)
    PROVE  LoginInv'
  <1>0. Others(w) /\ Keeps
    BY MovesFacts
  <1>1. CASE Drops(w)
    <2>1. /\ UNCHANGED stored /\ (Connected' <=> Connected)
          /\ work'[w].pc \in {"idle", "hung"} \/ (work'[w].pc = "access" /\ w \in Clients)
          /\ work'[w].pc = "hung" => work[w].pc \in {"request", "exchange"}
      BY <1>1 DEF Drops, Connected
    <2>2. w \in Clients /\ ~Connected' => work'[w].pc \in {"idle", "access"}
      BY <2>1, LoginFacts
    <2>3. w \in Browsers => work'[w].pc \in {"idle", "hung"}
      BY <2>1, WorkerSets
    <2>4. w \in Browsers =>
              /\ Running(w)' => Running(w)
              /\ work'[w].pc \in {"exchange", "save access"} => ~Connected'
              /\ work'[w].pc \in {"save refresh", "save expiry"} => Connected'
      BY <2>3 DEF Running
    <2> QED BY <1>0, <2>1, <2>2, <2>4, LoginKept
  <1>2. CASE GetsAccess(w) \/ GetsRefresh(w) \/ Accepts(w) \/ Asks(w)
    <2>1. /\ UNCHANGED stored /\ (Connected' <=> Connected)
          /\ work[w].pc \in {"access", "refresh", "expiry"}
          /\ work[w].pc = "access" => Connected
      BY <1>2 DEF GetsAccess, GetsRefresh, Accepts, Asks, Connected
    <2>2. w \in Clients => Connected
      BY <2>1, LoginFacts
    <2>3. work'[w].pc \in {"refresh", "expiry", "use", "request"}
      BY <1>2 DEF GetsAccess, GetsRefresh, Accepts, Asks
    <2>4. w \in Browsers =>
              /\ Running(w)' => Running(w)
              /\ work'[w].pc \in {"exchange", "save access"} => ~Connected'
              /\ work'[w].pc \in {"save refresh", "save expiry"} => Connected'
      BY <2>1, <2>3 DEF Running
    <2> QED BY <1>0, <2>1, <2>2, <2>4, LoginKept
  <1>3. CASE Issues(w)
    <2>1. /\ UNCHANGED stored /\ (Connected' <=> Connected)
          /\ work'[w].pc \in {"save access", "idle", "hung"}
          /\ \/ w \in Clients /\ work[w].pc = "request"
             \/ w \in Browsers /\ work[w].pc = "exchange"
      BY <1>3 DEF Issues, Connected
    <2>2. w \in Clients => Connected
      BY <2>1, LoginFacts, WorkerSets
    <2>3. w \in Browsers =>
              /\ Running(w)' => Running(w)
              /\ work'[w].pc \in {"exchange", "save access"} => ~Connected'
              /\ work'[w].pc \in {"save refresh", "save expiry"} => Connected'
      BY <2>1, LoginFacts, WorkerSets DEF Running, Saving
    <2> QED BY <1>0, <2>1, <2>2, <2>3, LoginKept
  <1>4. CASE Saves(w)
    <2>1. /\ work[w].pc \in Saving
          /\ work'[w].pc \in {"save refresh", "save expiry", "idle", "use"}
      BY <1>4 DEF Saves, SavesAccess, SavesRefresh, SavesExpiry, Saving
    <2>2. Connected'
      <3>1. CASE SavesAccess(w)
        <4>1. stored'["access"] = work[w].access
          BY <3>1, UpsertType, WorkType, TypeFacts DEF SavesAccess
        <4>2. work[w].access # 0
          BY <2>1, AgedSaving DEF AgeInv
        <4> QED BY <4>1, <4>2 DEF Connected
      <3>2. CASE SavesRefresh(w) \/ SavesExpiry(w)
        <4>1. work[w].pc \in {"save refresh", "save expiry"}
          BY <3>2 DEF SavesRefresh, SavesExpiry
        <4>2. Connected
          BY <4>1, LoginFacts, WorkerSets
        <4>3. stored'["access"] = stored["access"]
          BY <3>2, UpsertType, WorkType, TypeFacts, Zenon DEF SavesRefresh, SavesExpiry
        <4> QED BY <4>2, <4>3 DEF Connected
      <3> QED BY <1>4, <3>1, <3>2 DEF Saves
    <2>3. w \in Clients => Connected
      BY <2>1, LoginFacts DEF Saving
    <2>4. Running(w)
      BY <2>1 DEF Running, Saving
    <2>5. w \in Browsers =>
              /\ Running(w)' => Running(w)
              /\ work'[w].pc \in {"exchange", "save access"} => ~Connected'
      BY <2>1, <2>4
    <2> QED BY <1>0, <2>2, <2>3, <2>4, <2>5, WorkerSets, LoginKept
  <1> QED BY <1>1, <1>2, <1>3, <1>4 DEF Moves

LEMMA LoginInvNext ==
    ASSUME TypeInv, AgeInv, LoginInv, Next, Clean'
    PROVE  LoginInv'
  <1>0. ~Disconnect /\ \A row \in Rows : ~DeleteRow(row)
    BY CleanBefore
  <1>1. CASE \E w \in Workers : Moves(w)
    BY <1>1, LoginMoves
  <1>2. CASE Authorize
    <2>1. UNCHANGED <<stored, work, deleting>>
      BY <1>2 DEF Authorize
    <2> QED BY <2>1 DEF LoginInv, Connected, Running
  <1>3. CASE \E b \in Browsers : Callback(b)
    <2> PICK b \in Browsers : Callback(b)
      BY <1>3
    <2>1. /\ UNCHANGED <<stored, deleting>> /\ b \in Workers
          /\ \A v \in Workers : v # b => work'[v] = work[v]
          /\ UNCHANGED work \/ work'[b].pc = "exchange"
          /\ UNCHANGED work \/ ~Beside
      BY CallbackMoves, OthersSame, WorkerSets DEF Clean
    <2>2. CASE UNCHANGED work
      BY <2>1, <2>2 DEF LoginInv, Connected, Running
    <2>3. CASE work'[b].pc = "exchange" /\ ~Beside
      <3>1. \A v \in Clients : work'[v] = work[v]
        BY <2>1, WorkerSets
      <3>2. ~Connected /\ ~Connected' /\ \A c \in Browsers : ~Running(c)
        BY <2>1, <2>3 DEF Beside, Connected
      <3>3. \A c \in Browsers : c # b => work'[c] = work[c]
        BY <2>1, WorkerSets
      <3>4. \A c \in Browsers : c # b => ~Running(c)' /\ work'[c].pc \in {"idle", "hung"}
        BY <3>2, <3>3 DEF Running
      <3>5. ASSUME NEW c \in Browsers
            PROVE  /\ work'[c].pc \notin {"save refresh", "save expiry"}
        BY <2>3, <3>4
      <3> QED BY <2>1, <3>1, <3>2, <3>4, <3>5 DEF LoginInv
    <2> QED BY <2>1, <2>2, <2>3
  <1>4. CASE \E n \in Pairs : Age(n)
    <2>1. UNCHANGED <<stored, work, deleting>>
      BY <1>4, AgeMoves
    <2> QED BY <2>1 DEF LoginInv, Connected, Running
  <1>5. CASE Crash
    <2>1. /\ UNCHANGED stored /\ deleting' = {}
          /\ \A v \in Workers : work'[v].pc = "idle"
      BY <1>5, CrashMoves
    <2> QED BY <2>1, WorkerSets DEF LoginInv, Connected, Running
  <1> QED BY <1>0, <1>1, <1>2, <1>3, <1>4, <1>5, NextKinds

-----------------------------------------------------------------------------
(* The pair in the rows *)

LEMMA PairFacts ==
    ASSUME TypeInv, PairInv, NEW v \in Workers
    PROVE  /\ \A w \in Workers : Holds(v) /\ Holds(w) => v = w
           /\ work[v].refresh \in usable => work[v].refresh = stored["refresh"]
           /\ Holds(v) => /\ work[v].access \in usable
                          /\ stored["refresh"] \notin usable
                          /\ \A w \in Workers : work[w].refresh \notin usable
           /\ work[v].pc = "save access" => stored["access"] < work[v].access
           /\ work[v].pc = "save refresh" => stored["access"] = work[v].access
           /\ work[v].pc # "save access" => work[v].access <= stored["access"]
           /\ work[v].pc = "use" /\ work[v].access = stored["access"] => work[v].fresh
  BY DEF PairInv

\* A step of w that ends or goes on with a call and stores and issues nothing.
LEMMA PairKept ==
    ASSUME TypeInv, PairInv, NEW w \in Workers, Others(w),
           UNCHANGED <<stored, usable>>, events \subseteq events',
           Holds(w) => "write" \in events',
           work'[w].pc \notin {"save access", "save refresh"},
           work'[w].refresh \in usable => work'[w].refresh = stored["refresh"],
           work'[w].access <= stored["access"],
           work'[w].pc = "use" /\ work'[w].access = stored["access"] => work'[w].fresh
    PROVE  PairInv'
  <1>1. \A v \in Workers : v # w => work'[v] = work[v]
    BY OthersSame
  <1>2. \A v \in Workers : Holds(v)' => v # w /\ Holds(v)
    BY <1>1 DEF Holds
  <1>3. \A u, v \in Workers : Holds(u)' /\ Holds(v)' => u = v
    BY <1>2 DEF PairInv
  <1>4. ASSUME NEW v \in Workers
        PROVE  /\ work'[v].refresh \in usable => work'[v].refresh = stored["refresh"]
               /\ work'[v].pc # "save access" => work'[v].access <= stored["access"]
    BY <1>1, PairFacts
  <1>5. ASSUME NEW v \in Workers, Holds(v)'
        PROVE  /\ work'[v].access \in usable /\ stored["refresh"] \notin usable
               /\ \A u \in Workers : work'[u].refresh \notin usable
    BY <1>1, <1>2, <1>4, <1>5, PairFacts
  <1>6. ASSUME NEW v \in Workers
        PROVE  /\ work'[v].pc = "save access" => stored["access"] < work'[v].access
               /\ work'[v].pc = "save refresh" => stored["access"] = work'[v].access
    BY <1>1, PairFacts
  <1>7. ASSUME NEW v \in Workers
        PROVE  work'[v].pc = "use" /\ work'[v].access = stored["access"] => work'[v].fresh
    <2>1. CASE v = w
      BY <2>1
    <2>2. CASE v # w
      BY <1>1, <2>2, PairFacts
    <2> QED BY <2>1, <2>2
  <1>8. stored["expiry"] <= stored["access"]
    BY DEF PairInv
  <1>9. Without({"crash", "write"})' =>
            \/ stored["access"] = stored["refresh"]
            \/ \E v \in Workers : work'[v].pc = "save refresh"
    <2> SUFFICES ASSUME Without({"crash", "write"})', stored["access"] # stored["refresh"]
                 PROVE  \E v \in Workers : work'[v].pc = "save refresh"
      OBVIOUS
    <2>1. Without({"crash", "write"}) /\ ~Holds(w)
      BY DEF Without
    <2>2. PICK v \in Workers : work[v].pc = "save refresh"
      BY <2>1 DEF PairInv
    <2>3. v # w
      BY <2>1, <2>2 DEF Holds
    <2> QED BY <1>1, <2>2, <2>3
  <1> QED BY <1>3, <1>4, <1>5, <1>6, <1>7, <1>8, <1>9, Zenon DEF PairInv

\* A token whose expiry row says it is fresh is fresh: the row is not later.
LEMMA FreshRow ==
    ASSUME TypeInv, AgeInv, PairInv, Fresh(stored["expiry"])
    PROVE  Fresh(stored["access"])
  <1>1. PICK e, a \in 0..MaxPairs : e = stored["expiry"] /\ a = stored["access"]
    BY TypeFacts
  <1>2. e <= a /\ e \in Pairs /\ age[e] = 0
    BY <1>1 DEF PairInv, Fresh
  <1>3. a \in Pairs /\ age[a] \in 0..2
    BY <1>1, <1>2, TypeFacts DEF Pairs
  <1>4. e < a => age[e] >= age[a]
    BY <1>2, <1>3 DEF AgeInv
  <1>5. age[a] = 0
    BY <1>2, <1>3, <1>4
  <1> QED BY <1>1, <1>3, <1>5 DEF Fresh

LEMMA ReadsKeepPair ==
    ASSUME TypeInv, AgeInv, PairInv, NEW w \in Workers, events \subseteq events',
           Drops(w) \/ GetsAccess(w) \/ GetsRefresh(w) \/ Accepts(w) \/ Asks(w)
    PROVE  PairInv'
  <1>1. 0 \notin usable /\ 0 <= stored["access"]
    BY TypeFacts
  <1>2. /\ work[w].refresh \in usable => work[w].refresh = stored["refresh"]
        /\ work[w].pc # "save access" => work[w].access <= stored["access"]
    BY PairFacts
  <1>3. stored["access"] <= stored["access"]
    BY TypeFacts
  <1>4. CASE Drops(w)
    <2>1. work'[w].access = 0 /\ work'[w].refresh = 0
      BY <1>4 DEF Drops, Blank
    <2>2. work'[w].pc \notin {"save access", "save refresh", "use"}
      BY <1>4 DEF Drops
    <2> QED BY <1>1, <1>4, <2>1, <2>2, PairKept DEF Drops
  <1>5. CASE GetsAccess(w)
    <2>1. /\ work'[w].pc \notin {"save access", "save refresh", "use"} /\ ~Holds(w)
      BY <1>5 DEF GetsAccess, Holds
    <2> QED BY <1>2, <1>3, <1>5, <2>1, PairKept DEF GetsAccess
  <1>6. CASE GetsRefresh(w)
    <2>1. /\ work'[w].pc \notin {"save access", "save refresh", "use"} /\ ~Holds(w)
          /\ work[w].pc # "save access"
      BY <1>6 DEF GetsRefresh, Holds
    <2> QED BY <1>2, <1>3, <1>6, <2>1, PairKept DEF GetsRefresh
  <1>7. CASE Asks(w)
    <2>1. /\ work'[w].pc \notin {"save access", "save refresh", "use"} /\ ~Holds(w)
      BY <1>7 DEF Asks, Holds
    <2>2. work'[w].access <= stored["access"]
      BY <1>1, <1>7 DEF Asks
    <2> QED BY <1>2, <1>7, <2>1, <2>2, PairKept DEF Asks
  <1>8. CASE Accepts(w)
    <2>1. /\ work'[w].pc \notin {"save access", "save refresh"} /\ ~Holds(w)
          /\ work[w].pc # "save access"
      BY <1>8 DEF Accepts, Holds
    <2>2. Fresh(stored["access"])
      BY <1>8, FreshRow DEF Accepts
    <2>3. work'[w].access = stored["access"] => work'[w].fresh
      BY <1>8, <2>2, Zenon DEF Accepts
    <2>4. work'[w].access <= stored["access"] /\ work'[w].refresh \notin usable
      BY <1>1, <1>2, <1>8, <2>1 DEF Accepts
    <2> QED BY <1>8, <2>1, <2>3, <2>4, PairKept DEF Accepts
  <1> QED BY <1>4, <1>5, <1>6, <1>7, <1>8

\* Fortnox issues the next pair to w, at a moment when nobody has one to save.
LEMMA IssueKeepsPair ==
    ASSUME TypeInv, AgeInv, LoginInv, PairInv, NEW w \in Workers,
           events \subseteq events', Issues(w)
    PROVE  PairInv'
  <1>1. PICK n \in Nat : n = issued + 1
    BY TypeFacts
  <1>2. /\ \A k \in usable : k \in Nat /\ k < n
        /\ \A row \in Rows : stored[row] < n /\ stored[row] \in Nat
    BY <1>1, TypeFacts DEF AgeInv
  <1>3. \A v \in Workers : work[v].refresh # n
    <2> TAKE v \in Workers
    <2>1. PICK k \in 0..MaxPairs : k = work[v].refresh
      BY WorkType
    <2>2. k <= issued
      BY <2>1, AgedFacts DEF AgeInv
    <2> QED BY <1>1, <2>1, <2>2, TypeFacts
  <1>4. \A v \in Workers : v # w => work'[v] = work[v]
    BY OthersSame DEF Issues
  <1>5. /\ UNCHANGED stored /\ n \in usable'
        /\ \A k \in usable' : k \in usable \/ k = n
        /\ ~Holds(w) /\ work[w].pc # "save access"
    BY <1>1 DEF Issues, Holds
  \* Neither the stored refresh token nor one that was read can be used now.
  <1>6. /\ \A v \in Workers : ~Holds(v)
        /\ stored["refresh"] \notin usable'
        /\ \A v \in Workers : work[v].refresh \notin usable'
    <2>1. CASE /\ w \in Clients /\ work[w].refresh \in usable
               /\ usable' = (usable \ {work[w].refresh}) \cup {issued + 1}
      <3>1. work[w].refresh = stored["refresh"]
        BY <2>1, PairFacts
      <3>2. \A v \in Workers : ~Holds(v)
        BY <2>1, PairFacts
      <3>3. stored["refresh"] \notin usable'
        BY <1>1, <1>2, <2>1, <3>1, TypeFacts
      <3>4. ASSUME NEW v \in Workers, work[v].refresh \in usable' PROVE FALSE
        <4>1. work[v].refresh \in usable
          BY <1>3, <1>5, <3>4
        <4>2. work[v].refresh = stored["refresh"]
          BY <4>1, PairFacts
        <4> QED BY <3>3, <3>4, <4>2
      <3> QED BY <3>2, <3>3, <3>4
    <2>2. CASE w \in Browsers /\ work[w].pc = "exchange" /\ usable' = usable \cup {issued + 1}
      <3>1. stored["refresh"] = 0 /\ \A v \in Clients : work[v].pc \in {"idle", "access"}
        BY <2>2 DEF LoginInv
      <3>2. ASSUME NEW v \in Workers, Holds(v) PROVE FALSE
        <4>1. v \in Browsers
          BY <3>1, <3>2, WorkerSets DEF Holds
        <4>2. Running(v) /\ Running(w)
          BY <2>2, <3>2 DEF Holds, Running
        <4>3. v = w
          BY <2>2, <4>1, <4>2 DEF LoginInv
        <4> QED BY <2>2, <3>2, <4>3 DEF Holds
      <3>3. 0 \notin usable /\ n # 0
        BY <1>1, TypeFacts
      <3>4. stored["refresh"] \notin usable'
        BY <1>5, <3>1, <3>3
      <3>5. ASSUME NEW v \in Workers, work[v].refresh \in usable' PROVE FALSE
        <4>1. work[v].refresh \in usable
          BY <1>3, <1>5, <3>5
        <4>2. work[v].refresh = stored["refresh"]
          BY <4>1, PairFacts
        <4> QED BY <3>4, <3>5, <4>2
      <3> QED BY <3>2, <3>4, <3>5
    <2> QED BY <2>1, <2>2 DEF Issues
  <1>7. /\ work'[w].refresh = 0 /\ 0 \notin usable'
        /\ \/ work'[w].pc = "save access"
           \/ work'[w].pc \in {"idle", "hung"} /\ events' \cap {"lost", "hang"} # {}
        /\ work'[w].pc = "save access" => work'[w].access = n
        /\ work'[w].pc # "save access" => work'[w].access = 0
    <2>1. 0 \notin usable'
      <3>1. 0 \notin usable /\ n # 0
        BY <1>1, TypeFacts
      <3> QED BY <1>5, <3>1
    <2>2. CASE /\ work'[w].pc = "save access" /\ work'[w].access = issued + 1
               /\ work'[w].refresh = 0
      <3>1. work'[w].access = n
        BY <1>1, <2>2, Zenon
      <3> QED BY <2>1, <2>2, <3>1, Zenon
    <2>3. CASE /\ Blank(work'[w]) /\ work'[w].pc \in {"idle", "hung"}
               /\ events' \cap {"lost", "hang"} # {}
      <3>1. work'[w].access = 0 /\ work'[w].refresh = 0
        BY <2>3 DEF Blank
      <3>2. work'[w].pc # "save access"
        BY <2>3
      <3> QED BY <2>1, <2>3, <3>1, <3>2, Zenon
    <2> QED BY <2>2, <2>3 DEF Issues
  <1>8. \A v \in Workers : work'[v].refresh \notin usable'
    BY <1>4, <1>6, <1>7
  <1>9. \A v \in Workers : Holds(v)' => v = w /\ work'[v].pc = "save access"
    BY <1>4, <1>6, <1>7 DEF Holds
  <1>10. ASSUME NEW v \in Workers, Holds(v)'
         PROVE  work'[v].access \in usable' /\ stored["access"] < work'[v].access
    <2>1. work'[v].access = n
      BY <1>7, <1>9, <1>10
    <2> QED BY <1>2, <1>5, <2>1, TypeFacts
  <1>11. ASSUME NEW v \in Workers
         PROVE  /\ work'[v].pc = "save access" => stored["access"] < work'[v].access
                /\ work'[v].pc # "save refresh"
                /\ work'[v].pc # "save access" => work'[v].access <= stored["access"]
    <2>1. CASE v = w
      <3>1. work'[v].pc = "save access" => stored["access"] < work'[v].access
        BY <1>10 DEF Holds
      <3>2. 0 <= stored["access"]
        BY TypeFacts
      <3> QED BY <1>7, <2>1, <3>1, <3>2
    <2>2. CASE v # w
      <3>1. work'[v] = work[v] /\ ~Holds(v)
        BY <1>4, <1>6, <2>2
      <3> QED BY <3>1, PairFacts DEF Holds
    <2> QED BY <2>1, <2>2
  <1>12. ASSUME NEW v \in Workers
         PROVE  work'[v].pc = "use" /\ work'[v].access = stored["access"] => work'[v].fresh
    <2>1. CASE v = w
      BY <1>7, <2>1
    <2>2. CASE v # w
      BY <1>4, <2>2, PairFacts
    <2> QED BY <2>1, <2>2
  <1>13. stored["expiry"] <= stored["access"]
    BY DEF PairInv
  <1>14. Without({"crash", "write"})' => stored["access"] = stored["refresh"]
    <2>1. Without({"crash", "write"})' => Without({"crash", "write"})
      BY DEF Without
    <2> QED BY <1>6, <2>1 DEF PairInv, Holds
  <1>16. \A u, v \in Workers : Holds(u)' /\ Holds(v)' => u = v
    BY <1>9
  <1> QED BY <1>5, <1>6, <1>8, <1>10, <1>11, <1>12, <1>13, <1>14, <1>16, Zenon
         DEF PairInv

\* The pair's access token is stored: it is newer than the one that was there.
LEMMA SaveAccessKeepsPair ==
    ASSUME TypeInv, AgeInv, PairInv, NEW w \in Workers,
           events \subseteq events', SavesAccess(w)
    PROVE  PairInv'
  <1>1. PICK n, a \in 0..MaxPairs : n = work[w].access /\ a = stored["access"]
    BY WorkType, TypeFacts
  <1>2. Holds(w) /\ a < n
    BY <1>1, PairFacts DEF SavesAccess, Holds
  <1>3. /\ \A v \in Workers : v # w => work'[v] = work[v]
        /\ usable' = usable
        /\ stored'["access"] = n
        /\ stored'["refresh"] = stored["refresh"] /\ stored'["expiry"] = stored["expiry"]
    BY <1>1, OthersSame, UpsertType, TypeFacts DEF SavesAccess
  <1>4. /\ work'[w].pc = "save refresh"
        /\ work'[w].access = n /\ work'[w].refresh = work[w].refresh
    BY <1>1 DEF SavesAccess
  <1>5. \A v \in Workers : Holds(v)' => v = w
    BY <1>2, <1>3, PairFacts DEF Holds
  <1>6. /\ n \in usable /\ stored["refresh"] \notin usable
        /\ \A v \in Workers : work'[v].refresh \notin usable
    BY <1>1, <1>2, <1>3, <1>4, PairFacts
  <1>7. \A v \in Workers : v # w => work[v].pc \notin {"save access", "save refresh"}
    BY <1>2, PairFacts DEF Holds
  <1>8. \A v \in Workers : v # w => work'[v].access < n
    <2> SUFFICES ASSUME NEW v \in Workers, v # w PROVE work[v].access < n
      BY <1>3
    <2>1. PICK k \in 0..MaxPairs : k = work[v].access
      BY WorkType
    <2>2. k <= a
      BY <1>1, <1>7, <2>1, PairFacts
    <2> QED BY <1>2, <2>1, <2>2
  <1>9. ASSUME NEW v \in Workers
        PROVE  /\ work'[v].pc # "save access"
               /\ work'[v].pc = "save refresh" => n = work'[v].access
               /\ work'[v].access <= n
               /\ work'[v].pc = "use" => work'[v].access # n
    <2>1. CASE v = w
      <3>1. work'[w].pc \notin {"save access", "use"}
        BY <1>4
      <3>2. n = work'[w].access
        BY <1>4
      <3>3. work'[w].access <= n
        BY <1>1, <3>2
      <3> QED BY <2>1, <3>1, <3>2, <3>3, Zenon
    <2>2. CASE v # w
      <3>1. PICK k \in 0..MaxPairs : k = work'[v].access
        BY <1>3, <2>2, WorkType
      <3>2. k < n
        BY <1>8, <2>2, <3>1
      <3>3. k <= n /\ k # n
        BY <3>2
      <3> QED BY <1>3, <1>7, <2>2, <3>1, <3>3
    <2> QED BY <2>1, <2>2
  <1>10. stored["expiry"] <= n
    <2>1. PICK e \in 0..MaxPairs : e = stored["expiry"]
      BY TypeFacts
    <2>2. e <= a
      BY <1>1, <2>1 DEF PairInv
    <2>3. e <= n
      BY <1>2, <2>2
    <2> QED BY <2>1, <2>3
  <1>11. Holds(w)'
    BY <1>4 DEF Holds
  <1>12. \A u, v \in Workers : Holds(u)' /\ Holds(v)' => u = v
    BY <1>5
  <1>13. ASSUME NEW v \in Workers, Holds(v)' PROVE work'[v].access \in usable
    BY <1>4, <1>5, <1>6, <1>13
  <1>14. ASSUME NEW v \in Workers
         PROVE  work'[v].pc = "use" /\ work'[v].access = n => work'[v].fresh
    BY <1>9
  <1> QED BY <1>3, <1>4, <1>6, <1>9, <1>10, <1>11, <1>12, <1>13, <1>14, Zenon
         DEF PairInv, Connected

\* The refresh token is stored: the rows hold one pair again.
LEMMA SaveRefreshKeepsPair ==
    ASSUME TypeInv, AgeInv, PairInv, NEW w \in Workers,
           events \subseteq events', SavesRefresh(w)
    PROVE  PairInv'
  <1>1. PICK n \in 0..MaxPairs : n = work[w].access
    BY WorkType
  <1>2. Holds(w) /\ stored["access"] = n /\ n \in usable
    BY <1>1, PairFacts DEF SavesRefresh, Holds
  <1>3. /\ \A v \in Workers : v # w => work'[v] = work[v]
        /\ usable' = usable
        /\ stored'["refresh"] = n
        /\ stored'["access"] = stored["access"] /\ stored'["expiry"] = stored["expiry"]
    BY <1>1, OthersSame, UpsertType, TypeFacts DEF SavesRefresh
  <1>4. /\ work'[w].pc = "save expiry"
        /\ work'[w].access = n /\ work'[w].refresh = work[w].refresh
    BY <1>1 DEF SavesRefresh
  <1>5. \A v \in Workers : ~Holds(v)'
    BY <1>2, <1>3, <1>4, PairFacts DEF Holds
  <1>6. \A v \in Workers : work'[v].refresh \notin usable
    BY <1>2, <1>3, <1>4, PairFacts
  <1>7. ASSUME NEW v \in Workers
        PROVE  /\ work'[v].pc \notin {"save access", "save refresh"}
               /\ work'[v].access <= n
    <2>1. n <= n
      BY <1>1
    <2>2. CASE v = w
      BY <1>4, <2>1, <2>2
    <2>3. CASE v # w
      <3>1. work[v].pc \notin {"save access", "save refresh"}
        BY <1>2, <2>3, PairFacts DEF Holds
      <3> QED BY <1>2, <1>3, <2>3, <3>1, PairFacts
    <2> QED BY <2>2, <2>3
  <1>8. ASSUME NEW v \in Workers
        PROVE  work'[v].pc = "use" /\ work'[v].access = n => work'[v].fresh
    <2>1. CASE v = w
      BY <1>4, <2>1
    <2>2. CASE v # w
      BY <1>2, <1>3, <2>2, PairFacts
    <2> QED BY <2>1, <2>2
  <1>9. stored["expiry"] <= n
    BY <1>2 DEF PairInv
  <1>10. \A v \in Workers : work'[v].pc # "save access" /\ work'[v].pc # "save refresh"
    BY <1>7
  <1> QED BY <1>2, <1>3, <1>5, <1>6, <1>7, <1>8, <1>9, <1>10, Zenon DEF PairInv, Connected

\* The expiry is stored: of this pair or of an earlier one.
LEMMA SaveExpiryKeepsPair ==
    ASSUME TypeInv, AgeInv, PairInv, NEW w \in Workers,
           events \subseteq events', SavesExpiry(w)
    PROVE  PairInv'
  <1>1. PICK n \in 0..MaxPairs : n = work[w].access
    BY WorkType
  <1>2. ~Holds(w) /\ n <= stored["access"]
    BY <1>1, PairFacts DEF SavesExpiry, Holds
  <1>3. /\ \A v \in Workers : v # w => work'[v] = work[v]
        /\ usable' = usable
        /\ stored'["expiry"] = n
        /\ stored'["access"] = stored["access"] /\ stored'["refresh"] = stored["refresh"]
    BY <1>1, OthersSame, UpsertType, TypeFacts DEF SavesExpiry
  <1>4. /\ work'[w].pc \notin {"save access", "save refresh"}
        /\ work'[w].refresh \notin usable
    <2>1. work'[w].pc \in {"idle", "use"}
      BY DEF SavesExpiry
    <2>2. work'[w].refresh = 0
      BY DEF SavesExpiry
    <2>3. 0 \notin usable
      BY TypeFacts
    <2>4. work'[w].pc \notin {"save access", "save refresh"}
      BY <2>1
    <2> QED BY <2>2, <2>3, <2>4, Zenon
  <1>5. \A v \in Workers : Holds(v)' <=> Holds(v)
    BY <1>2, <1>3, <1>4 DEF Holds
  <1>6. \A u, v \in Workers : Holds(u)' /\ Holds(v)' => u = v
    BY <1>5, PairFacts
  <1>7. \A v \in Workers : work'[v].refresh \in usable => work'[v].refresh = stored["refresh"]
    BY <1>3, <1>4, PairFacts
  <1>8. ASSUME NEW v \in Workers, Holds(v)'
        PROVE  /\ work'[v].access \in usable /\ stored["refresh"] \notin usable
               /\ \A u \in Workers : work'[u].refresh \notin usable
    <2>1. Holds(v) /\ v # w
      BY <1>2, <1>5, <1>8
    <2> QED BY <1>3, <1>4, <2>1, PairFacts
  <1>9. work'[w].access <= stored["access"]
    <2>1. 0 <= stored["access"]
      BY TypeFacts
    <2>2. work'[w].access = 0 \/ work'[w].access = n
      BY <1>1 DEF SavesExpiry, Blank
    <2> QED BY <1>2, <2>1, <2>2
  <1>10. ASSUME NEW v \in Workers
         PROVE  /\ work'[v].pc = "save access" => stored["access"] < work'[v].access
                /\ work'[v].pc = "save refresh" => stored["access"] = work'[v].access
                /\ work'[v].pc # "save access" => work'[v].access <= stored["access"]
    <2>1. CASE v = w
      BY <1>4, <1>9, <2>1
    <2>2. CASE v # w
      BY <1>3, <2>2, PairFacts
    <2> QED BY <2>1, <2>2
  <1>11. ASSUME NEW v \in Workers
         PROVE  work'[v].pc = "use" /\ work'[v].access = stored["access"] => work'[v].fresh
    <2>1. CASE v = w
      <3>1. work'[w].pc = "use" => work'[w].fresh
        BY DEF SavesExpiry
      <3> QED BY <2>1, <3>1
    <2>2. CASE v # w
      BY <1>3, <2>2, PairFacts
    <2> QED BY <2>1, <2>2
  <1>12. Without({"crash", "write"})' =>
            \/ stored["access"] = stored["refresh"]
            \/ \E v \in Workers : work'[v].pc = "save refresh"
    <2> SUFFICES ASSUME Without({"crash", "write"})', stored["access"] # stored["refresh"]
                 PROVE  \E v \in Workers : work'[v].pc = "save refresh"
      OBVIOUS
    <2>1. Without({"crash", "write"})
      BY DEF Without
    <2>2. PICK v \in Workers : work[v].pc = "save refresh"
      BY <2>1 DEF PairInv
    <2>3. v # w
      BY <1>2, <2>2 DEF Holds
    <2> QED BY <1>3, <2>2, <2>3
  <1> QED BY <1>2, <1>3, <1>6, <1>7, <1>8, <1>10, <1>11, <1>12, Zenon DEF PairInv

\* Steps that leave the rows, the workers and Fortnox's tokens alone.
LEMMA PairStays ==
    ASSUME TypeInv, PairInv, UNCHANGED <<stored, work, usable>>, events \subseteq events'
    PROVE  PairInv'
  <1>1. Without({"crash", "write"})' => Without({"crash", "write"})
    BY DEF Without
  <1> QED BY <1>1 DEF PairInv, Holds, Connected

LEMMA CrashKeepsPair ==
    ASSUME TypeInv, PairInv, Crash
    PROVE  PairInv'
  <1>1. /\ UNCHANGED <<stored, usable>> /\ "crash" \in events'
        /\ \A v \in Workers : Blank(work'[v]) /\ work'[v].pc = "idle"
    BY CrashMoves
  <1>2. \A v \in Workers : work'[v].access = 0 /\ work'[v].refresh = 0
    BY <1>1 DEF Blank
  <1>3. 0 \notin usable /\ 0 <= stored["access"]
    BY TypeFacts
  <1>4. \A v \in Workers : work'[v].refresh \notin usable /\ work'[v].access <= stored["access"]
    BY <1>2, <1>3
  <1>5. \A v \in Workers :
            ~Holds(v)' /\ work'[v].pc \notin {"save access", "save refresh", "use"}
    BY <1>1 DEF Holds
  <1>6. ~Without({"crash", "write"})'
    BY <1>1 DEF Without
  <1>7. stored["expiry"] <= stored["access"]
    BY DEF PairInv
  <1> QED BY <1>1, <1>4, <1>5, <1>6, <1>7 DEF PairInv

LEMMA PairInvNext ==
    ASSUME TypeInv, AgeInv, LoginInv, PairInv, Next, Clean'
    PROVE  PairInv'
  <1>0. /\ ~Disconnect /\ \A row \in Rows : ~DeleteRow(row)
        /\ events \subseteq events'
    BY CleanBefore, EventsGrow
  <1>1. CASE \E w \in Workers : Moves(w)
    BY <1>0, <1>1, ReadsKeepPair, IssueKeepsPair, SaveAccessKeepsPair,
       SaveRefreshKeepsPair, SaveExpiryKeepsPair DEF Moves, Saves
  <1>2. CASE Authorize \/ \E n \in Pairs : Age(n)
    <2>1. UNCHANGED <<stored, work, usable>>
      BY <1>2 DEF Authorize, Age, fortnoxVars
    <2> QED BY <1>0, <2>1, PairStays
  <1>3. CASE \E b \in Browsers : Callback(b)
    <2> PICK b \in Browsers : Callback(b)
      BY <1>3
    <2>1. b \in Workers
      BY WorkerSets
    <2>2. /\ UNCHANGED <<stored, usable>> /\ Others(b)
          /\ work[b].pc = "idle"
          /\ work'[b].access = work[b].access
          /\ work'[b].refresh = work[b].refresh
          /\ UNCHANGED work \/ work'[b].pc = "exchange"
      BY CallbackMoves
    <2>3. /\ ~Holds(b)
          /\ work'[b].pc \notin {"save access", "save refresh", "use"}
      BY <2>2 DEF Holds
    <2>4. /\ work[b].refresh \in usable => work[b].refresh = stored["refresh"]
          /\ work[b].access <= stored["access"]
      BY <2>1, <2>2, PairFacts
    <2> QED BY <1>0, <2>1, <2>2, <2>3, <2>4, PairKept
  <1>4. CASE Crash
    BY <1>4, CrashKeepsPair
  <1> QED BY <1>0, <1>1, <1>2, <1>3, <1>4, NextKinds

-----------------------------------------------------------------------------
(* A pair that is to be saved is not spent *)

Faultless == Without({"crash", "write", "lost", "hang", "disconnect"})

LEMMA HeldFacts ==
    ASSUME TypeInv, Held, NEW v \in Workers, Holds(v)
    PROVE  /\ work[v].access \in usable /\ work[v].access # 0
           /\ stored["refresh"] # work[v].access
           /\ \A u \in Workers : work[u].refresh # work[v].access
           /\ \A u \in Workers : Holds(u) /\ work[u].access = work[v].access => u = v
  <1>1. work[v].access \in usable
    BY DEF Held
  <1>2. work[v].access # 0
    BY <1>1, TypeFacts
  <1> QED BY <1>1, <1>2 DEF Held

\* A step of w that takes no token from Fortnox.
LEMMA HeldKept ==
    ASSUME TypeInv, Held, NEW w \in Workers, Others(w), usable' = usable,
           Holds(w)' => Holds(w) /\ work'[w].access = work[w].access,
           work'[w].refresh \in {0, work[w].refresh, stored["refresh"]},
           \/ stored'["refresh"] = stored["refresh"]
           \/ Holds(w) /\ ~Holds(w)' /\ stored'["refresh"] = work[w].access
    PROVE  Held'
  <1>1. \A v \in Workers : v # w => work'[v] = work[v]
    BY OthersSame
  <1>2. \A v \in Workers : Holds(v)' => Holds(v) /\ work'[v].access = work[v].access
    BY <1>1 DEF Holds
  <1>3. \A u, v \in Workers : Holds(u)' /\ Holds(v)' /\ work'[u].access = work'[v].access => u = v
    BY <1>2 DEF Held
  <1>4. ASSUME NEW v \in Workers, Holds(v)'
        PROVE  /\ work'[v].access \in usable' /\ stored'["refresh"] # work'[v].access
               /\ \A u \in Workers : work'[u].refresh # work'[v].access
    <2>1. Holds(v) /\ work'[v].access = work[v].access
      BY <1>2, <1>4
    <2>2. stored'["refresh"] # work[v].access
      <3>1. CASE stored'["refresh"] = stored["refresh"]
        BY <2>1, <3>1, HeldFacts
      <3>2. CASE Holds(w) /\ ~Holds(w)' /\ stored'["refresh"] = work[w].access
        <4>1. v # w
          BY <1>4, <3>2
        <4> QED BY <2>1, <3>2, <4>1, HeldFacts
      <3> QED BY <3>1, <3>2
    <2>3. ASSUME NEW u \in Workers PROVE work'[u].refresh # work[v].access
      <3>1. CASE u = w
        BY <2>1, <3>1, HeldFacts
      <3>2. CASE u # w
        BY <1>1, <2>1, <3>2, HeldFacts
      <3> QED BY <3>1, <3>2
    <2>4. work[v].access \in usable
      BY <2>1, HeldFacts
    <2> QED BY <2>1, <2>2, <2>3, <2>4
  <1> QED BY <1>3, <1>4, Zenon DEF Held

\* A refresh token is spent or a code exchanged: the pair is a new one.
LEMMA HeldIssued ==
    ASSUME TypeInv, AgeInv, Held, NEW w \in Workers, Issues(w)
    PROVE  Held'
  <1>1. PICK n \in Nat : n = issued + 1
    BY TypeFacts
  <1>2. /\ \A k \in usable : k \in Nat /\ k < n
        /\ stored["refresh"] < n /\ stored["refresh"] \in Nat
    BY <1>1, TypeFacts DEF AgeInv
  <1>3. ASSUME NEW v \in Workers PROVE work[v].refresh # n
    <2>1. PICK k \in 0..MaxPairs : k = work[v].refresh
      BY WorkType
    <2>2. k <= issued
      BY <2>1, AgedFacts DEF AgeInv
    <2> QED BY <1>1, <2>1, <2>2, TypeFacts
  <1>4. \A v \in Workers : v # w => work'[v] = work[v]
    BY OthersSame DEF Issues
  <1>5. /\ UNCHANGED stored /\ n \in usable' /\ n # 0
        /\ \A k \in usable : k # work[w].refresh => k \in usable'
    <2>1. n # 0
      BY <1>1, TypeFacts
    <2>2. \/ usable' = (usable \ {work[w].refresh}) \cup {n}
          \/ usable' = usable \cup {n}
      BY <1>1, Zenon DEF Issues
    <2>3. UNCHANGED stored
      BY DEF Issues
    <2> QED BY <2>1, <2>2, <2>3
  <1>6. /\ work'[w].refresh = 0
        /\ Holds(w)' => work'[w].access = n
    <2>1. CASE work'[w].pc = "save access" /\ work'[w].access = issued + 1 /\ work'[w].refresh = 0
      BY <1>1, <2>1, Zenon
    <2>2. CASE Blank(work'[w]) /\ work'[w].pc \in {"idle", "hung"}
      <3>1. work'[w].refresh = 0 /\ ~Holds(w)'
        BY <2>2 DEF Blank, Holds
      <3> QED BY <3>1
    <2> QED BY <2>1, <2>2 DEF Issues
  <1>7. ASSUME NEW v \in Workers, v # w, Holds(v)'
        PROVE  /\ Holds(v) /\ work'[v].access = work[v].access
               /\ work[v].access \in usable' /\ work[v].access # n
    <2>1. Holds(v) /\ work'[v].access = work[v].access
      BY <1>4, <1>7 DEF Holds
    <2>2. work[v].access \in usable /\ work[v].access # work[w].refresh
      BY <2>1, HeldFacts
    <2>3. PICK k \in usable : k = work[v].access
      BY <2>2
    <2>4. k \in Nat /\ k < n
      BY <1>2, <2>3
    <2>5. k # n
      BY <2>4
    <2> QED BY <1>5, <2>1, <2>2, <2>3, <2>5
  <1>8. ASSUME NEW u \in Workers, NEW v \in Workers, Holds(u)', Holds(v)',
               work'[u].access = work'[v].access
        PROVE  u = v
    <2>1. CASE u = w \/ v = w
      BY <1>6, <1>7, <1>8, <2>1
    <2>2. CASE u # w /\ v # w
      <3>1. Holds(u) /\ Holds(v) /\ work[u].access = work[v].access
        BY <1>7, <1>8, <2>2
      <3> QED BY <3>1 DEF Held
    <2> QED BY <2>1, <2>2
  <1>9. ASSUME NEW v \in Workers, Holds(v)'
        PROVE  /\ work'[v].access \in usable' /\ stored'["refresh"] # work'[v].access
               /\ \A u \in Workers : work'[u].refresh # work'[v].access
    <2>1. CASE v = w
      <3>1. work'[v].access = n
        BY <1>6, <1>9, <2>1
      <3>2. \A u \in Workers : work'[u].refresh # n
        BY <1>3, <1>4, <1>5, <1>6
      <3>3. stored'["refresh"] # n
        <4>1. PICK k \in Nat : k = stored["refresh"] /\ k < n
          BY <1>2
        <4>2. k # n
          BY <4>1
        <4> QED BY <1>5, <4>1, <4>2
      <3> QED BY <1>5, <3>1, <3>2, <3>3
    <2>2. CASE v # w
      <3>1. /\ Holds(v) /\ work'[v].access = work[v].access
            /\ work[v].access \in usable'
        BY <1>7, <1>9, <2>2
      <3>2. /\ stored["refresh"] # work[v].access /\ work[v].access # 0
            /\ \A u \in Workers : work[u].refresh # work[v].access
        BY <3>1, HeldFacts
      <3>3. \A u \in Workers : work'[u].refresh # work[v].access
        BY <1>4, <1>6, <3>2
      <3> QED BY <1>5, <3>1, <3>2, <3>3
    <2> QED BY <2>1, <2>2
  <1> QED BY <1>8, <1>9, Zenon DEF Held

LEMMA HoldMoves ==
    ASSUME TypeInv, AgeInv, HoldInv, NEW w \in Workers, Moves(w), events \subseteq events'
    PROVE  HoldInv'
  <1>0. /\ Others(w) /\ deleting' = deleting
        /\ Held /\ (deleting # {} => "disconnect" \in events)
        /\ Faultless' => Faultless
        /\ Connected /\ Faultless => stored["refresh"] \in usable \/ \E v \in Workers : Holds(v)
    BY MovesFacts DEF Keeps, HoldInv, Faultless, Without
  <1>1. \A v \in Workers : v # w => work'[v] = work[v]
    BY <1>0, OthersSame
  <1>2. ASSUME Held',
               Connected' /\ Faultless' =>
                   stored'["refresh"] \in usable' \/ \E v \in Workers : Holds(v)'
        PROVE  HoldInv'
    BY <1>0, <1>2 DEF HoldInv, Faultless
  \* Nobody but w gives up a pair, and w does so only if a statement fails.
  <1>3. ASSUME ~Holds(w) \/ "write" \in events', UNCHANGED usable,
               stored'["access"] = stored["access"], stored'["refresh"] = stored["refresh"],
               Connected', Faultless'
        PROVE  stored'["refresh"] \in usable' \/ \E v \in Workers : Holds(v)'
    <2>1. Connected /\ Faultless /\ ~Holds(w)
      BY <1>0, <1>3 DEF Connected, Faultless, Without
    <2>2. CASE stored["refresh"] \in usable
      BY <1>3, <2>2
    <2>3. CASE \E v \in Workers : Holds(v)
      <3>1. PICK v \in Workers : Holds(v)
        BY <2>3
      <3>2. v # w
        BY <2>1, <3>1
      <3>3. Holds(v)'
        BY <1>1, <3>1, <3>2 DEF Holds
      <3> QED BY <3>3
    <2> QED BY <1>0, <2>1, <2>2, <2>3
  <1>4. CASE Drops(w) \/ GetsAccess(w) \/ GetsRefresh(w) \/ Accepts(w) \/ Asks(w)
    <2>1. UNCHANGED <<stored, usable>> /\ ~Holds(w)'
      BY <1>4 DEF Drops, GetsAccess, GetsRefresh, Accepts, Asks, Holds
    <2>2. work'[w].refresh \in {0, work[w].refresh, stored["refresh"]}
      BY <1>4 DEF Drops, GetsAccess, GetsRefresh, Accepts, Asks, Blank
    <2>3. ~Holds(w) \/ "write" \in events'
      BY <1>4 DEF Drops, GetsAccess, GetsRefresh, Accepts, Asks, Holds
    <2>4. Held'
      BY <1>0, <2>1, <2>2, HeldKept
    <2> QED BY <1>2, <1>3, <2>1, <2>3, <2>4
  <1>5. CASE Issues(w)
    <2>1. Held'
      BY <1>0, <1>5, HeldIssued
    <2>2. Faultless' => Holds(w)'
      BY <1>5 DEF Issues, Faultless, Without, Holds
    <2> QED BY <1>2, <2>1, <2>2
  <1>6. CASE SavesAccess(w)
    <2>1. stored'["refresh"] = stored["refresh"] /\ usable' = usable
      BY <1>6, UpsertType, WorkType, TypeFacts DEF SavesAccess
    <2>2. /\ Holds(w)' /\ Holds(w)
          /\ work'[w].access = work[w].access /\ work'[w].refresh = work[w].refresh
      BY <1>6 DEF SavesAccess, Holds
    <2>3. Held'
      BY <1>0, <2>1, <2>2, HeldKept
    <2> QED BY <1>2, <2>2, <2>3
  <1>7. CASE SavesRefresh(w)
    <2>1. stored'["refresh"] = work[w].access /\ usable' = usable
      BY <1>7, UpsertType, WorkType, TypeFacts DEF SavesRefresh
    <2>2. ~Holds(w)' /\ Holds(w) /\ work'[w].refresh = work[w].refresh
      BY <1>7 DEF SavesRefresh, Holds
    <2>3. Held'
      BY <1>0, <2>1, <2>2, HeldKept
    <2>4. stored'["refresh"] \in usable'
      BY <1>0, <2>1, <2>2, HeldFacts
    <2> QED BY <1>2, <2>3, <2>4
  <1>8. CASE SavesExpiry(w)
    <2>1. /\ stored'["access"] = stored["access"]
          /\ stored'["refresh"] = stored["refresh"] /\ usable' = usable
      BY <1>8, UpsertType, WorkType, TypeFacts DEF SavesExpiry
    <2>2. ~Holds(w)' /\ ~Holds(w) /\ work'[w].refresh = 0
      BY <1>8 DEF SavesExpiry, Holds
    <2>3. Held'
      BY <1>0, <2>1, <2>2, HeldKept
    <2> QED BY <1>2, <1>3, <2>1, <2>2, <2>3
  <1> QED BY <1>4, <1>5, <1>6, <1>7, <1>8 DEF Moves, Saves

LEMMA HoldInvNext ==
    ASSUME TypeInv, AgeInv, HoldInv, Next
    PROVE  HoldInv'
  <1>0. /\ events \subseteq events'
        /\ Held /\ (deleting # {} => "disconnect" \in events)
        /\ Connected /\ Faultless => stored["refresh"] \in usable \/ \E v \in Workers : Holds(v)
        /\ Faultless' => Faultless
    BY EventsGrow DEF HoldInv, Faultless, Without
  <1>1. CASE \E w \in Workers : Moves(w)
    BY <1>0, <1>1, HoldMoves
  <1>2. CASE Authorize \/ Disconnect \/ \E n \in Pairs : Age(n)
    <2>1. UNCHANGED <<stored, work, usable>>
      BY <1>2 DEF Authorize, Disconnect, Age, fortnoxVars
    <2>2. deleting' # {} => "disconnect" \in events'
      BY <1>0, <1>2 DEF Authorize, Disconnect, Age, Happens
    <2>3. Held' /\ (Connected' => Connected) /\ \A v \in Workers : Holds(v) => Holds(v)'
      BY <1>0, <2>1 DEF Held, Holds, Connected
    <2> QED BY <1>0, <2>1, <2>2, <2>3 DEF HoldInv, Faultless
  <1>3. CASE \E b \in Browsers : Callback(b)
    <2> PICK b \in Browsers : Callback(b)
      BY <1>3
    <2>1. /\ b \in Workers /\ Others(b) /\ UNCHANGED <<stored, usable, deleting>>
          /\ work[b].pc = "idle" /\ work'[b].pc \in {"idle", "exchange"}
          /\ work'[b].refresh = work[b].refresh
      BY CallbackMoves, WorkerSets
    <2>2. ~Holds(b) /\ ~Holds(b)'
      BY <2>1 DEF Holds
    <2>3. Held'
      BY <1>0, <2>1, <2>2, HeldKept
    <2>4. (Connected' => Connected) /\ \A v \in Workers : Holds(v) => Holds(v)'
      BY <2>1, <2>2, OthersSame DEF Connected, Holds
    <2> QED BY <1>0, <2>1, <2>3, <2>4 DEF HoldInv, Faultless
  <1>4. CASE \E row \in Rows : DeleteRow(row)
    <2>1. UNCHANGED <<work, usable>> /\ "disconnect" \in events'
      BY <1>0, <1>4 DEF DeleteRow, fortnoxVars
    <2>2. stored'["refresh"] \in {0, stored["refresh"]}
      <3>1. 0 \in 0..MaxPairs
        BY TokensAssumption
      <3> QED BY <1>4, <3>1, UpsertType, TypeFacts DEF DeleteRow
    <2>3. \A v \in Workers : Holds(v)' <=> Holds(v)
      BY <2>1 DEF Holds
    <2>4. ASSUME NEW v \in Workers, Holds(v) PROVE stored'["refresh"] # work[v].access
      BY <1>0, <2>2, <2>4, HeldFacts
    <2>5. Held'
      BY <1>0, <2>1, <2>3, <2>4 DEF Held
    <2> QED BY <2>1, <2>5 DEF HoldInv, Without
  <1>5. CASE Crash
    <2>1. /\ \A v \in Workers : work'[v].pc = "idle"
          /\ deleting' = {} /\ "crash" \in events'
      BY <1>5, CrashMoves
    <2>2. \A v \in Workers : ~Holds(v)'
      BY <2>1 DEF Holds
    <2> QED BY <2>1, <2>2 DEF HoldInv, Held, Without
  <1> QED BY <1>1, <1>2, <1>3, <1>4, <1>5, NextKinds

LEMMA TokensInvInit == Init => TokensInv
  <1> SUFFICES ASSUME Init PROVE TokensInv
    OBVIOUS
  <1>1. /\ \A w \in Workers : work[w] = Idle
        /\ stored["access"] = 0 /\ stored["refresh"] = 0 /\ stored["expiry"] = 0
        /\ usable = {} /\ deleting = {}
    BY DEF Init, Rows
  <1>2. \A w \in Workers : work[w].pc = "idle"
    BY <1>1, IdleBlank
  <1>3. \A w \in Workers : work[w].access = 0
    BY <1>1, IdleBlank DEF Blank
  <1>4. LoginInv
    BY <1>1, <1>2, WorkerSets DEF LoginInv, Connected, Running
  <1>5. PairInv
    <2>1. \A w \in Workers :
             work[w].pc \notin {"save access", "save refresh", "use"} /\ ~Holds(w)
      BY <1>2 DEF Holds
    <2>2. \A w \in Workers : work[w].access <= stored["access"]
      BY <1>1, <1>3
    <2>3. stored["expiry"] <= stored["access"]
      BY <1>1
    <2> QED BY <1>1, <2>1, <2>2, <2>3 DEF PairInv
  <1>6. HoldInv
    <2>1. \A w \in Workers : ~Holds(w)
      BY <1>2 DEF Holds
    <2> QED BY <1>1, <2>1 DEF HoldInv, Held, Connected
  <1> QED BY <1>4, <1>5, <1>6, AgeInvInit DEF TokensInv

LEMMA TokensInvNext == TypeInv /\ TokensInv /\ [Next]_vars => TokensInv'
  <1> SUFFICES ASSUME TypeInv, TokensInv, [Next]_vars PROVE TokensInv'
    OBVIOUS
  <1>1. CASE Next
    <2>1. AgeInv' /\ HoldInv'
      BY <1>1, AgeInvNext, HoldInvNext DEF TokensInv
    <2>2. ASSUME Clean' PROVE LoginInv' /\ PairInv'
      <3>1. AgeInv /\ LoginInv /\ PairInv
        BY <1>1, <2>2, CleanBefore DEF TokensInv
      <3> QED BY <1>1, <2>2, <3>1, LoginInvNext, PairInvNext
    <2> QED BY <2>1, <2>2 DEF TokensInv
  <1>2. CASE UNCHANGED vars
    BY <1>2 DEF vars, TokensInv, AgeInv, HoldInv, Held, LoginInv, PairInv, Holds, Connected,
                Without, Clean, Running
  <1> QED BY <1>1, <1>2

LEMMA TokensInvariant == Spec => [](TypeInv /\ TokensInv)
  <1>1. Init => TypeInv /\ TokensInv
    BY TypeInvInit, TokensInvInit
  <1>2. TypeInv /\ TokensInv /\ [Next]_vars => (TypeInv /\ TokensInv)'
    BY TypeInvNext, TokensInvNext
  <1> QED BY <1>1, <1>2, PTL DEF Spec

\* However refreshes and logins interleave, and though several refreshes are
\* done with the same refresh token without a lock, a working one is stored or
\* about to be (auth.go:138-144).
THEOREM RefreshTokenIsKept == Spec => []Recoverable
  <1>1. TypeInv /\ TokensInv => Recoverable
    <2> SUFFICES ASSUME TypeInv, TokensInv, Connected,
                        Without({"crash", "write", "lost", "hang", "disconnect"})
                 PROVE  \/ stored["refresh"] \in usable
                        \/ \E w \in Workers : /\ work[w].pc \in {"save access", "save refresh"}
                                              /\ work[w].access \in usable
      BY DEF Recoverable
    <2>1. Held /\ (stored["refresh"] \in usable \/ \E w \in Workers : Holds(w))
      BY DEF TokensInv, HoldInv
    <2>2. ASSUME NEW w \in Workers, Holds(w) PROVE work[w].access \in usable
      BY <2>1, <2>2, HeldFacts
    <2> QED BY <2>1, <2>2 DEF Holds
  <1> QED BY <1>1, TokensInvariant, PTL

\* The three statements of several workers that refresh leave the rows of one
\* pair, and the expiry never later than the access token's, as long as nobody
\* logs in again (auth.go:107-116).
THEOREM RowsAreOnePair == Spec => []PairsMatch
  <1>1. TypeInv /\ TokensInv => PairsMatch
    <2> SUFFICES ASSUME TypeInv, TokensInv, ~relogged
                 PROVE  /\ Quiet /\ Without({"crash", "write", "disconnect"}) =>
                               stored["access"] = stored["refresh"]
                        /\ Connected /\ Without({"disconnect"}) =>
                               stored["expiry"] <= stored["access"]
      BY DEF PairsMatch
    <2>1. ASSUME Quiet, Without({"crash", "write", "disconnect"})
          PROVE  stored["access"] = stored["refresh"]
      <3>1. Clean /\ Without({"crash", "write"})
        BY <2>1 DEF Clean, Without
      <3>2. \A w \in Workers : work[w].pc # "save refresh"
        BY <2>1 DEF Quiet, Running
      <3> QED BY <3>1, <3>2 DEF TokensInv, PairInv
    <2>2. ASSUME Without({"disconnect"})
          PROVE  stored["expiry"] <= stored["access"]
      BY <2>2 DEF TokensInv, PairInv, Clean
    <2> QED BY <2>1, <2>2
  <1> QED BY <1>1, TokensInvariant, PTL

\* A stored access token that a caller uses has not expired, though the token
\* and its expiry are read one after the other while others save
\* (auth.go:120-135).
THEOREM UsedTokenIsValid == Spec => []TokenAccepted
  <1>1. TypeInv /\ TokensInv => TokenAccepted
    <2> SUFFICES ASSUME TypeInv, TokensInv, NEW w \in Callers, work[w].pc = "use",
                        work[w].access = stored["access"], Clean
                 PROVE  age[work[w].access] < 2
      BY DEF TokenAccepted, Clean
    <2>1. w \in Workers
      BY WorkerSets DEF Clients
    <2>2. work[w].fresh
      BY <2>1, PairFacts DEF TokensInv
    <2>3. Aged(work[w], issued, age)
      BY <2>1 DEF TokensInv, AgeInv
    <2> QED BY <2>2, <2>3 DEF Aged
  <1> QED BY <1>1, TokensInvariant, PTL

-----------------------------------------------------------------------------
(* A disconnect holds *)

LEMMA CodesGrow ==
    ASSUME TypeInv, Next
    PROVE  codes' = codes \/ codes' = codes + 1
  <1>1. CASE \E w \in Workers : Moves(w)
    BY <1>1, MovesFacts DEF Keeps
  <1>2. CASE \E b \in Browsers : Callback(b)
    BY <1>2, CallbackMoves
  <1>3. CASE Crash
    BY <1>3, CrashMoves
  <1>4. CASE Authorize \/ Disconnect \/ (\E row \in Rows : DeleteRow(row))
             \/ \E n \in Pairs : Age(n)
    BY <1>4 DEF Authorize, Disconnect, DeleteRow, Age, fortnoxVars
  <1> QED BY <1>1, <1>2, <1>3, <1>4, NextKinds

\* A worker's step does not connect an app that nobody is connecting.
LEMMA MovesStayAway ==
    ASSUME TypeInv, ~Connected, NEW w \in Workers, Moves(w),
           \A v \in Workers : work[v].pc \in {"idle", "hung", "access"},
           \A b \in Browsers : work[b].pc # "access"
    PROVE  /\ ~Connected' /\ codes' = codes
           /\ \A v \in Workers : work'[v].pc \in {"idle", "hung", "access"}
           /\ \A b \in Browsers : work'[b].pc # "access"
  <1>1. Drops(w)
    BY DEF Moves, GetsAccess, GetsRefresh, Accepts, Asks, Issues, Saves, SavesAccess,
           SavesRefresh, SavesExpiry, Connected
  <1>2. /\ UNCHANGED <<stored, codes>>
        /\ \A v \in Workers : v # w => work'[v] = work[v]
    BY <1>1, OthersSame DEF Drops, Keeps
  <1>3. /\ work'[w].pc \in {"idle", "hung", "access"}
        /\ w \in Browsers => work'[w].pc # "access"
    BY <1>1, WorkerSets DEF Drops
  <1> QED BY <1>2, <1>3, WorkerSets DEF Connected

LEMMA NotAgainNext ==
    ASSUME TypeInv, NEW k \in 0..MaxCodes, NotAgain(k), [Next]_vars
    PROVE  NotAgain(k)'
  <1>1. CASE UNCHANGED vars
    BY <1>1 DEF vars, NotAgain, Connected
  <1>2. CASE Next /\ codes > k
    <2>1. codes' > k
      BY <1>2, CodesGrow, TypeFacts
    <2> QED BY <2>1 DEF NotAgain
  <1>3. CASE Next /\ ~(codes > k)
    <2>1. /\ codes = k /\ stored["access"] = 0
          /\ \A w \in Workers : work[w].pc \in {"idle", "hung", "access"}
          /\ \A b \in Browsers : work[b].pc # "access"
      BY <1>3 DEF NotAgain, Connected
    <2>2. CASE \E w \in Workers : Moves(w)
      BY <2>1, <2>2, MovesStayAway DEF NotAgain, Connected
    <2>3. CASE Authorize \/ Disconnect \/ \E n \in Pairs : Age(n)
      <3>1. UNCHANGED <<stored, work, codes>>
        BY <2>3 DEF Authorize, Disconnect, Age, fortnoxVars
      <3> QED BY <2>1, <3>1 DEF NotAgain, Connected
    <2>4. CASE \E b \in Browsers : Callback(b)
      <3>1. CASE codes' = codes + 1
        <4>1. codes' > k
          BY <2>1, <3>1, TypeFacts
        <4> QED BY <4>1 DEF NotAgain
      <3>2. CASE UNCHANGED <<work, codes>>
        <4>1. UNCHANGED <<stored, work, codes>>
          BY <2>4, <3>2, CallbackMoves
        <4> QED BY <2>1, <4>1 DEF NotAgain, Connected
      <3> QED BY <2>4, <3>1, <3>2, CallbackMoves
    <2>5. CASE \E row \in Rows : DeleteRow(row)
      <3>1. UNCHANGED <<work, codes>>
        BY <2>5 DEF DeleteRow, fortnoxVars
      <3>2. stored'["access"] = 0
        <4>1. 0 \in 0..MaxPairs
          BY TokensAssumption
        <4> QED BY <2>1, <2>5, <4>1, UpsertType, TypeFacts DEF DeleteRow
      <3> QED BY <2>1, <3>1, <3>2 DEF NotAgain, Connected
    <2>6. CASE Crash
      <3>1. UNCHANGED <<stored, codes>> /\ \A w \in Workers : work'[w].pc = "idle"
        BY <2>6, CrashMoves
      <3> QED BY <2>1, <3>1, WorkerSets DEF NotAgain, Connected
    <2> QED BY <1>3, <2>2, <2>3, <2>4, <2>5, <2>6, NextKinds
  <1> QED BY <1>1, <1>2, <1>3

\* Once a disconnect has left no access token and nobody at work, only a new
\* login connects the app again, whatever calls, crashes and further
\* disconnects follow (settings.go:186-194).
THEOREM DisconnectIsKept == Spec => DisconnectHolds
  <1> SUFFICES ASSUME NEW k \in 0..MaxCodes
               PROVE  Spec => [](~Connected /\ Quiet /\ codes = k => [](Connected => codes > k))
    BY DEF DisconnectHolds
  <1>1. ~Connected /\ Quiet /\ codes = k => NotAgain(k)
    BY WorkerSets DEF Quiet, Running, NotAgain
  <1>2. NotAgain(k) => (Connected => codes > k)
    BY DEF NotAgain
  <1>3. TypeInv /\ NotAgain(k) /\ [Next]_vars => NotAgain(k)'
    BY NotAgainNext
  <1> QED BY <1>1, <1>2, <1>3, TypeInvInit, TypeInvNext, PTL DEF Spec
=============================================================================
