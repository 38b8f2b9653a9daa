----------------------------- MODULE OAuthTokens -----------------------------
(***************************************************************************)
(* The OAuth tokens of Fortnox: internal/fortnox/auth.go with the client   *)
(* that uses them (client.go) and the settings page that obtains and       *)
(* removes them (handler/settings.go), over three rows of the settings     *)
(* table.                                                                  *)
(*                                                                         *)
(* A step of a worker is one SQL statement or one request with the local   *)
(* code up to the next one.  There is no lock around a refresh.            *)
(*                                                                         *)
(* Data.  A pair of tokens is the number Fortnox issued it under; the rows *)
(* hold numbers, 0: no row.  An access token is fresh, in its last minute, *)
(* or expired.  Fortnox takes a refresh token once and answers with the    *)
(* next pair.                                                              *)
(***************************************************************************)
EXTENDS Naturals, FiniteSets

CONSTANTS
    Callers,        \* goroutines that call the Fortnox API
    Refresher,      \* the goroutine of StartTokenRefresher
    Browsers,       \* requests that come back from Fortnox's login page
    Events,         \* kinds of event that may happen, each at most once
    MaxEvents,      \* bound: kinds of event in one behaviour
    MaxAttempts,    \* how often a Post is sent: 3 in the code
    MaxPairs,       \* bound: pairs of tokens Fortnox issues, the last never old
    MaxCodes        \* bound: authorization codes Fortnox grants

Clients == Callers \cup {Refresher}
Workers == Clients \cup Browsers
Pairs == 1..MaxPairs

(***************************************************************************)
(* crash: the process stops and restarts.  read, write: a SELECT or an     *)
(* INSERT of settings fails.  reject: Fortnox refuses a token request that *)
(* is in order.  lost: it serves one and the answer is lost or not JSON.   *)
(* hang: it serves one or not and the connection stays open.  disconnect:  *)
(* the button of the settings page.                                        *)
(***************************************************************************)
EventKinds ==
    {"crash", "read", "write", "reject", "lost", "hang", "disconnect"}

ASSUME TokensAssumption ==
    /\ Refresher \notin Callers /\ Browsers \cap Clients = {}
    /\ Events \subseteq EventKinds
    /\ MaxEvents \in Nat /\ MaxAttempts \in Nat \ {0}
    /\ MaxPairs \in Nat \ {0} /\ MaxCodes \in Nat \ {0}

VARIABLES
    stored,     \* settings: the pair each of the three rows is of
    work,       \* the workers
    waiting,    \* a session holds a state and its browser is at Fortnox
    deleting,   \* the rows a disconnect has still to delete
    usable,     \* Fortnox: refresh tokens it would take
    age,        \* 0: fresh, 1: in its last minute, 2: expired
    issued,     \* Fortnox: pairs issued
    codes,      \* Fortnox: authorization codes granted
    relogged,   \* history: a login ended beside another or over stored tokens
    events      \* kinds of event that have happened

vars == <<stored, work, waiting, deleting, usable, age, issued, codes, relogged,
          events>>
fortnoxVars == <<usable, age, issued, codes, relogged>>

-----------------------------------------------------------------------------
(* Values *)

Rows == {"access", "refresh", "expiry"}

PCs == {"idle", "access", "refresh", "expiry", "request", "exchange", "hung",
        "save access", "save refresh", "save expiry", "use"}

\* A worker that does not run.  access: the token it has read or was issued;
\* refresh: the one it has read; fresh: its access token was fresh when its
\* expiry was read; attempt: of an API call.
Idle == [pc |-> "idle", access |-> 0, refresh |-> 0, fresh |-> FALSE,
         attempt |-> 1]

Saving == {"save access", "save refresh", "save expiry"}
Fresh(n) == n \in Pairs /\ age[n] = 0
Connected == stored["access"] # 0       \* IsConnected
Running(w) == work[w].pc \notin {"idle", "hung"}
Quiet == (\A w \in Workers : ~Running(w)) /\ deleting = {}

Becomes(w, s) == work' = [work EXCEPT ![w] = s]
Goto(w, pc) == Becomes(w, [work[w] EXCEPT !.pc = pc])
Hangs(w) == Becomes(w, [Idle EXCEPT !.pc = "hung"])
Ends(w) == Becomes(w, Idle)

Nothing == UNCHANGED events

Happens(kind) ==
    /\ kind \in Events \ events
    /\ Cardinality(events) < MaxEvents
    /\ events' = events \cup {kind}

-----------------------------------------------------------------------------
(* Fortnox *)

\* Worker w receives the pair it is issued and has it to save.
Receives(w) ==
    Becomes(w, [work[w] EXCEPT !.pc = "save access", !.access = issued + 1,
                               !.refresh = 0, !.fresh = TRUE])

\* The refresh token of w is replaced by the next one.
Rotate(w) == usable' = (usable \ {work[w].refresh}) \cup {issued + 1}

\* An access token grows older, an earlier one first, the last one not.  One
\* that was fresh when it was checked does not expire before it is used: the
\* margin of 60 s outlasts the timeout of 30 s of the request.
Age(n) ==
    /\ n <= issued /\ n < MaxPairs /\ age[n] < 2
    /\ \A m \in 1..n - 1 : age[m] > age[n]
    /\ age[n] = 1 => ~\E w \in Workers : work[w].access = n /\ work[w].fresh
    /\ age' = [age EXCEPT ![n] = @ + 1]
    /\ UNCHANGED <<stored, work, waiting, deleting, usable, issued, codes, relogged>>
    /\ Nothing

-----------------------------------------------------------------------------
(* GetValidAccessToken *)

\* A caller has a request for the API, or the refresher's ticker fires.
StartCall(w) ==
    /\ work[w] = Idle
    /\ Goto(w, "access")
    /\ UNCHANGED <<stored, waiting, deleting>>
    /\ UNCHANGED fortnoxVars
    /\ Nothing

\* Mutant of TokenRead: a row that is not there is taken as empty.
TokenReadAnyway(row) == TRUE

\* A row that is not there is an error.
TokenRead(row) == stored[row] # 0

ReadAccess(w) ==
    /\ work[w].pc = "access"
    /\ \/ /\ TokenRead("access")
          /\ Becomes(w, [work[w] EXCEPT !.pc = "refresh",
                                        !.access = stored["access"]])
          /\ Nothing
       \/ ~TokenRead("access") /\ Ends(w) /\ Nothing
       \/ Ends(w) /\ Happens("read")
    /\ UNCHANGED <<stored, waiting, deleting>>
    /\ UNCHANGED fortnoxVars

ReadRefresh(w) ==
    /\ work[w].pc = "refresh"
    /\ \/ /\ stored["refresh"] # 0
          /\ Becomes(w, [work[w] EXCEPT !.pc = "expiry",
                                        !.refresh = stored["refresh"]])
          /\ Nothing
       \/ stored["refresh"] = 0 /\ Ends(w) /\ Nothing
       \/ Ends(w) /\ Happens("read")
    /\ UNCHANGED <<stored, waiting, deleting>>
    /\ UNCHANGED fortnoxVars

\* The refresher drops the token, a caller uses it.
Returned(w, fresh) ==
    IF w = Refresher THEN Idle
    ELSE [work[w] EXCEPT !.pc = "use", !.refresh = 0, !.fresh = fresh]

\* Mutants of StillValid: without the margin of a minute; the time is not
\* looked at.
NotExpired(n) == n # 0 /\ age[n] < 2
HasExpiry(n) == n # 0

\* now < expiry - 60
StillValid(n) == Fresh(n)

\* A row that is not there or cannot be read means expired.
ReadExpiry(w) ==
    /\ work[w].pc = "expiry"
    /\ \/ /\ StillValid(stored["expiry"])
          /\ Becomes(w, Returned(w, Fresh(work[w].access)))
          /\ Nothing
       \/ /\ Becomes(w, [work[w] EXCEPT !.pc = "request", !.access = 0])
          /\ \/ ~StillValid(stored["expiry"]) /\ Nothing
             \/ Happens("read")
    /\ UNCHANGED <<stored, waiting, deleting>>
    /\ UNCHANGED fortnoxVars

\* postToken for a refresh: refused, served, or served without an answer.
PostToken(w) ==
    /\ work[w].pc = "request"
    /\ \/ /\ \/ (work[w].refresh \notin usable \/ issued = MaxPairs) /\ Nothing
             \/ Happens("reject")
          /\ Ends(w)
          /\ UNCHANGED <<usable, issued>>
       \/ /\ work[w].refresh \in usable
          /\ issued < MaxPairs
          /\ Rotate(w)
          /\ issued' = issued + 1
          /\ \/ Receives(w) /\ Nothing
             \/ Ends(w) /\ Happens("lost")
             \/ Hangs(w) /\ Happens("hang")
       \/ Hangs(w) /\ UNCHANGED <<usable, issued>> /\ Happens("hang")
    /\ UNCHANGED <<stored, waiting, deleting, age, codes, relogged>>

\* Mutant of Request: one refresh at a time, under a mutex.
LockedRequest(w) ==
    IF \E v \in Clients : work[v].pc = "hung"
    THEN UNCHANGED vars
    ELSE PostToken(w)

Request(w) == PostToken(w)

-----------------------------------------------------------------------------
(* SaveTokens *)

\* Mutants of RowOf: the expiry is saved first; the refresh token never.
ExpiryFirst == [pc \in Saving |->
    CASE pc = "save access" -> "expiry"
      [] pc = "save refresh" -> "access"
      [] OTHER -> "refresh"]
NoRefreshRow == [pc \in Saving |->
    CASE pc = "save access" -> "access" [] OTHER -> "expiry"]

\* The row each of the three statements writes.
RowOf == [pc \in Saving |->
    CASE pc = "save access" -> "access"
      [] pc = "save refresh" -> "refresh"
      [] OTHER -> "expiry"]

\* UpsertSetting
Upsert(row, n) == stored' = [stored EXCEPT ![row] = n]

\* One of the three statements; an error ends the worker.
Save(w) ==
    /\ work[w].pc \in Saving
    /\ \/ /\ Upsert(RowOf[work[w].pc], work[w].access)
          /\ \/ work[w].pc = "save access" /\ Goto(w, "save refresh")
             \/ work[w].pc = "save refresh" /\ Goto(w, "save expiry")
             \/ /\ work[w].pc = "save expiry"
                /\ IF w \in Browsers THEN Ends(w)
                   ELSE Becomes(w, Returned(w, TRUE))
          /\ Nothing
       \/ UNCHANGED stored /\ Ends(w) /\ Happens("write")
    /\ UNCHANGED <<waiting, deleting>>
    /\ UNCHANGED fortnoxVars

\* Mutant of TriesAgain: without a limit.
TriesAlways(w) == TRUE

TriesAgain(w) == work[w].attempt < MaxAttempts

\* The request with the token.  A Post that is answered 429 starts again up
\* to MaxAttempts times, with the token it then finds; every other answer,
\* an expired token's among them, ends the call.
Use(w) ==
    /\ work[w].pc = "use"
    /\ \/ Ends(w)
       \/ /\ TriesAgain(w)
          /\ Becomes(w, [Idle EXCEPT !.pc = "access",
                                     !.attempt = work[w].attempt + 1])
    /\ UNCHANGED <<stored, waiting, deleting>>
    /\ UNCHANGED fortnoxVars
    /\ Nothing

-----------------------------------------------------------------------------
(* The settings page *)

\* FortnoxAuthorize: of any session at any time, also from a stale page of an
\* app that has been connected meanwhile.
Authorize ==
    /\ waiting' = TRUE
    /\ UNCHANGED <<stored, work, deleting>>
    /\ UNCHANGED fortnoxVars
    /\ Nothing

\* The login was not the only way to tokens at the time it ended.
Beside == Connected \/ \E b \in Browsers : Running(b)

\* FortnoxCallback up to the exchange: the state of the session is removed,
\* a login the user broke off brings no code.
Callback(b) ==
    /\ waiting /\ work[b] = Idle
    /\ waiting' = FALSE
    /\ \/ /\ codes < MaxCodes
          /\ codes' = codes + 1
          /\ relogged' = (relogged \/ Beside)
          /\ Goto(b, "exchange")
       \/ UNCHANGED <<work, codes, relogged>>
    /\ UNCHANGED <<stored, deleting, usable, age, issued>>
    /\ Nothing

\* postToken for a code; the pairs issued before stay as they are.
Exchange(b) ==
    /\ work[b].pc = "exchange"
    /\ \/ /\ issued < MaxPairs
          /\ usable' = usable \cup {issued + 1}
          /\ issued' = issued + 1
          /\ \/ Receives(b) /\ Nothing
             \/ Ends(b) /\ Happens("lost")
       \/ /\ Ends(b) /\ UNCHANGED <<usable, issued>>
          /\ (issued = MaxPairs /\ Nothing) \/ Happens("reject")
       \/ Hangs(b) /\ UNCHANGED <<usable, issued>> /\ Happens("hang")
    /\ UNCHANGED <<stored, waiting, deleting, age, codes, relogged>>

\* FortnoxDisconnect, also from a stale page.
Disconnect ==
    /\ deleting = {}
    /\ deleting' = Rows
    /\ Happens("disconnect")
    /\ UNCHANGED <<stored, work, waiting>>
    /\ UNCHANGED fortnoxVars

\* Its deletes in their order; an error is logged and the next one follows.
DeleteRow(row) ==
    /\ row \in deleting
    /\ row = "refresh" => "access" \notin deleting
    /\ row = "expiry" => deleting = {"expiry"}
    /\ deleting' = deleting \ {row}
    /\ Upsert(row, 0) \/ UNCHANGED stored
    /\ Nothing
    /\ UNCHANGED <<work, waiting>>
    /\ UNCHANGED fortnoxVars

\* The process stops and is started again; sessions are kept in memory.
Crash ==
    /\ ~Quiet \/ waiting \/ \E w \in Workers : work[w].pc = "hung"
    /\ work' = [w \in Workers |-> Idle]
    /\ waiting' = FALSE
    /\ deleting' = {}
    /\ Happens("crash")
    /\ UNCHANGED stored
    /\ UNCHANGED fortnoxVars

-----------------------------------------------------------------------------
(* Specification *)

Init ==
    /\ stored = [row \in Rows |-> 0]
    /\ work = [w \in Workers |-> Idle]
    /\ waiting = FALSE
    /\ deleting = {}
    /\ usable = {}
    /\ age = [n \in Pairs |-> 0]
    /\ issued = 0
    /\ codes = 0
    /\ relogged = FALSE
    /\ events = {}

\* The next step of GetValidAccessToken.
Continue(w) ==
    \/ ReadAccess(w)
    \/ ReadRefresh(w)
    \/ ReadExpiry(w)
    \/ Request(w)
    \/ Save(w)
    \/ Use(w)

Next ==
    \/ \E w \in Clients : StartCall(w) \/ Continue(w)
    \/ Authorize
    \/ \E b \in Browsers : Callback(b) \/ Exchange(b) \/ Save(b)
    \/ Disconnect \/ \E row \in Rows : DeleteRow(row)
    \/ \E n \in Pairs : Age(n)
    \/ Crash

Spec == Init /\ [][Next]_vars

(***************************************************************************)
(* Goroutines are scheduled, statements end, time passes and the ticker    *)
(* fires.  A request that hangs is an event, every other one is answered.  *)
(***************************************************************************)
Fairness ==
    /\ \A w \in Clients : WF_vars(Continue(w))
    /\ WF_vars(StartCall(Refresher))
    /\ \A b \in Browsers : WF_vars(Exchange(b) \/ Save(b))
    /\ WF_vars(\E n \in Pairs : Age(n))

FairSpec == Spec /\ Fairness

-----------------------------------------------------------------------------
(* Properties *)

TypeOK ==
    /\ stored \in [Rows -> 0..MaxPairs]
    /\ \A w \in Workers :
          /\ work[w].pc \in PCs
          /\ work[w].access \in 0..MaxPairs
          /\ work[w].refresh \in 0..MaxPairs
          /\ work[w].fresh \in BOOLEAN
          /\ work[w].attempt \in 1..MaxAttempts
    /\ waiting \in BOOLEAN
    /\ deleting \subseteq Rows
    /\ usable \subseteq 1..issued
    /\ age \in [Pairs -> 0..2]
    /\ issued \in 0..MaxPairs /\ codes \in 0..MaxCodes
    /\ relogged \in BOOLEAN
    /\ events \subseteq Events

Without(kinds) == events \cap kinds = {}

\* Two workers that refresh with the same token, or a login beside them, do no
\* harm to the grant: as long as no answer or statement is lost and nobody
\* disconnects, the stored refresh token is one Fortnox takes, or a worker has
\* the next one to save (auth.go:138-144, no lock around them).
Recoverable ==
    Connected /\ Without({"crash", "write", "lost", "hang", "disconnect"}) =>
        \/ stored["refresh"] \in usable
        \/ \E w \in Workers :
              /\ work[w].pc \in {"save access", "save refresh"}
              /\ work[w].access \in usable

\* However the three statements of several workers that refresh interleave,
\* when they are done access and refresh token are of one pair, unless a
\* statement was cut off or a disconnect ran in between.  The expiry is never
\* later than the one of the access token, also when the process stops between
\* the statements: the app does not take an old token for a valid one (the
\* order of SaveTokens, auth.go:107-116).  A second login is excepted: its
\* statements and those of a refresh may leave rows of two pairs.
PairsMatch ==
    ~relogged =>
        /\ Quiet /\ Without({"crash", "write", "disconnect"}) =>
               stored["access"] = stored["refresh"]
        /\ Connected /\ Without({"disconnect"}) =>
               stored["expiry"] <= stored["access"]

\* A token that is used has not expired, unless another worker replaced it, a
\* disconnect removed rows, or a second login wrote some, between the reads of
\* the token and of its expiry (auth.go:120-135).
TokenAccepted ==
    \A w \in Callers :
        /\ work[w].pc = "use"
        /\ work[w].access = stored["access"]
        /\ Without({"disconnect"}) /\ ~relogged
        => age[work[w].access] < 2

\* When a disconnect has left nobody at work and no access token, only a new
\* login at Fortnox connects the app, though a refresh that ran meanwhile may
\* have left its other rows behind (settings.go:186-194).
DisconnectHolds ==
    \A k \in 0..MaxCodes :
        [](~Connected /\ Quiet /\ codes = k => [](Connected => codes > k))

\* The refresher and the passing of time keep the grant alive: a stored
\* refresh token that Fortnox takes is used and replaced, though the ticker
\* finds a token valid at most ticks (auth.go:148-169, "Fortnox refresh
\* tokens expire after 30 days of non-use").
RefreshIsUsed ==
    \A n \in Pairs :
        Connected /\ stored["refresh"] = n /\ n \in usable
            ~> \/ n \notin usable \/ stored["refresh"] # n \/ ~Connected
               \/ issued = MaxPairs \/ "hang" \in events

\* A token request that hangs, which has no timeout, stops its own goroutine
\* only: every other call ends (auth.go:88, http.DefaultClient).
CallEnds ==
    \A w \in Clients :
        work[w].pc = "access"
            ~> work[w].pc \in {"idle", "hung"}
=============================================================================
