------------------------------ MODULE XmuxPool ------------------------------
(***************************************************************************)
(* The connection pool of the XHTTP client: transport/v2rayxhttp/xmux.go   *)
(* and the part of client.go that takes connections from it.               *)
(*                                                                         *)
(* A member of Streams is one call of Client.DialContext and the stream    *)
(* connection it returns; a member of Conns is one xmuxClient with the     *)
(* http2.Transport it owns.  Several streams share one xmuxClient.         *)
(*                                                                         *)
(* xmuxManager.access is the variable "access".  get() holds it over two   *)
(* steps, the eviction scan and the choice, because the streams change     *)
(* their own xmuxClient (its own lock, its atomics) while get() runs.      *)
(***************************************************************************)
EXTENDS Integers, FiniteSets

CONSTANTS
    Streams,             \* dials, each taken at most once
    Conns,               \* bound: the connections that can ever be opened
    NoStream, NoConn,
    MaxConcurrency,      \* the values the configured ranges can roll;
    MaxConnections,      \*   0 means "no limit", as in the code
    CMaxReuseTimes,
    HMaxRequestTimes,
    HMaxReusableSecs,
    Threshold,           \* xmuxBreakerThreshold
    BackoffInitial,      \* xmuxBackoffInitial
    BackoffCap,          \* xmuxBackoffCap
    MaxClock,             \* bound: the clock stops here
    MaxEvents,           \* bound: requests and read results per stream
    MaxRequests,         \* bound: of these, requests
    MaxReleases          \* bound: calls of release per stream

ASSUME SetsAssumption ==
    /\ IsFiniteSet(Streams) /\ IsFiniteSet(Conns)
    /\ NoStream \notin Streams /\ NoConn \notin Conns

ASSUME RangesAssumption ==
    /\ MaxConcurrency \subseteq Nat /\ MaxConnections \subseteq Nat
    /\ CMaxReuseTimes \subseteq Nat /\ HMaxRequestTimes \subseteq Nat
    /\ HMaxReusableSecs \subseteq Nat

ASSUME BreakerAssumption ==
    /\ Threshold \in Nat \ {0}
    /\ BackoffInitial \in Nat \ {0} /\ BackoffCap \in Nat
    /\ BackoffInitial <= BackoffCap
    /\ MaxClock \in Nat /\ MaxEvents \in Nat /\ MaxRequests \in Nat
    /\ MaxReleases \in Nat

VARIABLES
    \* the xmuxManager
    concurrency, connections, clients, access,
    backoffDelay, blockedUntil, backoffArmed,
    closing,        \* connections Close() took out and has not closed yet
    \* the xmuxClients
    opened, openUsage, leftUsage, leftRequests, unreusableAt,
    consecFails, failing,
    retired,        \* xmuxClient.closed
    \* their http2.Transports
    connClosed,     \* http2XmuxConn.closed
    live,           \* the transport keeps an established connection
    \* the streams
    at, client, wakeAt, events,
    releases,       \* calls of its xmuxRelease.release
    inflight,       \* HTTP/2 streams the transport carries for it
    note,           \* the step its breaker report has reached
    \* the clock, and how often get() returned each connection
    clock, handed

managerVars == <<concurrency, connections, backoffDelay, blockedUntil, backoffArmed>>
poolVars    == <<clients, access, closing, opened, handed>>
limitVars   == <<leftUsage, unreusableAt>>
usageVars   == <<openUsage, retired, connClosed, live>>
breakerVars == <<consecFails, failing, note>>
requestVars == <<leftRequests, events, inflight>>
dialVars    == <<at, client, wakeAt, releases>>

xmuxVars == <<managerVars, poolVars, limitVars, usageVars, breakerVars,
          requestVars, dialVars, clock>>

MaxInt32 == 2147483647

-----------------------------------------------------------------------------
(* The transport, as xmux.go uses it. *)

\* The transport of c carries an HTTP/2 stream.
Busy(c) == \E s \in Streams : client[s] = c /\ inflight[s] > 0

\* http2XmuxConn.Close on every connection of D: the first call of each one
\* closes the established connection, if it is idle; later calls do nothing.
CloseConns(D) ==
    /\ connClosed' = [c \in Conns |-> connClosed[c] \/ c \in D]
    /\ live' = [c \in Conns |->
                  live[c] /\ ~(c \in D /\ ~connClosed[c] /\ ~Busy(c))]

-----------------------------------------------------------------------------
(* xmuxClient *)

\* Mutant: close tears the connection down under its streams.
CloseClientsAtOnce(D) ==
    /\ retired' = [c \in Conns |-> retired[c] \/ c \in D]
    /\ CloseConns(D)
    /\ UNCHANGED openUsage

\* close() on every client of D.
CloseClients(D) ==
    /\ retired' = [c \in Conns |-> retired[c] \/ c \in D]
    /\ CloseConns({c \in D : openUsage[c] <= 0})
    /\ UNCHANGED openUsage

\* Mutant: the last stream does not tear a retired connection down.
AddUsageOnly(c, delta) ==
    /\ openUsage' = [openUsage EXCEPT ![c] = @ + delta]
    /\ UNCHANGED <<retired, connClosed, live>>

AddUsage(c, delta) ==
    /\ openUsage' = [openUsage EXCEPT ![c] = @ + delta]
    /\ CloseConns(IF retired[c] /\ openUsage[c] + delta <= 0 THEN {c} ELSE {})
    /\ UNCHANGED retired

EvictCause(c) ==
    \/ connClosed[c]
    \/ failing[c]
    \/ leftUsage[c] = 0
    \/ leftRequests[c] <= 0
    \/ unreusableAt[c] # 0 /\ clock > unreusableAt[c]

-----------------------------------------------------------------------------
(* xmuxManager.get and Client.DialContext *)

\* Mutant: evicted connections are dropped without close().
GetEvictForget(s) ==
    /\ at[s] = "dialing" /\ access = NoStream
    /\ opened # Conns
    /\ clients' = {c \in clients : ~EvictCause(c)}
    /\ access' = s
    /\ at' = [at EXCEPT ![s] = "picking"]
    /\ UNCHANGED <<managerVars, limitVars, usageVars, breakerVars, requestVars, clock,
                   closing, opened, handed, client, wakeAt, releases>>

\* The first half of get: the manager's lock, the eviction scan, and close()
\* on what it evicted.
GetEvict(s) ==
    /\ at[s] = "dialing" /\ access = NoStream
    /\ opened # Conns                                   \* bound
    /\ LET evicted == {c \in clients : EvictCause(c)} IN
         /\ clients' = clients \ evicted
         /\ CloseClients(evicted)
    /\ access' = s
    /\ at' = [at EXCEPT ![s] = "picking"]
    /\ UNCHANGED <<managerVars, limitVars, breakerVars, requestVars, clock,
                   closing, opened, handed, client, wakeAt, releases>>

InBackoff == clients = {} /\ backoffArmed /\ blockedUntil > clock

\* Mutant: one connection too many.
BelowConnectionsOffByOne == connections > 0 /\ Cardinality(clients) <= connections

BelowConnections == connections > 0 /\ Cardinality(clients) < connections

Candidates ==
    IF concurrency > 0 THEN {c \in clients : openUsage[c] < concurrency}
                       ELSE clients

\* get hands c to s and returns.
HandOut(s, c) ==
    /\ access' = NoStream
    /\ client' = [client EXCEPT ![s] = c]
    /\ at' = [at EXCEPT ![s] = "got"]
    /\ handed' = [handed EXCEPT ![c] = @ + 1]
    /\ UNCHANGED <<wakeAt, releases>>

\* Mutant: the first use of a connection is not counted.
NewClientFreeUse(c) ==
    /\ opened' = opened \union {c}
    /\ clients' = clients \union {c}
    /\ \E x \in CMaxReuseTimes :
         leftUsage' = [leftUsage EXCEPT ![c] = IF x > 0 THEN x ELSE -1]
    /\ \E x \in HMaxRequestTimes :
         leftRequests' = [leftRequests EXCEPT ![c] = IF x > 0 THEN x ELSE MaxInt32]
    /\ \E x \in HMaxReusableSecs :
         unreusableAt' = [unreusableAt EXCEPT ![c] = IF x > 0 THEN clock + x ELSE 0]

\* newClientLocked
NewClient(c) ==
    /\ opened' = opened \union {c}
    /\ clients' = clients \union {c}
    /\ \E x \in CMaxReuseTimes :
         leftUsage' = [leftUsage EXCEPT ![c] = IF x > 0 THEN x - 1 ELSE -1]
    /\ \E x \in HMaxRequestTimes :
         leftRequests' = [leftRequests EXCEPT ![c] = IF x > 0 THEN x ELSE MaxInt32]
    /\ \E x \in HMaxReusableSecs :
         unreusableAt' = [unreusableAt EXCEPT ![c] = IF x > 0 THEN clock + x ELSE 0]

\* A connection that was not opened yet; which one is of no matter.
NextConn == CHOOSE c \in Conns : c \notin opened

GetNew(s) ==
    /\ access = s
    /\ ~InBackoff
    /\ clients = {} \/ BelowConnections \/ Candidates = {}
    /\ opened # Conns                                   \* bound
    /\ NewClient(NextConn) /\ HandOut(s, NextConn)
    /\ UNCHANGED <<managerVars, usageVars, breakerVars, events, inflight, clock,
                   closing>>

GetReuse(s) ==
    /\ access = s
    /\ ~BelowConnections
    /\ \E c \in Candidates :
         /\ HandOut(s, c)
         /\ leftUsage' = [leftUsage EXCEPT ![c] = IF @ > 0 THEN @ - 1 ELSE @]
    /\ UNCHANGED <<managerVars, usageVars, breakerVars, requestVars, clock,
                   clients, closing, opened, unreusableAt>>

\* Mutant: the end of the window is taken for the time to wait.
GetWaitTooLong(s) ==
    /\ access = s
    /\ InBackoff
    /\ access' = NoStream
    /\ at' = [at EXCEPT ![s] = "waiting"]
    /\ wakeAt' = [wakeAt EXCEPT ![s] = clock + blockedUntil]
    /\ UNCHANGED <<managerVars, limitVars, usageVars, breakerVars, requestVars,
                   clock, clients, closing, opened, handed, client,
                   releases>>

\* An empty pool inside the back-off window: get returns the time to wait and
\* getContext sleeps for it.
GetWait(s) ==
    /\ access = s
    /\ InBackoff
    /\ access' = NoStream
    /\ at' = [at EXCEPT ![s] = "waiting"]
    /\ wakeAt' = [wakeAt EXCEPT ![s] = blockedUntil]
    /\ UNCHANGED <<managerVars, limitVars, usageVars, breakerVars, requestVars,
                   clock, clients, closing, opened, handed, client,
                   releases>>

\* Mutant: the timer only fires once the window has been reset by a success.
WakeOnReset(s) ==
    /\ at[s] = "waiting"
    /\ ~backoffArmed
    /\ at' = [at EXCEPT ![s] = "dialing"]
    /\ UNCHANGED <<managerVars, poolVars, limitVars, usageVars, breakerVars,
                   requestVars, clock, client, wakeAt, releases>>

\* getContext: the timer fires and get is called again, or the dial's context
\* ends and the dial with it.
Wake(s) ==
    /\ at[s] = "waiting"
    /\ clock >= wakeAt[s]
    /\ at' = [at EXCEPT ![s] = "dialing"]
    /\ UNCHANGED <<managerVars, poolVars, limitVars, usageVars, breakerVars,
                   requestVars, clock, client, wakeAt, releases>>

CancelWait(s) ==
    /\ at[s] = "waiting"
    /\ at' = [at EXCEPT ![s] = "cancelled"]
    /\ UNCHANGED <<managerVars, poolVars, limitVars, usageVars, breakerVars,
                   requestVars, clock, client, wakeAt, releases>>

\* DialContext counts the stream only after get has given the lock back.
Join(s) ==
    /\ at[s] = "got"
    /\ AddUsage(client[s], 1)
    /\ at' = [at EXCEPT ![s] = "held"]
    /\ UNCHANGED <<managerVars, poolVars, limitVars, breakerVars, requestVars,
                   clock, client, wakeAt, releases>>

\* dialMode fails, and DialContext gives the connection back itself: there is no
\* stream, and no xmuxRelease, yet.
DialModeFails(s) ==
    /\ at[s] = "held" /\ events[s] = 0
    /\ MaxReleases > 0                                  \* bound
    /\ AddUsage(client[s], -1)
    /\ at' = [at EXCEPT ![s] = "failed"]
    /\ UNCHANGED <<managerVars, poolVars, limitVars, breakerVars, requestVars,
                   clock, client, wakeAt, releases>>

\* Close, or the fail of a goroutine of the stream, begins to clean up and ends the
\* stream's context.
End(s) ==
    /\ at[s] = "held" /\ MaxReleases > 0                \* bound
    /\ at' = [at EXCEPT ![s] = "ended"]
    /\ UNCHANGED <<managerVars, poolVars, limitVars, usageVars, breakerVars,
                   requestVars, clock, client, wakeAt, releases>>

\* Mutant: release without the sync.Once.
ReleaseEveryTime(s) ==
    /\ at[s] = "ended" /\ releases[s] < MaxReleases
    /\ releases' = [releases EXCEPT ![s] = @ + 1]
    /\ AddUsage(client[s], -1)
    /\ UNCHANGED <<managerVars, poolVars, limitVars, breakerVars, requestVars,
                   clock, at, client, wakeAt>>

\* xmuxRelease.release, the last step of every cleanup, and there may be several:
\* the first call gives the connection back.
Release(s) ==
    /\ at[s] = "ended" /\ releases[s] < MaxReleases     \* bound
    /\ releases' = [releases EXCEPT ![s] = @ + 1]
    /\ IF releases[s] = 0 THEN AddUsage(client[s], -1) ELSE UNCHANGED usageVars
    /\ UNCHANGED <<managerVars, poolVars, limitVars, breakerVars, requestVars,
                   clock, at, client, wakeAt>>

-----------------------------------------------------------------------------
(* xmuxClient.roundTrip and the breaker *)

CanAct(s) == at[s] \in {"held", "ended"} /\ events[s] < MaxEvents

\* takeRequest and the start of RoundTrip.  The goroutine of a stream may get
\* here after the stream was closed: its context has ended, and the transport
\* sends nothing.
BeginRequest(s) ==
    /\ CanAct(s) /\ events[s] < MaxRequests             \* bound
    /\ LET c == client[s] IN
         /\ leftRequests' = [leftRequests EXCEPT ![c] = @ - 1]
         /\ live' = [live EXCEPT ![c] = @ \/ at[s] = "held"]
    /\ inflight' = [inflight EXCEPT ![s] = IF at[s] = "held" THEN @ + 1 ELSE @]
    /\ events' = [events EXCEPT ![s] = @ + 1]
    /\ UNCHANGED <<managerVars, poolVars, limitVars, breakerVars, dialVars, clock,
                   openUsage, retired, connClosed>>

\* noteFailure up to the comparison with the threshold.
CountFailure(s) ==
    LET c == client[s] IN
    /\ note[s] = "none"
    /\ consecFails' = [consecFails EXCEPT ![c] = @ + 1]
    /\ note' = [note EXCEPT ![s] =
                  IF consecFails[c] + 1 = Threshold THEN "store" ELSE "none"]
    /\ UNCHANGED failing

\* An HTTP/2 stream ends without a report to the breaker: it completed, or its
\* context (the stream's, or the POST's timeout) ended first.
EndRequest(s) ==
    /\ inflight[s] > 0
    /\ inflight' = [inflight EXCEPT ![s] = @ - 1]
    /\ UNCHANGED <<managerVars, poolVars, limitVars, usageVars, breakerVars,
                   dialVars, clock, leftRequests, events>>

\* It ends with a transport error, which may have taken the established
\* connection down, or with a status other than 200.
FailRequest(s) ==
    /\ inflight[s] > 0
    /\ inflight' = [inflight EXCEPT ![s] = @ - 1]
    /\ CountFailure(s)
    /\ \E up \in BOOLEAN : live' = [live EXCEPT ![client[s]] = @ /\ up]
    /\ UNCHANGED <<managerVars, poolVars, limitVars, dialVars, clock, openUsage,
                   retired, connClosed, leftRequests, events>>

\* connBreaker.noteRead with an error that is neither EOF nor local.
ReadFails(s) ==
    /\ CanAct(s)
    /\ CountFailure(s)
    /\ events' = [events EXCEPT ![s] = @ + 1]
    /\ UNCHANGED <<managerVars, poolVars, limitVars, usageVars, dialVars, clock,
                   leftRequests, inflight>>

\* noteFailure after the threshold: the flag, then the manager.
StoreFailing(s) ==
    /\ note[s] = "store"
    /\ failing' = [failing EXCEPT ![client[s]] = TRUE]
    /\ note' = [note EXCEPT ![s] = "trip"]
    /\ UNCHANGED <<managerVars, poolVars, limitVars, usageVars, requestVars,
                   dialVars, clock, consecFails>>

NextDelay ==
    IF backoffDelay = 0 THEN BackoffInitial
    ELSE IF 2 * backoffDelay > BackoffCap THEN BackoffCap ELSE 2 * backoffDelay

NoteBreakerTrip(s) ==
    /\ note[s] = "trip" /\ access = NoStream
    /\ backoffDelay' = NextDelay
    /\ blockedUntil' = clock + NextDelay
    /\ backoffArmed' = TRUE
    /\ note' = [note EXCEPT ![s] = "none"]
    /\ UNCHANGED <<poolVars, limitVars, usageVars, requestVars, dialVars, clock,
                   concurrency, connections, consecFails, failing>>

\* noteSuccess, up to the unlocked test at the head of resetBackoff.
NoteSuccess(s) ==
    /\ CanAct(s) /\ note[s] = "none"
    /\ consecFails' = [consecFails EXCEPT ![client[s]] = 0]
    /\ note' = [note EXCEPT ![s] = IF backoffArmed THEN "reset" ELSE "none"]
    /\ events' = [events EXCEPT ![s] = @ + 1]
    /\ UNCHANGED <<managerVars, poolVars, limitVars, usageVars, dialVars, clock,
                   failing, leftRequests, inflight>>

ResetBackoff(s) ==
    /\ note[s] = "reset" /\ access = NoStream
    /\ backoffDelay' = 0 /\ blockedUntil' = 0 /\ backoffArmed' = FALSE
    /\ note' = [note EXCEPT ![s] = "none"]
    /\ UNCHANGED <<poolVars, limitVars, usageVars, requestVars, dialVars, clock,
                   concurrency, connections, consecFails, failing>>

-----------------------------------------------------------------------------
(* xmuxManager.Close: the pool is emptied under the lock, the connections are *)
(* closed after it.                                                           *)

CloseTake ==
    /\ access = NoStream
    /\ closing' = closing \union clients
    /\ clients' = {}
    /\ UNCHANGED <<managerVars, limitVars, usageVars, breakerVars, requestVars,
                   dialVars, clock, access, opened, handed>>

CloseOne(c) ==
    /\ c \in closing
    /\ closing' = closing \ {c}
    /\ CloseClients({c})
    /\ UNCHANGED <<managerVars, limitVars, breakerVars, requestVars, dialVars,
                   clock, clients, access, opened, handed>>

PoolTick ==
    /\ clock < MaxClock
    /\ clock' = clock + 1
    /\ UNCHANGED <<managerVars, poolVars, limitVars, usageVars, breakerVars,
                   requestVars, dialVars>>

-----------------------------------------------------------------------------
\* newXmuxManager rolls the two pool-wide limits once; normalizeXmux refuses a
\* configuration that sets both.
PoolInit ==
    /\ concurrency \in MaxConcurrency /\ connections \in MaxConnections
    /\ concurrency = 0 \/ connections = 0
    /\ clients = {} /\ access = NoStream
    /\ backoffDelay = 0 /\ blockedUntil = 0 /\ backoffArmed = FALSE
    /\ closing = {} /\ opened = {}
    /\ openUsage = [c \in Conns |-> 0]
    /\ leftUsage = [c \in Conns |-> -1]
    /\ leftRequests = [c \in Conns |-> MaxInt32]
    /\ unreusableAt = [c \in Conns |-> 0]
    /\ consecFails = [c \in Conns |-> 0]
    /\ failing = [c \in Conns |-> FALSE]
    /\ retired = [c \in Conns |-> FALSE]
    /\ connClosed = [c \in Conns |-> FALSE]
    /\ live = [c \in Conns |-> FALSE]
    /\ at = [s \in Streams |-> "dialing"]
    /\ client = [s \in Streams |-> NoConn]
    /\ wakeAt = [s \in Streams |-> 0]
    /\ releases = [s \in Streams |-> 0]
    /\ events = [s \in Streams |-> 0]
    /\ inflight = [s \in Streams |-> 0]
    /\ note = [s \in Streams |-> "none"]
    /\ clock = 0 /\ handed = [c \in Conns |-> 0]

\* The ways in which a stream ends.
Leave(s) == DialModeFails(s) \/ End(s) \/ Release(s)

Dial(s) ==
    GetEvict(s) \/ GetNew(s) \/ GetReuse(s) \/ GetWait(s)
      \/ Wake(s) \/ CancelWait(s) \/ Join(s) \/ Leave(s)

Carry(s) ==
    BeginRequest(s) \/ EndRequest(s) \/ FailRequest(s) \/ ReadFails(s)
      \/ StoreFailing(s) \/ NoteBreakerTrip(s) \/ NoteSuccess(s) \/ ResetBackoff(s)

PoolNext ==
    \/ \E s \in Streams : Dial(s) \/ Carry(s)
    \/ \E c \in Conns : CloseOne(c)
    \/ CloseTake
    \/ PoolTick

PoolSpec == PoolInit /\ [][PoolNext]_xmuxVars

\* Time passes, timers fire, and a goroutine that asks for the manager's lock
\* gets it in the end (sync.Mutex hands over in order once a waiter starves).
PoolFairness ==
    /\ WF_xmuxVars(PoolTick)
    /\ \A s \in Streams :
         /\ SF_xmuxVars(GetEvict(s))
         /\ WF_xmuxVars(GetNew(s) \/ GetReuse(s) \/ GetWait(s))
         /\ WF_xmuxVars(Wake(s))

PoolFairSpec == PoolSpec /\ PoolFairness

-----------------------------------------------------------------------------
(* Properties *)

\* Every variable holds a value of the Go field it stands for.
PoolTypeOK ==
    /\ concurrency \in Nat /\ connections \in Nat
    /\ clients \subseteq opened /\ closing \subseteq opened /\ opened \subseteq Conns
    /\ access \in Streams \union {NoStream}
    /\ backoffDelay \in 0..BackoffCap /\ blockedUntil \in Nat
    /\ backoffArmed \in BOOLEAN
    /\ openUsage \in [Conns -> Int] /\ leftUsage \in [Conns -> Nat \union {-1}]
    /\ leftRequests \in [Conns -> Int] /\ unreusableAt \in [Conns -> Nat]
    /\ consecFails \in [Conns -> Nat] /\ failing \in [Conns -> BOOLEAN]
    /\ retired \in [Conns -> BOOLEAN] /\ connClosed \in [Conns -> BOOLEAN]
    /\ live \in [Conns -> BOOLEAN]
    /\ at \in [Streams -> {"dialing", "picking", "waiting", "cancelled",
                           "got", "held", "failed", "ended"}]
    /\ client \in [Streams -> Conns \union {NoConn}]
    /\ wakeAt \in [Streams -> Nat] /\ events \in [Streams -> Nat]
    /\ releases \in [Streams -> Nat]
    /\ inflight \in [Streams -> Nat]
    /\ note \in [Streams -> {"none", "store", "trip", "reset"}]
    /\ clock \in Nat /\ handed \in [Conns -> Nat]

\* The streams that were counted on c and have not given it back: no release was
\* called for them, and DialContext did not fail.
Holders(c) ==
    {s \in Streams : /\ client[s] = c
                     /\ at[s] = "held" \/ (at[s] = "ended" /\ releases[s] = 0)}

\* openUsage is exact: a stream counts once from addOpenUsage to its first release,
\* though Close and fail both release it, and a dial that fails gives the connection
\* back on a path of its own (xmux.go:124, "Release must occur exactly once because
\* repeated closes can make usage negative and prevent teardown").
UsageExact == \A c \in Conns : openUsage[c] = Cardinality(Holders(c))

\* A retired connection is torn down as soon as no counted stream is left on
\* it, and nothing but retirement tears one down (close, addOpenUsage).
RetiredIsTornDown ==
    \A c \in Conns :
      /\ connClosed[c] => retired[c]
      /\ retired[c] /\ Holders(c) = {} => connClosed[c]

\* No connection is lost: one that was opened is in the pool, on its way out of
\* Close, or retired, and it is only one of the three; so the pool never holds
\* a connection that some get or Close has already given up.
NoConnectionLost ==
    /\ \A c \in opened : c \in clients \union closing <=> ~retired[c]
    /\ clients \intersect closing = {}

\* Tearing a connection down never takes it from a counted stream
\* (xmux.go:22, for the streams that have passed addOpenUsage).
TeardownSparesHolders ==
    [][\A c \in Conns : connClosed'[c] /\ ~connClosed[c] => Holders(c)' = {}]_xmuxVars

\* The pool holds at most max_connections connections, however dials, evictions
\* and Close interleave.
PoolBound == connections > 0 => Cardinality(clients) <= connections

\* get hands a connection with a limit out at most c_max_reuse_times times.
ReuseBound ==
    \A c \in opened :
      leftUsage[c] # -1 => \E x \in CMaxReuseTimes : handed[c] <= x

\* A dial that waits out the back-off never sleeps past the cap from now, even
\* when the breaker trips again or is reset while it sleeps.
WaitBounded ==
    \A s \in Streams : at[s] = "waiting" => wakeAt[s] <= clock + BackoffCap

\* Every dial ends: it gets a connection or its context ends, even though the
\* back-off can be armed, extended and reset while it waits.  (The last disjunct
\* is the end of the bounded clock.)
DialReturns ==
    \A s \in Streams :
      at[s] = "dialing" ~>
        \/ at[s] \in {"got", "cancelled"}
        \/ at[s] = "waiting" /\ wakeAt[s] > MaxClock

(* What the repository says of the pool and the code does not keep. *)

\* The streams a connection was handed to and that have not released it.
Users(c) == Holders(c) \union {s \in Streams : at[s] = "got" /\ client[s] = c}

\* xmux.go:22: "Retiring a connection must defer teardown until its last active
\* stream releases it", for every stream get returned the connection to.
TeardownWaitsForUsers == \A c \in Conns : connClosed[c] => Users(c) = {}

\* xmux_test.go:161 fails with "connection was not closed after its last stream
\* left": once every stream has left a retired connection and its requests have
\* ended, no established connection is left behind.
RetiredIsDisconnected ==
    \A c \in Conns :
      retired[c] /\ Users(c) = {} /\ ~Busy(c) => ~live[c]
=============================================================================
