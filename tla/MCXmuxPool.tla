---------------------------- MODULE MCXmuxPool ----------------------------
(* Instances of XmuxPool for TLC. *)
EXTENDS XmuxPool, TLC

CONSTANT Early    \* the streams of DialStart that are up already

Symmetry == Permutations(Streams) \union Permutations(Conns)

\* The pool after the dials of Early, each of which opened a connection of its own
\* (max_concurrency is 1).
DialStart ==
    LET conn == CHOOSE f \in [Early -> Conns] : \A s, t \in Early : f[s] = f[t] => s = t
        up == {conn[s] : s \in Early}
        Up(yes, no) == [c \in Conns |-> IF c \in up THEN yes ELSE no] IN
    /\ concurrency = 1 /\ connections = 0
    /\ clients = up /\ opened = up /\ closing = {} /\ access = NoStream
    /\ backoffDelay = 0 /\ blockedUntil = 0 /\ backoffArmed = FALSE
    /\ openUsage = Up(1, 0) /\ handed = Up(1, 0)
    /\ leftUsage = [c \in Conns |-> -1]
    /\ leftRequests = [c \in Conns |-> MaxInt32]
    /\ \E x \in HMaxReusableSecs : unreusableAt = Up(x, 0)
    /\ consecFails = [c \in Conns |-> 0]
    /\ failing = [c \in Conns |-> FALSE]
    /\ retired = [c \in Conns |-> FALSE]
    /\ connClosed = [c \in Conns |-> FALSE]
    /\ live = [c \in Conns |-> FALSE]
    /\ at = [s \in Streams |-> IF s \in Early THEN "held" ELSE "dialing"]
    /\ client = [s \in Streams |-> IF s \in Early THEN conn[s] ELSE NoConn]
    /\ wakeAt = [s \in Streams |-> 0]
    /\ releases = [s \in Streams |-> 0]
    /\ events = [s \in Streams |-> 0]
    /\ inflight = [s \in Streams |-> 0]
    /\ note = [s \in Streams |-> "none"]
    /\ clock = 0

DialSpec == DialStart /\ [][PoolNext]_xmuxVars /\ PoolFairness
===========================================================================
