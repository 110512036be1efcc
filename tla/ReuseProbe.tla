------------------------------ MODULE ReuseProbe ------------------------------
(***************************************************************************)
(* The reuse probe of queryMultiplexer (dns/transport/multiplexer.go):     *)
(* whether the server answers more than one query on a connection.  While  *)
(* that is not known queries have connections of their own, and one of     *)
(* them may start a probe; connections that die with queries waiting take  *)
(* the verdict back, and Reset forgets it.                                 *)
(*                                                                         *)
(* reuseState and demoteFailures are atomics, read and written with and    *)
(* without probeAccess, so each access is a step, but for those that only  *)
(* the holder of probeAccess makes.                                        *)
(***************************************************************************)
EXTENDS Integers

CONSTANTS Callers,   \* goroutines in dispatch
          Readers,   \* goroutines in recordConnDeath
          Probes,    \* goroutines in runReuseProbe
          MaxEpoch   \* bound: calls of Reset

Limit == 3   \* reuseDemoteFailureLimit

VARIABLES
    reuseState, demoteFailures, probeEpoch,
    last,      \* lastProbeTime: "zero", "recent" (less than a minute ago) or "old"
    held,      \* probeAccess is held by a probe that has found reuse supported
    caller, reader,
    resetting, \* how many calls of Reset have still to clear demoteFailures
    probe,     \* the probes and the epoch each was started in
    earned     \* history: the latest epoch with a probe that succeeded

probeVars == <<reuseState, demoteFailures, probeEpoch, last, held, caller, reader, resetting, probe,
          earned>>

NoProbe == [pc |-> "none", epoch |-> 0]

\* newQueryMultiplexer: the zero values.
ProbeInit ==
    /\ reuseState = "unknown" /\ demoteFailures = 0 /\ probeEpoch = 0 /\ last = "zero"
    /\ held = FALSE /\ resetting = 0 /\ earned = -1
    /\ caller = [c \in Callers |-> "idle"]
    /\ reader = [r \in Readers |-> "idle"]
    /\ probe = [p \in Probes |-> NoProbe]

\* A minute has passed since lastProbeTime.
MinutePasses ==
    /\ last = "recent" /\ last' = "old"
    /\ UNCHANGED <<reuseState, demoteFailures, probeEpoch, held, caller, reader, resetting, probe,
                   earned>>

\* dispatch: unless reuse is supported, on to maybeStartProbe.
Dispatch(c) ==
    /\ caller[c] = "idle" /\ reuseState # "supported"
    /\ caller' = [caller EXCEPT ![c] = "start"]
    /\ UNCHANGED <<reuseState, demoteFailures, probeEpoch, last, held, reader, resetting, probe,
                   earned>>

\* maybeStartProbe, of a message with a question, under probeAccess.
MaybeStartProbe(c) ==
    /\ caller[c] = "start" /\ ~held
    /\ caller' = [caller EXCEPT ![c] = "idle"]
    /\ IF reuseState = "probing" \/ last = "recent"
       THEN UNCHANGED <<reuseState, last, probe>>
       ELSE /\ reuseState' = "probing" /\ last' = "recent"
            /\ \E p \in Probes :
                 /\ probe[p].pc = "none"
                 /\ probe' = [probe EXCEPT ![p] = [pc |-> "run", epoch |-> probeEpoch]]
    /\ UNCHANGED <<demoteFailures, probeEpoch, held, reader, resetting, earned>>

\* executeReuseProbe ends and runReuseProbe takes probeAccess: an epoch that is
\* over is ignored.  Both answers on one connection mean it is supported; the dial
\* fails; or a write or a read fails, at the latest by the timeout.
ProbeEnds(p) ==
    /\ probe[p].pc = "run" /\ ~held
    /\ \/ /\ probe[p].epoch # probeEpoch
          /\ probe' = [probe EXCEPT ![p] = NoProbe]
          /\ UNCHANGED <<reuseState, held, earned>>
       \/ /\ probe[p].epoch = probeEpoch
          /\ reuseState' = "supported" /\ held' = TRUE /\ earned' = probeEpoch
          /\ probe' = [probe EXCEPT ![p] = [pc |-> "clear", epoch |-> probeEpoch]]
       \/ /\ probe[p].epoch = probeEpoch
          /\ reuseState' \in {"unknown", "unsupported"}
          /\ probe' = [probe EXCEPT ![p] = NoProbe]
          /\ UNCHANGED <<held, earned>>
    /\ UNCHANGED <<demoteFailures, probeEpoch, last, caller, reader, resetting>>

\* demoteFailures.Store(0), and probeAccess is free.
ProbeClears(p) ==
    /\ probe[p].pc = "clear"
    /\ demoteFailures' = 0 /\ held' = FALSE
    /\ probe' = [probe EXCEPT ![p] = NoProbe]
    /\ UNCHANGED <<reuseState, probeEpoch, last, caller, reader, resetting, earned>>

\* Reset, under probeAccess
Reset ==
    /\ ~held /\ probeEpoch < MaxEpoch                   \* bound
    /\ probeEpoch' = probeEpoch + 1 /\ reuseState' = "unknown" /\ last' = "zero"
    /\ resetting' = resetting + 1
    /\ UNCHANGED <<demoteFailures, held, caller, reader, probe, earned>>

\* and then without it
ResetClears ==
    /\ resetting > 0 /\ resetting' = resetting - 1 /\ demoteFailures' = 0
    /\ UNCHANGED <<reuseState, probeEpoch, last, held, caller, reader, probe, earned>>

ReaderAt(r, from, to) == reader[r] = from /\ reader' = [reader EXCEPT ![r] = to]

\* recordConnDeath, of a connection something was read from: it counts if queries
\* wait for it, and otherwise clears the count.
ConnDies(r) ==
    /\ reuseState = "supported"
    /\ ReaderAt(r, "idle", "add") \/ ReaderAt(r, "idle", "clear")
    /\ UNCHANGED <<reuseState, demoteFailures, probeEpoch, last, held, caller, resetting, probe,
                   earned>>

\* demoteFailures.Add(1)
AddFailure(r) ==
    /\ demoteFailures' = demoteFailures + 1
    /\ ReaderAt(r, "add", IF demoteFailures' < Limit THEN "idle" ELSE "demote")
    /\ UNCHANGED <<reuseState, probeEpoch, last, held, caller, resetting, probe, earned>>

\* The verdict is taken back, under probeAccess, if it still stands.
Demote(r) ==
    /\ ReaderAt(r, "demote", "clear") /\ ~held
    /\ IF reuseState = "supported" THEN reuseState' = "unsupported" /\ last' = "recent"
       ELSE UNCHANGED <<reuseState, last>>
    /\ UNCHANGED <<demoteFailures, probeEpoch, held, caller, resetting, probe, earned>>

\* demoteFailures.Store(0)
ReaderClears(r) ==
    /\ ReaderAt(r, "clear", "idle") /\ demoteFailures' = 0
    /\ UNCHANGED <<reuseState, probeEpoch, last, held, caller, resetting, probe, earned>>

ProbeNext ==
    \/ \E c \in Callers : Dispatch(c) \/ MaybeStartProbe(c)
    \/ \E p \in Probes : ProbeEnds(p) \/ ProbeClears(p)
    \/ \E r \in Readers : ConnDies(r) \/ AddFailure(r) \/ Demote(r) \/ ReaderClears(r)
    \/ Reset \/ ResetClears \/ MinutePasses

ProbeSpec == ProbeInit /\ [][ProbeNext]_probeVars

-----------------------------------------------------------------------------
(* Properties *)

\* A probe under way for the epoch of now.
Probing(p) == probe[p].pc = "run" /\ probe[p].epoch = probeEpoch

\* The state does not stay at probing, where no query would start a probe: one of
\* this epoch is under way, and one only, though probes of earlier epochs may be
\* under way as well.
ProbeIsRunning ==
    /\ reuseState = "probing" <=> \E p \in Probes : Probing(p)
    /\ \A p, q \in Probes : Probing(p) /\ Probing(q) => p = q

\* Queries share a connection only if a probe has shown, since the last Reset, that
\* the server answers them: no late probe of an earlier network decides.
ReuseIsEarned == reuseState = "supported" => earned = probeEpoch

\* The count of dead connections does not stay at the limit: who reached it will
\* clear it.
CountIsCleared ==
    demoteFailures >= Limit => \E r \in Readers : reader[r] \in {"demote", "clear"}
=============================================================================
