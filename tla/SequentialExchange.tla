-------------------------- MODULE SequentialExchange --------------------------
(***************************************************************************)
(* ExchangeNames and ExchangeSequential of                                 *)
(* dns/transport/exchange_strategy.go: the candidates of a name are asked  *)
(* one after the other until one is accepted.                              *)
(*                                                                         *)
(* An exchanger calls back once (QueryMultiplexer's OneHand), before it    *)
(* returns or after, from another goroutine: whichever of callback and     *)
(* loop comes second goes on with the next candidate.                      *)
(***************************************************************************)
EXTENDS Integers

CONSTANTS N,     \* the number of candidates
          Own    \* which of them is question.Name; 0 if none is

VARIABLES
    ended,      \* the context has ended
    loop,       \* run at a candidate: at the top, inside the exchanger, or past it
    back,       \* its callback: owed, called with a result, or over
    returned, continued,   \* sequentialCallState of the candidate
    answer,     \* history: what the candidate answered
    kept,       \* nameErrorResponse: whose; 0 is nil
    delivered, final       \* the calls of callback, and the result

seqVars == <<ended, loop, back, returned, continued, answer, kept, delivered, final>>

Names == 1..N

Results == {"ok", "nameerror", "error"}

SeqInit ==
    /\ ended = FALSE
    /\ loop = [i \in Names |-> IF i = 1 THEN "top" ELSE "none"]
    /\ back = [i \in Names |-> "none"]
    /\ returned = [i \in Names |-> FALSE] /\ continued = [i \in Names |-> FALSE]
    /\ answer = [i \in Names |-> "none"]
    /\ kept = 0 /\ delivered = 0 /\ final = [result |-> "none", of |-> 0]

EndCtx ==
    /\ ended' = TRUE
    /\ UNCHANGED <<loop, back, returned, continued, answer, kept, delivered, final>>

\* The callback of ExchangeNames: a name error that was met is better than an error.
Callback(result, of) ==
    /\ delivered' = delivered + 1
    /\ final' = IF result # "ok" /\ kept # 0 THEN [result |-> "nameerror", of |-> kept]
                ELSE [result |-> result, of |-> of]

\* The loop asks the candidate, unless the context has ended.
Run(i) ==
    /\ loop[i] = "top"
    /\ IF ended
       THEN /\ loop' = [loop EXCEPT ![i] = "past"]
            /\ Callback("error", 0)
            /\ UNCHANGED back
       ELSE /\ loop' = [loop EXCEPT ![i] = "inside"]
            /\ back' = [back EXCEPT ![i] = "owed"]
            /\ UNCHANGED <<delivered, final>>
    /\ UNCHANGED <<ended, returned, continued, answer, kept>>

\* wrap: the exchanger calls back, and a name error is kept.
SeqAnswer(i) ==
    /\ back[i] = "owed"
    /\ \E result \in Results :
         /\ back' = [back EXCEPT ![i] = result]
         /\ answer' = [answer EXCEPT ![i] = result]
         /\ kept' = IF result = "nameerror" /\ (kept = 0 \/ i = Own) THEN i ELSE kept
    /\ UNCHANGED <<ended, loop, returned, continued, delivered, final>>

\* The last result, or one that is accepted, is delivered.
Accept(i) ==
    /\ back[i] \in Results /\ (i = N \/ back[i] = "ok")
    /\ back' = [back EXCEPT ![i] = "over"]
    /\ Callback(back[i], i)
    /\ UNCHANGED <<ended, loop, returned, continued, answer, kept>>

\* Another one makes the loop go on: here if the exchanger has returned, there if not.
Reject(i) ==
    /\ back[i] \in Results /\ i # N /\ back[i] # "ok"
    /\ back' = [back EXCEPT ![i] = "over"]
    /\ IF returned[i]
       THEN loop' = [loop EXCEPT ![i + 1] = "top"] /\ UNCHANGED continued
       ELSE continued' = [continued EXCEPT ![i] = TRUE] /\ UNCHANGED loop
    /\ UNCHANGED <<ended, returned, answer, kept, delivered, final>>

\* The exchanger returns.
Return(i) ==
    /\ loop[i] = "inside"
    /\ returned' = [returned EXCEPT ![i] = TRUE]
    /\ loop' = IF continued[i] THEN [loop EXCEPT ![i] = "past", ![i + 1] = "top"]
               ELSE [loop EXCEPT ![i] = "past"]
    /\ UNCHANGED <<ended, back, continued, answer, kept, delivered, final>>

SeqNext == EndCtx \/ \E i \in Names : Run(i) \/ SeqAnswer(i) \/ Accept(i) \/ Reject(i) \/ Return(i)

SeqSpec == SeqInit /\ [][SeqNext]_seqVars

-----------------------------------------------------------------------------
(* Properties *)

\* The exchange is in the hands of the candidate: of its loop, of its callback, or
\* of its loop again once the callback has left it the rest.
Holds(i) ==
    \/ loop[i] = "top"
    \/ back[i] \in Results \union {"owed"}
    \/ loop[i] = "inside" /\ continued[i]

\* Whoever asked is called back once, and not forgotten: until then the exchange is
\* in the hands of exactly one candidate, though loop and callback race.
CalledBackOnce ==
    /\ delivered \in {0, 1}
    /\ delivered = 0 <=> \E i \in Names : Holds(i)
    /\ \A i, j \in Names : Holds(i) /\ Holds(j) => i = j

\* The error of a candidate does not hide that another one said the name does not
\* exist; and if the name itself is among those, it is its answer that counts.
NameErrorKept ==
    delivered = 1 =>
      /\ final.result = "error" => \A i \in Names : answer[i] # "nameerror"
      /\ final.result = "nameerror" /\ Own \in Names /\ answer[Own] = "nameerror" => final.of = Own
===============================================================================
