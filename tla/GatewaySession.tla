--------------------------- MODULE GatewaySession ---------------------------
(***************************************************************************)
(* One Gateway session and the handler tasks that serve its requests:      *)
(* gateway/session.py (reserve, commit, the replay cache and the in-flight *)
(* futures) and gateway/server.py (_call, _forward, _stream, _account).    *)
(*                                                                         *)
(* A handler runs on one asyncio loop, so everything between two awaits is *)
(* one action.  The session's lock is never held across an await, so       *)
(* acquiring it does not suspend: reserve and commit are part of the       *)
(* action that calls them.                                                 *)
(*                                                                         *)
(* A response is named by the call that obtained it; a request body by its *)
(* digest (Keys).  Bodies, headers and the four dialects are left out.     *)
(***************************************************************************)
EXTENDS Integers, Sequences, FiniteSets

CONSTANTS
  Calls,            \* the client's requests, each served by one handler task
  Keys,             \* request digests: equal for a retry of the same body
  KeyOf,            \* the digest of each call's authoritative request
  StreamedKeys,     \* digests of bodies that ask for a stream
  Purpose,          \* "agent" or "judge"
  Subscription,     \* whether the Gateway authenticates by subscription
  PayloadRetention, \* whether payload_dir is set (transport_payloads="debug")
  Ceiling,          \* LimitNames -> Nat, or Unlimited
  TokenCounts,      \* what one answer may report for each token counter
  Unlimited,        \* a ceiling of None
  NoCall            \* no future, no cached response

LimitNames == {"max_model_calls", "max_input_tokens",
               "max_output_tokens", "max_total_tokens"}

ASSUME SessionAssumption ==
  /\ NoCall \notin Calls
  /\ KeyOf \in [Calls -> Keys]
  /\ StreamedKeys \subseteq Keys
  /\ Purpose \in {"agent", "judge"}
  /\ Subscription \in BOOLEAN
  /\ PayloadRetention \in BOOLEAN
  /\ DOMAIN Ceiling = LimitNames
  /\ \A l \in LimitNames : Ceiling[l] = Unlimited \/ Ceiling[l] \in Nat
  /\ TokenCounts \subseteq Nat

VARIABLES
  open,     \* the token resolves and the trace is attached
  usage,    \* committed calls and tokens
  reserved, \* _reserved_calls
  refusal,  \* the first limit that refused a call, or "none"
  replay,   \* _replay: the call whose response is cached for a digest
  inflight, \* _inflight: the call that began the digest's pending future
  future,   \* per call that began one: its future
  pc,       \* per call: where its handler is
  attempt,  \* per call: requests posted upstream
  source,   \* per call: the call whose response it waits for or replayed
  response, \* per call: the class of the provider's answer
  records,  \* per call: the dispositions appended to the transport trace
  answer    \* per call: what the client received

sessionVars == <<open, usage, reserved, refusal>>
cacheVars   == <<replay, inflight, future>>
callVars    == <<pc, attempt, source, response, records, answer>>
vars        == <<sessionVars, cacheVars, callVars>>

-----------------------------------------------------------------------------
(* The provider's answer, by what the Gateway tells apart: a whole 200, a   *)
(* whole 2xx other than 200, a 200 stream that ended without its terminal   *)
(* event or with an in-band error, and everything else.                     *)
Answers    == {"complete", "accepted", "truncated", "error"}
Replayable == {"complete", "accepted"}
Metered    == {"complete", "truncated"}

PCs      == {"idle", "reading", "waiting", "posted", "done"}
Futures  == [state: {"none", "pending", "result", "error"}, by: Calls \cup {NoCall}]
Tokens   == [input: TokenCounts, output: TokenCounts]
NoTokens == [input |-> 0, output |-> 0]

TypeOK ==
  /\ open \in BOOLEAN
  /\ usage \in [model_calls: Nat, input: Nat, output: Nat]
  /\ reserved \in Int
  /\ refusal \in LimitNames \cup {"none"}
  /\ replay \in [Keys -> Calls \cup {NoCall}]
  /\ inflight \in [Keys -> Calls \cup {NoCall}]
  /\ future \in [Calls -> Futures]
  /\ pc \in [Calls -> PCs]
  /\ attempt \in [Calls -> 0..2]
  /\ source \in [Calls -> Calls \cup {NoCall}]
  /\ response \in [Calls -> Answers \cup {"none"}]
  /\ records \in [Calls -> Seq({"forwarded", "failed", "refused", "replay"})]
  /\ answer \in [Calls -> {"none", "response", "refusal", "replay", "error",
                           "unauthorized"}]

Init ==
  /\ open = TRUE
  /\ usage = [model_calls |-> 0, input |-> 0, output |-> 0]
  /\ reserved = 0
  /\ refusal = "none"
  /\ replay = [k \in Keys |-> NoCall]
  /\ inflight = [k \in Keys |-> NoCall]
  /\ future = [c \in Calls |-> [state |-> "none", by |-> NoCall]]
  /\ pc = [c \in Calls |-> "idle"]
  /\ attempt = [c \in Calls |-> 0]
  /\ source = [c \in Calls |-> NoCall]
  /\ response = [c \in Calls |-> "none"]
  /\ records = [c \in Calls |-> <<>>]
  /\ answer = [c \in Calls |-> "none"]

-----------------------------------------------------------------------------
(* session.py                                                               *)

Observed(l) ==
  CASE l = "max_model_calls"   -> usage.model_calls + reserved
    [] l = "max_input_tokens"  -> usage.input
    [] l = "max_output_tokens" -> usage.output
    [] l = "max_total_tokens"  -> usage.input + usage.output

(* Mutant: a ceiling that admits one call too many. *)
ReachedLate(l) == Ceiling[l] # Unlimited /\ Observed(l) > Ceiling[l]

Reached(l) == Ceiling[l] # Unlimited /\ Observed(l) >= Ceiling[l]

(* reserve() checks the call ceiling first, then the token ceilings in the  *)
(* order they are listed, and raises for the first one reached.             *)
Rank == [max_model_calls |-> 1, max_input_tokens |-> 2,
         max_output_tokens |-> 3, max_total_tokens |-> 4]
FirstReached(l) == Reached(l) /\ \A m \in LimitNames : Rank[m] < Rank[l] => ~Reached(m)
WithinLimits    == \A l \in LimitNames : ~Reached(l)

(* Mutant: a call without tokens gives its place back. *)
RefundedUsage(n, tokens) ==
  [model_calls |-> usage.model_calls + (IF tokens = NoTokens THEN 0 ELSE n),
   input       |-> usage.input + tokens.input,
   output      |-> usage.output + tokens.output]

(* commit(): one reservation becomes one committed call, tokens included. *)
CommittedUsage(n, tokens) == [model_calls |-> usage.model_calls + n,
                              input       |-> usage.input + tokens.input,
                              output      |-> usage.output + tokens.output]
Commit(n, tokens) == /\ reserved' = reserved - n
                     /\ usage' = CommittedUsage(n, tokens)

(* Mutants: every result is kept; an error is swallowed by its future. *)
FinishKeeping(c, state, keep) ==
  /\ inflight' = [inflight EXCEPT ![KeyOf[c]] = NoCall]
  /\ future' = [future EXCEPT ![c] = [state |-> state, by |-> c]]
  /\ replay' = IF state = "result" THEN [replay EXCEPT ![KeyOf[c]] = c] ELSE replay

FinishDroppingErrors(c, state, keep) ==
  /\ inflight' = [inflight EXCEPT ![KeyOf[c]] = NoCall]
  /\ future' = IF state = "error" THEN future
                ELSE [future EXCEPT ![c] = [state |-> state, by |-> c]]
  /\ replay' = IF keep THEN [replay EXCEPT ![KeyOf[c]] = c] ELSE replay

(* finish(): settle whatever future is in flight for the call's digest, and *)
(* keep the response only when a retry must not sample again.               *)
Finish(c, state, keep) ==
  LET k == KeyOf[c]
      f == inflight[k]
  IN  /\ inflight' = [inflight EXCEPT ![k] = NoCall]
      /\ future' = IF f # NoCall /\ future[f].state = "pending"
                     THEN [future EXCEPT ![f] = [state |-> state, by |-> c]]
                     ELSE future
      /\ replay' = IF keep THEN [replay EXCEPT ![k] = c] ELSE replay

-----------------------------------------------------------------------------
(* server.py: the parts the handler actions share.                          *)

(* Mutant: every session replays. *)
AlwaysReplays == TRUE

Replays == Purpose = "agent"

(* Mutant: a call does not look for another in flight. *)
FreshUncoalesced(c) == Replays => replay[KeyOf[c]] = NoCall

(* No cached response and no future to wait for: the call begins its own. *)
Fresh(c) == Replays => /\ replay[KeyOf[c]] = NoCall
                       /\ inflight[KeyOf[c]] = NoCall

(* _record and _record_replay drop the record once the trace is detached. *)
Record(c, dispositions) ==
  records' = IF open THEN [records EXCEPT ![c] = @ \o dispositions] ELSE records

Ends(c, how) == /\ pc' = [pc EXCEPT ![c] = "done"]
                /\ answer' = [answer EXCEPT ![c] = how]

-----------------------------------------------------------------------------
(* The handler, one action per run between two awaits.                      *)

(* A request arrives with a live token; the handler starts reading its body. *)
Authenticate(c) ==
  /\ pc[c] = "idle" /\ open
  /\ pc' = [pc EXCEPT ![c] = "reading"]
  /\ UNCHANGED <<sessionVars, cacheVars, attempt, source, response, records, answer>>

Unauthorized(c) ==
  /\ pc[c] = "idle" /\ ~open
  /\ Ends(c, "unauthorized")
  /\ UNCHANGED <<sessionVars, cacheVars, attempt, source, response, records>>

(* The client goes away, or the body is not JSON: _call is never reached. *)
BodyUnreadable(c) ==
  /\ pc[c] = "reading"
  /\ Ends(c, "error")
  /\ UNCHANGED <<sessionVars, cacheVars, attempt, source, response, records>>

(* A completed call of the same digest answers this one. *)
ServeCached(c) ==
  /\ pc[c] = "reading" /\ Replays
  /\ replay[KeyOf[c]] # NoCall
  /\ Record(c, <<"replay">>)
  /\ source' = [source EXCEPT ![c] = replay[KeyOf[c]]]
  /\ Ends(c, "replay")
  /\ UNCHANGED <<sessionVars, cacheVars, attempt, response>>

(* A call of the same digest is in flight: wait for its future. *)
Coalesce(c) ==
  /\ pc[c] = "reading" /\ Replays
  /\ replay[KeyOf[c]] = NoCall /\ inflight[KeyOf[c]] # NoCall
  /\ pc' = [pc EXCEPT ![c] = "waiting"]
  /\ source' = [source EXCEPT ![c] = inflight[KeyOf[c]]]
  /\ UNCHANGED <<sessionVars, cacheVars, attempt, response, records, answer>>

(* The future settled; its error is the waiter's error too. *)
WaiterResumes(c) ==
  LET settled == future[source[c]] IN
  /\ pc[c] = "waiting" /\ settled.state # "pending"
  /\ \/ /\ settled.state = "result"
        /\ Record(c, <<"replay">>)
        /\ source' = [source EXCEPT ![c] = settled.by]
        /\ Ends(c, "replay")
     \/ /\ settled.state = "error"
        /\ Ends(c, "error")
        /\ UNCHANGED <<source, records>>
  /\ UNCHANGED <<sessionVars, cacheVars, attempt, response>>

(* begin() and finish() of a call refused in the same step: only an older   *)
(* Judge future of the same digest would be lost, and nobody waits on one.  *)
BeginAndFinish(c, state, keep) ==
  /\ inflight' = [inflight EXCEPT ![KeyOf[c]] = NoCall]
  /\ future' = [future EXCEPT ![c] = [state |-> state, by |-> c]]
  /\ replay' = IF keep THEN [replay EXCEPT ![KeyOf[c]] = c] ELSE replay

(* reserve() raises: the refusal is recorded and cached like an answer, and *)
(* the first one is kept for the episode's verdict.  Writing the debug      *)
(* payload may fail, and then the refusal is not cached.                    *)
Refuse(c) ==
  /\ pc[c] = "reading" /\ Fresh(c)
  /\ \E l \in LimitNames :
       /\ FirstReached(l)
       /\ refusal' = IF refusal = "none" THEN l ELSE refusal
  /\ Record(c, <<"refused">>)
  /\ \/ BeginAndFinish(c, "result", TRUE) /\ Ends(c, "refusal")
     \/ PayloadRetention /\ BeginAndFinish(c, "error", FALSE) /\ Ends(c, "error")
  /\ UNCHANGED <<open, usage, reserved, attempt, source, response>>

(* reserve() succeeds and the request is posted. *)
Forward(c) ==
  /\ pc[c] = "reading" /\ Fresh(c) /\ WithinLimits
  /\ reserved' = reserved + 1
  /\ inflight' = [inflight EXCEPT ![KeyOf[c]] = c]
  /\ future' = [future EXCEPT ![c] = [state |-> "pending", by |-> NoCall]]
  /\ attempt' = [attempt EXCEPT ![c] = 1]
  /\ pc' = [pc EXCEPT ![c] = "posted"]
  /\ UNCHANGED <<open, usage, refusal, replay, source, response, records, answer>>

(* The debug copy of the request cannot be written.  This is outside the    *)
(* try block, so the reservation is neither committed nor released.         *)
RequestNotRetained(c) ==
  /\ PayloadRetention
  /\ pc[c] = "reading" /\ Fresh(c) /\ WithinLimits
  /\ reserved' = reserved + 1
  /\ BeginAndFinish(c, "error", FALSE)
  /\ Ends(c, "error")
  /\ UNCHANGED <<open, usage, refusal, attempt, source, response, records>>

(* Mutant: the retry is not limited to the first attempt. *)
RetryPostAgain(c) ==
  /\ Subscription /\ pc[c] = "posted"
  /\ attempt' = [attempt EXCEPT ![c] = @ + 1]
  /\ UNCHANGED <<sessionVars, cacheVars, pc, source, response, records, answer>>

(* _post: a subscription call answered 401 (after a refresh) or 429 is      *)
(* posted once more under the same reservation.                             *)
RetryPost(c) ==
  /\ Subscription
  /\ pc[c] = "posted" /\ attempt[c] = 1
  /\ attempt' = [attempt EXCEPT ![c] = @ + 1]
  /\ UNCHANGED <<sessionVars, cacheVars, pc, source, response, records, answer>>

(* Mutants: a failed call keeps its reservation; a failed call is not recorded. *)
ForwardFailsUncommitted(c) ==
  /\ pc[c] = "posted"
  /\ Record(c, <<"failed">>)
  /\ Finish(c, "error", FALSE)
  /\ Ends(c, "error")
  /\ UNCHANGED <<sessionVars, attempt, source, response>>

ForwardFailsSilently(c) ==
  /\ pc[c] = "posted"
  /\ Commit(1, NoTokens)
  /\ Finish(c, "error", FALSE)
  /\ Ends(c, "error")
  /\ UNCHANGED <<open, refusal, attempt, source, response, records>>

(* No usable answer: the post, the read, the body, a debug write before     *)
(* accounting, or the client's own connection failed.  The call is recorded *)
(* failed and committed without tokens, and the error settles the future.   *)
ForwardFails(c) ==
  /\ pc[c] = "posted"
  /\ Record(c, <<"failed">>)
  /\ Commit(1, NoTokens)
  /\ Finish(c, "error", FALSE)
  /\ Ends(c, "error")
  /\ UNCHANGED <<open, refusal, attempt, source, response>>

(* _account: only a 200 is metered and recorded as forwarded. *)
Disposition(a) == IF a \in Metered THEN "forwarded" ELSE "failed"
TokensOf(a)    == IF a \in Metered THEN Tokens ELSE {NoTokens}
AnswersTo(c)   == IF KeyOf[c] \in StreamedKeys THEN Answers ELSE Answers \ {"truncated"}

(* The answer arrived whole: account for it, cache it if it may be          *)
(* replayed, and give it to every call waiting for it.                      *)
Complete(c) ==
  /\ pc[c] = "posted"
  /\ \E a \in AnswersTo(c) : \E tokens \in TokensOf(a) :
       /\ response' = [response EXCEPT ![c] = a]
       /\ Record(c, <<Disposition(a)>>)
       /\ Commit(1, tokens)
       /\ Finish(c, "result", a \in Replayable)
  /\ Ends(c, "response")
  /\ UNCHANGED <<open, refusal, attempt, source>>

(* A stream is accounted for before its debug copy is written.  When that   *)
(* write fails, _forward still believes the call uncommitted: it records it *)
(* again, as failed, and commits it again.                                  *)
StreamNotRetained(c) ==
  /\ PayloadRetention
  /\ pc[c] = "posted" /\ KeyOf[c] \in StreamedKeys
  /\ \E a \in Answers : \E tokens \in TokensOf(a) :
       /\ response' = [response EXCEPT ![c] = a]
       /\ Record(c, <<Disposition(a), "failed">>)
       /\ Commit(2, tokens)
  /\ Finish(c, "error", FALSE)
  /\ Ends(c, "error")
  /\ UNCHANGED <<open, refusal, attempt, source>>

(* The episode ended: the token no longer resolves, the trace is detached.  *)
(* Handlers past authentication keep the session object and run on.         *)
CloseSession ==
  /\ open
  /\ open' = FALSE
  /\ UNCHANGED <<usage, reserved, refusal, cacheVars, callVars>>

Respond(c) ==
  \/ BodyUnreadable(c) \/ ServeCached(c) \/ Coalesce(c) \/ Refuse(c)
  \/ Forward(c) \/ RequestNotRetained(c)

Settle(c) ==
  \/ WaiterResumes(c) \/ RetryPost(c) \/ ForwardFails(c) \/ Complete(c)
  \/ StreamNotRetained(c)

Next ==
  \/ \E c \in Calls : Authenticate(c) \/ Unauthorized(c) \/ Respond(c) \/ Settle(c)
  \/ CloseSession

(* The loop runs every ready handler, and the client's total timeout ends   *)
(* every upstream request.                                                  *)
Fairness == \A c \in Calls : WF_vars(Respond(c)) /\ WF_vars(Settle(c))

Spec     == Init /\ [][Next]_vars
FairSpec == Spec /\ Fairness

-----------------------------------------------------------------------------
(* Properties.                                                              *)

Flying == {c \in Calls : pc[c] = "posted"}

(* The transport trace's `call` records of calls that were sent upstream. *)
CallRecords == {r \in Calls \X (1..2) :
                  /\ r[2] \in DOMAIN records[r[1]]
                  /\ records[r[1]][r[2]] \in {"forwarded", "failed"}}

(* A reservation is held exactly while its call is upstream, and becomes    *)
(* exactly one committed call: _forward's commits pair with reserve() on    *)
(* every path.  Only debug copies break the pairing: a request that cannot  *)
(* be retained keeps its reservation for good, a stream that cannot be      *)
(* retained is committed twice and gives back two.                          *)
NotSent      == {c \in Calls : attempt[c] = 0 /\ future[c].state = "error" /\ records[c] = <<>>}
CountedTwice == {c \in Calls : response[c] # "none" /\ answer[c] = "error"}

ReservationsAreFlights ==
  /\ open => reserved =
       Cardinality(Flying) + Cardinality(NotSent) - Cardinality(CountedTwice)
  /\ usage.model_calls = Cardinality({c \in Calls : pc[c] = "done" /\ attempt[c] > 0})
                            + Cardinality(CountedTwice)

(* The counters the episode reports are the ones the trace adds up to, as   *)
(* long as the trace is attached: _record and commit go together.           *)
TraceAgreesWithUsage == open => usage.model_calls = Cardinality(CallRecords)

Kept(c)    == answer[c] = "response" /\ response[c] \in Replayable
Sampled(c) == pc[c] = "posted" \/ Kept(c)

(* An agent's retry never samples twice: of the calls with one digest, at   *)
(* most one is upstream or has an answer that may be replayed (_call, begin *)
(* and finish).                                                             *)
OneSamplePerKey ==
  Purpose = "agent" => \A c, d \in Calls :
    KeyOf[c] = KeyOf[d] /\ Sampled(c) /\ Sampled(d) => c = d

(* What a replay hands out is the response of another call with the same    *)
(* digest that got one, and what the cache holds may be replayed.           *)
ReplaysAreFaithful ==
  /\ \A c \in Calls : answer[c] = "replay" =>
       /\ KeyOf[source[c]] = KeyOf[c]
       /\ answer[source[c]] \in {"response", "refusal"}
  /\ \A k \in Keys : replay[k] # NoCall =>
       \/ answer[replay[k]] = "refusal"
       \/ Kept(replay[k])

(* A refusal stays true: the limit that refused a call is reached for good, *)
(* whatever calls in flight do later, so a cached refusal is never stale    *)
(* and the agent cannot be told to stop and then be served (reserve, commit)*)
RefusalStaysTrue == refusal # "none" => Reached(refusal)

(* A waiter waits for a call's future, and an agent's upstream call is the  *)
(* one its digest's future belongs to while nothing is cached for that      *)
(* digest; a response that may be replayed is the one cached.               *)
WaitersHaveSources == \A c \in Calls : pc[c] = "waiting" => source[c] \in Calls
FlightsOwnTheirKey ==
  \A c \in Calls : /\ pc[c] = "posted" => /\ inflight[KeyOf[c]] = c
                                           /\ replay[KeyOf[c]] = NoCall
                   /\ Kept(c) => replay[KeyOf[c]] = c

(* The inductive invariant behind the properties proved in                  *)
(* GatewaySessionProofs (begin, finish, reserve and commit together).       *)
SessionInvariant ==
  /\ TypeOK
  /\ WaitersHaveSources
  /\ RefusalStaysTrue
  /\ Purpose = "agent" => FlightsOwnTheirKey

(* What a handler has written before it ends: a call that was not posted    *)
(* has no future of its own, and no call has a record or an answer yet.     *)
HandlersKeepBooks ==
  \A c \in Calls :
    /\ pc[c] \in {"idle", "reading", "waiting"} => attempt[c] = 0 /\ future[c].state = "none"
    /\ pc[c] = "posted" \/ future[c].state = "pending" => attempt[c] > 0
    /\ pc[c] # "done" => records[c] = <<>> /\ response[c] = "none" /\ answer[c] = "none"

(* Only finitely many requests have arrived.                                *)
SessionIsFinite == IsFiniteSet({c \in Calls : pc[c] # "idle"}) /\ IsFiniteSet(CallRecords)

(* The cache, the futures and those who wait for them keep to one digest,   *)
(* and a future that has a result has it from a call that was answered.     *)
RepliesAreKeyed ==
  /\ \A k \in Keys : /\ replay[k] # NoCall => KeyOf[replay[k]] = k
                     /\ inflight[k] # NoCall => KeyOf[inflight[k]] = k
  /\ \A c \in Calls :
       /\ pc[c] = "waiting" \/ answer[c] = "replay" =>
            source[c] \in Calls /\ KeyOf[source[c]] = KeyOf[c]
       /\ future[c].state = "result" =>
            /\ future[c].by \in Calls /\ KeyOf[future[c].by] = KeyOf[c]
            /\ answer[future[c].by] \in {"response", "refusal"}

(* The inductive invariant behind the counters and the replays.             *)
BooksInvariant ==
  /\ HandlersKeepBooks /\ SessionIsFinite /\ RepliesAreKeyed
  /\ ReservationsAreFlights /\ TraceAgreesWithUsage /\ ReplaysAreFaithful

(* The session implements ModelBudget: what is charged is what is committed *)
(* or reserved, and a digest is kept when its response is cached.           *)
Charged   == usage.model_calls + reserved
Exhausted == \E l \in LimitNames \ {"max_model_calls"} : Reached(l)
Sample    == [k \in Keys |-> IF replay[k] # NoCall THEN "kept"
                             ELSE IF inflight[k] # NoCall THEN "open" ELSE "idle"]

Budget == INSTANCE ModelBudget WITH
  MaxCharged <- Ceiling["max_model_calls"],
  charged    <- Charged,
  exhausted  <- Exhausted,
  refused    <- refusal # "none",
  sample     <- Sample

ImplementsBudget == Budget!Spec

(* Every request the Gateway accepted is answered, coalesced ones included: *)
(* each path out of _call settles the future others wait for.               *)
AcceptedCallsAreAnswered == \A c \in Calls : pc[c] = "reading" ~> pc[c] = "done"

(* gateway/session.py:84 "One session's forwarded calls and their tokens":  *)
(* usage never counts more calls than were sent upstream.                   *)
UsageCountsForwardedCalls ==
  usage.model_calls <= Cardinality({c \in Calls : attempt[c] > 0})
=============================================================================
