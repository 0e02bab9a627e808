------------------------ MODULE GatewaySessionProofs ------------------------
(***************************************************************************)
(* Theorems about GatewaySession, for every set of calls and digests and   *)
(* for every ceiling.                                                      *)
(***************************************************************************)
EXTENDS GatewaySession, FiniteSetTheorems, TLAPS

(* What one handler action does to a record sequence stays a sequence of    *)
(* dispositions (_record appends, or drops the record).                     *)
LEMMA RecordType ==
  ASSUME TypeOK, NEW c \in Calls,
         NEW ds \in Seq({"forwarded", "failed", "refused", "replay"}),
         Record(c, ds)
  PROVE  records' \in [Calls -> Seq({"forwarded", "failed", "refused", "replay"})]
BY DEF TypeOK, Record

(* finish() leaves the cache and the futures well formed. *)
LEMMA FinishType ==
  ASSUME TypeOK, NEW c \in Calls, NEW state \in {"result", "error"}, NEW keep \in BOOLEAN,
         Finish(c, state, keep) \/ BeginAndFinish(c, state, keep)
  PROVE  /\ replay' \in [Keys -> Calls \cup {NoCall}]
         /\ inflight' \in [Keys -> Calls \cup {NoCall}]
         /\ future' \in [Calls -> Futures]
<1>1. /\ KeyOf[c] \in Keys
      /\ replay \in [Keys -> Calls \cup {NoCall}]
      /\ inflight \in [Keys -> Calls \cup {NoCall}]
      /\ future \in [Calls -> Futures]
      /\ [state |-> state, by |-> c] \in Futures
  BY SessionAssumption DEF TypeOK, Futures
<1>2. CASE Finish(c, state, keep)
  <2>1. inflight[KeyOf[c]] # NoCall => inflight[KeyOf[c]] \in Calls
    BY <1>1
  <2>2. QED BY <1>1, <1>2, <2>1 DEF Finish
<1>3. CASE BeginAndFinish(c, state, keep)
  BY <1>1, <1>3 DEF BeginAndFinish
<1>4. QED BY <1>2, <1>3

(* commit() keeps the counters natural numbers. *)
LEMMA CommitType ==
  ASSUME TypeOK, NEW n \in Nat, NEW tokens \in [input: Nat, output: Nat],
         Commit(n, tokens)
  PROVE  /\ usage' \in [model_calls: Nat, input: Nat, output: Nat]
         /\ reserved' \in Int
BY DEF TypeOK, Commit, CommittedUsage

(* What the provider can report is a pair of natural numbers. *)
LEMMA TokensType ==
  ASSUME NEW a \in Answers, NEW tokens \in TokensOf(a)
  PROVE  tokens \in [input: Nat, output: Nat]
<1>1. CASE a \in Metered
  BY <1>1, SessionAssumption DEF TokensOf, Tokens
<1>2. CASE a \notin Metered
  <2>1. tokens = [input |-> 0, output |-> 0]
    BY <1>2 DEF TokensOf, NoTokens
  <2>2. QED BY <2>1
<1>3. QED BY <1>1, <1>2

-----------------------------------------------------------------------------
(* Type correctness. *)

(* A new session has the types. *)
LEMMA InitTypeOK == Init => TypeOK
<1> SUFFICES ASSUME Init PROVE TypeOK
  OBVIOUS
<1>1. [state |-> "none", by |-> NoCall] \in Futures
  BY DEF Futures
<1>2. <<>> \in Seq({"forwarded", "failed", "refused", "replay"})
  OBVIOUS
<1>3. QED BY <1>1, <1>2 DEF Init, TypeOK, PCs

(* One lemma for the whole type invariant: a step at a time. *)
LEMMA NextTypeOK ==
  ASSUME TypeOK, [Next]_vars,
         \A c \in Calls : pc[c] = "waiting" => source[c] \in Calls
  PROVE  TypeOK'
<1> DEFINE Dispositions == {"forwarded", "failed", "refused", "replay"}
<1>0. /\ <<"replay">> \in Seq(Dispositions)
      /\ <<"refused">> \in Seq(Dispositions)
      /\ <<"failed">> \in Seq(Dispositions)
      /\ \A a : <<Disposition(a)>> \in Seq(Dispositions)
      /\ \A a : <<Disposition(a), "failed">> \in Seq(Dispositions)
  BY DEF Disposition
<1>t. NoTokens \in [input: Nat, output: Nat]
  BY DEF NoTokens
<1>1. ASSUME NEW c \in Calls, Authenticate(c) PROVE TypeOK'
  BY <1>1 DEF TypeOK, Authenticate, sessionVars, cacheVars, PCs
<1>2. ASSUME NEW c \in Calls, Unauthorized(c) \/ BodyUnreadable(c) PROVE TypeOK'
  BY <1>2 DEF TypeOK, Unauthorized, BodyUnreadable, Ends, sessionVars, cacheVars, PCs
<1>3. ASSUME NEW c \in Calls, ServeCached(c) PROVE TypeOK'
  <2>1. records' \in [Calls -> Seq(Dispositions)]
    BY <1>0, <1>3, RecordType DEF ServeCached
  <2>2. KeyOf[c] \in Keys /\ replay[KeyOf[c]] \in Calls \cup {NoCall}
    BY SessionAssumption DEF TypeOK
  <2>3. QED BY <1>3, <2>1, <2>2 DEF TypeOK, ServeCached, Ends, sessionVars, cacheVars, PCs
<1>4. ASSUME NEW c \in Calls, Coalesce(c) PROVE TypeOK'
  <2>1. KeyOf[c] \in Keys /\ inflight[KeyOf[c]] \in Calls \cup {NoCall}
    BY SessionAssumption DEF TypeOK
  <2>2. QED BY <1>4, <2>1 DEF TypeOK, Coalesce, sessionVars, cacheVars, PCs
<1>5. ASSUME NEW c \in Calls, WaiterResumes(c) PROVE TypeOK'
  <2>1. CASE Ends(c, "error") /\ UNCHANGED <<source, records>>
    BY <1>5, <2>1 DEF TypeOK, WaiterResumes, Ends, sessionVars, cacheVars, PCs
  <2>2. CASE /\ Record(c, <<"replay">>)
             /\ source' = [source EXCEPT ![c] = future[source[c]].by]
             /\ Ends(c, "replay")
    <3>1. records' \in [Calls -> Seq(Dispositions)]
      BY <1>0, <2>2, RecordType
    <3>2. source[c] \in Calls
      BY <1>5 DEF WaiterResumes
    <3>3. future[source[c]] \in Futures
      BY <3>2 DEF TypeOK
    <3>4. source' \in [Calls -> Calls \cup {NoCall}]
      BY <2>2, <3>3 DEF TypeOK, Futures
    <3>5. QED BY <1>5, <2>2, <3>1, <3>4 DEF TypeOK, WaiterResumes, Ends, sessionVars, cacheVars, PCs
  <2>3. QED BY <1>5, <2>1, <2>2 DEF WaiterResumes
<1>6. ASSUME NEW c \in Calls, Refuse(c) PROVE TypeOK'
  <2>1. records' \in [Calls -> Seq(Dispositions)]
    BY <1>0, <1>6, RecordType DEF Refuse
  <2>2. refusal' \in LimitNames \cup {"none"}
    BY <1>6 DEF Refuse, TypeOK
  <2>3. /\ replay' \in [Keys -> Calls \cup {NoCall}]
        /\ inflight' \in [Keys -> Calls \cup {NoCall}]
        /\ future' \in [Calls -> Futures]
    BY <1>6, FinishType DEF Refuse
  <2>4. Ends(c, "refusal") \/ Ends(c, "error")
    BY <1>6 DEF Refuse
  <2>5. UNCHANGED <<open, usage, reserved, attempt, source, response>>
    BY <1>6 DEF Refuse
  <2>6. pc' \in [Calls -> PCs]
    BY <2>4 DEF TypeOK, Ends, PCs
  <2>8. answer' \in [Calls -> {"none", "response", "refusal", "replay", "error", "unauthorized"}]
    BY <2>4 DEF TypeOK, Ends
  <2>7. QED BY <2>1, <2>2, <2>3, <2>5, <2>6, <2>8 DEF TypeOK
<1>7. ASSUME NEW c \in Calls, Forward(c) PROVE TypeOK'
  <2>1. /\ KeyOf[c] \in Keys
        /\ [state |-> "pending", by |-> NoCall] \in Futures
    BY SessionAssumption DEF Futures
  <2>2. QED BY <1>7, <2>1 DEF TypeOK, Forward, PCs
<1>8. ASSUME NEW c \in Calls, RequestNotRetained(c) PROVE TypeOK'
  <2>1. /\ replay' \in [Keys -> Calls \cup {NoCall}]
        /\ inflight' \in [Keys -> Calls \cup {NoCall}]
        /\ future' \in [Calls -> Futures]
    BY <1>8, FinishType DEF RequestNotRetained
  <2>2. /\ reserved' = reserved + 1
        /\ Ends(c, "error")
        /\ UNCHANGED <<open, usage, refusal, attempt, source, response, records>>
    BY <1>8 DEF RequestNotRetained
  <2>3. reserved' \in Int
    BY <2>2 DEF TypeOK
  <2>4. QED BY <2>1, <2>2, <2>3 DEF TypeOK, Ends, PCs
<1>9. ASSUME NEW c \in Calls, RetryPost(c) PROVE TypeOK'
  BY <1>9 DEF TypeOK, RetryPost, sessionVars, cacheVars
<1>10. ASSUME NEW c \in Calls, ForwardFails(c) PROVE TypeOK'
  <2>1. records' \in [Calls -> Seq(Dispositions)]
    BY <1>0, <1>10, RecordType DEF ForwardFails
  <2>2. /\ replay' \in [Keys -> Calls \cup {NoCall}]
        /\ inflight' \in [Keys -> Calls \cup {NoCall}]
        /\ future' \in [Calls -> Futures]
    BY <1>10, FinishType DEF ForwardFails
  <2>3. /\ usage' \in [model_calls: Nat, input: Nat, output: Nat]
        /\ reserved' \in Int
    BY <1>10, <1>t, CommitType DEF ForwardFails
  <2>4. QED BY <1>10, <2>1, <2>2, <2>3 DEF TypeOK, ForwardFails, Ends, PCs
<1>11. ASSUME NEW c \in Calls, Complete(c) PROVE TypeOK'
  <2>1. PICK a \in AnswersTo(c) : \E tokens \in TokensOf(a) :
           /\ response' = [response EXCEPT ![c] = a]
           /\ Record(c, <<Disposition(a)>>)
           /\ Commit(1, tokens)
           /\ Finish(c, "result", a \in Replayable)
    BY <1>11 DEF Complete
  <2>2. a \in Answers
    BY DEF AnswersTo
  <2>3. response' \in [Calls -> Answers \cup {"none"}]
    BY <2>1, <2>2 DEF TypeOK
  <2>4. records' \in [Calls -> Seq(Dispositions)]
    BY <1>0, <2>1, RecordType
  <2>5. \E keep \in BOOLEAN : Finish(c, "result", keep)
    <3>1. CASE a \in Replayable
      <4>1. Finish(c, "result", TRUE)
        BY <2>1, <3>1 DEF Finish
      <4>2. QED BY <4>1
    <3>2. CASE a \notin Replayable
      <4>1. Finish(c, "result", FALSE)
        BY <2>1, <3>2 DEF Finish
      <4>2. QED BY <4>1
    <3>3. QED BY <3>1, <3>2
  <2>6. /\ replay' \in [Keys -> Calls \cup {NoCall}]
        /\ inflight' \in [Keys -> Calls \cup {NoCall}]
        /\ future' \in [Calls -> Futures]
    BY <2>5, FinishType
  <2>7. /\ usage' \in [model_calls: Nat, input: Nat, output: Nat]
        /\ reserved' \in Int
    BY <2>1, <2>2, TokensType, CommitType
  <2>8. UNCHANGED <<open, refusal, attempt, source>> /\ Ends(c, "response")
    BY <1>11 DEF Complete
  <2>9. QED BY <2>3, <2>4, <2>6, <2>7, <2>8 DEF TypeOK, Ends, PCs
<1>12. ASSUME NEW c \in Calls, StreamNotRetained(c) PROVE TypeOK'
  <2>1. PICK a \in Answers : \E tokens \in TokensOf(a) :
           /\ response' = [response EXCEPT ![c] = a]
           /\ Record(c, <<Disposition(a), "failed">>)
           /\ Commit(2, tokens)
    BY <1>12 DEF StreamNotRetained
  <2>2. response' \in [Calls -> Answers \cup {"none"}]
    BY <2>1 DEF TypeOK
  <2>3. records' \in [Calls -> Seq(Dispositions)]
    BY <1>0, <2>1, RecordType
  <2>4. /\ replay' \in [Keys -> Calls \cup {NoCall}]
        /\ inflight' \in [Keys -> Calls \cup {NoCall}]
        /\ future' \in [Calls -> Futures]
    BY <1>12, FinishType DEF StreamNotRetained
  <2>5. /\ usage' \in [model_calls: Nat, input: Nat, output: Nat]
        /\ reserved' \in Int
    BY <2>1, TokensType, CommitType
  <2>6. UNCHANGED <<open, refusal, attempt, source>> /\ Ends(c, "error")
    BY <1>12 DEF StreamNotRetained
  <2>7. QED BY <2>2, <2>3, <2>4, <2>5, <2>6 DEF TypeOK, Ends, PCs
<1>13. CASE CloseSession
  BY <1>13 DEF TypeOK, CloseSession, cacheVars, callVars
<1>14. CASE UNCHANGED vars
  BY <1>14 DEF TypeOK, vars, sessionVars, cacheVars, callVars
<1>15. QED
  BY <1>1, <1>2, <1>3, <1>4, <1>5, <1>6, <1>7, <1>8, <1>9, <1>10, <1>11, <1>12, <1>13, <1>14
     DEF Next, Respond, Settle

-----------------------------------------------------------------------------
(* A refusal stays true. *)

(* No step lowers what a ceiling is compared with: a reservation that ends  *)
(* becomes a committed call, and tokens are only added (reserve, commit).   *)
LEMMA ObservedNeverFalls ==
  ASSUME TypeOK, TypeOK', [Next]_vars
  PROVE  /\ usage'.model_calls + reserved' >= usage.model_calls + reserved
         /\ usage'.input >= usage.input
         /\ usage'.output >= usage.output
<1> USE DEF TypeOK
<1>1. ASSUME NEW n \in Nat, NEW a \in Answers, NEW tokens \in TokensOf(a), Commit(n, tokens)
      PROVE  /\ usage'.model_calls + reserved' >= usage.model_calls + reserved
             /\ usage'.input >= usage.input
             /\ usage'.output >= usage.output
  BY <1>1, TokensType DEF Commit, CommittedUsage
<1>2. ASSUME NEW c \in Calls, ForwardFails(c)
      PROVE  /\ usage'.model_calls + reserved' >= usage.model_calls + reserved
             /\ usage'.input >= usage.input
             /\ usage'.output >= usage.output
  BY <1>2 DEF ForwardFails, Commit, CommittedUsage, NoTokens
<1>3. ASSUME NEW c \in Calls, Complete(c)
      PROVE  /\ usage'.model_calls + reserved' >= usage.model_calls + reserved
             /\ usage'.input >= usage.input
             /\ usage'.output >= usage.output
  <2>1. \E a \in Answers : \E tokens \in TokensOf(a) : Commit(1, tokens)
    BY <1>3 DEF Complete, AnswersTo
  <2>2. QED BY <1>1, <2>1
<1>4. ASSUME NEW c \in Calls, StreamNotRetained(c)
      PROVE  /\ usage'.model_calls + reserved' >= usage.model_calls + reserved
             /\ usage'.input >= usage.input
             /\ usage'.output >= usage.output
  <2>1. \E a \in Answers : \E tokens \in TokensOf(a) : Commit(2, tokens)
    BY <1>4 DEF StreamNotRetained
  <2>2. QED BY <1>1, <2>1
<1>5. ASSUME NEW c \in Calls, Forward(c) \/ RequestNotRetained(c)
      PROVE  usage' = usage /\ reserved' = reserved + 1
  BY <1>5 DEF Forward, RequestNotRetained
<1>6. ASSUME NEW c \in Calls,
             \/ Authenticate(c) \/ Unauthorized(c) \/ BodyUnreadable(c) \/ ServeCached(c)
             \/ Coalesce(c) \/ WaiterResumes(c) \/ Refuse(c) \/ RetryPost(c)
      PROVE  usage' = usage /\ reserved' = reserved
  BY <1>6 DEF Authenticate, Unauthorized, BodyUnreadable, ServeCached, Coalesce,
              WaiterResumes, Refuse, RetryPost, sessionVars
<1>7. CASE CloseSession \/ UNCHANGED vars
  BY <1>7 DEF CloseSession, vars, sessionVars
<1>8. QED
  BY <1>2, <1>3, <1>4, <1>5, <1>6, <1>7 DEF Next, Respond, Settle

(* So a ceiling that has been reached stays reached. *)
LEMMA ReachedIsStable ==
  ASSUME TypeOK, TypeOK', [Next]_vars, NEW l \in LimitNames, Reached(l)
  PROVE  Reached(l)'
<1>1. Ceiling[l] # Unlimited /\ Ceiling[l] \in Nat
  BY SessionAssumption DEF Reached
<1>2. /\ usage'.model_calls + reserved' >= usage.model_calls + reserved
      /\ usage'.input >= usage.input
      /\ usage'.output >= usage.output
  BY ObservedNeverFalls
<1>3. /\ usage.model_calls \in Nat /\ usage.input \in Nat /\ usage.output \in Nat
      /\ usage'.model_calls \in Nat /\ usage'.input \in Nat /\ usage'.output \in Nat
      /\ reserved \in Int /\ reserved' \in Int
  BY DEF TypeOK
<1>4. CASE l = "max_model_calls"
  BY <1>1, <1>2, <1>3, <1>4 DEF Reached, Observed
<1>5. CASE l = "max_input_tokens"
  BY <1>1, <1>2, <1>3, <1>5 DEF Reached, Observed
<1>6. CASE l = "max_output_tokens"
  BY <1>1, <1>2, <1>3, <1>6 DEF Reached, Observed
<1>7. CASE l = "max_total_tokens"
  BY <1>1, <1>2, <1>3, <1>7 DEF Reached, Observed
<1>8. QED BY <1>4, <1>5, <1>6, <1>7 DEF LimitNames

(* Only a refused call sets `refusal`, and only to a limit it met. *)
LEMMA NextRefusalStaysTrue ==
  ASSUME TypeOK, TypeOK', [Next]_vars, RefusalStaysTrue
  PROVE  RefusalStaysTrue'
<1>1. CASE refusal' = refusal
  <2>1. refusal # "none" => refusal \in LimitNames
    BY DEF TypeOK
  <2>2. QED BY <1>1, <2>1, ReachedIsStable DEF RefusalStaysTrue
<1>2. ASSUME NEW c \in Calls, Refuse(c) PROVE RefusalStaysTrue'
  <2>1. PICK l \in LimitNames : FirstReached(l) /\ refusal' = IF refusal = "none" THEN l ELSE refusal
    BY <1>2 DEF Refuse
  <2>2. CASE refusal = "none"
    <3>1. Reached(l)'
      BY <2>1, ReachedIsStable DEF FirstReached
    <3>2. QED BY <2>1, <2>2, <3>1 DEF RefusalStaysTrue
  <2>3. CASE refusal # "none"
    BY <1>1, <2>1, <2>3
  <2>4. QED BY <2>2, <2>3
<1>3. ASSUME NEW c \in Calls,
             \/ Authenticate(c) \/ Unauthorized(c) \/ BodyUnreadable(c) \/ ServeCached(c)
             \/ Coalesce(c) \/ Forward(c) \/ RequestNotRetained(c) \/ Settle(c)
      PROVE  refusal' = refusal
  BY <1>3 DEF Authenticate, Unauthorized, BodyUnreadable, ServeCached, Coalesce, Forward,
              RequestNotRetained, Settle, WaiterResumes, RetryPost, ForwardFails, Complete,
              StreamNotRetained, sessionVars
<1>4. CASE CloseSession \/ UNCHANGED vars
  BY <1>1, <1>4 DEF CloseSession, vars, sessionVars
<1>5. QED
  BY <1>1, <1>2, <1>3, <1>4 DEF Next, Respond

-----------------------------------------------------------------------------
(* The inductive invariant. *)

(* Who waits for another call waits for one that still has the digest. *)
LEMMA NextWaiters ==
  ASSUME TypeOK, WaitersHaveSources, [Next]_vars
  PROVE  WaitersHaveSources'
<1> USE SessionAssumption DEF TypeOK, WaitersHaveSources
<1>1. ASSUME NEW c \in Calls, Coalesce(c) PROVE WaitersHaveSources'
  <2>1. inflight[KeyOf[c]] \in Calls
    BY <1>1 DEF Coalesce
  <2>2. QED BY <1>1, <2>1 DEF Coalesce
<1>2. ASSUME NEW c \in Calls, Authenticate(c) \/ Forward(c) \/ RetryPost(c) PROVE WaitersHaveSources'
  BY <1>2 DEF Authenticate, Forward, RetryPost
<1>3. ASSUME NEW c \in Calls,
             \/ Unauthorized(c) \/ BodyUnreadable(c) \/ Refuse(c) \/ RequestNotRetained(c)
             \/ ForwardFails(c) \/ Complete(c) \/ StreamNotRetained(c)
      PROVE  WaitersHaveSources'
  <2>1. pc' = [pc EXCEPT ![c] = "done"] /\ source' = source
    BY <1>3 DEF Unauthorized, BodyUnreadable, Refuse, RequestNotRetained, ForwardFails,
                Complete, StreamNotRetained, Ends
  <2>2. QED BY <2>1
<1>4. ASSUME NEW c \in Calls, ServeCached(c) \/ WaiterResumes(c) PROVE WaitersHaveSources'
  <2>1. pc' = [pc EXCEPT ![c] = "done"]
    BY <1>4 DEF ServeCached, WaiterResumes, Ends
  <2>2. \A d \in Calls \ {c} : source'[d] = source[d]
    BY <1>4 DEF ServeCached, WaiterResumes
  <2>3. QED BY <2>1, <2>2
<1>5. CASE CloseSession \/ UNCHANGED vars
  BY <1>5 DEF CloseSession, vars, callVars
<1>6. QED BY <1>1, <1>2, <1>3, <1>4, <1>5 DEF Next, Respond, Settle

(* However an agent's upstream call ends, the other calls keep what they    *)
(* own: no other call has the same digest and is upstream or kept.          *)
LEMMA FlightEnds ==
  ASSUME TypeOK, FlightsOwnTheirKey, NEW c \in Calls, pc[c] = "posted",
         inflight' = [inflight EXCEPT ![KeyOf[c]] = NoCall],
         Ends(c, "response") \/ Ends(c, "error"),
         \A d \in Calls \ {c} : response'[d] = response[d],
         \A k \in Keys \ {KeyOf[c]} : replay'[k] = replay[k],
         Kept(c)' => replay'[KeyOf[c]] = c
  PROVE  FlightsOwnTheirKey'
<1>0. KeyOf \in [Calls -> Keys] /\ NoCall \notin Calls
  BY SessionAssumption
<1>1. inflight[KeyOf[c]] = c /\ replay[KeyOf[c]] = NoCall
  BY DEF FlightsOwnTheirKey
<1>2. SUFFICES ASSUME NEW d \in Calls
               PROVE  /\ pc'[d] = "posted" => inflight'[KeyOf[d]] = d /\ replay'[KeyOf[d]] = NoCall
                      /\ Kept(d)' => replay'[KeyOf[d]] = d
  BY DEF FlightsOwnTheirKey
<1>3. CASE d = c
  <2>1. pc'[d] = "done"
    BY <1>3 DEF Ends, TypeOK
  <2>2. QED BY <1>3, <2>1
<1>4. CASE d # c
  <2>1. pc'[d] = pc[d] /\ answer'[d] = answer[d] /\ response'[d] = response[d]
    BY <1>4 DEF Ends, TypeOK
  <2>2. CASE KeyOf[d] = KeyOf[c]
    <3>1. pc[d] # "posted" /\ ~Kept(d)
      BY <1>0, <1>1, <1>4, <2>2 DEF FlightsOwnTheirKey
    <3>2. QED BY <2>1, <3>1 DEF Kept
  <2>3. CASE KeyOf[d] # KeyOf[c]
    <3>1. inflight'[KeyOf[d]] = inflight[KeyOf[d]] /\ replay'[KeyOf[d]] = replay[KeyOf[d]]
      BY <1>0, <2>3 DEF TypeOK
    <3>2. QED BY <2>1, <3>1 DEF FlightsOwnTheirKey, Kept
  <2>4. QED BY <2>2, <2>3
<1>5. QED BY <1>3, <1>4

(* A call that ends without an upstream call of its own leaves ownership    *)
(* alone, provided no call of its digest is upstream or kept.               *)
KeepsOwnedKeys == \A d \in Calls : pc[d] = "posted" \/ Kept(d) =>
                    /\ inflight'[KeyOf[d]] = inflight[KeyOf[d]]
                    /\ replay'[KeyOf[d]] = replay[KeyOf[d]]

(* A call that ends and is not kept leaves the others their keys. *)
LEMMA OtherEnds ==
  ASSUME TypeOK, FlightsOwnTheirKey, NEW c \in Calls,
         pc' = [pc EXCEPT ![c] = "done"], ~Kept(c)',
         \A d \in Calls \ {c} : answer'[d] = answer[d] /\ response'[d] = response[d],
         KeepsOwnedKeys
  PROVE  FlightsOwnTheirKey'
<1> SUFFICES ASSUME NEW d \in Calls
             PROVE  /\ pc'[d] = "posted" => inflight'[KeyOf[d]] = d /\ replay'[KeyOf[d]] = NoCall
                    /\ Kept(d)' => replay'[KeyOf[d]] = d
  BY DEF FlightsOwnTheirKey
<1>1. CASE d = c
  <2>1. pc'[d] = "done"
    BY <1>1 DEF TypeOK
  <2>2. QED BY <1>1, <2>1
<1>2. CASE d # c
  <2>1. pc'[d] = pc[d] /\ answer'[d] = answer[d] /\ response'[d] = response[d]
    BY <1>2 DEF TypeOK
  <2>2. QED BY <2>1 DEF FlightsOwnTheirKey, Kept, KeepsOwnedKeys
<1>3. QED BY <1>1, <1>2

(* Every step keeps the one flight of a digest that may sample it. *)
LEMMA NextFlightsOwnTheirKey ==
  ASSUME TypeOK, Purpose = "agent", FlightsOwnTheirKey, [Next]_vars
  PROVE  FlightsOwnTheirKey'
<1>1. ASSUME NEW c \in Calls, Authenticate(c) \/ Coalesce(c) \/ RetryPost(c)
      PROVE  FlightsOwnTheirKey'
  BY <1>1, SessionAssumption DEF TypeOK, FlightsOwnTheirKey, Kept, Authenticate, Coalesce, RetryPost, cacheVars
<1>2. ASSUME NEW c \in Calls,
             Unauthorized(c) \/ BodyUnreadable(c) \/ ServeCached(c) \/ WaiterResumes(c)
      PROVE  FlightsOwnTheirKey'
  <2>1. Ends(c, "unauthorized") \/ Ends(c, "error") \/ Ends(c, "replay")
    BY <1>2 DEF Unauthorized, BodyUnreadable, ServeCached, WaiterResumes
  <2>2. UNCHANGED <<replay, inflight, response>>
    BY <1>2 DEF Unauthorized, BodyUnreadable, ServeCached, WaiterResumes, cacheVars
  <2>3. pc' = [pc EXCEPT ![c] = "done"] /\ ~Kept(c)'
    BY <2>1 DEF Ends, Kept, TypeOK
  <2>4. \A d \in Calls \ {c} : answer'[d] = answer[d] /\ response'[d] = response[d]
    BY <2>1, <2>2 DEF Ends, TypeOK
  <2>5. KeepsOwnedKeys
    BY <2>2 DEF KeepsOwnedKeys
  <2>6. QED BY <2>3, <2>4, <2>5, OtherEnds
<1>3. ASSUME NEW c \in Calls, Refuse(c) \/ RequestNotRetained(c)
      PROVE  FlightsOwnTheirKey'
  <2>1. replay[KeyOf[c]] = NoCall /\ inflight[KeyOf[c]] = NoCall
    BY <1>3 DEF Refuse, RequestNotRetained, Fresh, Replays
  <2>2. \A d \in Calls : KeyOf[d] = KeyOf[c] => pc[d] # "posted" /\ ~Kept(d)
    <3>1. \A d \in Calls : d # NoCall
      BY SessionAssumption
    <3>2. QED BY <2>1, <3>1 DEF FlightsOwnTheirKey
  <2>3. response' = response /\ (Ends(c, "refusal") \/ Ends(c, "error"))
    BY <1>3 DEF Refuse, RequestNotRetained
  <2>4. \A k \in Keys \ {KeyOf[c]} : inflight'[k] = inflight[k] /\ replay'[k] = replay[k]
    BY <1>3, SessionAssumption DEF TypeOK, Refuse, RequestNotRetained, BeginAndFinish
  <2>5. KeepsOwnedKeys
    BY <2>2, <2>4, SessionAssumption DEF KeepsOwnedKeys
  <2>6. pc' = [pc EXCEPT ![c] = "done"] /\ ~Kept(c)'
    BY <2>3 DEF Ends, Kept, TypeOK
  <2>7. \A d \in Calls \ {c} : answer'[d] = answer[d] /\ response'[d] = response[d]
    BY <2>3 DEF Ends, TypeOK
  <2>8. QED BY <2>5, <2>6, <2>7, OtherEnds
<1>4. ASSUME NEW c \in Calls, Forward(c) PROVE FlightsOwnTheirKey'
  <2>1. replay[KeyOf[c]] = NoCall /\ inflight[KeyOf[c]] = NoCall
    BY <1>4 DEF Forward, Fresh, Replays
  <2>2. \A d \in Calls : KeyOf[d] = KeyOf[c] => pc[d] # "posted" /\ ~Kept(d)
    BY <2>1, SessionAssumption DEF FlightsOwnTheirKey
  <2>3. QED BY <1>4, <2>1, <2>2, SessionAssumption DEF TypeOK, FlightsOwnTheirKey, Kept, Forward
<1>5. ASSUME NEW c \in Calls, ForwardFails(c) \/ StreamNotRetained(c)
      PROVE  FlightsOwnTheirKey'
  <2>1. pc[c] = "posted" /\ Finish(c, "error", FALSE) /\ Ends(c, "error")
    BY <1>5 DEF ForwardFails, StreamNotRetained
  <2>2. inflight' = [inflight EXCEPT ![KeyOf[c]] = NoCall] /\ replay' = replay
    BY <2>1 DEF Finish
  <2>3. \A d \in Calls \ {c} : response'[d] = response[d]
    BY <1>5 DEF ForwardFails, StreamNotRetained, TypeOK
  <2>4. ~Kept(c)'
    BY <2>1 DEF Ends, Kept, TypeOK
  <2>5. QED BY <2>1, <2>2, <2>3, <2>4, FlightEnds
<1>6. ASSUME NEW c \in Calls, Complete(c) PROVE FlightsOwnTheirKey'
  <2>1. PICK a \in Answers : /\ response' = [response EXCEPT ![c] = a]
                             /\ Finish(c, "result", a \in Replayable)
    BY <1>6 DEF Complete, AnswersTo
  <2>2. pc[c] = "posted" /\ Ends(c, "response")
    BY <1>6 DEF Complete
  <2>3. inflight' = [inflight EXCEPT ![KeyOf[c]] = NoCall]
    BY <2>1 DEF Finish
  <2>4. \A k \in Keys \ {KeyOf[c]} : replay'[k] = replay[k]
    BY <2>1 DEF Finish, TypeOK
  <2>5. \A d \in Calls \ {c} : response'[d] = response[d]
    BY <2>1 DEF TypeOK
  <2>6. Kept(c)' => replay'[KeyOf[c]] = c
    <3>1. response'[c] = a
      BY <2>1 DEF TypeOK
    <3>2. CASE a \in Replayable
      BY <2>1, <3>2, SessionAssumption DEF Finish, TypeOK
    <3>3. CASE a \notin Replayable
      BY <3>1, <3>3 DEF Kept
    <3>4. QED BY <3>2, <3>3
  <2>7. QED BY <2>2, <2>3, <2>4, <2>5, <2>6, FlightEnds
<1>7. CASE CloseSession \/ UNCHANGED vars
  BY <1>7 DEF FlightsOwnTheirKey, Kept, CloseSession, vars, cacheVars, callVars
<1>8. QED
  BY <1>1, <1>2, <1>3, <1>4, <1>5, <1>6, <1>7 DEF Next, Respond, Settle

(* A new session satisfies the invariant. *)
LEMMA InitInvariant == Init => SessionInvariant
<1> SUFFICES ASSUME Init PROVE SessionInvariant
  OBVIOUS
<1>1. TypeOK
  BY InitTypeOK
<1>2. WaitersHaveSources /\ FlightsOwnTheirKey
  BY DEF Init, WaitersHaveSources, FlightsOwnTheirKey, Kept
<1>3. RefusalStaysTrue
  BY DEF Init, RefusalStaysTrue
<1>4. QED BY <1>1, <1>2, <1>3 DEF SessionInvariant

(* Every step keeps the invariant. *)
LEMMA NextInvariant == SessionInvariant /\ [Next]_vars => SessionInvariant'
<1> SUFFICES ASSUME SessionInvariant, [Next]_vars PROVE SessionInvariant'
  OBVIOUS
<1>1. TypeOK /\ WaitersHaveSources /\ RefusalStaysTrue
  BY DEF SessionInvariant
<1>2. TypeOK'
  BY <1>1, NextTypeOK DEF WaitersHaveSources
<1>3. WaitersHaveSources'
  BY <1>1, NextWaiters
<1>4. RefusalStaysTrue'
  BY <1>1, <1>2, NextRefusalStaysTrue
<1>5. Purpose = "agent" => FlightsOwnTheirKey'
  <2>1. SUFFICES ASSUME Purpose = "agent" PROVE FlightsOwnTheirKey'
    OBVIOUS
  <2>2. FlightsOwnTheirKey
    BY <2>1 DEF SessionInvariant
  <2>3. QED BY <1>1, <2>1, <2>2, NextFlightsOwnTheirKey
<1>6. QED BY <1>2, <1>3, <1>4, <1>5 DEF SessionInvariant

(* The inductive invariant holds in every reachable state of a session,     *)
(* whatever its calls, digests and ceilings.                                *)
THEOREM SessionInvariantHolds == Spec => []SessionInvariant
BY InitInvariant, NextInvariant, PTL DEF Spec

(* The session's state keeps its types: counters are numbers, every digest  *)
(* has at most one cached response and one pending future.                  *)
THEOREM TypeCorrect == Spec => []TypeOK
<1>1. SessionInvariant => TypeOK
  BY DEF SessionInvariant
<1>2. QED BY <1>1, SessionInvariantHolds, PTL

(* Once reserve() has refused a call for a limit, that limit stays reached: *)
(* no commit ever takes the session back below it.                          *)
THEOREM RefusalIsFinal == Spec => []RefusalStaysTrue
<1>1. SessionInvariant => RefusalStaysTrue
  BY DEF SessionInvariant
<1>2. QED BY <1>1, SessionInvariantHolds, PTL

(* Of an agent's calls with one digest, at most one is upstream or has a    *)
(* replayable answer, whatever the interleaving of handlers and retries.    *)
THEOREM SampledOnce == Spec => []OneSamplePerKey
<1>1. SessionInvariant => OneSamplePerKey
  <2> SUFFICES ASSUME SessionInvariant, Purpose = "agent",
                      NEW c \in Calls, NEW d \in Calls,
                      KeyOf[c] = KeyOf[d], Sampled(c), Sampled(d)
               PROVE  c = d
    BY DEF OneSamplePerKey
  <2>1. FlightsOwnTheirKey /\ NoCall \notin Calls
    BY SessionAssumption DEF SessionInvariant
  <2>2. QED BY <2>1 DEF FlightsOwnTheirKey, Sampled
<1>2. QED BY <1>1, SessionInvariantHolds, PTL

-----------------------------------------------------------------------------
(* The session implements ModelBudget. *)

(* reserve() refuses exactly when the budget is spent. *)
LEMMA SpentIsReached == Budget!Spent <=> ~WithinLimits
BY DEF Budget!Spent, WithinLimits, Exhausted, Reached, Charged, Observed, LimitNames

(* A budget that is used up stays used up. *)
LEMMA ExhaustedStays ==
  ASSUME TypeOK, TypeOK', [Next]_vars, Exhausted
  PROVE  Exhausted'
<1>1. PICK l \in LimitNames \ {"max_model_calls"} : Reached(l)
  BY DEF Exhausted
<1>2. Reached(l)'
  BY <1>1, ReachedIsStable
<1>3. QED BY <1>1, <1>2 DEF Exhausted

(* A step that touches no book is a stutter of the budget. *)
LEMMA BudgetUnchanged ==
  ASSUME UNCHANGED <<usage, reserved, refusal, replay, inflight>>
  PROVE  UNCHANGED Budget!budgetVars
<1>1. Charged' = Charged /\ (refusal # "none")' = (refusal # "none")
  BY DEF Charged
<1>2. Sample' = Sample
  BY DEF Sample
<1>3. Exhausted' = Exhausted
  BY DEF Exhausted, Reached, Observed
<1>4. QED BY <1>1, <1>2, <1>3 DEF Budget!budgetVars

(* What a handler does to one digest's cache entries is what its sample sees. *)
LEMMA SampleAt ==
  ASSUME TypeOK, NEW k \in Keys,
         \A j \in Keys \ {k} : replay'[j] = replay[j] /\ inflight'[j] = inflight[j]
  PROVE  Sample' = [Sample EXCEPT ![k] = Sample'[k]]
BY DEF Sample

(* The books of a new session are those of a new budget. *)
LEMMA InitBudget == Init => Budget!Init
<1> SUFFICES ASSUME Init PROVE Budget!Init
  OBVIOUS
<1>1. Charged = 0 /\ (refusal # "none") = FALSE
  BY DEF Init, Charged
<1>2. Exhausted \in BOOLEAN
  BY DEF Exhausted
<1>3. Sample = [k \in Keys |-> "idle"]
  BY DEF Init, Sample
<1>4. QED BY <1>1, <1>2, <1>3 DEF Budget!Init

(* Forward starts a sample; a request whose debug copy cannot be written    *)
(* spoils one.                                                              *)
LEMMA AdmittedStep ==
  ASSUME TypeOK, Purpose = "agent", NEW c \in Calls, Forward(c) \/ RequestNotRetained(c)
  PROVE  Budget!Start(KeyOf[c]) \/ Budget!Spoil(KeyOf[c])
<1> DEFINE k == KeyOf[c]
<1>0. k \in Keys /\ NoCall \notin Calls
  BY SessionAssumption
<1>1. ~Budget!Spent
  BY SpentIsReached DEF Forward, RequestNotRetained
<1>2. replay[k] = NoCall /\ inflight[k] = NoCall
  BY DEF Forward, RequestNotRetained, Fresh, Replays
<1>3. Sample[k] = "idle"
  BY <1>0, <1>2 DEF Sample
<1>4. Charged' = Charged + 1
  <2>1. usage' = usage /\ reserved' = reserved + 1
    BY DEF Forward, RequestNotRetained
  <2>2. usage.model_calls \in Int /\ reserved \in Int
    BY DEF TypeOK
  <2>3. QED BY <2>1, <2>2 DEF Charged
<1>5. Exhausted' = Exhausted /\ (refusal # "none")' = (refusal # "none")
  BY DEF Forward, RequestNotRetained, Exhausted, Reached, Observed, LimitNames
<1>6. CASE Forward(c)
  <2>1. \A j \in Keys \ {k} : replay'[j] = replay[j] /\ inflight'[j] = inflight[j]
    BY <1>6, <1>0 DEF Forward, TypeOK
  <2>2. replay'[k] = NoCall /\ inflight'[k] = c
    BY <1>6, <1>0, <1>2 DEF Forward, TypeOK
  <2>3. Sample'[k] = "open"
    BY <2>2, <1>0 DEF Sample
  <2>4. Sample' = [Sample EXCEPT ![k] = "open"]
    BY <1>0, <2>1, <2>3, SampleAt
  <2>5. QED BY <1>1, <1>3, <1>4, <1>5, <2>4 DEF Budget!Start
<1>7. CASE RequestNotRetained(c)
  <2>1. replay' = replay /\ inflight' = [inflight EXCEPT ![k] = NoCall]
    BY <1>7 DEF RequestNotRetained, BeginAndFinish
  <2>2. inflight' = inflight
    BY <1>0, <1>2, <2>1 DEF TypeOK
  <2>3. Sample' = Sample
    BY <2>1, <2>2 DEF Sample
  <2>4. QED BY <1>1, <1>3, <1>4, <1>5, <2>3 DEF Budget!Spoil
<1>8. QED BY <1>6, <1>7

(* However an upstream call ends, it settles its sample and charges nothing. *)
LEMMA SettledStep ==
  ASSUME TypeOK, TypeOK', FlightsOwnTheirKey, [Next]_vars, NEW c \in Calls,
         ForwardFails(c) \/ Complete(c) \/ StreamNotRetained(c)
  PROVE  Budget!Settle(KeyOf[c])
<1> DEFINE k == KeyOf[c]
<1>0. k \in Keys /\ NoCall \notin Calls
  BY SessionAssumption
<1>1. inflight[k] = c /\ replay[k] = NoCall
  BY DEF FlightsOwnTheirKey, ForwardFails, Complete, StreamNotRetained
<1>2. Sample[k] = "open"
  BY <1>0, <1>1 DEF Sample
<1>3. /\ inflight' = [inflight EXCEPT ![k] = NoCall]
      /\ replay' = replay \/ replay' = [replay EXCEPT ![k] = c]
  <2>1. CASE ForwardFails(c) \/ StreamNotRetained(c)
    BY <2>1 DEF ForwardFails, StreamNotRetained, Finish
  <2>2. CASE Complete(c)
    <3>1. PICK a \in AnswersTo(c) : Finish(c, "result", a \in Replayable)
      BY <2>2 DEF Complete
    <3>2. QED BY <3>1 DEF Finish
  <2>3. QED BY <2>1, <2>2
<1>5. \A j \in Keys \ {k} : replay'[j] = replay[j] /\ inflight'[j] = inflight[j]
  BY <1>0, <1>3 DEF TypeOK
<1>6. inflight'[k] = NoCall
  BY <1>0, <1>3 DEF TypeOK
<1>7. Sample'[k] \in {"idle", "kept"}
  BY <1>0, <1>6 DEF Sample
<1>8. Sample' = [Sample EXCEPT ![k] = Sample'[k]]
  BY <1>0, <1>5, SampleAt
<1>9. Charged' = Charged /\ (refusal # "none")' = (refusal # "none")
  <2>1. PICK n \in {1, 2} : \E tokens \in [input: Nat, output: Nat] : Commit(n, tokens)
    <3>1. NoTokens \in [input: Nat, output: Nat]
      BY DEF NoTokens
    <3>2. CASE ForwardFails(c)
      BY <3>1, <3>2 DEF ForwardFails
    <3>3. CASE Complete(c)
      <4>1. PICK a \in AnswersTo(c) : \E tokens \in TokensOf(a) : Commit(1, tokens)
        BY <3>3 DEF Complete
      <4>2. a \in Answers
        BY DEF AnswersTo
      <4>3. QED BY <4>1, <4>2, TokensType
    <3>4. CASE StreamNotRetained(c)
      <4>1. PICK a \in Answers : \E tokens \in TokensOf(a) : Commit(2, tokens)
        BY <3>4 DEF StreamNotRetained
      <4>2. QED BY <4>1, TokensType
    <3>5. QED BY <3>2, <3>3, <3>4
  <2>2. PICK tokens \in [input: Nat, output: Nat] : Commit(n, tokens)
    BY <2>1
  <2>3. reserved' = reserved - n /\ usage'.model_calls = usage.model_calls + n
    BY <2>2 DEF Commit, CommittedUsage
  <2>4. Charged' = Charged
    BY <2>3 DEF Charged, TypeOK
  <2>5. refusal' = refusal
    BY DEF ForwardFails, Complete, StreamNotRetained
  <2>6. QED BY <2>4, <2>5
<1>10. Exhausted' \in {Exhausted, TRUE}
  <2>1. Exhausted => Exhausted'
    BY ExhaustedStays
  <2>2. Exhausted' \in BOOLEAN /\ Exhausted \in BOOLEAN
    BY DEF Exhausted
  <2>3. QED BY <2>1, <2>2
<1>11. QED BY <1>2, <1>7, <1>8, <1>9, <1>10 DEF Budget!Settle

(* A refusal meets a spent budget; its answer is cached unless the debug    *)
(* copy could not be written.                                               *)
LEMMA RefusedStep ==
  ASSUME TypeOK, Purpose = "agent", NEW c \in Calls, Refuse(c)
  PROVE  Budget!Refuse(KeyOf[c])
<1> DEFINE k == KeyOf[c]
<1>0. k \in Keys /\ NoCall \notin Calls
  BY SessionAssumption
<1>1. PICK l \in LimitNames : FirstReached(l) /\ refusal' = IF refusal = "none" THEN l ELSE refusal
  BY DEF Refuse
<1>2. Budget!Spent
  BY <1>1, SpentIsReached DEF FirstReached, WithinLimits
<1>3. replay[k] = NoCall /\ inflight[k] = NoCall
  BY DEF Refuse, Fresh, Replays
<1>4. Sample[k] = "idle"
  BY <1>0, <1>3 DEF Sample
<1>5. (refusal # "none")' = TRUE
  BY <1>1 DEF LimitNames
<1>6. Charged' = Charged /\ Exhausted' = Exhausted
  BY DEF Refuse, Charged, Exhausted, Reached, Observed, LimitNames
<1>7. PICK keep \in BOOLEAN : BeginAndFinish(c, "result", keep) \/ BeginAndFinish(c, "error", keep)
  BY DEF Refuse
<1>8. \A j \in Keys \ {k} : replay'[j] = replay[j] /\ inflight'[j] = inflight[j]
  BY <1>0, <1>7 DEF BeginAndFinish, TypeOK
<1>9. inflight'[k] = NoCall
  BY <1>0, <1>7 DEF BeginAndFinish, TypeOK
<1>10. Sample'[k] \in {"idle", "kept"}
  BY <1>0, <1>9 DEF Sample
<1>11. Sample' = [Sample EXCEPT ![k] = Sample'[k]]
  BY <1>0, <1>8, SampleAt
<1>12. QED BY <1>2, <1>4, <1>5, <1>6, <1>10, <1>11 DEF Budget!Refuse

(* Every step of an agent session is a step of the budget, or a stutter. *)
LEMMA BudgetStep ==
  ASSUME SessionInvariant, SessionInvariant', Purpose = "agent", [Next]_vars
  PROVE  [Budget!Next]_(Budget!budgetVars)
<1>1. TypeOK /\ TypeOK' /\ FlightsOwnTheirKey
  BY DEF SessionInvariant
<1>2. ASSUME NEW c \in Calls,
             Forward(c) \/ RequestNotRetained(c) \/ Refuse(c)
             \/ ForwardFails(c) \/ Complete(c) \/ StreamNotRetained(c)
      PROVE  Budget!Next
  <2>1. KeyOf[c] \in Keys
    BY SessionAssumption
  <2>2. \/ Budget!Start(KeyOf[c]) \/ Budget!Spoil(KeyOf[c])
        \/ Budget!Settle(KeyOf[c]) \/ Budget!Refuse(KeyOf[c])
    BY <1>1, <1>2, AdmittedStep, SettledStep, RefusedStep
  <2>3. QED BY <2>1, <2>2 DEF Budget!Next
<1>3. ASSUME NEW c \in Calls,
             \/ Authenticate(c) \/ Unauthorized(c) \/ BodyUnreadable(c) \/ ServeCached(c)
             \/ Coalesce(c) \/ WaiterResumes(c) \/ RetryPost(c)
      PROVE  UNCHANGED Budget!budgetVars
  <2>1. UNCHANGED <<usage, reserved, refusal, replay, inflight>>
    BY <1>3 DEF Authenticate, Unauthorized, BodyUnreadable, ServeCached, Coalesce,
                WaiterResumes, RetryPost, sessionVars, cacheVars
  <2>2. QED BY <2>1, BudgetUnchanged
<1>4. CASE CloseSession \/ UNCHANGED vars
  <2>1. UNCHANGED <<usage, reserved, refusal, replay, inflight>>
    BY <1>4 DEF CloseSession, vars, sessionVars, cacheVars
  <2>2. QED BY <2>1, BudgetUnchanged
<1>5. QED BY <1>2, <1>3, <1>4 DEF Next, Respond, Settle

(* An agent's session implements ModelBudget: every step of a handler is a  *)
(* step of the budget or leaves it alone, whatever the ceilings.            *)
THEOREM SessionImplementsBudget ==
  ASSUME Purpose = "agent"
  PROVE  Spec => ImplementsBudget
<1>1. SessionInvariant /\ SessionInvariant' /\ [Next]_vars => [Budget!Next]_(Budget!budgetVars)
  BY BudgetStep
<1>2. QED
  BY <1>1, InitBudget, SessionInvariantHolds, PTL DEF Spec, ImplementsBudget, Budget!Spec

(* A record is written for the call that is served, while the trace is       *)
(* attached.                                                                 *)
LEMMA RecordEffect ==
  ASSUME TypeOK, NEW c \in Calls, NEW ds, Record(c, ds)
  PROVE  /\ \A d \in Calls \ {c} : records'[d] = records[d]
         /\ open => records'[c] = records[c] \o ds
         /\ ~open => records'[c] = records[c]
BY DEF TypeOK, Record

(* A handler that ends has answered.                                         *)
LEMMA EndsEffect ==
  ASSUME TypeOK, NEW c \in Calls, NEW how, Ends(c, how)
  PROVE  /\ pc'[c] = "done" /\ answer'[c] = how
         /\ \A d \in Calls \ {c} : pc'[d] = pc[d] /\ answer'[d] = answer[d]
BY DEF TypeOK, Ends

(* finish() settles one future at most, and one that was pending.            *)
LEMMA FinishEffect ==
  ASSUME TypeOK, NEW c \in Calls, NEW state \in {"result", "error"}, NEW keep \in BOOLEAN,
         Finish(c, state, keep)
  PROVE  /\ \A k \in Keys : replay'[k] = replay[k] \/ (k = KeyOf[c] /\ keep /\ replay'[k] = c)
         /\ \A k \in Keys : inflight'[k] = IF k = KeyOf[c] THEN NoCall ELSE inflight[k]
         /\ \A d \in Calls :
              \/ future'[d] = future[d]
              \/ /\ d = inflight[KeyOf[c]] /\ future[d].state = "pending"
                 /\ future'[d].state = state /\ future'[d].by = c
<1>1. KeyOf[c] \in Keys
  BY SessionAssumption
<1>2. /\ replay' = IF keep THEN [replay EXCEPT ![KeyOf[c]] = c] ELSE replay
      /\ inflight' = [inflight EXCEPT ![KeyOf[c]] = NoCall]
      /\ future' = IF inflight[KeyOf[c]] # NoCall /\ future[inflight[KeyOf[c]]].state = "pending"
                     THEN [future EXCEPT ![inflight[KeyOf[c]]] = [state |-> state, by |-> c]]
                     ELSE future
  BY DEF Finish
<1>3. \A k \in Keys : replay'[k] = replay[k] \/ (k = KeyOf[c] /\ keep /\ replay'[k] = c)
  BY <1>1, <1>2 DEF TypeOK
<1>4. \A k \in Keys : inflight'[k] = IF k = KeyOf[c] THEN NoCall ELSE inflight[k]
  BY <1>1, <1>2 DEF TypeOK
<1>5. \A d \in Calls :
        \/ future'[d] = future[d]
        \/ /\ d = inflight[KeyOf[c]] /\ future[d].state = "pending"
           /\ future'[d].state = state /\ future'[d].by = c
  BY <1>1, <1>2 DEF TypeOK
<1>6. QED BY <1>3, <1>4, <1>5

(* The same of a call refused in the step in which it began.                 *)
LEMMA BeginAndFinishEffect ==
  ASSUME TypeOK, NEW c \in Calls, NEW state \in {"result", "error"}, NEW keep \in BOOLEAN,
         BeginAndFinish(c, state, keep)
  PROVE  /\ \A k \in Keys : replay'[k] = replay[k] \/ (k = KeyOf[c] /\ keep /\ replay'[k] = c)
         /\ \A k \in Keys : inflight'[k] = IF k = KeyOf[c] THEN NoCall ELSE inflight[k]
         /\ future'[c].state = state /\ future'[c].by = c
         /\ \A d \in Calls \ {c} : future'[d] = future[d]
BY SessionAssumption DEF TypeOK, BeginAndFinish

(* What a step of one handler leaves of the others: their place, their posts,*)
(* their records and their answers.                                          *)
Others(c) == \A d \in Calls \ {c} :
  /\ pc'[d] = pc[d] /\ attempt'[d] = attempt[d] /\ source'[d] = source[d]
  /\ response'[d] = response[d] /\ records'[d] = records[d] /\ answer'[d] = answer[d]

(* A handler writes its own call's row and no other.                         *)
LEMMA OthersStep ==
  ASSUME TypeOK, NEW c \in Calls,
         Authenticate(c) \/ Unauthorized(c) \/ Respond(c) \/ Settle(c)
  PROVE  Others(c)
<1>1. CASE Authenticate(c)
  BY <1>1 DEF Authenticate, Others, TypeOK
<1>2. CASE Unauthorized(c)
  BY <1>2, EndsEffect DEF Unauthorized, Others
<1>3. CASE BodyUnreadable(c)
  BY <1>3, EndsEffect DEF BodyUnreadable, Others
<1>4. CASE ServeCached(c)
  BY <1>4, EndsEffect, RecordEffect DEF ServeCached, Others, TypeOK
<1>5. CASE Coalesce(c)
  BY <1>5 DEF Coalesce, Others, TypeOK
<1>6. CASE Refuse(c)
  BY <1>6, EndsEffect, RecordEffect DEF Refuse, Others
<1>7. CASE Forward(c)
  BY <1>7 DEF Forward, Others, TypeOK
<1>8. CASE RequestNotRetained(c)
  BY <1>8, EndsEffect DEF RequestNotRetained, Others
<1>9. CASE WaiterResumes(c)
  BY <1>9, EndsEffect, RecordEffect DEF WaiterResumes, Others, TypeOK
<1>10. CASE RetryPost(c)
  BY <1>10 DEF RetryPost, Others, TypeOK
<1>11. CASE ForwardFails(c)
  BY <1>11, EndsEffect, RecordEffect DEF ForwardFails, Others
<1>12. CASE Complete(c)
  <2>1. PICK a \in Answers : response' = [response EXCEPT ![c] = a] /\ Record(c, <<Disposition(a)>>)
    BY <1>12 DEF Complete, AnswersTo
  <2>2. QED BY <1>12, <2>1, EndsEffect, RecordEffect DEF Complete, Others, TypeOK
<1>13. CASE StreamNotRetained(c)
  <2>1. PICK a \in Answers : response' = [response EXCEPT ![c] = a] /\ Record(c, <<Disposition(a), "failed">>)
    BY <1>13 DEF StreamNotRetained
  <2>2. QED BY <1>13, <2>1, EndsEffect, RecordEffect DEF StreamNotRetained, Others, TypeOK
<1>14. QED
  BY <1>1, <1>2, <1>3, <1>4, <1>5, <1>6, <1>7, <1>8, <1>9, <1>10, <1>11, <1>12, <1>13 DEF
     Respond, Settle

(* A posted call that ends settles the future of its digest.                 *)
LEMMA PostedFinishes ==
  ASSUME TypeOK, NEW c \in Calls, ForwardFails(c) \/ Complete(c) \/ StreamNotRetained(c)
  PROVE  /\ pc[c] = "posted"
         /\ \E state \in {"result", "error"}, keep \in BOOLEAN :
              /\ Finish(c, state, keep)
              /\ state = "result" \/ keep => Ends(c, "response")
              /\ keep => response'[c] \in Replayable
<1>1. CASE ForwardFails(c) \/ StreamNotRetained(c)
  <2>1. Finish(c, "error", FALSE) /\ pc[c] = "posted"
    BY <1>1 DEF ForwardFails, StreamNotRetained
  <2>2. QED BY <2>1
<1>2. CASE Complete(c)
  <2>1. PICK a \in Answers : response' = [response EXCEPT ![c] = a] /\ Finish(c, "result", a \in Replayable)
    BY <1>2 DEF Complete, AnswersTo
  <2>2. response'[c] = a /\ pc[c] = "posted" /\ Ends(c, "response")
    BY <1>2, <2>1 DEF Complete, TypeOK
  <2>3. CASE a \in Replayable
    <3>1. Finish(c, "result", TRUE) BY <2>1, <2>3 DEF Finish
    <3>2. QED BY <2>2, <2>3, <3>1
  <2>4. CASE a \notin Replayable
    <3>1. Finish(c, "result", FALSE) BY <2>1, <2>4 DEF Finish
    <3>2. QED BY <2>2, <3>1
  <2>5. QED BY <2>3, <2>4
<1>3. QED BY <1>1, <1>2

(* The books of a handler: no record and no answer before it ends, and a     *)
(* future of its own only from the moment it posts or refuses.               *)
LEMMA NextHandlersKeepBooks ==
  ASSUME TypeOK, HandlersKeepBooks, [Next]_vars
  PROVE  HandlersKeepBooks'
<1> DEFINE Books(d) ==
      /\ pc[d] \in {"idle", "reading", "waiting"} => attempt[d] = 0 /\ future[d].state = "none"
      /\ pc[d] = "posted" \/ future[d].state = "pending" => attempt[d] > 0
      /\ pc[d] # "done" => records[d] = <<>> /\ response[d] = "none" /\ answer[d] = "none"
<1> SUFFICES ASSUME NEW d \in Calls PROVE Books(d)'
  BY DEF HandlersKeepBooks
<1>0. \A e \in Calls : Books(e)
  BY DEF HandlersKeepBooks
<1>1. ASSUME NEW c \in Calls, Authenticate(c) \/ Unauthorized(c) \/ BodyUnreadable(c) \/ ServeCached(c)
             \/ Coalesce(c) \/ WaiterResumes(c) \/ RetryPost(c)
      PROVE  Books(d)'
  <2>1. Others(c) /\ UNCHANGED future
    BY <1>1, OthersStep DEF Respond, Settle, Authenticate, Unauthorized, BodyUnreadable,
       ServeCached,
       Coalesce, WaiterResumes, RetryPost, cacheVars
  <2>2. CASE d # c BY <2>1, <2>2, <1>0 DEF Others
  <2>3. CASE d = c
    BY <2>1, <2>3, <1>0, <1>1 DEF TypeOK, Authenticate, Unauthorized, BodyUnreadable,
       ServeCached,
       Coalesce, WaiterResumes, RetryPost, Ends
  <2>4. QED BY <2>2, <2>3
<1>2. ASSUME NEW c \in Calls, Refuse(c) \/ RequestNotRetained(c) PROVE Books(d)'
  <2>1. Others(c) /\ pc'[c] = "done"
    BY <1>2, OthersStep, EndsEffect DEF Respond, Refuse, RequestNotRetained
  <2>2. /\ future'[c].state # "pending"
        /\ \A e \in Calls \ {c} : future'[e] = future[e]
    BY <1>2, BeginAndFinishEffect DEF Refuse, RequestNotRetained
  <2>3. QED BY <2>1, <2>2, <1>0 DEF Others
<1>3. ASSUME NEW c \in Calls, Forward(c) PROVE Books(d)'
  <2>1. Others(c) /\ pc'[c] = "posted" /\ attempt'[c] = 1 /\ UNCHANGED <<records, response, answer>>
        /\ \A e \in Calls \ {c} : future'[e] = future[e]
    BY <1>3, OthersStep DEF Respond, Forward, TypeOK
  <2>2. QED BY <2>1, <1>0, <1>3 DEF Others, Forward
<1>4. ASSUME NEW c \in Calls, ForwardFails(c) \/ Complete(c) \/ StreamNotRetained(c) PROVE Books(d)'
  <2>1. Others(c) /\ pc'[c] = "done" /\ UNCHANGED attempt /\ attempt[c] > 0
    BY <1>0, <1>4, OthersStep, EndsEffect DEF Settle, ForwardFails, Complete, StreamNotRetained
  <2>2. \E state \in {"result", "error"}, keep \in BOOLEAN : Finish(c, state, keep)
    BY <1>4, PostedFinishes
  <2>3. \A e \in Calls : \/ future'[e] = future[e]
                         \/ future[e].state = "pending" /\ future'[e].state \in {"result", "error"}
    BY <2>2, FinishEffect
  <2>4. QED BY <2>1, <2>3, <1>0 DEF Others
<1>5. CASE CloseSession
  BY <1>0, <1>5 DEF CloseSession, cacheVars, callVars
<1>6. CASE UNCHANGED vars
  BY <1>0, <1>6 DEF vars, cacheVars, callVars
<1>7. QED BY <1>1, <1>2, <1>3, <1>4, <1>5, <1>6 DEF Next, Respond, Settle

(* What is answered stays answered, and the answer its response (Ends).      *)
LEMMA AnswersStay ==
  ASSUME TypeOK, HandlersKeepBooks, [Next]_vars, NEW d \in Calls, answer[d] # "none"
  PROVE  answer'[d] = answer[d] /\ response'[d] = response[d]
<1>1. pc[d] = "done"
  BY DEF HandlersKeepBooks
<1>2. ASSUME NEW c \in Calls, Authenticate(c) \/ Unauthorized(c) \/ Respond(c) \/ Settle(c)
      PROVE  d # c
  BY <1>1, <1>2 DEF Authenticate, Unauthorized, Respond, Settle, BodyUnreadable, ServeCached,
     Coalesce,
     Refuse, Forward, RequestNotRetained, WaiterResumes, RetryPost, ForwardFails, Complete, StreamNotRetained
<1>3. ASSUME NEW c \in Calls, Authenticate(c) \/ Unauthorized(c) \/ Respond(c) \/ Settle(c)
      PROVE  answer'[d] = answer[d] /\ response'[d] = response[d]
  BY <1>2, <1>3, OthersStep DEF Others
<1>4. CASE CloseSession \/ UNCHANGED vars
  BY <1>4 DEF CloseSession, vars, callVars
<1>5. QED BY <1>3, <1>4 DEF Next

(* The replay cache and the futures keep to their digest: what they hand out *)
(* was answered to a call of the same digest (begin, finish, _call).         *)
LEMMA NextRepliesAreKeyed ==
  ASSUME TypeOK, HandlersKeepBooks, RepliesAreKeyed, ReplaysAreFaithful, [Next]_vars
  PROVE  RepliesAreKeyed' /\ ReplaysAreFaithful'
<1> DEFINE Cached(k) == /\ replay[k] # NoCall => /\ KeyOf[replay[k]] = k
                                                 /\ answer[replay[k]] = "refusal" \/ Kept(replay[k])
                        /\ inflight[k] # NoCall => KeyOf[inflight[k]] = k
           Settled(d) == future[d].state = "result" =>
                           /\ future[d].by \in Calls /\ KeyOf[future[d].by] = KeyOf[d]
                           /\ answer[future[d].by] \in {"response", "refusal"}
           Sourced(d) == /\ pc[d] = "waiting" \/ answer[d] = "replay" =>
                              source[d] \in Calls /\ KeyOf[source[d]] = KeyOf[d]
                         /\ answer[d] = "replay" => answer[source[d]] \in {"response", "refusal"}
<1> SUFFICES /\ \A k \in Keys : Cached(k)'
             /\ \A d \in Calls : Settled(d)' /\ Sourced(d)'
  BY DEF RepliesAreKeyed, ReplaysAreFaithful
<1>0. /\ \A k \in Keys : Cached(k)
      /\ \A d \in Calls : Settled(d) /\ Sourced(d)
  BY DEF RepliesAreKeyed, ReplaysAreFaithful
<1>s. \A d \in Calls : answer[d] # "none" => answer'[d] = answer[d] /\ (Kept(d) => Kept(d)')
  BY AnswersStay DEF Kept
<1>t. /\ KeyOf \in [Calls -> Keys] /\ NoCall \notin Calls
      /\ replay \in [Keys -> Calls \cup {NoCall}] /\ inflight \in [Keys -> Calls \cup {NoCall}]
  BY SessionAssumption DEF TypeOK
<1>c. ASSUME UNCHANGED cacheVars
      PROVE  /\ \A k \in Keys : Cached(k)'
             /\ \A d \in Calls : Settled(d)'
  <2>1. \A k \in Keys : Cached(k)'
    BY <1>c, <1>0, <1>s, <1>t DEF cacheVars, Kept
  <2>2. \A d \in Calls : Settled(d)'
    BY <1>c, <1>0, <1>s DEF cacheVars
  <2>3. QED BY <2>1, <2>2
<1>d. ASSUME NEW c \in Calls, Others(c), pc'[c] # "waiting", answer'[c] # "replay"
      PROVE  \A d \in Calls : Sourced(d)'
  <2> SUFFICES ASSUME NEW d \in Calls, d # c PROVE Sourced(d)'
    BY <1>d
  <2>1. pc'[d] = pc[d] /\ source'[d] = source[d] /\ answer'[d] = answer[d]
    BY <1>d DEF Others
  <2>2. QED BY <2>1, <1>0, <1>s
<1>1. ASSUME NEW c \in Calls, Authenticate(c) \/ Unauthorized(c) \/ BodyUnreadable(c) \/ RetryPost(c)
      PROVE  /\ \A k \in Keys : Cached(k)'
             /\ \A d \in Calls : Settled(d)' /\ Sourced(d)'
  <2>1. UNCHANGED cacheVars /\ Others(c)
    BY <1>1, OthersStep DEF Respond, Settle, Authenticate, Unauthorized, BodyUnreadable,
       RetryPost
  <2>2. pc'[c] # "waiting" /\ answer'[c] # "replay"
    <3>1. CASE Authenticate(c) \/ RetryPost(c)
      BY <3>1 DEF TypeOK, HandlersKeepBooks, Authenticate, RetryPost
    <3>2. CASE Unauthorized(c) \/ BodyUnreadable(c)
      BY <3>2, EndsEffect DEF Unauthorized, BodyUnreadable
    <3>3. QED BY <1>1, <3>1, <3>2
  <2>3. QED BY <2>1, <2>2, <1>c, <1>d
<1>2. ASSUME NEW c \in Calls, ServeCached(c) \/ Coalesce(c) \/ WaiterResumes(c)
      PROVE  /\ \A k \in Keys : Cached(k)'
             /\ \A d \in Calls : Settled(d)' /\ Sourced(d)'
  <2>1. UNCHANGED cacheVars /\ Others(c)
    BY <1>2, OthersStep DEF Respond, Settle, ServeCached, Coalesce, WaiterResumes
  <2>2. CASE ServeCached(c)
    <3>1. source'[c] = replay[KeyOf[c]] /\ replay[KeyOf[c]] \in Calls
      BY <1>t, <2>2 DEF ServeCached, TypeOK
    <3>2. answer[source'[c]] \in {"response", "refusal"} /\ KeyOf[source'[c]] = KeyOf[c]
      BY <1>0, <1>t, <2>2, <3>1 DEF ServeCached, Kept
    <3>3. Sourced(c)'
      BY <1>s, <3>1, <3>2
    <3>4. QED BY <2>1, <3>3, <1>c, <1>0, <1>s DEF Others
  <2>3. CASE Coalesce(c)
    <3>1. source'[c] = inflight[KeyOf[c]] /\ inflight[KeyOf[c]] \in Calls /\ answer'[c] = "none"
      BY <1>t, <2>3 DEF Coalesce, TypeOK, HandlersKeepBooks
    <3>2. KeyOf[source'[c]] = KeyOf[c]
      BY <1>0, <1>t, <2>3, <3>1 DEF Coalesce
    <3>3. Sourced(c)'
      BY <3>1, <3>2
    <3>4. QED BY <2>1, <3>3, <1>c, <1>0, <1>s DEF Others
  <2>4. CASE WaiterResumes(c)
    <3>1. source[c] \in Calls /\ KeyOf[source[c]] = KeyOf[c] /\ pc'[c] = "done"
      BY <1>0, <2>4, EndsEffect DEF WaiterResumes
    <3>2. CASE answer'[c] = "replay"
      <4>1. future[source[c]].state = "result" /\ source'[c] = future[source[c]].by
        BY <2>4, <3>2, EndsEffect DEF WaiterResumes, TypeOK
      <4>2. Sourced(c)'
        BY <1>0, <1>s, <3>1, <4>1
      <4>3. QED BY <2>1, <4>2, <1>c, <1>0, <1>s DEF Others
    <3>3. CASE answer'[c] # "replay"
      BY <2>1, <3>1, <3>3, <1>c, <1>d
    <3>4. QED BY <3>2, <3>3
  <2>5. QED BY <1>2, <2>2, <2>3, <2>4
<1>3. ASSUME NEW c \in Calls, Refuse(c) \/ RequestNotRetained(c)
      PROVE  /\ \A k \in Keys : Cached(k)'
             /\ \A d \in Calls : Settled(d)' /\ Sourced(d)'
  <2>1. Others(c) /\ pc'[c] = "done" /\ answer'[c] # "replay"
    BY <1>3, OthersStep, EndsEffect DEF Respond, Refuse, RequestNotRetained
  <2>2. PICK state \in {"result", "error"}, keep \in BOOLEAN :
          /\ BeginAndFinish(c, state, keep)
          /\ state = "result" \/ keep => answer'[c] = "refusal"
    BY <1>3, EndsEffect DEF Refuse, RequestNotRetained
  <2>3. \A d \in Calls : Sourced(d)'
    BY <2>1, <1>d
  <2>4. \A k \in Keys : Cached(k)'
    <3>1. \A k \in Keys : /\ replay'[k] = replay[k] \/ (k = KeyOf[c] /\ keep /\ replay'[k] = c)
                          /\ inflight'[k] = inflight[k] \/ inflight'[k] = NoCall
      BY <2>2, BeginAndFinishEffect
    <3>2. QED BY <3>1, <2>2, <1>0, <1>s, <1>t DEF Kept
  <2>5. \A d \in Calls : Settled(d)'
    <3>1. /\ future'[c].state = state /\ future'[c].by = c
          /\ \A d \in Calls \ {c} : future'[d] = future[d]
      BY <2>2, BeginAndFinishEffect
    <3>2. QED BY <3>1, <2>2, <1>0, <1>s
  <2>6. QED BY <2>3, <2>4, <2>5
<1>4. ASSUME NEW c \in Calls, Forward(c)
      PROVE  /\ \A k \in Keys : Cached(k)'
             /\ \A d \in Calls : Settled(d)' /\ Sourced(d)'
  <2>1. Others(c) /\ pc'[c] = "posted" /\ UNCHANGED <<answer, response, replay>> /\ answer[c] = "none"
    BY <1>4, OthersStep DEF Respond, Forward, TypeOK, HandlersKeepBooks
  <2>2. \A k \in Keys : inflight'[k] = IF k = KeyOf[c] THEN c ELSE inflight[k]
    BY <1>4, <1>t DEF Forward
  <2>3. /\ future'[c].state = "pending"
        /\ \A d \in Calls \ {c} : future'[d] = future[d]
    BY <1>4 DEF Forward, TypeOK
  <2>4. \A k \in Keys : Cached(k)'
    BY <2>1, <2>2, <1>0, <1>t DEF Kept
  <2>5. \A d \in Calls : Settled(d)' /\ Sourced(d)'
    BY <2>1, <2>3, <1>0, <1>d
  <2>6. QED BY <2>4, <2>5
<1>5. ASSUME NEW c \in Calls, ForwardFails(c) \/ Complete(c) \/ StreamNotRetained(c)
      PROVE  /\ \A k \in Keys : Cached(k)'
             /\ \A d \in Calls : Settled(d)' /\ Sourced(d)'
  <2>0. Ends(c, "response") \/ Ends(c, "error")
    BY <1>5 DEF ForwardFails, Complete, StreamNotRetained
  <2>1. Others(c) /\ pc'[c] = "done" /\ answer'[c] # "replay"
    BY <1>5, <2>0, OthersStep, EndsEffect DEF Settle
  <2>2. PICK state \in {"result", "error"}, keep \in BOOLEAN :
          /\ Finish(c, state, keep)
          /\ state = "result" \/ keep => Ends(c, "response")
          /\ keep => response'[c] \in Replayable
    BY <1>5, PostedFinishes
  <2>3. state = "result" \/ keep => answer'[c] = "response"
    BY <2>2, EndsEffect
  <2>4. \A d \in Calls : Sourced(d)'
    BY <2>1, <1>d
  <2>5. \A k \in Keys : Cached(k)'
    <3>1. \A k \in Keys : /\ replay'[k] = replay[k] \/ (k = KeyOf[c] /\ keep /\ replay'[k] = c)
                          /\ inflight'[k] = inflight[k] \/ inflight'[k] = NoCall
      BY <2>2, FinishEffect
    <3>2. keep => Kept(c)' BY <2>2, <2>3 DEF Kept
    <3>3. QED BY <3>1, <3>2, <1>0, <1>s, <1>t DEF Kept
  <2>6. \A d \in Calls : Settled(d)'
    <3>1. \A d \in Calls :
            \/ future'[d] = future[d]
            \/ /\ d = inflight[KeyOf[c]] /\ future[d].state = "pending"
               /\ future'[d].state = state /\ future'[d].by = c
      BY <2>2, FinishEffect
    <3>2. QED BY <3>1, <2>3, <1>0, <1>s, <1>t
  <2>7. QED BY <2>4, <2>5, <2>6
<1>6. CASE CloseSession \/ UNCHANGED vars
  <2>1. UNCHANGED <<cacheVars, callVars>>
    BY <1>6 DEF CloseSession, vars
  <2>2. QED BY <2>1, <1>0, <1>c DEF callVars, cacheVars
<1>7. QED BY <1>1, <1>2, <1>3, <1>4, <1>5, <1>6 DEF Next, Respond, Settle

(* One member more of a finite set counts as one.                            *)
LEMMA CountAdded ==
  ASSUME NEW S, IsFiniteSet(S), NEW x, x \notin S
  PROVE  /\ IsFiniteSet(S \cup {x}) /\ Cardinality(S) \in Nat
         /\ Cardinality(S \cup {x}) = Cardinality(S) + 1
BY FS_AddElement, FS_CardinalityType

(* The same of one member less.                                              *)
LEMMA CountRemoved ==
  ASSUME NEW S, IsFiniteSet(S), NEW x, x \in S
  PROVE  /\ IsFiniteSet(S \ {x}) /\ Cardinality(S) \in Nat
         /\ Cardinality(S \ {x}) = Cardinality(S) - 1
BY FS_RemoveElement, FS_CardinalityType

(* What is counted: the calls upstream, those posted and over, those that    *)
(* were not sent, those counted twice and the records of the trace.          *)
Sent == {c \in Calls : pc[c] = "done" /\ attempt[c] > 0}

(* Finitely many calls have arrived, so what is counted of them is finite.   *)
LEMMA CountedIsFinite ==
  ASSUME HandlersKeepBooks, SessionIsFinite
  PROVE  /\ IsFiniteSet(Flying) /\ IsFiniteSet(Sent) /\ IsFiniteSet(NotSent) /\ IsFiniteSet(CountedTwice)
         /\ IsFiniteSet(CallRecords)
         /\ Cardinality(Flying) \in Nat /\ Cardinality(Sent) \in Nat /\ Cardinality(NotSent) \in Nat
         /\ Cardinality(CountedTwice) \in Nat /\ Cardinality(CallRecords) \in Nat
<1> DEFINE Started == {c \in Calls : pc[c] # "idle"}
<1>1. IsFiniteSet(Started) /\ IsFiniteSet(CallRecords)
  BY DEF SessionIsFinite
<1>2. Flying \subseteq Started /\ Sent \subseteq Started /\ NotSent \subseteq Started
      /\ CountedTwice \subseteq Started
  BY DEF Flying, Sent, NotSent, CountedTwice, HandlersKeepBooks
<1>3. IsFiniteSet(Flying) /\ IsFiniteSet(Sent) /\ IsFiniteSet(NotSent) /\ IsFiniteSet(CountedTwice)
  BY <1>1, <1>2, FS_Subset
<1>4. QED BY <1>1, <1>3, FS_CardinalityType

(* A step serves one call more at most.                                      *)
LEMMA NextStartedIsFinite ==
  ASSUME TypeOK, IsFiniteSet({c \in Calls : pc[c] # "idle"}), [Next]_vars
  PROVE  IsFiniteSet({c \in Calls : pc'[c] # "idle"})
<1> DEFINE Started == {c \in Calls : pc[c] # "idle"}
           Later   == {c \in Calls : pc'[c] # "idle"}
<1>1. ASSUME NEW c \in Calls, Authenticate(c) \/ Unauthorized(c) \/ Respond(c) \/ Settle(c)
      PROVE  Later \subseteq Started \cup {c} /\ IsFiniteSet(Started \cup {c})
  BY <1>1, OthersStep, FS_AddElement DEF Others
<1>2. CASE CloseSession \/ UNCHANGED vars
  <2>1. Later = Started
    BY <1>2 DEF CloseSession, vars, callVars
  <2>2. QED BY <2>1
<1>3. ASSUME NEW c \in Calls, Authenticate(c) \/ Unauthorized(c) \/ Respond(c) \/ Settle(c)
      PROVE  IsFiniteSet(Later)
  BY <1>1, <1>3, FS_Subset
<1>4. QED BY <1>2, <1>3 DEF Next

(* What a step of one handler makes of the counted sets, outside its call.   *)
LEMMA CountedElsewhere ==
  ASSUME NEW c \in Calls, Others(c), HandlersKeepBooks,
         \A d \in Calls \ {c} : future'[d] = future[d] \/ future[d].state = "pending"
  PROVE  \A d \in Calls \ {c} :
           /\ d \in Flying' <=> d \in Flying
           /\ d \in Sent' <=> d \in Sent
           /\ d \in CountedTwice' <=> d \in CountedTwice
           /\ d \in NotSent' <=> d \in NotSent
           /\ \A i \in 1..2 : <<d, i>> \in CallRecords' <=> <<d, i>> \in CallRecords
<1> SUFFICES ASSUME NEW d \in Calls, d # c
             PROVE  /\ d \in Flying' <=> d \in Flying
                    /\ d \in Sent' <=> d \in Sent
                    /\ d \in CountedTwice' <=> d \in CountedTwice
                    /\ d \in NotSent' <=> d \in NotSent
                    /\ \A i \in 1..2 : <<d, i>> \in CallRecords' <=> <<d, i>> \in CallRecords
  OBVIOUS
<1>1. /\ pc'[d] = pc[d] /\ attempt'[d] = attempt[d] /\ response'[d] = response[d]
      /\ records'[d] = records[d] /\ answer'[d] = answer[d]
  BY DEF Others
<1>2. d \in NotSent' <=> d \in NotSent
  BY <1>1 DEF NotSent, HandlersKeepBooks
<1>3. \A i \in 1..2 : <<d, i>> \in CallRecords' <=> <<d, i>> \in CallRecords
  BY <1>1 DEF CallRecords
<1>4. QED BY <1>1, <1>2, <1>3 DEF Flying, Sent, CountedTwice

(* A step that leaves the actor's own call where it was counted leaves the   *)
(* counts as they are.                                                       *)
LEMMA NothingCounted ==
  ASSUME NEW c \in Calls,
         \A d \in Calls \ {c} :
           /\ d \in Flying' <=> d \in Flying
           /\ d \in Sent' <=> d \in Sent
           /\ d \in CountedTwice' <=> d \in CountedTwice
           /\ d \in NotSent' <=> d \in NotSent
           /\ \A i \in 1..2 : <<d, i>> \in CallRecords' <=> <<d, i>> \in CallRecords
  PROVE  /\ Flying' \ {c} = Flying \ {c} /\ Sent' \ {c} = Sent \ {c}
         /\ CountedTwice' \ {c} = CountedTwice \ {c} /\ NotSent' \ {c} = NotSent \ {c}
         /\ CallRecords' \ {<<c, 1>>, <<c, 2>>} = CallRecords \ {<<c, 1>>, <<c, 2>>}
<1>1. /\ Flying \subseteq Calls /\ Flying' \subseteq Calls /\ Sent \subseteq Calls /\ Sent' \subseteq Calls
      /\ CountedTwice \subseteq Calls /\ CountedTwice' \subseteq Calls
      /\ NotSent \subseteq Calls /\ NotSent' \subseteq Calls
  BY DEF Flying, Sent, CountedTwice, NotSent
<1>2. CallRecords \subseteq Calls \X (1..2) /\ CallRecords' \subseteq Calls \X (1..2)
  BY DEF CallRecords
<1>3. /\ Flying' \ {c} = Flying \ {c} /\ Sent' \ {c} = Sent \ {c}
      /\ CountedTwice' \ {c} = CountedTwice \ {c} /\ NotSent' \ {c} = NotSent \ {c}
  BY <1>1
<1>4. ASSUME NEW r \in Calls \X (1..2), r \notin {<<c, 1>>, <<c, 2>>}
      PROVE  r \in CallRecords' <=> r \in CallRecords
  <2>1. PICK d \in Calls, i \in 1..2 : r = <<d, i>>
    OBVIOUS
  <2>2. d # c
    BY <1>4, <2>1
  <2>3. QED BY <2>1, <2>2
<1>5. CallRecords' \ {<<c, 1>>, <<c, 2>>} = CallRecords \ {<<c, 1>>, <<c, 2>>}
  BY <1>2, <1>4
<1>6. QED BY <1>3, <1>5

(* reserve, commit and _record keep the counters: a call is reserved while   *)
(* it is upstream and committed once it is not, with one record.             *)
LEMMA NextCounted ==
  ASSUME TypeOK, HandlersKeepBooks, HandlersKeepBooks', SessionIsFinite, ReservationsAreFlights,
         TraceAgreesWithUsage, [Next]_vars
  PROVE  SessionIsFinite' /\ ReservationsAreFlights' /\ TraceAgreesWithUsage'
<1> DEFINE OK == IsFiniteSet(CallRecords)' /\ ReservationsAreFlights' /\ TraceAgreesWithUsage'
<1> SUFFICES OK
  <2>1. IsFiniteSet({c \in Calls : pc'[c] # "idle"})
    BY NextStartedIsFinite DEF SessionIsFinite
  <2>2. QED BY <2>1 DEF SessionIsFinite
<1>0. /\ IsFiniteSet(Flying) /\ IsFiniteSet(Sent) /\ IsFiniteSet(NotSent) /\ IsFiniteSet(CountedTwice)
      /\ IsFiniteSet(CallRecords)
      /\ Cardinality(Flying) \in Nat /\ Cardinality(Sent) \in Nat /\ Cardinality(NotSent) \in Nat
      /\ Cardinality(CountedTwice) \in Nat /\ Cardinality(CallRecords) \in Nat
  BY CountedIsFinite
<1>i. /\ open => reserved = Cardinality(Flying) + Cardinality(NotSent) - Cardinality(CountedTwice)
      /\ usage.model_calls = Cardinality(Sent) + Cardinality(CountedTwice)
      /\ open => usage.model_calls = Cardinality(CallRecords)
      /\ reserved \in Int /\ usage.model_calls \in Nat
  BY DEF ReservationsAreFlights, TraceAgreesWithUsage, Sent, TypeOK
<1>g. SUFFICES /\ IsFiniteSet(CallRecords)'
               /\ open' => reserved' = Cardinality(Flying)' + Cardinality(NotSent)' - Cardinality(CountedTwice)'
               /\ usage'.model_calls = Cardinality(Sent)' + Cardinality(CountedTwice)'
               /\ open' => usage'.model_calls = Cardinality(CallRecords)'
  BY DEF ReservationsAreFlights, TraceAgreesWithUsage, Sent
<1> DEFINE Goal == /\ IsFiniteSet(CallRecords)'
                   /\ open' => reserved' = Cardinality(Flying)' + Cardinality(NotSent)' - Cardinality(CountedTwice)'
                   /\ usage'.model_calls = Cardinality(Sent)' + Cardinality(CountedTwice)'
                   /\ open' => usage'.model_calls = Cardinality(CallRecords)'
<1>s. ASSUME NEW c \in Calls, Authenticate(c) \/ Unauthorized(c) \/ Respond(c) \/ Settle(c),
             \A d \in Calls \ {c} : future'[d] = future[d] \/ future[d].state = "pending"
      PROVE  /\ Flying' \ {c} = Flying \ {c} /\ Sent' \ {c} = Sent \ {c}
             /\ CountedTwice' \ {c} = CountedTwice \ {c} /\ NotSent' \ {c} = NotSent \ {c}
             /\ CallRecords' \ {<<c, 1>>, <<c, 2>>} = CallRecords \ {<<c, 1>>, <<c, 2>>}
  BY <1>s, OthersStep, CountedElsewhere, NothingCounted
<1>1. ASSUME NEW c \in Calls, Authenticate(c) \/ Unauthorized(c) \/ BodyUnreadable(c) \/ ServeCached(c)
             \/ Coalesce(c) \/ WaiterResumes(c) \/ RetryPost(c) \/ Refuse(c)
      PROVE  Goal
  <2>1. UNCHANGED <<open, usage, reserved>>
    BY <1>1 DEF Authenticate, Unauthorized, BodyUnreadable, ServeCached, Coalesce,
       WaiterResumes, RetryPost,
       Refuse, sessionVars
  <2>2. \A d \in Calls \ {c} : future'[d] = future[d] \/ future[d].state = "pending"
    BY <1>1, BeginAndFinishEffect DEF Authenticate, Unauthorized, BodyUnreadable,
       ServeCached, Coalesce,
       WaiterResumes, RetryPost, Refuse, cacheVars
  <2>3. (c \in Flying' <=> c \in Flying) /\ (c \in Sent' <=> c \in Sent)
    <3>1. CASE RetryPost(c)
      BY <3>1 DEF RetryPost, Flying, Sent
    <3>2. CASE ~RetryPost(c)
      <4>1. pc[c] \notin {"posted", "done"} /\ pc'[c] # "posted" /\ UNCHANGED attempt /\ attempt[c] = 0
        BY <1>1, <3>2, EndsEffect DEF TypeOK, PCs, HandlersKeepBooks, Authenticate,
           Unauthorized, BodyUnreadable,
           ServeCached, Coalesce, WaiterResumes, Refuse
      <4>2. QED BY <4>1 DEF Flying, Sent
    <3>3. QED BY <3>1, <3>2
  <2>4. c \in CountedTwice' <=> c \in CountedTwice
    <3>1. response'[c] = "none" /\ response[c] = "none"
      BY <1>1 DEF HandlersKeepBooks, Authenticate, Unauthorized, BodyUnreadable,
         ServeCached, Coalesce,
         WaiterResumes, RetryPost, Refuse
    <3>2. QED BY <3>1 DEF CountedTwice
  <2>10. records[c] = <<>>
    BY <1>1 DEF HandlersKeepBooks, Authenticate, Unauthorized, BodyUnreadable, ServeCached,
       Coalesce,
       WaiterResumes, RetryPost, Refuse
  <2>11. <<>> \o <<"replay">> = <<"replay">> /\ <<>> \o <<"refused">> = <<"refused">>
    OBVIOUS
  <2>5. /\ records'[c] = <<>> \/ records'[c] \in {<<"replay">>, <<"refused">>}
        /\ Refuse(c) /\ open => records'[c] = <<"refused">>
    <3>2. CASE Refuse(c)
      BY <2>10, <2>11, <3>2, RecordEffect DEF Refuse
    <3>1. CASE ~Refuse(c) /\ ~ServeCached(c) /\ ~WaiterResumes(c)
      <4>1. records' = records
        BY <1>1, <3>1 DEF Authenticate, Unauthorized, BodyUnreadable, Coalesce, RetryPost
      <4>2. QED BY <2>10, <4>1, <3>1
    <3>3. CASE ServeCached(c) \/ WaiterResumes(c)
      <4>1. Record(c, <<"replay">>) \/ records' = records
        BY <3>3 DEF ServeCached, WaiterResumes
      <4>2. ~Refuse(c)
        BY <3>3 DEF ServeCached, WaiterResumes, Refuse, Fresh
      <4>3. QED BY <2>10, <2>11, <4>1, <4>2, RecordEffect
    <3>4. QED BY <1>1, <3>1, <3>2, <3>3
  <2>6. open => (c \in NotSent' <=> c \in NotSent)
    <3>1. CASE Refuse(c)
      <4>1. future[c].state = "none" BY <3>1 DEF Refuse, HandlersKeepBooks
      <4>2. open => records'[c] # <<>> BY <2>5, <3>1
      <4>3. QED BY <4>1, <4>2 DEF NotSent
    <3>2. CASE ~Refuse(c)
      <4>1. /\ UNCHANGED future
            /\ (attempt[c] > 0 /\ attempt'[c] > 0) \/ future[c].state = "none"
        BY <1>1, <3>2 DEF HandlersKeepBooks, TypeOK, Authenticate, Unauthorized,
           BodyUnreadable, ServeCached,
           Coalesce, WaiterResumes, RetryPost, cacheVars
      <4>2. QED BY <4>1 DEF NotSent
    <3>3. QED BY <3>1, <3>2
  <2>7. <<c, 1>> \notin CallRecords /\ <<c, 2>> \notin CallRecords
        /\ <<c, 1>> \notin CallRecords' /\ <<c, 2>> \notin CallRecords'
    <3>1. \A r \in Seq(STRING) : r \in {<<>>, <<"replay">>, <<"refused">>} =>
            \A i \in 1..2 : i \in DOMAIN r => r[i] \notin {"forwarded", "failed"}
      OBVIOUS
    <3>2. \A i \in 1..2 : i \in DOMAIN records'[c] => records'[c][i] \notin {"forwarded", "failed"}
      BY <2>5, <3>1
    <3>3. \A i \in 1..2 : i \in DOMAIN records[c] => records[c][i] \notin {"forwarded", "failed"}
      BY <2>10, <3>1
    <3>4. QED BY <3>2, <3>3 DEF CallRecords
  <2>s. /\ Flying' \ {c} = Flying \ {c} /\ Sent' \ {c} = Sent \ {c}
        /\ CountedTwice' \ {c} = CountedTwice \ {c} /\ NotSent' \ {c} = NotSent \ {c}
        /\ CallRecords' \ {<<c, 1>>, <<c, 2>>} = CallRecords \ {<<c, 1>>, <<c, 2>>}
    <3>1. Authenticate(c) \/ Unauthorized(c) \/ Respond(c) \/ Settle(c)
      BY <1>1 DEF Respond, Settle
    <3>2. QED BY <1>s, <2>2, <3>1
  <2>8. /\ Flying' = Flying /\ Sent' = Sent /\ CountedTwice' = CountedTwice /\ CallRecords' = CallRecords
        /\ open => NotSent' = NotSent
    BY <2>s, <2>3, <2>4, <2>6, <2>7
  <2>9. QED BY <2>1, <2>8, <1>0, <1>i
<1>2. ASSUME NEW c \in Calls, Forward(c) PROVE Goal
  <2>1. /\ reserved' = reserved + 1 /\ UNCHANGED <<open, usage, records, answer, response>>
        /\ pc[c] = "reading" /\ pc'[c] = "posted" /\ attempt'[c] = 1
        /\ \A d \in Calls \ {c} : future'[d] = future[d]
    BY <1>2 DEF Forward, TypeOK
  <2>2. /\ c \notin Flying /\ c \in Flying' /\ c \notin Sent /\ c \notin Sent'
        /\ c \notin CountedTwice /\ c \notin CountedTwice' /\ c \notin NotSent /\ c \notin NotSent'
    BY <2>1 DEF Flying, Sent, CountedTwice, NotSent, HandlersKeepBooks
  <2>3. CallRecords' = CallRecords
    BY <2>1 DEF CallRecords
  <2>4. /\ Flying' = Flying \cup {c} /\ Sent' = Sent /\ CountedTwice' = CountedTwice /\ NotSent' = NotSent
    <3>1. /\ Flying' \ {c} = Flying \ {c} /\ Sent' \ {c} = Sent \ {c}
          /\ CountedTwice' \ {c} = CountedTwice \ {c} /\ NotSent' \ {c} = NotSent \ {c}
      BY <1>2, <1>s, <2>1 DEF Respond
    <3>2. QED BY <3>1, <2>2
  <2>5. Cardinality(Flying)' = Cardinality(Flying) + 1
    BY <2>2, <2>4, <1>0, CountAdded
  <2>6. QED BY <2>1, <2>3, <2>4, <2>5, <1>0, <1>i
<1>3. ASSUME NEW c \in Calls, RequestNotRetained(c) PROVE Goal
  <2>1. /\ reserved' = reserved + 1 /\ UNCHANGED <<open, usage, records, response, attempt>>
        /\ pc[c] = "reading" /\ pc'[c] = "done" /\ future'[c].state = "error"
        /\ \A d \in Calls \ {c} : future'[d] = future[d]
    BY <1>3, EndsEffect, BeginAndFinishEffect DEF RequestNotRetained
  <2>2. /\ c \notin Flying /\ c \notin Flying' /\ c \notin Sent /\ c \notin Sent'
        /\ c \notin CountedTwice /\ c \notin CountedTwice' /\ c \notin NotSent /\ c \in NotSent'
    BY <2>1 DEF Flying, Sent, CountedTwice, NotSent, HandlersKeepBooks
  <2>3. CallRecords' = CallRecords
    BY <2>1 DEF CallRecords
  <2>4. /\ Flying' = Flying /\ Sent' = Sent /\ CountedTwice' = CountedTwice /\ NotSent' = NotSent \cup {c}
    <3>1. /\ Flying' \ {c} = Flying \ {c} /\ Sent' \ {c} = Sent \ {c}
          /\ CountedTwice' \ {c} = CountedTwice \ {c} /\ NotSent' \ {c} = NotSent \ {c}
      BY <1>3, <1>s, <2>1 DEF Respond
    <3>2. QED BY <3>1, <2>2
  <2>5. Cardinality(NotSent)' = Cardinality(NotSent) + 1
    BY <2>2, <2>4, <1>0, CountAdded
  <2>6. QED BY <2>1, <2>3, <2>4, <2>5, <1>0, <1>i
<1>4. ASSUME NEW c \in Calls, ForwardFails(c) \/ Complete(c) PROVE Goal
  <2>1. PICK tokens, disposition : /\ Commit(1, tokens) /\ Record(c, <<disposition>>)
                                   /\ disposition \in {"forwarded", "failed"}
    <3>1. CASE ForwardFails(c) BY <3>1 DEF ForwardFails
    <3>2. CASE Complete(c)
      <4>1. PICK a \in AnswersTo(c) : \E tokens \in TokensOf(a) : Commit(1, tokens) /\ Record(c, <<Disposition(a)>>)
        BY <3>2 DEF Complete
      <4>2. Disposition(a) \in {"forwarded", "failed"} BY DEF Disposition
      <4>3. QED BY <4>1, <4>2
    <3>3. QED BY <1>4, <3>1, <3>2
  <2>2. /\ reserved' = reserved - 1 /\ usage'.model_calls = usage.model_calls + 1 /\ open' = open
        /\ pc[c] = "posted" /\ pc'[c] = "done" /\ attempt' = attempt
        /\ response'[c] = "none" \/ answer'[c] # "error"
    <3>1. reserved' = reserved - 1 /\ usage'.model_calls = usage.model_calls + 1
      BY <2>1 DEF Commit, CommittedUsage
    <3>2. /\ open' = open /\ pc[c] = "posted" /\ attempt' = attempt
          /\ (Ends(c, "error") /\ response' = response) \/ Ends(c, "response")
      BY <1>4 DEF ForwardFails, Complete
    <3>3. QED BY <3>1, <3>2, EndsEffect DEF HandlersKeepBooks
  <2>3. \A d \in Calls \ {c} : future'[d] = future[d] \/ future[d].state = "pending"
    BY <1>4, PostedFinishes, FinishEffect
  <2>4. /\ c \in Flying /\ c \notin Flying' /\ c \notin Sent /\ c \in Sent'
        /\ c \notin CountedTwice /\ c \notin CountedTwice' /\ c \notin NotSent /\ c \notin NotSent'
    BY <2>2 DEF Flying, Sent, CountedTwice, NotSent, HandlersKeepBooks
  <2>5. /\ Flying' = Flying \ {c} /\ Sent' = Sent \cup {c} /\ CountedTwice' = CountedTwice /\ NotSent' = NotSent
    <3>1. /\ Flying' \ {c} = Flying \ {c} /\ Sent' \ {c} = Sent \ {c}
          /\ CountedTwice' \ {c} = CountedTwice \ {c} /\ NotSent' \ {c} = NotSent \ {c}
      BY <1>4, <1>s, <2>3 DEF Settle
    <3>2. QED BY <3>1, <2>4
  <2>6. Cardinality(Flying)' = Cardinality(Flying) - 1 /\ Cardinality(Sent)' = Cardinality(Sent) + 1
    BY <2>4, <2>5, <1>0, CountAdded, CountRemoved
  <2>7. /\ IsFiniteSet(CallRecords)'
        /\ open => Cardinality(CallRecords)' = Cardinality(CallRecords) + 1
    <3>1. records[c] = <<>> /\ <<>> \o <<disposition>> = <<disposition>>
      BY <2>2 DEF HandlersKeepBooks
    <3>2. records'[c] = IF open THEN <<disposition>> ELSE <<>>
      BY <2>1, <3>1, RecordEffect
    <3>3. <<c, 1>> \notin CallRecords /\ <<c, 2>> \notin CallRecords /\ <<c, 2>> \notin CallRecords'
          /\ (<<c, 1>> \in CallRecords' <=> open)
      <4>1. <<c, 1>> \notin CallRecords /\ <<c, 2>> \notin CallRecords
        BY <3>1 DEF CallRecords
      <4>2. CASE open
        <5>1. records'[c] = <<disposition>> /\ DOMAIN <<disposition>> = {1} /\ <<disposition>>[1] = disposition
          BY <3>2, <4>2
        <5>2. DOMAIN records'[c] = {1} /\ records'[c][1] = disposition
          BY <5>1
        <5>3. <<c, 1>> \in CallRecords' /\ <<c, 2>> \notin CallRecords'
          BY <5>2, <2>1 DEF CallRecords
        <5>4. QED BY <4>1, <4>2, <5>3
      <4>3. CASE ~open
        BY <3>2, <4>1, <4>3 DEF CallRecords
      <4>4. QED BY <4>2, <4>3
    <3>4. CallRecords' = IF open THEN CallRecords \cup {<<c, 1>>} ELSE CallRecords
      <4>1. CallRecords' \ {<<c, 1>>, <<c, 2>>} = CallRecords \ {<<c, 1>>, <<c, 2>>}
        BY <1>4, <1>s, <2>3 DEF Settle
      <4>2. QED BY <3>3, <4>1
    <3>5. QED BY <3>3, <3>4, <1>0, CountAdded
  <2>8. QED BY <2>2, <2>5, <2>6, <2>7, <1>0, <1>i
<1>5. ASSUME NEW c \in Calls, StreamNotRetained(c) PROVE Goal
  <2>1. PICK a \in Answers : \E tokens :
          /\ response' = [response EXCEPT ![c] = a]
          /\ Commit(2, tokens) /\ Record(c, <<Disposition(a), "failed">>)
    BY <1>5 DEF StreamNotRetained
  <2>2. /\ reserved' = reserved - 2 /\ usage'.model_calls = usage.model_calls + 2 /\ open' = open
        /\ pc[c] = "posted" /\ pc'[c] = "done" /\ attempt' = attempt
        /\ response'[c] # "none" /\ answer'[c] = "error"
    BY <1>5, <2>1, EndsEffect DEF StreamNotRetained, Commit, CommittedUsage, TypeOK, Answers
  <2>3. \A d \in Calls \ {c} : future'[d] = future[d] \/ future[d].state = "pending"
    BY <1>5, PostedFinishes, FinishEffect
  <2>4. /\ c \in Flying /\ c \notin Flying' /\ c \notin Sent /\ c \in Sent'
        /\ c \notin CountedTwice /\ c \in CountedTwice' /\ c \notin NotSent /\ c \notin NotSent'
    BY <2>2 DEF Flying, Sent, CountedTwice, NotSent, HandlersKeepBooks
  <2>5. /\ Flying' = Flying \ {c} /\ Sent' = Sent \cup {c} /\ CountedTwice' = CountedTwice \cup {c}
        /\ NotSent' = NotSent
    <3>1. /\ Flying' \ {c} = Flying \ {c} /\ Sent' \ {c} = Sent \ {c}
          /\ CountedTwice' \ {c} = CountedTwice \ {c} /\ NotSent' \ {c} = NotSent \ {c}
      BY <1>5, <1>s, <2>3 DEF Settle
    <3>2. QED BY <3>1, <2>4
  <2>6. /\ Cardinality(Flying)' = Cardinality(Flying) - 1 /\ Cardinality(Sent)' = Cardinality(Sent) + 1
        /\ Cardinality(CountedTwice)' = Cardinality(CountedTwice) + 1
    BY <2>4, <2>5, <1>0, CountAdded, CountRemoved
  <2>7. /\ IsFiniteSet(CallRecords)'
        /\ open => Cardinality(CallRecords)' = Cardinality(CallRecords) + 2
    <3>1. /\ records[c] = <<>> /\ <<>> \o <<Disposition(a), "failed">> = <<Disposition(a), "failed">>
          /\ Disposition(a) \in {"forwarded", "failed"}
      BY <2>2 DEF HandlersKeepBooks, Disposition
    <3>2. records'[c] = IF open THEN <<Disposition(a), "failed">> ELSE <<>>
      BY <2>1, <3>1, RecordEffect
    <3>3. <<c, 1>> \notin CallRecords /\ <<c, 2>> \notin CallRecords
          /\ (<<c, 1>> \in CallRecords' <=> open) /\ (<<c, 2>> \in CallRecords' <=> open)
      BY <3>1, <3>2 DEF CallRecords
    <3>4. CallRecords' = IF open THEN (CallRecords \cup {<<c, 1>>}) \cup {<<c, 2>>} ELSE CallRecords
      <4>1. CallRecords' \ {<<c, 1>>, <<c, 2>>} = CallRecords \ {<<c, 1>>, <<c, 2>>}
        BY <1>5, <1>s, <2>3 DEF Settle
      <4>2. QED BY <3>3, <4>1
    <3>5. <<c, 2>> \notin CallRecords \cup {<<c, 1>>}
      BY <3>3
    <3>6. /\ IsFiniteSet(CallRecords \cup {<<c, 1>>})
          /\ Cardinality(CallRecords \cup {<<c, 1>>}) = Cardinality(CallRecords) + 1
      BY <3>3, <1>0, CountAdded
    <3>7. /\ IsFiniteSet((CallRecords \cup {<<c, 1>>}) \cup {<<c, 2>>})
          /\ Cardinality((CallRecords \cup {<<c, 1>>}) \cup {<<c, 2>>}) = Cardinality(CallRecords) + 2
      <4> DEFINE S == CallRecords \cup {<<c, 1>>}
      <4>1. IsFiniteSet(S) /\ <<c, 2>> \notin S /\ Cardinality(S) = Cardinality(CallRecords) + 1
        BY <3>5, <3>6
      <4> HIDE DEF S
      <4>2. IsFiniteSet(S \cup {<<c, 2>>}) /\ Cardinality(S \cup {<<c, 2>>}) = Cardinality(S) + 1
        BY <4>1, CountAdded
      <4>3. QED BY <4>1, <4>2, <1>0 DEF S
    <3>8. QED BY <3>4, <3>7, <1>0
  <2>8. QED BY <2>2, <2>5, <2>6, <2>7, <1>0, <1>i
<1>6. CASE CloseSession \/ UNCHANGED vars
  <2>1. /\ UNCHANGED <<usage, reserved, future, pc, attempt, response, records, answer>>
        /\ open' => open
    BY <1>6 DEF CloseSession, vars, sessionVars, cacheVars, callVars
  <2>2. Flying' = Flying /\ Sent' = Sent /\ CountedTwice' = CountedTwice /\ NotSent' = NotSent
    BY <2>1 DEF Flying, Sent, CountedTwice, NotSent
  <2>3. CallRecords' = CallRecords
    BY <2>1 DEF CallRecords
  <2>4. QED BY <2>1, <2>2, <2>3, <1>0, <1>i
<1>7. QED BY <1>1, <1>2, <1>3, <1>4, <1>5, <1>6 DEF Next, Respond, Settle

(* Before the first request every counter is zero.                           *)
LEMMA InitBooks == Init => BooksInvariant
<1> SUFFICES ASSUME Init PROVE BooksInvariant
  OBVIOUS
<1>1. HandlersKeepBooks
  BY DEF Init, HandlersKeepBooks
<1>2. RepliesAreKeyed /\ ReplaysAreFaithful
  BY DEF Init, RepliesAreKeyed, ReplaysAreFaithful
<1>3. /\ Flying = {} /\ Sent = {} /\ NotSent = {} /\ CountedTwice = {} /\ CallRecords = {}
      /\ {c \in Calls : pc[c] # "idle"} = {}
  BY DEF Init, Flying, Sent, NotSent, CountedTwice, CallRecords
<1>4. SessionIsFinite
  BY <1>3, FS_EmptySet DEF SessionIsFinite
<1>5. ReservationsAreFlights /\ TraceAgreesWithUsage
  <2>1. /\ Cardinality(Flying) = 0 /\ Cardinality(Sent) = 0 /\ Cardinality(NotSent) = 0
        /\ Cardinality(CountedTwice) = 0 /\ Cardinality(CallRecords) = 0
    BY <1>3, FS_EmptySet
  <2>2. usage.model_calls = 0 /\ reserved = 0
    BY DEF Init
  <2>3. QED BY <2>1, <2>2 DEF ReservationsAreFlights, TraceAgreesWithUsage, Sent
<1>6. QED BY <1>1, <1>2, <1>4, <1>5 DEF BooksInvariant

(* The counters, the trace, the cache and the futures agree at every step.   *)
THEOREM BooksInvariantHolds == Spec => []BooksInvariant
<1>1. SessionInvariant /\ BooksInvariant /\ [Next]_vars => BooksInvariant'
  <2> SUFFICES ASSUME SessionInvariant, BooksInvariant, [Next]_vars PROVE BooksInvariant'
    OBVIOUS
  <2>1. TypeOK BY DEF SessionInvariant
  <2>2. HandlersKeepBooks' BY <2>1, NextHandlersKeepBooks DEF BooksInvariant
  <2>3. RepliesAreKeyed' /\ ReplaysAreFaithful' BY <2>1, NextRepliesAreKeyed DEF BooksInvariant
  <2>4. SessionIsFinite' /\ ReservationsAreFlights' /\ TraceAgreesWithUsage'
    BY <2>1, <2>2, NextCounted DEF BooksInvariant
  <2>5. QED BY <2>2, <2>3, <2>4 DEF BooksInvariant
<1>2. QED BY <1>1, InitBooks, SessionInvariantHolds, PTL DEF Spec

(* A reservation is held exactly while its call is upstream and becomes one  *)
(* committed call, except where a debug copy fails (reserve, _forward).      *)
THEOREM ReservationsAreFlightsHolds == Spec => []ReservationsAreFlights
<1>1. BooksInvariant => ReservationsAreFlights
  BY DEF BooksInvariant
<1>2. QED BY <1>1, BooksInvariantHolds, PTL

(* As long as the trace is attached it has one `call` record of every        *)
(* committed call (_record, _account, commit).                               *)
THEOREM TraceAgreesWithUsageHolds == Spec => []TraceAgreesWithUsage
<1>1. BooksInvariant => TraceAgreesWithUsage
  BY DEF BooksInvariant
<1>2. QED BY <1>1, BooksInvariantHolds, PTL

(* A replay hands out what a call of the same digest was answered, through   *)
(* the cache and through the futures alike (begin, finish).                  *)
THEOREM ReplaysAreFaithfulHolds == Spec => []ReplaysAreFaithful
<1>1. BooksInvariant => ReplaysAreFaithful
  BY DEF BooksInvariant
<1>2. QED BY <1>1, BooksInvariantHolds, PTL
=============================================================================
