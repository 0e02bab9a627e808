------------------------ MODULE SubscriptionRefresh -------------------------
(***************************************************************************)
(* The subscription credential of several Gateways that share one login    *)
(* profile (subscription.py): requests that find the access token about to *)
(* expire, or are answered 401, refresh it under an asyncio lock of their  *)
(* process and a file lock of the profile.  The provider exchanges a       *)
(* refresh token once and gives out the next one.                          *)
(*                                                                         *)
(* The tokens are numbered by the exchange that issued them, and a profile *)
(* is the number of the tokens in it.                                      *)
(***************************************************************************)
EXTENDS Integers

CONSTANTS
  Requests,    \* 1..n, the Gateway requests that need a token
  ProcessOf,   \* the process of each
  MaxExchange  \* bound: exchanges the provider makes

ASSUME RefreshAssumption ==
  /\ Requests \subseteq Nat \ {0}
  /\ MaxExchange \in Nat

Processes == {ProcessOf[r] : r \in Requests}
Nobody    == 0

VARIABLES
  want,      \* per request: the await it is in
  stale,     \* per request: the token it found wanting
  payload,   \* per request: the profile it read, then the one it writes
  token,     \* per process: the token in memory
  expired,   \* tokens up to this one expire within the window
  taskLock,  \* per process: the request that holds _refresh_lock
  fileLock,  \* the request that holds the flock
  profile,   \* the tokens in the file
  newest,    \* the tokens the provider issued last
  reused,    \* the provider was sent a token it had exchanged before
  disturbed  \* an answer was lost, a write failed or was abandoned

refreshVars == <<want, stale, payload, token, expired, taskLock, fileLock,
                 profile, newest, reused, disturbed>>

RefreshInit ==
  /\ want = [r \in Requests |-> "idle"]
  /\ stale = [r \in Requests |-> 0]
  /\ payload = [r \in Requests |-> 0]
  /\ token = [p \in Processes |-> 1]
  /\ expired = 0
  /\ taskLock = [p \in Processes |-> Nobody]
  /\ fileLock = Nobody
  /\ profile = 1 /\ newest = 1
  /\ reused = FALSE /\ disturbed = FALSE

Mine(r)   == token[ProcessOf[r]]
Await(r, from, to) == want[r] = from /\ want' = [want EXCEPT ![r] = to]
Forget(f, r) == f' = [f EXCEPT ![r] = 0]

(* Somebody else has refreshed it meanwhile. *)
Renewed(r, t) == t # stale[r] /\ t > expired

-----------------------------------------------------------------------------
(* headers() finds the token near its end, or the provider answered 401. *)
NeedsToken(r) ==
  /\ Await(r, "idle", "task_lock")
  /\ stale' = [stale EXCEPT ![r] = Mine(r)]
  /\ UNCHANGED <<payload, token, expired, taskLock, fileLock, profile, newest, reused, disturbed>>

EnterLock(r) ==
  /\ taskLock[ProcessOf[r]] = Nobody
  /\ IF Renewed(r, Mine(r))
     THEN Await(r, "task_lock", "idle") /\ UNCHANGED taskLock /\ Forget(stale, r)
     ELSE /\ Await(r, "task_lock", "file_lock")
          /\ taskLock' = [taskLock EXCEPT ![ProcessOf[r]] = r]
          /\ UNCHANGED stale
  /\ UNCHANGED <<payload, token, expired, fileLock, profile, newest, reused, disturbed>>

LockProfile(r) ==
  /\ fileLock = Nobody
  /\ Await(r, "file_lock", "locked")
  /\ fileLock' = r
  /\ UNCHANGED <<stale, payload, token, expired, taskLock, profile, newest, reused, disturbed>>

(* Mutant: the refresh token in memory is exchanged. *)
TokenInMemory(r) == Mine(r)

ReadProfile(r) == profile

(* The profile another process may have renewed is taken over; it is        *)
(* exchanged only if that is not enough.                                    *)
TakeOver(r) ==
  /\ want[r] = "locked"
  /\ payload' = [payload EXCEPT ![r] = ReadProfile(r)]
  /\ token' = [token EXCEPT ![ProcessOf[r]] = profile]
  /\ want' = [want EXCEPT ![r] = IF Renewed(r, profile) THEN "unlock" ELSE "exchange"]
  /\ UNCHANGED <<stale, expired, taskLock, fileLock, profile, newest, reused, disturbed>>

(* The provider serves the request; its answer may be lost. *)
Exchange(r) ==
  /\ want[r] = "exchange" /\ newest < MaxExchange
  /\ IF payload[r] = newest
     THEN /\ newest' = newest + 1
          /\ UNCHANGED reused
          /\ \/ /\ want' = [want EXCEPT ![r] = "write"]
                /\ payload' = [payload EXCEPT ![r] = newest + 1]
                /\ UNCHANGED disturbed
             \/ /\ want' = [want EXCEPT ![r] = "unlock"]
                /\ disturbed' = TRUE
                /\ UNCHANGED payload
     ELSE /\ reused' = TRUE
          /\ want' = [want EXCEPT ![r] = "unlock"]
          /\ UNCHANGED <<newest, payload, disturbed>>
  /\ UNCHANGED <<stale, token, expired, taskLock, fileLock, profile>>

(* It never reached the provider, or the provider would not. *)
NoExchange(r) ==
  /\ Await(r, "exchange", "unlock")
  /\ UNCHANGED <<stale, payload, token, expired, taskLock, fileLock, profile, newest, reused, disturbed>>

(* _atomic_write and _apply, ... *)
WriteProfile(r) ==
  /\ Await(r, "write", "unlock")
  /\ profile' = payload[r]
  /\ token' = [token EXCEPT ![ProcessOf[r]] = payload[r]]
  /\ UNCHANGED <<stale, payload, expired, taskLock, fileLock, newest, reused, disturbed>>

(* ... or an error, which only costs this refresh its success. *)
WriteFails(r) ==
  /\ Await(r, "write", "unlock")
  /\ disturbed' = TRUE
  /\ UNCHANGED <<stale, payload, token, expired, taskLock, fileLock, profile, newest, reused>>

(* A cancelled request leaves its thread to write while it unlocks. *)
AbandonWrite(r) ==
  /\ Await(r, "write", "unlock_writing")
  /\ disturbed' = TRUE
  /\ UNCHANGED <<stale, payload, token, expired, taskLock, fileLock, profile, newest, reused>>

Unlock(r) ==
  /\ \/ Await(r, "unlock", "idle")
     \/ Await(r, "unlock_writing", "writing")
  /\ fileLock' = Nobody
  /\ taskLock' = [taskLock EXCEPT ![ProcessOf[r]] = Nobody]
  /\ Forget(stale, r)
  /\ IF want[r] = "unlock" THEN Forget(payload, r) ELSE UNCHANGED payload
  /\ UNCHANGED <<token, expired, profile, newest, reused, disturbed>>

ThreadWrites(r) ==
  /\ \/ Await(r, "unlock_writing", "unlock")
     \/ Await(r, "writing", "idle")
  /\ profile' = payload[r]
  /\ Forget(payload, r)
  /\ UNCHANGED <<stale, token, expired, taskLock, fileLock, newest, reused, disturbed>>

(* The process of a request is killed: its locks are gone, its file is not. *)
KillProcess(p) ==
  /\ want' = [r \in Requests |-> IF ProcessOf[r] = p THEN "idle" ELSE want[r]]
  /\ disturbed' = (disturbed \/ \E r \in Requests : ProcessOf[r] = p /\ want[r] = "write")
  /\ taskLock' = [taskLock EXCEPT ![p] = Nobody]
  /\ fileLock' = IF fileLock # Nobody /\ ProcessOf[fileLock] = p THEN Nobody ELSE fileLock
  /\ token' = [token EXCEPT ![p] = profile]
  /\ stale' = [r \in Requests |-> IF ProcessOf[r] = p THEN 0 ELSE stale[r]]
  /\ payload' = [r \in Requests |-> IF ProcessOf[r] = p THEN 0 ELSE payload[r]]
  /\ UNCHANGED <<expired, profile, newest, reused>>

Expire ==
  /\ expired < newest /\ newest < MaxExchange
  /\ expired' = expired + 1
  /\ UNCHANGED <<want, stale, payload, token, taskLock, fileLock, profile, newest, reused, disturbed>>

RefreshNext ==
  \/ \E r \in Requests :
       \/ NeedsToken(r) \/ EnterLock(r) \/ LockProfile(r) \/ TakeOver(r) \/ Exchange(r)
       \/ NoExchange(r) \/ WriteProfile(r) \/ WriteFails(r) \/ AbandonWrite(r) \/ Unlock(r)
       \/ ThreadWrites(r)
  \/ \E p \in Processes : KillProcess(p)
  \/ Expire

RefreshSpec == RefreshInit /\ [][RefreshNext]_refreshVars

-----------------------------------------------------------------------------
(* What the states that can be reached have in common: the parts of the     *)
(* inductive invariant.                                                     *)

HoldsProfile == {"locked", "exchange", "write", "unlock", "unlock_writing"}

RefreshTypeOK ==
  /\ want \in [Requests -> {"idle", "task_lock", "file_lock", "writing"} \cup HoldsProfile]
  /\ stale \in [Requests -> Nat] /\ payload \in [Requests -> Nat]
  /\ token \in [Processes -> Nat]
  /\ taskLock \in [Processes -> Requests \cup {Nobody}]
  /\ fileLock \in Requests \cup {Nobody}
  /\ expired \in Nat /\ profile \in Nat /\ newest \in Nat
  /\ reused \in BOOLEAN /\ disturbed \in BOOLEAN

(* The lock of the file is held from LockProfile to Unlock. *)
ProfileLocked == \A r \in Requests : fileLock = r <=> want[r] \in HoldsProfile

(* The profile has the tokens issued last, or the one request that writes    *)
(* has them in hand; what is exchanged was read from it under this lock.     *)
NewestIsKept ==
  ~disturbed =>
    /\ ~reused
    /\ \A r \in Requests :
         /\ want[r] \notin {"unlock_writing", "writing"}
         /\ want[r] = "exchange" => payload[r] = profile
         /\ want[r] = "write" => payload[r] = newest
    /\ (\A r \in Requests : want[r] # "write") => profile = newest

RefreshInvariant == RefreshTypeOK /\ ProfileLocked /\ NewestIsKept

-----------------------------------------------------------------------------
(* The login survives any number of processes that refresh it: no refresh   *)
(* token is sent twice, and the profile that the next one reads under the   *)
(* lock holds the tokens issued last.  Only a lost answer, a failed or      *)
(* abandoned write, or a kill between the two breaks it.                    *)
LoginSurvives ==
  ~disturbed => ~reused /\ (fileLock = Nobody => profile = newest)
=============================================================================
