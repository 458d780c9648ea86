----------------------------- MODULE AzureRest -----------------------------
(***************************************************************************)
(* azure-arm-rest-v2: one request of a caller, with the token that all     *)
(* callers of the task share, its retries, and a token that has expired.   *)
(***************************************************************************)
EXTENDS AzureServer

CONSTANTS
  RetryCount    \* retryCount of webClient (5)

ASSUME RetryAssumption == RetryCount \in Nat \ {0}

VARIABLES
  accessToken,  \* the endpoint has provided a token
  cached,       \* token_deferred
  fetcher,      \* the caller that has begun the fetch, while it is pending
  pc,           \* where the caller is
  asked,        \* the caller whose fetch it awaits
  bearer,       \* the token in its request
  attempts,     \* sendRequest's i
  renewed       \* it has refreshed the token

tokenVars == <<accessToken, cached, fetcher>>
requestVars == <<pc, asked, bearer, attempts, renewed, wants, reply>>

(* Tokens are epochs; a promise may also be absent, pending or rejected.   *)
NoToken == -4
Pending == -3
TimedOut == -2
Rejected == -1

At(a, label) == pc[a] = label
To(a, label) == pc' = [pc EXCEPT ![a] = label]

Return(a, answer) ==
  /\ To(a, "answered")
  /\ reply' = [reply EXCEPT ![a] = answer]
  /\ bearer' = [bearer EXCEPT ![a] = NoToken]
  /\ attempts' = [attempts EXCEPT ![a] = 0]
  /\ renewed' = [renewed EXCEPT ![a] = FALSE]
  /\ UNCHANGED <<asked, wants>>

(* The caller begins a request.                                            *)
Begin(callers, what) ==
  /\ pc' = [a \in Caller |-> IF a \in callers THEN "begin" ELSE pc[a]]
  /\ wants' = [a \in Caller |-> IF a \in callers THEN what ELSE wants[a]]
  /\ reply' = [a \in Caller |-> IF a \in callers THEN "none" ELSE reply[a]]
  /\ UNCHANGED <<asked, bearer, attempts, renewed>>

-----------------------------------------------------------------------------
(* ApplicationTokenCredentials.getToken                                    *)

Use(a, token) ==
  /\ bearer' = [bearer EXCEPT ![a] = token]
  /\ To(a, "send")
  /\ UNCHANGED <<asked, cached, fetcher>>

Await(a, b) ==
  /\ asked' = [asked EXCEPT ![a] = b]
  /\ To(a, "token")
  /\ UNCHANGED bearer

Fetch(a) ==
  /\ cached' = Pending /\ fetcher' = a
  /\ Await(a, a)

GetToken(a) ==
  /\ At(a, "begin")
  /\ IF accessToken THEN Use(a, 0)
     ELSE IF cached = NoToken THEN Fetch(a)
     ELSE IF cached = Pending THEN Await(a, fetcher) /\ UNCHANGED <<cached, fetcher>>
     ELSE Use(a, cached)
  /\ UNCHANGED <<accessToken, attempts, renewed, wants, reply, serverVars>>

(* A fetch ends, for all who await it.                                     *)
Settle(a) ==
  /\ At(a, "token") /\ asked[a] = a
  /\ \E token \in {epoch, TimedOut, Rejected} :
       /\ IF token = epoch THEN NoFault ELSE Fault
       /\ LET waiting == {b \in Caller : At(b, "token") /\ asked[b] = a} IN
            /\ pc' = [b \in Caller |-> IF b \in waiting THEN "send" ELSE pc[b]]
            /\ bearer' = [b \in Caller |-> IF b \in waiting THEN token ELSE bearer[b]]
            /\ asked' = [b \in Caller |-> IF b \in waiting THEN b ELSE asked[b]]
       /\ IF fetcher = a THEN cached' = token /\ fetcher' = Lister
          ELSE UNCHANGED <<cached, fetcher>>
  /\ UNCHANGED <<accessToken, attempts, renewed, wants, reply, op>>

(* An answer without a body throws where nobody catches: it never ends.    *)
LoseFetch(a) ==
  /\ At(a, "token") /\ asked[a] = a
  /\ Fault
  /\ To(a, "lost")
  /\ UNCHANGED <<tokenVars, asked, bearer, attempts, renewed, wants, reply, op>>

-----------------------------------------------------------------------------
(* AzureServiceClientBase.beginRequest, webClient.sendRequest              *)

HasToken(a) == At(a, "send") /\ bearer[a] >= 0

(* The promise of the token was rejected.                                  *)
NoRequest(a) ==
  /\ At(a, "send") /\ bearer[a] < 0
  /\ Return(a, IF bearer[a] = TimedOut THEN "timeout" ELSE "refused")
  /\ UNCHANGED <<tokenVars, serverVars>>

(* Mutant: the token is not fetched again. *)
RenewCached(a) ==
  /\ IF cached = Pending THEN Await(a, fetcher) /\ UNCHANGED <<cached, fetcher>>
     ELSE Use(a, IF accessToken THEN 0 ELSE cached)
  /\ UNCHANGED <<wants, reply>>

Renew(a) ==
  /\ Fetch(a)
  /\ UNCHANGED <<wants, reply>>

(* An expired token is refreshed once.                                     *)
Unauthorized(a) ==
  /\ HasToken(a) /\ bearer[a] # epoch
  /\ IF renewed[a] THEN Return(a, "refused") /\ UNCHANGED tokenVars
     ELSE /\ renewed' = [renewed EXCEPT ![a] = TRUE]
          /\ attempts' = [attempts EXCEPT ![a] = 0]
          /\ Renew(a)
          /\ UNCHANGED accessToken
  /\ UNCHANGED serverVars

Answered(a) ==
  /\ HasToken(a) /\ bearer[a] = epoch
  /\ Execute(a)
  /\ Return(a, ReplyTo(a))
  /\ NoFault
  /\ UNCHANGED tokenVars

MayExecute(a) == UNCHANGED op \/ (bearer[a] = epoch /\ Execute(a))

(* Mutant: one attempt too many. *)
AgainLate(a) == attempts[a] < RetryCount

Again(a) == attempts[a] + 1 < RetryCount

(* A status or an error that is worth another attempt; the answer, or only *)
(* the way back, may be what has failed.  The last one is the caller's.     *)
Retry(a) ==
  /\ HasToken(a)
  /\ Fault /\ MayExecute(a)
  /\ IF Again(a)
     THEN /\ attempts' = [attempts EXCEPT ![a] = attempts[a] + 1]
          /\ UNCHANGED <<pc, asked, bearer, renewed, wants, reply>>
     ELSE Return(a, "refused")
  /\ UNCHANGED tokenVars

(* No other attempt is made: the request timed out, or the answer is of    *)
(* another kind, with or without a body.                                   *)
FailRequest(a) ==
  /\ HasToken(a)
  /\ Fault
  /\ \/ Return(a, "timeout") /\ MayExecute(a)
     \/ \E answer \in {"refused", "bodiless"} : Return(a, answer) /\ UNCHANGED op
  /\ UNCHANGED tokenVars

RequestStep(a) ==
  \/ GetToken(a) \/ Settle(a) \/ LoseFetch(a) \/ NoRequest(a) \/ Unauthorized(a)
  \/ Answered(a) \/ Retry(a) \/ FailRequest(a)

InitRest ==
  /\ accessToken \in BOOLEAN /\ cached = NoToken /\ fetcher = Lister
  /\ pc = [a \in Caller |-> IF a = Lister THEN "begin" ELSE "idle"]
  /\ wants = [a \in Caller |-> "page"]
  /\ asked = [a \in Caller |-> a]
  /\ bearer = [a \in Caller |-> NoToken]
  /\ attempts = [a \in Caller |-> 0]
  /\ renewed = [a \in Caller |-> FALSE]
  /\ reply = [a \in Caller |-> "none"]
=============================================================================
