-------------------------- MODULE AzureRestProofs --------------------------
(***************************************************************************)
(* Proofs about AzureVirtualMachine, for any machines, any number of       *)
(* faults and expiries, and any limits.                                    *)
(***************************************************************************)
EXTENDS AzureVirtualMachine, FiniteSetTheorems, TLAPS

TypeInv == ServerTypeOK /\ RestTypeOK /\ TaskTypeOK

(* A fetch that is awaited or cached is one that its caller still makes.    *)
Fetches(a) == pc[a] \in {"token", "lost"} /\ asked[a] = a
Fetching == cached = Pending => Fetches(fetcher)
Awaiting(a) == At(a, "token") => Fetches(asked[a])
Waiting == Fetching /\ \A a \in Caller : Awaiting(a)

(* Machines begin when the listing has ended, those that it has named.      *)
Started(v) == At(Lister, "done") /\ wants[v] # "page"

Listed(v) ==
  /\ pc[v] = "idle" \/ Started(v)
  /\ pc[v] = "idle" => reply[v] = "none" /\ wants[v] = "page"
  /\ v \notin listed => pc[v] \in {"idle", "done"} /\ reply[v] = "none"

Listing ==
  /\ At(Lister, "done") \/ (wants[Lister] = "page" /\ result = "none" /\ \A v \in VM : At(v, "idle"))
  /\ \A v \in VM : Listed(v)

(* Who is told of success, of the machine's operation, can rely on it.      *)
Succeeded(v) == At(v, "done") /\ reply[v] = "succeeded"

Replied(v) ==
  /\ reply[v] = "succeeded" =>
       wants[v] \in {"poll", "pollExtension"} /\ pc[v] \in {"answered", "done"}
  /\ reply[v] = "succeeded" /\ wants[v] = "poll" => op[v]["machine"] = "succeeded"
  /\ Succeeded(v) => wants[v] = "poll"

Replies == \A v \in VM : Replied(v)

(* The counters count machines.                                            *)
Good == {v \in listed : Succeeded(v)}
Bad == {v \in listed : At(v, "done") /\ reply[v] # "succeeded"}
Counts == successCount = Cardinality(Good) /\ failureCount = Cardinality(Bad)

(* The result comes last.                                                  *)
Verdict ==
  /\ result # "none" => At(Lister, "done") /\ \A v \in VM : pc[v] \in {"idle", "done"}
  /\ result = "succeeded" => \A v \in listed : Succeeded(v)

(* As long as nothing fails: what is true of tokens,                       *)
Before == {"begin", "token", "send"}

FreshToken(a) ==
  /\ At(a, "send") => bearer[a] \in 0..epoch
  /\ renewed[a] => /\ pc[a] \in {"token", "send"} /\ epoch = 1
                   /\ At(a, "send") => bearer[a] = 1

Tokens ==
  /\ epoch <= 1
  /\ cached \in {NoToken, Pending} \cup (0..epoch)
  /\ \A a \in Caller : FreshToken(a)

(* and of the operations on a machine, its own and its extension's.        *)
Untouched(v) ==
  \/ v \notin listed
  \/ wants[v] \in {"page", "deleteExtension", "pollExtension"}
  \/ wants[v] = "act" /\ pc[v] # "answered"

Still(v) ==
  \/ v \notin listed
  \/ wants[v] \in {"page", "act", "poll"}
  \/ wants[v] = "deleteExtension" /\ reply[v] # "accepted"

Active == {"running", "succeeded"}

Sound(v) ==
  /\ pc[v] # "lost"
  /\ Untouched(v) => op[v]["machine"] = "none"
  /\ ~Untouched(v) => op[v]["machine"] \in Active
  /\ Still(v) => op[v]["extension"] # "running"
  /\ ~Still(v) => op[v]["extension"] \in Active
  /\ pc[v] \in Before => reply[v] = "none"
  /\ At(v, "answered") /\ wants[v] = "deleteExtension" => reply[v] \in {"accepted", "gone"}
  /\ At(v, "answered") /\ wants[v] = "act" => reply[v] = "accepted"
  /\ At(v, "answered") /\ wants[v] \in {"pollExtension", "poll"} => reply[v] \in Active
  /\ reply[v] = "succeeded" /\ wants[v] = "pollExtension" => op[v]["extension"] = "succeeded"
  /\ At(v, "done") /\ v \in listed => reply[v] = "succeeded"

Clean ==
  /\ Tokens
  /\ pc[Lister] # "lost" /\ (At(Lister, "answered") => reply[Lister] = "page")
  /\ result # "failed"
  /\ \A v \in VM : Sound(v)

ExpiryInv == faults = 0 => Clean

IInv == TypeInv /\ Waiting /\ Listing /\ Replies /\ Counts /\ Verdict /\ ExpiryInv

-----------------------------------------------------------------------------
LEMMA Constants ==
  /\ Lister \in Caller /\ VM \subseteq Caller /\ \A a \in Caller : a # Lister => a \in VM
  /\ Lister \notin VM
  /\ "extension" \in Part /\ "machine" \in Part
  /\ RetryCount \in Nat /\ RetryCount > 0 /\ MaxFaults \in Nat /\ MaxEpoch \in Nat
  /\ IgnoreTimeoutErrorThreshold \in Nat /\ IsFiniteSet(VM)
BY AzureAssumption, RetryAssumption, PollAssumption DEF Caller, Part

LEMMA InitTypes == Init => TypeInv
<1> SUFFICES ASSUME Init PROVE TypeInv
  OBVIOUS
<1>1. ServerTypeOK
  BY Constants DEF Init, InitServer, ServerTypeOK, Part
<1>2. RestTypeOK
  BY Constants DEF Init, InitRest, RestTypeOK, NoToken, Pending, TimedOut, Rejected, Token, Label,
    Want, Answer
<1>3. TaskTypeOK
  BY Constants DEF Init, TaskTypeOK
<1>4. QED
  BY <1>1, <1>2, <1>3 DEF TypeInv

(* The type of a request, part of RestTypeOK. *)
CallTypes ==
  /\ pc \in [Caller -> Label] /\ asked \in [Caller -> Caller]
  /\ bearer \in [Caller -> Token] /\ renewed \in [Caller -> BOOLEAN]
  /\ attempts \in [Caller -> 0..(RetryCount - 1)]
  /\ wants \in [Caller -> Want] /\ reply \in [Caller -> Answer]

TokenTypes == accessToken \in BOOLEAN /\ cached \in Token /\ fetcher \in Caller

LEMMA RestTypes == RestTypeOK <=> CallTypes /\ TokenTypes
BY DEF RestTypeOK, CallTypes, TokenTypes

LEMMA ReplyCases ==
  ASSUME TypeInv, NEW a \in Caller
  PROVE  /\ wants[a] = "page" => ReplyTo(a) = "page"
         /\ wants[a] = "deleteExtension" =>
              ReplyTo(a) = IF Gone(a, "extension") THEN "gone" ELSE "accepted"
         /\ wants[a] = "act" => ReplyTo(a) = IF Gone(a, "machine") THEN "gone" ELSE "accepted"
         /\ wants[a] = "pollExtension" => ReplyTo(a) = op[a]["extension"]
         /\ wants[a] = "poll" => ReplyTo(a) = op[a]["machine"]
<1>1. ASSUME wants[a] = "page" PROVE ReplyTo(a) = "page"
  BY <1>1, Zenon DEF ReplyTo
<1>2. ASSUME wants[a] = "deleteExtension"
      PROVE  ReplyTo(a) = IF Gone(a, "extension") THEN "gone" ELSE "accepted"
  BY <1>2, Zenon DEF ReplyTo
<1>3. ASSUME wants[a] = "act"
      PROVE  ReplyTo(a) = IF Gone(a, "machine") THEN "gone" ELSE "accepted"
  BY <1>3, Zenon DEF ReplyTo
<1>4. ASSUME wants[a] = "pollExtension" PROVE ReplyTo(a) = op[a]["extension"]
  BY <1>4, Zenon DEF ReplyTo
<1>5. ASSUME wants[a] = "poll" PROVE ReplyTo(a) = op[a]["machine"]
  BY <1>5, Zenon DEF ReplyTo
<1>6. QED
  BY <1>1, <1>2, <1>3, <1>4, <1>5

LEMMA FaultTypes ==
  ASSUME TypeInv, Fault \/ NoFault
  PROVE  faults' \in 0..MaxFaults /\ epoch' \in 0..MaxEpoch /\ action' \in {"Start", "Delete"}
BY Constants DEF TypeInv, ServerTypeOK, Fault, NoFault

LEMMA ExecuteType ==
  ASSUME TypeInv, NEW a \in Caller, Execute(a) \/ UNCHANGED op
  PROVE  op' \in [VM -> [Part -> {"none", "running", "succeeded", "failed"}]]
<1>1. CASE UNCHANGED op
  BY <1>1 DEF TypeInv, ServerTypeOK
<1>2. CASE Execute(a)
  BY <1>2 DEF TypeInv, ServerTypeOK, Execute
<1>3. QED
  BY <1>1, <1>2

LEMMA ServerTypes ==
  ASSUME TypeInv, NEW a \in Caller, Execute(a) \/ UNCHANGED op, Fault \/ NoFault
  PROVE  ServerTypeOK'
BY ExecuteType, FaultTypes DEF ServerTypeOK

LEMMA ReturnTypes ==
  ASSUME TypeInv, NEW a \in Caller, NEW answer \in Answer, Return(a, answer)
  PROVE  CallTypes'
BY Constants DEF TypeInv, RestTypeOK, CallTypes, Return, To, Label, Token

LEMMA BeginTypes ==
  ASSUME TypeInv, NEW callers \in SUBSET Caller, NEW what \in Want, Begin(callers, what)
  PROVE  CallTypes'
BY DEF TypeInv, RestTypeOK, CallTypes, Begin, Label, Answer

LEMMA UseTypes ==
  ASSUME TypeInv, NEW a \in Caller, NEW token \in Token, Use(a, token),
         UNCHANGED <<attempts, renewed, wants, reply>>
  PROVE  CallTypes'
BY DEF TypeInv, RestTypeOK, CallTypes, Use, To, Label

LEMMA AwaitTypes ==
  ASSUME TypeInv, NEW a \in Caller, NEW b \in Caller, Await(a, b),
         UNCHANGED <<wants, reply>>,
         renewed' \in [Caller -> BOOLEAN], attempts' \in [Caller -> 0..(RetryCount - 1)]
  PROVE  CallTypes'
BY DEF TypeInv, RestTypeOK, CallTypes, Await, To, Label

LEMMA TokenValues == NoToken \in Token /\ Pending \in Token /\ 0 \in Token
BY Constants DEF Token

LEMMA GetTokenTypes ==
  ASSUME TypeInv, NEW a \in Caller, GetToken(a)
  PROVE  RestTypeOK' /\ ServerTypeOK'
<1>1. TokenTypes /\ CallTypes
  BY RestTypes DEF TypeInv
<1>2. ServerTypeOK'
  BY DEF GetToken, TypeInv, ServerTypeOK, serverVars
<1>3. CallTypes'
  <2>1. CASE accessToken
    BY <2>1, TokenValues, UseTypes DEF GetToken
  <2>2. CASE ~accessToken /\ cached \in {NoToken, Pending}
    <3>1. Await(a, a) \/ Await(a, fetcher)
      BY <2>2 DEF GetToken, Fetch, NoToken, Pending
    <3>2. UNCHANGED <<attempts, renewed, wants, reply>>
      BY DEF GetToken
    <3>3. renewed' \in [Caller -> BOOLEAN] /\ attempts' \in [Caller -> 0..(RetryCount - 1)]
      BY <3>2, <1>1 DEF CallTypes
    <3>4. QED
      BY <3>1, <3>2, <3>3, <1>1, AwaitTypes DEF TokenTypes
  <2>3. CASE ~accessToken /\ cached \notin {NoToken, Pending}
    BY <2>3, <1>1, UseTypes DEF GetToken, TokenTypes
  <2>4. QED
    BY <1>1, <2>1, <2>2, <2>3 DEF TokenTypes
<1>4. TokenTypes'
  BY <1>1, TokenValues DEF GetToken, TokenTypes, Use, Fetch
<1>5. QED
  BY <1>2, <1>3, <1>4, RestTypes DEF CallTypes, TokenTypes, RestTypeOK

LEMMA SettleTypes ==
  ASSUME TypeInv, NEW a \in Caller, Settle(a)
  PROVE  RestTypeOK' /\ ServerTypeOK'
<1>1. PICK token \in {epoch, TimedOut, Rejected} :
        /\ IF token = epoch THEN NoFault ELSE Fault
        /\ LET waiting == {b \in Caller : At(b, "token") /\ asked[b] = a} IN
             /\ pc' = [b \in Caller |-> IF b \in waiting THEN "send" ELSE pc[b]]
             /\ bearer' = [b \in Caller |-> IF b \in waiting THEN token ELSE bearer[b]]
             /\ asked' = [b \in Caller |-> IF b \in waiting THEN b ELSE asked[b]]
        /\ IF fetcher = a THEN cached' = token /\ fetcher' = Lister
           ELSE UNCHANGED <<cached, fetcher>>
  BY DEF Settle
<1>2. token \in Token
  BY DEF Token, TypeInv, ServerTypeOK
<1>3. ServerTypeOK'
  BY <1>1, ServerTypes DEF Settle
<1>4. RestTypeOK'
  BY <1>1, <1>2, Constants DEF Settle, TypeInv, RestTypeOK, Label
<1>5. QED
  BY <1>3, <1>4

LEMMA LoseFetchTypes ==
  ASSUME TypeInv, NEW a \in Caller, LoseFetch(a)
  PROVE  RestTypeOK' /\ ServerTypeOK'
<1>1. ServerTypeOK'
  BY ServerTypes DEF LoseFetch
<1>2. RestTypeOK'
  BY DEF LoseFetch, TypeInv, RestTypeOK, To, Label, tokenVars
<1>3. QED
  BY <1>1, <1>2

LEMMA NoRequestTypes ==
  ASSUME TypeInv, NEW a \in Caller, NoRequest(a)
  PROVE  RestTypeOK' /\ ServerTypeOK'
<1>1. "timeout" \in Answer /\ "refused" \in Answer
  BY DEF Answer
<1>2. CallTypes'
  BY <1>1, ReturnTypes DEF NoRequest
<1>3. QED
  BY <1>2, RestTypes DEF NoRequest, TypeInv, RestTypeOK, CallTypes, ServerTypeOK, tokenVars, serverVars

LEMMA UnauthorizedTypes ==
  ASSUME TypeInv, NEW a \in Caller, Unauthorized(a)
  PROVE  RestTypeOK' /\ ServerTypeOK'
<1>1. ServerTypeOK'
  BY DEF Unauthorized, TypeInv, ServerTypeOK, serverVars
<1>2. CASE renewed[a]
  <2>1. "refused" \in Answer
    BY DEF Answer
  <2>2. CallTypes'
    BY <1>2, <2>1, ReturnTypes DEF Unauthorized
  <2>3. QED
    BY <1>1, <1>2, <2>2 DEF Unauthorized, TypeInv, RestTypeOK, CallTypes, tokenVars
<1>3. CASE ~renewed[a]
  <2>1. Fetch(a) /\ UNCHANGED <<wants, reply, accessToken>>
    BY <1>3 DEF Unauthorized, Renew
  <2>2. renewed' \in [Caller -> BOOLEAN] /\ attempts' \in [Caller -> 0..(RetryCount - 1)]
    <3>1. /\ renewed' = [renewed EXCEPT ![a] = TRUE]
          /\ attempts' = [attempts EXCEPT ![a] = 0]
      BY <1>3 DEF Unauthorized
    <3>2. renewed \in [Caller -> BOOLEAN] /\ attempts \in [Caller -> 0..(RetryCount - 1)]
      BY DEF TypeInv, RestTypeOK
    <3>3. 0 \in 0..(RetryCount - 1)
      BY Constants
    <3>4. QED
      BY <3>1, <3>2, <3>3
  <2>3. CallTypes'
    BY <2>1, <2>2, AwaitTypes DEF Fetch
  <2>4. TokenTypes'
    BY <2>1, TokenValues DEF Fetch, TypeInv, RestTypeOK, TokenTypes
  <2>5. QED
    BY <1>1, <2>3, <2>4, RestTypes DEF RestTypeOK, CallTypes, TokenTypes
<1>4. QED
  BY <1>2, <1>3

LEMMA SenderWants ==
  ASSUME TypeInv, Listing, NEW a \in Caller, pc[a] # "done"
  PROVE  a \notin VM => wants[a] = "page"
BY Constants DEF Listing, At

LEMMA AnsweredTypes ==
  ASSUME TypeInv, Listing, NEW a \in Caller, Answered(a)
  PROVE  RestTypeOK' /\ ServerTypeOK'
<1>1. ReplyTo(a) \in Answer
  <2>1. a \in VM => op[a]["extension"] \in Answer /\ op[a]["machine"] \in Answer
    BY DEF TypeInv, ServerTypeOK, Part, Answer
  <2>2. wants[a] \in Want /\ (a \notin VM => wants[a] = "page")
    BY SenderWants DEF TypeInv, RestTypeOK, Answered, HasToken, At
  <2>3. {"page", "gone", "accepted"} \subseteq Answer
    BY DEF Answer
  <2>4. QED
    BY <2>1, <2>2, <2>3, ReplyCases DEF Want
<1>2. CallTypes'
  BY <1>1, ReturnTypes DEF Answered
<1>3. ServerTypeOK'
  BY ServerTypes DEF Answered
<1>4. QED
  BY <1>2, <1>3, RestTypes DEF Answered, TypeInv, RestTypeOK, CallTypes, tokenVars

LEMMA MayExecuteTypes ==
  ASSUME TypeInv, NEW a \in Caller, Fault, MayExecute(a)
  PROVE  ServerTypeOK'
BY ServerTypes DEF MayExecute

LEMMA RetryTypes ==
  ASSUME TypeInv, NEW a \in Caller, Retry(a)
  PROVE  RestTypeOK' /\ ServerTypeOK'
<1>1. ServerTypeOK'
  BY MayExecuteTypes DEF Retry
<1>2. CASE Again(a)
  <2>1. attempts[a] + 1 \in 0..(RetryCount - 1)
    BY <1>2, Constants DEF Again, TypeInv, RestTypeOK
  <2>2. QED
    BY <1>1, <1>2, <2>1 DEF Retry, TypeInv, RestTypeOK, tokenVars
<1>3. CASE ~Again(a)
  <2>1. "refused" \in Answer
    BY DEF Answer
  <2>2. CallTypes'
    BY <1>3, <2>1, ReturnTypes DEF Retry
  <2>3. QED
    BY <1>1, <2>2 DEF Retry, TypeInv, RestTypeOK, CallTypes, tokenVars
<1>4. QED
  BY <1>2, <1>3

LEMMA FailRequestTypes ==
  ASSUME TypeInv, NEW a \in Caller, FailRequest(a)
  PROVE  RestTypeOK' /\ ServerTypeOK'
<1>1. ServerTypeOK'
  BY MayExecuteTypes DEF FailRequest, MayExecute
<1>2. CallTypes'
  <2>1. {"timeout", "refused", "bodiless"} \subseteq Answer
    BY DEF Answer
  <2>2. QED
    BY <2>1, ReturnTypes DEF FailRequest
<1>3. QED
  BY <1>1, <1>2 DEF FailRequest, TypeInv, RestTypeOK, CallTypes, tokenVars

LEMMA RequestTypes ==
  ASSUME TypeInv, Listing, NEW a \in Caller, RequestStep(a), UNCHANGED taskVars
  PROVE  TypeInv'
<1>1. RestTypeOK' /\ ServerTypeOK'
  BY GetTokenTypes, SettleTypes, LoseFetchTypes, NoRequestTypes, UnauthorizedTypes,
     AnsweredTypes, RetryTypes, FailRequestTypes DEF RequestStep
<1>2. TaskTypeOK'
  BY DEF TypeInv, TaskTypeOK, taskVars
<1>3. QED
  BY <1>1, <1>2 DEF TypeInv

-----------------------------------------------------------------------------
(* The steps of the task.                                                  *)

LEMMA TakePageTypes ==
  ASSUME TypeInv, TakePage
  PROVE  TypeInv'
<1>1. ServerTypeOK' /\ TokenTypes'
  BY DEF TakePage, TypeInv, ServerTypeOK, RestTypeOK, TokenTypes, serverVars, tokenVars
<1>2. TaskTypeOK'
  BY DEF TakePage, TypeInv, TaskTypeOK
<1>3. CallTypes'
  <2>1. CASE Begin({Lister}, "page")
    <3>1. {Lister} \in SUBSET Caller /\ "page" \in Want
      BY Constants DEF Want
    <3>2. QED
      BY <2>1, <3>1, BeginTypes
  <2>2. CASE /\ pc' = [a \in Caller |-> IF a \in listed' THEN "begin" ELSE "done"]
             /\ wants' = [a \in Caller |-> FirstRequest]
             /\ reply' = [a \in Caller |-> "none"]
             /\ UNCHANGED <<asked, bearer, attempts, renewed>>
    <3>1. FirstRequest \in Want
      BY DEF FirstRequest, Want
    <3>2. QED
      BY <2>2, <3>1 DEF TypeInv, RestTypeOK, CallTypes, Label, Answer
  <2>3. QED
    BY <2>1, <2>2 DEF TakePage
<1>4. QED
  BY <1>1, <1>2, <1>3, RestTypes DEF TypeInv, RestTypeOK, CallTypes, TokenTypes

LEMMA ListFailsTypes ==
  ASSUME TypeInv, ListFails
  PROVE  TypeInv'
<1>1. ServerTypeOK' /\ TaskTypeOK'
  BY DEF ListFails, TypeInv, ServerTypeOK, TaskTypeOK, serverVars
<1>2. RestTypeOK'
  BY DEF ListFails, TypeInv, RestTypeOK, To, Label, tokenVars
<1>3. QED
  BY <1>1, <1>2 DEF TypeInv

(* What a step of machine v is: the next request, the callback, or neither. *)
NextRequest(v, what) ==
  /\ Begin({v}, what)
  /\ UNCHANGED <<listed, successCount, failureCount, result, tokenVars, serverVars>>

Called(v, error) == Callback(v, error) /\ UNCHANGED <<tokenVars, serverVars>>

Lost(v) ==
  /\ To(v, "lost")
  /\ UNCHANGED <<asked, bearer, attempts, renewed, wants, reply, taskVars, tokenVars, serverVars>>

LEMMA MachineCases ==
  ASSUME TypeInv, NEW v \in VM, MachineStep(v)
  PROVE  /\ At(v, "answered")
         /\ \/ /\ wants[v] = "deleteExtension" /\ reply[v] = "accepted"
               /\ NextRequest(v, "pollExtension")
               /\ threshold' = [threshold EXCEPT ![v] = IgnoreTimeoutErrorThreshold]
            \/ /\ wants[v] = "deleteExtension" /\ reply[v] # "accepted"
               /\ NextRequest(v, "act") /\ UNCHANGED threshold
            \/ /\ wants[v] = "act" /\ reply[v] = "accepted"
               /\ NextRequest(v, "poll")
               /\ threshold' = [threshold EXCEPT ![v] = IgnoreTimeoutErrorThreshold]
            \/ wants[v] = "act" /\ reply[v] # "accepted" /\ Called(v, TRUE)
            \/ \E part \in Part :
                 /\ wants[v] = Poll(part) /\ NextRequest(v, Poll(part))
                 /\ \/ UNCHANGED threshold
                    \/ threshold[v] > 0 /\ threshold' = [threshold EXCEPT ![v] = threshold[v] - 1]
            \/ /\ wants[v] = "pollExtension" /\ reply[v] # "running"
               /\ NextRequest(v, "act") /\ UNCHANGED threshold
            \/ wants[v] = "poll" /\ reply[v] = "bodiless" /\ Lost(v)
            \/ /\ wants[v] = "poll" /\ reply[v] \notin {"bodiless", "running"}
               /\ Called(v, reply[v] # "succeeded")
<1>1. CASE ExtensionAnswered(v)
  BY <1>1, Zenon DEF ExtensionAnswered, Has, StartPolling, Continue, NextRequest, Poll
<1>2. CASE ActAnswered(v)
  BY <1>2, Zenon DEF ActAnswered, Has, StartPolling, Continue, NextRequest, Called, Poll
<1>3. ASSUME NEW part \in Part, PollAgain(v, part)
      PROVE  /\ At(v, "answered")
             /\ wants[v] = Poll(part) /\ NextRequest(v, Poll(part))
             /\ \/ UNCHANGED threshold
                \/ threshold[v] > 0 /\ threshold' = [threshold EXCEPT ![v] = threshold[v] - 1]
  BY <1>3, Zenon DEF PollAgain, Has, Continue, NextRequest
<1>4. CASE ExtensionPolled(v)
  BY <1>4, Zenon DEF ExtensionPolled, Has, Ended, Continue, NextRequest
<1>5. CASE Polled(v)
  BY <1>5, Zenon DEF Polled, Has, Ended, Called, Lost
<1>6. QED
  BY <1>1, <1>2, <1>3, <1>4, <1>5, Zenon DEF MachineStep

LEMMA NextRequestTypes ==
  ASSUME TypeInv, NEW v \in VM, NEW what \in Want, NextRequest(v, what),
         threshold' \in [VM -> 0..IgnoreTimeoutErrorThreshold]
  PROVE  TypeInv'
<1>1. CallTypes'
  <2>1. {v} \in SUBSET Caller
    BY Constants
  <2>2. QED
    BY <2>1, BeginTypes DEF NextRequest
<1>2. QED
  BY <1>1 DEF NextRequest, TypeInv, RestTypeOK, CallTypes, ServerTypeOK, TaskTypeOK, serverVars, tokenVars

LEMMA CalledTypes ==
  ASSUME TypeInv, NEW v \in VM, NEW error \in BOOLEAN, Called(v, error)
  PROVE  TypeInv'
<1>1. ServerTypeOK' /\ RestTypeOK'
  BY DEF Called, Callback, To, TypeInv, ServerTypeOK, RestTypeOK, Label, serverVars, tokenVars
<1>2. TaskTypeOK'
  <2>1. result' \in {"none", "succeeded", "failed"}
    BY DEF Called, Callback, Result, TypeInv, TaskTypeOK
  <2>2. QED
    BY <2>1 DEF Called, Callback, TypeInv, TaskTypeOK
<1>3. QED
  BY <1>1, <1>2 DEF TypeInv

LEMMA LostTypes ==
  ASSUME TypeInv, NEW v \in VM, Lost(v)
  PROVE  TypeInv'
BY DEF Lost, To, TypeInv, ServerTypeOK, RestTypeOK, TaskTypeOK, Label, serverVars, tokenVars, taskVars

LEMMA MachineTypes ==
  ASSUME TypeInv, NEW v \in VM, MachineStep(v)
  PROVE  TypeInv'
<1> DEFINE Thresholds == [VM -> 0..IgnoreTimeoutErrorThreshold]
<1>1. threshold \in Thresholds
  BY DEF TypeInv, TaskTypeOK
<1>2. [threshold EXCEPT ![v] = IgnoreTimeoutErrorThreshold] \in Thresholds
  BY <1>1, Constants
<1>3. threshold[v] > 0 => [threshold EXCEPT ![v] = threshold[v] - 1] \in Thresholds
  BY <1>1, Constants
<1>4. {"pollExtension", "act", "poll"} \subseteq Want /\ \A part \in Part : Poll(part) \in Want
  BY DEF Want, Poll
<1>5. (reply[v] # "succeeded") \in BOOLEAN
  OBVIOUS
<1>6. ASSUME NEW what \in Want, NextRequest(v, what), threshold' \in Thresholds PROVE TypeInv'
  BY <1>6, NextRequestTypes
<1> HIDE DEF Thresholds
<1>7. QED
  BY <1>1, <1>2, <1>3, <1>4, <1>5, <1>6, MachineCases, CalledTypes, LostTypes

LEMMA ServerStepTypes ==
  ASSUME TypeInv, ServerStep
  PROVE  TypeInv'
<1>1. RestTypeOK' /\ TaskTypeOK'
  BY DEF ServerStep, TypeInv, RestTypeOK, TaskTypeOK, requestVars, tokenVars, taskVars
<1>2. ServerTypeOK'
  <2>1. ASSUME NEW v \in VM, NEW part \in Part, Finish(v, part) PROVE ServerTypeOK'
    <3>1. PICK outcome \in {"succeeded", "failed"} :
            /\ op' = [op EXCEPT ![v] = [op[v] EXCEPT ![part] = outcome]]
            /\ IF outcome = "failed" THEN Fault ELSE NoFault
      BY <2>1 DEF Finish
    <3>2. op' \in [VM -> [Part -> {"none", "running", "succeeded", "failed"}]]
      BY <3>1 DEF TypeInv, ServerTypeOK
    <3>3. QED
      BY <3>1, <3>2, FaultTypes DEF ServerTypeOK
  <2>2. CASE Expire
    BY <2>2, Constants DEF Expire, TypeInv, ServerTypeOK
  <2>3. QED
    BY <2>1, <2>2 DEF ServerStep
<1>3. QED
  BY <1>1, <1>2 DEF TypeInv

LEMMA NextCases ==
  ASSUME TypeInv, Next
  PROVE  \/ \E a \in Caller : RequestStep(a) /\ UNCHANGED taskVars
         \/ TakePage
         \/ ListFails
         \/ \E v \in VM : MachineStep(v)
         \/ ServerStep
BY DEF Next, ClientStep

LEMMA NextTypes ==
  ASSUME TypeInv, Listing, [Next]_vars
  PROVE  TypeInv'
<1>1. CASE UNCHANGED vars
  BY <1>1 DEF vars, TypeInv, ServerTypeOK, RestTypeOK, TaskTypeOK, serverVars, tokenVars,
    requestVars, taskVars
<1>2. CASE Next
  BY <1>2, NextCases, RequestTypes, TakePageTypes, ListFailsTypes, MachineTypes, ServerStepTypes
<1>3. QED
  BY <1>1, <1>2

-----------------------------------------------------------------------------
(* Nobody awaits a fetch that nobody makes.                                *)

LEMMA WaitingMoves ==
  ASSUME TypeInv, TypeInv', Waiting, NEW a \in Caller, pc[a] \notin {"token", "lost"},
         \A b \in Caller \ {a} : pc'[b] = pc[b] /\ asked'[b] = asked[b],
         pc'[a] = "token" => asked'[a] = a \/ (asked'[a] = fetcher /\ cached = Pending),
         \/ UNCHANGED <<cached, fetcher>>
         \/ fetcher' = a /\ pc'[a] = "token" /\ asked'[a] = a
  PROVE  Waiting'
<1>1. /\ fetcher \in Caller /\ fetcher' \in Caller
      /\ asked \in [Caller -> Caller] /\ asked' \in [Caller -> Caller]
  BY DEF TypeInv, RestTypeOK
<1>2. ASSUME NEW b \in Caller, Fetches(b) PROVE Fetches(b)'
  BY <1>2 DEF Fetches
<1>3. Fetching'
  BY <1>1, <1>2 DEF Waiting, Fetching, Fetches
<1>4. ASSUME NEW b \in Caller PROVE Awaiting(b)'
  <2>1. CASE b # a
    BY <1>1, <1>2, <2>1 DEF Waiting, Awaiting, At
  <2>2. CASE b = a /\ asked'[a] = a
    BY <2>2 DEF Awaiting, Fetches, At
  <2>3. CASE b = a /\ asked'[a] = fetcher /\ cached = Pending
    <3>1. Fetches(fetcher)'
      BY <1>1, <1>2, <2>3 DEF Waiting, Fetching
    <3>2. QED
      BY <2>3, <3>1 DEF Awaiting, Fetches
  <2>4. QED
    BY <2>1, <2>2, <2>3 DEF Awaiting, At
<1>5. QED
  BY <1>3, <1>4 DEF Waiting

LEMMA SettleWaiting ==
  ASSUME TypeInv, TypeInv', Waiting, NEW a \in Caller, Settle(a)
  PROVE  Waiting'
<1>1. PICK token \in {epoch, TimedOut, Rejected} :
        /\ LET waiting == {b \in Caller : At(b, "token") /\ asked[b] = a} IN
             /\ pc' = [b \in Caller |-> IF b \in waiting THEN "send" ELSE pc[b]]
             /\ asked' = [b \in Caller |-> IF b \in waiting THEN b ELSE asked[b]]
        /\ IF fetcher = a THEN cached' = token /\ fetcher' = Lister
           ELSE UNCHANGED <<cached, fetcher>>
  BY DEF Settle
<1> DEFINE waiting == {b \in Caller : At(b, "token") /\ asked[b] = a}
<1>2. /\ fetcher \in Caller /\ asked \in [Caller -> Caller] /\ epoch \in Nat
  BY DEF TypeInv, RestTypeOK, ServerTypeOK
<1>3. \A b \in Caller : b \in waiting => pc'[b] = "send" /\ asked'[b] = b
  BY <1>1
<1>4. \A b \in Caller : b \notin waiting => pc'[b] = pc[b] /\ asked'[b] = asked[b]
  BY <1>1
<1>5. ASSUME NEW b \in Caller, Fetches(b), b # a PROVE Fetches(b)'
  BY <1>4, <1>5 DEF Fetches
<1>6. Fetching'
  <2>1. CASE fetcher = a
    BY <1>1, <1>2, <2>1 DEF Fetching, Pending, TimedOut, Rejected
  <2>2. CASE fetcher # a
    BY <1>1, <1>2, <1>5, <2>2 DEF Waiting, Fetching, Fetches
  <2>3. QED
    BY <2>1, <2>2
<1>7. ASSUME NEW b \in Caller PROVE Awaiting(b)'
  <2>1. CASE b \in waiting
    BY <1>3, <2>1 DEF Awaiting, At
  <2>2. CASE b \notin waiting /\ At(b, "token")
    <3>1. PICK c \in Caller : c = asked[b] /\ c # a /\ Fetches(c)
      BY <1>2, <2>2 DEF Waiting, Awaiting
    <3>2. Fetches(c)'
      BY <1>5, <3>1
    <3>3. asked'[b] = c
      BY <1>4, <2>2, <3>1
    <3>4. QED
      BY <3>2, <3>3 DEF Awaiting, Fetches
  <2>3. CASE b \notin waiting /\ ~At(b, "token")
    BY <1>4, <2>3 DEF Awaiting, At
  <2>4. QED
    BY <2>1, <2>2, <2>3
<1>8. QED
  BY <1>6, <1>7 DEF Waiting

(* What the other request steps do to the caller and its token. *)
LEMMA RequestFetches ==
  ASSUME TypeInv, NEW a \in Caller, RequestStep(a), ~Settle(a), ~LoseFetch(a)
  PROVE  /\ pc[a] \in {"begin", "send"}
         /\ pc'[a] \in {"token", "send", "answered"}
         /\ \A b \in Caller \ {a} : pc'[b] = pc[b] /\ asked'[b] = asked[b] /\ reply'[b] = reply[b]
         /\ pc'[a] = "token" => asked'[a] = a \/ (asked'[a] = fetcher /\ cached = Pending)
         /\ \/ UNCHANGED <<cached, fetcher>>
            \/ fetcher' = a /\ pc'[a] = "token" /\ asked'[a] = a
         /\ pc'[a] # "answered" => reply'[a] = reply[a]
         /\ wants' = wants
<1>1. /\ pc \in [Caller -> Label] /\ asked \in [Caller -> Caller] /\ reply \in [Caller -> Answer]
  BY DEF TypeInv, RestTypeOK
<1>2. CASE GetToken(a)
  <2>1. CASE \E token : Use(a, token)
    BY <1>1, <1>2, <2>1 DEF GetToken, Use, To, At
  <2>2. CASE Fetch(a)
    BY <1>1, <1>2, <2>2 DEF GetToken, Fetch, Await, To, At
  <2>3. CASE cached = Pending /\ Await(a, fetcher) /\ UNCHANGED <<cached, fetcher>>
    BY <1>1, <1>2, <2>3 DEF GetToken, Await, To, At
  <2>4. QED
    BY <1>2, <2>1, <2>2, <2>3 DEF GetToken
<1>3. ASSUME NEW answer, Return(a, answer), At(a, "send"), UNCHANGED tokenVars
      PROVE  /\ pc[a] = "send" /\ pc'[a] = "answered"
             /\ \A b \in Caller \ {a} : pc'[b] = pc[b] /\ asked'[b] = asked[b] /\ reply'[b] = reply[b]
             /\ UNCHANGED <<cached, fetcher>> /\ wants' = wants
  BY <1>1, <1>3 DEF Return, To, At, tokenVars
<1>4. CASE NoRequest(a) \/ Answered(a)
  BY <1>3, <1>4 DEF NoRequest, Answered, HasToken
<1>5. CASE Unauthorized(a)
  <2>1. CASE renewed[a]
    BY <1>3, <1>5, <2>1 DEF Unauthorized, HasToken
  <2>2. CASE ~renewed[a]
    <3>1. Fetch(a) /\ UNCHANGED <<wants, reply>> /\ At(a, "send")
      BY <1>5, <2>2 DEF Unauthorized, Renew, HasToken
    <3>2. QED
      BY <1>1, <3>1 DEF Fetch, Await, To, At
  <2>3. QED
    BY <2>1, <2>2
<1>6. CASE Retry(a)
  <2>1. CASE Again(a)
    BY <1>6, <2>1 DEF Retry, HasToken, At, tokenVars
  <2>2. CASE ~Again(a)
    BY <1>3, <1>6, <2>2 DEF Retry, HasToken
  <2>3. QED
    BY <2>1, <2>2
<1>7. CASE FailRequest(a)
  BY <1>3, <1>7 DEF FailRequest, HasToken
<1>8. QED
  BY <1>2, <1>4, <1>5, <1>6, <1>7 DEF RequestStep

LEMMA RequestWaiting ==
  ASSUME TypeInv, TypeInv', Waiting, NEW a \in Caller, RequestStep(a)
  PROVE  Waiting'
<1>1. CASE Settle(a)
  BY <1>1, SettleWaiting
<1>2. CASE LoseFetch(a)
  <2>1. /\ \A b \in Caller : Fetches(b) => Fetches(b)'
        /\ \A b \in Caller : At(b, "token")' => At(b, "token")
    BY <1>2 DEF LoseFetch, To, Fetches, At, TypeInv, RestTypeOK
  <2>2. UNCHANGED <<asked, cached, fetcher>> /\ fetcher \in Caller /\ asked \in [Caller -> Caller]
    BY <1>2 DEF LoseFetch, tokenVars, TypeInv, RestTypeOK
  <2>3. Fetching'
    BY <2>1, <2>2 DEF Waiting, Fetching, Fetches
  <2>4. ASSUME NEW b \in Caller PROVE Awaiting(b)'
    BY <2>1, <2>2 DEF Waiting, Awaiting, Fetches, At
  <2>5. QED
    BY <2>3, <2>4 DEF Waiting
<1>3. CASE ~Settle(a) /\ ~LoseFetch(a)
  BY <1>3, RequestFetches, WaitingMoves
<1>4. QED
  BY <1>1, <1>2, <1>3

LEMMA ListingWaiting ==
  ASSUME TypeInv, TypeInv', Waiting, Listing, TakePage \/ ListFails
  PROVE  Waiting'
<1>1. /\ At(Lister, "answered") /\ \A v \in VM : At(v, "idle")
  BY DEF TakePage, ListFails, Listing, At
<1>2. \A a \in Caller : pc[a] \notin {"token", "lost"}
  BY <1>1, Constants DEF At
<1>3. cached # Pending
  BY <1>2 DEF Waiting, Fetching, Fetches, TypeInv, RestTypeOK
<1>4. \A a \in Caller : pc'[a] # "token"
  BY <1>2 DEF TakePage, ListFails, Begin, To, TypeInv, RestTypeOK
<1>5. cached' = cached
  BY DEF TakePage, ListFails, tokenVars
<1>6. QED
  BY <1>3, <1>4, <1>5 DEF Waiting, Fetching, Awaiting, At

LEMMA MachineWaiting ==
  ASSUME TypeInv, TypeInv', Waiting, NEW v \in VM, MachineStep(v)
  PROVE  Waiting'
<1>1. ASSUME NEW what, NextRequest(v, what)
      PROVE  /\ pc'[v] = "begin" /\ UNCHANGED <<asked, cached, fetcher>>
             /\ \A b \in Caller \ {v} : pc'[b] = pc[b]
  BY <1>1, Constants DEF NextRequest, Begin, tokenVars
<1>2. ASSUME NEW error, Called(v, error)
      PROVE  /\ pc'[v] = "done" /\ UNCHANGED <<asked, cached, fetcher>>
             /\ \A b \in Caller \ {v} : pc'[b] = pc[b]
  BY <1>2, Constants DEF Called, Callback, To, tokenVars, TypeInv, RestTypeOK
<1>3. ASSUME Lost(v)
      PROVE  /\ pc'[v] = "lost" /\ UNCHANGED <<asked, cached, fetcher>>
             /\ \A b \in Caller \ {v} : pc'[b] = pc[b]
  BY <1>3, Constants DEF Lost, To, tokenVars, TypeInv, RestTypeOK
<1>4. /\ pc[v] = "answered" /\ pc'[v] # "token" /\ UNCHANGED <<asked, cached, fetcher>>
      /\ \A b \in Caller \ {v} : pc'[b] = pc[b]
  BY <1>1, <1>2, <1>3, MachineCases DEF At
<1>5. QED
  BY <1>4, WaitingMoves, Constants

LEMMA NextWaiting ==
  ASSUME TypeInv, TypeInv', Waiting, Listing, [Next]_vars
  PROVE  Waiting'
<1>1. CASE UNCHANGED vars \/ ServerStep
  BY <1>1 DEF ServerStep, vars, tokenVars, requestVars, Waiting, Fetching, Awaiting, Fetches, At
<1>2. CASE Next
  BY <1>1, <1>2, NextCases, RequestWaiting, ListingWaiting, MachineWaiting
<1>3. QED
  BY <1>1, <1>2

-----------------------------------------------------------------------------
(* What a request step can and cannot change.                              *)

RequestMoves ==
  /\ \A b \in Caller : pc'[b] = pc[b]
                       \/ (pc[b] \in Before /\ pc'[b] \in {"token", "send", "answered", "lost"})
  /\ \A b \in Caller : reply'[b] = reply[b] \/ (pc[b] \in Before /\ pc'[b] = "answered")
  /\ wants' = wants /\ UNCHANGED taskVars

LEMMA StepMoves ==
  ASSUME TypeInv, NEW a \in Caller, RequestStep(a), UNCHANGED taskVars
  PROVE  RequestMoves
<1>1. CASE Settle(a)
  <2>1. UNCHANGED <<reply, wants>>
    BY <1>1 DEF Settle
  <2>2. \A b \in Caller : pc'[b] = pc[b] \/ (pc[b] = "token" /\ pc'[b] = "send")
    <3>1. PICK token \in {epoch, TimedOut, Rejected} :
            LET waiting == {b \in Caller : At(b, "token") /\ asked[b] = a} IN
              pc' = [b \in Caller |-> IF b \in waiting THEN "send" ELSE pc[b]]
      BY <1>1 DEF Settle
    <3>2. QED
      BY <3>1 DEF At
  <2>3. QED
    BY <2>1, <2>2 DEF RequestMoves, Before
<1>2. CASE LoseFetch(a)
  BY <1>2 DEF LoseFetch, To, At, RequestMoves, Before, TypeInv, RestTypeOK
<1>3. CASE ~Settle(a) /\ ~LoseFetch(a)
  BY <1>3, RequestFetches DEF RequestMoves, Before
<1>4. QED
  BY <1>1, <1>2, <1>3

(* An operation is only disturbed by the request that begins it, and       *)
(* "succeeded" is only answered to those who poll.                         *)
RequestReplies ==
  /\ \A v \in VM, part \in Part : op'[v][part] = op[v][part] \/ wants[v] = Request(part)
  /\ \A v \in VM : reply'[v] = "succeeded" =>
       \/ reply[v] = "succeeded" /\ pc'[v] = pc[v]
       \/ pc'[v] = "answered" /\ wants[v] = "pollExtension"
       \/ pc'[v] = "answered" /\ wants[v] = "poll" /\ op[v]["machine"] = "succeeded"

LEMMA ExecuteReplies ==
  ASSUME TypeInv, NEW a \in Caller, Execute(a) \/ UNCHANGED op
  PROVE  \A v \in VM, part \in Part : op'[v][part] = op[v][part] \/ wants[v] = Request(part)
<1>1. CASE UNCHANGED op
  BY <1>1
<1>2. CASE Execute(a)
  BY <1>2 DEF Execute, Begins
<1>3. QED
  BY <1>1, <1>2

LEMMA StepReplies ==
  ASSUME TypeInv, Listing, Replies, NEW a \in Caller, RequestStep(a), UNCHANGED taskVars
  PROVE  RequestReplies
<1>1. \A v \in VM, part \in Part : op'[v][part] = op[v][part] \/ wants[v] = Request(part)
  <2>1. Execute(a) \/ UNCHANGED op
    BY DEF RequestStep, GetToken, Settle, LoseFetch, NoRequest, Unauthorized, Answered, Retry,
      FailRequest, MayExecute, serverVars
  <2>2. QED
    BY <2>1, ExecuteReplies
<1>2. \A v \in VM : reply[v] = "succeeded" => pc[v] \notin Before
  BY DEF Replies, Replied, Before
<1>3. \A v \in VM : reply'[v] = reply[v] \/ reply'[v] # "succeeded" \/ (v = a /\ Answered(a))
  <2>1. reply \in [Caller -> Answer] /\ VM \subseteq Caller
    BY Constants DEF TypeInv, RestTypeOK
  <2>2. ASSUME NEW answer, Return(a, answer)
        PROVE  \A v \in VM : reply'[v] = IF v = a THEN answer ELSE reply[v]
    BY <2>1, <2>2 DEF Return
  <2>3. CASE GetToken(a) \/ Settle(a) \/ LoseFetch(a)
    BY <2>3 DEF GetToken, Settle, LoseFetch
  <2>4. CASE NoRequest(a)
    BY <2>2, <2>4 DEF NoRequest
  <2>5. CASE Unauthorized(a)
    BY <2>2, <2>5 DEF Unauthorized, Renew
  <2>6. CASE Answered(a)
    BY <2>2, <2>6 DEF Answered
  <2>7. CASE Retry(a)
    BY <2>2, <2>7 DEF Retry
  <2>8. CASE FailRequest(a)
    BY <2>2, <2>8 DEF FailRequest
  <2>9. QED
    BY <2>3, <2>4, <2>5, <2>6, <2>7, <2>8 DEF RequestStep
<1>4. ASSUME NEW v \in VM, reply'[v] = "succeeded", reply'[v] # reply[v]
      PROVE  /\ pc'[v] = "answered"
             /\ \/ wants[v] = "pollExtension"
                \/ wants[v] = "poll" /\ op[v]["machine"] = "succeeded"
  <2>1. v = a /\ Answered(a) /\ v \in Caller
    BY <1>3, <1>4, Constants
  <2>2. pc'[v] = "answered" /\ reply'[v] = ReplyTo(v)
    BY <2>1 DEF Answered, Return, To, TypeInv, RestTypeOK
  <2>3. wants[v] \in Want
    BY <2>1 DEF TypeInv, RestTypeOK
  <2>4. QED
    BY <1>4, <2>1, <2>2, <2>3, ReplyCases DEF Want
<1>5. \A b \in Caller : pc'[b] = pc[b] \/ pc[b] \in Before
  BY StepMoves DEF RequestMoves
<1>6. ASSUME NEW v \in VM, reply'[v] = "succeeded", reply'[v] = reply[v]
      PROVE  pc'[v] = pc[v]
  BY <1>2, <1>5, <1>6, Constants
<1>7. QED
  BY <1>1, <1>4, <1>6 DEF RequestReplies

-----------------------------------------------------------------------------
(* The listing and the machines it names.                                  *)

LEMMA RequestListing ==
  ASSUME TypeInv, Listing, RequestMoves
  PROVE  Listing'
<1>1. wants' = wants /\ listed' = listed /\ result' = result
  BY DEF RequestMoves, taskVars
<1>2. \A b \in Caller : pc[b] \in {"idle", "done"} => pc'[b] = pc[b] /\ reply'[b] = reply[b]
  BY DEF RequestMoves, Before
<1>3. \A b \in Caller : pc'[b] = "idle" => pc[b] = "idle"
  BY DEF RequestMoves
<1>4. At(Lister, "done")' \/ (wants'[Lister] = "page" /\ result' = "none" /\ \A v \in VM : At(v, "idle")')
  BY <1>1, <1>2, Constants DEF Listing, At
<1>5. ASSUME NEW v \in VM PROVE Listed(v)'
  BY <1>1, <1>2, <1>3, Constants DEF Listing, Listed, Started, At
<1>6. QED
  BY <1>4, <1>5 DEF Listing

LEMMA WhileListing ==
  ASSUME TypeInv, Listing, TakePage \/ ListFails
  PROVE  /\ pc[Lister] = "answered" /\ wants[Lister] = "page" /\ result = "none"
         /\ \A v \in VM : pc[v] = "idle" /\ wants[v] = "page" /\ reply[v] = "none"
BY DEF TakePage, ListFails, Listing, Listed, At

(* The three ways in which the listing goes on. *)
MorePages ==
  /\ \A a \in Caller : pc'[a] = IF a = Lister THEN "begin" ELSE pc[a]
  /\ \A a \in Caller : wants'[a] = IF a = Lister THEN "page" ELSE wants[a]
  /\ \A a \in Caller : reply'[a] = IF a = Lister THEN "none" ELSE reply[a]
  /\ UNCHANGED result

LastPage ==
  /\ \A a \in Caller : pc'[a] = IF a \in listed' THEN "begin" ELSE "done"
  /\ \A a \in Caller : wants'[a] = FirstRequest /\ reply'[a] = "none"
  /\ result' = IF listed' = {} THEN "succeeded" ELSE result

NoPage ==
  /\ \A a \in Caller : pc'[a] = IF a = Lister THEN "done" ELSE pc[a]
  /\ UNCHANGED <<listed, wants, reply>> /\ result' = "failed"

LEMMA PageCases ==
  ASSUME TypeInv, TakePage \/ ListFails
  PROVE  /\ MorePages \/ LastPage \/ NoPage
         /\ listed' \in SUBSET VM
         /\ UNCHANGED <<successCount, failureCount, tokenVars, serverVars, bearer, renewed>>
<1>1. pc \in [Caller -> Label] /\ listed \subseteq VM
  BY DEF TypeInv, RestTypeOK, TaskTypeOK
<1>2. CASE ListFails
  BY <1>1, <1>2 DEF ListFails, To, NoPage
<1>3. CASE TakePage
  <2>1. CASE Begin({Lister}, "page") /\ UNCHANGED result
    BY <1>1, <1>3, <2>1 DEF TakePage, Begin, MorePages
  <2>2. CASE /\ pc' = [a \in Caller |-> IF a \in listed' THEN "begin" ELSE "done"]
             /\ wants' = [a \in Caller |-> FirstRequest]
             /\ result' = IF listed' = {} THEN "succeeded" ELSE result
             /\ reply' = [a \in Caller |-> "none"]
             /\ UNCHANGED <<asked, bearer, attempts, renewed>>
    BY <1>1, <1>3, <2>2 DEF TakePage, LastPage
  <2>3. QED
    BY <1>3, <2>1, <2>2 DEF TakePage
<1>4. QED
  BY <1>2, <1>3

LEMMA PageListing ==
  ASSUME TypeInv, Listing, TakePage \/ ListFails
  PROVE  Listing'
<1>1. /\ wants[Lister] = "page" /\ result = "none"
      /\ \A v \in VM : pc[v] = "idle" /\ wants[v] = "page" /\ reply[v] = "none"
  BY WhileListing
<1>2. CASE MorePages
  BY <1>1, <1>2, Constants DEF MorePages, Listing, Listed, At
<1>3. CASE LastPage
  <2>1. FirstRequest # "page" /\ listed' \in SUBSET VM
    BY PageCases DEF FirstRequest
  <2>2. QED
    BY <1>3, <2>1, Constants DEF LastPage, Listing, Listed, Started, At
<1>4. CASE NoPage
  BY <1>1, <1>4, Constants DEF NoPage, Listing, Listed, At
<1>5. QED
  BY <1>2, <1>3, <1>4, PageCases

(* A machine whose answer is read has been listed, and the task goes on. *)
LEMMA MachineRuns ==
  ASSUME TypeInv, Listing, Verdict, NEW v \in VM, At(v, "answered")
  PROVE  v \in listed /\ result = "none" /\ At(Lister, "done") /\ wants[v] # "page"
<1>1. Listed(v)
  BY DEF Listing
<1>2. v \in listed /\ Started(v)
  BY <1>1 DEF Listed, At
<1>3. result = "none"
  BY DEF Verdict, At
<1>4. QED
  BY <1>2, <1>3 DEF Started

(* A step of machine v, for all others. *)
MachineMoves(v, label) ==
  /\ pc'[v] = label
  /\ \A b \in Caller \ {v} : pc'[b] = pc[b] /\ wants'[b] = wants[b] /\ reply'[b] = reply[b]
  /\ UNCHANGED <<listed, op, epoch, faults, cached, bearer, renewed>>

LEMMA StepMachine ==
  ASSUME TypeInv, NEW v \in VM
  PROVE  /\ \A what : NextRequest(v, what) =>
              /\ MachineMoves(v, "begin") /\ wants'[v] = what /\ reply'[v] = "none"
              /\ UNCHANGED <<successCount, failureCount, result>>
         /\ \A error : Called(v, error) =>
              MachineMoves(v, "done") /\ wants'[v] = wants[v] /\ reply'[v] = reply[v]
         /\ Lost(v) =>
              /\ MachineMoves(v, "lost") /\ wants'[v] = wants[v] /\ reply'[v] = reply[v]
              /\ UNCHANGED <<successCount, failureCount, result>>
<1>1. pc \in [Caller -> Label] /\ v \in Caller
  BY Constants DEF TypeInv, RestTypeOK
<1>2. ASSUME NEW what, NextRequest(v, what)
      PROVE  /\ MachineMoves(v, "begin") /\ wants'[v] = what /\ reply'[v] = "none"
             /\ UNCHANGED <<successCount, failureCount, result>>
  BY <1>1, <1>2 DEF NextRequest, Begin, MachineMoves, serverVars, tokenVars
<1>3. ASSUME NEW error, Called(v, error)
      PROVE  MachineMoves(v, "done") /\ wants'[v] = wants[v] /\ reply'[v] = reply[v]
  BY <1>1, <1>3 DEF Called, Callback, To, MachineMoves, serverVars, tokenVars
<1>4. ASSUME Lost(v)
      PROVE  /\ MachineMoves(v, "lost") /\ wants'[v] = wants[v] /\ reply'[v] = reply[v]
             /\ UNCHANGED <<successCount, failureCount, result>>
  BY <1>1, <1>4 DEF Lost, To, MachineMoves, serverVars, tokenVars, taskVars
<1>5. QED
  BY <1>2, <1>3, <1>4

LEMMA MachineChanges ==
  ASSUME TypeInv, NEW v \in VM, MachineStep(v)
  PROVE  \/ /\ \E what \in {"pollExtension", "act", "poll"} : wants'[v] = what
            /\ MachineMoves(v, "begin") /\ reply'[v] = "none"
            /\ UNCHANGED <<successCount, failureCount, result>>
         \/ /\ MachineMoves(v, "done") /\ wants'[v] = wants[v] /\ reply'[v] = reply[v]
            /\ wants[v] \in {"act", "poll"}
            /\ \E error \in BOOLEAN :
                 /\ Callback(v, error)
                 /\ wants[v] = "act" => error = TRUE
                 /\ wants[v] = "poll" => error = (reply[v] # "succeeded")
         \/ /\ MachineMoves(v, "lost") /\ wants'[v] = wants[v] /\ reply'[v] = reply[v]
            /\ reply[v] = "bodiless" /\ wants[v] = "poll"
            /\ UNCHANGED <<successCount, failureCount, result>>
<1>1. \A part \in Part : Poll(part) \in {"pollExtension", "poll"}
  BY DEF Poll
<1>2. ASSUME NEW what \in {"pollExtension", "act", "poll"}, NextRequest(v, what)
      PROVE  /\ \E w \in {"pollExtension", "act", "poll"} : wants'[v] = w
             /\ MachineMoves(v, "begin") /\ reply'[v] = "none"
             /\ UNCHANGED <<successCount, failureCount, result>>
  BY <1>2, StepMachine
<1>3. ASSUME NEW error \in BOOLEAN, Called(v, error)
      PROVE  /\ MachineMoves(v, "done") /\ wants'[v] = wants[v] /\ reply'[v] = reply[v]
             /\ Callback(v, error)
  BY <1>3, StepMachine DEF Called
<1>4. CASE wants[v] = "act" /\ Called(v, TRUE)
  BY <1>3, <1>4
<1>5. CASE wants[v] = "poll" /\ Called(v, reply[v] # "succeeded")
  <2>1. (reply[v] # "succeeded") \in BOOLEAN
    OBVIOUS
  <2>2. QED
    BY <1>3, <1>5, <2>1
<1>6. CASE wants[v] = "poll" /\ reply[v] = "bodiless" /\ Lost(v)
  BY <1>6, StepMachine
<1>7. CASE \E what \in {"pollExtension", "act", "poll"} : NextRequest(v, what)
  BY <1>2, <1>7
<1>8. QED
  BY <1>1, <1>4, <1>5, <1>6, <1>7, MachineCases, Zenon

LEMMA MachineListing ==
  ASSUME TypeInv, Listing, Verdict, NEW v \in VM, MachineStep(v)
  PROVE  Listing'
<1>1. v \in listed /\ At(Lister, "done") /\ wants[v] # "page" /\ At(v, "answered")
  BY MachineCases, MachineRuns
<1>2. /\ listed' = listed /\ wants'[v] # "page" /\ pc'[v] # "idle"
      /\ \A b \in Caller \ {v} : pc'[b] = pc[b] /\ wants'[b] = wants[b] /\ reply'[b] = reply[b]
  BY <1>1, MachineChanges DEF MachineMoves
<1>3. At(Lister, "done")'
  BY <1>1, <1>2, Constants DEF At
<1>4. ASSUME NEW u \in VM PROVE Listed(u)'
  <2>1. CASE u = v
    BY <1>1, <1>2, <1>3, <2>1 DEF Listed, Started
  <2>2. CASE u # v
    BY <1>2, <1>3, <2>2, Constants DEF Listing, Listed, Started, At
  <2>3. QED
    BY <2>1, <2>2
<1>5. QED
  BY <1>3, <1>4 DEF Listing

LEMMA NextListing ==
  ASSUME TypeInv, Listing, Verdict, [Next]_vars
  PROVE  Listing'
<1>1. CASE UNCHANGED vars \/ ServerStep
  BY <1>1 DEF ServerStep, vars, requestVars, taskVars, Listing, Listed, Started, At
<1>2. CASE Next
  BY <1>1, <1>2, NextCases, StepMoves, RequestListing, PageListing, MachineListing
<1>3. QED
  BY <1>1, <1>2

-----------------------------------------------------------------------------
(* What "succeeded" means.                                                 *)

LEMMA RequestReplied ==
  ASSUME TypeInv, Replies, RequestMoves, RequestReplies
  PROVE  Replies'
<1>1. wants' = wants /\ "machine" \in Part
  BY Constants DEF RequestMoves
<1>2. ASSUME NEW v \in VM PROVE Replied(v)'
  <2>1. CASE reply'[v] # "succeeded"
    BY <2>1 DEF Replied, Succeeded
  <2>2. CASE reply[v] = "succeeded" /\ pc'[v] = pc[v]
    <3>1. wants[v] = "poll" => op'[v]["machine"] = op[v]["machine"]
      BY <1>1 DEF RequestReplies, Request
    <3>2. QED
      BY <1>1, <2>2, <3>1 DEF Replies, Replied, Succeeded, At
  <2>3. CASE pc'[v] = "answered" /\ wants[v] = "pollExtension"
    BY <1>1, <2>3 DEF Replied, Succeeded, At
  <2>4. CASE pc'[v] = "answered" /\ wants[v] = "poll" /\ op[v]["machine"] = "succeeded"
    <3>1. op'[v]["machine"] = op[v]["machine"]
      BY <1>1, <2>4 DEF RequestReplies, Request
    <3>2. QED
      BY <1>1, <2>4, <3>1 DEF Replied, Succeeded, At
  <2>5. QED
    BY <2>1, <2>2, <2>3, <2>4 DEF RequestReplies
<1>3. QED
  BY <1>2 DEF Replies

LEMMA PageReplied ==
  ASSUME TypeInv, Listing, TakePage \/ ListFails
  PROVE  Replies'
<1>1. \A v \in VM : reply'[v] = "none"
  <2>1. \A v \in VM : reply[v] = "none"
    BY WhileListing
  <2>2. QED
    BY <2>1, PageCases, Constants DEF MorePages, LastPage, NoPage
<1>2. QED
  BY <1>1 DEF Replies, Replied, Succeeded

LEMMA MachineReplied ==
  ASSUME TypeInv, Replies, NEW v \in VM, MachineStep(v)
  PROVE  Replies'
<1>1. op' = op /\ \A b \in Caller \ {v} : pc'[b] = pc[b] /\ wants'[b] = wants[b] /\ reply'[b] = reply[b]
  BY MachineChanges DEF MachineMoves
<1>2. \/ reply'[v] # "succeeded"
      \/ /\ pc'[v] = "done" /\ wants'[v] = wants[v] /\ reply'[v] = reply[v]
         /\ wants[v] \in {"act", "poll"}
  BY MachineChanges DEF MachineMoves
<1>3. ASSUME NEW u \in VM PROVE Replied(u)'
  <2>1. CASE u = v
    BY <1>1, <1>2, <2>1 DEF Replies, Replied, Succeeded, At
  <2>2. CASE u # v
    BY <1>1, <2>2, Constants DEF Replies, Replied, Succeeded, At
  <2>3. QED
    BY <2>1, <2>2
<1>4. QED
  BY <1>3 DEF Replies

(* Only what runs ends. *)
LEMMA ServerOps ==
  ASSUME TypeInv, ServerStep
  PROVE  \A v \in VM, part \in Part :
           op'[v][part] = op[v][part]
           \/ (op[v][part] = "running" /\ op'[v][part] \in {"succeeded", "failed"}
               /\ (op'[v][part] = "failed" => faults' = faults + 1))
<1>1. CASE Expire
  BY <1>1 DEF Expire
<1>2. ASSUME NEW v \in VM, NEW part \in Part, Finish(v, part)
      PROVE  \A u \in VM, p \in Part :
               op'[u][p] = op[u][p]
               \/ (op[u][p] = "running" /\ op'[u][p] \in {"succeeded", "failed"}
                   /\ (op'[u][p] = "failed" => faults' = faults + 1))
  <2>1. PICK outcome \in {"succeeded", "failed"} :
          /\ op' = [op EXCEPT ![v] = [op[v] EXCEPT ![part] = outcome]]
          /\ IF outcome = "failed" THEN Fault ELSE NoFault
    BY <1>2 DEF Finish
  <2>2. op[v][part] = "running"
    BY <1>2 DEF Finish
  <2>3. \A u \in VM : u # v => op'[u] = op[u]
    BY <2>1 DEF TypeInv, ServerTypeOK
  <2>4. op'[v] = [op[v] EXCEPT ![part] = outcome]
    BY <2>1 DEF TypeInv, ServerTypeOK
  <2>5. \A p \in Part : op'[v][p] = IF p = part THEN outcome ELSE op[v][p]
    BY <2>4 DEF TypeInv, ServerTypeOK
  <2>6. outcome = "failed" => faults' = faults + 1
    BY <2>1 DEF Fault
  <2>7. QED
    BY <2>2, <2>3, <2>5, <2>6
<1>3. QED
  BY <1>1, <1>2 DEF ServerStep

LEMMA NextReplies ==
  ASSUME TypeInv, Listing, Replies, [Next]_vars
  PROVE  Replies'
<1>1. CASE UNCHANGED vars
  BY <1>1 DEF vars, serverVars, requestVars, Replies, Replied, Succeeded, At
<1>2. CASE ServerStep
  <2>1. UNCHANGED <<pc, wants, reply>> /\ "machine" \in Part
    BY <1>2, Constants DEF ServerStep, requestVars
  <2>2. \A v \in VM : op[v]["machine"] = "succeeded" => op'[v]["machine"] = "succeeded"
    BY <1>2, <2>1, ServerOps
  <2>3. QED
    BY <2>1, <2>2 DEF Replies, Replied, Succeeded, At
<1>3. CASE Next
  BY <1>2, <1>3, NextCases, StepMoves, StepReplies, RequestReplied, PageReplied, MachineReplied
<1>4. QED
  BY <1>1, <1>3

-----------------------------------------------------------------------------
(* The counters and the result.                                            *)

LEMMA FiniteListed ==
  ASSUME TypeInv
  PROVE  /\ IsFiniteSet(listed) /\ IsFiniteSet(Good) /\ IsFiniteSet(Bad)
         /\ Cardinality(Good) \in Nat /\ Cardinality(Bad) \in Nat
<1>1. IsFiniteSet(listed)
  BY Constants, FS_Subset DEF TypeInv, TaskTypeOK
<1>2. Good \in SUBSET listed /\ Bad \in SUBSET listed
  BY DEF Good, Bad
<1>3. IsFiniteSet(Good) /\ IsFiniteSet(Bad)
  BY <1>1, <1>2, FS_Subset
<1>4. QED
  BY <1>1, <1>3, FS_CardinalityType

LEMMA SameCounts ==
  ASSUME TypeInv, Counts, UNCHANGED <<listed, successCount, failureCount>>,
         \A v \in listed : At(v, "done")' <=> At(v, "done"),
         \A v \in listed : At(v, "done") => reply'[v] = reply[v]
  PROVE  Counts'
<1>1. Good' = Good /\ Bad' = Bad
  BY DEF Good, Bad, Succeeded, At
<1>2. QED
  BY <1>1 DEF Counts

LEMMA RequestCounts ==
  ASSUME TypeInv, Counts, RequestMoves
  PROVE  Counts'
<1>1. UNCHANGED <<listed, successCount, failureCount>> /\ listed \subseteq Caller
  BY Constants DEF RequestMoves, taskVars, TypeInv, TaskTypeOK
<1>2. \A v \in listed : (At(v, "done")' <=> At(v, "done")) /\ (At(v, "done") => reply'[v] = reply[v])
  BY <1>1 DEF RequestMoves, Before, At
<1>3. QED
  BY <1>1, <1>2, SameCounts

LEMMA PageCounts ==
  ASSUME TypeInv, TypeInv', Listing, Counts, TakePage \/ ListFails
  PROVE  Counts'
<1>1. \A v \in VM : pc[v] = "idle"
  BY WhileListing
<1>2. \A v \in listed : pc[v] # "done"
  BY <1>1 DEF TypeInv, TaskTypeOK
<1>3. \A v \in listed' : pc'[v] # "done"
  <2>1. listed' \subseteq VM
    BY DEF TypeInv, TaskTypeOK
  <2>2. QED
    BY <1>1, <2>1, PageCases, Constants DEF MorePages, LastPage, NoPage
<1>4. Good = {} /\ Bad = {}
  BY <1>2 DEF Good, Bad, Succeeded, At
<1>5. Good' = {} /\ Bad' = {}
  BY <1>3 DEF Good, Bad, Succeeded, At
<1>6. QED
  BY <1>4, <1>5, PageCases DEF Counts

LEMMA CallbackCounts ==
  ASSUME TypeInv, Listing, Replies, Counts, Verdict, NEW v \in VM, MachineMoves(v, "done"),
         wants'[v] = wants[v], reply'[v] = reply[v], At(v, "answered"),
         NEW error \in BOOLEAN, Callback(v, error), error = (reply[v] # "succeeded")
  PROVE  Counts'
<1>1. v \in listed /\ listed' = listed /\ listed \subseteq Caller
  BY MachineRuns, Constants DEF MachineMoves, TypeInv, TaskTypeOK
<1>2. v \notin Good /\ v \notin Bad
  BY DEF Good, Bad, Succeeded, At
<1>3. /\ At(v, "done")'
      /\ \A u \in listed \ {v} : pc'[u] = pc[u] /\ reply'[u] = reply[u]
  BY <1>1 DEF MachineMoves, At
<1>4. IsFiniteSet(Good) /\ IsFiniteSet(Bad)
  BY FiniteListed
<1>5. CASE reply[v] = "succeeded"
  <2>1. Good' = Good \cup {v} /\ Bad' = Bad
    BY <1>1, <1>2, <1>3, <1>5 DEF Good, Bad, Succeeded, At
  <2>2. Cardinality(Good \cup {v}) = Cardinality(Good) + 1
    BY <1>2, <1>4, FS_AddElement
  <2>3. successCount' = successCount + 1 /\ failureCount' = failureCount
    BY <1>5 DEF Callback
  <2>4. QED
    BY <2>1, <2>2, <2>3 DEF Counts
<1>6. CASE reply[v] # "succeeded"
  <2>1. Bad' = Bad \cup {v} /\ Good' = Good
    BY <1>1, <1>2, <1>3, <1>6 DEF Good, Bad, Succeeded, At
  <2>2. Cardinality(Bad \cup {v}) = Cardinality(Bad) + 1
    BY <1>2, <1>4, FS_AddElement
  <2>3. failureCount' = failureCount + 1 /\ successCount' = successCount
    BY <1>6 DEF Callback
  <2>4. QED
    BY <2>1, <2>2, <2>3 DEF Counts
<1>7. QED
  BY <1>5, <1>6

(* Who has called back has failed unless it was told of success. *)
LEMMA CallbackError ==
  ASSUME TypeInv, Replies, NEW v \in VM, MachineStep(v)
  PROVE  \/ /\ MachineMoves(v, "begin") \/ MachineMoves(v, "lost")
            /\ UNCHANGED <<successCount, failureCount, result>>
         \/ /\ MachineMoves(v, "done") /\ wants'[v] = wants[v] /\ reply'[v] = reply[v]
            /\ \E error \in BOOLEAN : Callback(v, error) /\ error = (reply[v] # "succeeded")
<1>1. wants[v] = "act" => reply[v] # "succeeded"
  BY DEF Replies, Replied
<1>2. QED
  BY <1>1, MachineChanges, Zenon

LEMMA MachineCounts ==
  ASSUME TypeInv, Listing, Replies, Counts, Verdict, NEW v \in VM, MachineStep(v)
  PROVE  Counts'
<1>1. At(v, "answered") /\ listed \subseteq Caller
  BY MachineCases, Constants DEF TypeInv, TaskTypeOK
<1>2. CASE /\ MachineMoves(v, "begin") \/ MachineMoves(v, "lost")
           /\ UNCHANGED <<successCount, failureCount, result>>
  <2>1. /\ listed' = listed
        /\ \A u \in listed : (At(u, "done")' <=> At(u, "done")) /\ (At(u, "done") => reply'[u] = reply[u])
    BY <1>1, <1>2 DEF MachineMoves, At
  <2>2. QED
    BY <1>2, <2>1, SameCounts
<1>3. CASE /\ MachineMoves(v, "done") /\ wants'[v] = wants[v] /\ reply'[v] = reply[v]
           /\ \E error \in BOOLEAN : Callback(v, error) /\ error = (reply[v] # "succeeded")
  BY <1>1, <1>3, CallbackCounts
<1>4. QED
  BY <1>2, <1>3, CallbackError

LEMMA NextCounts ==
  ASSUME TypeInv, TypeInv', Listing, Replies, Counts, Verdict, [Next]_vars
  PROVE  Counts'
<1>1. CASE UNCHANGED vars \/ ServerStep
  <2>1. UNCHANGED <<pc, reply, listed, successCount, failureCount>>
    BY <1>1 DEF ServerStep, vars, requestVars, taskVars
  <2>2. QED
    BY <2>1, SameCounts DEF At
<1>2. CASE Next
  BY <1>1, <1>2, NextCases, StepMoves, RequestCounts, PageCounts, MachineCounts
<1>3. QED
  BY <1>1, <1>2

LEMMA MachineVerdict ==
  ASSUME TypeInv, TypeInv', Listing, Listing', Replies, Counts, Counts', Verdict,
         NEW v \in VM, MachineStep(v)
  PROVE  Verdict'
<1>1. v \in listed /\ result = "none" /\ At(Lister, "done") /\ At(v, "answered")
  BY MachineCases, MachineRuns
<1>2. CASE UNCHANGED result
  BY <1>1, <1>2 DEF Verdict
<1>3. CASE /\ MachineMoves(v, "done") /\ wants'[v] = wants[v] /\ reply'[v] = reply[v]
           /\ \E error \in BOOLEAN : Callback(v, error) /\ error = (reply[v] # "succeeded")
  <2>1. listed' = listed /\ Result
    BY <1>3 DEF Callback
  <2>2. CASE successCount' + failureCount' # Cardinality(listed)
    BY <1>1, <2>1, <2>2 DEF Result, Verdict
  <2>3. CASE successCount' + failureCount' = Cardinality(listed)
    <3>1. /\ IsFiniteSet(listed') /\ IsFiniteSet(Good') /\ IsFiniteSet(Bad')
          /\ Cardinality(Good') \in Nat /\ Cardinality(Bad') \in Nat
      <4>1. listed' \subseteq VM
        BY DEF TypeInv, TaskTypeOK
      <4>2. IsFiniteSet(listed')
        BY <4>1, Constants, FS_Subset
      <4>3. Good' \in SUBSET listed' /\ Bad' \in SUBSET listed'
        BY DEF Good, Bad
      <4>4. IsFiniteSet(Good') /\ IsFiniteSet(Bad')
        BY <4>2, <4>3, FS_Subset
      <4>5. QED
        BY <4>2, <4>4, FS_CardinalityType
    <3>2. Good' \cap Bad' = {} /\ Good' \cup Bad' \in SUBSET listed'
      BY DEF Good, Bad, Succeeded
    <3>3. Cardinality(Good' \cup Bad') = Cardinality(Good') + Cardinality(Bad')
      BY <3>1, <3>2, FS_Union, FS_EmptySet
    <3>4. Cardinality(listed') = Cardinality(Good' \cup Bad')
      BY <2>1, <2>3, <3>3 DEF Counts
    <3>5. listed' = Good' \cup Bad'
      BY <3>1, <3>2, <3>4, FS_Subset
    <3>6. \A u \in listed' : pc'[u] = "done"
      BY <3>5 DEF Good, Bad, Succeeded, At
    <3>7. \A u \in VM : pc'[u] \in {"idle", "done"}
      BY <3>6 DEF Listing, Listed
    <3>8. At(Lister, "done")'
      BY <1>1, <1>3, Constants DEF MachineMoves, At
    <3>9. ASSUME result' = "succeeded" PROVE \A u \in listed' : Succeeded(u)'
      <4>1. failureCount' = 0
        <5>1. failureCount' \in Nat /\ ~(failureCount' > 0)
          BY <2>1, <2>3, <3>9 DEF Result, TypeInv, TaskTypeOK
        <5>2. QED
          BY <5>1
      <4>2. Bad' = {}
        BY <3>1, <4>1, FS_EmptySet DEF Counts
      <4>3. QED
        BY <3>5, <4>2 DEF Good
    <3>10. QED
      BY <3>7, <3>8, <3>9 DEF Verdict
  <2>4. QED
    BY <2>2, <2>3
<1>4. QED
  BY <1>2, <1>3, CallbackError

LEMMA PageVerdict ==
  ASSUME TypeInv, Listing, TakePage \/ ListFails
  PROVE  Verdict'
<1>1. result = "none" /\ \A v \in VM : pc[v] = "idle"
  BY WhileListing
<1>2. CASE MorePages
  BY <1>1, <1>2 DEF MorePages, Verdict
<1>3. CASE LastPage
  BY <1>1, <1>3, Constants DEF LastPage, Verdict, At
<1>4. CASE NoPage
  BY <1>1, <1>4, Constants DEF NoPage, Verdict, At
<1>5. QED
  BY <1>2, <1>3, <1>4, PageCases

LEMMA RequestVerdict ==
  ASSUME TypeInv, Verdict, RequestMoves
  PROVE  Verdict'
<1>1. result' = result /\ listed' = listed /\ listed \subseteq Caller
  BY Constants DEF RequestMoves, taskVars, TypeInv, TaskTypeOK
<1>2. \A b \in Caller : pc[b] \in {"idle", "done"} => pc'[b] = pc[b] /\ reply'[b] = reply[b]
  BY DEF RequestMoves, Before
<1>3. QED
  BY <1>1, <1>2, Constants DEF Verdict, Succeeded, At

LEMMA NextVerdict ==
  ASSUME TypeInv, TypeInv', Listing, Listing', Replies, Counts, Counts', Verdict, [Next]_vars
  PROVE  Verdict'
<1>1. CASE UNCHANGED vars \/ ServerStep
  BY <1>1 DEF ServerStep, vars, requestVars, taskVars, Verdict, Succeeded, At
<1>2. CASE Next
  BY <1>1, <1>2, NextCases, StepMoves, RequestVerdict, PageVerdict, MachineVerdict
<1>3. QED
  BY <1>1, <1>2

-----------------------------------------------------------------------------
(* As long as nothing fails.                                               *)

LEMMA NoFaultNow ==
  ASSUME TypeInv, Fault
  PROVE  faults' # 0
BY DEF TypeInv, ServerTypeOK, Fault

(* The request steps that remain.                                          *)
LEMMA CleanSteps ==
  ASSUME TypeInv, Clean, NEW a \in Caller, RequestStep(a), faults' = 0
  PROVE  \/ GetToken(a)
         \/ Settle(a)
         \/ Unauthorized(a) /\ ~renewed[a]
         \/ Answered(a)
<1>1. FreshToken(a) /\ epoch \in Nat
  BY DEF Clean, Tokens, TypeInv, ServerTypeOK
<1>2. ~NoRequest(a)
  BY <1>1 DEF FreshToken, NoRequest, At
<1>3. ~(Unauthorized(a) /\ renewed[a])
  BY <1>1 DEF FreshToken, Unauthorized, HasToken
<1>4. ~LoseFetch(a) /\ ~Retry(a) /\ ~FailRequest(a)
  BY NoFaultNow DEF LoseFetch, Retry, FailRequest
<1>5. QED
  BY <1>2, <1>3, <1>4 DEF RequestStep

LEMMA GetTokenFresh ==
  ASSUME TypeInv, Clean, NEW a \in Caller, GetToken(a)
  PROVE  Tokens'
<1>1. /\ pc \in [Caller -> Label] /\ bearer \in [Caller -> Token] /\ epoch \in Nat
      /\ pc[a] = "begin" /\ ~renewed[a]
  BY DEF TypeInv, RestTypeOK, ServerTypeOK, GetToken, At, Clean, Tokens, FreshToken
<1>2. epoch' = epoch /\ renewed' = renewed /\ epoch <= 1
  BY DEF GetToken, serverVars, Clean, Tokens
<1>3. \A b \in Caller \ {a} : pc'[b] = pc[b] /\ bearer'[b] = bearer[b]
  BY <1>1 DEF GetToken, Use, Fetch, Await, To
<1>4. /\ pc'[a] \in {"token", "send"}
      /\ pc'[a] = "send" => bearer'[a] \in 0..epoch
      /\ cached' \in {NoToken, Pending} \cup (0..epoch)
  <2>1. CASE accessToken
    BY <1>1, <2>1 DEF GetToken, Use, To, Clean, Tokens
  <2>2. CASE ~accessToken /\ cached \in {NoToken, Pending}
    BY <1>1, <2>2 DEF GetToken, Fetch, Await, To, NoToken, Pending
  <2>3. CASE ~accessToken /\ cached \notin {NoToken, Pending}
    BY <1>1, <2>3 DEF GetToken, Use, To, Clean, Tokens
  <2>4. QED
    BY <2>1, <2>2, <2>3 DEF TypeInv, RestTypeOK
<1>5. ASSUME NEW b \in Caller PROVE FreshToken(b)'
  <2>1. CASE b = a
    BY <1>1, <1>2, <1>4, <2>1 DEF FreshToken, At
  <2>2. CASE b # a
    BY <1>2, <1>3, <2>2 DEF Clean, Tokens, FreshToken, At
  <2>3. QED
    BY <2>1, <2>2
<1>6. QED
  BY <1>2, <1>4, <1>5 DEF Tokens

LEMMA SettleFresh ==
  ASSUME TypeInv, Clean, NEW a \in Caller, Settle(a), faults' = 0
  PROVE  Tokens'
<1>1. PICK token \in {epoch, TimedOut, Rejected} :
        /\ IF token = epoch THEN NoFault ELSE Fault
        /\ LET waiting == {b \in Caller : At(b, "token") /\ asked[b] = a} IN
             /\ pc' = [b \in Caller |-> IF b \in waiting THEN "send" ELSE pc[b]]
             /\ bearer' = [b \in Caller |-> IF b \in waiting THEN token ELSE bearer[b]]
        /\ IF fetcher = a THEN cached' = token /\ fetcher' = Lister
           ELSE UNCHANGED <<cached, fetcher>>
  BY DEF Settle
<1>2. token = epoch /\ epoch' = epoch
  BY <1>1, NoFaultNow DEF NoFault
<1>3. epoch \in Nat /\ epoch <= 1 /\ renewed' = renewed
  BY DEF TypeInv, ServerTypeOK, Clean, Tokens, Settle
<1>4. cached' \in {NoToken, Pending} \cup (0..epoch)
  BY <1>1, <1>2, <1>3 DEF Clean, Tokens
<1>5. \A b \in Caller : \/ pc'[b] = pc[b] /\ bearer'[b] = bearer[b]
                        \/ pc'[b] = "send" /\ bearer'[b] = epoch
  BY <1>1, <1>2
<1>6. ASSUME NEW b \in Caller PROVE FreshToken(b)'
  BY <1>2, <1>3, <1>5 DEF Clean, Tokens, FreshToken, At
<1>7. QED
  BY <1>2, <1>3, <1>4, <1>6 DEF Tokens

LEMMA UnauthorizedFresh ==
  ASSUME TypeInv, Clean, NEW a \in Caller, Unauthorized(a), ~renewed[a]
  PROVE  Tokens'
<1>1. /\ pc[a] = "send" /\ bearer[a] # epoch /\ bearer[a] \in 0..epoch
      /\ epoch \in Nat /\ epoch <= 1
  BY DEF Unauthorized, HasToken, At, Clean, Tokens, FreshToken, TypeInv, ServerTypeOK
<1>2. epoch = 1
  BY <1>1
<1>3. /\ Fetch(a) /\ epoch' = epoch /\ renewed' = [renewed EXCEPT ![a] = TRUE]
  BY DEF Unauthorized, Renew, serverVars
<1>4. /\ pc'[a] = "token" /\ cached' = Pending
      /\ \A b \in Caller \ {a} : pc'[b] = pc[b] /\ bearer'[b] = bearer[b] /\ renewed'[b] = renewed[b]
  BY <1>3 DEF Fetch, Await, To, TypeInv, RestTypeOK
<1>5. ASSUME NEW b \in Caller PROVE FreshToken(b)'
  <2>1. CASE b = a
    BY <1>2, <1>3, <1>4, <2>1 DEF FreshToken, At
  <2>2. CASE b # a
    BY <1>3, <1>4, <2>2 DEF Clean, Tokens, FreshToken, At
  <2>3. QED
    BY <2>1, <2>2
<1>6. QED
  BY <1>1, <1>3, <1>4, <1>5 DEF Tokens

LEMMA AnsweredFresh ==
  ASSUME TypeInv, Clean, NEW a \in Caller, Answered(a)
  PROVE  Tokens'
<1>1. /\ epoch' = epoch /\ cached' = cached /\ pc'[a] = "answered" /\ renewed'[a] = FALSE
      /\ \A b \in Caller \ {a} : pc'[b] = pc[b] /\ bearer'[b] = bearer[b] /\ renewed'[b] = renewed[b]
  BY DEF Answered, Return, To, NoFault, tokenVars, TypeInv, RestTypeOK
<1>2. ASSUME NEW b \in Caller PROVE FreshToken(b)'
  BY <1>1 DEF Clean, Tokens, FreshToken, At
<1>3. QED
  BY <1>1, <1>2 DEF Clean, Tokens

(* The request steps but the answer leave operations and answers alone.    *)
LEMMA QuietClean ==
  ASSUME TypeInv, Clean, NEW a \in Caller, UNCHANGED taskVars,
         GetToken(a) \/ Settle(a) \/ (Unauthorized(a) /\ ~renewed[a]), Tokens'
  PROVE  Clean'
<1>1. UNCHANGED <<op, wants, reply, listed, result>>
  BY DEF taskVars, GetToken, serverVars, Settle, Unauthorized, Renew
<1>2. \A b \in Caller : pc'[b] = pc[b] \/ (pc[b] \in Before /\ pc'[b] \in {"token", "send"})
  <2>1. CASE GetToken(a)
    BY <2>1 DEF GetToken, Use, Fetch, Await, To, At, Before, TypeInv, RestTypeOK
  <2>2. CASE Settle(a)
    <3>1. PICK token \in {epoch, TimedOut, Rejected} :
            LET waiting == {b \in Caller : At(b, "token") /\ asked[b] = a} IN
              pc' = [b \in Caller |-> IF b \in waiting THEN "send" ELSE pc[b]]
      BY <2>2 DEF Settle
    <3>2. QED
      BY <3>1 DEF At, Before
  <2>3. CASE Unauthorized(a) /\ ~renewed[a]
    BY <2>3 DEF Unauthorized, HasToken, Renew, Fetch, Await, To, At, Before, TypeInv, RestTypeOK
  <2>4. QED
    BY <2>1, <2>2, <2>3
<1>3. ASSUME NEW v \in VM PROVE Sound(v)'
  <2>1. v \in Caller /\ Sound(v)
    BY Constants DEF Clean
  <2>2. pc'[v] = pc[v] \/ (pc[v] \in Before /\ pc'[v] \in {"token", "send"})
    BY <1>2, <2>1
  <2>3. CASE pc'[v] = pc[v]
    BY <1>1, <2>1, <2>3 DEF Sound, Untouched, Still, At
  <2>4. CASE pc[v] \in Before /\ pc'[v] \in {"token", "send"}
    BY <1>1, <2>1, <2>4 DEF Sound, Untouched, Still, At, Before
  <2>5. QED
    BY <2>2, <2>3, <2>4
<1>4. pc'[Lister] # "lost" /\ (At(Lister, "answered")' => reply'[Lister] = "page")
  BY <1>1, <1>2, Constants DEF Clean, At
<1>5. QED
  BY <1>1, <1>3, <1>4 DEF Clean

LEMMA AnsweredSound ==
  ASSUME TypeInv, Listing, Clean, NEW v \in VM, Answered(v), UNCHANGED taskVars
  PROVE  Sound(v)'
<1>1. /\ pc[v] = "send" /\ reply[v] = "none" /\ v \in Caller /\ Sound(v) /\ Listed(v)
  BY Constants DEF Answered, HasToken, At, Clean, Sound, Before, Listing
<1>2. /\ pc'[v] = "answered" /\ reply'[v] = ReplyTo(v) /\ wants' = wants /\ listed' = listed
  BY <1>1 DEF Answered, Return, To, TypeInv, RestTypeOK, taskVars
<1>3. v \in listed /\ wants[v] # "page" /\ wants[v] \in Want
  BY <1>1 DEF Listed, Started, TypeInv, RestTypeOK
<1>4. \A part \in Part : op'[v][part] = IF Begins(v, part) THEN "running" ELSE op[v][part]
  BY DEF Answered, Execute
<1>5. /\ op'[v]["machine"] = IF wants[v] = "act" /\ ~Gone(v, "machine") THEN "running" ELSE op[v]["machine"]
      /\ op'[v]["extension"] = IF wants[v] = "deleteExtension" /\ ~Gone(v, "extension")
                               THEN "running" ELSE op[v]["extension"]
  BY <1>4, Constants DEF Begins, Request
<1>6. CASE wants[v] = "deleteExtension"
  <2>1. reply'[v] = IF Gone(v, "extension") THEN "gone" ELSE "accepted"
    BY <1>1, <1>2, <1>6, ReplyCases
  <2>2. op[v]["extension"] # "running" /\ op[v]["machine"] = "none"
    BY <1>1, <1>6 DEF Sound, Still, Untouched
  <2>3. QED
    BY <1>2, <1>3, <1>5, <1>6, <2>1, <2>2 DEF Sound, Still, Untouched, Active, Before, Gone, At
<1>7. CASE wants[v] = "act"
  <2>1. op[v]["extension"] # "running" /\ op[v]["machine"] = "none"
    BY <1>1, <1>7 DEF Sound, Still, Untouched
  <2>2. ~Gone(v, "machine")
    BY <2>1 DEF Gone
  <2>3. reply'[v] = "accepted"
    BY <1>1, <1>2, <1>7, <2>2, ReplyCases
  <2>4. QED
    BY <1>2, <1>3, <1>5, <1>7, <2>1, <2>2, <2>3 DEF Sound, Still, Untouched, Active, Before, At
<1>8. CASE wants[v] = "pollExtension"
  <2>1. reply'[v] = op[v]["extension"]
    BY <1>1, <1>2, <1>8, ReplyCases
  <2>2. op[v]["extension"] \in Active /\ op[v]["machine"] = "none"
    BY <1>1, <1>3, <1>8 DEF Sound, Still, Untouched
  <2>3. QED
    BY <1>2, <1>3, <1>5, <1>8, <2>1, <2>2 DEF Sound, Still, Untouched, Active, Before, At
<1>9. CASE wants[v] = "poll"
  <2>1. reply'[v] = op[v]["machine"]
    BY <1>1, <1>2, <1>9, ReplyCases
  <2>2. op[v]["extension"] # "running" /\ op[v]["machine"] \in Active
    BY <1>1, <1>3, <1>9 DEF Sound, Still, Untouched
  <2>3. QED
    BY <1>2, <1>3, <1>5, <1>9, <2>1, <2>2 DEF Sound, Still, Untouched, Active, Before, At
<1>10. QED
  BY <1>3, <1>6, <1>7, <1>8, <1>9 DEF Want

LEMMA AnsweredClean ==
  ASSUME TypeInv, Listing, Clean, NEW a \in Caller, Answered(a), UNCHANGED taskVars
  PROVE  Clean'
<1>1. Tokens'
  BY AnsweredFresh
<1>2. /\ wants' = wants /\ listed' = listed /\ result' = result /\ pc'[a] = "answered"
      /\ reply'[a] = ReplyTo(a)
      /\ \A b \in Caller \ {a} : pc'[b] = pc[b] /\ reply'[b] = reply[b]
  BY DEF Answered, Return, To, TypeInv, RestTypeOK, taskVars
<1>3. \A v \in VM \ {a} : op'[v] = op[v]
  BY DEF Answered, Execute, TypeInv, ServerTypeOK
<1>4. ASSUME NEW v \in VM PROVE Sound(v)'
  <2>1. CASE v = a
    BY <2>1, AnsweredSound
  <2>2. CASE v # a
    BY <1>2, <1>3, <2>2, Constants DEF Clean, Sound, Still, Untouched, At
  <2>3. QED
    BY <2>1, <2>2
<1>5. pc'[Lister] # "lost" /\ (At(Lister, "answered")' => reply'[Lister] = "page")
  <2>1. CASE a = Lister
    <3>1. wants[Lister] = "page"
      BY <2>1, SenderWants, Constants DEF Answered, HasToken, At
    <3>2. QED
      BY <1>2, <2>1, <3>1, ReplyCases
  <2>2. CASE a # Lister
    BY <1>2, <2>2, Constants DEF Clean, At
  <2>3. QED
    BY <2>1, <2>2
<1>6. QED
  BY <1>1, <1>2, <1>4, <1>5 DEF Clean

LEMMA RequestClean ==
  ASSUME TypeInv, Listing, Clean, NEW a \in Caller, RequestStep(a), UNCHANGED taskVars, faults' = 0
  PROVE  Clean'
BY CleanSteps, GetTokenFresh, SettleFresh, UnauthorizedFresh, QuietClean, AnsweredClean

LEMMA PageClean ==
  ASSUME TypeInv, TypeInv', Listing, Clean, TakePage \/ ListFails
  PROVE  Clean'
<1>1. /\ pc[Lister] = "answered" /\ result = "none"
      /\ \A v \in VM : pc[v] = "idle" /\ wants[v] = "page" /\ reply[v] = "none"
  BY WhileListing
<1>2. TakePage /\ (MorePages \/ LastPage)
  <2>1. TakePage
    BY <1>1 DEF ListFails, Clean, At
  <2>2. MorePages \/ LastPage
    BY <2>1, PageCases DEF TakePage, MorePages, LastPage, NoPage
  <2>3. QED
    BY <2>1, <2>2
<1>3. /\ UNCHANGED <<bearer, renewed, cached, op, epoch>>
      /\ listed' \in SUBSET VM
  BY PageCases DEF tokenVars, serverVars
<1>4. /\ \A a \in Caller : ~renewed[a] /\ pc[a] # "send"
  <2>1. \A a \in Caller : pc[a] \in {"idle", "answered"}
    BY <1>1, Constants
  <2>2. QED
    BY <2>1 DEF Clean, Tokens, FreshToken
<1>5. \A a \in Caller : pc'[a] # "send"
  BY <1>2, <1>4 DEF MorePages, LastPage
<1>6. Tokens'
  BY <1>3, <1>4, <1>5 DEF Clean, Tokens, FreshToken, At
<1>7. ASSUME NEW v \in VM PROVE Sound(v)'
  <2>1. op[v]["machine"] = "none" /\ op[v]["extension"] # "running" /\ v \in Caller /\ v # Lister
    BY <1>1, Constants DEF Clean, Sound, Untouched, Still
  <2>2. CASE MorePages
    <3>1. pc'[v] = "idle" /\ wants'[v] = "page" /\ reply'[v] = "none" /\ op' = op
      BY <1>1, <1>3, <2>1, <2>2 DEF MorePages
    <3>2. QED
      BY <2>1, <3>1 DEF Sound, Untouched, Still, Before, At
  <2>3. CASE LastPage
    <3>1. /\ pc'[v] \in {"begin", "done"} /\ (v \in listed' => pc'[v] = "begin") /\ reply'[v] = "none"
          /\ wants'[v] \in {"deleteExtension", "act"} /\ op' = op
      BY <1>3, <2>1, <2>3 DEF LastPage, FirstRequest
    <3>2. QED
      BY <2>1, <3>1 DEF Sound, Untouched, Still, Before, At
  <2>4. QED
    BY <1>2, <2>2, <2>3
<1>8. /\ pc'[Lister] \in {"begin", "done"} /\ result' # "failed"
  BY <1>1, <1>2, Constants DEF MorePages, LastPage
<1>9. QED
  BY <1>6, <1>7, <1>8 DEF Clean, At

LEMMA MachineFresh ==
  ASSUME TypeInv, Clean, NEW v \in VM, NEW label \in {"begin", "done"}, MachineMoves(v, label),
         At(v, "answered")
  PROVE  /\ Tokens'
         /\ pc'[Lister] # "lost" /\ (At(Lister, "answered")' => reply'[Lister] = "page")
         /\ \A u \in VM \ {v} : Sound(u)'
<1>1. /\ v \in Caller /\ ~renewed[v] /\ pc'[v] = label /\ Lister # v
      /\ \A b \in Caller \ {v} : pc'[b] = pc[b] /\ wants'[b] = wants[b] /\ reply'[b] = reply[b]
      /\ UNCHANGED <<listed, op, epoch, faults, cached, bearer, renewed>>
  BY Constants DEF MachineMoves, Clean, Tokens, FreshToken, At
<1>2. ASSUME NEW b \in Caller PROVE FreshToken(b)'
  <2>1. CASE b = v
    BY <1>1, <2>1 DEF FreshToken, At
  <2>2. CASE b # v
    BY <1>1, <2>2 DEF Clean, Tokens, FreshToken, At
  <2>3. QED
    BY <2>1, <2>2
<1>3. Tokens'
  BY <1>1, <1>2 DEF Clean, Tokens
<1>4. pc'[Lister] # "lost" /\ (At(Lister, "answered")' => reply'[Lister] = "page")
  BY <1>1, Constants DEF Clean, At
<1>5. ASSUME NEW u \in VM \ {v} PROVE Sound(u)'
  BY <1>1, Constants DEF Clean, Sound, Untouched, Still, At
<1>6. QED
  BY <1>3, <1>4, <1>5

(* How a machine goes on.                                                  *)
LEMMA CleanCases ==
  ASSUME TypeInv, Listing, Verdict, Clean, NEW v \in VM, MachineStep(v)
  PROVE  /\ At(v, "answered") /\ v \in listed /\ Sound(v) /\ result = "none"
         /\ \/ /\ wants[v] = "deleteExtension" /\ reply[v] = "accepted"
               /\ NextRequest(v, "pollExtension")
            \/ /\ wants[v] = "deleteExtension" /\ reply[v] # "accepted"
               /\ NextRequest(v, "act")
            \/ wants[v] = "act" /\ NextRequest(v, "poll")
            \/ wants[v] = "pollExtension" /\ NextRequest(v, "pollExtension")
            \/ wants[v] = "poll" /\ NextRequest(v, "poll")
            \/ wants[v] = "pollExtension" /\ reply[v] = "succeeded" /\ NextRequest(v, "act")
            \/ wants[v] = "poll" /\ reply[v] = "succeeded" /\ Called(v, FALSE)
<1>1. At(v, "answered") /\ v \in listed /\ Sound(v) /\ result = "none"
  BY MachineCases, MachineRuns DEF Clean
<1>2. /\ wants[v] = "act" => reply[v] = "accepted"
      /\ wants[v] \in {"pollExtension", "poll"} => reply[v] \in {"running", "succeeded"}
  BY <1>1 DEF Sound, Active
<1>3. ASSUME NEW part \in Part, wants[v] = Poll(part), NextRequest(v, Poll(part))
      PROVE  \/ wants[v] = "pollExtension" /\ NextRequest(v, "pollExtension")
             \/ wants[v] = "poll" /\ NextRequest(v, "poll")
  BY <1>3 DEF Poll
<1>4. CASE wants[v] = "poll" /\ reply[v] \notin {"bodiless", "running"} /\ Called(v, reply[v] # "succeeded")
  <2>1. reply[v] = "succeeded" /\ (reply[v] # "succeeded") = FALSE
    BY <1>2, <1>4
  <2>2. QED
    BY <1>1, <1>4, <2>1
<1>5. CASE wants[v] = "act" /\ reply[v] # "accepted" /\ Called(v, TRUE)
  BY <1>2, <1>5
<1>6. CASE wants[v] = "poll" /\ reply[v] = "bodiless" /\ Lost(v)
  BY <1>2, <1>6
<1>7. CASE wants[v] = "pollExtension" /\ reply[v] # "running" /\ NextRequest(v, "act")
  BY <1>1, <1>2, <1>7
<1>8. QED
  BY <1>1, <1>3, <1>4, <1>5, <1>6, <1>7, MachineCases, Zenon

LEMMA NextRequestSound ==
  ASSUME TypeInv, NEW v \in VM, NEW what, NextRequest(v, what), v \in listed, Sound(v),
         \/ what \in {"act", "poll"} /\ op[v]["extension"] # "running"
         \/ what = "pollExtension" /\ op[v]["extension"] \in Active,
         \/ what \in {"act", "pollExtension"} /\ op[v]["machine"] = "none"
         \/ what = "poll" /\ op[v]["machine"] \in Active
  PROVE  Sound(v)'
<1>1. /\ pc'[v] = "begin" /\ wants'[v] = what /\ reply'[v] = "none"
      /\ UNCHANGED <<op, listed>>
  BY StepMachine DEF MachineMoves
<1>2. QED
  BY <1>1 DEF Sound, Untouched, Still, Before, At

LEMMA MachineClean ==
  ASSUME TypeInv, TypeInv', Listing, Counts, Verdict, Clean, NEW v \in VM, MachineStep(v)
  PROVE  Clean'
<1>1. At(v, "answered") /\ v \in listed /\ Sound(v) /\ result = "none"
  BY CleanCases
<1>2. /\ wants[v] = "deleteExtension" /\ reply[v] = "accepted" =>
           op[v]["extension"] \in Active /\ op[v]["machine"] = "none"
      /\ wants[v] = "deleteExtension" /\ reply[v] # "accepted" =>
           op[v]["extension"] # "running" /\ op[v]["machine"] = "none"
      /\ wants[v] \in {"act", "poll"} =>
           op[v]["extension"] # "running" /\ op[v]["machine"] \in Active
      /\ wants[v] = "pollExtension" =>
           op[v]["extension"] \in Active /\ op[v]["machine"] = "none"
      /\ wants[v] = "pollExtension" /\ reply[v] = "succeeded" => op[v]["extension"] # "running"
  BY <1>1 DEF Sound, Untouched, Still, At
<1>3. ASSUME NEW what, NextRequest(v, what), Sound(v)'
      PROVE  Clean'
  <2>1. MachineMoves(v, "begin") /\ UNCHANGED result
    BY <1>3, StepMachine
  <2>2. QED
    BY <1>1, <1>3, <2>1, MachineFresh DEF Clean
<1>4. CASE wants[v] = "poll" /\ reply[v] = "succeeded" /\ Called(v, FALSE)
  <2>1. /\ MachineMoves(v, "done") /\ wants'[v] = wants[v] /\ reply'[v] = reply[v]
    BY <1>4, StepMachine
  <2>2. Sound(v)'
    BY <1>1, <1>2, <1>4, <2>1 DEF MachineMoves, Sound, Untouched, Still, Before, At
  <2>3. failureCount = 0
    <3>1. Bad = {}
      BY DEF Bad, Clean, Sound, TypeInv, TaskTypeOK
    <3>2. QED
      BY <3>1, FS_EmptySet DEF Counts
  <2>4. result' # "failed"
    BY <1>1, <1>4, <2>3 DEF Called, Callback, Result
  <2>5. QED
    BY <1>1, <2>1, <2>2, <2>4, MachineFresh DEF Clean
<1>5. CASE wants[v] = "deleteExtension" /\ reply[v] = "accepted" /\ NextRequest(v, "pollExtension")
  BY <1>1, <1>2, <1>3, <1>5, NextRequestSound
<1>6. CASE wants[v] = "deleteExtension" /\ reply[v] # "accepted" /\ NextRequest(v, "act")
  BY <1>1, <1>2, <1>3, <1>6, NextRequestSound
<1>7. CASE wants[v] = "act" /\ NextRequest(v, "poll")
  BY <1>1, <1>2, <1>3, <1>7, NextRequestSound
<1>8. CASE wants[v] = "pollExtension" /\ NextRequest(v, "pollExtension")
  BY <1>1, <1>2, <1>3, <1>8, NextRequestSound
<1>9. CASE wants[v] = "poll" /\ NextRequest(v, "poll")
  BY <1>1, <1>2, <1>3, <1>9, NextRequestSound
<1>10. CASE wants[v] = "pollExtension" /\ reply[v] = "succeeded" /\ NextRequest(v, "act")
  BY <1>1, <1>2, <1>3, <1>10, NextRequestSound
<1>11. QED
  BY <1>4, <1>5, <1>6, <1>7, <1>8, <1>9, <1>10, CleanCases

LEMMA ServerClean ==
  ASSUME TypeInv, Clean, ServerStep, faults = 0, faults' = 0
  PROVE  Clean'
<1>1. UNCHANGED <<pc, wants, reply, listed, result, cached, bearer, renewed>>
  BY DEF ServerStep, requestVars, taskVars, tokenVars
<1>2. \A v \in VM, part \in Part :
        op'[v][part] = op[v][part] \/ (op[v][part] = "running" /\ op'[v][part] = "succeeded")
  BY ServerOps
<1>3. epoch' = epoch \/ (epoch = 0 /\ epoch' = 1)
  BY DEF ServerStep, Finish, Fault, NoFault, Expire, TypeInv, ServerTypeOK
<1>4. Tokens'
  <2>1. epoch' <= 1 /\ epoch \in Nat /\ epoch' \in Nat /\ epoch <= epoch'
    BY <1>3 DEF Clean, Tokens, TypeInv, ServerTypeOK
  <2>2. cached' \in {NoToken, Pending} \cup (0..epoch')
    BY <1>1, <2>1 DEF Clean, Tokens
  <2>3. ASSUME NEW b \in Caller PROVE FreshToken(b)'
    BY <1>1, <1>3, <2>1 DEF Clean, Tokens, FreshToken, At
  <2>4. QED
    BY <2>1, <2>2, <2>3 DEF Tokens
<1>5. ASSUME NEW v \in VM PROVE Sound(v)'
  <2>1. /\ op'[v]["machine"] = op[v]["machine"]
           \/ (op[v]["machine"] = "running" /\ op'[v]["machine"] = "succeeded")
        /\ op'[v]["extension"] = op[v]["extension"]
           \/ (op[v]["extension"] = "running" /\ op'[v]["extension"] = "succeeded")
    BY <1>2, Constants
  <2>2. Sound(v)
    BY DEF Clean
  <2>3. QED
    BY <1>1, <2>1, <2>2 DEF Sound, Untouched, Still, Active, At
<1>6. QED
  BY <1>1, <1>4, <1>5 DEF Clean, At

(* Faults are never taken back.                                            *)
LEMMA FaultsStay ==
  ASSUME TypeInv, Next, faults' = 0
  PROVE  faults = 0
<1>1. faults \in Nat
  BY DEF TypeInv, ServerTypeOK
<1>2. faults' = faults \/ faults' = faults + 1
  <2>1. Fault => faults' = faults + 1
    BY DEF Fault
  <2>2. NoFault => faults' = faults
    BY DEF NoFault
  <2>3. ASSUME NEW a \in Caller, RequestStep(a) PROVE faults' = faults \/ faults' = faults + 1
    BY <2>1, <2>2, <2>3 DEF RequestStep, GetToken, Settle, LoseFetch, NoRequest, Unauthorized,
      Answered, Retry, FailRequest, serverVars
  <2>4. TakePage \/ ListFails => faults' = faults
    BY PageCases DEF serverVars
  <2>5. ASSUME NEW v \in VM, MachineStep(v) PROVE faults' = faults
    BY <2>5, MachineChanges DEF MachineMoves
  <2>6. ServerStep => faults' = faults \/ faults' = faults + 1
    BY <2>1, <2>2 DEF ServerStep, Finish, Expire
  <2>7. QED
    BY <2>3, <2>4, <2>5, <2>6, NextCases
<1>3. QED
  BY <1>1, <1>2

LEMMA NextExpiry ==
  ASSUME TypeInv, TypeInv', Listing, Counts, Verdict, ExpiryInv, [Next]_vars
  PROVE  ExpiryInv'
<1>1. CASE UNCHANGED vars
  BY <1>1 DEF vars, serverVars, tokenVars, requestVars, taskVars, ExpiryInv, Clean, Tokens,
    FreshToken, Sound, Untouched, Still, At
<1>2. CASE Next /\ faults' = 0
  <2>1. faults = 0 /\ Clean
    BY <1>2, FaultsStay DEF ExpiryInv
  <2>2. Clean'
    BY <1>2, <2>1, NextCases, RequestClean, PageClean, MachineClean, ServerClean
  <2>3. QED
    BY <2>2 DEF ExpiryInv
<1>3. QED
  BY <1>1, <1>2 DEF ExpiryInv

-----------------------------------------------------------------------------
(* The theorems.                                                           *)

LEMMA InitInv == Init => IInv
<1> SUFFICES ASSUME Init PROVE IInv
  OBVIOUS
<1>1. TypeInv
  BY InitTypes
<1>2. /\ pc = [a \in Caller |-> IF a = Lister THEN "begin" ELSE "idle"]
      /\ wants = [a \in Caller |-> "page"] /\ reply = [a \in Caller |-> "none"]
      /\ renewed = [a \in Caller |-> FALSE] /\ cached = NoToken /\ epoch = 0
      /\ listed = {} /\ successCount = 0 /\ failureCount = 0 /\ result = "none"
  BY DEF Init, InitServer, InitRest
<1>3. \A v \in VM : /\ pc[v] = "idle" /\ wants[v] = "page" /\ reply[v] = "none"
                    /\ op[v]["machine"] = "none" /\ op[v]["extension"] # "running"
  <2>1. \A v \in VM : op[v]["machine"] = "none" /\ op[v]["extension"] # "running"
    BY Constants DEF Init, InitServer
  <2>2. QED
    BY <1>2, <2>1, Constants
<1>4. Waiting
  BY <1>2 DEF Waiting, Fetching, Awaiting, At, NoToken, Pending
<1>5. Listing
  BY <1>2, <1>3, Constants DEF Listing, Listed, At
<1>6. Replies
  BY <1>3 DEF Replies, Replied, Succeeded
<1>7. Counts
  <2>1. Good = {} /\ Bad = {}
    BY <1>2 DEF Good, Bad
  <2>2. QED
    BY <1>2, <2>1, FS_EmptySet DEF Counts
<1>8. Verdict
  BY <1>2 DEF Verdict
<1>9. Clean
  <2>1. Tokens
    BY <1>2 DEF Tokens, FreshToken, At
  <2>2. ASSUME NEW v \in VM PROVE Sound(v)
    BY <1>2, <1>3 DEF Sound, Untouched, Still, Before, At
  <2>3. pc[Lister] = "begin"
    BY <1>2, Constants
  <2>4. QED
    BY <1>2, <2>1, <2>2, <2>3 DEF Clean, At
<1>10. QED
  BY <1>1, <1>4, <1>5, <1>6, <1>7, <1>8, <1>9 DEF IInv, ExpiryInv

LEMMA NextInv == IInv /\ [Next]_vars => IInv'
<1> SUFFICES ASSUME IInv, [Next]_vars PROVE IInv'
  OBVIOUS
<1>1. TypeInv'
  BY NextTypes DEF IInv
<1>2. Waiting' /\ Listing' /\ Replies'
  BY <1>1, NextWaiting, NextListing, NextReplies DEF IInv
<1>3. Counts'
  BY <1>1, NextCounts DEF IInv
<1>4. Verdict'
  BY <1>1, <1>2, <1>3, NextVerdict DEF IInv
<1>5. ExpiryInv'
  BY <1>1, NextExpiry DEF IInv
<1>6. QED
  BY <1>1, <1>2, <1>3, <1>4, <1>5 DEF IInv

(* The invariant is one of every behaviour of the task.                    *)
THEOREM ArmInvariant == Spec => []IInv
<1>1. Init => IInv
  BY InitInv
<1>2. IInv /\ [Next]_vars => IInv'
  BY NextInv
<1>3. QED
  BY <1>1, <1>2, PTL DEF Spec

(* No request is attempted too often, no fetch awaited that nobody makes,   *)
(* and every machine counts once.                                          *)
THEOREM ArmTypeCorrect == Spec => []AzureTypeOK
<1>1. IInv => AzureTypeOK
  <2> SUFFICES ASSUME IInv PROVE AzureTypeOK
    OBVIOUS
  <2>1. ServerTypeOK /\ RestTypeOK /\ TaskTypeOK
    BY DEF IInv, TypeInv
  <2>2. \A a \in Caller : At(a, "token") =>
          pc[asked[a]] \in {"token", "lost"} /\ asked[asked[a]] = asked[a]
    BY DEF IInv, Waiting, Awaiting, Fetches
  <2>3. successCount + failureCount = Cardinality({v \in listed : pc[v] = "done"})
    <3>1. /\ IsFiniteSet(Good) /\ IsFiniteSet(Bad)
          /\ Cardinality(Good) \in Nat /\ Cardinality(Bad) \in Nat
      BY FiniteListed DEF IInv
    <3>2. Good \cap Bad = {} /\ Good \cup Bad = {v \in listed : pc[v] = "done"}
      BY DEF Good, Bad, Succeeded, At
    <3>3. Cardinality(Good \cup Bad) = Cardinality(Good) + Cardinality(Bad)
      BY <3>1, <3>2, FS_Union, FS_EmptySet
    <3>4. QED
      BY <3>2, <3>3 DEF IInv, Counts
  <2>4. QED
    BY <2>1, <2>2, <2>3 DEF AzureTypeOK
<1>2. QED
  BY <1>1, ArmInvariant, PTL

(* A task that succeeds has done to every machine what it was asked to do.  *)
THEOREM ActionsAreReal == Spec => []ActionIsReal
<1>1. IInv => ActionIsReal
  BY DEF IInv, TypeInv, TaskTypeOK, Verdict, Replies, Replied, Succeeded, ActionIsReal
<1>2. QED
  BY <1>1, ArmInvariant, PTL

(* The task ends after all of its requests, and after all operations it    *)
(* has begun if nothing failed.                                            *)
THEOREM AllEndTogether == Spec => []EndsTogether
<1>1. IInv => EndsTogether
  <2> SUFFICES ASSUME IInv, result # "none" PROVE /\ \A a \in Caller : pc[a] \notin Before
                                                  /\ faults = 0 => \A v \in VM, part \in Part : op[v][part] # "running"
    BY DEF EndsTogether, Before
  <2>1. \A a \in Caller : pc[a] \notin Before
    BY Constants DEF IInv, Verdict, Before, At
  <2>2. ASSUME faults = 0, NEW v \in VM PROVE op[v]["machine"] # "running" /\ op[v]["extension"] # "running"
    <3>1. Clean /\ Sound(v)
      BY <2>2 DEF IInv, ExpiryInv, Clean
    <3>2. result = "succeeded"
      BY <3>1 DEF IInv, TypeInv, TaskTypeOK, Clean
    <3>3. CASE v \in listed
      <4>1. wants[v] = "poll" /\ op[v]["machine"] = "succeeded"
        BY <3>2, <3>3 DEF IInv, Verdict, Replies, Replied, Succeeded
      <4>2. QED
        BY <3>1, <4>1 DEF Sound, Still
    <3>4. CASE v \notin listed
      BY <3>1, <3>4 DEF Sound, Still, Untouched
    <3>5. QED
      BY <3>3, <3>4
  <2>3. QED
    BY <2>1, <2>2 DEF Part
<1>2. QED
  BY <1>1, ArmInvariant, PTL

(* Nothing fails because all tokens expire once.                           *)
THEOREM ExpiryIsHarmless == Spec => []ExpiryHarmless
<1>1. IInv => ExpiryHarmless
  <2> SUFFICES ASSUME IInv, faults = 0 PROVE failureCount = 0 /\ result # "failed"
    BY DEF ExpiryHarmless
  <2>1. Clean
    BY DEF IInv, ExpiryInv
  <2>2. Bad = {}
    BY <2>1 DEF Bad, Clean, Sound, IInv, TypeInv, TaskTypeOK
  <2>3. QED
    BY <2>1, <2>2, FS_EmptySet DEF IInv, Counts, Clean
<1>2. QED
  BY <1>1, ArmInvariant, PTL
=============================================================================
