------------------------ MODULE JenkinsQueueOutcome -------------------------
(***************************************************************************)
(* Proofs about what the queue has achieved when it stops: LogsFlushed,    *)
(* SuccessIsReal and FailureIsReal, the refinement of PipelineTracking,    *)
(* and NeverThrows for a pipeline that shares no project among its places. *)
(***************************************************************************)
EXTENDS JenkinsQueueTracking

-----------------------------------------------------------------------------
(* A callback's resolutions start at most one job, the one they are about;  *)
(* other jobs are only given up.                                           *)

GivesUp(t, r) ==
  /\ r \in Tracked
  /\ r.legal => /\ t.legal /\ r.num = t.num
                /\ \A x \in Job : \/ r.state[x] = t.state[x]
                                  \/ t.state[x] \in Pending /\ r.state[x] \in GivenUp

(* How job j itself goes from state s and number n to s2 and n2. *)
Opens(s, n, s2, n2) ==
  \/ s2 = s /\ n2 = n
  \/ s \in Pending /\ \/ s2 \in GivenUp /\ n2 = n
                      \/ s2 = "Streaming" /\ n2 # -1 /\ opts.captureConsole
                      \/ s2 = "Finishing" /\ n2 = n /\ ~opts.captureConsole

Starts(t, r, j) ==
  r.legal => /\ \A x \in Job \ {j} :
                  /\ r.num[x] = t.num[x]
                  /\ \/ r.state[x] = t.state[x]
                     \/ t.state[x] \in Pending /\ r.state[x] \in GivenUp
             /\ Opens(t.state[j], t.num[j], r.state[j], r.num[j])

LEMMA GivesUpStarts ==
  ASSUME NEW t, NEW r, GivesUp(t, r), NEW j \in Job
  PROVE  Starts(t, r, j)
BY DEF GivesUp, Starts, Opens

LEMMA ThrownGivesUp ==
  ASSUME NEW t \in Tracked
  PROVE  GivesUp(t, Thrown(t))
BY ThrownMoves DEF GivesUp, Moves

LEMMA JoinedToGivesUp ==
  ASSUME NEW t \in Tracked, NEW S \in SUBSET Job, NEW m \in Job
  PROVE  GivesUp(t, JoinedTo(t, S, m))
<1> DEFINE q == JoinedTo(t, S, m)
<1>1. q \in Tracked
  BY JoinedToMoves DEF Moves
<1>2. q.legal => JoinsInto(t, S, m, q)
  BY JoinedToIs
<1> HIDE DEF q
<1>3. GivesUp(t, q)
  BY <1>1, <1>2 DEF JoinsInto, GivesUp, GivenUp
<1> QED BY <1>3 DEF q

LEMMA CutTreeGivesUp ==
  ASSUME NEW t \in Tracked, NEW j \in Job
  PROVE  GivesUp(t, CutTree(t, j))
<1> DEFINE q == CutTree(t, j)
           cut(x) == t.state[x] # "Absent" /\ (x = j \/ Beneath({j}, x))
<1>1. q \in Tracked
  BY CutTreeMoves DEF Moves
<1>2. q.legal => /\ q.num = t.num /\ t.legal
                 /\ q.state = [x \in Job |-> IF cut(x) THEN "Cut" ELSE t.state[x]]
                 /\ \A x \in Job : cut(x) => t.state[x] \in Pending
  BY CutTreeIs
<1> HIDE DEF q, cut
<1>3. GivesUp(t, q)
  BY <1>1, <1>2 DEF GivesUp, GivenUp
<1> QED BY <1>3 DEF q

LEMMA WithOthersGivesUp ==
  ASSUME NEW t \in Tracked, NEW j \in Job
  PROVE  GivesUp(t, WithOthersJoined(t, j))
<1> DEFINE id == Ident[j]
           n == t.num[j]
           others == {x \in Secondaries(t, id, n) : t.state[x] # "Cut"}
           reached == Reached(t, id, n, others)
           main == Determinable(t, id, n) /\ MainJob(t, id, n) = j
<1>1. CASE j = Root
  <2>1. WithOthersJoined(t, j) = t
    BY <1>1, Zenon DEF WithOthersJoined
  <2> QED BY <2>1, TrackedParts DEF GivesUp
<1>2. CASE j # Root /\ main
  <2>1. WithOthersJoined(t, j) = JoinedTo(t, reached, j)
    BY <1>2, Zenon DEF WithOthersJoined
  <2>2. reached \in SUBSET Job
    BY DEF Reached, Secondaries, CauseChildren
  <2> HIDE DEF reached
  <2> QED BY <2>1, <2>2, JoinedToGivesUp
<1>3. CASE j # Root /\ ~main
  <2>1. WithOthersJoined(t, j) = Thrown(t)
    BY <1>3, Zenon DEF WithOthersJoined
  <2> QED BY <2>1, ThrownGivesUp
<1> QED BY <1>1, <1>2, <1>3

(* The number a job gets with SetStreaming is a number. *)
LEMMA StreamingStarts ==
  ASSUME NEW t \in Tracked, t.num[Root] # -1, NEW j \in Job, NEW n, RightNumber(t, j, n)
  PROVE  Starts(t, Streaming(t, j, n), j)
<1> USE JobAssumption
<1>1. CASE ~opts.captureConsole /\ t.state[j] \in Pending
  <2> DEFINE k == t.num[j]
             r == Started(t, j, "Finishing", k)
  <2>1. Streaming(t, j, n) = r
    BY <1>1, Zenon DEF Streaming
  <2>2. [t.num EXCEPT ![j] = k] = t.num /\ k \in Nat \cup {-1}
    BY TrackedParts
  <2> HIDE DEF k
  <2>3. /\ r.state = [t.state EXCEPT ![j] = "Finishing"]
        /\ r.num = [t.num EXCEPT ![j] = k]
    BY <2>2, FinishingType
  <2>4. r.num = t.num
    BY <2>2, <2>3, Zenon
  <2> HIDE DEF r
  <2> QED BY <1>1, <2>1, <2>3, <2>4, TrackedParts DEF Starts, Opens
<1>2. CASE opts.captureConsole /\ t.state[j] \in Pending
  <2> DEFINE u == Started(t, j, "Streaming", n)
             r == WithOthersJoined(u, j)
  <2>1. Streaming(t, j, n) = r
    BY <1>2, Zenon DEF Streaming
  <2>2. /\ u \in Tracked
        /\ u.state = [t.state EXCEPT ![j] = "Streaming"]
        /\ u.num = [t.num EXCEPT ![j] = n]
    BY StreamedType DEF RightNumber
  <2>3. n # -1
    BY TrackedParts DEF RightNumber, Sourced
  <2> HIDE DEF u
  <2>4. GivesUp(u, r)
    BY <2>2, WithOthersGivesUp
  <2> HIDE DEF r
  <2>5. \A x \in Job \ {j} : u.state[x] = t.state[x] /\ u.num[x] = t.num[x]
    BY <2>2, TrackedParts
  <2>6. u.state[j] = "Streaming" /\ u.num[j] = n
    BY <2>2, TrackedParts
  <2>7. r.legal => r.state[j] = "Streaming" /\ r.num[j] = n
    BY <2>4, <2>6 DEF GivesUp, Pending
  <2>8. r.legal => \A x \in Job \ {j} :
                     /\ r.num[x] = t.num[x]
                     /\ \/ r.state[x] = t.state[x]
                        \/ t.state[x] \in Pending /\ r.state[x] \in GivenUp
    BY <2>4, <2>5 DEF GivesUp
  <2>9. r.legal => Opens(t.state[j], t.num[j], r.state[j], r.num[j])
    BY <1>2, <2>3, <2>7 DEF Opens
  <2> QED BY <2>1, <2>8, <2>9 DEF Starts
<1>3. CASE opts.captureConsole /\ t.state[j] \notin Pending \cup GivenUp
  <2>1. Streaming(t, j, n) = WithOthersJoined(t, j)
    BY <1>3, Zenon DEF Streaming
  <2> QED BY <2>1, WithOthersGivesUp, GivesUpStarts
<1>4. CASE t.state[j] \notin Pending /\ (~opts.captureConsole \/ t.state[j] \in GivenUp)
  <2>1. Streaming(t, j, n) = Thrown(t)
    BY <1>4, Zenon DEF Streaming
  <2> QED BY <2>1, ThrownGivesUp, GivesUpStarts
<1> QED BY <1>1, <1>2, <1>3, <1>4

LEMMA ResolvedStarts ==
  ASSUME ServerTypeOK, NEW t \in Tracked, t.num[Root] # -1, Existing(t), NEW j \in Job
  PROVE  Starts(t, Resolved(t, j), j)
<1> USE JobAssumption
<1> DEFINE id == Ident[j]
           hits == {n \in t.known[id] : j = MainJob(t, id, n)
                                          \/ j \in Secondaries(t, id, n)}
           first == CHOOSE n \in hits : \A m \in hits : n <= m
           tried == IF hits = {} THEN t.known[id]
                                 ELSE {n \in t.known[id] : n <= first}
           safe == \A n \in tried : Determinable(t, id, n)
           main == MainJob(t, id, first)
           late == /\ t.state[j] \in Pending /\ j # Root
                   /\ t.state[Parent[j]] \in GivenUp
           due == t.state[j] \in Pending /\ j # Root /\ ~late
<1>1. CASE t.state[j] \notin Pending
  <2>1. Resolved(t, j) = t
    BY <1>1, Zenon DEF Resolved
  <2> QED BY <2>1 DEF Starts, Opens
<1>2. CASE t.state[j] \in Pending /\ j = Root
  <2>1. Resolved(t, j) = Streaming(t, j, t.num[j])
    BY <1>2, Zenon DEF Resolved
  <2>2. RightNumber(t, j, t.num[j])
    BY <1>2, TrackedParts DEF RightNumber
  <2> QED BY <2>1, <2>2, StreamingStarts
<1>3. CASE late
  <2>1. Resolved(t, j) = CutTree(t, j)
    BY <1>3, Zenon DEF Resolved
  <2> QED BY <2>1, CutTreeGivesUp, GivesUpStarts
<1>4. CASE due /\ ~safe
  <2>1. Resolved(t, j) = Thrown(t)
    BY <1>4, Zenon DEF Resolved
  <2> QED BY <2>1, ThrownGivesUp, GivesUpStarts
<1>5. CASE due /\ safe /\ hits = {}
  <2>1. Resolved(t, j) = t
    BY <1>5, Zenon DEF Resolved
  <2> QED BY <2>1 DEF Starts, Opens
<1>6. CASE due /\ safe /\ hits # {}
  <2>1. first \in hits
    <3>1. hits \in SUBSET Nat
      BY TrackedParts
    <3>2. \E n \in hits : \A m \in hits : n <= m
      BY <1>6, <3>1, NatMin
    <3> QED BY <3>2, Zenon
  <2>2. id \in Id /\ first \in t.known[id] /\ first \in Nat
    BY <2>1, TrackedParts
  <2>3. main \in CauseChildren(t, id, first, Ran) \cup {NoJob}
    <3> HIDE DEF first
    <3> QED BY <2>2, MainJobIn
  <2>4. CASE main = j
    <3>1. Resolved(t, j) = Streaming(t, j, first)
      BY <1>6, <2>4, Zenon DEF Resolved
    <3> HIDE DEF first, main, safe
    <3>2. RightNumber(t, j, first)
      BY <1>6, <2>2, <2>3, <2>4
      DEF RightNumber, Sourced, BuildNumber, CauseChildren
    <3> QED BY <3>1, <3>2, StreamingStarts
  <2>5. CASE main # j
    <3>1. Resolved(t, j) = JoinedTo(t, {j}, main)
      BY <1>6, <2>5, Zenon DEF Resolved
    <3>2. main \in Job
      <4>1. j \in Secondaries(t, id, first)
        BY <2>1, <2>5
      <4>2. main # NoJob
        BY <4>1 DEF Secondaries
      <4> HIDE DEF main
      <4> QED BY <2>3, <4>2 DEF CauseChildren
    <3> HIDE DEF main
    <3> QED BY <3>1, <3>2, JoinedToGivesUp, GivesUpStarts
  <2> QED BY <2>4, <2>5
<1> HIDE DEF safe, hits
<1> QED BY <1>1, <1>2, <1>3, <1>4, <1>5, <1>6

(* The same of a step: the children kids are constructed, job j may start.    *)
NewBorn(kids, x) == IF x \in kids THEN "New" ELSE state[x]

StartsJob(kids, j) ==
  /\ kids \in SUBSET (Job \ {j})
  /\ \A x \in kids : state[x] = "Absent"
  /\ \A x \in Job \ {j} :
       /\ num'[x] = num[x]
       /\ \/ state'[x] = NewBorn(kids, x)
          \/ NewBorn(kids, x) \in Pending /\ state'[x] \in GivenUp
  /\ \/ Opens(state[j], num[j], state'[j], num'[j])
     \/ state[j] \in Pending /\ state'[j] = "Locating" /\ num'[j] = num[j]

(* A job that may be started, or given up, by a search. *)
SearchStarts ==
  \/ UNCHANGED trackVars
  \/ \E j \in Job : StartsJob({}, j)

LEMMA SettleStarts ==
  ASSUME NEW t, t.state = state, t.num = num, NEW j \in Job, NEW r, Starts(t, r, j),
         Settle(r), ~threw'
  PROVE  SearchStarts
<1>1. r.legal
  BY Zenon DEF Settle
<1> QED BY <1>1 DEF Settle, Starts, SearchStarts, StartsJob, NewBorn

LEMMA ResolveStarts ==
  ASSUME Typed, num[Root] # -1, ~threw', NEW id \in Id, ResolveOne(id)
  PROVE  SearchStarts
<1>1. PICK j \in unresolved : Settle(Resolved(T, j))
  BY DEF ResolveOne
<1>2. T \in Tracked /\ T.state = state /\ T.num = num /\ T.known = foundCauses
  BY TType DEF Typed
<1>3. Existing(T) /\ j \in Job
  BY <1>2 DEF Typed, TypeOK, FoundExist, Existing
<1>4. Starts(T, Resolved(T, j), j)
  BY <1>2, <1>3, ResolvedStarts DEF Typed, TypeOK
<1> QED BY <1>1, <1>2, <1>3, <1>4, SettleStarts

LEMMA AnsweredStarts ==
  ASSUME Typed, num[Root] # -1, NEW id \in Id, NEW n \in DOMAIN builds[id]
  PROVE  \E j \in Job : Starts(Located(id, n), Answered(id, n), j)
<1> USE JobAssumption
<1> DEFINE t == Located(id, n)
           ok == Determinable(t, id, n)
           main == MainJob(t, id, n)
           r == Answered(id, n)
<1>1. /\ t \in Tracked /\ t.state = state /\ t.num = num
      /\ t.known = [foundCauses EXCEPT ![id] = @ \cup {n}]
  BY LocatedMoves
<1>2. Existing(t) /\ n \in t.known[id] /\ n \in Nat
  BY <1>1 DEF Typed, TypeOK, FoundExist, Existing, ServerTypeOK
<1>3. main \in CauseChildren(t, id, n, Ran) \cup {NoJob}
  <2> HIDE DEF t
  <2> QED BY <1>1, <1>2, MainJobIn DEF Typed, TypeOK
<1>4. CASE ~ok
  <2>1. r = Thrown(t)
    BY <1>4, Zenon DEF Answered
  <2> HIDE DEF t, r
  <2> QED BY <1>1, <2>1, ThrownGivesUp, GivesUpStarts DEF t, r
<1>5. CASE ok /\ main = NoJob
  <2>1. r = t
    BY <1>5, Zenon DEF Answered
  <2> HIDE DEF t, r
  <2>2. Starts(t, r, Root)
    BY <2>1 DEF Starts, Opens
  <2> QED BY <2>2 DEF t, r
<1>6. CASE ok /\ main # NoJob
  <2>1. r = Streaming(t, main, n)
    BY <1>6, Zenon DEF Answered
  <2>2. main \in Job
    BY <1>3, <1>6 DEF CauseChildren
  <2> HIDE DEF t, r, main, ok
  <2>3. RightNumber(t, main, n)
    BY <1>2, <1>3, <1>6, <2>2 DEF RightNumber, Sourced, BuildNumber, CauseChildren
  <2>4. Starts(t, r, main)
    BY <1>1, <2>1, <2>2, <2>3, StreamingStarts
  <2> QED BY <2>2, <2>4 DEF t, r
<1> QED BY <1>4, <1>5, <1>6

LEMMA LocateStarts ==
  ASSUME Typed, num[Root] # -1, ~threw', NEW id \in Id, LocateResponse(id)
  PROVE  SearchStarts
<1> DEFINE n == nextNum[id]
           t == Located(id, n)
           r == Answered(id, n)
<1>1. UNCHANGED trackVars \/ (n \in DOMAIN builds[id] /\ Settle(r))
  BY LocateCases
<1>2. ASSUME n \in DOMAIN builds[id], Settle(r)
      PROVE  SearchStarts
  <2>1. PICK j \in Job : Starts(t, r, j)
    <3> HIDE DEF n
    <3> QED BY <1>2, AnsweredStarts
  <2>2. t.state = state /\ t.num = num
    BY DEF Located, Track
  <2> HIDE DEF t, r
  <2> QED BY <1>2, <2>1, <2>2, SettleStarts
<1> QED BY <1>1, <1>2 DEF SearchStarts

(* The children that the initialization of job j constructs. *)
Kids(j) == IF opts.capturePipeline THEN Children(j) ELSE {}

(* The continuation of job j's initialization, when no check throws. *)
Continues(j) ==
  /\ StartsJob(Kids(j), j) /\ state'[j] \notin {"New", "Absent"}
  /\ pc'[j] = "idle" /\ \A x \in Kids(j) : pc'[x] \in {"init", "ready"}
  /\ \A x \in Job \ (Kids(j) \cup {j}) : pc'[x] = pc[x]

LEMMA ContinueStarts ==
  ASSUME Typed, Safe, num[Root] # -1, ~threw', NEW j \in Job,
         pc[j] \in {"init", "ready"}, Continue(j)
  PROVE  Continues(j)
<1> USE JobAssumption
<1> DEFINE kids == Kids(j)
           t == Born(kids)
           r == Resolved(t, j)
           st == [r.state EXCEPT ![j] = IF @ = "New" /\ r.legal THEN "Locating" ELSE @]
           u == Track(st, r.num, r.joined, r.known, r.legal)
<1>1. /\ Settle(u)
      /\ pc' = [x \in Job |->
           CASE x = j -> IF r.legal THEN "idle" ELSE "stuck"
             [] x \in kids /\ x # j ->
                  IF initialized[Ident[x]] THEN "ready" ELSE "init"
             [] OTHER -> pc[x]]
  BY Zenon DEF Continue, Born, Kids
<1>2. state[j] # "Absent" /\ \A x \in kids : x \in Job \ {j} /\ state[x] = "Absent"
  BY DEF Safe, Constructed, Children, Kids
<1> HIDE DEF kids
<1>3. /\ t \in Tracked /\ t.num = num
      /\ t.state = [x \in Job |-> IF x \in kids THEN "New" ELSE state[x]]
      /\ t.known = foundCauses
  BY BornType DEF Typed
<1>4. Existing(t)
  BY <1>3 DEF Typed, FoundExist, Existing
<1> HIDE DEF t
<1>5. r \in Tracked /\ Starts(t, r, j)
  BY <1>3, <1>4, ResolvedMoves, ResolvedStarts DEF Moves, Typed, TypeOK
<1> HIDE DEF r
<1>6. u.state = st /\ u.num = r.num /\ u.legal = r.legal
  BY DEF Track
<1> HIDE DEF u
<1>7. r.legal
  BY <1>1, <1>6, Zenon DEF Settle
<1>8. state' = st /\ num' = r.num
  BY <1>1, <1>6 DEF Settle
<1>9. r.state \in [Job -> JobState \cup {"Absent"}]
  BY <1>5, TrackedParts
<1>10. state'[j] = IF r.state[j] = "New" THEN "Locating" ELSE r.state[j]
  BY <1>7, <1>8, <1>9
<1>11. \A x \in Job \ {j} : state'[x] = r.state[x]
  BY <1>8, <1>9
<1>12. \A x \in Job \ {j} : t.state[x] = NewBorn(kids, x)
  BY <1>3 DEF NewBorn
<1>13. t.state[j] = state[j]
  BY <1>2, <1>3
<1>14. Opens(state[j], num[j], r.state[j], r.num[j])
  BY <1>3, <1>5, <1>7, <1>13 DEF Starts
<1>15. /\ state'[j] \notin {"New", "Absent"}
       /\ \/ Opens(state[j], num[j], state'[j], num'[j])
          \/ state[j] \in Pending /\ state'[j] = "Locating" /\ num'[j] = num[j]
  BY <1>2, <1>8, <1>10, <1>14 DEF Opens, GivenUp, Pending
<1>16. \A x \in Job \ {j} :
         /\ num'[x] = num[x]
         /\ \/ state'[x] = NewBorn(kids, x)
            \/ NewBorn(kids, x) \in Pending /\ state'[x] \in GivenUp
  BY <1>3, <1>5, <1>7, <1>8, <1>11, <1>12 DEF Starts
<1>17. StartsJob(kids, j)
  BY <1>2, <1>15, <1>16 DEF StartsJob
<1>18. /\ pc'[j] = "idle" /\ \A x \in kids : pc'[x] \in {"init", "ready"}
       /\ \A x \in Job \ (kids \cup {j}) : pc'[x] = pc[x]
  BY <1>1, <1>2, <1>7, Zenon
<1> QED BY <1>15, <1>17, <1>18 DEF Continues, kids

-----------------------------------------------------------------------------
(* The inductive invariant.                                                *)

(* A request of the job's work is on its way only while the job runs. *)
Requested == \A j \in Job : pc[j] = "http" => state[j] \in Running

(* A job that runs without a build number is not followed: finish() ends it   *)
(* without a request.                                                      *)
NumberKnown ==
  /\ num[Root] = RootNumber
  /\ \A j \in Job : state[j] \in Launched /\ num[j] = -1
       => /\ ~opts.captureConsole /\ pc[j] # "http"
          /\ state[j] \in {"Finishing", "Queued"}

Resulted ==
  \A j \in Job : state[j] \in {"Downloading", "Done"} => Result(j) # "none"

AtRest ==
  \A j \in Job :
    /\ state[j] \in {"Downloading", "Queued", "Done", "Killed"}
         => pc[j] \notin {"none", "init", "ready"}
    /\ state[j] = "Done" => pc[j] = "idle"
    /\ state[j] = "Queued" => ~opts.captureConsole

(* A job that would still be active is below one that was given up. *)
Abandoned(j) == state[j] = "New" /\ j # Root /\ state[Parent[j]] \in GivenUp

(* Once the queue has stopped complete, no job runs, starts or fails. *)
Stopped ==
  complete => /\ phase # "running"
              /\ \A j \in Job : ~HasFailed(j) /\ (state[j] \in Active => Abandoned(j))

Failures ==
  /\ \A j \in Job : state[j] = "Killed" => failed
  /\ opts.shouldFail => failed
  /\ opts.capturePipeline => opts.captureConsole

Ending ==
  /\ Requested /\ NumberKnown /\ Resulted /\ AtRest /\ Stopped /\ LogsFlushed
  /\ Failures

LEMMA RootNumberIs == RootNumber # -1
BY ServerAssumption DEF RootNumber

LEMMA EndingInit == Init => Ending
<1> SUFFICES ASSUME Init PROVE Ending
  OBVIOUS
<1> USE JobAssumption, ServerAssumption, OptionAssumption
<1>1. /\ \A j \in Job : state[j] \in {"New", "Absent"} /\ pc[j] # "http"
      /\ num[Root] = RootNumber /\ ~complete
  BY DEF Init
<1>2. RootNumber # -1
  BY RootNumberIs
<1>3. Requested /\ Resulted /\ AtRest /\ Stopped /\ LogsFlushed /\ NumberKnown
  BY <1>1, <1>2 DEF Requested, Resulted, AtRest, Stopped, LogsFlushed, NumberKnown,
                    Launched, Ran
<1>4. Failures
  BY <1>1 DEF Init, Failures
<1> QED BY <1>3, <1>4 DEF Ending

(* What Jenkins has said of a build that ended stays. *)
ResultsStay ==
  \A id \in Id : \A n \in DOMAIN builds[id] :
    builds[id][n].result # "none" => builds'[id][n].result = builds[id][n].result

LEMMA ServerResultsStay ==
  ASSUME ServerTypeOK, ServerStep
  PROVE  ResultsStay
<1> USE ServerAssumption
<1> SUFFICES ASSUME NEW p \in Id, NEW k \in DOMAIN builds[p],
                    builds[p][k].result # "none"
             PROVE  builds'[p][k].result = builds[p][k].result
  BY DEF ResultsStay
<1>1. ASSUME NEW id \in Id, NEW x, builds' = [builds EXCEPT ![id] = Append(@, x)]
      PROVE  builds'[p][k].result = builds[p][k].result
  BY <1>1 DEF ServerTypeOK
<1>2. ASSUME NEW id \in Id, NEW n \in DOMAIN builds[id], FinishBuild(id, n)
      PROVE  builds'[p][k].result = builds[p][k].result
  <2>1. builds[id][n].result = "none" /\ \E res : builds' = [builds EXCEPT ![id][n].result = res]
    BY <1>2 DEF FinishBuild
  <2> QED BY <2>1 DEF ServerTypeOK
<1> QED BY <1>1, <1>2 DEF ServerStep, StartBuild, ForeignBuild

(* A job that ended well or badly stays so. *)
LEMMA ResultKept ==
  ASSUME Safe, Ending, ServerInv, ResultsStay, NEW j \in Job,
         state[j] \in {"Downloading", "Done"}, num'[j] = num[j]
  PROVE  Result(j)' = Result(j)
<1> USE JobAssumption
<1>1. num[j] # -1
  BY DEF Ending, NumberKnown, Launched, Ran
<1>2. num[j] \in DOMAIN builds[Ident[j]]
  <2>1. CASE j = Root
    BY <2>1 DEF Ending, NumberKnown, ServerInv, Triggered
  <2>2. CASE j # Root
    BY <1>1, <2>2 DEF Safe, TrackSound
  <2> QED BY <2>1, <2>2
<1>3. Ident[j] \in Id /\ builds[Ident[j]][num[j]].result # "none"
  BY DEF Ending, Resulted, Result
<1> QED BY <1>2, <1>3 DEF ResultsStay, Result

(* The steps that change no job; a job may finish its initialization. *)
LEMMA QuietEnds ==
  ASSUME Safe, Ending, ServerInv, ResultsStay, UNCHANGED <<state, num, console, opts>>,
         \A x \in Job : \/ pc'[x] = pc[x]
                        \/ pc[x] \in {"none", "init", "ready"} /\ pc'[x] # "http",
         failed => failed', complete' = complete, complete => phase' # "running"
  PROVE  Ending'
<1>1. Requested' /\ NumberKnown' /\ LogsFlushed'
  BY DEF Ending, Requested, NumberKnown, LogsFlushed
<1>2. AtRest'
  BY DEF Ending, AtRest
<1>3. \A j \in Job : state[j] \in {"Downloading", "Done"} => Result(j)' = Result(j)
  BY ResultKept
<1>4. Resulted'
  BY <1>3 DEF Ending, Resulted
<1>5. Stopped'
  BY <1>3 DEF Ending, Stopped, HasFailed, Abandoned
<1>6. Failures'
  BY DEF Ending, Failures
<1> QED BY <1>1, <1>2, <1>4, <1>5, <1>6 DEF Ending

(* A job may start; kids are constructed below it. *)
LEMMA StartEnds ==
  ASSUME Typed, Ending, CutBelow', NEW kids, NEW j \in Job, StartsJob(kids, j),
         num'[Root] = num[Root], kids \subseteq Children(j),
         \A x \in Job : \/ pc'[x] = pc[x]
                        \/ x = j /\ pc[j] \in {"init", "ready"} /\ pc'[j] = "idle"
                        \/ x \in kids /\ pc'[x] \in {"init", "ready"},
         kids # {} => pc[j] \in {"init", "ready"} /\ state'[j] \notin {"New", "Absent"},
         UNCHANGED <<console, opts, complete, builds>>, failed => failed',
         complete => phase' # "running"
  PROVE  Ending'
<1> USE JobAssumption
<1>1. /\ kids \in SUBSET (Job \ {j}) /\ \A x \in kids : state[x] = "Absent"
      /\ \A x \in Job \ {j} :
           /\ num'[x] = num[x]
           /\ \/ state'[x] = NewBorn(kids, x)
              \/ NewBorn(kids, x) \in Pending /\ state'[x] \in GivenUp
      /\ \/ Opens(state[j], num[j], state'[j], num'[j])
         \/ state[j] \in Pending /\ state'[j] = "Locating" /\ num'[j] = num[j]
  BY DEF StartsJob
<1>2. \A x \in kids : state'[x] \in {"New"} \cup GivenUp
  BY <1>1 DEF NewBorn
<1>3. \A x \in Job \ (kids \cup {j}) :
        state'[x] = state[x] \/ (state[x] \in Pending /\ state'[x] \in GivenUp)
  BY <1>1 DEF NewBorn
<1>4. state[j] \notin Pending => state'[j] = state[j] /\ num'[j] = num[j]
  BY <1>1 DEF Opens
<1>5. \A x \in Job : state[x] \notin Pending \cup {"Absent"}
                      => state'[x] = state[x] /\ num'[x] = num[x] /\ x \notin kids
  BY <1>1, <1>3, <1>4
<1>6. \A x \in Job : state'[x] \in {"Downloading", "Queued", "Done", "Killed"}
                      => state[x] \notin Pending \cup {"Absent"}
  <2>1. state'[j] \in {"Downloading", "Queued", "Done", "Killed"} => state'[j] = state[j]
    BY <1>1 DEF Opens, GivenUp
  <2> QED BY <1>2, <1>3, <2>1 DEF GivenUp, Pending
<1>7. Requested'
  <2>1. \A x \in Job : pc'[x] = "http" => pc[x] = "http"
    OBVIOUS
  <2> QED BY <1>5, <2>1 DEF Ending, Requested, Running, Pending
<1>8. NumberKnown'
  <2>1. num'[Root] = RootNumber
    BY DEF Ending, NumberKnown
  <2>2. ASSUME NEW x \in Job, state'[x] \in Launched, num'[x] = -1
        PROVE  /\ ~opts'.captureConsole /\ pc'[x] # "http"
               /\ state'[x] \in {"Finishing", "Queued"}
    <3>1. CASE state[x] \notin Pending \cup {"Absent"}
      <4>1. state[x] \in Launched /\ num[x] = -1
        BY <1>5, <2>2, <3>1
      <4> QED BY <1>5, <3>1, <4>1 DEF Ending, NumberKnown
    <3>2. CASE state[x] \in Pending \cup {"Absent"}
      <4>1. x = j
        BY <1>2, <1>3, <2>2, <3>2 DEF Launched, Ran, GivenUp, Pending
      <4>2. state'[j] = "Finishing" /\ ~opts.captureConsole
        BY <1>1, <2>2, <3>2, <4>1 DEF Opens, Launched, Ran, GivenUp, Pending
      <4>3. pc'[x] # "http"
        BY <3>2 DEF Ending, Requested, Running, Pending
      <4> QED BY <4>1, <4>2, <4>3
    <3> QED BY <3>1, <3>2
  <2> QED BY <2>1, <2>2 DEF NumberKnown
<1>9. Resulted'
  BY <1>5, <1>6 DEF Ending, Resulted, Result
<1>10. AtRest'
  <2>1. ASSUME NEW x \in Job, state'[x] \in {"Downloading", "Queued", "Done", "Killed"}
        PROVE  pc'[x] = pc[x] /\ state'[x] = state[x]
    BY <1>5, <1>6, <2>1 DEF Ending, AtRest
  <2> QED BY <2>1 DEF Ending, AtRest
<1>11. Stopped'
  <2> SUFFICES ASSUME complete
               PROVE  /\ phase' # "running"
                      /\ \A x \in Job : /\ ~HasFailed(x)'
                                        /\ state'[x] \in Active => Abandoned(x)'
    BY DEF Stopped
  <2>1. phase' # "running" /\ \A x \in Job : ~HasFailed(x)
    BY DEF Ending, Stopped
  <2>2. \A x \in Job : state[x] \in Active => Abandoned(x)
    BY DEF Ending, Stopped
  <2>3. \A x \in Job : ~HasFailed(x)'
    BY <1>5, <1>6, <2>1 DEF HasFailed, Result
  <2>4. \A x \in Job : state[x] \in GivenUp => state'[x] = state[x] /\ x \notin kids
    BY <1>5 DEF GivenUp, Pending
  <2>5. /\ state'[j] \in Active => Abandoned(j)'
        /\ state[j] \in Pending => state'[j] \in {"Absent", "New", "Cut"}
    <3>1. CASE state[j] \in Pending
      <4>1. j # Root /\ Parent[j] \in Job /\ state[Parent[j]] \in GivenUp
        BY <2>2, <3>1 DEF Pending, Active, Abandoned
      <4>2. state'[Parent[j]] \in GivenUp
        BY <2>4, <4>1
      <4>3. state'[j] \in {"Absent", "New", "Cut"}
        BY <4>1, <4>2 DEF CutBelow, GivenUp
      <4> QED BY <4>1, <4>2, <4>3 DEF Abandoned, Active
    <3>2. CASE state[j] \notin Pending
      BY <1>4, <2>2, <3>2 DEF Abandoned, Pending
    <3> QED BY <3>1, <3>2
  <2>6. ASSUME NEW x \in kids, state'[x] \in Active
        PROVE  Abandoned(x)'
    <3>1. /\ x \in Job \ {Root} /\ Parent[x] = j /\ state'[x] = "New"
          /\ pc[j] \in {"init", "ready"} /\ state'[j] \notin {"New", "Absent"}
      BY <1>1, <1>2, <2>6 DEF Children, GivenUp, Active
    <3>2. state'[j] \in GivenUp
      <4>1. CASE state[j] \in Pending
        BY <2>5, <3>1, <4>1 DEF GivenUp
      <4>2. CASE state[j] \notin Pending
        <5>1. state'[j] = state[j] /\ state[j] \notin Active
          BY <1>4, <2>2, <4>2 DEF Abandoned, Pending
        <5>2. state[j] \notin {"Downloading", "Queued", "Done", "Killed"}
          BY <3>1 DEF Ending, AtRest
        <5>3. state[j] \in JobState \cup {"Absent"}
          BY DEF Typed, TypeOK
        <5> QED BY <3>1, <5>1, <5>2, <5>3 DEF JobState, Active, GivenUp
      <4> QED BY <4>1, <4>2
    <3> QED BY <3>1, <3>2 DEF Abandoned
  <2>7. ASSUME NEW x \in Job \ (kids \cup {j}), state'[x] \in Active
        PROVE  Abandoned(x)'
    <3>1. state'[x] = state[x]
      BY <1>3, <2>7 DEF GivenUp, Active
    <3>2. Abandoned(x)
      BY <2>2, <2>7, <3>1
    <3> QED BY <2>4, <3>1, <3>2 DEF Abandoned
  <2> QED BY <2>1, <2>3, <2>5, <2>6, <2>7
<1>12. LogsFlushed'
  BY <1>5, <1>6 DEF Ending, LogsFlushed
<1>13. Failures'
  BY <1>5, <1>6 DEF Ending, Failures
<1> QED BY <1>7, <1>8, <1>9, <1>10, <1>11, <1>12, <1>13 DEF Ending


(* A job that ran goes on to another state. *)
LEMMA EnterEnds ==
  ASSUME Typed, Ending, ~complete, NEW j \in Job, state[j] \in Running,
         NEW s \in {"Finishing", "Queued", "Downloading", "Done", "Killed"},
         Enter(j, s), UNCHANGED <<num, builds, complete>>, failed => failed',
         s # "Queued" => pc[j] = "http",
         s = "Queued" => ~opts.captureConsole,
         s \in {"Downloading", "Done"} => Result(j) # "none",
         s = "Killed" => failed',
         \/ opts' = opts
         \/ ~opts'.captureConsole /\ ~opts'.capturePipeline /\ failed'
  PROVE  Ending'
<1>1. /\ state'[j] = s /\ \A x \in Job \ {j} : state'[x] = state[x]
      /\ pc'[j] = "idle" /\ \A x \in Job \ {j} : pc'[x] = pc[x]
  BY DEF Enter, Typed, TypeOK
<1>2. Requested'
  BY <1>1 DEF Ending, Requested
<1>3. NumberKnown'
  <2>1. s # "Queued" => num[j] # -1
    BY DEF Ending, NumberKnown, Running, Launched, Ran
  <2>2. opts.captureConsole \/ ~opts'.captureConsole
    OBVIOUS
  <2> QED BY <1>1, <2>1, <2>2 DEF Ending, NumberKnown
<1>4. Resulted'
  BY <1>1 DEF Ending, Resulted, Result
<1>5. AtRest'
  BY <1>1 DEF Ending, AtRest
<1>6. Stopped' /\ LogsFlushed'
  BY DEF Stopped, LogsFlushed
<1>7. Failures'
  BY <1>1 DEF Ending, Failures
<1> QED BY <1>2, <1>3, <1>4, <1>5, <1>6, <1>7 DEF Ending

(* A job that ran stays and waits for something else. *)
LEMMA StayEnds ==
  ASSUME Typed, Ending, ~complete, NEW j \in Job, state[j] \in Running,
         NEW p \in {"idle", "http", "stuck"}, pc' = [pc EXCEPT ![j] = p],
         UNCHANGED <<state, console, num, builds, complete, opts>>, failed => failed',
         p = "http" => opts.captureConsole
  PROVE  Ending'
<1>1. pc'[j] = p /\ \A x \in Job \ {j} : pc'[x] = pc[x]
  BY DEF Typed, TypeOK
<1>2. Requested'
  BY <1>1 DEF Ending, Requested
<1>3. NumberKnown'
  BY <1>1 DEF Ending, NumberKnown
<1>4. Resulted'
  BY DEF Ending, Resulted, Result
<1>5. AtRest'
  BY <1>1 DEF Ending, AtRest, Running
<1>6. Stopped' /\ LogsFlushed'
  BY DEF Stopped, LogsFlushed
<1>7. Failures'
  BY DEF Ending, Failures
<1> QED BY <1>2, <1>3, <1>4, <1>5, <1>6, <1>7 DEF Ending

(* A queue that stopped complete has no running job. *)
LEMMA RunningIncomplete ==
  ASSUME Typed, Ending, NEW j \in Job, state[j] \in Running
  PROVE  ~complete
BY DEF Ending, Stopped, Abandoned, Running, Active, Typed, TypeOK

LEMMA WorkEnds ==
  ASSUME Typed, Safe, Ending, NEW j \in Job,
         FinishTimer(j) \/ StreamResponse(j) \/ FinishResponse(j) \/ DownloadResponse(j)
  PROVE  Ending'
<1>1. UNCHANGED <<num, builds, complete>>
  BY DEF FinishTimer, StreamResponse, FinishResponse, DownloadResponse, runVars,
         serverVars
<1>2. state[j] \in Running
  BY DEF FinishTimer, StreamResponse, FinishResponse, DownloadResponse, Safe, Timed,
         Running
<1>3. ~complete
  BY <1>2, RunningIncomplete
<1>4. failed => failed'
  BY DEF FinishTimer, StreamResponse, FinishResponse, DownloadResponse, Fail
<1>5. CASE FinishTimer(j)
  <2>1. opts' = opts
    BY <1>5 DEF FinishTimer
  <2>2. CASE ~opts.captureConsole /\ Enter(j, "Queued")
    BY <1>1, <1>2, <1>3, <1>4, <2>1, <2>2, EnterEnds
  <2>3. CASE /\ opts.captureConsole /\ pc' = [pc EXCEPT ![j] = "http"]
             /\ UNCHANGED <<state, console>>
    BY <1>1, <1>2, <1>3, <1>4, <2>1, <2>3, StayEnds
  <2> QED BY <1>5, <2>2, <2>3 DEF FinishTimer
<1>6. ASSUME Again(j) \/ Stuck(j), opts' = opts
      PROVE  Ending'
  BY <1>1, <1>2, <1>3, <1>4, <1>6, StayEnds DEF Again, Stuck
<1>7. CASE StreamResponse(j)
  <2>1. pc[j] = "http"
    BY <1>7 DEF StreamResponse
  <2>2. CASE Enter(j, "Finishing") /\ opts' = opts
    BY <1>1, <1>2, <1>3, <1>4, <2>1, <2>2, EnterEnds
  <2>3. ASSUME Fail, Enter(j, "Finishing"),
               opts' = [opts EXCEPT !.captureConsole = FALSE,
                                    !.capturePipeline = FALSE, !.shouldFail = TRUE]
        PROVE  Ending'
    <3>1. ~opts'.captureConsole /\ ~opts'.capturePipeline
      BY <2>3 DEF Typed, TypeOK, Options
    <3> QED BY <1>1, <1>2, <1>3, <1>4, <2>1, <2>3, <3>1, EnterEnds DEF Fail
  <2> QED BY <1>6, <1>7, <2>2, <2>3 DEF StreamResponse
<1>8. CASE FinishResponse(j)
  <2>1. pc[j] = "http" /\ opts' = opts
    BY <1>8 DEF FinishResponse
  <2>2. ASSUME NEW s \in {"Downloading", "Done"}, Result(j) # "none", Enter(j, s)
        PROVE  Ending'
    BY <1>1, <1>2, <1>3, <1>4, <2>1, <2>2, EnterEnds
  <2>3. CASE Fail /\ Enter(j, "Killed")
    BY <1>1, <1>2, <1>3, <1>4, <2>1, <2>3, EnterEnds DEF Fail
  <2> QED BY <1>6, <1>8, <2>1, <2>2, <2>3 DEF FinishResponse
<1>9. CASE DownloadResponse(j)
  <2>1. pc[j] = "http" /\ opts' = opts
    BY <1>9 DEF DownloadResponse
  <2>2. Result(j) # "none"
    BY <1>9 DEF DownloadResponse, Ending, Resulted
  <2>3. CASE Enter(j, "Done")
    BY <1>1, <1>2, <1>3, <1>4, <2>1, <2>2, <2>3, EnterEnds
  <2> QED BY <1>6, <1>9, <2>1, <2>3 DEF DownloadResponse
<1> QED BY <1>5, <1>7, <1>8, <1>9

(* The tick gives work to jobs, and may stop the queue. *)
LEMMA TickEnds ==
  ASSUME Typed, Ending, Tick
  PROVE  Ending'
<1>1. /\ UNCHANGED <<state, num, builds, opts, failed>>
      /\ console' = Flushed(state)
      /\ pc' = [j \in Job |-> IF pc[j] = "idle" /\ state[j] \in Running
                                THEN DoWork(state[j]) ELSE pc[j]]
  BY DEF Tick, trackVars, serverVars
<1>2. complete' => /\ phase' = "asking"
                   /\ \A j \in Job : ~HasFailed(j) /\ state[j] \notin Active
  BY DEF Tick
<1>3. \A x \in Job : \/ pc'[x] = pc[x]
                     \/ /\ pc[x] = "idle" /\ state[x] \in Running
                        /\ pc'[x] = IF state[x] = "Finishing" THEN "timer" ELSE "http"
  BY <1>1 DEF DoWork
<1>4. Requested'
  BY <1>1, <1>3 DEF Ending, Requested
<1>5. NumberKnown'
  BY <1>1, <1>3 DEF Ending, NumberKnown, Running
<1>6. Resulted'
  BY <1>1 DEF Ending, Resulted, Result
<1>7. AtRest'
  BY <1>1, <1>3 DEF Ending, AtRest, Running
<1>8. Stopped'
  BY <1>1, <1>2 DEF Stopped, HasFailed, Result
<1>9. LogsFlushed'
  <2> SUFFICES ASSUME complete', opts.captureConsole, NEW j \in Job, state[j] = "Done"
               PROVE  j \in Flushed(state)
    BY <1>1 DEF LogsFlushed
  <2>1. console \in SUBSET Job
    BY DEF Typed, TypeOK
  <2>2. ~\E i \in console : state[i] \in Active
    BY <1>2, <2>1
  <2> QED BY <2>2 DEF Flushed
<1>10. Failures'
  BY <1>1 DEF Ending, Failures
<1> QED BY <1>4, <1>5, <1>6, <1>7, <1>8, <1>9, <1>10 DEF Ending

LEMMA ContinueEnds ==
  ASSUME Typed, Safe, Ending, CutBelow', ~threw', NEW j \in Job,
         pc[j] \in {"init", "ready"}, Continue(j),
         UNCHANGED <<console, opts, phase, complete, builds, failed>>
  PROVE  Ending'
<1> USE JobAssumption
<1>1. num[Root] # -1 /\ (complete => phase' # "running")
  BY RootNumberIs DEF Ending, NumberKnown, Stopped
<1>2. Continues(j)
  BY <1>1, ContinueStarts
<1>3. num'[Root] = num[Root]
  BY ContinueBears DEF NumbersMove
<1>4. /\ \A x \in Job : \/ pc'[x] = pc[x]
                        \/ x = j /\ pc[j] \in {"init", "ready"} /\ pc'[j] = "idle"
                        \/ x \in Kids(j) /\ pc'[x] \in {"init", "ready"}
      /\ Kids(j) \subseteq Children(j)
  BY <1>2 DEF Continues, Kids
<1>5. StartsJob(Kids(j), j) /\ state'[j] \notin {"New", "Absent"}
  BY <1>2 DEF Continues
<1> QED BY <1>1, <1>3, <1>4, <1>5, StartEnds

LEMMA JobStepEnds ==
  ASSUME Typed, Safe, Ending, ServerInv, CutBelow', ~threw', NEW j \in Job, JobStep(j)
  PROVE  Ending'
<1>1. CASE JobInitResponse(j)
  <2>1. /\ pc[j] = "init"
        /\ UNCHANGED <<opts, phase, complete, builds, failed>>
    BY <1>1 DEF JobInitResponse, serverVars
  <2>2. CASE Continue(j) /\ UNCHANGED console
    BY <2>1, <2>2, ContinueEnds
  <2>3. CASE UNCHANGED num /\ (Again(j) \/ Stuck(j))
    <3>1. /\ UNCHANGED <<state, console>>
          /\ \A x \in Job : \/ pc'[x] = pc[x]
                            \/ pc[x] \in {"none", "init", "ready"} /\ pc'[x] # "http"
      BY <2>1, <2>3 DEF Again, Stuck, Typed, TypeOK
    <3> QED BY <2>1, <2>3, <3>1, QuietEnds DEF ResultsStay, Ending, Stopped
  <2> QED BY <1>1, <2>2, <2>3 DEF JobInitResponse
<1>2. CASE JobInitReady(j)
  <2>1. /\ pc[j] = "ready" /\ Continue(j)
        /\ UNCHANGED <<console, opts, phase, complete, builds, failed>>
    BY <1>2 DEF JobInitReady, serverVars
  <2> QED BY <2>1, ContinueEnds
<1> QED BY <1>1, <1>2, WorkEnds DEF JobStep

(* A search does not take a failure back. *)
LEMMA SearchPhase ==
  ASSUME NEW id \in Id, ResolveOne(id) \/ LocateResponse(id)
  PROVE  UNCHANGED <<pc, console, opts, phase, complete, builds>> /\ (failed => failed')
<1>1. UNCHANGED <<pc, console, opts, phase, complete, builds>>
  BY DEF ResolveOne, LocateResponse, serverVars
<1>2. CASE ResolveOne(id)
  <2>1. \E r : failed' = (failed \/ ~r.legal)
    BY <1>2, Zenon DEF ResolveOne
  <2> QED BY <1>1, <2>1, Zenon
<1>3. CASE LocateResponse(id)
  <2>1. \/ failed' \in {failed, TRUE}
        \/ \E r : failed' = (failed \/ ~r.legal)
    BY <1>3, LocateCases, Zenon
  <2>2. failed => failed'
    BY <2>1, Zenon
  <2> QED BY <1>1, <2>2
<1> QED BY <1>2, <1>3

(* The callbacks of a search that may start jobs. *)
LEMMA SearchEnds ==
  ASSUME Typed, Safe, Ending, ServerInv, CutBelow', ~threw', NEW id \in Id,
         ResolveOne(id) \/ LocateResponse(id)
  PROVE  Ending'
<1>1. UNCHANGED <<pc, console, opts, phase, complete, builds>> /\ (failed => failed')
  BY SearchPhase
<1>2. complete => phase' # "running"
  BY <1>1 DEF Ending, Stopped
<1>3. num'[Root] = num[Root]
  BY ResolveMoves, LocateMoves DEF JobsMove
<1>4. num[Root] # -1
  BY RootNumberIs DEF Ending, NumberKnown
<1>5. SearchStarts
  BY <1>4, ResolveStarts, LocateStarts
<1>6. CASE UNCHANGED trackVars
  BY <1>1, <1>2, <1>6, QuietEnds DEF trackVars, ResultsStay
<1>7. ASSUME NEW j \in Job, StartsJob({}, j)
      PROVE  Ending'
  BY <1>1, <1>2, <1>3, <1>7, StartEnds
<1> QED BY <1>5, <1>6, <1>7 DEF SearchStarts

(* The steps that change no job. *)
LEMMA OtherStepEnds ==
  ASSUME Typed, Safe, Ending, ServerInv,
         \/ ReportStep \/ Jenkins \/ UNCHANGED vars
         \/ \E id \in Id : CtorResponse(id) \/ SearchTimer(id) \/ ResolveDone(id)
  PROVE  Ending'
<1>1. UNCHANGED <<state, num, pc, console, opts, complete>> /\ (failed => failed')
  <2>1. UNCHANGED <<state, num, pc, console, opts, complete>>
    BY DEF ReportStep, AskPipelineResponse, DescribeResponse, WriteResult, Exit,
           Jenkins, CtorResponse, SearchTimer, ResolveDone, vars, trackVars, runVars
  <2>2. failed' = failed \/ failed' = TRUE \/ WriteResult
    BY DEF ReportStep, AskPipelineResponse, DescribeResponse, Exit, Jenkins,
           CtorResponse, SearchTimer, ResolveDone, vars, Fail
  <2>3. WriteResult => failed' = (failed \/ ~complete \/ opts.shouldFail)
    BY DEF WriteResult
  <2>4. failed => failed'
    BY <2>2, <2>3, Zenon
  <2> QED BY <2>1, <2>4
<1>2. phase' = phase \/ phase' # "running"
  BY DEF ReportStep, AskPipelineResponse, DescribeResponse, WriteResult, Exit, Jenkins,
         CtorResponse, SearchTimer, ResolveDone, vars, runVars
<1>3. builds' = builds \/ Jenkins
  BY DEF ReportStep, AskPipelineResponse, DescribeResponse, WriteResult, Exit,
         CtorResponse, SearchTimer, ResolveDone, vars, serverVars
<1>4. ResultsStay
  BY <1>3, ServerResultsStay DEF Jenkins, Typed, TypeOK, ResultsStay
<1> QED BY <1>1, <1>2, <1>4, QuietEnds DEF Ending, Stopped

LEMMA EndingNext ==
  ASSUME Typed, Safe, Ending, ServerInv, CutBelow', ~threw', [Next]_vars
  PROVE  Ending'
<1>1. ASSUME NEW id \in Id, SearchStep(id)
      PROVE  Ending'
  BY <1>1, OtherStepEnds, SearchEnds DEF SearchStep
<1>2. ASSUME ReportStep \/ Jenkins \/ UNCHANGED vars
      PROVE  Ending'
  BY <1>2, OtherStepEnds
<1> QED BY <1>1, <1>2, TickEnds, JobStepEnds DEF Next, TaskStep

(* What holds of a queue no check of which has thrown. *)
Kept == threw \/ (TrackInv /\ Ending)

LEMMA KeptNext ==
  ASSUME Typed, Safe, Tidy, ServerInv, Kept, [Next]_vars
  PROVE  Kept'
<1>1. SUFFICES ASSUME ~threw' PROVE TrackInv' /\ Ending'
  BY DEF Kept
<1>2. ~threw
  BY <1>1, ThrewStays
<1>3. Ending
  BY <1>2, Zenon DEF Kept
<1>4. TrackInv'
  BY <1>1, PlacedNext, Zenon DEF Tidy
<1>5. CutBelow'
  BY <1>4, PlacedIs
<1> QED BY <1>1, <1>3, <1>4, <1>5, EndingNext

LEMMA AlwaysKept == Spec => []Kept
<1>1. Init => Kept
  BY EndingInit, InitPlaced DEF Kept
<1>2. Typed /\ Safe /\ (Tidy /\ ServerInv) /\ Kept /\ [Next]_vars => Kept'
  BY KeptNext
<1> QED BY <1>1, <1>2, AlwaysTyped, AlwaysSafe, AlwaysPlaced, PTL DEF Spec

-----------------------------------------------------------------------------
(* The theorems.                                                           *)

(* As long as no state check has thrown: when the queue stops complete, the   *)
(* log of every job that ended has been written, because the last flush of   *)
(* JobQueue.Start comes after the last job ended, and no callback ends a job *)
(* after it.                                                               *)
THEOREM LogsAreFlushed == Spec => [](NeverThrows => LogsFlushed)
<1>1. Kept => (NeverThrows => LogsFlushed)
  BY DEF Kept, Ending, NeverThrows
<1> QED BY <1>1, AlwaysKept, PTL


-----------------------------------------------------------------------------
(* The queue implements PipelineTracking, as long as no request for a       *)
(* project fails, the report's status does not end the chain and no state    *)
(* check throws.                                                           *)

(* A constructed job that does nothing yet waits for its initialization. *)
NewWaits == \A j \in Job : state[j] = "New" => pc[j] \in {"init", "ready"}

(* The report sets the result, unless a failure was reported before it. *)
Reported == phase \in {"reported", "ended"} => failed \/ complete

LEMMA NewWaitsNext ==
  ASSUME Faults \cap {"initReset", "initFail"} = {}, Typed, Safe, Ending, NewWaits,
         ~threw', [Next]_vars
  PROVE  NewWaits'
<1> USE JobAssumption
<1>1. num[Root] # -1
  BY RootNumberIs DEF Ending, NumberKnown
<1>2. ASSUME NEW j \in Job, pc[j] \in {"init", "ready"}, Continue(j)
      PROVE  NewWaits'
  <2>1. Continues(j)
    BY <1>1, <1>2, ContinueStarts
  <2>2. StartsJob(Kids(j), j) /\ state'[j] # "New"
    BY <2>1 DEF Continues
  <2>3. ASSUME NEW x \in Job \ (Kids(j) \cup {j}), state'[x] = "New"
        PROVE  state[x] = "New"
    BY <2>2, <2>3 DEF StartsJob, NewBorn, GivenUp
  <2> QED BY <2>1, <2>2, <2>3 DEF NewWaits, Continues
<1>3. ASSUME \A x \in Job : state'[x] = "New" => state[x] = "New",
             \A x \in Job : pc'[x] = pc[x] \/ pc[x] \notin {"init", "ready"}
                            \/ state'[x] # "New"
      PROVE  NewWaits'
  BY <1>3 DEF NewWaits
<1>4. ASSUME NEW j \in Job, JobStep(j)
      PROVE  NewWaits'
  <2>1. CASE JobInitResponse(j)
    BY <1>2, <2>1 DEF JobInitResponse, Fault
  <2>2. CASE JobInitReady(j)
    BY <1>2, <2>2 DEF JobInitReady
  <2>3. CASE FinishTimer(j) \/ StreamResponse(j) \/ FinishResponse(j)
               \/ DownloadResponse(j)
    <3>1. \A x \in Job : state'[x] = "New" => state[x] = "New"
      BY <2>3, WorkMoves DEF RunningMove, Launched, Ran
    <3>2. state[j] \in Running /\ (state'[j] = "New" => state[j] = "New")
      BY <2>3, <3>1 DEF FinishTimer, StreamResponse, FinishResponse,
                        DownloadResponse, Safe, Timed, Running
    <3>3. \A x \in Job \ {j} : pc'[x] = pc[x]
      BY <2>3 DEF FinishTimer, StreamResponse, FinishResponse, DownloadResponse,
                  Enter, Again, Stuck, Typed, TypeOK
    <3> QED BY <1>3, <3>1, <3>2, <3>3 DEF Running
  <2> QED BY <1>4, <2>1, <2>2, <2>3 DEF JobStep
<1>5. CASE Tick
  <2>1. UNCHANGED state
    BY <1>5 DEF Tick, trackVars
  <2>2. \A x \in Job : pc'[x] = pc[x] \/ pc[x] \notin {"init", "ready"}
    BY <1>5 DEF Tick
  <2> QED BY <1>3, <2>1, <2>2
<1>6. ASSUME NEW id \in Id, ResolveOne(id) \/ LocateResponse(id)
      PROVE  NewWaits'
  <2>1. UNCHANGED pc /\ \A x \in Job : state'[x] = "New" => state[x] = "New"
    BY <1>6, ResolveMoves, LocateMoves DEF JobsMove
  <2> QED BY <1>3, <2>1
<1>7. CASE ReportStep \/ Jenkins \/ UNCHANGED vars
           \/ \E id \in Id : CtorResponse(id) \/ SearchTimer(id) \/ ResolveDone(id)
  <2>1. UNCHANGED <<state, pc>>
    BY <1>7 DEF ReportStep, AskPipelineResponse, DescribeResponse, WriteResult, Exit,
                Jenkins, CtorResponse, SearchTimer, ResolveDone, vars, trackVars
  <2> QED BY <1>3, <2>1
<1> QED BY <1>4, <1>5, <1>6, <1>7 DEF Next, TaskStep, SearchStep

LEMMA ReportedNext ==
  ASSUME "reportStatus" \notin Faults, Typed, Reported, [Next]_vars
  PROVE  Reported'
<1>1. CASE phase' = phase /\ complete' = complete /\ (failed => failed')
  BY <1>1 DEF Reported
<1>2. CASE phase' \notin {"reported", "ended"}
  BY <1>2 DEF Reported
<1>3. CASE ReportStep
  <2>1. CASE AskPipelineResponse
    BY <2>1 DEF AskPipelineResponse, Fail, Reported
  <2>2. CASE DescribeResponse
    BY <2>2 DEF DescribeResponse, Fail, Reported, Fault
  <2>3. CASE WriteResult
    <3>1. failed' = (failed \/ ~complete \/ opts.shouldFail) /\ complete' = complete
      BY <2>3 DEF WriteResult
    <3>2. failed' \/ complete'
      BY <3>1, Zenon
    <3> QED BY <3>2 DEF Reported
  <2>4. CASE Exit
    BY <2>4 DEF Exit, Reported
  <2> QED BY <1>3, <2>1, <2>2, <2>3, <2>4 DEF ReportStep
<1>4. CASE Tick
  BY <1>2, <1>4 DEF Tick
<1>5. CASE Jenkins \/ UNCHANGED vars
  BY <1>1, <1>5 DEF Jenkins, vars, runVars
<1>6. ASSUME NEW id \in Id, SearchStep(id)
      PROVE  Reported'
  <2>1. CASE CtorResponse(id) \/ SearchTimer(id) \/ ResolveDone(id)
    BY <1>1, <2>1 DEF CtorResponse, SearchTimer, ResolveDone, runVars
  <2>2. CASE ResolveOne(id) \/ LocateResponse(id)
    <3>1. complete' = complete /\ phase' = phase /\ (failed => failed')
      BY <2>2, SearchPhase
    <3> QED BY <1>1, <3>1
  <2> QED BY <1>6, <2>1, <2>2 DEF SearchStep
<1>7. ASSUME NEW j \in Job, JobStep(j)
      PROVE  Reported'
  <2>1. CASE JobInitResponse(j) \/ JobInitReady(j)
    BY <1>1, <2>1 DEF JobInitResponse, JobInitReady
  <2>2. CASE FinishTimer(j) \/ StreamResponse(j) \/ FinishResponse(j)
               \/ DownloadResponse(j)
    BY <1>1, <2>2 DEF FinishTimer, StreamResponse, FinishResponse, DownloadResponse,
                      Fail, runVars
  <2> QED BY <1>7, <2>1, <2>2 DEF JobStep
<1> QED BY <1>3, <1>4, <1>5, <1>6, <1>7 DEF Next, TaskStep


(* Every job moves on as the abstract specification says, one of them may     *)
(* start to follow a build, which is nobody else's.                        *)
MovesOn ==
  /\ \A x \in Job : /\ \/ Status(x)' = Status(x)
                       \/ Status(x)' \in Tracking!Later(Status(x))
                    /\ Status(x)' = "good" /\ Status(x) # "good"
                         => Follows(x) # NoBuild
  /\ \/ \A x \in Job : Follows(x)' = Follows(x)
     \/ \E j \in Job :
          /\ \A x \in Job \ {j} : Follows(x)' = Follows(x) /\ Follows(x) # Follows(j)'
          /\ Status(j) = "waiting" /\ Status(j)' = "following"

LEMMA MovesOnMapped ==
  ASSUME MovesOn, phase # "ended", phase' # "ended"
  PROVE  Tracking!MoveOn
<1> DEFINE moved == {j \in Job : Status(j)' # Status(j)}
           started == {j \in Job : Follows(j)' # Follows(j)}
<1>1. \A j \in moved : /\ Status(j)' \in Tracking!Later(Status(j))
                       /\ Status(j)' = "good" => Follows(j) # NoBuild
  BY DEF MovesOn
<1>2. /\ \A i, j \in started : i = j
      /\ \A j \in started : /\ Status(j) = "waiting" /\ Status(j)' = "following"
                            /\ \A i \in Job \ {j} : Follows(i) # Follows(j)'
  BY Zenon DEF MovesOn
<1> QED BY <1>1, <1>2 DEF Tracking!MoveOn

(* A job that does not change its state or number keeps its status. *)
LEMMA StatusKept ==
  ASSUME Safe, Ending, ServerInv, ResultsStay, NEW j \in Job, state'[j] = state[j],
         num'[j] = num[j]
  PROVE  Status(j)' = Status(j) /\ Follows(j)' = Follows(j)
<1>1. HasFailed(j)' = HasFailed(j)
  BY ResultKept DEF HasFailed
<1>2. Follows(j)' = Follows(j)
  BY DEF Follows, BuildNumber, T, Track
<1> QED BY <1>1, <1>2 DEF Status

(* What a status and a followed build are, by state and number. *)
LEMMA StatusIs ==
  ASSUME NEW j \in Job
  PROVE  /\ state[j] = "Absent" => Status(j) = "unknown" /\ Follows(j) = NoBuild
         /\ state[j] \in Pending => Status(j) = "waiting" /\ Follows(j) = NoBuild
         /\ state[j] \in GivenUp => Status(j) = "dropped" /\ Follows(j) = NoBuild
         /\ state[j] \in Running => Status(j) = "following"
         /\ state[j] = "Done" => Status(j) \in {"good", "bad"}
         /\ state[j] = "Queued" => Status(j) = "released"
         /\ state[j] = "Killed" => Status(j) = "bad"
         /\ state[j] \in Launched /\ num[j] # -1 => Follows(j) = <<Ident[j], num[j]>>
         /\ num[j] = -1 => Follows(j) = NoBuild
BY DEF Status, Follows, Pending, Running, GivenUp, Launched, Ran, BuildNumber, T, Track

LEMMA StatusNext ==
  ASSUME NEW j \in Job
  PROVE  /\ state'[j] = "Absent" => Status(j)' = "unknown" /\ Follows(j)' = NoBuild
         /\ state'[j] \in Pending => Status(j)' = "waiting" /\ Follows(j)' = NoBuild
         /\ state'[j] \in GivenUp => Status(j)' = "dropped" /\ Follows(j)' = NoBuild
         /\ state'[j] \in Running => Status(j)' = "following"
         /\ state'[j] = "Done" => Status(j)' \in {"good", "bad"}
         /\ state'[j] = "Queued" => Status(j)' = "released"
         /\ state'[j] = "Killed" => Status(j)' = "bad"
         /\ state'[j] \in Launched /\ num'[j] # -1
              => Follows(j)' = <<Ident[j], num'[j]>>
         /\ num'[j] = -1 => Follows(j)' = NoBuild
BY DEF Status, Follows, Pending, Running, GivenUp, Launched, Ran, BuildNumber, T, Track

LEMMA RunningMapped ==
  ASSUME Safe, Ending, Ending', ServerInv, RunningMove, builds' = builds
  PROVE  MovesOn
<1>1. ASSUME NEW x \in Job, state'[x] = state[x]
      PROVE  Status(x)' = Status(x) /\ Follows(x)' = Follows(x)
  BY <1>1, StatusKept DEF RunningMove, ResultsStay
<1>2. ASSUME NEW x \in Job, state[x] \in Running, state'[x] \in Launched
      PROVE  /\ Status(x)' \in {"following", "good", "bad", "released"}
             /\ Status(x) = "following"
             /\ Follows(x)' = Follows(x)
             /\ Status(x)' = "good" => Follows(x) # NoBuild
  <2>1. num'[x] = num[x]
    BY DEF RunningMove
  <2>2. state[x] \in Launched
    BY <1>2 DEF Running, Launched, Ran
  <2>3. Follows(x)' = Follows(x)
    BY <1>2, <2>1, <2>2, StatusIs, StatusNext
  <2>4. /\ state'[x] \in Running \cup {"Done", "Queued", "Killed"}
        /\ Status(x)' = "good" => state'[x] = "Done"
    BY <1>2, StatusNext DEF Launched, Ran, Running
  <2>5. state'[x] = "Done" => num'[x] # -1
    BY <1>2 DEF Ending, NumberKnown
  <2>6. num[x] # -1 => Follows(x) # NoBuild
    BY <2>2, StatusIs DEF NoBuild
  <2> QED BY <1>2, <2>1, <2>3, <2>4, <2>5, <2>6, StatusIs, StatusNext
<1>3. \A x \in Job : state'[x] = state[x] \/ (state[x] \in Running /\ state'[x] \in Launched)
  BY DEF RunningMove
<1> QED BY <1>1, <1>2, <1>3 DEF MovesOn, Tracking!Later

LEMMA StartsMapped ==
  ASSUME Typed, Safe, Ending, ServerInv, OneFollower', builds' = builds, NEW kids,
         NEW j \in Job, StartsJob(kids, j)
  PROVE  MovesOn
<1> USE JobAssumption
<1>1. ASSUME NEW x \in Job, state'[x] = state[x], num'[x] = num[x]
      PROVE  Status(x)' = Status(x) /\ Follows(x)' = Follows(x)
  BY <1>1, StatusKept DEF ResultsStay
<1>2. ASSUME NEW x \in Job \ {j}
      PROVE  /\ \/ Status(x)' = Status(x)
                \/ Status(x) = "unknown" /\ Status(x)' \in {"waiting", "dropped"}
                \/ Status(x) = "waiting" /\ Status(x)' = "dropped"
             /\ Follows(x)' = Follows(x)
  <2>1. /\ num'[x] = num[x]
        /\ \/ state'[x] = state[x]
           \/ state[x] = "Absent" /\ state'[x] \in {"New"} \cup GivenUp
           \/ state[x] \in Pending /\ state'[x] \in GivenUp
    BY DEF StartsJob, NewBorn
  <2> QED BY <1>1, <2>1, StatusIs, StatusNext DEF Pending
<1>3. \/ state'[j] = state[j] /\ num'[j] = num[j]
      \/ state[j] \in Pending /\ state'[j] \in GivenUp \cup {"Locating"}
      \/ state[j] \in Pending /\ state'[j] \in {"Streaming", "Finishing"}
  BY DEF StartsJob, Opens
<1>4. CASE state'[j] = state[j] /\ num'[j] = num[j]
  BY <1>1, <1>2, <1>4 DEF MovesOn, Tracking!Later
<1>5. CASE state[j] \in Pending /\ state'[j] \in GivenUp \cup {"Locating"}
  <2>1. /\ Status(j) = "waiting" /\ Status(j)' \in {"waiting", "dropped"}
        /\ Follows(j)' = Follows(j)
    BY <1>5, StatusIs, StatusNext DEF Pending
  <2> QED BY <1>2, <2>1 DEF MovesOn, Tracking!Later
<1>6. CASE state[j] \in Pending /\ state'[j] \in {"Streaming", "Finishing"}
  <2>1. Status(j) = "waiting" /\ Status(j)' = "following" /\ Follows(j) = NoBuild
    BY <1>6, StatusIs, StatusNext DEF Running
  <2>2. CASE num'[j] = -1
    <3>1. Follows(j)' = Follows(j)
      BY <2>1, <2>2, StatusNext
    <3> QED BY <1>2, <2>1, <3>1 DEF MovesOn, Tracking!Later
  <2>3. CASE num'[j] # -1
    <3>1. Follows(j)' = <<Ident[j], num'[j]>>
      BY <1>6, <2>3, StatusNext DEF Launched, Ran
    <3>2. ASSUME NEW x \in Job \ {j}
          PROVE  Follows(x) # Follows(j)'
      <4>1. Follows(x) \in {NoBuild, <<Ident[x], num[x]>>}
        BY DEF Follows, BuildNumber, T, Track
      <4>2. num'[x] = num[x]
        BY DEF StartsJob
      <4>3. Ident[x] = Ident[j] => num[x] # num'[j]
        BY <2>3, <4>2 DEF OneFollower
      <4>4. <<Ident[x], num[x]>> # <<Ident[j], num'[j]>>
        BY <4>3
      <4>5. NoBuild # <<Ident[j], num'[j]>>
        BY DEF NoBuild
      <4> QED BY <3>1, <4>1, <4>4, <4>5
    <3> QED BY <1>2, <2>1, <3>2 DEF MovesOn, Tracking!Later
  <2> QED BY <2>2, <2>3
<1> QED BY <1>3, <1>4, <1>5, <1>6


(* Every step of the queue maps to a step of PipelineTracking, or a stutter. *)
LEMMA StepMapped ==
  ASSUME Typed, Safe, Ending, Ending', ServerInv, OneFollower', NewWaits, Reported,
         ~threw', [Next]_vars
  PROVE  [Tracking!NextTracking]_(Tracking!trackingVars)
<1> USE JobAssumption
<1>1. num[Root] # -1
  BY RootNumberIs DEF Ending, NumberKnown
<1>2. ASSUME MovesOn, phase # "ended", phase' # "ended"
      PROVE  [Tracking!NextTracking]_(Tracking!trackingVars)
  BY <1>2, MovesOnMapped DEF Tracking!NextTracking
<1>3. ASSUME UNCHANGED <<state, num>>, ResultsStay
      PROVE  \A x \in Job : Status(x)' = Status(x) /\ Follows(x)' = Follows(x)
  BY <1>3, StatusKept
<1>4. ASSUME UNCHANGED <<state, num>>, ResultsStay, phase # "ended", phase' # "ended"
      PROVE  [Tracking!NextTracking]_(Tracking!trackingVars)
  BY <1>2, <1>3, <1>4 DEF MovesOn
<1>5. ASSUME NEW j \in Job, JobStep(j)
      PROVE  [Tracking!NextTracking]_(Tracking!trackingVars)
  <2>1. CASE FinishTimer(j) \/ StreamResponse(j) \/ FinishResponse(j)
               \/ DownloadResponse(j)
    <3>1. phase # "ended"
      BY <2>1 DEF FinishTimer, StreamResponse, FinishResponse, DownloadResponse, Free
    <3> QED BY <1>2, <2>1, <3>1, WorkMoves, RunningMapped
  <2>2. ASSUME Continue(j), pc[j] \in {"init", "ready"}, phase # "ended",
               phase' = phase, builds' = builds
        PROVE  [Tracking!NextTracking]_(Tracking!trackingVars)
    <3>1. StartsJob(Kids(j), j)
      BY <1>1, <2>2, ContinueStarts DEF Continues
    <3> QED BY <1>2, <2>2, <3>1, StartsMapped
  <2>3. CASE JobInitResponse(j)
    <3>1. /\ pc[j] = "init" /\ phase # "ended" /\ phase' = phase
          /\ builds' = builds
      BY <2>3 DEF JobInitResponse, Free, serverVars
    <3>2. CASE (Again(j) \/ Stuck(j)) /\ UNCHANGED num
      BY <1>4, <3>1, <3>2 DEF Again, Stuck, ResultsStay
    <3> QED BY <2>2, <2>3, <3>1, <3>2 DEF JobInitResponse
  <2>4. CASE JobInitReady(j)
    BY <2>2, <2>4 DEF JobInitReady, serverVars
  <2> QED BY <1>5, <2>1, <2>3, <2>4 DEF JobStep
<1>6. ASSUME NEW id \in Id, ResolveOne(id) \/ LocateResponse(id)
      PROVE  [Tracking!NextTracking]_(Tracking!trackingVars)
  <2>1. builds' = builds /\ phase' = phase /\ phase # "ended"
    BY <1>6, SearchPhase DEF ResolveOne, LocateResponse, Free
  <2>2. SearchStarts
    BY <1>1, <1>6, ResolveStarts, LocateStarts
  <2>3. CASE UNCHANGED trackVars
    BY <1>4, <2>1, <2>3 DEF trackVars, ResultsStay
  <2>4. ASSUME NEW j \in Job, StartsJob({}, j)
        PROVE  [Tracking!NextTracking]_(Tracking!trackingVars)
    BY <1>2, <2>1, <2>4, StartsMapped
  <2> QED BY <2>2, <2>3, <2>4 DEF SearchStarts
<1>7. CASE Tick \/ Jenkins \/ AskPipelineResponse \/ DescribeResponse \/ WriteResult
           \/ \E id \in Id : CtorResponse(id) \/ SearchTimer(id) \/ ResolveDone(id)
  <2>1. UNCHANGED <<state, num>> /\ phase # "ended" /\ phase' # "ended"
    BY <1>7 DEF Tick, Jenkins, AskPipelineResponse, DescribeResponse, WriteResult,
                CtorResponse, SearchTimer, ResolveDone, trackVars, runVars, Free
  <2>2. builds' = builds \/ Jenkins
    BY <1>7 DEF Tick, AskPipelineResponse, DescribeResponse, WriteResult,
                CtorResponse, SearchTimer, ResolveDone, serverVars
  <2>3. ResultsStay
    BY <2>2, ServerResultsStay DEF Jenkins, Typed, TypeOK, ResultsStay
  <2> QED BY <1>4, <2>1, <2>3
<1>8. CASE Exit
  <2>1. /\ UNCHANGED <<state, num, failed>> /\ builds' = builds
        /\ phase = "reported" /\ phase' = "ended" /\ ~InFlight
    BY <1>8 DEF Exit, trackVars, serverVars
  <2>2. \A x \in Job : Status(x)' = Status(x) /\ Follows(x)' = Follows(x)
    BY <1>3, <2>1 DEF ResultsStay
  <2>3. ASSUME ~failed, NEW x \in Job
        PROVE  Status(x) \in {"unknown", "good", "dropped", "released"}
    <3>1. complete /\ state[x] # "New"
      BY <2>1, <2>3 DEF Reported, NewWaits, InFlight
    <3>2. ~HasFailed(x) /\ state[x] \notin Active /\ state[x] # "Killed"
      BY <2>3, <3>1 DEF Ending, Stopped, Abandoned, Failures
    <3>3. state[x] \in {"Absent", "Done", "Joined", "Cut", "Queued"}
      BY <3>2 DEF Typed, TypeOK, JobState, Active
    <3> QED BY <3>2, <3>3 DEF Status, Pending, Running
  <2>4. Tracking!Announce
    BY <2>1, <2>2, <2>3 DEF Tracking!Announce
  <2> QED BY <2>4 DEF Tracking!NextTracking
<1>9. CASE UNCHANGED vars
  <2>1. UNCHANGED <<state, num, phase, failed, builds>>
    BY <1>9 DEF vars, trackVars, runVars, serverVars
  <2>2. \A x \in Job : Status(x)' = Status(x) /\ Follows(x)' = Follows(x)
    BY <1>3, <2>1 DEF ResultsStay
  <2> QED BY <2>1, <2>2 DEF Tracking!trackingVars
<1> QED BY <1>5, <1>6, <1>7, <1>8, <1>9 DEF Next, TaskStep, SearchStep, ReportStep

LEMMA InitMapped == Init => Tracking!InitTracking
<1> SUFFICES ASSUME Init PROVE Tracking!InitTracking
  OBVIOUS
<1>1. \A j \in Job : state[j] \in {"New", "Absent"}
  BY DEF Init
<1>2. \A j \in Job : Status(j) \in {"unknown", "waiting"} /\ Follows(j) = NoBuild
  BY <1>1, StatusIs DEF Pending
<1>3. phase # "ended"
  BY DEF Init
<1> QED BY <1>2, <1>3 DEF Tracking!InitTracking

(* In every behaviour in which no request for a project and no request of the *)
(* report is answered badly, and no state check throws, the queue does what  *)
(* PipelineTracking promises: no build is followed twice, no job changes its *)
(* build, and success is announced only over jobs that ended well, were       *)
(* dropped or were never needed.  The other failures of requests may happen   *)
(* at any time.                                                            *)
THEOREM QueueTracksPipeline ==
  ASSUME Faults \cap {"initReset", "initFail", "reportStatus"} = {}
  PROVE  Spec /\ []NeverThrows => ImplementsTracking
<1>1. Init => NewWaits /\ Reported
  BY DEF Init, NewWaits, Reported
<1>2. Typed /\ Safe /\ Kept /\ (NewWaits /\ Reported) /\ NeverThrows /\ NeverThrows'
        /\ [Next]_vars => NewWaits' /\ Reported'
  <2> SUFFICES ASSUME Typed, Safe, Kept, NewWaits, Reported, ~threw, ~threw', [Next]_vars
               PROVE  NewWaits' /\ Reported'
    BY DEF NeverThrows
  <2>1. Faults \cap {"initReset", "initFail"} = {} /\ "reportStatus" \notin Faults
    OBVIOUS
  <2>2. Ending
    BY Zenon DEF Kept
  <2> QED BY <2>1, <2>2, NewWaitsNext, ReportedNext
<1>3. Spec /\ []NeverThrows => [](NewWaits /\ Reported)
  BY <1>1, <1>2, AlwaysTyped, AlwaysSafe, AlwaysKept, PTL DEF Spec
<1>4. Init => Tracking!InitTracking
  BY InitMapped
<1>5. Typed /\ Safe /\ Kept /\ Kept' /\ (Tidy /\ ServerInv) /\ (NewWaits /\ Reported)
        /\ NeverThrows /\ NeverThrows' /\ [Next]_vars
        => [Tracking!NextTracking]_(Tracking!trackingVars)
  <2> SUFFICES ASSUME Typed, Safe, Kept, Kept', ServerInv, NewWaits, Reported,
                      ~threw, ~threw', [Next]_vars
               PROVE  [Tracking!NextTracking]_(Tracking!trackingVars)
    BY DEF NeverThrows
  <2>1. Ending /\ Ending' /\ TrackInv'
    BY Zenon DEF Kept
  <2> QED BY <2>1, StepMapped, PlacedIs
<1> QED BY <1>3, <1>4, <1>5, AlwaysTyped, AlwaysSafe, AlwaysKept, AlwaysPlaced, PTL
        DEF Spec, ImplementsTracking, Tracking!TrackingSpec


-----------------------------------------------------------------------------
(* The builds of the pipeline, by Jenkins' records.                        *)

(* A function can be defined along the parents: the least relation that the *)
(* recursion generates relates every job to exactly one value.             *)
LEMMA AlongParents ==
  ASSUME NEW first \in Nat, NEW F \in [Job \ {Root} -> [Nat -> Nat]]
  PROVE  \E A \in [Job -> Nat] :
           A[Root] = first /\ \A j \in Job \ {Root} : A[j] = F[j][A[Parent[j]]]
<1> USE JobAssumption
<1> DEFINE Closed(C) == /\ <<Root, first>> \in C
                        /\ \A j \in Job \ {Root} : \A k \in Nat :
                             <<Parent[j], k>> \in C => <<j, F[j][k]>> \in C
           R == {pair \in Job \X Nat : \A C \in SUBSET (Job \X Nat) :
                                         Closed(C) => pair \in C}
<1>1. \A j \in Job \ {Root} : Parent[j] \in Job /\ \A k \in Nat : F[j][k] \in Nat
  OBVIOUS
<1>2. Closed(R) /\ R \in SUBSET (Job \X Nat)
  <2>1. <<Root, first>> \in R
    OBVIOUS
  <2>2. ASSUME NEW j \in Job \ {Root}, NEW k \in Nat, <<Parent[j], k>> \in R
        PROVE  <<j, F[j][k]>> \in R
    <3> SUFFICES ASSUME NEW C \in SUBSET (Job \X Nat), Closed(C)
                 PROVE  <<j, F[j][k]>> \in C
      BY <1>1
    <3>1. <<Parent[j], k>> \in C
      <4> HIDE DEF Closed
      <4> QED BY <2>2
    <3> QED BY <3>1
  <2>3. R \in SUBSET (Job \X Nat)
    OBVIOUS
  <2> HIDE DEF R
  <2> QED BY <2>1, <2>2, <2>3
<1>3. ASSUME NEW C \in SUBSET (Job \X Nat), Closed(C)
      PROVE  R \subseteq C
  <2> HIDE DEF Closed
  <2> QED BY <1>3
<1> HIDE DEF R
<1>4. \A j \in Job : \E n \in Nat : <<j, n>> \in R
  <2> DEFINE S == {j \in Job : \A n \in Nat : <<j, n>> \notin R}
  <2> SUFFICES ASSUME S # {} PROVE FALSE
    OBVIOUS
  <2>1. PICK j \in S : Parent[j] \notin S
    BY RootAssumption
  <2>2. CASE j = Root
    BY <1>2, <2>1, <2>2
  <2>3. CASE j # Root
    <3>1. PICK k \in Nat : <<Parent[j], k>> \in R
      BY <1>1, <2>1, <2>3
    <3>2. <<j, F[j][k]>> \in R /\ F[j][k] \in Nat
      BY <1>1, <1>2, <2>1, <2>3, <3>1
    <3> QED BY <2>1, <3>2
  <2> QED BY <2>2, <2>3
<1>5. \A n \in Nat : <<Root, n>> \in R => n = first
  <2> DEFINE C == {pair \in Job \X Nat : pair[1] = Root => pair[2] = first}
  <2>1. \A j \in Job, n \in Nat : <<j, n>> \in C <=> (j = Root => n = first)
    OBVIOUS
  <2>2. C \in SUBSET (Job \X Nat)
    OBVIOUS
  <2> HIDE DEF C
  <2>3. Closed(C)
    BY <1>1, <2>1
  <2> HIDE DEF Closed
  <2> QED BY <1>3, <2>1, <2>2, <2>3
<1>6. \A j \in Job : \A m, n \in Nat : <<j, m>> \in R /\ <<j, n>> \in R => m = n
  <2> DEFINE S == {j \in Job : \E m, n \in Nat : <<j, m>> \in R /\ <<j, n>> \in R
                                                 /\ m # n}
  <2> SUFFICES ASSUME S # {} PROVE FALSE
    OBVIOUS
  <2>1. PICK j \in S : Parent[j] \notin S
    BY RootAssumption
  <2>2. CASE j = Root
    BY <1>5, <2>1, <2>2
  <2>3. CASE j # Root
    <3>1. PICK k \in Nat : <<Parent[j], k>> \in R
      BY <1>1, <1>4, <2>1, <2>3
    <3>2. \A l \in Nat : <<Parent[j], l>> \in R => l = k
      BY <1>1, <2>1, <2>3, <3>1
    <3> DEFINE C == {pair \in R : pair[1] = j => pair[2] = F[j][k]}
    <3>3. \A x \in Job, n \in Nat :
            <<x, n>> \in C <=> <<x, n>> \in R /\ (x = j => n = F[j][k])
      OBVIOUS
    <3>4. C \in SUBSET (Job \X Nat)
      BY <1>2
    <3> HIDE DEF C
    <3>5. Closed(C)
      <4>1. <<Root, first>> \in C
        BY <1>2, <2>3, <3>3
      <4>2. ASSUME NEW x \in Job \ {Root}, NEW l \in Nat, <<Parent[x], l>> \in C
            PROVE  <<x, F[x][l]>> \in C
        <5>1. <<Parent[x], l>> \in R
          BY <1>1, <3>3, <4>2
        <5>2. <<x, F[x][l]>> \in R
          BY <1>2, <5>1
        <5>3. x = j => l = k
          BY <3>2, <5>1
        <5> QED BY <1>1, <3>3, <5>2, <5>3
      <4> QED BY <4>1, <4>2
    <3>6. \A n \in Nat : <<j, n>> \in R => n = F[j][k]
      <4> HIDE DEF Closed
      <4> QED BY <1>3, <2>1, <3>3, <3>4, <3>5
    <3> QED BY <2>1, <3>6
  <2> QED BY <2>2, <2>3
<1> DEFINE A == [j \in Job |-> CHOOSE n \in Nat : <<j, n>> \in R]
<1>7. \A j \in Job : A[j] \in Nat /\ <<j, A[j]>> \in R
  BY <1>4
<1>8. A \in [Job -> Nat]
  BY <1>7
<1> HIDE DEF A
<1>9. A[Root] = first
  BY <1>5, <1>7
<1>10. ASSUME NEW j \in Job \ {Root}
       PROVE  A[j] = F[j][A[Parent[j]]]
  <2>1. <<j, F[j][A[Parent[j]]]>> \in R
    BY <1>1, <1>2, <1>7
  <2> QED BY <1>1, <1>6, <1>7, <2>1
<1> QED BY <1>8, <1>9, <1>10

(* The builds that build k of the parent's project started for job j. *)
StartedBy(j, k) ==
  {n \in DOMAIN builds[Ident[j]] : <<Ident[Parent[j]], k>> \in CauseSet(Ident[j], n)}

FirstStarted(j, k) ==
  IF StartedBy(j, k) = {} THEN 0 ELSE CHOOSE n \in StartedBy(j, k) : TRUE

LEMMA PipelineBuildDef ==
  ASSUME ServerTypeOK
  PROVE  /\ PipelineBuild[Root] = RootNumber
         /\ \A j \in Job \ {Root} :
              PipelineBuild[j] = FirstStarted(j, PipelineBuild[Parent[j]])
         /\ PipelineBuild \in [Job -> Nat]
<1> USE JobAssumption
<1> DEFINE Step(f) == [j \in Job |-> IF j = Root THEN RootNumber
                                     ELSE FirstStarted(j, f[Parent[j]])]
           F == [j \in Job \ {Root} |-> [k \in Nat |-> FirstStarted(j, k)]]
<1>1. \A j \in Job \ {Root} : \A k \in Nat : FirstStarted(j, k) \in Nat
  <2> SUFFICES ASSUME NEW j \in Job \ {Root}, NEW k \in Nat
               PROVE  FirstStarted(j, k) \in Nat
    OBVIOUS
  <2>1. StartedBy(j, k) \subseteq Nat
    BY DEF StartedBy, ServerTypeOK
  <2> QED BY <2>1 DEF FirstStarted
<1>2. F \in [Job \ {Root} -> [Nat -> Nat]] /\ RootNumber \in Nat
  BY <1>1, ServerAssumption DEF RootNumber
<1>3. PICK A \in [Job -> Nat] : /\ A[Root] = RootNumber
                                /\ \A j \in Job \ {Root} : A[j] = F[j][A[Parent[j]]]
  <2> HIDE DEF F
  <2> QED BY <1>2, AlongParents
<1>4. A = Step(A)
  BY <1>3
<1>5. PipelineBuild = CHOOSE f : f = Step(f)
  BY Zenon DEF PipelineBuild, FirstStarted, StartedBy
<1>6. PipelineBuild = Step(PipelineBuild)
  <2> HIDE DEF Step
  <2> QED BY <1>4, <1>5
<1>7. PipelineBuild[Root] = RootNumber
  BY <1>6
<1>8. \A j \in Job \ {Root} :
        PipelineBuild[j] = FirstStarted(j, PipelineBuild[Parent[j]])
  BY <1>6
<1>9. \A j \in Job : PipelineBuild[j] \in Nat
  <2> DEFINE S == {j \in Job : PipelineBuild[j] \notin Nat}
  <2> SUFFICES ASSUME S # {} PROVE FALSE
    OBVIOUS
  <2>1. PICK j \in S : Parent[j] \notin S
    BY RootAssumption
  <2> HIDE DEF F, Step
  <2> QED BY <1>1, <1>2, <1>7, <1>8, <2>1
<1>10. PipelineBuild \in [Job -> Nat]
  <2>1. PipelineBuild = [j \in Job |-> PipelineBuild[j]]
    BY <1>6
  <2> HIDE DEF F, Step
  <2> QED BY <1>9, <2>1
<1> QED BY <1>7, <1>8, <1>10


(* A job whose initialization is over has constructed its children. *)
Bred ==
  opts.capturePipeline
    => \A j \in Job : pc[j] \in {"idle", "timer", "http"}
                       => \A c \in Children(j) : state[c] # "Absent"

LEMMA BredNext ==
  ASSUME "initReset" \notin Faults, Typed, Safe, Ending, Bred, ~threw', [Next]_vars
  PROVE  Bred'
<1> USE JobAssumption
<1> DEFINE Past(p) == p \in {"idle", "timer", "http"}
<1>1. num[Root] # -1
  BY RootNumberIs DEF Ending, NumberKnown
<1>2. \A j \in Job : Children(j) \subseteq Job
  BY DEF Children
<1>3. ASSUME opts'.capturePipeline => opts.capturePipeline,
             \A x \in Job : state[x] # "Absent" => state'[x] # "Absent",
             \A x \in Job : Past(pc'[x]) => Past(pc[x])
      PROVE  Bred'
  BY <1>2, <1>3 DEF Bred
<1>4. ASSUME NEW j \in Job, pc[j] \in {"init", "ready"}, Continue(j), opts' = opts
      PROVE  Bred'
  <2>1. Continues(j)
    BY <1>1, <1>4, ContinueStarts
  <2>2. StartsJob(Kids(j), j) /\ state'[j] # "Absent"
    BY <2>1 DEF Continues
  <2>3. /\ \A x \in Kids(j) : state'[x] # "Absent"
        /\ \A x \in Job : state[x] # "Absent" => state'[x] # "Absent"
    BY <2>2 DEF StartsJob, NewBorn, GivenUp
  <2>4. SUFFICES ASSUME opts.capturePipeline, NEW x \in Job, Past(pc'[x]),
                        NEW c \in Children(x)
                 PROVE  state'[c] # "Absent"
    BY <1>4 DEF Bred
  <2>5. CASE x = j
    BY <2>3, <2>4, <2>5 DEF Kids
  <2>6. CASE x # j
    <3>1. Past(pc[x])
      BY <2>1, <2>4, <2>6 DEF Continues
    <3> QED BY <1>2, <1>4, <2>3, <2>4, <3>1 DEF Bred
  <2> QED BY <2>5, <2>6
<1>5. ASSUME NEW j \in Job, JobStep(j)
      PROVE  Bred'
  <2>1. CASE JobInitResponse(j)
    <3>1. pc[j] = "init" /\ opts' = opts
      BY <2>1 DEF JobInitResponse
    <3>2. CASE Stuck(j)
      <4>1. state' = state /\ \A x \in Job : Past(pc'[x]) => Past(pc[x])
        BY <3>2 DEF Stuck, Typed, TypeOK
      <4> QED BY <1>3, <3>1, <4>1
    <3>3. Continue(j) \/ Stuck(j)
      BY <2>1 DEF JobInitResponse, Fault
    <3> QED BY <1>4, <3>1, <3>2, <3>3
  <2>2. CASE JobInitReady(j)
    BY <1>4, <2>2 DEF JobInitReady
  <2>3. CASE FinishTimer(j) \/ StreamResponse(j) \/ FinishResponse(j)
               \/ DownloadResponse(j)
    <3>1. \A x \in Job : state[x] # "Absent" => state'[x] # "Absent"
      BY <2>3, WorkMoves DEF RunningMove, Launched, Ran
    <3>2. opts'.capturePipeline => opts.capturePipeline
      BY <2>3 DEF FinishTimer, StreamResponse, FinishResponse, DownloadResponse,
                  Typed, TypeOK, Options
    <3>3. pc[j] \in {"timer", "http"}
      BY <2>3 DEF FinishTimer, StreamResponse, FinishResponse, DownloadResponse
    <3>4. \A x \in Job \ {j} : pc'[x] = pc[x]
      BY <2>3 DEF FinishTimer, StreamResponse, FinishResponse, DownloadResponse,
                  Enter, Again, Stuck, Typed, TypeOK
    <3> QED BY <1>3, <3>1, <3>2, <3>3, <3>4
  <2> QED BY <1>5, <2>1, <2>2, <2>3 DEF JobStep
<1>6. CASE Tick
  <2>1. UNCHANGED <<state, opts>>
    BY <1>6 DEF Tick, trackVars
  <2>2. \A x \in Job : Past(pc'[x]) => Past(pc[x])
    BY <1>6 DEF Tick
  <2> QED BY <1>3, <2>1, <2>2
<1>7. ASSUME NEW id \in Id, ResolveOne(id) \/ LocateResponse(id)
      PROVE  Bred'
  <2>1. /\ UNCHANGED pc
        /\ \A x \in Job : state[x] # "Absent" => state'[x] # "Absent"
    BY <1>7, ResolveMoves, LocateMoves DEF JobsMove
  <2>2. opts' = opts
    BY <1>7 DEF ResolveOne, LocateResponse
  <2> QED BY <1>3, <2>1, <2>2
<1>8. CASE ReportStep \/ Jenkins
           \/ \E id \in Id : CtorResponse(id) \/ SearchTimer(id) \/ ResolveDone(id)
  <2>1. UNCHANGED <<state, pc, opts>>
    BY <1>8 DEF ReportStep, AskPipelineResponse, DescribeResponse, WriteResult, Exit,
                Jenkins, CtorResponse, SearchTimer, ResolveDone, trackVars
  <2> QED BY <1>3, <2>1
<1>9. CASE UNCHANGED vars
  BY <1>9 DEF vars, trackVars, runVars, Bred
<1> QED BY <1>5, <1>6, <1>7, <1>8, <1>9 DEF Next, TaskStep, SearchStep

(* A job that has a number follows the build of its place. *)
LEMMA NumberIsPipelines ==
  ASSUME Typed, Safe, Ending, ServerInv
  PROVE  /\ \A j \in Job \ {Root} : \A k, n \in Nat :
              Caused(builds, Ident[j], n, Parent[j], k) => FirstStarted(j, k) = n
         /\ \A j \in Job : num[j] # -1 => num[j] = PipelineBuild[j]
<1> USE JobAssumption
<1>1. ASSUME NEW j \in Job \ {Root}, NEW k \in Nat, NEW n \in Nat,
             Caused(builds, Ident[j], n, Parent[j], k)
      PROVE  FirstStarted(j, k) = n
  <2>1. \A m : m \in StartedBy(j, k) <=> Caused(builds, Ident[j], m, Parent[j], k)
    BY DEF StartedBy, CauseSet, Caused
  <2>2. ASSUME NEW m, Caused(builds, Ident[j], m, Parent[j], k)
        PROVE  m = n
    <3>1. Ident[j] \in Id
      OBVIOUS
    <3>2. /\ m \in DOMAIN builds[Ident[j]]
          /\ \E i \in DOMAIN builds[Ident[j]][m].causes :
               builds[Ident[j]][m].causes[i] = <<Ident[Parent[j]], k>>
      BY <2>2 DEF Caused
    <3>3. /\ n \in DOMAIN builds[Ident[j]]
          /\ \E i \in DOMAIN builds[Ident[j]][n].causes :
               builds[Ident[j]][n].causes[i] = <<Ident[Parent[j]], k>>
      BY <1>1 DEF Caused
    <3> QED BY <3>1, <3>2, <3>3 DEF ServerInv, Triggered, CausedOnce
  <2>3. n \in StartedBy(j, k) /\ \A m \in StartedBy(j, k) : m = n
    BY <1>1, <2>1, <2>2
  <2> HIDE DEF StartedBy
  <2> QED BY <2>3 DEF FirstStarted
<1>2. \A j \in Job : num[j] # -1 => num[j] = PipelineBuild[j]
  <2> DEFINE S == {j \in Job : num[j] # -1 /\ num[j] # PipelineBuild[j]}
  <2> SUFFICES ASSUME S # {} PROVE FALSE
    OBVIOUS
  <2>1. PICK j \in S : Parent[j] \notin S
    BY RootAssumption
  <2>2. /\ PipelineBuild[Root] = RootNumber
        /\ \A x \in Job \ {Root} :
             PipelineBuild[x] = FirstStarted(x, PipelineBuild[Parent[x]])
    BY PipelineBuildDef DEF Typed, TypeOK
  <2>3. j # Root
    BY <2>1, <2>2 DEF Ending, NumberKnown
  <2>4. Parent[j] \in Job /\ num[j] \in Nat
    BY <2>1, <2>3 DEF Typed, TypeOK
  <2>5. Caused(builds, Ident[j], num[j], Parent[j], num[Parent[j]])
    BY <2>1, <2>3, TrackSoundDef DEF Safe, TracksSoundly
  <2>6. num[Parent[j]] \in Nat
    BY <2>5, CauseNumbered DEF Typed, TypeOK
  <2>7. num[Parent[j]] = PipelineBuild[Parent[j]]
    BY <2>1, <2>4, <2>6
  <2>8. FirstStarted(j, num[Parent[j]]) = num[j]
    BY <1>1, <2>3, <2>4, <2>5, <2>6
  <2> QED BY <2>1, <2>2, <2>3, <2>7, <2>8
<1> QED BY <1>1, <1>2

ChildrenOfDone ==
  opts.capturePipeline
    => \A j \in Job : state[j] = "Done" => \A c \in Children(j) : state[c] # "Absent"

(* When the task ends without a failure every place of the pipeline has a job *)
(* that is done, in that place or joined to it.                            *)
LEMMA SuccessAtEnd ==
  ASSUME Typed, Safe, Ending, TrackInv, ServerInv, ChildrenOfDone, Reported,
         phase = "ended", ~failed
  PROVE  \A j \in Captured : Outcome(j) \in GoodResult
<1> USE JobAssumption
<1> DEFINE Good(j, d) == /\ d \in Job /\ state[d] = "Done" /\ Ident[d] = Ident[j]
                         /\ PipelineBuild[d] = PipelineBuild[j]
<1>1. /\ \A x \in Job : ~HasFailed(x) /\ state[x] # "Killed"
      /\ \A x \in Job : state[x] \in Active => Abandoned(x)
  BY DEF Ending, Stopped, Failures, Reported
<1>2. \A x \in Job : state[x] \in {"Absent", "Done", "Joined", "Cut", "Queued"}
                       \/ Abandoned(x)
  BY <1>1 DEF Typed, TypeOK, JobState, Active
<1>3. ASSUME NEW d \in Job, state[d] = "Done"
      PROVE  /\ num[d] = PipelineBuild[d] /\ num[d] \in DOMAIN builds[Ident[d]]
             /\ Result(d) \in GoodResult
  <2>1. num[d] # -1
    BY <1>3 DEF Ending, NumberKnown, Launched, Ran
  <2>2. num[d] \in DOMAIN builds[Ident[d]]
    <3>1. CASE d = Root
      BY <3>1 DEF Ending, NumberKnown, ServerInv, Triggered
    <3>2. CASE d # Root
      BY <2>1, <3>2 DEF Safe, TrackSound
    <3> QED BY <3>1, <3>2
  <2>3. num[d] = PipelineBuild[d]
    BY <2>1, NumberIsPipelines
  <2>4. Result(d) \in GoodResult
    BY <1>1, <1>3 DEF HasFailed
  <2> QED BY <2>2, <2>3, <2>4
<1>4. ASSUME NEW j \in Job, NEW d, Good(j, d)
      PROVE  Outcome(j) \in GoodResult
  <2>1. Ident[d] \in Id /\ d \in Job
    BY <1>4
  <2>2. PipelineBuild[d] # 0
    BY <1>3, <1>4, <2>1 DEF Typed, TypeOK, ServerTypeOK
  <2> QED BY <1>3, <1>4, <2>1, <2>2 DEF Outcome, Result
<1>5. ASSUME opts.captureConsole
      PROVE  Good(Root, Root)
  <2>1. state[Root] \notin {"Absent", "Joined", "Cut"}
    BY TParts DEF TrackInv, Placed, Arranged, Rooted, GivenUp
  <2>2. state[Root] # "Queued"
    BY <1>5 DEF Ending, AtRest
  <2> QED BY <1>2, <2>1, <2>2 DEF Abandoned
<1>6. ASSUME opts.capturePipeline, NEW j \in Job
      PROVE  \E d : Good(j, d)
  <2>1. opts.captureConsole
    BY <1>6 DEF Ending, Failures
  <2>2. \A x \in Job \ {Root} :
          /\ state[Parent[x]] \in Launched => state[Parent[x]] = "Done"
          /\ state[x] = "Joined" => state[Parent[x]] = "Done"
          /\ state[Parent[x]] = "Done" /\ state[x] # "Absent"
               => state[x] \in {"Done", "Joined"}
    <3> SUFFICES ASSUME NEW x \in Job \ {Root}
                 PROVE  /\ state[Parent[x]] \in Launched => state[Parent[x]] = "Done"
                        /\ state[x] = "Joined" => state[Parent[x]] = "Done"
                        /\ state[Parent[x]] = "Done" /\ state[x] # "Absent"
                             => state[x] \in {"Done", "Joined"}
      OBVIOUS
    <3>1. \A y \in Job : state[y] # "Queued"
      BY <2>1 DEF Ending, AtRest
    <3>2. state[Parent[x]] \in Launched => state[Parent[x]] = "Done"
      BY <1>2, <3>1 DEF Abandoned, Launched, Ran
    <3>3. /\ state[x] = "Joined" => state[Parent[x]] \in Launched
          /\ state[x] = "Cut" => state[Parent[x]] \in GivenUp
      BY TParts DEF TrackInv, Placed, Arranged, Nested, GivenUp
    <3>4. state[Parent[x]] = "Done" /\ state[x] # "Absent"
            => state[x] \in {"Done", "Joined"}
      BY <1>2, <3>1, <3>3 DEF Abandoned, GivenUp
    <3> QED BY <3>2, <3>3, <3>4
  <2>3. \A x \in Job \ {Root} : \A n \in Nat :
          state[Parent[x]] = "Done"
            /\ Caused(builds, Ident[x], n, Parent[x], num[Parent[x]])
            => PipelineBuild[x] = n
    BY <1>3, NumberIsPipelines, PipelineBuildDef DEF Typed, TypeOK
  <2>4. ASSUME NEW x \in Job, state[x] = "Joined"
        PROVE  /\ joined[x] \in Job /\ state[joined[x]] \in {"Done", "Joined"}
               /\ Ident[joined[x]] = Ident[x]
               /\ PipelineBuild[joined[x]] = PipelineBuild[x]
    <3> DEFINE m == joined[x]
    <3>1. Joinable(builds, T, x, m)
      BY <2>4, TParts DEF TrackInv, Placed, Arranged, JoinsShare
    <3>2. x # Root
      BY <2>4, TParts DEF TrackInv, Placed, Arranged, Rooted, GivenUp
    <3>3. CASE m = Root
      BY <3>1, <3>2, <3>3 DEF Joinable
    <3>4. CASE m # Root
      <4>1. /\ m \in Job \ {Root} /\ Ident[m] = Ident[x]
            /\ state[m] \notin {"Absent", "Cut"} /\ state[Parent[m]] = "Done"
        BY <2>2, <3>1, <3>4, TParts DEF Joinable
      <4>2. PICK n \in foundCauses[Ident[x]] : Shared(builds, T, x, m, n)
        BY <3>1, TParts DEF Joinable
      <4>3. n \in Nat
        BY <4>2 DEF Typed, TypeOK
      <4>4. PipelineBuild[x] = n
        BY <2>2, <2>3, <2>4, <3>2, <4>2, <4>3, TParts DEF Shared
      <4>5. PipelineBuild[m] = n
        BY <2>3, <4>1, <4>2, <4>3, TParts DEF Shared
      <4> QED BY <2>2, <4>1, <4>4, <4>5
    <3> QED BY <3>3, <3>4
  <2>5. \A x \in Job : state[x] \in {"Done", "Joined"} => \E d : Good(x, d)
    <3> DEFINE S == {x \in Job : state[x] = "Joined" /\ ~\E d : Good(x, d)}
    <3>1. S = {}
      <4> SUFFICES ASSUME S # {} PROVE FALSE
        OBVIOUS
      <4>1. PICK x \in S : joined[x] \notin S
        BY TParts DEF TrackInv, Placed, Arranged, JoinsEnd
      <4>2. \E d : Good(joined[x], d)
        BY <2>4, <4>1
      <4> QED BY <2>4, <4>1, <4>2
    <3> QED BY <3>1
  <2> DEFINE S == {x \in Job : ~\E d : Good(x, d)}
  <2> SUFFICES ASSUME S # {} PROVE FALSE
    OBVIOUS
  <2>6. PICK x \in S : Parent[x] \notin S
    BY RootAssumption
  <2>7. x # Root
    BY <1>5, <2>1, <2>6
  <2>8. PICK d : Good(Parent[x], d)
    BY <2>6, <2>7
  <2>9. PICK c \in Children(d) : Ident[c] = Ident[x]
    <3>1. Ident[x] \in {Ident[y] : y \in Children(Parent[x])}
      BY <2>6, <2>7 DEF Children
    <3>2. {Ident[y] : y \in Children(d)} = {Ident[y] : y \in Children(Parent[x])}
      BY <2>6, <2>7, <2>8, TreeAssumption
    <3> QED BY <3>1, <3>2
  <2>10. c \in Job \ {Root} /\ Parent[c] = d
    BY <2>8, <2>9 DEF Children
  <2>11. PipelineBuild[c] = PipelineBuild[x]
    <3>1. /\ PipelineBuild[c] = FirstStarted(c, PipelineBuild[d])
          /\ PipelineBuild[x] = FirstStarted(x, PipelineBuild[Parent[x]])
      BY <2>6, <2>7, <2>10, PipelineBuildDef DEF Typed, TypeOK
    <3>2. Ident[c] = Ident[x] /\ Ident[Parent[c]] = Ident[Parent[x]]
      BY <2>8, <2>9, <2>10
    <3>3. StartedBy(c, PipelineBuild[d]) = StartedBy(x, PipelineBuild[d])
      BY <3>2 DEF StartedBy
    <3>4. FirstStarted(c, PipelineBuild[d]) = FirstStarted(x, PipelineBuild[d])
      <4> DEFINE A == StartedBy(c, PipelineBuild[d])
                 B == StartedBy(x, PipelineBuild[d])
      <4>1. A = B
        BY <3>3
      <4>2. /\ FirstStarted(c, PipelineBuild[d]) = IF A = {} THEN 0 ELSE CHOOSE n \in A : TRUE
            /\ FirstStarted(x, PipelineBuild[d]) = IF B = {} THEN 0 ELSE CHOOSE n \in B : TRUE
        BY DEF FirstStarted
      <4> HIDE DEF A, B
      <4> QED BY <4>1, <4>2
    <3> QED BY <2>8, <3>1, <3>4
  <2>12. state[c] \in {"Done", "Joined"}
    <3>1. state[c] # "Absent"
      BY <1>6, <2>8, <2>9 DEF ChildrenOfDone
    <3> QED BY <2>2, <2>8, <2>10, <3>1
  <2> QED BY <2>5, <2>6, <2>9, <2>10, <2>11, <2>12
<1>7. \A j \in Captured : Outcome(j) \in GoodResult
  BY <1>4, <1>5, <1>6 DEF Captured
<1> QED BY <1>7

(* As long as no state check has thrown: if no request for a project is reset *)
(* and the report is not answered with a bad status, a task that ends without *)
(* a failure has told the truth: every build that belongs to the pipeline, by *)
(* Jenkins' records, exists and succeeded, although the task follows some of *)
(* them at one of their places only.  All other failures may happen.        *)
THEOREM SuccessIsAlwaysReal ==
  ASSUME Faults \cap {"initReset", "reportStatus"} = {}
  PROVE  Spec => [](NeverThrows => SuccessIsReal)
<1>1. Init => (threw \/ Bred) /\ Reported
  <2> SUFFICES ASSUME Init PROVE Bred /\ Reported
    OBVIOUS
  <2> QED BY JobAssumption DEF Init, Bred, Reported
<1>2. Typed /\ Safe /\ Kept /\ ((threw \/ Bred) /\ Reported) /\ [Next]_vars
        => ((threw \/ Bred) /\ Reported)'
  <2> SUFFICES ASSUME Typed, Safe, Kept, threw \/ Bred, Reported, [Next]_vars
               PROVE  (~threw' => Bred') /\ Reported'
    OBVIOUS
  <2>1. "initReset" \notin Faults /\ "reportStatus" \notin Faults
    OBVIOUS
  <2>2. ASSUME ~threw'
        PROVE  Bred'
    <3>1. ~threw
      BY <2>2, ThrewStays
    <3>2. Ending /\ Bred
      BY <3>1, Zenon DEF Kept
    <3> QED BY <2>1, <2>2, <3>2, BredNext
  <2> QED BY <2>1, <2>2, ReportedNext
<1>3. Spec => []((threw \/ Bred) /\ Reported)
  BY <1>1, <1>2, AlwaysTyped, AlwaysSafe, AlwaysKept, PTL DEF Spec
<1>4. Typed /\ Safe /\ Kept /\ (Tidy /\ ServerInv) /\ ((threw \/ Bred) /\ Reported)
        => (NeverThrows => SuccessIsReal)
  <2> SUFFICES ASSUME Typed, Safe, Kept, ServerInv, threw \/ Bred, Reported, ~threw
               PROVE  SuccessIsReal
    BY DEF NeverThrows
  <2>1. Ending /\ TrackInv /\ Bred
    BY Zenon DEF Kept
  <2>2. ChildrenOfDone
    BY <2>1 DEF Ending, AtRest, Bred, ChildrenOfDone
  <2> QED BY <2>1, <2>2, SuccessAtEnd DEF SuccessIsReal
<1> QED BY <1>3, <1>4, AlwaysTyped, AlwaysSafe, AlwaysKept, AlwaysPlaced, PTL


-----------------------------------------------------------------------------
(* A failure without a failed request.                                     *)

(* As long as no request has failed, a failure is reported and the queue is   *)
(* stopped before its end only over a job that failed, and only a captured   *)
(* job is followed to its end.                                             *)
Blameless ==
  faults = 0
    => /\ ~opts.shouldFail
       /\ \A j \in Job \ {Root} : state[j] # "Absent" => opts.capturePipeline
       /\ \A j \in Job : state[j] \in {"Streaming", "Downloading", "Done"} \/ pc[j] = "http"
                          => opts.captureConsole
       /\ failed \/ (phase # "running" /\ ~complete) => \E j \in Job : HasFailed(j)

(* What a step may do without breaking this. *)
Harmless ==
  faults' = 0
    => /\ faults = 0 /\ opts' = opts
       /\ \A x \in Job : state[x] = "Done" => state'[x] = "Done" /\ num'[x] = num[x]
       /\ \A x \in Job \ {Root} :
            state'[x] # "Absent" => state[x] # "Absent" \/ opts.capturePipeline
       /\ \A x \in Job :
            state'[x] \in {"Streaming", "Downloading", "Done"} \/ pc'[x] = "http"
              => \/ state[x] \in {"Streaming", "Downloading", "Done"} \/ pc[x] = "http"
                 \/ opts.captureConsole
       /\ failed' \/ (phase' # "running" /\ ~complete')
            => failed \/ (phase # "running" /\ ~complete) \/ \E j \in Job : HasFailed(j)

LEMMA HarmlessKeeps ==
  ASSUME Safe, Ending, ServerInv, ResultsStay, Blameless, Harmless
  PROVE  Blameless'
<1> SUFFICES ASSUME faults' = 0
             PROVE  /\ ~opts'.shouldFail
                    /\ \A j \in Job \ {Root} :
                         state'[j] # "Absent" => opts'.capturePipeline
                    /\ \A j \in Job :
                         state'[j] \in {"Streaming", "Downloading", "Done"}
                           \/ pc'[j] = "http" => opts'.captureConsole
                    /\ failed' \/ (phase' # "running" /\ ~complete')
                         => \E j \in Job : HasFailed(j)'
  BY DEF Blameless
<1>1. \A x \in Job : HasFailed(x) => HasFailed(x)'
  BY ResultKept DEF Harmless, HasFailed
<1> QED BY <1>1 DEF Harmless, Blameless

(* The callbacks of a job that goes on, when no request fails. *)
LEMMA WorkHarmless ==
  ASSUME Typed, Safe, Ending, NEW j \in Job,
         FinishTimer(j) \/ StreamResponse(j) \/ FinishResponse(j) \/ DownloadResponse(j),
         Blameless
  PROVE  Harmless
<1> SUFFICES ASSUME faults' = 0 PROVE Harmless
  BY DEF Harmless
<1>1. RunningMove /\ phase' = phase
  BY WorkMoves
<1>2. ~\E kind : Fault(kind)
  BY DEF Fault, Typed, TypeOK
<1>3. faults = 0 /\ opts' = opts /\ failed' = failed /\ complete' = complete
  BY <1>2 DEF FinishTimer, StreamResponse, FinishResponse, DownloadResponse, runVars
<1>4. \/ FinishTimer(j) /\ (opts.captureConsole \/ Enter(j, "Queued"))
      \/ /\ pc[j] = "http"
         /\ Again(j) \/ Stuck(j) \/ \E s \in Ran \cup {"Killed"} : Enter(j, s)
  BY DEF FinishTimer, StreamResponse, FinishResponse, DownloadResponse, Ran
<1>5. \A x \in Job \ {j} : state'[x] = state[x] /\ pc'[x] = pc[x]
  BY DEF FinishTimer, StreamResponse, FinishResponse, DownloadResponse, Enter, Again,
         Stuck, Typed, TypeOK
<1>6. state'[j] \in {"Streaming", "Downloading", "Done"} \/ pc'[j] = "http"
        => pc[j] = "http" \/ opts.captureConsole
  <2>1. CASE Enter(j, "Queued")
    BY <2>1 DEF Enter, Typed, TypeOK
  <2> QED BY <1>4, <2>1
<1>7. /\ \A x \in Job : state[x] = "Done" => state'[x] = "Done" /\ num'[x] = num[x]
      /\ \A x \in Job : state'[x] # "Absent" => state[x] # "Absent"
  BY <1>1 DEF RunningMove, Running
<1> QED BY <1>1, <1>3, <1>5, <1>6, <1>7 DEF Harmless

(* A job that starts streams only if its console is captured, and children   *)
(* are constructed only if the pipeline is.                                *)
LEMMA StartsHarmless ==
  ASSUME Typed, NEW kids, NEW j \in Job, StartsJob(kids, j),
         kids # {} => opts.capturePipeline,
         \A x \in Job : pc'[x] = "http" => pc[x] = "http",
         UNCHANGED <<opts, phase, complete>>,
         faults' = 0 => faults = 0, failed' => failed
  PROVE  Harmless
<1>1. \A x \in Job : state[x] \in {"Done", "Downloading", "Streaming"}
                       => state'[x] = state[x] /\ num'[x] = num[x]
  <2> SUFFICES ASSUME NEW x \in Job, state[x] \in {"Done", "Downloading", "Streaming"}
               PROVE  state'[x] = state[x] /\ num'[x] = num[x]
    OBVIOUS
  <2>1. CASE x = j
    BY <2>1 DEF StartsJob, Opens, Pending
  <2>2. CASE x # j
    BY <2>2 DEF StartsJob, NewBorn, Pending
  <2> QED BY <2>1, <2>2
<1>2. \A x \in Job : state'[x] # "Absent" => state[x] # "Absent" \/ x \in kids
  <2> SUFFICES ASSUME NEW x \in Job, state'[x] # "Absent", x \notin kids
               PROVE  state[x] # "Absent"
    OBVIOUS
  <2>1. CASE x = j
    BY <2>1 DEF StartsJob, Opens, Pending
  <2>2. CASE x # j
    BY <2>2 DEF StartsJob, NewBorn, Pending
  <2> QED BY <2>1, <2>2
<1>3. \A x \in Job : state'[x] \in {"Streaming", "Downloading", "Done"}
                       => state'[x] = state[x] \/ opts.captureConsole
  <2>1. \A x \in Job \ {j} : state'[x] \in {"Streaming", "Downloading", "Done"}
                               => state'[x] = state[x]
    BY DEF StartsJob, NewBorn, GivenUp
  <2>2. state'[j] \in {"Streaming", "Downloading", "Done"}
          => state'[j] = state[j] \/ opts.captureConsole
    BY DEF StartsJob, Opens, GivenUp
  <2> QED BY <2>1, <2>2
<1> QED BY <1>1, <1>2, <1>3 DEF Harmless

LEMMA BlamelessNext ==
  ASSUME Typed, Safe, Ending, ServerInv, Blameless, ~threw', [Next]_vars
  PROVE  Blameless'
<1> USE JobAssumption
<1>1. num[Root] # -1
  BY RootNumberIs DEF Ending, NumberKnown
<1>2. ASSUME Harmless, builds' = builds PROVE Blameless'
  BY <1>2, HarmlessKeeps DEF ResultsStay
<1>3. ASSUME NEW j \in Job, pc[j] \in {"init", "ready"}, Continue(j),
             UNCHANGED <<opts, phase, complete, failed, builds>>, faults' = faults
      PROVE  Blameless'
  <2>1. Continues(j)
    BY <1>1, <1>3, ContinueStarts
  <2>2. StartsJob(Kids(j), j) /\ \A x \in Job : pc'[x] = "http" => pc[x] = "http"
    BY <2>1 DEF Continues
  <2>3. Kids(j) # {} => opts.capturePipeline
    BY DEF Kids
  <2>4. Harmless
    BY <1>3, <2>2, <2>3, StartsHarmless
  <2> QED BY <1>2, <1>3, <2>4
<1>4. ASSUME UNCHANGED <<state, num, opts, complete, failed>>,
             phase' = phase \/ (complete /\ phase # "running"),
             faults' = 0 => faults = 0,
             \A x \in Job : pc'[x] = "http" => pc[x] = "http", ResultsStay
      PROVE  Blameless'
  <2>1. Harmless
    BY <1>4 DEF Harmless
  <2> QED BY <1>4, <2>1, HarmlessKeeps
<1>5. ASSUME NEW j \in Job, JobStep(j)
      PROVE  Blameless'
  <2>1. CASE JobInitResponse(j)
    <3>1. pc[j] = "init" /\ UNCHANGED <<opts, phase, complete, failed, builds>>
      BY <2>1 DEF JobInitResponse, serverVars
    <3>2. CASE Continue(j) /\ faults' = faults
      BY <1>3, <3>1, <3>2
    <3>3. CASE Fault("initReset") \/ Fault("initFail")
      <4>1. faults' # 0
        BY <3>3 DEF Fault, Typed, TypeOK
      <4> QED BY <4>1 DEF Blameless
    <3> QED BY <2>1, <3>2, <3>3 DEF JobInitResponse
  <2>2. CASE JobInitReady(j)
    BY <1>3, <2>2 DEF JobInitReady, serverVars
  <2>3. CASE FinishTimer(j) \/ StreamResponse(j) \/ FinishResponse(j)
               \/ DownloadResponse(j)
    BY <1>2, <2>3, WorkMoves, WorkHarmless
  <2> QED BY <1>5, <2>1, <2>2, <2>3 DEF JobStep
<1>6. CASE Tick
  <2>1. /\ UNCHANGED <<state, num, opts, failed, faults, builds>> /\ phase = "running"
        /\ phase' # "running" /\ ~complete' => \E j \in Job : HasFailed(j)
    BY <1>6 DEF Tick, trackVars, serverVars
  <2>2. \A x \in Job : pc'[x] = "http" => pc[x] = "http"
                                           \/ state[x] \in {"Streaming", "Downloading"}
    BY <1>6 DEF Tick, DoWork, Running
  <2>3. Harmless
    BY <2>1, <2>2 DEF Harmless
  <2> QED BY <1>2, <2>1, <2>3
<1>7. ASSUME NEW id \in Id, ResolveOne(id) \/ LocateResponse(id)
      PROVE  Blameless'
  <2>1. UNCHANGED <<pc, opts, phase, complete, builds>>
    BY <1>7, SearchPhase
  <2>2. SearchStarts
    BY <1>1, <1>7, ResolveStarts, LocateStarts
  <2>3. CASE faults' # 0
    BY <2>3 DEF Blameless
  <2>4. CASE faults' = 0
    <3>1. failed' = failed /\ faults = 0
      <4>1. ~\E kind : Fault(kind)
        BY <2>4 DEF Fault, Typed, TypeOK
      <4>2. ASSUME NEW r, Settle(r), failed' = (failed \/ ~r.legal)
            PROVE  failed' = failed
        <5>1. r.legal
          BY <4>2, Zenon DEF Settle
        <5> QED BY <4>2, <5>1, Zenon DEF Typed, TypeOK
      <4>3. CASE ResolveOne(id)
        <5>1. \E r : Settle(r) /\ failed' = (failed \/ ~r.legal)
          BY <4>3, Zenon DEF ResolveOne
        <5>2. faults' = faults
          BY <4>3 DEF ResolveOne
        <5> QED BY <2>4, <4>2, <5>1, <5>2
      <4>4. CASE LocateResponse(id)
        <5>1. /\ faults' = faults
              /\ \/ \E r : Settle(r) /\ failed' = (failed \/ ~r.legal)
                 \/ failed' = failed
          BY <4>1, <4>4, Zenon DEF LocateResponse
        <5> QED BY <2>4, <4>2, <5>1
      <4> QED BY <1>7, <4>3, <4>4
    <3>2. CASE UNCHANGED trackVars
      BY <1>4, <2>1, <2>4, <3>1, <3>2 DEF trackVars, ResultsStay
    <3>3. ASSUME NEW j \in Job, StartsJob({}, j)
          PROVE  Blameless'
      <4>1. Harmless
        BY <2>1, <2>4, <3>1, <3>3, StartsHarmless
      <4> QED BY <1>2, <2>1, <4>1
    <3> QED BY <2>2, <3>2, <3>3 DEF SearchStarts
  <2> QED BY <2>3, <2>4
<1>8. ASSUME NEW id \in Id, CtorResponse(id) \/ SearchTimer(id) \/ ResolveDone(id)
      PROVE  Blameless'
  <2>1. UNCHANGED <<state, num, opts, complete, failed, pc, builds, phase>>
    BY <1>8 DEF CtorResponse, SearchTimer, ResolveDone, trackVars, runVars, serverVars
  <2>2. faults' = 0 => faults = 0
    BY <1>8 DEF CtorResponse, SearchTimer, ResolveDone, Fault, Typed, TypeOK
  <2> QED BY <1>4, <2>1, <2>2 DEF ResultsStay
<1>9. CASE ReportStep
  <2>1. UNCHANGED <<state, num, opts, complete, pc, builds>> /\ phase # "running"
    BY <1>9 DEF ReportStep, AskPipelineResponse, DescribeResponse, WriteResult, Exit,
                trackVars, serverVars
  <2>2. \/ faults' = faults /\ failed' = failed
        \/ faults' = faults + 1
        \/ faults' = faults /\ failed' = (failed \/ ~complete \/ opts.shouldFail)
    BY <1>9 DEF ReportStep, AskPipelineResponse, DescribeResponse, WriteResult, Exit,
                Fault
  <2>3. faults' = 0 => faults = 0 /\ (failed' => failed \/ ~complete \/ opts.shouldFail)
    <3>1. faults \in Nat
      BY DEF Typed, TypeOK
    <3>2. faults' = faults + 1 => faults' # 0
      BY <3>1
    <3> QED BY <2>2, <3>2, Zenon
  <2>4. Harmless
    BY <2>1, <2>3 DEF Harmless, Blameless
  <2> QED BY <1>2, <2>1, <2>4
<1>10. CASE Jenkins \/ UNCHANGED vars
  <2>1. UNCHANGED <<state, num, opts, complete, failed, pc, phase, faults>>
    BY <1>10 DEF Jenkins, vars, trackVars, runVars
  <2>2. ResultsStay
    BY <1>10, ServerResultsStay DEF Jenkins, Typed, TypeOK, vars, serverVars, ResultsStay
  <2> QED BY <1>4, <2>1, <2>2
<1> QED BY <1>5, <1>6, <1>7, <1>8, <1>9, <1>10 DEF Next, TaskStep, SearchStep

LEMMA AlwaysBlameless == Spec => [](threw \/ Blameless)
<1>1. Init => Blameless
  <2> SUFFICES ASSUME Init PROVE Blameless
    OBVIOUS
  <2> QED BY JobAssumption, OptionAssumption DEF Init, Blameless
<1>2. Typed /\ Safe /\ Kept /\ (Tidy /\ ServerInv) /\ (threw \/ Blameless) /\ [Next]_vars
        => (threw \/ Blameless)'
  <2> SUFFICES ASSUME Typed, Safe, Kept, ServerInv, threw \/ Blameless, [Next]_vars,
                      ~threw'
               PROVE  Blameless'
    OBVIOUS
  <2>1. ~threw
    BY ThrewStays
  <2>2. Ending /\ Blameless
    BY <2>1, Zenon DEF Kept
  <2> QED BY <2>2, BlamelessNext
<1> QED BY <1>1, <1>2, AlwaysTyped, AlwaysSafe, AlwaysKept, AlwaysPlaced, PTL DEF Spec

(* If no request fails, the only failures that the task reports for no reason *)
(* are those of its own checks: unless one of them threw, a reported failure *)
(* means that a build of the pipeline, by Jenkins' records, did not succeed.  *)
THEOREM FailuresAreReal == Spec => [](NeverThrows => FailureIsReal)
<1>1. Typed /\ Safe /\ Kept /\ (Tidy /\ ServerInv) /\ (threw \/ Blameless)
        => (NeverThrows => FailureIsReal)
  <2> SUFFICES ASSUME Typed, Safe, Kept, ServerInv, threw \/ Blameless, ~threw,
                      failed, faults = 0
               PROVE  \E j \in Captured : Outcome(j) \notin GoodResult \cup {"none"}
    BY DEF NeverThrows, FailureIsReal
  <2>1. Ending /\ Blameless
    BY Zenon DEF Kept
  <2>2. PICK j \in Job : HasFailed(j)
    BY <2>1 DEF Blameless
  <2>3. state[j] = "Done" /\ Result(j) \notin GoodResult
    BY <2>2 DEF HasFailed
  <2>4. j \in Captured
    BY <2>3, <2>1 DEF Blameless, Captured
  <2>5. Result(j) # "none"
    BY <2>3, <2>1 DEF Ending, Resulted
  <2>6. num[j] # -1
    BY <2>3, <2>1 DEF Ending, NumberKnown, Launched, Ran
  <2>7. num[j] = PipelineBuild[j] /\ num[j] # 0
    <3>1. num[j] = PipelineBuild[j]
      BY <2>6, <2>1, NumberIsPipelines
    <3>2. CASE j = Root
      BY <2>1, <3>1, <3>2, ServerAssumption DEF Ending, NumberKnown, RootNumber
    <3>3. CASE j # Root
      <4>1. num[j] \in DOMAIN builds[Ident[j]] /\ Ident[j] \in Id
        BY <2>6, <3>3, JobAssumption DEF Safe, TrackSound
      <4> QED BY <3>1, <4>1 DEF Typed, TypeOK, ServerTypeOK
    <3> QED BY <3>2, <3>3
  <2>8. Outcome(j) \notin GoodResult \cup {"none"}
    BY <2>3, <2>5, <2>7 DEF Outcome, Result
  <2> QED BY <2>4, <2>8
<1> QED BY <1>1, AlwaysTyped, AlwaysSafe, AlwaysKept, AlwaysPlaced, AlwaysBlameless, PTL


-----------------------------------------------------------------------------
(* A pipeline that reaches no project along two paths: no check throws.      *)

Unshared == \A i, j \in Job : Ident[i] = Ident[j] => i = j

(* No job that was killed is a cause of the builds known of project id. *)
Spared(t, id) ==
  \A n \in t.known[id] : \A x \in Job :
    t.state[x] = "Killed" => BuildNumber(t, x) \notin CauseSet(id, n)

(* Only job j changes, and it does so by starting. *)
StartsAlone(t, r, j) ==
  /\ r.legal
  /\ \A x \in Job \ {j} : r.state[x] = t.state[x]
  /\ t.state[j] \in Pending /\ r.state[j] \in {"Streaming", "Finishing"}

LEMMA ChildrenUnshared ==
  ASSUME ServerTypeOK, Unshared, NEW t \in Tracked, Existing(t), NEW id \in Id, NEW n
  PROVE  /\ Secondaries(t, id, n) = {}
         /\ \A x \in CauseChildren(t, id, n, Ran) : MainJob(t, id, n) = x
<1>1. \A S : \A x \in CauseChildren(t, id, n, S) : x \in Job /\ Ident[x] = id
  BY DEF CauseChildren
<1>2. MainJob(t, id, n) \in CauseChildren(t, id, n, Ran) \cup {NoJob}
  BY MainJobIn
<1>3. ASSUME NEW x \in Secondaries(t, id, n) PROVE FALSE
  <2>1. x \in Job /\ Ident[x] = id /\ MainJob(t, id, n) \notin {x, NoJob}
    BY <1>1 DEF Secondaries
  <2> QED BY <1>1, <1>2, <2>1 DEF Unshared
<1>4. ASSUME NEW x \in CauseChildren(t, id, n, Ran)
      PROVE  MainJob(t, id, n) = x
  <2>1. CauseChildren(t, id, n, Ran) = {x}
    BY <1>1 DEF Unshared
  <2>2. MainJob(t, id, n) \in CauseChildren(t, id, n, Ran)
    BY <2>1, MainJobRuns
  <2> QED BY <2>1, <2>2
<1> QED BY <1>3, <1>4

LEMMA DeterminableUnshared ==
  ASSUME Unshared, NEW t, NEW id \in Id, NEW n \in t.known[id], Spared(t, id)
  PROVE  Determinable(t, id, n)
<1>1. \A x, y \in Masters(t, id, n) : x = y
  BY DEF Masters, CauseChildren, Unshared
<1> QED BY <1>1 DEF Determinable, Spared

LEMMA NobodyJoined ==
  ASSUME NEW t \in Tracked, t.legal, NEW j \in Job
  PROVE  JoinedTo(t, {}, j).legal /\ JoinedTo(t, {}, j).state = t.state
<1> DEFINE q == JoinedTo(t, {}, j)
           joins == {x \in {} : CheckStateTransition(t.state[x], "Joined")}
           below == {d \in Job : t.state[d] # "Absent" /\ joins \cap Ancestors[d] # {}}
           cut == {d \in below : /\ t.state[j] \notin GivenUp
                                 /\ CheckStateTransition(t.state[d], "Cut")}
           s == [x \in Job |-> IF x \in joins THEN "Joined"
                               ELSE IF x \in cut THEN "Cut" ELSE t.state[x]]
           ok == /\ t.legal
                 /\ {} # {} => t.state[j] \notin GivenUp
                 /\ joins = {} /\ cut = below
<1>1. joins = {} /\ below = {} /\ cut = {}
  OBVIOUS
<1>2. q.legal = ok /\ q.state = s
  BY Zenon DEF JoinedTo, Track
<1>3. s = t.state
  BY <1>1, TrackedParts
<1> HIDE DEF q, s
<1> QED BY <1>1, <1>2, <1>3 DEF q

LEMMA StreamingAlone ==
  ASSUME ServerTypeOK, Unshared, NEW t \in Tracked, Existing(t), t.legal,
         NEW j \in Job, NEW n, RightNumber(t, j, n), t.state[j] \in Pending,
         j # Root => /\ t.state[Parent[j]] \in Ran /\ Spared(t, Ident[j])
  PROVE  StartsAlone(t, Streaming(t, j, n), j)
<1> USE JobAssumption
<1>1. CASE ~opts.captureConsole
  <2> DEFINE k == t.num[j]
             r == Started(t, j, "Finishing", k)
  <2>1. Streaming(t, j, n) = r
    BY <1>1, Zenon DEF Streaming
  <2>2. k \in Nat \cup {-1}
    BY TrackedParts
  <2> HIDE DEF k
  <2>3. r.legal /\ r.state = [t.state EXCEPT ![j] = "Finishing"]
    BY <2>2, FinishingType
  <2> HIDE DEF r
  <2>4. StartsAlone(t, r, j)
    BY <2>3, TrackedParts DEF StartsAlone
  <2> QED BY <2>1, <2>4
<1>2. CASE opts.captureConsole
  <2> DEFINE u == Started(t, j, "Streaming", n)
  <2>1. Streaming(t, j, n) = WithOthersJoined(u, j)
    BY <1>2, Zenon DEF Streaming
  <2>2. /\ u \in Tracked /\ u.legal /\ u.known = t.known
        /\ u.state = [t.state EXCEPT ![j] = "Streaming"]
        /\ u.num = [t.num EXCEPT ![j] = n]
    <3>1. n \in Nat \cup {-1}
      BY DEF RightNumber
    <3>2. u.legal
      BY <3>1, StreamedType, Zenon
    <3> QED BY <3>1, <3>2, StreamedType
  <2> HIDE DEF u
  <2>3. u.state[j] = "Streaming" /\ \A x \in Job \ {j} : u.state[x] = t.state[x]
    BY <2>2, TrackedParts
  <2>4. StartsAlone(t, u, j)
    BY <2>2, <2>3 DEF StartsAlone
  <2>5. CASE j = Root
    BY <2>1, <2>4, <2>5, Zenon DEF WithOthersJoined
  <2>6. CASE j # Root
    <3> DEFINE id == Ident[j]
    <3>1. u.num[j] = n /\ \A x \in Job \ {j} : u.num[x] = t.num[x]
      BY <2>2, TrackedParts
    <3>2. Parent[j] \in Job \ {j}
      <4>1. Parent[j] \in Job
        BY <2>6
      <4>2. Parent[j] # j
        <5>1. {j} \in SUBSET Job /\ {j} # {}
          OBVIOUS
        <5> QED BY <5>1, RootAssumption, Zenon
      <4> QED BY <4>1, <4>2
    <3>3. j \in CauseChildren(u, id, n, Ran)
      BY <2>2, <2>3, <2>6, <3>1, <3>2 DEF CauseChildren, RightNumber, Sourced, BuildNumber
    <3>4. Existing(u) /\ id \in Id
      BY <2>2 DEF Existing
    <3>5. MainJob(u, id, n) = j /\ Secondaries(u, id, n) = {}
      BY <2>2, <3>3, <3>4, ChildrenUnshared
    <3>6. Spared(u, id)
      BY <2>2, <2>3, <2>6, <3>1 DEF Spared, BuildNumber
    <3>7. Determinable(u, id, n)
      BY <2>2, <2>6, <3>4, <3>6, DeterminableUnshared DEF RightNumber, Sourced
    <3> DEFINE others == {x \in Secondaries(u, Ident[j], u.num[j]) : u.state[x] # "Cut"}
               reached == Reached(u, Ident[j], u.num[j], others)
               q == JoinedTo(u, reached, j)
    <3>8. reached = {}
      <4>1. others = {}
        BY <3>1, <3>5
      <4> HIDE DEF others
      <4> QED BY <4>1 DEF Reached
    <3>9. Determinable(u, Ident[j], u.num[j]) /\ MainJob(u, Ident[j], u.num[j]) = j
      BY <3>1, <3>5, <3>7
    <3>10. WithOthersJoined(u, j) = q
      BY <2>6, <3>9, Zenon DEF WithOthersJoined
    <3> HIDE DEF reached
    <3>11. q.legal /\ q.state = u.state
      BY <2>2, <3>8, NobodyJoined
    <3> HIDE DEF q
    <3> QED BY <2>1, <2>4, <3>10, <3>11 DEF StartsAlone
  <2> QED BY <2>5, <2>6
<1> QED BY <1>1, <1>2

(* ResolveIfKnown, when every known build's cause may be looked at. *)
LEMMA ResolvesAlone ==
  ASSUME ServerTypeOK, Unshared, NEW t \in Tracked, Existing(t), t.legal,
         NEW j \in Job, \A x \in Job : t.state[x] \notin GivenUp, Spared(t, Ident[j])
  PROVE  \/ /\ Resolved(t, j).legal /\ Resolved(t, j).state = t.state
            /\ j = Root => t.state[j] \notin Pending
         \/ /\ StartsAlone(t, Resolved(t, j), j)
            /\ j = Root \/ t.known[Ident[j]] # {}
<1> USE JobAssumption
<1> DEFINE id == Ident[j]
           hits == {n \in t.known[id] : j = MainJob(t, id, n)
                                          \/ j \in Secondaries(t, id, n)}
           first == CHOOSE n \in hits : \A m \in hits : n <= m
           tried == IF hits = {} THEN t.known[id]
                                 ELSE {n \in t.known[id] : n <= first}
           safe == \A n \in tried : Determinable(t, id, n)
           main == MainJob(t, id, first)
<1>1. CASE t.state[j] \notin Pending
  <2>1. Resolved(t, j) = t
    BY <1>1, Zenon DEF Resolved
  <2> QED BY <1>1, <2>1
<1>2. CASE t.state[j] \in Pending /\ j = Root
  <2>1. Resolved(t, j) = Streaming(t, j, t.num[j])
    BY <1>2, Zenon DEF Resolved
  <2>2. RightNumber(t, j, t.num[j])
    BY <1>2, TrackedParts DEF RightNumber
  <2> QED BY <1>2, <2>1, <2>2, StreamingAlone
<1>3. CASE t.state[j] \in Pending /\ j # Root
  <2>1. t.state[Parent[j]] \notin GivenUp /\ id \in Id /\ safe
    BY <1>3, DeterminableUnshared
  <2>2. CASE hits = {}
    <3>1. Resolved(t, j) = t
      BY <1>3, <2>1, <2>2, Zenon DEF Resolved
    <3> QED BY <1>3, <3>1
  <2>3. CASE hits # {}
    <3>1. first \in hits
      <4>1. hits \in SUBSET Nat
        BY TrackedParts
      <4>2. \E n \in hits : \A m \in hits : n <= m
        BY <2>3, <4>1, NatMin
      <4> QED BY <4>2, Zenon
    <3>2. first \in t.known[id] /\ first \in Nat
      BY <3>1, <2>1, TrackedParts
    <3> HIDE DEF first
    <3>3. main = j
      <4>1. Secondaries(t, id, first) = {}
        BY <2>1, ChildrenUnshared
      <4> QED BY <3>1, <4>1
    <3>4. j \in CauseChildren(t, id, first, Ran)
      BY <1>3, <2>1, <3>3, MainJobIn
    <3>5. Resolved(t, j) = Streaming(t, j, first)
      BY <1>3, <2>1, <2>3, <3>3, Zenon DEF Resolved, first
    <3> HIDE DEF safe, main, hits
    <3>6. RightNumber(t, j, first) /\ t.state[Parent[j]] \in Ran
      BY <1>3, <3>2, <3>4 DEF RightNumber, Sourced, BuildNumber, CauseChildren
    <3>7. StartsAlone(t, Streaming(t, j, first), j)
      BY <1>3, <3>6, StreamingAlone
    <3> QED BY <3>2, <3>5, <3>7
  <2> QED BY <2>2, <2>3
<1> QED BY <1>1, <1>2, <1>3

(* A build is caused by builds of the projects upstream of its own. *)
Upstream(b, q) ==
  \A id \in Id :
    /\ \A n \in DOMAIN b[id] : \A i \in DOMAIN b[id][n].causes :
         id \in Downstream[b[id][n].causes[i][1]]
    /\ \A i \in DOMAIN q[id] : id \in Downstream[q[id][i][1]]

FromUpstream == Upstream(builds, queued)

LEMMA UpstreamNext ==
  ASSUME ServerTypeOK, FromUpstream, ServerStep
  PROVE  FromUpstream'
<1> USE ServerAssumption
<1>1. ASSUME NEW d \in Id, NEW q \in Seq(Cause),
             builds' = [builds EXCEPT ![d] = Append(@, NewBuild(q))],
             \/ q = << >> /\ queued' = queued
             \/ q = queued[d] /\ queued' = [queued EXCEPT ![d] = << >>]
      PROVE  FromUpstream'
  <2> DEFINE new == Len(builds[d]) + 1
  <2>1. /\ \A id \in Id : \A n \in DOMAIN builds'[id] :
             \/ n \in DOMAIN builds[id] /\ builds'[id][n] = builds[id][n]
             \/ id = d /\ builds'[id][n].causes = q
    BY <1>1 DEF ServerTypeOK, NewBuild
  <2>2. \A i \in DOMAIN q : d \in Downstream[q[i][1]]
    BY <1>1 DEF FromUpstream, Upstream
  <2>3. ASSUME NEW id \in Id, NEW i \in DOMAIN queued'[id]
        PROVE  id \in Downstream[queued'[id][i][1]]
    <3>1. queued \in [Id -> Seq(Cause)]
      BY DEF ServerTypeOK
    <3>2. i \in DOMAIN queued[id] /\ queued'[id][i] = queued[id][i]
      <4>1. CASE queued' = queued
        BY <2>3, <4>1
      <4>2. CASE queued' = [queued EXCEPT ![d] = << >>]
        <5> HIDE DEF Cause
        <5> QED BY <2>3, <3>1, <4>2
      <4> QED BY <1>1, <4>1, <4>2
    <3> QED BY <3>2 DEF FromUpstream, Upstream
  <2>4. ASSUME NEW id \in Id, NEW n \in DOMAIN builds'[id],
               NEW i \in DOMAIN builds'[id][n].causes
        PROVE  id \in Downstream[builds'[id][n].causes[i][1]]
    <3>1. CASE n \in DOMAIN builds[id] /\ builds'[id][n] = builds[id][n]
      BY <2>4, <3>1 DEF FromUpstream, Upstream
    <3>2. CASE id = d /\ builds'[id][n].causes = q
      BY <2>2, <2>4, <3>2
    <3> QED BY <2>1, <3>1, <3>2
  <2> QED BY <2>3, <2>4 DEF FromUpstream, Upstream
<1>2. ASSUME NEW d \in Id, StartBuild(d) PROVE FromUpstream'
  BY <1>1, <1>2 DEF StartBuild, ServerTypeOK
<1>3. ASSUME NEW d \in Id, ForeignBuild(d) PROVE FromUpstream'
  <2>1. << >> \in Seq(Cause)
    OBVIOUS
  <2> QED BY <1>1, <1>3, <2>1 DEF ForeignBuild
<1>4. ASSUME NEW d \in Id, NEW k \in DOMAIN builds[d], FinishBuild(d, k)
      PROVE  FromUpstream'
  <2>1. PICK res \in Results :
          /\ builds' = [builds EXCEPT ![d][k].result = res]
          /\ queued' = IF res = "SUCCESS"
                         THEN [id \in Id |-> IF id \in Downstream[d]
                                               THEN Append(queued[id], <<d, k>>)
                                               ELSE queued[id]]
                         ELSE queued
    BY <1>4 DEF FinishBuild
  <2>2. builds[d][k] \in Build
    BY DEF ServerTypeOK
  <2>3. \A id \in Id : /\ DOMAIN builds'[id] = DOMAIN builds[id]
                       /\ \A n \in DOMAIN builds[id] :
                            builds'[id][n].causes = builds[id][n].causes
    BY <2>1, <2>2 DEF ServerTypeOK, Build
  <2> DEFINE c == <<d, k>>
  <2>4. c[1] = d
    OBVIOUS
  <2> HIDE DEF c
  <2>5. \A id \in Id : \A l \in DOMAIN queued'[id] :
          \/ l \in DOMAIN queued[id] /\ queued'[id][l] = queued[id][l]
          \/ queued'[id][l] = c /\ id \in Downstream[d]
    BY <2>1 DEF ServerTypeOK, c
  <2>6. \A id \in Id : \A l \in DOMAIN queued'[id] : id \in Downstream[queued'[id][l][1]]
    BY <2>4, <2>5 DEF FromUpstream, Upstream
  <2> QED BY <2>3, <2>6 DEF FromUpstream, Upstream
<1> QED BY <1>2, <1>3, <1>4 DEF ServerStep

(* The place of a job has been looked for, or the causes of its project's    *)
(* builds are known.                                                       *)
Searched(id) == spc[id] # "idle" \/ foundCauses[id] # {}

(* The search of an unshared project serves one job, which waits for nothing *)
(* else, and whose parent is done.                                         *)
Served ==
  /\ ~threw /\ state[Root] # "Locating"
  /\ \A j \in Job :
       /\ state[j] \notin GivenUp
       /\ pc[j] \in {"init", "ready"} => state[j] = "New"
       /\ Searched(Ident[j]) => /\ j # Root /\ state[Parent[j]] = "Done"
                                /\ state[j] \notin {"Absent", "New"}
       /\ spc[Ident[j]] \in {"timer", "http"} => state[j] = "Locating"
  /\ \A id \in Id : \A k \in searchingFor[id] : Ident[k] = id
  /\ \A k \in unresolved : spc[Ident[k]] = "resolving"

LEMMA ServedSpared ==
  ASSUME Typed, FromUpstream, NEW id \in Id,
         NEW n \in DOMAIN builds[id], NEW x \in Job,
         \A j \in Job : Ident[j] = id => state[Parent[j]] # "Killed", state[x] = "Killed"
  PROVE  <<Ident[x], num[x]>> \notin CauseSet(id, n)
<1> SUFFICES ASSUME <<Ident[x], num[x]>> \in CauseSet(id, n) PROVE FALSE
  OBVIOUS
<1>1. id \in Downstream[Ident[x]]
  <2> DEFINE c == <<Ident[x], num[x]>>
  <2>1. PICK i \in DOMAIN builds[id][n].causes : builds[id][n].causes[i] = c
    BY DEF CauseSet
  <2>2. c[1] = Ident[x]
    OBVIOUS
  <2> HIDE DEF c
  <2> QED BY <2>1, <2>2 DEF FromUpstream, Upstream
<1>2. PICK j \in Children(x) : Ident[j] = id
  BY <1>1, TreeAssumption
<1> QED BY <1>2 DEF Children

LEMMA ServedResolves ==
  ASSUME Typed, Unshared, FromUpstream, Served, NEW j \in Job, NEW t \in Tracked, t.legal,
         t.num = num, t.known = foundCauses,
         \A x \in Job : t.state[x] = state[x] \/ (state[x] = "Absent" /\ t.state[x] = "New")
  PROVE  \/ /\ Resolved(t, j).legal /\ Resolved(t, j).state = t.state
            /\ j = Root => t.state[j] \notin Pending
         \/ /\ StartsAlone(t, Resolved(t, j), j)
            /\ j = Root \/ foundCauses[Ident[j]] # {}
<1> USE JobAssumption
<1>1. ServerTypeOK /\ Existing(t)
  BY DEF Typed, TypeOK, FoundExist, Existing
<1>2. \A x \in Job : t.state[x] \notin GivenUp
  BY DEF Served, GivenUp
<1>3. Spared(t, Ident[j])
  <2> SUFFICES ASSUME NEW n \in foundCauses[Ident[j]], NEW x \in Job,
                      state[x] = "Killed"
               PROVE  <<Ident[x], num[x]>> \notin CauseSet(Ident[j], n)
    BY DEF Spared, BuildNumber
  <2>1. \A i \in Job : Ident[i] = Ident[j] => state[Parent[i]] # "Killed"
    BY DEF Served, Searched
  <2>2. n \in DOMAIN builds[Ident[j]] /\ Ident[j] \in Id
    BY <1>1 DEF Existing
  <2> QED BY <2>1, <2>2, ServedSpared
<1> QED BY <1>1, <1>2, <1>3, ResolvesAlone

LEMMA ContinueServes ==
  ASSUME Typed, Safe, Unshared, FromUpstream, Served, NEW j \in Job,
         pc[j] \in {"init", "ready"}, Continue(j),
         UNCHANGED <<spc, searchingFor, foundCauses, unresolved>>
  PROVE  Served'
<1> USE JobAssumption
<1> DEFINE kids == Kids(j)
           t == Born(kids)
           r == Resolved(t, j)
           st == [r.state EXCEPT ![j] = IF @ = "New" /\ r.legal THEN "Locating" ELSE @]
           u == Track(st, r.num, r.joined, r.known, r.legal)
<1>1. /\ Settle(u)
      /\ pc' = [x \in Job |->
           CASE x = j -> IF r.legal THEN "idle" ELSE "stuck"
             [] x \in kids /\ x # j ->
                  IF initialized[Ident[x]] THEN "ready" ELSE "init"
             [] OTHER -> pc[x]]
  BY Zenon DEF Continue, Born, Kids
<1>2. /\ state[j] = "New"
      /\ \A x \in kids : x \in Job \ {j, Root} /\ state[x] = "Absent"
  BY DEF Safe, Constructed, Children, Kids, Served
<1>3. \A x \in Job : pc'[x] \in {"init", "ready"}
                       => x # j /\ (x \in kids \/ pc'[x] = pc[x])
  <2>1. pc'[j] = IF r.legal THEN "idle" ELSE "stuck"
    BY <1>1, Zenon
  <2>2. \A x \in Job \ (kids \cup {j}) : pc'[x] = pc[x]
    BY <1>1, Zenon
  <2> QED BY <2>1, <2>2
<1> HIDE DEF kids
<1>4. /\ t \in Tracked /\ t.num = num
      /\ t.state = [x \in Job |-> IF x \in kids THEN "New" ELSE state[x]]
      /\ t.known = foundCauses
  BY BornType DEF Typed
<1>5. t.legal
  BY DEF Born, Track
<1> HIDE DEF t
<1>6. /\ \A x \in Job : t.state[x] = state[x] \/ (state[x] = "Absent" /\ t.state[x] = "New")
      /\ \A x \in Job \ {j} : t.state[x] = NewBorn(kids, x)
      /\ t.state[j] = "New"
  BY <1>2, <1>4 DEF NewBorn
<1>7. \/ /\ r.legal /\ r.state = t.state
         /\ j = Root => t.state[j] \notin Pending
      \/ StartsAlone(t, r, j)
  BY <1>4, <1>5, <1>6, ServedResolves
<1>8. r \in Tracked
  <2>1. ServerTypeOK /\ Existing(t)
    BY <1>4 DEF Typed, TypeOK, FoundExist, Existing
  <2> QED BY <1>4, <2>1, ResolvedMoves DEF Moves
<1> HIDE DEF r
<1>9. /\ r.legal /\ \A x \in Job \ {j} : r.state[x] = NewBorn(kids, x)
      /\ r.state[j] \in {"New", "Streaming", "Finishing"}
      /\ j = Root => r.state[j] # "New"
  BY <1>6, <1>7 DEF StartsAlone, Pending
<1>10. state' = st /\ ~threw'
  <2>1. u.state = st /\ u.legal = r.legal
    BY DEF Track
  <2> HIDE DEF u, st
  <2>2. ~threw'
    BY <1>1, <1>9, <2>1, Zenon DEF Settle, Served
  <2> QED BY <1>1, <2>1, <2>2 DEF Settle
<1>11. /\ \A x \in Job \ {j} : state'[x] = NewBorn(kids, x)
       /\ state'[j] \in {"Locating", "Streaming", "Finishing"}
       /\ j = Root => state'[j] # "Locating"
  BY <1>8, <1>9, <1>10, TrackedParts
<1>12. /\ ~threw' /\ state'[Root] # "Locating"
       /\ \A x \in Job :
            /\ state'[x] \notin GivenUp
            /\ pc'[x] \in {"init", "ready"} => state'[x] = "New"
  BY <1>2, <1>3, <1>10, <1>11 DEF Served, NewBorn, GivenUp
<1>13. \A x \in Job :
         Searched(Ident[x]) => /\ x # Root /\ state'[Parent[x]] = "Done"
                               /\ state'[x] \notin {"Absent", "New"}
  <2> SUFFICES ASSUME NEW x \in Job, Searched(Ident[x])
               PROVE  /\ x # Root /\ state'[Parent[x]] = "Done"
                      /\ state'[x] \notin {"Absent", "New"}
    OBVIOUS
  <2>1. /\ x # Root /\ state[Parent[x]] = "Done" /\ state[x] \notin {"Absent", "New"}
        /\ Parent[x] \in Job
    BY DEF Served
  <2> QED BY <1>2, <1>11, <2>1 DEF NewBorn
<1>14. \A x \in Job : spc[Ident[x]] \in {"timer", "http"} => state'[x] = "Locating"
  BY <1>2, <1>11 DEF Served, NewBorn
<1> QED BY <1>12, <1>13, <1>14 DEF Served, Searched

(* The jobs that run go on, the searches do not move. *)
LEMMA WorkServes ==
  ASSUME Typed, Safe, Served, NEW j \in Job,
         FinishTimer(j) \/ StreamResponse(j) \/ FinishResponse(j) \/ DownloadResponse(j)
  PROVE  Served'
<1> USE JobAssumption
<1>1. RunningMove
  BY WorkMoves
<1>2. UNCHANGED <<searchVars, threw>>
  BY DEF FinishTimer, StreamResponse, FinishResponse, DownloadResponse, runVars
<1>3. \A x \in Job : pc'[x] \in {"init", "ready"} => pc'[x] = pc[x]
  BY DEF FinishTimer, StreamResponse, FinishResponse, DownloadResponse, Enter, Again,
         Stuck, Typed, TypeOK
<1>4. \A x \in Job : /\ state[x] \in {"Absent", "New", "Locating", "Done"} => state'[x] = state[x]
                     /\ state'[x] = state[x] \/ state'[x] \in Launched
  BY <1>1 DEF RunningMove, Running
<1> QED BY <1>1, <1>2, <1>3, <1>4
        DEF Served, Searched, searchVars, Launched, Ran, GivenUp

LEMMA TickServes ==
  ASSUME Typed, Unshared, Served, Tick
  PROVE  Served'
<1> USE JobAssumption
<1> DEFINE starts == {id \in Id : spc[id] = "idle" /\ Sought(id) # {}}
<1>1. /\ UNCHANGED <<threw, state, foundCauses, unresolved>>
      /\ \A id \in Id : spc[id] # "resolving"
      /\ spc' = [id \in Id |-> IF id \in starts THEN "timer" ELSE spc[id]]
      /\ searchingFor' = [id \in Id |-> IF id \in starts THEN Sought(id)
                                        ELSE searchingFor[id]]
      /\ \A x \in Job : pc'[x] \in {"init", "ready"} => pc'[x] = pc[x]
  BY DEF Tick, trackVars, Free, DoWork
<1>2. ASSUME NEW id \in starts, NEW j \in Job, Ident[j] = id
      PROVE  state[j] = "Locating" /\ j # Root /\ state[Parent[j]] = "Done"
  <2>1. PICK k \in Job : Ident[k] = id /\ state[k] = "Locating"
                           /\ (k = Root \/ state[Parent[k]] = "Done")
    BY DEF Sought
  <2> QED BY <1>2, <2>1 DEF Unshared, Served
<1>3. \A id \in starts : \A k \in Sought(id) : Ident[k] = id
  BY DEF Sought
<1> HIDE DEF starts
<1>4. unresolved = {}
  BY <1>1 DEF Served, Typed, TypeOK
<1>5. \A j \in Job : \/ Ident[j] \in starts
                     \/ Ident[j] \notin starts /\ spc'[Ident[j]] = spc[Ident[j]]
  BY <1>1
<1>6. \A j \in Job :
        /\ Searched(Ident[j])' => /\ j # Root /\ state'[Parent[j]] = "Done"
                                  /\ state'[j] \notin {"Absent", "New"}
        /\ spc'[Ident[j]] \in {"timer", "http"} => state'[j] = "Locating"
  BY <1>1, <1>2, <1>5 DEF Served, Searched
<1> QED BY <1>1, <1>3, <1>4, <1>6 DEF Served

LEMMA JobStepServes ==
  ASSUME Typed, Safe, Unshared, FromUpstream, Served, NEW j \in Job, JobStep(j)
  PROVE  Served'
<1>1. CASE JobInitResponse(j)
  <2>1. pc[j] = "init" /\ UNCHANGED <<spc, searchingFor, foundCauses, unresolved>>
    BY <1>1 DEF JobInitResponse
  <2>2. CASE Continue(j)
    BY <2>1, <2>2, ContinueServes
  <2>3. CASE threw' = threw /\ (Again(j) \/ Stuck(j))
    <3>1. /\ state' = state
          /\ \A x \in Job : pc'[x] \in {"init", "ready"} => pc'[x] = pc[x]
      BY <2>3 DEF Again, Stuck, Typed, TypeOK
    <3> QED BY <2>1, <2>3, <3>1 DEF Served, Searched
  <2> QED BY <1>1, <2>2, <2>3 DEF JobInitResponse
<1>2. CASE JobInitReady(j)
  BY <1>2, ContinueServes DEF JobInitReady, searchVars
<1> QED BY <1>1, <1>2, WorkServes DEF JobStep

LEMMA ResolveServes ==
  ASSUME Typed, Unshared, FromUpstream, Served, NEW id \in Id, ResolveOne(id)
  PROVE  Served' /\ \A x \in Job : state[x] \in {"Absent", "New"} => state'[x] = state[x]
<1> USE JobAssumption
<1>1. PICK j \in unresolved :
        LET r == Resolved(T, j)
        IN /\ Settle(r)
           /\ unresolved' = IF r.legal THEN unresolved \ {j} ELSE {}
           /\ spc' = IF r.legal THEN spc ELSE [spc EXCEPT ![id] = "stuck"]
  BY Zenon DEF ResolveOne
<1>2. UNCHANGED <<pc, searchingFor, foundCauses>>
  BY DEF ResolveOne
<1> DEFINE r == Resolved(T, j)
<1>3. j \in Job /\ spc[Ident[j]] = "resolving"
  BY <1>1 DEF Served, Typed, TypeOK
<1>4. j # Root /\ state[j] \notin {"Absent", "New"}
  BY <1>3 DEF Served, Searched
<1>5. /\ T \in Tracked /\ T.state = state /\ T.num = num /\ T.known = foundCauses
      /\ T.legal
  BY TType DEF Typed
<1>6. (r.legal /\ r.state = T.state) \/ StartsAlone(T, r, j)
  BY <1>3, <1>5, ServedResolves
<1> HIDE DEF r
<1>7. /\ ~threw' /\ state' = r.state /\ r.legal
      /\ unresolved' = unresolved \ {j} /\ spc' = spc
  <2>1. r.legal
    BY <1>6 DEF StartsAlone
  <2>2. /\ state' = r.state /\ threw' = (threw \/ ~r.legal)
        /\ unresolved' = IF r.legal THEN unresolved \ {j} ELSE {}
        /\ spc' = IF r.legal THEN spc ELSE [spc EXCEPT ![id] = "stuck"]
    BY <1>1, Zenon DEF Settle, r
  <2>3. ~threw'
    BY <2>1, <2>2, Zenon DEF Served
  <2> QED BY <2>1, <2>2, <2>3
<1>8. \A x \in Job : \/ state'[x] = state[x]
                     \/ x = j /\ state'[x] \in {"Streaming", "Finishing"}
  BY <1>5, <1>6, <1>7 DEF StartsAlone
<1>9. \A x \in Job : state[x] \in {"Absent", "New", "Done"} => state'[x] = state[x]
  <2>1. state[j] = "Done" => state'[j] = state[j]
    BY <1>5, <1>6, <1>7 DEF StartsAlone, Pending
  <2> QED BY <1>4, <1>8, <2>1
<1>10. \A x \in Job :
         /\ state'[x] \notin GivenUp
         /\ pc[x] \in {"init", "ready"} => state'[x] = "New"
         /\ spc[Ident[x]] \in {"timer", "http"} => state'[x] = "Locating"
  BY <1>3, <1>8, <1>9 DEF Served, GivenUp
<1>11. \A x \in Job :
         Searched(Ident[x]) => /\ x # Root /\ state'[Parent[x]] = "Done"
                               /\ state'[x] \notin {"Absent", "New"}
  <2> SUFFICES ASSUME NEW x \in Job, Searched(Ident[x])
               PROVE  /\ x # Root /\ state'[Parent[x]] = "Done"
                      /\ state'[x] \notin {"Absent", "New"}
    OBVIOUS
  <2>1. /\ x # Root /\ state[Parent[x]] = "Done" /\ state[x] \notin {"Absent", "New"}
        /\ Parent[x] \in Job
    BY DEF Served
  <2> QED BY <1>8, <1>9, <2>1
<1>12. state'[Root] # "Locating"
  BY <1>8 DEF Served
<1> QED BY <1>2, <1>7, <1>9, <1>10, <1>11, <1>12 DEF Served, Searched

LEMMA LocateServes ==
  ASSUME Typed, Unshared, FromUpstream, Served, NEW id \in Id, LocateResponse(id)
  PROVE  Served' /\ \A x \in Job : state[x] \in {"Absent", "New"} => state'[x] = state[x]
<1> USE JobAssumption
<1> DEFINE n == nextNum[id]
           t == Located(id, n)
           main == MainJob(t, id, n)
           r == Answered(id, n)
<1>1. /\ UNCHANGED <<pc, unresolved>> /\ spc[id] = "http"
      /\ spc' = [spc EXCEPT ![id] = "idle"] \/ spc' = [spc EXCEPT ![id] = "stuck"]
      /\ searchingFor' \in {searchingFor, [searchingFor EXCEPT ![id] = {}]}
  BY Zenon DEF LocateResponse, StopSearch
<1>2. \/ UNCHANGED <<state, threw, foundCauses>>
      \/ /\ n \in DOMAIN builds[id]
         /\ Settle(r) /\ foundCauses' = r.known
  BY LocateCases DEF trackVars
<1>3. \A j \in Job : Ident[j] = id => /\ j # Root /\ state[Parent[j]] = "Done"
                                      /\ state[j] = "Locating" /\ Parent[j] \in Job
  BY <1>1 DEF Served, Searched
<1>4. ASSUME n \in DOMAIN builds[id], Settle(r), foundCauses' = r.known
      PROVE  /\ ~threw' /\ foundCauses' = [foundCauses EXCEPT ![id] = @ \cup {n}]
             /\ \A x \in Job : \/ state'[x] = state[x]
                               \/ /\ Ident[x] = id
                                  /\ state'[x] \in {"Streaming", "Finishing"}
  <2>1. /\ t \in Tracked /\ t.state = state /\ t.num = num
        /\ t.known = [foundCauses EXCEPT ![id] = @ \cup {n}] /\ Moves(t, r)
    <3> HIDE DEF n
    <3> QED BY <1>4, LocatedMoves
  <2>2. t.legal
    BY DEF Located, Track
  <2>3. ServerTypeOK /\ Existing(t) /\ n \in t.known[id] /\ n \in Nat
    BY <1>4, <2>1 DEF Typed, TypeOK, FoundExist, Existing, ServerTypeOK
  <2>4. main \in CauseChildren(t, id, n, Ran) \cup {NoJob}
    <3> HIDE DEF t, n
    <3> QED BY <2>1, <2>3, MainJobIn
  <2>5. /\ ~Determinable(t, id, n) => r = Thrown(t)
        /\ Determinable(t, id, n) /\ main = NoJob => r = t
        /\ Determinable(t, id, n) /\ main # NoJob => r = Streaming(t, main, n)
    BY Zenon DEF Answered
  <2> HIDE DEF t, r
  <2>6. Spared(t, id)
    <3> SUFFICES ASSUME NEW k \in t.known[id], NEW x \in Job, state[x] = "Killed"
                 PROVE  <<Ident[x], num[x]>> \notin CauseSet(id, k)
      BY <2>1 DEF Spared, BuildNumber
    <3>1. k \in DOMAIN builds[id]
      BY <2>3 DEF Existing
    <3>2. \A j \in Job : Ident[j] = id => state[Parent[j]] # "Killed"
      BY <1>3
    <3> QED BY <3>1, <3>2, ServedSpared
  <2>7. Determinable(t, id, n)
    BY <2>3, <2>6, DeterminableUnshared
  <2>8. r.legal /\ \A x \in Job : \/ r.state[x] = state[x]
                                  \/ /\ Ident[x] = id
                                     /\ r.state[x] \in {"Streaming", "Finishing"}
    <3>1. CASE main = NoJob
      BY <2>1, <2>2, <2>5, <2>7, <3>1
    <3>2. CASE main # NoJob
      <4> HIDE DEF main, n
      <4>1. /\ main \in Job \ {Root} /\ Ident[main] = id /\ t.state[Parent[main]] \in Ran
            /\ RightNumber(t, main, n)
        BY <1>3, <2>3, <2>4, <3>2
        DEF RightNumber, Sourced, BuildNumber, CauseChildren
      <4>2. t.state[main] \in Pending
        BY <1>3, <2>1, <4>1 DEF Pending
      <4>3. StartsAlone(t, r, main)
        BY <2>1, <2>2, <2>3, <2>5, <2>6, <2>7, <3>2, <4>1, <4>2, StreamingAlone
      <4> QED BY <2>1, <4>1, <4>3 DEF StartsAlone
    <3> QED BY <3>1, <3>2
  <2>9. ~threw' /\ state' = r.state
    BY <1>4, <2>8, Zenon DEF Settle, Served
  <2> HIDE DEF n
  <2> QED BY <1>4, <2>1, <2>8, <2>9 DEF Moves
<1> HIDE DEF n, r
<1>5. /\ ~threw'
      /\ \A d \in Id : d = id \/ foundCauses'[d] = foundCauses[d]
      /\ \A x \in Job : \/ state'[x] = state[x]
                        \/ /\ Ident[x] = id
                           /\ state'[x] \in {"Streaming", "Finishing"}
  BY <1>2, <1>4 DEF Typed, TypeOK, Served
<1>6. spc'[id] \in {"idle", "stuck"} /\ \A d \in Id \ {id} : spc'[d] = spc[d]
  BY <1>1 DEF Typed, TypeOK
<1>7. ASSUME NEW x \in Job, Searched(Ident[x])'
      PROVE  /\ x # Root /\ state'[Parent[x]] = "Done"
             /\ state'[x] \notin {"Absent", "New"}
  <2>1. Searched(Ident[x])
    BY <1>1, <1>5, <1>6, <1>7 DEF Searched
  <2>2. /\ x # Root /\ state[Parent[x]] = "Done" /\ state[x] \notin {"Absent", "New"}
        /\ Parent[x] \in Job
    BY <2>1 DEF Served
  <2>3. state'[Parent[x]] = "Done"
    BY <1>3, <1>5, <2>2
  <2> QED BY <1>5, <2>2, <2>3
<1>8. \A x \in Job : /\ state'[x] \notin GivenUp
                     /\ pc'[x] \in {"init", "ready"} => state'[x] = "New"
                     /\ spc'[Ident[x]] \in {"timer", "http"} => state'[x] = "Locating"
  <2> SUFFICES ASSUME NEW x \in Job
               PROVE  /\ state'[x] \notin GivenUp
                      /\ pc'[x] \in {"init", "ready"} => state'[x] = "New"
                      /\ spc'[Ident[x]] \in {"timer", "http"} => state'[x] = "Locating"
    OBVIOUS
  <2>1. state[x] \notin GivenUp /\ (pc[x] \in {"init", "ready"} => state[x] = "New")
    BY DEF Served
  <2>2. CASE Ident[x] = id
    <3>1. spc'[Ident[x]] \notin {"timer", "http"}
      BY <1>6, <2>2
    <3> QED BY <1>1, <1>3, <1>5, <2>1, <2>2, <3>1 DEF GivenUp
  <2>3. CASE Ident[x] # id
    <3>1. spc'[Ident[x]] \in {"timer", "http"} => state[x] = "Locating"
      BY <1>6, <2>3 DEF Served
    <3> QED BY <1>1, <1>5, <2>1, <2>3, <3>1
  <2> QED BY <2>2, <2>3
<1>9. \A k \in unresolved' : spc'[Ident[k]] = "resolving"
  BY <1>1, <1>6 DEF Served, Typed, TypeOK
<1>10. \A d \in Id : \A k \in searchingFor'[d] : Ident[k] = d
  BY <1>1 DEF Served, Typed, TypeOK
<1>11. ~threw' /\ state'[Root] # "Locating"
  BY <1>1, <1>5 DEF Served
<1>12. \A x \in Job : state[x] \in {"Absent", "New"} => state'[x] = state[x]
  BY <1>3, <1>5
<1> QED BY <1>7, <1>8, <1>9, <1>10, <1>11, <1>12 DEF Served

(* The searches that wait, the report, Jenkins. *)
LEMMA OtherServes ==
  ASSUME Typed, Unshared, Served,
         \/ ReportStep \/ Jenkins \/ UNCHANGED vars
         \/ \E id \in Id : CtorResponse(id) \/ SearchTimer(id) \/ ResolveDone(id)
  PROVE  Served'
<1> USE JobAssumption
<1>1. UNCHANGED <<state, pc, foundCauses, threw>>
  BY DEF ReportStep, AskPipelineResponse, DescribeResponse, WriteResult, Exit, Jenkins,
         CtorResponse, SearchTimer, ResolveDone, vars, trackVars, runVars, searchVars
<1>2. CASE UNCHANGED <<spc, searchingFor, unresolved>>
  BY <1>1, <1>2 DEF Served, Searched
<1>3. ASSUME NEW id \in Id, SearchTimer(id)
      PROVE  Served'
  <2>1. /\ spc[id] = "timer" /\ spc' = [spc EXCEPT ![id] = "resolving"]
        /\ unresolved' = searchingFor[id] /\ searchingFor' = searchingFor
    BY <1>3 DEF SearchTimer
  <2>2. \A k \in unresolved' : spc'[Ident[k]] = "resolving"
    BY <2>1 DEF Served, Typed, TypeOK
  <2>3. \A d \in Id : (d = id /\ spc'[d] = "resolving") \/ spc'[d] = spc[d]
    BY <2>1 DEF Typed, TypeOK
  <2>4. \A d \in Id : Searched(d)' => Searched(d)
    BY <1>1, <2>1, <2>3 DEF Searched
  <2>5. \A j \in Job : spc'[Ident[j]] \in {"timer", "http"} => state'[j] = "Locating"
    BY <1>1, <2>3 DEF Served
  <2> QED BY <1>1, <2>1, <2>2, <2>4, <2>5 DEF Served
<1>4. ASSUME NEW id \in Id, ResolveDone(id)
      PROVE  Served'
  <2>1. /\ spc[id] = "resolving" /\ unresolved = {} /\ unresolved' = unresolved
        /\ \A d \in Id : d = id \/ spc'[d] = spc[d]
        /\ \A d \in Id : searchingFor'[d] \subseteq searchingFor[d]
    BY <1>4 DEF ResolveDone, Typed, TypeOK
  <2>2. \/ spc'[id] = "idle"
        \/ spc'[id] = "http" /\ \E k \in searchingFor[id] : state[k] \in Pending
    BY <1>4 DEF ResolveDone, Typed, TypeOK
  <2>3. ASSUME NEW j \in Job, spc'[Ident[j]] \in {"timer", "http"}
        PROVE  state'[j] = "Locating"
    <3>1. CASE Ident[j] = id
      <4>1. PICK k \in searchingFor[id] : state[k] \in Pending
        BY <2>2, <2>3, <3>1
      <4>2. k = j
        BY <3>1 DEF Served, Unshared, Typed, TypeOK
      <4> QED BY <1>1, <2>1, <3>1, <4>1, <4>2 DEF Served, Searched, Pending
    <3>2. CASE Ident[j] # id
      BY <1>1, <2>1, <2>3, <3>2 DEF Served
    <3> QED BY <3>1, <3>2
  <2>4. \A d \in Id : Searched(d)' => Searched(d)
    BY <1>1, <2>1 DEF Searched
  <2>5. \A d \in Id : \A k \in searchingFor'[d] : Ident[k] = d
    BY <2>1 DEF Served
  <2> QED BY <1>1, <2>1, <2>3, <2>4, <2>5 DEF Served
<1>5. \/ UNCHANGED <<spc, searchingFor, unresolved>>
      \/ \E id \in Id : SearchTimer(id) \/ ResolveDone(id)
  BY DEF ReportStep, AskPipelineResponse, DescribeResponse, WriteResult, Exit, Jenkins,
         CtorResponse, vars, searchVars
<1> QED BY <1>2, <1>3, <1>4, <1>5

LEMMA ServedInit == Init => FromUpstream /\ Served
<1> SUFFICES ASSUME Init PROVE FromUpstream /\ Served
  OBVIOUS
<1> USE JobAssumption, ServerAssumption
<1>1. Served
  BY DEF Init, Served, Searched, GivenUp
<1>2. \A id \in Id : /\ queued[id] = << >>
                     /\ \A n \in DOMAIN builds[id] : builds[id][n].causes = << >>
  BY DEF Init, InitServer, NewBuild
<1> QED BY <1>1, <1>2 DEF FromUpstream, Upstream

LEMMA ServedNext ==
  ASSUME Typed, Safe, Unshared, FromUpstream, Served, [Next]_vars
  PROVE  FromUpstream' /\ Served'
<1>1. ASSUME NEW id \in Id, SearchStep(id)
      PROVE  Served'
  BY <1>1, OtherServes, ResolveServes, LocateServes DEF SearchStep
<1>2. ASSUME ReportStep \/ Jenkins \/ UNCHANGED vars
      PROVE  Served'
  BY <1>2, OtherServes
<1>3. Served'
  BY <1>1, <1>2, JobStepServes, TickServes DEF Next, TaskStep
<1>4. FromUpstream'
  <2>1. CASE Jenkins
    BY <2>1, UpstreamNext DEF Jenkins, Typed, TypeOK
  <2>2. CASE UNCHANGED serverVars
    BY <2>2 DEF FromUpstream, serverVars
  <2> QED BY <2>1, <2>2, ServerChanges
<1> QED BY <1>3, <1>4

LEMMA AlwaysServed == ASSUME Unshared PROVE Spec => [](FromUpstream /\ Served)
<1>1. Init => FromUpstream /\ Served
  BY ServedInit
<1>2. Typed /\ Safe /\ FromUpstream /\ Served /\ [Next]_vars => FromUpstream' /\ Served'
  BY ServedNext
<1> QED BY <1>1, <1>2, AlwaysTyped, AlwaysSafe, PTL DEF Spec

(* A job that is no longer new was initialized: its children are constructed. *)
Raised ==
  opts.capturePipeline
    => \A j \in Job : state[j] \notin {"Absent", "New"}
                       => \A c \in Children(j) : state[c] # "Absent"

LEMMA RaisedNext ==
  ASSUME Typed, Safe, Ending, Unshared, FromUpstream, Served, Raised, [Next]_vars
  PROVE  Raised'
<1> USE JobAssumption
<1>1. Served' /\ ~threw' /\ num[Root] # -1
  BY ServedNext, RootNumberIs DEF Served, Ending, NumberKnown
<1>2. \A j \in Job : Children(j) \subseteq Job
  BY DEF Children
<1>3. ASSUME opts'.capturePipeline => opts.capturePipeline,
             \A x \in Job : state[x] # "Absent" => state'[x] # "Absent",
             \A x \in Job : state[x] \in {"Absent", "New"} => state'[x] = state[x]
      PROVE  Raised'
  BY <1>2, <1>3 DEF Raised
<1>4. ASSUME NEW j \in Job, pc[j] \in {"init", "ready"}, Continue(j), opts' = opts
      PROVE  Raised'
  <2>1. Continues(j)
    BY <1>1, <1>4, ContinueStarts DEF Served
  <2>2. \A x \in Job \ {j} : state'[x] = NewBorn(Kids(j), x)
    BY <1>1, <2>1 DEF Continues, StartsJob, Served
  <2>3. state'[j] # "Absent" /\ \A x \in Kids(j) : x \in Job \ {j} /\ state[x] = "Absent"
    BY <2>1 DEF Continues, StartsJob
  <2>4. SUFFICES ASSUME opts.capturePipeline, NEW x \in Job,
                        state'[x] \notin {"Absent", "New"}, NEW c \in Children(x)
                 PROVE  state'[c] # "Absent"
    BY <1>4 DEF Raised
  <2>5. CASE x = j
    BY <2>2, <2>3, <2>4, <2>5 DEF Kids, NewBorn
  <2>6. CASE x # j
    <3>1. state[x] \notin {"Absent", "New"}
      BY <2>2, <2>4, <2>6 DEF NewBorn
    <3>2. c \in Job /\ state[c] # "Absent"
      BY <1>2, <2>4, <3>1 DEF Raised
    <3> QED BY <2>2, <2>3, <3>2 DEF NewBorn
  <2> QED BY <2>5, <2>6
<1>5. ASSUME NEW j \in Job, JobStep(j)
      PROVE  Raised'
  <2>1. CASE JobInitResponse(j)
    <3>1. pc[j] = "init" /\ opts' = opts
      BY <2>1 DEF JobInitResponse
    <3>2. Continue(j) \/ UNCHANGED state
      BY <2>1 DEF JobInitResponse, Again, Stuck
    <3> QED BY <1>3, <1>4, <3>1, <3>2
  <2>2. CASE JobInitReady(j)
    BY <1>4, <2>2 DEF JobInitReady
  <2>3. CASE FinishTimer(j) \/ StreamResponse(j) \/ FinishResponse(j)
               \/ DownloadResponse(j)
    <3>1. RunningMove
      BY <2>3, WorkMoves
    <3>2. opts'.capturePipeline => opts.capturePipeline
      BY <2>3 DEF FinishTimer, StreamResponse, FinishResponse, DownloadResponse,
                  Typed, TypeOK, Options
    <3> QED BY <1>3, <3>1, <3>2 DEF RunningMove, Running, Launched, Ran
  <2> QED BY <1>5, <2>1, <2>2, <2>3 DEF JobStep
<1>6. ASSUME NEW id \in Id, ResolveOne(id) \/ LocateResponse(id)
      PROVE  Raised'
  <2>1. \A x \in Job : state[x] \in {"Absent", "New"} => state'[x] = state[x]
    BY <1>6, ResolveServes, LocateServes
  <2>2. \A x \in Job : state[x] # "Absent" => state'[x] # "Absent"
    BY <1>6, ResolveMoves, LocateMoves DEF JobsMove
  <2>3. opts' = opts
    BY <1>6 DEF ResolveOne, LocateResponse
  <2> QED BY <1>3, <2>1, <2>2, <2>3
<1>7. CASE \/ Tick \/ ReportStep \/ Jenkins \/ UNCHANGED vars
           \/ \E id \in Id : CtorResponse(id) \/ SearchTimer(id) \/ ResolveDone(id)
  <2>1. UNCHANGED <<state, opts>>
    BY <1>7 DEF Tick, ReportStep, AskPipelineResponse, DescribeResponse, WriteResult,
                Exit, Jenkins, CtorResponse, SearchTimer, ResolveDone, vars, trackVars
  <2> QED BY <1>3, <2>1
<1> QED BY <1>5, <1>6, <1>7 DEF Next, TaskStep, SearchStep

(* In every behaviour over a pipeline that reaches no project along two paths, *)
(* no state check of the code throws, whatever fails and in whatever order the *)
(* callbacks come: the checks that can fire (run fan) need a shared project.  *)
THEOREM UnsharedNeverThrows == ASSUME Unshared PROVE Spec => []NeverThrows
<1>1. FromUpstream /\ Served => NeverThrows
  BY DEF Served, NeverThrows
<1> QED BY <1>1, AlwaysServed, PTL

(* So there, a failure is reported without a failed request only over a build *)
(* of the pipeline that did not succeed.                                     *)
THEOREM UnsharedFailuresAreReal == ASSUME Unshared PROVE Spec => []FailureIsReal
<1>1. NeverThrows /\ (NeverThrows => FailureIsReal) => FailureIsReal
  OBVIOUS
<1> QED BY <1>1, UnsharedNeverThrows, FailuresAreReal, PTL

(* And there a success is real also when requests for a project are reset: the *)
(* job whose initialization was lost is waited for, nobody else starts it.   *)
THEOREM UnsharedSuccessIsReal ==
  ASSUME Unshared, "reportStatus" \notin Faults
  PROVE  Spec => []SuccessIsReal
<1>1. Init => Raised /\ Reported
  <2> SUFFICES ASSUME Init PROVE Raised /\ Reported
    OBVIOUS
  <2> QED BY JobAssumption DEF Init, Raised, Reported
<1>2. Typed /\ Safe /\ Kept /\ (FromUpstream /\ Served) /\ (Raised /\ Reported)
        /\ [Next]_vars => Raised' /\ Reported'
  <2> SUFFICES ASSUME Typed, Safe, Kept, FromUpstream, Served, Raised, Reported,
                      [Next]_vars
               PROVE  Raised' /\ Reported'
    OBVIOUS
  <2>1. ~threw
    BY DEF Served
  <2>2. Ending
    BY <2>1, Zenon DEF Kept
  <2> QED BY <2>2, RaisedNext, ReportedNext
<1>3. Spec => [](Raised /\ Reported)
  BY <1>1, <1>2, AlwaysTyped, AlwaysSafe, AlwaysKept, AlwaysServed, PTL DEF Spec
<1>4. Typed /\ Safe /\ Kept /\ (Tidy /\ ServerInv) /\ (FromUpstream /\ Served)
        /\ (Raised /\ Reported) => SuccessIsReal
  <2> SUFFICES ASSUME Typed, Safe, Kept, ServerInv, Served, Raised, Reported
               PROVE  SuccessIsReal
    OBVIOUS
  <2>1. ~threw
    BY DEF Served
  <2>2. Ending /\ TrackInv
    BY <2>1, Zenon DEF Kept
  <2>3. ChildrenOfDone
    BY DEF Raised, ChildrenOfDone
  <2> QED BY <2>2, <2>3, SuccessAtEnd DEF SuccessIsReal
<1> QED BY <1>3, <1>4, AlwaysTyped, AlwaysSafe, AlwaysKept, AlwaysServed, AlwaysPlaced, PTL
=============================================================================
