------------------------- MODULE JenkinsQueueProofs -------------------------
(***************************************************************************)
(* Proofs about JenkinsQueue for every pipeline, every server history and  *)
(* every number of failed requests: TypeOK, SearchReady, TrackSound and    *)
(* ConsoleExclusive.                                                       *)
(***************************************************************************)
EXTENDS JenkinsQueue, TLAPS, WellFoundedInduction, SequenceTheorems

-----------------------------------------------------------------------------
(* Facts about numbers and sequences.                                      *)

(* A nonempty set of natural numbers has a least element. *)
LEMMA NatMin ==
  ASSUME NEW S \in SUBSET Nat, S # {}
  PROVE  \E m \in S : \A n \in S : m <= n
<1> DEFINE R == {ss \in Nat \X Nat : ss[1] < ss[2]}
<1>1. R = OpToRel(<, Nat)
  BY DEF OpToRel
<1>2. IsWellFoundedOn(R, Nat)
  BY <1>1, NatLessThanWellFounded, Zenon
<1>3. PICK m \in S : \A n \in S : ~ (<<n, m>> \in R)
  <2> HIDE DEF R
  <2> QED BY <1>2, WFMin, Zenon
<1>4. \A n \in S : ~ (n < m)
  <2> SUFFICES ASSUME NEW n \in S, n < m PROVE FALSE
    OBVIOUS
  <2>1. <<n, m>> \in Nat \X Nat /\ <<n, m>>[1] < <<n, m>>[2]
    OBVIOUS
  <2>2. <<n, m>> \in R
    BY <2>1
  <2> QED BY <1>3, <2>2
<1> QED BY <1>4

-----------------------------------------------------------------------------
(* Tracking states.                                                        *)

Tracked == [state  : [Job -> JobState \cup {"Absent"}],
            num    : [Job -> Nat \cup {-1}],
            joined : [Job -> Job \cup {NoJob}],
            known  : [Id -> SUBSET Nat],
            legal  : BOOLEAN]

(* The builds whose causes a tracking state knows exist. *)
Existing(t) == \A id \in Id : t.known[id] \subseteq DOMAIN builds[id]

(* The causes of a build that exists are a sequence of build numbers. *)
LEMMA CausesType ==
  ASSUME ServerTypeOK, NEW id \in Id, NEW n \in DOMAIN builds[id]
  PROVE  /\ builds[id][n].causes \in Seq(Cause)
         /\ DOMAIN builds[id][n].causes \subseteq Nat
         /\ CauseSet(id, n) \subseteq Cause
<1>1. builds[id][n] \in Build
  BY DEF ServerTypeOK
<1>2. builds[id][n].causes \in Seq(Cause)
  BY <1>1 DEF Build
<1> HIDE DEF Cause
<1> QED BY <1>2 DEF CauseSet

(* The main job of a build is a child with this identifier whose parent is a *)
(* cause that ran.                                                         *)
LEMMA MainJobRuns ==
  ASSUME ServerTypeOK, NEW t \in Tracked, Existing(t), NEW id \in Id, NEW n,
         CauseChildren(t, id, n, Ran) # {}
  PROVE  MainJob(t, id, n) \in CauseChildren(t, id, n, Ran)
<1> DEFINE ran == CauseChildren(t, id, n, Ran)
           pos(x) == CausePosition(t, id, n, x)
           best(x) == x \in ran /\ \A y \in ran : pos(x) <= pos(y)
<1>1. CASE Masters(t, id, n) # {}
  BY <1>1 DEF MainJob, Masters
<1>2. CASE Masters(t, id, n) = {} /\ ran # {}
  <2>1. n \in DOMAIN builds[id]
    BY <1>2 DEF CauseChildren, Existing
  <2>2. \A x \in ran : pos(x) \in Nat
    <3> SUFFICES ASSUME NEW x \in ran PROVE pos(x) \in Nat
      OBVIOUS
    <3>1. BuildNumber(t, Parent[x]) \in CauseSet(id, n)
      BY DEF CauseChildren
    <3>2. \E i \in DOMAIN builds[id][n].causes :
            builds[id][n].causes[i] = BuildNumber(t, Parent[x])
      BY <3>1 DEF CauseSet
    <3>3. pos(x) \in DOMAIN builds[id][n].causes
      BY <3>2, Zenon DEF CausePosition
    <3> QED BY <3>3, <2>1, CausesType
  <2> HIDE DEF pos, ran
  <2>3. PICK m \in {pos(x) : x \in ran} : \A k \in {pos(x) : x \in ran} : m <= k
    BY <1>2, <2>2, NatMin
  <2>4. \E x \in ran : \A y \in ran : pos(x) <= pos(y)
    BY <2>3
  <2>5. MainJob(t, id, n) = CHOOSE x \in ran : \A y \in ran : pos(x) <= pos(y)
    BY <1>2 DEF MainJob, pos, ran
  <2> QED BY <2>4, <2>5 DEF ran
<1> QED BY <1>1, <1>2

LEMMA MainJobIn ==
  ASSUME ServerTypeOK, NEW t \in Tracked, Existing(t), NEW id \in Id, NEW n
  PROVE  MainJob(t, id, n) \in CauseChildren(t, id, n, Ran) \cup {NoJob}
<1>1. CASE CauseChildren(t, id, n, Ran) = {}
  BY <1>1 DEF MainJob, Masters
<1>2. CASE CauseChildren(t, id, n, Ran) # {}
  BY <1>2, MainJobRuns
<1> QED BY <1>1, <1>2

-----------------------------------------------------------------------------
(* What the synchronous tracking does, also when a check throws: pending jobs *)
(* start or are given up, and a number is only given with its reason.      *)

Sourced(t, x, n) ==
  /\ n \in t.known[Ident[x]]
  /\ BuildNumber(t, Parent[x]) \in CauseSet(Ident[x], n)

Moved(t, r, x) ==
  /\ t.state[x] \in Pending
  /\ r.state[x] \in {"Streaming", "Finishing", "Joined", "Cut"}

Moves(t, r) ==
  /\ r \in Tracked /\ r.known = t.known /\ (r.legal => t.legal)
  /\ \A x \in Job : r.state[x] = t.state[x] \/ Moved(t, r, x)
  /\ r.num[Root] = t.num[Root]
  /\ \A x \in Job \ {Root} :
       \/ r.num[x] = t.num[x]
       \/ /\ t.state[x] \in Pending /\ r.state[x] = "Streaming"
          /\ Sourced(t, x, r.num[x])

(* Only a pending job may start, be joined or be cut. *)
LEMMA FromPending ==
  ASSUME NEW s, NEW d \in {"Streaming", "Joined", "Cut"}, CheckStateTransition(s, d)
  PROVE  s \in Pending
BY DEF CheckStateTransition, Successors, Pending

LEMMA MovesRefl ==
  ASSUME NEW t \in Tracked
  PROVE  Moves(t, t)
BY DEF Moves

LEMMA TrackType ==
  ASSUME NEW s \in [Job -> JobState \cup {"Absent"}],
         NEW n \in [Job -> Nat \cup {-1}], NEW q \in [Job -> Job \cup {NoJob}],
         NEW k \in [Id -> SUBSET Nat], NEW l \in BOOLEAN
  PROVE  /\ Track(s, n, q, k, l) \in Tracked
         /\ Track(s, n, q, k, l).state = s /\ Track(s, n, q, k, l).num = n
         /\ Track(s, n, q, k, l).joined = q /\ Track(s, n, q, k, l).known = k
         /\ Track(s, n, q, k, l).legal = l
BY DEF Tracked, Track

LEMMA TrackedParts ==
  ASSUME NEW t \in Tracked
  PROVE  /\ t.state \in [Job -> JobState \cup {"Absent"}]
         /\ t.num \in [Job -> Nat \cup {-1}]
         /\ t.joined \in [Job -> Job \cup {NoJob}]
         /\ t.known \in [Id -> SUBSET Nat]
         /\ t.legal \in BOOLEAN
BY DEF Tracked

LEMMA ThrownMoves ==
  ASSUME NEW t \in Tracked
  PROVE  /\ Moves(t, Thrown(t)) /\ Thrown(t).legal = FALSE
         /\ Thrown(t).state = t.state /\ Thrown(t).num = t.num
         /\ Thrown(t).joined = t.joined /\ Thrown(t).known = t.known
<1> DEFINE c == Thrown(t)
           l == FALSE
<1>1. c = Track(t.state, t.num, t.joined, t.known, l)
  BY Zenon DEF Thrown
<1>2. l \in BOOLEAN
  BY Zenon
<1> HIDE DEF c, l
<1>3. /\ c \in Tracked /\ c.state = t.state /\ c.num = t.num
      /\ c.joined = t.joined /\ c.known = t.known /\ c.legal = l
  BY <1>1, <1>2, TrackedParts, TrackType
<1> QED BY <1>3 DEF Moves, c, l

LEMMA JoinedToMoves ==
  ASSUME NEW t \in Tracked, NEW S \in SUBSET Job, NEW m \in Job
  PROVE  /\ Moves(t, JoinedTo(t, S, m))
         /\ JoinedTo(t, S, m).num = t.num
<1> DEFINE r == JoinedTo(t, S, m)
           joins == {x \in S : CheckStateTransition(t.state[x], "Joined")}
           below == {d \in Job : t.state[d] # "Absent" /\ joins \cap Ancestors[d] # {}}
           cut == {d \in below : /\ t.state[m] \notin GivenUp
                                 /\ CheckStateTransition(t.state[d], "Cut")}
           s == [x \in Job |-> IF x \in joins THEN "Joined"
                               ELSE IF x \in cut THEN "Cut" ELSE t.state[x]]
           q == [x \in Job |-> IF x \in S THEN m ELSE t.joined[x]]
           ok == /\ t.legal
                 /\ S # {} => t.state[m] \notin GivenUp
                 /\ joins = S /\ cut = below
<1>1. s \in [Job -> JobState \cup {"Absent"}]
  BY DEF Tracked, JobState
<1>2. q \in [Job -> Job \cup {NoJob}]
  BY DEF Tracked
<1>3. r = Track(s, t.num, q, t.known, ok)
  BY Zenon DEF JoinedTo
<1>4. ok \in BOOLEAN
  BY Zenon
<1>5. /\ r \in Tracked /\ r.state = s /\ r.num = t.num
      /\ r.known = t.known /\ r.legal = ok
  <2> HIDE DEF r, s, q, ok
  <2> QED BY <1>1, <1>2, <1>3, <1>4, TrackType, TrackedParts
<1>6. ASSUME NEW x \in Job
      PROVE  r.state[x] = t.state[x] \/ Moved(t, r, x)
  BY <1>5, FromPending DEF Moved
<1>7. r.legal => t.legal
  BY <1>5
<1> HIDE DEF r
<1> QED BY <1>5, <1>6, <1>7 DEF Moves, r

LEMMA CutTreeMoves ==
  ASSUME NEW t \in Tracked, NEW j \in Job
  PROVE  Moves(t, CutTree(t, j))
<1> DEFINE r == CutTree(t, j)
           below == {d \in Job : t.state[d] # "Absent" /\ j \in Ancestors[d] \cup {d}}
           cut == {d \in below : CheckStateTransition(t.state[d], "Cut")}
           s == [x \in Job |-> IF x \in cut THEN "Cut" ELSE t.state[x]]
           ok == t.legal /\ cut = below
<1>1. s \in [Job -> JobState \cup {"Absent"}]
  BY DEF Tracked, JobState
<1>2. r = Track(s, t.num, t.joined, t.known, ok)
  BY Zenon DEF CutTree
<1>3. ok \in BOOLEAN
  BY Zenon
<1>4. /\ r \in Tracked /\ r.state = s /\ r.num = t.num
      /\ r.known = t.known /\ r.legal = ok
  <2>1. /\ t.num \in [Job -> Nat \cup {-1}] /\ t.known \in [Id -> SUBSET Nat]
        /\ t.joined \in [Job -> Job \cup {NoJob}]
    BY TrackedParts
  <2> HIDE DEF r, s, ok
  <2> QED BY <1>1, <1>2, <1>3, <2>1, TrackType
<1>5. ASSUME NEW x \in Job
      PROVE  r.state[x] = t.state[x] \/ Moved(t, r, x)
  BY <1>4, FromPending DEF Moved
<1>6. r.legal => t.legal
  BY <1>4
<1> HIDE DEF r
<1> QED BY <1>4, <1>5, <1>6 DEF Moves, r

LEMMA WithOthersJoinedMoves ==
  ASSUME NEW t \in Tracked, NEW j \in Job
  PROVE  /\ Moves(t, WithOthersJoined(t, j))
         /\ WithOthersJoined(t, j).num = t.num
<1> DEFINE n == t.num[j]
           others == {x \in Secondaries(t, Ident[j], n) : t.state[x] # "Cut"}
           reached == Reached(t, Ident[j], n, others)
           main == Determinable(t, Ident[j], n) /\ MainJob(t, Ident[j], n) = j
<1>1. CASE j = Root
  <2>1. WithOthersJoined(t, j) = t
    BY <1>1, Zenon DEF WithOthersJoined
  <2> QED BY <2>1, MovesRefl
<1>2. CASE j # Root /\ main
  <2>1. WithOthersJoined(t, j) = JoinedTo(t, reached, j)
    BY <1>2, Zenon DEF WithOthersJoined
  <2>2. reached \in SUBSET Job
    BY DEF Reached, Secondaries, CauseChildren
  <2> HIDE DEF reached
  <2> QED BY <2>1, <2>2, JoinedToMoves
<1>3. CASE j # Root /\ ~main
  <2>1. WithOthersJoined(t, j) = Thrown(t)
    BY <1>3, Zenon DEF WithOthersJoined
  <2> QED BY <2>1, ThrownMoves
<1> QED BY <1>1, <1>2, <1>3

(* The number n given to job j is the right one. *)
RightNumber(t, j, n) ==
  /\ n \in Nat \cup {-1}
  /\ j = Root => n = t.num[Root]
  /\ j # Root => Sourced(t, j, n)

LEMMA StartedType ==
  ASSUME NEW t \in Tracked, NEW j \in Job, NEW s \in {"Streaming", "Finishing"},
         NEW n \in Nat \cup {-1}
  PROVE  /\ Started(t, j, s, n) \in Tracked
         /\ Started(t, j, s, n).state = [t.state EXCEPT ![j] = s]
         /\ Started(t, j, s, n).num = [t.num EXCEPT ![j] = n]
         /\ Started(t, j, s, n).known = t.known
         /\ Started(t, j, s, n).joined = t.joined
         /\ Started(t, j, s, n).legal = t.legal
<1> DEFINE r == Started(t, j, s, n)
           st == [t.state EXCEPT ![j] = s]
           nu == [t.num EXCEPT ![j] = n]
<1>1. st \in [Job -> JobState \cup {"Absent"}] /\ nu \in [Job -> Nat \cup {-1}]
  BY TrackedParts DEF JobState
<1>2. r = Track(st, nu, t.joined, t.known, t.legal)
  BY Zenon DEF Started
<1> HIDE DEF r, st, nu
<1>3. /\ r \in Tracked /\ r.state = st /\ r.num = nu
      /\ r.joined = t.joined /\ r.known = t.known /\ r.legal = t.legal
  BY <1>1, <1>2, TrackedParts, TrackType
<1> QED BY <1>3 DEF r, st, nu

LEMMA FinishingType ==
  ASSUME NEW t \in Tracked, NEW j \in Job, NEW n \in Nat \cup {-1}
  PROVE  /\ Started(t, j, "Finishing", n) \in Tracked
         /\ Started(t, j, "Finishing", n).state = [t.state EXCEPT ![j] = "Finishing"]
         /\ Started(t, j, "Finishing", n).num = [t.num EXCEPT ![j] = n]
         /\ Started(t, j, "Finishing", n).known = t.known
         /\ Started(t, j, "Finishing", n).joined = t.joined
         /\ Started(t, j, "Finishing", n).legal = t.legal
BY StartedType

LEMMA StreamedType ==
  ASSUME NEW t \in Tracked, NEW j \in Job, NEW n \in Nat \cup {-1}
  PROVE  /\ Started(t, j, "Streaming", n) \in Tracked
         /\ Started(t, j, "Streaming", n).state = [t.state EXCEPT ![j] = "Streaming"]
         /\ Started(t, j, "Streaming", n).num = [t.num EXCEPT ![j] = n]
         /\ Started(t, j, "Streaming", n).known = t.known
         /\ Started(t, j, "Streaming", n).joined = t.joined
         /\ Started(t, j, "Streaming", n).legal = t.legal
BY StartedType

LEMMA StreamingMoves ==
  ASSUME NEW t \in Tracked, NEW j \in Job, NEW n, RightNumber(t, j, n)
  PROVE  Moves(t, Streaming(t, j, n))
<1>1. CASE ~opts.captureConsole /\ t.state[j] \in Pending
  <2> DEFINE k == t.num[j]
             r == Started(t, j, "Finishing", k)
  <2>1. Streaming(t, j, n) = r
    BY <1>1, Zenon DEF Streaming
  <2>2. k \in Nat \cup {-1}
    BY TrackedParts
  <2>3. [t.num EXCEPT ![j] = k] = t.num
    BY TrackedParts
  <2> HIDE DEF k
  <2>4. /\ r \in Tracked
        /\ r.state = [t.state EXCEPT ![j] = "Finishing"]
        /\ r.num = [t.num EXCEPT ![j] = k]
        /\ r.known = t.known /\ r.legal = t.legal
    BY <2>2, FinishingType
  <2>5. r.num = t.num
    BY <2>3, <2>4, Zenon
  <2> HIDE DEF r
  <2> QED BY <1>1, <2>1, <2>4, <2>5, TrackedParts DEF Moves, Moved
<1>2. CASE opts.captureConsole /\ t.state[j] \in Pending
  <2> DEFINE u == Started(t, j, "Streaming", n)
             r == WithOthersJoined(u, j)
  <2>1. Streaming(t, j, n) = r
    BY <1>2, Zenon DEF Streaming
  <2>2. /\ u \in Tracked
        /\ u.state = [t.state EXCEPT ![j] = "Streaming"]
        /\ u.num = [t.num EXCEPT ![j] = n]
        /\ u.known = t.known /\ u.legal = t.legal
    BY StreamedType DEF RightNumber
  <2> HIDE DEF u
  <2>3. Moves(u, r) /\ r.num = u.num
    BY <2>2, WithOthersJoinedMoves
  <2> HIDE DEF r
  <2>4. ASSUME NEW x \in Job
        PROVE  r.state[x] = t.state[x] \/ Moved(t, r, x)
    BY <1>2, <2>2, <2>3, TrackedParts DEF Moves, Moved, Pending
  <2>5. r.state[j] = "Streaming" /\ r.num = [t.num EXCEPT ![j] = n]
    BY <2>2, <2>3, TrackedParts DEF Moves, Moved, Pending
  <2>6. r \in Tracked /\ r.known = t.known /\ (r.legal => t.legal)
    BY <2>2, <2>3 DEF Moves
  <2>7. r.num[Root] = t.num[Root]
    BY <2>2, <2>3, TrackedParts, JobAssumption DEF RightNumber
  <2>8. ASSUME NEW x \in Job \ {Root}, r.num[x] # t.num[x]
        PROVE  /\ t.state[x] \in Pending /\ r.state[x] = "Streaming"
               /\ Sourced(t, x, r.num[x])
    BY <1>2, <2>5, <2>8, TrackedParts DEF RightNumber
  <2> QED BY <2>1, <2>4, <2>6, <2>7, <2>8 DEF Moves
<1>3. CASE opts.captureConsole /\ t.state[j] \notin Pending \cup GivenUp
  <2>1. Streaming(t, j, n) = WithOthersJoined(t, j)
    BY <1>3, Zenon DEF Streaming
  <2> QED BY <2>1, WithOthersJoinedMoves
<1>4. CASE \/ ~opts.captureConsole /\ t.state[j] \notin Pending
           \/ opts.captureConsole /\ t.state[j] \notin Pending
                /\ t.state[j] \in GivenUp
  <2>1. Streaming(t, j, n) = Thrown(t)
    BY <1>4, Zenon DEF Streaming
  <2> QED BY <2>1, ThrownMoves
<1> QED BY <1>1, <1>2, <1>3, <1>4

LEMMA ResolvedMoves ==
  ASSUME ServerTypeOK, NEW t \in Tracked, Existing(t), NEW j \in Job
  PROVE  Moves(t, Resolved(t, j))
<1> DEFINE id == Ident[j]
           hits == {n \in t.known[id] : j = MainJob(t, id, n)
                                          \/ j \in Secondaries(t, id, n)}
           first == CHOOSE n \in hits : \A m \in hits : n <= m
           tried == IF hits = {} THEN t.known[id]
                                 ELSE {n \in t.known[id] : n <= first}
           safe == \A n \in tried : Determinable(t, id, n)
           main == MainJob(t, id, first)
<1>1. CASE t.state[j] \notin Pending
  BY <1>1, MovesRefl, Zenon DEF Resolved
<1>2. CASE t.state[j] \in Pending /\ j = Root
  <2>1. Resolved(t, j) = Streaming(t, j, t.num[j])
    BY <1>2, Zenon DEF Resolved
  <2>2. RightNumber(t, j, t.num[j])
    BY <1>2, TrackedParts, JobAssumption DEF RightNumber
  <2> QED BY <2>1, <2>2, StreamingMoves
<1>3. CASE /\ t.state[j] \in Pending /\ j # Root
           /\ t.state[Parent[j]] \in GivenUp
  BY <1>3, CutTreeMoves, Zenon DEF Resolved
<1>4. CASE /\ t.state[j] \in Pending /\ j # Root
           /\ t.state[Parent[j]] \notin GivenUp
  <2>1. CASE ~safe
    <3>1. Resolved(t, j) = Thrown(t)
      BY <1>4, <2>1, Zenon DEF Resolved
    <3> QED BY <3>1, ThrownMoves
  <2>2. CASE safe /\ hits = {}
    <3>1. Resolved(t, j) = t
      BY <1>4, <2>2, Zenon DEF Resolved
    <3> QED BY <3>1, MovesRefl
  <2>3. CASE safe /\ hits # {}
    <3>1. first \in hits
      <4>1. hits \in SUBSET Nat
        BY TrackedParts, JobAssumption
      <4>2. \E n \in hits : \A m \in hits : n <= m
        BY <2>3, <4>1, NatMin
      <4> QED BY <4>2, Zenon
    <3>2. id \in Id /\ first \in t.known[id] /\ first \in Nat
      BY <3>1, TrackedParts, JobAssumption
    <3>3. main \in CauseChildren(t, id, first, Ran) \cup {NoJob}
      <4> HIDE DEF first
      <4> QED BY <3>2, MainJobIn
    <3>4. CASE main = j
      <4>1. Resolved(t, j) = Streaming(t, j, first)
        BY <1>4, <2>3, <3>4, Zenon DEF Resolved
      <4> HIDE DEF first, main
      <4>2. RightNumber(t, j, first)
        BY <1>4, <3>2, <3>3, <3>4, JobAssumption
        DEF RightNumber, Sourced, BuildNumber, CauseChildren
      <4> QED BY <4>1, <4>2, StreamingMoves
    <3>5. CASE main # j
      <4>1. Resolved(t, j) = JoinedTo(t, {j}, main)
        BY <1>4, <2>3, <3>5, Zenon DEF Resolved
      <4>2. main \in Job
        <5>1. j \in Secondaries(t, id, first)
          BY <3>1, <3>5
        <5>2. main # NoJob
          BY <5>1 DEF Secondaries
        <5> HIDE DEF main
        <5> QED BY <3>3, <5>2 DEF CauseChildren
      <4> HIDE DEF main
      <4> QED BY <4>1, <4>2, JoinedToMoves
    <3> QED BY <3>4, <3>5
  <2> QED BY <2>1, <2>2, <2>3
<1> QED BY <1>1, <1>2, <1>3, <1>4

-----------------------------------------------------------------------------
(* The server.                                                             *)

(* Builds are only added, and their causes never change. *)
BuildsGrow ==
  \A id \in Id : /\ DOMAIN builds[id] \subseteq DOMAIN builds'[id]
                 /\ \A n \in DOMAIN builds[id] :
                      builds'[id][n].causes = builds[id][n].causes

LEMMA NewBuildType ==
  ASSUME NEW c \in Seq(Cause)
  PROVE  NewBuild(c) \in Build
BY DEF NewBuild, Build

LEMMA FinishedBuildType ==
  ASSUME NEW x \in Build, NEW r \in Results
  PROVE  [x EXCEPT !.result = r] \in Build /\ [x EXCEPT !.result = r].causes = x.causes
BY DEF Build

LEMMA InitServerType == InitServer => ServerTypeOK
<1> SUFFICES ASSUME InitServer PROVE ServerTypeOK
  OBVIOUS
<1> USE ServerAssumption DEF InitServer
<1>1. ASSUME NEW id \in Id PROVE builds[id] \in Seq(Build)
  <2> DEFINE k == IF id = RootId THEN RootNumber ELSE OldBuilds[id]
             b(n) == IF n <= OldBuilds[id]
                       THEN [causes |-> << >>, result |-> "SUCCESS"]
                       ELSE NewBuild(<< >>)
  <2>1. k \in Nat
    BY DEF RootNumber
  <2>2. << >> \in Seq(Cause)
    OBVIOUS
  <2>3. \A n \in 1 .. k : b(n) \in Build
    BY <2>2, NewBuildType DEF Build
  <2>4. builds[id] = [n \in 1 .. k |-> b(n)]
    OBVIOUS
  <2>5. builds[id] \in [1 .. k -> Build]
    <3> HIDE DEF k, b
    <3> QED BY <2>3, <2>4
  <2> HIDE DEF k
  <2>6. Seq(Build) = UNION {[1 .. n -> Build] : n \in Nat}
    BY SeqDef, Zenon
  <2> QED BY <2>1, <2>5, <2>6, Zenon
<1>2. queued \in [Id -> Seq(Cause)]
  OBVIOUS
<1>3. builds \in [Id -> Seq(Build)]
  <2>1. builds = [id \in Id |-> builds[id]]
    BY Zenon
  <2> QED BY <1>1, <2>1
<1> QED BY <1>2, <1>3 DEF ServerTypeOK

LEMMA ServerStepType ==
  ASSUME ServerTypeOK, ServerStep
  PROVE  ServerTypeOK' /\ BuildsGrow
<1> USE ServerAssumption
<1> DEFINE Grown(id, q) == /\ q \in Seq(Build)
                           /\ DOMAIN builds[id] \subseteq DOMAIN q
                           /\ \A n \in DOMAIN builds[id] :
                                q[n].causes = builds[id][n].causes
<1>1. ASSUME NEW id \in Id, NEW c \in Seq(Cause)
      PROVE  Grown(id, Append(builds[id], NewBuild(c)))
  BY NewBuildType DEF ServerTypeOK
<1>2. << >> \in Seq(Cause)
  OBVIOUS
<1>3. ASSUME NEW id \in Id, StartBuild(id)
      PROVE  ServerTypeOK' /\ BuildsGrow
  <2>1. builds' = [builds EXCEPT ![id] = Append(@, NewBuild(queued[id]))]
    BY <1>3 DEF StartBuild
  <2>2. Grown(id, Append(builds[id], NewBuild(queued[id])))
    BY <1>1 DEF ServerTypeOK
  <2>3. builds' \in [Id -> Seq(Build)] /\ BuildsGrow
    BY <2>1, <2>2 DEF ServerTypeOK, BuildsGrow
  <2>4. queued' \in [Id -> Seq(Cause)] /\ foreign' = foreign
    BY <1>3 DEF StartBuild, ServerTypeOK
  <2> QED BY <2>3, <2>4 DEF ServerTypeOK
<1>4. ASSUME NEW id \in Id, ForeignBuild(id)
      PROVE  ServerTypeOK' /\ BuildsGrow
  <2>1. builds' = [builds EXCEPT ![id] = Append(@, NewBuild(<< >>))]
    BY <1>4 DEF ForeignBuild
  <2>2. Grown(id, Append(builds[id], NewBuild(<< >>)))
    BY <1>1, <1>2
  <2>3. builds' \in [Id -> Seq(Build)] /\ BuildsGrow
    BY <2>1, <2>2 DEF ServerTypeOK, BuildsGrow
  <2>4. queued' = queued /\ foreign' \in 0 .. MaxForeign
    BY <1>4 DEF ForeignBuild, ServerTypeOK
  <2> QED BY <2>3, <2>4 DEF ServerTypeOK
<1>5. ASSUME NEW id \in Id, NEW n \in DOMAIN builds[id], FinishBuild(id, n)
      PROVE  ServerTypeOK' /\ BuildsGrow
  <2>1. PICK r \in Results :
          /\ builds' = [builds EXCEPT ![id][n].result = r]
          /\ queued' = IF r = "SUCCESS"
                         THEN [d \in Id |-> IF d \in Downstream[id]
                                              THEN Append(queued[d], <<id, n>>)
                                              ELSE queued[d]]
                         ELSE queued
    BY <1>5 DEF FinishBuild
  <2>2. builds[id] \in Seq(Build) /\ n \in 1 .. Len(builds[id])
    BY DEF ServerTypeOK
  <2> DEFINE b == [builds[id][n] EXCEPT !.result = r]
             q == [builds[id] EXCEPT ![n] = b]
  <2>3. b \in Build /\ b.causes = builds[id][n].causes
    BY <2>2, FinishedBuildType
  <2>4. Grown(id, q)
    <3> HIDE DEF b
    <3> QED BY <2>2, <2>3
  <2>5. builds' = [builds EXCEPT ![id] = q]
    BY <2>1
  <2>6. builds' \in [Id -> Seq(Build)] /\ BuildsGrow
    <3> HIDE DEF q
    <3> QED BY <2>4, <2>5 DEF ServerTypeOK, BuildsGrow
  <2>7. <<id, n>> \in Cause
    BY <2>2 DEF Cause
  <2>8. queued' \in [Id -> Seq(Cause)]
    <3> HIDE DEF Cause
    <3> QED BY <2>1, <2>7 DEF ServerTypeOK
  <2>9. foreign' = foreign
    BY <1>5 DEF FinishBuild
  <2> QED BY <2>6, <2>8, <2>9 DEF ServerTypeOK
<1> QED BY <1>3, <1>4, <1>5 DEF ServerStep

-----------------------------------------------------------------------------
(* Types.                                                                  *)

(* A job that waits to continue has a search that was initialized. *)
ReadySearched == \A j \in Job : pc[j] = "ready" => initialized[Ident[j]]

FoundExist == \A id \in Id : foundCauses[id] \subseteq DOMAIN builds[id]

Typed == TypeOK /\ SearchReady /\ ReadySearched /\ FoundExist

LEMMA TType ==
  ASSUME TypeOK
  PROVE  /\ T \in Tracked
         /\ T.state = state /\ T.num = num /\ T.joined = joined
         /\ T.known = foundCauses /\ T.legal = TRUE
<1>1. /\ state \in [Job -> JobState \cup {"Absent"}]
      /\ num \in [Job -> Nat \cup {-1}] /\ joined \in [Job -> Job \cup {NoJob}]
      /\ foundCauses \in [Id -> SUBSET Nat] /\ TRUE \in BOOLEAN
  BY DEF TypeOK
<1> QED BY <1>1 DEF T, Track, Tracked

LEMMA SettleType ==
  ASSUME TypeOK, NEW r \in Tracked, Settle(r)
  PROVE  /\ state' \in [Job -> JobState \cup {"Absent"}]
         /\ num' \in [Job -> Nat \cup {-1}]
         /\ joined' \in [Job -> Job \cup {NoJob}]
         /\ threw' \in BOOLEAN
<1>1. threw' \in BOOLEAN
  BY Zenon DEF Settle
<1> QED BY <1>1, TrackedParts DEF Settle

LEMMA TypedInit == Init => Typed
<1> SUFFICES ASSUME Init PROVE Typed
  OBVIOUS
<1> USE ServerAssumption, JobAssumption, OptionAssumption
<1>1. ServerTypeOK
  BY InitServerType DEF Init
<1>2. TypeOK
  <2>1. /\ state \in [Job -> JobState \cup {"Absent"}]
        /\ num \in [Job -> Nat \cup {-1}]
        /\ joined \in [Job -> Job \cup {NoJob}]
    BY DEF Init, JobState, RootNumber
  <2>2. /\ pc \in [Job -> {"none", "init", "ready", "idle", "timer", "http", "stuck"}]
        /\ console \in SUBSET Job /\ opts \in Options
    BY DEF Init
  <2>3. ctor \in [Id -> BOOLEAN] /\ initialized \in [Id -> BOOLEAN]
    BY Zenon DEF Init
  <2>4. /\ initialNum \in [Id -> (Nat \ {0}) \cup {-1}]
        /\ nextNum \in [Id -> (Nat \ {0}) \cup {-1}]
    BY DEF Init
  <2>5. /\ forward \in [Id -> BOOLEAN]
        /\ spc \in [Id -> {"idle", "timer", "resolving", "http", "stuck"}]
        /\ searchingFor \in [Id -> SUBSET Job]
        /\ foundCauses \in [Id -> SUBSET Nat] /\ unresolved \in SUBSET Job
    BY DEF Init
  <2>6. /\ phase \in Phase /\ complete \in BOOLEAN /\ failed \in BOOLEAN
        /\ threw \in BOOLEAN
    BY Zenon DEF Init, Phase
  <2>7. faults \in 0 .. MaxFaults
    <3>1. faults = 0 /\ MaxFaults \in Nat
      BY DEF Init
    <3> QED BY <3>1
  <2> QED BY <1>1, <2>1, <2>2, <2>3, <2>4, <2>5, <2>6, <2>7 DEF TypeOK
<1>3. SearchReady
  BY DEF Init, SearchReady
<1>4. ReadySearched /\ FoundExist
  BY DEF Init, ReadySearched, FoundExist
<1> QED BY <1>2, <1>3, <1>4 DEF Typed

(* The callbacks of a job that only change its own state. *)
LEMMA JobWorkTyped ==
  ASSUME Typed, NEW j \in Job,
         FinishTimer(j) \/ StreamResponse(j) \/ FinishResponse(j) \/ DownloadResponse(j)
  PROVE  Typed'
<1> USE JobAssumption, OptionAssumption DEF Typed
<1>1. ServerTypeOK' /\ FoundExist'
  BY DEF FinishTimer, StreamResponse, FinishResponse, DownloadResponse, TypeOK,
         ServerTypeOK, FoundExist, searchVars, serverVars
<1>2. UNCHANGED <<num, joined, initVars, searchVars, runVars>>
  BY DEF FinishTimer, StreamResponse, FinishResponse, DownloadResponse
<1>3. /\ faults' = faults \/ (faults < MaxFaults /\ faults' = faults + 1)
      /\ failed' = failed \/ failed' = TRUE
  BY DEF FinishTimer, StreamResponse, FinishResponse, DownloadResponse, Fault, Fail
<1>4. faults' \in 0 .. MaxFaults /\ failed' \in BOOLEAN
  <2>1. faults \in 0 .. MaxFaults /\ failed \in BOOLEAN /\ MaxFaults \in Nat
    BY DEF TypeOK
  <2>2. faults' \in 0 .. MaxFaults
    BY <1>3, <2>1
  <2>3. failed' \in BOOLEAN
    BY <1>3, <2>1, Zenon
  <2> QED BY <2>2, <2>3
<1>5. opts' \in Options
  BY DEF FinishTimer, StreamResponse, FinishResponse, DownloadResponse, TypeOK, Options
<1>6. /\ \/ state' = state
         \/ \E s \in JobState \ {"Locating"} : state' = [state EXCEPT ![j] = s]
      /\ \E p \in {"idle", "http", "stuck"} : pc' = [pc EXCEPT ![j] = p]
  BY DEF FinishTimer, StreamResponse, FinishResponse, DownloadResponse, Enter,
         Again, Stuck, JobState
<1>7. console' \in SUBSET Job
  BY DEF FinishTimer, StreamResponse, FinishResponse, DownloadResponse, Enter,
         Again, Stuck, Flushed, TypeOK
<1>8. TypeOK'
  BY <1>1, <1>2, <1>4, <1>5, <1>6, <1>7 DEF TypeOK, initVars, searchVars, runVars
<1>9. SearchReady' /\ ReadySearched'
  BY <1>2, <1>6 DEF SearchReady, ReadySearched, TypeOK, initVars, searchVars
<1> QED BY <1>1, <1>8, <1>9

(* Initializing a search keeps what is known of the other ones. *)
LEMMA InitSearchType ==
  ASSUME Typed, NEW id \in Id, InitSearch(id)
  PROVE  /\ initialized' \in [Id -> BOOLEAN] /\ initialized'[id]
         /\ \A d \in Id : initialized[d] => initialized'[d]
         /\ initialNum' \in [Id -> (Nat \ {0}) \cup {-1}]
         /\ nextNum' \in [Id -> (Nat \ {0}) \cup {-1}]
         /\ \A d \in Id : initialized'[d] => initialNum'[d] >= 1 /\ nextNum'[d] >= 1
<1>1. LastBuild(id) \in Nat \ {0}
  BY DEF LastBuild, Typed, TypeOK, ServerTypeOK
<1>2. CASE initialized[id]
  BY <1>2 DEF InitSearch, Typed, TypeOK, SearchReady
<1>3. CASE ~initialized[id]
  <2>1. /\ initialized' = [initialized EXCEPT ![id] = TRUE]
        /\ initialNum' = [initialNum EXCEPT ![id] = LastBuild(id)]
        /\ nextNum' = [nextNum EXCEPT ![id] = LastBuild(id)]
    BY <1>3 DEF InitSearch
  <2>2. /\ initialized \in [Id -> BOOLEAN]
        /\ initialNum \in [Id -> (Nat \ {0}) \cup {-1}]
        /\ nextNum \in [Id -> (Nat \ {0}) \cup {-1}]
        /\ \A d \in Id : initialized[d] => initialNum[d] >= 1 /\ nextNum[d] >= 1
    BY DEF Typed, TypeOK, SearchReady
  <2>3. /\ initialized' \in [Id -> BOOLEAN] /\ initialized'[id]
        /\ \A d \in Id : initialized[d] => initialized'[d]
        /\ \A d \in Id \ {id} : initialized'[d] => initialized[d]
    BY <2>1, <2>2
  <2>4. /\ initialNum' \in [Id -> (Nat \ {0}) \cup {-1}]
        /\ nextNum' \in [Id -> (Nat \ {0}) \cup {-1}]
    BY <1>1, <2>1, <2>2
  <2>5. \A d \in Id : initialized'[d] => initialNum'[d] >= 1 /\ nextNum'[d] >= 1
    BY <1>1, <2>1, <2>2, <2>3
  <2> QED BY <2>3, <2>4, <2>5
<1> QED BY <1>2, <1>3

(* The jobs once the children of j are constructed. *)
Born(kids) ==
  Track([x \in Job |-> IF x \in kids THEN "New" ELSE state[x]], num, joined,
        foundCauses, TRUE)

LEMMA BornType ==
  ASSUME TypeOK, NEW kids
  PROVE  /\ Born(kids) \in Tracked
         /\ Born(kids).state = [x \in Job |-> IF x \in kids THEN "New" ELSE state[x]]
         /\ Born(kids).num = num /\ Born(kids).known = foundCauses
BY DEF Born, Track, Tracked, TypeOK, JobState

(* What Continue does to the jobs. *)
LEMMA ContinueMoves ==
  ASSUME Typed, NEW j \in Job, Continue(j)
  PROVE  \E kids \in {{}, Children(j)} : \E r \in Tracked :
           /\ Moves(Born(kids), r)
           /\ num' = r.num
           /\ state' = [r.state EXCEPT ![j] =
                IF @ = "New" /\ r.legal THEN "Locating" ELSE @]
           /\ threw' = (threw \/ ~r.legal)
           /\ joined' \in [Job -> Job \cup {NoJob}]
           /\ pc' = [x \in Job |->
                CASE x = j -> IF r.legal THEN "idle" ELSE "stuck"
                  [] x \in kids /\ x # j ->
                       IF initialized[Ident[x]] THEN "ready" ELSE "init"
                  [] OTHER -> pc[x]]
<1> DEFINE kids == IF opts.capturePipeline THEN Children(j) ELSE {}
           t == Born(kids)
           r == Resolved(t, j)
           st == [r.state EXCEPT ![j] = IF @ = "New" /\ r.legal THEN "Locating" ELSE @]
           u == Track(st, r.num, r.joined, r.known, r.legal)
<1>1. kids \in {{}, Children(j)}
  OBVIOUS
<1>2. /\ Settle(u)
      /\ pc' = [x \in Job |->
           CASE x = j -> IF r.legal THEN "idle" ELSE "stuck"
             [] x \in kids /\ x # j ->
                  IF initialized[Ident[x]] THEN "ready" ELSE "init"
             [] OTHER -> pc[x]]
  BY Zenon DEF Continue, Born
<1> HIDE DEF kids
<1>3. t \in Tracked /\ Existing(t)
  BY BornType DEF Typed, FoundExist, Existing
<1>4. Moves(t, r)
  <2> HIDE DEF t
  <2> QED BY <1>3, ResolvedMoves DEF Typed, TypeOK
<1>5. r \in Tracked
  BY <1>4 DEF Moves
<1> HIDE DEF t, r
<1>6. u \in Tracked /\ u.state = st /\ u.num = r.num /\ u.legal = r.legal
  <2>1. st \in [Job -> JobState \cup {"Absent"}]
    BY <1>5, TrackedParts DEF JobState
  <2> HIDE DEF st
  <2> QED BY <1>5, <2>1, TrackedParts, TrackType
<1>7. joined' \in [Job -> Job \cup {NoJob}]
  <2> HIDE DEF u
  <2> QED BY <1>2, <1>6, SettleType DEF Typed
<1>8. num' = r.num /\ state' = st /\ threw' = (threw \/ ~r.legal)
  <2> HIDE DEF u, st
  <2> QED BY <1>2, <1>6 DEF Settle
<1> HIDE DEF st
<1> QED BY <1>1, <1>2, <1>4, <1>5, <1>7, <1>8 DEF t, st

LEMMA CountersType ==
  ASSUME TypeOK, faults' = faults \/ (faults < MaxFaults /\ faults' = faults + 1)
  PROVE  faults' \in 0 .. MaxFaults
<1>1. faults \in 0 .. MaxFaults /\ MaxFaults \in Nat
  BY OptionAssumption DEF TypeOK
<1> QED BY <1>1

(* Continue keeps the types of what it changes. *)
LEMMA ContinueType ==
  ASSUME Typed, NEW j \in Job, Continue(j), initialized' \in [Id -> BOOLEAN],
         initialized'[Ident[j]], \A d \in Id : initialized[d] => initialized'[d]
  PROVE  /\ state' \in [Job -> JobState \cup {"Absent"}]
         /\ num' \in [Job -> Nat \cup {-1}]
         /\ joined' \in [Job -> Job \cup {NoJob}]
         /\ threw' \in BOOLEAN
         /\ ctor' \in [Id -> BOOLEAN]
         /\ pc' \in [Job -> {"none", "init", "ready", "idle", "timer", "http", "stuck"}]
         /\ \A x \in Job : state'[x] = "Locating" => initialized'[Ident[x]]
         /\ ReadySearched'
<1> USE JobAssumption
<1>1. PICK kids \in {{}, Children(j)}, r \in Tracked :
        /\ Moves(Born(kids), r)
        /\ num' = r.num
        /\ state' = [r.state EXCEPT ![j] =
             IF @ = "New" /\ r.legal THEN "Locating" ELSE @]
        /\ threw' = (threw \/ ~r.legal)
        /\ joined' \in [Job -> Job \cup {NoJob}]
        /\ pc' = [x \in Job |->
             CASE x = j -> IF r.legal THEN "idle" ELSE "stuck"
               [] x \in kids /\ x # j ->
                    IF initialized[Ident[x]] THEN "ready" ELSE "init"
               [] OTHER -> pc[x]]
  BY ContinueMoves
<1>2. state' \in [Job -> JobState \cup {"Absent"}]
  BY <1>1, TrackedParts DEF JobState
<1>3. num' \in [Job -> Nat \cup {-1}]
  BY <1>1, TrackedParts
<1>4. threw' \in BOOLEAN
  BY <1>1, Zenon
<1>5. ctor' \in [Id -> BOOLEAN]
  BY Zenon DEF Continue
<1>6. ASSUME NEW x \in Job
      PROVE  \/ pc'[x] = pc[x] \/ pc'[x] \in {"idle", "stuck", "init"}
             \/ pc'[x] = "ready" /\ initialized[Ident[x]]
  BY <1>1, <1>6, Zenon
<1>7. pc' \in [Job -> {"none", "init", "ready", "idle", "timer", "http", "stuck"}]
  <2>1. pc' = [x \in Job |-> pc'[x]]
    BY <1>1, Zenon
  <2> QED BY <1>6, <2>1 DEF Typed, TypeOK
<1>8. ReadySearched'
  BY <1>6 DEF ReadySearched, Typed
<1>9. ASSUME NEW x \in Job, state'[x] = "Locating"
      PROVE  initialized'[Ident[x]]
  <2>1. CASE x = j
    BY <2>1
  <2>2. CASE x # j
    <3>1. state[x] = "Locating"
      <4>1. r.state[x] = "Locating"
        BY <1>1, <2>2, <1>9, TrackedParts
      <4>2. Born(kids).state[x] = "Locating"
        BY <1>1, <4>1 DEF Moves, Moved
      <4>3. Born(kids).state = [y \in Job |-> IF y \in kids THEN "New" ELSE state[y]]
        BY BornType, Zenon DEF Typed
      <4> QED BY <4>2, <4>3
    <3> QED BY <3>1 DEF Typed, SearchReady
  <2> QED BY <2>1, <2>2
<1> QED BY <1>1, <1>2, <1>3, <1>4, <1>5, <1>7, <1>8, <1>9

LEMMA InitStepsTyped ==
  ASSUME Typed, NEW j \in Job, JobInitResponse(j) \/ JobInitReady(j)
  PROVE  Typed'
<1> USE JobAssumption
<1> DEFINE Rest == /\ opts' \in Options
                   /\ UNCHANGED <<console, forward, spc, searchingFor, foundCauses,
                                  unresolved, phase, complete, failed, serverVars>>
<1>1. ASSUME Continue(j), Rest, faults' \in 0 .. MaxFaults,
             initialized' \in [Id -> BOOLEAN], initialized'[Ident[j]],
             \A d \in Id : initialized[d] => initialized'[d],
             initialNum' \in [Id -> (Nat \ {0}) \cup {-1}],
             nextNum' \in [Id -> (Nat \ {0}) \cup {-1}],
             \A d \in Id : initialized'[d] => initialNum'[d] >= 1 /\ nextNum'[d] >= 1
      PROVE  Typed'
  <2>1. /\ state' \in [Job -> JobState \cup {"Absent"}]
        /\ num' \in [Job -> Nat \cup {-1}]
        /\ joined' \in [Job -> Job \cup {NoJob}]
        /\ threw' \in BOOLEAN
        /\ ctor' \in [Id -> BOOLEAN]
        /\ pc' \in [Job -> {"none", "init", "ready", "idle", "timer", "http", "stuck"}]
        /\ \A x \in Job : state'[x] = "Locating" => initialized'[Ident[x]]
        /\ ReadySearched'
    BY <1>1, ContinueType
  <2>2. ServerTypeOK' /\ FoundExist'
    BY <1>1 DEF Typed, TypeOK, ServerTypeOK, FoundExist, serverVars
  <2>3. TypeOK'
    BY <1>1, <2>1, <2>2 DEF Typed, TypeOK
  <2>4. SearchReady'
    BY <1>1, <2>1 DEF Typed, SearchReady
  <2> QED BY <2>1, <2>2, <2>3, <2>4 DEF Typed
<1>2. CASE JobInitReady(j)
  <2>1. Continue(j) /\ Rest
    BY <1>2 DEF JobInitReady, searchVars, Typed, TypeOK
  <2>2. /\ UNCHANGED <<initialized, initialNum, nextNum, faults>>
        /\ pc[j] = "ready"
    BY <1>2 DEF JobInitReady, searchVars
  <2>3. /\ initialized' \in [Id -> BOOLEAN] /\ initialized'[Ident[j]]
        /\ \A d \in Id : initialized[d] => initialized'[d]
        /\ initialNum' \in [Id -> (Nat \ {0}) \cup {-1}]
        /\ nextNum' \in [Id -> (Nat \ {0}) \cup {-1}]
        /\ \A d \in Id : initialized'[d] => initialNum'[d] >= 1 /\ nextNum'[d] >= 1
        /\ faults' \in 0 .. MaxFaults
    BY <2>2 DEF Typed, TypeOK, SearchReady, ReadySearched
  <2> HIDE DEF Rest
  <2> QED BY <1>1, <2>1, <2>3
<1>3. CASE JobInitResponse(j)
  <2>1. CASE InitSearch(Ident[j]) /\ Continue(j) /\ UNCHANGED <<console, faults>>
    <3>1. Rest /\ faults' \in 0 .. MaxFaults
      BY <1>3, <2>1 DEF JobInitResponse, Typed, TypeOK
    <3> HIDE DEF Rest
    <3> QED BY <1>1, <2>1, <3>1, InitSearchType
  <2>2. CASE /\ UNCHANGED <<num, joined, initVars, nextNum, threw, state, console>>
             /\ \E p \in {"idle", "stuck"} : pc' = [pc EXCEPT ![j] = p]
             /\ Fault("initReset") \/ Fault("initFail")
    <3>1. faults' \in 0 .. MaxFaults
      BY <2>2, CountersType DEF Fault, Typed
    <3>2. UNCHANGED <<opts, forward, spc, searchingFor, foundCauses, unresolved,
                      phase, complete, failed, serverVars>>
      BY <1>3 DEF JobInitResponse
    <3>3. ServerTypeOK' /\ FoundExist'
      BY <3>2 DEF Typed, TypeOK, ServerTypeOK, FoundExist, serverVars
    <3>4. TypeOK'
      BY <2>2, <3>1, <3>2, <3>3 DEF Typed, TypeOK, initVars
    <3>5. SearchReady' /\ ReadySearched'
      BY <2>2, <3>2 DEF Typed, TypeOK, SearchReady, ReadySearched, initVars
    <3> QED BY <3>3, <3>4, <3>5 DEF Typed
  <2> QED BY <1>3, <2>1, <2>2 DEF JobInitResponse, Again, Stuck
<1> QED BY <1>2, <1>3

LEMMA TickTyped ==
  ASSUME Typed, Tick
  PROVE  Typed'
<1> USE JobAssumption DEF Typed
<1>1. UNCHANGED <<threw, trackVars, opts, initVars, nextNum, forward, foundCauses,
                  unresolved, failed, faults, serverVars>>
  BY DEF Tick
<1>2. ServerTypeOK' /\ FoundExist'
  BY <1>1 DEF TypeOK, ServerTypeOK, FoundExist, serverVars
<1>3. spc' \in [Id -> {"idle", "timer", "resolving", "http", "stuck"}]
  BY DEF Tick, TypeOK
<1>4. searchingFor' \in [Id -> SUBSET Job]
  BY DEF Tick, TypeOK, Sought
<1>5. /\ pc' \in [Job -> {"none", "init", "ready", "idle", "timer", "http", "stuck"}]
      /\ \A j \in Job : pc'[j] = "ready" => pc[j] = "ready"
  BY DEF Tick, TypeOK, DoWork
<1>6. console' \in SUBSET Job
  BY DEF Tick, TypeOK, Flushed
<1>7. phase' \in Phase
  BY DEF Tick, Phase
<1>8. complete' \in BOOLEAN
  BY Zenon DEF Tick
<1>9. TypeOK'
  BY <1>1, <1>2, <1>3, <1>4, <1>5, <1>6, <1>7, <1>8 DEF TypeOK, trackVars, initVars
<1>10. \A id \in Id : spc'[id] # "idle" => initialized[id]
  BY DEF Tick, Sought, SearchReady, TypeOK
<1>11. SearchReady' /\ ReadySearched'
  BY <1>1, <1>5, <1>10 DEF SearchReady, ReadySearched, trackVars, initVars
<1> QED BY <1>2, <1>9, <1>11

LEMMA CtorTyped ==
  ASSUME Typed, NEW id \in Id, CtorResponse(id)
  PROVE  Typed'
<1>1. UNCHANGED <<trackVars, pc, console, opts, forward, spc, searchingFor,
                  foundCauses, unresolved, runVars, failed, serverVars>>
  BY DEF CtorResponse
<1>2. ctor' \in [Id -> BOOLEAN]
  BY DEF CtorResponse, Typed, TypeOK
<1>3. faults' \in 0 .. MaxFaults
  <2>1. faults' = faults \/ (faults < MaxFaults /\ faults' = faults + 1)
    BY DEF CtorResponse, Fault
  <2> QED BY <2>1, CountersType DEF Typed
<1>4. /\ initialized' \in [Id -> BOOLEAN]
      /\ \A d \in Id : initialized[d] => initialized'[d]
      /\ initialNum' \in [Id -> (Nat \ {0}) \cup {-1}]
      /\ nextNum' \in [Id -> (Nat \ {0}) \cup {-1}]
      /\ \A d \in Id : initialized'[d] => initialNum'[d] >= 1 /\ nextNum'[d] >= 1
  <2>1. CASE InitSearch(id)
    BY <2>1, InitSearchType
  <2>2. CASE UNCHANGED <<initialized, initialNum, nextNum>>
    BY <2>2 DEF Typed, TypeOK, SearchReady
  <2> QED BY <2>1, <2>2 DEF CtorResponse
<1>5. ServerTypeOK' /\ FoundExist'
  BY <1>1 DEF Typed, TypeOK, ServerTypeOK, FoundExist, serverVars
<1>6. TypeOK'
  BY <1>1, <1>2, <1>3, <1>4, <1>5 DEF Typed, TypeOK, trackVars, runVars
<1>7. SearchReady' /\ ReadySearched'
  BY <1>1, <1>4, JobAssumption DEF Typed, SearchReady, ReadySearched, trackVars
<1> QED BY <1>5, <1>6, <1>7 DEF Typed

(* What a tracking step outside Continue does to the jobs. *)
LEMMA SettledMoves ==
  ASSUME TypeOK, NEW t \in Tracked, t.state = state, t.num = num, NEW r, Moves(t, r),
         Settle(r)
  PROVE  /\ state' \in [Job -> JobState \cup {"Absent"}]
         /\ num' \in [Job -> Nat \cup {-1}]
         /\ joined' \in [Job -> Job \cup {NoJob}]
         /\ threw' \in BOOLEAN
         /\ \A x \in Job : state'[x] = "Locating" => state[x] = "Locating"
<1>1. r \in Tracked
  BY DEF Moves
<1>2. /\ state' \in [Job -> JobState \cup {"Absent"}]
      /\ num' \in [Job -> Nat \cup {-1}]
      /\ joined' \in [Job -> Job \cup {NoJob}]
      /\ threw' \in BOOLEAN
  BY <1>1, SettleType
<1>3. \A x \in Job : state'[x] = "Locating" => state[x] = "Locating"
  BY DEF Settle, Moves, Moved
<1> QED BY <1>2, <1>3

LEMMA LegalType ==
  ASSUME TypeOK, NEW r, failed' = (failed \/ ~r.legal)
  PROVE  failed' \in BOOLEAN
BY Zenon

LEMMA ResolveOneTyped ==
  ASSUME Typed, NEW id \in Id, ResolveOne(id)
  PROVE  Typed'
<1> USE JobAssumption
<1>1. PICK j \in unresolved :
        /\ Settle(Resolved(T, j))
        /\ failed' = (failed \/ ~Resolved(T, j).legal)
        /\ unresolved' \in {unresolved \ {j}, {}}
        /\ spc' \in {spc, [spc EXCEPT ![id] = "stuck"]}
  BY DEF ResolveOne
<1>2. UNCHANGED <<pc, console, opts, initVars, nextNum, forward,
                  searchingFor, foundCauses, phase, complete, faults, serverVars>>
  BY DEF ResolveOne
<1>3. Moves(T, Resolved(T, j))
  <2>1. T \in Tracked /\ Existing(T) /\ j \in Job
    BY TType DEF Typed, TypeOK, FoundExist, Existing
  <2> QED BY <2>1, ResolvedMoves DEF Typed, TypeOK
<1>4. /\ state' \in [Job -> JobState \cup {"Absent"}]
      /\ num' \in [Job -> Nat \cup {-1}]
      /\ joined' \in [Job -> Job \cup {NoJob}]
      /\ threw' \in BOOLEAN
      /\ \A x \in Job : state'[x] = "Locating" => state[x] = "Locating"
  BY <1>1, <1>3, TType, SettledMoves DEF Typed
<1>5. failed' \in BOOLEAN
  BY <1>1, LegalType DEF Typed
<1>6. ServerTypeOK' /\ FoundExist'
  BY <1>2 DEF Typed, TypeOK, ServerTypeOK, FoundExist, serverVars
<1>7. /\ spc' \in [Id -> {"idle", "timer", "resolving", "http", "stuck"}]
      /\ \A d \in Id : spc'[d] # "idle" => spc[d] # "idle"
  <2>1. spc[id] = "resolving"
    BY DEF ResolveOne
  <2> QED BY <1>1, <2>1 DEF Typed, TypeOK
<1>8. TypeOK'
  BY <1>1, <1>2, <1>4, <1>5, <1>6, <1>7 DEF Typed, TypeOK, initVars
<1>9. SearchReady' /\ ReadySearched'
  BY <1>2, <1>4, <1>7 DEF Typed, SearchReady, ReadySearched, initVars
<1> QED BY <1>6, <1>8, <1>9 DEF Typed

(* The synchronous part of a located build. *)
Located(id, n) ==
  Track(state, num, joined, [foundCauses EXCEPT ![id] = @ \cup {n}], TRUE)

(* What the answer with build n does to the jobs. *)
Answered(id, n) ==
  LET t == Located(id, n)
      main == MainJob(t, id, n)
  IN CASE ~Determinable(t, id, n) -> Thrown(t)
       [] Determinable(t, id, n) /\ main = NoJob -> t
       [] OTHER -> Streaming(t, main, n)

LEMMA LocatedMoves ==
  ASSUME Typed, NEW id \in Id, NEW n \in DOMAIN builds[id]
  PROVE  /\ Located(id, n) \in Tracked
         /\ Located(id, n).state = state /\ Located(id, n).num = num
         /\ Located(id, n).joined = joined /\ Located(id, n).legal = TRUE
         /\ Located(id, n).known = [foundCauses EXCEPT ![id] = @ \cup {n}]
         /\ Moves(Located(id, n), Answered(id, n))
<1> USE JobAssumption
<1> DEFINE t == Located(id, n)
           ok == Determinable(t, id, n)
           main == MainJob(t, id, n)
           r == Answered(id, n)
           kn == [foundCauses EXCEPT ![id] = @ \cup {n}]
<1>1. n \in Nat
  BY DEF Typed, TypeOK, ServerTypeOK
<1>2. kn \in [Id -> SUBSET Nat] /\ \A d \in Id : kn[d] \subseteq DOMAIN builds[d]
  BY <1>1 DEF Typed, TypeOK, FoundExist
<1>3. /\ t \in Tracked /\ t.state = state /\ t.num = num /\ t.joined = joined
      /\ t.known = kn /\ t.legal = TRUE
  <2>1. t = Track(state, num, joined, kn, TRUE)
    BY Zenon DEF Located
  <2>2. /\ state \in [Job -> JobState \cup {"Absent"}]
        /\ num \in [Job -> Nat \cup {-1}] /\ joined \in [Job -> Job \cup {NoJob}]
    BY DEF Typed, TypeOK
  <2> HIDE DEF kn, t
  <2> QED BY <1>2, <2>1, <2>2 DEF Track, Tracked
<1>4. Existing(t)
  BY <1>2, <1>3 DEF Existing
<1>5. main \in CauseChildren(t, id, n, Ran) \cup {NoJob}
  <2> HIDE DEF t
  <2> QED BY <1>3, <1>4, MainJobIn DEF Typed, TypeOK
<1>6. CASE ~ok
  <2>1. r = Thrown(t)
    BY <1>6, Zenon DEF Answered
  <2> QED BY <1>3, <2>1, ThrownMoves
<1>7. CASE ok /\ main = NoJob
  <2>1. r = t
    BY <1>7, Zenon DEF Answered
  <2> QED BY <1>3, <2>1, MovesRefl
<1>8. CASE ok /\ main # NoJob
  <2>1. /\ main \in Job \ {Root} /\ Ident[main] = id
        /\ BuildNumber(t, Parent[main]) \in CauseSet(id, n)
    <3> HIDE DEF main, t
    <3> QED BY <1>5, <1>8 DEF CauseChildren
  <2>2. n \in t.known[id]
    BY <1>3, <1>1 DEF Typed, TypeOK
  <2>3. r = Streaming(t, main, n)
    BY <1>8, Zenon DEF Answered
  <2> HIDE DEF main, t
  <2>4. RightNumber(t, main, n)
    BY <1>1, <2>1, <2>2 DEF RightNumber, Sourced, BuildNumber
  <2>5. Moves(t, r)
    BY <1>3, <2>1, <2>3, <2>4, StreamingMoves
  <2> QED BY <1>3, <2>5 DEF t
<1> QED BY <1>6, <1>7, <1>8

(* LocateResponse in these terms. *)
LEMMA LocateCases ==
  ASSUME NEW id \in Id, LocateResponse(id)
  PROVE  LET n == nextNum[id] IN
         \/ /\ UNCHANGED <<trackVars, threw, foundCauses, nextNum, forward>>
            /\ failed' \in {failed, TRUE}
         \/ /\ n \in DOMAIN builds[id]
            /\ Settle(Answered(id, n))
            /\ failed' = (failed \/ ~Answered(id, n).legal)
            /\ foundCauses' = Answered(id, n).known
            /\ \/ Answered(id, n).legal /\ Advance(id) /\ StopSearch(id)
               \/ ~Answered(id, n).legal /\ UNCHANGED <<nextNum, forward>>
            /\ UNCHANGED faults
BY Zenon DEF LocateResponse, Located, Answered, Fail

LEMMA LocateTyped ==
  ASSUME Typed, NEW id \in Id, LocateResponse(id)
  PROVE  Typed'
<1> USE JobAssumption
<1> DEFINE n == nextNum[id]
<1>1. /\ spc[id] = "http"
      /\ UNCHANGED <<pc, console, opts, initVars, unresolved, phase, complete, serverVars>>
  BY DEF LocateResponse
<1>2. n \in Nat \ {0} /\ initialNum[id] \in Nat \ {0}
  BY <1>1 DEF Typed, TypeOK, SearchReady
<1>3. faults' \in 0 .. MaxFaults
  <2>1. faults' = faults \/ (faults < MaxFaults /\ faults' = faults + 1)
    BY DEF LocateResponse, Fault
  <2> QED BY <2>1, CountersType DEF Typed
<1>4. \/ Advance(id)
      \/ UNCHANGED <<nextNum, forward>>
  BY LocateCases
<1>5. /\ nextNum' \in [Id -> (Nat \ {0}) \cup {-1}]
      /\ forward' \in [Id -> BOOLEAN]
      /\ \A d \in Id : initialized[d] => nextNum'[d] >= 1
  <2>1. CASE UNCHANGED <<nextNum, forward>>
    BY <2>1 DEF Typed, TypeOK, SearchReady
  <2>2. CASE Advance(id)
    <3>1. \E k \in Nat \ {0} : nextNum' = [nextNum EXCEPT ![id] = k]
      <4>1. CASE forward[id]
        <5>1. nextNum' = [nextNum EXCEPT ![id] = n + 1]
          BY <2>2, <4>1, Zenon DEF Advance
        <5>2. n + 1 \in Nat \ {0}
          BY <1>2
        <5> QED BY <5>1, <5>2, Zenon
      <4>2. CASE ~forward[id] /\ Turn(id, n)
        <5>1. nextNum' = [nextNum EXCEPT ![id] = initialNum[id] + 1]
          BY <2>2, <4>2, Zenon DEF Advance
        <5>2. initialNum[id] + 1 \in Nat \ {0}
          BY <1>2
        <5> QED BY <5>1, <5>2, Zenon
      <4>3. CASE ~forward[id] /\ ~Turn(id, n)
        <5>1. nextNum' = [nextNum EXCEPT ![id] = n - 1]
          BY <2>2, <4>3, Zenon DEF Advance
        <5>2. ~(n <= 1)
          BY <4>3, Zenon DEF Turn
        <5>3. n - 1 \in Nat \ {0}
          BY <5>2, <1>2
        <5> QED BY <5>1, <5>3, Zenon
      <4> QED BY <4>1, <4>2, <4>3
    <3>2. forward' = [forward EXCEPT ![id] = forward[id] \/ Turn(id, n)]
      BY <2>2, Zenon DEF Advance
    <3>3. (forward[id] \/ Turn(id, n)) \in BOOLEAN
      BY Zenon DEF Turn
    <3>4. forward' \in [Id -> BOOLEAN]
      BY <3>2, <3>3 DEF Typed, TypeOK
    <3>5. /\ nextNum \in [Id -> (Nat \ {0}) \cup {-1}]
          /\ \A d \in Id : initialized[d] => nextNum[d] >= 1
      BY DEF Typed, TypeOK, SearchReady
    <3>6. /\ nextNum' \in [Id -> (Nat \ {0}) \cup {-1}]
          /\ \A d \in Id : initialized[d] => nextNum'[d] >= 1
      BY <3>1, <3>5
    <3> QED BY <3>4, <3>6
  <2> QED BY <1>4, <2>1, <2>2
<1>6. /\ spc' \in [Id -> {"idle", "timer", "resolving", "http", "stuck"}]
      /\ searchingFor' \in [Id -> SUBSET Job]
      /\ \A d \in Id \ {id} : spc'[d] = spc[d]
  BY DEF LocateResponse, StopSearch, Typed, TypeOK
<1>7. /\ state' \in [Job -> JobState \cup {"Absent"}]
      /\ num' \in [Job -> Nat \cup {-1}]
      /\ joined' \in [Job -> Job \cup {NoJob}]
      /\ threw' \in BOOLEAN
      /\ \A x \in Job : state'[x] = "Locating" => state[x] = "Locating"
      /\ failed' \in BOOLEAN
      /\ foundCauses' \in [Id -> SUBSET Nat]
      /\ \A d \in Id : foundCauses'[d] \subseteq DOMAIN builds[d]
  <2>1. CASE UNCHANGED <<trackVars, threw, foundCauses>> /\ failed' \in {failed, TRUE}
    BY <2>1 DEF Typed, TypeOK, FoundExist, trackVars
  <2> DEFINE r == Answered(id, n)
  <2>2. CASE /\ n \in DOMAIN builds[id] /\ Settle(r)
             /\ failed' = (failed \/ ~r.legal) /\ foundCauses' = r.known
    <3>1. /\ Located(id, n) \in Tracked
          /\ Located(id, n).state = state /\ Located(id, n).num = num
          /\ Located(id, n).known = [foundCauses EXCEPT ![id] = @ \cup {n}]
          /\ Moves(Located(id, n), r)
      BY <2>2, LocatedMoves
    <3> HIDE DEF r
    <3>2. /\ state' \in [Job -> JobState \cup {"Absent"}]
          /\ num' \in [Job -> Nat \cup {-1}]
          /\ joined' \in [Job -> Job \cup {NoJob}]
          /\ threw' \in BOOLEAN
          /\ \A x \in Job : state'[x] = "Locating" => state[x] = "Locating"
      BY <2>2, <3>1, SettledMoves DEF Typed
    <3>3. failed' \in BOOLEAN
      BY <2>2, LegalType DEF Typed
    <3>4. foundCauses' = [foundCauses EXCEPT ![id] = @ \cup {n}]
      BY <2>2, <3>1 DEF Moves
    <3>5. /\ foundCauses' \in [Id -> SUBSET Nat]
          /\ \A d \in Id : foundCauses'[d] \subseteq DOMAIN builds[d]
      BY <1>2, <2>2, <3>4 DEF Typed, TypeOK, FoundExist
    <3> QED BY <3>2, <3>3, <3>5
  <2> QED BY <2>1, <2>2, LocateCases
<1>8. ServerTypeOK' /\ FoundExist'
  BY <1>1, <1>7 DEF Typed, TypeOK, ServerTypeOK, FoundExist, serverVars
<1>9. TypeOK'
  BY <1>1, <1>3, <1>5, <1>6, <1>7, <1>8 DEF Typed, TypeOK, initVars
<1>10. initialized[id]
  BY <1>1 DEF Typed, SearchReady
<1>11. SearchReady' /\ ReadySearched'
  BY <1>1, <1>5, <1>6, <1>7, <1>10 DEF Typed, SearchReady, ReadySearched, initVars
<1> QED BY <1>8, <1>9, <1>11 DEF Typed

(* The steps that change no job, no search number and no server variable. *)
LEMMA QuietTyped ==
  ASSUME Typed,
         UNCHANGED <<trackVars, pc, console, opts, initVars, nextNum, forward,
                     foundCauses, serverVars>>,
         spc' \in [Id -> {"idle", "timer", "resolving", "http", "stuck"}],
         \A id \in Id : spc'[id] # "idle" => spc[id] # "idle",
         searchingFor' \in [Id -> SUBSET Job], unresolved' \in SUBSET Job,
         phase' \in Phase, complete' \in BOOLEAN, failed' \in BOOLEAN,
         faults' \in 0 .. MaxFaults, threw' \in BOOLEAN
  PROVE  Typed'
<1>1. ServerTypeOK' /\ FoundExist'
  BY DEF Typed, TypeOK, ServerTypeOK, FoundExist, serverVars
<1>2. TypeOK'
  BY <1>1 DEF Typed, TypeOK, trackVars, initVars
<1>3. SearchReady' /\ ReadySearched'
  BY JobAssumption DEF Typed, SearchReady, ReadySearched, trackVars, initVars
<1> QED BY <1>1, <1>2, <1>3 DEF Typed

LEMMA SearchTimerTyped ==
  ASSUME Typed, NEW id \in Id, SearchTimer(id)
  PROVE  Typed'
<1>1. UNCHANGED <<trackVars, pc, console, opts, initVars, nextNum, forward,
                  searchingFor, foundCauses, runVars, failed, faults, serverVars>>
  BY DEF SearchTimer
<1>2. /\ spc' \in [Id -> {"idle", "timer", "resolving", "http", "stuck"}]
      /\ \A d \in Id : spc'[d] # "idle" => spc[d] # "idle"
      /\ unresolved' \in SUBSET Job
  BY DEF SearchTimer, Typed, TypeOK
<1>3. /\ searchingFor' \in [Id -> SUBSET Job] /\ phase' \in Phase
      /\ complete' \in BOOLEAN /\ failed' \in BOOLEAN /\ faults' \in 0 .. MaxFaults
      /\ threw' \in BOOLEAN
  BY <1>1, Zenon DEF Typed, TypeOK, runVars
<1> QED BY <1>1, <1>2, <1>3, QuietTyped

LEMMA ResolveDoneTyped ==
  ASSUME Typed, NEW id \in Id, ResolveDone(id)
  PROVE  Typed'
<1>1. UNCHANGED <<trackVars, pc, console, opts, initVars, nextNum, forward,
                  foundCauses, unresolved, runVars, failed, faults, serverVars>>
  BY DEF ResolveDone
<1>2. /\ spc' \in [Id -> {"idle", "timer", "resolving", "http", "stuck"}]
      /\ \A d \in Id : spc'[d] # "idle" => spc[d] # "idle"
      /\ searchingFor' \in [Id -> SUBSET Job]
  BY DEF ResolveDone, Typed, TypeOK
<1>3. /\ unresolved' \in SUBSET Job /\ phase' \in Phase
      /\ complete' \in BOOLEAN /\ failed' \in BOOLEAN /\ faults' \in 0 .. MaxFaults
      /\ threw' \in BOOLEAN
  BY <1>1, Zenon DEF Typed, TypeOK, runVars
<1> QED BY <1>1, <1>2, <1>3, QuietTyped

LEMMA ReportTyped ==
  ASSUME Typed, ReportStep
  PROVE  Typed'
<1>1. UNCHANGED <<trackVars, pc, console, opts, initVars, searchVars, complete,
                  threw, serverVars>>
  BY DEF ReportStep, AskPipelineResponse, DescribeResponse, WriteResult, Exit
<1>2. phase' \in Phase
  BY DEF ReportStep, AskPipelineResponse, DescribeResponse, WriteResult, Exit, Phase
<1>3. failed' \in BOOLEAN
  <2>1. \/ failed' \in {failed, TRUE}
        \/ failed' = (failed \/ ~complete \/ opts.shouldFail)
    BY Zenon DEF ReportStep, AskPipelineResponse, DescribeResponse, WriteResult,
                 Exit, Fail
  <2>2. failed \in BOOLEAN
    BY DEF Typed, TypeOK
  <2> QED BY <2>1, <2>2, Zenon
<1>4. faults' \in 0 .. MaxFaults
  <2>1. faults' = faults \/ (faults < MaxFaults /\ faults' = faults + 1)
    BY DEF ReportStep, AskPipelineResponse, DescribeResponse, WriteResult, Exit, Fault
  <2> QED BY <2>1, CountersType DEF Typed
<1>5. UNCHANGED <<nextNum, forward, foundCauses>>
  BY <1>1 DEF searchVars
<1>6. /\ spc' \in [Id -> {"idle", "timer", "resolving", "http", "stuck"}]
      /\ \A d \in Id : spc'[d] # "idle" => spc[d] # "idle"
      /\ searchingFor' \in [Id -> SUBSET Job] /\ unresolved' \in SUBSET Job
      /\ complete' \in BOOLEAN /\ threw' \in BOOLEAN
  BY <1>1, Zenon DEF Typed, TypeOK, searchVars
<1> QED BY <1>1, <1>2, <1>3, <1>4, <1>5, <1>6, QuietTyped

LEMMA JenkinsTyped ==
  ASSUME Typed, Jenkins
  PROVE  Typed'
<1>1. UNCHANGED <<trackVars, pc, console, opts, initVars, searchVars, runVars,
                  failed, faults>>
  BY DEF Jenkins
<1>2. ServerTypeOK' /\ BuildsGrow
  BY ServerStepType DEF Jenkins, Typed, TypeOK
<1>3. FoundExist'
  BY <1>1, <1>2 DEF Typed, FoundExist, BuildsGrow, searchVars
<1>4. TypeOK'
  BY <1>1, <1>2 DEF Typed, TypeOK, trackVars, initVars, searchVars, runVars
<1>5. SearchReady' /\ ReadySearched'
  BY <1>1, JobAssumption DEF Typed, SearchReady, ReadySearched, trackVars, initVars,
                             searchVars
<1> QED BY <1>3, <1>4, <1>5 DEF Typed

(* Every step keeps the types, and with them the facts about the searches. *)
LEMMA TypedNext ==
  ASSUME Typed, [Next]_vars
  PROVE  Typed'
<1>1. CASE Tick
  BY <1>1, TickTyped
<1>2. ASSUME NEW j \in Job, JobStep(j)
      PROVE  Typed'
  BY <1>2, InitStepsTyped, JobWorkTyped DEF JobStep
<1>3. ASSUME NEW id \in Id, SearchStep(id)
      PROVE  Typed'
  BY <1>3, CtorTyped, SearchTimerTyped, ResolveOneTyped, ResolveDoneTyped,
     LocateTyped DEF SearchStep
<1>4. CASE ReportStep
  BY <1>4, ReportTyped
<1>5. CASE Jenkins
  BY <1>5, JenkinsTyped
<1>6. CASE UNCHANGED vars
  <2>1. /\ UNCHANGED <<trackVars, pc, console, opts, initVars, nextNum, forward,
                       foundCauses, serverVars>>
        /\ UNCHANGED <<spc, searchingFor, unresolved, phase, complete, failed, faults,
                       threw>>
    BY <1>6 DEF vars, searchVars, runVars
  <2>2. /\ spc' \in [Id -> {"idle", "timer", "resolving", "http", "stuck"}]
        /\ \A id \in Id : spc'[id] # "idle" => spc[id] # "idle"
        /\ searchingFor' \in [Id -> SUBSET Job] /\ unresolved' \in SUBSET Job
        /\ phase' \in Phase /\ complete' \in BOOLEAN /\ failed' \in BOOLEAN
        /\ faults' \in 0 .. MaxFaults /\ threw' \in BOOLEAN
    BY <2>1, Zenon DEF Typed, TypeOK
  <2> QED BY <2>1, <2>2, QuietTyped
<1> QED BY <1>1, <1>2, <1>3, <1>4, <1>5, <1>6 DEF Next, TaskStep

LEMMA AlwaysTyped == Spec => []Typed
BY TypedInit, TypedNext, PTL DEF Spec

(* In every behaviour every variable has its type: whatever the pipeline, the *)
(* server's history and the requests that fail, the queue and its searches  *)
(* only ever hold jobs, build numbers and states of the code.              *)
THEOREM TypeCorrect == Spec => []TypeOK
<1>1. Typed => TypeOK
  BY DEF Typed
<1> QED BY <1>1, AlwaysTyped, PTL

(* In every behaviour a search is used only after its project was read: a job *)
(* of JobQueue enters Locating, and locateExecution asks for a build, only  *)
(* with a starting build number from Jenkins.                              *)
THEOREM SearchesReady == Spec => []SearchReady
<1>1. Typed => SearchReady
  BY DEF Typed
<1> QED BY <1>1, AlwaysTyped, PTL

-----------------------------------------------------------------------------
(* The inductive invariant.                                                *)

(* A job is constructed by the initialization of its parent: before it,     *)
(* there are no children, and a job without a request is no job yet.       *)
Constructed ==
  \A j \in Job :
    /\ pc[j] = "none" <=> state[j] = "Absent"
    /\ j # Root /\ pc[Parent[j]] \in {"none", "init", "ready"}
         => state[j] = "Absent"

(* Only a job that was started has a build number. *)
Unnumbered ==
  \A j \in Job \ {Root} : state[j] \notin Ran \cup {"Killed"} => num[j] = -1

OnConsole == \A j \in console : state[j] # "Absent"

(* The timeout of finish() is only set for a job that is finishing. *)
Timed == \A j \in Job : pc[j] = "timer" => state[j] = "Finishing"

Safe ==
  /\ Constructed /\ Unnumbered /\ OnConsole /\ Timed
  /\ TrackSound /\ ConsoleExclusive

-----------------------------------------------------------------------------
(* Builds and their causes.                                                *)

(* In the build history b, build k of job p is a cause of build n of id. *)
Caused(b, id, n, p, k) ==
  /\ n \in DOMAIN b[id]
  /\ \E i \in DOMAIN b[id][n].causes : b[id][n].causes[i] = <<Ident[p], k>>

TracksSoundly(b, nu) ==
  \A j \in Job \ {Root} :
    nu[j] # -1 => Caused(b, Ident[j], nu[j], Parent[j], nu[Parent[j]])

LEMMA TrackSoundDef == TrackSound <=> TracksSoundly(builds, num)
BY DEF TrackSound, TracksSoundly, Caused, BuildNumber, T, Track, CauseSet

LEMMA TrackSoundNext == TrackSound' <=> TracksSoundly(builds', num')
BY DEF TrackSound, TracksSoundly, Caused, BuildNumber, T, Track, CauseSet

(* A cause is a build with a number. *)
LEMMA CauseNumbered ==
  ASSUME ServerTypeOK, NEW id \in Id, NEW n, NEW p, NEW k,
         Caused(builds, id, n, p, k)
  PROVE  k \in Nat
<1>1. PICK i \in DOMAIN builds[id][n].causes :
        builds[id][n].causes[i] = <<Ident[p], k>>
  BY DEF Caused
<1>2. <<Ident[p], k>> \in Cause
  <2>1. n \in DOMAIN builds[id]
    BY DEF Caused
  <2>2. <<Ident[p], k>> \in CauseSet(id, n)
    BY <1>1 DEF CauseSet
  <2> QED BY <2>1, <2>2, CausesType
<1> QED BY <1>2 DEF Cause

-----------------------------------------------------------------------------
(* What the steps do to the jobs.                                          *)

(* Pending jobs start or are given up, a number comes with its cause. *)
JobsMove ==
  /\ \A x \in Job :
       \/ state'[x] = state[x]
       \/ /\ state[x] \in Pending
          /\ state'[x] \in {"Streaming", "Finishing", "Joined", "Cut"}
  /\ num'[Root] = num[Root]
  /\ \A x \in Job \ {Root} :
       \/ num'[x] = num[x]
       \/ /\ state[x] \in Pending /\ state'[x] = "Streaming"
          /\ Caused(builds, Ident[x], num'[x], Parent[x], num[Parent[x]])

(* The same for the numbers alone, children may be constructed. *)
NumbersMove ==
  /\ \A x \in Job : state'[x] = state[x] \/ state[x] \in Pending \cup {"Absent"}
  /\ num'[Root] = num[Root]
  /\ \A x \in Job \ {Root} :
       \/ num'[x] = num[x]
       \/ /\ state[x] \in Pending \cup {"Absent"} /\ state'[x] = "Streaming"
          /\ Caused(builds, Ident[x], num'[x], Parent[x], num[Parent[x]])

LEMMA SettleMoves ==
  ASSUME Typed, NEW t \in Tracked, t.state = state, t.num = num,
         \A id \in Id : t.known[id] \subseteq DOMAIN builds[id],
         NEW r, Moves(t, r), Settle(r)
  PROVE  JobsMove
<1>1. ASSUME NEW x \in Job \ {Root}, Sourced(t, x, num'[x])
      PROVE  Caused(builds, Ident[x], num'[x], Parent[x], num[Parent[x]])
  BY <1>1, JobAssumption DEF Sourced, Caused, BuildNumber, CauseSet
<1> QED BY <1>1 DEF Settle, Moves, Moved, JobsMove

LEMMA LocateMoves ==
  ASSUME Typed, NEW id \in Id, LocateResponse(id)
  PROVE  JobsMove /\ UNCHANGED <<pc, console, builds>>
<1> DEFINE n == nextNum[id]
<1>1. UNCHANGED <<pc, console, builds>>
  BY DEF LocateResponse, serverVars
<1>2. CASE UNCHANGED trackVars
  BY <1>1, <1>2 DEF trackVars, JobsMove
<1>3. CASE n \in DOMAIN builds[id] /\ Settle(Answered(id, n))
  <2>1. /\ Located(id, n) \in Tracked
        /\ Located(id, n).state = state /\ Located(id, n).num = num
        /\ Located(id, n).known = [foundCauses EXCEPT ![id] = @ \cup {n}]
        /\ Moves(Located(id, n), Answered(id, n))
    BY <1>3, LocatedMoves
  <2>2. \A d \in Id : Located(id, n).known[d] \subseteq DOMAIN builds[d]
    BY <1>3, <2>1 DEF Typed, FoundExist, TypeOK
  <2> HIDE DEF n
  <2>3. JobsMove
    BY <1>3, <2>1, <2>2, SettleMoves
  <2> QED BY <1>1, <2>3
<1> QED BY <1>2, <1>3, LocateCases

LEMMA ResolveMoves ==
  ASSUME Typed, NEW id \in Id, ResolveOne(id)
  PROVE  JobsMove /\ UNCHANGED <<pc, console, builds>>
<1>1. UNCHANGED <<pc, console, builds>>
  BY DEF ResolveOne, serverVars
<1>2. PICK j \in unresolved : Settle(Resolved(T, j))
  BY DEF ResolveOne
<1>3. /\ T \in Tracked /\ T.state = state /\ T.num = num /\ T.known = foundCauses
  BY TType DEF Typed
<1>4. Existing(T) /\ j \in Job
  BY <1>3 DEF Typed, TypeOK, FoundExist, Existing
<1>5. Moves(T, Resolved(T, j))
  BY <1>3, <1>4, ResolvedMoves DEF Typed, TypeOK
<1>6. JobsMove
  <2>1. \A d \in Id : T.known[d] \subseteq DOMAIN builds[d]
    BY <1>4 DEF Existing
  <2> QED BY <1>2, <1>3, <1>5, <2>1, SettleMoves
<1> QED BY <1>1, <1>6

-----------------------------------------------------------------------------
(* Each kind of step keeps the invariant.                                  *)

(* A job whose build is a cause of some build keeps its number. *)
LEMMA CauseKept ==
  ASSUME Typed, Unnumbered, NumbersMove, NEW id \in Id, NEW n, NEW p \in Job,
         Caused(builds, id, n, p, num[p])
  PROVE  num'[p] = num[p]
<1>1. num[p] # -1
  BY CauseNumbered DEF Typed, TypeOK
<1>2. CASE p = Root
  BY <1>2 DEF NumbersMove
<1>3. CASE p # Root
  <2>1. state[p] \notin Pending \cup {"Absent"}
    BY <1>1, <1>3 DEF Unnumbered, Pending, Ran
  <2> QED BY <1>3, <2>1 DEF NumbersMove
<1> QED BY <1>2, <1>3

LEMMA MoveKeepsTracks ==
  ASSUME Typed, Unnumbered, TrackSound, NumbersMove, builds' = builds
  PROVE  TrackSound' /\ Unnumbered'
<1> USE JobAssumption
<1>1. TracksSoundly(builds, num)
  BY TrackSoundDef
<1>2. ASSUME NEW j \in Job \ {Root}, num'[j] # -1
      PROVE  Caused(builds, Ident[j], num'[j], Parent[j], num'[Parent[j]])
  <2>1. Caused(builds, Ident[j], num'[j], Parent[j], num[Parent[j]])
    BY <1>1, <1>2 DEF TracksSoundly, NumbersMove
  <2>2. Parent[j] \in Job /\ Ident[j] \in Id
    OBVIOUS
  <2>3. num'[Parent[j]] = num[Parent[j]]
    BY <2>1, <2>2, CauseKept
  <2> QED BY <2>1, <2>3
<1>3. TrackSound'
  BY <1>2, TrackSoundNext DEF TracksSoundly
<1>4. Unnumbered'
  BY DEF Unnumbered, NumbersMove, Pending, Ran
<1> QED BY <1>3, <1>4

LEMMA MoveKeeps ==
  ASSUME Typed, Safe, JobsMove, UNCHANGED <<pc, console, builds>>
  PROVE  Safe'
<1>1. TrackSound' /\ Unnumbered'
  <2>1. NumbersMove
    BY DEF JobsMove, NumbersMove
  <2> QED BY <2>1, MoveKeepsTracks DEF Safe
<1>2. /\ \A x \in Job : state'[x] = "Absent" <=> state[x] = "Absent"
      /\ \A x \in Job : state[x] = "Finishing" => state'[x] = "Finishing"
  BY DEF JobsMove, Pending
<1>3. Constructed'
  BY <1>2, JobAssumption DEF Safe, Constructed
<1>4. console \in SUBSET Job
  BY DEF Typed, TypeOK
<1>5. OnConsole'
  BY <1>2, <1>4 DEF Safe, OnConsole
<1>6. \A x \in Job : state'[x] \in Active => state[x] \in Active
  BY DEF JobsMove, Pending, Active
<1>7. ConsoleExclusive'
  BY <1>4, <1>6 DEF Safe, ConsoleExclusive
<1>8. Timed'
  BY <1>2 DEF Safe, Timed
<1> QED BY <1>1, <1>3, <1>5, <1>7, <1>8 DEF Safe

(* FlushJobConsolesSafely enables one active job at most. *)
LEMMA FlushedExclusive ==
  ASSUME NEW st, \A i, j \in console : st[i] \in Active /\ st[j] \in Active => i = j
  PROVE  /\ \A i, j \in Flushed(st) : st[i] \in Active /\ st[j] \in Active => i = j
         /\ \A i \in Flushed(st) \ console : st[i] \in {"Streaming", "Finishing", "Done"}
<1> DEFINE busy == {j \in Job : st[j] \in {"Streaming", "Finishing"}}
           sole == IF \E j \in Job : busy = {j} THEN busy ELSE {}
           done == {j \in Job : st[j] = "Done"}
           idle == (\E j \in console : st[j] \in Active) \/ ~opts.captureConsole
<1>1. CASE idle
  BY <1>1 DEF Flushed
<1>2. CASE ~idle
  <2>1. Flushed(st) = console \cup done \cup sole
    BY <1>2 DEF Flushed
  <2>2. \A j \in done : st[j] \notin Active
    BY DEF Active
  <2>3. \A i, j \in sole : i = j
    OBVIOUS
  <2>4. \A j \in console : st[j] \notin Active
    BY <1>2
  <2>5. \A j \in sole \cup done : st[j] \in {"Streaming", "Finishing", "Done"}
    OBVIOUS
  <2> HIDE DEF sole, done
  <2> QED BY <2>1, <2>2, <2>3, <2>4, <2>5
<1> QED BY <1>1, <1>2

(* The tick, and what a job does on its own: its state leaves the pending    *)
(* ones alone and the console may be flushed.                              *)
JobsWork ==
  /\ UNCHANGED num
  /\ \A x \in Job :
       \/ state'[x] = state[x]
       \/ /\ state[x] \notin {"Absent"} \cup Pending
          /\ state'[x] \in Ran \cup {"Killed"}
  /\ \A x \in Job : state'[x] \in Active => state[x] \in Active
  /\ \A x \in Job : \/ pc'[x] = pc[x]
                    \/ /\ pc[x] # "none"
                       /\ pc'[x] \notin {"none", "init", "ready"}
  /\ console' = console \/ console' = Flushed(state')

LEMMA WorkKeeps ==
  ASSUME Typed, Safe, JobsWork, Timed', builds' = builds
  PROVE  Safe'
<1> USE JobAssumption
<1>1. TrackSound'
  BY TrackSoundDef, TrackSoundNext DEF JobsWork, Safe
<1>2. Unnumbered'
  BY DEF Safe, Unnumbered, JobsWork
<1>3. \A x \in Job : state'[x] = "Absent" <=> state[x] = "Absent"
  BY DEF JobsWork, Ran
<1>4. Constructed'
  BY <1>3 DEF Safe, Constructed, JobsWork
<1>5. console \in SUBSET Job
  BY DEF Typed, TypeOK
<1>6. \A i, j \in console : state'[i] \in Active /\ state'[j] \in Active => i = j
  BY <1>5 DEF Safe, ConsoleExclusive, JobsWork
<1>7. \A i \in console : state'[i] # "Absent"
  BY <1>3, <1>5 DEF Safe, OnConsole
<1>8. ConsoleExclusive' /\ OnConsole'
  BY <1>6, <1>7, FlushedExclusive DEF JobsWork, ConsoleExclusive, OnConsole
<1> QED BY <1>1, <1>2, <1>4, <1>8 DEF Safe

LEMMA TickWorks ==
  ASSUME Typed, Timed, Tick
  PROVE  JobsWork /\ Timed' /\ builds' = builds
<1>1. UNCHANGED <<state, num, builds>>
  BY DEF Tick, trackVars, serverVars
<1>2. \A x \in Job : \/ pc'[x] = pc[x]
                     \/ /\ pc[x] # "none"
                        /\ pc'[x] \notin {"none", "init", "ready"}
  BY DEF Tick, DoWork
<1>3. console' = Flushed(state')
  BY <1>1 DEF Tick
<1>4. Timed'
  BY <1>1 DEF Tick, DoWork, Timed
<1> QED BY <1>1, <1>2, <1>3, <1>4 DEF JobsWork

(* A job goes on to a state of its own, or waits again. *)
LEMMA EnterWorks ==
  ASSUME Typed, Timed, NEW j \in Job, pc[j] # "none", UNCHANGED <<num, builds>>,
         \/ /\ UNCHANGED <<state, console>>
            /\ \E p \in {"idle", "http", "stuck"} : pc' = [pc EXCEPT ![j] = p]
         \/ /\ state[j] \notin {"Absent"} \cup Pending
            /\ \E s \in Ran \cup {"Killed"} :
                 Enter(j, s) /\ (s \in Active => state[j] \in Active)
  PROVE  JobsWork /\ Timed' /\ builds' = builds
<1>1. CASE /\ UNCHANGED <<state, console>>
           /\ \E p \in {"idle", "http", "stuck"} : pc' = [pc EXCEPT ![j] = p]
  BY <1>1 DEF JobsWork, Timed, Typed, TypeOK
<1>2. ASSUME state[j] \notin {"Absent"} \cup Pending, NEW s \in Ran \cup {"Killed"},
             Enter(j, s), s \in Active => state[j] \in Active
      PROVE  JobsWork /\ Timed'
  <2>1. state' = [state EXCEPT ![j] = s] /\ pc' = [pc EXCEPT ![j] = "idle"]
    BY <1>2 DEF Enter
  <2>2. console' = console \/ console' = Flushed(state')
    BY <1>2 DEF Enter
  <2>3. /\ \A x \in Job :
             \/ state'[x] = state[x]
             \/ /\ state[x] \notin {"Absent"} \cup Pending
                /\ state'[x] \in Ran \cup {"Killed"}
        /\ \A x \in Job : state'[x] \in Active => state[x] \in Active
    BY <1>2, <2>1 DEF Typed, TypeOK
  <2>4. \A x \in Job : \/ pc'[x] = pc[x]
                       \/ /\ pc[x] # "none"
                          /\ pc'[x] \notin {"none", "init", "ready"}
    BY <2>1 DEF Typed, TypeOK
  <2>5. Timed'
    BY <2>1 DEF Timed, Typed, TypeOK
  <2> QED BY <2>2, <2>3, <2>4, <2>5 DEF JobsWork
<1> QED BY <1>1, <1>2

LEMMA CallbacksWork ==
  ASSUME Typed, Timed, NEW j \in Job,
         FinishTimer(j) \/ StreamResponse(j) \/ FinishResponse(j) \/ DownloadResponse(j)
  PROVE  JobsWork /\ Timed' /\ builds' = builds
<1>1. pc[j] \in {"timer", "http"} /\ UNCHANGED <<num, builds>>
  BY DEF FinishTimer, StreamResponse, FinishResponse, DownloadResponse, serverVars
<1>2. CASE FinishTimer(j)
  <2>1. \/ Enter(j, "Queued")
        \/ UNCHANGED <<state, console>> /\ pc' = [pc EXCEPT ![j] = "http"]
    BY <1>2 DEF FinishTimer
  <2>2. state[j] = "Finishing"
    BY <1>2 DEF FinishTimer, Timed
  <2> QED BY <1>1, <2>1, <2>2, EnterWorks DEF Ran, Active, Pending
<1>3. CASE StreamResponse(j) \/ FinishResponse(j) \/ DownloadResponse(j)
  <2>1. \/ Again(j) \/ Stuck(j) \/ Enter(j, "Finishing") \/ Enter(j, "Downloading")
        \/ Enter(j, "Done") \/ Enter(j, "Killed")
    BY <1>3 DEF StreamResponse, FinishResponse, DownloadResponse
  <2>2. state[j] \in {"Streaming", "Finishing", "Downloading"}
    BY <1>3 DEF StreamResponse, FinishResponse, DownloadResponse
  <2>3. CASE Again(j) \/ Stuck(j)
    BY <1>1, <2>3, EnterWorks DEF Again, Stuck
  <2>4. ASSUME NEW s \in {"Finishing", "Downloading", "Done", "Killed"}, Enter(j, s)
        PROVE  JobsWork /\ Timed' /\ builds' = builds
    BY <1>1, <2>2, <2>4, EnterWorks DEF Ran, Active, Pending
  <2> QED BY <2>1, <2>3, <2>4
<1> QED BY <1>2, <1>3

-----------------------------------------------------------------------------
(* The continuation of a job's initialization, which constructs children.  *)

(* What Continue does: kids are new, other pending jobs start, are given up  *)
(* or start locating.                                                      *)
ChildrenBorn(j, kids) ==
  /\ \A x \in kids : state[x] = "Absent" /\ pc[x] = "none"
  /\ \A x \in kids : state'[x] \in {"New", "Streaming", "Finishing", "Joined", "Cut"}
  /\ \A x \in Job \ kids :
       \/ state'[x] = state[x]
       \/ /\ state[x] \in Pending
          /\ state'[x] \in {"Locating", "Streaming", "Finishing", "Joined", "Cut"}
  /\ pc'[j] \in {"idle", "stuck"}
  /\ \A x \in kids : pc'[x] \in {"ready", "init"}
  /\ \A x \in Job \ (kids \cup {j}) : pc'[x] = pc[x]

LEMMA ContinueBears ==
  ASSUME Typed, Safe, NEW j \in Job, pc[j] \in {"init", "ready"}, Continue(j)
  PROVE  NumbersMove /\ \E kids \in {{}, Children(j)} : ChildrenBorn(j, kids)
<1> USE JobAssumption
<1>1. PICK kids \in {{}, Children(j)}, r \in Tracked :
        /\ Moves(Born(kids), r)
        /\ num' = r.num
        /\ state' = [r.state EXCEPT ![j] =
             IF @ = "New" /\ r.legal THEN "Locating" ELSE @]
        /\ pc' = [x \in Job |->
             CASE x = j -> IF r.legal THEN "idle" ELSE "stuck"
               [] x \in kids /\ x # j ->
                    IF initialized[Ident[x]] THEN "ready" ELSE "init"
               [] OTHER -> pc[x]]
  BY ContinueMoves DEF Typed
<1>2. state[j] # "Absent"
  BY DEF Safe, Constructed
<1>3. \A x \in kids : x \in Job \ {j} /\ state[x] = "Absent" /\ pc[x] = "none"
  BY <1>1, <1>2 DEF Children, Safe, Constructed
<1>4. /\ pc'[j] \in {"idle", "stuck"}
      /\ \A x \in kids : pc'[x] \in {"ready", "init"}
      /\ \A x \in Job \ (kids \cup {j}) : pc'[x] = pc[x]
  BY <1>1, <1>3, Zenon
<1> DEFINE b == Born(kids)
<1>5. /\ b \in Tracked /\ b.num = num /\ b.known = foundCauses
      /\ b.state = [x \in Job |-> IF x \in kids THEN "New" ELSE state[x]]
  BY BornType DEF Typed
<1> HIDE DEF b
<1>6. /\ \A x \in Job : r.state[x] = b.state[x] \/ Moved(b, r, x)
      /\ r.num[Root] = b.num[Root]
      /\ \A x \in Job \ {Root} :
           \/ r.num[x] = b.num[x]
           \/ /\ b.state[x] \in Pending /\ r.state[x] = "Streaming"
              /\ Sourced(b, x, r.num[x])
  BY <1>1 DEF Moves, b
<1>7. r.state \in [Job -> JobState \cup {"Absent"}]
  BY TrackedParts
<1>8. \A x \in kids : state'[x] \in {"New", "Streaming", "Finishing", "Joined", "Cut"}
  BY <1>1, <1>3, <1>5, <1>6, <1>7 DEF Moved
<1>9. \A x \in Job \ kids :
        \/ state'[x] = state[x]
        \/ /\ state[x] \in Pending
           /\ state'[x] \in {"Locating", "Streaming", "Finishing", "Joined", "Cut"}
  BY <1>1, <1>5, <1>6, <1>7 DEF Moved, Pending
<1>10. ChildrenBorn(j, kids)
  BY <1>3, <1>4, <1>8, <1>9 DEF ChildrenBorn
<1>11. ASSUME NEW x \in Job \ {Root}, num'[x] # num[x]
       PROVE  /\ state[x] \in Pending \cup {"Absent"} /\ state'[x] = "Streaming"
              /\ Caused(builds, Ident[x], num'[x], Parent[x], num[Parent[x]])
  <2>1. /\ b.state[x] \in Pending /\ r.state[x] = "Streaming"
        /\ Sourced(b, x, num'[x])
    BY <1>1, <1>5, <1>6, <1>11
  <2>2. state[x] \in Pending \cup {"Absent"} /\ state'[x] = "Streaming"
    BY <1>1, <1>3, <1>5, <1>7, <2>1
  <2>3. foundCauses[Ident[x]] \subseteq DOMAIN builds[Ident[x]]
    BY DEF Typed, FoundExist
  <2>4. Caused(builds, Ident[x], num'[x], Parent[x], num[Parent[x]])
    BY <1>5, <2>1, <2>3 DEF Sourced, Caused, BuildNumber, CauseSet
  <2> QED BY <2>2, <2>4
<1>12. num'[Root] = num[Root]
  BY <1>1, <1>5, <1>6
<1>13. NumbersMove
  BY <1>3, <1>9, <1>11, <1>12 DEF NumbersMove
<1> QED BY <1>1, <1>10, <1>13

LEMMA ContinueKeeps ==
  ASSUME Typed, Safe, NEW j \in Job, pc[j] \in {"init", "ready"},
         Continue(j), UNCHANGED <<console, builds>>
  PROVE  Safe'
<1> USE JobAssumption
<1>1. PICK kids \in {{}, Children(j)} : NumbersMove /\ ChildrenBorn(j, kids)
  BY ContinueBears
<1>2. TrackSound' /\ Unnumbered'
  BY <1>1, MoveKeepsTracks DEF Safe
<1>3. kids \in SUBSET (Job \ {j})
  BY <1>1 DEF Children, ChildrenBorn
<1>4. ASSUME NEW x \in Job, state[x] # "Absent"
      PROVE  /\ state'[x] # "Absent"
             /\ state'[x] \in Active => state[x] \in Active
             /\ state[x] = "Finishing" => state'[x] = "Finishing"
  BY <1>1, <1>3, <1>4 DEF ChildrenBorn, Pending, Active
<1>5. console \in SUBSET Job
  BY DEF Typed, TypeOK
<1>6. OnConsole' /\ ConsoleExclusive'
  BY <1>4, <1>5 DEF Safe, OnConsole, ConsoleExclusive
<1>7. Timed'
  BY <1>1, <1>3, <1>4 DEF Safe, Timed, ChildrenBorn
<1>8. \A x \in Job \ (kids \cup {j}) :
        /\ pc'[x] = pc[x]
        /\ pc[x] = "none" <=> state[x] = "Absent"
        /\ state'[x] = "Absent" <=> state[x] = "Absent"
  BY <1>1 DEF ChildrenBorn, Pending, Safe, Constructed
<1>9. \A x \in Job : pc'[x] = "none" <=> state'[x] = "Absent"
  <2>1. pc'[j] # "none" /\ state'[j] # "Absent"
    BY <1>1, <1>4 DEF ChildrenBorn, Safe, Constructed
  <2>2. \A x \in kids : pc'[x] # "none" /\ state'[x] # "Absent"
    BY <1>1 DEF ChildrenBorn
  <2> QED BY <1>8, <2>1, <2>2
<1>10. ASSUME NEW x \in Job \ {Root}, pc'[Parent[x]] \in {"none", "init", "ready"}
       PROVE  state'[x] = "Absent"
  <2> DEFINE p == Parent[x]
  <2>1. p \in Job /\ p # j
    BY <1>1, <1>10 DEF ChildrenBorn
  <2>2. pc[p] \in {"none", "init", "ready"}
    BY <1>1, <1>10, <2>1 DEF ChildrenBorn
  <2>3. state[x] = "Absent"
    BY <2>2 DEF Safe, Constructed
  <2>4. x \notin kids
    BY <1>1, <2>1 DEF Children
  <2>5. state[j] # "Absent"
    BY DEF Safe, Constructed
  <2> QED BY <1>8, <2>3, <2>4, <2>5
<1>11. Constructed'
  BY <1>9, <1>10 DEF Constructed
<1> QED BY <1>2, <1>6, <1>7, <1>11 DEF Safe

-----------------------------------------------------------------------------
(* The theorems.                                                           *)

(* The steps that change no job; builds may only be added. *)
LEMMA QuietKeeps ==
  ASSUME Typed, Safe, UNCHANGED <<state, num, pc, console>>, BuildsGrow
  PROVE  Safe'
<1> USE JobAssumption
<1>1. \A j \in Job \ {Root} :
        Caused(builds, Ident[j], num[j], Parent[j], num[Parent[j]])
          => Caused(builds', Ident[j], num[j], Parent[j], num[Parent[j]])
  BY DEF Caused, BuildsGrow
<1>2. TrackSound'
  BY <1>1, TrackSoundDef, TrackSoundNext DEF Safe, TracksSoundly
<1>3. Constructed' /\ Unnumbered' /\ OnConsole' /\ Timed' /\ ConsoleExclusive'
  BY DEF Safe, Constructed, Unnumbered, OnConsole, Timed, ConsoleExclusive
<1> QED BY <1>2, <1>3 DEF Safe

LEMMA SafeInit == Init => Safe
<1> SUFFICES ASSUME Init PROVE Safe
  OBVIOUS
<1> USE JobAssumption DEF Init
<1>1. Constructed /\ Unnumbered /\ OnConsole /\ Timed
  BY DEF Constructed, Unnumbered, OnConsole, Timed
<1>2. TrackSound
  BY TrackSoundDef DEF TracksSoundly
<1>3. ConsoleExclusive
  BY DEF ConsoleExclusive
<1> QED BY <1>1, <1>2, <1>3 DEF Safe

LEMMA JobStepKeeps ==
  ASSUME Typed, Safe, NEW j \in Job, JobStep(j)
  PROVE  Safe'
<1>1. CASE JobInitResponse(j)
  <2>1. pc[j] = "init" /\ builds' = builds
    BY <1>1 DEF JobInitResponse, serverVars
  <2>2. CASE Continue(j) /\ UNCHANGED console
    BY <2>1, <2>2, ContinueKeeps
  <2>3. CASE UNCHANGED num /\ (Again(j) \/ Stuck(j))
    <3>1. JobsWork /\ Timed' /\ builds' = builds
      BY <2>1, <2>3, EnterWorks DEF Again, Stuck, Safe
    <3> QED BY <3>1, WorkKeeps
  <2> QED BY <1>1, <2>2, <2>3 DEF JobInitResponse
<1>2. CASE JobInitReady(j)
  <2>1. /\ pc[j] = "ready" /\ Continue(j) /\ UNCHANGED <<console, builds>>
    BY <1>2 DEF JobInitReady, serverVars
  <2> QED BY <2>1, ContinueKeeps
<1>3. CASE FinishTimer(j) \/ StreamResponse(j) \/ FinishResponse(j)
             \/ DownloadResponse(j)
  <2>1. JobsWork /\ Timed' /\ builds' = builds
    BY <1>3, CallbacksWork DEF Safe
  <2> QED BY <2>1, WorkKeeps
<1> QED BY <1>1, <1>2, <1>3 DEF JobStep

LEMMA SearchStepKeeps ==
  ASSUME Typed, Safe, NEW id \in Id, SearchStep(id)
  PROVE  Safe'
<1>1. CASE CtorResponse(id) \/ SearchTimer(id) \/ ResolveDone(id)
  <2>1. UNCHANGED <<state, num, pc, console, builds>>
    BY <1>1 DEF CtorResponse, SearchTimer, ResolveDone, trackVars, serverVars
  <2> QED BY <2>1, QuietKeeps DEF BuildsGrow
<1>2. CASE ResolveOne(id)
  BY <1>2, ResolveMoves, MoveKeeps
<1>3. CASE LocateResponse(id)
  BY <1>3, LocateMoves, MoveKeeps
<1> QED BY <1>1, <1>2, <1>3 DEF SearchStep

LEMMA SafeNext ==
  ASSUME Typed, Safe, [Next]_vars
  PROVE  Safe'
<1>1. CASE Tick
  <2>1. JobsWork /\ Timed' /\ builds' = builds
    BY <1>1, TickWorks DEF Safe
  <2> QED BY <2>1, WorkKeeps
<1>2. CASE ReportStep
  <2>1. UNCHANGED <<state, num, pc, console, builds>>
    BY <1>2 DEF ReportStep, AskPipelineResponse, DescribeResponse, WriteResult, Exit,
                trackVars, serverVars
  <2> QED BY <2>1, QuietKeeps DEF BuildsGrow
<1>3. CASE Jenkins
  <2>1. UNCHANGED <<state, num, pc, console>>
    BY <1>3 DEF Jenkins, trackVars
  <2>2. BuildsGrow
    BY <1>3, ServerStepType DEF Jenkins, Typed, TypeOK
  <2> QED BY <2>1, <2>2, QuietKeeps
<1>4. CASE UNCHANGED vars
  <2>1. UNCHANGED <<state, num, pc, console, builds>>
    BY <1>4 DEF vars, trackVars, serverVars
  <2> QED BY <2>1, QuietKeeps DEF BuildsGrow
<1> QED BY <1>1, <1>2, <1>3, <1>4, JobStepKeeps, SearchStepKeeps DEF Next, TaskStep

LEMMA AlwaysSafe == Spec => []Safe
<1>1. Init => Safe
  BY SafeInit
<1>2. Typed /\ Safe /\ [Next]_vars => Safe'
  BY SafeNext
<1> QED BY <1>1, <1>2, AlwaysTyped, PTL DEF Spec

(* In every behaviour a job that has a build number follows a build which the *)
(* build of its parent started: JobSearch matches identifier and number of   *)
(* the causes, so a build of the same project that somebody else started, or *)
(* that another run of the pipeline started, is never taken for the job's.  *)
THEOREM TracksSound == Spec => []TrackSound
<1>1. Safe => TrackSound
  BY DEF Safe
<1> QED BY <1>1, AlwaysSafe, PTL

(* In every behaviour at most one active job writes to the console, although *)
(* FlushJobConsolesSafely runs in the tick and in every callback that ends a *)
(* job, and any number of jobs stream at the same time.                     *)
THEOREM ConsoleNeverInterleaved == Spec => []ConsoleExclusive
<1>1. Safe => ConsoleExclusive
  BY DEF Safe
<1> QED BY <1>1, AlwaysSafe, PTL
=============================================================================
