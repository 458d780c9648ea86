------------------------ MODULE JenkinsQueueTracking ------------------------
(***************************************************************************)
(* Proofs about how the jobs of a pipeline share its builds: CutBelow,     *)
(* OneFollower and JoinSound, for every pipeline, every server history and *)
(* every number of failed requests, as long as no state check has thrown.   *)
(***************************************************************************)
EXTENDS JenkinsQueueProofs

-----------------------------------------------------------------------------
(* The tree.                                                               *)

(* Ancestors is defined by its recursion: the least relation that takes a   *)
(* job to its parent, and to what it takes its parent to, satisfies it.     *)
LEMMA AncestorsDef ==
  /\ Ancestors[Root] = {}
  /\ \A j \in Job \ {Root} : Ancestors[j] = {Parent[j]} \cup Ancestors[Parent[j]]
<1> USE JobAssumption
<1> DEFINE Closed(R) == \A j \in Job \ {Root} :
                          /\ <<j, Parent[j]>> \in R
                          /\ \A p \in Job : <<Parent[j], p>> \in R => <<j, p>> \in R
           A == [j \in Job |-> {p \in Job : \A R \in SUBSET (Job \X Job) :
                                              Closed(R) => <<j, p>> \in R}]
           Step(f) == [j \in Job |-> IF j = Root THEN {}
                                     ELSE {Parent[j]} \cup f[Parent[j]]]
<1>1. \A j \in Job \ {Root} : Parent[j] \in Job
  OBVIOUS
<1>2. A[Root] = {}
  <2> DEFINE R == {pair \in Job \X Job : pair[1] # Root}
  <2>1. \A j, p \in Job : <<j, p>> \in R <=> j # Root
    OBVIOUS
  <2>2. Closed(R)
    <3> HIDE DEF R
    <3> QED BY <1>1, <2>1
  <2>3. \A p \in Job : <<Root, p>> \notin R
    <3> HIDE DEF R
    <3> QED BY <2>1
  <2>4. R \in SUBSET (Job \X Job)
    OBVIOUS
  <2> HIDE DEF R, Closed
  <2> QED BY <2>2, <2>3, <2>4
<1>3. ASSUME NEW j \in Job \ {Root}
      PROVE  A[j] = {Parent[j]} \cup A[Parent[j]]
  <2> DEFINE q == Parent[j]
  <2>1. q \in Job
    BY <1>1
  <2>2. q \in A[j]
    BY <2>1
  <2>3. A[q] \subseteq A[j]
    <3> SUFFICES ASSUME NEW p \in A[q], NEW R \in SUBSET (Job \X Job), Closed(R)
                 PROVE  p \in Job /\ <<j, p>> \in R
      OBVIOUS
    <3>1. p \in Job /\ <<q, p>> \in R
      <4> HIDE DEF Closed
      <4> QED BY <2>1
    <3> QED BY <3>1
  <2>4. ASSUME NEW p \in A[j], p # q
        PROVE  p \in A[q]
    <3> SUFFICES ASSUME NEW R \in SUBSET (Job \X Job), Closed(R), <<q, p>> \notin R
                 PROVE  FALSE
      <4> HIDE DEF Closed
      <4> QED BY <2>1
    <3> DEFINE S == R \ {<<j, p>>}
    <3>1. \A i \in Job \ {Root} :
            /\ <<i, Parent[i]>> \in S
            /\ \A k \in Job : <<Parent[i], k>> \in S => <<i, k>> \in S
      <4> SUFFICES ASSUME NEW i \in Job \ {Root}
                   PROVE  /\ <<i, Parent[i]>> \in S
                          /\ \A k \in Job : <<Parent[i], k>> \in S => <<i, k>> \in S
        OBVIOUS
      <4>1. CASE i = j
        BY <2>4, <4>1
      <4>2. CASE i # j
        BY <4>2
      <4> QED BY <4>1, <4>2
    <3>2. <<j, p>> \in S
      <4>1. S \in SUBSET (Job \X Job)
        OBVIOUS
      <4>2. Closed(S)
        BY <3>1
      <4> HIDE DEF S, Closed
      <4> QED BY <4>1, <4>2
    <3> QED BY <3>2
  <2> HIDE DEF A
  <2> QED BY <2>2, <2>3, <2>4
<1>4. A = Step(A)
  <2>1. \A j \in Job : A[j] = Step(A)[j]
    <3> HIDE DEF A
    <3> QED BY <1>2, <1>3
  <2>2. A = [j \in Job |-> A[j]]
    OBVIOUS
  <2>3. Step(A) = [j \in Job |-> Step(A)[j]]
    OBVIOUS
  <2> HIDE DEF A, Step
  <2> QED BY <2>1, <2>2, <2>3
<1>5. Ancestors = CHOOSE f : f = Step(f)
  BY Zenon DEF Ancestors
<1>6. Ancestors = Step(Ancestors)
  <2> HIDE DEF A, Step
  <2> QED BY <1>4, <1>5
<1> QED BY <1>6
-----------------------------------------------------------------------------
(* The inductive invariant, of a tracking state t and a build history b.   *)

(* The states of a job that was started. *)
Launched == Ran \cup {"Killed"}

Rooted(t) == t.state[Root] \notin {"Absent"} \cup GivenUp

(* A job is started or joined only under a job that was started, and cut    *)
(* only under one that was given up.                                       *)
Nested(t) ==
  \A j \in Job \ {Root} :
    LET s == t.state[j]
        p == t.state[Parent[j]]
    IN /\ p = "Absent" => s = "Absent"
       /\ p \in GivenUp => s \in {"Absent", "New", "Cut"}
       /\ s = "Cut" => p \in GivenUp
       /\ s \in Launched \cup {"Joined"} => p \in Launched

(* Only a started job has a number, that of a build its parent's started. *)
Numbered(b, t) ==
  \A j \in Job \ {Root} :
    /\ t.state[j] \notin Launched => t.num[j] = -1
    /\ t.num[j] # -1
         => Caused(b, Ident[j], t.num[j], Parent[j], t.num[Parent[j]])

OneEach(t) ==
  \A i, j \in Job : /\ i # j /\ Ident[i] = Ident[j] /\ t.num[i] # -1
                    => t.num[i] # t.num[j]

(* Build n of their project is caused by the builds of both jobs' parents. *)
Shared(b, t, j, m, n) ==
  /\ Caused(b, Ident[j], n, Parent[j], t.num[Parent[j]])
  /\ Caused(b, Ident[j], n, Parent[m], t.num[Parent[m]])

(* Job j may be joined to m. *)
Joinable(b, t, j, m) ==
  /\ m \in Job \ {j} /\ Ident[m] = Ident[j]
  /\ t.state[m] \notin {"Absent", "Cut"} /\ t.state[Parent[m]] \in Launched
  /\ \E n \in t.known[Ident[j]] :
       Shared(b, t, j, m, n) /\ t.num[m] \in {-1, n}

JoinsShare(b, t) ==
  \A j \in Job : t.state[j] = "Joined" => Joinable(b, t, j, t.joined[j])

(* The pointers of joined jobs make no circle. *)
JoinsEnd(t) ==
  \A S \in SUBSET Job : S # {} /\ (\A j \in S : t.state[j] = "Joined")
                          => \E j \in S : t.joined[j] \notin S

(* All of this holds also between the steps of a callback. *)
Arranged(b, t) ==
  Rooted(t) /\ Nested(t) /\ Numbered(b, t) /\ JoinsShare(b, t) /\ JoinsEnd(t)

Placed(b, t) == Arranged(b, t) /\ OneEach(t)

(* A cause is a build that ended, it is either queued or in one build, and   *)
(* the root build exists.                                                  *)
Ended(b, c) == c[2] \in DOMAIN b[c[1]] /\ b[c[1]][c[2]].result # "none"

CausedOnce(b) ==
  \A id \in Id : \A n, k \in DOMAIN b[id] :
    \A i \in DOMAIN b[id][n].causes, l \in DOMAIN b[id][k].causes :
      b[id][n].causes[i] = b[id][k].causes[l] => n = k

Triggered(b, q) ==
  /\ CausedOnce(b)
  /\ \A id \in Id : \A n \in DOMAIN b[id] : \A i \in DOMAIN b[id][n].causes :
       /\ Ended(b, b[id][n].causes[i])
       /\ \A l \in DOMAIN q[id] : q[id][l] # b[id][n].causes[i]
  /\ \A id \in Id : \A l \in DOMAIN q[id] : Ended(b, q[id][l])
  /\ RootNumber \in DOMAIN b[RootId]

-----------------------------------------------------------------------------
(* What the operators on tracking states do, in terms of the parts.        *)

(* The same parts satisfy the same invariant. *)
LEMMA SameParts ==
  ASSUME NEW b, NEW t, NEW r, r.state = t.state, r.num = t.num,
         r.joined = t.joined, r.known = t.known, Arranged(b, t)
  PROVE  Arranged(b, r) /\ (OneEach(t) => OneEach(r))
BY DEF Arranged, Rooted, Nested, Numbered, OneEach, JoinsShare, Joinable, Shared,
       JoinsEnd

(* A job is in the way of SetJoined of the jobs in S if it is below one. *)
Beneath(S, x) == S \cap Ancestors[x] # {}

LEMMA BeneathParent ==
  ASSUME NEW S \in SUBSET Job, NEW x \in Job
  PROVE  /\ x = Root => ~Beneath(S, x)
         /\ x # Root => (Beneath(S, x) <=> Parent[x] \in S \/ Beneath(S, Parent[x]))
BY AncestorsDef, JobAssumption DEF Beneath

(* r is t with all jobs of S joined to m and the jobs below them cut, as the  *)
(* checks allow.                                                           *)
JoinsInto(t, S, m, r) ==
  /\ r \in Tracked /\ r.num = t.num /\ r.known = t.known
  /\ r.state = [x \in Job |->
       IF x \in S THEN "Joined"
       ELSE IF t.state[x] # "Absent" /\ Beneath(S, x) THEN "Cut" ELSE t.state[x]]
  /\ r.joined = [x \in Job |-> IF x \in S THEN m ELSE t.joined[x]]
  /\ t.legal
  /\ S # {} => t.state[m] \notin GivenUp
  /\ \A x \in S : CheckStateTransition(t.state[x], "Joined") /\ t.state[x] \in Pending
  /\ \A x \in Job : t.state[x] # "Absent" /\ Beneath(S, x) => t.state[x] \in Pending

LEMMA JoinedToIs ==
  ASSUME NEW t \in Tracked, NEW S \in SUBSET Job, NEW m \in Job,
         JoinedTo(t, S, m).legal
  PROVE  JoinsInto(t, S, m, JoinedTo(t, S, m))
<1> DEFINE r == JoinedTo(t, S, m)
           joins == {x \in S : CheckStateTransition(t.state[x], "Joined")}
           below == {d \in Job : t.state[d] # "Absent" /\ joins \cap Ancestors[d] # {}}
           cut == {d \in below : /\ t.state[m] \notin GivenUp
                                 /\ CheckStateTransition(t.state[d], "Cut")}
           s == [x \in Job |-> IF x \in joins THEN "Joined"
                               ELSE IF x \in cut THEN "Cut" ELSE t.state[x]]
           q == [x \in Job |-> IF x \in S THEN m ELSE t.joined[x]]
           ok == /\ t.legal
                 /\ S # {} => t.state[m] \notin GivenUp
                 /\ joins = S /\ cut = below
<1>1. s \in [Job -> JobState \cup {"Absent"}]
  BY DEF Tracked, JobState
<1>2. q \in [Job -> Job \cup {NoJob}]
  BY DEF Tracked
<1>3. r = Track(s, t.num, q, t.known, ok)
  BY Zenon DEF JoinedTo
<1>4. ok \in BOOLEAN
  BY Zenon
<1>5. /\ r \in Tracked /\ r.state = s /\ r.num = t.num /\ r.joined = q
      /\ r.known = t.known /\ r.legal = ok
  <2> HIDE DEF r, s, q, ok
  <2> QED BY <1>1, <1>2, <1>3, <1>4, TrackType, TrackedParts
<1>6. ok
  <2> HIDE DEF ok, r, s, q
  <2> QED BY <1>5 DEF r
<1>7. \A x \in S : /\ CheckStateTransition(t.state[x], "Joined")
                   /\ t.state[x] \in Pending
  BY <1>6, FromPending
<1>8. \A x \in Job : x \in cut <=> t.state[x] # "Absent" /\ Beneath(S, x)
  BY <1>6 DEF Beneath
<1>9. \A x \in cut : t.state[x] \in Pending
  BY FromPending
<1>10. s = [x \in Job |-> IF x \in S THEN "Joined"
                          ELSE IF t.state[x] # "Absent" /\ Beneath(S, x) THEN "Cut"
                          ELSE t.state[x]]
  BY <1>6, <1>8
<1>11. t.legal /\ (S # {} => t.state[m] \notin GivenUp)
  BY <1>6
<1> HIDE DEF r, s, ok, joins, below, cut
<1> QED BY <1>5, <1>7, <1>8, <1>9, <1>10, <1>11 DEF r, JoinsInto

LEMMA JoinedOneIs ==
  ASSUME NEW t \in Tracked, NEW S \in SUBSET Job, NEW j \in S, NEW m \in Job,
         JoinedTo(t, S, m).legal
  PROVE  /\ JoinedTo(t, S, m).num = t.num
         /\ JoinedTo(t, S, m).state[j] = "Joined"
<1> DEFINE r == JoinedTo(t, S, m)
<1>1. JoinsInto(t, S, m, r)
  BY JoinedToIs
<1> HIDE DEF r
<1> QED BY <1>1 DEF JoinsInto, r

LEMMA CutTreeIs ==
  ASSUME NEW t \in Tracked, NEW j \in Job, CutTree(t, j).legal
  PROVE  LET r == CutTree(t, j)
             cut(x) == t.state[x] # "Absent" /\ (x = j \/ Beneath({j}, x))
         IN /\ r \in Tracked /\ r.num = t.num /\ r.known = t.known
            /\ r.joined = t.joined
            /\ r.state = [x \in Job |-> IF cut(x) THEN "Cut" ELSE t.state[x]]
            /\ t.legal /\ \A x \in Job : cut(x) => t.state[x] \in Pending
<1> DEFINE r == CutTree(t, j)
           below == {d \in Job : t.state[d] # "Absent" /\ j \in Ancestors[d] \cup {d}}
           cut == {d \in below : CheckStateTransition(t.state[d], "Cut")}
           s == [x \in Job |-> IF x \in cut THEN "Cut" ELSE t.state[x]]
           ok == t.legal /\ cut = below
<1>1. s \in [Job -> JobState \cup {"Absent"}]
  BY DEF Tracked, JobState
<1>2. r = Track(s, t.num, t.joined, t.known, ok)
  BY Zenon DEF CutTree
<1>3. ok \in BOOLEAN
  BY Zenon
<1>4. /\ r \in Tracked /\ r.state = s /\ r.num = t.num
      /\ r.joined = t.joined /\ r.known = t.known /\ r.legal = ok
  <2>1. /\ t.num \in [Job -> Nat \cup {-1}] /\ t.known \in [Id -> SUBSET Nat]
        /\ t.joined \in [Job -> Job \cup {NoJob}]
    BY TrackedParts
  <2> HIDE DEF r, s, ok
  <2> QED BY <1>1, <1>2, <1>3, <2>1, TrackType
<1>5. ok
  <2> HIDE DEF ok, r, s
  <2> QED BY <1>4 DEF r
<1>6. \A x \in Job :
        x \in cut <=> t.state[x] # "Absent" /\ (x = j \/ Beneath({j}, x))
  BY <1>5 DEF Beneath
<1>7. t.legal /\ \A x \in cut : t.state[x] \in Pending
  BY <1>5, FromPending
<1> HIDE DEF r, cut, below, ok
<1> QED BY <1>4, <1>6, <1>7 DEF r

(* SetJoined keeps the invariant where a job of S may be joined to m.       *)
LEMMA JoinedToArranged ==
  ASSUME NEW b, NEW t \in Tracked, Arranged(b, t),
         NEW S \in SUBSET (Job \ {Root}), NEW m \in Job \ S,
         \A x \in S : t.state[Parent[x]] \in Launched /\ Joinable(b, t, x, m),
         JoinedTo(t, S, m).legal
  PROVE  Arranged(b, JoinedTo(t, S, m))
<1> USE JobAssumption
<1> DEFINE r == JoinedTo(t, S, m)
           a == t.state
           e == r.state
<1>1. /\ r \in Tracked /\ r.num = t.num /\ r.known = t.known
      /\ e = [x \in Job |->
           IF x \in S THEN "Joined"
           ELSE IF a[x] # "Absent" /\ Beneath(S, x) THEN "Cut" ELSE a[x]]
      /\ r.joined = [x \in Job |-> IF x \in S THEN m ELSE t.joined[x]]
      /\ S # {} => a[m] \notin GivenUp
      /\ \A x \in S : a[x] \in Pending
      /\ \A x \in Job : a[x] # "Absent" /\ Beneath(S, x) => a[x] \in Pending
  BY JoinedToIs DEF JoinsInto
<1> HIDE DEF r
<1>2. /\ Rooted(t) /\ Nested(t) /\ Numbered(b, t)
      /\ JoinsShare(b, t) /\ JoinsEnd(t)
  BY DEF Arranged
<1>3. \A x \in Job \ {Root} : Parent[x] \in Job
  OBVIOUS
<1>4. /\ ~Beneath(S, Root)
      /\ \A x \in Job \ {Root} :
           Beneath(S, x) <=> Parent[x] \in S \/ Beneath(S, Parent[x])
  BY BeneathParent
<1> HIDE DEF a, e
<1>5. \A x \in Job : a[x] \in Launched => e[x] = a[x] /\ ~Beneath(S, x)
  BY <1>1 DEF Launched, Ran, Pending
<1>6. \A x \in Job \ {Root} : a[Parent[x]] \in Launched => ~Beneath(S, x)
  BY <1>1, <1>3, <1>4, <1>5 DEF Launched, Ran, Pending
<1>7. \A x \in S : a[Parent[x]] \in Launched /\ ~Beneath(S, x)
  BY <1>6 DEF a
<1>8. Rooted(r)
  BY <1>1, <1>2, <1>4 DEF Rooted, a, e
<1>9. Nested(r)
  <2> SUFFICES ASSUME NEW j \in Job \ {Root}
               PROVE  LET p == Parent[j]
                      IN /\ e[p] = "Absent" => e[j] = "Absent"
                         /\ e[p] \in GivenUp => e[j] \in {"Absent", "New", "Cut"}
                         /\ e[j] = "Cut" => e[p] \in GivenUp
                         /\ e[j] \in Launched \cup {"Joined"} => e[p] \in Launched
    BY DEF Nested, e
  <2> DEFINE p == Parent[j]
  <2>1. p \in Job
    BY <1>3
  <2>2. /\ a[p] = "Absent" => a[j] = "Absent"
        /\ a[p] \in GivenUp => a[j] \in {"Absent", "New", "Cut"}
        /\ a[j] = "Cut" => a[p] \in GivenUp
        /\ a[j] \in Launched \cup {"Joined"} => a[p] \in Launched
    BY <1>2 DEF Nested, a
  <2> HIDE DEF p
  <2>3. Beneath(S, j) <=> p \in S \/ Beneath(S, p)
    BY <1>4 DEF p
  <2>4. j \in S => a[p] \in Launched /\ ~Beneath(S, j)
    BY <1>7 DEF p
  <2>5. CASE j \in S
    <3>1. e[j] = "Joined" /\ e[p] \in Launched
      BY <1>1, <1>5, <2>1, <2>4, <2>5
    <3> QED BY <3>1 DEF Launched, Ran, GivenUp, p
  <2>6. CASE j \notin S /\ Beneath(S, j)
    <3>1. e[j] \in {"Absent", "Cut"} /\ (e[j] = "Cut" => a[j] # "Absent")
      BY <1>1, <2>6
    <3>2. a[j] # "Absent" => e[p] \in GivenUp
      BY <1>1, <2>1, <2>2, <2>3, <2>6 DEF GivenUp
    <3>3. e[p] = "Absent" => a[p] = "Absent"
      BY <1>1, <2>1
    <3> QED BY <1>1, <2>2, <2>6, <3>1, <3>2, <3>3 DEF Launched, Ran, GivenUp, p
  <2>7. CASE j \notin S /\ ~Beneath(S, j)
    <3>1. e[j] = a[j] /\ e[p] = a[p]
      BY <1>1, <2>1, <2>3, <2>7
    <3> QED BY <2>2, <3>1 DEF p
  <2> QED BY <2>5, <2>6, <2>7
<1>10. Numbered(b, r)
  <2>1. \A j \in Job : e[j] \notin Launched => a[j] \notin Launched
    BY <1>5
  <2> QED BY <1>1, <1>2, <2>1 DEF Numbered, a, e
<1>11. JoinsShare(b, r)
  <2>1. ASSUME NEW j \in Job, NEW k, Joinable(b, t, j, k),
               a[k] \notin GivenUp \/ k \notin S, k # Root
        PROVE  Joinable(b, r, j, k)
    <3>1. /\ k \in Job /\ a[k] \notin {"Absent", "Cut"} /\ a[Parent[k]] \in Launched
      BY <2>1 DEF Joinable, a
    <3>2. e[k] \in {a[k], "Joined"} /\ e[Parent[k]] \in Launched
      BY <1>1, <1>3, <1>5, <1>6, <2>1, <3>1
    <3>3. e[k] \notin {"Absent", "Cut"}
      BY <3>1, <3>2
    <3> QED BY <1>1, <2>1, <3>2, <3>3 DEF Joinable, Shared, e
  <2> SUFFICES ASSUME NEW j \in Job, e[j] = "Joined"
               PROVE  Joinable(b, r, j, r.joined[j])
    BY DEF JoinsShare, e
  <2>2. j # Root
    BY <1>8 DEF Rooted, e, GivenUp
  <2>3. CASE j \in S
    <3>1. r.joined[j] = m /\ Joinable(b, t, j, m) /\ a[m] \notin GivenUp
      BY <1>1, <2>3
    <3>2. m # Root
      BY <2>2, <3>1 DEF Joinable
    <3> QED BY <2>1, <3>1, <3>2
  <2>4. CASE j \notin S
    <3>1. a[j] = "Joined" /\ r.joined[j] = t.joined[j]
      BY <1>1, <2>4
    <3>2. Joinable(b, t, j, t.joined[j])
      BY <1>2, <3>1 DEF JoinsShare, a
    <3>3. t.joined[j] # Root
      BY <2>2, <3>2 DEF Joinable
    <3>4. CASE t.joined[j] \notin S
      BY <2>1, <3>1, <3>2, <3>3, <3>4
    <3>5. CASE t.joined[j] \in S
      <4>1. a[t.joined[j]] \notin GivenUp
        BY <1>1, <3>5 DEF Pending, GivenUp
      <4> QED BY <2>1, <3>1, <3>2, <3>3, <4>1
    <3> QED BY <3>4, <3>5
  <2> QED BY <2>3, <2>4
<1>12. JoinsEnd(r)
  <2> SUFFICES ASSUME NEW R \in SUBSET Job, R # {}, \A j \in R : e[j] = "Joined"
               PROVE  \E j \in R : r.joined[j] \notin R
    BY DEF JoinsEnd, e
  <2>1. CASE R \cap S # {}
    <3>1. PICK x \in R \cap S : TRUE
      BY <2>1
    <3>2. r.joined[x] = m /\ a[m] # "Joined"
      BY <1>1, <3>1 DEF GivenUp
    <3>3. e[m] # "Joined"
      BY <1>1, <3>2
    <3> QED BY <3>1, <3>2, <3>3
  <2>2. CASE R \cap S = {}
    <3>1. \A j \in R : a[j] = "Joined" /\ r.joined[j] = t.joined[j]
      BY <1>1, <2>2
    <3> QED BY <1>2, <3>1 DEF JoinsEnd, a
  <2> QED BY <2>1, <2>2
<1> QED BY <1>8, <1>9, <1>10, <1>11, <1>12 DEF Arranged, r

(* Job.Cut keeps it below a job that was given up. *)
LEMMA CutTreeArranged ==
  ASSUME NEW b, NEW t \in Tracked, Arranged(b, t), NEW j \in Job \ {Root},
         t.state[Parent[j]] \in GivenUp, CutTree(t, j).legal
  PROVE  Arranged(b, CutTree(t, j))
<1> USE JobAssumption
<1> DEFINE r == CutTree(t, j)
           a == t.state
           e == r.state
           below(x) == Beneath({j}, x)
<1>1. /\ r \in Tracked /\ r.num = t.num /\ r.known = t.known /\ r.joined = t.joined
      /\ e = [x \in Job |-> IF a[x] # "Absent" /\ (x = j \/ below(x)) THEN "Cut"
                            ELSE a[x]]
      /\ \A x \in Job : a[x] # "Absent" /\ (x = j \/ below(x)) => a[x] \in Pending
  BY CutTreeIs
<1>2. /\ Rooted(t) /\ Nested(t) /\ Numbered(b, t)
      /\ JoinsShare(b, t) /\ JoinsEnd(t)
  BY DEF Arranged
<1>3. \A x \in Job \ {Root} : Parent[x] \in Job
  OBVIOUS
<1>4. /\ ~below(Root)
      /\ \A x \in Job \ {Root} : below(x) <=> Parent[x] = j \/ below(Parent[x])
  BY BeneathParent
<1>5. a[Parent[j]] \in GivenUp
  OBVIOUS
<1> HIDE DEF r, a, e, below
<1>6. /\ \A x \in Job : a[x] \in Launched \cup GivenUp => e[x] = a[x]
      /\ \A x \in Job : e[x] = a[x] \/ (a[x] \in Pending /\ e[x] = "Cut")
  BY <1>1 DEF Launched, Ran, Pending, GivenUp
<1>7. \A x \in Job \ {Root} : a[Parent[x]] \in Launched => ~below(x) /\ x # j
  <2> SUFFICES ASSUME NEW x \in Job \ {Root}, a[Parent[x]] \in Launched
               PROVE  ~below(x) /\ x # j
    OBVIOUS
  <2>1. a[Parent[x]] \notin Pending \cup {"Absent"} \cup GivenUp
    BY DEF Launched, Ran, Pending, GivenUp
  <2> QED BY <1>1, <1>3, <1>4, <1>5, <2>1
<1>8. Rooted(r)
  BY <1>1, <1>2, <1>4 DEF Rooted, a, e
<1>9. Nested(r)
  <2> SUFFICES ASSUME NEW x \in Job \ {Root}
               PROVE  LET p == Parent[x]
                      IN /\ e[p] = "Absent" => e[x] = "Absent"
                         /\ e[p] \in GivenUp => e[x] \in {"Absent", "New", "Cut"}
                         /\ e[x] = "Cut" => e[p] \in GivenUp
                         /\ e[x] \in Launched \cup {"Joined"} => e[p] \in Launched
    BY DEF Nested, e
  <2> DEFINE p == Parent[x]
  <2>1. p \in Job
    BY <1>3
  <2>2. /\ a[p] = "Absent" => a[x] = "Absent"
        /\ a[p] \in GivenUp => a[x] \in {"Absent", "New", "Cut"}
        /\ a[x] = "Cut" => a[p] \in GivenUp
        /\ a[x] \in Launched \cup {"Joined"} => a[p] \in Launched
    BY <1>2 DEF Nested, a
  <2>3. /\ below(x) <=> p = j \/ below(p)
        /\ x = j => a[p] \in GivenUp
    BY <1>4, <1>5
  <2> HIDE DEF p
  <2>4. e[p] = "Absent" => e[x] = "Absent"
    BY <1>1, <1>6, <2>1, <2>2 DEF Pending
  <2>5. e[p] \in GivenUp => e[x] \in {"Absent", "New", "Cut"}
    <3>1. CASE a[p] \in GivenUp
      BY <1>6, <2>1, <2>2, <3>1
    <3>2. CASE a[p] \notin GivenUp
      BY <1>1, <2>1, <2>3, <3>2
    <3> QED BY <3>1, <3>2
  <2>6. e[x] = "Cut" => e[p] \in GivenUp
    BY <1>1, <1>6, <2>1, <2>2, <2>3 DEF GivenUp
  <2>7. e[x] \in Launched \cup {"Joined"} => e[p] \in Launched
    BY <1>6, <2>1, <2>2 DEF Launched, Ran, GivenUp
  <2> QED BY <2>4, <2>5, <2>6, <2>7 DEF p
<1>10. Numbered(b, r)
  <2>1. \A x \in Job : e[x] \notin Launched => a[x] \notin Launched
    BY <1>6
  <2> QED BY <1>1, <1>2, <2>1 DEF Numbered, a, e
<1>11. JoinsShare(b, r)
  <2> SUFFICES ASSUME NEW x \in Job, e[x] = "Joined"
               PROVE  Joinable(b, r, x, t.joined[x])
    BY <1>1 DEF JoinsShare, e
  <2> DEFINE m == t.joined[x]
  <2>1. x # Root /\ a[x] = "Joined"
    BY <1>6, <1>8 DEF Rooted, e, GivenUp
  <2>2. Joinable(b, t, x, m)
    BY <1>2, <2>1 DEF JoinsShare, a
  <2> HIDE DEF m
  <2>3. m \in Job \ {Root} /\ a[m] \notin {"Absent", "Cut"} /\ a[Parent[m]] \in Launched
    BY <2>1, <2>2 DEF Joinable, a
  <2>4. e[m] = a[m] /\ e[Parent[m]] \in Launched
    BY <1>1, <1>3, <1>6, <1>7, <2>3
  <2> QED BY <1>1, <2>2, <2>3, <2>4 DEF Joinable, Shared, e, m
<1>12. JoinsEnd(r)
  <2> SUFFICES ASSUME NEW R \in SUBSET Job, R # {}, \A x \in R : e[x] = "Joined"
               PROVE  \E x \in R : r.joined[x] \notin R
    BY DEF JoinsEnd, e
  <2>1. \A x \in R : a[x] = "Joined"
    BY <1>6
  <2> QED BY <1>1, <1>2, <2>1 DEF JoinsEnd, a
<1> QED BY <1>8, <1>9, <1>10, <1>11, <1>12 DEF Arranged, r

(* Starting a job keeps it if its parent was started and its number is right. *)
LEMMA StartedArranged ==
  ASSUME NEW b, CausedOnce(b), NEW t \in Tracked, Arranged(b, t), NEW j \in Job,
         NEW s \in {"Streaming", "Finishing"}, NEW n \in Nat \cup {-1},
         j # Root => t.state[Parent[j]] \in Launched,
         j # Root /\ n # -1 => Caused(b, Ident[j], n, Parent[j], t.num[Parent[j]]),
         j = Root => n = t.num[Root],
         t.state[j] \in Pending
  PROVE  Arranged(b, Started(t, j, s, n))
<1> USE JobAssumption
<1> DEFINE r == Started(t, j, s, n)
           a == t.state
           e == r.state
<1>1. /\ r \in Tracked /\ r.known = t.known
      /\ e = [a EXCEPT ![j] = s]
      /\ r.num = [t.num EXCEPT ![j] = n]
      /\ a[j] \in Pending
  <2>1. r \in Tracked
    BY StartedType, Zenon
  <2>2. e = [a EXCEPT ![j] = s] /\ r.num = [t.num EXCEPT ![j] = n] /\ r.known = t.known
    BY DEF Started, Track
  <2>3. a[j] \in Pending
    OBVIOUS
  <2> HIDE DEF r, a, e
  <2> QED BY <2>1, <2>2, <2>3
<1>2. r.joined = t.joined
  BY DEF Started, Track
<1>3. /\ Rooted(t) /\ Nested(t) /\ Numbered(b, t)
      /\ JoinsShare(b, t) /\ JoinsEnd(t)
  BY DEF Arranged
<1>4. \A x \in Job \ {Root} : Parent[x] \in Job
  OBVIOUS
<1>5. j # Root => a[Parent[j]] \in Launched
  OBVIOUS
<1> HIDE DEF r, a, e
<1>6. /\ e[j] = s /\ r.num[j] = n
      /\ \A x \in Job \ {j} : e[x] = a[x] /\ r.num[x] = t.num[x]
      /\ \A x \in Job : a[x] \in Launched => x # j
  BY <1>1, TrackedParts DEF a, Launched, Ran, Pending
<1>7. s \in Launched /\ s # "Absent" /\ s # "New" /\ s \notin GivenUp
  BY DEF Launched, Ran, GivenUp
<1>8. a[j] \notin {"Absent"} \cup GivenUp \cup Launched
  BY <1>1 DEF Pending, GivenUp, Launched, Ran
<1>9. Rooted(r)
  BY <1>3, <1>6, <1>7 DEF Rooted, a, e
<1>10. Nested(r)
  <2> SUFFICES ASSUME NEW x \in Job \ {Root}
               PROVE  LET p == Parent[x]
                      IN /\ e[p] = "Absent" => e[x] = "Absent"
                         /\ e[p] \in GivenUp => e[x] \in {"Absent", "New", "Cut"}
                         /\ e[x] = "Cut" => e[p] \in GivenUp
                         /\ e[x] \in Launched \cup {"Joined"} => e[p] \in Launched
    BY DEF Nested, e
  <2> DEFINE p == Parent[x]
  <2>1. p \in Job
    BY <1>4
  <2>2. /\ a[p] = "Absent" => a[x] = "Absent"
        /\ a[p] \in GivenUp => a[x] \in {"Absent", "New", "Cut"}
        /\ a[x] = "Cut" => a[p] \in GivenUp
        /\ a[x] \in Launched \cup {"Joined"} => a[p] \in Launched
        /\ x = j => a[p] \in Launched
    BY <1>3, <1>5 DEF Nested, a
  <2> HIDE DEF p
  <2>3. a[p] \in Launched => e[p] = a[p] /\ e[p] \notin {"Absent"} \cup GivenUp
    BY <1>6, <2>1 DEF Launched, Ran, GivenUp
  <2>4. CASE x = j
    BY <1>6, <1>7, <2>2, <2>3, <2>4 DEF p
  <2>5. CASE x # j
    BY <1>6, <1>7, <1>8, <2>1, <2>2, <2>3, <2>5 DEF p, GivenUp
  <2> QED BY <2>4, <2>5
<1>11. Numbered(b, r)
  <2> SUFFICES ASSUME NEW x \in Job \ {Root}
               PROVE  /\ e[x] \notin Launched => r.num[x] = -1
                      /\ r.num[x] # -1 =>
                           Caused(b, Ident[x], r.num[x], Parent[x], r.num[Parent[x]])
    BY DEF Numbered, e
  <2>1. CASE x = j
    <3>1. r.num[x] = n /\ r.num[Parent[x]] = t.num[Parent[x]] /\ e[x] \in Launched
      BY <1>4, <1>5, <1>6, <1>7, <2>1
    <3> QED BY <2>1, <3>1
  <2>2. CASE x # j
    <3>1. e[x] = a[x] /\ r.num[x] = t.num[x]
      BY <1>6, <2>2
    <3>2. a[x] \notin Launched => t.num[x] = -1
      BY <1>3 DEF Numbered, a
    <3>3. r.num[x] # -1 => a[Parent[x]] \in Launched
      BY <1>3, <3>1, <3>2 DEF Nested, a
    <3>4. r.num[x] # -1 => r.num[Parent[x]] = t.num[Parent[x]]
      BY <1>4, <1>6, <3>3
    <3> QED BY <1>3, <3>1, <3>2, <3>4 DEF Numbered
  <2> QED BY <2>1, <2>2
<1>12. JoinsShare(b, r)
  <2> SUFFICES ASSUME NEW x \in Job, e[x] = "Joined"
               PROVE  Joinable(b, r, x, t.joined[x])
    BY <1>2 DEF JoinsShare, e
  <2> DEFINE m == t.joined[x]
  <2>1. x \in Job \ {Root, j} /\ a[x] = "Joined"
    BY <1>6, <1>7, <1>9 DEF Rooted, e, GivenUp
  <2>2. Joinable(b, t, x, m)
    BY <1>3, <2>1 DEF JoinsShare, a
  <2> HIDE DEF m
  <2>3. /\ m \in Job \ {Root} /\ Ident[m] = Ident[x]
        /\ a[m] \notin {"Absent", "Cut"} /\ a[Parent[m]] \in Launched
    BY <2>1, <2>2 DEF Joinable, a
  <2>4. a[Parent[x]] \in Launched
    BY <1>3, <2>1 DEF Nested, a
  <2>5. /\ e[m] \notin {"Absent", "Cut"} /\ e[Parent[m]] \in Launched
        /\ r.num[Parent[m]] = t.num[Parent[m]] /\ r.num[Parent[x]] = t.num[Parent[x]]
    BY <1>4, <1>6, <1>7, <2>1, <2>3, <2>4 DEF GivenUp
  <2>6. PICK k \in t.known[Ident[x]] : Shared(b, t, x, m, k) /\ t.num[m] \in {-1, k}
    BY <2>2 DEF Joinable
  <2>7. r.num[m] \in {-1, k}
    <3>1. CASE m # j
      BY <1>6, <2>3, <2>6, <3>1
    <3>2. CASE m = j
      <4>1. n # -1 => Caused(b, Ident[m], n, Parent[m], t.num[Parent[m]])
        BY <2>3, <3>2
      <4>2. Caused(b, Ident[m], k, Parent[m], t.num[Parent[m]])
        BY <2>3, <2>6 DEF Shared
      <4>3. n # -1 => n = k
        BY <4>1, <4>2, <2>3 DEF CausedOnce, Caused
      <4> QED BY <1>6, <3>2, <4>3
    <3> QED BY <3>1, <3>2
  <2>8. Shared(b, r, x, m, k)
    BY <2>5, <2>6 DEF Shared
  <2>9. m \in Job \ {x} /\ k \in r.known[Ident[x]]
    BY <1>1, <2>2 DEF Joinable
  <2> QED BY <2>3, <2>5, <2>7, <2>8, <2>9 DEF Joinable, e, m
<1>13. JoinsEnd(r)
  <2> SUFFICES ASSUME NEW R \in SUBSET Job, R # {}, \A x \in R : e[x] = "Joined"
               PROVE  \E x \in R : r.joined[x] \notin R
    BY DEF JoinsEnd, e
  <2>1. \A x \in R : a[x] = "Joined"
    BY <1>6, <1>7 DEF GivenUp
  <2> QED BY <1>2, <1>3, <2>1 DEF JoinsEnd, a
<1> QED BY <1>9, <1>10, <1>11, <1>12, <1>13 DEF Arranged, r

-----------------------------------------------------------------------------
(* The operators of a callback keep the invariant, where no check throws.  *)

LEMMA CauseChildIs ==
  ASSUME NEW t \in Tracked, Existing(t), NEW id \in Id, NEW n, NEW S,
         NEW x \in CauseChildren(t, id, n, S)
  PROVE  /\ x \in Job \ {Root} /\ Ident[x] = id /\ n \in t.known[id]
         /\ t.state[x] # "Absent" /\ t.state[Parent[x]] \in S
         /\ Caused(builds, id, n, Parent[x], t.num[Parent[x]])
<1>1. /\ x \in Job \ {Root} /\ Ident[x] = id /\ n \in t.known[id]
      /\ t.state[x] # "Absent" /\ t.state[Parent[x]] \in S
      /\ BuildNumber(t, Parent[x]) \in CauseSet(id, n)
  BY DEF CauseChildren
<1>2. n \in DOMAIN builds[id]
  BY <1>1 DEF Existing
<1> QED BY <1>1, <1>2 DEF Caused, CauseSet, BuildNumber

(* A job that shares build n with its main job may be joined to it. *)
LEMMA SecondaryJoins ==
  ASSUME ServerTypeOK, CausedOnce(builds), NEW t \in Tracked, Existing(t),
         Arranged(builds, t), NEW id \in Id, NEW n, NEW x \in Secondaries(t, id, n)
  PROVE  LET m == MainJob(t, id, n)
         IN /\ m \in Job \ {x} /\ x \in Job \ {Root} /\ Ident[x] = id
            /\ t.state[Parent[x]] \in Launched
            /\ Joinable(builds, t, x, m)
<1> USE JobAssumption
<1> DEFINE m == MainJob(t, id, n)
<1>1. /\ x \in CauseChildren(t, id, n, Ran \cup GivenUp)
      /\ m \notin {x, NoJob}
  BY DEF Secondaries
<1>2. m \in CauseChildren(t, id, n, Ran)
  BY <1>1, MainJobIn
<1> HIDE DEF m
<1>3. /\ x \in Job \ {Root} /\ Ident[x] = id /\ n \in t.known[id]
      /\ t.state[Parent[x]] \in Ran \cup GivenUp
      /\ Caused(builds, id, n, Parent[x], t.num[Parent[x]])
  BY <1>1, CauseChildIs
<1>4. /\ m \in Job \ {Root} /\ Ident[m] = id /\ t.state[m] # "Absent"
      /\ t.state[Parent[m]] \in Ran
      /\ Caused(builds, id, n, Parent[m], t.num[Parent[m]])
  BY <1>2, CauseChildIs
<1>5. Rooted(t) /\ Nested(t) /\ Numbered(builds, t)
  BY DEF Arranged
<1>6. t.state[Parent[x]] \in Launched
  <2>1. t.num[Parent[x]] # -1 /\ Parent[x] \in Job
    BY <1>3, CauseNumbered
  <2>2. CASE Parent[x] = Root
    BY <1>3, <1>5, <2>2 DEF Rooted, GivenUp, Launched
  <2>3. CASE Parent[x] # Root
    BY <1>5, <2>1, <2>3 DEF Numbered
  <2> QED BY <2>2, <2>3
<1>7. t.state[Parent[m]] \in Launched
  BY <1>4 DEF Launched
<1>8. t.state[m] # "Cut"
  BY <1>4, <1>5, <1>7 DEF Nested, Launched, Ran, GivenUp
<1>9. t.num[m] \in {-1, n}
  <2> SUFFICES ASSUME t.num[m] # -1 PROVE t.num[m] = n
    OBVIOUS
  <2>1. Caused(builds, id, t.num[m], Parent[m], t.num[Parent[m]])
    BY <1>4, <1>5 DEF Numbered
  <2> QED BY <1>4, <2>1 DEF CausedOnce, Caused
<1>10. Joinable(builds, t, x, m)
  BY <1>1, <1>3, <1>4, <1>7, <1>8, <1>9 DEF Joinable, Shared
<1> QED BY <1>1, <1>3, <1>4, <1>6, <1>10 DEF m

(* If no job that joinOthersToMe comes to is refused, it comes to all of them. *)
LEMMA AllReached ==
  ASSUME ServerTypeOK, NEW t \in Tracked, Existing(t), NEW id \in Id, NEW n,
         NEW S \in SUBSET CauseChildren(t, id, n, Ran \cup GivenUp),
         \A x \in Reached(t, id, n, S) : CheckStateTransition(t.state[x], "Joined")
  PROVE  Reached(t, id, n, S) = S
<1> DEFINE late(x) == t.state[Parent[x]] \in GivenUp
           pos(x) == CausePosition(t, id, n, x)
           before(x, y) == \/ late(y) /\ ~late(x)
                           \/ /\ late(y) <=> late(x)
                              /\ pos(x) < pos(y)
           able(x) == CheckStateTransition(t.state[x], "Joined")
           barred == {x \in S : ~able(x)}
<1>1. Reached(t, id, n, S) = {y \in S : \A x \in S : before(x, y) => able(x)}
  BY Zenon DEF Reached
<1>2. \A x \in S : pos(x) \in Nat
  <2> SUFFICES ASSUME NEW x \in S PROVE pos(x) \in Nat
    OBVIOUS
  <2>1. BuildNumber(t, Parent[x]) \in CauseSet(id, n) /\ n \in t.known[id]
    BY DEF CauseChildren
  <2>2. \E i \in DOMAIN builds[id][n].causes :
          builds[id][n].causes[i] = BuildNumber(t, Parent[x])
    BY <2>1 DEF CauseSet
  <2>3. pos(x) \in DOMAIN builds[id][n].causes
    BY <2>2, Zenon DEF CausePosition
  <2>4. n \in DOMAIN builds[id]
    BY <2>1 DEF Existing
  <2> QED BY <2>3, <2>4, CausesType
<1> HIDE DEF late, pos, able
<1>3. ASSUME NEW R \in SUBSET S, R # {}
      PROVE  \E y \in R : \A x \in R : ~(pos(x) < pos(y))
  <2> DEFINE P == {pos(x) : x \in R}
  <2>1. P \in SUBSET Nat /\ P # {}
    BY <1>2, <1>3
  <2>2. \A x \in R : pos(x) \in P
    OBVIOUS
  <2>3. \A k \in P : \E y \in R : k = pos(y)
    OBVIOUS
  <2> HIDE DEF P
  <2>4. PICK m \in P : \A k \in P : m <= k
    BY <2>1, NatMin
  <2>5. PICK y \in R : m = pos(y)
    BY <2>3
  <2>6. ASSUME NEW x \in R PROVE ~(pos(x) < pos(y))
    <3> DEFINE k == pos(x)
    <3>1. k \in P /\ k \in Nat /\ m \in Nat
      BY <2>1, <2>2
    <3> HIDE DEF k
    <3>2. ~(k < m)
      BY <2>4, <3>1
    <3> QED BY <2>5, <3>2 DEF k
  <2> QED BY <2>6
<1>4. barred = {}
  <2> SUFFICES ASSUME barred # {} PROVE FALSE
    OBVIOUS
  <2>1. \E y \in barred : \A x \in barred : ~before(x, y)
    <3>1. CASE \E x \in barred : ~late(x)
      <4> DEFINE R == {x \in barred : ~late(x)}
      <4>1. R \in SUBSET S /\ R # {}
        BY <3>1
      <4> HIDE DEF R
      <4>2. PICK y \in R : \A x \in R : ~(pos(x) < pos(y))
        BY <1>3, <4>1
      <4> QED BY <4>2 DEF R
    <3>2. CASE \A x \in barred : late(x)
      <4>1. PICK y \in barred : \A x \in barred : ~(pos(x) < pos(y))
        BY <1>3
      <4> QED BY <3>2, <4>1
    <3> QED BY <3>1, <3>2
  <2>2. PICK y \in barred : \A x \in barred : ~before(x, y)
    BY <2>1
  <2>3. y \in Reached(t, id, n, S)
    BY <1>1, <2>2
  <2> QED BY <2>2, <2>3 DEF able
<1> QED BY <1>1, <1>4

LEMMA WithOthersIs ==
  ASSUME ServerTypeOK, NEW t \in Tracked, Existing(t), NEW j \in Job \ {Root},
         WithOthersJoined(t, j).legal
  PROVE  LET n == t.num[j]
             others == {x \in Secondaries(t, Ident[j], n) : t.state[x] # "Cut"}
         IN /\ Determinable(t, Ident[j], n) /\ MainJob(t, Ident[j], n) = j
            /\ JoinedTo(t, others, j).legal
            /\ WithOthersJoined(t, j) = JoinedTo(t, others, j)
<1> USE JobAssumption
<1> DEFINE n == t.num[j]
           id == Ident[j]
           others == {x \in Secondaries(t, id, n) : t.state[x] # "Cut"}
           reached == Reached(t, id, n, others)
           main == Determinable(t, id, n) /\ MainJob(t, id, n) = j
           r == WithOthersJoined(t, j)
<1>1. main
  <2> SUFFICES ASSUME ~main PROVE FALSE
    OBVIOUS
  <2>1. r = Thrown(t)
    BY Zenon DEF WithOthersJoined
  <2> HIDE DEF r
  <2> QED BY <2>1, ThrownMoves DEF r
<1>2. r = JoinedTo(t, reached, j)
  BY <1>1, Zenon DEF WithOthersJoined
<1>3. others \in SUBSET CauseChildren(t, id, n, Ran \cup GivenUp)
  BY DEF Secondaries
<1>4. reached \in SUBSET Job
  BY <1>3 DEF Reached, CauseChildren
<1>5. reached = others
  <2>1. \A x \in reached : CheckStateTransition(t.state[x], "Joined")
    <3>1. JoinedTo(t, reached, j).legal
      BY <1>2
    <3> HIDE DEF reached
    <3> QED BY <1>4, <3>1, JoinedToIs DEF JoinsInto
  <2> HIDE DEF others
  <2> QED BY <1>3, <2>1, AllReached
<1> HIDE DEF others, reached
<1> QED BY <1>1, <1>2, <1>5 DEF others

LEMMA WithOthersArranged ==
  ASSUME ServerTypeOK, CausedOnce(builds), NEW t \in Tracked, Existing(t),
         Arranged(builds, t), NEW j \in Job, WithOthersJoined(t, j).legal
  PROVE  /\ Arranged(builds, WithOthersJoined(t, j))
         /\ OneEach(t) => OneEach(WithOthersJoined(t, j))
<1> USE JobAssumption
<1>1. CASE j = Root
  <2>1. WithOthersJoined(t, j) = t
    BY <1>1, Zenon DEF WithOthersJoined
  <2> QED BY <2>1
<1>2. CASE j # Root
  <2> DEFINE n == t.num[j]
             others == {x \in Secondaries(t, Ident[j], n) : t.state[x] # "Cut"}
             q == JoinedTo(t, others, j)
             r == WithOthersJoined(t, j)
  <2>1. MainJob(t, Ident[j], n) = j /\ q.legal /\ r = q
    BY <1>2, WithOthersIs
  <2>2. \A x \in others : /\ x \in Job \ {Root} /\ x # j
                          /\ t.state[Parent[x]] \in Launched
                          /\ Joinable(builds, t, x, j)
    <3> SUFFICES ASSUME NEW x \in Secondaries(t, Ident[j], n)
                 PROVE  /\ x \in Job \ {Root} /\ x # j
                        /\ t.state[Parent[x]] \in Launched
                        /\ Joinable(builds, t, x, j)
      OBVIOUS
    <3> HIDE DEF n
    <3> QED BY <2>1, SecondaryJoins
  <2> HIDE DEF others
  <2>3. Arranged(builds, q) /\ q.num = t.num
    <3>1. others \in SUBSET (Job \ {Root}) /\ j \in Job \ others
      BY <2>2
    <3>2. \A x \in others : t.state[Parent[x]] \in Launched /\ Joinable(builds, t, x, j)
      BY <2>2
    <3>3. Arranged(builds, q)
      BY <2>1, <3>1, <3>2, JoinedToArranged
    <3>4. q.num = t.num
      BY <3>1, JoinedToMoves
    <3> QED BY <3>3, <3>4
  <2> HIDE DEF q, r
  <2>4. OneEach(t) => OneEach(r)
    BY <2>1, <2>3 DEF OneEach
  <2>5. Arranged(builds, r)
    BY <2>1, <2>3, SameParts
  <2> QED BY <2>4, <2>5 DEF r
<1> QED BY <1>1, <1>2

(* joinOthersToMe finds every other follower of the build of a started job:  *)
(* a second master, a follower that cannot be joined, or a cause that was    *)
(* killed; each makes a check throw.                                       *)
LEMMA NoOtherFollower ==
  ASSUME ServerTypeOK, NEW t \in Tracked, Existing(t),
         Arranged(builds, t), NEW j \in Job \ {Root}, t.state[j] \in Mastering,
         WithOthersJoined(t, j).legal,
         NEW i \in Job \ {j}, Ident[i] = Ident[j], t.num[i] = t.num[j], t.num[i] # -1
  PROVE  FALSE
<1> USE JobAssumption
<1> DEFINE n == t.num[j]
           id == Ident[j]
           others == {x \in Secondaries(t, id, n) : t.state[x] # "Cut"}
           q == JoinedTo(t, others, j)
<1>1. Determinable(t, id, n) /\ MainJob(t, id, n) = j /\ q.legal
  BY WithOthersIs
<1>2. i \in Job \ {Root} /\ id \in Id
  OBVIOUS
<1>3. Nested(t) /\ Numbered(builds, t)
  BY DEF Arranged
<1>4. /\ t.state[i] \in Launched /\ t.state[Parent[i]] \in Launched
      /\ Caused(builds, id, n, Parent[i], t.num[Parent[i]])
  BY <1>2, <1>3 DEF Numbered, Nested
<1>5. others \in SUBSET Job
  BY DEF Secondaries, CauseChildren
<1>6. \A x \in others : t.state[x] \in Pending
  <2> HIDE DEF others
  <2> QED BY <1>1, <1>5, JoinedToIs DEF JoinsInto
<1> HIDE DEF q
<1>7. j \in CauseChildren(t, id, n, Ran)
  BY <1>1, MainJobIn
<1>8. n \in t.known[id]
  BY <1>7 DEF CauseChildren
<1> HIDE DEF n
<1>9. BuildNumber(t, Parent[i]) \in CauseSet(id, n)
  BY <1>4 DEF Caused, CauseSet, BuildNumber
<1>10. t.state[Parent[i]] \in Ran
  BY <1>1, <1>2, <1>4, <1>9 DEF Determinable, Launched
<1>11. i \in CauseChildren(t, id, n, Ran)
  BY <1>2, <1>4, <1>8, <1>9, <1>10 DEF CauseChildren, Launched, Ran
<1>12. CASE t.state[i] \in Mastering
  <2>1. i \in Masters(t, id, n) /\ j \in Masters(t, id, n)
    BY <1>7, <1>11, <1>12 DEF Masters
  <2> QED BY <1>1, <2>1 DEF Determinable
<1>13. CASE t.state[i] \notin Mastering
  <2>1. i \in CauseChildren(t, id, n, Ran \cup GivenUp)
    BY <1>11 DEF CauseChildren
  <2>2. i \in Secondaries(t, id, n)
    BY <1>1, <1>13, <2>1 DEF Secondaries, Masters
  <2>3. i \in others
    BY <1>4, <2>2 DEF Launched, Ran
  <2> QED BY <1>4, <1>6, <2>3 DEF Launched, Ran, Pending
<1> QED BY <1>12, <1>13

LEMMA StreamingPlaced ==
  ASSUME ServerTypeOK, CausedOnce(builds), NEW t \in Tracked, Existing(t),
         Placed(builds, t), NEW j \in Job, NEW n, RightNumber(t, j, n),
         j # Root => t.state[Parent[j]] \in Launched, Streaming(t, j, n).legal
  PROVE  Placed(builds, Streaming(t, j, n))
<1> USE JobAssumption
<1>1. Arranged(builds, t) /\ OneEach(t)
  BY DEF Placed
<1>2. CASE ~opts.captureConsole /\ t.state[j] \in Pending
  <2> DEFINE k == t.num[j]
             r == Started(t, j, "Finishing", k)
  <2>1. Streaming(t, j, n) = r
    BY <1>2, Zenon DEF Streaming
  <2>2. k \in Nat \cup {-1} /\ [t.num EXCEPT ![j] = k] = t.num
    BY TrackedParts
  <2>3. r.num = [t.num EXCEPT ![j] = k]
    BY DEF Started, Track
  <2>4. j # Root => k = -1
    BY <1>1, <1>2 DEF Arranged, Numbered, Pending, Launched, Ran
  <2> HIDE DEF k
  <2>5. Arranged(builds, r)
    <3>1. j = Root => k = t.num[Root]
      BY DEF k
    <3> QED BY <1>1, <1>2, <2>2, <2>4, <3>1, StartedArranged
  <2> HIDE DEF r
  <2>6. OneEach(r)
    BY <1>1, <2>2, <2>3 DEF OneEach
  <2> QED BY <2>1, <2>5, <2>6 DEF Placed
<1>3. CASE opts.captureConsole /\ t.state[j] \in Pending
  <2> DEFINE u == Started(t, j, "Streaming", n)
             r == WithOthersJoined(u, j)
  <2>1. Streaming(t, j, n) = r
    BY <1>3, Zenon DEF Streaming
  <2>2. /\ u.state = [t.state EXCEPT ![j] = "Streaming"]
        /\ u.num = [t.num EXCEPT ![j] = n]
        /\ u.known = t.known
    BY DEF Started, Track
  <2>3. n \in Nat \cup {-1} /\ u \in Tracked
    BY StartedType, Zenon DEF RightNumber
  <2>4. j # Root => Caused(builds, Ident[j], n, Parent[j], t.num[Parent[j]])
    BY DEF RightNumber, Sourced, Existing, Caused, CauseSet, BuildNumber
  <2>6. Arranged(builds, u)
    <3>1. j = Root => n = t.num[Root]
      BY DEF RightNumber
    <3> QED BY <1>1, <1>3, <2>3, <2>4, <3>1, StartedArranged
  <2>7. Existing(u)
    BY <2>2 DEF Existing
  <2> HIDE DEF u
  <2>8. Arranged(builds, r) /\ r.num = u.num
    BY <2>1, <2>3, <2>6, <2>7, WithOthersArranged, WithOthersJoinedMoves
  <2>9. OneEach(u)
    <3> SUFFICES ASSUME NEW i \in Job, NEW k \in Job \ {i}, Ident[i] = Ident[k],
                        u.num[i] # -1, u.num[i] = u.num[k]
                 PROVE  FALSE
      BY DEF OneEach
    <3>1. /\ \A x \in Job \ {j} : u.num[x] = t.num[x]
          /\ u.state[j] \in Mastering
      BY <2>2, TrackedParts DEF Mastering
    <3>2. i = j \/ k = j
      BY <1>1, <3>1 DEF OneEach
    <3>3. PICK x \in Job \ {j} : /\ Ident[x] = Ident[j] /\ u.num[x] = u.num[j]
                                 /\ u.num[x] # -1
      BY <3>2
    <3>4. j # Root
      BY <3>3
    <3> QED BY <2>1, <2>3, <2>6, <2>7, <3>1, <3>3, <3>4, NoOtherFollower
  <2> HIDE DEF r
  <2>10. OneEach(r)
    BY <2>8, <2>9 DEF OneEach
  <2> QED BY <2>1, <2>8, <2>10 DEF Placed
<1>4. CASE opts.captureConsole /\ t.state[j] \notin Pending \cup GivenUp
  <2> DEFINE r == WithOthersJoined(t, j)
  <2>1. Streaming(t, j, n) = r
    BY <1>4, Zenon DEF Streaming
  <2>2. Placed(builds, r)
    <3>1. r.legal
      BY <2>1
    <3> QED BY <1>1, <3>1, WithOthersArranged DEF Placed
  <2> QED BY <2>1, <2>2
<1>5. CASE /\ ~(opts.captureConsole /\ t.state[j] \notin Pending \cup GivenUp)
           /\ t.state[j] \notin Pending
  <2>1. Streaming(t, j, n) = Thrown(t)
    BY <1>5, Zenon DEF Streaming
  <2> QED BY <2>1, ThrownMoves
<1> QED BY <1>2, <1>3, <1>4, <1>5

LEMMA ResolvedPlaced ==
  ASSUME ServerTypeOK, CausedOnce(builds), NEW t \in Tracked, Existing(t),
         Placed(builds, t), NEW j \in Job, Resolved(t, j).legal
  PROVE  /\ Placed(builds, Resolved(t, j))
         /\ Resolved(t, j).state[j] = "New"
              => j # Root /\ Resolved(t, j).state[Parent[j]] \notin GivenUp
<1> USE JobAssumption
<1> DEFINE id == Ident[j]
           hits == {n \in t.known[id] : j = MainJob(t, id, n)
                                          \/ j \in Secondaries(t, id, n)}
           first == CHOOSE n \in hits : \A m \in hits : n <= m
           tried == IF hits = {} THEN t.known[id]
                                 ELSE {n \in t.known[id] : n <= first}
           safe == \A n \in tried : Determinable(t, id, n)
           main == MainJob(t, id, first)
           r == Resolved(t, j)
<1>1. Moves(t, r)
  BY ResolvedMoves
<1>2. r.legal
  OBVIOUS
<1>3. Arranged(builds, t) /\ OneEach(t)
  BY DEF Placed
<1>4. \A x \in Job : t.state[x] \notin Pending => r.state[x] = t.state[x]
  <2> HIDE DEF r
  <2> QED BY <1>1, <1>2 DEF Moves, Moved
<1>5. CASE t.state[j] \notin Pending
  <2>1. r = t
    BY <1>5, Zenon DEF Resolved
  <2> QED BY <1>5, <2>1 DEF Pending
<1>6. ASSUME NEW n, RightNumber(t, j, n), t.state[j] \in Pending,
             j # Root => t.state[Parent[j]] \in Launched, r = Streaming(t, j, n)
      PROVE  Placed(builds, r) /\ r.state[j] # "New"
  <2>1. Placed(builds, r)
    <3>1. Streaming(t, j, n).legal
      BY <1>6
    <3> HIDE DEF r
    <3> QED BY <1>6, <3>1, StreamingPlaced
  <2>2. CASE ~opts.captureConsole
    <3>1. r = Started(t, j, "Finishing", t.num[j])
      BY <1>6, <2>2, Zenon DEF Streaming
    <3>2. r.state = [t.state EXCEPT ![j] = "Finishing"]
      <4> HIDE DEF r
      <4> QED BY <3>1 DEF Started, Track
    <3>3. r.state[j] = "Finishing"
      <4> HIDE DEF r
      <4> QED BY <3>2, TrackedParts
    <3> QED BY <2>1, <3>3
  <2>3. CASE opts.captureConsole
    <3> DEFINE v == Started(t, j, "Streaming", n)
    <3>1. r = WithOthersJoined(v, j)
      BY <1>6, <2>3, Zenon DEF Streaming
    <3>2. n \in Nat \cup {-1} /\ v \in Tracked
      BY <1>6, StartedType, Zenon DEF RightNumber
    <3>3. v.state = [t.state EXCEPT ![j] = "Streaming"]
      BY DEF Started, Track
    <3> HIDE DEF v
    <3>4. Moves(v, r) /\ v.state[j] = "Streaming"
      BY <3>1, <3>2, <3>3, TrackedParts, WithOthersJoinedMoves
    <3> HIDE DEF r
    <3> QED BY <1>2, <2>1, <3>4 DEF Moves, Moved, Pending
  <2> QED BY <2>2, <2>3
<1>7. CASE t.state[j] \in Pending /\ j = Root
  <2>1. r = Streaming(t, j, t.num[j])
    BY <1>7, Zenon DEF Resolved
  <2>2. RightNumber(t, j, t.num[j])
    BY <1>7, TrackedParts DEF RightNumber
  <2> HIDE DEF r
  <2> QED BY <1>6, <1>7, <2>1, <2>2 DEF r
<1>8. CASE /\ t.state[j] \in Pending /\ j # Root
           /\ t.state[Parent[j]] \in GivenUp
  <2>1. r = CutTree(t, j)
    BY <1>8, Zenon DEF Resolved
  <2>2. r.num = t.num /\ r.state[j] = "Cut"
    <3> DEFINE q == CutTree(t, j)
    <3>1. /\ q.num = t.num
          /\ q.state = [x \in Job |-> IF t.state[x] # "Absent" /\ (x = j \/ Beneath({j}, x))
                                     THEN "Cut" ELSE t.state[x]]
      <4>1. q.legal
        BY <1>2, <2>1
      <4> QED BY <4>1, CutTreeIs
    <3> HIDE DEF q
    <3>2. q.state[j] = "Cut"
      BY <1>8, <3>1 DEF Pending
    <3> QED BY <2>1, <3>1, <3>2 DEF q
  <2>3. Arranged(builds, r)
    <3>1. CutTree(t, j).legal /\ t.state[Parent[j]] \in GivenUp
      BY <1>2, <1>8, <2>1
    <3> HIDE DEF r
    <3> QED BY <1>3, <1>8, <2>1, <3>1, CutTreeArranged
  <2> HIDE DEF r
  <2>4. OneEach(r)
    BY <1>3, <2>2 DEF OneEach
  <2> QED BY <2>2, <2>3, <2>4 DEF Placed, r
<1>9. CASE /\ t.state[j] \in Pending /\ j # Root
           /\ t.state[Parent[j]] \notin GivenUp
  <2>1. safe
    <3> SUFFICES ASSUME ~safe PROVE FALSE
      OBVIOUS
    <3>1. r = Thrown(t)
      BY <1>9, Zenon DEF Resolved
    <3> HIDE DEF r
    <3> QED BY <1>2, <3>1, ThrownMoves
  <2>2. CASE hits = {}
    <3>1. r = t
      BY <1>9, <2>1, <2>2, Zenon DEF Resolved
    <3> HIDE DEF r
    <3> QED BY <1>9, <3>1 DEF r
  <2>3. CASE hits # {}
    <3>1. first \in hits
      <4>1. hits \in SUBSET Nat
        BY TrackedParts
      <4>2. \E n \in hits : \A m \in hits : n <= m
        BY <2>3, <4>1, NatMin
      <4> QED BY <4>2, Zenon
    <3>2. id \in Id /\ first \in t.known[id] /\ first \in Nat
      BY <3>1, TrackedParts
    <3>3. CASE main = j
      <4>1. r = Streaming(t, j, first)
        BY <1>9, <2>1, <2>3, <3>3, Zenon DEF Resolved
      <4>2. j \in CauseChildren(t, id, first, Ran)
        <5> HIDE DEF first
        <5> QED BY <3>2, <3>3, MainJobIn
      <4> HIDE DEF first, main, safe, r
      <4>3. RightNumber(t, j, first)
        BY <1>9, <3>2, <4>2
        DEF RightNumber, Sourced, BuildNumber, CauseChildren
      <4>4. t.state[Parent[j]] \in Launched
        BY <4>2 DEF CauseChildren, Launched
      <4> QED BY <1>6, <1>9, <4>1, <4>3, <4>4 DEF r
    <3>4. CASE main # j
      <4>1. r = JoinedTo(t, {j}, main)
        BY <1>9, <2>1, <2>3, <3>4, Zenon DEF Resolved
      <4>2. j \in Secondaries(t, id, first)
        <5> HIDE DEF first
        <5> QED BY <3>1, <3>4
      <4>3. /\ main \in Job \ {j} /\ t.state[Parent[j]] \in Launched
            /\ Joinable(builds, t, j, main)
        <5> HIDE DEF first
        <5> QED BY <1>3, <3>2, <4>2, SecondaryJoins
      <4> HIDE DEF first, main, safe, r
      <4>4. r.num = t.num /\ r.state[j] = "Joined"
        <5>1. JoinedTo(t, {j}, main).legal
          BY <1>2, <4>1
        <5> QED BY <4>1, <4>3, <5>1, JoinedOneIs
      <4>5. Arranged(builds, r)
        <5>1. {j} \in SUBSET (Job \ {Root}) /\ main \in Job \ {j}
          BY <1>9, <4>3
        <5>2. \A x \in {j} : /\ t.state[Parent[x]] \in Launched
                             /\ Joinable(builds, t, x, main)
          BY <4>3
        <5>3. JoinedTo(t, {j}, main).legal
          BY <1>2, <4>1
        <5> QED BY <1>3, <4>1, <5>1, <5>2, <5>3, JoinedToArranged
      <4>6. OneEach(r)
        BY <1>3, <4>4 DEF OneEach
      <4> QED BY <4>4, <4>5, <4>6 DEF Placed, r
    <3> QED BY <3>3, <3>4
  <2> QED BY <2>2, <2>3
<1> QED BY <1>5, <1>7, <1>8, <1>9

-----------------------------------------------------------------------------
(* The server.                                                             *)

ServerInv == Triggered(builds, queued)

LEMMA ServerInvInit == Init => ServerInv
<1> SUFFICES ASSUME Init PROVE ServerInv
  OBVIOUS
<1> USE ServerAssumption
<1>1. InitServer
  BY DEF Init
<1>2. ASSUME NEW id \in Id, NEW n \in DOMAIN builds[id]
      PROVE  builds[id][n].causes = << >>
  BY <1>1, <1>2 DEF InitServer, NewBuild
<1>3. RootNumber \in DOMAIN builds[RootId]
  BY <1>1 DEF InitServer, RootNumber
<1>4. \A id \in Id : queued[id] = << >>
  BY <1>1 DEF InitServer
<1> QED BY <1>2, <1>3, <1>4 DEF ServerInv, Triggered, CausedOnce

(* A cause stays ended when builds are added or given a result. *)
LEMMA EndedStays ==
  ASSUME ServerTypeOK, ServerStep, NEW c \in Cause, Ended(builds, c)
  PROVE  Ended(builds', c) /\ c[1] \in Id /\ c[2] \in DOMAIN builds[c[1]]
<1> USE ServerAssumption
<1>1. c[1] \in Id /\ c[2] \in DOMAIN builds[c[1]] /\ builds[c[1]][c[2]].result # "none"
  BY DEF Ended, Cause
<1> DEFINE p == c[1]
           k == c[2]
<1> HIDE DEF p, k
<1>2. p \in Id /\ k \in DOMAIN builds[p] /\ builds[p][k].result # "none"
  BY <1>1 DEF p, k
<1>3. ASSUME NEW id \in Id, NEW x, builds' = [builds EXCEPT ![id] = Append(@, x)]
      PROVE  k \in DOMAIN builds'[p] /\ builds'[p][k].result # "none"
  BY <1>2, <1>3 DEF ServerTypeOK
<1>4. ASSUME NEW id \in Id, NEW n \in DOMAIN builds[id], FinishBuild(id, n)
      PROVE  k \in DOMAIN builds'[p] /\ builds'[p][k].result # "none"
  <2>1. builds[id][n].result = "none" /\ \E res : builds' = [builds EXCEPT ![id][n].result = res]
    BY <1>4 DEF FinishBuild
  <2> QED BY <1>2, <2>1 DEF ServerTypeOK
<1>5. k \in DOMAIN builds'[p] /\ builds'[p][k].result # "none"
  BY <1>3, <1>4 DEF ServerStep, StartBuild, ForeignBuild
<1> QED BY <1>2, <1>5 DEF Ended, p, k

LEMMA ServerInvNext ==
  ASSUME ServerTypeOK, ServerInv, ServerStep
  PROVE  ServerInv'
<1> USE ServerAssumption
<1>1. CausedOnce(builds)
  BY DEF ServerInv, Triggered
<1>2. ASSUME NEW id \in Id, NEW n \in DOMAIN builds[id],
             NEW i \in DOMAIN builds[id][n].causes
      PROVE  /\ builds[id][n].causes[i] \in Cause
             /\ Ended(builds, builds[id][n].causes[i])
             /\ \A l \in DOMAIN queued[id] : queued[id][l] # builds[id][n].causes[i]
  <2>1. builds[id][n].causes \in Seq(Cause)
    BY CausesType
  <2>2. builds[id][n].causes[i] \in Cause
    <3> HIDE DEF Cause
    <3> QED BY <2>1
  <2> QED BY <2>2 DEF ServerInv, Triggered
<1>3. ASSUME NEW id \in Id, NEW l \in DOMAIN queued[id]
      PROVE  queued[id][l] \in Cause /\ Ended(builds, queued[id][l])
  <2>1. queued[id][l] \in Cause
    <3> HIDE DEF Cause
    <3> QED BY DEF ServerTypeOK
  <2> QED BY <2>1 DEF ServerInv, Triggered
<1>4. RootNumber \in DOMAIN builds'[RootId]
  <2>1. BuildsGrow
    BY ServerStepType
  <2> QED BY <2>1 DEF BuildsGrow, ServerInv, Triggered
<1>5. ASSUME NEW d \in Id, NEW q \in Seq(Cause),
             builds' = [builds EXCEPT ![d] = Append(@, NewBuild(q))],
             \/ q = << >> /\ queued' = queued
             \/ q = queued[d] /\ queued' = [queued EXCEPT ![d] = << >>]
      PROVE  ServerInv'
  <2> DEFINE new == Len(builds[d]) + 1
  <2>1. /\ builds[d] \in Seq(Build) /\ new \notin DOMAIN builds[d]
        /\ \A id \in Id : DOMAIN builds'[id]
                            = DOMAIN builds[id] \cup (IF id = d THEN {new} ELSE {})
        /\ \A id \in Id : \A n \in DOMAIN builds[id] : builds'[id][n] = builds[id][n]
        /\ builds'[d][new].causes = q
    BY <1>5 DEF ServerTypeOK, NewBuild
  <2> HIDE DEF new
  <2>2. \A id \in Id : \A l \in DOMAIN queued'[id] :
          l \in DOMAIN queued[id] /\ queued'[id][l] = queued[id][l]
    <3>1. queued \in [Id -> Seq(Cause)]
      BY DEF ServerTypeOK
    <3>2. CASE queued' = queued
      BY <3>2
    <3>3. CASE queued' = [queued EXCEPT ![d] = << >>]
      <4> HIDE DEF Cause
      <4> QED BY <3>1, <3>3
    <3> QED BY <1>5, <3>2, <3>3
  <2>3. \A i \in DOMAIN q : /\ i \in DOMAIN queued[d] /\ q[i] = queued[d][i]
                            /\ queued'[d] = << >>
    BY <1>5 DEF ServerTypeOK
  <2>4. CausedOnce(builds')
    <3> SUFFICES ASSUME NEW id \in Id, NEW n \in DOMAIN builds'[id],
                        NEW k \in DOMAIN builds'[id],
                        NEW i \in DOMAIN builds'[id][n].causes,
                        NEW l \in DOMAIN builds'[id][k].causes,
                        builds'[id][n].causes[i] = builds'[id][k].causes[l]
                 PROVE  n = k
      BY DEF CausedOnce
    <3>1. CASE n \in DOMAIN builds[id] /\ k \in DOMAIN builds[id]
      BY <1>1, <2>1, <3>1 DEF CausedOnce
    <3>2. CASE n \in DOMAIN builds[id] /\ k \notin DOMAIN builds[id]
      <4>1. id = d /\ k = new
        BY <2>1, <3>2
      <4> QED BY <1>2, <2>1, <2>3, <3>2, <4>1
    <3>3. CASE n \notin DOMAIN builds[id] /\ k \in DOMAIN builds[id]
      <4>1. id = d /\ n = new /\ i \in DOMAIN q /\ l \in DOMAIN builds[d][k].causes
        BY <2>1, <3>3
      <4>2. builds[d][k].causes[l] = queued[d][i] /\ i \in DOMAIN queued[d]
        BY <2>1, <2>3, <3>3, <4>1
      <4> QED BY <1>2, <3>3, <4>1, <4>2
    <3>4. CASE n \notin DOMAIN builds[id] /\ k \notin DOMAIN builds[id]
      BY <2>1, <3>4
    <3> QED BY <3>1, <3>2, <3>3, <3>4
  <2>5. ASSUME NEW id \in Id, NEW n \in DOMAIN builds'[id],
               NEW i \in DOMAIN builds'[id][n].causes
        PROVE  /\ Ended(builds', builds'[id][n].causes[i])
               /\ \A l \in DOMAIN queued'[id] :
                    queued'[id][l] # builds'[id][n].causes[i]
    <3>1. CASE n \in DOMAIN builds[id]
      <4>1. builds'[id][n] = builds[id][n] /\ i \in DOMAIN builds[id][n].causes
        BY <2>1, <3>1
      <4> DEFINE c == builds[id][n].causes[i]
      <4>2. /\ c \in Cause /\ Ended(builds, c)
            /\ \A l \in DOMAIN queued[id] : queued[id][l] # c
        BY <1>2, <3>1, <4>1
      <4> HIDE DEF c
      <4>3. Ended(builds', c)
        BY <4>2, EndedStays
      <4>4. \A l \in DOMAIN queued'[id] : queued'[id][l] # c
        BY <2>2, <4>2
      <4> QED BY <4>1, <4>3, <4>4 DEF c
    <3>2. CASE n \notin DOMAIN builds[id]
      <4>1. id = d /\ n = new /\ i \in DOMAIN q /\ builds'[id][n].causes[i] = q[i]
        BY <2>1, <2>5, <3>2
      <4>2. i \in DOMAIN queued[d] /\ q[i] = queued[d][i] /\ queued'[d] = << >>
        BY <2>3, <4>1
      <4> QED BY <1>3, <4>1, <4>2, EndedStays
    <3> QED BY <3>1, <3>2
  <2>6. \A id \in Id : \A l \in DOMAIN queued'[id] : Ended(builds', queued'[id][l])
    BY <1>3, <2>2, EndedStays
  <2> QED BY <1>4, <2>4, <2>5, <2>6 DEF ServerInv, Triggered
<1>6. ASSUME NEW d \in Id, StartBuild(d) PROVE ServerInv'
  BY <1>5, <1>6 DEF StartBuild, ServerTypeOK
<1>7. ASSUME NEW d \in Id, ForeignBuild(d) PROVE ServerInv'
  <2>1. << >> \in Seq(Cause)
    OBVIOUS
  <2> QED BY <1>5, <1>7, <2>1 DEF ForeignBuild
<1>8. ASSUME NEW d \in Id, NEW k \in DOMAIN builds[d], FinishBuild(d, k)
      PROVE  ServerInv'
  <2> DEFINE c == <<d, k>>
  <2>1. PICK res \in Results :
          /\ builds' = [builds EXCEPT ![d][k].result = res]
          /\ queued' = IF res = "SUCCESS"
                         THEN [id \in Id |-> IF id \in Downstream[d]
                                               THEN Append(queued[id], <<d, k>>)
                                               ELSE queued[id]]
                         ELSE queued
    BY <1>8 DEF FinishBuild
  <2>2. builds[d][k].result = "none" /\ k \in Nat /\ builds[d][k] \in Build
    BY <1>8 DEF FinishBuild, ServerTypeOK
  <2>3. c \in Cause /\ c[1] = d /\ c[2] = k
    BY <2>2 DEF Cause
  <2>4. /\ \A id \in Id : DOMAIN builds'[id] = DOMAIN builds[id]
        /\ \A id \in Id : \A n \in DOMAIN builds[id] :
             builds'[id][n].causes = builds[id][n].causes
        /\ builds'[d][k].result # "none"
    BY <2>1, <2>2 DEF ServerTypeOK, Build
  <2> HIDE DEF c
  <2>5. Ended(builds', c) /\ ~Ended(builds, c)
    BY <2>2, <2>3, <2>4 DEF Ended
  <2>6. \A id \in Id : \A l \in DOMAIN queued'[id] :
          \/ l \in DOMAIN queued[id] /\ queued'[id][l] = queued[id][l]
          \/ queued'[id][l] = c
    BY <2>1 DEF ServerTypeOK, c
  <2>7. CausedOnce(builds')
    BY <1>1, <2>4 DEF CausedOnce
  <2>8. ASSUME NEW id \in Id, NEW n \in DOMAIN builds'[id],
               NEW i \in DOMAIN builds'[id][n].causes
        PROVE  /\ Ended(builds', builds'[id][n].causes[i])
               /\ \A l \in DOMAIN queued'[id] :
                    queued'[id][l] # builds'[id][n].causes[i]
    <3>1. /\ n \in DOMAIN builds[id] /\ i \in DOMAIN builds[id][n].causes
          /\ builds'[id][n].causes[i] = builds[id][n].causes[i]
      BY <2>4, <2>8
    <3>2. Ended(builds', builds'[id][n].causes[i])
      <4> HIDE DEF Cause
      <4> QED BY <1>2, <3>1, EndedStays
    <3>3. builds'[id][n].causes[i] # c
      BY <1>2, <2>5, <3>1
    <3> QED BY <1>2, <2>6, <3>1, <3>2, <3>3
  <2>9. \A id \in Id : \A l \in DOMAIN queued'[id] : Ended(builds', queued'[id][l])
    BY <1>3, <2>5, <2>6, EndedStays
  <2> QED BY <1>4, <2>7, <2>8, <2>9 DEF ServerInv, Triggered
<1> QED BY <1>6, <1>7, <1>8 DEF ServerStep

-----------------------------------------------------------------------------
(* The steps of the task.                                                  *)

TrackInv == Placed(builds, T)

(* A check that throws leaves its callback half done. *)
Tidy == threw \/ TrackInv

(* The jobs after a step. *)
LEMMA TrackInvNext ==
  ASSUME NEW b, NEW r, b = builds', Placed(b, r), r.state = state', r.num = num',
         r.joined = joined', \A id \in Id : r.known[id] \subseteq foundCauses'[id]
  PROVE  TrackInv'
<1> USE JobAssumption
<1> DEFINE t == Track(state', num', joined', foundCauses', TRUE)
<1>1. /\ t.state = r.state /\ t.num = r.num /\ t.joined = r.joined
      /\ \A id \in Id : r.known[id] \subseteq t.known[id]
  BY DEF Track
<1> HIDE DEF t
<1>2. Rooted(t) /\ Nested(t) /\ Numbered(b, t) /\ OneEach(t) /\ JoinsEnd(t)
  BY <1>1 DEF Placed, Arranged, Rooted, Nested, Numbered, OneEach, JoinsEnd
<1>3. JoinsShare(b, t)
  <2> SUFFICES ASSUME NEW j \in Job, t.state[j] = "Joined"
               PROVE  Joinable(b, t, j, t.joined[j])
    BY DEF JoinsShare
  <2>1. Joinable(b, r, j, t.joined[j])
    BY <1>1 DEF Placed, Arranged, JoinsShare
  <2> QED BY <1>1, <2>1 DEF Joinable, Shared
<1>4. Placed(b, t)
  BY <1>2, <1>3 DEF Placed, Arranged
<1>5. Placed(builds', Track(state', num', joined', foundCauses', TRUE))
  BY <1>4 DEF t
<1> QED BY <1>5 DEF TrackInv, T

(* A history that grows keeps the causes. *)
LEMMA GrownCauses ==
  ASSUME BuildsGrow, NEW t, Placed(builds, t)
  PROVE  Placed(builds', t)
<1> USE JobAssumption
<1>1. \A id \in Id : \A n, p, k : Caused(builds, id, n, p, k) => Caused(builds', id, n, p, k)
  BY DEF BuildsGrow, Caused
<1>2. Rooted(t) /\ Nested(t) /\ Numbered(builds', t) /\ OneEach(t) /\ JoinsEnd(t)
  BY <1>1 DEF Placed, Arranged, Numbered
<1>3. JoinsShare(builds', t)
  BY <1>1 DEF Placed, Arranged, JoinsShare, Joinable, Shared
<1> QED BY <1>2, <1>3 DEF Placed, Arranged

LEMMA TParts ==
  /\ T.state = state /\ T.num = num /\ T.joined = joined /\ T.known = foundCauses
BY DEF T, Track

(* The steps that change no job; builds may be added and found. *)
LEMMA QuietPlaced ==
  ASSUME TrackInv, UNCHANGED trackVars, BuildsGrow,
         \A id \in Id : foundCauses[id] \subseteq foundCauses'[id]
  PROVE  TrackInv'
<1>1. Placed(builds', T)
  BY GrownCauses DEF TrackInv
<1>2. T.state = state' /\ T.num = num' /\ T.joined = joined' /\ T.known = foundCauses
  BY TParts DEF trackVars
<1> QED BY <1>1, <1>2, TrackInvNext

(* The jobs after a callback's resolutions, none of which threw. *)
LEMMA SettlePlaced ==
  ASSUME NEW r \in Tracked, r.legal => Placed(builds, r), Settle(r), ~threw',
         builds' = builds, \A id \in Id : r.known[id] \subseteq foundCauses'[id]
  PROVE  TrackInv'
<1>1. r.legal
  BY Zenon DEF Settle
<1> QED BY <1>1, TrackInvNext DEF Settle

(* A started job goes on to another state of a started job. *)
RunningMove ==
  /\ UNCHANGED <<num, joined>>
  /\ \A x \in Job : \/ state'[x] = state[x]
                    \/ state[x] \in Running /\ state'[x] \in Launched

LEMMA RunningPlaced ==
  ASSUME TrackInv, RunningMove, UNCHANGED <<builds, foundCauses>>
  PROVE  TrackInv'
<1> USE JobAssumption
<1> DEFINE t == Track(state', num', joined', foundCauses', TRUE)
<1>1. /\ Rooted(T) /\ Nested(T) /\ Numbered(builds, T) /\ OneEach(T)
      /\ JoinsShare(builds, T) /\ JoinsEnd(T)
  BY DEF TrackInv, Placed, Arranged
<1>2. /\ t.state = state' /\ t.num = T.num /\ t.joined = T.joined /\ t.known = T.known
      /\ t.known = foundCauses' /\ t.num = num' /\ t.joined = joined'
  BY TParts DEF Track, RunningMove
<1> HIDE DEF t
<1>3. \A x \in Job : \/ t.state[x] = T.state[x]
                     \/ T.state[x] \in Launched /\ t.state[x] \in Launched
  BY <1>2, TParts DEF RunningMove, Running, Launched, Ran
<1>4. \A x \in Job : \A s \in {"Absent", "New", "Joined", "Cut"} :
        t.state[x] = s <=> T.state[x] = s
  BY <1>3 DEF Launched, Ran
<1>5. \A x \in Job : t.state[x] \in Launched <=> T.state[x] \in Launched
  BY <1>3
<1>6. Rooted(t)
  BY <1>1, <1>4 DEF Rooted, GivenUp
<1>7. Nested(t)
  <2> SUFFICES ASSUME NEW j \in Job \ {Root}
               PROVE  LET s == t.state[j]
                          p == t.state[Parent[j]]
                      IN /\ p = "Absent" => s = "Absent"
                         /\ p \in GivenUp => s \in {"Absent", "New", "Cut"}
                         /\ s = "Cut" => p \in GivenUp
                         /\ s \in Launched \cup {"Joined"} => p \in Launched
    BY DEF Nested
  <2>1. Parent[j] \in Job
    OBVIOUS
  <2> QED BY <1>1, <1>4, <1>5, <2>1 DEF Nested, GivenUp
<1>8. Numbered(builds, t) /\ OneEach(t)
  BY <1>1, <1>2, <1>5 DEF Numbered, OneEach
<1>9. JoinsShare(builds, t)
  <2> SUFFICES ASSUME NEW j \in Job, t.state[j] = "Joined"
               PROVE  Joinable(builds, t, j, t.joined[j])
    BY DEF JoinsShare
  <2> DEFINE m == t.joined[j]
  <2>1. Joinable(builds, T, j, m) /\ j # Root
    BY <1>1, <1>2, <1>4, <1>6 DEF JoinsShare, Rooted, GivenUp
  <2> HIDE DEF m
  <2>2. m \in Job \ {Root} /\ Parent[m] \in Job
    BY <2>1 DEF Joinable
  <2>3. t.state[m] \notin {"Absent", "Cut"} /\ t.state[Parent[m]] \in Launched
    BY <1>4, <1>5, <2>1, <2>2 DEF Joinable
  <2> QED BY <1>2, <2>1, <2>3 DEF Joinable, Shared, m
<1>10. JoinsEnd(t)
  <2> SUFFICES ASSUME NEW R \in SUBSET Job, R # {}, \A x \in R : t.state[x] = "Joined"
               PROVE  \E x \in R : t.joined[x] \notin R
    BY DEF JoinsEnd
  <2>1. \A x \in R : T.state[x] = "Joined"
    BY <1>4
  <2> QED BY <1>1, <1>2, <2>1 DEF JoinsEnd
<1>11. Placed(builds, t)
  BY <1>6, <1>7, <1>8, <1>9, <1>10 DEF Placed, Arranged
<1> QED BY <1>2, <1>11, TrackInvNext

(* The children are constructed under a job that exists. *)
LEMMA BornPlaced ==
  ASSUME Typed, TrackInv, NEW j \in Job, state[j] # "Absent",
         NEW kids \in {{}, Children(j)}, \A x \in kids : state[x] = "Absent"
  PROVE  Placed(builds, Born(kids))
<1> USE JobAssumption
<1> DEFINE t == Born(kids)
<1>1. /\ Rooted(T) /\ Nested(T) /\ Numbered(builds, T) /\ OneEach(T)
      /\ JoinsShare(builds, T) /\ JoinsEnd(T)
  BY DEF TrackInv, Placed, Arranged
<1>2. /\ t.state = [x \in Job |-> IF x \in kids THEN "New" ELSE state[x]]
      /\ t.num = T.num /\ t.joined = T.joined /\ t.known = T.known
  BY TParts DEF Born, Track
<1>3. \A x \in kids : x \in Job \ {Root} /\ Parent[x] = j
  BY DEF Children
<1> HIDE DEF t
<1>4. \A x \in Job : IF x \in kids THEN T.state[x] = "Absent" /\ t.state[x] = "New"
                                    ELSE t.state[x] = T.state[x]
  BY <1>2, TParts
<1>5. \A x \in Job : \A s \in {"Joined", "Cut", "Killed"} \cup Ran :
        t.state[x] = s <=> T.state[x] = s
  BY <1>4 DEF Ran
<1>6. \A x \in Job : t.state[x] \in Launched <=> T.state[x] \in Launched
  BY <1>5 DEF Launched
<1>7. Rooted(t)
  BY <1>1, <1>4 DEF Rooted, GivenUp
<1>8. Nested(t)
  <2> SUFFICES ASSUME NEW x \in Job \ {Root}
               PROVE  LET s == t.state[x]
                          p == t.state[Parent[x]]
                      IN /\ p = "Absent" => s = "Absent"
                         /\ p \in GivenUp => s \in {"Absent", "New", "Cut"}
                         /\ s = "Cut" => p \in GivenUp
                         /\ s \in Launched \cup {"Joined"} => p \in Launched
    BY DEF Nested
  <2>1. Parent[x] \in Job
    OBVIOUS
  <2>2. /\ T.state[Parent[x]] = "Absent" => T.state[x] = "Absent"
        /\ T.state[Parent[x]] \in GivenUp => T.state[x] \in {"Absent", "New", "Cut"}
        /\ T.state[x] = "Cut" => T.state[Parent[x]] \in GivenUp
        /\ T.state[x] \in Launched \cup {"Joined"} => T.state[Parent[x]] \in Launched
    BY <1>1 DEF Nested
  <2>3. CASE x \in kids
    <3>1. T.state[Parent[x]] # "Absent" /\ t.state[x] = "New"
      BY <1>3, <1>4, <2>3, TParts
    <3>2. t.state[Parent[x]] # "Absent"
      BY <1>4, <2>1, <3>1
    <3> QED BY <3>1, <3>2 DEF Launched, Ran
  <2>4. CASE x \notin kids
    BY <1>4, <1>5, <1>6, <2>1, <2>2, <2>4 DEF GivenUp
  <2> QED BY <2>3, <2>4
<1>9. Numbered(builds, t) /\ OneEach(t)
  BY <1>1, <1>2, <1>6 DEF Numbered, OneEach
<1>10. JoinsShare(builds, t)
  <2> SUFFICES ASSUME NEW x \in Job, t.state[x] = "Joined"
               PROVE  Joinable(builds, t, x, t.joined[x])
    BY DEF JoinsShare
  <2> DEFINE m == t.joined[x]
  <2>1. Joinable(builds, T, x, m) /\ x # Root
    BY <1>1, <1>2, <1>5, <1>7 DEF JoinsShare, Rooted, GivenUp
  <2> HIDE DEF m
  <2>2. m \in Job \ {Root} /\ Parent[m] \in Job
    BY <2>1 DEF Joinable
  <2>3. t.state[m] \notin {"Absent", "Cut"} /\ t.state[Parent[m]] \in Launched
    BY <1>4, <1>6, <2>1, <2>2 DEF Joinable
  <2> QED BY <1>2, <2>1, <2>3 DEF Joinable, Shared, m
<1>11. JoinsEnd(t)
  <2> SUFFICES ASSUME NEW R \in SUBSET Job, R # {}, \A x \in R : t.state[x] = "Joined"
               PROVE  \E x \in R : t.joined[x] \notin R
    BY DEF JoinsEnd
  <2>1. \A x \in R : T.state[x] = "Joined"
    BY <1>5
  <2> QED BY <1>1, <1>2, <2>1 DEF JoinsEnd
<1>12. Placed(builds, t)
  BY <1>7, <1>8, <1>9, <1>10, <1>11 DEF Placed, Arranged
<1> QED BY <1>12 DEF t

(* A job starts locating where its parent was not given up. *)
LEMMA LocatingPlaced ==
  ASSUME NEW b, NEW t \in Tracked, Placed(b, t), NEW j \in Job \ {Root},
         t.state[j] = "New", t.state[Parent[j]] \notin GivenUp,
         NEW r, r.state = [t.state EXCEPT ![j] = "Locating"], r.num = t.num,
         r.joined = t.joined, r.known = t.known
  PROVE  Placed(b, r)
<1> USE JobAssumption
<1>1. /\ Rooted(t) /\ Nested(t) /\ Numbered(b, t) /\ OneEach(t)
      /\ JoinsShare(b, t) /\ JoinsEnd(t)
  BY DEF Placed, Arranged
<1>2. \A x \in Job : IF x = j THEN t.state[x] = "New" /\ r.state[x] = "Locating"
                              ELSE r.state[x] = t.state[x]
  BY TrackedParts
<1>3. \A x \in Job : \A s \in {"Absent", "Joined", "Cut", "Killed"} \cup Ran :
        r.state[x] = s <=> t.state[x] = s
  BY <1>2 DEF Ran
<1>4. \A x \in Job : r.state[x] \in Launched <=> t.state[x] \in Launched
  BY <1>3 DEF Launched
<1>5. Rooted(r)
  BY <1>1, <1>3 DEF Rooted, GivenUp
<1>6. Nested(r)
  <2> SUFFICES ASSUME NEW x \in Job \ {Root}
               PROVE  LET s == r.state[x]
                          p == r.state[Parent[x]]
                      IN /\ p = "Absent" => s = "Absent"
                         /\ p \in GivenUp => s \in {"Absent", "New", "Cut"}
                         /\ s = "Cut" => p \in GivenUp
                         /\ s \in Launched \cup {"Joined"} => p \in Launched
    BY DEF Nested
  <2>1. Parent[x] \in Job
    OBVIOUS
  <2>2. /\ t.state[Parent[x]] = "Absent" => t.state[x] = "Absent"
        /\ t.state[Parent[x]] \in GivenUp => t.state[x] \in {"Absent", "New", "Cut"}
        /\ t.state[x] = "Cut" => t.state[Parent[x]] \in GivenUp
        /\ t.state[x] \in Launched \cup {"Joined"} => t.state[Parent[x]] \in Launched
        /\ x = j => t.state[Parent[x]] \notin GivenUp
    BY <1>1 DEF Nested
  <2>3. /\ r.state[Parent[x]] \in GivenUp <=> t.state[Parent[x]] \in GivenUp
        /\ r.state[x] \in {"Absent", "Cut"} <=> t.state[x] \in {"Absent", "Cut"}
        /\ t.state[x] = "New" /\ x # j => r.state[x] = "New"
    BY <1>2, <1>3, <2>1 DEF GivenUp
  <2> QED BY <1>3, <1>4, <2>1, <2>2, <2>3
<1>7. Numbered(b, r) /\ OneEach(r)
  BY <1>1, <1>4 DEF Numbered, OneEach
<1>8. JoinsShare(b, r)
  <2> SUFFICES ASSUME NEW x \in Job, r.state[x] = "Joined"
               PROVE  Joinable(b, r, x, r.joined[x])
    BY DEF JoinsShare
  <2> DEFINE m == r.joined[x]
  <2>1. Joinable(b, t, x, m) /\ x # Root
    BY <1>1, <1>3, <1>5 DEF JoinsShare, Rooted, GivenUp
  <2> HIDE DEF m
  <2>2. m \in Job \ {Root} /\ Parent[m] \in Job
    BY <2>1 DEF Joinable
  <2>3. r.state[m] \notin {"Absent", "Cut"} /\ r.state[Parent[m]] \in Launched
    BY <1>3, <1>4, <2>1, <2>2 DEF Joinable
  <2> QED BY <2>1, <2>3 DEF Joinable, Shared, m
<1>9. JoinsEnd(r)
  <2> SUFFICES ASSUME NEW R \in SUBSET Job, R # {}, \A x \in R : r.state[x] = "Joined"
               PROVE  \E x \in R : r.joined[x] \notin R
    BY DEF JoinsEnd
  <2>1. \A x \in R : t.state[x] = "Joined"
    BY <1>3
  <2> QED BY <1>1, <2>1 DEF JoinsEnd
<1> QED BY <1>5, <1>6, <1>7, <1>8, <1>9 DEF Placed, Arranged

LEMMA ContinuePlaced ==
  ASSUME Typed, Safe, TrackInv, ServerInv, ~threw', NEW j \in Job,
         pc[j] \in {"init", "ready"}, Continue(j), UNCHANGED <<builds, foundCauses>>
  PROVE  TrackInv'
<1> USE JobAssumption
<1> DEFINE kids == IF opts.capturePipeline THEN Children(j) ELSE {}
           t == Born(kids)
           r == Resolved(t, j)
           st == [r.state EXCEPT ![j] = IF @ = "New" /\ r.legal THEN "Locating" ELSE @]
           u == Track(st, r.num, r.joined, r.known, r.legal)
<1>1. kids \in {{}, Children(j)} /\ Settle(u)
  BY Zenon DEF Continue, Born
<1> HIDE DEF kids
<1>2. state[j] # "Absent" /\ \A x \in kids : state[x] = "Absent"
  BY <1>1 DEF Safe, Constructed, Children
<1>3. Placed(builds, t)
  BY <1>1, <1>2, BornPlaced
<1>4. t \in Tracked /\ t.known = foundCauses
  BY BornType DEF Typed
<1>5. Existing(t)
  BY <1>4 DEF Typed, FoundExist, Existing
<1> HIDE DEF t
<1>6. r \in Tracked /\ r.known = foundCauses
  BY <1>4, <1>5, ResolvedMoves DEF Typed, TypeOK, Moves
<1>7. r.legal => /\ Placed(builds, r)
                 /\ r.state[j] = "New" => j # Root /\ r.state[Parent[j]] \notin GivenUp
  <2>1. CausedOnce(builds) /\ ServerTypeOK
    BY DEF ServerInv, Triggered, Typed, TypeOK
  <2> QED BY <1>3, <1>4, <1>5, <2>1, ResolvedPlaced
<1> HIDE DEF r
<1>8. /\ u \in Tracked /\ u.state = st /\ u.num = r.num /\ u.joined = r.joined
      /\ u.known = r.known /\ u.legal = r.legal
  <2>1. st \in [Job -> JobState \cup {"Absent"}]
    BY <1>6, TrackedParts DEF JobState
  <2> HIDE DEF st
  <2>2. u \in Tracked
    BY <1>6, <2>1, TrackedParts, TrackType
  <2>3. /\ u.state = st /\ u.num = r.num /\ u.joined = r.joined
        /\ u.known = r.known /\ u.legal = r.legal
    BY DEF Track
  <2> QED BY <2>2, <2>3
<1>9. u.legal => Placed(builds, u)
  <2> SUFFICES ASSUME r.legal PROVE Placed(builds, u)
    BY <1>8
  <2>1. CASE r.state[j] = "New"
    <3>1. u.state = [r.state EXCEPT ![j] = "Locating"]
      <4> HIDE DEF u
      <4> QED BY <1>8, <2>1
    <3> HIDE DEF u
    <3> QED BY <1>6, <1>7, <1>8, <2>1, <3>1, LocatingPlaced
  <2>2. CASE r.state[j] # "New"
    <3>1. u.state = r.state
      <4>1. st = r.state
        BY <1>6, <2>2, TrackedParts
      <4> HIDE DEF u, st
      <4> QED BY <1>8, <4>1
    <3>2. /\ u.num = r.num /\ u.joined = r.joined /\ u.known = r.known
          /\ Placed(builds, r)
      <4> HIDE DEF u
      <4> QED BY <1>7, <1>8
    <3> HIDE DEF u
    <3> QED BY <3>1, <3>2, SameParts DEF Placed
  <2> QED BY <2>1, <2>2
<1> HIDE DEF u
<1>10. foundCauses' = foundCauses /\ u.known = foundCauses
  BY <1>6, <1>8
<1> QED BY <1>1, <1>8, <1>9, <1>10, SettlePlaced

LEMMA ResolvePlaced ==
  ASSUME Typed, TrackInv, ServerInv, ~threw', NEW id \in Id, ResolveOne(id)
  PROVE  TrackInv'
<1>1. UNCHANGED <<builds, foundCauses>>
  BY DEF ResolveOne, serverVars
<1>2. PICK j \in unresolved : Settle(Resolved(T, j))
  BY DEF ResolveOne
<1>3. T \in Tracked /\ T.known = foundCauses
  BY TType DEF Typed
<1>4. Existing(T) /\ j \in Job
  BY <1>3 DEF Typed, TypeOK, FoundExist, Existing
<1>5. CausedOnce(builds) /\ ServerTypeOK
  BY DEF ServerInv, Triggered, Typed, TypeOK
<1> DEFINE r == Resolved(T, j)
<1>6. r \in Tracked /\ r.known = foundCauses
  BY <1>3, <1>4, <1>5, ResolvedMoves DEF Moves
<1>7. r.legal => Placed(builds, r)
  BY <1>3, <1>4, <1>5, ResolvedPlaced DEF TrackInv
<1>8. Settle(r)
  BY <1>2
<1> HIDE DEF r
<1> QED BY <1>1, <1>6, <1>7, <1>8, SettlePlaced

LEMMA LocatePlaced ==
  ASSUME Typed, TrackInv, ServerInv, ~threw', NEW id \in Id, LocateResponse(id)
  PROVE  TrackInv'
<1> USE JobAssumption
<1> DEFINE n == nextNum[id]
           t == Located(id, n)
           main == MainJob(t, id, n)
           r == Answered(id, n)
<1>1. builds' = builds
  BY DEF LocateResponse, serverVars
<1>2. CausedOnce(builds) /\ ServerTypeOK
  BY DEF ServerInv, Triggered, Typed, TypeOK
<1>3. CASE UNCHANGED <<trackVars, foundCauses>>
  BY <1>1, <1>3, QuietPlaced DEF BuildsGrow
<1>4. ASSUME n \in DOMAIN builds[id], Settle(r), foundCauses' = r.known
      PROVE  TrackInv'
  <2>1. /\ t \in Tracked /\ t.state = state /\ t.num = num /\ t.joined = joined
        /\ t.known = [foundCauses EXCEPT ![id] = @ \cup {n}]
        /\ Moves(t, r)
    BY <1>4, LocatedMoves
  <2>2. CASE ~Determinable(t, id, n)
    <3>1. r = Thrown(t)
      BY <2>2, Zenon DEF Answered
    <3> HIDE DEF t, n, r
    <3>2. r.legal = FALSE
      BY <2>1, <3>1, ThrownMoves
    <3> QED BY <1>4, <3>2, Zenon DEF Settle
  <2>3. CASE Determinable(t, id, n)
    <3>1. r = IF main = NoJob THEN t ELSE Streaming(t, main, n)
      BY <2>3, Zenon DEF Answered
    <3> HIDE DEF t, r
    <3>2. /\ Existing(t)
          /\ \A d \in Id : foundCauses[d] \subseteq t.known[d]
      BY <1>4, <2>1 DEF Typed, TypeOK, FoundExist, Existing
    <3>3. Placed(builds, t)
      <4>1. Rooted(t) /\ Nested(t) /\ Numbered(builds, t) /\ OneEach(t) /\ JoinsEnd(t)
        BY <2>1, TParts
        DEF TrackInv, Placed, Arranged, Rooted, Nested, Numbered, OneEach, JoinsEnd
      <4>2. JoinsShare(builds, t)
        <5> SUFFICES ASSUME NEW j \in Job, t.state[j] = "Joined"
                     PROVE  Joinable(builds, t, j, t.joined[j])
          BY DEF JoinsShare
        <5>1. Joinable(builds, T, j, t.joined[j])
          BY <2>1, TParts DEF TrackInv, Placed, Arranged, JoinsShare
        <5> QED BY <2>1, <3>2, <5>1, TParts DEF Joinable, Shared
      <4> QED BY <4>1, <4>2 DEF Placed, Arranged
    <3>4. r.legal => Placed(builds, r)
      <4>1. CASE main = NoJob
        BY <3>1, <3>3, <4>1
      <4>2. CASE main # NoJob
        <5>1. main \in CauseChildren(t, id, n, Ran)
          BY <1>2, <2>1, <3>2, <4>2, MainJobIn
        <5>2. r = Streaming(t, main, n)
          BY <3>1, <4>2
        <5>3. n \in Nat
          BY <2>1, <5>1, TrackedParts DEF CauseChildren
        <5> HIDE DEF main, n
        <5>4. RightNumber(t, main, n) /\ main \in Job \ {Root}
          BY <5>1, <5>3 DEF RightNumber, Sourced, BuildNumber, CauseChildren
        <5>5. t.state[Parent[main]] \in Launched
          BY <5>1 DEF CauseChildren, Launched
        <5> QED BY <1>2, <2>1, <3>2, <3>3, <5>2, <5>4, <5>5, StreamingPlaced
      <4> QED BY <4>1, <4>2
    <3>5. r \in Tracked /\ r.known = t.known
      BY <2>1 DEF Moves
    <3> QED BY <1>1, <1>4, <3>4, <3>5, SettlePlaced
  <2> QED BY <2>2, <2>3
<1> HIDE DEF r, n
<1> QED BY <1>3, <1>4, LocateCases DEF n, r

LEMMA InitPlaced == Init => TrackInv
<1> SUFFICES ASSUME Init PROVE TrackInv
  OBVIOUS
<1> USE JobAssumption
<1>1. /\ T.state = [j \in Job |-> IF j = Root THEN "New" ELSE "Absent"]
      /\ T.num = [j \in Job |-> IF j = Root THEN RootNumber ELSE -1]
  BY TParts DEF Init
<1>2. Rooted(T) /\ Nested(T) /\ JoinsShare(builds, T) /\ JoinsEnd(T)
  BY <1>1 DEF Rooted, Nested, JoinsShare, JoinsEnd, GivenUp, Launched, Ran
<1>3. Numbered(builds, T)
  BY <1>1 DEF Numbered, Launched, Ran
<1>4. OneEach(T)
  BY <1>1 DEF OneEach
<1> QED BY <1>2, <1>3, <1>4 DEF TrackInv, Placed, Arranged

(* What a job does on its own: it stays where it is, or goes on. *)
LEMMA WorkMoves ==
  ASSUME Typed, Safe, NEW j \in Job,
         FinishTimer(j) \/ StreamResponse(j) \/ FinishResponse(j) \/ DownloadResponse(j)
  PROVE  RunningMove /\ UNCHANGED <<builds, foundCauses, phase>>
<1>1. UNCHANGED <<num, joined, builds, foundCauses, phase>>
  BY DEF FinishTimer, StreamResponse, FinishResponse, DownloadResponse, searchVars,
         serverVars, runVars
<1>2. state[j] \in Running
  BY DEF FinishTimer, StreamResponse, FinishResponse, DownloadResponse, Safe, Timed,
         Running
<1>3. \/ state' = state
      \/ \E s \in {"Finishing", "Downloading", "Done", "Killed", "Queued"} :
           state' = [state EXCEPT ![j] = s]
  BY DEF FinishTimer, StreamResponse, FinishResponse, DownloadResponse, Enter, Again,
         Stuck
<1>4. \A x \in Job : \/ state'[x] = state[x]
                     \/ /\ x = j
                        /\ state'[x] \in {"Finishing", "Downloading", "Done", "Killed",
                                          "Queued"}
  BY <1>3 DEF Typed, TypeOK
<1>5. RunningMove
  BY <1>1, <1>2, <1>4 DEF RunningMove, Launched, Ran
<1> QED BY <1>1, <1>5

LEMMA JobStepPlaced ==
  ASSUME Typed, Safe, TrackInv, ServerInv, ~threw', NEW j \in Job, JobStep(j)
  PROVE  TrackInv'
<1>1. CASE JobInitResponse(j)
  <2>1. pc[j] = "init" /\ UNCHANGED <<builds, foundCauses>>
    BY <1>1 DEF JobInitResponse, serverVars
  <2>2. CASE Continue(j)
    BY <2>1, <2>2, ContinuePlaced
  <2>3. CASE UNCHANGED <<num, joined>> /\ (Again(j) \/ Stuck(j))
    BY <2>1, <2>3, QuietPlaced DEF Again, Stuck, trackVars, BuildsGrow
  <2> QED BY <1>1, <2>2, <2>3 DEF JobInitResponse
<1>2. CASE JobInitReady(j)
  <2>1. /\ pc[j] = "ready" /\ Continue(j)
        /\ UNCHANGED <<builds, foundCauses>>
    BY <1>2 DEF JobInitReady, searchVars, serverVars
  <2> QED BY <2>1, ContinuePlaced
<1> QED BY <1>1, <1>2, WorkMoves, RunningPlaced DEF JobStep

(* The tick, a search that only waits, the report, Jenkins. *)
LEMMA OtherStepPlaced ==
  ASSUME Typed, TrackInv,
         \/ Tick \/ ReportStep \/ Jenkins \/ UNCHANGED vars
         \/ \E id \in Id : CtorResponse(id) \/ SearchTimer(id) \/ ResolveDone(id)
  PROVE  TrackInv'
<1>1. UNCHANGED <<trackVars, foundCauses>>
  BY DEF Tick, ReportStep, AskPipelineResponse, DescribeResponse, WriteResult, Exit,
         Jenkins, CtorResponse, SearchTimer, ResolveDone, vars, searchVars
<1>2. UNCHANGED serverVars \/ Jenkins
  BY DEF Tick, ReportStep, AskPipelineResponse, DescribeResponse, WriteResult, Exit,
         CtorResponse, SearchTimer, ResolveDone, vars
<1>3. BuildsGrow
  BY <1>2, ServerStepType DEF Jenkins, Typed, TypeOK, BuildsGrow, serverVars
<1> QED BY <1>1, <1>3, QuietPlaced

LEMMA ServerChanges ==
  ASSUME [Next]_vars
  PROVE  Jenkins \/ UNCHANGED serverVars
BY DEF Next, Tick, TaskStep, JobStep, JobInitResponse, JobInitReady, FinishTimer,
       StreamResponse, FinishResponse, DownloadResponse, SearchStep, CtorResponse,
       SearchTimer, ResolveOne, ResolveDone, LocateResponse, ReportStep,
       AskPipelineResponse, DescribeResponse, WriteResult, Exit, vars

LEMMA ServerInvKept ==
  ASSUME Typed, ServerInv, [Next]_vars
  PROVE  ServerInv'
<1>1. CASE Jenkins
  BY <1>1, ServerInvNext DEF Jenkins, Typed, TypeOK
<1>2. CASE UNCHANGED serverVars
  BY <1>2 DEF ServerInv, serverVars
<1> QED BY <1>1, <1>2, ServerChanges

(* What was thrown stays thrown. *)
LEMMA ThrewStays ==
  ASSUME [Next]_vars, ~threw'
  PROVE  ~threw
<1>1. ASSUME NEW j \in Job, JobStep(j) PROVE ~threw
  <2>1. CASE Continue(j)
    BY <2>1, Zenon DEF Continue, Settle
  <2>2. CASE threw' = threw
    BY <2>2
  <2> QED BY <1>1, <2>1, <2>2
      DEF JobStep, JobInitResponse, JobInitReady, FinishTimer, StreamResponse,
          FinishResponse, DownloadResponse, runVars
<1>2. ASSUME NEW id \in Id, SearchStep(id) PROVE ~threw
  <2>1. CASE \E r : Settle(r)
    BY <2>1, Zenon DEF Settle
  <2>2. CASE threw' = threw
    BY <2>2
  <2>3. CASE LocateResponse(id)
    BY <2>1, <2>2, <2>3, LocateCases
  <2>4. CASE ~LocateResponse(id)
    BY <1>2, <2>1, <2>2, <2>4
    DEF SearchStep, CtorResponse, SearchTimer, ResolveOne, ResolveDone, runVars
  <2> QED BY <2>3, <2>4
<1>3. CASE Tick \/ ReportStep \/ Jenkins \/ UNCHANGED vars
  BY <1>3 DEF Tick, ReportStep, AskPipelineResponse, DescribeResponse, WriteResult,
              Exit, Jenkins, vars, runVars
<1> QED BY <1>1, <1>2, <1>3 DEF Next, TaskStep

LEMMA PlacedNext ==
  ASSUME Typed, Safe, Tidy, ServerInv, [Next]_vars
  PROVE  Tidy' /\ ServerInv'
<1>1. ASSUME ~threw' PROVE TrackInv'
  <2>1. TrackInv
    BY <1>1, ThrewStays DEF Tidy
  <2>2. ASSUME NEW id \in Id, SearchStep(id)
        PROVE  TrackInv'
    BY <1>1, <2>1, <2>2, OtherStepPlaced, ResolvePlaced, LocatePlaced DEF SearchStep
  <2>3. ASSUME Tick \/ ReportStep \/ Jenkins \/ UNCHANGED vars
        PROVE  TrackInv'
    BY <2>1, <2>3, OtherStepPlaced
  <2> QED BY <1>1, <2>1, <2>2, <2>3, JobStepPlaced DEF Next, TaskStep
<1> QED BY <1>1, ServerInvKept DEF Tidy

LEMMA AlwaysPlaced == Spec => [](Tidy /\ ServerInv)
<1>1. Init => Tidy /\ ServerInv
  BY InitPlaced, ServerInvInit DEF Tidy
<1>2. Typed /\ Safe /\ Tidy /\ ServerInv /\ [Next]_vars => Tidy' /\ ServerInv'
  BY PlacedNext
<1> QED BY <1>1, <1>2, AlwaysTyped, AlwaysSafe, PTL DEF Spec

(* The two that the proofs about the end need of the state after a step. *)
LEMMA PlacedIs ==
  /\ TrackInv => CutBelow /\ OneFollower
  /\ TrackInv' => CutBelow' /\ OneFollower'
BY DEF TrackInv, Placed, Arranged, Nested, OneEach, CutBelow, OneFollower, GivenUp, T,
       Track

-----------------------------------------------------------------------------
(* The theorems.                                                           *)

(* As long as no state check has thrown (Util.fail leaves a callback half     *)
(* done), nothing is followed below a job that was joined or cut: Job.Cut    *)
(* and SetJoined reach the children that exist when they are called, and a   *)
(* child that is constructed later, or located later, is cut by              *)
(* ResolveIfKnown before it is joined or started.                          *)
THEOREM CutsReachBelow == Spec => [](NeverThrows => CutBelow)
<1>1. Tidy => (NeverThrows => CutBelow)
  BY PlacedIs DEF Tidy, NeverThrows
<1> QED BY <1>1, AlwaysPlaced, PTL

(* As long as no state check has thrown, no build is followed twice, in any   *)
(* mode and whatever requests fail.  A build that has several of the          *)
(* pipeline's builds as its causes belongs to several places of the tree;     *)
(* whichever search or resolution comes first, DetermineMainJob gives the     *)
(* build to one of them, or a check throws: with the plugin, where a follower *)
(* that is downloading is no master, only after a second job took the number. *)
THEOREM BuildsHaveOneFollower == Spec => [](NeverThrows => OneFollower)
<1>1. Tidy => (NeverThrows => OneFollower)
  BY PlacedIs DEF Tidy, NeverThrows
<1> QED BY <1>1, AlwaysPlaced, PTL

(* As long as no state check has thrown, a joined job shares a build with the *)
(* job it points to, which follows that build or none yet, and the chain of   *)
(* pointers that findWorkingJob walks ends at a job that was not joined.     *)
THEOREM JoinsAreSound == Spec => [](NeverThrows => JoinSound)
<1>1. Tidy => (NeverThrows => JoinSound)
  <2> SUFFICES ASSUME TrackInv PROVE JoinSound
    BY DEF Tidy, NeverThrows
  <2> USE JobAssumption
  <2> DEFINE given == {j \in Job : state[j] = "Joined"}
  <2>1. /\ Rooted(T) /\ JoinsShare(builds, T) /\ JoinsEnd(T)
    BY DEF TrackInv, Placed, Arranged
  <2>2. ASSUME NEW j \in given
        PROVE  LET m == joined[j]
               IN /\ m \in Job \ {j} /\ Ident[m] = Ident[j]
                  /\ state[m] \notin {"Absent", "Cut"}
                  /\ \E n \in foundCauses[Ident[j]] :
                       /\ {BuildNumber(T, Parent[j]), BuildNumber(T, Parent[m])}
                            \subseteq CauseSet(Ident[j], n)
                       /\ num[m] \in {-1, n}
    <3> DEFINE m == joined[j]
    <3>1. Joinable(builds, T, j, m)
      BY <2>1, TParts DEF JoinsShare
    <3>2. PICK n \in foundCauses[Ident[j]] :
            Shared(builds, T, j, m, n) /\ num[m] \in {-1, n}
      BY <3>1, TParts DEF Joinable
    <3>3. {BuildNumber(T, Parent[j]), BuildNumber(T, Parent[m])}
            \subseteq CauseSet(Ident[j], n)
      BY <3>2 DEF Shared, Caused, CauseSet, BuildNumber
    <3> QED BY <3>1, <3>2, <3>3, TParts DEF Joinable
  <2>3. \A S \in SUBSET given : S # {} => \E j \in S : joined[j] \notin S
    BY <2>1, TParts DEF JoinsEnd
  <2> QED BY <2>2, <2>3 DEF JoinSound
<1> QED BY <1>1, AlwaysPlaced, PTL


-----------------------------------------------------------------------------
(* Without the plugin's download, and with no job killed, no throw can give a *)
(* build two followers: every follower is a master, and DetermineMainJob      *)
(* looks for masters before it gives a build away.                          *)

(* Build n of job j's project has no follower that DetermineMainJob sees. *)
Unclaimed(t, j, n) ==
  j \in CauseChildren(t, Ident[j], n, Ran) /\ Masters(t, Ident[j], n) = {}

(* Only job j may get a number, and only that of an unclaimed build. *)
Takes(t, r, j) ==
  /\ \A x \in Job \ {j} : r.num[x] = t.num[x]
  /\ r.num[j] # t.num[j] => opts.captureConsole /\ Unclaimed(t, j, r.num[j])

LEMMA MainUnclaimed ==
  ASSUME ServerTypeOK, NEW t \in Tracked, Existing(t), NEW j \in Job, NEW n,
         MainJob(t, Ident[j], n) = j, t.state[j] \in Pending
  PROVE  Unclaimed(t, j, n)
<1> USE JobAssumption
<1>1. j \in CauseChildren(t, Ident[j], n, Ran)
  BY MainJobIn
<1>2. ASSUME Masters(t, Ident[j], n) # {} PROVE FALSE
  <2>1. j \in Masters(t, Ident[j], n)
    BY <1>2 DEF MainJob
  <2> QED BY <2>1 DEF Masters, Mastering, Pending
<1> QED BY <1>1, <1>2 DEF Unclaimed

LEMMA StreamingTakes ==
  ASSUME NEW t \in Tracked, NEW j \in Job, NEW n, RightNumber(t, j, n),
         j # Root /\ t.state[j] \in Pending => Unclaimed(t, j, n)
  PROVE  Takes(t, Streaming(t, j, n), j)
<1>1. CASE ~opts.captureConsole /\ t.state[j] \in Pending
  <2> DEFINE k == t.num[j]
             r == Started(t, j, "Finishing", k)
  <2>1. Streaming(t, j, n) = r
    BY <1>1, Zenon DEF Streaming
  <2>2. k \in Nat \cup {-1} /\ [t.num EXCEPT ![j] = k] = t.num
    BY TrackedParts
  <2> HIDE DEF k
  <2>3. r.num = t.num
    BY <2>2, FinishingType
  <2> QED BY <2>1, <2>3 DEF Takes
<1>2. CASE opts.captureConsole /\ t.state[j] \in Pending
  <2> DEFINE u == Started(t, j, "Streaming", n)
             r == WithOthersJoined(u, j)
  <2>1. Streaming(t, j, n) = r
    BY <1>2, Zenon DEF Streaming
  <2>2. u \in Tracked /\ u.num = [t.num EXCEPT ![j] = n]
    BY StreamedType DEF RightNumber
  <2> HIDE DEF u
  <2>3. r.num = [t.num EXCEPT ![j] = n]
    BY <2>2, WithOthersJoinedMoves
  <2> HIDE DEF r
  <2>4. r.num[j] = n /\ \A x \in Job \ {j} : r.num[x] = t.num[x]
    BY <2>3, TrackedParts
  <2> QED BY <1>2, <2>1, <2>4 DEF Takes, RightNumber
<1>3. CASE opts.captureConsole /\ t.state[j] \notin Pending \cup GivenUp
  <2>1. Streaming(t, j, n) = WithOthersJoined(t, j)
    BY <1>3, Zenon DEF Streaming
  <2> QED BY <2>1, WithOthersJoinedMoves DEF Takes
<1>4. CASE t.state[j] \notin Pending /\ (~opts.captureConsole \/ t.state[j] \in GivenUp)
  <2>1. Streaming(t, j, n) = Thrown(t)
    BY <1>4, Zenon DEF Streaming
  <2> QED BY <2>1, ThrownMoves DEF Takes
<1> QED BY <1>1, <1>2, <1>3, <1>4

LEMMA ResolvedTakes ==
  ASSUME ServerTypeOK, NEW t \in Tracked, Existing(t), NEW j \in Job
  PROVE  Takes(t, Resolved(t, j), j)
<1> USE JobAssumption
<1> DEFINE id == Ident[j]
           hits == {n \in t.known[id] : j = MainJob(t, id, n)
                                          \/ j \in Secondaries(t, id, n)}
           first == CHOOSE n \in hits : \A m \in hits : n <= m
           tried == IF hits = {} THEN t.known[id]
                                 ELSE {n \in t.known[id] : n <= first}
           safe == \A n \in tried : Determinable(t, id, n)
           main == MainJob(t, id, first)
           due == /\ t.state[j] \in Pending /\ j # Root
                  /\ t.state[Parent[j]] \notin GivenUp
<1>1. ASSUME NEW r, r.num = t.num
      PROVE  Takes(t, r, j)
  BY <1>1 DEF Takes
<1>2. CASE t.state[j] \notin Pending
  <2>1. Resolved(t, j) = t
    BY <1>2, Zenon DEF Resolved
  <2> QED BY <1>1, <2>1
<1>3. CASE t.state[j] \in Pending /\ j = Root
  <2>1. Resolved(t, j) = Streaming(t, j, t.num[j])
    BY <1>3, Zenon DEF Resolved
  <2>2. RightNumber(t, j, t.num[j])
    BY <1>3, TrackedParts DEF RightNumber
  <2> QED BY <1>3, <2>1, <2>2, StreamingTakes
<1>4. CASE t.state[j] \in Pending /\ j # Root /\ t.state[Parent[j]] \in GivenUp
  <2>1. Resolved(t, j) = CutTree(t, j)
    BY <1>4, Zenon DEF Resolved
  <2>2. CutTree(t, j).num = t.num
    BY DEF CutTree, Track
  <2> QED BY <1>1, <2>1, <2>2
<1>5. CASE due /\ ~safe
  <2>1. Resolved(t, j) = Thrown(t)
    BY <1>5, Zenon DEF Resolved
  <2> QED BY <1>1, <2>1, ThrownMoves
<1>6. CASE due /\ safe /\ hits = {}
  <2>1. Resolved(t, j) = t
    BY <1>6, Zenon DEF Resolved
  <2> QED BY <1>1, <2>1
<1>7. CASE due /\ safe /\ hits # {}
  <2>1. first \in hits
    <3>1. hits \in SUBSET Nat
      BY TrackedParts
    <3>2. \E n \in hits : \A m \in hits : n <= m
      BY <1>7, <3>1, NatMin
    <3> QED BY <3>2, Zenon
  <2>2. id \in Id /\ first \in t.known[id] /\ first \in Nat
    BY <2>1, TrackedParts
  <2>3. main \in CauseChildren(t, id, first, Ran) \cup {NoJob}
    <3> HIDE DEF first
    <3> QED BY <2>2, MainJobIn
  <2>4. CASE main = j
    <3>1. Resolved(t, j) = Streaming(t, j, first)
      BY <1>7, <2>4, Zenon DEF Resolved
    <3>2. Unclaimed(t, j, first)
      <4> HIDE DEF first
      <4> QED BY <1>7, <2>4, MainUnclaimed
    <3> HIDE DEF first, main, safe
    <3>3. RightNumber(t, j, first)
      BY <1>7, <2>2, <2>3, <2>4
      DEF RightNumber, Sourced, BuildNumber, CauseChildren
    <3> QED BY <3>1, <3>2, <3>3, StreamingTakes
  <2>5. CASE main # j
    <3>1. Resolved(t, j) = JoinedTo(t, {j}, main)
      BY <1>7, <2>5, Zenon DEF Resolved
    <3>2. JoinedTo(t, {j}, main).num = t.num
      BY DEF JoinedTo, Track
    <3> QED BY <1>1, <3>1, <3>2
  <2> QED BY <2>4, <2>5
<1> QED BY <1>2, <1>3, <1>4, <1>5, <1>6, <1>7

LEMMA AnsweredTakes ==
  ASSUME Typed, NEW id \in Id, NEW n \in DOMAIN builds[id]
  PROVE  \E j \in Job : Takes(Located(id, n), Answered(id, n), j)
<1> USE JobAssumption
<1> DEFINE t == Located(id, n)
           ok == Determinable(t, id, n)
           main == MainJob(t, id, n)
           r == Answered(id, n)
<1>1. t \in Tracked /\ t.known = [foundCauses EXCEPT ![id] = @ \cup {n}]
  BY LocatedMoves
<1>2. /\ ServerTypeOK /\ Existing(t) /\ n \in t.known[id] /\ n \in Nat
  BY <1>1 DEF Typed, TypeOK, FoundExist, Existing, ServerTypeOK
<1>3. main \in CauseChildren(t, id, n, Ran) \cup {NoJob}
  <2> HIDE DEF t
  <2> QED BY <1>1, <1>2, MainJobIn
<1>4. CASE r = Thrown(t) \/ r = t
  <2> HIDE DEF t, r
  <2>1. r.num = t.num
    BY <1>1, <1>4, ThrownMoves
  <2>2. Takes(t, r, Root)
    BY <2>1 DEF Takes
  <2> QED BY <2>2 DEF t, r
<1>5. CASE ok /\ main # NoJob
  <2>1. r = Streaming(t, main, n)
    BY <1>5, Zenon DEF Answered
  <2>2. main \in Job /\ Ident[main] = id
    BY <1>3, <1>5 DEF CauseChildren
  <2>3. MainJob(t, Ident[main], n) = main
    BY <2>2
  <2> HIDE DEF t, r, main, ok
  <2>4. RightNumber(t, main, n)
    BY <1>2, <1>3, <1>5, <2>2 DEF RightNumber, Sourced, BuildNumber, CauseChildren
  <2>5. t.state[main] \in Pending => Unclaimed(t, main, n)
    BY <1>1, <1>2, <2>2, <2>3, MainUnclaimed
  <2>6. Takes(t, r, main)
    BY <1>1, <2>1, <2>2, <2>4, <2>5, StreamingTakes
  <2> QED BY <2>2, <2>6 DEF t, r
<1>6. r = Thrown(t) \/ r = t \/ (ok /\ main # NoJob)
  BY Zenon DEF Answered
<1> QED BY <1>4, <1>5, <1>6

(* The same of a step. *)
TakesOne ==
  \E j \in Job :
    /\ \A x \in Job \ {j} : num'[x] = num[x]
    /\ num'[j] # num[j] =>
         /\ j # Root /\ opts.captureConsole
         /\ num'[j] \in foundCauses'[Ident[j]] /\ state[Parent[j]] \in Ran
         /\ \A i \in Job \ {Root} :
              Ident[i] = Ident[j] /\ state[i] \in Mastering /\ state[Parent[i]] \in Ran
                => ~Caused(builds, Ident[j], num'[j], Parent[i], num[Parent[i]])

LEMMA TakenOne ==
  ASSUME NEW t \in Tracked, t.num = num, NEW r, num' = r.num,
         NEW j \in Job, Takes(t, r, j), Existing(t),
         \A x \in Job : t.state[x] = state[x] \/ (state[x] = "Absent" /\ t.state[x] = "New"),
         \A id \in Id : t.known[id] \subseteq foundCauses'[id]
  PROVE  TakesOne
<1> USE JobAssumption
<1>1. \A x \in Job : t.state[x] \in Ran => t.state[x] = state[x]
  BY DEF Ran
<1>2. \A x \in Job : state[x] \in Ran \cup Mastering => t.state[x] = state[x]
  BY DEF Ran, Mastering
<1>3. ASSUME num'[j] # num[j]
      PROVE  /\ j # Root /\ opts.captureConsole
             /\ num'[j] \in foundCauses'[Ident[j]] /\ state[Parent[j]] \in Ran
             /\ \A i \in Job \ {Root} :
                  Ident[i] = Ident[j] /\ state[i] \in Mastering /\ state[Parent[i]] \in Ran
                    => ~Caused(builds, Ident[j], num'[j], Parent[i], num[Parent[i]])
  <2> DEFINE n == num'[j]
             id == Ident[j]
  <2>1. opts.captureConsole /\ Unclaimed(t, j, n)
    BY <1>3 DEF Takes
  <2>2. j \in Job \ {Root} /\ Parent[j] \in Job /\ id \in Id
    BY <2>1 DEF Unclaimed, CauseChildren
  <2>3. n \in t.known[id] /\ t.state[Parent[j]] \in Ran
    BY <2>1 DEF Unclaimed, CauseChildren
  <2>4. ASSUME NEW i \in Job \ {Root}, Ident[i] = id, state[i] \in Mastering,
               state[Parent[i]] \in Ran,
               Caused(builds, id, n, Parent[i], num[Parent[i]])
        PROVE  FALSE
    <3>1. Parent[i] \in Job
      OBVIOUS
    <3>2. BuildNumber(t, Parent[i]) \in CauseSet(id, n)
      BY <2>4 DEF Caused, CauseSet, BuildNumber
    <3>3. i \in CauseChildren(t, id, n, Ran) /\ t.state[i] \in Mastering
      BY <1>2, <2>3, <2>4, <3>1, <3>2 DEF CauseChildren, Mastering
    <3> QED BY <2>1, <3>3 DEF Unclaimed, Masters
  <2> QED BY <1>1, <2>1, <2>2, <2>3, <2>4
<1> QED BY <1>3 DEF Takes, TakesOne

(* Every job that has a number has a known build and is seen as its follower. *)
Claimed ==
  /\ ~opts.teamBuildPlugin
  /\ \A x \in Job : /\ state[x] \notin {"Killed", "Downloading"}
                    /\ opts.captureConsole => state[x] # "Queued"
  /\ \A x \in Job \ {Root} : num[x] # -1 =>
       /\ num[x] \in foundCauses[Ident[x]] /\ state[Parent[x]] \in Ran
       /\ state[x] \in Mastering \cup {"Queued"}
  /\ OneFollower

LEMMA ClaimedMoves ==
  ASSUME Typed, Safe, Claimed, NumbersMove, TakesOne, opts' = opts,
         \A id \in Id : foundCauses[id] \subseteq foundCauses'[id],
         \A x \in Job : state'[x] = state[x]
                          \/ state'[x] \notin {"Killed", "Downloading", "Queued"}
  PROVE  Claimed'
<1> USE JobAssumption
<1>1. PICK j \in Job :
        /\ \A x \in Job \ {j} : num'[x] = num[x]
        /\ num'[j] # num[j] =>
             /\ j # Root /\ opts.captureConsole
             /\ num'[j] \in foundCauses'[Ident[j]] /\ state[Parent[j]] \in Ran
             /\ \A i \in Job \ {Root} :
                  Ident[i] = Ident[j] /\ state[i] \in Mastering /\ state[Parent[i]] \in Ran
                    => ~Caused(builds, Ident[j], num'[j], Parent[i], num[Parent[i]])
  BY DEF TakesOne
<1>2. \A x \in Job : state[x] \in Ran => state'[x] = state[x]
  BY DEF NumbersMove, Ran, Pending
<1>3. \A x \in Job \ {Root} : num'[x] # num[x] => state'[x] = "Streaming"
  BY DEF NumbersMove
<1>4. ASSUME NEW x \in Job \ {Root}, num'[x] # -1
      PROVE  /\ num'[x] \in foundCauses'[Ident[x]] /\ state'[Parent[x]] \in Ran
             /\ state'[x] \in Mastering \cup {"Queued"}
  <2>1. Parent[x] \in Job /\ Ident[x] \in Id
    OBVIOUS
  <2>2. CASE num'[x] = num[x]
    BY <1>2, <1>4, <2>1, <2>2 DEF Claimed, Ran, Mastering
  <2>3. CASE num'[x] # num[x]
    BY <1>1, <1>2, <1>3, <2>1, <2>3 DEF Mastering
  <2> QED BY <2>2, <2>3
<1>5. ASSUME NEW i \in Job \ {j}, Ident[i] = Ident[j], num[i] # -1, num'[j] # num[j],
             num[i] = num'[j]
      PROVE  FALSE
  <2>1. i \in Job \ {Root}
    BY <1>1, <1>5
  <2>2. state[i] \in Mastering /\ state[Parent[i]] \in Ran
    BY <1>1, <1>5, <2>1 DEF Claimed
  <2>3. Caused(builds, Ident[i], num[i], Parent[i], num[Parent[i]])
    BY <1>5, <2>1, TrackSoundDef DEF Safe, TracksSoundly
  <2> QED BY <1>1, <1>5, <2>1, <2>2, <2>3
<1>6. OneFollower'
  <2> SUFFICES ASSUME NEW x \in Job, NEW y \in Job, x # y, Ident[x] = Ident[y],
                      num'[x] # -1, num'[x] = num'[y]
               PROVE  FALSE
    BY DEF OneFollower
  <2>1. CASE num'[x] = num[x] /\ num'[y] = num[y]
    BY <2>1 DEF Claimed, OneFollower
  <2>2. CASE num'[x] # num[x]
    BY <1>1, <1>5, <2>2
  <2>3. CASE num'[y] # num[y]
    BY <1>1, <1>5, <2>3
  <2> QED BY <2>1, <2>2, <2>3
<1>7. \A x \in Job : /\ state'[x] \notin {"Killed", "Downloading"}
                     /\ opts'.captureConsole => state'[x] # "Queued"
  BY DEF Claimed
<1> QED BY <1>4, <1>6, <1>7 DEF Claimed

LEMMA ClaimedContinue ==
  ASSUME Typed, Safe, Claimed, NEW j \in Job, pc[j] \in {"init", "ready"}, Continue(j),
         UNCHANGED <<opts, foundCauses>>
  PROVE  Claimed'
<1> DEFINE kids == IF opts.capturePipeline THEN Children(j) ELSE {}
           t == Born(kids)
           r == Resolved(t, j)
<1>1. NumbersMove /\ \E c \in {{}, Children(j)} : ChildrenBorn(j, c)
  BY ContinueBears
<1>2. \A x \in Job : state'[x] = state[x]
                       \/ state'[x] \notin {"Killed", "Downloading", "Queued"}
  BY <1>1 DEF ChildrenBorn, Children
<1>3. num' = r.num
  <2> DEFINE st == [r.state EXCEPT ![j] = IF @ = "New" /\ r.legal THEN "Locating" ELSE @]
             u == Track(st, r.num, r.joined, r.known, r.legal)
  <2>1. Settle(u)
    BY Zenon DEF Continue, Born
  <2>2. u.num = r.num
    BY DEF Track
  <2> HIDE DEF u, r
  <2> QED BY <2>1, <2>2 DEF Settle
<1>4. \A x \in kids : x \in Job /\ state[x] = "Absent"
  <2>1. \A x \in Children(j) : x \in Job /\ x # Root /\ pc[Parent[x]] \in {"init", "ready"}
    BY JobAssumption DEF Children
  <2> QED BY <2>1 DEF Safe, Constructed
<1> HIDE DEF kids
<1>5. /\ t \in Tracked /\ t.num = num /\ t.known = foundCauses
      /\ t.state = [x \in Job |-> IF x \in kids THEN "New" ELSE state[x]]
  BY BornType DEF Typed
<1>6. ServerTypeOK /\ Existing(t)
  BY <1>5 DEF Typed, TypeOK, FoundExist, Existing
<1> HIDE DEF t
<1>7. Takes(t, r, j)
  BY <1>5, <1>6, ResolvedTakes
<1>8. \A x \in Job : t.state[x] = state[x] \/ (state[x] = "Absent" /\ t.state[x] = "New")
  BY <1>4, <1>5
<1> HIDE DEF r
<1>9. TakesOne
  BY <1>3, <1>5, <1>6, <1>7, <1>8, TakenOne
<1> QED BY <1>1, <1>2, <1>9, ClaimedMoves

LEMMA ClaimedSearch ==
  ASSUME Typed, Safe, Claimed, NEW id \in Id, ResolveOne(id) \/ LocateResponse(id)
  PROVE  Claimed'
<1>1. JobsMove /\ NumbersMove /\ opts' = opts
  BY ResolveMoves, LocateMoves DEF JobsMove, NumbersMove, ResolveOne, LocateResponse
<1>2. \A x \in Job : state'[x] = state[x]
                       \/ state'[x] \notin {"Killed", "Downloading", "Queued"}
  BY <1>1 DEF JobsMove
<1>3. CASE ResolveOne(id)
  <2>1. PICK j \in unresolved : Settle(Resolved(T, j))
    BY <1>3 DEF ResolveOne
  <2>2. T \in Tracked /\ T.state = state /\ T.num = num /\ T.known = foundCauses
    BY TType DEF Typed
  <2>3. Existing(T) /\ j \in Job /\ ServerTypeOK
    BY <2>2 DEF Typed, TypeOK, FoundExist, Existing
  <2>4. Takes(T, Resolved(T, j), j)
    BY <2>2, <2>3, ResolvedTakes
  <2>5. foundCauses' = foundCauses
    BY <1>3 DEF ResolveOne
  <2> DEFINE r == Resolved(T, j)
  <2>6. num' = r.num
    BY <2>1 DEF Settle
  <2> HIDE DEF r
  <2>7. TakesOne
    BY <2>2, <2>3, <2>4, <2>5, <2>6, TakenOne DEF r
  <2> QED BY <1>1, <1>2, <2>5, <2>7, ClaimedMoves
<1>4. CASE LocateResponse(id)
  <2> DEFINE n == nextNum[id]
             t == Located(id, n)
             r == Answered(id, n)
  <2>1. \/ UNCHANGED <<trackVars, foundCauses>>
        \/ n \in DOMAIN builds[id] /\ Settle(r) /\ foundCauses' = r.known
    BY <1>4, LocateCases
  <2>2. CASE UNCHANGED <<trackVars, foundCauses>>
    BY <1>1, <2>2 DEF trackVars, Claimed, OneFollower
  <2>3. CASE n \in DOMAIN builds[id] /\ Settle(r) /\ foundCauses' = r.known
    <3> HIDE DEF n
    <3>1. /\ t \in Tracked /\ t.state = state /\ t.num = num
          /\ t.known = [foundCauses EXCEPT ![id] = @ \cup {n}] /\ Moves(t, r)
      BY <2>3, LocatedMoves
    <3>2. PICK j \in Job : Takes(t, r, j)
      BY <2>3, AnsweredTakes
    <3> HIDE DEF t, r
    <3>3. num' = r.num /\ foundCauses' = t.known
      BY <2>3, <3>1 DEF Settle, Moves
    <3>4. Existing(t) /\ \A d \in Id : foundCauses[d] \subseteq t.known[d]
      BY <2>3, <3>1 DEF Typed, TypeOK, FoundExist, Existing
    <3>5. TakesOne
      BY <3>1, <3>2, <3>3, <3>4, TakenOne
    <3> QED BY <1>1, <1>2, <3>3, <3>4, <3>5, ClaimedMoves
  <2> QED BY <2>1, <2>2, <2>3
<1> QED BY <1>3, <1>4

LEMMA ClaimedWork ==
  ASSUME "finishStatus" \notin Faults, Typed, Safe, Claimed, NEW j \in Job,
         FinishTimer(j) \/ StreamResponse(j) \/ FinishResponse(j) \/ DownloadResponse(j)
  PROVE  Claimed'
<1> USE JobAssumption
<1>1. RunningMove /\ foundCauses' = foundCauses
  BY WorkMoves
<1>2. /\ opts'.teamBuildPlugin = opts.teamBuildPlugin
      /\ opts'.captureConsole => opts.captureConsole
  BY DEF FinishTimer, StreamResponse, FinishResponse, DownloadResponse, Typed, TypeOK,
         Options
<1>3. \/ state' = state
      \/ \E s \in {"Finishing", "Done"} : state' = [state EXCEPT ![j] = s]
      \/ ~opts.captureConsole /\ state' = [state EXCEPT ![j] = "Queued"]
  <2>1. CASE FinishTimer(j)
    BY <2>1 DEF FinishTimer, Enter
  <2>2. CASE StreamResponse(j)
    <3>1. Enter(j, "Finishing") \/ Again(j) \/ Stuck(j)
      BY <2>2, Zenon DEF StreamResponse
    <3> QED BY <3>1 DEF Enter, Again, Stuck
  <2>3. CASE FinishResponse(j)
    <3>1. ~Fault("finishStatus")
      BY DEF Fault
    <3>2. Enter(j, IF opts.teamBuildPlugin THEN "Downloading" ELSE "Done")
            \/ Again(j) \/ Stuck(j)
      BY <2>3, <3>1, Zenon DEF FinishResponse
    <3>3. Enter(j, "Done") \/ Again(j) \/ Stuck(j)
      <4> HIDE DEF Enter
      <4> QED BY <3>2, Zenon DEF Claimed
    <3> QED BY <3>3 DEF Enter, Again, Stuck
  <2>4. CASE DownloadResponse(j)
    BY <2>4 DEF DownloadResponse, Claimed
  <2> QED BY <2>1, <2>2, <2>3, <2>4
<1>4. \A x \in Job : /\ state'[x] \notin {"Killed", "Downloading"}
                     /\ opts'.captureConsole => state'[x] # "Queued"
  BY <1>2, <1>3 DEF Claimed, Typed, TypeOK
<1>5. \A x \in Job : state'[x] = state[x] \/ state'[x] \in Mastering \cup {"Queued"}
  BY <1>3 DEF Typed, TypeOK, Mastering
<1>6. \A x \in Job \ {Root} : num[x] # -1 =>
        /\ num[x] \in foundCauses[Ident[x]] /\ state'[Parent[x]] \in Ran
        /\ state'[x] \in Mastering \cup {"Queued"}
  BY <1>5 DEF Claimed, Ran, Mastering
<1>7. num' = num
  BY <1>1 DEF RunningMove
<1> QED BY <1>1, <1>2, <1>4, <1>6, <1>7 DEF Claimed, OneFollower

LEMMA ClaimedNext ==
  ASSUME "finishStatus" \notin Faults, Typed, Safe, Claimed, [Next]_vars
  PROVE  Claimed'
<1>1. ASSUME UNCHANGED <<state, num, opts, foundCauses>>
      PROVE  Claimed'
  BY <1>1 DEF Claimed, OneFollower
<1>2. ASSUME NEW j \in Job, JobStep(j)
      PROVE  Claimed'
  <2>1. CASE JobInitResponse(j)
    <3>1. CASE Continue(j)
      BY <2>1, <3>1, ClaimedContinue DEF JobInitResponse
    <3>2. CASE Again(j) \/ Stuck(j)
      BY <1>1, <2>1, <3>2, <3>1 DEF JobInitResponse, Again, Stuck
    <3> QED BY <2>1, <3>1, <3>2 DEF JobInitResponse
  <2>2. CASE JobInitReady(j)
    BY <2>2, ClaimedContinue DEF JobInitReady, searchVars
  <2> QED BY <1>2, <2>1, <2>2, ClaimedWork DEF JobStep
<1>3. ASSUME NEW id \in Id, SearchStep(id)
      PROVE  Claimed'
  <2>1. CASE CtorResponse(id) \/ SearchTimer(id) \/ ResolveDone(id)
    BY <1>1, <2>1 DEF CtorResponse, SearchTimer, ResolveDone, trackVars
  <2> QED BY <1>3, <2>1, ClaimedSearch DEF SearchStep
<1>4. CASE Tick \/ ReportStep \/ Jenkins \/ UNCHANGED vars
  BY <1>1, <1>4 DEF Tick, ReportStep, AskPipelineResponse, DescribeResponse, WriteResult,
                    Exit, Jenkins, vars, trackVars, searchVars
<1> QED BY <1>2, <1>3, <1>4 DEF Next, TaskStep

(* In the task's modes without the plugin, and as long as Jenkins answers the *)
(* questions about a build's end, no build is ever followed twice, whatever   *)
(* else fails, in whatever order the callbacks come, and also after a state   *)
(* check has thrown: whoever takes a build, in the search that finds it or in *)
(* a later resolution, DetermineMainJob has looked at every follower before.  *)
THEOREM BuildsAreTakenOnce ==
  ASSUME \A o \in OptionSet : ~o.teamBuildPlugin, "finishStatus" \notin Faults
  PROVE  Spec => []OneFollower
<1>1. Init => Claimed
  <2> SUFFICES ASSUME Init PROVE Claimed
    OBVIOUS
  <2> QED BY JobAssumption DEF Init, Claimed, OneFollower
<1>2. Typed /\ Safe /\ Claimed /\ [Next]_vars => Claimed'
  BY ClaimedNext
<1>3. Claimed => OneFollower
  BY DEF Claimed
<1> QED BY <1>1, <1>2, <1>3, AlwaysTyped, AlwaysSafe, PTL DEF Spec
=============================================================================
