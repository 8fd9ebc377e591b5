------------------------- MODULE RepoWatch_proofs -------------------------
(***************************************************************************)
(* A retry is spent once, and nothing that is kept about an open PR is     *)
(* dropped because a list leaves the PR out: for any PRs, goroutines and   *)
(* limits.                                                                 *)
(*                                                                         *)
(* RetriesOnce carries itself.  KeptWhileOpen needs to know what an old    *)
(* copy with an old PRTotal still tells of the open PRs.  As long as none  *)
(* is opened, there is a set of PRs that holds all that are open and all   *)
(* that are in the copy, and has no more of them than PRTotal says          *)
(* (Covered).  So a copy with as many PRs as its total is that set, and    *)
(* misses no open PR.  It stays true of a copy however old it gets, and of *)
(* what is put together from two copies and a list.                        *)
(***************************************************************************)
EXTENDS RepoWatch, FiniteSetTheorems, WellFoundedInduction, NaturalsInduction, TLAPS

----------------------------------------------------------------------------
(* What copies tell.                                                       *)

(* The PRs of S are among at most n that were open once, as are all that     *)
(* are open now.                                                           *)
Covered(S, n) ==
  /\ n \in Nat
  /\ ~ opened => \E O \in SUBSET PRs : OpenPRs \subseteq O /\ S \subseteq O /\ Cardinality(O) <= n

(* A list below the limit has every open PR.                                *)
Whole(list) ==
  list # None /\ Cardinality(In(list)) < PRLimit /\ ~ opened => OpenPRs \subseteq In(list)

(* The steps of goroutines that may run before the repo is loaded.          *)
Early == {"idle", "fetch", "mark", "apply"}

JobOK(j) ==
  /\ total = None => j.at \in Early
  /\ j.at \in {"mark", "apply", "retry"} => Covered(In(j.copy), j.total)
  /\ j.at \in {"details", "splice"} => Covered(In(j.copy) \cup In(j.got), j.total)
  /\ j.at \in {"base", "note", "renote", "copy", "details", "splice"} => Whole(j.list)
  /\ j.at \in {"renote", "copy", "details", "splice", "sync base", "sync"} => j.list # None
  /\ j.at \in {"list", "base", "note", "relist", "renote", "copy"} => In(j.got) = {}

(* The inductive invariant: what is shown, and what every goroutine carries, *)
(* tells so much of the open PRs.                                          *)
IInv ==
  /\ TypeOK /\ RetriesOnce
  /\ IF total = None THEN In(fetched) = {} ELSE Covered(In(fetched), total)
  /\ \A t \in Threads : JobOK(job[t])

----------------------------------------------------------------------------
(* Sets of PRs.                                                            *)

LEMMA Sizes ==
  ASSUME NEW S \in SUBSET PRs, NEW O \in SUBSET PRs
  PROVE  /\ Cardinality(S) \in Nat
         /\ S \subseteq O => /\ Cardinality(S) <= Cardinality(O)
                             /\ Cardinality(S) = Cardinality(O) => S = O
<1>1. IsFiniteSet(PRs)
  BY ConstantsAssumption
<1>2. IsFiniteSet(S) /\ IsFiniteSet(O)
  BY <1>1, FS_Subset
<1>3. Cardinality(S) \in Nat
  BY <1>2, FS_CardinalityType
<1>4. S \subseteq O => /\ Cardinality(S) <= Cardinality(O)
                       /\ Cardinality(S) = Cardinality(O) => S = O
  BY <1>2, FS_Subset
<1> QED
  BY <1>3, <1>4

(* Fewer than n newest of S are all of it.                                  *)
LEMMA NewestAll ==
  ASSUME NEW S \in SUBSET PRs, NEW n \in Nat, Cardinality(Newest(S, n)) < n
  PROVE  Newest(S, n) = S
<1> DEFINE Newer(p) == {q \in S : q > p}
           Rest == S \ Newest(S, n)
           T == {Cardinality(Newer(p)) : p \in Rest}
<1>1. \A p : Newer(p) \in SUBSET PRs /\ Cardinality(Newer(p)) \in Nat
  BY Sizes
<1>2. S \subseteq Nat /\ Newest(S, n) \in SUBSET PRs /\ Newest(S, n) = {p \in S : Cardinality(Newer(p)) < n}
  BY ConstantsAssumption DEF Newest
<1> SUFFICES ASSUME Rest # {}
             PROVE  FALSE
  BY <1>2
<1>3. T \subseteq Nat /\ T # {}
  BY <1>1
<1> HIDE DEF T
<1>4. PICK c \in T : \A d \in T : ~ (<<d, c>> \in OpToRel(<, Nat))
  BY <1>3, NatLessThanWellFounded, WFMin
<1>5. PICK p \in Rest : c = Cardinality(Newer(p))
  BY <1>4 DEF T
<1>6. \A d \in T : ~ (d < c)
  BY <1>3, <1>4 DEF OpToRel
<1>7. ASSUME NEW q \in Newer(p)
      PROVE  q \in Newest(S, n)
  <2>0. S \subseteq Nat /\ p \in Nat /\ q \in S /\ q \in Nat /\ q > p
    BY <1>2
  <2>1. Newer(q) \subseteq Newer(p) /\ q \notin Newer(q) /\ q \in Newer(p) /\ q \in S
    <3>1. \A r \in S : r > q => r > p
      BY ONLY <2>0
    <3>2. ~ (q > q)
      BY ONLY <2>0
    <3>3. Newer(q) \subseteq Newer(p)
      BY Zenon, <3>1
    <3>4. q \notin Newer(q)
      BY Zenon, <3>2
    <3> QED
      BY <2>0, <3>3, <3>4
  <2>2. Newer(q) \in SUBSET PRs /\ Newer(p) \in SUBSET PRs /\ Newer(q) # Newer(p)
    BY <1>1, <2>1
  <2>3. /\ Cardinality(Newer(q)) \in Nat /\ Cardinality(Newer(p)) \in Nat
        /\ Cardinality(Newer(q)) <= Cardinality(Newer(p))
        /\ Cardinality(Newer(q)) # Cardinality(Newer(p))
    <3> HIDE DEF Newer
    <3> QED
      BY <1>1, <2>1, <2>2, Sizes
  <2>4. Cardinality(Newer(q)) < Cardinality(Newer(p))
    <3> HIDE DEF Newer
    <3> QED
      BY <2>3
  <2> QED
    BY <1>2, <1>5, <1>6, <2>1, <2>4 DEF T
<1>8. Cardinality(Newer(p)) <= Cardinality(Newest(S, n))
  BY <1>1, <1>2, <1>7, Sizes
<1>9. ~ Cardinality(Newer(p)) < n
  BY <1>2, <1>5
<1>10. Cardinality(Newer(p)) \in Nat /\ Cardinality(Newest(S, n)) \in Nat
  BY <1>1, <1>2, Sizes
<1> HIDE DEF Newer
<1> QED
  BY <1>8, <1>9, <1>10

LEMMA NoneApart ==
  /\ None \notin PRs /\ None \notin Nat /\ None \notin Copy /\ None \notin Listing
  /\ PRs \subseteq Nat /\ PRLimit \in Nat
BY ConstantsAssumption

(* What GitHub answers.                                                    *)
LEMMA Answers ==
  ASSUME TypeOK
  PROVE  /\ OpenPRs \in SUBSET PRs /\ Listed \in SUBSET OpenPRs
         /\ Cardinality(OpenPRs) \in Nat
         /\ ListNow \in Listing /\ In(ListNow) = Listed
         /\ \A S \in SUBSET PRs : Details(S) \in Copies /\ In(Details(S)) = S
<1>1. OpenPRs \in SUBSET PRs /\ Listed \in SUBSET OpenPRs
  BY DEF OpenPRs, Listed, Newest
<1>2. Cardinality(OpenPRs) \in Nat
  BY <1>1, Sizes
<1>3. \A p \in PRs : gh[p].head \in Nat /\ gh[p].checks \in CheckStates
  BY DEF TypeOK, OnGitHub
<1>4. ListNow \in Listing
  BY <1>3 DEF ListNow, Listing
<1>5. In(ListNow) = Listed
  <2>1. \A p \in PRs : ListNow[p] # None <=> p \in Listed
    BY <1>3, NoneApart DEF ListNow
  <2> QED
    BY <1>1, <2>1 DEF In
<1>6. ASSUME NEW S \in SUBSET PRs
      PROVE  Details(S) \in Copies /\ In(Details(S)) = S
  <2>1. base \in Nat
    BY DEF TypeOK
  <2>2. \A p \in PRs : [head |-> gh[p].head, checks |-> gh[p].checks, base |-> base] \in Copy
    BY <1>3, <2>1 DEF Copy
  <2>3. \A p \in PRs : Details(S)[p] # None <=> p \in S
    BY <2>2, NoneApart DEF Details
  <2>4. Details(S) \in Copies
    BY <2>2 DEF Details, Copies
  <2> QED
    BY <2>3, <2>4 DEF In
<1> QED
  BY <1>1, <1>2, <1>4, <1>5, <1>6

(* A list below the limit is whole.                                        *)
LEMMA ListWhole ==
  ASSUME TypeOK
  PROVE  Whole(ListNow)
<1>1. Cardinality(Listed) < PRLimit => Listed = OpenPRs
  BY Answers, NewestAll, NoneApart DEF Listed
<1> QED
  BY <1>1, Answers DEF Whole

LEMMA InPRs == \A list : In(list) \in SUBSET PRs
BY DEF In

(* A full fetch covers what it brings.                                     *)
LEMMA FetchCovers ==
  ASSUME TypeOK
  PROVE  Covered(In(Details(Listed)), Cardinality(OpenPRs))
<1>1. Cardinality(OpenPRs) \in Nat /\ Cardinality(OpenPRs) <= Cardinality(OpenPRs)
  BY Answers
<1>2. In(Details(Listed)) = Listed /\ Listed \subseteq OpenPRs /\ OpenPRs \in SUBSET PRs
  BY Answers
<1> QED
  BY <1>1, <1>2 DEF Covered

(* A copy with fewer PRs is still covered.                                  *)
LEMMA FewerCovered ==
  ASSUME NEW S, NEW T, NEW n, Covered(T, n), S \subseteq T
  PROVE  Covered(S, n)
BY DEF Covered

(* What is fetched later is open, and so among those the copy is covered by. *)
LEMMA MoreCovered ==
  ASSUME NEW S, NEW T, NEW n, Covered(S, n), T \subseteq OpenPRs
  PROVE  Covered(S \cup T, n)
BY DEF Covered

(* A copy that is not cut off holds every PR that is open.                  *)
LEMMA WholeCopy ==
  ASSUME TypeOK, NEW copy, NEW n, Covered(In(copy), n), ~ (n > Cardinality(In(copy))), ~ opened
  PROVE  OpenPRs \subseteq In(copy)
<1>1. PICK O \in SUBSET PRs : OpenPRs \subseteq O /\ In(copy) \subseteq O /\ Cardinality(O) <= n
  BY DEF Covered
<1>2. n \in Nat /\ Cardinality(O) \in Nat /\ Cardinality(In(copy)) \in Nat
      /\ Cardinality(In(copy)) <= Cardinality(O)
  BY <1>1, InPRs, Sizes DEF Covered
<1>3. Cardinality(In(copy)) = Cardinality(O)
  BY <1>1, <1>2
<1>4. In(copy) = O
  BY <1>1, <1>3, InPRs, Sizes
<1> QED
  BY <1>1, <1>4

(* Time takes nothing away from this, as long as PRs only close.             *)
Shrinks == opened' \/ (~ opened /\ OpenPRs' \subseteq OpenPRs)

LEMMA OlderCovered ==
  ASSUME Shrinks \/ (opened' = opened /\ OpenPRs' = OpenPRs), NEW S, NEW n, Covered(S, n)
  PROVE  Covered(S, n)'
BY DEF Covered, Shrinks

LEMMA OlderWhole ==
  ASSUME Shrinks, NEW list, Whole(list)
  PROVE  Whole(list)'
BY DEF Whole, Shrinks, In

LEMMA OlderJobs ==
  ASSUME Shrinks, NEW j, JobOK(j), total' = total
  PROVE  JobOK(j)'
<1>1. \A S, n : Covered(S, n) => Covered(S, n)'
  BY OlderCovered
<1>2. Whole(j.list) => Whole(j.list)'
  BY OlderWhole
<1> QED
  BY <1>1, <1>2 DEF JobOK, In

----------------------------------------------------------------------------
(* Goroutines.                                                             *)

LEMMA Nothing == NoCopies \in Copies /\ NoCopies \in Listing /\ In(NoCopies) = {}
BY NoneApart DEF NoCopies, Copies, Listing, In

LEMMA IdleOK == Idle \in Job
BY Nothing DEF Idle, Job, Steps

LEMMA Parts ==
  ASSUME IInv, NEW t \in Threads
  PROVE  job[t] \in Job /\ JobOK(job[t]) /\ TypeOK
BY DEF IInv, TypeOK

(* A job that still tells the truth when GitHub and the repo are as before.  *)
LEMMA SameJobs ==
  ASSUME NEW j, JobOK(j), UNCHANGED <<github, loads>>
  PROVE  JobOK(j)'
<1>1. opened' = opened /\ OpenPRs' = OpenPRs /\ total' = total
  BY DEF github, loads, OpenPRs
<1>2. \A S, n : Covered(S, n) => Covered(S, n)'
  BY <1>1, OlderCovered
<1>3. Whole(j.list) => Whole(j.list)'
  BY <1>1 DEF Whole, In
<1> QED
  BY <1>1, <1>2, <1>3 DEF JobOK, In

(* Goroutine t goes on as j, with what it took.                             *)
LEMMA GoesOn ==
  ASSUME IInv, NEW t \in Threads, NEW j \in Job, Becomes(t, j), JobOK(j),
         UNCHANGED <<github, loads, kept, counts>>, watch' \in Watch,
         paused' \in BOOLEAN, limited' \in BOOLEAN, failed' \in BOOLEAN,
         edits' \in 0..MaxEdits
  PROVE  IInv'
<1>1. TypeOK'
  BY DEF IInv, TypeOK, Becomes, github, loads, kept, counts
<1>2. RetriesOnce'
  BY DEF IInv, RetriesOnce, github, kept, counts
<1>3. \A S, n : Covered(S, n) => Covered(S, n)'
  BY OlderCovered DEF github, OpenPRs
<1>4. (IF total = None THEN In(fetched) = {} ELSE Covered(In(fetched), total))'
  BY <1>3 DEF IInv, loads, In
<1>5. \A u \in Threads : JobOK(job[u])'
  <2> SUFFICES ASSUME NEW u \in Threads
               PROVE  JobOK(job[u])'
    OBVIOUS
  <2>1. PICK k : k = job'[u]
    OBVIOUS
  <2>2. k = j \/ k = job[u]
    BY <2>1 DEF IInv, TypeOK, Becomes
  <2>3. JobOK(k)
    BY <2>2, Parts
  <2>4. JobOK(k)'
    BY ONLY <2>3, SameJobs, UNCHANGED <<github, loads, kept, counts>>
  <2> QED
    BY <2>1, <2>4
<1> QED
  BY <1>1, <1>2, <1>4, <1>5 DEF IInv

LEMMA InputTyped ==
  ASSUME TypeOK, NEW kind, Input(kind)
  PROVE  edits' \in 0..MaxEdits
BY NoneApart, ConstantsAssumption DEF TypeOK, Input

(* What a goroutine does when it starts over at a step.                     *)
LEMMA Afresh ==
  ASSUME IInv, NEW s \in Steps,
         s \in {"idle", "fetch"} \/ (s \in {"fresh", "part"} \cup Commands /\ total # None)
  PROVE  [Idle EXCEPT !.at = s] \in Job /\ JobOK([Idle EXCEPT !.at = s])
<1> DEFINE j == [Idle EXCEPT !.at = s]
<1>1. j \in Job
  BY IdleOK DEF Job
<1>2. j.at = s
  BY DEF Idle
<1> HIDE DEF j
<1>3. JobOK(j)
  BY <1>2 DEF JobOK, Early, Commands
<1> QED
  BY <1>1, <1>3 DEF j

LEMMA IdleFresh ==
  ASSUME IInv
  PROVE  Idle \in Job /\ JobOK(Idle)
<1>1. Idle.at = "idle"
  BY DEF Idle
<1> QED
  BY <1>1, IdleOK DEF JobOK, Early

LEMMA LookFullInv ==
  ASSUME IInv, NEW t \in Threads, LookFull(t)
  PROVE  IInv'
<1>1. PICK j : j = [Idle EXCEPT !.at = "fetch"]
  OBVIOUS
<1>2. j \in Job /\ JobOK(j)
  BY <1>1, Afresh DEF Steps, Calls
<1> QED
  BY <1>1, <1>2, GoesOn DEF LookFull, status, IInv, TypeOK

LEMMA RefreshAfterCommandInv ==
  ASSUME IInv, NEW t \in Threads, RefreshAfterCommand(t)
  PROVE  IInv'
<1>1. PICK j : j = [Idle EXCEPT !.at = "fetch"]
  OBVIOUS
<1>2. j \in Job /\ JobOK(j)
  BY <1>1, Afresh DEF Steps, Calls
<1>3. edits' \in 0..MaxEdits
  BY InputTyped DEF RefreshAfterCommand, IInv
<1> QED
  BY <1>1, <1>2, <1>3, GoesOn DEF RefreshAfterCommand, status, IInv, TypeOK

LEMMA CommandInv ==
  ASSUME IInv, NEW t \in Threads, NEW p \in PRs, NEW kind \in Commands, Command(t, p, kind)
  PROVE  IInv'
<1>0. fetched \in Copies /\ fetched[p] # None
  BY DEF Command, IInv, TypeOK
<1>1. PICK j : j = [Idle EXCEPT !.at = kind, !.pr = p, !.head = fetched[p].head]
  OBVIOUS
<1>2. j \in Job /\ j.at = kind
  <2>1. fetched[p].head \in Nat
    BY <1>0 DEF Copies, Copy
  <2>2. kind \in Steps
    BY DEF Steps
  <2> QED
    BY <1>1, <2>1, <2>2, IdleOK DEF Job, Idle
<1>3. total # None
  BY <1>0 DEF IInv, In
<1>4. JobOK(j)
  BY <1>2, <1>3 DEF JobOK, Commands
<1>5. edits' \in 0..MaxEdits
  BY InputTyped DEF Command, IInv
<1> QED
  BY <1>1, <1>2, <1>4, <1>5, GoesOn DEF Command, status, IInv, TypeOK

LEMMA CallFailsInv ==
  ASSUME IInv, NEW t \in Threads, CallFails(t)
  PROVE  IInv'
<1>1. edits' \in 0..MaxEdits
  BY InputTyped DEF CallFails, IInv
<1>2. paused' \in BOOLEAN /\ limited' \in BOOLEAN /\ failed' \in BOOLEAN
  BY DEF CallFails, IInv, TypeOK
<1> QED
  BY <1>1, <1>2, IdleFresh, GoesOn DEF CallFails, IInv, TypeOK

LEMMA FetchFullInv ==
  ASSUME IInv, NEW t \in Threads, FetchFull(t)
  PROVE  IInv'
<1>1. PICK j : j = [Idle EXCEPT !.at = "mark", !.copy = Details(Listed), !.total = Cardinality(OpenPRs)]
  OBVIOUS
<1>2. j.at = "mark" /\ j.copy = Details(Listed) /\ j.total = Cardinality(OpenPRs)
  BY <1>1 DEF Idle
<1>3. TypeOK
  BY DEF IInv
<1>4. Details(Listed) \in Copies /\ Cardinality(OpenPRs) \in Nat
  BY <1>3, Answers
<1>5. j \in Job
  BY <1>1, <1>4, IdleOK DEF Job, Steps
<1>6. Covered(In(j.copy), j.total)
  BY <1>2, <1>3, FetchCovers
<1>7. JobOK(j)
  BY <1>2, <1>6 DEF JobOK, Early
<1> QED
  BY <1>1, <1>5, <1>7, GoesOn DEF FetchFull, status, IInv, TypeOK

LEMMA MarkInv ==
  ASSUME IInv, NEW t \in Threads, Mark(t)
  PROVE  IInv'
<1>0. PICK i : i = job[t]
  OBVIOUS
<1>1. PICK j : j = [i EXCEPT !.at = "apply", !.back = "sync list"]
  OBVIOUS
<1>2. i \in Job /\ JobOK(i) /\ i.at = "mark"
  BY <1>0, Parts DEF Mark, At
<1>3. j \in Job /\ j.at = "apply" /\ j.copy = i.copy /\ j.total = i.total
  BY <1>1, <1>2 DEF Job, Steps
<1>4. JobOK(j)
  BY <1>2, <1>3 DEF JobOK, Early
<1> QED
  BY <1>0, <1>1, <1>3, <1>4, GoesOn DEF Mark, IInv, TypeOK

LEMMA SyncListInv ==
  ASSUME IInv, NEW t \in Threads, SyncList(t)
  PROVE  IInv'
<1>1. total # None
  BY Parts DEF SyncList, At, JobOK, Early
<1>2. CASE Becomes(t, [job[t] EXCEPT !.at = "sync base", !.list = ListNow]) /\ UNCHANGED edits
  <2>1. PICK j : j = [job[t] EXCEPT !.at = "sync base", !.list = ListNow]
    OBVIOUS
  <2>2. ListNow \in Listing /\ ListNow # None
    BY Answers, NoneApart DEF IInv
  <2>3. j \in Job /\ j.at = "sync base" /\ j.list # None
    BY <2>1, <2>2, Parts DEF Job, Steps
  <2>4. JobOK(j)
    BY <1>1, <2>3 DEF JobOK
  <2> QED
    BY <1>2, <2>1, <2>3, <2>4, GoesOn DEF SyncList, status, IInv, TypeOK
<1>3. CASE Input("call fails") /\ Becomes(t, [Idle EXCEPT !.at = "fresh"])
  <2>1. PICK j : j = [Idle EXCEPT !.at = "fresh"]
    OBVIOUS
  <2>2. j \in Job /\ JobOK(j)
    BY <1>1, <2>1, Afresh DEF Steps
  <2>3. edits' \in 0..MaxEdits
    BY <1>3, InputTyped DEF IInv
  <2> QED
    BY <1>3, <2>1, <2>2, <2>3, GoesOn DEF SyncList, status, IInv, TypeOK
<1> QED
  BY <1>2, <1>3 DEF SyncList

LEMMA SyncBaseInv ==
  ASSUME IInv, NEW t \in Threads, SyncBase(t)
  PROVE  IInv'
<1>1. total # None /\ job[t].list # None
  BY Parts DEF SyncBase, At, JobOK, Early
<1>2. CASE Becomes(t, [job[t] EXCEPT !.at = "sync", !.base = base]) /\ UNCHANGED edits
  <2>1. PICK j : j = [job[t] EXCEPT !.at = "sync", !.base = base]
    OBVIOUS
  <2>2. base \in Nat
    BY DEF IInv, TypeOK
  <2>3. j \in Job /\ j.at = "sync" /\ j.list = job[t].list
    BY <2>1, <2>2, Parts DEF Job, Steps
  <2>4. JobOK(j)
    BY <1>1, <2>3 DEF JobOK
  <2> QED
    BY <1>2, <2>1, <2>3, <2>4, GoesOn DEF SyncBase, status, IInv, TypeOK
<1>3. CASE Input("call fails") /\ Becomes(t, [Idle EXCEPT !.at = "fresh"])
  <2>1. PICK j : j = [Idle EXCEPT !.at = "fresh"]
    OBVIOUS
  <2>2. j \in Job /\ JobOK(j)
    BY <1>1, <2>1, Afresh DEF Steps
  <2>3. edits' \in 0..MaxEdits
    BY <1>3, InputTyped DEF IInv
  <2> QED
    BY <1>3, <2>1, <2>2, <2>3, GoesOn DEF SyncBase, status, IInv, TypeOK
<1> QED
  BY <1>2, <1>3 DEF SyncBase

LEMMA SyncInv ==
  ASSUME IInv, NEW t \in Threads, Sync(t)
  PROVE  IInv'
<1>1. job[t] \in Job /\ total # None /\ job[t].list # None
  BY Parts DEF Sync, At, JobOK, Early
<1>2. watch' \in Watch
  BY <1>1 DEF Sync, Watch, Job
<1>3. PICK j : j = [Idle EXCEPT !.at = "fresh"]
  OBVIOUS
<1>4. j \in Job /\ JobOK(j)
  BY <1>1, <1>3, Afresh DEF Steps
<1> QED
  BY <1>2, <1>3, <1>4, GoesOn DEF Sync, status, IInv, TypeOK

LEMMA FreshInv ==
  ASSUME IInv, NEW t \in Threads, Fresh(t)
  PROVE  IInv'
BY IdleFresh, GoesOn DEF Fresh, status, IInv, TypeOK

LEMMA LookInv ==
  ASSUME IInv, NEW t \in Threads, Look(t)
  PROVE  IInv'
<1>0. watch \in Watch /\ total # None
  BY DEF Look, IInv, TypeOK
<1>1. PICK j : j = [Idle EXCEPT !.at = "list", !.list = watch.list, !.base = watch.base]
  OBVIOUS
<1>2. j \in Job
  BY <1>0, <1>1, IdleOK DEF Job, Steps, Watch, Calls
<1>3. j.at = "list" /\ j.got = NoCopies
  BY <1>1 DEF Idle
<1>4. JobOK(j)
  BY <1>0, <1>3, Nothing DEF JobOK
<1> QED
  BY <1>1, <1>2, <1>4, GoesOn DEF Look, status, IInv, TypeOK

LEMMA AskListInv ==
  ASSUME IInv, NEW t \in Threads, AskList(t)
  PROVE  IInv'
<1>0. PICK i : i = job[t]
  OBVIOUS
<1>1. PICK j : j = [i EXCEPT !.at = "base", !.list = IF @ = ListNow THEN None ELSE ListNow]
  OBVIOUS
<1>2. i \in Job /\ i.at = "list" /\ In(i.got) = {} /\ total # None
  BY <1>0, Parts DEF AskList, At, JobOK, Early
<1>3. ListNow \in Listing /\ Whole(ListNow)
  BY Answers, ListWhole DEF IInv
<1>4. j \in Job /\ j.at = "base" /\ j.got = i.got /\ (j.list = None \/ j.list = ListNow)
  BY <1>1, <1>2, <1>3 DEF Job, Steps, Calls
<1>5. Whole(j.list)
  BY <1>3, <1>4 DEF Whole
<1>6. JobOK(j)
  BY <1>2, <1>4, <1>5 DEF JobOK
<1> QED
  BY <1>0, <1>1, <1>4, <1>6, GoesOn DEF AskList, status, IInv, TypeOK

LEMMA AskBaseInv ==
  ASSUME IInv, NEW t \in Threads, AskBase(t)
  PROVE  IInv'
<1>0. PICK i : i = job[t]
  OBVIOUS
<1>1. PICK j : j = [i EXCEPT !.at = "note", !.base = base, !.moved = i.base # base]
  OBVIOUS
<1>2. i \in Job /\ i.at = "base" /\ In(i.got) = {} /\ Whole(i.list) /\ total # None
  BY <1>0, Parts DEF AskBase, At, JobOK, Early
<1>3. base \in Nat
  BY DEF IInv, TypeOK
<1>4. j \in Job /\ j.at = "note" /\ j.got = i.got /\ j.list = i.list
  BY <1>1, <1>2, <1>3 DEF Job, Steps
<1>5. JobOK(j)
  BY <1>2, <1>4 DEF JobOK
<1> QED
  BY <1>0, <1>1, <1>4, <1>5, GoesOn DEF AskBase, status, IInv, TypeOK

LEMMA NoteInv ==
  ASSUME IInv, NEW t \in Threads, Note(t)
  PROVE  IInv'
<1>0. PICK i : i = job[t]
  OBVIOUS
<1>2. i \in Job /\ i.at = "note" /\ In(i.got) = {} /\ Whole(i.list) /\ total # None
  BY <1>0, Parts DEF Note, At, JobOK, Early
<1>3. watch' \in Watch
  <2>1. watch' = [watch EXCEPT !.base = i.base, !.list = IF i.list # None THEN i.list ELSE @]
    BY <1>0 DEF Note
  <2>2. watch \in Watch
    BY DEF IInv, TypeOK
  <2> QED
    BY <1>2, <2>1, <2>2 DEF Watch, Job
<1>4. PICK j : j = IF i.list # None THEN [i EXCEPT !.at = "copy"]
                   ELSE IF i.moved THEN [i EXCEPT !.at = "relist"]
                   ELSE [Idle EXCEPT !.at = "fresh"]
  OBVIOUS
<1>5. j \in Job /\ JobOK(j)
  <2>1. CASE i.list # None
    <3>1. j \in Job /\ j.at = "copy" /\ j.got = i.got /\ j.list = i.list
      BY <1>2, <1>4, <2>1 DEF Job, Steps
    <3> QED
      BY <1>2, <2>1, <3>1 DEF JobOK
  <2>2. CASE i.list = None /\ i.moved
    <3>1. j = [i EXCEPT !.at = "relist"]
      BY Zenon, <1>4, <2>2
    <3>2. j \in Job /\ j.at = "relist" /\ j.got = i.got
      BY <1>2, <3>1 DEF Job, Steps, Calls
    <3> QED
      BY <1>2, <3>2 DEF JobOK
  <2>3. CASE i.list = None /\ ~ i.moved
    <3>1. j = [Idle EXCEPT !.at = "fresh"]
      BY <1>4, <2>3
    <3> QED
      BY <1>2, <3>1, Afresh DEF Steps
  <2> QED
    BY <2>1, <2>2, <2>3
<1>6. Becomes(t, j)
  BY <1>0, <1>4 DEF Note
<1> QED
  BY <1>3, <1>5, <1>6, GoesOn DEF Note, status, IInv, TypeOK

LEMMA RelistInv ==
  ASSUME IInv, NEW t \in Threads, Relist(t)
  PROVE  IInv'
<1>0. PICK i : i = job[t]
  OBVIOUS
<1>1. PICK j : j = [i EXCEPT !.at = "renote", !.list = ListNow]
  OBVIOUS
<1>2. i \in Job /\ i.at = "relist" /\ In(i.got) = {} /\ total # None
  BY <1>0, Parts DEF Relist, At, JobOK, Early
<1>3. ListNow \in Listing /\ ListNow # None /\ Whole(ListNow)
  BY Answers, NoneApart, ListWhole DEF IInv
<1>4. j \in Job /\ j.at = "renote" /\ j.got = i.got /\ j.list = ListNow
  BY <1>1, <1>2, <1>3 DEF Job, Steps
<1>5. JobOK(j)
  BY <1>2, <1>3, <1>4 DEF JobOK
<1> QED
  BY <1>0, <1>1, <1>4, <1>5, GoesOn DEF Relist, status, IInv, TypeOK

LEMMA RenoteInv ==
  ASSUME IInv, NEW t \in Threads, Renote(t)
  PROVE  IInv'
<1>0. PICK i : i = job[t]
  OBVIOUS
<1>1. PICK j : j = [i EXCEPT !.at = "copy"]
  OBVIOUS
<1>2. i \in Job /\ i.at = "renote" /\ In(i.got) = {} /\ total # None /\ Whole(i.list) /\ i.list # None
  BY <1>0, Parts DEF Renote, At, JobOK, Early
<1>3. watch' \in Watch
  <2>1. watch' = [watch EXCEPT !.list = i.list]
    BY <1>0 DEF Renote
  <2>2. watch \in Watch
    BY DEF IInv, TypeOK
  <2> QED
    BY <1>2, <2>1, <2>2 DEF Watch, Job
<1>4. j \in Job /\ j.at = "copy" /\ j.got = i.got /\ j.list = i.list
  BY <1>1, <1>2 DEF Job, Steps
<1>5. JobOK(j)
  BY <1>2, <1>4 DEF JobOK
<1> QED
  BY <1>0, <1>1, <1>3, <1>4, <1>5, GoesOn DEF Renote, Goto, status, IInv, TypeOK

LEMMA CopyRepoInv ==
  ASSUME IInv, NEW t \in Threads, CopyRepo(t)
  PROVE  IInv'
<1>0. PICK i : i = job[t]
  OBVIOUS
<1>1. PICK j : j = [i EXCEPT !.at = IF Wanted(i) = {} THEN "splice" ELSE "details",
                             !.base = None, !.moved = FALSE,
                             !.copy = fetched, !.total = total, !.wanted = Wanted(i)]
  OBVIOUS
<1>2. i \in Job /\ i.at = "copy" /\ In(i.got) = {} /\ total # None /\ Whole(i.list) /\ i.list # None
  BY <1>0, Parts DEF CopyRepo, At, JobOK, Early
<1>3. fetched \in Copies /\ total \in Nat /\ Wanted(i) \in SUBSET PRs
  BY <1>2, InPRs DEF IInv, TypeOK, Wanted
<1>4. j \in Job /\ j.at \in {"splice", "details"} /\ j.got = i.got /\ j.list = i.list
      /\ j.copy = fetched /\ j.total = total
  BY <1>1, <1>2, <1>3 DEF Job, Steps, Calls
<1>5. Covered(In(j.copy) \cup In(j.got), j.total)
  <2>1. Covered(In(fetched), total)
    BY <1>2 DEF IInv
  <2>2. In(j.copy) \cup In(j.got) = In(fetched)
    BY <1>2, <1>4
  <2> QED
    BY <1>4, <2>1, <2>2
<1>6. JobOK(j)
  BY <1>2, <1>4, <1>5 DEF JobOK
<1> QED
  BY <1>0, <1>1, <1>4, <1>6, GoesOn DEF CopyRepo, status, IInv, TypeOK

LEMMA FetchDetailsInv ==
  ASSUME IInv, NEW t \in Threads, FetchDetails(t)
  PROVE  IInv'
<1>0. PICK i : i = job[t]
  OBVIOUS
<1>1. PICK j : j = [i EXCEPT !.at = IF @ = "details" THEN "splice" ELSE "replace",
                             !.wanted = IF i.at = "details" THEN {} ELSE @,
                             !.got = Details(i.wanted \cap OpenPRs)]
  OBVIOUS
<1>2. i \in Job /\ JobOK(i) /\ i.at \in {"details", "part"} /\ total # None
  BY <1>0, Parts DEF FetchDetails, At, JobOK, Early
<1>3. PICK G : G = Details(i.wanted \cap OpenPRs)
  OBVIOUS
<1>4. G \in Copies /\ In(G) \subseteq OpenPRs
  <2>1. i.wanted \cap OpenPRs \in SUBSET PRs
    BY <1>2 DEF Job
  <2> QED
    BY <1>3, <2>1, Answers DEF IInv
<1>5. /\ j \in Job /\ j.list = i.list /\ j.copy = i.copy /\ j.total = i.total /\ j.got = G
      /\ j.at = IF i.at = "details" THEN "splice" ELSE "replace"
  <2>1. CASE i.at = "details"
    <3>1. j = [i EXCEPT !.at = "splice", !.wanted = {}, !.got = G]
      BY <1>1, <1>2, <1>3, <2>1 DEF Job
    <3> QED
      BY <1>2, <1>4, <2>1, <3>1 DEF Job, Steps
  <2>2. CASE i.at = "part"
    <3>1. j = [i EXCEPT !.at = "replace", !.got = G]
      BY <1>1, <1>2, <1>3, <2>2 DEF Job
    <3> QED
      BY <1>2, <1>4, <2>2, <3>1 DEF Job, Steps
  <2> QED
    BY <1>2, <2>1, <2>2
<1>6. JobOK(j)
  <2>1. CASE i.at = "details"
    <3>1. Covered(In(i.copy), i.total)
      BY <1>2, <2>1, FewerCovered DEF JobOK
    <3>2. Covered(In(j.copy) \cup In(j.got), j.total)
      BY <1>4, <1>5, <3>1, MoreCovered
    <3> QED
      BY <1>2, <1>5, <2>1, <3>2 DEF JobOK
  <2>2. CASE i.at = "part"
    BY <1>2, <1>5, <2>2 DEF JobOK
  <2> QED
    BY <1>2, <2>1, <2>2
<1> QED
  BY <1>0, <1>1, <1>5, <1>6, GoesOn DEF FetchDetails, status, IInv, TypeOK

LEMMA LookInFlightInv ==
  ASSUME IInv, NEW t \in Threads, LookInFlight(t)
  PROVE  IInv'
<1>1. PICK others \in SUBSET In(fetched) :
        LET moving == others \cup {p \in In(fetched) : retry[p] # None}
        IN /\ moving # {}
           /\ Becomes(t, [Idle EXCEPT !.at = "part", !.wanted = Newest(moving, ActiveLimit)])
  BY DEF LookInFlight
<1>2. PICK moving : /\ moving = others \cup {p \in In(fetched) : retry[p] # None}
                    /\ moving # {}
                    /\ Becomes(t, [Idle EXCEPT !.at = "part", !.wanted = Newest(moving, ActiveLimit)])
  BY <1>1
<1>3. moving \subseteq In(fetched) /\ total # None
  BY <1>2 DEF IInv
<1>4. PICK W : W = Newest(moving, ActiveLimit)
  OBVIOUS
<1>5. W \in SUBSET PRs
  BY <1>3, <1>4, InPRs DEF Newest
<1>6. PICK j : j = [Idle EXCEPT !.at = "part", !.wanted = W]
  OBVIOUS
<1>7. j \in Job
  BY <1>5, <1>6, IdleOK DEF Job, Steps, Calls
<1>8. j.at = "part"
  BY <1>6 DEF Idle
<1>9. JobOK(j)
  BY <1>3, <1>8 DEF JobOK
<1> QED
  BY <1>2, <1>4, <1>6, <1>7, <1>9, GoesOn DEF LookInFlight, status, IInv, TypeOK

(* What applyChanged puts together is covered by the list, when that is     *)
(* everything, and by what its copy told otherwise.                        *)
LEMMA SpliceInv ==
  ASSUME IInv, NEW t \in Threads, Splice(t)
  PROVE  IInv'
<1>0. PICK i : i = job[t]
  OBVIOUS
<1>1. PICK prs : prs = [p \in PRs |-> IF i.list[p] = None THEN None
                                      ELSE IF i.got[p] # None THEN i.got[p] ELSE i.copy[p]]
  OBVIOUS
<1>2. PICK updated : updated = [p \in PRs |-> IF i.list[p] = None THEN None
                                              ELSE IF i.got[p] # None THEN i.list[p]
                                              ELSE watch.updated[p]]
  OBVIOUS
<1>3. PICK n : n = Total(i)
  OBVIOUS
<1>4. PICK j : j = [Idle EXCEPT !.at = "apply", !.back = "fresh", !.copy = prs, !.total = n]
  OBVIOUS
<1>5. watch' = [watch EXCEPT !.updated = updated] /\ Becomes(t, j)
  BY <1>0, <1>1, <1>2, <1>3, <1>4 DEF Splice
<1>6. i \in Job /\ JobOK(i) /\ i.at = "splice" /\ total # None
  BY <1>0, Parts DEF Splice, At, JobOK, Early
<1>7. /\ Covered(In(i.copy) \cup In(i.got), i.total) /\ Whole(i.list) /\ i.list # None
      /\ i.list \in Listing /\ i.copy \in Copies /\ i.got \in Copies
  BY <1>6 DEF JobOK, Job
<1>8. watch \in Watch /\ watch' \in Watch
  <2>1. watch \in Watch
    BY DEF IInv, TypeOK
  <2>2. updated \in Listing
    BY <1>2, <1>7, <2>1 DEF Listing, Watch
  <2> QED
    BY <1>5, <2>1, <2>2 DEF Watch
<1>9. /\ prs \in Copies
      /\ In(prs) \subseteq In(i.list) /\ In(prs) \subseteq In(i.copy) \cup In(i.got)
  <2>1. \A p \in PRs : /\ prs[p] \in Copy \cup {None}
                       /\ prs[p] # None => i.list[p] # None /\ (i.got[p] # None \/ i.copy[p] # None)
    <3> TAKE p \in PRs
    <3>1. \/ prs[p] = None
          \/ i.list[p] # None /\ i.got[p] # None /\ prs[p] = i.got[p]
          \/ i.list[p] # None /\ prs[p] = i.copy[p]
      BY <1>1
    <3>2. i.got[p] \in Copy \cup {None} /\ i.copy[p] \in Copy \cup {None}
      BY <1>7 DEF Copies
    <3> QED
      BY <3>1, <3>2
  <2>2. prs \in Copies
    BY <1>1, <2>1 DEF Copies
  <2> QED
    BY <2>1, <2>2 DEF In
<1>10. n \in Nat /\ Covered(In(prs), n)
  <2>1. CASE Cardinality(In(i.list)) < PRLimit
    <3>1. n = Cardinality(In(i.list)) /\ n \in Nat /\ n <= n /\ In(i.list) \in SUBSET PRs
      BY <1>3, <2>1, InPRs, Sizes DEF Total
    <3>2. ~ opened => OpenPRs \subseteq In(i.list)
      BY <1>7, <2>1 DEF Whole
    <3> QED
      BY <1>9, <3>1, <3>2 DEF Covered
  <2>2. CASE ~ (Cardinality(In(i.list)) < PRLimit)
    <3>1. n = i.total
      BY <1>3, <2>2 DEF Total
    <3>2. Covered(In(prs), n)
      BY <1>7, <1>9, <3>1, FewerCovered
    <3> QED
      BY <3>2 DEF Covered
  <2> QED
    BY <2>1, <2>2
<1>11. j \in Job
  BY <1>4, <1>9, <1>10, IdleOK DEF Job, Steps
<1>12. j.at = "apply" /\ j.copy = prs /\ j.total = n
  BY <1>4 DEF Idle
<1>13. JobOK(j)
  BY <1>10, <1>12 DEF JobOK, Early
<1> QED
  BY <1>5, <1>8, <1>11, <1>13, GoesOn DEF Splice, status, IInv, TypeOK

(* PRs in flight take the place of copies at hand, and add none.            *)
LEMMA ReplaceInv ==
  ASSUME IInv, NEW t \in Threads, Replace(t)
  PROVE  IInv'
<1>0. PICK i : i = job[t]
  OBVIOUS
<1>1. PICK closed : closed = {p \in In(fetched) \cap i.wanted : i.got[p] = None}
  OBVIOUS
<1>2. PICK prs : prs = [p \in PRs |-> IF fetched[p] = None \/ p \in closed THEN None
                                      ELSE IF i.got[p] # None THEN i.got[p] ELSE fetched[p]]
  OBVIOUS
<1>3. PICK j : j = IF prs = fetched THEN Idle
                   ELSE [Idle EXCEPT !.at = "apply", !.copy = prs, !.total = total]
  OBVIOUS
<1>4. /\ watch' = [watch EXCEPT !.updated = [p \in PRs |-> IF p \in closed THEN None ELSE @[p]]]
      /\ Becomes(t, j)
  BY <1>0, <1>1, <1>2, <1>3 DEF Replace
<1>5. i \in Job /\ JobOK(i) /\ i.at = "replace" /\ total # None
  BY <1>0, Parts DEF Replace, At, JobOK, Early
<1>6. /\ i.got \in Copies /\ fetched \in Copies /\ total \in Nat /\ watch \in Watch
      /\ Covered(In(fetched), total)
  BY <1>5 DEF Job, IInv, TypeOK
<1>7. watch' \in Watch
  BY <1>4, <1>6 DEF Watch, Listing
<1>8. prs \in Copies /\ In(prs) \subseteq In(fetched)
  <2>1. \A p \in PRs : prs[p] \in Copy \cup {None} /\ (prs[p] # None => fetched[p] # None)
    <3> TAKE p \in PRs
    <3>1. \/ prs[p] = None
          \/ fetched[p] # None /\ (prs[p] = i.got[p] \/ prs[p] = fetched[p])
      BY <1>2
    <3>2. i.got[p] \in Copy \cup {None} /\ fetched[p] \in Copy \cup {None}
      BY <1>6 DEF Copies
    <3> QED
      BY <3>1, <3>2
  <2>2. prs \in Copies
    BY <1>2, <2>1 DEF Copies
  <2> QED
    BY <2>1, <2>2 DEF In
<1>9. j \in Job /\ JobOK(j)
  <2>1. CASE prs = fetched
    BY <1>3, <2>1, IdleFresh
  <2>2. CASE prs # fetched
    <3>1. j = [Idle EXCEPT !.at = "apply", !.copy = prs, !.total = total]
      BY <1>3, <2>2
    <3>2. j \in Job
      BY <1>6, <1>8, <3>1, IdleOK DEF Job, Steps
    <3>3. j.at = "apply" /\ j.copy = prs /\ j.total = total
      BY <3>1 DEF Idle
    <3>4. Covered(In(prs), total)
      BY <1>6, <1>8, FewerCovered
    <3> QED
      BY <3>2, <3>3, <3>4 DEF JobOK, Early
  <2> QED
    BY <2>1, <2>2
<1> QED
  BY <1>4, <1>7, <1>9, GoesOn DEF Replace, status, IInv, TypeOK

LEMMA CopyOwnInv ==
  ASSUME IInv, NEW t \in Threads, CopyOwn(t)
  PROVE  IInv'
<1>1. PICK j : j = IF total = None THEN Idle
                   ELSE [Idle EXCEPT !.at = "retry", !.copy = fetched, !.total = total]
  OBVIOUS
<1>2. j \in Job /\ JobOK(j)
  <2>1. CASE total = None
    BY <1>1, <2>1, IdleFresh
  <2>2. CASE total # None
    <3>0. fetched \in Copies /\ total \in Nat /\ Covered(In(fetched), total)
      BY <2>2 DEF IInv, TypeOK
    <3>1. j = [Idle EXCEPT !.at = "retry", !.copy = fetched, !.total = total]
      BY <1>1, <2>2
    <3>2. j \in Job
      BY <3>0, <3>1, IdleOK DEF Job, Steps
    <3>3. j.at = "retry" /\ j.copy = fetched /\ j.total = total
      BY <3>1 DEF Idle
    <3> QED
      BY <2>2, <3>0, <3>2, <3>3 DEF JobOK
  <2> QED
    BY <2>1, <2>2
<1> QED
  BY <1>1, <1>2, GoesOn DEF CopyOwn, status, IInv, TypeOK

----------------------------------------------------------------------------
(* What is shown and kept.                                                 *)

(* Goroutine t goes on as j with a total that is there for good, and the     *)
(* other goroutines' jobs stay what they were.                             *)
LEMMA OthersGoOn ==
  ASSUME IInv, NEW t \in Threads, NEW j \in Job, Becomes(t, j), UNCHANGED github,
         total' = total \/ total' # None, JobOK(j)'
  PROVE  \A u \in Threads : JobOK(job[u])'
<1> SUFFICES ASSUME NEW u \in Threads
             PROVE  JobOK(job[u])'
  OBVIOUS
<1>1. PICK k : k = job'[u]
  OBVIOUS
<1>2. k = j \/ k = job[u]
  BY <1>1 DEF IInv, TypeOK, Becomes
<1>3. opened' = opened /\ OpenPRs' = OpenPRs
  BY DEF github, OpenPRs
<1>4. \A S, n : Covered(S, n) => Covered(S, n)'
  BY <1>3, OlderCovered
<1>5. CASE k = job[u]
  <2>1. JobOK(k) /\ (Whole(k.list) => Whole(k.list)')
    BY <1>3, <1>5, Parts DEF Whole, In
  <2>2. JobOK(k)'
    BY <1>4, <2>1 DEF JobOK, In
  <2> QED
    BY <1>1, <2>2
<1>6. CASE k = j
  BY <1>1, <1>6
<1> QED
  BY <1>2, <1>5, <1>6

LEMMA SetMutedInv ==
  ASSUME IInv, NEW t \in Threads, NEW p \in PRs, SetMuted(t, p)
  PROVE  IInv'
<1>1. Idle \in Job /\ JobOK(Idle)
  BY IdleFresh
<1>2. Becomes(t, Idle) /\ UNCHANGED <<github, loads, watch, status, retry, counts, edits>>
  BY DEF SetMuted
<1>3. JobOK(Idle)'
  BY ONLY <1>1, <1>2, SameJobs
<1>4. \A u \in Threads : JobOK(job[u])'
  BY <1>1, <1>2, <1>3, OthersGoOn DEF loads
<1>5. muted' \in SUBSET PRs
  BY DEF SetMuted, IInv, TypeOK
<1>6. TypeOK'
  BY <1>1, <1>2, <1>5 DEF IInv, TypeOK, Becomes, github, loads, status, counts
<1>7. RetriesOnce'
  BY <1>2 DEF IInv, RetriesOnce, github, counts
<1>8. (IF total = None THEN In(fetched) = {} ELSE Covered(In(fetched), total))'
  <2>1. \A S, n : Covered(S, n) => Covered(S, n)'
    BY <1>2, OlderCovered DEF github, OpenPRs
  <2> QED
    BY <1>2, <2>1 DEF IInv, loads, In
<1> QED
  BY <1>4, <1>6, <1>7, <1>8 DEF IInv

LEMMA SetAutoRetryInv ==
  ASSUME IInv, NEW t \in Threads, NEW p \in PRs, SetAutoRetry(t, p)
  PROVE  IInv'
<1>0. PICK i : i = job[t]
  OBVIOUS
<1>1. PICK j : j = [i EXCEPT !.at = "own"]
  OBVIOUS
<1>2. i \in Job /\ JobOK(i) /\ i.at \in {"retry on", "retry off"} /\ total # None
  BY <1>0, Parts DEF SetAutoRetry, At, JobOK, Early
<1>3. j \in Job /\ j.at = "own"
  BY <1>1, <1>2 DEF Job, Steps
<1>4. JobOK(j)
  BY <1>2, <1>3 DEF JobOK
<1>5. Becomes(t, j) /\ UNCHANGED <<github, loads, watch, status, muted, reruns, edits>>
  BY <1>0, <1>1 DEF SetAutoRetry, Goto
<1>6. JobOK(j)'
  BY ONLY <1>4, <1>5, SameJobs
<1>7. \A u \in Threads : JobOK(job[u])'
  BY <1>3, <1>5, <1>6, OthersGoOn DEF loads
<1>8. /\ retry \in [PRs -> Nat \cup {None}] /\ switches \in [PRs -> Nat]
      /\ i.head \in Nat \cup {None}
  BY <1>2 DEF IInv, TypeOK, Job
<1>9. \/ retry' = [retry EXCEPT ![p] = i.head] /\ switches' = [switches EXCEPT ![p] = @ + 1]
      \/ retry' = [retry EXCEPT ![p] = None] /\ switches' = switches
  BY <1>0 DEF SetAutoRetry
<1>10. TypeOK'
  <2>1. retry' \in [PRs -> Nat \cup {None}] /\ switches' \in [PRs -> Nat]
    BY <1>8, <1>9
  <2> QED
    BY <1>3, <1>5, <2>1 DEF IInv, TypeOK, Becomes, github, loads, status
<1>11. RetriesOnce'
  <2> SUFFICES ASSUME NEW q \in PRs
               PROVE  gh'[q].attempts + reruns'[q] + (IF retry'[q] # None THEN 1 ELSE 0) <= switches'[q]
    BY DEF RetriesOnce
  <2>1. gh[q].attempts + reruns[q] + (IF retry[q] # None THEN 1 ELSE 0) <= switches[q]
    BY DEF IInv, RetriesOnce
  <2>2. gh[q].attempts \in Nat /\ reruns[q] \in Nat /\ switches[q] \in Nat
    BY DEF IInv, TypeOK, OnGitHub
  <2>3. gh' = gh /\ reruns' = reruns
    BY <1>5 DEF github
  <2>4. \/ switches'[q] = switches[q] /\ (retry'[q] = retry[q] \/ retry'[q] = None)
        \/ switches'[q] = switches[q] + 1
    BY <1>8, <1>9
  <2> QED
    BY <2>1, <2>2, <2>3, <2>4
<1>12. (IF total = None THEN In(fetched) = {} ELSE Covered(In(fetched), total))'
  <2>1. \A S, n : Covered(S, n) => Covered(S, n)'
    BY <1>5, OlderCovered DEF github, OpenPRs
  <2> QED
    BY <1>5, <2>1 DEF IInv, loads, In
<1> QED
  BY <1>7, <1>10, <1>11, <1>12 DEF IInv

LEMMA ApplyInv ==
  ASSUME IInv, NEW t \in Threads, Apply(t)
  PROVE  IInv'
<1>0. PICK i : i = job[t]
  OBVIOUS
<1>1. PICK j : j = [i EXCEPT !.at = "retry"]
  OBVIOUS
<1>2. i \in Job /\ JobOK(i) /\ i.at = "apply"
  BY <1>0, Parts DEF Apply, At
<1>3. /\ fetched' = i.copy /\ total' = i.total /\ muted' = Prune(i) /\ Becomes(t, j)
      /\ UNCHANGED <<github, watch, status, retry, counts, edits>>
  BY <1>0, <1>1 DEF Apply, Goto
<1>4. j \in Job /\ j.at = "retry" /\ j.copy = i.copy /\ j.total = i.total
  BY <1>1, <1>2 DEF Job, Steps
<1>5. Covered(In(i.copy), i.total) /\ i.total \in Nat /\ i.total # None /\ i.copy \in Copies
  BY <1>2, NoneApart DEF JobOK, Covered, Job
<1>6. \A S, n : Covered(S, n) => Covered(S, n)'
  BY <1>3, OlderCovered DEF github, OpenPRs
<1>7. JobOK(j)'
  BY <1>3, <1>4, <1>5, <1>6 DEF JobOK, In
<1>8. \A u \in Threads : JobOK(job[u])'
  BY <1>3, <1>4, <1>5, <1>7, OthersGoOn
<1>9. muted' \in SUBSET PRs
  BY <1>3 DEF Prune, IInv, TypeOK
<1>10. TypeOK'
  BY <1>3, <1>4, <1>5, <1>9 DEF IInv, TypeOK, Becomes, github, status, counts
<1>11. RetriesOnce'
  BY <1>3 DEF IInv, RetriesOnce, github, counts
<1>12. (IF total = None THEN In(fetched) = {} ELSE Covered(In(fetched), total))'
  BY <1>3, <1>5, <1>6 DEF In
<1> QED
  BY <1>8, <1>10, <1>11, <1>12 DEF IInv

LEMMA CheckRetryInv ==
  ASSUME IInv, NEW t \in Threads, CheckRetry(t)
  PROVE  IInv'
<1>0. PICK i : i = job[t]
  OBVIOUS
<1>1. PICK j : j = IF i.back = "idle" THEN Idle ELSE [Idle EXCEPT !.at = i.back]
  OBVIOUS
<1>2. i \in Job /\ total # None
  BY <1>0, Parts DEF CheckRetry, At, JobOK, Early
<1>3. /\ retry' = [p \in PRs |-> IF p \in Dropped(i) \cup Spent(i) THEN None ELSE retry[p]]
      /\ reruns' = [p \in PRs |-> IF p \in Spent(i) THEN reruns[p] + 1 ELSE reruns[p]]
      /\ Becomes(t, j)
      /\ UNCHANGED <<github, loads, watch, status, muted, switches, edits>>
  BY <1>0, <1>1 DEF CheckRetry
<1>4. j \in Job /\ JobOK(j)
  <2>1. CASE i.back = "idle"
    BY <1>1, <2>1, IdleFresh
  <2>2. CASE i.back # "idle"
    <3>1. i.back \in {"sync list", "fresh"} /\ j = [Idle EXCEPT !.at = i.back]
      BY <1>1, <1>2, <2>2 DEF Job
    <3>2. j \in Job
      BY <3>1, IdleOK DEF Job, Steps
    <3>3. j.at \in {"sync list", "fresh"}
      BY <3>1 DEF Idle
    <3> QED
      BY <1>2, <3>2, <3>3 DEF JobOK
  <2> QED
    BY <2>1, <2>2
<1>5. JobOK(j)'
  BY ONLY <1>3, <1>4, SameJobs
<1>6. \A u \in Threads : JobOK(job[u])'
  BY <1>3, <1>4, <1>5, OthersGoOn DEF loads
<1>7. TypeOK'
  <2>1. retry' \in [PRs -> Nat \cup {None}] /\ reruns' \in [PRs -> Nat]
    BY <1>3 DEF IInv, TypeOK
  <2> QED
    BY <1>3, <1>4, <2>1 DEF IInv, TypeOK, Becomes, github, loads, status
<1>8. RetriesOnce'
  <2> SUFFICES ASSUME NEW q \in PRs
               PROVE  gh'[q].attempts + reruns'[q] + (IF retry'[q] # None THEN 1 ELSE 0) <= switches'[q]
    BY DEF RetriesOnce
  <2>1. gh[q].attempts + reruns[q] + (IF retry[q] # None THEN 1 ELSE 0) <= switches[q]
    BY DEF IInv, RetriesOnce
  <2>2. gh[q].attempts \in Nat /\ reruns[q] \in Nat /\ switches[q] \in Nat
    BY DEF IInv, TypeOK, OnGitHub
  <2>3. gh' = gh /\ switches' = switches
    BY <1>3 DEF github
  <2>4. \/ reruns'[q] = reruns[q] + 1 /\ retry[q] # None /\ retry'[q] = None
        \/ reruns'[q] = reruns[q] /\ (retry'[q] = retry[q] \/ retry'[q] = None)
    BY <1>3 DEF Spent
  <2> QED
    BY <2>1, <2>2, <2>3, <2>4
<1>9. (IF total = None THEN In(fetched) = {} ELSE Covered(In(fetched), total))'
  <2>1. \A S, n : Covered(S, n) => Covered(S, n)'
    BY <1>3, OlderCovered DEF github, OpenPRs
  <2> QED
    BY <1>3, <2>1 DEF IInv, loads, In
<1> QED
  BY <1>6, <1>7, <1>8, <1>9 DEF IInv

----------------------------------------------------------------------------
(* GitHub, time and crashes.                                               *)

(* Something happens on GitHub that opens no PR without opened telling.      *)
LEMMA GitHubMoves ==
  ASSUME IInv, Shrinks, gh' \in [PRs -> OnGitHub], base' \in Nat, opened' \in BOOLEAN,
         UNCHANGED <<loads, watch, status, kept, switches, job>>,
         reruns' \in [PRs -> Nat], edits' \in 0..MaxEdits,
         \A p \in PRs : gh'[p].attempts + reruns'[p] <= gh[p].attempts + reruns[p]
  PROVE  IInv'
<1>1. TypeOK'
  BY DEF IInv, TypeOK, loads, status, kept
<1>2. RetriesOnce'
  <2> SUFFICES ASSUME NEW q \in PRs
               PROVE  gh'[q].attempts + reruns'[q] + (IF retry'[q] # None THEN 1 ELSE 0) <= switches'[q]
    BY DEF RetriesOnce
  <2>1. gh[q].attempts + reruns[q] + (IF retry[q] # None THEN 1 ELSE 0) <= switches[q]
    BY DEF IInv, RetriesOnce
  <2>2. /\ gh[q].attempts \in Nat /\ reruns[q] \in Nat /\ switches[q] \in Nat
        /\ gh'[q].attempts \in Nat /\ reruns'[q] \in Nat
    BY DEF IInv, TypeOK, OnGitHub
  <2>3. retry' = retry /\ switches' = switches
    BY DEF kept
  <2> QED
    BY <2>1, <2>2, <2>3
<1>3. \A S, n : Covered(S, n) => Covered(S, n)'
  BY OlderCovered
<1>4. (IF total = None THEN In(fetched) = {} ELSE Covered(In(fetched), total))'
  BY <1>3 DEF IInv, loads, In
<1>5. \A u \in Threads : JobOK(job[u])'
  <2> SUFFICES ASSUME NEW u \in Threads
               PROVE  JobOK(job[u])'
    OBVIOUS
  <2>1. PICK k : k = job[u]
    OBVIOUS
  <2>2. JobOK(k) /\ total' = total /\ job' = job
    BY <2>1, Parts DEF loads
  <2>3. JobOK(k)'
    BY <2>2, OlderJobs
  <2> QED
    BY <2>1, <2>2, <2>3
<1> QED
  BY <1>1, <1>2, <1>4, <1>5 DEF IInv

LEMMA OpenInv ==
  ASSUME IInv, NEW p \in PRs, Open(p)
  PROVE  IInv'
<1>1. gh \in [PRs -> OnGitHub] /\ gh' = [gh EXCEPT ![p].state = "OPEN"]
  BY DEF Open, IInv, TypeOK
<1>2. gh' \in [PRs -> OnGitHub] /\ \A q \in PRs : gh'[q].attempts = gh[q].attempts
  BY <1>1 DEF OnGitHub
<1>3. \A q \in PRs : gh[q].attempts \in Nat /\ reruns[q] \in Nat
  BY DEF IInv, TypeOK, OnGitHub
<1>4. edits' \in 0..MaxEdits
  BY InputTyped DEF Open, IInv
<1>5. Shrinks /\ opened' \in BOOLEAN
  BY DEF Open, Shrinks
<1>6. /\ UNCHANGED <<loads, watch, status, kept, switches, job>>
      /\ reruns' = reruns /\ base' = base
  BY DEF Open, Unseen, counts
<1> QED
  BY <1>2, <1>3, <1>4, <1>5, <1>6, GitHubMoves DEF IInv, TypeOK

LEMMA PushInv ==
  ASSUME IInv, NEW p \in PRs, Push(p)
  PROVE  IInv'
<1>1. gh \in [PRs -> OnGitHub] /\ gh' = [gh EXCEPT ![p].head = @ + 1, ![p].checks = "running"]
  BY DEF Push, IInv, TypeOK
<1>2. /\ gh' \in [PRs -> OnGitHub]
      /\ \A q \in PRs : gh'[q].attempts = gh[q].attempts /\ gh'[q].state = gh[q].state
  <2>1. ASSUME NEW q \in PRs
        PROVE  /\ gh'[q] \in OnGitHub
               /\ gh'[q].attempts = gh[q].attempts /\ gh'[q].state = gh[q].state
    <3>1. CASE q = p
      <4>1. gh[p] \in OnGitHub /\ gh'[q] = [gh[p] EXCEPT !.head = @ + 1, !.checks = "running"]
        BY <1>1, <3>1
      <4>2. gh[p].head + 1 \in Nat
        BY <4>1 DEF OnGitHub
      <4> QED
        BY <3>1, <4>1, <4>2 DEF OnGitHub, CheckStates
    <3>2. CASE q # p
      BY <1>1, <3>2
    <3> QED
      BY <3>1, <3>2
  <2> QED
    BY <1>1, <2>1
<1>3. \A q \in PRs : gh[q].attempts \in Nat /\ reruns[q] \in Nat
  BY DEF IInv, TypeOK, OnGitHub
<1>4. edits' \in 0..MaxEdits
  BY InputTyped DEF Push, IInv
<1>5. Shrinks /\ opened' \in BOOLEAN
  BY <1>2 DEF Push, Shrinks, OpenPRs, IInv, TypeOK
<1>6. /\ UNCHANGED <<loads, watch, status, kept, switches, job>>
      /\ reruns' = reruns /\ base' = base
  BY DEF Push, Unseen, counts
<1> QED
  BY <1>2, <1>3, <1>4, <1>5, <1>6, GitHubMoves DEF IInv, TypeOK

LEMMA CloseInv ==
  ASSUME IInv, NEW p \in PRs, Close(p)
  PROVE  IInv'
<1>1. gh \in [PRs -> OnGitHub] /\ gh' = [gh EXCEPT ![p].state = "CLOSED"]
  BY DEF Close, IInv, TypeOK
<1>2. /\ gh' \in [PRs -> OnGitHub]
      /\ \A q \in PRs : /\ gh'[q].attempts = gh[q].attempts
                        /\ gh'[q].state = "OPEN" => gh[q].state = "OPEN"
  BY <1>1 DEF OnGitHub
<1>3. \A q \in PRs : gh[q].attempts \in Nat /\ reruns[q] \in Nat
  BY DEF IInv, TypeOK, OnGitHub
<1>4. edits' \in 0..MaxEdits
  BY InputTyped DEF Close, IInv
<1>5. Shrinks /\ opened' \in BOOLEAN
  BY <1>2 DEF Close, Shrinks, OpenPRs, IInv, TypeOK
<1>6. /\ UNCHANGED <<loads, watch, status, kept, switches, job>>
      /\ reruns' = reruns /\ base' = base
  BY DEF Close, Unseen, counts
<1> QED
  BY <1>2, <1>3, <1>4, <1>5, <1>6, GitHubMoves DEF IInv, TypeOK

LEMMA ChecksEndInv ==
  ASSUME IInv, NEW p \in PRs, ChecksEnd(p)
  PROVE  IInv'
<1>1. PICK how \in {"failed", "passed"} : gh' = [gh EXCEPT ![p].checks = how]
  BY DEF ChecksEnd
<1>2. /\ gh' \in [PRs -> OnGitHub]
      /\ \A q \in PRs : gh'[q].attempts = gh[q].attempts /\ gh'[q].state = gh[q].state
  BY <1>1 DEF OnGitHub, CheckStates, IInv, TypeOK
<1>3. \A q \in PRs : gh[q].attempts \in Nat /\ reruns[q] \in Nat
  BY DEF IInv, TypeOK, OnGitHub
<1>4. edits' \in 0..MaxEdits
  BY DEF ChecksEnd, IInv, TypeOK
<1>5. Shrinks /\ opened' \in BOOLEAN
  BY <1>2 DEF ChecksEnd, Shrinks, OpenPRs, IInv, TypeOK
<1>6. /\ UNCHANGED <<loads, watch, status, kept, switches, job>>
      /\ reruns' = reruns /\ base' = base
  BY DEF ChecksEnd, Unseen, counts
<1> QED
  BY <1>2, <1>3, <1>4, <1>5, <1>6, GitHubMoves DEF IInv, TypeOK

(* What is being asked for becomes an attempt, or nothing.                  *)
LEMMA RerunInv ==
  ASSUME IInv, NEW p \in PRs, Rerun(p)
  PROVE  IInv'
<1>1. gh \in [PRs -> OnGitHub] /\ reruns \in [PRs -> Nat]
  BY DEF IInv, TypeOK
<1>2. reruns[p] > 0 /\ reruns' = [reruns EXCEPT ![p] = @ - 1]
  BY DEF Rerun
<1>3. \/ gh' = [gh EXCEPT ![p].checks = "running", ![p].attempts = @ + 1]
      \/ gh' = gh
  BY DEF Rerun
<1>4. \A q \in PRs : gh[q].attempts \in Nat /\ reruns[q] \in Nat
  BY <1>1 DEF OnGitHub
<1>5. reruns' \in [PRs -> Nat]
  BY <1>1, <1>2
<1>6. /\ gh' \in [PRs -> OnGitHub]
      /\ \A q \in PRs : gh'[q].state = gh[q].state
      /\ \A q \in PRs : gh'[q].attempts + reruns'[q] <= gh[q].attempts + reruns[q]
  <2>1. CASE gh' = [gh EXCEPT ![p].checks = "running", ![p].attempts = @ + 1]
    <3>1. gh' \in [PRs -> OnGitHub] /\ \A q \in PRs : gh'[q].state = gh[q].state
      BY <1>1, <2>1 DEF OnGitHub, CheckStates
    <3>2. ASSUME NEW q \in PRs
          PROVE  gh'[q].attempts + reruns'[q] <= gh[q].attempts + reruns[q]
      <4>1. CASE q = p
        <5>1. gh'[q].attempts = gh[q].attempts + 1 /\ reruns'[q] = reruns[q] - 1
          BY <1>1, <1>2, <2>1, <4>1 DEF OnGitHub
        <5> QED
          BY <1>4, <5>1
      <4>2. CASE q # p
        <5>1. gh'[q].attempts = gh[q].attempts /\ reruns'[q] = reruns[q]
          BY <1>1, <1>2, <2>1, <4>2
        <5> QED
          BY <1>4, <5>1
      <4> QED
        BY <4>1, <4>2
    <3> QED
      BY <3>1, <3>2
  <2>2. CASE gh' = gh
    <3>1. \A q \in PRs : reruns'[q] <= reruns[q] /\ reruns'[q] \in Nat
      BY <1>1, <1>2
    <3> QED
      BY <1>1, <1>4, <2>2, <3>1
  <2> QED
    BY <1>3, <2>1, <2>2
<1>7. Shrinks /\ opened' \in BOOLEAN /\ edits' \in 0..MaxEdits /\ base' \in Nat
  BY <1>6 DEF Rerun, Shrinks, OpenPRs, IInv, TypeOK
<1>8. UNCHANGED <<loads, watch, status, kept, switches, job>>
  BY DEF Rerun
<1> QED
  BY <1>5, <1>6, <1>7, <1>8, GitHubMoves

LEMMA BaseMovesInv ==
  ASSUME IInv, BaseMoves
  PROVE  IInv'
<1>1. \A q \in PRs : gh[q].attempts \in Nat /\ reruns[q] \in Nat
  BY DEF IInv, TypeOK, OnGitHub
<1>2. edits' \in 0..MaxEdits
  BY InputTyped DEF BaseMoves, IInv
<1>3. opened \in BOOLEAN /\ base \in Nat /\ gh' = gh /\ opened' = opened /\ base' = base + 1
  BY DEF BaseMoves, IInv, TypeOK
<1>5. Shrinks /\ opened' \in BOOLEAN /\ base' \in Nat
  BY <1>3 DEF Shrinks, OpenPRs
<1>4. /\ UNCHANGED <<loads, watch, status, kept, switches, job>>
      /\ reruns' = reruns /\ gh' = gh
  BY DEF BaseMoves, Unseen, counts
<1> QED
  BY <1>1, <1>2, <1>3, <1>4, <1>5, GitHubMoves DEF IInv, TypeOK

LEMMA LimitEndsInv ==
  ASSUME IInv, LimitEnds
  PROVE  IInv'
<1>1. /\ UNCHANGED <<github, loads, watch, kept, counts, job, edits>>
      /\ paused' \in BOOLEAN /\ UNCHANGED <<limited, failed>>
  BY DEF LimitEnds
<1>2. TypeOK'
  BY <1>1 DEF IInv, TypeOK, github, loads, kept, counts
<1>3. RetriesOnce'
  BY <1>1 DEF IInv, RetriesOnce, github, kept, counts
<1>4. (IF total = None THEN In(fetched) = {} ELSE Covered(In(fetched), total))'
  <2>1. \A S, n : Covered(S, n) => Covered(S, n)'
    BY <1>1, OlderCovered DEF github, OpenPRs
  <2> QED
    BY <1>1, <2>1 DEF IInv, loads, In
<1>5. \A u \in Threads : JobOK(job[u])'
  <2> SUFFICES ASSUME NEW u \in Threads
               PROVE  JobOK(job[u])'
    OBVIOUS
  <2>1. PICK k : k = job[u]
    OBVIOUS
  <2>2. JobOK(k)
    BY <2>1, Parts
  <2>3. JobOK(k)'
    BY ONLY <1>1, <2>2, SameJobs
  <2> QED
    BY <1>1, <2>1, <2>3
<1> QED
  BY <1>2, <1>3, <1>4, <1>5 DEF IInv

LEMMA CrashInv ==
  ASSUME IInv, Crash
  PROVE  IInv'
<1>1. NoWatch \in Watch
  BY Nothing DEF NoWatch, Watch
<1>2. edits' \in 0..MaxEdits
  BY InputTyped DEF Crash, IInv
<1>3. TypeOK'
  BY <1>1, <1>2, Nothing, IdleOK DEF Crash, IInv, TypeOK, github, kept
<1>4. RetriesOnce'
  <2> SUFFICES ASSUME NEW q \in PRs
               PROVE  gh'[q].attempts + reruns'[q] + (IF retry'[q] # None THEN 1 ELSE 0) <= switches'[q]
    BY DEF RetriesOnce
  <2>1. gh[q].attempts + reruns[q] + (IF retry[q] # None THEN 1 ELSE 0) <= switches[q]
    BY DEF IInv, RetriesOnce
  <2>2. gh[q].attempts \in Nat /\ reruns[q] \in Nat /\ switches[q] \in Nat
    BY DEF IInv, TypeOK, OnGitHub
  <2>3. gh' = gh /\ retry' = retry /\ switches' = switches /\ reruns'[q] = 0
    BY DEF Crash, github, kept
  <2> QED
    BY <2>1, <2>2, <2>3
<1>5. (IF total = None THEN In(fetched) = {} ELSE Covered(In(fetched), total))'
  BY Nothing DEF Crash, In
<1>6. \A u \in Threads : JobOK(job[u])'
  <2>1. Idle.at = "idle"
    BY DEF Idle
  <2>2. JobOK(Idle)'
    BY <2>1 DEF JobOK, Early
  <2> QED
    BY <2>2 DEF Crash
<1> QED
  BY <1>3, <1>4, <1>5, <1>6 DEF IInv

----------------------------------------------------------------------------
(* The invariant.                                                          *)

LEMMA InitInv ==
  ASSUME Init
  PROVE  IInv
<1>1. NoWatch \in Watch
  BY Nothing DEF NoWatch, Watch
<1>2. gh \in [PRs -> OnGitHub] /\ \A p \in PRs : gh[p].attempts = 0
  BY DEF Init, OnGitHub
<1>3. muted \in SUBSET PRs /\ retry \in [PRs -> Nat \cup {None}] /\ edits \in 0..MaxEdits
  BY ConstantsAssumption DEF Init, OpenPRs
<1>4. switches \in [PRs -> Nat] /\ reruns \in [PRs -> Nat]
  BY DEF Init
<1>5. TypeOK
  BY <1>1, <1>2, <1>3, <1>4, Nothing, IdleOK DEF Init, TypeOK
<1>6. RetriesOnce
  BY <1>2 DEF Init, RetriesOnce
<1>7. \A t \in Threads : JobOK(job[t])
  <2>1. Idle.at = "idle"
    BY DEF Idle
  <2> QED
    BY <2>1 DEF Init, JobOK, Early
<1> QED
  BY <1>5, <1>6, <1>7, Nothing DEF Init, IInv

LEMMA StepInv ==
  ASSUME IInv, NEW t \in Threads, Step(t)
  PROVE  IInv'
<1>1. CASE CallFails(t)
  BY <1>1, CallFailsInv
<1>2. CASE FetchFull(t) \/ Mark(t) \/ Apply(t) \/ CheckRetry(t)
  BY <1>2, FetchFullInv, MarkInv, ApplyInv, CheckRetryInv
<1>3. CASE SyncList(t) \/ SyncBase(t) \/ Sync(t) \/ Fresh(t)
  BY <1>3, SyncListInv, SyncBaseInv, SyncInv, FreshInv
<1>4. CASE AskList(t) \/ AskBase(t) \/ Note(t) \/ Relist(t) \/ Renote(t)
  BY <1>4, AskListInv, AskBaseInv, NoteInv, RelistInv, RenoteInv
<1>5. CASE CopyRepo(t) \/ FetchDetails(t) \/ Splice(t) \/ Replace(t)
  BY <1>5, CopyRepoInv, FetchDetailsInv, SpliceInv, ReplaceInv
<1>6. CASE \E p \in PRs : SetMuted(t, p) \/ SetAutoRetry(t, p)
  BY <1>6, SetMutedInv, SetAutoRetryInv
<1>7. CASE CopyOwn(t)
  BY <1>7, CopyOwnInv
<1> QED
  BY <1>1, <1>2, <1>3, <1>4, <1>5, <1>6, <1>7 DEF Step

LEMMA StartInv ==
  ASSUME IInv, NEW t \in Threads, Start(t)
  PROVE  IInv'
<1>1. CASE LookFull(t) \/ RefreshAfterCommand(t) \/ Look(t) \/ LookInFlight(t)
  BY <1>1, LookFullInv, RefreshAfterCommandInv, LookInv, LookInFlightInv
<1>2. CASE \E p \in PRs, kind \in Commands : Command(t, p, kind)
  BY <1>2, CommandInv
<1> QED
  BY <1>1, <1>2 DEF Start

LEMMA StutterInv ==
  ASSUME IInv, UNCHANGED vars
  PROVE  IInv'
<1>1. /\ UNCHANGED <<github, loads, watch, kept, counts, job, edits>>
      /\ UNCHANGED <<paused, limited, failed>>
  BY DEF vars, status
<1>2. TypeOK'
  BY <1>1 DEF IInv, TypeOK, github, loads, kept, counts
<1>3. RetriesOnce'
  BY <1>1 DEF IInv, RetriesOnce, github, kept, counts
<1>4. (IF total = None THEN In(fetched) = {} ELSE Covered(In(fetched), total))'
  <2>1. \A S, n : Covered(S, n) => Covered(S, n)'
    BY <1>1, OlderCovered DEF github, OpenPRs
  <2> QED
    BY <1>1, <2>1 DEF IInv, loads, In
<1>5. \A u \in Threads : JobOK(job[u])'
  <2> SUFFICES ASSUME NEW u \in Threads
               PROVE  JobOK(job[u])'
    OBVIOUS
  <2>1. PICK k : k = job[u]
    OBVIOUS
  <2>2. JobOK(k)
    BY <2>1, Parts
  <2>3. JobOK(k)'
    BY ONLY <1>1, <2>2, SameJobs
  <2> QED
    BY <1>1, <2>1, <2>3
<1> QED
  BY <1>2, <1>3, <1>4, <1>5 DEF IInv

LEMMA NextInv ==
  ASSUME IInv, [Next]_vars
  PROVE  IInv'
<1>1. CASE \E p \in PRs : Open(p) \/ Push(p) \/ Close(p) \/ ChecksEnd(p) \/ Rerun(p)
  BY <1>1, OpenInv, PushInv, CloseInv, ChecksEndInv, RerunInv
<1>2. CASE BaseMoves \/ LimitEnds \/ Crash
  BY <1>2, BaseMovesInv, LimitEndsInv, CrashInv
<1>3. CASE \E t \in Threads : Step(t) \/ Start(t)
  BY <1>3, StepInv, StartInv
<1>4. CASE UNCHANGED vars
  BY <1>4, StutterInv
<1> QED
  BY <1>1, <1>2, <1>3, <1>4 DEF Next

LEMMA Invariant == Spec => []IInv
<1>1. Init => IInv
  BY InitInv
<1>2. IInv /\ [Next]_vars => IInv'
  BY NextInv
<1> QED
  BY <1>1, <1>2, PTL DEF Spec

(* What is shown, kept and carried by every goroutine has its type: a       *)
(* goroutine has at each step what that step reads.                        *)
THEOREM RepoWatchTypes == Spec => []TypeOK
<1>1. IInv => TypeOK
  BY DEF IInv
<1> QED
  BY <1>1, Invariant, PTL

(* Switching retry on is good for one re-run, for any number of goroutines   *)
(* that look at the same failure in copies of any age.                     *)
THEOREM RetriedOnce == Spec => []RetriesOnce
<1>1. IInv => RetriesOnce
  BY DEF IInv
<1> QED
  BY <1>1, Invariant, PTL

(* The step of KeptWhileOpen.                                              *)
Keeps ==
  \A p \in PRs : gh[p].state = "OPEN" /\ ~ opened' =>
    /\ p \in muted /\ p \notin muted' =>
         \E t \in Threads : At(t, "unmute") /\ job[t].pr = p
    /\ \A t \in Threads :
         At(t, "retry") /\ job'[t] # job[t] /\ job[t].copy[p] = None =>
           retry'[p] = retry[p]

(* Who changes what is muted: a person, and a refresh that sees what closed.  *)
LEMMA MutedChanges ==
  ASSUME IInv, [Next]_vars
  PROVE  \/ muted' = muted
         \/ \E t \in Threads, p \in PRs : SetMuted(t, p)
         \/ \E t \in Threads : Apply(t)
BY DEF Next, Step, Start, vars, kept, Unseen, Open, Push, Close, ChecksEnd, Rerun, BaseMoves,
       LimitEnds, Crash, CallFails, FetchFull, Mark, CheckRetry, SyncList, SyncBase, Sync, Fresh,
       AskList, AskBase, Note, Relist, Renote, CopyRepo, FetchDetails, Splice, Replace, CopyOwn,
       SetAutoRetry, LookFull, RefreshAfterCommand, Look, LookInFlight, Command

(* A goroutine at "retry" has one thing to do, unless it is killed, and what *)
(* others do leaves its job alone.                                         *)
LEMMA RetryStep ==
  ASSUME IInv, [Next]_vars, NEW t \in Threads, At(t, "retry"), job'[t] # job[t]
  PROVE  CheckRetry(t) \/ Crash
<1>1. job \in [Threads -> Job]
  BY DEF IInv, TypeOK
<1>2. ~ UNCHANGED vars
  BY DEF vars
<1>3. ASSUME NEW p \in PRs, Open(p) \/ Push(p) \/ Close(p) \/ ChecksEnd(p) \/ Rerun(p)
      PROVE  FALSE
  BY <1>3 DEF Open, Push, Close, ChecksEnd, Rerun, Unseen
<1>4. ~ BaseMoves /\ ~ LimitEnds
  BY DEF BaseMoves, LimitEnds, Unseen
<1>5. ASSUME NEW u \in Threads, Step(u) \/ Start(u)
      PROVE  CheckRetry(t)
  <2>1. \E j : Becomes(u, j)
    BY <1>5 DEF Step, Start, CallFails, FetchFull, Mark, Apply, CheckRetry, SyncList, SyncBase,
                Sync, Fresh, AskList, AskBase, Note, Relist, Renote, CopyRepo, FetchDetails,
                Splice, Replace, CopyOwn, SetMuted, SetAutoRetry, LookFull, RefreshAfterCommand,
                Look, LookInFlight, Command, Goto
  <2>2. u = t
    BY <1>1, <2>1 DEF Becomes
  <2>3. job[u].at = "retry"
    BY <2>2 DEF At
  <2>4. ~ Start(u)
    BY <2>3 DEF Start, LookFull, RefreshAfterCommand, Look, LookInFlight, Command, At
  <2>5. CheckRetry(u)
    BY <1>5, <2>3, <2>4 DEF Step, CallFails, FetchFull, Mark, Apply, SyncList, SyncBase, Calls,
                Sync, Fresh, AskList, AskBase, Note, Relist, Renote, CopyRepo, FetchDetails,
                Splice, Replace, CopyOwn, SetMuted, SetAutoRetry, At
  <2> QED
    BY <2>2, <2>5
<1> QED
  BY <1>2, <1>3, <1>4, <1>5 DEF Next

LEMMA KeepsStep ==
  ASSUME IInv, [Next]_vars
  PROVE  Keeps
<1> SUFFICES ASSUME NEW p \in PRs, gh[p].state = "OPEN", ~ opened'
             PROVE  /\ p \in muted /\ p \notin muted' =>
                         \E t \in Threads : At(t, "unmute") /\ job[t].pr = p
                    /\ \A t \in Threads :
                         At(t, "retry") /\ job'[t] # job[t] /\ job[t].copy[p] = None =>
                           retry'[p] = retry[p]
  BY DEF Keeps
<1>1. ~ opened
  <2>1. ASSUME NEW q \in PRs, Open(q) \/ Push(q) \/ Close(q) \/ ChecksEnd(q) \/ Rerun(q)
        PROVE  ~ opened
    BY <2>1 DEF Open, Push, Close, ChecksEnd, Rerun, github
  <2>2. CASE BaseMoves \/ LimitEnds \/ Crash
    BY <2>2 DEF BaseMoves, LimitEnds, Crash, github
  <2>3. ASSUME NEW t \in Threads, Start(t)
        PROVE  ~ opened
    <3>1. UNCHANGED github
      BY <2>3 DEF Start, LookFull, RefreshAfterCommand, Look, LookInFlight, Command
    <3> QED
      BY <3>1 DEF github
  <2>4. ASSUME NEW t \in Threads, Step(t)
        PROVE  ~ opened
    <3>1. CASE CallFails(t) \/ FetchFull(t) \/ Mark(t) \/ Apply(t) \/ CheckRetry(t)
      BY <3>1 DEF CallFails, FetchFull, Mark, Apply, CheckRetry, github
    <3>2. CASE SyncList(t) \/ SyncBase(t) \/ Sync(t) \/ Fresh(t)
      BY <3>2 DEF SyncList, SyncBase, Sync, Fresh, github
    <3>3. CASE AskList(t) \/ AskBase(t) \/ Note(t) \/ Relist(t) \/ Renote(t)
      BY <3>3 DEF AskList, AskBase, Note, Relist, Renote, github
    <3>4. CASE CopyRepo(t) \/ FetchDetails(t) \/ Splice(t) \/ Replace(t) \/ CopyOwn(t)
      BY <3>4 DEF CopyRepo, FetchDetails, Splice, Replace, CopyOwn, github
    <3>5. CASE \E q \in PRs : SetMuted(t, q) \/ SetAutoRetry(t, q)
      BY <3>5 DEF SetMuted, SetAutoRetry, github
    <3> QED
      BY <2>4, <3>1, <3>2, <3>3, <3>4, <3>5 DEF Step
  <2>5. CASE UNCHANGED vars
    BY <2>5 DEF vars, github
  <2> QED
    BY <2>1, <2>2, <2>3, <2>4, <2>5 DEF Next
<1>2. p \in OpenPRs /\ TypeOK
  BY DEF OpenPRs, IInv
<1>3. ASSUME NEW t \in Threads, At(t, "apply") \/ At(t, "retry"), ~ Truncated(job[t])
      PROVE  job[t].copy[p] # None
  <2>1. Covered(In(job[t].copy), job[t].total)
    BY <1>3, Parts DEF JobOK, At
  <2>2. OpenPRs \subseteq In(job[t].copy)
    BY <1>1, <1>2, <1>3, <2>1, WholeCopy DEF Truncated
  <2> QED
    BY <1>2, <2>2 DEF In
<1>4. ASSUME p \in muted, p \notin muted'
      PROVE  \E t \in Threads : At(t, "unmute") /\ job[t].pr = p
  <2>1. CASE \E t \in Threads, q \in PRs : SetMuted(t, q)
    BY <1>4, <2>1 DEF SetMuted, At
  <2>2. ASSUME NEW t \in Threads, Apply(t)
        PROVE  FALSE
    <3>1. p \notin Prune(job[t]) /\ At(t, "apply")
      BY <1>4, <2>2 DEF Apply
    <3>2. ~ Truncated(job[t]) /\ job[t].copy[p] = None
      BY <1>4, <3>1 DEF Prune, In
    <3> QED
      BY <1>3, <3>1, <3>2
  <2> QED
    BY <1>4, <2>1, <2>2, MutedChanges
<1>5. ASSUME NEW t \in Threads, At(t, "retry"), job'[t] # job[t], job[t].copy[p] = None
      PROVE  retry'[p] = retry[p]
  <2>1. CASE Crash
    BY <2>1 DEF Crash, kept
  <2>2. CASE CheckRetry(t)
    <3>1. Truncated(job[t])
      BY <1>3, <1>5
    <3>2. p \notin Dropped(job[t]) /\ p \notin Spent(job[t])
      BY <1>5, <3>1 DEF Dropped, Spent
    <3> QED
      BY <2>2, <3>2 DEF CheckRetry
  <2> QED
    BY <1>5, <2>1, <2>2, RetryStep
<1> QED
  BY <1>4, <1>5

(* As long as no PR is opened, a refresh neither unmutes an open PR nor      *)
(* drops its retry because a list leaves it out, whichever copies and totals *)
(* goroutines carry from before.                                           *)
THEOREM OpenPRsAreKept == Spec => KeptWhileOpen
<1>1. IInv /\ [Next]_vars => Keeps
  BY KeepsStep
<1>2. Spec => [][Keeps]_vars
  BY <1>1, Invariant, PTL DEF Spec
<1> QED
  BY <1>2 DEF KeptWhileOpen, Keeps
==========================================================================
