---------------------- MODULE TwoWayMessages_proofs ----------------------
(***************************************************************************)
(* Why the taps on one rendering of a message act once, why a merge is of  *)
(* the commit its button was shown for, why a PR has one message that      *)
(* stands, and why none is said closed that is open: for any PRs, budgets  *)
(* and bounds.                                                             *)
(***************************************************************************)
EXTENDS TwoWayMessages, FiniteSetTheorems, TLAPS

----------------------------------------------------------------------------
(* Goroutines.                                                             *)

(* The steps that are about the message tapped, and those of a goroutine    *)
(* that handles no tap.                                                    *)
Doing  == {"check", "splice", "judge", "perform", "rerender", "ask", "finish", "closed"}
Untold == {"apply", "sync", "delete", "strip", "keep", "post", "record"}

(* The message t handles a tap on, in m.tapping.                            *)
Handled(t) == IF t.tap # None /\ t.id # None THEN {t.id} ELSE {}

(* t may come to act with the keys its tap came with.                       *)
Acts(t) ==
  /\ t.tap # None
  /\ t.at \in {"check", "splice", "judge", "perform"} \/ (t.at \in {"apply", "sync"} /\ t.then = "judge")

(* What t must carry at each step.                                         *)
Shape(t) ==
  /\ t.at # "end"
  /\ t.gone # <<>> <=> t.at \in {"delete", "strip", "keep"}
  /\ t.at \in {"apply", "sync"} => t.copy \in Copy
  /\ t.at \in {"post", "record"} => t.posts # <<>>
  /\ \A k \in DOMAIN t.posts : t.posts[k].message.retiring = None
  /\ t.tap = None => /\ t.at \in Untold /\ t.then = "end"
                     /\ t.id # None <=> t.at = "record"
                     /\ t.at = "record" => t.record \in Message /\ t.record.retiring = None
  /\ t.tap # None =>
       /\ t.at \notin {"post", "record"} /\ (t.at # "sync" => t.posts = <<>>)
       /\ t.id \in {None, t.tap.id} /\ (t.at = "tap" => t.id = None /\ ~ t.says)
       /\ t.at \in Doing \cup {"apply", "sync", "reload"} => t.id # None /\ t.record \in Message
       /\ t.at \in {"apply", "sync"} => t.then \in {"judge", "finish", "rerender"}
       /\ t.at = "reload" => t.then \in {"finish", "rerender"}
       /\ t.at \in {"tap", "delete", "strip", "keep"} => t.then = "ack"
       /\ t.at = "edit" => /\ t.edit \in InChat /\ t.edit.shown
                           /\ t.id = None => t.edit.buttons = {} /\ ~ t.says
       /\ Acts(t) => t.tap.button \in {"merge", "rerun_checks", "confirm_force_merge"}
       /\ Acts(t) /\ t.at # "check" => t.record.head # 0 \/ t.tap.button = "rerun_checks"

----------------------------------------------------------------------------
(* What is held once.                                                      *)

(* The messages t has claimed and not deleted, or posted and not recorded,  *)
(* and the keys it may act on or has posted.                               *)
Claimed(t) ==
  {t.gone[k].id : k \in DOMAIN t.gone} \cup (IF t.at = "record" THEN {t.id} ELSE {})

Keys(t) ==
  IF t.at = "record" THEN {t.record.gen} ELSE IF Acts(t) THEN {t.tap.gen} ELSE {}

Holds(t) ==
  ({"tap"} \X Handled(t)) \cup ({"message"} \X Claimed(t)) \cup ({"key"} \X Keys(t))

(* What is held by a record, or spent.                                     *)
Kept ==
  ({"message"} \X Tracked) \cup ({"key"} \X {messages[id].gen : id \in Tracked})
    \cup ({"key"} \X {done[i].gen : i \in DOMAIN done})

(* A tap being handled, a message claimed, and a key that may yet be acted   *)
(* on, belong to one goroutine, and to it alone.                           *)
HeldOnce ==
  /\ \A t \in DOMAIN tasks :
       /\ Holds(t) # {} => tasks[t] = 1
       /\ Holds(t) \cap Kept = {}
       /\ \A i, j \in DOMAIN t.gone : t.gone[i].id = t.gone[j].id => i = j
  /\ \A t, u \in DOMAIN tasks : t # u => Holds(t) \cap Holds(u) = {}

(* Standing messages have keys of their own (0 is none), never spent ones.   *)
KeysDiffer ==
  /\ \A id, other \in Tracked :
       messages[id].gen = messages[other].gen => id = other \/ messages[id].gen = 0
  /\ \A id \in Tracked : /\ messages[id].gen <= gens
                         /\ \A i \in DOMAIN done : messages[id].gen # done[i].gen
  /\ \A i \in DOMAIN done : done[i].gen \in 1..gens

----------------------------------------------------------------------------
(* What each goroutine carries stays true.                                 *)

(* p is closed, or a look took a PRTotal for right that was not.             *)
Closed(p) == "total" \in mishaps \/ ~ gh[p].open

(* A PR missing from a copy that is not cut off is closed.                   *)
TrueCopy(copy) ==
  copy # None => \A p \in PRs : copy.prs[p] = None /\ ~ Cut(copy) => Closed(p)

(* A message retired because its PR closed is of a PR that closed.           *)
Closes(record, why) == why = "closed" => record.pr \in PRs /\ Closed(record.pr)

(* What a tap's goroutine learnt of its PR.                                  *)
Learnt(t) ==
  /\ t.at = "splice" /\ t.got = None /\ t.record.pr \in PRs => ~ gh[t.record.pr].open
  /\ t.at = "closed" /\ t.record.pr \in PRs => Closed(t.record.pr)

(* A tap is on a message there is, with keys; what was shown with it the     *)
(* reader had been told.                                                   *)
TapOK(tap) == /\ tap.id \in DOMAIN chat /\ tap.gen > 0
              /\ Undisturbed => tap.told = tap.head

DrawnOK(m) == m.buttons # {} => m.gen > 0

(* All of this for one goroutine, whatever step it is at.                    *)
Fine(t) ==
  /\ Shape(t)
  /\ TrueCopy(t.copy) /\ Learnt(t)
  /\ \A k \in DOMAIN t.gone : Closes(t.gone[k].record, t.gone[k].why)
  /\ Claimed(t) \subseteq DOMAIN chat /\ Keys(t) \subseteq 1..gens
  /\ t.tap # None => TapOK(t.tap)
  /\ t.at = "edit" => DrawnOK(t.edit) /\ t.edit.told = t.edit.head

AllFine == \A t \in DOMAIN tasks : Fine(t)

(* The same of what lies in the tables, the chat and among the taps.         *)
TablesFine ==
  /\ TrueCopy(repo)
  /\ \A id \in Tracked : id \in DOMAIN chat /\ Closes(messages[id], messages[id].retiring)
  /\ \A tap \in pressed : TapOK(tap)
  /\ \A id \in DOMAIN chat : DrawnOK(chat[id])
  /\ \A t \in DOMAIN tasks : Handled(t) \subseteq tapping

----------------------------------------------------------------------------
(* The commits keys are for.                                               *)

PairsOf(t) ==
  (IF t.at = "record" THEN {<<t.record.gen, t.record.head>>} ELSE {})
    \cup (IF Acts(t) THEN {<<t.tap.gen, t.record.head>>} ELSE {})
    \cup (IF t.tap # None THEN {<<t.tap.gen, t.tap.head>>} ELSE {})
    \cup (IF t.at = "edit" THEN {<<t.edit.gen, t.edit.head>>} ELSE {})

TablePairs ==
  {<<messages[id].gen, messages[id].head>> : id \in Tracked}
    \cup {<<tap.gen, tap.head>> : tap \in pressed}
    \cup {<<chat[id].gen, chat[id].head>> : id \in DOMAIN chat}

Pairs == TablePairs \cup UNION {PairsOf(t) : t \in DOMAIN tasks}

(* Keys drawn together are for one commit.                                 *)
Agreed ==
  \A x \in Pairs : x[1] <= gens /\ \A y \in Pairs : x[1] = y[1] => x[2] = y[2] \/ x[1] = 0

----------------------------------------------------------------------------
(* What the reader was told, unless something went wrong.                   *)

RecordsOf(t) ==
  {<<t.gone[k].id, t.gone[k].record.head>> : k \in DOMAIN t.gone}
    \cup (IF t.at = "record" THEN {<<t.id, t.record.head>>} ELSE {})

Records ==
  {<<id, messages[id].head>> : id \in Tracked} \cup UNION {RecordsOf(t) : t \in DOMAIN tasks}

(* t is about to redraw the message id.                                    *)
Redraws(t, id) == t.at = "edit" /\ t.tap # None /\ t.id = id

(* A record is of the commit its message tells the reader of, or an edit that *)
(* will tell is on its way.                                                *)
Told ==
  Undisturbed =>
    /\ \A x \in Records :
         /\ chat[x[1]].shown
         /\ \/ chat[x[1]].told = x[2]
            \/ \E t \in DOMAIN tasks : Redraws(t, x[1]) /\ t.says
         /\ \A t \in DOMAIN tasks : Redraws(t, x[1]) => t.edit.head = x[2]
    /\ \A t \in DOMAIN tasks :
         t.at = "edit" /\ t.id # None /\ ~ t.says => chat[t.id].told = t.edit.head
    /\ \A id \in DOMAIN chat : chat[id].buttons # {} => chat[id].told = chat[id].head

(* The inductive invariant: a goroutine holds what nobody else does (so a key *)
(* is acted on once), and whatever it carries between two sections is still  *)
(* true when it comes to use it.                                           *)
IInv ==
  /\ TypeOK /\ AllFine /\ TablesFine /\ HeldOnce /\ KeysDiffer /\ ActsOnce
  /\ Agreed /\ Told /\ OneMessagePerPR /\ MergesPinned /\ done \in Seq(Range(done))

----------------------------------------------------------------------------
(* Goroutines in their bag.                                                *)

LEMMA NoneApart ==
  /\ None \notin Nat /\ None \notin Ids /\ None \notin Reasons /\ None \notin Message
  /\ None \notin Tap /\ None \notin Copy /\ None \notin Listing
  /\ Test \notin PRs /\ None \notin PRs
BY ConstantsAssumption DEF Ids, Listing

LEMMA OneIsBag ==
  ASSUME NEW o
  PROVE  /\ IsABag(One(o))
         /\ \A u \in DOMAIN One(o) : u = o /\ o.at # "end" /\ One(o)[u] = 1
         /\ o.at # "end" => o \in DOMAIN One(o)
BY DEF One, EmptyBag, SetToBag, IsABag

LEMMA NoOther == One(NewTask) = EmptyBag /\ NewTask.at = "end"
BY DEF One, NewTask

(* How many of u there are.                                                *)
Copies(u) == IF u \in DOMAIN tasks THEN tasks[u] ELSE 0
Added(u, next) == IF u = next /\ next.at # "end" THEN 1 ELSE 0

LEMMA Went ==
  ASSUME IsABag(tasks), NEW t \in DOMAIN tasks, NEW next, NEW o, GoesOn(t, next, One(o))
  PROVE  /\ IsABag(tasks')
         /\ \A u : u \in DOMAIN tasks' <=> \/ u \in DOMAIN tasks /\ (u # t \/ tasks[t] # 1)
                                           \/ u = next /\ next.at # "end"
                                           \/ u = o /\ o.at # "end"
         /\ \A u \in DOMAIN tasks' :
              tasks'[u] = Copies(u) - (IF u = t THEN 1 ELSE 0) + Added(u, next) + Added(u, o)
<1> DEFINE left == tasks (-) SetToBag({t})
           a == One(next)
           b == One(o)
           mid == left (+) a
<1>1. tasks[t] \in Nat /\ tasks[t] > 0 /\ \A u \in DOMAIN tasks : tasks[u] \in Nat /\ tasks[u] > 0
  BY DEF IsABag
<1>2. /\ DOMAIN left = IF tasks[t] = 1 THEN DOMAIN tasks \ {t} ELSE DOMAIN tasks
      /\ \A u \in DOMAIN left : left[u] = tasks[u] - (IF u = t THEN 1 ELSE 0)
  <2> DEFINE B == [u \in DOMAIN tasks |-> IF u \in DOMAIN SetToBag({t})
                                         THEN tasks[u] - SetToBag({t})[u] ELSE tasks[u]]
  <2>1. SetToBag({t}) = [u \in {t} |-> 1]
    BY DEF SetToBag
  <2>2. \A u \in DOMAIN tasks : B[u] = tasks[u] - (IF u = t THEN 1 ELSE 0)
    BY <1>1, <2>1
  <2>3. left = [u \in {d \in DOMAIN B : B[d] > 0} |-> B[u]]
    BY DEF (-), B
  <2> HIDE DEF B
  <2>4. DOMAIN B = DOMAIN tasks
    BY DEF B
  <2>5. DOMAIN left = {d \in DOMAIN tasks : B[d] > 0} /\ \A u \in DOMAIN left : left[u] = B[u]
    BY <2>3, <2>4
  <2>6. \A u \in DOMAIN left : u \in DOMAIN tasks /\ left[u] = tasks[u] - (IF u = t THEN 1 ELSE 0)
    BY <2>2, <2>5
  <2>7. \A u \in DOMAIN tasks : B[u] > 0 <=> ~ (u = t /\ tasks[t] = 1)
    BY <1>1, <2>2
  <2> HIDE DEF left
  <2>8. DOMAIN left = {d \in DOMAIN tasks : ~ (d = t /\ tasks[t] = 1)}
    BY <2>5, <2>7
  <2> QED
    BY <2>6, <2>8
<1>3. /\ DOMAIN a = IF next.at = "end" THEN {} ELSE {next}
      /\ \A u \in DOMAIN a : a[u] = 1
      /\ DOMAIN b = IF o.at = "end" THEN {} ELSE {o}
      /\ \A u \in DOMAIN b : b[u] = 1
  BY DEF One, EmptyBag, SetToBag
<1>4. tasks' = mid (+) b
  BY DEF GoesOn
<1> HIDE DEF left, a, b
<1>5. /\ DOMAIN mid = DOMAIN left \cup DOMAIN a
      /\ \A u \in DOMAIN mid : mid[u] = (IF u \in DOMAIN left THEN left[u] ELSE 0)
                                        + (IF u \in DOMAIN a THEN a[u] ELSE 0)
  BY DEF (+)
<1> HIDE DEF mid
<1>6. /\ tasks' = [u \in DOMAIN mid \cup DOMAIN b |->
                     (IF u \in DOMAIN mid THEN mid[u] ELSE 0)
                       + (IF u \in DOMAIN b THEN b[u] ELSE 0)]
  BY <1>4 DEF (+)
<1>7. /\ DOMAIN tasks' = DOMAIN mid \cup DOMAIN b
      /\ \A u \in DOMAIN tasks' : tasks'[u] = (IF u \in DOMAIN mid THEN mid[u] ELSE 0)
                                              + (IF u \in DOMAIN b THEN b[u] ELSE 0)
  BY <1>6
<1>8. \A u : u \in DOMAIN tasks' <=> \/ u \in DOMAIN tasks /\ (u # t \/ tasks[t] # 1)
                                     \/ u = next /\ next.at # "end"
                                     \/ u = o /\ o.at # "end"
  BY <1>2, <1>3, <1>5, <1>7
<1>9. \A u \in DOMAIN tasks' :
        /\ tasks'[u] \in Nat /\ tasks'[u] > 0
        /\ tasks'[u] = Copies(u) - (IF u = t THEN 1 ELSE 0) + Added(u, next) + Added(u, o)
  <2> SUFFICES ASSUME NEW u \in DOMAIN tasks'
               PROVE  /\ tasks'[u] \in Nat /\ tasks'[u] > 0
                      /\ tasks'[u] = Copies(u) - (IF u = t THEN 1 ELSE 0) + Added(u, next) + Added(u, o)
    OBVIOUS
  <2>1. /\ u \in DOMAIN a <=> Added(u, next) = 1
        /\ u \in DOMAIN b <=> Added(u, o) = 1
        /\ Added(u, next) \in {0, 1} /\ Added(u, o) \in {0, 1}
    BY <1>3 DEF Added
  <2>2. tasks'[u] = (IF u \in DOMAIN left THEN left[u] ELSE 0) + Added(u, next) + Added(u, o)
    BY <1>1, <1>2, <1>3, <1>5, <1>7, <2>1
  <2>3. (IF u \in DOMAIN left THEN left[u] ELSE 0) = Copies(u) - (IF u = t THEN 1 ELSE 0)
    BY <1>1, <1>2 DEF Copies
  <2>4. u \in DOMAIN left => left[u] \in Nat /\ left[u] > 0
    BY <1>1, <1>2
  <2>5. u \in DOMAIN left \/ Added(u, next) = 1 \/ Added(u, o) = 1
    BY <1>5, <1>7, <2>1
  <2> QED
    BY <2>1, <2>2, <2>3, <2>4, <2>5
<1>10. IsABag(tasks')
  BY <1>6, <1>7, <1>9 DEF IsABag
<1> QED
  BY <1>8, <1>9, <1>10

LEMMA Started ==
  ASSUME IsABag(tasks), NEW o, tasks' = tasks (+) One(o)
  PROVE  /\ IsABag(tasks')
         /\ \A u : u \in DOMAIN tasks' <=> u \in DOMAIN tasks \/ (u = o /\ o.at # "end")
         /\ \A u \in DOMAIN tasks' : tasks'[u] = Copies(u) + Added(u, o)
<1> DEFINE b == One(o)
<1>1. /\ DOMAIN b = IF o.at = "end" THEN {} ELSE {o}
      /\ \A u \in DOMAIN b : b[u] = 1
  BY DEF One, EmptyBag, SetToBag
<1> HIDE DEF b
<1>2. tasks' = [u \in DOMAIN tasks \cup DOMAIN b |->
                  (IF u \in DOMAIN tasks THEN tasks[u] ELSE 0) + (IF u \in DOMAIN b THEN b[u] ELSE 0)]
  BY DEF (+), b
<1>3. \A u : u \in DOMAIN tasks' <=> u \in DOMAIN tasks \/ (u = o /\ o.at # "end")
  BY <1>1, <1>2
<1>4. \A u \in DOMAIN tasks' : /\ tasks'[u] \in Nat /\ tasks'[u] > 0
                               /\ tasks'[u] = Copies(u) + Added(u, o)
  BY <1>1, <1>2 DEF IsABag, Copies, Added
<1>5. IsABag(tasks')
  BY <1>2, <1>3, <1>4 DEF IsABag
<1> QED
  BY <1>3, <1>4, <1>5

----------------------------------------------------------------------------
(* What is held once stays so.                                             *)

Free(x) == \A u \in DOMAIN tasks : x \notin Holds(u)

Distinct(t) == \A i, j \in DOMAIN t.gone : t.gone[i].id = t.gone[j].id => i = j

(* A step passes on what t holds, or takes what nobody holds.               *)
LEMMA HeldStep ==
  ASSUME IsABag(tasks), HeldOnce, NEW t \in DOMAIN tasks, NEW next, NEW o,
         GoesOn(t, next, One(o)), Distinct(next), Distinct(o),
         \A x \in Holds(next) \cup Holds(o) : x \in Holds(t) \/ Free(x),
         Holds(next) \cap Holds(o) = {},
         (Holds(next) \cup Holds(o)) \cap Kept' = {},
         \A x \in Kept' : x \in Kept \/ x \in Holds(t) \/ Free(x)
  PROVE  HeldOnce'
<1>1. /\ \A u : u \in DOMAIN tasks' <=> \/ u \in DOMAIN tasks /\ (u # t \/ tasks[t] # 1)
                                        \/ u = next /\ next.at # "end"
                                        \/ u = o /\ o.at # "end"
      /\ \A u \in DOMAIN tasks' :
           tasks'[u] = Copies(u) - (IF u = t THEN 1 ELSE 0) + Added(u, next) + Added(u, o)
  BY Went
<1>2. /\ \A u \in DOMAIN tasks : /\ Holds(u) # {} => tasks[u] = 1
                                 /\ Holds(u) \cap Kept = {} /\ Distinct(u)
      /\ \A u, v \in DOMAIN tasks : u # v => Holds(u) \cap Holds(v) = {}
  BY DEF HeldOnce, Distinct
<1>3. ASSUME NEW u \in DOMAIN tasks', Holds(u) # {}
      PROVE  tasks'[u] = 1
  <2>1. PICK x : x \in Holds(u)
    BY <1>3
  <2>2. tasks'[u] = Copies(u) - (IF u = t THEN 1 ELSE 0) + Added(u, next) + Added(u, o)
    BY <1>1
  <2>3. CASE u # next /\ u # o
    <3>1. u \in DOMAIN tasks /\ u # t /\ tasks[u] = 1
      BY <1>1, <1>2, <1>3, <2>3
    <3> QED
      BY <2>2, <2>3, <3>1 DEF Copies, Added
  <2>4. CASE u = next \/ u = o
    <3>1. x \in Holds(t) \/ Free(x)
      BY <2>1, <2>4
    <3>2. u \in DOMAIN tasks => u = t /\ tasks[u] = 1
      BY <1>2, <2>1, <3>1 DEF Free
    <3>3. Copies(u) - (IF u = t THEN 1 ELSE 0) = 0
      BY <3>2 DEF Copies
    <3>4. ~ (u = next /\ u = o)
      BY <2>1
    <3>5. Added(u, next) + Added(u, o) \in {0, 1}
      BY <3>4 DEF Added
    <3>6. tasks'[u] # 0
      BY Went DEF IsABag
    <3> QED
      BY <2>2, <3>3, <3>5, <3>6 DEF Added
  <2> QED
    BY <2>3, <2>4
<1>4. \A u \in DOMAIN tasks' : Holds(u) # {} => (u \in DOMAIN tasks /\ u # t) \/ u = next \/ u = o
  BY <1>1, <1>2
<1>5. ASSUME NEW u \in DOMAIN tasks', NEW x \in Holds(u)
      PROVE  x \notin Kept'
  <2>1. CASE u = next \/ u = o
    BY <2>1
  <2>2. CASE u \in DOMAIN tasks /\ u # t
    BY <1>2, <2>2 DEF Free
  <2> QED
    BY <1>4, <2>1, <2>2
<1>6. ASSUME NEW u \in DOMAIN tasks', NEW v \in DOMAIN tasks', u # v, NEW x \in Holds(u), x \in Holds(v)
      PROVE  FALSE
  <2>1. CASE u \in DOMAIN tasks /\ u # t
    <3>1. x \notin Holds(t) /\ ~ Free(x)
      BY <1>2, <2>1 DEF Free
    <3>2. v # next /\ v # o
      BY <1>6, <3>1
    <3> QED
      BY <1>2, <1>4, <1>6, <2>1, <3>2
  <2>2. CASE v \in DOMAIN tasks /\ v # t
    <3>1. x \notin Holds(t) /\ ~ Free(x)
      BY <1>2, <1>6, <2>2 DEF Free
    <3>2. u # next /\ u # o
      BY <1>6, <3>1
    <3> QED
      BY <1>2, <1>4, <1>6, <2>2, <3>2
  <2> QED
    BY <1>4, <1>6, <2>1, <2>2
<1>7. \A u \in DOMAIN tasks' : Distinct(u)
  BY <1>1, <1>2
<1> QED
  BY <1>3, <1>5, <1>6, <1>7 DEF HeldOnce, Distinct

LEMMA HeldStart ==
  ASSUME IsABag(tasks), HeldOnce, NEW o, tasks' = tasks (+) One(o), Distinct(o),
         \A x \in Holds(o) : Free(x), Holds(o) \cap Kept' = {},
         \A x \in Kept' : x \in Kept \/ Free(x)
  PROVE  HeldOnce'
<1>1. /\ \A u : u \in DOMAIN tasks' <=> u \in DOMAIN tasks \/ (u = o /\ o.at # "end")
      /\ \A u \in DOMAIN tasks' : tasks'[u] = Copies(u) + Added(u, o)
  BY Started
<1>2. /\ \A u \in DOMAIN tasks : /\ Holds(u) # {} => tasks[u] = 1
                                 /\ Holds(u) \cap Kept = {} /\ Distinct(u)
      /\ \A u, v \in DOMAIN tasks : u # v => Holds(u) \cap Holds(v) = {}
  BY DEF HeldOnce, Distinct
<1>3. ASSUME NEW u \in DOMAIN tasks', Holds(u) # {}
      PROVE  tasks'[u] = 1
  <2>1. tasks'[u] = Copies(u) + Added(u, o)
    BY <1>1
  <2>2. CASE u \in DOMAIN tasks
    <3>1. u # o /\ tasks[u] = 1
      BY <1>2, <1>3, <2>2 DEF Free
    <3> QED
      BY <2>1, <2>2, <3>1 DEF Copies, Added
  <2>3. CASE u \notin DOMAIN tasks
    BY <1>1, <2>1, <2>3 DEF Copies, Added
  <2> QED
    BY <2>2, <2>3
<1>4. ASSUME NEW u \in DOMAIN tasks'
      PROVE  Holds(u) \cap Kept' = {} /\ Distinct(u)
  BY <1>1, <1>2 DEF Free
<1>5. ASSUME NEW u \in DOMAIN tasks', NEW v \in DOMAIN tasks', u # v
      PROVE  Holds(u) \cap Holds(v) = {}
  BY <1>1, <1>2, <1>5 DEF Free
<1> QED
  BY <1>3, <1>4, <1>5 DEF HeldOnce, Distinct

(* Records go, or lose their keys.                                         *)
LEMMA HeldTables ==
  ASSUME HeldOnce, tasks' = tasks, \A x \in Kept' : x \in Kept \/ Free(x)
  PROVE  HeldOnce'
BY DEF HeldOnce, Free

----------------------------------------------------------------------------
(* What goroutines are made of.                                            *)

Unsent == [pr : PRs \cup {Test}, message : Message]

LEMMA SetSeq ==
  ASSUME NEW S, IsFiniteSet(S)
  PROVE  /\ SetToSeq(S) \in Seq(S)
         /\ \A i, j \in DOMAIN SetToSeq(S) : SetToSeq(S)[i] = SetToSeq(S)[j] => i = j
<1>1. Cardinality(S) \in Nat /\ \E f \in [1..Cardinality(S) -> S] : IsInjective(f)
  BY FS_CardinalityType DEF ExistsBijection, Bijection, Injection, IsInjective
<1>2. SetToSeq(S) \in [1..Cardinality(S) -> S] /\ IsInjective(SetToSeq(S))
  BY <1>1 DEF SetToSeq
<1> QED
  BY <1>1, <1>2 DEF IsInjective

LEMMA IdsFinite == IsFiniteSet(Ids) /\ Ids \subseteq Nat \ {0}
BY ConstantsAssumption, FS_Interval DEF Ids

LEMMA RetireesIs ==
  ASSUME NEW table, NEW why, DOMAIN why \subseteq Ids,
         \A id \in DOMAIN why : table[id] \in Message /\ why[id] \in Reasons
  PROVE  /\ Retirees(table, why) \in Seq(Retiree)
         /\ \A k \in DOMAIN Retirees(table, why) :
              LET g == Retirees(table, why)[k]
              IN g.id \in DOMAIN why /\ g.record = table[g.id] /\ g.why = why[g.id]
         /\ \A i, j \in DOMAIN Retirees(table, why) :
              Retirees(table, why)[i].id = Retirees(table, why)[j].id => i = j
<1> DEFINE item(id) == [id |-> id, record |-> table[id], why |-> why[id]]
           S == {item(id) : id \in DOMAIN why}
           q == Retirees(table, why)
<1>1. IsFiniteSet(S)
  <2>1. IsFiniteSet(DOMAIN why)
    BY IdsFinite, FS_Subset
  <2> DEFINE f == [id \in DOMAIN why |-> item(id)]
  <2>2. f \in Surjection(DOMAIN why, S)
    BY DEF Surjection
  <2> QED
    BY <2>1, <2>2, FS_Surjection
<1>2. S \subseteq Retiree
  BY DEF Retiree
<1>3. q = SetToSeq(S)
  BY DEF Retirees
<1> HIDE DEF S, q
<1>4. q \in Seq(S) /\ \A i, j \in DOMAIN q : q[i] = q[j] => i = j
  BY <1>1, <1>3, SetSeq
<1>5. q \in Seq(Retiree)
  BY <1>2, <1>4
<1>6. \A k \in DOMAIN q : q[k] \in S
  BY <1>4
<1>7. \A k \in DOMAIN q : \E id \in DOMAIN why : q[k] = item(id)
  BY <1>6 DEF S
<1>8. \A k \in DOMAIN q : q[k].id \in DOMAIN why /\ q[k] = item(q[k].id)
  BY <1>7
<1>9. \A k \in DOMAIN q : q[k].record = table[q[k].id] /\ q[k].why = why[q[k].id]
  BY <1>8
<1>10. \A i, j \in DOMAIN q : q[i].id = q[j].id => i = j
  BY <1>4, <1>8
<1> QED
  BY <1>5, <1>8, <1>9, <1>10 DEF q

(* The same goroutine, but for its step.                                   *)
Alike(t, u) ==
  /\ u.then = t.then /\ u.id = t.id /\ u.readies = t.readies /\ u.tap = t.tap
  /\ u.record = t.record /\ u.says = t.says /\ u.edit = t.edit

LEMMA NewIs ==
  /\ NewTask \in Task /\ NewTask.at = "end" /\ NewTask.then = "end" /\ NewTask.copy = None
  /\ NewTask.posts = <<>> /\ NewTask.gone = <<>> /\ NewTask.id = None /\ NewTask.tap = None
  /\ NewTask.record = None /\ NewTask.edit = None /\ NewTask.says = FALSE
  /\ NewTask.readies = 0
BY DEF NewTask, Task, Steps

LEMMA ResumeIs ==
  ASSUME NEW t \in Task
  PROVE  /\ Resume(t) \in Task /\ Alike(t, Resume(t))
         /\ Resume(t).gone = t.gone /\ Resume(t).posts = t.posts /\ Resume(t).copy = t.copy
         /\ Resume(t).at = IF t.gone # <<>> THEN "delete"
                           ELSE IF t.posts # <<>> THEN "post" ELSE t.then
<1> DEFINE at == IF t.gone # <<>> THEN "delete" ELSE IF t.posts # <<>> THEN "post" ELSE t.then
           r == [t EXCEPT !.at = at]
<1>1. at \in Steps
  BY DEF Task, Steps
<1>2. Resume(t) = r
  BY DEF Resume
<1> HIDE DEF at
<1>3. r \in Task
  BY <1>1 DEF Task
<1>4. r.at = at /\ Alike(t, r) /\ r.gone = t.gone /\ r.posts = t.posts /\ r.copy = t.copy
  BY DEF Task, Alike
<1> HIDE DEF r
<1> QED
  BY <1>2, <1>3, <1>4 DEF at

LEMMA GotoIs ==
  ASSUME NEW t \in Task, NEW step \in Steps
  PROVE  LET u == [t EXCEPT !.at = step]
         IN /\ u \in Task /\ Alike(t, u) /\ u.at = step
            /\ u.gone = t.gone /\ u.posts = t.posts /\ u.copy = t.copy
BY DEF Task, Alike

LEMMA CleanupIs ==
  ASSUME NEW gone \in Seq(Retiree), NEW posts \in Seq(Unsent)
  PROVE  \E o \in Task :
           /\ Cleanup(gone, posts) = One(o)
           /\ o.gone = gone /\ o.posts = posts /\ Alike(NewTask, o) /\ o.copy = None
           /\ o.at = IF gone # <<>> THEN "delete" ELSE IF posts # <<>> THEN "post" ELSE "end"
<1> DEFINE n == [NewTask EXCEPT !.gone = gone, !.posts = posts]
<1>1. n \in Task
  BY NewIs DEF Task, Unsent
<1>2. /\ n.gone = gone /\ n.posts = posts /\ Alike(NewTask, n) /\ n.copy = None
      /\ n.then = "end"
  BY NewIs DEF Task, Alike
<1>3. Cleanup(gone, posts) = One(Resume(n))
  BY DEF Cleanup
<1> HIDE DEF n
<1> QED
  BY <1>1, <1>2, <1>3, ResumeIs DEF Alike

----------------------------------------------------------------------------
(* One part of the invariant at a time.                                    *)

(* PRs only close, messages and keys only come, and a mishap stays.         *)
Grows ==
  /\ \A p \in PRs : ~ gh[p].open => ~ gh'[p].open
  /\ DOMAIN chat \subseteq DOMAIN chat' /\ gens <= gens'
  /\ mishaps \subseteq mishaps'

(* The record of the message is as it was, or lost its keys.                *)
Faded(id) ==
  LET m == messages[id]
      n == messages'[id]
  IN m # None /\ n.pr = m.pr /\ n.head = m.head /\ n.retiring = m.retiring /\ n.gen \in {m.gen, 0}

LEMMA Types ==
  ASSUME TypeOK
  PROVE  /\ gens \in Nat /\ DOMAIN chat \subseteq Ids /\ DOMAIN chat = 1..Len(chat)
         /\ Len(chat) \in Nat
         /\ IsABag(tasks) /\ \A t \in DOMAIN tasks : t \in Task
         /\ \A id \in Ids : messages[id] \in Message \cup {None}
         /\ \A id \in Tracked : id \in Ids /\ messages[id] \in Message
         /\ \A id \in DOMAIN chat : chat[id] \in InChat
         /\ DOMAIN messages = Ids
<1>1. chat \in Seq(InChat) /\ Len(chat) <= MaxPosts /\ MaxPosts \in Nat
  BY ConstantsAssumption DEF TypeOK
<1>2. /\ DOMAIN chat \subseteq Ids /\ DOMAIN chat = 1..Len(chat) /\ Len(chat) \in Nat
      /\ \A id \in DOMAIN chat : chat[id] \in InChat
  BY <1>1 DEF Ids
<1>3. messages \in [Ids -> Message \cup {None}] /\ gens \in Nat
  BY DEF TypeOK
<1>4. IsABag(tasks) /\ \A t \in DOMAIN tasks : t \in Task
  BY DEF TypeOK
<1> QED
  BY <1>2, <1>3, <1>4 DEF Tracked, TrackedIn

LEMMA ClosedGrows ==
  ASSUME Grows
  PROVE  \A p \in PRs : Closed(p) => Closed(p)'
BY DEF Grows, Closed

LEMMA TrueGrows ==
  ASSUME Grows, NEW copy, TrueCopy(copy)
  PROVE  TrueCopy(copy)'
<1>1. Cut(copy)' = Cut(copy)
  BY DEF Cut
<1> QED
  BY <1>1, ClosedGrows DEF TrueCopy

LEMMA TrueKeeps ==
  ASSUME \A p \in PRs : ~ gh[p].open => ~ gh'[p].open, mishaps \subseteq mishaps',
         NEW copy, TrueCopy(copy)
  PROVE  TrueCopy(copy)'
<1>1. Cut(copy)' = Cut(copy)
  BY DEF Cut
<1>2. \A p \in PRs : Closed(p) => Closed(p)'
  BY DEF Closed
<1> QED
  BY <1>1, <1>2 DEF TrueCopy

LEMMA TrueThen ==
  ASSUME \A p \in PRs : ~ gh[p].open => ~ gh'[p].open, mishaps \subseteq mishaps',
         NEW copy, TrueCopy(copy), repo' = copy
  PROVE  TrueCopy(repo)'
<1>1. {p \in PRs : repo'.prs[p] # None} = {p \in PRs : copy.prs[p] # None}
  OBVIOUS
<1>2. Cut(repo)' = Cut(copy)
  BY <1>1 DEF Cut
<1>3. \A p \in PRs : Closed(p) => Closed(p)'
  BY DEF Closed
<1> QED
  BY <1>2, <1>3 DEF TrueCopy

LEMMA TrueStays ==
  ASSUME \A p \in PRs : ~ gh[p].open => ~ gh'[p].open, mishaps \subseteq mishaps',
         TrueCopy(repo), repo' = repo
  PROVE  TrueCopy(repo)'
<1>1. PICK copy : copy = repo
  OBVIOUS
<1>2. TrueCopy(copy)
  BY <1>1
<1> QED
  BY <1>1, <1>2, TrueThen

LEMMA CalmMishaps ==
  ASSUME mishaps \subseteq mishaps'
  PROVE  Undisturbed' => Undisturbed
BY DEF Undisturbed

LEMMA LearntGrows ==
  ASSUME Grows, NEW t, Learnt(t)
  PROVE  Learnt(t)'
BY ClosedGrows DEF Grows, Learnt

LEMMA FineGrows ==
  ASSUME Grows, gens \in Nat, gens' \in Nat, NEW u, Fine(u)
  PROVE  Fine(u)'
<1>1. Shape(u) /\ Shape(u)'
  BY DEF Fine, Shape, Acts
<1>2. TrueCopy(u.copy)' /\ Learnt(u)'
  BY TrueGrows, LearntGrows DEF Fine
<1>3. \A k \in DOMAIN u.gone : Closes(u.gone[k].record, u.gone[k].why)'
  BY ClosedGrows DEF Fine, Closes
<1>4. Claimed(u) \subseteq DOMAIN chat' /\ Keys(u) \subseteq 1..gens'
  <2>1. Claimed(u) \subseteq DOMAIN chat /\ Keys(u) \subseteq 1..gens
    BY DEF Fine
  <2>2. 1..gens \subseteq 1..gens'
    BY DEF Grows
  <2> QED
    BY <2>1, <2>2 DEF Grows
<1>5. u.tap # None => TapOK(u.tap)'
  BY DEF Fine, Learnt, TapOK, Undisturbed, Grows
<1>6. u.at = "edit" => DrawnOK(u.edit) /\ u.edit.told = u.edit.head
  BY DEF Fine
<1> QED
  BY <1>1, <1>2, <1>3, <1>4, <1>5, <1>6 DEF Fine, Shape, Claimed, Keys, DrawnOK, Acts

LEMMA FineStep ==
  ASSUME AllFine, Grows, gens \in Nat, gens' \in Nat,
         NEW N, DOMAIN tasks' \subseteq DOMAIN tasks \cup N, \A u \in N : Fine(u)'
  PROVE  AllFine'
BY FineGrows DEF AllFine

LEMMA PairsAre ==
  /\ \A t \in DOMAIN tasks : PairsOf(t) \subseteq Pairs
  /\ \A id \in Tracked : <<messages[id].gen, messages[id].head>> \in Pairs
  /\ \A tap \in pressed : <<tap.gen, tap.head>> \in Pairs
  /\ \A id \in DOMAIN chat : <<chat[id].gen, chat[id].head>> \in Pairs
BY DEF Pairs, TablePairs

LEMMA PairsTyped ==
  ASSUME TypeOK, AllFine
  PROVE  \A x \in Pairs : x[1] \in Nat
<1>1. \A id \in Tracked : messages[id].gen \in Nat
  BY Types DEF Message
<1>2. \A tap \in pressed : tap.gen \in Nat
  BY DEF TypeOK, Tap
<1>3. \A id \in DOMAIN chat : chat[id].gen \in Nat
  BY Types DEF InChat
<1>4. ASSUME NEW t \in DOMAIN tasks
      PROVE  \A x \in PairsOf(t) : x[1] \in Nat
  <2>1. Shape(t) /\ t \in Task
    BY Types DEF AllFine, Fine
  <2>2. t.at = "record" => t.tap = None /\ t.record.gen \in Nat
    BY <2>1 DEF Shape, Message
  <2>3. t.tap # None => t.tap.gen \in Nat
    BY <2>1 DEF Task, Tap
  <2>4. t.at = "edit" => t.edit.gen \in Nat
    BY <2>1 DEF Shape, InChat, Untold
  <2> QED
    BY <2>2, <2>3, <2>4 DEF PairsOf, Acts
<1> QED
  BY <1>1, <1>2, <1>3, <1>4 DEF Pairs, TablePairs

LEMMA AgreedStep ==
  ASSUME Agreed, \A x \in Pairs : x[1] \in Nat, gens \in Nat, gens' \in Nat, gens <= gens',
         NEW N, DOMAIN tasks' \subseteq DOMAIN tasks \cup N, NEW new,
         \A x \in new : x[1] = gens + 1 /\ gens' = gens + 1 /\ \A y \in new : x[2] = y[2],
         \A u \in N : \A x \in PairsOf(u) : x \in Pairs \/ x[1] = 0 \/ x \in new,
         \A id \in Tracked' : \/ <<messages'[id].gen, messages'[id].head>> \in Pairs \cup new
                              \/ messages'[id].gen = 0,
         \A tap \in pressed' : <<tap.gen, tap.head>> \in Pairs,
         \A id \in DOMAIN chat' : \/ <<chat'[id].gen, chat'[id].head>> \in Pairs \cup new
                                  \/ chat'[id].gen = 0
  PROVE  Agreed'
<1>1. ASSUME NEW x \in Pairs'
      PROVE  x \in Pairs \/ x[1] = 0 \/ x \in new
  <2>1. CASE \E id \in Tracked' : x = <<messages'[id].gen, messages'[id].head>>
    BY <2>1
  <2>2. CASE \E tap \in pressed' : x = <<tap.gen, tap.head>>
    BY <2>2
  <2>3. CASE \E id \in DOMAIN chat' : x = <<chat'[id].gen, chat'[id].head>>
    BY <2>3
  <2>4. CASE \E u \in DOMAIN tasks' : x \in PairsOf(u)
    BY <2>4, PairsAre
  <2> QED
    BY <2>1, <2>2, <2>3, <2>4 DEF Pairs, TablePairs
<1>2. \A x \in Pairs : x[1] <= gens
  BY DEF Agreed
<1>3. \A x \in Pairs' : x[1] <= gens'
  <2> SUFFICES ASSUME NEW x \in Pairs'
               PROVE  x[1] <= gens'
    OBVIOUS
  <2>1. CASE x \in Pairs
    BY <1>2, <2>1
  <2>2. CASE x[1] = 0 \/ x \in new
    BY <2>2
  <2> QED
    BY <1>1, <2>1, <2>2
<1>4. \A x, y \in Pairs' : x[1] = y[1] => x[2] = y[2] \/ x[1] = 0
  BY <1>1, <1>2 DEF Agreed
<1> QED
  BY <1>3, <1>4 DEF Agreed

LEMMA StandKept ==
  ASSUME OneMessagePerPR,
         \A id \in Tracked' : \/ messages'[id].retiring # None
                              \/ /\ id \in Tracked
                                 /\ messages'[id].pr = messages[id].pr
                                 /\ messages'[id].retiring = messages[id].retiring
  PROVE  OneMessagePerPR'
BY DEF OneMessagePerPR, Standing

LEMMA KeysKept ==
  ASSUME KeysDiffer, ActsOnce, done' = done, gens \in Nat, gens' \in Nat, gens <= gens', TypeOK,
         \A id \in Tracked' : \/ messages'[id].gen = 0
                              \/ id \in Tracked /\ messages'[id].gen = messages[id].gen
  PROVE  KeysDiffer' /\ ActsOnce'
<1>1. \A i \in DOMAIN done : done[i].gen \in 1..gens
  BY DEF KeysDiffer
<1>2. \A i \in DOMAIN done' : done'[i].gen \in 1..gens'
  BY <1>1
<1>3. \A id \in Tracked' : /\ messages'[id].gen <= gens'
                           /\ \A i \in DOMAIN done' : messages'[id].gen # done'[i].gen
  <2> SUFFICES ASSUME NEW id \in Tracked'
               PROVE  /\ messages'[id].gen <= gens'
                      /\ \A i \in DOMAIN done' : messages'[id].gen # done'[i].gen
    OBVIOUS
  <2>1. CASE messages'[id].gen = 0
    BY <1>1, <2>1
  <2>2. CASE id \in Tracked /\ messages'[id].gen = messages[id].gen
    <3>1. messages[id].gen \in Nat /\ messages[id].gen <= gens
      BY <2>2, Types DEF KeysDiffer, Message
    <3> QED
      BY <2>2, <3>1 DEF KeysDiffer
  <2> QED
    BY <2>1, <2>2
<1>4. \A id, other \in Tracked' :
        messages'[id].gen = messages'[other].gen => id = other \/ messages'[id].gen = 0
  BY DEF KeysDiffer
<1> QED
  BY <1>2, <1>3, <1>4 DEF KeysDiffer, ActsOnce

LEMMA RecordsAre ==
  /\ \A t \in DOMAIN tasks : RecordsOf(t) \subseteq Records
  /\ \A id \in Tracked : <<id, messages[id].head>> \in Records
BY DEF Records

LEMMA RecordsPlaced ==
  ASSUME TypeOK, AllFine, TablesFine
  PROVE  \A x \in Records : x[1] \in DOMAIN chat /\ x[1] # None
<1>1. \A t \in DOMAIN tasks : Claimed(t) \subseteq DOMAIN chat
  BY DEF AllFine, Fine
<1>2. \A t \in DOMAIN tasks : \A x \in RecordsOf(t) : x[1] \in DOMAIN chat
  BY <1>1 DEF RecordsOf, Claimed
<1>3. \A x \in Records : x[1] \in DOMAIN chat
  BY <1>2 DEF Records, TablesFine
<1> QED
  BY <1>3, Types, NoneApart

LEMMA ToldStep ==
  ASSUME TypeOK, AllFine, TablesFine, Told,
         NEW N, NEW t, DOMAIN tasks' \subseteq DOMAIN tasks \cup N,
         \A u \in DOMAIN tasks : u \in DOMAIN tasks' \/ u = t, t.at # "edit",
         Undisturbed' => Undisturbed,
         \A u \in N : (u.at = "edit" => u.id = None) /\ RecordsOf(u) \subseteq Records,
         \A id \in Tracked' : <<id, messages'[id].head>> \in Records,
         DOMAIN chat' = DOMAIN chat,
         \A id \in DOMAIN chat : /\ chat'[id].told = chat[id].told
                                 /\ chat'[id].head = chat[id].head
                                 /\ chat'[id].buttons # {} => chat[id].buttons # {},
         Undisturbed' => \A x \in Records' : x \in Records => chat'[x[1]].shown
  PROVE  Told'
<1> SUFFICES ASSUME Undisturbed'
             PROVE  Told'
  BY DEF Told
<1>1. /\ \A x \in Records :
           /\ \/ chat[x[1]].told = x[2]
              \/ \E u \in DOMAIN tasks : Redraws(u, x[1]) /\ u.says
           /\ \A u \in DOMAIN tasks : Redraws(u, x[1]) => u.edit.head = x[2]
      /\ \A u \in DOMAIN tasks :
           u.at = "edit" /\ u.id # None /\ ~ u.says => chat[u.id].told = u.edit.head
      /\ \A id \in DOMAIN chat : chat[id].buttons # {} => chat[id].told = chat[id].head
  BY DEF Told
<1>2. Records' \subseteq Records
  BY RecordsAre DEF Records
<1>3. \A x \in Records : x[1] \in DOMAIN chat /\ x[1] # None
  BY RecordsPlaced
<1>4. \A u \in DOMAIN tasks' : u.at = "edit" /\ u.id # None => u \in DOMAIN tasks
  OBVIOUS
<1>5. ASSUME NEW x \in Records'
      PROVE  /\ chat'[x[1]].shown
             /\ \/ chat'[x[1]].told = x[2]
                \/ \E u \in DOMAIN tasks' : Redraws(u, x[1]) /\ u.says
             /\ \A u \in DOMAIN tasks' : Redraws(u, x[1]) => u.edit.head = x[2]
  BY <1>1, <1>2, <1>3, <1>4 DEF Redraws
<1>6. \A u \in DOMAIN tasks : u.at = "edit" /\ u.id # None => u.id \in DOMAIN chat
  <2> SUFFICES ASSUME NEW u \in DOMAIN tasks, u.at = "edit", u.id # None
               PROVE  u.id \in DOMAIN chat
    OBVIOUS
  <2>1. Shape(u) /\ (u.tap # None => TapOK(u.tap))
    BY DEF AllFine, Fine
  <2> QED
    BY <2>1 DEF Shape, TapOK, Untold
<1>7. \A u \in DOMAIN tasks' :
        u.at = "edit" /\ u.id # None /\ ~ u.says => chat'[u.id].told = u.edit.head
  BY <1>1, <1>4, <1>6
<1>8. \A id \in DOMAIN chat' : chat'[id].buttons # {} => chat'[id].told = chat'[id].head
  BY <1>1
<1> QED
  BY <1>5, <1>7, <1>8 DEF Told, Redraws

LEMMA HoldsAre ==
  ASSUME NEW u
  PROVE  /\ \A id : <<"tap", id>> \in Holds(u) <=> id \in Handled(u)
         /\ \A id : <<"message", id>> \in Holds(u) <=> id \in Claimed(u)
         /\ \A g : <<"key", g>> \in Holds(u) <=> g \in Keys(u)
         /\ \A x \in Holds(u) : \/ \E id \in Handled(u) : x = <<"tap", id>>
                                \/ \E id \in Claimed(u) : x = <<"message", id>>
                                \/ \E g \in Keys(u) : x = <<"key", g>>
BY DEF Holds

LEMMA KeptAre ==
  /\ \A id : <<"tap", id>> \notin Kept
  /\ \A id : <<"message", id>> \in Kept <=> id \in Tracked
  /\ \A g : <<"key", g>> \in Kept <=> \/ \E id \in Tracked : messages[id].gen = g
                                      \/ \E i \in DOMAIN done : done[i].gen = g
  /\ \A x \in Kept : \/ \E id \in Tracked : x = <<"message", id>>
                     \/ \E id \in Tracked : x = <<"key", messages[id].gen>>
                     \/ \E i \in DOMAIN done : x = <<"key", done[i].gen>>
BY DEF Kept

LEMMA KeptThen ==
  /\ \A id : <<"tap", id>> \notin Kept'
  /\ \A id : <<"message", id>> \in Kept' <=> id \in Tracked'
  /\ \A g : <<"key", g>> \in Kept' <=> \/ \E id \in Tracked' : messages'[id].gen = g
                                       \/ \E i \in DOMAIN done' : done'[i].gen = g
  /\ \A x \in Kept' : \/ \E id \in Tracked' : x = <<"message", id>>
                      \/ \E id \in Tracked' : x = <<"key", messages'[id].gen>>
                      \/ \E i \in DOMAIN done' : x = <<"key", done'[i].gen>>
BY DEF Kept

LEMMA FreeIs ==
  ASSUME HeldOnce, AllFine, TablesFine
  PROVE  /\ \A id : id \notin tapping => Free(<<"tap", id>>)
         /\ \A id : id \notin DOMAIN chat \/ id \in Tracked => Free(<<"message", id>>)
         /\ \A g : g \notin 1..gens \/ (\E id \in Tracked : messages[id].gen = g) => Free(<<"key", g>>)
<1>1. \A u \in DOMAIN tasks : /\ Handled(u) \subseteq tapping /\ Claimed(u) \subseteq DOMAIN chat
                              /\ Keys(u) \subseteq 1..gens /\ Holds(u) \cap Kept = {}
  BY DEF TablesFine, AllFine, Fine, HeldOnce
<1> QED
  BY <1>1, HoldsAre, KeptAre DEF Free

(* The goroutine t goes on and another starts: what they hold t held, a      *)
(* record held, or it is new; and what records hold now they or t held.     *)
LEMMA HeldGoes ==
  ASSUME TypeOK, HeldOnce, AllFine, TablesFine, NEW t \in DOMAIN tasks, NEW next, NEW o,
         GoesOn(t, next, One(o)), Distinct(next), Distinct(o),
         \A id \in Handled(next) : id \in Handled(t) \/ id \notin tapping,
         Handled(o) = {}, Keys(o) = {},
         \A id \in Claimed(next) \cup Claimed(o) :
           /\ id \in Claimed(t) \/ id \in Tracked \/ id \notin DOMAIN chat
           /\ id \notin Tracked',
         Claimed(next) \cap Claimed(o) = {},
         \A g \in Keys(next) :
           /\ g \in Keys(t) \/ g \notin 1..gens \/ (\E id \in Tracked : messages[id].gen = g)
           /\ \A id \in Tracked' : messages'[id].gen # g
           /\ \A i \in DOMAIN done' : done'[i].gen # g,
         \A id \in Tracked' :
           /\ id \in Tracked \/ id \in Claimed(t)
           /\ \/ messages'[id].gen \in Keys(t) \/ messages'[id].gen \notin 1..gens
              \/ id \in Tracked /\ messages'[id].gen = messages[id].gen,
         \A i \in DOMAIN done' :
           done'[i].gen \in Keys(t) \/ (i \in DOMAIN done /\ done'[i].gen = done[i].gen)
  PROVE  HeldOnce'
<1>1. \A x \in Holds(next) \cup Holds(o) : x \in Holds(t) \/ Free(x)
  <2>1. \A x \in Holds(o) : \E id \in Claimed(o) : x = <<"message", id>>
    BY HoldsAre
  <2>2. \A id \in Claimed(next) \cup Claimed(o) :
          <<"message", id>> \in Holds(t) \/ Free(<<"message", id>>)
    BY HoldsAre, FreeIs
  <2>3. \A id \in Handled(next) : <<"tap", id>> \in Holds(t) \/ Free(<<"tap", id>>)
    BY HoldsAre, FreeIs
  <2>4. \A g \in Keys(next) : <<"key", g>> \in Holds(t) \/ Free(<<"key", g>>)
    BY HoldsAre, FreeIs
  <2> QED
    BY <2>1, <2>2, <2>3, <2>4, HoldsAre
<1>2. Holds(next) \cap Holds(o) = {}
  <2>1. \A x \in Holds(o) : \E id \in Claimed(o) : x = <<"message", id>>
    BY HoldsAre
  <2>2. \A id \in Claimed(o) : <<"message", id>> \notin Holds(next)
    BY HoldsAre
  <2> QED
    BY <2>1, <2>2
<1>3. (Holds(next) \cup Holds(o)) \cap Kept' = {}
  <2>1. \A id \in Claimed(next) \cup Claimed(o) : <<"message", id>> \notin Kept'
    BY KeptThen
  <2>2. \A g \in Keys(next) : <<"key", g>> \notin Kept'
    BY Zenon, KeptThen
  <2>3. \A id : <<"tap", id>> \notin Kept'
    BY Zenon, KeptThen
  <2>4. \A x \in Holds(next) \cup Holds(o) :
          \/ \E id : x = <<"tap", id>>
          \/ \E id \in Claimed(next) \cup Claimed(o) : x = <<"message", id>>
          \/ \E g \in Keys(next) : x = <<"key", g>>
    BY HoldsAre
  <2> QED
    BY <2>1, <2>2, <2>3, <2>4
<1>4. \A x \in Kept' : x \in Kept \/ x \in Holds(t) \/ Free(x)
  <2>1. \A id \in Tracked' : <<"message", id>> \in Kept \/ <<"message", id>> \in Holds(t)
    BY KeptAre, HoldsAre
  <2>2. \A id \in Tracked' : LET x == <<"key", messages'[id].gen>>
                             IN x \in Kept \/ x \in Holds(t) \/ Free(x)
    <3> SUFFICES ASSUME NEW id \in Tracked'
                 PROVE  LET x == <<"key", messages'[id].gen>>
                        IN x \in Kept \/ x \in Holds(t) \/ Free(x)
      OBVIOUS
    <3>1. CASE messages'[id].gen \in Keys(t)
      BY <3>1, HoldsAre
    <3>2. CASE messages'[id].gen \notin 1..gens
      BY <3>2, FreeIs
    <3>3. CASE id \in Tracked /\ messages'[id].gen = messages[id].gen
      BY <3>3, KeptAre
    <3> QED
      BY <3>1, <3>2, <3>3
  <2>3. \A i \in DOMAIN done' :
          <<"key", done'[i].gen>> \in Kept \/ <<"key", done'[i].gen>> \in Holds(t)
    BY KeptAre, HoldsAre
  <2> QED
    BY <2>1, <2>2, <2>3, KeptThen
<1> QED
  BY <1>1, <1>2, <1>3, <1>4, HeldStep, Types

(* A goroutine starts with messages nobody else has.                        *)
LEMMA HeldStarts ==
  ASSUME TypeOK, HeldOnce, AllFine, TablesFine, NEW o, tasks' = tasks (+) One(o), Distinct(o),
         Handled(o) = {}, Keys(o) = {},
         \A id \in Claimed(o) : id \in Tracked /\ id \notin Tracked',
         \A id \in Tracked' : id \in Tracked /\ messages'[id].gen = messages[id].gen,
         done' = done
  PROVE  HeldOnce'
<1>1. \A x \in Holds(o) : \E id \in Claimed(o) : x = <<"message", id>>
  BY HoldsAre
<1>2. \A x \in Holds(o) : Free(x) /\ x \notin Kept'
  BY <1>1, FreeIs, KeptThen
<1>3. \A x \in Kept' : x \in Kept
  BY KeptAre, KeptThen
<1> QED
  BY <1>2, <1>3, HeldStart, Types

LEMMA HeldStays ==
  ASSUME HeldOnce, tasks' = tasks, messages' = messages, done' = done
  PROVE  HeldOnce'
<1>1. \A x \in Kept' : x \in Kept
  BY DEF Kept, Tracked
<1> QED
  BY <1>1, HeldTables

----------------------------------------------------------------------------
(* Steps that leave the chat, the keys and what was done alone.             *)

Placid ==
  /\ Grows /\ chat' = chat /\ gens' = gens /\ pressed' \subseteq pressed
  /\ \A id \in Tracked' : Faded(id)

Calm == Placid /\ done' = done

LEMMA Parts ==
  ASSUME IInv
  PROVE  /\ TypeOK /\ AllFine /\ TablesFine /\ HeldOnce /\ KeysDiffer /\ ActsOnce /\ Agreed
         /\ Told /\ OneMessagePerPR /\ MergesPinned /\ done \in Seq(Range(done))
         /\ gens \in Nat /\ \A t \in DOMAIN tasks : t \in Task /\ Fine(t) /\ Shape(t)
         /\ \A id \in Tracked : id \in Ids /\ messages[id] \in Message
BY Types DEF IInv, AllFine, Fine

LEMMA CalmTables ==
  ASSUME IInv, Placid, TrueCopy(repo)', \A u \in DOMAIN tasks' : Handled(u) \subseteq tapping'
  PROVE  TablesFine'
<1>1. \A id \in Tracked' : id \in DOMAIN chat' /\ Closes(messages[id], messages[id].retiring)'
  <2> SUFFICES ASSUME NEW id \in Tracked'
               PROVE  id \in DOMAIN chat' /\ Closes(messages[id], messages[id].retiring)'
    OBVIOUS
  <2>1. /\ messages'[id].pr = messages[id].pr /\ messages'[id].retiring = messages[id].retiring
        /\ id \in Tracked
    BY Types DEF Placid, Faded, Tracked, TrackedIn
  <2>2. id \in DOMAIN chat /\ Closes(messages[id], messages[id].retiring)
    BY <2>1, Parts DEF TablesFine
  <2> QED
    BY <2>1, <2>2 DEF Placid, Closes, Grows, Closed
<1>2. \A tap \in pressed' : TapOK(tap)'
  BY Parts DEF Placid, Grows, Undisturbed, TablesFine, TapOK
<1>3. \A id \in DOMAIN chat' : DrawnOK(chat[id])'
  BY Parts DEF Placid, TablesFine, DrawnOK
<1> QED
  BY <1>1, <1>2, <1>3 DEF TablesFine

(* All but what is held once.                                              *)
LEMMA PlacidStep ==
  ASSUME IInv, TypeOK', Placid, TrueCopy(repo)',
         NEW N, NEW t, DOMAIN tasks' \subseteq DOMAIN tasks \cup N,
         \A u \in DOMAIN tasks : u \in DOMAIN tasks' \/ u = t, t.at # "edit",
         \A u \in N : /\ Fine(u)' /\ (u.at = "edit" => u.id = None)
                      /\ RecordsOf(u) \subseteq Records
                      /\ \A x \in PairsOf(u) : x \in Pairs \/ x[1] = 0,
         \A u \in DOMAIN tasks' : Handled(u) \subseteq tapping'
  PROVE  AllFine' /\ TablesFine' /\ OneMessagePerPR' /\ Agreed' /\ Told'
<1> USE DEF Placid
<1>1. AllFine' /\ gens \in Nat /\ gens' \in Nat
  <2>1. AllFine /\ Grows /\ gens \in Nat /\ gens' \in Nat /\ \A u \in N : Fine(u)'
    BY Parts
  <2> QED
    BY <2>1, FineStep
<1>2. TablesFine'
  BY CalmTables
<1>3. \A id \in Tracked' :
        /\ id \in Tracked /\ messages'[id].pr = messages[id].pr
        /\ messages'[id].head = messages[id].head /\ messages'[id].retiring = messages[id].retiring
        /\ messages'[id].gen = 0 \/ messages'[id].gen = messages[id].gen
  BY DEF Calm, Faded, Tracked, TrackedIn
<1>5. OneMessagePerPR'
  BY <1>3, StandKept, Parts
<1>6. Agreed'
  <2>1. Agreed /\ (\A x \in Pairs : x[1] \in Nat) /\ gens <= gens'
    BY PairsTyped, Parts DEF Grows
  <2>2. PICK new : new = {}
    OBVIOUS
  <2>3. /\ \A id \in Tracked' : \/ <<messages'[id].gen, messages'[id].head>> \in Pairs \cup new
                              \/ messages'[id].gen = 0
        /\ \A tap \in pressed' : <<tap.gen, tap.head>> \in Pairs
        /\ \A id \in DOMAIN chat' : \/ <<chat'[id].gen, chat'[id].head>> \in Pairs \cup new
                                  \/ chat'[id].gen = 0
    BY <1>3, PairsAre
  <2>4. /\ \A x \in new : x[1] = gens + 1 /\ gens' = gens + 1 /\ \A y \in new : x[2] = y[2]
        /\ \A u \in N : \A x \in PairsOf(u) : x \in Pairs \/ x[1] = 0 \/ x \in new
    BY <2>2
  <2> QED
    BY <1>1, <2>1, <2>3, <2>4, AgreedStep
<1>7. Told'
  <2>1. \A id \in Tracked' : <<id, messages'[id].head>> \in Records
    BY <1>3, RecordsAre
  <2>2. Undisturbed' => \A x \in Records' : x \in Records => chat'[x[1]].shown
    BY Parts DEF Calm, Grows, Undisturbed, Told
  <2>3. TypeOK /\ AllFine /\ TablesFine /\ Told /\ mishaps \subseteq mishaps'
    BY Parts DEF Grows
  <2>4. /\ DOMAIN chat' = DOMAIN chat
        /\ \A id \in DOMAIN chat : /\ chat'[id].told = chat[id].told
                                 /\ chat'[id].head = chat[id].head
                                 /\ chat'[id].buttons # {} => chat[id].buttons # {}
    OBVIOUS
  <2> QED
    BY <2>1, <2>2, <2>3, <2>4, ToldStep, CalmMishaps
<1> QED
  BY <1>1, <1>2, <1>5, <1>6, <1>7

LEMMA CalmStep ==
  ASSUME IInv, TypeOK', Calm, TrueCopy(repo)',
         NEW N, NEW t, DOMAIN tasks' \subseteq DOMAIN tasks \cup N,
         \A u \in DOMAIN tasks : u \in DOMAIN tasks' \/ u = t, t.at # "edit",
         \A u \in N : /\ Fine(u)' /\ (u.at = "edit" => u.id = None)
                      /\ RecordsOf(u) \subseteq Records
                      /\ \A x \in PairsOf(u) : x \in Pairs \/ x[1] = 0,
         \A u \in DOMAIN tasks' : Handled(u) \subseteq tapping', HeldOnce'
  PROVE  IInv'
<1>1. AllFine' /\ TablesFine' /\ OneMessagePerPR' /\ Agreed' /\ Told'
  BY PlacidStep DEF Calm
<1>2. \A id \in Tracked' :
        id \in Tracked /\ (messages'[id].gen = 0 \/ messages'[id].gen = messages[id].gen)
  BY DEF Calm, Placid, Faded, Tracked, TrackedIn
<1>3. KeysDiffer' /\ ActsOnce'
  BY <1>2, KeysKept, Parts DEF Calm, Placid, Grows
<1>4. MergesPinned' /\ done' \in Seq(Range(done'))
  BY Parts DEF MergesPinned, Undisturbed, Calm, Placid, Grows
<1> QED
  BY <1>1, <1>3, <1>4 DEF IInv

LEMMA OneOrNone ==
  ASSUME TypeOK, HeldOnce, NEW t \in DOMAIN tasks, Handled(t) # {}
  PROVE  tasks[t] = 1 /\ \A u \in DOMAIN tasks : u # t => Handled(u) \cap Handled(t) = {}
<1>1. PICK id : id \in Handled(t)
  OBVIOUS
<1>2. tasks[t] = 1
  BY <1>1, HoldsAre DEF HeldOnce
<1>3. ASSUME NEW u \in DOMAIN tasks, u # t, NEW other \in Handled(u), other \in Handled(t)
      PROVE  FALSE
  <2>1. <<"tap", other>> \in Holds(u) /\ <<"tap", other>> \in Holds(t)
    BY <1>3, HoldsAre
  <2> QED
    BY <1>3, <2>1 DEF HeldOnce
<1> QED
  BY <1>2, <1>3

(* A goroutine goes on, and another may start that deletes messages.        *)
LEMMA CalmGoes ==
  ASSUME IInv, TypeOK', Calm, TrueCopy(repo)',
         NEW t \in DOMAIN tasks, NEW next, NEW o, GoesOn(t, next, One(o)),
         t.at # "edit", next.at = "edit" => next.id = None, o.at # "edit",
         next.at # "end" => Fine(next)', o.at # "end" => Fine(o)',
         RecordsOf(next) \cup RecordsOf(o) \subseteq Records,
         \A x \in PairsOf(next) \cup PairsOf(o) : x \in Pairs \/ x[1] = 0,
         tapping \ Handled(t) \subseteq tapping', next.at # "end" => Handled(next) \subseteq tapping',
         Distinct(next), Distinct(o),
         \A id \in Handled(next) : id \in Handled(t) \/ id \notin tapping,
         Handled(o) = {}, Keys(o) = {},
         \A id \in Claimed(next) \cup Claimed(o) :
           (id \in Claimed(t) \/ id \in Tracked) /\ id \notin Tracked',
         Claimed(next) \cap Claimed(o) = {},
         \A g \in Keys(next) :
           \/ g \in Keys(t)
           \/ /\ \E id \in Tracked : messages[id].gen = g
              /\ \A id \in Tracked' : messages'[id].gen # g
  PROVE  IInv'
<1>1. /\ \A u : u \in DOMAIN tasks' <=> \/ u \in DOMAIN tasks /\ (u # t \/ tasks[t] # 1)
                                        \/ u = next /\ next.at # "end"
                                        \/ u = o /\ o.at # "end"
  BY Went, Parts, Types
<1> DEFINE N == {u \in {next, o} : u.at # "end"}
<1>2. /\ DOMAIN tasks' \subseteq DOMAIN tasks \cup N
      /\ \A u \in DOMAIN tasks : u \in DOMAIN tasks' \/ u = t
  BY <1>1
<1>3. \A u \in DOMAIN tasks' : Handled(u) \subseteq tapping'
  <2> SUFFICES ASSUME NEW u \in DOMAIN tasks'
               PROVE  Handled(u) \subseteq tapping'
    OBVIOUS
  <2>1. CASE u \in N
    BY <2>1
  <2>2. CASE u \notin N
    <3>1. u \in DOMAIN tasks /\ (u # t \/ tasks[t] # 1)
      BY <1>1, <2>2
    <3>2. Handled(u) \subseteq tapping /\ Handled(u) \cap Handled(t) = {}
      BY <3>1, OneOrNone, Parts DEF TablesFine
    <3> QED
      BY <3>2
  <2> QED
    BY <2>1, <2>2
<1>4. \A id \in Tracked' : /\ id \in Tracked
                           /\ messages'[id].gen = messages[id].gen \/ messages'[id].gen = 0
  BY DEF Calm, Placid, Faded, Tracked, TrackedIn
<1>5. HeldOnce'
  <2>1. \A g \in Keys(next) : /\ \A id \in Tracked' : messages'[id].gen # g
                              /\ \A i \in DOMAIN done' : done'[i].gen # g
    <3> SUFFICES ASSUME NEW g \in Keys(next)
                 PROVE  /\ \A id \in Tracked' : messages'[id].gen # g
                        /\ \A i \in DOMAIN done' : done'[i].gen # g
      OBVIOUS
    <3>1. CASE g \in Keys(t)
      <4>1. <<"key", g>> \notin Kept /\ g \in 1..gens
        BY <3>1, HoldsAre, Parts DEF HeldOnce, Fine
      <4> QED
        BY <1>4, <4>1, KeptAre DEF Calm, Placid
    <3>2. CASE g \notin Keys(t)
      BY <3>2, Parts DEF Calm, Placid, KeysDiffer
    <3> QED
      BY <3>1, <3>2
  <2> QED
    BY <1>4, <2>1, HeldGoes, Parts DEF Calm, Placid
<1>6. \A u \in N : /\ Fine(u)' /\ (u.at = "edit" => u.id = None)
                   /\ RecordsOf(u) \subseteq Records
                   /\ \A x \in PairsOf(u) : x \in Pairs \/ x[1] = 0
  OBVIOUS
<1> HIDE DEF N
<1> QED
  BY ZenonT(40), <1>2, <1>3, <1>5, <1>6, CalmStep

LEMMA TasksTyped ==
  ASSUME TypeOK, NEW t \in DOMAIN tasks, NEW next \in Task, NEW o \in Task,
         GoesOn(t, next, One(o))
  PROVE  IsABag(tasks') /\ DOMAIN tasks' \subseteq Task
BY Went DEF TypeOK

LEMMA InputBag ==
  ASSUME TypeOK, NEW kind, Input(kind)
  PROVE  IsABag(budget')
<1> DEFINE one == SetToBag({kind})
           B == [k \in DOMAIN budget |-> IF k \in DOMAIN one THEN budget[k] - one[k] ELSE budget[k]]
<1>1. one = [k \in {kind} |-> 1]
  BY DEF SetToBag
<1>2. \A k \in DOMAIN budget : budget[k] \in Nat
  BY DEF TypeOK, IsABag
<1>3. \A k \in DOMAIN budget : B[k] \in Int
  BY <1>1, <1>2
<1>4. budget' = [k \in {d \in DOMAIN B : B[d] > 0} |-> B[k]]
  BY DEF Input, (-)
<1>5. DOMAIN B = DOMAIN budget
  OBVIOUS
<1> HIDE DEF B
<1>6. DOMAIN budget' = {d \in DOMAIN budget : B[d] > 0} /\ \A k \in DOMAIN budget' : budget'[k] = B[k]
  BY <1>4, <1>5
<1>7. budget' = [k \in DOMAIN budget' |-> budget'[k]]
  BY <1>4
<1>8. \A k \in DOMAIN budget' : budget'[k] \in {n \in Nat : n > 0}
  BY <1>3, <1>6
<1> QED
  BY <1>7, <1>8 DEF IsABag

LEMMA GoesAlone ==
  ASSUME NEW t, NEW next, GoesOn(t, next, EmptyBag)
  PROVE  GoesOn(t, next, One(NewTask))
BY NoOther

LEMMA NewHolds ==
  /\ Handled(NewTask) = {} /\ Claimed(NewTask) = {} /\ Keys(NewTask) = {}
  /\ RecordsOf(NewTask) = {} /\ PairsOf(NewTask) = {} /\ Distinct(NewTask)
BY NewIs DEF Handled, Claimed, Keys, RecordsOf, PairsOf, Distinct, Acts

(* A goroutine goes on with less in its hands.                              *)
LEMMA LightGoes ==
  ASSUME IInv, TypeOK', Calm, TrueCopy(repo)',
         NEW t \in DOMAIN tasks, NEW next, GoesOn(t, next, EmptyBag),
         t.at # "edit", next.at = "edit" => next.id = None, next.at # "end" => Fine(next)',
         RecordsOf(next) \subseteq RecordsOf(t),
         \A x \in PairsOf(next) : x \in PairsOf(t) \/ x[1] = 0,
         tapping \ Handled(t) \subseteq tapping', next.at # "end" => tapping \subseteq tapping',
         Distinct(next), Handled(next) \subseteq Handled(t), Claimed(next) \subseteq Claimed(t),
         Keys(next) \subseteq Keys(t)
  PROVE  IInv'
<1> PICK o : o = NewTask
  OBVIOUS
<1>1. GoesOn(t, next, One(o)) /\ o.at = "end"
  BY GoesAlone, NewIs
<1>2. /\ Handled(o) = {} /\ Claimed(o) = {} /\ Keys(o) = {}
      /\ RecordsOf(o) = {} /\ PairsOf(o) = {} /\ Distinct(o)
  BY NewHolds
<1>3. \A id \in Claimed(next) \cup Claimed(o) :
        (id \in Claimed(t) \/ id \in Tracked) /\ id \notin Tracked'
  <2>1. \A id \in Claimed(t) : id \notin Tracked
    <3>1. Holds(t) \cap Kept = {}
      BY Parts DEF HeldOnce
    <3>2. \A id \in Claimed(t) : <<"message", id>> \in Holds(t)
      BY HoldsAre
    <3> QED
      BY <3>1, <3>2, KeptAre
  <2>2. \A id \in Tracked' : id \in Tracked
    BY DEF Calm, Placid, Faded, Tracked, TrackedIn
  <2> QED
    BY <1>2, <2>1, <2>2
<1>4. RecordsOf(next) \cup RecordsOf(o) \subseteq Records
  BY <1>2, RecordsAre
<1>5. \A x \in PairsOf(next) \cup PairsOf(o) : x \in Pairs \/ x[1] = 0
  BY <1>2, PairsAre
<1>6. next.at # "end" => Handled(next) \subseteq tapping'
  BY Parts DEF TablesFine
<1> QED
  BY <1>1, <1>2, <1>3, <1>4, <1>5, <1>6, CalmGoes

----------------------------------------------------------------------------
(* Looks.                                                                  *)

LEMMA ButtonsTyped ==
  ASSUME NEW event, NEW c
  PROVE  ButtonsFor(event, c) \subseteq Buttons
<1>1. CASE event = "READY" /\ c.status = "READY"
  BY <1>1 DEF ButtonsFor, Buttons
<1>2. CASE ~ (event = "READY" /\ c.status = "READY") /\ event = "FAILING" /\ c.status = "FAILING"
  BY <1>2 DEF ButtonsFor, Buttons
<1>3. CASE ~ (event = "READY" /\ c.status = "READY") /\ ~ (event = "FAILING" /\ c.status = "FAILING")
  <2>1. ButtonsFor(event, c) = {"dismiss"}
    BY <1>3 DEF ButtonsFor
  <2> QED
    BY <2>1 DEF Buttons
<1> QED
  BY <1>1, <1>2, <1>3

LEMMA PostsTyped ==
  ASSUME NEW copy \in Copy
  PROVE  /\ Posts(copy) \in Seq(Unsent)
         /\ \A k \in DOMAIN Posts(copy) : Posts(copy)[k].message.retiring = None
<1> DEFINE Q == {q \in Changed(copy) : track[q] # None /\ copy.prs[q].status \in Wanted}
           item(p) == [pr |-> p, message |-> PRMessage(p, copy.prs[p].status, copy.prs[p])]
           S == {item(p) : p \in Q}
<1>1. Q \subseteq PRs /\ IsFiniteSet(Q)
  <2>1. Q \in SUBSET PRs
    BY DEF Changed
  <2> HIDE DEF Q
  <2> QED
    BY <2>1, ConstantsAssumption, FS_Subset
<1>2. \A p \in Q : item(p) \in Unsent /\ item(p).message.retiring = None
  <2> SUFFICES ASSUME NEW p \in Q
               PROVE  item(p) \in Unsent /\ item(p).message.retiring = None
    OBVIOUS
  <2>1. copy.prs[p] \in Listing
    BY DEF Changed, Copy
  <2>2. copy.prs[p].status \in Statuses
    BY ConstantsAssumption DEF Statuses
  <2>3. ButtonsFor(copy.prs[p].status, copy.prs[p]) \subseteq Buttons
    BY ButtonsTyped
  <2>4. /\ PRMessage(p, copy.prs[p].status, copy.prs[p]) \in Message
        /\ PRMessage(p, copy.prs[p].status, copy.prs[p]).retiring = None
    BY <1>1, <2>1, <2>2, <2>3 DEF PRMessage, Message, Listing
  <2> QED
    BY <1>1, <2>4 DEF Unsent
<1> HIDE DEF item, Q
<1>3. S \subseteq Unsent /\ \A x \in S : x.message.retiring = None
  BY <1>2
<1>4. IsFiniteSet(S)
  <2> DEFINE f == [p \in Q |-> item(p)]
  <2>1. f \in Surjection(Q, S)
    BY DEF Surjection
  <2> QED
    BY <1>1, <2>1, FS_Surjection
<1>5. Posts(copy) = SetToSeq(S)
  BY DEF Posts, S, Q, item
<1> HIDE DEF S
<1>6. SetToSeq(S) \in Seq(S)
  BY <1>4, SetSeq
<1>7. \A k \in DOMAIN SetToSeq(S) : SetToSeq(S)[k] \in S
  BY <1>6
<1> QED
  BY <1>3, <1>5, <1>6, <1>7

LEMMA StatusTyped ==
  ASSUME gh \in [PRs -> OnGitHub], NEW p \in PRs
  PROVE  StatusOf(p) \in Shown /\ gh[p] \in OnGitHub
BY DEF StatusOf, OnGitHub, Shown

LEMMA DetailsTyped ==
  ASSUME gh \in [PRs -> OnGitHub], NEW p \in PRs
  PROVE  Details(p) \in Listing /\ Details(p) # None
BY StatusTyped, NoneApart DEF Details, Listing, OnGitHub

LEMMA FetchedIs ==
  ASSUME gh \in [PRs -> OnGitHub], newer \in Nat
  PROVE  /\ Fetched \in Copy /\ Total \in Nat
         /\ \A p \in PRs : Fetched.prs[p] = None => ~ gh[p].open \/ Cut(Fetched)
<1>1. IsFiniteSet(PRs) /\ PRLimit \in Nat
  BY ConstantsAssumption
<1>2. OpenPRs \subseteq PRs /\ IsFiniteSet(OpenPRs) /\ Cardinality(OpenPRs) \in Nat
  BY <1>1, FS_Subset, FS_CardinalityType DEF OpenPRs
<1>3. Total \in Nat
  BY <1>2 DEF Total
<1>4. Min({newer, PRLimit}) \in Nat /\ Min({newer, PRLimit}) <= newer
  <2>1. \E x \in {newer, PRLimit} : \A y \in {newer, PRLimit} : x <= y
    BY <1>1
  <2>2. /\ Min({newer, PRLimit}) \in {newer, PRLimit}
        /\ \A y \in {newer, PRLimit} : Min({newer, PRLimit}) <= y
    BY <2>1, Zenon DEF Min
  <2> QED
    BY <1>1, <2>2
<1> DEFINE prs == [p \in PRs |-> IF Listed(p) THEN Details(p) ELSE None]
           L == {p \in PRs : prs[p] # None}
<1>5. prs \in [PRs -> Listing \cup {None}]
  BY DetailsTyped
<1>6. Fetched = [prs |-> prs, others |-> Min({newer, PRLimit}), total |-> Total]
  BY DEF Fetched
<1>7. \A p \in PRs : prs[p] = None <=> ~ Listed(p)
  BY DetailsTyped
<1> HIDE DEF prs
<1>8. Fetched \in Copy /\ Fetched.prs = prs
  BY <1>3, <1>4, <1>5, <1>6 DEF Copy
<1>9. L \subseteq OpenPRs
  BY <1>7 DEF Listed
<1>10. IsFiniteSet(L) /\ Cardinality(L) \in Nat /\ Cardinality(L) <= Cardinality(OpenPRs)
       /\ (Cardinality(L) = Cardinality(OpenPRs) => L = OpenPRs)
  BY <1>2, <1>9, FS_Subset, FS_CardinalityType
<1>11. ASSUME NEW p \in PRs, prs[p] = None, gh[p].open
       PROVE  Cut(Fetched)
  <2>1. p \in OpenPRs /\ p \notin L
    BY <1>11 DEF OpenPRs
  <2>2. Cardinality(L) < Cardinality(OpenPRs)
    BY <1>2, <1>10, <2>1
  <2>3. Cut(Fetched) <=> Total > Min({newer, PRLimit}) + Cardinality(L)
    BY <1>6 DEF Cut
  <2> HIDE DEF L
  <2> QED
    BY <1>2, <1>4, <1>10, <2>2, <2>3 DEF Total
<1> QED
  BY <1>3, <1>8, <1>11

LEMMA UpdateTyped ==
  ASSUME TypeOK, NEW copy \in Copy
  PROVE  Update(copy) \in [PRs -> Shown \cup {None}]
<1>1. \A p \in PRs : copy.prs[p] # None => copy.prs[p].status \in Shown
  BY DEF Copy, Listing
<1>2. track \in [PRs -> Shown \cup {None}]
  BY DEF TypeOK
<1> QED
  BY <1>1, <1>2 DEF Update

(* Nothing but goroutines and the copies of the repo changes.               *)
LEMMA CalmWhenUnchanged ==
  ASSUME IInv, UNCHANGED <<gh, newer, chat, pressed, messages, gens, done>>, mishaps \subseteq mishaps'
  PROVE  Calm
<1>1. mishaps \subseteq mishaps'
  OBVIOUS
<1>2. Grows
  BY <1>1, Parts DEF Grows
<1>3. \A id \in Tracked' : Faded(id)
  BY DEF Faded, Tracked, TrackedIn
<1> QED
  BY <1>2, <1>3 DEF Calm, Placid

LEMMA ApplyInv ==
  ASSUME IInv, NEW t \in DOMAIN tasks, Apply(t)
  PROVE  IInv'
<1>1. /\ TypeOK /\ Fine(t) /\ Shape(t) /\ t \in Task /\ t.at = "apply" /\ gens \in Nat
  BY Parts DEF Apply
<1>2. t.copy \in Copy /\ t.gone = <<>> /\ TrueCopy(t.copy) /\ TrueCopy(repo) /\ t.copy # None
  BY <1>1, Parts, NoneApart DEF Shape, Fine, TablesFine
<1>3. Calm
  BY CalmWhenUnchanged DEF Apply, outside, github, service, history
<1>4. PICK next \in Task :
        /\ GoesOn(t, next, EmptyBag) /\ Alike(t, next) /\ next.gone = <<>>
        /\ \/ next.at = t.then /\ next.copy = None /\ next.posts = t.posts
           \/ next.at = "sync" /\ next.copy = t.copy
        /\ \A k \in DOMAIN next.posts : next.posts[k].message.retiring = None
  <2>1. CASE ~ monitored
    <3> DEFINE n == [t EXCEPT !.at = t.then, !.copy = None]
    <3>1. n \in Task /\ Alike(t, n) /\ n.gone = t.gone /\ n.at = t.then /\ n.copy = None
          /\ n.posts = t.posts
      BY <1>1 DEF Task, Alike
    <3>2. GoesOn(t, n, EmptyBag)
      BY <2>1 DEF Apply
    <3>3. \A k \in DOMAIN t.posts : t.posts[k].message.retiring = None
      BY <1>1 DEF Shape
    <3> HIDE DEF n
    <3> QED
      BY <1>2, <3>1, <3>2, <3>3
  <2>2. CASE monitored
    <3> DEFINE q == IF repo = None THEN <<>> ELSE Posts(t.copy)
               n == [t EXCEPT !.at = "sync", !.posts = q]
    <3>1. q \in Seq(Unsent) /\ \A k \in DOMAIN q : q[k].message.retiring = None
      BY <1>2, PostsTyped
    <3>2. GoesOn(t, n, EmptyBag)
      BY <2>2 DEF Apply
    <3> HIDE DEF q
    <3>3. n \in Task /\ Alike(t, n) /\ n.gone = t.gone /\ n.at = "sync" /\ n.copy = t.copy
          /\ n.posts = q
      BY ZenonT(40), <1>1, <3>1 DEF Task, Alike, Steps, Unsent
    <3> HIDE DEF n
    <3> QED
      BY <1>2, <3>1, <3>2, <3>3
  <2> QED
    BY <2>1, <2>2
<1>5. TrueCopy(repo)' /\ repo' \in Copy \cup {None} /\ track' \in [PRs -> Shown \cup {None}]
  <2>1. CASE ~ monitored
    BY <1>1, <1>2, <2>1, TrueStays DEF Apply, TypeOK, outside, github, service, history
  <2>2. CASE monitored
    BY <1>1, <1>2, <2>2, UpdateTyped, TrueThen DEF Apply, outside, github, service, history
  <2> QED
    BY <2>1, <2>2
<1>6. TypeOK'
  <2>1. IsABag(tasks') /\ DOMAIN tasks' \subseteq Task
    BY <1>1, <1>4, TasksTyped, GoesAlone, NewIs
  <2> QED
    BY <1>1, <1>5, <2>1 DEF TypeOK, Apply, outside, github, service, history
<1>7. next.at # "end" => Fine(next)'
  <2>1. Fine(t)'
    BY <1>1, <1>3, FineGrows DEF Calm, Placid
  <2>2. next.at # "end" => Shape(next)'
    BY <1>1, <1>2, <1>4 DEF Shape, Alike, Acts, Untold, Doing
  <2>3. Claimed(next) = {} /\ (next.at # "end" => Keys(next) \subseteq Keys(t)) /\ next.at \notin {"edit"}
    BY <1>1, <1>4 DEF Claimed, Keys, Alike, Acts, Shape
  <2>4. TrueCopy(next.copy)'
    BY <1>2, <1>4, <1>3, TrueGrows DEF Calm, Placid, TrueCopy
  <2> QED
    <3>1. next.at \notin {"splice", "closed"}
      BY <1>1, <1>4 DEF Shape, Untold
    <3> QED
      BY <1>4, <2>1, <2>2, <2>3, <2>4, <3>1 DEF Fine, Learnt, Alike
<1>8. /\ RecordsOf(next) \subseteq RecordsOf(t) /\ PairsOf(next) \subseteq PairsOf(t)
      /\ Handled(next) = Handled(t) /\ Claimed(next) \subseteq Claimed(t) /\ Keys(next) \subseteq Keys(t)
      /\ Distinct(next) /\ next.at # "edit"
  BY <1>1, <1>4 DEF RecordsOf, PairsOf, Handled, Claimed, Keys, Distinct, Alike, Acts, Shape
<1> QED
  BY <1>1, <1>3, <1>4, <1>5, <1>6, <1>7, <1>8, LightGoes DEF Apply

----------------------------------------------------------------------------
(* Goroutines that handle a tap.                                           *)

(* The same tap at another of its steps.                                   *)
LEMMA TapGoes ==
  ASSUME IInv, Grows, gens' \in Nat, NEW t \in DOMAIN tasks, t.at \in Doing \cup {"reload"},
         NEW next \in Task, next.tap = t.tap, next.id = t.id, next.record = t.record,
         next.gone = t.gone, next.posts = t.posts,
         next.at \in {"rerender", "splice", "judge", "perform", "finish", "closed", "apply", "reload",
                      "ack"},
         TrueCopy(next.copy)', Learnt(next)',
         Acts(next) => t.record.head # 0 \/ t.tap.button = "rerun_checks",
         next.at = "apply" => next.copy \in Copy /\ next.then \in {"judge", "finish", "rerender"},
         next.at = "reload" => next.then \in {"finish", "rerender"}, Acts(next) => Acts(t)
  PROVE  /\ Fine(next)' /\ t.tap # None /\ t.id # None /\ Handled(t) = {t.id} /\ t.id \in Ids
         /\ t.gone = <<>> /\ t.posts = <<>> /\ t.record \in Message
         /\ RecordsOf(next) \subseteq RecordsOf(t) /\ PairsOf(next) \subseteq PairsOf(t)
         /\ Handled(next) = Handled(t) /\ Claimed(next) \subseteq Claimed(t)
         /\ Keys(next) \subseteq Keys(t) /\ Distinct(next) /\ next.at # "edit"
<1>1. /\ Fine(t) /\ Shape(t) /\ t \in Task /\ gens \in Nat /\ Fine(t)'
  BY Parts, FineGrows
<1>2. t.tap # None /\ t.gone = <<>> /\ t.posts = <<>> /\ t.id # None /\ t.record \in Message
  BY <1>1 DEF Shape, Doing, Untold
<1>3. Shape(next)'
  BY <1>1, <1>2 DEF Shape, Acts, Doing, Untold
<1>4. Claimed(next) = {} /\ Keys(next) \subseteq Keys(t) /\ next.at # "edit"
  <2>1. next.gone = <<>> /\ next.at # "record" /\ t.at # "record" /\ next.at # "edit"
    BY <1>2 DEF Doing
  <2>2. Claimed(next) = {}
    BY <2>1 DEF Claimed
  <2>3. Keys(next) \subseteq Keys(t)
    BY <2>1 DEF Keys
  <2> QED
    BY <2>1, <2>2, <2>3
<1>5. Fine(next)'
  BY <1>1, <1>2, <1>3, <1>4 DEF Fine
<1>6. Handled(t) = {t.id} /\ t.id \in Ids
  BY <1>1, <1>2 DEF Handled, Task
<1> QED
  BY <1>1, <1>2, <1>4, <1>5, <1>6 DEF RecordsOf, PairsOf, Handled, Distinct

LEMMA BudgetTyped ==
  ASSUME TypeOK, (NoAnswer /\ BudgetKept) \/ UNCHANGED budget
  PROVE  IsABag(budget')
BY InputBag DEF TypeOK, NoAnswer, BudgetKept

LEMMA QuietTap ==
  ASSUME IInv, NEW t \in DOMAIN tasks, t.at \in Doing \cup {"reload"}, NEW next \in Task,
         GoesOn(t, next, EmptyBag), next.tap = t.tap, next.id = t.id, next.record = t.record,
         next.gone = t.gone, next.posts = t.posts,
         next.at \in {"rerender", "splice", "judge", "perform", "finish", "closed", "apply", "reload",
                      "ack"},
         TrueCopy(next.copy), Learnt(next),
         Acts(next) => t.record.head # 0 \/ t.tap.button = "rerun_checks",
         next.at = "apply" => next.copy \in Copy /\ next.then \in {"judge", "finish", "rerender"},
         next.at = "reload" => next.then \in {"finish", "rerender"}, Acts(next) => Acts(t),
         UNCHANGED <<messages, tapping, gens>>, NoCall, IsABag(budget')
  PROVE  IInv'
<1>1. UNCHANGED <<gh, newer, chat, pressed, delivered, handler, backend, copies, readies, done, mishaps>>
  BY DEF NoCall, Unseen, github
<1>2. Calm /\ Grows
  BY <1>1, CalmWhenUnchanged DEF Calm, Placid
<1>3. TypeOK' /\ gens' \in Nat
  <2>1. IsABag(tasks') /\ DOMAIN tasks' \subseteq Task
    BY Parts, TasksTyped, GoesAlone, NewIs
  <2> QED
    BY <1>1, <2>1, Parts DEF TypeOK, copies
<1>4. TrueCopy(repo)'
  BY <1>1, Parts, TrueStays DEF TablesFine, copies
<1>5. TrueCopy(next.copy)' /\ Learnt(next)'
  BY <1>2, TrueGrows, LearntGrows
<1>6. /\ Fine(next)' /\ t.at # "edit" /\ next.at # "edit"
      /\ RecordsOf(next) \subseteq RecordsOf(t) /\ PairsOf(next) \subseteq PairsOf(t)
      /\ Handled(next) = Handled(t) /\ Claimed(next) \subseteq Claimed(t)
      /\ Keys(next) \subseteq Keys(t) /\ Distinct(next)
  BY <1>2, <1>3, <1>5, TapGoes DEF Doing
<1> QED
  BY <1>2, <1>3, <1>4, <1>6, LightGoes

LEMMA CheckInv ==
  ASSUME IInv, NEW t \in DOMAIN tasks, Check(t)
  PROVE  IInv'
<1>1. TypeOK /\ Fine(t) /\ Shape(t) /\ t \in Task /\ t.at = "check" /\ TrueCopy(t.copy)
  BY Parts DEF Check, Fine
<1>2. Acts(t)
  BY <1>1 DEF Acts, Shape, Untold
<1>3. IsABag(budget')
  BY <1>1, BudgetTyped DEF Check
<1> DEFINE p == t.record.pr
           c == IF p \in OpenPRs THEN Details(p) ELSE None
<1>4. CASE Goto(t, "rerender")
  <2>1. PICK next : next = [t EXCEPT !.at = "rerender"]
    OBVIOUS
  <2>2. /\ next \in Task /\ next.tap = t.tap /\ next.id = t.id /\ next.record = t.record
        /\ next.gone = t.gone /\ next.posts = t.posts /\ next.at = "rerender"
        /\ next.copy = t.copy
    BY <1>1, <2>1 DEF Task, Steps
  <2>3. ~ Acts(next) /\ Learnt(next)
    BY <2>2 DEF Acts, Learnt
  <2>4. GoesOn(t, next, EmptyBag)
    BY <1>4, <2>1 DEF Goto
  <2> QED
    BY <1>1, <1>3, <2>2, <2>3, <2>4, QuietTap DEF Check, Doing
<1>5. CASE /\ t.record.head # 0 \/ Kind(t.tap.button) = "rerun_checks"
           /\ GoesOn(t, [t EXCEPT !.at = "splice", !.got = c], EmptyBag)
  <2>1. PICK got : got = c
    OBVIOUS
  <2>2. PICK next : next = [t EXCEPT !.at = "splice", !.got = got]
    OBVIOUS
  <2>3. got \in Listing \cup {None} /\ (got = None /\ p \in PRs => ~ gh[p].open)
    BY <1>1, <2>1, DetailsTyped DEF TypeOK, OpenPRs
  <2>4. /\ next \in Task /\ next.tap = t.tap /\ next.id = t.id /\ next.record = t.record
        /\ next.gone = t.gone /\ next.posts = t.posts /\ next.at = "splice"
        /\ next.copy = t.copy /\ next.got = got
    BY <1>1, <2>2, <2>3 DEF Task, Steps
  <2>5. Learnt(next)
    BY <2>3, <2>4 DEF Learnt
  <2>6. t.record.head # 0 \/ t.tap.button = "rerun_checks"
    BY <1>1, <1>2, <1>5 DEF Kind, Shape
  <2>7. GoesOn(t, next, EmptyBag)
    BY <1>5, <2>1, <2>2
  <2> HIDE DEF c
  <2> QED
    BY <1>1, <1>2, <1>3, <2>4, <2>5, <2>6, <2>7, QuietTap DEF Check, Doing
<1> QED
  BY <1>4, <1>5 DEF Check

(* A PR leaves the copy when it closed; the copy then looks cut off.         *)
LEMMA SplicedIs ==
  ASSUME TypeOK, NEW copy \in Copy, TrueCopy(copy), NEW p, NEW c \in Listing \cup {None},
         p \in PRs /\ c = None => ~ gh[p].open
  PROVE  Spliced(copy, p, c) \in Copy /\ TrueCopy(Spliced(copy, p, c))
<1>1. copy.prs \in [PRs -> Listing \cup {None}]
  BY DEF Copy
<1> DEFINE prs == [copy.prs EXCEPT ![p] = IF copy.prs[p] = None THEN None ELSE c]
           s == [copy EXCEPT !.prs = prs]
<1>2. Spliced(copy, p, c) = s
  BY DEF Spliced
<1>3. prs \in [PRs -> Listing \cup {None}]
  BY <1>1
<1>4. \A q \in PRs : /\ copy.prs[q] = None => prs[q] = None
                     /\ prs[q] = None => copy.prs[q] = None \/ ~ gh[q].open
  BY <1>1
<1> HIDE DEF prs
<1>5. s \in Copy /\ s.prs = prs /\ s.total = copy.total /\ s.others = copy.others
  BY <1>3 DEF Copy
<1> HIDE DEF s
<1>6. Cut(copy) => Cut(s)
  <2> DEFINE A == {q \in PRs : copy.prs[q] # None}
             B == {q \in PRs : prs[q] # None}
  <2>1. IsFiniteSet(A) /\ B \subseteq A
    BY <1>4, FS_Subset, ConstantsAssumption
  <2>2. Cardinality(B) <= Cardinality(A) /\ Cardinality(A) \in Nat /\ Cardinality(B) \in Nat
    BY <2>1, FS_Subset, FS_CardinalityType
  <2>3. /\ Cut(copy) <=> copy.total > copy.others + Cardinality(A)
        /\ Cut(s) <=> copy.total > copy.others + Cardinality(B)
    BY <1>5 DEF Cut
  <2>4. copy.total \in Nat /\ copy.others \in Nat
    BY DEF Copy
  <2> HIDE DEF A, B
  <2> QED
    BY <2>2, <2>3, <2>4
<1>7. copy # None
  BY NoneApart
<1>8. TrueCopy(s)
  BY <1>4, <1>5, <1>6, <1>7 DEF TrueCopy, Closed
<1> QED
  BY <1>2, <1>5, <1>8

LEMMA SpliceInv ==
  ASSUME IInv, NEW t \in DOMAIN tasks, Splice(t)
  PROVE  IInv'
<1>1. /\ TypeOK /\ Fine(t) /\ Shape(t) /\ t \in Task /\ t.at = "splice" /\ TrueCopy(t.copy)
      /\ TrueCopy(repo) /\ repo \in Copy \cup {None} /\ IsABag(budget')
  BY Parts DEF Splice, Fine, TablesFine, TypeOK
<1>2. Acts(t) /\ (t.record.head # 0 \/ t.tap.button = "rerun_checks")
  BY <1>1 DEF Acts, Shape, Untold
<1>3. PICK copy : copy = Spliced(repo, t.record.pr, t.got)
  OBVIOUS
<1>4. repo # None => copy \in Copy /\ TrueCopy(copy)
  <2>1. t.got \in Listing \cup {None}
    BY <1>1 DEF Task
  <2>2. t.record.pr \in PRs /\ t.got = None => ~ gh[t.record.pr].open
    BY <1>1 DEF Fine, Learnt
  <2> QED
    BY <1>1, <1>3, <2>1, <2>2, SplicedIs
<1>5. CASE GoesOn(t, [t EXCEPT !.at = "judge", !.got = None], EmptyBag)
  <2>1. PICK next : next = [t EXCEPT !.at = "judge", !.got = None]
    OBVIOUS
  <2>2. /\ next \in Task /\ next.tap = t.tap /\ next.id = t.id /\ next.record = t.record
        /\ next.gone = t.gone /\ next.posts = t.posts /\ next.at = "judge"
        /\ next.copy = t.copy
    BY <1>1, <2>1 DEF Task, Steps
  <2>3. Learnt(next)
    BY <2>2 DEF Learnt
  <2> QED
    BY <1>1, <1>2, <1>5, <2>1, <2>2, <2>3, QuietTap DEF Splice, Doing
<1>6. CASE /\ repo # None
           /\ GoesOn(t, [t EXCEPT !.at = "apply", !.then = "judge", !.copy = copy, !.got = None],
                     EmptyBag)
  <2>1. PICK next : next = [t EXCEPT !.at = "apply", !.then = "judge", !.copy = copy, !.got = None]
    OBVIOUS
  <2>2. /\ next \in Task /\ next.tap = t.tap /\ next.id = t.id /\ next.record = t.record
        /\ next.gone = t.gone /\ next.posts = t.posts /\ next.at = "apply"
        /\ next.then = "judge" /\ next.copy = copy
    BY <1>1, <1>4, <1>6, <2>1 DEF Task, Steps
  <2>3. Learnt(next)
    BY <2>2 DEF Learnt
  <2> QED
    BY <1>1, <1>2, <1>4, <1>6, <2>1, <2>2, <2>3, QuietTap DEF Splice, Doing
<1> QED
  BY <1>3, <1>5, <1>6 DEF Splice

(* Only the step changes.                                                  *)
LEMMA QuietGoto ==
  ASSUME IInv, NEW t \in DOMAIN tasks, t.at \in Doing,
         NEW step \in {"rerender", "judge", "perform", "finish", "closed", "ack"}, Goto(t, step),
         step \in {"judge", "perform"} => Acts(t) /\ t.at # "check",
         step = "closed" /\ t.record.pr \in PRs => Closed(t.record.pr),
         UNCHANGED <<messages, tapping, gens>>, NoCall, IsABag(budget')
  PROVE  IInv'
<1>1. t \in Task /\ TrueCopy(t.copy) /\ Shape(t)
  BY Parts DEF Fine
<1>2. PICK next : next = [t EXCEPT !.at = step]
  OBVIOUS
<1>3. /\ next \in Task /\ next.tap = t.tap /\ next.id = t.id /\ next.record = t.record
      /\ next.gone = t.gone /\ next.posts = t.posts /\ next.at = step
      /\ next.then = t.then /\ next.copy = t.copy
  BY <1>1, <1>2 DEF Steps, Task
<1>4. /\ Acts(next) => Acts(t) /\ (t.record.head # 0 \/ t.tap.button = "rerun_checks")
      /\ Learnt(next)
  <2>1. Acts(next) => Acts(t) /\ t.at # "check" /\ t.tap # None
    BY <1>3 DEF Acts
  <2>2. Learnt(next)
    BY <1>3 DEF Learnt
  <2> QED
    BY <1>1, <2>1, <2>2 DEF Shape
<1> QED
  BY <1>1, <1>2, <1>3, <1>4, QuietTap DEF Goto

LEMMA JudgeInv ==
  ASSUME IInv, NEW t \in DOMAIN tasks, Judge(t)
  PROVE  IInv'
<1>1. t \in Task /\ t.at = "judge" /\ Shape(t) /\ TrueCopy(t.copy) /\ IsABag(budget')
  BY Parts DEF Judge, Fine, TypeOK
<1>2. Acts(t) /\ t.at \in Doing
  BY <1>1 DEF Acts, Shape, Untold, Doing
<1>3. \/ \E step \in {"rerender", "perform"} : Goto(t, step)
      \/ repo # None /\ repo.prs[t.record.pr] = None /\ ~ Cut(repo) /\ Goto(t, "closed")
      \/ GoesOn(t, [t EXCEPT !.at = "rerender", !.says = TRUE], EmptyBag)
  BY DEF Judge
<1>4. CASE \E step \in {"rerender", "perform"} : Goto(t, step)
  BY <1>1, <1>2, <1>4, QuietGoto DEF Judge
<1>6. CASE repo # None /\ repo.prs[t.record.pr] = None /\ ~ Cut(repo) /\ Goto(t, "closed")
  <2>1. t.record.pr \in PRs => Closed(t.record.pr)
    BY <1>6, Parts DEF TablesFine, TrueCopy
  <2> QED
    BY <1>1, <1>2, <1>6, <2>1, QuietGoto DEF Judge
<1>5. CASE GoesOn(t, [t EXCEPT !.at = "rerender", !.says = TRUE], EmptyBag)
  <2>1. PICK next : next = [t EXCEPT !.at = "rerender", !.says = TRUE]
    OBVIOUS
  <2>2. /\ next \in Task /\ next.tap = t.tap /\ next.id = t.id /\ next.record = t.record
        /\ next.gone = t.gone /\ next.posts = t.posts /\ next.at = "rerender"
        /\ next.then = t.then /\ next.copy = t.copy
    BY <1>1, <2>1 DEF Steps, Task
  <2>3. ~ Acts(next) /\ Learnt(next)
    BY <2>2 DEF Acts, Learnt
  <2> QED
    BY <1>1, <1>2, <1>5, <2>1, <2>2, <2>3, QuietTap DEF Judge
<1> QED
  BY <1>3, <1>4, <1>5, <1>6

LEMMA ReloadInv ==
  ASSUME IInv, NEW t \in DOMAIN tasks, Reload(t)
  PROVE  IInv'
<1>1. /\ TypeOK /\ t \in Task /\ t.at = "reload" /\ Shape(t) /\ TrueCopy(t.copy)
      /\ t.then \in {"finish", "rerender"}
  BY Parts DEF Reload, Fine, Shape, Untold
<1>2. IsABag(budget')
  BY <1>1, BudgetTyped DEF Reload
<1>3. PICK next \in Task :
        /\ GoesOn(t, next, EmptyBag) /\ next.tap = t.tap /\ next.id = t.id
        /\ next.record = t.record /\ next.gone = t.gone /\ next.posts = t.posts
        /\ next.then = t.then /\ TrueCopy(next.copy)
        /\ next.at = t.then \/ (next.at = "apply" /\ next.copy \in Copy)
  <2>1. CASE Goto(t, t.then)
    <3> DEFINE n == [t EXCEPT !.at = t.then]
    <3>1. /\ n \in Task /\ n.tap = t.tap /\ n.id = t.id /\ n.record = t.record
          /\ n.gone = t.gone /\ n.posts = t.posts /\ n.at = t.then
          /\ n.then = t.then /\ n.copy = t.copy
      BY <1>1 DEF Steps, Task
    <3>2. GoesOn(t, n, EmptyBag)
      BY <2>1 DEF Goto
    <3> HIDE DEF n
    <3> QED
      BY <1>1, <3>1, <3>2
  <2>2. CASE GoesOn(t, [t EXCEPT !.at = "apply", !.copy = Fetched], EmptyBag)
    <3>1. PICK copy : copy = Fetched
      OBVIOUS
    <3>2. copy \in Copy /\ TrueCopy(copy)
      BY <1>1, <3>1, FetchedIs DEF TypeOK, TrueCopy, Closed
    <3> DEFINE n == [t EXCEPT !.at = "apply", !.copy = copy]
    <3>3. /\ n \in Task /\ n.tap = t.tap /\ n.id = t.id /\ n.record = t.record
          /\ n.gone = t.gone /\ n.posts = t.posts /\ n.at = "apply"
          /\ n.then = t.then /\ n.copy = copy
      BY <1>1, <3>2 DEF Steps, Task
    <3>4. GoesOn(t, n, EmptyBag)
      BY <2>2, <3>1
    <3> HIDE DEF n
    <3> QED
      BY <3>2, <3>3, <3>4
  <2> QED
    BY <2>1, <2>2 DEF Reload
<1>4. ~ Acts(next) /\ Learnt(next)
  BY <1>1, <1>3 DEF Acts, Learnt
<1> QED
  BY <1>1, <1>2, <1>3, <1>4, QuietTap DEF Reload

----------------------------------------------------------------------------
(* What a tap does on GitHub.                                              *)

LEMMA AppendIs ==
  ASSUME NEW s, s \in Seq(Range(s)), NEW e
  PROVE  /\ Append(s, e) \in Seq(Range(Append(s, e)))
         /\ \A i \in DOMAIN Append(s, e) :
              \/ i \in DOMAIN s /\ Append(s, e)[i] = s[i]
              \/ i = Len(s) + 1 /\ i \notin DOMAIN s /\ Append(s, e)[i] = e
<1> DEFINE T == Range(s) \cup {e}
           a == Append(s, e)
<1>1. s \in Seq(T)
  OBVIOUS
<1>2. /\ a \in Seq(T) /\ Len(a) = Len(s) + 1 /\ Len(s) \in Nat /\ DOMAIN s = 1..Len(s)
      /\ DOMAIN a = 1..Len(a) /\ \A i \in 1..Len(s) : a[i] = s[i]
      /\ a[Len(s) + 1] = e
  BY <1>1
<1> HIDE DEF a, T
<1>3. \A i \in DOMAIN a : a[i] \in Range(a)
  BY DEF Range
<1>4. a \in Seq(Range(a))
  BY <1>2, <1>3
<1> QED
  BY <1>2, <1>4 DEF a

LEMMA PerformInv ==
  ASSUME IInv, NEW t \in DOMAIN tasks, Perform(t)
  PROVE  IInv'
<1>1. /\ TypeOK /\ t \in Task /\ t.at = "perform" /\ Shape(t) /\ Fine(t) /\ TrueCopy(t.copy)
      /\ t.tap # None /\ gens \in Nat
  BY Parts DEF Perform, Fine, Shape, Untold
<1>2. Acts(t) /\ t.at \in Doing /\ t.gone = <<>>
  BY <1>1 DEF Acts, Doing, Shape
<1> DEFINE p    == t.record.pr
           kind == Kind(t.tap.button)
           item == [gen |-> t.tap.gen, kind |-> kind, head |-> gh[p].head,
                    keyed |-> t.tap.head, told |-> t.tap.told]
<1>3. \/ Goto(t, "rerender") /\ UNCHANGED <<gh, newer, done, budget>>
      \/ /\ GoesOn(t, [t EXCEPT !.at = "reload", !.then = "rerender"], EmptyBag)
         /\ UNCHANGED <<gh, newer, done, budget>>
      \/ /\ \E then \in {"finish", "rerender"} :
              GoesOn(t, [t EXCEPT !.at = "reload", !.then = then], EmptyBag)
         /\ gh' = IF kind = "rerun_checks" THEN [gh EXCEPT ![p].status = "PENDING"]
                   ELSE [gh EXCEPT ![p].open = FALSE]
         /\ done' = Append(done, item) /\ Accepts(kind, p, t.record.head)
         /\ UNCHANGED budget \/ Input("GitHub fails")
  BY DEF Perform
<1>4. UNCHANGED <<newer, chat, pressed, delivered, handler, backend, copies, readies, messages,
                  tapping, gens, mishaps>>
  BY DEF Perform, service
<1>5. ASSUME NEW then \in {"finish", "rerender"}
      PROVE  LET n == [t EXCEPT !.at = "reload", !.then = then]
             IN /\ n \in Task /\ n.tap = t.tap /\ n.id = t.id /\ n.record = t.record
                /\ n.gone = t.gone /\ n.posts = t.posts /\ n.at = "reload" /\ n.then = then
                /\ n.copy = t.copy /\ ~ Acts(n)
  BY ZenonT(40), <1>1 DEF Task, Steps, Acts
<1>6. CASE UNCHANGED <<gh, newer, done, budget>>
  <2>1. NoCall /\ UNCHANGED <<messages, tapping, gens>> /\ IsABag(budget')
    BY <1>1, <1>4, <1>6 DEF NoCall, Unseen, github, TypeOK
  <2>2. CASE Goto(t, "rerender")
    BY <1>2, <2>1, <2>2, QuietGoto
  <2>3. CASE \E then \in {"finish", "rerender"} :
               GoesOn(t, [t EXCEPT !.at = "reload", !.then = then], EmptyBag)
    <3>1. PICK then \in {"finish", "rerender"} :
                 GoesOn(t, [t EXCEPT !.at = "reload", !.then = then], EmptyBag)
      BY <2>3
    <3>2. PICK next : next = [t EXCEPT !.at = "reload", !.then = then]
      OBVIOUS
    <3> QED
      <4>1. Acts(t) /\ ~ Acts(next) /\ next.at = "reload" /\ next.then \in {"finish", "rerender"}
        BY <1>2, <1>5, <3>2
      <4>2. Learnt(next) /\ TrueCopy(next.copy)
        BY <1>1, <1>5, <3>2, <4>1 DEF Learnt
      <4> QED
        BY <1>1, <1>2, <1>5, <2>1, <3>1, <3>2, <4>1, <4>2, QuietTap
  <2> QED
    BY <1>3, <2>2, <2>3
<1>7. CASE /\ \E then \in {"finish", "rerender"} :
                GoesOn(t, [t EXCEPT !.at = "reload", !.then = then], EmptyBag)
           /\ gh' = IF kind = "rerun_checks" THEN [gh EXCEPT ![p].status = "PENDING"]
                     ELSE [gh EXCEPT ![p].open = FALSE]
           /\ done' = Append(done, item) /\ Accepts(kind, p, t.record.head)
           /\ UNCHANGED budget \/ Input("GitHub fails")
  <2>1. PICK then \in {"finish", "rerender"} :
               GoesOn(t, [t EXCEPT !.at = "reload", !.then = then], EmptyBag)
    BY <1>7
  <2>2. PICK next : next = [t EXCEPT !.at = "reload", !.then = then]
    OBVIOUS
  <2>3. /\ next \in Task /\ next.tap = t.tap /\ next.id = t.id /\ next.record = t.record
        /\ next.gone = t.gone /\ next.posts = t.posts /\ next.at = "reload" /\ next.then = then
        /\ next.copy = t.copy /\ ~ Acts(next)
    BY <1>5, <2>2
  <2>4. GoesOn(t, next, EmptyBag) /\ GoesOn(t, next, One(NewTask))
    BY <2>1, <2>2, GoesAlone
  <2>5. gh' \in [PRs -> OnGitHub] /\ \A q \in PRs : ~ gh[q].open => ~ gh'[q].open
    <3>1. gh \in [PRs -> OnGitHub]
      BY <1>1 DEF TypeOK
    <3>2. "PENDING" \in Statuses
      BY DEF Statuses
    <3> QED
      BY ZenonT(40), <1>7, <3>1, <3>2 DEF OnGitHub
  <2>6. Grows /\ Placid
    <3>1. Grows
      BY <1>1, <1>4, <2>5 DEF Grows
    <3>2. \A id \in Tracked' : Faded(id)
      BY <1>4 DEF Faded, Tracked, TrackedIn
    <3> QED
      BY <1>4, <3>1, <3>2 DEF Placid
  <2>7. TypeOK'
    <3>1. IsABag(tasks') /\ DOMAIN tasks' \subseteq Task
      BY <1>1, <2>3, <2>4, TasksTyped, NewIs
    <3>2. IsABag(budget')
      BY <1>1, <1>7, InputBag DEF TypeOK
    <3> QED
      BY <1>1, <1>4, <2>5, <3>1, <3>2 DEF TypeOK, copies
  <2>8. TrueCopy(repo)' /\ TrueCopy(next.copy)'
    <3>1. repo' = repo /\ TrueCopy(repo)
      BY <1>4, Parts DEF TablesFine, copies
    <3> QED
      BY <1>1, <2>3, <2>6, <3>1, TrueGrows DEF TrueCopy
  <2>9. /\ Fine(next)' /\ Handled(t) = {t.id} /\ RecordsOf(next) \subseteq RecordsOf(t)
        /\ PairsOf(next) \subseteq PairsOf(t) /\ Handled(next) = Handled(t)
        /\ Claimed(next) \subseteq Claimed(t) /\ Distinct(next) /\ next.at # "edit"
    BY <1>1, <1>2, <1>4, <2>3, <2>6, <2>8, TapGoes DEF Learnt
  <2>10. /\ Keys(t) = {t.tap.gen} /\ t.tap.gen \in 1..gens /\ Keys(next) = {}
         /\ Claimed(next) = {}
    <3>1. Keys(t) = {t.tap.gen} /\ Keys(next) = {}
      BY <1>1, <1>2, <2>3 DEF Keys
    <3>2. Claimed(next) = {}
      BY <1>2, <2>3 DEF Claimed
    <3> QED
      BY <1>1, <3>1, <3>2 DEF Fine
  <2>11. /\ \A id \in Tracked : messages[id].gen # t.tap.gen
         /\ \A i \in DOMAIN done : done[i].gen # t.tap.gen
    <3>1. <<"key", t.tap.gen>> \in Holds(t)
      BY <2>10, HoldsAre
    <3>2. <<"key", t.tap.gen>> \notin Kept
      BY <3>1, Parts DEF HeldOnce
    <3> QED
      BY <3>2, KeptAre
  <2>12. /\ done' \in Seq(Range(done'))
         /\ \A i \in DOMAIN done' :
              \/ i \in DOMAIN done /\ done'[i] = done[i]
              \/ i = Len(done) + 1 /\ i \notin DOMAIN done /\ done'[i] = item
    <3>1. done \in Seq(Range(done)) /\ done' = Append(done, item)
      BY <1>7, Parts
    <3> HIDE DEF item
    <3> QED
      BY <3>1, AppendIs
  <2>13. item.gen = t.tap.gen
    OBVIOUS
  <2>14. HeldOnce'
    <3>1. /\ Handled(NewTask) = {} /\ Keys(NewTask) = {} /\ Claimed(NewTask) = {}
          /\ Distinct(NewTask)
      BY NewHolds
    <3>2. Tracked' = Tracked /\ \A id \in Tracked' : messages'[id].gen = messages[id].gen
      BY <1>4 DEF Tracked, TrackedIn
    <3>3. \A i \in DOMAIN done' :
            done'[i].gen \in Keys(t) \/ (i \in DOMAIN done /\ done'[i].gen = done[i].gen)
      BY <2>10, <2>12, <2>13
    <3>4. PICK o : o = NewTask
      OBVIOUS
    <3> HIDE DEF item
    <3> QED
      BY <1>1, <2>4, <2>9, <2>10, <3>1, <3>2, <3>3, <3>4, HeldGoes, Parts
  <2>15. KeysDiffer' /\ ActsOnce'
    <3>1. KeysDiffer /\ ActsOnce
      BY Parts
    <3>2. Tracked' = Tracked /\ messages' = messages /\ gens' = gens
      BY <1>4 DEF Tracked, TrackedIn
    <3> HIDE DEF item
    <3> QED
      BY <2>10, <2>11, <2>12, <2>13, <3>1, <3>2 DEF KeysDiffer, ActsOnce
  <2>16. MergesPinned'
    <3>1. MergesPinned /\ mishaps \subseteq mishaps' /\ Agreed /\ TapOK(t.tap)
      BY <1>1, <2>6, Parts DEF Grows, Fine
    <3>2. <<t.tap.gen, t.record.head>> \in Pairs /\ <<t.tap.gen, t.tap.head>> \in Pairs
      BY <1>1, <1>2, PairsAre DEF PairsOf
    <3>3. t.record.head = t.tap.head
      BY <2>10, <3>1, <3>2 DEF Agreed
    <3>4. kind # "rerun_checks" => gh[p].head = t.record.head
      <4>1. /\ kind \in {"merge", "rerun_checks", "force_merge"}
            /\ kind # "rerun_checks" => t.record.head # 0
        BY <1>1, <1>2 DEF Kind, Shape
      <4> QED
        BY <1>7, <4>1 DEF Accepts
    <3>5. item.kind # "rerun_checks" =>
            item.head = item.keyed /\ (Undisturbed' => item.head = item.told)
      BY <3>1, <3>3, <3>4 DEF TapOK, Undisturbed
    <3> HIDE DEF item
    <3> QED
      BY <2>12, <3>1, <3>5 DEF MergesPinned, Undisturbed
  <2>17. AllFine' /\ TablesFine' /\ OneMessagePerPR' /\ Agreed' /\ Told'
    <3>1. /\ DOMAIN tasks' \subseteq DOMAIN tasks \cup {next}
          /\ \A u \in DOMAIN tasks : u \in DOMAIN tasks' \/ u = t
      BY <1>1, <2>4, Went, NewIs, Types
    <3>2. \A u \in DOMAIN tasks' : Handled(u) \subseteq tapping'
      <4>1. \A u \in DOMAIN tasks : Handled(u) \subseteq tapping
        BY Parts DEF TablesFine
      <4> QED
        BY <1>4, <2>9, <3>1, <4>1
    <3>3. \A u \in {next} : /\ Fine(u)' /\ (u.at = "edit" => u.id = None)
                            /\ RecordsOf(u) \subseteq Records
                            /\ \A x \in PairsOf(u) : x \in Pairs \/ x[1] = 0
      BY <2>9, RecordsAre, PairsAre
    <3>4. t.at # "edit" /\ TypeOK' /\ Placid /\ TrueCopy(repo)'
      BY <1>1, <2>6, <2>7, <2>8
    <3>5. PICK N : N = {next}
      OBVIOUS
    <3> HIDE DEF item, p, kind
    <3> QED
      BY <3>1, <3>2, <3>3, <3>4, <3>5, PlacidStep
  <2> HIDE DEF item
  <2> QED
    BY <2>7, <2>12, <2>14, <2>15, <2>16, <2>17 DEF IInv
<1> QED
  BY <1>3, <1>6, <1>7

----------------------------------------------------------------------------
(* Claiming records, and calls.                                            *)

LEMMA ClaimIs ==
  ASSUME IInv, NEW S, messages' = Claim(messages, S)
  PROVE  /\ messages' \in [Ids -> Message \cup {None}]
         /\ Tracked' = Tracked \ S
         /\ \A id \in Tracked' : messages'[id] = messages[id] /\ Faded(id)
BY Parts DEF Claim, Faded, Tracked, TrackedIn, TypeOK

LEMMA CalmClaim ==
  ASSUME IInv, NEW S, messages' = Claim(messages, S), UNCHANGED <<gh, newer, chat, pressed, gens, done>>,
         mishaps \subseteq mishaps'
  PROVE  Calm
<1>1. mishaps \subseteq mishaps'
  OBVIOUS
<1>2. Grows
  BY <1>1, Parts DEF Grows
<1> QED
  BY <1>2, ClaimIs DEF Calm, Placid

(* A message claimed by the goroutine of a tap, which deletes it.           *)
LEMMA TapClaims ==
  ASSUME IInv, TypeOK', NEW t \in DOMAIN tasks, t.tap # None, t.at \in {"tap", "finish", "closed"},
         NEW id \in Tracked, NEW why \in Reasons, Closes(messages[id], why),
         NEW next \in Task, next.gone = <<[id |-> id, record |-> messages[id], why |-> why]>>,
         next.at = "delete", next.then = "ack", next.posts = <<>>, next.id = t.id,
         next.tap = t.tap, next.record = t.record, next.copy = t.copy,
         GoesOn(t, next, EmptyBag), messages' = Claim(messages, {id}),
         UNCHANGED <<gh, newer, chat, pressed, gens, done, mishaps, tapping, repo>>
  PROVE  IInv'
<1>1. /\ Fine(t) /\ Shape(t) /\ t \in Task /\ gens \in Nat /\ messages[id] \in Message
      /\ TablesFine /\ id \in DOMAIN chat /\ id \in Ids /\ TrueCopy(repo)
  BY Parts DEF TablesFine
<1>2. Calm /\ Grows
  BY CalmClaim DEF Calm, Placid
<1>3. /\ DOMAIN next.gone = {1} /\ next.gone[1].id = id /\ next.gone[1].record = messages[id]
      /\ next.gone[1].why = why /\ next.gone # <<>>
  OBVIOUS
<1>4. PICK o : o = NewTask
  OBVIOUS
<1>5. /\ o.at = "end" /\ Handled(o) = {} /\ Claimed(o) = {} /\ Keys(o) = {} /\ Distinct(o)
      /\ RecordsOf(o) = {} /\ PairsOf(o) = {} /\ GoesOn(t, next, One(o))
  BY <1>4, NewHolds, NewIs, GoesAlone
<1>6. Claimed(next) = {id} /\ Keys(next) = {} /\ ~ Acts(next) /\ Distinct(next)
      /\ Handled(next) = Handled(t) /\ RecordsOf(next) = {<<id, messages[id].head>>}
  BY <1>3 DEF Claimed, Keys, Acts, Distinct, Handled, RecordsOf
<1>7. PairsOf(next) \subseteq PairsOf(t)
  BY <1>6 DEF PairsOf
<1>8. Fine(next)'
  <2>1. Fine(t)'
    BY <1>1, <1>2, FineGrows DEF Calm, Placid
  <2>2. Shape(next)'
    BY <1>1, <1>3, <1>6 DEF Shape, Untold, Doing
  <2>3. \A k \in DOMAIN next.gone : Closes(next.gone[k].record, next.gone[k].why)'
    BY <1>2, <1>3 DEF Closes, Grows, Closed
  <2> QED
    BY <1>1, <1>2, <1>6, <2>1, <2>2, <2>3 DEF Fine, Learnt, Calm, Placid
<1>9. RecordsOf(next) \cup RecordsOf(o) \subseteq Records
  BY <1>5, <1>6, RecordsAre
<1>10. \A x \in PairsOf(next) \cup PairsOf(o) : x \in Pairs \/ x[1] = 0
  BY <1>5, <1>7, PairsAre
<1>11. id \notin Tracked'
  BY ClaimIs
<1>12. TrueCopy(repo)' /\ Handled(next) \subseteq tapping'
  BY <1>1, <1>6, TrueStays DEF TablesFine
<1> QED
  BY <1>2, <1>5, <1>6, <1>8, <1>9, <1>10, <1>11, <1>12, CalmGoes

LEMMA FinishInv ==
  ASSUME IInv, NEW t \in DOMAIN tasks, Finish(t)
  PROVE  IInv'
<1>1. /\ TypeOK /\ Shape(t) /\ t \in Task /\ t.at \in {"finish", "closed"} /\ IsABag(budget')
      /\ t.tap # None /\ t.id # None /\ t.id \in Ids /\ t.posts = <<>> /\ TrueCopy(t.copy)
  BY Parts DEF Finish, Shape, Doing, Untold, TypeOK, Task, Fine
<1>2. CASE messages[t.id] = None
  BY <1>1, <1>2, QuietGoto DEF Finish, Doing
<1>3. CASE messages[t.id] # None
  <2> DEFINE q == <<[id |-> t.id, record |-> messages[t.id], why |-> "finished"]>>
             n == [t EXCEPT !.then = "ack", !.gone = q]
  <2>1. t.id \in Tracked /\ messages[t.id] \in Message
    BY <1>1, <1>3, Parts DEF Tracked, TrackedIn
  <2>2. q \in Seq(Retiree) /\ q # <<>> /\ "finished" \in Reasons
    BY <1>1, <2>1 DEF Retiree, Reasons
  <2>3. GoesOn(t, Resume(n), EmptyBag) /\ messages' = Claim(messages, {t.id})
    BY <1>3 DEF Finish
  <2> HIDE DEF q
  <2>4. n \in Task /\ n.gone = q /\ n.then = "ack" /\ n.posts = t.posts /\ n.id = t.id
        /\ n.tap = t.tap /\ n.record = t.record /\ n.copy = t.copy
    BY <1>1, <2>2 DEF Task, Steps
  <2> HIDE DEF n
  <2>5. PICK next : next = Resume(n)
    OBVIOUS
  <2>6. /\ next \in Task /\ next.gone = q /\ next.at = "delete" /\ next.then = "ack"
        /\ next.posts = <<>> /\ next.id = t.id /\ next.tap = t.tap /\ next.record = t.record
        /\ next.copy = t.copy
    BY <1>1, <2>2, <2>4, <2>5, ResumeIs DEF Alike
  <2>7. UNCHANGED <<gh, newer, chat, pressed, gens, done, mishaps, tapping, repo, delivered, handler,
                    backend, copies, readies, budget>>
    BY DEF Finish, NoCall, Unseen, github, copies
  <2>8. TypeOK'
    <3>1. IsABag(tasks') /\ DOMAIN tasks' \subseteq Task
      BY <1>1, <2>3, <2>5, <2>6, TasksTyped, GoesAlone, NewIs
    <3> QED
      BY <1>1, <2>3, <2>7, <3>1, ClaimIs DEF TypeOK, copies
  <2>9. Closes(messages[t.id], "finished")
    BY DEF Closes
  <2> QED
    BY <1>1, <2>1, <2>2, <2>3, <2>5, <2>6, <2>7, <2>8, <2>9, TapClaims DEF q
<1> QED
  BY <1>2, <1>3

LEMMA HandleTapInv ==
  ASSUME IInv, NEW t \in DOMAIN tasks, HandleTap(t)
  PROVE  IInv'
<1> DEFINE id == t.tap.id
           m  == messages[id]
<1>1. /\ TypeOK /\ Fine(t) /\ Shape(t) /\ t \in Task /\ t.at = "tap" /\ t.tap # None
      /\ t.tap \in Tap /\ id \in Ids /\ t.id = None /\ t.then = "ack" /\ ~ t.says
      /\ t.posts = <<>> /\ t.gone = <<>> /\ TrueCopy(t.copy) /\ TapOK(t.tap) /\ gens \in Nat
      /\ TablesFine
  <2>1. TypeOK /\ Fine(t) /\ Shape(t) /\ t \in Task /\ t.at = "tap" /\ TablesFine /\ gens \in Nat
    BY Zenon, Parts DEF HandleTap
  <2>2. t.tap # None /\ t.tap \in Tap
    BY <2>1 DEF Shape, Untold, Task
  <2> QED
    BY <2>1, <2>2 DEF Shape, Fine, Tap
<1>2. UNCHANGED <<gh, newer, chat, pressed, gens, done, mishaps, repo, delivered, handler,
                  backend, copies, readies, budget>>
  BY DEF HandleTap, NoCall, Unseen, github, copies
<1>3. ASSUME NEW next \in Task, GoesOn(t, next, EmptyBag),
             messages' \in [Ids -> Message \cup {None}], tapping' \subseteq Ids
      PROVE  TypeOK'
  <2>1. IsABag(tasks') /\ DOMAIN tasks' \subseteq Task
    BY <1>1, <1>3, TasksTyped, GoesAlone, NewIs
  <2> QED
    BY <1>1, <1>2, <1>3, <2>1 DEF TypeOK, copies
<1>4. TrueCopy(repo)' /\ TrueCopy(t.copy)' /\ TrueCopy(None)
  <2>1. TrueCopy(repo) /\ repo' = repo /\ gh' = gh /\ mishaps' = mishaps /\ TrueCopy(None)
    BY <1>1, <1>2 DEF TablesFine, TrueCopy
  <2> QED
    BY <1>1, <2>1, TrueStays, TrueKeeps
<1>5. messages \in [Ids -> Message \cup {None}] /\ tapping \subseteq Ids
  BY <1>1 DEF TypeOK
<1>6. CASE m = None /\ UNCHANGED <<messages, tapping>>
           /\ GoesOn(t, [t EXCEPT !.at = "edit", !.edit = [shown |-> TRUE, old |-> FALSE,
                           gen |-> 0, buttons |-> {}, head |-> 0, told |-> 0]], EmptyBag)
  <2> DEFINE redrawn == [shown |-> TRUE, old |-> FALSE, gen |-> 0, buttons |-> {}, head |-> 0,
                         told |-> 0]
  <2>1. /\ redrawn \in InChat /\ redrawn.gen = 0 /\ redrawn.buttons = {} /\ redrawn.told = 0
        /\ redrawn.head = 0 /\ redrawn.shown
    BY DEF InChat
  <2>2. PICK next : next = [t EXCEPT !.at = "edit", !.edit = redrawn]
    OBVIOUS
  <2> HIDE DEF redrawn
  <2>3. /\ next \in Task /\ next.at = "edit" /\ next.edit = redrawn /\ next.tap = t.tap
        /\ next.id = None /\ next.posts = <<>> /\ next.gone = <<>> /\ next.copy = t.copy
        /\ next.says = t.says
    <3>1. t \in Task /\ t.id = None /\ t.posts = <<>> /\ t.gone = <<>>
      BY <1>1
    <3>2. redrawn \in InChat /\ "edit" \in Steps
      BY <2>1 DEF Steps
    <3>3. next \in Task
      BY <2>2, <3>1, <3>2 DEF Task
    <3> QED
      BY <2>2, <3>1, <3>3 DEF Task
  <2>4. GoesOn(t, next, EmptyBag)
    BY <1>6, <2>2 DEF redrawn
  <2>5. Calm
    BY <1>2, <1>6, CalmWhenUnchanged
  <2>6. /\ ~ Acts(next) /\ Keys(next) = {} /\ Handled(next) = {} /\ RecordsOf(next) = {}
        /\ Distinct(next)
    BY <2>3 DEF Acts, Keys, Handled, RecordsOf, Distinct
  <2>7. Claimed(next) = {}
    BY <2>3 DEF Claimed
  <2>8. \A x \in PairsOf(next) : x \in PairsOf(t) \/ x[1] = 0
    BY <1>1, <2>1, <2>3, <2>6 DEF PairsOf
  <2>9. Fine(next)'
    <3>1. Shape(next)'
      BY <1>1, <2>1, <2>3, <2>6 DEF Shape, Doing
    <3>2. TapOK(next.tap)' /\ DrawnOK(next.edit)
      BY <1>1, <1>2, <2>1, <2>3 DEF TapOK, Undisturbed, DrawnOK
    <3> QED
      BY <1>4, <2>1, <2>3, <2>6, <2>7, <3>1, <3>2 DEF Fine, Learnt, DrawnOK
  <2>10. TypeOK'
    BY <1>3, <1>5, <1>6, <2>3, <2>4
  <2>11. t.at # "edit" /\ tapping' = tapping
    BY <1>1, <1>6
  <2> QED
    BY <1>4, <2>3, <2>4, <2>5, <2>6, <2>7, <2>8, <2>9, <2>10, <2>11, LightGoes
<1>7. CASE /\ m # None /\ m.retiring # None
           /\ messages' = Claim(messages, {id})
           /\ GoesOn(t, Resume([t EXCEPT !.gone = <<[id |-> id, record |-> m,
                                                     why |-> m.retiring]>>]), EmptyBag)
           /\ UNCHANGED tapping
  <2> DEFINE q == <<[id |-> id, record |-> m, why |-> m.retiring]>>
             n == [t EXCEPT !.gone = q]
  <2>1. id \in Tracked /\ m \in Message /\ m.retiring \in Reasons /\ Closes(m, m.retiring)
    BY <1>1, <1>5, <1>7 DEF Tracked, TrackedIn, TablesFine, Message
  <2> HIDE DEF id, m
  <2>2. q \in Seq(Retiree) /\ q # <<>>
    BY <1>1, <2>1 DEF Retiree
  <2> HIDE DEF q
  <2>3. n \in Task /\ n.gone = q /\ n.then = "ack" /\ n.posts = t.posts /\ n.id = t.id
        /\ n.tap = t.tap /\ n.record = t.record /\ n.copy = t.copy
    BY <1>1, <2>2 DEF Task
  <2>4. GoesOn(t, Resume(n), EmptyBag)
    BY <1>7 DEF q
  <2> HIDE DEF n
  <2>5. PICK next : next = Resume(n)
    OBVIOUS
  <2>6. /\ next \in Task /\ next.gone = q /\ next.at = "delete" /\ next.then = "ack"
        /\ next.posts = <<>> /\ next.id = t.id /\ next.tap = t.tap /\ next.record = t.record
        /\ next.copy = t.copy
    BY <1>1, <2>2, <2>3, <2>5, ResumeIs DEF Alike
  <2>7. TypeOK'
    BY <1>3, <1>5, <1>7, <2>4, <2>5, <2>6, ClaimIs
  <2> QED
    BY <1>1, <1>2, <1>7, <2>1, <2>4, <2>5, <2>6, <2>7, TapClaims DEF q, m
<1>8. CASE /\ UNCHANGED <<messages, tapping>> /\ GoesOn(t, [t EXCEPT !.at = "ack"], EmptyBag)
  <2>1. PICK next : next = [t EXCEPT !.at = "ack"]
    OBVIOUS
  <2>2. /\ next \in Task /\ next.at = "ack" /\ next.tap = t.tap
        /\ next.id = None /\ next.posts = <<>> /\ next.gone = <<>> /\ next.copy = t.copy
    BY <1>1, <2>1 DEF Task, Steps
  <2>3. Calm
    BY <1>2, <1>8, CalmWhenUnchanged
  <2>4. /\ ~ Acts(next) /\ Keys(next) = {} /\ Handled(next) = {} /\ RecordsOf(next) = {}
        /\ Distinct(next)
    BY <2>2 DEF Acts, Keys, Handled, RecordsOf, Distinct
  <2>5. Claimed(next) = {}
    BY <2>2 DEF Claimed
  <2>6. \A x \in PairsOf(next) : x \in PairsOf(t) \/ x[1] = 0
    BY <1>1, <2>2, <2>4 DEF PairsOf
  <2>7. Fine(next)'
    <3>1. Shape(next)'
      BY <1>1, <2>2, <2>4 DEF Shape, Doing
    <3>2. TapOK(next.tap)'
      BY <1>1, <1>2, <2>2 DEF TapOK, Undisturbed
    <3> QED
      BY <1>4, <2>2, <2>4, <2>5, <3>1, <3>2 DEF Fine, Learnt
  <2>8. TypeOK'
    BY <1>3, <1>5, <1>8, <2>1, <2>2
  <2>9. t.at # "edit" /\ tapping' = tapping /\ GoesOn(t, next, EmptyBag)
    BY <1>1, <1>8, <2>1
  <2> QED
    BY <1>4, <2>2, <2>3, <2>4, <2>5, <2>6, <2>7, <2>8, <2>9, LightGoes
<1>9. CASE /\ m # None /\ m.retiring = None /\ id \notin tapping
           /\ tapping' = tapping \cup {id} /\ messages' = Spend(messages, id)
           /\ \E soon \in BOOLEAN :
                /\ soon => t.tap.button = "confirm_force_merge" /\ m.asked
                /\ GoesOn(t, [t EXCEPT !.id = id, !.record = m,
                                !.at = IF t.tap.gen = m.gen THEN Meant(t.tap.button, soon)
                                       ELSE "rerender"], EmptyBag)
  <2>1. PICK soon \in BOOLEAN :
          GoesOn(t, [t EXCEPT !.id = id, !.record = m,
                       !.at = IF t.tap.gen = m.gen THEN Meant(t.tap.button, soon)
                              ELSE "rerender"], EmptyBag)
    BY <1>9
  <2>2. id \in Tracked /\ m \in Message
    BY <1>1, <1>5, <1>9 DEF Tracked, TrackedIn
  <2> HIDE DEF m, id
  <2>3. PICK at : at = IF t.tap.gen = m.gen THEN Meant(t.tap.button, soon) ELSE "rerender"
    OBVIOUS
  <2>4. /\ at \in {"finish", "ask", "rerender", "check"}
        /\ at = "check" => /\ t.tap.gen = m.gen
                           /\ t.tap.button \in {"merge", "rerun_checks", "confirm_force_merge"}
    BY <1>1, <2>3 DEF Meant, Tap, Buttons
  <2>5. PICK next : next = [t EXCEPT !.id = id, !.record = m, !.at = at]
    OBVIOUS
  <2>6. /\ next \in Task /\ next.at = at /\ next.tap = t.tap /\ next.id = id /\ next.record = m
        /\ next.posts = <<>> /\ next.gone = <<>> /\ next.copy = t.copy
    <3>1. t \in Task /\ t.posts = <<>> /\ t.gone = <<>> /\ id \in Ids
      BY <1>1 DEF id
    <3>2. at \in Steps
      BY <2>4 DEF Steps
    <3>3. next \in Task
      BY <2>2, <2>5, <3>1, <3>2 DEF Task
    <3> QED
      BY <2>5, <3>1, <3>3 DEF Task
  <2>7. GoesOn(t, next, EmptyBag)
    BY <2>1, <2>3, <2>5
  <2>8. /\ messages' = [messages EXCEPT ![id].gen = 0, ![id].buttons = {}]
    BY <1>9 DEF Spend
  <2> DEFINE s == [m EXCEPT !.gen = 0, !.buttons = {}]
  <2>9. s \in Message /\ s.pr = m.pr /\ s.head = m.head /\ s.retiring = m.retiring /\ s.gen = 0
    BY <2>2 DEF Message
  <2>10. messages' = [messages EXCEPT ![id] = s]
    BY <1>5, <2>8 DEF m
  <2> HIDE DEF s
  <2>11. /\ messages' \in [Ids -> Message \cup {None}] /\ messages'[id] = s
         /\ \A other \in Ids : other # id => messages'[other] = messages[other]
    BY <1>1, <1>5, <2>9, <2>10
  <2>12. Calm
    <3>1. \A other \in Tracked' : Faded(other)
      <4> SUFFICES ASSUME NEW other \in Tracked'
                   PROVE  Faded(other)
        OBVIOUS
      <4>1. other \in Ids /\ messages'[other] # None
        BY DEF Tracked, TrackedIn
      <4>2. CASE other = id
        BY <1>9, <2>9, <2>11, <4>2 DEF Faded, m
      <4>3. CASE other # id
        BY <2>11, <4>1, <4>3 DEF Faded
      <4> QED
        BY <4>2, <4>3
    <3> QED
      BY <1>1, <1>2, <3>1 DEF Calm, Placid, Grows
  <2>13. /\ Acts(next) => /\ t.tap.gen = m.gen
                          /\ t.tap.button \in {"merge", "rerun_checks", "confirm_force_merge"}
         /\ Handled(next) = {id} /\ RecordsOf(next) = {} /\ Distinct(next) /\ Claimed(next) = {}
    <3>1. id # None
      BY <1>1, NoneApart DEF id
    <3>2. Claimed(next) = {}
      BY <2>4, <2>6 DEF Claimed
    <3> QED
      BY <1>1, <2>4, <2>6, <3>1, <3>2 DEF Acts, Handled, RecordsOf, Distinct
  <2>14. Keys(next) \subseteq {t.tap.gen} /\ (Keys(next) # {} => t.tap.gen = m.gen)
    BY <2>4, <2>6, <2>13 DEF Keys
  <2>15. m.gen \in Nat /\ m.gen <= gens /\ <<m.gen, m.head>> \in Pairs /\ t.tap.gen > 0
    BY <1>1, <2>2, PairsAre, Parts DEF KeysDiffer, m, Message, TapOK
  <2>16. PICK o : o = NewTask
    OBVIOUS
  <2>17. /\ o.at = "end" /\ Handled(o) = {} /\ Claimed(o) = {} /\ Keys(o) = {} /\ Distinct(o)
         /\ RecordsOf(o) = {} /\ PairsOf(o) = {} /\ GoesOn(t, next, One(o))
    BY <2>7, <2>16, NewHolds, NewIs, GoesAlone
  <2>18. \A x \in PairsOf(next) \cup PairsOf(o) : x \in Pairs \/ x[1] = 0
    <3>1. <<t.tap.gen, t.tap.head>> \in Pairs
      BY <1>1, PairsAre DEF PairsOf
    <3> QED
      BY <2>4, <2>6, <2>13, <2>15, <2>17, <3>1 DEF PairsOf
  <2>19. Fine(next)'
    <3>1. Shape(next)'
      BY <1>1, <2>2, <2>4, <2>6, <2>13, NoneApart DEF Shape, Doing, id, Acts
    <3>2. TapOK(next.tap)'
      BY <1>1, <1>2, <2>6 DEF TapOK, Undisturbed
    <3>3. Keys(next) \subseteq 1..gens'
      BY <1>1, <1>2, <2>14, <2>15
    <3> QED
      BY <1>4, <2>4, <2>6, <2>13, <3>1, <3>2, <3>3 DEF Fine, Learnt
  <2>20. TypeOK'
    BY <1>1, <1>3, <1>5, <1>9, <2>6, <2>7, <2>11 DEF id
  <2>21. \A g \in Keys(next) :
           \/ g \in Keys(t)
           \/ /\ \E other \in Tracked : messages[other].gen = g
              /\ \A other \in Tracked' : messages'[other].gen # g
    <3> SUFFICES ASSUME NEW g \in Keys(next)
                 PROVE  /\ \E other \in Tracked : messages[other].gen = g
                        /\ \A other \in Tracked' : messages'[other].gen # g
      OBVIOUS
    <3>1. g = m.gen /\ g > 0 /\ messages[id].gen = g
      BY <2>14, <2>15 DEF m
    <3>2. \A other \in Tracked' : other \in Tracked /\ (other = id \/ messages'[other] = messages[other])
      BY <1>9, <2>11 DEF Tracked, TrackedIn, m
    <3>3. ASSUME NEW other \in Tracked', messages'[other].gen = g
          PROVE  FALSE
      <4>1. CASE other = id
        BY <2>9, <2>11, <3>1, <3>3, <4>1
      <4>2. CASE other # id
        BY <2>2, <3>1, <3>2, <3>3, <4>2, Parts DEF KeysDiffer
      <4> QED
        BY <4>1, <4>2
    <3> QED
      BY <2>2, <3>1, <3>3
  <2>22. /\ tapping \subseteq tapping' /\ Handled(next) \subseteq tapping' /\ id \notin tapping
         /\ t.at # "edit" /\ next.at # "edit"
    BY <1>1, <1>9, <2>4, <2>6, <2>13
  <2> QED
    BY <1>4, <2>12, <2>13, <2>17, <2>18, <2>19, <2>20, <2>21, <2>22, CalmGoes
<1> QED
  BY Zenon, <1>6, <1>7, <1>8, <1>9 DEF HandleTap

(* A call leaves the chat as it was or as asked; unless a mishap is noted it *)
(* did what it answers, or could not be made.                              *)
LEMMA CalledIs ==
  ASSUME TypeOK, NEW now, NEW answer, NEW r, NEW what, what \subseteq {"edit"},
         Called(now, answer, r, what)
  PROVE  /\ chat' \in {chat, now} /\ mishaps \subseteq mishaps'
         /\ mishaps' \subseteq {"crash", "call", "edit", "total"}
         /\ handler' \in HandlerIs!States /\ IsABag(budget')
         /\ Undisturbed' => \/ r = answer /\ chat' = now
                            \/ r = "unavailable" /\ chat' = chat /\ what = {}
         /\ r \notin Failures => chat' = now
<1>1. /\ mishaps \subseteq {"crash", "call", "edit", "total"} /\ handler \in HandlerIs!States
      /\ IsABag(budget)
  BY DEF TypeOK
<1>0. "unavailable" \in Failures /\ "failed" \in Failures
  BY DEF Failures
<1>2. HandlerIs!Dies => handler' \in HandlerIs!States
  BY DEF HandlerIs!Dies, HandlerIs!Gone, HandlerIs!States
<1>3. CASE Usable /\ r = answer /\ chat' = now /\ UNCHANGED <<handler, mishaps, budget>>
  BY <1>1, <1>3
<1>4. CASE /\ ~ Usable /\ r = "unavailable" /\ mishaps' = mishaps \cup what
           /\ UNCHANGED <<chat, handler, budget>>
  BY <1>0, <1>1, <1>4 DEF Undisturbed
<1>5. CASE r = "unavailable" /\ chat' = now /\ mishaps' = mishaps \cup {"call"}
           /\ UNCHANGED <<handler, budget>>
  BY <1>0, <1>1, <1>5 DEF Undisturbed
<1>6. CASE /\ Input("call fails") /\ r = "failed" /\ UNCHANGED handler /\ chat' \in {chat, now}
           /\ mishaps' = mishaps \cup {"call"}
  <2>1. IsABag(budget')
    BY <1>6, InputBag
  <2> QED
    BY <1>0, <1>1, <1>6, <2>1 DEF Undisturbed
<1>7. CASE /\ Input("handler dies") /\ r = "unavailable" /\ HandlerIs!Dies /\ chat' = now
           /\ mishaps' = mishaps \cup {"call"}
  <2>1. IsABag(budget')
    BY <1>7, InputBag
  <2> QED
    BY <1>0, <1>1, <1>2, <1>7, <2>1 DEF Undisturbed
<1> QED
  BY <1>3, <1>4, <1>5, <1>6, <1>7 DEF Called, Failures

LEMMA AckInv ==
  ASSUME IInv, NEW t \in DOMAIN tasks, Ack(t)
  PROVE  IInv'
<1>1. /\ TypeOK /\ t \in Task /\ Shape(t) /\ t.at = "ack" /\ t.tap # None /\ gens \in Nat
      /\ TrueCopy(repo)
  BY Parts DEF Ack, Shape, Untold, TablesFine
<1>2. PICK r : Called(chat, "ok", r, {}) /\ pressed' \subseteq pressed /\ delivered' \subseteq delivered
  BY DEF Ack
<1>3. UNCHANGED <<gh, newer, backend, copies, readies, done, messages, gens>> /\ tapping' = tapping \ {t.id}
  BY DEF Ack, github
<1>4. /\ chat' = chat /\ mishaps \subseteq mishaps' /\ mishaps' \subseteq {"crash", "call", "edit", "total"}
      /\ handler' \in HandlerIs!States /\ IsABag(budget')
  <2>1. {} \subseteq {"edit"}
    OBVIOUS
  <2> QED
    BY <1>1, <1>2, <2>1, CalledIs
<1>5. PICK next : next = [t EXCEPT !.at = "end"]
  OBVIOUS
<1>6. /\ next \in Task /\ next.at = "end" /\ next.tap = t.tap /\ next.id = t.id
      /\ next.gone = t.gone /\ next.record = t.record
  BY <1>1, <1>5 DEF Task, Steps
<1>7. GoesOn(t, next, EmptyBag)
  BY <1>5 DEF Ack, Goto
<1>8. TypeOK'
  <2>1. IsABag(tasks') /\ DOMAIN tasks' \subseteq Task
    BY <1>1, <1>6, <1>7, TasksTyped, GoesAlone, NewIs
  <2> QED
    BY <1>1, <1>2, <1>3, <1>4, <2>1 DEF TypeOK, copies
<1>9. Calm /\ TrueCopy(repo)'
  <2>1. Grows
    BY <1>1, <1>3, <1>4 DEF Grows
  <2>2. \A id \in Tracked' : Faded(id)
    BY <1>3 DEF Faded, Tracked, TrackedIn
  <2> QED
    BY <1>1, <1>2, <1>3, <1>4, <2>1, <2>2, TrueStays DEF Calm, Placid, copies
<1>10. tapping \ Handled(t) \subseteq tapping'
  <2>1. None \notin tapping
    BY <1>1, NoneApart DEF TypeOK
  <2> QED
    BY <1>1, <1>3, <2>1 DEF Handled
<1>11. /\ RecordsOf(next) = RecordsOf(t) /\ Handled(next) = Handled(t)
       /\ Claimed(next) = Claimed(t) /\ Keys(next) = {} /\ PairsOf(next) \subseteq PairsOf(t)
  BY <1>1, <1>6 DEF RecordsOf, Handled, Claimed, Keys, PairsOf, Acts
<1>12. Distinct(next)
  BY <1>6, Parts DEF Distinct, HeldOnce
<1> QED
  BY <1>1, <1>6, <1>7, <1>8, <1>9, <1>10, <1>11, <1>12, LightGoes

----------------------------------------------------------------------------
(* Retiring.                                                               *)

Deleting == {"delete", "strip", "keep"}

LEMMA PopIs ==
  ASSUME NEW t \in Task, t.gone # <<>>
  PROVE  /\ Pop(t) \in Task /\ Pop(t).gone = Tail(t.gone)
         /\ Pop(t).then = t.then /\ Pop(t).id = t.id /\ Pop(t).tap = t.tap
         /\ Pop(t).record = t.record /\ Pop(t).says = t.says /\ Pop(t).edit = t.edit
         /\ Pop(t).posts = t.posts /\ Pop(t).copy = t.copy
         /\ Pop(t).at = IF Tail(t.gone) # <<>> THEN "delete"
                        ELSE IF t.posts # <<>> THEN "post" ELSE t.then
         /\ Head(t.gone) = t.gone[1] /\ 1 \in DOMAIN t.gone /\ t.gone[1] \in Retiree
         /\ \A k \in DOMAIN Tail(t.gone) :
              k # 0 /\ k + 1 # 1 /\ k + 1 \in DOMAIN t.gone /\ Tail(t.gone)[k] = t.gone[k + 1]
         /\ \A i, j \in DOMAIN Tail(t.gone) : i + 1 = j + 1 => i = j
<1>1. t.gone \in Seq(Retiree)
  BY DEF Task
<1>2. PICK q : q = Tail(t.gone)
  OBVIOUS
<1>3. q \in Seq(Retiree)
  BY <1>1, <1>2
<1> DEFINE n == [t EXCEPT !.gone = q, !.readies = 0]
<1>4. n \in Task
  BY <1>3 DEF Task
<1>5. /\ n.gone = q /\ n.then = t.then /\ n.id = t.id /\ n.tap = t.tap
      /\ n.record = t.record /\ n.says = t.says /\ n.edit = t.edit
      /\ n.posts = t.posts /\ n.copy = t.copy
  BY DEF Task
<1>6. Pop(t) = Resume(n)
  BY <1>2 DEF Pop
<1> HIDE DEF n
<1>7. /\ Pop(t) \in Task /\ Pop(t).gone = q
      /\ Pop(t).then = t.then /\ Pop(t).id = t.id /\ Pop(t).tap = t.tap
      /\ Pop(t).record = t.record /\ Pop(t).says = t.says /\ Pop(t).edit = t.edit
      /\ Pop(t).posts = t.posts /\ Pop(t).copy = t.copy
      /\ Pop(t).at = IF q # <<>> THEN "delete" ELSE IF t.posts # <<>> THEN "post" ELSE t.then
  BY <1>4, <1>5, <1>6, ResumeIs DEF Alike
<1>8. Head(t.gone) = t.gone[1] /\ 1 \in DOMAIN t.gone /\ t.gone[1] \in Retiree
  BY <1>1
<1>9. \A k \in DOMAIN q : k # 0 /\ k + 1 # 1 /\ k + 1 \in DOMAIN t.gone /\ q[k] = t.gone[k + 1]
  BY <1>1, <1>2
<1>10. \A i, j \in DOMAIN q : i + 1 = j + 1 => i = j
  BY <1>3
<1> QED
  BY <1>2, <1>7, <1>8, <1>9, <1>10

(* The messages still to be deleted, all of them or all but the first.      *)
LEMMA LeftIs ==
  ASSUME IInv, Grows, gens' = gens, NEW t \in DOMAIN tasks, t.at \in Deleting, NEW next \in Task,
         next.then = t.then, next.id = t.id, next.tap = t.tap, next.record = t.record,
         next.posts = t.posts, next.copy = t.copy,
         \/ next.gone = t.gone /\ next.at \in Deleting
         \/ next = Pop(t)
  PROVE  /\ t.gone # <<>> /\ Head(t.gone) = t.gone[1] /\ 1 \in DOMAIN t.gone
         /\ t.gone[1] \in Retiree /\ t.gone[1].id \in Claimed(t)
         /\ next.at # "end" => Fine(next)'
         /\ RecordsOf(next) \subseteq RecordsOf(t) /\ PairsOf(next) \subseteq PairsOf(t)
         /\ Handled(next) = Handled(t) /\ Claimed(next) \subseteq Claimed(t)
         /\ Keys(next) = {} /\ Distinct(next) /\ next.at # "edit" /\ t.at # "edit" /\ Keys(t) = {}
         /\ next = Pop(t) => t.gone[1].id \notin Claimed(next)
         /\ next.at = "end" => Handled(t) = {}
         /\ next.at # "record"
<1>1. Fine(t) /\ Shape(t) /\ t \in Task /\ gens \in Nat /\ Fine(t)' /\ Distinct(t)
  BY Parts, FineGrows DEF Distinct, HeldOnce
<1>2. t.gone # <<>>
  BY <1>1 DEF Shape, Deleting
<1>3. /\ Head(t.gone) = t.gone[1] /\ 1 \in DOMAIN t.gone /\ t.gone[1] \in Retiree
  BY <1>1, <1>2, PopIs
<1>4. next = Pop(t) =>
         /\ \A k \in DOMAIN next.gone :
              k + 1 # 1 /\ k + 1 \in DOMAIN t.gone /\ next.gone[k] = t.gone[k + 1]
         /\ \A i, j \in DOMAIN next.gone : i + 1 = j + 1 => i = j
  <2> SUFFICES ASSUME next = Pop(t)
               PROVE  /\ \A k \in DOMAIN next.gone :
                           k + 1 # 1 /\ k + 1 \in DOMAIN t.gone /\ next.gone[k] = t.gone[k + 1]
                      /\ \A i, j \in DOMAIN next.gone : i + 1 = j + 1 => i = j
    OBVIOUS
  <2>1. next.gone = Tail(t.gone)
    BY <1>1, <1>2, PopIs
  <2> QED
    BY ONLY <1>1, <1>2, <2>1, PopIs
<1>5. t.at # "record" /\ t.at # "edit" /\ ~ Acts(t)
  BY DEF Deleting, Acts
<1>6. \A k \in DOMAIN next.gone : \E j \in DOMAIN t.gone : next.gone[k] = t.gone[j]
  <2>1. CASE next.gone = t.gone
    BY <2>1
  <2>2. CASE next = Pop(t)
    BY <1>4, <2>2
  <2> QED
    BY <2>1, <2>2
<1>7. /\ next.at \notin {"record", "edit", "tap", "apply", "sync", "reload"} \cup Doing
      /\ ~ Acts(next) /\ Shape(t)' /\ (next.at = "end" => Handled(t) = {})
      /\ next.at # "end" => Shape(next)'
  <2>1. CASE next.gone = t.gone /\ next.at \in Deleting
    BY <1>1, <1>2, <2>1 DEF Shape, Deleting, Acts, Untold, Doing
  <2>2. CASE next = Pop(t)
    <3>1. next.gone = Tail(t.gone) /\ next.at = IF next.gone # <<>> THEN "delete"
                        ELSE IF t.posts # <<>> THEN "post" ELSE t.then
      BY ZenonT(40), <1>1, <1>2, <2>2, PopIs
    <3>2. t.then \in {"ack", "end"} /\ (t.tap # None => t.then = "ack" /\ t.posts = <<>>)
          /\ (t.tap = None => t.then = "end" /\ t.id = None)
      BY <1>1 DEF Shape, Deleting
    <3>3. next.at \in {"delete", "post", "ack", "end"}
      BY <3>1, <3>2
    <3>4. ~ Acts(next) /\ (next.at = "end" => Handled(t) = {})
      BY <3>1, <3>2, <3>3 DEF Acts, Handled
    <3>5. next.at # "end" => Shape(next)'
      BY <1>1, <3>1, <3>2, <3>3, <3>4 DEF Shape, Deleting, Acts, Untold, Doing
    <3> QED
      BY <1>1, <3>3, <3>4, <3>5 DEF Fine, Doing
  <2> QED
    BY <2>1, <2>2
<1>8. Claimed(next) \subseteq Claimed(t) /\ RecordsOf(next) \subseteq RecordsOf(t)
      /\ t.gone[1].id \in Claimed(t)
  BY <1>3, <1>5, <1>6, <1>7 DEF Claimed, RecordsOf
<1>9. Keys(next) = {} /\ Keys(t) = {} /\ PairsOf(next) \subseteq PairsOf(t) /\ Handled(next) = Handled(t)
  BY <1>5, <1>7 DEF Keys, PairsOf, Handled
<1>10. Distinct(next)
  <2>1. CASE next.gone = t.gone
    BY <1>1, <2>1 DEF Distinct
  <2>2. CASE next = Pop(t)
    BY <1>1, <1>4, <2>2 DEF Distinct
  <2> QED
    BY <2>1, <2>2
<1>11. next = Pop(t) => t.gone[1].id \notin Claimed(next)
  <2> SUFFICES ASSUME next = Pop(t), NEW k \in DOMAIN next.gone, next.gone[k].id = t.gone[1].id
               PROVE  FALSE
    BY <1>7 DEF Claimed
  <2>1. k + 1 \in DOMAIN t.gone /\ next.gone[k] = t.gone[k + 1] /\ k + 1 # 1
    BY <1>4
  <2> QED
    BY <1>1, <1>3, <2>1 DEF Distinct
<1>12. next.at # "end" => Fine(next)'
  <2>1. \A k \in DOMAIN next.gone : Closes(next.gone[k].record, next.gone[k].why)'
    BY <1>1, <1>6 DEF Fine
  <2>2. Claimed(next) \subseteq DOMAIN chat' /\ Keys(next) \subseteq 1..gens'
    BY <1>1, <1>8, <1>9 DEF Fine, Grows
  <2> QED
    BY <1>1, <1>5, <1>7, <2>1, <2>2 DEF Fine, Learnt, Doing
<1> QED
  BY <1>2, <1>3, <1>5, <1>7, <1>8, <1>9, <1>10, <1>11, <1>12

LEMMA SeqExcept ==
  ASSUME NEW S, NEW s \in Seq(S), NEW i \in DOMAIN s, NEW e \in S,
         NEW n, n = [s EXCEPT ![i] = e]
  PROVE  /\ n \in Seq(S) /\ Len(n) = Len(s) /\ DOMAIN n = DOMAIN s /\ n[i] = e
         /\ \A j \in DOMAIN s : j # i => n[j] = s[j]
OBVIOUS

LEMMA ChatExcept ==
  ASSUME TypeOK, NEW id \in DOMAIN chat, NEW c \in InChat, NEW now, now = [chat EXCEPT ![id] = c]
  PROVE  /\ now \in Seq(InChat) /\ Len(now) = Len(chat) /\ DOMAIN now = DOMAIN chat
         /\ now[id] = c /\ \A j \in DOMAIN chat : j # id => now[j] = chat[j]
BY SeqExcept DEF TypeOK

(* The first message is deleted in the chat, loses its buttons there, or     *)
(* stays to be retired.                                                    *)
LEMMA RetireGoes ==
  ASSUME IInv, NEW t \in DOMAIN tasks, t.at \in {"delete", "strip"},
         NEW now, NEW answer, NEW r, Called(now, answer, r, {}),
         now \in Seq(InChat), Len(now) = Len(chat), DOMAIN now = DOMAIN chat,
         \A id \in DOMAIN chat :
           /\ now[id].told = chat[id].told /\ now[id].head = chat[id].head
           /\ now[id].gen \in {chat[id].gen, 0}
           /\ now[id].buttons # {} => now[id].buttons = chat[id].buttons /\ now[id].gen = chat[id].gen
           /\ id # t.gone[1].id => now[id] = chat[id],
         NEW next \in Task, GoesOn(t, next, EmptyBag),
         next.then = t.then, next.id = t.id, next.tap = t.tap, next.record = t.record,
         next.posts = t.posts, next.copy = t.copy,
         (next.gone = t.gone /\ next.at \in Deleting) \/ next = Pop(t),
         r = answer /\ chat[t.gone[1].id].shown /\ ~ now[t.gone[1].id].shown => next = Pop(t),
         UNCHANGED <<pressed, messages, tapping, gens>>, Unseen
  PROVE  IInv'
<1> DEFINE h == t.gone[1].id
<1>1. /\ TypeOK /\ AllFine /\ TablesFine /\ HeldOnce /\ KeysDiffer /\ ActsOnce /\ Agreed
      /\ Told /\ OneMessagePerPR /\ MergesPinned /\ done \in Seq(Range(done)) /\ gens \in Nat
  BY Parts
<1>2. /\ chat' \in {chat, now} /\ mishaps \subseteq mishaps'
      /\ mishaps' \subseteq {"crash", "call", "edit", "total"}
      /\ handler' \in HandlerIs!States /\ IsABag(budget')
      /\ Undisturbed' => (r = answer /\ chat' = now) \/ chat' = chat
  <2>1. {} \subseteq {"edit"}
    OBVIOUS
  <2> QED
    BY <1>1, <2>1, CalledIs
<1>3. UNCHANGED <<gh, newer, delivered, backend, copies, readies, done, pressed, messages, tapping, gens>>
  BY DEF Unseen, github
<1>4. /\ chat' \in Seq(InChat) /\ Len(chat') = Len(chat) /\ DOMAIN chat' = DOMAIN chat
      /\ \A id \in DOMAIN chat :
           /\ chat'[id].told = chat[id].told /\ chat'[id].head = chat[id].head
           /\ chat'[id].gen \in {chat[id].gen, 0}
           /\ chat'[id].buttons # {} => chat'[id].buttons = chat[id].buttons /\ chat'[id].gen = chat[id].gen
           /\ id # h => chat'[id] = chat[id]
  BY <1>1, <1>2 DEF TypeOK
<1>5. Grows /\ mishaps \subseteq mishaps' /\ gens' = gens /\ gens' \in Nat
  BY <1>1, <1>2, <1>3, <1>4 DEF Grows
<1>6. TypeOK'
  <2>1. IsABag(tasks') /\ DOMAIN tasks' \subseteq Task
    BY <1>1, TasksTyped, GoesAlone, NewIs
  <2> QED
    BY <1>1, <1>2, <1>3, <1>4, <2>1 DEF TypeOK, copies
<1>7. t.at \in Deleting /\ t.at # "end"
  BY DEF Deleting
<1>8. /\ h \in Claimed(t) /\ (next.at # "end" => Fine(next)')
      /\ RecordsOf(next) \subseteq RecordsOf(t) /\ PairsOf(next) \subseteq PairsOf(t)
      /\ Handled(next) = Handled(t) /\ Claimed(next) \subseteq Claimed(t)
      /\ Keys(next) = {} /\ Distinct(next) /\ next.at # "edit" /\ t.at # "edit"
      /\ next = Pop(t) => h \notin Claimed(next)
  BY <1>5, <1>7, LeftIs
<1>9. PICK N : N = {u \in {next} : u.at # "end"}
  OBVIOUS
<1>10. /\ DOMAIN tasks' \subseteq DOMAIN tasks \cup N
       /\ \A u \in DOMAIN tasks : u \in DOMAIN tasks' \/ u = t
       /\ \A u \in DOMAIN tasks' : (u \in DOMAIN tasks /\ (u # t \/ tasks[t] # 1)) \/ u = next
  <2>1. PICK o : o = NewTask
    OBVIOUS
  <2>2. GoesOn(t, next, One(o)) /\ o.at = "end" /\ IsABag(tasks)
    BY <1>1, <2>1, GoesAlone, NewIs DEF TypeOK
  <2> QED
    BY <1>9, <2>2, Went
<1>11. AllFine'
  <2>1. \A u \in N : Fine(u)'
    BY <1>8, <1>9
  <2> QED
    BY <1>1, <1>5, <1>10, <2>1, FineStep
<1>12. Tracked' = Tracked /\ messages' = messages
  BY <1>3 DEF Tracked, TrackedIn
<1>13. \A id \in Claimed(t) : id \notin Tracked
  <2>1. Holds(t) \cap Kept = {}
    BY <1>1 DEF HeldOnce
  <2>2. \A id \in Claimed(t) : <<"message", id>> \in Holds(t)
    BY HoldsAre
  <2> QED
    BY <2>1, <2>2, KeptAre
<1>14. HeldOnce'
  <2>1. PICK o : o = NewTask
    OBVIOUS
  <2>2. /\ Handled(o) = {} /\ Keys(o) = {} /\ Claimed(o) = {} /\ Distinct(o)
        /\ GoesOn(t, next, One(o))
    BY <2>1, NewHolds, GoesAlone
  <2> QED
    BY <1>1, <1>3, <1>8, <1>12, <1>13, <2>2, HeldGoes
<1>15. TablesFine'
  <2>1. TrueCopy(repo)'
    BY <1>1, <1>2, <1>3, TrueStays DEF TablesFine, copies
  <2>2. \A id \in Tracked' : id \in DOMAIN chat' /\ Closes(messages[id], messages[id].retiring)'
    BY <1>1, <1>3, <1>4, <1>12, <1>2 DEF TablesFine, Closes, Closed
  <2>3. \A tap \in pressed' : TapOK(tap)'
    BY <1>1, <1>3, <1>4, <1>5 DEF TablesFine, TapOK, Undisturbed
  <2>4. \A id \in DOMAIN chat' : DrawnOK(chat[id])'
    BY <1>1, <1>4 DEF TablesFine, DrawnOK
  <2>5. \A u \in DOMAIN tasks' : Handled(u) \subseteq tapping'
    BY <1>1, <1>3, <1>8, <1>10 DEF TablesFine
  <2> QED
    BY <2>1, <2>2, <2>3, <2>4, <2>5 DEF TablesFine
<1>16. OneMessagePerPR' /\ KeysDiffer' /\ ActsOnce' /\ MergesPinned' /\ done' \in Seq(Range(done'))
  <2>1. OneMessagePerPR'
    BY <1>1, <1>12, StandKept
  <2>2. KeysDiffer' /\ ActsOnce'
    BY <1>1, <1>3, <1>12, KeysKept
  <2>3. MergesPinned'
    BY <1>1, <1>3, <1>5 DEF MergesPinned, Undisturbed
  <2> QED
    BY <1>1, <1>3, <2>1, <2>2, <2>3
<1>17. Agreed'
  <2>1. (\A x \in Pairs : x[1] \in Nat) /\ gens <= gens'
    BY <1>1, <1>3, PairsTyped
  <2>2. PICK new : new = {}
    OBVIOUS
  <2>3. \A id \in Tracked' : \/ <<messages'[id].gen, messages'[id].head>> \in Pairs \cup new
                             \/ messages'[id].gen = 0
    BY <1>12, PairsAre
  <2>4. \A tap \in pressed' : <<tap.gen, tap.head>> \in Pairs
    BY <1>3, PairsAre
  <2>5. \A id \in DOMAIN chat' : \/ <<chat'[id].gen, chat'[id].head>> \in Pairs \cup new
                                 \/ chat'[id].gen = 0
    <3> SUFFICES ASSUME NEW id \in DOMAIN chat', chat'[id].gen # 0
                 PROVE  <<chat'[id].gen, chat'[id].head>> \in Pairs
      OBVIOUS
    <3>1. id \in DOMAIN chat /\ chat'[id].gen = chat[id].gen /\ chat'[id].head = chat[id].head
      BY <1>4
    <3> QED
      BY <3>1, PairsAre
  <2>6. /\ \A x \in new : x[1] = gens + 1 /\ gens' = gens + 1 /\ \A y \in new : x[2] = y[2]
        /\ \A u \in N : \A x \in PairsOf(u) : x \in Pairs \/ x[1] = 0 \/ x \in new
    BY <1>8, <1>9, <2>2, PairsAre
  <2> QED
    BY <1>1, <1>5, <1>10, <2>1, <2>3, <2>4, <2>5, <2>6, AgreedStep
<1>18. Told'
  <2>1. \A u \in N : (u.at = "edit" => u.id = None) /\ RecordsOf(u) \subseteq Records
    BY <1>8, <1>9, RecordsAre
  <2>2. \A id \in Tracked' : <<id, messages'[id].head>> \in Records
    BY <1>12, RecordsAre
  <2>3. Undisturbed' => \A x \in Records' : x \in Records => chat'[x[1]].shown
    <3> SUFFICES ASSUME Undisturbed', NEW x \in Records', x \in Records, ~ chat'[x[1]].shown
                 PROVE  FALSE
      OBVIOUS
    <3>1. chat[x[1]].shown /\ x[1] \in DOMAIN chat
      BY <1>1, <1>5, RecordsPlaced DEF Told, Undisturbed
    <3>2. x[1] = h /\ chat' = now /\ r = answer /\ next = Pop(t)
      BY <1>2, <1>4, <3>1
    <3>3. h \notin Tracked' /\ h \notin Claimed(next)
      BY <1>8, <1>12, <1>13, <3>2
    <3>4. ASSUME NEW u \in DOMAIN tasks', h \in Claimed(u)
          PROVE  FALSE
      <4>1. <<"message", h>> \in Holds(u) /\ <<"message", h>> \in Holds(t)
        BY <1>8, <3>4, HoldsAre
      <4>2. tasks[t] = 1 /\ \A v \in DOMAIN tasks : v # t => <<"message", h>> \notin Holds(v)
        BY <1>1, <4>1 DEF HeldOnce
      <4> QED
        BY <1>10, <3>3, <3>4, <4>1, <4>2
    <3>5. \A u : x \in RecordsOf(u) => x[1] \in Claimed(u)
      BY DEF RecordsOf, Claimed
    <3>6. \/ x[1] \in Tracked' \/ \E u \in DOMAIN tasks' : x \in RecordsOf(u)
      BY DEF Records
    <3> QED
      BY <3>2, <3>3, <3>4, <3>5, <3>6
  <2>4. /\ DOMAIN chat' = DOMAIN chat
        /\ \A id \in DOMAIN chat : /\ chat'[id].told = chat[id].told
                                   /\ chat'[id].head = chat[id].head
                                   /\ chat'[id].buttons # {} => chat[id].buttons # {}
    BY <1>4
  <2>5. /\ TypeOK /\ AllFine /\ TablesFine /\ Told /\ t.at # "edit"
        /\ DOMAIN tasks' \subseteq DOMAIN tasks \cup N
        /\ \A u \in DOMAIN tasks : u \in DOMAIN tasks' \/ u = t
        /\ mishaps \subseteq mishaps'
    BY <1>1, <1>5, <1>8, <1>10
  <2> QED
    BY ZenonT(40), <2>1, <2>2, <2>3, <2>4, <2>5, ToldStep, CalmMishaps
<1> QED
  BY <1>6, <1>11, <1>14, <1>15, <1>16, <1>17, <1>18 DEF IInv

LEMMA DeleteInv ==
  ASSUME IInv, NEW t \in DOMAIN tasks, Delete(t)
  PROVE  IInv'
<1>1. /\ TypeOK /\ t \in Task /\ Shape(t) /\ t.at = "delete" /\ t.gone # <<>> /\ Fine(t)
  BY Zenon, Parts DEF Delete, Shape
<1>2. /\ Head(t.gone) = t.gone[1] /\ 1 \in DOMAIN t.gone /\ t.gone[1] \in Retiree
      /\ t.gone[1].id \in DOMAIN chat
  <2>1. Head(t.gone) = t.gone[1] /\ 1 \in DOMAIN t.gone /\ t.gone[1] \in Retiree
    BY <1>1, PopIs
  <2>2. t.gone[1].id \in Claimed(t)
    BY <2>1 DEF Claimed
  <2> QED
    BY <1>1, <2>1, <2>2 DEF Fine
<1>3. PICK id : id = t.gone[1].id
  OBVIOUS
<1>4. PICK now : now = IF chat[id].shown /\ ~ chat[id].old THEN [chat EXCEPT ![id].shown = FALSE] ELSE chat
  OBVIOUS
<1>5. PICK answer : answer = IF ~ chat[id].shown THEN "gone" ELSE IF chat[id].old THEN "too old" ELSE "ok"
  OBVIOUS
<1>6. PICK r \in {"ok", "gone", "too old"} \cup Failures :
        /\ Called(now, answer, r, {})
        /\ GoesOn(t, CASE r = "too old" -> [t EXCEPT !.at = "strip", !.readies = readies]
                       [] r = "unavailable" -> [t EXCEPT !.at = "keep", !.readies = readies]
                       [] OTHER -> Pop(t), EmptyBag)
  BY <1>2, <1>3, <1>4, <1>5 DEF Delete
<1>7. PICK next : next = CASE r = "too old" -> [t EXCEPT !.at = "strip", !.readies = readies]
                           [] r = "unavailable" -> [t EXCEPT !.at = "keep", !.readies = readies]
                           [] OTHER -> Pop(t)
  OBVIOUS
<1>8. /\ next \in Task /\ next.then = t.then /\ next.id = t.id /\ next.tap = t.tap
      /\ next.record = t.record /\ next.posts = t.posts /\ next.copy = t.copy
      /\ \/ next.gone = t.gone /\ next.at \in Deleting
         \/ next = Pop(t)
      /\ r \notin {"too old", "unavailable"} => next = Pop(t)
  <2>1. readies \in Nat
    BY <1>1 DEF TypeOK
  <2>2. CASE r \in {"too old", "unavailable"}
    <3>1. PICK at \in {"strip", "keep"} : next = [t EXCEPT !.at = at, !.readies = readies]
      BY <1>7, <2>2
    <3>2. at \in Steps /\ at \in Deleting
      BY DEF Steps, Deleting
    <3> QED
      BY <1>1, <2>1, <2>2, <3>1, <3>2 DEF Task
  <2>3. CASE r \notin {"too old", "unavailable"}
    <3>1. next = Pop(t)
      BY <1>7, <2>3
    <3> QED
      BY <1>1, <3>1, PopIs
  <2> QED
    BY <2>2, <2>3
<1>9. /\ now \in Seq(InChat) /\ Len(now) = Len(chat) /\ DOMAIN now = DOMAIN chat
      /\ \A other \in DOMAIN chat :
           /\ now[other].told = chat[other].told /\ now[other].head = chat[other].head
           /\ now[other].gen \in {chat[other].gen, 0}
           /\ now[other].buttons # {} => now[other].buttons = chat[other].buttons /\ now[other].gen = chat[other].gen
           /\ other # id => now[other] = chat[other]
  <2>1. chat \in Seq(InChat)
    BY <1>1 DEF TypeOK
  <2>2. CASE now = chat
    BY <2>1, <2>2
  <2>3. CASE now = [chat EXCEPT ![id].shown = FALSE]
    <3>1. PICK c : c = [chat[id] EXCEPT !.shown = FALSE]
      OBVIOUS
    <3>2. chat[id] \in InChat
      BY <1>1, <1>2, <1>3, Types
    <3>3. c \in InChat /\ c.told = chat[id].told /\ c.head = chat[id].head /\ c.gen = chat[id].gen
          /\ c.buttons = chat[id].buttons
      BY <3>1, <3>2 DEF InChat
    <3>4. now = [chat EXCEPT ![id] = c]
      BY <2>3, <3>1
    <3>5. id \in DOMAIN chat
      BY <1>2, <1>3
    <3> QED
      <4>1. /\ now \in Seq(InChat) /\ Len(now) = Len(chat) /\ DOMAIN now = DOMAIN chat
            /\ now[id] = c /\ \A j \in DOMAIN chat : j # id => now[j] = chat[j]
        <5>1. TypeOK /\ c \in InChat
          BY <1>1, <3>3
        <5>2. now \in Seq(InChat)
          BY ONLY <3>4, <3>5, <5>1, ChatExcept
        <5>3. Len(now) = Len(chat) /\ DOMAIN now = DOMAIN chat
          BY ONLY <3>4, <3>5, <5>1, ChatExcept
        <5>4. now[id] = c
          BY ONLY <3>4, <3>5, <5>1, ChatExcept
        <5>5. \A j \in DOMAIN chat : j # id => now[j] = chat[j]
          BY ONLY <3>4, <3>5, <5>1, ChatExcept
        <5> QED
          BY <5>2, <5>3, <5>4, <5>5
      <4>2. \A other \in DOMAIN chat :
              \/ now[other] = chat[other]
              \/ /\ other = id /\ now[other].told = chat[other].told
                 /\ now[other].head = chat[other].head /\ now[other].gen = chat[other].gen
                 /\ now[other].buttons = chat[other].buttons
        BY <3>3, <4>1
      <4> HIDE DEF InChat
      <4> QED
        BY <4>1, <4>2
  <2> QED
    BY <1>4, <2>2, <2>3
<1>10. r = answer /\ chat[t.gone[1].id].shown /\ ~ now[t.gone[1].id].shown => next = Pop(t)
  BY <1>3, <1>4, <1>5, <1>8
<1>11. GoesOn(t, next, EmptyBag) /\ UNCHANGED <<pressed, messages, tapping, gens>> /\ Unseen
  BY <1>6, <1>7 DEF Delete
<1> QED
  <2>1. t.at \in {"delete", "strip"}
    BY <1>1
  <2>2. /\ now \in Seq(InChat) /\ Len(now) = Len(chat) /\ DOMAIN now = DOMAIN chat
        /\ \A other \in DOMAIN chat :
             /\ now[other].told = chat[other].told /\ now[other].head = chat[other].head
             /\ now[other].gen \in {chat[other].gen, 0}
             /\ now[other].buttons # {} =>
                  now[other].buttons = chat[other].buttons /\ now[other].gen = chat[other].gen
             /\ other # t.gone[1].id => now[other] = chat[other]
    BY <1>3, <1>9
  <2>3. Called(now, answer, r, {})
    BY <1>6
  <2> QED
    BY <1>8, <1>10, <1>11, <2>1, <2>2, <2>3, RetireGoes

LEMMA StripInv ==
  ASSUME IInv, NEW t \in DOMAIN tasks, Strip(t)
  PROVE  IInv'
<1>1. /\ TypeOK /\ t \in Task /\ Shape(t) /\ t.at = "strip" /\ t.gone # <<>> /\ Fine(t)
  BY Zenon, Parts DEF Strip, Shape
<1>2. /\ Head(t.gone) = t.gone[1] /\ 1 \in DOMAIN t.gone /\ t.gone[1] \in Retiree
      /\ t.gone[1].id \in DOMAIN chat
  <2>1. Head(t.gone) = t.gone[1] /\ 1 \in DOMAIN t.gone /\ t.gone[1] \in Retiree
    BY <1>1, PopIs
  <2>2. t.gone[1].id \in Claimed(t)
    BY <2>1 DEF Claimed
  <2> QED
    BY <1>1, <2>1, <2>2 DEF Fine
<1>3. PICK id : id = t.gone[1].id
  OBVIOUS
<1>4. PICK now : now = IF chat[id].shown THEN [chat EXCEPT ![id].gen = 0, ![id].buttons = {}] ELSE chat
  OBVIOUS
<1>5. PICK answer : answer = IF chat[id].shown THEN "ok" ELSE "gone"
  OBVIOUS
<1>6. PICK r \in {"ok", "gone"} \cup Failures :
        /\ Called(now, answer, r, {})
        /\ GoesOn(t, IF r = "unavailable" THEN [t EXCEPT !.at = "keep"] ELSE Pop(t), EmptyBag)
  BY <1>2, <1>3, <1>4, <1>5 DEF Strip
<1>7. PICK next : next = IF r = "unavailable" THEN [t EXCEPT !.at = "keep"] ELSE Pop(t)
  OBVIOUS
<1>8. /\ next \in Task /\ next.then = t.then /\ next.id = t.id /\ next.tap = t.tap
      /\ next.record = t.record /\ next.posts = t.posts /\ next.copy = t.copy
      /\ \/ next.gone = t.gone /\ next.at \in Deleting
         \/ next = Pop(t)
  <2>1. CASE r = "unavailable"
    <3>1. "keep" \in Steps /\ "keep" \in Deleting
      BY DEF Steps, Deleting
    <3> QED
      BY <1>1, <1>7, <2>1, <3>1 DEF Task
  <2>2. CASE r # "unavailable"
    <3>1. next = Pop(t)
      BY <1>7, <2>2
    <3> QED
      BY <1>1, <3>1, PopIs
  <2> QED
    BY <2>1, <2>2
<1>9. /\ now \in Seq(InChat) /\ Len(now) = Len(chat) /\ DOMAIN now = DOMAIN chat
      /\ \A other \in DOMAIN chat :
           /\ now[other].told = chat[other].told /\ now[other].head = chat[other].head
           /\ now[other].gen \in {chat[other].gen, 0}
           /\ now[other].buttons # {} => now[other].buttons = chat[other].buttons /\ now[other].gen = chat[other].gen
           /\ other # id => now[other] = chat[other]
      /\ now[id].shown = chat[id].shown
  <2>1. chat \in Seq(InChat) /\ chat[id] \in InChat
    BY <1>1, <1>2, <1>3 DEF TypeOK
  <2>2. CASE now = chat
    BY <2>1, <2>2
  <2>3. CASE now = [chat EXCEPT ![id].gen = 0, ![id].buttons = {}]
    <3>1. PICK c : c = [chat[id] EXCEPT !.gen = 0, !.buttons = {}]
      OBVIOUS
    <3>2. c \in InChat /\ c.told = chat[id].told /\ c.head = chat[id].head /\ c.gen = 0
          /\ c.buttons = {} /\ c.shown = chat[id].shown
      BY <2>1, <3>1 DEF InChat
    <3>3. now = [chat EXCEPT ![id] = c]
      BY <1>2, <1>3, <2>1, <2>3, <3>1
    <3>4. id \in DOMAIN chat
      BY <1>2, <1>3
    <3> QED
      BY <2>1, <3>2, <3>3, <3>4, SeqExcept
  <2> QED
    BY <1>4, <2>2, <2>3
<1>10. GoesOn(t, next, EmptyBag) /\ UNCHANGED <<pressed, messages, tapping, gens>> /\ Unseen
  BY <1>6, <1>7 DEF Strip
<1> QED
  BY SMTT(30), <1>1, <1>3, <1>6, <1>8, <1>9, <1>10, RetireGoes

(* The goroutine that deletes these messages, each for its reason, and then  *)
(* posts.                                                                  *)
Starting(o, table, why) ==
  /\ o \in Task /\ o.at \in {"delete", "post", "end"} /\ Alike(NewTask, o) /\ o.copy = None
  /\ o.at = "delete" <=> o.gone # <<>>
  /\ o.at = "post" => o.posts # <<>>
  /\ \A k \in DOMAIN o.posts : o.posts[k].message.retiring = None
  /\ \A k \in DOMAIN o.gone : /\ o.gone[k].id \in DOMAIN why
                              /\ o.gone[k].record = table[o.gone[k].id]
                              /\ o.gone[k].why = why[o.gone[k].id]
  /\ Distinct(o) /\ Handled(o) = {} /\ Keys(o) = {} /\ PairsOf(o) = {}
  /\ Claimed(o) \subseteq DOMAIN why
  /\ RecordsOf(o) \subseteq {<<id, table[id].head>> : id \in DOMAIN why}

LEMMA StartIs ==
  ASSUME NEW table, NEW why, DOMAIN why \subseteq Ids,
         \A id \in DOMAIN why : table[id] \in Message /\ why[id] \in Reasons,
         NEW posts \in Seq(Unsent), \A k \in DOMAIN posts : posts[k].message.retiring = None
  PROVE  \E o : Starting(o, table, why) /\ Cleanup(Retirees(table, why), posts) = One(o)
<1>1. PICK gone : gone = Retirees(table, why)
  OBVIOUS
<1>2. /\ gone \in Seq(Retiree)
      /\ \A k \in DOMAIN gone : /\ gone[k].id \in DOMAIN why
                                /\ gone[k].record = table[gone[k].id]
                                /\ gone[k].why = why[gone[k].id]
      /\ \A i, j \in DOMAIN gone : gone[i].id = gone[j].id => i = j
  BY <1>1, RetireesIs
<1>3. PICK o \in Task :
        /\ Cleanup(gone, posts) = One(o)
        /\ o.gone = gone /\ o.posts = posts /\ Alike(NewTask, o) /\ o.copy = None
        /\ o.at = IF gone # <<>> THEN "delete" ELSE IF posts # <<>> THEN "post" ELSE "end"
  BY <1>2, CleanupIs
<1>4. o.tap = None /\ o.at \in {"delete", "post", "end"} /\ (o.at = "delete" <=> o.gone # <<>>)
      /\ (o.at = "post" => o.posts # <<>>)
  BY <1>3, NewIs DEF Alike
<1>5. Handled(o) = {} /\ Keys(o) = {} /\ PairsOf(o) = {}
  BY <1>4 DEF Handled, Keys, PairsOf, Acts
<1>6. Claimed(o) \subseteq DOMAIN why
      /\ RecordsOf(o) \subseteq {<<id, table[id].head>> : id \in DOMAIN why}
  BY <1>2, <1>3, <1>4 DEF Claimed, RecordsOf
<1>7. Distinct(o)
  BY <1>2, <1>3 DEF Distinct
<1>8. Starting(o, table, why)
  BY <1>2, <1>3, <1>4, <1>5, <1>6, <1>7 DEF Starting
<1> QED
  BY <1>1, <1>3, <1>8

LEMMA StartFine ==
  ASSUME NEW o, NEW table, NEW why, Starting(o, table, why), o.at # "end",
         \A id \in DOMAIN why : id \in DOMAIN chat' /\ Closes(table[id], why[id])'
  PROVE  Fine(o)'
<1>1. /\ o.tap = None /\ o.id = None /\ o.then = "end" /\ o.copy = None /\ ~ Acts(o)
      /\ o.at \in {"delete", "post"}
  BY NewIs DEF Starting, Alike, Acts
<1>2. Shape(o)'
  BY <1>1 DEF Starting, Shape, Untold, Acts
<1>3. \A k \in DOMAIN o.gone : Closes(o.gone[k].record, o.gone[k].why)'
  BY DEF Starting
<1>4. Claimed(o) \subseteq DOMAIN chat' /\ Keys(o) \subseteq 1..gens'
  BY DEF Starting
<1> QED
  BY <1>1, <1>2, <1>3, <1>4 DEF Fine, Learnt, TrueCopy

(* The chat stays; records go, lose their keys, or come from the goroutine.  *)
LEMMA TracksStep ==
  ASSUME IInv, TypeOK',
         UNCHANGED <<gh, newer, chat, pressed, gens, done, mishaps, repo, tapping>>,
         NEW N, NEW t, DOMAIN tasks' \subseteq DOMAIN tasks \cup N,
         \A u \in DOMAIN tasks : u \in DOMAIN tasks' \/ u = t, t.at # "edit",
         \A u \in N : /\ Fine(u)' /\ (u.at = "edit" => u.id = None)
                      /\ RecordsOf(u) \subseteq Records /\ Handled(u) \subseteq tapping
                      /\ \A x \in PairsOf(u) : x \in Pairs \/ x[1] = 0,
         \A id \in Tracked' : /\ id \in DOMAIN chat
                              /\ Closes(messages'[id], messages'[id].retiring)
                              /\ <<id, messages'[id].head>> \in Records
                              /\ \/ <<messages'[id].gen, messages'[id].head>> \in Pairs
                                 \/ messages'[id].gen = 0,
         HeldOnce', OneMessagePerPR', KeysDiffer'
  PROVE  IInv'
<1>1. /\ TypeOK /\ AllFine /\ TablesFine /\ HeldOnce /\ KeysDiffer /\ ActsOnce /\ Agreed
      /\ Told /\ MergesPinned /\ done \in Seq(Range(done)) /\ gens \in Nat
  BY Parts
<1>2. Grows
  BY <1>1 DEF Grows
<1>3. AllFine'
  BY <1>1, <1>2, FineStep
<1>4. TablesFine'
  <2>1. TrueCopy(repo)' /\ (\A tap \in pressed' : TapOK(tap)') /\ (\A id \in DOMAIN chat' : DrawnOK(chat[id])')
    BY <1>1, TrueStays DEF TablesFine, TapOK, Undisturbed, DrawnOK
  <2>2. \A id \in Tracked' : id \in DOMAIN chat' /\ Closes(messages[id], messages[id].retiring)'
    BY DEF Closes, Closed
  <2>3. \A u \in DOMAIN tasks' : Handled(u) \subseteq tapping'
    BY <1>1 DEF TablesFine
  <2> QED
    BY <2>1, <2>2, <2>3 DEF TablesFine
<1>5. Agreed'
  <2>1. (\A x \in Pairs : x[1] \in Nat) /\ gens' \in Nat /\ gens <= gens'
    BY <1>1, PairsTyped
  <2>2. PICK new : new = {}
    OBVIOUS
  <2>3. /\ \A id \in Tracked' : \/ <<messages'[id].gen, messages'[id].head>> \in Pairs \cup new
                                \/ messages'[id].gen = 0
        /\ \A tap \in pressed' : <<tap.gen, tap.head>> \in Pairs
        /\ \A id \in DOMAIN chat' : \/ <<chat'[id].gen, chat'[id].head>> \in Pairs \cup new
                                    \/ chat'[id].gen = 0
    BY PairsAre
  <2>4. /\ \A x \in new : x[1] = gens + 1 /\ gens' = gens + 1 /\ \A y \in new : x[2] = y[2]
        /\ \A u \in N : \A x \in PairsOf(u) : x \in Pairs \/ x[1] = 0 \/ x \in new
    BY <2>2
  <2> QED
    BY <1>1, <2>1, <2>3, <2>4, AgreedStep
<1>6. Told'
  <2>1. Undisturbed' => \A x \in Records' : x \in Records => chat'[x[1]].shown
    BY <1>1 DEF Told, Undisturbed
  <2>2. /\ DOMAIN chat' = DOMAIN chat
        /\ \A id \in DOMAIN chat : /\ chat'[id].told = chat[id].told
                                   /\ chat'[id].head = chat[id].head
                                   /\ chat'[id].buttons # {} => chat[id].buttons # {}
    OBVIOUS
  <2>3. mishaps \subseteq mishaps'
    OBVIOUS
  <2> QED
    BY <1>1, <2>1, <2>2, <2>3, ToldStep, CalmMishaps
<1>7. ActsOnce' /\ MergesPinned' /\ done' \in Seq(Range(done'))
  BY <1>1 DEF ActsOnce, MergesPinned, Undisturbed
<1> QED
  BY <1>3, <1>4, <1>5, <1>6, <1>7 DEF IInv

LEMMA ClaimedAlone ==
  ASSUME IInv, NEW t \in DOMAIN tasks
  PROVE  \A id \in Claimed(t) : id \notin Tracked /\ id \in DOMAIN chat /\ id \in Ids
<1>1. Holds(t) \cap Kept = {} /\ Claimed(t) \subseteq DOMAIN chat /\ DOMAIN chat \subseteq Ids
  BY Parts, Types DEF HeldOnce, Fine
<1>2. \A id \in Claimed(t) : <<"message", id>> \in Holds(t)
  BY HoldsAre
<1> QED
  BY <1>1, <1>2, KeptAre

LEMMA KeepInv ==
  ASSUME IInv, NEW t \in DOMAIN tasks, Keep(t)
  PROVE  IInv'
<1>1. /\ TypeOK /\ t \in Task /\ Shape(t) /\ t.at = "keep" /\ t.gone # <<>> /\ Fine(t)
      /\ t.at \in Deleting /\ gens \in Nat /\ messages \in [Ids -> Message \cup {None}]
  BY Parts DEF Keep, Shape, Deleting, TypeOK
<1>2. UNCHANGED <<gh, newer, chat, pressed, gens, done, mishaps, tapping, repo, delivered, handler,
                  backend, copies, readies, budget>>
  BY DEF Keep, NoCall, Unseen, github, copies
<1>3. PICK g : g = Head(t.gone)
  OBVIOUS
<1>4. PICK next : next = Pop(t)
  OBVIOUS
<1>5. /\ next \in Task /\ next.then = t.then /\ next.id = t.id /\ next.tap = t.tap
      /\ next.record = t.record /\ next.posts = t.posts /\ next.copy = t.copy
  BY <1>1, <1>4, PopIs
<1>6. Grows /\ gens' = gens
  BY <1>1, <1>2 DEF Grows
<1>7. /\ g = t.gone[1] /\ 1 \in DOMAIN t.gone /\ g \in Retiree /\ g.id \in Claimed(t)
      /\ next.at # "end" => Fine(next)'
      /\ RecordsOf(next) \subseteq RecordsOf(t) /\ PairsOf(next) \subseteq PairsOf(t)
      /\ Handled(next) = Handled(t) /\ Claimed(next) \subseteq Claimed(t)
      /\ Keys(next) = {} /\ Distinct(next) /\ next.at # "edit" /\ t.at # "edit" /\ Keys(t) = {}
      /\ g.id \notin Claimed(next)
  BY <1>1, <1>3, <1>4, <1>5, <1>6, LeftIs
<1>8. PICK m : m = [g.record EXCEPT !.retiring = g.why, !.gen = 0, !.buttons = {}]
  OBVIOUS
<1>9. /\ m \in Message /\ m.pr = g.record.pr /\ m.head = g.record.head /\ m.gen = 0
      /\ m.retiring = g.why /\ m.retiring \in Reasons /\ g.id \in Ids
  BY <1>7, <1>8 DEF Retiree, Message
<1>10. Closes(m, m.retiring) /\ <<g.id, m.head>> \in RecordsOf(t)
  BY <1>1, <1>7, <1>9 DEF Fine, Closes, RecordsOf
<1>11. PICK kept : kept = [messages EXCEPT ![g.id] = m]
  OBVIOUS
<1>12. /\ kept \in [Ids -> Message \cup {None}] /\ kept[g.id] = m
       /\ \A id \in Ids : id # g.id => kept[id] = messages[id]
  BY <1>1, <1>9, <1>11
<1>13. PICK why : why = [id \in Waiting(kept) |-> kept[id].retiring]
  OBVIOUS
<1>14. /\ messages' = IF Again(t) THEN Claim(kept, DOMAIN why) ELSE kept
       /\ GoesOn(t, next, IF Again(t) THEN Cleanup(Retirees(kept, why), <<>>) ELSE EmptyBag)
  BY <1>3, <1>4, <1>8, <1>11, <1>13 DEF Keep, RetireWaiting
<1>15. /\ DOMAIN why \subseteq Ids
       /\ \A id \in DOMAIN why : /\ kept[id] \in Message /\ why[id] \in Reasons
                                 /\ why[id] = kept[id].retiring
  BY <1>12, <1>13 DEF Waiting, TrackedIn, Message
<1>16. PICK o : /\ Starting(o, kept, why) \/ (o = NewTask /\ messages' = kept)
                /\ GoesOn(t, next, One(o)) /\ messages' \in {kept, Claim(kept, DOMAIN why)}
                /\ o = NewTask \/ messages' = Claim(kept, DOMAIN why)
  <2>1. CASE Again(t)
    <3>1. PICK o : Starting(o, kept, why) /\ Cleanup(Retirees(kept, why), <<>>) = One(o)
      <4>1. <<>> \in Seq(Unsent) /\ \A k \in DOMAIN <<>> : <<>>[k].message.retiring = None
        OBVIOUS
      <4> QED
        BY <1>15, <4>1, StartIs
    <3> QED
      BY <1>14, <2>1, <3>1
  <2>2. CASE ~ Again(t)
    BY <1>14, <2>2, GoesAlone
  <2> QED
    BY <2>1, <2>2
<1>17. /\ o \in Task /\ o.at # "edit" /\ Distinct(o) /\ Handled(o) = {} /\ Keys(o) = {}
       /\ PairsOf(o) = {}
       /\ \A id \in Claimed(o) : id \in DOMAIN why /\ messages' = Claim(kept, DOMAIN why)
       /\ \A x \in RecordsOf(o) : \E id \in DOMAIN why : x = <<id, kept[id].head>>
  <2>1. CASE o = NewTask
    BY <2>1, NewIs, NewHolds
  <2>2. CASE o # NewTask
    BY <1>16, <2>2 DEF Starting
  <2> QED
    BY <2>1, <2>2
<1>18. /\ messages' \in [Ids -> Message \cup {None}]
       /\ \A id \in Ids : messages'[id] = kept[id] \/ messages'[id] = None
       /\ \A id \in Claimed(o) : id \in Ids /\ messages'[id] = None
  <2>1. DOMAIN Claim(kept, DOMAIN why) = Ids
    BY DEF Claim
  <2>2. \A id \in Ids : Claim(kept, DOMAIN why)[id] = IF id \in DOMAIN why THEN None ELSE kept[id]
    BY DEF Claim
  <2>3. Claim(kept, DOMAIN why) \in [Ids -> Message \cup {None}]
    BY <1>12, <2>2 DEF Claim
  <2> QED
    BY <1>12, <1>15, <1>16, <1>17, <2>2, <2>3
<1>19. \A id \in Tracked' : \/ id \in Tracked /\ messages'[id] = messages[id]
                            \/ id = g.id /\ messages'[id] = m
  BY <1>12, <1>18 DEF Tracked, TrackedIn
<1>20. \A id \in DOMAIN why : \/ id \in Tracked /\ kept[id] = messages[id]
                              \/ id = g.id /\ kept[id] = m
  BY <1>12, <1>15, NoneApart DEF Tracked, TrackedIn
<1>21. TypeOK'
  <2>1. IsABag(tasks') /\ DOMAIN tasks' \subseteq Task
    BY <1>1, <1>5, <1>16, <1>17, TasksTyped
  <2> QED
    BY <1>1, <1>2, <1>18, <2>1 DEF TypeOK, copies
<1>22. \A id \in Claimed(t) : id \notin Tracked /\ id \in DOMAIN chat
  BY ClaimedAlone
<1>23. HeldOnce'
  <2>1. \A id \in Claimed(next) \cup Claimed(o) :
          /\ id \in Claimed(t) \/ id \in Tracked
          /\ id \notin Tracked'
    <3>1. \A id \in Claimed(next) : id \in Claimed(t) /\ id \notin Tracked'
      BY <1>7, <1>19, <1>22
    <3>2. \A id \in Claimed(o) : (id = g.id \/ id \in Tracked) /\ id \notin Tracked'
      BY <1>17, <1>18, <1>20 DEF Tracked, TrackedIn
    <3> QED
      BY <1>7, <3>1, <3>2
  <2>2. Claimed(next) \cap Claimed(o) = {}
    BY <1>7, <1>17, <1>20, <1>22
  <2>3. \A id \in Tracked' :
          /\ id \in Tracked \/ id \in Claimed(t)
          /\ \/ messages'[id].gen \notin 1..gens
             \/ id \in Tracked /\ messages'[id].gen = messages[id].gen
    BY <1>7, <1>9, <1>19
  <2>4. TypeOK /\ HeldOnce /\ AllFine /\ TablesFine /\ done' = done
    BY <1>2, Parts
  <2> QED
    BY <1>7, <1>16, <1>17, <2>1, <2>2, <2>3, <2>4, HeldGoes
<1>24. OneMessagePerPR'
  BY <1>9, <1>19, NoneApart, StandKept, Parts
<1>25. KeysDiffer'
  BY <1>1, <1>2, <1>9, <1>19, KeysKept, Parts
<1>26. \A id \in Tracked' : /\ id \in DOMAIN chat
                            /\ Closes(messages'[id], messages'[id].retiring)
                            /\ <<id, messages'[id].head>> \in Records
                            /\ \/ <<messages'[id].gen, messages'[id].head>> \in Pairs
                               \/ messages'[id].gen = 0
  <2> SUFFICES ASSUME NEW id \in Tracked'
               PROVE  /\ id \in DOMAIN chat
                      /\ Closes(messages'[id], messages'[id].retiring)
                      /\ <<id, messages'[id].head>> \in Records
                      /\ \/ <<messages'[id].gen, messages'[id].head>> \in Pairs
                         \/ messages'[id].gen = 0
    OBVIOUS
  <2>1. CASE id \in Tracked /\ messages'[id] = messages[id]
    BY <2>1, PairsAre, RecordsAre, Parts DEF TablesFine
  <2>2. CASE id = g.id /\ messages'[id] = m
    BY <1>7, <1>9, <1>10, <1>22, <2>2, RecordsAre
  <2> QED
    BY <1>19, <2>1, <2>2
<1>27. PICK N : N = {u \in {next, o} : u.at # "end"}
  OBVIOUS
<1>28. /\ DOMAIN tasks' \subseteq DOMAIN tasks \cup N
       /\ \A u \in DOMAIN tasks : u \in DOMAIN tasks' \/ u = t
  <2>1. IsABag(tasks)
    BY <1>1 DEF TypeOK
  <2> QED
    BY <1>16, <1>27, <2>1, Went
<1>29. o.at # "end" => Fine(o)' /\ RecordsOf(o) \subseteq Records
  <2> SUFFICES ASSUME o.at # "end"
               PROVE  Fine(o)' /\ RecordsOf(o) \subseteq Records
    OBVIOUS
  <2>1. Starting(o, kept, why)
    BY <1>16, NewIs
  <2>2. \A id \in DOMAIN why : id \in DOMAIN chat' /\ Closes(kept[id], why[id])'
    <3> SUFFICES ASSUME NEW id \in DOMAIN why
                 PROVE  id \in DOMAIN chat /\ Closes(kept[id], kept[id].retiring)
      BY <1>2, <1>15 DEF Closes, Closed
    <3>1. CASE id \in Tracked /\ kept[id] = messages[id]
      BY <3>1, Parts DEF TablesFine
    <3>2. CASE id = g.id /\ kept[id] = m
      BY <1>7, <1>10, <1>22, <3>2
    <3> QED
      BY <1>20, <3>1, <3>2
  <2>3. \A id \in DOMAIN why : <<id, kept[id].head>> \in Records
    BY <1>9, <1>10, <1>20, RecordsAre
  <2> QED
    BY <1>17, <2>1, <2>2, <2>3, StartFine
<1>30. \A u \in N : /\ Fine(u)' /\ (u.at = "edit" => u.id = None)
                    /\ RecordsOf(u) \subseteq Records /\ Handled(u) \subseteq tapping
                    /\ \A x \in PairsOf(u) : x \in Pairs \/ x[1] = 0
  <2>1. Handled(t) \subseteq tapping
    BY Parts DEF TablesFine
  <2> QED
    BY <1>7, <1>17, <1>27, <1>29, <2>1, RecordsAre, PairsAre
<1> QED
  BY <1>2, <1>7, <1>21, <1>23, <1>24, <1>25, <1>26, <1>28, <1>30, TracksStep

LEMMA RecordInv ==
  ASSUME IInv, NEW t \in DOMAIN tasks, Record(t)
  PROVE  IInv'
<1>1. /\ TypeOK /\ t \in Task /\ Shape(t) /\ t.at = "record" /\ t.gone = <<>> /\ Fine(t)
      /\ gens \in Nat /\ messages \in [Ids -> Message \cup {None}] /\ t.tap = None
      /\ t.record \in Message /\ t.record.retiring = None /\ t.then = "end"
  <2>1. /\ TypeOK /\ t \in Task /\ Shape(t) /\ t.at = "record" /\ Fine(t) /\ gens \in Nat
    BY Parts DEF Record
  <2>2. t.tap = None /\ t.gone = <<>>
    BY <2>1 DEF Shape
  <2> QED
    BY <2>1, <2>2 DEF Shape, TypeOK
<1>2. UNCHANGED <<gh, newer, chat, pressed, gens, done, mishaps, tapping, repo, delivered, handler,
                  backend, copies, readies, budget>>
  BY DEF Record, NoCall, Unseen, github, copies
<1>3. /\ Claimed(t) = {t.id} /\ Keys(t) = {t.record.gen} /\ Handled(t) = {}
      /\ PairsOf(t) = {<<t.record.gen, t.record.head>>}
      /\ RecordsOf(t) = {<<t.id, t.record.head>>}
  BY <1>1 DEF Claimed, Keys, Handled, PairsOf, RecordsOf, Acts
<1>4. t.id \in Ids /\ t.id \notin Tracked /\ t.id \in DOMAIN chat /\ t.record.gen \in 1..gens
  BY <1>1, <1>3, ClaimedAlone DEF Fine
<1>5. /\ \A id \in Tracked : messages[id].gen # t.record.gen
      /\ \A i \in DOMAIN done : done[i].gen # t.record.gen
  <2>1. <<"key", t.record.gen>> \in Holds(t)
    BY <1>3, HoldsAre
  <2>2. <<"key", t.record.gen>> \notin Kept
    BY <2>1, Parts DEF HeldOnce
  <2> QED
    BY <2>2, KeptAre
<1>6. PICK old : old = Previous(t.record)
  OBVIOUS
<1>7. /\ old \subseteq Tracked /\ old \subseteq Ids
      /\ \A id \in Tracked \ old : messages[id].pr # t.record.pr
  BY <1>6 DEF Previous, Tracked, TrackedIn
<1>8. PICK why : why = [id \in old |-> "superseded"]
  OBVIOUS
<1>9. PICK q : q = Retirees(messages, why)
  OBVIOUS
<1>10. /\ q \in Seq(Retiree)
       /\ \A k \in DOMAIN q : /\ q[k].id \in old /\ q[k].record = messages[q[k].id]
                              /\ q[k].why = "superseded"
       /\ \A i, j \in DOMAIN q : q[i].id = q[j].id => i = j
  <2>1. \A id \in DOMAIN why : messages[id] \in Message /\ why[id] \in Reasons
    BY <1>7, <1>8, Parts DEF Reasons
  <2> QED
    BY <1>7, <1>8, <1>9, <2>1, RetireesIs
<1>11. PICK posts : posts = Tail(t.posts)
  OBVIOUS
<1>12. posts \in Seq(Unsent) /\ \A k \in DOMAIN posts : posts[k].message.retiring = None
  <2>1. t.posts \in Seq(Unsent) /\ t.posts # <<>>
    BY <1>1 DEF Task, Shape, Unsent
  <2>2. posts \in Seq(Unsent) /\ \A k \in DOMAIN posts : k + 1 \in DOMAIN t.posts /\ posts[k] = t.posts[k + 1]
    BY <1>11, <2>1
  <2> QED
    BY <1>1, <2>2 DEF Shape
<1>13. PICK n : n = [t EXCEPT !.gone = q, !.posts = posts, !.id = None, !.record = None]
  OBVIOUS
<1>14. n \in Task /\ n.gone = q /\ n.posts = posts /\ n.id = None /\ n.record = None
       /\ n.tap = t.tap /\ n.then = t.then /\ n.copy = t.copy
  BY <1>1, <1>10, <1>12, <1>13 DEF Task, Unsent
<1>15. PICK next : next = Resume(n)
  OBVIOUS
<1>16. /\ next \in Task /\ next.gone = q /\ next.posts = posts /\ next.id = None
       /\ next.tap = None /\ next.then = "end" /\ next.copy = t.copy
       /\ next.at = IF q # <<>> THEN "delete" ELSE IF posts # <<>> THEN "post" ELSE "end"
  BY <1>1, <1>14, <1>15, ResumeIs DEF Alike
<1>17. /\ messages' = [Claim(messages, old) EXCEPT ![t.id] = t.record]
       /\ GoesOn(t, next, EmptyBag)
  BY <1>6, <1>8, <1>9, <1>11, <1>13, <1>15 DEF Record
<1>18. /\ messages' \in [Ids -> Message \cup {None}] /\ messages'[t.id] = t.record
       /\ \A id \in Ids : id # t.id => messages'[id] = IF id \in old THEN None ELSE messages[id]
  <2>1. /\ Claim(messages, old) \in [Ids -> Message \cup {None}]
        /\ \A id \in Ids : Claim(messages, old)[id] = IF id \in old THEN None ELSE messages[id]
    BY <1>1 DEF Claim
  <2> QED
    BY <1>1, <1>4, <1>17, <2>1
<1>19. \A id \in Tracked' : \/ id \in Tracked \ old /\ messages'[id] = messages[id] /\ id # t.id
                            \/ id = t.id /\ messages'[id] = t.record
  BY <1>4, <1>7, <1>18 DEF Tracked, TrackedIn
<1>20. PICK o : o = NewTask
  OBVIOUS
<1>21. GoesOn(t, next, One(o)) /\ o.at = "end"
  BY <1>17, <1>20, GoesAlone, NewIs
<1>22. /\ Handled(next) = {} /\ Keys(next) = {} /\ PairsOf(next) = {} /\ Distinct(next)
       /\ ~ Acts(next)
  BY <1>10, <1>16 DEF Handled, Keys, PairsOf, Distinct, Acts
<1>23. Claimed(next) \subseteq old /\ RecordsOf(next) \subseteq {<<id, messages[id].head>> : id \in old}
  BY <1>10, <1>16 DEF Claimed, RecordsOf
<1>24. TypeOK'
  <2>1. IsABag(tasks') /\ DOMAIN tasks' \subseteq Task
    BY <1>1, <1>16, <1>20, <1>21, TasksTyped, NewIs
  <2> QED
    BY <1>1, <1>2, <1>18, <2>1 DEF TypeOK, copies
<1>25. HeldOnce'
  <2>1. TypeOK /\ HeldOnce /\ AllFine /\ TablesFine /\ done' = done
    BY <1>2, Parts
  <2>2. \A id \in Claimed(next) : id \in Tracked /\ id \notin Tracked'
    BY <1>7, <1>4, <1>19, <1>23
  <2>3. \A id \in Tracked' :
          /\ id \in Tracked \/ id \in Claimed(t)
          /\ \/ messages'[id].gen \in Keys(t)
             \/ id \in Tracked /\ messages'[id].gen = messages[id].gen
    BY <1>3, <1>19
  <2>4. Handled(o) = {} /\ Keys(o) = {} /\ Claimed(o) = {} /\ Distinct(o)
    BY <1>20, NewHolds
  <2> QED
    BY <1>21, <1>22, <2>1, <2>2, <2>3, <2>4, HeldGoes
<1>26. OneMessagePerPR'
  <2> SUFFICES ASSUME NEW id \in Standing', NEW other \in Standing',
                      messages'[id].pr = messages'[other].pr
               PROVE  id = other
    BY DEF OneMessagePerPR
  <2>1. id \in Tracked' /\ other \in Tracked' /\ messages'[id].retiring = None /\ messages'[id].pr # Test
        /\ messages'[other].retiring = None /\ messages'[other].pr # Test
    BY DEF Standing
  <2>2. CASE id \in Tracked \ old /\ other \in Tracked \ old /\ messages'[id] = messages[id]
             /\ messages'[other] = messages[other]
    BY <2>1, <2>2, Parts DEF OneMessagePerPR, Standing
  <2> QED
    BY <1>7, <1>19, <2>1, <2>2
<1>27. KeysDiffer'
  <2>1. KeysDiffer
    BY Parts
  <2>2. \A id, other \in Tracked' :
          messages'[id].gen = messages'[other].gen => id = other \/ messages'[id].gen = 0
    BY <1>5, <1>19, <2>1 DEF KeysDiffer
  <2>3. \A id \in Tracked' : /\ messages'[id].gen <= gens'
                             /\ \A i \in DOMAIN done' : messages'[id].gen # done'[i].gen
    BY <1>2, <1>4, <1>5, <1>19, <2>1 DEF KeysDiffer
  <2> QED
    BY <1>2, <2>1, <2>2, <2>3 DEF KeysDiffer
<1>28. \A id \in Tracked' : /\ id \in DOMAIN chat
                            /\ Closes(messages'[id], messages'[id].retiring)
                            /\ <<id, messages'[id].head>> \in Records
                            /\ \/ <<messages'[id].gen, messages'[id].head>> \in Pairs
                               \/ messages'[id].gen = 0
  <2> SUFFICES ASSUME NEW id \in Tracked'
               PROVE  /\ id \in DOMAIN chat
                      /\ Closes(messages'[id], messages'[id].retiring)
                      /\ <<id, messages'[id].head>> \in Records
                      /\ <<messages'[id].gen, messages'[id].head>> \in Pairs
    OBVIOUS
  <2>1. CASE id \in Tracked /\ messages'[id] = messages[id]
    BY <2>1, PairsAre, RecordsAre, Parts DEF TablesFine
  <2>2. CASE id = t.id /\ messages'[id] = t.record
    <3>1. Closes(t.record, t.record.retiring)
      BY <1>1, NoneApart DEF Closes, Reasons
    <3> QED
      BY <1>3, <1>4, <2>2, <3>1, RecordsAre, PairsAre
  <2> QED
    BY <1>19, <2>1, <2>2
<1>29. PICK N : N = {u \in {next} : u.at # "end"}
  OBVIOUS
<1>30. /\ DOMAIN tasks' \subseteq DOMAIN tasks \cup N
       /\ \A u \in DOMAIN tasks : u \in DOMAIN tasks' \/ u = t
  <2>1. IsABag(tasks)
    BY <1>1 DEF TypeOK
  <2> QED
    BY <1>21, <1>29, <2>1, Went
<1>31. next.at # "end" => Fine(next)'
  <2> SUFFICES ASSUME next.at # "end"
               PROVE  Fine(next)'
    OBVIOUS
  <2>1. Shape(next)'
    BY <1>12, <1>16, <1>22 DEF Shape, Untold, Acts
  <2>2. \A k \in DOMAIN next.gone : Closes(next.gone[k].record, next.gone[k].why)'
    BY <1>10, <1>16 DEF Closes
  <2>3. Claimed(next) \subseteq DOMAIN chat'
    BY <1>2, <1>7, <1>23, Parts DEF TablesFine
  <2>4. TrueCopy(next.copy)'
    BY <1>1, <1>2, <1>16, TrueKeeps DEF Fine
  <2> QED
    BY <1>16, <1>22, <2>1, <2>2, <2>3, <2>4 DEF Fine, Learnt
<1>32. \A u \in N : /\ Fine(u)' /\ (u.at = "edit" => u.id = None)
                    /\ RecordsOf(u) \subseteq Records /\ Handled(u) \subseteq tapping
                    /\ \A x \in PairsOf(u) : x \in Pairs \/ x[1] = 0
  BY <1>7, <1>16, <1>22, <1>23, <1>29, <1>31, RecordsAre
<1> QED
  BY <1>1, <1>2, <1>24, <1>25, <1>26, <1>27, <1>28, <1>30, <1>32, TracksStep

----------------------------------------------------------------------------
(* A new message, which is recorded next.                                  *)

LEMMA PostInv ==
  ASSUME IInv, NEW t \in DOMAIN tasks, Post(t)
  PROVE  IInv'
<1>1. /\ TypeOK /\ t \in Task /\ Shape(t) /\ t.at = "post" /\ Fine(t) /\ gens \in Nat
      /\ Len(chat) < MaxPosts
  BY Parts DEF Post
<1>2. /\ t.tap = None /\ t.gone = <<>> /\ t.posts # <<>> /\ t.id = None /\ t.then = "end"
      /\ t.posts \in Seq(Unsent) /\ \A k \in DOMAIN t.posts : t.posts[k].message.retiring = None
  <2>1. t.tap = None /\ t.gone = <<>> /\ t.posts # <<>> /\ t.then = "end"
    BY <1>1 DEF Shape
  <2>2. t.id = None
    BY <1>1, <2>1 DEF Shape
  <2> QED
    BY <1>1, <2>1, <2>2 DEF Shape, Task, Unsent
<1>3. PICK p : p = Head(t.posts)
  OBVIOUS
<1>4. PICK posts : posts = Tail(t.posts)
  OBVIOUS
<1>5. /\ p \in Unsent /\ p.message.retiring = None /\ posts \in Seq(Unsent)
      /\ \A k \in DOMAIN posts : posts[k].message.retiring = None
  <2>1. p = t.posts[1] /\ 1 \in DOMAIN t.posts
    BY <1>2, <1>3
  <2>2. posts \in Seq(Unsent) /\ \A k \in DOMAIN posts : k + 1 \in DOMAIN t.posts /\ posts[k] = t.posts[k + 1]
    BY <1>2, <1>4
  <2> QED
    BY <1>2, <2>1, <2>2
<1>6. PICK m : m = [p.message EXCEPT !.gen = gens + 1]
  OBVIOUS
<1>7. m \in Message /\ m.gen = gens + 1 /\ m.retiring = None
  BY <1>1, <1>5, <1>6 DEF Unsent, Message
<1>8. PICK card : card = [shown |-> TRUE, old |-> FALSE, gen |-> m.gen, buttons |-> m.buttons,
                          head |-> m.head, told |-> m.head]
  OBVIOUS
<1>9. card \in InChat /\ card.shown /\ card.gen = gens + 1 /\ card.head = m.head
      /\ card.told = m.head
  BY <1>1, <1>7, <1>8 DEF InChat, Message
<1>10. PICK now : now = Append(chat, card)
  OBVIOUS
<1>11. PICK r \in {"ok"} \cup Failures :
         /\ Called(now, "ok", r, {})
         /\ GoesOn(t, IF r = "ok"
                      THEN [t EXCEPT !.at = "record", !.id = Len(chat) + 1, !.record = m]
                      ELSE Resume([t EXCEPT !.posts = posts]), EmptyBag)
  BY <1>3, <1>4, <1>6, <1>8, <1>10 DEF Post
<1>12. UNCHANGED <<gh, newer, delivered, backend, copies, readies, done, pressed, messages, tapping>>
       /\ gens' = gens + 1
  BY DEF Post, Unseen, github
<1>13. /\ chat' \in {chat, now} /\ mishaps \subseteq mishaps'
       /\ mishaps' \subseteq {"crash", "call", "edit", "total"}
       /\ handler' \in HandlerIs!States /\ IsABag(budget')
       /\ r = "ok" => chat' = now
  <2>1. {} \subseteq {"edit"} /\ "ok" \notin Failures
    BY DEF Failures
  <2> QED
    BY <1>1, <1>11, <2>1, CalledIs
<1>14. /\ chat' \in Seq(InChat) /\ Len(chat') <= MaxPosts /\ DOMAIN chat \subseteq DOMAIN chat'
       /\ \A id \in DOMAIN chat' : \/ id \in DOMAIN chat /\ chat'[id] = chat[id]
                                   \/ id = Len(chat) + 1 /\ chat'[id] = card
       /\ r = "ok" => Len(chat) + 1 \in DOMAIN chat' /\ chat'[Len(chat) + 1] = card
       /\ Len(chat) + 1 \notin DOMAIN chat /\ Len(chat) + 1 \in Ids
       /\ \A id \in DOMAIN chat : chat'[id] = chat[id]
  <2>1. chat \in Seq(InChat) /\ MaxPosts \in Nat
    BY <1>1, ConstantsAssumption DEF TypeOK
  <2>2. /\ now \in Seq(InChat) /\ Len(now) = Len(chat) + 1 /\ DOMAIN chat = 1..Len(chat)
        /\ Len(chat) \in Nat /\ DOMAIN now = 1..(Len(chat) + 1) /\ now[Len(chat) + 1] = card
        /\ \A id \in DOMAIN chat : now[id] = chat[id]
    BY <1>9, <1>10, <2>1
  <2> QED
    BY <1>1, <1>13, <2>1, <2>2 DEF Ids
<1>15. PICK next : next = IF r = "ok"
                          THEN [t EXCEPT !.at = "record", !.id = Len(chat) + 1, !.record = m]
                          ELSE Resume([t EXCEPT !.posts = posts])
  OBVIOUS
<1>16. /\ next \in Task /\ next.then = "end" /\ next.tap = None /\ next.gone = <<>>
       /\ next.copy = t.copy
       /\ \/ /\ next.at = "record" /\ next.id = Len(chat) + 1 /\ next.record = m /\ r = "ok"
             /\ next.posts = t.posts
          \/ /\ next.at \in {"post", "end"} /\ next.id = None /\ next.posts = posts
             /\ next.at = "post" => posts # <<>>
  <2>1. CASE r = "ok"
    <3>1. "record" \in Steps
      BY DEF Steps
    <3>2. next = [t EXCEPT !.at = "record", !.id = Len(chat) + 1, !.record = m]
      BY <1>15, <2>1
    <3>3. next \in Task
      BY <1>1, <1>7, <1>14, <3>1, <3>2 DEF Task
    <3> QED
      BY <1>1, <1>2, <2>1, <3>2, <3>3 DEF Task
  <2>2. CASE r # "ok"
    <3>1. PICK n : n = [t EXCEPT !.posts = posts]
      OBVIOUS
    <3>2. n \in Task /\ n.then = t.then /\ n.tap = t.tap /\ n.gone = t.gone /\ n.copy = t.copy
          /\ n.id = t.id /\ n.posts = posts
      BY <1>1, <1>5, <3>1 DEF Task, Unsent
    <3>3. next = Resume(n)
      BY <1>15, <2>2, <3>1
    <3> QED
      BY <1>2, <3>2, <3>3, ResumeIs DEF Alike
  <2> QED
    BY <2>1, <2>2
<1>17. GoesOn(t, next, EmptyBag)
  BY <1>11, <1>15
<1>18. /\ ~ Acts(next) /\ Handled(next) = {} /\ Distinct(next) /\ next.at # "edit"
       /\ Claimed(next) \subseteq {Len(chat) + 1} /\ Keys(next) \subseteq {gens + 1}
       /\ PairsOf(next) \subseteq {<<gens + 1, m.head>>}
       /\ Claimed(next) # {} \/ RecordsOf(next) # {} => next.at = "record"
       /\ RecordsOf(next) \subseteq {<<Len(chat) + 1, m.head>>}
  BY <1>7, <1>16 DEF Acts, Handled, Distinct, Claimed, Keys, PairsOf, RecordsOf
<1>19. /\ AllFine /\ TablesFine /\ HeldOnce /\ KeysDiffer /\ ActsOnce /\ Agreed
       /\ Told /\ OneMessagePerPR /\ MergesPinned /\ done \in Seq(Range(done))
  BY Parts
<1>20. Grows /\ gens' \in Nat /\ mishaps \subseteq mishaps'
  BY <1>1, <1>12, <1>13, <1>14 DEF Grows
<1>21. PICK o : o = NewTask
  OBVIOUS
<1>22. GoesOn(t, next, One(o)) /\ o.at = "end" /\ IsABag(tasks)
  BY <1>1, <1>17, <1>21, GoesAlone, NewIs DEF TypeOK
<1>23. PICK N : N = {u \in {next} : u.at # "end"}
  OBVIOUS
<1>24. /\ DOMAIN tasks' \subseteq DOMAIN tasks \cup N
       /\ \A u \in DOMAIN tasks : u \in DOMAIN tasks' \/ u = t
  BY <1>22, <1>23, Went
<1>25. TypeOK'
  <2>1. IsABag(tasks') /\ DOMAIN tasks' \subseteq Task
    BY <1>1, <1>16, <1>21, <1>22, TasksTyped, NewIs
  <2> QED
    BY <1>1, <1>12, <1>13, <1>14, <1>20, <2>1 DEF TypeOK, copies
<1>26. AllFine'
  <2>1. next.at # "end" => Fine(next)'
    <3> SUFFICES ASSUME next.at # "end"
                 PROVE  Fine(next)'
      OBVIOUS
    <3>1. Shape(next)'
      BY <1>2, <1>5, <1>7, <1>14, <1>16, <1>18, NoneApart DEF Shape, Untold, Acts
    <3>2. TrueCopy(next.copy)'
      BY <1>1, <1>16, <1>20, TrueGrows DEF Fine
    <3>3. Claimed(next) \subseteq DOMAIN chat' /\ Keys(next) \subseteq 1..gens'
      BY <1>1, <1>12, <1>14, <1>16, <1>18
    <3> QED
      BY <1>16, <1>18, <3>1, <3>2, <3>3 DEF Fine, Learnt
  <2>2. \A u \in N : Fine(u)'
    BY <1>23, <2>1
  <2> QED
    BY <1>1, <1>19, <1>20, <1>24, <2>2, FineStep
<1>27. Tracked' = Tracked /\ messages' = messages /\ \A id \in Tracked : messages[id].gen \in Nat
  BY <1>1, <1>12, Types DEF Tracked, TrackedIn, Message
<1>28. TablesFine'
  <2>1. TrueCopy(repo)'
    BY <1>12, <1>19, <1>20, TrueStays DEF TablesFine, copies
  <2>2. \A id \in Tracked' : id \in DOMAIN chat' /\ Closes(messages[id], messages[id].retiring)'
    BY <1>12, <1>14, <1>19, <1>27, <1>20 DEF TablesFine, Closes, Closed
  <2>3. \A tap \in pressed' : TapOK(tap)'
    BY <1>12, <1>14, <1>19, <1>20 DEF TablesFine, TapOK, Undisturbed
  <2>4. \A id \in DOMAIN chat' : DrawnOK(chat[id])'
    BY <1>1, <1>9, <1>14, <1>19 DEF TablesFine, DrawnOK
  <2>5. \A u \in DOMAIN tasks' : Handled(u) \subseteq tapping'
    BY <1>12, <1>18, <1>19, <1>23, <1>24 DEF TablesFine
  <2> QED
    BY <2>1, <2>2, <2>3, <2>4, <2>5 DEF TablesFine
<1>29. HeldOnce'
  <2>1. \A id \in Claimed(next) : id \notin DOMAIN chat /\ id \notin Tracked'
    BY <1>14, <1>18, <1>19, <1>27 DEF TablesFine
  <2>2. \A g \in Keys(next) : /\ g \notin 1..gens
                              /\ \A id \in Tracked' : messages'[id].gen # g
                              /\ \A i \in DOMAIN done' : done'[i].gen # g
    BY <1>1, <1>12, <1>18, <1>19, <1>27 DEF KeysDiffer
  <2>3. Handled(o) = {} /\ Keys(o) = {} /\ Claimed(o) = {} /\ Distinct(o)
    BY <1>21, NewHolds
  <2> QED
    BY <1>1, <1>12, <1>18, <1>19, <1>22, <1>27, <2>1, <2>2, <2>3, HeldGoes
<1>30. OneMessagePerPR' /\ KeysDiffer' /\ ActsOnce' /\ MergesPinned' /\ done' \in Seq(Range(done'))
  <2>1. OneMessagePerPR'
    BY <1>19, <1>27, StandKept
  <2>2. KeysDiffer' /\ ActsOnce'
    BY <1>1, <1>12, <1>19, <1>20, <1>27, KeysKept
  <2>3. MergesPinned'
    BY <1>12, <1>19, <1>20 DEF MergesPinned, Undisturbed
  <2> QED
    BY <1>12, <1>19, <2>1, <2>2, <2>3
<1>31. Agreed'
  <2>1. (\A x \in Pairs : x[1] \in Nat) /\ gens <= gens'
    BY <1>1, <1>12, <1>19, PairsTyped
  <2>2. PICK new : new = {<<gens + 1, m.head>>}
    OBVIOUS
  <2>3. \A id \in Tracked' : \/ <<messages'[id].gen, messages'[id].head>> \in Pairs \cup new
                             \/ messages'[id].gen = 0
    BY <1>27, PairsAre
  <2>4. \A tap \in pressed' : <<tap.gen, tap.head>> \in Pairs
    BY <1>12, PairsAre
  <2>5. \A id \in DOMAIN chat' : \/ <<chat'[id].gen, chat'[id].head>> \in Pairs \cup new
                                 \/ chat'[id].gen = 0
    BY <1>9, <1>14, <2>2, PairsAre
  <2>6. /\ \A x \in new : x[1] = gens + 1 /\ gens' = gens + 1 /\ \A y \in new : x[2] = y[2]
        /\ \A u \in N : \A x \in PairsOf(u) : x \in Pairs \/ x[1] = 0 \/ x \in new
    BY <1>12, <1>18, <1>23, <2>2
  <2> QED
    BY <1>1, <1>19, <1>20, <1>24, <2>1, <2>3, <2>4, <2>5, <2>6, AgreedStep
<1>32. Told'
  <2> SUFFICES ASSUME Undisturbed'
               PROVE  Told'
    BY DEF Told
  <2>1. /\ \A x \in Records :
             /\ chat[x[1]].shown
             /\ \/ chat[x[1]].told = x[2]
                \/ \E u \in DOMAIN tasks : Redraws(u, x[1]) /\ u.says
             /\ \A u \in DOMAIN tasks : Redraws(u, x[1]) => u.edit.head = x[2]
        /\ \A u \in DOMAIN tasks :
             u.at = "edit" /\ u.id # None /\ ~ u.says => chat[u.id].told = u.edit.head
        /\ \A id \in DOMAIN chat : chat[id].buttons # {} => chat[id].told = chat[id].head
    BY <1>19, <1>20 DEF Told, Undisturbed
  <2>2. \A u \in DOMAIN tasks' : u.at = "edit" => u \in DOMAIN tasks
    BY <1>18, <1>23, <1>24
  <2>3. \A u \in DOMAIN tasks : u.at = "edit" => u \in DOMAIN tasks'
    BY <1>1, <1>24
  <2>4. \A u \in DOMAIN tasks : u.at = "edit" /\ u.id # None => u.id \in DOMAIN chat
    <3> SUFFICES ASSUME NEW u \in DOMAIN tasks, u.at = "edit", u.id # None
                 PROVE  u.id \in DOMAIN chat
      OBVIOUS
    <3>1. Shape(u) /\ (u.tap # None => TapOK(u.tap))
      BY <1>19 DEF AllFine, Fine
    <3> QED
      BY <3>1 DEF Shape, TapOK, Untold
  <2>5. \A x \in Records' :
          \/ x \in Records /\ x[1] \in DOMAIN chat
          \/ x = <<Len(chat) + 1, m.head>> /\ r = "ok"
    <3>1. \A x \in Records : x[1] \in DOMAIN chat
      BY <1>1, <1>19, RecordsPlaced
    <3>2. \A x \in RecordsOf(next) : x = <<Len(chat) + 1, m.head>> /\ r = "ok"
      BY <1>16, <1>18
    <3> QED
      BY <1>23, <1>24, <1>27, <3>1, <3>2, RecordsAre DEF Records
  <2>6. ASSUME NEW x \in Records'
        PROVE  /\ chat'[x[1]].shown
               /\ \/ chat'[x[1]].told = x[2]
                  \/ \E u \in DOMAIN tasks' : Redraws(u, x[1]) /\ u.says
               /\ \A u \in DOMAIN tasks' : Redraws(u, x[1]) => u.edit.head = x[2]
    <3>1. CASE x \in Records /\ x[1] \in DOMAIN chat
      BY <1>14, <2>1, <2>2, <2>3, <3>1 DEF Redraws
    <3>2. CASE x = <<Len(chat) + 1, m.head>> /\ r = "ok"
      <4>1. x[1] = Len(chat) + 1 /\ x[2] = m.head /\ x[1] # None
        BY <1>14, <3>2, NoneApart
      <4>2. \A u \in DOMAIN tasks' : ~ Redraws(u, x[1])
        BY <1>14, <2>2, <2>4, <4>1 DEF Redraws
      <4> QED
        BY <1>9, <1>14, <3>2, <4>1, <4>2
    <3> QED
      BY <2>5, <3>1, <3>2
  <2>7. \A u \in DOMAIN tasks' :
          u.at = "edit" /\ u.id # None /\ ~ u.says => chat'[u.id].told = u.edit.head
    BY <1>14, <2>1, <2>2, <2>4
  <2>8. \A id \in DOMAIN chat' : chat'[id].buttons # {} => chat'[id].told = chat'[id].head
    BY <1>9, <1>14, <2>1
  <2> QED
    BY <2>6, <2>7, <2>8 DEF Told, Redraws
<1> QED
  BY <1>25, <1>26, <1>28, <1>29, <1>30, <1>31, <1>32 DEF IInv

----------------------------------------------------------------------------
(* A look claims the messages that no longer hold.                         *)

LEMMA SyncInv ==
  ASSUME IInv, NEW t \in DOMAIN tasks, Sync(t)
  PROVE  IInv'
<1>1. /\ TypeOK /\ t \in Task /\ Shape(t) /\ t.at = "sync" /\ Fine(t) /\ gens \in Nat
      /\ TrueCopy(repo)
  BY Parts DEF Sync, TablesFine
<1>2. /\ t.gone = <<>> /\ t.copy \in Copy /\ TrueCopy(t.copy) /\ t.posts \in Seq(Unsent)
      /\ \A k \in DOMAIN t.posts : t.posts[k].message.retiring = None
      /\ t.then \in {"end", "judge", "finish", "rerender"}
      /\ t.tap = None => t.then = "end" /\ t.id = None
      /\ t.tap # None => t.then # "end"
  <2>1. t.gone = <<>> /\ t.copy \in Copy /\ \A k \in DOMAIN t.posts : t.posts[k].message.retiring = None
    BY <1>1 DEF Shape
  <2>2. /\ t.tap = None => t.then = "end" /\ t.id = None
        /\ t.tap # None => t.then \in {"judge", "finish", "rerender"}
    BY <1>1 DEF Shape
  <2> QED
    BY <1>1, <2>1, <2>2 DEF Fine, Task, Unsent
<1>3. PICK S : S = ClosedIn(t) \cup MovedIn(t)
  OBVIOUS
<1>4. PICK why : why = [id \in S |-> IF id \in ClosedIn(t) THEN "closed" ELSE "moved"]
  OBVIOUS
<1>5. PICK next : next = [t EXCEPT !.at = t.then, !.copy = None, !.posts = <<>>]
  OBVIOUS
<1>6. /\ messages' = Claim(messages, S)
      /\ GoesOn(t, next, Cleanup(Retirees(messages, why), t.posts))
      /\ UNCHANGED <<gh, newer, chat, pressed, delivered, handler, backend, monitored, repo, track,
                     readies, tapping, gens, done, mishaps, budget>>
  BY <1>3, <1>4, <1>5 DEF Sync, outside, github, service, copies, history
<1>7. /\ DOMAIN why = S /\ S \subseteq Standing
      /\ \A id \in S : why[id] \in {"closed", "moved"} /\ (why[id] = "closed" <=> id \in ClosedIn(t))
  BY Zenon, <1>3, <1>4 DEF ClosedIn, MovedIn
<1>8. \A id \in S : /\ id \in Tracked /\ id \in Ids /\ messages[id] \in Message
                    /\ why[id] \in Reasons /\ Closes(messages[id], why[id])
  <2>1. \A id \in Standing : /\ id \in Tracked /\ id \in Ids /\ messages[id] \in Message
                             /\ messages[id].pr \in PRs
    BY Parts DEF Standing, Message
  <2>2. \A id \in S : Closes(messages[id], why[id])
    BY <1>2, <1>7, <2>1, NoneApart DEF Closes, ClosedIn, TrueCopy
  <2> QED
    BY <1>7, <2>1, <2>2 DEF Reasons
<1>9. PICK table : table = messages
  OBVIOUS
<1>10. PICK o : Starting(o, table, why) /\ GoesOn(t, next, One(o))
  <2>1. DOMAIN why \subseteq Ids /\ \A id \in DOMAIN why : table[id] \in Message /\ why[id] \in Reasons
    BY <1>7, <1>8, <1>9
  <2>2. PICK posts : posts = t.posts
    OBVIOUS
  <2>3. posts \in Seq(Unsent) /\ \A k \in DOMAIN posts : posts[k].message.retiring = None
    BY <1>2, <2>2
  <2>4. PICK o : Starting(o, table, why) /\ Cleanup(Retirees(table, why), posts) = One(o)
    BY <2>1, <2>3, StartIs
  <2>5. GoesOn(t, next, Cleanup(Retirees(table, why), posts))
    BY <1>6, <1>9, <2>2, Zenon
  <2>6. GoesOn(t, next, One(o))
    BY <2>4, <2>5, Zenon
  <2> QED
    BY <2>4, <2>6
<1>11. /\ next \in Task /\ next.at = t.then /\ next.then = t.then /\ next.copy = None
       /\ next.posts = <<>> /\ next.gone = <<>> /\ next.id = t.id /\ next.tap = t.tap
       /\ next.record = t.record
  <2>1. t.then \in Steps
    BY <1>1 DEF Task
  <2>2. <<>> \in Seq([pr : PRs \cup {Test}, message : Message])
    OBVIOUS
  <2>3. next \in Task
    BY <1>1, <1>5, <2>1, <2>2 DEF Task
  <2> QED
    BY <1>2, <1>5, <2>3 DEF Task
<1>12. /\ o \in Task /\ o.at # "edit" /\ Distinct(o) /\ Handled(o) = {} /\ Keys(o) = {}
       /\ PairsOf(o) = {} /\ Claimed(o) \subseteq S
       /\ RecordsOf(o) \subseteq {<<id, messages[id].head>> : id \in S}
  BY <1>7, <1>9, <1>10 DEF Starting
<1>13. Calm /\ Grows
  BY <1>6, CalmClaim DEF Calm, Placid
<1>14. /\ messages' \in [Ids -> Message \cup {None}] /\ Tracked' = Tracked \ S
  BY <1>6, ClaimIs
<1>15. TypeOK'
  <2>1. IsABag(tasks') /\ DOMAIN tasks' \subseteq Task
    BY <1>1, <1>10, <1>11, <1>12, TasksTyped
  <2> QED
    BY <1>1, <1>6, <1>14, <2>1 DEF TypeOK
<1>16. TrueCopy(repo)'
  BY <1>1, <1>6, TrueStays, Parts DEF TablesFine
<1>17. /\ Handled(next) = Handled(t) /\ Claimed(next) = {} /\ Claimed(t) = {}
       /\ RecordsOf(next) = {} /\ PairsOf(next) \subseteq PairsOf(t)
       /\ Keys(next) \subseteq Keys(t) /\ Distinct(next)
       /\ Acts(next) => Acts(t)
  <2>1. /\ next.at \in {"end", "judge", "finish", "rerender"} /\ next.gone = <<>>
        /\ next.at # "record" /\ next.at # "edit" /\ t.at # "record"
    BY <1>1, <1>2, <1>11
  <2>2. Acts(next) => Acts(t)
    BY <1>1, <1>2, <1>11 DEF Acts
  <2>3. Handled(next) = Handled(t) /\ Claimed(next) = {} /\ Claimed(t) = {} /\ RecordsOf(next) = {}
        /\ Distinct(next)
    BY <1>2, <1>11, <2>1 DEF Handled, Claimed, RecordsOf, Distinct
  <2>4. PairsOf(next) \subseteq PairsOf(t) /\ Keys(next) \subseteq Keys(t)
    BY <1>11, <2>1, <2>2 DEF PairsOf, Keys
  <2> QED
    BY <2>2, <2>3, <2>4
<1>18. next.at # "end" => Fine(next)'
  <2> SUFFICES ASSUME next.at # "end"
               PROVE  Fine(next)'
    OBVIOUS
  <2>1. t.tap # None /\ next.at \in {"judge", "finish", "rerender"}
    BY <1>2, <1>11
  <2>2. /\ t.id \in {None, t.tap.id} /\ t.id # None /\ t.record \in Message
        /\ Acts(next) => /\ t.tap.button \in {"merge", "rerun_checks", "confirm_force_merge"}
                         /\ t.record.head # 0 \/ t.tap.button = "rerun_checks"
    BY <1>1, <1>2, <1>11, <2>1 DEF Shape, Acts
  <2>3. Shape(next)'
    BY <1>11, <1>17, <2>1, <2>2 DEF Shape, Doing, Acts
  <2>4. TapOK(t.tap)'
    BY <1>1, <1>6, <2>1 DEF Fine, Learnt, TapOK, Undisturbed
  <2>5. Keys(next) \subseteq 1..gens'
    BY <1>1, <1>6, <1>17 DEF Fine
  <2> QED
    BY <1>11, <1>17, <2>1, <2>3, <2>4, <2>5 DEF Fine, Learnt, TrueCopy
<1>19. o.at # "end" => Fine(o)'
  <2>1. \A id \in DOMAIN why : id \in DOMAIN chat' /\ Closes(table[id], why[id])'
    <3>1. \A id \in Tracked : id \in DOMAIN chat
      BY Parts DEF TablesFine
    <3> QED
      BY <1>6, <1>7, <1>8, <1>9, <3>1 DEF Closes, Closed
  <2> QED
    BY <1>10, <2>1, StartFine
<1>20. RecordsOf(next) \cup RecordsOf(o) \subseteq Records
  BY <1>8, <1>12, <1>17, RecordsAre
<1>21. \A x \in PairsOf(next) \cup PairsOf(o) : x \in Pairs \/ x[1] = 0
  BY <1>12, <1>17, PairsAre
<1>22. Handled(t) \subseteq tapping
  BY Parts DEF TablesFine
<1>23. \A id \in Claimed(next) \cup Claimed(o) :
         (id \in Claimed(t) \/ id \in Tracked) /\ id \notin Tracked'
  BY <1>8, <1>12, <1>14, <1>17
<1> HIDE DEF Calm
<1>24. /\ t.at # "edit" /\ (next.at = "edit" => next.id = None) /\ o.at # "edit"
       /\ tapping \ Handled(t) \subseteq tapping'
       /\ next.at # "end" => Handled(next) \subseteq tapping'
       /\ \A id \in Handled(next) : id \in Handled(t) \/ id \notin tapping
       /\ Claimed(next) \cap Claimed(o) = {}
       /\ \A g \in Keys(next) :
            \/ g \in Keys(t)
            \/ /\ \E id \in Tracked : messages[id].gen = g
               /\ \A id \in Tracked' : messages'[id].gen # g
  BY <1>1, <1>2, <1>6, <1>11, <1>12, <1>17, <1>22
<1> QED
  BY <1>10, <1>12, <1>13, <1>15, <1>16, <1>17, <1>18, <1>19, <1>20, <1>21, <1>23, <1>24, CalmGoes

----------------------------------------------------------------------------
(* What starts a goroutine.                                                *)

LEMMA StartedTyped ==
  ASSUME TypeOK, NEW o \in Task, tasks' = tasks (+) One(o)
  PROVE  IsABag(tasks') /\ DOMAIN tasks' \subseteq Task
BY Started DEF TypeOK

LEMMA StartedInv ==
  ASSUME IInv, TypeOK', Calm, TrueCopy(repo)', NEW o, tasks' = tasks (+) One(o),
         o.at # "edit", o.at # "end" => Fine(o)', RecordsOf(o) \subseteq Records,
         \A x \in PairsOf(o) : x \in Pairs \/ x[1] = 0, tapping' = tapping,
         Distinct(o), Handled(o) = {}, Keys(o) = {},
         \A id \in Claimed(o) : id \in Tracked /\ id \notin Tracked',
         \A id \in Tracked' : id \in Tracked /\ messages'[id].gen = messages[id].gen
  PROVE  IInv'
<1>1. PICK N : N = {u \in {o} : u.at # "end"}
  OBVIOUS
<1>2. PICK t : t = NewTask
  OBVIOUS
<1>3. t.at # "edit"
  BY <1>2, NewIs
<1>4. /\ DOMAIN tasks' \subseteq DOMAIN tasks \cup N
      /\ \A u \in DOMAIN tasks : u \in DOMAIN tasks' \/ u = t
  <2>1. IsABag(tasks)
    BY Parts DEF TypeOK
  <2> QED
    BY <1>1, <2>1, Started
<1>5. HeldOnce'
  <2>1. TypeOK /\ HeldOnce /\ AllFine /\ TablesFine /\ done' = done
    BY Parts DEF Calm
  <2> QED
    BY <2>1, HeldStarts
<1>6. \A u \in N : /\ Fine(u)' /\ (u.at = "edit" => u.id = None)
                   /\ RecordsOf(u) \subseteq Records
                   /\ \A x \in PairsOf(u) : x \in Pairs \/ x[1] = 0
  BY <1>1
<1>7. \A u \in DOMAIN tasks' : Handled(u) \subseteq tapping'
  BY <1>1, <1>4, Parts DEF TablesFine
<1> QED
  BY <1>3, <1>4, <1>5, <1>6, <1>7, CalmStep

(* A look that gets a true copy, or took PRTotal for right.                  *)
LEMMA LooksInv ==
  ASSUME IInv, NEW copy \in Copy, Looks(copy), TrueCopy(copy)', mishaps \subseteq mishaps',
         mishaps' \subseteq mishaps \cup {"total"}
  PROVE  IInv'
<1>2. PICK o : o = [NewTask EXCEPT !.at = "apply", !.copy = copy]
  OBVIOUS
<1>3. tasks' = tasks (+) One(o)
  BY <1>2 DEF Looks
<1>4. UNCHANGED <<gh, newer, chat, pressed, delivered, handler, backend, monitored, repo, track,
                  messages, readies, tapping, gens, done, budget>>
  BY DEF Looks, outside, github, service, copies
<1>5. TypeOK /\ TrueCopy(repo)
  BY Parts DEF TablesFine
<1>6. /\ o \in Task /\ o.at = "apply" /\ o.copy = copy /\ o.then = "end" /\ o.posts = <<>>
      /\ o.gone = <<>> /\ o.id = None /\ o.tap = None
  <2>1. "apply" \in Steps
    BY DEF Steps
  <2>2. o \in Task
    BY <1>2, <1>5, <2>1, NewIs DEF Task
  <2> QED
    BY <1>2, <2>2, NewIs DEF NewTask, Task
<1>7. TypeOK'
  <2>1. IsABag(tasks') /\ DOMAIN tasks' \subseteq Task
    BY <1>3, <1>5, <1>6, StartedTyped
  <2> QED
    BY <1>4, <1>5, <2>1 DEF TypeOK
<1>8. Calm
  BY <1>4, CalmWhenUnchanged
<1>9. /\ ~ Acts(o) /\ Claimed(o) = {} /\ Keys(o) = {} /\ Handled(o) = {} /\ RecordsOf(o) = {}
      /\ PairsOf(o) = {} /\ Distinct(o)
  BY <1>6 DEF Acts, Claimed, Keys, Handled, RecordsOf, PairsOf, Distinct
<1>10. Fine(o)'
  <2>1. Shape(o)'
    BY <1>5, <1>6, <1>9 DEF Shape, Untold, Acts
  <2>2. TrueCopy(o.copy)'
    BY <1>6
  <2> QED
    BY <1>6, <1>9, <2>1, <2>2 DEF Fine, Learnt
<1>11. TrueCopy(repo)' /\ tapping' = tapping
       /\ \A id \in Tracked' : id \in Tracked /\ messages'[id].gen = messages[id].gen
  <2>1. repo' = repo /\ TrueCopy(repo)'
    BY <1>4, <1>5, <1>8, TrueGrows DEF Calm, Placid, TrueCopy
  <2> QED
    BY <1>4, <2>1 DEF TrueCopy, Tracked, TrackedIn
<1> QED
  BY <1>3, <1>6, <1>7, <1>8, <1>9, <1>10, <1>11, StartedInv

LEMMA PollInv ==
  ASSUME IInv, Poll
  PROVE  IInv'
<1>1. PICK copy : copy = Fetched
  OBVIOUS
<1>2. TypeOK /\ UNCHANGED <<gh, mishaps>>
  BY Parts DEF Poll, Looks, outside, github
<1>3. copy \in Copy /\ TrueCopy(copy)
  BY <1>1, <1>2, FetchedIs DEF TypeOK, TrueCopy, Closed
<1>4. TrueCopy(copy)' /\ Looks(copy)
  BY <1>1, <1>2, <1>3 DEF Poll, TrueCopy, Closed, Cut
<1> QED
  BY <1>2, <1>3, <1>4, LooksInv

(* The look at the list knows of the PRs what a full one would, and where it  *)
(* takes the list for complete that is not, a mishap is noted.              *)
LEMMA ConditionalLookInv ==
  ASSUME IInv, ConditionalLook
  PROVE  IInv'
<1>1. PICK copy : copy = Looked
  OBVIOUS
<1>2. TypeOK /\ UNCHANGED gh /\ repo \in Copy /\ mishaps \subseteq mishaps'
      /\ mishaps' \subseteq mishaps \cup {"total"}
  BY Parts DEF ConditionalLook, Looks, outside, github, TypeOK
<1>3. /\ Fetched \in Copy /\ Total \in Nat
      /\ \A p \in PRs : Fetched.prs[p] = None => ~ gh[p].open \/ Cut(Fetched)
  BY <1>2, FetchedIs DEF TypeOK
<1>4. copy \in Copy /\ copy.prs = Fetched.prs
  <2>1. repo.total \in Nat
    BY <1>2 DEF Copy
  <2> QED
    BY <1>1, <1>3, <2>1 DEF Looked, Copy
<1>5. Cut(copy)' = Cut(copy)
  BY DEF Cut
<1>6. TrueCopy(copy)'
  <2>1. Cut(Fetched) /\ ~ Cut(copy) => "total" \in mishaps'
    BY <1>1 DEF ConditionalLook
  <2> QED
    BY <1>2, <1>3, <1>4, <1>5, <2>1 DEF TrueCopy, Closed
<1> QED
  BY <1>1, <1>2, <1>4, <1>6, LooksInv DEF ConditionalLook

LEMMA DeliverInv ==
  ASSUME IInv, NEW tap \in pressed, Deliver(tap)
  PROVE  IInv'
<1>1. PICK o : o = [NewTask EXCEPT !.at = "tap", !.then = "ack", !.tap = tap]
  OBVIOUS
<1>2. tasks' = tasks (+) One(o) /\ delivered' = delivered \cup {tap}
  BY <1>1 DEF Deliver
<1>3. UNCHANGED <<gh, newer, chat, pressed, handler, backend, monitored, repo, track,
                  messages, readies, tapping, gens, done, mishaps, budget>>
  BY DEF Deliver, github, service, copies, history
<1>4. TypeOK /\ tap \in Tap /\ TapOK(tap) /\ TrueCopy(repo) /\ tap # None
  BY Parts, NoneApart DEF TablesFine, TypeOK
<1>5. /\ o \in Task /\ o.at = "tap" /\ o.copy = None /\ o.then = "ack" /\ o.posts = <<>>
      /\ o.gone = <<>> /\ o.id = None /\ o.tap = tap /\ o.says = FALSE
  <2>1. "tap" \in Steps /\ "ack" \in Steps
    BY DEF Steps
  <2>2. o \in Task
    BY <1>1, <1>4, <2>1, NewIs DEF Task
  <2> QED
    BY <1>1, <2>2, NewIs DEF NewTask, Task
<1>6. TypeOK'
  <2>1. IsABag(tasks') /\ DOMAIN tasks' \subseteq Task
    BY <1>2, <1>4, <1>5, StartedTyped
  <2> QED
    BY <1>2, <1>3, <1>4, <2>1 DEF TypeOK
<1>7. Calm
  BY <1>3, CalmWhenUnchanged
<1>8. /\ ~ Acts(o) /\ Claimed(o) = {} /\ Keys(o) = {} /\ Handled(o) = {} /\ RecordsOf(o) = {}
      /\ PairsOf(o) \subseteq Pairs /\ Distinct(o)
  <2>1. PairsOf(o) \subseteq {<<tap.gen, tap.head>>}
    BY <1>5 DEF PairsOf, Acts
  <2> QED
    BY <1>5, <2>1, PairsAre DEF Acts, Claimed, Keys, Handled, RecordsOf, Distinct
<1>9. Fine(o)'
  <2>1. Shape(o)'
    BY <1>4, <1>5, <1>8 DEF Shape, Acts, Doing
  <2>2. TapOK(tap)'
    BY <1>3, <1>4 DEF TapOK, Undisturbed
  <2> QED
    BY <1>5, <1>8, <2>1, <2>2 DEF Fine, Learnt, TrueCopy
<1>10. TrueCopy(repo)' /\ tapping' = tapping
       /\ \A id \in Tracked' : id \in Tracked /\ messages'[id].gen = messages[id].gen
  BY <1>3, <1>4, TrueStays DEF Tracked, TrackedIn
<1> QED
  BY <1>2, <1>5, <1>6, <1>7, <1>8, <1>9, <1>10, StartedInv

(* Messages are claimed and a goroutine deletes them, each for its reason.  *)
LEMMA RetireStarts ==
  ASSUME IInv, NEW why, DOMAIN why \subseteq Tracked,
         \A id \in DOMAIN why : why[id] \in Reasons /\ Closes(messages[id], why[id]),
         messages' = Claim(messages, DOMAIN why),
         tasks' = tasks (+) Cleanup(Retirees(messages, why), <<>>),
         UNCHANGED <<gh, newer, chat, pressed, delivered, tapping, gens, done, mishaps>>,
         handler' \in HandlerIs!States, readies' \in Nat, IsABag(budget'),
         backend' \in {"down", "loading", "running", "stopping"}, monitored' \in BOOLEAN,
         repo' \in Copy \cup {None}, TrueCopy(repo)', track' \in [PRs -> Shown \cup {None}]
  PROVE  IInv'
<1>1. TypeOK /\ Tracked \subseteq Ids /\ Tracked \subseteq DOMAIN chat
  BY Parts, Types DEF TablesFine, Tracked, TrackedIn
<1>2. PICK table : table = messages
  OBVIOUS
<1>3. PICK posts : posts = <<>>
  OBVIOUS
<1>4. PICK o : Starting(o, table, why) /\ tasks' = tasks (+) One(o)
  <2>1. DOMAIN why \subseteq Ids /\ \A id \in DOMAIN why : table[id] \in Message /\ why[id] \in Reasons
    BY <1>1, <1>2, Parts
  <2>2. posts \in Seq(Unsent) /\ \A k \in DOMAIN posts : posts[k].message.retiring = None
    BY <1>3
  <2>3. PICK o : Starting(o, table, why) /\ Cleanup(Retirees(table, why), posts) = One(o)
    BY <2>1, <2>2, StartIs
  <2>4. tasks' = tasks (+) Cleanup(Retirees(table, why), posts)
    BY <1>2, <1>3, Zenon
  <2>5. tasks' = tasks (+) One(o)
    BY <2>3, <2>4, Zenon
  <2> QED
    BY <2>3, <2>5
<1>5. /\ o \in Task /\ o.at # "edit" /\ Distinct(o) /\ Handled(o) = {} /\ Keys(o) = {}
      /\ PairsOf(o) = {} /\ Claimed(o) \subseteq DOMAIN why
      /\ RecordsOf(o) \subseteq {<<id, messages[id].head>> : id \in DOMAIN why}
  BY <1>2, <1>4 DEF Starting
<1>6. /\ messages' \in [Ids -> Message \cup {None}] /\ Tracked' = Tracked \ DOMAIN why
      /\ \A id \in Tracked' : id \in Tracked /\ messages'[id] = messages[id]
  BY ClaimIs
<1>7. Calm
  BY CalmClaim
<1>8. TypeOK'
  <2>1. IsABag(tasks') /\ DOMAIN tasks' \subseteq Task
    BY <1>1, <1>4, <1>5, StartedTyped
  <2> QED
    BY <1>1, <1>6, <2>1 DEF TypeOK
<1>9. o.at # "end" => Fine(o)'
  <2>1. \A id \in DOMAIN why : id \in DOMAIN chat' /\ Closes(table[id], why[id])'
    BY <1>1, <1>2 DEF Closes, Closed
  <2> QED
    BY <1>4, <2>1, StartFine
<1>10. RecordsOf(o) \subseteq Records
  BY <1>5, RecordsAre
<1>11. \A id \in Claimed(o) : id \in Tracked /\ id \notin Tracked'
  BY <1>5, <1>6
<1>12. /\ \A id \in Tracked' : id \in Tracked /\ messages'[id].gen = messages[id].gen
       /\ \A x \in PairsOf(o) : x \in Pairs \/ x[1] = 0
       /\ tapping' = tapping
  BY <1>5, <1>6
<1> QED
  BY <1>4, <1>5, <1>7, <1>8, <1>9, <1>10, <1>11, <1>12, StartedInv

LEMMA RemoveRepoInv ==
  ASSUME IInv, RemoveRepo
  PROVE  IInv'
<1>1. PICK why : why = [id \in Tracked |-> "removed"]
  OBVIOUS
<1>2. /\ messages' = Claim(messages, DOMAIN why)
      /\ tasks' = tasks (+) Cleanup(Retirees(messages, why), <<>>)
  BY <1>1 DEF RemoveRepo
<1>3. /\ UNCHANGED <<gh, newer, chat, pressed, delivered, handler, backend, readies, tapping, gens,
                     done, mishaps>>
      /\ monitored' = FALSE /\ repo' = None /\ track' = [p \in PRs |-> None] /\ Input("remove")
  BY DEF RemoveRepo, outside, github, service, history
<1>4. TypeOK /\ DOMAIN why \subseteq Tracked
      /\ \A id \in DOMAIN why : why[id] \in Reasons /\ Closes(messages[id], why[id])
  BY <1>1, Parts DEF Reasons, Closes
<1>5. IsABag(budget') /\ track' \in [PRs -> Shown \cup {None}] /\ TrueCopy(repo)'
  BY <1>3, <1>4, InputBag DEF TrueCopy
<1> QED
  BY <1>2, <1>3, <1>4, <1>5, RetireStarts DEF TypeOK

LEMMA RetiresWaitingInv ==
  ASSUME IInv, RetiresWaiting,
         UNCHANGED <<gh, newer, chat, pressed, delivered, monitored, repo, track, tapping, gens, done,
                     mishaps, budget>>,
         handler' \in HandlerIs!States, readies' \in Nat,
         backend' \in {"down", "loading", "running", "stopping"}
  PROVE  IInv'
<1>1. PICK why : why = [id \in Waiting(messages) |-> messages[id].retiring]
  OBVIOUS
<1>2. /\ messages' = Claim(messages, DOMAIN why)
      /\ tasks' = tasks (+) Cleanup(Retirees(messages, why), <<>>)
  BY <1>1 DEF RetiresWaiting, RetireWaiting
<1>3. TypeOK /\ TablesFine
  BY Parts
<1>4. DOMAIN why \subseteq Tracked
      /\ \A id \in DOMAIN why : why[id] \in Reasons /\ Closes(messages[id], why[id])
  BY <1>1, <1>3, Parts DEF Waiting, Tracked, TablesFine, Message
<1>5. /\ monitored' \in BOOLEAN /\ repo' \in Copy \cup {None} /\ TrueCopy(repo)'
      /\ track' \in [PRs -> Shown \cup {None}] /\ IsABag(budget')
  BY <1>3, TrueStays DEF TypeOK, TablesFine
<1> QED
  BY <1>2, <1>4, <1>5, RetireStarts

(* One message is posted, in a goroutine.                                  *)
LEMMA PostStarts ==
  ASSUME IInv, NEW unsent \in Unsent, unsent.message.retiring = None,
         tasks' = tasks (+) Cleanup(<<>>, <<unsent>>),
         UNCHANGED <<outside, service, copies, messages, readies, tapping, gens, history>>,
         IsABag(budget')
  PROVE  IInv'
<1>1. UNCHANGED <<gh, newer, chat, pressed, delivered, handler, backend, monitored, repo, track,
                  messages, readies, tapping, gens, done, mishaps>>
  BY DEF outside, github, service, copies, history
<1>2. PICK posts : posts = <<unsent>>
  OBVIOUS
<1>3. PICK gone : gone = <<>>
  OBVIOUS
<1>4. posts \in Seq(Unsent) /\ gone \in Seq(Retiree) /\ posts # <<>>
      /\ \A k \in DOMAIN posts : posts[k].message.retiring = None
  BY <1>2, <1>3
<1>5. PICK o \in Task :
        /\ Cleanup(gone, posts) = One(o)
        /\ o.gone = gone /\ o.posts = posts /\ Alike(NewTask, o) /\ o.copy = None
        /\ o.at = IF gone # <<>> THEN "delete" ELSE IF posts # <<>> THEN "post" ELSE "end"
  BY <1>4, CleanupIs
<1>6. /\ o.at = "post" /\ o.gone = <<>> /\ o.posts # <<>> /\ o.copy = None /\ o.tap = None
      /\ o.id = None /\ o.then = "end"
      /\ \A k \in DOMAIN o.posts : o.posts[k].message.retiring = None
  BY <1>3, <1>4, <1>5, NewIs DEF Alike
<1>7. tasks' = tasks (+) One(o)
  <2>1. tasks' = tasks (+) Cleanup(gone, posts)
    BY <1>2, <1>3, Zenon
  <2> QED
    BY <1>5, <2>1, Zenon
<1>8. TypeOK /\ TrueCopy(repo)
  BY Parts DEF TablesFine
<1>9. TypeOK'
  <2>1. IsABag(tasks') /\ DOMAIN tasks' \subseteq Task
    BY <1>5, <1>7, <1>8, StartedTyped
  <2> QED
    BY <1>1, <1>8, <2>1 DEF TypeOK
<1>10. Calm
  BY <1>1, CalmWhenUnchanged
<1>11. /\ ~ Acts(o) /\ Claimed(o) = {} /\ Keys(o) = {} /\ Handled(o) = {} /\ RecordsOf(o) = {}
       /\ PairsOf(o) = {} /\ Distinct(o)
  BY <1>6 DEF Acts, Claimed, Keys, Handled, RecordsOf, PairsOf, Distinct
<1>12. Fine(o)'
  <2>1. Shape(o)'
    BY <1>6, <1>11 DEF Shape, Untold, Acts
  <2> QED
    BY <1>6, <1>11, <2>1 DEF Fine, Learnt, TrueCopy
<1>13. TrueCopy(repo)' /\ tapping' = tapping
       /\ \A id \in Tracked' : id \in Tracked /\ messages'[id].gen = messages[id].gen
  BY <1>1, <1>8, TrueStays DEF Tracked, TrackedIn
<1> QED
  BY <1>6, <1>7, <1>9, <1>10, <1>11, <1>12, <1>13, StartedInv

LEMMA SendTestInv ==
  ASSUME IInv, SendTest
  PROVE  IInv'
<1>1. PICK m : m = [pr |-> Test, event |-> "TEST", status |-> "TEST", head |-> 0, gen |-> 0,
                    buttons |-> {"dismiss"}, asked |-> FALSE, retiring |-> None]
  OBVIOUS
<1>2. PICK unsent : unsent = [pr |-> Test, message |-> m]
  OBVIOUS
<1>3. unsent \in Unsent /\ unsent.message.retiring = None
  BY <1>1, <1>2 DEF Unsent, Message, Buttons
<1>4. IsABag(budget')
  BY Parts, InputBag DEF SendTest
<1>5. /\ tasks' = tasks (+) Cleanup(<<>>, <<unsent>>)
      /\ UNCHANGED <<outside, service, copies, messages, readies, tapping, gens, history>>
  BY <1>1, <1>2 DEF SendTest
<1> QED
  BY <1>3, <1>4, <1>5, PostStarts

LEMMA MergeFailedInv ==
  ASSUME IInv, NEW p \in PRs, MergeFailed(p)
  PROVE  IInv'
<1>1. PICK c : c = repo.prs[p]
  OBVIOUS
<1>2. c \in Listing
  BY <1>1, Parts DEF MergeFailed, TypeOK, Copy
<1>3. PICK m : m = PRMessage(p, "MERGE_FAILED", c)
  OBVIOUS
<1>4. PICK unsent : unsent = [pr |-> p, message |-> m]
  OBVIOUS
<1>5. unsent \in Unsent /\ unsent.message.retiring = None
  BY <1>2, <1>3, <1>4, ButtonsTyped DEF Unsent, Message, PRMessage, Listing
<1>6. IsABag(budget')
  BY Parts, InputBag DEF MergeFailed
<1>7. /\ tasks' = tasks (+) Cleanup(<<>>, <<unsent>>)
      /\ UNCHANGED <<outside, service, copies, messages, readies, tapping, gens, history>>
  BY <1>1, <1>3, <1>4 DEF MergeFailed
<1> QED
  BY <1>5, <1>6, <1>7, PostStarts

----------------------------------------------------------------------------
(* What leaves the goroutines, the records and the chat alone.              *)

LEMMA StillInv ==
  ASSUME IInv, UNCHANGED <<chat, pressed, messages, tapping, tasks, gens, done, mishaps>>,
         gh' \in [PRs -> OnGitHub], newer' \in Nat,
         \A p \in PRs : ~ gh[p].open => ~ gh'[p].open,
         delivered' \subseteq Tap, handler' \in HandlerIs!States, readies' \in Nat,
         backend' \in {"down", "loading", "running", "stopping"}, IsABag(budget'),
         monitored' = monitored, track' = track, repo' \in {repo, None}
  PROVE  IInv'
<1>1. TypeOK /\ TablesFine /\ HeldOnce /\ gens \in Nat
  BY Parts
<1>2. TypeOK'
  BY <1>1 DEF TypeOK
<1>3. Grows
  BY <1>1 DEF Grows
<1>4. Calm
  <2>1. \A id \in Tracked' : Faded(id)
    BY DEF Faded, Tracked, TrackedIn
  <2> QED
    BY <1>3, <2>1 DEF Calm, Placid
<1>5. TrueCopy(repo)'
  <2>1. TrueCopy(repo) /\ TrueCopy(None)
    BY <1>1 DEF TablesFine, TrueCopy
  <2>2. PICK copy : copy = repo'
    OBVIOUS
  <2>3. TrueCopy(copy)'
    BY <1>3, <2>1, <2>2, TrueGrows
  <2> QED
    BY <2>2, <2>3 DEF TrueCopy
<1>6. PICK N : N = {}
  OBVIOUS
<1>7. PICK t : t = NewTask
  OBVIOUS
<1>8. t.at # "edit"
  BY <1>7, NewIs
<1>9. /\ DOMAIN tasks' \subseteq DOMAIN tasks \cup N
      /\ \A u \in DOMAIN tasks : u \in DOMAIN tasks' \/ u = t
      /\ \A u \in N : /\ Fine(u)' /\ (u.at = "edit" => u.id = None)
                      /\ RecordsOf(u) \subseteq Records
                      /\ \A x \in PairsOf(u) : x \in Pairs \/ x[1] = 0
  BY <1>6
<1>10. \A u \in DOMAIN tasks' : Handled(u) \subseteq tapping'
  BY <1>1 DEF TablesFine
<1>11. HeldOnce'
  BY <1>1, HeldStays
<1> QED
  BY <1>2, <1>4, <1>5, <1>8, <1>9, <1>10, <1>11, CalmStep

(* What happens to a PR on GitHub: none that closed opens again.            *)
LEMMA GitHubInv ==
  ASSUME IInv, NEW p \in PRs,
         StatusMoves(p) \/ Push(p) \/ Close(p) \/ Recompute(p) \/ Recomputed(p)
  PROVE  IInv'
<1>1. /\ UNCHANGED <<newer, chat, pressed, messages, tapping, tasks, gens, done, mishaps, delivered,
                     handler, readies, backend, monitored, track, repo>>
  BY DEF StatusMoves, Push, Close, Recompute, Recomputed, Outside, service, copies
<1>2. TypeOK
  BY Parts
<1>3. IsABag(budget')
  BY <1>2, InputBag DEF StatusMoves, Push, Close, Recompute, Recomputed, TypeOK
<1>4. gh[p] \in OnGitHub /\ gh \in [PRs -> OnGitHub]
  BY <1>2 DEF TypeOK
<1>5. \E g \in OnGitHub : gh' = [gh EXCEPT ![p] = g] /\ (~ gh[p].open => ~ g.open)
  <2>1. CASE StatusMoves(p)
    <3>1. PICK s \in Statuses : gh' = [gh EXCEPT ![p].status = s]
      BY <2>1 DEF StatusMoves
    <3>2. PICK g : g = [gh[p] EXCEPT !.status = s]
      OBVIOUS
    <3>3. g \in OnGitHub /\ g.open = gh[p].open
      BY <1>4, <3>2 DEF OnGitHub
    <3> QED
      BY <3>1, <3>2, <3>3
  <2>2. CASE Push(p)
    <3>1. PICK g : g = [gh[p] EXCEPT !.head = @ + 1]
      OBVIOUS
    <3>2. g \in OnGitHub /\ (~ gh[p].open => ~ g.open)
      BY <1>4, <3>1 DEF OnGitHub
    <3> QED
      BY <2>2, <3>1, <3>2 DEF Push
  <2>3. CASE Close(p)
    <3>1. PICK g : g = [gh[p] EXCEPT !.open = FALSE]
      OBVIOUS
    <3>2. g \in OnGitHub /\ (~ gh[p].open => ~ g.open)
      BY <1>4, <3>1 DEF OnGitHub
    <3> QED
      BY <2>3, <3>1, <3>2 DEF Close
  <2>5. CASE Recompute(p)
    <3>1. PICK g : g = [gh[p] EXCEPT !.blip = TRUE]
      OBVIOUS
    <3>2. g \in OnGitHub /\ (~ gh[p].open => ~ g.open)
      BY <1>4, <3>1 DEF OnGitHub
    <3> QED
      BY <2>5, <3>1, <3>2 DEF Recompute
  <2>6. CASE Recomputed(p)
    <3>1. PICK g : g = [gh[p] EXCEPT !.blip = FALSE]
      OBVIOUS
    <3>2. g \in OnGitHub /\ (~ gh[p].open => ~ g.open)
      BY <1>4, <3>1 DEF OnGitHub
    <3> QED
      BY <2>6, <3>1, <3>2 DEF Recomputed
  <2> QED
    BY <2>1, <2>2, <2>3, <2>5, <2>6
<1>6. gh' \in [PRs -> OnGitHub] /\ \A q \in PRs : ~ gh[q].open => ~ gh'[q].open
  BY <1>4, <1>5
<1> QED
  BY <1>1, <1>2, <1>3, <1>6, StillInv DEF TypeOK

(* Another PR opens or closes.                                             *)
LEMMA OthersInv ==
  ASSUME IInv, OtherOpens \/ OtherCloses
  PROVE  IInv'
<1>1. /\ UNCHANGED <<gh, chat, pressed, messages, tapping, tasks, gens, done, mishaps, delivered,
                     handler, readies, backend, monitored, track, repo>>
  BY DEF OtherOpens, OtherCloses, Outside, service, copies
<1>2. TypeOK
  BY Parts
<1>3. newer' \in Nat /\ IsABag(budget')
  <2>1. IsABag(budget) /\ newer \in Nat
    BY <1>2 DEF TypeOK
  <2>2. IsABag(budget')
    BY <1>2, InputBag DEF OtherOpens, OtherCloses
  <2>3. newer' = newer + 1 \/ (newer > 0 /\ newer' = newer - 1)
    BY DEF OtherOpens, OtherCloses
  <2> QED
    BY <2>1, <2>2, <2>3
<1> QED
  BY <1>1, <1>2, <1>3, StillInv DEF TypeOK

LEMMA HandlerTyped ==
  ASSUME HandlerIs!Opens \/ HandlerIs!Dies \/ HandlerIs!AnnounceReady \/ HandlerIs!AnnounceDown
           \/ HandlerIs!Restarts
  PROVE  handler' \in HandlerIs!States
BY DEF HandlerIs!Opens, HandlerIs!Dies, HandlerIs!AnnounceReady, HandlerIs!AnnounceDown,
       HandlerIs!Restarts, HandlerIs!States, HandlerIs!Gone

LEMMA ServiceInv ==
  ASSUME IInv, HandlerUp \/ HandlerDown \/ AnnounceDown \/ Start \/ Stop \/ Stopped
  PROVE  IInv'
<1>1. UNCHANGED <<gh, newer, chat, pressed, messages, tapping, tasks, gens, done, mishaps, monitored,
                  track>>
  BY DEF HandlerUp, HandlerDown, AnnounceDown, Start, Stop, Stopped, outside, github, copies, history
<1>2. TypeOK
  BY Parts
<1>3. IsABag(budget')
  BY <1>2, InputBag DEF HandlerUp, HandlerDown, AnnounceDown, Start, Stop, Stopped, TypeOK
<1>4. handler' \in HandlerIs!States
  BY <1>2, HandlerTyped DEF HandlerUp, HandlerDown, AnnounceDown, Start, Stop, Stopped, TypeOK
<1>5. delivered' \in {delivered, {}} /\ readies' \in {readies, 0} /\ repo' \in {repo, None}
      /\ backend' \in {backend, "loading", "stopping", "down"}
  BY DEF HandlerUp, HandlerDown, AnnounceDown, Start, Stop, Stopped, outside, github, copies
<1> QED
  BY <1>1, <1>2, <1>3, <1>4, <1>5, StillInv DEF TypeOK

LEMMA ReadyInv ==
  ASSUME IInv, AnnounceReady \/ SetChannel
  PROVE  IInv'
<1>1. UNCHANGED <<gh, newer, chat, pressed, delivered, tapping, gens, done, mishaps, monitored,
                  track, repo, budget>>
  BY DEF AnnounceReady, SetChannel, outside, github, copies, history
<1>2. TypeOK
  BY Parts
<1>3. handler' \in HandlerIs!States
  BY <1>2, HandlerTyped DEF AnnounceReady, SetChannel, TypeOK
<1>4. readies' \in {readies, readies + 1} /\ backend' \in {backend, "running"}
      /\ (RetiresWaiting \/ UNCHANGED <<messages, tasks>>)
  BY DEF AnnounceReady, SetChannel
<1>5. readies' \in Nat /\ backend' \in {"down", "loading", "running", "stopping"}
  BY <1>2, <1>4 DEF TypeOK
<1>6. CASE RetiresWaiting
  BY <1>1, <1>3, <1>5, <1>6, RetiresWaitingInv
<1>7. CASE UNCHANGED <<messages, tasks>>
  BY <1>1, <1>2, <1>3, <1>5, <1>7, StillInv DEF TypeOK
<1> QED
  BY <1>4, <1>6, <1>7

(* A crash: the goroutines are gone, and nothing is held but by a record.    *)
LEMMA CrashInv ==
  ASSUME IInv, Crash
  PROVE  IInv'
<1>1. /\ TypeOK /\ AllFine /\ TablesFine /\ KeysDiffer /\ ActsOnce /\ Agreed
      /\ OneMessagePerPR /\ MergesPinned /\ done \in Seq(Range(done)) /\ gens \in Nat
  BY Parts
<1>2. /\ UNCHANGED <<gh, newer, chat, pressed, delivered, handler, monitored, repo, track, messages,
                     readies, gens, done>>
      /\ tasks' = EmptyBag /\ tapping' = {} /\ mishaps' = mishaps \cup {"crash"}
      /\ backend' = "down" /\ Input("crash")
  BY DEF Crash, outside, github, copies
<1>3. IsABag(tasks') /\ DOMAIN tasks' = {}
  BY <1>2 DEF EmptyBag, SetToBag, IsABag
<1>4. TypeOK'
  <2>1. IsABag(budget')
    BY <1>1, <1>2, InputBag
  <2> QED
    BY <1>1, <1>2, <1>3, <2>1 DEF TypeOK
<1>5. Placid /\ TrueCopy(repo)'
  <2>1. Grows
    BY <1>1, <1>2 DEF Grows
  <2>2. \A id \in Tracked' : Faded(id)
    BY <1>2 DEF Faded, Tracked, TrackedIn
  <2>3. TrueCopy(repo)'
    BY <1>1, <1>2, TrueStays DEF TablesFine
  <2> QED
    BY <1>2, <2>1, <2>2, <2>3 DEF Placid
<1>6. AllFine' /\ HeldOnce' /\ TablesFine'
  BY <1>3, <1>5, CalmTables DEF AllFine, HeldOnce
<1>7. OneMessagePerPR' /\ KeysDiffer' /\ ActsOnce' /\ done' \in Seq(Range(done'))
  BY <1>1, <1>2 DEF OneMessagePerPR, KeysDiffer, ActsOnce, Standing, Tracked, TrackedIn
<1>8. Agreed'
  <2>1. Pairs' \subseteq Pairs
    <3>1. UNION {PairsOf(t) : t \in DOMAIN tasks'} = {}
      BY <1>3
    <3>2. TablePairs' = TablePairs
      BY <1>2 DEF TablePairs, Tracked, TrackedIn
    <3> QED
      BY <3>1, <3>2 DEF Pairs
  <2> QED
    BY <1>1, <1>2, <2>1 DEF Agreed
<1>9. Told' /\ MergesPinned'
  BY <1>1, <1>2 DEF Told, Undisturbed, MergesPinned
<1> QED
  BY <1>4, <1>6, <1>7, <1>8, <1>9 DEF IInv

----------------------------------------------------------------------------
(* What the reader does.                                                   *)

LEMMA ReaderInv ==
  ASSUME IInv, TypeOK',
         UNCHANGED <<gh, newer, messages, tapping, tasks, gens, done, mishaps, repo>>,
         DOMAIN chat' = DOMAIN chat,
         \A id \in DOMAIN chat :
           /\ chat'[id].told = chat[id].told /\ chat'[id].head = chat[id].head
           /\ chat'[id].gen = chat[id].gen /\ chat'[id].buttons = chat[id].buttons
           /\ chat'[id].shown = chat[id].shown,
         \A tap \in pressed' : tap \in pressed \/ (TapOK(tap) /\ <<tap.gen, tap.head>> \in Pairs)
  PROVE  IInv'
<1>1. /\ TypeOK /\ AllFine /\ TablesFine /\ HeldOnce /\ KeysDiffer /\ ActsOnce /\ Agreed /\ Told
      /\ OneMessagePerPR /\ MergesPinned /\ done \in Seq(Range(done)) /\ gens \in Nat
  BY Parts
<1>2. PICK N : N = {}
  OBVIOUS
<1>3. PICK t : t = NewTask
  OBVIOUS
<1>4. t.at # "edit"
  BY <1>3, NewIs
<1>5. /\ DOMAIN tasks' \subseteq DOMAIN tasks \cup N
      /\ \A u \in DOMAIN tasks : u \in DOMAIN tasks' \/ u = t
  OBVIOUS
<1>6. Grows
  BY <1>1 DEF Grows
<1>7. AllFine'
  <2>1. gens' \in Nat /\ \A u \in N : Fine(u)'
    BY <1>1, <1>2
  <2> QED
    BY <1>1, <1>5, <1>6, <2>1, FineStep
<1>8. TablesFine'
  <2>1. \A id \in Tracked' : id \in DOMAIN chat' /\ Closes(messages[id], messages[id].retiring)'
    BY <1>1 DEF TablesFine, Tracked, TrackedIn, Closes, Closed
  <2>2. \A tap \in pressed' : TapOK(tap)'
    BY <1>1 DEF TablesFine, TapOK, Undisturbed
  <2>3. \A id \in DOMAIN chat' : DrawnOK(chat[id])'
    BY <1>1 DEF TablesFine, DrawnOK
  <2>4. TrueCopy(repo)' /\ \A u \in DOMAIN tasks' : Handled(u) \subseteq tapping'
    BY <1>1, TrueStays DEF TablesFine
  <2> QED
    BY <2>1, <2>2, <2>3, <2>4 DEF TablesFine
<1>9. Tracked' = Tracked
  BY DEF Tracked, TrackedIn
<1>10. Agreed'
  <2>1. (\A x \in Pairs : x[1] \in Nat) /\ gens' \in Nat /\ gens <= gens'
    BY <1>1, PairsTyped
  <2>2. PICK new : new = {}
    OBVIOUS
  <2>3. /\ \A id \in Tracked' : \/ <<messages'[id].gen, messages'[id].head>> \in Pairs \cup new
                                \/ messages'[id].gen = 0
        /\ \A tap \in pressed' : <<tap.gen, tap.head>> \in Pairs
        /\ \A id \in DOMAIN chat' : \/ <<chat'[id].gen, chat'[id].head>> \in Pairs \cup new
                                    \/ chat'[id].gen = 0
    BY <1>9, PairsAre
  <2>4. /\ \A x \in new : x[1] = gens + 1 /\ gens' = gens + 1 /\ \A y \in new : x[2] = y[2]
        /\ \A u \in N : \A x \in PairsOf(u) : x \in Pairs \/ x[1] = 0 \/ x \in new
    BY <1>2, <2>2
  <2> QED
    BY <1>1, <1>5, <2>1, <2>3, <2>4, AgreedStep
<1>11. Told'
  <2>1. \A u \in N : (u.at = "edit" => u.id = None) /\ RecordsOf(u) \subseteq Records
    BY <1>2
  <2>2. \A id \in Tracked' : <<id, messages'[id].head>> \in Records
    BY <1>9, RecordsAre
  <2>3. Undisturbed' => \A x \in Records' : x \in Records => chat'[x[1]].shown
    <3>1. \A x \in Records : x[1] \in DOMAIN chat
      BY <1>1, RecordsPlaced
    <3> QED
      BY <1>1, <3>1 DEF Told, Undisturbed
  <2>4. \A id \in DOMAIN chat : /\ chat'[id].told = chat[id].told
                                /\ chat'[id].head = chat[id].head
                                /\ chat'[id].buttons # {} => chat[id].buttons # {}
    OBVIOUS
  <2>5. mishaps \subseteq mishaps'
    OBVIOUS
  <2> QED
    BY <1>1, <1>4, <1>5, <2>1, <2>2, <2>3, <2>4, <2>5, ToldStep, CalmMishaps
<1>12. HeldOnce'
  BY <1>1, HeldStays
<1>13. OneMessagePerPR' /\ KeysDiffer' /\ ActsOnce' /\ MergesPinned' /\ done' \in Seq(Range(done'))
  BY <1>1, <1>9 DEF OneMessagePerPR, KeysDiffer, ActsOnce, MergesPinned, Undisturbed, Standing
<1> QED
  BY <1>7, <1>8, <1>10, <1>11, <1>12, <1>13 DEF IInv

LEMMA AgesInv ==
  ASSUME IInv, NEW id \in Ids, Ages(id)
  PROVE  IInv'
<1>1. /\ id \in DOMAIN chat /\ Input("age")
      /\ UNCHANGED <<gh, newer, pressed, delivered, mishaps, handler, backend, monitored, repo, track,
                     messages, readies, tapping, tasks, gens, done>>
  BY DEF Ages, github, Outside, service, copies
<1>2. TypeOK /\ chat[id] \in InChat /\ TablesFine
  BY <1>1, Parts, Types
<1>3. PICK c : c = [chat[id] EXCEPT !.old = TRUE]
  OBVIOUS
<1>4. /\ c \in InChat /\ c.told = chat[id].told /\ c.head = chat[id].head /\ c.gen = chat[id].gen
      /\ c.buttons = chat[id].buttons /\ c.shown = chat[id].shown
  BY <1>2, <1>3 DEF InChat
<1>5. PICK now : now = [chat EXCEPT ![id] = c]
  OBVIOUS
<1>6. chat' = now
  BY <1>3, <1>5 DEF Ages
<1>7. /\ now \in Seq(InChat) /\ Len(now) = Len(chat) /\ DOMAIN now = DOMAIN chat
      /\ now[id] = c /\ \A j \in DOMAIN chat : j # id => now[j] = chat[j]
  <2>1. id \in DOMAIN chat /\ TypeOK /\ c \in InChat
    BY <1>1, <1>2, <1>4
  <2>2. now \in Seq(InChat)
    BY ONLY <1>5, <2>1, ChatExcept
  <2>3. Len(now) = Len(chat) /\ DOMAIN now = DOMAIN chat
    BY ONLY <1>5, <2>1, ChatExcept
  <2>4. now[id] = c
    BY ONLY <1>5, <2>1, ChatExcept
  <2>5. \A j \in DOMAIN chat : j # id => now[j] = chat[j]
    BY ONLY <1>5, <2>1, ChatExcept
  <2> QED
    BY <2>2, <2>3, <2>4, <2>5
<1>8. TypeOK'
  <2>1. IsABag(budget')
    BY <1>1, <1>2, InputBag
  <2> QED
    BY <1>1, <1>2, <1>6, <1>7, <2>1 DEF TypeOK
<1>9. \A j \in DOMAIN chat :
        /\ chat'[j].told = chat[j].told /\ chat'[j].head = chat[j].head
        /\ chat'[j].gen = chat[j].gen /\ chat'[j].buttons = chat[j].buttons
        /\ chat'[j].shown = chat[j].shown
  BY <1>4, <1>6, <1>7
<1>10. \A tap \in pressed' : tap \in pressed
  BY <1>1
<1> QED
  BY <1>1, <1>6, <1>7, <1>8, <1>9, <1>10, ReaderInv

LEMMA PressInv ==
  ASSUME IInv, NEW id \in Ids, Press(id)
  PROVE  IInv'
<1>1. /\ id \in DOMAIN chat /\ Input("tap")
      /\ UNCHANGED <<gh, newer, chat, delivered, mishaps, handler, backend, monitored, repo, track,
                     messages, readies, tapping, tasks, gens, done>>
  BY DEF Press, github, Outside, service, copies
<1>2. TypeOK /\ chat[id] \in InChat /\ TablesFine /\ Told
  BY <1>1, Parts, Types
<1>3. PICK b \in chat[id].buttons, n \in 1..MaxPressed :
        pressed' = pressed \cup {[id |-> id, gen |-> chat[id].gen, button |-> b,
                                  head |-> chat[id].head, told |-> chat[id].told,
                                  receipt |-> n]}
  BY DEF Press
<1>4. PICK tap : tap = [id |-> id, gen |-> chat[id].gen, button |-> b,
                        head |-> chat[id].head, told |-> chat[id].told, receipt |-> n]
  OBVIOUS
<1>5. tap \in Tap
  BY <1>2, <1>3, <1>4 DEF Tap, InChat
<1>6. TapOK(tap) /\ <<tap.gen, tap.head>> \in Pairs
  <2>1. tap.id = id /\ tap.gen = chat[id].gen /\ tap.head = chat[id].head /\ tap.told = chat[id].told
    BY <1>4
  <2>2. chat[id].gen > 0
    BY <1>1, <1>2, <1>3 DEF TablesFine, DrawnOK
  <2>3. Undisturbed => chat[id].told = chat[id].head
    BY <1>1, <1>2, <1>3 DEF Told
  <2> QED
    BY <1>1, <2>1, <2>2, <2>3, PairsAre DEF TapOK
<1>7. pressed' = pressed \cup {tap}
  BY <1>3, <1>4
<1>8. TypeOK'
  <2>1. IsABag(budget')
    BY <1>1, <1>2, InputBag
  <2> QED
    BY <1>1, <1>2, <1>5, <1>7, <2>1 DEF TypeOK
<1> QED
  BY <1>1, <1>6, <1>7, <1>8, ReaderInv

----------------------------------------------------------------------------
(* A message drawn anew.                                                   *)

(* No other goroutine redraws the message t handles a tap on.               *)
LEMMA RedrawsAlone ==
  ASSUME IInv, NEW t \in DOMAIN tasks, t.tap # None, t.id # None
  PROVE  /\ tasks[t] = 1
         /\ \A u \in DOMAIN tasks : u # t => ~ Redraws(u, t.id)
<1>1. Handled(t) = {t.id}
  BY DEF Handled
<1>2. tasks[t] = 1 /\ \A u \in DOMAIN tasks : u # t => Handled(u) \cap Handled(t) = {}
  BY <1>1, OneOrNone, Parts
<1>3. \A u : Redraws(u, t.id) => t.id \in Handled(u)
  BY DEF Redraws, Handled
<1> QED
  BY <1>1, <1>2, <1>3

LEMMA RedrawInv ==
  ASSUME IInv, NEW t \in DOMAIN tasks, t.at \in {"rerender", "ask"}, t.id \in Tracked,
         NEW m \in Message, m.pr = messages[t.id].pr, m.retiring = messages[t.id].retiring,
         m.gen = gens + 1, NEW says \in BOOLEAN, ~ says => m.head = messages[t.id].head,
         NEW card \in InChat, card.shown, card.gen = m.gen, card.head = m.head, card.told = m.head,
         NEW next, next = [t EXCEPT !.at = "edit", !.says = says, !.edit = card],
         messages' = [messages EXCEPT ![t.id] = m], gens' = gens + 1, GoesOn(t, next, EmptyBag),
         UNCHANGED <<tapping, budget>>, NoCall
  PROVE  IInv'
<1>1. /\ TypeOK /\ AllFine /\ TablesFine /\ HeldOnce /\ KeysDiffer /\ ActsOnce /\ Agreed /\ Told
      /\ OneMessagePerPR /\ MergesPinned /\ done \in Seq(Range(done)) /\ gens \in Nat
      /\ t \in Task /\ Shape(t) /\ Fine(t)
  BY Parts
<1>2. UNCHANGED <<gh, newer, chat, pressed, delivered, handler, backend, monitored, repo, track,
                  readies, done, mishaps>>
  BY DEF NoCall, Unseen, github, copies
<1>3. /\ t.tap # None /\ t.id # None /\ t.gone = <<>> /\ t.posts = <<>> /\ t.id = t.tap.id
      /\ t.id \in Ids
  <2>1. t.tap # None /\ t.id # None
    BY <1>1 DEF Shape, Doing, Untold
  <2> QED
    BY <1>1, <2>1 DEF Shape, Tracked, TrackedIn
<1>4. /\ next \in Task /\ next.at = "edit" /\ next.says = says /\ next.edit = card
      /\ next.tap = t.tap /\ next.id = t.id /\ next.gone = <<>> /\ next.posts = <<>>
      /\ next.copy = t.copy
  <2>1. "edit" \in Steps
    BY DEF Steps
  <2>2. next \in Task
    BY <1>1, <2>1 DEF Task
  <2> QED
    BY <1>1, <1>3, <2>2 DEF Task
<1>5. /\ messages' \in [Ids -> Message \cup {None}] /\ messages'[t.id] = m
      /\ \A id \in Ids : id # t.id => messages'[id] = messages[id]
  BY <1>1, <1>3 DEF TypeOK
<1>6. /\ Tracked' = Tracked
      /\ \A id \in Tracked : \/ id = t.id /\ messages'[id] = m
                             \/ id # t.id /\ messages'[id] = messages[id]
  BY <1>5, NoneApart DEF Tracked, TrackedIn
<1>7. PICK o : o = NewTask
  OBVIOUS
<1>8. GoesOn(t, next, One(o)) /\ o.at = "end" /\ IsABag(tasks)
  BY <1>1, <1>7, GoesAlone, NewIs DEF TypeOK
<1>9. PICK N : N = {next}
  OBVIOUS
<1>10. /\ DOMAIN tasks' \subseteq DOMAIN tasks \cup N
       /\ \A u \in DOMAIN tasks : u \in DOMAIN tasks' \/ u = t
       /\ \A u \in DOMAIN tasks' : u = next \/ (u \in DOMAIN tasks /\ u # t)
  <2>1. tasks[t] = 1
    BY <1>3, RedrawsAlone
  <2> QED
    BY <1>4, <1>8, <1>9, <2>1, Went
<1>11. /\ Handled(next) = Handled(t) /\ Claimed(next) = {} /\ Keys(next) = {}
       /\ RecordsOf(next) = {} /\ Distinct(next) /\ ~ Acts(next)
       /\ PairsOf(next) = {<<t.tap.gen, t.tap.head>>, <<gens + 1, m.head>>}
       /\ <<t.tap.gen, t.tap.head>> \in PairsOf(t)
  BY <1>3, <1>4 DEF Handled, Claimed, Keys, RecordsOf, Distinct, PairsOf, Acts
<1>12. TypeOK'
  <2>1. IsABag(tasks') /\ DOMAIN tasks' \subseteq Task
    BY <1>1, <1>4, <1>7, <1>8, TasksTyped, NewIs
  <2> QED
    BY <1>1, <1>2, <1>5, <2>1 DEF TypeOK
<1>13. Grows /\ gens' \in Nat
  BY <1>1, <1>2 DEF Grows
<1>14. AllFine'
  <2>1. Shape(next)'
    BY <1>3, <1>4, <1>11, <1>1 DEF Shape, Doing
  <2>2. TapOK(next.tap)' /\ TrueCopy(next.copy)'
    BY <1>1, <1>2, <1>3, <1>4, TrueKeeps DEF Fine, TapOK, Undisturbed
  <2>3. DrawnOK(card) /\ card.told = card.head
    BY <1>1 DEF DrawnOK
  <2>4. Fine(next)'
    BY <1>4, <1>11, <2>1, <2>2, <2>3 DEF Fine, Learnt, DrawnOK
  <2>5. \A u \in N : Fine(u)'
    BY <1>9, <2>4
  <2> QED
    BY <1>1, <1>10, <1>13, <2>5, FineStep
<1>15. TablesFine'
  <2>1. \A id \in Tracked' : id \in DOMAIN chat' /\ Closes(messages[id], messages[id].retiring)'
    BY <1>1, <1>2, <1>6 DEF TablesFine, Closes, Closed
  <2>2. TrueCopy(repo)' /\ (\A tap \in pressed' : TapOK(tap)') /\ (\A id \in DOMAIN chat' : DrawnOK(chat[id])')
    BY <1>1, <1>2, TrueStays DEF TablesFine, TapOK, Undisturbed, DrawnOK
  <2>3. \A u \in DOMAIN tasks' : Handled(u) \subseteq tapping'
    BY <1>1, <1>10, <1>11 DEF TablesFine
  <2> QED
    BY <2>1, <2>2, <2>3 DEF TablesFine
<1>16. HeldOnce'
  <2>1. \A id \in Tracked' : \/ messages'[id].gen \notin 1..gens
                             \/ id \in Tracked /\ messages'[id].gen = messages[id].gen
    BY <1>1, <1>6
  <2>2. Handled(o) = {} /\ Keys(o) = {} /\ Claimed(o) = {} /\ Distinct(o)
    BY <1>7, NewHolds
  <2> QED
    BY <1>1, <1>2, <1>6, <1>8, <1>11, <2>1, <2>2, HeldGoes
<1>17. KeysDiffer'
  <2>1. \A id \in Tracked : messages[id].gen \in Nat /\ messages[id].gen <= gens
    BY <1>1, Parts DEF KeysDiffer, Message
  <2>2. \A i \in DOMAIN done : done[i].gen \in 1..gens
    BY <1>1 DEF KeysDiffer
  <2>3. \A id, other \in Tracked' :
          messages'[id].gen = messages'[other].gen => id = other \/ messages'[id].gen = 0
    BY <1>1, <1>6, <2>1 DEF KeysDiffer
  <2>4. \A id \in Tracked' : messages'[id].gen <= gens'
    BY <1>1, <1>6, <2>1
  <2>5. \A id \in Tracked' : \A i \in DOMAIN done' : messages'[id].gen # done'[i].gen
    BY <1>1, <1>2, <1>6, <2>2 DEF KeysDiffer
  <2>6. \A i \in DOMAIN done' : done'[i].gen \in 1..gens'
    BY <1>1, <1>2, <2>2
  <2> QED
    BY <2>3, <2>4, <2>5, <2>6 DEF KeysDiffer
<1>18. OneMessagePerPR' /\ ActsOnce' /\ MergesPinned' /\ done' \in Seq(Range(done'))
  <2>1. OneMessagePerPR'
    BY <1>1, <1>6, StandKept
  <2> QED
    BY <1>1, <1>2, <2>1 DEF ActsOnce, MergesPinned, Undisturbed
<1>19. Agreed'
  <2>1. (\A x \in Pairs : x[1] \in Nat) /\ gens <= gens'
    BY <1>1, PairsTyped
  <2>2. PICK new : new = {<<gens + 1, m.head>>}
    OBVIOUS
  <2>3. \A id \in Tracked' : \/ <<messages'[id].gen, messages'[id].head>> \in Pairs \cup new
                             \/ messages'[id].gen = 0
    BY <1>6, <2>2, PairsAre
  <2>4. /\ \A tap \in pressed' : <<tap.gen, tap.head>> \in Pairs
        /\ \A id \in DOMAIN chat' : \/ <<chat'[id].gen, chat'[id].head>> \in Pairs \cup new
                                    \/ chat'[id].gen = 0
    BY <1>2, PairsAre
  <2>5. /\ \A x \in new : x[1] = gens + 1 /\ gens' = gens + 1 /\ \A y \in new : x[2] = y[2]
        /\ \A u \in N : \A x \in PairsOf(u) : x \in Pairs \/ x[1] = 0 \/ x \in new
    BY <1>9, <1>11, <2>2, PairsAre
  <2> QED
    BY <1>1, <1>10, <1>13, <2>1, <2>3, <2>4, <2>5, AgreedStep
<1>20. Told'
  <2> SUFFICES ASSUME Undisturbed'
               PROVE  Told'
    BY DEF Told
  <2>1. /\ \A x \in Records :
             /\ chat[x[1]].shown
             /\ \/ chat[x[1]].told = x[2]
                \/ \E u \in DOMAIN tasks : Redraws(u, x[1]) /\ u.says
             /\ \A u \in DOMAIN tasks : Redraws(u, x[1]) => u.edit.head = x[2]
        /\ \A u \in DOMAIN tasks :
             u.at = "edit" /\ u.id # None /\ ~ u.says => chat[u.id].told = u.edit.head
        /\ \A id \in DOMAIN chat : chat[id].buttons # {} => chat[id].told = chat[id].head
    BY <1>1, <1>2 DEF Told, Undisturbed
  <2>2. \A u \in DOMAIN tasks : ~ Redraws(u, t.id)
    BY <1>3, RedrawsAlone DEF Redraws
  <2>3. <<t.id, messages[t.id].head>> \in Records
    BY RecordsAre
  <2>4. chat[t.id].shown /\ chat[t.id].told = messages[t.id].head
    BY <2>1, <2>2, <2>3
  <2>5. \A x \in Records' : \/ x = <<t.id, m.head>>
                            \/ x \in Records /\ x[1] # t.id
    <3>1. \A u \in DOMAIN tasks : \A x \in RecordsOf(u) : x \in Records /\ x[1] \in Claimed(u)
      BY RecordsAre DEF RecordsOf, Claimed
    <3>2. \A u \in DOMAIN tasks : t.id \notin Claimed(u)
      BY ClaimedAlone
    <3>3. \A id \in Tracked' : \/ <<id, messages'[id].head>> = <<t.id, m.head>>
                               \/ <<id, messages'[id].head>> \in Records /\ id # t.id
      BY <1>6, RecordsAre
    <3> QED
      BY <1>10, <1>11, <3>1, <3>2, <3>3 DEF Records
  <2>6. /\ next \in DOMAIN tasks' /\ Redraws(next, t.id)
        /\ \A id : Redraws(next, id) => id = t.id
    <3>1. \A u : u \in DOMAIN tasks' <=> \/ u \in DOMAIN tasks /\ (u # t \/ tasks[t] # 1)
                                         \/ u = next /\ next.at # "end"
                                         \/ u = o /\ o.at # "end"
      <4>1. t \in DOMAIN tasks
        OBVIOUS
      <4> QED
        BY ONLY <1>8, <4>1, Went
    <3>2. next \in DOMAIN tasks'
      BY <1>4, <3>1
    <3> QED
      BY <1>3, <1>4, <3>2 DEF Redraws
  <2>7. ASSUME NEW x \in Records'
        PROVE  /\ chat'[x[1]].shown
               /\ \/ chat'[x[1]].told = x[2]
                  \/ \E u \in DOMAIN tasks' : Redraws(u, x[1]) /\ u.says
               /\ \A u \in DOMAIN tasks' : Redraws(u, x[1]) => u.edit.head = x[2]
    <3>1. CASE x = <<t.id, m.head>>
      <4>1. x[1] = t.id /\ x[2] = m.head
        BY <3>1
      <4>2. \A u \in DOMAIN tasks' : Redraws(u, x[1]) => u.edit.head = x[2]
        BY <1>4, <1>10, <2>2, <4>1
      <4>3. says \/ chat'[x[1]].told = x[2]
        BY <1>2, <2>4, <4>1
      <4> QED
        BY <1>2, <1>4, <2>4, <2>6, <4>1, <4>2, <4>3
    <3>2. CASE x \in Records /\ x[1] # t.id
      <4>1. \A u : Redraws(u, x[1]) => (u \in DOMAIN tasks' <=> u \in DOMAIN tasks)
        BY <1>3, <1>4, <1>10, <3>2, <2>6 DEF Redraws
      <4>2. chat'[x[1]].shown /\ chat'[x[1]].told = chat[x[1]].told
        BY <1>2, <2>1, <3>2
      <4>3. \A u \in DOMAIN tasks' : Redraws(u, x[1]) => u.edit.head = x[2]
        BY <2>1, <3>2, <4>1
      <4>4. \/ chat[x[1]].told = x[2]
            \/ \E u \in DOMAIN tasks' : Redraws(u, x[1]) /\ u.says
        BY <2>1, <3>2, <4>1
      <4> QED
        BY <4>2, <4>3, <4>4
    <3> QED
      BY <2>5, <3>1, <3>2
  <2>8. \A u \in DOMAIN tasks' :
          u.at = "edit" /\ u.id # None /\ ~ u.says => chat'[u.id].told = u.edit.head
    <3>1. ~ next.says => chat'[next.id].told = next.edit.head
      BY <1>2, <1>4, <2>4
    <3> QED
      BY <1>2, <1>10, <2>1, <3>1
  <2>9. \A id \in DOMAIN chat' : chat'[id].buttons # {} => chat'[id].told = chat'[id].head
    BY <1>2, <2>1
  <2> QED
    BY <2>7, <2>8, <2>9 DEF Told, Redraws
<1> QED
  BY <1>12, <1>14, <1>15, <1>16, <1>17, <1>18, <1>19, <1>20 DEF IInv

LEMMA DrawInv ==
  ASSUME IInv, NEW t \in DOMAIN tasks, t.at \in {"rerender", "ask"},
         NEW record, NEW says \in BOOLEAN, Redraw(t, record, says),
         messages[t.id] # None =>
           /\ record \in Message /\ record.pr = messages[t.id].pr
           /\ record.retiring = messages[t.id].retiring
           /\ ~ says => record.head = messages[t.id].head,
         UNCHANGED <<tapping, budget>>, NoCall
  PROVE  IInv'
<1>1. TypeOK /\ t.at \in Doing /\ Shape(t) /\ gens \in Nat
  BY Parts DEF Doing
<1>2. t.id \in Ids
  <2>1. t.tap # None /\ t.tap \in Tap \cup {None} /\ t.id = t.tap.id
    BY <1>1, Parts DEF Shape, Untold, Doing, Task
  <2> QED
    BY <2>1 DEF Tap
<1>3. CASE messages[t.id] = None
  <2>1. Goto(t, "ack") /\ UNCHANGED <<messages, gens>>
    BY <1>3 DEF Redraw
  <2>2. IsABag(budget')
    BY <1>1 DEF TypeOK
  <2> QED
    BY <1>1, <2>1, <2>2, QuietGoto
<1>4. CASE messages[t.id] # None
  <2>1. PICK m : m = [record EXCEPT !.gen = gens + 1]
    OBVIOUS
  <2>2. /\ m \in Message /\ m.gen = gens + 1 /\ m.pr = messages[t.id].pr
        /\ m.retiring = messages[t.id].retiring /\ (~ says => m.head = messages[t.id].head)
        /\ m.head \in Nat /\ m.buttons \in SUBSET Buttons
    BY <1>1, <1>4, <2>1 DEF Message
  <2>3. PICK card : card = [shown |-> TRUE, old |-> FALSE, gen |-> m.gen, buttons |-> m.buttons,
                            head |-> m.head, told |-> m.head]
    OBVIOUS
  <2>4. /\ card \in InChat /\ card.shown /\ card.gen = m.gen /\ card.head = m.head
        /\ card.told = m.head
    BY <1>1, <2>2, <2>3 DEF InChat
  <2>5. PICK next : next = [t EXCEPT !.at = "edit", !.says = says, !.edit = card]
    OBVIOUS
  <2>6. /\ messages' = [messages EXCEPT ![t.id] = m] /\ gens' = gens + 1
        /\ GoesOn(t, next, EmptyBag)
    BY <1>4, <2>1, <2>3, <2>5 DEF Redraw
  <2>7. t.id \in Tracked
    BY <1>2, <1>4 DEF Tracked, TrackedIn
  <2> QED
    BY <2>2, <2>4, <2>5, <2>6, <2>7, RedrawInv
<1> QED
  BY <1>3, <1>4

LEMMA RerenderedIs ==
  ASSUME TypeOK, NEW m \in Message
  PROVE  /\ Rerendered(m) \in Message /\ Rerendered(m).pr = m.pr
         /\ Rerendered(m).retiring = m.retiring
<1>1. PICK c : c = IF repo = None \/ m.pr = Test THEN None ELSE repo.prs[m.pr]
  OBVIOUS
<1>2. c # None => c \in Listing
  BY <1>1 DEF TypeOK, Copy, Message
<1>3. Rerendered(m) = IF c = None THEN [m EXCEPT !.buttons = {"dismiss"}, !.asked = FALSE]
                      ELSE [m EXCEPT !.buttons = ButtonsFor(m.event, c), !.head = c.head,
                                     !.asked = FALSE]
  BY <1>1 DEF Rerendered
<1>4. CASE c = None
  <2>1. PICK n : n = [m EXCEPT !.buttons = {"dismiss"}, !.asked = FALSE]
    OBVIOUS
  <2>2. n \in Message /\ n.pr = m.pr /\ n.retiring = m.retiring
    BY <2>1 DEF Message, Buttons
  <2>3. Rerendered(m) = n
    BY <1>3, <1>4, <2>1
  <2> QED
    BY <2>2, <2>3
<1>5. CASE c # None
  <2>1. PICK buttons : buttons = ButtonsFor(m.event, c)
    OBVIOUS
  <2>2. buttons \subseteq Buttons
    BY <2>1, ButtonsTyped
  <2>3. PICK n : n = [m EXCEPT !.buttons = buttons, !.head = c.head, !.asked = FALSE]
    OBVIOUS
  <2>4. n \in Message /\ n.pr = m.pr /\ n.retiring = m.retiring
    BY <1>2, <1>5, <2>2, <2>3 DEF Message, Listing
  <2>5. Rerendered(m) = n
    BY <1>3, <1>5, <2>1, <2>3
  <2> QED
    BY <2>4, <2>5
<1> QED
  BY <1>4, <1>5

LEMMA RerenderInv ==
  ASSUME IInv, NEW t \in DOMAIN tasks, Rerender(t)
  PROVE  IInv'
<1>1. TypeOK /\ t \in Task /\ t.at \in {"rerender", "ask"} /\ Shape(t)
  BY Parts DEF Rerender
<1>2. PICK m : m = messages[t.id]
  OBVIOUS
<1>3. PICK record : record = IF m = None THEN None ELSE Rerendered(m)
  OBVIOUS
<1>4. PICK says : says = (t.says \/ (m # None /\ Rerendered(m).head # m.head))
  OBVIOUS
<1>5. says \in BOOLEAN
  BY <1>4
<1>6. Redraw(t, record, says) /\ UNCHANGED <<tapping, budget>> /\ NoCall
  BY <1>2, <1>3, <1>4 DEF Rerender
<1>7. m # None => /\ record \in Message /\ record.pr = m.pr /\ record.retiring = m.retiring
                  /\ ~ says => record.head = m.head
  <2> SUFFICES ASSUME m # None
               PROVE  /\ record \in Message /\ record.pr = m.pr /\ record.retiring = m.retiring
                      /\ ~ says => record.head = m.head
    OBVIOUS
  <2>1. m \in Message
    <3>1. t.id \in Ids
      <4>1. t.tap # None /\ t.tap \in Tap \cup {None} /\ t.id = t.tap.id
        BY <1>1, Parts DEF Shape, Untold, Doing, Task, Rerender
      <4> QED
        BY <4>1 DEF Tap
    <3> QED
      BY <1>1, <1>2, <3>1 DEF TypeOK
  <2>2. record = Rerendered(m)
    BY <1>3
  <2> QED
    BY <1>1, <1>4, <2>1, <2>2, RerenderedIs
<1> QED
  BY <1>1, <1>2, <1>5, <1>6, <1>7, DrawInv

LEMMA AskInv ==
  ASSUME IInv, NEW t \in DOMAIN tasks, Ask(t)
  PROVE  IInv'
<1>1. TypeOK /\ t \in Task /\ t.at \in {"rerender", "ask"} /\ Shape(t)
  BY Parts DEF Ask
<1>2. PICK m : m = messages[t.id]
  OBVIOUS
<1>3. PICK record : record = IF m = None THEN None
                             ELSE [m EXCEPT !.buttons = {"cancel", "confirm_force_merge"},
                                            !.asked = TRUE]
  OBVIOUS
<1>4. PICK says \in BOOLEAN : says = FALSE
  OBVIOUS
<1>5. Redraw(t, record, says) /\ UNCHANGED <<tapping, budget>> /\ NoCall
  BY <1>2, <1>3, <1>4 DEF Ask
<1>6. m # None => /\ record \in Message /\ record.pr = m.pr /\ record.retiring = m.retiring
                  /\ record.head = m.head
  <2>1. t.id \in Ids
    <3>1. t.tap # None /\ t.tap \in Tap \cup {None} /\ t.id = t.tap.id
      BY <1>1, Parts DEF Shape, Untold, Doing, Task, Ask
    <3> QED
      BY <3>1 DEF Tap
  <2>2. m \in Message \cup {None}
    BY <1>1, <1>2, <2>1 DEF TypeOK
  <2> QED
    BY <1>3, <2>2 DEF Message, Buttons
<1> QED
  BY <1>1, <1>2, <1>5, <1>6, DrawInv

----------------------------------------------------------------------------
(* The chat shows the message redrawn.                                     *)

LEMMA EditInv ==
  ASSUME IInv, NEW t \in DOMAIN tasks, Edit(t)
  PROVE  IInv'
<1>1. /\ TypeOK /\ AllFine /\ TablesFine /\ HeldOnce /\ KeysDiffer /\ ActsOnce /\ Agreed /\ Told
      /\ OneMessagePerPR /\ MergesPinned /\ done \in Seq(Range(done)) /\ gens \in Nat
      /\ t \in Task /\ Shape(t) /\ Fine(t) /\ t.at = "edit"
  BY Parts DEF Edit
<1>2. PICK id : id = t.tap.id
  OBVIOUS
<1>3. /\ t.tap # None /\ TapOK(t.tap) /\ t.id \in {None, id} /\ id \in DOMAIN chat
      /\ t.gone = <<>> /\ t.posts = <<>> /\ t.edit \in InChat /\ t.edit.shown
      /\ t.id = None => t.edit.buttons = {} /\ ~ t.says
      /\ DrawnOK(t.edit) /\ t.edit.told = t.edit.head /\ id # None
  <2>1. t.tap # None
    BY <1>1 DEF Shape, Untold
  <2>2. TapOK(t.tap) /\ DrawnOK(t.edit) /\ t.edit.told = t.edit.head
    BY <1>1, <2>1 DEF Fine
  <2>3. id \in DOMAIN chat /\ id # None
    BY <1>1, <1>2, <2>2, Types, NoneApart DEF TapOK
  <2> QED
    BY <1>1, <1>2, <2>1, <2>2, <2>3 DEF Shape
<1>4. PICK m : m = chat[id]
  OBVIOUS
<1>5. m \in InChat
  BY <1>1, <1>3, <1>4, Types
<1>6. PICK c : c = [t.edit EXCEPT !.old = m.old, !.told = IF t.says THEN @ ELSE m.told]
  OBVIOUS
<1>7. /\ c \in InChat /\ c.shown /\ c.gen = t.edit.gen /\ c.buttons = t.edit.buttons
      /\ c.head = t.edit.head /\ (t.says => c.told = c.head) /\ (~ t.says => c.told = m.told)
  <2>1. t.edit \in InChat /\ t.edit.shown /\ t.edit.told = t.edit.head
    BY <1>3
  <2>2. PICK told : told = IF t.says THEN t.edit.told ELSE m.told
    OBVIOUS
  <2>3. told \in Nat
    BY <1>5, <2>1, <2>2 DEF InChat
  <2>4. c = [t.edit EXCEPT !.old = m.old, !.told = told]
    BY <1>6, <2>2
  <2>5. /\ c \in InChat /\ c.shown = t.edit.shown /\ c.gen = t.edit.gen
        /\ c.buttons = t.edit.buttons /\ c.head = t.edit.head /\ c.told = told
    BY <1>5, <2>1, <2>3, <2>4 DEF InChat
  <2> QED
    BY <2>1, <2>2, <2>5
<1>8. PICK now : now = IF m.shown THEN [chat EXCEPT ![id] = c] ELSE chat
  OBVIOUS
<1>9. PICK answer : answer = IF m.shown THEN "ok" ELSE "gone"
  OBVIOUS
<1>10. PICK r : Called(now, answer, r, {"edit"}) /\ Goto(t, "ack")
  BY <1>2, <1>4, <1>6, <1>8, <1>9 DEF Edit
<1>11. UNCHANGED <<gh, newer, delivered, backend, monitored, repo, track, readies, done, pressed,
                   messages, tapping, gens>>
  BY DEF Edit, Unseen, github, copies
<1>12. /\ chat' \in {chat, now} /\ mishaps \subseteq mishaps'
       /\ mishaps' \subseteq {"crash", "call", "edit", "total"}
       /\ handler' \in HandlerIs!States /\ IsABag(budget')
       /\ Undisturbed' => chat' = now
  <2>1. PICK what : what = {"edit"}
    OBVIOUS
  <2>2. what \subseteq {"edit"} /\ what # {} /\ Called(now, answer, r, what) /\ TypeOK
    BY <1>1, <1>10, <2>1
  <2>3. /\ chat' \in {chat, now} /\ mishaps \subseteq mishaps'
        /\ mishaps' \subseteq {"crash", "call", "edit", "total"}
        /\ handler' \in HandlerIs!States /\ IsABag(budget')
        /\ Undisturbed' => \/ r = answer /\ chat' = now
                           \/ r = "unavailable" /\ chat' = chat /\ what = {}
    BY ONLY <2>2, CalledIs
  <2> QED
    BY <2>2, <2>3
<1>13. /\ now \in Seq(InChat) /\ Len(now) = Len(chat) /\ DOMAIN now = DOMAIN chat
       /\ m.shown => now[id] = c
       /\ ~ m.shown => now = chat
       /\ \A j \in DOMAIN chat : j # id => now[j] = chat[j]
  <2>1. CASE m.shown
    <3>1. now = [chat EXCEPT ![id] = c] /\ TypeOK /\ c \in InChat /\ id \in DOMAIN chat
      BY <1>1, <1>3, <1>7, <1>8, <2>1
    <3>2. now \in Seq(InChat)
      BY ONLY <3>1, ChatExcept
    <3>3. Len(now) = Len(chat) /\ DOMAIN now = DOMAIN chat
      BY ONLY <3>1, ChatExcept
    <3>4. now[id] = c
      BY ONLY <3>1, ChatExcept
    <3>5. \A j \in DOMAIN chat : j # id => now[j] = chat[j]
      BY ONLY <3>1, ChatExcept
    <3> QED
      BY <2>1, <3>2, <3>3, <3>4, <3>5
  <2>2. CASE ~ m.shown
    BY <1>1, <1>8, <2>2 DEF TypeOK
  <2> QED
    BY <2>1, <2>2
<1>14. PICK next : next = [t EXCEPT !.at = "ack"]
  OBVIOUS
<1>15. /\ next \in Task /\ next.at = "ack" /\ next.tap = t.tap /\ next.id = t.id
       /\ next.gone = <<>> /\ next.posts = <<>> /\ next.copy = t.copy /\ next # t
  <2>1. "ack" \in Steps
    BY DEF Steps
  <2>2. next \in Task
    BY <1>1, <1>14, <2>1 DEF Task
  <2> QED
    BY <1>1, <1>3, <1>14, <2>2 DEF Task
<1>16. PICK o : o = NewTask
  OBVIOUS
<1>17. GoesOn(t, next, One(o)) /\ o.at = "end" /\ IsABag(tasks)
  BY <1>1, <1>10, <1>14, <1>16, GoesAlone, NewIs DEF TypeOK, Goto
<1>18. PICK N : N = {next}
  OBVIOUS
<1>19. /\ DOMAIN tasks' \subseteq DOMAIN tasks \cup N
       /\ \A u \in DOMAIN tasks : u \in DOMAIN tasks' \/ u = t
       /\ \A u \in DOMAIN tasks' : (u \in DOMAIN tasks /\ (u # t \/ tasks[t] # 1)) \/ u = next
  BY <1>17, <1>18, Went
<1>20. /\ Handled(next) = Handled(t) /\ Claimed(next) = {} /\ Keys(next) = {}
       /\ RecordsOf(next) = {} /\ Distinct(next) /\ ~ Acts(next)
       /\ PairsOf(next) \subseteq PairsOf(t) /\ <<c.gen, c.head>> \in PairsOf(t)
  BY <1>1, <1>3, <1>7, <1>15 DEF Handled, Claimed, Keys, RecordsOf, Distinct, PairsOf, Acts
<1>21. TypeOK'
  <2>1. IsABag(tasks') /\ DOMAIN tasks' \subseteq Task
    BY <1>1, <1>15, <1>16, <1>17, TasksTyped, NewIs
  <2> QED
    BY <1>1, <1>11, <1>12, <1>13, <2>1 DEF TypeOK
<1>22. Grows /\ mishaps \subseteq mishaps' /\ DOMAIN chat' = DOMAIN chat
  BY <1>1, <1>11, <1>12, <1>13 DEF Grows
<1>23. AllFine'
  <2>1. Shape(next)'
    BY <1>1, <1>2, <1>3, <1>15, <1>20 DEF Shape, Doing
  <2>2. TapOK(next.tap)'
    BY <1>3, <1>15, <1>22 DEF TapOK, Undisturbed
  <2>3. TrueCopy(next.copy)'
    BY <1>1, <1>11, <1>12, <1>15, TrueKeeps DEF Fine
  <2>4. Fine(next)'
    BY <1>15, <1>20, <2>1, <2>2, <2>3 DEF Fine, Learnt
  <2>5. gens' \in Nat /\ \A u \in N : Fine(u)'
    BY <1>1, <1>11, <1>18, <2>4
  <2> QED
    BY <1>1, <1>19, <1>22, <2>5, FineStep
<1>24. Tracked' = Tracked /\ messages' = messages
  BY <1>11 DEF Tracked, TrackedIn
<1>25. TablesFine'
  <2>1. \A j \in Tracked' : j \in DOMAIN chat' /\ Closes(messages[j], messages[j].retiring)'
    BY <1>1, <1>11, <1>22, <1>24 DEF TablesFine, Closes, Closed
  <2>2. TrueCopy(repo)' /\ \A tap \in pressed' : TapOK(tap)'
    BY <1>1, <1>11, <1>22, TrueStays DEF TablesFine, TapOK, Undisturbed
  <2>3. \A j \in DOMAIN chat' : DrawnOK(chat'[j])
    BY SMTT(30), <1>1, <1>3, <1>7, <1>12, <1>13, <1>22 DEF TablesFine, DrawnOK
  <2>4. \A j \in DOMAIN chat' : DrawnOK(chat[j])'
    BY <2>3 DEF DrawnOK
  <2>5. \A u \in DOMAIN tasks' : Handled(u) \subseteq tapping'
    BY <1>1, <1>11, <1>19, <1>20 DEF TablesFine
  <2> QED
    BY <2>1, <2>2, <2>4, <2>5 DEF TablesFine
<1>26. HeldOnce'
  <2>1. Handled(o) = {} /\ Keys(o) = {} /\ Claimed(o) = {} /\ Distinct(o)
    BY <1>16, NewHolds
  <2> QED
    BY <1>1, <1>11, <1>17, <1>20, <1>24, <2>1, HeldGoes
<1>27. OneMessagePerPR' /\ KeysDiffer' /\ ActsOnce' /\ MergesPinned' /\ done' \in Seq(Range(done'))
  <2>1. OneMessagePerPR'
    BY <1>1, <1>24, StandKept
  <2>2. KeysDiffer' /\ ActsOnce'
    BY <1>1, <1>11, <1>24 DEF KeysDiffer, ActsOnce
  <2> QED
    BY <1>1, <1>11, <1>22, <2>1, <2>2 DEF MergesPinned, Undisturbed
<1>28. Agreed'
  <2>1. (\A x \in Pairs : x[1] \in Nat) /\ gens' \in Nat /\ gens <= gens'
    BY <1>1, <1>11, PairsTyped
  <2>2. PICK new : new = {}
    OBVIOUS
  <2>3. \A j \in Tracked' : \/ <<messages'[j].gen, messages'[j].head>> \in Pairs \cup new
                            \/ messages'[j].gen = 0
    BY <1>24, PairsAre
  <2>4. \A tap \in pressed' : <<tap.gen, tap.head>> \in Pairs
    BY <1>11, PairsAre
  <2>5. \A j \in DOMAIN chat' : \/ <<chat'[j].gen, chat'[j].head>> \in Pairs \cup new
                                \/ chat'[j].gen = 0
    BY <1>12, <1>13, <1>20, <1>22, PairsAre
  <2>6. /\ \A x \in new : x[1] = gens + 1 /\ gens' = gens + 1 /\ \A y \in new : x[2] = y[2]
        /\ \A u \in N : \A x \in PairsOf(u) : x \in Pairs \/ x[1] = 0 \/ x \in new
    BY <1>18, <1>20, <2>2, PairsAre
  <2> QED
    BY <1>1, <1>19, <2>1, <2>3, <2>4, <2>5, <2>6, AgreedStep
<1>29. Told'
  <2> SUFFICES ASSUME Undisturbed'
               PROVE  Told'
    BY DEF Told
  <2>1. /\ \A x \in Records :
             /\ chat[x[1]].shown
             /\ \/ chat[x[1]].told = x[2]
                \/ \E u \in DOMAIN tasks : Redraws(u, x[1]) /\ u.says
             /\ \A u \in DOMAIN tasks : Redraws(u, x[1]) => u.edit.head = x[2]
        /\ \A u \in DOMAIN tasks :
             u.at = "edit" /\ u.id # None /\ ~ u.says => chat[u.id].told = u.edit.head
        /\ \A j \in DOMAIN chat : chat[j].buttons # {} => chat[j].told = chat[j].head
    BY <1>1, <1>22 DEF Told, Undisturbed
  <2>2. chat' = now
    BY <1>12
  <2>3. t.id # None => c.told = c.head
    BY <1>1, <1>3, <1>4, <1>7, <2>1
  <2>4. t.id = None => c.told = m.told /\ c.buttons = {}
    BY <1>3, <1>7
  <2>5. \A x \in Records' : x \in Records /\ x[1] \in DOMAIN chat
    <3>1. \A x \in Records : x[1] \in DOMAIN chat
      BY <1>1, RecordsPlaced
    <3> QED
      BY <1>18, <1>19, <1>20, <1>24, <3>1, RecordsAre DEF Records
  <2>6. \A u \in DOMAIN tasks' : u.at = "edit" => /\ u \in DOMAIN tasks
                                                  /\ t.id # None => u # t /\ u.id # t.id
    <3>1. \A u \in DOMAIN tasks' : u.at = "edit" => /\ u \in DOMAIN tasks
                                                    /\ u # t \/ tasks[t] # 1
      BY <1>15, <1>19
    <3>2. t.id # None => tasks[t] = 1 /\ \A u \in DOMAIN tasks : u # t => ~ Redraws(u, t.id)
      BY <1>3, RedrawsAlone
    <3>3. \A u \in DOMAIN tasks : u.at = "edit" => u.tap # None
      BY <1>1 DEF AllFine, Fine, Shape, Untold
    <3> QED
      BY <3>1, <3>2, <3>3 DEF Redraws
  <2>7. ASSUME NEW x \in Records'
        PROVE  /\ chat'[x[1]].shown
               /\ \/ chat'[x[1]].told = x[2]
                  \/ \E u \in DOMAIN tasks' : Redraws(u, x[1]) /\ u.says
               /\ \A u \in DOMAIN tasks' : Redraws(u, x[1]) => u.edit.head = x[2]
    <3>1. x \in Records /\ x[1] \in DOMAIN chat /\ x[1] # None
      BY <1>1, <2>5, Types, NoneApart
    <3>2. chat'[x[1]].shown
      BY <1>4, <1>7, <1>13, <2>1, <2>2, <3>1
    <3>3. \A u \in DOMAIN tasks' : Redraws(u, x[1]) => u.edit.head = x[2]
      BY <2>1, <2>6, <3>1 DEF Redraws
    <3>4. CASE x[1] = id /\ t.id # None
      <4>1. Redraws(t, x[1])
        BY <1>1, <1>3, <3>4 DEF Redraws
      <4>2. c.told = x[2]
        BY <1>7, <2>1, <2>3, <3>1, <3>4, <4>1
      <4>3. chat'[x[1]] = c
        BY <1>4, <1>13, <2>1, <2>2, <3>1, <3>4
      <4> QED
        BY <3>2, <3>3, <4>2, <4>3
    <3>5. CASE ~ (x[1] = id /\ t.id # None)
      <4>1. ~ Redraws(t, x[1])
        BY <1>3, <3>1, <3>5 DEF Redraws
      <4>2. \A u \in DOMAIN tasks : Redraws(u, x[1]) => u \in DOMAIN tasks'
        BY <1>19, <4>1
      <4>3. chat'[x[1]].told = chat[x[1]].told
        BY <1>4, <1>13, <2>2, <2>4, <3>1, <3>5
      <4>4. \/ chat[x[1]].told = x[2]
            \/ \E u \in DOMAIN tasks' : Redraws(u, x[1]) /\ u.says
        BY <2>1, <3>1, <4>2
      <4> QED
        BY <3>2, <3>3, <4>3, <4>4
    <3> QED
      BY <3>4, <3>5
  <2>8. ASSUME NEW u \in DOMAIN tasks', u.at = "edit", u.id # None, ~ u.says
        PROVE  chat'[u.id].told = u.edit.head
    <3>1. u \in DOMAIN tasks /\ chat[u.id].told = u.edit.head /\ (t.id # None => u.id # id)
      BY <1>3, <2>1, <2>6, <2>8
    <3>2. u.id \in DOMAIN chat
      <4>1. Shape(u) /\ (u.tap # None => TapOK(u.tap))
        BY <1>1, <3>1 DEF AllFine, Fine
      <4> QED
        BY <2>8, <4>1 DEF Shape, TapOK, Untold
    <3> QED
      BY <1>4, <1>13, <2>2, <2>4, <3>1, <3>2
  <2>9. \A j \in DOMAIN chat' : chat'[j].buttons # {} => chat'[j].told = chat'[j].head
    BY <1>4, <1>13, <1>22, <2>1, <2>2, <2>3, <2>4
  <2> QED
    BY <2>7, <2>8, <2>9 DEF Told, Redraws
<1> QED
  BY <1>21, <1>23, <1>25, <1>26, <1>27, <1>28, <1>29 DEF IInv

----------------------------------------------------------------------------
(* The invariant.                                                          *)

LEMMA InitInv == Init => IInv
<1> SUFFICES ASSUME Init
             PROVE  IInv
  OBVIOUS
<1>1. /\ chat = <<>> /\ pressed = {} /\ delivered = {} /\ handler = "down" /\ backend = "running"
      /\ monitored = TRUE /\ repo = Fetched /\ track = [p \in PRs |-> StatusOf(p)]
      /\ messages = [id \in Ids |-> None] /\ readies = 0 /\ tapping = {} /\ tasks = EmptyBag
      /\ gens = 0 /\ done = <<>> /\ mishaps = {} /\ budget \in Budgets
      /\ newer \in Nat
  BY DEF Init
<1>2. gh \in [PRs -> OnGitHub]
  <2>1. \A s \in Statuses, b \in BOOLEAN :
          [open |-> TRUE, status |-> s, blip |-> FALSE, head |-> 1, named |-> b] \in OnGitHub
    BY DEF OnGitHub
  <2> QED
    BY <2>1 DEF Init
<1>3. repo \in Copy /\ TrueCopy(repo) /\ track \in [PRs -> Shown \cup {None}]
  <2>1. \A p \in PRs : StatusOf(p) \in Shown
    BY <1>2, StatusTyped
  <2>2. Fetched \in Copy /\ \A p \in PRs : Fetched.prs[p] = None => ~ gh[p].open \/ Cut(Fetched)
    BY <1>1, <1>2, FetchedIs
  <2>3. PICK c : c = Fetched
    OBVIOUS
  <2>4. c \in Copy /\ \A p \in PRs : c.prs[p] = None => ~ gh[p].open \/ Cut(c)
    BY <2>2, <2>3
  <2>5. TrueCopy(c)
    BY <2>4 DEF TrueCopy, Closed
  <2>6. TrueCopy(repo)
    BY <1>1, <2>3, <2>5
  <2> QED
    BY <1>1, <2>1, <2>2, <2>6
<1>4. IsABag(tasks) /\ DOMAIN tasks = {} /\ IsABag(budget)
  BY <1>1, ConstantsAssumption DEF EmptyBag, SetToBag, IsABag
<1>5. DOMAIN chat = {} /\ DOMAIN done = {} /\ Tracked = {} /\ Standing = {}
  BY <1>1 DEF Tracked, TrackedIn, Standing
<1>6. TypeOK
  <2>1. chat \in Seq(InChat) /\ Len(chat) <= MaxPosts
    BY <1>1, ConstantsAssumption
  <2> QED
    BY <1>1, <1>2, <1>3, <1>4, <2>1 DEF TypeOK, HandlerIs!States
<1>7. AllFine /\ HeldOnce
  BY <1>4 DEF AllFine, HeldOnce
<1>8. TablesFine
  BY <1>1, <1>3, <1>4, <1>5 DEF TablesFine
<1>9. KeysDiffer /\ ActsOnce /\ OneMessagePerPR /\ MergesPinned /\ done \in Seq(Range(done))
  BY <1>1, <1>5 DEF KeysDiffer, ActsOnce, OneMessagePerPR, MergesPinned
<1>10. Records = {} /\ Pairs = {}
  <2>1. UNION {RecordsOf(t) : t \in DOMAIN tasks} = {} /\ UNION {PairsOf(t) : t \in DOMAIN tasks} = {}
    BY <1>4
  <2>2. TablePairs = {}
    BY <1>1, <1>5 DEF TablePairs
  <2> QED
    BY <1>5, <2>1, <2>2 DEF Records, Pairs
<1>11. Agreed
  BY <1>10 DEF Agreed
<1>12. Told
  BY <1>4, <1>5, <1>10 DEF Told
<1> QED
  BY <1>6, <1>7, <1>8, <1>9, <1>11, <1>12 DEF IInv

(* One step of a goroutine.                                                *)
LEMMA GoesInv ==
  ASSUME IInv, NEW t \in DOMAIN tasks, Goes(t)
  PROVE  IInv'
<1>1. CASE Apply(t)
  BY <1>1, ApplyInv
<1>2. CASE Sync(t)
  BY <1>2, SyncInv
<1>3. CASE Delete(t)
  BY <1>3, DeleteInv
<1>4. CASE Strip(t)
  BY <1>4, StripInv
<1>5. CASE Keep(t)
  BY <1>5, KeepInv
<1>6. CASE Post(t)
  BY <1>6, PostInv
<1>7. CASE Record(t)
  BY <1>7, RecordInv
<1>8. CASE HandleTap(t)
  BY <1>8, HandleTapInv
<1>9. CASE Check(t)
  BY <1>9, CheckInv
<1>10. CASE Judge(t)
  BY <1>10, JudgeInv
<1>11. CASE Perform(t)
  BY <1>11, PerformInv
<1>12. CASE Reload(t)
  BY <1>12, ReloadInv
<1>13. CASE Rerender(t)
  BY <1>13, RerenderInv
<1>14. CASE Ask(t)
  BY <1>14, AskInv
<1>15. CASE Finish(t)
  BY <1>15, FinishInv
<1>16. CASE Edit(t)
  BY <1>16, EditInv
<1>17. CASE Ack(t)
  BY <1>17, AckInv
<1>18. CASE Splice(t)
  BY <1>18, SpliceInv
<1> QED
  BY <1>1, <1>2, <1>3, <1>4, <1>5, <1>6, <1>7, <1>8, <1>9, <1>10, <1>11, <1>12, <1>13, <1>14,
     <1>15, <1>16, <1>17, <1>18 DEF Goes

LEMMA NextInv ==
  ASSUME IInv, [Next]_vars
  PROVE  IInv'
<1>1. CASE Going
  BY <1>1, GoesInv DEF Going
<1>2. CASE Running
  <2>1. CASE AnnounceReady \/ SetChannel
    BY <2>1, ReadyInv
  <2>2. CASE HandlerUp \/ AnnounceDown \/ Start \/ Stopped
    BY <2>2, ServiceInv
  <2>3. CASE \E tap \in pressed : Deliver(tap)
    BY <2>3, DeliverInv
  <2>4. CASE \E p \in PRs : Recomputed(p)
    BY <2>4, GitHubInv
  <2> QED
    BY <1>2, <2>1, <2>2, <2>3, <2>4 DEF Running
<1>3. CASE Poll \/ ConditionalLook
  BY <1>3, PollInv, ConditionalLookInv
<1>11. CASE OtherOpens \/ OtherCloses
  BY <1>11, OthersInv
<1>4. CASE HandlerDown \/ Stop
  BY <1>4, ServiceInv
<1>5. CASE Crash
  BY <1>5, CrashInv
<1>6. CASE RemoveRepo
  BY <1>6, RemoveRepoInv
<1>7. CASE SendTest
  BY <1>7, SendTestInv
<1>8. ASSUME NEW p \in PRs,
             StatusMoves(p) \/ Push(p) \/ Close(p) \/ Recompute(p) \/ MergeFailed(p)
      PROVE  IInv'
  BY <1>8, GitHubInv, MergeFailedInv
<1>9. ASSUME NEW id \in Ids, Ages(id) \/ Press(id)
      PROVE  IInv'
  BY <1>9, AgesInv, PressInv
<1>10. CASE UNCHANGED vars
  <2>1. UNCHANGED <<gh, newer, chat, pressed, delivered, handler, backend, monitored, repo, track,
                    messages, readies, tapping, tasks, gens, done, mishaps, budget>>
    BY <1>10 DEF vars, outside, github, service, copies, history
  <2>2. TypeOK /\ TypeOK'
    BY <2>1, Parts DEF TypeOK
  <2> QED
    BY <2>1, <2>2, StillInv DEF TypeOK
<1> QED
  BY <1>1, <1>2, <1>3, <1>4, <1>5, <1>6, <1>7, <1>8, <1>9, <1>10, <1>11 DEF Next

LEMMA Invariant == Spec => []IInv
<1>1. IInv /\ [Next]_vars => IInv'
  BY NextInv
<1> QED
  BY <1>1, InitInv, PTL DEF Spec

----------------------------------------------------------------------------
(* Theorems.                                                               *)

(* Each variable holds what the code keeps in it: the records, the copy of   *)
(* the repo and what each goroutine of twoway.go and taps.go carries between *)
(* its sections under the mutex and its calls.                             *)
THEOREM TwoWayTyped == Spec => []TypeOK
<1>1. IInv => TypeOK
  BY DEF IInv
<1> QED
  BY <1>1, Invariant, PTL

(* The taps on one rendering of a message act on GitHub once, however many   *)
(* there are, in whichever order they are handled, and whatever crashes and  *)
(* is sent again (handleTap).                                              *)
THEOREM TapsActOnce == Spec => []ActsOnce
<1>1. IInv => ActsOnce
  BY DEF IInv
<1> QED
  BY <1>1, Invariant, PTL

(* A tap merges the commit its button was shown for, never one that was not  *)
(* known then, and one the reader was told of, unless an edit was lost (act, *)
(* rerender).                                                              *)
THEOREM MergesArePinned == Spec => []MergesPinned
<1>1. IInv => MergesPinned
  BY DEF IInv
<1> QED
  BY <1>1, Invariant, PTL

(* A PR has one message that stands, however many are posted at once (post). *)
THEOREM OneMessageStands == Spec => []OneMessagePerPR
<1>1. IInv => OneMessagePerPR
  BY DEF IInv
<1> QED
  BY <1>1, Invariant, PTL

(* A message says "PR closed" only of a PR that closed, also when the list    *)
(* was cut off, a copy was spliced or the message was kept for a later try    *)
(* (syncMessages, act, refreshPRs, keepRetiring), as long as no look at the   *)
(* list left a PRTotal that hides the cut (applyChanged).                    *)
THEOREM ClosedIsTrue == Spec => []ClosedIsClosed
<1>1. IInv => ClosedIsClosed
  BY Parts DEF Fine, Learnt, Closes, Closed, ClosedIsClosed
<1> QED
  BY <1>1, Invariant, PTL
============================================================================
