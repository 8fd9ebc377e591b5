------------------------ MODULE HandlerRunner_proofs ------------------------
(***************************************************************************)
(* Why each call to the handler program gets its own answer, why one       *)
(* program runs at a time, why no tap is thrown away, and why the runner   *)
(* keeps what HandlerChannel promises the service: for any number of       *)
(* callers, sessions and failures.                                         *)
(*                                                                         *)
(* The invariant, beside the types: Supervised ties the supervisor's step  *)
(* to its session; LinesOK says what a program writes; Numbered, that an   *)
(* id belongs to one call of a session; Introduced, that nothing but hello *)
(* reaches a program before it has written hello's reply; HelloFirst       *)
(* orders what it writes.                                                  *)
(***************************************************************************)
EXTENDS HandlerRunner, FiniteSetTheorems, TLAPS

----------------------------------------------------------------------------
(* The invariant.                                                          *)

Quiet == {"start", "off", "quit", "pause", "done"}

(* What the supervisor's step says of the session, and of what it told.     *)
Supervised ==
  /\ sup.at \in {"announce", "up"} <=> current # 0
  /\ current # 0 => current = n
  /\ sup.at = "hello" <=> calls[Hello].at # "idle"
  /\ sup.at = "hello" => n # 0 /\ calls[Hello].session = n
  /\ sup.at = "up" => avail = "ready"
  /\ avail = "ready" => sup.at \in {"up", "stop", "off", "quit", "done"}
  /\ sup.at = "stop" => sup.then # "pause" /\ ~ s.stdin
  /\ sup.at \in Quiet => s.exited
  /\ s.exited => s = OldSession

(* What the program was asked and has not answered, and what it wrote.      *)
Asked == ToSet(s.in) \cup s.doing
Said == ToSet(s.out)

LinesOK ==
  /\ \A line \in Said : IF line.id = 0 THEN line.what = "tap" /\ line.of \in waiting
                        ELSE line.what \in Answers \ {"refused"}
  /\ \A c \in AllCalls : \/ calls[c].reply = NoLine
                         \/ calls[c].reply.id # 0 /\ calls[c].reply.what \in Answers \ {"refused"}

(* A call is registered with the session that runs.                         *)
IsPending(c) == calls[c].session = n /\ calls[c].at \in {"write", "wait"}

(* An id is given once in a session, hello's is 1, and what bears the id of a *)
(* registered call is about that call.                                      *)
Numbered ==
  ~ s.exited =>
    /\ s.nextID = 0 <=> calls[Hello].at = "register"
    /\ \A r \in Asked : r.id # 0 /\ r.id <= s.nextID /\ (r.hello <=> r.id = 1)
    /\ \A line \in Said : line.id <= s.nextID
    /\ \A c \in AllCalls : IsPending(c) =>
         /\ calls[c].id # 0 /\ calls[c].id <= s.nextID
         /\ calls[c].id = 1 <=> c = Hello
         /\ \A d \in AllCalls : IsPending(d) /\ calls[d].id = calls[c].id => d = c
         /\ \A r \in Asked \cup Said : r.id = calls[c].id => r.of = calls[c].of

(* The program has written hello's reply, or is writing it, or is gone.      *)
Wrote == s.proc = "exited" \/ s.helloDone \/ s.writing

(* Whoever calls, and who has heard that hello went well, calls a program     *)
(* that wrote so.                                                          *)
Introduced ==
  /\ \A c \in Callers : calls[c].at # "idle" =>
       calls[c].session <= n /\ (calls[c].session = n => Wrote /\ sup.at # "hello")
  /\ current # 0 => Wrote
  /\ \A r \in ToSet(s.in) : r.hello \/ Wrote
  /\ \A line \in Said : line.id = 1 /\ line.what = "ok" => Wrote
  /\ calls[Hello].reply.what = "ok" \/ calls[Hello].outcome = "ok" => Wrote

(* The reader has seen hello's reply before any tap.                        *)
HelloFirst ==
  /\ \A i \in 1..Len(s.out) : s.out[i].id = 0 =>
       s.helloAnswered \/ \E j \in 1..(i - 1) : s.out[j].id = 1
  /\ ~ s.exited /\ (s.helloDone \/ s.writing) =>
       s.helloAnswered \/ \E j \in 1..Len(s.out) : s.out[j].id = 1

Typed == TypeOK /\ IsFiniteSet(waiting)

IInv == /\ Typed /\ Supervised /\ LinesOK /\ Numbered /\ Introduced
        /\ AnswersOwn /\ HelloFirst /\ NoTapSkipped

----------------------------------------------------------------------------
(* Lines.                                                                  *)

LEMMA Appended ==
  ASSUME NEW S, NEW q \in Seq(S), NEW e \in S
  PROVE  /\ Append(q, e) \in Seq(S) /\ Len(Append(q, e)) = Len(q) + 1
         /\ ToSet(Append(q, e)) = ToSet(q) \cup {e}
         /\ \A i \in 1..Len(q) : Append(q, e)[i] = q[i]
         /\ Append(q, e)[Len(q) + 1] = e
BY DEF ToSet

LEMMA Taken ==
  ASSUME NEW S, NEW q \in Seq(S), q # <<>>
  PROVE  /\ Tail(q) \in Seq(S) /\ Len(Tail(q)) = Len(q) - 1 /\ Len(q) > 0
         /\ Head(q) \in S /\ Head(q) \in ToSet(q) /\ Head(q) = q[1]
         /\ ToSet(Tail(q)) \subseteq ToSet(q)
         /\ \A i \in 1..(Len(q) - 1) : Tail(q)[i] = q[i + 1]
BY DEF ToSet

LEMMA InputOK ==
  ASSUME NEW kind, IsABag(budget), Input(kind)
  PROVE  IsABag(budget')
BY DEF Input, IsABag, BagRemove

LEMMA SaidAndAsked ==
  ASSUME s \in Session
  PROVE  Asked \subseteq Request /\ Said \subseteq Line
<1>1. s.in \in Seq(Request) /\ s.out \in Seq(Line) /\ s.doing \subseteq Request
  BY DEF Session
<1>2. ToSet(s.in) \subseteq Request /\ ToSet(s.out) \subseteq Line
  BY <1>1 DEF ToSet
<1> QED
  BY <1>1, <1>2 DEF Asked, Said

(* What counts of a session as far as nobody else is concerned.             *)
LEMMA OthersSame ==
  ASSUME IInv, UNCHANGED <<n, current, s, calls, skipped>>,
         waiting \subseteq waiting', sup'.at = "hello" => sup.at = "hello",
         Typed', Supervised'
  PROVE  IInv'
<1>1. LinesOK'
  BY DEF IInv, LinesOK, Said
<1>2. Numbered'
  BY DEF IInv, Numbered, Asked, Said, IsPending
<1>3. Introduced'
  BY DEF IInv, Introduced, Said, Wrote
<1>4. HelloFirst'
  BY DEF IInv, HelloFirst
<1>5. AnswersOwn' /\ NoTapSkipped'
  BY DEF IInv, AnswersOwn, NoTapSkipped
<1> QED
  BY <1>1, <1>2, <1>3, <1>4, <1>5 DEF IInv

----------------------------------------------------------------------------
(* Steps of the program.                                                   *)

(* What a step of the program has to show of the session t it leaves, and of  *)
(* the line it writes, if it does.                                          *)
LEMMA ProgramStep ==
  ASSUME IInv, s.proc # "exited", NEW t \in Session, NEW line \in Line, s' = t, InProgram,
         sent' \subseteq waiting, IsABag(budget'),
         t.nextID = s.nextID, t.exited = s.exited, t.stdin = s.stdin,
         t.helloAnswered = s.helloAnswered,
         ToSet(t.in) \subseteq ToSet(s.in), t.doing \subseteq Asked,
         Wrote => t.proc = "exited" \/ t.helloDone \/ t.writing,
         \/ t.out = s.out
         \/ /\ t.out = Append(s.out, line)
            /\ line.id = 0 => line.what = "tap" /\ line.of \in waiting /\ s.helloDone
            /\ line.id # 0 => /\ line.what \in Answers \ {"refused"}
                              /\ \E r \in Asked : r.id = line.id /\ r.of = line.of
            /\ line.id = 1 /\ line.what = "ok" => t.proc = "exited" \/ t.helloDone \/ t.writing,
         t.helloDone \/ t.writing =>
           s.helloDone \/ s.writing \/ (t.out = Append(s.out, line) /\ line.id = 1)
  PROVE  IInv'
<1>1. ~ s.exited
  BY DEF IInv, Supervised, OldSession, NewSession
<1>2. s.out \in Seq(Line)
  BY DEF IInv, Typed, TypeOK, Session
<1>3. t.out = s.out \/ (t.out = Append(s.out, line) /\ ToSet(t.out) = Said \cup {line})
  <2>1. ToSet(Append(s.out, line)) = ToSet(s.out) \cup {line}
    BY <1>2, Appended
  <2> QED
    BY <2>1 DEF Said
<1>4. Asked' \subseteq Asked
  BY DEF Asked
<1>5. Said' = Said \/ (t.out = Append(s.out, line) /\ Said' = Said \cup {line})
  BY <1>3 DEF Said
<1>6. Typed'
  <2>1. UNCHANGED <<cancelled, sup, n, current, avail, calls, taps, tapped, receive, waiting, skipped, begun>>
    BY DEF InProgram, runner
  <2>2. TypeOK /\ IsFiniteSet(waiting)
    BY DEF IInv, Typed
  <2>3. s' \in Session /\ sent' \subseteq waiting' /\ IsABag(budget')
    BY <2>1
  <2>4. TypeOK'
    BY <2>1, <2>2, <2>3 DEF TypeOK
  <2> QED
    BY <2>1, <2>2, <2>4 DEF Typed
<1>7. Supervised'
  BY <1>1 DEF IInv, Supervised, InProgram, runner
<1>8. LinesOK'
  BY <1>5 DEF IInv, LinesOK, InProgram
<1>9. Numbered'
  <2>1. \A r \in Asked : r.id # 0 /\ r.id <= s.nextID /\ (r.hello <=> r.id = 1)
    BY <1>1 DEF IInv, Numbered
  <2>2. s.nextID \in Nat
    BY DEF IInv, Typed, TypeOK, Session
  <2>3. \A l \in Said' : l.id <= s.nextID
    BY <1>1, <1>5, <2>1, <2>2 DEF IInv, Numbered
  <2>4. \A c \in AllCalls : IsPending(c) =>
          \A r \in Asked' \cup Said' : r.id = calls[c].id => r.of = calls[c].of
    <3>1. \A c \in AllCalls : IsPending(c) =>
            \A r \in Asked \cup Said : r.id = calls[c].id => r.of = calls[c].of
      BY <1>1 DEF IInv, Numbered
    <3>2. \A l \in Said' \ Said : \A c \in AllCalls : IsPending(c) /\ l.id = calls[c].id =>
            l.of = calls[c].of
      <4>1. \A c \in AllCalls : IsPending(c) => calls[c].id # 0
        BY <1>1 DEF IInv, Numbered
      <4> QED
        BY <1>5, <3>1, <4>1
    <3> QED
      BY <1>4, <3>1, <3>2
  <2>5. calls' = calls /\ n' = n /\ s'.nextID = s.nextID
    BY DEF InProgram, runner
  <2>6. \A c : IsPending(c)' <=> IsPending(c)
    BY <2>5 DEF IsPending
  <2> QED
    BY <1>1, <1>4, <2>1, <2>3, <2>4, <2>5, <2>6 DEF IInv, Numbered
<1>10. Introduced'
  <2>1. Wrote => Wrote'
    BY DEF Wrote
  <2>2. \A l \in Said' : l.id = 1 /\ l.what = "ok" => Wrote'
    BY <1>5, <2>1 DEF IInv, Introduced, Wrote
  <2>3. UNCHANGED <<calls, n, sup, current>>
    BY DEF InProgram, runner
  <2>4. \A r \in ToSet(s.in)' : r.hello \/ Wrote'
    BY <2>1 DEF IInv, Introduced
  <2> QED
    BY <2>1, <2>2, <2>3, <2>4 DEF IInv, Introduced
<1>11. HelloFirst'
  <2>1. CASE t.out = s.out
    BY <2>1, <1>1, <1>2 DEF IInv, HelloFirst, Appended
  <2>2. CASE t.out = Append(s.out, line)
    <3>1. /\ Len(t.out) = Len(s.out) + 1 /\ Len(s.out) \in Nat
          /\ \A i \in 1..Len(s.out) : t.out[i] = s.out[i]
          /\ t.out[Len(s.out) + 1] = line
      BY <1>2, <2>2, Appended
    <3>2. ASSUME NEW i \in 1..Len(t.out), t.out[i].id = 0
          PROVE  s.helloAnswered \/ \E j \in 1..(i - 1) : t.out[j].id = 1
      <4>1. CASE i \in 1..Len(s.out)
        <5>1. s.helloAnswered \/ \E j \in 1..(i - 1) : s.out[j].id = 1
          BY <3>1, <3>2, <4>1 DEF IInv, HelloFirst
        <5> QED
          BY <3>1, <4>1, <5>1, SMTT(30)
      <4>2. CASE i = Len(s.out) + 1
        <5>1. s.helloAnswered \/ \E j \in 1..Len(s.out) : s.out[j].id = 1
          BY <1>1, <2>2, <3>1, <3>2, <4>2 DEF IInv, HelloFirst
        <5> QED
          BY <3>1, <4>2, <5>1
      <4> QED
        BY <3>1, <4>1, <4>2
    <3>3. (t.helloDone \/ t.writing) => s.helloAnswered \/ \E j \in 1..Len(t.out) : t.out[j].id = 1
      BY <1>1, <3>1, SMTT(30) DEF IInv, HelloFirst
    <3> QED
      BY <3>2, <3>3 DEF HelloFirst
  <2> QED
    BY <1>3, <2>1, <2>2
<1>12. AnswersOwn' /\ NoTapSkipped'
  BY DEF IInv, AnswersOwn, NoTapSkipped, InProgram
<1> QED
  BY <1>6, <1>7, <1>8, <1>9, <1>10, <1>11, <1>12 DEF IInv

LEMMA AnswerHolds ==
  ASSUME IInv, NEW r \in s.doing, Answer(r)
  PROVE  IInv'
<1>1. PICK what \in Answers \ {"refused"} :
        /\ what = "other protocol" => Input("other protocol")
        /\ what = "error" => Input("error")
        /\ what = "ok" => UNCHANGED budget
        /\ s' = [s EXCEPT !.doing = @ \ {r},
                  !.out = Append(@, [id |-> r.id, of |-> r.of, what |-> what]),
                  !.writing = r.hello /\ what # "error"]
  BY DEF Answer
<1> DEFINE line == [id |-> r.id, of |-> r.of, what |-> what]
           w == r.hello /\ what # "error"
           t == [s EXCEPT !.doing = @ \ {r}, !.out = Append(@, line), !.writing = w]
<1>2. /\ s \in Session /\ r \in Request /\ line \in Line
  BY DEF IInv, Typed, TypeOK, Session, Request, Line
<1>3. w \in BOOLEAN
  OBVIOUS
<1>4. Append(s.out, line) \in Seq(Line)
  BY <1>2, Appended DEF Session
<1>5. s' = t
  BY <1>1
<1>6. line.id = r.id /\ line.of = r.of /\ line.what = what /\ w = (r.hello /\ what # "error")
  OBVIOUS
<1> HIDE DEF line, w
<1>7. t \in Session /\ t.in = s.in
  BY <1>2, <1>3, <1>4 DEF Session
<1>8. /\ t.out = Append(s.out, line) /\ t.doing = s.doing \ {r} /\ t.writing = w
      /\ t.proc = s.proc /\ t.deaf = s.deaf /\ t.stdin = s.stdin /\ t.exited = s.exited
      /\ t.helloAnswered = s.helloAnswered /\ t.nextID = s.nextID /\ t.helloDone = s.helloDone
  BY <1>2 DEF Session
<1> HIDE DEF t
<1>9. s.proc # "exited" /\ ~ s.writing /\ sent' = sent /\ InProgram
  BY DEF Answer
<1>10. IsABag(budget')
  BY <1>1, InputOK DEF IInv, Typed, TypeOK, Answers
<1>11. ~ s.exited
  BY <1>9 DEF IInv, Supervised, OldSession, NewSession
<1>12. r.id # 0 /\ (r.hello <=> r.id = 1) /\ r \in Asked
  BY <1>11 DEF IInv, Numbered, Asked
<1>13. Wrote => t.helloDone
  BY <1>8, <1>9 DEF Wrote
<1>14. sent' \subseteq waiting /\ t.doing \subseteq Asked /\ ToSet(t.in) \subseteq ToSet(s.in)
  BY <1>7, <1>8, <1>9 DEF IInv, Typed, TypeOK, Asked
<1>15. t.helloDone \/ t.writing => s.helloDone \/ line.id = 1
  BY <1>6, <1>8, <1>12
<1>16. line.id = 1 /\ line.what = "ok" => t.writing
  BY <1>6, <1>8, <1>12
<1> QED
  BY <1>1, <1>2, <1>5, <1>6, <1>7, <1>8, <1>9, <1>10, <1>12, <1>13, <1>14, <1>15, <1>16, ProgramStep, ZenonT(40)

LEMMA NoLineOK == NoLine \in Line
BY DEF NoLine, Line, Answers

LEMMA HandleHolds ==
  ASSUME IInv, Handle
  PROVE  IInv'
<1> DEFINE r == Head(s.in)
           t == [s EXCEPT !.in = Tail(@), !.doing = @ \cup {r}]
<1>1. s \in Session /\ s.in \in Seq(Request) /\ s.in # <<>> /\ s.proc = "running"
  BY DEF IInv, Typed, TypeOK, Session, Handle, Running
<1>2. r \in Request /\ r \in ToSet(s.in) /\ Tail(s.in) \in Seq(Request)
      /\ ToSet(Tail(s.in)) \subseteq ToSet(s.in)
  BY <1>1, Taken
<1>3. r.hello \/ s.helloDone \/ s.writing
  BY <1>1, <1>2 DEF IInv, Introduced, Wrote
<1>4. s' = t
  BY <1>3 DEF Handle, Ready
<1> HIDE DEF r
<1>5. t \in Session
  BY <1>1, <1>2 DEF Session
<1>6. /\ t.in = Tail(s.in) /\ t.doing = s.doing \cup {r} /\ t.out = s.out
      /\ t.proc = s.proc /\ t.deaf = s.deaf /\ t.stdin = s.stdin /\ t.exited = s.exited
      /\ t.helloAnswered = s.helloAnswered /\ t.nextID = s.nextID
      /\ t.helloDone = s.helloDone /\ t.writing = s.writing
  BY <1>1 DEF Session
<1> HIDE DEF t
<1>7. t.doing \subseteq Asked /\ ToSet(t.in) \subseteq ToSet(s.in)
  BY <1>2, <1>6 DEF Asked
<1>8. sent' = sent /\ budget' = budget /\ InProgram
  BY DEF Handle
<1>9. sent' \subseteq waiting /\ IsABag(budget')
  BY <1>8 DEF IInv, Typed, TypeOK
<1> QED
  BY <1>1, <1>4, <1>5, <1>6, <1>7, <1>8, <1>9, NoLineOK, ProgramStep DEF Wrote

LEMMA WrittenHolds ==
  ASSUME IInv, Written
  PROVE  IInv'
<1> DEFINE t == [s EXCEPT !.writing = FALSE, !.helloDone = TRUE]
<1>1. s \in Session /\ s' = t /\ s.proc # "exited" /\ s.writing
  BY DEF IInv, Typed, TypeOK, Written
<1>2. t \in Session
  BY <1>1 DEF Session
<1>3. /\ t.in = s.in /\ t.doing = s.doing /\ t.out = s.out
      /\ t.proc = s.proc /\ t.deaf = s.deaf /\ t.stdin = s.stdin /\ t.exited = s.exited
      /\ t.helloAnswered = s.helloAnswered /\ t.nextID = s.nextID /\ t.helloDone
  BY <1>1 DEF Session
<1> HIDE DEF t
<1>4. t.doing \subseteq Asked
  BY <1>3 DEF Asked
<1>5. sent' = sent /\ budget' = budget /\ InProgram
  BY DEF Written
<1>6. sent' \subseteq waiting /\ IsABag(budget')
  BY <1>5 DEF IInv, Typed, TypeOK
<1> QED
  BY <1>1, <1>2, <1>3, <1>4, <1>5, <1>6, NoLineOK, ProgramStep

LEMMA SendTapHolds ==
  ASSUME IInv, NEW tap \in waiting, SendTap(tap)
  PROVE  IInv'
<1> DEFINE line == [id |-> 0, of |-> tap, what |-> "tap"]
           t == [s EXCEPT !.out = Append(@, line)]
<1>1. s \in Session /\ s' = t /\ s.proc = "running" /\ s.helloDone
  BY DEF IInv, Typed, TypeOK, SendTap, Receiving, Running
<1>2. line \in Line /\ line.id = 0 /\ line.of = tap /\ line.what = "tap"
  BY DEF IInv, Typed, TypeOK, Line, Answers
<1> HIDE DEF line
<1>3. Append(s.out, line) \in Seq(Line)
  BY <1>1, <1>2, Appended DEF Session
<1>4. t \in Session
  BY <1>1, <1>3 DEF Session
<1>5. /\ t.in = s.in /\ t.doing = s.doing /\ t.out = Append(s.out, line)
      /\ t.proc = s.proc /\ t.deaf = s.deaf /\ t.stdin = s.stdin /\ t.exited = s.exited
      /\ t.helloAnswered = s.helloAnswered /\ t.nextID = s.nextID
      /\ t.helloDone = s.helloDone /\ t.writing = s.writing
  BY <1>1 DEF Session
<1> HIDE DEF t
<1>6. t.doing \subseteq Asked
  BY <1>5 DEF Asked
<1>7. sent' = sent \cup {tap} /\ budget' = budget /\ InProgram
  BY DEF SendTap
<1>8. sent' \subseteq waiting /\ IsABag(budget')
  BY <1>7 DEF IInv, Typed, TypeOK
<1> QED
  BY <1>1, <1>2, <1>4, <1>5, <1>6, <1>7, <1>8, ProgramStep DEF Wrote

(* The process ends, loses what it had or stops reading.                    *)
LEMMA ProcMoves ==
  ASSUME IInv, s.proc # "exited", NEW t \in Session, s' = t, InProgram, sent' = sent,
         IsABag(budget'),
         t.nextID = s.nextID, t.exited = s.exited, t.stdin = s.stdin, t.out = s.out,
         t.helloAnswered = s.helloAnswered, t.helloDone = s.helloDone,
         t.in = s.in \/ t.in = <<>>, t.doing \subseteq s.doing,
         t.writing = s.writing \/ (t.proc = "exited" /\ ~ t.writing)
  PROVE  IInv'
<1>1. t.doing \subseteq Asked /\ ToSet(t.in) \subseteq ToSet(s.in)
  BY DEF Asked, ToSet
<1>2. sent' \subseteq waiting
  BY DEF IInv, Typed, TypeOK
<1>3. Wrote => t.proc = "exited" \/ t.helloDone \/ t.writing
  BY DEF Wrote
<1> QED
  BY <1>1, <1>2, <1>3, NoLineOK, ProgramStep

LEMMA EndingHolds ==
  ASSUME IInv, Ending \/ Ended
  PROVE  IInv'
<1> PICK proc \in {"ending", "exited"} : s' = [s EXCEPT !.proc = proc]
  BY DEF Ending, Ended
<1> DEFINE t == [s EXCEPT !.proc = proc]
<1>1. s \in Session /\ s' = t /\ s.proc # "exited"
  BY DEF IInv, Typed, TypeOK, Ending, Ended, Running
<1>2. t \in Session
  BY <1>1 DEF Session
<1>3. /\ t.in = s.in /\ t.doing = s.doing /\ t.out = s.out
      /\ t.deaf = s.deaf /\ t.stdin = s.stdin /\ t.exited = s.exited
      /\ t.helloAnswered = s.helloAnswered /\ t.nextID = s.nextID
      /\ t.helloDone = s.helloDone /\ t.writing = s.writing
  BY <1>1 DEF Session
<1> HIDE DEF t
<1>4. sent' = sent /\ InProgram
  BY DEF Ending, Ended
<1>5. IsABag(budget')
  BY InputOK DEF IInv, Typed, TypeOK, Ending, Ended
<1> QED
  BY <1>1, <1>2, <1>3, <1>4, <1>5, ProcMoves DEF Wrote

LEMMA DiesHolds ==
  ASSUME IInv, Dies
  PROVE  IInv'
<1> DEFINE t == [s EXCEPT !.proc = "exited", !.in = <<>>, !.doing = {}, !.writing = FALSE]
<1>1. s \in Session /\ s' = t /\ s.proc # "exited"
  BY DEF IInv, Typed, TypeOK, Dies, Running
<1>2. t \in Session
  <2>1. <<>> \in Seq(Request) /\ {} \in SUBSET Request
    OBVIOUS
  <2> QED
    BY <1>1, <2>1 DEF Session
<1>3. /\ t.in = <<>> /\ t.doing = {} /\ t.out = s.out /\ t.proc = "exited" /\ ~ t.writing
      /\ t.deaf = s.deaf /\ t.stdin = s.stdin /\ t.exited = s.exited
      /\ t.helloAnswered = s.helloAnswered /\ t.nextID = s.nextID
      /\ t.helloDone = s.helloDone
  BY <1>1 DEF Session
<1> HIDE DEF t
<1>4. sent' = sent /\ InProgram /\ IsABag(budget')
  BY InputOK DEF Dies, IInv, Typed, TypeOK
<1> QED
  BY <1>1, <1>2, <1>3, <1>4, ProcMoves

LEMMA ClosesStdinHolds ==
  ASSUME IInv, ClosesStdin
  PROVE  IInv'
<1> DEFINE t == [s EXCEPT !.deaf = TRUE]
<1>1. s \in Session /\ s' = t /\ s.proc # "exited"
  BY DEF IInv, Typed, TypeOK, ClosesStdin, Running
<1>2. t \in Session
  BY <1>1 DEF Session
<1>3. /\ t.in = s.in /\ t.doing = s.doing /\ t.out = s.out /\ t.proc = s.proc
      /\ t.stdin = s.stdin /\ t.exited = s.exited
      /\ t.helloAnswered = s.helloAnswered /\ t.nextID = s.nextID
      /\ t.helloDone = s.helloDone /\ t.writing = s.writing
  BY <1>1 DEF Session
<1> HIDE DEF t
<1>4. sent' = sent /\ InProgram /\ IsABag(budget')
  BY InputOK DEF ClosesStdin, IInv, Typed, TypeOK
<1> QED
  BY <1>1, <1>2, <1>3, <1>4, ProcMoves

LEMMA ProgramHolds == IInv /\ Program => IInv'
BY AnswerHolds, HandleHolds, WrittenHolds, SendTapHolds, EndingHolds, DiesHolds,
   ClosesStdinHolds DEF Program

----------------------------------------------------------------------------
(* Steps of those who call.                                                *)

(* A caller begins or ends its call: r is its record afterwards.             *)
LEMMA CallMoves ==
  ASSUME IInv, NEW c \in AllCalls, NEW r \in Call, calls' = [calls EXCEPT ![c] = r],
         UNCHANGED <<runner, s, tapping>>, begun' \in Nat, IsABag(budget'),
         r.at \in {"idle", "register", "ended"},
         r.reply = NoLine \/ (r.reply = calls[c].reply /\ r.of = calls[c].of),
         c = Hello => /\ r.at = "ended" /\ calls[c].at # "idle" /\ r.session = calls[c].session
                      /\ s.exited \/ calls[c].at # "register"
                      /\ r.outcome = "ok" => Wrote,
         c # Hello => r.at = "idle" \/ (r.session = current /\ current # 0)
  PROVE  IInv'
<1>1. /\ calls \in [AllCalls -> Call] /\ calls' \in [AllCalls -> Call]
      /\ calls'[c] = r /\ \A d \in AllCalls : d # c => calls'[d] = calls[d]
  BY DEF IInv, Typed, TypeOK
<1>2. UNCHANGED <<cancelled, sup, n, current, avail, s, taps, tapped, receive, waiting, sent, skipped>>
  BY DEF runner, tapping
<1>3. Hello \in AllCalls /\ (c = Hello \/ c \in Callers) /\ \A d \in Callers : d \in AllCalls /\ d # Hello
  BY ConstantsAssumption DEF AllCalls
<1>4. Typed'
  BY <1>1, <1>2 DEF IInv, Typed, TypeOK
<1>5. Supervised'
  <2>1. calls'[Hello].at = "idle" <=> calls[Hello].at = "idle"
    BY <1>1, <1>3
  <2>2. calls[Hello].at # "idle" => calls'[Hello].session = calls[Hello].session
    BY <1>1, <1>3
  <2> QED
    BY <1>2, <2>1, <2>2 DEF IInv, Supervised
<1>6. LinesOK'
  BY <1>1, <1>2 DEF IInv, LinesOK, Said
<1>7. Numbered'
  <2>1. \A d \in AllCalls : IsPending(d)' => IsPending(d) /\ d # c
    BY <1>1, <1>2 DEF IsPending
  <2>2. \A d \in AllCalls : IsPending(d)' => calls'[d] = calls[d]
    BY <1>1, <2>1
  <2>3. ~ s.exited => (calls'[Hello].at = "register" <=> calls[Hello].at = "register")
    BY <1>1, <1>3
  <2>4. Asked' = Asked /\ Said' = Said
    BY <1>2 DEF Asked, Said
  <2> QED
    BY <1>2, <2>1, <2>2, <2>3, <2>4 DEF IInv, Numbered
<1>8. Introduced'
  <2>1. Wrote' <=> Wrote
    BY <1>2 DEF Wrote
  <2>2. \A d \in Callers : calls'[d].at # "idle" =>
          calls'[d].session <= n /\ (calls'[d].session = n => Wrote /\ sup.at # "hello")
    <3> SUFFICES ASSUME NEW d \in Callers, calls'[d].at # "idle"
                 PROVE  calls'[d].session <= n /\ (calls'[d].session = n => Wrote /\ sup.at # "hello")
      OBVIOUS
    <3>1. CASE d = c
      <4>1. calls'[d].session = current /\ current = n /\ n \in Nat
        BY <1>1, <1>3, <3>1 DEF IInv, Typed, TypeOK, Supervised
      <4> QED
        BY <1>1, <1>3, <3>1, <4>1 DEF IInv, Introduced, Supervised
    <3>2. CASE d # c
      BY <1>1, <1>3, <3>2 DEF IInv, Introduced
    <3> QED
      BY <3>1, <3>2
  <2>3. calls'[Hello].reply.what = "ok" \/ calls'[Hello].outcome = "ok" => Wrote
    BY <1>1, <1>3 DEF IInv, Introduced, NoLine
  <2> QED
    BY <1>2, <2>1, <2>2, <2>3 DEF IInv, Introduced, Said
<1>9. AnswersOwn'
  BY <1>1 DEF IInv, AnswersOwn
<1>10. HelloFirst' /\ NoTapSkipped'
  BY <1>2 DEF IInv, HelloFirst, NoTapSkipped
<1> QED
  BY <1>4, <1>5, <1>6, <1>7, <1>8, <1>9, <1>10 DEF IInv

LEMMA NoCallOK ==
  NoCall \in Call /\ NoCall.reply = NoLine /\ NoCall.at = "idle" /\ NoCall.outcome = "none"
BY NoLineOK DEF NoCall, Call

LEMMA NewCallOK ==
  ASSUME NEW session \in Nat, begun \in Nat
  PROVE  /\ NewCall(session) \in Call /\ NewCall(session).at = "register"
         /\ NewCall(session).session = session /\ NewCall(session).reply = NoLine
         /\ NewCall(session).outcome = "none"
<1> DEFINE next == begun + 1
<1>1. NewCall(session) = [NoCall EXCEPT !.at = "register", !.session = session, !.of = next]
  BY DEF NewCall
<1>2. next \in Nat
  OBVIOUS
<1> HIDE DEF next
<1> QED
  BY <1>1, <1>2, NoCallOK DEF Call

LEMMA BeginHolds ==
  ASSUME IInv, NEW c \in Callers, Begin(c)
  PROVE  IInv'
<1> DEFINE r == NewCall(current)
<1>1. current \in Nat /\ begun \in Nat /\ current # 0
  BY DEF IInv, Typed, TypeOK, Begin
<1>2. /\ r \in Call /\ r.at = "register" /\ r.session = current /\ r.reply = NoLine
  BY <1>1, NewCallOK
<1>3. /\ calls' = [calls EXCEPT ![c] = r] /\ begun' = begun + 1 /\ UNCHANGED <<runner, s, tapping>>
      /\ Input("call")
  BY DEF Begin
<1> HIDE DEF r
<1>4. IsABag(budget')
  BY <1>3, InputOK DEF IInv, Typed, TypeOK
<1>5. c \in AllCalls /\ c # Hello
  BY ConstantsAssumption DEF AllCalls
<1>6. begun' \in Nat
  BY <1>1, <1>3
<1> QED
  BY <1>1, <1>2, <1>3, <1>4, <1>5, <1>6, CallMoves

LEMMA EndsHolds ==
  ASSUME IInv, NEW c \in AllCalls, NEW outcome \in Outcomes, Ends(c, outcome),
         calls[c].at \in {"register", "write", "wait"}, UNCHANGED <<s, budget>>, Elsewhere,
         calls[c].at = "register" => Dead(c),
         c = Hello /\ outcome = "ok" => Wrote
  PROVE  IInv'
<1>1. calls \in [AllCalls -> Call]
  BY DEF IInv, Typed, TypeOK
<1> DEFINE r == IF c = Hello THEN [calls[c] EXCEPT !.at = "ended", !.outcome = outcome] ELSE NoCall
<1>2. calls' = [calls EXCEPT ![c] = r]
  BY <1>1 DEF Ends
<1>3. CASE c = Hello
  <2>1. /\ r \in Call /\ r.at = "ended" /\ r.session = calls[c].session /\ r.reply = calls[c].reply
        /\ r.of = calls[c].of /\ r.outcome = outcome
    BY <1>1, <1>3 DEF Call
  <2> HIDE DEF r
  <2>2. s.exited \/ calls[c].at # "register"
    BY <1>3 DEF Dead, IInv, Supervised, Typed, TypeOK
  <2> QED
    BY <1>2, <1>3, <2>1, <2>2, CallMoves DEF Elsewhere, IInv, Typed, TypeOK
<1>4. CASE c # Hello
  <2>1. r \in Call /\ r.at = "idle" /\ r.reply = NoLine
    BY <1>4, NoLineOK DEF NoCall, Call
  <2> HIDE DEF r
  <2> QED
    BY <1>2, <1>4, <2>1, CallMoves DEF Elsewhere, IInv, Typed, TypeOK
<1> QED
  BY <1>3, <1>4

(* The caller gets what the program said of its call.                       *)
LEMMA ReplyIsOutcome ==
  ASSUME IInv, NEW c \in AllCalls, calls[c].reply # NoLine
  PROVE  calls[c].reply.what \in Outcomes /\ (c = Hello /\ calls[c].reply.what = "ok" => Wrote)
BY DEF IInv, LinesOK, Introduced, Outcomes

LEMMA RegisterHolds ==
  ASSUME IInv, NEW c \in AllCalls, Register(c)
  PROVE  IInv'
<1>1. CASE Dead(c)
  BY <1>1, EndsHolds DEF Register, Outcomes
<1>2. CASE ~ Dead(c)
  <2> DEFINE id == s.nextID + 1
             t == [s EXCEPT !.nextID = id]
             r == [calls[c] EXCEPT !.id = id, !.at = "write"]
  <2>1. /\ s \in Session /\ calls \in [AllCalls -> Call] /\ calls[c].at = "register"
        /\ s.nextID \in Nat /\ n \in Nat /\ calls[c].session \in Nat
    BY DEF IInv, Typed, TypeOK, Register, Session, Call
  <2>2. s' = t /\ calls' = [calls EXCEPT ![c] = r]
    BY <1>2, <2>1 DEF Register, NextID
  <2>3. id \in Nat
    BY <2>1
  <2> HIDE DEF id
  <2>4. /\ t \in Session /\ t.nextID = id /\ t.in = s.in /\ t.doing = s.doing /\ t.out = s.out
        /\ t.proc = s.proc /\ t.stdin = s.stdin /\ t.exited = s.exited
        /\ t.helloAnswered = s.helloAnswered /\ t.helloDone = s.helloDone /\ t.writing = s.writing
    BY <2>1, <2>3 DEF Session
  <2>5. /\ r \in Call /\ r.at = "write" /\ r.id = id /\ r.session = calls[c].session
        /\ r.reply = calls[c].reply /\ r.of = calls[c].of /\ r.outcome = calls[c].outcome
    BY <2>1, <2>3 DEF Call
  <2> HIDE DEF t, r
  <2>6. /\ calls' \in [AllCalls -> Call] /\ calls'[c] = r
        /\ \A d \in AllCalls : d # c => calls'[d] = calls[d]
    BY <2>1, <2>2, <2>5
  <2>7. /\ UNCHANGED <<cancelled, sup, n, current, avail, taps, tapped, receive, waiting, sent, skipped>>
        /\ UNCHANGED <<begun, budget>>
    BY DEF Register, Elsewhere, runner, tapping
  <2>8. ~ s.exited /\ calls[c].session >= n
    BY <1>2, <2>1 DEF Dead
  <2>9. /\ Hello \in AllCalls /\ (c = Hello \/ c \in Callers)
        /\ \A d \in Callers : d \in AllCalls /\ d # Hello
    BY ConstantsAssumption DEF AllCalls
  <2>10. c # Hello => calls[c].session = n /\ Wrote /\ sup.at # "hello"
    BY <2>1, <2>8, <2>9 DEF IInv, Introduced
  <2>11. calls[c].session = n
    BY <2>1, <2>9, <2>10 DEF IInv, Supervised
  <2>12. Asked' = Asked /\ Said' = Said /\ Wrote' = Wrote
    BY <2>2, <2>4 DEF Asked, Said, Wrote
  <2>13. Typed'
    BY <2>2, <2>4, <2>6, <2>7 DEF IInv, Typed, TypeOK
  <2>14. Supervised'
    <3>1. calls'[Hello].at = "idle" <=> calls[Hello].at = "idle"
      BY <2>1, <2>5, <2>6, <2>9
    <3>2. calls'[Hello].session = calls[Hello].session
      BY <2>5, <2>6, <2>9
    <3> QED
      BY <2>2, <2>4, <2>7, <2>8, <3>1, <3>2 DEF IInv, Supervised
  <2>15. LinesOK'
    BY <2>5, <2>6, <2>7, <2>12 DEF IInv, LinesOK
  <2>16. Numbered'
    <3>1. s.nextID = 0 <=> c = Hello
      <4>1. s.nextID = 0 <=> calls[Hello].at = "register"
        BY <2>8 DEF IInv, Numbered
      <4>2. c # Hello => calls[Hello].at = "idle"
        BY <2>10 DEF IInv, Supervised
      <4> QED
        BY <2>1, <4>1, <4>2
    <3>2. calls'[Hello].at # "register" /\ id # 0 /\ id > s.nextID
      <4>1. calls'[Hello].at # "register"
        <5>1. CASE c = Hello
          BY <2>5, <2>6, <5>1
        <5>2. CASE c # Hello
          BY <2>6, <2>9, <2>10, <5>2 DEF IInv, Supervised
        <5> QED
          BY <5>1, <5>2
      <4> QED
        BY <2>1, <4>1 DEF id
    <3>3. \A r2 \in Asked : r2.id # 0 /\ r2.id <= s.nextID /\ (r2.hello <=> r2.id = 1) /\ r2.id \in Nat
      BY <2>1, <2>8, SaidAndAsked DEF IInv, Numbered, Request
    <3>4. \A line \in Said : line.id <= s.nextID /\ line.id \in Nat
      BY <2>1, <2>8, SaidAndAsked DEF IInv, Numbered, Line
    <3>5. \A d \in AllCalls : IsPending(d) =>
            calls[d].id # 0 /\ calls[d].id <= s.nextID /\ calls[d].id \in Nat
      BY <2>1, <2>8 DEF IInv, Numbered, Call
    <3>6. \A d \in AllCalls : IsPending(d)' <=> (IsPending(d) \/ d = c)
      BY <2>5, <2>6, <2>7, <2>11 DEF IsPending
    <3>7. \A x \in Asked \cup Said : x.id # id
      BY <2>1, <2>3, <3>2, <3>3, <3>4
    <3>8. \A d \in AllCalls : IsPending(d) => calls[d].id # id
      BY <2>1, <2>3, <3>2, <3>5
    <3>9. \A r2 \in Asked : r2.id <= id
      BY <2>1, <2>3, <3>2, <3>3
    <3>10. \A line \in Said : line.id <= id
      BY <2>1, <2>3, <3>2, <3>4
    <3>11. id = 1 <=> c = Hello
      BY <2>1, <3>1 DEF id
    <3>12. ASSUME NEW d \in AllCalls, IsPending(d)'
           PROVE  /\ calls'[d].id # 0 /\ calls'[d].id <= id
                  /\ calls'[d].id = 1 <=> d = Hello
                  /\ \A e \in AllCalls : IsPending(e)' /\ calls'[e].id = calls'[d].id => e = d
                  /\ \A x \in Asked \cup Said : x.id = calls'[d].id => x.of = calls'[d].of
      <4>1. CASE d = c
        <5>1. calls'[d].id = id
          BY <2>5, <2>6, <4>1
        <5>2. \A e \in AllCalls : IsPending(e)' /\ calls'[e].id = id => e = d
          BY <2>6, <3>6, <3>8, <4>1
        <5> QED
          BY <2>3, <3>2, <3>7, <3>11, <4>1, <5>1, <5>2
      <4>2. CASE d # c
        <5>1. IsPending(d) /\ calls'[d] = calls[d]
          BY <2>6, <3>6, <3>12, <4>2
        <5>2. /\ calls[d].id = 1 <=> d = Hello
              /\ \A e \in AllCalls : IsPending(e) /\ calls[e].id = calls[d].id => e = d
              /\ \A x \in Asked \cup Said : x.id = calls[d].id => x.of = calls[d].of
          BY <2>8, <5>1 DEF IInv, Numbered
        <5>3. calls[d].id # id /\ calls[d].id # 0 /\ calls[d].id <= id
          BY <2>1, <2>3, <3>2, <3>5, <3>8, <5>1
        <5>4. \A e \in AllCalls : IsPending(e)' /\ calls'[e].id = calls[d].id => e = d
          BY <2>5, <2>6, <3>6, <5>2, <5>3
        <5> QED
          BY <5>1, <5>2, <5>3, <5>4
      <4> QED
        BY <4>1, <4>2
    <3> QED
      BY <2>2, <2>3, <2>4, <2>12, <3>2, <3>3, <3>9, <3>10, <3>12 DEF Numbered
  <2>17. Introduced'
    <3>1. \A d \in AllCalls : /\ calls'[d].at # "idle" => calls[d].at # "idle"
                              /\ calls'[d].session = calls[d].session
                              /\ calls'[d].reply = calls[d].reply
                              /\ calls'[d].outcome = calls[d].outcome
      BY <2>1, <2>5, <2>6
    <3> QED
      BY <2>2, <2>4, <2>7, <2>9, <2>12, <3>1 DEF IInv, Introduced
  <2>18. AnswersOwn'
    BY <2>5, <2>6 DEF IInv, AnswersOwn
  <2>19. HelloFirst' /\ NoTapSkipped'
    BY <2>2, <2>4, <2>7 DEF IInv, HelloFirst, NoTapSkipped
  <2> QED
    BY <2>13, <2>14, <2>15, <2>16, <2>17, <2>18, <2>19 DEF IInv
<1> QED
  BY <1>1, <1>2

LEMMA WriteHolds ==
  ASSUME IInv, NEW c \in AllCalls, Write(c)
  PROVE  IInv'
<1> DEFINE fails == Dead(c) \/ ~ s.stdin \/ s.deaf \/ s.proc = "exited"
<1>1. CASE fails
  BY <1>1, EndsHolds DEF Write, Outcomes
<1>2. CASE ~ fails
  <2> DEFINE new == [id |-> calls[c].id, hello |-> c = Hello, of |-> calls[c].of]
             t == [s EXCEPT !.in = Append(@, new)]
             r == [calls[c] EXCEPT !.at = "wait"]
  <2>1. /\ s \in Session /\ calls \in [AllCalls -> Call] /\ calls[c].at = "write"
        /\ n \in Nat /\ calls[c].session \in Nat
    BY DEF IInv, Typed, TypeOK, Write, Call
  <2>2. s' = t /\ calls' = [calls EXCEPT ![c] = r]
    BY <1>2, <2>1 DEF Write
  <2>3. new \in Request /\ new.id = calls[c].id /\ new.of = calls[c].of /\ (new.hello <=> c = Hello)
    BY <2>1 DEF Request, Call
  <2> HIDE DEF new
  <2>4. Append(s.in, new) \in Seq(Request) /\ ToSet(Append(s.in, new)) = ToSet(s.in) \cup {new}
    <3>1. s.in \in Seq(Request)
      BY <2>1 DEF Session
    <3> QED
      BY <2>3, <3>1, Appended
  <2>5. /\ t \in Session /\ t.in = Append(s.in, new) /\ t.doing = s.doing /\ t.out = s.out
        /\ t.proc = s.proc /\ t.stdin = s.stdin /\ t.exited = s.exited /\ t.nextID = s.nextID
        /\ t.helloAnswered = s.helloAnswered /\ t.helloDone = s.helloDone /\ t.writing = s.writing
    BY <2>1, <2>4 DEF Session
  <2>6. /\ r \in Call /\ r.at = "wait" /\ r.id = calls[c].id /\ r.session = calls[c].session
        /\ r.reply = calls[c].reply /\ r.of = calls[c].of /\ r.outcome = calls[c].outcome
    BY <2>1 DEF Call
  <2> HIDE DEF t, r
  <2>7. /\ calls' \in [AllCalls -> Call] /\ calls'[c] = r
        /\ \A d \in AllCalls : d # c => calls'[d] = calls[d]
    BY <2>1, <2>2, <2>6
  <2>8. /\ UNCHANGED <<cancelled, sup, n, current, avail, taps, tapped, receive, waiting, sent, skipped>>
        /\ UNCHANGED <<begun, budget>>
    BY DEF Write, Elsewhere, runner, tapping
  <2>9. ~ s.exited /\ calls[c].session >= n
    BY <1>2, <2>1 DEF Dead
  <2>10. /\ Hello \in AllCalls /\ (c = Hello \/ c \in Callers)
         /\ \A d \in Callers : d \in AllCalls /\ d # Hello
    BY ConstantsAssumption DEF AllCalls
  <2>11. c # Hello => calls[c].session = n /\ Wrote
    BY <2>1, <2>9, <2>10 DEF IInv, Introduced
  <2>12. calls[c].session = n
    BY <2>1, <2>10, <2>11 DEF IInv, Supervised
  <2>13. Asked' = Asked \cup {new} /\ Said' = Said /\ Wrote' = Wrote
    BY <2>2, <2>4, <2>5 DEF Asked, Said, Wrote
  <2>14. \A d \in AllCalls :
           /\ calls'[d].at = "idle" <=> calls[d].at = "idle"
           /\ calls'[d].at = "register" <=> calls[d].at = "register"
           /\ calls'[d].session = calls[d].session /\ calls'[d].id = calls[d].id
           /\ calls'[d].of = calls[d].of
           /\ calls'[d].reply = calls[d].reply /\ calls'[d].outcome = calls[d].outcome
           /\ IsPending(d)' <=> IsPending(d)
    BY <2>1, <2>6, <2>7, <2>8 DEF IsPending
  <2>15. Typed'
    BY <2>2, <2>5, <2>7, <2>8 DEF IInv, Typed, TypeOK
  <2>16. Supervised'
    BY <2>2, <2>5, <2>8, <2>9, <2>10, <2>14 DEF IInv, Supervised
  <2>17. LinesOK'
    BY <2>8, <2>13, <2>14 DEF IInv, LinesOK
  <2>18. Numbered'
    <3>1. IsPending(c)
      BY <2>1, <2>12 DEF IsPending
    <3>2. /\ calls[c].id # 0 /\ calls[c].id <= s.nextID /\ (calls[c].id = 1 <=> c = Hello)
          /\ \A d \in AllCalls : IsPending(d) /\ calls[d].id = calls[c].id => d = c
      BY <2>9, <3>1 DEF IInv, Numbered
    <3>3. \A x \in Asked' : x.id # 0 /\ x.id <= s.nextID /\ (x.hello <=> x.id = 1)
      BY <2>3, <2>9, <2>13, <3>2 DEF IInv, Numbered
    <3>4. \A d \in AllCalls : IsPending(d) =>
            \A x \in Asked' \cup Said' : x.id = calls[d].id => x.of = calls[d].of
      BY <2>3, <2>9, <2>13, <3>2 DEF IInv, Numbered
    <3> QED
      BY <2>2, <2>5, <2>9, <2>10, <2>13, <2>14, <3>3, <3>4 DEF IInv, Numbered
  <2>19. Introduced'
    <3>1. \A x \in ToSet(s.in)' : x.hello \/ Wrote
      BY <2>2, <2>3, <2>4, <2>5, <2>11 DEF IInv, Introduced
    <3> QED
      BY <2>8, <2>10, <2>13, <2>14, <3>1 DEF IInv, Introduced
  <2>20. AnswersOwn'
    BY <2>14 DEF IInv, AnswersOwn
  <2>21. HelloFirst' /\ NoTapSkipped'
    BY <2>2, <2>5, <2>8 DEF IInv, HelloFirst, NoTapSkipped
  <2> QED
    BY <2>15, <2>16, <2>17, <2>18, <2>19, <2>20, <2>21 DEF IInv
<1> QED
  BY <1>1, <1>2

LEMMA CallsHold ==
  ASSUME IInv, NEW c \in AllCalls, Calls(c)
  PROVE  IInv'
<1>1. CASE GetsReply(c)
  BY <1>1, ReplyIsOutcome, EndsHolds DEF GetsReply
<1>2. CASE SeesExit(c)
  <2> DEFINE outcome == IF calls[c].reply # NoLine THEN calls[c].reply.what ELSE "unavailable"
  <2>1. outcome \in Outcomes /\ (c = Hello /\ outcome = "ok" => Wrote)
    BY ReplyIsOutcome DEF Outcomes
  <2> QED
    BY <1>2, <2>1, EndsHolds DEF SeesExit
<1>3. CASE TimesOut(c)
  BY <1>3, EndsHolds DEF TimesOut, Outcomes
<1>4. CASE IsCancelled(c)
  BY <1>4, EndsHolds DEF IsCancelled, Outcomes
<1> QED
  BY <1>1, <1>2, <1>3, <1>4, RegisterHolds, WriteHolds DEF Calls

----------------------------------------------------------------------------
(* Steps of the supervisor.                                                *)

(* Its step and what it reports are all that moves.                         *)
LEMMA TurnHolds ==
  ASSUME IInv, Announce \/ Stopped \/ AnnounceOff \/ Pause
  PROVE  IInv'
<1>1. UNCHANGED <<cancelled, n, current, s, calls, taps, tapped, receive, waiting, sent, skipped, begun, budget>>
  BY DEF Announce, Stopped, AnnounceOff, Pause, tapping
<1>2. Typed' /\ Supervised' /\ sup'.at # "hello"
  <2>1. CASE Announce
    BY <1>1, <2>1 DEF IInv, Typed, TypeOK, Supervised, Announce, Goes, Quiet
  <2>2. CASE Stopped
    <3>1. sup.then \in {"done", "look", "quit", "off"} /\ s.exited /\ avail' = avail /\ current = 0
      BY <2>2 DEF IInv, Typed, TypeOK, Supervised, Stopped, HasExited
    <3>2. PICK at \in {"done", "quit", "off"} : sup' = [at |-> at, then |-> "pause"]
      BY <2>2, <3>1 DEF Stopped, Goes
    <3>3. Typed'
      BY <1>1, <3>1, <3>2 DEF IInv, Typed, TypeOK
    <3>4. Supervised'
      BY <1>1, <2>2, <3>1, <3>2 DEF IInv, Supervised, Stopped, Quiet
    <3> QED
      BY <3>2, <3>3, <3>4
  <2>3. CASE AnnounceOff
    BY <1>1, <2>3 DEF IInv, Typed, TypeOK, Supervised, AnnounceOff, Goes, Quiet
  <2>4. CASE Pause
    BY <1>1, <2>4 DEF IInv, Typed, TypeOK, Supervised, Pause, Goes, Quiet
  <2> QED
    BY <2>1, <2>2, <2>3, <2>4
<1> QED
  BY <1>1, <1>2, OthersSame

LEMMA HelloIsACall == Hello \in AllCalls /\ \A c \in Callers : c \in AllCalls /\ c # Hello
BY ConstantsAssumption DEF AllCalls

(* What stop and Kill leave of the session: t says what the session said.    *)
LEMMA ClosesOK ==
  ASSUME IInv, Stops("done") \/ Stops("look") \/ Stops("quit") \/ Stops("off")
  PROVE  /\ s' \in Session /\ s'.in = s.in /\ s'.doing = s.doing /\ s'.out = s.out
         /\ s'.nextID = s.nextID /\ s'.exited = s.exited /\ s'.helloAnswered = s.helloAnswered
         /\ s'.helloDone = s.helloDone /\ s'.writing = s.writing /\ s'.proc = s.proc
         /\ s'.deaf = s.deaf /\ ~ s'.stdin /\ (s'.exited => s' = OldSession)
         /\ sup'.at = "stop" /\ sup'.then # "pause"
         /\ sup' \in [at : {"stop"}, then : {"done", "look", "quit", "off"}]
<1> DEFINE t == [s EXCEPT !.stdin = FALSE]
<1>1. s \in Session /\ s' = t
  BY DEF IInv, Typed, TypeOK, Stops
<1>2. /\ t \in Session /\ t.in = s.in /\ t.doing = s.doing /\ t.out = s.out
      /\ t.nextID = s.nextID /\ t.exited = s.exited /\ t.helloAnswered = s.helloAnswered
      /\ t.helloDone = s.helloDone /\ t.writing = s.writing /\ t.proc = s.proc
      /\ t.deaf = s.deaf /\ ~ t.stdin
  BY <1>1 DEF Session
<1>3. s.exited => t = OldSession
  <2>1. [OldSession EXCEPT !.stdin = FALSE] = OldSession
    BY DEF OldSession, NewSession
  <2> QED
    BY <2>1 DEF IInv, Supervised
<1> HIDE DEF t
<1>4. sup' \in [at : {"stop"}, then : {"done", "look", "quit", "off"}]
  BY DEF Stops, Goes
<1> QED
  BY <1>1, <1>2, <1>3, <1>4

LEMMA SessionMoves ==
  ASSUME IInv, UNCHANGED <<n, calls, waiting, skipped>>,
         s'.in = s.in, s'.doing = s.doing, s'.out = s.out, s'.nextID = s.nextID,
         s'.exited = s.exited, s'.helloAnswered = s.helloAnswered,
         s'.helloDone = s.helloDone, s'.writing = s.writing, s'.proc \in {s.proc, "exited"},
         sup'.at = "hello" => sup.at = "hello", current' \in {0, current}, Typed', Supervised'
  PROVE  IInv'
<1>1. Asked' = Asked /\ Said' = Said /\ (Wrote => Wrote')
  BY DEF Asked, Said, Wrote
<1>2. LinesOK'
  BY <1>1 DEF IInv, LinesOK
<1>3. Numbered'
  BY <1>1 DEF IInv, Numbered, IsPending
<1>4. Introduced'
  BY <1>1 DEF IInv, Introduced
<1>5. AnswersOwn' /\ HelloFirst' /\ NoTapSkipped'
  BY DEF IInv, AnswersOwn, HelloFirst, NoTapSkipped
<1> QED
  BY <1>1, <1>2, <1>3, <1>4, <1>5 DEF IInv

LEMMA UpHolds ==
  ASSUME IInv, Up
  PROVE  IInv'
<1>1. UNCHANGED <<cancelled, n, avail, calls, taps, tapped, receive, waiting, sent, skipped, begun, budget>>
      /\ sup.at = "up" /\ current' = 0
  BY DEF Up, Leaves, tapping
<1>2. CASE Stops("done")
  <2>1. Typed'
    BY <1>1, <1>2, ClosesOK DEF IInv, Typed, TypeOK
  <2>2. Supervised'
    BY <1>1, <1>2, ClosesOK DEF IInv, Supervised, Quiet
  <2> QED
    BY <1>1, <1>2, <2>1, <2>2, ClosesOK, SessionMoves
<1>3. CASE s.exited /\ Goes(AfterExit, "pause") /\ UNCHANGED s
  <2>1. sup' = [at |-> "off", then |-> "pause"]
    BY <1>3 DEF Goes, AfterExit
  <2>2. Typed'
    BY <1>1, <1>3, <2>1 DEF IInv, Typed, TypeOK
  <2>3. Supervised'
    BY <1>1, <1>3, <2>1 DEF IInv, Supervised, Quiet
  <2> QED
    BY <1>1, <1>3, <2>1, <2>2, <2>3, SessionMoves
<1> QED
  BY <1>2, <1>3 DEF Up

LEMMA KillHolds ==
  ASSUME IInv, Kill
  PROVE  IInv'
<1> DEFINE t == [s EXCEPT !.proc = "exited"]
<1>1. s \in Session /\ s' = t /\ s.proc # "exited" /\ sup.at = "stop"
      /\ UNCHANGED <<cancelled, sup, n, current, avail, calls, taps, tapped, receive, waiting, sent, skipped, begun, budget>>
  BY DEF IInv, Typed, TypeOK, Kill, runner, tapping
<1>2. /\ t \in Session /\ t.in = s.in /\ t.doing = s.doing /\ t.out = s.out
      /\ t.nextID = s.nextID /\ t.exited = s.exited /\ t.helloAnswered = s.helloAnswered
      /\ t.helloDone = s.helloDone /\ t.writing = s.writing /\ t.proc = "exited"
      /\ t.stdin = s.stdin
  BY <1>1 DEF Session
<1> HIDE DEF t
<1>3. ~ s.exited
  BY <1>1 DEF IInv, Supervised, OldSession, NewSession
<1>4. Typed'
  BY <1>1, <1>2 DEF IInv, Typed, TypeOK
<1>5. Supervised'
  BY <1>1, <1>2, <1>3 DEF IInv, Supervised, Quiet
<1> QED
  BY <1>1, <1>2, <1>4, <1>5, SessionMoves

LEMMA StartHolds ==
  ASSUME IInv, StartSession
  PROVE  IInv'
<1>1. UNCHANGED <<cancelled, current, avail, taps, tapped, receive, waiting, skipped>>
      /\ sup.at = "start" /\ current = 0 /\ calls[Hello].at = "idle" /\ avail # "ready"
  BY DEF StartSession, IInv, Supervised
<1>2. CASE Input("no start") /\ Goes("off", "pause") /\ UNCHANGED <<n, s, calls, sent, begun>>
  <2>1. IsABag(budget')
    BY <1>2, InputOK DEF IInv, Typed, TypeOK
  <2>2. sup' = [at |-> "off", then |-> "pause"]
    BY <1>2 DEF Goes
  <2>3. Typed'
    BY <1>1, <1>2, <2>1, <2>2 DEF IInv, Typed, TypeOK
  <2>4. Supervised'
    BY <1>1, <1>2, <2>2 DEF IInv, Supervised, Quiet
  <2> QED
    BY <1>1, <1>2, <2>2, <2>3, <2>4, OthersSame
<1>3. CASE /\ n' = n + 1 /\ s' = NewSession /\ sent' = {}
           /\ calls' = [calls EXCEPT ![Hello] = NewCall(n + 1)]
           /\ begun' = begun + 1 /\ Goes("hello", "pause") /\ UNCHANGED budget
  <2> DEFINE m == n + 1
             r == NewCall(m)
  <2>1. /\ n \in Nat /\ begun \in Nat /\ calls \in [AllCalls -> Call] /\ m \in Nat /\ m > n /\ m # 0
        /\ begun' \in Nat /\ IsABag(budget')
    BY <1>3 DEF IInv, Typed, TypeOK
  <2>2. n' = m /\ calls' = [calls EXCEPT ![Hello] = r] /\ sup' = [at |-> "hello", then |-> "pause"]
    BY <1>3 DEF Goes
  <2> HIDE DEF m
  <2>3. /\ r \in Call /\ r.at = "register" /\ r.session = m /\ r.reply = NoLine /\ r.outcome = "none"
    BY <2>1, NewCallOK
  <2> HIDE DEF r
  <2>4. /\ calls' \in [AllCalls -> Call] /\ calls'[Hello] = r
        /\ \A c \in Callers : calls'[c] = calls[c]
    BY <2>1, <2>2, <2>3, HelloIsACall
  <2>5. <<>> \in Seq(Request) /\ <<>> \in Seq(Line)
    OBVIOUS
  <2>6. NewSession \in Session
    BY <2>5 DEF NewSession, Session
  <2>7. /\ s'.in = <<>> /\ s'.out = <<>> /\ s'.doing = {} /\ s'.nextID = 0 /\ ~ s'.exited /\ s'.stdin
        /\ ~ s'.helloDone /\ ~ s'.writing
    BY <1>3 DEF NewSession
  <2>8. Asked' = {} /\ Said' = {} /\ ToSet(s'.in) = {} /\ ToSet(s.in)' = {} /\ Len(s'.out) = 0
    BY <2>7 DEF Asked, Said, ToSet
  <2>9. \A c \in Callers : calls[c].at # "idle" => calls[c].session <= n
    BY DEF IInv, Introduced
  <2>10. \A c \in Callers : calls[c].session \in Nat
    BY <2>1, HelloIsACall DEF Call
  <2>11. Typed'
    BY <1>1, <1>3, <2>1, <2>2, <2>4, <2>6 DEF IInv, Typed, TypeOK
  <2>12. Supervised'
    BY <1>1, <2>1, <2>2, <2>3, <2>4, <2>7 DEF Supervised, Quiet
  <2>13. LinesOK'
    BY <2>3, <2>4, <2>8 DEF IInv, LinesOK, AllCalls
  <2>14. \A c \in AllCalls : ~ IsPending(c)'
    BY <2>1, <2>2, <2>3, <2>4, <2>9, <2>10 DEF IsPending, AllCalls
  <2>15. Numbered'
    BY <2>3, <2>4, <2>7, <2>8, <2>14 DEF Numbered
  <2>16. Introduced'
    <3>1. \A c \in Callers : calls'[c].at # "idle" => calls'[c].session <= m /\ calls'[c].session # m
      BY <2>1, <2>4, <2>9, <2>10
    <3> QED
      BY <1>1, <2>2, <2>3, <2>4, <2>8, <3>1 DEF Introduced, NoLine
  <2>17. AnswersOwn'
    BY <2>3, <2>4 DEF IInv, AnswersOwn, AllCalls
  <2>18. HelloFirst' /\ NoTapSkipped'
    BY <1>1, <2>7, <2>8 DEF IInv, HelloFirst, NoTapSkipped
  <2> QED
    BY <2>11, <2>12, <2>13, <2>15, <2>16, <2>17, <2>18 DEF IInv
<1> QED
  BY <1>2, <1>3 DEF StartSession

LEMMA GreetedHolds ==
  ASSUME IInv, Greeted
  PROVE  IInv'
<1>1. /\ UNCHANGED <<cancelled, n, avail, taps, receive, waiting, sent, skipped, begun, budget>>
      /\ sup.at = "hello" /\ calls[Hello].at = "ended" /\ current = 0 /\ n # 0 /\ avail # "ready"
      /\ calls' = [calls EXCEPT ![Hello] = NoCall]
  BY DEF Greeted, IInv, Supervised
<1>2. calls \in [AllCalls -> Call] /\ s \in Session /\ n \in Nat
  BY DEF IInv, Typed, TypeOK
<1>3. /\ calls' \in [AllCalls -> Call] /\ calls'[Hello] = NoCall
      /\ \A c \in Callers : calls'[c] = calls[c]
  BY <1>1, <1>2, NoCallOK, HelloIsACall
<1>4. PICK then \in {"done", "look", "quit", "off", "ok"} :
        \/ /\ then = "ok" /\ calls[Hello].outcome = "ok" /\ Becomes
           /\ Goes("announce", "pause") /\ UNCHANGED s
        \/ then # "ok" /\ Stops(then) /\ UNCHANGED <<current, tapped>>
  <2>1. CASE calls[Hello].outcome = "ok" /\ ~ cancelled
    BY <2>1 DEF Greeted
  <2>2. CASE ~ (calls[Hello].outcome = "ok" /\ ~ cancelled)
    <3>1. Stops("done") \/ Stops("look") \/ Stops("quit") \/ Stops("off")
      BY <2>2, Zenon DEF Greeted
    <3>2. UNCHANGED <<current, tapped>>
      BY <2>2 DEF Greeted
    <3> QED
      BY <3>1, <3>2
  <2> QED
    BY <2>1, <2>2
<1>5. /\ s' \in Session /\ s'.in = s.in /\ s'.doing = s.doing /\ s'.out = s.out
      /\ s'.nextID = s.nextID /\ s'.exited = s.exited /\ s'.helloAnswered = s.helloAnswered
      /\ s'.helloDone = s.helloDone /\ s'.writing = s.writing /\ s'.proc = s.proc
      /\ s'.exited => s' = OldSession
  BY <1>2, <1>4, ClosesOK DEF IInv, Supervised
<1>6. Asked' = Asked /\ Said' = Said /\ Wrote' = Wrote
  BY <1>5 DEF Asked, Said, Wrote
<1>7. \/ /\ current' = n /\ Wrote /\ sup' = [at |-> "announce", then |-> "pause"] /\ tapped' = TRUE
      \/ /\ current' = 0 /\ sup' \in [at : {"stop"}, then : {"done", "look", "quit", "off"}]
         /\ ~ s'.stdin /\ sup'.then # "pause" /\ tapped' = tapped
  BY <1>1, <1>4, ClosesOK DEF Becomes, Goes, IInv, Introduced
<1>8. Typed'
  <2>1. /\ sup' \in [at : {"announce", "stop"}, then : {"pause", "done", "look", "quit", "off"}]
    BY <1>7
  <2>2. current' \in {0, n}
    BY <1>7
  <2>3. tapped' \in BOOLEAN
    BY <1>7 DEF IInv, Typed, TypeOK
  <2> QED
    BY <1>1, <1>3, <1>5, <2>1, <2>2, <2>3 DEF IInv, Typed, TypeOK
<1>9. Supervised'
  BY <1>1, <1>3, <1>5, <1>7, NoCallOK DEF Supervised, Quiet
<1>10. LinesOK'
  BY <1>1, <1>3, <1>6, NoCallOK DEF IInv, LinesOK, AllCalls
<1>11. Numbered'
  <2>1. \A c \in AllCalls : IsPending(c)' => IsPending(c) /\ calls'[c] = calls[c]
    BY <1>1, <1>3, NoCallOK DEF IsPending, AllCalls
  <2>2. calls'[Hello].at # "register" /\ calls[Hello].at # "register"
    BY <1>1, <1>3, NoCallOK
  <2> QED
    BY <1>1, <1>5, <1>6, <2>1, <2>2 DEF IInv, Numbered
<1>12. Introduced'
  BY <1>1, <1>3, <1>5, <1>6, <1>7, NoCallOK DEF IInv, Introduced, NoLine
<1>13. AnswersOwn'
  BY <1>3, NoCallOK DEF IInv, AnswersOwn, AllCalls
<1>14. HelloFirst' /\ NoTapSkipped'
  BY <1>1, <1>5 DEF IInv, HelloFirst, NoTapSkipped
<1> QED
  BY <1>8, <1>9, <1>10, <1>11, <1>12, <1>13, <1>14 DEF IInv

----------------------------------------------------------------------------
(* The session's goroutines, Receive and the world.                         *)

LEMMA ExitHolds ==
  ASSUME IInv, Exit
  PROVE  IInv'
<1>1. /\ s' = OldSession
      /\ UNCHANGED <<cancelled, sup, n, current, avail, calls, taps, tapped, receive, waiting, sent, skipped, begun, budget>>
  BY DEF Exit, runner, tapping
<1>2. /\ s'.in = <<>> /\ s'.out = <<>> /\ s'.doing = {} /\ s'.exited /\ s'.proc = "exited" /\ ~ s'.stdin
  BY <1>1 DEF OldSession, NewSession
<1>3. Said' = {} /\ ToSet(s.in)' = {} /\ Len(s'.out) = 0 /\ Wrote'
  BY <1>2 DEF Said, ToSet, Wrote
<1>4. OldSession \in Session
  <2>1. <<>> \in Seq(Request) /\ <<>> \in Seq(Line)
    OBVIOUS
  <2> QED
    BY <2>1 DEF OldSession, NewSession, Session
<1>5. Typed'
  BY <1>1, <1>4 DEF IInv, Typed, TypeOK
<1>6. Supervised'
  BY <1>1, <1>2 DEF IInv, Supervised
<1>7. LinesOK' /\ Numbered' /\ HelloFirst'
  BY <1>1, <1>2, <1>3 DEF IInv, LinesOK, Numbered, HelloFirst
<1>8. Introduced'
  BY <1>1, <1>3 DEF IInv, Introduced
<1>9. AnswersOwn' /\ NoTapSkipped'
  BY <1>1 DEF IInv, AnswersOwn, NoTapSkipped
<1> QED
  BY <1>5, <1>6, <1>7, <1>8, <1>9 DEF IInv

LEMMA ReadHolds ==
  ASSUME IInv, Read
  PROVE  IInv'
<1> DEFINE line == Head(s.out)
           heard == s.helloAnswered \/ line.id = 1
           t == [s EXCEPT !.out = Tail(@), !.helloAnswered = heard]
           goes(c) == line.id # 0 /\ c \in Waits(line.id)
<1>1. /\ s \in Session /\ s.out \in Seq(Line) /\ s.out # <<>> /\ calls \in [AllCalls -> Call]
      /\ n \in Nat /\ taps \in Seq(Nat) /\ ~ s.exited
  BY DEF IInv, Typed, TypeOK, Session, Read
<1>2. /\ line \in Line /\ line \in Said /\ line = s.out[1] /\ Tail(s.out) \in Seq(Line)
      /\ ToSet(Tail(s.out)) \subseteq Said /\ Len(Tail(s.out)) = Len(s.out) - 1 /\ Len(s.out) > 0
      /\ \A i \in 1..(Len(s.out) - 1) : Tail(s.out)[i] = s.out[i + 1]
  BY <1>1, Taken DEF Said
<1>3. /\ UNCHANGED <<cancelled, sup, n, current, avail, receive, waiting, sent, begun, budget>>
      /\ s' = t
      /\ calls' = [c \in AllCalls |-> IF goes(c) THEN [calls[c] EXCEPT !.reply = line] ELSE calls[c]]
  BY DEF Read, runner
<1>4. IF line.id # 0 THEN UNCHANGED <<taps, tapped, skipped>>
      ELSE IF s.helloAnswered
      THEN taps' = Append(taps, line.of) /\ tapped' = TRUE /\ UNCHANGED skipped
      ELSE skipped' = skipped \cup {line.of} /\ UNCHANGED <<taps, tapped>>
  BY DEF Read
<1>5. heard \in BOOLEAN
  OBVIOUS
<1>6. heard <=> (s.helloAnswered \/ line.id = 1)
  OBVIOUS
<1> HIDE DEF line, heard
<1>7. /\ t \in Session /\ t.in = s.in /\ t.doing = s.doing /\ t.out = Tail(s.out)
      /\ t.nextID = s.nextID /\ t.exited = s.exited /\ t.helloAnswered = heard
      /\ t.helloDone = s.helloDone /\ t.writing = s.writing /\ t.proc = s.proc /\ t.stdin = s.stdin
  BY <1>1, <1>2, <1>5 DEF Session
<1> HIDE DEF t
<1>8. IF line.id = 0 THEN line.what = "tap" /\ line.of \in waiting
      ELSE line.what \in Answers \ {"refused"}
  BY <1>2 DEF IInv, LinesOK
<1>9. line.id = 0 => s.helloAnswered
  BY <1>2 DEF IInv, HelloFirst
<1>10. skipped' = skipped
  BY <1>4, <1>9
<1>11. taps' \in Seq(Nat) /\ tapped' \in BOOLEAN
  <2>1. line.of \in Nat
    BY <1>2 DEF Line
  <2>2. Append(taps, line.of) \in Seq(Nat)
    BY <1>1, <2>1
  <2>3. tapped \in BOOLEAN
    BY DEF IInv, Typed, TypeOK
  <2> QED
    BY <1>1, <1>4, <1>9, <2>2, <2>3
<1>12. \A c \in AllCalls : goes(c) => IsPending(c) /\ calls[c].id = line.id /\ line.id # 0
  BY DEF Waits, Pending, IsPending
<1>13. \A c \in AllCalls :
         /\ calls'[c] \in Call /\ calls'[c].at = calls[c].at /\ calls'[c].session = calls[c].session
         /\ calls'[c].id = calls[c].id /\ calls'[c].of = calls[c].of
         /\ calls'[c].outcome = calls[c].outcome
         /\ calls'[c].reply = calls[c].reply \/ (goes(c) /\ calls'[c].reply = line)
  <2> SUFFICES ASSUME NEW c \in AllCalls
               PROVE  /\ calls'[c] \in Call /\ calls'[c].at = calls[c].at
                      /\ calls'[c].session = calls[c].session
                      /\ calls'[c].id = calls[c].id /\ calls'[c].of = calls[c].of
                      /\ calls'[c].outcome = calls[c].outcome
                      /\ calls'[c].reply = calls[c].reply \/ (goes(c) /\ calls'[c].reply = line)
    OBVIOUS
  <2> DEFINE r == [calls[c] EXCEPT !.reply = line]
  <2>1. calls[c] \in Call
    BY <1>1
  <2>2. /\ r \in Call /\ r.at = calls[c].at /\ r.session = calls[c].session /\ r.id = calls[c].id
        /\ r.of = calls[c].of /\ r.outcome = calls[c].outcome /\ r.reply = line
    BY <1>2, <2>1 DEF Call
  <2>3. calls'[c] = IF goes(c) THEN r ELSE calls[c]
    BY <1>3
  <2> HIDE DEF r, goes
  <2> QED
    BY <2>1, <2>2, <2>3
<1> HIDE DEF goes
<1>14. calls' \in [AllCalls -> Call]
  <2>1. DOMAIN calls' = AllCalls
    BY <1>3
  <2>2. calls' = [c \in AllCalls |-> calls'[c]]
    BY <1>3
  <2> QED
    BY <1>13, <2>1, <2>2
<1>15. Asked' = Asked /\ Said' \subseteq Said /\ Wrote' = Wrote
  BY <1>2, <1>3, <1>7 DEF Asked, Said, Wrote
<1>16. Typed'
  BY <1>3, <1>7, <1>10, <1>11, <1>14 DEF IInv, Typed, TypeOK
<1>17. Supervised'
  <2>1. calls'[Hello].at = calls[Hello].at /\ calls'[Hello].session = calls[Hello].session
    BY <1>13, HelloIsACall
  <2> QED
    BY <1>1, <1>3, <1>7, <2>1 DEF IInv, Supervised
<1>18. LinesOK'
  BY <1>3, <1>8, <1>12, <1>13, <1>15 DEF IInv, LinesOK
<1>19. Numbered'
  <2>1. \A c \in AllCalls : IsPending(c)' <=> IsPending(c)
    BY <1>3, <1>13 DEF IsPending
  <2>2. calls'[Hello].at = calls[Hello].at
    BY <1>13, HelloIsACall
  <2> QED
    BY <1>1, <1>3, <1>7, <1>13, <1>15, <2>1, <2>2 DEF IInv, Numbered
<1>20. Introduced'
  <2>1. calls'[Hello].reply.what = "ok" \/ calls'[Hello].outcome = "ok" => Wrote
    <3>1. CASE calls'[Hello].reply = calls[Hello].reply
      BY <1>13, <3>1, HelloIsACall DEF IInv, Introduced
    <3>2. CASE goes(Hello) /\ calls'[Hello].reply = line
      <4>1. line.id = 1
        BY <1>1, <1>12, <3>2, HelloIsACall DEF IInv, Numbered
      <4> QED
        BY <1>2, <1>13, <3>2, <4>1, HelloIsACall DEF IInv, Introduced
    <3> QED
      BY <1>13, <3>1, <3>2, HelloIsACall
  <2>2. \A c \in Callers : calls'[c].at = calls[c].at /\ calls'[c].session = calls[c].session
    BY <1>13, HelloIsACall
  <2> QED
    BY <1>3, <1>7, <1>15, <2>1, <2>2 DEF IInv, Introduced
<1>21. AnswersOwn'
  <2>1. ASSUME NEW c \in AllCalls, goes(c)
        PROVE  line.of = calls[c].of /\ line.what # "refused"
    <3>1. IsPending(c) /\ calls[c].id = line.id /\ line.id # 0
      BY <1>12, <2>1
    <3> QED
      BY <1>1, <1>2, <1>8, <3>1 DEF IInv, Numbered
  <2> QED
    BY <1>13, <2>1 DEF IInv, AnswersOwn
<1>22. HelloFirst'
  <2>1. /\ Len(t.out) = Len(s.out) - 1 /\ Len(s.out) \in Nat
        /\ \A i \in 1..Len(t.out) : t.out[i] = s.out[i + 1]
    BY <1>1, <1>2, <1>7
  <2>2. ASSUME NEW k \in 1..Len(s.out), s.out[k].id = 1
        PROVE  heard \/ (k > 1 /\ t.out[k - 1].id = 1)
    <3>1. CASE k = 1
      BY <1>2, <1>6, <2>2, <3>1
    <3>2. CASE k > 1
      <4>1. k - 1 \in 1..Len(t.out) /\ (k - 1) + 1 = k
        BY <2>1, <3>2
      <4> QED
        BY <2>1, <2>2, <3>2, <4>1
    <3> QED
      BY <3>1, <3>2
  <2>3. ASSUME NEW i \in 1..Len(t.out), t.out[i].id = 0
        PROVE  heard \/ \E j \in 1..(i - 1) : t.out[j].id = 1
    <3>1. i + 1 \in 1..Len(s.out) /\ s.out[i + 1].id = 0
      BY <2>1, <2>3
    <3>2. s.helloAnswered \/ \E j \in 1..i : s.out[j].id = 1
      BY <3>1 DEF IInv, HelloFirst
    <3>3. CASE s.helloAnswered
      BY <1>6, <3>3
    <3>4. CASE \E j \in 1..i : s.out[j].id = 1
      <4>1. PICK k \in 1..i : s.out[k].id = 1
        BY <3>4
      <4>2. k \in 1..Len(s.out)
        BY <2>1, <3>1
      <4>3. heard \/ (k > 1 /\ t.out[k - 1].id = 1)
        BY <2>2, <4>1, <4>2
      <4>4. k > 1 => k - 1 \in 1..(i - 1)
        OBVIOUS
      <4> QED
        BY <4>3, <4>4
    <3> QED
      BY <3>2, <3>3, <3>4
  <2>4. ASSUME s.helloDone \/ s.writing
        PROVE  heard \/ \E j \in 1..Len(t.out) : t.out[j].id = 1
    <3>1. CASE s.helloAnswered
      BY <1>6, <3>1
    <3>2. CASE \E j \in 1..Len(s.out) : s.out[j].id = 1
      <4>1. PICK k \in 1..Len(s.out) : s.out[k].id = 1
        BY <3>2
      <4>2. heard \/ (k > 1 /\ t.out[k - 1].id = 1)
        BY <2>2, <4>1
      <4>3. k > 1 => k - 1 \in 1..Len(t.out)
        BY <2>1
      <4> QED
        BY <4>2, <4>3
    <3> QED
      BY <1>1, <2>4, <3>1, <3>2 DEF IInv, HelloFirst
  <2> QED
    BY <1>3, <1>7, <2>3, <2>4 DEF HelloFirst
<1>23. NoTapSkipped'
  BY <1>10 DEF IInv, NoTapSkipped
<1> QED
  BY <1>16, <1>17, <1>18, <1>19, <1>20, <1>21, <1>22, <1>23 DEF IInv

LEMMA RestHolds ==
  ASSUME IInv, Cancel \/ Receives \/ ReceiveTimer \/ Press
  PROVE  IInv'
<1>1. UNCHANGED <<sup, n, current, avail, s, calls, sent, begun, skipped>>
  BY DEF Cancel, Receives, ReceiveLooks, ReceiveWakes, ReceiveEnds, ReceiveTimer, Press, runner, tapping
<1>2. Supervised'
  BY <1>1 DEF IInv, Supervised
<1>3. Typed' /\ waiting \subseteq waiting'
  <2>1. CASE Cancel
    BY <1>1, <2>1, InputOK DEF Cancel, tapping, IInv, Typed, TypeOK
  <2>2. CASE Receives \/ ReceiveTimer
    <3>1. UNCHANGED <<cancelled, waiting, budget>>
      BY <2>2 DEF Receives, ReceiveLooks, ReceiveWakes, ReceiveEnds, ReceiveTimer, runner
    <3>2. taps' \in Seq(Nat) /\ receive' \in {"look", "wait", "ended"} /\ tapped' \in BOOLEAN
      <4>1. <<>> \in Seq(Nat)
        OBVIOUS
      <4> QED
        BY <2>2, <4>1 DEF Receives, ReceiveLooks, ReceiveWakes, ReceiveEnds, ReceiveTimer, IInv, Typed, TypeOK
    <3> QED
      BY <1>1, <3>1, <3>2 DEF IInv, Typed, TypeOK
  <2>3. CASE Press
    <3> DEFINE tap == Cardinality(waiting) + 1
    <3>1. tap \in Nat
      BY FS_CardinalityType DEF IInv, Typed
    <3>2. waiting' = waiting \cup {tap} /\ UNCHANGED <<cancelled, taps, tapped, receive>> /\ IsABag(budget')
      BY <2>3, InputOK DEF Press, runner, IInv, Typed, TypeOK
    <3> HIDE DEF tap
    <3>3. IsFiniteSet(waiting')
      BY <3>2, FS_AddElement DEF IInv, Typed
    <3> QED
      BY <1>1, <3>1, <3>2, <3>3 DEF IInv, Typed, TypeOK
  <2> QED
    BY <2>1, <2>2, <2>3
<1> QED
  BY <1>1, <1>2, <1>3, OthersSame

----------------------------------------------------------------------------
(* The theorems.                                                           *)

LEMMA InitHolds == Init => IInv
<1> SUFFICES ASSUME Init PROVE IInv
  OBVIOUS
<1>1. /\ s = OldSession /\ s.in = <<>> /\ s.out = <<>> /\ s.exited /\ s.proc = "exited"
      /\ OldSession \in Session
  <2>1. <<>> \in Seq(Request) /\ <<>> \in Seq(Line)
    OBVIOUS
  <2> QED
    BY <2>1 DEF Init, OldSession, NewSession, Session
<1>2. \A c \in AllCalls : calls[c] = NoCall
  BY DEF Init
<1>3. Said = {} /\ ToSet(s.in) = {} /\ Len(s.out) = 0 /\ Wrote
  BY <1>1 DEF Said, ToSet, Wrote
<1>4. TypeOK
  <2>1. <<>> \in Seq(Nat) /\ IsABag(budget)
    BY ConstantsAssumption DEF Init
  <2>2. sup \in [at : {"start"}, then : {"pause"}]
    BY DEF Init
  <2>3. calls \in [AllCalls -> Call]
    BY NoCallOK DEF Init
  <2> QED
    BY <1>1, <2>1, <2>2, <2>3 DEF Init, TypeOK
<1>5. IsFiniteSet(waiting)
  BY FS_EmptySet DEF Init
<1>6. Supervised
  BY <1>1, <1>2, NoCallOK, HelloIsACall DEF Init, Supervised, Quiet
<1>7. LinesOK /\ Numbered /\ HelloFirst /\ AnswersOwn /\ NoTapSkipped
  BY <1>1, <1>2, <1>3, NoCallOK DEF Init, LinesOK, Numbered, HelloFirst, AnswersOwn, NoTapSkipped
<1>8. Introduced
  BY <1>2, <1>3, NoCallOK, HelloIsACall DEF Init, Introduced
<1> QED
  BY <1>4, <1>5, <1>6, <1>7, <1>8 DEF IInv, Typed

LEMMA NextHolds == IInv /\ [Next]_vars => IInv'
<1> SUFFICES ASSUME IInv, [Next]_vars PROVE IInv'
  OBVIOUS
<1>1. CASE Supervises \/ Pause
  BY <1>1, StartHolds, GreetedHolds, TurnHolds, UpHolds, KillHolds DEF Supervises
<1>2. CASE Program
  BY <1>2, ProgramHolds
<1>3. CASE \E c \in Callers : Begin(c)
  BY <1>3, BeginHolds
<1>4. CASE \E c \in AllCalls : Calls(c)
  BY <1>4, CallsHold
<1>5. CASE Cancel \/ Receives \/ ReceiveTimer \/ Press
  BY <1>5, RestHolds
<1>6. CASE Read \/ Exit
  BY <1>6, ReadHolds, ExitHolds
<1>7. CASE UNCHANGED vars
  <2>1. UNCHANGED <<cancelled, sup, n, current, avail, s, calls, taps, tapped, receive, waiting, sent, skipped, begun, budget>>
    BY <1>7 DEF vars, runner, tapping
  <2>2. Typed' /\ Supervised'
    BY <2>1 DEF IInv, Typed, TypeOK, Supervised
  <2> QED
    BY <2>1, <2>2, OthersSame
<1> QED
  BY <1>1, <1>2, <1>3, <1>4, <1>5, <1>6, <1>7 DEF Next

LEMMA Holds == Spec => []IInv
BY InitHolds, NextHolds, PTL DEF Spec

(* The runner's state is what its code keeps, at every step (runner.go).     *)
THEOREM RunnerTyped == Spec => []TypeOK
BY Holds, PTL DEF IInv, Typed

(* With any number of callers, sessions, timeouts and deaths, a call gets the *)
(* program's answer to itself, and is never refused (call, readStdout, ready).*)
THEOREM CallsGetTheirAnswer == Spec => []AnswersOwn
BY Holds, PTL DEF IInv

(* The supervisor never starts a program while another runs, and is done only *)
(* when the last has exited (runOnce, stop).                                 *)
THEOREM OneProgramRuns == Spec => []OneProgram
<1>1. IInv => OneProgram
  BY DEF IInv, Supervised, Quiet, OneProgram
<1> QED
  BY <1>1, Holds, PTL

(* The reader throws no tap away: each comes up behind hello's reply (write,   *)
(* handle, readStdout).                                                      *)
THEOREM TapsAreKept == Spec => []NoTapSkipped
BY Holds, PTL DEF IInv

(* Each step of the runner and its program is a step of the channel that      *)
(* TwoWayMessages uses, or none: it is announced as usable only once, and as  *)
(* gone before another program is (setCurrent, setAvailability, supervise).   *)
THEOREM RunnerImplementsChannel == Spec => Implements
<1> DEFINE mapped == IF current = 0 THEN (IF avail = "ready" THEN "lost" ELSE "down")
                     ELSE IF avail = "ready" THEN (IF Alive THEN "up" ELSE "lost")
                     ELSE IF Alive THEN "opened" ELSE "died"
<1>1. Init => Channel!Init
  BY DEF Init, Channel!Init
<1>2. ASSUME IInv, [Next]_vars
      PROVE  [Channel!Opens \/ Channel!Dies \/ Channel!AnnounceReady \/ Channel!AnnounceDown
              \/ Channel!Restarts]_mapped
  <2> DEFINE step == Channel!Opens \/ Channel!Dies \/ Channel!AnnounceReady \/ Channel!AnnounceDown
                     \/ Channel!Restarts
  <2>1. ASSUME UNCHANGED <<current, avail>>, Alive' => Alive \/ current = 0
        PROVE  mapped' = mapped \/ step
    <3>1. CASE current = 0 \/ Alive' = Alive
      BY <2>1, <3>1
    <3>2. CASE current # 0 /\ Alive /\ ~ Alive'
      BY <2>1, <3>2 DEF Channel!Dies, Channel!Gone, Channel!Answers
    <3> QED
      BY <2>1, <3>1, <3>2
  <2>2. CASE Greeted
    <3>1. current = 0 /\ avail # "ready" /\ avail' = avail /\ n # 0
      BY <1>2, <2>2 DEF Greeted, IInv, Supervised
    <3>2. current' = n \/ current' = 0
      BY <2>2, <3>1 DEF Greeted, Becomes
    <3> QED
      BY <3>1, <3>2 DEF Channel!Opens
  <2>3. CASE Announce
    <3>1. current # 0 /\ avail # "ready" /\ avail' = "ready" /\ UNCHANGED <<current, s>>
      BY <1>2, <2>3 DEF Announce, IInv, Supervised
    <3> QED
      BY <3>1 DEF Channel!AnnounceReady, Alive, Running
  <2>4. CASE Up
    <3>1. current # 0 /\ avail = "ready" /\ avail' = avail /\ current' = 0
      BY <1>2, <2>4 DEF Up, Leaves, IInv, Supervised
    <3> QED
      BY <3>1 DEF Channel!Dies, Channel!Gone, Channel!Answers
  <2>5. CASE AnnounceOff
    <3>1. current = 0 /\ avail' = "off" /\ current' = current
      BY <1>2, <2>5 DEF AnnounceOff, IInv, Supervised
    <3> QED
      BY <3>1 DEF Channel!AnnounceDown
  <2>6. CASE StartSession
    <3>1. current = 0 /\ UNCHANGED <<current, avail>>
      BY <1>2, <2>6 DEF StartSession, IInv, Supervised
    <3> QED
      BY <2>1, <3>1
  <2>7. CASE Program \/ Kill \/ Exit
    <3>1. UNCHANGED <<current, avail>>
      BY <2>7 DEF Program, Handle, Answer, Written, SendTap, Ending, Ended, Dies, ClosesStdin, InProgram, Kill, Exit, runner
    <3>2. s \in Session
      BY <1>2 DEF IInv, Typed, TypeOK
    <3>3. Alive' => Alive
      <4>1. CASE Exit \/ Kill \/ Ending \/ Ended \/ Dies
        BY <3>2, <4>1 DEF Exit, Kill, Ending, Ended, Dies, OldSession, NewSession, Session, Alive, Running
      <4>2. CASE ClosesStdin
        BY <3>2, <4>2 DEF ClosesStdin, Session, Alive, Running
      <4>3. CASE Handle \/ Written
        BY <3>2, <4>3 DEF Handle, Written, Session, Alive, Running
      <4>4. CASE \E tap \in waiting : SendTap(tap)
        BY <3>2, <4>4 DEF SendTap, Session, Alive, Running
      <4>5. CASE \E r \in s.doing : Answer(r)
        <5>1. s'.proc = s.proc /\ s'.deaf = s.deaf
          BY <3>2, <4>5 DEF Answer, Session
        <5> QED
          BY <5>1 DEF Alive, Running
      <4> QED
        BY <2>7, <4>1, <4>2, <4>3, <4>4, <4>5 DEF Program
    <3> QED
      BY <2>1, <3>1, <3>3
  <2>8. CASE Read \/ \E c \in AllCalls : Calls(c)
    <3>1. UNCHANGED <<current, avail>>
      BY <2>8 DEF Read, Calls, Register, Write, GetsReply, SeesExit, TimesOut, IsCancelled, Elsewhere, runner
    <3>2. s \in Session
      BY <1>2 DEF IInv, Typed, TypeOK
    <3>3. s'.proc = s.proc /\ s'.deaf = s.deaf
      <4>1. CASE Read
        BY <3>2, <4>1 DEF Read, Session
      <4>2. CASE \E c \in AllCalls : Calls(c)
        BY <3>2, <4>2 DEF Calls, Register, Write, GetsReply, SeesExit, TimesOut, IsCancelled, Session
      <4> QED
        BY <2>8, <4>1, <4>2
    <3> QED
      BY <2>1, <3>1, <3>3 DEF Alive, Running
  <2>9. CASE \/ Stopped \/ Pause \/ Cancel \/ Receives \/ ReceiveTimer \/ Press \/ UNCHANGED vars
             \/ \E c \in Callers : Begin(c)
    <3>1. UNCHANGED <<current, avail, s>>
      BY <2>9 DEF Stopped, Pause, Cancel, Receives, ReceiveLooks, ReceiveWakes, ReceiveEnds,
                  ReceiveTimer, Press, vars, Begin, runner
    <3> QED
      BY <2>1, <3>1 DEF Alive, Running
  <2> QED
    BY <1>2, <2>2, <2>3, <2>4, <2>5, <2>6, <2>7, <2>8, <2>9 DEF Next, Supervises
<1> QED
  BY <1>1, <1>2, Holds, PTL DEF Spec, Implements, Channel!Spec
=============================================================================
