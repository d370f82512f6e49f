---------------------------- MODULE RunnerProofs ----------------------------
(***************************************************************************)
(* Theorems about Runner and the requests it makes (Protocol), for any     *)
(* status codes, waits, document, cut into blocks and number of retries,   *)
(* starts and crashes.                                                     *)
(*                                                                         *)
(* The invariant of Runner: where a run may be in which state of the       *)
(* current block, how far storage is behind memory, and what the counters  *)
(* stand for at each place of the loop.                                    *)
(***************************************************************************)
EXTENDS Runner, FiniteSetTheorems, SequenceTheorems, TLAPS

USE ProtocolAssumption

-----------------------------------------------------------------------------
(* Replies.                                                                *)

\* The kinds of failure are failures, and a result is none.
LEMMA Kinds ==
    /\ {Fatal, Passing, Mismatch, Unreachable} \subseteq Failure
    /\ Fatal.wait = 0 /\ ~Fatal.retryable /\ ~Fatal.rateLimited /\ ~Fatal.unreachable
    /\ Passing.wait = 0 /\ ~Passing.rateLimited /\ ~Passing.unreachable
    /\ Mismatch.wait = 0 /\ ~Mismatch.rateLimited /\ ~Mismatch.unreachable
    /\ Unreachable.wait = 0 /\ ~Unreachable.retryable /\ ~Unreachable.rateLimited
BY DEF Failure, Fatal, Passing, Mismatch, Unreachable, APIError

\* A translated block is told from a failure.
LEMMA ResultIsNoFailure == ASSUME NEW ids PROVE Result(ids) \notin Failure
<1> SUFFICES ASSUME Result(ids) \in Failure PROVE FALSE
  OBVIOUS
<1>1. DOMAIN Result(ids) = {"unreachable", "retryable", "wait", "rateLimited", "structure"}
  BY DEF Failure
<1>2. DOMAIN Result(ids) = {"translated"}
  BY DEF Result
<1> QED BY <1>1, <1>2

\* A reply without an odd line that has as many lines as there are cues translates
\* every cue: no line can be missing where none is twice (parseTranslation).
LEMMA WholeReply ==
    ASSUME NEW ids, IsFiniteSet(ids), NEW lines \in Seq(Line(ids \cup {-1})),
           Len(lines) = Cardinality(ids),
           \A i \in 1 .. Len(lines) : ~Odd(ids, lines, i)
    PROVE  {lines[i].cue : i \in 1 .. Len(lines)} = ids
<1> DEFINE n == Cardinality(ids)
           f == [i \in 1 .. n |-> lines[i].cue]
<1>1. n \in Nat
  BY FS_CardinalityType
<1>2. f \in [1 .. n -> ids]
  BY DEF Odd
<1>3. ASSUME NEW i \in 1 .. n, NEW k \in 1 .. n, f[i] = f[k] PROVE i = k
  <2>1. lines[i].cue = lines[k].cue
    BY <1>3
  <2>2. ~(i < k) /\ ~(k < i)
    BY <2>1, <1>1 DEF Odd
  <2> QED BY <2>2, <1>1
<1>4. f \in Injection(1 .. n, ids)
  BY <1>2, <1>3 DEF Injection, IsInjective
<1>5. Cardinality(1 .. n) = n
  BY <1>1, FS_Interval
<1>6. f \in Surjection(1 .. n, ids)
  BY <1>4, <1>5, FS_Injection
<1>7. \A c \in ids : \E i \in 1 .. n : lines[i].cue = c
  BY <1>6 DEF Surjection
<1> QED BY <1>2, <1>7

\* parseTranslation gives all cues their translation or fails, and asks for no wait.
LEMMA ParseFacts ==
    ASSUME NEW ids, IsFiniteSet(ids), NEW lines \in Seq(Line(ids \cup {-1})),
           NEW v, v = ParseTranslation(ids, lines)
    PROVE  v \in {Result(ids), Mismatch, Passing}
<1> DEFINE bad == {i \in 1 .. Len(lines) : Odd(ids, lines, i) \/ lines[i].text = "retagged"}
<1>1. CASE Len(lines) # Cardinality(ids)
  BY <1>1 DEF ParseTranslation
<1>2. CASE Len(lines) = Cardinality(ids) /\ bad = {}
  <2>1. v = Result({lines[i].cue : i \in 1 .. Len(lines)})
    BY <1>2 DEF ParseTranslation
  <2>2. \A i \in 1 .. Len(lines) : ~Odd(ids, lines, i)
    BY <1>2
  <2> QED BY <2>1, <2>2, <1>2, WholeReply, ZenonT(20)
<1>3. CASE Len(lines) = Cardinality(ids) /\ bad # {}
  <2> DEFINE first == CHOOSE i \in bad : \A k \in bad : i <= k
  <2>1. v = IF Odd(ids, lines, first) THEN Mismatch ELSE Passing
    BY <1>3 DEF ParseTranslation
  <2> QED BY <2>1
<1> QED BY <1>1, <1>2, <1>3

-----------------------------------------------------------------------------
(* Answers.                                                                *)

\* What is known of an answer and of the error the relay sends itself.
AnswerOK(ids, a) ==
    /\ a.status \in Int /\ a.wait \in Nat
    /\ a.body.lines \in Seq(Line(ids \cup {-1}))

\* The provider's answer: the wait it asks for is heard, up to an hour, and only a
\* failure that says so is the limiter's (upstreamError, readCompletion).
LEMMA ReadFacts ==
    ASSUME NEW ids, IsFiniteSet(ids), NEW a, AnswerOK(ids, a), NEW v, v = Read(ids, a)
    PROVE  /\ v \in Failure \cup {Result(ids)}
           /\ v \in Failure =>
                /\ v.wait = Told(a)
                /\ ~v.rateLimited /\ ~v.unreachable
<1>1. CASE a.status # 200
  <2>1. v = APIError(a.status \in {408, 429} \/ a.status >= 500, Least(3600, a.wait), FALSE, FALSE)
    BY <1>1, ZenonT(20) DEF Read
  <2>2. a.status \in Int /\ a.wait \in Nat
    BY DEF AnswerOK
  <2>3. PICK wait \in Nat : wait = a.wait
    BY <2>2
  <2>4. Least(3600, wait) \in 0 .. 3600
    BY DEF Least
  <2>5. Told(a) = Least(3600, wait)
    BY <2>3, <1>1 DEF Told
  <2> QED BY <2>1, <2>2, <2>3, <2>4, <2>5, <1>1, SMTT(20) DEF Failure, APIError
<1>2. CASE a.status = 200 /\ a.body.kind = "text"
  <2>1. v = ParseTranslation(ids, a.body.lines)
    BY <1>2 DEF Read
  <2>2. v \in {Result(ids), Mismatch, Passing}
    BY <2>1, ParseFacts DEF AnswerOK
  <2>3. Told(a) = 0
    BY <1>2 DEF Told
  <2> QED BY <2>2, <2>3, Kinds, ResultIsNoFailure
<1>3. CASE a.status = 200 /\ a.body.kind # "text"
  <2>1. v \in {Fatal, Passing}
    BY <1>3 DEF Read
  <2>2. Told(a) = 0
    BY <1>3 DEF Told
  <2> QED BY <2>1, <2>2, Kinds
<1> QED BY <1>1, <1>2, <1>3

\* Every answer Protocol allows is such an answer.
LEMMA AnswersFacts ==
    ASSUME NEW ids, IsFiniteSet(ids), NEW a \in Answers(ids)
    PROVE  AnswerOK(ids, a)
<1>1. <<>> \in Seq(Line(ids \cup {-1}))
  OBVIOUS
<1>2. CASE a \in Failed
  <2>1. PICK s \in Status, w \in Waits : a = Answer(s, w, Nothing)
    BY <1>2 DEF Failed
  <2>2. s \in Int /\ w \in Nat
    OBVIOUS
  <2> QED BY <2>1, <2>2, <1>1 DEF AnswerOK, Answer, Nothing, Body
<1>3. CASE a \in Bare
  <2>1. PICK k \in {"strange", "unreadable", "length", "text"} : a = Answer(200, 0, Body(k, <<>>))
    BY <1>3 DEF Bare
  <2>2. a.status = 200 /\ a.wait = 0 /\ a.body.lines = <<>>
    BY <2>1 DEF Answer, Body
  <2> QED BY <2>2, <1>1 DEF AnswerOK
<1>4. CASE a \in Texts(ids)
  <2> DEFINE n == Cardinality(ids)
             L == Line(ids \cup {-1})
  <2>1. PICK l \in [1 .. n -> L] : a = Answer(200, 0, Body("text", l))
    BY <1>4 DEF Texts
  <2>2. n \in Nat
    BY FS_CardinalityType
  <2> HIDE DEF n, L
  <2>3. l \in Seq(L)
    BY <2>2
  <2>4. a.status = 200 /\ a.wait = 0 /\ a.body.lines = l
    BY <2>1 DEF Answer, Body
  <2> QED BY <2>3, <2>4 DEF AnswerOK, L
<1> QED BY <1>2, <1>3, <1>4 DEF Answers

-----------------------------------------------------------------------------
(* The whole exchange.                                                     *)

\* What the page makes of an exchange, against what really happened: it is all cues
\* or a failure; a failure asks for the wait that was asked for, if the page is shown it;
\* only the limiter's refusal looks like one, and whatever else is tried again is
\* charged; a request that reached the provider and failed is charged or turns the run to
\* the server, which only a direct request does that was neither answered nor cut off
\* (translate, serverError).
Sound(route, ids, c, v) ==
    /\ v \in Failure \cup {Result(ids)}
    /\ v \in Failure =>
         /\ c.end # "masked" => v.wait = Asked(c)
         /\ v.retryable /\ ~v.rateLimited => Charged(route, c)
         /\ v.rateLimited => c.end = "refused" /\ ~Charged(route, c)
         /\ c.reached => Charged(route, c) \/ v.unreachable
         /\ v.unreachable =>
              route = "direct" /\ c.end = "lost" /\ c.cut = "no" /\ ~Charged(route, c)

\* What Read makes of an answer to a request that got through.
LEMMA AnsweredSound ==
    ASSUME NEW route, NEW ids, IsFiniteSet(ids), NEW a, AnswerOK(ids, a), NEW b, AnswerOK(ids, b),
           b.status = a.status, a.status # 200 => b.wait = a.wait,
           NEW c, c.end = "answered", c.answer = a, c.cut = "no", NEW v, v = Read(ids, b)
    PROVE  Sound(route, ids, c, v)
<1>2. Charged(route, c)
  BY DEF Charged
<1>3. Asked(c) = Told(b)
  <2>1. Asked(c) = Told(a)
    BY DEF Asked
  <2>2. CASE a.status = 200
    BY <2>1, <2>2 DEF Told
  <2>3. CASE a.status # 200
    BY <2>1, <2>3 DEF Told
  <2> QED BY <2>2, <2>3
<1>4. v \in Failure \cup {Result(ids)}
  BY ReadFacts
<1>5. ASSUME v \in Failure PROVE v.wait = Asked(c) /\ ~v.rateLimited /\ ~v.unreachable
  BY <1>3, <1>5, ReadFacts
<1> QED BY <1>2, <1>4, <1>5 DEF Sound

\* The relay's own errors and those of a proxy before it (serverError).
LEMMA OwnFacts ==
    ASSUME NEW b \in BOOLEAN, NEW l \in BOOLEAN, NEW w \in Nat, NEW status \in Int, NEW r,
           r.error.json, r.error.retryable = b, r.error.rateLimited = l, r.error.wait = w,
           r.answer.status = status, NEW v, v = ServerError(r)
    PROVE  /\ v \in Failure /\ v.wait = Least(3600, w) /\ (w = 0 => v.wait = 0)
           /\ ~v.unreachable /\ v.retryable = b /\ (v.rateLimited <=> status = 429 /\ l)
<1>1. v = APIError(r.error.retryable, Least(3600, w),
                   r.answer.status = 429 /\ r.error.rateLimited, FALSE)
  BY DEF ServerError
<1>2. Least(3600, w) \in 0 .. 3600 /\ (w = 0 => Least(3600, w) = 0)
  BY DEF Least
<1>3. /\ v \in Failure /\ v.wait = Least(3600, w) /\ (w = 0 => v.wait = 0)
      /\ ~v.unreachable /\ v.retryable = b
  BY <1>1, <1>2, SMTT(20) DEF Failure, APIError
<1>4. v.rateLimited = (status = 429 /\ l)
  BY <1>1 DEF APIError
<1>5. v.rateLimited <=> status = 429 /\ l
  BY <1>4, ZenonT(20)
<1> QED BY <1>3, <1>5, Zenon

\* An error that is not the server's own, from a proxy before it.
LEMMA BareFacts ==
    ASSUME NEW status \in Int, NEW v, v = ServerError(Own(status, NoError))
    PROVE  v \in Failure /\ v.wait = 0 /\ ~v.unreachable /\ ~v.rateLimited
<1>1. v = APIError(status >= 500, 0, FALSE, FALSE)
  BY ZenonT(20) DEF ServerError, Own, NoError, Answer
<1> QED BY <1>1 DEF Failure, APIError

\* The limiter's refusal, as the page reads it.
LEMMA ThrottledFacts ==
    ASSUME NEW w \in Nat, NEW v, v = ServerError(Throttled(w))
    PROVE  v \in Failure /\ ~v.unreachable /\ v.wait = Least(3600, w) /\ v.rateLimited
<1>1. PICK r : r = Throttled(w)
  OBVIOUS
<1>2. PICK b \in BOOLEAN : b = TRUE
  OBVIOUS
<1>3. PICK l \in BOOLEAN : l = TRUE
  OBVIOUS
<1>5. PICK s \in Int : s = 429
  OBVIOUS
<1>6. /\ r.error.json /\ r.error.retryable = b /\ r.error.rateLimited = l
      /\ r.error.wait = w /\ r.answer.status = s
  BY <1>1, <1>2, <1>3, <1>5 DEF Throttled, Own, JSONError, Answer
<1>7. /\ v \in Failure /\ v.wait = Least(3600, w) /\ (w = 0 => v.wait = 0)
      /\ ~v.unreachable /\ v.retryable = b /\ (v.rateLimited <=> s = 429 /\ l)
  BY <1>1, <1>6, OwnFacts
<1> QED BY <1>2, <1>3, <1>5, <1>7

\* A request the server refuses is not sent again.
LEMMA RejectedFacts ==
    ASSUME NEW v, v = ServerError(Rejected)
    PROVE  v \in Failure /\ ~v.unreachable /\ v.wait = 0 /\ ~v.rateLimited /\ ~v.retryable
<1>1. PICK r : r = Rejected
  OBVIOUS
<1>2. PICK b \in BOOLEAN : b = FALSE
  OBVIOUS
<1>3. PICK l \in BOOLEAN : l = FALSE
  OBVIOUS
<1>4. PICK n \in Nat : n = 0
  OBVIOUS
<1>5. PICK s \in Int : s = 400
  OBVIOUS
<1>6. /\ r.error.json /\ r.error.retryable = b /\ r.error.rateLimited = l
      /\ r.error.wait = n /\ r.answer.status = s
  BY <1>1, <1>2, <1>3, <1>4, <1>5 DEF Rejected, Own, JSONError, Answer
<1>7. /\ v \in Failure /\ v.wait = Least(3600, n) /\ (n = 0 => v.wait = 0)
      /\ ~v.unreachable /\ v.retryable = b /\ (v.rateLimited <=> s = 429 /\ l)
  BY <1>1, <1>6, OwnFacts
<1> QED BY <1>2, <1>3, <1>4, <1>5, <1>7

\* No answer of the provider: the limiter is not blamed for it.
LEMMA SilentFacts ==
    ASSUME NEW v, v = ServerError(Silent)
    PROVE  v \in Failure /\ ~v.unreachable /\ v.wait = 0 /\ ~v.rateLimited
<1>1. PICK r : r = Silent
  OBVIOUS
<1>2. PICK b \in BOOLEAN : b = TRUE
  OBVIOUS
<1>3. PICK l \in BOOLEAN : l = FALSE
  OBVIOUS
<1>4. PICK n \in Nat : n = 0
  OBVIOUS
<1>5. PICK s \in Int : s = 502
  OBVIOUS
<1>6. /\ r.error.json /\ r.error.retryable = b /\ r.error.rateLimited = l
      /\ r.error.wait = n /\ r.answer.status = s
  BY <1>1, <1>2, <1>3, <1>4, <1>5 DEF Silent, Own, JSONError, Answer
<1>7. /\ v \in Failure /\ v.wait = Least(3600, n) /\ (n = 0 => v.wait = 0)
      /\ ~v.unreachable /\ v.retryable = b /\ (v.rateLimited <=> s = 429 /\ l)
  BY <1>1, <1>6, OwnFacts
<1> QED BY <1>2, <1>3, <1>4, <1>5, <1>7

\* translate is sound, over either route.
THEOREM TranslateSound ==
    ASSUME NEW route \in {"direct", "server"}, NEW ids, IsFiniteSet(ids),
           NEW c \in Courses(route, ids), NEW v, v = Translate(route, ids, c)
    PROVE  Sound(route, ids, c, v)
<1>1. ASSUME NEW a \in Answers(ids), c = Course("answered", 0, a, "no", TRUE)
      PROVE  Sound(route, ids, c, v)
  <2>1. c.end = "answered" /\ c.answer = a /\ c.cut = "no"
    BY <1>1 DEF Course
  <2>2. AnswerOK(ids, a)
    BY <1>1, AnswersFacts
  <2>3. CASE route = "direct"
    <3>1. v = Read(ids, a)
      BY <2>1, <2>3, ZenonT(20) DEF Translate, Caught, Direct
    <3> QED BY <3>1, <2>1, <2>2, AnsweredSound
  <2>4. CASE route = "server"
    <3>1. v = LET r == Relayed(a) IN IF r.upstream THEN Read(ids, r.answer) ELSE ServerError(r)
      BY <2>1, <2>4 DEF Translate, Caught, Post, Relay
    <3>2. CASE a.status = 200 /\ a.body.kind = "unreadable"
      <4>1. v = ServerError(Silent)
        BY <3>1, <3>2 DEF Relayed, Silent, Own
      <4>3. v \in Failure /\ v.wait = 0 /\ ~v.unreachable /\ ~v.rateLimited
        BY <4>1, SilentFacts
      <4>4. Charged(route, c) /\ Asked(c) = 0
        BY <2>1, <3>2 DEF Charged, Asked, Told
      <4> QED BY <4>3, <4>4 DEF Sound
    <3>3. CASE ~(a.status = 200 /\ a.body.kind = "unreadable")
      <4> DEFINE b == IF a.status = 200 THEN a ELSE Answer(a.status, a.wait, Nothing)
      <4>1. v = Read(ids, b)
        BY <3>1, <3>3 DEF Relayed
      <4>2. b.status = a.status /\ (a.status # 200 => b.wait = a.wait)
        BY DEF Answer
      <4>3. AnswerOK(ids, b)
        <5>1. CASE a.status = 200
          BY <5>1, <2>2
        <5>2. CASE a.status # 200
          <6>1. b.status = a.status /\ b.wait = a.wait /\ b.body.lines = <<>>
            BY <5>2 DEF Answer, Nothing, Body
          <6>2. <<>> \in Seq(Line(ids \cup {-1}))
            OBVIOUS
          <6> QED BY <6>1, <6>2, <2>2, ZenonT(20) DEF AnswerOK
        <5> QED BY <5>1, <5>2
      <4> HIDE DEF b
      <4> QED BY <4>1, <4>2, <4>3, <2>1, <2>2, AnsweredSound
    <3> QED BY <3>2, <3>3
  <2> QED BY <2>3, <2>4
<1>2. ASSUME NEW cut \in {"no", "timeout", "abort"}, NEW r \in BOOLEAN,
             c = Course("lost", 0, Unanswered, cut, r)
      PROVE  Sound(route, ids, c, v)
  <2>1. c.end = "lost" /\ c.cut = cut
    BY <1>2 DEF Course
  <2>2. Asked(c) = 0
    BY <2>1 DEF Asked
  <2>3. CASE cut = "abort"
    <3>1. v = Fatal
      BY <2>1, <2>3 DEF Translate, Caught
    <3>2. Charged(route, c)
      BY <2>1, <2>3 DEF Charged
    <3> QED BY <3>1, <3>2, <2>2, Kinds DEF Sound
  <2>4. CASE cut = "timeout"
    <3>1. v = Passing
      BY <2>1, <2>4 DEF Translate, Caught
    <3>2. Charged(route, c)
      BY <2>1, <2>4 DEF Charged
    <3> QED BY <3>1, <3>2, <2>2, Kinds DEF Sound
  <2>5. CASE cut = "no" /\ route = "direct"
    <3>1. v = Unreachable
      BY <2>1, <2>5 DEF Translate, Caught, Direct
    <3>2. ~Charged(route, c)
      BY <2>1, <2>5 DEF Charged
    <3>3. /\ v \in Failure /\ v.wait = 0 /\ ~v.retryable /\ ~v.rateLimited /\ v.unreachable
      BY <3>1, Kinds DEF Unreachable
    <3> QED BY <3>3, <3>2, <2>1, <2>2, <2>5 DEF Sound
  <2>6. CASE cut = "no" /\ route = "server"
    <3>1. v = Passing
      BY <2>1, <2>6 DEF Translate, Caught, Post
    <3>2. Charged(route, c)
      BY <2>1, <2>6 DEF Charged
    <3> QED BY <3>1, <3>2, <2>2, Kinds DEF Sound
  <2> QED BY <2>3, <2>4, <2>5, <2>6
<1>3. ASSUME c = Unsent("invalid", 0)
      PROVE  Sound(route, ids, c, v)
  <2>1. c.end = "invalid" /\ ~c.reached
    BY <1>3 DEF Unsent, Course
  <2>2. v = Fatal /\ Asked(c) = 0
    BY <2>1 DEF Translate, Invalid, Asked
  <2> QED BY <2>1, <2>2, Kinds DEF Sound
<1>4. ASSUME route = "server", NEW w \in Waits, c = Unsent("refused", w)
      PROVE  Sound(route, ids, c, v)
  <2>1. PICK n \in Nat : n = w
    OBVIOUS
  <2>2. c.end = "refused" /\ c.wait = n /\ c.cut = "no" /\ ~c.reached
    BY <1>4, <2>1 DEF Unsent, Course
  <2>3. v = ServerError(Throttled(n))
    <3>1. v = LET r == Throttled(n) IN IF r.upstream THEN Read(ids, r.answer) ELSE ServerError(r)
      BY <1>4, <2>2 DEF Translate, Caught, Post, Relay
    <3>2. ~Throttled(n).upstream
      BY DEF Throttled, Own
    <3> QED BY <3>1, <3>2
  <2>4. v \in Failure /\ v.wait = Least(3600, n) /\ ~v.unreachable /\ v.rateLimited
    BY <2>3, ThrottledFacts
  <2>5. Asked(c) = Least(3600, n) /\ ~Charged(route, c)
    BY <2>2 DEF Asked, Charged
  <2> QED BY <2>2, <2>4, <2>5 DEF Sound
<1>5. ASSUME route = "server", c = Unsent("rejected", 0)
      PROVE  Sound(route, ids, c, v)
  <2>1. c.end = "rejected" /\ c.cut = "no" /\ Asked(c) = 0 /\ ~c.reached
    BY <1>5 DEF Unsent, Course, Asked
  <2>2. v = ServerError(Rejected)
    BY <1>5, <2>1 DEF Translate, Caught, Post, Relay, Rejected, Own
  <2>3. v \in Failure /\ ~v.unreachable /\ v.wait = 0 /\ ~v.rateLimited /\ ~v.retryable
    BY <2>2, RejectedFacts
  <2> QED BY <2>3, <2>1 DEF Sound
<1>6. ASSUME route = "server", NEW r \in BOOLEAN, c = Course("silent", 0, Unanswered, "no", r)
      PROVE  Sound(route, ids, c, v)
  <2>1. c.end = "silent" /\ c.cut = "no" /\ Asked(c) = 0
    BY <1>6 DEF Course, Asked
  <2>2. v = ServerError(Silent)
    BY <1>6, <2>1 DEF Translate, Caught, Post, Relay, Silent, Own
  <2>3. v \in Failure /\ v.wait = 0 /\ ~v.unreachable /\ ~v.rateLimited
    BY <2>2, SilentFacts
  <2>4. Charged(route, c)
    BY <1>6, <2>1 DEF Charged
  <2> QED BY <2>3, <2>4, <2>1 DEF Sound
<1>7. ASSUME route = "server", NEW s \in Status, NEW r \in BOOLEAN,
             c = Course("proxy", 0, Answer(s, 0, Nothing), "no", r)
      PROVE  Sound(route, ids, c, v)
  <2>1. c.end = "proxy" /\ c.cut = "no" /\ c.answer.status = s /\ Asked(c) = 0
    BY <1>7 DEF Course, Asked, Answer
  <2>2. v = ServerError(Own(s, NoError))
    BY <1>7, <2>1 DEF Translate, Caught, Post, Relay, Own
  <2>3. s \in Int
    OBVIOUS
  <2>4. v \in Failure /\ v.wait = 0 /\ ~v.unreachable /\ ~v.rateLimited
    BY <2>2, <2>3, BareFacts
  <2>5. Charged(route, c)
    BY <1>7, <2>1 DEF Charged
  <2> QED BY <2>1, <2>4, <2>5 DEF Sound
<1>8. ASSUME route = "direct", NEW a \in Failed, c = Course("masked", 0, a, "no", TRUE)
      PROVE  Sound(route, ids, c, v)
  <2>1. c.end = "masked" /\ c.answer = a /\ c.cut = "no"
    BY <1>8 DEF Course
  <2>2. Charged(route, c)
    BY <2>1 DEF Charged
  <2>3. PICK s \in Status, w \in Waits : a = Answer(s, w, Nothing)
    BY <1>8 DEF Failed
  <2> DEFINE b == [a EXCEPT !.wait = 0]
  <2>4. b = Answer(s, 0, Nothing)
    BY <2>3 DEF Answer
  <2> HIDE DEF b
  <2>5. AnswerOK(ids, b)
    <3>1. Answer(s, 0, Nothing).status = s /\ Answer(s, 0, Nothing).wait = 0
      BY DEF Answer
    <3>3. Answer(s, 0, Nothing).body.lines = <<>> /\ s \in Int
      BY DEF Answer, Nothing, Body
    <3>2. <<>> \in Seq(Line(ids \cup {-1}))
      OBVIOUS
    <3>4. AnswerOK(ids, Answer(s, 0, Nothing))
      BY <3>1, <3>2, <3>3, ZenonT(20) DEF AnswerOK
    <3> QED BY <2>4, <3>4
  <2>6. v = Read(ids, b)
    BY <2>1, <1>8, ZenonT(20) DEF Translate, Caught, Direct, b
  <2>7. v \in Failure \cup {Result(ids)} /\ (v \in Failure => ~v.rateLimited /\ ~v.unreachable)
    BY <2>5, <2>6, ReadFacts
  <2> QED BY <2>1, <2>2, <2>7 DEF Sound
<1>9. CASE c \in AnsweredOnes(ids)
  BY <1>9, <1>1 DEF AnsweredOnes
<1>10. CASE c \in LostOnes
  <2>1. PICK cut \in {"no", "timeout", "abort"} : c \in Lost(cut)
    BY <1>10 DEF LostOnes
  <2> QED BY <2>1, <1>2 DEF Lost
<1>11. CASE route = "direct" /\ c \in MaskedOnes
  BY <1>11, <1>8 DEF MaskedOnes
<1>12. CASE route = "server" /\ c \in RefusedOnes
  BY <1>12, <1>4 DEF RefusedOnes
<1>13. CASE route = "server" /\ c \in SilentOnes
  BY <1>13, <1>6 DEF SilentOnes
<1>14. CASE route = "server" /\ c \in ProxiedOnes
  <2>1. PICK s \in Status : c \in Proxied(s)
    BY <1>14 DEF ProxiedOnes
  <2> QED BY <2>1, <1>14, <1>7 DEF Proxied
<1> QED BY <1>3, <1>5, <1>9, <1>10, <1>11, <1>12, <1>13, <1>14 DEF Courses

HIDE ProtocolAssumption

-----------------------------------------------------------------------------
(* The inductive invariant.                                                *)

\* There is a current block.
InLoop ==
    \/ pc \in {"wait", "reserve", "publish", "inflight", "failed"}
    \/ pc = "saving" /\ next \in {"wait", "publish"}
Within == InLoop => ~AllDone(job)

\* Storage has finished no block that memory has not.
Ahead ==
    /\ saved.completedChunks <= job.completedChunks
    /\ \A i \in 1 .. saved.completedChunks : job.chunks[i] = saved.chunks[i]

\* What came back is in memory; in storage too unless a save is under way or failed.
Kept ==
    /\ received \subseteq job.translated
    /\ pc # "saving" /\ ~dirty => received \subseteq saved.translated
    /\ dirty => pc = "ended" \/ (pc = "saving" /\ next = "ended")

\* Requests are counted before they go out.
Counted ==
    /\ sent <= saved.requests /\ sent <= job.requests
    /\ pc = "publish" => sent < saved.requests /\ sent < job.requests
    /\ pc = "saving" /\ next = "publish" => sent < job.requests

\* The attempts charged are the failures that count, but for the one being handled.
Budgeted ==
    /\ failures \in {attempt, attempt + 1}
    /\ InLoop /\ pc # "failed" => failures = attempt
    /\ pc = "failed" => failures = IF failure.charged THEN attempt + 1 ELSE attempt

\* What is handled is a failure as Protocol lets the page see it.
Heard ==
    pc = "failed" =>
        /\ failure.end # "masked" => Error.wait = failure.asked
        /\ Error.retryable /\ ~Error.rateLimited => failure.charged
        /\ Error.rateLimited => ~failure.charged
        /\ Error.unreachable => failure.end = "lost" /\ failure.cut = "no" /\ ~failure.charged

Stopped == discarded => paused

IInv ==
    /\ RunTypes /\ Checkpoint(job) /\ Checkpoint(saved)
    /\ Within /\ Ahead /\ Kept /\ Counted /\ Budgeted /\ Heard /\ Stopped

-----------------------------------------------------------------------------
(* Tasks.                                                                  *)

Good(t) == t \in Task /\ Checkpoint(t)

\* The same document, cut and translated alike.
Alike(t, u) ==
    /\ u.chunks = t.chunks /\ u.completedChunks = t.completedChunks
    /\ u.translated = t.translated

\* A task stays good when its status or its count of requests is written.
LEMMA Touched ==
    ASSUME NEW t, Good(t), NEW u \in Task, Alike(t, u)
    PROVE  Good(u) /\ (AllDone(u) <=> AllDone(t))
BY DEF Good, Alike, Checkpoint, AllDone
\* Its status is written.
LEMMA StatusSet ==
    ASSUME NEW t, Good(t), NEW s \in {"ready", "paused", "completed", "error"},
           NEW u, u = [t EXCEPT !.status = s]
    PROVE  Good(u) /\ Alike(t, u) /\ u.requests = t.requests
<1>1. u \in Task /\ Alike(t, u) /\ u.requests = t.requests
  BY DEF Good, Task, Alike
<1> QED BY <1>1, Touched
\* Its count of requests is written.
LEMMA RequestsSet ==
    ASSUME NEW t, Good(t), NEW n \in Nat, NEW u, u = [t EXCEPT !.requests = n]
    PROVE  Good(u) /\ Alike(t, u) /\ u.requests = n
<1>1. u \in Task /\ Alike(t, u) /\ u.requests = n
  BY DEF Good, Task, Alike
<1> QED BY <1>1, Touched

\* A task that is not done has a current block: some of its cues, none translated yet.
LEMMA CurrentBlock ==
    ASSUME NEW t, Good(t), ~AllDone(t)
    PROVE  LET c == t.chunks[t.completedChunks + 1]
           IN  /\ t.completedChunks + 1 \in 1 .. Len(t.chunks)
               /\ c \in Block /\ c.start < c.end /\ CuesOf(c) \subseteq 0 .. Cues - 1
               /\ IsFiniteSet(CuesOf(c))
<1>1. t.completedChunks + 1 \in 1 .. Len(t.chunks)
  BY DEF Good, Task, Checkpoint, AllDone
<1>2. t.chunks \in Seq(Block) /\ \A i \in 1 .. Len(t.chunks) : t.chunks[i].start < t.chunks[i].end
  BY DEF Good, Task, Checkpoint, Tiles
<1> DEFINE c == t.chunks[t.completedChunks + 1]
<1>3. c \in Block /\ c.start < c.end
  BY <1>1, <1>2
<1>4. Cues \in Nat /\ c.start \in 0 .. Cues /\ c.end \in 0 .. Cues
  BY <1>3, RunnerAssumption DEF Block
<1>5. CuesOf(c) \subseteq 0 .. Cues - 1
  BY <1>4 DEF CuesOf
<1>6. IsFiniteSet(CuesOf(c))
  <2>1. c.start \in Int /\ c.end - 1 \in Int
    BY <1>4
  <2>2. IsFiniteSet(c.start .. (c.end - 1))
    BY <2>1, FS_Interval
  <2> QED BY <2>2 DEF CuesOf
<1> QED BY <1>1, <1>3, <1>5, <1>6

\* A committed block is whole, and those before it stand.
LEMMA CommitGood ==
    ASSUME Good(job), ~AllDone(job),
           NEW ids, ids = CuesOf(Current), NEW u, u = Committed(ids)
    PROVE  /\ Good(u) /\ u.chunks = job.chunks /\ u.requests = job.requests
           /\ u.completedChunks = job.completedChunks + 1
           /\ u.translated = job.translated \cup ids
<1> DEFINE t == [job EXCEPT !.translated = @ \cup ids, !.completedChunks = @ + 1]
           n == job.completedChunks
<1>1. /\ job \in Task /\ n \in Nat /\ n + 1 \in 1 .. Len(job.chunks)
      /\ ids \subseteq 0 .. Cues - 1
  BY CurrentBlock DEF Good, Task, Current
<1>2. /\ t \in Task /\ t.chunks = job.chunks /\ t.requests = job.requests
      /\ t.completedChunks = n + 1 /\ t.translated = job.translated \cup ids
  <2>1. PICK done \in SUBSET (0 .. Cues - 1) : done = job.translated \cup ids
    BY <1>1 DEF Task
  <2>2. PICK m \in Nat : m = n + 1
    BY <1>1
  <2>3. t = [job EXCEPT !.translated = done, !.completedChunks = m]
    BY <2>1, <2>2
  <2> HIDE DEF t
  <2>4. /\ t \in Task /\ t.chunks = job.chunks /\ t.requests = job.requests
        /\ t.completedChunks = m /\ t.translated = done
    BY <2>3, <1>1 DEF Task
  <2> QED BY <2>1, <2>2, <2>4
<1>3. Checkpoint(t)
  <2>1. Tiles(t.chunks) /\ t.completedChunks <= Len(t.chunks)
    BY <1>1, <1>2 DEF Good, Checkpoint
  <2>2. job.translated = UNION {CuesOf(job.chunks[i]) : i \in 1 .. n}
    BY DEF Good, Checkpoint
  <2>3. 1 .. n + 1 = (1 .. n) \cup {n + 1}
    BY <1>1
  <2> HIDE DEF n, t
  <2>4. UNION {CuesOf(job.chunks[i]) : i \in 1 .. n + 1}
          = (UNION {CuesOf(job.chunks[i]) : i \in 1 .. n}) \cup CuesOf(job.chunks[n + 1])
    BY <2>3
  <2>5. CuesOf(job.chunks[n + 1]) = ids
    BY DEF Current, n
  <2> QED BY <2>1, <2>2, <2>4, <2>5, <1>2 DEF Checkpoint
<1>4. u = [t EXCEPT !.status = IF AllDone(t) THEN "completed" ELSE t.status]
  BY DEF Committed
<1>5. (IF AllDone(t) THEN "completed" ELSE t.status) \in {"ready", "paused", "completed", "error"}
  BY <1>2 DEF Task
<1> HIDE DEF t
<1>6. Good(u) /\ Alike(t, u) /\ u.requests = t.requests
  BY <1>2, <1>3, <1>4, <1>5, StatusSet DEF Good
<1> QED BY <1>2, <1>6 DEF Alike

\* The halves of a block of several cues are blocks that meet (halfway in Middle).
LEMMA HalvesMeet ==
    ASSUME NEW c \in Block, c.end - c.start > 1
    PROVE  /\ Middle(c) \in 0 .. Cues /\ c.start < Middle(c) /\ Middle(c) < c.end
           /\ Halves(c) = <<[start |-> c.start, end |-> Middle(c)], [start |-> Middle(c), end |-> c.end]>>
           /\ Halves(c) \in Seq(Block) /\ Len(Halves(c)) = 2
           /\ Halves(c)[1].start = c.start /\ Halves(c)[1].end = Middle(c)
           /\ Halves(c)[2].start = Middle(c) /\ Halves(c)[2].end = c.end
<1>1. Cues \in Nat /\ c.start \in 0 .. Cues /\ c.end \in 0 .. Cues
  BY RunnerAssumption DEF Block
<1>2. Middle(c) \in Int /\ c.start < Middle(c) /\ Middle(c) < c.end
  <2> DEFINE d == c.end - c.start + 1
  <2>1. d \in Nat /\ d >= 3
    BY <1>1
  <2>2. d \div 2 \in Int /\ d \div 2 >= 1 /\ d \div 2 < d - 1
    BY <2>1
  <2> QED BY <1>1, <2>2 DEF Middle
<1>3. Middle(c) \in 0 .. Cues
  BY <1>1, <1>2
<1>4. /\ [start |-> c.start, end |-> Middle(c)] \in Block
      /\ [start |-> Middle(c), end |-> c.end] \in Block
  BY <1>1, <1>3 DEF Block
<1> QED BY <1>2, <1>3, <1>4 DEF Halves

\* Two lists of blocks in one.
LEMMA Joined ==
    ASSUME NEW a \in Seq(Block), NEW b \in Seq(Block)
    PROVE  /\ a \o b \in Seq(Block) /\ Len(a \o b) = Len(a) + Len(b)
           /\ \A i \in 1 .. Len(a) : (a \o b)[i] = a[i]
           /\ \A i \in 1 .. Len(b) : (a \o b)[Len(a) + i] = b[i]
OBVIOUS

\* A block is replaced by two.
LEMMA Spliced ==
    ASSUME NEW q \in Seq(Block), NEW n \in Nat, n + 1 <= Len(q), NEW h \in Seq(Block), Len(h) = 2,
           NEW s, s = Splice(q, n, h)
    PROVE  /\ s \in Seq(Block) /\ Len(s) = Len(q) + 1
           /\ \A i \in 1 .. n : s[i] = q[i]
           /\ s[n + 1] = h[1] /\ s[n + 2] = h[2]
           /\ \A i \in n + 3 .. Len(q) + 1 : s[i] = q[i - 1]
<1>1. PICK two \in Nat : two = 2
  OBVIOUS
<1>2. PICK L \in Nat : L = Len(q)
  OBVIOUS
<1>3. PICK m \in Nat : m = n + 1
  OBVIOUS
<1>4. PICK k \in Nat : m + k = L
  <2>1. L - m \in Nat /\ m + (L - m) = L
    BY <1>2, <1>3
  <2> QED BY <2>1, Zenon
<1>5. PICK p \in Nat : p = n + two
  OBVIOUS
<1>6. PICK a : a = SubSeq(q, 1, n)
  OBVIOUS
<1>7. PICK b : b = SubSeq(q, m + 1, L)
  OBVIOUS
<1>8. PICK ah : ah = a \o h
  OBVIOUS
<1>9. s = ah \o b
  <2>1. m + 1 = n + 2
    BY <1>3
  <2> QED BY <2>1, <1>2, <1>6, <1>7, <1>8 DEF Splice
<1>10. a \in Seq(Block) /\ n = Len(a) /\ \A i \in 1 .. n : a[i] = q[i]
  BY <1>6
<1>11. b \in Seq(Block) /\ k = Len(b) /\ \A i \in 1 .. k : b[i] = q[m + i]
  <2>1. L - (m + 1) + 1 = k
    BY <1>4
  <2>2. \A i \in 1 .. k : m + 1 + i - 1 = m + i /\ m + i \in 1 .. L
    BY <1>4
  <2> QED BY <2>1, <2>2, <1>2, <1>7
<1>12. /\ ah \in Seq(Block) /\ Len(ah) = n + two
       /\ \A i \in 1 .. n : ah[i] = a[i]
       /\ \A i \in 1 .. two : ah[n + i] = h[i]
  <2>1. a \in Seq(Block) /\ n = Len(a) /\ two = Len(h)
    BY <1>1, <1>10
  <2>2. /\ ah \in Seq(Block) /\ Len(ah) = Len(a) + Len(h)
        /\ \A i \in 1 .. Len(a) : ah[i] = a[i]
        /\ \A i \in 1 .. Len(h) : ah[Len(a) + i] = h[i]
    BY <2>1, <1>8, Joined, Zenon
  <2> QED BY <2>1, <2>2, Zenon
<1>13. /\ s \in Seq(Block) /\ Len(s) = p + k
       /\ \A i \in 1 .. p : s[i] = ah[i]
       /\ \A i \in 1 .. k : s[p + i] = b[i]
  <2>1. ah \in Seq(Block) /\ p = Len(ah) /\ b \in Seq(Block) /\ k = Len(b)
    BY <1>5, <1>11, <1>12
  <2>2. /\ s \in Seq(Block) /\ Len(s) = Len(ah) + Len(b)
        /\ \A i \in 1 .. Len(ah) : s[i] = ah[i]
        /\ \A i \in 1 .. Len(b) : s[Len(ah) + i] = b[i]
    <3>1. ah \in Seq(Block) /\ b \in Seq(Block)
      BY <2>1
    <3>2. /\ ah \o b \in Seq(Block) /\ Len(ah \o b) = Len(ah) + Len(b)
          /\ \A i \in 1 .. Len(ah) : (ah \o b)[i] = ah[i]
          /\ \A i \in 1 .. Len(b) : (ah \o b)[Len(ah) + i] = b[i]
      BY <3>1, Joined, Zenon
    <3> QED BY <3>2, <1>9, Zenon
  <2> QED BY <2>1, <2>2, Zenon
<1>14. ASSUME NEW i \in 1 .. n PROVE s[i] = q[i]
  <2>1. i \in 1 .. p
    BY <1>5
  <2> QED BY <2>1, <1>10, <1>12, <1>13
<1>15. ASSUME NEW j \in 1 .. two PROVE s[n + j] = h[j]
  <2>1. n + j \in 1 .. p
    BY <1>5
  <2> QED BY <2>1, <1>12, <1>13
<1>16. p = m + 1 /\ p + k = L + 1
  BY <1>1, <1>3, <1>4, <1>5
<1>17. ASSUME NEW i \in n + 3 .. L + 1 PROVE s[i] = q[i - 1]
  <2>1. PICK x \in Int : x = i /\ n + 3 <= x /\ x <= L + 1
    OBVIOUS
  <2>2. PICK j \in Int : p + j = x
    <3>1. x - p \in Int /\ p + (x - p) = x
      OBVIOUS
    <3> QED BY <3>1, Zenon
  <2>3. j >= 1
    BY <2>1, <2>2, <1>1, <1>5
  <2>4. j <= k
    BY <2>1, <2>2, <1>16
  <2>5. m + j = x - 1
    BY <2>2, <1>16
  <2>6. j \in 1 .. k
    BY <2>3, <2>4
  <2>7. s[p + j] = b[j] /\ b[j] = q[m + j]
    BY <2>6, <1>11, <1>13, Zenon
  <2>8. s[x] = q[x - 1]
    BY <2>2, <2>5, <2>7, Zenon
  <2> QED BY <2>1, <2>8, Zenon
<1>18. s[n + 1] = h[1] /\ s[n + 2] = h[2]
  <2>1. 1 \in 1 .. two /\ 2 \in 1 .. two
    BY <1>1
  <2> QED BY <2>1, <1>15
<1> QED BY <1>2, <1>13, <1>14, <1>16, <1>17, <1>18

\* Splitting the current block leaves a good task, and the blocks before it stand.
LEMMA SplitGood ==
    ASSUME Good(job), ~AllDone(job), Current.end - Current.start > 1,
           NEW u, u = [job EXCEPT !.chunks = SplitChunks(job)]
    PROVE  /\ Good(u) /\ u.completedChunks = job.completedChunks
           /\ u.translated = job.translated /\ u.requests = job.requests
           /\ \A i \in 1 .. job.completedChunks : u.chunks[i] = job.chunks[i]
<1>1. PICK q \in Seq(Block) : q = job.chunks
  BY DEF Good, Task
<1>2. PICK n \in Nat : n = job.completedChunks
  BY DEF Good, Task
<1>3. PICK L \in Nat : L = Len(q)
  OBVIOUS
<1>4. n + 1 <= L
  BY <1>1, <1>2, <1>3, CurrentBlock
<1>5. PICK c \in Block : c = q[n + 1]
  BY <1>3, <1>4
<1>6. Current = c
  BY <1>1, <1>2, <1>5 DEF Current
<1>7. PICK h : h = Halves(c)
  OBVIOUS
<1>8. PICK m \in Int : m = Middle(c)
  BY <1>6, HalvesMeet
<1>9. /\ h \in Seq(Block) /\ Len(h) = 2 /\ c.start < m /\ m < c.end
      /\ h[1].start = c.start /\ h[1].end = m /\ h[2].start = m /\ h[2].end = c.end
  BY <1>6, <1>7, <1>8, HalvesMeet
<1>10. PICK s : s = SplitChunks(job)
  OBVIOUS
<1>11. s = Splice(q, n, h)
  BY <1>1, <1>2, <1>5, <1>7, <1>10 DEF SplitChunks
<1>12. /\ s \in Seq(Block) /\ Len(s) = L + 1
       /\ \A i \in 1 .. n : s[i] = q[i]
       /\ s[n + 1] = h[1] /\ s[n + 2] = h[2]
       /\ \A i \in n + 3 .. L + 1 : s[i] = q[i - 1]
  <2>1. n + 1 <= Len(q) /\ h \in Seq(Block) /\ Len(h) = 2
    BY <1>3, <1>4, <1>9
  <2>2. /\ s \in Seq(Block) /\ Len(s) = Len(q) + 1
        /\ \A i \in 1 .. n : s[i] = q[i]
        /\ s[n + 1] = h[1] /\ s[n + 2] = h[2]
        /\ \A i \in n + 3 .. Len(q) + 1 : s[i] = q[i - 1]
    BY <2>1, <1>11, Spliced, SMTT(30)
  <2> QED BY <2>2, <1>3, Zenon
<1>13. /\ q[1].start = 0 /\ q[L].end = Cues
       /\ \A i \in 1 .. L : q[i].start < q[i].end
       /\ \A i \in 1 .. L - 1 : q[i].end = q[i + 1].start
  BY <1>1, <1>3 DEF Good, Checkpoint, Tiles
<1>14. Tiles(s)
  <2>1. s # <<>> /\ Len(s) \in Nat
    BY <1>12
  <2>2. s[1].start = 0
    <3>1. CASE n = 0
      BY <3>1, <1>5, <1>9, <1>12, <1>13
    <3>2. CASE n # 0
      <4>1. 1 \in 1 .. n
        BY <3>2
      <4> QED BY <4>1, <1>12, <1>13
    <3> QED BY <3>1, <3>2
  <2>3. s[L + 1].end = Cues
    <3>1. CASE n + 1 = L
      <4>1. L + 1 = n + 2
        BY <3>1
      <4>2. s[L + 1].end = c.end
        BY <4>1, <1>9, <1>12
      <4> QED BY <4>2, <3>1, <1>5, <1>13
    <3>2. CASE n + 1 # L
      <4>1. L + 1 \in n + 3 .. L + 1 /\ (L + 1) - 1 = L
        BY <3>2, <1>4
      <4> QED BY <4>1, <1>12, <1>13
    <3> QED BY <3>1, <3>2
  <2>4. ASSUME NEW i \in 1 .. L + 1 PROVE s[i].start < s[i].end
    <3>1. CASE i <= n
      <4>1. i \in 1 .. n /\ i \in 1 .. L
        BY <3>1, <1>4
      <4> QED BY <4>1, <1>12, <1>13
    <3>2. CASE i = n + 1
      BY <3>2, <1>9, <1>12
    <3>3. CASE i = n + 2
      BY <3>3, <1>9, <1>12
    <3>4. CASE i > n + 2
      <4>1. i \in n + 3 .. L + 1 /\ i - 1 \in 1 .. L
        BY <3>4
      <4> QED BY <4>1, <1>12, <1>13
    <3> QED BY <3>1, <3>2, <3>3, <3>4
  <2>5. ASSUME NEW i \in 1 .. L PROVE s[i].end = s[i + 1].start
    <3>1. CASE i < n
      <4>1. i \in 1 .. n /\ i + 1 \in 1 .. n /\ i \in 1 .. L - 1
        BY <3>1, <1>4
      <4> QED BY <4>1, <1>12, <1>13
    <3>2. CASE i = n
      <4>1. i \in 1 .. n /\ i \in 1 .. L - 1
        BY <3>2, <1>4
      <4>2. s[i].end = q[n + 1].start /\ s[i + 1] = h[1]
        BY <4>1, <3>2, <1>12, <1>13
      <4> QED BY <4>2, <1>5, <1>9
    <3>3. CASE i = n + 1
      <4>1. s[i] = h[1] /\ s[i + 1] = h[2]
        BY <3>3, <1>12
      <4> QED BY <4>1, <1>9
    <3>4. CASE i = n + 2
      <4>1. i + 1 \in n + 3 .. L + 1 /\ (i + 1) - 1 = n + 2
            /\ n + 1 \in 1 .. L - 1 /\ (n + 1) + 1 = n + 2
        BY <3>4
      <4>2. s[i + 1] = q[n + 2] /\ s[i] = h[2]
        BY <4>1, <3>4, <1>12
      <4>3. q[n + 1].end = q[n + 2].start
        BY <4>1, <1>13
      <4> QED BY <4>2, <4>3, <1>5, <1>9
    <3>5. CASE i > n + 2
      <4>1. i \in n + 3 .. L + 1 /\ i + 1 \in n + 3 .. L + 1
        BY <3>5
      <4>2. PICK j \in 1 .. L - 1 : j = i - 1 /\ j + 1 = (i + 1) - 1
        BY <3>5
      <4>3. s[i] = q[j] /\ s[i + 1] = q[j + 1]
        BY <4>1, <4>2, <1>12
      <4> QED BY <4>3, <1>13
    <3> QED BY <3>1, <3>2, <3>3, <3>4, <3>5
  <2>6. Len(s) = L + 1 /\ Len(s) - 1 = L
    BY <1>12
  <2> QED BY <2>1, <2>2, <2>3, <2>4, <2>5, <2>6 DEF Tiles
<1>15. /\ u.chunks = s /\ u.completedChunks = n /\ u.translated = job.translated
       /\ u.requests = job.requests /\ u \in Task
  BY <1>2, <1>10, <1>12 DEF Good, Task
<1>16. Checkpoint(u)
  <2>1. {CuesOf(s[i]) : i \in 1 .. n} = {CuesOf(q[i]) : i \in 1 .. n}
    BY <1>12
  <2>2. job.translated = UNION {CuesOf(q[i]) : i \in 1 .. n}
    BY <1>1, <1>2 DEF Good, Checkpoint
  <2>3. n <= Len(s)
    BY <1>4, <1>12
  <2>4. {CuesOf(u.chunks[i]) : i \in 1 .. u.completedChunks} = {CuesOf(q[i]) : i \in 1 .. n}
    BY <1>15, <2>1
  <2>5. u.translated = UNION {CuesOf(u.chunks[i]) : i \in 1 .. u.completedChunks}
    BY <1>15, <2>2, <2>4
  <2> QED BY <1>14, <1>15, <2>3, <2>5 DEF Checkpoint
<1> QED BY <1>1, <1>2, <1>12, <1>15, <1>16 DEF Good

-----------------------------------------------------------------------------
(* The steps that the actions are made of.                                 *)

\* What an exchange about the current block may be (translate, TranslateSound).
LEMMA ExchangeFacts ==
    ASSUME NEW x \in Exchanges
    PROVE  /\ x.verdict \in Failure \cup {Result(CuesOf(x.block))}
           /\ x.verdict \in Failure =>
                /\ x.end # "masked" => x.verdict.wait = x.asked
                /\ x.verdict.retryable /\ ~x.verdict.rateLimited => x.charged
                /\ x.verdict.rateLimited => ~x.charged
                /\ x.reached => x.charged \/ x.verdict.unreachable
                /\ x.verdict.unreachable =>
                     x.route = "direct" /\ x.end = "lost" /\ x.cut = "no" /\ ~x.charged
<1>1. PICK route \in {"direct", "server"}, block \in {b \in Block : b.start < b.end} :
        x \in {Exchange(route, block, c) : c \in Courses(route, CuesOf(block))}
  BY DEF Exchanges
<1>2. PICK c \in Courses(route, CuesOf(block)) : x = Exchange(route, block, c)
  BY <1>1
<1>3. PICK ids : ids = CuesOf(block)
  OBVIOUS
<1>4. IsFiniteSet(ids)
  <2>1. block.start \in Int /\ block.end - 1 \in Int
    BY RunnerAssumption DEF Block
  <2>2. IsFiniteSet(block.start .. (block.end - 1))
    BY <2>1, FS_Interval
  <2> QED BY <2>2, <1>3 DEF CuesOf
<1>5. PICK v : v = Translate(route, ids, c)
  OBVIOUS
<1>6. Sound(route, ids, c, v)
  BY <1>2, <1>3, <1>4, <1>5, TranslateSound
<1>7. /\ x.verdict = v /\ x.block = block /\ x.cut = c.cut /\ x.route = route
      /\ x.end = c.end /\ x.reached = c.reached
      /\ x.charged = Charged(route, c) /\ x.asked = Asked(c)
  BY <1>2, <1>3, <1>5 DEF Exchange
<1> QED BY <1>3, <1>6, <1>7 DEF Sound

\* The catch of run leaves the work as it is.
LEMMA Thrown ==
    ASSUME IInv, pc \in {"top", "wait", "reserve", "publish", "inflight", "failed"},
           NEW t, Good(t), Alike(job, t), sent <= t.requests,
           NEW s \in {"paused", "error"}, Throw(t, s),
           UNCHANGED <<paused, discarded, sent, received>>
    PROVE  /\ Good(job') /\ Good(saved') /\ dirty' \in BOOLEAN
           /\ pc' \in {"saving", "ended"} /\ next' \in {"top", "wait", "publish", "ended"}
           /\ ~InLoop' /\ Ahead' /\ Kept' /\ Counted' /\ Stopped'
<1>1. /\ Good(job') /\ Alike(t, job') /\ job'.requests = t.requests
      /\ saved' = saved /\ dirty' = dirty
      /\ \/ pc' = "ended" /\ next' = next
         \/ pc' = "saving" /\ next' = "ended"
  <2>1. CASE discarded
    BY <2>1 DEF Throw, Alike
  <2>2. CASE ~discarded
    <3>1. PICK q \in {"ready", "paused", "completed", "error"} :
            q = IF AllDone(t) THEN "completed" ELSE s
      OBVIOUS
    <3>2. job' = [t EXCEPT !.status = q] /\ pc' = "saving" /\ next' = "ended"
          /\ saved' = saved /\ dirty' = dirty
      BY <2>2, <3>1 DEF Throw, Save
    <3> QED BY <3>2, StatusSet
  <2> QED BY <2>1, <2>2
<1>2. Good(saved) /\ dirty = FALSE /\ Ahead /\ Counted /\ Kept /\ Stopped
  BY DEF IInv, Good, RunTypes, Kept
<1>3. next \in {"top", "wait", "publish", "ended"}
  BY DEF IInv, RunTypes
<1>4. Ahead'
  BY <1>1, <1>2 DEF Ahead, Alike
<1>5. Kept'
  BY <1>1, <1>2 DEF Kept, Alike
<1>6. Counted'
  BY <1>1, <1>2 DEF Counted
<1>7. Stopped' /\ ~InLoop'
  BY <1>1, <1>2 DEF Stopped, InLoop
<1> QED BY <1>1, <1>2, <1>3, <1>4, <1>5, <1>6, <1>7

\* A save that is begun: the task has at least the finished blocks it had.
LEMMA Saving ==
    ASSUME IInv, pc \in {"reserve", "inflight", "failed"},
           NEW t, Good(t), job.completedChunks <= t.completedChunks,
           \A i \in 1 .. job.completedChunks : t.chunks[i] = job.chunks[i],
           job.translated \subseteq t.translated, job.requests <= t.requests,
           NEW l \in {"top", "wait", "publish"}, Save(t, l),
           l # "top" => ~AllDone(t), l = "publish" => sent < t.requests,
           received' \subseteq t.translated,
           UNCHANGED <<paused, discarded, sent>>
    PROVE  /\ Good(job') /\ Good(saved') /\ dirty' \in BOOLEAN
           /\ pc' = "saving" /\ next' = l
           /\ Within' /\ Ahead' /\ Kept' /\ Counted' /\ Stopped'
<1>1. job' = t /\ pc' = "saving" /\ next' = l /\ saved' = saved /\ dirty' = dirty
  BY DEF Save
<1>2. Good(saved) /\ dirty = FALSE /\ Ahead /\ Counted /\ Kept /\ Stopped
  BY DEF IInv, Good, RunTypes, Kept
<1>3. /\ job.completedChunks \in Nat /\ saved.completedChunks \in Nat
      /\ t.completedChunks \in Nat /\ job.requests \in Nat /\ t.requests \in Nat /\ sent \in Nat
  BY DEF IInv, RunTypes, Good, Task
<1>4. Ahead'
  BY <1>1, <1>2, <1>3 DEF Ahead
<1>5. Kept'
  BY <1>1, <1>2 DEF Kept
<1>6. Counted'
  BY <1>1, <1>2, <1>3 DEF Counted
<1>7. Stopped' /\ Within'
  BY <1>1, <1>2 DEF Stopped, Within, InLoop
<1> QED BY <1>1, <1>2, <1>4, <1>5, <1>6, <1>7

-----------------------------------------------------------------------------
(* The invariant: one lemma per action.                                    *)

\* What stands for no failure is one.
LEMMA NoneFails == None.verdict \in Failure
BY Kinds DEF None

\* A new task has every block before it.
LEMMA InitInv == Init => IInv
<1> SUFFICES ASSUME Init PROVE IInv
  OBVIOUS
<1>1. PICK b \in Blockings : job = NewTask(b)
  BY DEF Init
<1>2. b \in Seq(Block) /\ Tiles(b)
  BY RunnerAssumption
<1>3. /\ job.chunks = b /\ job.completedChunks = 0 /\ job.translated = {}
      /\ job.requests = 0 /\ job \in Task
  BY <1>1, <1>2 DEF NewTask, Task
<1>4. Len(b) \in Nat
  BY <1>2
<1>5. Good(job) /\ saved = job
  <2>1. UNION {CuesOf(job.chunks[i]) : i \in 1 .. 0} = {}
    OBVIOUS
  <2> QED BY <2>1, <1>2, <1>3, <1>4 DEF Init, Good, Checkpoint
<1>6. RunTypes
  <2>1. /\ dirty \in BOOLEAN /\ paused \in BOOLEAN /\ discarded \in BOOLEAN
        /\ pc \in PC /\ next \in {"top", "wait", "publish", "ended"}
        /\ transport \in {"direct", "server"}
    BY DEF Init, PC
  <2>2. /\ attempt \in 0 .. MaxRetries /\ runsLeft \in 0 .. MaxRuns
        /\ busyLeft \in 0 .. MaxBusy /\ sent \in Nat /\ failures \in Nat
    BY RunnerAssumption DEF Init
  <2>3. failure.verdict \in Failure /\ received \subseteq 0 .. Cues - 1
    BY NoneFails DEF Init
  <2> QED BY <1>3, <1>5, <2>1, <2>2, <2>3 DEF RunTypes
<1>7. Within /\ Heard /\ Stopped
  BY DEF Init, Within, InLoop, Heard, Stopped
<1>8. Ahead /\ Kept /\ Counted /\ Budgeted
  BY <1>3, <1>5 DEF Init, Ahead, Kept, Counted, Budgeted, InLoop
<1> QED BY <1>5, <1>6, <1>7, <1>8 DEF IInv, Good

\* startJob takes the task from storage.
LEMMA StartInv == ASSUME IInv, Start PROVE IInv'
<1>1. /\ Good(saved) /\ Good(saved') /\ saved' = saved /\ dirty = FALSE /\ dirty' = FALSE
      /\ pc \in {"off", "ended"} /\ pc' = "saving" /\ next' = "top"
      /\ job' = [saved EXCEPT !.status = "paused"]
  BY DEF IInv, RunTypes, Good, Start, Save
<1>2. PICK q \in {"ready", "paused", "completed", "error"} : q = "paused"
  OBVIOUS
<1>3. Good(job') /\ Alike(saved, job') /\ job'.requests = saved.requests
  <2>1. job' = [saved EXCEPT !.status = q]
    BY <1>1, <1>2
  <2> QED BY <1>1, <2>1, StatusSet
<1>4. RunTypes'
  <2>1. /\ attempt' \in 0 .. MaxRetries /\ runsLeft' \in 0 .. MaxRuns
        /\ busyLeft' \in 0 .. MaxBusy /\ sent' \in Nat /\ failures' \in Nat
    BY RunnerAssumption DEF IInv, RunTypes, Start
  <2>2. failure'.verdict \in Failure /\ received' \subseteq 0 .. Cues - 1
    BY NoneFails DEF IInv, RunTypes, Start
  <2>3. paused' \in BOOLEAN /\ discarded' \in BOOLEAN /\ transport' \in {"direct", "server"}
    BY DEF Start
  <2> QED BY <1>1, <1>3, <2>1, <2>2, <2>3 DEF RunTypes, Good, PC
<1>5. Within' /\ Heard' /\ Stopped'
  BY <1>1 DEF Start, Within, InLoop, Heard, Stopped
<1>6. Ahead'
  BY <1>1, <1>3 DEF Ahead, Alike, Good, Task
<1>7. Kept'
  BY <1>1, <1>3 DEF IInv, Kept, Alike, Start
<1>8. Counted' /\ Budgeted'
  BY <1>1, <1>3 DEF IInv, Counted, Budgeted, Start, InLoop
<1> QED BY <1>1, <1>3, <1>4, <1>5, <1>6, <1>7, <1>8 DEF IInv, Good

\* What a failed save left in memory is written after all.
LEMMA PersistDirtyInv == ASSUME IInv, PersistDirty PROVE IInv'
<1>1. /\ saved' = job /\ job' = job /\ dirty' = FALSE /\ pc = "ended" /\ pc' = pc
      /\ UNCHANGED <<next, paused, discarded, attempt, transport, failure,
                     runsLeft, busyLeft, sent, received, failures>>
  BY DEF PersistDirty, control, bounds, history
<1>2. RunTypes'
  BY <1>1 DEF IInv, RunTypes
<1>3. Checkpoint(job)' /\ Checkpoint(saved)'
  BY <1>1 DEF IInv
<1>4. Within' /\ Heard' /\ Stopped' /\ Budgeted' /\ Counted' /\ Kept'
  BY <1>1 DEF IInv, Within, InLoop, Heard, Stopped, Budgeted, Counted, Kept
<1>5. Ahead'
  BY <1>1 DEF IInv, RunTypes, Task, Ahead
<1> QED BY <1>2, <1>3, <1>4, <1>5 DEF IInv

\* The next block is taken up with nothing charged to it.
LEMMA LoopTopInv == ASSUME IInv, LoopTop PROVE IInv'
<1>1. /\ Good(job) /\ Good(saved) /\ pc = "top" /\ dirty = FALSE
      /\ attempt' = 0 /\ failure' = None /\ failures' = 0
      /\ UNCHANGED <<paused, discarded, transport, runsLeft, busyLeft, sent, received>>
  BY DEF IInv, RunTypes, Good, Kept, LoopTop, bounds
<1>2. CASE Goto("ended") \/ (~AllDone(job) /\ Goto("wait"))
  <2>1. /\ UNCHANGED <<job, saved, dirty, next>> /\ pc' \in {"ended", "wait"}
        /\ pc' = "wait" => ~AllDone(job)
    BY <1>2 DEF Goto, progress
  <2>2. RunTypes'
    BY <1>1, <2>1, RunnerAssumption, NoneFails DEF IInv, RunTypes, PC
  <2>3. Checkpoint(job)' /\ Checkpoint(saved)' /\ Ahead'
    BY <2>1 DEF IInv, Ahead
  <2>4. Within' /\ Heard' /\ Stopped' /\ Counted' /\ Kept'
    BY <1>1, <2>1 DEF IInv, Within, InLoop, AllDone, Heard, Stopped, Counted, Kept
  <2>5. Budgeted'
    BY <1>1, <2>1 DEF Budgeted
  <2> QED BY <2>2, <2>3, <2>4, <2>5 DEF IInv
<1>3. CASE Throw(job, "paused")
  <2>1. PICK s \in {"paused", "error"} : s = "paused"
    OBVIOUS
  <2>2. Alike(job, job) /\ sent <= job.requests
    BY DEF Alike, IInv, Counted
  <2>3. /\ Good(job') /\ Good(saved') /\ dirty' \in BOOLEAN
        /\ pc' \in {"saving", "ended"} /\ next' \in {"top", "wait", "publish", "ended"}
        /\ ~InLoop' /\ Ahead' /\ Kept' /\ Counted' /\ Stopped'
    BY <1>1, <1>3, <2>1, <2>2, Thrown
  <2>4. RunTypes'
    BY <1>1, <2>3, RunnerAssumption, NoneFails DEF IInv, RunTypes, Good, PC
  <2>5. Within' /\ Heard' /\ Budgeted'
    BY <1>1, <2>3 DEF Within, Heard, Budgeted
  <2> QED BY <2>3, <2>4, <2>5 DEF IInv, Good
<1> QED BY <1>2, <1>3 DEF LoopTop

\* A run that throws leaves everything as its next start needs it.
LEMMA GivenUp ==
    ASSUME IInv, pc \in {"wait", "reserve", "publish", "inflight", "failed"},
           NEW t, Good(t), Alike(job, t), sent <= t.requests,
           NEW s \in {"paused", "error"}, Throw(t, s), busyLeft' \in 0 .. MaxBusy,
           failure'.verdict \in Failure,
           UNCHANGED <<paused, discarded, attempt, transport, runsLeft, sent, received, failures>>
    PROVE  IInv'
<1>1. /\ Good(job') /\ Good(saved') /\ dirty' \in BOOLEAN
      /\ pc' \in {"saving", "ended"} /\ next' \in {"top", "wait", "publish", "ended"}
      /\ ~InLoop' /\ Ahead' /\ Kept' /\ Counted' /\ Stopped'
  BY Thrown
<1>2. RunTypes'
  BY <1>1 DEF IInv, RunTypes, Good, PC
<1>3. Within' /\ Heard' /\ Budgeted'
  BY <1>1 DEF IInv, Within, Heard, Budgeted
<1> QED BY <1>1, <1>2, <1>3 DEF IInv, Good

\* The task as it is, given up because of a pause.
LEMMA PausedInv ==
    ASSUME IInv, pc \in {"wait", "reserve", "publish", "inflight", "failed"},
           Throw(job, "paused"), busyLeft' \in 0 .. MaxBusy,
           failure'.verdict \in Failure,
           UNCHANGED <<paused, discarded, attempt, transport, runsLeft, sent, received, failures>>
    PROVE  IInv'
<1>1. PICK s \in {"paused", "error"} : s = "paused"
  OBVIOUS
<1>2. Good(job) /\ Alike(job, job) /\ sent <= job.requests
  BY DEF Good, Alike, IInv, RunTypes, Counted
<1> QED BY <1>1, <1>2, GivenUp

\* wait ends, or a pause ends it.
LEMMA WaitInv == ASSUME IInv, Wait PROVE IInv'
<1>1. /\ pc = "wait"
      /\ UNCHANGED <<paused, discarded, attempt, transport, failure, runsLeft, busyLeft,
                     sent, received, failures>>
      /\ busyLeft' \in 0 .. MaxBusy /\ failure'.verdict \in Failure
  BY DEF IInv, RunTypes, Wait, control, bounds, history
<1>2. CASE Throw(job, "paused")
  BY <1>1, <1>2, PausedInv
<1>3. CASE Goto("reserve")
  <2>1. UNCHANGED <<job, saved, dirty, next>> /\ pc' = "reserve"
    BY <1>3 DEF Goto, progress
  <2>2. RunTypes'
    BY <1>1, <2>1 DEF IInv, RunTypes, PC
  <2>3. Checkpoint(job)' /\ Checkpoint(saved)' /\ Ahead'
    BY <2>1 DEF IInv, Ahead
  <2>4. Within' /\ Heard' /\ Stopped' /\ Counted' /\ Kept' /\ Budgeted'
    BY <1>1, <2>1 DEF IInv, Within, InLoop, AllDone, Heard, Stopped, Counted, Kept, Budgeted
  <2> QED BY <2>2, <2>3, <2>4 DEF IInv
<1> QED BY <1>2, <1>3 DEF Wait

\* A request is counted, and the count saved, before it may go out.
LEMMA ReserveSlotInv == ASSUME IInv, ReserveSlot PROVE IInv'
<1>1. /\ pc = "reserve"
      /\ UNCHANGED <<paused, discarded, attempt, transport, failure, runsLeft, busyLeft,
                     sent, received, failures>>
      /\ busyLeft' \in 0 .. MaxBusy /\ failure'.verdict \in Failure
  BY DEF IInv, RunTypes, ReserveSlot, control, bounds, history
<1>2. CASE Throw(job, "paused")
  BY <1>1, <1>2, PausedInv
<1>3. CASE Save([job EXCEPT !.requests = @ + 1], "publish")
  <2>1. Good(job) /\ job.requests \in Nat /\ sent <= job.requests /\ ~AllDone(job)
        /\ sent \in Nat /\ received \subseteq job.translated /\ job.completedChunks \in Nat
    BY <1>1 DEF Good, IInv, RunTypes, Task, Counted, Within, InLoop, Kept
  <2>2. PICK n \in Nat : n = job.requests + 1
    BY <2>1
  <2>3. PICK t : t = [job EXCEPT !.requests = n]
    OBVIOUS
  <2>4. Good(t) /\ Alike(job, t) /\ t.requests = n
    BY <2>1, <2>3, RequestsSet
  <2>5. PICK l \in {"top", "wait", "publish"} : l = "publish"
    OBVIOUS
  <2>6. Save(t, l)
    BY <1>3, <2>2, <2>3, <2>5
  <2>7. /\ job.completedChunks <= t.completedChunks /\ job.translated \subseteq t.translated
        /\ \A i \in 1 .. job.completedChunks : t.chunks[i] = job.chunks[i]
        /\ job.requests <= t.requests /\ sent < t.requests /\ ~AllDone(t)
        /\ received' \subseteq t.translated
    BY <1>1, <2>1, <2>2, <2>4 DEF Alike, AllDone
  <2>8. /\ Good(job') /\ Good(saved') /\ dirty' \in BOOLEAN
        /\ pc' = "saving" /\ next' = l
        /\ Within' /\ Ahead' /\ Kept' /\ Counted' /\ Stopped'
    BY <1>1, <2>4, <2>6, <2>7, Saving
  <2>9. RunTypes'
    BY <1>1, <2>5, <2>8 DEF IInv, RunTypes, Good, PC
  <2>10. Heard' /\ Budgeted'
    BY <1>1, <2>8 DEF IInv, Heard, Budgeted, InLoop
  <2> QED BY <2>8, <2>9, <2>10 DEF IInv, Good
<1> QED BY <1>2, <1>3 DEF ReserveSlot

\* A request goes out on its count, or the count is taken back.
LEMMA SendInv == ASSUME IInv, Send PROVE IInv'
<1>1. /\ pc = "publish" /\ Good(job) /\ sent \in Nat /\ job.requests \in Nat
      /\ sent < job.requests /\ sent < saved.requests
      /\ UNCHANGED <<paused, discarded, attempt, transport, failure, runsLeft, busyLeft,
                     received, failures>>
      /\ busyLeft' \in 0 .. MaxBusy /\ failure'.verdict \in Failure
  BY DEF Good, IInv, RunTypes, Task, Counted, Send, control, bounds
<1>2. CASE Throw([job EXCEPT !.requests = @ - 1], "paused") /\ UNCHANGED sent
  <2>1. PICK n \in Nat : n = job.requests - 1 /\ sent <= n
    BY <1>1
  <2>2. PICK t : t = [job EXCEPT !.requests = n]
    OBVIOUS
  <2>3. Good(t) /\ Alike(job, t) /\ t.requests = n
    BY <1>1, <2>2, RequestsSet
  <2>4. PICK s \in {"paused", "error"} : s = "paused"
    OBVIOUS
  <2>5. Throw(t, s)
    BY <1>2, <2>1, <2>2, <2>4
  <2> QED BY <1>1, <1>2, <2>1, <2>3, <2>5, GivenUp
<1>3. CASE Goto("inflight") /\ sent' = sent + 1
  <2>1. UNCHANGED <<job, saved, dirty, next>> /\ pc' = "inflight" /\ sent' = sent + 1
    BY <1>3 DEF Goto, progress
  <2>2. RunTypes'
    BY <1>1, <2>1 DEF IInv, RunTypes, PC
  <2>3. Checkpoint(job)' /\ Checkpoint(saved)' /\ Ahead'
    BY <2>1 DEF IInv, Ahead
  <2>4. Counted'
    <3>1. saved.requests \in Nat
      BY DEF IInv, RunTypes, Task
    <3> QED BY <1>1, <2>1, <3>1 DEF Counted
  <2>5. Within' /\ Heard' /\ Stopped' /\ Kept' /\ Budgeted'
    BY <1>1, <2>1 DEF IInv, Within, InLoop, AllDone, Heard, Stopped, Kept, Budgeted
  <2> QED BY <2>2, <2>3, <2>4, <2>5 DEF IInv
<1> QED BY <1>2, <1>3 DEF Send

\* A block comes back whole and is committed whole.
LEMMA AnswerBlockInv ==
    ASSUME IInv, pc = "inflight", NEW x \in Exchanges, x.block = Current, AnswerBlock(x)
    PROVE  IInv'
<1>1. /\ UNCHANGED <<paused, discarded, attempt, transport, failure, runsLeft, busyLeft,
                     sent, failures>>
      /\ busyLeft' \in 0 .. MaxBusy /\ failure'.verdict \in Failure
  BY DEF IInv, RunTypes, AnswerBlock, control, bounds
<1>2. CASE Throw(job, "paused") /\ UNCHANGED received
  BY <1>1, <1>2, PausedInv
<1>3. CASE /\ Save(Committed(x.verdict.translated), "top")
           /\ received' = received \cup x.verdict.translated
  <2>1. PICK ids : ids = CuesOf(Current)
    OBVIOUS
  <2>2. x.verdict \in Failure \cup {Result(ids)} /\ x.verdict \notin Failure
    BY <2>1, ExchangeFacts DEF AnswerBlock, Accepted
  <2>3. x.verdict.translated = ids
    BY <2>2 DEF Result
  <2>4. PICK t : t = Committed(ids)
    OBVIOUS
  <2>5. PICK l \in {"top", "wait", "publish"} : l = "top"
    OBVIOUS
  <2>6. Save(t, l) /\ received' = received \cup ids
    BY <1>3, <2>3, <2>4, <2>5
  <2>7. /\ Good(job) /\ ~AllDone(job) /\ received \subseteq job.translated
        /\ job.completedChunks \in Nat /\ job.requests \in Nat
    BY DEF Good, IInv, RunTypes, Task, Within, InLoop, Kept
  <2>8. /\ Good(t) /\ t.chunks = job.chunks /\ t.requests = job.requests
        /\ t.completedChunks = job.completedChunks + 1
        /\ t.translated = job.translated \cup ids
    BY <2>1, <2>4, <2>7, CommitGood
  <2>9. /\ job.completedChunks <= t.completedChunks /\ job.translated \subseteq t.translated
        /\ \A i \in 1 .. job.completedChunks : t.chunks[i] = job.chunks[i]
        /\ job.requests <= t.requests /\ received' \subseteq t.translated
    BY <2>6, <2>7, <2>8
  <2>10. /\ Good(job') /\ Good(saved') /\ dirty' \in BOOLEAN
         /\ pc' = "saving" /\ next' = l
         /\ Within' /\ Ahead' /\ Kept' /\ Counted' /\ Stopped'
    BY <1>1, <2>5, <2>6, <2>8, <2>9, Saving
  <2>11. received' \subseteq 0 .. Cues - 1
    <3>1. job' = t
      BY <2>6 DEF Save
    <3>2. received' \subseteq job'.translated
      BY <2>9, <3>1
    <3> QED BY <2>10, <3>2 DEF Good, Task
  <2>12. RunTypes'
    BY <1>1, <2>5, <2>10, <2>11 DEF IInv, RunTypes, Good, PC
  <2>13. Heard' /\ Budgeted'
    BY <1>1, <2>5, <2>10 DEF IInv, Heard, Budgeted, InLoop
  <2> QED BY <2>10, <2>12, <2>13 DEF IInv, Good
<1> QED BY <1>2, <1>3 DEF AnswerBlock

\* A failure is what the model or the limiter meant by it.
LEMMA AnswerErrorInv ==
    ASSUME IInv, pc = "inflight", NEW x \in Exchanges, AnswerError(x)
    PROVE  IInv'
<1>1. /\ UNCHANGED <<paused, discarded, attempt, transport, runsLeft, sent, received>>
      /\ busyLeft' \in 0 .. MaxBusy
  BY RunnerAssumption DEF IInv, RunTypes, AnswerError
<1>2. CASE Throw(job, "paused") /\ UNCHANGED <<failure, failures>>
  <2>1. failure'.verdict \in Failure
    BY <1>2 DEF IInv, RunTypes
  <2> QED BY <1>1, <1>2, <2>1, PausedInv
<1>3. CASE /\ Goto("failed") /\ failure' = x
           /\ failures' = IF x.charged THEN failures + 1 ELSE failures
  <2>1. UNCHANGED <<job, saved, dirty, next>> /\ pc' = "failed" /\ failure' = x
    BY <1>3 DEF Goto, progress
  <2>2. x.verdict \in Failure
    BY DEF AnswerError, Accepted
  <2>3. failures = attempt /\ failures \in Nat /\ attempt \in Nat
    BY RunnerAssumption DEF IInv, RunTypes, Budgeted, InLoop
  <2>4. RunTypes'
    BY <1>1, <1>3, <2>1, <2>2, <2>3 DEF IInv, RunTypes, PC
  <2>5. Checkpoint(job)' /\ Checkpoint(saved)' /\ Ahead'
    BY <2>1 DEF IInv, Ahead
  <2>6. Within' /\ Stopped' /\ Kept' /\ Counted'
    BY <1>1, <2>1 DEF IInv, Within, InLoop, AllDone, Stopped, Kept, Counted
  <2>7. Budgeted'
    BY <1>1, <1>3, <2>1, <2>3 DEF Budgeted
  <2>8. Heard'
    BY <2>1, <2>2, ExchangeFacts DEF Heard, Error
  <2> QED BY <2>4, <2>5, <2>6, <2>7, <2>8 DEF IInv
<1> QED BY <1>2, <1>3 DEF AnswerError

\* After a failure the block is tried again, split or given up: an attempt is charged
\* for a failure that is to be charged, and for no other.
LEMMA HandleFailureInv == ASSUME IInv, HandleFailure PROVE IInv'
<1>1. /\ pc = "failed" /\ Good(job) /\ ~AllDone(job)
      /\ received \subseteq job.translated /\ sent <= job.requests
      /\ job.completedChunks \in Nat /\ job.requests \in Nat /\ attempt \in 0 .. MaxRetries
      /\ Heard /\ failures = IF failure.charged THEN attempt + 1 ELSE attempt
  BY DEF HandleFailure, Good, IInv, RunTypes, Task, Within, InLoop, Kept, Counted, Budgeted
<1>2. /\ UNCHANGED <<paused, discarded, runsLeft, busyLeft, sent, received, failures>>
      /\ busyLeft' \in 0 .. MaxBusy /\ failure'.verdict \in Failure
  BY NoneFails DEF IInv, RunTypes, HandleFailure, bounds, history
<1>3. CASE Throw(job, "paused") /\ UNCHANGED <<attempt, transport>>
  BY <1>1, <1>2, <1>3, PausedInv
<1>4. CASE Throw(job, "error") /\ UNCHANGED <<attempt, transport>>
  <2>1. PICK s \in {"paused", "error"} : s = "error"
    OBVIOUS
  <2>2. Alike(job, job)
    BY DEF Alike
  <2> QED BY <1>1, <1>2, <1>4, <2>1, <2>2, GivenUp
<1>5. CASE /\ Save(job, "wait") /\ transport' \in {"direct", "server"}
           /\ attempt' \in 0 .. MaxRetries /\ failures = attempt'
  <2>1. PICK l \in {"top", "wait", "publish"} : l = "wait"
    OBVIOUS
  <2>2. Save(job, l)
    BY <1>5, <2>1
  <2>3. /\ Good(job') /\ Good(saved') /\ dirty' \in BOOLEAN
        /\ pc' = "saving" /\ next' = l
        /\ Within' /\ Ahead' /\ Kept' /\ Counted' /\ Stopped'
    BY <1>1, <1>2, <2>1, <2>2, Saving
  <2>4. RunTypes'
    BY <1>2, <1>5, <2>1, <2>3 DEF IInv, RunTypes, Good, PC
  <2>5. Heard' /\ Budgeted'
    BY <1>2, <1>5, <2>3 DEF Heard, Budgeted
  <2> QED BY <2>3, <2>4, <2>5 DEF IInv, Good
<1>6. CASE /\ Splittable /\ Save([job EXCEPT !.chunks = SplitChunks(job)], "top")
           /\ UNCHANGED <<attempt, transport>>
  <2>1. PICK l \in {"top", "wait", "publish"} : l = "top"
    OBVIOUS
  <2>2. PICK t : t = [job EXCEPT !.chunks = SplitChunks(job)]
    OBVIOUS
  <2>3. Current.end - Current.start > 1
    BY <1>6 DEF Splittable
  <2>4. /\ Good(t) /\ t.completedChunks = job.completedChunks
        /\ t.translated = job.translated /\ t.requests = job.requests
        /\ \A i \in 1 .. job.completedChunks : t.chunks[i] = job.chunks[i]
    BY <1>1, <2>2, <2>3, SplitGood
  <2>5. Save(t, l)
    BY <1>6, <2>1, <2>2
  <2>6. /\ job.completedChunks <= t.completedChunks /\ job.translated \subseteq t.translated
        /\ job.requests <= t.requests /\ received' \subseteq t.translated
    BY <1>1, <1>2, <2>4
  <2>7. /\ Good(job') /\ Good(saved') /\ dirty' \in BOOLEAN
        /\ pc' = "saving" /\ next' = l
        /\ Within' /\ Ahead' /\ Kept' /\ Counted' /\ Stopped'
    BY <1>1, <1>2, <2>1, <2>4, <2>5, <2>6, Saving
  <2>8. RunTypes'
    BY <1>2, <1>6, <2>1, <2>7 DEF IInv, RunTypes, Good, PC
  <2>9. Heard' /\ Budgeted'
    BY <1>2, <1>6, <2>1, <2>7 DEF IInv, Heard, Budgeted, InLoop
  <2> QED BY <2>7, <2>8, <2>9 DEF IInv, Good
<1>7. CASE ~paused /\ FallBack
  <2>1. failures = attempt /\ attempt' = attempt
    BY <1>1, <1>7 DEF FallBack, FallsBack, Heard
  <2> QED BY <1>1, <1>7, <2>1, <1>5 DEF FallBack
<1>8. CASE Error.rateLimited /\ Save(job, "wait") /\ UNCHANGED <<attempt, transport>>
  <2>1. failures = attempt /\ attempt' = attempt
    BY <1>1, <1>8 DEF Heard
  <2>2. transport' \in {"direct", "server"}
    BY <1>8 DEF IInv, RunTypes
  <2> QED BY <1>1, <1>8, <2>1, <2>2, <1>5
<1>9. CASE /\ ~Error.rateLimited /\ Error.retryable /\ ~LastAttempt
           /\ Save(job, "wait") /\ attempt' = attempt + 1 /\ UNCHANGED transport
  <2>1. failures = attempt + 1
    BY <1>1, <1>9 DEF Heard
  <2>2. attempt' \in 0 .. MaxRetries
    BY <1>1, <1>9, RunnerAssumption DEF LastAttempt
  <2>3. transport' \in {"direct", "server"}
    BY <1>9 DEF IInv, RunTypes
  <2> QED BY <1>9, <2>1, <2>2, <2>3, <1>5
<1> QED BY <1>3, <1>4, <1>6, <1>7, <1>8, <1>9 DEF HandleFailure

\* A save that ends brings storage up to memory.
LEMMA SaveDoneInv == ASSUME IInv, SaveDone PROVE IInv'
<1>1. /\ pc = "saving" /\ saved' = job /\ dirty' = FALSE /\ pc' = next
      /\ next \in {"top", "wait", "publish", "ended"}
      /\ UNCHANGED <<job, next, paused, discarded, attempt, transport, failure,
                     runsLeft, busyLeft, sent, received, failures>>
  BY DEF SaveDone, control, bounds, history, IInv, RunTypes
<1>2. RunTypes'
  BY <1>1 DEF IInv, RunTypes, PC
<1>3. Checkpoint(job)' /\ Checkpoint(saved)'
  BY <1>1 DEF IInv
<1>4. Ahead'
  BY <1>1 DEF IInv, RunTypes, Task, Ahead
<1>5. Kept' /\ Heard' /\ Stopped'
  BY <1>1 DEF IInv, Kept, Heard, Stopped
<1>6. Within' /\ Counted' /\ Budgeted'
  BY <1>1 DEF IInv, Within, InLoop, AllDone, Counted, Budgeted
<1> QED BY <1>2, <1>3, <1>4, <1>5, <1>6 DEF IInv

\* A save that fails ends the run, now or after one more save.
LEMMA SaveFailsInv == ASSUME IInv, SaveFails PROVE IInv'
<1>1. /\ pc = "saving" /\ saved' = saved /\ dirty' = TRUE /\ Good(job) /\ Good(saved)
      /\ UNCHANGED <<paused, discarded, attempt, transport, failure,
                     runsLeft, busyLeft, sent, received, failures>>
  BY DEF SaveFails, control, bounds, history, IInv, RunTypes, Good
<1>2. /\ Good(job') /\ Alike(job, job') /\ job'.requests = job.requests
      /\ pc' = "ended" \/ (pc' = "saving" /\ next' = "ended")
      /\ next' \in {"top", "wait", "publish", "ended"}
  <2>1. CASE pc' = "ended" /\ UNCHANGED <<job, next>>
    BY <1>1, <2>1 DEF Alike, IInv, RunTypes
  <2>2. CASE /\ job' = [job EXCEPT !.status = IF AllDone(job) THEN "completed" ELSE "paused"]
             /\ pc' = "saving" /\ next' = "ended"
    <3>1. PICK q \in {"ready", "paused", "completed", "error"} :
            q = IF AllDone(job) THEN "completed" ELSE "paused"
      OBVIOUS
    <3>2. job' = [job EXCEPT !.status = q]
      BY <2>2, <3>1
    <3> QED BY <1>1, <2>2, <3>2, StatusSet
  <2> QED BY <2>1, <2>2 DEF SaveFails
<1>3. RunTypes'
  BY <1>1, <1>2 DEF IInv, RunTypes, Good, PC
<1>4. Ahead' /\ Kept' /\ Counted'
  BY <1>1, <1>2 DEF IInv, Ahead, Kept, Counted, Alike
<1>5. Within' /\ Heard' /\ Stopped' /\ Budgeted'
  BY <1>1, <1>2 DEF IInv, Within, InLoop, Heard, Stopped, Budgeted
<1> QED BY <1>1, <1>2, <1>3, <1>4, <1>5 DEF IInv, Good

\* So does a registry that cannot be written.
LEMMA RegistryFailsInv == ASSUME IInv, RegistryFails PROVE IInv'
<1>1. /\ pc \in {"wait", "reserve", "publish", "inflight", "failed"}
      /\ Throw(job, "paused") /\ busyLeft' \in 0 .. MaxBusy /\ failure'.verdict \in Failure
      /\ UNCHANGED <<paused, discarded, attempt, transport, failure, runsLeft,
                     sent, received, failures>>
  BY DEF RegistryFails, control, bounds, history, IInv, RunTypes
<1> QED BY <1>1, PausedInv

\* A pause and a stop only leave a mark.
LEMMA MarkInv == ASSUME IInv, Pause \/ Stop PROVE IInv'
<1>1. /\ UNCHANGED <<job, saved, dirty, pc, next, attempt, transport, failure,
                     runsLeft, busyLeft, sent, received, failures>>
      /\ paused' = TRUE /\ discarded' \in BOOLEAN
  BY DEF Pause, Stop, progress, bounds, history, IInv, RunTypes
<1>2. RunTypes'
  BY <1>1 DEF IInv, RunTypes
<1>3. Checkpoint(job)' /\ Checkpoint(saved)' /\ Ahead' /\ Within' /\ Counted'
  BY <1>1 DEF IInv, Ahead, Within, InLoop, AllDone, Counted
<1>4. Kept' /\ Budgeted' /\ Heard' /\ Stopped'
  BY <1>1 DEF IInv, Kept, Budgeted, InLoop, Heard, Error, Stopped
<1> QED BY <1>2, <1>3, <1>4 DEF IInv

\* After a crash memory is what storage says.
LEMMA CrashInv == ASSUME IInv, Crash PROVE IInv'
<1>1. /\ pc' = "off" /\ job' = saved /\ saved' = saved /\ dirty' = FALSE
      /\ received' = saved.translated
      /\ UNCHANGED <<next, paused, discarded, attempt, transport, failure,
                     runsLeft, busyLeft, sent, failures>>
  BY DEF Crash, control, bounds
<1>2. RunTypes'
  BY <1>1 DEF IInv, RunTypes, Task, PC
<1>3. Checkpoint(job)' /\ Checkpoint(saved)'
  BY <1>1 DEF IInv
<1>4. Ahead' /\ Kept' /\ Counted'
  BY <1>1 DEF IInv, RunTypes, Task, Ahead, Kept, Counted
<1>5. Within' /\ Heard' /\ Stopped' /\ Budgeted'
  BY <1>1 DEF IInv, Within, InLoop, Heard, Stopped, Budgeted
<1> QED BY <1>2, <1>3, <1>4, <1>5 DEF IInv

\* A step that changes nothing of the run.
LEMMA StutterInv == ASSUME IInv, Elapse \/ UNCHANGED vars PROVE IInv'
<1>1. UNCHANGED <<job, saved, dirty, pc, next, paused, discarded, attempt, transport,
                  failure, runsLeft, busyLeft, sent, received, failures>>
  BY DEF Elapse, vars, progress, control, bounds, history
<1>2. RunTypes' /\ Checkpoint(job)' /\ Checkpoint(saved)'
  BY <1>1 DEF IInv, RunTypes
<1>3. Ahead' /\ Within' /\ Counted' /\ Kept'
  BY <1>1 DEF IInv, Ahead, Within, InLoop, AllDone, Counted, Kept
<1>4. Budgeted' /\ Heard' /\ Stopped'
  BY <1>1 DEF IInv, Budgeted, InLoop, Heard, Error, Stopped
<1> QED BY <1>2, <1>3, <1>4 DEF IInv

-----------------------------------------------------------------------------
(* The theorems.                                                           *)

\* Every step keeps the invariant.
LEMMA StepInv == ASSUME IInv, [Next]_vars PROVE IInv'
<1>1. CASE Start \/ PersistDirty
  BY <1>1, StartInv, PersistDirtyInv
<1>2. CASE LoopTop \/ Wait \/ ReserveSlot \/ Send
  BY <1>2, LoopTopInv, WaitInv, ReserveSlotInv, SendInv
<1>3. CASE Answered
  <2>1. PICK x \in Exchanges : x.block = Current /\ (AnswerBlock(x) \/ AnswerError(x))
    BY <1>3 DEF Answered
  <2>2. pc = "inflight"
    BY <1>3 DEF Answered
  <2> QED BY <2>1, <2>2, AnswerBlockInv, AnswerErrorInv
<1>4. CASE HandleFailure
  BY <1>4, HandleFailureInv
<1>5. CASE SaveDone \/ SaveFails
  BY <1>5, SaveDoneInv, SaveFailsInv
<1>6. CASE RegistryFails \/ Crash
  BY <1>6, RegistryFailsInv, CrashInv
<1>7. CASE Pause \/ Stop
  BY <1>7, MarkInv
<1>8. CASE Elapse \/ UNCHANGED vars
  BY <1>8, StutterInv
<1> QED BY <1>1, <1>2, <1>3, <1>4, <1>5, <1>6, <1>7, <1>8 DEF Next, Step

\* The invariant holds throughout.
THEOREM Invariance == Spec => []IInv
<1> QED BY InitInv, StepInv, PTL DEF Spec

-----------------------------------------------------------------------------
(* The provider: waits and requests that reached it.  These need IInv.     *)

\* A wait that is owed is on record or about to be, and no slot is held while one is.
Owing ==
    /\ owed => cooling \/ (pc = "failed" /\ Error.wait > 0)
    /\ pc \in {"publish", "inflight"} \/ (pc = "saving" /\ next = "publish") => ~cooling

\* A request that failed at the provider was charged, or turned the run to the server.
Asking ==
    /\ arrived <= failures + 1
    /\ InLoop /\ transport = "direct" /\ (pc = "failed" => ~Error.unreachable)
          => arrived <= failures

PInv == ProviderTypes /\ Owing /\ Asking

\* The steps that handle no answer.
LEMMA QuietSteps ==
    ASSUME IInv, PInv,
           \/ PersistDirty \/ Wait \/ ReserveSlot \/ Send \/ SaveDone \/ SaveFails \/ RegistryFails
           \/ Pause \/ Stop \/ Crash \/ Elapse \/ UNCHANGED vars
    PROVE  PInv'
<1>1. /\ ProviderTypes' /\ UNCHANGED <<transport, failure>>
      /\ arrived' = arrived /\ failures' = failures
  BY DEF PInv, ProviderTypes, PersistDirty, Wait, ReserveSlot, Send, SaveDone, SaveFails,
     RegistryFails, Pause, Stop, Crash, Elapse, vars, control, history, cooldown
<1>2. next \in {"top", "wait", "publish", "ended"}
  BY DEF IInv, RunTypes
<1>3. InLoop' => InLoop
  BY <1>2 DEF InLoop, PersistDirty, Wait, ReserveSlot, Send, SaveDone, SaveFails,
     RegistryFails, Pause, Stop, Crash, Elapse, vars, Goto, Throw, Save, progress
<1>4. pc' = "failed" => pc = "failed"
  BY <1>2 DEF PersistDirty, Wait, ReserveSlot, Send, SaveDone, SaveFails,
     RegistryFails, Pause, Stop, Crash, Elapse, vars, Goto, Throw, Save, progress
<1>5. pc = "failed" /\ pc' # "failed" => RegistryFails \/ Crash
  BY DEF PersistDirty, Wait, ReserveSlot, Send, SaveDone, SaveFails, Pause, Stop, Elapse, vars, progress
<1>6. Asking'
  <2>1. pc = "failed" /\ pc' # "failed" => ~InLoop'
    BY <1>5 DEF RegistryFails, Crash, Throw, Save, InLoop
  <2> QED BY <1>1, <1>3, <1>4, <2>1 DEF PInv, Asking, Error
<1>7. owed' => cooling' \/ (pc' = "failed" /\ Error'.wait > 0)
  <2>1. CASE Elapse \/ RegistryFails \/ Crash
    BY <2>1, <1>1 DEF PInv, ProviderTypes, Owing, Elapse, RegistryFails, Crash, history
  <2>2. CASE ~(Elapse \/ RegistryFails \/ Crash)
    <3>1. owed' = owed /\ cooling' = cooling
      BY <2>2 DEF PersistDirty, Wait, ReserveSlot, Send, SaveDone, SaveFails, Pause, Stop,
         vars, cooldown
    <3> QED BY <3>1, <2>2, <1>1, <1>5 DEF PInv, Owing, Error
  <2> QED BY <2>1, <2>2
<1>8. pc' \in {"publish", "inflight"} \/ (pc' = "saving" /\ next' = "publish") => ~cooling'
  <2>1. cooling' => cooling
    BY DEF PersistDirty, Wait, ReserveSlot, Send, SaveDone, SaveFails, RegistryFails, Pause,
       Stop, Crash, Elapse, vars, cooldown
  <2>2. CASE ReserveSlot
    BY <2>2 DEF ReserveSlot, Throw, Save, cooldown
  <2> DEFINE Holding == pc \in {"publish", "inflight"} \/ (pc = "saving" /\ next = "publish")
  <2>3. CASE PersistDirty \/ Wait \/ SaveFails \/ RegistryFails \/ Crash
    <3>1. ~Holding' \/ UNCHANGED <<pc, next>>
      BY <2>3 DEF PersistDirty, Wait, SaveFails, RegistryFails, Crash, Goto, Throw, Save
    <3> QED BY <2>1, <3>1 DEF PInv, Owing
  <2>4. CASE Send \/ SaveDone
    <3>1. Holding' => Holding
      BY <2>4, <1>2 DEF Send, SaveDone, Goto, Throw, Save
    <3> QED BY <2>1, <3>1 DEF PInv, Owing
  <2>5. CASE Pause \/ Stop \/ Elapse \/ UNCHANGED vars
    <3>1. UNCHANGED <<pc, next>>
      BY <2>5 DEF Pause, Stop, Elapse, vars
    <3> QED BY <2>1, <3>1 DEF PInv, Owing
  <2> QED BY <2>2, <2>3, <2>4, <2>5
<1> QED BY <1>1, <1>6, <1>7, <1>8 DEF PInv, Owing

\* A run or a block that begins has nothing charged to it.
LEMMA FreshSteps == ASSUME IInv, PInv, Start \/ LoopTop PROVE PInv'
<1>1. arrived' = 0 /\ failures' = 0 /\ owed' = owed /\ cooling' = cooling
  BY DEF Start, LoopTop, cooldown
<1>2. pc # "failed" /\ pc' \notin {"publish", "inflight"} /\ ~(pc' = "saving" /\ next' = "publish")
  BY DEF Start, LoopTop, Goto, Throw, Save
<1> QED BY <1>1, <1>2 DEF PInv, ProviderTypes, Owing, Asking

\* An answer that is a block says nothing of waits.
LEMMA BlockStep ==
    ASSUME IInv, PInv, pc = "inflight", NEW x \in Exchanges, AnswerBlock(x)
    PROVE  PInv'
<1>1. /\ UNCHANGED <<transport, failure>> /\ arrived' = arrived /\ failures' = failures
      /\ owed' = owed /\ cooling' = cooling
  BY DEF AnswerBlock, control, cooldown
<1>2. /\ pc' \notin {"publish", "inflight", "failed"} /\ ~InLoop'
      /\ ~(pc' = "saving" /\ next' = "publish")
  BY DEF AnswerBlock, Throw, Save, InLoop
<1> QED BY <1>1, <1>2 DEF PInv, ProviderTypes, Owing, Asking

\* A failure: the wait it asks for is owed if the page is shown it, and if the request
\* reached the provider it is charged or turns the run to the server.
LEMMA ErrorStep ==
    ASSUME IInv, PInv, pc = "inflight", NEW x \in Exchanges, x.route = transport, AnswerError(x)
    PROVE  PInv'
<1>1. cooling' = cooling /\ transport' = transport /\ arrived \in Nat /\ failures \in Nat
  BY DEF AnswerError, IInv, RunTypes, PInv, ProviderTypes
<1>2. CASE Throw(job, "paused") /\ UNCHANGED <<failure, failures, arrived, owed>>
  <2>1. /\ pc' \notin {"publish", "inflight", "failed"} /\ ~InLoop'
        /\ ~(pc' = "saving" /\ next' = "publish")
    BY <1>2 DEF Throw, Save, InLoop
  <2> QED BY <1>1, <1>2, <2>1 DEF PInv, ProviderTypes, Owing, Asking
<1>3. CASE /\ Goto("failed") /\ failure' = x
           /\ failures' = IF x.charged THEN failures + 1 ELSE failures
           /\ arrived' = IF x.reached THEN arrived + 1 ELSE arrived
           /\ owed' = (owed \/ (x.end # "masked" /\ x.asked > 0))
  <2>1. pc' = "failed" /\ Error' = x.verdict
    BY <1>3 DEF Goto, Error
  <2>2. x.verdict \in Failure
    BY DEF AnswerError, Accepted
  <2>3. /\ x.end # "masked" => x.verdict.wait = x.asked
        /\ x.reached => x.charged \/ x.verdict.unreachable
        /\ x.verdict.unreachable => x.route = "direct"
    BY <2>2, ExchangeFacts
  <2>4. ~owed
    BY DEF PInv, Owing
  <2>5. Owing'
    <3>1. owed' => x.end # "masked" /\ x.asked > 0
      BY <1>3, <2>4
    <3> QED BY <2>1, <2>3, <3>1 DEF Owing
  <2>6. arrived <= failures + 1 /\ (transport = "direct" => arrived <= failures)
    BY DEF PInv, Asking, InLoop
  <2>7. Asking'
    <3>1. CASE x.charged
      <4>1. failures' = failures + 1 /\ arrived' \in {arrived, arrived + 1}
        BY <1>3, <3>1
      <4> QED BY <1>1, <2>6, <4>1 DEF Asking
    <3>2. CASE ~x.charged /\ x.reached
      <4>1. failures' = failures /\ arrived' = arrived + 1
        BY <1>3, <3>2
      <4>2. Error'.unreachable /\ transport = "direct"
        BY <2>1, <2>3, <3>2
      <4> QED BY <1>1, <2>1, <2>6, <4>1, <4>2 DEF Asking
    <3>3. CASE ~x.charged /\ ~x.reached
      <4>1. failures' = failures /\ arrived' = arrived
        BY <1>3, <3>3
      <4> QED BY <1>1, <2>6, <4>1 DEF Asking
    <3> QED BY <3>1, <3>2, <3>3
  <2>8. ProviderTypes'
    BY <1>1, <1>3, <2>4 DEF PInv, ProviderTypes
  <2> QED BY <2>5, <2>7, <2>8 DEF PInv
<1> QED BY <1>2, <1>3 DEF AnswerError

\* A failure that is handled is on the credential's record.
LEMMA HandledStep == ASSUME IInv, PInv, HandleFailure PROVE PInv'
<1>1. /\ pc = "failed" /\ cooling' = (cooling \/ Error.wait > 0) /\ owed' = owed
      /\ arrived' = arrived /\ failures' = failures
  BY DEF HandleFailure, Cool, history
<1>2. /\ pc' \notin {"publish", "inflight", "failed"} /\ ~(pc' = "saving" /\ next' = "publish")
      /\ transport' = "direct" /\ InLoop' => transport = "direct" /\ ~Error.unreachable
  BY DEF HandleFailure, FallBack, FallsBack, Throw, Save, InLoop
<1>3. ProviderTypes'
  BY <1>1 DEF PInv, ProviderTypes
<1>4. Asking'
  BY <1>1, <1>2 DEF PInv, Asking, InLoop
<1>5. Owing'
  BY <1>1, <1>2 DEF PInv, Owing
<1> QED BY <1>3, <1>4, <1>5 DEF PInv

\* Every step keeps it.
LEMMA ProviderStep == ASSUME IInv, PInv, [Next]_vars PROVE PInv'
<1>1. CASE Answered
  <2>1. PICK x \in Exchanges : x.route = transport /\ (AnswerBlock(x) \/ AnswerError(x))
    BY <1>1 DEF Answered
  <2>2. pc = "inflight"
    BY <1>1 DEF Answered
  <2> QED BY <2>1, <2>2, BlockStep, ErrorStep
<1>2. CASE ~Answered
  BY <1>2, QuietSteps, FreshSteps, HandledStep DEF Next, Step
<1> QED BY <1>1, <1>2

\* At first nothing is owed and nothing has failed.
LEMMA ProviderInit == Init => PInv
<1> SUFFICES ASSUME Init PROVE PInv
  OBVIOUS
<1>1. arrived = 0 /\ failures = 0 /\ cooling = FALSE /\ owed = FALSE /\ pc = "off"
  BY DEF Init
<1>2. Asking
  BY <1>1 DEF Asking
<1>3. ProviderTypes /\ Owing
  BY <1>1, ZenonT(20) DEF ProviderTypes, Owing
<1> QED BY <1>2, <1>3 DEF PInv

\* Both invariants together.
THEOREM ProviderInvariance == Spec => [](IInv /\ PInv)
<1>1. IInv /\ PInv /\ [Next]_vars => (IInv /\ PInv)'
  BY StepInv, ProviderStep
<1>2. Init => IInv /\ PInv
  BY InitInv, ProviderInit
<1> QED BY <1>1, <1>2, PTL DEF Spec

\* Whatever is split, paused, refused, badly answered or killed: the blocks tile the
\* document and exactly those finished are translated, in memory and in storage.
THEOREM BlocksStayWhole == Spec => []WholeBlocks
<1>1. IInv /\ PInv => WholeBlocks
  BY DEF IInv, PInv, TypeOK, WholeBlocks
<1> QED BY <1>1, ProviderInvariance, PTL

\* A run's end loses no block that came back.
THEOREM BlocksAreKept == Spec => []BlockKept
<1>1. IInv => BlockKept
  BY DEF IInv, Kept, BlockKept
<1> QED BY <1>1, Invariance, PTL

\* No request goes out uncounted.
THEOREM RequestsAreCounted == Spec => []CountedFirst
<1>1. IInv => CountedFirst
  BY DEF IInv, Counted, CountedFirst
<1> QED BY <1>1, Invariance, PTL

\* The budget of a block is used up by the failures that are to be charged and by nothing
\* else, and the provider is asked once more than that at most.
THEOREM BudgetIsKept == Spec => []RetryBudget
<1>1. ASSUME IInv, PInv PROVE RetryBudget
  <2>1. attempt \in 0 .. MaxRetries /\ failures \in {attempt, attempt + 1}
    BY <1>1 DEF IInv, RunTypes, Budgeted
  <2>2. arrived \in Nat /\ arrived <= failures + 1
    BY <1>1 DEF PInv, ProviderTypes, Asking
  <2> QED BY <2>1, <2>2, RunnerAssumption DEF RetryBudget
<1> QED BY <1>1, ProviderInvariance, PTL

\* Every Retry-After the page is shown is heard, and over before the next request.
THEOREM WaitsAreHeard == Spec => []RetryAfterHeard
<1>1. ASSUME IInv, PInv PROVE RetryAfterHeard
  BY <1>1 DEF IInv, Heard, PInv, Owing, RetryAfterHeard
<1> QED BY <1>1, ProviderInvariance, PTL

\* Only a request that was neither cut off nor answered is sent again by the other route.
THEOREM OnlyBlockedFallsBack == Spec => FallbackOnlyBlocked
<1>1. ASSUME IInv, [Next]_vars, transport' = "server", transport # transport'
      PROVE  failure.cut = "no" /\ failure.end = "lost"
  <2>1. HandleFailure /\ FallBack
    BY <1>1 DEF Next, Step, Start, PersistDirty, LoopTop, Wait, ReserveSlot, Send, Answered,
       AnswerBlock, AnswerError, HandleFailure, SaveDone, SaveFails, RegistryFails, Pause,
       Stop, Crash, Elapse, vars, control
  <2>2. pc = "failed" /\ Error.unreachable
    BY <2>1 DEF HandleFailure, FallBack, FallsBack
  <2> QED BY <1>1, <2>2 DEF IInv, Heard
<1> QED BY <1>1, Invariance, PTL DEF Spec, FallbackOnlyBlocked

\* stop() is the end of all writing.
THEOREM StopIsFinal == Spec => NothingAfterStop
<1>1. ASSUME IInv, [Next]_vars, discarded', pc' = "saving"
      PROVE  pc = "saving" /\ next' = next
  <2>1. Stopped
    BY <1>1 DEF IInv
  <2>2. ASSUME discarded, NEW t, NEW s, Throw(t, s) PROVE FALSE
    BY <1>1, <2>2 DEF Throw
  <2>3. ~Start /\ ~PersistDirty
    BY <1>1 DEF Start, PersistDirty
  <2>4. ~LoopTop /\ ~Wait /\ ~ReserveSlot
    BY <1>1, <2>1, <2>2 DEF LoopTop, Wait, ReserveSlot, Goto, Stopped, control
  <2>5. ~Send
    BY <1>1, <2>1, <2>2 DEF Send, Goto, Stopped, control
  <2>6. ~Answered
    BY <1>1, <2>2 DEF Answered, AnswerBlock, AnswerError, Goto, control
  <2>7. ~HandleFailure
    BY <1>1, <2>1, <2>2 DEF HandleFailure, Stopped
  <2>8. ~RegistryFails /\ ~Crash
    BY <1>1, <2>2 DEF RegistryFails, Crash, control
  <2>9. SaveDone \/ SaveFails \/ Pause \/ Stop \/ Elapse \/ UNCHANGED vars
    BY <1>1, <2>3, <2>4, <2>5, <2>6, <2>7, <2>8 DEF Next, Step
  <2> QED BY <1>1, <2>9 DEF SaveDone, SaveFails, Pause, Stop, Elapse, vars, progress, control
<1> QED BY <1>1, Invariance, PTL DEF Spec, NothingAfterStop

\* Finished blocks stand in storage.
THEOREM FinishedBlocksStand == Spec => FinishedStand
<1> DEFINE Stand == /\ saved.completedChunks <= saved'.completedChunks
                    /\ \A i \in 1 .. saved.completedChunks : saved'.chunks[i] = saved.chunks[i]
<1>1. ASSUME IInv, [Next]_vars PROVE Stand
  <2>1. saved.completedChunks \in Nat /\ Ahead
    BY <1>1 DEF IInv, RunTypes, Task
  <2>2. saved' \in {saved, job}
    BY <1>1 DEF Next, Step, Start, PersistDirty, LoopTop, Wait, ReserveSlot, Send, Answered,
       AnswerBlock, AnswerError, HandleFailure, FallBack, SaveDone, SaveFails, RegistryFails,
       Pause, Stop, Crash, Elapse, Throw, Save, Goto, vars, progress
  <2> QED BY <2>1, <2>2 DEF Ahead
<1> QED BY <1>1, Invariance, PTL DEF Spec, FinishedStand

=============================================================================
