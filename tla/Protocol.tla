------------------------------ MODULE Protocol ------------------------------
(***************************************************************************)
(* What one request to the model comes to, without its timing: translate   *)
(* and parseTranslation of src/web/src/translation.ts, over the direct     *)
(* route (fetch) or the relay of src/internal/server/server.go and         *)
(* src/internal/relay/client.go, whose answers transport.ts reads.         *)
(*                                                                         *)
(* A course says what really happened, whether the request reached the     *)
(* provider included.  Translate maps it to what the page makes of it: the *)
(* cues translated, or a Failure, which is the APIError thrown.  Wording   *)
(* is left out.                                                            *)
(***************************************************************************)
EXTENDS Integers, Sequences, FiniteSets

CONSTANTS
    Status, \* HTTP status codes of the provider's answers that are no success
    Waits   \* what Retry-After and retryAfter may say, in seconds

ASSUME ProtocolAssumption ==
    /\ Status \subseteq 300 .. 599 /\ 200 \notin Status
    /\ Waits \subseteq Nat /\ 0 \in Waits

Least(a, b) == IF a <= b THEN a ELSE b

-----------------------------------------------------------------------------
(* Results.                                                                *)

Failure == [unreachable : BOOLEAN, retryable : BOOLEAN, wait : 0 .. 3600,
            rateLimited : BOOLEAN, structure : BOOLEAN]

APIError(retryable, wait, rateLimited, structure) ==
    [unreachable |-> FALSE, retryable |-> retryable, wait |-> wait,
     rateLimited |-> rateLimited, structure |-> structure]
Fatal == APIError(FALSE, 0, FALSE, FALSE)
Passing == APIError(TRUE, 0, FALSE, FALSE)
Mismatch == APIError(TRUE, 0, FALSE, TRUE)
\* DirectConnectionError
Unreachable == [unreachable |-> TRUE, retryable |-> FALSE, wait |-> 0,
                rateLimited |-> FALSE, structure |-> FALSE]

Result(ids) == [translated |-> ids]
Accepted(v) == v \notin Failure

-----------------------------------------------------------------------------
(* The reply's text.  A line translates a cue; its text may be blank, or   *)
(* other tags may stand in it than in the cue.                             *)

Line(ids) == [cue : ids, text : {"good", "blank", "retagged"}]

\* The i-th line does not belong here.
Odd(ids, lines, i) ==
    \/ lines[i].cue \notin ids
    \/ \E k \in 1 .. i - 1 : lines[k].cue = lines[i].cue
    \/ lines[i].text = "blank"

\* parseTranslation: the first bad line decides.
ParseTranslation(ids, lines) ==
    LET bad == {i \in 1 .. Len(lines) : Odd(ids, lines, i) \/ lines[i].text = "retagged"}
        first == CHOOSE i \in bad : \A k \in bad : i <= k
    IN  CASE Len(lines) # Cardinality(ids) -> Mismatch
          [] Len(lines) = Cardinality(ids) /\ bad = {} ->
                Result({lines[i].cue : i \in 1 .. Len(lines)})
          [] OTHER -> IF Odd(ids, lines, first) THEN Mismatch ELSE Passing

-----------------------------------------------------------------------------
(* The provider's answer.  Its body may be cut off or too large            *)
(* ("unreadable"), be no completion at all ("strange"), have been stopped  *)
(* at the token limit ("length"), or be a text with lines.                 *)

Body(kind, lines) == [kind |-> kind, lines |-> lines]
Nothing == Body("strange", <<>>)
Answer(status, wait, body) == [status |-> status, wait |-> wait, body |-> body]

\* retryAfter, upstreamError, readCompletion and the rest of translate, for a
\* response that is the provider's.
Read(ids, a) ==
    CASE a.status # 200 ->
            APIError(a.status \in {408, 429} \/ a.status >= 500, Least(3600, a.wait), FALSE, FALSE)
      [] a.status = 200 /\ a.body.kind = "text" -> ParseTranslation(ids, a.body.lines)
      [] a.status = 200 /\ a.body.kind = "length" -> Fatal
      [] OTHER -> Passing

-----------------------------------------------------------------------------
(* The relay.  Its response carries X-Muyu-Upstream if it is the           *)
(* provider's; else it is the server's own, with an error in JSON, or some *)
(* proxy's with none.                                                      *)

NoError == [json |-> FALSE, retryable |-> FALSE, rateLimited |-> FALSE, wait |-> 0]
JSONError(retryable, rateLimited, wait) ==
    [json |-> TRUE, retryable |-> retryable, rateLimited |-> rateLimited, wait |-> wait]
Own(status, error) == [upstream |-> FALSE, answer |-> Answer(status, 0, Nothing), error |-> error]

\* The limiter has no slot.
Throttled(wait) == Own(429, JSONError(TRUE, TRUE, wait))
\* decode, Validate or Endpoint refuses the request.
Rejected == Own(400, JSONError(FALSE, FALSE, 0))
\* No connection to the provider, no complete answer, or not in time.
Silent == Own(502, JSONError(TRUE, FALSE, 0))

\* Fault: only the status of a failed answer is passed on.
RelayedBare(a) ==
    IF a.status = 200 /\ a.body.kind = "unreadable" THEN Silent
    ELSE [upstream |-> TRUE, error |-> NoError,
          answer |-> IF a.status = 200 THEN a ELSE Answer(a.status, 0, Nothing)]

\* Forward and relay: a failed answer without its body.
Relayed(a) ==
    IF a.status = 200 /\ a.body.kind = "unreadable" THEN Silent
    ELSE [upstream |-> TRUE, error |-> NoError,
          answer |-> IF a.status = 200 THEN a ELSE Answer(a.status, a.wait, Nothing)]

\* middleware, decode, relay: where the request gets to.
Relay(c) ==
    CASE c.end = "refused" -> Throttled(c.wait)
      [] c.end = "rejected" -> Rejected
      [] c.end = "silent" -> Silent
      [] c.end = "proxy" -> Own(c.answer.status, NoError)
      [] c.end = "answered" -> Relayed(c.answer)

\* Fault: the refusal is not told from other failures.
ServerErrorPlain(r) ==
    IF ~r.error.json THEN APIError(r.answer.status >= 500, 0, FALSE, FALSE)
    ELSE APIError(r.error.retryable, Least(3600, r.error.wait), FALSE, FALSE)

ServerError(r) ==
    IF ~r.error.json THEN APIError(r.answer.status >= 500, 0, FALSE, FALSE)
    ELSE APIError(r.error.retryable, Least(3600, r.error.wait),
                  r.answer.status = 429 /\ r.error.rateLimited, FALSE)

-----------------------------------------------------------------------------
(* The whole exchange.                                                     *)

\* validateRequest and directEndpoint refuse what is not sent at all, as too long a
\* text or an address that is none.
Invalid == Fatal

\* What the try block of translate returns or throws.  fetch rejects alike when there
\* is no connection, when it drops after the request has left, and when the browser
\* withholds the response or refuses a redirect.  Of an answer from another origin
\* the page reads Retry-After only if the provider exposes it; else it is "masked".
Direct(ids, c) ==
    CASE c.end = "lost" -> Unreachable
      [] c.end = "masked" -> Read(ids, [c.answer EXCEPT !.wait = 0])
      [] c.end = "answered" -> Read(ids, c.answer)
Post(ids, c) ==
    IF c.end = "lost" THEN Passing
    ELSE LET r == Relay(c) IN IF r.upstream THEN Read(ids, r.answer) ELSE ServerError(r)

\* Fault: a timeout looks like a lost connection.
CaughtAbort(v, c) == IF c.cut = "abort" THEN Fatal ELSE v

\* Its catch: an abort or the timeout has cut off whatever was awaited.
Caught(v, c) == IF c.cut = "abort" THEN Fatal ELSE IF c.cut = "timeout" THEN Passing ELSE v

Translate(route, ids, c) ==
    IF c.end = "invalid" THEN Invalid
    ELSE Caught(IF c.cut # "no" THEN IF route = "direct" THEN Unreachable ELSE Fatal
                ELSE IF route = "direct" THEN Direct(ids, c) ELSE Post(ids, c), c)

\* Every course of a request for the cues ids.  A wrong number of lines is told
\* apart by the number alone.
Failed == {Answer(s, w, Nothing) : s \in Status, w \in Waits}
Bare == {Answer(200, 0, Body(k, <<>>)) : k \in {"strange", "unreadable", "length", "text"}}
Texts(ids) == {Answer(200, 0, Body("text", l)) : l \in [1 .. Cardinality(ids) -> Line(ids \cup {-1})]}
Answers(ids) == Failed \cup Bare \cup Texts(ids)
Course(end, wait, answer, cut, reached) ==
    [end |-> end, wait |-> wait, answer |-> answer, cut |-> cut, reached |-> reached]
Unanswered == Answer(200, 0, Nothing)
Unsent(end, wait) == Course(end, wait, Unanswered, "no", FALSE)

\* Of a request that was lost, or that some station between reports as failed, nobody
\* at this end can say whether it reached the provider.
AnsweredOnes(ids) == {Course("answered", 0, a, "no", TRUE) : a \in Answers(ids)}
MaskedOnes == {Course("masked", 0, a, "no", TRUE) : a \in Failed}
Lost(cut) == {Course("lost", 0, Unanswered, cut, r) : r \in BOOLEAN}
LostOnes == UNION {Lost(cut) : cut \in {"no", "timeout", "abort"}}
RefusedOnes == {Unsent("refused", w) : w \in Waits}
SilentOnes == {Course("silent", 0, Unanswered, "no", r) : r \in BOOLEAN}
Proxied(s) == {Course("proxy", 0, Answer(s, 0, Nothing), "no", r) : r \in BOOLEAN}
ProxiedOnes == UNION {Proxied(s) : s \in Status}

Courses(route, ids) ==
    AnsweredOnes(ids) \cup LostOnes \cup {Unsent("invalid", 0)}
      \cup IF route = "direct" THEN MaskedOnes
           ELSE RefusedOnes \cup {Unsent("rejected", 0)} \cup SilentOnes \cup ProxiedOnes

\* The failures an attempt is charged for: all but those that show that the model was
\* not asked and those by which the browser turns to the server.
Charged(route, c) ==
    ~(c.end \in {"invalid", "refused", "rejected"} \/ (route = "direct" /\ c.end = "lost" /\ c.cut = "no"))

\* The wait that the provider or the limiter asked for, in seconds.
Told(a) == IF a.status = 200 THEN 0 ELSE Least(3600, a.wait)
Asked(c) ==
    CASE c.end = "refused" -> Least(3600, c.wait)
      [] c.end \in {"answered", "masked"} -> Told(c.answer)
      [] OTHER -> 0

=============================================================================
