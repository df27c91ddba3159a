------------------------------ MODULE RateLimits ------------------------------
(***************************************************************************)
(* RateLimits: the limits that the server's answers put on the categories  *)
(* of what a transport sends (internal/ratelimit, internal/util).          *)
(*                                                                         *)
(* An answer carries an X-Sentry-Rate-Limits header, a list of durations   *)
(* each with its categories, or, when it is a 429, a Retry-After header of *)
(* its own kind.  The transport merges what it parses into its map of      *)
(* deadlines, one by category and one for all, and asks the map before it  *)
(* sends; goroutines send at the same time, and an answer comes any time   *)
(* after.                                                                  *)
(*                                                                         *)
(* Headers are what is left of them when they are split: a duration in     *)
(* half seconds, so that fractions occur, and words for categories.  A     *)
(* number whose duration in nanoseconds overflows wraps to some other: the *)
(* half seconds stand for it too.                                          *)
(***************************************************************************)
EXTENDS Integers, Sequences, SequencesExt

CONSTANTS
  Response,           \* the answers of the server
  Envelope,           \* what is sent: the types of an envelope's items
  DefaultRetryAfter,  \* seconds, when a 429 does not say
  NumAnswers,         \* bound: answers
  NumSending,         \* bound: envelopes that are being sent
  Horizon             \* bound: the time at which the clock stops

ASSUME RateAssumption == DefaultRetryAfter \in Nat /\ Horizon \in Nat

\* What splitting leaves of the headers.
ASSUME ResponseAssumption ==
  \A response \in Response :
    /\ response.header \in Seq([number : BOOLEAN, after : Int, categories : Seq(STRING)])
    /\ response.retry.value \in Int

VARIABLES
  now,       \* the clock, in seconds
  limits,    \* the transport's map of deadlines
  sending,   \* the number of envelopes that are being sent
  answers,   \* the number of answers that came
  told       \* ghost: what the server said: a category, and until when

rateVars == <<now, limits, sending, answers, told>>

All == ""
Known == {All, "error", "transaction", "log_item", "monitor", "trace_metric"}

\* The zero time, which is before any.
Never == -1

-----------------------------------------------------------------------------
(* The map.                                                                 *)

None == [c \in Known |-> Never]

Later(d, e) == IF d > e THEN d ELSE e

\* A fault: the answer that came last has the say.
MergeLast(m, other) == [c \in Known |-> IF other[c] # Never THEN other[c] ELSE m[c]]

Merge(m, other) == [c \in Known |-> Later(other[c], m[c])]

Deadline(m, c) == IF c \in Known THEN Later(m[c], m[All]) ELSE m[All]

IsRateLimited(m, c) == Deadline(m, c) > now

CategoryOf ==
  [event |-> "error", transaction |-> "transaction", check_in |-> "monitor", log |-> "log_item"]

\* What goes along in an envelope, attachments and client reports, comes after
\* what the envelope is of; only attachments may come before.
ASSUME EnvelopeAssumption ==
  \A envelope \in Envelope :
    /\ envelope \in Seq(STRING)
    /\ \A i \in DOMAIN envelope : envelope[i] \in DOMAIN CategoryOf =>
         \A j \in 1 .. i : envelope[j] \in DOMAIN CategoryOf \cup {"attachment"}

\* The first item that is no attachment decides.  Metrics have no case.
CategoryFromEnvelope(envelope) ==
  LET decides == {i \in DOMAIN envelope : \A j \in 1 .. i : envelope[j] = "attachment" <=> j # i}
  IN IF \E i \in decides : envelope[i] \in DOMAIN CategoryOf
     THEN CategoryOf[envelope[CHOOSE i \in decides : TRUE]] ELSE All

-----------------------------------------------------------------------------
(* Reading the headers.                                                     *)

\* Negative numbers count as zero, fractions as the next second, and so does
\* what is a number but has no duration: NaN and the infinite.
XSRLRetryAfter(after) == now + IF after > 0 THEN (after + 1) \div 2 ELSE 0

\* A category as written, without blanks and in lower case.
Word(written) ==
  CASE written = " Error" -> "error"
    [] written = " " -> All
    [] OTHER -> written

\* What follows the second colon is ignored; without a first there is one
\* empty category.
Categories(limit) == IF limit.categories = <<>> THEN <<All>> ELSE limit.categories

\* Each word in turn moves the deadline of its category, if that is known, further
\* into the future.
Prolong(m, c, deadline) == IF c \in Known THEN [m EXCEPT ![c] = Later(deadline, m[c])] ELSE m

ParseLimit(m, limit) ==
  LET words == Categories(limit)
      read[i \in 0 .. Len(words)] ==
        IF i = 0 THEN m ELSE Prolong(read[i - 1], Word(words[i]), XSRLRetryAfter(limit.after))
  IN read[Len(words)]

ParseXSentryRateLimits(header) ==
  LET read[i \in 0 .. Len(header)] ==
        IF i = 0 THEN None
        ELSE IF header[i].number THEN ParseLimit(read[i - 1], header[i]) ELSE read[i - 1]
  IN read[Len(header)]

\* A count of seconds, a date, or anything else.
ParseRetryAfter(retry) ==
  CASE retry.form = "seconds" /\ retry.value >= 0 -> now + retry.value
    [] retry.form = "date" -> retry.value
    [] OTHER -> now + DefaultRetryAfter

FromResponse(response) ==
  CASE response.header # <<>> -> ParseXSentryRateLimits(response.header)
    [] response.header = <<>> /\ response.status = 429 ->
         [None EXCEPT ![All] = ParseRetryAfter(response.retry)]
    [] OTHER -> None

-----------------------------------------------------------------------------
RateInit ==
  /\ now = 0
  /\ limits = None
  /\ sending = 0
  /\ answers = 0
  /\ told = {}

\* What an answer says, read off without order: each category of each limit
\* that has a number is limited for that long.
Said(response) ==
  LET seconds(after) == IF after <= 0 THEN 0 ELSE CHOOSE s \in 1 .. after : 2 * s \in {after, after + 1}
      words(limit) == {Word(w) : w \in ToSet(Categories(limit))}
      valid == {limit \in ToSet(response.header) : limit.number}
      retry == response.retry
  IN CASE response.header # <<>> ->
            UNION {{<<c, now + seconds(limit.after)>> : c \in words(limit)} : limit \in valid}
       [] response.header = <<>> /\ response.status = 429 ->
            {<<All, IF retry.form = "date" THEN retry.value
                    ELSE now + IF retry.form = "seconds" /\ retry.value >= 0 THEN retry.value
                               ELSE DefaultRetryAfter>>}
       [] OTHER -> {}

\* What is limited, or empty, is not sent.
SendEnvelope(envelope) ==
  /\ envelope # <<>> /\ ~IsRateLimited(limits, CategoryFromEnvelope(envelope))
  /\ sending < NumSending
  /\ sending' = sending + 1
  /\ UNCHANGED <<now, limits, answers, told>>

\* The request cannot be made, or nothing comes back.
SendFails ==
  /\ sending > 0
  /\ sending' = sending - 1
  /\ UNCHANGED <<now, limits, answers, told>>

\* DoSendRequest, and the merge under the transport's lock.
Answer(response) ==
  /\ sending > 0 /\ answers < NumAnswers
  /\ sending' = sending - 1
  /\ answers' = answers + 1
  /\ limits' = Merge(limits, FromResponse(response))
  /\ told' = told \cup Said(response)
  /\ UNCHANGED now

Elapse ==
  /\ now < Horizon
  /\ now' = now + 1
  /\ UNCHANGED <<limits, sending, answers, told>>

RateNext ==
  \/ Elapse \/ SendFails
  \/ \E envelope \in Envelope : SendEnvelope(envelope)
  \/ \E response \in Response : Answer(response)

RateSpec == RateInit /\ [][RateNext]_rateVars

-----------------------------------------------------------------------------
Told(c) == \E t \in told : t[2] > now /\ t[1] \in IF c \in Known THEN {c, All} ELSE {All}

\* A category is limited exactly when the server, in some answer, gave it or
\* all categories a time that has not come yet, whatever the order of answers,
\* of the limits of one, and of the categories of one limit; a name that is not
\* known limits nothing.  An envelope is held back with the category of one of its
\* items, and never but for what the server said of one; of metrics this is only
\* what it said of all.
LimitsTrue ==
  /\ \A c \in Known \cup {"span", "unknown"} : IsRateLimited(limits, c) <=> Told(c)
  /\ \A envelope \in Envelope :
       LET held == IsRateLimited(limits, CategoryFromEnvelope(envelope))
           sorts == {CategoryOf[type] : type \in ToSet(envelope) \cap DOMAIN CategoryOf}
       IN /\ held => Told(All) \/ \E c \in sorts : Told(c)
          /\ Told(All) \/ (sorts # {} /\ \A c \in sorts : Told(c)) => held

=============================================================================
